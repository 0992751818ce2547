----------------------------- MODULE PluginTable -----------------------------
(***************************************************************************)
(* What every manager promises of its plug-ins: at most TableMax of them,  *)
(* one for a name; a plug-in of a known name takes the place of the other, *)
(* also when the table is full; and a name finds the plug-in that was the  *)
(* last to be registered under it.                                         *)
(***************************************************************************)
EXTENDS Naturals, FiniteSets

CONSTANTS Names, Copies, TableMax, NoOps

VARIABLES plugins,    \* the plug-ins of the table, one for a name
          answer      \* the last call: the name, what it returned

tableVars == <<plugins, answer>>

Returns(of, result, ops) == [of |-> of, result |-> result, ops |-> ops]

AllOps == [name : Names, copy : Copies]

Named(name) == {o \in plugins : o.name = name}

TableInit ==
    /\ plugins = {}
    /\ answer = Returns(NoOps, "none", NoOps)

Offer(o) ==
    IF Named(o.name) # {} \/ Cardinality(plugins) < TableMax
    THEN /\ plugins' = (plugins \ Named(o.name)) \cup {o}
         /\ answer' = Returns(o.name, "OK", NoOps)
    ELSE /\ answer' = Returns(o.name, "ENOMEM", NoOps)
         /\ UNCHANGED plugins

Ask(name) ==
    /\ \/ \E o \in Named(name) : answer' = Returns(name, "found", o)
       \/ Named(name) = {} /\ answer' = Returns(name, "none", NoOps)
    /\ UNCHANGED plugins

\* A call without a name or a plug-in.
Refuse ==
    /\ answer' \in {Returns(NoOps, "EINVAL", NoOps), Returns(NoOps, "none", NoOps)}
    /\ UNCHANGED plugins

TableNext ==
    \/ \E o \in AllOps : Offer(o)
    \/ \E name \in Names : Ask(name)
    \/ Refuse

TableSpec == TableInit /\ [][TableNext]_tableVars

=============================================================================
