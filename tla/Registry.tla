------------------------------- MODULE Registry -------------------------------
(***************************************************************************)
(* The plug-in table of a manager: XManager_Register and XManager_Find.    *)
(* capture, converter, encoder, frame processor, muxer, viewer and frame   *)
(* sink managers each have a copy of this code and a static table of their *)
(* own; what differs is only the check before it (NeedsWrite: the frame    *)
(* sink's; RegisterViewer's second name).  The main thread alone calls it. *)
(***************************************************************************)
EXTENDS Naturals, FiniteSets

CONSTANTS Names,       \* the names a plug-in may have
          Copies,      \* what tells two plug-ins of one name apart
          TableMax,    \* X_MAX_OPS, 16 in every manager
          NoOps        \* NULL

ASSUME RegistryAssumption ==
    /\ TableMax \in Nat \ {0}
    /\ NoOps \notin [name : Names, copy : Copies]

VARIABLES table,     \* g_x_ops_table
          count,     \* g_x_ops_count
          answer     \* the last call: the name, what it returned

registryVars == <<table, count, answer>>

Ops == [name : Names, copy : Copies]

Returns(of, result, ops) == [of |-> of, result |-> result, ops |-> ops]

Slots == 1..TableMax

RegistryInit ==
    /\ table = [i \in Slots |-> NoOps]
    /\ count = 0
    /\ answer = Returns(NoOps, "none", NoOps)

\* strcmp finds the name in the first count entries.
HasName(i, name) == i \in 1..count /\ table[i].name = name

Known(name) == \E i \in Slots : HasName(i, name)

\* The loops stop at the first entry of the name.
First(name, i) == HasName(i, name) /\ \A j \in 1..(i - 1) : ~HasName(j, name)

\* Mutant of Replace: it goes behind the others.
ReplaceAppends(o) ==
    /\ Known(o.name)
    /\ count < TableMax
    /\ table' = [table EXCEPT ![count + 1] = o]
    /\ count' = count + 1
    /\ answer' = Returns(o.name, "OK", NoOps)

\* A plug-in of a known name goes to the place of the other.
Replace(o) ==
    \E i \in Slots :
        /\ First(o.name, i)
        /\ table' = [table EXCEPT ![i] = o]
        /\ answer' = Returns(o.name, "OK", NoOps)
        /\ UNCHANGED count

AppendOps(o) ==
    /\ ~Known(o.name)
    /\ count < TableMax
    /\ table' = [table EXCEPT ![count + 1] = o]
    /\ count' = count + 1
    /\ answer' = Returns(o.name, "OK", NoOps)

TableIsFull(o) ==
    /\ ~Known(o.name)
    /\ count >= TableMax
    /\ answer' = Returns(o.name, "ENOMEM", NoOps)
    /\ UNCHANGED <<table, count>>

\* No plug-in, one without a name, a viewer under another name, or a sink that
\* cannot write: IPC_EINVAL.
RegisterRefuses ==
    /\ answer' = Returns(NoOps, "EINVAL", NoOps)
    /\ UNCHANGED <<table, count>>

Find(name) ==
    /\ \/ \E i \in Slots : First(name, i) /\ answer' = Returns(name, "found", table[i])
       \/ ~Known(name) /\ answer' = Returns(name, "none", NoOps)
    /\ UNCHANGED <<table, count>>

\* No name at all.
FindRefuses ==
    /\ answer' = Returns(NoOps, "none", NoOps)
    /\ UNCHANGED <<table, count>>

RegistryNext ==
    \/ \E o \in Ops : Replace(o) \/ AppendOps(o) \/ TableIsFull(o)
    \/ RegisterRefuses
    \/ \E name \in Names : Find(name)
    \/ FindRefuses

RegistrySpec == RegistryInit /\ [][RegistryNext]_registryVars

-----------------------------------------------------------------------------
(* Properties.                                                             *)

\* Every variable stays in its range.
RegistryTypeOK ==
    /\ table \in [Slots -> Ops \cup {NoOps}]
    /\ count \in 0..TableMax
    /\ \A i \in 1..count : table[i] \in Ops

\* No name is twice in the table: the entries before count are of one name each.
NamesAreUnique ==
    \A i, j \in 1..count : table[i].name = table[j].name => i = j

Plugins == {table[i] : i \in 1..count}

\* The array with its counter is the table that PluginTable promises: a full
\* table still takes a known name, no call loses another plug-in, and Find
\* never returns one that was replaced.
Promised == INSTANCE PluginTable WITH plugins <- Plugins

RegistryImplementsTable == Promised!TableSpec

=============================================================================
