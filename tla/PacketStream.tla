---------------------------- MODULE PacketStream ----------------------------
(***************************************************************************)
(* The packet queue between the encode thread and the mux thread, as       *)
(* app/app_pipeline.c uses it: all the packets it ever accepted, and how   *)
(* many of them the mux thread has taken.  BoundedChannel says what such a *)
(* queue promises.                                                         *)
(***************************************************************************)
EXTENDS Naturals, Sequences, FiniteSets

CONSTANTS QueueSize,   \* IPC_QUEUE_MAX_SIZE
          Faults,      \* what may go wrong
          MaxFaults    \* bound on how many different things do, in each thread

ASSUME StreamAssumption == QueueSize \in Nat \ {0} /\ MaxFaults \in Nat

VARIABLES emitted,  \* packets accepted by PacketQueue_Push, oldest first
          taken,    \* how many of them PacketQueue_Pop has returned
          closed    \* the packet queue is closed

streamVars == <<emitted, taken, closed>>

\* A coded frame.  It is named by the number of the frame it encodes.
Packets == [frame : Nat \ {0}, key : BOOLEAN]

StreamInit ==
    /\ emitted = <<>>
    /\ taken = 0
    /\ closed = FALSE

\* PacketQueue_Push returns IPC_OK.
Accept(packet) ==
    /\ ~closed
    /\ Len(emitted) - taken < QueueSize
    /\ emitted' = Append(emitted, packet)
    /\ UNCHANGED <<taken, closed>>

\* PacketQueue_Pop returns IPC_OK; the packet is emitted[taken'].
TakeNext ==
    /\ taken < Len(emitted)
    /\ taken' = taken + 1
    /\ UNCHANGED <<emitted, closed>>

\* PacketQueue_Pop returns IPC_EOF.
AtEnd ==
    /\ closed
    /\ taken = Len(emitted)

\* PacketQueue_Close, alone or as part of app_pipeline_request_stop.
Shut ==
    /\ closed' = TRUE
    /\ UNCHANGED <<emitted, taken>>

=============================================================================
