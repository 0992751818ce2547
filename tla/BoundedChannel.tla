--------------------------- MODULE BoundedChannel ---------------------------
(***************************************************************************)
(* What core/thread_queue.h promises to the threads of the recorder: a     *)
(* bounded first-in first-out channel that can be closed.  No mutex, no    *)
(* condition variable, no ring: an operation is one step.                  *)
(*                                                                         *)
(*   - a push is accepted only while the channel is open and not full;     *)
(*   - a pop takes the oldest item, also after the channel was closed;     *)
(*   - IPC_EOF is given to a popper only when the channel is closed and    *)
(*     empty, after which no item can ever appear in it;                   *)
(*   - tearing the channel down discards what is left, and only happens    *)
(*     to a channel that is closed.                                        *)
(***************************************************************************)
EXTENDS Naturals, Sequences

CONSTANTS Frames,    \* what may be pushed
          Capacity   \* max_size of FrameQueue_Init and PacketQueue_Init

VARIABLES queue,     \* the accepted items not yet popped, oldest first
          closed,    \* the channel refuses new items
          ended      \* some popper was told IPC_EOF

vars == <<queue, closed, ended>>

Init ==
    /\ queue = <<>>
    /\ closed = FALSE
    /\ ended = FALSE

\* FrameQueue_Push and PacketQueue_Push that return IPC_OK.
Put(f) ==
    /\ ~closed
    /\ Len(queue) < Capacity
    /\ queue' = Append(queue, f)
    /\ UNCHANGED <<closed, ended>>

\* FrameQueue_Pop and PacketQueue_Pop that return IPC_OK.
Take ==
    /\ queue # <<>>
    /\ queue' = Tail(queue)
    /\ UNCHANGED <<closed, ended>>

\* FrameQueue_Pop and PacketQueue_Pop that return IPC_EOF.
TellEnd ==
    /\ closed
    /\ queue = <<>>
    /\ ended' = TRUE
    /\ UNCHANGED <<queue, closed>>

\* FrameQueue_Close and PacketQueue_Close.
Shut ==
    /\ closed' = TRUE
    /\ UNCHANGED <<queue, ended>>

\* FrameQueue_Deinit and PacketQueue_Deinit.
Discard ==
    /\ closed
    /\ queue' = <<>>
    /\ UNCHANGED <<closed, ended>>

Next ==
    \/ \E f \in Frames : Put(f)
    \/ Take
    \/ TellEnd
    \/ Shut
    \/ Discard

Spec == Init /\ [][Next]_vars

=============================================================================
