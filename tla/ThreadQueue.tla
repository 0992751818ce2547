---------------------------- MODULE ThreadQueue ----------------------------
(***************************************************************************)
(* core/thread_queue.c: the blocking queue that joins two stages of the    *)
(* recorder.  FrameQueue and PacketQueue are the same code over two item   *)
(* types; this module is both.  A ring of Capacity slots is guarded by one *)
(* mutex and two condition variables.  A push clones the item before it    *)
(* takes the mutex, a pop moves the item out of its slot and zeroes the    *)
(* slot, a close sets a flag and wakes everybody.                          *)
(*                                                                         *)
(* The critical sections are not atomic here: taking the mutex, testing    *)
(* the loop condition, changing the ring, signalling and releasing the     *)
(* mutex are steps of their own, and a thread in pthread_cond_wait may be  *)
(* woken by a signal, by a broadcast or for no reason.                     *)
(*                                                                         *)
(* The callers' side is the way the worker threads of app_pipeline.c use   *)
(* a queue: a producer closes the queue when it leaves, a consumer leaves  *)
(* on IPC_EOF or when it sees the stop flag, a thread whose call fails     *)
(* closes the queue (app_pipeline_request_stop) and leaves, and the main   *)
(* thread tears the queue down after it has joined them all.               *)
(*                                                                         *)
(* A definition introduced as a mutant is a bug the code does not have. It *)
(* is not part of the specification: some property must detect it when it  *)
(* takes the place of the definition named.                                *)
(***************************************************************************)
EXTENDS Integers, Sequences, FiniteSets

CONSTANTS Producers,  \* threads that push into this queue
          Consumers,  \* threads that pop from it
          Closers,    \* other threads that may request a stop
          Capacity,   \* max_size
          MaxFrames,  \* bound on the clones ever made, to keep TLC finite
          Faults      \* which failures of the environment are considered

ASSUME ThreadsAssumption ==
    /\ Producers \cap Consumers = {}
    /\ (Producers \cup Consumers) \cap Closers = {}
    /\ Producers # {}
    /\ IsFiniteSet(Producers)
    /\ IsFiniteSet(Consumers)

ASSUME CapacityAssumption == Capacity \in Nat \ {0}

ASSUME BoundAssumption ==
    /\ MaxFrames \in Nat
    /\ Faults \subseteq {"clone", "lock", "wait", "spurious"}

Threads == Producers \cup Consumers \cup Closers
Slots == 0..(Capacity - 1)

\* A frame is named by its buffer; a zeroed slot or local holds Null.
Null == 0
Frames == 1..MaxFrames

VARIABLES
    items,        \* the ring
    read_index,
    write_index,
    count,
    closed,
    mutex,        \* {t} while thread t holds the mutex, {} while it is free
    pc,           \* where each thread is
    frame,        \* clone of a pushing thread, popped frame of a popping one
    ret,          \* result of each thread's last call
    heap,         \* buffers allocated and not yet freed
    next_frame,   \* the next buffer malloc returns
    stop,         \* AppPipeline.stop
    inited        \* FALSE once the queue was torn down

ring == <<items, read_index, write_index, count>>
vars == <<ring, closed, mutex, pc, frame, ret, heap, next_frame, stop, inited>>

ProducerPcs == {"push_lock", "push_test", "push_wait", "push_woken", "push_signal"}
ConsumerPcs == {"pop_lock", "pop_test", "pop_wait", "pop_woken", "pop_signal", "pop_use"}
CloserPcs == {"idle", "close_lock", "close_set", "close_broadcast", "done"}
Pcs == ProducerPcs \cup ConsumerPcs \cup CloserPcs

\* Where a thread is between pthread_mutex_lock and pthread_mutex_unlock.
Critical == {"push_test", "push_signal", "pop_test", "pop_signal",
             "close_set", "close_broadcast"}

At(label) == {t \in Threads : pc[t] = label}

\* A buffer reachable from the ring or from a thread.
Owned == ({items[s] : s \in Slots} \cup {frame[t] : t \in Threads}) \ {Null}

Init ==
    /\ items = [s \in Slots |-> Null]
    /\ read_index = 0
    /\ write_index = 0
    /\ count = 0
    /\ closed = FALSE
    /\ mutex = {}
    /\ pc = [t \in Threads |-> "idle"]
    /\ frame = [t \in Threads |-> Null]
    /\ ret = [t \in Threads |-> "none"]
    /\ heap = {}
    /\ next_frame = 1
    /\ stop = FALSE
    /\ inited = TRUE

-----------------------------------------------------------------------------
(* Helpers.                                                                *)

Goto(t, label) == pc' = [pc EXCEPT ![t] = label]
Return(t, code) == ret' = [ret EXCEPT ![t] = code]

Acquire(t) == mutex = {} /\ mutex' = {t}
Release(t) == mutex = {t} /\ mutex' = {}

\* Mutant of After: the index is not taken modulo max_size.
AfterNoWrap(i) == i + 1

\* The next slot round the ring.
After(i) == (i + 1) % Capacity

\* Mutant of Unref: the buffer is forgotten and not freed.
UnrefLeaks(t) ==
    /\ heap' = heap
    /\ frame' = [frame EXCEPT ![t] = Null]

\* FrameQueue_UnrefFrame and MediaPacket_Unref of the thread's own frame.
Unref(t) ==
    /\ heap' = heap \ {frame[t]}
    /\ frame' = [frame EXCEPT ![t] = Null]

\* Mutant of Signal: nobody is woken.
SignalNobody(t, label, asleep, woken) == Goto(t, label)

\* t goes to label; pthread_cond_signal wakes one of the sleepers, if any.
Signal(t, label, asleep, woken) ==
    IF At(asleep) = {}
    THEN Goto(t, label)
    ELSE \E w \in At(asleep) : pc' = [pc EXCEPT ![t] = label, ![w] = woken]

\* Mutant of BroadcastBoth: only not_empty is broadcast.
BroadcastNotEmpty(t, label) ==
    pc' = [u \in Threads |->
              CASE u = t -> label
                [] u # t /\ pc[u] = "pop_wait" -> "pop_woken"
                [] OTHER -> pc[u]]

\* t goes to label; pthread_cond_broadcast on not_empty and on not_full.
BroadcastBoth(t, label) ==
    pc' = [u \in Threads |->
              CASE u = t -> label
                [] u # t /\ pc[u] = "pop_wait" -> "pop_woken"
                [] u # t /\ pc[u] = "push_wait" -> "push_woken"
                [] OTHER -> pc[u]]

-----------------------------------------------------------------------------
(* FrameQueue_Push, PacketQueue_Push.                                      *)

\* The clone is made before the mutex is taken.
PushClone(p) ==
    /\ pc[p] = "idle"
    /\ inited
    /\ next_frame <= MaxFrames
    /\ next_frame' = next_frame + 1
    /\ heap' = heap \cup {next_frame}
    /\ frame' = [frame EXCEPT ![p] = next_frame]
    /\ Goto(p, "push_lock")
    /\ UNCHANGED <<ring, closed, mutex, ret, stop, inited>>

\* No memory, or a frame that frame_data_size rejects.
PushCloneFails(p) ==
    /\ pc[p] = "idle"
    /\ inited
    /\ "clone" \in Faults
    /\ Return(p, "ERROR")
    /\ Goto(p, "close_lock")
    /\ UNCHANGED <<ring, closed, mutex, frame, heap, next_frame, stop, inited>>

\* The first lock, or the one pthread_cond_wait takes before it returns.
PushLock(p) ==
    /\ pc[p] \in {"push_lock", "push_woken"}
    /\ Acquire(p)
    /\ Goto(p, "push_test")
    /\ UNCHANGED <<ring, closed, frame, ret, heap, next_frame, stop, inited>>

PushLockFails(p) ==
    /\ pc[p] = "push_lock"
    /\ "lock" \in Faults
    /\ Unref(p)
    /\ Return(p, "ERROR")
    /\ Goto(p, "close_lock")
    /\ UNCHANGED <<ring, closed, mutex, next_frame, stop, inited>>

PushWait(p) ==
    /\ pc[p] = "push_test"
    /\ ~closed
    /\ count >= Capacity
    /\ Release(p)
    /\ Goto(p, "push_wait")
    /\ UNCHANGED <<ring, closed, frame, ret, heap, next_frame, stop, inited>>

PushWaitFails(p) ==
    /\ pc[p] = "push_test"
    /\ "wait" \in Faults
    /\ ~closed
    /\ count >= Capacity
    /\ Release(p)
    /\ Unref(p)
    /\ Return(p, "ERROR")
    /\ Goto(p, "close_lock")
    /\ UNCHANGED <<ring, closed, next_frame, stop, inited>>

\* A refused push gives its clone back.
PushClosed(p) ==
    /\ pc[p] = "push_test"
    /\ closed
    /\ Release(p)
    /\ Unref(p)
    /\ Return(p, "EOF")
    /\ Goto(p, "close_lock")
    /\ UNCHANGED <<ring, closed, next_frame, stop, inited>>

PushStore(p) ==
    /\ pc[p] = "push_test"
    /\ ~closed
    /\ count < Capacity
    /\ items' = [items EXCEPT ![write_index] = frame[p]]
    /\ write_index' = After(write_index)
    /\ count' = count + 1
    /\ frame' = [frame EXCEPT ![p] = Null]
    /\ Goto(p, "push_signal")
    /\ UNCHANGED <<read_index, closed, mutex, ret, heap, next_frame, stop, inited>>

PushSignal(p) ==
    /\ pc[p] = "push_signal"
    /\ Signal(p, "idle", "pop_wait", "pop_woken")
    /\ Release(p)
    /\ Return(p, "OK")
    /\ UNCHANGED <<ring, closed, frame, heap, next_frame, stop, inited>>

\* The producing worker leaves its loop (end of stream, frame limit, stop
\* flag) and closes the queue behind it.
ProducerLeaves(p) ==
    /\ pc[p] = "idle"
    /\ inited
    /\ Goto(p, "close_lock")
    /\ UNCHANGED <<ring, closed, mutex, frame, ret, heap, next_frame, stop, inited>>

-----------------------------------------------------------------------------
(* FrameQueue_Pop, PacketQueue_Pop.                                        *)

PopCall(c) ==
    /\ pc[c] = "idle"
    /\ inited
    /\ Goto(c, "pop_lock")
    /\ UNCHANGED <<ring, closed, mutex, frame, ret, heap, next_frame, stop, inited>>

PopLock(c) ==
    /\ pc[c] \in {"pop_lock", "pop_woken"}
    /\ Acquire(c)
    /\ Goto(c, "pop_test")
    /\ UNCHANGED <<ring, closed, frame, ret, heap, next_frame, stop, inited>>

PopLockFails(c) ==
    /\ pc[c] = "pop_lock"
    /\ "lock" \in Faults
    /\ Return(c, "ERROR")
    /\ Goto(c, "close_lock")
    /\ UNCHANGED <<ring, closed, mutex, frame, heap, next_frame, stop, inited>>

PopWait(c) ==
    /\ pc[c] = "pop_test"
    /\ ~closed
    /\ count = 0
    /\ Release(c)
    /\ Goto(c, "pop_wait")
    /\ UNCHANGED <<ring, closed, frame, ret, heap, next_frame, stop, inited>>

PopWaitFails(c) ==
    /\ pc[c] = "pop_test"
    /\ "wait" \in Faults
    /\ ~closed
    /\ count = 0
    /\ Release(c)
    /\ Return(c, "ERROR")
    /\ Goto(c, "close_lock")
    /\ UNCHANGED <<ring, closed, frame, heap, next_frame, stop, inited>>

\* Mutant of PopEnd: a closed queue reports the end before it is drained.
PopEndEarly(c) ==
    /\ pc[c] = "pop_test"
    /\ closed
    /\ Release(c)
    /\ Return(c, "EOF")
    /\ Goto(c, "done")
    /\ UNCHANGED <<ring, closed, frame, heap, next_frame, stop, inited>>

\* A closed queue is drained before it reports the end.
PopEnd(c) ==
    /\ pc[c] = "pop_test"
    /\ count = 0
    /\ closed
    /\ Release(c)
    /\ Return(c, "EOF")
    /\ Goto(c, "done")
    /\ UNCHANGED <<ring, closed, frame, heap, next_frame, stop, inited>>

\* Mutant of PopTake: the slot keeps the frame that was handed out.
PopTakeKeeps(c) ==
    /\ pc[c] = "pop_test"
    /\ count > 0
    /\ frame' = [frame EXCEPT ![c] = items[read_index]]
    /\ read_index' = After(read_index)
    /\ count' = count - 1
    /\ Goto(c, "pop_signal")
    /\ UNCHANGED <<items, write_index, closed, mutex, ret, heap, next_frame, stop,
                   inited>>

PopTake(c) ==
    /\ pc[c] = "pop_test"
    /\ count > 0
    /\ frame' = [frame EXCEPT ![c] = items[read_index]]
    /\ items' = [items EXCEPT ![read_index] = Null]
    /\ read_index' = After(read_index)
    /\ count' = count - 1
    /\ Goto(c, "pop_signal")
    /\ UNCHANGED <<write_index, closed, mutex, ret, heap, next_frame, stop, inited>>

PopSignal(c) ==
    /\ pc[c] = "pop_signal"
    /\ Signal(c, "pop_use", "push_wait", "push_woken")
    /\ Release(c)
    /\ Return(c, "OK")
    /\ UNCHANGED <<ring, closed, frame, heap, next_frame, stop, inited>>

\* The consumer is finished with the frame it popped.
PopUnref(c) ==
    /\ pc[c] = "pop_use"
    /\ Unref(c)
    /\ Goto(c, "idle")
    /\ UNCHANGED <<ring, closed, mutex, ret, next_frame, stop, inited>>

\* The consuming worker sees the stop flag at the head of its loop and leaves
\* whatever is in the queue behind.
ConsumerLeaves(c) ==
    /\ pc[c] = "idle"
    /\ stop
    /\ Goto(c, "done")
    /\ UNCHANGED <<ring, closed, mutex, frame, ret, heap, next_frame, stop, inited>>

-----------------------------------------------------------------------------
(* FrameQueue_Close, PacketQueue_Close, called by any thread.              *)

\* A thread outside the queue asks for a stop: the flag first, then the close.
RequestStop(t) ==
    /\ pc[t] = "idle"
    /\ inited
    /\ stop' = TRUE
    /\ Goto(t, "close_lock")
    /\ UNCHANGED <<ring, closed, mutex, frame, ret, heap, next_frame, inited>>

CloseLock(t) ==
    /\ pc[t] = "close_lock"
    /\ Acquire(t)
    /\ Goto(t, "close_set")
    /\ UNCHANGED <<ring, closed, frame, ret, heap, next_frame, stop, inited>>

CloseSet(t) ==
    /\ pc[t] = "close_set"
    /\ closed' = TRUE
    /\ Goto(t, "close_broadcast")
    /\ UNCHANGED <<ring, mutex, frame, ret, heap, next_frame, stop, inited>>

CloseBroadcast(t) ==
    /\ pc[t] = "close_broadcast"
    /\ BroadcastBoth(t, "done")
    /\ Release(t)
    /\ UNCHANGED <<ring, closed, frame, ret, heap, next_frame, stop, inited>>

-----------------------------------------------------------------------------
(* The rest.                                                               *)

\* pthread_cond_wait may return although nobody signalled.
SpuriousWakeup(t) ==
    /\ "spurious" \in Faults
    /\ \/ pc[t] = "push_wait" /\ Goto(t, "push_woken")
       \/ pc[t] = "pop_wait" /\ Goto(t, "pop_woken")
    /\ UNCHANGED <<ring, closed, mutex, frame, ret, heap, next_frame, stop, inited>>

\* FrameQueue_Deinit, PacketQueue_Deinit: every thread has closed or been
\* joined; every slot is freed, the occupied ones and the zeroed ones alike.
Deinit ==
    /\ inited
    /\ \A t \in Threads : pc[t] = "done"
    /\ heap' = heap \ {items[s] : s \in Slots}
    /\ items' = [s \in Slots |-> Null]
    /\ read_index' = 0
    /\ write_index' = 0
    /\ count' = 0
    /\ closed' = FALSE
    /\ inited' = FALSE
    /\ UNCHANGED <<mutex, pc, frame, ret, next_frame, stop>>

Terminated == ~inited /\ UNCHANGED vars

ProducerStep(p) ==
    \/ PushClone(p) \/ PushCloneFails(p) \/ PushLock(p) \/ PushLockFails(p)
    \/ PushWait(p) \/ PushWaitFails(p) \/ PushClosed(p) \/ PushStore(p)
    \/ PushSignal(p) \/ ProducerLeaves(p)

ConsumerStep(c) ==
    \/ PopCall(c) \/ PopLock(c) \/ PopLockFails(c) \/ PopWait(c)
    \/ PopWaitFails(c) \/ PopEnd(c) \/ PopTake(c) \/ PopSignal(c)
    \/ PopUnref(c) \/ ConsumerLeaves(c)

CloseStep(t) == CloseLock(t) \/ CloseSet(t) \/ CloseBroadcast(t)

Next ==
    \/ \E p \in Producers : ProducerStep(p)
    \/ \E c \in Consumers : ConsumerStep(c)
    \/ \E t \in Closers : RequestStop(t)
    \/ \E t \in Threads : CloseStep(t) \/ SpuriousWakeup(t)
    \/ Deinit
    \/ Terminated

Spec == Init /\ [][Next]_vars

\* The operating system schedules every thread that can run; nobody is obliged
\* to request a stop, and nobody can count on a spurious wakeup.
Fairness ==
    /\ \A p \in Producers : WF_vars(ProducerStep(p) \/ CloseStep(p))
    /\ \A c \in Consumers : WF_vars(ConsumerStep(c) \/ CloseStep(c))
    /\ \A t \in Closers : WF_vars(CloseStep(t))

FairSpec == Spec /\ Fairness

-----------------------------------------------------------------------------
(* Safety.                                                                 *)

TypeOK ==
    /\ items \in [Slots -> Frames \cup {Null}]
    /\ read_index \in Slots
    /\ write_index \in Slots
    /\ count \in 0..Capacity
    /\ closed \in BOOLEAN
    /\ mutex \in {{}} \cup {{t} : t \in Threads}
    /\ pc \in [Threads -> Pcs]
    /\ frame \in [Threads -> Frames \cup {Null}]
    /\ ret \in [Threads -> {"none", "OK", "EOF", "ERROR"}]
    /\ heap \subseteq Frames
    /\ next_frame \in 1..(MaxFrames + 1)
    /\ stop \in BOOLEAN
    /\ inited \in BOOLEAN

\* The slot n places behind the read index, and how far behind it slot s is,
\* going round the ring.
Place(n) == (read_index + n) % Capacity
Offset(s) == IF s >= read_index THEN s - read_index ELSE s - read_index + Capacity

\* The mutex is held exactly by the thread that is inside a critical section,
\* and threads run the code of their own role.
LockInv ==
    /\ \A t \in Threads : pc[t] \in Critical <=> mutex = {t}
    /\ \A t \in Threads : pc[t] \in ProducerPcs => t \in Producers
    /\ \A t \in Threads : pc[t] \in ConsumerPcs => t \in Consumers

\* The counter and the two indices always describe the same run of slots, and
\* exactly the slots of that run hold a frame: a pop never finds a zeroed slot,
\* a push never overwrites a frame, and Deinit frees what is there and no more.
RingInv ==
    /\ write_index = Place(count)
    /\ \A s \in Slots : items[s] # Null <=> Offset(s) < count

\* A thread holds a frame exactly while its call, or its use of the frame, is
\* in progress.
HoldInv ==
    \A t \in Threads :
        frame[t] # Null <=>
            pc[t] \in {"push_lock", "push_test", "push_wait", "push_woken",
                       "pop_signal", "pop_use"}

\* Every buffer that is reachable is allocated and has exactly one owner, be
\* it a slot or a thread: nothing is freed twice and nothing used after free.
OwnedOnce ==
    /\ Owned \subseteq heap
    /\ \A f \in heap : f < next_frame
    /\ \A s1, s2 \in Slots : s1 # s2 /\ items[s1] # Null => items[s1] # items[s2]
    /\ \A t1, t2 \in Threads : t1 # t2 /\ frame[t1] # Null => frame[t1] # frame[t2]
    /\ \A s \in Slots, t \in Threads : items[s] # Null => items[s] # frame[t]

\* Every allocated buffer is still reachable, on every path of every call: the
\* refused push, the failed lock, the failed wait, the frames left in a queue
\* that is torn down.
NoLeak == heap \subseteq Owned

\* A thread that has closed the queue leaves it closed until the teardown, the
\* teardown finds nobody inside, and a consumer that was told IPC_EOF was told
\* so for good: nothing can be in the queue any more.
ShutInv ==
    /\ \A t \in Threads \ Consumers :
           inited /\ pc[t] \in {"close_broadcast", "done"} => closed
    /\ ~inited => \A t \in Threads : pc[t] = "done"
    /\ \A c \in Consumers :
           ret[c] = "EOF" => pc[c] = "done" /\ count = 0 /\ (closed \/ ~inited)

QueueInv == LockInv /\ RingInv /\ HoldInv /\ OwnedOnce /\ ShutInv

\* Consumers awake on their way to a stored frame, or about to be woken by the
\* producer that stored it; and the same for producers and free slots.
Takers == At("pop_woken") \cup At("pop_test") \cup At("push_signal")
Storers == At("push_woken") \cup At("push_test") \cup At("pop_signal")

\* While consumers are asleep on not_empty, every stored frame has its own taker;
\* after the close nobody is asleep unless the broadcast is still to come.
ConsumersAwake ==
    At("pop_wait") # {} =>
        IF closed THEN At("close_broadcast") # {} ELSE count <= Cardinality(Takers)

\* While producers are asleep on not_full, every free slot has its own storer.
ProducersAwake ==
    At("push_wait") # {} =>
        IF closed THEN At("close_broadcast") # {}
                  ELSE Capacity - count <= Cardinality(Storers)

\* Nobody sleeps through what it waits for, in any interleaving of signals,
\* barging threads, spurious wakeups and a close.
NoLostWakeup == ConsumersAwake /\ ProducersAwake

-----------------------------------------------------------------------------
(* What the queue implements.                                              *)

\* The frames in the queue, oldest first.
Contents == [i \in 1..count |-> items[Place(i - 1)]]

\* A queue that was torn down counts as closed.
Refuses == closed \/ ~inited

EndTold == \E c \in Consumers : ret[c] = "EOF"

\* The ring, its mutex and its condition variables implement the bounded
\* channel.
Channel == INSTANCE BoundedChannel
             WITH queue <- Contents, closed <- Refuses, ended <- EndTold

\* Frames leave in the order in which they were accepted, none is accepted
\* after the close, and IPC_EOF is the last thing a popper is told.
ImplementsChannel == Channel!Spec

-----------------------------------------------------------------------------
(* Liveness.                                                               *)

\* A close gets everybody out: whoever was blocked in a push or a pop, or comes
\* later, leaves, and the queue can be torn down as soon as the closers are in.
CloseReleasesAll ==
    closed ~> \A t \in Producers \cup Consumers : pc[t] = "done"

\* As long as nobody asks for a stop, whatever was accepted is popped.
AcceptedIsPopped ==
    \A f \in Frames :
        (\E s \in Slots : items[s] = f) ~> (stop \/ \A s \in Slots : items[s] # f)

=============================================================================
