--------------------------- MODULE RecordingProofs ---------------------------
(***************************************************************************)
(* First: the encoder keeps its promises beside the mux thread, since what *)
(* Recording does to the packet queue and to the encoder is what Encoder   *)
(* allows the others to do; the theorems of EncoderProofs carry over.      *)
(*                                                                         *)
(* Then the outputs.  The inductive invariant OutputsInv has three parts:  *)
(* MuxInv, how the flags of the mux thread, the contexts of the muxers and *)
(* the state of their files go together; ContentInv, which packets are in  *)
(* the files; and FitsInv, how long segments are.  The properties of       *)
(* Muxers and of Recording follow at the end.                              *)
(***************************************************************************)
EXTENDS Recording, EncoderProofs

-----------------------------------------------------------------------------
(* The encoder beside the mux thread.                                      *)

\* A step of the mux thread or of the teardown of a muxer is a step of the
\* others for the encoder.
LEMMA MuxThreadIsOthers ==
    ASSUME UNCHANGED encoderVars, MuxThread \/ MuxerDeinit
    PROVE  [EncoderNext]_evars
<1>1. ASSUME UNCHANGED streamVars PROVE [EncoderNext]_evars
  BY <1>1 DEF evars
<1>2. ASSUME TakeNext \/ Shut PROVE [EncoderNext]_evars
  BY <1>2 DEF EncoderNext, Others
<1>3. ASSUME NEW m \in Roles, MuxOpen(m) \/ MuxHeader(m) PROVE [EncoderNext]_evars
  BY <1>1, <1>3 DEF MuxOpen, MuxHeader
<1>4. ASSUME NEW m \in Roles, MuxOpenFails(m) PROVE [EncoderNext]_evars
  BY <1>2, <1>4 DEF MuxOpenFails, MuxStops
<1>5. ASSUME NEW m \in Roles, NEW bad, AfterWrite(m, bad) PROVE [EncoderNext]_evars
  BY <1>1, <1>2, <1>5 DEF AfterWrite, MuxStops
<1>6. ASSUME NEW m \in Roles, MuxWrite(m) PROVE [EncoderNext]_evars
  BY <1>5, <1>6 DEF MuxWrite
<1>7. ASSUME NEW m \in Roles, SegmentWrite(m) PROVE [EncoderNext]_evars
  BY <1>5, <1>7 DEF SegmentWrite
<1>8. CASE MuxPop
  BY <1>1, <1>2, <1>8 DEF MuxPop
<1>9. CASE MuxPopFails
  BY <1>2, <1>9 DEF MuxPopFails, MuxStops
<1>10. CASE MuxTrailer \/ MuxClose \/ MuxerDeinit
  BY <1>1, <1>10 DEF MuxTrailer, MuxClose, MuxerDeinit, FinishFrame
<1> QED
  BY <1>3, <1>4, <1>6, <1>7, <1>8, <1>9, <1>10 DEF MuxThread

\* Every execution of the recording half is one of the encoder and its queue.
THEOREM RecordingRunsEncoder == Spec => EncoderSpec
<1>1. Init => StreamInit /\ EncoderInit
  BY DEF Init
<1>2. [Next]_vars => [EncoderNext]_evars
  <2>1. ASSUME Next PROVE [EncoderNext]_evars
    <3>1. CASE EncodeThread
      BY <3>1 DEF EncoderNext
    <3>2. CASE MuxThread /\ UNCHANGED encoderVars
      BY <3>2, MuxThreadIsOthers
    <3>3. CASE StopRequest
      BY <3>3 DEF StopRequest, EncoderNext, Others
    <3>4. CASE MuxerDeinit /\ UNCHANGED encoderVars
      BY <3>4, MuxThreadIsOthers
    <3>5. CASE EncoderDeinit
      BY <3>5 DEF EncoderNext
    <3>6. CASE Terminated
      BY <3>6 DEF Terminated, vars, evars
    <3> QED
      BY <2>1, <3>1, <3>2, <3>3, <3>4, <3>5, <3>6 DEF Next, Teardown
  <2>2. ASSUME UNCHANGED vars PROVE [EncoderNext]_evars
    BY <2>2 DEF vars, evars
  <2> QED
    BY <2>1, <2>2
<1> QED
  BY <1>1, <1>2, PTL DEF Spec, EncoderSpec, evars

\* Beside the muxers, too, no packet overtakes another and none is lost
\* unless something fails.
THEOREM RecordingKeepsOrder == Spec => []PacketsInOrder
  BY RecordingRunsEncoder, EncoderKeepsOrder

\* Beside the muxers, too, pending_packets overflows only with a codec that
\* keeps back as many frames as there are places.
THEOREM RecordingPendingFits == Spec => []PendingFits
  BY RecordingRunsEncoder, PendingNeverOverflows

-----------------------------------------------------------------------------
(* Files, and what the calls of a muxer make of them.                      *)

\* A packet in a file.
Samples == [frame : Nat \ {0}, key : BOOLEAN, pts : Nat]

\* No file is forgotten, each keeps its samples, and new ones are empty.
Same(o, q) ==
    /\ Len(o) <= Len(q)
    /\ \A i \in 1..Len(o) : q[i].samples = o[i].samples
    /\ \A i \in 1..Len(q) : i > Len(o) => q[i].samples = <<>>

\* The last file has packet p as one more sample.
Grown(o, q, p) ==
    /\ o # <<>>
    /\ Len(q) = Len(o)
    /\ \A i \in 1..Len(o) : i # Len(o) => q[i].samples = o[i].samples
    /\ q[Len(o)].samples =
          Append(o[Len(o)].samples, Sample(p, Len(o[Len(o)].samples)))

\* What is closed stays as it is.
Frozen(o, q) ==
    /\ Len(o) <= Len(q)
    /\ \A i \in 1..Len(o) : o[i].closed => q[i] = o[i]

\* The file f is closed, and had one trailer if it had a header; bad is what
\* went wrong so far.
Complete(f, bad) ==
    /\ f.closed
    /\ IF f.header THEN f.trailers = 1 /\ (f.finished \/ "trailer" \in bad)
                   ELSE f.trailers = 0 /\ f.samples = <<>>

\* The file f is the one that context c writes.
Current(f, c) ==
    /\ f.header = c.header
    /\ f.trailers = 0
    /\ ~f.closed
    /\ Len(f.samples) = c.frames
    /\ ~f.header => f.samples = <<>>

\* The segment muxer has a file exactly while it has a format context; the
\* files before that one are complete.
SegmentOK(c, o, bad) ==
    /\ ~c.format =>
          /\ ~c.header /\ ~c.pb /\ c.frames = 0
          /\ \A i \in 1..Len(o) : Complete(o[i], bad)
    /\ c.format =>
          /\ c.pb
          /\ o # <<>>
          /\ \A i \in 1..Len(o) : i # Len(o) => Complete(o[i], bad)
          /\ Current(o[Len(o)], c)

\* The fields of a context, and its counters one further.
LEMMA ContextFields ==
    ASSUME NEW c \in Contexts
    PROVE  /\ c.format \in BOOLEAN /\ c.pb \in BOOLEAN /\ c.requested \in BOOLEAN
           /\ c.header \in BOOLEAN /\ c.trailer \in BOOLEAN
           /\ c.frames \in Nat /\ c.segment \in Nat
           /\ c.frames + 1 \in Nat /\ c.segment + 1 \in Nat
           /\ NoContext \in Contexts
  BY DEF Contexts, NoContext

\* The fields of a file.
LEMMA FileFields ==
    ASSUME NEW f \in Files
    PROVE  /\ f.header \in BOOLEAN /\ f.finished \in BOOLEAN /\ f.closed \in BOOLEAN
           /\ f.trailers \in Nat /\ f.trailers + 1 \in Nat
           /\ f.samples \in Seq(Samples) /\ Len(f.samples) \in Nat
<1>1. /\ f.header \in BOOLEAN /\ f.finished \in BOOLEAN /\ f.closed \in BOOLEAN
      /\ f.trailers \in Nat /\ f.samples \in Seq(Samples)
  BY DEF Files, Samples
<1> QED
  BY <1>1, LenProperties

\* The last file is a file, and can be replaced.
LEMMA LastFile ==
    ASSUME NEW o \in Seq(Files), o # <<>>
    PROVE  /\ Len(o) \in Nat \ {0} /\ Len(o) \in 1..Len(o)
           /\ Last(o) = o[Len(o)]
           /\ o[Len(o)] \in Files
           /\ \A i \in 1..Len(o) : o[i] \in Files
           /\ \A f \in Files :
                 /\ ReplaceLast(o, f) \in Seq(Files)
                 /\ ReplaceLast(o, f) # <<>>
                 /\ Len(ReplaceLast(o, f)) = Len(o)
                 /\ ReplaceLast(o, f)[Len(o)] = f
                 /\ \A i \in 1..Len(o) : i # Len(o) => ReplaceLast(o, f)[i] = o[i]
<1>1. Len(o) \in Nat \ {0} /\ Len(o) \in 1..Len(o)
  BY EmptySeq, LenProperties
<1>2. \A i \in 1..Len(o) : o[i] \in Files
  BY ElementOfSeq
<1>3. Last(o) = o[Len(o)]
  BY DEF Last
<1>4. ASSUME NEW f \in Files
      PROVE  /\ ReplaceLast(o, f) \in Seq(Files)
             /\ ReplaceLast(o, f) # <<>>
             /\ Len(ReplaceLast(o, f)) = Len(o)
             /\ ReplaceLast(o, f)[Len(o)] = f
             /\ \A i \in 1..Len(o) : i # Len(o) => ReplaceLast(o, f)[i] = o[i]
  <2>1. /\ ReplaceLast(o, f) \in Seq(Files)
        /\ Len(ReplaceLast(o, f)) = Len(o)
        /\ \A i \in 1..Len(o) : ReplaceLast(o, f)[i] = IF i = Len(o) THEN f ELSE o[i]
    BY <1>1, ExceptSeq DEF ReplaceLast
  <2>2. ReplaceLast(o, f) # <<>>
    BY <1>1, <2>1, EmptySeq
  <2> QED
    BY <1>1, <2>1, <2>2
<1> QED
  BY <1>1, <1>2, <1>3, <1>4

\* A file more.
LEMMA NextFile ==
    ASSUME NEW o \in Seq(Files)
    PROVE  /\ NewOutput \in Files
           /\ Append(o, NewOutput) \in Seq(Files)
           /\ Append(o, NewOutput) # <<>>
           /\ Len(o) \in Nat
           /\ Len(Append(o, NewOutput)) = Len(o) + 1
           /\ Append(o, NewOutput)[Len(o) + 1] = NewOutput
           /\ \A i \in 1..Len(o) : Append(o, NewOutput)[i] = o[i]
<1>1. NewOutput \in Files
  <2>1. <<>> \in Seq(Samples)
    BY EmptySeq
  <2> QED
    BY <2>1 DEF NewOutput, Files, Samples
<1>2. /\ Append(o, NewOutput) \in Seq(Files)
      /\ Len(Append(o, NewOutput)) = Len(o) + 1
      /\ Append(o, NewOutput)[Len(o) + 1] = NewOutput
      /\ \A i \in 1..Len(o) : Append(o, NewOutput)[i] = o[i]
  BY <1>1, AppendProperties
<1>3. Len(o) \in Nat
  BY LenProperties
<1>4. Append(o, NewOutput) # <<>>
  BY <1>2, <1>3, EmptySeq
<1> QED
  BY <1>1, <1>2, <1>3, <1>4

\* What av_write_trailer makes of the files.
LEMMA TrailerFile ==
    ASSUME NEW o \in Seq(Files), o # <<>>, NEW ok \in BOOLEAN
    PROVE  /\ TrailerLast(o, ok) \in Seq(Files)
           /\ TrailerLast(o, ok) # <<>>
           /\ Len(TrailerLast(o, ok)) = Len(o)
           /\ \A i \in 1..Len(o) : i # Len(o) => TrailerLast(o, ok)[i] = o[i]
           /\ TrailerLast(o, ok)[Len(o)].header = o[Len(o)].header
           /\ TrailerLast(o, ok)[Len(o)].samples = o[Len(o)].samples
           /\ TrailerLast(o, ok)[Len(o)].trailers = o[Len(o)].trailers + 1
           /\ TrailerLast(o, ok)[Len(o)].finished = ok
           /\ TrailerLast(o, ok)[Len(o)].closed = o[Len(o)].closed
<1> DEFINE f == o[Len(o)]
           g == [f EXCEPT !.trailers = @ + 1, !.finished = ok]
<1>1. f \in Files /\ Last(o) = f /\ TrailerLast(o, ok) = ReplaceLast(o, g)
  BY LastFile DEF TrailerLast
<1>2. /\ g \in Files /\ g.header = f.header /\ g.samples = f.samples
      /\ g.trailers = f.trailers + 1 /\ g.finished = ok /\ g.closed = f.closed
  <2>1. f.trailers \in Nat /\ f.trailers + 1 \in Nat
    BY <1>1, FileFields
  <2> HIDE DEF f
  <2>2. g \in Files
    BY <1>1, <2>1 DEF Files
  <2>3. /\ g.header = f.header /\ g.samples = f.samples
        /\ g.trailers = f.trailers + 1 /\ g.finished = ok /\ g.closed = f.closed
    BY <1>1, <2>1 DEF Files
  <2> QED
    BY <2>2, <2>3
<1> HIDE DEF g
<1>3. /\ ReplaceLast(o, g) \in Seq(Files)
      /\ ReplaceLast(o, g) # <<>>
      /\ Len(ReplaceLast(o, g)) = Len(o)
      /\ ReplaceLast(o, g)[Len(o)] = g
      /\ \A i \in 1..Len(o) : i # Len(o) => ReplaceLast(o, g)[i] = o[i]
  BY <1>2, LastFile
<1> QED
  BY <1>1, <1>2, <1>3

\* What avio_closep makes of them.
LEMMA CloseFile ==
    ASSUME NEW o \in Seq(Files), o # <<>>
    PROVE  /\ CloseLast(o) \in Seq(Files)
           /\ CloseLast(o) # <<>>
           /\ Len(CloseLast(o)) = Len(o)
           /\ \A i \in 1..Len(o) : i # Len(o) => CloseLast(o)[i] = o[i]
           /\ CloseLast(o)[Len(o)].header = o[Len(o)].header
           /\ CloseLast(o)[Len(o)].samples = o[Len(o)].samples
           /\ CloseLast(o)[Len(o)].trailers = o[Len(o)].trailers
           /\ CloseLast(o)[Len(o)].finished = o[Len(o)].finished
           /\ CloseLast(o)[Len(o)].closed
<1> DEFINE f == o[Len(o)]
           g == [f EXCEPT !.closed = TRUE]
<1>1. f \in Files /\ Last(o) = f /\ CloseLast(o) = ReplaceLast(o, g)
  BY LastFile DEF CloseLast
<1>2. /\ g \in Files /\ g.header = f.header /\ g.samples = f.samples
      /\ g.trailers = f.trailers /\ g.finished = f.finished /\ g.closed
  <2> HIDE DEF f
  <2>1. g \in Files
    BY <1>1 DEF Files
  <2>2. /\ g.header = f.header /\ g.samples = f.samples
        /\ g.trailers = f.trailers /\ g.finished = f.finished /\ g.closed
    BY <1>1 DEF Files
  <2> QED
    BY <2>1, <2>2
<1> HIDE DEF g
<1>3. /\ ReplaceLast(o, g) \in Seq(Files)
      /\ ReplaceLast(o, g) # <<>>
      /\ Len(ReplaceLast(o, g)) = Len(o)
      /\ ReplaceLast(o, g)[Len(o)] = g
      /\ \A i \in 1..Len(o) : i # Len(o) => ReplaceLast(o, g)[i] = o[i]
  BY <1>2, LastFile
<1> QED
  BY <1>1, <1>2, <1>3

\* The last of the files o becomes g, with the same samples.
LEMMA LastChanges ==
    ASSUME NEW o \in Seq(Files), o # <<>>, NEW g \in Files,
           g.samples = o[Len(o)].samples
    PROVE  /\ Same(o, ReplaceLast(o, g))
           /\ ~o[Len(o)].closed => Frozen(o, ReplaceLast(o, g))
<1> DEFINE q == ReplaceLast(o, g)
<1>1. /\ Len(o) \in Nat \ {0}
      /\ Len(q) = Len(o) /\ q[Len(o)] = g
      /\ \A i \in 1..Len(o) : i # Len(o) => q[i] = o[i]
  BY LastFile
<1> HIDE DEF q
<1>2. \A i \in 1..Len(o) : q[i].samples = o[i].samples
  BY <1>1
<1>3. \A i \in 1..Len(q) : ~(i > Len(o))
  BY <1>1
<1>4. Same(o, q)
  BY <1>1, <1>2, <1>3 DEF Same
<1>5. ~o[Len(o)].closed => Frozen(o, q)
  BY <1>1 DEF Frozen
<1> QED
  BY <1>4, <1>5 DEF q

\* No harm is done twice.
LEMMA FilesStay ==
    ASSUME NEW o \in Seq(Files)
    PROVE  Same(o, o) /\ Frozen(o, o)
<1>1. Len(o) \in Nat
  BY LenProperties
<1> QED
  BY <1>1 DEF Same, Frozen

\* What two steps do to the files one after the other.
LEMMA FilesGoOn ==
    ASSUME NEW o \in Seq(Files), NEW q \in Seq(Files), NEW r \in Seq(Files)
    PROVE  /\ Same(o, q) /\ Same(q, r) => Same(o, r)
           /\ Frozen(o, q) /\ Frozen(q, r) => Frozen(o, r)
<1>1. Len(o) \in Nat /\ Len(q) \in Nat /\ Len(r) \in Nat
  BY LenProperties
<1>2. ASSUME Same(o, q), Same(q, r) PROVE Same(o, r)
  <2>1. Len(o) <= Len(q) /\ Len(q) <= Len(r)
    BY <1>2 DEF Same
  <2>2. \A i \in 1..Len(o) : r[i].samples = o[i].samples
    BY <1>1, <1>2, <2>1 DEF Same
  <2>3. ASSUME NEW i \in 1..Len(r), i > Len(o) PROVE r[i].samples = <<>>
    <3>1. CASE i > Len(q)
      BY <1>2, <3>1 DEF Same
    <3>2. CASE ~(i > Len(q))
      <4>1. i \in 1..Len(q)
        BY <1>1, <3>2
      <4> QED
        BY <1>2, <2>3, <4>1 DEF Same
    <3> QED
      BY <3>1, <3>2
  <2> QED
    BY <1>1, <2>1, <2>2, <2>3 DEF Same
<1>3. ASSUME Frozen(o, q), Frozen(q, r) PROVE Frozen(o, r)
  <2>1. Len(o) <= Len(q) /\ Len(q) <= Len(r)
    BY <1>3 DEF Frozen
  <2>2. ASSUME NEW i \in 1..Len(o), o[i].closed PROVE r[i] = o[i]
    <3>1. i \in 1..Len(q) /\ q[i] = o[i]
      BY <1>1, <1>3, <2>1, <2>2 DEF Frozen
    <3> QED
      BY <1>3, <2>2, <3>1 DEF Frozen
  <2> QED
    BY <1>1, <2>1, <2>2 DEF Frozen
<1> QED
  BY <1>2, <1>3

\* A failure does not undo what is complete.
LEMMA StillComplete ==
    ASSUME NEW f, NEW bad, NEW worse, bad \subseteq worse, Complete(f, bad)
    PROVE  Complete(f, worse)
  BY DEF Complete

\* The same for all files of the segment muxer.
LEMMA StillOK ==
    ASSUME NEW c, NEW o, NEW bad, NEW worse, bad \subseteq worse, SegmentOK(c, o, bad)
    PROVE  SegmentOK(c, o, worse)
  BY DEF SegmentOK, Complete

\* A trailer and a close leave the samples alone, and what was closed before.
LEMMA TrailerKeeps ==
    ASSUME NEW o \in Seq(Files), o # <<>>, NEW ok \in BOOLEAN
    PROVE  /\ Same(o, TrailerLast(o, ok)) /\ Same(o, CloseLast(o))
           /\ ~o[Len(o)].closed => Frozen(o, TrailerLast(o, ok)) /\ Frozen(o, CloseLast(o))
<1>1. ASSUME NEW q \in Seq(Files), Len(q) = Len(o), q[Len(o)].samples = o[Len(o)].samples,
             \A i \in 1..Len(o) : i # Len(o) => q[i] = o[i]
      PROVE  Same(o, q) /\ (~o[Len(o)].closed => Frozen(o, q))
  <2>1. Len(o) \in Nat
    BY LenProperties
  <2>2. \A i \in 1..Len(o) : q[i].samples = o[i].samples
    BY <1>1
  <2>3. \A i \in 1..Len(q) : ~(i > Len(o))
    BY <1>1, <2>1
  <2>4. Same(o, q)
    BY <1>1, <2>1, <2>2, <2>3 DEF Same
  <2>5. ~o[Len(o)].closed => Frozen(o, q)
    BY <1>1, <2>1 DEF Frozen
  <2> QED
    BY <2>4, <2>5
<1> QED
  BY <1>1, TrailerFile, CloseFile

\* segment_close_current leaves all files complete, and no context.
LEMMA SegmentCloses ==
    ASSUME NEW s, s.c \in Contexts, s.o \in Seq(Files), NEW bad, SegmentOK(s.c, s.o, bad),
           NEW ok \in BOOLEAN, s.c.format /\ s.c.header /\ ~ok => "trailer" \in bad
    PROVE  /\ CloseSegment(s, ok).c \in Contexts
           /\ CloseSegment(s, ok).o \in Seq(Files)
           /\ SegmentOK(CloseSegment(s, ok).c, CloseSegment(s, ok).o, bad)
           /\ ~CloseSegment(s, ok).c.format
           /\ Len(CloseSegment(s, ok).o) = Len(s.o)
           /\ Same(s.o, CloseSegment(s, ok).o)
           /\ Frozen(s.o, CloseSegment(s, ok).o)
<1> DEFINE c == s.c
           o == s.o
<1>1. CASE ~c.format
  <2>1. CloseSegment(s, ok) = s
    BY <1>1 DEF CloseSegment
  <2> QED
    BY <1>1, <2>1, FilesStay
<1>2. CASE c.format
  <2> DEFINE f == o[Len(o)]
             u == IF c.header THEN TrailerLast(o, ok) ELSE o
             t == CloseSegment(s, ok)
  <2>1. /\ o # <<>>
        /\ \A i \in 1..Len(o) : i # Len(o) => Complete(o[i], bad)
        /\ Current(f, c)
    BY <1>2 DEF SegmentOK
  <2>2. Len(o) \in Nat \ {0} /\ f \in Files
    BY <2>1, LastFile
  <2>3. ~f.closed /\ f.header = c.header /\ f.trailers = 0 /\ f.header \in BOOLEAN
        /\ (~f.header => f.samples = <<>>)
    BY <2>1, <2>2, FileFields DEF Current
  <2>4. /\ u \in Seq(Files) /\ u # <<>> /\ Len(u) = Len(o)
        /\ \A i \in 1..Len(o) : i # Len(o) => u[i] = o[i]
        /\ u[Len(o)].header = f.header
        /\ u[Len(o)].samples = f.samples
        /\ u[Len(o)].trailers = IF c.header THEN f.trailers + 1 ELSE f.trailers
        /\ c.header => u[Len(o)].finished = ok
        /\ ~u[Len(o)].closed
        /\ Same(o, u) /\ Frozen(o, u)
    <3>1. CASE c.header
      BY <2>1, <2>3, <3>1, TrailerFile, TrailerKeeps
    <3>2. CASE ~c.header
      BY <2>1, <2>3, <3>2, FilesStay
    <3> QED
      BY <3>1, <3>2
  <2>5. t = [c |-> [NoContext EXCEPT !.segment = c.segment], o |-> CloseLast(u)]
    BY <1>2 DEF CloseSegment
  <2>6. t.c = [NoContext EXCEPT !.segment = c.segment] /\ t.o = CloseLast(u)
    BY <2>5
  <2> HIDE DEF u, t
  <2>7. /\ t.o \in Seq(Files) /\ Len(t.o) = Len(o)
        /\ \A i \in 1..Len(o) : i # Len(o) => t.o[i] = u[i]
        /\ t.o[Len(o)].header = u[Len(o)].header
        /\ t.o[Len(o)].samples = u[Len(o)].samples
        /\ t.o[Len(o)].trailers = u[Len(o)].trailers
        /\ t.o[Len(o)].finished = u[Len(o)].finished
        /\ t.o[Len(o)].closed
    BY <2>4, <2>6, CloseFile
  <2>8. /\ t.c \in Contexts /\ ~t.c.format /\ ~t.c.header /\ ~t.c.pb /\ t.c.frames = 0
    <3>1. c.segment \in Nat
      BY ContextFields
    <3>2. t.c = [format |-> FALSE, pb |-> FALSE, requested |-> FALSE, header |-> FALSE,
                 trailer |-> FALSE, frames |-> 0, segment |-> c.segment]
      BY <2>6 DEF NoContext
    <3> QED
      BY <3>1, <3>2 DEF Contexts
  <2>9. Complete(t.o[Len(o)], bad)
    <3>1. CASE c.header
      BY <1>2, <2>3, <2>4, <2>7, <3>1 DEF Complete
    <3>2. CASE ~c.header
      BY <2>3, <2>4, <2>7, <3>2 DEF Complete
    <3> QED
      BY <3>1, <3>2
  <2>10. SegmentOK(t.c, t.o, bad)
    <3>1. \A i \in 1..Len(t.o) : Complete(t.o[i], bad)
      BY <2>1, <2>4, <2>7, <2>9
    <3> QED
      BY <2>8, <3>1 DEF SegmentOK
  <2>11. Same(u, t.o) /\ Frozen(u, t.o)
    BY <2>4, <2>6, TrailerKeeps
  <2>12. Same(o, t.o) /\ Frozen(o, t.o)
    BY <2>4, <2>7, <2>11, FilesGoOn
  <2> QED
    BY <2>7, <2>8, <2>10, <2>12 DEF t
<1> QED
  BY <1>1, <1>2

\* What ..._write_packet makes of the files: the last one has its header, and
\* the packet when all went well.
LEMMA PacketFile ==
    ASSUME NEW o \in Seq(Files), o # <<>>, NEW p \in Packets, NEW pts \in Nat,
           pts = Len(o[Len(o)].samples), NEW g \in Files,
           g.trailers = o[Len(o)].trailers, g.finished = o[Len(o)].finished,
           g.closed = o[Len(o)].closed, g.header,
           g.samples = Append(o[Len(o)].samples, Sample(p, pts))
    PROVE  /\ ReplaceLast(o, g) \in Seq(Files)
           /\ Len(g.samples) = pts + 1
           /\ Grown(o, ReplaceLast(o, g), p)
           /\ ~o[Len(o)].closed => Frozen(o, ReplaceLast(o, g))
<1> DEFINE q == ReplaceLast(o, g)
<1>1. /\ q \in Seq(Files) /\ Len(q) = Len(o) /\ q[Len(o)] = g
      /\ \A i \in 1..Len(o) : i # Len(o) => q[i] = o[i]
      /\ o[Len(o)] \in Files /\ Len(o) \in Nat
  BY LastFile
<1> HIDE DEF q
<1>2. Sample(p, pts) \in Samples
  BY DEF Sample, Samples, Packets
<1>3. o[Len(o)].samples \in Seq(Samples)
  BY <1>1, FileFields
<1>4. Len(g.samples) = pts + 1
  BY <1>2, <1>3, AppendProperties
<1>5. Grown(o, q, p)
  BY <1>1 DEF Grown
<1>6. ~o[Len(o)].closed => Frozen(o, q)
  BY <1>1 DEF Frozen
<1> QED
  BY <1>1, <1>4, <1>5, <1>6 DEF q

\* The same for the muxer: its context counts the packet.
LEMMA Writes ==
    ASSUME NEW s, s.c \in Contexts, s.o \in Seq(Files), s.o # <<>>,
           Len(s.o[Len(s.o)].samples) = s.c.frames, NEW p \in Packets, NEW ok \in BOOLEAN
    PROVE  /\ Written(s, p, ok).c \in Contexts
           /\ Written(s, p, ok).o \in Seq(Files)
           /\ Len(Written(s, p, ok).o) = Len(s.o)
           /\ \A i \in 1..Len(s.o) : i # Len(s.o) => Written(s, p, ok).o[i] = s.o[i]
           /\ Written(s, p, ok).o[Len(s.o)].header
           /\ Written(s, p, ok).o[Len(s.o)].trailers = s.o[Len(s.o)].trailers
           /\ Written(s, p, ok).o[Len(s.o)].closed = s.o[Len(s.o)].closed
           /\ Len(Written(s, p, ok).o[Len(s.o)].samples) = Written(s, p, ok).c.frames
           /\ Written(s, p, ok).c.frames = s.c.frames + (IF ok THEN 1 ELSE 0)
           /\ Written(s, p, ok).c.header
           /\ Written(s, p, ok).c.format = s.c.format
           /\ Written(s, p, ok).c.pb = s.c.pb
           /\ Written(s, p, ok).c.requested = s.c.requested
           /\ IF ok THEN Grown(s.o, Written(s, p, ok).o, p) ELSE Same(s.o, Written(s, p, ok).o)
           /\ ~s.o[Len(s.o)].closed => Frozen(s.o, Written(s, p, ok).o)
<1> DEFINE c == s.c
           o == s.o
           e == o[Len(o)]
           f == [e EXCEPT !.header = TRUE]
           x == Sample(p, c.frames)
           t == Written(s, p, ok)
<1>1. e \in Files /\ Last(o) = e /\ Len(o) \in Nat
  BY LastFile
<1>2. c.frames \in Nat /\ c.frames + 1 \in Nat
  BY ContextFields
<1>3. x \in Samples
  BY <1>2 DEF Sample, Samples, Packets
<1>4. /\ f \in Files /\ f.header /\ f.samples = e.samples /\ f.trailers = e.trailers
      /\ f.finished = e.finished /\ f.closed = e.closed
  <2> HIDE DEF e
  <2>1. f \in Files
    BY <1>1 DEF Files
  <2>2. /\ f.header /\ f.samples = e.samples /\ f.trailers = e.trailers
        /\ f.finished = e.finished /\ f.closed = e.closed
    BY <1>1 DEF Files
  <2> QED
    BY <2>1, <2>2
<1>5. CASE ok
  <2> DEFINE g == [f EXCEPT !.samples = Append(@, x)]
             d == [c EXCEPT !.header = TRUE, !.frames = @ + 1]
  <2>1. t = [c |-> d, o |-> ReplaceLast(o, g)]
    BY <1>1, <1>5 DEF Written
  <2>2. /\ g \in Files /\ g.header /\ g.samples = Append(e.samples, x)
        /\ g.trailers = e.trailers /\ g.finished = e.finished /\ g.closed = e.closed
    <3>1. f.samples \in Seq(Samples) /\ Append(f.samples, x) \in Seq(Samples)
      BY <1>3, <1>4, FileFields, AppendProperties
    <3> HIDE DEF e, f, x
    <3>2. g \in Files
      BY <1>4, <3>1 DEF Files, Samples
    <3>3. /\ g.samples = Append(f.samples, x) /\ g.header = f.header
          /\ g.trailers = f.trailers /\ g.finished = f.finished /\ g.closed = f.closed
      BY <1>4 DEF Files
    <3> QED
      BY <1>4, <3>2, <3>3
  <2>3. /\ d \in Contexts /\ d.header /\ d.frames = c.frames + 1 /\ d.format = c.format
        /\ d.pb = c.pb /\ d.requested = c.requested
    <3> HIDE DEF c
    <3>1. d \in Contexts
      BY <1>2 DEF Contexts, c
    <3>2. /\ d.header /\ d.frames = c.frames + 1 /\ d.format = c.format
          /\ d.pb = c.pb /\ d.requested = c.requested
      BY <1>2 DEF Contexts, c
    <3> QED
      BY <3>1, <3>2
  <2> HIDE DEF g, d
  <2>4. t.c = d /\ t.o = ReplaceLast(o, g)
    BY <2>1
  <2>5. /\ t.o \in Seq(Files) /\ Len(g.samples) = c.frames + 1 /\ Grown(o, t.o, p)
        /\ ~e.closed => Frozen(o, t.o)
    BY <1>2, <2>2, <2>4, PacketFile
  <2>6. /\ Len(t.o) = Len(o) /\ t.o[Len(o)] = g
        /\ \A i \in 1..Len(o) : i # Len(o) => t.o[i] = o[i]
    <3>1. /\ Len(ReplaceLast(o, g)) = Len(o) /\ ReplaceLast(o, g)[Len(o)] = g
          /\ \A i \in 1..Len(o) : i # Len(o) => ReplaceLast(o, g)[i] = o[i]
      BY <2>2, LastFile
    <3> QED
      BY <2>4, <3>1
  <2> QED
    BY <1>5, <2>2, <2>3, <2>4, <2>5, <2>6
<1>6. CASE ~ok
  <2> DEFINE d == [c EXCEPT !.header = TRUE]
  <2>1. t = [c |-> d, o |-> ReplaceLast(o, f)]
    BY <1>1, <1>6 DEF Written
  <2>2. /\ d \in Contexts /\ d.header /\ d.frames = c.frames /\ d.format = c.format
        /\ d.pb = c.pb /\ d.requested = c.requested
    BY DEF Contexts
  <2> HIDE DEF f, d
  <2>3. t.c = d /\ t.o = ReplaceLast(o, f)
    BY <2>1
  <2>4. Same(o, t.o) /\ (~e.closed => Frozen(o, t.o))
    BY <1>4, <2>3, LastChanges
  <2>5. /\ t.o \in Seq(Files) /\ Len(t.o) = Len(o) /\ t.o[Len(o)] = f
        /\ \A i \in 1..Len(o) : i # Len(o) => t.o[i] = o[i]
    <3>1. /\ ReplaceLast(o, f) \in Seq(Files)
          /\ Len(ReplaceLast(o, f)) = Len(o) /\ ReplaceLast(o, f)[Len(o)] = f
          /\ \A i \in 1..Len(o) : i # Len(o) => ReplaceLast(o, f)[i] = o[i]
      BY <1>4, LastFile
    <3> QED
      BY <2>3, <3>1
  <2>6. Len(f.samples) = d.frames /\ d.frames = c.frames + 0
    BY <1>2, <1>4, <2>2
  <2> QED
    BY <1>4, <1>6, <2>2, <2>3, <2>4, <2>5, <2>6
<1> QED
  BY <1>5, <1>6

\* segment_open_next adds a file to those that are complete, and its failure
\* uses up a number only.
LEMMA SegmentOpens ==
    ASSUME NEW s, s.c \in Contexts, s.o \in Seq(Files), NEW bad, SegmentOK(s.c, s.o, bad),
           ~s.c.format
    PROVE  /\ OpenSegment(s).c \in Contexts
           /\ OpenSegment(s).o \in Seq(Files)
           /\ SegmentOK(OpenSegment(s).c, OpenSegment(s).o, bad)
           /\ OpenSegment(s).c.format
           /\ ~OpenSegment(s).c.header
           /\ OpenSegment(s).c.frames = 0
           /\ Len(OpenSegment(s).o) = Len(s.o) + 1
           /\ Same(s.o, OpenSegment(s).o)
           /\ Frozen(s.o, OpenSegment(s).o)
           /\ SkipSegment(s).c \in Contexts
           /\ SkipSegment(s).o = s.o
           /\ SegmentOK(SkipSegment(s).c, s.o, bad)
           /\ ~SkipSegment(s).c.format
<1> DEFINE c == s.c
           o == s.o
           d == [c EXCEPT !.format = TRUE, !.pb = TRUE, !.segment = @ + 1]
           e == [c EXCEPT !.segment = @ + 1]
           q == Append(o, NewOutput)
<1>1. ~c.header /\ ~c.pb /\ c.frames = 0 /\ (\A i \in 1..Len(o) : Complete(o[i], bad))
  BY DEF SegmentOK
<1>2. c.segment \in Nat /\ c.segment + 1 \in Nat
  BY ContextFields
<1>3. d \in Contexts /\ d.format /\ d.pb /\ d.header = c.header /\ d.frames = c.frames
  <2> HIDE DEF c
  <2>1. d \in Contexts
    BY <1>2 DEF Contexts, c
  <2>2. d.format /\ d.pb /\ d.header = c.header /\ d.frames = c.frames
    BY <1>2 DEF Contexts, c
  <2> QED
    BY <2>1, <2>2
<1>4. /\ e \in Contexts /\ e.format = c.format /\ e.pb = c.pb /\ e.header = c.header
      /\ e.frames = c.frames
  <2> HIDE DEF c
  <2>1. e \in Contexts
    BY <1>2 DEF Contexts, c
  <2>2. e.format = c.format /\ e.pb = c.pb /\ e.header = c.header /\ e.frames = c.frames
    BY <1>2 DEF Contexts, c
  <2> QED
    BY <2>1, <2>2
<1>5. OpenSegment(s) = [c |-> d, o |-> q] /\ SkipSegment(s) = [c |-> e, o |-> o]
  BY DEF OpenSegment, SkipSegment
<1> HIDE DEF d, e, q
<1>6. /\ OpenSegment(s).c = d /\ OpenSegment(s).o = q
      /\ SkipSegment(s).c = e /\ SkipSegment(s).o = o
  BY <1>5
<1>7. /\ q \in Seq(Files) /\ q # <<>> /\ Len(o) \in Nat /\ Len(q) = Len(o) + 1
      /\ q[Len(q)] = NewOutput
      /\ \A i \in 1..Len(o) : q[i] = o[i]
  BY NextFile DEF q
<1>8. SegmentOK(d, q, bad)
  <2>1. Current(NewOutput, d)
    <3>1. /\ ~NewOutput.header /\ NewOutput.samples = <<>>
          /\ NewOutput.trailers = 0 /\ ~NewOutput.closed
      BY DEF NewOutput
    <3>2. Len(NewOutput.samples) = 0
      BY <3>1, EmptySeq
    <3>3. NewOutput.header = d.header
      BY <1>1, <1>3, ContextFields DEF NewOutput
    <3> QED
      BY <1>1, <1>3, <3>1, <3>2, <3>3 DEF Current
  <2>2. \A i \in 1..Len(q) : i # Len(q) => i \in 1..Len(o)
    BY <1>7
  <2>3. \A i \in 1..Len(q) : i # Len(q) => Complete(q[i], bad)
    BY <1>1, <1>7, <2>2
  <2> QED
    BY <1>3, <1>7, <2>1, <2>3 DEF SegmentOK
<1>9. SegmentOK(e, o, bad) /\ ~e.format
  BY <1>1, <1>4 DEF SegmentOK
<1>10. Same(o, q)
  <2>1. \A i \in 1..Len(q) : i > Len(o) => i = Len(q)
    BY <1>7
  <2>2. \A i \in 1..Len(q) : i > Len(o) => q[i].samples = <<>>
    BY <1>7, <2>1 DEF NewOutput
  <2> QED
    BY <1>7, <2>2 DEF Same
<1>11. Frozen(o, q)
  BY <1>7 DEF Frozen
<1> QED
  BY <1>1, <1>3, <1>4, <1>6, <1>7, <1>8, <1>9, <1>10, <1>11

-----------------------------------------------------------------------------
(* The inductive invariant: the mux thread and its muxers.                 *)

\* The mux thread is in its loop or before it; it is before it.
Busy == {"open", "header", "pop", "write"}
Early == {"open", "header"}

\* The role that the mux thread serves before m.
Before(m) == Served \ {m, "rtsp"}

\* The mux thread opens and announces its muxers one by one, serves all of
\* them, and closes all of them; it comes to its end by itself only when there
\* are no packets left.
ControlInv ==
    /\ announced \subseteq opened
    /\ opened \subseteq Served
    /\ inited \subseteq Served
    /\ mpc # "done" => inited = Served
    /\ at \in Served
    /\ mpc = "open" => opened = Before(at) /\ announced = Before(at)
    /\ mpc = "header" => opened = Before(at) \cup {at} /\ announced = Before(at)
    /\ mpc \in {"pop", "write"} => opened = Served /\ announced = Served
    /\ mpc = "done" => opened = {}
    /\ mpc \in Early => taken = 0
    /\ mpc = "write" => taken # 0
    /\ mpc \in {"finish", "done"} /\ mfailed = {} => AtEnd

\* The segment muxer with context c and files o, when the mux thread is at l; has
\* says that it was announced, bad what went wrong.
SegmentInv(c, o, has, bad, l) ==
    /\ SegmentOK(c, o, bad)
    /\ c.format => has
    /\ l \in Busy /\ o # <<>> => c.format /\ c.frames # 0

\* The one file f of the mp4 muxer, or the stream, once it is opened.
WholeOK(m, c, f, op, an, in, bad) ==
    /\ m \in in => f.header = c.header /\ Len(f.samples) = c.frames
    /\ ~f.header => f.trailers = 0 /\ f.samples = <<>>
    /\ m \in an => f.trailers = 0
    /\ f.header /\ m \notin an =>
          /\ f.trailers = 1 \/ (f.trailers = 2 /\ m = "rtsp" /\ "trailer" \in bad)
          /\ f.finished \/ "trailer" \in bad
          /\ m \in in => f.trailers = 1 /\ (c.trailer \/ m = "record" \/ "trailer" \in bad)
    /\ f.closed <=> IF m = "record" THEN m \notin op ELSE m \notin in

\* The mp4 muxer or the stream: op, an and in are the muxers that are opened,
\* announced and inited.
WholeInv(m, c, o, op, an, in, bad, l) ==
    /\ c.pb <=> m = "record" /\ m \in op
    /\ m \in an => c.requested
    /\ o = <<>> => m \notin op /\ ~c.header
    /\ o # <<>> => Len(o) = 1 /\ WholeOK(m, c, o[1], op, an, in, bad)
    /\ l \in Early => IF m \in op THEN ~c.header ELSE o = <<>>

\* What is right with muxer m, which is of kind k.
MuxerOK(k, m, c, o, op, an, in, bad, l) ==
    IF k = "segment" THEN SegmentInv(c, o, m \in an, bad, l)
                     ELSE WholeInv(m, c, o, op, an, in, bad, l)

\* It is right with each muxer; a role that is not served has no output.
MuxerInv ==
    \A m \in Roles :
       IF kind[m] = "none" THEN outputs[m] = <<>>
       ELSE MuxerOK(kind[m], m, ctx[m], outputs[m], opened, announced, inited, mfailed, mpc)

\* The first part of the inductive invariant.
MuxInv == MuxersTypeOK /\ ControlInv /\ MuxerInv

\* What the mux thread serves.
LEMMA Serves ==
    ASSUME MuxersTypeOK
    PROVE  /\ kind \in [Roles -> {"mp4", "segment", "rtsp", "none"}]
           /\ kind["record"] # "rtsp"
           /\ kind["rtsp"] \in {"rtsp", "none"}
           /\ Served \subseteq Roles
           /\ FirstOf(Served) \in Served
           /\ "record" \in Served <=> kind["record"] # "none"
           /\ "rtsp" \in Served <=> kind["rtsp"] # "none"
<1>1. /\ kind \in [Roles -> {"mp4", "segment", "rtsp", "none"}]
      /\ kind["record"] \in {"mp4", "segment", "none"}
      /\ kind["rtsp"] \in {"rtsp", "none"}
      /\ \E m \in Roles : kind[m] # "none"
  BY MuxersAssumption DEF MuxersTypeOK
<1>2. /\ "record" \in Served <=> kind["record"] # "none"
      /\ "rtsp" \in Served <=> kind["rtsp"] # "none"
      /\ Served \subseteq Roles
  BY DEF Served, Roles
<1>3. "record" \in Served \/ "rtsp" \in Served
  BY <1>1, <1>2 DEF Roles
<1>4. FirstOf(Served) \in Served
  BY <1>3 DEF FirstOf
<1> QED
  BY <1>1, <1>2, <1>4

\* The mux thread is at k now, after l; it does not go back.
Onward(l, k) == (k \in Early => l \in Early) /\ (k \in Busy => l \in Busy)

\* What is right with a muxer stays right while another one is served.
LEMMA MuxerStays ==
    ASSUME NEW k, NEW m, NEW c, NEW o, NEW op, NEW an, NEW in, NEW bad, NEW l,
           MuxerOK(k, m, c, o, op, an, in, bad, l),
           NEW op2, NEW an2, NEW in2, NEW bad2, NEW l2,
           m \in op <=> m \in op2, m \in an <=> m \in an2, m \in in <=> m \in in2,
           bad \subseteq bad2, Onward(l, l2)
    PROVE  MuxerOK(k, m, c, o, op2, an2, in2, bad2, l2)
<1>1. CASE k = "segment"
  <2>1. SegmentInv(c, o, m \in an, bad, l)
    BY <1>1 DEF MuxerOK
  <2>2. SegmentOK(c, o, bad2)
    BY <2>1, StillOK DEF SegmentInv
  <2>3. SegmentInv(c, o, m \in an2, bad2, l2)
    BY <2>1, <2>2 DEF SegmentInv, Onward
  <2> QED
    BY <1>1, <2>3 DEF MuxerOK
<1>2. CASE k # "segment"
  <2>1. WholeInv(m, c, o, op, an, in, bad, l)
    BY <1>2 DEF MuxerOK
  <2>2. ASSUME o # <<>> PROVE WholeOK(m, c, o[1], op2, an2, in2, bad2)
    <3>1. WholeOK(m, c, o[1], op, an, in, bad)
      BY <2>1, <2>2 DEF WholeInv
    <3>2. "trailer" \in bad => "trailer" \in bad2
      OBVIOUS
    <3> QED
      BY <3>1, <3>2 DEF WholeOK
  <2>3. WholeInv(m, c, o, op2, an2, in2, bad2, l2)
    BY <2>1, <2>2 DEF WholeInv, Onward
  <2> QED
    BY <1>2, <2>3 DEF MuxerOK
<1> QED
  BY <1>1, <1>2

\* A step of muxer m alone, which gets context c and outputs o.
Alone(m, c, o) ==
    /\ m \in Served
    /\ c \in Contexts
    /\ o \in Seq(Files)
    /\ ctx' = [ctx EXCEPT ![m] = c]
    /\ outputs' = [outputs EXCEPT ![m] = o]
    /\ kind' = kind
    /\ \A n \in Roles : n # m => /\ n \in opened <=> n \in opened'
                                 /\ n \in announced <=> n \in announced'
                                 /\ n \in inited <=> n \in inited'
    /\ mfailed \subseteq mfailed'
    /\ Onward(mpc, mpc')
    /\ MuxerOK(kind[m], m, c, o, opened', announced', inited', mfailed', mpc')
    /\ Frozen(outputs[m], o)

\* No output that was closed is touched.
AllFrozen == \A n \in Roles : Frozen(outputs[n], outputs'[n])

\* When one muxer moves and is right with itself, all are.
LEMMA AloneIsRight ==
    ASSUME MuxInv, NEW m, NEW c, NEW o, Alone(m, c, o)
    PROVE  /\ MuxerInv'
           /\ ctx' \in [Roles -> Contexts]
           /\ outputs' \in [Roles -> Seq(Files)]
           /\ AllFrozen
           /\ outputs'[m] = o
           /\ \A n \in Roles : n # m => outputs'[n] = outputs[n]
<1>1. /\ MuxersTypeOK /\ MuxerInv
      /\ ctx \in [Roles -> Contexts] /\ outputs \in [Roles -> Seq(Files)]
  BY DEF MuxInv, MuxersTypeOK
<1>2. m \in Roles /\ kind[m] # "none"
  BY DEF Alone, Served
<1>3. ctx' \in [Roles -> Contexts] /\ outputs' \in [Roles -> Seq(Files)]
  BY <1>1, <1>2 DEF Alone
<1>4. ctx'[m] = c /\ outputs'[m] = o
  BY <1>1, <1>2 DEF Alone
<1>5. \A n \in Roles : n # m => ctx'[n] = ctx[n] /\ outputs'[n] = outputs[n]
  BY <1>1, <1>2 DEF Alone
<1>6. ASSUME NEW n \in Roles
      PROVE  IF kind'[n] = "none" THEN outputs'[n] = <<>>
             ELSE MuxerOK(kind'[n], n, ctx'[n], outputs'[n],
                          opened', announced', inited', mfailed', mpc')
  <2>1. kind' = kind
    BY DEF Alone
  <2>2. CASE n = m
    BY <1>2, <1>4, <2>1, <2>2 DEF Alone
  <2>3. CASE n # m /\ kind[n] = "none"
    BY <1>1, <1>5, <2>1, <2>3 DEF MuxerInv
  <2>4. CASE n # m /\ kind[n] # "none"
    <3>1. MuxerOK(kind[n], n, ctx[n], outputs[n], opened, announced, inited, mfailed, mpc)
      BY <1>1, <2>4 DEF MuxerInv
    <3>2. /\ n \in opened <=> n \in opened'
          /\ n \in announced <=> n \in announced'
          /\ n \in inited <=> n \in inited'
          /\ mfailed \subseteq mfailed'
          /\ Onward(mpc, mpc')
      BY <2>4 DEF Alone
    <3>3. MuxerOK(kind[n], n, ctx[n], outputs[n], opened', announced', inited', mfailed', mpc')
      BY <3>1, <3>2, MuxerStays
    <3> QED
      BY <1>5, <2>1, <2>4, <3>3
  <2> QED
    BY <2>2, <2>3, <2>4
<1>7. MuxerInv'
  BY <1>6 DEF MuxerInv
<1>8. AllFrozen
  <2>1. ASSUME NEW n \in Roles PROVE Frozen(outputs[n], outputs'[n])
    <3>1. outputs[n] \in Seq(Files)
      BY <1>1
    <3> QED
      BY <1>4, <1>5, <3>1, FilesStay DEF Alone
  <2> QED
    BY <2>1 DEF AllFrozen
<1> QED
  BY <1>3, <1>4, <1>5, <1>7, <1>8

\* No samples anywhere are touched, and no segment is opened.
AllSame ==
    \A n \in Roles : /\ Same(outputs[n], outputs'[n])
                     /\ kind[n] = "segment" => Len(outputs'[n]) = Len(outputs[n])

\* What holds after a step that writes nothing.
Kept == MuxInv' /\ AllFrozen /\ AllSame

\* A step of the mux thread that calls no muxer, or of somebody else.
LEMMA NobodyMoves ==
    ASSUME MuxInv, UNCHANGED <<kind, ctx, outputs, opened, announced, inited>>,
           mfailed \subseteq mfailed', Onward(mpc, mpc')
    PROVE  MuxerInv' /\ AllFrozen /\ AllSame
<1>1. MuxersTypeOK /\ MuxerInv /\ outputs \in [Roles -> Seq(Files)]
  BY DEF MuxInv, MuxersTypeOK
<1>2. ASSUME NEW n \in Roles, kind[n] # "none"
      PROVE  MuxerOK(kind[n], n, ctx[n], outputs[n], opened, announced, inited, mfailed', mpc')
  <2>1. MuxerOK(kind[n], n, ctx[n], outputs[n], opened, announced, inited, mfailed, mpc)
    BY <1>1, <1>2 DEF MuxerInv
  <2> QED
    BY <2>1, MuxerStays
<1>3. MuxerInv'
  BY <1>1, <1>2 DEF MuxerInv
<1>4. \A n \in Roles : Frozen(outputs[n], outputs[n]) /\ Same(outputs[n], outputs[n])
  <2>1. ASSUME NEW n \in Roles PROVE Frozen(outputs[n], outputs[n]) /\ Same(outputs[n], outputs[n])
    <3>1. outputs[n] \in Seq(Files)
      BY <1>1
    <3> QED
      BY <3>1, FilesStay
  <2> QED
    BY <2>1
<1> QED
  BY <1>3, <1>4 DEF AllFrozen, AllSame

\* Muxer m is what its kind says.
LEMMA TheMuxer ==
    ASSUME MuxInv, NEW m \in Served
    PROVE  /\ m \in Roles /\ kind[m] # "none"
           /\ ctx[m] \in Contexts
           /\ outputs[m] \in Seq(Files)
           /\ kind[m] = "segment" => /\ m = "record"
                                     /\ SegmentInv(ctx[m], outputs[m], m \in announced, mfailed, mpc)
           /\ kind[m] # "segment" => /\ kind[m] = "mp4" <=> m = "record"
                                     /\ kind[m] = "rtsp" <=> m = "rtsp"
                                     /\ WholeInv(m, ctx[m], outputs[m], opened, announced, inited,
                                                 mfailed, mpc)
<1>1. m \in Roles /\ kind[m] # "none"
  BY DEF Served
<1>2. ctx[m] \in Contexts /\ outputs[m] \in Seq(Files)
  BY <1>1 DEF MuxInv, MuxersTypeOK
<1>3. MuxersTypeOK /\ MuxerInv
  BY DEF MuxInv
<1>4. MuxerOK(kind[m], m, ctx[m], outputs[m], opened, announced, inited, mfailed, mpc)
  BY <1>1, <1>3 DEF MuxerInv
<1>5. /\ kind \in [Roles -> {"mp4", "segment", "rtsp", "none"}]
      /\ kind["record"] # "rtsp" /\ kind["rtsp"] \in {"rtsp", "none"}
  BY <1>3, Serves
<1>6. kind[m] \in {"mp4", "segment", "rtsp"}
  BY <1>1, <1>5
<1>7. m = "record" \/ m = "rtsp"
  BY <1>1 DEF Roles
<1>8. CASE kind[m] = "segment"
  BY <1>1, <1>2, <1>4, <1>5, <1>7, <1>8 DEF MuxerOK
<1>9. CASE kind[m] # "segment"
  <2>1. /\ kind[m] = "mp4" <=> m = "record"
        /\ kind[m] = "rtsp" <=> m = "rtsp"
    BY <1>1, <1>5, <1>6, <1>7, <1>9
  <2> QED
    BY <1>1, <1>2, <1>4, <1>9, <2>1 DEF MuxerOK
<1> QED
  BY <1>8, <1>9

\* What Alone says of the outputs, when no samples are touched.
LEMMA AloneIsSame ==
    ASSUME MuxInv, NEW m, NEW c, NEW o, Alone(m, c, o), Same(outputs[m], o),
           kind[m] = "segment" => Len(o) = Len(outputs[m])
    PROVE  AllSame
<1>1. \A n \in Roles : outputs[n] \in Seq(Files)
  BY DEF MuxInv, MuxersTypeOK
<1>2. outputs'[m] = o /\ \A n \in Roles : n # m => outputs'[n] = outputs[n]
  BY AloneIsRight
<1>3. ASSUME NEW n \in Roles
      PROVE  /\ Same(outputs[n], outputs'[n])
             /\ kind[n] = "segment" => Len(outputs'[n]) = Len(outputs[n])
  <2>1. Same(outputs[n], outputs[n])
    BY <1>1, FilesStay
  <2> QED
    BY <1>2, <2>1
<1> QED
  BY <1>3 DEF AllSame

\* What else there is to show of such a step.
LEMMA AloneKeeps ==
    ASSUME MuxInv, NEW m, NEW c, NEW o, Alone(m, c, o), Same(outputs[m], o),
           kind[m] = "segment" => Len(o) = Len(outputs[m]),
           ControlInv', mfailed' \subseteq MuxFaults,
           mpc' \in {"open", "header", "pop", "write", "finish", "done"}
    PROVE  Kept
<1>1. /\ MuxerInv' /\ AllFrozen /\ AllSame
      /\ ctx' \in [Roles -> Contexts] /\ outputs' \in [Roles -> Seq(Files)]
  BY AloneIsRight, AloneIsSame
<1>2. kind' = kind /\ kind \in Kinds
  BY DEF Alone, MuxInv, MuxersTypeOK
<1>3. Served' \subseteq Roles
  BY DEF Served
<1>4. MuxersTypeOK'
  BY <1>1, <1>2, <1>3 DEF MuxersTypeOK, ControlInv
<1> QED
  BY <1>1, <1>4 DEF Kept, MuxInv

\* The mux thread opens a muxer.
LEMMA OpenKeeps ==
    ASSUME MuxInv, NEW m \in Roles, MuxOpen(m)
    PROVE  Kept
<1>1. /\ mpc = "open" /\ at = m /\ mpc' = "header" /\ opened' = opened \cup {m}
      /\ UNCHANGED <<emitted, taken, closed, kind, at, announced, inited, mfailed>>
  BY DEF MuxOpen, At, streamVars
<1>2. MuxersTypeOK /\ ControlInv
  BY DEF MuxInv
<1>3. /\ m \in Served /\ opened = Before(m) /\ announced = Before(m) /\ inited = Served
      /\ m \notin opened /\ m \notin announced
  BY <1>1, <1>2 DEF ControlInv, Before
<1>4. Onward(mpc, mpc')
  BY <1>1 DEF Onward, Early, Busy
<1>5. Served' = Served
  BY <1>1 DEF Served
<1>6. ControlInv'
  <2>1. Before(at') = Before(m)
    BY <1>1, <1>5 DEF Before
  <2>2. /\ announced' \subseteq opened' /\ opened' \subseteq Served' /\ inited' = Served'
        /\ at' \in Served' /\ opened' = Before(m) \cup {m} /\ announced' = Before(m) /\ taken' = 0
    BY <1>1, <1>2, <1>3, <1>5 DEF ControlInv, Early
  <2> QED
    BY <1>1, <1>3, <1>5, <2>1, <2>2 DEF ControlInv, Before, Early
<1>7. /\ ctx[m] \in Contexts /\ outputs[m] \in Seq(Files) /\ inited' = Served
      /\ \A n \in Roles : n # m => /\ n \in opened <=> n \in opened'
                                   /\ n \in announced <=> n \in announced'
                                   /\ n \in inited <=> n \in inited'
  BY <1>1, <1>3, TheMuxer
<1>8. mpc' \in {"open", "header", "pop", "write", "finish", "done"} /\ mfailed' \subseteq MuxFaults
  BY <1>1, <1>2 DEF MuxersTypeOK
<1>9. CASE kind[m] = "segment"
  <2>1. UNCHANGED <<ctx, outputs>>
    BY <1>9 DEF MuxOpen
  <2>2. ctx' = [ctx EXCEPT ![m] = ctx[m]] /\ outputs' = [outputs EXCEPT ![m] = outputs[m]]
    BY <1>2, <2>1 DEF MuxersTypeOK
  <2>3. SegmentInv(ctx[m], outputs[m], m \in announced', mfailed', mpc')
    BY <1>1, <1>3, <1>4, <1>9, TheMuxer DEF SegmentInv, Onward
  <2>4. MuxerOK(kind[m], m, ctx[m], outputs[m], opened', announced', inited', mfailed', mpc')
    BY <1>9, <2>3 DEF MuxerOK
  <2>5. Frozen(outputs[m], outputs[m]) /\ Same(outputs[m], outputs[m])
    BY <1>7, FilesStay
  <2>6. Alone(m, ctx[m], outputs[m])
    BY <1>1, <1>3, <1>4, <1>7, <2>2, <2>4, <2>5 DEF Alone
  <2> QED
    BY <1>6, <1>8, <2>5, <2>6, AloneKeeps
<1>10. CASE kind[m] # "segment"
  <2> DEFINE c == [ctx[m] EXCEPT !.format = TRUE, !.pb = (kind[m] = "mp4"), !.frames = 0]
             o == Append(outputs[m], NewOutput)
  <2>1. /\ ctx' = [ctx EXCEPT ![m].format = TRUE, ![m].pb = (kind[m] = "mp4"), ![m].frames = 0]
        /\ outputs' = [outputs EXCEPT ![m] = o]
    BY <1>10 DEF MuxOpen
  <2>2. ctx' = [ctx EXCEPT ![m] = c]
    BY <1>2, <2>1 DEF MuxersTypeOK
  <2>3. /\ outputs[m] = <<>> /\ ~ctx[m].header
        /\ kind[m] = "mp4" <=> m = "record"
        /\ WholeInv(m, ctx[m], outputs[m], opened, announced, inited, mfailed, mpc)
    BY <1>1, <1>3, <1>10, TheMuxer DEF WholeInv, Early
  <2>4. /\ c \in Contexts /\ c.pb = (kind[m] = "mp4") /\ c.frames = 0
        /\ c.header = ctx[m].header /\ c.requested = ctx[m].requested
    BY <1>7 DEF Contexts
  <2>5. o \in Seq(Files) /\ o # <<>> /\ Len(o) = 1 /\ o[1] = NewOutput
    <3>1. Len(outputs[m]) = 0
      BY <2>3, EmptySeq
    <3> QED
      BY <1>7, <3>1, NextFile
  <2>6. Frozen(outputs[m], o) /\ Same(outputs[m], o)
    <3>1. Len(outputs[m]) = 0
      BY <2>3, EmptySeq
    <3>2. \A i \in 1..Len(o) : o[i].samples = <<>>
      BY <2>5 DEF NewOutput
    <3> QED
      BY <2>5, <3>1, <3>2 DEF Frozen, Same
  <2> HIDE DEF c, o
  <2>7. WholeOK(m, c, o[1], opened', announced', inited', mfailed')
    <3>1. /\ ~NewOutput.header /\ NewOutput.samples = <<>> /\ Len(NewOutput.samples) = 0
          /\ NewOutput.trailers = 0 /\ ~NewOutput.closed
      BY EmptySeq DEF NewOutput
    <3>2. NewOutput.header = c.header
      BY <1>7, <2>3, <2>4, ContextFields DEF NewOutput
    <3>3. m \in opened' /\ m \in inited'
      BY <1>1, <1>3
    <3> QED
      BY <2>4, <2>5, <3>1, <3>2, <3>3 DEF WholeOK
  <2>8. WholeInv(m, c, o, opened', announced', inited', mfailed', mpc')
    BY <1>1, <1>3, <2>3, <2>4, <2>5, <2>7 DEF WholeInv
  <2>9. MuxerOK(kind[m], m, c, o, opened', announced', inited', mfailed', mpc')
    BY <1>10, <2>8 DEF MuxerOK
  <2>10. Alone(m, c, o)
    BY <1>1, <1>3, <1>4, <1>7, <2>1, <2>2, <2>4, <2>5, <2>6, <2>9 DEF Alone, o
  <2> QED
    BY <1>6, <1>8, <1>10, <2>6, <2>10, AloneKeeps
<1> QED
  BY <1>9, <1>10

\* The same for a step that calls no muxer.
LEMMA NobodyKeeps ==
    ASSUME MuxInv, UNCHANGED <<kind, ctx, outputs, opened, announced, inited>>,
           mfailed \subseteq mfailed', Onward(mpc, mpc'),
           ControlInv', mfailed' \subseteq MuxFaults,
           mpc' \in {"open", "header", "pop", "write", "finish", "done"}
    PROVE  Kept
<1>1. MuxerInv' /\ AllFrozen /\ AllSame
  BY NobodyMoves
<1>2. MuxersTypeOK
  BY DEF MuxInv
<1>3. Served' \subseteq Roles
  BY DEF Served
<1>4. MuxersTypeOK'
  BY <1>2, <1>3 DEF MuxersTypeOK, ControlInv
<1> QED
  BY <1>1, <1>4 DEF Kept, MuxInv

\* What goes wrong is noted.
LEMMA Notes ==
    ASSUME MuxersTypeOK, NEW bad, GoesWrong(bad)
    PROVE  /\ bad \subseteq mfailed' /\ mfailed \subseteq mfailed' /\ mfailed' \subseteq MuxFaults
           /\ bad = {} => mfailed' = mfailed
  BY DEF GoesWrong, MuxersTypeOK

\* A muxer is not opened.
LEMMA OpenFailsKeeps ==
    ASSUME MuxInv, NEW m \in Roles, MuxOpenFails(m)
    PROVE  Kept
<1>1. /\ mpc = "open" /\ at = m /\ kind[m] # "segment" /\ at' = at
      /\ mpc' = IF m = "record" THEN "done" ELSE "finish"
      /\ UNCHANGED <<emitted, taken, kind, opened, announced, inited, outputs>>
      /\ \E format \in BOOLEAN : ctx' = [ctx EXCEPT ![m].format = format]
      /\ GoesWrong({"mux_open"})
  BY DEF MuxOpenFails, At, MuxStops, Shut
<1>2. MuxersTypeOK /\ ControlInv
  BY DEF MuxInv
<1>3. /\ m \in Served /\ opened = Before(m) /\ announced = Before(m) /\ inited = Served
      /\ m \notin opened /\ m \notin announced
      /\ m = "record" => opened = {}
  <2>1. Served \subseteq {"record", "rtsp"}
    BY <1>2, Serves DEF Roles
  <2>2. Before("record") = {}
    BY <2>1 DEF Before
  <2> QED
    BY <1>1, <1>2, <2>2 DEF ControlInv, Before
<1>4. /\ "mux_open" \in mfailed' /\ mfailed \subseteq mfailed' /\ mfailed' \subseteq MuxFaults
      /\ mpc' \in {"open", "header", "pop", "write", "finish", "done"}
      /\ mpc' \notin Busy /\ Onward(mpc, mpc')
  BY <1>1, <1>2, Notes DEF Onward, Early, Busy
<1>5. ControlInv'
  <2>1. Served' = Served
    BY <1>1 DEF Served
  <2>2. /\ announced' \subseteq opened' /\ opened' \subseteq Served' /\ inited' = Served'
        /\ at' \in Served'
        /\ mpc' = "done" => opened' = {}
    BY <1>1, <1>2, <1>3, <2>1 DEF ControlInv
  <2> QED
    BY <1>4, <2>2 DEF ControlInv, Busy, Early
<1>6. PICK format \in BOOLEAN : ctx' = [ctx EXCEPT ![m].format = format]
  BY <1>1
<1> DEFINE c == [ctx[m] EXCEPT !.format = format]
<1>7. ctx' = [ctx EXCEPT ![m] = c] /\ outputs' = [outputs EXCEPT ![m] = outputs[m]]
  BY <1>1, <1>2, <1>6 DEF MuxersTypeOK
<1>8. /\ ctx[m] \in Contexts /\ outputs[m] \in Seq(Files) /\ outputs[m] = <<>>
      /\ WholeInv(m, ctx[m], outputs[m], opened, announced, inited, mfailed, mpc)
  BY <1>1, <1>3, TheMuxer DEF WholeInv, Early
<1>9. c \in Contexts /\ c.pb = ctx[m].pb /\ c.header = ctx[m].header
  BY <1>8 DEF Contexts
<1>10. MuxerOK(kind[m], m, c, outputs[m], opened', announced', inited', mfailed', mpc')
  <2>1. WholeInv(m, c, outputs[m], opened', announced', inited', mfailed', mpc')
    BY <1>1, <1>3, <1>4, <1>8, <1>9 DEF WholeInv, Busy, Early
  <2> QED
    BY <1>1, <2>1 DEF MuxerOK
<1>11. Frozen(outputs[m], outputs[m]) /\ Same(outputs[m], outputs[m])
  BY <1>8, FilesStay
<1>12. Alone(m, c, outputs[m])
  BY <1>1, <1>3, <1>4, <1>7, <1>8, <1>9, <1>10, <1>11 DEF Alone
<1> QED
  BY <1>1, <1>4, <1>5, <1>11, <1>12, AloneKeeps

\* A header is requested.
LEMMA HeaderKeeps ==
    ASSUME MuxInv, NEW m \in Roles, MuxHeader(m)
    PROVE  Kept
<1>1. /\ mpc = "header" /\ at = m /\ NextRole(m, "open")
      /\ announced' = announced \cup {m}
      /\ ctx' = [ctx EXCEPT ![m].requested = (kind[m] # "segment")]
      /\ UNCHANGED <<emitted, taken, closed, kind, opened, inited, outputs, mfailed>>
  BY DEF MuxHeader, At, streamVars
<1>2. MuxersTypeOK /\ ControlInv
  BY DEF MuxInv
<1>3. /\ m \in Served /\ opened = Before(m) \cup {m} /\ announced = Before(m) /\ inited = Served
      /\ m \in opened /\ m \notin announced /\ m \in announced' /\ taken = 0
  BY <1>1, <1>2 DEF ControlInv, Before, Early
<1>4. /\ Served \subseteq {"record", "rtsp"} /\ FirstOf(Served) \in Served
      /\ "rtsp" \in Served <=> kind["rtsp"] # "none"
  BY <1>2, Serves DEF Roles
<1>5. Served' = Served /\ mpc' \in {"open", "pop"} /\ Onward(mpc, mpc')
  BY <1>1 DEF Served, NextRole, Onward, Early, Busy
<1>6. ControlInv'
  <2>1. CASE m = "record" /\ kind["rtsp"] # "none"
    <3>1. mpc' = "open" /\ at' = "rtsp"
      BY <1>1, <2>1 DEF NextRole
    <3>2. /\ at' \in Served' /\ Before(at') = {"record"}
      BY <1>3, <1>4, <1>5, <2>1, <3>1 DEF Before
    <3>3. Before(m) = {}
      BY <1>4, <2>1 DEF Before
    <3>4. opened' = {"record"} /\ announced' = {"record"}
      BY <1>1, <1>3, <2>1, <3>3
    <3>5. Before(at)' = {"record"}
      BY <1>5, <3>1, <3>2 DEF Before
    <3> QED
      BY <1>1, <1>3, <1>4, <1>5, <2>1, <3>1, <3>2, <3>4, <3>5 DEF ControlInv, Early
  <2>2. CASE ~(m = "record" /\ kind["rtsp"] # "none")
    <3>1. mpc' = "pop" /\ at' = FirstOf(Served)
      BY <1>1, <2>2 DEF NextRole
    <3>2. Before(m) \cup {m} = Served
      BY <1>3, <1>4, <2>2 DEF Before
    <3>3. opened' = Served' /\ announced' = Served' /\ inited' = Served' /\ at' \in Served'
      BY <1>1, <1>3, <1>4, <1>5, <3>1, <3>2
    <3> QED
      BY <3>1, <3>3 DEF ControlInv, Early
  <2> QED
    BY <2>1, <2>2
<1> DEFINE c == [ctx[m] EXCEPT !.requested = (kind[m] # "segment")]
<1>7. ctx' = [ctx EXCEPT ![m] = c] /\ outputs' = [outputs EXCEPT ![m] = outputs[m]]
  BY <1>1, <1>2 DEF MuxersTypeOK
<1>8. ctx[m] \in Contexts /\ outputs[m] \in Seq(Files)
  BY <1>3, TheMuxer
<1>9. /\ c \in Contexts /\ c.pb = ctx[m].pb /\ c.header = ctx[m].header
      /\ c.format = ctx[m].format /\ c.frames = ctx[m].frames /\ c.trailer = ctx[m].trailer
      /\ c.requested = (kind[m] # "segment")
  BY <1>8 DEF Contexts
<1> HIDE DEF c
<1>10. MuxerOK(kind[m], m, c, outputs[m], opened', announced', inited', mfailed', mpc')
  <2>1. CASE kind[m] = "segment"
    <3>1. SegmentInv(ctx[m], outputs[m], m \in announced, mfailed, mpc)
      BY <1>3, <2>1, TheMuxer
    <3>2. SegmentOK(c, outputs[m], mfailed)
      BY <1>9, <3>1 DEF SegmentInv, SegmentOK, Current
    <3>3. SegmentInv(c, outputs[m], m \in announced', mfailed', mpc')
      BY <1>1, <1>3, <1>5, <1>9, <3>1, <3>2 DEF SegmentInv, Onward
    <3> QED
      BY <2>1, <3>3 DEF MuxerOK
  <2>2. CASE kind[m] # "segment"
    <3>1. /\ WholeInv(m, ctx[m], outputs[m], opened, announced, inited, mfailed, mpc)
          /\ ctx[m].header = FALSE
      <4>1. WholeInv(m, ctx[m], outputs[m], opened, announced, inited, mfailed, mpc)
        BY <1>3, <2>2, TheMuxer
      <4> QED
        BY <1>1, <1>3, <1>8, <4>1, ContextFields DEF WholeInv, Early
    <3>2. ASSUME outputs[m] # <<>>
          PROVE  WholeOK(m, c, outputs[m][1], opened', announced', inited', mfailed')
      <4>1. WholeOK(m, ctx[m], outputs[m][1], opened, announced, inited, mfailed)
        BY <3>1, <3>2 DEF WholeInv
      <4>2. outputs[m][1].header = FALSE /\ outputs[m][1].trailers = 0
        BY <1>3, <3>1, <4>1 DEF WholeOK
      <4> QED
        BY <1>1, <1>3, <1>9, <4>1, <4>2 DEF WholeOK
    <3>3. WholeInv(m, c, outputs[m], opened', announced', inited', mfailed', mpc')
      BY <1>1, <1>3, <1>9, <2>2, <3>1, <3>2 DEF WholeInv
    <3> QED
      BY <2>2, <3>3 DEF MuxerOK
  <2> QED
    BY <2>1, <2>2
<1>11. Frozen(outputs[m], outputs[m]) /\ Same(outputs[m], outputs[m])
  BY <1>8, FilesStay
<1>12. Alone(m, c, outputs[m])
  BY <1>1, <1>3, <1>5, <1>7, <1>8, <1>9, <1>10, <1>11 DEF Alone
<1>13. mfailed' \subseteq MuxFaults
  BY <1>1, <1>2 DEF MuxersTypeOK
<1> QED
  BY <1>5, <1>6, <1>11, <1>12, <1>13, AloneKeeps

\* A packet is taken, or the thread goes to its finish.
LEMMA PopKeeps ==
    ASSUME MuxInv, taken \in Nat, MuxPop \/ MuxPopFails
    PROVE  Kept
<1>1. MuxersTypeOK /\ ControlInv
  BY DEF MuxInv
<1>2. /\ mpc = "pop" /\ UNCHANGED <<kind, ctx, outputs, opened, announced, inited>>
  BY DEF MuxPop, MuxPopFails
<1>3. /\ inited = Served /\ opened = Served /\ announced = Served /\ at \in Served
      /\ FirstOf(Served) \in Served /\ Served' = Served
  BY <1>1, <1>2, Serves DEF ControlInv, Served
<1>4. /\ mfailed \subseteq mfailed' /\ mfailed' \subseteq MuxFaults
      /\ mpc' \in {"write", "finish"} /\ at' \in Served
      /\ mpc' = "write" => taken' # 0
      /\ mpc' = "finish" /\ mfailed' = {} => AtEnd'
  <2>1. CASE MuxPop /\ TakeNext
    <3>1. mfailed' = mfailed /\ mpc' = "write" /\ at' = FirstOf(Served) /\ taken' = taken + 1
      BY <1>2, <2>1 DEF MuxPop, TakeNext, AtEnd
    <3>2. taken' # 0
      BY <2>1, <3>1 DEF TakeNext
    <3> QED
      BY <1>1, <1>3, <3>1, <3>2 DEF MuxersTypeOK
  <2>2. CASE MuxPop /\ ~TakeNext
    <3>1. /\ mfailed' = mfailed /\ mpc' = "finish" /\ at' = at /\ AtEnd
          /\ UNCHANGED <<emitted, taken, closed>>
      BY <2>2 DEF MuxPop, streamVars
    <3> QED
      BY <1>1, <1>3, <3>1 DEF MuxersTypeOK, AtEnd
  <2>3. CASE MuxPopFails
    <3>1. mpc' = "finish" /\ at' = at /\ GoesWrong({"mux_pop"})
      BY <2>3 DEF MuxPopFails, MuxStops
    <3>2. /\ "mux_pop" \in mfailed' /\ mfailed \subseteq mfailed' /\ mfailed' \subseteq MuxFaults
      BY <1>1, <3>1, Notes
    <3> QED
      BY <1>3, <3>1, <3>2
  <2> QED
    BY <2>1, <2>2, <2>3
<1>5. Onward(mpc, mpc')
  BY <1>2, <1>4 DEF Onward, Early, Busy
<1>6. ControlInv'
  <2>1. /\ opened' = Served' /\ announced' = Served' /\ inited' = Served' /\ at' \in Served'
    BY <1>2, <1>3, <1>4
  <2> QED
    BY <1>4, <2>1 DEF ControlInv, Early
<1> QED
  BY <1>2, <1>4, <1>5, <1>6, NobodyKeeps

\* What the encode thread does, and what closes the queue, is nothing to the mux
\* thread: the packets it has taken stay, and no others come once the queue
\* is closed.
LEMMA OtherKeeps ==
    ASSUME MuxInv, UNCHANGED muxVars, UNCHANGED taken,
           closed => closed' /\ emitted' = emitted
    PROVE  Kept
<1>1. MuxersTypeOK /\ ControlInv
  BY DEF MuxInv
<1>2. UNCHANGED <<kind, mpc, at, opened, announced, inited, ctx, outputs, mfailed>>
  BY DEF muxVars, threadVars
<1>3. Served' = Served /\ Before(at)' = Before(at) /\ Onward(mpc, mpc')
  BY <1>2 DEF Served, Before, Onward
<1>4. mpc' \in {"finish", "done"} /\ mfailed' = {} => AtEnd'
  BY <1>1, <1>2 DEF ControlInv, AtEnd
<1>5. ControlInv'
  BY <1>1, <1>2, <1>3, <1>4 DEF ControlInv
<1>6. mpc' \in {"open", "header", "pop", "write", "finish", "done"} /\ mfailed' \subseteq MuxFaults
  BY <1>1, <1>2 DEF MuxersTypeOK
<1> QED
  BY <1>2, <1>3, <1>5, <1>6, NobodyKeeps

\* A muxer gets its trailer.
LEMMA TrailerStepKeeps ==
    ASSUME MuxInv, MuxTrailer
    PROVE  Kept
<1> DEFINE m == FirstOf(announced)
           c == ctx[m]
           o == outputs[m]
<1>1. /\ mpc = "finish" /\ announced # {} /\ announced' = announced \ {m}
      /\ UNCHANGED <<emitted, taken, closed, kind, inited, mpc, at, opened>>
  BY DEF MuxTrailer, FinishFrame, streamVars
<1>2. MuxersTypeOK /\ ControlInv
  BY DEF MuxInv
<1>3. /\ m \in announced /\ m \in opened /\ m \in Served /\ inited = Served /\ m \in inited
      /\ m \notin announced' /\ m \in opened' /\ m \in inited'
  <2>1. announced \subseteq {"record", "rtsp"}
    BY <1>2 DEF MuxersTypeOK, Roles
  <2>2. m \in announced
    BY <1>1, <2>1 DEF FirstOf
  <2> QED
    BY <1>1, <1>2, <2>2 DEF ControlInv
<1>4. /\ m \in Roles /\ c \in Contexts /\ o \in Seq(Files)
      /\ kind[m] = "segment" => SegmentInv(c, o, m \in announced, mfailed, mpc)
      /\ kind[m] # "segment" => /\ kind[m] = "rtsp" <=> m = "rtsp"
                                /\ WholeInv(m, c, o, opened, announced, inited, mfailed, mpc)
      /\ m = "record" \/ m = "rtsp"
  BY <1>3, TheMuxer DEF Roles
<1>5. Served' = Served /\ Onward(mpc, mpc') /\ mpc \notin Busy /\ mpc \notin Early
      /\ mpc' \in {"open", "header", "pop", "write", "finish", "done"}
  BY <1>1 DEF Served, Onward, Busy, Early
<1>6. ASSUME mfailed \subseteq mfailed' PROVE ControlInv'
  <2>1. /\ announced' \subseteq opened' /\ opened' \subseteq Served' /\ inited' = Served'
        /\ at' \in Served'
    BY <1>1, <1>2, <1>3, <1>5 DEF ControlInv
  <2>2. mfailed' = {} => AtEnd'
    BY <1>1, <1>2, <1>6 DEF ControlInv, AtEnd
  <2> QED
    BY <1>1, <2>1, <2>2 DEF ControlInv, Early
<1>7. ASSUME NEW d \in Contexts, NEW q \in Seq(Files), Becomes(m, [c |-> d, o |-> q]),
             MuxerOK(kind[m], m, d, q, opened', announced', inited', mfailed', mpc'),
             Frozen(o, q), Same(o, q), Len(q) = Len(o),
             mfailed \subseteq mfailed', mfailed' \subseteq MuxFaults
      PROVE  Kept
  <2>1. ctx' = [ctx EXCEPT ![m] = d] /\ outputs' = [outputs EXCEPT ![m] = q]
    BY <1>7 DEF Becomes
  <2> HIDE DEF m
  <2>2. Alone(m, d, q)
    BY <1>1, <1>3, <1>5, <1>7, <2>1 DEF Alone
  <2> QED
    BY <1>5, <1>6, <1>7, <2>2, AloneKeeps
<1>8. CASE ~c.header /\ kind[m] = "segment"
  <2> DEFINE t == CloseSegment(Muxer(m), FALSE)
  <2>1. Becomes(m, t) /\ GoesWrong({})
    BY <1>8 DEF MuxTrailer
  <2>2. mfailed' = mfailed /\ mfailed' \subseteq MuxFaults
    BY <1>2, <2>1, Notes
  <2>3. Muxer(m).c = c /\ Muxer(m).o = o
    BY DEF Muxer
  <2>4. SegmentOK(c, o, mfailed)
    BY <1>4, <1>8 DEF SegmentInv
  <2>5. /\ t.c \in Contexts /\ t.o \in Seq(Files) /\ SegmentOK(t.c, t.o, mfailed)
        /\ ~t.c.format /\ Len(t.o) = Len(o) /\ Same(o, t.o) /\ Frozen(o, t.o)
    BY <1>4, <1>8, <2>3, <2>4, SegmentCloses
  <2>6. SegmentInv(t.c, t.o, m \in announced', mfailed', mpc')
    BY <1>1, <1>5, <2>2, <2>5 DEF SegmentInv
  <2>7. MuxerOK(kind[m], m, t.c, t.o, opened', announced', inited', mfailed', mpc')
    BY <1>8, <2>6 DEF MuxerOK
  <2>8. Becomes(m, [c |-> t.c, o |-> t.o])
    BY <2>1 DEF Becomes
  <2> QED
    BY <1>7, <2>2, <2>5, <2>7, <2>8
<1>9. CASE ~c.header /\ kind[m] # "segment"
  <2>1. UNCHANGED <<ctx, outputs, mfailed>>
    BY <1>9 DEF MuxTrailer
  <2>2. WholeInv(m, c, o, opened', announced', inited', mfailed', mpc')
    <3>1. WholeInv(m, c, o, opened, announced, inited, mfailed, mpc)
      BY <1>4, <1>9
    <3>2. ASSUME o # <<>> PROVE WholeOK(m, c, o[1], opened', announced', inited', mfailed')
      <4>1. WholeOK(m, c, o[1], opened, announced, inited, mfailed)
        BY <3>1, <3>2 DEF WholeInv
      <4> QED
        BY <1>1, <1>3, <1>9, <2>1, <4>1 DEF WholeOK
    <3> QED
      BY <1>1, <1>3, <1>5, <2>1, <3>1, <3>2 DEF WholeInv
  <2>3. MuxerOK(kind[m], m, c, o, opened', announced', inited', mfailed', mpc')
    BY <1>9, <2>2 DEF MuxerOK
  <2>4. Becomes(m, [c |-> c, o |-> o])
    BY <1>2, <2>1 DEF Becomes, MuxersTypeOK
  <2>5. Frozen(o, o) /\ Same(o, o)
    BY <1>4, FilesStay
  <2>6. mfailed' \subseteq MuxFaults
    BY <1>2, <2>1 DEF MuxersTypeOK
  <2> QED
    BY <1>4, <1>7, <2>1, <2>3, <2>4, <2>5, <2>6
<1>10. CASE c.header
  <2>1. PICK ok \in BOOLEAN : /\ GoesWrong(IF ok THEN {} ELSE {"trailer"})
                              /\ Becomes(m, TrailerAfter(Muxer(m), kind[m], ok))
    BY <1>10 DEF MuxTrailer
  <2>2. /\ mfailed \subseteq mfailed' /\ mfailed' \subseteq MuxFaults
        /\ ~ok => "trailer" \in mfailed'
    <3>1. /\ (IF ok THEN {} ELSE {"trailer"}) \subseteq mfailed'
          /\ mfailed \subseteq mfailed' /\ mfailed' \subseteq MuxFaults
      BY <1>2, <2>1, Notes
    <3> QED
      BY <3>1
  <2>3. Muxer(m).c = c /\ Muxer(m).o = o
    BY DEF Muxer
  <2>4. CASE kind[m] = "segment"
    <3> DEFINE t == CloseSegment(Muxer(m), ok)
    <3>1. Becomes(m, t)
      BY <2>1, <2>4 DEF TrailerAfter
    <3>2. SegmentOK(c, o, mfailed')
      BY <1>4, <2>2, <2>4, StillOK DEF SegmentInv
    <3>3. /\ t.c \in Contexts /\ t.o \in Seq(Files) /\ SegmentOK(t.c, t.o, mfailed')
          /\ ~t.c.format /\ Len(t.o) = Len(o) /\ Same(o, t.o) /\ Frozen(o, t.o)
      BY <1>4, <2>2, <2>3, <3>2, SegmentCloses
    <3>4. SegmentInv(t.c, t.o, m \in announced', mfailed', mpc')
      BY <1>1, <1>5, <3>3 DEF SegmentInv
    <3>5. MuxerOK(kind[m], m, t.c, t.o, opened', announced', inited', mfailed', mpc')
      BY <2>4, <3>4 DEF MuxerOK
    <3>6. Becomes(m, [c |-> t.c, o |-> t.o])
      BY <3>1 DEF Becomes
    <3> QED
      BY <1>7, <2>2, <3>3, <3>5, <3>6
  <2>5. CASE kind[m] # "segment"
    <3> DEFINE d == [c EXCEPT !.trailer = ok /\ kind[m] = "rtsp"]
               q == TrailerLast(o, ok)
    <3>1. Becomes(m, [c |-> d, o |-> q])
      BY <2>1, <2>3, <2>5 DEF TrailerAfter
    <3>2. WholeInv(m, c, o, opened, announced, inited, mfailed, mpc)
      BY <1>4, <2>5
    <3>3. o # <<>> /\ Len(o) = 1 /\ WholeOK(m, c, o[1], opened, announced, inited, mfailed)
      BY <1>10, <3>2 DEF WholeInv
    <3>4. /\ o[1].header /\ Len(o[1].samples) = c.frames /\ o[1].trailers = 0
          /\ o[1].closed <=> IF m = "record" THEN m \notin opened ELSE m \notin inited
      BY <1>3, <1>10, <3>3 DEF WholeOK
    <3>5. /\ q \in Seq(Files) /\ q # <<>> /\ Len(q) = 1
          /\ q[1].header /\ Len(q[1].samples) = c.frames /\ q[1].trailers = 1
          /\ q[1].finished = ok /\ q[1].closed = o[1].closed
      BY <1>4, <3>3, <3>4, TrailerFile
    <3>6. /\ d \in Contexts /\ d.header /\ d.pb = c.pb /\ d.requested = c.requested
          /\ d.frames = c.frames /\ d.trailer = (ok /\ kind[m] = "rtsp")
      <4>1. (ok /\ kind[m] = "rtsp") \in BOOLEAN
        OBVIOUS
      <4> QED
        BY <1>4, <1>10, <4>1 DEF Contexts
    <3> HIDE DEF d, q
    <3>7. WholeOK(m, d, q[1], opened', announced', inited', mfailed')
      <4>1. ok \/ "trailer" \in mfailed'
        BY <2>2
      <4>2. d.trailer \/ m = "record" \/ "trailer" \in mfailed'
        BY <1>4, <2>2, <2>5, <3>6
      <4> QED
        BY <1>1, <1>3, <3>4, <3>5, <3>6, <4>1, <4>2 DEF WholeOK
    <3>8. WholeInv(m, d, q, opened', announced', inited', mfailed', mpc')
      BY <1>1, <1>3, <1>5, <3>2, <3>5, <3>6, <3>7 DEF WholeInv
    <3>9. MuxerOK(kind[m], m, d, q, opened', announced', inited', mfailed', mpc')
      BY <2>5, <3>8 DEF MuxerOK
    <3>10. Same(o, q) /\ Frozen(o, q)
      BY <1>3, <1>4, <3>3, <3>4, TrailerKeeps DEF q
    <3> QED
      BY <1>7, <2>2, <3>1, <3>3, <3>5, <3>6, <3>9, <3>10
  <2> QED
    BY <2>4, <2>5
<1> QED
  BY <1>8, <1>9, <1>10

\* A muxer is closed, or the mux thread ends.
LEMMA CloseKeeps ==
    ASSUME MuxInv, MuxClose
    PROVE  Kept
<1>1. /\ mpc = "finish" /\ announced = {}
      /\ UNCHANGED <<emitted, taken, closed, kind, inited, at, announced, mfailed>>
  BY DEF MuxClose, FinishFrame, streamVars
<1>2. MuxersTypeOK /\ ControlInv
  BY DEF MuxInv
<1>3. /\ mpc' \in {"finish", "done"} /\ opened' \subseteq opened
      /\ mpc' = "done" => opened' = {}
      /\ mfailed \subseteq mfailed' /\ mfailed' \subseteq MuxFaults
  BY <1>1, <1>2 DEF MuxClose, MuxersTypeOK
<1>4. Served' = Served /\ Onward(mpc, mpc') /\ mpc' \notin Busy /\ mpc' \notin Early
  BY <1>1, <1>3 DEF Served, Onward, Busy, Early
<1>5. ControlInv'
  <2>1. /\ announced' \subseteq opened' /\ opened' \subseteq Served' /\ inited' = Served'
        /\ at' \in Served'
    BY <1>1, <1>2, <1>3, <1>4 DEF ControlInv
  <2>2. mfailed' = {} => AtEnd'
    BY <1>1, <1>2 DEF ControlInv, AtEnd
  <2> QED
    BY <1>3, <1>4, <2>1, <2>2 DEF ControlInv, Early
<1>6. CASE opened = {}
  <2>1. UNCHANGED <<ctx, outputs, opened>>
    BY <1>6 DEF MuxClose
  <2> QED
    BY <1>1, <1>3, <1>4, <1>5, <2>1, NobodyKeeps
<1>7. CASE opened # {}
  <2> DEFINE m == FirstOf(opened)
             c == ctx[m]
             o == outputs[m]
             d == [c EXCEPT !.pb = FALSE]
  <2>1. /\ mpc' = mpc /\ opened' = opened \ {m}
        /\ IF c.pb THEN Becomes(m, [c |-> d, o |-> CloseLast(o)]) ELSE UNCHANGED <<ctx, outputs>>
    BY <1>7 DEF MuxClose
  <2>2. /\ m \in opened /\ m \in Served /\ inited = Served /\ m \in inited
        /\ m \notin opened' /\ m \in inited' /\ m \notin announced /\ m \notin announced'
    <3>1. opened \subseteq {"record", "rtsp"}
      BY <1>2 DEF MuxersTypeOK, Roles
    <3>2. m \in opened
      BY <1>7, <3>1 DEF FirstOf
    <3> QED
      BY <1>1, <1>2, <2>1, <3>2 DEF ControlInv
  <2>3. /\ m \in Roles /\ c \in Contexts /\ o \in Seq(Files)
        /\ kind[m] = "segment" => SegmentInv(c, o, m \in announced, mfailed, mpc)
        /\ kind[m] # "segment" => WholeInv(m, c, o, opened, announced, inited, mfailed, mpc)
        /\ m = "record" \/ m = "rtsp"
    BY <2>2, TheMuxer DEF Roles
  <2>4. Frozen(o, o) /\ Same(o, o)
    BY <2>3, FilesStay
  <2>5. ~c.pb => ctx' = [ctx EXCEPT ![m] = c] /\ outputs' = [outputs EXCEPT ![m] = o]
    BY <1>2, <2>1 DEF MuxersTypeOK
  <2>6. ASSUME NEW e \in Contexts, NEW q \in Seq(Files),
               ctx' = [ctx EXCEPT ![m] = e], outputs' = [outputs EXCEPT ![m] = q],
               MuxerOK(kind[m], m, e, q, opened', announced', inited', mfailed', mpc'),
               Frozen(o, q), Same(o, q), Len(q) = Len(o)
        PROVE  Kept
    <3> HIDE DEF m
    <3>1. Alone(m, e, q)
      BY <1>1, <1>3, <1>4, <2>1, <2>2, <2>6 DEF Alone
    <3> QED
      BY <1>3, <1>5, <2>6, <3>1, AloneKeeps
  <2>7. CASE kind[m] = "segment"
    <3>1. SegmentInv(c, o, m \in announced, mfailed, mpc)
      BY <2>3, <2>7
    <3>2. ~c.format /\ ~c.pb
      BY <2>2, <3>1 DEF SegmentInv, SegmentOK
    <3>3. MuxerOK(kind[m], m, c, o, opened', announced', inited', mfailed', mpc')
      BY <1>1, <2>1, <2>7, <3>1 DEF SegmentInv, MuxerOK
    <3> QED
      BY <2>3, <2>4, <2>5, <2>6, <3>2, <3>3
  <2>8. CASE kind[m] # "segment"
    <3>1. WholeInv(m, c, o, opened, announced, inited, mfailed, mpc)
      BY <2>3, <2>8
    <3>2. /\ o # <<>> /\ Len(o) = 1 /\ WholeOK(m, c, o[1], opened, announced, inited, mfailed)
          /\ c.pb <=> m = "record"
      BY <2>2, <3>1 DEF WholeInv
    <3>3. CASE m = "record"
      <4> DEFINE q == CloseLast(o)
      <4>1. ctx' = [ctx EXCEPT ![m] = d] /\ outputs' = [outputs EXCEPT ![m] = q]
        BY <2>1, <3>2, <3>3 DEF Becomes
      <4>2. /\ d \in Contexts /\ ~d.pb /\ d.header = c.header /\ d.requested = c.requested
            /\ d.frames = c.frames /\ d.trailer = c.trailer
        BY <2>3 DEF Contexts
      <4>3. /\ q \in Seq(Files) /\ q # <<>> /\ Len(q) = 1
            /\ q[1].header = o[1].header /\ q[1].samples = o[1].samples
            /\ q[1].trailers = o[1].trailers /\ q[1].finished = o[1].finished /\ q[1].closed
        BY <2>3, <3>2, CloseFile
      <4>4. ~o[1].closed
        BY <2>2, <3>2, <3>3 DEF WholeOK
      <4>5. Same(o, q) /\ Frozen(o, q)
        BY <2>3, <3>2, <4>4, TrailerKeeps
      <4> HIDE DEF d, q, m
      <4>6. WholeOK(m, d, q[1], opened', announced', inited', mfailed')
        BY <1>1, <2>2, <3>2, <3>3, <4>2, <4>3 DEF WholeOK
      <4>7. WholeInv(m, d, q, opened', announced', inited', mfailed', mpc')
        BY <1>4, <2>2, <4>2, <4>3, <4>6 DEF WholeInv
      <4>8. MuxerOK(kind[m], m, d, q, opened', announced', inited', mfailed', mpc')
        BY <2>8, <4>7 DEF MuxerOK
      <4> QED
        BY <2>6, <3>2, <4>1, <4>2, <4>3, <4>5, <4>8
    <3>4. CASE m # "record"
      <4>1. WholeOK(m, c, o[1], opened', announced', inited', mfailed')
        BY <1>1, <2>2, <3>2, <3>4 DEF WholeOK
      <4>2. WholeInv(m, c, o, opened', announced', inited', mfailed', mpc')
        BY <1>4, <2>2, <3>2, <3>4, <4>1 DEF WholeInv
      <4>3. MuxerOK(kind[m], m, c, o, opened', announced', inited', mfailed', mpc')
        BY <2>8, <4>2 DEF MuxerOK
      <4> QED
        BY <2>3, <2>4, <2>5, <2>6, <3>2, <3>4, <4>3
    <3> QED
      BY <3>3, <3>4
  <2> QED
    BY <2>7, <2>8
<1> QED
  BY <1>6, <1>7

\* The trailers of the files o and q: q has others only where o had a stream
\* without a good one.
Retried(m, o, q, bad) ==
    [i \in DOMAIN q |-> q[i].trailers] # [i \in DOMAIN o |-> o[i].trailers]
       => m = "rtsp" /\ "trailer" \in bad

\* A muxer is torn down.
LEMMA DeinitKeeps ==
    ASSUME MuxInv, MuxerDeinit
    PROVE  Kept /\ \A n \in Roles : Retried(n, outputs[n], outputs'[n], mfailed)
<1> DEFINE m == FirstOf(inited)
           c == ctx[m]
           o == outputs[m]
<1>1. /\ mpc = "done" /\ inited # {} /\ inited' = inited \ {m}
      /\ UNCHANGED <<emitted, taken, closed, kind, mpc, at, opened, announced, mfailed>>
  BY DEF MuxerDeinit, streamVars, threadVars
<1>2. MuxersTypeOK /\ ControlInv
  BY DEF MuxInv
<1>3. /\ m \in inited /\ m \in Served /\ m \notin inited' /\ opened = {} /\ announced = {}
  <2>1. inited \subseteq {"record", "rtsp"}
    BY <1>2 DEF MuxersTypeOK, Roles
  <2>2. m \in inited
    BY <1>1, <2>1 DEF FirstOf
  <2> QED
    BY <1>1, <1>2, <2>2 DEF ControlInv
<1>4. /\ m \in Roles /\ c \in Contexts /\ o \in Seq(Files)
      /\ kind[m] # "none"
      /\ kind[m] = "segment" => SegmentInv(c, o, m \in announced, mfailed, mpc)
      /\ kind[m] # "segment" => /\ kind[m] = "mp4" <=> m = "record"
                                /\ kind[m] = "rtsp" <=> m = "rtsp"
                                /\ WholeInv(m, c, o, opened, announced, inited, mfailed, mpc)
      /\ m = "record" \/ m = "rtsp"
  BY <1>3, TheMuxer DEF Roles
<1>5. Served' = Served /\ Onward(mpc, mpc') /\ mpc' \notin Busy /\ mpc' \notin Early
      /\ mfailed \subseteq mfailed' /\ mfailed' \subseteq MuxFaults
  BY <1>1, <1>2 DEF Served, Onward, Busy, Early, MuxersTypeOK
<1>6. ControlInv'
  <2>1. /\ announced' \subseteq opened' /\ opened' \subseteq Served' /\ inited' \subseteq Served'
        /\ at' \in Served' /\ opened' = {}
    BY <1>1, <1>2, <1>3, <1>5 DEF ControlInv
  <2>2. mfailed' = {} => AtEnd'
    BY <1>1, <1>2 DEF ControlInv, AtEnd
  <2> QED
    BY <1>1, <2>1, <2>2 DEF ControlInv, Early
<1>7. /\ NoContext \in Contexts /\ ~NoContext.header /\ ~NoContext.pb /\ ~NoContext.format
      /\ NoContext.frames = 0
  BY <1>4, ContextFields DEF NoContext
<1>8. ASSUME NEW q \in Seq(Files), Becomes(m, [c |-> NoContext, o |-> q]),
             MuxerOK(kind[m], m, NoContext, q, opened', announced', inited', mfailed', mpc'),
             Frozen(o, q), Same(o, q), Len(q) = Len(o), Retried(m, o, q, mfailed)
      PROVE  Kept /\ \A n \in Roles : Retried(n, outputs[n], outputs'[n], mfailed)
  <2>1. ctx' = [ctx EXCEPT ![m] = NoContext] /\ outputs' = [outputs EXCEPT ![m] = q]
    BY <1>8 DEF Becomes
  <2> HIDE DEF m
  <2>2. Alone(m, NoContext, q)
    BY <1>1, <1>3, <1>5, <1>7, <1>8, <2>1 DEF Alone
  <2>3. Kept
    BY <1>1, <1>5, <1>6, <1>8, <2>2, AloneKeeps
  <2>4. outputs'[m] = q /\ \A n \in Roles : n # m => outputs'[n] = outputs[n]
    BY <2>2, AloneIsRight
  <2>5. \A n \in Roles : Retried(n, outputs[n], outputs'[n], mfailed)
    BY <1>8, <2>4 DEF Retried
  <2> QED
    BY <2>3, <2>5
<1>9. Frozen(o, o) /\ Same(o, o) /\ Retried(m, o, o, mfailed)
  BY <1>4, FilesStay DEF Retried
<1>10. CASE kind[m] = "segment"
  <2>1. SegmentInv(c, o, m \in announced, mfailed, mpc)
    BY <1>4, <1>10
  <2>2. ~c.format /\ \A i \in 1..Len(o) : Complete(o[i], mfailed)
    BY <1>3, <2>1 DEF SegmentInv, SegmentOK
  <2>3. CloseSegment(Muxer(m), FALSE).o = o
    BY <2>2 DEF CloseSegment, Muxer
  <2>4. Becomes(m, [c |-> NoContext, o |-> o])
    BY <1>10, <2>3 DEF MuxerDeinit
  <2>5. SegmentInv(NoContext, o, m \in announced', mfailed', mpc')
    BY <1>1, <1>5, <1>7, <2>2 DEF SegmentInv, SegmentOK
  <2>6. MuxerOK(kind[m], m, NoContext, o, opened', announced', inited', mfailed', mpc')
    BY <1>10, <2>5 DEF MuxerOK
  <2> QED
    BY <1>4, <1>8, <1>9, <2>4, <2>6
<1>11. CASE kind[m] = "mp4"
  <2>1. m = "record" /\ WholeInv(m, c, o, opened, announced, inited, mfailed, mpc)
    BY <1>4, <1>11
  <2>2. Becomes(m, [c |-> NoContext, o |-> o])
    BY <1>11 DEF MuxerDeinit
  <2>3. ASSUME o # <<>>
        PROVE  WholeOK(m, NoContext, o[1], opened', announced', inited', mfailed')
    <3>1. WholeOK(m, c, o[1], opened, announced, inited, mfailed)
      BY <2>1, <2>3 DEF WholeInv
    <3> QED
      BY <1>1, <1>3, <2>1, <3>1 DEF WholeOK
  <2>4. WholeInv(m, NoContext, o, opened', announced', inited', mfailed', mpc')
    BY <1>1, <1>3, <1>5, <1>7, <2>1, <2>3 DEF WholeInv
  <2>5. MuxerOK(kind[m], m, NoContext, o, opened', announced', inited', mfailed', mpc')
    BY <1>11, <2>4 DEF MuxerOK
  <2> QED
    BY <1>4, <1>8, <1>9, <2>2, <2>5
<1>12. CASE kind[m] = "rtsp" /\ o = <<>>
  <2>1. m = "rtsp"
    BY <1>4, <1>12
  <2>2. Becomes(m, [c |-> NoContext, o |-> o])
    BY <1>12 DEF MuxerDeinit
  <2>3. WholeInv(m, NoContext, o, opened', announced', inited', mfailed', mpc')
    BY <1>1, <1>3, <1>5, <1>7, <1>12 DEF WholeInv
  <2>4. MuxerOK(kind[m], m, NoContext, o, opened', announced', inited', mfailed', mpc')
    BY <1>12, <2>3 DEF MuxerOK
  <2> QED
    BY <1>4, <1>8, <1>9, <2>2, <2>4
<1>13. CASE kind[m] = "rtsp" /\ o # <<>>
  <2>1. m = "rtsp" /\ WholeInv(m, c, o, opened, announced, inited, mfailed, mpc)
    BY <1>4, <1>13
  <2>2. Len(o) = 1 /\ WholeOK(m, c, o[1], opened, announced, inited, mfailed) /\ ~c.pb
    BY <1>13, <2>1 DEF WholeInv
  <2>3. /\ o[1].header = c.header /\ Len(o[1].samples) = c.frames /\ ~o[1].closed
        /\ ~o[1].header => o[1].trailers = 0 /\ o[1].samples = <<>>
        /\ o[1].header => /\ o[1].trailers = 1
                          /\ o[1].finished \/ "trailer" \in mfailed
                          /\ c.trailer \/ "trailer" \in mfailed
    BY <1>3, <2>1, <2>2 DEF WholeOK
  <2>4. ASSUME NEW q \in Seq(Files), q # <<>>, Len(q) = 1, q[1].closed,
               q[1].header = o[1].header, q[1].samples = o[1].samples,
               q[1].header => /\ q[1].trailers = 1 \/ (q[1].trailers = 2 /\ "trailer" \in mfailed)
                              /\ q[1].finished \/ "trailer" \in mfailed,
               ~q[1].header => q[1].trailers = 0
        PROVE  MuxerOK(kind[m], m, NoContext, q, opened', announced', inited', mfailed', mpc')
    <3>1. WholeOK(m, NoContext, q[1], opened', announced', inited', mfailed')
      BY <1>1, <1>3, <2>1, <2>3, <2>4 DEF WholeOK
    <3>2. WholeInv(m, NoContext, q, opened', announced', inited', mfailed', mpc')
      BY <1>1, <1>3, <1>5, <1>7, <2>4, <3>1 DEF WholeInv
    <3> QED
      BY <1>13, <3>2 DEF MuxerOK
  <2>5. CASE c.header /\ ~c.trailer
    <3>1. PICK ok \in BOOLEAN : Becomes(m, [c |-> NoContext, o |-> CloseLast(TrailerLast(o, ok))])
      BY <1>13, <2>5 DEF MuxerDeinit
    <3> DEFINE u == TrailerLast(o, ok)
               q == CloseLast(u)
    <3>2. /\ u \in Seq(Files) /\ u # <<>> /\ Len(u) = 1
          /\ u[1].header = o[1].header /\ u[1].samples = o[1].samples
          /\ u[1].trailers = o[1].trailers + 1 /\ u[1].closed = o[1].closed
          /\ Same(o, u) /\ Frozen(o, u)
      BY <1>4, <1>13, <2>2, <2>3, TrailerFile, TrailerKeeps
    <3>3. /\ q \in Seq(Files) /\ q # <<>> /\ Len(q) = 1
          /\ q[1].header = u[1].header /\ q[1].samples = u[1].samples
          /\ q[1].trailers = u[1].trailers /\ q[1].closed
          /\ Same(u, q) /\ Frozen(u, q)
      <4> HIDE DEF u
      <4> QED
        BY <2>3, <3>2, CloseFile, TrailerKeeps
    <3> HIDE DEF u, q
    <3>4. Same(o, q) /\ Frozen(o, q)
      BY <1>4, <3>2, <3>3, FilesGoOn
    <3>5. "trailer" \in mfailed
      BY <2>3, <2>5
    <3>6. Retried(m, o, q, mfailed)
      BY <2>1, <3>5 DEF Retried
    <3>7. MuxerOK(kind[m], m, NoContext, q, opened', announced', inited', mfailed', mpc')
      <4>1. o[1].header /\ o[1].trailers = 1
        BY <2>3, <2>5
      <4>2. q[1].header = o[1].header /\ q[1].samples = o[1].samples
        BY <3>2, <3>3
      <4>3. q[1].trailers = 2
        BY <3>2, <3>3, <4>1
      <4> QED
        BY <2>4, <3>3, <3>5, <4>1, <4>2, <4>3
    <3>8. Becomes(m, [c |-> NoContext, o |-> q])
      BY <3>1 DEF q, u
    <3> QED
      BY <1>8, <2>2, <3>3, <3>4, <3>6, <3>7, <3>8
  <2>6. CASE ~(c.header /\ ~c.trailer)
    <3> DEFINE q == CloseLast(o)
    <3>1. Becomes(m, [c |-> NoContext, o |-> q])
      BY <1>13, <2>6 DEF MuxerDeinit
    <3>2. /\ q \in Seq(Files) /\ q # <<>> /\ Len(q) = 1
          /\ q[1].header = o[1].header /\ q[1].samples = o[1].samples
          /\ q[1].trailers = o[1].trailers /\ q[1].finished = o[1].finished /\ q[1].closed
          /\ Same(o, q) /\ Frozen(o, q)
      BY <1>4, <1>13, <2>2, <2>3, CloseFile, TrailerKeeps
    <3> HIDE DEF q
    <3>3. Retried(m, o, q, mfailed)
      <4>1. DOMAIN q = 1..1 /\ DOMAIN o = 1..1
        BY <1>4, <2>2, <3>2, LenProperties
      <4>2. [i \in DOMAIN q |-> q[i].trailers] = [i \in DOMAIN o |-> o[i].trailers]
        BY <3>2, <4>1
      <4> QED
        BY <4>2 DEF Retried
    <3>4. MuxerOK(kind[m], m, NoContext, q, opened', announced', inited', mfailed', mpc')
      BY <2>3, <2>4, <3>2
    <3> QED
      BY <1>8, <2>2, <3>1, <3>2, <3>3, <3>4
  <2> QED
    BY <2>5, <2>6
<1>14. kind[m] \in {"mp4", "segment", "rtsp"}
  BY <1>2, <1>4, Serves
<1> QED
  BY <1>10, <1>11, <1>12, <1>13, <1>14

\* The segment for packet p is among the files r, which were o: the last one, or
\* a new one after one that is full.
RoomFor(o, r, p) ==
    \/ Len(r) = Len(o)
    \/ /\ Len(r) = Len(o) + 1
       /\ o = <<>> \/ (p.key /\ Len(o[Len(o)].samples) >= SegmentFrames)

\* The last of the files r is one for p: no full segment for a key frame, and no
\* empty one that was there before.
Suits(o, r, p) ==
    /\ r[Len(r)].samples = <<>> => Len(r) # Len(o)
    /\ Len(r[Len(r)].samples) >= SegmentFrames => ~p.key

\* Muxer m has written the packet and the thread goes on, or has not and the
\* thread stops.
Wrote(m) ==
    /\ UNCHANGED <<kind, emitted, taken>>
    /\ \A n \in Roles : n # m => outputs'[n] = outputs[n]
    /\ \E r \in Seq(Files) :
          /\ Same(outputs[m], r)
          /\ kind[m] = "segment" => RoomFor(outputs[m], r, emitted[taken])
          /\ \/ /\ Grown(r, outputs'[m], emitted[taken])
                /\ kind[m] = "segment" => Suits(outputs[m], r, emitted[taken])
                /\ NextRole(m, "write")
             \/ /\ Same(r, outputs'[m])
                /\ Len(outputs'[m]) = Len(r)
                /\ mpc' = "finish"
                /\ mfailed' # {}

\* After a write the thread goes on, or to its finish.
LEMMA AfterWriteKeeps ==
    ASSUME MuxInv, NEW m, At("write", m), NEW bad, AfterWrite(m, bad),
           UNCHANGED <<kind, opened, announced, inited>>,
           bad # "none" => mfailed' # {}
    PROVE  /\ ControlInv'
           /\ mpc' \in {"write", "pop", "finish"} /\ Onward(mpc, mpc')
           /\ UNCHANGED <<emitted, taken>>
           /\ IF bad = "none" THEN NextRole(m, "write") ELSE mpc' = "finish"
           /\ m \in Served /\ m \in opened' /\ m \in announced' /\ m \in inited'
           /\ m \in announced
           /\ mpc = "write" /\ taken # 0
<1>1. MuxersTypeOK /\ ControlInv /\ mpc = "write" /\ at = m
  BY DEF MuxInv, At
<1>2. /\ m \in Served /\ opened = Served /\ announced = Served /\ inited = Served /\ taken # 0
      /\ Served' = Served /\ FirstOf(Served) \in Served
      /\ "rtsp" \in Served <=> kind["rtsp"] # "none"
  BY <1>1, Serves DEF ControlInv, Served
<1>3. /\ UNCHANGED <<emitted, taken>>
      /\ IF bad = "none" THEN NextRole(m, "write") ELSE mpc' = "finish" /\ at' = at
  BY DEF AfterWrite, MuxStops, Shut, streamVars
<1>4. mpc' \in {"write", "pop", "finish"} /\ at' \in Served
  BY <1>1, <1>2, <1>3 DEF NextRole
<1>5. Onward(mpc, mpc')
  BY <1>1, <1>4 DEF Onward, Early, Busy
<1>6. ControlInv'
  <2>1. mpc' = "finish" => mfailed' # {}
    BY <1>3 DEF NextRole
  <2>2. /\ opened' = Served' /\ announced' = Served' /\ inited' = Served' /\ at' \in Served'
        /\ taken' # 0
    BY <1>2, <1>3, <1>4
  <2> QED
    BY <1>4, <2>1, <2>2 DEF ControlInv, Early
<1> QED
  BY <1>1, <1>2, <1>3, <1>4, <1>5, <1>6

\* A step that writes, what is left to show of it.
LEMMA AloneWrites ==
    ASSUME MuxInv, NEW m, NEW c, NEW o, Alone(m, c, o), ControlInv', mfailed' \subseteq MuxFaults,
           mpc' \in {"write", "pop", "finish"}
    PROVE  /\ MuxInv' /\ AllFrozen
           /\ outputs'[m] = o
           /\ \A n \in Roles : n # m => outputs'[n] = outputs[n]
<1>1. /\ MuxerInv' /\ AllFrozen
      /\ ctx' \in [Roles -> Contexts] /\ outputs' \in [Roles -> Seq(Files)]
      /\ outputs'[m] = o
      /\ \A n \in Roles : n # m => outputs'[n] = outputs[n]
  BY AloneIsRight
<1>2. kind' = kind /\ kind \in Kinds
  BY DEF Alone, MuxInv, MuxersTypeOK
<1>3. Served' \subseteq Roles
  BY DEF Served
<1>4. MuxersTypeOK'
  BY <1>1, <1>2, <1>3 DEF MuxersTypeOK, ControlInv
<1> QED
  BY <1>1, <1>4 DEF MuxInv

\* The mp4 muxer or the stream writes a packet.
LEMMA MuxWriteKeeps ==
    ASSUME MuxInv, emitted[taken] \in Packets, NEW m \in Roles, MuxWrite(m)
    PROVE  MuxInv' /\ AllFrozen /\ Wrote(m)
<1> DEFINE c == ctx[m]
           o == outputs[m]
           p == emitted[taken]
           late == kind[m] = "rtsp" /\ ~c.requested
           steps == IF c.header THEN {"none", "write"}
                    ELSE IF late THEN {"unrequested"} ELSE {"none", "header", "write"}
<1>1. PICK bad \in steps :
         /\ GoesWrong({bad} \cap MuxFaults)
         /\ IF bad \in {"none", "write"}
            THEN Becomes(m, Written(Muxer(m), p, bad = "none"))
            ELSE UNCHANGED <<ctx, outputs>>
         /\ AfterWrite(m, bad)
  BY DEF MuxWrite
<1>2. /\ At("write", m) /\ kind[m] # "segment"
      /\ UNCHANGED <<kind, opened, announced, inited>>
  BY DEF MuxWrite
<1>3. MuxersTypeOK
  BY DEF MuxInv
<1>4. /\ {bad} \cap MuxFaults \subseteq mfailed' /\ mfailed \subseteq mfailed'
      /\ mfailed' \subseteq MuxFaults
  BY <1>1, <1>3, Notes
<1>5. m \in Served /\ m \in opened /\ m \in announced /\ m \in inited
  <2>1. ControlInv /\ mpc = "write" /\ at = m
    BY <1>2 DEF MuxInv, At
  <2> QED
    BY <2>1 DEF ControlInv
<1>6. /\ c \in Contexts /\ o \in Seq(Files) /\ (m = "record" \/ m = "rtsp")
      /\ WholeInv(m, c, o, opened, announced, inited, mfailed, mpc)
  BY <1>2, <1>5, TheMuxer DEF Roles
<1>7. /\ c.requested /\ o # <<>> /\ Len(o) = 1
      /\ WholeOK(m, c, o[1], opened, announced, inited, mfailed)
  BY <1>5, <1>6 DEF WholeInv
<1>8. bad \in {"none", "header", "write"}
  BY <1>1, <1>7
<1>9. bad # "none" => mfailed' # {}
  BY <1>4, <1>8 DEF MuxFaults
<1>10. /\ ControlInv'
       /\ mpc' \in {"write", "pop", "finish"} /\ Onward(mpc, mpc')
       /\ UNCHANGED <<emitted, taken>>
       /\ IF bad = "none" THEN NextRole(m, "write") ELSE mpc' = "finish"
       /\ m \in opened' /\ m \in announced' /\ m \in inited'
       /\ mpc = "write"
  BY <1>1, <1>2, <1>9, AfterWriteKeeps
<1>11. mpc' \notin Early /\ mpc \notin Early
  BY <1>10 DEF Early
<1>12. /\ o[1].header = c.header /\ Len(o[1].samples) = c.frames /\ o[1].trailers = 0
       /\ o[1].closed <=> IF m = "record" THEN m \notin opened ELSE m \notin inited
       /\ ~o[1].closed
  BY <1>5, <1>7 DEF WholeOK
<1>13. ASSUME NEW d \in Contexts, NEW q \in Seq(Files),
              ctx' = [ctx EXCEPT ![m] = d], outputs' = [outputs EXCEPT ![m] = q],
              q # <<>>, Len(q) = 1, d.pb = c.pb, d.requested = c.requested,
              WholeOK(m, d, q[1], opened', announced', inited', mfailed'), Frozen(o, q),
              IF bad = "none" THEN Grown(o, q, p) ELSE Same(o, q)
       PROVE  MuxInv' /\ AllFrozen /\ Wrote(m)
  <2>1. WholeInv(m, d, q, opened', announced', inited', mfailed', mpc')
    BY <1>5, <1>6, <1>10, <1>11, <1>13 DEF WholeInv
  <2>2. MuxerOK(kind[m], m, d, q, opened', announced', inited', mfailed', mpc')
    BY <1>2, <2>1 DEF MuxerOK
  <2>3. Alone(m, d, q)
    BY <1>2, <1>4, <1>5, <1>10, <1>13, <2>2 DEF Alone
  <2>4. /\ MuxInv' /\ AllFrozen /\ outputs'[m] = q
        /\ \A n \in Roles : n # m => outputs'[n] = outputs[n]
    BY <1>4, <1>10, <2>3, AloneWrites
  <2>5. Same(o, o)
    BY <1>6, FilesStay
  <2>6. Wrote(m)
    <3>1. CASE bad = "none"
      BY <1>2, <1>6, <1>10, <1>13, <2>4, <2>5, <3>1 DEF Wrote
    <3>2. CASE bad # "none"
      <4>1. Len(q) = Len(o)
        BY <1>7, <1>13
      <4> QED
        BY <1>2, <1>6, <1>9, <1>10, <1>13, <2>4, <2>5, <3>2, <4>1 DEF Wrote
    <3> QED
      BY <3>1, <3>2
  <2> QED
    BY <2>4, <2>6
<1>14. CASE bad \in {"none", "write"}
  <2> DEFINE ok == bad = "none"
             t == Written(Muxer(m), p, ok)
  <2>1. Becomes(m, t)
    BY <1>1, <1>14
  <2>2. Muxer(m).c = c /\ Muxer(m).o = o
    BY DEF Muxer
  <2>3. /\ t.c \in Contexts /\ t.o \in Seq(Files) /\ Len(t.o) = Len(o)
        /\ t.o[Len(o)].header
        /\ t.o[Len(o)].trailers = o[Len(o)].trailers
        /\ t.o[Len(o)].closed = o[Len(o)].closed
        /\ Len(t.o[Len(o)].samples) = t.c.frames
        /\ t.c.header /\ t.c.pb = c.pb /\ t.c.requested = c.requested
        /\ IF ok THEN Grown(o, t.o, p) ELSE Same(o, t.o)
        /\ ~o[Len(o)].closed => Frozen(o, t.o)
    <3>1. Len(Muxer(m).o[Len(Muxer(m).o)].samples) = Muxer(m).c.frames
      BY <1>7, <1>12, <2>2
    <3>2. ok \in BOOLEAN
      OBVIOUS
    <3>3. /\ Muxer(m).c \in Contexts /\ Muxer(m).o \in Seq(Files) /\ Muxer(m).o # <<>>
      BY <1>6, <1>7, <2>2
    <3> DEFINE s == Muxer(m)
    <3> HIDE DEF s, ok, p
    <3>4. p \in Packets
      BY DEF p
    <3>5. /\ Written(s, p, ok).c \in Contexts /\ Written(s, p, ok).o \in Seq(Files)
          /\ Len(Written(s, p, ok).o) = Len(s.o)
          /\ Written(s, p, ok).o[Len(s.o)].header
          /\ Written(s, p, ok).o[Len(s.o)].trailers = s.o[Len(s.o)].trailers
          /\ Written(s, p, ok).o[Len(s.o)].closed = s.o[Len(s.o)].closed
          /\ Len(Written(s, p, ok).o[Len(s.o)].samples) = Written(s, p, ok).c.frames
          /\ Written(s, p, ok).c.header
          /\ Written(s, p, ok).c.pb = s.c.pb
          /\ Written(s, p, ok).c.requested = s.c.requested
          /\ IF ok THEN Grown(s.o, Written(s, p, ok).o, p) ELSE Same(s.o, Written(s, p, ok).o)
          /\ ~s.o[Len(s.o)].closed => Frozen(s.o, Written(s, p, ok).o)
      BY <3>1, <3>2, <3>3, <3>4, Writes DEF s
    <3> QED
      BY <2>2, <3>5 DEF s
  <2> HIDE DEF t
  <2>4. ctx' = [ctx EXCEPT ![m] = t.c] /\ outputs' = [outputs EXCEPT ![m] = t.o]
    BY <2>1 DEF Becomes
  <2>5. t.o # <<>> /\ Len(t.o) = 1
    BY <1>7, <2>3, EmptySeq
  <2>6. WholeOK(m, t.c, t.o[1], opened', announced', inited', mfailed')
    BY <1>2, <1>7, <1>10, <1>12, <2>3 DEF WholeOK
  <2> QED
    BY <1>7, <1>12, <1>13, <2>3, <2>4, <2>5, <2>6
<1>15. CASE bad = "header"
  <2>1. UNCHANGED <<ctx, outputs>>
    BY <1>1, <1>15
  <2>2. ctx' = [ctx EXCEPT ![m] = c] /\ outputs' = [outputs EXCEPT ![m] = o]
    BY <1>3, <2>1 DEF MuxersTypeOK
  <2>3. Frozen(o, o) /\ Same(o, o)
    BY <1>6, FilesStay
  <2>4. WholeOK(m, c, o[1], opened', announced', inited', mfailed')
    BY <1>2, <1>7, <1>10, <1>12 DEF WholeOK
  <2> QED
    BY <1>6, <1>7, <1>13, <1>15, <2>2, <2>3, <2>4
<1> QED
  BY <1>8, <1>14, <1>15

\* The segment muxer rotates, opens, and writes a packet.
LEMMA SegmentWriteKeeps ==
    ASSUME MuxInv, emitted[taken] \in Packets, NEW m \in Roles, SegmentWrite(m)
    PROVE  MuxInv' /\ AllFrozen /\ Wrote(m)
<1> DEFINE c == ctx[m]
           o == outputs[m]
           p == emitted[taken]
           rotates == Rotates(c, p)
           opens == rotates \/ ~c.format
           S(ok) == IF rotates THEN CloseSegment(Muxer(m), ok) ELSE Muxer(m)
           T(ok) == IF opens THEN OpenSegment(S(ok)) ELSE S(ok)
<1>1. PICK ok \in (IF rotates THEN BOOLEAN ELSE {TRUE}),
           bad \in {"none", "write"} \cup (IF opens THEN {"mux_open", "header"} ELSE {}) :
         /\ GoesWrong((IF ok THEN {} ELSE {"trailer"}) \cup ({bad} \cap MuxFaults))
         /\ \/ bad = "mux_open" /\ Becomes(m, SkipSegment(S(ok)))
            \/ bad = "header" /\ Becomes(m, CloseSegment(T(ok), FALSE))
            \/ bad \in {"none", "write"} /\ Becomes(m, Written(T(ok), p, bad = "none"))
         /\ AfterWrite(m, bad)
  BY DEF SegmentWrite
<1>2. /\ At("write", m) /\ kind[m] = "segment"
      /\ UNCHANGED <<kind, opened, announced, inited>>
  BY DEF SegmentWrite
<1> DEFINE s == S(ok)
           t == T(ok)
<1> HIDE DEF p
<1>3. MuxersTypeOK /\ p \in Packets
  BY DEF MuxInv, p
<1>4. ok \in BOOLEAN /\ bad \in {"none", "write", "mux_open", "header"}
  OBVIOUS
<1>5. /\ mfailed \subseteq mfailed' /\ mfailed' \subseteq MuxFaults
      /\ ~ok => "trailer" \in mfailed'
      /\ bad # "none" => mfailed' # {}
  <2> DEFINE wrong == (IF ok THEN {} ELSE {"trailer"}) \cup ({bad} \cap MuxFaults)
  <2>1. wrong \subseteq mfailed' /\ mfailed \subseteq mfailed' /\ mfailed' \subseteq MuxFaults
    <3> HIDE DEF wrong
    <3>1. GoesWrong(wrong)
      BY <1>1 DEF wrong
    <3> QED
      BY <1>3, <3>1, Notes
  <2>2. bad # "none" => bad \in wrong
    BY <1>4 DEF MuxFaults
  <2>3. ~ok => "trailer" \in wrong
    OBVIOUS
  <2> QED
    BY <2>1, <2>2, <2>3
<1>6. /\ ControlInv'
      /\ mpc' \in {"write", "pop", "finish"} /\ Onward(mpc, mpc')
      /\ UNCHANGED <<emitted, taken>>
      /\ IF bad = "none" THEN NextRole(m, "write") ELSE mpc' = "finish"
      /\ m \in Served /\ m \in announced' /\ m \in announced
      /\ mpc = "write"
  BY <1>1, <1>2, <1>5, AfterWriteKeeps
<1>7. c \in Contexts /\ o \in Seq(Files) /\ SegmentInv(c, o, m \in announced, mfailed, mpc)
  BY <1>2, <1>6, TheMuxer
<1>8. /\ SegmentOK(c, o, mfailed) /\ SegmentOK(c, o, mfailed')
      /\ o # <<>> => c.format /\ c.frames # 0
      /\ c.format => o # <<>> /\ Len(o[Len(o)].samples) = c.frames
  <2>1. SegmentOK(c, o, mfailed) /\ (o # <<>> => c.format /\ c.frames # 0)
    BY <1>6, <1>7 DEF SegmentInv, Busy
  <2>2. SegmentOK(c, o, mfailed')
    BY <1>5, <2>1, StillOK
  <2> QED
    BY <2>1, <2>2 DEF SegmentOK, Current
<1>9. Muxer(m).c = c /\ Muxer(m).o = o
  BY DEF Muxer
<1>10. Same(o, o) /\ Frozen(o, o) /\ Len(o) \in Nat
  BY <1>7, FilesStay, LenProperties
<1>11. /\ s.c \in Contexts /\ s.o \in Seq(Files) /\ SegmentOK(s.c, s.o, mfailed')
       /\ Len(s.o) = Len(o) /\ Same(o, s.o) /\ Frozen(o, s.o)
       /\ opens <=> ~s.c.format
       /\ ~opens => s.c = c /\ s.o = o
  <2>1. CASE rotates
    <3>1. s = CloseSegment(Muxer(m), ok)
      BY <2>1
    <3>2. /\ s.c \in Contexts /\ s.o \in Seq(Files) /\ SegmentOK(s.c, s.o, mfailed')
          /\ ~s.c.format /\ Len(s.o) = Len(o) /\ Same(o, s.o) /\ Frozen(o, s.o)
      <4> HIDE DEF s
      <4> QED
        BY <1>4, <1>5, <1>7, <1>8, <1>9, <3>1, SegmentCloses
    <3> QED
      BY <2>1, <3>2
  <2>2. CASE ~rotates
    <3>1. s = Muxer(m) /\ (opens <=> ~c.format)
      BY <2>2
    <3> HIDE DEF s, opens
    <3> QED
      BY <1>7, <1>8, <1>9, <1>10, <3>1
  <2> QED
    BY <2>1, <2>2
<1>12. opens => /\ t = OpenSegment(s)
                /\ t.c \in Contexts /\ t.o \in Seq(Files) /\ SegmentOK(t.c, t.o, mfailed')
                /\ t.c.format /\ ~t.c.header /\ t.c.frames = 0
                /\ Len(t.o) = Len(s.o) + 1
                /\ Same(s.o, t.o) /\ Frozen(s.o, t.o)
                /\ SkipSegment(s).c \in Contexts /\ SkipSegment(s).o = s.o
                /\ SegmentOK(SkipSegment(s).c, s.o, mfailed')
                /\ ~SkipSegment(s).c.format
  <2>1. opens => t = OpenSegment(s)
    OBVIOUS
  <2> HIDE DEF s, t, opens
  <2> QED
    BY <1>11, <2>1, SegmentOpens
<1>13. ~opens => t = s
  OBVIOUS
<1>14. opens => o = <<>> \/ (p.key /\ Len(o[Len(o)].samples) >= SegmentFrames)
  BY <1>8 DEF Rotates
<1>15. ~opens => c.format /\ (c.frames >= SegmentFrames => ~p.key)
  BY DEF Rotates
<1> HIDE DEF opens, rotates, s, t
<1>16. /\ t.c \in Contexts /\ t.o \in Seq(Files) /\ SegmentOK(t.c, t.o, mfailed') /\ t.c.format
       /\ Same(o, t.o) /\ Frozen(o, t.o)
  <2>1. CASE opens
    BY <1>7, <1>11, <1>12, <2>1, FilesGoOn
  <2>2. CASE ~opens
    BY <1>11, <1>13, <2>2
  <2> QED
    BY <2>1, <2>2
<1>17. RoomFor(o, t.o, p) /\ RoomFor(o, s.o, p)
  <2>1. CASE opens
    BY <1>11, <1>12, <1>14, <2>1 DEF RoomFor
  <2>2. CASE ~opens
    BY <1>11, <1>13, <2>2 DEF RoomFor
  <2> QED
    BY <2>1, <2>2
<1>18. Suits(o, t.o, p)
  <2>1. CASE opens
    <3>1. Len(t.o) = Len(o) + 1 /\ Len(t.o) \in 1..Len(t.o) /\ Len(t.o) > Len(s.o)
      BY <1>10, <1>11, <1>12, <2>1
    <3>2. t.o[Len(t.o)].samples = <<>>
      BY <1>12, <2>1, <3>1 DEF Same
    <3>3. Len(t.o[Len(t.o)].samples) = 0
      BY <3>2, EmptySeq
    <3>4. ~(0 >= SegmentFrames)
      BY MuxersAssumption
    <3> QED
      BY <1>10, <3>1, <3>3, <3>4 DEF Suits
  <2>2. CASE ~opens
    <3>1. t.o = o /\ Len(o[Len(o)].samples) = c.frames /\ c.frames # 0
      BY <1>8, <1>11, <1>13, <1>15, <2>2
    <3>2. o[Len(o)].samples # <<>>
      BY <3>1, EmptySeq
    <3> QED
      BY <1>15, <2>2, <3>1, <3>2 DEF Suits
  <2> QED
    BY <2>1, <2>2
<1>19. ASSUME NEW d \in Contexts, NEW q \in Seq(Files), NEW r \in Seq(Files),
              ctx' = [ctx EXCEPT ![m] = d], outputs' = [outputs EXCEPT ![m] = q],
              SegmentOK(d, q, mfailed'), Frozen(o, q), Same(o, r), RoomFor(o, r, p),
              IF bad = "none"
              THEN Grown(r, q, p) /\ Suits(o, r, p) /\ d.format /\ d.frames # 0
              ELSE Same(r, q) /\ Len(q) = Len(r)
       PROVE  MuxInv' /\ AllFrozen /\ Wrote(m)
  <2>1. SegmentInv(d, q, m \in announced', mfailed', mpc')
    BY <1>6, <1>19 DEF SegmentInv, Busy
  <2>2. MuxerOK(kind[m], m, d, q, opened', announced', inited', mfailed', mpc')
    BY <1>2, <2>1 DEF MuxerOK
  <2>3. Alone(m, d, q)
    BY <1>2, <1>5, <1>6, <1>19, <2>2 DEF Alone
  <2>4. /\ MuxInv' /\ AllFrozen /\ outputs'[m] = q
        /\ \A n \in Roles : n # m => outputs'[n] = outputs[n]
    BY <1>5, <1>6, <2>3, AloneWrites
  <2>5. Wrote(m)
    <3>1. CASE bad = "none"
      BY <1>2, <1>6, <1>19, <2>4, <3>1 DEF Wrote, p
    <3>2. CASE bad # "none"
      BY <1>2, <1>5, <1>6, <1>19, <2>4, <3>2 DEF Wrote, p
    <3> QED
      BY <3>1, <3>2
  <2> QED
    BY <2>4, <2>5
<1>20. CASE bad = "mux_open"
  <2>1. opens /\ Becomes(m, SkipSegment(s))
    BY <1>1, <1>20 DEF s, opens
  <2>2. /\ ctx' = [ctx EXCEPT ![m] = SkipSegment(s).c]
        /\ outputs' = [outputs EXCEPT ![m] = s.o]
    BY <1>12, <2>1 DEF Becomes
  <2>3. Same(s.o, s.o)
    BY <1>11, FilesStay
  <2> QED
    BY <1>11, <1>12, <1>17, <1>19, <1>20, <2>1, <2>2, <2>3
<1>21. CASE bad = "header"
  <2> DEFINE u == CloseSegment(t, FALSE)
  <2>1. opens /\ Becomes(m, u)
    BY <1>1, <1>21 DEF t, opens
  <2>2. /\ u.c \in Contexts /\ u.o \in Seq(Files) /\ SegmentOK(u.c, u.o, mfailed')
        /\ Len(u.o) = Len(t.o) /\ Same(t.o, u.o) /\ Frozen(t.o, u.o)
    BY <1>12, <1>16, <2>1, SegmentCloses
  <2> HIDE DEF u
  <2>3. ctx' = [ctx EXCEPT ![m] = u.c] /\ outputs' = [outputs EXCEPT ![m] = u.o]
    BY <2>1 DEF Becomes
  <2>4. Frozen(o, u.o)
    BY <1>7, <1>16, <2>2, FilesGoOn
  <2> QED
    BY <1>16, <1>17, <1>19, <1>21, <2>2, <2>3, <2>4
<1>22. CASE bad \in {"none", "write"}
  <2> DEFINE fine == bad = "none"
             u == Written(t, p, fine)
  <2>1. Becomes(m, u)
    BY <1>1, <1>22 DEF t, s
  <2>2. /\ t.o # <<>> /\ t.c.pb /\ Current(t.o[Len(t.o)], t.c)
        /\ \A i \in 1..Len(t.o) : i # Len(t.o) => Complete(t.o[i], mfailed')
    BY <1>16 DEF SegmentOK
  <2>3. /\ Len(t.o[Len(t.o)].samples) = t.c.frames /\ t.o[Len(t.o)].trailers = 0
        /\ ~t.o[Len(t.o)].closed
    BY <2>2 DEF Current
  <2>4. fine \in BOOLEAN /\ t.c.frames \in Nat
    BY <1>16, ContextFields
  <2> HIDE DEF fine
  <2>5. /\ u.c \in Contexts /\ u.o \in Seq(Files) /\ Len(u.o) = Len(t.o)
        /\ \A i \in 1..Len(t.o) : i # Len(t.o) => u.o[i] = t.o[i]
        /\ u.o[Len(t.o)].header
        /\ u.o[Len(t.o)].trailers = t.o[Len(t.o)].trailers
        /\ u.o[Len(t.o)].closed = t.o[Len(t.o)].closed
        /\ Len(u.o[Len(t.o)].samples) = u.c.frames
        /\ u.c.frames = t.c.frames + (IF fine THEN 1 ELSE 0)
        /\ u.c.header /\ u.c.format = t.c.format /\ u.c.pb = t.c.pb
        /\ IF fine THEN Grown(t.o, u.o, p) ELSE Same(t.o, u.o)
        /\ ~t.o[Len(t.o)].closed => Frozen(t.o, u.o)
    <3>1. t.c \in Contexts /\ t.o \in Seq(Files) /\ p \in Packets
      BY <1>3, <1>16
    <3>2. t.o # <<>> /\ Len(t.o[Len(t.o)].samples) = t.c.frames
      BY <2>2, <2>3
    <3>3. fine \in BOOLEAN
      BY <2>4
    <3> QED
      BY <3>1, <3>2, <3>3, Writes
  <2> HIDE DEF u
  <2>6. ctx' = [ctx EXCEPT ![m] = u.c] /\ outputs' = [outputs EXCEPT ![m] = u.o]
    BY <2>1 DEF Becomes
  <2>7. u.o # <<>>
    <3>1. Len(t.o) \in Nat \ {0}
      BY <1>16, <2>2, LastFile
    <3> QED
      BY <2>5, <3>1, EmptySeq
  <2>8. SegmentOK(u.c, u.o, mfailed')
    <3>1. Current(u.o[Len(u.o)], u.c)
      <4>1. u.o[Len(u.o)].header = u.c.header
        <5>1. Len(u.o) \in 1..Len(u.o) /\ u.o[Len(u.o)] \in Files
          BY <2>5, <2>7, LastFile
        <5>2. u.o[Len(u.o)].header \in BOOLEAN /\ u.c.header \in BOOLEAN
          BY <2>5, <5>1, FileFields, ContextFields
        <5> QED
          BY <2>5, <5>2
      <4> QED
        BY <2>3, <2>5, <4>1 DEF Current
    <3> QED
      BY <1>16, <2>2, <2>5, <2>7, <3>1 DEF SegmentOK
  <2>9. Frozen(o, u.o)
    BY <1>7, <1>16, <2>3, <2>5, FilesGoOn
  <2>10. fine => u.c.frames # 0
    BY <2>4, <2>5
  <2> QED
    BY <1>16, <1>17, <1>18, <1>19, <1>22, <2>5, <2>6, <2>8, <2>9, <2>10 DEF fine
<1> QED
  BY <1>4, <1>20, <1>21, <1>22

-----------------------------------------------------------------------------
(* The inductive invariant: what is in the outputs.                        *)

\* Each sample is of one of the frames 1 to n, with the key flag of its packet
\* in e and its place in the file as its time stamp; the frames of a file follow
\* one another.
Placed(o, n, e) ==
    \A i \in 1..Len(o) : \A j \in 1..Len(o[i].samples) :
       /\ o[i].samples[j].pts = j - 1
       /\ o[i].samples[j].frame \in 1..n
       /\ o[i].samples[j].key = e[o[i].samples[j].frame].key
       /\ o[i].samples[j].frame = o[i].samples[1].frame + (j - 1)

\* Each of the frames 1 to n is there.
Covers(o, n) ==
    \A q \in 1..n : \E i \in 1..Len(o) : \E j \in 1..Len(o[i].samples) :
       o[i].samples[j].frame = q

\* The frames of a file come before those of the next files.
Ordered(o) ==
    \A i, k \in 1..Len(o) : \A j \in 1..Len(o[i].samples), l \in 1..Len(o[k].samples) :
       i < k => o[i].samples[j].frame < o[k].samples[l].frame

\* Frame n is the last one in the last file, unless that one is empty.
EndsWith(o, n) ==
    o # <<>> /\ o[Len(o)].samples # <<>> =>
       o[Len(o)].samples[Len(o[Len(o)].samples)].frame = n

\* The files o hold the frames 1 to n of the packets e, one after the other.
Holds(o, n, e) == Placed(o, n, e) /\ Covers(o, n) /\ Ordered(o) /\ EndsWith(o, n)

\* What muxer m was given and wrote, as long as it goes on.
Due(m) == IF mpc = "write" /\ (m = at \/ m = "rtsp") THEN taken - 1 ELSE taken

\* The files hold what was taken, but for the last packet while it is not written
\* or could not be.
ContentInv ==
    \A m \in Served :
       /\ \E n \in {taken, taken - 1} : n \in Nat /\ Holds(outputs[m], n, emitted)
       /\ mpc \in Busy \/ mfailed = {} => Holds(outputs[m], Due(m), emitted)

\* New files, as long as they are empty, and finished ones change nothing.
LEMMA HoldsSame ==
    ASSUME NEW o \in Seq(Files), NEW q \in Seq(Files), NEW n, NEW e,
           Same(o, q), Holds(o, n, e)
    PROVE  Holds(q, n, e)
<1>1. /\ Len(o) \in Nat /\ Len(q) \in Nat /\ Len(o) <= Len(q)
      /\ \A i \in 1..Len(o) : q[i].samples = o[i].samples
      /\ \A i \in 1..Len(q) : i > Len(o) => q[i].samples = <<>>
  BY LenProperties DEF Same
<1>2. \A i \in 1..Len(q) : \A j \in 1..Len(q[i].samples) :
         i \in 1..Len(o) /\ j \in 1..Len(o[i].samples)
  <2>1. ASSUME NEW i \in 1..Len(q), NEW j \in 1..Len(q[i].samples)
        PROVE  i \in 1..Len(o) /\ j \in 1..Len(o[i].samples)
    <3>1. CASE i > Len(o)
      <4>1. Len(q[i].samples) = 0
        BY <1>1, <3>1, EmptySeq
      <4> QED
        BY <4>1
    <3>2. CASE ~(i > Len(o))
      <4>1. i \in 1..Len(o)
        BY <1>1, <3>2
      <4> QED
        BY <1>1, <4>1
    <3> QED
      BY <3>1, <3>2
  <2> QED
    BY <2>1
<1>3. Placed(q, n, e)
  BY <1>1, <1>2 DEF Holds, Placed
<1>4. Covers(q, n)
  <2>1. \A i \in 1..Len(o) : i \in 1..Len(q)
    BY <1>1
  <2> QED
    BY <1>1, <2>1 DEF Holds, Covers
<1>5. Ordered(q)
  BY <1>1, <1>2 DEF Holds, Ordered
<1>6. EndsWith(q, n)
  <2>1. ASSUME q # <<>>, q[Len(q)].samples # <<>>
        PROVE  q[Len(q)].samples[Len(q[Len(q)].samples)].frame = n
    <3>1. Len(q) \in 1..Len(q)
      BY <2>1, LastFile
    <3>2. Len(q) = Len(o)
      BY <1>1, <2>1, <3>1
    <3>3. o # <<>> /\ q[Len(q)].samples = o[Len(o)].samples
      BY <1>1, <3>1, <3>2, EmptySeq
    <3> QED
      BY <2>1, <3>3 DEF Holds, EndsWith
  <2> QED
    BY <2>1 DEF EndsWith
<1> QED
  BY <1>3, <1>4, <1>5, <1>6 DEF Holds

\* The next packet goes to the end.
LEMMA HoldsGrown ==
    ASSUME NEW o \in Seq(Files), NEW q \in Seq(Files), NEW n \in Nat, NEW e,
           NEW p \in Packets, p.frame = n + 1, e[n + 1] = p,
           Grown(o, q, p), Holds(o, n, e)
    PROVE  Holds(q, n + 1, e)
<1> DEFINE L == Len(o)
           s == o[L].samples
           x == Sample(p, Len(s))
           t == Append(s, x)
<1>1. /\ L \in Nat \ {0} /\ L \in 1..L /\ Len(q) = L
      /\ \A i \in 1..L : i # L => q[i].samples = o[i].samples
      /\ q[L].samples = t
  BY LastFile DEF Grown
<1>2. s \in Seq(Samples) /\ Len(s) \in Nat /\ x \in Samples
  <2>1. o[L] \in Files
    BY <1>1, ElementOfSeq
  <2>2. s \in Seq(Samples) /\ Len(s) \in Nat
    BY <2>1, FileFields
  <2> HIDE DEF s
  <2>3. x \in Samples
    BY <2>2 DEF Sample, Samples, Packets
  <2> QED
    BY <2>2, <2>3
<1>3. x.frame = n + 1 /\ x.key = p.key /\ x.pts = Len(s)
  BY DEF Sample
<1> HIDE DEF x
<1>4. /\ Len(t) = Len(s) + 1 /\ t[Len(s) + 1] = x
      /\ \A j \in 1..Len(s) : t[j] = s[j]
  BY <1>2, AppendProperties
<1>5. /\ Placed(o, n, e) /\ Covers(o, n) /\ Ordered(o) /\ EndsWith(o, n)
  BY DEF Holds
<1>6. \A j \in 1..Len(s) : /\ s[j].pts = j - 1
                           /\ s[j].frame \in 1..n
                           /\ s[j].key = e[s[j].frame].key
                           /\ s[j].frame = s[1].frame + (j - 1)
  BY <1>1, <1>5 DEF Placed
<1>7. s # <<>> => s[Len(s)].frame = n
  <2>1. o # <<>>
    BY DEF Grown
  <2> QED
    BY <1>5, <2>1 DEF EndsWith
<1> HIDE DEF s, t
<1>8. n + 1 = t[1].frame + Len(s)
  <2>1. CASE s = <<>>
    <3>1. Len(s) = 0
      BY <2>1, EmptySeq
    <3> QED
      BY <1>3, <1>4, <3>1
  <2>2. CASE s # <<>>
    <3>1. Len(s) \in 1..Len(s) /\ 1 \in 1..Len(s)
      BY <1>2, <2>2, EmptySeq
    <3>2. s[Len(s)].frame = n /\ s[Len(s)].frame = s[1].frame + (Len(s) - 1)
      BY <1>6, <1>7, <2>2, <3>1
    <3>3. s[1].frame \in 1..n /\ t[1] = s[1]
      BY <1>4, <1>6, <3>1
    <3>4. \A a \in 1..n : n = a + (Len(s) - 1) => n + 1 = a + Len(s)
      BY <1>2
    <3> QED
      BY <3>2, <3>3, <3>4
  <2> QED
    BY <2>1, <2>2
<1>9. \A j \in 1..Len(t) : /\ t[j].pts = j - 1
                           /\ t[j].frame \in 1..(n + 1)
                           /\ t[j].key = e[t[j].frame].key
                           /\ t[j].frame = t[1].frame + (j - 1)
  <2>1. ASSUME NEW j \in 1..Len(t)
        PROVE  /\ t[j].pts = j - 1
               /\ t[j].frame \in 1..(n + 1)
               /\ t[j].key = e[t[j].frame].key
               /\ t[j].frame = t[1].frame + (j - 1)
    <3>1. CASE j \in 1..Len(s)
      <4>1. 1 \in 1..Len(s) /\ t[1] = s[1] /\ t[j] = s[j]
        BY <1>2, <1>4, <3>1
      <4> QED
        BY <1>6, <3>1, <4>1
    <3>2. CASE j = Len(s) + 1
      <4>1. t[j] = x /\ j - 1 = Len(s)
        BY <1>2, <1>4, <3>2
      <4> QED
        BY <1>3, <1>8, <4>1
    <3> QED
      BY <1>2, <1>4, <3>1, <3>2
  <2> QED
    BY <2>1
<1>10. Placed(q, n + 1, e)
  <2>1. ASSUME NEW i \in 1..L, i # L, NEW j \in 1..Len(q[i].samples)
        PROVE  /\ q[i].samples[j].pts = j - 1
               /\ q[i].samples[j].frame \in 1..(n + 1)
               /\ q[i].samples[j].key = e[q[i].samples[j].frame].key
               /\ q[i].samples[j].frame = q[i].samples[1].frame + (j - 1)
    <3>1. q[i].samples = o[i].samples
      BY <1>1, <2>1
    <3>2. 1..n \subseteq 1..(n + 1)
      OBVIOUS
    <3> QED
      BY <1>5, <2>1, <3>1, <3>2 DEF Placed
  <2> QED
    BY <1>1, <1>9, <2>1 DEF Placed
<1>11. Covers(q, n + 1)
  <2>1. ASSUME NEW f \in 1..n
        PROVE  \E i \in 1..Len(q) : \E j \in 1..Len(q[i].samples) : q[i].samples[j].frame = f
    <3>1. PICK i \in 1..L : \E j \in 1..Len(o[i].samples) : o[i].samples[j].frame = f
      BY <1>5 DEF Covers
    <3>2. PICK j \in 1..Len(o[i].samples) : o[i].samples[j].frame = f
      BY <3>1
    <3>3. CASE i # L
      BY <1>1, <3>2, <3>3
    <3>4. CASE i = L
      <4>1. j \in 1..Len(s) /\ j \in 1..Len(t) /\ t[j].frame = f
        BY <1>2, <1>4, <3>2, <3>4 DEF s
      <4> QED
        BY <1>1, <4>1
    <3> QED
      BY <3>3, <3>4
  <2>2. Len(t) \in 1..Len(t) /\ t[Len(t)].frame = n + 1
    BY <1>2, <1>3, <1>4
  <2>3. \A f \in 1..(n + 1) : f \in 1..n \/ f = n + 1
    OBVIOUS
  <2>4. \E i \in 1..Len(q) : \E j \in 1..Len(q[i].samples) : q[i].samples[j].frame = n + 1
    BY <1>1, <2>2
  <2> QED
    BY <2>1, <2>3, <2>4 DEF Covers
<1>12. Ordered(q)
  <2>1. ASSUME NEW i \in 1..L, NEW k \in 1..L, i < k,
               NEW j \in 1..Len(q[i].samples), NEW l \in 1..Len(q[k].samples)
        PROVE  q[i].samples[j].frame < q[k].samples[l].frame
    <3>1. i # L /\ q[i].samples = o[i].samples
      BY <1>1, <2>1
    <3>2. q[i].samples[j].frame \in 1..n
      BY <1>5, <3>1 DEF Placed
    <3>3. CASE k # L
      <4>1. q[k].samples = o[k].samples
        BY <1>1, <3>3
      <4> QED
        BY <1>5, <2>1, <3>1, <4>1 DEF Ordered
    <3>4. CASE k = L /\ l \in 1..Len(s)
      <4>1. q[k].samples[l] = o[k].samples[l]
        BY <1>1, <1>4, <3>4 DEF s
      <4> QED
        BY <1>5, <2>1, <3>1, <3>4, <4>1 DEF Ordered, s
    <3>5. CASE k = L /\ l = Len(s) + 1
      <4>1. q[k].samples[l].frame = n + 1
        BY <1>1, <1>3, <1>4, <3>5
      <4>2. \A a \in 1..n : a < n + 1
        OBVIOUS
      <4> QED
        BY <3>2, <4>1, <4>2
    <3>6. l \in 1..Len(s) \/ l = Len(s) + 1 \/ k # L
      <4>1. k = L => l \in 1..(Len(s) + 1)
        BY <1>1, <1>4
      <4> QED
        BY <1>2, <4>1
    <3> QED
      BY <3>3, <3>4, <3>5, <3>6
  <2> QED
    BY <1>1, <2>1 DEF Ordered
<1>13. EndsWith(q, n + 1)
  <2>1. t[Len(t)].frame = n + 1
    BY <1>2, <1>3, <1>4
  <2> QED
    BY <1>1, <2>1 DEF EndsWith
<1> QED
  BY <1>10, <1>11, <1>12, <1>13 DEF Holds

\* Packets that come later do not matter.
LEMMA HoldsMore ==
    ASSUME NEW o, NEW n \in Nat, NEW e, NEW e2, \A i \in 1..n : e2[i] = e[i], Holds(o, n, e)
    PROVE  Holds(o, n, e2)
<1>1. Placed(o, n, e2)
  BY DEF Holds, Placed
<1> QED
  BY <1>1 DEF Holds

\* A step that writes nothing, outside of the packets' turns.
LEMMA ContentStays ==
    ASSUME MuxInv, MuxInv', ContentInv, taken \in Nat, AllSame, UNCHANGED <<kind, taken>>,
           \A i \in 1..taken : emitted'[i] = emitted[i],
           mfailed \subseteq mfailed', Onward(mpc, mpc'),
           (mpc' = mpc /\ at' = at) \/ (mpc # "write" /\ mpc' # "write")
    PROVE  ContentInv'
<1>1. ASSUME NEW m \in Served, NEW n \in {taken, taken - 1}, n \in Nat,
             Holds(outputs[m], n, emitted)
      PROVE  Holds(outputs'[m], n, emitted')
  <2>1. m \in Roles
    BY DEF Served
  <2>2. outputs[m] \in Seq(Files) /\ outputs'[m] \in Seq(Files)
    BY <2>1 DEF MuxInv, MuxersTypeOK
  <2>3. Same(outputs[m], outputs'[m])
    BY <2>1 DEF AllSame
  <2>4. Holds(outputs'[m], n, emitted)
    BY <1>1, <2>2, <2>3, HoldsSame
  <2>5. \A i \in 1..n : emitted'[i] = emitted[i]
    <3>1. \A i \in 1..n : i \in 1..taken
      OBVIOUS
    <3> QED
      BY <3>1
  <2> QED
    BY <1>1, <2>4, <2>5, HoldsMore
<1>2. Served' = Served
  BY DEF Served
<1>3. ASSUME NEW m \in Served
      PROVE  /\ \E n \in {taken', taken' - 1} : n \in Nat /\ Holds(outputs'[m], n, emitted')
             /\ mpc' \in Busy \/ mfailed' = {} =>
                   Holds(outputs'[m], IF mpc' = "write" /\ (m = at' \/ m = "rtsp")
                                      THEN taken' - 1 ELSE taken', emitted')
  <2>1. PICK n \in {taken, taken - 1} : n \in Nat /\ Holds(outputs[m], n, emitted)
    BY DEF ContentInv
  <2>2. Holds(outputs'[m], n, emitted')
    BY <1>1, <2>1
  <2>3. ASSUME mpc' \in Busy \/ mfailed' = {}
        PROVE  Holds(outputs'[m], Due(m), emitted')
    <3>1. Holds(outputs[m], Due(m), emitted)
      BY <2>3 DEF ContentInv, Onward
    <3>2. Due(m) \in {taken, taken - 1} /\ Due(m) \in Nat
      <4>1. mpc = "write" => taken # 0
        BY DEF MuxInv, ControlInv
      <4> QED
        BY <4>1 DEF Due
    <3> QED
      BY <1>1, <3>1, <3>2
  <2>4. Due(m) = IF mpc' = "write" /\ (m = at' \/ m = "rtsp") THEN taken' - 1 ELSE taken'
    BY DEF Due
  <2> QED
    BY <2>1, <2>2, <2>3, <2>4
<1> QED
  BY <1>2, <1>3 DEF ContentInv, Due

\* A packet that is taken is not due before it is written.
LEMMA ContentPops ==
    ASSUME MuxInv, MuxInv', ContentInv, taken \in Nat, AllSame, MuxPop, TakeNext
    PROVE  ContentInv'
<1>1. /\ mpc = "pop" /\ mpc' = "write" /\ at' = FirstOf(Served) /\ taken' = taken + 1
      /\ UNCHANGED <<kind, emitted, outputs>>
  BY DEF MuxPop, TakeNext, AtEnd, streamVars
<1>2. Served' = Served
  BY <1>1 DEF Served
<1>3. ASSUME NEW m \in Served
      PROVE  /\ Holds(outputs[m], taken, emitted)
             /\ m = at' \/ m = "rtsp"
             /\ taken' - 1 = taken
  <2>1. Holds(outputs[m], Due(m), emitted)
    BY <1>1 DEF ContentInv, Busy
  <2>2. Due(m) = taken
    BY <1>1 DEF Due
  <2>3. m = "record" \/ m = "rtsp"
    BY DEF Served, Roles
  <2>4. m = at' \/ m = "rtsp"
    BY <1>1, <2>3 DEF FirstOf
  <2> QED
    BY <1>1, <2>1, <2>2, <2>4
<1> QED
  BY <1>1, <1>2, <1>3 DEF ContentInv, Due

\* A packet that is written is the next one; one that is not, is missing.
LEMMA ContentWrites ==
    ASSUME MuxInv, MuxInv', ContentInv, taken \in Nat,
           emitted[taken] \in Packets, emitted[taken].frame = taken,
           NEW m \in Roles, At("write", m), Wrote(m)
    PROVE  ContentInv'
<1> DEFINE o == outputs[m]
           q == outputs'[m]
           p == emitted[taken]
<1>1. ControlInv /\ MuxersTypeOK /\ mpc = "write" /\ at = m
  BY DEF MuxInv, At
<1>2. /\ m \in Served /\ taken \in Nat \ {0} /\ taken - 1 \in Nat
      /\ "rtsp" \in Served <=> kind["rtsp"] # "none"
      /\ FirstOf(Served) \in Served
  BY <1>1, Serves DEF ControlInv
<1>3. UNCHANGED <<kind, emitted, taken>> /\ Served' = Served
  BY DEF Wrote, Served
<1>4. Holds(o, taken - 1, emitted)
  <2>1. Holds(o, Due(m), emitted)
    BY <1>1, <1>2 DEF ContentInv, Busy
  <2>2. Due(m) = taken - 1
    BY <1>1 DEF Due
  <2> QED
    BY <2>1, <2>2
<1>5. PICK r \in Seq(Files) :
          /\ Same(o, r)
          /\ \/ Grown(r, q, p) /\ NextRole(m, "write")
             \/ Same(r, q) /\ mpc' = "finish" /\ mfailed' # {}
  BY DEF Wrote
<1>6. o \in Seq(Files) /\ q \in Seq(Files)
  BY DEF MuxInv, MuxersTypeOK
<1>7. Holds(r, taken - 1, emitted)
  BY <1>4, <1>5, <1>6, HoldsSame
<1>8. \A n \in Served : n # m => outputs'[n] = outputs[n] /\ ((m = "record" /\ n = "rtsp") \/ n = "record")
  BY DEF Wrote, Served, Roles
<1>9. CASE Grown(r, q, p) /\ NextRole(m, "write")
  <2>1. Holds(q, taken, emitted)
    <3>1. (taken - 1) + 1 = taken
      BY <1>2
    <3> QED
      BY <1>2, <1>6, <1>7, <1>9, <3>1, HoldsGrown
  <2>2. mpc' \in {"write", "pop"} /\ (mpc' = "write" => m = "record" /\ at' = "rtsp")
        /\ (mpc' = "pop" => ~(m = "record" /\ "rtsp" \in Served))
    BY <1>2, <1>9 DEF NextRole
  <2>3. ASSUME NEW n \in Served
        PROVE  /\ \E k \in {taken', taken' - 1} : k \in Nat /\ Holds(outputs'[n], k, emitted')
               /\ Holds(outputs'[n], IF mpc' = "write" /\ (n = at' \/ n = "rtsp")
                                     THEN taken' - 1 ELSE taken', emitted')
    <3>1. CASE n = m
      <4>1. ~(mpc' = "write" /\ (n = at' \/ n = "rtsp"))
        BY <2>2, <3>1
      <4> QED
        BY <1>2, <1>3, <2>1, <3>1, <4>1
    <3>2. CASE n # m /\ n = "rtsp"
      <4>1. m = "record" /\ mpc' = "write" /\ outputs'[n] = outputs[n]
        BY <1>8, <2>2, <3>2
      <4>2. Due(n) = taken - 1 /\ Holds(outputs[n], Due(n), emitted)
        BY <1>1, <3>2 DEF Due, ContentInv, Busy
      <4> QED
        BY <1>2, <1>3, <3>2, <4>1, <4>2
    <3>3. CASE n # m /\ n # "rtsp"
      <4>1. n = "record" /\ mpc' = "pop" /\ outputs'[n] = outputs[n]
        BY <1>8, <2>2, <3>3
      <4>2. Due(n) = taken /\ Holds(outputs[n], Due(n), emitted)
        BY <1>1, <3>3 DEF Due, ContentInv, Busy
      <4> QED
        BY <1>2, <1>3, <4>1, <4>2
    <3> QED
      BY <3>1, <3>2, <3>3
  <2> QED
    BY <1>3, <2>3 DEF ContentInv, Due
<1>10. CASE Same(r, q) /\ mpc' = "finish" /\ mfailed' # {}
  <2>1. Holds(q, taken - 1, emitted)
    BY <1>6, <1>7, <1>10, HoldsSame
  <2>2. ASSUME NEW n \in Served
        PROVE  \E k \in {taken', taken' - 1} : k \in Nat /\ Holds(outputs'[n], k, emitted')
    <3>1. CASE n = m
      BY <1>2, <1>3, <2>1, <3>1
    <3>2. CASE n # m
      BY <1>3, <1>8, <3>2 DEF ContentInv
    <3> QED
      BY <3>1, <3>2
  <2> QED
    BY <1>3, <1>10, <2>2 DEF ContentInv, Busy
<1> QED
  BY <1>5, <1>9, <1>10

-----------------------------------------------------------------------------
(* The inductive invariant: how long segments are.                         *)

\* A segment begins with a key frame, and has none any more when it is full; the
\* ones before the last are full; and none is too long.
FitsIn(s, last) ==
    /\ s # <<>> => s[1].key
    /\ \A j \in 1..Len(s) : j > SegmentFrames => ~s[j].key
    /\ ~last => Len(s) >= SegmentFrames
    /\ Len(s) < SegmentFrames + Gop

\* The same for all files of the segment muxer; all but the last are full.
Fits(o) == \A i \in 1..Len(o) : FitsIn(o[i].samples, i = Len(o))

\* The segments of the recording fit.
FitsInv == kind["record"] = "segment" => Fits(outputs["record"])

\* Files that keep their samples still fit.
LEMMA FitsSame ==
    ASSUME NEW o \in Seq(Files), NEW q \in Seq(Files), Same(o, q), Len(q) = Len(o), Fits(o)
    PROVE  Fits(q)
  BY DEF Fits, Same

\* A segment more fits, if the one before it is full.
LEMMA FitsNext ==
    ASSUME NEW o \in Seq(Files), NEW q \in Seq(Files), NEW p, Same(o, q), RoomFor(o, q, p), Fits(o)
    PROVE  Fits(q)
<1>1. CASE Len(q) = Len(o)
  BY <1>1, FitsSame
<1>2. CASE Len(q) # Len(o)
  <2>1. /\ Len(o) \in Nat /\ Len(q) = Len(o) + 1
        /\ o = <<>> \/ Len(o[Len(o)].samples) >= SegmentFrames
        /\ \A i \in 1..Len(o) : q[i].samples = o[i].samples
    BY <1>2, LenProperties DEF RoomFor, Same
  <2>2. ASSUME NEW i \in 1..Len(o) PROVE FitsIn(q[i].samples, FALSE)
    <3>1. FitsIn(o[i].samples, i = Len(o)) /\ q[i].samples = o[i].samples
      BY <2>1 DEF Fits
    <3>2. i = Len(o) => Len(o[i].samples) >= SegmentFrames
      BY <2>1, <2>2, EmptySeq
    <3> QED
      BY <3>1, <3>2 DEF FitsIn
  <2>3. FitsIn(q[Len(q)].samples, TRUE)
    <3>1. q[Len(q)].samples = <<>>
      BY <2>1 DEF Same
    <3>2. FitsIn(<<>>, TRUE)
      <4>1. Len(<<>>) = 0
        BY EmptySeq
      <4>2. 0 < SegmentFrames + Gop
        BY MuxersAssumption, EncoderAssumption
      <4> QED
        BY <4>1, <4>2 DEF FitsIn
    <3> QED
      BY <3>1, <3>2
  <2>4. \A i \in 1..Len(q) : (i \in 1..Len(o) /\ i # Len(q)) \/ i = Len(q)
    BY <2>1
  <2>5. ASSUME NEW i \in 1..Len(q) PROVE FitsIn(q[i].samples, i = Len(q))
    <3>1. CASE i = Len(q)
      BY <2>3, <3>1
    <3>2. CASE i # Len(q)
      <4>1. FitsIn(q[i].samples, FALSE)
        BY <2>2, <2>4, <3>2
      <4> QED
        BY <3>2, <4>1
    <3> QED
      BY <3>1, <3>2
  <2> QED
    BY <2>5 DEF Fits
<1> QED
  BY <1>1, <1>2

\* A packet more fits, since the codec gives a key frame in time.
LEMMA FitsGrown ==
    ASSUME NEW o \in Seq(Files), NEW q \in Seq(Files), NEW n \in Nat, NEW e \in Seq(Packets),
           NEW p \in Packets, p = e[n + 1], n + 1 <= Len(e), Streamed(e),
           Grown(o, q, p), Fits(o), Holds(q, n + 1, e),
           o[Len(o)].samples = <<>> => p.key,
           Len(o[Len(o)].samples) >= SegmentFrames => ~p.key
    PROVE  Fits(q)
<1> DEFINE L == Len(o)
           s == o[L].samples
           x == Sample(p, Len(s))
           t == Append(s, x)
<1>1. /\ L \in Nat \ {0} /\ L \in 1..L /\ Len(q) = L
      /\ \A i \in 1..L : i # L => q[i].samples = o[i].samples
      /\ q[L].samples = t
  BY LastFile DEF Grown
<1>2. s \in Seq(Samples) /\ Len(s) \in Nat /\ x \in Samples
  <2>1. o[L] \in Files
    BY <1>1, ElementOfSeq
  <2>2. s \in Seq(Samples) /\ Len(s) \in Nat
    BY <2>1, FileFields
  <2> HIDE DEF s
  <2>3. x \in Samples
    BY <2>2 DEF Sample, Samples, Packets
  <2> QED
    BY <2>2, <2>3
<1>3. x.frame = p.frame /\ x.key = p.key
  BY DEF Sample
<1> HIDE DEF x
<1>4. /\ Len(t) = Len(s) + 1 /\ t[Len(s) + 1] = x
      /\ \A j \in 1..Len(s) : t[j] = s[j]
  BY <1>2, AppendProperties
<1>5. FitsIn(s, TRUE) /\ (s = <<>> => p.key) /\ (Len(s) >= SegmentFrames => ~p.key)
  BY <1>1 DEF Fits
<1> HIDE DEF s, t
<1>6. \A j \in 1..Len(t) : /\ t[j].frame \in 1..(n + 1)
                           /\ t[j].key = e[t[j].frame].key
                           /\ t[j].frame = t[1].frame + (j - 1)
  <2>1. L \in 1..Len(q)
    BY <1>1
  <2>2. Placed(q, n + 1, e)
    BY DEF Holds
  <2>3. \A j \in 1..Len(q[L].samples) :
           /\ q[L].samples[j].frame \in 1..(n + 1)
           /\ q[L].samples[j].key = e[q[L].samples[j].frame].key
           /\ q[L].samples[j].frame = q[L].samples[1].frame + (j - 1)
    BY <2>1, <2>2 DEF Placed
  <2> QED
    BY <1>1, <2>3
<1>7. p.frame = n + 1
  <2>1. n + 1 \in 1..Len(e)
    <3>1. Len(e) \in Nat
      BY LenProperties
    <3> QED
      BY <3>1
  <2> QED
    BY <2>1 DEF Streamed
<1>8. SegmentFrames \in Nat \ {0} /\ Gop \in Nat \ {0}
  BY MuxersAssumption, EncoderAssumption
<1>9. t[1].key
  <2>1. CASE s = <<>>
    <3>1. Len(s) = 0
      BY <2>1, EmptySeq
    <3> QED
      BY <1>3, <1>4, <1>5, <2>1, <3>1
  <2>2. CASE s # <<>>
    <3>1. 1 \in 1..Len(s)
      BY <1>2, <2>2, EmptySeq
    <3> QED
      BY <1>4, <1>5, <2>2, <3>1 DEF FitsIn
  <2> QED
    BY <2>1, <2>2
<1>10. ASSUME NEW j \in 1..Len(t), j > SegmentFrames PROVE ~t[j].key
  <2>1. CASE j \in 1..Len(s)
    BY <1>4, <1>5, <1>10, <2>1 DEF FitsIn
  <2>2. CASE j = Len(s) + 1
    <3>1. Len(s) >= SegmentFrames
      BY <1>2, <1>8, <1>10, <2>2
    <3> QED
      BY <1>3, <1>4, <1>5, <2>2, <3>1
  <2> QED
    BY <1>2, <1>4, <2>1, <2>2
<1>11. Len(t) < SegmentFrames + Gop
  <2>1. SUFFICES ASSUME Len(t) >= SegmentFrames + Gop PROVE FALSE
    BY <1>2, <1>4, <1>8
  <2>2. n + 1 \in 1..Len(e)
    <3>1. Len(e) \in Nat
      BY LenProperties
    <3> QED
      BY <3>1
  <2>3. PICK k \in 1..(n + 1) : e[k].key /\ (n + 1) - k < Gop
    BY <2>2 DEF Streamed
  <2> DEFINE a == Len(t) - ((n + 1) - k)
  <2>4. a \in 1..Len(t) /\ a > SegmentFrames /\ Len(t) \in 1..Len(t) /\ 1 \in 1..Len(t)
    BY <1>2, <1>4, <1>8, <2>1, <2>3
  <2>5. n + 1 = t[1].frame + (Len(t) - 1)
    BY <1>3, <1>4, <1>6, <1>7, <2>4
  <2>6. t[a].frame = t[1].frame + (a - 1) /\ t[1].frame \in 1..(n + 1)
    BY <1>6, <2>4
  <2>7. t[a].frame = k
    <3>1. \A f \in 1..(n + 1) : n + 1 = f + (Len(t) - 1) => f + (a - 1) = k
      BY <1>2, <1>4, <2>3
    <3> QED
      BY <2>5, <2>6, <3>1
  <2>8. t[a].key
    BY <1>6, <2>3, <2>4, <2>7
  <2> QED
    BY <1>10, <2>4, <2>8
<1>12. FitsIn(t, TRUE)
  BY <1>9, <1>10, <1>11 DEF FitsIn
<1>13. ASSUME NEW i \in 1..Len(q) PROVE FitsIn(q[i].samples, i = Len(q))
  <2>1. CASE i = L
    BY <1>1, <1>12, <2>1
  <2>2. CASE i # L
    <3>1. FitsIn(o[i].samples, i = L) /\ q[i].samples = o[i].samples
      BY <1>1, <2>2 DEF Fits
    <3> QED
      BY <1>1, <3>1
  <2> QED
    BY <2>1, <2>2
<1> QED
  BY <1>13 DEF Fits

\* A step that writes nothing keeps the segments as they are.
LEMMA FitsStays ==
    ASSUME MuxInv, MuxInv', FitsInv, AllSame, kind' = kind
    PROVE  FitsInv'
<1>1. ASSUME kind["record"] = "segment" PROVE Fits(outputs'["record"])
  <2>1. "record" \in Roles
    BY DEF Roles
  <2>2. /\ outputs["record"] \in Seq(Files) /\ outputs'["record"] \in Seq(Files)
        /\ Same(outputs["record"], outputs'["record"])
        /\ Len(outputs'["record"]) = Len(outputs["record"])
    BY <1>1, <2>1 DEF MuxInv, MuxersTypeOK, AllSame
  <2> QED
    BY <1>1, <2>2, FitsSame DEF FitsInv
<1> QED
  BY <1>1 DEF FitsInv

\* A write fits: a full segment ends at the next key frame, which is near.
LEMMA FitsWrites ==
    ASSUME MuxInv, MuxInv', ContentInv, ContentInv', FitsInv,
           emitted \in Seq(Packets), taken \in Nat, taken <= Len(emitted), Streamed(emitted),
           NEW m \in Roles, At("write", m), Wrote(m)
    PROVE  FitsInv'
<1>1. SUFFICES ASSUME kind["record"] = "segment" PROVE Fits(outputs'["record"])
  BY DEF FitsInv, Wrote
<1>2. Fits(outputs["record"])
  BY <1>1 DEF FitsInv
<1>3. CASE m # "record"
  BY <1>2, <1>3 DEF Wrote, Roles
<1>4. CASE m = "record"
  <2> DEFINE o == outputs[m]
             q == outputs'[m]
             p == emitted[taken]
  <2>1. /\ o \in Seq(Files) /\ q \in Seq(Files) /\ Len(o) \in Nat
        /\ mpc = "write" /\ at = m /\ m \in Served /\ taken # 0
    <3>1. o \in Seq(Files) /\ q \in Seq(Files)
      BY DEF MuxInv, MuxersTypeOK
    <3> QED
      BY <3>1, LenProperties DEF MuxInv, ControlInv, At
  <2>2. /\ taken \in Nat \ {0} /\ taken \in 1..Len(emitted) /\ taken - 1 \in Nat
        /\ (taken - 1) + 1 = taken /\ p \in Packets
    <3>1. Len(emitted) \in Nat
      BY LenProperties
    <3>2. taken \in 1..Len(emitted)
      BY <2>1, <3>1
    <3> QED
      BY <2>1, <3>2, ElementOfSeq
  <2>3. Holds(o, taken - 1, emitted)
    <3>1. Holds(o, Due(m), emitted)
      BY <2>1 DEF ContentInv, Busy
    <3>2. Due(m) = taken - 1
      BY <2>1 DEF Due
    <3> QED
      BY <3>1, <3>2
  <2>4. PICK r \in Seq(Files) :
           /\ Same(o, r) /\ RoomFor(o, r, p)
           /\ \/ Grown(r, q, p) /\ Suits(o, r, p)
              \/ Same(r, q) /\ Len(q) = Len(r)
    BY <1>1, <1>4 DEF Wrote
  <2>5. Fits(r)
    BY <1>2, <1>4, <2>1, <2>4, FitsNext
  <2>6. CASE Same(r, q) /\ Len(q) = Len(r)
    BY <1>4, <2>1, <2>5, <2>6, FitsSame
  <2>7. CASE Grown(r, q, p) /\ Suits(o, r, p)
    <3>1. r[Len(r)].samples = <<>> => p.key
      <4>1. SUFFICES ASSUME r[Len(r)].samples = <<>>, ~p.key PROVE FALSE
        OBVIOUS
      <4>2. o = <<>>
        BY <2>4, <2>7, <4>1 DEF Suits, RoomFor
      <4>3. taken - 1 = 0
        <5>1. Len(o) = 0
          BY <4>2, EmptySeq
        <5>2. \A f \in 1..(taken - 1) : FALSE
          BY <2>3, <5>1 DEF Holds, Covers
        <5> QED
          BY <2>2, <5>2
      <4>4. PICK j \in 1..1 : emitted[j].key
        BY <2>2, <4>3 DEF Streamed
      <4> QED
        BY <2>2, <4>1, <4>3, <4>4
    <3>2. Len(r[Len(r)].samples) >= SegmentFrames => ~p.key
      BY <2>7 DEF Suits
    <3>3. Holds(r, taken - 1, emitted)
      BY <2>1, <2>3, <2>4, HoldsSame
    <3>4. p.frame = taken
      BY <2>2 DEF Streamed
    <3>5. Holds(q, taken, emitted)
      BY <2>1, <2>2, <2>7, <3>3, <3>4, HoldsGrown
    <3> HIDE DEF o, q
    <3>6. Fits(q)
      <4>1. /\ p = emitted[(taken - 1) + 1] /\ (taken - 1) + 1 <= Len(emitted)
            /\ Holds(q, (taken - 1) + 1, emitted)
        BY <2>2, <3>5
      <4> QED
        BY <2>1, <2>2, <2>5, <2>7, <3>1, <3>2, <4>1, FitsGrown
    <3> QED
      BY <1>4, <3>6 DEF q
  <2> QED
    BY <2>4, <2>6, <2>7
<1> QED
  BY <1>3, <1>4

-----------------------------------------------------------------------------
(* All steps.                                                              *)

\* The inductive invariant.
OutputsInv == MuxInv /\ ContentInv /\ FitsInv

\* What the encoder guarantees to the muxers.
Stream == EncoderTypeOK /\ EmittedInv

\* What has been taken is there for good.
LEMMA StreamGoesOn ==
    ASSUME Stream, EncodeThread \/ EncoderDeinit \/ StopRequest
    PROVE  /\ UNCHANGED taken
           /\ closed => closed' /\ emitted' = emitted
           /\ \A i \in 1..taken : emitted'[i] = emitted[i]
<1>1. /\ emitted \in Seq(Packets) /\ out \in Seq(Packets) /\ Len(emitted) \in Nat
      /\ taken \in Nat /\ taken <= Len(emitted)
      /\ Len(out) = IF epc \in {"push", "push_flush"} THEN 1 ELSE 0
  BY LenProperties DEF Stream, EncoderTypeOK, EmittedInv
<1>2. ASSUME UNCHANGED streamVars \/ Shut
      PROVE  /\ UNCHANGED taken
             /\ closed => closed' /\ emitted' = emitted
             /\ \A i \in 1..taken : emitted'[i] = emitted[i]
  BY <1>2 DEF streamVars, Shut
<1>3. CASE Encode
  BY <1>2, <1>3 DEF Encode, Receive, ReceiveFails, EncoderStops
<1>4. CASE EncodeRejects \/ InputEnds \/ InputFails
  BY <1>2, <1>4 DEF EncodeRejects, InputEnds, InputFails, EncoderStops
<1>5. CASE PushPacket
  <2>1. /\ epc \in {"push", "push_flush"} /\ ~closed /\ taken' = taken
        /\ emitted' = Append(emitted, Head(out))
    BY <1>5 DEF PushPacket, Accept
  <2>2. Head(out) \in Packets
    <3>1. Len(out) = 1 /\ 1 \in 1..Len(out)
      BY <1>1, <2>1
    <3>2. Head(out) = out[1]
      BY <1>1, <3>1, HeadTailProperties, EmptySeq
    <3>3. out[1] \in Packets
      BY <1>1, <3>1, ElementOfSeq
    <3> QED
      BY <3>2, <3>3
  <2>3. \A i \in 1..Len(emitted) : emitted'[i] = emitted[i]
    BY <1>1, <2>1, <2>2, AppendProperties
  <2>4. \A i \in 1..taken : i \in 1..Len(emitted)
    BY <1>1
  <2> QED
    BY <2>1, <2>3, <2>4
<1>6. CASE PushRefused \/ PushFails
  BY <1>2, <1>6 DEF PushRefused, PushFails, PushFrame, EncoderStops
<1>7. CASE Flush \/ FlushFails \/ EncoderExit
  BY <1>2, <1>7 DEF Flush, FlushFails, EncoderExit, Receive, ReceiveFails, EncoderStops
<1>8. CASE EncoderDeinit \/ StopRequest
  BY <1>2, <1>8 DEF EncoderDeinit, StopRequest
<1> QED
  BY <1>3, <1>4, <1>5, <1>6, <1>7, <1>8 DEF EncodeThread

\* The packet that the mux thread holds.
LEMMA ThePacket ==
    ASSUME Stream, MuxInv, mpc = "write"
    PROVE  emitted[taken] \in Packets /\ emitted[taken].frame = taken
<1>1. emitted \in Seq(Packets) /\ Len(emitted) \in Nat /\ taken \in Nat /\ taken <= Len(emitted)
  BY LenProperties DEF Stream, EncoderTypeOK, EmittedInv
<1>2. taken # 0
  BY DEF MuxInv, ControlInv
<1>3. taken \in 1..Len(emitted)
  BY <1>1, <1>2
<1>4. Streamed(emitted)
  BY DEF Stream, EmittedInv
<1> QED
  BY <1>1, <1>3, <1>4, ElementOfSeq DEF Streamed

\* It holds at the start.
LEMMA OutputsStart == Init => OutputsInv
<1> SUFFICES ASSUME Init PROVE OutputsInv
  OBVIOUS
<1>1. /\ kind \in Kinds /\ mpc = "open" /\ at = FirstOf(Served) /\ opened = {} /\ announced = {}
      /\ inited = Served /\ mfailed = {} /\ emitted = <<>> /\ taken = 0
      /\ ctx = [m \in Roles |-> NoContext] /\ outputs = [m \in Roles |-> <<>>]
  BY DEF Init, MuxInit, StreamInit
<1>2. Served \subseteq Roles
  BY DEF Served
<1>3. NoContext \in Contexts /\ ~NoContext.pb /\ ~NoContext.header /\ ~NoContext.format
      /\ NoContext.frames = 0
  BY DEF NoContext, Contexts
<1>4. <<>> \in Seq(Files) /\ Len(<<>>) = 0
  BY EmptySeq
<1>5. at \in Served /\ Before(at) = {}
  <2>1. /\ kind \in [Roles -> {"mp4", "segment", "rtsp", "none"}]
        /\ \E m \in Roles : kind[m] # "none"
    BY <1>1, MuxersAssumption
  <2>2. "record" \in Served \/ "rtsp" \in Served
    BY <2>1 DEF Served, Roles
  <2>3. at \in Served /\ ("record" \in Served => at = "record")
    BY <1>1, <2>2 DEF FirstOf
  <2> QED
    BY <1>2, <2>3 DEF Before, Roles
<1>6. MuxersTypeOK
  BY <1>1, <1>2, <1>3, <1>4, <1>5 DEF MuxersTypeOK
<1>7. ControlInv
  BY <1>1, <1>5 DEF ControlInv, Early
<1>8. MuxerInv
  <2>1. ASSUME NEW m \in Roles, kind[m] # "none"
        PROVE  MuxerOK(kind[m], m, ctx[m], outputs[m], opened, announced, inited, mfailed, mpc)
    <3>1. ctx[m] = NoContext /\ outputs[m] = <<>>
      BY <1>1
    <3>2. SegmentInv(NoContext, <<>>, m \in announced, mfailed, mpc)
      BY <1>3, <1>4 DEF SegmentInv, SegmentOK
    <3>3. WholeInv(m, NoContext, <<>>, opened, announced, inited, mfailed, mpc)
      BY <1>1, <1>3 DEF WholeInv
    <3> QED
      BY <3>1, <3>2, <3>3 DEF MuxerOK
  <2>2. \A m \in Roles : outputs[m] = <<>>
    BY <1>1
  <2> QED
    BY <2>1, <2>2 DEF MuxerInv
<1>9. Holds(<<>>, 0, emitted)
  BY <1>4 DEF Holds, Placed, Covers, Ordered, EndsWith
<1>10. ContentInv
  <2>1. ASSUME NEW m \in Served PROVE outputs[m] = <<>> /\ Due(m) = 0
    BY <1>1, <1>2 DEF Due
  <2> QED
    BY <1>1, <1>9, <2>1 DEF ContentInv
<1>11. FitsInv
  <2>1. Fits(<<>>)
    BY <1>4 DEF Fits
  <2> QED
    BY <1>1, <2>1 DEF FitsInv, Roles
<1> QED
  BY <1>6, <1>7, <1>8, <1>10, <1>11 DEF OutputsInv, MuxInv

\* What a step may do to the outputs.
Careful ==
    /\ AllFrozen
    /\ mpc = "done" => \A n \in Roles : Retried(n, outputs[n], outputs'[n], mfailed)

\* Every step keeps it, and is careful.
LEMMA OutputsStep ==
    ASSUME Stream, OutputsInv, [Next]_vars
    PROVE  OutputsInv' /\ Careful
<1>1. /\ MuxInv /\ ContentInv /\ FitsInv /\ taken \in Nat /\ MuxersTypeOK
      /\ emitted \in Seq(Packets) /\ taken <= Len(emitted) /\ Streamed(emitted)
  BY DEF OutputsInv, MuxInv, Stream, EncoderTypeOK, EmittedInv
<1>2. ASSUME outputs' = outputs \/ mpc # "done", AllFrozen PROVE Careful
  BY <1>2 DEF Careful, Retried
<1>3. ASSUME Kept, kind' = kind, taken' = taken, \A i \in 1..taken : emitted'[i] = emitted[i],
             mfailed \subseteq mfailed', Onward(mpc, mpc'),
             (mpc' = mpc /\ at' = at) \/ (mpc # "write" /\ mpc' # "write")
      PROVE  OutputsInv' /\ AllFrozen
  <2>1. MuxInv' /\ AllSame /\ AllFrozen
    BY <1>3 DEF Kept
  <2>2. ContentInv'
    BY <1>1, <1>3, <2>1, ContentStays
  <2>3. FitsInv'
    BY <1>1, <1>3, <2>1, FitsStays
  <2> QED
    BY <2>1, <2>2, <2>3 DEF OutputsInv
<1>4. ASSUME UNCHANGED muxVars, UNCHANGED taken, closed => closed' /\ emitted' = emitted,
             \A i \in 1..taken : emitted'[i] = emitted[i]
      PROVE  OutputsInv' /\ Careful
  <2>1. Kept
    BY <1>1, <1>4, OtherKeeps
  <2>2. UNCHANGED <<kind, mpc, at, mfailed, outputs>> /\ Onward(mpc, mpc')
    BY <1>4 DEF muxVars, threadVars, Onward
  <2> QED
    BY <1>2, <1>3, <1>4, <2>1, <2>2
<1>5. ASSUME NEW m \in Roles, MuxOpen(m) PROVE OutputsInv' /\ Careful
  <2>1. Kept
    BY <1>1, <1>5, OpenKeeps
  <2>2. mpc = "open" /\ mpc' = "header" /\ UNCHANGED <<kind, taken, emitted, mfailed>>
    BY <1>5 DEF MuxOpen, At, streamVars
  <2>3. Onward(mpc, mpc')
    BY <2>2 DEF Onward, Early, Busy
  <2> QED
    BY <1>2, <1>3, <2>1, <2>2, <2>3
<1>6. ASSUME NEW m \in Roles, MuxOpenFails(m) PROVE OutputsInv' /\ Careful
  <2>1. Kept
    BY <1>1, <1>6, OpenFailsKeeps
  <2>2. /\ mpc = "open" /\ mpc' \in {"finish", "done"} /\ UNCHANGED <<kind, taken, emitted>>
        /\ GoesWrong({"mux_open"})
    BY <1>6 DEF MuxOpenFails, At, MuxStops, Shut
  <2>3. mfailed \subseteq mfailed' /\ Onward(mpc, mpc')
    BY <1>1, <2>2, Notes DEF Onward, Early, Busy
  <2> QED
    BY <1>2, <1>3, <2>1, <2>2, <2>3
<1>7. ASSUME NEW m \in Roles, MuxHeader(m) PROVE OutputsInv' /\ Careful
  <2>1. Kept
    BY <1>1, <1>7, HeaderKeeps
  <2>2. mpc = "header" /\ mpc' \in {"open", "pop"} /\ UNCHANGED <<kind, taken, emitted, mfailed>>
    BY <1>7 DEF MuxHeader, At, streamVars, NextRole
  <2>3. Onward(mpc, mpc')
    BY <2>2 DEF Onward, Early, Busy
  <2> QED
    BY <1>2, <1>3, <2>1, <2>2, <2>3
<1>8. ASSUME NEW m \in Roles, MuxWrite(m) \/ SegmentWrite(m) PROVE OutputsInv' /\ Careful
  <2>1. At("write", m) /\ mpc = "write"
    BY <1>8 DEF MuxWrite, SegmentWrite, At
  <2>2. emitted[taken] \in Packets /\ emitted[taken].frame = taken
    BY <1>1, <2>1, ThePacket
  <2>3. MuxInv' /\ AllFrozen /\ Wrote(m)
    BY <1>1, <1>8, <2>2, MuxWriteKeeps, SegmentWriteKeeps
  <2>4. ContentInv'
    BY <1>1, <2>1, <2>2, <2>3, ContentWrites
  <2>5. FitsInv'
    BY <1>1, <2>1, <2>3, <2>4, FitsWrites
  <2> QED
    BY <1>2, <2>1, <2>3, <2>4, <2>5 DEF OutputsInv
<1>9. CASE MuxPop \/ MuxPopFails
  <2>1. Kept
    BY <1>1, <1>9, PopKeeps
  <2>2. mpc = "pop" /\ UNCHANGED <<kind, emitted, outputs>>
    BY <1>9 DEF MuxPop, MuxPopFails, TakeNext, streamVars, MuxStops, Shut
  <2>3. CASE MuxPop /\ TakeNext
    <3>1. MuxInv' /\ AllSame /\ AllFrozen
      BY <2>1 DEF Kept
    <3>2. ContentInv' /\ FitsInv'
      BY <1>1, <2>2, <2>3, <3>1, ContentPops, FitsStays
    <3> QED
      BY <1>2, <2>2, <3>1, <3>2 DEF OutputsInv
  <2>4. CASE ~(MuxPop /\ TakeNext)
    <3>1. mpc' = "finish" /\ taken' = taken /\ mfailed \subseteq mfailed'
      <4>1. CASE MuxPop
        BY <2>4, <4>1 DEF MuxPop, streamVars
      <4>2. CASE MuxPopFails
        <5>1. mpc' = "finish" /\ taken' = taken /\ GoesWrong({"mux_pop"})
          BY <4>2 DEF MuxPopFails, MuxStops, Shut
        <5> QED
          BY <1>1, <5>1, Notes
      <4> QED
        BY <1>9, <4>1, <4>2
    <3>2. Onward(mpc, mpc')
      BY <2>2, <3>1 DEF Onward, Early, Busy
    <3> QED
      BY <1>2, <1>3, <2>1, <2>2, <3>1, <3>2 DEF Kept
  <2> QED
    BY <2>3, <2>4
<1>10. CASE MuxTrailer
  <2>1. Kept
    BY <1>1, <1>10, TrailerStepKeeps
  <2>2. mpc = "finish" /\ mpc' = "finish" /\ UNCHANGED <<kind, taken, emitted>>
    BY <1>10 DEF MuxTrailer, FinishFrame, streamVars
  <2>3. mfailed \subseteq mfailed'
    <3>1. UNCHANGED mfailed \/ \E bad : GoesWrong(bad)
      BY <1>10 DEF MuxTrailer
    <3> QED
      BY <1>1, <3>1, Notes
  <2>4. Onward(mpc, mpc')
    BY <2>2 DEF Onward, Early, Busy
  <2> QED
    BY <1>2, <1>3, <2>1, <2>2, <2>3, <2>4
<1>11. CASE MuxClose
  <2>1. Kept
    BY <1>1, <1>11, CloseKeeps
  <2>2. mpc = "finish" /\ mpc' \in {"finish", "done"} /\ UNCHANGED <<kind, taken, emitted, mfailed>>
    BY <1>11 DEF MuxClose, FinishFrame, streamVars
  <2>3. Onward(mpc, mpc')
    BY <2>2 DEF Onward, Early, Busy
  <2> QED
    BY <1>2, <1>3, <2>1, <2>2, <2>3
<1>12. CASE MuxerDeinit
  <2>1. Kept /\ \A n \in Roles : Retried(n, outputs[n], outputs'[n], mfailed)
    BY <1>1, <1>12, DeinitKeeps
  <2>2. /\ mpc = "done" /\ mpc' = "done" /\ at' = at
        /\ UNCHANGED <<kind, taken, emitted, mfailed>>
    BY <1>12 DEF MuxerDeinit, streamVars, threadVars
  <2>3. Onward(mpc, mpc')
    BY <2>2 DEF Onward
  <2>4. OutputsInv' /\ AllFrozen
    BY <1>3, <2>1, <2>2, <2>3
  <2> QED
    BY <2>1, <2>4 DEF Careful
<1>13. CASE MuxThread
  BY <1>5, <1>6, <1>7, <1>8, <1>9, <1>10, <1>11, <1>13 DEF MuxThread
<1>14. CASE (EncodeThread \/ EncoderDeinit) /\ UNCHANGED muxVars
  BY <1>4, <1>14, StreamGoesOn
<1>15. CASE StopRequest
  <2>1. UNCHANGED muxVars
    BY <1>15 DEF StopRequest
  <2> QED
    BY <1>4, <1>15, <2>1, StreamGoesOn
<1>16. CASE UNCHANGED vars
  <2>1. UNCHANGED muxVars /\ UNCHANGED <<emitted, taken, closed>>
    BY <1>16 DEF vars, streamVars
  <2> QED
    BY <1>4, <2>1
<1>17. CASE Next
  BY <1>12, <1>13, <1>14, <1>15, <1>16, <1>17 DEF Next, Teardown, Terminated
<1> QED
  BY <1>16, <1>17

-----------------------------------------------------------------------------
(* The theorems.                                                           *)

\* What the encoder promises the muxers, it promises beside them, too.
LEMMA RecordingStreams == Spec => []Stream
<1>1. EncoderTypeOK /\ EmittedInv => Stream
  BY DEF Stream
<1> QED
  BY <1>1, RecordingRunsEncoder, EncoderTypeCorrect, EmittedIsStreamed, PTL

\* The mux thread, its muxers and their files stay as the inductive invariant
\* says, whatever fails and whoever stops the pipeline.
THEOREM RecordingOutputs == Spec => []OutputsInv
<1>1. Stream /\ OutputsInv /\ [Next]_vars => OutputsInv'
  BY OutputsStep
<1> QED
  BY <1>1, OutputsStart, RecordingStreams, PTL DEF Spec

\* The encoder, the packet queue, the mux thread and the muxers keep their types.
THEOREM RecordingTypes == Spec => []TypeOK
<1>1. Stream /\ OutputsInv => TypeOK
  BY DEF Stream, OutputsInv, MuxInv, TypeOK
<1> QED
  BY <1>1, RecordingStreams, RecordingOutputs, PTL

\* The indices of the files and of their samples.
LEMMA FileIndices ==
    ASSUME MuxersTypeOK, NEW m \in Roles
    PROVE  /\ outputs[m] \in Seq(Files)
           /\ DOMAIN outputs[m] = 1..Len(outputs[m])
           /\ \A i \in 1..Len(outputs[m]) :
                 /\ outputs[m][i] \in Files
                 /\ DOMAIN outputs[m][i].samples = 1..Len(outputs[m][i].samples)
                 /\ Len(outputs[m][i].samples) \in Nat
<1>1. outputs[m] \in Seq(Files)
  BY DEF MuxersTypeOK
<1>2. DOMAIN outputs[m] = 1..Len(outputs[m])
  BY <1>1, LenProperties
<1>3. ASSUME NEW i \in 1..Len(outputs[m])
      PROVE  /\ outputs[m][i] \in Files
             /\ DOMAIN outputs[m][i].samples = 1..Len(outputs[m][i].samples)
             /\ Len(outputs[m][i].samples) \in Nat
  <2>1. outputs[m][i] \in Files
    BY <1>1, <1>3, ElementOfSeq
  <2>2. outputs[m][i].samples \in Seq(Samples)
    BY <2>1, FileFields
  <2> QED
    BY <2>1, <2>2, LenProperties
<1> QED
  BY <1>1, <1>2, <1>3

\* When all is over no muxer is opened, announced or inited, so each file is
\* complete.
LEMMA OutputsAreFinished ==
    ASSUME OutputsInv
    PROVE  FilesAreFinished
<1>1. MuxersTypeOK /\ ControlInv /\ MuxerInv
  BY DEF OutputsInv, MuxInv
<1> SUFFICES ASSUME Ended, NEW m \in Roles, NEW f \in ToSet(outputs[m])
             PROVE  /\ f.closed
                    /\ IF f.header THEN f.trailers \in 1..(IF m = "rtsp" THEN 2 ELSE 1)
                                   ELSE f.trailers = 0 /\ f.samples = <<>>
                    /\ mfailed = {} /\ f.header => f.finished /\ f.trailers = 1
  BY DEF FilesAreFinished
<1>2. m \notin opened /\ m \notin announced /\ m \notin inited
  BY <1>1 DEF Ended, ControlInv
<1>3. PICK i \in 1..Len(outputs[m]) : f = outputs[m][i]
  <2>1. DOMAIN outputs[m] = 1..Len(outputs[m])
    BY <1>1, FileIndices
  <2> QED
    BY <2>1 DEF ToSet
<1>4. f \in Files /\ outputs[m] # <<>>
  <2>1. Len(outputs[m]) # 0
    BY <1>1, <1>3, FileIndices, LenProperties
  <2> QED
    BY <1>1, <1>3, <2>1, FileIndices, EmptySeq
<1>5. MuxerOK(kind[m], m, ctx[m], outputs[m], opened, announced, inited, mfailed, mpc)
  BY <1>1, <1>4 DEF MuxerInv
<1>6. CASE kind[m] = "segment"
  <2>1. ~ctx[m].format /\ SegmentOK(ctx[m], outputs[m], mfailed)
    BY <1>2, <1>5, <1>6 DEF MuxerOK, SegmentInv
  <2>2. Complete(f, mfailed)
    BY <1>3, <2>1 DEF SegmentOK
  <2> QED
    BY <2>2 DEF Complete
<1>7. CASE kind[m] # "segment"
  <2>1. WholeInv(m, ctx[m], outputs[m], opened, announced, inited, mfailed, mpc)
    BY <1>5, <1>7 DEF MuxerOK
  <2>2. Len(outputs[m]) = 1 /\ WholeOK(m, ctx[m], outputs[m][1], opened, announced, inited, mfailed)
    BY <1>4, <2>1 DEF WholeInv
  <2>3. f = outputs[m][1]
    BY <1>3, <2>2
  <2>4. f.closed /\ (~f.header => f.trailers = 0 /\ f.samples = <<>>)
    BY <1>2, <2>2, <2>3 DEF WholeOK
  <2>5. f.header =>
           /\ f.trailers = 1 \/ (f.trailers = 2 /\ m = "rtsp" /\ "trailer" \in mfailed)
           /\ f.finished \/ "trailer" \in mfailed
    BY <1>2, <2>2, <2>3 DEF WholeOK
  <2> QED
    BY <2>4, <2>5
<1> QED
  BY <1>6, <1>7

\* Once everything is torn down, every file is closed and has its trailer,
\* whatever failed on the way.
THEOREM RecordingFinishesFiles == Spec => []FilesAreFinished
  BY OutputsAreFinished, RecordingOutputs, PTL

\* A muxer that holds the first n frames has these and no others.
LEMMA FramesAre ==
    ASSUME MuxersTypeOK, NEW m \in Roles, NEW n \in Nat, Holds(outputs[m], n, emitted)
    PROVE  Frames(m) = 1..n
<1> DEFINE o == outputs[m]
<1>1. /\ DOMAIN o = 1..Len(o)
      /\ \A i \in 1..Len(o) : DOMAIN o[i].samples = 1..Len(o[i].samples)
  BY FileIndices
<1>2. \A i \in 1..Len(o) : \A j \in 1..Len(o[i].samples) : o[i].samples[j].frame \in 1..n
  BY DEF Holds, Placed
<1>3. \A q \in 1..n : \E i \in 1..Len(o) : \E j \in 1..Len(o[i].samples) :
         o[i].samples[j].frame = q
  BY DEF Holds, Covers
<1>4. Frames(m) = UNION {{o[i].samples[j].frame : j \in DOMAIN o[i].samples} : i \in DOMAIN o}
  BY DEF Frames
<1> HIDE DEF o
<1>5. \A q : q \in Frames(m) <=>
         \E i \in 1..Len(o) : \E j \in 1..Len(o[i].samples) : o[i].samples[j].frame = q
  BY <1>1, <1>4
<1> QED
  BY <1>2, <1>3, <1>5

\* The files of a muxer that holds the first n frames are in order, and count
\* their samples.
LEMMA FramesInOrder ==
    ASSUME MuxersTypeOK, NEW m \in Roles, NEW n \in Nat, Holds(outputs[m], n, emitted)
    PROVE  /\ InOrder(m)
           /\ \A i \in DOMAIN outputs[m] : \A j \in DOMAIN outputs[m][i].samples :
                 outputs[m][i].samples[j].pts = j - 1
<1>1. /\ DOMAIN outputs[m] = 1..Len(outputs[m])
      /\ \A i \in 1..Len(outputs[m]) :
            DOMAIN outputs[m][i].samples = 1..Len(outputs[m][i].samples)
  BY FileIndices
<1>2. \A i \in 1..Len(outputs[m]) : \A j \in 1..Len(outputs[m][i].samples) :
         /\ outputs[m][i].samples[j].pts = j - 1
         /\ outputs[m][i].samples[j].frame \in 1..n
         /\ outputs[m][i].samples[j].frame = outputs[m][i].samples[1].frame + (j - 1)
  BY DEF Holds, Placed
<1>3. ASSUME NEW i \in DOMAIN outputs[m], NEW k \in DOMAIN outputs[m],
             NEW j \in DOMAIN outputs[m][i].samples, NEW l \in DOMAIN outputs[m][k].samples,
             i < k \/ (i = k /\ j < l)
      PROVE  outputs[m][i].samples[j].frame < outputs[m][k].samples[l].frame
  <2>1. /\ i \in 1..Len(outputs[m]) /\ j \in 1..Len(outputs[m][i].samples)
        /\ k \in 1..Len(outputs[m]) /\ l \in 1..Len(outputs[m][k].samples)
    BY <1>1, <1>3
  <2>2. CASE i < k
    BY <2>1, <2>2 DEF Holds, Ordered
  <2>3. CASE i = k /\ j < l
    <3>1. /\ 1 \in 1..Len(outputs[m][i].samples) /\ outputs[m][i].samples[1].frame \in Nat
          /\ j \in Nat /\ l \in Nat
      <4>1. Len(outputs[m][i].samples) \in Nat /\ Len(outputs[m][k].samples) \in Nat
        BY <2>1, FileIndices
      <4>2. 1 \in 1..Len(outputs[m][i].samples) /\ j \in Nat /\ l \in Nat
        BY <2>1, <4>1
      <4>3. outputs[m][i].samples[1].frame \in 1..n
        BY <1>2, <2>1, <4>2
      <4> QED
        BY <4>2, <4>3
    <3>2. /\ outputs[m][i].samples[j].frame = outputs[m][i].samples[1].frame + (j - 1)
          /\ outputs[m][k].samples[l].frame = outputs[m][i].samples[1].frame + (l - 1)
      BY <1>2, <2>1, <2>3
    <3> QED
      BY <2>3, <3>1, <3>2
  <2> QED
    BY <1>3, <2>2, <2>3
<1> QED
  BY <1>1, <1>2, <1>3 DEF InOrder

\* What the files hold is what the mux thread has taken.
LEMMA OutputsAreStream ==
    ASSUME Stream, OutputsInv
    PROVE  SamplesAreStream
<1>1. /\ MuxersTypeOK /\ ContentInv
      /\ taken \in Nat /\ taken <= Len(emitted) /\ Streamed(emitted)
      /\ emitted \in Seq(Packets) /\ Len(emitted) \in Nat
  BY LenProperties DEF Stream, OutputsInv, MuxInv, EncoderTypeOK, EmittedInv
<1>2. ASSUME NEW n \in Nat, n <= taken PROVE {emitted[i].frame : i \in 1..n} = 1..n
  <2>1. \A i \in 1..n : emitted[i].frame = i
    BY <1>1, <1>2 DEF Streamed
  <2> QED
    BY <2>1
<1>3. ASSUME NEW m \in Served
      PROVE  /\ \E n \in {taken, taken - 1} :
                   /\ Frames(m) = {emitted[i].frame : i \in 1..n}
                   /\ mpc # "write" /\ mfailed = {} => n = taken
             /\ InOrder(m)
             /\ \A i \in DOMAIN outputs[m] : \A j \in DOMAIN outputs[m][i].samples :
                   outputs[m][i].samples[j].pts = j - 1
  <2>1. m \in Roles
    BY DEF Served
  <2>2. PICK n \in {taken, taken - 1} :
           /\ n \in Nat /\ Holds(outputs[m], n, emitted)
           /\ mpc # "write" /\ mfailed = {} => n = taken
    <3>1. CASE mpc # "write" /\ mfailed = {}
      <4>1. Holds(outputs[m], Due(m), emitted) /\ Due(m) = taken
        BY <1>1, <3>1 DEF ContentInv, Due
      <4> QED
        BY <1>1, <4>1
    <3>2. CASE ~(mpc # "write" /\ mfailed = {})
      BY <1>1, <3>2 DEF ContentInv
    <3> QED
      BY <3>1, <3>2
  <2>3. n \in Nat /\ n <= taken
    BY <1>1, <2>2
  <2>4. Frames(m) = {emitted[i].frame : i \in 1..n}
    BY <1>1, <1>2, <2>1, <2>2, <2>3, FramesAre
  <2>5. /\ InOrder(m)
        /\ \A i \in DOMAIN outputs[m] : \A j \in DOMAIN outputs[m][i].samples :
              outputs[m][i].samples[j].pts = j - 1
    BY <1>1, <2>1, <2>2, FramesInOrder
  <2> QED
    BY <2>2, <2>4, <2>5
<1> QED
  BY <1>3 DEF SamplesAreStream

\* The files of a muxer, one after the other, have every packet that was taken,
\* once and in order, across all rotations.
THEOREM RecordingKeepsStream == Spec => []SamplesAreStream
  BY OutputsAreStream, RecordingStreams, RecordingOutputs, PTL

\* FitsInv says it of the indices of a sequence.
LEMMA OutputsFit ==
    ASSUME OutputsInv
    PROVE  SegmentsFit
<1> SUFFICES ASSUME kind["record"] = "segment", NEW i \in DOMAIN outputs["record"]
             PROVE  LET samples == outputs["record"][i].samples
                    IN  /\ samples # <<>> => samples[1].key
                        /\ i < Len(outputs["record"]) => Len(samples) >= SegmentFrames
                        /\ Len(samples) < SegmentFrames + Gop
  BY DEF SegmentsFit
<1>1. MuxersTypeOK /\ Fits(outputs["record"])
  BY DEF OutputsInv, MuxInv, FitsInv
<1>2. i \in 1..Len(outputs["record"]) /\ Len(outputs["record"]) \in Nat
  BY <1>1, FileIndices, LenProperties DEF Roles
<1> QED
  BY <1>1, <1>2 DEF Fits, FitsIn

\* Every segment begins with a key frame, and segments are as long as they were
\* asked to be, up to the distance of key frames.
THEOREM RecordingSegmentsFit == Spec => []SegmentsFit
  BY OutputsFit, RecordingOutputs, PTL

\* At the end the queue is empty, and everything that was taken is in the files.
LEMMA OutputsAreAll ==
    ASSUME Stream, PacketsInOrder, OutputsInv
    PROVE  FramesReachOutputs
<1> SUFFICES ASSUME Ended, epc \in {"done", "gone"}, efailed \cup mfailed = {}, NEW m \in Served
             PROVE  Frames(m) = 1..sent
  BY DEF FramesReachOutputs
<1>1. MuxersTypeOK /\ ControlInv /\ ContentInv /\ m \in Roles /\ taken \in Nat
  BY DEF Stream, EncoderTypeOK, OutputsInv, MuxInv, Served
<1>2. efailed = {} /\ mfailed = {} /\ mpc = "done"
  BY DEF Ended
<1>3. taken = Len(emitted)
  BY <1>1, <1>2 DEF ControlInv, AtEnd
<1>4. Len(emitted) = sent
  <2>1. CASE epc = "gone"
    BY <1>2, <2>1 DEF Stream, EmittedInv
  <2>2. CASE epc = "done"
    BY <1>2, <2>2 DEF PacketsInOrder
  <2> QED
    BY <2>1, <2>2
<1>5. Holds(outputs[m], taken, emitted)
  BY <1>1, <1>2 DEF ContentInv, Due
<1> QED
  BY <1>1, <1>3, <1>4, <1>5, FramesAre

\* Unless something failed, every frame that was taken from the encode queue is
\* in every output when the threads are gone.
THEOREM RecordingReachesOutputs == Spec => []FramesReachOutputs
  BY OutputsAreAll, RecordingStreams, RecordingKeepsOrder, RecordingOutputs, PTL

\* No step of anybody touches a file that was closed.
THEOREM RecordingClosedIsFinal == Spec => ClosedIsFinal
<1>1. ASSUME Stream, OutputsInv, [Next]_vars
      PROVE  \A m \in Roles : \A i \in DOMAIN outputs[m] :
                outputs[m][i].closed => outputs'[m][i] = outputs[m][i]
  <2>1. AllFrozen /\ MuxersTypeOK
    BY <1>1, OutputsStep DEF Careful, OutputsInv, MuxInv
  <2> QED
    BY <2>1, FileIndices DEF AllFrozen, Frozen
<1>2. Stream /\ OutputsInv /\ [Next]_vars
      => [\A m \in Roles : \A i \in DOMAIN outputs[m] :
             outputs[m][i].closed => outputs'[m][i] = outputs[m][i]]_outputs
  BY <1>1
<1> QED
  BY <1>2, RecordingStreams, RecordingOutputs, PTL DEF Spec, ClosedIsFinal

\* Once the mux thread is gone, only a stream whose trailer failed is given
\* another one.
THEOREM RecordingDeinitOnlyRetries == Spec => DeinitOnlyRetries
<1>1. ASSUME Stream, OutputsInv, [Next]_vars
      PROVE  mpc = "done" => \A m \in Roles :
                [i \in DOMAIN outputs'[m] |-> outputs'[m][i].trailers]
                   # [i \in DOMAIN outputs[m] |-> outputs[m][i].trailers]
                   => m = "rtsp" /\ "trailer" \in mfailed
  BY <1>1, OutputsStep DEF Careful, Retried
<1>2. Stream /\ OutputsInv /\ [Next]_vars
      => [mpc = "done" => \A m \in Roles :
             [i \in DOMAIN outputs'[m] |-> outputs'[m][i].trailers]
                # [i \in DOMAIN outputs[m] |-> outputs[m][i].trailers]
                => m = "rtsp" /\ "trailer" \in mfailed]_outputs
  BY <1>1
<1> QED
  BY <1>2, RecordingStreams, RecordingOutputs, PTL DEF Spec, DeinitOnlyRetries

=============================================================================
