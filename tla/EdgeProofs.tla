----------------------------- MODULE EdgeProofs ------------------------------
(***************************************************************************)
(* Theorems about the parts at the edges of the pipeline: the camera, the  *)
(* snapshot sink with the reader beside it, and the viewer.                *)
(***************************************************************************)
EXTENDS V4l2Capture, Snapshot, Viewer, TLAPS

-----------------------------------------------------------------------------
(***************************************************************************)
(* What the reader of the snapshot may rely on, for every interval and any *)
(* number of frames, failures, kills and restarts.                         *)
(*                                                                         *)
(* The argument: the sink writes only to the file that tmp_path leads to,  *)
(* and that file is never one the reader can have, because rename gives it *)
(* away and the next fopen makes another.                                  *)
(***************************************************************************)

Out == snapshotNames.output
Tmp == snapshotNames.tmp

\* The file in hand is the one tmp_path leads to, as far as the sink has come.
WriterInv ==
    /\ writing # 0 <=> spc \in {"write", "close"}
    /\ writing # 0 => writing = Tmp
    /\ spc \in {"write", "close", "rename"} => Tmp # 0 /\ files[Tmp].frame = offered
    /\ spc = "rename" => files[Tmp].parts = Whole

\* The snapshot is whole, not in hand, and not from the future.
OutputInv ==
    Out # 0 => Out # Tmp /\ files[Out].parts = Whole /\ files[Out].frame <= offered

\* So is what the reader has open.
ReaderInv ==
    /\ reading # 0 <=> rpc = "read"
    /\ rpc = "read" =>
           /\ reading # Tmp
           /\ files[reading].parts = Whole
           /\ Len(got) <= Whole
           /\ \A i \in 1..Len(got) : got[i] = files[reading].frame
    /\ ReaderGetsWhole

\* tmp_path leads to a file while it is written and before the cleanup.
TmpInv == Tmp # 0 /\ ~stale => spc \in {"write", "close", "rename", "cleanup"}

SnapshotInv == SnapshotTypeOK /\ WriterInv /\ OutputInv /\ ReaderInv /\ TmpInv

-----------------------------------------------------------------------------

LEMMA FileInHand ==
    ASSUME SnapshotTypeOK, NEW n \in 1..Len(files)
    PROVE  files[n] \in File /\ files[n].frame \in Nat /\ files[n].parts \in 0..Whole
<1>1. files[n] \in File
  BY DEF SnapshotTypeOK
<1> QED
  BY <1>1 DEF File

LEMMA SnapshotInvInit == SnapshotInit => SnapshotInv
<1> SUFFICES ASSUME SnapshotInit PROVE SnapshotInv
  OBVIOUS
<1>1. files = <<>> /\ Len(files) = 0 /\ files \in Seq(File)
  BY DEF SnapshotInit
<1>2. got = <<>> /\ got \in Seq(Nat)
  BY DEF SnapshotInit
<1>3. SnapshotTypeOK
  <2>1. snapshotNames \in [{"output", "tmp"} -> 0..Len(files)]
    BY <1>1 DEF SnapshotInit
  <2> QED
    BY <1>1, <1>2, <2>1 DEF SnapshotInit, SnapshotTypeOK
<1>4. WriterInv /\ OutputInv /\ ReaderInv /\ TmpInv
  BY <1>2 DEF SnapshotInit, WriterInv, OutputInv, ReaderInv, TmpInv, ReaderGetsWhole, Out, Tmp
<1> QED
  BY <1>3, <1>4 DEF SnapshotInv

\* The sink's steps that touch no file.
LEMMA SinkKeepsFiles ==
    ASSUME SnapshotInv, SinkStarts \/ FrameComes \/ EncodeJpeg \/ OpenFileFails \/ SinkEnds
    PROVE  SnapshotInv'
<1> USE DEF SnapshotInv
<1>1. SnapshotTypeOK'
  <2>1. UNCHANGED <<snapshotNames, files, readerVars>>
    BY DEF SinkStarts, FrameComes, EncodeJpeg, OpenFileFails, SinkEnds, fileVars
  <2>2. spc' \in {"down", "off", "ready", "encode", "open", "cleanup"} /\ stale' \in BOOLEAN
    BY DEF SnapshotTypeOK, SinkStarts, FrameComes, EncodeJpeg, OpenFileFails, SinkEnds, SinkGoes
  <2>3. frameCount' \in Nat /\ offered' \in Nat /\ writing' \in {0, writing}
    BY DEF SnapshotTypeOK, SinkStarts, FrameComes, EncodeJpeg, OpenFileFails, SinkEnds, fileVars
  <2>4. Len(files) \in Nat
    BY DEF SnapshotTypeOK
  <2> QED
    BY <2>1, <2>2, <2>3, <2>4 DEF SnapshotTypeOK, readerVars
<1>2. WriterInv'
  BY DEF WriterInv, Tmp, SnapshotTypeOK, SinkStarts, FrameComes, EncodeJpeg, OpenFileFails,
      SinkEnds, SinkGoes, fileVars
<1>3. OutputInv'
  <2>1. UNCHANGED <<snapshotNames, files>> /\ offered' >= offered
    BY DEF SnapshotTypeOK, SinkStarts, FrameComes, EncodeJpeg, OpenFileFails, SinkEnds,
        SinkGoes, fileVars
  <2>2. Out # 0 => files[Out].frame \in Nat
    BY FileInHand DEF SnapshotTypeOK, Out
  <2>3. Out' = Out /\ Tmp' = Tmp /\ files' = files
    BY <2>1 DEF Out, Tmp
  <2>4. offered \in Nat /\ offered' \in Nat
    BY <1>1 DEF SnapshotTypeOK
  <2> QED
    BY <2>1, <2>2, <2>3, <2>4 DEF OutputInv
<1>4. ReaderInv'
  BY DEF ReaderInv, ReaderGetsWhole, Tmp, SinkStarts, FrameComes, EncodeJpeg, OpenFileFails,
      SinkEnds, SinkGoes, fileVars, readerVars
<1>5. TmpInv'
  BY DEF TmpInv, Tmp, SinkStarts, FrameComes, EncodeJpeg, OpenFileFails, SinkEnds, SinkGoes,
      fileVars
<1> QED
  BY <1>1, <1>2, <1>3, <1>4, <1>5

\* A step of the sink that leaves alone every file but the one tmp_path leads to,
\* before or after, keeps what the reader and the snapshot need.
LEMMA OthersStay ==
    ASSUME SnapshotInv, UNCHANGED <<offered, readerVars>>,
           Len(files') >= Len(files), SnapshotTypeOK',
           \A n \in 1..Len(files) : n # Tmp => files'[n] = files[n],
           Out' = Out,
           Tmp' \in {Tmp, 0} \/ Tmp' > Len(files)
    PROVE  OutputInv' /\ ReaderInv'
<1>1. Out # 0 => Out \in 1..Len(files) /\ Out # Tmp /\ Out # Tmp'
  BY DEF SnapshotInv, SnapshotTypeOK, OutputInv, Out, Tmp
<1>2. OutputInv'
  BY <1>1 DEF SnapshotInv, OutputInv
<1>3. rpc = "read" => reading \in 1..Len(files) /\ reading # Tmp /\ reading # Tmp'
  BY DEF SnapshotInv, SnapshotTypeOK, ReaderInv, Tmp
<1>4. ReaderInv'
  BY <1>3 DEF SnapshotInv, ReaderInv, ReaderGetsWhole, readerVars
<1> QED
  BY <1>2, <1>4

\* fopen empties a file that a kill left, or makes a new one.
LEMMA OpenKeeps ==
    ASSUME SnapshotInv, OpenFile PROVE SnapshotInv'
<1> USE DEF SnapshotInv
<1>1. CASE Tmp # 0
  <2>1. /\ writing' = Tmp
        /\ files' = [files EXCEPT ![Tmp] = NewFile(offered)]
        /\ UNCHANGED snapshotNames
        /\ spc = "open" /\ spc' = "write"
        /\ UNCHANGED <<frameCount, offered, stale, readerVars>>
    BY <1>1 DEF OpenFile, Tmp, Target, SinkGoes
  <2>2. Tmp \in 1..Len(files) /\ NewFile(offered) \in File
    BY <1>1 DEF SnapshotTypeOK, Tmp, NewFile, File, Whole
  <2>3. files' \in Seq(File) /\ Len(files') = Len(files) /\ files'[Tmp] = NewFile(offered)
        /\ \A n \in 1..Len(files) : n # Tmp => files'[n] = files[n]
    BY <2>1, <2>2 DEF SnapshotTypeOK
  <2>4. SnapshotTypeOK'
    BY <2>1, <2>2, <2>3 DEF SnapshotTypeOK, readerVars
  <2>5. WriterInv'
    BY <2>1, <2>2, <2>3 DEF WriterInv, Tmp, NewFile
  <2>6. OutputInv' /\ ReaderInv'
    <3>1. Out' = Out /\ Tmp' \in {Tmp, 0} /\ Len(files') >= Len(files)
      BY <2>1, <2>3 DEF Out, Tmp, SnapshotTypeOK
    <3> QED
      BY <2>1, <2>3, <2>4, <3>1, OthersStay
  <2>7. TmpInv'
    BY <2>1 DEF TmpInv
  <2> QED
    BY <2>4, <2>5, <2>6, <2>7
<1>2. CASE Tmp = 0
  <2>1. /\ files' = Append(files, NewFile(offered))
        /\ writing' = Len(files) + 1
        /\ snapshotNames' = [snapshotNames EXCEPT !["tmp"] = Len(files) + 1]
        /\ spc = "open" /\ spc' = "write"
        /\ UNCHANGED <<frameCount, offered, stale, readerVars>>
    BY <1>2 DEF OpenFile, Tmp, Target, SinkGoes
  <2>2. NewFile(offered) \in File
    BY DEF SnapshotTypeOK, NewFile, File, Whole
  <2>3. files' \in Seq(File) /\ Len(files') = Len(files) + 1 /\ Len(files) \in Nat
        /\ files'[Len(files) + 1] = NewFile(offered)
        /\ \A n \in 1..Len(files) : files'[n] = files[n]
    BY <2>1, <2>2 DEF SnapshotTypeOK
  <2>4. Tmp' = Len(files) + 1 /\ Out' = Out
    BY <2>1 DEF SnapshotTypeOK, Tmp, Out
  <2>5. SnapshotTypeOK'
    BY <2>1, <2>2, <2>3 DEF SnapshotTypeOK, readerVars
  <2>6. WriterInv'
    BY <2>1, <2>3, <2>4 DEF WriterInv, NewFile
  <2>7. OutputInv' /\ ReaderInv'
    <3>1. Tmp' > Len(files) /\ Len(files') >= Len(files)
      BY <2>3, <2>4
    <3> QED
      BY <2>1, <2>3, <2>4, <2>5, <3>1, OthersStay
  <2>8. TmpInv'
    BY <2>1 DEF TmpInv
  <2> QED
    BY <2>5, <2>6, <2>7, <2>8
<1> QED
  BY <1>1, <1>2

\* The file in hand gets k parts.
LEMMA GrowsKeeps ==
    ASSUME SnapshotInv, spc \in {"write", "close"}, NEW k \in 0..Whole,
           files' = [files EXCEPT ![writing].parts = k],
           spc' \in {"close", "rename", "cleanup"},
           writing' = IF spc' = "close" THEN writing ELSE 0,
           spc' = "rename" => k = Whole,
           UNCHANGED <<frameCount, offered, snapshotNames, stale, readerVars>>
    PROVE  SnapshotInv'
<1> USE DEF SnapshotInv
<1>1. writing = Tmp /\ Tmp \in 1..Len(files)
  BY DEF WriterInv, SnapshotTypeOK, Tmp
<1>2. files[Tmp] \in File
  BY <1>1, FileInHand
<1>3. files' = [files EXCEPT ![Tmp] = [frame |-> files[Tmp].frame, parts |-> k]]
  <2>1. [files[Tmp] EXCEPT !.parts = k] = [frame |-> files[Tmp].frame, parts |-> k]
    BY <1>2 DEF File
  <2>2. files' = [files EXCEPT ![Tmp] = [files[Tmp] EXCEPT !.parts = k]]
    BY <1>1
  <2> QED
    BY <2>1, <2>2
<1>4. [frame |-> files[Tmp].frame, parts |-> k] \in File
  BY <1>2 DEF File
<1>5. files' \in Seq(File) /\ Len(files') = Len(files)
      /\ files'[Tmp] = [frame |-> files[Tmp].frame, parts |-> k]
      /\ \A n \in 1..Len(files) : n # Tmp => files'[n] = files[n]
  BY <1>1, <1>3, <1>4 DEF SnapshotTypeOK
<1>6. SnapshotTypeOK'
  BY <1>5 DEF SnapshotTypeOK, readerVars
<1>7. WriterInv'
  <2>1. Tmp' = Tmp
    BY DEF Tmp
  <2>2. files'[Tmp].frame = offered
    BY <1>5 DEF WriterInv
  <2>3. spc' = "rename" => files'[Tmp].parts = Whole
    BY <1>5
  <2> QED
    BY <1>1, <2>1, <2>2, <2>3 DEF WriterInv, SnapshotTypeOK
<1>8. OutputInv' /\ ReaderInv'
  <2>1. Out' = Out /\ Tmp' \in {Tmp, 0} /\ Len(files') >= Len(files)
    BY <1>5 DEF Out, Tmp, SnapshotTypeOK
  <2> QED
    BY <1>5, <1>6, <2>1, OthersStay
<1>9. TmpInv'
  BY DEF TmpInv
<1> QED
  BY <1>6, <1>7, <1>8, <1>9

LEMMA WritingKeeps ==
    ASSUME SnapshotInv, WriteFile \/ WriteFileFails \/ CloseFile \/ CloseFileFails
    PROVE  SnapshotInv'
<1>1. files[writing].parts \in Nat
  <2>1. writing # 0
    BY DEF SnapshotInv, WriterInv, WriteFile, WriteFileFails, CloseFile, CloseFileFails,
       SinkGoes
  <2>2. writing \in 1..Len(files)
    BY <2>1 DEF SnapshotInv, SnapshotTypeOK
  <2> QED
    BY <2>2, FileInHand DEF SnapshotInv, Whole
<1>2. ASSUME NEW n \in {Whole, Whole - 1}, Grows(n)
      PROVE  \E k \in 0..Whole : files' = [files EXCEPT ![writing].parts = k]
  <2>1. PICK k \in files[writing].parts..n : files' = [files EXCEPT ![writing].parts = k]
    BY <1>2 DEF Grows
  <2>2. k \in 0..Whole
    BY <1>1 DEF Whole
  <2> QED
    BY <2>1, <2>2
<1>3. CASE WriteFile
  BY <1>2, <1>3, GrowsKeeps DEF WriteFile, SinkGoes
<1>4. CASE WriteFileFails
  BY <1>2, <1>4, GrowsKeeps DEF WriteFileFails, SinkGoes
<1>5. CASE CloseFile
  <2>1. Whole \in 0..Whole
    BY DEF Whole
  <2> QED
    BY <1>5, <2>1, GrowsKeeps DEF CloseFile, SinkGoes
<1>6. CASE CloseFileFails
  BY <1>2, <1>6, GrowsKeeps DEF CloseFileFails, SinkGoes
<1> QED
  BY <1>3, <1>4, <1>5, <1>6

\* rename: the snapshot is now the file that was in hand.
LEMMA RenameKeeps ==
    ASSUME SnapshotInv, RenameFile PROVE SnapshotInv'
<1> USE DEF SnapshotInv
<1>1. /\ spc = "rename" /\ spc' = "ready"
      /\ snapshotNames' = [output |-> Tmp, tmp |-> 0]
      /\ stale' = FALSE
      /\ UNCHANGED <<frameCount, offered, files, writing, readerVars>>
  BY DEF RenameFile, SinkGoes, Target, Tmp
<1>2. Out' = Tmp /\ Tmp' = 0
  BY <1>1 DEF Out, Tmp
<1>3. Tmp \in 1..Len(files) /\ files[Tmp].parts = Whole /\ files[Tmp].frame = offered
  BY <1>1 DEF WriterInv, SnapshotTypeOK, Tmp
<1>4. SnapshotTypeOK'
  <2>1. snapshotNames' \in [{"output", "tmp"} -> 0..Len(files)]
    BY <1>1, <1>3
  <2> QED
    BY <1>1, <2>1 DEF SnapshotTypeOK, readerVars
<1>5. WriterInv'
  BY <1>1 DEF WriterInv
<1>6. OutputInv'
  BY <1>1, <1>2, <1>3 DEF OutputInv, SnapshotTypeOK
<1>7. ReaderInv'
  BY <1>1, <1>2 DEF ReaderInv, ReaderGetsWhole, readerVars
<1>8. TmpInv'
  BY <1>2 DEF TmpInv
<1> QED
  BY <1>4, <1>5, <1>6, <1>7, <1>8

\* unlink: tmp_path leads nowhere, and the file stays with who has it open.
LEMMA UnlinkKeeps ==
    ASSUME SnapshotInv, RenameFails \/ CleanUp PROVE SnapshotInv'
<1> USE DEF SnapshotInv
<1>1. /\ spc \in {"rename", "cleanup"} /\ spc' \in {"cleanup", "ready"}
      /\ snapshotNames' = [snapshotNames EXCEPT !["tmp"] = 0]
      /\ stale' \in {stale, FALSE}
      /\ UNCHANGED <<frameCount, offered, files, writing, readerVars>>
  BY DEF RenameFails, CleanUp, SinkGoes
<1>2. Out' = Out /\ Tmp' = 0
  BY <1>1 DEF SnapshotTypeOK, Out, Tmp
<1>3. SnapshotTypeOK'
  <2>1. snapshotNames' \in [{"output", "tmp"} -> 0..Len(files)]
    BY <1>1 DEF SnapshotTypeOK
  <2> QED
    BY <1>1, <2>1 DEF SnapshotTypeOK, readerVars
<1>4. WriterInv'
  BY <1>1 DEF WriterInv
<1>5. OutputInv' /\ ReaderInv'
  <2>1. Len(files') >= Len(files)
    BY <1>1 DEF SnapshotTypeOK
  <2> QED
    BY <1>1, <1>2, <1>3, <2>1, OthersStay
<1>6. TmpInv'
  BY <1>2 DEF TmpInv
<1> QED
  BY <1>3, <1>4, <1>5, <1>6

LEMMA NoLessNoMore ==
    ASSUME NEW n \in Nat, n <= Whole, ~(n < Whole) PROVE n = Whole
  BY DEF Whole

LEMMA ReaderKeeps ==
    ASSUME SnapshotInv, ReaderOpens \/ ReaderReads PROVE SnapshotInv'
<1> USE DEF SnapshotInv
<1>1. UNCHANGED <<spc, frameCount, offered, snapshotNames, files, writing, stale>>
  BY DEF ReaderOpens, ReaderReads, fileVars
<1>2. WriterInv' /\ OutputInv' /\ TmpInv'
  BY <1>1 DEF WriterInv, OutputInv, TmpInv, Out, Tmp
<1>3. CASE ReaderOpens
  <2>1. SnapshotTypeOK'
    BY <1>1, <1>3 DEF SnapshotTypeOK, ReaderOpens
  <2>2. ReaderInv'
    BY <1>1, <1>3 DEF ReaderInv, ReaderGetsWhole, OutputInv, Out, Tmp, ReaderOpens, Whole
  <2> QED
    BY <1>2, <2>1, <2>2
<1>4. CASE ReaderReads
  <2>1. rpc = "read" /\ reading \in 1..Len(files) /\ files[reading] \in File
    BY <1>4 DEF ReaderReads, ReaderInv, SnapshotTypeOK
  <2>2. CASE Len(got) < files[reading].parts
    <3>1. got' = Append(got, files[reading].frame) /\ UNCHANGED <<rpc, reading>>
      BY <1>4, <2>2 DEF ReaderReads
    <3>2. files[reading].frame \in Nat /\ got \in Seq(Nat)
      BY <2>1 DEF SnapshotTypeOK, File
    <3>3. SnapshotTypeOK'
      BY <1>1, <3>1, <3>2 DEF SnapshotTypeOK
    <3>4. ReaderInv'
      BY <1>1, <2>1, <2>2, <3>1, <3>2 DEF ReaderInv, ReaderGetsWhole, Tmp, Whole
    <3> QED
      BY <1>2, <3>3, <3>4
  <2>3. CASE ~(Len(got) < files[reading].parts)
    <3>1. rpc' = "rest" /\ reading' = 0 /\ UNCHANGED got
      BY <1>4, <2>3 DEF ReaderReads
    <3>2. SnapshotTypeOK'
      BY <1>1, <3>1 DEF SnapshotTypeOK
    <3>3. Len(got) = Whole
      <4>1. files[reading].parts = Whole /\ Len(got) <= Whole
        BY <2>1 DEF ReaderInv
      <4>2. Len(got) \in Nat
        BY DEF SnapshotTypeOK
      <4>3. ~(Len(got) < Whole)
        BY <2>3, <4>1
      <4> QED
        BY <4>1, <4>2, <4>3, NoLessNoMore
    <3>4. ReaderInv'
      BY <1>1, <2>1, <3>1, <3>3 DEF ReaderInv, ReaderGetsWhole, Tmp, Whole
    <3> QED
      BY <1>2, <3>2, <3>4
  <2> QED
    BY <2>2, <2>3
<1> QED
  BY <1>3, <1>4

LEMMA SnapshotInvStep == SnapshotInv /\ [SnapshotNext]_snapshotVars => SnapshotInv'
<1> SUFFICES ASSUME SnapshotInv, [SnapshotNext]_snapshotVars PROVE SnapshotInv'
  OBVIOUS
<1>1. CASE SinkStarts \/ FrameComes \/ EncodeJpeg \/ OpenFileFails \/ SinkEnds
  BY <1>1, SinkKeepsFiles
<1>2. CASE OpenFile
  BY <1>2, OpenKeeps
<1>3. CASE WriteFile \/ WriteFileFails \/ CloseFile \/ CloseFileFails
  BY <1>3, WritingKeeps
<1>4. CASE RenameFile
  BY <1>4, RenameKeeps
<1>5. CASE RenameFails \/ CleanUp
  BY <1>5, UnlinkKeeps
<1>6. CASE ReaderOpens \/ ReaderReads
  BY <1>6, ReaderKeeps
<1>7. CASE UNCHANGED snapshotVars
  BY <1>7 DEF snapshotVars, fileVars, readerVars, SnapshotInv, SnapshotTypeOK, WriterInv,
      OutputInv, ReaderInv, ReaderGetsWhole, TmpInv, Out, Tmp
<1> QED
  BY <1>1, <1>2, <1>3, <1>4, <1>5, <1>6, <1>7 DEF SnapshotNext

\* Type correctness of the sink, the files and the reader.
THEOREM SnapshotTypeCorrect == SnapshotSpec => []SnapshotTypeOK
<1>1. SnapshotInv => SnapshotTypeOK
  BY DEF SnapshotInv
<1> QED
  BY <1>1, SnapshotInvInit, SnapshotInvStep, PTL DEF SnapshotSpec

\* The reader never has half a JPEG or parts of two, whenever it comes.
THEOREM ReaderAlwaysGetsWhole == SnapshotSpec => []ReaderGetsWhole
<1>1. SnapshotInv => ReaderGetsWhole
  BY DEF SnapshotInv, ReaderInv
<1> QED
  BY <1>1, SnapshotInvInit, SnapshotInvStep, PTL DEF SnapshotSpec

\* A sink that returns has removed its temporary file, so that a run without a
\* kill leaves none.
THEOREM TmpIsAlwaysRemoved == SnapshotSpec => []TmpIsRemoved
<1>1. SnapshotInv => TmpIsRemoved
  BY DEF SnapshotInv, TmpInv, TmpIsRemoved, Tmp
<1> QED
  BY <1>1, SnapshotInvInit, SnapshotInvStep, PTL DEF SnapshotSpec

\* The snapshot is replaced by a whole and later one, and never goes away.
THEOREM SnapshotAlwaysStays == SnapshotSpec => SnapshotStays
<1> DEFINE Stays ==
      Out # 0 => /\ Out' # 0
                 /\ files'[Out'].parts = Whole
                 /\ files'[Out'].frame >= files[Out].frame
<1>1. SnapshotInv /\ SnapshotInv' /\ [SnapshotNext]_snapshotVars => [Stays]_snapshotVars
  <2> SUFFICES ASSUME SnapshotInv, SnapshotInv', SnapshotNext, Out # 0
               PROVE  Out' # 0 /\ files'[Out'].frame >= files[Out].frame
    BY DEF SnapshotInv, OutputInv
  <2>1. /\ Out \in 1..Len(files) /\ Out # Tmp
        /\ files[Out].frame \in Nat /\ files[Out].frame <= offered
    <3>1. Out \in 1..Len(files)
      BY DEF SnapshotInv, SnapshotTypeOK, Out
    <3> QED
      BY <3>1, FileInHand DEF SnapshotInv, OutputInv
  <2>2. CASE RenameFile
    <3>1. Out' = Tmp /\ Tmp # 0 /\ files' = files /\ files[Tmp].frame = offered
      BY <2>2 DEF RenameFile, SinkGoes, Target, Out, Tmp, SnapshotInv, WriterInv
    <3> QED
      BY <2>1, <3>1 DEF SnapshotInv, SnapshotTypeOK
  <2>3. CASE OpenFile
    <3>1. Out' = Out
      BY <2>3 DEF OpenFile, Target, Out, SnapshotInv, SnapshotTypeOK
    <3>2. CASE Tmp # 0
      <4>1. files' = [files EXCEPT ![Tmp] = NewFile(offered)]
        BY <2>3, <3>2 DEF OpenFile, Target, Tmp
      <4>2. files'[Out] = files[Out]
        BY <2>1, <4>1 DEF SnapshotInv, SnapshotTypeOK
      <4> QED
        BY <2>1, <3>1, <4>2
    <3>3. CASE Tmp = 0
      <4>1. files' = Append(files, NewFile(offered))
        BY <2>3, <3>3 DEF OpenFile, Target, Tmp
      <4>2. NewFile(offered) \in File
        BY DEF NewFile, File, Whole, SnapshotInv, SnapshotTypeOK
      <4>3. files'[Out] = files[Out]
        BY <2>1, <4>1, <4>2 DEF SnapshotInv, SnapshotTypeOK
      <4> QED
        BY <2>1, <3>1, <4>3
    <3> QED
      BY <3>2, <3>3
  <2>4. CASE WriteFile \/ WriteFileFails \/ CloseFile \/ CloseFileFails
    <3>1. Out' = Out /\ writing = Tmp
      BY <2>4 DEF WriteFile, WriteFileFails, CloseFile, CloseFileFails, SinkGoes, Out,
         SnapshotInv, WriterInv
    <3>2. \E k : files' = [files EXCEPT ![writing].parts = k]
      BY <2>4 DEF WriteFile, WriteFileFails, CloseFile, CloseFileFails, Grows
    <3>3. files'[Out] = files[Out]
      BY <2>1, <3>1, <3>2 DEF SnapshotInv, SnapshotTypeOK
    <3> QED
      BY <2>1, <3>1, <3>3
  <2>5. CASE RenameFails \/ CleanUp
    <3>1. Out' = Out /\ files' = files
      BY <2>5 DEF RenameFails, CleanUp, Out, SnapshotInv, SnapshotTypeOK
    <3> QED
      BY <2>1, <3>1
  <2>6. CASE \/ SinkStarts \/ FrameComes \/ EncodeJpeg \/ OpenFileFails \/ SinkEnds
             \/ ReaderOpens \/ ReaderReads
    <3>1. Out' = Out /\ files' = files
      BY <2>6 DEF SinkStarts, FrameComes, EncodeJpeg, OpenFileFails, SinkEnds, ReaderOpens,
         ReaderReads, fileVars, Out
    <3> QED
      BY <2>1, <3>1
  <2> QED
    BY <2>2, <2>3, <2>4, <2>5, <2>6 DEF SnapshotNext
<1>2. [Stays]_snapshotVars => [ snapshotNames.output # 0 =>
            /\ snapshotNames'.output # 0
            /\ files'[snapshotNames'.output].parts = Whole
            /\ files'[snapshotNames'.output].frame >= files[snapshotNames.output].frame
      ]_snapshotVars
  BY DEF Out
<1> QED
  BY <1>1, <1>2, SnapshotInvInit, SnapshotInvStep, PTL DEF SnapshotSpec, SnapshotStays

-----------------------------------------------------------------------------
(***************************************************************************)
(* The viewer's promises for any number of frames.                         *)
(*                                                                         *)
(* The argument: of the flags that no lock guards, each is written in one  *)
(* direction only, and running after error_result; and whoever has the     *)
(* mutex is in one of a few places, so that what is between two pictures   *)
(* is only ever seen there.                                                *)
(***************************************************************************)

\* Who is where while main is where it is, and what main has made.
LifeInv ==
    /\ vmain = "init" => vproc = "none" /\ vthread = "none" /\ vctx = "none"
    /\ vmain = "wait" => vproc = "none" /\ vthread # "none" /\ vctx = "live"
    /\ vmain = "run" => vthread # "none" /\ vctx = "live"
    /\ vmain = "join" => vproc \in {"none", "done"} /\ vthread # "none" /\ vctx = "live"
    /\ vmain = "exit" => vproc \in {"none", "done"} /\ vthread \in {"none", "done"}

\* Until main ends the viewer, running is only cleared for a reason, and the
\* reason is there first.
ReasonInv ==
    /\ vmain \in {"wait", "run"} /\ ~running => closed \/ errorResult # "OK"
    /\ vthread \in {"update failed", "render failed"} => errorResult # "OK"
    /\ vproc = "closed" => closed \/ errorResult # "OK"
    /\ EofOnlyWhenClosed

\* The two holders of the mutex.
MutexInv ==
    /\ mutex = "process" <=> vproc \in {"copy", "copying", "unlock"}
    /\ mutex = "viewer" <=> vthread \in {"update", "updating", "update failed", "clean",
                                         "unlock"}

\* The buffer has the last frame copied, but for a copy that is going on; the
\* texture has it as well, but for a change that waits or is going on.
PictureInv ==
    /\ vmain = "init" => texture = Both(accepted)
    /\ IF vproc = "copying" THEN buffer["upper"] = frame ELSE buffer = Both(accepted)
    /\ vthread \in {"update", "updating", "update failed", "clean"} => dirty
    /\ vthread = "updating" => texture["upper"] = buffer["upper"]
    /\ vthread = "clean" /\ running => texture = Both(accepted)
    /\ ~dirty /\ running => texture = Both(accepted)
    /\ errorResult = "OK" /\ vthread # "updating" => texture["upper"] = texture["lower"]
    /\ ShownIsWhole

ViewerInv == ViewerTypeOK /\ LifeInv /\ ReasonInv /\ MutexInv /\ PictureInv

-----------------------------------------------------------------------------

LEMMA BothIsPicture ==
    ASSUME NEW n \in Nat
    PROVE  Both(n) \in Pictures /\ Both(n)["upper"] = n /\ Both(n)["lower"] = n
  BY DEF Both, Pictures

LEMMA PictureIsBoth ==
    ASSUME NEW p \in Pictures, NEW n \in Nat, p["upper"] = n, p["lower"] = n
    PROVE  p = Both(n)
  BY DEF Both, Pictures

LEMMA ViewerInvInit == ViewerInit => ViewerInv
<1> SUFFICES ASSUME ViewerInit PROVE ViewerInv
  OBVIOUS
<1>1. ViewerTypeOK
  BY BothIsPicture DEF ViewerInit, ViewerTypeOK, PlacesOK, FlagsOK, PicturesOK
<1>2. LifeInv /\ ReasonInv /\ MutexInv
  BY DEF ViewerInit, LifeInv, ReasonInv, MutexInv, EofOnlyWhenClosed
<1>3. PictureInv
  BY BothIsPicture DEF ViewerInit, PictureInv, ShownIsWhole
<1> QED
  BY <1>1, <1>2, <1>3 DEF ViewerInv

LEMMA MainKeeps ==
    ASSUME ViewerInv, ViewerMainStep PROVE ViewerInv'
<1> USE DEF ViewerInv
<1>1. CASE CreateViewer
  <2>1. PlacesOK'
    BY <1>1 DEF ViewerTypeOK, PlacesOK, CreateViewer, VMainGoes, pictureVars
  <2>2. FlagsOK'
    BY <1>1 DEF ViewerTypeOK, FlagsOK, CreateViewer, VMainGoes, pictureVars
  <2>3. PicturesOK'
    BY <1>1
    DEF ViewerTypeOK, FlagsOK, PicturesOK, Pictures, CreateViewer, VMainGoes, pictureVars
  <2>4. LifeInv'
    BY <1>1 DEF ViewerTypeOK, PlacesOK, LifeInv, CreateViewer, VMainGoes, pictureVars
  <2>5. ReasonInv'
    BY <1>1
    DEF ViewerTypeOK, PlacesOK, FlagsOK, LifeInv, ReasonInv, EofOnlyWhenClosed,
        CreateViewer, VMainGoes, pictureVars
  <2>6. MutexInv'
    BY <1>1
    DEF ViewerTypeOK, PlacesOK, LifeInv, MutexInv, CreateViewer, VMainGoes, pictureVars
  <2>7. PictureInv'
    BY <1>1
    DEF ViewerTypeOK, PicturesOK, LifeInv, MutexInv, PictureInv, ShownIsWhole,
        CreateViewer, VMainGoes, pictureVars
  <2> QED
    BY <2>1, <2>2, <2>3, <2>4, <2>5, <2>6, <2>7 DEF ViewerTypeOK
<1>2. CASE ViewerReady
  <2>1. PlacesOK'
    BY <1>2 DEF ViewerTypeOK, PlacesOK, ViewerReady, VMainGoes, pictureVars
  <2>2. FlagsOK'
    BY <1>2 DEF ViewerTypeOK, FlagsOK, ViewerReady, VMainGoes, pictureVars
  <2>3. PicturesOK'
    BY <1>2
    DEF ViewerTypeOK, FlagsOK, PicturesOK, Pictures, ViewerReady, VMainGoes, pictureVars
  <2>4. LifeInv'
    BY <1>2 DEF ViewerTypeOK, PlacesOK, LifeInv, ViewerReady, VMainGoes, pictureVars
  <2>5. ReasonInv'
    BY <1>2
    DEF ViewerTypeOK, PlacesOK, FlagsOK, LifeInv, ReasonInv, EofOnlyWhenClosed,
        ViewerReady, VMainGoes, pictureVars
  <2>6. MutexInv'
    BY <1>2
    DEF ViewerTypeOK, PlacesOK, LifeInv, MutexInv, ViewerReady, VMainGoes, pictureVars
  <2>7. PictureInv'
    BY <1>2
    DEF ViewerTypeOK, PicturesOK, LifeInv, MutexInv, PictureInv, ShownIsWhole, ViewerReady,
        VMainGoes, pictureVars
  <2> QED
    BY <2>1, <2>2, <2>3, <2>4, <2>5, <2>6, <2>7 DEF ViewerTypeOK
<1>3. CASE DeinitViewer
  <2>1. PlacesOK'
    BY <1>3 DEF ViewerTypeOK, PlacesOK, DeinitViewer, VMainGoes, pictureVars
  <2>2. FlagsOK'
    BY <1>3 DEF ViewerTypeOK, FlagsOK, DeinitViewer, VMainGoes, pictureVars
  <2>3. PicturesOK'
    BY <1>3
    DEF ViewerTypeOK, FlagsOK, PicturesOK, Pictures, DeinitViewer, VMainGoes, pictureVars
  <2>4. LifeInv'
    BY <1>3 DEF ViewerTypeOK, PlacesOK, LifeInv, DeinitViewer, VMainGoes, pictureVars
  <2>5. ReasonInv'
    BY <1>3
    DEF ViewerTypeOK, PlacesOK, FlagsOK, LifeInv, ReasonInv, EofOnlyWhenClosed,
        DeinitViewer, VMainGoes, pictureVars
  <2>6. MutexInv'
    BY <1>3
    DEF ViewerTypeOK, PlacesOK, LifeInv, MutexInv, DeinitViewer, VMainGoes, pictureVars
  <2>7. PictureInv'
    BY <1>3
    DEF ViewerTypeOK, PicturesOK, LifeInv, MutexInv, PictureInv, ShownIsWhole,
        DeinitViewer, VMainGoes, pictureVars
  <2> QED
    BY <2>1, <2>2, <2>3, <2>4, <2>5, <2>6, <2>7 DEF ViewerTypeOK
<1>4. CASE FreeViewer
  <2>1. PlacesOK'
    BY <1>4
    DEF ViewerTypeOK, PlacesOK, FreeViewer, VMainGoes, WaitedThread, flagVars, pictureVars
  <2>2. FlagsOK'
    BY <1>4
    DEF ViewerTypeOK, FlagsOK, FreeViewer, VMainGoes, WaitedThread, flagVars, pictureVars
  <2>3. PicturesOK'
    BY <1>4
    DEF ViewerTypeOK, FlagsOK, PicturesOK, Pictures, FreeViewer, VMainGoes, WaitedThread,
        flagVars, pictureVars
  <2>4. LifeInv'
    BY <1>4
    DEF ViewerTypeOK, PlacesOK, LifeInv, FreeViewer, VMainGoes, WaitedThread, flagVars,
        pictureVars
  <2>5. ReasonInv'
    BY <1>4
    DEF ViewerTypeOK, PlacesOK, FlagsOK, LifeInv, ReasonInv, EofOnlyWhenClosed, FreeViewer,
        VMainGoes, WaitedThread, flagVars, pictureVars
  <2>6. MutexInv'
    BY <1>4
    DEF ViewerTypeOK, PlacesOK, LifeInv, MutexInv, FreeViewer, VMainGoes, WaitedThread,
        flagVars, pictureVars
  <2>7. PictureInv'
    BY <1>4
    DEF ViewerTypeOK, PicturesOK, LifeInv, MutexInv, PictureInv, ShownIsWhole, FreeViewer,
        VMainGoes, WaitedThread, flagVars, pictureVars
  <2> QED
    BY <2>1, <2>2, <2>3, <2>4, <2>5, <2>6, <2>7 DEF ViewerTypeOK
<1> QED
  BY <1>1, <1>2, <1>3, <1>4 DEF ViewerMainStep

LEMMA DisplayKeeps ==
    ASSUME ViewerInv, DisplayStep PROVE ViewerInv'
<1> USE DEF ViewerInv
<1>a. vproc \notin {"none", "done"} => vmain = "run"
  BY DEF ViewerTypeOK, PlacesOK, LifeInv
<1>1. CASE DisplayChecks
  <2>1. PlacesOK'
    BY <1>1, <1>a DEF ViewerTypeOK, PlacesOK, DisplayChecks, flagVars, pictureVars
  <2>2. FlagsOK'
    BY <1>1, <1>a DEF ViewerTypeOK, FlagsOK, DisplayChecks, flagVars, pictureVars
  <2>3. PicturesOK'
    BY <1>1, <1>a
    DEF ViewerTypeOK, FlagsOK, PicturesOK, Pictures, DisplayChecks, flagVars, pictureVars
  <2>4. LifeInv'
    BY <1>1, <1>a DEF ViewerTypeOK, PlacesOK, LifeInv, DisplayChecks, flagVars, pictureVars
  <2>5. ReasonInv'
    BY <1>1, <1>a
    DEF ViewerTypeOK, PlacesOK, FlagsOK, LifeInv, ReasonInv, EofOnlyWhenClosed,
        DisplayChecks, flagVars, pictureVars
  <2>6. MutexInv'
    BY <1>1, <1>a
    DEF ViewerTypeOK, PlacesOK, LifeInv, MutexInv, DisplayChecks, flagVars, pictureVars
  <2>7. PictureInv'
    BY <1>1, <1>a
    DEF ViewerTypeOK, PicturesOK, LifeInv, MutexInv, PictureInv, ShownIsWhole,
        DisplayChecks, flagVars, pictureVars
  <2> QED
    BY <2>1, <2>2, <2>3, <2>4, <2>5, <2>6, <2>7 DEF ViewerTypeOK
<1>2. CASE DisplayClosed
  <2>1. PlacesOK'
    BY <1>2, <1>a
    DEF ViewerTypeOK, PlacesOK, DisplayClosed, Displayed, flagVars, pictureVars
  <2>2. FlagsOK'
    BY <1>2, <1>a DEF ViewerTypeOK, FlagsOK, DisplayClosed, Displayed, flagVars, pictureVars
  <2>3. PicturesOK'
    BY <1>2, <1>a
    DEF ViewerTypeOK, FlagsOK, PicturesOK, Pictures, DisplayClosed, Displayed, flagVars,
        pictureVars
  <2>4. LifeInv'
    BY <1>2, <1>a
    DEF ViewerTypeOK, PlacesOK, LifeInv, DisplayClosed, Displayed, flagVars, pictureVars
  <2>5. ReasonInv'
    BY <1>2, <1>a
    DEF ViewerTypeOK, PlacesOK, FlagsOK, LifeInv, ReasonInv, EofOnlyWhenClosed,
        DisplayClosed, Displayed, flagVars, pictureVars
  <2>6. MutexInv'
    BY <1>2, <1>a
    DEF ViewerTypeOK, PlacesOK, LifeInv, MutexInv, DisplayClosed, Displayed, flagVars,
        pictureVars
  <2>7. PictureInv'
    BY <1>2, <1>a
    DEF ViewerTypeOK, PicturesOK, LifeInv, MutexInv, PictureInv, ShownIsWhole,
        DisplayClosed, Displayed, flagVars, pictureVars
  <2> QED
    BY <2>1, <2>2, <2>3, <2>4, <2>5, <2>6, <2>7 DEF ViewerTypeOK
<1>3. CASE DisplayLocks
  <2>1. PlacesOK'
    BY <1>3, <1>a
    DEF ViewerTypeOK, PlacesOK, DisplayLocks, Displayed, TryLock, flagVars, pictureVars
  <2>2. FlagsOK'
    BY <1>3, <1>a
    DEF ViewerTypeOK, FlagsOK, DisplayLocks, Displayed, TryLock, flagVars, pictureVars
  <2>3. PicturesOK'
    BY <1>3, <1>a
    DEF ViewerTypeOK, FlagsOK, PicturesOK, Pictures, DisplayLocks, Displayed, TryLock,
        flagVars, pictureVars
  <2>4. LifeInv'
    BY <1>3, <1>a
    DEF ViewerTypeOK, PlacesOK, LifeInv, DisplayLocks, Displayed, TryLock, flagVars,
        pictureVars
  <2>5. ReasonInv'
    BY <1>3, <1>a
    DEF ViewerTypeOK, PlacesOK, FlagsOK, LifeInv, ReasonInv, EofOnlyWhenClosed,
        DisplayLocks, Displayed, TryLock, flagVars, pictureVars
  <2>6. MutexInv'
    BY <1>3, <1>a
    DEF ViewerTypeOK, PlacesOK, LifeInv, MutexInv, DisplayLocks, Displayed, TryLock,
        flagVars, pictureVars
  <2>7. PictureInv'
    BY <1>3, <1>a
    DEF ViewerTypeOK, PicturesOK, LifeInv, MutexInv, PictureInv, ShownIsWhole,
        DisplayLocks, Displayed, TryLock, flagVars, pictureVars
  <2> QED
    BY <2>1, <2>2, <2>3, <2>4, <2>5, <2>6, <2>7 DEF ViewerTypeOK
<1>4. CASE CopyFails
  <2>1. PlacesOK'
    BY <1>4, <1>a DEF ViewerTypeOK, PlacesOK, CopyFails, Displayed, flagVars, pictureVars
  <2>2. FlagsOK'
    BY <1>4, <1>a DEF ViewerTypeOK, FlagsOK, CopyFails, Displayed, flagVars, pictureVars
  <2>3. PicturesOK'
    BY <1>4, <1>a
    DEF ViewerTypeOK, FlagsOK, PicturesOK, Pictures, CopyFails, Displayed, flagVars,
        pictureVars
  <2>4. LifeInv'
    BY <1>4, <1>a
    DEF ViewerTypeOK, PlacesOK, LifeInv, CopyFails, Displayed, flagVars, pictureVars
  <2>5. ReasonInv'
    BY <1>4, <1>a
    DEF ViewerTypeOK, PlacesOK, FlagsOK, LifeInv, ReasonInv, EofOnlyWhenClosed, CopyFails,
        Displayed, flagVars, pictureVars
  <2>6. MutexInv'
    BY <1>4, <1>a
    DEF ViewerTypeOK, PlacesOK, LifeInv, MutexInv, CopyFails, Displayed, flagVars,
        pictureVars
  <2>7. PictureInv'
    BY <1>4, <1>a
    DEF ViewerTypeOK, PicturesOK, LifeInv, MutexInv, PictureInv, ShownIsWhole, CopyFails,
        Displayed, flagVars, pictureVars
  <2> QED
    BY <2>1, <2>2, <2>3, <2>4, <2>5, <2>6, <2>7 DEF ViewerTypeOK
<1>5. CASE CopyUpper
  <2>1. PlacesOK'
    BY <1>5, <1>a DEF ViewerTypeOK, PlacesOK, CopyUpper, VProcGoes, flagVars
  <2>2. FlagsOK'
    BY <1>5, <1>a DEF ViewerTypeOK, FlagsOK, CopyUpper, VProcGoes, flagVars
  <2>3. PicturesOK'
    BY <1>5, <1>a
    DEF ViewerTypeOK, FlagsOK, PicturesOK, Pictures, CopyUpper, VProcGoes, flagVars
  <2>4. LifeInv'
    BY <1>5, <1>a DEF ViewerTypeOK, PlacesOK, LifeInv, CopyUpper, VProcGoes, flagVars
  <2>5. ReasonInv'
    BY <1>5, <1>a
    DEF ViewerTypeOK, PlacesOK, FlagsOK, LifeInv, ReasonInv, EofOnlyWhenClosed, CopyUpper,
        VProcGoes, flagVars
  <2>6. MutexInv'
    BY <1>5, <1>a
    DEF ViewerTypeOK, PlacesOK, LifeInv, MutexInv, CopyUpper, VProcGoes, flagVars
  <2>7. PictureInv'
    BY <1>5, <1>a, BothIsPicture, PictureIsBoth
    DEF ViewerTypeOK, PicturesOK, LifeInv, MutexInv, PictureInv, ShownIsWhole, CopyUpper,
        VProcGoes, flagVars, Pictures
  <2> QED
    BY <2>1, <2>2, <2>3, <2>4, <2>5, <2>6, <2>7 DEF ViewerTypeOK
<1>6. CASE CopyLower
  <2>1. PlacesOK'
    BY <1>6, <1>a DEF ViewerTypeOK, PlacesOK, CopyLower, VProcGoes, flagVars
  <2>2. FlagsOK'
    BY <1>6, <1>a DEF ViewerTypeOK, FlagsOK, CopyLower, VProcGoes, flagVars
  <2>3. PicturesOK'
    BY <1>6, <1>a
    DEF ViewerTypeOK, FlagsOK, PicturesOK, Pictures, CopyLower, VProcGoes, flagVars
  <2>4. LifeInv'
    BY <1>6, <1>a DEF ViewerTypeOK, PlacesOK, LifeInv, CopyLower, VProcGoes, flagVars
  <2>5. ReasonInv'
    BY <1>6, <1>a
    DEF ViewerTypeOK, PlacesOK, FlagsOK, LifeInv, ReasonInv, EofOnlyWhenClosed, CopyLower,
        VProcGoes, flagVars
  <2>6. MutexInv'
    BY <1>6, <1>a
    DEF ViewerTypeOK, PlacesOK, LifeInv, MutexInv, CopyLower, VProcGoes, flagVars
  <2>7. PictureInv'
    <3>1. buffer' = Both(frame)
      <4>1. buffer' \in Pictures /\ buffer'["upper"] = frame /\ buffer'["lower"] = frame
        BY <1>6 DEF ViewerTypeOK, PicturesOK, Pictures, PictureInv, CopyLower, VProcGoes
      <4> QED
        BY <4>1, PictureIsBoth DEF ViewerTypeOK, PicturesOK
    <3>2. vthread # "updating" /\ vthread # "clean"
      BY <1>6 DEF MutexInv, CopyLower, VProcGoes
    <3>3. accepted' = frame /\ dirty' /\ UNCHANGED <<vmain, vthread, texture, shown, errorResult>>
      BY <1>6 DEF CopyLower, flagVars
    <3> QED
      BY <1>6, <1>a, <3>1, <3>2, <3>3 DEF PictureInv, ShownIsWhole, CopyLower, VProcGoes
  <2> QED
    BY <2>1, <2>2, <2>3, <2>4, <2>5, <2>6, <2>7 DEF ViewerTypeOK
<1>7. CASE DisplayUnlocks
  <2>1. PlacesOK'
    BY <1>7, <1>a
    DEF ViewerTypeOK, PlacesOK, DisplayUnlocks, Displayed, flagVars, pictureVars
  <2>2. FlagsOK'
    BY <1>7, <1>a
    DEF ViewerTypeOK, FlagsOK, DisplayUnlocks, Displayed, flagVars, pictureVars
  <2>3. PicturesOK'
    BY <1>7, <1>a
    DEF ViewerTypeOK, FlagsOK, PicturesOK, Pictures, DisplayUnlocks, Displayed, flagVars,
        pictureVars
  <2>4. LifeInv'
    BY <1>7, <1>a
    DEF ViewerTypeOK, PlacesOK, LifeInv, DisplayUnlocks, Displayed, flagVars, pictureVars
  <2>5. ReasonInv'
    BY <1>7, <1>a
    DEF ViewerTypeOK, PlacesOK, FlagsOK, LifeInv, ReasonInv, EofOnlyWhenClosed,
        DisplayUnlocks, Displayed, flagVars, pictureVars
  <2>6. MutexInv'
    BY <1>7, <1>a
    DEF ViewerTypeOK, PlacesOK, LifeInv, MutexInv, DisplayUnlocks, Displayed, flagVars,
        pictureVars
  <2>7. PictureInv'
    BY <1>7, <1>a
    DEF ViewerTypeOK, PicturesOK, LifeInv, MutexInv, PictureInv, ShownIsWhole,
        DisplayUnlocks, Displayed, flagVars, pictureVars
  <2> QED
    BY <2>1, <2>2, <2>3, <2>4, <2>5, <2>6, <2>7 DEF ViewerTypeOK
<1> QED
  BY <1>1, <1>2, <1>3, <1>4, <1>5, <1>6, <1>7 DEF DisplayStep

LEMMA ThreadKeeps ==
    ASSUME ViewerInv, ViewerThreadStep PROVE ViewerInv'
<1> USE DEF ViewerInv
<1>1. CASE SetUp
  <2>1. PlacesOK'
    BY <1>1 DEF ViewerTypeOK, PlacesOK, SetUp, VThreadGoes, pictureVars
  <2>2. FlagsOK'
    BY <1>1 DEF ViewerTypeOK, FlagsOK, SetUp, VThreadGoes, pictureVars
  <2>3. PicturesOK'
    BY <1>1 DEF ViewerTypeOK, FlagsOK, PicturesOK, Pictures, SetUp, VThreadGoes, pictureVars
  <2>4. LifeInv'
    BY <1>1 DEF ViewerTypeOK, PlacesOK, LifeInv, SetUp, VThreadGoes, pictureVars
  <2>5. ReasonInv'
    BY <1>1
    DEF ViewerTypeOK, PlacesOK, FlagsOK, LifeInv, ReasonInv, EofOnlyWhenClosed, SetUp,
        VThreadGoes, pictureVars
  <2>6. MutexInv'
    BY <1>1 DEF ViewerTypeOK, PlacesOK, LifeInv, MutexInv, SetUp, VThreadGoes, pictureVars
  <2>7. PictureInv'
    BY <1>1
    DEF ViewerTypeOK, PicturesOK, LifeInv, MutexInv, PictureInv, ShownIsWhole, SetUp,
        VThreadGoes, pictureVars
  <2> QED
    BY <2>1, <2>2, <2>3, <2>4, <2>5, <2>6, <2>7 DEF ViewerTypeOK
<1>2. CASE Announce
  <2>1. PlacesOK'
    BY <1>2 DEF ViewerTypeOK, PlacesOK, Announce, VThreadGoes, ReadyAfter, pictureVars
  <2>2. FlagsOK'
    BY <1>2 DEF ViewerTypeOK, FlagsOK, Announce, VThreadGoes, ReadyAfter, pictureVars
  <2>3. PicturesOK'
    BY <1>2
    DEF ViewerTypeOK, FlagsOK, PicturesOK, Pictures, Announce, VThreadGoes, ReadyAfter,
        pictureVars
  <2>4. LifeInv'
    BY <1>2
    DEF ViewerTypeOK, PlacesOK, LifeInv, Announce, VThreadGoes, ReadyAfter, pictureVars
  <2>5. ReasonInv'
    BY <1>2
    DEF ViewerTypeOK, PlacesOK, FlagsOK, LifeInv, ReasonInv, EofOnlyWhenClosed, Announce,
        VThreadGoes, ReadyAfter, pictureVars
  <2>6. MutexInv'
    BY <1>2
    DEF ViewerTypeOK, PlacesOK, LifeInv, MutexInv, Announce, VThreadGoes, ReadyAfter,
        pictureVars
  <2>7. PictureInv'
    BY <1>2
    DEF ViewerTypeOK, PicturesOK, LifeInv, MutexInv, PictureInv, ShownIsWhole, Announce,
        VThreadGoes, ReadyAfter, pictureVars
  <2> QED
    BY <2>1, <2>2, <2>3, <2>4, <2>5, <2>6, <2>7 DEF ViewerTypeOK
<1>3. CASE Loop
  <2>1. PlacesOK'
    BY <1>3 DEF ViewerTypeOK, PlacesOK, Loop, flagVars, pictureVars
  <2>2. FlagsOK'
    BY <1>3 DEF ViewerTypeOK, FlagsOK, Loop, flagVars, pictureVars
  <2>3. PicturesOK'
    BY <1>3 DEF ViewerTypeOK, FlagsOK, PicturesOK, Pictures, Loop, flagVars, pictureVars
  <2>4. LifeInv'
    BY <1>3 DEF ViewerTypeOK, PlacesOK, LifeInv, Loop, flagVars, pictureVars
  <2>5. ReasonInv'
    BY <1>3
    DEF ViewerTypeOK, PlacesOK, FlagsOK, LifeInv, ReasonInv, EofOnlyWhenClosed, Loop,
        flagVars, pictureVars
  <2>6. MutexInv'
    BY <1>3 DEF ViewerTypeOK, PlacesOK, LifeInv, MutexInv, Loop, flagVars, pictureVars
  <2>7. PictureInv'
    BY <1>3
    DEF ViewerTypeOK, PicturesOK, LifeInv, MutexInv, PictureInv, ShownIsWhole, Loop,
        flagVars, pictureVars
  <2> QED
    BY <2>1, <2>2, <2>3, <2>4, <2>5, <2>6, <2>7 DEF ViewerTypeOK
<1>4. CASE Poll
  <2>1. PlacesOK'
    BY <1>4 DEF ViewerTypeOK, PlacesOK, Poll, VThreadGoes, pictureVars
  <2>2. FlagsOK'
    BY <1>4 DEF ViewerTypeOK, FlagsOK, Poll, VThreadGoes, pictureVars
  <2>3. PicturesOK'
    BY <1>4 DEF ViewerTypeOK, FlagsOK, PicturesOK, Pictures, Poll, VThreadGoes, pictureVars
  <2>4. LifeInv'
    BY <1>4 DEF ViewerTypeOK, PlacesOK, LifeInv, Poll, VThreadGoes, pictureVars
  <2>5. ReasonInv'
    BY <1>4
    DEF ViewerTypeOK, PlacesOK, FlagsOK, LifeInv, ReasonInv, EofOnlyWhenClosed, Poll,
        VThreadGoes, pictureVars
  <2>6. MutexInv'
    BY <1>4 DEF ViewerTypeOK, PlacesOK, LifeInv, MutexInv, Poll, VThreadGoes, pictureVars
  <2>7. PictureInv'
    BY <1>4
    DEF ViewerTypeOK, PicturesOK, LifeInv, MutexInv, PictureInv, ShownIsWhole, Poll,
        VThreadGoes, pictureVars
  <2> QED
    BY <2>1, <2>2, <2>3, <2>4, <2>5, <2>6, <2>7 DEF ViewerTypeOK
<1>5. CASE ViewerLocks
  <2>1. PlacesOK'
    BY <1>5 DEF ViewerTypeOK, PlacesOK, ViewerLocks, TryLock, flagVars, pictureVars
  <2>2. FlagsOK'
    BY <1>5 DEF ViewerTypeOK, FlagsOK, ViewerLocks, TryLock, flagVars, pictureVars
  <2>3. PicturesOK'
    BY <1>5
    DEF ViewerTypeOK, FlagsOK, PicturesOK, Pictures, ViewerLocks, TryLock, flagVars,
        pictureVars
  <2>4. LifeInv'
    BY <1>5 DEF ViewerTypeOK, PlacesOK, LifeInv, ViewerLocks, TryLock, flagVars, pictureVars
  <2>5. ReasonInv'
    BY <1>5
    DEF ViewerTypeOK, PlacesOK, FlagsOK, LifeInv, ReasonInv, EofOnlyWhenClosed,
        ViewerLocks, TryLock, flagVars, pictureVars
  <2>6. MutexInv'
    BY <1>5
    DEF ViewerTypeOK, PlacesOK, LifeInv, MutexInv, ViewerLocks, TryLock, flagVars,
        pictureVars
  <2>7. PictureInv'
    BY <1>5
    DEF ViewerTypeOK, PicturesOK, LifeInv, MutexInv, PictureInv, ShownIsWhole, ViewerLocks,
        TryLock, flagVars, pictureVars
  <2> QED
    BY <2>1, <2>2, <2>3, <2>4, <2>5, <2>6, <2>7 DEF ViewerTypeOK
<1>6. CASE UpdateUpper
  <2>1. PlacesOK'
    BY <1>6 DEF ViewerTypeOK, PlacesOK, UpdateUpper, VThreadGoes, flagVars
  <2>2. FlagsOK'
    BY <1>6 DEF ViewerTypeOK, FlagsOK, UpdateUpper, VThreadGoes, flagVars
  <2>3. PicturesOK'
    BY <1>6
    DEF ViewerTypeOK, FlagsOK, PicturesOK, Pictures, UpdateUpper, VThreadGoes, flagVars
  <2>4. LifeInv'
    BY <1>6 DEF ViewerTypeOK, PlacesOK, LifeInv, UpdateUpper, VThreadGoes, flagVars
  <2>5. ReasonInv'
    BY <1>6
    DEF ViewerTypeOK, PlacesOK, FlagsOK, LifeInv, ReasonInv, EofOnlyWhenClosed,
        UpdateUpper, VThreadGoes, flagVars
  <2>6. MutexInv'
    BY <1>6
    DEF ViewerTypeOK, PlacesOK, LifeInv, MutexInv, UpdateUpper, VThreadGoes, flagVars
  <2>7. PictureInv'
    BY <1>6, BothIsPicture, PictureIsBoth
    DEF ViewerTypeOK, PicturesOK, LifeInv, MutexInv, PictureInv, ShownIsWhole, UpdateUpper,
        VThreadGoes, flagVars, Pictures
  <2> QED
    BY <2>1, <2>2, <2>3, <2>4, <2>5, <2>6, <2>7 DEF ViewerTypeOK
<1>7. CASE UpdateLower
  <2>1. PlacesOK'
    BY <1>7 DEF ViewerTypeOK, PlacesOK, UpdateLower, VThreadGoes, flagVars
  <2>2. FlagsOK'
    BY <1>7 DEF ViewerTypeOK, FlagsOK, UpdateLower, VThreadGoes, flagVars
  <2>3. PicturesOK'
    BY <1>7
    DEF ViewerTypeOK, FlagsOK, PicturesOK, Pictures, UpdateLower, VThreadGoes, flagVars
  <2>4. LifeInv'
    BY <1>7 DEF ViewerTypeOK, PlacesOK, LifeInv, UpdateLower, VThreadGoes, flagVars
  <2>5. ReasonInv'
    BY <1>7
    DEF ViewerTypeOK, PlacesOK, FlagsOK, LifeInv, ReasonInv, EofOnlyWhenClosed,
        UpdateLower, VThreadGoes, flagVars
  <2>6. MutexInv'
    BY <1>7
    DEF ViewerTypeOK, PlacesOK, LifeInv, MutexInv, UpdateLower, VThreadGoes, flagVars
  <2>7. PictureInv'
    BY <1>7, BothIsPicture, PictureIsBoth
    DEF ViewerTypeOK, PicturesOK, LifeInv, MutexInv, PictureInv, ShownIsWhole, UpdateLower,
        VThreadGoes, flagVars, Pictures
  <2> QED
    BY <2>1, <2>2, <2>3, <2>4, <2>5, <2>6, <2>7 DEF ViewerTypeOK
<1>8. CASE DrawingFails
  <2>1. PlacesOK'
    BY <1>8
    DEF ViewerTypeOK, PlacesOK, DrawingFails, VThreadGoes, Write, pictureVars, TheError
  <2>2. FlagsOK'
    BY <1>8
    DEF ViewerTypeOK, FlagsOK, DrawingFails, VThreadGoes, Write, pictureVars, TheError
  <2>3. PicturesOK'
    BY <1>8
    DEF ViewerTypeOK, FlagsOK, PicturesOK, Pictures, DrawingFails, VThreadGoes, Write,
        pictureVars, TheError
  <2>4. LifeInv'
    BY <1>8
    DEF ViewerTypeOK, PlacesOK, LifeInv, DrawingFails, VThreadGoes, Write, pictureVars,
        TheError
  <2>5. ReasonInv'
    BY <1>8
    DEF ViewerTypeOK, PlacesOK, FlagsOK, LifeInv, ReasonInv, EofOnlyWhenClosed,
        DrawingFails, VThreadGoes, Write, pictureVars, TheError
  <2>6. MutexInv'
    BY <1>8
    DEF ViewerTypeOK, PlacesOK, LifeInv, MutexInv, DrawingFails, VThreadGoes, Write,
        pictureVars, TheError
  <2>7. PictureInv'
    BY <1>8
    DEF ViewerTypeOK, PicturesOK, LifeInv, MutexInv, PictureInv, ShownIsWhole,
        DrawingFails, VThreadGoes, Write, pictureVars, TheError
  <2> QED
    BY <2>1, <2>2, <2>3, <2>4, <2>5, <2>6, <2>7 DEF ViewerTypeOK
<1>9. CASE DrawingStops
  <2>1. PlacesOK'
    BY <1>9
    DEF ViewerTypeOK, PlacesOK, DrawingStops, VThreadGoes, Write, pictureVars, TheError
  <2>2. FlagsOK'
    BY <1>9
    DEF ViewerTypeOK, FlagsOK, DrawingStops, VThreadGoes, Write, pictureVars, TheError
  <2>3. PicturesOK'
    BY <1>9
    DEF ViewerTypeOK, FlagsOK, PicturesOK, Pictures, DrawingStops, VThreadGoes, Write,
        pictureVars, TheError
  <2>4. LifeInv'
    BY <1>9
    DEF ViewerTypeOK, PlacesOK, LifeInv, DrawingStops, VThreadGoes, Write, pictureVars,
        TheError
  <2>5. ReasonInv'
    BY <1>9
    DEF ViewerTypeOK, PlacesOK, FlagsOK, LifeInv, ReasonInv, EofOnlyWhenClosed,
        DrawingStops, VThreadGoes, Write, pictureVars, TheError
  <2>6. MutexInv'
    BY <1>9
    DEF ViewerTypeOK, PlacesOK, LifeInv, MutexInv, DrawingStops, VThreadGoes, Write,
        pictureVars, TheError
  <2>7. PictureInv'
    BY <1>9
    DEF ViewerTypeOK, PicturesOK, LifeInv, MutexInv, PictureInv, ShownIsWhole,
        DrawingStops, VThreadGoes, Write, pictureVars, TheError
  <2> QED
    BY <2>1, <2>2, <2>3, <2>4, <2>5, <2>6, <2>7 DEF ViewerTypeOK
<1>10. CASE ClearDirty
  <2>1. PlacesOK'
    BY <1>10 DEF ViewerTypeOK, PlacesOK, ClearDirty, VThreadGoes, flagVars
  <2>2. FlagsOK'
    BY <1>10 DEF ViewerTypeOK, FlagsOK, ClearDirty, VThreadGoes, flagVars
  <2>3. PicturesOK'
    BY <1>10
    DEF ViewerTypeOK, FlagsOK, PicturesOK, Pictures, ClearDirty, VThreadGoes, flagVars
  <2>4. LifeInv'
    BY <1>10 DEF ViewerTypeOK, PlacesOK, LifeInv, ClearDirty, VThreadGoes, flagVars
  <2>5. ReasonInv'
    BY <1>10
    DEF ViewerTypeOK, PlacesOK, FlagsOK, LifeInv, ReasonInv, EofOnlyWhenClosed, ClearDirty,
        VThreadGoes, flagVars
  <2>6. MutexInv'
    BY <1>10
    DEF ViewerTypeOK, PlacesOK, LifeInv, MutexInv, ClearDirty, VThreadGoes, flagVars
  <2>7. PictureInv'
    BY <1>10
    DEF ViewerTypeOK, PicturesOK, LifeInv, MutexInv, PictureInv, ShownIsWhole, ClearDirty,
        VThreadGoes, flagVars
  <2> QED
    BY <2>1, <2>2, <2>3, <2>4, <2>5, <2>6, <2>7 DEF ViewerTypeOK
<1>11. CASE ViewerUnlocks
  <2>1. PlacesOK'
    BY <1>11 DEF ViewerTypeOK, PlacesOK, ViewerUnlocks, VThreadGoes, flagVars, pictureVars
  <2>2. FlagsOK'
    BY <1>11 DEF ViewerTypeOK, FlagsOK, ViewerUnlocks, VThreadGoes, flagVars, pictureVars
  <2>3. PicturesOK'
    BY <1>11
    DEF ViewerTypeOK, FlagsOK, PicturesOK, Pictures, ViewerUnlocks, VThreadGoes, flagVars,
        pictureVars
  <2>4. LifeInv'
    BY <1>11
    DEF ViewerTypeOK, PlacesOK, LifeInv, ViewerUnlocks, VThreadGoes, flagVars, pictureVars
  <2>5. ReasonInv'
    BY <1>11
    DEF ViewerTypeOK, PlacesOK, FlagsOK, LifeInv, ReasonInv, EofOnlyWhenClosed,
        ViewerUnlocks, VThreadGoes, flagVars, pictureVars
  <2>6. MutexInv'
    BY <1>11
    DEF ViewerTypeOK, PlacesOK, LifeInv, MutexInv, ViewerUnlocks, VThreadGoes, flagVars,
        pictureVars
  <2>7. PictureInv'
    BY <1>11
    DEF ViewerTypeOK, PicturesOK, LifeInv, MutexInv, PictureInv, ShownIsWhole,
        ViewerUnlocks, VThreadGoes, flagVars, pictureVars
  <2> QED
    BY <2>1, <2>2, <2>3, <2>4, <2>5, <2>6, <2>7 DEF ViewerTypeOK
<1>12. CASE Render
  <2>1. PlacesOK'
    BY <1>12 DEF ViewerTypeOK, PlacesOK, Render, VThreadGoes, flagVars, pictureVars
  <2>2. FlagsOK'
    BY <1>12 DEF ViewerTypeOK, FlagsOK, Render, VThreadGoes, flagVars, pictureVars
  <2>3. PicturesOK'
    BY <1>12
    DEF ViewerTypeOK, FlagsOK, PicturesOK, Pictures, Render, VThreadGoes, flagVars,
        pictureVars
  <2>4. LifeInv'
    BY <1>12 DEF ViewerTypeOK, PlacesOK, LifeInv, Render, VThreadGoes, flagVars, pictureVars
  <2>5. ReasonInv'
    BY <1>12
    DEF ViewerTypeOK, PlacesOK, FlagsOK, LifeInv, ReasonInv, EofOnlyWhenClosed, Render,
        VThreadGoes, flagVars, pictureVars
  <2>6. MutexInv'
    BY <1>12
    DEF ViewerTypeOK, PlacesOK, LifeInv, MutexInv, Render, VThreadGoes, flagVars,
        pictureVars
  <2>7. PictureInv'
    BY <1>12
    DEF ViewerTypeOK, PicturesOK, LifeInv, MutexInv, PictureInv, ShownIsWhole, Render,
        VThreadGoes, flagVars, pictureVars
  <2> QED
    BY <2>1, <2>2, <2>3, <2>4, <2>5, <2>6, <2>7 DEF ViewerTypeOK
<1>13. CASE Quit
  <2>1. PlacesOK'
    BY <1>13 DEF ViewerTypeOK, PlacesOK, Quit, VThreadGoes, flagVars, pictureVars
  <2>2. FlagsOK'
    BY <1>13 DEF ViewerTypeOK, FlagsOK, Quit, VThreadGoes, flagVars, pictureVars
  <2>3. PicturesOK'
    BY <1>13
    DEF ViewerTypeOK, FlagsOK, PicturesOK, Pictures, Quit, VThreadGoes, flagVars,
        pictureVars
  <2>4. LifeInv'
    BY <1>13 DEF ViewerTypeOK, PlacesOK, LifeInv, Quit, VThreadGoes, flagVars, pictureVars
  <2>5. ReasonInv'
    BY <1>13
    DEF ViewerTypeOK, PlacesOK, FlagsOK, LifeInv, ReasonInv, EofOnlyWhenClosed, Quit,
        VThreadGoes, flagVars, pictureVars
  <2>6. MutexInv'
    BY <1>13
    DEF ViewerTypeOK, PlacesOK, LifeInv, MutexInv, Quit, VThreadGoes, flagVars,
        pictureVars
  <2>7. PictureInv'
    BY <1>13
    DEF ViewerTypeOK, PicturesOK, LifeInv, MutexInv, PictureInv, ShownIsWhole, Quit,
        VThreadGoes, flagVars, pictureVars
  <2> QED
    BY <2>1, <2>2, <2>3, <2>4, <2>5, <2>6, <2>7 DEF ViewerTypeOK
<1>14. CASE Present
  <2>1. PlacesOK'
    BY <1>14 DEF ViewerTypeOK, PlacesOK, Present, VThreadGoes, flagVars
  <2>2. FlagsOK'
    BY <1>14 DEF ViewerTypeOK, FlagsOK, Present, VThreadGoes, flagVars
  <2>3. PicturesOK'
    BY <1>14 DEF ViewerTypeOK, FlagsOK, PicturesOK, Pictures, Present, VThreadGoes, flagVars
  <2>4. LifeInv'
    BY <1>14 DEF ViewerTypeOK, PlacesOK, LifeInv, Present, VThreadGoes, flagVars
  <2>5. ReasonInv'
    BY <1>14
    DEF ViewerTypeOK, PlacesOK, FlagsOK, LifeInv, ReasonInv, EofOnlyWhenClosed, Present,
        VThreadGoes, flagVars
  <2>6. MutexInv'
    BY <1>14 DEF ViewerTypeOK, PlacesOK, LifeInv, MutexInv, Present, VThreadGoes, flagVars
  <2>7. PictureInv'
    BY <1>14
    DEF ViewerTypeOK, PicturesOK, LifeInv, MutexInv, PictureInv, ShownIsWhole, Present,
        VThreadGoes, flagVars
  <2> QED
    BY <2>1, <2>2, <2>3, <2>4, <2>5, <2>6, <2>7 DEF ViewerTypeOK
<1> QED
  BY <1>1, <1>2, <1>3, <1>4, <1>5, <1>6, <1>7, <1>8, <1>9, <1>10, <1>11, <1>12, <1>13, <1>14
  DEF ViewerThreadStep

LEMMA ViewerInvStep == ViewerInv /\ [ViewerNext]_viewerVars => ViewerInv'
<1> SUFFICES ASSUME ViewerInv, [ViewerNext]_viewerVars PROVE ViewerInv'
  OBVIOUS
<1>1. CASE ViewerNext
  BY <1>1, MainKeeps, DisplayKeeps, ThreadKeeps DEF ViewerNext
<1>2. CASE UNCHANGED viewerVars
  <2>1. PlacesOK'
    BY <1>2 DEF viewerVars, ViewerInv, ViewerTypeOK, PlacesOK
  <2>6. FlagsOK'
    BY <1>2 DEF viewerVars, flagVars, pictureVars, ViewerInv, ViewerTypeOK, FlagsOK
  <2>5. PicturesOK'
    BY <1>2 DEF viewerVars, pictureVars, ViewerInv, ViewerTypeOK, PicturesOK, Pictures
  <2>2. LifeInv' /\ MutexInv'
    BY <1>2 DEF viewerVars, flagVars, ViewerInv, LifeInv, MutexInv
  <2>3. ReasonInv'
    BY <1>2 DEF viewerVars, flagVars, ViewerInv, ReasonInv, EofOnlyWhenClosed
  <2>4. PictureInv'
    BY <1>2 DEF viewerVars, flagVars, pictureVars, ViewerInv, PictureInv, ShownIsWhole
  <2> QED
    BY <2>1, <2>2, <2>3, <2>4, <2>5, <2>6 DEF ViewerInv, ViewerTypeOK
<1> QED
  BY <1>1, <1>2

\* Type correctness of the viewer and its context.
THEOREM ViewerTypeCorrect == ViewerSpec => []ViewerTypeOK
<1>1. ViewerInv => ViewerTypeOK
  BY DEF ViewerInv
<1> QED
  BY <1>1, ViewerInvInit, ViewerInvStep, PTL DEF ViewerSpec

\* The process thread takes only the user's closing of the window for the end.
THEOREM EofMeansClosed == ViewerSpec => []EofOnlyWhenClosed
<1>1. ViewerInv => EofOnlyWhenClosed
  BY DEF ViewerInv, ReasonInv
<1> QED
  BY <1>1, ViewerInvInit, ViewerInvStep, PTL DEF ViewerSpec

\* Nobody uses the context after sdl_display_deinit, or after an init that
\* failed, has freed it.
THEOREM ContextOutlivesThreads == ViewerSpec => []NoUseAfterFree
<1>1. ViewerInv => NoUseAfterFree
  BY DEF ViewerInv, ViewerTypeOK, PlacesOK, LifeInv, NoUseAfterFree
<1> QED
  BY <1>1, ViewerInvInit, ViewerInvStep, PTL DEF ViewerSpec

\* However the two threads take turns, the window shows whole frames and the
\* last frame that Display accepted is never lost.
THEOREM WindowShowsFrames == ViewerSpec => []ShowsAcceptedFrames
<1>1. ViewerInv => ShowsAcceptedFrames
  BY DEF ViewerInv, PictureInv, ShowsAcceptedFrames, NoAcceptedFrameLost
<1> QED
  BY <1>1, ViewerInvInit, ViewerInvStep, PTL DEF ViewerSpec

-----------------------------------------------------------------------------
(***************************************************************************)
(* The camera's buffers for any number of buffers, images and frames, and  *)
(* with every failure of the system.                                       *)
(*                                                                         *)
(* The argument: a buffer that is not the program's is mapped and counted, *)
(* the thread only has a buffer between its DQBUF and its QBUF, and main   *)
(* touches the mapping only when there is no thread.                       *)
(***************************************************************************)


\* The nodes before the one in hand are no cameras.
ScanInv ==
    /\ cmain = "scan" => /\ camera = 0
                         /\ node \in 1..(Len(nodes) + 1)
                         /\ \A n \in 1..(node - 1) : ~IsCamera(nodes[n])
    /\ cmain # "scan" =>
           IF camera = 0 THEN \A n \in 1..Len(nodes) : ~IsCamera(nodes[n])
           ELSE /\ camera \in 1..Len(nodes) /\ IsCamera(nodes[camera])
                /\ \A n \in 1..(camera - 1) : ~IsCamera(nodes[n])

\* Where the two threads may be together.
ThreadInv ==
    /\ cmain \in {"scan", "init", "open", "start", "create"} => cthread = "none"
    /\ cmain \in {"cleanup", "close", "exit"} => cthread \in {"none", "done"}
    /\ held # 0 <=> cthread \in {"push", "release"}
    /\ NothingLeftBehind

\* What the driver may have, and what the thread has.
BufferInv ==
    /\ \A b \in Buffers : place[b] # "user" => b \in mapped
    /\ \A b \in mapped : b <= bufferCount
    /\ cmain \in {"start", "create"} => \A b \in 1..bufferCount : place[b] # "user"
    /\ HeldIsStable
    /\ NoBufferLost

CaptureInv == CaptureTypeOK /\ ScanInv /\ ThreadInv /\ BufferInv

-----------------------------------------------------------------------------

LEMMA BuffersAreCounted == ASSUME NEW n \in 0..BufferLimit PROVE 1..n \subseteq Buffers
  BY CaptureAssumption DEF Buffers

LEMMA CaptureInvInit == CaptureInit => CaptureInv
<1> SUFFICES ASSUME CaptureInit PROVE CaptureInv
  OBVIOUS
<1>1. PlacesInCode
  BY DEF CaptureInit, PlacesInCode
<1>5. ScanInv
  <2>1. Len(nodes) \in Nat /\ node = 1 /\ camera = 0 /\ cmain = "scan"
    BY CaptureAssumption DEF CaptureInit
  <2> QED
    BY <2>1 DEF ScanInv
<1>2. ContextOK
  <2>1. 0 \in 0..BufferLimit
    BY CaptureAssumption
  <2> QED
    BY <2>1 DEF CaptureInit, ContextOK
<1>3. DriverOK
  <2>1. place \in [Buffers -> Places] /\ image \in [Buffers -> Nat]
    BY DEF CaptureInit, Places
  <2>2. delivered \in Seq([image : Nat, pts : Nat])
    BY DEF CaptureInit
  <2> QED
    BY <2>1, <2>2 DEF CaptureInit, DriverOK
<1>4. ThreadInv /\ BufferInv
  BY DEF CaptureInit, ThreadInv, BufferInv, HeldIsStable, NoBufferLost, NothingLeftBehind
<1> QED
  BY <1>1, <1>2, <1>3, <1>4, <1>5 DEF CaptureInv, CaptureTypeOK

LEMMA CameraMainKeeps ==
    ASSUME CaptureInv, CMainStep PROVE CaptureInv'
<1> USE DEF CaptureInv, CaptureTypeOK
<1>1. CASE ScanNode
  <2>1. PlacesInCode'
    BY <1>1 DEF PlacesInCode, ScanNode, contextVars, driverVars
  <2>2. ContextOK'
    BY <1>1, CaptureAssumption
    DEF PlacesInCode, ContextOK, ScanNode, contextVars, driverVars
  <2>3. DriverOK'
    BY <1>1 DEF ContextOK, DriverOK, Places, ScanNode, contextVars, driverVars
  <2>4. ScanInv'
    BY <1>1, CaptureAssumption DEF PlacesInCode, ScanInv, ScanNode, contextVars, driverVars
  <2>5. ThreadInv'
    BY <1>1
    DEF PlacesInCode, ThreadInv, BufferInv, NothingLeftBehind, ScanNode, contextVars,
        driverVars
  <2>6. BufferInv'
    BY <1>1 DEF PlacesInCode, ContextOK, DriverOK, ThreadInv, BufferInv, HeldIsStable,
       NoBufferLost, Buffers, ScanNode, contextVars, driverVars
  <2> QED
    BY <2>1, <2>2, <2>3, <2>4, <2>5, <2>6
<1>2. CASE ScanEnds
  <2>1. PlacesInCode'
    BY <1>2 DEF PlacesInCode, ScanEnds, CMainGoes, scanVars, contextVars, driverVars
  <2>2. ContextOK'
    BY <1>2, CaptureAssumption
    DEF PlacesInCode, ContextOK, ScanEnds, CMainGoes, scanVars, contextVars, driverVars
  <2>3. DriverOK'
    BY <1>2
    DEF ContextOK, DriverOK, Places, ScanEnds, CMainGoes, scanVars, contextVars,
        driverVars
  <2>4. ScanInv'
    BY <1>2, CaptureAssumption
    DEF PlacesInCode, ScanInv, ScanEnds, CMainGoes, scanVars, contextVars, driverVars
  <2>5. ThreadInv'
    BY <1>2
    DEF PlacesInCode, ThreadInv, BufferInv, NothingLeftBehind, ScanEnds, CMainGoes,
        scanVars, contextVars, driverVars
  <2>6. BufferInv'
    BY <1>2 DEF PlacesInCode, ContextOK, DriverOK, ThreadInv, BufferInv, HeldIsStable,
       NoBufferLost, Buffers, ScanEnds, CMainGoes, scanVars, contextVars, driverVars
  <2> QED
    BY <2>1, <2>2, <2>3, <2>4, <2>5, <2>6
<1>3. CASE CaptureManagerInit
  <2>1. PlacesInCode'
    BY <1>3 DEF PlacesInCode, CaptureManagerInit, CMainGoes, scanVars, driverVars
  <2>2. ContextOK'
    BY <1>3, CaptureAssumption
    DEF PlacesInCode, ContextOK, CaptureManagerInit, CMainGoes, scanVars, driverVars
  <2>3. DriverOK'
    BY <1>3
    DEF ContextOK, DriverOK, Places, CaptureManagerInit, CMainGoes, scanVars, driverVars
  <2>4. ScanInv'
    BY <1>3 DEF PlacesInCode, ScanInv, CaptureManagerInit, CMainGoes, scanVars, driverVars
  <2>5. ThreadInv'
    BY <1>3
    DEF PlacesInCode, ThreadInv, BufferInv, NothingLeftBehind, CaptureManagerInit,
        CMainGoes, scanVars, driverVars
  <2>6. BufferInv'
    BY <1>3 DEF PlacesInCode, ContextOK, DriverOK, ThreadInv, BufferInv, HeldIsStable,
       NoBufferLost, Buffers, CaptureManagerInit, CMainGoes, scanVars, driverVars
  <2> QED
    BY <2>1, <2>2, <2>3, <2>4, <2>5, <2>6
<1>4. CASE OpenFailsEarly
  <2>1. PlacesInCode'
    BY <1>4 DEF PlacesInCode, OpenFailsEarly, CMainGoes, scanVars, driverVars
  <2>2. ContextOK'
    BY <1>4, CaptureAssumption
    DEF PlacesInCode, ContextOK, OpenFailsEarly, CMainGoes, scanVars, driverVars
  <2>3. DriverOK'
    BY <1>4 DEF ContextOK, DriverOK, Places, OpenFailsEarly, CMainGoes, scanVars, driverVars
  <2>4. ScanInv'
    BY <1>4 DEF PlacesInCode, ScanInv, OpenFailsEarly, CMainGoes, scanVars, driverVars
  <2>5. ThreadInv'
    BY <1>4
    DEF PlacesInCode, ThreadInv, BufferInv, NothingLeftBehind, OpenFailsEarly, CMainGoes,
        scanVars, driverVars
  <2>6. BufferInv'
    BY <1>4 DEF PlacesInCode, ContextOK, DriverOK, ThreadInv, BufferInv, HeldIsStable,
       NoBufferLost, Buffers, OpenFailsEarly, CMainGoes, scanVars, driverVars
  <2> QED
    BY <2>1, <2>2, <2>3, <2>4, <2>5, <2>6
<1>5. ASSUME NEW granted \in BufferRequest..BufferLimit, Open(granted) PROVE CaptureInv'
  <2>0. granted \in 0..BufferLimit /\ 1..granted \subseteq Buffers
    BY CaptureAssumption, BuffersAreCounted
  <2>1. PlacesInCode'
    BY <1>5 DEF PlacesInCode, Open, CMainGoes, scanVars
  <2>2. ContextOK'
    BY <1>5, <2>0, CaptureAssumption DEF PlacesInCode, ContextOK, Open, CMainGoes, scanVars
  <2>3. DriverOK'
    BY <1>5, <2>0 DEF ContextOK, DriverOK, Places, Open, CMainGoes, scanVars
  <2>4. ScanInv'
    BY <1>5 DEF PlacesInCode, ScanInv, Open, CMainGoes, scanVars
  <2>5. ThreadInv'
    BY <1>5
    DEF PlacesInCode, ThreadInv, BufferInv, NothingLeftBehind, Open, CMainGoes, scanVars
  <2>6. BufferInv'
    BY <1>5, <2>0 DEF PlacesInCode, ContextOK, DriverOK, ThreadInv, BufferInv, HeldIsStable,
       NoBufferLost, Buffers, Open, CMainGoes, scanVars
  <2> QED
    BY <2>1, <2>2, <2>3, <2>4, <2>5, <2>6
<1>6. ASSUME NEW granted \in BufferRequest..BufferLimit, NEW i \in 1..granted,
             OpenFailsAt(granted, i)
      PROVE  CaptureInv'
  <2>0. granted \in 0..BufferLimit /\ 1..granted \subseteq Buffers
    BY CaptureAssumption, BuffersAreCounted
  <2>1. PlacesInCode'
    BY <1>6 DEF PlacesInCode, OpenFailsAt, CMainGoes, CountWhenMapping, scanVars
  <2>2. ContextOK'
    BY <1>6, <2>0, CaptureAssumption
    DEF PlacesInCode, ContextOK, OpenFailsAt, CMainGoes, CountWhenMapping, scanVars,
        Buffers
  <2>3. DriverOK'
    BY <1>6, <2>0
    DEF ContextOK, DriverOK, Places, OpenFailsAt, CMainGoes, CountWhenMapping, scanVars
  <2>4. ScanInv'
    BY <1>6 DEF PlacesInCode, ScanInv, OpenFailsAt, CMainGoes, CountWhenMapping, scanVars
  <2>5. ThreadInv'
    BY <1>6
    DEF PlacesInCode, ThreadInv, BufferInv, NothingLeftBehind, OpenFailsAt, CMainGoes,
        CountWhenMapping, scanVars
  <2>6. BufferInv'
    BY <1>6, <2>0 DEF PlacesInCode, ContextOK, DriverOK, ThreadInv, BufferInv, HeldIsStable,
       NoBufferLost, Buffers, OpenFailsAt, CMainGoes, CountWhenMapping, scanVars
  <2> QED
    BY <2>1, <2>2, <2>3, <2>4, <2>5, <2>6
<1>7. CASE Start
  <2>1. PlacesInCode'
    BY <1>7 DEF PlacesInCode, Start, CMainGoes, scanVars
  <2>2. ContextOK'
    <3>1. UNCHANGED <<cpriv, cfd, mapped, bufferCount, held>>
      BY <1>7 DEF Start
    <3>2. frameIndex' \in {frameIndex, 0}
      BY <1>7 DEF Start
    <3>3. streaming' \in BOOLEAN
      BY <1>7, Zenon DEF Start, ContextOK
    <3> QED
      BY <3>1, <3>2, <3>3 DEF ContextOK
  <2>3. DriverOK'
    BY <1>7 DEF ContextOK, DriverOK, Places, Start, CMainGoes, scanVars
  <2>4. ScanInv'
    BY <1>7 DEF PlacesInCode, ScanInv, Start, CMainGoes, scanVars
  <2>5. ThreadInv'
    BY <1>7
    DEF PlacesInCode, ThreadInv, BufferInv, NothingLeftBehind, Start, CMainGoes, scanVars
  <2>6. BufferInv'
    BY <1>7 DEF PlacesInCode, ContextOK, DriverOK, ThreadInv, BufferInv, HeldIsStable,
       NoBufferLost, Buffers, Start, CMainGoes, scanVars
  <2> QED
    BY <2>1, <2>2, <2>3, <2>4, <2>5, <2>6
<1>8. CASE CreateThread
  <2>1. PlacesInCode'
    BY <1>8 DEF PlacesInCode, CreateThread, CMainGoes, scanVars, contextVars, driverVars
  <2>2. ContextOK'
    BY <1>8, CaptureAssumption
    DEF PlacesInCode, ContextOK, CreateThread, CMainGoes, scanVars, contextVars,
        driverVars
  <2>3. DriverOK'
    BY <1>8
    DEF ContextOK, DriverOK, Places, CreateThread, CMainGoes, scanVars, contextVars,
        driverVars
  <2>4. ScanInv'
    BY <1>8
    DEF PlacesInCode, ScanInv, CreateThread, CMainGoes, scanVars, contextVars, driverVars
  <2>5. ThreadInv'
    BY <1>8
    DEF PlacesInCode, ThreadInv, BufferInv, NothingLeftBehind, CreateThread, CMainGoes,
        scanVars, contextVars, driverVars
  <2>6. BufferInv'
    BY <1>8 DEF PlacesInCode, ContextOK, DriverOK, ThreadInv, BufferInv, HeldIsStable,
       NoBufferLost, Buffers, CreateThread, CMainGoes, scanVars, contextVars, driverVars
  <2> QED
    BY <2>1, <2>2, <2>3, <2>4, <2>5, <2>6
<1>9. CASE CaptureStopDriver
  <2>1. PlacesInCode'
    BY <1>9 DEF PlacesInCode, CaptureStopDriver, StreamOff, scanVars, contextVars
  <2>2. ContextOK'
    BY <1>9, CaptureAssumption
    DEF PlacesInCode, ContextOK, CaptureStopDriver, StreamOff, scanVars, contextVars
  <2>3. DriverOK'
    BY <1>9
    DEF ContextOK, DriverOK, Places, CaptureStopDriver, StreamOff, scanVars, contextVars
  <2>4. ScanInv'
    BY <1>9 DEF PlacesInCode, ScanInv, CaptureStopDriver, StreamOff, scanVars, contextVars
  <2>5. ThreadInv'
    BY <1>9
    DEF PlacesInCode, ThreadInv, BufferInv, NothingLeftBehind, CaptureStopDriver,
        StreamOff, scanVars, contextVars
  <2>6. BufferInv'
    <3>1. UNCHANGED <<mapped, bufferCount, cthread, held, image, delivered>>
          /\ cmain' = "flag"
      BY <1>9 DEF CaptureStopDriver, StreamOff, contextVars
    <3>2. CASE driverOn' = FALSE /\ place' = [b \in Buffers |-> "user"]
      <4>1. HeldIsStable'
        BY <3>1, <3>2 DEF BufferInv, HeldIsStable, ContextOK, Buffers
      <4> QED
        BY <3>1, <3>2, <4>1 DEF BufferInv, NoBufferLost
    <3>3. CASE UNCHANGED <<place, driverOn>>
      BY <3>1, <3>3 DEF BufferInv, HeldIsStable, NoBufferLost
    <3> QED
      BY <1>9, <3>2, <3>3 DEF CaptureStopDriver, StreamOff
  <2> QED
    BY <2>1, <2>2, <2>3, <2>4, <2>5, <2>6
<1>10. CASE CaptureStopFlag
  <2>1. PlacesInCode'
    BY <1>10 DEF PlacesInCode, CaptureStopFlag, CMainGoes, scanVars, driverVars
  <2>2. ContextOK'
    BY <1>10, CaptureAssumption
    DEF PlacesInCode, ContextOK, CaptureStopFlag, CMainGoes, scanVars, driverVars
  <2>3. DriverOK'
    BY <1>10
    DEF ContextOK, DriverOK, Places, CaptureStopFlag, CMainGoes, scanVars, driverVars
  <2>4. ScanInv'
    BY <1>10 DEF PlacesInCode, ScanInv, CaptureStopFlag, CMainGoes, scanVars, driverVars
  <2>5. ThreadInv'
    BY <1>10
    DEF PlacesInCode, ThreadInv, BufferInv, NothingLeftBehind, CaptureStopFlag, CMainGoes,
        scanVars, driverVars
  <2>6. BufferInv'
    BY <1>10 DEF PlacesInCode, ContextOK, DriverOK, ThreadInv, BufferInv, HeldIsStable,
       NoBufferLost, Buffers, CaptureStopFlag, CMainGoes, scanVars, driverVars
  <2> QED
    BY <2>1, <2>2, <2>3, <2>4, <2>5, <2>6
<1>11. CASE Join
  <2>1. PlacesInCode'
    BY <1>11 DEF PlacesInCode, Join, CMainGoes, scanVars, contextVars, driverVars
  <2>2. ContextOK'
    BY <1>11, CaptureAssumption
    DEF PlacesInCode, ContextOK, Join, CMainGoes, scanVars, contextVars, driverVars
  <2>3. DriverOK'
    BY <1>11
    DEF ContextOK, DriverOK, Places, Join, CMainGoes, scanVars, contextVars, driverVars
  <2>4. ScanInv'
    BY <1>11 DEF PlacesInCode, ScanInv, Join, CMainGoes, scanVars, contextVars, driverVars
  <2>5. ThreadInv'
    BY <1>11
    DEF PlacesInCode, ThreadInv, BufferInv, NothingLeftBehind, Join, CMainGoes, scanVars,
        contextVars, driverVars
  <2>6. BufferInv'
    BY <1>11 DEF PlacesInCode, ContextOK, DriverOK, ThreadInv, BufferInv, HeldIsStable,
       NoBufferLost, Buffers, Join, CMainGoes, scanVars, contextVars, driverVars
  <2> QED
    BY <2>1, <2>2, <2>3, <2>4, <2>5, <2>6
<1>12. CASE CleanupStop
  <2>1. PlacesInCode'
    BY <1>12 DEF PlacesInCode, CleanupStop, StreamOff, scanVars
  <2>2. ContextOK'
    BY <1>12, CaptureAssumption
    DEF PlacesInCode, ContextOK, CleanupStop, StreamOff, scanVars
  <2>3. DriverOK'
    BY <1>12 DEF ContextOK, DriverOK, Places, CleanupStop, StreamOff, scanVars
  <2>4. ScanInv'
    BY <1>12 DEF PlacesInCode, ScanInv, CleanupStop, StreamOff, scanVars
  <2>5. ThreadInv'
    BY <1>12
    DEF PlacesInCode, ThreadInv, BufferInv, NothingLeftBehind, CleanupStop, StreamOff,
        scanVars
  <2>6. BufferInv'
    BY <1>12 DEF PlacesInCode, ContextOK, DriverOK, ThreadInv, BufferInv, HeldIsStable,
       NoBufferLost, Buffers, CleanupStop, StreamOff, scanVars
  <2> QED
    BY <2>1, <2>2, <2>3, <2>4, <2>5, <2>6
<1>13. CASE CaptureDeinit
  <2>1. PlacesInCode'
    BY <1>13 DEF PlacesInCode, CaptureDeinit, CMainGoes, scanVars
  <2>2. ContextOK'
    BY <1>13, CaptureAssumption
    DEF PlacesInCode, ContextOK, CaptureDeinit, CMainGoes, scanVars
  <2>3. DriverOK'
    BY <1>13 DEF ContextOK, DriverOK, Places, CaptureDeinit, CMainGoes, scanVars
  <2>4. ScanInv'
    BY <1>13 DEF PlacesInCode, ScanInv, CaptureDeinit, CMainGoes, scanVars
  <2>5. ThreadInv'
    <3>1. \A b \in mapped : ~(b > bufferCount)
      BY DEF BufferInv, ContextOK, Buffers
    <3>2. mapped' = {}
      BY <1>13, <3>1 DEF CaptureDeinit
    <3> QED
      BY <1>13, <3>2 DEF ThreadInv, NothingLeftBehind, CaptureDeinit, CMainGoes
  <2>6. BufferInv'
    BY <1>13 DEF PlacesInCode, ContextOK, DriverOK, ThreadInv, BufferInv, HeldIsStable,
       NoBufferLost, Buffers, CaptureDeinit, CMainGoes, scanVars
  <2> QED
    BY <2>1, <2>2, <2>3, <2>4, <2>5, <2>6
<1> QED
  BY <1>1, <1>2, <1>3, <1>4, <1>5, <1>6, <1>7, <1>8, <1>9, <1>10, <1>11, <1>12, <1>13
  DEF CMainStep

LEMMA CameraThreadKeeps ==
    ASSUME CaptureInv, CaptureThreadStep PROVE CaptureInv'
<1> USE DEF CaptureInv, CaptureTypeOK
<1>1. CASE GetFrame
  <2>1. PlacesInCode'
    BY <1>1 DEF PlacesInCode, GetFrame, scanVars, contextVars, driverVars
  <2>2. ContextOK'
    BY <1>1, CaptureAssumption
    DEF PlacesInCode, ContextOK, GetFrame, scanVars, contextVars, driverVars
  <2>3. DriverOK'
    BY <1>1 DEF ContextOK, DriverOK, Places, GetFrame, scanVars, contextVars, driverVars
  <2>4. ScanInv'
    BY <1>1 DEF PlacesInCode, ScanInv, GetFrame, scanVars, contextVars, driverVars
  <2>5. ThreadInv'
    BY <1>1
    DEF PlacesInCode, ThreadInv, BufferInv, NothingLeftBehind, GetFrame, scanVars,
        contextVars, driverVars
  <2>6. BufferInv'
    BY <1>1 DEF PlacesInCode, ContextOK, DriverOK, ThreadInv, BufferInv, HeldIsStable,
       NoBufferLost, Buffers, GetFrame, scanVars, contextVars, driverVars
  <2> QED
    BY <2>1, <2>2, <2>3, <2>4, <2>5, <2>6
<1>2. ASSUME NEW b \in Buffers, Dequeue(b) PROVE CaptureInv'
  <2>1. PlacesInCode'
    BY <1>2 DEF PlacesInCode, Dequeue, CThreadGoes, AfterDequeue, FrameIn, Oldest, scanVars
  <2>2. ContextOK'
    BY <1>2, CaptureAssumption
    DEF PlacesInCode, ContextOK, Dequeue, CThreadGoes, AfterDequeue, FrameIn, Oldest,
        scanVars, Buffers
  <2>3. DriverOK'
    BY <1>2
    DEF ContextOK, DriverOK, Places, Dequeue, CThreadGoes, AfterDequeue, FrameIn, Oldest,
        scanVars
  <2>4. ScanInv'
    BY <1>2
    DEF PlacesInCode, ScanInv, Dequeue, CThreadGoes, AfterDequeue, FrameIn, Oldest,
        scanVars
  <2>5. ThreadInv'
    BY <1>2
    DEF PlacesInCode, ThreadInv, BufferInv, NothingLeftBehind, Dequeue, CThreadGoes,
        AfterDequeue, FrameIn, Oldest, scanVars, Buffers
  <2>6. BufferInv'
    BY <1>2 DEF PlacesInCode, ContextOK, DriverOK, ThreadInv, BufferInv, HeldIsStable,
       NoBufferLost, Buffers, Dequeue, CThreadGoes, AfterDequeue, FrameIn, Oldest, scanVars
  <2> QED
    BY <2>1, <2>2, <2>3, <2>4, <2>5, <2>6
<1>3. CASE DequeueEnds
  <2>1. PlacesInCode'
    BY <1>3 DEF PlacesInCode, DequeueEnds, CThreadGoes, scanVars, contextVars, driverVars
  <2>2. ContextOK'
    BY <1>3, CaptureAssumption
    DEF PlacesInCode, ContextOK, DequeueEnds, CThreadGoes, scanVars, contextVars,
        driverVars
  <2>3. DriverOK'
    BY <1>3
    DEF ContextOK, DriverOK, Places, DequeueEnds, CThreadGoes, scanVars, contextVars,
        driverVars
  <2>4. ScanInv'
    BY <1>3
    DEF PlacesInCode, ScanInv, DequeueEnds, CThreadGoes, scanVars, contextVars, driverVars
  <2>5. ThreadInv'
    BY <1>3
    DEF PlacesInCode, ThreadInv, BufferInv, NothingLeftBehind, DequeueEnds, CThreadGoes,
        scanVars, contextVars, driverVars
  <2>6. BufferInv'
    BY <1>3 DEF PlacesInCode, ContextOK, DriverOK, ThreadInv, BufferInv, HeldIsStable,
       NoBufferLost, Buffers, DequeueEnds, CThreadGoes, scanVars, contextVars, driverVars
  <2> QED
    BY <2>1, <2>2, <2>3, <2>4, <2>5, <2>6
<1>4. CASE Push
  <2>1. PlacesInCode'
    BY <1>4 DEF PlacesInCode, Push, CThreadGoes, scanVars, contextVars, driverVars
  <2>2. ContextOK'
    BY <1>4, CaptureAssumption
    DEF PlacesInCode, ContextOK, Push, CThreadGoes, scanVars, contextVars, driverVars
  <2>3. DriverOK'
    BY <1>4
    DEF ContextOK, DriverOK, Places, Push, CThreadGoes, scanVars, contextVars, driverVars
  <2>4. ScanInv'
    BY <1>4 DEF PlacesInCode, ScanInv, Push, CThreadGoes, scanVars, contextVars, driverVars
  <2>5. ThreadInv'
    BY <1>4
    DEF PlacesInCode, ThreadInv, BufferInv, NothingLeftBehind, Push, CThreadGoes, scanVars,
        contextVars, driverVars
  <2>6. BufferInv'
    BY <1>4 DEF PlacesInCode, ContextOK, DriverOK, ThreadInv, BufferInv, HeldIsStable,
       NoBufferLost, Buffers, Push, CThreadGoes, scanVars, contextVars, driverVars
  <2> QED
    BY <2>1, <2>2, <2>3, <2>4, <2>5, <2>6
<1>5. CASE Release
  <2>1. PlacesInCode'
    BY <1>5 DEF PlacesInCode, Release, IsBufferOf, scanVars, contextVars
  <2>2. ContextOK'
    BY <1>5, CaptureAssumption
    DEF PlacesInCode, ContextOK, Release, IsBufferOf, scanVars, contextVars
  <2>3. DriverOK'
    BY <1>5 DEF ContextOK, DriverOK, Places, Release, IsBufferOf, scanVars, contextVars
  <2>4. ScanInv'
    BY <1>5 DEF PlacesInCode, ScanInv, Release, IsBufferOf, scanVars, contextVars
  <2>5. ThreadInv'
    BY <1>5
    DEF PlacesInCode, ThreadInv, BufferInv, NothingLeftBehind, Release, IsBufferOf,
        scanVars, contextVars
  <2>6. BufferInv'
    <3>1. /\ cthread = "release" /\ held # 0 /\ held' = 0
          /\ UNCHANGED <<cmain, mapped, bufferCount, driverOn, image, delivered>>
      BY <1>5 DEF ThreadInv, Release, contextVars
    <3>2. held \in mapped /\ held \in Buffers /\ held \in 1..bufferCount
      BY <3>1 DEF BufferInv, HeldIsStable, ContextOK, Buffers
    <3>3. cmain \notin {"start", "create"}
      BY <3>1 DEF ThreadInv
    <3>4. HeldIsStable'
      BY <3>1 DEF HeldIsStable
    <3>5. CASE /\ place' = [b \in Buffers |-> IF IsBufferOf(b) THEN "queued" ELSE place[b]]
               /\ cthread' \in {"done", "loop"}
      <4>1. place' = [b \in Buffers |-> IF b = held THEN "queued" ELSE place[b]]
        BY <3>2, <3>5 DEF IsBufferOf
      <4>2. \A b \in Buffers : place'[b] = IF b = held THEN "queued" ELSE place[b]
        BY <4>1
      <4>3. \A b \in Buffers : place'[b] # "user" => b \in mapped'
        BY <3>1, <3>2, <4>2 DEF BufferInv
      <4>4. 1..bufferCount \subseteq Buffers
        BY BuffersAreCounted DEF ContextOK
      <4>5. NoBufferLost'
        BY <3>1, <3>2, <4>2, <4>4 DEF BufferInv, NoBufferLost
      <4> QED
        BY <3>1, <3>3, <3>4, <4>3, <4>5 DEF BufferInv
    <3>6. CASE UNCHANGED place /\ cthread' = "done"
      BY <3>1, <3>3, <3>4, <3>6 DEF BufferInv, NoBufferLost
    <3> QED
      BY <1>5, <3>5, <3>6 DEF Release
  <2> QED
    BY <2>1, <2>2, <2>3, <2>4, <2>5, <2>6
<1> QED
  BY <1>1, <1>2, <1>3, <1>4, <1>5 DEF CaptureThreadStep

LEMMA OthersKeep ==
    ASSUME CaptureInv, StopFlag \/ DequeueFails \/ CameraFrame \/ OtherThreadStops PROVE CaptureInv'
<1> USE DEF CaptureInv, CaptureTypeOK
<1>1. CASE StopFlag
  <2>1. PlacesInCode'
    BY <1>1 DEF PlacesInCode, StopFlag, CMainGoes, scanVars, contextVars, driverVars
  <2>2. ContextOK'
    BY <1>1, CaptureAssumption
    DEF PlacesInCode, ContextOK, StopFlag, CMainGoes, scanVars, contextVars, driverVars
  <2>3. DriverOK'
    BY <1>1
    DEF ContextOK, DriverOK, Places, StopFlag, CMainGoes, scanVars, contextVars,
        driverVars
  <2>4. ScanInv'
    BY <1>1
    DEF PlacesInCode, ScanInv, StopFlag, CMainGoes, scanVars, contextVars, driverVars
  <2>5. ThreadInv'
    BY <1>1
    DEF PlacesInCode, ThreadInv, BufferInv, NothingLeftBehind, StopFlag, CMainGoes,
        scanVars, contextVars, driverVars
  <2>6. BufferInv'
    BY <1>1 DEF PlacesInCode, ContextOK, DriverOK, ThreadInv, BufferInv, HeldIsStable,
       NoBufferLost, Buffers, StopFlag, CMainGoes, scanVars, contextVars, driverVars
  <2> QED
    BY <2>1, <2>2, <2>3, <2>4, <2>5, <2>6
<1>2. CASE DequeueFails
  <2>1. PlacesInCode'
    BY <1>2 DEF PlacesInCode, DequeueFails, CThreadGoes, scanVars, contextVars, driverVars
  <2>2. ContextOK'
    BY <1>2, CaptureAssumption
    DEF PlacesInCode, ContextOK, DequeueFails, CThreadGoes, scanVars, contextVars,
        driverVars
  <2>3. DriverOK'
    BY <1>2
    DEF ContextOK, DriverOK, Places, DequeueFails, CThreadGoes, scanVars, contextVars,
        driverVars
  <2>4. ScanInv'
    BY <1>2
    DEF PlacesInCode, ScanInv, DequeueFails, CThreadGoes, scanVars, contextVars,
        driverVars
  <2>5. ThreadInv'
    BY <1>2
    DEF PlacesInCode, ThreadInv, BufferInv, NothingLeftBehind, DequeueFails, CThreadGoes,
        scanVars, contextVars, driverVars
  <2>6. BufferInv'
    BY <1>2 DEF PlacesInCode, ContextOK, DriverOK, ThreadInv, BufferInv, HeldIsStable,
       NoBufferLost, Buffers, DequeueFails, CThreadGoes, scanVars, contextVars, driverVars
  <2> QED
    BY <2>1, <2>2, <2>3, <2>4, <2>5, <2>6
<1>3. CASE CameraFrame
  <2>1. PlacesInCode'
    BY <1>3 DEF PlacesInCode, CameraFrame, scanVars, contextVars
  <2>2. ContextOK'
    BY <1>3, CaptureAssumption
    DEF PlacesInCode, ContextOK, CameraFrame, scanVars, contextVars
  <2>3. DriverOK'
    <3>1. clock + 1 \in Nat /\ "filled" \in Places
      BY DEF DriverOK, Places
    <3>2. place' \in [Buffers -> Places] /\ image' \in [Buffers -> Nat]
      BY <1>3, <3>1 DEF DriverOK, CameraFrame
    <3> QED
      BY <1>3, <3>1, <3>2 DEF DriverOK, CameraFrame
  <2>4. ScanInv'
    BY <1>3 DEF PlacesInCode, ScanInv, CameraFrame, scanVars, contextVars
  <2>5. ThreadInv'
    BY <1>3
    DEF PlacesInCode, ThreadInv, BufferInv, NothingLeftBehind, CameraFrame, scanVars,
        contextVars
  <2>6. BufferInv'
    <3>1. UNCHANGED <<mapped, bufferCount, cmain, cthread, held, delivered, driverOn>>
      BY <1>3 DEF CameraFrame, contextVars
    <3>2. ASSUME NEW b \in Buffers, place[b] = "queued",
                 place' = [place EXCEPT ![b] = "filled"],
                 image' = [image EXCEPT ![b] = clock + 1]
          PROVE  BufferInv'
      <4>1. \A c \in Buffers : place'[c] = IF c = b THEN "filled" ELSE place[c]
        BY <3>2 DEF DriverOK
      <4>2. \A c \in Buffers : c # b => image'[c] = image[c]
        BY <3>2 DEF DriverOK
      <4>3. \A c \in Buffers : place'[c] = "user" <=> place[c] = "user"
        BY <3>2, <4>1
      <4>4. 1..bufferCount \subseteq Buffers
        BY BuffersAreCounted DEF ContextOK
      <4>5. HeldIsStable'
        <5>1. held # 0 => held \in Buffers /\ held # b
          BY <3>2 DEF BufferInv, HeldIsStable, ContextOK
        <5> QED
          BY <3>1, <4>1, <4>2, <5>1 DEF BufferInv, HeldIsStable
      <4>6. NoBufferLost'
        BY <3>1, <4>3, <4>4 DEF BufferInv, NoBufferLost
      <4> QED
        BY <3>1, <4>3, <4>4, <4>5, <4>6 DEF BufferInv
    <3>3. CASE UNCHANGED <<place, image>>
      BY <3>1, <3>3 DEF BufferInv, HeldIsStable, NoBufferLost
    <3> QED
      BY <1>3, <3>2, <3>3 DEF CameraFrame
  <2> QED
    BY <2>1, <2>2, <2>3, <2>4, <2>5, <2>6
<1>4. CASE OtherThreadStops
  <2>1. PlacesInCode'
    BY <1>4 DEF PlacesInCode, OtherThreadStops, scanVars, contextVars, driverVars
  <2>2. ContextOK'
    BY <1>4, CaptureAssumption
    DEF PlacesInCode, ContextOK, OtherThreadStops, scanVars, contextVars, driverVars
  <2>3. DriverOK'
    BY <1>4
    DEF ContextOK, DriverOK, Places, OtherThreadStops, scanVars, contextVars, driverVars
  <2>4. ScanInv'
    BY <1>4 DEF PlacesInCode, ScanInv, OtherThreadStops, scanVars, contextVars, driverVars
  <2>5. ThreadInv'
    BY <1>4
    DEF PlacesInCode, ThreadInv, BufferInv, NothingLeftBehind, OtherThreadStops, scanVars,
        contextVars, driverVars
  <2>6. BufferInv'
    BY <1>4 DEF PlacesInCode, ContextOK, DriverOK, ThreadInv, BufferInv, HeldIsStable,
       NoBufferLost, Buffers, OtherThreadStops, scanVars, contextVars, driverVars
  <2> QED
    BY <2>1, <2>2, <2>3, <2>4, <2>5, <2>6
<1> QED
  BY <1>1, <1>2, <1>3, <1>4

LEMMA CaptureInvStep == CaptureInv /\ [CaptureNext]_captureVars => CaptureInv'
<1> SUFFICES ASSUME CaptureInv, [CaptureNext]_captureVars PROVE CaptureInv'
  OBVIOUS
<1>1. CASE CaptureNext
  BY <1>1, CameraMainKeeps, CameraThreadKeeps, OthersKeep DEF CaptureNext
<1>2. CASE UNCHANGED captureVars
  <2>1. PlacesInCode' /\ ScanInv' /\ ThreadInv'
    BY <1>2 DEF captureVars, scanVars, contextVars, driverVars, CaptureInv, CaptureTypeOK,
       PlacesInCode, ScanInv, ThreadInv, NothingLeftBehind
  <2>2. ContextOK' /\ DriverOK'
    BY <1>2 DEF captureVars, contextVars, driverVars, CaptureInv, CaptureTypeOK, ContextOK,
       DriverOK
  <2>3. BufferInv'
    BY <1>2 DEF captureVars, contextVars, driverVars, CaptureInv, BufferInv, HeldIsStable,
       NoBufferLost
  <2> QED
    BY <2>1, <2>2, <2>3 DEF CaptureInv, CaptureTypeOK
<1> QED
  BY <1>1, <1>2

\* Type correctness of the camera and the two threads that drive it.
THEOREM CaptureTypeCorrect == CaptureSpec => []CaptureTypeOK
<1>1. CaptureInv => CaptureTypeOK
  BY DEF CaptureInv
<1> QED
  BY <1>1, CaptureInvInit, CaptureInvStep, PTL DEF CaptureSpec

\* Every buffer has one owner: the frame in the thread's hands is not written
\* or unmapped, and none is forgotten.
THEOREM BuffersAlwaysAccountedFor == CaptureSpec => []BuffersAccountedFor
<1>1. CaptureInv => BuffersAccountedFor
  BY DEF CaptureInv, BufferInv, BuffersAccountedFor
<1> QED
  BY <1>1, CaptureInvInit, CaptureInvStep, PTL DEF CaptureSpec

\* Whichever call failed, nothing of the camera is left at the end.
THEOREM NothingEverLeftBehind == CaptureSpec => []NothingLeftBehind
<1>1. CaptureInv => NothingLeftBehind
  BY DEF CaptureInv, ThreadInv
<1> QED
  BY <1>1, CaptureInvInit, CaptureInvStep, PTL DEF CaptureSpec

\* The scan chooses the first node that can capture and stream, in any list of
\* nodes.
THEOREM ScanFindsFirst == CaptureSpec => []FirstCamera
<1>1. CaptureInv => FirstCamera
  <2> SUFFICES ASSUME ScanInv, PlacesInCode PROVE FirstCamera
    BY DEF CaptureInv, CaptureTypeOK
  <2> DEFINE Capable(n) == /\ nodes[n].opens /\ nodes[n].answers
                           /\ {"capture", "streaming"} \subseteq
                                 (IF nodes[n].all \cap {"device_caps"} = {}
                                  THEN nodes[n].all ELSE nodes[n].own)
  <2>1. ASSUME NEW n PROVE Capable(n) <=> IsCamera(nodes[n])
    <3>1. nodes[n].all \cap {"device_caps"} = {} <=> "device_caps" \notin nodes[n].all
      OBVIOUS
    <3>2. CASE "device_caps" \in nodes[n].all
      BY <3>1, <3>2 DEF IsCamera, CapsOf
    <3>3. CASE "device_caps" \notin nodes[n].all
      BY <3>1, <3>3 DEF IsCamera, CapsOf
    <3> QED
      BY <3>2, <3>3
  <2> HIDE DEF Capable
  <2>2. cmain # "scan" =>
            IF camera = 0 THEN \A n \in 1..Len(nodes) : ~Capable(n)
            ELSE Capable(camera) /\ \A n \in 1..(camera - 1) : ~Capable(n)
    BY <2>1 DEF ScanInv
  <2> QED
    BY <2>2 DEF FirstCamera, Capable
<1> QED
  BY <1>1, CaptureInvInit, CaptureInvStep, PTL DEF CaptureSpec

=============================================================================
