------------------------------ MODULE Snapshot ------------------------------
(***************************************************************************)
(* sink/snapshot_jpeg_sink.c: every interval_frames frames the process     *)
(* thread writes one as a JPEG file that another program reads, and the    *)
(* recorder may be killed at any step and started again.                   *)
(*                                                                         *)
(* External: the file system, where a name leads to a file and an open     *)
(* file outlives its name, and the reader, which opens the snapshot        *)
(* whenever it likes and reads it in two parts.  A file is the number of   *)
(* the frame in it and how much of it is there, 0, 1 or 2 parts.  libav    *)
(* encodes a frame or fails; what a killed process wrote is not lost.      *)
(***************************************************************************)
EXTENDS Naturals, Sequences

CONSTANTS Interval,      \* interval_frames
          FrameLimit     \* bound: frames the sink is given in all runs

ASSUME SnapshotAssumption ==
    /\ Interval \in Nat \ {0}
    /\ FrameLimit \in Nat

VARIABLES
    spc,              \* where the process thread is in the sink
    frameCount,       \* ctx->frame_count
    offered,          \* history: frames the sink was given in all runs
    snapshotNames,    \* output_path and tmp_path: the file each name leads to, or 0
    files,            \* all the files there ever were
    writing,          \* the file fp is open on, or 0
    stale,            \* history: a kill left tmp_path behind
    rpc, reading,     \* the reader and the file it has open
    got               \* the frame of each part it has read

fileVars == <<snapshotNames, files, writing>>
readerVars == <<rpc, reading, got>>
snapshotVars == <<spc, frameCount, offered, fileVars, stale, readerVars>>

Whole == 2
NewFile(n) == [frame |-> n, parts |-> 0]

SnapshotInit ==
    /\ spc = "down"
    /\ frameCount = 0
    /\ offered = 0
    /\ snapshotNames = [output |-> 0, tmp |-> 0]
    /\ files = <<>>
    /\ writing = 0
    /\ stale = FALSE
    /\ rpc = "rest"
    /\ reading = 0
    /\ got = <<>>

SinkGoes(from, to) == spc = from /\ spc' = to

-----------------------------------------------------------------------------
(* The sink.                                                               *)

\* snapshot_jpeg_init: the recorder goes on without snapshots when a path is
\* too long, memory is short or the directory cannot be made.
SinkStarts ==
    /\ \/ SinkGoes("down", "ready")
       \/ SinkGoes("down", "off")
    /\ frameCount' = 0
    /\ UNCHANGED <<offered, fileVars, stale, readerVars>>

\* snapshot_jpeg_write up to the encoder: a frame that is not YUV420P, or not
\* complete, is counted as well, but never written.
FrameComes ==
    /\ spc = "ready"
    /\ offered < FrameLimit
    /\ offered' = offered + 1
    /\ frameCount' = frameCount + 1
    /\ \E usable \in BOOLEAN :
          spc' = IF usable /\ frameCount' % Interval = 0 THEN "encode" ELSE "ready"
    /\ UNCHANGED <<fileVars, stale, readerVars>>

EncodeJpeg ==
    /\ \/ SinkGoes("encode", "open")
       \/ SinkGoes("encode", "cleanup")
    /\ UNCHANGED <<frameCount, offered, fileVars, stale, readerVars>>

\* Mutant of Target: the snapshot is written in place.
TargetInPlace == "output"

\* snapshot_jpeg_write_file is given tmp_path.
Target == "tmp"

\* fopen(path, "wb") empties the file of that name, or makes one.
OpenFile ==
    /\ SinkGoes("open", "write")
    /\ IF snapshotNames[Target] # 0
       THEN /\ writing' = snapshotNames[Target]
            /\ files' = [files EXCEPT ![snapshotNames[Target]] = NewFile(offered)]
            /\ UNCHANGED snapshotNames
       ELSE /\ files' = Append(files, NewFile(offered))
            /\ writing' = Len(files) + 1
            /\ snapshotNames' = [snapshotNames EXCEPT ![Target] = Len(files) + 1]
    /\ UNCHANGED <<frameCount, offered, stale, readerVars>>

OpenFileFails ==
    /\ SinkGoes("open", "cleanup")
    /\ UNCHANGED <<frameCount, offered, fileVars, stale, readerVars>>

\* The file has at least as much as before, and at most n parts.
Grows(n) ==
    \E k \in files[writing].parts..n : files' = [files EXCEPT ![writing].parts = k]

\* fwrite: any part of the data may still be in the buffer of fp.
WriteFile ==
    /\ SinkGoes("write", "close")
    /\ Grows(Whole)
    /\ UNCHANGED <<frameCount, offered, snapshotNames, writing, stale, readerVars>>

\* The disk is full: fwrite fails, and fclose after it.
WriteFileFails ==
    /\ SinkGoes("write", "cleanup")
    /\ Grows(Whole - 1)
    /\ writing' = 0
    /\ UNCHANGED <<frameCount, offered, snapshotNames, stale, readerVars>>

\* fclose writes what is left.
CloseFile ==
    /\ SinkGoes("close", "rename")
    /\ files' = [files EXCEPT ![writing].parts = Whole]
    /\ writing' = 0
    /\ UNCHANGED <<frameCount, offered, snapshotNames, stale, readerVars>>

CloseFileFails ==
    /\ SinkGoes("close", "cleanup")
    /\ files[writing].parts < Whole
    /\ Grows(Whole - 1)
    /\ writing' = 0
    /\ UNCHANGED <<frameCount, offered, snapshotNames, stale, readerVars>>

\* rename(tmp_path, output_path): at any moment output_path leads to the old
\* file or to the new one.
RenameFile ==
    /\ SinkGoes("rename", "ready")
    /\ snapshotNames' = [output |-> snapshotNames[Target], tmp |-> 0]
    /\ stale' = FALSE
    /\ UNCHANGED <<frameCount, offered, files, writing, readerVars>>

\* It fails: tmp_path is removed, there and once more in the cleanup.
RenameFails ==
    /\ SinkGoes("rename", "cleanup")
    /\ snapshotNames' = [snapshotNames EXCEPT !.tmp = 0]
    /\ UNCHANGED <<frameCount, offered, files, writing, stale, readerVars>>

\* unlink(tmp_path), whatever failed.
CleanUp ==
    /\ SinkGoes("cleanup", "ready")
    /\ snapshotNames' = [snapshotNames EXCEPT !.tmp = 0]
    /\ stale' = FALSE
    /\ UNCHANGED <<frameCount, offered, files, writing, readerVars>>

\* The recorder ends, or is killed in the middle of a snapshot.
SinkEnds ==
    /\ spc # "down"
    /\ spc' = "down"
    /\ writing' = 0
    /\ stale' = (stale \/ spc \notin {"ready", "off"})
    /\ UNCHANGED <<frameCount, offered, snapshotNames, files, readerVars>>

-----------------------------------------------------------------------------
(* External: the reader.                                                   *)

ReaderOpens ==
    /\ rpc = "rest"
    /\ snapshotNames.output # 0
    /\ rpc' = "read"
    /\ reading' = snapshotNames.output
    /\ got' = <<>>
    /\ UNCHANGED <<spc, frameCount, offered, fileVars, stale>>

\* The next part of the file, or the end of the file before it.
ReaderReads ==
    /\ rpc = "read"
    /\ IF Len(got) < files[reading].parts
       THEN got' = Append(got, files[reading].frame) /\ UNCHANGED <<rpc, reading>>
       ELSE rpc' = "rest" /\ reading' = 0 /\ UNCHANGED got
    /\ UNCHANGED <<spc, frameCount, offered, fileVars, stale>>

SnapshotNext ==
    \/ SinkStarts \/ FrameComes \/ EncodeJpeg
    \/ OpenFile \/ OpenFileFails \/ WriteFile \/ WriteFileFails
    \/ CloseFile \/ CloseFileFails \/ RenameFile \/ RenameFails \/ CleanUp
    \/ SinkEnds
    \/ ReaderOpens \/ ReaderReads

SnapshotSpec == SnapshotInit /\ [][SnapshotNext]_snapshotVars

-----------------------------------------------------------------------------
(* Properties.                                                             *)

File == [frame : Nat, parts : 0..Whole]

\* Every variable stays in its range.
SnapshotTypeOK ==
    /\ spc \in {"down", "off", "ready", "encode", "open", "write", "close", "rename",
                "cleanup"}
    /\ frameCount \in Nat /\ offered \in Nat
    /\ files \in Seq(File)
    /\ snapshotNames \in [{"output", "tmp"} -> 0..Len(files)]
    /\ writing \in 0..Len(files)
    /\ stale \in BOOLEAN
    /\ rpc \in {"rest", "read"}
    /\ reading \in 0..Len(files)
    /\ got \in Seq(Nat)

\* "This keeps Python from reading half a JPEG" (edge_ai_camera_design.md): a
\* reader that reaches the end of the file has all parts of one frame, however
\* its steps mix with those of the sink, with failures and with a kill.
ReaderGetsWhole ==
    rpc = "rest" /\ got # <<>> => Len(got) = Whole /\ \A i \in 1..Whole : got[i] = got[1]

\* Once there is a snapshot there always is one, whole, and none is followed by
\* an older one, across every failure, kill and restart.
SnapshotStays ==
    [][ snapshotNames.output # 0 =>
            /\ snapshotNames'.output # 0
            /\ files'[snapshotNames'.output].parts = Whole
            /\ files'[snapshotNames'.output].frame >= files[snapshotNames.output].frame
      ]_snapshotVars

\* Between two calls no temporary file lies about, unless a kill left it.
TmpIsRemoved ==
    spc \in {"ready", "off"} /\ ~stale => snapshotNames.tmp = 0

=============================================================================
