------------------------------- MODULE Detector -------------------------------
(***************************************************************************)
(* yolov5: rknn_yolo_wrapper.cpp, rknn_yolo_media_adapter.cpp, yolov5.cc,  *)
(* postprocess.cc, image_utils.c and file_utils.c, under a client that     *)
(* calls rknn_yolo_init, _infer and _release in any order, as the two test *)
(* programs call them in one.  The pipeline does not call the detector.    *)
(*                                                                         *)
(* allocated is what the code can still free; lost is what it no longer    *)
(* has a pointer to.  RKNN, RGA, libjpeg and stb are external: a           *)
(* call works or fails.  What the network sees is cell after cell: a       *)
(* confidence, a level for each class, and a box in the network's square.  *)
(*                                                                         *)
(* post_process is modelled loop by loop, and its quicksort with the calls *)
(* still to make as a stack.                                               *)
(***************************************************************************)
EXTENDS Vision, Sequences, FiniteSets

CONSTANTS ClientPictures, \* what a client may have: width, height, format, there
          Cells,          \* what a cell of the network's outputs may hold
          CellLimit,      \* bound: candidates of a picture
          ModelWidth,     \* app_ctx->model_width, height
          ModelHeight,
          MaxResults,     \* OBJ_NUMB_MAX_SIZE
          CallLimit       \* bound: calls of the client

ASSUME DetectorAssumption ==
    /\ ModelWidth \in Nat \ {0} /\ ModelHeight \in Nat \ {0}
    /\ MaxResults \in Nat \ {0} /\ CallLimit \in Nat
    /\ \A cell \in Cells : /\ cell.conf \in Nat
                           /\ \A c \in DOMAIN cell.probs : cell.probs[c] \in Nat

VARIABLES
    dpc,            \* where the call in hand is, or "client"
    initialized,    \* g_yolo_initialized
    kind,           \* app_ctx->is_quant: "i8" or "fp32"
    input,          \* the client's picture, or the one of the call in hand
    found,          \* filterBoxes, classId: the candidates as they were found
    probs, order,   \* objProbs, indexArray; an order of 0 is suppressed
    ranges,         \* the calls of quick_sort_indice_inverse still to make
    low, high,      \* of the call in hand, with its key and key_index
    key, keyIndex,
    at,             \* i of nms and of the loop over the results
    results,        \* od_results
    allocated, lost, \* resources
    dfailed,        \* history: the calls that failed
    calls           \* bound

sortVars == <<ranges, low, high, key, keyIndex>>

postVars == <<found, probs, order, sortVars, at, results>>

detectorVars == <<dpc, initialized, kind, input, postVars, allocated, lost, dfailed, calls>>

\* read_image: what is left of a picture that could not be decoded.
NoPicture == [width |-> 0, height |-> 0, format |-> "GRAY8", there |-> FALSE]

DetectorInit ==
    /\ dpc = "client"
    /\ initialized = FALSE
    /\ kind \in {"i8", "fp32"}
    /\ input = NoPicture
    /\ found = <<>> /\ probs = <<>> /\ order = <<>>
    /\ ranges = <<>> /\ low = 0 /\ high = 0 /\ key = 0 /\ keyIndex = 0
    /\ at = 0
    /\ results = <<>>
    /\ allocated = {}
    /\ lost = {}
    /\ dfailed = {}
    /\ calls = 0

DGoes(from, to) == dpc = from /\ dpc' = to

Holds(r) == allocated' = allocated \cup r /\ UNCHANGED lost
Frees(r) == allocated' = allocated \ r /\ UNCHANGED lost
Loses(r) == allocated' = allocated \ r /\ lost' = lost \cup r
Failing(call) == dfailed' = dfailed \cup {call}

ClientCalls(to) ==
    /\ calls < CallLimit
    /\ calls' = calls + 1
    /\ DGoes("client", to)

-----------------------------------------------------------------------------
(* rknn_yolo_init.                                                         *)

\* Once initialised, nothing is done.  loadLabelName is content without a
\* file, and with fewer lines or less memory than it needs.
CallInit ==
    /\ ~initialized
    /\ ClientCalls("model")
    /\ \/ Holds({"labels"})
       \/ UNCHANGED <<allocated, lost>>
    /\ UNCHANGED <<initialized, kind, input, postVars, dfailed>>

CallInitAgain ==
    /\ initialized
    /\ ClientCalls("client")
    /\ UNCHANGED <<initialized, kind, input, postVars, allocated, lost, dfailed>>

\* read_data_from_file leaves model as it was, which is uninitialised: where
\* it happens to be NULL the call fails, and else rknn_init gets it, and free.
ModelUnread ==
    /\ \/ DGoes("model", "undo")
       \/ DGoes("model", "crashed")
    /\ Failing("read_data_from_file")
    /\ UNCHANGED <<initialized, kind, input, postVars, allocated, lost, calls>>

ReadModel ==
    /\ DGoes("model", "rknn_init")
    /\ Holds({"model"})
    /\ UNCHANGED <<initialized, kind, input, postVars, dfailed, calls>>

\* free(model) comes before the test of the result.
RknnInit ==
    /\ \/ /\ DGoes("rknn_init", "query")
          /\ allocated' = (allocated \ {"model"}) \cup {"context"}
          /\ UNCHANGED <<lost, dfailed>>
       \/ /\ DGoes("rknn_init", "undo")
          /\ Frees({"model"})
          /\ Failing("rknn_init")
    /\ UNCHANGED <<initialized, kind, input, postVars, calls>>

\* Until the queries are done, ctx is a local variable.
Query ==
    /\ \/ /\ DGoes("query", "client")
          /\ initialized' = TRUE
          /\ Holds({"attrs"})
          /\ UNCHANGED dfailed
       \/ /\ DGoes("query", "undo")
          /\ Loses({"context"})
          /\ Failing("rknn_query")
          /\ UNCHANGED initialized
    /\ UNCHANGED <<kind, input, postVars, calls>>

\* deinit_post_process
UndoInit ==
    /\ DGoes("undo", "client")
    /\ Frees({"labels"})
    /\ UNCHANGED <<initialized, kind, input, postVars, dfailed, calls>>

-----------------------------------------------------------------------------
(* read_image, which a client calls for a picture of a file.               *)

\* By the suffix: stb, libjpeg, or the bytes as they are with no size at all.
ReadImage ==
    /\ \E p \in ClientPictures : p.format # "NV12" /\ input' = p
    /\ ClientCalls("client")
    /\ UNCHANGED <<initialized, kind, postVars, allocated, lost, dfailed>>

\* No suffix, no file, or nothing that stb can decode.
ReadNothing ==
    /\ ClientCalls("client")
    /\ Failing("read_image")
    /\ UNCHANGED <<initialized, kind, input, postVars, allocated, lost>>

\* A raw file shorter than it said is not closed.
ReadRawShort ==
    /\ ClientCalls("client")
    /\ Loses({"file"})
    /\ Failing("fread")
    /\ UNCHANGED <<initialized, kind, input, postVars>>

\* A jpeg that cannot be opened is read all the same.
ReadNoJpeg ==
    /\ ClientCalls("crashed")
    /\ UNCHANGED <<initialized, kind, input, postVars, allocated, lost, dfailed>>

\* Without a header -1 is returned, without pixels 0 and no picture; libjpeg's
\* handle and the bytes, or the pixels, are forgotten.
ReadBadJpeg ==
    /\ ClientCalls("client")
    /\ \/ /\ UNCHANGED input
          /\ Loses({"handle", "bytes"})
       \/ /\ input' = NoPicture
          /\ Loses({"handle", "pixels"})
    /\ Failing("jpeg")
    /\ UNCHANGED <<initialized, kind, postVars>>

-----------------------------------------------------------------------------
(* rknn_yolo_infer, and rknn_yolo_infer_media_frame around it.             *)

\* The client's picture, or a frame, which is copied to an NV12 picture first.
CallInfer ==
    /\ initialized
    /\ ClientCalls("alloc")
    /\ \/ UNCHANGED <<input, allocated, lost>>
       \/ /\ \E p \in ClientPictures : p.format = "NV12" /\ input' = p
          /\ Holds({"nv12"})
    /\ UNCHANGED <<initialized, kind, postVars, dfailed>>

\* Not initialised, or no memory for the NV12 picture.
InferRefused ==
    /\ ClientCalls("client")
    /\ UNCHANGED <<initialized, kind, input, postVars, allocated, lost, dfailed>>

\* od_results is cleared before anything else can fail.
AllocInput ==
    /\ results' = <<>>
    /\ \/ DGoes("alloc", "convert") /\ Holds({"input"}) /\ UNCHANGED dfailed
       \/ DGoes("alloc", "return") /\ Failing("malloc") /\ UNCHANGED <<allocated, lost>>
    /\ UNCHANGED <<initialized, kind, input, found, probs, order, sortVars, at, calls>>

\* convert_image: RGA if both widths are multiples of 16, and if that fails or
\* is not possible the CPU, which does not change the format.
HasRgaFormat == input.format # "GRAY8"
RgaMay == input.there /\ HasRgaFormat /\ input.width % 16 = 0 /\ ModelWidth % 16 = 0
CpuCan == input.there /\ input.format = "RGB888"

\* Returning -1 forgets dst_img.
ConvertImage ==
    /\ \/ /\ DGoes("convert", "inputs")
          /\ CpuCan \/ RgaMay
          /\ UNCHANGED <<allocated, lost, dfailed>>
       \/ /\ DGoes("convert", "return")
          /\ ~CpuCan
          /\ Loses({"input"})
          /\ Failing("convert")
    /\ UNCHANGED <<initialized, kind, input, postVars, calls>>

\* So does a failure of rknn_inputs_set and rknn_run.
RunNetwork ==
    /\ \/ DGoes("inputs", "run") /\ UNCHANGED <<allocated, lost, dfailed>>
       \/ DGoes("run", "outputs") /\ UNCHANGED <<allocated, lost, dfailed>>
       \/ DGoes("inputs", "return") /\ Loses({"input"}) /\ Failing("rknn_inputs_set")
       \/ DGoes("run", "return") /\ Loses({"input"}) /\ Failing("rknn_run")
    /\ UNCHANGED <<initialized, kind, input, postVars, calls>>

GetOutputs ==
    /\ \/ DGoes("outputs", "decode") /\ Holds({"outputs"}) /\ UNCHANGED dfailed
       \/ DGoes("outputs", "free") /\ Failing("rknn_outputs_get") /\ UNCHANGED <<allocated, lost>>
    /\ UNCHANGED <<initialized, kind, input, postVars, calls>>

-----------------------------------------------------------------------------
(* post_process: process_i8 or process_fp32, the sort, nms, the results.   *)

postRest == <<initialized, kind, input, allocated, lost, dfailed, calls>>

\* maxClassProbs: the first of the greatest.
IsBest(cell, c) ==
    \A k \in DOMAIN cell.probs : /\ cell.probs[k] <= cell.probs[c]
                                 /\ k < c => cell.probs[k] < cell.probs[c]

ZeroPoint == -128

\* The cells in the order of the tensors; those that are no candidate change
\* nothing.
Decode ==
    /\ DGoes("decode", "decode")
    /\ Len(found) < CellLimit
    /\ \E cell \in Cells : \E c \in DOMAIN cell.probs :
          /\ IsBest(cell, c)
          /\ IsCandidate(kind, ZeroPoint, cell.conf, cell.probs[c])
          /\ found' = Append(found, [score |-> cell.conf * cell.probs[c], class |-> c,
                                     box |-> cell.box])
    /\ UNCHANGED <<postRest, probs, order, sortVars, at, results>>

\* validCount <= 0: no object detected.
DecodeNothing ==
    /\ DGoes("decode", "release")
    /\ found = <<>>
    /\ UNCHANGED <<postRest, postVars>>

DecodeEnds ==
    /\ DGoes("decode", "sort")
    /\ found # <<>>
    /\ probs' = [i \in 1..Len(found) |-> found[i].score]
    /\ order' = [i \in 1..Len(found) |-> i]
    /\ ranges' = <<<<1, Len(found)>>>>
    /\ UNCHANGED <<postRest, found, low, high, key, keyIndex, at, results>>

\* quick_sort_indice_inverse on the next range.
SortRange ==
    /\ DGoes("sort", "down")
    /\ ranges # <<>>
    /\ ranges[1][1] < ranges[1][2]
    /\ low' = ranges[1][1] /\ high' = ranges[1][2]
    /\ key' = probs[ranges[1][1]] /\ keyIndex' = order[ranges[1][1]]
    /\ UNCHANGED <<postRest, found, probs, order, ranges, at, results>>

SkipRange ==
    /\ DGoes("sort", "sort")
    /\ ranges # <<>>
    /\ ranges[1][1] >= ranges[1][2]
    /\ ranges' = Tail(ranges)
    /\ UNCHANGED <<postRest, found, probs, order, low, high, key, keyIndex, at, results>>

\* Mutant of Moves: the indices stay behind.
MovesScores(from, to) ==
    /\ probs' = [probs EXCEPT ![to] = probs[from]]
    /\ UNCHANGED order

\* Both arrays move together.
Moves(from, to) ==
    /\ probs' = [probs EXCEPT ![to] = probs[from]]
    /\ order' = [order EXCEPT ![to] = order[from]]

\* while (low < high && input[high] <= key) high--, and the move.
SeekDown ==
    /\ DGoes("down", "up")
    /\ low < high
    /\ \E h \in low..high :
          /\ h = low \/ probs[h] > key
          /\ \A x \in (h + 1)..high : probs[x] <= key
          /\ high' = h
          /\ Moves(h, low)
    /\ UNCHANGED <<postRest, found, ranges, low, key, keyIndex, at, results>>

\* while (low < high && input[low] >= key) low++, and the move.
SeekUp ==
    /\ DGoes("up", "down")
    /\ \E l \in low..high :
          /\ l = high \/ probs[l] < key
          /\ \A x \in low..(l - 1) : probs[x] >= key
          /\ low' = l
          /\ Moves(l, high)
    /\ UNCHANGED <<postRest, found, ranges, high, key, keyIndex, at, results>>

\* The key has its place; then what is left of it, and what is right of it.
Place ==
    /\ DGoes("down", "sort")
    /\ low >= high
    /\ probs' = [probs EXCEPT ![low] = key]
    /\ order' = [order EXCEPT ![low] = keyIndex]
    /\ ranges' = <<<<ranges[1][1], low - 1>>, <<low + 1, ranges[1][2]>>>> \o Tail(ranges)
    /\ UNCHANGED <<postRest, found, low, high, key, keyIndex, at, results>>

SortEnds ==
    /\ DGoes("sort", "nms")
    /\ ranges = <<>>
    /\ at' = 1
    /\ UNCHANGED <<postRest, found, probs, order, sortVars, results>>

\* Mutant of SameClass: one nms for all classes.
AnyClass(n, m) == TRUE

\* nms is called for each class, and passes over the boxes of the others.
SameClass(n, m) == found[n].class = found[m].class

\* n suppresses m.
Covers(n, m) == SameClass(n, m) /\ Overlap(found[n].box, found[m].box)

\* nms at i: what comes later and overlaps is suppressed, unless i is itself.
\* The passes for two classes touch no candidate in common.
Nms ==
    /\ DGoes("nms", "nms")
    /\ at <= Len(found)
    /\ order' = [j \in 1..Len(found) |->
                    IF at < j /\ order[at] # 0 /\ order[j] # 0 /\ Covers(order[at], order[j])
                    THEN 0 ELSE order[j]]
    /\ at' = at + 1
    /\ UNCHANGED <<postRest, found, probs, sortVars, results>>

NmsEnds ==
    /\ DGoes("nms", "results")
    /\ at > Len(found)
    /\ at' = 1
    /\ UNCHANGED <<postRest, found, probs, order, sortVars, results>>

\* clamp
Clamped(n, max) == Least(Greatest(n, 0), max)

\* A box of the square in the client's picture: without the padding, clamped
\* to the square and divided by the scale.
MappedBack(box) ==
    LET dst == DstBox(input.width, input.height, ModelWidth, ModelHeight)
        byWidth == WidthDecides(input.width, input.height, ModelWidth, ModelHeight)
        Unscaled(n) == IF byWidth THEN (n * input.width) \div ModelWidth
                       ELSE (n * input.height) \div ModelHeight
        x == box.x - dst.left
        y == box.y - dst.top
    IN  [left |-> Unscaled(Clamped(x, ModelWidth)),
         top |-> Unscaled(Clamped(y, ModelHeight)),
         right |-> Unscaled(Clamped(x + box.w, ModelWidth)),
         bottom |-> Unscaled(Clamped(y + box.h, ModelHeight))]

\* continue, if it was suppressed or the list is full.
PassOver ==
    /\ DGoes("results", "results")
    /\ at <= Len(found)
    /\ order[at] = 0 \/ Len(results) >= MaxResults
    /\ at' = at + 1
    /\ UNCHANGED <<postRest, found, probs, order, sortVars, results>>

Report ==
    /\ DGoes("results", "results")
    /\ at <= Len(found)
    /\ order[at] # 0 /\ Len(results) < MaxResults
    /\ results' = Append(results, [of |-> order[at], score |-> probs[at],
                                   class |-> found[order[at]].class,
                                   box |-> MappedBack(found[order[at]].box)])
    /\ at' = at + 1
    /\ UNCHANGED <<postRest, found, probs, order, sortVars>>

ResultsEnd ==
    /\ DGoes("results", "release")
    /\ at > Len(found)
    /\ UNCHANGED <<postRest, postVars>>

-----------------------------------------------------------------------------
(* rknn_yolo_infer, from rknn_outputs_release.                             *)

\* Mutant of ReleaseOutputs: the outputs are kept until the model is released.
OutputsForgotten == {}

\* rknn_outputs_release
ReleaseOutputs == {"outputs"}

EndOutputs ==
    /\ DGoes("release", "free")
    /\ Frees(ReleaseOutputs)
    /\ found' = <<>> /\ probs' = <<>> /\ order' = <<>>
    /\ ranges' = <<>> /\ low' = 0 /\ high' = 0 /\ key' = 0 /\ keyIndex' = 0
    /\ at' = 0
    /\ UNCHANGED <<initialized, kind, input, results, dfailed, calls>>

\* out: free(dst_img.virt_addr)
FreeInput ==
    /\ DGoes("free", "return")
    /\ Frees({"input"})
    /\ UNCHANGED <<initialized, kind, input, postVars, dfailed, calls>>

\* The adapter frees its NV12 picture, whatever the result.
InferReturns ==
    /\ DGoes("return", "client")
    /\ Frees({"nv12"})
    /\ input' = NoPicture
    /\ results' = <<>>
    /\ UNCHANGED <<initialized, kind, found, probs, order, sortVars, at, dfailed, calls>>

-----------------------------------------------------------------------------

\* rknn_yolo_release: nothing, unless initialised.
CallRelease ==
    /\ ClientCalls("client")
    /\ IF initialized
       THEN Frees({"context", "attrs", "labels"})
       ELSE UNCHANGED <<allocated, lost>>
    /\ initialized' = FALSE
    /\ UNCHANGED <<kind, input, postVars, dfailed>>

DetectorNext ==
    \/ CallInit \/ CallInitAgain \/ ModelUnread \/ ReadModel \/ RknnInit \/ Query \/ UndoInit
    \/ ReadImage \/ ReadNothing \/ ReadRawShort \/ ReadNoJpeg \/ ReadBadJpeg
    \/ CallInfer \/ InferRefused \/ AllocInput \/ ConvertImage \/ RunNetwork \/ GetOutputs
    \/ Decode \/ DecodeNothing \/ DecodeEnds
    \/ SortRange \/ SkipRange \/ SeekDown \/ SeekUp \/ Place \/ SortEnds
    \/ Nms \/ NmsEnds \/ PassOver \/ Report \/ ResultsEnd
    \/ EndOutputs \/ FreeInput \/ InferReturns
    \/ CallRelease

DetectorSpec == DetectorInit /\ [][DetectorNext]_detectorVars

-----------------------------------------------------------------------------
(* Properties.                                                             *)

TooClose(n, m) ==
    found[n].class = found[m].class /\ Overlap(found[n].box, found[m].box)

\* Exactly the best boxes are reported, each with its own score: by falling
\* score; each candidate once or not at all; none of one class over another;
\* and a candidate is only left out for a reported one of its class that
\* overlaps it and is at least as good, or because the list is full of better
\* ones.
DetectionsAreGreedy ==
    dpc = "release" =>
        LET reported == {results[i].of : i \in 1..Len(results)}
        IN  /\ Cardinality(reported) = Len(results)
            /\ Len(results) <= MaxResults
            /\ \A i \in 1..Len(results) : results[i].score = found[results[i].of].score
            /\ \A i, j \in 1..Len(results) :
                  i < j => /\ results[i].score >= results[j].score
                           /\ ~TooClose(results[i].of, results[j].of)
            /\ \A m \in 1..Len(found) :
                  \/ m \in reported
                  \/ \E n \in reported : TooClose(n, m) /\ found[n].score >= found[m].score
                  \/ /\ Len(results) = MaxResults
                     /\ \A n \in reported : found[n].score >= found[m].score

\* What a failure of a call leaves behind without a pointer to it.
Forgotten(call) ==
    CASE call = "rknn_query" -> {"context"}
      [] call \in {"convert", "rknn_inputs_set", "rknn_run"} -> {"input"}
      [] call = "fread" -> {"file"}
      [] call = "jpeg" -> {"handle", "bytes", "pixels"}
      [] OTHER -> {}

\* Between two calls the detector holds its model or nothing at all, and what
\* it ever had besides is freed, but for what those six failures forget.
DetectorBalances ==
    dpc = "client" =>
        /\ allocated \subseteq {"context", "attrs", "labels"}
        /\ ~initialized => allocated = {}
        /\ initialized => {"context", "attrs"} \subseteq allocated
        /\ lost \subseteq UNION {Forgotten(call) : call \in dfailed}

=============================================================================
