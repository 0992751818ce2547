------------------------------- MODULE Viewer -------------------------------
(***************************************************************************)
(* viewer/sdl_display_sdl.c behind sdl_display_manager.c.  The main thread *)
(* creates and ends the viewer, process_thread_main hands it frames, and a *)
(* thread of its own draws them.  The three share one context: a mutex     *)
(* that nobody waits for guards the frame, and nothing guards the flags    *)
(* running, ready, init_result and error_result.                           *)
(*                                                                         *)
(* The flags are seen in the order they are written: the configured build  *)
(* is for x86-64 and not optimised.  SDL is external: a call works or      *)
(* fails, and the user may close the window.  A frame is a number; copying *)
(* one takes two steps, one for each half of it.                           *)
(***************************************************************************)
EXTENDS Naturals

CONSTANT ShownFrames    \* bound: frames handed to the viewer

ASSUME ViewerAssumption == ShownFrames \in Nat

VARIABLES
    vmain, vproc, vthread,           \* main, process thread, viewer thread
    vctx,                            \* the context: none, live or freed
    running, ready,                  \* ctx->running, ready
    initResult, errorResult,         \* ctx->init_result, error_result
    mutex,                           \* who has it: none, process or viewer
    dirty, buffer, texture, shown,   \* ctx->dirty, frame_buffer, texture; the window
    frame, displayed,                \* the frame to display, what Display returned
    accepted, closed                 \* history: the last frame copied; closed by the user

flagVars == <<running, ready, initResult, errorResult>>
pictureVars == <<dirty, buffer, texture, shown>>
viewerVars == <<vmain, vproc, vthread, vctx, flagVars, mutex, pictureVars, frame,
                displayed, accepted, closed>>

Both(n) == [half \in {"upper", "lower"} |-> n]

ViewerInit ==
    /\ vmain = "init"
    /\ vproc = "none"
    /\ vthread = "none"
    /\ vctx = "none"
    /\ running = FALSE
    /\ ready = FALSE
    /\ initResult = "ERROR"
    /\ errorResult = "OK"
    /\ mutex = "none"
    /\ dirty = FALSE
    /\ buffer = Both(0)
    /\ texture = Both(0)
    /\ shown = Both(0)
    /\ frame = 1
    /\ displayed = "OK"
    /\ accepted = 0
    /\ closed = FALSE

VMainGoes(from, to) == vmain = from /\ vmain' = to
VThreadGoes(from, to) == vthread = from /\ vthread' = to
VProcGoes(from, to) == vproc = from /\ vproc' = to

-----------------------------------------------------------------------------
(* Main thread: sdl_display_init and sdl_display_deinit.                   *)

\* The context, the mutex and the thread are made, or nothing is left of them.
CreateViewer ==
    /\ \/ /\ VMainGoes("init", "wait")
          /\ vctx' = "live"
          /\ running' = TRUE
          /\ vthread' = "setup"
       \/ /\ VMainGoes("init", "exit")
          /\ UNCHANGED <<vctx, running, vthread>>
    /\ UNCHANGED <<vproc, ready, initResult, errorResult, mutex, pictureVars, frame,
                   displayed, accepted, closed>>

\* while (!ctx->ready), and what init makes of the result.
ViewerReady ==
    /\ ready
    /\ IF initResult = "OK"
       THEN /\ VMainGoes("wait", "run")
            /\ vproc' = "display"
            /\ UNCHANGED running
       ELSE /\ VMainGoes("wait", "join")
            /\ running' = FALSE
            /\ UNCHANGED vproc
    /\ UNCHANGED <<vthread, vctx, ready, initResult, errorResult, mutex, pictureVars,
                   frame, displayed, accepted, closed>>

\* AppPipeline_Deinit, after the join of the process thread.
DeinitViewer ==
    /\ vproc = "done"
    /\ VMainGoes("run", "join")
    /\ running' = FALSE
    /\ UNCHANGED <<vproc, vthread, vctx, ready, initResult, errorResult, mutex, pictureVars,
                   frame, displayed, accepted, closed>>

\* Mutant of WaitedThread: the context is freed at once.
NoWaitedThread == TRUE

\* SDL_WaitThread returns.
WaitedThread == vthread = "done"

FreeViewer ==
    /\ WaitedThread
    /\ VMainGoes("join", "exit")
    /\ vctx' = "freed"
    /\ UNCHANGED <<vproc, vthread, flagVars, mutex, pictureVars, frame, displayed, accepted,
                   closed>>

-----------------------------------------------------------------------------
(* Process thread: sdl_display_display, once for every frame.              *)

\* The thread goes on with the next frame, or ends.
Displayed(result, next) ==
    /\ displayed' = result
    /\ frame' = frame + 1
    /\ vproc' = IF result = "OK" /\ frame < ShownFrames THEN next ELSE "done"

\* ctx->running is read, and error_result after it.
DisplayChecks ==
    /\ vproc = "display"
    /\ vproc' = IF running THEN "lock" ELSE "closed"
    /\ UNCHANGED <<vmain, vthread, vctx, flagVars, mutex, pictureVars, frame, displayed,
                   accepted, closed>>

DisplayClosed ==
    /\ vproc = "closed"
    /\ Displayed(IF errorResult = "OK" THEN "EOF" ELSE errorResult, "display")
    /\ UNCHANGED <<vmain, vthread, vctx, flagVars, mutex, pictureVars, accepted, closed>>

\* Mutant of TryLock: its result is not looked at.
TryLockIgnored == TRUE

\* SDL_TryLockMutex
TryLock == mutex = "none"

\* A frame that comes while the viewer's thread has the mutex is dropped.
DisplayLocks ==
    /\ vproc = "lock"
    /\ IF TryLock
       THEN /\ mutex' = "process"
            /\ vproc' = "copy"
            /\ UNCHANGED <<displayed, frame>>
       ELSE /\ Displayed("OK", "display")
            /\ UNCHANGED mutex
    /\ UNCHANGED <<vmain, vthread, vctx, flagVars, pictureVars, accepted, closed>>

\* sdl_display_copy_frame fails: the frame is not of the viewer's size or
\* format, or memory is short.
CopyFails ==
    /\ vproc = "copy"
    /\ mutex' = "none"
    /\ \E result \in {"EINVAL", "ENOMEM"} : Displayed(result, "display")
    /\ UNCHANGED <<vmain, vthread, vctx, flagVars, pictureVars, accepted, closed>>

CopyUpper ==
    /\ VProcGoes("copy", "copying")
    /\ buffer' = [buffer EXCEPT !["upper"] = frame]
    /\ UNCHANGED <<vmain, vthread, vctx, flagVars, mutex, dirty, texture, shown, frame,
                   displayed, accepted, closed>>

CopyLower ==
    /\ VProcGoes("copying", "unlock")
    /\ buffer' = [buffer EXCEPT !["lower"] = frame]
    /\ dirty' = TRUE
    /\ accepted' = frame
    /\ UNCHANGED <<vmain, vthread, vctx, flagVars, mutex, texture, shown, frame, displayed,
                   closed>>

DisplayUnlocks ==
    /\ vproc = "unlock"
    /\ mutex' = "none"
    /\ Displayed("OK", "display")
    /\ UNCHANGED <<vmain, vthread, vctx, flagVars, pictureVars, accepted, closed>>

-----------------------------------------------------------------------------
(* Viewer thread: sdl_display_thread.                                      *)

\* Window, renderer and texture are made, or one of them is not.
SetUp ==
    /\ \/ VThreadGoes("setup", "announce") /\ initResult' = "OK"
       \/ VThreadGoes("setup", "give up") /\ initResult' = "EIO"
    /\ UNCHANGED <<vmain, vproc, vctx, running, ready, errorResult, mutex, pictureVars, frame,
                   displayed, accepted, closed>>

\* Mutant of ReadyAfter: a viewer that fails does not announce it.
ReadyWhenGood(result) == ready' = (result = "OK")

ReadyAfter(result) == ready' = TRUE

\* ready is set before SDL is taken down again, which still uses the context.
Announce ==
    /\ \/ VThreadGoes("announce", "loop")
       \/ VThreadGoes("give up", "quit")
    /\ ReadyAfter(initResult)
    /\ UNCHANGED <<vmain, vproc, vctx, running, initResult, errorResult, mutex, pictureVars,
                   frame, displayed, accepted, closed>>

\* while (ctx->running)
Loop ==
    /\ vthread = "loop"
    /\ vthread' = IF running THEN "poll" ELSE "quit"
    /\ UNCHANGED <<vmain, vproc, vctx, flagVars, mutex, pictureVars, frame, displayed,
                   accepted, closed>>

\* SDL_PollEvent; the user may have closed the window.
Poll ==
    /\ VThreadGoes("poll", "trylock")
    /\ \/ running' = FALSE /\ closed' = TRUE
       \/ UNCHANGED <<running, closed>>
    /\ UNCHANGED <<vmain, vproc, vctx, ready, initResult, errorResult, mutex, pictureVars,
                   frame, displayed, accepted>>

ViewerLocks ==
    /\ vthread = "trylock"
    /\ IF TryLock
       THEN /\ mutex' = "viewer"
            /\ vthread' = IF dirty THEN "update" ELSE "unlock"
       ELSE vthread' = "render" /\ UNCHANGED mutex
    /\ UNCHANGED <<vmain, vproc, vctx, flagVars, pictureVars, frame, displayed, accepted,
                   closed>>

\* SDL_UpdateYUVTexture
UpdateUpper ==
    /\ VThreadGoes("update", "updating")
    /\ texture' = [texture EXCEPT !["upper"] = buffer["upper"]]
    /\ UNCHANGED <<vmain, vproc, vctx, flagVars, mutex, dirty, buffer, shown, frame,
                   displayed, accepted, closed>>

UpdateLower ==
    /\ VThreadGoes("updating", "clean")
    /\ texture' = [texture EXCEPT !["lower"] = buffer["lower"]]
    /\ UNCHANGED <<vmain, vproc, vctx, flagVars, mutex, dirty, buffer, shown, frame,
                   displayed, accepted, closed>>

\* Mutant of TheError: running is cleared before the error is there.
RunningFirst(flag) == (flag = "running")

\* Of the two flags of a failure, the error is set first.
TheError(flag) == (flag = "error")

\* One of the two flags is written.
Write(flag) ==
    IF TheError(flag)
    THEN errorResult' = "EIO" /\ UNCHANGED running
    ELSE running' = FALSE /\ UNCHANGED errorResult

\* A call of SDL fails while the picture is updated or drawn.
DrawingFails ==
    /\ \/ VThreadGoes("update", "update failed")
       \/ VThreadGoes("updating", "update failed")
       \/ VThreadGoes("render", "render failed")
    /\ Write("error")
    /\ UNCHANGED <<vmain, vproc, vctx, ready, initResult, mutex, pictureVars, frame,
                   displayed, accepted, closed>>

DrawingStops ==
    /\ \/ VThreadGoes("update failed", "clean")
       \/ VThreadGoes("render failed", "present")
    /\ Write("running")
    /\ UNCHANGED <<vmain, vproc, vctx, ready, initResult, mutex, pictureVars, frame,
                   displayed, accepted, closed>>

\* ctx->dirty = 0, under the mutex.
ClearDirty ==
    /\ VThreadGoes("clean", "unlock")
    /\ dirty' = FALSE
    /\ UNCHANGED <<vmain, vproc, vctx, flagVars, mutex, buffer, texture, shown, frame, displayed,
                   accepted, closed>>

ViewerUnlocks ==
    /\ VThreadGoes("unlock", "render")
    /\ mutex' = "none"
    /\ UNCHANGED <<vmain, vproc, vctx, flagVars, pictureVars, frame, displayed, accepted,
                   closed>>

Render ==
    /\ VThreadGoes("render", "present")
    /\ UNCHANGED <<vmain, vproc, vctx, flagVars, mutex, pictureVars, frame, displayed,
                   accepted, closed>>

\* SDL_RenderPresent, also after a failure.
Present ==
    /\ VThreadGoes("present", "loop")
    /\ shown' = texture
    /\ UNCHANGED <<vmain, vproc, vctx, flagVars, mutex, dirty, buffer, texture, frame,
                   displayed, accepted, closed>>

\* SDL is taken down.
Quit ==
    /\ VThreadGoes("quit", "done")
    /\ UNCHANGED <<vmain, vproc, vctx, flagVars, mutex, pictureVars, frame, displayed,
                   accepted, closed>>

ViewerMainStep == CreateViewer \/ ViewerReady \/ DeinitViewer \/ FreeViewer

DisplayStep ==
    \/ DisplayChecks \/ DisplayClosed \/ DisplayLocks
    \/ CopyFails \/ CopyUpper \/ CopyLower \/ DisplayUnlocks

ViewerThreadStep ==
    \/ SetUp \/ Announce \/ Loop \/ Poll \/ ViewerLocks
    \/ UpdateUpper \/ UpdateLower \/ DrawingFails \/ DrawingStops
    \/ ClearDirty \/ ViewerUnlocks \/ Render \/ Present \/ Quit

ViewerNext == ViewerMainStep \/ DisplayStep \/ ViewerThreadStep

\* The scheduler runs each thread.
ViewerFairness ==
    /\ WF_viewerVars(ViewerMainStep)
    /\ WF_viewerVars(DisplayStep)
    /\ WF_viewerVars(ViewerThreadStep)

ViewerSpec == ViewerInit /\ [][ViewerNext]_viewerVars

-----------------------------------------------------------------------------
(* Properties.                                                             *)

Pictures == [{"upper", "lower"} -> Nat]

PlacesOK ==
    /\ vmain \in {"init", "wait", "run", "join", "exit"}
    /\ vproc \in {"none", "display", "closed", "lock", "copy", "copying", "unlock", "done"}
    /\ vthread \in {"none", "setup", "announce", "give up", "loop", "poll", "trylock",
                    "update", "updating", "update failed", "clean", "unlock", "render",
                    "render failed", "present", "quit", "done"}
    /\ vctx \in {"none", "live", "freed"}

FlagsOK ==
    /\ running \in BOOLEAN /\ ready \in BOOLEAN /\ dirty \in BOOLEAN /\ closed \in BOOLEAN
    /\ initResult \in {"OK", "ERROR", "EIO"}
    /\ errorResult \in {"OK", "EIO"}
    /\ mutex \in {"none", "process", "viewer"}

PicturesOK ==
    /\ buffer \in Pictures /\ texture \in Pictures /\ shown \in Pictures
    /\ frame \in Nat /\ accepted \in Nat
    /\ displayed \in {"OK", "EOF", "EIO", "EINVAL", "ENOMEM"}

\* Every variable stays in its range.
ViewerTypeOK == PlacesOK /\ FlagsOK /\ PicturesOK

\* The window never shows parts of two frames, unless SDL failed to update the
\* texture: the copy and the update never overlap.
ShownIsWhole == errorResult = "OK" => shown["upper"] = shown["lower"]

\* A frame that Display copied is drawn, or is waiting to be, or a later one
\* took its place: clearing dirty never loses it.
NoAcceptedFrameLost ==
    mutex = "none" /\ running /\ ~dirty => texture = Both(accepted)

\* With a mutex that both sides only try, and flags outside it, the window
\* still shows whole frames and always gets to the last one accepted.
ShowsAcceptedFrames == ShownIsWhole /\ NoAcceptedFrameLost

\* process_thread_main takes IPC_EOF for the user's wish to end and leaves
\* without an error; a failure of the viewer must never look like that.
EofOnlyWhenClosed == displayed = "EOF" => closed

\* Neither thread uses the context after the main thread has freed it, nor
\* does the viewer that fails to start.
NoUseAfterFree ==
    vthread \notin {"none", "done"} \/ vproc \notin {"none", "done"} => vctx = "live"

\* sdl_display_init and sdl_display_deinit always return.
ViewerReturns == (vmain \in {"wait", "join"}) ~> (vmain \in {"run", "exit"})

=============================================================================
