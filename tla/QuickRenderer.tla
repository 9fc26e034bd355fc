---------------------------- MODULE QuickRenderer ----------------------------
(***************************************************************************)
(* The main and the render thread of an offscreen QML view                 *)
(* (deflect/qt/OffscreenQuickView.cpp and QuickRenderer.cpp, in the        *)
(* multithreaded mode).                                                    *)
(*                                                                         *)
(* The main thread owns the scene.  A timer makes it render: it posts an   *)
(* event to the render thread and waits on a condition until that thread   *)
(* has copied the scene; the image comes later, as a posted event.  It     *)
(* makes and unmakes the context of the render thread by calls that block. *)
(***************************************************************************)
EXTENDS Naturals, Sequences

CONSTANT MaxFrames  \* bound: images that are rendered

VARIABLES
  main,        \* what the main thread is doing
  view,        \* does the view exist?
  renderer,    \* none, created, initialized or stopped
  renderTimer, \* _renderTimer
  stopTimer,   \* _stopRenderingDelayTimer
  tasks,       \* the event queue of the render thread
  render,      \* what the render thread is doing: idle, sync or render
  mutex,       \* who holds QuickRenderer::_mutex
  frames,      \* how many images have been rendered
  images       \* the images on their way to the main thread

renderThread == <<renderer, tasks, render>>
timers == <<renderTimer, stopTimer>>
quickVars == <<main, view, renderThread, timers, mutex, frames, images>>

(* The main thread is kept from its loop, which a file does not need to be  *)
(* loaded, and what is remote does.                                        *)
Loading(url) == IF url = "remote" THEN "loadRemote" ELSE "load"

RendererInit ==
    /\ main \in {Loading("file"), Loading("remote")}
    /\ view = TRUE /\ renderer = "none"
    /\ renderTimer = FALSE /\ stopTimer = FALSE
    /\ tasks = <<>> /\ render = "idle" /\ mutex = "nobody"
    /\ frames = 0 /\ images = <<>>

InLoop == main = "loop"

(* The main thread blocks until the render thread has run this task.       *)
Invoke(task) == main' = task /\ tasks' = Append(tasks, task)

-----------------------------------------------------------------------------
(* The main thread                                                         *)

(* What the file may be: an item of a scene, some other object, a component*)
(* that cannot be created, or one with errors.                             *)
Components == {"item", "object", "uncreatable", "erroneous"}

(* How often _loadPromise is set: a component with errors is created all   *)
(* the same, which fails as well.                                          *)
TimesSet(component) == IF component = "erroneous" THEN 2 ELSE 1

(* A promise that is set twice throws in a slot; the constructor throws    *)
(* when there is no item.                                                  *)
SetupRootItem(component) ==
    /\ main = "load"
    /\ main' = IF TimesSet(component) > 1 THEN "crashed"
               ELSE IF component = "item" THEN "loop" ELSE "failed"
    /\ UNCHANGED <<view, renderThread, timers, mutex, frames, images>>

(* The scene has changed: _requestRender.                                  *)
RequestRender ==
    /\ InLoop /\ view
    /\ stopTimer' = FALSE /\ renderTimer' = TRUE
    /\ UNCHANGED <<main, view, renderThread, mutex, frames, images>>

(* The render timer: _render, which first creates the renderer and its     *)
(* thread.                                                                 *)
InitRenderer ==
    /\ InLoop /\ renderTimer /\ renderer = "none"
    /\ renderer' = "created"
    /\ Invoke("createGLContext")
    /\ UNCHANGED <<view, timers, render, mutex, frames, images>>

InitRenderControl ==
    /\ main = "contextCreated"
    /\ Invoke("initRenderControl")
    /\ UNCHANGED <<view, renderer, timers, render, mutex, frames, images>>

(* Images that are requested and not rendered yet (for the bound).         *)
Pending ==
    Len(SelectSeq(tasks, LAMBDA t : t = "render"))
      + IF render = "idle" THEN 0 ELSE 1

Render ==
    /\ \/ main = "controlInitialized"
       \/ InLoop /\ renderTimer /\ renderer # "none"
    /\ frames + Pending < MaxFrames
    /\ main' = "post"
    /\ UNCHANGED <<view, renderThread, timers, mutex, frames, images>>

(* Mutant: the event is posted before the mutex is locked.                 *)
PostRender_Unlocked ==
    /\ main = "post"
    /\ tasks' = Append(tasks, "render")
    /\ main' = "wait"
    /\ UNCHANGED <<view, renderer, timers, render, mutex, frames, images>>

PostRender ==
    /\ main = "post" /\ mutex = "nobody"
    /\ mutex' = "main"
    /\ tasks' = Append(tasks, "render")
    /\ main' = "wait"
    /\ UNCHANGED <<view, renderer, timers, render, frames, images>>

(* QWaitCondition::wait gives the mutex back as it begins to wait.         *)
WaitForSync ==
    /\ main = "wait" /\ mutex \in {"main", "nobody"}
    /\ mutex' = "nobody"
    /\ main' = "waiting"
    /\ UNCHANGED <<view, renderThread, timers, frames, images>>

(* ... and locks it again; then _render starts the timer that ends it all. *)
Synced ==
    /\ main = "woken" /\ mutex = "nobody"
    /\ main' = "loop"
    /\ stopTimer' = TRUE
    /\ UNCHANGED <<view, renderThread, renderTimer, mutex, frames, images>>

StopRendering ==
    /\ InLoop /\ stopTimer
    /\ stopTimer' = FALSE /\ renderTimer' = FALSE
    /\ UNCHANGED <<main, view, renderThread, mutex, frames, images>>

(* ~OffscreenQuickView, up to the call that stops the renderer; what has   *)
(* it destroyed goes on afterwards.                                        *)
DestroyView(then) ==
    /\ renderTimer' = FALSE /\ stopTimer' = FALSE
    /\ IF renderer = "none"
       THEN main' = then /\ view' = FALSE /\ UNCHANGED tasks
       ELSE Invoke("stop") /\ UNCHANGED view
    /\ UNCHANGED <<renderer, render, mutex, frames, images>>

(* The thread quits its event loop, when it is back in it.                 *)
JoinRenderThread(then) ==
    /\ main = "stopped" /\ render = "idle"
    /\ renderer' = "none" /\ tasks' = <<>>
    /\ main' = then /\ view' = FALSE
    /\ UNCHANGED <<timers, render, mutex, frames, images>>

-----------------------------------------------------------------------------
(* The render thread                                                       *)

NextTask(task) ==
    /\ render = "idle" /\ tasks # <<>> /\ Head(tasks) = task
    /\ tasks' = Tail(tasks)

CreateGLContext ==
    /\ NextTask("createGLContext")
    /\ main' = "contextCreated"
    /\ UNCHANGED <<view, renderer, timers, render, mutex, frames, images>>

RunInitRenderControl ==
    /\ NextTask("initRenderControl")
    /\ renderer' = "initialized"
    /\ main' = "controlInitialized"
    /\ UNCHANGED <<view, timers, render, mutex, frames, images>>

(* _onRender: nothing, and nobody is woken, before the initialization and  *)
(* after the end.                                                          *)
OnRender ==
    /\ NextTask("render")
    /\ IF renderer = "initialized"
       THEN mutex = "nobody" /\ mutex' = "render" /\ render' = "sync"
       ELSE UNCHANGED <<mutex, render>>
    /\ UNCHANGED <<main, view, renderer, timers, frames, images>>

(* A condition wakes who is waiting already.                               *)
Sync ==
    /\ render = "sync"
    /\ render' = "render"
    /\ mutex' = "nobody"
    /\ main' = IF main = "waiting" THEN "woken" ELSE main
    /\ UNCHANGED <<view, renderer, timers, tasks, frames, images>>

(* The image is taken from the framebuffer in the render thread, and posted*)
(* to the main thread.                                                     *)
TakeFromFramebuffer ==
    /\ frames' = frames + 1
    /\ images' = Append(images, frames + 1)

AfterRender ==
    /\ render = "render"
    /\ render' = "idle"
    /\ TakeFromFramebuffer
    /\ UNCHANGED <<main, view, renderer, timers, tasks, mutex>>

OnStop ==
    /\ NextTask("stop")
    /\ renderer' = "stopped"
    /\ main' = "stopped"
    /\ UNCHANGED <<view, timers, render, mutex, frames, images>>

RenderThread ==
    \/ CreateGLContext \/ RunInitRenderControl
    \/ OnRender \/ Sync \/ AfterRender \/ OnStop

(* The main thread going on with what it has begun.                        *)
Handshake == InitRenderControl \/ PostRender \/ WaitForSync \/ Synced

Timers == InitRenderer \/ Render \/ StopRendering

-----------------------------------------------------------------------------
(* While the render thread copies the scene the main thread waits, so that *)
(* nothing changes the scene meanwhile.                                    *)
SceneAtRest == render = "sync" => main = "waiting"
=============================================================================
