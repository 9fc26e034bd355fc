----------------------------- MODULE QmlStreamer -----------------------------
(***************************************************************************)
(* A QML scene that is streamed (deflect/qt/QmlStreamerImpl.cpp), with the *)
(* view that renders it, and the events of the stream's window that go to  *)
(* the scene (EventReceiver.cpp and TouchInjector.cpp).                    *)
(*                                                                         *)
(* Everything but the rendering and the sending happens in the main thread:*)
(* each image that was rendered is a posted event, whose slot opens the    *)
(* stream, waits for the image before it, and sends.  The stream ends when *)
(* the server says so, when the scene's view is destroyed with it, or with *)
(* the streamer.                                                           *)
(*                                                                         *)
(* The program ends ("crashed") where it uses what has been destroyed, or  *)
(* was never there.                                                        *)
(***************************************************************************)
EXTENDS QuickRenderer, FiniteSets

CONSTANTS Destroys, \* the modes (async) in which the streamer may be destroyed
                    \* before the stream ends
          Touches,  \* identifiers of touch points
          Sizes     \* sizes of the window, 0: empty or unspecified

VARIABLES
  async,      \* _asyncSend
  hasId,      \* was the streamer given an identifier?
  destroying, \* is ~Impl under way, or done?
  stream,     \* is there a Stream?
  receiver,   \* does its EventReceiver listen?
  future,     \* _sendFuture: true, false, pending or invalid
  image,      \* the image in _image, 0: freed
  next,       \* the image whose slot runs
  sending,    \* the image that the send thread reads, 0: none
  closed,     \* how often streamClosed was emitted
  mouseTimer, \* is _mouseModeTimer active?
  mouseMode,  \* _mouseMode
  far,        \* has the touch moved away from where it began?
  injecting,  \* is the receiver connected to the touch injector?
  touches,    \* TouchInjector::_touchPointMap
  window,     \* what the window was told last: pressed points, mouse button
  hints       \* _sizeHints: minimum and maximum

streamer == <<async, hasId, destroying>>
rendering == <<view, renderThread, timers, mutex, frames>>
sendVars == <<streamer, stream, receiver, future, image, next, sending, closed>>
touchVars == <<mouseTimer, mouseMode, far, injecting, touches, window>>
inputVars == <<touchVars, hints>>
qmlVars == <<quickVars, sendVars, inputVars>>

UNSPECIFIED_SIZE == 0

QmlInit ==
    /\ RendererInit
    /\ async \in BOOLEAN /\ hasId \in BOOLEAN /\ destroying = FALSE
    /\ stream = FALSE /\ receiver = FALSE /\ future = "true"
    /\ image = 0 /\ next = 0 /\ sending = 0 /\ closed = 0
    /\ mouseTimer = FALSE /\ mouseMode = FALSE /\ far = FALSE
    /\ injecting = FALSE /\ touches = {}
    /\ window = [points |-> {}, button |-> FALSE]
    /\ hints = [min |-> UNSPECIFIED_SIZE, max |-> UNSPECIFIED_SIZE]

-----------------------------------------------------------------------------
(* Images                                                                  *)

(* Mutant: the buffer of the last image is used again while it is sent.    *)
TakeImage_AtOnce ==
    /\ InLoop /\ images # <<>>
    /\ images' = Tail(images)
    /\ image' = Head(images) /\ next' = Head(images)
    /\ main' = "getFuture"
    /\ UNCHANGED <<streamer, rendering, stream, receiver, future, sending,
                   closed, inputVars>>

(* The slot _afterRender begins: it waits for the image before.            *)
TakeImage ==
    /\ InLoop /\ images # <<>>
    /\ images' = Tail(images)
    /\ IF future = "invalid" THEN UNCHANGED <<main, next>>
       ELSE main' = "getFuture" /\ next' = Head(images)
    /\ UNCHANGED <<streamer, rendering, stream, receiver, future, image,
                   sending, closed, inputVars>>

(* One that could not be sent is the last: its future is not valid any more*)
GetFuture ==
    /\ main = "getFuture" /\ future # "pending"
    /\ future' = "invalid"
    /\ main' = IF future = "false" THEN "loop"
               ELSE IF stream THEN "send" ELSE "setup"
    /\ UNCHANGED <<streamer, rendering, images, stream, receiver, image, next,
                   sending, closed, inputVars>>

(* Without an identifier the streamer asks the scene for one.              *)
NeedsView == ~hasId

ConnectTouchInjector == injecting' = TRUE

(* _setupDeflectStream: the server may not be there, or not accept the     *)
(* registration for events.                                                *)
SetupDeflectStream ==
    \/ /\ main' = "send"
       /\ stream' = TRUE /\ receiver' = TRUE
       /\ ConnectTouchInjector
    \/ /\ main' = "close"
       /\ stream' \in BOOLEAN
       /\ UNCHANGED <<receiver, injecting>>

SetupStream ==
    /\ main = "setup"
    /\ IF NeedsView /\ ~view
       THEN main' = "crashed" /\ UNCHANGED <<stream, receiver, injecting>>
       ELSE SetupDeflectStream
    /\ UNCHANGED <<streamer, rendering, images, future, image, next, sending,
                   closed, mouseTimer, mouseMode, far, touches, window, hints>>

SendImage ==
    /\ main = "send"
    /\ image' = next /\ sending' = next
    /\ future' = "pending"
    /\ main' = IF async THEN "loop" ELSE "waitSent"
    /\ UNCHANGED <<streamer, rendering, images, stream, receiver, next, closed,
                   inputVars>>

(* An empty image is not sent, and none after it: the future was read.     *)
SkipEmptyImage ==
    /\ main = "send"
    /\ main' = "loop"
    /\ UNCHANGED <<rendering, images, sendVars, inputVars>>

WaitSent ==
    /\ main = "waitSent" /\ future # "pending"
    /\ main' = "loop"
    /\ UNCHANGED <<rendering, images, sendVars, inputVars>>

(* The send thread has compressed and sent the image, or has failed.       *)
CompleteSend ==
    /\ sending # 0
    /\ sending' = 0
    /\ future' \in {"true", "false"}
    /\ UNCHANGED <<streamer, quickVars, stream, receiver, image, next, closed,
                   inputVars>>

-----------------------------------------------------------------------------
(* The end of the stream                                                   *)

(* EVT_CLOSE, or the connection is gone: _onStreamClosed.                  *)
ReceiveClose ==
    /\ InLoop /\ receiver
    /\ main' = "close"
    /\ UNCHANGED <<rendering, images, sendVars, inputVars>>

(* The view goes, if it is there still, and has its renderer stopped first.*)
ResetView(then) ==
    IF view THEN DestroyView(then)
    ELSE main' = then /\ UNCHANGED <<rendering, images>>

CloseView ==
    /\ main = "close"
    /\ ResetView("terminate")
    /\ UNCHANGED <<sendVars, inputVars>>

JoinThread ==
    /\ JoinRenderThread(IF destroying THEN "destroyed" ELSE "terminate")
    /\ UNCHANGED <<sendVars, inputVars>>

Terminate ==
    /\ main = "terminate" /\ future # "pending"
    /\ stream' = FALSE /\ receiver' = FALSE
    /\ closed' = closed + 1
    /\ main' = "loop"
    /\ injecting' = FALSE
    /\ UNCHANGED <<streamer, rendering, images, future, image, next, sending,
                   mouseTimer, mouseMode, far, touches, window, hints>>

(* ~Impl destroys the members in the reverse order of their declaration:   *)
(* the image among the first, then the stream, which waits for its send    *)
(* thread, and the view at last, which has its render thread stopped.      *)
Destroy ==
    /\ async \in Destroys /\ InLoop
    /\ main' = "destroy" /\ destroying' = TRUE
    /\ image' = 0 /\ mouseTimer' = FALSE /\ receiver' = FALSE
    /\ images' = <<>>
    /\ UNCHANGED <<async, hasId, rendering, stream, future, next, sending, closed,
                   mouseMode, far, injecting, touches, window, hints>>

DestroyStream ==
    /\ main = "destroy" /\ sending = 0
    /\ stream' = FALSE
    /\ ResetView("destroyed")
    /\ UNCHANGED <<streamer, receiver, future, image, next, sending, closed,
                   inputVars>>

-----------------------------------------------------------------------------
(* Events of the window                                                    *)

(* The slots of the events run in the loop, while the receiver listens.    *)
Listening == InLoop /\ receiver

Keeps == UNCHANGED <<rendering, images,
                     sendVars, hints>>

(* Positions are those of the view, which is gone when the stream was      *)
(* opened by an image that came after the end.                             *)
OnScene(action) ==
    IF view THEN action /\ UNCHANGED main
    ELSE main' = "crashed" /\ UNCHANGED touchVars

SendMouseEvent(down) == window' = [window EXCEPT !.button = down]

(* The finger may be on a web view: then it may become a mouse.            *)
StartDetection ==
    /\ mouseTimer' \in {mouseTimer, TRUE}
    /\ far' = IF mouseTimer' THEN FALSE ELSE far
    /\ UNCHANGED <<mouseMode, injecting, touches, window>>

(* Where the scene has no item, the null pointer to it is used.            *)
HitNothing == main' = "crashed" /\ UNCHANGED touchVars

Press ==
    /\ Listening
    /\ OnScene(StartDetection) \/ HitNothing
    /\ Keeps

Follow ==
    /\ far' \in IF mouseMode THEN {far} ELSE BOOLEAN
    /\ UNCHANGED <<mouseTimer, mouseMode, injecting, touches, window>>

Move ==
    /\ Listening
    /\ mouseMode \/ mouseTimer
    /\ OnScene(Follow)
    /\ Keeps

SwitchBackToTouchMode ==
    /\ mouseMode' = FALSE
    /\ ConnectTouchInjector

ReleaseMouse ==
    /\ mouseTimer' = FALSE
    /\ SendMouseEvent(FALSE)
    /\ SwitchBackToTouchMode
    /\ UNCHANGED <<far, touches>>

Release ==
    /\ Listening
    /\ IF mouseMode THEN OnScene(ReleaseMouse)
       ELSE /\ mouseTimer' = FALSE
            /\ UNCHANGED <<main, mouseMode, far, injecting, touches, window>>
    /\ Keeps

(* Mutant: the points stay pressed.                                        *)
SwitchFromTouchToMouseMode_PointsStay ==
    /\ mouseMode' = TRUE /\ injecting' = FALSE
    /\ window' = [window EXCEPT !.button = TRUE]
    /\ UNCHANGED touches

SwitchFromTouchToMouseMode ==
    /\ mouseMode' = TRUE /\ injecting' = FALSE
    /\ touches' = {}
    /\ window' = [points |-> {}, button |-> TRUE]

(* The touch was held for 200 ms and has not moved: it becomes a mouse,    *)
(* which asks the receiver not to send its points to the injector.         *)
HoldTimeout ==
    /\ InLoop /\ mouseTimer
    /\ mouseTimer' = FALSE
    /\ IF far THEN UNCHANGED <<main, mouseMode, injecting, touches, window>>
       ELSE IF ~receiver
            THEN main' = "crashed"
                 /\ UNCHANGED <<mouseMode, injecting, touches, window>>
            ELSE SwitchFromTouchToMouseMode /\ UNCHANGED main
    /\ UNCHANGED far
    /\ Keeps

(* TouchInjector: the window is told all points each time.                 *)
HandleEvent(points) ==
    /\ touches' = points
    /\ window' = [window EXCEPT !.points = points]
    /\ UNCHANGED <<mouseTimer, mouseMode, far, injecting>>

Inject(points) ==
    /\ Listening /\ injecting
    /\ OnScene(HandleEvent(points))
    /\ Keeps

(* A point is added once, and moved or removed when it has been added.     *)
AddTouchPoint(id) == id \notin touches /\ Inject(touches \cup {id})

UpdateTouchPoint(id) == id \in touches /\ Inject(touches)

RemoveTouchPoint(id) == id \in touches /\ Inject(touches \ {id})

(* The key goes to the item of the scene that has the focus.               *)
KeyPress ==
    /\ Listening
    /\ OnScene(UNCHANGED touchVars)
    /\ Keeps

(* The scene says which sizes it likes.                                    *)
SizeHints == [min : Sizes, max : Sizes]

ChangeHints(min, max) ==
    /\ InLoop /\ view
    /\ hints' = [min |-> min, max |-> max]
    /\ UNCHANGED <<quickVars, sendVars, touchVars>>

IsWithinSizeHintsRange(size) ==
    /\ size # 0
    /\ hints.min # UNSPECIFIED_SIZE => hints.min <= size
    /\ hints.max # UNSPECIFIED_SIZE => size <= hints.max

(* A size that it does not like is ignored.                                *)
Resize(size) ==
    /\ Listening
    /\ IsWithinSizeHintsRange(size)
    /\ OnScene(UNCHANGED touchVars)
    /\ Keeps

-----------------------------------------------------------------------------
Quick(action) == action /\ UNCHANGED <<sendVars, inputVars>>

Images ==
    \/ TakeImage \/ GetFuture \/ SetupStream
    \/ SkipEmptyImage \/ SendImage \/ WaitSent

Closing == CloseView \/ JoinThread \/ Terminate \/ DestroyStream

Input ==
    \/ Press \/ Move \/ Release
    \/ KeyPress
    \/ \E id \in Touches :
         AddTouchPoint(id) \/ UpdateTouchPoint(id) \/ RemoveTouchPoint(id)
    \/ \E size \in Sizes : Resize(size)

QmlNext ==
    \/ \E component \in Components : Quick(SetupRootItem(component))
    \/ Quick(RequestRender) \/ Quick(Timers) \/ Quick(Handshake)
    \/ Quick(RenderThread)
    \/ Images \/ CompleteSend
    \/ ReceiveClose \/ Closing \/ Destroy
    \/ Input \/ HoldTimeout
    \/ \E min \in Sizes, max \in Sizes : ChangeHints(min, max)

(* The threads run: the main thread goes on with what it has begun, and    *)
(* gets to the images; the render and the send thread do their work.       *)
QmlSpec ==
    /\ QmlInit /\ [][QmlNext]_qmlVars
    /\ WF_qmlVars(\E component \in Components : Quick(SetupRootItem(component)))
    /\ WF_qmlVars(Quick(Handshake)) /\ WF_qmlVars(Quick(RenderThread))
    /\ WF_qmlVars(Quick(Render) /\ ~InLoop)
    /\ WF_qmlVars(Images) /\ WF_qmlVars(Closing) /\ WF_qmlVars(CompleteSend)

-----------------------------------------------------------------------------
(* Every variable has its type.                                            *)
QmlTypeOK ==
    /\ main \in {"load", "loadRemote", "failed", "loop",
                 "createGLContext", "contextCreated",
                 "initRenderControl", "controlInitialized", "post", "wait",
                 "waiting", "woken", "stop", "stopped", "getFuture", "setup",
                 "send", "waitSent", "close", "terminate", "destroy",
                 "destroyed", "crashed"}
    /\ renderer \in {"none", "created", "initialized", "stopped"}
    /\ render \in {"idle", "sync", "render"}
    /\ mutex \in {"nobody", "main", "render"}
    /\ frames <= MaxFrames /\ image \in 0 .. MaxFrames
    /\ \A i \in DOMAIN images : images[i] \in 1 .. frames
    /\ future \in {"true", "false", "pending", "invalid"}
    /\ (sending # 0) = (future = "pending")
    /\ receiver => stream
    /\ touches \subseteq Touches /\ window.points \subseteq Touches
    /\ {async, hasId, destroying, far, mouseTimer} \subseteq BOOLEAN
    /\ hints \in SizeHints

(* The image that the send thread reads is not replaced or freed: Stream   *)
(* does not copy it.                                                       *)
ImageKept == sending # 0 => image = sending

(* The window is never touched and held by a mouse button at the same time,*)
(* it knows the points the injector knows, and its button is down exactly  *)
(* in mouse mode, whatever the fingers do while one becomes a mouse and a  *)
(* finger again.  A window that is gone with its stream is not spoken of.  *)
OneKindOfInput ==
    view => /\ window.points = touches
            /\ window.button = mouseMode
            /\ mouseMode => touches = {} /\ ~injecting

(* Where nothing keeps the main thread: in its loop, and with a streamer   *)
(* that could not be constructed, or has been destroyed.                   *)
Free == main \in {"loop", "failed", "destroyed"}

(* An image that comes after the end of the stream opens another one, and  *)
(* asks the view that is gone for the identifier: the program crashes.     *)
Doomed == main \in {"getFuture", "setup"} /\ ~view /\ ~stream /\ NeedsView

(* The main thread always comes back from what blocks it: the render thread*)
(* that makes a context, copies the scene, or is stopped and joined, the   *)
(* send thread, the end of the stream, and ~Impl with all its waits.  Not  *)
(* from the loading of a remote scene, and not from a crash: the use of the*)
(* view that is gone, and a file with errors (which is still to be loaded).*)
Blocked == ~Free /\ ~Doomed /\ main \notin {"load", "loadRemote", "crashed"}

MainReturns == Blocked ~> Free
=============================================================================
