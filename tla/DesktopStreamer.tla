--------------------------- MODULE DesktopStreamer ---------------------------
(***************************************************************************)
(* The application that shares a desktop or some windows of it             *)
(* (apps/DesktopStreamer: MainWindow.cpp and Stream.cpp).                  *)
(*                                                                         *)
(* All of it runs in the main thread.  A timer or a click makes it update: *)
(* it opens the streams that are missing, looks at the events of each,     *)
(* sends each one's next image, and starts the timer again.  It waits only *)
(* for the send thread of a stream: before the next image, and before the  *)
(* stream is destroyed.                                                    *)
(***************************************************************************)
EXTENDS Naturals, Sequences, FiniteSets

CONSTANTS
  Windows,   \* that can be selected, the desktop is one
  Desktop,   \* what is shared when windows are not selected
  Images     \* what a window may look like

ASSUME DesktopAssumption ==
    Desktop \notin Windows /\ IsFiniteSet(Windows) /\ 0 \notin Images

VARIABLES
  main,         \* what the main thread is doing
  turns,        \* the streams that are still to be updated
  checked,      \* _streamButton
  multi,        \* _actionMultiWindowMode: is it checked?
  multiEnabled, \* ... and enabled?
  remote,       \* _remoteControlCheckBox
  selected,     \* _listView: the windows that are selected
  timer,        \* _updateTimer
  streams,      \* _streams
  dying,        \* streams that are about to be destroyed
  dismissed     \* history: what the server has closed since the user asked

gui == <<checked, multi, multiEnabled, remote, selected>>
vars == <<main, turns, gui, timer, streams, dying, dismissed>>

Open == DOMAIN streams

(* future: of _lastSend; sending: the image that the send thread reads.    *)
NewStream(registered) ==
    [connected |-> TRUE, registered |-> registered, close |-> FALSE,
     future |-> "invalid", image |-> 0, sending |-> 0]

Init ==
    /\ main = "loop" /\ turns = {}
    /\ checked = FALSE /\ multi = FALSE /\ multiEnabled = TRUE
    /\ remote = TRUE /\ selected = {}
    /\ timer = FALSE
    /\ streams = <<>> /\ dying = {} /\ dismissed = {}

Only(keys) == [k \in keys |-> streams[k]]

(* A stream that is destroyed waits for its send thread first.             *)
Release(keys) ==
    /\ streams' = Only(Open \ keys)
    /\ dying' = dying \cup {streams[k] : k \in keys}

Waits(stream) == stream.future = "pending"

-----------------------------------------------------------------------------
(* The user                                                                *)

InLoop == main = "loop"

(* The mode cannot be changed while the button is checked.                 *)
Click ==
    /\ InLoop
    /\ checked' = ~checked /\ multiEnabled' = checked
    /\ main' = "update"
    /\ dismissed' = {}
    /\ UNCHANGED <<turns, multi, remote, selected, timer, streams, dying>>

(* The list of windows is shown with one of them selected.                 *)
ShowMultiWindowMode == \E w \in Windows : selected' = {w}

ShowSingleWindowMode == UNCHANGED selected

ChangeMode ==
    /\ InLoop /\ multiEnabled
    /\ multi' = ~multi
    /\ IF multi' THEN ShowMultiWindowMode ELSE ShowSingleWindowMode
    /\ UNCHANGED <<main, turns, checked, multiEnabled, remote, timer, streams,
                   dying, dismissed>>

Select(w) ==
    /\ InLoop /\ multi
    /\ selected' = IF w \in selected THEN selected \ {w}
                                     ELSE selected \cup {w}
    /\ dismissed' = dismissed \ {w}
    /\ UNCHANGED <<main, turns, checked, multi, multiEnabled, remote, timer,
                   streams, dying>>

(* _onStreamEventsBoxClicked: the server may not answer.                   *)
ClickRemote ==
    /\ InLoop
    /\ remote' = ~remote
    /\ LET asking == {k \in Open : remote' /\ streams[k].connected}
       IN \E accepted \in SUBSET asking :
            streams' = [k \in Open |-> [streams[k] EXCEPT
                          !.registered = @ \/ k \in accepted]]
    /\ UNCHANGED <<main, turns, checked, multi, multiEnabled, selected, timer,
                   dying, dismissed>>

(* closeEvent: the button is unchecked without a click; the application    *)
(* ends with its window.                                                   *)
Close ==
    /\ InLoop
    /\ checked' = FALSE
    /\ main' = "close"
    /\ UNCHANGED <<turns, multi, multiEnabled, remote, selected, timer,
                   streams, dying, dismissed>>

-----------------------------------------------------------------------------
(* _update                                                                 *)

Timeout ==
    /\ InLoop /\ timer
    /\ main' = "update"
    /\ UNCHANGED <<turns, gui, timer, streams, dying, dismissed>>

Update ==
    /\ main = "update"
    /\ main' = IF checked THEN "streams" ELSE "stop"
    /\ UNCHANGED <<turns, gui, timer, streams, dying, dismissed>>

(* _updateStreams: to connect may fail; the others are tried all the same. *)
(* What is no longer selected is destroyed.                                *)
Wanted == IF multi THEN selected
          ELSE IF Open = {} THEN {Desktop} ELSE Open

UpdateStreams ==
    /\ main = "streams" /\ dying = {}
    /\ \E made \in SUBSET (Wanted \ Open) :
         /\ streams' = [k \in (Open \cap Wanted) \cup made |->
                         IF k \in Open THEN streams[k] ELSE NewStream(remote)]
         /\ timer' = (timer \/ (~multi /\ made # {}))
    /\ dying' = {streams[k] : k \in Open \ Wanted}
    /\ main' = "events"
    /\ UNCHANGED <<turns, gui, dismissed>>

Destroyed == \A stream \in dying : ~Waits(stream)

(* Stream::processEvents, up to EVT_CLOSE; the other events move the mouse,*)
(* where there is one to move.                                             *)
SaysClose(stream) == stream.close

(* _processStreamEvents: a stream that is closed is erased and deselected. *)
ProcessEvents ==
    /\ main = "events" /\ Destroyed
    /\ LET closed == {k \in Open : SaysClose(streams[k])} IN
       /\ streams' = Only(Open \ closed)
       /\ dying' = {streams[k] : k \in closed}
       /\ turns' = Open \ closed
       /\ checked' = (checked /\ (multi \/ closed = {}))
       /\ selected' = IF multi THEN selected \ closed ELSE selected
       /\ dismissed' = dismissed \cup closed
    /\ main' = "share"
    /\ UNCHANGED <<multi, multiEnabled, remote, timer>>

(* What a stream grabs, with the cursor painted on it; there may be none.  *)
NoPixmap == 0
Grabbed == Images \cup {NoPixmap}

ShareImage(k, image) ==
    /\ streams[k].future \in {"invalid", "true"}
    /\ streams' = [streams EXCEPT ![k].image = image,
                     ![k].future = "pending", ![k].sending = image]
    /\ UNCHANGED dying

(* One stream of _shareDesktopUpdate: the same image as before is not sent *)
(* again, unless it is kept with its colors swapped, when it is not        *)
(* compressed; the last send must have been successful.                    *)
ShareDesktop(k, image, compress) ==
    IF image = NoPixmap THEN Release({k})
    ELSE IF compress /\ image = streams[k].image
    THEN UNCHANGED <<streams, dying>>
    ELSE IF streams[k].future = "false" THEN Release({k})
    ELSE ShareImage(k, image)

Share ==
    /\ main = "share" /\ Destroyed
    /\ IF turns = {}
       THEN main' = "regulate" /\ UNCHANGED <<turns, streams, dying>>
       ELSE \E k \in turns :
              /\ turns' = turns \ {k} /\ main' = main
              /\ \E image \in Grabbed, compress \in BOOLEAN :
                   ShareDesktop(k, image, compress)
    /\ UNCHANGED <<gui, timer, dismissed>>

(* _regulateFrameRate starts the timer, also when the button was unchecked.*)
Regulate ==
    /\ main = "regulate"
    /\ timer' = TRUE /\ dying' = {}
    /\ main' = "loop"
    /\ UNCHANGED <<turns, gui, streams, dismissed>>

(* Mutant: the timer is not stopped.                                       *)
StopStreaming_TimerRuns ==
    /\ main \in {"stop", "close"}
    /\ Release(Open)
    /\ main' = IF main = "stop" THEN "stopping" ELSE "closing"
    /\ UNCHANGED <<turns, gui, timer, dismissed>>

StopStreaming ==
    /\ main \in {"stop", "close"}
    /\ timer' = FALSE
    /\ Release(Open)
    /\ main' = IF main = "stop" THEN "stopping" ELSE "closing"
    /\ UNCHANGED <<turns, gui, dismissed>>

Stopped ==
    /\ main \in {"stopping", "closing"} /\ Destroyed
    /\ dying' = {}
    /\ main' = IF main = "stopping" THEN "loop" ELSE "closed"
    /\ UNCHANGED <<turns, gui, timer, streams, dismissed>>

-----------------------------------------------------------------------------
(* The send threads and the server                                         *)

Done(stream, success) ==
    [stream EXCEPT !.sending = 0, !.future = IF success THEN "true" ELSE "false"]

SendImage(k) ==
    /\ streams[k].sending # 0
    /\ streams' = [streams EXCEPT ![k] = Done(@, @.connected)]
    /\ UNCHANGED dying

SendLastImage(stream) ==
    /\ stream.sending # 0
    /\ dying' = (dying \ {stream}) \cup {Done(stream, stream.connected)}
    /\ UNCHANGED streams

(* EVT_CLOSE, to who has registered; and the connection is closed.         *)
ServerCloses(k) ==
    /\ streams[k].connected
    /\ streams' = [streams EXCEPT ![k].connected = FALSE,
                                  ![k].close = streams[k].registered]
    /\ UNCHANGED dying

Sends ==
    /\ \/ \E k \in Open : SendImage(k)
       \/ \E stream \in dying : SendLastImage(stream)
    /\ UNCHANGED <<main, turns, gui, timer, dismissed>>

Server ==
    /\ \E k \in Open : ServerCloses(k)
    /\ UNCHANGED <<main, turns, gui, timer, dismissed>>

-----------------------------------------------------------------------------
User ==
    Click \/ ChangeMode \/ ClickRemote \/ Close \/ \E w \in Windows : Select(w)

Main ==
    \/ Timeout \/ Update \/ UpdateStreams \/ ProcessEvents \/ Share \/ Regulate
    \/ StopStreaming \/ Stopped

Next == User \/ Main \/ Sends \/ Server

(* Timers fire, the main thread goes on, and so do the send threads.       *)
Spec == Init /\ [][Next]_vars /\ WF_vars(Main) /\ WF_vars(Sends)

-----------------------------------------------------------------------------
(* Whatever unchecks the button, in the end all streams are closed and the *)
(* timer is stopped, unless the user goes on.                              *)
StopsInTheEnd ==
    ~checked ~> checked \/ (Open = {} /\ ~timer)
=============================================================================
