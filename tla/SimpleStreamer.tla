--------------------------- MODULE SimpleStreamer ---------------------------
(***************************************************************************)
(* The example application (apps/SimpleStreamer/main.cpp), several of them *)
(* on one stream: one may send the left eye and another one the right.     *)
(*                                                                         *)
(* Each application has one thread, which draws, sends the views of all    *)
(* channels one after the other, waits for the result of each, finishes    *)
(* the frame and looks at its events.  The server gathers the tiles in a   *)
(* ReceiveBuffer; its application asks for frames, sends events and closes *)
(* the stream when it likes.                                               *)
(***************************************************************************)
EXTENDS ReceiveBuffer, SequencesExt

CONSTANTS
  Apps,       \* processes
  Arguments,  \* the options each may be started with: sets of letters
  MaxFinished \* bound: frames each finishes

\* Frame numbers do not wrap around.
ASSUME StreamerAssumption ==
    \A a \in Apps : MaxFinished[a] \in 0 .. FrameIndexSpan - 1

VARIABLES
  options,     \* what the command line says
  pc,          \* where display() is; or start, exited, failed, terminated
  window,      \* how large the window is, to who sends side by side
  plan,        \* the images that are still to be sent for this frame
  success,     \* of display()
  waitToStart, \* waitToStart
  firstEvent,  \* deflectFirstEventReceived
  clock,       \* of timeout(5): off, running or over
  finished,    \* history: frames an application has finished
  registered,  \* isRegisteredForEvents()
  connected,   \* isConnected()
  events,      \* that the application has not read
  wire,        \* messages to the server
  buffer,      \* the server's buffer of the stream
  shown        \* history: the frame that was dispatched last, its number, who were
               \* the sources of the buffer, and the tiles

display == <<plan, success, waitToStart, firstEvent, clock, finished>>
server == <<buffer, shown>>
streamerVars == <<options, pc, window, display, registered, connected, events,
                  wire, server>>

-----------------------------------------------------------------------------
(* readCommandLineArguments, by one of the processes.                      *)
ReadArguments(a, letters) ==
    [app |-> a,
     interaction |-> "i" \in letters,
     left |-> letters \cap {"l", "s"} # {},
     right |-> letters \cap {"r", "s"} # {},
     sideBySide |-> "2" \in letters,
     dualChannel |-> "c" \in letters]

All(value) == [a \in Apps |-> value]

StreamerInit ==
    /\ options \in {[a \in Apps |-> ReadArguments(a, letters[a])] :
                     letters \in {f \in [Apps -> UNION {Arguments[a] : a \in Apps}] :
                                   \A a \in Apps : f[a] \in Arguments[a]}}
    /\ pc = All("start") /\ window = All("large")
    /\ plan = All(<<>>) /\ success = All(FALSE)
    /\ waitToStart = All(FALSE) /\ firstEvent = All(FALSE)
    /\ clock = All("off") /\ finished = All(0)
    /\ registered = All(FALSE) /\ connected = All(FALSE)
    /\ events = All(<<>>) /\ wire = All(<<>>)
    /\ buffer = NewReceiveBuffer /\ shown = [turn |-> 0, of |-> {}, tiles |-> {}]

-----------------------------------------------------------------------------
(* What an application sends                                               *)

(* drawAndSend: the views of one channel.                                  *)
Views(o) ==
    IF o.sideBySide THEN <<"side_by_side">>
    ELSE IF o.left \/ o.right
         THEN (IF o.left THEN <<"left_eye">> ELSE <<>>) \o
              (IF o.right THEN <<"right_eye">> ELSE <<>>)
         ELSE <<"mono">>

Pass(o, channel) ==
    [n \in DOMAIN Views(o) |->
        [app |-> o.app, view |-> Views(o)[n], channel |-> channel]]

(* display: the second channel first.                                      *)
Passes(o) == IF o.dualChannel THEN Pass(o, 1) \o Pass(o, 0) ELSE Pass(o, 0)

(* An image of both eyes becomes tiles of each.  Of its pixels a tile tells *)
(* who has drawn them, and at which turn.                                  *)
TilesOf(image, turn) ==
    {[app |-> image.app, view |-> view, channel |-> image.channel, turn |-> turn] :
        view \in IF image.view = "side_by_side" THEN {"left_eye", "right_eye"}
                                                ELSE {image.view}}

(* send: an image of both eyes that is small enough to be sent as a single *)
(* segment is refused by an exception, that nobody catches.                *)
SendThrows(a) == Head(plan[a]).view = "side_by_side" /\ window[a] = "small"

Message(a, message) ==
    wire' = IF connected[a] THEN [wire EXCEPT ![a] = Append(@, message)]
                            ELSE wire

Goto(a, where) == pc' = [pc EXCEPT ![a] = where]

-----------------------------------------------------------------------------
(* An application                                                          *)

(* initDeflectStream                                                       *)
OpenStream(a) ==
    /\ pc[a] = "start"
    /\ Goto(a, "draw")
    /\ connected' = [connected EXCEPT ![a] = TRUE]
    /\ registered' = [registered EXCEPT ![a] = options[a].interaction]
    /\ wire' = [wire EXCEPT ![a] = <<[type |-> "open"]>>]
    /\ UNCHANGED <<options, window, display, events, server>>

CannotOpen(a) ==
    /\ pc[a] = "start"
    /\ Goto(a, "failed")
    /\ \/ UNCHANGED <<connected, wire>>
       \/ /\ options[a].interaction  \* "Could not register for events!"
          /\ connected' = [connected EXCEPT ![a] = TRUE]
          /\ wire' = [wire EXCEPT ![a] = <<[type |-> "open"], [type |-> "quit"]>>]
    /\ UNCHANGED <<options, window, display, registered, events, server>>

(* drawAndSend: who sends only one of the eyes waits for the first event,  *)
(* or some seconds since it first asked.                                   *)
OneEye(o) == ~o.sideBySide /\ o.left # o.right

Resize(a) ==
    /\ pc[a] = "draw" /\ options[a].sideBySide
    /\ \E size \in {"large", "small"} : window' = [window EXCEPT ![a] = size]
    /\ UNCHANGED <<options, pc, display, registered, connected, events, wire,
                   server>>

StartClock(a) ==
    clock' = IF clock[a] = "off" /\ OneEye(options[a]) /\ ~firstEvent[a]
             THEN [clock EXCEPT ![a] = "running"] ELSE clock

(* Mutant: it waits for the event only.                                    *)
MustWait_ForEvent(a) == OneEye(options[a]) /\ ~firstEvent[a]

MustWait(a) == OneEye(options[a]) /\ ~(firstEvent[a] \/ clock[a] = "over")

Draw(a) ==
    /\ pc[a] = "draw"
    /\ finished[a] < MaxFinished[a] \/ ~connected[a]
    /\ StartClock(a)
    /\ waitToStart' = [waitToStart EXCEPT ![a] = MustWait(a)]
    /\ success' = [success EXCEPT ![a] = FALSE]
    /\ IF MustWait(a)
       THEN Goto(a, "events") /\ UNCHANGED plan
       ELSE Goto(a, "send") /\ plan' = [plan EXCEPT ![a] = Passes(options[a])]
    /\ UNCHANGED <<options, window, firstEvent, finished, registered, connected,
                   events, wire, server>>

Terminate(a) ==
    /\ pc[a] = "send" /\ plan[a] # <<>> /\ SendThrows(a)
    /\ Goto(a, "terminated")
    /\ UNCHANGED <<options, window, display, registered, events, server>>
    /\ connected' = [connected EXCEPT ![a] = FALSE]
    /\ wire' = [wire EXCEPT ![a] = Append(@, [type |-> "quit"])]

(* The images that follow one that could not be sent are not sent, and the *)
(* frame is not finished.                                                  *)
SendView(a) ==
    /\ pc[a] = "send" /\ plan[a] # <<>> /\ ~SendThrows(a)
    /\ success' = [success EXCEPT ![a] = connected[a]]
    /\ Message(a, [type |-> "image",
                   tiles |-> TilesOf(Head(plan[a]), finished[a] + 1)])
    /\ plan' = [plan EXCEPT ![a] = IF connected[a] THEN Tail(@) ELSE <<>>]
    /\ UNCHANGED <<options, pc, window, waitToStart, firstEvent, clock,
                   finished, registered, connected, events, server>>

Finish(a) ==
    /\ pc[a] = "send" /\ plan[a] = <<>>
    /\ success' = [success EXCEPT ![a] = @ /\ connected[a]]
    /\ finished' = [finished EXCEPT ![a] = IF success'[a] THEN @ + 1 ELSE @]
    /\ IF success[a] THEN Message(a, [type |-> "finish"]) ELSE UNCHANGED wire
    /\ Goto(a, "events")
    /\ UNCHANGED <<options, window, plan, waitToStart, firstEvent, clock,
                   registered, connected, events, server>>

(* exit: the stream is destroyed.                                          *)
Exit(a, how) ==
    /\ Goto(a, how)
    /\ Message(a, [type |-> "quit"])

(* All the events that are there are looked at; none, by who has not       *)
(* registered.  Then the application goes on, or ends.                     *)
EndOfDisplay(a) ==
    /\ pc[a] = "events"
    /\ IF "close" \in ToSet(events[a])
       THEN Exit(a, "exited")
       ELSE IF success[a] \/ (waitToStart[a] /\ connected[a])
            THEN Goto(a, "draw") /\ UNCHANGED wire
            ELSE Exit(a, IF connected[a] THEN "failed" ELSE "exited")
    /\ firstEvent' = [firstEvent EXCEPT ![a] = @ \/ events[a] # <<>>]
    /\ events' = [events EXCEPT ![a] = <<>>]
    /\ UNCHANGED <<options, window, plan, success, waitToStart, clock, finished,
                   registered, connected, server>>

Step(a) ==
    \/ OpenStream(a) \/ CannotOpen(a) \/ Draw(a) \/ Terminate(a) \/ SendView(a)
    \/ Finish(a) \/ EndOfDisplay(a)

Timeout(a) ==
    /\ clock[a] = "running"
    /\ clock' = [clock EXCEPT ![a] = "over"]
    /\ UNCHANGED <<options, pc, window, plan, success, waitToStart, firstEvent,
                   finished, registered, connected, events, wire, server>>

-----------------------------------------------------------------------------
(* The server                                                              *)

(* closeConnection of the worker: EVT_CLOSE, to who has registered.        *)
Disconnect(who) ==
    /\ connected' = [a \in Apps |-> connected[a] /\ a \notin who]
    /\ events' = [a \in Apps |-> IF a \in who /\ registered[a]
                                 THEN Append(events[a], "close")
                                 ELSE events[a]]

CloseStream(rest) ==
    /\ Disconnect(SourcesOf(buffer))
    /\ wire' = [a \in Apps |-> IF a \in SourcesOf(buffer) THEN <<>> ELSE rest[a]]
    /\ buffer' = NewReceiveBuffer
    /\ UNCHANGED shown

(* A frame goes out when it is asked for and all sources have finished it. *)
Dispatch(b) ==
    IF b.allowed /\ HasCompleteFrame(b)
    THEN \E n \in LatestFrame(b) :
           /\ shown' = [turn |-> n, of |-> SourcesOf(b), tiles |-> TilesOfFrame(b, n)]
           /\ buffer' = Drained(b, n)
    ELSE buffer' = b /\ UNCHANGED shown

Taken(a) == [wire EXCEPT ![a] = Tail(@)]

Next1(a, type) == wire[a] # <<>> /\ Head(wire[a]).type = type

(* A source that comes late is rejected.                                   *)
ServeOpen(a) ==
    /\ Next1(a, "open")
    /\ IF RejectsSources(buffer)
       THEN /\ Disconnect({a}) /\ wire' = [wire EXCEPT ![a] = <<>>]
            /\ UNCHANGED server
       ELSE /\ buffer' = AddSource(buffer, a) /\ wire' = Taken(a)
            /\ UNCHANGED <<shown, connected, events>>

ServeImage(a) ==
    /\ Next1(a, "image")
    /\ buffer' = WithSource(buffer, a,
         [queue |-> LET q == buffer.sources[a].queue IN
                    [q EXCEPT ![Len(q)] = @ \cup Head(wire[a]).tiles],
          back |-> buffer.sources[a].back])
    /\ wire' = Taken(a)
    /\ UNCHANGED <<shown, connected, events>>

ServeFinish(a) ==
    /\ Next1(a, "finish")
    /\ IF QueueExceeded(buffer, a)
       THEN CloseStream(Taken(a))
       ELSE /\ Dispatch(FinishFrame(buffer, a)) /\ wire' = Taken(a)
            /\ UNCHANGED <<connected, events>>

ServeQuit(a) ==
    /\ Next1(a, "quit")
    /\ buffer' = IF SourcesOf(buffer) = {a} THEN NewReceiveBuffer
                                            ELSE RemoveSource(buffer, a)
    /\ wire' = Taken(a)
    /\ connected' = [connected EXCEPT ![a] = FALSE]
    /\ UNCHANGED <<shown, events>>

RequestFrame ==
    /\ SourcesOf(buffer) # {}
    /\ Dispatch(AllowToSend(buffer))
    /\ UNCHANGED <<connected, events, wire>>

SendEvent(a) ==
    /\ connected[a] /\ registered[a] /\ events[a] = <<>>
    /\ events' = [events EXCEPT ![a] = <<"input">>]
    /\ UNCHANGED <<connected, wire, server>>

ClosePixelStream ==
    /\ SourcesOf(buffer) # {}
    /\ CloseStream(wire)

Server ==
    /\ \/ \E a \in Apps :
            \/ ServeOpen(a) \/ ServeImage(a) \/ ServeFinish(a)
            \/ ServeQuit(a) \/ SendEvent(a)
       \/ RequestFrame \/ ClosePixelStream
    /\ UNCHANGED <<options, pc, window, display, registered>>

-----------------------------------------------------------------------------
StreamerNext ==
    \/ \E a \in Apps : Step(a) \/ Resize(a) \/ Timeout(a)
    \/ Server

(* GLUT calls display() all the time, and time goes on.                    *)
StreamerSpec ==
    /\ StreamerInit /\ [][StreamerNext]_streamerVars
    /\ \A a \in Apps : WF_streamerVars(Step(a)) /\ WF_streamerVars(Timeout(a))

-----------------------------------------------------------------------------
(* A frame of the stream shows one turn of all the applications that are   *)
(* sources of it then: none is missing, slow as it may be, and of each are *)
(* all views and channels of this turn, and nothing else.  The applications*)
(* do not know of each other, and the server does not know what they have  *)
(* to send.  That their turns are of the same time is not said: in the     *)
(* words of main.cpp, applications may go "quickly out of sync".           *)
Whole(turn, o) ==
    UNION {TilesOf(Passes(o)[n], turn) : n \in DOMAIN Passes(o)}

OneTurnOfAll ==
    shown.tiles = UNION {Whole(shown.turn, options[a]) : a \in shown.of}

Ended(a) == pc[a] \in {"exited", "failed", "terminated"}

(* Who waits for the first event to start does not wait for ever: nobody   *)
(* sends any to an application that has not registered for them.  And an   *)
(* application whose stream was closed notices and ends: through the event,*)
(* the result of a send, or as it waits.                                   *)
NobodyHangs ==
    \A a \in Apps :
      /\ waitToStart[a] ~> ~waitToStart[a] \/ Ended(a)
      /\ (pc[a] # "start" /\ ~connected[a]) ~> Ended(a)
=============================================================================
