----------------------------- MODULE EventProofs -----------------------------
(***************************************************************************)
(* Proofs about the events of a window: how they get to a client, and what *)
(* a client that streams a QML scene does with them.                       *)
(*                                                                         *)
(* EventChannel: its type invariant, that the events a client gets are in  *)
(* the order in which the application of the server sent them              *)
(* (EventsInOrder), and that a client that takes itself for registered is  *)
(* registered (RegistrationAgrees), for any number of calls and events.    *)
(*                                                                         *)
(* QmlStreamer: the scene is at rest while it is copied (SceneAtRest), the *)
(* image that is being sent is kept (ImageKept), and the window has one    *)
(* kind of input (OneKindOfInput), for any number of images, touch points  *)
(* and sizes.                                                              *)
(***************************************************************************)
EXTENDS EventChannel, QmlStreamer, SequenceTheorems, TLAPS

-----------------------------------------------------------------------------
(* EventChannel: the inductive invariant                                   *)

\* What the worker has sent and the client has not read.
Down == down.arrived \o down.flight

Headers == [part : {"header"}, type : {"version", "reply", "event", "quit"}]
Replies == [part : {"body"}, type : {"reply"}, value : BOOLEAN]
EventBodies == [part : {"body"}, type : {"event"}, value : Nat]
Units == Headers \cup Replies \cup EventBodies

\* Messages are whole, but for the header that was read of the first one.
Follows(a, b) ==
    IF a.part = "header" /\ HasBody(a.type) THEN b.part = "body" /\ b.type = a.type
                                            ELSE b.part = "header"

Framed(s, h) ==
    /\ IF h = "none" THEN s # <<>> => s[1].part = "header"
                     ELSE s # <<>> /\ s[1].part = "body" /\ s[1].type = h
    /\ \A i \in 1 .. Len(s) - 1 : Follows(s[i], s[i + 1])
    /\ s # <<>> => ~ (s[Len(s)].part = "header" /\ HasBody(s[Len(s)].type))

\* An event of the application, and not the end of the stream.
IsEvent(u) == u.part = "body" /\ u.type = "event" /\ u.value # CloseEvent

\* Events rise along each of the places they pass, and from one to the next: the
\* numbers between two places tell the events in the one from those in the other.
GotRise(hi) ==
    /\ \A i \in 1 .. Len(got) : got[i] <= hi
    /\ \A i, j \in 1 .. Len(got) :
          i < j /\ CloseEvent \notin {got[i], got[j]} => got[i] < got[j]

UnitsRise(s, lo, hi) ==
    /\ \A i \in 1 .. Len(s) : IsEvent(s[i]) => lo < s[i].value /\ s[i].value <= hi
    /\ \A i, j \in 1 .. Len(s) :
          i < j /\ IsEvent(s[i]) /\ IsEvent(s[j]) => s[i].value < s[j].value

PendingRise(s, lo, hi) ==
    /\ \A i \in 1 .. Len(s) : lo < s[i] /\ s[i] <= hi
    /\ \A i, j \in 1 .. Len(s) : i < j => s[i] < s[j]

SlotsRise(s, lo, hi) ==
    /\ \A i \in 1 .. Len(s) :
          s[i].slot = "processEvent" => lo < s[i].event /\ s[i].event <= hi
    /\ \A i, j \in 1 .. Len(s) :
          i < j /\ s[i].slot = "processEvent" /\ s[j].slot = "processEvent" =>
              s[i].event < s[j].event

InOrder(g, u, p) ==
    /\ g <= u /\ u <= p /\ p <= posted
    /\ GotRise(g)
    /\ UnitsRise(Down, g, u)
    /\ PendingRise(pending, u, p)
    /\ SlotsRise(slots, p, posted)

EventsRise == \E g, u, p \in Nat : InOrder(g, u, p)

SlotSet == [slot : {"processEvent"}, event : Nat \ {0}] \cup [slot : {"close"}]

ClientTyped ==
    /\ call \in {"connecting", "failed", "idle", "binding", "register", "getEvent"}
    /\ bind \in BOOLEAN /\ (bind <=> call = "binding")
    /\ header \in {"none", "reply", "event"}
    /\ header # "none" => Receiving
    /\ registered \in BOOLEAN /\ inStep \in BOOLEAN /\ linked \in BOOLEAN
    /\ calls \in 0 .. MaxCalls
    /\ got \in Seq(Nat)

ServerTyped ==
    /\ stage \in {"starting", "loop", "body", "blocked", "off"}
    /\ stage = "blocked" => promise # "none"
    /\ error \in {"none", "protocol", "timeout"}
    /\ promise \in {"none", "asked", "yes", "no"} /\ posted \in 0 .. MaxEvents
    /\ accepted \in BOOLEAN /\ closing \in BOOLEAN
    /\ down \in [flight : Seq(Units), arrived : Seq(Units)]
    /\ pending \in Seq(Nat \ {0}) /\ slots \in Seq(SlotSet)

Typed == ClientTyped /\ ServerTyped

\* In step the client finds headers and bodies where it looks for them.
InFrame ==
    /\ inStep => Framed(Down, header)
    /\ header # "none" => inStep
    /\ stage = "starting" => Down = <<>> /\ pending = <<>> /\ ~ accepted
    /\ call = "connecting" =>
          /\ header = "none" /\ inStep
          /\ stage # "starting" => Down # <<>> /\ Down[1] = Header("version")

\* A reply that says yes comes from a worker that has accepted; it never takes it back.
SaysYes(u) == u.part = "body" /\ u.type = "reply" /\ u.value

RepliesAgree ==
    /\ \A i \in 1 .. Len(Down) : SaysYes(Down[i]) => accepted
    /\ registered => accepted
    /\ stage = "blocked" => ~ accepted

IInv == Typed /\ InFrame /\ RepliesAgree /\ EventsRise

-----------------------------------------------------------------------------
(* What is on its way to the client                                        *)

LEMMA DownTyped ==
    ASSUME down \in [flight : Seq(Units), arrived : Seq(Units)]
    PROVE  /\ Down \in Seq(Units)
           /\ down.flight \in Seq(Units) /\ down.arrived \in Seq(Units)
           /\ Len(Down) = Len(down.arrived) + Len(down.flight)
           /\ \A i \in 1 .. Len(Down) :
                 Down[i] = IF i <= Len(down.arrived) THEN down.arrived[i]
                           ELSE down.flight[i - Len(down.arrived)]
<1>1. down.flight \in Seq(Units) /\ down.arrived \in Seq(Units)
  OBVIOUS
<1> QED
  BY <1>1, ConcatProperties DEF Down

LEMMA DownWrite ==
    ASSUME down \in [flight : Seq(Units), arrived : Seq(Units)],
           NEW s \in Seq(Units), SendToClient(s)
    PROVE  /\ down' \in [flight : Seq(Units), arrived : Seq(Units)]
           /\ Down' = Down \o s
<1>1. down.flight \in Seq(Units) /\ down.arrived \in Seq(Units)
  OBVIOUS
<1>2. /\ down' = [down EXCEPT !.flight = @ \o s]
      /\ down'.flight = down.flight \o s /\ down'.arrived = down.arrived
  BY DEF SendToClient, Write
<1>3. down.flight \o s \in Seq(Units)
  BY <1>1
<1>4. (down.arrived \o down.flight) \o s = down.arrived \o (down.flight \o s)
  BY <1>1, ConcatAssociative
<1> QED
  BY <1>1, <1>2, <1>3, <1>4 DEF Down

\* To skip the first elements of a sequence is to skip them of what follows it, too.
LEMMA SkipConcat ==
    ASSUME NEW S, NEW s \in Seq(S), NEW t \in Seq(S), NEW n \in 0 .. Len(s)
    PROVE  /\ SubSeq(s, n + 1, Len(s)) \in Seq(S)
           /\ Len(SubSeq(s, n + 1, Len(s)) \o t) = Len(s \o t) - n
           /\ \A i \in 1 .. Len(s \o t) - n :
                 (SubSeq(s, n + 1, Len(s)) \o t)[i] = (s \o t)[i + n]
<1> DEFINE rest == SubSeq(s, n + 1, Len(s))
<1>1. Len(s) \in Nat /\ Len(t) \in Nat /\ n \in Nat /\ n <= Len(s)
  OBVIOUS
<1>2. /\ rest \in Seq(S) /\ Len(rest) = Len(s) - n
      /\ \A i \in 1 .. Len(s) - n : rest[i] = s[i + n]
  OBVIOUS
<1> HIDE DEF rest
<1>3. /\ Len(rest \o t) = Len(rest) + Len(t)
      /\ \A i \in 1 .. Len(rest) + Len(t) :
            (rest \o t)[i] = IF i <= Len(rest) THEN rest[i] ELSE t[i - Len(rest)]
  BY <1>2, ConcatProperties
<1>4. /\ Len(s \o t) = Len(s) + Len(t)
      /\ \A i \in 1 .. Len(s) + Len(t) :
            (s \o t)[i] = IF i <= Len(s) THEN s[i] ELSE t[i - Len(s)]
  BY ConcatProperties
<1>5. ASSUME NEW i \in 1 .. Len(s \o t) - n
      PROVE  (rest \o t)[i] = (s \o t)[i + n]
  <2>1. i \in Int /\ i >= 1 /\ i <= Len(s) + Len(t) - n
    BY <1>1, <1>4
  <2>2. i \in 1 .. Len(rest) + Len(t) /\ i + n \in 1 .. Len(s) + Len(t)
    BY <1>1, <1>2, <2>1
  <2>3. CASE i <= Len(s) - n
    <3>1. i <= Len(rest) /\ i + n <= Len(s) /\ i \in 1 .. Len(s) - n
      BY <1>1, <1>2, <2>1, <2>3
    <3>2. (rest \o t)[i] = rest[i] /\ (s \o t)[i + n] = s[i + n]
      BY <1>3, <1>4, <2>2, <3>1
    <3> QED
      BY <1>2, <3>1, <3>2
  <2>4. CASE ~ (i <= Len(s) - n)
    <3>1. ~ (i <= Len(rest)) /\ ~ (i + n <= Len(s)) /\ i - Len(rest) = i + n - Len(s)
      BY <1>1, <1>2, <2>1, <2>4
    <3>2. (rest \o t)[i] = t[i - Len(rest)] /\ (s \o t)[i + n] = t[i + n - Len(s)]
      BY <1>3, <1>4, <2>2, <3>1
    <3> QED
      BY <3>1, <3>2
  <2> QED
    BY <2>3, <2>4
<1>6. Len(rest \o t) = Len(s \o t) - n
  BY <1>1, <1>2, <1>3, <1>4
<1> QED
  BY <1>2, <1>5, <1>6 DEF rest

LEMMA DownSkip ==
    ASSUME down \in [flight : Seq(Units), arrived : Seq(Units)],
           NEW n \in 0 .. Len(down.arrived), down' = Skip(down, n)
    PROVE  /\ down' \in [flight : Seq(Units), arrived : Seq(Units)]
           /\ Len(Down') = Len(Down) - n
           /\ \A i \in 1 .. Len(Down') : Down'[i] = Down[i + n]
<1> DEFINE rest == SubSeq(down.arrived, n + 1, Len(down.arrived))
<1>1. down.flight \in Seq(Units) /\ down.arrived \in Seq(Units)
  OBVIOUS
<1>2. /\ down' = [down EXCEPT !.arrived = rest]
      /\ down'.flight = down.flight /\ down'.arrived = rest
  BY DEF Skip
<1>3. Down' = rest \o down.flight
  BY <1>2 DEF Down
<1>4. /\ rest \in Seq(Units)
      /\ Len(rest \o down.flight) = Len(Down) - n
      /\ \A i \in 1 .. Len(Down) - n : (rest \o down.flight)[i] = Down[i + n]
  BY <1>1, SkipConcat DEF Down
<1> HIDE DEF rest
<1> QED
  BY <1>1, <1>2, <1>3, <1>4

LEMMA DownRead ==
    ASSUME down \in [flight : Seq(Units), arrived : Seq(Units)],
           down.arrived # << >>, down' = Read(down)
    PROVE  /\ down' \in [flight : Seq(Units), arrived : Seq(Units)]
           /\ Down # << >> /\ Head(down.arrived) = Down[1] /\ Down[1] \in Units
           /\ Len(Down') = Len(Down) - 1
           /\ \A i \in 1 .. Len(Down') : Down'[i] = Down[i + 1]
<1>1. /\ Down \in Seq(Units) /\ down.arrived \in Seq(Units) /\ down.flight \in Seq(Units)
      /\ Len(Down) = Len(down.arrived) + Len(down.flight)
      /\ \A i \in 1 .. Len(Down) :
            Down[i] = IF i <= Len(down.arrived) THEN down.arrived[i]
                      ELSE down.flight[i - Len(down.arrived)]
  BY DownTyped
<1>2. Len(down.arrived) \in Nat \ {0}
  BY <1>1
<1>3. Tail(down.arrived) = SubSeq(down.arrived, 2, Len(down.arrived))
  BY <1>1, TailIsSubSeq
<1>4. down' = Skip(down, 1) /\ 1 \in 0 .. Len(down.arrived)
  <2>1. 1 + 1 = 2
    OBVIOUS
  <2>2. Tail(down.arrived) = SubSeq(down.arrived, 1 + 1, Len(down.arrived))
    BY <1>3, <2>1
  <2>3. Skip(down, 1) = [down EXCEPT !.arrived = SubSeq(down.arrived, 1 + 1, Len(down.arrived))]
    BY DEF Skip
  <2>4. down' = [down EXCEPT !.arrived = Tail(down.arrived)]
    BY DEF Read
  <2>5. 1 \in 0 .. Len(down.arrived)
    BY <1>2
  <2> QED
    BY <2>2, <2>3, <2>4, <2>5
<1>5. Down # << >> /\ Head(down.arrived) = Down[1] /\ Down[1] \in Units
  BY <1>1, <1>2
<1> QED
  BY <1>4, <1>5, DownSkip

LEMMA DownArrive ==
    ASSUME down \in [flight : Seq(Units), arrived : Seq(Units)], ArriveDown
    PROVE  /\ down' \in [flight : Seq(Units), arrived : Seq(Units)]
           /\ Down' = Down
<1> DEFINE head == Head(down.flight)
           tail == Tail(down.flight)
<1>1. down.flight \in Seq(Units) /\ down.arrived \in Seq(Units) /\ down.flight # << >>
  BY DEF ArriveDown
<1>2. head \in Units /\ tail \in Seq(Units)
  BY <1>1
<1>3. down.flight = << head >> \o tail /\ << head >> \in Seq(Units)
  BY <1>1
<1>4. down'.flight = tail /\ down'.arrived = Append(down.arrived, head)
      /\ down' = [flight |-> tail, arrived |-> Append(down.arrived, head)]
  BY DEF ArriveDown
<1> HIDE DEF head, tail
<1>5. Append(down.arrived, head) \in Seq(Units)
      /\ Append(down.arrived, head) = down.arrived \o << head >>
  BY <1>1, <1>2
<1>6. (down.arrived \o << head >>) \o tail = down.arrived \o (<< head >> \o tail)
  BY <1>1, <1>2, <1>3, ConcatAssociative
<1> QED
  BY <1>2, <1>3, <1>4, <1>5, <1>6 DEF Down

-----------------------------------------------------------------------------
(* Sequences of messages                                                   *)

LEMMA UnitParts ==
    /\ \A type \in {"version", "reply", "event", "quit"} :
          Header(type) \in Units /\ Header(type).part = "header" /\ Header(type).type = type
    /\ \A v \in Nat : /\ Body("event", v) \in Units /\ Body("event", v).part = "body"
                      /\ Body("event", v).type = "event" /\ Body("event", v).value = v
    /\ \A v \in BOOLEAN : /\ Body("reply", v) \in Units /\ Body("reply", v).part = "body"
                          /\ Body("reply", v).type = "reply" /\ Body("reply", v).value = v
    /\ \A u \in Units : u.part \in {"header", "body"}
  BY DEF Units, Headers, Replies, EventBodies, Header, Body

LEMMA ConcatFramed ==
    ASSUME NEW s \in Seq(Units), NEW t \in Seq(Units), NEW h,
           Framed(s, h), Framed(t, "none")
    PROVE  Framed(s \o t, h)
<1> DEFINE r == s \o t
<1>1. /\ Len(s) \in Nat /\ Len(t) \in Nat /\ Len(r) = Len(s) + Len(t)
      /\ \A i \in 1 .. Len(s) + Len(t) : r[i] = IF i <= Len(s) THEN s[i] ELSE t[i - Len(s)]
      /\ s # << >> <=> Len(s) > 0
      /\ t # << >> <=> Len(t) > 0
      /\ r \in Seq(Units)
      /\ r # << >> <=> Len(r) > 0
  BY ConcatProperties, EmptySeq
<1> HIDE DEF r
<1>2. IF h = "none" THEN r # << >> => r[1].part = "header"
                    ELSE r # << >> /\ r[1].part = "body" /\ r[1].type = h
  <2>1. CASE Len(s) > 0
    <3>1. r[1] = s[1] /\ r # << >> /\ s # << >>
      BY <1>1, <2>1
    <3> QED
      BY <3>1 DEF Framed
  <2>2. CASE Len(s) = 0
    <3>1. h = "none"
      BY <1>1, <2>2 DEF Framed
    <3>2. r # << >> => t # << >> /\ r[1] = t[1]
      BY <1>1, <2>2
    <3> QED
      BY <3>1, <3>2 DEF Framed
  <2> QED
    BY <1>1, <2>1, <2>2
<1>3. ASSUME NEW i \in 1 .. Len(r) - 1
      PROVE  Follows(r[i], r[i + 1])
  <2>1. CASE i < Len(s)
    <3>1. i \in 1 .. Len(s) - 1 /\ r[i] = s[i] /\ r[i + 1] = s[i + 1]
      BY <1>1, <2>1
    <3> QED
      BY <3>1 DEF Framed
  <2>2. CASE i = Len(s)
    <3>1. r[i] = s[Len(s)] /\ r[i + 1] = t[1] /\ s # << >> /\ t # << >>
      BY <1>1, <2>2
    <3> QED
      BY <3>1 DEF Framed, Follows
  <2>3. CASE i > Len(s)
    <3>1. i - Len(s) \in 1 .. Len(t) - 1 /\ (i + 1) - Len(s) = (i - Len(s)) + 1
      BY <1>1, <2>3
    <3>2. r[i] = t[i - Len(s)] /\ r[i + 1] = t[(i + 1) - Len(s)]
      BY <1>1, <2>3
    <3> QED
      BY <3>1, <3>2 DEF Framed
  <2> QED
    BY <1>1, <2>1, <2>2, <2>3
<1>4. ASSUME r # << >>
      PROVE  ~ (r[Len(r)].part = "header" /\ HasBody(r[Len(r)].type))
  <2>1. CASE Len(t) > 0
    <3>1. r[Len(r)] = t[Len(t)] /\ t # << >>
      BY <1>1, <2>1
    <3> QED
      BY <3>1 DEF Framed
  <2>2. CASE Len(t) = 0
    <3>1. r[Len(r)] = s[Len(s)] /\ s # << >>
      BY <1>1, <1>4, <2>2
    <3> QED
      BY <3>1 DEF Framed
  <2> QED
    BY <1>1, <2>1, <2>2
<1> QED
  BY <1>2, <1>3, <1>4 DEF Framed, r

LEMMA ConcatRise ==
    ASSUME NEW s \in Seq(Units), NEW t \in Seq(Units),
           NEW lo \in Nat, NEW mid \in Nat, NEW hi \in Nat, lo <= mid, mid <= hi,
           UnitsRise(s, lo, mid), UnitsRise(t, mid, hi)
    PROVE  UnitsRise(s \o t, lo, hi)
<1> DEFINE r == s \o t
<1>1. /\ Len(s) \in Nat /\ Len(t) \in Nat /\ Len(r) = Len(s) + Len(t)
      /\ \A i \in 1 .. Len(s) + Len(t) : r[i] = IF i <= Len(s) THEN s[i] ELSE t[i - Len(s)]
      /\ \A i \in 1 .. Len(s) : s[i] \in Units
      /\ \A i \in 1 .. Len(t) : t[i] \in Units
  BY ConcatProperties
<1> HIDE DEF r
<1>2. \A u \in Units : IsEvent(u) => u.value \in Nat
  BY DEF Units, Headers, Replies, EventBodies, IsEvent
<1>3. \A i \in 1 .. Len(r) :
          \/ i \in 1 .. Len(s) /\ r[i] = s[i]
          \/ i > Len(s) /\ i - Len(s) \in 1 .. Len(t) /\ r[i] = t[i - Len(s)]
  BY <1>1
<1>4. ASSUME NEW i \in 1 .. Len(r), IsEvent(r[i])
      PROVE  lo < r[i].value /\ r[i].value <= hi
  <2>1. CASE i \in 1 .. Len(s) /\ r[i] = s[i]
    BY <1>1, <1>2, <1>4, <2>1 DEF UnitsRise
  <2>2. CASE i > Len(s) /\ i - Len(s) \in 1 .. Len(t) /\ r[i] = t[i - Len(s)]
    BY <1>1, <1>2, <1>4, <2>2 DEF UnitsRise
  <2> QED
    BY <1>3, <2>1, <2>2
<1>5. ASSUME NEW i \in 1 .. Len(r), NEW j \in 1 .. Len(r), i < j,
             IsEvent(r[i]), IsEvent(r[j])
      PROVE  r[i].value < r[j].value
  <2>1. CASE j \in 1 .. Len(s)
    <3>1. i \in 1 .. Len(s) /\ r[i] = s[i] /\ r[j] = s[j]
      BY <1>1, <1>5, <2>1
    <3> QED
      BY <1>5, <2>1, <3>1 DEF UnitsRise
  <2>2. CASE i > Len(s)
    <3>1. /\ i - Len(s) \in 1 .. Len(t) /\ j - Len(s) \in 1 .. Len(t)
          /\ r[i] = t[i - Len(s)] /\ r[j] = t[j - Len(s)]
          /\ i - Len(s) < j - Len(s)
      BY <1>1, <1>5, <2>2
    <3> QED
      BY <1>5, <3>1 DEF UnitsRise
  <2>3. CASE i \in 1 .. Len(s) /\ j > Len(s)
    <3>1. /\ r[i] = s[i] /\ j - Len(s) \in 1 .. Len(t) /\ r[j] = t[j - Len(s)]
      BY <1>1, <2>3
    <3>2. r[i].value <= mid /\ mid < r[j].value /\ r[i].value \in Nat /\ r[j].value \in Nat
      BY <1>1, <1>2, <1>5, <2>3, <3>1 DEF UnitsRise
    <3> QED
      BY <3>2
  <2> QED
    BY <1>1, <2>1, <2>2, <2>3
<1> QED
  BY <1>4, <1>5 DEF UnitsRise, r

\* A message for each event, in the same order.
LEMMA EventsUnits ==
    ASSUME NEW s \in Seq(Nat)
    PROVE  /\ Events(s) \in Seq(Units)
           /\ Len(Events(s)) = 2 * Len(s)
           /\ Framed(Events(s), "none")
           /\ \A n \in 1 .. 2 * Len(s) :
                 \/ n % 2 = 1 /\ Events(s)[n] = Header("event")
                 \/ /\ n % 2 = 0 /\ n \div 2 \in 1 .. Len(s)
                    /\ Events(s)[n] = Body("event", s[n \div 2])
                    /\ s[n \div 2] \in Nat
<1> DEFINE l == Len(s)
           e == Events(s)
<1>1. l \in Nat /\ \A i \in 1 .. l : s[i] \in Nat
  OBVIOUS
<1>2. e = [n \in 1 .. 2 * l |->
              IF n % 2 = 1 THEN Header("event") ELSE Body("event", s[n \div 2])]
  BY DEF Events
<1>3. \A n \in 1 .. 2 * l : n % 2 = 1 \/ (n % 2 = 0 /\ n \div 2 \in 1 .. l)
  BY <1>1
<1>4. \A n \in 1 .. 2 * l :
          \/ n % 2 = 1 /\ e[n] = Header("event")
          \/ /\ n % 2 = 0 /\ n \div 2 \in 1 .. l
             /\ e[n] = Body("event", s[n \div 2]) /\ s[n \div 2] \in Nat
  BY <1>1, <1>2, <1>3
<1>5. \A n \in 1 .. 2 * l : e[n] \in Units
  BY <1>4, UnitParts
<1> HIDE DEF e, l
<1>6. e = [n \in 1 .. 2 * l |-> e[n]] /\ 2 * l \in Nat
  BY <1>1, <1>2
<1>7. e \in Seq(Units) /\ Len(e) = 2 * l
  BY <1>5, <1>6
<1>8. Framed(e, "none")
  <2>1. e # << >> => 2 * l >= 1
    BY <1>1, <1>7
  <2>2. e # << >> => e[1].part = "header"
    <3> SUFFICES ASSUME e # << >> PROVE e[1].part = "header"
      OBVIOUS
    <3>1. 1 \in 1 .. 2 * l /\ 1 % 2 = 1
      BY <1>1, <2>1
    <3> QED
      BY <1>4, <3>1, UnitParts
  <2>3. ASSUME NEW n \in 1 .. Len(e) - 1
        PROVE  Follows(e[n], e[n + 1])
    <3>1. n \in 1 .. 2 * l /\ n + 1 \in 1 .. 2 * l
      BY <1>1, <1>7
    <3>2. CASE n % 2 = 1
      <4>1. (n + 1) % 2 = 0
        BY <3>2
      <4>2. e[n] = Header("event")
        BY <1>4, <3>1, <3>2
      <4>3. \E v \in Nat : e[n + 1] = Body("event", v)
        <5>1. n + 1 \in 1 .. 2 * l /\ (n + 1) % 2 # 1
          BY <3>1, <4>1
        <5> QED
          BY <1>4, <5>1
      <4> QED
        BY <4>2, <4>3, UnitParts DEF Follows, HasBody
    <3>3. CASE n % 2 = 0
      <4>1. (n + 1) % 2 = 1
        BY <3>3
      <4>2. e[n + 1] = Header("event") /\ \E v \in Nat : e[n] = Body("event", v)
        BY <1>4, <3>1, <3>3, <4>1
      <4> QED
        BY <4>2, UnitParts DEF Follows, HasBody
    <3>4. n % 2 = 1 \/ n % 2 = 0
      BY <3>1, <1>3
    <3> QED
      BY <3>2, <3>3, <3>4
  <2>4. ASSUME e # << >>
        PROVE  e[Len(e)].part = "body"
    <3>1. Len(e) \in 1 .. 2 * l /\ Len(e) % 2 = 0
      BY <1>1, <1>7, <2>1, <2>4
    <3>2. \E v \in Nat : e[Len(e)] = Body("event", v)
      BY <1>4, <3>1
    <3> QED
      BY <3>2, UnitParts
  <2> QED
    BY <2>2, <2>3, <2>4 DEF Framed
<1> QED
  BY <1>4, <1>7, <1>8 DEF e, l

LEMMA EventsRiseTo ==
    ASSUME NEW s \in Seq(Nat), NEW lo \in Nat, NEW hi \in Nat, PendingRise(s, lo, hi)
    PROVE  UnitsRise(Events(s), lo, hi)
<1>1. /\ Events(s) \in Seq(Units)
      /\ Len(Events(s)) = 2 * Len(s)
      /\ \A n \in 1 .. 2 * Len(s) :
            \/ n % 2 = 1 /\ Events(s)[n] = Header("event")
            \/ /\ n % 2 = 0 /\ n \div 2 \in 1 .. Len(s)
               /\ Events(s)[n] = Body("event", s[n \div 2])
               /\ s[n \div 2] \in Nat
  BY EventsUnits
<1>2. ASSUME NEW n \in 1 .. Len(Events(s)), IsEvent(Events(s)[n])
      PROVE  /\ n % 2 = 0 /\ n \div 2 \in 1 .. Len(s)
             /\ Events(s)[n].value = s[n \div 2]
  <2>1. Events(s)[n] # Header("event")
    BY <1>2, UnitParts DEF IsEvent
  <2> QED
    BY <1>1, <2>1, UnitParts
<1>3. ASSUME NEW i \in 1 .. Len(Events(s)), NEW j \in 1 .. Len(Events(s)), i < j,
             i % 2 = 0, j % 2 = 0
      PROVE  i \div 2 < j \div 2
  BY <1>3
<1> QED
  BY <1>2, <1>3 DEF UnitsRise, PendingRise

-----------------------------------------------------------------------------
(* What the steps do to the messages and the events                        *)

LEMMA DownSend ==
    ASSUME down \in [flight : Seq(Units), arrived : Seq(Units)],
           NEW t \in Seq(Units), Framed(t, "none"), SendToClient(t)
    PROVE  /\ down' \in [flight : Seq(Units), arrived : Seq(Units)]
           /\ Down' = Down \o t
           /\ Framed(Down, header) => Framed(Down', header)
           /\ Down # << >> => Down' # << >> /\ Down'[1] = Down[1]
           /\ \A i \in 1 .. Len(Down') : \/ \E j \in 1 .. Len(Down) : Down'[i] = Down[j]
                                         \/ \E j \in 1 .. Len(t) : Down'[i] = t[j]
<1>1. /\ down' \in [flight : Seq(Units), arrived : Seq(Units)]
      /\ Down' = Down \o t
  BY DownWrite
<1>2. Down \in Seq(Units)
  BY DownTyped
<1>3. Framed(Down, header) => Framed(Down', header)
  BY <1>1, <1>2, ConcatFramed
<1> DEFINE d == Down
           e == Down'
<1>4. /\ Len(d) \in Nat /\ Len(t) \in Nat /\ Len(e) = Len(d) + Len(t)
      /\ \A i \in 1 .. Len(d) + Len(t) : e[i] = IF i <= Len(d) THEN d[i] ELSE t[i - Len(d)]
      /\ d # << >> => Len(d) > 0
      /\ Len(e) > 0 => e # << >>
  BY <1>1, <1>2, ConcatProperties
<1>5. d # << >> => e # << >> /\ e[1] = d[1]
  <2> HIDE DEF d, e
  <2> QED
    BY <1>4
<1>6. ASSUME NEW i \in 1 .. Len(e)
      PROVE  (\E j \in 1 .. Len(d) : e[i] = d[j]) \/ (\E j \in 1 .. Len(t) : e[i] = t[j])
  <2> HIDE DEF d, e
  <2>1. CASE i <= Len(d)
    <3>1. i \in 1 .. Len(d) /\ e[i] = d[i]
      BY <1>4, <2>1
    <3> QED
      BY <3>1
  <2>2. CASE ~ (i <= Len(d))
    <3>1. i - Len(d) \in 1 .. Len(t) /\ e[i] = t[i - Len(d)]
      BY <1>4, <2>2
    <3> QED
      BY <3>1
  <2> QED
    BY <2>1, <2>2
<1> QED
  BY <1>1, <1>3, <1>5, <1>6

\* The worker sends something, and then the events that are pending.
LEMMA SendRise ==
    ASSUME Typed, EventsRise, NEW s \in Seq(Units), Framed(s, "none"),
           \A i \in 1 .. Len(s) : ~ IsEvent(s[i]),
           \/ AndThenEvents(s)
           \/ SendToClient(s) /\ pending' = pending,
           got' = got, posted' = posted,
           \A lo \in Nat : SlotsRise(slots, lo, posted) => SlotsRise(slots', lo, posted)
    PROVE  EventsRise'
<1> PICK g \in Nat, u \in Nat, p \in Nat : InOrder(g, u, p)
  BY DEF EventsRise
<1>1. /\ Down \in Seq(Units) /\ pending \in Seq(Nat)
      /\ down \in [flight : Seq(Units), arrived : Seq(Units)]
  BY DownTyped DEF Typed, ClientTyped, ServerTyped
<1>2. /\ UnitsRise(Down, g, u) /\ PendingRise(pending, u, p) /\ g <= u /\ u <= p
      /\ GotRise(g)' /\ p <= posted' /\ SlotsRise(slots', p, posted')
  BY DEF InOrder, GotRise
<1>3. UnitsRise(s, u, u)
  BY DEF UnitsRise
<1>4. CASE AndThenEvents(s)
  <2>1. SendToClient(s \o Events(pending)) /\ pending' = << >>
    BY <1>4 DEF AndThenEvents
  <2>2. /\ Events(pending) \in Seq(Units) /\ UnitsRise(Events(pending), u, p)
    BY <1>1, <1>2, EventsUnits, EventsRiseTo
  <2>3. s \o Events(pending) \in Seq(Units) /\ UnitsRise(s \o Events(pending), u, p)
    BY <1>2, <1>3, <2>2, ConcatRise, ConcatProperties
  <2>4. Down' = Down \o (s \o Events(pending))
    BY <1>1, <2>1, <2>3, DownWrite
  <2>5. UnitsRise(Down', g, p)
    BY <1>1, <1>2, <2>3, <2>4, ConcatRise
  <2>6. PendingRise(pending', p, p)
    BY <2>1 DEF PendingRise
  <2>7. InOrder(g, p, p)'
    BY <1>2, <2>5, <2>6 DEF InOrder
  <2> QED
    BY <2>7 DEF EventsRise
<1>5. CASE SendToClient(s) /\ pending' = pending
  <2>1. Down' = Down \o s
    BY <1>1, <1>5, DownWrite
  <2>2. UnitsRise(Down', g, u)
    BY <1>1, <1>2, <1>3, <2>1, ConcatRise
  <2>3. InOrder(g, u, p)'
    BY <1>2, <1>5, <2>2 DEF InOrder
  <2> QED
    BY <2>3 DEF EventsRise
<1> QED
  BY <1>4, <1>5

\* What is read, or skipped, first leaves the rest in order.
LEMMA SkipRise ==
    ASSUME NEW s \in Seq(Units), NEW t \in Seq(Units), NEW n \in Nat,
           Len(t) = Len(s) - n, \A i \in 1 .. Len(t) : t[i] = s[i + n],
           NEW lo, NEW hi, UnitsRise(s, lo, hi)
    PROVE  UnitsRise(t, lo, hi)
<1>1. \A i \in 1 .. Len(t) : i + n \in 1 .. Len(s)
  OBVIOUS
<1>2. \A i, j \in 1 .. Len(t) : i < j => i + n < j + n
  OBVIOUS
<1> QED
  BY <1>1, <1>2 DEF UnitsRise

\* After its first unit is read the rest is framed by what that was.
LEMMA ReadFramed ==
    ASSUME NEW s \in Seq(Units), NEW t \in Seq(Units), s # << >>,
           Len(t) = Len(s) - 1, \A i \in 1 .. Len(t) : t[i] = s[i + 1],
           NEW h, Framed(s, h), h # "none" => h \in {"reply", "event"}
    PROVE  /\ h = "none" => s[1] \in Headers
           /\ h # "none" => s[1].part = "body" /\ s[1].type = h
           /\ Framed(t, IF h = "none" /\ HasBody(s[1].type) THEN s[1].type ELSE "none")
<1> DEFINE k == IF h = "none" /\ HasBody(s[1].type) THEN s[1].type ELSE "none"
<1>1. Len(s) \in Nat \ {0} /\ Len(t) \in Nat /\ 1 \in 1 .. Len(s) /\ s[1] \in Units
      /\ t # << >> <=> Len(t) > 0
  BY EmptySeq
<1>2. h = "none" => s[1].part = "header" /\ s[1] \in Headers
  BY <1>1 DEF Framed, Units, Replies, EventBodies
<1>3. h # "none" => s[1].part = "body" /\ s[1].type = h
  BY DEF Framed
<1>4. h = "none" /\ HasBody(s[1].type) => t # << >>
  <2> SUFFICES ASSUME h = "none", HasBody(s[1].type), Len(t) = 0 PROVE FALSE
    BY <1>1
  <2>1. Len(s) = 1
    BY <1>1
  <2> QED
    BY <1>2, <2>1 DEF Framed
<1>5. t # << >> => Follows(s[1], t[1])
  <2> SUFFICES ASSUME t # << >> PROVE Follows(s[1], t[1])
    OBVIOUS
  <2>1. 1 \in 1 .. Len(s) - 1 /\ t[1] = s[1 + 1]
    BY <1>1
  <2> QED
    BY <2>1 DEF Framed
<1>6. IF k = "none" THEN t # << >> => t[1].part = "header"
                    ELSE t # << >> /\ t[1].part = "body" /\ t[1].type = k
  <2>1. CASE h = "none" /\ HasBody(s[1].type)
    <3>1. k = s[1].type /\ k # "none"
      BY <2>1 DEF HasBody
    <3> QED
      BY <1>2, <1>4, <1>5, <2>1, <3>1 DEF Follows
  <2>2. CASE ~ (h = "none" /\ HasBody(s[1].type))
    <3>1. k = "none" /\ ~ (s[1].part = "header" /\ HasBody(s[1].type))
      BY <1>3, <2>2
    <3> QED
      BY <1>5, <3>1 DEF Follows
  <2> QED
    BY <2>1, <2>2
<1>7. ASSUME NEW i \in 1 .. Len(t) - 1
      PROVE  Follows(t[i], t[i + 1])
  <2>1. i + 1 \in 1 .. Len(s) - 1 /\ t[i] = s[i + 1] /\ t[i + 1] = s[(i + 1) + 1]
    BY <1>1
  <2> QED
    BY <2>1 DEF Framed
<1>8. t # << >> => t[Len(t)] = s[Len(s)]
  BY <1>1
<1> HIDE DEF k
<1>9. Framed(t, k)
  BY <1>6, <1>7, <1>8 DEF Framed
<1> QED
  BY <1>2, <1>3, <1>9 DEF k

\* Steps that move nothing.
LEMMA StillRise ==
    ASSUME EventsRise, Down' = Down, UNCHANGED << got, pending, slots, posted >>
    PROVE  EventsRise'
<1> PICK g \in Nat, u \in Nat, p \in Nat : InOrder(g, u, p)
  BY DEF EventsRise
<1>1. InOrder(g, u, p)'
  BY DEF InOrder, GotRise
<1> QED
  BY <1>1 DEF EventsRise

\* The client reads, or skips, something that it does not take for an event.
LEMMA LostRise ==
    ASSUME EventsRise, Down \in Seq(Units), Down' \in Seq(Units), NEW n \in Nat,
           Len(Down') = Len(Down) - n, \A i \in 1 .. Len(Down') : Down'[i] = Down[i + n],
           UNCHANGED << got, pending, slots, posted >>
    PROVE  EventsRise'
<1> PICK g \in Nat, u \in Nat, p \in Nat : InOrder(g, u, p)
  BY DEF EventsRise
<1>1. UnitsRise(Down', g, u)
  BY SkipRise DEF InOrder
<1>2. InOrder(g, u, p)'
  BY <1>1 DEF InOrder, GotRise
<1> QED
  BY <1>2 DEF EventsRise

\* The client gets an event: it is after those it has got, and before those to come.
LEMMA GetRise ==
    ASSUME EventsRise, got \in Seq(Nat), Down \in Seq(Units), Down' \in Seq(Units),
           Down # << >>,
           Len(Down') = Len(Down) - 1, \A i \in 1 .. Len(Down') : Down'[i] = Down[i + 1],
           Down[1].part = "body", Down[1].type = "event", Down[1].value \in Nat,
           got' = Append(got, Down[1].value),
           UNCHANGED << pending, slots, posted >>
    PROVE  EventsRise'
<1> PICK v \in Nat : v = Down[1].value
  OBVIOUS
<1> PICK g \in Nat, u \in Nat, p \in Nat : InOrder(g, u, p)
  BY DEF EventsRise
<1>1. /\ g <= u /\ u <= p /\ p <= posted /\ GotRise(g) /\ UnitsRise(Down, g, u)
      /\ PendingRise(pending, u, p) /\ SlotsRise(slots, p, posted)
  BY DEF InOrder
<1>2. /\ Len(got) \in Nat /\ Len(got') = Len(got) + 1 /\ got'[Len(got) + 1] = v
      /\ \A i \in 1 .. Len(got) : got'[i] = got[i] /\ got[i] \in Nat
  OBVIOUS
<1>3. UnitsRise(Down', g, u)
  BY <1>1, SkipRise
<1>4. Len(Down) \in Nat \ {0} /\ 1 \in 1 .. Len(Down)
  BY EmptySeq
<1>5. CASE v = CloseEvent
  <2>1. v = 0
    BY <1>5 DEF CloseEvent
  <2>2. GotRise(g)'
    <3>1. \A i \in 1 .. Len(got') : i \in 1 .. Len(got) \/ got'[i] = CloseEvent
      BY <1>2, <1>5
    <3>2. \A i \in 1 .. Len(got') : got'[i] <= g
      BY <1>1, <1>2, <1>5, <2>1, <3>1 DEF GotRise
    <3> QED
      BY <1>1, <1>2, <3>1, <3>2 DEF GotRise
  <2>3. InOrder(g, u, p)'
    BY <1>1, <1>3, <2>2 DEF InOrder
  <2> QED
    BY <2>3 DEF EventsRise
<1>6. CASE v # CloseEvent
  <2>1. IsEvent(Down[1])
    BY <1>6 DEF IsEvent
  <2>2. g < v /\ v <= u
    BY <1>1, <1>4, <2>1 DEF UnitsRise
  <2>3. UnitsRise(Down', v, u)
    <3>1. \A i \in 1 .. Len(Down') : IsEvent(Down'[i]) => v < Down'[i].value
      <4> SUFFICES ASSUME NEW i \in 1 .. Len(Down'), IsEvent(Down'[i])
                   PROVE  v < Down'[i].value
        OBVIOUS
      <4>1. i + 1 \in 1 .. Len(Down) /\ 1 < i + 1 /\ Down'[i] = Down[i + 1]
        BY <1>4
      <4> QED
        BY <1>1, <1>4, <2>1, <4>1 DEF UnitsRise
    <3> QED
      BY <1>3, <3>1 DEF UnitsRise
  <2>4. GotRise(v)'
    <3>1. \A i \in 1 .. Len(got') : i \in 1 .. Len(got) \/ i = Len(got) + 1
      BY <1>2
    <3>2. \A i \in 1 .. Len(got) : got'[i] < v /\ got'[i] <= v
      BY <1>1, <1>2, <2>2 DEF GotRise
    <3>3. \A i \in 1 .. Len(got') : got'[i] <= v
      <4>1. got'[Len(got) + 1] = v /\ v <= v
        BY <1>2
      <4> QED
        BY <3>1, <3>2, <4>1
    <3>4. ASSUME NEW i \in 1 .. Len(got'), NEW j \in 1 .. Len(got'), i < j,
                 CloseEvent \notin {got'[i], got'[j]}
          PROVE  got'[i] < got'[j]
      <4>1. i \in 1 .. Len(got)
        BY <1>2, <3>4
      <4>2. CASE j \in 1 .. Len(got)
        BY <1>1, <1>2, <3>4, <4>1, <4>2 DEF GotRise
      <4>3. CASE j = Len(got) + 1
        BY <1>2, <3>2, <4>1, <4>3
      <4> QED
        BY <3>1, <4>2, <4>3
    <3> QED
      BY <3>3, <3>4 DEF GotRise
  <2>5. InOrder(v, u, p)'
    BY <1>1, <2>2, <2>3, <2>4 DEF InOrder
  <2> QED
    BY <2>5 DEF EventsRise
<1> QED
  BY <1>5, <1>6

\* The worker's slots are called in their order.
LEMMA SlotParts ==
    ASSUME NEW s \in Seq(SlotSet), NEW i \in 1 .. Len(s)
    PROVE  s[i].slot = "processEvent" => s[i].event \in Nat \ {0}
  BY DEF SlotSet

LEMMA TailSlotsRise ==
    ASSUME NEW s \in Seq(SlotSet), s # << >>, NEW lo, NEW hi, SlotsRise(s, lo, hi)
    PROVE  SlotsRise(Tail(s), lo, hi)
<1>1. /\ Len(s) \in Nat /\ Len(Tail(s)) = Len(s) - 1
      /\ \A i \in 1 .. Len(s) - 1 : Tail(s)[i] = s[i + 1] /\ i + 1 \in 1 .. Len(s)
      /\ \A i, j \in 1 .. Len(s) - 1 : i < j => i + 1 < j + 1
  OBVIOUS
<1> QED
  BY <1>1 DEF SlotsRise

LEMMA PostRise ==
    ASSUME Typed, EventsRise, PostEvent \/ CloseStream
    PROVE  EventsRise' /\ slots' \in Seq(SlotSet) /\ posted' \in 0 .. MaxEvents
<1> PICK g \in Nat, u \in Nat, p \in Nat : InOrder(g, u, p)
  BY DEF EventsRise
<1>1. slots \in Seq(SlotSet) /\ posted \in Nat /\ posted \in 0 .. MaxEvents
  BY EventAssumption DEF Typed, ClientTyped, ServerTyped
<1>2. PICK x \in SlotSet : /\ slots' = Append(slots, x)
                           /\ x.slot = "processEvent" => x.event = posted + 1
                           /\ \/ posted' = posted /\ x.slot # "processEvent"
                              \/ posted' = posted + 1 /\ posted < MaxEvents
  <2>1. CASE PostEvent
    <3> DEFINE x == [slot |-> "processEvent", event |-> posted + 1]
    <3>1. x \in SlotSet /\ x.event = posted + 1
      BY <1>1 DEF SlotSet
    <3> QED
      BY <2>1, <3>1 DEF PostEvent
  <2>2. CASE CloseStream
    <3> DEFINE x == [slot |-> "close"]
    <3>1. x \in SlotSet /\ x.slot = "close"
      BY DEF SlotSet
    <3> QED
      BY <2>2, <3>1 DEF CloseStream, application
  <2> QED
    BY <2>1, <2>2
<1>3. /\ UNCHANGED << got, down, pending >>
      /\ Down' = Down
  BY DEF PostEvent, CloseStream, client, Down
<1>4. slots' \in Seq(SlotSet) /\ posted' \in 0 .. MaxEvents /\ posted <= posted'
  BY <1>1, <1>2, EventAssumption
<1>5. /\ Len(slots) \in Nat /\ Len(slots') = Len(slots) + 1 /\ slots'[Len(slots) + 1] = x
      /\ \A i \in 1 .. Len(slots) : slots'[i] = slots[i]
  BY <1>1, <1>2
<1>6. p <= posted /\ SlotsRise(slots, p, posted)
  BY DEF InOrder
<1>7. \A i \in 1 .. Len(slots') : i \in 1 .. Len(slots) \/ i = Len(slots) + 1
  BY <1>5
<1>8. \A i \in 1 .. Len(slots) : slots[i].slot = "processEvent" =>
          slots[i].event \in Nat /\ p < slots[i].event /\ slots[i].event <= posted
  BY <1>1, <1>6, SlotParts DEF SlotsRise
<1>9. \A i \in 1 .. Len(slots') : slots'[i].slot = "processEvent" =>
          p < slots'[i].event /\ slots'[i].event <= posted'
  BY <1>1, <1>2, <1>5, <1>6, <1>7, <1>8
<1>10. ASSUME NEW i \in 1 .. Len(slots'), NEW j \in 1 .. Len(slots'), i < j,
              slots'[i].slot = "processEvent", slots'[j].slot = "processEvent"
       PROVE  slots'[i].event < slots'[j].event
  <2>1. i \in 1 .. Len(slots)
    BY <1>5, <1>10
  <2>2. CASE j \in 1 .. Len(slots)
    BY <1>5, <1>6, <1>10, <2>1, <2>2 DEF SlotsRise
  <2>3. CASE j = Len(slots) + 1
    BY <1>1, <1>2, <1>5, <1>8, <1>10, <2>1, <2>3
  <2> QED
    BY <1>7, <2>2, <2>3
<1>11. SlotsRise(slots', p, posted')
  BY <1>9, <1>10 DEF SlotsRise
<1>12. p <= posted'
  BY <1>1, <1>2, <1>6
<1>13. InOrder(g, u, p)'
  BY <1>3, <1>11, <1>12 DEF InOrder, GotRise
<1> QED
  BY <1>4, <1>13 DEF EventsRise

LEMMA ProcessRise ==
    ASSUME Typed, EventsRise, ProcessEvent
    PROVE  /\ EventsRise'
           /\ slots' \in Seq(SlotSet) /\ pending' \in Seq(Nat \ {0})
<1> PICK g \in Nat, u \in Nat, p \in Nat : InOrder(g, u, p)
  BY DEF EventsRise
<1>1. /\ slots \in Seq(SlotSet) /\ slots # << >> /\ slots[1].slot = "processEvent"
      /\ pending \in Seq(Nat \ {0}) /\ Head(slots) = slots[1]
  BY DEF Typed, ClientTyped, ServerTyped, ProcessEvent
<1>2. Len(slots) \in Nat \ {0} /\ 1 \in 1 .. Len(slots)
  BY <1>1
<1>3. PICK e \in Nat \ {0} : e = slots[1].event
  BY <1>1, <1>2, SlotParts
<1>4. /\ pending' = Append(pending, e) /\ slots' = Tail(slots)
      /\ UNCHANGED << got, down, posted >>
      /\ Down' = Down
  BY <1>1, <1>3 DEF ProcessEvent, client, application, Down
<1>5. /\ g <= u /\ u <= p /\ p <= posted /\ GotRise(g) /\ UnitsRise(Down, g, u)
      /\ PendingRise(pending, u, p) /\ SlotsRise(slots, p, posted)
  BY DEF InOrder
<1>6. p < e /\ e <= posted
  BY <1>1, <1>2, <1>3, <1>5 DEF SlotsRise
<1>7. /\ Len(slots') = Len(slots) - 1
      /\ \A i \in 1 .. Len(slots) - 1 : slots'[i] = slots[i + 1] /\ i + 1 \in 1 .. Len(slots)
                                        /\ 1 < i + 1
  BY <1>1, <1>4
<1>8. SlotsRise(slots', e, posted)
  <2>1. SlotsRise(slots', p, posted)
    BY <1>1, <1>4, <1>5, TailSlotsRise
  <2>2. \A i \in 1 .. Len(slots') : slots'[i].slot = "processEvent" => e < slots'[i].event
    <3> SUFFICES ASSUME NEW i \in 1 .. Len(slots'), slots'[i].slot = "processEvent"
                 PROVE  e < slots'[i].event
      OBVIOUS
    <3>1. i + 1 \in 1 .. Len(slots) /\ 1 \in 1 .. Len(slots) /\ slots'[i] = slots[i + 1] /\ 1 < i + 1
      BY <1>7
    <3>2. slots[1].slot = "processEvent" /\ slots[1].event = e
      BY <1>1, <1>3
    <3> QED
      BY <1>5, <3>1, <3>2 DEF SlotsRise
  <2> QED
    BY <2>1, <2>2 DEF SlotsRise
<1>9. /\ Len(pending) \in Nat /\ Len(pending') = Len(pending) + 1
      /\ pending'[Len(pending) + 1] = e
      /\ \A i \in 1 .. Len(pending) : pending'[i] = pending[i] /\ pending[i] \in Nat
      /\ pending' \in Seq(Nat \ {0})
  BY <1>1, <1>4
<1>10. PendingRise(pending', u, e)
  <2>1. \A i \in 1 .. Len(pending') : i \in 1 .. Len(pending) \/ i = Len(pending) + 1
    BY <1>9
  <2>2. \A i \in 1 .. Len(pending) : u < pending'[i] /\ pending'[i] < e
    <3>1. \A i \in 1 .. Len(pending) : u < pending[i] /\ pending[i] <= p
      BY <1>5 DEF PendingRise
    <3> QED
      BY <1>6, <1>9, <3>1
  <2>3. \A i \in 1 .. Len(pending') : u < pending'[i] /\ pending'[i] <= e
    BY <1>5, <1>6, <1>9, <2>1, <2>2
  <2>4. ASSUME NEW i \in 1 .. Len(pending'), NEW j \in 1 .. Len(pending'), i < j
        PROVE  pending'[i] < pending'[j]
    <3>1. i \in 1 .. Len(pending)
      BY <1>9, <2>4
    <3>2. CASE j \in 1 .. Len(pending)
      BY <1>5, <1>9, <2>4, <3>1, <3>2 DEF PendingRise
    <3>3. CASE j = Len(pending) + 1
      BY <1>9, <2>2, <3>1, <3>3
    <3> QED
      BY <2>1, <3>2, <3>3
  <2> QED
    BY <2>3, <2>4 DEF PendingRise
<1>11. InOrder(g, u, e)'
  BY <1>4, <1>5, <1>6, <1>8, <1>10 DEF InOrder, GotRise
<1> QED
  BY <1>1, <1>4, <1>9, <1>11 DEF EventsRise

-----------------------------------------------------------------------------
(* What the steps do to the invariant                                      *)

\* Messages with no news for the client.
Silent(s) ==
    /\ s \in Seq(Units) /\ Framed(s, "none")
    /\ \A i \in 1 .. Len(s) : ~ IsEvent(s[i]) /\ ~ SaysYes(s[i])

LEMMA SilentMessages ==
    /\ Silent(<< >>) /\ Silent(Farewell)
    /\ Silent(<< Header("version") >>) /\ Silent(<< Header("quit") >>)
<1>1. Silent(<< >>)
  BY DEF Silent, Framed
<1>2. ASSUME NEW type \in {"version", "quit"}
      PROVE  Silent(<< Header(type) >>)
  <2>1. /\ Header(type) \in Units /\ Header(type).part = "header"
        /\ Header(type).type = type /\ ~ HasBody(type)
    BY UnitParts DEF HasBody
  <2> DEFINE s == << Header(type) >>
  <2>2. s \in Seq(Units) /\ Len(s) = 1 /\ s[1] = Header(type)
    BY <2>1
  <2> HIDE DEF s
  <2> QED
    BY <2>1, <2>2 DEF Silent, Framed, IsEvent, SaysYes, s
<1>3. Silent(Events(<< CloseEvent >>))
  <2> DEFINE s == << CloseEvent >>
             e == Events(s)
  <2>1. s \in Seq(Nat) /\ Len(s) = 1 /\ s[1] = CloseEvent
    BY DEF CloseEvent
  <2> HIDE DEF s
  <2>2. /\ e \in Seq(Units) /\ Len(e) = 2 * Len(s) /\ Framed(e, "none")
        /\ \A n \in 1 .. 2 * Len(s) :
              \/ n % 2 = 1 /\ e[n] = Header("event")
              \/ /\ n % 2 = 0 /\ n \div 2 \in 1 .. Len(s)
                 /\ e[n] = Body("event", s[n \div 2])
                 /\ s[n \div 2] \in Nat
    BY <2>1, EventsUnits
  <2>3. \A n \in 1 .. 2 : e[n] = Header("event") \/ e[n] = Body("event", CloseEvent)
    BY <2>1, <2>2
  <2>4. CloseEvent \in Nat /\ Len(e) = 2
    BY <2>1, <2>2 DEF CloseEvent
  <2> HIDE DEF e
  <2>5. \A n \in 1 .. 2 : ~ IsEvent(e[n]) /\ ~ SaysYes(e[n])
    BY <2>3, <2>4, UnitParts DEF IsEvent, SaysYes
  <2> QED
    BY <2>2, <2>4, <2>5 DEF Silent, e, s
<1> QED
  BY <1>1, <1>2, <1>3 DEF Farewell

LEMMA EventsSayNothing ==
    ASSUME NEW s \in Seq(Nat), NEW n \in 1 .. Len(Events(s))
    PROVE  ~ SaysYes(Events(s)[n])
<1>1. Len(Events(s)) = 2 * Len(s)
  BY EventsUnits
<1>2. Events(s)[n] = Header("event") \/ \E v \in Nat : Events(s)[n] = Body("event", v)
  BY <1>1, EventsUnits
<1> QED
  BY <1>2, UnitParts DEF SaysYes

\* The worker sends messages that are true, and the pending events with them or not.
LEMMA SendKeeps ==
    ASSUME IInv, stage # "starting", stage' # "starting", UNCHANGED client,
           NEW s \in Seq(Units), Framed(s, "none"),
           \A i \in 1 .. Len(s) : ~ IsEvent(s[i]) /\ (SaysYes(s[i]) => accepted'),
           accepted => accepted',
           stage' = "blocked" => ~ accepted',
           \/ AndThenEvents(s)
           \/ SendToClient(s) /\ pending' = pending,
           posted' = posted,
           \A lo \in Nat : SlotsRise(slots, lo, posted) => SlotsRise(slots', lo, posted)
    PROVE  /\ down' \in [flight : Seq(Units), arrived : Seq(Units)]
           /\ pending' \in Seq(Nat \ {0})
           /\ InFrame' /\ RepliesAgree' /\ EventsRise'
<1>1. /\ Typed /\ down \in [flight : Seq(Units), arrived : Seq(Units)]
      /\ pending \in Seq(Nat \ {0}) /\ pending \in Seq(Nat)
  BY DEF IInv, Typed, ClientTyped, ServerTyped
<1>2. pending' \in Seq(Nat \ {0})
  <2>1. CASE AndThenEvents(s)
    <3>1. pending' = << >>
      BY <2>1 DEF AndThenEvents
    <3> QED
      BY <3>1
  <2>2. CASE pending' = pending
    BY <1>1, <2>2
  <2> QED
    BY <2>1, <2>2
<1>3. EventsRise'
  BY <1>1, SendRise DEF IInv, client
<1>4. PICK t \in Seq(Units) : /\ Framed(t, "none") /\ SendToClient(t)
                              /\ \A i \in 1 .. Len(t) : SaysYes(t[i]) => accepted'
  <2>1. CASE SendToClient(s)
    BY <2>1
  <2>2. CASE AndThenEvents(s)
    <3> DEFINE e == Events(pending)
    <3>1. e \in Seq(Units) /\ Framed(e, "none") /\ \A i \in 1 .. Len(e) : ~ SaysYes(e[i])
      BY <1>1, EventsUnits, EventsSayNothing
    <3>2. SendToClient(s \o e)
      BY <2>2 DEF AndThenEvents
    <3> HIDE DEF e
    <3>3. s \o e \in Seq(Units) /\ Framed(s \o e, "none")
      BY <3>1, ConcatFramed
    <3>4. \A i \in 1 .. Len(s \o e) : SaysYes((s \o e)[i]) => accepted'
      <4>1. /\ Len(s) \in Nat /\ Len(e) \in Nat /\ Len(s \o e) = Len(s) + Len(e)
            /\ \A i \in 1 .. Len(s) + Len(e) :
                  (s \o e)[i] = IF i <= Len(s) THEN s[i] ELSE e[i - Len(s)]
        BY <3>1, ConcatProperties
      <4> QED
        BY <3>1, <4>1
    <3> QED
      BY <3>2, <3>3, <3>4
  <2> QED
    BY <2>1, <2>2
<1>5. /\ down' \in [flight : Seq(Units), arrived : Seq(Units)]
      /\ Framed(Down, header) => Framed(Down', header)
      /\ Down # << >> => Down' # << >> /\ Down'[1] = Down[1]
      /\ \A i \in 1 .. Len(Down') : \/ \E j \in 1 .. Len(Down) : Down'[i] = Down[j]
                                    \/ \E j \in 1 .. Len(t) : Down'[i] = t[j]
  BY <1>1, <1>4, DownSend
<1>6. InFrame'
  BY <1>5 DEF IInv, InFrame, client
<1>7. RepliesAgree'
  <2>1. \A i \in 1 .. Len(Down') : SaysYes(Down'[i]) => accepted'
    BY <1>4, <1>5 DEF IInv, RepliesAgree
  <2> QED
    BY <2>1 DEF IInv, RepliesAgree, client
<1> QED
  BY <1>2, <1>3, <1>5, <1>6, <1>7

\* Steps that leave messages, events and registration as they are.
LEMMA StillKeeps ==
    ASSUME IInv,
           down' = down, got' = got, pending' = pending, slots' = slots, posted' = posted,
           accepted' = accepted, registered' = registered,
           inStep' => inStep /\ header' = header,
           header' # "none" => inStep',
           \/ stage' = stage
           \/ stage # "starting" /\ stage' \notin {"starting", "blocked"}
           \/ stage # "starting" /\ stage' = "blocked" /\ ~ accepted,
           call' = "connecting" => call = "connecting" /\ inStep' /\ header' = "none"
    PROVE  InFrame' /\ RepliesAgree' /\ EventsRise'
<1>1. Down' = Down
  BY DEF Down
<1>2. EventsRise'
  BY <1>1, StillRise DEF IInv
<1>3. RepliesAgree'
  BY <1>1 DEF IInv, RepliesAgree
<1>4. InFrame'
  <2>1. inStep' => Framed(Down', header')
    BY <1>1 DEF IInv, InFrame
  <2>2. stage' = "starting" => stage = "starting"
    OBVIOUS
  <2> QED
    BY <1>1, <2>1, <2>2 DEF IInv, InFrame
<1> QED
  BY <1>2, <1>3, <1>4


\* The client reads the first unit of what is on its way.
LEMMA ReadParts ==
    ASSUME IInv, down.arrived # << >>, down' = Read(down)
    PROVE  /\ down' \in [flight : Seq(Units), arrived : Seq(Units)]
           /\ Down \in Seq(Units) /\ Down' \in Seq(Units) /\ Down # << >>
           /\ Head(down.arrived) = Down[1] /\ Down[1] \in Units
           /\ Len(Down') = Len(Down) - 1
           /\ \A i \in 1 .. Len(Down') : Down'[i] = Down[i + 1]
           /\ \A i \in 1 .. Len(Down') : SaysYes(Down'[i]) => accepted
           /\ SaysYes(Down[1]) => accepted
           /\ stage # "starting"
           /\ inStep =>
                 /\ header = "none" => Down[1] \in Headers
                 /\ header # "none" => Down[1].part = "body" /\ Down[1].type = header
                 /\ Framed(Down', IF header = "none" /\ HasBody(Down[1].type)
                                  THEN Down[1].type ELSE "none")
<1>1. down \in [flight : Seq(Units), arrived : Seq(Units)]
  BY DEF IInv, Typed, ClientTyped, ServerTyped
<1>2. /\ down' \in [flight : Seq(Units), arrived : Seq(Units)]
      /\ Down # << >> /\ Head(down.arrived) = Down[1] /\ Down[1] \in Units
      /\ Len(Down') = Len(Down) - 1
      /\ \A i \in 1 .. Len(Down') : Down'[i] = Down[i + 1]
  BY <1>1, DownRead
<1>3. Down \in Seq(Units)
  BY <1>1, DownTyped
<1>4. Down' \in Seq(Units)
  <2>1. down'.arrived \in Seq(Units) /\ down'.flight \in Seq(Units)
    BY <1>2
  <2> QED
    BY <2>1 DEF Down
<1>5. Len(Down) \in Nat \ {0} /\ 1 \in 1 .. Len(Down)
  BY <1>2, <1>3, EmptySeq
<1>6. \A i \in 1 .. Len(Down') : i + 1 \in 1 .. Len(Down)
  BY <1>2, <1>5
<1>7. \A i \in 1 .. Len(Down) : SaysYes(Down[i]) => accepted
  BY DEF IInv, RepliesAgree
<1>8. \A i \in 1 .. Len(Down') : SaysYes(Down'[i]) => accepted
  BY <1>2, <1>6, <1>7
<1>9. stage # "starting"
  BY <1>2 DEF IInv, InFrame
<1>10. ASSUME inStep
       PROVE  /\ header = "none" => Down[1] \in Headers
              /\ header # "none" => Down[1].part = "body" /\ Down[1].type = header
              /\ Framed(Down', IF header = "none" /\ HasBody(Down[1].type)
                               THEN Down[1].type ELSE "none")
  <2>1. Framed(Down, header) /\ (header # "none" => header \in {"reply", "event"})
    BY <1>10 DEF IInv, InFrame, Typed, ClientTyped, ServerTyped
  <2> QED
    BY <1>2, <1>3, <1>4, <2>1, ReadFramed
<1> QED
  BY <1>2, <1>3, <1>4, <1>5, <1>7, <1>8, <1>9, <1>10

LEMMA ConnectedKeeps ==
    ASSUME IInv, Connected
    PROVE  IInv'
<1>1. /\ down.arrived # << >> /\ down' = Read(down) /\ call = "connecting" /\ call' = "idle"
      /\ UNCHANGED << bind, registered, header, inStep, linked, got, calls, up >>
      /\ UNCHANGED << stage, accepted, pending, slots, closing, error, promise, posted >>
  BY DEF Connected, worker, application
<1>2. /\ down' \in [flight : Seq(Units), arrived : Seq(Units)]
      /\ Down \in Seq(Units) /\ Down' \in Seq(Units) /\ Down # << >>
      /\ Len(Down') = Len(Down) - 1
      /\ \A i \in 1 .. Len(Down') : Down'[i] = Down[i + 1]
      /\ \A i \in 1 .. Len(Down') : SaysYes(Down'[i]) => accepted
      /\ stage # "starting"
      /\ inStep => Framed(Down', IF header = "none" /\ HasBody(Down[1].type)
                                 THEN Down[1].type ELSE "none")
  BY <1>1, ReadParts
<1>3. Typed'
  <2>1. header = "none"
    BY <1>1 DEF IInv, InFrame
  <2> QED
    BY <1>1, <1>2, <2>1 DEF IInv, Typed, ClientTyped, ServerTyped
<1>4. EventsRise'
  BY <1>1, <1>2, LostRise DEF IInv
<1>5. RepliesAgree'
  BY <1>1, <1>2 DEF IInv, RepliesAgree
<1>6. header = "none" /\ Down[1] = Header("version")
  BY <1>1, <1>2 DEF IInv, InFrame
<1>7. ~ HasBody(Down[1].type)
  BY <1>6, UnitParts DEF HasBody
<1>8. InFrame'
  BY <1>1, <1>2, <1>6, <1>7 DEF InFrame
<1> QED
  BY <1>3, <1>4, <1>5, <1>8 DEF IInv

LEMMA ReceiveHeaderKeeps ==
    ASSUME IInv, ReceiveHeader
    PROVE  IInv'
<1>1. /\ down.arrived # << >> /\ down' = Read(down) /\ Receiving /\ inStep /\ header = "none"
      /\ UNCHANGED << bind, inStep, calls, up, registered, got >>
      /\ UNCHANGED << stage, accepted, pending, slots, closing, error, promise, posted >>
  BY DEF ReceiveHeader, GiveUp, worker, application
<1>2. /\ down' \in [flight : Seq(Units), arrived : Seq(Units)]
      /\ Down \in Seq(Units) /\ Down' \in Seq(Units)
      /\ Head(down.arrived) = Down[1] /\ Down[1] \in Headers
      /\ Len(Down') = Len(Down) - 1
      /\ \A i \in 1 .. Len(Down') : Down'[i] = Down[i + 1]
      /\ \A i \in 1 .. Len(Down') : SaysYes(Down'[i]) => accepted
      /\ stage # "starting"
      /\ Framed(Down', IF HasBody(Down[1].type) THEN Down[1].type ELSE "none")
  BY <1>1, ReadParts
<1>3. Down[1].type \in {"version", "reply", "event", "quit"}
  BY <1>2 DEF Headers
<1>4. \/ /\ HasBody(Down[1].type) /\ header' = Down[1].type /\ header' \in {"reply", "event"}
         /\ UNCHANGED << call, linked >>
      \/ /\ ~ HasBody(Down[1].type) /\ header' = "none" /\ call' = "idle" /\ linked' = FALSE
  BY <1>2, <1>3 DEF ReceiveHeader, GiveUp, HasBody
<1>5. Typed'
  <2>1. header' # "none" => Receiving'
    BY <1>1, <1>4 DEF Receiving
  <2>2. bind' \in BOOLEAN /\ (bind' <=> call' = "binding") /\ linked' \in BOOLEAN
    BY <1>1, <1>4 DEF IInv, Typed, ClientTyped, ServerTyped, Receiving
  <2>3. header' \in {"none", "reply", "event"}
        /\ call' \in {"connecting", "failed", "idle", "binding", "register", "getEvent"}
    BY <1>4 DEF IInv, Typed, ClientTyped, ServerTyped
  <2> QED
    BY <1>1, <1>2, <2>1, <2>2, <2>3 DEF IInv, Typed, ClientTyped, ServerTyped
<1>6. EventsRise'
  BY <1>1, <1>2, LostRise DEF IInv
<1>7. RepliesAgree'
  BY <1>1, <1>2 DEF IInv, RepliesAgree
<1>8. InFrame'
  BY <1>1, <1>2, <1>4 DEF InFrame, Receiving
<1> QED
  BY <1>5, <1>6, <1>7, <1>8 DEF IInv

LEMMA ReceiveBodyKeeps ==
    ASSUME IInv, ReceiveBody
    PROVE  IInv'
<1>1. /\ down.arrived # << >> /\ down' = Read(down) /\ Receiving /\ header # "none"
      /\ call' = "idle" /\ header' = "none" /\ Deliver(header, Head(down.arrived).value)
      /\ UNCHANGED << bind, inStep, linked, calls, up >>
      /\ UNCHANGED << stage, accepted, pending, slots, closing, error, promise, posted >>
  BY DEF ReceiveBody, Deliver, worker, application
<1>2. inStep
  BY <1>1 DEF IInv, InFrame
<1>3. /\ down' \in [flight : Seq(Units), arrived : Seq(Units)]
      /\ Down \in Seq(Units) /\ Down' \in Seq(Units) /\ Down # << >>
      /\ Head(down.arrived) = Down[1] /\ Down[1] \in Units
      /\ Down[1].part = "body" /\ Down[1].type = header
      /\ Len(Down') = Len(Down) - 1
      /\ \A i \in 1 .. Len(Down') : Down'[i] = Down[i + 1]
      /\ \A i \in 1 .. Len(Down') : SaysYes(Down'[i]) => accepted
      /\ SaysYes(Down[1]) => accepted
      /\ stage # "starting"
      /\ Framed(Down', "none")
  BY <1>1, <1>2, ReadParts
<1>4. /\ header = "reply" => Down[1].value \in BOOLEAN
      /\ header = "event" => Down[1].value \in Nat
  BY <1>3 DEF Units, Headers, Replies, EventBodies
<1>5. /\ registered' = IF call = "register" /\ header = "reply" THEN Down[1].value
                                                             ELSE registered
      /\ got' = IF call = "getEvent" /\ header = "event" THEN Append(got, Down[1].value)
                                                       ELSE got
  BY <1>1, <1>3 DEF Deliver
<1>6. registered' \in BOOLEAN /\ got \in Seq(Nat) /\ got' \in Seq(Nat)
  <2>1. registered \in BOOLEAN /\ got \in Seq(Nat)
    BY DEF IInv, Typed, ClientTyped, ServerTyped
  <2> QED
    BY <1>4, <1>5, <2>1
<1>7. Typed'
  BY <1>1, <1>3, <1>6 DEF IInv, Typed, ClientTyped, ServerTyped, Receiving
<1>8. EventsRise'
  <2>1. CASE call = "getEvent" /\ header = "event"
    BY <1>1, <1>3, <1>4, <1>5, <1>6, <2>1, GetRise DEF IInv
  <2>2. CASE ~ (call = "getEvent" /\ header = "event")
    <3>1. got' = got
      BY <1>5, <2>2
    <3> QED
      BY <1>1, <1>3, <3>1, LostRise DEF IInv
  <2> QED
    BY <2>1, <2>2
<1>9. registered' => accepted
  <2>1. CASE call = "register" /\ header = "reply"
    BY <1>3, <1>5, <2>1 DEF SaysYes
  <2>2. CASE ~ (call = "register" /\ header = "reply")
    <3>1. registered' = registered
      BY <1>5, <2>2
    <3> QED
      BY <3>1 DEF IInv, RepliesAgree
  <2> QED
    BY <2>1, <2>2
<1>10. RepliesAgree'
  BY <1>1, <1>3, <1>9 DEF IInv, RepliesAgree
<1>11. InFrame'
  BY <1>1, <1>3 DEF InFrame
<1> QED
  BY <1>7, <1>8, <1>10, <1>11 DEF IInv

LEMMA ReceiveGarbageKeeps ==
    ASSUME IInv, ReceiveGarbage
    PROVE  IInv'
<1>1. /\ Receiving /\ ~ inStep /\ call' = "idle" /\ header' = "none"
      /\ UNCHANGED << bind, inStep, linked, calls, up, registered, got >>
      /\ UNCHANGED << stage, accepted, pending, slots, closing, error, promise, posted >>
  BY DEF ReceiveGarbage, GiveUp, worker, application
<1>2. down \in [flight : Seq(Units), arrived : Seq(Units)]
  BY DEF IInv, Typed, ClientTyped, ServerTyped
<1>3. PICK n \in 0 .. Len(down.arrived) : down' = Skip(down, n)
  BY DEF ReceiveGarbage
<1>4. /\ down' \in [flight : Seq(Units), arrived : Seq(Units)]
      /\ Len(Down') = Len(Down) - n
      /\ \A i \in 1 .. Len(Down') : Down'[i] = Down[i + n]
  BY <1>2, <1>3, DownSkip
<1>5. Down \in Seq(Units) /\ Len(Down) \in Nat /\ n \in Nat
  BY <1>2, <1>3, DownTyped
<1>6. Down' \in Seq(Units)
  <2>1. down'.arrived \in Seq(Units) /\ down'.flight \in Seq(Units)
    BY <1>4
  <2> QED
    BY <2>1 DEF Down
<1>7. Typed'
  BY <1>1, <1>4 DEF IInv, Typed, ClientTyped, ServerTyped, Receiving
<1>8. EventsRise'
  BY <1>1, <1>4, <1>5, <1>6, LostRise DEF IInv
<1>9. RepliesAgree'
  <2>1. \A i \in 1 .. Len(Down') : i + n \in 1 .. Len(Down)
    BY <1>4, <1>5
  <2>2. \A i \in 1 .. Len(Down') : SaysYes(Down'[i]) => accepted
    BY <1>4, <2>1 DEF IInv, RepliesAgree
  <2> QED
    BY <1>1, <2>2 DEF IInv, RepliesAgree
<1>10. Down = << >> => Down' = << >>
  <2>1. Len(Down') \in Nat
    BY <1>6
  <2> QED
    BY <1>4, <1>5, <1>6, <2>1, EmptySeq
<1>11. InFrame'
  BY <1>1, <1>10 DEF IInv, InFrame, Receiving
<1> QED
  BY <1>7, <1>8, <1>9, <1>11 DEF IInv


\* The steps in which the worker says nothing and the client reads nothing.
LEMMA QuietStepsKeep ==
    ASSUME IInv,
           \/ ArriveUp \/ Disconnect \/ ConnectTimeout \/ RegisterForEvents \/ SendBind
           \/ SendData \/ Poll \/ HeaderTimeout \/ BodyTimeout \/ AnswerRegistration
           \/ NoticeDisconnection \/ ReadDataHeader
    PROVE  IInv'
<1>0. /\ header # "none" => inStep
      /\ call = "connecting" => header = "none" /\ inStep
  BY DEF IInv, InFrame
<1>1. CASE ArriveUp
  <2>1. /\ UNCHANGED << call, bind, registered, header, inStep, linked, got, calls, down >>
        /\ UNCHANGED << stage, accepted, pending, slots, closing, error, promise, posted >>
    BY <1>1 DEF ArriveUp, client, worker, application
  <2>2. Typed'
    <3>1. ClientTyped'
      BY <2>1 DEF IInv, Typed, ClientTyped, Receiving
    <3>2. ServerTyped'
      BY <2>1 DEF IInv, Typed, ServerTyped
    <3> QED
      BY <3>1, <3>2 DEF Typed
  <2>3. InFrame' /\ RepliesAgree' /\ EventsRise'
    BY <1>0, <2>1, StillKeeps
  <2> QED
    BY <2>2, <2>3 DEF IInv
<1>2. CASE Disconnect
  <2>1. /\ linked' = FALSE
        /\ UNCHANGED << call, bind, registered, header, inStep, got, calls, down >>
        /\ UNCHANGED << stage, accepted, pending, slots, closing, error, promise, posted >>
    BY <1>2 DEF Disconnect, worker, application
  <2>2. Typed'
    <3>1. header' # "none" => Receiving'
      BY <2>1 DEF IInv, Typed, ClientTyped, ServerTyped, Receiving
    <3>2. linked' \in BOOLEAN
      BY <2>1
    <3> QED
      BY <2>1, <3>1, <3>2 DEF IInv, Typed, ClientTyped, ServerTyped
  <2>3. InFrame' /\ RepliesAgree' /\ EventsRise'
    BY <1>0, <2>1, StillKeeps
  <2> QED
    BY <2>2, <2>3 DEF IInv
<1>3. CASE ConnectTimeout
  <2>1. /\ call = "connecting" /\ call' = "failed" /\ linked' = FALSE
        /\ UNCHANGED << bind, registered, header, inStep, got, calls, down >>
        /\ UNCHANGED << stage, accepted, pending, slots, closing, error, promise, posted >>
    BY <1>3 DEF ConnectTimeout, worker, application
  <2>2. Typed'
    <3>1. ClientTyped'
      BY <2>1 DEF IInv, Typed, ClientTyped, Receiving
    <3>2. ServerTyped'
      BY <2>1 DEF IInv, Typed, ServerTyped
    <3> QED
      BY <3>1, <3>2 DEF Typed
  <2>3. InFrame' /\ RepliesAgree' /\ EventsRise'
    BY <1>0, <2>1, StillKeeps
  <2> QED
    BY <2>2, <2>3 DEF IInv
<1>4. CASE RegisterForEvents
  <2>1. /\ call = "idle" /\ call' = "binding" /\ bind' = TRUE
        /\ calls < MaxCalls /\ calls' = calls + 1
        /\ UNCHANGED << registered, header, inStep, linked, got, down >>
        /\ UNCHANGED << stage, accepted, pending, slots, closing, error, promise, posted >>
    BY <1>4 DEF RegisterForEvents, worker, application
  <2>2. Typed'
    <3>1. ClientTyped'
      BY <2>1, EventAssumption DEF IInv, Typed, ClientTyped, Receiving
    <3>2. ServerTyped'
      BY <2>1 DEF IInv, Typed, ServerTyped
    <3> QED
      BY <3>1, <3>2 DEF Typed
  <2>3. InFrame' /\ RepliesAgree' /\ EventsRise'
    BY <1>0, <2>1, StillKeeps
  <2> QED
    BY <2>2, <2>3 DEF IInv
<1>5. CASE SendBind
  <2>1. /\ bind /\ bind' = FALSE /\ call' \in {"register", "idle"}
        /\ UNCHANGED << registered, header, inStep, linked, got, calls, down >>
        /\ UNCHANGED << stage, accepted, pending, slots, closing, error, promise, posted >>
    BY <1>5 DEF SendBind, worker, application
  <2>2. Typed'
    <3>1. ClientTyped'
      BY <2>1 DEF IInv, Typed, ClientTyped, Receiving
    <3>2. ServerTyped'
      BY <2>1 DEF IInv, Typed, ServerTyped
    <3> QED
      BY <3>1, <3>2 DEF Typed
  <2>3. InFrame' /\ RepliesAgree' /\ EventsRise'
    BY <1>0, <2>1, StillKeeps
  <2> QED
    BY <2>2, <2>3 DEF IInv
<1>6. CASE SendData
  <2>1. /\ calls < MaxCalls /\ calls' = calls + 1
        /\ UNCHANGED << call, bind, registered, header, inStep, linked, got, down >>
        /\ UNCHANGED << stage, accepted, pending, slots, closing, error, promise, posted >>
    BY <1>6 DEF SendData, worker, application
  <2>2. Typed'
    <3>1. ClientTyped'
      BY <2>1, EventAssumption DEF IInv, Typed, ClientTyped, Receiving
    <3>2. ServerTyped'
      BY <2>1 DEF IInv, Typed, ServerTyped
    <3> QED
      BY <3>1, <3>2 DEF Typed
  <2>3. InFrame' /\ RepliesAgree' /\ EventsRise'
    BY <1>0, <2>1, StillKeeps
  <2> QED
    BY <2>2, <2>3 DEF IInv
<1>7. CASE Poll
  <2>1. /\ call = "idle" /\ call' = "getEvent"
        /\ UNCHANGED << bind, registered, header, inStep, linked, got, calls, down >>
        /\ UNCHANGED << stage, accepted, pending, slots, closing, error, promise, posted >>
    BY <1>7 DEF Poll, worker, application
  <2>2. Typed'
    <3>1. ClientTyped'
      BY <2>1 DEF IInv, Typed, ClientTyped, Receiving
    <3>2. ServerTyped'
      BY <2>1 DEF IInv, Typed, ServerTyped
    <3> QED
      BY <3>1, <3>2 DEF Typed
  <2>3. InFrame' /\ RepliesAgree' /\ EventsRise'
    BY <1>0, <2>1, StillKeeps
  <2> QED
    BY <2>2, <2>3 DEF IInv
<1>8. CASE HeaderTimeout \/ BodyTimeout
  <2>1. /\ Receiving /\ call' = "idle" /\ header' = "none"
        /\ \/ header = "none" /\ inStep' = inStep
           \/ inStep' = FALSE
        /\ UNCHANGED << bind, registered, linked, got, calls, down >>
        /\ UNCHANGED << stage, accepted, pending, slots, closing, error, promise, posted >>
    BY <1>8 DEF HeaderTimeout, BodyTimeout, GiveUp, worker, application
  <2>2. Typed'
    <3>1. ClientTyped'
      BY <2>1 DEF IInv, Typed, ClientTyped, Receiving
    <3>2. ServerTyped'
      BY <2>1 DEF IInv, Typed, ServerTyped
    <3> QED
      BY <3>1, <3>2 DEF Typed
  <2>3. InFrame' /\ RepliesAgree' /\ EventsRise'
    BY <1>0, <2>1, StillKeeps
  <2> QED
    BY <2>2, <2>3 DEF IInv
<1>9. CASE AnswerRegistration
  <2>1. /\ promise' \in {"yes", "no"}
        /\ UNCHANGED << call, bind, registered, header, inStep, linked, got, calls, down >>
        /\ UNCHANGED << stage, accepted, pending, slots, closing, error, posted >>
    BY <1>9 DEF AnswerRegistration, client, worker
  <2>2. Typed'
    <3>1. ClientTyped'
      BY <2>1 DEF IInv, Typed, ClientTyped, Receiving
    <3>2. ServerTyped'
      BY <2>1 DEF IInv, Typed, ServerTyped
    <3> QED
      BY <3>1, <3>2 DEF Typed
  <2>3. InFrame' /\ RepliesAgree' /\ EventsRise'
    BY <1>0, <2>1, StillKeeps
  <2> QED
    BY <2>2, <2>3 DEF IInv
<1>10. CASE NoticeDisconnection
  <2>1. /\ closing' = TRUE
        /\ UNCHANGED << call, bind, registered, header, inStep, linked, got, calls, down >>
        /\ UNCHANGED << stage, accepted, pending, slots, error, promise, posted >>
    BY <1>10 DEF NoticeDisconnection, client, application
  <2>2. Typed'
    <3>1. ClientTyped'
      BY <2>1 DEF IInv, Typed, ClientTyped, Receiving
    <3>2. ServerTyped'
      BY <2>1 DEF IInv, Typed, ServerTyped
    <3> QED
      BY <3>1, <3>2 DEF Typed
  <2>3. InFrame' /\ RepliesAgree' /\ EventsRise'
    BY <1>0, <2>1, StillKeeps
  <2> QED
    BY <2>2, <2>3 DEF IInv
<1>11. CASE ReadDataHeader
  <2>1. /\ stage = "loop" /\ stage' = "body"
        /\ UNCHANGED << call, bind, registered, header, inStep, linked, got, calls, down >>
        /\ UNCHANGED << accepted, pending, slots, closing, error, promise, posted >>
    BY <1>11 DEF ReadDataHeader, client, application
  <2>2. Typed'
    <3>1. ClientTyped'
      BY <2>1 DEF IInv, Typed, ClientTyped, Receiving
    <3>2. ServerTyped'
      BY <2>1 DEF IInv, Typed, ServerTyped
    <3> QED
      BY <3>1, <3>2 DEF Typed
  <2>3. InFrame' /\ RepliesAgree' /\ EventsRise'
    BY <1>0, <2>1, StillKeeps
  <2> QED
    BY <2>2, <2>3 DEF IInv
<1> QED
  BY <1>1, <1>2, <1>3, <1>4, <1>5, <1>6, <1>7, <1>8, <1>9, <1>10, <1>11

\* What the worker sends by itself: a farewell, nothing, or the end.
LEMMA SilentSteps ==
    ASSUME IInv, NEW s, Silent(s), stage # "starting",
           stage' \in {"loop", "body", "blocked", "off"}, stage' = "blocked" => stage = "blocked",
           AndThenEvents(s) \/ (SendToClient(s) /\ pending' = pending),
           UNCHANGED << client, accepted, promise, posted >>,
           slots' = slots \/ (slots # << >> /\ slots' = Tail(slots)),
           closing' \in BOOLEAN, error' \in {"none", "protocol", "timeout"}
    PROVE  IInv'
<1>1. Typed /\ posted \in Nat /\ slots \in Seq(SlotSet)
  BY EventAssumption DEF IInv, Typed, ClientTyped, ServerTyped
<1>2. /\ s \in Seq(Units) /\ Framed(s, "none")
      /\ \A i \in 1 .. Len(s) : ~ IsEvent(s[i]) /\ (SaysYes(s[i]) => accepted')
  BY DEF Silent
<1>3. /\ \A lo \in Nat : SlotsRise(slots, lo, posted) => SlotsRise(slots', lo, posted)
      /\ slots' \in Seq(SlotSet)
  <2>1. CASE slots' = slots
    BY <1>1, <2>1
  <2>2. CASE slots # << >> /\ slots' = Tail(slots)
    <3>1. \A lo : SlotsRise(slots, lo, posted) => SlotsRise(Tail(slots), lo, posted)
      BY <1>1, <2>2, TailSlotsRise
    <3> QED
      BY <1>1, <2>2, <3>1
  <2> QED
    BY <2>1, <2>2
<1>4. stage' = "blocked" => ~ accepted'
  BY DEF IInv, RepliesAgree
<1>5. /\ down' \in [flight : Seq(Units), arrived : Seq(Units)]
      /\ pending' \in Seq(Nat \ {0})
      /\ InFrame' /\ RepliesAgree' /\ EventsRise'
  BY <1>2, <1>3, <1>4, SendKeeps
<1>6. Typed'
  BY <1>1, <1>3, <1>5 DEF Typed, ClientTyped, ServerTyped, Receiving, client
<1> QED
  BY <1>5, <1>6 DEF IInv

\* The worker asks the application, or says that the client is registered already.
LEMMA TryKeeps ==
    ASSUME IInv, stage = "loop", TryRegistering,
           UNCHANGED << client, accepted, slots, posted >>
    PROVE  IInv'
<1>1. CASE accepted
  <2>1. /\ AndThenEvents(Farewell) /\ stage' = stage /\ promise' = promise
        /\ closing' \in BOOLEAN /\ error' \in {"none", "protocol", "timeout"}
    BY <1>1 DEF TryRegistering, Fail, IInv, Typed, ClientTyped, ServerTyped
  <2> QED
    BY <2>1, SilentMessages, SilentSteps
<1>2. CASE ~ accepted
  <2>1. /\ stage' = "blocked" /\ promise' = "asked"
        /\ UNCHANGED << call, bind, registered, header, inStep, linked, got, calls, down >>
        /\ UNCHANGED << accepted, pending, slots, closing, error, posted >>
    BY <1>2 DEF TryRegistering, client
  <2>2. Typed'
    <3>1. ClientTyped'
      BY <2>1 DEF IInv, Typed, ClientTyped, Receiving
    <3>2. ServerTyped'
      BY <2>1 DEF IInv, Typed, ServerTyped
    <3> QED
      BY <3>1, <3>2 DEF Typed
  <2>3. InFrame' /\ RepliesAgree' /\ EventsRise'
    <3>1. /\ header # "none" => inStep
          /\ call = "connecting" => header = "none" /\ inStep
      BY DEF IInv, InFrame
    <3> QED
      BY <1>2, <2>1, <3>1, StillKeeps
  <2> QED
    BY <2>2, <2>3 DEF IInv
<1> QED
  BY <1>1, <1>2


\* The steps of the worker and of the application of the server.
LEMMA WorkerKeeps ==
    ASSUME IInv,
           \/ InitConnection \/ HandleBind \/ SendBindReply \/ ReadDataBody
           \/ DataTimeout \/ ReadGarbage \/ SendPendingEvents
           \/ ProcessEvent \/ CloseConnections \/ EndThread
           \/ PostEvent \/ CloseStream
    PROVE  IInv'
<1>0. Typed /\ InFrame /\ RepliesAgree /\ EventsRise
  BY DEF IInv
<1>1. CASE InitConnection
  <2> DEFINE s == << Header("version") >>
  <2>1. /\ stage = "starting" /\ stage' = "loop" /\ SendToClient(s)
        /\ UNCHANGED << call, bind, registered, header, inStep, linked, got, calls >>
        /\ UNCHANGED << accepted, pending, slots, closing, error, promise, posted >>
    BY <1>1 DEF InitConnection, SendProtocolVersion, client, application
  <2>2. /\ s \in Seq(Units) /\ Framed(s, "none")
        /\ \A i \in 1 .. Len(s) : ~ IsEvent(s[i]) /\ ~ SaysYes(s[i])
        /\ s # << >> /\ s[1] = Header("version") /\ Len(s) = 1
    BY SilentMessages DEF Silent
  <2> HIDE DEF s
  <2>3. /\ Down = << >> /\ Down \in Seq(Units)
        /\ down \in [flight : Seq(Units), arrived : Seq(Units)]
    BY <1>0, <2>1, DownTyped DEF InFrame, Typed, ClientTyped, ServerTyped
  <2>4. /\ down' \in [flight : Seq(Units), arrived : Seq(Units)]
        /\ Down' = Down \o s
    BY <2>1, <2>2, <2>3, DownWrite
  <2>5. Down' = s
    BY <2>2, <2>3, <2>4
  <2>6. Typed'
    BY <1>0, <2>1, <2>4 DEF Typed, ClientTyped, ServerTyped, Receiving
  <2>7. EventsRise'
    BY <1>0, <2>1, <2>2, SendRise
  <2>8. RepliesAgree'
    BY <1>0, <2>1, <2>2, <2>5 DEF RepliesAgree, InFrame
  <2>9. InFrame'
    <3>1. inStep => header = "none"
      BY <1>0, <2>1, <2>3, EmptySeq DEF InFrame, Framed
    <3> QED
      BY <1>0, <2>1, <2>2, <2>5, <3>1 DEF InFrame
  <2> QED
    BY <2>6, <2>7, <2>8, <2>9 DEF IInv
<1>2. CASE HandleBind
  BY <1>2, TryKeeps DEF HandleBind
<1>3. CASE SendBindReply
  <2> DEFINE s == << Header("reply"), Body("reply", promise = "yes") >>
  <2>1. /\ stage = "blocked" /\ stage' = "loop" /\ accepted' = (promise = "yes")
        /\ AndThenEvents(s)
        /\ UNCHANGED << call, bind, registered, header, inStep, linked, got, calls >>
        /\ UNCHANGED << slots, closing, error, promise, posted >>
    BY <1>3 DEF SendBindReply, client, application
  <2>2. /\ s \in Seq(Units) /\ Framed(s, "none")
        /\ \A i \in 1 .. Len(s) : ~ IsEvent(s[i]) /\ (SaysYes(s[i]) => promise = "yes")
    <3> DEFINE v == (promise = "yes")
               h == Header("reply")
               b == Body("reply", v)
    <3>1. /\ h \in Units /\ h.part = "header" /\ h.type = "reply"
          /\ b \in Units /\ b.part = "body" /\ b.type = "reply" /\ b.value = v
      BY UnitParts
    <3>2. s = << h, b >>
      OBVIOUS
    <3> HIDE DEF s, h, b
    <3>3. s \in Seq(Units) /\ Len(s) = 2 /\ s[1] = h /\ s[2] = b
      BY <3>1, <3>2
    <3>4. Framed(s, "none")
      BY <3>1, <3>3 DEF Framed, Follows, HasBody
    <3>5. ~ IsEvent(h) /\ ~ SaysYes(h) /\ ~ IsEvent(b) /\ (SaysYes(b) => promise = "yes")
      BY <3>1 DEF IsEvent, SaysYes
    <3>6. \A i \in 1 .. Len(s) : s[i] = h \/ s[i] = b
      BY <3>3
    <3> QED
      BY <3>3, <3>4, <3>5, <3>6
  <2> HIDE DEF s
  <2>3. ~ accepted /\ accepted' \in BOOLEAN /\ (promise = "yes" => accepted')
    BY <1>0, <2>1 DEF RepliesAgree
  <2>4. /\ down' \in [flight : Seq(Units), arrived : Seq(Units)]
        /\ pending' \in Seq(Nat \ {0})
        /\ InFrame' /\ RepliesAgree' /\ EventsRise'
    BY <2>1, <2>2, <2>3, SendKeeps DEF client
  <2>5. Typed'
    BY <1>0, <2>1, <2>3, <2>4 DEF Typed, ClientTyped, ServerTyped, Receiving
  <2> QED
    BY <2>4, <2>5 DEF IInv
<1>4. CASE ReadDataBody
  <2>1. /\ stage = "body" /\ stage' = "loop" /\ AndThenEvents(<< >>)
        /\ UNCHANGED << client, accepted, promise, posted >> /\ slots' = slots
        /\ closing' = closing /\ error' = error
    BY <1>4 DEF ReadDataBody, application
  <2> QED
    BY <1>0, <2>1, SilentMessages, SilentSteps DEF Typed, ClientTyped, ServerTyped
<1>5. CASE DataTimeout
  <2>1. /\ stage = "body" /\ stage' = "loop" /\ AndThenEvents(Farewell)
        /\ UNCHANGED << client, accepted, promise, posted >> /\ slots' = slots
        /\ closing' = TRUE /\ error' \in {error, "timeout"}
    BY <1>5 DEF DataTimeout, Fail, application
  <2> QED
    BY <1>0, <2>1, SilentMessages, SilentSteps DEF Typed, ClientTyped, ServerTyped
<1>6. CASE ReadGarbage
  <2>1. /\ stage = "loop" /\ UNCHANGED << client, accepted, slots, posted >>
        /\ \/ AndThenEvents(<< >>) /\ UNCHANGED << stage, closing, error, promise >>
           \/ Fail("timeout") /\ UNCHANGED << stage, promise >>
           \/ TryRegistering
    BY <1>6 DEF ReadGarbage
  <2>2. CASE AndThenEvents(<< >>) /\ UNCHANGED << stage, closing, error, promise >>
    BY <1>0, <2>1, <2>2, SilentMessages, SilentSteps DEF Typed, ClientTyped, ServerTyped
  <2>3. CASE Fail("timeout") /\ UNCHANGED << stage, promise >>
    <3>1. /\ AndThenEvents(Farewell) /\ closing' = TRUE /\ error' \in {error, "timeout"}
          /\ stage' = stage /\ promise' = promise
      BY <2>3 DEF Fail
    <3> QED
      BY <1>0, <2>1, <3>1, SilentMessages, SilentSteps DEF Typed, ClientTyped, ServerTyped
  <2>4. CASE TryRegistering
    BY <2>1, <2>4, TryKeeps
  <2> QED
    BY <2>1, <2>2, <2>3, <2>4
<1>7. CASE SendPendingEvents
  <2>1. /\ stage = "loop" /\ stage' = stage /\ AndThenEvents(<< >>)
        /\ UNCHANGED << client, accepted, promise, posted >> /\ slots' = slots
        /\ closing' = closing /\ error' = error
    BY <1>7 DEF SendPendingEvents, application
  <2> QED
    BY <1>0, <2>1, SilentMessages, SilentSteps DEF Typed, ClientTyped, ServerTyped
<1>8. CASE CloseConnections
  <2>1. /\ stage = "loop" /\ stage' = stage /\ SendToClient(Farewell) /\ pending' = pending
        /\ UNCHANGED << client, accepted, promise, posted >>
        /\ slots # << >> /\ slots' = Tail(slots) /\ closing' = TRUE /\ error' = error
    BY <1>8 DEF CloseConnections, application
  <2> QED
    BY <1>0, <2>1, SilentMessages, SilentSteps DEF Typed, ClientTyped, ServerTyped
<1>9. CASE EndThread
  <2>1. /\ stage = "loop" /\ stage' = "off" /\ SendToClient(<< Header("quit") >>)
        /\ UNCHANGED << client, accepted, promise, posted >> /\ slots' = slots
        /\ pending' = pending /\ closing' = closing /\ error' = error
    BY <1>9 DEF EndThread, SendQuit, application
  <2> QED
    BY <1>0, <2>1, SilentMessages, SilentSteps DEF Typed, ClientTyped, ServerTyped
<1>10. CASE ProcessEvent
  <2>1. /\ stage = "loop" /\ UNCHANGED << down, stage, accepted, closing, error >>
        /\ UNCHANGED << call, bind, registered, header, inStep, linked, got, calls >>
        /\ UNCHANGED << promise, posted >>
    BY <1>10 DEF ProcessEvent, client, application
  <2>2. EventsRise' /\ slots' \in Seq(SlotSet) /\ pending' \in Seq(Nat \ {0})
    BY <1>0, <1>10, ProcessRise
  <2>3. Typed'
    BY <1>0, <2>1, <2>2 DEF Typed, ClientTyped, ServerTyped, Receiving
  <2>4. InFrame' /\ RepliesAgree'
    BY <1>0, <2>1 DEF InFrame, RepliesAgree, Down
  <2> QED
    BY <2>2, <2>3, <2>4 DEF IInv
<1>11. CASE PostEvent \/ CloseStream
  <2>1. /\ UNCHANGED << down, stage, accepted, pending, closing, error, promise >>
        /\ UNCHANGED << call, bind, registered, header, inStep, linked, got, calls >>
    BY <1>11 DEF PostEvent, CloseStream, client, application
  <2>2. EventsRise' /\ slots' \in Seq(SlotSet) /\ posted' \in 0 .. MaxEvents
    BY <1>0, <1>11, PostRise
  <2>3. Typed'
    BY <1>0, <2>1, <2>2 DEF Typed, ClientTyped, ServerTyped, Receiving
  <2>4. InFrame' /\ RepliesAgree'
    BY <1>0, <2>1 DEF InFrame, RepliesAgree, Down
  <2> QED
    BY <2>2, <2>3, <2>4 DEF IInv
<1> QED
  BY <1>1, <1>2, <1>3, <1>4, <1>5, <1>6, <1>7, <1>8, <1>9, <1>10, <1>11

LEMMA NextIInv ==
    IInv /\ [Next]_vars => IInv'
<1> SUFFICES ASSUME IInv, [Next]_vars
             PROVE  IInv'
  OBVIOUS
<1>1. CASE ArriveDown
  <2>1. /\ UNCHANGED << call, bind, registered, header, inStep, linked, got, calls >>
        /\ UNCHANGED << stage, accepted, pending, slots, closing, error, promise, posted >>
    BY <1>1 DEF ArriveDown, client, worker, application
  <2>2. down' \in [flight : Seq(Units), arrived : Seq(Units)] /\ Down' = Down
    BY <1>1, DownArrive DEF IInv, Typed, ClientTyped, ServerTyped
  <2>3. Typed'
    BY <2>1, <2>2 DEF IInv, Typed, ClientTyped, ServerTyped, Receiving
  <2>4. EventsRise'
    BY <2>1, <2>2, StillRise DEF IInv
  <2>5. InFrame' /\ RepliesAgree'
    BY <2>1, <2>2 DEF IInv, InFrame, RepliesAgree
  <2> QED
    BY <2>3, <2>4, <2>5 DEF IInv
<1>2. CASE UNCHANGED vars
  <2>1. /\ UNCHANGED << call, bind, registered, header, inStep, linked, got, calls, down >>
        /\ UNCHANGED << stage, accepted, pending, slots, closing, error, promise, posted >>
    BY <1>2 DEF vars, client, worker, application
  <2>2. Typed'
    <3>1. ClientTyped'
      BY <2>1 DEF IInv, Typed, ClientTyped, Receiving
    <3>2. ServerTyped'
      BY <2>1 DEF IInv, Typed, ServerTyped
    <3> QED
      BY <3>1, <3>2 DEF Typed
  <2>3. Down' = Down
    BY <2>1 DEF Down
  <2>4. EventsRise'
    BY <2>1, <2>3, StillRise DEF IInv
  <2>5. InFrame' /\ RepliesAgree'
    BY <2>1, <2>3 DEF IInv, InFrame, RepliesAgree
  <2> QED
    BY <2>2, <2>4, <2>5 DEF IInv
<1>3. CASE Connected \/ ReceiveHeader \/ ReceiveBody \/ ReceiveGarbage
  BY <1>3, ConnectedKeeps, ReceiveHeaderKeeps, ReceiveBodyKeeps, ReceiveGarbageKeeps
<1> QED
  BY <1>1, <1>2, <1>3, QuietStepsKeep, WorkerKeeps
     DEF Next, Network, Client, Receive, Worker, ProcessMessages, Slots, Application

LEMMA InitIInv ==
    Init => IInv
<1> SUFFICES ASSUME Init
             PROVE  IInv
  OBVIOUS
<1>1. down.arrived = << >> /\ down.flight = << >> /\ << >> \in Seq(Units)
  BY DEF Init
<1>2. Down = << >>
  BY <1>1, EmptySeq DEF Down
<1>3. Typed
  <2>1. down \in [flight : Seq(Units), arrived : Seq(Units)]
    BY <1>1 DEF Init
  <2>2. got \in Seq(Nat) /\ pending \in Seq(Nat \ {0}) /\ slots \in Seq(SlotSet)
    BY DEF Init
  <2>3. calls \in 0 .. MaxCalls /\ posted \in 0 .. MaxEvents
    BY EventAssumption DEF Init
  <2>4. bind \in BOOLEAN /\ (bind <=> call = "binding")
    BY DEF Init
  <2> QED
    BY <2>1, <2>2, <2>3, <2>4 DEF Init, Typed, ClientTyped, ServerTyped
<1>4. Framed(<< >>, "none")
  BY DEF Framed
<1>5. InFrame /\ RepliesAgree
  BY <1>2, <1>4 DEF InFrame, RepliesAgree, Init
<1>6. InOrder(0, 0, 0)
  <2>1. Len(<< >>) = 0 /\ got = << >> /\ pending = << >> /\ slots = << >> /\ posted = 0
    BY DEF Init
  <2> QED
    BY <1>2, <2>1 DEF InOrder, GotRise, UnitsRise, PendingRise, SlotsRise
<1> QED
  BY <1>3, <1>5, <1>6 DEF IInv, EventsRise

-----------------------------------------------------------------------------
(* The theorems                                                            *)

\* What the invariant says of the events the client has got and of those not sent yet.
LEMMA IInvImplies ==
    ASSUME IInv
    PROVE  TypeOK /\ EventsInOrder /\ RegistrationAgrees
<1> PICK g \in Nat, u \in Nat, p \in Nat : InOrder(g, u, p)
  BY DEF IInv, EventsRise
<1>1. /\ g <= posted /\ p <= posted /\ posted <= MaxEvents
      /\ posted \in Nat /\ MaxEvents \in Nat /\ u \in Nat
      /\ got \in Seq(Nat) /\ pending \in Seq(Nat \ {0})
      /\ GotRise(g) /\ PendingRise(pending, u, p)
  BY EventAssumption DEF IInv, Typed, ClientTyped, ServerTyped, InOrder
<1>2. \A i \in DOMAIN got : i \in 1 .. Len(got) /\ got[i] \in 0 .. MaxEvents
  <2>1. \A i \in DOMAIN got : i \in 1 .. Len(got) /\ got[i] \in Nat
    BY <1>1
  <2>2. \A i \in 1 .. Len(got) : got[i] <= g
    BY <1>1 DEF GotRise
  <2> QED
    BY <1>1, <2>1, <2>2
<1>3. \A i \in DOMAIN pending : pending[i] \in 1 .. MaxEvents
  <2>1. \A i \in DOMAIN pending : i \in 1 .. Len(pending) /\ pending[i] \in Nat \ {0}
    BY <1>1
  <2>2. \A i \in 1 .. Len(pending) : pending[i] <= p
    BY <1>1 DEF PendingRise
  <2> QED
    BY <1>1, <2>1, <2>2
<1>4. bind = (call = "binding")
  BY Zenon DEF IInv, Typed, ClientTyped, ServerTyped
<1>5. TypeOK
  BY <1>2, <1>3, <1>4 DEF IInv, Typed, ClientTyped, ServerTyped, TypeOK
<1>6. EventsInOrder
  BY <1>1, <1>2 DEF GotRise, EventsInOrder
<1>7. RegistrationAgrees
  BY DEF IInv, RepliesAgree, RegistrationAgrees
<1> QED
  BY <1>5, <1>6, <1>7

\* What any run of the channel keeps: framing, order and agreement.
LEMMA InvariantKept ==
    Spec => []IInv
<1>1. Init => IInv
  BY InitIInv
<1>2. IInv /\ [Next]_vars => IInv'
  BY NextIInv
<1> QED
  BY <1>1, <1>2, PTL DEF Spec

\* Whatever the delays, every variable of the channel has its type: numbers of events
\* stay those of events that were sent, and a header that waits is one with a body.
THEOREM ChannelTypeCorrect ==
    Spec => []TypeOK
<1>1. IInv => TypeOK
  BY IInvImplies
<1> QED
  BY <1>1, InvariantKept, PTL

\* Observer::getEvent returns the events of the application in the order in which it
\* sent them, and none twice, however many there are, and whatever is given up.
THEOREM EventsKeptInOrder ==
    Spec => []EventsInOrder
<1>1. IInv => EventsInOrder
  BY IInvImplies
<1> QED
  BY <1>1, InvariantKept, PTL

\* StreamPrivate::registeredForEvents is never ahead of ServerWorker's: also a reply that
\* is read late, for another registration, tells what the worker has decided.
THEOREM RegistrationAlwaysAgrees ==
    Spec => []RegistrationAgrees
<1>1. IInv => RegistrationAgrees
  BY IInvImplies
<1> QED
  BY <1>1, InvariantKept, PTL

-----------------------------------------------------------------------------
(* QmlStreamer: the inductive invariant                                    *)

(* The render thread has no task but the one that the main thread waits    *)
(* for, and a task to render is begun when the main thread has given back  *)
(* the mutex, which it does as it begins to wait.                          *)
Blocking == {"createGLContext", "initRenderControl", "stop"}

TasksFit ==
    IF main \in Blocking THEN tasks = <<main>>
    ELSE IF main \in {"wait", "waiting"} THEN tasks \in {<<"render">>, <<>>}
    ELSE tasks = <<>>

MutexFits ==
    /\ render = "sync" => main = "waiting" /\ tasks = <<>>
    /\ mutex = IF main = "wait" THEN "main"
               ELSE IF render = "sync" THEN "render" ELSE "nobody"

(* The slot of an image waits for the image before, and opens the stream   *)
(* and sends with no image under way; if sending is not asynchronous it    *)
(* waits for its own image too.                                            *)
SlotOfImage == main \in {"getFuture", "setup", "send"}

Ending == destroying = TRUE

SendFits ==
    /\ frames \in Nat /\ images \in Seq(Nat \ {0})
    /\ async \in BOOLEAN /\ destroying \in BOOLEAN /\ (Ending => async \in Destroys)
    /\ SlotOfImage => next \in Nat \ {0}
    /\ main \in {"setup", "send"} => future = "invalid"
    /\ sending # 0 => future = "pending"
    /\ sending # 0 /\ ~Ending => image = sending
    /\ sending # 0 /\ ~async => main = "waitSent"

(* A stream is opened when there is none, and no button is left down from  *)
(* the one before: its view is gone before the stream is.                  *)
InputFits ==
    /\ window \in [points : SUBSET Touches, button : BOOLEAN]
    /\ touches \subseteq Touches
    /\ receiver => stream
    /\ Ending => ~receiver /\ main \in {"destroy", "stop", "stopped", "destroyed"}
    /\ main \in {"destroy", "destroyed"} => Ending
    /\ main = "setup" => ~stream
    /\ main = "terminate" => ~view
    /\ view /\ ~Ending /\ ~stream => ~mouseMode
    /\ OneKindOfInput

QmlInv == TasksFit /\ MutexFits /\ SendFits /\ InputFits

-----------------------------------------------------------------------------
(* The steps of the view, which the stream and its input do not see        *)

QuickStep ==
    Quick(\/ \E component \in Components : SetupRootItem(component)
          \/ RequestRender \/ Timers \/ Handshake \/ RenderThread)

LEMMA QuickTasks ==
    ASSUME QmlInv, QuickStep
    PROVE  TasksFit' /\ MutexFits'
<1> USE DEF QmlInv, TasksFit, MutexFits, Blocking, renderThread, timers
<1>1. CASE \E component \in Components : SetupRootItem(component)
  BY <1>1 DEF SetupRootItem
<1>2. CASE RequestRender
  BY <1>2 DEF RequestRender
<1>3. CASE InitRenderer
  BY <1>3 DEF InitRenderer, Invoke, InLoop
<1>4. CASE Render
  BY <1>4 DEF Render, InLoop
<1>5. CASE StopRendering
  BY <1>5 DEF StopRendering
<1>6. CASE InitRenderControl
  BY <1>6 DEF InitRenderControl, Invoke
<1>7. CASE PostRender
  BY <1>7 DEF PostRender
<1>8. CASE WaitForSync
  BY <1>8 DEF WaitForSync
<1>9. CASE Synced
  BY <1>9 DEF Synced
<1>10. CASE CreateGLContext
  <2>1. TasksFit'
    BY <1>10 DEF CreateGLContext, NextTask
  <2>2. MutexFits'
    BY <1>10 DEF CreateGLContext, NextTask
  <2> QED
    BY <2>1, <2>2
<1>11. CASE RunInitRenderControl
  <2>1. TasksFit'
    BY <1>11 DEF RunInitRenderControl, NextTask
  <2>2. MutexFits'
    BY <1>11 DEF RunInitRenderControl, NextTask
  <2> QED
    BY <2>1, <2>2
<1>12. CASE OnRender
  BY <1>12 DEF OnRender, NextTask
<1>13. CASE Sync
  BY <1>13 DEF Sync
<1>14. CASE AfterRender
  BY <1>14 DEF AfterRender, TakeFromFramebuffer
<1>15. CASE OnStop
  <2>1. main = "stop" /\ tasks = <<main>> /\ tasks' = <<>>
    BY <1>15 DEF OnStop, NextTask
  <2> QED BY <1>15, <2>1 DEF OnStop
<1> QED
  BY <1>1, <1>2, <1>3, <1>4, <1>5, <1>6, <1>7, <1>8, <1>9, <1>10, <1>11, <1>12, <1>13,
     <1>14, <1>15
  DEF QuickStep, Quick, Timers, Handshake, RenderThread

(* Where the main thread is meanwhile.                                     *)
QuickStates ==
    {"load", "loop", "failed", "crashed", "contextCreated", "controlInitialized",
     "post", "wait", "waiting", "woken", "stopped"} \cup Blocking

LEMMA QuickMain ==
    ASSUME QmlInv, QuickStep
    PROVE  /\ \/ main' = main
              \/ main \in QuickStates /\ main' \in QuickStates
           /\ main \in {"stop", "stopped"} => main' \in {"stop", "stopped"}
           /\ view' = view
           /\ frames' \in Nat /\ images' \in Seq(Nat \ {0})
<1>1. frames \in Nat /\ images \in Seq(Nat \ {0})
  BY DEF QmlInv, SendFits
<1> USE DEF QuickStates, Blocking, renderThread, timers
<1>2. CASE \E component \in Components : SetupRootItem(component)
  BY <1>1, <1>2 DEF SetupRootItem
<1>3. CASE RequestRender \/ Timers
  BY <1>1, <1>3 DEF RequestRender, Timers, InitRenderer, Render, StopRendering, Invoke, InLoop
<1>4. CASE Handshake
  BY <1>1, <1>4 DEF Handshake, InitRenderControl, PostRender, WaitForSync, Synced, Invoke
<1>5. CASE CreateGLContext \/ RunInitRenderControl \/ OnStop
  <2>1. tasks # <<>> /\ main \notin {"wait", "waiting"} => main = Head(tasks)
    BY DEF QmlInv, TasksFit
  <2>2. Head(tasks) \in Blocking /\ tasks # <<>>
    BY <1>5 DEF CreateGLContext, RunInitRenderControl, OnStop, NextTask
  <2>3. main \in Blocking /\ main = Head(tasks)
    BY <2>1, <2>2 DEF QmlInv, TasksFit
  <2>4. OnStop \/ main # "stop"
    BY <1>5, <2>3 DEF CreateGLContext, RunInitRenderControl, NextTask
  <2> QED BY <1>1, <1>5, <2>3, <2>4 DEF CreateGLContext, RunInitRenderControl, OnStop
<1>6. CASE OnRender \/ Sync
  BY <1>1, <1>6 DEF OnRender, Sync
<1>7. CASE AfterRender
  <2>1. frames + 1 \in Nat \ {0} /\ images' = Append(images, frames + 1) /\ frames' = frames + 1
    BY <1>1, <1>7 DEF AfterRender, TakeFromFramebuffer
  <2> QED BY <1>1, <1>7, <2>1 DEF AfterRender
<1> QED BY <1>2, <1>3, <1>4, <1>5, <1>6, <1>7 DEF QuickStep, Quick, RenderThread

LEMMA QuickKeeps ==
    ASSUME QmlInv, QuickStep
    PROVE  QmlInv'
<1>1. TasksFit' /\ MutexFits'
  BY QuickTasks
<1>2. UNCHANGED <<sendVars, inputVars>>
  BY DEF QuickStep, Quick
<1>3. SendFits'
  BY <1>2, QuickMain
  DEF QmlInv, SendFits, sendVars, streamer, QuickStates, Blocking, SlotOfImage, Ending
<1>4. InputFits'
  <2>1. view' = view /\ UNCHANGED <<stream, receiver, destroying, window, touches, mouseMode, injecting>>
    BY <1>2, QuickMain DEF sendVars, streamer, inputVars, touchVars
  <2>2. OneKindOfInput'
    BY <2>1 DEF QmlInv, InputFits, OneKindOfInput
  <2>3. /\ main' \in {"destroy", "setup", "terminate", "destroyed"} => main' = main
        /\ main \in {"destroy", "stop", "stopped", "destroyed"}
             => main' \in {"destroy", "stop", "stopped", "destroyed"}
    BY QuickMain DEF QuickStates, Blocking
  <2> QED BY <2>1, <2>2, <2>3 DEF QmlInv, InputFits, Ending
<1> QED BY <1>1, <1>3, <1>4 DEF QmlInv

-----------------------------------------------------------------------------
(* The steps of the stream, which leave the handshake alone                *)

LEMMA HandshakeKept ==
    ASSUME QmlInv, main \notin Blocking \cup {"wait", "waiting"},
           main' \notin Blocking \cup {"wait", "waiting"},
           UNCHANGED <<tasks, render, mutex>>
    PROVE  TasksFit' /\ MutexFits'
BY DEF QmlInv, TasksFit, MutexFits

LEMMA TakeImageStep ==
    ASSUME QmlInv, TakeImage
    PROVE  QmlInv'
<1>1. TasksFit' /\ MutexFits'
  BY HandshakeKept DEF TakeImage, InLoop, Blocking, rendering, renderThread
<1>2. SendFits'
  <2>1. Tail(images) \in Seq(Nat \ {0}) /\ Head(images) \in Nat \ {0}
    BY DEF QmlInv, SendFits, TakeImage
  <2> QED BY <2>1 DEF TakeImage, QmlInv, SendFits, SlotOfImage, Ending, InLoop, rendering, streamer
<1>3. InputFits'
  BY DEF TakeImage, QmlInv, InputFits, OneKindOfInput, Ending, InLoop, rendering, inputVars, touchVars, streamer
<1> QED BY <1>1, <1>2, <1>3 DEF QmlInv

LEMMA GetFutureStep ==
    ASSUME QmlInv, GetFuture
    PROVE  QmlInv'
<1>1. TasksFit' /\ MutexFits'
  BY HandshakeKept DEF GetFuture, Blocking, rendering, renderThread
<1>2. SendFits'
  BY DEF GetFuture, QmlInv, SendFits, SlotOfImage, Ending, rendering, streamer
<1>3. InputFits'
  BY DEF GetFuture, QmlInv, InputFits, OneKindOfInput, Ending, rendering, inputVars, touchVars, streamer
<1> QED BY <1>1, <1>2, <1>3 DEF QmlInv

LEMMA SetupStreamStep ==
    ASSUME QmlInv, SetupStream
    PROVE  QmlInv'
<1> USE DEF SetupStream, SetupDeflectStream, ConnectTouchInjector
<1>1. TasksFit' /\ MutexFits'
  BY HandshakeKept DEF Blocking, rendering, renderThread
<1>2. SendFits'
  BY DEF QmlInv, SendFits, SlotOfImage, Ending, rendering, streamer
<1>3. InputFits'
  BY DEF QmlInv, InputFits, OneKindOfInput, Ending, rendering, streamer
<1> QED BY <1>1, <1>2, <1>3 DEF QmlInv

LEMMA SendImageStep ==
    ASSUME QmlInv, SkipEmptyImage \/ SendImage \/ WaitSent \/ CompleteSend
    PROVE  QmlInv'
<1> USE DEF SkipEmptyImage, SendImage, WaitSent, CompleteSend
<1>1. TasksFit' /\ MutexFits'
  <2>1. CASE SkipEmptyImage \/ SendImage \/ WaitSent
    BY <2>1, HandshakeKept DEF Blocking, rendering, renderThread
  <2>2. CASE CompleteSend
    BY <2>2 DEF QmlInv, TasksFit, MutexFits, quickVars, renderThread
  <2> QED BY <2>1, <2>2
<1>2. SendFits'
  BY DEF QmlInv, SendFits, SlotOfImage, Ending, rendering, streamer, sendVars, quickVars
<1>3. InputFits'
  BY DEF QmlInv, InputFits, OneKindOfInput, Ending, rendering, sendVars, quickVars, inputVars, touchVars, streamer
<1> QED BY <1>1, <1>2, <1>3 DEF QmlInv

-----------------------------------------------------------------------------
(* The end of the stream                                                   *)

LEMMA ClosingStep ==
    ASSUME QmlInv, ReceiveClose \/ Closing
    PROVE  QmlInv'
<1> USE DEF rendering, renderThread, timers, streamer
<1>1. CASE ReceiveClose
  <2>1. TasksFit' /\ MutexFits'
    BY <1>1, HandshakeKept DEF ReceiveClose, InLoop, Blocking
  <2>2. SendFits' /\ InputFits'
    BY <1>1 DEF ReceiveClose, InLoop, QmlInv, SendFits, SlotOfImage, Ending, InputFits,
                OneKindOfInput, sendVars, inputVars, touchVars, streamer
  <2> QED BY <2>1, <2>2 DEF QmlInv
<1>2. CASE CloseView
  <2>1. TasksFit' /\ MutexFits'
    BY <1>2 DEF CloseView, ResetView, DestroyView, Invoke, QmlInv, TasksFit, MutexFits, Blocking
  <2>2. main = "close" /\ main' \in {"terminate", "stop"} /\ (view' = view \/ ~view')
        /\ (main' = "terminate" => ~view') /\ UNCHANGED <<frames, images, sendVars, inputVars>>
    BY <1>2 DEF CloseView, ResetView, DestroyView, Invoke
  <2>3. SendFits'
    BY <2>2 DEF QmlInv, SendFits, SlotOfImage, Ending, sendVars
  <2>4. InputFits'
    BY <2>2 DEF QmlInv, InputFits, OneKindOfInput, Ending, sendVars, inputVars, touchVars, streamer
  <2> QED BY <2>1, <2>3, <2>4 DEF QmlInv
<1>3. CASE JoinThread
  <2>1. TasksFit' /\ MutexFits'
    BY <1>3 DEF JoinThread, JoinRenderThread, QmlInv, TasksFit, MutexFits, Blocking
  <2>2. SendFits' /\ InputFits'
    BY <1>3 DEF JoinThread, JoinRenderThread, QmlInv, SendFits, SlotOfImage, Ending, InputFits,
                OneKindOfInput, sendVars, inputVars, touchVars, streamer
  <2> QED BY <2>1, <2>2 DEF QmlInv
<1>4. CASE Terminate
  <2>1. TasksFit' /\ MutexFits'
    BY <1>4, HandshakeKept DEF Terminate, Blocking
  <2>2. SendFits' /\ InputFits'
    BY <1>4 DEF Terminate, QmlInv, SendFits, SlotOfImage, Ending, InputFits, OneKindOfInput, Ending
  <2> QED BY <2>1, <2>2 DEF QmlInv
<1>5. CASE DestroyStream
  <2>1. TasksFit' /\ MutexFits'
    BY <1>5 DEF DestroyStream, ResetView, DestroyView, Invoke, QmlInv, TasksFit, MutexFits, Blocking
  <2>2. /\ main = "destroy" /\ main' \in {"destroyed", "stop"} /\ sending = 0
        /\ view' = view \/ ~view'
        /\ UNCHANGED <<streamer, receiver, future, image, next, sending, frames, images, inputVars>>
    BY <1>5 DEF DestroyStream, ResetView, DestroyView, Invoke
  <2>3. Ending /\ Ending'
    BY <2>2 DEF QmlInv, InputFits, Ending
  <2>4. SendFits'
    BY <2>2, <2>3 DEF QmlInv, SendFits, SlotOfImage, Ending
  <2>5. InputFits'
    BY <2>2, <2>3 DEF QmlInv, InputFits, OneKindOfInput, Ending, inputVars, touchVars, streamer
  <2> QED BY <2>1, <2>4, <2>5 DEF QmlInv
<1> QED BY <1>1, <1>2, <1>3, <1>4, <1>5 DEF Closing

LEMMA DestroyStep ==
    ASSUME QmlInv, Destroy
    PROVE  QmlInv'
<1> USE DEF Destroy, InLoop, rendering, renderThread, timers, streamer
<1>1. TasksFit' /\ MutexFits'
  BY HandshakeKept DEF Blocking
<1>2. SendFits'
  BY DEF QmlInv, SendFits, SlotOfImage, Ending
<1>3. InputFits'
  BY DEF QmlInv, InputFits, OneKindOfInput, Ending
<1> QED BY <1>1, <1>2, <1>3 DEF QmlInv

-----------------------------------------------------------------------------
(* Events of the window                                                    *)

(* A slot of an event: the stream is not concerned.                        *)
LEMMA InputKeeps ==
    ASSUME QmlInv, InLoop, main' \in {main, "crashed"}, Keeps
    PROVE  TasksFit' /\ MutexFits' /\ SendFits'
<1>1. main = "loop" /\ UNCHANGED <<rendering, images, sendVars>>
  BY DEF InLoop, Keeps
<1>2. TasksFit' /\ MutexFits'
  BY <1>1, HandshakeKept DEF Blocking, rendering, renderThread
<1>3. SendFits'
  BY <1>1 DEF QmlInv, SendFits, SlotOfImage, Ending, rendering, sendVars, streamer
<1> QED BY <1>2, <1>3

(* The mouse of the receiver, and the touch points of the injector.        *)
LEMMA TouchStep ==
    ASSUME QmlInv, Press \/ Move \/ Release \/ HoldTimeout
    PROVE  QmlInv'
<1> USE DEF Press, HitNothing, Move, Release, HoldTimeout, OnScene, Listening
<1>1. InLoop /\ main' \in {main, "crashed"} /\ Keeps
  OBVIOUS
<1>2. TasksFit' /\ MutexFits' /\ SendFits'
  BY <1>1, InputKeeps
<1>3. main = "loop" /\ UNCHANGED <<view, stream, receiver, destroying>>
  BY <1>1 DEF InLoop, Keeps, rendering, sendVars, streamer
<1>4. CASE Press
  <2>1. UNCHANGED <<mouseMode, injecting, touches, window>>
    BY <1>4 DEF StartDetection, touchVars
  <2> QED BY <1>1, <1>2, <1>3, <2>1 DEF QmlInv, InputFits, OneKindOfInput, Ending
<1>5. CASE Move
  BY <1>2, <1>3, <1>5 DEF Follow, touchVars, QmlInv, InputFits, OneKindOfInput, Ending
<1>6. CASE Release
  BY <1>2, <1>3, <1>6
  DEF ReleaseMouse, SendMouseEvent, SwitchBackToTouchMode, ConnectTouchInjector, touchVars,
      QmlInv, InputFits, OneKindOfInput, Ending
<1>7. CASE HoldTimeout
  <2>1. CASE UNCHANGED <<mouseMode, injecting, touches, window>> /\ main' \in {main, "crashed"}
    BY <1>2, <1>3, <2>1 DEF QmlInv, InputFits, OneKindOfInput, Ending
  <2>2. CASE receiver /\ main' = main /\ SwitchFromTouchToMouseMode
    <3>1. touches' = {} /\ ~injecting' /\ mouseMode' = TRUE
          /\ window' = [points |-> {}, button |-> TRUE]
      BY <2>2 DEF SwitchFromTouchToMouseMode
    <3>2. OneKindOfInput'
      BY <3>1 DEF OneKindOfInput
    <3>3. window' \in [points : SUBSET Touches, button : BOOLEAN]
      BY <3>1
    <3> QED BY <1>2, <1>3, <2>2, <3>1, <3>2, <3>3 DEF QmlInv, InputFits, Ending
  <2> QED BY <1>7, <2>1, <2>2
<1> QED BY <1>4, <1>5, <1>6, <1>7

LEMMA InjectStep ==
    ASSUME QmlInv, NEW points \in SUBSET Touches, Inject(points)
    PROVE  QmlInv'
<1> USE DEF Inject, OnScene, Listening
<1>1. TasksFit' /\ MutexFits' /\ SendFits'
  BY InputKeeps
<1>2. main = "loop" /\ UNCHANGED <<view, stream, receiver, destroying>>
  BY DEF InLoop, Keeps, rendering, sendVars, streamer
<1> QED BY <1>1, <1>2 DEF HandleEvent, touchVars, QmlInv, InputFits, OneKindOfInput, Ending

LEMMA InputStep ==
    ASSUME QmlInv, Input
    PROVE  QmlInv'
<1>1. CASE Press \/ Move \/ Release
  BY <1>1, TouchStep
<1>2. CASE KeyPress \/ \E size \in Sizes : Resize(size)
  <2>1. InLoop /\ main' \in {main, "crashed"} /\ Keeps /\ UNCHANGED touchVars
    BY <1>2 DEF KeyPress, Resize, OnScene, Listening
  <2>2. TasksFit' /\ MutexFits' /\ SendFits'
    BY <2>1, InputKeeps
  <2> QED BY <2>1, <2>2
          DEF InLoop, Keeps, rendering, sendVars, streamer, touchVars, QmlInv, InputFits,
              OneKindOfInput, Ending
<1>3. ASSUME NEW id \in Touches,
             AddTouchPoint(id) \/ UpdateTouchPoint(id) \/ RemoveTouchPoint(id)
      PROVE  QmlInv'
  <2>1. touches \subseteq Touches
    BY DEF QmlInv, InputFits
  <2> QED BY <1>3, <2>1, InjectStep DEF AddTouchPoint, UpdateTouchPoint, RemoveTouchPoint
<1> QED BY <1>1, <1>2, <1>3 DEF Input

LEMMA UnseenStep ==
    ASSUME QmlInv, UNCHANGED <<quickVars, sendVars, touchVars>>
    PROVE  QmlInv'
<1> USE DEF quickVars, renderThread, timers, sendVars, streamer, touchVars
<1>1. TasksFit' /\ MutexFits'
  BY DEF QmlInv, TasksFit, MutexFits
<1>2. SendFits'
  BY DEF QmlInv, SendFits, SlotOfImage, Ending
<1>3. InputFits'
  BY DEF QmlInv, InputFits, OneKindOfInput, Ending
<1> QED BY <1>1, <1>2, <1>3 DEF QmlInv

-----------------------------------------------------------------------------
(* The theorems                                                            *)

LEMMA QmlInvInit ==
    ASSUME QmlInit
    PROVE  QmlInv
<1> USE DEF QmlInit, RendererInit, Loading
<1>1. TasksFit /\ MutexFits
  BY DEF TasksFit, MutexFits, Blocking
<1>2. SendFits
  <2>1. images \in Seq(Nat \ {0}) /\ frames \in Nat
    OBVIOUS
  <2>2. async \in BOOLEAN /\ destroying \in BOOLEAN /\ ~Ending
    BY DEF Ending
  <2> QED BY <2>1, <2>2 DEF SendFits, SlotOfImage
<1>3. InputFits
  BY DEF InputFits, OneKindOfInput, Ending
<1> QED BY <1>1, <1>2, <1>3 DEF QmlInv

LEMMA QmlInvStep ==
    ASSUME QmlInv, [QmlNext]_qmlVars
    PROVE  QmlInv'
<1>1. CASE QuickStep
  BY <1>1, QuickKeeps
<1>2. CASE Images \/ CompleteSend
  BY <1>2, TakeImageStep, GetFutureStep, SetupStreamStep, SendImageStep DEF Images
<1>3. CASE ReceiveClose \/ Closing \/ Destroy
  BY <1>3, ClosingStep, DestroyStep
<1>4. CASE Input \/ HoldTimeout
  BY <1>4, InputStep, TouchStep
<1>5. CASE \/ \E min \in Sizes, max \in Sizes : ChangeHints(min, max)
           \/ UNCHANGED qmlVars
  BY <1>5, UnseenStep DEF ChangeHints, qmlVars, inputVars
<1> QED BY <1>1, <1>2, <1>3, <1>4, <1>5 DEF QmlNext, QuickStep, Quick

LEMMA QmlInvariance == QmlSpec => []QmlInv
BY QmlInvInit, QmlInvStep, PTL DEF QmlSpec

(* QuickRenderer and OffscreenQuickView: while the render thread copies    *)
(* the scene, the main thread waits for it, however the rendering, the     *)
(* images on their way and the end of the stream interleave.               *)
THEOREM SceneKeptAtRest == QmlSpec => []SceneAtRest
<1>1. QmlInv => SceneAtRest
  BY DEF QmlInv, MutexFits, SceneAtRest
<1> QED BY <1>1, QmlInvariance, PTL

(* QmlStreamer::Impl: the image that the send thread reads is the one that *)
(* _image holds, if a streamer that sends asynchronously is not destroyed  *)
(* meanwhile.  One that waits for each image may be destroyed at any time. *)
THEOREM ImageAlwaysKept ==
    ASSUME TRUE \notin Destroys
    PROVE  QmlSpec => []ImageKept
<1>1. QmlInv => ImageKept
  BY DEF QmlInv, SendFits, InputFits, Ending, ImageKept
<1> QED BY <1>1, QmlInvariance, PTL

(* EventReceiver and TouchInjector: touch points and the mouse button are  *)
(* never held at the same time, over every switch of the finger between    *)
(* the two, in the window of any stream while it is there.                 *)
THEOREM OneKindOfInputKept == QmlSpec => []OneKindOfInput
<1>1. QmlInv => OneKindOfInput
  BY DEF QmlInv, InputFits
<1> QED BY <1>1, QmlInvariance, PTL
=============================================================================
