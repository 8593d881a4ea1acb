---------------------------- MODULE Delivery_proofs ----------------------------
(***************************************************************************)
(* What TLAPS proves of the way from the trial to the page (Delivery), for *)
(* any number of tabs, connections, faults and visits.                     *)
(*                                                                         *)
(* The three invariants of the runs look at connections that work.  What   *)
(* makes them true is an invariant about every connection: Wires says, of  *)
(* each, what has been put on it, in the room or not, visited by the       *)
(* broadcast under way or not; Links says which scene and which socket     *)
(* belong together, also while a socket closes and a timer is set; Views   *)
(* says what a scene shows after the events its socket has heard, though   *)
(* the trial has gone on.  EveryoneHears is Wires at an open connection,   *)
(* OneConnection is Links, and ViewFollows is all three where nothing is   *)
(* left to hear.                                                           *)
(***************************************************************************)
EXTENDS Delivery, SequenceTheorems, FiniteSetTheorems, TLAPS

--------------------------------------------------------------------------------
(* The script. *)

\* The script, event by event.
LEMMA TheScript ==
  /\ Len(Script) = 6
  /\ Script[1] = "opening" /\ Script[2] = "waiting" /\ Script[3] = "cross_exam"
  /\ Script[4] = "waiting" /\ Script[5] = "verdict" /\ Script[6] = "ready"
  BY DEF Script

\* PhaseAt is the last phase among the first n events.
LEMMA LastPhase ==
  ASSUME NEW n \in 1..6, NEW i \in 1..n, Script[i] \in PhaseNames,
         \A j \in (i + 1)..n : Script[j] \notin PhaseNames
  PROVE  PhaseAt(n) = Script[i]
<1> DEFINE P(k) == /\ Script[k] \in PhaseNames
                   /\ \A j \in (k + 1)..n : Script[j] \notin PhaseNames
           k == CHOOSE k \in 1..n : P(k)
<1>1. k \in 1..n /\ P(k)
  <2>1. P(i)
    OBVIOUS
  <2> HIDE DEF P
  <2>2. QED
    BY <2>1
<1>2. PhaseAt(n) = Script[k]
  BY DEF PhaseAt
<1> HIDE DEF k
<1>3. ~(i < k)
  <2>1. i < k => k \in (i + 1)..n
    BY <1>1
  <2>2. QED
    BY <1>1, <2>1
<1>4. ~(k < i)
  <2>1. k < i => i \in (k + 1)..n
    BY <1>1
  <2>2. QED
    BY <1>1, <2>1
<1>5. i = k
  BY <1>1, <1>3, <1>4
<1>6. QED
  BY <1>2, <1>5

\* The phase of the row after each event.
LEMMA Phases ==
  /\ PhaseAt(1) = "opening" /\ PhaseAt(2) = "opening"
  /\ PhaseAt(3) = "cross_exam" /\ PhaseAt(4) = "cross_exam"
  /\ PhaseAt(5) = "verdict" /\ PhaseAt(6) = "verdict"
<1>1. /\ Script[1] \in PhaseNames /\ Script[2] \notin PhaseNames /\ Script[3] \in PhaseNames
      /\ Script[4] \notin PhaseNames /\ Script[5] \in PhaseNames /\ Script[6] \notin PhaseNames
  BY TheScript DEF PhaseNames
<1>2. PhaseAt(1) = Script[1]
  BY <1>1, LastPhase
<1>3. PhaseAt(2) = Script[1]
  <2>1. \A j \in (1 + 1)..2 : j = 2
    OBVIOUS
  <2>2. QED
    BY <1>1, <2>1, LastPhase
<1>4. PhaseAt(3) = Script[3]
  BY <1>1, LastPhase
<1>5. PhaseAt(4) = Script[3]
  <2>1. \A j \in (3 + 1)..4 : j = 4
    OBVIOUS
  <2>2. QED
    BY <1>1, <2>1, LastPhase
<1>6. PhaseAt(5) = Script[5]
  BY <1>1, LastPhase
<1>7. PhaseAt(6) = Script[5]
  <2>1. \A j \in (5 + 1)..6 : j = 6
    OBVIOUS
  <2>2. QED
    BY <1>1, <2>1, LastPhase
<1>8. QED
  BY <1>2, <1>3, <1>4, <1>5, <1>6, <1>7, TheScript

\* What the proofs need of it: a phase event is the new phase, another leaves
\* the phase and comes right after a phase event.
LEMMA PhaseSteps ==
  ASSUME NEW n \in 1..6
  PROVE  /\ PhaseAt(n) \in PhaseNames
         /\ Script[n] \in PhaseNames => PhaseAt(n) = Script[n] /\ Script[n] # "waiting"
         /\ Script[n] \notin PhaseNames =>
              n > 1 /\ PhaseAt(n) = PhaseAt(n - 1) /\ Script[n - 1] \in PhaseNames
<1>1. n = 1 \/ n = 2 \/ n = 3 \/ n = 4 \/ n = 5 \/ n = 6
  OBVIOUS
<1>2. CASE n = 1
  BY <1>2, TheScript, Phases DEF PhaseNames
<1>3. CASE n = 2
  BY <1>3, TheScript, Phases DEF PhaseNames
<1>4. CASE n = 3
  BY <1>4, TheScript, Phases DEF PhaseNames
<1>5. CASE n = 4
  BY <1>5, TheScript, Phases DEF PhaseNames
<1>6. CASE n = 5
  BY <1>6, TheScript, Phases DEF PhaseNames
<1>7. CASE n = 6
  BY <1>7, TheScript, Phases DEF PhaseNames
<1>8. QED
  BY <1>1, <1>2, <1>3, <1>4, <1>5, <1>6, <1>7

--------------------------------------------------------------------------------
(* One connection. *)

\* The client has been sent all since it joined, up to the event last.
Delivered(c, last) ==
  IF c.stream = <<>> THEN c.joined >= last
  ELSE c.stream[Len(c.stream)] = last /\ c.stream[1] <= c.joined + 1

\* What was sent on it: consecutive events up to n, none twice.
Stream(c, n) ==
  /\ c.heard <= Len(c.stream)
  /\ \A i \in 1..Len(c.stream) : i <= c.stream[i] /\ c.stream[i] <= n
  /\ \A i \in 1..(Len(c.stream) - 1) : c.stream[i + 1] = c.stream[i] + 1

\* The connection c, in the room or not, still to be visited by the broadcast
\* of event n or not.
Wire(c, in, pending, n) ==
  /\ c \in Conn
  /\ Stream(c, n)
  /\ c.state = "connecting" /\ c.up /\ ~in => c.stream = <<>>
  /\ in /\ c.up /\ c.state \in {"connecting", "open"} =>
       Delivered(c, IF pending THEN n - 1 ELSE n)
  /\ c.state = "free" => c.scene = None

\* The fields of a connection, and of what was sent on it.
LEMMA ConnFields ==
  ASSUME NEW c \in Conn
  PROVE  /\ c.state \in {"free", "connecting", "open", "closing"}
         /\ c.scene \in Tabs \union {None} /\ c.joined \in 0..6 /\ c.stream \in Seq(1..6)
         /\ c.heard \in 0..6 /\ c.up \in BOOLEAN
         /\ Len(c.stream) \in Nat
         /\ \A i \in 1..Len(c.stream) : c.stream[i] \in 1..6
<1>1. /\ c.state \in {"free", "connecting", "open", "closing"}
      /\ c.scene \in Tabs \union {None} /\ c.joined \in 0..6 /\ c.stream \in Seq(1..6)
      /\ c.heard \in 0..6 /\ c.up \in BOOLEAN
  BY TheScript DEF Conn
<1>2. QED
  BY <1>1, LenProperties, ElementOfSeq

\* A stream is never longer than the script.
LEMMA StreamLength ==
  ASSUME NEW c \in Conn, NEW n \in 1..6, Stream(c, n)
  PROVE  Len(c.stream) <= n
<1> DEFINE k == Len(c.stream)
<1>1. k \in Nat
  BY ConnFields
<1>2. CASE k = 0
  BY <1>2
<1>3. CASE k > 0
  <2>1. k \in 1..k
    BY <1>1, <1>3
  <2>2. k <= c.stream[k] /\ c.stream[k] <= n /\ c.stream[k] \in 1..6
    BY <2>1, ConnFields DEF Stream
  <2> HIDE DEF k
  <2>3. k <= n
    BY <1>1, <2>2
  <2>4. QED
    BY <2>3 DEF k
<1>4. QED
  BY <1>1, <1>2, <1>3

\* Nothing has been sent on the connection: that is in order.
LEMMA FreshWire ==
  ASSUME NEW c \in Conn, NEW n \in 1..6, c.stream = <<>>, c.heard = 0
  PROVE  Stream(c, n)
  BY EmptySeq DEF Stream

\* A connection that has been sent all before event n is sent event n: it has
\* been sent all up to n, and what it was sent before is where it was.
LEMMA SentOne ==
  ASSUME NEW c \in Conn, NEW n \in 1..6, Stream(c, n), Delivered(c, n - 1), NEW d,
         d = [c EXCEPT !.stream = Append(@, n)]
  PROVE  /\ d \in Conn /\ Stream(d, n) /\ Delivered(d, n)
         /\ d.state = c.state /\ d.scene = c.scene /\ d.heard = c.heard /\ d.up = c.up
         /\ d.joined = c.joined
         /\ \A i \in 1..Len(c.stream) : d.stream[i] = c.stream[i]
<1> DEFINE k == Len(c.stream)
           a == Append(c.stream, n)
<1>1. /\ c.stream \in Seq(1..6) /\ k \in Nat /\ c.heard \in 0..6 /\ c.joined \in 0..6
      /\ \A i \in 1..k : c.stream[i] \in 1..6
  BY ConnFields
<1>2. /\ a \in Seq(1..6) /\ Len(a) = k + 1 /\ a # <<>>
      /\ \A i \in 1..k : a[i] = c.stream[i]
      /\ a[k + 1] = n
  BY <1>1, AppendProperties
<1>k. (k = 0 <=> c.stream = <<>>)
  BY <1>1, EmptySeq
<1>s. /\ c.heard <= k
      /\ \A i \in 1..k : i <= c.stream[i] /\ c.stream[i] <= n
      /\ \A i \in 1..(k - 1) : c.stream[i + 1] = c.stream[i] + 1
  BY DEF Stream
<1>d. IF k = 0 THEN c.joined >= n - 1 ELSE c.stream[k] = n - 1 /\ c.stream[1] <= c.joined + 1
  BY <1>k DEF Delivered
<1> HIDE DEF a
<1>3. /\ d \in Conn /\ d.stream = a
      /\ d.state = c.state /\ d.scene = c.scene /\ d.heard = c.heard /\ d.up = c.up
      /\ d.joined = c.joined
  <2>1. d = [c EXCEPT !.stream = a]
    BY DEF a
  <2>2. a \in Seq(1..Len(Script))
    BY <1>2, TheScript
  <2>3. QED
    BY <2>1, <2>2 DEF Conn
<1> HIDE DEF k
<1>4. k > 0 => k \in 1..k /\ 1 \in 1..k
  BY <1>1
<1>5. k + 1 <= n
  <2>1. CASE k = 0
    BY <2>1
  <2>2. CASE k > 0
    <3>1. k <= c.stream[k] /\ c.stream[k] = n - 1
      BY <2>2, <1>4, <1>s, <1>d, <1>1
    <3>2. QED
      BY <3>1, <1>1
  <2>3. QED
    BY <2>1, <2>2, <1>1
<1>6. ASSUME NEW i \in 1..(k + 1) PROVE i <= a[i] /\ a[i] <= n
  <2>1. CASE i \in 1..k
    BY <2>1, <1>2, <1>s
  <2>2. CASE i = k + 1
    BY <2>2, <1>2, <1>5
  <2>3. QED
    BY <2>1, <2>2, <1>1
<1>7. ASSUME NEW i \in 1..k PROVE a[i + 1] = a[i] + 1
  <2>1. CASE i \in 1..(k - 1)
    <3>1. i + 1 \in 1..k /\ i \in 1..k
      BY <1>1, <2>1
    <3>2. c.stream[i + 1] = c.stream[i] + 1
      BY <2>1, <1>s
    <3>3. a[i + 1] = c.stream[i + 1] /\ a[i] = c.stream[i]
      BY <3>1, <1>2
    <3>4. QED
      BY <3>2, <3>3
  <2>2. CASE i = k
    <3>1. k > 0
      BY <1>1, <2>2
    <3>2. c.stream[k] = n - 1 /\ a[k] = c.stream[k] /\ a[k + 1] = n
      BY <3>1, <1>1, <1>2, <1>4, <1>d
    <3>3. QED
      BY <2>2, <3>2
  <2>3. QED
    BY <2>1, <2>2, <1>1
<1>8. Stream(d, n)
  <2>1. Len(d.stream) = k + 1 /\ (k + 1) - 1 = k
    BY <1>1, <1>2, <1>3
  <2>2. c.heard <= k + 1
    BY <1>1, <1>s
  <2>3. QED
    BY <1>3, <1>6, <1>7, <2>1, <2>2 DEF Stream
<1>9. Delivered(d, n)
  <2>1. Len(d.stream) = k + 1 /\ d.stream # <<>> /\ d.stream[k + 1] = n
    BY <1>2, <1>3
  <2>2. d.stream[1] <= d.joined + 1
    <3>1. CASE k = 0
      BY <3>1, <1>d, <1>1, <1>2, <1>3
    <3>2. CASE k > 0
      BY <3>2, <1>d, <1>1, <1>2, <1>3, <1>4
    <3>3. QED
      BY <3>1, <3>2, <1>1
  <2>3. QED
    BY <2>1, <2>2 DEF Delivered
<1>10. QED
  BY <1>2, <1>3, <1>8, <1>9 DEF k

--------------------------------------------------------------------------------
(* What a page shows. *)

Seen(c, v) ==
  c.heard > 0 =>
    \A i \in c.stream[1]..c.stream[c.heard] : Script[i] \in PhaseNames =>
       /\ v.phase = PhaseAt(c.stream[c.heard])
       /\ v.waiting <=> Script[c.stream[c.heard]] = "waiting"

--------------------------------------------------------------------------------
(* The invariant. *)

\* The room has exactly the sockets that are served; one row at most is ahead of
\* its broadcast, and a row is written only between two broadcasts.
Line ==
  /\ room = served
  /\ written \in {told, told + 1}
  /\ written # told => todo = {}

Wires == \A s \in Sockets : Wire(conn[s], s \in room, s \in todo, told)

\* The scene and its connection know each other; a scene that waits for its
\* timer has none; a heartbeat that has missed two pongs has closed it.
Links ==
  /\ \A t \in Tabs :
       /\ tab[t].socket # None =>
            tab[t].page = "scene" /\ ~tab[t].timer /\ conn[tab[t].socket].scene = t
       /\ tab[t].timer => tab[t].page = "scene"
       /\ tab[t].beating => tab[t].socket # None
       /\ tab[t].beating /\ tab[t].missed = 2 => conn[tab[t].socket].state = "closing"
  /\ \A s \in Sockets : conn[s].scene # None => tab[conn[s].scene].socket = s

\* Every scene shows what its connection has brought it so far.
Views == \A s \in Sockets : conn[s].scene # None => Seen(conn[s], tab[conn[s].scene].view)

DeliveryInv == TypeOK /\ Line /\ Wires /\ Links /\ Views

\* What a page shows depends on the part of the stream it has handled.
LEMMA SeenSame ==
  ASSUME NEW c \in Conn, NEW d \in Conn, NEW v, Seen(c, v), d.heard = c.heard,
         \A i \in 1..c.heard : d.stream[i] = c.stream[i]
  PROVE  Seen(d, v)
<1>1. c.heard \in Nat
  BY ConnFields
<1>2. c.heard > 0 => d.stream[1] = c.stream[1] /\ d.stream[c.heard] = c.stream[c.heard]
  BY <1>1
<1>3. QED
  BY <1>2 DEF Seen

\* A connection nobody uses.
LEMMA FreshConn ==
  /\ Fresh \in Conn /\ Fresh.state = "free" /\ Fresh.scene = None /\ Fresh.stream = <<>>
  /\ Fresh.heard = 0 /\ Fresh.joined = 0 /\ Fresh.up
<1>1. <<>> \in Seq(1..Len(Script))
  BY EmptySeq
<1>2. Fresh \in Conn
  BY <1>1, TheScript DEF Fresh, Conn
<1>3. QED
  BY <1>2 DEF Fresh

\* Before the first page is opened nothing is connected.
LEMMA InitInv == Init => DeliveryInv
<1> SUFFICES ASSUME Init PROVE DeliveryInv
  OBVIOUS
<1>0. Begun \in 1..6 /\ MaxFaults \in Nat /\ MaxVisits \in Nat
  BY BegunAssumption, BoundsAssumption, TheScript
<1>1. Fresh \in Conn
  BY FreshConn
<1>2. Closed \in Tab
  BY <1>0 DEF Closed, Tab, Blank, View
<1>3. TypeOK
  <2>1. {} \in SUBSET Sockets
    OBVIOUS
  <2>2. QED
    BY <1>0, <1>1, <1>2, <2>1, TheScript DEF Init, TypeOK
<1>4. Line
  BY <1>0 DEF Init, Line
<1>5. Wires
  <2>1. Stream(Fresh, Begun)
    BY <1>0, <1>1, FreshWire DEF Fresh
  <2>2. QED
    BY <1>1, <2>1 DEF Init, Wires, Wire, Fresh
<1>6. Links /\ Views
  BY DEF Init, Links, Views, Fresh, Closed
<1>7. QED
  BY <1>3, <1>4, <1>5, <1>6 DEF DeliveryInv

--------------------------------------------------------------------------------
(* Steps that leave the pages alone. *)

\* The connections keep their scenes, what they have been sent and whether
\* they close.
LEMMA PagesStay ==
  ASSUME DeliveryInv, conn' \in [Sockets -> Conn], tab' = tab,
         \A s \in Sockets : /\ conn'[s].scene = conn[s].scene
                            /\ conn[s].state = "closing" => conn'[s].state = "closing"
                            /\ conn'[s].heard = conn[s].heard
                            /\ \A i \in 1..conn[s].heard : conn'[s].stream[i] = conn[s].stream[i]
  PROVE  Links' /\ Views'
<1>1. /\ conn \in [Sockets -> Conn] /\ tab \in [Tabs -> Tab]
      /\ \A t \in Tabs : tab[t].socket \in Sockets \union {None}
  BY DEF DeliveryInv, TypeOK, Tab
<1>2. Links'
  BY <1>1 DEF DeliveryInv, Links
<1>3. Views'
  <2> SUFFICES ASSUME NEW s \in Sockets, conn'[s].scene # None
               PROVE  Seen(conn'[s], tab'[conn'[s].scene].view)
    BY DEF Views
  <2>1. Seen(conn[s], tab[conn[s].scene].view)
    BY DEF DeliveryInv, Views
  <2>2. conn[s] \in Conn /\ conn'[s] \in Conn
    BY <1>1
  <2>3. QED
    BY <2>1, <2>2, SeenSame
<1>4. QED
  BY <1>2, <1>3

\* The step changes neither a connection nor a page.
LEMMA NothingStays ==
  ASSUME DeliveryInv, UNCHANGED <<conn, tab>>
  PROVE  Links' /\ Views'
<1>1. conn' \in [Sockets -> Conn]
  BY DEF DeliveryInv, TypeOK
<1>2. QED
  BY <1>1, PagesStay

\* A row is written: no broadcast is under way.
LEMMA WriteStep == DeliveryInv /\ Write => DeliveryInv'
<1> SUFFICES ASSUME DeliveryInv, Write PROVE DeliveryInv'
  OBVIOUS
<1>1. Links' /\ Views'
  BY NothingStays DEF Write
<1>2. TypeOK' /\ Line'
  BY BegunAssumption, TheScript DEF DeliveryInv, TypeOK, Line, Write
<1>3. Wires'
  BY DEF DeliveryInv, Wires, Write
<1>4. QED
  BY <1>1, <1>2, <1>3 DEF DeliveryInv

\* A broadcast begins: every member of the room has it to come.
LEMMA TellStep == DeliveryInv /\ Tell => DeliveryInv'
<1> SUFFICES ASSUME DeliveryInv, Tell PROVE DeliveryInv'
  OBVIOUS
<1>1. Links' /\ Views'
  BY NothingStays DEF Tell
<1>2. TypeOK' /\ Line'
  BY TheScript DEF DeliveryInv, TypeOK, Line, Tell
<1>3. told \in 1..6 /\ told' = told + 1 /\ told' \in 1..6 /\ todo = {}
  BY TheScript DEF DeliveryInv, TypeOK, Line, Tell
<1>4. Wires'
  <2> SUFFICES ASSUME NEW s \in Sockets
               PROVE  Wire(conn[s], s \in room, s \in todo', told')
    BY DEF Wires, Tell
  <2>1. Wire(conn[s], s \in room, s \in todo, told)
    BY DEF DeliveryInv, Wires
  <2>2. Stream(conn[s], told')
    <3>1. conn[s] \in Conn /\ Stream(conn[s], told)
      BY <2>1 DEF Wire
    <3>2. \A i \in 1..Len(conn[s].stream) : conn[s].stream[i] \in 1..6
      BY <3>1, ConnFields
    <3>3. QED
      BY <1>3, <3>1, <3>2 DEF Stream
  <2>3. s \in todo' <=> s \in room
    BY DEF Tell
  <2>4. told' - 1 = told
    BY <1>3
  <2>5. QED
    BY <1>3, <2>1, <2>2, <2>3, <2>4 DEF Wire
<1>5. QED
  BY <1>1, <1>2, <1>4 DEF DeliveryInv

\* The room shrinks or a member is visited, and no connection changes.
LEMMA RoomStep ==
  ASSUME DeliveryInv, UNCHANGED <<trial, conn, tab, faults>>,
         todo' \in SUBSET todo, room' \in SUBSET room, served' = room',
         \A s \in Sockets : conn[s].up /\ Listens(s) =>
           (s \in room' <=> s \in room) /\ (s \in room => (s \in todo' <=> s \in todo))
  PROVE  DeliveryInv'
<1>1. Links' /\ Views'
  BY NothingStays
<1>2. TypeOK' /\ Line'
  BY DEF DeliveryInv, TypeOK, Line, trial
<1>3. Wires'
  <2> SUFFICES ASSUME NEW s \in Sockets
               PROVE  Wire(conn[s], s \in room', s \in todo', told)
    BY DEF Wires, trial
  <2>1. Wire(conn[s], s \in room, s \in todo, told) /\ told \in 1..6
    BY TheScript DEF DeliveryInv, Wires, TypeOK
  <2>2. conn[s].state = "connecting" /\ conn[s].up => (s \in room' <=> s \in room)
    BY DEF Listens
  <2>3. s \in room' /\ conn[s].up /\ conn[s].state \in {"connecting", "open"} =>
          s \in room /\ (s \in todo' <=> s \in todo)
    BY DEF Listens
  <2>4. QED
    BY <2>1, <2>2, <2>3 DEF Wire
<1>4. QED
  BY <1>1, <1>2, <1>3 DEF DeliveryInv

\* The broadcast passes over a member that has left.
LEMMA SkipStep == \A s \in Sockets : DeliveryInv /\ Skip(s) => DeliveryInv'
<1> SUFFICES ASSUME NEW s \in Sockets, DeliveryInv, Skip(s) PROVE DeliveryInv'
  OBVIOUS
<1>1. room = served
  BY DEF DeliveryInv, Line
<1>2. QED
  BY <1>1, RoomStep DEF Skip

\* A frame is lost on a dead connection.
LEMMA SwallowStep == \A s \in Sockets : DeliveryInv /\ SwallowMessage(s) => DeliveryInv'
<1> SUFFICES ASSUME NEW s \in Sockets, DeliveryInv, SwallowMessage(s) PROVE DeliveryInv'
  OBVIOUS
<1>1. room = served
  BY DEF DeliveryInv, Line
<1>2. QED
  BY <1>1, RoomStep DEF SwallowMessage

\* A member that cannot be written to is dropped.
LEMMA DropStep == \A s \in Sockets : DeliveryInv /\ DropClient(s) => DeliveryInv'
<1> SUFFICES ASSUME NEW s \in Sockets, DeliveryInv, DropClient(s) PROVE DeliveryInv'
  OBVIOUS
<1>1. room = served
  BY DEF DeliveryInv, Line
<1>2. QED
  BY <1>1, RoomStep DEF DropClient

\* A handler leaves the room.
LEMMA LeaveStep == \A s \in Sockets : DeliveryInv /\ Leave(s) => DeliveryInv'
<1> SUFFICES ASSUME NEW s \in Sockets, DeliveryInv, Leave(s) PROVE DeliveryInv'
  OBVIOUS
<1>1. room = served
  BY DEF DeliveryInv, Line
<1>2. UNCHANGED <<trial, conn, tab, faults>> /\ todo' = todo
  BY DEF Leave
<1>3. QED
  BY <1>1, <1>2, RoomStep DEF Leave

\* One connection changes.
LEMMA OneConn ==
  ASSUME conn \in [Sockets -> Conn], NEW s \in Sockets, NEW d \in Conn,
         conn' = [conn EXCEPT ![s] = d]
  PROVE  /\ conn' \in [Sockets -> Conn] /\ conn'[s] = d
         /\ \A x \in Sockets \ {s} : conn'[x] = conn[x]
  OBVIOUS

\* A member is sent the event being broadcast.
LEMMA WriteMessageStep == \A s \in Sockets : DeliveryInv /\ WriteMessage(s) => DeliveryInv'
<1> SUFFICES ASSUME NEW s \in Sockets, DeliveryInv, WriteMessage(s) PROVE DeliveryInv'
  OBVIOUS
<1>1. room = served /\ s \in todo /\ s \in room /\ conn[s].up
  BY DEF DeliveryInv, Line, WriteMessage
<1>2. UNCHANGED <<trial, room, served, tab, faults>> /\ todo' = todo \ {s}
  BY DEF WriteMessage
<1>3. CASE ~Listens(s)
  BY <1>1, <1>2, <1>3, RoomStep DEF WriteMessage
<1>4. CASE Listens(s)
  <2> DEFINE d == [conn[s] EXCEPT !.stream = Append(@, told)]
  <2>1. conn' = [conn EXCEPT ![s] = d]
    BY <1>4 DEF WriteMessage
  <2>2. conn \in [Sockets -> Conn] /\ told \in 1..6
    BY TheScript DEF DeliveryInv, TypeOK
  <2>3. Wire(conn[s], s \in room, s \in todo, told)
    BY DEF DeliveryInv, Wires
  <2>4. Stream(conn[s], told) /\ Delivered(conn[s], told - 1)
    BY <1>1, <1>4, <2>3 DEF Wire, Listens
  <2>5. /\ d \in Conn /\ Stream(d, told) /\ Delivered(d, told)
        /\ d.state = conn[s].state /\ d.scene = conn[s].scene /\ d.heard = conn[s].heard
        /\ d.up = conn[s].up /\ d.joined = conn[s].joined
        /\ \A i \in 1..Len(conn[s].stream) : d.stream[i] = conn[s].stream[i]
    <3>1. conn[s] \in Conn
      BY <2>2
    <3> HIDE DEF Stream, Delivered
    <3>2. QED
      BY <2>2, <2>4, <3>1, SentOne
  <2> HIDE DEF d
  <2>6. /\ conn' \in [Sockets -> Conn] /\ conn'[s] = d
        /\ \A x \in Sockets \ {s} : conn'[x] = conn[x]
    BY <2>1, <2>2, <2>5, OneConn
  <2>7. Links' /\ Views'
    <3>1. ASSUME NEW i \in 1..conn[s].heard PROVE d.stream[i] = conn[s].stream[i]
      <4>1. conn[s].heard \in 0..6 /\ Len(conn[s].stream) \in Nat
        BY <2>2, ConnFields
      <4>2. i \in 1..Len(conn[s].stream)
        BY <2>4, <4>1 DEF Stream
      <4>3. QED
        BY <2>5, <4>2
    <3>2. tab' = tab
      BY <1>2
    <3>3. QED
      BY <2>5, <2>6, <3>1, <3>2, PagesStay
  <2>8. TypeOK' /\ Line'
    BY <1>1, <1>2, <2>6 DEF DeliveryInv, TypeOK, Line, trial
  <2>9. Wires'
    <3>1. told' = told /\ room' = room
      BY <1>2 DEF trial
    <3>2. Wire(d, s \in room', s \in todo', told')
      BY <1>1, <1>2, <2>3, <2>5, <3>1 DEF Wire
    <3>3. \A x \in Sockets \ {s} : Wire(conn[x], x \in room', x \in todo', told')
      BY <1>2, <3>1 DEF DeliveryInv, Wires
    <3>4. QED
      BY <2>6, <3>2, <3>3 DEF Wires
  <2>10. QED
    BY <2>7, <2>8, <2>9 DEF DeliveryInv
<1>5. QED
  BY <1>3, <1>4

\* A connection joins, before or after the broadcast would come to it.
LEMMA JoinStep == \A s \in Sockets : DeliveryInv /\ Join(s) => DeliveryInv'
<1> SUFFICES ASSUME NEW s \in Sockets, DeliveryInv, Join(s) PROVE DeliveryInv'
  OBVIOUS
<1>1. /\ room = served /\ s \notin room /\ conn[s].state = "connecting" /\ conn[s].up
      /\ room' = room \union {s} /\ served' = served \union {s}
      /\ UNCHANGED <<trial, tab, faults>>
      /\ (todo' = todo \/ (todo # {} /\ todo' = todo \union {s}))
  BY DEF DeliveryInv, Line, Join
<1> DEFINE d == [conn[s] EXCEPT !.joined = told]
<1>2. conn' = [conn EXCEPT ![s] = d]
  BY DEF Join
<1>3. conn \in [Sockets -> Conn] /\ told \in 1..6
  BY TheScript DEF DeliveryInv, TypeOK
<1>4. Wire(conn[s], s \in room, s \in todo, told)
  BY DEF DeliveryInv, Wires
<1>5. /\ d \in Conn /\ d.joined = told
      /\ d.state = conn[s].state /\ d.scene = conn[s].scene /\ d.heard = conn[s].heard
      /\ d.up = conn[s].up /\ d.stream = conn[s].stream
  <2>1. conn[s] \in Conn
    BY <1>3
  <2>2. told \in 0..Len(Script)
    BY <1>3, TheScript
  <2>3. QED
    BY <2>1, <2>2 DEF Conn
<1> HIDE DEF d
<1>6. /\ conn' \in [Sockets -> Conn] /\ conn'[s] = d
      /\ \A x \in Sockets \ {s} : conn'[x] = conn[x]
  BY <1>2, <1>3, <1>5, OneConn
<1>7. Links' /\ Views'
  <2>1. tab' = tab
    BY <1>1
  <2>2. QED
    BY <1>5, <1>6, <2>1, PagesStay
<1>8. TypeOK' /\ Line'
  BY <1>1, <1>6 DEF DeliveryInv, TypeOK, Line, trial
<1>9. Wires'
  <2>1. told' = told
    BY <1>1 DEF trial
  <2>2. conn[s].stream = <<>> /\ Stream(conn[s], told)
    BY <1>1, <1>4 DEF Wire
  <2>3. Stream(d, told)
    BY <1>5, <2>2 DEF Stream
  <2>4. Delivered(d, told) /\ Delivered(d, told - 1)
    BY <1>3, <1>5, <2>2 DEF Delivered
  <2>5. Wire(d, s \in room', s \in todo', told')
    BY <1>1, <1>4, <1>5, <2>1, <2>3, <2>4 DEF Wire
  <2>6. ASSUME NEW x \in Sockets \ {s} PROVE Wire(conn[x], x \in room', x \in todo', told')
    <3>1. Wire(conn[x], x \in room, x \in todo, told)
      BY DEF DeliveryInv, Wires
    <3>2. (x \in room' <=> x \in room) /\ (x \in todo' <=> x \in todo)
      BY <1>1
    <3>3. QED
      BY <2>1, <3>1, <3>2 DEF Wire
  <2>7. QED
    BY <1>6, <2>5, <2>6 DEF Wires
<1>10. QED
  BY <1>7, <1>8, <1>9 DEF DeliveryInv

\* A connection dies and nobody is told.
LEMMA BreakStep == \A s \in Sockets : DeliveryInv /\ Break(s) => DeliveryInv'
<1> SUFFICES ASSUME NEW s \in Sockets, DeliveryInv, Break(s) PROVE DeliveryInv'
  OBVIOUS
<1> DEFINE d == [conn[s] EXCEPT !.up = FALSE]
<1>1. /\ conn' = [conn EXCEPT ![s] = d]
      /\ UNCHANGED <<trial, todo, room, served, tab>>
      /\ faults' \in 0..MaxFaults
  BY BoundsAssumption DEF DeliveryInv, TypeOK, Break, Fault
<1>2. conn \in [Sockets -> Conn] /\ told \in 1..6
  BY TheScript DEF DeliveryInv, TypeOK
<1>3. /\ d \in Conn /\ ~d.up /\ d.joined = conn[s].joined
      /\ d.state = conn[s].state /\ d.scene = conn[s].scene /\ d.heard = conn[s].heard
      /\ d.stream = conn[s].stream
  <2>1. conn[s] \in Conn
    BY <1>2
  <2>2. QED
    BY <2>1 DEF Conn
<1> HIDE DEF d
<1>4. /\ conn' \in [Sockets -> Conn] /\ conn'[s] = d
      /\ \A x \in Sockets \ {s} : conn'[x] = conn[x]
  BY <1>1, <1>2, <1>3, OneConn
<1>5. Links' /\ Views'
  <2>1. tab' = tab
    BY <1>1
  <2>2. QED
    BY <1>3, <1>4, <2>1, PagesStay
<1>6. TypeOK' /\ Line'
  BY <1>1, <1>4 DEF DeliveryInv, TypeOK, Line, trial
<1>7. Wires'
  <2>1. \A x \in Sockets : Wire(conn[x], x \in room, x \in todo, told)
    BY DEF DeliveryInv, Wires
  <2>2. Stream(conn[s], told) /\ (conn[s].state = "free" => conn[s].scene = None)
    BY <2>1 DEF Wire
  <2>3. Stream(d, told)
    BY <1>3, <2>2 DEF Stream
  <2>4. Wire(d, s \in room, s \in todo, told)
    BY <1>3, <2>2, <2>3 DEF Wire
  <2>5. QED
    BY <1>1, <1>4, <2>1, <2>4 DEF Wires, trial
<1>8. QED
  BY <1>5, <1>6, <1>7 DEF DeliveryInv

\* The server restarts: the room is empty and the broadcast is lost.
LEMMA RestartStep == DeliveryInv /\ Restart => DeliveryInv'
<1> SUFFICES ASSUME DeliveryInv, Restart PROVE DeliveryInv'
  OBVIOUS
<1>1. /\ room' = {} /\ served' = {} /\ todo' = {} /\ told' = written /\ written' = written
      /\ tab' = tab /\ faults' \in 0..MaxFaults
  BY BoundsAssumption DEF DeliveryInv, TypeOK, Restart, Fault
<1>2. /\ conn \in [Sockets -> Conn] /\ told \in 1..6 /\ written \in 1..6 /\ told <= written
      /\ room = served
  BY TheScript DEF DeliveryInv, TypeOK, Line
<1>3. conn' \in [Sockets -> Conn]
  <2>1. ASSUME NEW s \in Sockets PROVE [conn[s] EXCEPT !.state = "closing"] \in Conn
    <3>1. conn[s] \in Conn
      BY <1>2
    <3>2. QED
      BY <3>1 DEF Conn
  <2>2. QED
    BY <1>2, <2>1 DEF Restart
<1>4. ASSUME NEW s \in Sockets
      PROVE  /\ conn'[s].scene = conn[s].scene /\ conn'[s].heard = conn[s].heard
             /\ conn'[s].stream = conn[s].stream /\ conn'[s].up = conn[s].up
             /\ conn'[s].state \in {conn[s].state, "closing"}
             /\ s \in room => conn'[s].state # "connecting"
  <2>1. conn[s] \in Conn
    BY <1>2
  <2>2. CASE conn[s].state = "connecting" /\ s \in served
    <3>1. conn'[s] = [conn[s] EXCEPT !.state = "closing"]
      BY <2>2 DEF Restart
    <3>2. QED
      BY <2>1, <3>1 DEF Conn
  <2>3. CASE ~(conn[s].state = "connecting" /\ s \in served)
    <3>1. conn'[s] = conn[s]
      BY <2>3 DEF Restart
    <3>2. QED
      BY <1>2, <2>3, <3>1
  <2>4. QED
    BY <2>2, <2>3
<1>5. Links' /\ Views'
  BY <1>1, <1>3, <1>4, PagesStay
<1>6. TypeOK' /\ Line'
  BY <1>1, <1>2, <1>3 DEF DeliveryInv, TypeOK, Line
<1>7. Wires'
  <2> SUFFICES ASSUME NEW s \in Sockets
               PROVE  Wire(conn'[s], s \in room', s \in todo', told')
    BY DEF Wires
  <2>1. Wire(conn[s], s \in room, s \in todo, told) /\ conn'[s] \in Conn
    BY <1>3 DEF DeliveryInv, Wires
  <2>2. Stream(conn'[s], written)
    <3>1. conn[s] \in Conn /\ Stream(conn[s], told)
      BY <2>1 DEF Wire
    <3>2. \A i \in 1..Len(conn[s].stream) : conn[s].stream[i] \in 1..6
      BY <3>1, ConnFields
    <3>3. Stream(conn[s], written)
      BY <1>2, <3>1, <3>2 DEF Stream
    <3>4. QED
      BY <1>4, <3>3 DEF Stream
  <2>3. conn'[s].state = "connecting" /\ conn'[s].up => conn'[s].stream = <<>>
    BY <1>4, <2>1 DEF Wire
  <2>4. conn'[s].state = "free" => conn'[s].scene = None
    BY <1>4, <2>1 DEF Wire
  <2>5. told' = written /\ s \notin room'
    BY <1>1
  <2>6. QED
    BY <2>1, <2>2, <2>3, <2>4, <2>5 DEF Wire
<1>8. QED
  BY <1>5, <1>6, <1>7 DEF DeliveryInv

--------------------------------------------------------------------------------
(* Steps of a page. *)

\* The fields of a tab.
LEMMA TabFields ==
  ASSUME NEW r \in Tab
  PROVE  /\ r.page \in {"gone", "session", "rest", "scene"}
         /\ r.socket \in Sockets \union {None} /\ r.timer \in BOOLEAN /\ r.beating \in BOOLEAN
         /\ r.missed \in 0..2 /\ r.view \in View /\ r.visits \in 0..MaxVisits
  BY DEF Tab

\* The step changes neither the room nor the trial, and what it makes of the
\* connections are wires again.
LEMMA WiresStay ==
  ASSUME DeliveryInv, UNCHANGED <<trial, todo, room, served>>, conn' \in [Sockets -> Conn],
         tab' \in [Tabs -> Tab], faults' \in 0..MaxFaults,
         \A s \in Sockets : Wire(conn'[s], s \in room, s \in todo, told)
  PROVE  TypeOK' /\ Line' /\ Wires'
<1>1. /\ written' = written /\ told' = told /\ todo' = todo /\ room' = room
      /\ served' = served
  BY DEF trial
<1>2. TypeOK' /\ Line'
  BY <1>1 DEF DeliveryInv, TypeOK, Line
<1>3. Wires'
  BY <1>1 DEF Wires
<1>4. QED
  BY <1>2, <1>3

\* A page without a socket is not the scene of any connection.
LEMMA NotAScene ==
  ASSUME DeliveryInv, NEW t \in Tabs, tab[t].socket = None
  PROVE  \A s \in Sockets : conn[s].scene # t
<1>1. None \notin Tabs /\ None \notin Sockets
  BY NoneAssumption
<1>2. QED
  BY <1>1 DEF DeliveryInv, Links

\* A page without a socket changes and gets none.
LEMMA PageStep ==
  ASSUME DeliveryInv, UNCHANGED <<trial, todo, room, served, conn, faults>>,
         NEW t \in Tabs, tab[t].socket = None, NEW r \in Tab, tab' = [tab EXCEPT ![t] = r],
         r.socket = None, ~r.beating, r.timer => r.page = "scene"
  PROVE  DeliveryInv'
<1>1. tab \in [Tabs -> Tab] /\ conn' \in [Sockets -> Conn] /\ faults' \in 0..MaxFaults
  BY DEF DeliveryInv, TypeOK
<1>2. tab' \in [Tabs -> Tab] /\ tab'[t] = r /\ (\A u \in Tabs \ {t} : tab'[u] = tab[u])
  BY <1>1
<1>3. TypeOK' /\ Line' /\ Wires'
  <2>1. \A s \in Sockets : Wire(conn'[s], s \in room, s \in todo, told)
    BY DEF DeliveryInv, Wires
  <2>2. QED
    BY <1>1, <1>2, <2>1, WiresStay
<1>4. \A s \in Sockets : conn[s].scene \in (Tabs \ {t}) \union {None}
  <2>1. \A s \in Sockets : conn[s].scene # t
    BY NotAScene
  <2>2. \A s \in Sockets : conn[s] \in Conn
    BY DEF DeliveryInv, TypeOK
  <2>3. QED
    BY <2>1, <2>2, ConnFields
<1>5. Links'
  BY <1>2, <1>4 DEF DeliveryInv, Links
<1>6. Views'
  BY <1>2, <1>4 DEF DeliveryInv, Views
<1>7. QED
  BY <1>3, <1>5, <1>6 DEF DeliveryInv

\* A tab whose scene is not mounted, or whose timer runs, has no socket.
LEMMA SceneHasSocket ==
  ASSUME DeliveryInv, NEW t \in Tabs, tab[t].page # "scene" \/ tab[t].timer
  PROVE  tab[t].socket = None
  BY DEF DeliveryInv, Links

\* A tab that shows no page.
LEMMA ClosedTab ==
  Closed \in Tab /\ Closed.socket = None /\ ~Closed.beating /\ ~Closed.timer
<1>1. Closed \in Tab
  BY BoundsAssumption DEF Closed, Tab, Blank, View
<1>2. QED
  BY <1>1 DEF Closed

\* A page is opened.
LEMMA OpenPageStep == \A t \in Tabs : DeliveryInv /\ OpenPage(t) => DeliveryInv'
<1> SUFFICES ASSUME NEW t \in Tabs, DeliveryInv, OpenPage(t) PROVE DeliveryInv'
  OBVIOUS
<1>1. tab[t] \in Tab
  BY DEF DeliveryInv, TypeOK
<1>2. tab[t].socket = None
  BY SceneHasSocket DEF OpenPage
<1> DEFINE r == [Closed EXCEPT !.page = "session", !.visits = tab[t].visits + 1]
<1>3. /\ r \in Tab /\ r.socket = None /\ ~r.beating /\ ~r.timer
  <2>1. tab[t].visits + 1 \in 0..MaxVisits
    BY <1>1, TabFields, BoundsAssumption DEF OpenPage
  <2>2. QED
    BY <2>1, ClosedTab DEF Tab
<1>4. tab' = [tab EXCEPT ![t] = r] /\ UNCHANGED <<trial, todo, room, served, conn, faults>>
  BY DEF OpenPage
<1> HIDE DEF r
<1>5. QED
  BY <1>2, <1>3, <1>4, PageStep

\* A page reads the session.
LEMMA HydrateStep == \A t \in Tabs : DeliveryInv /\ HydrateSession(t) => DeliveryInv'
<1> SUFFICES ASSUME NEW t \in Tabs, DeliveryInv, HydrateSession(t) PROVE DeliveryInv'
  OBVIOUS
<1>1. tab[t] \in Tab /\ tab[t].view \in View
  BY DEF DeliveryInv, TypeOK, Tab
<1>2. tab[t].page = "session" /\ tab[t].socket = None
  BY SceneHasSocket DEF HydrateSession
<1>3. ~tab[t].timer /\ ~tab[t].beating
  BY <1>1, <1>2, TabFields DEF DeliveryInv, Links
<1> DEFINE v == [tab[t].view EXCEPT !.phase = PhaseAt(written)]
           r == [tab[t] EXCEPT !.page = "rest", !.view = v]
<1>4. v \in View
  <2>1. PhaseAt(written) \in PhaseNames
    BY PhaseSteps, TheScript DEF DeliveryInv, TypeOK
  <2>2. QED
    BY <1>1, <2>1 DEF View
<1>5. tab' = [tab EXCEPT ![t] = r] /\ UNCHANGED <<trial, todo, room, served, conn, faults>>
  BY <1>1 DEF HydrateSession, DeliveryInv, TypeOK
<1> HIDE DEF v
<1>6. r \in Tab /\ r.socket = None /\ ~r.beating /\ ~r.timer
  BY <1>1, <1>2, <1>3, <1>4 DEF Tab
<1> HIDE DEF r
<1>7. QED
  BY <1>2, <1>5, <1>6, PageStep

\* The scene is mounted.
LEMMA MountStep == \A t \in Tabs : DeliveryInv /\ MountScene(t) => DeliveryInv'
<1> SUFFICES ASSUME NEW t \in Tabs, DeliveryInv, MountScene(t) PROVE DeliveryInv'
  OBVIOUS
<1>1. tab[t] \in Tab
  BY DEF DeliveryInv, TypeOK
<1>2. tab[t].page = "rest" /\ tab[t].socket = None
  BY SceneHasSocket DEF MountScene
<1>3. ~tab[t].beating
  BY <1>2 DEF DeliveryInv, Links
<1> DEFINE r == [tab[t] EXCEPT !.page = "scene", !.timer = TRUE]
<1>4. tab' = [tab EXCEPT ![t] = r] /\ UNCHANGED <<trial, todo, room, served, conn, faults>>
  BY <1>1 DEF MountScene, DeliveryInv, TypeOK
<1>5. r \in Tab /\ r.socket = None /\ ~r.beating /\ (r.timer => r.page = "scene")
  BY <1>1, <1>2, <1>3 DEF Tab
<1> HIDE DEF r
<1>6. QED
  BY <1>2, <1>4, <1>5, PageStep

\* The scene connects: it takes a connection nobody uses.
LEMMA ConnectStep == \A t \in Tabs : DeliveryInv /\ Connect(t) => DeliveryInv'
<1> SUFFICES ASSUME NEW t \in Tabs, DeliveryInv, Connect(t) PROVE DeliveryInv'
  OBVIOUS
<1>0. PICK s \in Sockets :
        /\ Idle(s)
        /\ conn' = [conn EXCEPT ![s] = [Fresh EXCEPT !.state = "connecting", !.scene = t]]
        /\ tab' = [tab EXCEPT ![t].timer = FALSE, ![t].socket = s]
  BY DEF Connect
<1> DEFINE d == [Fresh EXCEPT !.state = "connecting", !.scene = t]
           r == [tab[t] EXCEPT !.timer = FALSE, !.socket = s]
<1>1. /\ tab \in [Tabs -> Tab] /\ conn \in [Sockets -> Conn] /\ told \in 1..6
      /\ faults \in 0..MaxFaults
  BY TheScript DEF DeliveryInv, TypeOK
<1>2. /\ tab[t].timer /\ tab[t].socket = None /\ tab[t].page = "scene"
      /\ UNCHANGED <<trial, todo, room, served>> /\ faults' = faults
  BY SceneHasSocket DEF Connect, DeliveryInv, Links
<1>3. ~tab[t].beating
  BY <1>2 DEF DeliveryInv, Links
<1>4. /\ d \in Conn /\ d.state = "connecting" /\ d.scene = t /\ d.stream = <<>>
      /\ d.heard = 0 /\ d.joined = 0 /\ d.up
  BY FreshConn DEF Conn
<1>5. conn' = [conn EXCEPT ![s] = d]
  BY <1>0
<1> HIDE DEF d
<1>6. /\ conn' \in [Sockets -> Conn] /\ conn'[s] = d
      /\ \A x \in Sockets \ {s} : conn'[x] = conn[x]
  BY <1>1, <1>4, <1>5, OneConn
<1>7. tab' = [tab EXCEPT ![t] = r]
  BY <1>0, <1>1
<1>8. r \in Tab /\ r.socket = s /\ ~r.timer /\ ~r.beating /\ r.page = "scene"
  BY <1>1, <1>2, <1>3 DEF Tab
<1> HIDE DEF r
<1>9. tab' \in [Tabs -> Tab] /\ tab'[t] = r /\ (\A u \in Tabs \ {t} : tab'[u] = tab[u])
  BY <1>1, <1>7, <1>8
<1>10. conn[s].state = "free" /\ conn[s].scene = None /\ s \notin room /\ s \notin todo
  BY <1>0 DEF Idle, DeliveryInv, Wires, Wire, Line
<1>11. TypeOK' /\ Line' /\ Wires'
  <2>1. Stream(d, told)
    BY <1>1, <1>4, FreshWire
  <2>2. Wire(d, s \in room, s \in todo, told)
    BY <1>4, <1>10, <2>1 DEF Wire
  <2>3. \A x \in Sockets : Wire(conn'[x], x \in room, x \in todo, told)
    BY <1>6, <2>2 DEF DeliveryInv, Wires
  <2>4. QED
    BY <1>1, <1>2, <1>6, <1>9, <2>3, WiresStay
<1>12. \A x \in Sockets \ {s} : conn[x].scene \in (Tabs \ {t}) \union {None}
  <2>1. \A x \in Sockets : conn[x].scene # t
    BY <1>2, NotAScene
  <2>2. QED
    BY <1>1, <2>1, ConnFields
<1>13. \A u \in Tabs \ {t} : tab[u].socket \in (Sockets \ {s}) \union {None}
  <2>1. None \notin Tabs /\ \A u \in Tabs : tab[u].socket \in Sockets \union {None}
    BY <1>1, TabFields, NoneAssumption
  <2>2. \A u \in Tabs : tab[u].socket # s
    BY <1>10, <2>1, NoneAssumption DEF DeliveryInv, Links
  <2>3. QED
    BY <2>1, <2>2
<1>14. Links'
  <2>1. ASSUME NEW u \in Tabs \ {t}
        PROVE  /\ tab'[u] = tab[u]
               /\ tab[u].socket # None => conn'[tab[u].socket] = conn[tab[u].socket]
    BY <1>6, <1>9, <1>13
  <2>2. None \notin Tabs /\ None \notin Sockets
    BY NoneAssumption
  <2>3. \A x \in Sockets : conn'[x].scene # None => tab'[conn'[x].scene].socket = x
    BY <1>4, <1>6, <1>8, <1>9, <1>12 DEF DeliveryInv, Links
  <2>4. ASSUME NEW u \in Tabs
        PROVE  /\ tab'[u].socket # None =>
                    /\ tab'[u].page = "scene" /\ ~tab'[u].timer
                    /\ conn'[tab'[u].socket].scene = u
               /\ tab'[u].timer => tab'[u].page = "scene"
               /\ tab'[u].beating => tab'[u].socket # None
               /\ tab'[u].beating /\ tab'[u].missed = 2 =>
                    conn'[tab'[u].socket].state = "closing"
    <3>1. CASE u = t
      BY <3>1, <1>4, <1>6, <1>8, <1>9
    <3>2. CASE u # t
      BY <3>2, <2>1 DEF DeliveryInv, Links
    <3>3. QED
      BY <3>1, <3>2
  <2>5. QED
    BY <2>3, <2>4 DEF Links
<1>15. Views'
  <2> SUFFICES ASSUME NEW x \in Sockets, conn'[x].scene # None
               PROVE  Seen(conn'[x], tab'[conn'[x].scene].view)
    BY DEF Views
  <2>1. CASE x = s
    BY <2>1, <1>4, <1>6 DEF Seen
  <2>2. CASE x # s
    BY <2>2, <1>6, <1>9, <1>12 DEF DeliveryInv, Views
  <2>3. QED
    BY <2>1, <2>2
<1>16. QED
  BY <1>11, <1>14, <1>15 DEF DeliveryInv

--------------------------------------------------------------------------------
(* Steps of a connection and its scene. *)

\* One connection changes, and of the pages only its scene; it stays the
\* connection of that scene.
LEMMA SceneStep ==
  ASSUME DeliveryInv, UNCHANGED <<trial, todo, room, served, faults>>,
         NEW s \in Sockets, NEW d \in Conn, conn' = [conn EXCEPT ![s] = d],
         d.scene = conn[s].scene, conn[s].state = "closing" => d.state = "closing",
         Wire(d, s \in room, s \in todo, told),
         tab' \in [Tabs -> Tab],
         \A t \in Tabs : conn[s].scene # t => tab'[t] = tab[t],
         \A t \in Tabs : conn[s].scene = t =>
           /\ tab'[t].socket = tab[t].socket /\ tab'[t].page = tab[t].page
           /\ tab'[t].timer = tab[t].timer
           /\ tab'[t].beating /\ tab'[t].missed = 2 => d.state = "closing"
           /\ Seen(d, tab'[t].view)
  PROVE  DeliveryInv'
<1>1. /\ tab \in [Tabs -> Tab] /\ conn \in [Sockets -> Conn] /\ faults' \in 0..MaxFaults
  BY DEF DeliveryInv, TypeOK
<1>2. /\ conn' \in [Sockets -> Conn] /\ conn'[s] = d
      /\ \A x \in Sockets \ {s} : conn'[x] = conn[x]
  BY <1>1, OneConn
<1>3. TypeOK' /\ Line' /\ Wires'
  <2>1. \A x \in Sockets : Wire(conn'[x], x \in room, x \in todo, told)
    BY <1>2 DEF DeliveryInv, Wires
  <2>2. QED
    BY <1>1, <1>2, <2>1, WiresStay
<1>4. None \notin Tabs /\ None \notin Sockets
  BY NoneAssumption
<1>5. /\ \A x \in Sockets : conn[x].scene \in Tabs \union {None}
      /\ \A t \in Tabs : tab[t].socket \in Sockets \union {None}
  BY <1>1, ConnFields, TabFields
<1>6. \A x \in Sockets : conn[x].scene # None => tab[conn[x].scene].socket = x
  BY DEF DeliveryInv, Links
<1>7. \A x \in Sockets : x # s /\ conn[x].scene # None => conn[x].scene # conn[s].scene
  BY <1>6
<1>8. Links'
  <2>1. ASSUME NEW t \in Tabs
        PROVE  /\ tab'[t].socket # None =>
                    /\ tab'[t].page = "scene" /\ ~tab'[t].timer
                    /\ conn'[tab'[t].socket].scene = t
               /\ tab'[t].timer => tab'[t].page = "scene"
               /\ tab'[t].beating => tab'[t].socket # None
               /\ tab'[t].beating /\ tab'[t].missed = 2 =>
                    conn'[tab'[t].socket].state = "closing"
    <3>0. /\ tab[t].socket # None =>
               tab[t].page = "scene" /\ ~tab[t].timer /\ conn[tab[t].socket].scene = t
          /\ tab[t].timer => tab[t].page = "scene"
          /\ tab[t].beating => tab[t].socket # None
          /\ tab[t].beating /\ tab[t].missed = 2 => conn[tab[t].socket].state = "closing"
      BY DEF DeliveryInv, Links
    <3>1. CASE conn[s].scene = t
      <4>1. tab[t].socket = s /\ tab'[t].socket = s
        BY <3>1, <1>4, <1>6
      <4>2. tab'[t].page = "scene" /\ ~tab'[t].timer
        BY <3>0, <3>1, <4>1, <1>4
      <4>3. tab'[t].beating /\ tab'[t].missed = 2 => d.state = "closing"
        BY <3>1
      <4>4. QED
        BY <3>1, <4>1, <4>2, <4>3, <1>2, <1>4
    <3>2. CASE conn[s].scene # t
      <4>1. tab'[t] = tab[t]
        BY <3>2
      <4>2. tab[t].socket # s
        BY <3>0, <3>2, <1>4
      <4>3. tab[t].socket # None => conn'[tab[t].socket] = conn[tab[t].socket]
        BY <4>2, <1>2, <1>5
      <4>4. QED
        BY <3>0, <4>1, <4>3
    <3>3. QED
      BY <3>1, <3>2
  <2>2. ASSUME NEW x \in Sockets, conn'[x].scene # None
        PROVE  tab'[conn'[x].scene].socket = x
    <3>1. conn'[x].scene = conn[x].scene
      BY <1>2
    <3>2. tab'[conn[x].scene].socket = tab[conn[x].scene].socket
      BY <2>2, <3>1, <1>5
    <3>3. QED
      BY <2>2, <3>1, <3>2, <1>6
  <2>3. QED
    BY <2>1, <2>2 DEF Links
<1>9. Views'
  <2> SUFFICES ASSUME NEW x \in Sockets, conn'[x].scene # None
               PROVE  Seen(conn'[x], tab'[conn'[x].scene].view)
    BY DEF Views
  <2>1. CASE x = s
    BY <2>1, <1>2, <1>5
  <2>2. CASE x # s
    <3>1. conn'[x] = conn[x] /\ tab'[conn[x].scene] = tab[conn[x].scene]
      BY <2>2, <1>2, <1>5, <1>7
    <3>2. QED
      BY <3>1 DEF DeliveryInv, Views
  <2>3. QED
    BY <2>1, <2>2
<1>10. QED
  BY <1>3, <1>8, <1>9 DEF DeliveryInv

\* The handshake is over.
LEMMA OpenedStep == \A s \in Sockets : DeliveryInv /\ Opened(s) => DeliveryInv'
<1> SUFFICES ASSUME NEW s \in Sockets, DeliveryInv, Opened(s) PROVE DeliveryInv'
  OBVIOUS
<1>1. /\ tab \in [Tabs -> Tab] /\ conn \in [Sockets -> Conn]
      /\ Wire(conn[s], s \in room, s \in todo, told)
      /\ UNCHANGED <<trial, todo, room, served, faults>>
      /\ s \in room /\ conn[s].state = "connecting"
  BY DEF DeliveryInv, TypeOK, Wires, Line, Opened
<1> DEFINE d == [conn[s] EXCEPT !.state = "open"]
           r(t) == [tab[t] EXCEPT !.missed = 0, !.beating = TRUE]
<1>2. conn' = [conn EXCEPT ![s] = d]
  BY DEF Opened
<1>3. /\ d \in Conn /\ d.state = "open" /\ d.joined = conn[s].joined /\ d.up = conn[s].up
      /\ d.scene = conn[s].scene /\ d.heard = conn[s].heard /\ d.stream = conn[s].stream
  <2>1. conn[s] \in Conn
    BY <1>1
  <2>2. QED
    BY <2>1 DEF Conn
<1> HIDE DEF d
<1>4. Wire(d, s \in room, s \in todo, told)
  <2>1. Stream(d, told)
    BY <1>1, <1>3 DEF Wire, Stream
  <2>2. d.up => Delivered(d, IF s \in todo THEN told - 1 ELSE told)
    BY <1>1, <1>3 DEF Wire, Delivered
  <2>3. QED
    BY <1>1, <1>3, <2>1, <2>2 DEF Wire
<1>5. ASSUME NEW t \in Tabs
      PROVE  /\ r(t) \in Tab /\ r(t).socket = tab[t].socket /\ r(t).page = tab[t].page
             /\ r(t).timer = tab[t].timer /\ r(t).view = tab[t].view
             /\ r(t).missed = 0
  <2>1. tab[t] \in Tab
    BY <1>1
  <2>2. r(t) \in Tab
    <3>1. [tab[t] EXCEPT !.missed = 0] \in Tab
      BY <2>1 DEF Tab
    <3>2. QED
      BY <3>1 DEF Tab
  <2>3. /\ r(t).socket = tab[t].socket /\ r(t).page = tab[t].page
        /\ r(t).timer = tab[t].timer
    BY <2>1 DEF Tab
  <2>4. r(t).view = tab[t].view /\ r(t).missed = 0
    BY <2>1 DEF Tab
  <2>5. QED
    BY <2>2, <2>3, <2>4
<1>6. tab' = [t \in Tabs |-> IF conn[s].scene = t THEN r(t) ELSE tab[t]]
  BY DEF Opened
<1> HIDE DEF r
<1>7. tab' \in [Tabs -> Tab]
  BY <1>1, <1>5, <1>6
<1>8. ASSUME NEW t \in Tabs, conn[s].scene = t PROVE Seen(d, tab[t].view)
  <2>1. Seen(conn[s], tab[t].view)
    BY <1>8, NoneAssumption DEF DeliveryInv, Views
  <2>2. QED
    BY <1>1, <1>3, <2>1, SeenSame
<1>9. \A t \in Tabs : conn[s].scene # t => tab'[t] = tab[t]
  BY <1>6
<1>10. ASSUME NEW t \in Tabs, conn[s].scene = t
       PROVE  /\ tab'[t].socket = tab[t].socket /\ tab'[t].page = tab[t].page
              /\ tab'[t].timer = tab[t].timer
              /\ tab'[t].beating /\ tab'[t].missed = 2 => d.state = "closing"
              /\ Seen(d, tab'[t].view)
  BY <1>5, <1>6, <1>8, <1>10
<1>11. QED
  BY <1>1, <1>2, <1>3, <1>4, <1>7, <1>9, <1>10, SceneStep

\* What a page shows after it has handled one more event.
LEMMA HearOne ==
  ASSUME NEW c \in Conn, NEW d \in Conn, NEW n \in 1..6, Stream(c, n),
         c.heard < Len(c.stream), d.heard = c.heard + 1, d.stream = c.stream,
         NEW v \in View, Seen(c, v)
  PROVE  LET event == Script[c.stream[c.heard + 1]]
         IN Apply(v, event) \in View /\ Seen(d, Apply(v, event))
<1> DEFINE h == c.heard
           st == c.stream
           e == st[h + 1]
           w == Apply(v, Script[e])
<1>1. /\ h \in Nat /\ Len(st) \in Nat /\ h + 1 \in 1..Len(st)
      /\ \A i \in 1..Len(st) : st[i] \in 1..6
      /\ \A i \in 1..(Len(st) - 1) : st[i + 1] = st[i] + 1
  BY ConnFields DEF Stream
<1>2. e \in 1..6
  BY <1>1
<1>3. /\ v.phase \in PhaseNames \union {"none"} /\ v.waiting \in BOOLEAN /\ v.ready \in BOOLEAN
  BY DEF View
<1>4. /\ w \in View
      /\ w.phase = IF Script[e] \in PhaseNames THEN Script[e] ELSE v.phase
      /\ w.waiting <=> Script[e] \notin PhaseNames /\ (v.waiting \/ Script[e] = "waiting")
  BY DEF View, Apply
<1>5. h > 0 => st[h] \in 1..6 /\ e = st[h] + 1 /\ st[1] \in 1..6
  BY <1>1
<1> HIDE DEF w
<1>6. Seen(d, w)
  <2> SUFFICES ASSUME NEW i \in d.stream[1]..d.stream[d.heard], Script[i] \in PhaseNames
               PROVE  /\ w.phase = PhaseAt(e)
                      /\ w.waiting <=> Script[e] = "waiting"
    BY <1>1 DEF Seen
  <2>1. i \in st[1]..e
    OBVIOUS
  <2>2. CASE Script[e] \in PhaseNames
    BY <2>2, <1>2, <1>4, PhaseSteps
  <2>3. CASE Script[e] \notin PhaseNames
    <3>1. i # e
      BY <2>3
    <3>2. h > 0
      <4>1. CASE h = 0
        <5>1. e = st[1]
          BY <4>1
        <5>2. QED
          BY <2>1, <3>1, <5>1, <1>2
      <4>2. QED
        BY <4>1, <1>1
    <3>3. i \in st[1]..st[h]
      BY <2>1, <3>1, <3>2, <1>2, <1>5
    <3>4. v.phase = PhaseAt(st[h]) /\ (v.waiting <=> Script[st[h]] = "waiting")
      BY <3>2, <3>3 DEF Seen
    <3>5. e - 1 = st[h]
      BY <3>2, <1>5
    <3>6. PhaseAt(e) = PhaseAt(st[h]) /\ Script[st[h]] \in PhaseNames
      BY <2>3, <3>5, <1>2, PhaseSteps
    <3>7. Script[st[h]] # "waiting"
      BY <3>2, <3>6, <1>5, PhaseSteps
    <3>8. QED
      BY <2>3, <3>4, <3>6, <3>7, <1>4
  <2>4. QED
    BY <2>2, <2>3
<1>7. QED
  BY <1>4, <1>6 DEF w

\* The browser handles the next event.
LEMMA HearStep == \A s \in Sockets : DeliveryInv /\ Hear(s) => DeliveryInv'
<1> SUFFICES ASSUME NEW s \in Sockets, DeliveryInv, Hear(s) PROVE DeliveryInv'
  OBVIOUS
<1>1. /\ tab \in [Tabs -> Tab] /\ conn \in [Sockets -> Conn] /\ told \in 1..6
      /\ Wire(conn[s], s \in room, s \in todo, told)
      /\ UNCHANGED <<trial, todo, room, served, faults>>
      /\ conn[s].heard < Len(conn[s].stream)
  BY TheScript DEF DeliveryInv, TypeOK, Wires, Hear
<1> DEFINE c == conn[s]
           d == [c EXCEPT !.heard = @ + 1]
           event == Script[c.stream[c.heard + 1]]
           r(t) == [tab[t] EXCEPT !.view = Apply(@, event)]
<1>2. conn' = [conn EXCEPT ![s] = d]
  BY DEF Hear
<1>3. c \in Conn /\ Stream(c, told) /\ Len(c.stream) \in Nat /\ c.heard \in 0..6
  BY <1>1, ConnFields DEF Wire
<1>4. /\ d \in Conn /\ d.state = c.state /\ d.joined = c.joined /\ d.up = c.up
      /\ d.scene = c.scene /\ d.heard = c.heard + 1 /\ d.stream = c.stream
  <2>1. c.heard + 1 \in 0..Len(Script)
    <3>1. Len(c.stream) <= told
      BY <1>1, <1>3, StreamLength
    <3>2. QED
      BY <1>1, <1>3, <3>1, TheScript
  <2>2. QED
    BY <1>3, <2>1 DEF Conn
<1>5. tab' = [t \in Tabs |-> IF c.scene = t THEN r(t) ELSE tab[t]]
  BY DEF Hear
<1> HIDE DEF d
<1>6. Wire(d, s \in room, s \in todo, told)
  <2>1. Stream(d, told)
    BY <1>1, <1>3, <1>4 DEF Stream
  <2>2. s \in room /\ d.up /\ d.state \in {"connecting", "open"} =>
          Delivered(d, IF s \in todo THEN told - 1 ELSE told)
    BY <1>1, <1>4 DEF Wire, Delivered
  <2>3. QED
    BY <1>1, <1>4, <2>1, <2>2 DEF Wire
<1>7. ASSUME NEW t \in Tabs, c.scene = t
      PROVE  Apply(tab[t].view, event) \in View /\ Seen(d, Apply(tab[t].view, event))
  <2>1. Seen(c, tab[t].view)
    BY <1>7, NoneAssumption DEF DeliveryInv, Views
  <2>2. tab[t].view \in View
    BY <1>1, TabFields
  <2>3. QED
    BY <1>1, <1>3, <1>4, <2>1, <2>2, HearOne
<1> HIDE DEF event
<1>8. ASSUME NEW t \in Tabs, c.scene = t
      PROVE  /\ r(t) \in Tab /\ r(t).socket = tab[t].socket /\ r(t).page = tab[t].page
             /\ r(t).timer = tab[t].timer /\ r(t).beating = tab[t].beating
             /\ r(t).missed = tab[t].missed
             /\ r(t).view = Apply(tab[t].view, event)
  <2>1. tab[t] \in Tab /\ Apply(tab[t].view, event) \in View
    BY <1>1, <1>7, <1>8
  <2>2. QED
    BY <2>1 DEF Tab
<1> HIDE DEF r
<1>9. tab' \in [Tabs -> Tab]
  BY <1>1, <1>5, <1>8
<1>10. \A t \in Tabs : conn[s].scene # t => tab'[t] = tab[t]
  BY <1>5
<1>11. ASSUME NEW t \in Tabs, conn[s].scene = t
       PROVE  /\ tab'[t].socket = tab[t].socket /\ tab'[t].page = tab[t].page
              /\ tab'[t].timer = tab[t].timer
              /\ tab'[t].beating /\ tab'[t].missed = 2 => d.state = "closing"
              /\ Seen(d, tab'[t].view)
  <2>1. tab'[t] = r(t)
    BY <1>5, <1>11
  <2>2. tab[t].socket = s
    BY <1>11, NoneAssumption DEF DeliveryInv, Links
  <2>3. tab[t].beating /\ tab[t].missed = 2 => c.state = "closing"
    BY <2>2 DEF DeliveryInv, Links
  <2>4. QED
    BY <2>1, <2>3, <1>4, <1>7, <1>8, <1>11
<1>12. QED
  BY <1>1, <1>2, <1>4, <1>6, <1>9, <1>10, <1>11, SceneStep

\* A ping is not answered.
LEMMA BeatStep == \A t \in Tabs : DeliveryInv /\ Beat(t) => DeliveryInv'
<1> SUFFICES ASSUME NEW t \in Tabs, DeliveryInv, Beat(t) PROVE DeliveryInv'
  OBVIOUS
<1> DEFINE s == tab[t].socket
           next == IF tab[t].missed + 1 >= 2 THEN "closing" ELSE "open"
           d == [conn[s] EXCEPT !.state = next]
           r == [tab[t] EXCEPT !.missed = @ + 1]
<1>1. /\ tab \in [Tabs -> Tab] /\ conn \in [Sockets -> Conn]
      /\ UNCHANGED <<trial, todo, room, served, faults>>
      /\ tab[t].beating /\ conn[s].state = "open" /\ ~conn[s].up
      /\ conn' = [conn EXCEPT ![s].state = next]
      /\ tab' = [tab EXCEPT ![t].missed = @ + 1]
  BY DEF DeliveryInv, TypeOK, Beat, Unanswered
<1>2. s \in Sockets /\ conn[s].scene = t
  BY <1>1, TabFields DEF DeliveryInv, Links
<1>3. tab[t].missed \in {0, 1}
  BY <1>1, TabFields DEF DeliveryInv, Links
<1>4. conn' = [conn EXCEPT ![s] = d] /\ tab' = [tab EXCEPT ![t] = r]
  BY <1>1, <1>2
<1>5. next \in {"open", "closing"} /\ (tab[t].missed + 1 = 2 => next = "closing")
  BY <1>3
<1> HIDE DEF next
<1>6. /\ d \in Conn /\ d.state = next /\ d.joined = conn[s].joined /\ d.up = conn[s].up
      /\ d.scene = conn[s].scene /\ d.heard = conn[s].heard /\ d.stream = conn[s].stream
  <2>1. conn[s] \in Conn
    BY <1>1, <1>2
  <2>2. QED
    BY <1>5, <2>1 DEF Conn
<1>7. /\ r \in Tab /\ r.missed = tab[t].missed + 1 /\ r.page = tab[t].page
      /\ r.socket = tab[t].socket /\ r.timer = tab[t].timer /\ r.view = tab[t].view
  <2>1. tab[t] \in Tab /\ tab[t].missed + 1 \in 0..2
    BY <1>1, <1>3
  <2>2. QED
    BY <2>1 DEF Tab
<1> HIDE DEF d, r
<1>8. Wire(d, s \in room, s \in todo, told)
  <2>1. Wire(conn[s], s \in room, s \in todo, told)
    BY <1>2 DEF DeliveryInv, Wires
  <2>2. Stream(d, told)
    BY <1>6, <2>1 DEF Wire, Stream
  <2>3. QED
    BY <1>1, <1>5, <1>6, <2>2 DEF Wire
<1>9. tab' \in [Tabs -> Tab] /\ tab'[t] = r /\ (\A u \in Tabs \ {t} : tab'[u] = tab[u])
  BY <1>1, <1>4, <1>7
<1>10. Seen(d, tab[t].view)
  <2>1. Seen(conn[s], tab[t].view)
    BY <1>2, NoneAssumption DEF DeliveryInv, Views
  <2>2. QED
    BY <1>1, <1>2, <1>6, <2>1, SeenSame
<1>11. PICK x \in Sockets : x = s
  BY <1>2
<1>12. \A u \in Tabs : conn[x].scene # u => tab'[u] = tab[u]
  BY <1>2, <1>9, <1>11
<1>13. ASSUME NEW u \in Tabs, conn[x].scene = u
       PROVE  /\ tab'[u].socket = tab[u].socket /\ tab'[u].page = tab[u].page
              /\ tab'[u].timer = tab[u].timer
              /\ tab'[u].beating /\ tab'[u].missed = 2 => d.state = "closing"
              /\ Seen(d, tab'[u].view)
  <2>1. u = t
    BY <1>2, <1>11, <1>13
  <2>2. QED
    BY <2>1, <1>5, <1>6, <1>7, <1>9, <1>10
<1>14. /\ conn' = [conn EXCEPT ![x] = d] /\ Wire(d, x \in room, x \in todo, told)
       /\ d.scene = conn[x].scene /\ conn[x].state # "closing"
  BY <1>1, <1>4, <1>6, <1>8, <1>11
<1> HIDE DEF s
<1>15. QED
  BY <1>1, <1>6, <1>9, <1>12, <1>13, <1>14, SceneStep

--------------------------------------------------------------------------------
(* A connection ends. *)

\* onclose, whatever the reason: the connection is given back and the scene
\* that had it schedules the next.
LEMMA CloseStep ==
  ASSUME DeliveryInv, UNCHANGED <<trial, todo, room, served>>, faults' \in 0..MaxFaults,
         NEW s \in Sockets, OnClose(s)
  PROVE  DeliveryInv'
<1> DEFINE d == [Fresh EXCEPT !.up = conn[s].up]
           r(t) == [tab[t] EXCEPT !.socket = None, !.beating = FALSE, !.timer = TRUE]
<1>1. /\ tab \in [Tabs -> Tab] /\ conn \in [Sockets -> Conn] /\ told \in 1..6
      /\ conn' = [conn EXCEPT ![s] = d]
      /\ tab' = [t \in Tabs |-> IF conn[s].scene = t THEN r(t) ELSE tab[t]]
  BY TheScript DEF DeliveryInv, TypeOK, OnClose
<1>2. /\ d \in Conn /\ d.state = "free" /\ d.scene = None /\ d.stream = <<>> /\ d.heard = 0
  <2>1. conn[s].up \in BOOLEAN
    BY <1>1, ConnFields
  <2>2. QED
    BY <2>1, FreshConn DEF Conn
<1> HIDE DEF d
<1>3. /\ conn' \in [Sockets -> Conn] /\ conn'[s] = d
      /\ \A x \in Sockets \ {s} : conn'[x] = conn[x]
  BY <1>1, <1>2, OneConn
<1>4. ASSUME NEW t \in Tabs
      PROVE  /\ r(t) \in Tab /\ r(t).socket = None /\ ~r(t).beating /\ r(t).timer
             /\ r(t).page = tab[t].page
  <2>1. tab[t] \in Tab
    BY <1>1
  <2>2. QED
    BY <2>1 DEF Tab
<1> HIDE DEF r
<1>5. tab' \in [Tabs -> Tab]
  BY <1>1, <1>4
<1>6. TypeOK' /\ Line' /\ Wires'
  <2>1. Stream(d, told)
    BY <1>1, <1>2, FreshWire
  <2>2. Wire(d, s \in room, s \in todo, told)
    BY <1>2, <2>1 DEF Wire
  <2>3. \A x \in Sockets : Wire(conn'[x], x \in room, x \in todo, told)
    BY <1>3, <2>2 DEF DeliveryInv, Wires
  <2>4. QED
    BY <1>3, <1>5, <2>3, WiresStay
<1>7. None \notin Tabs /\ None \notin Sockets
  BY NoneAssumption
<1>8. /\ \A x \in Sockets : conn[x].scene \in Tabs \union {None}
      /\ \A t \in Tabs : tab[t].socket \in Sockets \union {None}
  BY <1>1, ConnFields, TabFields
<1>9. \A x \in Sockets : conn[x].scene # None => tab[conn[x].scene].socket = x
  BY DEF DeliveryInv, Links
<1>10. \A x \in Sockets : x # s /\ conn[x].scene # None => conn[x].scene # conn[s].scene
  BY <1>9
<1>11. Links'
  <2>1. ASSUME NEW t \in Tabs
        PROVE  /\ tab'[t].socket # None =>
                    /\ tab'[t].page = "scene" /\ ~tab'[t].timer
                    /\ conn'[tab'[t].socket].scene = t
               /\ tab'[t].timer => tab'[t].page = "scene"
               /\ tab'[t].beating => tab'[t].socket # None
               /\ tab'[t].beating /\ tab'[t].missed = 2 =>
                    conn'[tab'[t].socket].state = "closing"
    <3>0. /\ tab[t].socket # None =>
               tab[t].page = "scene" /\ ~tab[t].timer /\ conn[tab[t].socket].scene = t
          /\ tab[t].timer => tab[t].page = "scene"
          /\ tab[t].beating => tab[t].socket # None
          /\ tab[t].beating /\ tab[t].missed = 2 => conn[tab[t].socket].state = "closing"
      BY DEF DeliveryInv, Links
    <3>1. CASE conn[s].scene = t
      <4>1. tab[t].socket = s
        BY <3>1, <1>7, <1>9
      <4>2. tab[t].page = "scene"
        BY <3>0, <4>1, <1>7
      <4>3. QED
        BY <3>1, <4>2, <1>1, <1>4
    <3>2. CASE conn[s].scene # t
      <4>1. tab'[t] = tab[t]
        BY <3>2, <1>1
      <4>2. tab[t].socket # s
        BY <3>0, <3>2, <1>7
      <4>3. tab[t].socket # None => conn'[tab[t].socket] = conn[tab[t].socket]
        BY <4>2, <1>3, <1>8
      <4>4. QED
        BY <3>0, <4>1, <4>3
    <3>3. QED
      BY <3>1, <3>2
  <2>2. ASSUME NEW x \in Sockets, conn'[x].scene # None
        PROVE  tab'[conn'[x].scene].socket = x
    <3>1. x # s /\ conn'[x] = conn[x]
      BY <2>2, <1>2, <1>3
    <3>2. conn[x].scene \in Tabs /\ conn[x].scene # conn[s].scene
      BY <2>2, <3>1, <1>8, <1>10
    <3>3. tab'[conn[x].scene] = tab[conn[x].scene]
      BY <3>2, <1>1
    <3>4. QED
      BY <2>2, <3>1, <3>3, <1>9
  <2>3. QED
    BY <2>1, <2>2 DEF Links
<1>12. Views'
  <2> SUFFICES ASSUME NEW x \in Sockets, conn'[x].scene # None
               PROVE  Seen(conn'[x], tab'[conn'[x].scene].view)
    BY DEF Views
  <2>1. x # s /\ conn'[x] = conn[x]
    BY <1>2, <1>3
  <2>2. conn[x].scene \in Tabs /\ conn[x].scene # conn[s].scene
    BY <2>1, <1>8, <1>10
  <2>3. tab'[conn[x].scene] = tab[conn[x].scene]
    BY <2>2, <1>1
  <2>4. QED
    BY <2>1, <2>3 DEF DeliveryInv, Views
<1>13. QED
  BY <1>6, <1>11, <1>12 DEF DeliveryInv

\* The three ways a connection ends.
LEMMA EndStep ==
  \A s \in Sockets : DeliveryInv /\ (SocketCloses(s) \/ Reset(s) \/ Refuse(s)) => DeliveryInv'
<1> SUFFICES ASSUME NEW s \in Sockets, DeliveryInv,
                    SocketCloses(s) \/ Reset(s) \/ Refuse(s)
             PROVE  DeliveryInv'
  OBVIOUS
<1>1. faults \in 0..MaxFaults
  BY DEF DeliveryInv, TypeOK
<1>2. OnClose(s) /\ UNCHANGED <<trial, todo, room, served>>
  BY DEF SocketCloses, Reset, Refuse
<1>3. faults' = faults \/ (faults < MaxFaults /\ faults' = faults + 1)
  BY DEF SocketCloses, Reset, Refuse, Fault
<1>4. faults' \in 0..MaxFaults
  BY <1>1, <1>3, BoundsAssumption
<1>5. QED
  BY <1>2, <1>4, CloseStep

\* The user leaves the page.
LEMMA LeavePageStep == \A t \in Tabs : DeliveryInv /\ LeavePage(t) => DeliveryInv'
<1> SUFFICES ASSUME NEW t \in Tabs, DeliveryInv, LeavePage(t) PROVE DeliveryInv'
  OBVIOUS
<1> DEFINE r == [Closed EXCEPT !.visits = tab[t].visits]
           d(s) == [conn[s] EXCEPT !.scene = None, !.state = IF @ = "open" THEN "closing" ELSE @]
<1>1. /\ tab \in [Tabs -> Tab] /\ conn \in [Sockets -> Conn] /\ faults \in 0..MaxFaults
      /\ UNCHANGED <<trial, todo, room, served, faults>>
      /\ tab' = [tab EXCEPT ![t] = r]
      /\ conn' = [s \in Sockets |-> IF conn[s].scene # t THEN conn[s] ELSE d(s)]
  BY DEF DeliveryInv, TypeOK, LeavePage
<1>2. r \in Tab /\ r.socket = None /\ ~r.beating /\ ~r.timer
  <2>1. tab[t].visits \in 0..MaxVisits
    BY <1>1, TabFields
  <2>2. QED
    BY <2>1, ClosedTab DEF Tab
<1>3. ASSUME NEW s \in Sockets
      PROVE  /\ d(s) \in Conn /\ d(s).scene = None /\ d(s).up = conn[s].up
             /\ d(s).joined = conn[s].joined /\ d(s).stream = conn[s].stream
             /\ d(s).heard = conn[s].heard
             /\ d(s).state = IF conn[s].state = "open" THEN "closing" ELSE conn[s].state
  <2>1. conn[s] \in Conn
    BY <1>1
  <2>2. (IF conn[s].state = "open" THEN "closing" ELSE conn[s].state)
          \in {"free", "connecting", "open", "closing"}
    BY <2>1, ConnFields
  <2>3. QED
    BY <2>1, <2>2 DEF Conn
<1> HIDE DEF r, d
<1>4. tab' \in [Tabs -> Tab] /\ tab'[t] = r /\ (\A u \in Tabs \ {t} : tab'[u] = tab[u])
  BY <1>1, <1>2
<1>5. /\ conn' \in [Sockets -> Conn]
      /\ \A s \in Sockets : conn[s].scene # t => conn'[s] = conn[s]
      /\ \A s \in Sockets : conn[s].scene = t => conn'[s] = d(s)
  BY <1>1, <1>3
<1>6. TypeOK' /\ Line' /\ Wires'
  <2>1. ASSUME NEW s \in Sockets PROVE Wire(conn'[s], s \in room, s \in todo, told)
    <3>1. Wire(conn[s], s \in room, s \in todo, told)
      BY DEF DeliveryInv, Wires
    <3>2. CASE conn[s].scene # t
      BY <3>1, <3>2, <1>5
    <3>3. CASE conn[s].scene = t
      <4>1. Stream(d(s), told)
        BY <3>1, <1>3 DEF Wire, Stream
      <4>2. s \in room /\ d(s).up /\ d(s).state \in {"connecting", "open"} =>
              Delivered(d(s), IF s \in todo THEN told - 1 ELSE told)
        BY <3>1, <1>3 DEF Wire, Delivered
      <4>3. Wire(d(s), s \in room, s \in todo, told)
        BY <3>1, <4>1, <4>2, <1>3 DEF Wire
      <4>4. QED
        BY <3>3, <4>3, <1>5
    <3>4. QED
      BY <3>2, <3>3
  <2>2. QED
    BY <1>1, <1>4, <1>5, <2>1, WiresStay
<1>7. None \notin Tabs /\ None \notin Sockets
  BY NoneAssumption
<1>8. /\ \A x \in Sockets : conn[x].scene \in Tabs \union {None}
      /\ \A u \in Tabs : tab[u].socket \in Sockets \union {None}
  BY <1>1, ConnFields, TabFields
<1>9. \A x \in Sockets : conn'[x].scene # None =>
        conn[x].scene \in Tabs \ {t} /\ conn'[x] = conn[x]
  BY <1>3, <1>5, <1>7, <1>8
<1>10. Links'
  <2>1. ASSUME NEW u \in Tabs
        PROVE  /\ tab'[u].socket # None =>
                    /\ tab'[u].page = "scene" /\ ~tab'[u].timer
                    /\ conn'[tab'[u].socket].scene = u
               /\ tab'[u].timer => tab'[u].page = "scene"
               /\ tab'[u].beating => tab'[u].socket # None
               /\ tab'[u].beating /\ tab'[u].missed = 2 =>
                    conn'[tab'[u].socket].state = "closing"
    <3>1. CASE u = t
      BY <3>1, <1>2, <1>4
    <3>2. CASE u # t
      <4>0. /\ tab[u].socket # None =>
                 tab[u].page = "scene" /\ ~tab[u].timer /\ conn[tab[u].socket].scene = u
            /\ tab[u].timer => tab[u].page = "scene"
            /\ tab[u].beating => tab[u].socket # None
            /\ tab[u].beating /\ tab[u].missed = 2 => conn[tab[u].socket].state = "closing"
        BY DEF DeliveryInv, Links
      <4>1. tab'[u] = tab[u]
        BY <3>2, <1>4
      <4>2. tab[u].socket # None => conn'[tab[u].socket] = conn[tab[u].socket]
        BY <3>2, <4>0, <1>5, <1>8
      <4>3. QED
        BY <4>0, <4>1, <4>2
    <3>3. QED
      BY <3>1, <3>2
  <2>2. ASSUME NEW x \in Sockets, conn'[x].scene # None
        PROVE  tab'[conn'[x].scene].socket = x
    <3>1. conn[x].scene \in Tabs \ {t} /\ conn'[x] = conn[x]
      BY <2>2, <1>9
    <3>2. tab'[conn[x].scene] = tab[conn[x].scene]
      BY <3>1, <1>4
    <3>3. QED
      BY <2>2, <3>1, <3>2 DEF DeliveryInv, Links
  <2>3. QED
    BY <2>1, <2>2 DEF Links
<1>11. Views'
  <2> SUFFICES ASSUME NEW x \in Sockets, conn'[x].scene # None
               PROVE  Seen(conn'[x], tab'[conn'[x].scene].view)
    BY DEF Views
  <2>1. conn[x].scene \in Tabs \ {t} /\ conn'[x] = conn[x]
    BY <1>9
  <2>2. tab'[conn[x].scene] = tab[conn[x].scene]
    BY <2>1, <1>4
  <2>3. QED
    BY <2>1, <2>2 DEF DeliveryInv, Views
<1>12. QED
  BY <1>6, <1>10, <1>11 DEF DeliveryInv

--------------------------------------------------------------------------------
(* The invariant holds. *)

\* Every step preserves the invariant.
LEMMA DeliveryInvStep == DeliveryInv /\ [Next]_vars => DeliveryInv'
<1> SUFFICES ASSUME DeliveryInv, [Next]_vars PROVE DeliveryInv'
  OBVIOUS
<1>1. CASE Write \/ Tell \/ Restart
  BY <1>1, WriteStep, TellStep, RestartStep
<1>2. ASSUME NEW s \in Sockets, Skip(s) \/ WriteMessage(s) \/ SwallowMessage(s) \/ DropClient(s)
      PROVE  DeliveryInv'
  BY <1>2, SkipStep, WriteMessageStep, SwallowStep, DropStep
<1>3. ASSUME NEW s \in Sockets, Join(s) \/ Leave(s) \/ Opened(s) \/ Hear(s)
      PROVE  DeliveryInv'
  BY <1>3, JoinStep, LeaveStep, OpenedStep, HearStep
<1>4. ASSUME NEW s \in Sockets, SocketCloses(s) \/ Break(s) \/ Reset(s) \/ Refuse(s)
      PROVE  DeliveryInv'
  BY <1>4, EndStep, BreakStep
<1>5. ASSUME NEW t \in Tabs, OpenPage(t) \/ HydrateSession(t) \/ MountScene(t)
      PROVE  DeliveryInv'
  BY <1>5, OpenPageStep, HydrateStep, MountStep
<1>6. ASSUME NEW t \in Tabs, Connect(t) \/ Beat(t) \/ LeavePage(t)
      PROVE  DeliveryInv'
  BY <1>6, ConnectStep, BeatStep, LeavePageStep
<1>7. CASE UNCHANGED vars
  <2>1. conn' = conn /\ tab' = tab /\ UNCHANGED <<written, told, todo, room, served, faults>>
    BY <1>7 DEF vars, trial
  <2>2. TypeOK' /\ Line' /\ Wires'
    BY <2>1 DEF DeliveryInv, TypeOK, Line, Wires
  <2>3. Links' /\ Views'
    BY <2>1, NothingStays
  <2>4. QED
    BY <2>2, <2>3 DEF DeliveryInv
<1>8. QED
  BY <1>1, <1>2, <1>3, <1>4, <1>5, <1>6, <1>7 DEF Next

\* Every reachable state satisfies the invariant.
THEOREM DeliveryInvariant == Spec => []DeliveryInv
<1>1. QED
  BY InitInv, DeliveryInvStep, PTL DEF Spec

\* Every variable keeps its type: no stream is longer than the script, no
\* heartbeat counts a third missed pong.
THEOREM TypeCorrect == Spec => []TypeOK
<1>1. DeliveryInv => TypeOK
  BY DEF DeliveryInv
<1>2. QED
  BY <1>1, DeliveryInvariant, PTL

\* Broadcast (hub.go:121-151): a client whose connection works has been sent
\* every event since it joined, in order and once, whatever else joins, leaves,
\* stalls or is dropped in the middle of a broadcast.
THEOREM BroadcastReaches == Spec => []EveryoneHears
<1>1. DeliveryInv => EveryoneHears
  <2> SUFFICES ASSUME DeliveryInv, NEW s \in room, conn[s].up, conn[s].state = "open"
               PROVE  LET sent == conn[s].stream
                          last == IF s \in todo THEN told - 1 ELSE told
                      IN /\ \A i \in 1..(Len(sent) - 1) : sent[i + 1] = sent[i] + 1
                         /\ IF sent = <<>> THEN conn[s].joined >= last
                            ELSE sent[Len(sent)] = last /\ sent[1] <= conn[s].joined + 1
    BY DEF EveryoneHears
  <2>1. s \in Sockets
    BY DEF DeliveryInv, TypeOK
  <2>2. Stream(conn[s], told) /\ Delivered(conn[s], IF s \in todo THEN told - 1 ELSE told)
    BY <2>1 DEF DeliveryInv, Wires, Wire
  <2>3. QED
    BY <2>2 DEF Stream, Delivered
<1>2. QED
  BY <1>1, DeliveryInvariant, PTL

\* CourtWebSocket: timer, heartbeat and onclose together never give a scene two
\* connections, or one and a second being scheduled.
THEOREM OneSocketPerScene == Spec => []OneConnection
<1>1. DeliveryInv => OneConnection
  <2> SUFFICES ASSUME DeliveryInv, NEW t \in Tabs
               PROVE  LET own == {s \in Sockets : conn[s].scene = t}
                      IN Cardinality(own) + (IF tab[t].timer THEN 1 ELSE 0) <= 1
    BY DEF OneConnection
  <2> DEFINE own == {s \in Sockets : conn[s].scene = t}
  <2>1. \A s \in own : tab[t].socket = s /\ s # None /\ ~tab[t].timer
    BY NoneAssumption DEF DeliveryInv, Links
  <2>2. CASE own = {}
    <3>1. Cardinality(own) = 0
      BY <2>2, FS_EmptySet
    <3>2. QED
      BY <3>1
  <2>3. CASE own # {}
    <3>1. PICK s : s \in own
      BY <2>3
    <3>2. own = {s} /\ ~tab[t].timer
      BY <3>1, <2>1
    <3>3. Cardinality(own) = 1
      BY <3>2, FS_Singleton
    <3>4. QED
      BY <3>2, <3>3
  <2>4. QED
    BY <2>2, <2>3
<1>2. QED
  BY <1>1, DeliveryInvariant, PTL

\* A page that was in the room when the trial last changed its phase, and has
\* nothing left to hear, shows that phase, and the way on exactly if the trial
\* waits for the user.
THEOREM PageFollowsTrial == Spec => []ViewFollows
<1>1. DeliveryInv => ViewFollows
  <2> SUFFICES ASSUME DeliveryInv, NEW t \in Tabs, Settled(t),
                      NEW i \in (conn[tab[t].socket].joined + 1)..told, Script[i] \in PhaseNames
               PROVE  /\ tab[t].view.phase = PhaseAt(told)
                      /\ tab[t].view.waiting <=> Script[told] = "waiting"
    BY DEF ViewFollows
  <2>1. PICK s : s = tab[t].socket
    OBVIOUS
  <2>2. s \in Sockets /\ told \in 1..6 /\ conn[s] \in Conn
    BY <2>1, TheScript, TabFields DEF DeliveryInv, TypeOK, Settled
  <2>3. conn[s].scene = t
    BY <2>1 DEF DeliveryInv, Links, Settled
  <2>4. /\ conn[s].state = "open" /\ s \in room /\ conn[s].up
        /\ conn[s].heard = Len(conn[s].stream) /\ s \notin todo
    BY <2>1 DEF Settled
  <2>5. Delivered(conn[s], told)
    BY <2>2, <2>4 DEF DeliveryInv, Wires, Wire
  <2>6. conn[s].joined \in 0..6 /\ i \in (conn[s].joined + 1)..told
    BY <2>1, <2>2, ConnFields
  <2>7. conn[s].stream # <<>>
    BY <2>2, <2>5, <2>6 DEF Delivered
  <2>8. /\ Len(conn[s].stream) \in Nat /\ Len(conn[s].stream) > 0
        /\ conn[s].stream[1] \in 1..6
    <3>1. conn[s].stream \in Seq(1..6) /\ Len(conn[s].stream) \in Nat
      BY <2>2, ConnFields
    <3>2. Len(conn[s].stream) > 0
      BY <2>7, <3>1, EmptySeq
    <3>3. 1 \in 1..Len(conn[s].stream)
      BY <3>1, <3>2
    <3>4. QED
      BY <3>1, <3>2, <3>3, <2>2, ConnFields
  <2>9. conn[s].stream[conn[s].heard] = told /\ conn[s].stream[1] <= conn[s].joined + 1
    BY <2>4, <2>5, <2>7 DEF Delivered
  <2>10. i \in conn[s].stream[1]..conn[s].stream[conn[s].heard] /\ conn[s].heard > 0
    BY <2>2, <2>4, <2>6, <2>8, <2>9
  <2>11. Seen(conn[s], tab[t].view)
    BY <2>2, <2>3, NoneAssumption DEF DeliveryInv, Views
  <2>12. QED
    BY <2>9, <2>10, <2>11 DEF Seen
<1>2. QED
  BY <1>1, DeliveryInvariant, PTL
================================================================================
