-------------------------------- MODULE Delivery -------------------------------
(***************************************************************************)
(* From the trial to the page.  The trial broadcasts events to the room of *)
(* its session (api/hub.go); the handler of every connection joins the     *)
(* room, answers pings and leaves (api/websocket.go); a browser tab loads  *)
(* the trial (app/court/[id]/page.tsx, lib/courtroomHydrate.ts), keeps a   *)
(* socket open with a heartbeat and reconnects (lib/websocket.ts), and     *)
(* applies what it hears (CourtroomScene.tsx, courtroomStore.ts).          *)
(*                                                                         *)
(* How the trial gets from one event to the next is CourtTrial's subject:  *)
(* here it broadcasts the events of Script one after the other, as the     *)
(* holder of the session lock does.  Where bytes get through a ping is     *)
(* answered before the next is sent (25 s), and what the room gets to see  *)
(* of it, a pong, changes nothing.  Of time only the order is modelled.    *)
(***************************************************************************)
EXTENDS Naturals, Sequences, FiniteSets

CONSTANTS
  Tabs,
  Sockets,     \* bound: connections that exist at one time
  None,        \* no socket, or no scene
  Begun,       \* events broadcast before the first page is opened
  Until,       \* bound: the last event that is broadcast
  MaxFaults,   \* bound: connections that die, stall or are refused
  MaxVisits    \* bound: times a tab opens the page

\* What moves the page: a new phase, that the trial waits for the user, that
\* the verdict can be fetched.
Script == <<"opening", "waiting", "cross_exam", "waiting", "verdict", "ready">>
PhaseNames == {"opening", "cross_exam", "verdict"}

ASSUME NoneAssumption == None \notin Sockets \union Tabs
ASSUME BegunAssumption == Until \in 1..Len(Script) /\ Begun \in 1..Until
ASSUME BoundsAssumption == MaxFaults \in Nat /\ MaxVisits \in Nat

VARIABLES
  written,     \* events whose rows are written
  told,        \* events whose broadcast has begun
  todo,        \* the members of the room the broadcast has still to visit
  room,        \* Hub.rooms, of this session
  served,      \* sockets the server has open
  conn,        \* of a socket: both ends and what is between them
  tab,         \* of a tab: the page, its CourtWebSocket and its store
  faults

trial == <<written, told>>
vars == <<trial, todo, room, served, conn, tab, faults>>

View == [phase : PhaseNames \union {"none"}, waiting : BOOLEAN, ready : BOOLEAN]
Blank == [phase |-> "none", waiting |-> FALSE, ready |-> FALSE]

\* state: readyState, "free" when closed; scene: whose handlers are called;
\* heard: how much of stream the browser has handled; up: bytes get through
\* and are read.
Conn == [state : {"free", "connecting", "open", "closing"}, scene : Tabs \union {None},
         joined : 0..Len(Script), stream : Seq(1..Len(Script)), heard : 0..Len(Script),
         up : BOOLEAN]
Fresh == [state |-> "free", scene |-> None, joined |-> 0, stream |-> <<>>, heard |-> 0,
          up |-> TRUE]

\* page: gone, about to read the session, reading the rest, or the scene is
\* mounted; timer: an attempt to connect is scheduled.
Tab == [page : {"gone", "session", "rest", "scene"}, socket : Sockets \union {None},
        timer : BOOLEAN, beating : BOOLEAN, missed : 0..2, view : View, visits : 0..MaxVisits]
Closed == [page |-> "gone", socket |-> None, timer |-> FALSE, beating |-> FALSE,
           missed |-> 0, view |-> Blank, visits |-> 0]

Init ==
  /\ written = Begun /\ told = Begun
  /\ todo = {} /\ room = {} /\ served = {}
  /\ conn = [s \in Sockets |-> Fresh]
  /\ tab = [t \in Tabs |-> Closed]
  /\ faults = 0

--------------------------------------------------------------------------------
(* The trial: the row is written, then the event is broadcast. *)

Write ==
  /\ written = told /\ todo = {} /\ written < Until
  /\ written' = written + 1
  /\ UNCHANGED <<told, todo, room, served, conn, tab, faults>>

\* Broadcast reads the room's map under the lock and iterates it without.  When
\* the runtime notices that it is changed meanwhile it stops the process, which
\* is Restart.
Tell ==
  /\ told < written
  /\ told' = written
  /\ todo' = room
  /\ UNCHANGED <<written, room, served, conn, tab, faults>>

--------------------------------------------------------------------------------
(* The hub. *)

\* The iteration does not come to a member that has left meanwhile.
Skip(s) ==
  /\ s \in todo \ room
  /\ todo' = todo \ {s}
  /\ UNCHANGED <<trial, room, served, conn, tab, faults>>

Listens(s) == conn[s].state \in {"connecting", "open"}

WriteMessage(s) ==
  /\ s \in todo \intersect room
  /\ conn[s].up
  /\ todo' = todo \ {s}
  /\ conn' = IF Listens(s) THEN [conn EXCEPT ![s].stream = Append(@, told)] ELSE conn
  /\ UNCHANGED <<trial, room, served, tab, faults>>

\* A dead connection takes frames as long as there is room in its buffers.
SwallowMessage(s) ==
  /\ s \in todo \intersect room
  /\ ~conn[s].up
  /\ todo' = todo \ {s}
  /\ UNCHANGED <<trial, room, served, conn, tab, faults>>

\* Mutant: the loop returns where it should go on to the next client.
DropEndsLoop(s) ==
  /\ s \in todo \intersect room
  /\ ~conn[s].up
  /\ todo' = {}
  /\ room' = room \ {s} /\ served' = served \ {s}
  /\ UNCHANGED <<trial, conn, tab, faults>>

\* Mutant: no write deadline.
NeverDropClient(s) == FALSE /\ UNCHANGED vars

\* The write fails, after writeTimeout at the latest: Leave and Close.
DropClient(s) ==
  /\ s \in todo \intersect room
  /\ ~conn[s].up \/ ~Listens(s)
  /\ todo' = todo \ {s}
  /\ room' = room \ {s} /\ served' = served \ {s}
  /\ UNCHANGED <<trial, conn, tab, faults>>

--------------------------------------------------------------------------------
(* The handler of a connection. *)

\* Upgrade and Join.  A broadcast that is under way may or may not come to
\* the new member of the map.
Join(s) ==
  /\ conn[s].state = "connecting" /\ s \notin served /\ conn[s].up
  /\ served' = served \union {s} /\ room' = room \union {s}
  /\ conn' = [conn EXCEPT ![s].joined = told]
  /\ \/ UNCHANGED todo
     \/ todo # {} /\ todo' = todo \union {s}
  /\ UNCHANGED <<trial, tab, faults>>

\* The read loop ends, because the browser has closed or, if nothing is being
\* sent, because the connection is found to be dead: Leave and Close.
Leave(s) ==
  /\ s \in served
  /\ IF conn[s].up THEN ~Listens(s) ELSE s \notin todo
  /\ room' = room \ {s} /\ served' = served \ {s}
  /\ UNCHANGED <<trial, todo, conn, tab, faults>>

--------------------------------------------------------------------------------
(* The page: app/court/[id]/page.tsx, CourtroomScene and the store. *)

\* What the row says when the first n events have been written.
PhaseAt(n) == Script[CHOOSE i \in 1..n :
                /\ Script[i] \in PhaseNames
                /\ \A j \in (i + 1)..n : Script[j] \notin PhaseNames]

\* The page opens; reset() empties the store.
OpenPage(t) ==
  /\ tab[t].page = "gone" /\ tab[t].visits < MaxVisits
  /\ tab' = [tab EXCEPT ![t] = [Closed EXCEPT !.page = "session", !.visits = tab[t].visits + 1]]
  /\ UNCHANGED <<trial, todo, room, served, conn, faults>>

HydrateSession(t) ==
  /\ tab[t].page = "session"
  /\ tab' = [tab EXCEPT ![t].page = "rest", ![t].view.phase = PhaseAt(written)]
  /\ UNCHANGED <<trial, todo, room, served, conn, faults>>

\* With the last of the responses the scene is mounted, whose CourtWebSocket
\* connects when it has a token.
MountScene(t) ==
  /\ tab[t].page = "rest"
  /\ tab' = [tab EXCEPT ![t].page = "scene", ![t].timer = TRUE]
  /\ UNCHANGED <<trial, todo, room, served, conn, faults>>

\* Mutant: a new phase does not end the waiting.
ApplyKeepsWaiting(v, event) ==
  [v EXCEPT !.phase = IF event \in PhaseNames THEN event ELSE @,
            !.waiting = @ \/ event = "waiting",
            !.ready = @ \/ event = "ready"]

\* applyCourtEvent and the scene's handler.
Apply(v, event) ==
  [v EXCEPT !.phase = IF event \in PhaseNames THEN event ELSE @,
            !.waiting = event \notin PhaseNames /\ (@ \/ event = "waiting"),
            !.ready = @ \/ event = "ready"]

--------------------------------------------------------------------------------
(* The socket: CourtWebSocket. *)

Idle(s) == conn[s].state = "free" /\ s \notin served \union todo

\* connectRealSocket, first with a token and later by the reconnect timer.
Connect(t) ==
  /\ tab[t].timer
  /\ \E s \in Sockets :
       /\ Idle(s)
       /\ conn' = [conn EXCEPT ![s] = [Fresh EXCEPT !.state = "connecting", !.scene = t]]
       /\ tab' = [tab EXCEPT ![t].timer = FALSE, ![t].socket = s]
  /\ UNCHANGED <<trial, todo, room, served, faults>>

\* onopen.  When the scene has gone, disconnect has replaced the handler by
\* one that closes realSocket, which disconnect has set to null.
Opened(s) ==
  /\ conn[s].state = "connecting" /\ s \in served
  /\ conn' = [conn EXCEPT ![s].state = "open"]
  /\ tab' = [t \in Tabs |-> IF conn[s].scene = t
                            THEN [tab[t] EXCEPT !.missed = 0, !.beating = TRUE] ELSE tab[t]]
  /\ UNCHANGED <<trial, todo, room, served, faults>>

Hear(s) ==
  /\ conn[s].state = "open" /\ conn[s].up /\ conn[s].heard < Len(conn[s].stream)
  /\ conn' = [conn EXCEPT ![s].heard = @ + 1]
  /\ LET event == Script[conn[s].stream[conn[s].heard + 1]]
     IN tab' = [t \in Tabs |-> IF conn[s].scene = t
                              THEN [tab[t] EXCEPT !.view = Apply(@, event)] ELSE tab[t]]
  /\ UNCHANGED <<trial, todo, room, served, faults>>

Unanswered(t) ==
  /\ tab[t].beating
  /\ LET c == conn[tab[t].socket] IN c.state = "open" /\ ~c.up

\* Mutant: no missed pong is too many.
BeatOnly(t) ==
  /\ Unanswered(t)
  /\ tab' = [tab EXCEPT ![t].missed = @ + 1]
  /\ UNCHANGED <<trial, todo, room, served, conn, faults>>

\* Mutant: the heartbeat reconnects at once and does not wait for onclose.
BeatReconnects(t) ==
  /\ Unanswered(t)
  /\ LET dead == tab[t].missed + 1 >= 2
         next == IF dead THEN "closing" ELSE "open"
     IN /\ tab' = [tab EXCEPT ![t].missed = @ + 1, ![t].timer = dead]
        /\ conn' = [conn EXCEPT ![tab[t].socket].state = next]
  /\ UNCHANGED <<trial, todo, room, served, faults>>

\* A ping that gets no pong; at the second the socket is closed.
Beat(t) ==
  /\ Unanswered(t)
  /\ LET next == IF tab[t].missed + 1 >= 2 THEN "closing" ELSE "open"
     IN /\ tab' = [tab EXCEPT ![t].missed = @ + 1]
        /\ conn' = [conn EXCEPT ![tab[t].socket].state = next]
  /\ UNCHANGED <<trial, todo, room, served, faults>>

\* Mutant: onclose does not schedule a reconnect.
HangUp(s) ==
  /\ conn' = [conn EXCEPT ![s] = [Fresh EXCEPT !.up = conn[s].up]]
  /\ tab' = [t \in Tabs |-> IF conn[s].scene = t
                            THEN [tab[t] EXCEPT !.socket = None, !.beating = FALSE]
                            ELSE tab[t]]

\* onclose: stopHeartbeat, scheduleReconnect.
OnClose(s) ==
  /\ conn' = [conn EXCEPT ![s] = [Fresh EXCEPT !.up = conn[s].up]]
  /\ tab' = [t \in Tabs |-> IF conn[s].scene = t
                            THEN [tab[t] EXCEPT !.socket = None, !.beating = FALSE, !.timer = TRUE]
                            ELSE tab[t]]

\* The browser has closed, the handshake times out, or the server's close
\* arrives behind the frames it has sent.
SocketCloses(s) ==
  /\ \/ conn[s].state = "closing"
     \/ conn[s].state = "connecting" /\ ~conn[s].up
     \/ /\ conn[s].state = "open" /\ s \notin served /\ conn[s].up
        /\ conn[s].heard = Len(conn[s].stream)
  /\ OnClose(s)
  /\ UNCHANGED <<trial, todo, room, served, faults>>

\* Cleanup of the scene's effect: off, disconnect.
LeavePage(t) ==
  /\ tab[t].page = "scene"
  /\ tab' = [tab EXCEPT ![t] = [Closed EXCEPT !.visits = tab[t].visits]]
  /\ conn' = [s \in Sockets |->
       IF conn[s].scene # t THEN conn[s]
       ELSE [conn[s] EXCEPT !.scene = None,
                            !.state = IF @ = "open" THEN "closing" ELSE @]]
  /\ UNCHANGED <<trial, todo, room, served, faults>>

--------------------------------------------------------------------------------
(* What goes wrong. *)

Fault == faults < MaxFaults /\ faults' = faults + 1

\* A middlebox forgets the connection, the cable is pulled, the peer stops
\* reading: nobody is told.
Break(s) ==
  /\ conn[s].state # "free" /\ conn[s].up /\ Fault
  /\ conn' = [conn EXCEPT ![s].up = FALSE]
  /\ UNCHANGED <<trial, todo, room, served, tab>>

\* The browser does notice.
Reset(s) ==
  /\ conn[s].state = "open" /\ ~conn[s].up
  /\ OnClose(s)
  /\ UNCHANGED <<trial, todo, room, served, faults>>

\* 401, 404, 503, or nobody listens.
Refuse(s) ==
  /\ conn[s].state = "connecting" /\ s \notin served /\ Fault
  /\ OnClose(s)
  /\ UNCHANGED <<trial, todo, room, served>>

\* The server stops, with whatever it was sending, and starts again.
Restart ==
  /\ Fault
  /\ room' = {} /\ served' = {} /\ todo' = {}
  /\ told' = written
  /\ conn' = [s \in Sockets |->
       IF conn[s].state = "connecting" /\ s \in served
       THEN [conn[s] EXCEPT !.state = "closing"] ELSE conn[s]]
  /\ UNCHANGED <<written, tab>>

--------------------------------------------------------------------------------
Next ==
  \/ Write \/ Tell \/ Restart
  \/ \E s \in Sockets :
       Skip(s) \/ WriteMessage(s) \/ SwallowMessage(s) \/ DropClient(s)
       \/ Join(s) \/ Leave(s) \/ Opened(s) \/ Hear(s)
       \/ SocketCloses(s) \/ Break(s) \/ Reset(s) \/ Refuse(s)
  \/ \E t \in Tabs :
       OpenPage(t) \/ HydrateSession(t) \/ MountScene(t) \/ Connect(t) \/ Beat(t) \/ LeavePage(t)

Spec == Init /\ [][Next]_vars

\* Goroutines and the browser's event loop run, timers fire, and a handshake
\* that meets no fault succeeds.  No trial has to go on and nobody has to
\* open or leave a page.
Fairness ==
  /\ \A s \in Sockets :
       WF_vars(Skip(s) \/ WriteMessage(s) \/ DropClient(s))
       /\ WF_vars(Join(s) \/ Leave(s)) /\ WF_vars(Opened(s) \/ SocketCloses(s))
       /\ WF_vars(Hear(s))
  /\ \A t \in Tabs :
       WF_vars(HydrateSession(t) \/ MountScene(t)) /\ WF_vars(Connect(t)) /\ WF_vars(Beat(t))

FairSpec == Spec /\ Fairness

--------------------------------------------------------------------------------
TypeOK ==
  /\ written \in 1..Len(Script) /\ told \in 1..Len(Script)
  /\ todo \in SUBSET Sockets
  /\ room \in SUBSET Sockets /\ served \in SUBSET Sockets
  /\ conn \in [Sockets -> Conn] /\ tab \in [Tabs -> Tab]
  /\ faults \in 0..MaxFaults

\* A client whose connection works has been sent every event since it joined,
\* in order and once, up to the one being broadcast: whatever else joins,
\* leaves, stalls or is dropped (hub.go:121-151).
EveryoneHears ==
  \A s \in room : conn[s].up /\ conn[s].state = "open" =>
    LET sent == conn[s].stream
        last == IF s \in todo THEN told - 1 ELSE told
    IN /\ \A i \in 1..(Len(sent) - 1) : sent[i + 1] = sent[i] + 1
       /\ IF sent = <<>> THEN conn[s].joined >= last
          ELSE sent[Len(sent)] = last /\ sent[1] <= conn[s].joined + 1

\* A scene has one connection, or one coming: the timer, the heartbeat and
\* onclose never make two (websocket.ts, scheduleReconnect).
OneConnection ==
  \A t \in Tabs :
    LET own == {s \in Sockets : conn[s].scene = t}
    IN Cardinality(own) + (IF tab[t].timer THEN 1 ELSE 0) <= 1

\* The scene is connected and has applied all there is to hear.
Settled(t) ==
  /\ tab[t].page = "scene" /\ tab[t].socket # None
  /\ LET s == tab[t].socket
     IN /\ conn[s].state = "open" /\ s \in room /\ conn[s].up
        /\ conn[s].heard = Len(conn[s].stream) /\ s \notin todo
  /\ written = told

\* A page that was in the room when the trial last changed its phase shows
\* that phase, and the way on exactly if the trial waits for the user.
ViewFollows ==
  \A t \in Tabs : Settled(t) =>
    \A i \in (conn[tab[t].socket].joined + 1)..told :
      Script[i] \in PhaseNames =>
        /\ tab[t].view.phase = PhaseAt(told)
        /\ tab[t].view.waiting <=> Script[told] = "waiting"

\* A broadcast ends, though clients stop reading (hub.go, writeTimeout): it is
\* made by a goroutine that holds the session lock.
BroadcastEnds == todo # {} ~> todo = {}

\* As long as the scene is shown it gets its place in the room again and
\* again, also from a connection that died silently.
Connected(t) ==
  /\ tab[t].socket # None
  /\ LET s == tab[t].socket IN conn[s].state = "open" /\ conn[s].up /\ s \in room
StaysConnected == \A t \in Tabs : []<>(tab[t].page = "scene" => Connected(t))
================================================================================
