---------------------------- MODULE Admission_proofs ---------------------------
(***************************************************************************)
(* What TLAPS proves of starting a trial (Admission), for every limit,     *)
(* every length of a day and a week, any number of requests and sessions.  *)
(*                                                                         *)
(* The quota keeps its times in a list it prunes when it is asked and once *)
(* an hour, for another age.  The invariant relates that list to the       *)
(* history: what of it lies within the last day is exactly what the quota  *)
(* let pass.  Clock, gc and Allow keep that, by what Filters_proofs says   *)
(* of sequences filtered twice; the list is in order, so that its head is  *)
(* the oldest and Retry-After is what the head says.                       *)
(***************************************************************************)
EXTENDS Admission, Filters_proofs

\* What TypeOK says of a request.
Request == [pc : {"free", "sent", "admitted", "charged", "valid", "answered"},
            of : Sessions \cup {None},
            jwt : Times, csrf : Times, live : BOOLEAN,
            answer : {"none", "ok", "phase", "quota", "denied", "slow",
                      "unauthorized", "csrf"}]

\* The browser and the requests under way: what the quota does not depend on.
ClientOK ==
  /\ csrf \in Times /\ jwt \in Times
  /\ wants \subseteq Sessions
  /\ req \in [Requests -> Request]
  /\ phase \in [Sessions -> {"idle", "opening"}]
  /\ losses \in 0..MaxLosses

\* stamps is what the quota goes by, admitted what it let pass.
QuotaInv ==
  /\ now \in 0..MaxTime
  /\ stamps \in Seq(0..MaxTime) /\ Len(stamps) <= Limit
  /\ Rises(stamps) /\ \A x : Occurs(stamps, x) => x <= now
  /\ admitted = Kept(stamps, Recent(Day, now))
  /\ told \in 0..(MaxTime + Day)
  /\ now < told => Len(admitted) >= Limit /\ \A x : Occurs(admitted, x) => told <= x + Day

AdmissionInv == ClientOK /\ QuotaInv

\* The constants, one by one.
LEMMA Constants ==
  /\ None \notin Sessions /\ Mine \subseteq Sessions
  /\ Limit \in Nat /\ Limit > 0
  /\ Day \in Nat /\ Day > 0 /\ Week \in Nat /\ Day < Week
  /\ MaxTime \in Nat /\ MaxLosses \in Nat
  BY AdmissionAssumption DEF Sessions

--------------------------------------------------------------------------------
(* The quota. *)

\* The quota starts empty.
LEMMA QuotaInit == Init => QuotaInv
<1> SUFFICES ASSUME Init PROVE QuotaInv
  OBVIOUS
<1>1. stamps = <<>> /\ admitted = <<>> /\ told = 0 /\ now = 0
  BY DEF Init
<1>2. /\ <<>> \in Seq(0..MaxTime) /\ Len(<<>>) = 0
      /\ Kept(<<>>, Recent(Day, now)) = <<>>
  BY EmptySeq, KeptEmpty
<1>3. Rises(<<>>) /\ \A x : ~Occurs(<<>>, x)
  BY <1>2 DEF Rises, Occurs
<1>4. QED
  BY <1>1, <1>2, <1>3, Constants DEF QuotaInv

\* The step does not concern the quota.
LEMMA QuotaStays == QuotaInv /\ UNCHANGED <<now, stamps, told, admitted>> => QuotaInv'
  BY DEF QuotaInv

\* The history has no more entries than the list, and only recent ones.
LEMMA QuotaFacts ==
  ASSUME QuotaInv
  PROVE  /\ stamps \in Seq(Nat)
         /\ admitted \in Seq(0..MaxTime) /\ Len(admitted) \in Nat
         /\ Len(admitted) <= Limit /\ Len(stamps) \in Nat
         /\ \A x : Occurs(admitted, x) => Occurs(stamps, x) /\ x \in Recent(Day, now)
<1>1. /\ stamps \in Seq(0..MaxTime) /\ Len(stamps) <= Limit
      /\ admitted = Kept(stamps, Recent(Day, now))
  BY DEF QuotaInv
<1>2. admitted \in Seq(0..MaxTime) /\ Len(admitted) <= Len(stamps)
  BY <1>1, KeptType
<1>3. Len(admitted) \in Nat /\ Len(stamps) \in Nat
  BY <1>1, <1>2, LenProperties
<1>4. \A x : Occurs(admitted, x) => Occurs(stamps, x) /\ x \in Recent(Day, now)
  BY <1>1, KeptElements
<1>5. stamps \in Seq(Nat)
  BY <1>1, Constants, SeqDef
<1>6. QED
  BY <1>1, <1>2, <1>3, <1>4, <1>5, Constants

\* An hour passes: what leaves the day leaves the history; while a refusal
\* still stands, nothing does.
LEMMA QuotaTick ==
  ASSUME QuotaInv, now' = now + 1, now < MaxTime, stamps' = stamps, told' = told,
         admitted' = Kept(admitted, Recent(Day, now'))
  PROVE  QuotaInv'
<1> DEFINE W == Recent(Day, now)
           V == Recent(Day, now')
<1>1. /\ now \in 0..MaxTime /\ stamps \in Seq(0..MaxTime) /\ admitted = Kept(stamps, W)
      /\ \A x : Occurs(stamps, x) => x <= now
      /\ Rises(stamps) /\ Len(stamps) <= Limit
      /\ told \in 0..(MaxTime + Day)
      /\ now < told => Len(admitted) >= Limit /\ \A x : Occurs(admitted, x) => told <= x + Day
  BY DEF QuotaInv
<1>2. W \cap V = V
  BY <1>1, Constants DEF Recent
<1>3. admitted' = Kept(stamps, V)
  <2> HIDE DEF W, V
  <2>1. Kept(Kept(stamps, W), V) = Kept(stamps, W \cap V)
    BY <1>1, KeptKept
  <2>2. QED
    BY <1>1, <1>2, <2>1 DEF V
<1>4. now' \in 0..MaxTime /\ \A x \in 0..MaxTime : x <= now => x <= now'
  BY <1>1, Constants
<1>5. \A x : Occurs(stamps', x) => x <= now'
  <2>1. \A x : Occurs(stamps, x) => x \in 0..MaxTime
    BY <1>1, OccursType
  <2>2. QED
    BY <1>1, <1>4, <2>1
<1>6. ASSUME now' < told'
      PROVE  Len(admitted') >= Limit /\ \A x : Occurs(admitted', x) => told' <= x + Day
  <2>1. now < told /\ now + 1 < told
    BY <1>1, <1>6, Constants
  <2>2. \A x : Occurs(admitted, x) => x \in V
    <3> SUFFICES ASSUME NEW x, Occurs(admitted, x) PROVE x \in V
      OBVIOUS
    <3>1. x \in 0..MaxTime
      BY QuotaFacts DEF Recent
    <3>2. told <= x + Day
      BY <1>1, <2>1
    <3>3. QED
      BY <1>1, <2>1, <3>1, <3>2, Constants DEF Recent
  <2>3. admitted' = admitted
    <3> HIDE DEF V
    <3>1. admitted \in Seq(0..MaxTime)
      BY QuotaFacts
    <3>2. Kept(admitted, V) = admitted
      BY <2>2, <3>1, KeptAll
    <3>3. QED
      BY <3>2 DEF V
  <2>4. QED
    BY <1>1, <2>1, <2>3
<1>7. QED
  BY <1>1, <1>3, <1>4, <1>5, <1>6 DEF QuotaInv

\* The gc drops what is older than a week, which the day does not see.
LEMMA QuotaGc ==
  ASSUME QuotaInv, Gc
  PROVE  QuotaInv'
<1> DEFINE W == Recent(Day, now)
           V == Recent(Week, now)
<1>1. /\ now \in 0..MaxTime /\ stamps \in Seq(0..MaxTime) /\ admitted = Kept(stamps, W)
      /\ \A x : Occurs(stamps, x) => x <= now
      /\ Rises(stamps) /\ Len(stamps) <= Limit
      /\ told \in 0..(MaxTime + Day)
      /\ now < told => Len(admitted) >= Limit /\ \A x : Occurs(admitted, x) => told <= x + Day
  BY DEF QuotaInv
<1>2. stamps' = Kept(stamps, V) /\ now' = now /\ told' = told /\ admitted' = admitted
  BY DEF Gc, Within
<1>3. V \cap W = W
  BY <1>1, Constants DEF Recent
<1>4. stamps \in Seq(Nat)
  BY QuotaFacts
<1> HIDE DEF V
<1>5. stamps' \in Seq(0..MaxTime) /\ Len(stamps') <= Limit
  <2>1. Kept(stamps, V) \in Seq(0..MaxTime) /\ Len(Kept(stamps, V)) <= Len(stamps)
    BY <1>1, KeptType
  <2>2. Len(Kept(stamps, V)) \in Nat /\ Len(stamps) \in Nat
    BY <1>1, <2>1, LenProperties
  <2>3. QED
    BY <1>1, <1>2, <2>1, <2>2, Constants
<1>6. Rises(stamps')
  BY <1>1, <1>2, <1>4, KeptRises
<1>7. \A x : Occurs(stamps', x) => x <= now
  BY <1>1, <1>2, KeptElements
<1>8. admitted' = Kept(stamps', W)
  <2> HIDE DEF W
  <2>1. Kept(Kept(stamps, V), W) = Kept(stamps, V \cap W)
    BY <1>1, KeptKept
  <2>2. QED
    BY <1>1, <1>2, <1>3, <2>1
<1>9. QED
  BY <1>1, <1>2, <1>5, <1>6, <1>7, <1>8 DEF QuotaInv

\* A start is let pass and noted, or refused until the oldest leaves the day.
LEMMA QuotaAllow ==
  ASSUME QuotaInv, NEW r \in Requests, Allow(r)
  PROVE  QuotaInv'
<1> DEFINE W == Recent(Day, now)
           kept == Kept(stamps, W)
<1>1. /\ now \in 0..MaxTime /\ stamps \in Seq(0..MaxTime) /\ admitted = kept
      /\ \A x : Occurs(stamps, x) => x <= now
      /\ Rises(stamps)
      /\ told \in 0..(MaxTime + Day)
      /\ now < told => Len(admitted) >= Limit /\ \A x : Occurs(admitted, x) => told <= x + Day
  BY DEF QuotaInv
<1>2. /\ now' = now
      /\ Len(kept) >= Limit => stamps' = kept /\ told' = kept[1] + Day /\ admitted' = admitted
      /\ ~(Len(kept) >= Limit) =>
           stamps' = Append(kept, now) /\ admitted' = Append(admitted, now) /\ told' = told
  BY DEF Allow, Refuse, Within, Full, ComeBack
<1>3. /\ kept \in Seq(0..MaxTime) /\ Len(kept) \in Nat /\ Len(kept) <= Limit
      /\ \A x : Occurs(kept, x) => Occurs(stamps, x) /\ x \in W
  BY <1>1, QuotaFacts
<1>4. kept \in Seq(Nat) /\ Rises(kept)
  <2>1. stamps \in Seq(Nat)
    BY QuotaFacts
  <2> HIDE DEF W
  <2>2. QED
    BY <1>1, <2>1, KeptRises, KeptType
<1>5. Kept(kept, W) = kept
  <2> HIDE DEF W
  <2>1. Kept(Kept(stamps, W), W) = Kept(stamps, W \cap W)
    BY <1>1, KeptKept
  <2>2. QED
    BY <2>1
<1>6. \A x : Occurs(kept, x) => x <= now
  BY <1>1, <1>3
<1>7. now \in W /\ now \in Nat
  BY <1>1, Constants DEF Recent
<1> HIDE DEF kept, W
<1>8. CASE Len(kept) >= Limit
  <2>1. 1 \in 1..Len(kept) /\ kept[1] \in 0..MaxTime /\ Occurs(kept, kept[1])
    <3>1. 1 \in 1..Len(kept)
      BY <1>3, <1>8, Constants
    <3>2. QED
      BY <3>1, <1>3, ElementOfSeq DEF Occurs
  <2>2. told' \in 0..(MaxTime + Day)
    BY <1>2, <1>8, <2>1, Constants
  <2>3. ASSUME NEW x, Occurs(kept, x) PROVE told' <= x + Day
    <3>1. PICK j \in 1..Len(kept) : kept[j] = x
      BY <2>3 DEF Occurs
    <3>2. x \in 0..MaxTime
      BY <1>3, <3>1, ElementOfSeq
    <3>3. kept[1] <= kept[j]
      BY <1>3, <1>4, <2>1, <3>1 DEF Rises
    <3>4. QED
      BY <1>2, <1>8, <2>1, <3>1, <3>2, <3>3, Constants
  <2>4. stamps' = kept /\ admitted' = kept /\ now' = now
    BY <1>1, <1>2, <1>8
  <2>5. Recent(Day, now') = W
    BY <2>4 DEF W
  <2>6. QED
    BY <1>1, <1>3, <1>4, <1>5, <1>6, <1>8, <2>2, <2>3, <2>4, <2>5 DEF QuotaInv
<1>9. CASE ~(Len(kept) >= Limit)
  <2> DEFINE a == Append(kept, now)
  <2>1. stamps' = a /\ admitted' = a /\ now' = now /\ told' = told
    BY <1>1, <1>2, <1>9
  <2>2. a \in Seq(0..MaxTime) /\ Len(a) = Len(kept) + 1
    BY <1>1, <1>3, AppendProperties
  <2>3. Rises(a)
    BY <1>4, <1>6, <1>7, RisesAppend
  <2>4. \A x : Occurs(a, x) => x <= now
    <3>1. \A x : Occurs(a, x) <=> Occurs(kept, x) \/ x = now
      BY <1>4, <1>7, InAppend
    <3>2. QED
      BY <3>1, <1>6, <1>7
  <2>5. Kept(a, W) = a
    <3>1. Kept(a, W) = IF now \in W THEN Append(Kept(kept, W), now) ELSE Kept(kept, W)
      BY <1>4, <1>7, KeptAppend
    <3>2. QED
      BY <3>1, <1>5, <1>7
  <2> HIDE DEF a
  <2>6. ~(now < told)
    BY <1>1, <1>9
  <2>7. Recent(Day, now') = W
    BY <2>1 DEF W
  <2>8. Len(a) <= Limit
    BY <1>3, <1>9, <2>2, Constants
  <2>9. QED
    BY <1>1, <2>1, <2>2, <2>3, <2>4, <2>5, <2>6, <2>7, <2>8 DEF QuotaInv
<1>10. QED
  BY <1>8, <1>9

\* A restart forgets all.
LEMMA QuotaRestart ==
  ASSUME QuotaInv, Restart
  PROVE  QuotaInv'
<1>1. stamps' = <<>> /\ admitted' = <<>> /\ told' = 0 /\ now' = now /\ now \in 0..MaxTime
  BY DEF Restart, QuotaInv
<1>2. /\ <<>> \in Seq(0..MaxTime) /\ Len(<<>>) = 0
      /\ Kept(<<>>, Recent(Day, now)) = <<>>
  BY EmptySeq, KeptEmpty
<1>3. Rises(<<>>) /\ \A x : ~Occurs(<<>>, x)
  BY <1>2 DEF Rises, Occurs
<1>4. QED
  BY <1>1, <1>2, <1>3, Constants DEF QuotaInv

\* Every step preserves what is said of the quota.
LEMMA QuotaStep == QuotaInv /\ [Next]_vars => QuotaInv'
<1> SUFFICES ASSUME QuotaInv, [Next]_vars PROVE QuotaInv'
  OBVIOUS
<1>1. CASE Tick
  BY <1>1, QuotaTick DEF Tick
<1>2. CASE Gc
  BY <1>2, QuotaGc
<1>3. CASE Restart
  BY <1>3, QuotaRestart
<1>4. ASSUME NEW reload \in BOOLEAN, Load(reload) PROVE QuotaInv'
  BY <1>4, QuotaStays DEF Load
<1>5. ASSUME NEW r \in Requests, Serve(r) PROVE QuotaInv'
  <2>1. CASE Allow(r)
    BY <2>1, QuotaAllow
  <2>2. CASE RateLimited(r) \/ Admit(r) \/ Validate(r) \/ Open(r)
    BY <2>2, QuotaStays DEF RateLimited, Admit, Validate, Open, server
  <2>3. QED
    BY <1>5, <2>1, <2>2 DEF Serve
<1>6. ASSUME NEW r \in Requests, Receive(r) \/ Lose(r) PROVE QuotaInv'
  BY <1>6, QuotaStays DEF Receive, Lose, server
<1>7. ASSUME NEW r \in Requests, NEW s \in Sessions, Send(r, s) PROVE QuotaInv'
  BY <1>7, QuotaStays DEF Send, server
<1>8. CASE UNCHANGED vars
  BY <1>8, QuotaStays DEF vars
<1>9. QED
  BY <1>1, <1>2, <1>3, <1>4, <1>5, <1>6, <1>7, <1>8 DEF Next

--------------------------------------------------------------------------------
(* The browser and the requests. *)

\* What an action makes of the requests under way.
LEMMA RequestFields ==
  ASSUME NEW q \in Request
  PROVE  /\ q.of \in Sessions \cup {None} /\ q.jwt \in Times /\ q.csrf \in Times
         /\ q.live \in BOOLEAN
         /\ \A pc \in {"free", "sent", "admitted", "charged", "valid", "answered"} :
              [q EXCEPT !.pc = pc] \in Request
         /\ [q EXCEPT !.live = FALSE] \in Request
         /\ NoReq \in Request
<1>1. None \in Times
  BY DEF Times
<1>2. QED
  BY <1>1 DEF Request, NoReq

\* A request is answered.
LEMMA AnswerOK ==
  ASSUME req \in [Requests -> Request], NEW r \in Requests,
         NEW a \in {"none", "ok", "phase", "quota", "denied", "slow", "unauthorized", "csrf"},
         Answer(r, a)
  PROVE  req' \in [Requests -> Request]
<1> DEFINE q == [req[r] EXCEPT !.pc = "answered", !.answer = a]
           d == IF req[r].live THEN q ELSE NoReq
<1>1. req' = [req EXCEPT ![r] = d]
  BY DEF Answer
<1>2. q \in Request
  <2>1. req[r] \in Request
    OBVIOUS
  <2>2. QED
    BY <2>1 DEF Request
<1> HIDE DEF q
<1>3. d \in Request
  BY <1>2, RequestFields
<1> HIDE DEF d
<1>4. QED
  BY <1>1, <1>3

\* A request goes on to the next middleware.
LEMMA ToOK ==
  ASSUME req \in [Requests -> Request], NEW r \in Requests,
         NEW pc \in {"free", "sent", "admitted", "charged", "valid", "answered"}, To(r, pc)
  PROVE  req' \in [Requests -> Request]
<1>1. req[r] \in Request
  OBVIOUS
<1>2. [req[r] EXCEPT !.pc = pc] \in Request
  BY <1>1, RequestFields
<1>3. QED
  BY <1>2 DEF To

\* The browser starts without tokens or requests.
LEMMA ClientInit == Init => ClientOK
<1> SUFFICES ASSUME Init PROVE ClientOK
  OBVIOUS
<1>1. NoReq \in Request
  BY DEF NoReq, Request, Times
<1>2. req \in [Requests -> Request]
  BY <1>1 DEF Init
<1>3. phase \in [Sessions -> {"idle", "opening"}]
  BY DEF Init
<1>4. csrf \in Times /\ jwt \in Times /\ wants \subseteq Sessions
  BY DEF Init, Times
<1>5. losses \in 0..MaxLosses
  BY Constants DEF Init
<1>6. QED
  BY <1>2, <1>3, <1>4, <1>5 DEF ClientOK

\* The JWT a request is sent with, and the token it finds.
LEMMA Issue ==
  ASSUME ClientOK, now \in 0..MaxTime
  PROVE  /\ \A t \in EnsureAuth(jwt) : t \in Times
         /\ Issued(csrf) \in Times
  BY DEF ClientOK, EnsureAuth, AnonAuth, Issued, Times

\* Losses stay within their bound.
LEMMA LostOK ==
  ASSUME losses \in 0..MaxLosses, NEW n \in Nat, Lost(n)
  PROVE  losses' \in 0..MaxLosses
  BY Constants DEF Lost

\* Every step keeps the types of the browser and the requests.
LEMMA ClientStep == ClientOK /\ now \in 0..MaxTime /\ [Next]_vars => ClientOK'
<1> SUFFICES ASSUME ClientOK, now \in 0..MaxTime, [Next]_vars PROVE ClientOK'
  OBVIOUS
<1>r. req \in [Requests -> Request] /\ losses \in 0..MaxLosses
  BY DEF ClientOK
<1>1. CASE Tick
  BY <1>1 DEF ClientOK, Tick, Times
<1>2. CASE Gc
  BY <1>2 DEF ClientOK, Gc, browser
<1>3. CASE Restart
  <2>1. req' \in [Requests -> Request]
    <3>1. NoReq \in Request
      BY DEF NoReq, Request, Times
    <3>2. QED
      BY <1>3, <3>1 DEF Restart
  <2>2. losses' \in 0..MaxLosses
    BY <1>3, <1>r, LostOK DEF Restart
  <2>3. QED
    BY <1>3, <2>1, <2>2 DEF ClientOK, Restart, browser
<1>4. ASSUME NEW reload \in BOOLEAN, Load(reload) PROVE ClientOK'
  <2> DEFINE abandoned == IF reload /\ \E r \in Requests : req[r].live THEN 1 ELSE 0
  <2>0. abandoned \in Nat
    OBVIOUS
  <2>1. PICK t \in EnsureAuth(jwt) :
          /\ jwt' = t
          /\ \/ Lost(abandoned + Failed(t)) /\ UNCHANGED csrf
             \/ t # None /\ Lost(abandoned) /\ csrf' = Issued(csrf)
    BY <1>4 DEF Load
  <2> HIDE DEF abandoned
  <2>2. abandoned + Failed(t) \in Nat
    BY <2>0 DEF Failed
  <2>3. losses' \in 0..MaxLosses
    BY <1>r, <2>0, <2>1, <2>2, LostOK
  <2>4. jwt' \in Times /\ csrf' \in Times
    BY <2>1, Issue DEF ClientOK
  <2>5. req' \in [Requests -> Request]
    <3>1. \A r \in Requests : Orphan(req[r]) \in Request
      BY <1>r, RequestFields DEF Orphan
    <3>2. QED
      BY <1>4, <1>r, <3>1 DEF Load
  <2>6. wants' = wants /\ phase' = phase
    BY <1>4 DEF Load
  <2>7. QED
    BY <2>3, <2>4, <2>5, <2>6 DEF ClientOK
<1>5. ASSUME NEW r \in Requests, Serve(r) PROVE ClientOK'
  <2>1. UNCHANGED <<browser, losses>>
    BY <1>5 DEF Serve, RateLimited, Admit, Allow, Validate, Open
  <2>2. phase' \in [Sessions -> {"idle", "opening"}]
    BY <1>5 DEF Serve, RateLimited, Admit, Allow, Validate, Open, server, ClientOK
  <2>3. req' \in [Requests -> Request]
    <3>1. CASE RateLimited(r)
      BY <1>r, <3>1, AnswerOK DEF RateLimited
    <3>2. CASE Admit(r)
      BY <1>r, <3>2, AnswerOK, ToOK DEF Admit
    <3>3. CASE Allow(r)
      BY <1>r, <3>3, AnswerOK, ToOK DEF Allow, Refuse
    <3>4. CASE Validate(r)
      BY <1>r, <3>4, AnswerOK, ToOK DEF Validate
    <3>5. CASE Open(r)
      BY <1>r, <3>5, AnswerOK DEF Open
    <3>6. QED
      BY <1>5, <3>1, <3>2, <3>3, <3>4, <3>5 DEF Serve
  <2>4. QED
    BY <2>1, <2>2, <2>3 DEF ClientOK, browser
<1>6. ASSUME NEW r \in Requests, Receive(r) PROVE ClientOK'
  <2>1. jwt' \in {None, jwt} /\ wants' \in SUBSET wants
    BY <1>6 DEF Receive, ClientOK
  <2>2. req' \in [Requests -> Request]
    BY <1>6, <1>r, RequestFields DEF Receive
  <2>3. UNCHANGED <<csrf, phase, losses>>
    BY <1>6 DEF Receive, server
  <2>4. QED
    BY <2>1, <2>2, <2>3 DEF ClientOK, Times
<1>7. ASSUME NEW r \in Requests, Lose(r) PROVE ClientOK'
  <2>1. req' \in [Requests -> Request]
    BY <1>7, <1>r, RequestFields DEF Lose
  <2>2. losses' \in 0..MaxLosses
    BY <1>7, <1>r, LostOK DEF Lose
  <2>3. QED
    BY <1>7, <2>1, <2>2 DEF ClientOK, Lose, browser, server
<1>8. ASSUME NEW r \in Requests, NEW s \in Sessions, Send(r, s) PROVE ClientOK'
  <2>1. PICK t \in EnsureAuth(jwt) :
          /\ jwt' = t /\ Lost(Failed(t))
          /\ req' = [req EXCEPT ![r] = [NoReq EXCEPT !.pc = "sent", !.of = s, !.jwt = t,
                                                    !.csrf = csrf, !.live = TRUE]]
    BY <1>8 DEF Send
  <2> DEFINE q == [NoReq EXCEPT !.pc = "sent", !.of = s, !.jwt = t,
                                !.csrf = csrf, !.live = TRUE]
  <2>2. q \in Request
    BY Issue DEF NoReq, Request, ClientOK
  <2> HIDE DEF q
  <2>3. req' \in [Requests -> Request]
    BY <1>r, <2>1, <2>2 DEF q
  <2>4. losses' \in 0..MaxLosses
    BY <1>r, <2>1, LostOK DEF Failed
  <2>5. jwt' \in Times
    BY <2>1, Issue
  <2>6. UNCHANGED <<csrf, wants, phase>>
    BY <1>8 DEF Send, server
  <2>7. QED
    BY <2>3, <2>4, <2>5, <2>6 DEF ClientOK
<1>9. CASE UNCHANGED vars
  BY <1>9 DEF vars, ClientOK
<1>10. QED
  BY <1>1, <1>2, <1>3, <1>4, <1>5, <1>6, <1>7, <1>8, <1>9 DEF Next

\* Every reachable state satisfies the invariant.
THEOREM AdmissionInvariant == Spec => []AdmissionInv
<1>1. Init => AdmissionInv
  BY ClientInit, QuotaInit DEF AdmissionInv
<1>2. AdmissionInv /\ [Next]_vars => AdmissionInv'
  BY ClientStep, QuotaStep DEF AdmissionInv, QuotaInv
<1>3. QED
  BY <1>1, <1>2, PTL DEF Spec

\* Every variable keeps its type: the quota never notes more than its limit.
THEOREM TypeCorrect == Spec => []TypeOK
<1>1. AdmissionInv => TypeOK
  BY QuotaFacts DEF AdmissionInv, ClientOK, QuotaInv, Request, TypeOK
<1>2. QED
  BY <1>1, AdmissionInvariant, PTL

\* MemoryRateLimiter: whatever its pruning and its gc drop, and whenever they
\* do, no window of a day has more starts than the limit, and a refusal was
\* needed as long as its Retry-After says.
THEOREM QuotaIsSound == Spec => []AdmissionSound
<1>1. AdmissionInv => AdmissionSound
  BY QuotaFacts DEF AdmissionInv, QuotaInv, AdmissionSound, QuotaHolds, RetryHonest
<1>2. QED
  BY <1>1, AdmissionInvariant, PTL
================================================================================
