------------------------------- MODULE Admission -------------------------------
(***************************************************************************)
(* Starting a trial over HTTP: the browser (lib/auth.ts, lib/api.ts and    *)
(* the button of CourtroomScene.tsx), the middlewares in the order in      *)
(* which cmd/server/main.go mounts them (rate limit, auth, CSRF) and       *)
(* handler.StartTrial with the daily quota of ratelimit.go.                *)
(*                                                                         *)
(* One user, one browser.  Time is a clock in ticks of hours; the seconds  *)
(* of the rate limit lie between two ticks.  The response store of         *)
(* idempotency.go is always empty, because nothing calls its Put: Get      *)
(* misses, and a key only travels.                                         *)
(***************************************************************************)
EXTENDS Filters

CONSTANTS
  Mine, Foreign,   \* sessions of the user; sessions of others, or none at all
  Requests,        \* requests under way at a time
  None,
  Limit,           \* USER_TRIAL_LIMIT
  TokenAge,        \* csrfTokenTTL: 2 h
  CookieAge,       \* MaxAge of the CSRF cookie: 24 h
  Day,             \* window of the quota: 24 h
  Week,            \* expiry of the JWT: 7 days
  MaxTime, MaxLosses   \* bounds: losses of tokens and answers, and restarts

ASSUME AdmissionAssumption ==
  /\ Mine \cap Foreign = {} /\ None \notin Mine \cup Foreign
  /\ Limit \in Nat \ {0}
  /\ {TokenAge, CookieAge, Day, Week} \subseteq Nat \ {0}
  /\ TokenAge < CookieAge /\ Day < Week
  /\ {MaxTime, MaxLosses} \subseteq Nat

VARIABLES
  now,
  csrf,      \* time of issue of the token in the XSRF-TOKEN cookie, or None
  jwt,       \* time of issue of the JWT (cookie and localStorage), or None
  wants,     \* sessions whose start the handler has not answered yet
  req,       \* the requests under way
  stamps,    \* userCounter.timestamps
  told,      \* when the last refusal for the quota said to come back
  phase,     \* of the sessions: "idle", or "opening" and later
  admitted,  \* history: starts the quota let pass in the last Day
  losses

vars == <<now, csrf, jwt, wants, req, stamps, told, phase, admitted, losses>>

browser == <<csrf, jwt, wants>>
server  == <<stamps, told, phase, admitted>>

Sessions == Mine \cup Foreign
NoReq == [pc |-> "free", of |-> None, jwt |-> None, csrf |-> None,
          live |-> FALSE, answer |-> "none"]

Init ==
  /\ now = 0 /\ csrf = None /\ jwt = None
  /\ wants = Sessions
  /\ req = [r \in Requests |-> NoReq]
  /\ stamps = <<>> /\ told = 0
  /\ phase = [s \in Sessions |-> "idle"]
  /\ admitted = <<>>
  /\ losses = 0

\* What was issued at time t is still good for age ticks.
Good(t, age) == t # None /\ now - t <= age

JwtGood(t) == t # None /\ now - t < Week

\* Times that are less than age ticks before the time at.
Recent(age, at) == {t \in 0..MaxTime : t + age > at}

Within(s, age) == Kept(s, Recent(age, now))

Tick ==
  /\ now < MaxTime
  /\ now' = now + 1
  /\ csrf' = IF csrf # None /\ now' - csrf >= CookieAge THEN None ELSE csrf
  /\ admitted' = Kept(admitted, Recent(Day, now'))
  /\ UNCHANGED <<jwt, wants, req, stamps, told, phase, losses>>

\* The quota's hourly gc drops what is older than its maxAge, also seven days.
Gc ==
  /\ stamps # Within(stamps, Week)
  /\ stamps' = Within(stamps, Week)
  /\ UNCHANGED <<now, browser, req, told, phase, admitted, losses>>

--------------------------------------------------------------------------------
(* The browser. *)

\* POST /auth/anon: a JWT issued now, or an error.
AnonAuth == {now, None}

\* ensureAuthToken: a new JWT when the old one is gone or expired; if that fails
\* the request goes out without one.
EnsureAuth(t) == IF JwtGood(t) THEN {t} ELSE AnonAuth

Failed(t) == IF t = None THEN 1 ELSE 0

Lost(n) == losses + n <= MaxLosses /\ losses' = losses + n

\* Mutant: the token is issued only when there is none.
IssuedIfMissing(t) == IF t = None THEN now ELSE t

\* CSRF on a GET: a token that is missing or no longer valid is issued anew.
Issued(t) == IF Good(t, TokenAge) THEN t ELSE now

\* A request whose page is gone.
Orphan(q) == IF q.pc \in {"free", "answered"} THEN NoReq ELSE [q EXCEPT !.live = FALSE]

\* A GET, atomic here: it passes the same middlewares.  As a reload of the page
\* it also forgets the requests under way, whose answers are lost.
Load(reload) ==
  LET abandoned == IF reload /\ \E r \in Requests : req[r].live THEN 1 ELSE 0
  IN  /\ \E t \in EnsureAuth(jwt) :
           /\ jwt' = t
           /\ \/ Lost(abandoned + Failed(t)) /\ UNCHANGED csrf           \* 429, 401
              \/ t # None /\ Lost(abandoned) /\ csrf' = Issued(csrf)
      /\ req' = IF reload THEN [r \in Requests |-> Orphan(req[r])] ELSE req
      /\ UNCHANGED <<now, wants, stamps, told, phase, admitted>>

\* The click: the button is disabled while its page has a start under way.  The
\* Idempotency-Key it sends changes nothing: no answer is ever stored under it.
Send(r, s) ==
  /\ s \in wants /\ req[r].pc = "free"
  /\ \A q \in Requests : ~(req[q].live /\ req[q].of = s)
  /\ \E t \in EnsureAuth(jwt) :
       /\ jwt' = t /\ Lost(Failed(t))
       /\ req' = [req EXCEPT ![r] = [NoReq EXCEPT !.pc = "sent", !.of = s, !.jwt = t,
                                                 !.csrf = csrf, !.live = TRUE]]
  /\ UNCHANGED <<now, csrf, wants, server>>

\* The page gets the answer: a 401 clears the stored JWT.  Of no refusal is the
\* body read or anything shown, so that nothing but the button tells them apart.
Receive(r) ==
  LET got(S) == req[r].answer \in S
      of     == {req[r].of}
  IN  /\ req[r].pc = "answered"
      /\ jwt' = IF got({"unauthorized"}) THEN None ELSE jwt
      /\ wants' = IF got({"ok", "phase", "quota", "denied"}) THEN wants \ of ELSE wants
      /\ req' = [req EXCEPT ![r] = NoReq]
      /\ UNCHANGED <<now, csrf, server, losses>>

\* The connection breaks before the server has the request or after it answered.
Lose(r) ==
  /\ req[r].pc \in {"sent", "answered"}
  /\ Lost(1)
  /\ req' = [req EXCEPT ![r] = NoReq]
  /\ UNCHANGED <<now, browser, server>>

--------------------------------------------------------------------------------
(* The server. *)

To(r, pc) == req' = [req EXCEPT ![r].pc = pc]

\* An answer no page waits for is dropped at once.
Answer(r, a) ==
  req' = [req EXCEPT ![r] = IF @.live THEN [@ EXCEPT !.pc = "answered", !.answer = a] ELSE NoReq]

\* The rate limit comes first.  The bucket is that of the address: whether it is
\* empty depends on requests that are not modelled.
RateLimited(r) ==
  /\ req[r].pc = "sent"
  /\ Answer(r, "slow")
  /\ UNCHANGED <<now, browser, server, losses>>

Authenticated(q) == JwtGood(q.jwt)

\* Then auth and CSRF (cookie and header are the same token, sent by one page).
Admit(r) ==
  /\ req[r].pc = "sent"
  /\ IF ~Authenticated(req[r]) THEN Answer(r, "unauthorized")
     ELSE IF ~Good(req[r].csrf, TokenAge) THEN Answer(r, "csrf")
     ELSE To(r, "admitted")
  /\ UNCHANGED <<now, browser, server, losses>>

\* Mutant: one start too many.
FullLate(kept) == Len(kept) > Limit

Full(kept) == Len(kept) >= Limit

\* Mutant: the refusal goes by the newest start.
ComeBackLate(kept) == kept[Len(kept)] + Day

ComeBack(kept) == kept[1] + Day

\* checkSessionAccess: the session exists and is the user's.
Accessible(s) == s \in Mine

\* The 429 of StartTrial: when to come back, and no start used up.
Refuse(r, kept) ==
  /\ told' = ComeBack(kept) /\ Answer(r, "quota") /\ UNCHANGED admitted

\* TrialRateLimiter.Allow, before the owner of the session is checked.
Allow(r) ==
  LET kept == Within(stamps, Day)
  IN  /\ req[r].pc = "admitted"
      /\ IF Full(kept)
         THEN stamps' = kept /\ Refuse(r, kept)
         ELSE /\ stamps' = Append(kept, now) /\ admitted' = Append(admitted, now)
              /\ IF Accessible(req[r].of) THEN To(r, "charged") ELSE Answer(r, "denied")
              /\ UNCHANGED told
      /\ UNCHANGED <<now, browser, phase, losses>>

\* TransitionToOpening reads the session and validates ...
Validate(r) ==
  /\ req[r].pc = "charged"
  /\ IF phase[req[r].of] = "idle" THEN To(r, "valid") ELSE Answer(r, "phase")
  /\ UNCHANGED <<now, browser, server, losses>>

\* ... and writes it without looking again; the speeches run in the background.
Open(r) ==
  /\ req[r].pc = "valid"
  /\ phase' = [phase EXCEPT ![req[r].of] = "opening"]
  /\ Answer(r, "ok")
  /\ UNCHANGED <<now, browser, stamps, told, admitted, losses>>

\* All limits are in memory; the requests under way break off.  Tokens stay
\* good: they are signed with a secret from the environment.
Restart ==
  /\ Lost(1)
  /\ stamps' = <<>> /\ admitted' = <<>> /\ told' = 0
  /\ req' = [r \in Requests |-> NoReq]
  /\ UNCHANGED <<now, browser, phase>>

--------------------------------------------------------------------------------

Serve(r) == RateLimited(r) \/ Admit(r) \/ Allow(r) \/ Validate(r) \/ Open(r)

Next ==
  \/ Tick \/ Gc \/ Restart
  \/ \E reload \in BOOLEAN : Load(reload)
  \/ \E r \in Requests : Serve(r) \/ Receive(r) \/ Lose(r) \/ \E s \in Sessions : Send(r, s)

\* The server works, and the rate limit does not refuse every start.  The user need
\* not do anything, nor need losses (of answers, of tokens) or time go on.
Fairness ==
  /\ \A r \in Requests : WF_vars(Serve(r)) /\ WF_vars(Receive(r))
  /\ \A s \in Mine : SF_vars(\E r \in Requests : req[r].of = s /\ Admit(r))

Spec == Init /\ [][Next]_vars /\ Fairness

--------------------------------------------------------------------------------
(* Properties. *)

Times == 0..MaxTime \cup {None}

TypeOK ==
  /\ now \in 0..MaxTime /\ csrf \in Times /\ jwt \in Times
  /\ wants \subseteq Sessions
  /\ req \in [Requests -> [pc : {"free", "sent", "admitted", "charged", "valid", "answered"},
                           of : Sessions \cup {None},
                           jwt : Times, csrf : Times, live : BOOLEAN,
                           answer : {"none", "ok", "phase", "quota", "denied", "slow",
                                     "unauthorized", "csrf"}]]
  /\ stamps \in Seq(0..MaxTime) /\ Len(stamps) <= Limit
  /\ told \in 0..(MaxTime + Day)
  /\ phase \in [Sessions -> {"idle", "opening"}]
  /\ admitted \in Seq(0..MaxTime)
  /\ losses \in 0..MaxLosses

\* In no window of a day does the quota let more starts pass than its limit,
\* whatever its pruning and its gc drop (MemoryRateLimiter).
QuotaHolds == Len(admitted) <= Limit

\* Retry-After is honest: until then the quota stays used up, so that the wait
\* was needed (retryAfter = oldest + window - now).
RetryHonest == now < told => Len(admitted) >= Limit

AdmissionSound == QuotaHolds /\ RetryHonest

\* What a user may do, and nothing on the page asks for: press the button again and
\* again, and come back to the page (any GET will do) until its token is renewed.
Presses(s) == SF_vars(\E r \in Requests : Send(r, s))
Returns    == SF_vars(\E reload \in BOOLEAN : Load(reload) /\ csrf' # csrf)

\* A user who keeps pressing the button and coming back to the page gets an answer of
\* the handler: no expired token, used up bucket or lost answer locks the browser out
\* for ever (csrf.go, the GET branch; ensureAuthToken).  One who only presses it is
\* refused for ever once the CSRF token in the cookie has expired.
WritesHeal == \A s \in Mine : Presses(s) /\ Returns => <>(s \notin wants)
================================================================================
