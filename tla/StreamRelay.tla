------------------------------ MODULE StreamRelay ------------------------------
(***************************************************************************)
(* One streamed speech.  Three goroutines are joined by two bounded        *)
(* channels: the provider (llm/client.go, StreamComplete) sends frames on  *)
(* src, the relay (agent_gateway/gateway.go, StreamComplete) passes them   *)
(* on to out and charges the session when src is closed, the listener      *)
(* (agent/react_runner.go, streamSpeakContent) reads out until it has a    *)
(* complete content field, an end, an error or a cancelled context, and    *)
(* then never reads again.  Sends block; none of them watches the context. *)
(*                                                                         *)
(* A frame is a piece of text or the last frame, which says whether the    *)
(* upstream failed.  The gateway's proofs are about this module and about  *)
(* LLMGateway, hence names that tell the two apart.                        *)
(***************************************************************************)
EXTENDS Naturals, Sequences

CONSTANTS
  Capacity,    \* of either channel: 16 in the code
  MaxPieces    \* bound: pieces of text the upstream may produce

ASSUME CapacityAssumption == Capacity \in Nat \ {0}
ASSUME PiecesAssumption == MaxPieces \in Nat \ {0}

VARIABLES
  enough,      \* the piece that completes the content field
  cancelled,   \* the listener's context: 30 s, the call's own cancellation
  produced,    \* pieces the provider has sent
  src, srcOpen,
  held,        \* frames the relay has taken and not yet passed on: at most one
  relayed,     \* pieces the relay has taken
  charged,     \* pieces the session was charged for
  out, outOpen,
  heard,       \* pieces the listener has read
  listener     \* what the listener is doing, or how it returned

provider == <<produced, srcOpen>>
relay == <<held, relayed, charged, outOpen>>
ears == <<heard, listener, cancelled>>
relayVars == <<enough, src, out, provider, relay, ears>>

Frames == {"text", "end", "failed"}

RelayInit ==
  /\ enough \in 1..MaxPieces
  /\ cancelled = FALSE
  /\ produced = 0 /\ src = <<>> /\ srcOpen = TRUE
  /\ held = <<>> /\ relayed = 0 /\ charged = 0
  /\ out = <<>> /\ outOpen = TRUE
  /\ heard = 0 /\ listener = "reading"

--------------------------------------------------------------------------------
(* The provider. *)

\* Recv returned a piece of text, and there is room for it.
SendPiece ==
  /\ srcOpen /\ produced < MaxPieces /\ Len(src) < Capacity
  /\ produced' = produced + 1
  /\ src' = Append(src, "text")
  /\ UNCHANGED <<enough, srcOpen, out, relay, ears>>

\* EOF, or an error: the stream could not be opened, broke, or was closed by
\* the watcher of a cancelled context.  The last frame, then close.
SendLast ==
  /\ srcOpen /\ Len(src) < Capacity
  /\ \E frame \in IF cancelled THEN {"failed"} ELSE {"end", "failed"} : src' = Append(src, frame)
  /\ srcOpen' = FALSE
  /\ UNCHANGED <<enough, produced, out, relay, ears>>

--------------------------------------------------------------------------------
(* The relay: for chunk := range src { count; out <- chunk }. *)

\* Mutant: the last frame is charged for too.
TakeCountsFrames ==
  /\ outOpen /\ held = <<>> /\ src # <<>>
  /\ held' = <<Head(src)>> /\ src' = Tail(src)
  /\ relayed' = relayed + 1
  /\ UNCHANGED <<enough, out, provider, charged, outOpen, ears>>

Take ==
  /\ outOpen /\ held = <<>> /\ src # <<>>
  /\ held' = <<Head(src)>> /\ src' = Tail(src)
  /\ relayed' = IF Head(src) = "text" THEN relayed + 1 ELSE relayed
  /\ UNCHANGED <<enough, out, provider, charged, outOpen, ears>>

Pass ==
  /\ held # <<>> /\ Len(out) < Capacity
  /\ out' = out \o held /\ held' = <<>>
  /\ UNCHANGED <<enough, src, provider, relayed, charged, outOpen, ears>>

\* Mutant: the relay stops listening to a source whose context is cancelled.
SettleWhenCancelled ==
  /\ outOpen /\ held = <<>>
  /\ cancelled \/ (src = <<>> /\ ~srcOpen)
  /\ charged' = relayed
  /\ outOpen' = FALSE
  /\ UNCHANGED <<enough, src, out, provider, held, relayed, ears>>

\* Mutant: out is not closed.
SettleLeavesOpen ==
  /\ outOpen /\ held = <<>> /\ src = <<>> /\ ~srcOpen
  /\ charged' = relayed
  /\ UNCHANGED <<enough, src, out, provider, held, relayed, outOpen, ears>>

\* src is closed and drained: charge the session, write the audit row and the
\* file log, close out, cancel the call's context.
Settle ==
  /\ outOpen /\ held = <<>> /\ src = <<>> /\ ~srcOpen
  /\ charged' = relayed
  /\ outOpen' = FALSE
  /\ UNCHANGED <<enough, src, out, provider, held, relayed, ears>>

--------------------------------------------------------------------------------
(* The listener: select over the context and out.  Its branch for a closed
   out is never taken: every stream ends in a last frame, which ends it. *)

\* Returning cancels the context the provider works under.
ReturnSpeech(how) == listener' = how /\ cancelled' = TRUE

Hear ==
  /\ listener = "reading" /\ out # <<>>
  /\ out' = Tail(out)
  /\ \/ /\ Head(out) = "text"
        /\ heard' = heard + 1
        /\ IF heard' = enough THEN ReturnSpeech("complete")
                              ELSE UNCHANGED <<listener, cancelled>>
     \/ /\ Head(out) # "text"
        /\ ReturnSpeech(Head(out))
        /\ UNCHANGED heard
  /\ UNCHANGED <<enough, src, provider, relay>>

StopListening ==
  /\ listener = "reading" /\ cancelled
  /\ ReturnSpeech("gave up")
  /\ UNCHANGED <<enough, src, out, provider, relay, heard>>

\* Mutant: the context has no deadline.
NoDeadline == FALSE /\ UNCHANGED relayVars

\* 30 seconds have passed, or the trial cancels the call.
Cancel ==
  /\ listener = "reading" /\ ~cancelled
  /\ cancelled' = TRUE
  /\ UNCHANGED <<enough, src, out, provider, relay, heard, listener>>

--------------------------------------------------------------------------------
RelayNext == SendPiece \/ SendLast \/ Take \/ Pass \/ Settle
        \/ Hear \/ StopListening \/ Cancel

RelaySpec == RelayInit /\ [][RelayNext]_relayVars

\* Goroutines run, the timeout fires, and a closed stream ends.  The upstream
\* is not obliged to produce text or to end by itself.
RelayFairness ==
  /\ WF_relayVars(cancelled /\ SendLast)
  /\ WF_relayVars(Take) /\ WF_relayVars(Pass) /\ WF_relayVars(Settle)
  /\ WF_relayVars(Hear) /\ WF_relayVars(StopListening) /\ WF_relayVars(Cancel)

FairRelaySpec == RelaySpec /\ RelayFairness

--------------------------------------------------------------------------------
RelayTypeOK ==
  /\ enough \in 1..MaxPieces
  /\ produced \in 0..MaxPieces /\ relayed \in 0..MaxPieces
  /\ heard \in 0..MaxPieces /\ charged \in 0..MaxPieces
  /\ cancelled \in BOOLEAN /\ srcOpen \in BOOLEAN /\ outOpen \in BOOLEAN
  /\ src \in Seq(Frames) /\ out \in Seq(Frames) /\ held \in Seq(Frames)
  /\ listener \in {"reading", "complete", "end", "failed", "gave up"}

\* Once the relay is done, the session has been charged for every piece the
\* upstream produced, also for those nobody heard because the listener had its
\* content, gave up or was cancelled (gateway.go, after the range loop).
ChargedForAll == ~outOpen => charged = produced

\* Whatever the upstream does, the call returns: the select watches the context
\* (react_runner.go, the 30 s streamCtx).
ListenerReturns == <>(listener # "reading")

\* A stream that is read to its last frame is charged and its channel closed:
\* nobody waits for anybody in the other direction.
HeardOutSettles == listener \in {"end", "failed"} ~> ~outOpen
================================================================================
