------------------------------ MODULE Gateway -------------------------------
(***************************************************************************)
(* One proxied request, end to end: Server.proxy, proxyGemini and the fast *)
(* path proxyStream, with Router.Execute reduced to its loop over legs and *)
(* accounts (RouterExecute has it in full) and every relay run through     *)
(* StreamRelay.                                                            *)
(***************************************************************************)
EXTENDS StreamRelay, FiniteSets

CONSTANTS
  Accounts,   \* the accounts of the target provider
  Requests,   \* the requests: surface, whole (body fits the prefix), relay mode
  FastPath,   \* stream_requests on and the saver off
  MaxTries    \* bound: upstream attempts of one Execute

ASSUME GatewayAssumption == MaxTries \in Nat /\ \A r \in Requests : r.mode \in Modes

VARIABLES
  req,       \* the request
  stage,     \* where the pipeline stands
  holds,     \* byte reservations held: the fast path's, the body's
  charged,   \* requests-per-minute slots taken
  errs,      \* writeErr heads written
  tries,     \* attempts of the running Execute
  acct,      \* the account of the attempt
  limited,   \* accounts cooled since the request began
  pruned     \* the overflow replay was used

gateVars == <<req, stage, holds, charged, errs, tries, acct, limited, pruned>>
vars == <<relayVars, gateVars>>

GateTypeOK ==
  /\ req \in Requests
  /\ stage \in {"start", "fast", "fastCall", "fastRelay", "reserve", "body", "route",
                "pick", "call", "relay", "over", "done"}
  /\ holds \subseteq {"stream", "body"}
  /\ charged \in 0..2 /\ errs \in Nat /\ tries \in 0..MaxTries
  /\ acct \in Accounts \cup {"none"} /\ limited \subseteq Accounts /\ pruned \in BOOLEAN

TypeOK == RelayTypeOK /\ GateTypeOK

\* What the handler starts from, but for its stage.
Handed ==
  /\ req \in Requests /\ mode = req.mode /\ Idle
  /\ holds = {} /\ charged = 0 /\ errs = 0 /\ tries = 0
  /\ acct = "none" /\ limited = {} /\ pruned = FALSE

Init == Handed /\ stage = "start"

Untouched == w.heads + errs = 0   \* Content-Type is still empty

-----------------------------------------------------------------------------
\* The handler returns: its deferred releases run.
Leave == stage' = "done" /\ holds' = {}

\* writeErr, then return.
Refuse == errs' = errs + 1 /\ Leave

\* proxy/proxyGemini up to the body: key, then the fast path or the reservation.
Start ==
  /\ stage = "start"
  /\ \/ Refuse
     \/ /\ stage' = IF FastPath /\ req.surface # "gemini" THEN "fast" ELSE "reserve"
        /\ UNCHANGED <<errs, holds>>
  /\ UNCHANGED <<relayVars, req, charged, tries, acct, limited, pruned>>

\* proxyStream's gates before it may decline: declared size, saturation,
\* unknown model.
FastReserve ==
  /\ stage = "fast" /\ "stream" \notin holds
  /\ Refuse \/ (holds' = {"stream"} /\ UNCHANGED <<stage, errs>>)
  /\ UNCHANGED <<relayVars, req, charged, tries, acct, limited, pruned>>

\* The request is not eligible: the buffered pipeline takes over, body intact.
FastDecline ==
  /\ stage = "fast" /\ "stream" \in holds
  /\ stage' = "reserve" /\ holds' = {}
  /\ UNCHANGED <<relayVars, req, charged, errs, tries, acct, limited, pruned>>

\* Eligible: route, allowlist, rate limits (a slot is taken), quota, account.
FastAdmit ==
  /\ stage = "fast" /\ "stream" \in holds /\ ~req.combo /\ req.mode.same
  /\ \/ Refuse /\ charged' \in {charged, charged + 1} /\ UNCHANGED acct
     \/ /\ charged' = charged + 1
        /\ acct' \in Accounts /\ stage' = "fastCall" /\ UNCHANGED <<errs, holds>>
  /\ UNCHANGED <<relayVars, req, tries, limited, pruned>>

\* Def.Do on the fast path.  A retryable failure whose body is still whole
\* re-enters the buffered pipeline; every other failure is answered.
FastCall ==
  /\ stage = "fastCall"
  /\ \/ /\ stage' = "fastRelay" /\ Begin(req.mode)
        /\ UNCHANGED <<w, gone, errs, holds, limited>>
     \/ /\ \/ req.whole /\ stage' = "reserve" /\ holds' = {} /\ UNCHANGED errs
           \/ Refuse
        /\ limited' \in {limited, limited \cup {acct}} /\ UNCHANGED relayVars
  /\ UNCHANGED <<req, charged, tries, acct, pruned>>

\* proxyStream discards what relayResponse returns.
FastReturn ==
  /\ stage = "fastRelay" /\ Returned
  /\ Leave
  /\ UNCHANGED <<relayVars, req, charged, errs, tries, acct, limited, pruned>>

-----------------------------------------------------------------------------
\* acquireForBody.
BodyReserve ==
  /\ stage = "reserve"
  /\ Refuse \/ (holds' = holds \cup {"body"} /\ stage' = "body" /\ UNCHANGED errs)
  /\ UNCHANGED <<relayVars, req, charged, tries, acct, limited, pruned>>

\* readBody (413), then enforceRateLimits (429 without a slot, or a slot).
BodyAdmit ==
  /\ stage = "body"
  /\ \/ Refuse /\ UNCHANGED charged
     \/ charged' = charged + 1 /\ stage' = "route" /\ UNCHANGED <<errs, holds>>
  /\ UNCHANGED <<relayVars, req, tries, acct, limited, pruned>>

\* Savers (502), Resolve (404), allowlist (403), then Execute.
Route ==
  /\ stage = "route"
  /\ Refuse \/ (stage' = "pick" /\ UNCHANGED <<errs, holds>>)
  /\ UNCHANGED <<relayVars, req, charged, tries, acct, limited, pruned>>

\* Execute takes an account that is not cooling, or ends: none is left
\* (poolEmptyError) or the attempts are used up.
Pick ==
  /\ stage = "pick"
  /\ IF tries < MaxTries /\ Accounts \ limited # {}
     THEN acct' \in Accounts \ limited /\ tries' = tries + 1 /\ stage' = "call"
     ELSE stage' = "over" /\ UNCHANGED <<acct, tries>>
  /\ UNCHANGED <<relayVars, req, holds, charged, errs, limited, pruned>>

\* Server.attempt: quota gate, body, Def.Do.  A refusal that names the
\* account cools it, a spent quota cools them all; a terminal one ends Execute.
Call ==
  /\ stage = "call"
  /\ \/ stage' = "relay" /\ Begin(req.mode) /\ UNCHANGED <<w, gone, limited>>
     \/ /\ stage' \in {"pick", "over"}
        /\ limited' \in {limited, limited \cup {acct}, Accounts}
        /\ UNCHANGED relayVars
  /\ UNCHANGED <<req, holds, charged, errs, tries, acct, pruned>>

\* A committed attempt is retried.
Mut_AttemptReturn_Always ==
  /\ stage = "relay" /\ Returned
  /\ limited' = IF cooled THEN limited \cup {acct} ELSE limited
  /\ stage' = IF res # "ok" THEN "pick" ELSE "over"
  /\ UNCHANGED <<relayVars, req, holds, charged, errs, tries, acct, pruned>>

\* A refusal inside a 200 has a status of its own; a reply that is too large
\* or cannot be translated is so from every account.
Final == \/ res \notin Failures \/ res = "codec"
         \/ res = "large" /\ mode.path = "buffered"

\* A relay that ends in an error the client never saw is one more failed
\* attempt, unless it is terminal; anything else ends Execute.
AttemptReturn ==
  /\ stage = "relay" /\ Returned
  /\ limited' = IF cooled THEN limited \cup {acct} ELSE limited
  /\ stage' \in CASE Final -> {"over"} [] res = "denied" -> {"pick", "over"} [] OTHER -> {"pick"}
  /\ UNCHANGED <<relayVars, req, holds, charged, errs, tries, acct, pruned>>

\* The error is written over a committed answer.
Mut_ExecuteReturn_AlwaysWrites ==
  /\ stage = "over"
  /\ \/ /\ Untouched /\ ~pruned /\ req.surface # "gemini"
        /\ pruned' = TRUE /\ tries' = 0 /\ stage' = "pick" /\ UNCHANGED <<errs, holds>>
     \/ IF res # "ok" THEN Refuse /\ UNCHANGED <<tries, pruned>>
        ELSE Leave /\ UNCHANGED <<errs, tries, pruned>>
  /\ UNCHANGED <<relayVars, req, charged, acct, limited>>

\* Execute returned an error: a context overflow prunes the conversation and
\* replays the chain once (not on the Gemini surface); an error is written
\* only while the Content-Type is empty.
ExecuteReturn ==
  /\ stage = "over"
  /\ \/ /\ Untouched /\ ~pruned /\ req.surface # "gemini"
        /\ pruned' = TRUE /\ tries' = 0 /\ stage' = "pick" /\ UNCHANGED <<errs, holds>>
     \/ IF Untouched THEN Refuse /\ UNCHANGED <<tries, pruned>>
        ELSE Leave /\ UNCHANGED <<errs, tries, pruned>>
  /\ UNCHANGED <<relayVars, req, charged, acct, limited>>

-----------------------------------------------------------------------------
Relaying == stage \in {"relay", "fastRelay"}

Step ==
  \/ Start \/ FastReserve \/ FastDecline \/ FastAdmit \/ FastCall \/ FastReturn
  \/ BodyReserve \/ BodyAdmit \/ Route \/ Pick \/ Call \/ AttemptReturn \/ ExecuteReturn

Relay == Relaying /\ RelayStep /\ UNCHANGED gateVars
Break == Relaying /\ IdleKill /\ UNCHANGED gateVars
World == Relaying /\ (UpEnds \/ ClientLeaves) /\ UNCHANGED gateVars

Next == Step \/ Relay \/ Break \/ World

Spec == Init /\ [][Next]_vars

(* The handler waits for bytes of the request, or to write to the client:  *)
(* the server has no read or write timeout, so a client that neither sends,*)
(* reads nor leaves holds it there.  Errors fit the connection's buffer.   *)
WaitsForClient ==
  /\ ~gone
  /\ \/ stage = "fast" /\ "stream" \in holds
     \/ stage = "fastCall" /\ ~req.whole
     \/ stage = "body" /\ ~(req.whole /\ charged = 1)
     \/ Relaying /\ Writing

\* The handler's goroutine runs on as long as it need not wait for a byte of
\* the upstream's or for the client, and an armed idle timer fires.
Fairness ==
  /\ WF_vars(Step /\ ~WaitsForClient)
  /\ WF_vars(Relay /\ wire' = wire /\ ~WaitsForClient)
  /\ WF_vars(Break)
FairSpec == Spec /\ Fairness

-----------------------------------------------------------------------------
\* A request gets at most one response head, whichever of the relay and the
\* error writer comes first, and every reservation is back when the handler
\* returns (writeErr and the relays; the deferred releases).
CleanReturn ==
  /\ TypeOK /\ w.heads + errs <= 1
  /\ stage = "done" => holds = {} /\ ~reply

\* No attempt starts once anything of an answer is on the wire: a replay
\* behind it would splice two answers.
NoReplayBehindBytes ==
  [][(stage' \in {"call", "fastCall"} /\ stage # stage') => Untouched]_vars

\* Every request ends, or stays for good where only its client can move it:
\* whatever the upstream does with its body, no handler waits on it for ever,
\* as long as the idle breaker guards every read of it.
Ended  == <>(stage = "done") \/ <>[]WaitsForClient
Served == ~req.mode.ndjson => Ended

\* The same of every request, bodies whose head is inspected first included.
ServedAlways == Ended

\* The rate limits count a request once (stream_relay.go: "so counters are
\* never double-counted").
ChargedOnce == charged <= 1

\* A request that ends with its client still there was answered.
Answered == (stage = "done" /\ ~gone) => w.heads + errs = 1
=============================================================================
