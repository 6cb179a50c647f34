----------------------------- MODULE OAuthLogin -----------------------------
(***************************************************************************)
(* Dashboard sign-in (admin_oauth.go, admin_oauth_browser.go): the login   *)
(* registry, device and browser flows, the loopback listener the browser   *)
(* logins share, the vendor's callback, the pasted code and the sign-out.  *)
(*                                                                         *)
(* A login is one attempt; a browser login's `state` is the login itself,  *)
(* and the vendor accepts a code only with the verifier of the login it    *)
(* was issued to.  Callers are the HTTP requests that exchange a code;     *)
(* writers put back what they read of the token store (Manager.refresh, or *)
(* another process whose merge keeps an entry the file has lost).          *)
(***************************************************************************)
EXTENDS Naturals

CONSTANTS
  Keys,      \* accounts, "provider/account"
  Outs,      \* the accounts somebody signs out
  Attempts,  \* bound: login attempts
  Callers,   \* callback and exchange requests
  Writers,   \* refresh loops and commands: they read tokens and write them back
  Nobody

Logins == 1..Attempts

ASSUME LoginAssumption == Outs \subseteq Keys /\ Nobody \notin Keys \cup Logins

VARIABLES
  active,   \* the registry: each account's last login
  login,    \* each login
  states,   \* registered `state`s
  lis,      \* the loopback listener is open
  closing,  \* logins whose settling is about to call closeCallback
  call,     \* each caller: where it stands, the login it settles, whose code it has
  out,      \* each account's sign-out request
  signed,   \* accounts with a stored token
  carry,    \* the accounts whose token each writer read and will write
  pasted,   \* history: logins finished by a pasted code
  late      \* history: accounts signed out while a sign-in crossed

loginVars == <<active, login, states, lis, closing, call, out, signed, carry, pasted, late>>

NoLogin == [key |-> Nobody, phase |-> "none", fin |-> "no", done |-> FALSE,
            cancelled |-> FALSE, armed |-> FALSE]
NoCall == [at |-> "idle", lg |-> Nobody, code |-> Nobody, paste |-> FALSE]

LoginInit ==
  /\ active = [k \in Keys |-> Nobody]
  /\ login = [l \in Logins |-> NoLogin]
  /\ states = {} /\ lis = FALSE /\ closing = {}
  /\ call = [c \in Callers |-> NoCall]
  /\ out = [k \in Outs |-> [at |-> "idle", lg |-> Nobody]]
  /\ signed = {} /\ pasted = {} /\ late = {}
  /\ carry = [w \in Writers |-> {}]

Pending(l) == login[l].phase # "none" /\ login[l].phase # "dead" /\ login[l].fin = "no"

\* finished, err and close(done), unless the login is settled already.
Ended(l, how) ==
  IF login[l].fin = "no" THEN [login[l] EXCEPT !.fin = how, !.done = TRUE] ELSE login[l]

-----------------------------------------------------------------------------
\* Starting (handleAdminOAuthLogin, startBrowserLogin).

\* A pending login is re-offered, so only a settled one is replaced.
Login(k, l, phase) ==
  /\ login[l].phase = "none" /\ \A m \in 1..(l - 1) : login[m].phase # "none"
  /\ active[k] # Nobody => ~Pending(active[k])
  /\ active' = [active EXCEPT ![k] = l]
  /\ login' = [login EXCEPT ![l] = [NoLogin EXCEPT !.key = k, !.phase = phase]]
  /\ out' = [j \in Outs |->
       IF j = k /\ out[j].at = "gone" THEN [at |-> "idle", lg |-> Nobody] ELSE out[j]]
  /\ late' = late \ {k}
  /\ UNCHANGED <<states, lis, closing, call, signed, carry, pasted>>

\* ensureCallbackListener: the shared listener, opened on demand.
Bind(l) ==
  /\ login[l].phase = "installed"
  /\ lis' = TRUE
  /\ login' = [login EXCEPT ![l].phase = "bound"]
  /\ UNCHANGED <<active, states, closing, call, out, signed, carry, pasted, late>>

\* No port can be bound: the login leaves the registry and never settles.
BindFail(l) ==
  /\ login[l].phase = "installed" /\ ~lis
  /\ active' = [active EXCEPT ![login[l].key] = Nobody]
  /\ login' = [login EXCEPT ![l].phase = "dead"]
  /\ UNCHANGED <<states, lis, closing, call, out, signed, carry, pasted, late>>

\* The session is registered and its expiry armed; a cancel that came before
\* reached a context nobody watches.
Register(l) ==
  /\ login[l].phase = "bound"
  /\ states' = states \cup {l}
  /\ login' = [login EXCEPT ![l] = [@ EXCEPT !.phase = "open", !.armed = TRUE, !.cancelled = FALSE]]
  /\ UNCHANGED <<active, lis, closing, call, out, signed, carry, pasted, late>>

-----------------------------------------------------------------------------
\* Settling.

\* A plausible bug: an abandoned login is marked but its waiters not released.
Mut_expireBrowserLogin_Silent(l) ==
  /\ login[l].armed
  /\ login' = [login EXCEPT ![l] = [@ EXCEPT !.fin = IF @ = "no" THEN "err" ELSE @, !.armed = FALSE]]
  /\ states' = IF login[l].fin = "no" THEN states \ {l} ELSE states
  /\ closing' = IF states' = {} THEN closing \cup {l} ELSE closing
  /\ UNCHANGED <<active, lis, call, out, signed, carry, pasted, late>>

\* expireBrowserLogin: the ten minutes are over, or someone cancelled.
expireBrowserLogin(l) ==
  /\ login[l].armed
  /\ login' = [login EXCEPT ![l] = [Ended(l, "err") EXCEPT !.armed = FALSE]]
  /\ states' = IF login[l].fin = "no" THEN states \ {l} ELSE states
  /\ closing' = IF states' = {} THEN closing \cup {l} ELSE closing
  /\ UNCHANGED <<active, lis, call, out, signed, carry, pasted, late>>

\* closeCallback: under the lock, unless a state is registered by then.
closeCallback(l) ==
  /\ l \in closing
  /\ closing' = closing \ {l}
  /\ lis' = (lis /\ states # {})
  /\ UNCHANGED <<active, login, states, call, out, signed, carry, pasted, late>>

\* A plausible bug: a failed login leaves the close to the timer.
Mut_failBrowserLogin_LeavesOpen(c, l) ==
  /\ login' = [login EXCEPT ![l] = [Ended(l, "err") EXCEPT !.cancelled = TRUE, !.armed = FALSE]]
  /\ states' = IF login[l].fin = "no" THEN states \ {l} ELSE states
  /\ call' = [call EXCEPT ![c] = NoCall]
  /\ UNCHANGED <<active, lis, closing, out, signed, carry, pasted, late>>

\* failBrowserLogin, which cancels and closes; st are the states left before.
failBrowserLogin(c, l) ==
  /\ login' = [login EXCEPT ![l] = [Ended(l, "err") EXCEPT !.cancelled = TRUE]]
  /\ states' = IF login[l].fin = "no" THEN states \ {l} ELSE states
  /\ closing' = closing \cup {l}
  /\ call' = [call EXCEPT ![c] = NoCall]
  /\ UNCHANGED <<active, lis, out, signed, carry, pasted, late>>

\* The vendor's redirect: its state is spent, and settles whatever login the
\* account has now.
Callback(c, l) ==
  /\ call[c].at = "idle" /\ lis /\ l \in states
  /\ states' = states \ {l}
  /\ LET lg == active[login[l].key] IN
     call' = [call EXCEPT ![c] =
       IF lg = Nobody THEN NoCall ELSE [at |-> "called", lg |-> lg, code |-> l, paste |-> FALSE]]
  /\ UNCHANGED <<active, login, lis, closing, out, signed, carry, pasted, late>>

\* handleAdminOAuthExchange: only while a browser login is pending.
Paste(c, k) ==
  /\ call[c].at = "idle" /\ active[k] # Nobody
  /\ LET l == active[k] IN
     /\ Pending(l) /\ login[l].phase = "open"
     /\ call' = [call EXCEPT ![c] = [at |-> "called", lg |-> l, code |-> l, paste |-> TRUE]]
  /\ UNCHANGED <<active, login, states, lis, closing, out, signed, carry, pasted, late>>

\* A declined login, a callback without a code, a refused exchange.  A code
\* issued to another login is always refused: the verifier does not match.
Refused(c) == call[c].at = "called" /\ failBrowserLogin(c, call[c].lg)

\* A code for a login without a verifier is turned away and settles nothing.
TurnedAway(c) ==
  /\ call[c].at = "called" /\ login[call[c].lg].phase # "open"
  /\ call' = [call EXCEPT ![c] = NoCall]
  /\ UNCHANGED <<active, login, states, lis, closing, out, signed, carry, pasted, late>>

\* exchangeBrowserCode: the token is stored ...
Exchange(c) ==
  LET l == call[c].lg IN
  /\ call[c].at = "called" /\ call[c].code = l
  /\ signed' = signed \cup {login[l].key}
  /\ call' = [call EXCEPT ![c].at = "stored"]
  /\ UNCHANGED <<active, login, states, lis, closing, out, carry, pasted, late>>

\* ... and the login settled.  A pasted code leaves the state registered.
Finish(c) ==
  LET l == call[c].lg IN
  /\ call[c].at = "stored"
  /\ login' = [login EXCEPT ![l] = [Ended(l, "ok") EXCEPT !.cancelled = TRUE]]
  /\ pasted' = IF call[c].paste THEN pasted \cup {l} ELSE pasted
  /\ call' = [call EXCEPT ![c] = NoCall]
  /\ UNCHANGED <<active, states, lis, closing, out, signed, carry, late>>

\* runDeviceFlow: the poll loop stores a token, unless it ends without one ...
DeviceToken(l) ==
  /\ login[l].phase = "polling"
  /\ \/ login' = [login EXCEPT ![l].phase = "stored"] /\ signed' = signed \cup {login[l].key}
     \/ login' = [login EXCEPT ![l].phase = "nothing"] /\ UNCHANGED signed
  /\ UNCHANGED <<active, states, lis, closing, call, out, carry, pasted, late>>

\* ... and the login is settled ...
DeviceSettles(l) ==
  /\ login[l].phase \in {"stored", "nothing"} /\ login[l].fin = "no"
  /\ login' = [login EXCEPT ![l] = Ended(l, IF login[l].phase = "stored" THEN "ok" ELSE "err")]
  /\ UNCHANGED <<active, states, lis, closing, call, out, signed, carry, pasted, late>>

\* ... unless a callback with a stale state has settled it: `done` is closed a
\* second time, which ends the process.  What it kept in memory is gone.
ClosedTwice(l) ==
  /\ login[l].phase \in {"stored", "nothing"} /\ login[l].fin # "no"
  /\ active' = [k \in Keys |-> Nobody]
  /\ login' = [m \in Logins |->
       IF login[m].phase = "none" THEN login[m]
       ELSE [login[m] EXCEPT !.phase = "dead", !.cancelled = FALSE, !.armed = FALSE]]
  /\ states' = {} /\ lis' = FALSE /\ closing' = {}
  /\ call' = [c \in Callers |-> NoCall]
  /\ out' = [k \in Outs |->
       IF out[k].at = "gone" THEN out[k] ELSE [at |-> "idle", lg |-> Nobody]]
  /\ \E W \in SUBSET Writers : carry' = [w \in Writers |-> IF w \in W THEN {} ELSE carry[w]]
  /\ UNCHANGED <<signed, pasted, late>>

DeviceEnd(l) == DeviceSettles(l) \/ ClosedTwice(l)

-----------------------------------------------------------------------------
\* Sign-out (handleAdminOAuthLogout).

\* A plausible bug: the sign-out cancels a pending login but does not wait.
Mut_Logout_NoWait(k) ==
  LET l == active[k] IN
  /\ out[k].at \in {"idle", "gone"}
  /\ login' = IF l # Nobody /\ Pending(l) THEN [login EXCEPT ![l].cancelled = TRUE] ELSE login
  /\ out' = [out EXCEPT ![k] = [at |-> "delete", lg |-> Nobody]]
  /\ UNCHANGED <<active, states, lis, closing, call, signed, carry, pasted, late>>

\* A pending login is cancelled first.
Logout(k) ==
  LET l == active[k] IN
  /\ out[k].at \in {"idle", "gone"}
  /\ IF l # Nobody /\ Pending(l)
     THEN /\ login' = [login EXCEPT ![l].cancelled = TRUE]
          /\ out' = [out EXCEPT ![k] = [at |-> "wait", lg |-> l]]
     ELSE out' = [out EXCEPT ![k] = [at |-> "delete", lg |-> Nobody]] /\ UNCHANGED login
  /\ UNCHANGED <<active, states, lis, closing, call, signed, carry, pasted, late>>

\* <-lg.done
Released(k) ==
  /\ out[k].at = "wait" /\ login[out[k].lg].done
  /\ out' = [out EXCEPT ![k].at = "delete"]
  /\ UNCHANGED <<active, login, states, lis, closing, call, signed, carry, pasted, late>>

\* The token is being refreshed or a code of the account exchanged, or a login
\* began since the sign-out looked.
Crossed(k) ==
  \/ \E w \in Writers : k \in carry[w]
  \/ \E c \in Callers : call[c].at = "called" /\ login[call[c].lg].key = k
  \/ \E l \in Logins : login[l].key = k /\ Pending(l) /\ ~login[l].cancelled

\* The token is deleted; the config entry stays.
DeleteToken(k) ==
  /\ out[k].at = "delete"
  /\ signed' = signed \ {k}
  /\ out' = [out EXCEPT ![k] = [at |-> "gone", lg |-> Nobody]]
  /\ late' = IF Crossed(k) THEN late \cup {k} ELSE late \ {k}
  /\ UNCHANGED <<active, login, states, lis, closing, call, carry, pasted>>

-----------------------------------------------------------------------------
\* The other writers of the store: Get of a token or of all of them, a call to
\* the vendor or a command's work between, and Put.
ReadTokens(w) ==
  /\ carry[w] = {}
  /\ \E K \in SUBSET signed : carry' = [carry EXCEPT ![w] = K]
  /\ UNCHANGED <<active, login, states, lis, closing, call, out, signed, pasted, late>>

\* It is put back although the account may be signed out by now.
PutTokens(w) ==
  /\ signed' = signed \cup carry[w]
  /\ carry' = [carry EXCEPT ![w] = {}]
  /\ UNCHANGED <<active, login, states, lis, closing, call, out, pasted, late>>

\* The vendor refused the refresh.
LetGo(w) ==
  /\ carry' = [carry EXCEPT ![w] = {}]
  /\ UNCHANGED <<active, login, states, lis, closing, call, out, signed, pasted, late>>

SettleLogin(c) == Refused(c) \/ TurnedAway(c) \/ Exchange(c) \/ Finish(c)
Device(l) == DeviceToken(l) \/ DeviceEnd(l)

LoginNext ==
  \/ \E k \in Keys, l \in Logins : \E p \in {"installed", "polling"} : Login(k, l, p)
  \/ \E l \in Logins : Bind(l) \/ BindFail(l) \/ Register(l)
  \/ \E l \in Logins : expireBrowserLogin(l) \/ closeCallback(l) \/ Device(l)
  \/ \E c \in Callers : \/ SettleLogin(c)
                        \/ \E l \in Logins : Callback(c, l)
                        \/ \E k \in Keys : Paste(c, k)
  \/ \E k \in Outs : Logout(k) \/ Released(k) \/ DeleteToken(k)
  \/ \E w \in Writers : ReadTokens(w) \/ PutTokens(w) \/ LetGo(w)

\* Handlers go on; every login has a deadline (10 minutes for a browser login,
\* the device code's lifetime for the other).
Starts(l) == Bind(l) \/ BindFail(l) \/ Register(l) \/ Device(l)

LoginFairness ==
  /\ \A l \in Logins :
       /\ WF_loginVars(Starts(l))
       /\ WF_loginVars(expireBrowserLogin(l)) /\ WF_loginVars(closeCallback(l))
  /\ \A c \in Callers : WF_loginVars(SettleLogin(c))
  /\ \A k \in Outs : WF_loginVars(Released(k) \/ DeleteToken(k))

LoginSpec == LoginInit /\ [][LoginNext]_loginVars /\ LoginFairness

-----------------------------------------------------------------------------
\* A signed-out account stays signed out until the next sign-in, unless its
\* token was being refreshed, a code exchanged or a login begun when the token
\* was deleted: it waits for a device login to end, and no settled login stores
\* a token.  (A login finished by a pasted code is left out: its state stays
\* registered and still works.)
LoggedOut ==
  \A k \in Outs :
    out[k].at = "gone" /\ k \notin late /\ (\A l \in pasted : login[l].key # k) => k \notin signed

\* A sign-out that waits for a pending login is released, unless that login
\* could not be started.
Awaited(k) == out[k].at = "wait" /\ login[out[k].lg].phase # "dead"
LogoutReturns == \A k \in Outs : Awaited(k) ~> ~Awaited(k)

\* The vendor's registered port is given back once the last login settles.
\* A login finished by a pasted code is left out here too.
Quiet == pasted = {} /\ \A l \in Logins : ~Pending(l)
PortKept == lis /\ Quiet
PortFreed == PortKept ~> ~PortKept

\* admin_oauth_browser.go: "One listener serves every pending browser login:
\* it opens with the first one and closes browserCallbackIdle after the last
\* settles".  A login that awaits its callback can be reached.
PendingReachable == \A l \in states : Pending(l) => lis
=============================================================================
