---------------------------- MODULE RateLimiter ----------------------------
(***************************************************************************)
(* The limits of one API key (internal/ratelimit/ratelimit.go) as the      *)
(* request path applies them (internal/server/policy.go): a window of      *)
(* Window seconds kept as a ring of one-second buckets, one ring for       *)
(* requests and one for tokens.  AllowRPM and TPMBlocked read the clock    *)
(* before they take the lock, so a check may carry a time that others have *)
(* passed; ObserveTPM reads it under the lock.  Keys share nothing but the *)
(* lock, and a key without an entry is one with empty rings.               *)
(***************************************************************************)
EXTENDS Naturals, FiniteSets, FiniteSetsExt

CONSTANTS
  Reqs,       \* requests of the key being handled
  Window,     \* windowSeconds
  Rpm, Tpm,   \* the key's limits, both in force
  MaxTokens,  \* the most tokens one answer reports
  MaxLag,     \* bound: seconds a check may wait for the lock
  MaxClock    \* bound: the clock

ASSUME LimiterAssumption ==
  /\ IsFiniteSet(Reqs) /\ Window \in Nat \ {0} /\ MaxLag \in Nat /\ MaxLag < Window
  /\ Rpm \in Nat \ {0} /\ Tpm \in Nat \ {0} /\ MaxTokens \in Nat \ {0}
  /\ MaxClock \in Nat /\ Window <= MaxClock

VARIABLES
  clock,      \* unix seconds
  req, tok,   \* the rings of entry
  pc,         \* request -> where its handler is
  check,      \* request -> the check it is at
  stamp,      \* request -> the second its pending check read
  served,     \* history: second -> requests whose slot is stamped with it and that were let in
  entered,    \* history: second -> requests that were let in during it
  used        \* history: second -> tokens observed during it

rings  == <<req, tok>>
booked == <<served, entered, used>>
limiterVars == <<clock, rings, pc, check, stamp, booked>>

Seconds == 0 .. MaxClock
Indices == 0 .. (Window - 1)

LimiterInit ==
  /\ clock = Window
  /\ req = [i \in Indices |-> [sec |-> 0, v |-> 0]]
  /\ tok = [i \in Indices |-> [sec |-> 0, v |-> 0]]
  /\ pc = [r \in Reqs |-> "idle"]
  /\ check = [r \in Reqs |-> 1]
  /\ stamp = [r \in Reqs |-> 0]
  /\ served  = [t \in Seconds |-> 0]
  /\ entered = [t \in Seconds |-> 0]
  /\ used    = [t \in Seconds |-> 0]

\* The history keeps the seconds that the properties look back to at the
\* next tick.
Remembered(h) == [t \in Seconds |-> IF t + Window > clock + 1 + MaxLag THEN h[t] ELSE 0]

LimiterTick ==
  /\ clock < MaxClock
  /\ \A r \in Reqs : pc[r] = "locking" => clock < stamp[r] + MaxLag
  /\ clock' = clock + 1
  /\ served' = Remembered(served) /\ entered' = Remembered(entered)
  /\ used' = Remembered(used)
  /\ UNCHANGED <<rings, pc, check, stamp>>
-----------------------------------------------------------------------------
(* The ring.                                                               *)

\* A plausible bug: a reused bucket keeps the second it stood for.
Mut_add_Unstamped(w, t, n) == [w EXCEPT ![t % Window].v = @ + n]

\* add(): count n into the bucket of second t.
add(w, t, n) ==
  [w EXCEPT ![t % Window] = [sec |-> t, v |-> IF @.sec = t THEN @.v + n ELSE n]]

Expired(b, t) == t >= b.sec + Window

\* What sumAt leaves of the ring: buckets out of the window are zeroed.
Swept(w, t) == [i \in Indices |-> IF Expired(w[i], t) THEN [w[i] EXCEPT !.v = 0] ELSE w[i]]

\* The sum of the values of f, one cell a unit.
Volume(f) == Cardinality(UNION {{i} \X (1 .. f[i]) : i \in DOMAIN f})

\* sumAt's sum and its contributing seconds.
Sum(w, t) == Volume([i \in Indices |-> Swept(w, t)[i].v])
Contributing(w, t) == {w[i].sec : i \in {j \in Indices : Swept(w, t)[j].v # 0}}

\* A plausible bug: the last second of the oldest bucket is forgotten.
Mut_Retry_Short(w, t) == Max({1, Min(Contributing(w, t)) + Window - 1 - t})

\* The Retry-After of a refusal at t: the oldest bucket leaves the window.
Retry(w, t) == IF Contributing(w, t) = {} THEN Window
               ELSE Max({1, Min(Contributing(w, t)) + Window - t})
-----------------------------------------------------------------------------
(* The checks of a request, in enforceRateLimits' order.                   *)

\* A plausible bug: the request slot is taken before the tokens are checked.
Mut_Order_SlotFirst == <<"rpm", "tpm">>

Order == <<"tpm", "rpm">>

Goto(r, label) == pc' = [pc EXCEPT ![r] = label]

Arrive(r) == /\ pc[r] = "idle"
             /\ Goto(r, "asking")
             /\ UNCHANGED <<clock, rings, check, stamp, booked>>

\* The check reads the clock; the lock is still to be taken.
ReadClock(r) == /\ pc[r] = "asking"
                /\ stamp' = [stamp EXCEPT ![r] = clock]
                /\ Goto(r, "locking")
                /\ UNCHANGED <<clock, rings, check, booked>>

\* Under the lock of check name; stamp[r] is the time it works with.
At(r, name) == pc[r] = "locking" /\ Order[check[r]] = name

\* A plausible bug: one more than the limit.
Mut_Full_OneMore(w, t, limit) == Sum(w, t) > limit

Full(w, t, limit) == Sum(w, t) >= limit

\* The check let the request through: to the next one, or in.
Passed(r) ==
  /\ check' = [check EXCEPT ![r] = IF @ = 1 THEN 2 ELSE 1]
  /\ Goto(r, IF check[r] = 1 THEN "asking" ELSE "serving")
  /\ entered' = IF check[r] = 1 THEN entered ELSE [entered EXCEPT ![clock] = @ + 1]
  /\ served' = IF check[r] = 1 THEN served ELSE [served EXCEPT ![stamp[r]] = @ + 1]
  /\ stamp' = [stamp EXCEPT ![r] = 0]
  /\ UNCHANGED <<clock, used>>

\* Answered with a 429.
Refused(r) == /\ Goto(r, "idle")
              /\ check' = [check EXCEPT ![r] = 1]
              /\ stamp' = [stamp EXCEPT ![r] = 0]
              /\ UNCHANGED <<clock, booked>>

TPMBlocked(r) == /\ At(r, "tpm") /\ Full(tok, stamp[r], Tpm)
                 /\ tok' = Swept(tok, stamp[r])
                 /\ Refused(r)
                 /\ UNCHANGED req

TPMClear(r) == /\ At(r, "tpm") /\ ~Full(tok, stamp[r], Tpm)
               /\ tok' = Swept(tok, stamp[r])
               /\ Passed(r)
               /\ UNCHANGED req

DenyRPM(r) == /\ At(r, "rpm") /\ Full(req, stamp[r], Rpm)
              /\ req' = Swept(req, stamp[r])
              /\ Refused(r)
              /\ UNCHANGED tok

AllowRPM(r) == /\ At(r, "rpm") /\ ~Full(req, stamp[r], Rpm)
               /\ req' = add(Swept(req, stamp[r]), stamp[r], 1)
               /\ Passed(r)
               /\ UNCHANGED tok

\* The request ended; what it used is recorded.
ObserveTPM(r) == /\ pc[r] = "serving"
                 /\ \E n \in 1 .. MaxTokens :
                      /\ tok' = add(tok, clock, n)
                      /\ used' = [used EXCEPT ![clock] = @ + n]
                 /\ Goto(r, "idle")
                 /\ UNCHANGED <<clock, req, check, stamp, served, entered>>

\* It failed, or its answer reported nothing.
Unobserved(r) == /\ pc[r] = "serving"
                 /\ Goto(r, "idle")
                 /\ UNCHANGED <<clock, rings, check, stamp, booked>>

LimiterNext ==
  \/ LimiterTick
  \/ \E r \in Reqs : \/ Arrive(r) \/ ReadClock(r)
                     \/ TPMBlocked(r) \/ TPMClear(r) \/ DenyRPM(r) \/ AllowRPM(r)
                     \/ ObserveTPM(r) \/ Unobserved(r)

LimiterSpec == LimiterInit /\ [][LimiterNext]_limiterVars
-----------------------------------------------------------------------------
Ring == [Indices -> [sec : Seconds, v : Nat]]

\* Types, and what the ring's index promises: a bucket sits at its second's
\* index, and none is stamped ahead of the clock.
LimiterTypeOK ==
  /\ clock \in Seconds
  /\ req \in Ring /\ tok \in Ring
  /\ \A w \in {req, tok}, i \in Indices :
        w[i].v # 0 => w[i].sec % Window = i /\ w[i].sec <= clock
  /\ pc \in [Reqs -> {"idle", "asking", "locking", "serving"}]
  /\ check \in [Reqs -> {1, 2}]
  /\ stamp \in [Reqs -> Seconds]
  /\ \A h \in {served, entered, used} : h \in [Seconds -> Nat]

Total(h, first, last) == Volume([t \in {s \in Seconds : first <= s /\ s <= last} |-> h[t]])

\* The seconds no check can take for aged out, even one that is MaxLag late.
Recent == (clock + 1 + MaxLag - Window) .. clock

\* What a ring holds for second t.
Counted(w, t) == LET b == w[t % Window] IN IF b.sec = t THEN b.v ELSE 0

(* The rings are the sliding windows: for every second that can still      *)
(* count, the buckets hold exactly the tokens observed in it and the       *)
(* requests let in with a slot stamped in it; so a slot is never spent on  *)
(* a request that the token limit turns away ("A request blocked on TPM    *)
(* must not consume an RPM slot").                                         *)
RingExact ==
  \A t \in Recent : Counted(req, t) = served[t] /\ Counted(tok, t) = used[t]

(* However long checks wait for the lock (up to MaxLag), no stretch of     *)
(* Window - MaxLag seconds admits more than Rpm requests (AllowRPM).       *)
WindowHeld == Total(entered, clock + 1 + MaxLag - Window, clock) <= Rpm

(* The overshoot the token limit allows: below the limit before the last   *)
(* admission, plus the requests in flight then ("a burst can overshoot the *)
(* token budget by the concurrent in-flight volume once per window").      *)
TokenOvershoot ==
  Total(used, clock + 1 + MaxLag - Window, clock)
     <= Tpm - 1 + Cardinality(Reqs) * MaxTokens

(* A refused client that waits the announced seconds finds a free slot if  *)
(* nobody else came (AllowRPM: "the seconds until the oldest contributing  *)
(* request leaves the window").                                            *)
RetrySuffices ==
  \A r \in Reqs : At(r, "rpm") /\ Full(req, stamp[r], Rpm)
     => ~Full(req, stamp[r] + Retry(req, stamp[r]), Rpm)

(* A key's limits hold over any stretch of a window, and a refusal names a *)
(* wait that is long enough (AllowRPM, AllowTPM).                          *)
LimitHeld == LimiterTypeOK /\ RingExact /\ WindowHeld /\ TokenOvershoot /\ RetrySuffices
=============================================================================
