---------------------------- MODULE AdminSessions ----------------------------
(***************************************************************************)
(* Signing in to the dashboard (admin_session.go): the session table and   *)
(* the guard that blocks an address after too many wrong passwords.        *)
(*                                                                         *)
(* handleAdminLogin reads the password, asks the guard, reads the body,    *)
(* compares, and only then counts the failure, so several requests of one  *)
(* address are in between at once.  Time is a counter; a password is the   *)
(* number of changes before it.                                            *)
(***************************************************************************)
EXTENDS Naturals, FiniteSets

CONSTANTS
  Ips, Reqs,
  MaxLoginFails, LoginBlock,   \* maxLoginFails, loginBlockAfter
  GuardCap,                    \* the 256 addresses the guard remembers
  MaxSessions, SessionTTL,
  MaxTime, MaxChanges,         \* bounds
  Absent

\* What a configuration must satisfy.
ASSUME GuardAssumption ==
  /\ IsFiniteSet(Reqs) /\ Absent \notin [n : Nat, until : Nat]
  /\ MaxLoginFails \in Nat \ {0} /\ LoginBlock \in Nat \ {0} /\ GuardCap \in Nat \ {0}
  /\ MaxSessions \in Nat \ {0} /\ SessionTTL \in Nat
  /\ MaxTime \in Nat /\ MaxChanges \in Nat

VARIABLES
  now,
  secret,  \* the admin password
  logins,  \* the guard: each address, Absent when it is not known
  sess,    \* the session table
  visit,   \* login requests
  wrong,   \* history: wrong passwords an address had compared in this window
  shut     \* history: sessions evicted while they were live and the table was not full

guardVars == <<now, secret, logins, sess, visit, wrong, shut>>

NoVisit == [at |-> "idle", ip |-> Absent, pw |-> 0]

GuardInit ==
  /\ now = 1 /\ secret = 0
  /\ logins = [i \in Ips |-> Absent]
  /\ sess = {}
  /\ visit = [r \in Reqs |-> NoVisit]
  /\ wrong = [i \in Ips |-> 0]
  /\ shut = FALSE

Blocked(i) == logins[i] # Absent /\ logins[i].until > now
Expired(s) == now > s.exp
Soonest(S) == CHOOSE s \in S : \A t \in S : s.exp <= t.exp

-----------------------------------------------------------------------------
\* The guard.  An address counts from 0 again when its block is over.
Arrive(r, i) ==
  /\ visit[r].at = "idle"
  /\ ~Blocked(i)
  /\ visit' = [visit EXCEPT ![r] = [at |-> "open", ip |-> i, pw |-> secret]]
  /\ wrong' = IF logins[i] # Absent /\ logins[i].until \in 1..now THEN [wrong EXCEPT ![i] = 0] ELSE wrong
  /\ UNCHANGED <<now, secret, logins, sess, shut>>

\* A plausible bug: the limit is passed, not reached.
Mut_Counted_Late(f) ==
  IF f.n + 1 > MaxLoginFails THEN [n |-> 0, until |-> now + LoginBlock] ELSE [f EXCEPT !.n = @ + 1]

\* One failure counted; the limit starts a block and the count again.
Counted(f) ==
  IF f.n + 1 >= MaxLoginFails THEN [n |-> 0, until |-> now + LoginBlock] ELSE [f EXCEPT !.n = @ + 1]

\* A full guard forgets every address whose block ended long ago or never
\* began, and any others until there is room.
Forget(i) ==
  LET known == {j \in Ips : logins[j] # Absent}
      old == {j \in known : logins[j].until = 0 \/ logins[j].until + LoginBlock < now}
  IN IF Cardinality(known) < GuardCap THEN {{}}
     ELSE {D \in SUBSET known :
             /\ old \subseteq D
             /\ Cardinality(known \ D) < GuardCap
             /\ D # old => Cardinality(known \ D) = GuardCap - 1}

Fail(r) ==
  LET i == visit[r].ip IN
  /\ visit[r].at = "open"
  /\ \E D \in Forget(i) :
       LET f == IF logins[i] = Absent \/ i \in D THEN [n |-> 0, until |-> 0] ELSE logins[i]
       IN /\ logins' = [j \in Ips |-> IF j = i THEN Counted(f) ELSE IF j \in D THEN Absent ELSE logins[j]]
          /\ wrong' = [j \in Ips |-> IF j = i THEN (IF i \in D THEN 1 ELSE wrong[i] + 1)
                                     ELSE IF j \in D THEN 0 ELSE wrong[j]]
  /\ visit' = [visit EXCEPT ![r] = NoVisit]
  /\ UNCHANGED <<now, secret, sess, shut>>

-----------------------------------------------------------------------------
\* The right password, as it was when the request came in.
Pass(r) ==
  /\ visit[r].at = "open"
  /\ logins' = [logins EXCEPT ![visit[r].ip] = Absent]
  /\ wrong' = [wrong EXCEPT ![visit[r].ip] = 0]
  /\ visit' = [visit EXCEPT ![r].at = "right"]
  /\ UNCHANGED <<now, secret, sess, shut>>

\* A plausible bug: the comparison is turned round, and the newest one goes.
Mut_Room_Newest ==
  IF Cardinality(sess) >= MaxSessions THEN sess \ {CHOOSE s \in sess : \A t \in sess : s.exp >= t.exp} ELSE sess

\* issue: the expired sessions go first, then the one that would expire first.
Room ==
  LET swept == IF Cardinality(sess) >= MaxSessions THEN {s \in sess : ~Expired(s)} ELSE sess
  IN IF Cardinality(swept) >= MaxSessions THEN swept \ {Soonest(swept)} ELSE swept

Issue(r) ==
  /\ visit[r].at = "right"
  /\ sess' = Room \cup {[of |-> r, pw |-> visit[r].pw, exp |-> now + SessionTTL]}
  /\ shut' = (shut \/ \E s \in sess \ Room :
                        ~Expired(s) /\ (\E t \in Room : t.exp < s.exp \/ Expired(t)))
  /\ visit' = [visit EXCEPT ![r] = NoVisit]
  /\ UNCHANGED <<now, secret, logins, wrong>>

Logout ==
  /\ \E s \in sess : sess' = sess \ {s}
  /\ UNCHANGED <<now, secret, logins, visit, wrong, shut>>

\* handleAdminPassword: the new password is live, then the table is cleared.
ChangePassword ==
  /\ secret < MaxChanges
  /\ secret' = secret + 1 /\ sess' = {}
  /\ UNCHANGED <<now, logins, visit, wrong, shut>>

Tick == now < MaxTime /\ now' = now + 1 /\ UNCHANGED <<secret, logins, sess, visit, wrong, shut>>

GuardNext ==
  \/ \E r \in Reqs : (\E i \in Ips : Arrive(r, i)) \/ Fail(r) \/ Pass(r) \/ Issue(r)
  \/ Logout \/ ChangePassword \/ Tick

GuardSpec == GuardInit /\ [][GuardNext]_guardVars

-----------------------------------------------------------------------------
\* An address compares at most maxLoginFails wrong passwords before it is
\* blocked, plus the requests that were already past the guard: the check and
\* the count are two critical sections, and this is all they let through.
GuessesBounded == \A i \in Ips : wrong[i] <= MaxLoginFails + Cardinality(Reqs) - 1

\* The table never outgrows its cap, and a sign-in never costs a live session
\* while an expired or an older one could go.
SessionsKept == Cardinality(sess) <= MaxSessions /\ ~shut

(* Neither overlapping requests nor a full table give away more than the   *)
(* guard allows, or sign a live session out.                               *)
GuardHolds == GuessesBounded /\ SessionsKept
=============================================================================
