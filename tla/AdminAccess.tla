----------------------------- MODULE AdminAccess -----------------------------
(*****************************************************************************)
(* How an admin gets in and stays in: the password step, the code step, the  *)
(* lockout both count towards, and the session a request is admitted by.     *)
(* The account is one row that every attempt reads, thinks about (a slow     *)
(* hash, a TOTP check) and then tries to write; challenges live in Redis and *)
(* sessions in a table of their own.                                         *)
(*****************************************************************************)
EXTENDS Integers, Sequences, FiniteSetsExt

CONSTANTS
  Requests,       \* requests that may be under way at once
  Threshold,      \* ADMIN_LOCKOUT_FAILURE_THRESHOLD
  Window,         \* ADMIN_LOCKOUT_WINDOW_MS, in ticks of the clock
  Schedule,       \* ADMIN_LOCKOUT_BACKOFF_SCHEDULE_MS, in ticks
  ChallengeTtl,   \* ADMIN_MFA_CHALLENGE_TTL_MS, in ticks
  IdleTimeout,    \* ADMIN_SESSION_IDLE_TIMEOUT_MS, in ticks
  Lifetime,       \* ADMIN_SESSION_ABSOLUTE_LIFETIME_MS, in ticks
  MaxTicks,       \* bound: the clock stops here
  MaxRequests,    \* bound: requests in all
  MaxLogins       \* bound: challenges, and sessions, in all

ASSUME LoginAssumption ==
  /\ Threshold \in Nat \ {0}
  /\ Schedule \in Seq(Nat) /\ Schedule # <<>>
  /\ Window \in Nat /\ ChallengeTtl \in Nat /\ IdleTimeout \in Nat /\ Lifetime \in Nat
  /\ MaxTicks \in Nat /\ MaxRequests \in Nat /\ MaxLogins \in Nat

VARIABLES
  time,
  active,      \* the admin's status is 'active'
  lockout,     \* the four columns of AdminLockoutState
  challenge,   \* challenges by number: live until a time, or used
  session,     \* rows of admin_sessions, by number
  request,     \* [Requests -> the request's progress]
  requests,    \* begun so far
  counted,     \* failures written to the row since it was last reset
  forgotten    \* of these, the ones a new window has wiped out

loginVars == <<time, active, lockout, challenge, session, request, requests, counted, forgotten>>

Unset == 0
Clear == [attempts |-> 0, since |-> Unset, until |-> Unset, cycles |-> 0]
Idle == [step |-> "idle", now |-> 1, saw |-> Clear, tries |-> 0, of |-> 0]

LoginInit ==
  /\ time = 1 /\ active = TRUE
  /\ lockout = Clear
  /\ challenge = <<>> /\ session = <<>>
  /\ request = [c \in Requests |-> Idle]
  /\ requests = 0 /\ counted = 0 /\ forgotten = 0

(***************************************************************************)
(* compute-admin-lockout-outcome.ts                                        *)
(***************************************************************************)
Locked(state, now) == state.until > now

Backoff(cycle) == Schedule[IF cycle > Len(Schedule) THEN Len(Schedule) ELSE cycle]

WindowExpired(state, now) == state.since = Unset \/ now - state.since > Window

Counts(state, now) ==
  LET fresh == WindowExpired(state, now)
      attempts == IF fresh THEN 1 ELSE state.attempts + 1
  IN IF attempts >= Threshold
     THEN [attempts |-> 0, since |-> Unset, until |-> now + Backoff(state.cycles + 1),
           cycles |-> state.cycles + 1]
     ELSE [attempts |-> attempts, since |-> IF fresh THEN now ELSE state.since,
           until |-> Unset, cycles |-> state.cycles]

\* As it would be without the question whether the account is locked by now.
OutcomeEvenLocked(state, now) == Counts(state, now)

Outcome(state, now) == IF Locked(state, now) THEN state ELSE Counts(state, now)

MovesTo(c, step) == request' = [request EXCEPT ![c].step = step]
Finishes(c) == request' = [request EXCEPT ![c] = Idle]
Begins(c, step, what) ==
  /\ request[c].step = "idle" /\ requests < MaxRequests
  /\ requests' = requests + 1
  /\ request' = [request EXCEPT ![c] = [Idle EXCEPT !.step = step, !.now = time, !.of = what]]

sessionVars == <<session>>
lockVars == <<lockout, counted, forgotten>>

(***************************************************************************)
(* The password step                                                       *)
(***************************************************************************)
\* A locked or inactive account, or an unknown one, costs a dummy hash and
\* changes nothing.
LoginReads(c) ==
  /\ active /\ ~Locked(lockout, time)
  /\ request[c].step = "idle" /\ requests < MaxRequests
  /\ requests' = requests + 1
  /\ request' = [request EXCEPT ![c] = [Idle EXCEPT !.step = "password", !.now = time, !.saw = lockout]]
  /\ UNCHANGED <<time, active, challenge, session, lockVars>>

PasswordRight(c) ==
  /\ request[c].step = "password" /\ Len(challenge) < MaxLogins
  /\ challenge' = Append(challenge, [expires |-> time + ChallengeTtl, used |-> FALSE])
  /\ Finishes(c)
  /\ UNCHANGED <<time, active, session, requests, lockVars>>

Wrong(c) ==
  /\ request[c].step \in {"password", "code"}
  /\ MovesTo(c, "failing")
  /\ UNCHANGED <<time, active, challenge, session, requests, lockVars>>

(***************************************************************************)
(* applyAdminLoginFailure: write if nothing has changed, else read again,  *)
(* three times at most                                                     *)
(***************************************************************************)
Retries == 3

\* As it would be with the row's id alone in the WHERE clause.
MayWriteAnyway(c) == TRUE

MayWrite(c) == lockout = request[c].saw

WriteFailure(c) ==
  LET saw == request[c].saw
      now == request[c].now
  IN /\ request[c].step = "failing" /\ MayWrite(c)
     /\ lockout' = Outcome(saw, now)
     /\ IF Locked(saw, now)
        THEN UNCHANGED <<counted, forgotten>>
        ELSE /\ counted' = counted + 1
             /\ forgotten' = forgotten + IF WindowExpired(saw, now) THEN saw.attempts ELSE 0
     /\ Finishes(c)
     /\ UNCHANGED <<time, active, challenge, session, requests>>

LosesWrite(c) ==
  /\ request[c].step = "failing" /\ ~MayWrite(c)
  /\ request' = [request EXCEPT ![c].step = "again"]
  /\ UNCHANGED <<time, active, challenge, session, requests, lockVars>>

ReadsAgain(c) ==
  /\ request[c].step = "again"
  /\ IF request[c].tries + 1 < Retries
     THEN request' = [request EXCEPT ![c].step = "failing", ![c].saw = lockout, ![c].tries = @ + 1]
     ELSE Finishes(c)
  /\ UNCHANGED <<time, active, challenge, session, requests, lockVars>>

(***************************************************************************)
(* The code step                                                           *)
(***************************************************************************)
Live(h) == ~challenge[h].used /\ challenge[h].expires > time

GetChallenge(c, h) ==
  /\ Live(h)
  /\ Begins(c, "challenged", h)
  /\ UNCHANGED <<time, active, challenge, session, lockVars>>

ReadsAdmin(c) ==
  /\ request[c].step = "challenged"
  /\ IF active /\ ~Locked(lockout, request[c].now)
     THEN request' = [request EXCEPT ![c].step = "code", ![c].saw = lockout]
     ELSE Finishes(c)
  /\ UNCHANGED <<time, active, challenge, session, requests, lockVars>>

CodeRight(c) ==
  /\ request[c].step = "code"
  /\ MovesTo(c, "consuming")
  /\ UNCHANGED <<time, active, challenge, session, requests, lockVars>>

Used(h) == [challenge EXCEPT ![h].used = TRUE]

\* A DEL whose answer nobody looks at.
Consume(c) ==
  /\ request[c].step = "consuming"
  /\ challenge' = Used(request[c].of)
  /\ MovesTo(c, "resetting")
  /\ UNCHANGED <<time, active, session, requests, lockVars>>

\* resetLoginFailureState: by id, whatever has been counted since.
Reset(c) ==
  /\ request[c].step = "resetting"
  /\ lockout' = Clear /\ counted' = 0 /\ forgotten' = 0
  /\ MovesTo(c, "opening")
  /\ UNCHANGED <<time, active, challenge, session, requests>>

\* For the properties a row also keeps: the latest request it admitted and the longest
\* time between two, when it was first revoked, when its code step began and ended.
OpenSession(c) ==
  /\ request[c].step = "opening" /\ Len(session) < MaxLogins
  /\ session' = Append(session,
       [last |-> time, expires |-> request[c].now + Lifetime, revoked |-> FALSE,
        used |-> time, pause |-> 0, ended |-> Unset,
        challenge |-> request[c].of, began |-> request[c].now, opened |-> time])
  /\ Finishes(c)
  /\ UNCHANGED <<time, active, challenge, requests, lockVars>>

(***************************************************************************)
(* A request with a session token: AdminSessionGuard; and logout           *)
(***************************************************************************)
\* As it would be with the absolute lifetime alone.
TooIdleNever(s, now) == FALSE

TooIdle(s, now) == now - session[s].last > IdleTimeout

FindSession(c, s) ==
  /\ ~session[s].revoked /\ session[s].expires > time
  /\ Begins(c, IF TooIdle(s, time) THEN "revoking" ELSE "found", s)
  /\ UNCHANGED <<time, active, challenge, session, lockVars>>

\* The guard has admitted the request; the use case looks the session up again.
Logout(c, s) ==
  /\ ~session[s].revoked /\ session[s].expires > time
  /\ Begins(c, "revoking", s)
  /\ UNCHANGED <<time, active, challenge, session, lockVars>>

ChecksAdmin(c) ==
  /\ request[c].step = "found"
  /\ MovesTo(c, IF active THEN "touching" ELSE "revoking")
  /\ UNCHANGED <<time, active, challenge, session, requests, lockVars>>

Touch(c) ==
  LET s == request[c].of
      pause == request[c].now - session[s].used
  IN
  /\ request[c].step = "touching"
  /\ session' = [session EXCEPT ![s].last = request[c].now,
                                ![s].used = Max({@, request[c].now}),
                                ![s].pause = Max({@, pause})]
  /\ Finishes(c)
  /\ UNCHANGED <<time, active, challenge, requests, lockVars>>

Revoke(c) ==
  LET s == request[c].of IN
  /\ request[c].step = "revoking"
  /\ session' = [session EXCEPT ![s].revoked = TRUE,
                                ![s].ended = IF @ = Unset THEN time ELSE @]
  /\ Finishes(c)
  /\ UNCHANGED <<time, active, challenge, requests, lockVars>>

\* An operator takes the account's status away; no code gives it back.
Deactivate ==
  /\ active /\ active' = FALSE
  /\ UNCHANGED <<time, lockout, challenge, session, request, requests, counted, forgotten>>

\* The process dies: what a request has written stays.
Dies(c) ==
  /\ request[c].step # "idle"
  /\ Finishes(c)
  /\ UNCHANGED <<time, active, challenge, session, requests, lockVars>>

TimePasses ==
  /\ time < MaxTicks
  /\ time' = time + 1
  /\ UNCHANGED <<active, lockout, challenge, session, request, requests, counted, forgotten>>

LoginNext ==
  \/ TimePasses \/ Deactivate
  \/ \E c \in Requests :
       \/ LoginReads(c) \/ PasswordRight(c) \/ Wrong(c)
       \/ WriteFailure(c) \/ LosesWrite(c) \/ ReadsAgain(c)
       \/ ReadsAdmin(c) \/ CodeRight(c) \/ Consume(c) \/ Reset(c) \/ OpenSession(c)
       \/ ChecksAdmin(c) \/ Touch(c) \/ Revoke(c) \/ Dies(c)
       \/ \E h \in DOMAIN challenge : GetChallenge(c, h)
       \/ \E s \in DOMAIN session : FindSession(c, s) \/ Logout(c, s)

LoginSpec == LoginInit /\ [][LoginNext]_loginVars

(***************************************************************************)
(* Properties                                                              *)
(***************************************************************************)
\* However the wrong passwords and wrong codes overlap, every failure that was
\* written to the row has moved it on by one: it is among the attempts of this
\* window, in one of the lockout cycles, or in a window that has passed.
FailuresAddUp == counted = Threshold * lockout.cycles + lockout.attempts + forgotten

\* A lock that is running is never cut short or made to start again by a wrong
\* answer: only a right password and a right code lift it.
LocksHold ==
  [][Locked(lockout, time) /\ lockout' # lockout => lockout' = Clear]_loginVars

\* A challenge that has opened a session opens no other, unless the two code
\* steps overlapped; and a session outlives neither logout, nor idleness, nor its
\* lifetime: no request that began after any of them is admitted by it, and nobody
\* comes back to one left alone for longer than the idle timeout.
SessionsComeAndGo ==
  /\ \A s, t \in DOMAIN session :
       s < t /\ session[s].challenge = session[t].challenge => session[t].began <= session[s].opened
  /\ \A s \in DOMAIN session :
       /\ session[s].used > session[s].opened => session[s].used < session[s].expires
       /\ session[s].ended # Unset => session[s].used <= session[s].ended
       /\ session[s].pause <= IdleTimeout
=============================================================================
