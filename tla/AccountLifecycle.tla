-------------------------- MODULE AccountLifecycle ---------------------------
(***************************************************************************)
(* A user's row from the first message to the purge: provisioning by every *)
(* update, blocking by an admin, the request for deletion with its grace   *)
(* period, and the scheduled scan that deletes what the period has left    *)
(* behind, table by table, then the files, then the row.  Updates, admins  *)
(* and scans of several worker processes overlap.                          *)
(***************************************************************************)
EXTENDS Integers, FiniteSets

CONSTANTS
  Users,        \* ids of users, each with a chat of its own
  Calls,        \* updates and admin requests that may be under way at once
  Scans,        \* worker processes that may run the purge job at once
  Grace,        \* ACCOUNT_DELETION_GRACE_PERIOD_DAYS, in ticks of the clock
  MaxTime,      \* bound: the clock stops here
  MaxCalls,     \* bound: updates and admin requests in all
  MaxRows,      \* bound: rows and files made
  MaxFailures   \* bound: failed statements, storage calls and crashes of scans

\* A call outlives at most one tick; a chain of two must not outlive the grace period.
ASSUME GraceAssumption == Grace \in Nat /\ Grace >= 3

ASSUME BoundsAssumption ==
  /\ Users # {} /\ MaxTime \in Nat \ {0}
  /\ MaxCalls \in Nat /\ MaxRows \in Nat /\ MaxFailures \in Nat

VARIABLES
  clock,
  user,       \* [Users -> rows of users]
  holds,      \* [Users -> SUBSET Kinds]: what refers to the user
  call,       \* the updates and requests under way
  scan,       \* the purge jobs under way
  audited,    \* users with an account_purge entry in audit_log
  told,       \* users whose final message has been queued
  overtaken,  \* users whose cancellation was timed before the deadline and written after
  begun, made, failures   \* counters of the bounds

vars == <<clock, user, holds, call, scan, audited, told, overtaken, begun, made, failures>>

\* records are the rows of the tables a purge clears; a custom category comes
\* with its category_translations row, which no statement ever deletes, nor
\* a support session's.
Kinds == {"records", "custom_category", "support_session", "objects"}
Never == 0

UserRows == [status : {"absent", "active", "pending_deletion", "deactivated", "purged"},
             requestedAt : Never..MaxTime]
CallStates == [step : {"idle", "handling", "suspended", "reactivating", "unblocking"},
               of : Users, now : 1..MaxTime]
ScanStates == [step : {"idle", "next", "rows", "categories", "objects", "audit", "user", "notify"},
               todo : SUBSET Users, of : Users]

\* A pending deletion always has its date: without it the row would never be due.
TypeOK ==
  /\ clock \in 1..MaxTime
  /\ user \in [Users -> UserRows]
  /\ \A u \in Users : user[u].status = "pending_deletion" => user[u].requestedAt # Never
  /\ holds \in [Users -> SUBSET Kinds]
  /\ call \in [Calls -> CallStates]
  /\ scan \in [Scans -> ScanStates]
  /\ audited \in SUBSET Users /\ told \in SUBSET Users /\ overtaken \in SUBSET Users
  /\ begun \in 0..MaxCalls /\ made \in 0..MaxRows /\ failures \in 0..MaxFailures

SomeUser == CHOOSE u \in Users : TRUE
NoCall == [step |-> "idle", of |-> SomeUser, now |-> 1]
NoScan == [step |-> "idle", todo |-> {}, of |-> SomeUser]

Init ==
  /\ clock = 1
  /\ user = [u \in Users |-> [status |-> "absent", requestedAt |-> Never]]
  /\ holds = [u \in Users |-> {}]
  /\ call = [c \in Calls |-> NoCall]
  /\ scan = [s \in Scans |-> NoScan]
  /\ audited = {} /\ told = {} /\ overtaken = {}
  /\ begun = 0 /\ made = 0 /\ failures = 0

Exists(u) == user[u].status \notin {"absent", "purged"}
Goes(c, step) == call' = [call EXCEPT ![c].step = step]
Returns(c) == call' = [call EXCEPT ![c] = NoCall]
Becomes(u, status) == user' = [user EXCEPT ![u].status = status]

purgeVars == <<scan, audited, told, failures>>

(***************************************************************************)
(* Updates of the bot: the middleware, then one handler                    *)
(***************************************************************************)
\* As it would be if whoever is not active were taken back.
AfterReadTakenBack(status) ==
  IF status \in {"absent", "active"} THEN "handling" ELSE "reactivating"

\* What the middleware makes of the row it has read.
AfterRead(status) ==
  CASE status \in {"absent", "active"} -> "handling"
    [] status = "deactivated" -> "reactivating"
    [] status = "pending_deletion" -> "suspended"

Provision(c, u) ==
  /\ call[c].step = "idle" /\ begun < MaxCalls
  /\ begun' = begun + 1
  /\ user[u].status # "purged"
  /\ call' = [call EXCEPT ![c] = [step |-> AfterRead(user[u].status), of |-> u, now |-> clock]]
  /\ user' = [user EXCEPT ![u].status = IF @ = "absent" THEN "active" ELSE @]
  /\ UNCHANGED <<clock, holds, overtaken, made, purgeVars>>

\* reactivate: UPDATE by id, whatever the status has become since it was read.
Reactivate(c) ==
  LET u == call[c].of IN
  /\ call[c].step \in {"reactivating", "unblocking"}
  /\ Exists(u)
  /\ Becomes(u, "active")
  /\ IF call[c].step = "reactivating" THEN Goes(c, "handling") ELSE Returns(c)
  /\ UNCHANGED <<clock, holds, overtaken, begun, made, purgeVars>>

\* Any handler that inserts for the user; the foreign key wants the row.
Records(c, kind) ==
  LET u == call[c].of IN
  /\ call[c].step = "handling"
  /\ Exists(u) /\ kind \notin holds[u] /\ made < MaxRows
  /\ holds' = [holds EXCEPT ![u] = @ \cup {kind}]
  /\ made' = made + 1
  /\ Returns(c)
  /\ UNCHANGED <<clock, user, overtaken, begun, purgeVars>>

MayRequest(u) == user[u].status = "active"

\* The typed DELETE: requestDeletion.
RequestDeletion(c) ==
  LET u == call[c].of IN
  /\ call[c].step = "handling"
  /\ MayRequest(u)
  /\ user' = [user EXCEPT ![u] = [status |-> "pending_deletion", requestedAt |-> call[c].now]]
  /\ Returns(c)
  /\ UNCHANGED <<clock, holds, overtaken, begun, made, purgeVars>>

DueAt(u, now) == user[u].status = "pending_deletion" /\ user[u].requestedAt + Grace <= now

MayCancel(u, now) == user[u].status = "pending_deletion" /\ ~DueAt(u, now)

Cancelled == [status |-> "active", requestedAt |-> Never]

\* delacct_cancel_pending, also from an old keyboard: cancelDeletion.
CancelDeletion(c) ==
  LET u == call[c].of IN
  /\ call[c].step \in {"handling", "suspended"}
  /\ MayCancel(u, call[c].now)
  /\ user' = [user EXCEPT ![u] = Cancelled]
  /\ overtaken' = IF DueAt(u, clock) /\ ~DueAt(u, call[c].now)
                  THEN overtaken \cup {u} ELSE overtaken
  /\ Returns(c)
  /\ UNCHANGED <<clock, holds, begun, made, purgeVars>>

\* The suspension notice, a handler that writes nothing of this, or an error.
Answers(c) ==
  /\ call[c].step # "idle"
  /\ Returns(c)
  /\ UNCHANGED <<clock, user, holds, overtaken, begun, made, purgeVars>>

(***************************************************************************)
(* Requests of admins                                                      *)
(***************************************************************************)
Block(u) ==
  /\ user[u].status = "active"
  /\ Becomes(u, "deactivated")
  /\ UNCHANGED <<clock, holds, call, overtaken, begun, made, purgeVars>>

\* unblock checks the status first and writes later.
Unblock(c, u) ==
  /\ call[c].step = "idle" /\ begun < MaxCalls
  /\ begun' = begun + 1
  /\ user[u].status = "deactivated"
  /\ call' = [call EXCEPT ![c] = [step |-> "unblocking", of |-> u, now |-> clock]]
  /\ UNCHANGED <<clock, user, holds, overtaken, made, purgeVars>>

\* A session may be opened about any user that exists; its row is never deleted.
OpenSupportSession(u) ==
  /\ Exists(u) /\ "support_session" \notin holds[u] /\ made < MaxRows
  /\ holds' = [holds EXCEPT ![u] = @ \cup {"support_session"}]
  /\ made' = made + 1
  /\ UNCHANGED <<clock, user, call, overtaken, begun, purgeVars>>

(***************************************************************************)
(* The purge job                                                           *)
(***************************************************************************)
callVars == <<clock, call, overtaken, begun, made>>

Moves(s, step) == scan' = [scan EXCEPT ![s].step = step]
Ends(s) == scan' = [scan EXCEPT ![s] = NoScan]

\* findExpiredPendingDeletions.
Expired == {u \in Users : DueAt(u, clock)}

FindExpired(s) ==
  /\ scan[s].step = "idle"
  /\ Expired # {}
  /\ scan' = [scan EXCEPT ![s].step = "next", ![s].todo = Expired]
  /\ UNCHANGED <<callVars, user, holds, audited, told, failures>>

\* The query states no order.
TakeUser(s, u) ==
  /\ scan[s].step = "next"
  /\ u \in scan[s].todo
  /\ scan' = [scan EXCEPT ![s] = [step |-> "rows", todo |-> @.todo \ {u}, of |-> u]]
  /\ UNCHANGED <<callVars, user, holds, audited, told, failures>>

ScanEnds(s) ==
  /\ scan[s].step = "next" /\ scan[s].todo = {}
  /\ Ends(s)
  /\ UNCHANGED <<callVars, user, holds, audited, told, failures>>

\* As it would be with a table left out of the list.
ClearedForgetful == {}

Cleared == {"records"}

\* Seventeen deleteMany in the order of their foreign keys.
EraseRows(s) ==
  /\ scan[s].step = "rows"
  /\ holds' = [holds EXCEPT ![scan[s].of] = @ \ Cleared]
  /\ Moves(s, "categories")
  /\ UNCHANGED <<callVars, user, audited, told, failures>>

\* The last of them, categories: their translations still refer to them, or,
\* for a role under row-level security, no policy lets any of them be deleted.
EraseCategories(s) ==
  /\ scan[s].step = "categories"
  /\ \/ Moves(s, "objects")
     \/ "custom_category" \in holds[scan[s].of] /\ Ends(s)
  /\ UNCHANGED <<callVars, user, holds, audited, told, failures>>

EraseObjects(s) ==
  /\ scan[s].step = "objects"
  /\ holds' = [holds EXCEPT ![scan[s].of] = @ \ {"objects"}]
  /\ Moves(s, "audit")
  /\ UNCHANGED <<callVars, user, audited, told, failures>>

\* storage_failure: the loop goes on with the next user.
StorageFails(s) ==
  /\ scan[s].step = "objects" /\ failures < MaxFailures
  /\ failures' = failures + 1
  /\ Moves(s, "next")
  /\ UNCHANGED <<callVars, user, holds, audited, told>>

WriteAudit(s) ==
  /\ scan[s].step = "audit"
  /\ audited' = audited \cup {scan[s].of}
  /\ Moves(s, "user")
  /\ UNCHANGED <<callVars, user, holds, told, failures>>

\* ON DELETE RESTRICT, of every table with a user_id.
Referenced(u) == holds[u] \cap {"records", "custom_category", "support_session"} # {}

DeleteUser(s) ==
  LET u == scan[s].of IN
  /\ scan[s].step = "user"
  /\ Exists(u) /\ ~Referenced(u)
  /\ user' = [user EXCEPT ![u] = [status |-> "purged", requestedAt |-> Never]]
  /\ Moves(s, "notify")
  /\ UNCHANGED <<callVars, holds, audited, told, failures>>

\* Refused by a reference, or the row is gone: the job fails, with all it had to do.
DeleteRefused(s) ==
  /\ scan[s].step = "user"
  /\ ~Exists(scan[s].of) \/ Referenced(scan[s].of)
  /\ Ends(s)
  /\ UNCHANGED <<callVars, user, holds, audited, told, failures>>

Notify(s) ==
  /\ scan[s].step = "notify"
  /\ told' = told \cup {scan[s].of}
  /\ Moves(s, "next")
  /\ UNCHANGED <<callVars, user, holds, audited, failures>>

\* Any statement throws, or the worker dies: attempts is 1, the next scan starts anew.
ScanFails(s) ==
  /\ scan[s].step # "idle" /\ failures < MaxFailures
  /\ failures' = failures + 1
  /\ Ends(s)
  /\ UNCHANGED <<callVars, user, holds, audited, told>>

Tick ==
  /\ clock < MaxTime
  /\ \A c \in Calls : call[c].step = "idle" \/ call[c].now = clock
  /\ clock' = clock + 1
  /\ UNCHANGED <<user, holds, call, overtaken, begun, made, purgeVars>>

CallNext(c) ==
  \/ \E u \in Users : Provision(c, u) \/ Unblock(c, u)
  \/ Reactivate(c)
  \/ \E kind \in {"records", "custom_category", "objects"} : Records(c, kind)
  \/ RequestDeletion(c)
  \/ CancelDeletion(c)
  \/ Answers(c)

ScanStep(s) ==
  \/ FindExpired(s)
  \/ \E u \in Users : TakeUser(s, u)
  \/ ScanEnds(s)
  \/ EraseRows(s)
  \/ EraseCategories(s)
  \/ EraseObjects(s)
  \/ WriteAudit(s)
  \/ DeleteUser(s)
  \/ DeleteRefused(s)
  \/ Notify(s)

Next ==
  \/ \E c \in Calls : CallNext(c)
  \/ \E u \in Users : Block(u) \/ OpenSupportSession(u)
  \/ \E s \in Scans : ScanStep(s) \/ StorageFails(s) \/ ScanFails(s)
  \/ Tick

Spec == Init /\ [][Next]_vars

\* BullMQ repeats the job and runs it.
FairSpec == Spec /\ \A s \in Scans : WF_vars(ScanStep(s))

(***************************************************************************)
(* Properties                                                              *)
(***************************************************************************)
\* Cancellation and purge exclude each other by the clock each has read: a user
\* who is purged had asked for it and let the grace period pass, unless a
\* cancellation read the clock before the deadline and wrote after it.
PurgedWasDue ==
  [][\A u \in Users :
       user'[u].status = "purged" /\ user[u].status # "purged" => DueAt(u, clock) \/ u \in overtaken]_vars

\* reactivate writes by id, so an update or an unblocking that read "deactivated"
\* may undo a deletion requested meanwhile; but only while it overlaps the request
\* (a tick each): a request that has stood longer ends in a cancellation or the purge.
RequestsStand ==
  [][\A u \in Users :
       user[u].status = "pending_deletion" /\ user'[u].status # "pending_deletion" =>
         \/ user'[u] = Cancelled \/ user'[u].status = "purged"
         \/ clock - user[u].requestedAt <= 2]_vars

\* Nobody is deleted who did not ask for it long enough ago, and whoever did ask
\* is, or changes her mind; however old what scans, updates and requests have read.
DeletionsAreHonoured == PurgedWasDue /\ RequestsStand

\* What a scan cannot delete, now or later.
Stuck(u) == holds[u] \cap {"custom_category", "support_session"} # {}

\* A scan that fails or crashes half way is made up for by a later one, unless
\* what it failed at is there to stay, for this user or for one it meets first.
PurgeFinishes ==
  \A u \in Users :
    DueAt(u, clock) ~> ~DueAt(u, clock) \/ \E v \in Users : DueAt(v, clock) /\ Stuck(v)

\* "the next scheduled scan safely resumes/redoes the sweep to completion": a
\* user whose grace period has passed is purged in the end.
ExpiredIsPurged == \A u \in Users : DueAt(u, clock) ~> ~DueAt(u, clock)
=============================================================================
