----------------------------- MODULE CommitLock ------------------------------
(****************************************************************************)
(* TransactionCommitAdapter over the Redis commit lock: how a draft becomes *)
(* a transaction.  The lock is one key per draft, with no owner; a claim    *)
(* lives thirty seconds, a result a day.  Attempts are the concurrent or    *)
(* repeated calls of commit.                                                *)
(****************************************************************************)
EXTENDS Naturals, FiniteSets

CONSTANTS
  Drafts,       \* transaction_drafts ids
  Attempts      \* calls of commit

VARIABLES
  key,        \* [Drafts -> values]: transaction_commit:<user>:<draft>
  attempt,    \* the calls
  rows,       \* [Drafts -> SUBSET Attempts]: transactions inserted, by their call
  mishaps     \* [Drafts -> Nat]: what went wrong around the lock of a draft

vars == <<key, attempt, rows, mishaps>>

Nobody == CHOOSE a \in Attempts : TRUE

\* The key of a draft is absent, __PENDING__, or the id of a transaction,
\* named here after the call that inserted it.
KeyValues == [value : {"absent", "pending", "result"}, txn : Attempts \cup {Nobody}]

Steps == {"new", "refused", "claimed", "inserted", "failing", "done", "failed"}

\* txn is the transaction answered; an attempt may be a retry of a failed one.
AttemptStates == [step : Steps, draft : Drafts, txn : Attempts \cup {Nobody}]

TypeOK ==
  /\ key \in [Drafts -> KeyValues]
  /\ attempt \in [Attempts -> AttemptStates]
  /\ rows \in [Drafts -> SUBSET Attempts]
  /\ mishaps \in [Drafts -> Nat]

Absent == [value |-> "absent", txn |-> Nobody]
Pending == [value |-> "pending", txn |-> Nobody]

Init ==
  /\ key = [d \in Drafts |-> Absent]
  /\ \E draftOf \in [Attempts -> Drafts] :
       attempt = [a \in Attempts |-> [step |-> "new", draft |-> draftOf[a], txn |-> Nobody]]
  /\ rows = [d \in Drafts |-> {}]
  /\ mishaps = [d \in Drafts |-> 0]

At(a, step) == attempt[a].step = step
DraftOf(a) == attempt[a].draft

ResultOf(a) == [value |-> "result", txn |-> a]

GoTo(a, step) == attempt' = [attempt EXCEPT ![a].step = step]
Mishap(d) == mishaps' = [mishaps EXCEPT ![d] = @ + 1]

\* As it would be with a plain SET in place of SET NX.
MayClaimAnyway(d) == TRUE

MayClaim(d) == key[d].value = "absent"

\* tryClaim: SET NX.
TryClaim(a) ==
  /\ At(a, "new")
  /\ IF MayClaim(DraftOf(a))
     THEN /\ key' = [key EXCEPT ![DraftOf(a)] = Pending]
          /\ GoTo(a, "claimed")
     ELSE /\ GoTo(a, "refused")
          /\ UNCHANGED key
  /\ UNCHANGED <<rows, mishaps>>

HasResult(d) == key[d].value = "result"

\* getResult: the winner's transaction, or TransactionCommitInProgressError.
GetResult(a) ==
  /\ At(a, "refused")
  /\ attempt' = [attempt EXCEPT ![a] =
       IF HasResult(DraftOf(a)) THEN [@ EXCEPT !.step = "done", !.txn = key[DraftOf(a)].txn]
                                ELSE [@ EXCEPT !.step = "failed"]]
  /\ UNCHANGED <<key, rows, mishaps>>

\* performCommit: the transaction is inserted, ...
Insert(a) ==
  /\ At(a, "claimed")
  /\ rows' = [rows EXCEPT ![DraftOf(a)] = @ \cup {a}]
  /\ GoTo(a, "inserted")
  /\ UNCHANGED <<key, mishaps>>

\* ... or refused, with nothing written, ...
InsertFails(a) ==
  /\ At(a, "claimed")
  /\ GoTo(a, "failing")
  /\ UNCHANGED <<key, rows, mishaps>>

\* ... or inserted without the call hearing of it.
InsertUnanswered(a) ==
  /\ At(a, "claimed")
  /\ Mishap(DraftOf(a))
  /\ rows' = [rows EXCEPT ![DraftOf(a)] = @ \cup {a}]
  /\ GoTo(a, "failing")
  /\ UNCHANGED key

StoreResult(a) ==
  /\ At(a, "inserted")
  /\ key' = [key EXCEPT ![DraftOf(a)] = ResultOf(a)]
  /\ attempt' = [attempt EXCEPT ![a].step = "done", ![a].txn = a]
  /\ UNCHANGED <<rows, mishaps>>

\* storeResult throws inside the same try as the insert.
StoreFails(a) ==
  /\ At(a, "inserted")
  /\ Mishap(DraftOf(a))
  /\ GoTo(a, "failing")
  /\ UNCHANGED <<key, rows>>

\* release: DEL, whoever holds the key by now.
Release(a) ==
  /\ At(a, "failing")
  /\ key' = [key EXCEPT ![DraftOf(a)] = Absent]
  /\ GoTo(a, "failed")
  /\ UNCHANGED <<rows, mishaps>>

\* release throws too: the claim stays.
ReleaseFails(a) ==
  /\ At(a, "failing")
  /\ Mishap(DraftOf(a))
  /\ GoTo(a, "failed")
  /\ UNCHANGED <<key, rows>>

AttemptDies(a) ==
  /\ attempt[a].step \in {"claimed", "inserted", "failing"}
  /\ Mishap(DraftOf(a))
  /\ GoTo(a, "failed")
  /\ UNCHANGED <<key, rows>>

\* Both SETs carry EX.
Expires(d) == key[d].value # "absent"

\* Expiry of a claim nobody holds any more costs nothing.
Held(d) == \E a \in Attempts : DraftOf(a) = d /\ attempt[a].step \in {"claimed", "inserted", "failing"}

ExpireKey(d) ==
  /\ Expires(d)
  /\ IF Held(d) \/ rows[d] # {} THEN Mishap(d) ELSE UNCHANGED mishaps
  /\ key' = [key EXCEPT ![d] = Absent]
  /\ UNCHANGED <<attempt, rows>>

Settled(a) == attempt[a].step \in {"done", "failed"}

\* Every call has been answered: the user sends nothing more.
Finished == (\A a \in Attempts : Settled(a)) /\ UNCHANGED vars

CallNext(a) ==
  \/ TryClaim(a)
  \/ GetResult(a)
  \/ Insert(a)
  \/ InsertFails(a)
  \/ InsertUnanswered(a)
  \/ StoreResult(a)
  \/ StoreFails(a)
  \/ Release(a)
  \/ ReleaseFails(a)
  \/ AttemptDies(a)

Next ==
  \/ \E a \in Attempts : CallNext(a)
  \/ \E d \in Drafts : ExpireKey(d)
  \/ Finished

Spec == Init /\ [][Next]_vars

\* Redis drops a key once its time is up.
FairSpec == Spec /\ \A d \in Drafts : WF_vars(ExpireKey(d))

(***************************************************************************)
(* Properties                                                              *)
(***************************************************************************)
\* "the same logical commit must produce exactly one transaction, even under a
\* genuine race": each further one takes a mishap of its own: an expiry
\* while a call was under way or after one had inserted, an answer lost, a
\* store or release that failed, a crash.
OneMorePerMishap == \A d \in Drafts : Cardinality(rows[d]) <= 1 + mishaps[d]

\* A call is answered with a transaction of its own draft that exists.
AnsweredExists == \A a \in Attempts : At(a, "done") => attempt[a].txn \in rows[DraftOf(a)]

\* Commits are counted: the two facts above.
CommitsAreCounted == OneMorePerMishap /\ AnsweredExists

\* A claim never blocks a draft for ever, even if its call died.
ClaimEnds == \A d \in Drafts : (key[d].value = "pending") ~> (key[d].value # "pending")
=============================================================================
