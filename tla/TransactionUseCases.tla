------------------------ MODULE TransactionUseCases --------------------------
(***************************************************************************)
(* EditTransactionUseCase, DeleteTransactionUseCase,                       *)
(* RestoreTransactionUseCase, UndoLastTransactionActionUseCase and         *)
(* ResetUserTransactionsUseCase over TransactionStore, with the            *)
(* transaction_audit_log they write.                                       *)
(*                                                                         *)
(* Each reads the row, decides, writes it in a second statement and        *)
(* records the audit entries in a third.  Calls of one user interleave     *)
(* (two devices, the admin panel), and a call may fail before its audit.   *)
(***************************************************************************)
EXTENDS TransactionStore

CONSTANT Calls   \* concurrent invocations

ASSUME CallsAssumption == IsFiniteSet(Calls)

VARIABLES
  call,   \* the invocations
  audit,  \* [Txns -> Seq of entries]: transaction_audit_log
  unlogged, \* [Txns -> Seq of entries]: entries whose insert failed
  original  \* [Txns -> TransactionRows]: each row as it was created

vars == <<storeVars, call, audit, unlogged, original>>

Ops == {"idle", "edit", "delete", "restore", "undo", "reset"}

\* An entry of the field deleted_at says what the row became.
Entries == [field : Fields \cup {"deleted_at"}, old : Dates \cup Amounts \cup {"live", "deleted"},
            new : Dates \cup Amounts \cup {"live", "deleted"}]

DeletedEntry == [field |-> "deleted_at", old |-> "live", new |-> "deleted"]
RestoredEntry == [field |-> "deleted_at", old |-> "deleted", new |-> "live"]

\* before is the row as findById returned it; previous the date that update
\* read; todo the rows a reset has still to delete; due the audit entries.
CallStates == [op : Ops, step : {"start", "chosen", "checked", "dated", "written"}, txn : Txns,
               undoing : BOOLEAN, before : TransactionRows, field : Fields, value : Dates \cup Amounts,
               previous : Dates, todo : SUBSET Txns, due : [Txns -> Seq(Entries)]]

TypeOK ==
  /\ StoreTypeOK
  /\ call \in [Calls -> CallStates]
  /\ audit \in [Txns -> Seq(Entries)]
  /\ unlogged \in [Txns -> Seq(Entries)]
  /\ original \in [Txns -> TransactionRows]

NoEntries == [t \in Txns |-> <<>>]

IdleCall ==
  [op |-> "idle", step |-> "start", txn |-> CHOOSE t \in Txns : TRUE, undoing |-> FALSE,
   before |-> [state |-> "absent", date |-> CHOOSE d \in Dates : TRUE,
               amount |-> CHOOSE a \in Amounts : TRUE, untouched |-> TRUE],
   field |-> "amount", value |-> CHOOSE a \in Amounts : TRUE,
   previous |-> CHOOSE d \in Dates : TRUE, todo |-> {}, due |-> NoEntries]

Init ==
  /\ StoreInit
  /\ call = [c \in Calls |-> IdleCall]
  /\ audit = NoEntries
  /\ unlogged = NoEntries
  /\ original = row

Idle(c) == call[c].op = "idle"
At(c, op, step) == call[c].op = op /\ call[c].step = step
Begin(c, state) == call' = [call EXCEPT ![c] = state]
Advance(c, step) == call' = [call EXCEPT ![c].step = step]
End(c) == call' = [call EXCEPT ![c] = IdleCall]

Create(t, d, a) ==
  /\ CreateRow(t, d, a)
  /\ original' = [original EXCEPT ![t] = row'[t]]
  /\ UNCHANGED <<call, audit, unlogged>>

(***************************************************************************)
(* EditTransactionUseCase                                                  *)
(***************************************************************************)
\* findById, not deleted, and the merged transaction is valid.
EditChecks(c, t, field, value) ==
  /\ Idle(c)
  /\ Live(t)
  /\ value \in ValuesOf(field)
  /\ writes < MaxWrites
  /\ Begin(c, [IdleCall EXCEPT !.op = "edit", !.step = "checked", !.txn = t,
                 !.before = row[t], !.field = field, !.value = value])
  /\ UNCHANGED <<storeVars, audit, unlogged, original>>

\* update: SELECT transaction_date, without a lock.
EditReadsDate(c) ==
  /\ At(c, "edit", "checked")
  /\ call' = [call EXCEPT ![c].step = "dated", ![c].previous = row[call[c].txn].date]
  /\ UNCHANGED <<storeVars, audit, unlogged, original>>

\* As it would be with the rows compared after the update.
DiffAfterTheFact(c) == <<>>

\* computeTransactionFieldDiffs: against the row as it was first read.
Diff(c) ==
  LET old == call[c].before[call[c].field]
  IN IF old = call[c].value THEN <<>>
     ELSE <<[field |-> call[c].field, old |-> old, new |-> call[c].value]>>

EditWrites(c) ==
  /\ At(c, "edit", "dated")
  /\ UpdateRow(call[c].txn, call[c].field, call[c].value, call[c].previous)
  /\ Begin(c, [IdleCall EXCEPT !.op = "edit", !.step = "written",
                 !.due[call[c].txn] = Diff(c)])
  /\ UNCHANGED <<audit, unlogged, original>>

(***************************************************************************)
(* DeleteTransactionUseCase and RestoreTransactionUseCase                  *)
(***************************************************************************)
\* The checks on the row as read; undoing keeps what undo chose.
DeleteChecks(c, t, undoing) ==
  /\ Live(t)
  /\ Begin(c, [IdleCall EXCEPT !.op = "delete", !.step = "checked", !.txn = t,
                 !.before = row[t], !.undoing = undoing])
  /\ UNCHANGED <<storeVars, audit, unlogged, original>>

RestoreChecks(c, t) ==
  /\ Deleted(t)
  /\ Begin(c, [IdleCall EXCEPT !.op = "restore", !.step = "checked", !.txn = t,
                 !.before = row[t]])
  /\ UNCHANGED <<storeVars, audit, unlogged, original>>

Delete(c, t) == Idle(c) /\ writes < MaxWrites /\ DeleteChecks(c, t, FALSE)

OwedBy(c, entry) == [NoEntries EXCEPT ![call[c].txn] = <<entry>>]

DeleteWrites(c) ==
  /\ At(c, "delete", "checked")
  /\ SoftDeleteRow(call[c].txn)
  /\ Begin(c, [call[c] EXCEPT !.step = "written", !.due = OwedBy(c, DeletedEntry)])
  /\ UNCHANGED <<audit, unlogged, original>>

RestoreWrites(c) ==
  /\ At(c, "restore", "checked")
  /\ RestoreRow(call[c].txn)
  /\ Begin(c, [call[c] EXCEPT !.step = "written", !.due = OwedBy(c, RestoredEntry)])
  /\ UNCHANGED <<audit, unlogged, original>>

\* softDelete or restore returned null: the call throws.
AfterLostRace(c) == IdleCall

LosesRace(c) ==
  /\ \/ At(c, "delete", "checked") /\ ~ MayDelete(call[c].txn)
     \/ At(c, "restore", "checked") /\ ~ MayRestore(call[c].txn)
  /\ Begin(c, AfterLostRace(c))
  /\ UNCHANGED <<storeVars, audit, unlogged, original>>

(***************************************************************************)
(* UndoLastTransactionActionUseCase                                        *)
(***************************************************************************)
\* findMostRecentByUserId: a deleted row is restored, an untouched one
\* deleted, any other is left ("unsupported_action").
UndoChooses(c, t) ==
  /\ Idle(c)
  /\ writes < MaxWrites
  /\ t \in latest
  /\ Deleted(t) \/ row[t].untouched
  /\ Begin(c, [IdleCall EXCEPT !.op = "undo", !.step = "chosen", !.txn = t, !.before = row[t]])
  /\ UNCHANGED <<storeVars, audit, unlogged, original>>

\* The delegate reads the row again.
UndoDelegates(c) ==
  /\ At(c, "undo", "chosen")
  /\ LET t == call[c].txn
     IN IF call[c].before.state = "deleted" THEN RestoreChecks(c, t) ELSE DeleteChecks(c, t, TRUE)

\* The delegate finds the row already deleted, or already restored.
UndoRefused(c) ==
  /\ At(c, "undo", "chosen")
  /\ row[call[c].txn].state # call[c].before.state
  /\ End(c)
  /\ UNCHANGED <<storeVars, audit, unlogged, original>>

(***************************************************************************)
(* ResetUserTransactionsUseCase                                            *)
(***************************************************************************)
\* findByUserId: the rows not deleted.
ResetReads(c) ==
  /\ Idle(c)
  /\ writes < MaxWrites
  /\ Begin(c, [IdleCall EXCEPT !.op = "reset", !.step = "checked", !.todo = {t \in Txns : Live(t)}])
  /\ UNCHANGED <<storeVars, audit, unlogged, original>>

ResetDeletes(c, t) ==
  /\ At(c, "reset", "checked")
  /\ t \in call[c].todo
  /\ SoftDeleteRow(t)
  /\ Begin(c, [call[c] EXCEPT !.todo = @ \ {t}, !.due[t] = <<DeletedEntry>>])
  /\ UNCHANGED <<audit, unlogged, original>>

ResetSkips(c, t) ==
  /\ At(c, "reset", "checked")
  /\ t \in call[c].todo
  /\ ~ MayDelete(t)
  /\ Begin(c, [call[c] EXCEPT !.todo = @ \ {t}])
  /\ UNCHANGED <<storeVars, audit, unlogged, original>>

ResetEnds(c) ==
  /\ At(c, "reset", "checked")
  /\ call[c].todo = {}
  /\ Advance(c, "written")
  /\ UNCHANGED <<storeVars, audit, unlogged, original>>

(***************************************************************************)
(* The audit entries, in one insert after the write                        *)
(***************************************************************************)
AppendTo(log, c) == [t \in Txns |-> log[t] \o call[c].due[t]]

RecordsAudit(c) ==
  /\ call[c].step = "written"
  /\ audit' = AppendTo(audit, c)
  /\ End(c)
  /\ UNCHANGED <<storeVars, unlogged, original>>

\* A call fails, or its process dies, after a write and before the audit.
Fails(c) ==
  /\ call[c].due # NoEntries
  /\ unlogged' = AppendTo(unlogged, c)
  /\ End(c)
  /\ UNCHANGED <<storeVars, audit, original>>

CallNext(c) ==
  \/ \E t \in Txns, field \in Fields, value \in Dates \cup Amounts : EditChecks(c, t, field, value)
  \/ EditReadsDate(c)
  \/ EditWrites(c)
  \/ \E t \in Txns : Delete(c, t)
  \/ DeleteWrites(c)
  \/ RestoreWrites(c)
  \/ LosesRace(c)
  \/ \E t \in Txns : UndoChooses(c, t)
  \/ UndoDelegates(c)
  \/ UndoRefused(c)
  \/ ResetReads(c)
  \/ \E t \in Txns : ResetDeletes(c, t)
  \/ \E t \in Txns : ResetSkips(c, t)
  \/ ResetEnds(c)
  \/ RecordsAudit(c)
  \/ Fails(c)

Next ==
  \/ \E t \in Txns, d \in Dates, a \in Amounts : Create(t, d, a)
  \/ \E c \in Calls : CallNext(c)

Spec == Init /\ [][Next]_vars

(***************************************************************************)
(* Properties                                                              *)
(***************************************************************************)
Times(entry, log) == Cardinality({i \in DOMAIN log : log[i] = entry})

Owes(c, t, entry) == \E i \in DOMAIN call[c].due[t] : call[c].due[t][i] = entry

\* Entries of t in the log, lost to a failure, or owed by a call under way.
Count(t, entry) ==
  Times(entry, audit[t]) + Times(entry, unlogged[t])
    + Cardinality({c \in Calls : Owes(c, t, entry)})

Announces(event, t) == event.type = "TransactionDeleted" /\ event.txn = t
Announced(t) == Cardinality({i \in DOMAIN emitted : Announces(emitted[i], t)})

\* A row is deleted exactly when its deletions, as audited, lead its
\* restorations by one: two calls that both found the row live never both
\* delete it, whichever of delete, undo and reset they come from.  And the
\* TransactionDeleted events agree with the audit entries: the loser of a
\* race neither announces nor logs a deletion.
DeletionsBalance ==
  \A t \in Txns :
    /\ Count(t, DeletedEntry) = Count(t, RestoredEntry) + IF Deleted(t) THEN 1 ELSE 0
    /\ Announced(t) = Count(t, DeletedEntry)

\* The value is the one the field was created with, or the new one of an entry.
Recorded(t, field, value) ==
  \/ value = original[t][field]
  \/ \E log \in {audit[t], unlogged[t]} \cup {call[c].due[t] : c \in Calls} :
       \E i \in DOMAIN log : log[i].field = field /\ log[i].new = value

\* However edits of one row interleave, each value a field holds is recorded.
EveryValueIsRecorded ==
  \A t \in Txns, field \in Fields : Recorded(t, field, row[t][field])

\* The deletions of a row balance, and its audit log holds every value it had,
\* although each call writes the row and the log in separate statements.
HistoryIsComplete == DeletionsBalance /\ EveryValueIsRecorded
=============================================================================
