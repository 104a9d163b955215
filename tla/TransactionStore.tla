-------------------------- MODULE TransactionStore ---------------------------
(***************************************************************************)
(* PrismaTransactionRepository: one user's transactions and the domain     *)
(* events its writes record in the same database transaction.  The actions *)
(* are the statements; TransactionUseCases and ReportCache compose them    *)
(* into calls.                                                             *)
(*                                                                         *)
(* A row is reduced to its date, its amount, whether it is deleted, and    *)
(* whether updated_at still equals created_at.                             *)
(***************************************************************************)
EXTENDS Naturals, Sequences, FiniteSets

CONSTANTS
  Txns,       \* transaction ids
  Dates,      \* transaction dates
  Amounts,    \* amounts
  MaxWrites   \* bound on the writes of a behaviour

ASSUME StoreAssumption ==
  /\ MaxWrites \in Nat
  /\ Txns # {} /\ Dates # {} /\ Amounts # {}

VARIABLES
  row,      \* the transactions table
  latest,   \* the row with the greatest updated_at, as a set of at most one
  emitted,  \* the domain_events these writes recorded, in commit order
  writes    \* writes so far

storeVars == <<row, latest, emitted, writes>>

TransactionRows == [state : {"absent", "live", "deleted"}, date : Dates, amount : Amounts,
         untouched : BOOLEAN]

EventTypes == {"TransactionCommitted", "TransactionEdited", "TransactionDeleted"}

\* from is previousTransactionDate for an edit, and to otherwise.
DomainEvents == [type : EventTypes, txn : Txns, from : Dates, to : Dates]

Fields == {"date", "amount"}
ValuesOf(field) == IF field = "date" THEN Dates ELSE Amounts

StoreTypeOK ==
  /\ row \in [Txns -> TransactionRows]
  /\ latest \in SUBSET Txns /\ Cardinality(latest) <= 1
  /\ emitted \in Seq(DomainEvents)
  /\ writes \in 0..MaxWrites

StoreInit ==
  /\ row = [t \in Txns |-> [state |-> "absent", date |-> CHOOSE d \in Dates : TRUE,
                            amount |-> CHOOSE a \in Amounts : TRUE, untouched |-> TRUE]]
  /\ latest = {}
  /\ emitted = <<>>
  /\ writes = 0

Live(t) == row[t].state = "live"
Deleted(t) == row[t].state = "deleted"

\* Every write but create sets updated_at to the present.
Write(t, new, events) ==
  /\ writes < MaxWrites
  /\ writes' = writes + 1
  /\ row' = [row EXCEPT ![t] = new]
  /\ latest' = {t}
  /\ emitted' = emitted \o events

\* create: the row and its TransactionCommitted event.
CreateRow(t, d, a) ==
  /\ row[t].state = "absent"
  /\ Write(t, [state |-> "live", date |-> d, amount |-> a, untouched |-> TRUE],
           <<[type |-> "TransactionCommitted", txn |-> t, from |-> d, to |-> d]>>)

\* update: the changed field alone, whatever the row has become since previous
\* was read; a deleted row is updated too.
UpdateRow(t, field, value, previous) ==
  LET new == [row[t] EXCEPT ![field] = value, !.untouched = FALSE]
  IN Write(t, new, <<[type |-> "TransactionEdited", txn |-> t, from |-> previous,
                      to |-> new.date]>>)

\* softDelete: WHERE deleted_at IS NULL.
MayDelete(t) == Live(t)

SoftDeleteRow(t) ==
  /\ MayDelete(t)
  /\ Write(t, [row[t] EXCEPT !.state = "deleted", !.untouched = FALSE],
           <<[type |-> "TransactionDeleted", txn |-> t, from |-> row[t].date,
              to |-> row[t].date]>>)

\* restore: WHERE deleted_at IS NOT NULL.  It records no event.
MayRestore(t) == Deleted(t)

RestoreRow(t) ==
  /\ MayRestore(t)
  /\ Write(t, [row[t] EXCEPT !.state = "live", !.untouched = FALSE], <<>>)
=============================================================================
