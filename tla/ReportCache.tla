---------------------------- MODULE ReportCache ------------------------------
(***************************************************************************)
(* The Redis cache of report totals: GenerateReportUseCase fills it, the   *)
(* consumers of TransactionCommitted, TransactionEdited and                *)
(* TransactionDeleted delete from it.  It composes three kinds of process  *)
(* over TransactionStore: calls that write transactions, readers of a      *)
(* period's totals, and the dispatcher of the events the writes emit.      *)
(*                                                                         *)
(* A period's totals are the amounts of its live transactions.  Periods    *)
(* overlap as days, weeks and months do (PeriodsOf).                       *)
(***************************************************************************)
EXTENDS TransactionStore

CONSTANTS
  Periods,     \* (report type, period key) pairs
  PeriodsOf,   \* computeReportCachePeriods, [Dates -> SUBSET Periods]
  Readers,     \* concurrent getCachedOrComputedTotals
  Editors      \* concurrent update transactions

ASSUME CacheAssumption == Periods # {} /\ PeriodsOf \in [Dates -> SUBSET Periods]

VARIABLES
  cache,    \* [Periods -> copies]: the Redis keys
  reader,   \* getCachedOrComputedTotals, one per reader
  editor    \* update between its two statements

cacheVars == <<storeVars, cache, reader, editor>>

Values == SUBSET (Txns \X Amounts)

\* Why a copy of a period's totals may have missed a change: the key was
\* deleted while the copy was on its way to it, a transaction was restored, an
\* edit announced a date the row no longer had, an event was given up.
Reasons == {"overtaken", "restored", "misdated", "abandoned"}

\* missed is no part of the code: it follows what the copy did not hear of.
Copies == [cached : BOOLEAN, value : Values, missed : SUBSET Reasons]
NoCopy == [cached |-> FALSE, value |-> {}, missed |-> {}]
CopyOf(value) == [cached |-> TRUE, value |-> value, missed |-> {}]

ReaderStates == [step : {"idle", "missed", "computed"}, period : Periods, copy : Copies]
EditorStates == [step : {"idle", "dated"}, txn : Txns, field : Fields,
                 value : Dates \cup Amounts, previous : Dates]

CacheTypeOK ==
  /\ StoreTypeOK
  /\ cache \in [Periods -> Copies]
  /\ reader \in [Readers -> ReaderStates]
  /\ editor \in [Editors -> EditorStates]

IdleReader == [step |-> "idle", period |-> CHOOSE p \in Periods : TRUE, copy |-> NoCopy]
IdleEditor == [step |-> "idle", txn |-> CHOOSE t \in Txns : TRUE, field |-> "date",
               value |-> CHOOSE d \in Dates : TRUE, previous |-> CHOOSE d \in Dates : TRUE]

CacheInit ==
  /\ StoreInit
  /\ cache = [p \in Periods |-> NoCopy]
  /\ reader = [r \in Readers |-> IdleReader]
  /\ editor = [e \in Editors |-> IdleEditor]

\* getTotals: the live transactions in the period's range.
Totals(p) == {<<t, row[t].amount>> : t \in {t \in Txns : Live(t) /\ p \in PeriodsOf[row[t].date]}}

InFlight(r, p) == reader[r].step = "computed" /\ reader[r].period = p

\* Every copy of the periods ps, stored or on its way, missed a change.
Misses(ps, reason) ==
  /\ cache' = [p \in Periods |->
       IF p \in ps /\ cache[p].cached THEN [cache[p] EXCEPT !.missed = @ \cup {reason}]
                                      ELSE cache[p]]
  /\ reader' = [r \in Readers |->
       IF \E p \in ps : InFlight(r, p)
       THEN [reader[r] EXCEPT !.copy.missed = @ \cup {reason}] ELSE reader[r]]

(***************************************************************************)
(* Writers                                                                 *)
(***************************************************************************)
Create(t, d, a) ==
  /\ CreateRow(t, d, a)
  /\ UNCHANGED <<cache, reader, editor>>

Delete(t) ==
  /\ SoftDeleteRow(t)
  /\ UNCHANGED <<cache, reader, editor>>

Restore(t) ==
  /\ RestoreRow(t)
  /\ Misses(PeriodsOf[row[t].date], "restored")
  /\ UNCHANGED editor

\* update: the previous date is read without a lock, ...
EditReadsDate(e, t, field, value) ==
  /\ editor[e].step = "idle"
  /\ Live(t)
  /\ value \in ValuesOf(field)
  /\ writes < MaxWrites
  /\ editor' = [editor EXCEPT ![e] = [step |-> "dated", txn |-> t, field |-> field,
                                      value |-> value, previous |-> row[t].date]]
  /\ UNCHANGED <<storeVars, cache, reader>>

\* ... and the row written in the next statement.
EditWrites(e) ==
  LET t == editor[e].txn
  IN /\ editor[e].step = "dated"
     /\ UpdateRow(t, editor[e].field, editor[e].value, editor[e].previous)
     /\ IF row[t].date = editor[e].previous THEN UNCHANGED <<cache, reader>>
        ELSE Misses(PeriodsOf[row[t].date], "misdated")
     /\ editor' = [editor EXCEPT ![e] = IdleEditor]

(***************************************************************************)
(* getCachedOrComputedTotals                                               *)
(***************************************************************************)
\* GET: a hit is returned as it is, a miss goes on.
Get(r, p) ==
  /\ reader[r].step = "idle"
  /\ ~ cache[p].cached
  /\ reader' = [reader EXCEPT ![r].step = "missed", ![r].period = p]
  /\ UNCHANGED <<storeVars, cache, editor>>

Compute(r) ==
  /\ reader[r].step = "missed"
  /\ reader' = [reader EXCEPT ![r].step = "computed",
                              ![r].copy = CopyOf(Totals(reader[r].period))]
  /\ UNCHANGED <<storeVars, cache, editor>>

Set(r) ==
  /\ reader[r].step = "computed"
  /\ cache' = [cache EXCEPT ![reader[r].period] = reader[r].copy]
  /\ reader' = [reader EXCEPT ![r] = IdleReader]
  /\ UNCHANGED <<storeVars, editor>>

\* The key's time to live, sixty seconds or thirty days, runs out.
Expire(p) ==
  /\ cache[p].cached
  /\ cache' = [cache EXCEPT ![p] = NoCopy]
  /\ UNCHANGED <<storeVars, reader, editor>>

(***************************************************************************)
(* The consumers                                                           *)
(***************************************************************************)
Without(s, i) == SubSeq(s, 1, i - 1) \o SubSeq(s, i + 1, Len(s))

\* As it would be if an edit invalidated the periods of its new date only.
AffectedByNewDate(event) == PeriodsOf[event.to]

\* handleTransactionCommitted, handleTransactionEdited, handleTransactionDeleted.
Affected(event) == PeriodsOf[event.from] \cup PeriodsOf[event.to]

\* A reader that has computed its value is overtaken.
Invalidated(ps) ==
  /\ cache' = [p \in Periods |-> IF p \in ps THEN NoCopy ELSE cache[p]]
  /\ reader' = [r \in Readers |->
       IF \E p \in ps : InFlight(r, p)
       THEN [reader[r] EXCEPT !.copy.missed = @ \cup {"overtaken"}] ELSE reader[r]]

Invalidate(i) ==
  /\ Invalidated(Affected(emitted[i]))
  /\ emitted' = Without(emitted, i)
  /\ UNCHANGED <<row, latest, writes, editor>>

\* DEL was carried out and the dispatch decision was not: a redelivery follows.
InvalidateUncommitted(i) ==
  /\ Invalidated(Affected(emitted[i]))
  /\ UNCHANGED <<storeVars, editor>>

\* Redis was away for every attempt: the event is failed.
GiveUp(i) ==
  /\ Misses(Affected(emitted[i]), "abandoned")
  /\ emitted' = Without(emitted, i)
  /\ UNCHANGED <<row, latest, writes, editor>>

CacheNext ==
  \/ \E t \in Txns, d \in Dates, a \in Amounts : Create(t, d, a)
  \/ \E t \in Txns : Delete(t)
  \/ \E t \in Txns : Restore(t)
  \/ \E e \in Editors, t \in Txns, field \in Fields, value \in Dates \cup Amounts :
       EditReadsDate(e, t, field, value)
  \/ \E e \in Editors : EditWrites(e)
  \/ \E r \in Readers, p \in Periods : Get(r, p)
  \/ \E r \in Readers : Compute(r)
  \/ \E r \in Readers : Set(r)
  \/ \E p \in Periods : Expire(p)
  \/ \E i \in 1..Len(emitted) : Invalidate(i)
  \/ \E i \in 1..Len(emitted) : InvalidateUncommitted(i)
  \/ \E i \in 1..Len(emitted) : GiveUp(i)

CacheSpec == CacheInit /\ [][CacheNext]_cacheVars

(***************************************************************************)
(* Properties                                                              *)
(***************************************************************************)
Stale(p) == cache[p].cached /\ cache[p].value # Totals(p)

Awaiting(p) == \E i \in 1..Len(emitted) : p \in Affected(emitted[i])

\* A cached total that differs from the transactions is about to be deleted by
\* an event on its way, or missed a change in one of the four known ways: the
\* periods an event names are all those its write changed.
StaleIsExplained == \A p \in Periods : Stale(p) => Awaiting(p) \/ cache[p].missed # {}
=============================================================================
