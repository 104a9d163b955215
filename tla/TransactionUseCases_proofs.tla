--------------------- MODULE TransactionUseCases_proofs ----------------------
(***************************************************************************)
(* For any rows, values, concurrent calls and number of writes: deletions, *)
(* restorations, their audit entries and their events balance, and every   *)
(* value a field takes is in the row's history, although each call writes  *)
(* the row in one statement and the log in another, from what it has read  *)
(* in a third.                                                             *)
(***************************************************************************)
EXTENDS TransactionUseCases, SequenceTheorems, FiniteSetTheorems, TLAPS

\* A call owes entries only for what it has written, one for each row.
DuesStand(state) ==
  /\ state.op = "idle" => state.step = "start"
  /\ state.step \in {"start", "chosen", "dated"} => state.due = NoEntries
  /\ state.step = "checked" /\ state.op # "reset" => state.due = NoEntries
  /\ state.step = "checked" => \A t \in state.todo : state.due[t] = <<>>
  /\ \A t \in Txns : Len(state.due[t]) <= 1

\* The values of a field that are in the history of its row.
Kept(t, field) == {value \in Dates \cup Amounts : Recorded(t, field, value)}

Editing(state) == state.op = "edit" /\ state.step \in {"checked", "dated"}

\* What an edit has read is in the history of its row, whatever the row has
\* become, and stays there.
EditsStand(state) ==
  Editing(state) =>
    /\ state.value \in ValuesOf(state.field)
    /\ row[state.txn].state # "absent"
    /\ state.before[state.field] \in Kept(state.txn, state.field)

CallsStand == \A c \in Calls : DuesStand(call[c]) /\ EditsStand(call[c])

HistoryInv == TypeOK /\ CallsStand /\ DeletionsBalance /\ EveryValueIsRecorded

-----------------------------------------------------------------------------
(***************************************************************************)
(* Counting in a log                                                       *)
(***************************************************************************)
Matches(log, Hits) == Cardinality({i \in DOMAIN log : log[i] \in Hits})

\* One more element is one more hit if it hits.
LEMMA OneMore ==
  ASSUME NEW S, NEW log \in Seq(S), NEW x \in S, NEW Hits
  PROVE  /\ Matches(log, Hits) \in Nat
         /\ Matches(Append(log, x), Hits) = Matches(log, Hits) + IF x \in Hits THEN 1 ELSE 0
  <1> DEFINE n == Len(log)
             more == Append(log, x)
             before == {i \in DOMAIN log : log[i] \in Hits}
             after == {i \in DOMAIN more : more[i] \in Hits}
  <1>1. /\ n \in Nat /\ DOMAIN log = 1..n /\ DOMAIN more = 1..(n + 1)
        /\ more[n + 1] = x /\ \A i \in 1..n : more[i] = log[i]
    BY AppendProperties
  <1>2. IsFiniteSet(before) /\ n + 1 \notin before
    <2>1. IsFiniteSet(1..n)
      BY <1>1, FS_Interval
    <2> QED
      BY <1>1, <2>1, FS_Subset
  <1>3. Cardinality(before) \in Nat
    BY <1>2, FS_CardinalityType
  <1>4. CASE x \in Hits
    <2>1. after = before \cup {n + 1}
      BY <1>1, <1>4
    <2>2. Cardinality(after) = Cardinality(before) + 1
      BY <1>2, <2>1, FS_AddElement
    <2> QED
      BY <1>3, <1>4, <2>2 DEF Matches
  <1>5. CASE x \notin Hits
    <2>1. after = before
      BY <1>1, <1>5
    <2>2. Matches(log, Hits) \in Nat /\ Matches(more, Hits) = Matches(log, Hits)
      BY <1>3, <2>1 DEF Matches
    <2> QED
      BY <1>5, <2>2
  <1> QED
    BY <1>4, <1>5

LEMMA TimesOfAppend ==
  ASSUME NEW log \in Seq(Entries), NEW x \in Entries, NEW entry
  PROVE  /\ Times(entry, log) \in Nat
         /\ Times(entry, Append(log, x)) = Times(entry, log) + IF x = entry THEN 1 ELSE 0
  <1>1. ASSUME NEW q PROVE Times(entry, q) = Matches(q, {entry})
    BY DEF Times, Matches
  <1>2. /\ Matches(log, {entry}) \in Nat
        /\ Matches(Append(log, x), {entry}) = Matches(log, {entry}) + IF x \in {entry} THEN 1 ELSE 0
    BY OneMore
  <1> QED
    BY <1>1, <1>2

\* What a call owes to a row is nothing or one entry; then its log is appended to.
LEMMA TimesOfDue ==
  ASSUME NEW log \in Seq(Entries), NEW due \in Seq(Entries), Len(due) <= 1, NEW entry
  PROVE  /\ Times(entry, log) \in Nat
         /\ log \o due \in Seq(Entries)
         /\ Times(entry, log \o due)
              = Times(entry, log) + IF \E i \in DOMAIN due : due[i] = entry THEN 1 ELSE 0
  <1>1. CASE due = <<>>
    <2>1. log \o due = log
      BY <1>1
    <2>2. Times(entry, log) \in Nat
      <3>1. IsFiniteSet(DOMAIN log)
        BY FS_Interval
      <3>2. IsFiniteSet({i \in DOMAIN log : log[i] = entry})
        BY <3>1, FS_Subset
      <3> QED
        BY <3>2, FS_CardinalityType DEF Times
    <2> QED
      BY <1>1, <2>1, <2>2
  <1>2. CASE due # <<>>
    <2>1. Len(due) = 1 /\ due[1] \in Entries /\ DOMAIN due = {1}
      <3>1. /\ Len(due) \in Nat /\ Len(due) # 0 /\ DOMAIN due = 1..Len(due)
            /\ due \in [1..Len(due) -> Entries]
        BY <1>2, EmptySeq, LenProperties
      <3>2. Len(due) = 1 /\ DOMAIN due = {1}
        BY <3>1
      <3> QED
        BY <3>1, <3>2
    <2>2. log \o due = Append(log, due[1])
      <3>1. due = <<due[1]>>
        BY <2>1
      <3>2. Append(log, due[1]) = log \o <<due[1]>>
        BY <2>1, AppendIsConcat
      <3> QED
        BY <3>1, <3>2
    <2>3. (\E i \in DOMAIN due : due[i] = entry) <=> due[1] = entry
      BY <2>1
    <2> QED
      BY <2>1, <2>2, <2>3, TimesOfAppend, AppendProperties
  <1> QED
    BY <1>1, <1>2

LEMMA AnnouncedOneMore ==
  ASSUME emitted \in Seq(DomainEvents), NEW event \in DomainEvents, NEW t,
         emitted' = Append(emitted, event)
  PROVE  /\ Announced(t) \in Nat
         /\ Announced(t)' = Announced(t) + IF Announces(event, t) THEN 1 ELSE 0
  <1> DEFINE Hits == {e \in DomainEvents : Announces(e, t)}
  <1>1. ASSUME NEW q \in Seq(DomainEvents)
        PROVE  Matches(q, Hits) = Cardinality({i \in DOMAIN q : Announces(q[i], t)})
    <2>1. \A i \in DOMAIN q : q[i] \in DomainEvents
      BY LenProperties
    <2>2. {i \in DOMAIN q : q[i] \in Hits} = {i \in DOMAIN q : Announces(q[i], t)}
      BY <2>1
    <2> QED
      BY <2>2 DEF Matches
  <1>2. event \in Hits <=> Announces(event, t)
    OBVIOUS
  <1> HIDE DEF Hits
  <1>3. /\ Matches(emitted, Hits) \in Nat
        /\ Matches(emitted', Hits) = Matches(emitted, Hits) + IF event \in Hits THEN 1 ELSE 0
    BY OneMore
  <1>4. emitted' \in Seq(DomainEvents)
    BY AppendProperties
  <1>5. Announced(t) = Matches(emitted, Hits) /\ Announced(t)' = Matches(emitted', Hits)
    BY <1>1, <1>4 DEF Announced
  <1> QED
    BY <1>2, <1>3, <1>5

\* A set of calls with one more and with one less.
LEMMA OneCallMore ==
  ASSUME NEW Some \in SUBSET Calls, NEW c \in Calls
  PROVE  /\ Cardinality(Some) \in Nat
         /\ c \notin Some => Cardinality(Some \cup {c}) = Cardinality(Some) + 1
         /\ c \in Some => Cardinality(Some \ {c}) + 1 = Cardinality(Some)
  <1>1. IsFiniteSet(Some)
    BY CallsAssumption, FS_Subset
  <1> QED
    BY <1>1, FS_CardinalityType, FS_AddElement, FS_RemoveElement

-----------------------------------------------------------------------------
(***************************************************************************)
(* What a step of one call does to counts and histories                    *)
(***************************************************************************)
OthersWait(c) == \A d \in Calls \ {c} : call'[d] = call[d]

Says(log, field, value) == \E i \in DOMAIN log : log[i].field = field /\ log[i].new = value

LEMMA SaysOfConcat ==
  ASSUME NEW p \in Seq(Entries), NEW q \in Seq(Entries), NEW field, NEW value,
         Says(p, field, value) \/ Says(q, field, value)
  PROVE  Says(p \o q, field, value)
  <1>1. /\ Len(p) \in Nat /\ Len(q) \in Nat /\ DOMAIN p = 1..Len(p) /\ DOMAIN q = 1..Len(q)
        /\ p \o q \in Seq(Entries) /\ Len(p \o q) = Len(p) + Len(q)
        /\ DOMAIN (p \o q) = 1..(Len(p) + Len(q))
    BY LenProperties, ConcatProperties
  <1>2. CASE Says(p, field, value)
    <2>1. PICK i \in DOMAIN p : p[i].field = field /\ p[i].new = value
      BY <1>2 DEF Says
    <2>2. i \in DOMAIN (p \o q) /\ (p \o q)[i] = p[i]
      BY <1>1
    <2> QED
      BY <2>1, <2>2 DEF Says
  <1>3. CASE Says(q, field, value)
    <2>1. PICK i \in DOMAIN q : q[i].field = field /\ q[i].new = value
      BY <1>3 DEF Says
    <2>2. i + Len(p) \in DOMAIN (p \o q) /\ (p \o q)[i + Len(p)] = q[i]
      BY <1>1
    <2> QED
      BY <2>1, <2>2 DEF Says
  <1> QED
    BY <1>2, <1>3

\* The logs of a row, after a step of c: the entries due stay due, or are moved
\* to one of the logs, or there were none.
LogsGrow(c, t) ==
  /\ audit'[t] \in {audit[t], audit[t] \o call[c].due[t]}
  /\ unlogged'[t] \in {unlogged[t], unlogged[t] \o call[c].due[t]}
  /\ \/ call'[c].due[t] = call[c].due[t]
     \/ call[c].due[t] = <<>>
     \/ audit'[t] = audit[t] \o call[c].due[t]
     \/ unlogged'[t] = unlogged[t] \o call[c].due[t]

\* Nothing is lost from the history of a row.
LEMMA KeptGrows ==
  ASSUME TypeOK, NEW c \in Calls, OthersWait(c), NEW t \in Txns, NEW field,
         original'[t] = original[t], LogsGrow(c, t)
  PROVE  Kept(t, field) \subseteq Kept(t, field)'
  <1> SUFFICES ASSUME NEW value \in Dates \cup Amounts,
                      \/ value = original[t][field]
                      \/ Says(audit[t], field, value)
                      \/ Says(unlogged[t], field, value)
                      \/ \E d \in Calls : Says(call[d].due[t], field, value)
               PROVE  \/ value = original'[t][field]
                      \/ Says(audit'[t], field, value)
                      \/ Says(unlogged'[t], field, value)
                      \/ \E d \in Calls : Says(call'[d].due[t], field, value)
    BY DEF Kept, Recorded, Says
  <1>1. /\ audit[t] \in Seq(Entries) /\ unlogged[t] \in Seq(Entries)
        /\ \A d \in Calls : call[d].due[t] \in Seq(Entries)
    BY DEF TypeOK, CallStates
  <1>2. CASE value = original[t][field]
    BY <1>2
  <1>3. CASE Says(audit[t], field, value)
    BY <1>1, <1>3, SaysOfConcat DEF LogsGrow
  <1>4. CASE Says(unlogged[t], field, value)
    BY <1>1, <1>4, SaysOfConcat DEF LogsGrow
  <1>5. ASSUME NEW d \in Calls, Says(call[d].due[t], field, value)
        PROVE  \/ Says(audit'[t], field, value)
               \/ Says(unlogged'[t], field, value)
               \/ \E e \in Calls : Says(call'[e].due[t], field, value)
    <2>1. CASE d # c
      BY <1>5, <2>1 DEF OthersWait
    <2>2. CASE d = c
      <3>1. CASE call'[c].due[t] = call[c].due[t]
        BY <1>5, <2>2, <3>1
      <3>2. CASE call[c].due[t] = <<>>
        BY <1>5, <2>2, <3>2 DEF Says
      <3>3. CASE audit'[t] = audit[t] \o call[c].due[t]
        BY <1>1, <1>5, <2>2, <3>3, SaysOfConcat
      <3>4. CASE unlogged'[t] = unlogged[t] \o call[c].due[t]
        BY <1>1, <1>5, <2>2, <3>4, SaysOfConcat
      <3> QED
        BY <3>1, <3>2, <3>3, <3>4 DEF LogsGrow
    <2> QED
      BY <2>1, <2>2
  <1> QED
    BY <1>2, <1>3, <1>4, <1>5

\* While the logs stay, a count moves with what the call has come to owe.
LEMMA CountMoves ==
  ASSUME TypeOK, NEW c \in Calls, OthersWait(c), NEW t \in Txns, NEW entry,
         audit'[t] = audit[t], unlogged'[t] = unlogged[t]
  PROVE  /\ Count(t, entry) \in Nat
         /\ (Owes(c, t, entry) <=> Owes(c, t, entry)') => Count(t, entry)' = Count(t, entry)
         /\ ~Owes(c, t, entry) /\ Owes(c, t, entry)' => Count(t, entry)' = Count(t, entry) + 1
  <1> DEFINE Some == {d \in Calls : Owes(d, t, entry)}
  <1>1. Times(entry, audit[t]) \in Nat /\ Times(entry, unlogged[t]) \in Nat
    <2>1. audit[t] \in Seq(Entries) /\ unlogged[t] \in Seq(Entries) /\ <<>> \in Seq(Entries)
      BY DEF TypeOK
    <2>2. Len(<<>>) <= 1
      OBVIOUS
    <2> QED
      BY <2>1, <2>2, TimesOfDue
  <1>2. \A d \in Calls \ {c} : Owes(d, t, entry)' <=> Owes(d, t, entry)
    BY DEF OthersWait, Owes
  <1>3. (Owes(c, t, entry) <=> Owes(c, t, entry)') => Some' = Some
    BY <1>2
  <1>4. ~Owes(c, t, entry) /\ Owes(c, t, entry)' => Some' = Some \cup {c} /\ c \notin Some
    BY <1>2
  <1>5. /\ Count(t, entry) = Times(entry, audit[t]) + Times(entry, unlogged[t]) + Cardinality(Some)
        /\ Count(t, entry)' = Times(entry, audit[t]) + Times(entry, unlogged[t]) + Cardinality(Some')
    BY DEF Count
  <1>6. Some \in SUBSET Calls
    OBVIOUS
  <1> HIDE DEF Some
  <1>7. Cardinality(Some) \in Nat /\ (c \notin Some => Cardinality(Some \cup {c}) = Cardinality(Some) + 1)
    BY <1>6, OneCallMore
  <1>8. ASSUME Owes(c, t, entry) <=> Owes(c, t, entry)' PROVE Count(t, entry)' = Count(t, entry)
    BY <1>3, <1>5, <1>8
  <1>9. ASSUME ~Owes(c, t, entry) /\ Owes(c, t, entry)'
        PROVE  Count(t, entry)' = Count(t, entry) + 1
    <2>1. Cardinality(Some') = Cardinality(Some) + 1
      BY <1>4, <1>7, <1>9
    <2> QED
      BY <1>1, <1>5, <1>7, <2>1
  <1>10. Count(t, entry) \in Nat
    BY <1>1, <1>5, <1>7
  <1> QED
    BY <1>8, <1>9, <1>10

\* When what a call owes is moved to a log, it is counted there instead.
LEMMA CountMoved ==
  ASSUME TypeOK, NEW c \in Calls, OthersWait(c), NEW t \in Txns, NEW entry,
         Len(call[c].due[t]) <= 1, call'[c].due[t] = <<>>,
         \/ audit'[t] = audit[t] \o call[c].due[t] /\ unlogged'[t] = unlogged[t]
         \/ audit'[t] = audit[t] /\ unlogged'[t] = unlogged[t] \o call[c].due[t]
  PROVE  Count(t, entry)' = Count(t, entry)
  <1> DEFINE Some == {d \in Calls : Owes(d, t, entry)}
             due == call[c].due[t]
             one == IF Owes(c, t, entry) THEN 1 ELSE 0
  <1>1. audit[t] \in Seq(Entries) /\ unlogged[t] \in Seq(Entries) /\ due \in Seq(Entries)
    BY DEF TypeOK, CallStates
  <1>2. /\ Times(entry, audit[t]) \in Nat
        /\ Times(entry, audit[t] \o due) = Times(entry, audit[t]) + one
    BY <1>1, TimesOfDue DEF Owes
  <1>3. /\ Times(entry, unlogged[t]) \in Nat
        /\ Times(entry, unlogged[t] \o due) = Times(entry, unlogged[t]) + one
    BY <1>1, TimesOfDue DEF Owes
  <1>4. Some \in SUBSET Calls /\ Some' = Some \ {c} /\ (c \in Some <=> Owes(c, t, entry))
    <2>1. \A d \in Calls \ {c} : Owes(d, t, entry)' <=> Owes(d, t, entry)
      BY DEF OthersWait, Owes
    <2>2. ~Owes(c, t, entry)'
      BY DEF Owes
    <2> QED
      BY <2>1, <2>2
  <1>5. /\ Count(t, entry) = Times(entry, audit[t]) + Times(entry, unlogged[t]) + Cardinality(Some)
        /\ Count(t, entry)' = Times(entry, audit'[t]) + Times(entry, unlogged'[t]) + Cardinality(Some')
    BY DEF Count
  <1> HIDE DEF Some, due
  <1>6. Cardinality(Some) \in Nat /\ Cardinality(Some') \in Nat
        /\ Cardinality(Some') + one = Cardinality(Some)
    <2>1. /\ Cardinality(Some) \in Nat /\ Cardinality(Some \ {c}) \in Nat
          /\ c \in Some => Cardinality(Some \ {c}) + 1 = Cardinality(Some)
      BY <1>4, OneCallMore
    <2>2. CASE Owes(c, t, entry)
      BY <1>4, <2>1, <2>2
    <2>3. CASE ~Owes(c, t, entry)
      <3>1. Some' = Some
        BY <1>4, <2>3
      <3> QED
        BY <2>1, <2>3, <3>1
    <2> QED
      BY <2>2, <2>3
  <1>7. CASE audit'[t] = audit[t] \o call[c].due[t] /\ unlogged'[t] = unlogged[t]
    BY <1>2, <1>3, <1>5, <1>6, <1>7 DEF due
  <1>8. CASE audit'[t] = audit[t] /\ unlogged'[t] = unlogged[t] \o call[c].due[t]
    BY <1>2, <1>3, <1>5, <1>6, <1>8 DEF due
  <1> QED
    BY <1>7, <1>8

-----------------------------------------------------------------------------
(***************************************************************************)
(* What the steps do to a call and to a row                                *)
(***************************************************************************)
LEMMA IdleIsACall ==
  /\ IdleCall \in CallStates
  /\ NoEntries \in [Txns -> Seq(Entries)]
  /\ IdleCall.op = "idle" /\ IdleCall.step = "start" /\ IdleCall.due = NoEntries
  /\ IdleCall.todo = {}
  <1>1. /\ (CHOOSE t \in Txns : TRUE) \in Txns
        /\ (CHOOSE d \in Dates : TRUE) \in Dates
        /\ (CHOOSE a \in Amounts : TRUE) \in Amounts
    BY StoreAssumption
  <1>2. NoEntries \in [Txns -> Seq(Entries)]
    BY DEF NoEntries
  <1> DEFINE absent == [state |-> "absent", date |-> CHOOSE d \in Dates : TRUE,
                        amount |-> CHOOSE a \in Amounts : TRUE, untouched |-> TRUE]
  <1>3. absent \in TransactionRows
    BY <1>1 DEF TransactionRows
  <1>4. IdleCall = [op |-> "idle", step |-> "start", txn |-> CHOOSE t \in Txns : TRUE,
                    undoing |-> FALSE, before |-> absent, field |-> "amount",
                    value |-> CHOOSE a \in Amounts : TRUE,
                    previous |-> CHOOSE d \in Dates : TRUE, todo |-> {}, due |-> NoEntries]
    BY DEF IdleCall
  <1>5. "idle" \in Ops /\ "amount" \in Fields /\ FALSE \in BOOLEAN
        /\ (CHOOSE a \in Amounts : TRUE) \in Dates \cup Amounts
    BY <1>1 DEF Ops, Fields
  <1> HIDE DEF NoEntries, absent
  <1>6. IdleCall \in CallStates
    BY <1>1, <1>2, <1>3, <1>4, <1>5 DEF CallStates
  <1> QED
    BY <1>2, <1>4, <1>6

\* A call becomes what a step makes it, and the others wait.
LEMMA BeginStands ==
  ASSUME call \in [Calls -> CallStates], NEW c \in Calls, NEW new \in CallStates,
         call' = [call EXCEPT ![c] = new]
  PROVE  call' \in [Calls -> CallStates] /\ call'[c] = new /\ OthersWait(c)
  BY DEF OthersWait

LEMMA WriteStands ==
  ASSUME StoreTypeOK, NEW t \in Txns, NEW new \in TransactionRows, NEW events \in Seq(DomainEvents),
         Write(t, new, events)
  PROVE  /\ StoreTypeOK'
         /\ row'[t] = new /\ \A u \in Txns \ {t} : row'[u] = row[u]
         /\ emitted' = emitted \o events
  <1>1. Cardinality({t}) = 1
    BY FS_Singleton
  <1>2. row' \in [Txns -> TransactionRows] /\ row'[t] = new /\ \A u \in Txns \ {t} : row'[u] = row[u]
    BY DEF StoreTypeOK, Write
  <1>3. latest' \in SUBSET Txns /\ Cardinality(latest') <= 1
    BY <1>1 DEF Write
  <1>4. emitted' = emitted \o events /\ emitted' \in Seq(DomainEvents)
    BY ConcatProperties DEF StoreTypeOK, Write
  <1>5. writes' \in 0..MaxWrites
    BY StoreAssumption DEF StoreTypeOK, Write
  <1> QED
    BY <1>2, <1>3, <1>4, <1>5 DEF StoreTypeOK

\* What stands after a step of one call that loses no entry and no row.
LEMMA OthersStand ==
  ASSUME HistoryInv, NEW c \in Calls, OthersWait(c), original' = original,
         \A t \in Txns : LogsGrow(c, t),
         \A t \in Txns : row[t].state # "absent" => row'[t].state # "absent",
         DuesStand(call'[c]), EditsStand(call[c])'
  PROVE  CallsStand'
  <1> SUFFICES ASSUME NEW d \in Calls PROVE DuesStand(call'[d]) /\ EditsStand(call[d])'
    BY DEF CallsStand, DuesStand, NoEntries
  <1>1. CASE d = c
    BY <1>1
  <1>2. CASE d # c
    <2>1. call'[d] = call[d]
      BY <1>2 DEF OthersWait
    <2>2. DuesStand(call'[d])
      BY <2>1 DEF HistoryInv, CallsStand
    <2>3. ASSUME Editing(call[d]), NEW t, NEW field, t = call[d].txn, field = call[d].field
          PROVE  /\ call[d].value \in ValuesOf(field)
                 /\ row'[t].state # "absent"
                 /\ call[d].before[field] \in Kept(t, field)'
      <3>1. t \in Txns
        BY <2>3 DEF HistoryInv, TypeOK, CallStates
      <3>2. /\ call[d].value \in ValuesOf(field)
            /\ row[t].state # "absent"
            /\ call[d].before[field] \in Kept(t, field)
        BY <2>3 DEF HistoryInv, CallsStand, EditsStand
      <3>3. Kept(t, field) \subseteq Kept(t, field)'
        BY <3>1, KeptGrows DEF HistoryInv
      <3> QED
        BY <3>1, <3>2, <3>3
    <2>4. EditsStand(call[d])'
      <3>1. PICK t, field : t = call[d].txn /\ field = call[d].field
        OBVIOUS
      <3>2. Editing(call[d]) => /\ call[d].value \in ValuesOf(field)
                                /\ row'[t].state # "absent"
                                /\ call[d].before[field] \in Kept(t, field)'
        BY <2>3, <3>1
      <3>3. call'[d].txn = t /\ call'[d].field = field
        BY <2>1, <3>1
      <3> QED
        BY <2>1, <3>2, <3>3 DEF EditsStand, Editing, Kept, Recorded
    <2> QED
      BY <2>2, <2>4
  <1> QED
    BY <1>1, <1>2

\* A field holds a value of the history when it keeps the one it had.
LEMMA ValuesStand ==
  ASSUME HistoryInv, NEW c \in Calls, OthersWait(c), original' = original,
         \A t \in Txns : LogsGrow(c, t),
         \A t \in Txns, field \in Fields :
           \/ row'[t][field] = row[t][field]
           \/ row'[t][field] \in Kept(t, field)'
  PROVE  EveryValueIsRecorded'
  <1> SUFFICES ASSUME NEW t \in Txns, NEW field \in Fields
               PROVE  row'[t][field] \in Kept(t, field)'
    BY DEF EveryValueIsRecorded, Kept, Recorded
  <1>1. row[t][field] \in Kept(t, field)
    <2>1. row[t][field] \in Dates \cup Amounts
      BY DEF HistoryInv, TypeOK, StoreTypeOK, TransactionRows, Fields
    <2> QED
      BY <2>1 DEF HistoryInv, EveryValueIsRecorded, Kept
  <1>2. Kept(t, field) \subseteq Kept(t, field)'
    BY KeptGrows DEF HistoryInv
  <1> QED
    BY <1>1, <1>2

\* A step that writes nothing, and leaves due what is due.
LEMMA QuietStands ==
  ASSUME HistoryInv, NEW c \in Calls, NEW new \in CallStates,
         UNCHANGED <<storeVars, audit, unlogged, original>>,
         call' = [call EXCEPT ![c] = new], new.due = call[c].due,
         DuesStand(new), EditsStand(new)
  PROVE  HistoryInv'
  <1>1. call' \in [Calls -> CallStates] /\ call'[c] = new /\ OthersWait(c)
    BY BeginStands DEF HistoryInv, TypeOK
  <1>2. TypeOK'
    BY <1>1 DEF HistoryInv, TypeOK, StoreTypeOK, storeVars
  <1>3. /\ original' = original /\ row' = row /\ emitted' = emitted
        /\ audit' = audit /\ unlogged' = unlogged
    BY DEF storeVars
  <1>4. \A t \in Txns : LogsGrow(c, t)
    BY <1>1, <1>3 DEF LogsGrow
  <1>5. EditsStand(call[c])'
    <2>1. ASSUME Editing(new), NEW t, NEW field, t = new.txn, field = new.field
          PROVE  /\ new.value \in ValuesOf(field)
                 /\ row'[t].state # "absent"
                 /\ new.before[field] \in Kept(t, field)'
      <3>1. t \in Txns
        BY <2>1 DEF CallStates
      <3>2. /\ new.value \in ValuesOf(field)
            /\ row[t].state # "absent"
            /\ new.before[field] \in Kept(t, field)
        BY <2>1 DEF EditsStand
      <3>3. Kept(t, field) \subseteq Kept(t, field)'
        BY <1>1, <1>3, <1>4, <3>1, KeptGrows DEF HistoryInv
      <3> QED
        BY <1>3, <3>2, <3>3
    <2> QED
      BY <1>1, <2>1 DEF EditsStand, Editing, Kept, Recorded
  <1>6. CallsStand'
    BY <1>1, <1>3, <1>4, <1>5, OthersStand
  <1>7. EveryValueIsRecorded'
    BY <1>1, <1>3, <1>4, ValuesStand
  <1>8. DeletionsBalance'
    <2> SUFFICES ASSUME NEW t \in Txns
                 PROVE  /\ Count(t, DeletedEntry)'
                             = Count(t, RestoredEntry)' + IF Deleted(t)' THEN 1 ELSE 0
                        /\ Announced(t)' = Count(t, DeletedEntry)'
      BY DEF DeletionsBalance
    <2>1. ASSUME NEW entry PROVE Count(t, entry)' = Count(t, entry)
      <3>1. Owes(c, t, entry) <=> Owes(c, t, entry)'
        BY <1>1 DEF Owes
      <3> QED
        BY <1>1, <1>3, <3>1, CountMoves DEF HistoryInv
    <2>2. Announced(t)' = Announced(t)
      BY <1>3 DEF Announced
    <2>3. Deleted(t)' <=> Deleted(t)
      BY <1>3 DEF Deleted
    <2>4. /\ Count(t, DeletedEntry) = Count(t, RestoredEntry) + IF Deleted(t) THEN 1 ELSE 0
          /\ Announced(t) = Count(t, DeletedEntry)
      BY DEF HistoryInv, DeletionsBalance
    <2> QED
      BY <2>1, <2>2, <2>3, <2>4
  <1> QED
    BY <1>2, <1>6, <1>7, <1>8 DEF HistoryInv

\* The entries due are recorded, or lost in a failure.
LEMMA MovesStand ==
  ASSUME HistoryInv, NEW c \in Calls,
         UNCHANGED <<storeVars, original>>,
         call' = [call EXCEPT ![c] = IdleCall],
         \/ audit' = AppendTo(audit, c) /\ unlogged' = unlogged
         \/ unlogged' = AppendTo(unlogged, c) /\ audit' = audit
  PROVE  HistoryInv'
  <1>1. call' \in [Calls -> CallStates] /\ call'[c] = IdleCall /\ OthersWait(c)
    BY BeginStands, IdleIsACall DEF HistoryInv, TypeOK
  <1>2. \A t \in Txns : call'[c].due[t] = <<>> /\ Len(call[c].due[t]) <= 1
    BY <1>1, IdleIsACall DEF NoEntries, HistoryInv, CallsStand, DuesStand
  <1>3. /\ original' = original /\ row' = row /\ emitted' = emitted
    BY DEF storeVars
  <1>4. \A t \in Txns :
          \/ audit'[t] = audit[t] \o call[c].due[t] /\ unlogged'[t] = unlogged[t]
          \/ audit'[t] = audit[t] /\ unlogged'[t] = unlogged[t] \o call[c].due[t]
    BY DEF AppendTo
  <1>5. TypeOK'
    <2>1. \A t \in Txns : /\ audit[t] \in Seq(Entries) /\ unlogged[t] \in Seq(Entries)
                          /\ call[c].due[t] \in Seq(Entries)
      BY DEF HistoryInv, TypeOK, CallStates
    <2>2. AppendTo(audit, c) \in [Txns -> Seq(Entries)]
      BY <2>1, ConcatProperties DEF AppendTo
    <2>3. AppendTo(unlogged, c) \in [Txns -> Seq(Entries)]
      BY <2>1, ConcatProperties DEF AppendTo
    <2> QED
      BY <1>1, <2>2, <2>3 DEF HistoryInv, TypeOK, StoreTypeOK, storeVars
  <1>6. \A t \in Txns : LogsGrow(c, t)
    BY <1>2, <1>4 DEF LogsGrow
  <1>7. DuesStand(IdleCall) /\ EditsStand(call[c])'
    BY <1>1, IdleIsACall DEF DuesStand, EditsStand, Editing, NoEntries
  <1>8. CallsStand'
    BY <1>1, <1>3, <1>6, <1>7, OthersStand
  <1>9. EveryValueIsRecorded'
    BY <1>1, <1>3, <1>6, ValuesStand
  <1>10. DeletionsBalance'
    <2> SUFFICES ASSUME NEW t \in Txns
                 PROVE  /\ Count(t, DeletedEntry)'
                             = Count(t, RestoredEntry)' + IF Deleted(t)' THEN 1 ELSE 0
                        /\ Announced(t)' = Count(t, DeletedEntry)'
      BY DEF DeletionsBalance
    <2>1. ASSUME NEW entry PROVE Count(t, entry)' = Count(t, entry)
      BY <1>1, <1>2, <1>4, CountMoved DEF HistoryInv
    <2>2. Announced(t)' = Announced(t)
      BY <1>3 DEF Announced
    <2>3. Deleted(t)' <=> Deleted(t)
      BY <1>3 DEF Deleted
    <2>4. /\ Count(t, DeletedEntry) = Count(t, RestoredEntry) + IF Deleted(t) THEN 1 ELSE 0
          /\ Announced(t) = Count(t, DeletedEntry)
      BY DEF HistoryInv, DeletionsBalance
    <2> QED
      BY <2>1, <2>2, <2>3, <2>4
  <1> QED
    BY <1>5, <1>8, <1>9, <1>10 DEF HistoryInv

\* A step of a call, now old and then new, that writes the row t as it will be,
\* and comes to owe for it, and for it alone: it owes a deletion, or a
\* restoration, exactly when it made one.
OwesWhatItWrites(old, new, t, to) ==
  /\ old.due[t] = <<>> /\ \A u \in Txns \ {t} : new.due[u] = old.due[u]
  /\ row[t].state # "absent" => to.state # "absent"
  /\ \A field \in Fields : \/ to[field] = row[t][field]
                           \/ to[field] \in Kept(t, field)
                           \/ Says(new.due[t], field, to[field])
  /\ (\E i \in DOMAIN new.due[t] : new.due[t][i] = DeletedEntry)
       <=> row[t].state # "deleted" /\ to.state = "deleted"
  /\ (\E i \in DOMAIN new.due[t] : new.due[t][i] = RestoredEntry)
       <=> row[t].state = "deleted" /\ to.state # "deleted"
  /\ \A u \in Txns :
       /\ Announced(u) \in Nat
       /\ Announced(u)' = Announced(u) + IF u = t /\ row[t].state # "deleted"
                                                  /\ to.state = "deleted" THEN 1 ELSE 0

LEMMA WritesStand ==
  ASSUME HistoryInv, NEW c \in Calls, NEW new \in CallStates,
         call' = [call EXCEPT ![c] = new],
         NEW t \in Txns, NEW to \in TransactionRows, NEW events \in Seq(DomainEvents),
         Write(t, to, events), UNCHANGED <<audit, unlogged, original>>,
         DuesStand(new), ~Editing(new), OwesWhatItWrites(call[c], new, t, to)
  PROVE  HistoryInv'
  <1>0. /\ call[c].due[t] = <<>> /\ \A u \in Txns \ {t} : new.due[u] = call[c].due[u]
        /\ row[t].state # "absent" => to.state # "absent"
        /\ \A field \in Fields : \/ to[field] = row[t][field]
                                 \/ to[field] \in Kept(t, field)
                                 \/ Says(new.due[t], field, to[field])
        /\ (\E i \in DOMAIN new.due[t] : new.due[t][i] = DeletedEntry)
             <=> row[t].state # "deleted" /\ to.state = "deleted"
        /\ (\E i \in DOMAIN new.due[t] : new.due[t][i] = RestoredEntry)
             <=> row[t].state = "deleted" /\ to.state # "deleted"
        /\ \A u \in Txns :
             /\ Announced(u) \in Nat
             /\ Announced(u)' = Announced(u) + IF u = t /\ row[t].state # "deleted"
                                                        /\ to.state = "deleted" THEN 1 ELSE 0
    BY DEF OwesWhatItWrites
  <1>1. call' \in [Calls -> CallStates] /\ call'[c] = new /\ OthersWait(c)
    BY BeginStands DEF HistoryInv, TypeOK
  <1>2. StoreTypeOK' /\ row'[t] = to /\ \A u \in Txns \ {t} : row'[u] = row[u]
    BY WriteStands DEF HistoryInv, TypeOK
  <1>3. original' = original /\ audit' = audit /\ unlogged' = unlogged
    OBVIOUS
  <1>4. TypeOK'
    BY <1>1, <1>2, <1>3 DEF HistoryInv, TypeOK
  <1>5. \A u \in Txns : LogsGrow(c, u)
    BY <1>0, <1>1, <1>3 DEF LogsGrow
  <1>6. CallsStand'
    <2>1. EditsStand(call[c])'
      BY <1>1 DEF EditsStand, Editing
    <2>2. \A u \in Txns : row[u].state # "absent" => row'[u].state # "absent"
      BY <1>0, <1>2
    <2> QED
      BY <1>1, <1>3, <1>5, <2>1, <2>2, OthersStand
  <1>7. EveryValueIsRecorded'
    <2>1. ASSUME NEW u \in Txns, NEW field \in Fields
          PROVE  row'[u][field] = row[u][field] \/ row'[u][field] \in Kept(u, field)'
      <3>1. CASE u # t
        BY <1>2, <3>1
      <3>2. CASE u = t /\ to[field] \in Kept(t, field)
        BY <1>0, <1>1, <1>2, <1>3, <1>5, <3>2, KeptGrows DEF HistoryInv
      <3>3. CASE u = t /\ Says(new.due[t], field, to[field])
        <4>1. to[field] \in Dates \cup Amounts
          BY DEF TransactionRows, Fields
        <4>2. Recorded(t, field, to[field])'
          BY <1>1, <3>3 DEF Recorded, Says
        <4> QED
          BY <1>2, <3>3, <4>1, <4>2 DEF Kept
      <3> QED
        BY <1>0, <1>2, <3>1, <3>2, <3>3
    <2> QED
      BY <1>1, <1>3, <1>5, <2>1, ValuesStand
  <1>8. DeletionsBalance'
    <2> SUFFICES ASSUME NEW u \in Txns
                 PROVE  /\ Count(u, DeletedEntry)'
                             = Count(u, RestoredEntry)' + IF Deleted(u)' THEN 1 ELSE 0
                        /\ Announced(u)' = Count(u, DeletedEntry)'
      BY DEF DeletionsBalance
    <2>1. /\ Count(u, DeletedEntry) = Count(u, RestoredEntry) + IF Deleted(u) THEN 1 ELSE 0
          /\ Announced(u) = Count(u, DeletedEntry)
      BY DEF HistoryInv, DeletionsBalance
    <2>2. Deleted(u) <=> row[u].state = "deleted"
      BY DEF Deleted
    <2>3. Deleted(u)' <=> row'[u].state = "deleted"
      BY DEF Deleted
    <2>4. ASSUME NEW entry
          PROVE  /\ Count(u, entry) \in Nat
                 /\ (Owes(c, u, entry) <=> Owes(c, u, entry)') => Count(u, entry)' = Count(u, entry)
                 /\ ~Owes(c, u, entry) /\ Owes(c, u, entry)' => Count(u, entry)' = Count(u, entry) + 1
      BY <1>1, <1>3, CountMoves DEF HistoryInv
    <2>5. CASE u # t
      <3>1. ASSUME NEW entry PROVE Count(u, entry)' = Count(u, entry)
        <4>1. Owes(c, u, entry) <=> Owes(c, u, entry)'
          BY <1>0, <1>1, <2>5 DEF Owes
        <4> QED
          BY <2>4, <4>1
      <3>2. Announced(u)' = Announced(u)
        BY <1>0, <2>5
      <3>3. Deleted(u)' <=> Deleted(u)
        BY <1>2, <2>2, <2>3, <2>5
      <3> QED
        BY <2>1, <3>1, <3>2, <3>3
    <2>6. CASE u = t
      <3>1. ~Owes(c, t, DeletedEntry) /\ ~Owes(c, t, RestoredEntry)
        BY <1>0 DEF Owes
      <3>2. Owes(c, t, DeletedEntry)' <=> row[t].state # "deleted" /\ to.state = "deleted"
        BY <1>0, <1>1 DEF Owes
      <3>3. Owes(c, t, RestoredEntry)' <=> row[t].state = "deleted" /\ to.state # "deleted"
        BY <1>0, <1>1 DEF Owes
      <3>4. /\ Count(t, DeletedEntry) \in Nat /\ Count(t, RestoredEntry) \in Nat
            /\ Count(t, DeletedEntry)' = Count(t, DeletedEntry)
                 + IF row[t].state # "deleted" /\ to.state = "deleted" THEN 1 ELSE 0
        BY <2>4, <2>6, <3>1, <3>2
      <3>5. Count(t, RestoredEntry)' = Count(t, RestoredEntry)
                 + IF row[t].state = "deleted" /\ to.state # "deleted" THEN 1 ELSE 0
        BY <2>4, <2>6, <3>1, <3>3, <3>4
      <3>6. Announced(t)' = Announced(t)
                 + IF row[t].state # "deleted" /\ to.state = "deleted" THEN 1 ELSE 0
        BY <1>0
      <3>7. CASE row[t].state = "deleted"
        <4>1. CASE to.state = "deleted"
          BY <1>2, <2>1, <2>2, <2>3, <2>6, <3>4, <3>5, <3>6, <3>7, <4>1
        <4>2. CASE to.state # "deleted"
          BY <1>2, <2>1, <2>2, <2>3, <2>6, <3>4, <3>5, <3>6, <3>7, <4>2
        <4> QED
          BY <4>1, <4>2
      <3>8. CASE row[t].state # "deleted"
        <4>1. CASE to.state = "deleted"
          BY <1>2, <2>1, <2>2, <2>3, <2>6, <3>4, <3>5, <3>6, <3>8, <4>1
        <4>2. CASE to.state # "deleted"
          BY <1>2, <2>1, <2>2, <2>3, <2>6, <3>4, <3>5, <3>6, <3>8, <4>2
        <4> QED
          BY <4>1, <4>2
      <3> QED
        BY <3>7, <3>8
    <2> QED
      BY <2>5, <2>6
  <1> QED
    BY <1>4, <1>6, <1>7, <1>8 DEF HistoryInv

-----------------------------------------------------------------------------
(***************************************************************************)
(* The steps                                                               *)
(***************************************************************************)
\* An event counts as announced if it is the deletion of the row.
LEMMA EventsCount ==
  ASSUME StoreTypeOK, NEW event \in DomainEvents, emitted' = emitted \o <<event>>, NEW t
  PROVE  /\ Announced(t) \in Nat
         /\ Announced(t)' = Announced(t) + IF Announces(event, t) THEN 1 ELSE 0
  <1>1. emitted \in Seq(DomainEvents) /\ emitted' = Append(emitted, event)
    BY AppendIsConcat DEF StoreTypeOK
  <1> QED
    BY <1>1, AnnouncedOneMore

LEMMA NothingCounts ==
  ASSUME StoreTypeOK, emitted' = emitted \o <<>>, NEW t
  PROVE  Announced(t) \in Nat /\ Announced(t)' = Announced(t)
  <1>1. emitted \in Seq(DomainEvents) /\ emitted' = emitted
    BY DEF StoreTypeOK
  <1>2. Announced(t) \in Nat
    <2>1. IsFiniteSet(DOMAIN emitted)
      BY <1>1, FS_Interval
    <2>2. IsFiniteSet({i \in DOMAIN emitted : Announces(emitted[i], t)})
      BY <2>1, FS_Subset
    <2> QED
      BY <2>2, FS_CardinalityType DEF Announced
  <1> QED
    BY <1>1, <1>2 DEF Announced

LEMMA CreateStands ==
  ASSUME HistoryInv, NEW t \in Txns, NEW d \in Dates, NEW a \in Amounts, Create(t, d, a)
  PROVE  HistoryInv'
  <1> DEFINE new == [state |-> "live", date |-> d, amount |-> a, untouched |-> TRUE]
             event == [type |-> "TransactionCommitted", txn |-> t, from |-> d, to |-> d]
  <1>1. new \in TransactionRows /\ event \in DomainEvents /\ <<event>> \in Seq(DomainEvents)
    BY DEF TransactionRows, DomainEvents, EventTypes
  <1>2. /\ row[t].state = "absent" /\ Write(t, new, <<event>>)
        /\ original' = [original EXCEPT ![t] = row'[t]]
        /\ call' = call /\ audit' = audit /\ unlogged' = unlogged
    BY DEF Create, CreateRow
  <1> HIDE DEF new
  <1>3. /\ StoreTypeOK' /\ row'[t] = new /\ \A u \in Txns \ {t} : row'[u] = row[u]
        /\ emitted' = emitted \o <<event>>
    BY <1>1, <1>2, WriteStands DEF HistoryInv, TypeOK
  <1>4. /\ original' \in [Txns -> TransactionRows] /\ original'[t] = new
        /\ \A u \in Txns \ {t} : original'[u] = original[u]
    BY <1>1, <1>2, <1>3 DEF HistoryInv, TypeOK
  <1>5. TypeOK'
    BY <1>2, <1>3, <1>4 DEF HistoryInv, TypeOK
  <1>6. ASSUME NEW u \in Txns \ {t}, NEW field PROVE Kept(u, field)' = Kept(u, field)
    BY <1>2, <1>4 DEF Kept, Recorded
  <1>7. CallsStand'
    <2> SUFFICES ASSUME NEW k \in Calls PROVE DuesStand(call'[k]) /\ EditsStand(call[k])'
      BY DEF CallsStand, DuesStand, NoEntries
    <2>1. DuesStand(call'[k])
      BY <1>2 DEF HistoryInv, CallsStand
    <2>2. ASSUME Editing(call[k]), NEW u, NEW field, u = call[k].txn, field = call[k].field
          PROVE  /\ call[k].value \in ValuesOf(field)
                 /\ row'[u].state # "absent"
                 /\ call[k].before[field] \in Kept(u, field)'
      <3>1. u \in Txns
        BY <2>2 DEF HistoryInv, TypeOK, CallStates
      <3>2. /\ call[k].value \in ValuesOf(field)
            /\ row[u].state # "absent"
            /\ call[k].before[field] \in Kept(u, field)
        BY <2>2 DEF HistoryInv, CallsStand, EditsStand
      <3>3. u # t
        BY <1>2, <3>2
      <3> QED
        BY <1>3, <1>6, <3>1, <3>2, <3>3
    <2>3. EditsStand(call[k])'
      BY <1>2, <2>2 DEF EditsStand, Editing, Kept, Recorded
    <2> QED
      BY <2>1, <2>3
  <1>8. EveryValueIsRecorded'
    <2> SUFFICES ASSUME NEW u \in Txns, NEW field \in Fields
                 PROVE  Recorded(u, field, row[u][field])'
      BY DEF EveryValueIsRecorded
    <2>1. CASE u = t
      BY <1>3, <1>4, <2>1 DEF Recorded
    <2>2. CASE u # t
      <3>1. Recorded(u, field, row[u][field])
        BY DEF HistoryInv, EveryValueIsRecorded
      <3> QED
        BY <1>2, <1>3, <1>4, <2>2, <3>1 DEF Recorded
    <2> QED
      BY <2>1, <2>2
  <1>9. DeletionsBalance'
    <2> SUFFICES ASSUME NEW u \in Txns
                 PROVE  /\ Count(u, DeletedEntry)'
                             = Count(u, RestoredEntry)' + IF Deleted(u)' THEN 1 ELSE 0
                        /\ Announced(u)' = Count(u, DeletedEntry)'
      BY DEF DeletionsBalance
    <2>1. /\ Count(u, DeletedEntry) = Count(u, RestoredEntry) + IF Deleted(u) THEN 1 ELSE 0
          /\ Announced(u) = Count(u, DeletedEntry)
      BY DEF HistoryInv, DeletionsBalance
    <2>2. ASSUME NEW entry PROVE Count(u, entry)' = Count(u, entry)
      BY <1>2 DEF Count, Owes
    <2>3. Announced(u)' = Announced(u)
      <3>1. ~Announces(event, u)
        BY DEF Announces
      <3>2. /\ Announced(u) \in Nat
            /\ Announced(u)' = Announced(u) + IF Announces(event, u) THEN 1 ELSE 0
        BY <1>1, <1>3, EventsCount DEF HistoryInv, TypeOK
      <3> QED
        BY <3>1, <3>2
    <2>4. Deleted(u)' <=> Deleted(u)
      BY <1>2, <1>3 DEF Deleted, new
    <2> QED
      BY <2>1, <2>2, <2>3, <2>4
  <1> QED
    BY <1>5, <1>7, <1>8, <1>9 DEF HistoryInv

LEMMA EditChecksStand ==
  ASSUME HistoryInv, NEW c \in Calls, NEW t \in Txns, NEW field \in Fields,
         NEW value \in Dates \cup Amounts, EditChecks(c, t, field, value)
  PROVE  HistoryInv'
  <1> DEFINE new == [IdleCall EXCEPT !.op = "edit", !.step = "checked", !.txn = t,
                       !.before = row[t], !.field = field, !.value = value]
  <1>1. /\ call[c].op = "idle" /\ row[t].state = "live" /\ value \in ValuesOf(field)
        /\ call' = [call EXCEPT ![c] = new]
        /\ UNCHANGED <<storeVars, audit, unlogged, original>>
    BY DEF EditChecks, Idle, Live, Begin
  <1>2. row[t] \in TransactionRows /\ row[t][field] \in Dates \cup Amounts
    BY DEF HistoryInv, TypeOK, StoreTypeOK, TransactionRows, Fields
  <1>3. /\ new \in CallStates
        /\ new.op = "edit" /\ new.step = "checked" /\ new.txn = t /\ new.before = row[t]
        /\ new.field = field /\ new.value = value /\ new.due = NoEntries /\ new.todo = {}
    BY <1>2, IdleIsACall DEF CallStates, Ops
  <1> HIDE DEF new
  <1>4. new.due = call[c].due
    BY <1>1, <1>3 DEF HistoryInv, CallsStand, DuesStand
  <1>5. DuesStand(new)
    BY <1>3 DEF DuesStand, NoEntries
  <1>6. EditsStand(new)
    <2>1. row[t][field] \in Kept(t, field)
      BY <1>2 DEF HistoryInv, EveryValueIsRecorded, Kept
    <2> QED
      BY <1>1, <1>3, <2>1 DEF EditsStand
  <1> QED
    BY <1>1, <1>3, <1>4, <1>5, <1>6, QuietStands

LEMMA EditReadsDateStands ==
  ASSUME HistoryInv, NEW c \in Calls, EditReadsDate(c)
  PROVE  HistoryInv'
  <1> DEFINE t == call[c].txn
             new == [call[c] EXCEPT !.step = "dated", !.previous = row[t].date]
  <1>1. /\ call[c].op = "edit" /\ call[c].step = "checked"
        /\ call[c] \in CallStates /\ t \in Txns /\ row[t].date \in Dates
    BY DEF HistoryInv, TypeOK, StoreTypeOK, CallStates, TransactionRows, EditReadsDate, At
  <1>2. /\ call' = [call EXCEPT ![c] = new]
        /\ UNCHANGED <<storeVars, audit, unlogged, original>>
    <2>1. call' = [call EXCEPT ![c].step = "dated", ![c].previous = row[call[c].txn].date]
      BY DEF EditReadsDate
    <2>2. call \in [Calls -> CallStates]
      BY DEF HistoryInv, TypeOK
    <2> QED
      BY <2>1, <2>2 DEF EditReadsDate
  <1>3. /\ new \in CallStates
        /\ new.op = "edit" /\ new.step = "dated" /\ new.txn = t /\ new.before = call[c].before
        /\ new.field = call[c].field /\ new.value = call[c].value /\ new.due = call[c].due
        /\ new.todo = call[c].todo
    BY <1>1 DEF CallStates
  <1>4. DuesStand(call[c]) /\ EditsStand(call[c])
    BY DEF HistoryInv, CallsStand
  <1> HIDE DEF new, t
  <1>5. DuesStand(new)
    BY <1>1, <1>3, <1>4 DEF DuesStand
  <1>6. EditsStand(new)
    BY <1>1, <1>3, <1>4 DEF EditsStand, Editing, t
  <1> QED
    BY <1>2, <1>3, <1>5, <1>6, QuietStands

\* The entry an edit owes holds the new value, unless it is the one first read.
LEMMA EditWritesStand ==
  ASSUME HistoryInv, NEW c \in Calls, EditWrites(c)
  PROVE  HistoryInv'
  <1> DEFINE t == call[c].txn
             field == call[c].field
             value == call[c].value
             to == [row[t] EXCEPT ![field] = value, !.untouched = FALSE]
             event == [type |-> "TransactionEdited", txn |-> t, from |-> call[c].previous,
                       to |-> to.date]
             new == [IdleCall EXCEPT !.op = "edit", !.step = "written", !.due[t] = Diff(c)]
  <1>1. /\ call[c].op = "edit" /\ call[c].step = "dated" /\ call[c] \in CallStates
        /\ t \in Txns /\ field \in Fields /\ value \in Dates \cup Amounts
        /\ call[c].before \in TransactionRows /\ call[c].previous \in Dates /\ row[t] \in TransactionRows
    BY DEF HistoryInv, TypeOK, StoreTypeOK, CallStates, EditWrites, At
  <1>2. DuesStand(call[c]) /\ EditsStand(call[c])
    BY DEF HistoryInv, CallsStand
  <1>3. /\ call[c].due = NoEntries /\ value \in ValuesOf(field) /\ row[t].state # "absent"
        /\ call[c].before[field] \in Kept(t, field)
    BY <1>1, <1>2 DEF DuesStand, EditsStand, Editing
  <1>4. /\ to \in TransactionRows /\ to.state = row[t].state /\ to[field] = value
        /\ \A other \in Fields \ {field} : to[other] = row[t][other]
    <2>1. CASE field = "date"
      BY <1>1, <1>3, <2>1 DEF TransactionRows, Fields, ValuesOf
    <2>2. CASE field = "amount"
      BY <1>1, <1>3, <2>2 DEF TransactionRows, Fields, ValuesOf
    <2> QED
      BY <1>1, <2>1, <2>2 DEF Fields
  <1>5. event \in DomainEvents /\ <<event>> \in Seq(DomainEvents)
    <2>1. to.date \in Dates
      BY <1>4 DEF TransactionRows
    <2> HIDE DEF to
    <2> QED
      BY <1>1, <2>1 DEF DomainEvents, EventTypes
  <1>6. /\ Write(t, to, <<event>>)
        /\ call' = [call EXCEPT ![c] = new]
        /\ UNCHANGED <<audit, unlogged, original>>
    BY DEF EditWrites, UpdateRow, Begin
  <1>7. /\ Diff(c) \in Seq(Entries) /\ Len(Diff(c)) <= 1
        /\ \A i \in DOMAIN Diff(c) : Diff(c)[i].field # "deleted_at"
        /\ value = call[c].before[field] \/ Says(Diff(c), field, value)
    <2> DEFINE old == call[c].before[field]
               entry == [field |-> field, old |-> old, new |-> value]
    <2>1. CASE old = value
      <3>1. Diff(c) = <<>>
        BY <2>1 DEF Diff
      <3> QED
        BY <2>1, <3>1
    <2>2. CASE old # value
      <3>1. Diff(c) = <<entry>>
        BY <2>2 DEF Diff
      <3>2. old \in Dates \cup Amounts
        BY <1>1 DEF TransactionRows, Fields
      <3>3. entry \in Entries /\ entry.field = field /\ entry.new = value /\ field # "deleted_at"
        BY <1>1, <3>2 DEF Entries, Fields
      <3> HIDE DEF entry
      <3>4. /\ <<entry>> \in Seq(Entries) /\ Len(<<entry>>) = 1 /\ DOMAIN <<entry>> = {1}
            /\ <<entry>>[1] = entry
        BY <3>3
      <3> QED
        BY <3>1, <3>3, <3>4 DEF Says
    <2> QED
      BY <2>1, <2>2
  <1>8. /\ new \in CallStates /\ new.op = "edit" /\ new.step = "written" /\ new.todo = {}
        /\ new.due = [NoEntries EXCEPT ![t] = Diff(c)]
    <2>1. [NoEntries EXCEPT ![t] = Diff(c)] \in [Txns -> Seq(Entries)]
      BY <1>1, <1>7, IdleIsACall
    <2>2. new = [IdleCall EXCEPT !.op = "edit", !.step = "written",
                   !.due = [NoEntries EXCEPT ![t] = Diff(c)]]
      BY IdleIsACall DEF CallStates
    <2> HIDE DEF new
    <2> QED
      BY <2>1, <2>2, IdleIsACall DEF CallStates, Ops
  <1>9. new.due[t] = Diff(c) /\ \A u \in Txns \ {t} : new.due[u] = <<>>
    BY <1>1, <1>8 DEF NoEntries
  <1>10. call[c].due[t] = <<>> /\ \A u \in Txns \ {t} : new.due[u] = call[c].due[u]
    BY <1>1, <1>3, <1>9 DEF NoEntries
  <1> HIDE DEF new
  <1>11. DuesStand(new) /\ ~Editing(new)
    BY <1>7, <1>8, <1>9 DEF DuesStand, Editing
  <1>12. \A other \in Fields : \/ to[other] = row[t][other]
                               \/ to[other] \in Kept(t, other)
                               \/ Says(new.due[t], other, to[other])
    BY <1>3, <1>4, <1>7, <1>9
  <1>13. /\ ~ \E i \in DOMAIN new.due[t] : new.due[t][i] = DeletedEntry
         /\ ~ \E i \in DOMAIN new.due[t] : new.due[t][i] = RestoredEntry
    BY <1>7, <1>9 DEF DeletedEntry, RestoredEntry
  <1>14. ASSUME NEW u
         PROVE  Announced(u) \in Nat /\ Announced(u)' = Announced(u)
    <2>1. ~Announces(event, u)
      BY DEF Announces
    <2>2. emitted' = emitted \o <<event>> /\ StoreTypeOK
      BY <1>6 DEF Write, HistoryInv, TypeOK
    <2> HIDE DEF event
    <2> QED
      BY <1>5, <2>1, <2>2, EventsCount
  <1> HIDE DEF to, event
  <1>15. ~(row[t].state # "deleted" /\ to.state = "deleted")
         /\ ~(row[t].state = "deleted" /\ to.state # "deleted")
    BY <1>4
  <1>16. \A u \in Txns :
           /\ Announced(u) \in Nat
           /\ Announced(u)' = Announced(u) + IF u = t /\ row[t].state # "deleted"
                                                      /\ to.state = "deleted" THEN 1 ELSE 0
    BY <1>14, <1>15
  <1>17. OwesWhatItWrites(call[c], new, t, to)
    BY <1>3, <1>4, <1>10, <1>12, <1>13, <1>15, <1>16 DEF OwesWhatItWrites
  <1>18. t \in Txns /\ to \in TransactionRows /\ new \in CallStates
    BY <1>1, <1>4, <1>8
  <1> HIDE DEF t
  <1> QED
    BY <1>5, <1>6, <1>11, <1>17, <1>18, WritesStand

LEMMA StateEntries ==
  /\ DeletedEntry \in Entries /\ RestoredEntry \in Entries /\ DeletedEntry # RestoredEntry
  /\ <<DeletedEntry>> \in Seq(Entries) /\ <<RestoredEntry>> \in Seq(Entries)
  <1>1. DeletedEntry \in Entries /\ RestoredEntry \in Entries
    BY DEF Entries, DeletedEntry, RestoredEntry
  <1>2. DeletedEntry.new # RestoredEntry.new
    BY DEF DeletedEntry, RestoredEntry
  <1> QED
    BY <1>1, <1>2

LEMMA OneEntryDue ==
  ASSUME NEW entry
  PROVE  /\ Len(<<entry>>) = 1
         /\ \A other : (\E i \in DOMAIN <<entry>> : <<entry>>[i] = other) <=> other = entry
  <1>1. DOMAIN <<entry>> = {1} /\ <<entry>>[1] = entry /\ Len(<<entry>>) = 1
    OBVIOUS
  <1> QED
    BY <1>1

\* The deletion of a row, by delete, undo or reset, owes its entry and announces itself.
LEMMA SoftDeleteStands ==
  ASSUME HistoryInv, NEW c \in Calls, NEW new \in CallStates,
         call' = [call EXCEPT ![c] = new], NEW t \in Txns, SoftDeleteRow(t),
         UNCHANGED <<audit, unlogged, original>>,
         call[c].due[t] = <<>>, new.due[t] = <<DeletedEntry>>,
         \A u \in Txns \ {t} : new.due[u] = call[c].due[u],
         DuesStand(new), ~Editing(new)
  PROVE  HistoryInv'
  <1> DEFINE to == [row[t] EXCEPT !.state = "deleted", !.untouched = FALSE]
             event == [type |-> "TransactionDeleted", txn |-> t, from |-> row[t].date,
                       to |-> row[t].date]
  <1>1. row[t].state = "live" /\ Write(t, to, <<event>>)
    BY DEF SoftDeleteRow, MayDelete, Live
  <1>2. /\ to \in TransactionRows /\ to.state = "deleted"
        /\ \A field \in Fields : to[field] = row[t][field]
    <2>1. row[t] \in TransactionRows
      BY DEF HistoryInv, TypeOK, StoreTypeOK
    <2> QED
      BY <2>1 DEF TransactionRows, Fields
  <1>3. event \in DomainEvents /\ <<event>> \in Seq(DomainEvents)
    BY DEF HistoryInv, TypeOK, StoreTypeOK, TransactionRows, DomainEvents, EventTypes
  <1>4. ASSUME NEW u
        PROVE  /\ Announced(u) \in Nat
               /\ Announced(u)' = Announced(u) + IF u = t THEN 1 ELSE 0
    <2>1. Announces(event, u) <=> u = t
      BY DEF Announces
    <2>2. emitted' = emitted \o <<event>> /\ StoreTypeOK
      BY <1>1 DEF Write, HistoryInv, TypeOK
    <2> HIDE DEF event
    <2>3. /\ Announced(u) \in Nat
          /\ Announced(u)' = Announced(u) + IF Announces(event, u) THEN 1 ELSE 0
      BY <1>3, <2>2, EventsCount
    <2> QED
      BY <2>1, <2>3
  <1> HIDE DEF to, event
  <1>5. (\E i \in DOMAIN new.due[t] : new.due[t][i] = DeletedEntry)
           <=> row[t].state # "deleted" /\ to.state = "deleted"
    BY <1>1, <1>2, OneEntryDue
  <1>6. (\E i \in DOMAIN new.due[t] : new.due[t][i] = RestoredEntry)
           <=> row[t].state = "deleted" /\ to.state # "deleted"
    BY <1>1, <1>2, OneEntryDue, StateEntries
  <1>7. OwesWhatItWrites(call[c], new, t, to)
    BY <1>1, <1>2, <1>4, <1>5, <1>6 DEF OwesWhatItWrites
  <1> QED
    BY <1>1, <1>2, <1>3, <1>7, WritesStand

LEMMA RestoreRowStands ==
  ASSUME HistoryInv, NEW c \in Calls, NEW new \in CallStates,
         call' = [call EXCEPT ![c] = new], NEW t \in Txns, RestoreRow(t),
         UNCHANGED <<audit, unlogged, original>>,
         call[c].due[t] = <<>>, new.due[t] = <<RestoredEntry>>,
         \A u \in Txns \ {t} : new.due[u] = call[c].due[u],
         DuesStand(new), ~Editing(new)
  PROVE  HistoryInv'
  <1> DEFINE to == [row[t] EXCEPT !.state = "live", !.untouched = FALSE]
  <1>1. row[t].state = "deleted" /\ Write(t, to, <<>>)
    BY DEF RestoreRow, MayRestore, Deleted
  <1>2. /\ to \in TransactionRows /\ to.state = "live"
        /\ \A field \in Fields : to[field] = row[t][field]
    <2>1. row[t] \in TransactionRows
      BY DEF HistoryInv, TypeOK, StoreTypeOK
    <2> QED
      BY <2>1 DEF TransactionRows, Fields
  <1>3. ASSUME NEW u
        PROVE  Announced(u) \in Nat /\ Announced(u)' = Announced(u)
    <2>1. emitted' = emitted \o <<>> /\ StoreTypeOK
      BY <1>1 DEF Write, HistoryInv, TypeOK
    <2> QED
      BY <2>1, NothingCounts
  <1> HIDE DEF to
  <1>4. (\E i \in DOMAIN new.due[t] : new.due[t][i] = DeletedEntry)
           <=> row[t].state # "deleted" /\ to.state = "deleted"
    BY <1>1, <1>2, OneEntryDue, StateEntries
  <1>5. (\E i \in DOMAIN new.due[t] : new.due[t][i] = RestoredEntry)
           <=> row[t].state = "deleted" /\ to.state # "deleted"
    BY <1>1, <1>2, OneEntryDue
  <1>6. \A u \in Txns :
          /\ Announced(u) \in Nat
          /\ Announced(u)' = Announced(u) + IF u = t /\ row[t].state # "deleted"
                                                     /\ to.state = "deleted" THEN 1 ELSE 0
    BY <1>1, <1>3
  <1>7. OwesWhatItWrites(call[c], new, t, to)
    BY <1>1, <1>2, <1>4, <1>5, <1>6 DEF OwesWhatItWrites
  <1>8. <<>> \in Seq(DomainEvents)
    OBVIOUS
  <1> QED
    BY <1>1, <1>2, <1>7, <1>8, WritesStand

\* What delete and restore owe.
LEMMA CheckedWritesStand ==
  ASSUME HistoryInv, NEW c \in Calls, DeleteWrites(c) \/ RestoreWrites(c)
  PROVE  HistoryInv'
  <1> DEFINE t == call[c].txn
  <1>1. /\ call[c].op \in {"delete", "restore"} /\ call[c].step = "checked"
        /\ call[c] \in CallStates /\ t \in Txns
    BY DEF HistoryInv, TypeOK, CallStates, DeleteWrites, RestoreWrites, At
  <1>2. DuesStand(call[c]) /\ call[c].due = NoEntries
    BY <1>1 DEF HistoryInv, CallsStand, DuesStand
  <1>3. ASSUME NEW entry \in Entries, <<entry>> \in Seq(Entries), NEW new,
               new = [call[c] EXCEPT !.step = "written", !.due = OwedBy(c, entry)]
        PROVE  /\ new \in CallStates /\ DuesStand(new) /\ ~Editing(new)
               /\ call[c].due[t] = <<>> /\ new.due[t] = <<entry>>
               /\ \A u \in Txns \ {t} : new.due[u] = call[c].due[u]
    <2>1. /\ OwedBy(c, entry) \in [Txns -> Seq(Entries)]
          /\ OwedBy(c, entry)[t] = <<entry>>
          /\ \A u \in Txns \ {t} : OwedBy(c, entry)[u] = <<>>
      BY <1>1, <1>3, IdleIsACall DEF OwedBy, NoEntries
    <2>2. /\ new \in CallStates /\ new.due = OwedBy(c, entry) /\ new.step = "written"
          /\ new.op = call[c].op /\ new.todo = call[c].todo
      BY <1>1, <1>3, <2>1 DEF CallStates
    <2> HIDE DEF t
    <2>3. \A u \in Txns : Len(new.due[u]) <= 1
      <3>1. Len(<<entry>>) <= 1
        BY OneEntryDue
      <3>2. Len(<<>>) <= 1
        OBVIOUS
      <3> QED
        BY <2>1, <2>2, <3>1, <3>2
    <2> QED
      BY <1>1, <1>2, <2>1, <2>2, <2>3 DEF DuesStand, Editing, NoEntries
  <1>4. CASE DeleteWrites(c)
    <2> DEFINE new == [call[c] EXCEPT !.step = "written", !.due = OwedBy(c, DeletedEntry)]
    <2>1. /\ SoftDeleteRow(t) /\ call' = [call EXCEPT ![c] = new]
          /\ UNCHANGED <<audit, unlogged, original>>
      BY <1>4 DEF DeleteWrites, Begin
    <2>2. /\ new \in CallStates /\ DuesStand(new) /\ ~Editing(new)
          /\ call[c].due[t] = <<>> /\ new.due[t] = <<DeletedEntry>>
          /\ \A u \in Txns \ {t} : new.due[u] = call[c].due[u]
      <3>1. DeletedEntry \in Entries /\ <<DeletedEntry>> \in Seq(Entries)
        BY StateEntries
      <3> HIDE DEF t
      <3> QED
        BY <1>3, <3>1
    <2> HIDE DEF new, t
    <2> QED
      BY <1>1, <2>1, <2>2, SoftDeleteStands
  <1>5. CASE RestoreWrites(c)
    <2> DEFINE new == [call[c] EXCEPT !.step = "written", !.due = OwedBy(c, RestoredEntry)]
    <2>1. /\ RestoreRow(t) /\ call' = [call EXCEPT ![c] = new]
          /\ UNCHANGED <<audit, unlogged, original>>
      BY <1>5 DEF RestoreWrites, Begin
    <2>2. /\ new \in CallStates /\ DuesStand(new) /\ ~Editing(new)
          /\ call[c].due[t] = <<>> /\ new.due[t] = <<RestoredEntry>>
          /\ \A u \in Txns \ {t} : new.due[u] = call[c].due[u]
      <3>1. RestoredEntry \in Entries /\ <<RestoredEntry>> \in Seq(Entries)
        BY StateEntries
      <3> HIDE DEF t
      <3> QED
        BY <1>3, <3>1
    <2> HIDE DEF new, t
    <2> QED
      BY <1>1, <2>1, <2>2, RestoreRowStands
  <1> QED
    BY <1>4, <1>5

LEMMA ResetDeletesStand ==
  ASSUME HistoryInv, NEW c \in Calls, NEW t \in Txns, ResetDeletes(c, t)
  PROVE  HistoryInv'
  <1> DEFINE new == [call[c] EXCEPT !.todo = call[c].todo \ {t}, !.due[t] = <<DeletedEntry>>]
  <1>1. /\ call[c].op = "reset" /\ call[c].step = "checked" /\ t \in call[c].todo
        /\ call[c] \in CallStates
    BY DEF HistoryInv, TypeOK, ResetDeletes, At
  <1>2. DuesStand(call[c]) /\ call[c].due[t] = <<>>
    BY <1>1 DEF HistoryInv, CallsStand, DuesStand
  <1>3. /\ SoftDeleteRow(t) /\ call' = [call EXCEPT ![c] = new]
        /\ UNCHANGED <<audit, unlogged, original>>
    BY DEF ResetDeletes, Begin
  <1>4. /\ call[c].due \in [Txns -> Seq(Entries)]
        /\ [call[c].due EXCEPT ![t] = <<DeletedEntry>>] \in [Txns -> Seq(Entries)]
    BY <1>1, StateEntries DEF CallStates
  <1>5. new = [call[c] EXCEPT !.todo = call[c].todo \ {t},
                              !.due = [call[c].due EXCEPT ![t] = <<DeletedEntry>>]]
    BY <1>1 DEF CallStates
  <1> HIDE DEF new
  <1>6. /\ new \in CallStates /\ new.op = call[c].op /\ new.step = call[c].step
        /\ new.todo = call[c].todo \ {t}
        /\ new.due = [call[c].due EXCEPT ![t] = <<DeletedEntry>>]
    BY <1>1, <1>4, <1>5 DEF CallStates
  <1>7. /\ new.due[t] = <<DeletedEntry>>
        /\ \A u \in Txns \ {t} : new.due[u] = call[c].due[u]
    BY <1>4, <1>6
  <1>8. DuesStand(new) /\ ~Editing(new)
    <2>1. \A u \in Txns : Len(new.due[u]) <= 1
      <3>1. Len(<<DeletedEntry>>) <= 1
        BY OneEntryDue
      <3>2. \A u \in Txns : Len(call[c].due[u]) <= 1
        BY <1>2 DEF DuesStand
      <3> QED
        BY <1>7, <3>1, <3>2
    <2>2. \A u \in new.todo : new.due[u] = <<>>
      <3>1. \A u \in call[c].todo : call[c].due[u] = <<>> /\ u \in Txns
        BY <1>1, <1>2 DEF DuesStand, CallStates
      <3> QED
        BY <1>6, <1>7, <3>1
    <2> QED
      BY <1>1, <1>6, <2>1, <2>2 DEF DuesStand, Editing
  <1> QED
    BY <1>2, <1>3, <1>6, <1>7, <1>8, SoftDeleteStands

\* A call that owes nothing ends, or goes on to another step of another use case.
LEMMA TurnsStand ==
  ASSUME HistoryInv, NEW c \in Calls, NEW new \in CallStates,
         call[c].due = NoEntries, new.due = NoEntries,
         UNCHANGED <<storeVars, audit, unlogged, original>>,
         call' = [call EXCEPT ![c] = new],
         ~Editing(new), new.op = "idle" => new.step = "start"
  PROVE  HistoryInv'
  <1>1. \A t \in new.todo : new.due[t] = <<>>
    BY DEF CallStates, NoEntries
  <1>2. \A t \in Txns : Len(new.due[t]) <= 1
    BY DEF NoEntries
  <1>3. DuesStand(new) /\ EditsStand(new)
    BY <1>1, <1>2 DEF DuesStand, EditsStand
  <1> QED
    BY <1>3, QuietStands

LEMMA ChecksStand ==
  ASSUME HistoryInv, NEW c \in Calls, NEW t \in Txns, call[c].due = NoEntries,
         RestoreChecks(c, t) \/ \E undoing \in BOOLEAN : DeleteChecks(c, t, undoing)
  PROVE  HistoryInv'
  <1>1. row[t] \in TransactionRows
    BY DEF HistoryInv, TypeOK, StoreTypeOK
  <1>2. CASE RestoreChecks(c, t)
    <2> DEFINE new == [IdleCall EXCEPT !.op = "restore", !.step = "checked", !.txn = t,
                         !.before = row[t]]
    <2>1. /\ call' = [call EXCEPT ![c] = new]
          /\ UNCHANGED <<storeVars, audit, unlogged, original>>
      BY <1>2 DEF RestoreChecks, Begin
    <2>2. new \in CallStates /\ new.op = "restore" /\ new.due = NoEntries
      BY <1>1, IdleIsACall DEF CallStates, Ops
    <2> HIDE DEF new
    <2> QED
      BY <2>1, <2>2, TurnsStand DEF Editing
  <1>3. ASSUME NEW undoing \in BOOLEAN, DeleteChecks(c, t, undoing) PROVE HistoryInv'
    <2> DEFINE new == [IdleCall EXCEPT !.op = "delete", !.step = "checked", !.txn = t,
                         !.before = row[t], !.undoing = undoing]
    <2>1. /\ call' = [call EXCEPT ![c] = new]
          /\ UNCHANGED <<storeVars, audit, unlogged, original>>
      BY <1>3 DEF DeleteChecks, Begin
    <2>2. new \in CallStates /\ new.op = "delete" /\ new.due = NoEntries
      BY <1>1, IdleIsACall DEF CallStates, Ops
    <2> HIDE DEF new
    <2> QED
      BY <2>1, <2>2, TurnsStand DEF Editing
  <1> QED
    BY <1>2, <1>3

LEMMA EndsStand ==
  ASSUME HistoryInv, NEW c \in Calls, LosesRace(c) \/ UndoRefused(c)
  PROVE  HistoryInv'
  <1>1. /\ call' = [call EXCEPT ![c] = IdleCall]
        /\ UNCHANGED <<storeVars, audit, unlogged, original>>
    BY DEF LosesRace, AfterLostRace, UndoRefused, End, Begin
  <1>2. call[c].due = NoEntries
    BY DEF LosesRace, UndoRefused, At, HistoryInv, CallsStand, DuesStand
  <1> QED
    BY <1>1, <1>2, IdleIsACall, TurnsStand DEF Editing

LEMMA UndoStands ==
  ASSUME HistoryInv, NEW c \in Calls,
         UndoDelegates(c) \/ \E t \in Txns : UndoChooses(c, t)
  PROVE  HistoryInv'
  <1>1. CASE UndoDelegates(c)
    <2>1. call[c].due = NoEntries /\ call[c].txn \in Txns
      BY <1>1 DEF UndoDelegates, At, HistoryInv, CallsStand, DuesStand, TypeOK, CallStates
    <2>2. RestoreChecks(c, call[c].txn) \/ DeleteChecks(c, call[c].txn, TRUE)
      BY <1>1 DEF UndoDelegates
    <2> QED
      BY <2>1, <2>2, ChecksStand
  <1>2. ASSUME NEW t \in Txns, UndoChooses(c, t) PROVE HistoryInv'
    <2> DEFINE new == [IdleCall EXCEPT !.op = "undo", !.step = "chosen", !.txn = t,
                         !.before = row[t]]
    <2>1. /\ call[c].op = "idle" /\ call' = [call EXCEPT ![c] = new]
          /\ UNCHANGED <<storeVars, audit, unlogged, original>>
      BY <1>2 DEF UndoChooses, Idle, Begin
    <2>2. row[t] \in TransactionRows
      BY DEF HistoryInv, TypeOK, StoreTypeOK
    <2>3. new \in CallStates /\ new.op = "undo" /\ new.due = NoEntries
      BY <2>2, IdleIsACall DEF CallStates, Ops
    <2> HIDE DEF new
    <2>4. call[c].due = NoEntries
      BY <2>1 DEF HistoryInv, CallsStand, DuesStand
    <2> QED
      BY <2>1, <2>3, <2>4, TurnsStand DEF Editing
  <1> QED
    BY <1>1, <1>2

LEMMA ResetStands ==
  ASSUME HistoryInv, NEW c \in Calls,
         ResetReads(c) \/ ResetEnds(c) \/ \E t \in Txns : ResetSkips(c, t)
  PROVE  HistoryInv'
  <1>1. call[c] \in CallStates /\ DuesStand(call[c])
    BY DEF HistoryInv, TypeOK, CallsStand
  <1>2. CASE ResetReads(c)
    <2> DEFINE live == {t \in Txns : Live(t)}
               new == [IdleCall EXCEPT !.op = "reset", !.step = "checked", !.todo = live]
    <2>1. /\ call[c].op = "idle" /\ call' = [call EXCEPT ![c] = new]
          /\ UNCHANGED <<storeVars, audit, unlogged, original>>
      BY <1>2 DEF ResetReads, Idle, Begin
    <2>2. live \in SUBSET Txns
      OBVIOUS
    <2> HIDE DEF live
    <2>3. new \in CallStates /\ new.op = "reset" /\ new.due = NoEntries
      BY <2>2, IdleIsACall DEF CallStates, Ops
    <2> HIDE DEF new
    <2>4. call[c].due = NoEntries
      BY <1>1, <2>1 DEF DuesStand
    <2> QED
      BY <2>1, <2>3, <2>4, TurnsStand DEF Editing
  <1>3. CASE ResetEnds(c)
    <2> DEFINE new == [call[c] EXCEPT !.step = "written"]
    <2>1. /\ call[c].op = "reset"
          /\ UNCHANGED <<storeVars, audit, unlogged, original>>
      BY <1>3 DEF ResetEnds, At
    <2>2. call' = [call EXCEPT ![c] = new]
      <3>1. call' = [call EXCEPT ![c].step = "written"]
        BY <1>3 DEF ResetEnds, Advance
      <3> QED
        BY <3>1 DEF HistoryInv, TypeOK
    <2>3. /\ new \in CallStates /\ new.op = "reset" /\ new.step = "written"
          /\ new.due = call[c].due
      BY <1>1, <2>1 DEF CallStates
    <2> HIDE DEF new
    <2>4. DuesStand(new) /\ EditsStand(new)
      BY <1>1, <2>3 DEF DuesStand, EditsStand, Editing
    <2> QED
      BY <2>1, <2>2, <2>3, <2>4, QuietStands
  <1>4. ASSUME NEW t \in Txns, ResetSkips(c, t) PROVE HistoryInv'
    <2> DEFINE new == [call[c] EXCEPT !.todo = call[c].todo \ {t}]
    <2>1. /\ call[c].op = "reset" /\ call[c].step = "checked"
          /\ call' = [call EXCEPT ![c] = new]
          /\ UNCHANGED <<storeVars, audit, unlogged, original>>
      BY <1>4 DEF ResetSkips, At, Begin
    <2>2. /\ new \in CallStates /\ new.op = "reset" /\ new.step = "checked"
          /\ new.due = call[c].due /\ new.todo = call[c].todo \ {t}
      BY <1>1, <2>1 DEF CallStates
    <2> HIDE DEF new
    <2>3. DuesStand(new) /\ EditsStand(new)
      BY <1>1, <2>1, <2>2 DEF DuesStand, EditsStand, Editing
    <2> QED
      BY <2>1, <2>2, <2>3, QuietStands
  <1> QED
    BY <1>2, <1>3, <1>4

\* At first there is nothing: no rows, no calls, no entries and no events.
LEMMA HistoryBegins == Init => HistoryInv
  <1> SUFFICES ASSUME Init PROVE HistoryInv
    OBVIOUS
  <1>1. /\ (CHOOSE d \in Dates : TRUE) \in Dates
        /\ (CHOOSE a \in Amounts : TRUE) \in Amounts
    BY StoreAssumption
  <1>2. StoreTypeOK
    <2>1. Cardinality({}) = 0
      BY FS_EmptySet
    <2>2. row \in [Txns -> TransactionRows]
      BY <1>1 DEF Init, StoreInit, TransactionRows
    <2>3. latest \in SUBSET Txns /\ Cardinality(latest) <= 1
      BY <2>1 DEF Init, StoreInit
    <2>4. emitted \in Seq(DomainEvents) /\ writes \in 0..MaxWrites
      BY StoreAssumption DEF Init, StoreInit
    <2> QED
      BY <2>2, <2>3, <2>4 DEF StoreTypeOK
  <1>3. TypeOK
    BY <1>2, IdleIsACall DEF Init, TypeOK, StoreTypeOK
  <1>4. \A c \in Calls : call[c] = IdleCall
    BY DEF Init
  <1>5. CallsStand
    <2>1. DuesStand(IdleCall)
      BY IdleIsACall DEF DuesStand, NoEntries
    <2>2. ~Editing(IdleCall)
      BY IdleIsACall DEF Editing
    <2> QED
      BY <1>4, <2>1, <2>2 DEF CallsStand, EditsStand
  <1>6. EveryValueIsRecorded
    BY DEF EveryValueIsRecorded, Recorded, Init
  <1>7. DeletionsBalance
    <2> SUFFICES ASSUME NEW t \in Txns
                 PROVE  /\ Count(t, DeletedEntry)
                             = Count(t, RestoredEntry) + IF Deleted(t) THEN 1 ELSE 0
                        /\ Announced(t) = Count(t, DeletedEntry)
      BY DEF DeletionsBalance
    <2>1. Cardinality({}) = 0
      BY FS_EmptySet
    <2>2. ~Deleted(t)
      BY DEF Deleted, Init, StoreInit
    <2>3. ASSUME NEW entry PROVE Count(t, entry) = 0
      <3>1. audit[t] = <<>> /\ unlogged[t] = <<>>
        BY DEF Init, NoEntries
      <3>2. Times(entry, <<>>) = 0
        <4>1. {i \in DOMAIN <<>> : <<>>[i] = entry} = {}
          OBVIOUS
        <4> QED
          BY <2>1, <4>1 DEF Times
      <3>3. {c \in Calls : Owes(c, t, entry)} = {}
        BY <1>4, IdleIsACall DEF Owes, NoEntries
      <3>4. Times(entry, audit[t]) = 0 /\ Times(entry, unlogged[t]) = 0
        BY <3>1, <3>2
      <3>5. Cardinality({c \in Calls : Owes(c, t, entry)}) = 0
        BY <2>1, <3>3
      <3>6. Count(t, entry) = 0 + 0 + 0
        BY <3>4, <3>5 DEF Count
      <3> QED
        BY <3>6
    <2>4. Announced(t) = 0
      <3>1. {i \in DOMAIN emitted : Announces(emitted[i], t)} = {}
        BY DEF Init, StoreInit
      <3> QED
        BY <2>1, <3>1 DEF Announced
    <2> QED
      BY <2>2, <2>3, <2>4
  <1> QED
    BY <1>3, <1>5, <1>6, <1>7 DEF HistoryInv

LEMMA HistoryStands == HistoryInv /\ [Next]_vars => HistoryInv'
  <1> SUFFICES ASSUME HistoryInv, [Next]_vars PROVE HistoryInv'
    OBVIOUS
  <1>1. ASSUME NEW t \in Txns, NEW d \in Dates, NEW a \in Amounts, Create(t, d, a)
        PROVE  HistoryInv'
    BY <1>1, CreateStands
  <1>2. ASSUME NEW c \in Calls, CallNext(c) PROVE HistoryInv'
    <2>1. ASSUME NEW t \in Txns, NEW field \in Fields, NEW value \in Dates \cup Amounts,
                 EditChecks(c, t, field, value)
          PROVE  HistoryInv'
      BY <2>1, EditChecksStand
    <2>2. CASE EditReadsDate(c)
      BY <2>2, EditReadsDateStands
    <2>3. CASE EditWrites(c)
      BY <2>3, EditWritesStand
    <2>4. ASSUME NEW t \in Txns, Delete(c, t) PROVE HistoryInv'
      <3>1. call[c].due = NoEntries
        BY <2>4 DEF Delete, Idle, HistoryInv, CallsStand, DuesStand
      <3> QED
        BY <2>4, <3>1, ChecksStand DEF Delete
    <2>5. CASE DeleteWrites(c) \/ RestoreWrites(c)
      BY <2>5, CheckedWritesStand
    <2>6. CASE LosesRace(c) \/ UndoRefused(c)
      BY <2>6, EndsStand
    <2>7. CASE UndoDelegates(c) \/ \E t \in Txns : UndoChooses(c, t)
      BY <2>7, UndoStands
    <2>8. CASE ResetReads(c) \/ ResetEnds(c) \/ \E t \in Txns : ResetSkips(c, t)
      BY <2>8, ResetStands
    <2>9. ASSUME NEW t \in Txns, ResetDeletes(c, t) PROVE HistoryInv'
      BY <2>9, ResetDeletesStand
    <2>10. CASE RecordsAudit(c)
      BY <2>10, MovesStand DEF RecordsAudit, End
    <2>11. CASE Fails(c)
      BY <2>11, MovesStand DEF Fails, End
    <2> QED
      BY <1>2, <2>1, <2>2, <2>3, <2>4, <2>5, <2>6, <2>7, <2>8, <2>9, <2>10, <2>11 DEF CallNext
  <1>3. CASE UNCHANGED vars
    <2>1. /\ UNCHANGED storeVars /\ call' = call /\ audit' = audit /\ unlogged' = unlogged
          /\ original' = original
      BY <1>3 DEF vars
    <2>2. row' = row /\ latest' = latest /\ emitted' = emitted /\ writes' = writes
      BY <2>1 DEF storeVars
    <2>3. TypeOK'
      BY <2>1, <2>2 DEF HistoryInv, TypeOK, StoreTypeOK
    <2>4. CallsStand'
      <3> SUFFICES ASSUME NEW c \in Calls PROVE DuesStand(call'[c]) /\ EditsStand(call[c])'
        BY DEF CallsStand, DuesStand, NoEntries
      <3>1. DuesStand(call'[c])
        BY <2>1 DEF HistoryInv, CallsStand
      <3>2. EditsStand(call[c])
        BY DEF HistoryInv, CallsStand
      <3>3. EditsStand(call[c])'
        BY <2>1, <2>2, <3>2 DEF EditsStand, Editing, Kept, Recorded
      <3> QED
        BY <3>1, <3>3
    <2>5. DeletionsBalance'
      BY <2>1, <2>2 DEF HistoryInv, DeletionsBalance, Count, Owes, Announced, Deleted
    <2>6. EveryValueIsRecorded'
      BY <2>1, <2>2 DEF HistoryInv, EveryValueIsRecorded, Recorded
    <2> QED
      BY <2>3, <2>4, <2>5, <2>6 DEF HistoryInv
  <1> QED
    BY <1>1, <1>2, <1>3 DEF Next

-----------------------------------------------------------------------------
\* TransactionRows, calls, log and events keep their types, for any rows and calls: an
\* edit under way has a value of its field, whichever call writes the row in
\* between.
THEOREM HistoryInvariant == Spec => []HistoryInv
  <1> QED
    BY HistoryBegins, HistoryStands, PTL DEF Spec

THEOREM CallsTypeCorrect == Spec => []TypeOK
  <1>1. HistoryInv => TypeOK
    BY DEF HistoryInv
  <1> QED
    BY <1>1, HistoryInvariant, PTL

\* However the deletions, restorations, undos, resets and edits of one user
\* interleave, and whichever of them fail between their write and their audit:
\* a row is deleted exactly when its deletions lead its restorations by one,
\* each deletion is announced by one event, and each value a field holds is the
\* first one or in an entry.
THEOREM HistoryStaysComplete == Spec => []HistoryIsComplete
  <1>1. HistoryInv => HistoryIsComplete
    BY DEF HistoryInv, HistoryIsComplete
  <1> QED
    BY <1>1, HistoryInvariant, PTL

=============================================================================
