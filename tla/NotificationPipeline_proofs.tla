---------------------- MODULE NotificationPipeline_proofs ----------------------
(****************************************************************************)
(* For any events, workers, senders and limits: the delivery keeps the      *)
(* promises of the outbox it runs in; suppressed notifications have no job  *)
(* and no message; what is marked sent was delivered; a notification is     *)
(* sent again only after a stall; an event gets a second notification only  *)
(* after a lost claim; and a dispatched one is accounted for.  For any      *)
(* debts, scans and gates: reminders of a debt keep their distance.         *)
(****************************************************************************)
EXTENDS NotificationPipeline, DebtReminders, DomainEventOutbox_proofs

-----------------------------------------------------------------------------
(* The consumer runs inside the dispatcher and adds nothing to it.         *)

\* At first the outbox is as it starts by itself.
LEMMA PipelineStartsTheOutbox == Init => OutboxInit
  BY DEF Init

\* Every step of the pipeline is a step of the outbox, or leaves it alone.
LEMMA PipelineStepsTheOutbox == [Next]_vars => [OutboxNext]_outboxVars
  <1> SUFFICES ASSUME [Next]_vars PROVE [OutboxNext]_outboxVars
    OBVIOUS
  <1>1. CASE UNCHANGED vars
    BY <1>1 DEF vars
  <1>2. ASSUME NEW e \in Events, NEW t \in 1..Cardinality(Events), NEW s \in Subjects,
               RecordAbout(e, t, s)
        PROVE  OutboxNext
    BY <1>2 DEF RecordAbout, OutboxNext
  <1>3. ASSUME NEW w \in Workers, NEW e \in Events, ClaimForDelivery(w, e)
        PROVE  OutboxNext
    BY <1>3 DEF ClaimForDelivery, OutboxNext, WorkerStep
  <1>4. ASSUME NEW w \in Workers, Dispatch(w)
        PROVE  OutboxNext
    BY <1>4 DEF Dispatch, OutboxNext, WorkerStep
  <1>5. ASSUME NEW w \in Workers,
               \/ GateUserGone(w) \/ GateMuted(w) \/ GateDuplicate(w) \/ GateEnqueue(w)
               \/ GateThrows(w) \/ GateEnqueueUnanswered(w)
        PROVE  OutboxNext
    BY <1>5 DEF GateUserGone, GateMuted, GateDuplicate, GateEnqueue, GateThrows,
                GateEnqueueUnanswered, RecordSuppressed, OutboxNext, WorkerStep
  <1>6. ASSUME NEW w \in Workers, GateEnabled(w) \/ GateClear(w) \/ GateCreate(w)
        PROVE  UNCHANGED outboxVars
    BY <1>6 DEF GateEnabled, GateClear, GateCreate
  <1>7. CASE UserNext
    BY <1>7 DEF UserNext, TogglePreference, PurgeNotifications, DeleteUser
  <1>8. CASE SenderNext
    BY <1>8 DEF SenderNext, TakeToSend, TakeSettled, TakeThrows, SendSucceeds, SendBlocked,
                SendThrows, MarkSent, MarkFailed, MarkThrows, Stall
  <1> QED
    BY <1>1, <1>2, <1>3, <1>4, <1>5, <1>6, <1>7, <1>8 DEF Next, DispatcherNext

\* The gate and the queue implement the outbox: what is proved of it holds here.
THEOREM ImplementsOutbox == Spec => OutboxSpec
  BY PipelineStartsTheOutbox, PipelineStepsTheOutbox, PTL DEF Spec, OutboxSpec

-----------------------------------------------------------------------------
(* The rows, the jobs and the senders hold together.                       *)

NoJob == [state |-> "none", tries |-> 0, stalls |-> 0]

\* Ids are given in order, so that the next one is free.
NotesInOrder ==
  \E k \in 0..MaxNotes : \A n \in Notes : note[n].status # "absent" <=> n <= k

\* A notification agrees with its job and its messages, and a job that is
\* still to run has a try and a stall left.
NoteHolds(n) ==
  /\ note[n].status = "absent" \/ note[n].suppressedReason # "none" =>
       job[n] = NoJob /\ messages[n] = 0
  /\ note[n].status = "suppressed" => note[n].suppressedReason # "none"
  /\ job[n].state = "none" => job[n] = NoJob
  /\ job[n].state \in {"waiting", "active"} =>
       job[n].tries < MaxTries /\ job[n].stalls <= MaxStalls
  /\ job[n].state = "done" => note[n].status \in {"sent", "failed", "deleted"}
  /\ note[n].status = "sent" => messages[n] > 0

\* A sender has a job; one that no longer owns it lost it to a stall.
SenderHolds(s) ==
  LET n == sender[s].note IN
  /\ sender[s].pc = "idle" => ~ sender[s].owner
  /\ sender[s].pc # "idle" =>
       /\ n \in Notes
       /\ job[n].state # "none"
       /\ IF sender[s].owner THEN job[n].state = "active" ELSE job[n].stalls > 0
       /\ sender[s].pc = "sent" => messages[n] > 0
       /\ note[n].status \in {"sent", "failed"} => job[n].stalls > 0

\* An active job has one owner.
OneOwner ==
  \A s, t \in Senders :
    sender[s].owner /\ sender[t].owner /\ sender[s].note = sender[t].note => s = t

\* s is yet to send n, or to mark that it could not.
SendingOn(s, n) == sender[s].pc \in {"sending", "blocked"} /\ sender[s].note = n

Sendings(n) == {s \in Senders : SendingOn(s, n)}

\* How often the job of n was handed out, as the queue counts.
HandOuts(n) == job[n].tries + job[n].stalls + OneIf(job[n].state \in {"active", "done"})

\* Each message of n has a hand-out of its own, and so have the senders that
\* may still make one, and the mark of a failure.
SendsCounted(n) ==
  /\ IsFiniteSet(Sendings(n))
  /\ messages[n] + Cardinality(Sendings(n)) + OneIf(note[n].status = "failed") <= HandOuts(n)

\* A gate that is to add a job holds a fresh row of its own event.
GateHolds(w) ==
  LET n == gate[w].note IN
  At(w, "enqueue") =>
    /\ n \in Notes
    /\ note[n].status # "absent" /\ note[n].suppressedReason = "none"
    /\ note[n].event = worker[w].event
    /\ job[n] = NoJob

GatesApart ==
  \A v, w \in Workers :
    At(v, "enqueue") /\ At(w, "enqueue") /\ gate[v].note = gate[w].note => v = w

Linked ==
  /\ NotesInOrder
  /\ \A n \in Notes : NoteHolds(n)
  /\ \A n \in Notes : SendsCounted(n)
  /\ \A s \in Senders : SenderHolds(s)
  /\ OneOwner
  /\ \A w \in Workers : GateHolds(w)
  /\ GatesApart

(* What a dispatched event and a second notification rest on.              *)

\* An event that is worked on, decided or written about has been recorded.
Recorded ==
  /\ \A w \in Workers :
       worker[w].pc \in {"handling", "deciding"} => event[worker[w].event].status # "absent"
  /\ \A n \in Notes : note[n].status # "absent" => event[note[n].event].status # "absent"

\* The user is there, and none of its notifications was muted.
Wanted ==
  /\ user = "present"
  /\ \A n \in Notes : note[n].suppressedReason # "preference_disabled"

\* A row that is to be delivered has its job, or what came between is known.
RowAccounted(n) == HandedOver(n) \/ thrown[note[n].event] + lost > 0

\* There is such a row on the subject of e.
Accounted(e) ==
  \E n \in Rows :
    /\ note[n].suppressedReason = "none"
    /\ about[note[n].event] = about[e]

\* The decision on e, or what is written of it, says dispatched.
SaidDispatched(e) ==
  \/ event[e].status = "dispatched"
  \/ \E w \in Workers :
       worker[w].event = e /\ worker[w].pc = "deciding" /\ worker[w].decision = "dispatched"

Accounts ==
  /\ Recorded
  /\ \A n \in Notes : note[n].status = "absent" => note[n].suppressedReason = "none"
  /\ user = "present" => \A n \in Notes : note[n].status # "deleted"
  /\ \A n \in Notes :
       note[n].status # "absent" /\ note[n].suppressedReason = "none" => RowAccounted(n)
  /\ Wanted => \A n \in Rows : Accounted(note[n].event)
  /\ Wanted => \A e \in Events : SaidDispatched(e) => Accounted(e)

\* The deduplication has seen every row there is.
Undisturbed == user = "present" /\ Cardinality(Rows) <= MaxScanned

\* The workers that go on without their claim.
Strays == {w \in Workers : worker[w].pc \in {"handling", "deciding"} /\ ~ worker[w].open}

\* The gates that found no notification of e and are to create one.
AtCreate(e) == {w \in Workers : At(w, "create") /\ worker[w].event = e}

NoRepeats ==
  /\ IsFiniteSet(Strays) /\ Cardinality(Strays) <= lost
  /\ Undisturbed =>
       \A e \in Events : Cardinality(Deliverable(e)) + Cardinality(AtCreate(e)) <= lost + 1

PInv == TypeOK /\ OInv /\ Linked /\ Accounts /\ NoRepeats

-----------------------------------------------------------------------------
\* The next id is free, and all smaller ones are taken.
LEMMA NextIsFree ==
  ASSUME NotesInOrder
  PROVE  /\ NextNote \in Nat
         /\ \A n \in Notes : note[n].status # "absent" <=> n < NextNote
  <1>1. PICK k \in 0..MaxNotes : \A n \in Notes : note[n].status # "absent" <=> n <= k
    BY DEF NotesInOrder
  <1>2. {n \in Notes : note[n].status # "absent"} = 1..k
    BY <1>1, PipelineAssumption DEF Notes
  <1>3. k \in Nat /\ 1 \in Int /\ k \in Int
    BY PipelineAssumption
  <1>4. Cardinality(1..k) = k
    BY <1>3, FS_Interval
  <1>5. NextNote = k + 1
    BY <1>2, <1>4 DEF NextNote
  <1> QED
    BY <1>1, <1>3, <1>5 DEF Notes

\* What a gate writes.
Reasons == {<<"queued", "none">>, <<"suppressed", "preference_disabled">>,
            <<"suppressed", "dedup">>}

\* Which gate writes it.
GateWrites(w, reason) ==
  /\ worker[w].pc = "handling" /\ user # "gone"
  /\ \/ GateMuted(w) /\ reason = <<"suppressed", "preference_disabled">>
     \/ GateDuplicate(w) /\ reason = <<"suppressed", "dedup">>
     \/ GateCreate(w) /\ reason = <<"queued", "none">>

\* The three ways in which a step touches the notifications table.
NoteStep ==
  \/ note' = note
  \/ \E w \in Workers, reason \in Reasons :
       GateWrites(w, reason) /\ CreateNote(w, reason[1], reason[2])
  \/ \E n \in Notes, status \in {"sent", "failed"} : Mark(n, status)
  \/ PurgeNotifications

LEMMA NotesAreTouchedSo ==
  ASSUME TypeOK, \A s \in Senders : SenderHolds(s), [Next]_vars
  PROVE  NoteStep
  <1>1. CASE UNCHANGED vars
    BY <1>1 DEF vars, pipelineVars, NoteStep
  <1>2. CASE DispatcherNext
    <2>1. ASSUME NEW w \in Workers, GateMuted(w)
          PROVE  NoteStep
      <3>1. worker[w].pc = "handling" /\ CreateNote(w, "suppressed", "preference_disabled")
            /\ user # "gone"
        BY <2>1 DEF GateMuted, RecordSuppressed, At
      <3>2. <<"suppressed", "preference_disabled">> \in Reasons
        BY DEF Reasons
      <3> QED
        BY <2>1, <3>1, <3>2 DEF NoteStep, GateWrites
    <2>2. ASSUME NEW w \in Workers, GateDuplicate(w)
          PROVE  NoteStep
      <3>1. worker[w].pc = "handling" /\ CreateNote(w, "suppressed", "dedup") /\ user # "gone"
        BY <2>2 DEF GateDuplicate, RecordSuppressed, At
      <3>2. <<"suppressed", "dedup">> \in Reasons
        BY DEF Reasons
      <3> QED
        BY <2>2, <3>1, <3>2 DEF NoteStep, GateWrites
    <2>3. ASSUME NEW w \in Workers, GateCreate(w)
          PROVE  NoteStep
      <3>1. worker[w].pc = "handling" /\ CreateNote(w, "queued", "none") /\ user # "gone"
        BY <2>3 DEF GateCreate, At
      <3>2. <<"queued", "none">> \in Reasons
        BY DEF Reasons
      <3> QED
        BY <2>3, <3>1, <3>2 DEF NoteStep, GateWrites
    <2>4. ASSUME NEW w \in Workers,
                 \/ Dispatch(w) \/ GateUserGone(w) \/ GateEnabled(w) \/ GateClear(w)
                 \/ GateEnqueue(w) \/ GateThrows(w) \/ GateEnqueueUnanswered(w)
          PROVE  note' = note
      BY <2>4 DEF Dispatch, GateUserGone, GateEnabled, GateClear, GateEnqueue, GateThrows,
                  GateEnqueueUnanswered, pipelineVars
    <2> QED
      BY <1>2, <2>1, <2>2, <2>3, <2>4
      DEF DispatcherNext, NoteStep, RecordAbout, ClaimForDelivery
  <1>3. CASE UserNext
    BY <1>3 DEF UserNext, TogglePreference, DeleteUser, NoteStep
  <1>4. CASE SenderNext
    <2>1. PICK s \in Senders :
            \/ \E n \in Notes : TakeToSend(s, n) \/ TakeSettled(s, n) \/ TakeThrows(s, n)
            \/ SendSucceeds(s) \/ SendBlocked(s) \/ MarkSent(s) \/ MarkFailed(s)
            \/ \E b \in BOOLEAN : SendThrows(s, b) \/ MarkThrows(s, b) \/ Stall(s, b)
      BY <1>4 DEF SenderNext
    <2>2. CASE MarkSent(s)
      <3>1. sender[s].note \in Notes /\ Mark(sender[s].note, "sent")
        BY <2>2 DEF MarkSent, SenderHolds
      <3> QED
        BY <3>1 DEF NoteStep
    <2>3. CASE MarkFailed(s)
      <3>1. sender[s].note \in Notes /\ Mark(sender[s].note, "failed")
        BY <2>3 DEF MarkFailed, SenderHolds
      <3> QED
        BY <3>1 DEF NoteStep
    <2>4. CASE \E b \in BOOLEAN : MarkThrows(s, b)
      <3>1. sender[s].note \in Notes
        BY <2>4 DEF MarkThrows, SenderHolds
      <3>2. \/ note' = note
            \/ Mark(sender[s].note, IF sender[s].pc = "sent" THEN "sent" ELSE "failed")
        BY <2>4 DEF MarkThrows
      <3> QED
        BY <3>1, <3>2 DEF NoteStep
    <2> QED
      BY <2>1, <2>2, <2>3, <2>4 DEF TakeToSend, TakeSettled, TakeThrows, SendSucceeds, SendBlocked,
         SendThrows, Stall, NoteStep
  <1> QED
    BY <1>1, <1>2, <1>3, <1>4 DEF Next

\* What any step may do to one row.
NoteMoves(n) ==
  \/ note'[n] = note[n]
  \/ /\ note[n].status = "absent"
     /\ n = NextNote
     /\ \E w \in Workers, reason \in Reasons :
          /\ GateWrites(w, reason)
          /\ CreateNote(w, reason[1], reason[2])
          /\ note'[n] = [status |-> reason[1], event |-> worker[w].event,
                         suppressedReason |-> reason[2]]
  \/ /\ n \in Rows
     /\ \E status \in {"sent", "failed", "deleted"} :
          /\ note'[n] = [note[n] EXCEPT !.status = status]
          /\ status = "deleted" => PurgeNotifications

LEMMA RowStep ==
  ASSUME TypeOK, NotesInOrder, NoteStep
  PROVE  /\ note' \in [Notes -> NoteRows]
         /\ \A n \in Notes : NoteMoves(n)
         /\ NotesInOrder'
  <1>1. note \in [Notes -> NoteRows]
    BY DEF TypeOK
  <1>2. ASSUME \A n \in Notes : note'[n].status = "absent" <=> note[n].status = "absent"
        PROVE  NotesInOrder'
    BY <1>2 DEF NotesInOrder, Notes
  <1>3. CASE note' = note
    BY <1>1, <1>2, <1>3 DEF NoteMoves
  <1>4. ASSUME NEW w \in Workers, NEW reason \in Reasons, GateWrites(w, reason),
               CreateNote(w, reason[1], reason[2])
        PROVE  /\ note' \in [Notes -> NoteRows]
               /\ \A n \in Notes : NoteMoves(n)
               /\ NotesInOrder'
    <2> DEFINE row == [status |-> reason[1], event |-> worker[w].event,
                       suppressedReason |-> reason[2]]
    <2>1. row \in NoteRows /\ row.status # "absent"
      BY DEF TypeOK, OutboxTypeOK, WorkerStates, NoteRows, Reasons
    <2>2. NextNote \in Notes /\ note' = [note EXCEPT ![NextNote] = row]
      BY <1>4 DEF CreateNote
    <2>3. /\ note[NextNote].status = "absent" /\ note'[NextNote] = row
          /\ \A n \in Notes \ {NextNote} : note'[n] = note[n]
      BY <1>1, <2>2, NextIsFree
    <2>4. note' \in [Notes -> NoteRows]
      BY <1>1, <2>1, <2>2
    <2>5. \A n \in Notes : NoteMoves(n)
      BY <1>4, <2>2, <2>3 DEF NoteMoves
    <2>6. \A n \in Notes : note'[n].status # "absent" <=> n <= NextNote
      BY <2>1, <2>2, <2>3, NextIsFree DEF Notes
    <2>7. NotesInOrder'
      BY <2>2, <2>6 DEF NotesInOrder, Notes
    <2> QED
      BY <2>4, <2>5, <2>7
  <1>5. ASSUME NEW n \in Notes, NEW status \in {"sent", "failed"}, Mark(n, status)
        PROVE  /\ note' \in [Notes -> NoteRows]
               /\ \A m \in Notes : NoteMoves(m)
               /\ NotesInOrder'
    <2>1. CASE n \notin Rows
      BY <1>3, <1>5, <2>1 DEF Mark
    <2>2. CASE n \in Rows
      <3>1. note' = [note EXCEPT ![n] = [note[n] EXCEPT !.status = status]]
        BY <1>1, <1>5, <2>2 DEF Mark
      <3>2. [note[n] EXCEPT !.status = status] \in NoteRows
        BY <1>1 DEF NoteRows
      <3>3. /\ note'[n] = [note[n] EXCEPT !.status = status]
            /\ \A m \in Notes \ {n} : note'[m] = note[m]
        BY <1>1, <3>1
      <3>4. note'[n].status = status
        BY <1>1, <3>3 DEF NoteRows
      <3>5. NotesInOrder'
        BY <1>2, <2>2, <3>3, <3>4 DEF Rows
      <3> QED
        BY <1>1, <2>2, <3>1, <3>2, <3>3, <3>5 DEF NoteMoves
    <2> QED
      BY <2>1, <2>2
  <1>6. CASE PurgeNotifications
    <2>1. note' = [n \in Notes |-> IF n \in Rows THEN [note[n] EXCEPT !.status = "deleted"]
                                                 ELSE note[n]]
      BY <1>6 DEF PurgeNotifications
    <2>2. \A n \in Notes : [note[n] EXCEPT !.status = "deleted"] \in NoteRows
      BY <1>1 DEF NoteRows
    <2>3. \A n \in Rows : note'[n].status = "deleted" /\ note[n].status # "absent"
      BY <1>1, <2>1 DEF NoteRows, Rows
    <2>4. NotesInOrder'
      BY <1>2, <2>1, <2>3
    <2>5. \A n \in Notes : NoteMoves(n)
      BY <1>6, <2>1 DEF NoteMoves
    <2> QED
      BY <1>1, <2>1, <2>2, <2>4, <2>5
  <1> QED
    BY <1>3, <1>4, <1>5, <1>6 DEF NoteStep

-----------------------------------------------------------------------------
(* Types.                                                                  *)

\* A job once added is never as if it had not been.
RealJobs == {j \in Jobs : j.state # "none"}

\* What the queue writes of a job is a job.
LEMMA JobForms ==
  ASSUME TypeOK, NEW n \in Notes, NoteHolds(n)
  PROVE  /\ \A state \in {"waiting", "active", "done"} : [job[n] EXCEPT !.state = state] \in RealJobs
         /\ job[n].state \in {"waiting", "active"} => FailedJob(n) \in RealJobs
         /\ job[n].state \in {"waiting", "active"} =>
              [job[n] EXCEPT !.stalls = @ + 1,
                 !.state = IF job[n].stalls < MaxStalls THEN "waiting" ELSE "dead"] \in RealJobs
  <1>1. job[n] \in Jobs
    BY DEF TypeOK
  <1>2. ASSUME job[n].state \in {"waiting", "active"}
        PROVE  job[n].tries + 1 \in 0..MaxTries /\ job[n].stalls + 1 \in 0..(MaxStalls + 1)
    BY <1>1, <1>2, PipelineAssumption DEF NoteHolds, Jobs
  <1>3. ASSUME job[n].state \in {"waiting", "active"}
        PROVE  FailedJob(n) \in RealJobs
    BY <1>1, <1>2, <1>3 DEF FailedJob, RealJobs, Jobs
  <1>4. ASSUME job[n].state \in {"waiting", "active"}
        PROVE  [job[n] EXCEPT !.stalls = @ + 1,
                 !.state = IF job[n].stalls < MaxStalls THEN "waiting" ELSE "dead"] \in RealJobs
    BY <1>1, <1>2, <1>4 DEF RealJobs, Jobs
  <1> QED
    BY <1>1, <1>3, <1>4 DEF RealJobs, Jobs

LEMMA JobTypes ==
  ASSUME TypeOK, Linked, [Next]_vars
  PROVE  /\ job' \in [Notes -> Jobs]
         /\ \A n \in Notes : job[n].state # "none" => job'[n].state # "none"
  <1> SUFFICES \/ job' = job
               \/ \E n \in Notes, j \in RealJobs : job' = [job EXCEPT ![n] = j]
    BY DEF TypeOK, RealJobs
  <1>1. CASE UNCHANGED vars
    BY <1>1 DEF vars, pipelineVars
  <1>2. CASE DispatcherNext
    <2>1. ASSUME NEW w \in Workers, GateEnqueue(w) \/ GateEnqueueUnanswered(w)
          PROVE  \E n \in Notes, j \in RealJobs : job' = [job EXCEPT ![n] = j]
      <3>1. gate[w].note \in Notes
        BY <2>1 DEF GateEnqueue, GateEnqueueUnanswered, Linked, GateHolds
      <3>2. job' = [job EXCEPT ![gate[w].note] = [job[gate[w].note] EXCEPT !.state = "waiting"]]
        BY <2>1, <3>1 DEF GateEnqueue, GateEnqueueUnanswered, Enqueue, TypeOK
      <3> QED
        BY <3>1, <3>2, JobForms DEF Linked
    <2>2. ASSUME NEW w \in Workers,
                 \/ Dispatch(w) \/ GateUserGone(w) \/ GateMuted(w) \/ GateEnabled(w)
                 \/ GateDuplicate(w) \/ GateClear(w) \/ GateCreate(w) \/ GateThrows(w)
          PROVE  job' = job
      BY <2>2 DEF Dispatch, GateUserGone, GateMuted, GateEnabled, GateDuplicate, GateClear,
                  GateCreate, GateThrows, pipelineVars, deliveryVars
    <2> QED
      BY <1>2, <2>1, <2>2 DEF DispatcherNext, RecordAbout, ClaimForDelivery, deliveryVars
  <1>3. CASE UserNext
    BY <1>3 DEF UserNext, TogglePreference, PurgeNotifications, DeleteUser, deliveryVars
  <1>4. CASE SenderNext
    <2>1. ASSUME NEW s \in Senders, NEW n \in Notes,
                 TakeToSend(s, n) \/ TakeSettled(s, n) \/ TakeThrows(s, n)
          PROVE  \E j \in RealJobs : job' = [job EXCEPT ![n] = j]
      <3>1. job[n].state = "waiting" /\ NoteHolds(n)
        BY <2>1 DEF TakeToSend, TakeSettled, TakeThrows, Linked
      <3>2. CASE TakeToSend(s, n)
        <4>1. job' = [job EXCEPT ![n] = [job[n] EXCEPT !.state = "active"]]
          BY <3>2 DEF TakeToSend, TypeOK
        <4> QED
          BY <3>1, <4>1, JobForms
      <3>3. CASE TakeSettled(s, n)
        BY <3>1, <3>3, JobForms DEF TakeSettled, Completed
      <3>4. CASE TakeThrows(s, n)
        BY <3>1, <3>4, JobForms DEF TakeThrows
      <3> QED
        BY <2>1, <3>2, <3>3, <3>4
    <2>2. ASSUME NEW s \in Senders, SendSucceeds(s) \/ SendBlocked(s)
          PROVE  job' = job
      BY <2>2 DEF SendSucceeds, SendBlocked
    <2>3. ASSUME NEW s \in Senders, NEW b \in BOOLEAN,
                 SendThrows(s, b) \/ MarkSent(s) \/ MarkFailed(s) \/ MarkThrows(s, b)
          PROVE  job' = job \/ \E n \in Notes, j \in RealJobs : job' = [job EXCEPT ![n] = j]
      <3>1. sender[s].note \in Notes /\ SenderHolds(s) /\ sender[s].pc # "idle"
        BY <2>3 DEF SendThrows, MarkSent, MarkFailed, MarkThrows, Linked, SenderHolds
      <3>2. sender[s].owner => job[sender[s].note].state = "active"
        BY <3>1 DEF SenderHolds
      <3>3. NoteHolds(sender[s].note)
        BY <3>1 DEF Linked
      <3>4. \/ job' = job
            \/ /\ sender[s].owner
               /\ \/ job' = [job EXCEPT ![sender[s].note] = FailedJob(sender[s].note)]
                  \/ job' = [job EXCEPT ![sender[s].note] = Completed(sender[s].note)]
        BY <2>3 DEF SendThrows, MarkSent, MarkFailed, MarkThrows, Settle
      <3> QED
        BY <3>1, <3>2, <3>3, <3>4, JobForms DEF Completed
    <2>4. ASSUME NEW s \in Senders, NEW b \in BOOLEAN, Stall(s, b)
          PROVE  \E n \in Notes, j \in RealJobs : job' = [job EXCEPT ![n] = j]
      <3> DEFINE n == sender[s].note
      <3>1. n \in Notes /\ job[n].state = "active" /\ NoteHolds(n)
        BY <2>4 DEF Stall, Linked, SenderHolds
      <3>2. job' = [job EXCEPT ![n] = [job[n] EXCEPT !.stalls = @ + 1,
                      !.state = IF job[n].stalls < MaxStalls THEN "waiting" ELSE "dead"]]
        BY <2>4, <3>1 DEF Stall, TypeOK
      <3> QED
        BY <3>1, <3>2, JobForms
    <2> QED
      BY <1>4, <2>1, <2>2, <2>3, <2>4 DEF SenderNext
  <1> QED
    BY <1>1, <1>2, <1>3, <1>4 DEF Next

SenderStates == [pc : {"idle", "sending", "sent", "blocked"}, note : 0..MaxNotes, owner : BOOLEAN]

LEMMA SenderTypes ==
  ASSUME TypeOK, Linked, [Next]_vars
  PROVE  /\ sender' \in [Senders -> SenderStates]
         /\ messages' \in [Notes -> Nat]
  <1> SUFFICES /\ \/ sender' = sender
                  \/ \E s \in Senders, r \in SenderStates : sender' = [sender EXCEPT ![s] = r]
               /\ \/ messages' = messages
                  \/ \E n \in Notes : messages' = [messages EXCEPT ![n] = @ + 1]
    BY DEF TypeOK, SenderStates
  <1>1. CASE UNCHANGED vars
    BY <1>1 DEF vars, pipelineVars
  <1>2. CASE DispatcherNext
    <2>1. ASSUME NEW w \in Workers,
                 \/ Dispatch(w) \/ GateUserGone(w) \/ GateMuted(w) \/ GateEnabled(w)
                 \/ GateDuplicate(w) \/ GateClear(w) \/ GateCreate(w) \/ GateThrows(w)
                 \/ GateEnqueue(w) \/ GateEnqueueUnanswered(w)
          PROVE  sender' = sender /\ messages' = messages
      BY <2>1 DEF Dispatch, GateUserGone, GateMuted, GateEnabled, GateDuplicate, GateClear,
                  GateCreate, GateThrows, GateEnqueue, GateEnqueueUnanswered, pipelineVars,
                  deliveryVars
    <2> QED
      BY <1>2, <2>1 DEF DispatcherNext, RecordAbout, ClaimForDelivery, deliveryVars
  <1>3. CASE UserNext
    BY <1>3 DEF UserNext, TogglePreference, PurgeNotifications, DeleteUser, deliveryVars
  <1>4. ASSUME NEW s \in Senders, NEW n \in Notes,
               TakeToSend(s, n) \/ TakeSettled(s, n) \/ TakeThrows(s, n)
        PROVE  /\ \/ sender' = sender
                  \/ \E r \in SenderStates : sender' = [sender EXCEPT ![s] = r]
               /\ messages' = messages
    <2>1. [pc |-> "sending", note |-> n, owner |-> TRUE] \in SenderStates
      BY PipelineAssumption DEF SenderStates, Notes
    <2>2. \/ sender' = sender
          \/ sender' = [sender EXCEPT ![s] = [pc |-> "sending", note |-> n, owner |-> TRUE]]
      BY <1>4 DEF TakeToSend, TakeSettled, TakeThrows, SetSender
    <2>3. messages' = messages
      BY <1>4 DEF TakeToSend, TakeSettled, TakeThrows
    <2> QED
      BY <2>1, <2>2, <2>3
  <1>5. ASSUME NEW s \in Senders, NEW b \in BOOLEAN,
               \/ SendSucceeds(s) \/ SendBlocked(s) \/ MarkSent(s) \/ MarkFailed(s)
               \/ SendThrows(s, b) \/ MarkThrows(s, b) \/ Stall(s, b)
        PROVE  /\ \E r \in SenderStates : sender' = [sender EXCEPT ![s] = r]
               /\ \/ messages' = messages
                  \/ \E n \in Notes : messages' = [messages EXCEPT ![n] = @ + 1]
    <2>1. sender[s].note \in Notes /\ sender[s] \in SenderStates
      BY <1>5 DEF SendSucceeds, SendBlocked, MarkSent, MarkFailed, SendThrows, MarkThrows, Stall,
                  Linked, SenderHolds, TypeOK, SenderStates
    <2>0. [pc |-> "idle", note |-> 0, owner |-> FALSE] \in SenderStates
      BY PipelineAssumption DEF SenderStates
    <2>2. /\ [pc |-> "idle", note |-> 0, owner |-> FALSE] \in SenderStates
          /\ [sender[s] EXCEPT !.pc = "sent"] \in SenderStates
          /\ [sender[s] EXCEPT !.pc = "blocked"] \in SenderStates
          /\ [sender[s] EXCEPT !.owner = FALSE] \in SenderStates
      BY <2>0, <2>1 DEF SenderStates
    <2>3. \E r \in SenderStates : sender' = [sender EXCEPT ![s] = r]
      <3>1. CASE SendSucceeds(s) \/ SendBlocked(s)
        <4>1. \/ sender' = [sender EXCEPT ![s] = [sender[s] EXCEPT !.pc = "sent"]]
              \/ sender' = [sender EXCEPT ![s] = [sender[s] EXCEPT !.pc = "blocked"]]
          BY <3>1 DEF SendSucceeds, SendBlocked, TypeOK
        <4> QED
          BY <2>2, <4>1
      <3>2. CASE MarkSent(s) \/ MarkFailed(s) \/ SendThrows(s, b) \/ MarkThrows(s, b)
        <4>1. sender' = [sender EXCEPT ![s] = [pc |-> "idle", note |-> 0, owner |-> FALSE]]
          BY <3>2 DEF MarkSent, MarkFailed, SendThrows, MarkThrows, Settle, SetSender
        <4> QED
          BY <2>2, <4>1
      <3>3. CASE Stall(s, b)
        <4>1. \/ sender' = [sender EXCEPT ![s] = [pc |-> "idle", note |-> 0, owner |-> FALSE]]
              \/ sender' = [sender EXCEPT ![s] = [sender[s] EXCEPT !.owner = FALSE]]
          BY <3>3 DEF Stall, SetSender, TypeOK
        <4> QED
          BY <2>2, <4>1
      <3> QED
        BY <1>5, <3>1, <3>2, <3>3
    <2>4. messages' = messages \/ \E n \in Notes : messages' = [messages EXCEPT ![n] = @ + 1]
      BY <1>5, <2>1 DEF SendSucceeds, SendBlocked, MarkSent, MarkFailed, SendThrows, MarkThrows,
                        Stall
    <2> QED
      BY <2>3, <2>4
  <1>6. CASE SenderNext
    <2>1. PICK s \in Senders :
            \/ \E n \in Notes : TakeToSend(s, n) \/ TakeSettled(s, n) \/ TakeThrows(s, n)
            \/ SendSucceeds(s) \/ SendBlocked(s) \/ MarkSent(s) \/ MarkFailed(s)
            \/ \E b \in BOOLEAN : SendThrows(s, b) \/ MarkThrows(s, b) \/ Stall(s, b)
      BY <1>6 DEF SenderNext
    <2>2. \/ \E n \in Notes : TakeToSend(s, n) \/ TakeSettled(s, n) \/ TakeThrows(s, n)
          \/ \E b \in BOOLEAN :
               \/ SendSucceeds(s) \/ SendBlocked(s) \/ MarkSent(s) \/ MarkFailed(s)
               \/ SendThrows(s, b) \/ MarkThrows(s, b) \/ Stall(s, b)
      BY <2>1
    <2> QED
      BY <2>2, <1>4, <1>5
  <1> QED
    BY <1>1, <1>2, <1>3, <1>6 DEF Next

\* Every step keeps the types.
LEMMA PipelineTypes ==
  ASSUME TypeOK, OInv, Linked, [Next]_vars
  PROVE  TypeOK' /\ OInv' /\ NoteStep
  <1>1. OInv'
    BY PipelineStepsTheOutbox, StepKeeps
  <1>2. NoteStep
    BY NotesAreTouchedSo DEF Linked
  <1>3. note' \in [Notes -> NoteRows]
    BY <1>2, RowStep DEF Linked
  <1>4. /\ about' \in [Events -> Subjects]
        /\ user' \in {"present", "purging", "gone"} /\ enabled' \in BOOLEAN
        /\ gate' \in [Workers -> [step : {"start", "dedup", "create", "enqueue"},
                                  note : 0..MaxNotes]]
    <2> DEFINE Kept == about' = about /\ user' = user /\ enabled' = enabled /\ gate' = gate
    <2>1. CASE UNCHANGED vars
      BY <2>1 DEF vars, pipelineVars, TypeOK
    <2>2. ASSUME NEW e \in Events, NEW t \in 1..Cardinality(Events), NEW s \in Subjects,
                 RecordAbout(e, t, s)
          PROVE  about' \in [Events -> Subjects] /\ user' = user /\ enabled' = enabled /\ gate' = gate
      BY <2>2 DEF RecordAbout, TypeOK
    <2>3. ASSUME NEW w \in Workers,
                 \/ \E e \in Events : ClaimForDelivery(w, e)
                 \/ GateEnabled(w) \/ GateClear(w) \/ GateCreate(w)
          PROVE  /\ about' = about /\ user' = user /\ enabled' = enabled
                 /\ gate' \in [Workers -> [step : {"start", "dedup", "create", "enqueue"},
                                           note : 0..MaxNotes]]
      <3>1. about' = about /\ user' = user /\ enabled' = enabled
        BY <2>3 DEF ClaimForDelivery, GateEnabled, GateClear, GateCreate
      <3>2. \E g \in [step : {"start", "dedup", "create", "enqueue"}, note : 0..MaxNotes] :
              gate' = [gate EXCEPT ![w] = g]
        <4>1. CASE \E e \in Events : ClaimForDelivery(w, e)
          <5>1. gate' = [gate EXCEPT ![w] = [step |-> "start", note |-> 0]]
            BY <4>1 DEF ClaimForDelivery
          <5>2. 0 \in 0..MaxNotes
            BY PipelineAssumption
          <5> QED
            BY <5>1, <5>2
        <4>2. CASE GateEnabled(w)
          <5>1. gate' = [gate EXCEPT ![w] = [gate[w] EXCEPT !.step = "dedup"]]
            BY <4>2 DEF GateEnabled, TypeOK
          <5> QED
            BY <5>1 DEF TypeOK
        <4>3. CASE GateClear(w)
          <5>1. gate' = [gate EXCEPT ![w] = [gate[w] EXCEPT !.step = "create"]]
            BY <4>3 DEF GateClear, TypeOK
          <5> QED
            BY <5>1 DEF TypeOK
        <4>4. CASE GateCreate(w)
          <5>1. NextNote \in 0..MaxNotes
            BY <4>4 DEF GateCreate, CreateNote, Notes
          <5> QED
            BY <4>4, <5>1 DEF GateCreate
        <4> QED
          BY <2>3, <4>1, <4>2, <4>3, <4>4
      <3> QED
        BY <3>1, <3>2 DEF TypeOK
    <2>4. ASSUME NEW w \in Workers,
                 \/ Dispatch(w) \/ GateUserGone(w) \/ GateMuted(w) \/ GateDuplicate(w)
                 \/ GateThrows(w) \/ GateEnqueue(w) \/ GateEnqueueUnanswered(w)
          PROVE  Kept
      BY <2>4 DEF Dispatch, GateUserGone, GateMuted, GateDuplicate, RecordSuppressed, GateThrows,
                  GateEnqueue, GateEnqueueUnanswered, pipelineVars
    <2>5. CASE UserNext
      BY <2>5 DEF UserNext, TogglePreference, PurgeNotifications, DeleteUser, TypeOK
    <2>6. CASE SenderNext
      <3>1. Kept
        BY <2>6 DEF SenderNext, TakeToSend, TakeSettled, TakeThrows, SendSucceeds, SendBlocked,
                    SendThrows, MarkSent, MarkFailed, MarkThrows, Stall
      <3> QED
        BY <3>1 DEF TypeOK
    <2>7. CASE DispatcherNext
      <3>1. ASSUME Kept
            PROVE  /\ about' \in [Events -> Subjects]
                   /\ user' \in {"present", "purging", "gone"} /\ enabled' \in BOOLEAN
                   /\ gate' \in [Workers -> [step : {"start", "dedup", "create", "enqueue"},
                                             note : 0..MaxNotes]]
        BY <3>1 DEF TypeOK
      <3>2. /\ user \in {"present", "purging", "gone"} /\ enabled \in BOOLEAN
            /\ about \in [Events -> Subjects]
            /\ gate \in [Workers -> [step : {"start", "dedup", "create", "enqueue"},
                                     note : 0..MaxNotes]]
        BY DEF TypeOK
      <3> HIDE DEF Kept
      <3> QED
        BY <2>7, <2>2, <2>3, <2>4, <3>1, <3>2 DEF DispatcherNext
    <2> QED
      BY <2>1, <2>5, <2>6, <2>7 DEF Next
  <1>5. job' \in [Notes -> Jobs] /\ sender' \in [Senders -> SenderStates]
        /\ messages' \in [Notes -> Nat]
    BY JobTypes, SenderTypes
  <1> QED
    BY <1>1, <1>2, <1>3, <1>4, <1>5 DEF TypeOK, OInv, SenderStates

-----------------------------------------------------------------------------
(* Rows, jobs and senders.                                                 *)

\* A gate at its job was there before, or has just created its row.
GateMoves(w) ==
  At(w, "enqueue")' =>
    \/ At(w, "enqueue") /\ gate'[w] = gate[w] /\ worker'[w].event = worker[w].event
    \/ GateCreate(w)

\* A step of the outbox that does not go through the gate brings none there.
LEMMA GatesStay ==
  ASSUME TypeOK, NEW w \in Workers, gate' = gate,
         \/ UNCHANGED worker
         \/ Dispatch(w) \/ HandlerReturns(w) \/ HandlerThrows(w),
         NEW v \in Workers, At(v, "enqueue")'
  PROVE  At(v, "enqueue") /\ gate'[v] = gate[v] /\ worker'[v].event = worker[v].event
  <1>1. worker \in [Workers -> WorkerStates] /\ worker[v] \in WorkerStates
    BY DEF TypeOK, OutboxTypeOK
  <1>2. gate[v].step = "enqueue" /\ worker'[v].pc = "handling"
    BY DEF At
  <1>3. CASE UNCHANGED worker
    BY <1>2, <1>3 DEF At
  <1>4. CASE Dispatch(w)
    <2>1. CASE Poll(w) \/ BatchEnds(w) \/ CommitDecision(w) \/ CommitRefused(w) \/ Crash(w)
      BY <1>1, <1>2, <2>1
      DEF At, Poll, BatchEnds, CommitDecision, CommitRefused, Crash, WorkerStates
    <2>2. CASE ClaimExpires(w)
      BY <1>1, <1>2, <2>2 DEF At, ClaimExpires, WorkerStates
    <2> QED
      BY <1>4, <2>1, <2>2 DEF Dispatch
  <1>5. CASE HandlerReturns(w) \/ HandlerThrows(w)
    BY <1>1, <1>2, <1>5 DEF At, HandlerReturns, HandlerThrows, WorkerStates
  <1> QED
    BY <1>3, <1>4, <1>5

LEMMA GateStep ==
  ASSUME TypeOK, [Next]_vars, NEW v \in Workers
  PROVE  GateMoves(v)
  <1> SUFFICES ASSUME At(v, "enqueue")'
               PROVE  \/ At(v, "enqueue") /\ gate'[v] = gate[v] /\ worker'[v].event = worker[v].event
                      \/ GateCreate(v)
    BY DEF GateMoves
  <1>1. ASSUME UNCHANGED <<worker, gate>>
        PROVE  At(v, "enqueue") /\ gate'[v] = gate[v] /\ worker'[v].event = worker[v].event
    BY <1>1 DEF At
  <1>2. CASE UNCHANGED vars \/ UserNext \/ SenderNext
    <2>1. UNCHANGED <<worker, gate>>
      BY <1>2 DEF vars, outboxVars, pipelineVars, UserNext, TogglePreference, PurgeNotifications,
         DeleteUser, SenderNext, TakeToSend, TakeSettled, TakeThrows, SendSucceeds, SendBlocked,
         SendThrows, MarkSent, MarkFailed, MarkThrows, Stall
    <2> QED
      BY <1>1, <2>1
  <1>3. ASSUME NEW e \in Events, NEW t \in 1..Cardinality(Events), NEW s \in Subjects,
               RecordAbout(e, t, s)
        PROVE  UNCHANGED <<worker, gate>>
    BY <1>3 DEF RecordAbout, Record
  <1>4. ASSUME NEW w \in Workers, NEW e \in Events, ClaimForDelivery(w, e)
        PROVE  At(v, "enqueue") /\ gate'[v] = gate[v] /\ worker'[v].event = worker[v].event
    BY <1>4 DEF ClaimForDelivery, Claim, At, TypeOK, OutboxTypeOK
  <1>5. ASSUME NEW w \in Workers,
               \/ Dispatch(w) \/ GateUserGone(w) \/ GateMuted(w) \/ GateDuplicate(w)
               \/ GateEnqueue(w) \/ GateThrows(w) \/ GateEnqueueUnanswered(w)
        PROVE  At(v, "enqueue") /\ gate'[v] = gate[v] /\ worker'[v].event = worker[v].event
    <2>1. gate' = gate
      BY <1>5 DEF Dispatch, GateUserGone, GateMuted, GateDuplicate, RecordSuppressed, GateEnqueue,
                  GateThrows, GateEnqueueUnanswered, pipelineVars
    <2>2. Dispatch(w) \/ HandlerReturns(w) \/ HandlerThrows(w)
      BY <1>5 DEF GateUserGone, GateMuted, GateDuplicate, RecordSuppressed, GateEnqueue,
                  GateThrows, GateEnqueueUnanswered
    <2> QED
      BY <2>1, <2>2, GatesStay
  <1>6. ASSUME NEW w \in Workers, GateEnabled(w) \/ GateClear(w) \/ GateCreate(w)
        PROVE  \/ At(v, "enqueue") /\ gate'[v] = gate[v] /\ worker'[v].event = worker[v].event
               \/ GateCreate(v)
    <2>1. worker' = worker
      BY <1>6 DEF GateEnabled, GateClear, GateCreate, outboxVars
    <2>2. CASE v # w
      <3>1. gate'[v] = gate[v]
        BY <1>6, <2>2 DEF GateEnabled, GateClear, GateCreate, TypeOK
      <3> QED
        BY <2>1, <3>1 DEF At
    <2>3. CASE v = w /\ ~ GateCreate(w)
      <3>1. gate'[v].step \in {"dedup", "create"}
        BY <1>6, <2>3 DEF GateEnabled, GateClear, TypeOK
      <3> QED
        BY <3>1 DEF At
    <2> QED
      BY <2>2, <2>3
  <1> QED
    BY <1>1, <1>2, <1>3, <1>4, <1>5, <1>6 DEF Next, DispatcherNext

\* What a step of a sender may touch: one job, its row and its messages.
Local(s, n) ==
  /\ \A m \in Notes \ {n} : job'[m] = job[m] /\ messages'[m] = messages[m] /\ note'[m] = note[m]
  /\ \A t \in Senders \ {s} : sender'[t] = sender[t]
  /\ UNCHANGED <<worker, gate>>

\* What the step adds to the messages and marks of n is paid for, by the
\* sender, or by a hand-out.
PaidFor(s, n) ==
  /\ sender[s].pc = "idle" \/ sender[s].note = n
  /\ sender'[s].pc = "idle" \/ sender'[s].note = n
  /\ messages'[n] + OneIf(note'[n].status = "failed") + OneIf(SendingOn(s, n)') + HandOuts(n)
       <= messages[n] + OneIf(note[n].status = "failed") + OneIf(SendingOn(s, n)) + HandOuts(n)'

LEMMA CountsAreNumbers ==
  ASSUME TypeOK, NEW n \in Notes
  PROVE  /\ messages[n] \in Nat /\ job[n].tries \in Nat /\ job[n].stalls \in Nat
         /\ HandOuts(n) \in Nat
  <1>1. job[n] \in Jobs /\ messages[n] \in Nat
    BY DEF TypeOK
  <1>2. job[n].tries \in Nat /\ job[n].stalls \in Nat
    BY <1>1, PipelineAssumption DEF Jobs
  <1> QED
    BY <1>1, <1>2 DEF HandOuts, OneIf

\* Where the senders stay, a job or a row may be added, and a mark removed.
LEMMA SendsStayCounted ==
  ASSUME TypeOK, NEW n \in Notes, SendsCounted(n), UNCHANGED <<sender, messages>>,
         HandOuts(n)' = HandOuts(n), note'[n].status = "failed" => note[n].status = "failed"
  PROVE  SendsCounted(n)'
  <1>1. Sendings(n)' = Sendings(n)
    BY DEF Sendings, SendingOn
  <1>2. OneIf(note'[n].status = "failed") <= OneIf(note[n].status = "failed")
        /\ OneIf(note'[n].status = "failed") \in Nat /\ OneIf(note[n].status = "failed") \in Nat
    BY DEF OneIf
  <1>3. messages[n] \in Nat /\ Cardinality(Sendings(n)) \in Nat /\ HandOuts(n) \in Nat
    BY CountsAreNumbers, FS_CardinalityType DEF SendsCounted
  <1> QED
    BY <1>1, <1>2, <1>3 DEF SendsCounted

\* A sender's step changes the number of sendings by its own.
LEMMA OneSenderMoves ==
  ASSUME NEW s \in Senders, NEW n \in Notes, IsFiniteSet(Sendings(n)),
         \A t \in Senders \ {s} : SendingOn(t, n)' <=> SendingOn(t, n)
  PROVE  /\ IsFiniteSet(Sendings(n)')
         /\ Cardinality(Sendings(n)) \in Nat /\ Cardinality(Sendings(n)') \in Nat
         /\ Cardinality(Sendings(n)') + OneIf(SendingOn(s, n)) =
              Cardinality(Sendings(n)) + OneIf(SendingOn(s, n)')
  <1> DEFINE Others == Sendings(n) \ {s}
  <1>1. IsFiniteSet(Others) /\ s \notin Others /\ Cardinality(Others) \in Nat
    BY FS_RemoveElement, FS_CardinalityType
  <1>2. /\ IsFiniteSet(Others \cup {s})
        /\ Cardinality(Others \cup {s}) = Cardinality(Others) + 1
    BY <1>1, FS_AddElement
  <1>3. /\ SendingOn(s, n) => Sendings(n) = Others \cup {s}
        /\ ~ SendingOn(s, n) => Sendings(n) = Others
    BY DEF Sendings
  <1>4. /\ SendingOn(s, n)' => Sendings(n)' = Others \cup {s}
        /\ ~ SendingOn(s, n)' => Sendings(n)' = Others
    BY DEF Sendings
  <1> HIDE DEF Others
  <1>5. /\ SendingOn(s, n) => Cardinality(Sendings(n)) = Cardinality(Others) + 1
        /\ ~ SendingOn(s, n) => Cardinality(Sendings(n)) = Cardinality(Others)
    BY <1>2, <1>3
  <1>6. /\ SendingOn(s, n)' => Cardinality(Sendings(n)') = Cardinality(Others) + 1
        /\ ~ SendingOn(s, n)' => Cardinality(Sendings(n)') = Cardinality(Others)
    BY <1>2, <1>4
  <1>7. IsFiniteSet(Sendings(n)')
    BY <1>1, <1>2, <1>4
  <1> QED
    BY <1>1, <1>5, <1>6, <1>7 DEF OneIf

\* Who pays keeps the sends counted, and those of other rows are untouched.
LEMMA PaidKeepsCounted ==
  ASSUME TypeOK, TypeOK', Linked, NEW s \in Senders, NEW n \in Notes, Local(s, n), PaidFor(s, n),
         NEW m \in Notes
  PROVE  SendsCounted(m)'
  <1>1. \A t \in Senders \ {s} : SendingOn(t, m)' <=> SendingOn(t, m)
    BY DEF Local, SendingOn
  <1>2. /\ IsFiniteSet(Sendings(m))
        /\ messages[m] + Cardinality(Sendings(m)) + OneIf(note[m].status = "failed") <= HandOuts(m)
    BY DEF Linked, SendsCounted
  <1>3. /\ IsFiniteSet(Sendings(m)')
        /\ Cardinality(Sendings(m)) \in Nat /\ Cardinality(Sendings(m)') \in Nat
        /\ Cardinality(Sendings(m)') + OneIf(SendingOn(s, m)) =
             Cardinality(Sendings(m)) + OneIf(SendingOn(s, m)')
    BY <1>1, <1>2, OneSenderMoves
  <1>4. /\ messages[m] \in Nat /\ messages'[m] \in Nat
        /\ HandOuts(m) \in Nat /\ HandOuts(m)' \in Nat
    <2>1. HandOuts(m) \in Nat /\ messages[m] \in Nat
      BY CountsAreNumbers
    <2>2. job'[m] \in Jobs /\ messages'[m] \in Nat
      BY DEF TypeOK
    <2>3. job'[m].tries \in Nat /\ job'[m].stalls \in Nat
      BY <2>2, PipelineAssumption DEF Jobs
    <2> QED
      BY <2>1, <2>2, <2>3 DEF HandOuts, OneIf
  <1>5. /\ OneIf(SendingOn(s, m)) \in Nat /\ OneIf(SendingOn(s, m)') \in Nat
        /\ OneIf(note[m].status = "failed") \in Nat /\ OneIf(note'[m].status = "failed") \in Nat
    BY DEF OneIf
  <1>6. messages'[m] + OneIf(note'[m].status = "failed") + OneIf(SendingOn(s, m)') + HandOuts(m)
          <= messages[m] + OneIf(note[m].status = "failed") + OneIf(SendingOn(s, m)) + HandOuts(m)'
    <2>1. CASE m = n
      BY <2>1 DEF PaidFor
    <2>2. CASE m # n
      <3>1. job'[m] = job[m] /\ messages'[m] = messages[m] /\ note'[m] = note[m]
        BY <2>2 DEF Local
      <3>2. ~ SendingOn(s, m) /\ ~ SendingOn(s, m)'
        BY <2>2 DEF PaidFor, SendingOn
      <3>3. HandOuts(m)' = HandOuts(m)
        BY <3>1 DEF HandOuts
      <3>4. OneIf(SendingOn(s, m)) = 0 /\ OneIf(SendingOn(s, m)') = 0
        BY <3>2 DEF OneIf
      <3> QED
        BY <1>4, <1>5, <3>1, <3>3, <3>4
    <2> QED
      BY <2>1, <2>2
  <1>7. messages'[m] + Cardinality(Sendings(m)') + OneIf(note'[m].status = "failed") <= HandOuts(m)'
    <2> HIDE DEF OneIf
    <2> QED
      BY <1>2, <1>3, <1>4, <1>5, <1>6
  <1> QED
    BY <1>3, <1>7 DEF SendsCounted

\* Such a step keeps the links if it keeps those of n and s, pays for what it
\* adds, and changes an active job, or a row, only for the sender that has it.
LEMMA LocalKeeps ==
  ASSUME TypeOK, TypeOK', Linked, NotesInOrder', NEW s \in Senders, NEW n \in Notes, Local(s, n),
         PaidFor(s, n), NoteHolds(n)', SenderHolds(s)',
         job[n].state # "none", job'[n].state # "none",
         messages'[n] >= messages[n], job'[n].stalls >= job[n].stalls,
         \/ job'[n].state = job[n].state
         \/ job[n].state = "waiting"
         \/ sender[s].owner /\ sender[s].note = n,
         note'[n] = note[n] \/ (sender[s].pc # "idle" /\ sender[s].note = n),
         sender'[s].owner =>
           \/ sender[s].owner /\ sender'[s].note = sender[s].note
           \/ job[n].state = "waiting" /\ sender'[s].note = n
  PROVE  Linked'
  <1>1. \A m \in Notes : NoteHolds(m)'
    BY DEF Linked, Local, NoteHolds
  <1>2. \A w \in Workers : GateHolds(w)'
    <2> SUFFICES ASSUME NEW w \in Workers, At(w, "enqueue")
                 PROVE  GateHolds(w)'
      BY DEF GateHolds, At, Local
    <2>1. gate[w].note \in Notes \ {n}
      BY DEF Linked, GateHolds, NoJob
    <2> QED
      BY <2>1 DEF Linked, GateHolds, Local, At
  <1>3. GatesApart'
    BY DEF Linked, GatesApart, At, Local
  <1>4. \A t \in Senders : SenderHolds(t)'
    <2> SUFFICES ASSUME NEW t \in Senders \ {s} PROVE SenderHolds(t)'
      OBVIOUS
    <2>1. sender'[t] = sender[t] /\ SenderHolds(t)
      BY DEF Local, Linked
    <2>2. CASE sender[t].pc = "idle"
      BY <2>1, <2>2 DEF SenderHolds
    <2>3. CASE sender[t].pc # "idle" /\ sender[t].note # n
      BY <2>1, <2>3 DEF SenderHolds, Local
    <2>4. CASE sender[t].pc # "idle" /\ sender[t].note = n
      <3>1. /\ job[n].stalls \in Nat /\ job'[n].stalls \in Nat
            /\ messages[n] \in Nat /\ messages'[n] \in Nat
        BY PipelineAssumption DEF TypeOK, Jobs
      <3>2. IF sender[t].owner THEN job[n].state = "active" ELSE job[n].stalls > 0
        BY <2>1, <2>4 DEF SenderHolds
      <3>3. IF sender[t].owner THEN job'[n].state = "active" ELSE job'[n].stalls > 0
        <4>1. CASE sender[t].owner
          <5>1. job[n].state = "active" /\ ~ (sender[s].owner /\ sender[s].note = n)
            BY <2>4, <3>2, <4>1 DEF Linked, OneOwner
          <5> QED
            BY <4>1, <5>1
        <4>2. CASE ~ sender[t].owner
          BY <3>1, <3>2, <4>2
        <4> QED
          BY <4>1, <4>2
      <3>4. sender[t].pc = "sent" => messages'[n] > 0
        <4>1. sender[t].pc = "sent" => messages[n] > 0
          BY <2>1, <2>4 DEF SenderHolds
        <4> QED
          BY <3>1, <4>1
      <3>5. note'[n].status \in {"sent", "failed"} => job'[n].stalls > 0
        <4>1. ASSUME note'[n].status \in {"sent", "failed"}
              PROVE  job[n].stalls > 0
          <5>1. CASE note'[n] = note[n]
            BY <2>1, <2>4, <4>1, <5>1 DEF SenderHolds
          <5>2. CASE sender[s].pc # "idle" /\ sender[s].note = n
            <6>1. ~ sender[s].owner \/ ~ sender[t].owner
              BY <2>4, <5>2 DEF Linked, OneOwner
            <6>2. SenderHolds(s)
              BY DEF Linked
            <6> QED
              BY <2>4, <3>2, <5>2, <6>1, <6>2 DEF SenderHolds
          <5> QED
            BY <5>1, <5>2
        <4> QED
          BY <3>1, <4>1
      <3> QED
        BY <2>1, <2>4, <3>3, <3>4, <3>5 DEF SenderHolds
    <2> QED
      BY <2>2, <2>3, <2>4
  <1>5. OneOwner'
    <2> SUFFICES ASSUME NEW t \in Senders \ {s}, sender'[s].owner, sender'[t].owner,
                        sender'[s].note = sender'[t].note
                 PROVE  FALSE
      BY DEF OneOwner, Linked, Local
    <2>1. sender'[t] = sender[t] /\ SenderHolds(t)
      BY DEF Local, Linked
    <2>2. job[sender[t].note].state = "active"
      BY <2>1 DEF SenderHolds
    <2>3. sender[s].owner /\ sender[s].note = sender[t].note
      BY <2>1, <2>2
    <2> QED
      BY <2>1, <2>3 DEF Linked, OneOwner
  <1>6. \A m \in Notes : SendsCounted(m)'
    BY PaidKeepsCounted
  <1> QED
    BY <1>1, <1>2, <1>3, <1>4, <1>5, <1>6 DEF Linked

\* Steps that leave the rows, the jobs and the senders alone keep the links.
LEMMA QuietKeeps ==
  ASSUME TypeOK, Linked, [Next]_vars, UNCHANGED <<note, job, sender, messages>>
  PROVE  Linked'
  <1>1. \A v \in Workers : At(v, "enqueue")' =>
          At(v, "enqueue") /\ gate'[v] = gate[v] /\ worker'[v].event = worker[v].event
    <2> SUFFICES ASSUME NEW v \in Workers, GateCreate(v) PROVE FALSE
      BY GateStep DEF GateMoves
    <2>1. NextNote \in Notes /\ note'[NextNote].status # note[NextNote].status
      BY NextIsFree DEF GateCreate, CreateNote, Linked, TypeOK
    <2> QED
      BY <2>1
  <1>2. \A w \in Workers : GateHolds(w)'
    <2> SUFFICES ASSUME NEW w \in Workers, At(w, "enqueue")' PROVE GateHolds(w)'
      BY DEF GateHolds
    <2> QED
      BY <1>1 DEF Linked, GateHolds
  <1>3. GatesApart'
    BY <1>1 DEF Linked, GatesApart
  <1>4. NotesInOrder' /\ OneOwner'
    BY DEF Linked, NotesInOrder, OneOwner
  <1>5. /\ \A n \in Notes : NoteHolds(n)'
        /\ \A s \in Senders : SenderHolds(s)'
    BY DEF Linked, NoteHolds, SenderHolds
  <1>6. \A n \in Notes : SendsCounted(n)'
    BY SendsStayCounted DEF Linked, HandOuts
  <1> QED
    BY <1>2, <1>3, <1>4, <1>5, <1>6 DEF Linked

\* A new row has no job and no message, and nobody else is at it.
LEMMA CreateKeeps ==
  ASSUME TypeOK, TypeOK', Linked, NotesInOrder', [Next]_vars, NEW w \in Workers,
         NEW reason \in Reasons, CreateNote(w, reason[1], reason[2]),
         GateMuted(w) \/ GateDuplicate(w) \/ GateCreate(w)
  PROVE  Linked'
  <1> DEFINE row == [status |-> reason[1], event |-> worker[w].event,
                     suppressedReason |-> reason[2]]
  <1>0. PICK n \in Notes : n = NextNote
    BY DEF CreateNote
  <1>1. /\ n \in Notes /\ note[n].status = "absent" /\ note'[n] = row
        /\ \A m \in Notes \ {n} : note'[m] = note[m]
    BY <1>0, NextIsFree DEF CreateNote, Linked, TypeOK
  <1>2. UNCHANGED <<job, sender, messages>>
    BY DEF GateMuted, GateDuplicate, GateCreate, deliveryVars
  <1>3. job[n] = NoJob /\ messages[n] = 0
    BY <1>1 DEF Linked, NoteHolds
  <1>4. \A m \in Notes : NoteHolds(m)'
    <2>1. NoteHolds(n)'
      BY <1>1, <1>2, <1>3 DEF NoteHolds, Reasons, NoJob
    <2>2. \A m \in Notes \ {n} : NoteHolds(m)'
      BY <1>1, <1>2 DEF Linked, NoteHolds
    <2> QED
      BY <2>1, <2>2
  <1>5. \A s \in Senders : SenderHolds(s)'
    <2> SUFFICES ASSUME NEW s \in Senders PROVE SenderHolds(s)'
      OBVIOUS
    <2>1. SenderHolds(s)
      BY DEF Linked
    <2>2. sender[s].pc # "idle" => sender[s].note \in Notes \ {n}
      BY <2>1, <1>3 DEF SenderHolds, NoJob
    <2> QED
      BY <2>1, <2>2, <1>1, <1>2 DEF SenderHolds
  <1>6. OneOwner'
    BY <1>2 DEF Linked, OneOwner
  <1>7. ASSUME NEW v \in Workers, GateCreate(v)
        PROVE  /\ gate'[v].note = n /\ note'[n].event = worker'[v].event
               /\ note'[n].status = "queued" /\ note'[n].suppressedReason = "none"
    BY <1>0, <1>1, <1>7 DEF GateCreate, CreateNote, TypeOK, outboxVars
  <1>8. \A v \in Workers : GateHolds(v)'
    <2> SUFFICES ASSUME NEW v \in Workers, At(v, "enqueue")' PROVE GateHolds(v)'
      BY DEF GateHolds
    <2>1. CASE GateCreate(v)
      BY <2>1, <1>1, <1>2, <1>3, <1>7 DEF GateHolds
    <2>2. CASE At(v, "enqueue") /\ gate'[v] = gate[v] /\ worker'[v].event = worker[v].event
      <3>1. GateHolds(v)
        BY DEF Linked
      <3>2. gate[v].note \in Notes \ {n}
        BY <2>2, <3>1, <1>1 DEF GateHolds
      <3> QED
        BY <2>2, <3>1, <3>2, <1>1, <1>2 DEF GateHolds
    <2> QED
      BY <2>1, <2>2, GateStep DEF GateMoves
  <1>9. GatesApart'
    <2> SUFFICES ASSUME NEW u \in Workers, NEW v \in Workers, At(u, "enqueue")',
                        At(v, "enqueue")', gate'[u].note = gate'[v].note
                 PROVE  u = v
      BY DEF GatesApart
    <2>1. \A x \in Workers : At(x, "enqueue") => gate[x].note # n
      BY <1>1 DEF Linked, GateHolds
    <2>2. \A x \in Workers : GateCreate(x) => gate'[x].note = n
      BY <1>7
    <2>3. ASSUME GateCreate(u), GateCreate(v), u # v
          PROVE  FALSE
      <3>1. gate[v].step = "create" /\ gate'[v] = gate[v]
        BY <2>3 DEF GateCreate, At, TypeOK
      <3>2. gate'[v].step = "enqueue"
        BY <2>3 DEF GateCreate, TypeOK
      <3> QED
        BY <3>1, <3>2
    <2>4. GateMoves(u) /\ GateMoves(v)
      BY GateStep
    <2> QED
      BY <2>1, <2>2, <2>3, <2>4 DEF GateMoves, Linked, GatesApart
  <1>10. \A m \in Notes : SendsCounted(m)'
    <2>1. note'[n].status # "failed"
      BY <1>1 DEF Reasons
    <2>2. \A m \in Notes : note'[m].status = "failed" => note[m].status = "failed"
      BY <1>1, <2>1
    <2> QED
      BY <1>2, <2>2, SendsStayCounted DEF Linked, HandOuts
  <1> QED
    BY <1>4, <1>5, <1>6, <1>8, <1>9, <1>10 DEF Linked

\* A job is added once for a row, and by the gate that made it.
LEMMA EnqueueKeeps ==
  ASSUME TypeOK, TypeOK', Linked, [Next]_vars, NEW w \in Workers,
         GateEnqueue(w) \/ GateEnqueueUnanswered(w)
  PROVE  Linked'
  <1>0. PICK n \in Notes : n = gate[w].note
    BY DEF GateEnqueue, GateEnqueueUnanswered, Linked, GateHolds
  <1>1. /\ n \in Notes /\ job[n] = NoJob /\ note[n].status # "absent"
        /\ note[n].suppressedReason = "none" /\ At(w, "enqueue")
    BY <1>0 DEF GateEnqueue, GateEnqueueUnanswered, Linked, GateHolds
  <1>2. UNCHANGED <<note, gate, sender, messages>>
    BY DEF GateEnqueue, GateEnqueueUnanswered
  <1>3. /\ job'[n] = [NoJob EXCEPT !.state = "waiting"]
        /\ \A m \in Notes \ {n} : job'[m] = job[m]
    BY <1>0, <1>1 DEF GateEnqueue, GateEnqueueUnanswered, Enqueue, TypeOK
  <1>4. ~ At(w, "enqueue")'
    <2>1. worker'[w].pc = "deciding"
      BY DEF GateEnqueue, GateEnqueueUnanswered, HandlerReturns, HandlerThrows, TypeOK,
             OutboxTypeOK, WorkerStates
    <2> QED
      BY <2>1 DEF At
  <1>5. \A m \in Notes : NoteHolds(m)'
    <2>1. NoteHolds(n)'
      BY <1>1, <1>2, <1>3, PipelineAssumption DEF Linked, NoteHolds, NoJob
    <2>2. \A m \in Notes \ {n} : NoteHolds(m)'
      BY <1>2, <1>3 DEF Linked, NoteHolds
    <2> QED
      BY <2>1, <2>2
  <1>6. \A s \in Senders : SenderHolds(s)'
    <2> SUFFICES ASSUME NEW s \in Senders PROVE SenderHolds(s)'
      OBVIOUS
    <2>1. SenderHolds(s)
      BY DEF Linked
    <2>2. sender[s].pc # "idle" => sender[s].note \in Notes \ {n}
      BY <2>1, <1>1 DEF SenderHolds, NoJob
    <2> QED
      BY <2>1, <2>2, <1>2, <1>3 DEF SenderHolds
  <1>7. \A v \in Workers : At(v, "enqueue")' =>
          /\ At(v, "enqueue") /\ gate'[v] = gate[v] /\ worker'[v].event = worker[v].event
          /\ v # w
    <2>1. \A v \in Workers : ~ GateCreate(v)
      <3> SUFFICES ASSUME NEW v \in Workers, GateCreate(v) PROVE FALSE
        OBVIOUS
      <3>1. NextNote \in Notes /\ note'[NextNote].status # note[NextNote].status
        BY NextIsFree DEF GateCreate, CreateNote, Linked, TypeOK
      <3> QED
        BY <3>1, <1>2
    <2> QED
      BY <2>1, <1>4, GateStep DEF GateMoves
  <1>8. \A v \in Workers : GateHolds(v)'
    <2> SUFFICES ASSUME NEW v \in Workers, At(v, "enqueue")' PROVE GateHolds(v)'
      BY DEF GateHolds
    <2>1. gate[v].note \in Notes \ {n} /\ GateHolds(v)
      BY <1>0, <1>1, <1>7 DEF Linked, GateHolds, GatesApart
    <2> QED
      BY <2>1, <1>2, <1>3, <1>7 DEF GateHolds
  <1>9. GatesApart' /\ OneOwner' /\ NotesInOrder'
    BY <1>2, <1>7 DEF Linked, GatesApart, OneOwner, NotesInOrder
  <1>10. \A m \in Notes : SendsCounted(m)'
    <2>1. HandOuts(n)' = HandOuts(n)
      BY <1>1, <1>3 DEF HandOuts, NoJob, OneIf
    <2>2. \A m \in Notes : HandOuts(m)' = HandOuts(m)
      BY <1>3, <2>1 DEF HandOuts
    <2> QED
      BY <1>2, <2>2, SendsStayCounted DEF Linked
  <1> QED
    BY <1>5, <1>6, <1>8, <1>9, <1>10 DEF Linked

\* The purge marks every row deleted and touches no job.
LEMMA PurgeKeeps ==
  ASSUME TypeOK, TypeOK', Linked, NotesInOrder', PurgeNotifications
  PROVE  Linked'
  <1>1. /\ UNCHANGED <<worker, gate, job, sender, messages>>
        /\ \A n \in Notes :
             note'[n] = IF n \in Rows THEN [note[n] EXCEPT !.status = "deleted"] ELSE note[n]
    BY DEF PurgeNotifications, deliveryVars, outboxVars
  <1>2. \A n \in Notes :
          /\ note'[n].event = note[n].event
          /\ note'[n].suppressedReason = note[n].suppressedReason
          /\ note'[n] = note[n] \/ (note'[n].status = "deleted" /\ note[n].status # "absent")
    BY <1>1 DEF TypeOK, NoteRows, Rows
  <1>3. \A n \in Notes : NoteHolds(n)'
    <2> SUFFICES ASSUME NEW n \in Notes PROVE NoteHolds(n)'
      OBVIOUS
    <2>1. NoteHolds(n)
      BY DEF Linked
    <2>2. CASE note'[n] = note[n]
      BY <1>1, <2>1, <2>2 DEF NoteHolds
    <2>3. CASE note'[n].status = "deleted"
      BY <1>1, <1>2, <2>1, <2>3 DEF NoteHolds
    <2> QED
      BY <1>2, <2>2, <2>3
  <1>4. \A s \in Senders : SenderHolds(s)'
    <2> SUFFICES ASSUME NEW s \in Senders PROVE SenderHolds(s)'
      OBVIOUS
    <2>1. SenderHolds(s)
      BY DEF Linked
    <2>2. sender[s].note \in Notes =>
            (note'[sender[s].note].status \in {"sent", "failed"}
               => note[sender[s].note].status \in {"sent", "failed"})
      BY <1>2
    <2> QED
      BY <1>1, <2>1, <2>2 DEF SenderHolds
  <1>5. \A w \in Workers : GateHolds(w)'
    BY <1>1, <1>2 DEF Linked, GateHolds, At
  <1>6. OneOwner' /\ GatesApart'
    BY <1>1 DEF Linked, OneOwner, GatesApart, At
  <1>7. \A n \in Notes : SendsCounted(n)'
    BY <1>1, <1>2, SendsStayCounted DEF Linked, HandOuts
  <1> QED
    BY <1>3, <1>4, <1>5, <1>6, <1>7 DEF Linked

\* Taking a job up: it becomes active, done or failed.
LEMMA TakeKeeps ==
  ASSUME TypeOK, TypeOK', Linked, NotesInOrder', NEW s \in Senders, NEW n \in Notes,
         TakeToSend(s, n) \/ TakeSettled(s, n) \/ TakeThrows(s, n)
  PROVE  Linked'
  <1>1. /\ NoteHolds(n) /\ SenderHolds(s) /\ job[n] \in Jobs /\ note[n] \in NoteRows
        /\ messages[n] \in Nat
    BY DEF Linked, TypeOK
  <1>2. sender[s].pc = "idle" /\ job[n].state = "waiting" /\ ~ sender[s].owner
    BY <1>1 DEF TakeToSend, TakeSettled, TakeThrows, SenderHolds
  <1>3. UNCHANGED <<note, messages, worker, gate>>
    BY DEF TakeToSend, TakeSettled, TakeThrows, outboxVars
  <1>4. note[n].status # "absent" /\ note[n].suppressedReason = "none"
        /\ note[n].status # "suppressed"
    BY <1>1, <1>2 DEF NoteHolds, NoJob
  <1>5. job[n].tries < MaxTries /\ job[n].stalls <= MaxStalls
    BY <1>1, <1>2 DEF NoteHolds
  <1>6. \A t \in Senders \ {s} : sender'[t] = sender[t]
    BY DEF TakeToSend, TakeSettled, TakeThrows, SetSender, TypeOK
  <1>7. CASE TakeToSend(s, n)
    <2>1. job' = [job EXCEPT ![n] = [job[n] EXCEPT !.state = "active"]] /\ note[n].status = "queued"
      BY <1>7 DEF TakeToSend, MustSend, TypeOK
    <2>2. /\ job'[n].state = "active" /\ job'[n].tries = job[n].tries
          /\ job'[n].stalls = job[n].stalls
          /\ \A m \in Notes \ {n} : job'[m] = job[m]
      BY <1>1, <2>1 DEF TypeOK, Jobs
    <2>3. sender'[s] = [pc |-> "sending", note |-> n, owner |-> TRUE]
      BY <1>7 DEF TakeToSend, SetSender, TypeOK
    <2>4. Local(s, n)
      BY <1>3, <1>6, <2>2 DEF Local
    <2>5. NoteHolds(n)'
      BY <1>3, <1>4, <1>5, <2>1, <2>2 DEF NoteHolds
    <2>6. SenderHolds(s)'
      BY <1>3, <2>1, <2>2, <2>3 DEF SenderHolds
    <2>7. job'[n].stalls >= job[n].stalls /\ messages'[n] >= messages[n]
      BY <1>1, <1>3, <2>2, PipelineAssumption DEF Jobs
    <2>8. PaidFor(s, n)
      BY <1>2, <1>3, <2>2, <2>3, CountsAreNumbers DEF PaidFor, SendingOn, HandOuts, OneIf
    <2> QED
      BY <1>2, <1>3, <2>2, <2>3, <2>4, <2>5, <2>6, <2>7, <2>8, LocalKeeps
  <1>8. CASE TakeSettled(s, n) \/ TakeThrows(s, n)
    <2>1. sender' = sender
      BY <1>8 DEF TakeSettled, TakeThrows
    <2>2. CASE TakeSettled(s, n)
      <3>1. job' = [job EXCEPT ![n] = [job[n] EXCEPT !.state = "done"]]
            /\ note[n].status \in {"sent", "failed"}
        BY <1>1, <1>4, <2>2 DEF TakeSettled, Completed, MustSend, Rows, NoteRows
      <3>2. /\ job'[n].state = "done" /\ job'[n].stalls = job[n].stalls
            /\ job'[n].tries = job[n].tries
            /\ \A m \in Notes \ {n} : job'[m] = job[m]
        BY <1>1, <3>1 DEF TypeOK, Jobs
      <3>3. Local(s, n)
        BY <1>3, <1>6, <3>2 DEF Local
      <3>4. NoteHolds(n)'
        BY <1>1, <1>3, <1>4, <3>1, <3>2 DEF NoteHolds
      <3>5. SenderHolds(s)'
        BY <1>1, <1>2, <2>1 DEF SenderHolds
      <3>6. job'[n].stalls >= job[n].stalls /\ messages'[n] >= messages[n]
        BY <1>1, <1>3, <3>2, PipelineAssumption DEF Jobs
      <3>7. PaidFor(s, n)
        BY <1>2, <1>3, <2>1, <3>1, <3>2, CountsAreNumbers DEF PaidFor, SendingOn, HandOuts, OneIf
      <3> QED
        BY <1>2, <1>3, <2>1, <3>2, <3>3, <3>4, <3>5, <3>6, <3>7, LocalKeeps
    <2>3. CASE TakeThrows(s, n)
      <3>1. job' = [job EXCEPT ![n] = FailedJob(n)]
        BY <2>3 DEF TakeThrows
      <3>2. /\ job'[n].state = IF job[n].tries + 1 >= MaxTries THEN "dead" ELSE "waiting"
            /\ job'[n].tries = job[n].tries + 1 /\ job'[n].stalls = job[n].stalls
            /\ \A m \in Notes \ {n} : job'[m] = job[m]
        BY <1>1, <3>1 DEF TypeOK, Jobs, FailedJob
      <3>3. Local(s, n)
        BY <1>3, <1>6, <3>2 DEF Local
      <3>4. NoteHolds(n)'
        BY <1>1, <1>3, <1>4, <1>5, <3>2, PipelineAssumption DEF NoteHolds, Jobs
      <3>5. SenderHolds(s)'
        BY <1>1, <1>2, <2>1 DEF SenderHolds
      <3>6. job'[n].stalls >= job[n].stalls /\ messages'[n] >= messages[n]
        BY <1>1, <1>3, <3>2, PipelineAssumption DEF Jobs
      <3>7. PaidFor(s, n)
        BY <1>2, <1>3, <2>1, <3>1, <3>2, CountsAreNumbers DEF PaidFor, SendingOn, HandOuts, OneIf
      <3> QED
        BY <1>2, <1>3, <2>1, <3>2, <3>3, <3>4, <3>5, <3>6, <3>7, LocalKeeps
    <2> QED
      BY <1>8, <2>2, <2>3
  <1> QED
    BY <1>7, <1>8

\* Telegram answers, and the sender has not yet said so.
LEMMA AnswerKeeps ==
  ASSUME TypeOK, TypeOK', Linked, NotesInOrder', NEW s \in Senders,
         SendSucceeds(s) \/ SendBlocked(s)
  PROVE  Linked'
  <1>1. PICK n \in Notes : n = sender[s].note
    BY DEF SendSucceeds, SendBlocked, Linked, SenderHolds
  <1>2. /\ NoteHolds(n) /\ SenderHolds(s) /\ job[n] \in Jobs /\ messages[n] \in Nat
        /\ sender[s] \in SenderStates /\ sender[s].pc = "sending"
    BY DEF Linked, TypeOK, SendSucceeds, SendBlocked, SenderStates
  <1>3. UNCHANGED <<note, job, worker, gate>>
    BY DEF SendSucceeds, SendBlocked, outboxVars
  <1>4. /\ sender'[s].note = n /\ sender'[s].owner = sender[s].owner
        /\ sender'[s].pc \in {"sent", "blocked"}
        /\ sender'[s].pc = "sent" => messages'[n] = messages[n] + 1
        /\ sender'[s].pc = "blocked" => messages'[n] = messages[n]
        /\ messages'[n] \in {messages[n], messages[n] + 1}
        /\ \A m \in Notes \ {n} : messages'[m] = messages[m]
        /\ \A t \in Senders \ {s} : sender'[t] = sender[t]
    <2>1. CASE SendSucceeds(s)
      BY <1>1, <1>2, <2>1 DEF SendSucceeds, TypeOK, SenderStates
    <2>2. CASE SendBlocked(s)
      BY <1>1, <1>2, <2>2 DEF SendBlocked, TypeOK, SenderStates
    <2> QED
      BY <2>1, <2>2
  <1>5. Local(s, n)
    BY <1>3, <1>4 DEF Local
  <1>6. job[n].state # "none" /\ note[n].status # "absent" /\ note[n].suppressedReason = "none"
    BY <1>1, <1>2 DEF NoteHolds, SenderHolds, NoJob
  <1>7. NoteHolds(n)'
    BY <1>2, <1>3, <1>4, <1>6 DEF NoteHolds
  <1>8. SenderHolds(s)'
    BY <1>1, <1>2, <1>3, <1>4 DEF SenderHolds
  <1>9. job'[n].stalls >= job[n].stalls /\ messages'[n] >= messages[n]
    BY <1>2, <1>3, <1>4, PipelineAssumption DEF Jobs
  <1>10. PaidFor(s, n)
    <2>1. HandOuts(n)' = HandOuts(n)
      BY <1>3 DEF HandOuts
    <2>2. messages[n] + 1 = messages'[n] + OneIf(SendingOn(s, n)') /\ SendingOn(s, n)
      BY <1>1, <1>2, <1>4 DEF SendingOn, OneIf
    <2> QED
      BY <1>1, <1>2, <1>3, <1>4, <2>1, <2>2, CountsAreNumbers DEF PaidFor, OneIf
  <1> QED
    BY <1>1, <1>3, <1>4, <1>5, <1>6, <1>7, <1>8, <1>9, <1>10, LocalKeeps

\* The sender ends, having marked the row or not, and its job is settled if it
\* is still its own.
LEMMA SettleKeeps ==
  ASSUME TypeOK, TypeOK', Linked, NotesInOrder', NEW s \in Senders, NEW b \in BOOLEAN,
         SendThrows(s, b) \/ MarkSent(s) \/ MarkFailed(s) \/ MarkThrows(s, b)
  PROVE  Linked'
  <1>1. PICK n \in Notes : n = sender[s].note
    BY DEF SendThrows, MarkSent, MarkFailed, MarkThrows, Linked, SenderHolds
  <1>2. /\ NoteHolds(n) /\ SenderHolds(s) /\ job[n] \in Jobs /\ messages[n] \in Nat
        /\ note[n] \in NoteRows /\ sender[s].pc # "idle"
    BY DEF Linked, TypeOK, SendThrows, MarkSent, MarkFailed, MarkThrows
  <1>3. UNCHANGED <<worker, gate>>
    BY DEF SendThrows, MarkSent, MarkFailed, MarkThrows, outboxVars
  <1>4. /\ job[n].state # "none" /\ note[n].status # "absent" /\ note[n].suppressedReason = "none"
        /\ note[n].status # "suppressed"
        /\ sender[s].owner => job[n].state = "active"
    BY <1>1, <1>2 DEF NoteHolds, SenderHolds, NoJob
  <1>5. /\ sender'[s].pc = "idle" /\ ~ sender'[s].owner
        /\ \A t \in Senders \ {s} : sender'[t] = sender[t]
    BY DEF SendThrows, MarkSent, MarkFailed, MarkThrows, Settle, SetSender, TypeOK
  <1>6. /\ messages'[n] \in {messages[n], messages[n] + 1}
        /\ \A m \in Notes \ {n} : messages'[m] = messages[m]
    BY <1>1, <1>2 DEF SendThrows, MarkSent, MarkFailed, MarkThrows, TypeOK
  <1>7. ASSUME NEW status \in {"sent", "failed"}, Mark(n, status)
        PROVE  /\ note'[n].suppressedReason = "none"
               /\ note'[n].status \in {status, "deleted"}
               /\ note'[n].status = "deleted" => note[n].status = "deleted"
               /\ \A m \in Notes \ {n} : note'[m] = note[m]
    <2>1. CASE n \in Rows
      <3>1. note' = [note EXCEPT ![n] = [note[n] EXCEPT !.status = status]]
        BY <1>7, <2>1 DEF Mark, TypeOK
      <3> QED
        BY <1>2, <1>4, <3>1 DEF NoteRows, TypeOK
    <2>2. CASE n \notin Rows
      BY <1>2, <1>4, <1>7, <2>2 DEF Mark, Rows, NoteRows
    <2> QED
      BY <2>1, <2>2
  <1>8. /\ note'[n].suppressedReason = "none"
        /\ \A m \in Notes \ {n} : note'[m] = note[m]
        /\ note'[n].status \notin {"absent", "suppressed"}
        /\ note'[n].status = "sent" => messages[n] > 0
        /\ note'[n].status = note[n].status \/ note'[n].status \in {"sent", "failed"}
    <2>1. CASE note' = note
      BY <1>2, <1>4, <2>1 DEF NoteHolds
    <2>2. CASE sender[s].pc = "sent" /\ Mark(n, "sent")
      <3>1. messages[n] > 0
        BY <1>1, <1>2, <2>2 DEF SenderHolds
      <3> QED
        BY <3>1, <2>2, <1>7
    <2>3. CASE Mark(n, "failed")
      BY <2>3, <1>7
    <2>4. \/ note' = note
          \/ sender[s].pc = "sent" /\ Mark(n, "sent")
          \/ Mark(n, "failed")
      BY <1>1 DEF SendThrows, MarkSent, MarkFailed, MarkThrows
    <2> QED
      BY <2>1, <2>2, <2>3, <2>4
  <1>9. \/ job' = job
        \/ sender[s].owner /\ job' = [job EXCEPT ![n] = FailedJob(n)]
        \/ /\ sender[s].owner /\ job' = [job EXCEPT ![n] = Completed(n)]
           /\ Mark(n, "sent") \/ Mark(n, "failed")
    BY <1>1 DEF SendThrows, MarkSent, MarkFailed, MarkThrows, Settle
  <1>10. /\ \A m \in Notes \ {n} : job'[m] = job[m]
         /\ job'[n].stalls = job[n].stalls
         /\ HandOuts(n)' = HandOuts(n)
         /\ \/ job'[n] = job[n]
            \/ /\ sender[s].owner /\ job'[n].tries = job[n].tries + 1
               /\ job'[n].state = IF job[n].tries + 1 >= MaxTries THEN "dead" ELSE "waiting"
            \/ /\ sender[s].owner /\ job'[n].state = "done"
               /\ note'[n].status \in {"sent", "failed", "deleted"}
    <2>1. CASE job' = job
      BY <2>1 DEF HandOuts
    <2>2. CASE sender[s].owner /\ job' = [job EXCEPT ![n] = FailedJob(n)]
      <3>1. /\ \A m \in Notes \ {n} : job'[m] = job[m]
            /\ job'[n].stalls = job[n].stalls /\ job'[n].tries = job[n].tries + 1
            /\ job'[n].state = IF job[n].tries + 1 >= MaxTries THEN "dead" ELSE "waiting"
        BY <1>2, <2>2 DEF TypeOK, FailedJob, Jobs
      <3>2. HandOuts(n)' = HandOuts(n)
        BY <1>4, <2>2, <3>1, CountsAreNumbers DEF HandOuts, OneIf
      <3> QED
        BY <2>2, <3>1, <3>2
    <2>3. CASE /\ sender[s].owner /\ job' = [job EXCEPT ![n] = Completed(n)]
               /\ Mark(n, "sent") \/ Mark(n, "failed")
      <3>1. note'[n].status \in {"sent", "failed", "deleted"}
        BY <1>7, <2>3
      <3>2. /\ job'[n].state = "done" /\ job'[n].stalls = job[n].stalls
            /\ job'[n].tries = job[n].tries
        BY <1>2, <2>3 DEF TypeOK, Completed, Jobs
      <3>3. \A m \in Notes \ {n} : job'[m] = job[m]
        BY <2>3
      <3>4. HandOuts(n)' = HandOuts(n)
        BY <1>4, <2>3, <3>2, CountsAreNumbers DEF HandOuts, OneIf
      <3> QED
        BY <2>3, <3>1, <3>2, <3>3, <3>4
    <2> QED
      BY <1>9, <2>1, <2>2, <2>3
  <1>11. Local(s, n)
    BY <1>3, <1>5, <1>6, <1>8, <1>10 DEF Local
  <1>12. messages'[n] >= messages[n] /\ job'[n].stalls >= job[n].stalls
    BY <1>2, <1>6, <1>10, PipelineAssumption DEF Jobs
  <1>13. NoteHolds(n)'
    <2>1. note'[n].status = "sent" => messages'[n] > 0
      BY <1>2, <1>8, <1>12, TypeOK' DEF TypeOK
    <2>2. job'[n].state \in {"waiting", "active"} =>
            job'[n].tries < MaxTries /\ job'[n].stalls <= MaxStalls
      BY <1>2, <1>4, <1>10, PipelineAssumption DEF NoteHolds, Jobs
    <2>3. job'[n].state = "done" => note'[n].status \in {"sent", "failed", "deleted"}
      BY <1>2, <1>8, <1>10, PipelineAssumption DEF NoteHolds
    <2>4. job'[n].state # "none"
      BY <1>4, <1>10
    <2> QED
      BY <1>8, <2>1, <2>2, <2>3, <2>4 DEF NoteHolds
  <1>14. SenderHolds(s)'
    BY <1>5 DEF SenderHolds
  <1>15. messages'[n] + OneIf(note'[n].status = "failed")
           <= messages[n] + OneIf(note[n].status = "failed") + OneIf(SendingOn(s, n))
    <2>1. CASE SendThrows(s, b)
      <3>1. note' = note /\ SendingOn(s, n)
        BY <1>1, <2>1 DEF SendThrows, SendingOn
      <3> QED
        BY <1>2, <1>6, <3>1 DEF OneIf
    <2>2. CASE MarkSent(s) \/ MarkFailed(s) \/ MarkThrows(s, b)
      <3>1. messages' = messages
        BY <2>2 DEF MarkSent, MarkFailed, MarkThrows
      <3>2. \/ note' = note
            \/ Mark(n, "sent")
            \/ sender[s].pc = "blocked" /\ Mark(n, "failed")
        BY <1>1, <2>2 DEF MarkSent, MarkFailed, MarkThrows
      <3>3. Mark(n, "sent") => note'[n].status # "failed"
        BY <1>7
      <3>4. sender[s].pc = "blocked" => SendingOn(s, n)
        BY <1>1 DEF SendingOn
      <3> QED
        BY <1>2, <3>1, <3>2, <3>3, <3>4 DEF OneIf
    <2> QED
      BY <2>1, <2>2
  <1>16. PaidFor(s, n)
    <2>1. ~ SendingOn(s, n)'
      BY <1>5 DEF SendingOn
    <2>2. OneIf(SendingOn(s, n)') = 0
      BY <2>1 DEF OneIf
    <2>3. /\ OneIf(note'[n].status = "failed") \in Nat /\ OneIf(note[n].status = "failed") \in Nat
          /\ OneIf(SendingOn(s, n)) \in Nat /\ messages'[n] \in Nat /\ HandOuts(n) \in Nat
      BY <1>2, <1>6, CountsAreNumbers DEF OneIf
    <2>4. HandOuts(n)' = HandOuts(n)
      BY <1>10
    <2> QED
      BY <1>1, <1>2, <1>5, <1>15, <2>2, <2>3, <2>4 DEF PaidFor
  <1> QED
    BY <1>1, <1>2, <1>4, <1>5, <1>10, <1>11, <1>12, <1>13, <1>14, <1>16, LocalKeeps

\* A stall takes the job away from a sender that may go on all the same.
LEMMA StallKeeps ==
  ASSUME TypeOK, TypeOK', Linked, NotesInOrder', NEW s \in Senders, NEW b \in BOOLEAN, Stall(s, b)
  PROVE  Linked'
  <1>1. PICK n \in Notes : n = sender[s].note
    BY DEF Stall, Linked, SenderHolds
  <1>2. /\ NoteHolds(n) /\ SenderHolds(s) /\ job[n] \in Jobs /\ messages[n] \in Nat
        /\ sender[s] \in SenderStates /\ sender[s].pc # "idle" /\ sender[s].owner
    BY DEF Linked, TypeOK, Stall, SenderStates
  <1>3. UNCHANGED <<note, messages, worker, gate>>
    BY DEF Stall, outboxVars
  <1>4. /\ job[n].state = "active" /\ note[n].status # "absent"
        /\ note[n].suppressedReason = "none"
        /\ job[n].tries < MaxTries /\ job[n].stalls <= MaxStalls
    BY <1>1, <1>2 DEF NoteHolds, SenderHolds, NoJob
  <1>5. job' = [job EXCEPT ![n] = [job[n] EXCEPT !.stalls = @ + 1,
                  !.state = IF job[n].stalls < MaxStalls THEN "waiting" ELSE "dead"]]
    BY <1>1 DEF Stall, TypeOK
  <1>6. /\ job'[n].stalls = job[n].stalls + 1 /\ job'[n].tries = job[n].tries
        /\ job'[n].state = IF job[n].stalls < MaxStalls THEN "waiting" ELSE "dead"
        /\ \A m \in Notes \ {n} : job'[m] = job[m]
    BY <1>2, <1>5 DEF TypeOK, Jobs
  <1>7. /\ ~ sender'[s].owner
        /\ \/ sender'[s].pc = "idle"
           \/ sender'[s].pc = sender[s].pc /\ sender'[s].note = n
        /\ \A t \in Senders \ {s} : sender'[t] = sender[t]
    BY <1>1, <1>2 DEF Stall, SetSender, TypeOK, SenderStates
  <1>8. job[n].stalls \in Nat
    BY <1>2, PipelineAssumption DEF Jobs
  <1>9. Local(s, n)
    BY <1>3, <1>6, <1>7 DEF Local
  <1>10. NoteHolds(n)'
    BY <1>2, <1>3, <1>4, <1>6, <1>8, PipelineAssumption DEF NoteHolds
  <1>11. SenderHolds(s)'
    <2>1. job'[n].stalls > 0 /\ job'[n].state # "none"
      BY <1>6, <1>8
    <2> QED
      BY <1>1, <1>2, <1>3, <1>7, <2>1 DEF SenderHolds
  <1>12. messages'[n] >= messages[n] /\ job'[n].stalls >= job[n].stalls
    BY <1>2, <1>3, <1>6, <1>8
  <1>13. PaidFor(s, n)
    <2>1. HandOuts(n)' = HandOuts(n)
      BY <1>4, <1>6, <1>8, CountsAreNumbers DEF HandOuts, OneIf
    <2>2. SendingOn(s, n)' => SendingOn(s, n)
      BY <1>1, <1>7 DEF SendingOn
    <2>3. OneIf(SendingOn(s, n)') <= OneIf(SendingOn(s, n))
          /\ OneIf(SendingOn(s, n)) \in Nat /\ OneIf(SendingOn(s, n)') \in Nat
          /\ OneIf(note[n].status = "failed") \in Nat
      BY <2>2 DEF OneIf
    <2> QED
      BY <1>1, <1>2, <1>3, <1>7, <2>1, <2>3, CountsAreNumbers DEF PaidFor
  <1> QED
    BY <1>1, <1>2, <1>3, <1>4, <1>6, <1>7, <1>9, <1>10, <1>11, <1>12, <1>13, LocalKeeps

\* Whatever happens, rows, jobs, senders and gates stay linked.
LEMMA LinkedStep ==
  ASSUME TypeOK, OInv, Linked, [Next]_vars
  PROVE  Linked'
  <1>1. TypeOK' /\ NoteStep
    BY PipelineTypes
  <1>2. NotesInOrder'
    BY <1>1, RowStep DEF Linked
  <1>3. CASE UNCHANGED vars
    BY <1>3, QuietKeeps DEF vars, pipelineVars
  <1>4. CASE UserNext
    <2>1. CASE PurgeNotifications
      BY <1>1, <1>2, <2>1, PurgeKeeps
    <2>2. CASE TogglePreference \/ DeleteUser
      BY <2>2, QuietKeeps DEF TogglePreference, DeleteUser, deliveryVars
    <2> QED
      BY <1>4, <2>1, <2>2 DEF UserNext
  <1>5. CASE SenderNext
    BY <1>1, <1>2, <1>5, TakeKeeps, AnswerKeeps, SettleKeeps, StallKeeps DEF SenderNext
  <1>6. CASE DispatcherNext
    <2>1. ASSUME NEW w \in Workers, GateMuted(w) \/ GateDuplicate(w) \/ GateCreate(w)
          PROVE  Linked'
      <3>1. \E reason \in Reasons : CreateNote(w, reason[1], reason[2])
        <4>1. \/ CreateNote(w, "suppressed", "preference_disabled")
              \/ CreateNote(w, "suppressed", "dedup")
              \/ CreateNote(w, "queued", "none")
          BY <2>1 DEF GateMuted, GateDuplicate, GateCreate, RecordSuppressed
        <4>2. /\ <<"suppressed", "preference_disabled">> \in Reasons
              /\ <<"suppressed", "dedup">> \in Reasons /\ <<"queued", "none">> \in Reasons
          BY DEF Reasons
        <4> QED
          BY <4>1, <4>2
      <3> QED
        BY <1>1, <1>2, <2>1, <3>1, CreateKeeps
    <2>2. ASSUME NEW w \in Workers, GateEnqueue(w) \/ GateEnqueueUnanswered(w)
          PROVE  Linked'
      BY <1>1, <2>2, EnqueueKeeps
    <2>3. ASSUME NEW w \in Workers,
                 \/ Dispatch(w) \/ GateUserGone(w) \/ GateEnabled(w) \/ GateClear(w)
                 \/ GateThrows(w)
          PROVE  Linked'
      <3>1. UNCHANGED <<note, job, sender, messages>>
        BY <2>3 DEF Dispatch, GateUserGone, GateEnabled, GateClear, GateThrows, pipelineVars,
                    deliveryVars
      <3> QED
        BY <3>1, QuietKeeps
    <2>4. ASSUME NEW e \in Events, NEW t \in 1..Cardinality(Events), NEW s \in Subjects,
                 RecordAbout(e, t, s)
          PROVE  Linked'
      BY <2>4, QuietKeeps DEF RecordAbout, deliveryVars
    <2>5. ASSUME NEW w \in Workers, NEW e \in Events, ClaimForDelivery(w, e)
          PROVE  Linked'
      BY <2>5, QuietKeeps DEF ClaimForDelivery, deliveryVars
    <2> QED
      BY <1>6, <2>1, <2>2, <2>3, <2>4, <2>5 DEF DispatcherNext
  <1> QED
    BY <1>3, <1>4, <1>5, <1>6 DEF Next

LEMMA InitLinked == Init => TypeOK /\ OInv /\ Linked
  <1> SUFFICES ASSUME Init PROVE TypeOK /\ OInv /\ Linked
    OBVIOUS
  <1>1. OInv
    BY PipelineStartsTheOutbox, InitOInv
  <1>2. PICK e \in Events : note = [n \in Notes |-> [status |-> "absent", event |-> e,
                                                    suppressedReason |-> "none"]]
    BY DEF Init
  <1>3. TypeOK
    <2>1. 0 \in 0..MaxNotes /\ 0 \in 0..MaxTries /\ 0 \in 0..(MaxStalls + 1)
      BY PipelineAssumption
    <2>2. note \in [Notes -> NoteRows]
      BY <1>2 DEF NoteRows
    <2>3. job \in [Notes -> Jobs]
      BY <2>1 DEF Init, Jobs
    <2>4. /\ gate \in [Workers -> [step : {"start", "dedup", "create", "enqueue"},
                                   note : 0..MaxNotes]]
          /\ sender \in [Senders -> [pc : {"idle", "sending", "sent", "blocked"},
                                     note : 0..MaxNotes, owner : BOOLEAN]]
      BY <2>1 DEF Init
    <2> QED
      BY <1>1, <2>2, <2>3, <2>4 DEF Init, TypeOK, OInv
  <1>4. NotesInOrder
    BY <1>2, PipelineAssumption DEF NotesInOrder, Notes
  <1>5. \A n \in Notes : NoteHolds(n)
    BY <1>2 DEF Init, NoteHolds, NoJob
  <1>6. /\ \A s \in Senders : SenderHolds(s)
        /\ OneOwner
    BY DEF Init, SenderHolds, OneOwner
  <1>7. /\ \A w \in Workers : GateHolds(w)
        /\ GatesApart
    BY DEF Init, GateHolds, GatesApart, At
  <1>8. \A n \in Notes : SendsCounted(n)
    <2> SUFFICES ASSUME NEW n \in Notes PROVE SendsCounted(n)
      OBVIOUS
    <2>1. Sendings(n) = {}
      BY DEF Init, Sendings, SendingOn
    <2>2. messages[n] = 0 /\ note[n].status # "failed" /\ HandOuts(n) = 0
      BY <1>2 DEF Init, HandOuts, OneIf
    <2> QED
      BY <2>1, <2>2, FS_EmptySet DEF SendsCounted, OneIf
  <1> QED
    BY <1>1, <1>3, <1>4, <1>5, <1>6, <1>7, <1>8 DEF Linked

\* The rows, the jobs, the senders and the gates are linked in every state.
THEOREM StaysLinked == Spec => [](TypeOK /\ OInv /\ Linked)
  <1>1. TypeOK /\ OInv /\ Linked /\ [Next]_vars => (TypeOK /\ OInv /\ Linked)'
    BY PipelineTypes, LinkedStep
  <1> QED
    BY InitLinked, <1>1, PTL DEF Spec

\* The tables, the queue and the processes keep their types.
THEOREM PipelineTypeCorrect == Spec => []TypeOK
  BY StaysLinked, PTL

\* What has ended is being sent or marked again only after its job stalled.
THEOREM EndedStaysAlone == Spec => []EndedIsLeftAlone
  <1>1. Linked => EndedIsLeftAlone
    BY DEF Linked, SenderHolds, EndedIsLeftAlone
  <1> QED
    BY <1>1, StaysLinked, PTL

\* Every message but the first takes a failure or a stall of its job.
THEOREM MessagesStayCounted == Spec => []SentOncePerHandOut
  <1>1. TypeOK /\ Linked => SentOncePerHandOut
    <2> SUFFICES ASSUME TypeOK, Linked, NEW n \in Notes
                 PROVE  messages[n] <= job[n].tries + job[n].stalls
                                         + (IF note[n].status = "failed" THEN 0 ELSE 1)
      BY DEF SentOncePerHandOut
    <2>1. /\ Cardinality(Sendings(n)) \in Nat
          /\ messages[n] + Cardinality(Sendings(n)) + OneIf(note[n].status = "failed") <= HandOuts(n)
      BY FS_CardinalityType DEF Linked, SendsCounted
    <2> QED
      BY <2>1, CountsAreNumbers DEF HandOuts, OneIf
  <1> QED
    BY <1>1, StaysLinked, PTL

\* A suppressed notification has no job and no message, a done job has a final
\* status, what is marked sent was delivered, every further message takes a
\* failure or a stall, and what has ended is changed only after a stall.
THEOREM DeliveryStaysRecorded == Spec => []DeliveryAsRecorded
  <1>1. Linked =>
          \A n \in Notes :
            /\ note[n].status = "absent" \/ note[n].suppressedReason # "none" =>
                 job[n].state = "none" /\ messages[n] = 0
            /\ job[n].state = "done" => note[n].status \in {"sent", "failed", "deleted"}
            /\ note[n].status = "sent" => messages[n] > 0
    BY DEF Linked, NoteHolds, NoJob
  <1>2. Linked /\ SentOncePerHandOut /\ EndedIsLeftAlone => DeliveryAsRecorded
    BY <1>1 DEF DeliveryAsRecorded
  <1> QED
    BY <1>2, StaysLinked, MessagesStayCounted, EndedStaysAlone, PTL

-----------------------------------------------------------------------------
(* What a dispatched event rests on.                                       *)

\* The outbox never forgets an event, a failure or a loss.
LEMMA OutboxRemembers ==
  ASSUME TypeOK, [Next]_vars
  PROVE  /\ \A e \in Events : event[e].status # "absent" => event'[e].status # "absent"
         /\ \A e \in Events : thrown'[e] \in Nat /\ thrown'[e] >= thrown[e]
         /\ lost' \in Nat /\ lost' >= lost
  <1>1. [OutboxNext]_outboxVars
    BY PipelineStepsTheOutbox
  <1>2. /\ event \in [Events -> EventRows] /\ thrown \in [Events -> Nat] /\ lost \in Nat
        /\ worker \in [Workers -> WorkerStates]
    BY DEF TypeOK, OutboxTypeOK
  <1>3. ASSUME NEW e \in Events, NEW t \in 1..Cardinality(Events), Record(e, t)
        PROVE  /\ \A f \in Events : event[f].status # "absent" => event'[f].status # "absent"
               /\ thrown' = thrown /\ lost' = lost
    BY <1>2, <1>3 DEF Record
  <1>4. ASSUME NEW w \in Workers, CommitDecision(w)
        PROVE  /\ \A f \in Events : event[f].status # "absent" => event'[f].status # "absent"
               /\ thrown' = thrown /\ lost' = lost
    <2>1. StatusFor(worker[w].decision) # "absent"
      BY DEF StatusFor
    <2> QED
      BY <1>2, <1>4, <2>1 DEF CommitDecision, EventRows
  <1>5. ASSUME NEW w \in Workers,
               \/ Poll(w) \/ (\E e \in Events : Claim(w, e)) \/ BatchEnds(w) \/ CommitRefused(w)
               \/ HandlerReturns(w)
        PROVE  event' = event /\ thrown' = thrown /\ lost' = lost
    BY <1>5 DEF Poll, Claim, BatchEnds, CommitRefused, HandlerReturns
  <1>6. ASSUME NEW w \in Workers, HandlerThrows(w)
        PROVE  /\ event' = event /\ lost' = lost
               /\ \A e \in Events : thrown'[e] \in Nat /\ thrown'[e] >= thrown[e]
    BY <1>2, <1>6 DEF HandlerThrows
  <1>7. ASSUME NEW w \in Workers, ClaimExpires(w) \/ Crash(w)
        PROVE  event' = event /\ thrown' = thrown /\ lost' = lost + 1
    BY <1>7 DEF ClaimExpires, Crash
  <1>8. CASE UNCHANGED outboxVars
    BY <1>2, <1>8 DEF outboxVars
  <1>9. CASE OutboxNext
    <2>1. CASE \E e \in Events, t \in 1..Cardinality(Events) : Record(e, t)
      BY <1>2, <1>3, <2>1
    <2>2. ASSUME NEW w \in Workers, WorkerStep(w) \/ ClaimExpires(w) \/ Crash(w)
          PROVE  /\ \A f \in Events : event[f].status # "absent" => event'[f].status # "absent"
                 /\ \A f \in Events : thrown'[f] \in Nat /\ thrown'[f] >= thrown[f]
                 /\ lost' \in Nat /\ lost' >= lost
      <3>1. \/ Poll(w) \/ (\E e \in Events : Claim(w, e)) \/ BatchEnds(w) \/ CommitRefused(w)
            \/ HandlerReturns(w) \/ HandlerThrows(w) \/ CommitDecision(w)
            \/ ClaimExpires(w) \/ Crash(w)
        BY <2>2 DEF WorkerStep
      <3> QED
        BY <3>1, <1>2, <1>4, <1>5, <1>6, <1>7
    <2> QED
      BY <1>9, <2>1, <2>2 DEF OutboxNext
  <1> QED
    BY <1>1, <1>8, <1>9

\* The subject of a recorded event stays, and a user who is there was there.
LEMMA SubjectsStay ==
  ASSUME TypeOK, [Next]_vars
  PROVE  /\ \A e \in Events : event[e].status # "absent" => about'[e] = about[e]
         /\ user' = "present" => user = "present" /\ ~ PurgeNotifications
  <1>1. CASE UNCHANGED vars
    BY <1>1 DEF vars, pipelineVars, PurgeNotifications
  <1>2. ASSUME NEW e \in Events, NEW t \in 1..Cardinality(Events), NEW s \in Subjects,
               RecordAbout(e, t, s)
        PROVE  /\ \A f \in Events : event[f].status # "absent" => about'[f] = about[f]
               /\ user' = user
    BY <1>2 DEF RecordAbout, Record, TypeOK
  <1>3. ASSUME NEW w \in Workers,
               \/ \E e \in Events : ClaimForDelivery(w, e)
               \/ Dispatch(w)
               \/ GateUserGone(w) \/ GateMuted(w) \/ GateEnabled(w) \/ GateDuplicate(w)
               \/ GateClear(w) \/ GateCreate(w) \/ GateEnqueue(w) \/ GateThrows(w)
               \/ GateEnqueueUnanswered(w)
        PROVE  about' = about /\ user' = user
    BY <1>3 DEF ClaimForDelivery, Dispatch, GateUserGone, GateMuted, GateEnabled, GateDuplicate,
                GateClear, GateCreate, GateEnqueue, GateThrows, GateEnqueueUnanswered, pipelineVars
  <1>4. CASE UserNext
    BY <1>4 DEF UserNext, TogglePreference, PurgeNotifications, DeleteUser
  <1>5. CASE SenderNext
    <2>1. about' = about /\ user' = user
      BY <1>5 DEF SenderNext, TakeToSend, TakeSettled, TakeThrows, SendSucceeds, SendBlocked,
                  SendThrows, MarkSent, MarkFailed, MarkThrows, Stall
    <2> QED
      BY <2>1 DEF PurgeNotifications
  <1>6. user' = "present" => ~ PurgeNotifications
    BY DEF PurgeNotifications
  <1> QED
    BY <1>1, <1>2, <1>3, <1>4, <1>5, <1>6 DEF Next, DispatcherNext

\* Nothing is worked on or written about that was not recorded.
LEMMA RecordedStep ==
  ASSUME TypeOK, OInv, Linked, Recorded, [Next]_vars
  PROVE  Recorded'
  <1>1. \A e \in Events : event[e].status # "absent" => event'[e].status # "absent"
    BY OutboxRemembers
  <1>2. /\ worker \in [Workers -> WorkerStates] /\ worker' \in [Workers -> WorkerStates]
        /\ note \in [Notes -> NoteRows]
    BY PipelineTypes DEF TypeOK, OutboxTypeOK
  <1>3. ASSUME NEW v \in Workers, worker'[v].pc \in {"handling", "deciding"}
        PROVE  event'[worker'[v].event].status # "absent"
    <2>1. CASE worker'[v] = worker[v]
      BY <1>1, <1>2, <1>3, <2>1 DEF Recorded, WorkerStates
    <2>2. ASSUME NEW w \in Workers, NEW e \in Events, Claim(w, e), v = w
          PROVE  event'[worker'[v].event].status # "absent"
      <3>1. worker'[v].event = e /\ event' = event /\ event[e].status = "pending"
        BY <1>2, <2>2 DEF Claim, Claimable, WorkerStates
      <3> QED
        BY <3>1
    <2>3. ASSUME NEW w \in Workers, v = w,
                 \/ Poll(w) \/ BatchEnds(w) \/ CommitRefused(w) \/ CommitDecision(w) \/ Crash(w)
          PROVE  FALSE
      BY <1>2, <1>3, <2>3
      DEF Poll, BatchEnds, CommitRefused, CommitDecision, Crash, WorkerStates
    <2>4. ASSUME NEW w \in Workers, v = w, HandlerReturns(w) \/ HandlerThrows(w) \/ ClaimExpires(w)
          PROVE  event'[worker'[v].event].status # "absent"
      <3>1. worker'[v].event = worker[v].event /\ worker[v].event \in Events
            /\ worker[v].pc \in {"handling", "deciding"}
        BY <1>2, <2>4 DEF HandlerReturns, HandlerThrows, ClaimExpires, WorkerStates
      <3> QED
        BY <3>1, <1>1 DEF Recorded
    <2>5. [OutboxNext]_outboxVars
      BY PipelineStepsTheOutbox
    <2>6. \/ worker'[v] = worker[v]
          \/ \E e \in Events : Claim(v, e)
          \/ Poll(v) \/ BatchEnds(v) \/ CommitRefused(v) \/ CommitDecision(v) \/ Crash(v)
          \/ HandlerReturns(v) \/ HandlerThrows(v) \/ ClaimExpires(v)
      <3>1. ASSUME NEW w \in Workers, v # w,
                   \/ \E e \in Events : Claim(w, e)
                   \/ Poll(w) \/ BatchEnds(w) \/ CommitRefused(w) \/ CommitDecision(w) \/ Crash(w)
                   \/ HandlerReturns(w) \/ HandlerThrows(w) \/ ClaimExpires(w)
            PROVE  worker'[v] = worker[v]
        BY <1>2, <3>1 DEF Poll, Claim, BatchEnds, CommitRefused, CommitDecision, Crash,
                          HandlerReturns, HandlerThrows, ClaimExpires
      <3> QED
        BY <2>5, <3>1 DEF OutboxNext, WorkerStep, Record, outboxVars
    <2> QED
      BY <2>1, <2>2, <2>3, <2>4, <2>6
  <1>4. ASSUME NEW n \in Notes, note'[n].status # "absent"
        PROVE  event'[note'[n].event].status # "absent"
    <2>1. NoteMoves(n)
      BY PipelineTypes, RowStep DEF Linked
    <2>2. CASE note[n].status # "absent" /\ note'[n].event = note[n].event
      BY <1>1, <1>2, <2>2 DEF Recorded, NoteRows
    <2>3. ASSUME NEW w \in Workers, worker[w].pc = "handling", note'[n].event = worker[w].event
          PROVE  event'[note'[n].event].status # "absent"
      BY <1>1, <1>2, <2>3 DEF Recorded, WorkerStates
    <2>4. \/ note[n].status # "absent" /\ note'[n].event = note[n].event
          \/ \E w \in Workers : worker[w].pc = "handling" /\ note'[n].event = worker[w].event
      <3>1. CASE note'[n] = note[n]
        BY <1>4, <3>1
      <3>2. CASE \E w \in Workers, reason \in Reasons :
                   /\ GateWrites(w, reason)
                   /\ note'[n] = [status |-> reason[1], event |-> worker[w].event,
                                 suppressedReason |-> reason[2]]
        BY <3>2 DEF GateWrites
      <3>3. CASE n \in Rows /\ \E status \in {"sent", "failed", "deleted"} :
                                note'[n] = [note[n] EXCEPT !.status = status]
        BY <1>2, <3>3 DEF NoteRows, Rows
      <3> QED
        BY <2>1, <3>1, <3>2, <3>3 DEF NoteMoves
    <2> QED
      BY <2>2, <2>3, <2>4
  <1> QED
    BY <1>3, <1>4 DEF Recorded

\* A gate leaves its row with a job, a failure counted, or a claim lost.
LEMMA GateLeaves ==
  ASSUME TypeOK, Linked, [Next]_vars, NEW w \in Workers, At(w, "enqueue")
  PROVE  \/ At(w, "enqueue")' /\ gate'[w] = gate[w]
         \/ job'[gate[w].note].state # "none"
         \/ thrown'[worker[w].event] > 0
         \/ lost' > 0
  <1>1. /\ worker \in [Workers -> WorkerStates] /\ thrown \in [Events -> Nat] /\ lost \in Nat
        /\ worker[w] \in WorkerStates
    BY DEF TypeOK, OutboxTypeOK
  <1>2. worker[w].pc = "handling" /\ gate[w].step = "enqueue" /\ gate[w].note \in Notes
    BY DEF At, Linked, GateHolds
  <1>3. CASE worker'[w] = worker[w] /\ gate'[w] = gate[w]
    BY <1>3 DEF At
  <1>4. ASSUME NEW v \in Workers,
               \/ \E e \in Events : ClaimForDelivery(v, e)
               \/ Dispatch(v)
               \/ GateUserGone(v) \/ GateMuted(v) \/ GateEnabled(v) \/ GateDuplicate(v)
               \/ GateClear(v) \/ GateCreate(v) \/ GateEnqueue(v) \/ GateThrows(v)
               \/ GateEnqueueUnanswered(v),
               v # w
        PROVE  worker'[w] = worker[w] /\ gate'[w] = gate[w]
    <2>1. gate'[w] = gate[w]
      BY <1>4 DEF ClaimForDelivery, Dispatch, GateUserGone, GateMuted, GateEnabled, GateDuplicate,
         GateClear, GateCreate, GateEnqueue, GateThrows, GateEnqueueUnanswered, RecordSuppressed,
         pipelineVars, TypeOK
    <2>2. \/ worker' = worker
          \/ \E e \in Events : Claim(v, e)
          \/ Poll(v) \/ BatchEnds(v) \/ CommitDecision(v) \/ CommitRefused(v) \/ ClaimExpires(v)
          \/ Crash(v) \/ HandlerReturns(v) \/ HandlerThrows(v)
      BY <1>4 DEF ClaimForDelivery, Dispatch, GateUserGone, GateMuted, GateEnabled, GateDuplicate,
         GateClear, GateCreate, GateEnqueue, GateThrows, GateEnqueueUnanswered, RecordSuppressed,
         outboxVars
    <2>3. worker'[w] = worker[w]
      BY <1>1, <1>4, <2>2 DEF Claim, Poll, BatchEnds, CommitDecision, CommitRefused, ClaimExpires,
         Crash, HandlerReturns, HandlerThrows
    <2> QED
      BY <2>1, <2>3
  <1>5. CASE GateEnqueue(w) \/ GateEnqueueUnanswered(w)
    <2>1. job'[gate[w].note].state = "waiting"
      BY <1>2, <1>5 DEF GateEnqueue, GateEnqueueUnanswered, Enqueue, TypeOK, Jobs
    <2> QED
      BY <2>1
  <1>6. CASE GateThrows(w)
    <2>1. thrown'[worker[w].event] = thrown[worker[w].event] + 1 /\ worker[w].event \in Events
      BY <1>1, <1>6 DEF GateThrows, HandlerThrows, WorkerStates
    <2>2. thrown[worker[w].event] \in Nat
      BY <1>1, <2>1
    <2> QED
      BY <2>1, <2>2
  <1>7. CASE Dispatch(w)
    <2>1. ClaimExpires(w) \/ Crash(w)
      BY <1>2, <1>7 DEF Dispatch, Poll, BatchEnds, CommitDecision, CommitRefused
    <2>2. lost' = lost + 1
      BY <2>1 DEF ClaimExpires, Crash
    <2> QED
      BY <1>1, <2>2
  <1>8. ~ (\/ \E e \in Events : ClaimForDelivery(w, e)
           \/ GateUserGone(w) \/ GateMuted(w) \/ GateEnabled(w) \/ GateDuplicate(w)
           \/ GateClear(w) \/ GateCreate(w))
    BY <1>2 DEF ClaimForDelivery, Claim, GateUserGone, GateMuted, GateEnabled, GateDuplicate,
                GateClear, GateCreate, At
  <1>9. CASE UNCHANGED vars \/ UserNext \/ SenderNext
    <2>1. UNCHANGED <<worker, gate>>
      BY <1>9 DEF vars, outboxVars, pipelineVars, UserNext, TogglePreference, PurgeNotifications,
         DeleteUser, SenderNext, TakeToSend, TakeSettled, TakeThrows, SendSucceeds, SendBlocked,
         SendThrows, MarkSent, MarkFailed, MarkThrows, Stall
    <2> QED
      BY <1>3, <2>1
  <1>10. CASE \E e \in Events, t \in 1..Cardinality(Events), s \in Subjects : RecordAbout(e, t, s)
    <2>1. UNCHANGED <<worker, gate>>
      BY <1>10 DEF RecordAbout, Record
    <2> QED
      BY <1>3, <2>1
  <1> QED
    BY <1>3, <1>4, <1>5, <1>6, <1>7, <1>8, <1>9, <1>10 DEF Next, DispatcherNext

\* While the user is there, rows stay and keep what they are about.
LEMMA RowsStay ==
  ASSUME TypeOK, OInv, Linked, Accounts, [Next]_vars, user' = "present"
  PROVE  /\ user = "present"
         /\ \A n \in Notes :
              /\ note'[n].status # "deleted"
              /\ n \in Rows =>
                   /\ note'[n].event = note[n].event
                   /\ note'[n].suppressedReason = note[n].suppressedReason
                   /\ n \in Rows'
  <1>1. user = "present" /\ ~ PurgeNotifications
    BY SubjectsStay
  <1>2. SUFFICES ASSUME NEW n \in Notes
                 PROVE  /\ note'[n].status # "deleted"
                        /\ n \in Rows =>
                             /\ note'[n].event = note[n].event
                             /\ note'[n].suppressedReason = note[n].suppressedReason
                             /\ note'[n].status # "absent"
    BY <1>1 DEF Rows
  <1>3. NoteMoves(n) /\ note[n] \in NoteRows /\ note[n].status # "deleted"
    BY <1>1, PipelineTypes, RowStep DEF Linked, TypeOK, Accounts
  <1>4. CASE note'[n] = note[n]
    BY <1>3, <1>4 DEF Rows
  <1>5. ASSUME note[n].status = "absent", NEW w \in Workers, NEW reason \in Reasons,
               note'[n] = [status |-> reason[1], event |-> worker[w].event,
                           suppressedReason |-> reason[2]]
        PROVE  note'[n].status # "deleted" /\ n \notin Rows
    BY <1>5 DEF Reasons, Rows
  <1>6. ASSUME NEW status \in {"sent", "failed"}, note'[n] = [note[n] EXCEPT !.status = status]
        PROVE  /\ note'[n].status = status
               /\ note'[n].event = note[n].event
               /\ note'[n].suppressedReason = note[n].suppressedReason
    BY <1>3, <1>6 DEF NoteRows
  <1> QED
    BY <1>1, <1>3, <1>4, <1>5, <1>6 DEF NoteMoves

\* What is accounted for, and was recorded, stays so.
LEMMA AccountedStays ==
  ASSUME TypeOK, OInv, Linked, Accounts, [Next]_vars, user' = "present",
         NEW e \in Events, event[e].status # "absent", Accounted(e)
  PROVE  Accounted(e)'
  <1>1. PICK n \in Rows : note[n].suppressedReason = "none" /\ about[note[n].event] = about[e]
    BY DEF Accounted
  <1>2. n \in Notes /\ note[n].event \in Events /\ note[n].status # "absent"
    BY DEF Rows, TypeOK, NoteRows
  <1>3. event[note[n].event].status # "absent"
    BY <1>2 DEF Accounts, Recorded
  <1>4. about'[note[n].event] = about[note[n].event] /\ about'[e] = about[e]
    BY <1>2, <1>3, SubjectsStay
  <1>5. /\ n \in Rows' /\ note'[n].event = note[n].event
        /\ note'[n].suppressedReason = note[n].suppressedReason
    BY <1>2, RowsStay
  <1> QED
    BY <1>1, <1>4, <1>5 DEF Accounted

\* A user who is wanted to hear was so before.
LEMMA WantedBefore ==
  ASSUME TypeOK, OInv, Linked, Accounts, [Next]_vars, Wanted'
  PROVE  Wanted
  <1>1. user' = "present"
    BY DEF Wanted
  <1>2. user = "present"
    BY <1>1, RowsStay
  <1>3. ASSUME NEW n \in Notes
        PROVE  note[n].suppressedReason # "preference_disabled"
    <2>1. CASE note[n].status = "absent"
      BY <2>1 DEF Accounts
    <2>2. CASE note[n].status # "absent"
      <3>1. n \in Rows
        BY <1>2, <2>2 DEF Rows, Accounts
      <3> QED
        BY <1>1, <3>1, RowsStay DEF Wanted
    <2> QED
      BY <2>1, <2>2
  <1> QED
    BY <1>2, <1>3 DEF Wanted

\* A row that is to be delivered is on its way, or it is known why not.
LEMMA RowAccountedStep ==
  ASSUME TypeOK, OInv, Linked, Accounts, [Next]_vars, NEW n \in Notes,
         note'[n].status # "absent", note'[n].suppressedReason = "none"
  PROVE  RowAccounted(n)'
  <1>1. NoteMoves(n) /\ note[n] \in NoteRows
    BY PipelineTypes, RowStep DEF Linked, TypeOK
  <1>2. CASE /\ note[n].status # "absent" /\ note[n].suppressedReason = "none"
             /\ note'[n].event = note[n].event
    <2>1. RowAccounted(n) /\ note[n].event \in Events
      BY <1>1, <1>2 DEF Accounts, NoteRows
    <2>2. /\ thrown[note[n].event] \in Nat /\ lost \in Nat
          /\ thrown'[note[n].event] \in Nat /\ lost' \in Nat
          /\ thrown'[note[n].event] >= thrown[note[n].event] /\ lost' >= lost
      BY <2>1, OutboxRemembers DEF TypeOK, OutboxTypeOK
    <2>3. CASE job[n].state # "none"
      BY <2>3, JobTypes DEF RowAccounted, HandedOver
    <2>4. CASE thrown[note[n].event] + lost > 0
      BY <1>2, <2>2, <2>4 DEF RowAccounted
    <2>5. ASSUME NEW w \in Workers, At(w, "enqueue"), gate[w].note = n
          PROVE  RowAccounted(n)'
      <3>1. note[n].event = worker[w].event
        BY <2>5 DEF Linked, GateHolds
      <3>2. \/ At(w, "enqueue")' /\ gate'[w] = gate[w]
            \/ job'[n].state # "none"
            \/ thrown'[note[n].event] > 0
            \/ lost' > 0
        BY <2>5, <3>1, GateLeaves
      <3>3. CASE (At(w, "enqueue")' /\ gate'[w] = gate[w]) \/ job'[n].state # "none"
        BY <2>5, <3>3 DEF RowAccounted, HandedOver
      <3>4. CASE thrown'[note[n].event] > 0 \/ lost' > 0
        <4>1. thrown'[note'[n].event] + lost' > 0
          BY <1>2, <2>2, <3>4
        <4> QED
          BY <4>1 DEF RowAccounted
      <3> QED
        BY <3>2, <3>3, <3>4
    <2> QED
      BY <2>1, <2>3, <2>4, <2>5 DEF RowAccounted, HandedOver
  <1>3. ASSUME NEW w \in Workers, GateCreate(w), n = NextNote
        PROVE  RowAccounted(n)'
    <2>1. At(w, "enqueue")' /\ gate'[w].note = n
      BY <1>3 DEF GateCreate, At, TypeOK, outboxVars
    <2> QED
      BY <2>1 DEF RowAccounted, HandedOver
  <1>4. \/ /\ note[n].status # "absent" /\ note[n].suppressedReason = "none"
           /\ note'[n].event = note[n].event
        \/ \E w \in Workers : GateCreate(w) /\ n = NextNote
    <2>1. CASE note'[n] = note[n]
      BY <2>1
    <2>2. ASSUME n = NextNote, NEW w \in Workers, NEW reason \in Reasons, GateWrites(w, reason),
                 note'[n] = [status |-> reason[1], event |-> worker[w].event,
                             suppressedReason |-> reason[2]]
          PROVE  GateCreate(w)
      <3>1. reason[2] = "none"
        BY <2>2
      <3> QED
        BY <2>2, <3>1 DEF GateWrites
    <2>3. CASE n \in Rows /\ \E status \in {"sent", "failed", "deleted"} :
                 note'[n] = [note[n] EXCEPT !.status = status]
      BY <1>1, <2>3 DEF NoteRows, Rows
    <2> QED
      BY <1>1, <2>1, <2>2, <2>3 DEF NoteMoves
  <1> QED
    BY <1>2, <1>3, <1>4

\* A duplicate rests on the row it duplicates, whatever that one rests on.
LEMMA DuplicateIsAccounted ==
  ASSUME TypeOK, Accounts, Wanted, NEW w \in Workers, GateDuplicate(w)
  PROVE  Accounted(worker[w].event)
  <1>1. PICK m \in Rows : about[note[m].event] = about[worker[w].event]
    BY DEF GateDuplicate, RecentlyNotified
  <1>2. Accounted(note[m].event)
    BY DEF Accounts
  <1> QED
    BY <1>1, <1>2 DEF Accounted

\* Every row of a wanted user is accounted for, the new one included.
LEMMA NewRowAccounted ==
  ASSUME TypeOK, OInv, Linked, Accounts, [Next]_vars, Wanted', NEW n \in Rows'
  PROVE  Accounted(note[n].event)'
  <1>1. user' = "present" /\ Wanted /\ n \in Notes /\ note'[n].status \notin {"absent", "deleted"}
    BY WantedBefore DEF Wanted, Rows
  <1>2. NoteMoves(n) /\ note[n] \in NoteRows
    BY <1>1, PipelineTypes, RowStep DEF Linked, TypeOK
  <1>3. CASE n \in Rows
    <2>1. /\ Accounted(note[n].event) /\ note[n].event \in Events
          /\ event[note[n].event].status # "absent"
      BY <1>1, <1>2, <1>3 DEF Accounts, Recorded, NoteRows, Rows
    <2>2. PICK e \in Events : e = note[n].event
      BY <2>1
    <2>3. Accounted(e)'
      BY <1>1, <2>1, <2>2, AccountedStays
    <2>4. note'[n].event = e
      BY <1>1, <1>3, <2>2, RowsStay
    <2> QED
      BY <2>3, <2>4 DEF Accounted
  <1>4. CASE note'[n].suppressedReason = "none"
    BY <1>4 DEF Accounted
  <1>5. ASSUME note'[n].suppressedReason # "none", n \notin Rows
        PROVE  Accounted(note[n].event)'
    <2>1. PICK w \in Workers, reason \in Reasons :
            /\ GateWrites(w, reason)
            /\ note'[n] = [status |-> reason[1], event |-> worker[w].event,
                           suppressedReason |-> reason[2]]
      <3>1. note[n].status # "absent" => note[n].status # "deleted"
        BY <1>1 DEF Wanted, Accounts
      <3>2. note'[n] # note[n]
        BY <1>1, <1>5 DEF Rows
      <3> QED
        BY <1>2, <1>5, <3>2 DEF NoteMoves
    <2>2. reason[2] # "preference_disabled" /\ reason[2] # "none"
      BY <1>1, <1>5, <2>1 DEF Wanted
    <2>3. GateDuplicate(w) /\ worker[w].pc = "handling"
      BY <2>1, <2>2 DEF GateWrites
    <2>4. PICK e \in Events : e = worker[w].event
      BY DEF TypeOK, OutboxTypeOK, WorkerStates
    <2>5. Accounted(e) /\ event[e].status # "absent"
      BY <1>1, <2>3, <2>4, DuplicateIsAccounted DEF Accounts, Recorded
    <2>6. Accounted(e)'
      BY <1>1, <2>5, AccountedStays
    <2>7. note'[n].event = e
      BY <2>1, <2>4
    <2> QED
      BY <2>6, <2>7 DEF Accounted
  <1> QED
    BY <1>3, <1>4, <1>5

\* An event is only said to be dispatched where it is accounted for.
LEMMA DispatchedStep ==
  ASSUME TypeOK, OInv, Linked, Accounts, [Next]_vars, Wanted', NEW e \in Events,
         SaidDispatched(e)'
  PROVE  Accounted(e)'
  <1>1. user' = "present" /\ Wanted
    BY WantedBefore DEF Wanted
  <1>2. /\ worker \in [Workers -> WorkerStates] /\ event \in [Events -> EventRows]
    BY DEF TypeOK, OutboxTypeOK
  <1>3. CASE SaidDispatched(e)
    <2>1. event[e].status # "absent"
      BY <1>3 DEF SaidDispatched, Accounts, Recorded
    <2>2. Accounted(e)
      BY <1>1, <1>3 DEF Accounts
    <2> QED
      BY <1>1, <2>1, <2>2, AccountedStays
  <1>4. ASSUME NEW w \in Workers, HandlerReturns(w), worker[w].event = e
        PROVE  Accounted(e)'
    <2>1. event[e].status # "absent" /\ worker[w].pc = "handling"
      BY <1>4 DEF HandlerReturns, Accounts, Recorded
    <2>2. CASE GateDuplicate(w)
      <3>1. Accounted(e)
        BY <1>1, <1>4, <2>2, DuplicateIsAccounted
      <3> QED
        BY <1>1, <2>1, <3>1, AccountedStays
    <2>3. CASE GateEnqueue(w)
      <3>1. PICK n \in Notes : n = gate[w].note
        BY <2>3 DEF GateEnqueue, Linked, GateHolds
      <3>2. /\ note[n].status \notin {"absent", "deleted"} /\ note[n].suppressedReason = "none"
            /\ note[n].event = e
        BY <1>1, <1>4, <2>3, <3>1 DEF GateEnqueue, Linked, GateHolds, Wanted, Accounts
      <3>3. Accounted(e)
        BY <3>2 DEF Accounted, Rows
      <3> QED
        BY <1>1, <2>1, <3>3, AccountedStays
    <2>4. CASE GateMuted(w)
      <3>1. CreateNote(w, "suppressed", "preference_disabled")
        BY <2>4 DEF GateMuted, RecordSuppressed
      <3>2. NextNote \in Notes /\ note'[NextNote].suppressedReason = "preference_disabled"
        BY <3>1 DEF CreateNote, TypeOK
      <3> QED
        BY <3>2 DEF Wanted
    <2>5. CASE GateUserGone(w)
      BY <1>1, <2>5 DEF GateUserGone, Wanted
    <2>6. ASSUME NEW v \in Workers, v # w,
                 \/ \E f \in Events : ClaimForDelivery(v, f)
                 \/ Dispatch(v)
                 \/ GateUserGone(v) \/ GateMuted(v) \/ GateEnabled(v) \/ GateDuplicate(v)
                 \/ GateClear(v) \/ GateCreate(v) \/ GateEnqueue(v) \/ GateThrows(v)
                 \/ GateEnqueueUnanswered(v)
          PROVE  worker'[w] = worker[w]
      BY <1>2, <2>6 DEF ClaimForDelivery, Claim, Dispatch, Poll, BatchEnds, CommitDecision,
         CommitRefused, ClaimExpires, Crash, GateUserGone, GateMuted, GateEnabled, GateDuplicate,
         GateClear, GateCreate, GateEnqueue, GateThrows, GateEnqueueUnanswered, RecordSuppressed,
         HandlerReturns, HandlerThrows, outboxVars
    <2>7. worker'[w].pc = "deciding" /\ worker'[w].decision = "dispatched" /\ worker'[w] # worker[w]
      BY <1>2, <1>4, <2>1 DEF HandlerReturns, WorkerStates
    <2>8. handled' # handled
      BY <1>2, <1>4 DEF HandlerReturns, TypeOK, OutboxTypeOK
    <2>9. CASE UNCHANGED vars \/ UserNext \/ SenderNext
      BY <2>7, <2>9 DEF vars, outboxVars, UserNext, TogglePreference, PurgeNotifications,
         DeleteUser, SenderNext, TakeToSend, TakeSettled, TakeThrows, SendSucceeds, SendBlocked,
         SendThrows, MarkSent, MarkFailed, MarkThrows, Stall
    <2>10. CASE DispatcherNext
      <3>1. ~ \E f \in Events, t \in 1..Cardinality(Events), s \in Subjects : RecordAbout(f, t, s)
        BY <2>7 DEF RecordAbout, Record
      <3>2. ~ (\/ GateEnabled(w) \/ GateClear(w) \/ GateCreate(w))
        BY <2>7 DEF GateEnabled, GateClear, GateCreate, outboxVars
      <3>3. ~ (GateThrows(w) \/ GateEnqueueUnanswered(w) \/ Dispatch(w)
                 \/ \E f \in Events : ClaimForDelivery(w, f))
        BY <2>8 DEF GateThrows, GateEnqueueUnanswered, HandlerThrows, Dispatch, Poll, BatchEnds,
           CommitDecision, CommitRefused, ClaimExpires, Crash, ClaimForDelivery, Claim
      <3> QED
        BY <2>2, <2>3, <2>4, <2>5, <2>6, <2>7, <2>10, <3>1, <3>2, <3>3 DEF DispatcherNext
    <2> QED
      BY <2>9, <2>10 DEF Next
  <1>5. [OutboxNext]_outboxVars
    BY PipelineStepsTheOutbox
  <1>6. SaidDispatched(e) \/ \E w \in Workers : HandlerReturns(w) /\ worker[w].event = e
    <2>1. CASE UNCHANGED outboxVars
      BY <2>1 DEF outboxVars, SaidDispatched
    <2>2. ASSUME NEW f \in Events, NEW t \in 1..Cardinality(Events), Record(f, t)
          PROVE  SaidDispatched(e)
      BY <1>2, <2>2 DEF Record, SaidDispatched
    <2>3. ASSUME NEW w \in Workers,
                 \/ Poll(w) \/ (\E f \in Events : Claim(w, f)) \/ BatchEnds(w) \/ CommitRefused(w)
                 \/ HandlerThrows(w) \/ ClaimExpires(w) \/ Crash(w)
          PROVE  SaidDispatched(e)
      <3>1. event' = event
        BY <2>3 DEF Poll, Claim, BatchEnds, CommitRefused, HandlerThrows, ClaimExpires, Crash
      <3>2. \A v \in Workers :
              worker'[v].pc = "deciding" /\ worker'[v].decision = "dispatched" =>
                /\ worker[v].event = worker'[v].event
                /\ worker[v].pc = "deciding" /\ worker[v].decision = "dispatched"
        <4>1. CASE Poll(w) \/ BatchEnds(w) \/ CommitRefused(w) \/ Crash(w)
          BY <1>2, <4>1 DEF Poll, BatchEnds, CommitRefused, Crash, WorkerStates
        <4>2. CASE \E f \in Events : Claim(w, f)
          BY <1>2, <4>2 DEF Claim, WorkerStates
        <4>3. CASE HandlerThrows(w)
          <5>1. AfterFailure(worker[w].seen) # "dispatched"
            BY DEF AfterFailure
          <5> QED
            BY <1>2, <4>3, <5>1 DEF HandlerThrows, WorkerStates
        <4>4. CASE ClaimExpires(w)
          BY <1>2, <4>4 DEF ClaimExpires, WorkerStates
        <4> QED
          BY <2>3, <4>1, <4>2, <4>3, <4>4
      <3> QED
        BY <3>1, <3>2 DEF SaidDispatched
    <2>4. ASSUME NEW w \in Workers, CommitDecision(w)
          PROVE  SaidDispatched(e)
      <3>1. \A v \in Workers :
              worker'[v].pc = "deciding" => worker'[v] = worker[v]
        BY <1>2, <2>4 DEF CommitDecision, WorkerStates
      <3>2. event'[e].status = "dispatched" => SaidDispatched(e)
        <4>1. CASE worker[w].event = e
          <5>1. event'[e].status = StatusFor(worker[w].decision) /\ worker[w].pc = "deciding"
            BY <1>2, <2>4, <4>1 DEF CommitDecision, EventRows
          <5>2. StatusFor(worker[w].decision) = "dispatched" => worker[w].decision = "dispatched"
            BY DEF StatusFor
          <5> QED
            BY <4>1, <5>1, <5>2 DEF SaidDispatched
        <4>2. CASE worker[w].event # e
          BY <1>2, <2>4, <4>2 DEF CommitDecision, SaidDispatched
        <4> QED
          BY <4>1, <4>2
      <3> QED
        BY <3>1, <3>2 DEF SaidDispatched
    <2>5. ASSUME NEW w \in Workers, HandlerReturns(w)
          PROVE  SaidDispatched(e) \/ worker[w].event = e
      BY <1>2, <2>5 DEF HandlerReturns, SaidDispatched, WorkerStates
    <2> QED
      BY <1>5, <2>1, <2>2, <2>3, <2>4, <2>5 DEF OutboxNext, WorkerStep
  <1> QED
    BY <1>3, <1>4, <1>6

LEMMA AccountsStep ==
  ASSUME TypeOK, OInv, Linked, Accounts, [Next]_vars
  PROVE  Accounts'
  <1>1. Recorded'
    BY RecordedStep DEF Accounts
  <1>2. ASSUME NEW n \in Notes, note'[n].status = "absent"
        PROVE  note'[n].suppressedReason = "none"
    <2>1. NoteMoves(n) /\ note[n] \in NoteRows
      BY PipelineTypes, RowStep DEF Linked, TypeOK
    <2>2. ASSUME NEW reason \in Reasons, NEW w \in Workers,
                 note'[n] = [status |-> reason[1], event |-> worker[w].event,
                             suppressedReason |-> reason[2]]
          PROVE  FALSE
      BY <1>2, <2>2 DEF Reasons
    <2>3. ASSUME NEW status \in {"sent", "failed", "deleted"},
                 note'[n] = [note[n] EXCEPT !.status = status]
          PROVE  FALSE
      BY <1>2, <2>1, <2>3 DEF NoteRows
    <2>4. note'[n] = note[n]
      BY <2>1, <2>2, <2>3 DEF NoteMoves
    <2> QED
      BY <1>2, <2>4 DEF Accounts
  <1>3. user' = "present" => \A n \in Notes : note'[n].status # "deleted"
    BY RowsStay
  <1>4. \A n \in Notes :
          note'[n].status # "absent" /\ note'[n].suppressedReason = "none" => RowAccounted(n)'
    BY RowAccountedStep
  <1>5. Wanted' => \A n \in Rows' : Accounted(note[n].event)'
    BY NewRowAccounted
  <1>6. Wanted' => \A e \in Events : SaidDispatched(e)' => Accounted(e)'
    BY DispatchedStep
  <1> QED
    BY <1>1, <1>2, <1>3, <1>4, <1>5, <1>6 DEF Accounts

-----------------------------------------------------------------------------
(* What keeps an event from a second notification.                         *)

LEMMA AtMostOneMore ==
  ASSUME NEW S, IsFiniteSet(S), NEW x
  PROVE  /\ IsFiniteSet(S \cup {x}) /\ Cardinality(S \cup {x}) \in Nat
         /\ Cardinality(S \cup {x}) <= Cardinality(S) + 1
  <1>1. IsFiniteSet(S \cup {x}) /\ Cardinality(S) \in Nat /\ Cardinality(S \cup {x}) \in Nat
    BY FS_AddElement, FS_CardinalityType
  <1>2. Cardinality(S \cup {x}) = IF x \in S THEN Cardinality(S) ELSE Cardinality(S) + 1
    BY FS_AddElement
  <1> QED
    BY <1>1, <1>2

\* Only a loss makes a worker go on without its claim.
LEMMA StraysStep ==
  ASSUME TypeOK, OInv, NoRepeats, [Next]_vars
  PROVE  IsFiniteSet(Strays') /\ Cardinality(Strays') <= lost'
  <1>1. /\ worker \in [Workers -> WorkerStates] /\ lost \in Nat
        /\ IsFiniteSet(Strays) /\ Cardinality(Strays) \in Nat /\ Cardinality(Strays) <= lost
    BY FS_CardinalityType DEF TypeOK, OutboxTypeOK, NoRepeats
  <1>2. [OutboxNext]_outboxVars
    BY PipelineStepsTheOutbox
  <1>3. lost' \in Nat /\ lost' >= lost
    BY <1>1, OutboxRemembers
  <1>4. CASE Strays' \subseteq Strays
    <2>1. IsFiniteSet(Strays') /\ Cardinality(Strays') <= Cardinality(Strays)
          /\ Cardinality(Strays') \in Nat
      BY <1>1, <1>4, FS_Subset, FS_CardinalityType
    <2> QED
      BY <1>1, <1>3, <2>1
  <1>5. ASSUME NEW w \in Workers, lost' = lost + 1, \A v \in Workers \ {w} : worker'[v] = worker[v]
        PROVE  IsFiniteSet(Strays') /\ Cardinality(Strays') <= lost'
    <2>1. Strays' \subseteq Strays \cup {w}
      BY <1>5 DEF Strays
    <2>2. /\ IsFiniteSet(Strays \cup {w}) /\ Cardinality(Strays \cup {w}) \in Nat
          /\ Cardinality(Strays \cup {w}) <= Cardinality(Strays) + 1
      BY <1>1, AtMostOneMore
    <2>3. /\ IsFiniteSet(Strays') /\ Cardinality(Strays') \in Nat
          /\ Cardinality(Strays') <= Cardinality(Strays \cup {w})
      BY <2>1, <2>2, FS_Subset, FS_CardinalityType
    <2> QED
      BY <1>1, <1>5, <2>2, <2>3
  <1>6. CASE UNCHANGED worker
    <2>1. Strays' = Strays
      BY <1>6 DEF Strays
    <2> QED
      BY <1>4, <2>1
  <1>7. ASSUME NEW w \in Workers,
               \/ Poll(w) \/ BatchEnds(w) \/ CommitRefused(w) \/ CommitDecision(w)
               \/ HandlerReturns(w) \/ HandlerThrows(w)
        PROVE  Strays' \subseteq Strays
    <2>1. \A v \in Workers \ {w} : worker'[v] = worker[v]
      BY <1>1, <1>7 DEF Poll, BatchEnds, CommitRefused, CommitDecision, HandlerReturns, HandlerThrows
    <2>2. \/ worker'[w].pc \in {"idle", "polling"}
          \/ worker[w].pc = "handling" /\ worker'[w].open = worker[w].open
      <3>1. CASE Poll(w) \/ BatchEnds(w) \/ CommitRefused(w) \/ CommitDecision(w)
        BY <1>1, <3>1 DEF Poll, BatchEnds, CommitRefused, CommitDecision, WorkerStates
      <3>2. CASE HandlerReturns(w) \/ HandlerThrows(w)
        BY <1>1, <3>2 DEF HandlerReturns, HandlerThrows, WorkerStates
      <3> QED
        BY <1>7, <3>1, <3>2
    <2> QED
      BY <2>1, <2>2 DEF Strays
  <1>8. ASSUME NEW w \in Workers, NEW e \in Events, Claim(w, e)
        PROVE  Strays' \subseteq Strays
    <2>1. \A v \in Workers \ {w} : worker'[v] = worker[v]
      BY <1>1, <1>8 DEF Claim
    <2>2. worker'[w].open
      BY <1>1, <1>8 DEF Claim, WorkerStates
    <2> QED
      BY <2>1, <2>2 DEF Strays
  <1>9. ASSUME NEW w \in Workers, ClaimExpires(w) \/ Crash(w)
        PROVE  lost' = lost + 1 /\ \A v \in Workers \ {w} : worker'[v] = worker[v]
    BY <1>1, <1>9 DEF ClaimExpires, Crash
  <1> QED
    BY <1>2, <1>4, <1>5, <1>6, <1>7, <1>8, <1>9 DEF OutboxNext, WorkerStep, Record, outboxVars

LEMMA RowsAreFinite ==
  ASSUME NEW S \in SUBSET Notes
  PROVE  IsFiniteSet(S) /\ Cardinality(S) \in Nat
  <1>1. 1 \in Int /\ MaxNotes \in Int
    BY PipelineAssumption
  <1>2. IsFiniteSet(Notes)
    BY <1>1, FS_Interval DEF Notes
  <1> QED
    BY <1>2, FS_Subset, FS_CardinalityType

\* Undisturbed now, undisturbed before: rows only come.
LEMMA UndisturbedBefore ==
  ASSUME TypeOK, OInv, Linked, Accounts, [Next]_vars, Undisturbed'
  PROVE  Undisturbed
  <1>1. TypeOK'
    BY PipelineTypes
  <1>2. user' = "present" /\ Cardinality(Rows') <= MaxScanned
    BY DEF Undisturbed
  <1>3. user = "present" /\ Rows \subseteq Rows'
    BY <1>2, RowsStay DEF Rows
  <1>4. /\ IsFiniteSet(Rows') /\ Cardinality(Rows') \in Nat /\ Cardinality(Rows) \in Nat
    BY RowsAreFinite DEF Rows
  <1>5. Cardinality(Rows) <= Cardinality(Rows')
    BY <1>3, <1>4, FS_Subset
  <1> QED
    BY <1>2, <1>3, <1>4, <1>5, PipelineAssumption DEF Undisturbed

\* The scan of an undisturbed gate misses no row.
LEMMA ScanSeesAll ==
  ASSUME TypeOK, Accounts, Undisturbed, NEW w \in Workers, GateClear(w)
  PROVE  Deliverable(worker[w].event) = {}
  <1> SUFFICES ASSUME NEW n \in Deliverable(worker[w].event)
               PROVE  FALSE
    OBVIOUS
  <1>1. n \in Rows /\ note[n].event = worker[w].event
    BY DEF Deliverable, Rows, Accounts, Undisturbed
  <1> DEFINE Later == {m \in Rows : m > n}
  <1>2. IsFiniteSet(Rows) /\ Cardinality(Rows) \in Nat /\ Cardinality(Later) \in Nat
    BY RowsAreFinite DEF Rows
  <1>3. Later \subseteq Rows /\ n \notin Later
    BY <1>1 DEF Rows, Notes
  <1>4. Cardinality(Later) < Cardinality(Rows)
    <2>1. Cardinality(Later) <= Cardinality(Rows)
      BY <1>2, <1>3, FS_Subset
    <2>2. Cardinality(Rows) = Cardinality(Later) => Rows = Later
      BY <1>2, <1>3, FS_Subset
    <2> QED
      BY <1>1, <1>2, <1>3, <2>1, <2>2
  <1>5. Cardinality(Later) < MaxScanned
    BY <1>2, <1>4, PipelineAssumption DEF Undisturbed
  <1>6. RecentlyNotified(worker[w].event)
    BY <1>1, <1>5 DEF RecentlyNotified
  <1> QED
    BY <1>6 DEF GateClear

\* What an event may be delivered with changes only by its own gate's row.
LEMMA DeliverableStep ==
  ASSUME TypeOK, OInv, Linked, Accounts, [Next]_vars, user' = "present", NEW e \in Events,
         NEW n \in Notes, n \in Deliverable(e)'
  PROVE  \/ n \in Deliverable(e)
         \/ n = NextNote /\ \E w \in Workers : GateCreate(w) /\ worker[w].event = e
  <1>1. /\ NoteMoves(n) /\ note[n] \in NoteRows
        /\ note'[n].event = e /\ note'[n].status # "absent" /\ note'[n].suppressedReason = "none"
    BY PipelineTypes, RowStep DEF Linked, TypeOK, Deliverable
  <1>2. CASE note'[n] = note[n]
    BY <1>1, <1>2 DEF Deliverable
  <1>3. ASSUME n = NextNote, NEW w \in Workers, NEW reason \in Reasons, GateWrites(w, reason),
               note'[n] = [status |-> reason[1], event |-> worker[w].event,
                           suppressedReason |-> reason[2]]
        PROVE  GateCreate(w) /\ worker[w].event = e
    <2>1. reason[2] = "none" /\ worker[w].event = e
      BY <1>1, <1>3
    <2> QED
      BY <1>3, <2>1 DEF GateWrites
  <1>4. CASE n \in Rows /\ \E status \in {"sent", "failed", "deleted"} :
               note'[n] = [note[n] EXCEPT !.status = status]
    <2>1. /\ note[n].event = e /\ note[n].suppressedReason = "none"
          /\ note[n].status # "absent"
      BY <1>1, <1>4 DEF NoteRows, Rows
    <2> QED
      BY <2>1 DEF Deliverable
  <1> QED
    BY <1>1, <1>2, <1>3, <1>4 DEF NoteMoves

\* All of them together: an event's notifications grow by the row of its gate.
LEMMA DeliverableStepTo ==
  ASSUME TypeOK, OInv, Linked, Accounts, [Next]_vars, user' = "present", NEW e \in Events
  PROVE  /\ Deliverable(e)' \subseteq Deliverable(e) \cup {NextNote}
         /\ (\E w \in Workers : GateCreate(w) /\ worker[w].event = e)
              \/ Deliverable(e)' \subseteq Deliverable(e)
  <1>1. \A n \in Deliverable(e)' : n \in Notes
    BY DEF Deliverable
  <1> QED
    BY <1>1, DeliverableStep

\* A gate that is to create its row was there before, or has just scanned.
LEMMA AtCreateStep ==
  ASSUME TypeOK, [Next]_vars, NEW v \in Workers, At(v, "create")'
  PROVE  \/ At(v, "create") /\ worker'[v].event = worker[v].event /\ ~ GateCreate(v)
         \/ GateClear(v) /\ worker'[v].event = worker[v].event /\ note' = note
  <1>1. /\ worker \in [Workers -> WorkerStates] /\ worker'[v].pc = "handling"
        /\ gate'[v].step = "create"
    BY DEF TypeOK, OutboxTypeOK, At
  <1>2. ~ GateCreate(v)
    BY <1>1 DEF GateCreate, TypeOK
  <1>3. CASE GateClear(v)
    BY <1>3 DEF GateClear, outboxVars
  <1>4. ASSUME gate'[v] = gate[v], worker'[v].event = worker[v].event, worker[v].pc = "handling"
        PROVE  At(v, "create")
    BY <1>1, <1>4 DEF At
  <1>5. CASE UNCHANGED vars \/ UserNext \/ SenderNext
    <2>1. UNCHANGED <<worker, gate>>
      BY <1>5 DEF vars, outboxVars, pipelineVars, UserNext, TogglePreference, PurgeNotifications,
         DeleteUser, SenderNext, TakeToSend, TakeSettled, TakeThrows, SendSucceeds, SendBlocked,
         SendThrows, MarkSent, MarkFailed, MarkThrows, Stall
    <2> QED
      BY <1>1, <1>2, <1>4, <2>1
  <1>6. CASE \E e \in Events, t \in 1..Cardinality(Events), s \in Subjects : RecordAbout(e, t, s)
    <2>1. UNCHANGED <<worker, gate>>
      BY <1>6 DEF RecordAbout, Record
    <2> QED
      BY <1>1, <1>2, <1>4, <2>1
  <1>7. ASSUME NEW w \in Workers, NEW e \in Events, ClaimForDelivery(w, e)
        PROVE  At(v, "create") /\ worker'[v].event = worker[v].event
    <2>1. v # w
      BY <1>1, <1>7 DEF ClaimForDelivery, TypeOK
    <2>2. gate'[v] = gate[v] /\ worker'[v] = worker[v]
      BY <1>1, <1>7, <2>1 DEF ClaimForDelivery, Claim, TypeOK
    <2> QED
      BY <1>1, <1>4, <2>2
  <1>8. ASSUME NEW w \in Workers,
               \/ Dispatch(w) \/ GateUserGone(w) \/ GateMuted(w) \/ GateDuplicate(w)
               \/ GateEnqueue(w) \/ GateThrows(w) \/ GateEnqueueUnanswered(w)
        PROVE  At(v, "create") /\ worker'[v].event = worker[v].event
    <2>1. gate' = gate
      BY <1>8 DEF Dispatch, GateUserGone, GateMuted, GateDuplicate, RecordSuppressed, GateEnqueue,
                  GateThrows, GateEnqueueUnanswered, pipelineVars
    <2>2. Dispatch(w) \/ HandlerReturns(w) \/ HandlerThrows(w)
      BY <1>8 DEF GateUserGone, GateMuted, GateDuplicate, RecordSuppressed, GateEnqueue,
                  GateThrows, GateEnqueueUnanswered
    <2>3. worker'[v].event = worker[v].event /\ worker[v].pc = "handling"
      <3>1. CASE HandlerReturns(w) \/ HandlerThrows(w)
        BY <1>1, <3>1 DEF HandlerReturns, HandlerThrows, WorkerStates
      <3>2. CASE Poll(w) \/ BatchEnds(w) \/ CommitDecision(w) \/ CommitRefused(w) \/ Crash(w)
        BY <1>1, <3>2 DEF Poll, BatchEnds, CommitDecision, CommitRefused, Crash, WorkerStates
      <3>3. CASE ClaimExpires(w)
        BY <1>1, <3>3 DEF ClaimExpires, WorkerStates
      <3> QED
        BY <2>2, <3>1, <3>2, <3>3 DEF Dispatch
    <2> QED
      BY <1>4, <2>1, <2>3
  <1>9. ASSUME NEW w \in Workers, v # w, GateEnabled(w) \/ GateClear(w) \/ GateCreate(w)
        PROVE  At(v, "create") /\ worker'[v].event = worker[v].event
    <2>1. worker' = worker /\ gate'[v] = gate[v]
      BY <1>9 DEF GateEnabled, GateClear, GateCreate, outboxVars, TypeOK
    <2> QED
      BY <1>1, <1>4, <2>1
  <1>10. ~ GateEnabled(v)
    BY <1>1 DEF GateEnabled, TypeOK
  <1> QED
    BY <1>2, <1>3, <1>5, <1>6, <1>7, <1>8, <1>9, <1>10 DEF Next, DispatcherNext

\* A set all but one of whose elements are in another has at most one more.
LEMMA AllButOneIn ==
  ASSUME NEW S, NEW T, IsFiniteSet(S), NEW k \in Nat, Cardinality(S) <= k,
         \A v, w \in T \ S : v = w
  PROVE  IsFiniteSet(T) /\ Cardinality(T) <= k + 1
  <1>1. Cardinality(S) \in Nat
    BY FS_CardinalityType
  <1>2. CASE T \subseteq S
    <2>1. IsFiniteSet(T) /\ Cardinality(T) \in Nat /\ Cardinality(T) <= Cardinality(S)
      BY <1>2, FS_Subset, FS_CardinalityType
    <2> QED
      BY <1>1, <2>1
  <1>3. ASSUME NEW w \in T \ S
        PROVE  IsFiniteSet(T) /\ Cardinality(T) <= k + 1
    <2>1. T \subseteq S \cup {w}
      OBVIOUS
    <2>2. /\ IsFiniteSet(S \cup {w}) /\ Cardinality(S \cup {w}) \in Nat
          /\ Cardinality(S \cup {w}) <= Cardinality(S) + 1
      BY AtMostOneMore
    <2>3. /\ IsFiniteSet(T) /\ Cardinality(T) \in Nat
          /\ Cardinality(T) <= Cardinality(S \cup {w})
      BY <2>1, <2>2, FS_Subset, FS_CardinalityType
    <2> QED
      BY <1>1, <2>2, <2>3
  <1> QED
    BY <1>2, <1>3

\* Of the gates that may create a row of one event all but one are strays.
LEMMA AtCreateFew ==
  ASSUME OInv, NEW e \in Events, NEW v \in AtCreate(e) \ Strays, NEW w \in AtCreate(e) \ Strays
  PROVE  v = w
  BY DEF AtCreate, Strays, At, OInv, ClaimedOnce

\* A row is created by a gate that could create it before, and while there
\* is one no gate comes to create another.
LEMMA NoRepeatsStep ==
  ASSUME TypeOK, OInv, Linked, Accounts, NoRepeats, [Next]_vars
  PROVE  NoRepeats'
  <1>1. IsFiniteSet(Strays') /\ Cardinality(Strays') <= lost'
    BY StraysStep
  <1>2. OInv' /\ lost \in Nat /\ lost' \in Nat /\ lost <= lost'
    BY PipelineTypes, OutboxRemembers DEF TypeOK, OutboxTypeOK
  <1>3. ASSUME Undisturbed', NEW e \in Events
        PROVE  Cardinality(Deliverable(e)') + Cardinality(AtCreate(e)') <= lost' + 1
    <2>1. Undisturbed /\ user' = "present"
      BY <1>3, UndisturbedBefore DEF Undisturbed
    <2>2. /\ IsFiniteSet(AtCreate(e)) /\ IsFiniteSet(AtCreate(e)')
          /\ Cardinality(AtCreate(e)) \in Nat /\ Cardinality(AtCreate(e)') \in Nat
          /\ Cardinality(AtCreate(e)') <= lost' + 1
      <3>1. IsFiniteSet(AtCreate(e))
        <4>1. \A v, w \in AtCreate(e) \ Strays : v = w
          BY AtCreateFew
        <4> QED
          BY <1>2, <4>1, AllButOneIn DEF NoRepeats
      <3>2. IsFiniteSet(AtCreate(e)') /\ Cardinality(AtCreate(e)') <= lost' + 1
        <4>1. \A v, w \in AtCreate(e)' \ Strays' : v = w
          BY <1>2 DEF AtCreate, Strays, At, OInv, ClaimedOnce
        <4> QED
          BY <1>1, <1>2, <4>1, AllButOneIn
      <3> QED
        BY <3>1, <3>2, FS_CardinalityType
    <2>3. /\ IsFiniteSet(Deliverable(e)) /\ Cardinality(Deliverable(e)) \in Nat
          /\ IsFiniteSet(Deliverable(e)') /\ Cardinality(Deliverable(e)') \in Nat
      BY RowsAreFinite DEF Deliverable
    <2>4. Cardinality(Deliverable(e)) + Cardinality(AtCreate(e)) <= lost + 1
      BY <2>1 DEF NoRepeats
    <2>5. CASE Deliverable(e)' = {}
      <3>1. Cardinality(Deliverable(e)') = 0
        BY <2>5, FS_EmptySet
      <3> QED
        BY <1>2, <2>2, <3>1
    <2>6. ASSUME Deliverable(e)' # {}, NEW v \in AtCreate(e)'
          PROVE  v \in AtCreate(e) /\ ~ GateCreate(v)
      <3>1. \/ At(v, "create") /\ worker'[v].event = worker[v].event /\ ~ GateCreate(v)
            \/ GateClear(v) /\ worker'[v].event = worker[v].event /\ note' = note
        BY <2>6, AtCreateStep DEF AtCreate
      <3>2. v \in Workers /\ worker'[v].event = e
        BY <2>6 DEF AtCreate
      <3>3. ASSUME GateClear(v), note' = note, worker[v].event = e
            PROVE  FALSE
        <4>1. Deliverable(e) = {}
          BY <2>1, <3>2, <3>3, ScanSeesAll
        <4> QED
          BY <2>6, <3>3, <4>1 DEF Deliverable
      <3> QED
        BY <3>1, <3>2, <3>3 DEF AtCreate
    <2>7. ASSUME NEW w \in Workers, GateCreate(w), worker[w].event = e, Deliverable(e)' # {}
          PROVE  Cardinality(Deliverable(e)') + Cardinality(AtCreate(e)') <= lost' + 1
      <3>1. Deliverable(e)' \subseteq Deliverable(e) \cup {NextNote}
        BY <2>1, DeliverableStepTo
      <3>2. /\ IsFiniteSet(Deliverable(e) \cup {NextNote})
            /\ Cardinality(Deliverable(e) \cup {NextNote}) \in Nat
            /\ Cardinality(Deliverable(e) \cup {NextNote}) <= Cardinality(Deliverable(e)) + 1
        BY <2>3, AtMostOneMore
      <3>3. Cardinality(Deliverable(e)') <= Cardinality(Deliverable(e)) + 1
        <4>1. Cardinality(Deliverable(e)') <= Cardinality(Deliverable(e) \cup {NextNote})
          BY <3>1, <3>2, FS_Subset
        <4> QED
          BY <2>3, <3>2, <4>1
      <3>4. w \in AtCreate(e)
        BY <2>7 DEF AtCreate, GateCreate
      <3>5. AtCreate(e)' \subseteq AtCreate(e) \ {w}
        BY <2>6, <2>7
      <3>6. /\ IsFiniteSet(AtCreate(e) \ {w})
            /\ Cardinality(AtCreate(e) \ {w}) = Cardinality(AtCreate(e)) - 1
        BY <2>2, <3>4, FS_RemoveElement
      <3>7. Cardinality(AtCreate(e)') <= Cardinality(AtCreate(e)) - 1
        BY <3>5, <3>6, FS_Subset
      <3> QED
        BY <1>2, <2>2, <2>3, <2>4, <3>3, <3>7
    <2>8. CASE Deliverable(e)' # {} /\ ~ \E w \in Workers : GateCreate(w) /\ worker[w].event = e
      <3>1. Deliverable(e)' \subseteq Deliverable(e)
        BY <2>1, <2>8, DeliverableStepTo
      <3>2. Cardinality(Deliverable(e)') <= Cardinality(Deliverable(e))
        BY <2>3, <3>1, FS_Subset
      <3>3. AtCreate(e)' \subseteq AtCreate(e)
        BY <2>6, <2>8
      <3>4. Cardinality(AtCreate(e)') <= Cardinality(AtCreate(e))
        BY <2>2, <3>3, FS_Subset
      <3> QED
        BY <1>2, <2>2, <2>3, <2>4, <3>2, <3>4
    <2> QED
      BY <2>5, <2>7, <2>8
  <1> QED
    BY <1>1, <1>3 DEF NoRepeats

-----------------------------------------------------------------------------
\* At first there are no rows and nobody is at work.
LEMMA InitPInv == Init => PInv
  <1> SUFFICES ASSUME Init PROVE PInv
    OBVIOUS
  <1>1. /\ \A n \in Notes : note[n].status = "absent" /\ note[n].suppressedReason = "none"
        /\ \A w \in Workers : worker[w].pc = "idle"
        /\ \A e \in Events : event[e].status = "absent"
    BY DEF Init, OutboxInit
  <1>2. Rows = {} /\ \A e \in Events : Deliverable(e) = {}
    BY <1>1 DEF Rows, Deliverable
  <1>3. Accounts
    BY <1>1, <1>2 DEF Accounts, Recorded, SaidDispatched
  <1>4. NoRepeats
    <2>1. Strays = {} /\ (\A e \in Events : AtCreate(e) = {}) /\ lost = 0
      BY <1>1 DEF Strays, AtCreate, At, Init, OutboxInit
    <2>2. Cardinality({}) = 0 /\ IsFiniteSet({})
      BY FS_EmptySet
    <2> QED
      BY <1>2, <2>1, <2>2 DEF NoRepeats
  <1> QED
    BY <1>3, <1>4, InitLinked DEF PInv

\* The whole of it holds in every reachable state.
THEOREM PipelineInvariant == Spec => []PInv
  <1>1. PInv /\ [Next]_vars => PInv'
    BY PipelineTypes, LinkedStep, AccountsStep, NoRepeatsStep DEF PInv
  <1> QED
    BY InitPInv, <1>1, PTL DEF Spec

\* An event that ends dispatched for a user who wants to hear was handed to
\* the queue, or the failure or the loss that kept it from there is known.
THEOREM DispatchedStaysAccountedFor == Spec => []DispatchedIsAccountedFor
  <1>1. PInv => DispatchedIsAccountedFor
    <2> SUFFICES ASSUME PInv, NEW e \in Events, event[e].status = "dispatched",
                        user = "present",
                        \A n \in Notes : note[n].suppressedReason # "preference_disabled"
                 PROVE  \E n \in Rows :
                          /\ about[note[n].event] = about[e]
                          /\ HandedOver(n) \/ thrown[note[n].event] + lost > 0
      BY DEF DispatchedIsAccountedFor
    <2>1. Accounted(e)
      BY DEF PInv, Accounts, Wanted, SaidDispatched
    <2>2. PICK n \in Rows : note[n].suppressedReason = "none" /\ about[note[n].event] = about[e]
      BY <2>1 DEF Accounted
    <2>3. RowAccounted(n)
      BY <2>2 DEF PInv, Accounts, Rows
    <2> QED
      BY <2>2, <2>3 DEF RowAccounted
  <1> QED
    BY <1>1, PipelineInvariant, PTL

\* An event causes one more notification for each lost claim at most, as long
\* as the deduplication scans all rows of the user.
THEOREM NoDuplicateStays == Spec => []NoDuplicateSideEffect
  <1>1. PInv => NoDuplicateSideEffect
    <2> SUFFICES ASSUME PInv, Undisturbed, NEW e \in Events
                 PROVE  Cardinality(Deliverable(e)) <= lost + 1
      BY DEF Undisturbed, NoDuplicateSideEffect
    <2>1. lost \in Nat /\ IsFiniteSet(Strays) /\ Cardinality(Strays) <= lost /\ OInv
      BY DEF PInv, NoRepeats, TypeOK, OutboxTypeOK
    <2>2. Cardinality(AtCreate(e)) \in Nat
      <3>1. \A v, w \in AtCreate(e) \ Strays : v = w
        BY <2>1, AtCreateFew
      <3> QED
        BY <2>1, <3>1, AllButOneIn, FS_CardinalityType
    <2>3. Cardinality(Deliverable(e)) \in Nat
      BY RowsAreFinite DEF Deliverable
    <2>4. Cardinality(Deliverable(e)) + Cardinality(AtCreate(e)) <= lost + 1
      BY DEF PInv, NoRepeats
    <2> QED
      BY <2>1, <2>2, <2>3, <2>4
  <1> QED
    BY <1>1, PipelineInvariant, PTL

-----------------------------------------------------------------------------
(* The reminders: what a scan and a gate have seen before they write.      *)

ReminderKinds == {"approaching", "overdue", "none"}

ReminderRows == [debt : Debts, kind : ReminderKinds, at : Int, pending : BOOLEAN, saw : Nat,
                 since : Int]

NoticeRows == [debt : Debts, kind : ReminderKinds, at : Int, status : {"queued", "suppressed"},
               saw : Nat]

RemindersTypeOK ==
  /\ clock \in Int
  /\ scan \in [Scanners -> [step : {"idle", "next", "record"}, now : Int, todo : SUBSET Debts,
                            of : Debts, kind : ReminderKinds, saw : Nat]]
  /\ reminder \in Seq(ReminderRows)
  /\ claim \in [Dispatchers -> [step : {"idle", "dedup", "create", "commit"}, event : Nat,
                                saw : Nat]]
  /\ notice \in Seq(NoticeRows)

\* A scan about to record has found no reminder of the debt recent, of those it saw.
ScanStands(s) ==
  scan[s].step = "record" =>
    /\ scan[s].saw <= Len(reminder)
    /\ \A i \in DOMAIN reminder :
         reminder[i].debt = scan[s].of /\ reminder[i].kind = scan[s].kind =>
           \/ reminder[i].at < scan[s].now - WindowOf(scan[s].kind)
           \/ scan[s].saw < i

\* Whether a notice of a debt was out of reach of whoever looked when there were
\* no more than saw of them: too long ago, or behind as many as are read.
OutOfReach(i, saw, now) ==
  \/ now - notice[i].at > WindowOf(notice[i].kind)
  \/ saw < i
  \/ Cardinality(LaterOfKind(i)) >= RowsScanned

\* A gate holds an event, and one about to create a notice has found none in reach.
GateStands(w) ==
  /\ claim[w].step # "idle" => claim[w].event \in DOMAIN reminder
  /\ claim[w].step = "create" =>
       /\ claim[w].saw <= Len(notice)
       /\ \A i \in DOMAIN notice :
            notice[i].debt = reminder[claim[w].event].debt
              /\ notice[i].kind = reminder[claim[w].event].kind
            => OutOfReach(i, claim[w].saw, clock)

RemindersInv ==
  /\ RemindersTypeOK
  /\ \A s \in Scanners : ScanStands(s)
  /\ \A w \in Dispatchers : GateStands(w)
  /\ RemindersKeepTheirDistance

LEMMA WindowIs == \A kind : WindowOf(kind) \in Nat
  BY RemindersAssumption DEF WindowOf

LEMMA ReminderKindIs ==
  ASSUME NEW d \in Debts, NEW now PROVE Condition(d, now) \in ReminderKinds
  BY DEF Condition, ReminderKinds

LEMMA NoScanIs ==
  /\ NoScan \in [step : {"idle", "next", "record"}, now : Int, todo : SUBSET Debts,
                 of : Debts, kind : ReminderKinds, saw : Nat]
  /\ NoScan.step = "idle"
  BY RemindersAssumption DEF NoScan, ReminderKinds

LEMMA NoGateIs ==
  /\ NoGate \in [step : {"idle", "dedup", "create", "commit"}, event : Nat, saw : Nat]
  /\ NoGate.step = "idle"
  BY DEF NoGate, NoReminder

\* A row added keeps those before it.
LEMMA RowAdded ==
  ASSUME NEW R, NEW rows \in Seq(R), NEW row \in R
  PROVE  /\ Append(rows, row) \in Seq(R) /\ Len(Append(rows, row)) = Len(rows) + 1
         /\ DOMAIN Append(rows, row) = DOMAIN rows \cup {Len(rows) + 1}
         /\ Append(rows, row)[Len(rows) + 1] = row
         /\ \A i \in DOMAIN rows : Append(rows, row)[i] = rows[i] /\ i \in 1..Len(rows)
  OBVIOUS

LEMMA LaterIsFinite ==
  ASSUME RemindersTypeOK, NEW i
  PROVE  LaterOfKind(i) \subseteq 1..Len(notice) /\ IsFiniteSet(LaterOfKind(i))
  <1>1. LaterOfKind(i) \subseteq 1..Len(notice)
    BY DEF LaterOfKind, OfKind, RemindersTypeOK
  <1>2. IsFiniteSet(1..Len(notice))
    BY FS_Interval DEF RemindersTypeOK
  <1> QED
    BY <1>1, <1>2, FS_Subset

LEMMA LaterIsFiniteNext ==
  ASSUME RemindersTypeOK', NEW i
  PROVE  IsFiniteSet(LaterOfKind(i)')
  <1>1. LaterOfKind(i)' \subseteq 1..Len(notice')
    BY DEF LaterOfKind, OfKind, RemindersTypeOK
  <1>2. IsFiniteSet(1..Len(notice'))
    BY FS_Interval DEF RemindersTypeOK
  <1> QED
    BY <1>1, <1>2, FS_Subset

-----------------------------------------------------------------------------
LEMMA InitRemindersInv == RemindersInit => RemindersInv
  <1> SUFFICES ASSUME RemindersInit PROVE RemindersInv
    OBVIOUS
  <1>1. RemindersTypeOK
    BY NoScanIs, NoGateIs DEF RemindersInit, RemindersTypeOK
  <1>2. (\A s \in Scanners : ScanStands(s)) /\ (\A w \in Dispatchers : GateStands(w))
    BY NoScanIs, NoGateIs DEF RemindersInit, ScanStands, GateStands
  <1>3. RemindersKeepTheirDistance
    BY DEF RemindersInit, RemindersKeepTheirDistance
  <1> QED
    BY <1>1, <1>2, <1>3 DEF RemindersInv

\* Rows are added to what there is, and only whether a reminder is pending changes.
RemindersKept ==
  /\ DOMAIN reminder \subseteq DOMAIN reminder'
  /\ \A i \in DOMAIN reminder :
       /\ reminder'[i].debt = reminder[i].debt /\ reminder'[i].kind = reminder[i].kind
       /\ reminder'[i].at = reminder[i].at /\ reminder'[i].saw = reminder[i].saw
       /\ reminder'[i].since = reminder[i].since

NoticesKept ==
  /\ Len(notice) <= Len(notice')
  /\ \A i \in DOMAIN notice : i \in DOMAIN notice' /\ notice'[i] = notice[i]

LEMMA NoticeIs ==
  ASSUME RemindersTypeOK, NEW i \in DOMAIN notice
  PROVE  /\ notice[i] \in NoticeRows /\ notice[i].at \in Int /\ notice[i].saw \in Nat
         /\ WindowOf(notice[i].kind) \in Nat /\ i \in 1..Len(notice) /\ Len(notice) \in Nat
  <1>1. notice[i] \in NoticeRows /\ i \in 1..Len(notice) /\ Len(notice) \in Nat
    BY DEF RemindersTypeOK
  <1> QED
    BY <1>1, WindowIs DEF NoticeRows

LEMMA ReminderIs ==
  ASSUME RemindersTypeOK, NEW i \in DOMAIN reminder
  PROVE  /\ reminder[i] \in ReminderRows /\ reminder[i].at \in Int /\ reminder[i].since \in Int
         /\ WindowOf(reminder[i].kind) \in Nat /\ i \in 1..Len(reminder) /\ Len(reminder) \in Nat
  <1>1. reminder[i] \in ReminderRows /\ i \in 1..Len(reminder) /\ Len(reminder) \in Nat
    BY DEF RemindersTypeOK
  <1> QED
    BY <1>1, WindowIs DEF ReminderRows

\* Time does not run back, so what was out of reach stays so.
LEMMA StaysOutOfReach ==
  ASSUME RemindersTypeOK, RemindersTypeOK', NoticesKept, NEW i \in DOMAIN notice, NEW saw,
         NEW now \in Int, NEW later \in Int, now <= later, OutOfReach(i, saw, now)
  PROVE  \/ later - notice'[i].at > WindowOf(notice'[i].kind)
         \/ saw < i
         \/ Cardinality(LaterOfKind(i)') >= RowsScanned
  <1>1. CASE now - notice[i].at > WindowOf(notice[i].kind)
    <2>1. notice'[i] = notice[i] /\ notice[i].at \in Int /\ WindowOf(notice[i].kind) \in Nat
      BY NoticeIs DEF NoticesKept
    <2> QED
      BY <1>1, <2>1
  <1>2. CASE Cardinality(LaterOfKind(i)) >= RowsScanned
    <2>1. LaterOfKind(i) \subseteq LaterOfKind(i)'
      BY DEF NoticesKept, LaterOfKind, OfKind
    <2>2. /\ Cardinality(LaterOfKind(i)) \in Nat /\ Cardinality(LaterOfKind(i)') \in Nat
          /\ Cardinality(LaterOfKind(i)) <= Cardinality(LaterOfKind(i)')
      <3>1. IsFiniteSet(LaterOfKind(i)) /\ IsFiniteSet(LaterOfKind(i)')
        BY LaterIsFinite, LaterIsFiniteNext
      <3> QED
        BY <2>1, <3>1, FS_Subset, FS_CardinalityType
    <2> QED
      BY <1>2, <2>2, RemindersAssumption
  <1> QED
    BY <1>1, <1>2 DEF OutOfReach

\* A step that keeps what is there and looks for nothing disturbs no gate.
LEMMA GatesStayStanding ==
  ASSUME RemindersTypeOK, RemindersTypeOK', RemindersKept, NoticesKept, clock <= clock',
         NEW w \in Dispatchers, GateStands(w), claim'[w] = claim[w]
  PROVE  GateStands(w)'
  <1>1. claim'[w].step # "idle" => claim'[w].event \in DOMAIN reminder'
    BY DEF GateStands, RemindersKept
  <1>2. ASSUME claim'[w].step = "create"
        PROVE  /\ claim'[w].saw <= Len(notice')
               /\ \A i \in DOMAIN notice' :
                    notice'[i].debt = reminder'[claim'[w].event].debt
                      /\ notice'[i].kind = reminder'[claim'[w].event].kind
                    => OutOfReach(i, claim[w].saw, clock)'
    <2>1. /\ claim[w].step = "create" /\ claim[w].event \in DOMAIN reminder
          /\ claim[w].saw <= Len(notice) /\ claim[w].saw \in Nat
      BY <1>2 DEF GateStands, RemindersTypeOK
    <2>2. /\ Len(notice) \in Nat /\ Len(notice') \in Nat /\ clock \in Int /\ clock' \in Int
          /\ DOMAIN notice = 1..Len(notice) /\ DOMAIN notice' = 1..Len(notice')
      BY DEF RemindersTypeOK
    <2>3. claim'[w].saw <= Len(notice')
      BY <2>1, <2>2 DEF NoticesKept
    <2>4. ASSUME NEW i \in DOMAIN notice', notice'[i].debt = reminder'[claim'[w].event].debt,
                 notice'[i].kind = reminder'[claim'[w].event].kind
          PROVE  OutOfReach(i, claim[w].saw, clock)'
      <3>1. CASE i \in DOMAIN notice
        <4>1. /\ notice[i].debt = reminder[claim[w].event].debt
              /\ notice[i].kind = reminder[claim[w].event].kind
          BY <2>1, <2>4, <3>1 DEF RemindersKept, NoticesKept
        <4>2. OutOfReach(i, claim[w].saw, clock)
          BY <2>1, <3>1, <4>1 DEF GateStands
        <4>3. \/ clock' - notice'[i].at > WindowOf(notice'[i].kind)
              \/ claim[w].saw < i
              \/ Cardinality(LaterOfKind(i)') >= RowsScanned
          BY <2>2, <3>1, <4>2, StaysOutOfReach
        <4> QED
          BY <4>3 DEF OutOfReach, WindowOf
      <3>2. CASE i \notin DOMAIN notice
        <4>1. claim[w].saw < i
          BY <2>1, <2>2, <2>4, <3>2
        <4> QED
          BY <4>1 DEF OutOfReach
      <3> QED
        BY <3>1, <3>2
    <2> QED
      BY <2>3, <2>4
  <1> QED
    BY <1>1, <1>2 DEF GateStands

\* ... and no scan.
LEMMA ScansStayStanding ==
  ASSUME RemindersTypeOK, RemindersTypeOK', RemindersKept,
         NEW s \in Scanners, ScanStands(s), scan'[s] = scan[s]
  PROVE  ScanStands(s)'
  <1> SUFFICES ASSUME scan[s].step = "record" PROVE ScanStands(s)'
    BY DEF ScanStands
  <1>1. /\ Len(reminder) \in Nat /\ Len(reminder') \in Nat /\ scan[s].saw \in Nat
        /\ DOMAIN reminder = 1..Len(reminder) /\ DOMAIN reminder' = 1..Len(reminder')
    BY DEF RemindersTypeOK
  <1>2. scan[s].saw <= Len(reminder) /\ Len(reminder) <= Len(reminder')
    <2>1. Len(reminder) # 0 => Len(reminder) \in DOMAIN reminder'
      BY <1>1 DEF RemindersKept
    <2> QED
      BY <1>1, <2>1 DEF ScanStands
  <1>3. ASSUME NEW i \in DOMAIN reminder', reminder'[i].debt = scan[s].of,
               reminder'[i].kind = scan[s].kind
        PROVE  reminder'[i].at < scan[s].now - WindowOf(scan[s].kind) \/ scan[s].saw < i
    <2>1. CASE i \in DOMAIN reminder
      BY <1>3, <2>1 DEF ScanStands, RemindersKept
    <2>2. CASE i \notin DOMAIN reminder
      BY <1>1, <1>2, <1>3, <2>2
    <2> QED
      BY <2>1, <2>2
  <1> QED
    BY <1>1, <1>2, <1>3 DEF ScanStands, WindowOf

\* The two parts of the property, and that they stay true of the rows there are.
EventsKeepTheirDistance ==
  \A i, j \in DOMAIN reminder :
    i < j /\ reminder[i].debt = reminder[j].debt /\ reminder[i].kind = reminder[j].kind
      => reminder[i].at < reminder[j].since - WindowOf(reminder[j].kind) \/ reminder[j].saw < i

NoticesKeepTheirDistance ==
  \A i, j \in DOMAIN notice :
    /\ i < j /\ notice[i].debt = notice[j].debt /\ notice[i].kind = notice[j].kind
    /\ notice[j].status = "queued"
    => \/ notice[j].at - notice[i].at > WindowOf(notice[j].kind)
       \/ notice[j].saw < i
       \/ Cardinality({k \in LaterOfKind(i) : k < j}) >= RowsScanned

LEMMA DistanceIsBoth ==
  RemindersKeepTheirDistance <=> EventsKeepTheirDistance /\ NoticesKeepTheirDistance
  BY DEF RemindersKeepTheirDistance, EventsKeepTheirDistance, NoticesKeepTheirDistance

LEMMA OldEventsKeepTheirDistance ==
  ASSUME EventsKeepTheirDistance, RemindersKept,
         NEW i \in DOMAIN reminder, NEW j \in DOMAIN reminder, i < j,
         reminder'[i].debt = reminder'[j].debt, reminder'[i].kind = reminder'[j].kind
  PROVE  reminder'[i].at < reminder'[j].since - WindowOf(reminder'[j].kind) \/ reminder'[j].saw < i
  BY DEF EventsKeepTheirDistance, RemindersKept

LEMMA OldNoticesKeepTheirDistance ==
  ASSUME RemindersTypeOK, RemindersTypeOK', NoticesKeepTheirDistance, NoticesKept,
         NEW i \in DOMAIN notice, NEW j \in DOMAIN notice, i < j,
         notice'[i].debt = notice'[j].debt, notice'[i].kind = notice'[j].kind,
         notice'[j].status = "queued"
  PROVE  \/ notice'[j].at - notice'[i].at > WindowOf(notice'[j].kind)
         \/ notice'[j].saw < i
         \/ Cardinality({k \in LaterOfKind(i)' : k < j}) >= RowsScanned
  <1>1. notice'[i] = notice[i] /\ notice'[j] = notice[j]
    BY DEF NoticesKept
  <1>2. {k \in LaterOfKind(i)' : k < j} = {k \in LaterOfKind(i) : k < j}
    <2>1. \A k \in DOMAIN notice' : k < j => k \in DOMAIN notice
      BY DEF RemindersTypeOK
    <2> QED
      BY <1>1, <2>1 DEF LaterOfKind, OfKind, NoticesKept
  <1> QED
    BY <1>1, <1>2 DEF NoticesKeepTheirDistance

LEMMA NothingAdded ==
  ASSUME RemindersInv, RemindersTypeOK', UNCHANGED <<reminder, notice>>
  PROVE  RemindersKept /\ NoticesKept /\ RemindersKeepTheirDistance'
  <1>1. RemindersKept
    BY DEF RemindersKept
  <1>2. NoticesKept
    BY DEF NoticesKept, RemindersInv, RemindersTypeOK
  <1>3. RemindersKeepTheirDistance'
    BY DEF RemindersInv, RemindersKeepTheirDistance, LaterOfKind, OfKind, WindowOf
  <1> QED
    BY <1>1, <1>2, <1>3

\* Steps of the clock, of a debt or of a scan that records nothing.
LEMMA ScanStepsStand ==
  ASSUME RemindersInv, RemindersTypeOK', UNCHANGED <<reminder, notice, claim>>, clock <= clock',
         \A s \in Scanners : scan'[s] = scan[s] \/ ScanStands(s)'
  PROVE  RemindersInv'
  <1>1. RemindersKept /\ NoticesKept /\ RemindersKeepTheirDistance'
    BY NothingAdded
  <1>2. \A w \in Dispatchers : GateStands(w)'
    BY <1>1, GatesStayStanding DEF RemindersInv
  <1>3. \A s \in Scanners : ScanStands(s)'
    BY <1>1, ScansStayStanding DEF RemindersInv
  <1> QED
    BY <1>1, <1>2, <1>3 DEF RemindersInv

\* Steps of a gate that write nothing but whether an event is pending.
LEMMA GateStepsStand ==
  ASSUME RemindersInv, RemindersTypeOK', RemindersKept, UNCHANGED <<notice, scan, clock>>,
         DOMAIN reminder' = DOMAIN reminder,
         \A w \in Dispatchers : claim'[w] = claim[w] \/ GateStands(w)'
  PROVE  RemindersInv'
  <1>1. NoticesKept
    BY DEF NoticesKept, RemindersInv, RemindersTypeOK
  <1>2. \A w \in Dispatchers : GateStands(w)'
    BY <1>1, GatesStayStanding DEF RemindersInv, RemindersTypeOK
  <1>3. \A s \in Scanners : ScanStands(s)'
    BY ScansStayStanding DEF RemindersInv
  <1>4. EventsKeepTheirDistance'
    BY OldEventsKeepTheirDistance, DistanceIsBoth DEF EventsKeepTheirDistance, RemindersInv, WindowOf
  <1>5. NoticesKeepTheirDistance'
    BY DistanceIsBoth DEF NoticesKeepTheirDistance, RemindersInv, LaterOfKind, OfKind, WindowOf
  <1> QED
    BY <1>2, <1>3, <1>4, <1>5, DistanceIsBoth DEF RemindersInv, EventsKeepTheirDistance,
       NoticesKeepTheirDistance, RemindersKeepTheirDistance

LEMMA ScanKeepsRemindersInv ==
  ASSUME RemindersInv, NEW s \in Scanners,
         FindCandidates(s) \/ ScanEnds(s) \/ \E d \in Debts : Consider(s, d)
  PROVE  RemindersInv'
  <1>0. RemindersTypeOK /\ UNCHANGED <<reminder, notice, claim, clock>>
    BY DEF RemindersInv, FindCandidates, ScanEnds, Consider
  <1>1. CASE FindCandidates(s)
    <2>1. RemindersTypeOK'
      <3> DEFINE found == [scan[s] EXCEPT !.step = "next", !.now = clock, !.todo = Candidates(clock)]
      <3>1. scan' = [scan EXCEPT ![s] = found]
        BY <1>0, <1>1 DEF FindCandidates, RemindersTypeOK
      <3>2. found \in [step : {"idle", "next", "record"}, now : Int, todo : SUBSET Debts,
                       of : Debts, kind : ReminderKinds, saw : Nat]
        BY <1>0 DEF RemindersTypeOK, Candidates
      <3> HIDE DEF found
      <3> QED
        BY <1>0, <3>1, <3>2 DEF RemindersTypeOK
    <2>2. \A r \in Scanners : scan'[r] = scan[r] \/ ScanStands(r)'
      BY <1>0, <1>1 DEF FindCandidates, ScanStands, RemindersTypeOK
    <2> QED
      BY <1>0, <2>1, <2>2, ScanStepsStand DEF RemindersTypeOK
  <1>2. CASE ScanEnds(s)
    <2>1. RemindersTypeOK'
      BY <1>0, <1>2, NoScanIs DEF ScanEnds, RemindersTypeOK
    <2>2. \A r \in Scanners : scan'[r] = scan[r] \/ ScanStands(r)'
      BY <1>0, <1>2, NoScanIs DEF ScanEnds, ScanStands, RemindersTypeOK
    <2> QED
      BY <1>0, <2>1, <2>2, ScanStepsStand DEF RemindersTypeOK
  <1>3. ASSUME NEW d \in Debts, Consider(s, d)
        PROVE  RemindersInv'
    <2> DEFINE kind == Condition(d, scan[s].now)
    <2>0. /\ kind \in ReminderKinds /\ Len(reminder) \in Nat /\ scan[s].now \in Int
          /\ scan[s].step = "next" /\ WindowOf(kind) \in Nat
      BY <1>0, <1>3, ReminderKindIs, WindowIs DEF RemindersTypeOK, Consider
    <2> HIDE DEF kind
    <2>1. CASE RecentlyRecorded(d, kind, scan[s].now)
      <3>1. scan' = [scan EXCEPT ![s] = [scan[s] EXCEPT !.todo = @ \ {d}]]
        BY <1>3, <2>1 DEF Consider, kind
      <3>2. RemindersTypeOK'
        BY <1>0, <3>1 DEF RemindersTypeOK
      <3>3. \A r \in Scanners : scan'[r] = scan[r] \/ ScanStands(r)'
        BY <1>0, <2>0, <3>1 DEF ScanStands, RemindersTypeOK
      <3> QED
        BY <1>0, <3>2, <3>3, ScanStepsStand DEF RemindersTypeOK
    <2>2. CASE ~ RecentlyRecorded(d, kind, scan[s].now)
      <3>1. scan' = [scan EXCEPT ![s] =
                       [step |-> "record", now |-> scan[s].now, todo |-> scan[s].todo \ {d},
                        of |-> d, kind |-> kind, saw |-> Len(reminder)]]
        BY <1>3, <2>2 DEF Consider, kind
      <3>2. RemindersTypeOK'
        BY <1>0, <2>0, <3>1 DEF RemindersTypeOK
      <3>3. ASSUME NEW i \in DOMAIN reminder, reminder[i].debt = d, reminder[i].kind = kind
            PROVE  reminder[i].at < scan[s].now - WindowOf(kind)
        BY <1>0, <2>0, <2>2, <3>3, ReminderIs DEF RecentlyRecorded
      <3>4. ScanStands(s)'
        <4>1. /\ scan'[s].saw = Len(reminder) /\ scan'[s].of = d /\ scan'[s].kind = kind
              /\ scan'[s].now = scan[s].now
          BY <1>0, <3>1 DEF RemindersTypeOK
        <4> QED
          BY <1>0, <2>0, <3>3, <4>1 DEF ScanStands, WindowOf
      <3>5. \A r \in Scanners : scan'[r] = scan[r] \/ ScanStands(r)'
        BY <1>0, <3>1, <3>4 DEF RemindersTypeOK
      <3> QED
        BY <1>0, <3>2, <3>5, ScanStepsStand DEF RemindersTypeOK
    <2> QED
      BY <2>1, <2>2
  <1> QED
    BY <1>1, <1>2, <1>3

LEMMA RecordKeepsRemindersInv ==
  ASSUME RemindersInv, NEW s \in Scanners, RecordEvent(s)
  PROVE  RemindersInv'
  <1> DEFINE row == [debt |-> scan[s].of, kind |-> scan[s].kind, at |-> clock, pending |-> TRUE,
                     saw |-> scan[s].saw, since |-> scan[s].now]
             n == Len(reminder) + 1
  <1>0. /\ RemindersTypeOK /\ UNCHANGED <<notice, claim, clock>> /\ scan[s].step = "record"
        /\ reminder' = Append(reminder, row) /\ ScanStands(s)
    BY DEF RemindersInv, RecordEvent
  <1>1. row \in ReminderRows /\ reminder \in Seq(ReminderRows)
    BY <1>0 DEF RemindersTypeOK, ReminderRows
  <1>2. /\ reminder' \in Seq(ReminderRows) /\ Len(reminder') = n /\ reminder'[n] = row
        /\ DOMAIN reminder' = DOMAIN reminder \cup {n} /\ n \notin DOMAIN reminder
        /\ \A i \in DOMAIN reminder : reminder'[i] = reminder[i] /\ i < n
    <2> HIDE DEF row
    <2> QED
      BY <1>0, <1>1, RowAdded
  <1>3. \E c \in [step : {"idle", "next", "record"}, now : Int, todo : SUBSET Debts, of : Debts,
                  kind : ReminderKinds, saw : Nat] :
          c.step = "next" /\ scan' = [scan EXCEPT ![s] = c]
    <2>1. [NoScan EXCEPT !.step = "next", !.now = scan[s].now, !.todo = scan[s].todo]
            \in [step : {"idle", "next", "record"}, now : Int, todo : SUBSET Debts, of : Debts,
                 kind : ReminderKinds, saw : Nat]
      BY <1>0, NoScanIs DEF RemindersTypeOK
    <2>2. [NoScan EXCEPT !.step = "next", !.now = scan[s].now, !.todo = scan[s].todo].step = "next"
      BY DEF NoScan
    <2> QED
      BY <2>1, <2>2 DEF RecordEvent
  <1>4. RemindersTypeOK'
    BY <1>0, <1>2, <1>3 DEF RemindersTypeOK
  <1>5. RemindersKept
    BY <1>2 DEF RemindersKept
  <1>6. NoticesKept /\ clock <= clock'
    BY <1>0 DEF NoticesKept, RemindersTypeOK
  <1>7. \A w \in Dispatchers : GateStands(w)'
    BY <1>0, <1>4, <1>5, <1>6, GatesStayStanding DEF RemindersInv
  <1>8. \A r \in Scanners : ScanStands(r)'
    <2>1. \A r \in Scanners : scan'[r] = scan[r] \/ ScanStands(r)'
      BY <1>0, <1>3 DEF RemindersTypeOK, ScanStands
    <2> QED
      BY <1>0, <1>4, <1>5, <2>1, ScansStayStanding DEF RemindersInv
  <1>9. EventsKeepTheirDistance'
    <2> SUFFICES ASSUME NEW i \in DOMAIN reminder', NEW j \in DOMAIN reminder', i < j,
                        reminder'[i].debt = reminder'[j].debt,
                        reminder'[i].kind = reminder'[j].kind
                 PROVE  \/ reminder'[i].at < reminder'[j].since - WindowOf(reminder'[j].kind)
                        \/ reminder'[j].saw < i
      BY DEF EventsKeepTheirDistance, WindowOf
    <2>1. i \in DOMAIN reminder
      BY <1>2, <1>1
    <2>2. CASE j \in DOMAIN reminder
      BY <1>5, <2>1, <2>2, OldEventsKeepTheirDistance, DistanceIsBoth DEF RemindersInv
    <2>3. CASE j = n
      <3>1. /\ reminder'[j] = row /\ reminder'[i] = reminder[i]
        BY <1>2, <2>1, <2>3
      <3>2. /\ row.debt = scan[s].of /\ row.kind = scan[s].kind /\ row.saw = scan[s].saw
            /\ row.since = scan[s].now
        OBVIOUS
      <3> QED
        BY <1>0, <2>1, <3>1, <3>2 DEF ScanStands
    <2> QED
      BY <1>2, <2>2, <2>3
  <1>10. NoticesKeepTheirDistance'
    BY <1>0, DistanceIsBoth DEF NoticesKeepTheirDistance, RemindersInv, LaterOfKind, OfKind, WindowOf
  <1> QED
    BY <1>4, <1>7, <1>8, <1>9, <1>10 DEF RemindersInv, EventsKeepTheirDistance,
       NoticesKeepTheirDistance, RemindersKeepTheirDistance

\* A notice added by gate w, which goes on to commit.
LEMMA NoticeAdded ==
  ASSUME RemindersInv, NEW w \in Dispatchers, NEW row \in NoticeRows,
         claim[w].step \in {"dedup", "create"}, notice' = Append(notice, row),
         claim' = [claim EXCEPT ![w].step = "commit"],
         UNCHANGED <<clock, scan, reminder>>,
         row.status = "queued" =>
           \A i \in DOMAIN notice :
             notice[i].debt = row.debt /\ notice[i].kind = row.kind
               => \/ row.at - notice[i].at > WindowOf(row.kind)
                  \/ row.saw < i
                  \/ Cardinality(LaterOfKind(i)) >= RowsScanned
  PROVE  RemindersInv'
  <1> DEFINE n == Len(notice) + 1
  <1>0. RemindersTypeOK
    BY DEF RemindersInv
  <1>1. /\ notice' \in Seq(NoticeRows) /\ Len(notice') = n /\ notice'[n] = row
        /\ DOMAIN notice' = DOMAIN notice \cup {n} /\ Len(notice) \in Nat
        /\ \A i \in DOMAIN notice : notice'[i] = notice[i] /\ i < n
    BY <1>0, RowAdded DEF RemindersTypeOK
  <1>2. RemindersTypeOK'
    BY <1>0, <1>1 DEF RemindersTypeOK
  <1>3. NoticesKept /\ RemindersKept /\ clock <= clock'
    BY <1>0, <1>1 DEF NoticesKept, RemindersKept, RemindersTypeOK
  <1>4. \A s \in Scanners : ScanStands(s)'
    BY <1>0, <1>2, <1>3, ScansStayStanding DEF RemindersInv
  <1>5. \A v \in Dispatchers : GateStands(v)'
    <2>1. GateStands(w)'
      BY <1>0 DEF GateStands, RemindersInv, RemindersTypeOK
    <2>2. \A v \in Dispatchers : v # w => claim'[v] = claim[v]
      BY <1>0 DEF RemindersTypeOK
    <2> QED
      BY <1>0, <1>2, <1>3, <2>1, <2>2, GatesStayStanding DEF RemindersInv
  <1>6. EventsKeepTheirDistance'
    BY DistanceIsBoth DEF EventsKeepTheirDistance, RemindersInv, WindowOf
  <1>7. NoticesKeepTheirDistance'
    <2> SUFFICES ASSUME NEW i \in DOMAIN notice', NEW j \in DOMAIN notice', i < j,
                        notice'[i].debt = notice'[j].debt, notice'[i].kind = notice'[j].kind,
                        notice'[j].status = "queued"
                 PROVE  \/ notice'[j].at - notice'[i].at > WindowOf(notice'[j].kind)
                        \/ notice'[j].saw < i
                        \/ Cardinality({k \in LaterOfKind(i)' : k < j}) >= RowsScanned
      BY DEF NoticesKeepTheirDistance, WindowOf
    <2>1. i \in DOMAIN notice
      BY <1>1
    <2>2. CASE j \in DOMAIN notice
      BY <1>0, <1>2, <1>3, <2>1, <2>2, OldNoticesKeepTheirDistance, DistanceIsBoth DEF RemindersInv
    <2>3. CASE j = n
      <3>1. notice'[j] = row /\ notice'[i] = notice[i]
        BY <1>1, <2>1, <2>3
      <3>2. {k \in LaterOfKind(i)' : k < n} = LaterOfKind(i)
        BY <1>1, <2>1 DEF LaterOfKind, OfKind
      <3> QED
        BY <2>1, <2>3, <3>1, <3>2
    <2> QED
      BY <1>1, <2>2, <2>3
  <1> QED
    BY <1>2, <1>4, <1>5, <1>6, <1>7 DEF RemindersInv, EventsKeepTheirDistance,
       NoticesKeepTheirDistance, RemindersKeepTheirDistance

LEMMA NoticeIsOne ==
  ASSUME RemindersTypeOK, NEW e \in DOMAIN reminder, NEW status \in {"queued", "suppressed"},
         NEW saw \in Nat
  PROVE  /\ Notice(e, status, saw) \in NoticeRows /\ Notice(e, status, saw).status = status
         /\ Notice(e, status, saw).debt = reminder[e].debt /\ Notice(e, status, saw).saw = saw
         /\ Notice(e, status, saw).kind = reminder[e].kind /\ Notice(e, status, saw).at = clock
  BY ReminderIs DEF Notice, NoticeRows, ReminderRows, RemindersTypeOK

LEMMA GateKeepsRemindersInv ==
  ASSUME RemindersInv, NEW w \in Dispatchers,
         ClaimOldest(w) \/ GateDecides(w) \/ GateCreates(w) \/ GateCommits(w) \/ GateFails(w)
  PROVE  RemindersInv'
  <1> DEFINE e == claim[w].event
  <1>0. RemindersTypeOK /\ GateStands(w) /\ UNCHANGED <<clock, scan>> /\ claim[w].saw \in Nat
    BY DEF RemindersInv, RemindersTypeOK, ClaimOldest, GateDecides, GateCreates, GateCommits, GateFails
  <1>1. CASE ClaimOldest(w)
    <2>1. PICK i \in DOMAIN reminder :
            claim' = [claim EXCEPT ![w] = [NoGate EXCEPT !.step = "dedup", !.event = i]]
      BY <1>1 DEF ClaimOldest
    <2>2. /\ i \in Nat
          /\ [NoGate EXCEPT !.step = "dedup", !.event = i]
               \in [step : {"idle", "dedup", "create", "commit"}, event : Nat, saw : Nat]
          /\ [NoGate EXCEPT !.step = "dedup", !.event = i].step = "dedup"
          /\ [NoGate EXCEPT !.step = "dedup", !.event = i].event = i
      <3>1. i \in Nat
        BY <1>0 DEF RemindersTypeOK
      <3> QED
        BY <3>1 DEF NoGate, NoReminder
    <2>3. RemindersTypeOK' /\ UNCHANGED <<reminder, notice>>
      BY <1>0, <1>1, <2>1, <2>2 DEF RemindersTypeOK, ClaimOldest
    <2>4. \A v \in Dispatchers : claim'[v] = claim[v] \/ GateStands(v)'
      BY <1>0, <2>1, <2>2, <2>3 DEF GateStands, RemindersTypeOK
    <2>5. RemindersKept
      BY <2>3 DEF RemindersKept
    <2> QED
      BY <1>0, <2>3, <2>4, <2>5, GateStepsStand
  <1>2. CASE GateDecides(w)
    <2>0. claim[w].step = "dedup" /\ e \in DOMAIN reminder /\ UNCHANGED reminder
      BY <1>0, <1>2 DEF GateDecides, GateStands
    <2>1. CASE RecentlyReminded(e)
      <3>1. /\ notice' = Append(notice, Notice(e, "suppressed", Len(notice)))
            /\ claim' = [claim EXCEPT ![w].step = "commit"]
        BY <1>2, <2>1 DEF GateDecides
      <3>2. Len(notice) \in Nat
        BY <1>0 DEF RemindersTypeOK
      <3>3. /\ Notice(e, "suppressed", Len(notice)) \in NoticeRows
            /\ Notice(e, "suppressed", Len(notice)).status = "suppressed"
        BY <1>0, <2>0, <3>2, NoticeIsOne
      <3> QED
        BY <1>0, <2>0, <3>1, <3>3, NoticeAdded
    <2>2. CASE ~ RecentlyReminded(e)
      <3>1. /\ claim' = [claim EXCEPT ![w].step = "create", ![w].saw = Len(notice)]
            /\ UNCHANGED notice
        BY <1>2, <2>2 DEF GateDecides
      <3>2. Len(notice) \in Nat /\ clock \in Int
        BY <1>0 DEF RemindersTypeOK
      <3>3. RemindersTypeOK'
        <4> DEFINE looked == [claim[w] EXCEPT !.step = "create", !.saw = Len(notice)]
        <4>1. claim' = [claim EXCEPT ![w] = looked]
          BY <1>0, <3>1 DEF RemindersTypeOK
        <4>2. looked \in [step : {"idle", "dedup", "create", "commit"}, event : Nat, saw : Nat]
          BY <1>0, <3>2 DEF RemindersTypeOK
        <4> HIDE DEF looked
        <4> QED
          BY <1>0, <2>0, <3>1, <4>1, <4>2 DEF RemindersTypeOK
      <3>4. ASSUME NEW i \in DOMAIN notice, notice[i].debt = reminder[e].debt,
                   notice[i].kind = reminder[e].kind
            PROVE  OutOfReach(i, Len(notice), clock)
        <4>1. notice[i].at \in Int /\ WindowOf(notice[i].kind) \in Nat
          BY <1>0, NoticeIs
        <4>2. Cardinality(LaterOfKind(i)) \in Nat /\ RowsScanned \in Nat
          BY <1>0, LaterIsFinite, FS_CardinalityType, RemindersAssumption
        <4>3. \/ ~ (notice[i].at >= clock - WindowOf(notice[i].kind))
              \/ ~ (Cardinality(LaterOfKind(i)) < RowsScanned)
          BY <2>2, <3>4 DEF RecentlyReminded, OfKind
        <4> QED
          BY <3>2, <4>1, <4>2, <4>3 DEF OutOfReach
      <3>5. GateStands(w)'
        <4>1. /\ claim'[w].step = "create" /\ claim'[w].saw = Len(notice)
              /\ claim'[w].event = e
          BY <1>0, <3>1 DEF RemindersTypeOK
        <4> HIDE DEF e
        <4>2. \A i \in DOMAIN notice' :
                notice'[i].debt = reminder'[claim'[w].event].debt
                  /\ notice'[i].kind = reminder'[claim'[w].event].kind
                => \/ clock' - notice'[i].at > WindowOf(notice'[i].kind)
                   \/ claim'[w].saw < i
                   \/ Cardinality(LaterOfKind(i)') >= RowsScanned
          BY <1>0, <2>0, <3>1, <3>4, <4>1 DEF OutOfReach, LaterOfKind, OfKind
        <4>3. claim'[w].event \in DOMAIN reminder' /\ claim'[w].saw <= Len(notice')
          BY <2>0, <3>1, <3>2, <4>1
        <4> QED
          BY <4>2, <4>3 DEF GateStands, OutOfReach, WindowOf
      <3>6. \A v \in Dispatchers : claim'[v] = claim[v] \/ GateStands(v)'
        BY <1>0, <3>1, <3>5 DEF RemindersTypeOK
      <3>7. RemindersKept
        BY <2>0 DEF RemindersKept
      <3> QED
        BY <1>0, <2>0, <3>1, <3>3, <3>6, <3>7, GateStepsStand
    <2> QED
      BY <2>1, <2>2
  <1>3. CASE GateCreates(w)
    <2>1. /\ claim[w].step = "create" /\ e \in DOMAIN reminder /\ UNCHANGED reminder
          /\ notice' = Append(notice, Notice(e, "queued", claim[w].saw))
          /\ claim' = [claim EXCEPT ![w].step = "commit"]
      BY <1>0, <1>3 DEF GateCreates, GateStands
    <2> DEFINE row == Notice(e, "queued", claim[w].saw)
    <2>2. /\ row \in NoticeRows /\ row.debt = reminder[e].debt /\ row.kind = reminder[e].kind
          /\ row.at = clock /\ row.saw = claim[w].saw
      BY <1>0, <2>1, NoticeIsOne
    <2>3. \A i \in DOMAIN notice :
            notice[i].debt = row.debt /\ notice[i].kind = row.kind
              => \/ row.at - notice[i].at > WindowOf(row.kind)
                 \/ row.saw < i
                 \/ Cardinality(LaterOfKind(i)) >= RowsScanned
      <3> HIDE DEF row
      <3> QED
        BY <1>0, <2>1, <2>2 DEF GateStands, OutOfReach
    <2> HIDE DEF row
    <2> QED
      BY <1>0, <2>1, <2>2, <2>3, NoticeAdded DEF row
  <1>4. CASE GateCommits(w)
    <2>1. /\ reminder' = [reminder EXCEPT ![e].pending = FALSE] /\ UNCHANGED notice
          /\ claim' = [claim EXCEPT ![w] = NoGate] /\ e \in DOMAIN reminder
      BY <1>0, <1>4 DEF GateCommits, GateStands
    <2>2. /\ reminder' \in Seq(ReminderRows) /\ DOMAIN reminder' = DOMAIN reminder
          /\ \A i \in DOMAIN reminder :
               /\ reminder'[i].debt = reminder[i].debt /\ reminder'[i].kind = reminder[i].kind
               /\ reminder'[i].at = reminder[i].at /\ reminder'[i].saw = reminder[i].saw
               /\ reminder'[i].since = reminder[i].since
      <3>1. [reminder[e] EXCEPT !.pending = FALSE] \in ReminderRows
        BY <1>0, <2>1, ReminderIs DEF ReminderRows
      <3>2. reminder' = [reminder EXCEPT ![e] = [reminder[e] EXCEPT !.pending = FALSE]]
        BY <2>1
      <3>3. reminder' \in Seq(ReminderRows) /\ DOMAIN reminder' = DOMAIN reminder
        BY <1>0, <2>1, <3>1, <3>2 DEF RemindersTypeOK
      <3>4. \A i \in DOMAIN reminder :
              reminder'[i] = IF i = e THEN [reminder[e] EXCEPT !.pending = FALSE] ELSE reminder[i]
        BY <2>1, <3>2
      <3> QED
        BY <1>0, <2>1, <3>3, <3>4, ReminderIs DEF ReminderRows
    <2>3. RemindersTypeOK'
      BY <1>0, <2>1, <2>2, NoGateIs DEF RemindersTypeOK
    <2>4. RemindersKept
      BY <2>2 DEF RemindersKept
    <2>5. \A v \in Dispatchers : claim'[v] = claim[v] \/ GateStands(v)'
      BY <1>0, <2>1, NoGateIs DEF GateStands, RemindersTypeOK
    <2> QED
      BY <1>0, <2>1, <2>2, <2>3, <2>4, <2>5, GateStepsStand
  <1>5. CASE GateFails(w)
    <2>1. claim' = [claim EXCEPT ![w] = NoGate] /\ UNCHANGED <<reminder, notice>>
      BY <1>5 DEF GateFails
    <2>2. RemindersTypeOK'
      BY <1>0, <2>1, NoGateIs DEF RemindersTypeOK
    <2>3. \A v \in Dispatchers : claim'[v] = claim[v] \/ GateStands(v)'
      BY <1>0, <2>1, NoGateIs DEF GateStands, RemindersTypeOK
    <2>4. RemindersKept
      BY <2>1 DEF RemindersKept
    <2> QED
      BY <1>0, <2>1, <2>2, <2>3, <2>4, GateStepsStand
  <1> QED
    BY <1>1, <1>2, <1>3, <1>4, <1>5

LEMMA NextRemindersInv == RemindersInv /\ [RemindersNext]_reminderVars => RemindersInv'
  <1> SUFFICES ASSUME RemindersInv, [RemindersNext]_reminderVars PROVE RemindersInv'
    OBVIOUS
  <1>0. RemindersTypeOK
    BY DEF RemindersInv
  <1>1. CASE Tick \/ (\E d \in Debts : SettleDebt(d)) \/ UNCHANGED reminderVars
    <2>1. /\ UNCHANGED <<reminder, notice, claim, scan>> /\ clock <= clock' /\ RemindersTypeOK'
      BY <1>0, <1>1 DEF Tick, SettleDebt, reminderVars, RemindersTypeOK
    <2> QED
      BY <2>1, ScanStepsStand
  <1>2. ASSUME NEW s \in Scanners,
               FindCandidates(s) \/ RecordEvent(s) \/ ScanEnds(s) \/ \E d \in Debts : Consider(s, d)
        PROVE  RemindersInv'
    BY <1>2, ScanKeepsRemindersInv, RecordKeepsRemindersInv
  <1>3. ASSUME NEW w \in Dispatchers,
               \/ ClaimOldest(w) \/ GateDecides(w) \/ GateCreates(w) \/ GateCommits(w)
               \/ GateFails(w)
        PROVE  RemindersInv'
    BY <1>3, GateKeepsRemindersInv
  <1> QED
    BY <1>1, <1>2, <1>3 DEF RemindersNext

\* The inductive invariant of scans and gates: what each has seen before it writes.
THEOREM RemindersStand == RemindersSpec => []RemindersInv
  BY InitRemindersInv, NextRemindersInv, PTL DEF RemindersSpec

\* RemindersKeepTheirDistance: for any debts, windows, scans, gates and number of
\* rows the dedup query reads, two reminders or notices of a debt that are closer than
\* the window are one of a look that came before the other's row, or out of its reach.
THEOREM RemindersStayApart == RemindersSpec => []RemindersKeepTheirDistance
  BY RemindersStand, PTL DEF RemindersInv
=============================================================================
