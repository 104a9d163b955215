------------------------- MODULE NotificationPipeline -------------------------
(****************************************************************************)
(* From a domain event to a Telegram message: NotificationDeliveryConsumer  *)
(* inside the dispatcher of DomainEventOutbox, the BullMQ delivery queue,   *)
(* and NotificationDeliveryProcessor in the bot.                            *)
(*                                                                          *)
(* The consumer's writes are not part of the claim transaction: a           *)
(* notifications row, once created, stays although the claim is rolled      *)
(* back.  The delivery queue and Telegram are external: a job is handed out *)
(* again after a failure or a stall, and a send may be answered with an     *)
(* error though the message went out.                                       *)
(*                                                                          *)
(* One user.  All events fall within one deduplication window.              *)
(****************************************************************************)
EXTENDS DomainEventOutbox

CONSTANTS
  Subjects,    \* what a notification is about: event type and dedup key
  MaxNotes,    \* bound on notifications rows
  MaxScanned,  \* MAX_RECENT_ROWS_SCANNED of the dedup query
  Senders,     \* delivery processors
  MaxTries,    \* attempts of a delivery job
  MaxStalls    \* stalls the queue forgives a job (maxStalledCount)

ASSUME PipelineAssumption ==
  /\ MaxNotes \in Nat /\ MaxScanned \in Nat /\ MaxStalls \in Nat
  /\ MaxTries \in Nat \ {0}

VARIABLES
  about,     \* [Events -> Subjects], in the event's payload
  user,      \* the users row and the purge sweep over the user's data
  enabled,   \* the user's notification preference
  note,      \* the notifications table, ids in creation order
  gate,      \* how far each worker's consumer call has come
  job,       \* the delivery queue, job id = notification id
  sender,    \* one delivery processor each
  messages   \* [Notes -> Nat]: messages Telegram delivered

deliveryVars == <<job, sender, messages>>
pipelineVars == <<about, user, enabled, note, gate, job, sender, messages>>
vars == <<outboxVars, pipelineVars>>

Notes == 1..MaxNotes

NoteRows == [status : {"absent", "queued", "sent", "failed", "suppressed", "deleted"},
             event : Events, suppressedReason : {"none", "preference_disabled", "dedup"}]

Jobs == [state : {"none", "waiting", "active", "done", "dead"}, tries : 0..MaxTries,
         stalls : 0..(MaxStalls + 1)]

TypeOK ==
  /\ OutboxTypeOK
  /\ about \in [Events -> Subjects]
  /\ user \in {"present", "purging", "gone"}
  /\ enabled \in BOOLEAN
  /\ note \in [Notes -> NoteRows]
  /\ gate \in [Workers -> [step : {"start", "dedup", "create", "enqueue"}, note : 0..MaxNotes]]
  /\ job \in [Notes -> Jobs]
  /\ sender \in [Senders -> [pc : {"idle", "sending", "sent", "blocked"}, note : 0..MaxNotes,
                             owner : BOOLEAN]]
  /\ messages \in [Notes -> Nat]

Init ==
  /\ OutboxInit
  /\ \E s \in Subjects : about = [e \in Events |-> s]
  /\ user = "present"
  /\ enabled \in BOOLEAN
  /\ \E e \in Events : note = [n \in Notes |-> [status |-> "absent", event |-> e,
                                         suppressedReason |-> "none"]]
  /\ gate = [w \in Workers |-> [step |-> "start", note |-> 0]]
  /\ job = [n \in Notes |-> [state |-> "none", tries |-> 0, stalls |-> 0]]
  /\ sender = [s \in Senders |-> [pc |-> "idle", note |-> 0, owner |-> FALSE]]
  /\ messages = [n \in Notes |-> 0]

(***************************************************************************)
(* The outbox around the consumer                                          *)
(***************************************************************************)
RecordAbout(e, t, s) ==
  /\ Record(e, t)
  /\ about' = [about EXCEPT ![e] = s]
  /\ UNCHANGED <<user, enabled, note, gate, deliveryVars>>

ClaimForDelivery(w, e) ==
  /\ Claim(w, e)
  /\ gate' = [gate EXCEPT ![w] = [step |-> "start", note |-> 0]]
  /\ UNCHANGED <<about, user, enabled, note, deliveryVars>>

Dispatch(w) ==
  /\ Poll(w) \/ BatchEnds(w) \/ CommitDecision(w) \/ CommitRefused(w) \/ ClaimExpires(w)
       \/ Crash(w)
  /\ UNCHANGED pipelineVars

(***************************************************************************)
(* gateAndDeliver                                                          *)
(***************************************************************************)
At(w, step) == worker[w].pc = "handling" /\ gate[w].step = step

Rows == {n \in Notes : note[n].status \notin {"absent", "deleted"}}

NextNote == Cardinality({n \in Notes : note[n].status # "absent"}) + 1

CreateNote(w, status, reason) ==
  /\ NextNote \in Notes
  /\ note' = [note EXCEPT ![NextNote] = [status |-> status, event |-> worker[w].event,
                                        suppressedReason |-> reason]]

\* As it would be without the dedup gate.
RecentlyNotifiedNever(e) == FALSE

\* wasRecentlyNotified: among the latest MaxScanned rows, of whatever status.
RecentlyNotified(e) ==
  \E n \in Rows :
    /\ about[note[n].event] = about[e]
    /\ Cardinality({m \in Rows : m > n}) < MaxScanned

\* recordSuppressed, after which the handler returns.
RecordSuppressed(w, reason) ==
  /\ CreateNote(w, "suppressed", reason)
  /\ HandlerReturns(w)
  /\ UNCHANGED gate

GateUserGone(w) ==
  /\ At(w, "start")
  /\ user = "gone"
  /\ HandlerReturns(w)
  /\ UNCHANGED pipelineVars

GateMuted(w) ==
  /\ At(w, "start")
  /\ user # "gone"
  /\ ~ enabled
  /\ RecordSuppressed(w, "preference_disabled")
  /\ UNCHANGED <<about, user, enabled, deliveryVars>>

GateEnabled(w) ==
  /\ At(w, "start")
  /\ user # "gone"
  /\ enabled
  /\ gate' = [gate EXCEPT ![w].step = "dedup"]
  /\ UNCHANGED <<outboxVars, about, user, enabled, note, deliveryVars>>

GateDuplicate(w) ==
  /\ At(w, "dedup")
  /\ RecentlyNotified(worker[w].event)
  /\ user # "gone"
  /\ RecordSuppressed(w, "dedup")
  /\ UNCHANGED <<about, user, enabled, deliveryVars>>

GateClear(w) ==
  /\ At(w, "dedup")
  /\ ~ RecentlyNotified(worker[w].event)
  /\ gate' = [gate EXCEPT ![w].step = "create"]
  /\ UNCHANGED <<outboxVars, about, user, enabled, note, deliveryVars>>

GateCreate(w) ==
  /\ At(w, "create")
  /\ user # "gone"
  /\ CreateNote(w, "queued", "none")
  /\ gate' = [gate EXCEPT ![w] = [step |-> "enqueue", note |-> NextNote]]
  /\ UNCHANGED <<outboxVars, about, user, enabled, deliveryVars>>

Enqueue(n) == job' = [job EXCEPT ![n].state = "waiting"]

GateEnqueue(w) ==
  /\ At(w, "enqueue")
  /\ Enqueue(gate[w].note)
  /\ HandlerReturns(w)
  /\ UNCHANGED <<about, user, enabled, note, gate, sender, messages>>

\* A query or the queue fails, or the user's row is gone by the time a row
\* refers to it.
GateThrows(w) ==
  /\ HandlerThrows(w)
  /\ UNCHANGED pipelineVars

\* The job was added but the answer got lost.
GateEnqueueUnanswered(w) ==
  /\ At(w, "enqueue")
  /\ Enqueue(gate[w].note)
  /\ HandlerThrows(w)
  /\ UNCHANGED <<about, user, enabled, note, gate, sender, messages>>

(***************************************************************************)
(* The user: toggles the preference, and is purged table by table          *)
(* (PrismaAccountPurgeRepository), notifications before the users row.     *)
(***************************************************************************)
TogglePreference ==
  /\ enabled' = ~ enabled
  /\ UNCHANGED <<outboxVars, about, user, note, gate, deliveryVars>>

PurgeNotifications ==
  /\ user # "gone"
  /\ user' = "purging"
  /\ note' = [n \in Notes |-> IF n \in Rows THEN [note[n] EXCEPT !.status = "deleted"]
                                            ELSE note[n]]
  /\ UNCHANGED <<outboxVars, about, enabled, gate, deliveryVars>>

\* The foreign key refuses while a row created meanwhile refers to the user.
DeleteUser ==
  /\ user = "purging"
  /\ Rows = {}
  /\ user' = "gone"
  /\ UNCHANGED <<outboxVars, about, enabled, note, gate, deliveryVars>>

(***************************************************************************)
(* NotificationDeliveryProcessor.process                                   *)
(***************************************************************************)
SetSender(s, pc, n, owner) == sender' = [sender EXCEPT ![s] = [pc |-> pc, note |-> n, owner |-> owner]]

FailedJob(n) ==
  [job[n] EXCEPT !.tries = @ + 1,
                 !.state = IF job[n].tries + 1 >= MaxTries THEN "dead" ELSE "waiting"]

\* The processor returns or throws; the queue hears of it only if the job was
\* not handed to another processor meanwhile.
Settle(s, n, settled) ==
  /\ job' = IF sender[s].owner THEN [job EXCEPT ![n] = settled] ELSE job
  /\ SetSender(s, "idle", 0, FALSE)

Completed(n) == [job[n] EXCEPT !.state = "done"]

\* As it would be without the already_sent check.
MustSendAlways(n) == note[n].status \in {"queued", "sent"}

MustSend(n) == note[n].status = "queued"

\* The notification is waiting to be sent and its user is there.
TakeToSend(s, n) ==
  /\ sender[s].pc = "idle"
  /\ job[n].state = "waiting"
  /\ MustSend(n)
  /\ user # "gone"
  /\ job' = [job EXCEPT ![n].state = "active"]
  /\ SetSender(s, "sending", n, TRUE)
  /\ UNCHANGED <<outboxVars, about, user, enabled, note, gate, messages>>

\* already_sent, already_failed, already_suppressed.
TakeSettled(s, n) ==
  /\ sender[s].pc = "idle"
  /\ job[n].state = "waiting"
  /\ n \in Rows
  /\ ~ MustSend(n)
  /\ job' = [job EXCEPT ![n] = Completed(n)]
  /\ UNCHANGED <<outboxVars, about, user, enabled, note, gate, sender, messages>>

\* The row or the user cannot be found, or the read fails.
TakeThrows(s, n) ==
  /\ sender[s].pc = "idle"
  /\ job[n].state = "waiting"
  /\ job' = [job EXCEPT ![n] = FailedJob(n)]
  /\ UNCHANGED <<outboxVars, about, user, enabled, note, gate, sender, messages>>

SendSucceeds(s) ==
  /\ sender[s].pc = "sending"
  /\ messages' = [messages EXCEPT ![sender[s].note] = @ + 1]
  /\ sender' = [sender EXCEPT ![s].pc = "sent"]
  /\ UNCHANGED <<outboxVars, about, user, enabled, note, gate, job>>

SendBlocked(s) ==
  /\ sender[s].pc = "sending"
  /\ sender' = [sender EXCEPT ![s].pc = "blocked"]
  /\ UNCHANGED <<outboxVars, about, user, enabled, note, gate, job, messages>>

SendThrows(s, delivered) ==
  /\ sender[s].pc = "sending"
  /\ messages' = IF delivered THEN [messages EXCEPT ![sender[s].note] = @ + 1] ELSE messages
  /\ Settle(s, sender[s].note, FailedJob(sender[s].note))
  /\ UNCHANGED <<outboxVars, about, user, enabled, note, gate>>

\* Both updates are updateMany: a deleted row is not an error.
Mark(n, status) ==
  note' = IF n \in Rows THEN [note EXCEPT ![n].status = status] ELSE note

MarkSent(s) ==
  LET n == sender[s].note IN
  /\ sender[s].pc = "sent"
  /\ Mark(n, "sent")
  /\ Settle(s, n, Completed(n))
  /\ UNCHANGED <<outboxVars, about, user, enabled, gate, messages>>

\* markFailed does not look at the status it overwrites.
MarkFailed(s) ==
  LET n == sender[s].note IN
  /\ sender[s].pc = "blocked"
  /\ Mark(n, "failed")
  /\ Settle(s, n, Completed(n))
  /\ UNCHANGED <<outboxVars, about, user, enabled, gate, messages>>

\* The update fails, or is written and the answer to it is lost.
MarkThrows(s, written) ==
  LET n == sender[s].note IN
  /\ sender[s].pc \in {"sent", "blocked"}
  /\ IF written THEN Mark(n, IF sender[s].pc = "sent" THEN "sent" ELSE "failed")
                ELSE UNCHANGED note
  /\ Settle(s, n, FailedJob(n))
  /\ UNCHANGED <<outboxVars, about, user, enabled, gate, messages>>

\* The queue takes an active job for stalled: its processor died, or did not
\* renew the job's lock in time and goes on without it.
Stall(s, died) ==
  LET n == sender[s].note IN
  /\ sender[s].pc # "idle"
  /\ sender[s].owner
  /\ job' = [job EXCEPT ![n].stalls = @ + 1,
                        ![n].state = IF job[n].stalls < MaxStalls THEN "waiting" ELSE "dead"]
  /\ IF died THEN SetSender(s, "idle", 0, FALSE)
             ELSE sender' = [sender EXCEPT ![s].owner = FALSE]
  /\ UNCHANGED <<outboxVars, about, user, enabled, note, gate, messages>>

DispatcherNext ==
  \/ \E e \in Events, t \in 1..Cardinality(Events), s \in Subjects : RecordAbout(e, t, s)
  \/ \E w \in Workers, e \in Events : ClaimForDelivery(w, e)
  \/ \E w \in Workers :
       \/ Dispatch(w)
       \/ GateUserGone(w) \/ GateMuted(w) \/ GateEnabled(w) \/ GateDuplicate(w) \/ GateClear(w)
       \/ GateCreate(w) \/ GateEnqueue(w) \/ GateThrows(w) \/ GateEnqueueUnanswered(w)

UserNext == TogglePreference \/ PurgeNotifications \/ DeleteUser

SenderNext ==
  \E s \in Senders :
    \/ \E n \in Notes : TakeToSend(s, n) \/ TakeSettled(s, n) \/ TakeThrows(s, n)
    \/ SendSucceeds(s) \/ SendBlocked(s) \/ MarkSent(s) \/ MarkFailed(s)
    \/ \E b \in BOOLEAN : SendThrows(s, b) \/ MarkThrows(s, b) \/ Stall(s, b)

Next == DispatcherNext \/ UserNext \/ SenderNext

Spec == Init /\ [][Next]_vars

(***************************************************************************)
(* Properties                                                              *)
(***************************************************************************)
Deliverable(e) ==
  {n \in Notes : /\ note[n].event = e
                /\ note[n].status # "absent"
                /\ note[n].suppressedReason = "none"}

\* Consumers must be idempotent: a retried or re-delivered event causes no
\* duplicate side effect, here a second notification, but for the claims
\* lost.  A worker that has looked for a notification and found none goes on
\* to make one when its claim is lost, and so may another that claims the
\* event again: one more notification for each lost claim, and never more,
\* however often the event is retried.  The deduplication reads MaxScanned
\* rows, and they go when the user is purged: the property speaks of a user
\* who is there and has no more rows.
NoDuplicateSideEffect ==
  user = "present" /\ Cardinality(Rows) <= MaxScanned =>
    \A e \in Events : Cardinality(Deliverable(e)) <= lost + 1

\* A redelivered job for a notification that was sent, or has failed, is a
\* no-op: one that has ended is being sent again, or marked again, only where
\* a stalled job went to a second processor while the first was still at it.
\* (markFailed does not look at what it overwrites.)
EndedIsLeftAlone ==
  \A s \in Senders :
    LET n == sender[s].note IN
    sender[s].pc # "idle" /\ note[n].status \in {"sent", "failed"} => job[n].stalls > 0

\* A user gets a notification once, and once more for each time its job
\* failed or stalled at most; once less if it is marked as failed.
SentOncePerHandOut ==
  \A n \in Notes :
    messages[n] <= job[n].tries + job[n].stalls + (IF note[n].status = "failed" THEN 0 ELSE 1)

\* What the tables say of a delivery agrees with what happened to it: a
\* suppressed notification is for the record only, with no job and nothing
\* sent, whatever was retried around it; a job is done only when its
\* notification reached a final status or was deleted with its user; 'sent'
\* is only written after Telegram delivered; only a failed or a stalled job
\* makes for a second message, or for one that is marked as failed; and only
\* a stalled one may change what has ended.
DeliveryAsRecorded ==
  /\ \A n \in Notes :
       /\ note[n].status = "absent" \/ note[n].suppressedReason # "none" =>
            job[n].state = "none" /\ messages[n] = 0
       /\ job[n].state = "done" => note[n].status \in {"sent", "failed", "deleted"}
       /\ note[n].status = "sent" => messages[n] > 0
  /\ SentOncePerHandOut
  /\ EndedIsLeftAlone

\* n has its job, or the gate that made it is on its way to add one.
HandedOver(n) ==
  \/ job[n].state # "none"
  \/ \E w \in Workers : At(w, "enqueue") /\ gate[w].note = n

\* An event that ends dispatched, for a user who wants notifications, was
\* handed to the delivery queue, itself or an earlier one on its subject;
\* the one exception is a gate that failed or died between its row and its
\* job: the retry takes that row for a notification already made, and the
\* event ends dispatched with nothing to deliver.
DispatchedIsAccountedFor ==
  \A e \in Events :
    /\ event[e].status = "dispatched"
    /\ user = "present"
    /\ \A n \in Notes : note[n].suppressedReason # "preference_disabled"
    => \E n \in Rows :
         /\ about[note[n].event] = about[e]
         /\ HandedOver(n) \/ thrown[note[n].event] + lost > 0
=============================================================================
