------------------------------- MODULE MediaJobs -------------------------------
(*****************************************************************************)
(* A photo or a voice note from the chat to its review card and the tap on   *)
(* it: RoutePhotoMessage / RouteVoiceMessage store the file and queue a job, *)
(* the OCR or STT processor runs ProcessReceiptImage / TranscribeVoice-      *)
(* Message on it, and RouteOcrDraftCallback commits or abandons the draft.   *)
(* A runner may die, its job be handed to another while it still runs, and   *)
(* any write of it may fail.                                                 *)
(*****************************************************************************)
EXTENDS Naturals, FiniteSets

CONSTANTS
  Files,       \* telegramFileIds: photos and voice notes alike
  Runners,     \* processors at work
  JobAttempts, \* attempts of defaultJobOptions
  MaxMishaps,  \* bound: failed writes, deaths and stalls
  MaxSends     \* bound: times a file is sent (a redelivered update)

VARIABLES
  job,      \* [Files -> state of the job named by the file, failures, stalls]
  runner,   \* [Runners -> file in hand, whether the job is still its own, next step]
  card,     \* [Files -> the draft's status and the rows announcing it]
  apology,  \* [Files -> failure notices queued for delivery]
  excuse,   \* history: [Files -> why the file may have stayed unanswered]
  sends, mediaMishaps   \* [Files -> Nat], Nat

mediaVars == <<job, runner, card, apology, excuse, sends, mediaMishaps>>

NoJob == [state |-> "none", failures |-> 0, stalls |-> 0]
Resting == [file |-> {}, lock |-> FALSE, step |-> "idle"]

MediaInit ==
  /\ job = [f \in Files |-> NoJob]
  /\ runner = [r \in Runners |-> Resting]
  /\ card = [f \in Files |-> [draft |-> "none", rows |-> 0, queued |-> 0]]
  /\ apology = [f \in Files |-> 0]
  /\ excuse = [f \in Files |-> {}]
  /\ sends = [f \in Files |-> 0]
  /\ mediaMishaps = 0

(***************************************************************************)
(* RoutePhotoMessageUseCase, RouteVoiceMessageUseCase                      *)
(***************************************************************************)
\* queue.add with a jobId the queue holds, running or failed, adds nothing; a
\* completed job is removed.  A file that cannot be stored is refused in chat.
Send(f) ==
  /\ sends[f] < MaxSends
  /\ sends' = [sends EXCEPT ![f] = @ + 1]
  /\ job' = [job EXCEPT ![f] = IF @ = NoJob THEN [@ EXCEPT !.state = "waiting"] ELSE @]
  /\ UNCHANGED <<runner, card, apology, excuse, mediaMishaps>>

(***************************************************************************)
(* The queue and its processors                                            *)
(***************************************************************************)
Take(r, f) ==
  /\ runner[r] = Resting
  /\ job[f].state = "waiting"
  /\ job' = [job EXCEPT ![f].state = "active"]
  /\ runner' = [runner EXCEPT ![r] = [file |-> {f}, lock |-> TRUE, step |-> "check"]]
  /\ UNCHANGED <<card, apology, excuse, sends, mediaMishaps>>

Has(r, f) == f \in runner[r].file
RunsAt(r, f, step) == Has(r, f) /\ runner[r].step = step
Goes(r, step) == runner' = [runner EXCEPT ![r].step = step]
Rests(r) == runner' = [runner EXCEPT ![r] = Resting]

\* A run whose job was handed to another reports to no avail.
Reports(r, f, j) ==
  /\ Rests(r)
  /\ job' = IF runner[r].lock THEN [job EXCEPT ![f] = j] ELSE job

Completes(r, f) == Reports(r, f, NoJob)

Throws(r, f) ==
  Reports(r, f, [job[f] EXCEPT !.failures = @ + 1,
                   !.state = IF job[f].failures + 1 < JobAttempts THEN "waiting" ELSE "failed"])

\* findById of the draft whose id the file determines.
FindsDraft(r, f) ==
  /\ RunsAt(r, f, "check")
  /\ IF card[f].draft # "none" THEN Completes(r, f)
     ELSE Goes(r, "work") /\ UNCHANGED job
  /\ UNCHANGED <<card, apology, excuse, sends, mediaMishaps>>

\* As if a reply that does not validate were no failure.
StepAfterSilent(result) ==
  CASE result = "candidate" -> "draft"
    [] result \in {"storage_failure", "provider_failure", "empty", "no_transaction"} -> "apologise"
    [] OTHER -> "done"

\* A file that is not understood is still answered.
StepAfter(result) ==
  CASE result = "candidate" -> "draft"
    [] result \in {"storage_failure", "provider_failure", "empty", "unknown", "no_transaction"} ->
         "apologise"
    [] OTHER -> "done"

\* getObject, the provider, the extraction: how a photo may end, and a voice
\* note, whose transcript may also be unsure and then ends without a word.  A
\* language model that cannot be reached is an exception of the job.
PhotoResults == {"candidate", "storage_failure", "provider_failure", "empty", "unknown",
                 "no_transaction"}
VoiceResults == PhotoResults \cup {"unsure"}

Understands(r, f, result) ==
  /\ RunsAt(r, f, "work")
  /\ Goes(r, StepAfter(result))
  /\ excuse' = [excuse EXCEPT ![f] = @ \cup (IF result = "unsure" THEN {"unsure"} ELSE {})]
  /\ UNCHANGED <<job, card, apology, sends, mediaMishaps>>

ModelUnreachable(r, f) ==
  /\ RunsAt(r, f, "work")
  /\ Throws(r, f)
  /\ excuse' = [excuse EXCEPT ![f] = @ \cup {"model_down"}]
  /\ UNCHANGED <<card, apology, sends, mediaMishaps>>

\* As if the id of the draft were not unique.
MayCreateAnyway(f) == TRUE
MayCreate(f) == card[f].draft = "none"

\* draftRepository.create: the id the file determines is the primary key.
CreatesDraft(r, f) ==
  /\ RunsAt(r, f, "draft")
  /\ IF MayCreate(f)
       THEN card' = [card EXCEPT ![f].draft = "pending"] /\ Goes(r, "row") /\ UNCHANGED job
       ELSE Throws(r, f) /\ UNCHANGED card
  /\ UNCHANGED <<apology, excuse, sends, mediaMishaps>>

CreatesRow(r, f) ==
  /\ RunsAt(r, f, "row")
  /\ card' = [card EXCEPT ![f].rows = @ + 1]
  /\ Goes(r, "queue")
  /\ UNCHANGED <<job, apology, excuse, sends, mediaMishaps>>

QueuesCard(r, f) ==
  /\ RunsAt(r, f, "queue")
  /\ card' = [card EXCEPT ![f].queued = @ + 1]
  /\ Goes(r, "done")
  /\ UNCHANGED <<job, apology, excuse, sends, mediaMishaps>>

\* notifyFailure; a repeated attempt apologises again.
Apologises(r, f) ==
  /\ RunsAt(r, f, "apologise")
  /\ apology' = [apology EXCEPT ![f] = IF @ < 2 THEN @ + 1 ELSE @]
  /\ Goes(r, "done")
  /\ UNCHANGED <<job, card, excuse, sends, mediaMishaps>>

Finishes(r, f) ==
  /\ RunsAt(r, f, "done")
  /\ Completes(r, f)
  /\ UNCHANGED <<card, apology, excuse, sends, mediaMishaps>>

RunStep(r, f) ==
  \/ FindsDraft(r, f)
  \/ \E result \in PhotoResults \cup VoiceResults : Understands(r, f, result)
  \/ ModelUnreachable(r, f)
  \/ CreatesDraft(r, f)
  \/ CreatesRow(r, f)
  \/ QueuesCard(r, f)
  \/ Apologises(r, f)
  \/ Finishes(r, f)

(***************************************************************************)
(* Mishaps                                                                 *)
(***************************************************************************)
Trouble(f) ==
  /\ mediaMishaps < MaxMishaps
  /\ mediaMishaps' = mediaMishaps + 1
  /\ excuse' = [excuse EXCEPT ![f] = @ \cup {"mishap"}]

\* A read or a write of the run fails.
WriteFails(r, f) ==
  /\ Has(r, f)
  /\ Throws(r, f)
  /\ Trouble(f)
  /\ UNCHANGED <<card, apology, sends>>

Dies(r, f) ==
  /\ Has(r, f)
  /\ Rests(r)
  /\ Trouble(f)
  /\ UNCHANGED <<job, card, apology, sends>>

\* A job without news is handed out once more, and the second time given up;
\* whoever still runs it no longer owns it.
HandsOut(f) ==
  /\ job[f].state = "active"
  /\ job' = [job EXCEPT ![f].state = IF job[f].stalls = 0 THEN "waiting" ELSE "failed",
                         ![f].stalls = 1]
  /\ runner' = [r \in Runners |-> IF Has(r, f) THEN [runner[r] EXCEPT !.lock = FALSE]
                                  ELSE runner[r]]
  /\ UNCHANGED <<card, apology, sends>>

\* The job of a process that died, and one of a process merely slow.
Recovers(f) ==
  /\ \A r \in Runners : ~ (Has(r, f) /\ runner[r].lock)
  /\ HandsOut(f)
  /\ UNCHANGED <<excuse, mediaMishaps>>

Stalls(f) ==
  /\ \E r \in Runners : Has(r, f) /\ runner[r].lock
  /\ HandsOut(f)
  /\ Trouble(f)

(***************************************************************************)
(* RouteOcrDraftCallbackUseCase                                            *)
(***************************************************************************)
\* Confirm and Edit commit whatever the draft's status; a second commit of one
\* draft is the first one's answer.
Confirm(f) ==
  /\ card[f].queued > 0
  /\ card' = [card EXCEPT ![f].draft = "completed"]
  /\ UNCHANGED <<job, runner, apology, excuse, sends, mediaMishaps>>

Cancel(f) ==
  /\ card[f].queued > 0
  /\ card[f].draft = "pending"
  /\ card' = [card EXCEPT ![f].draft = "abandoned"]
  /\ UNCHANGED <<job, runner, apology, excuse, sends, mediaMishaps>>

MediaNext ==
  \E f \in Files :
    \/ Send(f)
    \/ \E r \in Runners : Take(r, f) \/ RunStep(r, f) \/ WriteFails(r, f) \/ Dies(r, f)
    \/ Recovers(f)
    \/ Stalls(f)
    \/ Confirm(f)
    \/ Cancel(f)

MediaSpec == MediaInit /\ [][MediaNext]_mediaVars

(***************************************************************************)
(* Properties                                                              *)
(***************************************************************************)
\* However often a file is sent, retried or run twice at once, it has one draft,
\* announced by one card; and a card is never shown without its draft.
OneCardPerFile ==
  \A f \in Files :
    /\ card[f].queued <= card[f].rows /\ card[f].rows <= 1
    /\ card[f].rows > 0 => card[f].draft # "none"

\* Every file sent is answered, by a card or an apology, unless its transcript
\* was unsure, the model could not be reached, or something broke on the way.
EveryFileIsAnswered ==
  \A f \in Files :
    sends[f] > 0 ~> card[f].queued > 0 \/ apology[f] > 0 \/ excuse[f] # {}
=============================================================================
