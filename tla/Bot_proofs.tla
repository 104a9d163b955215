------------------------------ MODULE Bot_proofs ------------------------------
(***************************************************************************)
(* What the bot makes of messages and keeps between them: the proofs about *)
(* the drafts of files and commits, the dialogs, a user's own categories,  *)
(* the conversation, the way from words to a record, the keyboards.        *)
(***************************************************************************)
EXTENDS CommitLock, MediaJobs, BotDialogs, CustomCategories, ConversationEngine, Extraction,
        BotMenus, SumTheorems


(***************************************************************************)
(* For any number of files, runners, attempts, deaths and stalls: however  *)
(* often a file is sent or run, one card announces its one draft.          *)
(***************************************************************************)

RunSteps == {"idle", "check", "work", "draft", "row", "queue", "apologise", "done"}

MediaTypeOK ==
  /\ job \in [Files -> [state : {"none", "waiting", "active", "failed"},
                        failures : Nat, stalls : Nat]]
  /\ runner \in [Runners -> [file : {{}} \cup {{f} : f \in Files}, lock : BOOLEAN, step : RunSteps]]
  /\ card \in [Files -> [draft : {"none", "pending", "completed", "abandoned"},
                         rows : Nat, queued : Nat]]
  /\ apology \in [Files -> 0..2]
  /\ excuse \in [Files -> SUBSET {"unsure", "model_down", "mishap"}]
  /\ sends \in [Files -> Nat] /\ mediaMishaps \in Nat

\* A runner that has created the draft and has yet to write what announces it.
Announces(r, f) == Has(r, f) /\ runner[r].step \in {"row", "queue"}

\* Its file has been announced by nobody else, so far as it has not done so itself.
AnnouncerStands(r, f) ==
  Announces(r, f) =>
    /\ card[f].draft # "none" /\ card[f].queued = 0
    /\ card[f].rows = IF runner[r].step = "row" THEN 0 ELSE 1

\* A draft is created once, and whoever created it is the only one to announce it.
CardStands(f) ==
  /\ card[f].queued <= card[f].rows /\ card[f].rows <= 1
  /\ card[f].draft = "none" => card[f].rows = 0
  /\ \A r \in Runners : AnnouncerStands(r, f)
  /\ \A r, s \in Runners : Announces(r, f) /\ Announces(s, f) => r = s

MediaInv == MediaTypeOK /\ \A f \in Files : CardStands(f)

-----------------------------------------------------------------------------
LEMMA InitMediaInv == MediaInit => MediaInv
  <1> SUFFICES ASSUME MediaInit PROVE MediaInv
    OBVIOUS
  <1>1. MediaTypeOK
    BY DEF MediaInit, MediaTypeOK, NoJob, Resting, RunSteps
  <1>2. \A f \in Files : CardStands(f)
    BY DEF MediaInit, CardStands, AnnouncerStands, Announces, Has, Resting
  <1> QED
    BY <1>1, <1>2 DEF MediaInv

LEMMA MediaTypes ==
  ASSUME MediaTypeOK, NEW f \in Files
  PROVE  /\ card[f].draft \in {"none", "pending", "completed", "abandoned"}
         /\ card[f].rows \in Nat /\ card[f].queued \in Nat /\ DOMAIN card = Files
         /\ card[f] \in [draft : {"none", "pending", "completed", "abandoned"},
                         rows : Nat, queued : Nat]
  BY DEF MediaTypeOK

\* A runner has one file in hand.
LEMMA OneInHand ==
  ASSUME MediaTypeOK, NEW r \in Runners, NEW f \in Files, NEW g \in Files, Has(r, f), Has(r, g)
  PROVE  f = g
  BY DEF MediaTypeOK, Has

-----------------------------------------------------------------------------
(***************************************************************************)
(* Steps after which nobody announces a file who did not before.           *)
(***************************************************************************)
NobodyNewAnnounces ==
  \A r \in Runners, f \in Files :
    Announces(r, f)' => Announces(r, f) /\ runner'[r].step = runner[r].step

\* Of the cards at most the statuses of drafts that there are change.
CardsRemain ==
  \A f \in Files :
    /\ card'[f].rows = card[f].rows /\ card'[f].queued = card[f].queued
    /\ card'[f].draft = "none" <=> card[f].draft = "none"

LEMMA CardsStandOn ==
  ASSUME MediaInv, NobodyNewAnnounces, CardsRemain
  PROVE  \A f \in Files : CardStands(f)'
  <1> SUFFICES ASSUME NEW f \in Files PROVE CardStands(f)'
    OBVIOUS
  <1>1. CardStands(f)
    BY DEF MediaInv
  <1>2. \A r \in Runners : Announces(r, f)' => Announces(r, f) /\ runner'[r].step = runner[r].step
    BY DEF NobodyNewAnnounces
  <1>3. /\ card'[f].rows = card[f].rows /\ card'[f].queued = card[f].queued
        /\ card'[f].draft = "none" <=> card[f].draft = "none"
    BY DEF CardsRemain
  <1>4. ASSUME NEW r \in Runners PROVE AnnouncerStands(r, f)'
    BY <1>1, <1>2, <1>3 DEF CardStands, AnnouncerStands
  <1> QED
    BY <1>1, <1>2, <1>3, <1>4 DEF CardStands

\* A runner goes on to a step that announces nothing, rests, or takes a job.
LEMMA RunnerMoves ==
  ASSUME MediaInv, NEW r \in Runners, NEW x, x.step \notin {"row", "queue"},
         runner' = [runner EXCEPT ![r] = x]
  PROVE  NobodyNewAnnounces
  BY DEF NobodyNewAnnounces, Announces, Has, MediaInv, MediaTypeOK

LEMMA RunnersStay == UNCHANGED runner => NobodyNewAnnounces
  BY DEF NobodyNewAnnounces, Announces, Has

LEMMA CardsStay == UNCHANGED card => CardsRemain
  BY DEF CardsRemain

LEMMA RestsQuietly ==
  ASSUME MediaInv, NEW r \in Runners, Rests(r) PROVE NobodyNewAnnounces
  BY RunnerMoves DEF Rests, Resting

LEMMA GoesQuietly ==
  ASSUME MediaInv, NEW r \in Runners, NEW step \in RunSteps \ {"row", "queue"}, Goes(r, step)
  PROVE  NobodyNewAnnounces
  <1> DEFINE x == [runner[r] EXCEPT !.step = step]
  <1>1. runner[r] \in [file : {{}} \cup {{f} : f \in Files}, lock : BOOLEAN, step : RunSteps]
    BY DEF MediaInv, MediaTypeOK
  <1>2. x.step = step
    BY <1>1
  <1>3. runner' = [runner EXCEPT ![r] = x]
    BY DEF Goes
  <1> HIDE DEF x
  <1> QED
    BY <1>2, <1>3, RunnerMoves

-----------------------------------------------------------------------------
(***************************************************************************)
(* Types.                                                                  *)
(***************************************************************************)
Jobs == [state : {"none", "waiting", "active", "failed"}, failures : Nat, stalls : Nat]
Running == [file : {{}} \cup {{f} : f \in Files}, lock : BOOLEAN, step : RunSteps]

LEMMA GoesType ==
  ASSUME MediaTypeOK, NEW r \in Runners, NEW step \in RunSteps, Goes(r, step)
  PROVE  runner' \in [Runners -> Running]
  <1>1. runner \in [Runners -> Running] /\ runner[r] \in Running
    BY DEF MediaTypeOK, Running
  <1>2. [runner[r] EXCEPT !.step = step] \in Running
    BY <1>1 DEF Running
  <1> QED
    BY <1>1, <1>2 DEF Goes

LEMMA RestsType ==
  ASSUME MediaTypeOK, NEW r \in Runners, Rests(r)
  PROVE  runner' \in [Runners -> Running]
  BY DEF MediaTypeOK, Rests, Resting, Running, RunSteps

LEMMA ReportsType ==
  ASSUME MediaTypeOK, NEW r \in Runners, NEW f \in Files, NEW j \in Jobs, Reports(r, f, j)
  PROVE  runner' \in [Runners -> Running] /\ job' \in [Files -> Jobs]
  <1>1. runner' \in [Runners -> Running]
    BY RestsType DEF Reports
  <1>2. job' \in [Files -> Jobs]
    BY DEF Reports, MediaTypeOK, Jobs
  <1> QED
    BY <1>1, <1>2

LEMMA CompletesType ==
  ASSUME MediaTypeOK, NEW r \in Runners, NEW f \in Files, Completes(r, f)
  PROVE  runner' \in [Runners -> Running] /\ job' \in [Files -> Jobs]
  <1>1. NoJob \in Jobs
    BY DEF NoJob, Jobs
  <1> QED
    BY <1>1, ReportsType DEF Completes

LEMMA ThrowsType ==
  ASSUME MediaTypeOK, NEW r \in Runners, NEW f \in Files, Throws(r, f)
  PROVE  runner' \in [Runners -> Running] /\ job' \in [Files -> Jobs]
  <1> DEFINE j == [job[f] EXCEPT !.failures = @ + 1,
                   !.state = IF job[f].failures + 1 < JobAttempts THEN "waiting" ELSE "failed"]
  <1>1. job[f] \in Jobs /\ job[f].failures + 1 \in Nat
    BY DEF MediaTypeOK, Jobs
  <1>2. j \in Jobs
    BY <1>1 DEF Jobs
  <1>3. Reports(r, f, j)
    BY DEF Throws
  <1> HIDE DEF j
  <1> QED
    BY <1>2, <1>3, ReportsType

LEMMA StepAfterType ==
  ASSUME NEW result PROVE StepAfter(result) \in {"draft", "apologise", "done"}
  BY DEF StepAfter

LEMMA TroubleType ==
  ASSUME MediaTypeOK, NEW f \in Files, Trouble(f)
  PROVE  /\ excuse' \in [Files -> SUBSET {"unsure", "model_down", "mishap"}]
         /\ mediaMishaps' \in Nat
  BY DEF MediaTypeOK, Trouble

-----------------------------------------------------------------------------
(***************************************************************************)
(* One lemma for each operation.                                           *)
(***************************************************************************)
LEMMA SendStep == ASSUME MediaInv, NEW f \in Files, Send(f) PROVE MediaInv'
  <1>0. MediaTypeOK
    BY DEF MediaInv
  <1>1. job' \in [Files -> Jobs] /\ sends' \in [Files -> Nat]
    BY <1>0 DEF MediaTypeOK, Send, Jobs
  <1>2. MediaTypeOK'
    BY <1>0, <1>1 DEF MediaTypeOK, Send, Jobs
  <1> QED
    BY <1>2, CardsStandOn, RunnersStay, CardsStay DEF MediaInv, Send

LEMMA TakeStep ==
  ASSUME MediaInv, NEW f \in Files, NEW r \in Runners, Take(r, f) PROVE MediaInv'
  <1> DEFINE x == [file |-> {f}, lock |-> TRUE, step |-> "check"]
  <1>0. MediaTypeOK /\ runner' = [runner EXCEPT ![r] = x] /\ x.step = "check"
    BY DEF MediaInv, Take
  <1>1. MediaTypeOK'
    <2>1. x \in Running
      BY DEF Running, RunSteps
    <2>2. runner' \in [Runners -> Running]
      BY <1>0, <2>1 DEF MediaTypeOK, Running
    <2>3. job' \in [Files -> Jobs]
      BY <1>0 DEF MediaTypeOK, Take, Jobs
    <2> QED
      BY <1>0, <2>2, <2>3 DEF MediaTypeOK, Take, Running, Jobs
  <1>2. NobodyNewAnnounces
    <2> HIDE DEF x
    <2> QED
      BY <1>0, RunnerMoves
  <1> QED
    BY <1>1, <1>2, CardsStandOn, CardsStay DEF MediaInv, Take

LEMMA FindsDraftStep ==
  ASSUME MediaInv, NEW f \in Files, NEW r \in Runners, FindsDraft(r, f) PROVE MediaInv'
  <1>0. MediaTypeOK /\ UNCHANGED <<card, apology, excuse, sends, mediaMishaps>>
    BY DEF MediaInv, FindsDraft
  <1>1. CASE Completes(r, f)
    <2>1. MediaTypeOK'
      BY <1>0, <1>1, CompletesType DEF MediaTypeOK, Jobs, Running
    <2>2. NobodyNewAnnounces
      BY <1>1, RestsQuietly DEF Completes, Reports
    <2> QED
      BY <1>0, <2>1, <2>2, CardsStandOn, CardsStay DEF MediaInv
  <1>2. CASE Goes(r, "work") /\ UNCHANGED job
    <2>0. "work" \in RunSteps \ {"row", "queue"}
      BY DEF RunSteps
    <2>1. MediaTypeOK'
      BY <1>0, <1>2, <2>0, GoesType DEF MediaTypeOK, Running
    <2>2. NobodyNewAnnounces
      BY <1>2, <2>0, GoesQuietly
    <2> QED
      BY <1>0, <2>1, <2>2, CardsStandOn, CardsStay DEF MediaInv
  <1> QED
    BY <1>1, <1>2 DEF FindsDraft

LEMMA UnderstandsStep ==
  ASSUME MediaInv, NEW f \in Files, NEW r \in Runners, NEW result, Understands(r, f, result)
  PROVE  MediaInv'
  <1>0. MediaTypeOK /\ Goes(r, StepAfter(result))
        /\ UNCHANGED <<job, card, apology, sends, mediaMishaps>>
    BY DEF MediaInv, Understands
  <1>1. StepAfter(result) \in RunSteps \ {"row", "queue"}
    BY StepAfterType DEF RunSteps
  <1>2. excuse' \in [Files -> SUBSET {"unsure", "model_down", "mishap"}]
    BY <1>0 DEF MediaTypeOK, Understands
  <1>3. MediaTypeOK'
    BY <1>0, <1>1, <1>2, GoesType DEF MediaTypeOK, Running
  <1>4. NobodyNewAnnounces
    BY <1>0, <1>1, GoesQuietly
  <1> QED
    BY <1>0, <1>3, <1>4, CardsStandOn, CardsStay DEF MediaInv

LEMMA ThrownStep ==
  ASSUME MediaInv, NEW f \in Files, NEW r \in Runners, Throws(r, f),
         UNCHANGED <<card, apology, sends>>,
         excuse' \in [Files -> SUBSET {"unsure", "model_down", "mishap"}], mediaMishaps' \in Nat
  PROVE  MediaInv'
  <1>0. MediaTypeOK
    BY DEF MediaInv
  <1>1. MediaTypeOK'
    BY <1>0, ThrowsType DEF MediaTypeOK, Jobs, Running
  <1>2. NobodyNewAnnounces
    BY RestsQuietly DEF Throws, Reports
  <1> QED
    BY <1>1, <1>2, CardsStandOn, CardsStay DEF MediaInv

LEMMA ModelUnreachableStep ==
  ASSUME MediaInv, NEW f \in Files, NEW r \in Runners, ModelUnreachable(r, f) PROVE MediaInv'
  <1>1. /\ excuse' \in [Files -> SUBSET {"unsure", "model_down", "mishap"}]
        /\ mediaMishaps' \in Nat
    BY DEF ModelUnreachable, MediaInv, MediaTypeOK
  <1> QED
    BY <1>1, ThrownStep DEF ModelUnreachable

LEMMA WriteFailsStep ==
  ASSUME MediaInv, NEW f \in Files, NEW r \in Runners, WriteFails(r, f) PROVE MediaInv'
  BY TroubleType, ThrownStep DEF WriteFails, MediaInv

\* Only a file without a draft gets one, and whoever creates it is its announcer.
LEMMA CreatesDraftStep ==
  ASSUME MediaInv, NEW f \in Files, NEW r \in Runners, CreatesDraft(r, f) PROVE MediaInv'
  <1>0. MediaTypeOK /\ RunsAt(r, f, "draft") /\ UNCHANGED <<apology, excuse, sends, mediaMishaps>>
    BY DEF MediaInv, CreatesDraft
  <1>1. CASE ~ MayCreate(f)
    <2>1. Throws(r, f) /\ UNCHANGED card
      BY <1>1 DEF CreatesDraft
    <2> QED
      BY <1>0, <2>1, ThrownStep DEF MediaTypeOK
  <1>2. CASE MayCreate(f)
    <2>1. card' = [card EXCEPT ![f].draft = "pending"] /\ Goes(r, "row") /\ UNCHANGED job
      BY <1>2 DEF CreatesDraft
    <2>2. card' \in [Files -> [draft : {"none", "pending", "completed", "abandoned"},
                               rows : Nat, queued : Nat]]
      BY <1>0, <2>1 DEF MediaTypeOK
    <2>3. MediaTypeOK'
      BY <1>0, <2>1, <2>2, GoesType DEF MediaTypeOK, Running, RunSteps
    <2>4. /\ card'[f].draft = "pending" /\ card'[f].rows = card[f].rows
          /\ card'[f].queued = card[f].queued
          /\ \A g \in Files : g # f => card'[g] = card[g]
      BY <1>0, <2>1 DEF MediaTypeOK
    <2>5. card[f].rows = 0 /\ card[f].queued = 0
      BY <1>0, <1>2, MediaTypes DEF MayCreate, MediaInv, CardStands
    <2>6. /\ runner'[r].step = "row" /\ runner'[r].file = runner[r].file
          /\ \A s \in Runners : s # r => runner'[s] = runner[s]
      BY <1>0, <2>1 DEF MediaTypeOK, Goes
    <2>7. \A s \in Runners : ~ Announces(s, f)
      BY <1>2 DEF MayCreate, MediaInv, CardStands, AnnouncerStands
    <2>8. CardStands(f)'
      <3>1. \A s \in Runners : Announces(s, f)' => s = r
        BY <2>6, <2>7 DEF Announces, Has
      <3> QED
        BY <2>4, <2>5, <2>6, <3>1 DEF CardStands, AnnouncerStands
    <2>9. ASSUME NEW g \in Files, g # f PROVE CardStands(g)'
      <3>1. CardStands(g)
        BY DEF MediaInv
      <3>2. \A s \in Runners : Announces(s, g)' => Announces(s, g) /\ runner'[s] = runner[s]
        BY <1>0, <2>6, <2>9, OneInHand DEF Announces, Has, RunsAt
      <3> QED
        BY <2>4, <2>9, <3>1, <3>2 DEF CardStands, AnnouncerStands
    <2> QED
      BY <2>3, <2>8, <2>9 DEF MediaInv
  <1> QED
    BY <1>1, <1>2

\* The announcer writes its row, and then queues its card.
LEMMA AnnouncesStep ==
  ASSUME MediaInv, NEW f \in Files, NEW r \in Runners, CreatesRow(r, f) \/ QueuesCard(r, f)
  PROVE  MediaInv'
  <1> DEFINE at == runner[r].step
             step == IF at = "row" THEN "queue" ELSE "done"
  <1>0. /\ MediaTypeOK /\ UNCHANGED <<job, apology, excuse, sends, mediaMishaps>>
        /\ Has(r, f) /\ at \in {"row", "queue"} /\ Goes(r, step) /\ step \in RunSteps
        /\ card' = [card EXCEPT ![f].rows = IF at = "row" THEN @ + 1 ELSE @,
                                ![f].queued = IF at = "row" THEN @ ELSE @ + 1]
    <2>1. CASE CreatesRow(r, f)
      <3>1. card' = [card EXCEPT ![f].rows = @ + 1] /\ at = "row" /\ f \in DOMAIN card
        BY <2>1 DEF CreatesRow, RunsAt, MediaInv, MediaTypeOK
      <3>2. card' = [card EXCEPT ![f].rows = @ + 1, ![f].queued = @]
        BY <3>1 DEF MediaInv, MediaTypeOK
      <3> QED
        BY <2>1, <3>1, <3>2 DEF CreatesRow, RunsAt, MediaInv, RunSteps
    <2>2. CASE QueuesCard(r, f)
      <3>1. card' = [card EXCEPT ![f].queued = @ + 1] /\ at = "queue" /\ f \in DOMAIN card
        BY <2>2 DEF QueuesCard, RunsAt, MediaInv, MediaTypeOK
      <3>2. card' = [card EXCEPT ![f].rows = @, ![f].queued = @ + 1]
        BY <3>1 DEF MediaInv, MediaTypeOK
      <3> QED
        BY <2>2, <3>1, <3>2 DEF QueuesCard, RunsAt, MediaInv, RunSteps
    <2> QED
      BY <2>1, <2>2
  <1>1. /\ card[f].draft # "none" /\ card[f].queued = 0
        /\ card[f].rows = IF at = "row" THEN 0 ELSE 1
        /\ \A s \in Runners : Announces(s, f) => s = r
    BY <1>0 DEF MediaInv, CardStands, AnnouncerStands, Announces
  <1>2. card' \in [Files -> [draft : {"none", "pending", "completed", "abandoned"},
                             rows : Nat, queued : Nat]]
    <2>1. CASE CreatesRow(r, f)
      <3>1. card' = [card EXCEPT ![f].rows = card[f].rows + 1]
        BY <2>1 DEF CreatesRow
      <3>2. [card[f] EXCEPT !.rows = card[f].rows + 1]
              \in [draft : {"none", "pending", "completed", "abandoned"}, rows : Nat, queued : Nat]
        BY MediaTypes DEF MediaInv
      <3> QED
        BY <3>1, <3>2 DEF MediaInv, MediaTypeOK
    <2>2. CASE QueuesCard(r, f)
      <3>1. card' = [card EXCEPT ![f].queued = card[f].queued + 1]
        BY <2>2 DEF QueuesCard
      <3>2. [card[f] EXCEPT !.queued = card[f].queued + 1]
              \in [draft : {"none", "pending", "completed", "abandoned"}, rows : Nat, queued : Nat]
        BY MediaTypes DEF MediaInv
      <3> QED
        BY <3>1, <3>2 DEF MediaInv, MediaTypeOK
    <2> QED
      BY <2>1, <2>2
  <1>3. MediaTypeOK'
    <2> HIDE DEF step
    <2> QED
      BY <1>0, <1>2, GoesType DEF MediaTypeOK, Running
  <1>4. /\ card'[f].draft = card[f].draft
        /\ card'[f].rows = 1
        /\ card'[f].queued = IF at = "row" THEN 0 ELSE 1
        /\ \A g \in Files : g # f => card'[g] = card[g]
    BY <1>0, <1>1 DEF MediaTypeOK
  <1>5. /\ runner'[r].step = step /\ runner'[r].file = runner[r].file
        /\ \A s \in Runners : s # r => runner'[s] = runner[s]
    BY <1>0 DEF MediaTypeOK, Goes
  <1>6. CardStands(f)'
    <2>1. \A s \in Runners : Announces(s, f)' => s = r
      BY <1>1, <1>5 DEF Announces, Has
    <2>2. ASSUME Announces(r, f)' PROVE at = "row" /\ runner'[r].step = "queue"
      BY <1>0, <1>5, <2>2 DEF Announces
    <2>3. ASSUME NEW s \in Runners PROVE AnnouncerStands(s, f)'
      BY <1>1, <1>4, <2>1, <2>2 DEF AnnouncerStands
    <2>4. /\ card'[f].queued <= card'[f].rows /\ card'[f].rows <= 1
          /\ card'[f].draft # "none"
      BY <1>1, <1>4
    <2> QED
      BY <2>1, <2>3, <2>4 DEF CardStands
  <1>7. ASSUME NEW g \in Files, g # f PROVE CardStands(g)'
    <2>1. CardStands(g)
      BY DEF MediaInv
    <2>2. \A s \in Runners : Announces(s, g)' => Announces(s, g) /\ runner'[s] = runner[s]
      BY <1>0, <1>5, <1>7, OneInHand DEF Announces, Has
    <2> QED
      BY <1>4, <1>7, <2>1, <2>2 DEF CardStands, AnnouncerStands
  <1> QED
    BY <1>3, <1>6, <1>7 DEF MediaInv

LEMMA ApologisesStep ==
  ASSUME MediaInv, NEW f \in Files, NEW r \in Runners, Apologises(r, f) PROVE MediaInv'
  <1>0. /\ MediaTypeOK /\ Goes(r, "done") /\ "done" \in RunSteps \ {"row", "queue"}
        /\ UNCHANGED <<job, card, excuse, sends, mediaMishaps>>
    BY DEF MediaInv, Apologises, RunSteps
  <1>1. apology' \in [Files -> 0..2]
    BY <1>0 DEF Apologises, MediaTypeOK
  <1>2. MediaTypeOK'
    BY <1>0, <1>1, GoesType DEF MediaTypeOK, Running
  <1> QED
    BY <1>0, <1>2, GoesQuietly, CardsStandOn, CardsStay DEF MediaInv

LEMMA FinishesStep ==
  ASSUME MediaInv, NEW f \in Files, NEW r \in Runners, Finishes(r, f) PROVE MediaInv'
  <1>0. /\ MediaTypeOK /\ Completes(r, f) /\ UNCHANGED <<card, apology, excuse, sends, mediaMishaps>>
    BY DEF MediaInv, Finishes
  <1>1. MediaTypeOK'
    BY <1>0, CompletesType DEF MediaTypeOK, Jobs, Running
  <1>2. NobodyNewAnnounces
    BY <1>0, RestsQuietly DEF Completes, Reports
  <1> QED
    BY <1>0, <1>1, <1>2, CardsStandOn, CardsStay DEF MediaInv

LEMMA DiesStep ==
  ASSUME MediaInv, NEW f \in Files, NEW r \in Runners, Dies(r, f) PROVE MediaInv'
  <1>0. MediaTypeOK /\ Rests(r) /\ Trouble(f) /\ UNCHANGED <<job, card, apology, sends>>
    BY DEF MediaInv, Dies
  <1>1. MediaTypeOK'
    BY <1>0, RestsType, TroubleType DEF MediaTypeOK, Running
  <1> QED
    BY <1>0, <1>1, RestsQuietly, CardsStandOn, CardsStay DEF MediaInv

\* A job handed out leaves whoever still runs it where it is.
LEMMA HandedOutStep ==
  ASSUME MediaInv, NEW f \in Files, HandsOut(f),
         excuse' \in [Files -> SUBSET {"unsure", "model_down", "mishap"}], mediaMishaps' \in Nat
  PROVE  MediaInv'
  <1>0. MediaTypeOK /\ UNCHANGED <<card, apology, sends>>
    BY DEF MediaInv, HandsOut
  <1>1. runner' = [r \in Runners |-> IF Has(r, f) THEN [runner[r] EXCEPT !.lock = FALSE]
                                     ELSE runner[r]]
    BY DEF HandsOut
  <1>2. runner' \in [Runners -> Running]
    <2>1. ASSUME NEW r \in Runners
          PROVE  runner[r] \in Running /\ [runner[r] EXCEPT !.lock = FALSE] \in Running
      BY <1>0 DEF MediaTypeOK, Running
    <2> QED
      BY <1>1, <2>1
  <1>3. job' \in [Files -> Jobs]
    <2>1. PICK state \in {"waiting", "failed"} :
            job' = [job EXCEPT ![f].state = state, ![f].stalls = 1]
      BY DEF HandsOut
    <2> DEFINE j == [job[f] EXCEPT !.state = state, !.stalls = 1]
    <2>2. job \in [Files -> Jobs] /\ job[f] \in Jobs
      BY <1>0 DEF MediaTypeOK, Jobs
    <2>3. j \in Jobs
      BY <2>2 DEF Jobs
    <2>4. job' = [job EXCEPT ![f] = j]
      BY <2>1, <2>2
    <2> HIDE DEF j
    <2> QED
      BY <2>2, <2>3, <2>4
  <1>4. \A r \in Runners : runner'[r].step = runner[r].step /\ runner'[r].file = runner[r].file
    BY <1>0, <1>1 DEF MediaTypeOK
  <1>5. NobodyNewAnnounces
    BY <1>4 DEF NobodyNewAnnounces, Announces, Has
  <1>6. MediaTypeOK'
    BY <1>0, <1>2, <1>3 DEF MediaTypeOK, Jobs, Running
  <1> QED
    BY <1>0, <1>5, <1>6, CardsStandOn, CardsStay DEF MediaInv

LEMMA RecoversStep == ASSUME MediaInv, NEW f \in Files, Recovers(f) PROVE MediaInv'
  BY HandedOutStep DEF Recovers, MediaInv, MediaTypeOK

LEMMA StallsStep == ASSUME MediaInv, NEW f \in Files, Stalls(f) PROVE MediaInv'
  BY HandedOutStep, TroubleType DEF Stalls, MediaInv

LEMMA TapStep == ASSUME MediaInv, NEW f \in Files, Confirm(f) \/ Cancel(f) PROVE MediaInv'
  <1>0. MediaTypeOK /\ UNCHANGED <<job, runner, apology, excuse, sends, mediaMishaps>>
    BY DEF MediaInv, Confirm, Cancel
  <1>1. PICK status \in {"completed", "abandoned"} : card' = [card EXCEPT ![f].draft = status]
    BY DEF Confirm, Cancel
  <1>2. card[f].draft # "none"
    BY <1>0, MediaTypes DEF Confirm, Cancel, MediaInv, CardStands
  <1>3. card' \in [Files -> [draft : {"none", "pending", "completed", "abandoned"},
                             rows : Nat, queued : Nat]]
    BY <1>0, <1>1 DEF MediaTypeOK
  <1>4. CardsRemain
    BY <1>0, <1>1, <1>2 DEF CardsRemain, MediaTypeOK
  <1>5. MediaTypeOK'
    BY <1>0, <1>3 DEF MediaTypeOK
  <1> QED
    BY <1>0, <1>4, <1>5, RunnersStay, CardsStandOn DEF MediaInv

-----------------------------------------------------------------------------
LEMMA NextMediaInv == MediaInv /\ [MediaNext]_mediaVars => MediaInv'
  <1> SUFFICES ASSUME MediaInv, [MediaNext]_mediaVars PROVE MediaInv'
    OBVIOUS
  <1>1. CASE UNCHANGED mediaVars
    <2>1. MediaTypeOK'
      BY <1>1 DEF mediaVars, MediaInv, MediaTypeOK
    <2> QED
      BY <1>1, <2>1, RunnersStay, CardsStay, CardsStandOn DEF mediaVars, MediaInv
  <1>2. ASSUME NEW f \in Files,
               \/ Send(f)
               \/ \E r \in Runners : Take(r, f) \/ RunStep(r, f) \/ WriteFails(r, f) \/ Dies(r, f)
               \/ Recovers(f)
               \/ Stalls(f)
               \/ Confirm(f)
               \/ Cancel(f)
        PROVE  MediaInv'
    BY <1>2, SendStep, TakeStep, FindsDraftStep, UnderstandsStep, ModelUnreachableStep,
       CreatesDraftStep, AnnouncesStep, ApologisesStep, FinishesStep, WriteFailsStep, DiesStep,
       RecoversStep, StallsStep, TapStep DEF RunStep
  <1> QED
    BY <1>1, <1>2 DEF MediaNext

THEOREM MediaInvariant == MediaSpec => []MediaInv
  BY InitMediaInv, NextMediaInv, PTL DEF MediaSpec

\* However many runners have a file in hand at once, and however often it is sent,
\* retried or taken over, its draft is created once, one row and one card announce
\* it, and no card is shown of a draft that is not there.
THEOREM CardsStayOne == MediaSpec => []OneCardPerFile
  <1>1. MediaInv => OneCardPerFile
    BY MediaTypes DEF MediaInv, CardStands, OneCardPerFile
  <1> QED
    BY <1>1, MediaInvariant, PTL

(****************************************************************************)
(* For any drafts and any calls: a draft has one transaction and at most    *)
(* one more for each thing that went wrong, although the key names no owner *)
(* and whoever releases may delete a claim of somebody else.                *)
(****************************************************************************)

\* The calls of draft d that are at one of the steps.
CallsAt(d, steps) == {a \in Attempts : DraftOf(a) = d /\ attempt[a].step \in steps}

\* The transactions of d, those that may still come, and the calls that will
\* release its key.
Charged(d) == rows[d] \cup CallsAt(d, {"claimed", "failing"})

\* The calls that will release the key of a transaction they have made.
Doomed(d) == rows[d] \cap CallsAt(d, {"failing"})

\* Each mishap allows one; so does the key while it is there, since no call
\* can claim it then.
Allowance(d) == mishaps[d] + IF key[d].value = "absent" THEN 0 ELSE 1

ChargesAreCovered ==
  \A d \in Drafts :
    /\ IsFiniteSet(Charged(d))
    /\ Cardinality(Charged(d)) + Cardinality(Doomed(d)) <= Allowance(d)

\* What a call or a key names is there, and only after it was inserted.
NamedExists ==
  /\ \A a \in Attempts : attempt[a].step \in {"new", "claimed"} => a \notin rows[DraftOf(a)]
  /\ \A a \in Attempts : At(a, "inserted") => a \in rows[DraftOf(a)]
  /\ \A a \in Attempts : At(a, "done") => attempt[a].txn \in rows[DraftOf(a)]
  /\ \A d \in Drafts : key[d].value = "result" => key[d].txn \in rows[d]

LockInv == TypeOK /\ NamedExists /\ ChargesAreCovered

-----------------------------------------------------------------------------
\* At first nothing is charged.
LEMMA InitLockInv == Init => LockInv
  <1> SUFFICES ASSUME Init PROVE LockInv
    OBVIOUS
  <1>1. PICK draftOf \in [Attempts -> Drafts] :
          attempt = [a \in Attempts |-> [step |-> "new", draft |-> draftOf[a], txn |-> Nobody]]
    BY DEF Init
  <1>2. TypeOK
    BY <1>1 DEF Init, TypeOK, KeyValues, AttemptStates, Steps, Absent
  <1>3. NamedExists
    BY <1>1 DEF Init, NamedExists, At, Absent, DraftOf
  <1>4. ASSUME NEW d \in Drafts
        PROVE  /\ IsFiniteSet(Charged(d))
               /\ Cardinality(Charged(d)) + Cardinality(Doomed(d)) <= Allowance(d)
    <2>1. Charged(d) = {} /\ Doomed(d) = {}
      BY <1>1 DEF Init, Charged, Doomed, CallsAt, DraftOf
    <2>2. Allowance(d) = 0
      BY DEF Init, Allowance, Absent
    <2> QED
      BY <2>1, <2>2, FS_EmptySet
  <1> QED
    BY <1>2, <1>3, <1>4 DEF LockInv, ChargesAreCovered

\* A set with one more member is finite and at most one larger.
LEMMA AddOne ==
  ASSUME NEW S, NEW x, IsFiniteSet(S)
  PROVE  /\ IsFiniteSet(S \cup {x})
         /\ Cardinality(S \cup {x}) \in Nat
         /\ Cardinality(S \cup {x}) <= Cardinality(S) + 1
  <1>1. Cardinality(S) \in Nat
    BY FS_CardinalityType
  <1>2. /\ IsFiniteSet(S \cup {x})
        /\ Cardinality(S \cup {x}) = IF x \in S THEN Cardinality(S) ELSE Cardinality(S) + 1
    BY FS_AddElement
  <1> QED
    BY <1>1, <1>2

\* A step that charges nothing more, dooms nothing more, and takes no allowance
\* away keeps the charges of a draft covered.
LEMMA Lighter ==
  ASSUME NEW d \in Drafts, TypeOK, TypeOK', ChargesAreCovered,
         Charged(d)' \subseteq Charged(d), Doomed(d)' \subseteq Doomed(d),
         Allowance(d) <= Allowance(d)'
  PROVE  /\ IsFiniteSet(Charged(d)')
         /\ Cardinality(Charged(d)') + Cardinality(Doomed(d)') <= Allowance(d)'
  <1>1. IsFiniteSet(Charged(d)) /\ Doomed(d) \subseteq Charged(d)
    BY DEF ChargesAreCovered, Charged, Doomed
  <1>2. IsFiniteSet(Doomed(d)) /\ Cardinality(Doomed(d)) \in Nat /\ Cardinality(Charged(d)) \in Nat
    BY <1>1, FS_Subset, FS_CardinalityType
  <1>3. /\ IsFiniteSet(Charged(d)') /\ Cardinality(Charged(d)') <= Cardinality(Charged(d))
        /\ Cardinality(Charged(d)') \in Nat
    BY <1>1, FS_Subset, FS_CardinalityType
  <1>4. /\ Cardinality(Doomed(d)') <= Cardinality(Doomed(d))
        /\ Cardinality(Doomed(d)') \in Nat
    BY <1>2, FS_Subset, FS_CardinalityType
  <1>5. Allowance(d) \in Nat /\ Allowance(d)' \in Nat
    BY DEF Allowance, TypeOK
  <1>6. Cardinality(Charged(d)) + Cardinality(Doomed(d)) <= Allowance(d)
    BY DEF ChargesAreCovered
  <1> QED
    BY <1>2, <1>3, <1>4, <1>5, <1>6

\* A step may charge one call more where it brings one allowance more.
LEMMA OneMoreCharged ==
  ASSUME NEW d \in Drafts, NEW a, TypeOK, TypeOK', ChargesAreCovered,
         Charged(d)' \subseteq Charged(d) \cup {a}, Doomed(d)' \subseteq Doomed(d),
         Allowance(d) + 1 <= Allowance(d)'
  PROVE  /\ IsFiniteSet(Charged(d)')
         /\ Cardinality(Charged(d)') + Cardinality(Doomed(d)') <= Allowance(d)'
  <1>1. IsFiniteSet(Charged(d)) /\ Doomed(d) \subseteq Charged(d)
    BY DEF ChargesAreCovered, Charged, Doomed
  <1>2. IsFiniteSet(Doomed(d)) /\ Cardinality(Doomed(d)) \in Nat /\ Cardinality(Charged(d)) \in Nat
    BY <1>1, FS_Subset, FS_CardinalityType
  <1>3. /\ IsFiniteSet(Charged(d) \cup {a})
        /\ Cardinality(Charged(d) \cup {a}) <= Cardinality(Charged(d)) + 1
        /\ Cardinality(Charged(d) \cup {a}) \in Nat
    BY <1>1, AddOne
  <1>4. /\ IsFiniteSet(Charged(d)')
        /\ Cardinality(Charged(d)') <= Cardinality(Charged(d) \cup {a})
        /\ Cardinality(Charged(d)') \in Nat
    BY <1>3, FS_Subset, FS_CardinalityType
  <1>5. /\ Cardinality(Doomed(d)') <= Cardinality(Doomed(d))
        /\ Cardinality(Doomed(d)') \in Nat
    BY <1>2, FS_Subset, FS_CardinalityType
  <1>6. Allowance(d) \in Nat /\ Allowance(d)' \in Nat
    BY DEF Allowance, TypeOK
  <1>7. Cardinality(Charged(d)) + Cardinality(Doomed(d)) <= Allowance(d)
    BY DEF ChargesAreCovered
  <1> QED
    BY <1>2, <1>3, <1>4, <1>5, <1>6, <1>7

\* A step may doom one more transaction where it brings one allowance more.
LEMMA OneMoreDoomed ==
  ASSUME NEW d \in Drafts, NEW a, TypeOK, TypeOK', ChargesAreCovered,
         Charged(d)' \subseteq Charged(d), Doomed(d)' \subseteq Doomed(d) \cup {a},
         Allowance(d) + 1 <= Allowance(d)'
  PROVE  /\ IsFiniteSet(Charged(d)')
         /\ Cardinality(Charged(d)') + Cardinality(Doomed(d)') <= Allowance(d)'
  <1>1. IsFiniteSet(Charged(d)) /\ Doomed(d) \subseteq Charged(d)
    BY DEF ChargesAreCovered, Charged, Doomed
  <1>2. IsFiniteSet(Doomed(d)) /\ Cardinality(Doomed(d)) \in Nat /\ Cardinality(Charged(d)) \in Nat
    BY <1>1, FS_Subset, FS_CardinalityType
  <1>3. /\ IsFiniteSet(Doomed(d) \cup {a})
        /\ Cardinality(Doomed(d) \cup {a}) <= Cardinality(Doomed(d)) + 1
        /\ Cardinality(Doomed(d) \cup {a}) \in Nat
    BY <1>2, AddOne
  <1>4. /\ Cardinality(Doomed(d)') <= Cardinality(Doomed(d) \cup {a})
        /\ Cardinality(Doomed(d)') \in Nat
    BY <1>3, FS_Subset, FS_CardinalityType
  <1>5. /\ IsFiniteSet(Charged(d)') /\ Cardinality(Charged(d)') <= Cardinality(Charged(d))
        /\ Cardinality(Charged(d)') \in Nat
    BY <1>1, FS_Subset, FS_CardinalityType
  <1>6. Allowance(d) \in Nat /\ Allowance(d)' \in Nat
    BY DEF Allowance, TypeOK
  <1>7. Cardinality(Charged(d)) + Cardinality(Doomed(d)) <= Allowance(d)
    BY DEF ChargesAreCovered
  <1> QED
    BY <1>2, <1>3, <1>4, <1>5, <1>6, <1>7

\* A call that releases a key no longer weighs on the draft: it was charged, or
\* charged with its transaction and doomed besides.
LEMMA OneLess ==
  ASSUME NEW d \in Drafts, NEW a, TypeOK, TypeOK', ChargesAreCovered,
         \/ a \in Charged(d) /\ Charged(d)' \subseteq Charged(d) \ {a}
              /\ Doomed(d)' \subseteq Doomed(d)
         \/ a \in Doomed(d) /\ Charged(d)' \subseteq Charged(d)
              /\ Doomed(d)' \subseteq Doomed(d) \ {a},
         Allowance(d) <= Allowance(d)' + 1
  PROVE  /\ IsFiniteSet(Charged(d)')
         /\ Cardinality(Charged(d)') + Cardinality(Doomed(d)') <= Allowance(d)'
  <1>1. IsFiniteSet(Charged(d)) /\ Doomed(d) \subseteq Charged(d)
    BY DEF ChargesAreCovered, Charged, Doomed
  <1>2. IsFiniteSet(Doomed(d)) /\ Cardinality(Doomed(d)) \in Nat /\ Cardinality(Charged(d)) \in Nat
    BY <1>1, FS_Subset, FS_CardinalityType
  <1>3. Allowance(d) \in Nat /\ Allowance(d)' \in Nat
    BY DEF Allowance, TypeOK
  <1>4. Cardinality(Charged(d)) + Cardinality(Doomed(d)) <= Allowance(d)
    BY DEF ChargesAreCovered
  <1>5. CASE a \in Charged(d) /\ Charged(d)' \subseteq Charged(d) \ {a}
               /\ Doomed(d)' \subseteq Doomed(d)
    <2>1. /\ IsFiniteSet(Charged(d) \ {a})
          /\ Cardinality(Charged(d) \ {a}) = Cardinality(Charged(d)) - 1
      BY <1>1, <1>5, FS_RemoveElement
    <2>2. /\ IsFiniteSet(Charged(d)')
          /\ Cardinality(Charged(d)') <= Cardinality(Charged(d) \ {a})
          /\ Cardinality(Charged(d)') \in Nat
      BY <2>1, <1>5, FS_Subset, FS_CardinalityType
    <2>3. Cardinality(Doomed(d)') <= Cardinality(Doomed(d)) /\ Cardinality(Doomed(d)') \in Nat
      BY <1>2, <1>5, FS_Subset, FS_CardinalityType
    <2> QED
      BY <1>2, <1>3, <1>4, <2>1, <2>2, <2>3
  <1>6. CASE a \in Doomed(d) /\ Charged(d)' \subseteq Charged(d)
               /\ Doomed(d)' \subseteq Doomed(d) \ {a}
    <2>1. /\ IsFiniteSet(Doomed(d) \ {a})
          /\ Cardinality(Doomed(d) \ {a}) = Cardinality(Doomed(d)) - 1
      BY <1>2, <1>6, FS_RemoveElement
    <2>2. Cardinality(Doomed(d)') <= Cardinality(Doomed(d) \ {a}) /\ Cardinality(Doomed(d)') \in Nat
      BY <2>1, <1>6, FS_Subset, FS_CardinalityType
    <2>3. /\ IsFiniteSet(Charged(d)') /\ Cardinality(Charged(d)') <= Cardinality(Charged(d))
          /\ Cardinality(Charged(d)') \in Nat
      BY <1>1, <1>6, FS_Subset, FS_CardinalityType
    <2> QED
      BY <1>2, <1>3, <1>4, <2>1, <2>2, <2>3
  <1> QED
    BY <1>5, <1>6

-----------------------------------------------------------------------------
\* A call that goes on, or ends with a transaction, keeps its type.
LEMMA CallTypes ==
  ASSUME TypeOK, NEW a \in Attempts, NEW step \in Steps, NEW inserted \in Attempts \cup {Nobody},
         attempt' \in { [attempt EXCEPT ![a].step = step],
                       [attempt EXCEPT ![a].step = step, ![a].txn = inserted] }
  PROVE  attempt' \in [Attempts -> AttemptStates]
  BY DEF TypeOK, AttemptStates

\* Each action keeps the types.
LEMMA TypeStep == TypeOK /\ [Next]_vars => TypeOK'
  <1> SUFFICES ASSUME TypeOK, [Next]_vars PROVE TypeOK'
    OBVIOUS
  <1>1. ASSUME NEW a \in Attempts, CallNext(a) PROVE TypeOK'
    <2>1. Nobody \in Attempts /\ DraftOf(a) \in Drafts
      BY DEF Nobody, TypeOK, AttemptStates, DraftOf
    <2>2. attempt' \in [Attempts -> AttemptStates]
      <3>1. CASE GetResult(a)
        <4>1. CASE HasResult(DraftOf(a))
          <5>1. key[DraftOf(a)].txn \in Attempts \cup {Nobody}
            BY <2>1 DEF TypeOK, KeyValues
          <5>2. attempt' = [attempt EXCEPT ![a].step = "done", ![a].txn = key[DraftOf(a)].txn]
            BY <3>1, <4>1 DEF GetResult
          <5> QED
            BY <5>1, <5>2, CallTypes DEF Steps
        <4>2. CASE ~ HasResult(DraftOf(a))
          <5>1. attempt' = [attempt EXCEPT ![a].step = "failed"]
            BY <3>1, <4>2 DEF GetResult
          <5> QED
            BY <2>1, <5>1, CallTypes DEF Steps
        <4> QED
          BY <4>1, <4>2
      <3>2. CASE StoreResult(a)
        <4>1. attempt' = [attempt EXCEPT ![a].step = "done", ![a].txn = a]
          BY <3>2 DEF StoreResult
        <4> QED
          BY <4>1, CallTypes DEF Steps
      <3>3. CASE ~ GetResult(a) /\ ~ StoreResult(a)
        <4>1. \E step \in Steps : attempt' = [attempt EXCEPT ![a].step = step]
          BY <1>1, <3>3 DEF CallNext, TryClaim, Insert, InsertFails, InsertUnanswered, StoreFails,
                            Release, ReleaseFails, AttemptDies, GoTo, Steps
        <4> QED
          BY <2>1, <4>1, CallTypes
      <3> QED
        BY <3>1, <3>2, <3>3
    <2>3. key' \in [Drafts -> KeyValues]
      <3>1. \/ key' = key
            \/ \E value \in {Absent, Pending, ResultOf(a)} : key' = [key EXCEPT ![DraftOf(a)] = value]
        BY <1>1 DEF CallNext, TryClaim, GetResult, Insert, InsertFails, InsertUnanswered, StoreResult,
                    StoreFails, Release, ReleaseFails, AttemptDies
      <3>2. {Absent, Pending, ResultOf(a)} \subseteq KeyValues
        BY <2>1 DEF Absent, Pending, ResultOf, KeyValues
      <3> QED
        BY <2>1, <3>1, <3>2 DEF TypeOK
    <2>4. rows' \in [Drafts -> SUBSET Attempts]
      <3>1. rows' = rows \/ rows' = [rows EXCEPT ![DraftOf(a)] = @ \cup {a}]
        BY <1>1 DEF CallNext, TryClaim, GetResult, Insert, InsertFails, InsertUnanswered, StoreResult,
                    StoreFails, Release, ReleaseFails, AttemptDies
      <3> QED
        BY <2>1, <3>1 DEF TypeOK
    <2>5. mishaps' \in [Drafts -> Nat]
      <3>1. mishaps' = mishaps \/ Mishap(DraftOf(a))
        BY <1>1 DEF CallNext, TryClaim, GetResult, Insert, InsertFails, InsertUnanswered, StoreResult,
                    StoreFails, Release, ReleaseFails, AttemptDies
      <3> QED
        BY <2>1, <3>1 DEF TypeOK, Mishap
    <2> QED
      BY <2>2, <2>3, <2>4, <2>5 DEF TypeOK
  <1>2. ASSUME NEW d \in Drafts, ExpireKey(d) PROVE TypeOK'
    <2>1. key' \in [Drafts -> KeyValues]
      BY <1>2 DEF ExpireKey, TypeOK, Absent, KeyValues
    <2>2. mishaps' \in [Drafts -> Nat]
      BY <1>2 DEF ExpireKey, TypeOK, Mishap
    <2> QED
      BY <1>2, <2>1, <2>2 DEF ExpireKey, TypeOK
  <1>3. CASE UNCHANGED vars
    BY <1>3 DEF vars, TypeOK
  <1> QED
    BY <1>1, <1>2, <1>3 DEF Next, Finished

\* A call only ever names a transaction that is there: rows are never removed.
LEMMA NamedStep == TypeOK /\ NamedExists /\ [Next]_vars => NamedExists'
  <1> SUFFICES ASSUME TypeOK, NamedExists, [Next]_vars PROVE NamedExists'
    OBVIOUS
  <1> USE DEF TypeOK, NamedExists, AttemptStates, KeyValues, Absent, Pending, ResultOf, GoTo, At, DraftOf
  <1>1. ASSUME NEW a \in Attempts, CallNext(a) PROVE NamedExists'
    <2>1. CASE TryClaim(a)
      <3>1. /\ attempt[a].step = "new"
            /\ \E step \in {"claimed", "refused"} : attempt' = [attempt EXCEPT ![a].step = step]
        BY <2>1 DEF TryClaim
      <3>2. rows' = rows /\ key' \in {key, [key EXCEPT ![DraftOf(a)] = Pending]}
        BY <2>1 DEF TryClaim
      <3>3. \A d \in Drafts : key'[d] = key[d] \/ key'[d].value = "pending"
        BY <3>2
      <3> QED
        BY <3>1, <3>2, <3>3
    <2>2. CASE GetResult(a)
      BY <2>2 DEF GetResult, HasResult
    <2>3. CASE Insert(a)
      BY <2>3 DEF Insert
    <2>4. CASE InsertFails(a)
      BY <2>4 DEF InsertFails
    <2>5. CASE InsertUnanswered(a)
      BY <2>5 DEF InsertUnanswered
    <2>6. CASE StoreResult(a)
      BY <2>6 DEF StoreResult
    <2>7. CASE StoreFails(a)
      BY <2>7 DEF StoreFails
    <2>8. CASE Release(a)
      BY <2>8 DEF Release
    <2>9. CASE ReleaseFails(a)
      BY <2>9 DEF ReleaseFails
    <2>10. CASE AttemptDies(a)
      BY <2>10 DEF AttemptDies
    <2> QED
      BY <1>1, <2>1, <2>2, <2>3, <2>4, <2>5, <2>6, <2>7, <2>8, <2>9, <2>10 DEF CallNext
  <1>2. ASSUME NEW d \in Drafts, ExpireKey(d) PROVE NamedExists'
    BY <1>2 DEF ExpireKey
  <1>3. CASE UNCHANGED vars
    BY <1>3 DEF vars
  <1> QED
    BY <1>1, <1>2, <1>3 DEF Next, Finished

\* Which of the lemmas above keeps the charges of a draft covered, action by
\* action.
LEMMA ChargesStep == LockInv /\ TypeOK' /\ [Next]_vars => ChargesAreCovered'
  <1> SUFFICES ASSUME TypeOK, NamedExists, TypeOK', ChargesAreCovered, [Next]_vars, NEW d \in Drafts
               PROVE  /\ IsFiniteSet(Charged(d)')
                      /\ Cardinality(Charged(d)') + Cardinality(Doomed(d)') <= Allowance(d)'
    BY DEF LockInv, ChargesAreCovered
  <1> DEFINE Covered == /\ IsFiniteSet(Charged(d)')
                        /\ Cardinality(Charged(d)') + Cardinality(Doomed(d)') <= Allowance(d)'
  <1> USE DEF Charged, Doomed, CallsAt, Allowance, TypeOK, KeyValues, AttemptStates, Absent,
              Pending, ResultOf, GoTo, Mishap, At, DraftOf
  <1>1. ASSUME NEW a \in Attempts, CallNext(a) PROVE Covered
    <2>1. CASE TryClaim(a) /\ MayClaim(DraftOf(a)) /\ DraftOf(a) = d
      <3>1. /\ attempt' = [attempt EXCEPT ![a].step = "claimed"]
            /\ key' = [key EXCEPT ![d] = Pending]
            /\ rows' = rows /\ mishaps' = mishaps
            /\ key[d].value = "absent"
        BY <2>1 DEF TryClaim, MayClaim
      <3>2. Charged(d)' \subseteq Charged(d) \cup {a}
        BY <3>1
      <3>3. Doomed(d)' \subseteq Doomed(d)
        BY <3>1
      <3>4. Allowance(d) + 1 <= Allowance(d)'
        BY <3>1
      <3> QED
        BY <3>2, <3>3, <3>4, OneMoreCharged DEF Covered
    <2>2. CASE (InsertUnanswered(a) \/ StoreFails(a)) /\ DraftOf(a) = d
      <3>1. /\ attempt' = [attempt EXCEPT ![a].step = "failing"]
            /\ mishaps' = [mishaps EXCEPT ![d] = @ + 1]
            /\ rows' = rows \/ (At(a, "claimed") /\ rows' = [rows EXCEPT ![d] = @ \cup {a}])
            /\ rows' = rows => a \in rows[d]
            /\ key' = key
        BY <2>2 DEF InsertUnanswered, StoreFails, NamedExists
      <3>2. Charged(d)' \subseteq Charged(d)
        <4>1. CASE rows' = rows
          BY <3>1, <4>1
        <4>2. CASE At(a, "claimed") /\ rows' = [rows EXCEPT ![d] = @ \cup {a}]
          BY <2>2, <3>1, <4>2
        <4> QED
          BY <3>1, <4>1, <4>2
      <3>3. Doomed(d)' \subseteq Doomed(d) \cup {a}
        BY <3>1
      <3>4. Allowance(d) + 1 <= Allowance(d)'
        BY <3>1
      <3> QED
        BY <3>2, <3>3, <3>4, OneMoreDoomed DEF Covered
    <2>3. CASE Release(a) /\ DraftOf(a) = d
      <3>1. Allowance(d) <= Allowance(d)' + 1
        BY <2>3 DEF Release
      <3>2. CASE a \in rows[d]
        <4>1. a \in Doomed(d) /\ Charged(d)' \subseteq Charged(d) /\ Doomed(d)' \subseteq Doomed(d) \ {a}
          BY <2>3, <3>2 DEF Release
        <4> QED
          BY <3>1, <4>1, OneLess DEF Covered
      <3>3. CASE a \notin rows[d]
        <4>1. a \in Charged(d) /\ Charged(d)' \subseteq Charged(d) \ {a} /\ Doomed(d)' \subseteq Doomed(d)
          BY <2>3, <3>3 DEF Release
        <4> QED
          BY <3>1, <4>1, OneLess DEF Covered
      <3> QED
        BY <3>2, <3>3
    <2>4. CASE \/ TryClaim(a) /\ ~ (MayClaim(DraftOf(a)) /\ DraftOf(a) = d)
               \/ GetResult(a) \/ Insert(a) \/ InsertFails(a) \/ StoreResult(a)
               \/ InsertUnanswered(a) /\ DraftOf(a) # d
               \/ StoreFails(a) /\ DraftOf(a) # d
               \/ Release(a) /\ DraftOf(a) # d
               \/ ReleaseFails(a) \/ AttemptDies(a)
      <3>1. Charged(d)' \subseteq Charged(d) /\ Doomed(d)' \subseteq Doomed(d)
        <4>1. CASE TryClaim(a) /\ ~ (MayClaim(DraftOf(a)) /\ DraftOf(a) = d)
          <5>1. \E step \in {"claimed", "refused"} :
                  /\ attempt' = [attempt EXCEPT ![a].step = step]
                  /\ step = "claimed" => DraftOf(a) # d
            BY <4>1 DEF TryClaim
          <5>2. rows' = rows
            BY <4>1 DEF TryClaim
          <5> QED
            BY <5>1, <5>2
        <4>2. CASE GetResult(a)
          BY <4>2 DEF GetResult
        <4>3. CASE Insert(a)
          BY <4>3 DEF Insert
        <4>4. CASE InsertFails(a)
          BY <4>4 DEF InsertFails, NamedExists
        <4>5. CASE StoreResult(a)
          BY <4>5 DEF StoreResult
        <4>6. CASE InsertUnanswered(a) /\ DraftOf(a) # d
          BY <4>6 DEF InsertUnanswered
        <4>7. CASE StoreFails(a) /\ DraftOf(a) # d
          BY <4>7 DEF StoreFails
        <4>8. CASE Release(a) /\ DraftOf(a) # d
          BY <4>8 DEF Release
        <4>9. CASE ReleaseFails(a) \/ AttemptDies(a)
          BY <4>9 DEF ReleaseFails, AttemptDies
        <4> QED
          BY <2>4, <4>1, <4>2, <4>3, <4>4, <4>5, <4>6, <4>7, <4>8, <4>9
      <3>2. Allowance(d) <= Allowance(d)'
        <4>1. CASE TryClaim(a)
          BY <4>1 DEF TryClaim, MayClaim
        <4>2. CASE GetResult(a) \/ Insert(a) \/ InsertFails(a)
          BY <4>2 DEF GetResult, Insert, InsertFails
        <4>3. CASE StoreResult(a)
          BY <4>3 DEF StoreResult
        <4>4. CASE (InsertUnanswered(a) \/ StoreFails(a)) /\ DraftOf(a) # d
          BY <4>4 DEF InsertUnanswered, StoreFails
        <4>5. CASE Release(a) /\ DraftOf(a) # d
          BY <4>5 DEF Release
        <4>6. CASE ReleaseFails(a) \/ AttemptDies(a)
          <5>1. key' = key /\ mishaps' = [mishaps EXCEPT ![DraftOf(a)] = @ + 1]
            BY <4>6 DEF ReleaseFails, AttemptDies
          <5> QED
            BY <5>1
        <4> QED
          BY <2>4, <4>1, <4>2, <4>3, <4>4, <4>5, <4>6
      <3> QED
        BY <3>1, <3>2, Lighter DEF Covered
    <2> QED
      BY <1>1, <2>1, <2>2, <2>3, <2>4 DEF CallNext
  <1>2. ASSUME NEW e \in Drafts, ExpireKey(e) PROVE Covered
    <2>1. Charged(d)' = Charged(d) /\ Doomed(d)' = Doomed(d)
      BY <1>2 DEF ExpireKey
    <2>2. CASE e # d \/ Held(d) \/ rows[d] # {}
      <3>1. Allowance(d) <= Allowance(d)'
        BY <1>2, <2>2 DEF ExpireKey, Expires
      <3> QED
        BY <2>1, <3>1, Lighter DEF Covered
    <2>3. CASE ~ Held(d) /\ rows[d] = {}
      <3>1. Charged(d) = {} /\ Doomed(d) = {}
        BY <2>3 DEF Held
      <3>2. Allowance(d)' >= 0
        OBVIOUS
      <3>3. IsFiniteSet({}) /\ Cardinality({}) = 0
        BY FS_EmptySet
      <3>4. Charged(d)' = {} /\ Doomed(d)' = {}
        BY <2>1, <3>1
      <3> HIDE DEF Charged, Doomed, Allowance
      <3> QED
        BY <3>2, <3>3, <3>4 DEF Covered
    <2> QED
      BY <2>2, <2>3
  <1>3. CASE UNCHANGED vars
    <2>1. Charged(d)' = Charged(d) /\ Doomed(d)' = Doomed(d) /\ Allowance(d)' = Allowance(d)
      BY <1>3 DEF vars
    <2>2. Allowance(d) <= Allowance(d)'
      BY <2>1
    <2> QED
      BY <2>1, <2>2, Lighter DEF Covered
  <1> QED
    BY <1>1, <1>2, <1>3 DEF Next, Finished, Covered

\* The strengthening holds of every state, whatever expires or fails: the claims
\* of tryClaim and the keys that release deletes stay within what went wrong.
THEOREM LockInvariant == Spec => []LockInv
  <1>1. LockInv /\ [Next]_vars => LockInv'
    BY TypeStep, NamedStep, ChargesStep DEF LockInv
  <1> QED
    BY InitLockInv, <1>1, PTL DEF Spec

-----------------------------------------------------------------------------
\* The keys, the calls and the rows keep their types, for any drafts and calls.
THEOREM TypeCorrect == Spec => []TypeOK
  <1>1. LockInv => TypeOK
    BY DEF LockInv
  <1> QED
    BY <1>1, LockInvariant, PTL

\* A draft has at most one transaction more than mishaps, however many calls
\* commit it, and every call is answered with a transaction that exists.
THEOREM CommitsStayCounted == Spec => []CommitsAreCounted
  <1>1. LockInv => CommitsAreCounted
    <2> SUFFICES ASSUME LockInv PROVE CommitsAreCounted
      OBVIOUS
    <2>1. ASSUME NEW d \in Drafts PROVE Cardinality(rows[d]) <= 1 + mishaps[d]
      <3>1. /\ IsFiniteSet(Charged(d))
            /\ Cardinality(Charged(d)) + Cardinality(Doomed(d)) <= Allowance(d)
        BY DEF LockInv, ChargesAreCovered
      <3>2. rows[d] \subseteq Charged(d) /\ Doomed(d) \subseteq Charged(d)
        BY DEF Charged, Doomed
      <3>3. /\ Cardinality(rows[d]) <= Cardinality(Charged(d)) /\ IsFiniteSet(rows[d])
            /\ IsFiniteSet(Doomed(d))
        BY <3>1, <3>2, FS_Subset
      <3>4. /\ Cardinality(rows[d]) \in Nat /\ Cardinality(Charged(d)) \in Nat
            /\ Cardinality(Doomed(d)) \in Nat
        BY <3>1, <3>3, FS_CardinalityType
      <3>5. mishaps[d] \in Nat /\ Allowance(d) \in Nat /\ Allowance(d) <= 1 + mishaps[d]
        BY DEF LockInv, TypeOK, Allowance
      <3> QED
        BY <3>1, <3>3, <3>4, <3>5
    <2> QED
      BY <2>1 DEF LockInv, NamedExists, CommitsAreCounted, OneMorePerMishap, AnsweredExists
  <1> QED
    BY <1>1, LockInvariant, PTL

(***************************************************************************)
(* For any number of handlers, dialogs and bounds: a record that a         *)
(* confirmation cleared is gone until the next dialog begins, and its      *)
(* version tells a session from those before until it ends.                *)
(***************************************************************************)
LoanRecords == [version : Nat, kind : LoanKinds, step : Nat, about : Nat]
Sessions == [version : Nat, field : {"none", "min", "max"},
             min : Bounds \cup {Unset}, max : Bounds \cup {Unset}]
LoanWork == {"answer", "cancel", "confirm", "record"}
SearchWork == {"search", "reset", "min", "max", "page", "close", "bound"}
HandlerStates == [does : {"nothing", "start", "deletion", "request"} \cup LoanWork \cup SearchWork,
                  read : LoanRecords, session : Sessions, tap : LoanRecords]

DialogsTypeOK ==
  /\ loanWizard \in LoanRecords /\ search \in Sessions /\ shown \in SUBSET LoanRecords
  /\ dialogs \in 0..MaxDialogs /\ carried \in [1..MaxDialogs -> Nat]
  /\ ended \in BOOLEAN /\ handler \in [Handlers -> HandlerStates]

\* A wizard, and what has been read of one, has a version and is about a dialog begun.
WizardStands(w) == w.version > 0 /\ w.about \in 1..dialogs

Recorders(d) == {u \in Handlers : About(u, "record") /\ handler[u].read.about = d}

\* Once the latest dialog is confirmed the record is gone until the next begins.
LatestIsConfirmedOnce ==
  dialogs > 0 =>
    \/ carried[dialogs] = 0 /\ Recorders(dialogs) = {}
    \/ /\ loanWizard = NoLoanWizard
       /\ \/ carried[dialogs] = 1 /\ Recorders(dialogs) = {}
          \/ carried[dialogs] = 0 /\ \E u \in Handlers : Recorders(dialogs) = {u}

LoansStand ==
  /\ loanWizard = NoLoanWizard \/ WizardStands(loanWizard)
  /\ \A u \in Handlers : handler[u].does \in LoanWork => WizardStands(handler[u].read)
  /\ \A d \in 1..MaxDialogs : d > dialogs => carried[d] = 0
  /\ LatestIsConfirmedOnce

\* Until a session ends, its version tells it from those before.
SearchStands ==
  ~ended => \A u \in Handlers : handler[u].does \in SearchWork =>
    /\ handler[u].session.version <= search.version
    /\ handler[u].session.version = search.version => handler[u].session = search

DialogsInv == DialogsTypeOK /\ LoansStand /\ SearchStands

LEMMA BlanksAre ==
  /\ NoLoanWizard \in LoanRecords /\ NoLoanWizard.version = 0
  /\ NoSession \in Sessions /\ NoSession.version = 0 /\ NoSession.min = Unset /\ NoSession.max = Unset
  /\ Idle \in HandlerStates /\ Idle.does = "nothing"
  <1>1. NoLoanWizard \in LoanRecords /\ NoLoanWizard.version = 0
    BY DEF NoLoanWizard, LoanRecords, LoanKinds
  <1>2. NoSession \in Sessions /\ NoSession.version = 0 /\ NoSession.min = Unset /\ NoSession.max = Unset
    BY DEF NoSession, Sessions
  <1> HIDE DEF NoLoanWizard, NoSession
  <1> QED
    BY <1>1, <1>2 DEF Idle, HandlerStates

\* Handler u turns to h; what concerns the loan wizard is as it was.
LEMMA LoansKept ==
  ASSUME DialogsInv, NEW u \in Handlers, NEW h \in HandlerStates,
         handler' = [handler EXCEPT ![u] = h], ~About(u, "record"), h.does # "record",
         h.does \in LoanWork => WizardStands(h.read),
         UNCHANGED <<loanWizard, dialogs, carried>>
  PROVE  LoansStand' /\ handler' \in [Handlers -> HandlerStates]
  <1>1. /\ handler \in [Handlers -> HandlerStates] /\ handler' \in [Handlers -> HandlerStates]
        /\ handler'[u] = h /\ \A v \in Handlers : v # u => handler'[v] = handler[v]
    BY DEF DialogsInv, DialogsTypeOK
  <1>2. \A d : Recorders(d)' = Recorders(d)
    BY <1>1 DEF Recorders, About
  <1>3. ASSUME NEW v \in Handlers, handler'[v].does \in LoanWork PROVE WizardStands(handler[v].read)'
    <2>1. WizardStands(handler'[v].read)
      BY <1>1, <1>3 DEF DialogsInv, LoansStand
    <2> QED
      BY <2>1 DEF WizardStands
  <1>4. LatestIsConfirmedOnce'
    BY <1>2 DEF DialogsInv, LoansStand, LatestIsConfirmedOnce
  <1> QED
    BY <1>1, <1>3, <1>4 DEF DialogsInv, LoansStand, WizardStands

\* Handler u turns to h; the session is as it was.
LEMMA SearchKept ==
  ASSUME DialogsInv, NEW u \in Handlers, NEW h \in HandlerStates,
         handler' = [handler EXCEPT ![u] = h],
         h.does \in SearchWork => h.session = search,
         UNCHANGED search, ended => ended'
  PROVE  SearchStands'
  <1>1. /\ handler \in [Handlers -> HandlerStates] /\ search \in Sessions
        /\ handler'[u] = h /\ \A v \in Handlers : v # u => handler'[v] = handler[v]
    BY DEF DialogsInv, DialogsTypeOK
  <1> QED
    BY <1>1 DEF DialogsInv, SearchStands, Sessions

\* Handler u writes the session it has read over itself, and is done.
LEMMA SearchMoves ==
  ASSUME DialogsInv, NEW u \in Handlers, handler' = [handler EXCEPT ![u] = Idle],
         NEW new \in Sessions, search' = new, new.version > search.version \/ ended',
         ended => ended'
  PROVE  SearchStands'
  <1>1. /\ handler \in [Handlers -> HandlerStates] /\ search \in Sessions
        /\ handler'[u] = Idle /\ \A v \in Handlers : v # u => handler'[v] = handler[v]
    BY DEF DialogsInv, DialogsTypeOK
  <1>2. Idle.does \notin SearchWork
    BY DEF Idle, SearchWork
  <1>3. ASSUME ~ended', NEW v \in Handlers, handler'[v].does \in SearchWork
        PROVE  handler'[v].session.version < search'.version
    <2>1. handler'[v] = handler[v] /\ handler[v].session \in Sessions
      BY <1>1, <1>2, <1>3 DEF HandlerStates
    <2>2. handler[v].session.version <= search.version
      BY <1>3, <2>1 DEF DialogsInv, SearchStands
    <2> QED
      BY <1>1, <1>3, <2>1, <2>2 DEF Sessions
  <1>4. /\ search' \in Sessions
        /\ \A v \in Handlers : handler'[v].does \in SearchWork => handler'[v].session \in Sessions
    BY <1>1, <1>2 DEF HandlerStates
  <1> QED
    BY <1>3, <1>4 DEF SearchStands, Sessions

LEMMA AdvancedIs ==
  ASSUME NEW w \in LoanRecords, WizardStands(w)
  PROVE  Advanced(w) \in LoanRecords /\ WizardStands(Advanced(w))
  <1>1. Advanced(w) \in LoanRecords
    <2> DEFINE x == [w EXCEPT !.version = w.version + 1]
    <2>1. x \in LoanRecords /\ w.step + 1 \in Nat
      BY DEF LoanRecords
    <2>2. Advanced(w) = [x EXCEPT !.step = w.step + 1]
      BY DEF Advanced, LoanRecords
    <2> HIDE DEF x
    <2> QED
      BY <2>1, <2>2 DEF LoanRecords
  <1>2. Advanced(w).version = w.version + 1 /\ Advanced(w).about = w.about /\ w.version \in Nat
    BY DEF Advanced, LoanRecords
  <1> QED
    BY <1>1, <1>2 DEF WizardStands

LEMMA StartLoanStep ==
  ASSUME DialogsInv, NEW u \in Handlers, NEW kind \in LoanKinds, StartLoan(u, kind)
  PROVE  DialogsInv'
  <1> DEFINE h == [Idle EXCEPT !.does = "start", !.read = [loanWizard EXCEPT !.kind = kind]]
  <1>1. /\ handler[u] = Idle /\ handler' = [handler EXCEPT ![u] = h]
        /\ UNCHANGED <<loanWizard, shown, dialogs, carried, search, ended>>
    BY DEF StartLoan, Begin, loanRecords, searchRecords
  <1>2. h \in HandlerStates /\ h.does = "start"
    BY BlanksAre DEF DialogsInv, DialogsTypeOK, LoanRecords, HandlerStates
  <1> HIDE DEF h
  <1>3. ~About(u, "record")
    BY <1>1, BlanksAre DEF About
  <1>4. LoansStand' /\ handler' \in [Handlers -> HandlerStates] /\ SearchStands'
    BY <1>1, <1>2, <1>3, LoansKept, SearchKept DEF LoanWork, SearchWork
  <1> QED
    BY <1>1, <1>4 DEF DialogsInv, DialogsTypeOK

LEMMA WriteStartStep ==
  ASSUME DialogsInv, NEW u \in Handlers, WriteStart(u)
  PROVE  DialogsInv'
  <1> DEFINE read == handler[u].read
             started == [version |-> read.version + 1, kind |-> read.kind, step |-> 1, about |-> dialogs + 1]
  <1>1. /\ handler[u].does = "start" /\ handler' = [handler EXCEPT ![u] = Idle]
        /\ UNCHANGED <<shown, carried, search, ended>>
    BY DEF WriteStart, About, End, searchRecords
  <1>2. ~About(u, "record") /\ Idle.does \notin LoanWork \cup SearchWork /\ Idle \in HandlerStates
    BY <1>1, BlanksAre DEF About, LoanWork, SearchWork
  <1>3. SearchStands'
    BY <1>1, <1>2, SearchKept
  <1>4. CASE UNCHANGED <<loanWizard, dialogs>>
    <2>1. LoansStand' /\ handler' \in [Handlers -> HandlerStates]
      BY <1>1, <1>2, <1>4, BlanksAre, LoansKept
    <2> QED
      BY <1>1, <1>3, <1>4, <2>1 DEF DialogsInv, DialogsTypeOK
  <1>5. CASE loanWizard' = started /\ dialogs' = dialogs + 1 /\ dialogs < MaxDialogs
    <2>1. /\ handler \in [Handlers -> HandlerStates] /\ handler' \in [Handlers -> HandlerStates]
          /\ handler'[u] = Idle /\ \A v \in Handlers : v # u => handler'[v] = handler[v]
          /\ dialogs \in Nat /\ dialogs' \in 1..MaxDialogs /\ carried \in [1..MaxDialogs -> Nat]
      BY <1>1, <1>2, <1>5, DialogAssumption DEF DialogsInv, DialogsTypeOK
    <2>2. started \in LoanRecords /\ started.version > 0 /\ started.about = dialogs + 1
      <3>1. read \in LoanRecords
        BY <2>1 DEF HandlerStates
      <3> QED
        BY <2>1, <3>1 DEF LoanRecords
    <2> HIDE DEF started
    <2>3. \A v \in Handlers : handler'[v].does \in LoanWork =>
            handler'[v] = handler[v] /\ WizardStands(handler[v].read)
      BY <1>2, <2>1 DEF DialogsInv, LoansStand
    <2>4. \A w : WizardStands(w) => w.version > 0 /\ w.about \in 1..dialogs' /\ w.about # dialogs'
      BY <1>5, <2>1 DEF WizardStands
    <2>5. Recorders(dialogs)' = {} /\ carried'[dialogs'] = 0
      <3>1. ASSUME NEW v \in Handlers, handler'[v].does = "record" PROVE handler'[v].read.about # dialogs'
        BY <2>3, <2>4, <3>1 DEF LoanWork
      <3>2. carried[dialogs'] = 0
        BY <1>5, <2>1 DEF DialogsInv, LoansStand
      <3> QED
        BY <1>1, <3>1, <3>2 DEF Recorders, About
    <2>6. WizardStands(loanWizard)'
      BY <1>5, <2>1, <2>2 DEF WizardStands
    <2>7. \A v \in Handlers : handler'[v].does \in LoanWork => WizardStands(handler[v].read)'
      BY <2>3, <2>4 DEF WizardStands
    <2>8. LoansStand'
      BY <1>1, <1>5, <2>1, <2>5, <2>6, <2>7 DEF LoansStand, LatestIsConfirmedOnce, DialogsInv
    <2> QED
      BY <1>1, <1>3, <1>5, <2>1, <2>2, <2>8 DEF DialogsInv, DialogsTypeOK
  <1> QED
    BY <1>4, <1>5 DEF WriteStart

LEMMA WriteAnswerStep ==
  ASSUME DialogsInv, NEW u \in Handlers, WriteAnswer(u)
  PROVE  DialogsInv'
  <1> DEFINE read == handler[u].read
  <1>1. /\ handler[u].does = "answer" /\ handler' = [handler EXCEPT ![u] = Idle]
        /\ UNCHANGED <<dialogs, carried, search, ended>>
    BY DEF WriteAnswer, About, End, searchRecords
  <1>2. ~About(u, "record") /\ Idle.does \notin LoanWork \cup SearchWork /\ Idle \in HandlerStates
    BY <1>1, BlanksAre DEF About, LoanWork, SearchWork
  <1>3. SearchStands'
    BY <1>1, <1>2, SearchKept
  <1>4. CASE UNCHANGED <<loanWizard, shown>>
    <2>1. LoansStand' /\ handler' \in [Handlers -> HandlerStates]
      BY <1>1, <1>2, <1>4, BlanksAre, LoansKept
    <2> QED
      BY <1>1, <1>3, <1>4, <2>1 DEF DialogsInv, DialogsTypeOK
  <1>5. CASE /\ loanWizard.version = read.version /\ loanWizard' = Advanced(read)
             /\ shown' = shown \cup {w \in {Advanced(read)} : Confirming(w)}
    <2>1. /\ handler \in [Handlers -> HandlerStates] /\ handler' \in [Handlers -> HandlerStates]
          /\ handler'[u] = Idle /\ \A v \in Handlers : v # u => handler'[v] = handler[v]
          /\ read \in LoanRecords /\ WizardStands(read)
      BY <1>1, <1>2 DEF DialogsInv, DialogsTypeOK, HandlerStates, LoansStand, LoanWork
    <2>2. Advanced(read) \in LoanRecords /\ WizardStands(Advanced(read))
      BY <2>1, AdvancedIs
    <2>3. loanWizard # NoLoanWizard
      BY <1>5, <2>1, BlanksAre DEF WizardStands
    <2>4. \A d : Recorders(d)' = Recorders(d)
      BY <1>1, <1>2, <2>1 DEF Recorders, About, LoanWork
    <2>5. LatestIsConfirmedOnce'
      BY <1>1, <2>3, <2>4 DEF DialogsInv, LoansStand, LatestIsConfirmedOnce
    <2>6. \A v \in Handlers : handler'[v].does \in LoanWork => WizardStands(handler[v].read)'
      BY <1>1, <1>2, <2>1 DEF DialogsInv, LoansStand, WizardStands
    <2>7. LoansStand'
      BY <1>1, <1>5, <2>2, <2>5, <2>6 DEF DialogsInv, LoansStand, WizardStands
    <2> QED
      BY <1>1, <1>3, <1>5, <2>1, <2>2, <2>7 DEF DialogsInv, DialogsTypeOK
  <1> QED
    BY <1>4, <1>5 DEF WriteAnswer, Holds

\* A tap, or /cancel: the record there is was read.
LEMMA TapLoanStep ==
  ASSUME DialogsInv, NEW u \in Handlers,
         \/ \E button \in shown : TapLoan(u, button, "confirm") \/ TapLoan(u, button, "cancel")
         \/ CancelCommand(u)
  PROVE  DialogsInv'
  <1>1. PICK what \in {"confirm", "cancel"}, button \in shown \cup {NoLoanWizard} :
          /\ loanWizard # NoLoanWizard
          /\ Begin(u, [Idle EXCEPT !.does = what, !.read = loanWizard, !.tap = button])
          /\ UNCHANGED <<loanRecords, searchRecords, deletionVars>>
    <2>1. /\ Idle.tap = NoLoanWizard
          /\ Idle = [does |-> "nothing", read |-> NoLoanWizard, session |-> NoSession, tap |-> NoLoanWizard]
      BY DEF Idle
    <2>2. [Idle EXCEPT !.does = "cancel", !.read = loanWizard]
            = [Idle EXCEPT !.does = "cancel", !.read = loanWizard, !.tap = NoLoanWizard]
      BY <2>1
    <2> QED
      BY <2>2 DEF TapLoan, CancelCommand
  <1> DEFINE h == [Idle EXCEPT !.does = what, !.read = loanWizard, !.tap = button]
  <1>2. /\ handler[u] = Idle /\ handler' = [handler EXCEPT ![u] = h]
        /\ UNCHANGED <<loanWizard, shown, dialogs, carried, search, ended>>
    BY <1>1 DEF Begin, loanRecords, searchRecords
  <1>3. h \in HandlerStates /\ h.does = what /\ h.read = loanWizard
    BY BlanksAre DEF DialogsInv, DialogsTypeOK, HandlerStates, LoanWork
  <1> HIDE DEF h
  <1>4. ~About(u, "record") /\ WizardStands(h.read)
    BY <1>1, <1>2, <1>3, BlanksAre DEF About, DialogsInv, LoansStand
  <1>5. LoansStand' /\ handler' \in [Handlers -> HandlerStates] /\ SearchStands'
    BY <1>2, <1>3, <1>4, LoansKept, SearchKept DEF LoanWork, SearchWork
  <1> QED
    BY <1>2, <1>5 DEF DialogsInv, DialogsTypeOK

LEMMA CancelLoanStep ==
  ASSUME DialogsInv, NEW u \in Handlers, CancelLoan(u)
  PROVE  DialogsInv'
  <1>1. /\ handler[u].does = "cancel" /\ handler' = [handler EXCEPT ![u] = Idle]
        /\ UNCHANGED <<shown, dialogs, carried, search, ended>>
        /\ loanWizard' \in {loanWizard, NoLoanWizard}
    BY DEF CancelLoan, About, End, searchRecords, RecordCleared
  <1>2. ~About(u, "record") /\ Idle.does \notin LoanWork \cup SearchWork /\ Idle \in HandlerStates
    BY <1>1, BlanksAre DEF About, LoanWork, SearchWork
  <1>3. /\ handler \in [Handlers -> HandlerStates] /\ handler' \in [Handlers -> HandlerStates]
        /\ handler'[u] = Idle /\ \A v \in Handlers : v # u => handler'[v] = handler[v]
    BY <1>1, <1>2 DEF DialogsInv, DialogsTypeOK
  <1>4. SearchStands'
    BY <1>1, <1>2, SearchKept
  <1>5. \A d : Recorders(d)' = Recorders(d)
    BY <1>1, <1>2, <1>3 DEF Recorders, About, LoanWork
  <1>6. \A v \in Handlers : handler'[v].does \in LoanWork => WizardStands(handler[v].read)'
    BY <1>1, <1>2, <1>3 DEF DialogsInv, LoansStand, WizardStands
  <1>7. LatestIsConfirmedOnce'
    BY <1>1, <1>5 DEF DialogsInv, LoansStand, LatestIsConfirmedOnce
  <1>8. LoansStand'
    BY <1>1, <1>6, <1>7 DEF DialogsInv, LoansStand, WizardStands
  <1> QED
    BY <1>1, <1>3, <1>4, <1>8, BlanksAre DEF DialogsInv, DialogsTypeOK

LEMMA ConfirmLoanStep ==
  ASSUME DialogsInv, NEW u \in Handlers, ConfirmLoan(u)
  PROVE  DialogsInv'
  <1> DEFINE read == handler[u].read
             h == IF handler'[u].does = "record" THEN [handler[u] EXCEPT !.does = "record"] ELSE Idle
  <1>1. /\ handler[u].does = "confirm" /\ UNCHANGED <<shown, dialogs, carried, search, ended>>
        /\ loanWizard' = IF loanWizard.version = read.version THEN NoLoanWizard ELSE loanWizard
        /\ \/ /\ loanWizard.version = read.version
              /\ handler' = [handler EXCEPT ![u].does = "record"]
           \/ handler' = [handler EXCEPT ![u] = Idle]
    BY DEF ConfirmLoan, About, End, searchRecords, RecordCleared, Holds
  <1>2. handler \in [Handlers -> HandlerStates] /\ handler[u] \in HandlerStates
    BY DEF DialogsInv, DialogsTypeOK
  <1>3. read \in LoanRecords /\ WizardStands(read)
    BY <1>1, <1>2 DEF HandlerStates, DialogsInv, LoansStand, LoanWork
  <1>4. Idle \in HandlerStates /\ Idle.does \notin LoanWork \cup SearchWork
    BY BlanksAre DEF LoanWork, SearchWork
  <1>5. CASE handler' = [handler EXCEPT ![u] = Idle]
    <2>1. /\ handler' \in [Handlers -> HandlerStates]
          /\ handler'[u] = Idle /\ \A v \in Handlers : v # u => handler'[v] = handler[v]
      BY <1>2, <1>4, <1>5
    <2>2. SearchStands'
      BY <1>1, <1>4, <1>5, SearchKept
    <2>3. \A d : Recorders(d)' = Recorders(d)
      BY <1>1, <1>4, <2>1 DEF Recorders, About, LoanWork
    <2>4. LatestIsConfirmedOnce'
      BY <1>1, <2>3 DEF DialogsInv, LoansStand, LatestIsConfirmedOnce
    <2>5. \A v \in Handlers : handler'[v].does \in LoanWork => WizardStands(handler[v].read)'
      BY <1>1, <1>4, <2>1 DEF DialogsInv, LoansStand, WizardStands
    <2>6. LoansStand'
      BY <1>1, <2>4, <2>5 DEF DialogsInv, LoansStand, WizardStands
    <2> QED
      BY <1>1, <2>1, <2>2, <2>6, BlanksAre DEF DialogsInv, DialogsTypeOK
  <1>6. CASE loanWizard.version = read.version /\ handler' = [handler EXCEPT ![u].does = "record"]
    <2> DEFINE now == [handler[u] EXCEPT !.does = "record"]
    <2>1. now \in HandlerStates /\ now.does = "record" /\ now.read = read
      BY <1>2 DEF HandlerStates, LoanWork
    <2>2. handler' = [handler EXCEPT ![u] = now]
      BY <1>2, <1>6
    <2> HIDE DEF now
    <2>3. /\ handler' \in [Handlers -> HandlerStates]
          /\ handler'[u] = now /\ \A v \in Handlers : v # u => handler'[v] = handler[v]
      BY <1>2, <2>1, <2>2
    <2>4. SearchStands'
      BY <1>1, <2>1, <2>2, SearchKept DEF SearchWork
    <2>5. \A v \in Handlers : handler'[v].does \in LoanWork => WizardStands(handler[v].read)'
      BY <1>1, <1>3, <2>1, <2>3 DEF DialogsInv, LoansStand, WizardStands
    <2>6. loanWizard # NoLoanWizard /\ loanWizard' = NoLoanWizard
      BY <1>1, <1>3, <1>6, BlanksAre DEF WizardStands
    <2>7. dialogs > 0 => carried[dialogs] = 0 /\ Recorders(dialogs) = {}
      BY <2>6 DEF DialogsInv, LoansStand, LatestIsConfirmedOnce
    <2>8. dialogs > 0 => Recorders(dialogs)' \in {{}, {u}}
      <3>1. SUFFICES ASSUME dialogs > 0, NEW v \in Handlers, v # u PROVE v \notin Recorders(dialogs)'
        BY DEF Recorders
      <3> QED
        BY <1>1, <2>3, <2>7, <3>1 DEF Recorders, About
    <2>9. LatestIsConfirmedOnce'
      BY <1>1, <2>6, <2>7, <2>8 DEF LatestIsConfirmedOnce
    <2>10. LoansStand'
      BY <1>1, <2>5, <2>6, <2>9 DEF DialogsInv, LoansStand
    <2> QED
      BY <1>1, <2>3, <2>4, <2>6, <2>10, BlanksAre DEF DialogsInv, DialogsTypeOK
  <1> QED
    BY <1>1, <1>5, <1>6

LEMMA RecordLoanStep ==
  ASSUME DialogsInv, NEW u \in Handlers, RecordLoan(u)
  PROVE  DialogsInv'
  <1> DEFINE d == handler[u].read.about
  <1>1. /\ handler[u].does = "record" /\ handler' = [handler EXCEPT ![u] = Idle]
        /\ UNCHANGED <<loanWizard, shown, dialogs, search, ended>>
        /\ carried' = [carried EXCEPT ![d] = @ + 1] \/ UNCHANGED carried
    BY DEF RecordLoan, About, End, searchRecords
  <1>2. Idle \in HandlerStates /\ Idle.does \notin LoanWork \cup SearchWork
    BY BlanksAre DEF LoanWork, SearchWork
  <1>3. /\ handler \in [Handlers -> HandlerStates] /\ handler' \in [Handlers -> HandlerStates]
        /\ handler'[u] = Idle /\ \A v \in Handlers : v # u => handler'[v] = handler[v]
        /\ dialogs \in 0..MaxDialogs /\ carried \in [1..MaxDialogs -> Nat]
    BY <1>1, <1>2 DEF DialogsInv, DialogsTypeOK
  <1>4. d \in 1..dialogs
    BY <1>1 DEF DialogsInv, LoansStand, LoanWork, WizardStands
  <1>5. carried' \in [1..MaxDialogs -> Nat] /\ \A e \in 1..MaxDialogs : e > dialogs => carried'[e] = 0
    <2>1. d \in 1..MaxDialogs
      BY <1>3, <1>4, DialogAssumption
    <2>2. \A e \in 1..MaxDialogs : e > dialogs => carried[e] = 0 /\ e # d
      BY <1>3, <1>4 DEF DialogsInv, LoansStand
    <2>3. carried' = [carried EXCEPT ![d] = carried[d] + 1] \/ carried' = carried
      BY <1>1
    <2>4. carried \in [1..MaxDialogs -> Nat] /\ d \in 1..MaxDialogs /\ carried[d] + 1 \in Nat
      BY <1>3, <2>1
    <2> HIDE DEF d
    <2>5. carried' \in [1..MaxDialogs -> Nat] /\ \A e \in 1..MaxDialogs : e # d => carried'[e] = carried[e]
      BY <2>3, <2>4
    <2> QED
      BY <2>2, <2>5
  <1>6. SearchStands'
    BY <1>1, <1>2, SearchKept
  <1>7. \A v \in Handlers : handler'[v].does \in LoanWork => WizardStands(handler[v].read)'
    BY <1>1, <1>2, <1>3 DEF DialogsInv, LoansStand, WizardStands
  <1>8. \A e : Recorders(e)' = Recorders(e) \ {u}
    BY <1>1, <1>2, <1>3 DEF Recorders, About, LoanWork
  <1>9. LatestIsConfirmedOnce'
    <2>1. SUFFICES ASSUME dialogs > 0
                   PROVE  \/ carried'[dialogs] = 0 /\ Recorders(dialogs)' = {}
                          \/ /\ loanWizard' = NoLoanWizard
                             /\ \/ carried'[dialogs] = 1 /\ Recorders(dialogs)' = {}
                                \/ carried'[dialogs] = 0 /\ \E v \in Handlers : Recorders(dialogs)' = {v}
      BY <1>1 DEF LatestIsConfirmedOnce
    <2>2. dialogs \in 1..MaxDialogs /\ carried[dialogs] \in Nat
      BY <1>3, <2>1
    <2>3. LatestIsConfirmedOnce
      BY DEF DialogsInv, LoansStand
    <2>4. CASE d # dialogs
      <3>1. carried'[dialogs] = carried[dialogs]
        <4>1. carried' = [carried EXCEPT ![d] = carried[d] + 1] \/ carried' = carried
          BY <1>1
        <4> HIDE DEF d
        <4> QED
          BY <1>3, <2>2, <2>4, <4>1
      <3>2. u \notin Recorders(dialogs)
        BY <2>4 DEF Recorders
      <3>3. Recorders(dialogs)' = Recorders(dialogs)
        BY <1>1, <1>8, <3>2
      <3> QED
        BY <1>1, <2>1, <2>3, <3>1, <3>3 DEF LatestIsConfirmedOnce
    <2>5. CASE d = dialogs
      <3>1. u \in Recorders(dialogs)
        BY <1>1, <2>5 DEF Recorders, About
      <3>2. loanWizard = NoLoanWizard /\ carried[dialogs] = 0 /\ Recorders(dialogs) = {u}
        BY <2>1, <2>3, <3>1 DEF LatestIsConfirmedOnce
      <3>3. carried'[dialogs] \in {0, 1}
        <4>1. carried' = [carried EXCEPT ![d] = carried[d] + 1] \/ carried' = carried
          BY <1>1
        <4>2. carried \in [1..MaxDialogs -> Nat] /\ dialogs \in 1..MaxDialogs
          BY <1>3, <2>2
        <4>3. carried' = [carried EXCEPT ![dialogs] = carried[dialogs] + 1] \/ carried' = carried
          BY <2>5, <4>1
        <4>4. carried'[dialogs] = carried[dialogs] \/ carried'[dialogs] = carried[dialogs] + 1
          BY <4>2, <4>3
        <4> QED
          BY <3>2, <4>4
      <3>4. Recorders(dialogs)' = {}
        BY <1>1, <1>8, <3>2
      <3> QED
        BY <1>1, <3>2, <3>3, <3>4
    <2> QED
      BY <2>4, <2>5
  <1>10. LoansStand'
    BY <1>1, <1>5, <1>7, <1>9 DEF DialogsInv, LoansStand, WizardStands
  <1> QED
    BY <1>1, <1>3, <1>5, <1>6, <1>10 DEF DialogsInv, DialogsTypeOK

\* The search session and the flag: nothing of the loan wizard is touched.
LEMMA ReadSearchStep ==
  ASSUME DialogsInv, NEW u \in Handlers, NEW does \in SearchWork \cup {"deletion"}, NEW h,
         \/ h = [Idle EXCEPT !.does = does, !.session = search]
         \/ does = "deletion" /\ h = [Idle EXCEPT !.does = does],
         Begin(u, h), UNCHANGED <<loanRecords, searchRecords>>
  PROVE  DialogsInv'
  <1>2. h \in HandlerStates /\ h.does = does /\ (does # "deletion" => h.session = search)
    BY BlanksAre DEF DialogsInv, DialogsTypeOK, HandlerStates
  <1>3. /\ handler[u] = Idle /\ handler' = [handler EXCEPT ![u] = h]
        /\ UNCHANGED <<loanWizard, shown, dialogs, carried, search, ended>>
    BY DEF Begin, loanRecords, searchRecords
  <1>4. ~About(u, "record") /\ does \notin LoanWork /\ (does \in SearchWork => does # "deletion")
    BY <1>3, BlanksAre DEF About, LoanWork, SearchWork
  <1>5. LoansStand' /\ handler' \in [Handlers -> HandlerStates] /\ SearchStands'
    BY <1>2, <1>3, <1>4, LoansKept, SearchKept DEF LoanWork
  <1> QED
    BY <1>3, <1>5 DEF DialogsInv, DialogsTypeOK

LEMMA TextStepStep ==
  ASSUME DialogsInv, NEW u \in Handlers, TextStep(u)
  PROVE  DialogsInv'
  <1>1. UNCHANGED <<loanRecords, searchRecords>>
    BY DEF TextStep
  <1>2. \/ UNCHANGED handler
        \/ Begin(u, [Idle EXCEPT !.does = "bound", !.session = search])
        \/ Begin(u, [Idle EXCEPT !.does = "deletion"])
        \/ loanWizard # NoLoanWizard /\ Begin(u, [Idle EXCEPT !.does = "answer", !.read = loanWizard])
    BY DEF TextStep
  <1>3. CASE UNCHANGED handler
    BY <1>1, <1>3 DEF loanRecords, searchRecords, DialogsInv, DialogsTypeOK, LoansStand,
       LatestIsConfirmedOnce, Recorders, About, WizardStands, SearchStands
  <1>4. CASE Begin(u, [Idle EXCEPT !.does = "bound", !.session = search])
    <2> DEFINE h == [Idle EXCEPT !.does = "bound", !.session = search]
    <2>1. "bound" \in SearchWork \cup {"deletion"} /\ h = [Idle EXCEPT !.does = "bound", !.session = search]
      BY DEF SearchWork
    <2>2. Begin(u, h)
      BY <1>4
    <2> HIDE DEF h
    <2> QED
      BY <1>1, <2>1, <2>2, ReadSearchStep
  <1>5. CASE Begin(u, [Idle EXCEPT !.does = "deletion"])
    <2> DEFINE h == [Idle EXCEPT !.does = "deletion"]
    <2>1. "deletion" \in SearchWork \cup {"deletion"} /\ h = [Idle EXCEPT !.does = "deletion"]
      OBVIOUS
    <2>2. Begin(u, h)
      BY <1>5
    <2> HIDE DEF h
    <2> QED
      BY <1>1, <2>1, <2>2, ReadSearchStep
  <1>6. CASE loanWizard # NoLoanWizard /\ Begin(u, [Idle EXCEPT !.does = "answer", !.read = loanWizard])
    <2> DEFINE h == [Idle EXCEPT !.does = "answer", !.read = loanWizard]
    <2>1. h \in HandlerStates /\ h.does = "answer" /\ h.read = loanWizard
      BY BlanksAre DEF DialogsInv, DialogsTypeOK, HandlerStates, LoanWork
    <2> HIDE DEF h
    <2>2. /\ handler[u] = Idle /\ handler' = [handler EXCEPT ![u] = h]
          /\ UNCHANGED <<loanWizard, shown, dialogs, carried, search, ended>>
      BY <1>1, <1>6 DEF Begin, loanRecords, searchRecords, h
    <2>3. ~About(u, "record") /\ WizardStands(h.read)
      BY <1>6, <2>1, <2>2, BlanksAre DEF About, DialogsInv, LoansStand
    <2>4. LoansStand' /\ handler' \in [Handlers -> HandlerStates] /\ SearchStands'
      BY <2>1, <2>2, <2>3, LoansKept, SearchKept DEF SearchWork
    <2> QED
      BY <2>2, <2>4 DEF DialogsInv, DialogsTypeOK
  <1> QED
    BY <1>2, <1>3, <1>4, <1>5, <1>6

\* The handlers of the flag.
LEMMA DeletionStep ==
  ASSUME DialogsInv, NEW u \in Handlers,
         RequestDeletion(u) \/ \E word \in {"DELETE", "other"} : ClearFlag(u, word)
  PROVE  DialogsInv'
  <1>1. PICK h : /\ handler' = [handler EXCEPT ![u] = h]
                 /\ h \in {Idle, [handler[u] EXCEPT !.does = "request"]}
                 /\ handler[u].does \in {"deletion", "request"}
                 /\ UNCHANGED <<loanRecords, searchRecords>>
    <2>1. handler \in [Handlers -> HandlerStates]
      BY DEF DialogsInv, DialogsTypeOK
    <2>2. [handler EXCEPT ![u].does = "request"] = [handler EXCEPT ![u] = [handler[u] EXCEPT !.does = "request"]]
      BY <2>1
    <2> QED
      BY <2>2 DEF RequestDeletion, ClearFlag, End, About
  <1>2. h \in HandlerStates /\ h.does \notin LoanWork \cup SearchWork
    <2>1. handler[u] \in HandlerStates
      BY DEF DialogsInv, DialogsTypeOK
    <2> QED
      BY <1>1, <2>1, BlanksAre DEF HandlerStates, LoanWork, SearchWork
  <1>3. ~About(u, "record") /\ UNCHANGED <<loanWizard, shown, dialogs, carried, search, ended>>
    BY <1>1 DEF About, loanRecords, searchRecords
  <1>4. LoansStand' /\ handler' \in [Handlers -> HandlerStates] /\ SearchStands'
    BY <1>1, <1>2, <1>3, LoansKept, SearchKept DEF LoanWork
  <1> QED
    BY <1>3, <1>4 DEF DialogsInv, DialogsTypeOK

\* A write to the session: what it replaces is what was read, and bounds go together.
SessionMoves ==
  \/ UNCHANGED <<search, ended>>
  \/ /\ search' \in Sessions
     /\ \/ ended'
        \/ search'.min = Unset /\ search'.max = Unset
        \/ \A b \in {"min", "max"} : search'[b] = Unset => search[b] = Unset

LEMMA SessionAfterIs ==
  ASSUME NEW s \in Sessions, NEW does \in {"search", "reset", "min", "max", "page"}
  PROVE  /\ SessionAfter(does, s) \in Sessions
         /\ SessionAfter(does, s).version = s.version + 1
         /\ \/ SessionAfter(does, s).min = Unset /\ SessionAfter(does, s).max = Unset
            \/ SessionAfter(does, s).min = s.min /\ SessionAfter(does, s).max = s.max
  <1>1. CASE does \in {"search", "reset"}
    <2>1. SessionAfter(does, s) = [NoSession EXCEPT !.version = s.version + 1]
      BY <1>1 DEF SessionAfter
    <2> QED
      BY <2>1 DEF NoSession, Sessions
  <1>2. CASE does \in {"min", "max"}
    <2>1. SessionAfter(does, s) = [s EXCEPT !.version = @ + 1, !.field = does]
      BY <1>2 DEF SessionAfter
    <2> DEFINE x == [s EXCEPT !.version = s.version + 1]
    <2>2. x \in Sessions /\ x.version = s.version + 1 /\ x.min = s.min /\ x.max = s.max
      BY DEF Sessions
    <2>3. SessionAfter(does, s) = [x EXCEPT !.field = does]
      BY <2>1 DEF Sessions
    <2> HIDE DEF x
    <2> QED
      BY <1>2, <2>2, <2>3 DEF Sessions
  <1>3. CASE does = "page"
    <2>1. SessionAfter(does, s) = [s EXCEPT !.version = @ + 1]
      BY <1>3 DEF SessionAfter
    <2> QED
      BY <2>1 DEF Sessions
  <1> QED
    BY <1>1, <1>2, <1>3

LEMMA BoundedIs ==
  ASSUME NEW s \in Sessions, NEW amount \in Bounds
  PROVE  /\ Bounded(s, amount) \in Sessions /\ Bounded(s, amount).version = s.version + 1
         /\ \A b \in {"min", "max"} : Bounded(s, amount)[b] = Unset => s[b] = Unset
  <1>1. s.version + 1 \in Nat /\ amount # Unset
    BY DialogAssumption DEF Sessions
  <1>2. CASE s.field = "min"
    <2> DEFINE x == [s EXCEPT !.min = amount]
               y == [x EXCEPT !.version = s.version + 1]
    <2>1. x \in Sessions /\ x.version = s.version /\ x.min = amount /\ x.max = s.max
      BY DEF Sessions
    <2>2. Bounded(s, amount) = [x EXCEPT !.version = @ + 1, !.field = "none"]
      BY <1>2 DEF Bounded
    <2> HIDE DEF x
    <2>3. y \in Sessions /\ y.version = s.version + 1 /\ y.min = amount /\ y.max = s.max
      BY <1>1, <2>1 DEF Sessions
    <2>4. Bounded(s, amount) = [y EXCEPT !.field = "none"]
      BY <2>1, <2>2 DEF Sessions
    <2> HIDE DEF y
    <2> QED
      BY <1>1, <2>3, <2>4 DEF Sessions
  <1>3. CASE s.field # "min"
    <2> DEFINE x == [s EXCEPT !.max = amount]
               y == [x EXCEPT !.version = s.version + 1]
    <2>1. x \in Sessions /\ x.version = s.version /\ x.max = amount /\ x.min = s.min
      BY DEF Sessions
    <2>2. Bounded(s, amount) = [x EXCEPT !.version = @ + 1, !.field = "none"]
      BY <1>3 DEF Bounded
    <2> HIDE DEF x
    <2>3. y \in Sessions /\ y.version = s.version + 1 /\ y.max = amount /\ y.min = s.min
      BY <1>1, <2>1 DEF Sessions
    <2>4. Bounded(s, amount) = [y EXCEPT !.field = "none"]
      BY <2>1, <2>2 DEF Sessions
    <2> HIDE DEF y
    <2> QED
      BY <1>1, <2>3, <2>4 DEF Sessions
  <1> QED
    BY <1>2, <1>3

LEMMA WriteSearchStep ==
  ASSUME DialogsInv, NEW u \in Handlers,
         WriteSearch(u) \/ \E amount \in Bounds : AnswerSearch(u, amount)
  PROVE  DialogsInv' /\ SessionMoves
  <1> DEFINE s == handler[u].session
  <1>1. /\ handler' = [handler EXCEPT ![u] = Idle] /\ UNCHANGED <<loanWizard, shown, dialogs, carried>>
        /\ handler[u].does \in SearchWork
    BY DEF WriteSearch, AnswerSearch, About, End, loanRecords, SearchWork
  <1>2. ~About(u, "record") /\ Idle.does \notin LoanWork \cup SearchWork /\ Idle \in HandlerStates
    BY <1>1, BlanksAre DEF About, LoanWork, SearchWork
  <1>3. search \in Sessions /\ s \in Sessions
    BY DEF DialogsInv, DialogsTypeOK, HandlerStates
  <1>4. ~ended /\ s.version = search.version => s = search
    BY <1>1 DEF DialogsInv, SearchStands
  <1>5. LoansStand' /\ handler' \in [Handlers -> HandlerStates]
    <2>1. Idle.does # "record" /\ Idle.does \notin LoanWork
      BY <1>2, BlanksAre
    <2> QED
      BY <1>1, <1>2, <2>1, LoansKept
  <1>6. /\ SessionMoves /\ (ended => ended')
        /\ UNCHANGED search \/ (search' \in Sessions /\ (search'.version > search.version \/ ended'))
    <2>1. CASE WriteSearch(u)
      <3>1. /\ search' = IF s.version = search.version THEN SessionAfter(handler[u].does, s) ELSE search
            /\ ended' = (ended \/ (search # NoSession /\ search' = NoSession))
            /\ handler[u].does \in {"search", "reset", "min", "max", "page", "close"}
        BY <2>1 DEF WriteSearch, Holds
      <3>2. CASE s.version # search.version
        <4>1. UNCHANGED <<search, ended>>
          BY <3>1, <3>2 DEF DialogsInv, DialogsTypeOK
        <4> QED
          BY <4>1 DEF SessionMoves
      <3>3. CASE s.version = search.version /\ handler[u].does = "close"
        <4>1. search' = NoSession
          BY <3>1, <3>3 DEF SessionAfter
        <4>2. ended' \/ (search' = search /\ ended' = ended)
          BY <3>1, <4>1 DEF DialogsInv, DialogsTypeOK
        <4>3. search' \in Sessions /\ search'.min = Unset /\ search'.max = Unset
          BY <4>1, BlanksAre
        <4>4. UNCHANGED <<search, ended>> \/ ended'
          BY <4>2
        <4> QED
          BY <3>1, <4>3, <4>4 DEF SessionMoves
      <3>4. CASE s.version = search.version /\ handler[u].does \in {"search", "reset", "min", "max", "page"}
        <4>1. /\ search' \in Sessions /\ search'.version = search.version + 1
              /\ \/ search'.min = Unset /\ search'.max = Unset
                 \/ search'.min = s.min /\ search'.max = s.max
          BY <1>3, <3>1, <3>4, SessionAfterIs
        <4>2. search.version \in Nat /\ (ended => ended')
          BY <1>3, <3>1 DEF Sessions
        <4>3. ended' \/ \/ search'.min = Unset /\ search'.max = Unset
                        \/ \A b \in {"min", "max"} : search'[b] = Unset => search[b] = Unset
          BY <1>4, <3>4, <4>1, <4>2
        <4>4. search'.version > search.version
          BY <4>1, <4>2
        <4>5. SessionMoves
          BY <4>1, <4>2, <4>3 DEF SessionMoves
        <4> QED
          BY <4>1, <4>2, <4>4, <4>5
      <3> QED
        BY <3>1, <3>2, <3>3, <3>4
    <2>2. CASE \E amount \in Bounds : AnswerSearch(u, amount)
      <3>1. PICK amount \in Bounds : AnswerSearch(u, amount)
        BY <2>2
      <3>2. /\ UNCHANGED ended
            /\ UNCHANGED search \/ (s.version = search.version /\ search' = Bounded(s, amount))
        BY <3>1 DEF AnswerSearch, Holds
      <3>3. search.version \in Nat
        BY <1>3 DEF Sessions
      <3>4. CASE UNCHANGED search
        BY <3>2, <3>4 DEF SessionMoves
      <3>5. CASE s.version = search.version /\ search' = Bounded(s, amount)
        <4>1. /\ search' \in Sessions /\ search'.version = search.version + 1
              /\ \A b \in {"min", "max"} : search'[b] = Unset => s[b] = Unset
          BY <1>3, <3>5, BoundedIs
        <4>2. ended \/ s = search
          BY <1>4, <3>5
        <4>3. ended' \/ \A b \in {"min", "max"} : search'[b] = Unset => search[b] = Unset
          BY <3>2, <4>1, <4>2
        <4>4. SessionMoves
          BY <3>2, <4>1, <4>3 DEF SessionMoves
        <4> QED
          BY <3>2, <3>3, <4>1, <4>4
      <3> QED
        BY <3>2, <3>4, <3>5
    <2> QED
      BY <2>1, <2>2
  <1>7. SearchStands'
    <2>1. CASE UNCHANGED search
      BY <1>1, <1>2, <1>6, <2>1, SearchKept
    <2>2. CASE search' \in Sessions /\ (search'.version > search.version \/ ended')
      BY <1>1, <1>6, <2>2, SearchMoves
    <2> QED
      BY <1>6, <2>1, <2>2
  <1>8. ended' \in BOOLEAN
    BY DEF WriteSearch, AnswerSearch, DialogsInv, DialogsTypeOK
  <1> QED
    BY <1>1, <1>3, <1>5, <1>6, <1>7, <1>8 DEF DialogsInv, DialogsTypeOK

LEMMA DialogsInvInit == DialogsInit => DialogsInv
  <1> SUFFICES ASSUME DialogsInit PROVE DialogsInv
    OBVIOUS
  <1>1. DialogsTypeOK
    <2>1. ended \in BOOLEAN
      BY DEF DialogsInit
    <2> QED
      BY <2>1, BlanksAre, DialogAssumption DEF DialogsInit, DialogsTypeOK
  <1>2. \A u \in Handlers : handler[u].does = "nothing"
    BY BlanksAre DEF DialogsInit
  <1> QED
    BY <1>1, <1>2 DEF DialogsInit, DialogsInv, LoansStand, LatestIsConfirmedOnce, SearchStands,
                      LoanWork, SearchWork

\* The wizard record or the session is dropped, or only the flag and the account change.
LEMMA OthersStep ==
  ASSUME DialogsInv,
         \/ AskForDelete \/ CancelDeletion \/ ExpireWizard \/ ExpireSearch \/ ExpireFlag
         \/ UNCHANGED dialogVars
  PROVE  DialogsInv' /\ SessionMoves
  <1>1. /\ UNCHANGED <<handler, shown, dialogs, carried>> /\ (ended => ended')
        /\ loanWizard' \in {loanWizard, NoLoanWizard}
        /\ UNCHANGED <<search, ended>> \/ (search' = NoSession /\ ended')
    BY DEF AskForDelete, CancelDeletion, ExpireWizard, ExpireSearch, ExpireFlag, dialogVars,
       loanRecords, searchRecords, deletionVars
  <1>2. DialogsTypeOK'
    BY <1>1, BlanksAre DEF DialogsInv, DialogsTypeOK
  <1>3. \A d : Recorders(d)' = Recorders(d)
    BY <1>1 DEF Recorders, About
  <1>4. LatestIsConfirmedOnce'
    BY <1>1, <1>3 DEF DialogsInv, LoansStand, LatestIsConfirmedOnce
  <1>5. LoansStand'
    BY <1>1, <1>4 DEF DialogsInv, LoansStand, WizardStands
  <1>6. SearchStands'
    BY <1>1 DEF DialogsInv, SearchStands
  <1> QED
    BY <1>1, <1>2, <1>5, <1>6, BlanksAre DEF DialogsInv, SessionMoves

LEMMA DialogsStep ==
  ASSUME DialogsInv, [DialogsNext]_dialogVars
  PROVE  DialogsInv' /\ SessionMoves
  <1>1. CASE \E u \in Handlers : WriteSearch(u) \/ \E amount \in Bounds : AnswerSearch(u, amount)
    BY <1>1, WriteSearchStep
  <1>2. CASE AskForDelete \/ CancelDeletion \/ ExpireWizard \/ ExpireSearch \/ ExpireFlag \/ UNCHANGED dialogVars
    BY <1>2, OthersStep
  <1>3. CASE \E u \in Handlers :
               \/ TextStep(u) \/ CancelCommand(u) \/ \E kind \in LoanKinds : StartLoan(u, kind)
               \/ \E button \in shown : TapLoan(u, button, "confirm") \/ TapLoan(u, button, "cancel")
               \/ WriteStart(u) \/ WriteAnswer(u) \/ CancelLoan(u) \/ ConfirmLoan(u) \/ RecordLoan(u)
               \/ StartSearch(u) \/ \E does \in {"reset", "min", "max", "page", "close"} : TapSearch(u, does)
               \/ RequestDeletion(u) \/ \E word \in {"DELETE", "other"} : ClearFlag(u, word)
    <2>1. UNCHANGED <<search, ended>>
      BY <1>3 DEF TextStep, CancelCommand, StartLoan, TapLoan, WriteStart, WriteAnswer, CancelLoan,
         ConfirmLoan, RecordLoan, StartSearch, TapSearch, ReadSearch, RequestDeletion, ClearFlag, searchRecords
    <2>2. PICK u \in Handlers :
            \/ TextStep(u) \/ CancelCommand(u) \/ \E kind \in LoanKinds : StartLoan(u, kind)
            \/ \E button \in shown : TapLoan(u, button, "confirm") \/ TapLoan(u, button, "cancel")
            \/ WriteStart(u) \/ WriteAnswer(u) \/ CancelLoan(u) \/ ConfirmLoan(u) \/ RecordLoan(u)
            \/ StartSearch(u) \/ \E does \in {"reset", "min", "max", "page", "close"} : TapSearch(u, does)
            \/ RequestDeletion(u) \/ \E word \in {"DELETE", "other"} : ClearFlag(u, word)
      BY <1>3
    <2>3. CASE StartSearch(u) \/ \E does \in {"reset", "min", "max", "page", "close"} : TapSearch(u, does)
      <3>1. PICK does \in {"search", "reset", "min", "max", "page", "close"} : ReadSearch(u, does)
        BY <2>3 DEF StartSearch, TapSearch
      <3> DEFINE h == [Idle EXCEPT !.does = does, !.session = search]
      <3>2. Begin(u, h) /\ UNCHANGED <<loanRecords, searchRecords>>
        BY <3>1 DEF ReadSearch
      <3>3. does \in SearchWork \cup {"deletion"}
        BY DEF SearchWork
      <3>4. h = [Idle EXCEPT !.does = does, !.session = search]
        OBVIOUS
      <3> HIDE DEF h
      <3>5. DialogsInv'
        BY <3>2, <3>3, <3>4, ReadSearchStep
      <3> QED
        BY <2>1, <3>5 DEF SessionMoves
    <2>4. DialogsInv'
      BY <2>2, <2>3, TextStepStep, TapLoanStep, StartLoanStep, WriteStartStep, WriteAnswerStep,
         CancelLoanStep, ConfirmLoanStep, RecordLoanStep, DeletionStep
    <2> QED
      BY <2>1, <2>4 DEF SessionMoves
  <1> QED
    BY <1>1, <1>2, <1>3 DEF DialogsNext

THEOREM DialogsStand == DialogsSpec => []DialogsInv
  <1>1. DialogsInv /\ [DialogsNext]_dialogVars => DialogsInv'
    BY DialogsStep
  <1> QED
    BY <1>1, DialogsInvInit, PTL DEF DialogsSpec

\* What a confirmation stands for is recorded at most once while no other wizard is started.
THEOREM ConfirmedStaysOnce == DialogsSpec => []ConfirmedOnce
  <1>1. ASSUME DialogsInv, NEW d \in 1..MaxDialogs, carried[d] > 1 PROVE d < dialogs
    <2>1. d \in Nat /\ dialogs \in Nat
      BY <1>1 DEF DialogsInv, DialogsTypeOK
    <2>2. ~(d > dialogs)
      BY <1>1 DEF DialogsInv, LoansStand
    <2>3. d # dialogs
      BY <1>1 DEF DialogsInv, LoansStand, LatestIsConfirmedOnce
    <2> QED
      BY <2>1, <2>2, <2>3
  <1>2. DialogsInv => ConfirmedOnce
    BY <1>1 DEF ConfirmedOnce
  <1> QED
    BY <1>2, DialogsStand, PTL

\* The bounds that stand, and those a handler has read, are in order: whoever
\* writes has read them so, or has checked what he writes.
Ordered(s) == InOrder(s.min, s.max)
BoundsOrdered == Ordered(search) /\ \A u \in Handlers : Ordered(handler[u].session)

LEMMA ReadsAreOfTheSession ==
  ASSUME DialogsInv, [DialogsNext]_dialogVars, NEW v \in Handlers
  PROVE  handler'[v].session \in {handler[v].session, search, NoSession}
  <1>1. handler \in [Handlers -> HandlerStates] /\ Idle.session = NoSession
    BY DEF DialogsInv, DialogsTypeOK, Idle
  <1>2. ASSUME NEW u \in Handlers, NEW h, h.session \in {search, NoSession},
               handler' = [handler EXCEPT ![u] = h]
        PROVE  handler'[v].session \in {handler[v].session, search, NoSession}
    BY <1>1, <1>2
  <1>3. ASSUME NEW u \in Handlers,
               \/ TextStep(u) \/ CancelCommand(u) \/ \E kind \in LoanKinds : StartLoan(u, kind)
               \/ \E button \in shown : TapLoan(u, button, "confirm") \/ TapLoan(u, button, "cancel")
               \/ StartSearch(u) \/ \E does \in {"reset", "min", "max", "page", "close"} : TapSearch(u, does)
        PROVE  handler'[v].session \in {handler[v].session, search, NoSession}
    <2> DEFINE toSearch(d) == [Idle EXCEPT !.does = d, !.session = search]
               toTap(d, b) == [Idle EXCEPT !.does = d, !.read = loanWizard, !.tap = b]
               toStart(k) == [Idle EXCEPT !.does = "start", !.read = [loanWizard EXCEPT !.kind = k]]
               toWizard(d) == [Idle EXCEPT !.does = d, !.read = loanWizard]
               toFlag == [Idle EXCEPT !.does = "deletion"]
    <2>1. /\ \A d : toSearch(d).session = search /\ toWizard(d).session = NoSession
          /\ \A d, b : toTap(d, b).session = NoSession
          /\ \A k : toStart(k).session = NoSession
          /\ toFlag.session = NoSession
      BY DEF Idle
    <2>2. \/ UNCHANGED handler
          \/ \E h : Begin(u, h) /\ h.session \in {search, NoSession}
      <3>1. CASE TextStep(u)
        <4>1. \/ UNCHANGED handler \/ Begin(u, toSearch("bound")) \/ Begin(u, toFlag) \/ Begin(u, toWizard("answer"))
          BY <3>1 DEF TextStep
        <4> HIDE DEF toSearch, toTap, toStart, toWizard, toFlag
        <4> QED
          BY <2>1, <4>1
      <3>2. CASE CancelCommand(u)
        <4>1. Begin(u, toWizard("cancel"))
          BY <3>2 DEF CancelCommand
        <4> HIDE DEF toSearch, toTap, toStart, toWizard, toFlag
        <4> QED
          BY <2>1, <4>1
      <3>3. CASE \E kind \in LoanKinds : StartLoan(u, kind)
        <4>1. \E k : Begin(u, toStart(k))
          BY <3>3 DEF StartLoan
        <4> HIDE DEF toSearch, toTap, toStart, toWizard, toFlag
        <4> QED
          BY <2>1, <4>1
      <3>4. CASE \E button \in shown : TapLoan(u, button, "confirm") \/ TapLoan(u, button, "cancel")
        <4>1. \E d, b : Begin(u, toTap(d, b))
          BY <3>4 DEF TapLoan
        <4> HIDE DEF toSearch, toTap, toStart, toWizard, toFlag
        <4> QED
          BY <2>1, <4>1
      <3>5. CASE StartSearch(u) \/ \E does \in {"reset", "min", "max", "page", "close"} : TapSearch(u, does)
        <4>1. \E d : Begin(u, toSearch(d))
          BY <3>5 DEF StartSearch, TapSearch, ReadSearch
        <4> HIDE DEF toSearch, toTap, toStart, toWizard, toFlag
        <4> QED
          BY <2>1, <4>1
      <3> QED
        BY <1>3, <3>1, <3>2, <3>3, <3>4, <3>5
    <2> QED
      BY <1>2, <2>2 DEF Begin
  <1>4. ASSUME NEW u \in Handlers,
               \/ WriteStart(u) \/ WriteAnswer(u) \/ CancelLoan(u) \/ RecordLoan(u)
               \/ WriteSearch(u) \/ \E amount \in Bounds : AnswerSearch(u, amount)
               \/ RequestDeletion(u)
        PROVE  handler'[v].session \in {handler[v].session, search, NoSession}
    <2>1. End(u)
      BY <1>4 DEF WriteStart, WriteAnswer, CancelLoan, RecordLoan, WriteSearch, AnswerSearch, RequestDeletion
    <2> QED
      BY <1>1, <1>2, <2>1 DEF End
  <1>5. ASSUME NEW u \in Handlers, ConfirmLoan(u) \/ \E word \in {"DELETE", "other"} : ClearFlag(u, word)
        PROVE  handler'[v].session \in {handler[v].session, search, NoSession}
    <2>1. End(u) \/ \E d : handler' = [handler EXCEPT ![u].does = d]
      BY <1>5 DEF ConfirmLoan, ClearFlag
    <2>2. handler[u] \in HandlerStates
      BY <1>1
    <2>3. ASSUME NEW d, handler' = [handler EXCEPT ![u].does = d]
          PROVE  handler'[v].session = handler[v].session
      BY <1>1, <2>2, <2>3 DEF HandlerStates
    <2> QED
      BY <1>1, <1>2, <2>1, <2>3 DEF End
  <1>6. CASE \/ AskForDelete \/ CancelDeletion \/ ExpireWizard \/ ExpireSearch \/ ExpireFlag
             \/ UNCHANGED dialogVars
    BY <1>6 DEF AskForDelete, CancelDeletion, ExpireWizard, ExpireSearch, ExpireFlag, dialogVars
  <1> QED
    BY <1>3, <1>4, <1>5, <1>6 DEF DialogsNext

LEMMA SessionStaysOrdered ==
  ASSUME DialogsInv, BoundsOrdered, [DialogsNext]_dialogVars
  PROVE  BoundsOrdered'
  <1>1. Ordered(NoSession)
    BY DEF Ordered, InOrder, NoSession
  <1>2. Ordered(search) /\ \A u \in Handlers : Ordered(handler[u].session)
    BY DEF BoundsOrdered
  <1>3. ASSUME NEW u \in Handlers, WriteSearch(u) PROVE Ordered(search')
    <2> DEFINE s == handler[u].session
    <2>1. s \in Sessions /\ Ordered(s)
      BY <1>2 DEF DialogsInv, DialogsTypeOK, HandlerStates
    <2>2. handler[u].does \in {"search", "reset", "min", "max", "page", "close"}
          /\ search' \in {search, SessionAfter(handler[u].does, s)}
      BY <1>3 DEF WriteSearch
    <2> HIDE DEF s
    <2>3. CASE handler[u].does = "close"
      BY <1>1, <1>2, <2>2, <2>3 DEF SessionAfter
    <2>4. CASE handler[u].does \in {"search", "reset", "min", "max", "page"}
      <3> DEFINE a == SessionAfter(handler[u].does, s)
      <3>1. (a.min = Unset /\ a.max = Unset) \/ (a.min = s.min /\ a.max = s.max)
        BY <2>1, <2>4, SessionAfterIs
      <3>2. search' \in {search, a}
        BY <2>2
      <3> HIDE DEF a
      <3>3. Ordered(a)
        BY <2>1, <3>1 DEF Ordered, InOrder
      <3> QED
        BY <1>2, <3>2, <3>3
    <2> QED
      BY <2>2, <2>3, <2>4
  <1>4. ASSUME NEW u \in Handlers, \E amount \in Bounds : AnswerSearch(u, amount) PROVE Ordered(search')
    BY <1>2, <1>4 DEF AnswerSearch, Ordered
  <1>5. ASSUME UNCHANGED search \/ search' = NoSession PROVE Ordered(search')
    BY <1>1, <1>2, <1>5
  <1>6. \/ UNCHANGED search \/ search' = NoSession
        \/ \E u \in Handlers : WriteSearch(u) \/ \E amount \in Bounds : AnswerSearch(u, amount)
    <2>1. CASE \/ AskForDelete \/ CancelDeletion \/ ExpireWizard \/ ExpireSearch \/ ExpireFlag
               \/ UNCHANGED dialogVars
      BY <2>1 DEF AskForDelete, CancelDeletion, ExpireWizard, ExpireSearch, ExpireFlag, dialogVars, searchRecords
    <2>2. ASSUME NEW u \in Handlers,
                 \/ TextStep(u) \/ CancelCommand(u) \/ \E kind \in LoanKinds : StartLoan(u, kind)
                 \/ \E button \in shown : TapLoan(u, button, "confirm") \/ TapLoan(u, button, "cancel")
                 \/ WriteStart(u) \/ WriteAnswer(u) \/ CancelLoan(u) \/ ConfirmLoan(u) \/ RecordLoan(u)
                 \/ StartSearch(u) \/ \E does \in {"reset", "min", "max", "page", "close"} : TapSearch(u, does)
                 \/ RequestDeletion(u) \/ \E word \in {"DELETE", "other"} : ClearFlag(u, word)
          PROVE  UNCHANGED search
      BY <2>2 DEF TextStep, CancelCommand, StartLoan, TapLoan, WriteStart, WriteAnswer, CancelLoan, ConfirmLoan,
         RecordLoan, StartSearch, TapSearch, ReadSearch, RequestDeletion, ClearFlag, searchRecords
    <2> QED
      BY <2>1, <2>2 DEF DialogsNext
  <1>7. Ordered(search)'
    <2>1. Ordered(search')
      BY <1>3, <1>4, <1>5, <1>6
    <2> QED
      BY <2>1 DEF Ordered, InOrder
  <1>8. ASSUME NEW u \in Handlers PROVE Ordered(handler[u].session)'
    <2>1. handler'[u].session \in {handler[u].session, search, NoSession}
      BY ReadsAreOfTheSession
    <2>2. Ordered(handler'[u].session)
      BY <1>1, <1>2, <2>1
    <2> QED
      BY <2>2 DEF Ordered, InOrder
  <1> QED
    BY <1>7, <1>8 DEF BoundsOrdered

\* The two bounds that stand are in order, and a bound is lost only when both
\* are: an answer and a tap that read one session never undo each other.
THEOREM BoundsStay == DialogsSpec => BoundsAreNotLost
  <1>1. DialogsInv /\ [DialogsNext]_dialogVars =>
          [~ ended' => \A b \in {"min", "max"} :
             search[b] # Unset /\ search'[b] = Unset => search'.min = Unset /\ search'.max = Unset]_search
    BY DialogsStep DEF SessionMoves
  <1>2. DialogsInit => BoundsOrdered
    BY DEF DialogsInit, BoundsOrdered, Ordered, InOrder, NoSession, Idle
  <1>3. BoundsOrdered => InOrder(search.min, search.max)
    BY DEF BoundsOrdered, Ordered
  <1>4. DialogsInv /\ BoundsOrdered /\ [DialogsNext]_dialogVars => BoundsOrdered'
    BY SessionStaysOrdered
  <1> QED
    BY <1>1, <1>2, <1>3, <1>4, DialogsStand, PTL DEF DialogsSpec, BoundsAreNotLost

(***************************************************************************)
(* For any number of names, taps and rows: the index keeps every name to   *)
(* one category of a language, deprecated ones included, and a row whose   *)
(* category is no longer in use is one written late.                       *)
(***************************************************************************)
CategoryRows == [status : {"none", "active", "deprecated"}, name : Names \cup {NoName},
                 language : ReplyLanguages \cup {NoName}]
TapStates == [does : {"nothing", "naming", "checking", "inserting", "clearing", "editing"},
              name : Names \cup {NoName}, version : Nat, language : ReplyLanguages \cup {NoName},
              id : Ids \cup {Parent}, row : UserRows \cup {Parent}]

CategoriesTypeOK ==
  /\ category \in [Ids -> CategoryRows]
  /\ row \in [UserRows -> [category : Ids \cup {Parent}, live : BOOLEAN]]
  /\ naming \in [version : Nat, name : Names \cup {NoName}]
  /\ language \in ReplyLanguages /\ tap \in [Taps -> TapStates]

\* What the index keeps of all categories there have been, and the look of a tap
\* that is about to insert.
NamesStand ==
  /\ \A c, d \in Ids : c # d /\ category[c].status # "none" /\ category[d].status # "none"
       => category[c].name # category[d].name \/ category[c].language # category[d].language
  /\ \A c \in Ids : category[c].status # "none" => category[c].name \notin SystemNames
  /\ \A t \in Taps : Step(t, "inserting") => tap[t].name \notin SystemNames

RowsStand ==
  /\ RowsHaveUsableCategories
  /\ \A t \in Taps : Step(t, "editing") => tap[t].row \in UserRows /\ tap[t].id \in Ids

CategoriesInv == CategoriesTypeOK /\ NamesStand /\ RowsStand

\* A tap turns to something else; no category and no row is touched.
LEMMA TapTurns ==
  ASSUME CategoriesInv, NEW t \in Taps, NEW now \in TapStates, tap' = [tap EXCEPT ![t] = now],
         UNCHANGED <<category, row, late, language>>, naming' \in [version : Nat, name : Names \cup {NoName}],
         now.does = "inserting" => now.name \notin SystemNames,
         now.does = "editing" => now.row \in UserRows /\ now.id \in Ids
  PROVE  CategoriesInv'
  <1>1. /\ tap' \in [Taps -> TapStates] /\ tap'[t] = now
        /\ \A u \in Taps : u # t => tap'[u] = tap[u]
    BY DEF CategoriesInv, CategoriesTypeOK
  <1>2. CategoriesTypeOK'
    BY <1>1 DEF CategoriesInv, CategoriesTypeOK
  <1>3. NamesStand'
    BY <1>1 DEF CategoriesInv, NamesStand, Step
  <1>4. RowsStand'
    BY <1>1 DEF CategoriesInv, RowsStand, Step, RowsHaveUsableCategories, Usable, Active
  <1> QED
    BY <1>2, <1>3, <1>4 DEF CategoriesInv

LEMMA NoTapIs == NoTap \in TapStates /\ NoTap.does = "nothing"
  BY DEF NoTap, TapStates

\* The steps of a wizard before the insertion.
LEMMA WizardStep ==
  ASSUME CategoriesInv, NEW t \in Taps,
         \/ StartWizard(t) \/ WriteName(t) \/ ParentSelected(t) \/ Check(t) \/ ClearWizard(t)
         \/ \E n \in Names : NameTyped(t, n)
  PROVE  CategoriesInv'
  <1>1. naming' \in [version : Nat, name : Names \cup {NoName}] /\ UNCHANGED <<category, row, late, language>>
    <2>1. tap[t] \in TapStates
      BY DEF CategoriesInv, CategoriesTypeOK
    <2>2. tap[t].name \in Names \cup {NoName} /\ naming \in [version : Nat, name : Names \cup {NoName}]
      BY <2>1 DEF TapStates, CategoriesInv, CategoriesTypeOK
    <2>3. \A n \in Names \cup {NoName} :
            [version |-> naming.version + 1, name |-> n] \in [version : Nat, name : Names \cup {NoName}]
      BY <2>2
    <2>4. NoWizard \in [version : Nat, name : Names \cup {NoName}]
      BY DEF NoWizard
    <2>5. naming' \in {naming, NoWizard, [version |-> naming.version + 1, name |-> NoName],
                       [version |-> naming.version + 1, name |-> tap[t].name]}
      BY DEF StartWizard, WriteName, ParentSelected, Check, ClearWizard, NameTyped
    <2>6. UNCHANGED <<category, row, late, language>>
      BY DEF StartWizard, WriteName, ParentSelected, Check, ClearWizard, NameTyped
    <2> QED
      BY <2>2, <2>3, <2>4, <2>5, <2>6
  <1>2. CASE StartWizard(t) \/ WriteName(t) \/ ClearWizard(t)
    <2>1. tap' = [tap EXCEPT ![t] = NoTap]
      BY <1>2 DEF StartWizard, WriteName, ClearWizard, Start, Finish, Turn
    <2> QED
      BY <1>1, <2>1, NoTapIs, TapTurns
  <1>3. CASE ParentSelected(t)
    <2> DEFINE now == [NoTap EXCEPT !.does = "checking", !.name = naming.name,
                                    !.version = naming.version, !.language = language]
    <2>1. tap' = [tap EXCEPT ![t] = now]
      BY <1>3 DEF ParentSelected, Start
    <2>2. now \in TapStates /\ now.does = "checking"
      BY NoTapIs DEF TapStates, CategoriesInv, CategoriesTypeOK
    <2> HIDE DEF now
    <2> QED
      BY <1>1, <2>1, <2>2, TapTurns
  <1>4. CASE \E n \in Names : NameTyped(t, n)
    <2>1. PICK n \in Names : NameTyped(t, n)
      BY <1>4
    <2> DEFINE now == [NoTap EXCEPT !.does = "naming", !.name = n, !.version = naming.version]
    <2>2. tap' = [tap EXCEPT ![t] = now]
      BY <2>1 DEF NameTyped, Start
    <2>3. now \in TapStates /\ now.does = "naming"
      BY NoTapIs DEF TapStates, CategoriesInv, CategoriesTypeOK
    <2> HIDE DEF now
    <2> QED
      BY <1>1, <2>2, <2>3, TapTurns
  <1>5. CASE Check(t)
    <2> DEFINE next == IF Taken(tap[t].name) THEN "clearing" ELSE "inserting"
               now == [tap[t] EXCEPT !.does = next]
    <2>1. tap' = [tap EXCEPT ![t] = now]
      BY <1>5 DEF Check, Turn
    <2>2. tap[t] \in TapStates
      BY DEF CategoriesInv, CategoriesTypeOK
    <2>3. now \in TapStates /\ now.does = next /\ now.name = tap[t].name
      BY <2>2 DEF TapStates
    <2>4. now.does = "inserting" => now.name \notin SystemNames
      BY <2>3 DEF Taken
    <2>5. now.does # "editing"
      BY <2>3
    <2> HIDE DEF now, next
    <2> QED
      BY <1>1, <2>1, <2>3, <2>4, <2>5, TapTurns
  <1> QED
    BY <1>2, <1>3, <1>4, <1>5

LEMMA InsertStep ==
  ASSUME CategoriesInv, NEW t \in Taps, NEW c \in Ids, InsertCategory(t, c)
  PROVE  CategoriesInv'
  <1> DEFINE now == [tap[t] EXCEPT !.does = "clearing"]
  <1>1. tap[t] \in TapStates /\ now \in TapStates /\ now.does = "clearing"
    BY DEF CategoriesInv, CategoriesTypeOK, TapStates
  <1>2. CASE UNCHANGED category
    <2>1. tap' = [tap EXCEPT ![t] = now] \/ tap' = [tap EXCEPT ![t] = NoTap]
      BY DEF InsertCategory, Turn, Finish
    <2>2. naming' \in [version : Nat, name : Names \cup {NoName}] /\ UNCHANGED <<category, row, late, language>>
      BY <1>2 DEF InsertCategory, CategoriesInv, CategoriesTypeOK
    <2> HIDE DEF now
    <2> QED
      BY <1>1, <2>1, <2>2, NoTapIs, TapTurns
  <1> DEFINE fresh == [status |-> "active", name |-> tap[t].name, language |-> tap[t].language]
  <1>3. CASE /\ IndexAllows(tap[t].name, tap[t].language) /\ tap' = [tap EXCEPT ![t] = now]
             /\ category' = [category EXCEPT ![c] = fresh]
    <2>1. fresh \in CategoryRows /\ fresh.status = "active" /\ fresh.name \notin SystemNames
      BY <1>1 DEF TapStates, CategoryRows, InsertCategory, CategoriesInv, NamesStand
    <2>2. \A d \in Ids : category[d].status # "none" =>
            category[d].name # fresh.name \/ category[d].language # fresh.language
      BY <1>3 DEF IndexAllows
    <2>3. category[c].status = "none" /\ UNCHANGED <<row, naming, language, late>>
      BY DEF InsertCategory
    <2> HIDE DEF fresh, now
    <2>4. /\ category' \in [Ids -> CategoryRows] /\ category'[c] = fresh
          /\ \A d \in Ids : d # c => category'[d] = category[d]
          /\ tap' \in [Taps -> TapStates] /\ tap'[t] = now
          /\ \A u \in Taps : u # t => tap'[u] = tap[u]
      BY <1>1, <1>3, <2>1 DEF CategoriesInv, CategoriesTypeOK
    <2>5. CategoriesTypeOK'
      BY <2>3, <2>4 DEF CategoriesInv, CategoriesTypeOK
    <2>6. NamesStand'
      BY <1>1, <2>1, <2>2, <2>4 DEF CategoriesInv, NamesStand, Step
    <2>7. \A k : Usable(k) /\ k \in Ids \cup {Parent} => Usable(k)'
      BY <2>1, <2>4 DEF Usable, Active
    <2>8. RowsStand'
      BY <1>1, <2>3, <2>4, <2>7 DEF CategoriesInv, CategoriesTypeOK, RowsStand, RowsHaveUsableCategories, Step
    <2> QED
      BY <2>5, <2>6, <2>8 DEF CategoriesInv
  <1> QED
    BY <1>2, <1>3 DEF InsertCategory, Turn

LEMMA DeleteCategoryStep ==
  ASSUME CategoriesInv, NEW c \in Ids, DeleteCategory(c)
  PROVE  CategoriesInv'
  <1> DEFINE gone == [category[c] EXCEPT !.status = "deprecated"]
  <1>1. /\ UNCHANGED <<naming, language, tap, late>> /\ row' = [r \in UserRows |-> Reassigned(r, c)]
        /\ category[c].status = "active" /\ category[c] \in CategoryRows
        /\ category' = [category EXCEPT ![c] = gone]
    BY DEF DeleteCategory, Active, CategoriesInv, CategoriesTypeOK
  <1>2. gone \in CategoryRows /\ gone.name = category[c].name /\ gone.language = category[c].language
    BY <1>1 DEF CategoryRows
  <1> HIDE DEF gone
  <1>3. /\ category' \in [Ids -> CategoryRows] /\ category'[c] = gone
        /\ \A d \in Ids : d # c => category'[d] = category[d]
    BY <1>1, <1>2 DEF CategoriesInv, CategoriesTypeOK
  <1>4. \A r \in UserRows :
          /\ Reassigned(r, c) \in [category : Ids \cup {Parent}, live : BOOLEAN]
          /\ Reassigned(r, c).live = row[r].live
          /\ row[r].live => Reassigned(r, c).category # c \/ c = Parent
          /\ Reassigned(r, c).category \in {row[r].category, Parent}
    <2>1. SUFFICES ASSUME NEW r \in UserRows
                   PROVE  /\ Reassigned(r, c) \in [category : Ids \cup {Parent}, live : BOOLEAN]
                          /\ Reassigned(r, c).live = row[r].live
                          /\ row[r].live => Reassigned(r, c).category # c \/ c = Parent
                          /\ Reassigned(r, c).category \in {row[r].category, Parent}
      OBVIOUS
    <2>2. row[r] \in [category : Ids \cup {Parent}, live : BOOLEAN]
      BY DEF CategoriesInv, CategoriesTypeOK
    <2> QED
      BY <2>2 DEF Reassigned
  <1>5. CategoriesTypeOK'
    BY <1>1, <1>3, <1>4 DEF CategoriesInv, CategoriesTypeOK
  <1>6. NamesStand'
    BY <1>1, <1>2, <1>3 DEF CategoriesInv, NamesStand, Step
  <1>8. RowsHaveUsableCategories'
    <2>1. SUFFICES ASSUME NEW r \in UserRows \ late, row'[r].live PROVE Usable(row[r].category)'
      BY <1>1 DEF RowsHaveUsableCategories
    <2>2. row'[r] = Reassigned(r, c) /\ row[r].live /\ row[r].category \in Ids \cup {Parent}
      BY <1>1, <1>4, <2>1 DEF CategoriesInv, CategoriesTypeOK
    <2>3. Usable(row[r].category) /\ Usable(Parent) /\ Usable(Parent)'
      BY <2>2 DEF CategoriesInv, RowsStand, RowsHaveUsableCategories, Usable
    <2> DEFINE k == row'[r].category
    <2>4. k = Parent \/ (k \in Ids /\ k # c /\ category[k].status = "active")
      BY <1>4, <2>2, <2>3 DEF Usable, Active
    <2>5. k = Parent \/ category'[k].status = "active"
      BY <1>3, <2>4
    <2> QED
      BY <2>5 DEF Usable, Active
  <1>9. RowsStand'
    BY <1>1, <1>8 DEF CategoriesInv, RowsStand, Step
  <1> QED
    BY <1>5, <1>6, <1>9 DEF CategoriesInv

\* A row is written: what it says is that it counts for nothing, or it is late, or
\* its category is in use.
LEMMA RowWritten ==
  ASSUME CategoriesInv, NEW r \in UserRows, NEW new \in [category : Ids \cup {Parent}, live : BOOLEAN],
         row' = [row EXCEPT ![r] = new], UNCHANGED <<category, naming, language>>,
         ~ new.live \/ r \in late' \/ Usable(new.category),
         \A q \in UserRows : q # r /\ q \in late => q \in late',
         tap' = tap \/ \E t \in Taps : tap' = [tap EXCEPT ![t] = NoTap]
  PROVE  CategoriesInv'
  <1>1. /\ row' \in [UserRows -> [category : Ids \cup {Parent}, live : BOOLEAN]] /\ row'[r] = new
        /\ \A q \in UserRows : q # r => row'[q] = row[q]
    BY DEF CategoriesInv, CategoriesTypeOK
  <1>2. tap' \in [Taps -> TapStates] /\ \A t \in Taps : tap'[t] \in {tap[t], NoTap}
    BY NoTapIs DEF CategoriesInv, CategoriesTypeOK
  <1>3. CategoriesTypeOK'
    BY <1>1, <1>2 DEF CategoriesInv, CategoriesTypeOK
  <1>4. NamesStand'
    BY <1>2, NoTapIs DEF CategoriesInv, NamesStand, Step
  <1>5. \A k : Usable(k)' <=> Usable(k)
    BY DEF Usable, Active
  <1>6. RowsHaveUsableCategories'
    <2>1. SUFFICES ASSUME NEW q \in UserRows \ late', row'[q].live PROVE Usable(row[q].category)'
      BY DEF RowsHaveUsableCategories
    <2>2. Usable(row'[q].category)
      BY <1>1, <2>1 DEF CategoriesInv, RowsStand, RowsHaveUsableCategories
    <2> QED
      BY <2>2 DEF Usable, Active
  <1>7. RowsStand'
    BY <1>2, <1>6, NoTapIs DEF CategoriesInv, RowsStand, Step
  <1> QED
    BY <1>3, <1>4, <1>7 DEF CategoriesInv

LEMMA RowStep ==
  ASSUME CategoriesInv,
         \/ \E t \in Taps : WriteCategory(t) \/ \E r \in UserRows, c \in Ids : ChooseCategory(t, r, c)
         \/ \E r \in UserRows : DeleteRow(r) \/ RestoreRow(r)
  PROVE  CategoriesInv'
  <1>1. CASE \E t \in Taps : WriteCategory(t)
    <2>1. PICK t \in Taps : WriteCategory(t)
      BY <1>1
    <2> DEFINE r == tap[t].row
               new == [row[r] EXCEPT !.category = tap[t].id]
    <2>2. r \in UserRows /\ tap[t].id \in Ids
      BY <2>1 DEF WriteCategory, CategoriesInv, RowsStand
    <2>3. new \in [category : Ids \cup {Parent}, live : BOOLEAN] /\ new.category = tap[t].id
      BY <2>2 DEF CategoriesInv, CategoriesTypeOK
    <2>4. /\ row' = [row EXCEPT ![r] = new] /\ UNCHANGED <<category, naming, language>>
          /\ tap' = [tap EXCEPT ![t] = NoTap]
          /\ late' = IF Usable(tap[t].id) THEN late \ {r} ELSE late \cup {r}
      BY <2>1 DEF WriteCategory, Finish, Turn, CategoriesInv, CategoriesTypeOK
    <2>5. /\ ~ new.live \/ r \in late' \/ Usable(new.category)
          /\ \A q \in UserRows : q # r /\ q \in late => q \in late'
      BY <2>3, <2>4
    <2> HIDE DEF r, new
    <2> QED
      BY <2>2, <2>3, <2>4, <2>5, RowWritten
  <1>2. CASE \E t \in Taps, r \in UserRows, c \in Ids : ChooseCategory(t, r, c)
    <2>1. PICK t \in Taps, r \in UserRows, c \in Ids : ChooseCategory(t, r, c)
      BY <1>2
    <2> DEFINE now == [NoTap EXCEPT !.does = "editing", !.row = r, !.id = c]
    <2>2. /\ tap' = [tap EXCEPT ![t] = now] /\ UNCHANGED <<category, row, naming, language, late>>
          /\ naming' \in [version : Nat, name : Names \cup {NoName}]
      BY <2>1 DEF ChooseCategory, Start, CategoriesInv, CategoriesTypeOK
    <2>3. now \in TapStates /\ now.does = "editing" /\ now.row = r /\ now.id = c
      BY NoTapIs DEF TapStates
    <2> HIDE DEF now
    <2> QED
      BY <2>2, <2>3, TapTurns
  <1>3. CASE \E r \in UserRows : DeleteRow(r) \/ RestoreRow(r)
    <2>1. PICK r \in UserRows : DeleteRow(r) \/ RestoreRow(r)
      BY <1>3
    <2> DEFINE new == [row[r] EXCEPT !.live = ~ row[r].live]
    <2>2. row[r] \in [category : Ids \cup {Parent}, live : BOOLEAN]
      BY DEF CategoriesInv, CategoriesTypeOK
    <2>3. new \in [category : Ids \cup {Parent}, live : BOOLEAN] /\ new.category = row[r].category
          /\ new.live = ~ row[r].live
      BY <2>2
    <2>4. row' = [row EXCEPT ![r] = new] /\ UNCHANGED <<category, naming, language, tap>>
      BY <2>1, <2>2 DEF DeleteRow, RestoreRow, CategoriesInv, CategoriesTypeOK
    <2>5. ~ new.live \/ r \in late' \/ Usable(new.category)
      BY <2>1, <2>3 DEF DeleteRow, RestoreRow
    <2>6. \A q \in UserRows : q # r /\ q \in late => q \in late'
      BY <2>1 DEF DeleteRow, RestoreRow
    <2> HIDE DEF new
    <2> QED
      BY <2>3, <2>4, <2>5, <2>6, RowWritten
  <1> QED
    BY <1>1, <1>2, <1>3

LEMMA OtherCategoryStep ==
  ASSUME CategoriesInv,
         DropWizard \/ (\E l \in ReplyLanguages : ChooseLanguage(l)) \/ UNCHANGED categoryVars
  PROVE  CategoriesInv'
  <1>1. UNCHANGED <<category, row, tap, late>> /\ naming' \in {naming, NoWizard}
        /\ language' \in ReplyLanguages
    BY DEF DropWizard, ChooseLanguage, categoryVars, CategoriesInv, CategoriesTypeOK
  <1>2. NoWizard \in [version : Nat, name : Names \cup {NoName}]
    BY DEF NoWizard
  <1> QED
    BY <1>1, <1>2 DEF CategoriesInv, CategoriesTypeOK, NamesStand, RowsStand, Step,
       RowsHaveUsableCategories, Usable, Active

LEMMA CategoriesInvInit == CategoriesInit => CategoriesInv
  <1> SUFFICES ASSUME CategoriesInit PROVE CategoriesInv
    OBVIOUS
  <1>1. /\ \A c \in Ids : category[c].status = "none" /\ category[c] \in CategoryRows
        /\ \A t \in Taps : tap[t].does = "nothing" /\ tap[t] \in TapStates
        /\ \A r \in UserRows : row[r].category = Parent
    BY NoTapIs DEF CategoriesInit, NoCategory, CategoryRows
  <1>2. CategoriesTypeOK
    BY <1>1, NoTapIs DEF CategoriesInit, CategoriesTypeOK, NoCategory, NoWizard, CategoryRows
  <1>3. NamesStand
    BY <1>1 DEF NamesStand, Step
  <1>4. RowsStand
    BY <1>1 DEF RowsStand, Step, RowsHaveUsableCategories, Usable
  <1> QED
    BY <1>2, <1>3, <1>4 DEF CategoriesInv

\* Types, the index's rule over all categories there have been, and the rows'.
THEOREM CategoriesStand == CategoriesSpec => []CategoriesInv
  <1>1. ASSUME CategoriesInv, [CategoriesNext]_categoryVars PROVE CategoriesInv'
    BY <1>1, WizardStep, InsertStep, DeleteCategoryStep, RowStep, OtherCategoryStep DEF CategoriesNext
  <1> QED
    BY <1>1, CategoriesInvInit, PTL DEF CategoriesSpec

\* No two categories in use have one name in one language, none a system category's,
\* and a row that counts has a category in use unless it was written late.
THEOREM CategoriesStayUsable == CategoriesSpec => []CategoriesAreUsable
  <1>1. CategoriesInv => CategoriesAreUsable
    BY DEF CategoriesInv, NamesStand, RowsStand, CategoriesAreUsable, NamesAreUnique, Active
  <1> QED
    BY <1>1, CategoriesStand, PTL


(***************************************************************************)
(* For any number of updates, drafts, retries and attempts to write: what  *)
(* the record names can be used and is unfinished, whatever interleaving,  *)
(* death or loss of the record came before.                                *)
(***************************************************************************)

(***************************************************************************)
(* Types, and what each operation makes of a call.                         *)
(***************************************************************************)
LEMMA NowhereIs == Nowhere \in DraftIds
  BY ConversationAssumption DEF Nowhere

LEMMA EmptyIs == <<>> \in Seq(DraftIds) /\ Len(<<>>) = 0
  OBVIOUS

LEMMA IdleStateIs ==
  /\ IdleState \in Records /\ IdleState.state = "IDLE" /\ IdleState.version = 0
  BY NowhereIs, EmptyIs, ConversationAssumption DEF IdleState, Records, States

LEMMA EventOfIs ==
  ASSUME NEW type \in EventTypes
  PROVE  /\ EventOf(type) \in ConversationEvents /\ EventOf(type).type = type
         /\ EventOf(type).classification = "none" /\ EventOf(type).holds = FALSE
  BY NowhereIs, EmptyIs DEF EventOf, NoEvent, ConversationEvents, Classifications

LEMMA NoEventIs ==
  NoEvent \in ConversationEvents /\ NoEvent.type = "none" /\ NoEvent.classification = "none"
  BY NowhereIs, EmptyIs DEF NoEvent, ConversationEvents, Classifications, EventTypes

LEMMA NewCallIs ==
  /\ NewCall \in CallStates /\ NewCall.step = "new" /\ NewCall.kind = "none"
  /\ NewCall.event = NoEvent /\ NewCall.todo = {} /\ NewCall.seen = IdleState
  /\ NewCall.base = IdleState /\ NewCall.next = IdleState
  <1>1. /\ "new" \in CallSteps /\ "none" \in Kinds /\ 0 \in 0..MaxCasRetries /\ {} \in SUBSET DraftIds
        /\ 0 \in Nat
    BY ConversationAssumption DEF CallSteps, Kinds
  <1> QED
    BY <1>1, NowhereIs, IdleStateIs, NoEventIs DEF NewCall, CallStates

LEMMA EndedCallIs ==
  /\ EndedCall \in CallStates /\ EndedCall.step = "done" /\ EndedCall.kind = "none"
  /\ EndedCall.event = NoEvent /\ EndedCall.todo = {} /\ EndedCall.seen = IdleState
  /\ EndedCall.base = IdleState /\ EndedCall.next = IdleState
  BY NewCallIs DEF EndedCall, CallStates, CallSteps

LEMMA EffectiveIs ==
  ASSUME ConversationTypeOK
  PROVE  /\ Effective \in Records /\ Effective.version = record.version
         /\ Effective.state # "IDLE" => Effective = record /\ ~ overdue
         /\ Effective.state = "IDLE" => record.state = "IDLE" \/ overdue
  <1>1. record \in Records /\ overdue \in BOOLEAN /\ record.version \in Nat
    BY DEF ConversationTypeOK, Records
  <1> DEFINE none == [IdleState EXCEPT !.version = record.version]
  <1>2. none \in Records /\ none.version = record.version /\ none.state = "IDLE"
    BY <1>1, IdleStateIs DEF Records
  <1> HIDE DEF none
  <1>3. Effective = IF overdue THEN none ELSE record
    BY DEF Effective, none
  <1> QED
    BY <1>1, <1>2, <1>3

LEMMA ToIs ==
  ASSUME NEW state \in States
  PROVE  /\ To(state) \in Records /\ To(state).state = state
         /\ \A d \in DraftIds : [To(state) EXCEPT !.draft = d] \in Records
  <1>1. To(state) \in Records /\ To(state).state = state
    BY IdleStateIs DEF To, Records
  <1> QED
    BY <1>1 DEF Records

\* What an event evaluated in a state leads to.
LEMMA NextStateIs ==
  ASSUME NEW base \in Records, NEW event \in ConversationEvents, Allowed(base, event)
  PROVE  NextState(base, event) \in Records
  <1>1. CASE event.type = "CANCELLATION"
    <2>1. NextState(base, event) \in {To("IDLE"), [base EXCEPT !.cancelAsked = TRUE]}
      BY <1>1 DEF NextState, AfterCancellation
    <2>2. [base EXCEPT !.cancelAsked = TRUE] \in Records
      BY DEF Records
    <2> QED
      BY <2>1, <2>2, ToIs DEF States
  <1>2. CASE event.type = "CANDIDATE_RESOLVED"
    <2>1. NextState(base, event) \in {To("IDLE"), [To("AWAITING_CONFIRMATION") EXCEPT !.draft = event.draft],
                                      [To("AWAITING_CLARIFICATION") EXCEPT !.draft = event.draft]}
      BY <1>2 DEF NextState, AfterCandidate
    <2>2. event.draft \in DraftIds
      BY DEF ConversationEvents
    <2> QED
      BY <2>1, <2>2, ToIs DEF States
  <1>3. CASE event.type = "CLARIFICATION_ANSWER"
    <2>1. CASE ~ event.holds /\ base.retries < MaxRetries
      <3>1. NextState(base, event) = [base EXCEPT !.retries = base.retries + 1]
        BY <1>3, <2>1 DEF NextState, AfterAnswer
      <3>2. base.retries + 1 \in 0..MaxRetries
        BY <2>1, ConversationAssumption DEF Records
      <3> QED
        BY <3>1, <3>2 DEF Records
    <2>2. CASE event.holds \/ ~(base.retries < MaxRetries)
      <3>1. NextState(base, event) \in {To("IDLE"), base}
        BY <1>3, <2>2 DEF NextState, AfterAnswer
      <3> QED
        BY <3>1, ToIs DEF States
    <2> QED
      BY <2>1, <2>2
  <1>4. CASE event.type = "EDIT_REQUESTED"
    <2>1. NextState(base, event) = [To("AWAITING_EDIT_VALUE") EXCEPT !.draft = base.draft]
      BY <1>4 DEF NextState
    <2>2. base.draft \in DraftIds
      BY DEF Records
    <2> QED
      BY <2>1, <2>2, ToIs DEF States
  <1>5. CASE event.type = "EDIT_VALUE_PROVIDED"
    <2>1. NextState(base, event) = To("IDLE")
      BY <1>5 DEF NextState
    <2> QED
      BY <2>1, ToIs DEF States
  <1>6. CASE event.type = "BATCH_REVIEW_STARTED"
    <2>1. NextState(base, event)
            = [To("AWAITING_MULTI_ITEM_REVIEW") EXCEPT !.low = event.low, !.high = event.high]
      BY <1>6 DEF NextState
    <2>2. event.low \in Seq(DraftIds) /\ event.high \in SUBSET DraftIds
      BY DEF ConversationEvents
    <2>3. To("AWAITING_MULTI_ITEM_REVIEW") \in Records
      BY ToIs DEF States
    <2> QED
      BY <2>1, <2>2, <2>3 DEF Records
  <1>7. CASE event.type \in {"none", "BATCH_ITEM_REVIEWED"}
    <2>1. CASE base.index + 1 > Len(base.low)
      <3>1. NextState(base, event) = To("IDLE")
        BY <1>7, <2>1 DEF NextState, AfterItem
      <3> QED
        BY <3>1, ToIs DEF States
    <2>2. CASE ~(base.index + 1 > Len(base.low))
      <3>1. NextState(base, event) = [base EXCEPT !.index = base.index + 1, !.cancelAsked = FALSE]
        BY <1>7, <2>2 DEF NextState, AfterItem
      <3>2. base.index + 1 \in Nat
        BY DEF Records
      <3> QED
        BY <3>1, <3>2 DEF Records
    <2> QED
      BY <2>1, <2>2
  <1> QED
    BY <1>1, <1>2, <1>3, <1>4, <1>5, <1>6, <1>7 DEF ConversationEvents, EventTypes

\* What a step leaves of a call that it only takes further.
KeepsWork(c, k) ==
  c.kind = k.kind /\ c.seen = k.seen /\ c.base = k.base /\ c.next = k.next /\ c.expected = k.expected

\* A call whose event has not been evaluated.
Unevaluated(c) == c.base = IdleState /\ c.next = IdleState


LEMMA CallIs ==
  ASSUME ConversationTypeOK, NEW u \in Updates
  PROVE  call[u] \in CallStates
  BY DEF ConversationTypeOK

CancelPhraseMakes(u, c) ==
  /\ call[u].step = "new"
  /\ UNCHANGED <<record, overdue, drafts, txn>>
  /\ Noted
  /\ GoOn(u, c) /\ c.step = "event" /\ c.kind = "cancel"
  /\ c.event = EventOf("CANCELLATION") /\ c.todo = {} /\ c.seen = IdleState
  /\ Unevaluated(c)

LEMMA CancelPhraseIs ==
  ASSUME NEW u \in Updates, CancelPhrase(u)
  PROVE  \E c \in CallStates : CancelPhraseMakes(u, c)
  <1>0. \E c \in CallStates :
           /\ GoOn(u, c) /\ c.step = "event" /\ c.kind = "cancel"
           /\ c.event = EventOf("CANCELLATION") /\ c.todo = {} /\ c.seen = IdleState
           /\ Unevaluated(c)
    <2> DEFINE c == [NewCall EXCEPT !.kind = "cancel", !.step = "event", !.event = EventOf("CANCELLATION")]
    <2>1. EventOf("CANCELLATION") \in ConversationEvents
      BY EventOfIs DEF EventTypes
    <2>2. /\ c \in CallStates /\ c.step = "event" /\ c.kind = "cancel"
          /\ c.event = EventOf("CANCELLATION") /\ c.todo = {} /\ c.seen = IdleState
          /\ Unevaluated(c)
      BY <2>1, NewCallIs DEF CallStates, CallSteps, Kinds, Unevaluated
    <2>3. GoOn(u, c)
      BY DEF CancelPhrase
    <2> HIDE DEF c
    <2> QED
      BY <2>2, <2>3
  <1> QED
    BY <1>0 DEF CancelPhraseMakes, CancelPhrase, CallAt

TextMakes(u, c) ==
  /\ call[u].step = "new"
  /\ UNCHANGED <<record, overdue, drafts, txn>>
  /\ Noted
  /\ GoOn(u, c)
  /\ \/ c = EndedCall
     \/ /\ c.kind = "text" /\ c.seen = Effective /\ c.event = NoEvent /\ c.todo = {}
        /\ Unevaluated(c)
        /\ \/ c.step = "extracting" /\ Effective.state = "IDLE"
           \/ c.step = "answering" /\ Effective.state = "AWAITING_CLARIFICATION"
           \/ c.step = "editing" /\ Effective.state = "AWAITING_EDIT_VALUE"

LEMMA TextIs ==
  ASSUME ConversationTypeOK, NEW u \in Updates, Text(u)
  PROVE  \E c \in CallStates : TextMakes(u, c)
  <1>0. \E c \in CallStates :
           /\ GoOn(u, c)
           /\ \/ c = EndedCall
              \/ /\ c.kind = "text" /\ c.seen = Effective /\ c.event = NoEvent /\ c.todo = {}
                 /\ Unevaluated(c)
                 /\ \/ c.step = "extracting" /\ Effective.state = "IDLE"
                    \/ c.step = "answering" /\ Effective.state = "AWAITING_CLARIFICATION"
                    \/ c.step = "editing" /\ Effective.state = "AWAITING_EDIT_VALUE"
    <2> DEFINE c == [NewCall EXCEPT !.kind = "text", !.step = RouteText(Effective), !.seen = Effective]
    <2>1. RouteText(Effective) = "done" => GoOn(u, EndedCall)
      BY DEF Text
    <2>2. RouteText(Effective) # "done" => GoOn(u, c)
      BY DEF Text
    <2>3. RouteText(Effective) # "done" =>
            \/ RouteText(Effective) = "extracting" /\ Effective.state = "IDLE"
            \/ RouteText(Effective) = "answering" /\ Effective.state = "AWAITING_CLARIFICATION"
            \/ RouteText(Effective) = "editing" /\ Effective.state = "AWAITING_EDIT_VALUE"
      BY DEF RouteText
    <2>4. RouteText(Effective) # "done" => RouteText(Effective) \in CallSteps
      BY <2>3 DEF CallSteps
    <2>5. RouteText(Effective) # "done" => c \in CallStates
      BY <2>4, NewCallIs, EffectiveIs DEF CallStates, Kinds
    <2>6. RouteText(Effective) # "done" =>
            /\ c.kind = "text" /\ c.seen = Effective /\ c.event = NoEvent /\ c.todo = {}
            /\ c.step = RouteText(Effective) /\ Unevaluated(c)
      BY NewCallIs DEF CallStates, Unevaluated
    <2> HIDE DEF c
    <2> QED
      BY <2>1, <2>2, <2>3, <2>5, <2>6, EndedCallIs
  <1> QED
    BY <1>0 DEF TextMakes, Text, CallAt

TapMakes(u, kind, d, c) ==
  /\ call[u].step = "new"
  /\ UNCHANGED <<record, overdue, drafts, txn>>
  /\ Noted
  /\ GoOn(u, c)
  /\ \/ c = EndedCall
     \/ /\ FreshTap(kind, d, Effective) /\ c.kind = kind /\ c.target = d /\ c.seen = Effective
        /\ Unevaluated(c)
        /\ \/ kind = "undo" /\ c.step = "event" /\ c.event = EventOf("CANCELLATION") /\ c.todo = {}
           \/ kind = "edit" /\ c.step = "event" /\ c.event = EventOf("EDIT_REQUESTED") /\ c.todo = {}
           \/ kind = "batch_skip" /\ c.step = "event" /\ c.event = EventOf("BATCH_ITEM_REVIEWED")
                /\ c.todo = {}
           \/ kind = "batch_confirm" /\ c.step = "confirming" /\ c.event = NoEvent /\ c.todo = {}
           \/ kind = "batch_commit_high" /\ c.step = "importing" /\ c.event = NoEvent
                /\ c.todo = Effective.high

LEMMA TapButtonIs ==
  ASSUME ConversationTypeOK, NEW u \in Updates, NEW kind \in Kinds \ {"none", "text", "cancel"},
         NEW d \in DraftIds, TapButton(u, kind, d)
  PROVE  \E c \in CallStates : TapMakes(u, kind, d, c)
  <1>0. \E c \in CallStates :
           /\ GoOn(u, c)
           /\ \/ c = EndedCall
              \/ /\ FreshTap(kind, d, Effective) /\ c.kind = kind /\ c.target = d /\ c.seen = Effective
                 /\ Unevaluated(c)
                 /\ \/ kind = "undo" /\ c.step = "event" /\ c.event = EventOf("CANCELLATION") /\ c.todo = {}
                    \/ kind = "edit" /\ c.step = "event" /\ c.event = EventOf("EDIT_REQUESTED") /\ c.todo = {}
                    \/ kind = "batch_skip" /\ c.step = "event" /\ c.event = EventOf("BATCH_ITEM_REVIEWED")
                         /\ c.todo = {}
                    \/ kind = "batch_confirm" /\ c.step = "confirming" /\ c.event = NoEvent /\ c.todo = {}
                    \/ kind = "batch_commit_high" /\ c.step = "importing" /\ c.event = NoEvent
                         /\ c.todo = Effective.high
    <2> DEFINE k == [NewCall EXCEPT !.kind = kind, !.target = d, !.seen = Effective]
    <2>1. /\ k \in CallStates /\ k.kind = kind /\ k.target = d /\ k.seen = Effective
          /\ k.event = NoEvent /\ k.todo = {} /\ Unevaluated(k)
      BY NewCallIs, EffectiveIs DEF CallStates, Unevaluated
    <2>2. CASE ~ FreshTap(kind, d, Effective)
      <3>1. GoOn(u, EndedCall)
        BY <2>2 DEF TapButton
      <3> QED
        BY <3>1, EndedCallIs
    <2>3. CASE FreshTap(kind, d, Effective)
      <3>1. GoOn(u, Tapped(k))
        BY <2>3 DEF TapButton
      <3> HIDE DEF k
      <3>2. /\ EventOf("CANCELLATION") \in ConversationEvents /\ EventOf("EDIT_REQUESTED") \in ConversationEvents
            /\ EventOf("BATCH_ITEM_REVIEWED") \in ConversationEvents
            /\ {"event", "confirming", "importing"} \subseteq CallSteps
        BY EventOfIs DEF EventTypes, CallSteps
      <3>3. k.seen.high \in SUBSET DraftIds
        BY <2>1, EffectiveIs DEF Records
      <3>4. CASE kind = "undo"
        <4> DEFINE c == [k EXCEPT !.step = "event", !.event = EventOf("CANCELLATION")]
        <4>1. Tapped(k) = c
          BY <2>1, <3>4 DEF Tapped
        <4>2. /\ c \in CallStates /\ c.kind = kind /\ c.target = d
              /\ Unevaluated(c) /\ c.seen = Effective /\ c.step = "event"
              /\ c.event = EventOf("CANCELLATION") /\ c.todo = {}
          BY <2>1, <3>2 DEF CallStates, Unevaluated
        <4> HIDE DEF c
        <4> QED
          BY <2>3, <3>1, <3>4, <4>1, <4>2
      <3>5. CASE kind = "edit"
        <4> DEFINE c == [k EXCEPT !.step = "event", !.event = EventOf("EDIT_REQUESTED")]
        <4>1. Tapped(k) = c
          BY <2>1, <3>5 DEF Tapped
        <4>2. /\ c \in CallStates /\ c.kind = kind /\ c.target = d
              /\ Unevaluated(c) /\ c.seen = Effective /\ c.step = "event"
              /\ c.event = EventOf("EDIT_REQUESTED") /\ c.todo = {}
          BY <2>1, <3>2 DEF CallStates, Unevaluated
        <4> HIDE DEF c
        <4> QED
          BY <2>3, <3>1, <3>5, <4>1, <4>2
      <3>6. CASE kind = "batch_skip"
        <4> DEFINE c == [k EXCEPT !.step = "event", !.event = EventOf("BATCH_ITEM_REVIEWED")]
        <4>1. Tapped(k) = c
          BY <2>1, <3>6 DEF Tapped
        <4>2. /\ c \in CallStates /\ c.kind = kind /\ c.target = d
              /\ Unevaluated(c) /\ c.seen = Effective /\ c.step = "event"
              /\ c.event = EventOf("BATCH_ITEM_REVIEWED") /\ c.todo = {}
          BY <2>1, <3>2 DEF CallStates, Unevaluated
        <4> HIDE DEF c
        <4> QED
          BY <2>3, <3>1, <3>6, <4>1, <4>2
      <3>7. CASE kind = "batch_confirm"
        <4> DEFINE c == [k EXCEPT !.step = "confirming"]
        <4>1. Tapped(k) = c
          BY <2>1, <3>7 DEF Tapped
        <4>2. /\ c \in CallStates /\ c.kind = kind /\ c.target = d
              /\ Unevaluated(c) /\ c.seen = Effective /\ c.step = "confirming"
              /\ c.event = NoEvent /\ c.todo = {}
          BY <2>1, <3>2 DEF CallStates, Unevaluated
        <4> HIDE DEF c
        <4> QED
          BY <2>3, <3>1, <3>7, <4>1, <4>2
      <3>8. CASE kind = "batch_commit_high"
        <4> DEFINE c == [k EXCEPT !.step = "importing", !.todo = k.seen.high]
        <4>1. Tapped(k) = c
          BY <2>1, <3>8 DEF Tapped
        <4>2. /\ c \in CallStates /\ c.kind = kind /\ c.target = d
              /\ Unevaluated(c) /\ c.seen = Effective /\ c.step = "importing"
              /\ c.event = NoEvent /\ c.todo = Effective.high
          BY <2>1, <3>2, <3>3 DEF CallStates, Unevaluated
        <4> HIDE DEF c
        <4> QED
          BY <2>3, <3>1, <3>8, <4>1, <4>2
      <3> QED
        BY <3>4, <3>5, <3>6, <3>7, <3>8 DEF Kinds
    <2> QED
      BY <2>2, <2>3
  <1> QED
    BY <1>0 DEF TapMakes, TapButton, CallAt

CandidateMakes(u, d, cl, c) ==
  /\ call[u].step = "extracting"
  /\ UNCHANGED <<record, overdue, txn, happened>>
  /\ drafts[d] = "none"
  /\ drafts' = [drafts EXCEPT ![d] = "pending"]
  /\ GoOn(u, c) /\ KeepsWork(c, call[u]) /\ c.target = call[u].target /\ c.todo = call[u].todo
  /\ c.step = "event" /\ c.event.type = "CANDIDATE_RESOLVED" /\ c.event.draft = d
  /\ c.event.classification = cl

LEMMA FreshCandidateIs ==
  ASSUME ConversationTypeOK, NEW u \in Updates, NEW d \in DraftIds,
         NEW cl \in Classifications \ {"none"}, FreshCandidate(u, d, cl)
  PROVE  \E c \in CallStates : CandidateMakes(u, d, cl, c)
  <1>0. \E c \in CallStates :
           /\ GoOn(u, c) /\ KeepsWork(c, call[u]) /\ c.target = call[u].target /\ c.todo = call[u].todo
           /\ c.step = "event" /\ c.event.type = "CANDIDATE_RESOLVED" /\ c.event.draft = d
           /\ c.event.classification = cl
    <2> DEFINE e == [EventOf("CANDIDATE_RESOLVED") EXCEPT !.draft = d, !.classification = cl]
               c == [call[u] EXCEPT !.step = "event", !.event = e]
    <2>1. /\ e \in ConversationEvents /\ e.type = "CANDIDATE_RESOLVED" /\ e.draft = d
          /\ e.classification = cl
      BY EventOfIs DEF ConversationEvents, EventTypes
    <2>2. GoOn(u, c)
      BY DEF FreshCandidate, Raise
    <2> HIDE DEF e
    <2>3. /\ c \in CallStates /\ KeepsWork(c, call[u]) /\ c.target = call[u].target /\ c.todo = call[u].todo
          /\ c.step = "event" /\ c.event = e
      BY <2>1, CallIs DEF CallStates, CallSteps, KeepsWork
    <2> HIDE DEF c
    <2> QED
      BY <2>1, <2>2, <2>3
  <1> QED
    BY <1>0 DEF CandidateMakes, FreshCandidate, CallAt

LEMMA BatchIs ==
  ASSUME NEW batch \in Batches
  PROVE  batch[1] \in Seq(DraftIds) /\ batch[2] \in SUBSET DraftIds
  <1>1. batch[1] \in LowSequences /\ batch[2] \in SUBSET DraftIds
    BY DEF Batches
  <1>2. \A d \in DraftIds : <<d>> \in Seq(DraftIds)
    OBVIOUS
  <1>3. \A d, e \in DraftIds : <<d, e>> \in Seq(DraftIds)
    OBVIOUS
  <1>4. \A p \in DraftIds \X DraftIds : p = <<p[1], p[2]>> /\ p[1] \in DraftIds /\ p[2] \in DraftIds
    OBVIOUS
  <1>5. DraftIds \X DraftIds \subseteq Seq(DraftIds)
    BY <1>3, <1>4
  <1> QED
    BY <1>1, <1>2, <1>5, EmptyIs DEF LowSequences

BatchMakes(u, low, high, c) ==
  /\ call[u].step = "extracting"
  /\ UNCHANGED <<record, overdue, txn, happened>>
  /\ GoOn(u, c) /\ KeepsWork(c, call[u]) /\ c.target = call[u].target
  /\ \/ low = <<>> /\ c.step = "importing" /\ c.todo = high /\ c.event = call[u].event
     \/ /\ low # <<>> /\ c.step = "event" /\ c.event.type = "BATCH_REVIEW_STARTED"
        /\ c.event.low = low /\ c.event.high = high /\ c.event.classification = "none"
        /\ c.todo = call[u].todo

LEMMA FreshBatchIs ==
  ASSUME ConversationTypeOK, NEW u \in Updates, NEW low \in Seq(DraftIds), NEW high \in SUBSET DraftIds,
         FreshBatch(u, low, high)
  PROVE  \E c \in CallStates : BatchMakes(u, low, high, c)
  <1>0. \E c \in CallStates :
           /\ GoOn(u, c) /\ KeepsWork(c, call[u]) /\ c.target = call[u].target
           /\ \/ low = <<>> /\ c.step = "importing" /\ c.todo = high /\ c.event = call[u].event
              \/ /\ low # <<>> /\ c.step = "event" /\ c.event.type = "BATCH_REVIEW_STARTED"
                 /\ c.event.low = low /\ c.event.high = high /\ c.event.classification = "none"
                 /\ c.todo = call[u].todo
    <2>1. CASE low = <<>>
      <3> DEFINE c == [call[u] EXCEPT !.step = "importing", !.todo = high]
      <3>1. GoOn(u, c)
        BY <2>1 DEF FreshBatch
      <3>2. /\ c \in CallStates /\ KeepsWork(c, call[u]) /\ c.target = call[u].target /\ c.todo = high
            /\ c.step = "importing" /\ c.event = call[u].event
        BY CallIs DEF CallStates, CallSteps, KeepsWork
      <3> HIDE DEF c
      <3> QED
        BY <2>1, <3>1, <3>2
    <2>2. CASE low # <<>>
      <3> DEFINE e == [EventOf("BATCH_REVIEW_STARTED") EXCEPT !.low = low, !.high = high]
                 c == [call[u] EXCEPT !.step = "event", !.event = e]
      <3>1. /\ e \in ConversationEvents /\ e.type = "BATCH_REVIEW_STARTED" /\ e.low = low
            /\ e.high = high /\ e.classification = "none"
        BY EventOfIs DEF ConversationEvents, EventTypes
      <3>2. GoOn(u, c)
        BY <2>2 DEF FreshBatch, Raise
      <3> HIDE DEF e
      <3>3. /\ c \in CallStates /\ KeepsWork(c, call[u]) /\ c.target = call[u].target /\ c.todo = call[u].todo
            /\ c.step = "event" /\ c.event = e
        BY <3>1, CallIs DEF CallStates, CallSteps, KeepsWork
      <3> HIDE DEF c
      <3> QED
        BY <2>2, <3>1, <3>2, <3>3
    <2> QED
      BY <2>1, <2>2
  <1> QED
    BY <1>0 DEF BatchMakes, FreshBatch, CallAt

\* What a step leaves of a call of which it only records that it took place.
SameWork(c, k) ==
  KeepsWork(c, k) /\ c.target = k.target /\ c.event = k.event /\ c.todo = k.todo

LEMMA NextStepIs ==
  ASSUME ConversationTypeOK, NEW u \in Updates, NEW s \in CallSteps,
         GoOn(u, [call[u] EXCEPT !.step = s])
  PROVE  \E c \in CallStates : GoOn(u, c) /\ c.step = s /\ SameWork(c, call[u])
  <1> DEFINE c == [call[u] EXCEPT !.step = s]
  <1>1. c \in CallStates /\ c.step = s /\ SameWork(c, call[u])
    BY CallIs DEF CallStates, SameWork, KeepsWork
  <1> HIDE DEF c
  <1>2. GoOn(u, c)
    BY DEF c
  <1> QED
    BY <1>1, <1>2

InterruptMakes(u, d, c) ==
  /\ call[u].step = "answering"
  /\ UNCHANGED <<record, overdue, txn, happened>>
  /\ drafts[d] = "none"
  /\ drafts' = [drafts EXCEPT ![d] = "pending"]
  /\ GoOn(u, c) /\ KeepsWork(c, call[u]) /\ c.step = "interrupting" /\ c.target = d
  /\ c.event = call[u].event /\ c.todo = call[u].todo

LEMMA InterruptsAnswerIs ==
  ASSUME ConversationTypeOK, NEW u \in Updates, NEW d \in DraftIds, InterruptsAnswer(u, d)
  PROVE  \E c \in CallStates : InterruptMakes(u, d, c)
  <1>0. \E c \in CallStates :
           /\ GoOn(u, c) /\ KeepsWork(c, call[u]) /\ c.step = "interrupting" /\ c.target = d
           /\ c.event = call[u].event /\ c.todo = call[u].todo
    <2> DEFINE c == [call[u] EXCEPT !.step = "interrupting", !.target = d]
    <2>1. GoOn(u, c)
      BY DEF InterruptsAnswer
    <2>2. /\ c \in CallStates /\ KeepsWork(c, call[u]) /\ c.step = "interrupting" /\ c.target = d
          /\ c.event = call[u].event /\ c.todo = call[u].todo
      BY CallIs DEF CallStates, CallSteps, KeepsWork
    <2> HIDE DEF c
    <2> QED
      BY <2>1, <2>2
  <1> QED
    BY <1>0 DEF InterruptMakes, InterruptsAnswer, CallAt

LEMMA RaiseIs ==
  ASSUME ConversationTypeOK, NEW u \in Updates, NEW e \in ConversationEvents, GoOn(u, Raise(u, e))
  PROVE  \E c \in CallStates :
           /\ GoOn(u, c) /\ KeepsWork(c, call[u]) /\ c.step = "event" /\ c.event = e
           /\ c.target = call[u].target /\ c.todo = call[u].todo
  <1> DEFINE c == [call[u] EXCEPT !.step = "event", !.event = e]
  <1>1. GoOn(u, c)
    BY DEF Raise
  <1>2. /\ c \in CallStates /\ KeepsWork(c, call[u]) /\ c.step = "event" /\ c.event = e
        /\ c.target = call[u].target /\ c.todo = call[u].todo
    BY CallIs DEF CallStates, CallSteps, KeepsWork
  <1> HIDE DEF c
  <1> QED
    BY <1>1, <1>2

AnswerMakes(u, c) ==
  /\ call[u].step = "answering"
  /\ UNCHANGED <<record, overdue, drafts, txn, happened>>
  /\ GoOn(u, c) /\ KeepsWork(c, call[u]) /\ c.step = "event"
  /\ c.event = EventOf("CLARIFICATION_ANSWER")
  /\ c.target = call[u].target /\ c.todo = call[u].todo

LEMMA AnswerUnresolvedIs ==
  ASSUME ConversationTypeOK, NEW u \in Updates, AnswerUnresolved(u)
  PROVE  \E c \in CallStates : AnswerMakes(u, c)
  <1>0. \E c \in CallStates :
           /\ GoOn(u, c) /\ KeepsWork(c, call[u]) /\ c.step = "event"
           /\ c.event = EventOf("CLARIFICATION_ANSWER")
           /\ c.target = call[u].target /\ c.todo = call[u].todo
    <2>1. EventOf("CLARIFICATION_ANSWER") \in ConversationEvents
      BY EventOfIs DEF EventTypes
    <2>2. GoOn(u, Raise(u, EventOf("CLARIFICATION_ANSWER")))
      BY DEF AnswerUnresolved
    <2> QED
      BY <2>1, <2>2, RaiseIs
  <1> QED
    BY <1>0 DEF AnswerMakes, AnswerUnresolved, CallAt

EditMakes(u, c) ==
  /\ call[u].step = "editing"
  /\ UNCHANGED <<record, overdue, drafts, txn, happened>>
  /\ GoOn(u, c) /\ KeepsWork(c, call[u]) /\ c.step = "event"
  /\ c.event.type = "EDIT_VALUE_PROVIDED" /\ c.event.classification = "none"
  /\ c.target = call[u].target /\ c.todo = call[u].todo

LEMMA EditsValueIs ==
  ASSUME ConversationTypeOK, NEW u \in Updates, NEW valid \in BOOLEAN, EditsValue(u, valid)
  PROVE  \E c \in CallStates : EditMakes(u, c)
  <1>0. \E c \in CallStates :
           /\ GoOn(u, c) /\ KeepsWork(c, call[u]) /\ c.step = "event"
           /\ c.event.type = "EDIT_VALUE_PROVIDED" /\ c.event.classification = "none"
           /\ c.target = call[u].target /\ c.todo = call[u].todo
    <2> DEFINE e == [EventOf("EDIT_VALUE_PROVIDED") EXCEPT !.holds = valid]
    <2>1. e \in ConversationEvents /\ e.type = "EDIT_VALUE_PROVIDED" /\ e.classification = "none"
      BY EventOfIs DEF EventTypes, ConversationEvents
    <2>2. GoOn(u, Raise(u, e))
      BY DEF EditsValue
    <2> HIDE DEF e
    <2> QED
      BY <2>1, <2>2, RaiseIs
  <1> QED
    BY <1>0 DEF EditMakes, EditsValue, CallAt

\* What a router's commit of a draft answers with.
RouterCommitMakes(u, c) ==
  /\ call[u].step \in {"answering", "interrupting", "confirming"}
  /\ UNCHANGED <<record, overdue, drafts, happened>>
  /\ txn' = CommittedNow(RouterDraft(u))
  /\ GoOn(u, c) /\ KeepsWork(c, call[u]) /\ c.step = "committed" /\ c.todo = call[u].todo
  /\ c.target = RouterDraft(u) /\ RouterDraft(u) \in DraftIds /\ c.event.classification = "none"
  /\ call[u].step = "answering" => c.event.type = "CLARIFICATION_ANSWER" /\ c.event.holds
  /\ call[u].step = "confirming" => c.event.type = "BATCH_ITEM_REVIEWED"
  /\ call[u].step = "interrupting" => c.event.type = "none"

LEMMA RouterCommitsIs ==
  ASSUME ConversationTypeOK, NEW u \in Updates, RouterCommits(u)
  PROVE  \E c \in CallStates : RouterCommitMakes(u, c)
  <1>0. \E c \in CallStates :
           /\ GoOn(u, c) /\ KeepsWork(c, call[u]) /\ c.step = "committed" /\ c.todo = call[u].todo
           /\ c.target = RouterDraft(u) /\ RouterDraft(u) \in DraftIds /\ c.event.classification = "none"
           /\ call[u].step = "answering" => c.event.type = "CLARIFICATION_ANSWER" /\ c.event.holds
           /\ call[u].step = "confirming" => c.event.type = "BATCH_ITEM_REVIEWED"
           /\ call[u].step = "interrupting" => c.event.type = "none"
    <2> DEFINE e == IF CallAt(u, "answering")
                    THEN [EventOf("CLARIFICATION_ANSWER") EXCEPT !.holds = TRUE]
                    ELSE IF CallAt(u, "confirming") THEN EventOf("BATCH_ITEM_REVIEWED")
                    ELSE NoEvent
               c == [call[u] EXCEPT !.step = "committed", !.target = RouterDraft(u), !.event = e]
    <2>1. call[u].step \in {"answering", "interrupting", "confirming"} /\ GoOn(u, c)
      BY DEF RouterCommits
    <2>2. /\ [EventOf("CLARIFICATION_ANSWER") EXCEPT !.holds = TRUE] \in ConversationEvents
          /\ [EventOf("CLARIFICATION_ANSWER") EXCEPT !.holds = TRUE].type = "CLARIFICATION_ANSWER"
          /\ [EventOf("CLARIFICATION_ANSWER") EXCEPT !.holds = TRUE].holds
          /\ [EventOf("CLARIFICATION_ANSWER") EXCEPT !.holds = TRUE].classification = "none"
      BY EventOfIs DEF EventTypes, ConversationEvents
    <2>3. /\ EventOf("BATCH_ITEM_REVIEWED") \in ConversationEvents
          /\ EventOf("BATCH_ITEM_REVIEWED").type = "BATCH_ITEM_REVIEWED"
          /\ EventOf("BATCH_ITEM_REVIEWED").classification = "none"
      BY EventOfIs DEF EventTypes
    <2>4. /\ e \in ConversationEvents /\ e.classification = "none"
          /\ call[u].step = "answering" => e.type = "CLARIFICATION_ANSWER" /\ e.holds
          /\ call[u].step = "confirming" => e.type = "BATCH_ITEM_REVIEWED"
          /\ call[u].step = "interrupting" => e.type = "none"
      BY <2>1, <2>2, <2>3, NoEventIs DEF CallAt
    <2> HIDE DEF e
    <2>5. RouterDraft(u) \in DraftIds
      BY CallIs DEF RouterDraft, CallStates, Records
    <2>6. /\ c \in CallStates /\ KeepsWork(c, call[u]) /\ c.step = "committed" /\ c.todo = call[u].todo
          /\ c.target = RouterDraft(u) /\ c.event = e
      BY <2>4, <2>5, CallIs DEF CallStates, CallSteps, KeepsWork
    <2> HIDE DEF c
    <2> QED
      BY <2>1, <2>4, <2>5, <2>6
  <1> QED
    BY <1>0 DEF RouterCommitMakes, RouterCommits, CallAt

RouterCompleteMakes(u, c) ==
  /\ call[u].step = "committed"
  /\ UNCHANGED <<record, overdue, txn, happened>>
  /\ drafts' = [drafts EXCEPT ![call[u].target] = "completed"]
  /\ GoOn(u, c)
  /\ \/ c = EndedCall /\ call[u].event.type = "none"
     \/ call[u].event.type # "none" /\ c.step = "event" /\ SameWork(c, call[u])

LEMMA RouterCompletesIs ==
  ASSUME ConversationTypeOK, NEW u \in Updates, RouterCompletes(u)
  PROVE  \E c \in CallStates : RouterCompleteMakes(u, c)
  <1>0. \E c \in CallStates :
           /\ GoOn(u, c)
           /\ \/ c = EndedCall /\ call[u].event.type = "none"
              \/ call[u].event.type # "none" /\ c.step = "event" /\ SameWork(c, call[u])
    <2>1. CASE call[u].event.type = "none"
      <3>1. GoOn(u, EndedCall)
        BY <2>1 DEF RouterCompletes
      <3> QED
        BY <2>1, <3>1, EndedCallIs
    <2>2. CASE call[u].event.type # "none"
      <3>1. GoOn(u, [call[u] EXCEPT !.step = "event"])
        BY <2>2 DEF RouterCompletes
      <3>2. "event" \in CallSteps
        BY DEF CallSteps
      <3> QED
        BY <2>2, <3>1, <3>2, NextStepIs
    <2> QED
      BY <2>1, <2>2
  <1> QED
    BY <1>0 DEF RouterCompleteMakes, RouterCompletes, CallAt

LEMMA ImportsIs ==
  ASSUME ConversationTypeOK, NEW u \in Updates, NEW d \in DraftIds, NEW committed \in BOOLEAN,
         Imports(u, d, committed)
  PROVE  \E c \in CallStates :
           /\ GoOn(u, c) /\ KeepsWork(c, call[u]) /\ c.step = "importing" /\ call[u].step = "importing"
           /\ c.target = call[u].target /\ c.event = call[u].event /\ c.todo = call[u].todo \ {d}
  <1> DEFINE c == [call[u] EXCEPT !.todo = call[u].todo \ {d}]
  <1>1. GoOn(u, c) /\ call[u].step = "importing"
    BY DEF Imports, CallAt, GoOn
  <1>2. call[u].todo \in SUBSET DraftIds
    BY CallIs DEF CallStates
  <1>3. /\ c \in CallStates /\ KeepsWork(c, call[u]) /\ c.step = call[u].step
        /\ c.target = call[u].target /\ c.event = call[u].event /\ c.todo = call[u].todo \ {d}
    BY <1>2, CallIs DEF CallStates, KeepsWork
  <1> HIDE DEF c
  <1> QED
    BY <1>1, <1>3

EngineSteps == {"committing", "completing", "reversing", "discarding", "writing"}

\* Only a resolved candidate is classified, and a review starts with an item to review.
EventStands(e) ==
  /\ e.type = "CANDIDATE_RESOLVED" <=> e.classification # "none"
  /\ e.type = "BATCH_REVIEW_STARTED" => e.low # <<>>

LEMMA FirstEffectIs ==
  ASSUME NEW base \in Records, NEW event \in ConversationEvents, EventStands(event)
  PROVE  /\ FirstEffect(base, event) \in {"committing", "reversing", "discarding", "writing"}
         /\ FirstEffect(base, event) \in CallSteps
         /\ FirstEffect(base, event) = "committing" <=> CommitRequested(event)
         /\ FirstEffect(base, event) = "reversing"
              => event.type = "CANCELLATION" /\ base.state = "AWAITING_CONFIRMATION"
         /\ FirstEffect(base, event) = "discarding"
              => event.type = "CANCELLATION" /\ base.state = "AWAITING_CLARIFICATION"
         /\ (FirstEffect(base, event) = "writing" /\ event.type = "CANCELLATION")
              => base.state \notin {"AWAITING_CONFIRMATION", "AWAITING_CLARIFICATION"}
  <1>1. CASE CommitRequested(event)
    <2>1. event.type # "CANCELLATION"
      BY <1>1 DEF CommitRequested, EventStands
    <2>2. FirstEffect(base, event) = "committing"
      BY <1>1, <2>1 DEF FirstEffect, CommitRequested
    <2> QED
      BY <1>1, <2>2 DEF CallSteps
  <1>2. CASE ~ CommitRequested(event) /\ event.type = "CANCELLATION" /\ base.state = "AWAITING_CONFIRMATION"
    <2>1. FirstEffect(base, event) = "reversing"
      BY <1>2 DEF FirstEffect, CommitRequested
    <2> QED
      BY <1>2, <2>1 DEF CallSteps
  <1>3. CASE ~ CommitRequested(event) /\ event.type = "CANCELLATION" /\ base.state = "AWAITING_CLARIFICATION"
    <2>1. FirstEffect(base, event) = "discarding"
      BY <1>3 DEF FirstEffect, CommitRequested
    <2> QED
      BY <1>3, <2>1 DEF CallSteps
  <1>4. CASE /\ ~ CommitRequested(event)
             /\ ~(event.type = "CANCELLATION" /\ base.state = "AWAITING_CONFIRMATION")
             /\ ~(event.type = "CANCELLATION" /\ base.state = "AWAITING_CLARIFICATION")
    <2>1. FirstEffect(base, event) = "writing"
      BY <1>4 DEF FirstEffect, CommitRequested
    <2> QED
      BY <1>4, <2>1 DEF CallSteps
  <1> QED
    BY <1>1, <1>2, <1>3, <1>4

EvaluateMakes(u, c) ==
  /\ call[u].step = "event"
  /\ UNCHANGED <<record, overdue, drafts, txn, happened>>
  /\ GoOn(u, c)
  /\ \/ c = EndedCall /\ ~ Allowed(Effective, call[u].event)
     \/ /\ Allowed(Effective, call[u].event)
        /\ c.step = FirstEffect(Effective, call[u].event)
        /\ c.base = Effective /\ c.next = NextState(Effective, call[u].event)
        /\ c.expected = record.version
        /\ c.kind = call[u].kind /\ c.target = call[u].target /\ c.seen = call[u].seen
        /\ c.event = call[u].event /\ c.todo = call[u].todo

LEMMA EvaluateIs ==
  ASSUME ConversationTypeOK, NEW u \in Updates, EventStands(call[u].event), Evaluate(u)
  PROVE  \E c \in CallStates : EvaluateMakes(u, c)
  <1>0. \E c \in CallStates :
           /\ GoOn(u, c)
           /\ \/ c = EndedCall /\ ~ Allowed(Effective, call[u].event)
              \/ /\ Allowed(Effective, call[u].event)
                 /\ c.step = FirstEffect(Effective, call[u].event)
                 /\ c.base = Effective /\ c.next = NextState(Effective, call[u].event)
                 /\ c.expected = record.version
                 /\ c.kind = call[u].kind /\ c.target = call[u].target /\ c.seen = call[u].seen
                 /\ c.event = call[u].event /\ c.todo = call[u].todo
    <2>1. CASE ~ Allowed(Effective, call[u].event)
      <3>1. GoOn(u, EndedCall)
        BY <2>1 DEF Evaluate
      <3> QED
        BY <2>1, <3>1, EndedCallIs
    <2>2. CASE Allowed(Effective, call[u].event)
      <3> DEFINE s == FirstEffect(Effective, call[u].event)
                 n == NextState(Effective, call[u].event)
                 c == [call[u] EXCEPT !.step = s, !.base = Effective, !.next = n, !.expected = Effective.version]
      <3>1. GoOn(u, c)
        BY <2>2 DEF Evaluate
      <3>2. call[u].event \in ConversationEvents /\ Effective \in Records /\ record.version \in Nat
            /\ Effective.version = record.version
        BY CallIs, EffectiveIs DEF CallStates, ConversationTypeOK, Records
      <3>3. s \in CallSteps /\ n \in Records
        BY <2>2, <3>2, FirstEffectIs, NextStateIs
      <3> HIDE DEF s, n
      <3>4. /\ c \in CallStates /\ c.step = s /\ c.base = Effective /\ c.next = n
            /\ c.expected = record.version
            /\ c.kind = call[u].kind /\ c.target = call[u].target /\ c.seen = call[u].seen
            /\ c.event = call[u].event /\ c.todo = call[u].todo
        BY <3>2, <3>3, CallIs DEF CallStates
      <3> HIDE DEF c
      <3> QED
        BY <2>2, <3>1, <3>4 DEF s, n
    <2> QED
      BY <2>1, <2>2
  <1> QED
    BY <1>0 DEF EvaluateMakes, Evaluate, CallAt

RefusedMakes(u, c) ==
  /\ call[u].step = "writing"
  /\ record.version # call[u].expected
  /\ UNCHANGED <<record, overdue, drafts, txn, happened>>
  /\ GoOn(u, c)
  /\ \/ c = EndedCall
     \/ /\ record.state = call[u].base.state /\ c.expected = record.version
        /\ c.step = "writing" /\ c.kind = call[u].kind /\ c.seen = call[u].seen
        /\ c.base = call[u].base /\ c.next = call[u].next /\ c.target = call[u].target
        /\ c.event = call[u].event /\ c.todo = call[u].todo

LEMMA WriteRefusedIs ==
  ASSUME ConversationTypeOK, NEW u \in Updates, WriteRefused(u)
  PROVE  \E c \in CallStates : RefusedMakes(u, c)
  <1>0. \E c \in CallStates :
           /\ GoOn(u, c)
           /\ \/ c = EndedCall
              \/ /\ record.state = call[u].base.state /\ c.expected = record.version
                 /\ c.step = "writing" /\ c.kind = call[u].kind /\ c.seen = call[u].seen
                 /\ c.base = call[u].base /\ c.next = call[u].next /\ c.target = call[u].target
                 /\ c.event = call[u].event /\ c.todo = call[u].todo
    <2>1. CASE ~ MayRetry(u)
      <3>1. GoOn(u, EndedCall)
        BY <2>1 DEF WriteRefused
      <3> QED
        BY <3>1, EndedCallIs
    <2>2. CASE MayRetry(u)
      <3> DEFINE c == [call[u] EXCEPT !.expected = record.version, !.tries = call[u].tries + 1]
      <3>1. GoOn(u, c) /\ call[u].step = "writing" /\ record.state = call[u].base.state
        BY <2>2 DEF WriteRefused, GoOn, MayRetry, CallAt
      <3>2. record.version \in Nat
        BY DEF ConversationTypeOK, Records
      <3>3. call[u].tries + 1 \in 0..MaxCasRetries
        BY <2>2, CallIs, ConversationAssumption DEF MayRetry, CallStates
      <3>4. /\ c \in CallStates /\ c.step = call[u].step /\ c.kind = call[u].kind /\ c.seen = call[u].seen
            /\ c.base = call[u].base /\ c.next = call[u].next /\ c.target = call[u].target
            /\ c.event = call[u].event /\ c.todo = call[u].todo /\ c.expected = record.version
        BY <3>2, <3>3, CallIs DEF CallStates
      <3> HIDE DEF c
      <3> QED
        BY <3>1, <3>4
    <2> QED
      BY <2>1, <2>2
  <1> QED
    BY <1>0 DEF RefusedMakes, WriteRefused, CallAt

LEMMA WritesIs ==
  ASSUME ConversationTypeOK, NEW u \in Updates, Writes(u)
  PROVE  /\ record' \in Records /\ record'.version = call[u].expected + 1 /\ call[u].expected = record.version
         /\ record'.state = call[u].next.state /\ record'.draft = call[u].next.draft
         /\ record'.low = call[u].next.low /\ record'.high = call[u].next.high
         /\ record'.index = call[u].next.index
  <1> DEFINE n == call[u].next
             v == call[u].expected + 1
  <1>1. record' = [n EXCEPT !.version = v] /\ call[u].expected = record.version
    BY DEF Writes
  <1>2. n \in Records /\ v \in Nat
    BY CallIs DEF CallStates
  <1> HIDE DEF v
  <1>3. n \in Records => /\ [n EXCEPT !.version = v] \in Records
                        /\ [n EXCEPT !.version = v].version = v
                        /\ [n EXCEPT !.version = v].state = n.state
                        /\ [n EXCEPT !.version = v].draft = n.draft
                        /\ [n EXCEPT !.version = v].low = n.low
                        /\ [n EXCEPT !.version = v].high = n.high
                        /\ [n EXCEPT !.version = v].index = n.index
    BY <1>2 DEF Records
  <1> QED
    BY <1>1, <1>2, <1>3 DEF v

(***************************************************************************)
(* What a call has read and is about stays with it, and next is what the   *)
(* guard table made of base and event.                                     *)
(***************************************************************************)
CallStands(c) ==
  /\ c.step \in {"new", "done"} =>
       c.event = NoEvent /\ c.seen = IdleState /\ c.kind = "none" /\ c.todo = {}
  /\ c.step \in {"extracting", "answering", "editing", "interrupting"} => c.kind = "text"
  /\ c.step = "answering" => c.seen.state = "AWAITING_CLARIFICATION"
  /\ c.step = "confirming" => c.kind = "batch_confirm"
  /\ c.event.type # "none" => c.step \in {"committed", "event"} \cup EngineSteps
  /\ c.event.type = "BATCH_ITEM_REVIEWED" => c.kind \in {"batch_confirm", "batch_skip"}
  /\ EventStands(c.event)
  /\ c.step = "committed" => \/ c.event.type \in {"none", "BATCH_ITEM_REVIEWED"}
                             \/ c.event.type = "CLARIFICATION_ANSWER" /\ c.event.holds
  /\ c.step \notin EngineSteps => Unevaluated(c)
  /\ c.step \in EngineSteps => Allowed(c.base, c.event) /\ c.next = NextState(c.base, c.event)
  /\ c.step \in {"committing", "completing"} => CommitRequested(c.event)
  /\ c.step = "reversing" => c.base.state = "AWAITING_CONFIRMATION"
  /\ c.step \in {"reversing", "discarding"} =>
       /\ c.event.type = "CANCELLATION"
       /\ c.base.state \in {"AWAITING_CONFIRMATION", "AWAITING_CLARIFICATION"}

CallsStand == \A u \in Updates : CallStands(call[u])

LEMMA EndedStands ==
  CallStands(NewCall) /\ CallStands(EndedCall)
  BY NewCallIs, EndedCallIs, NoEventIs
  DEF CallStands, EventStands, EngineSteps, Unevaluated, CommitRequested

LEMMA GoOnIs ==
  ASSUME ConversationTypeOK, NEW u \in Updates, NEW c \in CallStates, GoOn(u, c)
  PROVE  /\ call' \in [Updates -> CallStates] /\ call'[u] = c
         /\ \A v \in Updates : v # u => call'[v] = call[v]
  BY DEF ConversationTypeOK, GoOn

\* The steps at which a call only ends.
GivesUp(u) == NothingExtracted(u) \/ RouterCommitFails(u) \/ ImportsNoMore(u) \/ CommitFails(u)

LEMMA GivesUpIs ==
  ASSUME NEW u \in Updates, GivesUp(u)
  PROVE  /\ GoOn(u, EndedCall) /\ UNCHANGED <<record, overdue, drafts, txn, happened>>
         /\ call[u].step \in {"extracting", "answering", "interrupting", "confirming", "importing",
                              "committing"}
  BY DEF GivesUp, NothingExtracted, RouterCommitFails, ImportsNoMore, CommitFails, CallAt

\* The type of the state, but for the calls.
LEMMA SharedTypes ==
  ASSUME ConversationTypeOK, ConversationNext
  PROVE  /\ record' \in Records /\ overdue' \in BOOLEAN
         /\ drafts' \in [DraftIds -> {"none", "pending", "completed", "abandoned"}]
         /\ txn' \in [DraftIds -> {"none", "live", "deleted"}]
         /\ happened' \in SUBSET {"overlap", "crash", "drop"}
  <1>0. /\ record \in Records /\ overdue \in BOOLEAN
        /\ drafts \in [DraftIds -> {"none", "pending", "completed", "abandoned"}]
        /\ txn \in [DraftIds -> {"none", "live", "deleted"}]
        /\ happened \in SUBSET {"overlap", "crash", "drop"}
    BY DEF ConversationTypeOK
  <1>1. ASSUME NEW u \in Updates, CancelPhrase(u) \/ Text(u) \/ GivesUp(u)
                 \/ \E kind \in Kinds \ {"none", "text", "cancel"},
                    d \in DraftIds : TapButton(u, kind, d)
        PROVE  /\ UNCHANGED <<record, overdue, drafts, txn>>
               /\ happened' \in {happened, happened \cup {"overlap"}}
    BY <1>1, GivesUpIs DEF CancelPhrase, Text, TapButton, Noted
  <1>2. ASSUME NEW u \in Updates,
               AnswerUnresolved(u) \/ (\E valid \in BOOLEAN : EditsValue(u, valid))
                 \/ Evaluate(u) \/ WriteRefused(u)
        PROVE  UNCHANGED <<record, overdue, drafts, txn, happened>>
    BY <1>2 DEF AnswerUnresolved, EditsValue, Evaluate, WriteRefused
  <1>3. ASSUME NEW u \in Updates,
               \/ \E d \in DraftIds, c \in Classifications \ {"none"} : FreshCandidate(u, d, c)
               \/ \E batch \in Batches : FreshBatch(u, batch[1], batch[2])
               \/ \E d \in DraftIds : InterruptsAnswer(u, d)
               \/ RouterCompletes(u) \/ CompletesDraft(u) \/ Discards(u)
        PROVE  /\ UNCHANGED <<record, overdue, txn, happened>>
               /\ drafts' \in [DraftIds -> {"none", "pending", "completed", "abandoned"}]
    <2>1. CASE \E d \in DraftIds, c \in Classifications \ {"none"} : FreshCandidate(u, d, c)
      BY <1>0, <2>1 DEF FreshCandidate
    <2>2. CASE \E batch \in Batches : FreshBatch(u, batch[1], batch[2])
      BY <1>0, <2>2 DEF FreshBatch
    <2>3. CASE \E d \in DraftIds : InterruptsAnswer(u, d)
      BY <1>0, <2>3 DEF InterruptsAnswer
    <2>4. CASE RouterCompletes(u) \/ CompletesDraft(u)
      BY <1>0, <2>4 DEF RouterCompletes, CompletesDraft
    <2>5. CASE Discards(u)
      BY <1>0, <2>5 DEF Discards, StatusAfterCancel
    <2> QED
      BY <1>3, <2>1, <2>2, <2>3, <2>4, <2>5
  <1>4. ASSUME NEW u \in Updates, RouterCommits(u) \/ Commits(u) \/ Reverses(u)
        PROVE  /\ UNCHANGED <<record, overdue, drafts, happened>>
               /\ txn' \in [DraftIds -> {"none", "live", "deleted"}]
    BY <1>0, <1>4 DEF RouterCommits, Commits, Reverses, CommittedNow
  <1>5. ASSUME NEW u \in Updates, NEW d \in DraftIds, NEW committed \in BOOLEAN,
               Imports(u, d, committed)
        PROVE  /\ UNCHANGED <<record, overdue, happened>>
               /\ drafts' \in [DraftIds -> {"none", "pending", "completed", "abandoned"}]
               /\ txn' \in [DraftIds -> {"none", "live", "deleted"}]
    BY <1>0, <1>5 DEF Imports, CommittedNow
  <1>6. ASSUME NEW u \in Updates, Writes(u)
        PROVE  record' \in Records /\ overdue' \in BOOLEAN /\ UNCHANGED <<drafts, txn, happened>>
    BY <1>6, WritesIs DEF Writes
  <1>7. ASSUME NEW u \in Updates, CallDies(u)
        PROVE  UNCHANGED <<record, overdue, drafts, txn>> /\ happened' = happened \cup {"crash"}
    BY <1>7 DEF CallDies
  <1>8. TimePasses \/ Drops =>
          /\ record' \in Records /\ overdue' \in BOOLEAN /\ UNCHANGED <<drafts, txn>>
          /\ happened' \in {happened, happened \cup {"drop"}}
    BY <1>0, IdleStateIs DEF TimePasses, Drops
  <1>9. AllCallsDone => UNCHANGED <<record, overdue, drafts, txn, happened>>
    BY DEF AllCallsDone, conversationVars
  <1>10. CASE TimePasses \/ Drops \/ AllCallsDone
    BY <1>0, <1>8, <1>9, <1>10
  <1>11. ASSUME NEW u \in Updates, RouterNext(u) \/ EngineNext(u) \/ CallDies(u)
         PROVE  /\ record' \in Records /\ overdue' \in BOOLEAN
                /\ drafts' \in [DraftIds -> {"none", "pending", "completed", "abandoned"}]
                /\ txn' \in [DraftIds -> {"none", "live", "deleted"}]
                /\ happened' \in SUBSET {"overlap", "crash", "drop"}
    <2>1. CASE RouterNext(u)
      BY <1>0, <1>1, <1>2, <1>3, <1>4, <1>5, <2>1 DEF RouterNext, GivesUp
    <2>2. CASE EngineNext(u)
      BY <1>0, <1>1, <1>2, <1>3, <1>4, <1>6, <2>2 DEF EngineNext, GivesUp
    <2> QED
      BY <1>0, <1>7, <1>11, <2>1, <2>2
  <1> QED
    BY <1>10, <1>11 DEF ConversationNext

\* Where what a call holds after a step comes from.
Sources(u, c) ==
  /\ c.seen \in {IdleState, Effective, call[u].seen}
  /\ c.base \in {IdleState, Effective, call[u].base}
  /\ c.step \in EngineSteps =>
       /\ c.event = call[u].event /\ c.kind = call[u].kind /\ c.target = call[u].target
       /\ \/ call[u].step = "event" /\ c.base = Effective /\ c.expected = record.version
          \/ /\ call[u].step \in EngineSteps /\ c.base = call[u].base
             /\ \/ c.expected = call[u].expected
                \/ c.expected = record.version /\ record.state = call[u].base.state
  /\ (c.step \in {"completing", "writing"} /\ CommitRequested(c.event)) =>
       call[u].step \in {"completing", "writing"} \/ txn'[c.event.draft] # "none"
  /\ c.step \in {"confirming", "committed", "event"} =>
       \/ c.kind \in {"text", "cancel"}
       \/ call[u].step = "new" /\ FreshTap(c.kind, c.target, Effective)
       \/ /\ c.kind = call[u].kind /\ c.target = call[u].target
          /\ call[u].step \in {"confirming", "committed"}
  /\ c.event.type \in {"CANDIDATE_RESOLVED", "BATCH_REVIEW_STARTED"} =>
       c.event = call[u].event \/ call[u].step = "extracting"
  /\ c.step = "answering" => call[u].step = "new" /\ c.seen = Effective
  /\ c.step = "interrupting" => call[u].step = "answering"
  /\ c.step = "confirming" =>
       Effective.state = "AWAITING_MULTI_ITEM_REVIEW" /\ c.target = Effective.low[Effective.index]
  /\ c.step = "committed" =>
       c.target = RouterDraft(u) /\ call[u].step \in {"answering", "interrupting", "confirming"}
  /\ \/ c.todo \subseteq call[u].todo
     \/ c.todo = Effective.high /\ Effective.state = "AWAITING_MULTI_ITEM_REVIEW"
     \/ call[u].step = "extracting"
  /\ c.step = "event" => call[u].step \in {"new", "extracting", "answering", "editing", "committed"}
  /\ c.step = "committing" => call[u].step = "event"
  /\ c.step = "completing" => call[u].step = "committing"
  /\ c.step = "discarding" =>
       \/ call[u].step = "event" /\ c.base.state = "AWAITING_CLARIFICATION"
       \/ call[u].step = "reversing" /\ c.base = call[u].base /\ txn'[c.base.draft] = "deleted"

\* A call's step leaves a call that stands.
LEMMA CallGoesOn ==
  ASSUME ConversationTypeOK, CallsStand, NEW u \in Updates,
         RouterNext(u) \/ EngineNext(u) \/ CallDies(u)
  PROVE  \E c \in CallStates : GoOn(u, c) /\ CallStands(c) /\ Sources(u, c)
  <1>0. CallStands(call[u]) /\ call[u] \in CallStates
    BY CallIs DEF CallsStand
  <1> USE EndedStands, EndedCallIs
  <1>00. Sources(u, EndedCall)
    BY EndedCallIs, NoEventIs DEF Sources, EngineSteps
  <1>1. CASE CancelPhrase(u)
    <2>1. PICK c \in CallStates : CancelPhraseMakes(u, c)
      BY <1>1, CancelPhraseIs
    <2>2. CallStands(c)
      BY <2>1, EventOfIs DEF CancelPhraseMakes, CallStands, EventStands, EngineSteps, EventTypes
    <2>3. Sources(u, c)
      BY <2>1, EventOfIs DEF Sources, CancelPhraseMakes, EngineSteps, Unevaluated, EventTypes
    <2> QED
      BY <2>1, <2>2, <2>3 DEF CancelPhraseMakes
  <1>2. CASE Text(u)
    <2>1. PICK c \in CallStates : TextMakes(u, c)
      BY <1>2, TextIs
    <2>2. CallStands(c)
      BY <2>1, NoEventIs DEF TextMakes, CallStands, EventStands, EngineSteps
    <2>3. Sources(u, c)
      BY <1>00, <2>1, NoEventIs DEF Sources, TextMakes, EngineSteps, Unevaluated
    <2> QED
      BY <2>1, <2>2, <2>3 DEF TextMakes
  <1>3. ASSUME NEW kind \in Kinds \ {"none", "text", "cancel"}, NEW d \in DraftIds,
               TapButton(u, kind, d)
        PROVE  \E c \in CallStates : GoOn(u, c) /\ CallStands(c) /\ Sources(u, c)
    <2>1. PICK c \in CallStates : TapMakes(u, kind, d, c)
      BY <1>3, TapButtonIs
    <2>2. CallStands(c)
      BY <2>1, EventOfIs, NoEventIs DEF TapMakes, CallStands, EventStands, EngineSteps, EventTypes
    <2>3. Sources(u, c)
      BY <1>00, <2>1, EventOfIs, NoEventIs
      DEF Sources, TapMakes, EngineSteps, Unevaluated, EventTypes, FreshTap
    <2> QED
      BY <2>1, <2>2, <2>3 DEF TapMakes
  <1>4. CASE GivesUp(u)
    BY <1>00, <1>4, GivesUpIs
  <1>5. ASSUME NEW d \in DraftIds, NEW cl \in Classifications \ {"none"}, FreshCandidate(u, d, cl)
        PROVE  \E c \in CallStates : GoOn(u, c) /\ CallStands(c) /\ Sources(u, c)
    <2>1. PICK c \in CallStates : CandidateMakes(u, d, cl, c)
      BY <1>5, FreshCandidateIs
    <2>2. call[u].step = "extracting"
      BY <1>5 DEF FreshCandidate, CallAt
    <2>3. CallStands(c)
      BY <1>0, <2>1, <2>2 DEF CandidateMakes, CallStands, EventStands, EngineSteps, KeepsWork,
        Unevaluated
    <2>4. Sources(u, c)
      BY <1>0, <2>1, <2>2 DEF Sources, CandidateMakes, CallStands, EventStands, EngineSteps,
        KeepsWork, Unevaluated
    <2> QED
      BY <2>1, <2>3, <2>4 DEF CandidateMakes
  <1>6. ASSUME NEW low \in Seq(DraftIds), NEW high \in SUBSET DraftIds, FreshBatch(u, low, high)
        PROVE  \E c \in CallStates : GoOn(u, c) /\ CallStands(c) /\ Sources(u, c)
    <2>1. PICK c \in CallStates : BatchMakes(u, low, high, c)
      BY <1>6, FreshBatchIs
    <2>2. call[u].step = "extracting"
      BY <1>6 DEF FreshBatch, CallAt
    <2>3. CallStands(c)
      BY <1>0, <2>1, <2>2 DEF BatchMakes, CallStands, EventStands, EngineSteps, KeepsWork, Unevaluated
    <2>4. Sources(u, c)
      BY <1>0, <2>1, <2>2 DEF Sources, BatchMakes, CallStands, EventStands, EngineSteps, KeepsWork,
        Unevaluated
    <2> QED
      BY <2>1, <2>3, <2>4 DEF BatchMakes
  <1>7. ASSUME NEW d \in DraftIds, InterruptsAnswer(u, d)
        PROVE  \E c \in CallStates : GoOn(u, c) /\ CallStands(c) /\ Sources(u, c)
    <2>1. PICK c \in CallStates : InterruptMakes(u, d, c)
      BY <1>7, InterruptsAnswerIs
    <2>2. call[u].step = "answering"
      BY <1>7 DEF InterruptsAnswer, CallAt
    <2>3. CallStands(c)
      BY <1>0, <2>1, <2>2 DEF InterruptMakes, CallStands, EventStands, EngineSteps, KeepsWork,
        Unevaluated
    <2>4. Sources(u, c)
      BY <1>0, <2>1, <2>2 DEF Sources, InterruptMakes, CallStands, EventStands, EngineSteps,
        KeepsWork, Unevaluated
    <2> QED
      BY <2>1, <2>3, <2>4 DEF InterruptMakes
  <1>8. CASE AnswerUnresolved(u)
    <2>1. PICK c \in CallStates : AnswerMakes(u, c)
      BY <1>8, AnswerUnresolvedIs
    <2>2. call[u].step = "answering"
      BY <1>8 DEF AnswerUnresolved, CallAt
    <2>3. CallStands(c)
      BY <1>0, <2>1, <2>2, EventOfIs
      DEF AnswerMakes, CallStands, EventStands, EngineSteps, KeepsWork, Unevaluated, EventTypes
    <2>4. Sources(u, c)
      BY <1>0, <2>1, <2>2, EventOfIs
      DEF Sources, AnswerMakes, CallStands, EventStands, EngineSteps, KeepsWork, Unevaluated, EventTypes
    <2> QED
      BY <2>1, <2>3, <2>4 DEF AnswerMakes
  <1>9. ASSUME NEW valid \in BOOLEAN, EditsValue(u, valid)
        PROVE  \E c \in CallStates : GoOn(u, c) /\ CallStands(c) /\ Sources(u, c)
    <2>1. PICK c \in CallStates : EditMakes(u, c)
      BY <1>9, EditsValueIs
    <2>2. call[u].step = "editing"
      BY <1>9 DEF EditsValue, CallAt
    <2>3. CallStands(c)
      BY <1>0, <2>1, <2>2 DEF EditMakes, CallStands, EventStands, EngineSteps, KeepsWork, Unevaluated
    <2>4. Sources(u, c)
      BY <1>0, <2>1, <2>2 DEF Sources, EditMakes, CallStands, EventStands, EngineSteps, KeepsWork,
        Unevaluated
    <2> QED
      BY <2>1, <2>3, <2>4 DEF EditMakes
  <1>10. CASE RouterCommits(u)
    <2>1. PICK c \in CallStates : RouterCommitMakes(u, c)
      BY <1>10, RouterCommitsIs
    <2>2. call[u].step \in {"answering", "interrupting", "confirming"}
      BY <1>10 DEF RouterCommits
    <2>3. CallStands(c)
      BY <1>0, <2>1, <2>2 DEF RouterCommitMakes, CallStands, EventStands, EngineSteps, KeepsWork,
        Unevaluated
    <2>4. Sources(u, c)
      BY <1>0, <2>1, <2>2
      DEF Sources, RouterCommitMakes, CallStands, EngineSteps, KeepsWork, Unevaluated, RouterDraft,
      CallAt
    <2> QED
      BY <2>1, <2>3, <2>4 DEF RouterCommitMakes
  <1>11. CASE RouterCompletes(u)
    <2>1. PICK c \in CallStates : RouterCompleteMakes(u, c)
      BY <1>11, RouterCompletesIs
    <2>2. call[u].step = "committed"
      BY <1>11 DEF RouterCompletes, CallAt
    <2>3. CallStands(c)
      BY <1>0, <2>1, <2>2 DEF RouterCompleteMakes, CallStands, EventStands, EngineSteps, KeepsWork,
        SameWork, Unevaluated
    <2>4. Sources(u, c)
      BY <1>0, <2>1, <2>2 DEF Sources, RouterCompleteMakes, CallStands, EventStands, EngineSteps,
        KeepsWork, SameWork, Unevaluated
    <2> QED
      BY <2>1, <2>3, <2>4 DEF RouterCompleteMakes
  <1>12. ASSUME NEW d \in DraftIds, NEW committed \in BOOLEAN, Imports(u, d, committed)
         PROVE  \E c \in CallStates : GoOn(u, c) /\ CallStands(c) /\ Sources(u, c)
    <2>1. PICK c \in CallStates :
           /\ GoOn(u, c) /\ KeepsWork(c, call[u]) /\ c.step = "importing" /\ call[u].step = "importing"
           /\ c.target = call[u].target /\ c.event = call[u].event /\ c.todo = call[u].todo \ {d}
      BY <1>12, ImportsIs
    <2>2. CallStands(c)
      BY <1>0, <2>1 DEF CallStands, EventStands, EngineSteps, KeepsWork, Unevaluated
    <2>3. Sources(u, c)
      BY <1>0, <2>1 DEF Sources, CallStands, EventStands, EngineSteps, KeepsWork, Unevaluated
    <2> QED
      BY <2>1, <2>2, <2>3
  <1>13. CASE Evaluate(u)
    <2>0. EventStands(call[u].event) /\ call[u].event \in ConversationEvents /\ Effective \in Records
      BY <1>0, EffectiveIs DEF CallStands, CallStates
    <2>1. PICK c \in CallStates : EvaluateMakes(u, c)
      BY <1>13, <2>0, EvaluateIs
    <2>2. call[u].step = "event"
      BY <1>13 DEF Evaluate, CallAt
    <2> DEFINE s == FirstEffect(Effective, call[u].event)
    <2>3. /\ s \in {"committing", "reversing", "discarding", "writing"}
          /\ s = "committing" <=> CommitRequested(call[u].event)
          /\ s = "reversing" => call[u].event.type = "CANCELLATION" /\ Effective.state = "AWAITING_CONFIRMATION"
          /\ s = "discarding" => call[u].event.type = "CANCELLATION" /\ Effective.state = "AWAITING_CLARIFICATION"
      BY <2>0, FirstEffectIs
    <2> HIDE DEF s
    <2>4. CASE c = EndedCall
      BY <1>00, <2>1, <2>4 DEF EvaluateMakes
    <2>5. CASE c # EndedCall
      <3>1. /\ Allowed(c.base, c.event) /\ c.step = s /\ c.next = NextState(c.base, c.event)
            /\ c.kind = call[u].kind /\ c.event = call[u].event /\ c.base = Effective
            /\ c.target = call[u].target /\ c.seen = call[u].seen /\ c.expected = record.version
            /\ c.todo = call[u].todo
        BY <2>1, <2>5 DEF EvaluateMakes, s
      <3>2. CallStands(c)
        BY <1>0, <2>2, <2>3, <3>1 DEF CallStands, EngineSteps
      <3>3. Sources(u, c)
        BY <2>2, <2>3, <3>1 DEF Sources, EngineSteps
      <3> QED
        BY <2>1, <3>2, <3>3 DEF EvaluateMakes
    <2> QED
      BY <2>4, <2>5
  <1>14. ASSUME NEW s \in EngineSteps, GoOn(u, [call[u] EXCEPT !.step = s]),
                \/ call[u].step = "committing" /\ s = "completing"
                \/ call[u].step = "completing" /\ s = "writing"
                \/ call[u].step = "reversing" /\ s = "discarding"
                \/ call[u].step = "discarding" /\ s = "writing",
                s = "completing" => txn'[call[u].event.draft] # "none",
                s = "discarding" => txn'[call[u].base.draft] = "deleted"
         PROVE  \E c \in CallStates : GoOn(u, c) /\ CallStands(c) /\ Sources(u, c)
    <2>1. s \in CallSteps
      BY DEF EngineSteps, CallSteps
    <2>2. PICK c \in CallStates : GoOn(u, c) /\ c.step = s /\ SameWork(c, call[u])
      BY <1>14, <2>1, NextStepIs
    <2>3. CallStands(c)
      BY <1>0, <1>14, <2>2 DEF CallStands, EngineSteps, KeepsWork, SameWork
    <2>4. c.event.type # "CANCELLATION" \/ ~ CommitRequested(c.event)
      BY <2>3 DEF CallStands, EventStands, CommitRequested
    <2>5. Sources(u, c)
      BY <1>0, <1>14, <2>2, <2>4 DEF Sources, CallStands, EngineSteps, KeepsWork, SameWork
    <2> QED
      BY <2>2, <2>3, <2>5
  <1>15. CASE Commits(u) \/ CompletesDraft(u) \/ Reverses(u) \/ Discards(u)
    <2>1. {"completing", "writing", "discarding"} \subseteq EngineSteps
      BY DEF EngineSteps
    <2>2. call[u].event.draft \in DraftIds
      BY <1>0 DEF CallStates, ConversationEvents
    <2>3. Commits(u) => txn'[call[u].event.draft] # "none"
      BY <2>2 DEF Commits, CommittedNow, ConversationTypeOK
    <2>4. Reverses(u) => txn'[call[u].base.draft] = "deleted"
      <3>1. call[u].base.draft \in DraftIds
        BY <1>0 DEF CallStates, Records
      <3> QED
        BY <3>1 DEF Reverses, ConversationTypeOK
    <2> QED
      BY <1>14, <1>15, <2>1, <2>3, <2>4 DEF Commits, CompletesDraft, Reverses, Discards, CallAt
  <1>16. CASE Writes(u) \/ CallDies(u)
    BY <1>00, <1>16 DEF Writes, CallDies
  <1>17. CASE WriteRefused(u)
    <2>1. PICK c \in CallStates : RefusedMakes(u, c)
      BY <1>17, WriteRefusedIs
    <2>2. call[u].step = "writing"
      BY <1>17 DEF WriteRefused, CallAt
    <2>3. CallStands(c)
      BY <1>0, <2>1, <2>2 DEF RefusedMakes, CallStands, EngineSteps
    <2>4. Sources(u, c)
      BY <1>0, <2>1, <2>2 DEF Sources, RefusedMakes, CallStands, EngineSteps
    <2> QED
      BY <2>1, <2>3, <2>4 DEF RefusedMakes
  <1>18. CASE RouterNext(u)
    <2>1. ASSUME NEW batch \in Batches, FreshBatch(u, batch[1], batch[2])
          PROVE  \E c \in CallStates : GoOn(u, c) /\ CallStands(c) /\ Sources(u, c)
      BY <1>6, <2>1, BatchIs
    <2> QED
      BY <1>1, <1>2, <1>3, <1>4, <1>5, <1>7, <1>8, <1>9, <1>10, <1>11, <1>12, <1>18, <2>1
      DEF RouterNext, GivesUp
  <1>19. CASE EngineNext(u)
    BY <1>4, <1>13, <1>15, <1>16, <1>17, <1>19 DEF EngineNext, GivesUp
  <1> QED
    BY <1>16, <1>18, <1>19

LEMMA CallsStay ==
  ASSUME ConversationTypeOK, CallsStand, ConversationNext
  PROVE  ConversationTypeOK' /\ CallsStand'
  <1>1. ASSUME NEW u \in Updates, RouterNext(u) \/ EngineNext(u) \/ CallDies(u)
        PROVE  call' \in [Updates -> CallStates] /\ CallsStand'
    <2>1. PICK c \in CallStates : GoOn(u, c) /\ CallStands(c)
      BY <1>1, CallGoesOn
    <2>2. /\ call' \in [Updates -> CallStates] /\ call'[u] = c
          /\ \A v \in Updates : v # u => call'[v] = call[v]
      BY <2>1, GoOnIs
    <2>3. \A v \in Updates : CallStands(call'[v])
      BY <2>1, <2>2 DEF CallsStand
    <2> QED
      BY <2>2, <2>3 DEF CallsStand
  <1>2. ASSUME TimePasses \/ Drops \/ AllCallsDone
        PROVE  call' \in [Updates -> CallStates] /\ CallsStand'
    <2>1. call' = call
      BY <1>2 DEF TimePasses, Drops, AllCallsDone, conversationVars
    <2> QED
      BY <2>1 DEF CallsStand, ConversationTypeOK
  <1>3. call' \in [Updates -> CallStates] /\ CallsStand'
    BY <1>1, <1>2 DEF ConversationNext
  <1> QED
    BY <1>3, SharedTypes DEF ConversationTypeOK

(***************************************************************************)
(* What a step of a call leaves alone.                                     *)
(***************************************************************************)
LEMMA RecordChanges ==
  ASSUME NEW u \in Updates, RouterNext(u) \/ EngineNext(u) \/ CallDies(u)
  PROVE  UNCHANGED <<record, overdue>> \/ Writes(u)
  <1>1. RouterNext(u) => UNCHANGED <<record, overdue>>
    BY DEF RouterNext, CancelPhrase, Text, TapButton, NothingExtracted, FreshCandidate, FreshBatch,
           InterruptsAnswer, AnswerUnresolved, RouterCommits, RouterCommitFails, RouterCompletes,
           Imports,
           ImportsNoMore, EditsValue
  <1>2. EngineNext(u) => UNCHANGED <<record, overdue>> \/ Writes(u)
    BY DEF EngineNext, Evaluate, Commits, CommitFails, CompletesDraft, Reverses, Discards, WriteRefused
  <1> QED
    BY <1>1, <1>2 DEF CallDies

LEMMA StepStarts ==
  ASSUME NEW u \in Updates, RouterNext(u) \/ EngineNext(u) \/ CallDies(u)
  PROVE  \/ call[u].step = "new" /\ Noted
         \/ UnderWay(u) /\ happened' \in {happened, happened \cup {"crash"}}
  <1>1. RouterNext(u) =>
          \/ call[u].step = "new" /\ Noted
          \/ /\ call[u].step \in {"extracting", "answering", "interrupting", "confirming", "committed",
                                  "importing", "editing"}
             /\ happened' = happened
    BY DEF RouterNext, CancelPhrase, Text, TapButton, NothingExtracted, FreshCandidate, FreshBatch,
           InterruptsAnswer, AnswerUnresolved, RouterCommits, RouterCommitFails, RouterCompletes,
           Imports,
           ImportsNoMore, EditsValue, CallAt
  <1>2. EngineNext(u) => call[u].step \in {"event"} \cup EngineSteps /\ happened' = happened
    BY DEF EngineNext, Evaluate, Commits, CommitFails, CompletesDraft, Reverses, Discards, Writes,
           WriteRefused, CallAt, EngineSteps
  <1> QED
    BY <1>1, <1>2 DEF CallDies, UnderWay, EngineSteps

\* A committed draft stays committed, and what was deleted stays deleted.
LEMMA TransactionsStay ==
  ASSUME ConversationTypeOK, ConversationNext
  PROVE  \A d \in DraftIds : /\ txn[d] # "none" => txn'[d] # "none"
                             /\ txn[d] = "deleted" => txn'[d] = "deleted"
  <1>0. txn \in [DraftIds -> {"none", "live", "deleted"}]
    BY DEF ConversationTypeOK
  <1>1. ASSUME NEW u \in Updates, RouterNext(u)
        PROVE  \/ txn' = txn \/ txn' = CommittedNow(RouterDraft(u))
               \/ \E d \in DraftIds : txn' = CommittedNow(d)
    <2>1. ASSUME NEW d \in DraftIds, NEW committed \in BOOLEAN, Imports(u, d, committed)
          PROVE  txn' = txn \/ txn' = CommittedNow(d)
      BY <2>1 DEF Imports
    <2>2. (\E d \in DraftIds, committed \in BOOLEAN : Imports(u, d, committed))
            \/ RouterCommits(u) \/ txn' = txn
      BY <1>1
      DEF RouterNext, CancelPhrase, Text, TapButton, NothingExtracted, FreshCandidate, FreshBatch,
          InterruptsAnswer, AnswerUnresolved, RouterCommitFails, RouterCompletes, ImportsNoMore,
          EditsValue
    <2> QED
      BY <2>1, <2>2 DEF RouterCommits
  <1>2. ASSUME NEW u \in Updates, EngineNext(u)
        PROVE  \/ txn' = txn \/ txn' = CommittedNow(call[u].event.draft)
               \/ txn' = [txn EXCEPT ![call[u].base.draft] = "deleted"]
    BY <1>2
    DEF EngineNext, Evaluate, Commits, CommitFails, CompletesDraft, Reverses, Discards, Writes,
    WriteRefused
  <1>3. TimePasses \/ Drops \/ AllCallsDone \/ (\E u \in Updates : CallDies(u)) => txn' = txn
    BY DEF TimePasses, Drops, AllCallsDone, CallDies, conversationVars
  <1> QED
    BY <1>0, <1>1, <1>2, <1>3 DEF ConversationNext, CommittedNow

(***************************************************************************)
(* What a record refers to exists, in the state stored and in the states   *)
(* calls have read.                                                        *)
(***************************************************************************)
RecordUsable(r, t) ==
  /\ r.state \in {"AWAITING_CONFIRMATION", "AWAITING_EDIT_VALUE"} => t[r.draft] # "none"
  /\ r.state = "AWAITING_MULTI_ITEM_REVIEW" => r.index \in 1..Len(r.low)

CallUsable(c, t) ==
  /\ RecordUsable(c.seen, t)
  /\ RecordUsable(c.base, t)
  /\ (c.step \in {"completing", "writing"} /\ CommitRequested(c.event)) => t[c.event.draft] # "none"

ContextStands == RecordUsable(record, txn) /\ \A u \in Updates : CallUsable(call[u], txn)

\* The fields of a fresh record.
LEMMA ToHas ==
  ASSUME NEW state \in States
  PROVE  /\ To(state).state = state /\ To(state).index = 1
         /\ \A d \in DraftIds : /\ [To(state) EXCEPT !.draft = d].state = state
                                /\ [To(state) EXCEPT !.draft = d].draft = d
         /\ \A low \in Seq(DraftIds), high \in SUBSET DraftIds :
              /\ [To(state) EXCEPT !.low = low, !.high = high].state = state
              /\ [To(state) EXCEPT !.low = low, !.high = high].low = low
              /\ [To(state) EXCEPT !.low = low, !.high = high].high = high
              /\ [To(state) EXCEPT !.low = low, !.high = high].index = 1
  <1> DEFINE t == To(state)
  <1>1. t \in Records /\ t.state = state
    BY ToIs
  <1>2. t.index = 1
    BY IdleStateIs DEF To, IdleState
  <1> HIDE DEF t
  <1>3. \A d \in DraftIds : [t EXCEPT !.draft = d].state = state /\ [t EXCEPT !.draft = d].draft = d
    BY <1>1 DEF Records
  <1>4. ASSUME NEW low \in Seq(DraftIds), NEW high \in SUBSET DraftIds
        PROVE  /\ [t EXCEPT !.low = low, !.high = high].state = state
               /\ [t EXCEPT !.low = low, !.high = high].low = low
               /\ [t EXCEPT !.low = low, !.high = high].high = high
               /\ [t EXCEPT !.low = low, !.high = high].index = 1
    BY <1>1, <1>2 DEF Records
  <1> QED
    BY <1>1, <1>2, <1>3, <1>4 DEF t

\* What an event makes of a state, by the event.
LEMMA NextStateHas ==
  ASSUME NEW base \in Records, NEW event \in ConversationEvents, Allowed(base, event)
  PROVE  LET n == NextState(base, event) IN
         \/ n = To("IDLE")
         \/ /\ event.type = "CANCELLATION" /\ base.state = "AWAITING_MULTI_ITEM_REVIEW" /\ n.state = base.state
            /\ n.low = base.low /\ n.high = base.high /\ n.index = base.index
         \/ /\ event.type = "CANDIDATE_RESOLVED" /\ event.classification = "flagged_review"
            /\ n.state = "AWAITING_CONFIRMATION" /\ n.draft = event.draft
         \/ /\ event.type = "CANDIDATE_RESOLVED"
            /\ event.classification \notin {"auto_commit", "flagged_review"}
            /\ n.state = "AWAITING_CLARIFICATION" /\ n.draft = event.draft
         \/ /\ event.type = "CLARIFICATION_ANSWER" /\ ~ event.holds /\ base.state = "AWAITING_CLARIFICATION"
            /\ n.state = base.state /\ n.draft = base.draft
         \/ /\ event.type = "EDIT_REQUESTED" /\ base.state = "AWAITING_CONFIRMATION"
            /\ n.state = "AWAITING_EDIT_VALUE" /\ n.draft = base.draft
         \/ /\ event.type = "BATCH_REVIEW_STARTED" /\ n.state = "AWAITING_MULTI_ITEM_REVIEW"
            /\ n.low = event.low /\ n.high = event.high /\ n.index = 1
         \/ /\ event.type \in {"none", "BATCH_ITEM_REVIEWED"} /\ base.state = "AWAITING_MULTI_ITEM_REVIEW"
            /\ n.state = base.state /\ n.low = base.low /\ n.high = base.high
            /\ n.index = base.index + 1 /\ base.index + 1 <= Len(base.low)
  <1> DEFINE n == NextState(base, event)
  <1>00. /\ event.draft \in DraftIds /\ base.draft \in DraftIds
         /\ event.low \in Seq(DraftIds) /\ event.high \in SUBSET DraftIds
    BY DEF ConversationEvents, Records
  <1>0. {"IDLE", "AWAITING_CONFIRMATION", "AWAITING_CLARIFICATION", "AWAITING_EDIT_VALUE",
         "AWAITING_MULTI_ITEM_REVIEW"} \subseteq States
    BY DEF States
  <1>1. CASE event.type = "CANCELLATION"
    <2>1. n = IF base.state = "AWAITING_MULTI_ITEM_REVIEW" /\ ~ base.cancelAsked
              THEN [base EXCEPT !.cancelAsked = TRUE] ELSE To("IDLE")
      BY <1>1 DEF NextState, AfterCancellation
    <2> HIDE DEF n
    <2>2. LET m == [base EXCEPT !.cancelAsked = TRUE]
          IN m.state = base.state /\ m.low = base.low /\ m.high = base.high /\ m.index = base.index
      BY DEF Records
    <2> QED
      BY <1>1, <2>1, <2>2 DEF n
  <1>2. CASE event.type = "CANDIDATE_RESOLVED"
    <2>1. n = AfterCandidate(event)
      BY <1>2 DEF NextState
    <2> HIDE DEF n
    <2>2. CASE event.classification = "auto_commit"
      <3>1. n = To("IDLE")
        BY <2>1, <2>2 DEF AfterCandidate
      <3> QED
        BY <3>1 DEF n
    <2>3. CASE event.classification = "flagged_review"
      <3>1. n = [To("AWAITING_CONFIRMATION") EXCEPT !.draft = event.draft]
        BY <2>1, <2>3 DEF AfterCandidate
      <3>2. n.state = "AWAITING_CONFIRMATION" /\ n.draft = event.draft
        BY <1>00, <1>0, <3>1, ToHas
      <3> QED
        BY <1>2, <2>3, <3>2 DEF n
    <2>4. CASE event.classification \notin {"auto_commit", "flagged_review"}
      <3>1. n = [To("AWAITING_CLARIFICATION") EXCEPT !.draft = event.draft]
        BY <2>1, <2>4 DEF AfterCandidate
      <3>2. n.state = "AWAITING_CLARIFICATION" /\ n.draft = event.draft
        BY <1>00, <1>0, <3>1, ToHas
      <3> QED
        BY <1>2, <2>4, <3>2 DEF n
    <2> QED
      BY <2>2, <2>3, <2>4
  <1>3. CASE event.type = "CLARIFICATION_ANSWER"
    <2>1. /\ base.state = "AWAITING_CLARIFICATION"
          /\ n = IF event.holds THEN To("IDLE")
                 ELSE IF base.retries < MaxRetries THEN [base EXCEPT !.retries = base.retries + 1] ELSE base
      BY <1>3 DEF NextState, AfterAnswer, Allowed
    <2> HIDE DEF n
    <2>2. \A k : [base EXCEPT !.retries = k].state = base.state /\ [base EXCEPT !.retries = k].draft = base.draft
      BY DEF Records
    <2>3. n = To("IDLE") \/ (~ event.holds /\ n.state = base.state /\ n.draft = base.draft)
      BY <2>1, <2>2
    <2> QED
      BY <1>3, <2>1, <2>3 DEF n
  <1>4. CASE event.type = "EDIT_REQUESTED"
    <2>1. n = [To("AWAITING_EDIT_VALUE") EXCEPT !.draft = base.draft] /\ base.state = "AWAITING_CONFIRMATION"
      BY <1>4 DEF NextState, Allowed
    <2> HIDE DEF n
    <2>2. n.state = "AWAITING_EDIT_VALUE" /\ n.draft = base.draft
      BY <1>00, <1>0, <2>1, ToHas
    <2> QED
      BY <1>4, <2>1, <2>2 DEF n
  <1>5. CASE event.type = "EDIT_VALUE_PROVIDED"
    BY <1>5 DEF NextState
  <1>6. CASE event.type = "BATCH_REVIEW_STARTED"
    <2>1. n = [To("AWAITING_MULTI_ITEM_REVIEW") EXCEPT !.low = event.low, !.high = event.high]
      BY <1>6 DEF NextState
    <2> HIDE DEF n
    <2>2. n.state = "AWAITING_MULTI_ITEM_REVIEW" /\ n.low = event.low /\ n.high = event.high /\ n.index = 1
      BY <1>00, <1>0, <2>1, ToHas
    <2> QED
      BY <1>6, <2>2 DEF n
  <1>7. CASE event.type \in {"none", "BATCH_ITEM_REVIEWED"}
    <2>1. /\ base.state = "AWAITING_MULTI_ITEM_REVIEW"
          /\ n = IF base.index + 1 > Len(base.low) THEN To("IDLE")
                 ELSE [base EXCEPT !.index = base.index + 1, !.cancelAsked = FALSE]
      BY <1>7 DEF NextState, AfterItem, Allowed
    <2> HIDE DEF n
    <2>2. \A k : LET m == [base EXCEPT !.index = k, !.cancelAsked = FALSE]
                 IN m.state = base.state /\ m.low = base.low /\ m.high = base.high /\ m.index = k
      BY DEF Records
    <2>3. base.index + 1 \in Nat /\ Len(base.low) \in Nat
      BY DEF Records
    <2>4. \/ n = To("IDLE")
          \/ /\ n.state = base.state /\ n.low = base.low /\ n.high = base.high
             /\ n.index = base.index + 1 /\ base.index + 1 <= Len(base.low)
      BY <2>1, <2>2, <2>3
    <2> QED
      BY <1>7, <2>1, <2>4 DEF n
  <1> QED
    BY <1>1, <1>2, <1>3, <1>4, <1>5, <1>6, <1>7 DEF ConversationEvents, EventTypes

LEMMA NextStateUsable ==
  ASSUME NEW base \in Records, NEW event \in ConversationEvents, NEW t, EventStands(event),
         Allowed(base, event), RecordUsable(base, t),
         CommitRequested(event) => t[event.draft] # "none"
  PROVE  RecordUsable(NextState(base, event), t)
  <1>1. To("IDLE").state = "IDLE"
    BY ToIs DEF States
  <1>2. event.type = "BATCH_REVIEW_STARTED" => 1 \in 1..Len(event.low)
    BY DEF EventStands, ConversationEvents
  <1>3. base.index \in Nat /\ Len(base.low) \in Nat
    BY DEF Records
  <1> QED
    BY <1>1, <1>2, <1>3, NextStateHas DEF RecordUsable, CommitRequested

LEMMA ContextStays ==
  ASSUME ConversationTypeOK, CallsStand, ContextStands, ConversationNext
  PROVE  ContextStands'
  <1>0. /\ record \in Records /\ \A u \in Updates : call[u] \in CallStates
        /\ \A d \in DraftIds : txn[d] # "none" => txn'[d] # "none"
    BY CallIs, TransactionsStay DEF ConversationTypeOK
  <1>1. ASSUME NEW r \in Records, RecordUsable(r, txn)
        PROVE  RecordUsable(r, txn')
    BY <1>0, <1>1 DEF RecordUsable, Records
  <1>2. ASSUME NEW c \in CallStates, CallUsable(c, txn)
        PROVE  CallUsable(c, txn')
    <2>1. c.seen \in Records /\ c.base \in Records /\ c.event.draft \in DraftIds
      BY DEF CallStates, ConversationEvents
    <2> QED
      BY <1>0, <1>1, <1>2, <2>1 DEF CallUsable
  <1>3. RecordUsable(IdleState, txn') /\ RecordUsable(Effective, txn')
    <2>1. RecordUsable(IdleState, txn')
      BY IdleStateIs DEF RecordUsable
    <2>2. RecordUsable(Effective, txn')
      BY <1>0, <1>1, EffectiveIs DEF RecordUsable, ContextStands
    <2> QED
      BY <2>1, <2>2
  <1>4. ASSUME NEW u \in Updates, RouterNext(u) \/ EngineNext(u) \/ CallDies(u)
        PROVE  ContextStands'
    <2>1. PICK c \in CallStates : GoOn(u, c) /\ CallStands(c) /\ Sources(u, c)
      BY <1>4, CallGoesOn
    <2>2. /\ call'[u] = c
          /\ \A v \in Updates : v # u => call'[v] = call[v]
      BY <2>1, GoOnIs
    <2>3. CallUsable(call[u], txn')
      BY <1>0, <1>2 DEF ContextStands
    <2>4. RecordUsable(c.seen, txn') /\ RecordUsable(c.base, txn')
      BY <1>3, <2>1, <2>3 DEF Sources, CallUsable
    <2>5. (c.step \in {"completing", "writing"} /\ CommitRequested(c.event)) => txn'[c.event.draft] # "none"
      BY <2>1, <2>3 DEF Sources, CallUsable, EngineSteps
    <2>6. \A v \in Updates : CallUsable(call'[v], txn')
      BY <1>0, <1>2, <2>2, <2>4, <2>5 DEF ContextStands, CallUsable
    <2>7. RecordUsable(record', txn')
      <3>1. CASE UNCHANGED <<record, overdue>>
        BY <1>0, <1>1, <3>1 DEF ContextStands
      <3>2. CASE Writes(u)
        <4>1. /\ call[u].step = "writing" /\ call[u].next = NextState(call[u].base, call[u].event)
              /\ Allowed(call[u].base, call[u].event) /\ EventStands(call[u].event)
          BY <3>2 DEF Writes, CallAt, CallsStand, CallStands, EngineSteps
        <4>2. RecordUsable(call[u].next, txn')
          BY <1>0, <2>3, <4>1, NextStateUsable DEF CallUsable, CallStates
        <4>3. /\ record'.state = call[u].next.state /\ record'.draft = call[u].next.draft
              /\ record'.low = call[u].next.low /\ record'.index = call[u].next.index
          BY <3>2, WritesIs
        <4> QED
          BY <4>2, <4>3 DEF RecordUsable
      <3> QED
        BY <1>4, <3>1, <3>2, RecordChanges
    <2> QED
      BY <2>6, <2>7 DEF ContextStands
  <1>5. CASE TimePasses \/ Drops \/ AllCallsDone
    <2>1. call' = call /\ record' \in {record, IdleState}
      BY <1>5 DEF TimePasses, Drops, AllCallsDone, conversationVars
    <2> QED
      BY <1>0, <1>1, <1>2, <1>3, <2>1 DEF ContextStands
  <1> QED
    BY <1>4, <1>5 DEF ConversationNext

(***************************************************************************)
(* A call that is to write expects a version at which the record has the   *)
(* state its event was evaluated in.                                       *)
(***************************************************************************)
ExpectsWhatItSaw(c) ==
  c.step \in EngineSteps =>
    /\ c.expected <= record.version
    /\ c.expected = record.version =>
         record.state = c.base.state \/ (c.base.state = "IDLE" /\ overdue)

VersionStands == "drop" \notin happened => \A u \in Updates : ExpectsWhatItSaw(call[u])

LEMMA VersionStays ==
  ASSUME ConversationTypeOK, CallsStand, VersionStands, ConversationNext
  PROVE  VersionStands'
  <1>0. record \in Records /\ record.version \in Nat /\ \A u \in Updates : call[u].expected \in Nat
    BY CallIs DEF ConversationTypeOK, Records, CallStates
  <1>1. ASSUME NEW u \in Updates, RouterNext(u) \/ EngineNext(u) \/ CallDies(u), "drop" \notin happened'
        PROVE  \A v \in Updates : ExpectsWhatItSaw(call[v])'
    <2>1. PICK c \in CallStates : GoOn(u, c) /\ CallStands(c) /\ Sources(u, c)
      BY <1>1, CallGoesOn
    <2>2. /\ call'[u] = c
          /\ \A v \in Updates : v # u => call'[v] = call[v]
      BY <2>1, GoOnIs
    <2>3. \A v \in Updates : ExpectsWhatItSaw(call[v])
      BY <1>1, StepStarts DEF VersionStands, Noted
    <2>4. CASE UNCHANGED <<record, overdue>>
      <3>1. c.step \in EngineSteps => /\ c.expected <= record.version
                                      /\ c.expected = record.version =>
                                           record.state = c.base.state \/ (c.base.state = "IDLE" /\ overdue)
        BY <1>0, <2>1, <2>3, EffectiveIs DEF Sources, ExpectsWhatItSaw
      <3> QED
        BY <2>2, <2>3, <2>4, <3>1 DEF ExpectsWhatItSaw
    <2>5. CASE Writes(u)
      <3>1. c.step = "done"
        BY <2>2, <2>5, GoOnIs, EndedCallIs DEF Writes
      <3>2. record'.version = record.version + 1
        BY <2>5, WritesIs
      <3> QED
        BY <1>0, <2>2, <2>3, <3>1, <3>2 DEF ExpectsWhatItSaw, EngineSteps
    <2> QED
      BY <1>1, <2>4, <2>5, RecordChanges
  <1>2. CASE TimePasses
    BY <1>2 DEF TimePasses, VersionStands, ExpectsWhatItSaw
  <1>3. CASE Drops
    BY <1>3 DEF Drops, VersionStands
  <1>4. CASE AllCallsDone
    BY <1>4 DEF AllCallsDone, conversationVars, VersionStands, ExpectsWhatItSaw
  <1> QED
    BY <1>1, <1>2, <1>3, <1>4 DEF ConversationNext, VersionStands

(***************************************************************************)
(* As long as calls come one after the other, a call's record is the one   *)
(* stored until it writes, or Redis has dropped the key.                   *)
(***************************************************************************)
\* What a tapped button shows is what a state has pending.
Shows(c, r) ==
  /\ (c.kind = "undo" /\ r.state = "AWAITING_CONFIRMATION") => r.draft = c.target
  /\ (c.kind \in {"batch_confirm", "batch_skip"} /\ r.state = "AWAITING_MULTI_ITEM_REVIEW")
       => r.low[r.index] = c.target

Keeps(c) ==
  /\ c.step \in {"confirming", "committed", "event"} => Shows(c, Effective)
  /\ c.step \in EngineSteps =>
       /\ Shows(c, c.base)
       /\ c.base.state # "IDLE" => \/ record = c.base /\ c.expected = record.version
                                   \/ record = IdleState /\ c.expected > 0

AloneStands ==
  /\ record.state # "IDLE" => record.version > 0
  /\ "overlap" \notin happened =>
       /\ \A u, v \in Updates : UnderWay(u) /\ UnderWay(v) => u = v
       /\ \A u \in Updates : Keeps(call[u])

LEMMA AloneStep ==
  ASSUME AloneStands, NEW u \in Updates, RouterNext(u) \/ EngineNext(u) \/ CallDies(u),
         "overlap" \notin happened'
  PROVE  "overlap" \notin happened /\ \A v \in Updates : v # u => ~ UnderWay(v)
  BY StepStarts DEF AloneStands, Noted

LEMMA EffectiveStays ==
  ASSUME UNCHANGED <<record, overdue>>
  PROVE  Effective' = Effective
  BY DEF Effective

LEMMA AloneStays ==
  ASSUME ConversationTypeOK, CallsStand, AloneStands, ConversationNext
  PROVE  AloneStands'
  <1>0. record \in Records /\ record.version \in Nat /\ \A u \in Updates : call[u].expected \in Nat
    BY CallIs DEF ConversationTypeOK, Records, CallStates
  <1>1. ASSUME NEW u \in Updates, RouterNext(u) \/ EngineNext(u) \/ CallDies(u)
        PROVE  AloneStands'
    <2>1. PICK c \in CallStates : GoOn(u, c) /\ CallStands(c) /\ Sources(u, c)
      BY <1>1, CallGoesOn
    <2>2. /\ call'[u] = c
          /\ \A v \in Updates : v # u => call'[v] = call[v]
      BY <2>1, GoOnIs
    <2>3. record'.state # "IDLE" => record'.version > 0
      BY <1>0, <1>1, RecordChanges, WritesIs DEF AloneStands
    <2>4. ASSUME "overlap" \notin happened'
          PROVE  /\ \A v, w \in Updates : UnderWay(v)' /\ UnderWay(w)' => v = w
                 /\ \A v \in Updates : Keeps(call[v])'
      <3>1. "overlap" \notin happened /\ \A v \in Updates : v # u => ~ UnderWay(v)
        BY <1>1, <2>4, AloneStep
      <3>2. \A v \in Updates : v # u => ~ UnderWay(v)' /\ Keeps(call[v])'
        BY <2>2, <3>1 DEF UnderWay, Keeps, EngineSteps
      <3>3. Keeps(call[u])'
        <4>1. CASE Writes(u)
          <5>1. c.step = "done"
            BY <2>2, <4>1, GoOnIs, EndedCallIs DEF Writes
          <5> QED
            BY <2>2, <5>1 DEF Keeps, EngineSteps
        <4>2. CASE UNCHANGED <<record, overdue>>
          <5>0. Keeps(call[u])
            BY <3>1 DEF AloneStands
          <5>1. c.step \in {"confirming", "committed", "event"} => Shows(c, Effective)
            BY <2>1, <5>0 DEF Sources, Keeps, Shows, FreshTap
          <5>2. c.step \in EngineSteps => Shows(c, c.base)
            BY <2>1, <5>0 DEF Sources, Keeps, Shows
          <5>3. (c.step \in EngineSteps /\ c.base.state # "IDLE") =>
                  \/ record = c.base /\ c.expected = record.version
                  \/ record = IdleState /\ c.expected > 0
            BY <1>0, <2>1, <5>0, EffectiveIs, IdleStateIs DEF Sources, Keeps
          <5> QED
            BY <2>2, <4>2, <5>1, <5>2, <5>3, EffectiveStays DEF Keeps
        <4> QED
          BY <1>1, <4>1, <4>2, RecordChanges
      <3> QED
        BY <3>2, <3>3
    <2> QED
      BY <2>3, <2>4 DEF AloneStands
  <1>2. CASE TimePasses
    <2>1. Effective'.state = "IDLE"
      <3>1. overdue' = TRUE /\ record' = record /\ call' = call /\ happened' = happened
        BY <1>2 DEF TimePasses
      <3>2. Effective' = [IdleState EXCEPT !.version = record.version]
        BY <3>1 DEF Effective
      <3> QED
        BY <1>0, <3>2, IdleStateIs DEF Records
    <2>2. record' = record /\ call' = call /\ happened' = happened
      BY <1>2 DEF TimePasses
    <2>3. ASSUME NEW c, Keeps(c)
          PROVE  /\ c.step \in {"confirming", "committed", "event"} => Shows(c, Effective')
                 /\ c.step \in EngineSteps =>
                       /\ Shows(c, c.base)
                       /\ c.base.state # "IDLE" => \/ record = c.base /\ c.expected = record.version
                                                   \/ record = IdleState /\ c.expected > 0
      BY <2>1, <2>3 DEF Keeps, Shows
    <2>4. \A u \in Updates : Keeps(call[u]) => Keeps(call[u])'
      BY <2>2, <2>3 DEF Keeps
    <2> QED
      BY <2>2, <2>4 DEF AloneStands, UnderWay
  <1>3. CASE Drops
    <2>1. record' = IdleState /\ overdue' = FALSE /\ call' = call /\ happened' = happened \cup {"drop"}
      BY <1>3 DEF Drops
    <2>2. Effective'.state = "IDLE" /\ record'.state = "IDLE"
      BY <2>1, IdleStateIs DEF Effective
    <2>3. \A u \in Updates : Keeps(call[u]) => Keeps(call[u])'
      BY <1>0, <2>1, <2>2 DEF Keeps, Shows, AloneStands
    <2> QED
      BY <2>1, <2>2, <2>3 DEF AloneStands, UnderWay
  <1>4. CASE AllCallsDone
    BY <1>4 DEF AllCallsDone, conversationVars, AloneStands, UnderWay, Keeps, Effective
  <1> QED
    BY <1>1, <1>2, <1>3, <1>4 DEF ConversationNext

(***************************************************************************)
(* A draft keeps the role in which it was made: its record is committed on *)
(* the spot, or to be confirmed, or to be clarified, or is one of a batch, *)
(* or comes between a clarification and its answer.                        *)
(***************************************************************************)
Roles == {"none", "candidate", "confirm", "clarify", "batch", "interrupt"}

RoleOf(classification) ==
  IF classification = "auto_commit" THEN "candidate"
  ELSE IF classification = "flagged_review" THEN "confirm" ELSE "clarify"

ListHasRole(low, high, role) ==
  (\A i \in 1..Len(low) : role[low[i]] = "batch") /\ \A d \in high : role[d] = "batch"

HasRole(r, role) ==
  /\ r.state \in {"AWAITING_CONFIRMATION", "AWAITING_EDIT_VALUE"} => role[r.draft] = "confirm"
  /\ r.state = "AWAITING_CLARIFICATION" => role[r.draft] = "clarify"
  /\ r.state = "AWAITING_MULTI_ITEM_REVIEW" => ListHasRole(r.low, r.high, role)

EventHasRole(e, role) ==
  /\ e.type = "CANDIDATE_RESOLVED" => role[e.draft] = RoleOf(e.classification)
  /\ e.type = "BATCH_REVIEW_STARTED" => ListHasRole(e.low, e.high, role)

CallHasRole(c, role) ==
  /\ HasRole(c.seen, role) /\ HasRole(c.base, role) /\ HasRole(c.next, role)
  /\ EventHasRole(c.event, role)
  /\ c.step = "interrupting" => role[c.target] = "interrupt"
  /\ c.step = "confirming" => role[c.target] = "batch"
  /\ c.step = "committed" => role[c.target] \in {"clarify", "interrupt", "batch"}
  /\ \A d \in c.todo : role[d] = "batch"

\* Only a record to be confirmed is undone, and then its draft is abandoned.
DraftFits(status, t, role) ==
  /\ status = "none" <=> role = "none"
  /\ status = "none" => t = "none"
  /\ t = "deleted" => role = "confirm"
  /\ status = "abandoned" => role \in {"clarify", "confirm"}
  /\ (status = "abandoned" /\ role = "confirm") => t = "deleted"

Undid(c, t) ==
  (c.step = "discarding" /\ c.base.state = "AWAITING_CONFIRMATION") => t[c.base.draft] = "deleted"

RolesFit(role) ==
  /\ \A d \in DraftIds : DraftFits(drafts[d], txn[d], role[d])
  /\ HasRole(record, role)
  /\ \A u \in Updates : CallHasRole(call[u], role) /\ Undid(call[u], txn)

RolesStand == \E role \in [DraftIds -> Roles] : RolesFit(role)

Extends(role, wider) == \A d \in DraftIds : role[d] # "none" => wider[d] = role[d]

LEMMA HasRoleExtends ==
  ASSUME NEW role \in [DraftIds -> Roles], NEW wider \in [DraftIds -> Roles], Extends(role, wider)
  PROVE  /\ \A r \in Records : HasRole(r, role) => HasRole(r, wider)
         /\ \A e \in ConversationEvents : EventHasRole(e, role) => EventHasRole(e, wider)
         /\ \A c \in CallStates : CallHasRole(c, role) => CallHasRole(c, wider)
  <1>1. ASSUME NEW low \in Seq(DraftIds), NEW high \in SUBSET DraftIds, ListHasRole(low, high, role)
        PROVE  ListHasRole(low, high, wider)
    BY <1>1 DEF ListHasRole, Extends
  <1>2. \A r \in Records : HasRole(r, role) => HasRole(r, wider)
    BY <1>1 DEF HasRole, Records, Extends
  <1>3. \A e \in ConversationEvents : EventHasRole(e, role) => EventHasRole(e, wider)
    BY <1>1 DEF EventHasRole, ConversationEvents, Extends, RoleOf
  <1>4. \A c \in CallStates : CallHasRole(c, role) => CallHasRole(c, wider)
    <2> TAKE c \in CallStates
    <2>1. /\ c.seen \in Records /\ c.base \in Records /\ c.next \in Records /\ c.event \in ConversationEvents
          /\ c.target \in DraftIds /\ c.todo \in SUBSET DraftIds
      BY DEF CallStates
    <2> QED
      BY <1>2, <1>3, <2>1 DEF CallHasRole, Extends
  <1> QED
    BY <1>2, <1>3, <1>4

LEMMA IdleHasRole ==
  ASSUME NEW role
  PROVE  HasRole(IdleState, role) /\ HasRole(To("IDLE"), role)
  BY IdleStateIs, ToIs DEF HasRole, States

LEMMA NextStateHasRole ==
  ASSUME NEW base \in Records, NEW event \in ConversationEvents, NEW role, EventStands(event),
         Allowed(base, event), HasRole(base, role), EventHasRole(event, role)
  PROVE  HasRole(NextState(base, event), role)
  <1> DEFINE n == NextState(base, event)
  <1>1. n = To("IDLE") \/ n # To("IDLE")
    OBVIOUS
  <1>2. CASE n = To("IDLE")
    BY <1>2, IdleHasRole
  <1>3. CASE n # To("IDLE")
    BY <1>3, NextStateHas DEF HasRole, EventHasRole, EventStands, RoleOf
  <1> QED
    BY <1>2, <1>3

\* The roles a call's step leaves: drafts may have been given one.
LEMMA RoleOfCall ==
  ASSUME ConversationTypeOK, CallsStand, ContextStands,
         NEW role \in [DraftIds -> Roles], NEW wider \in [DraftIds -> Roles],
         RolesFit(role), Extends(role, wider),
         NEW u \in Updates, NEW c \in CallStates, CallStands(c), Sources(u, c),
         call[u].step = "extracting" => EventHasRole(c.event, wider) /\ \A d \in c.todo : wider[d] = "batch",
         c.step = "interrupting" => wider[c.target] = "interrupt"
  PROVE  CallHasRole(c, wider)
  <1>0. /\ CallHasRole(call[u], wider) /\ HasRole(record, wider) /\ call[u] \in CallStates
        /\ CallStands(call[u])
    BY CallIs, HasRoleExtends DEF RolesFit, ConversationTypeOK, CallsStand
  <1>1. HasRole(Effective, wider)
    BY <1>0, EffectiveIs DEF HasRole
  <1>2. HasRole(c.seen, wider) /\ HasRole(c.base, wider)
    BY <1>0, <1>1, IdleHasRole DEF Sources, CallHasRole
  <1>3. EventHasRole(c.event, wider)
    <2>1. CASE c.event = call[u].event
      BY <1>0, <2>1 DEF CallHasRole
    <2>2. CASE c.event.type \notin {"CANDIDATE_RESOLVED", "BATCH_REVIEW_STARTED"}
      BY <2>2 DEF EventHasRole
    <2> QED
      BY <2>1, <2>2 DEF Sources
  <1>4. HasRole(c.next, wider)
    <2>1. CASE c.step \in EngineSteps
      <3>1. /\ c.base \in Records /\ c.event \in ConversationEvents /\ EventStands(c.event)
            /\ Allowed(c.base, c.event) /\ c.next = NextState(c.base, c.event)
        BY <2>1 DEF CallStates, CallStands
      <3> QED
        BY <1>2, <1>3, <3>1, NextStateHasRole
    <2>2. CASE c.step \notin EngineSteps
      BY <2>2, IdleHasRole DEF CallStands, Unevaluated
    <2> QED
      BY <2>1, <2>2
  <1>5. c.step = "confirming" => wider[c.target] = "batch"
    <2>1. Effective.state = "AWAITING_MULTI_ITEM_REVIEW" => Effective.index \in 1..Len(Effective.low)
      BY EffectiveIs DEF ContextStands, RecordUsable
    <2> QED
      BY <1>1, <2>1 DEF Sources, HasRole, ListHasRole
  <1>6. c.step = "committed" => wider[c.target] \in {"clarify", "interrupt", "batch"}
    BY <1>0 DEF Sources, RouterDraft, CallAt, CallHasRole, CallStands, HasRole
  <1>7. \A d \in c.todo : wider[d] = "batch"
    <2>1. CASE c.todo \subseteq call[u].todo
      BY <1>0, <2>1 DEF CallHasRole
    <2>2. CASE c.todo = Effective.high /\ Effective.state = "AWAITING_MULTI_ITEM_REVIEW"
      BY <1>1, <2>2 DEF HasRole, ListHasRole
    <2> QED
      BY <2>1, <2>2 DEF Sources
  <1> QED
    BY <1>2, <1>3, <1>4, <1>5, <1>6, <1>7 DEF CallHasRole

\* The steps that make drafts, and those that change them.
MakesDrafts(u) ==
  \/ \E d \in DraftIds, c \in Classifications \ {"none"} : FreshCandidate(u, d, c)
  \/ \E low \in Seq(DraftIds), high \in SUBSET DraftIds : FreshBatch(u, low, high)
  \/ \E d \in DraftIds : InterruptsAnswer(u, d)

LEMMA StepChanges ==
  ASSUME NEW u \in Updates, RouterNext(u) \/ EngineNext(u) \/ CallDies(u)
  PROVE  \/ MakesDrafts(u)
         \/ RouterCommits(u) \/ RouterCompletes(u)
         \/ \E d \in DraftIds, committed \in BOOLEAN : Imports(u, d, committed)
         \/ Commits(u) \/ CompletesDraft(u) \/ Reverses(u) \/ Discards(u)
         \/ UNCHANGED <<drafts, txn>>
  <1>1. RouterNext(u) =>
          \/ MakesDrafts(u)
          \/ RouterCommits(u) \/ RouterCompletes(u)
          \/ \E d \in DraftIds, committed \in BOOLEAN : Imports(u, d, committed)
          \/ UNCHANGED <<drafts, txn>>
    BY BatchIs
    DEF RouterNext, MakesDrafts, CancelPhrase, Text, TapButton, NothingExtracted, AnswerUnresolved,
        RouterCommitFails, ImportsNoMore, EditsValue
  <1>2. EngineNext(u) =>
          \/ Commits(u) \/ CompletesDraft(u) \/ Reverses(u) \/ Discards(u)
          \/ UNCHANGED <<drafts, txn>>
    BY DEF EngineNext, Evaluate, CommitFails, Writes, WriteRefused
  <1> QED
    BY <1>1, <1>2 DEF CallDies

LEMMA MakesDraftsIs ==
  ASSUME NEW u \in Updates, MakesDrafts(u)
  PROVE  call[u].step \in {"extracting", "answering"} /\ UNCHANGED <<record, overdue, txn, happened>>
  BY DEF MakesDrafts, FreshCandidate, FreshBatch, InterruptsAnswer, CallAt

LEMMA DraftsFit ==
  ASSUME ConversationTypeOK, CallsStand, NEW role \in [DraftIds -> Roles], RolesFit(role),
         NEW u \in Updates, RouterNext(u) \/ EngineNext(u) \/ CallDies(u), ~ MakesDrafts(u)
  PROVE  \A d \in DraftIds : DraftFits(drafts'[d], txn'[d], role[d])
  <1>0. /\ drafts \in [DraftIds -> {"none", "pending", "completed", "abandoned"}]
        /\ txn \in [DraftIds -> {"none", "live", "deleted"}]
        /\ \A d \in DraftIds : DraftFits(drafts[d], txn[d], role[d])
        /\ call[u] \in CallStates /\ CallStands(call[u]) /\ CallHasRole(call[u], role) /\ Undid(call[u], txn)
    BY CallIs DEF ConversationTypeOK, RolesFit, CallsStand
  <1>00. /\ call[u].target \in DraftIds /\ call[u].event.draft \in DraftIds /\ call[u].base.draft \in DraftIds
         /\ RouterDraft(u) \in DraftIds /\ call[u].todo \subseteq DraftIds
    BY <1>0 DEF CallStates, ConversationEvents, Records, RouterDraft
  <1>1. ASSUME NEW d \in DraftIds, role[d] # "none", drafts' = drafts, txn' = CommittedNow(d)
        PROVE  \A e \in DraftIds : DraftFits(drafts'[e], txn'[e], role[e])
    BY <1>0, <1>1 DEF DraftFits, CommittedNow
  <1>2. ASSUME NEW d \in DraftIds, role[d] # "none", drafts' = [drafts EXCEPT ![d] = "completed"],
               txn' = txn
        PROVE  \A e \in DraftIds : DraftFits(drafts'[e], txn'[e], role[e])
    BY <1>0, <1>2 DEF DraftFits
  <1>3. CASE RouterCommits(u)
    <2>1. role[RouterDraft(u)] # "none"
      BY <1>0, <1>3 DEF RouterCommits, RouterDraft, CallAt, CallHasRole, CallStands, HasRole
    <2> QED
      BY <1>00, <1>1, <1>3, <2>1 DEF RouterCommits
  <1>4. CASE RouterCompletes(u)
    <2>1. role[call[u].target] # "none"
      BY <1>0, <1>4 DEF RouterCompletes, CallAt, CallHasRole
    <2> QED
      BY <1>00, <1>2, <1>4, <2>1 DEF RouterCompletes
  <1>5. ASSUME NEW d \in DraftIds, NEW committed \in BOOLEAN, Imports(u, d, committed)
        PROVE  \A e \in DraftIds : DraftFits(drafts'[e], txn'[e], role[e])
    <2>1. role[d] = "batch"
      BY <1>0, <1>5 DEF Imports, CallHasRole
    <2>2. CASE committed
      <3>1. drafts' = [drafts EXCEPT ![d] = "completed"] /\ txn' = CommittedNow(d)
        BY <1>5, <2>2 DEF Imports
      <3> QED
        BY <1>0, <2>1, <3>1 DEF DraftFits, CommittedNow
    <2>3. CASE ~ committed
      BY <1>0, <1>5, <2>3 DEF Imports
    <2> QED
      BY <2>2, <2>3
  <1>6. CASE Commits(u) \/ CompletesDraft(u)
    <2>1. CommitRequested(call[u].event) /\ EventStands(call[u].event)
      BY <1>0, <1>6 DEF Commits, CompletesDraft, CallAt, CallStands
    <2>2. call[u].event.type = "CANDIDATE_RESOLVED"
      BY <2>1 DEF CommitRequested, EventStands
    <2>3. role[call[u].event.draft] # "none"
      BY <1>0, <2>2 DEF CallHasRole, EventHasRole, RoleOf
    <2> QED
      BY <1>00, <1>1, <1>2, <1>6, <2>3 DEF Commits, CompletesDraft
  <1>7. CASE Reverses(u)
    <2>1. role[call[u].base.draft] = "confirm"
      BY <1>0, <1>7 DEF Reverses, CallAt, CallStands, CallHasRole, HasRole
    <2>2. drafts' = drafts /\ txn' = [txn EXCEPT ![call[u].base.draft] = "deleted"]
      BY <1>7 DEF Reverses
    <2> QED
      BY <1>0, <1>00, <2>1, <2>2 DEF DraftFits
  <1>8. CASE Discards(u)
    <2>1. \/ role[call[u].base.draft] = "clarify"
          \/ role[call[u].base.draft] = "confirm" /\ txn[call[u].base.draft] = "deleted"
      BY <1>0, <1>8 DEF Discards, CallAt, CallStands, CallHasRole, HasRole, Undid
    <2>2. txn' = txn /\ drafts' = [drafts EXCEPT ![call[u].base.draft] = "abandoned"]
      BY <1>8 DEF Discards, StatusAfterCancel
    <2> QED
      BY <1>0, <1>00, <2>1, <2>2 DEF DraftFits
  <1>9. CASE UNCHANGED <<drafts, txn>>
    BY <1>0, <1>9
  <1> QED
    BY <1>3, <1>4, <1>5, <1>6, <1>7, <1>8, <1>9, StepChanges

\* The role that a step's new drafts take.
LEMMA FreshRoles ==
  ASSUME ConversationTypeOK, CallsStand, NEW role \in [DraftIds -> Roles], RolesFit(role),
         NEW u \in Updates, MakesDrafts(u)
  PROVE  \E wider \in [DraftIds -> Roles], c \in CallStates :
           /\ Extends(role, wider) /\ GoOn(u, c)
           /\ \A d \in DraftIds : DraftFits(drafts'[d], txn'[d], wider[d])
           /\ call[u].step = "extracting" => EventHasRole(c.event, wider) /\ \A d \in c.todo : wider[d] = "batch"
           /\ c.step = "interrupting" => wider[c.target] = "interrupt"
  <1>0. /\ drafts \in [DraftIds -> {"none", "pending", "completed", "abandoned"}]
        /\ \A d \in DraftIds : DraftFits(drafts[d], txn[d], role[d])
        /\ CallHasRole(call[u], role) /\ CallStands(call[u])
    BY DEF ConversationTypeOK, RolesFit, CallsStand
  <1>1. ASSUME NEW d \in DraftIds, NEW cl \in Classifications \ {"none"}, FreshCandidate(u, d, cl)
        PROVE  \E wider \in [DraftIds -> Roles], c \in CallStates :
                 /\ Extends(role, wider) /\ GoOn(u, c)
                 /\ \A e \in DraftIds : DraftFits(drafts'[e], txn'[e], wider[e])
                 /\ call[u].step = "extracting"
                      => EventHasRole(c.event, wider) /\ \A e \in c.todo : wider[e] = "batch"
                 /\ c.step = "interrupting" => wider[c.target] = "interrupt"
    <2> DEFINE wider == [role EXCEPT ![d] = RoleOf(cl)]
    <2>1. PICK c \in CallStates : CandidateMakes(u, d, cl, c)
      BY <1>1, FreshCandidateIs
    <2>2. RoleOf(cl) \in Roles /\ RoleOf(cl) \notin {"none", "batch", "interrupt"}
      BY DEF RoleOf, Roles
    <2>3. drafts[d] = "none" /\ role[d] = "none" /\ txn[d] = "none"
      BY <1>0, <2>1 DEF CandidateMakes, DraftFits
    <2>4. /\ wider \in [DraftIds -> Roles] /\ wider[d] = RoleOf(cl)
          /\ \A e \in DraftIds : e # d => wider[e] = role[e]
      BY <2>2
    <2> HIDE DEF wider
    <2>5. Extends(role, wider)
      BY <2>3, <2>4 DEF Extends
    <2>6. \A e \in DraftIds : DraftFits(drafts'[e], txn'[e], wider[e])
      BY <1>0, <2>1, <2>2, <2>3, <2>4 DEF CandidateMakes, DraftFits
    <2>7. EventHasRole(c.event, wider)
      BY <2>1, <2>4 DEF CandidateMakes, EventHasRole
    <2>8. \A e \in c.todo : wider[e] = "batch"
      BY <1>0, <2>1, <2>4, <2>5, CallIs DEF CandidateMakes, CallHasRole, CallStates, Extends
    <2> QED
      BY <2>1, <2>4, <2>5, <2>6, <2>7, <2>8 DEF CandidateMakes
  <1>2. ASSUME NEW low \in Seq(DraftIds), NEW high \in SUBSET DraftIds, FreshBatch(u, low, high)
        PROVE  \E wider \in [DraftIds -> Roles], c \in CallStates :
                 /\ Extends(role, wider) /\ GoOn(u, c)
                 /\ \A e \in DraftIds : DraftFits(drafts'[e], txn'[e], wider[e])
                 /\ call[u].step = "extracting"
                      => EventHasRole(c.event, wider) /\ \A e \in c.todo : wider[e] = "batch"
                 /\ c.step = "interrupting" => wider[c.target] = "interrupt"
    <2> DEFINE inBatch(d) == d \in high \/ \E i \in 1..Len(low) : low[i] = d
               wider == [d \in DraftIds |-> IF inBatch(d) THEN "batch" ELSE role[d]]
    <2>1. PICK c \in CallStates : BatchMakes(u, low, high, c)
      BY <1>2, FreshBatchIs
    <2>2. /\ \A d \in DraftIds : inBatch(d) => drafts[d] = "none"
          /\ drafts' = [d \in DraftIds |-> IF inBatch(d) THEN "pending" ELSE drafts[d]]
          /\ txn' = txn
      BY <1>2 DEF FreshBatch
    <2>3. "batch" \in Roles
      BY DEF Roles
    <2>4. /\ wider \in [DraftIds -> Roles]
          /\ \A d \in DraftIds : wider[d] = IF inBatch(d) THEN "batch" ELSE role[d]
      BY <2>3
    <2>5. ListHasRole(low, high, wider)
      <3>1. \A i \in 1..Len(low) : low[i] \in DraftIds /\ inBatch(low[i])
        OBVIOUS
      <3>2. \A d \in high : d \in DraftIds /\ inBatch(d)
        OBVIOUS
      <3> QED
        BY <2>4, <3>1, <3>2 DEF ListHasRole
    <2> HIDE DEF wider, inBatch
    <2>6. \A d \in DraftIds : inBatch(d) => role[d] = "none" /\ txn[d] = "none"
      BY <1>0, <2>2 DEF DraftFits
    <2>7. Extends(role, wider)
      BY <2>4, <2>6 DEF Extends
    <2>8. \A e \in DraftIds : DraftFits(drafts'[e], txn'[e], wider[e])
      <3> TAKE e \in DraftIds
      <3>1. CASE inBatch(e)
        BY <2>2, <2>4, <2>6, <3>1 DEF DraftFits
      <3>2. CASE ~ inBatch(e)
        BY <1>0, <2>2, <2>4, <3>2
      <3> QED
        BY <3>1, <3>2
    <2>9. EventHasRole(c.event, wider)
      BY <1>0, <2>1, <2>5, NoEventIs DEF BatchMakes, EventHasRole, CallStands, EngineSteps
    <2>10. \A e \in c.todo : wider[e] = "batch"
      <3>1. \A e \in call[u].todo : e \in DraftIds /\ wider[e] = "batch"
        BY <1>0, <2>7, CallIs DEF CallHasRole, CallStates, Extends
      <3>2. \A e \in high : wider[e] = "batch"
        BY <2>5 DEF ListHasRole
      <3> QED
        BY <2>1, <3>1, <3>2 DEF BatchMakes
    <2> QED
      BY <2>1, <2>4, <2>7, <2>8, <2>9, <2>10 DEF BatchMakes
  <1>3. ASSUME NEW d \in DraftIds, InterruptsAnswer(u, d)
        PROVE  \E wider \in [DraftIds -> Roles], c \in CallStates :
                 /\ Extends(role, wider) /\ GoOn(u, c)
                 /\ \A e \in DraftIds : DraftFits(drafts'[e], txn'[e], wider[e])
                 /\ call[u].step = "extracting"
                      => EventHasRole(c.event, wider) /\ \A e \in c.todo : wider[e] = "batch"
                 /\ c.step = "interrupting" => wider[c.target] = "interrupt"
    <2> DEFINE wider == [role EXCEPT ![d] = "interrupt"]
    <2>1. PICK c \in CallStates : InterruptMakes(u, d, c)
      BY <1>3, InterruptsAnswerIs
    <2>2. drafts[d] = "none" /\ role[d] = "none" /\ txn[d] = "none"
      BY <1>0, <2>1 DEF InterruptMakes, DraftFits
    <2>3. /\ wider \in [DraftIds -> Roles] /\ wider[d] = "interrupt"
          /\ \A e \in DraftIds : e # d => wider[e] = role[e]
      BY DEF Roles
    <2> HIDE DEF wider
    <2>4. Extends(role, wider)
      BY <2>2, <2>3 DEF Extends
    <2>5. \A e \in DraftIds : DraftFits(drafts'[e], txn'[e], wider[e])
      BY <1>0, <2>1, <2>2, <2>3 DEF InterruptMakes, DraftFits
    <2> QED
      BY <2>1, <2>3, <2>4, <2>5 DEF InterruptMakes
  <1> QED
    BY <1>1, <1>2, <1>3 DEF MakesDrafts

LEMMA OtherwiseEnds ==
  ASSUME ConversationTypeOK, NEW u \in Updates, RouterNext(u) \/ EngineNext(u) \/ CallDies(u),
         ~ MakesDrafts(u),
         call[u].step \in {"extracting", "answering"}
  PROVE  /\ call'[u].step # "interrupting"
         /\ call[u].step = "extracting" => call'[u] = EndedCall
  <1>1. \/ GoOn(u, EndedCall)
        \/ call[u].step = "answering" /\ (AnswerUnresolved(u) \/ RouterCommits(u))
    BY BatchIs
    DEF RouterNext, EngineNext, MakesDrafts, CancelPhrase, Text, TapButton, NothingExtracted,
    AnswerUnresolved,
        RouterCommits, RouterCommitFails, RouterCompletes, Imports, ImportsNoMore, EditsValue,
        Evaluate, Commits,
        CommitFails, CompletesDraft, Reverses, Discards, Writes, WriteRefused, CallDies, CallAt
  <1>2. CASE GoOn(u, EndedCall)
    BY <1>2, GoOnIs, EndedCallIs
  <1>3. CASE call[u].step = "answering" /\ AnswerUnresolved(u)
    BY <1>3, GoOnIs, AnswerUnresolvedIs DEF AnswerMakes
  <1>4. CASE call[u].step = "answering" /\ RouterCommits(u)
    BY <1>4, GoOnIs, RouterCommitsIs DEF RouterCommitMakes
  <1> QED
    BY <1>1, <1>2, <1>3, <1>4

\* A call's step leaves the record as it is or as a state that has its role.
LEMMA RecordHasRole ==
  ASSUME ConversationTypeOK, NEW role, NEW u \in Updates, HasRole(record, role),
         HasRole(call[u].next, role),
         RouterNext(u) \/ EngineNext(u) \/ CallDies(u)
  PROVE  HasRole(record', role)
  BY RecordChanges, WritesIs DEF HasRole

LEMMA RolesStay ==
  ASSUME ConversationTypeOK, CallsStand, ContextStands, RolesStand, ConversationNext
  PROVE  RolesStand'
  <1>1. PICK role \in [DraftIds -> Roles] : RolesFit(role)
    BY DEF RolesStand
  <1>2. /\ record \in Records /\ \A u \in Updates : call[u] \in CallStates
        /\ \A d \in DraftIds : txn[d] = "deleted" => txn'[d] = "deleted"
    BY CallIs, TransactionsStay DEF ConversationTypeOK
  <1>3. ASSUME NEW u \in Updates, RouterNext(u) \/ EngineNext(u) \/ CallDies(u)
        PROVE  RolesStand'
    <2>1. PICK c \in CallStates : GoOn(u, c) /\ CallStands(c) /\ Sources(u, c)
      BY <1>3, CallGoesOn
    <2>2. /\ call'[u] = c
          /\ \A v \in Updates : v # u => call'[v] = call[v]
      BY <2>1, GoOnIs
    <2>3. \E wider \in [DraftIds -> Roles] :
            /\ Extends(role, wider)
            /\ \A d \in DraftIds : DraftFits(drafts'[d], txn'[d], wider[d])
            /\ call[u].step = "extracting" => EventHasRole(c.event, wider) /\ \A d \in c.todo : wider[d] = "batch"
            /\ c.step = "interrupting" => wider[c.target] = "interrupt"
      <3>1. CASE MakesDrafts(u)
        <4>1. PICK wider \in [DraftIds -> Roles], k \in CallStates :
           /\ Extends(role, wider) /\ GoOn(u, k)
           /\ \A d \in DraftIds : DraftFits(drafts'[d], txn'[d], wider[d])
           /\ call[u].step = "extracting" => EventHasRole(k.event, wider) /\ \A d \in k.todo : wider[d] = "batch"
           /\ k.step = "interrupting" => wider[k.target] = "interrupt"
          BY <1>1, <3>1, FreshRoles
        <4>2. k = c
          BY <2>2, <4>1, GoOnIs
        <4> QED
          BY <4>1, <4>2
      <3>2. CASE ~ MakesDrafts(u)
        <4>1. \A d \in DraftIds : DraftFits(drafts'[d], txn'[d], role[d])
          BY <1>1, <1>3, <3>2, DraftsFit
        <4>2. c.step # "interrupting"
          BY <1>3, <2>1, <2>2, <3>2, OtherwiseEnds DEF Sources
        <4>3. call[u].step = "extracting" => c = EndedCall
          BY <1>3, <2>2, <3>2, OtherwiseEnds
        <4>4. call[u].step = "extracting" => EventHasRole(c.event, role) /\ \A d \in c.todo : role[d] = "batch"
          BY <4>3, EndedCallIs, NoEventIs DEF EventHasRole
        <4> QED
          BY <4>1, <4>2, <4>4 DEF Extends
      <3> QED
        BY <3>1, <3>2
    <2>4. PICK wider \in [DraftIds -> Roles] :
            /\ Extends(role, wider)
            /\ \A d \in DraftIds : DraftFits(drafts'[d], txn'[d], wider[d])
            /\ call[u].step = "extracting" => EventHasRole(c.event, wider) /\ \A d \in c.todo : wider[d] = "batch"
            /\ c.step = "interrupting" => wider[c.target] = "interrupt"
      BY <2>3
    <2>5. CallHasRole(c, wider)
      BY <1>1, <2>1, <2>4, RoleOfCall
    <2>6. \A v \in Updates : CallHasRole(call[v], wider)
      BY <1>1, <1>2, <2>4, HasRoleExtends DEF RolesFit
    <2>7. HasRole(record', wider)
      <3>1. HasRole(record, wider)
        BY <1>1, <1>2, <2>4, HasRoleExtends DEF RolesFit
      <3>2. HasRole(call[u].next, wider)
        BY <2>6 DEF CallHasRole
      <3> QED
        BY <1>3, <3>1, <3>2, RecordHasRole
    <2>8. \A v \in Updates : Undid(call'[v], txn')
      <3>1. Undid(c, txn')
        BY <2>1 DEF Sources, Undid
      <3>2. \A v \in Updates : Undid(call[v], txn')
        <4>1. \A v \in Updates : call[v].base.draft \in DraftIds
          BY <1>2 DEF CallStates, Records
        <4> QED
          BY <1>1, <1>2, <4>1 DEF RolesFit, Undid
      <3> QED
        BY <2>2, <3>1, <3>2
    <2>9. \A v \in Updates : CallHasRole(call'[v], wider)
      BY <2>2, <2>5, <2>6
    <2> QED
      BY <2>4, <2>7, <2>8, <2>9 DEF RolesStand, RolesFit
  <1>4. CASE TimePasses \/ Drops \/ AllCallsDone
    <2>1. call' = call /\ drafts' = drafts /\ txn' = txn /\ record' \in {record, IdleState}
      BY <1>4 DEF TimePasses, Drops, AllCallsDone, conversationVars
    <2>2. HasRole(record', role)
      BY <1>1, <2>1, IdleHasRole DEF RolesFit
    <2> QED
      BY <1>1, <2>1, <2>2 DEF RolesStand, RolesFit
  <1> QED
    BY <1>3, <1>4 DEF ConversationNext

(***************************************************************************)
(* Until a call has committed its draft and completed it, no state refers  *)
(* to that draft: nobody can undo the record, so that completing never     *)
(* takes back that the draft was abandoned.                                *)
(***************************************************************************)
Raised(c, d) ==
  /\ c.event.type = "CANDIDATE_RESOLVED" /\ c.event.draft = d
  /\ c.step \in {"event", "committing", "completing"}

AboutRecord(r, d) == r.state \in {"AWAITING_CONFIRMATION", "AWAITING_EDIT_VALUE"} /\ r.draft = d

FreshFor(u, d) ==
  /\ txn[d] # "deleted" /\ ~ AboutRecord(record, d)
  /\ \A v \in Updates :
       /\ ~ AboutRecord(call[v].base, d)
       /\ v # u => /\ ~ AboutRecord(call[v].next, d)
                   /\ ~(call[v].event.type = "CANDIDATE_RESOLVED" /\ call[v].event.draft = d)

FreshStands == \A u \in Updates, d \in DraftIds : Raised(call[u], d) => FreshFor(u, d)

\* Only a cancelled confirmation deletes a transaction.
LEMMA DeletedBy ==
  ASSUME ConversationTypeOK, NEW u \in Updates, NEW d \in DraftIds,
         RouterNext(u) \/ EngineNext(u) \/ CallDies(u), txn'[d] = "deleted"
  PROVE  \/ txn[d] = "deleted"
         \/ Reverses(u) /\ d = call[u].base.draft
  <1>0. txn \in [DraftIds -> {"none", "live", "deleted"}]
    BY DEF ConversationTypeOK
  <1>1. ASSUME NEW e, txn' = CommittedNow(e)
        PROVE  txn[d] = "deleted"
    BY <1>0, <1>1 DEF CommittedNow
  <1>2. CASE MakesDrafts(u)
    BY <1>2, MakesDraftsIs
  <1>3. CASE RouterCommits(u) \/ Commits(u)
    BY <1>1, <1>3 DEF RouterCommits, Commits
  <1>4. ASSUME NEW e \in DraftIds, NEW committed \in BOOLEAN, Imports(u, e, committed)
        PROVE  txn[d] = "deleted"
    BY <1>1, <1>4 DEF Imports
  <1>5. CASE RouterCompletes(u) \/ CompletesDraft(u) \/ Discards(u)
    BY <1>5 DEF RouterCompletes, CompletesDraft, Discards
  <1>6. CASE Reverses(u)
    BY <1>0, <1>6 DEF Reverses
  <1> QED
    BY <1>2, <1>3, <1>4, <1>5, <1>6, StepChanges

\* A draft whose record is to be committed has just been made.
LEMMA RaisedFresh ==
  ASSUME ConversationTypeOK, CallsStand, NEW u \in Updates, call[u].step = "extracting",
         RouterNext(u) \/ EngineNext(u) \/ CallDies(u), call'[u].event.type = "CANDIDATE_RESOLVED"
  PROVE  drafts[call'[u].event.draft] = "none"
  <1>1. CASE ~ MakesDrafts(u)
    BY <1>1, OtherwiseEnds, EndedCallIs, NoEventIs
  <1>2. ASSUME NEW d \in DraftIds, NEW cl \in Classifications \ {"none"}, FreshCandidate(u, d, cl)
        PROVE  drafts[call'[u].event.draft] = "none"
    BY <1>2, FreshCandidateIs, GoOnIs DEF CandidateMakes
  <1>3. ASSUME NEW low \in Seq(DraftIds), NEW high \in SUBSET DraftIds, FreshBatch(u, low, high)
        PROVE  FALSE
    <2>1. call[u].event.type = "none"
      BY DEF CallsStand, CallStands, EngineSteps
    <2> QED
      BY <1>3, <2>1, FreshBatchIs, GoOnIs DEF BatchMakes
  <1>4. ASSUME NEW d \in DraftIds, InterruptsAnswer(u, d)
        PROVE  FALSE
    BY <1>4 DEF InterruptsAnswer, CallAt
  <1> QED
    BY <1>1, <1>2, <1>3, <1>4 DEF MakesDrafts

\* No state is about a draft that has no role.
LEMMA NoneIsAbout ==
  ASSUME NEW role, NEW r, NEW d, HasRole(r, role), AboutRecord(r, d)
  PROVE  role[d] = "confirm"
  BY DEF HasRole, AboutRecord

LEMMA FreshStays ==
  ASSUME ConversationTypeOK, CallsStand, ContextStands, RolesStand, FreshStands, ConversationNext
  PROVE  FreshStands'
  <1>1. PICK role \in [DraftIds -> Roles] : RolesFit(role)
    BY DEF RolesStand
  <1>2. /\ \A u \in Updates : call[u] \in CallStates /\ CallStands(call[u]) /\ CallHasRole(call[u], role)
        /\ \A d \in DraftIds : DraftFits(drafts[d], txn[d], role[d])
        /\ HasRole(record, role)
    BY <1>1, CallIs DEF CallsStand, RolesFit
  <1>3. ASSUME NEW d, ~ AboutRecord(record, d)
        PROVE  ~ AboutRecord(Effective, d)
    BY <1>3, EffectiveIs DEF AboutRecord
  <1>4. \A d : ~ AboutRecord(IdleState, d)
    BY IdleStateIs DEF AboutRecord
  <1>5. ASSUME NEW w \in Updates, RouterNext(w) \/ EngineNext(w) \/ CallDies(w)
        PROVE  FreshStands'
    <2>1. PICK c \in CallStates : GoOn(w, c) /\ CallStands(c) /\ Sources(w, c)
      BY <1>5, CallGoesOn
    <2>2. /\ call'[w] = c
          /\ \A v \in Updates : v # w => call'[v] = call[v]
      BY <2>1, GoOnIs
    <2>3. ASSUME NEW u \in Updates, NEW d \in DraftIds, Raised(call'[u], d)
          PROVE  FreshFor(u, d)'
      \* Nothing was about the draft before this step.
      <3>1. \/ FreshFor(u, d) /\ Raised(call[u], d)
            \/ u = w /\ role[d] = "none"
        <4>1. CASE u # w
          BY <2>2, <2>3, <4>1 DEF FreshStands
        <4>2. CASE u = w /\ call[w].step = "extracting"
          <5>1. drafts[d] = "none"
            BY <1>5, <2>3, <4>2, RaisedFresh DEF Raised
          <5> QED
            BY <1>2, <4>2, <5>1 DEF DraftFits
        <4>3. CASE u = w /\ call[w].step # "extracting"
          <5>1. c.event = call[w].event /\ c.event.type = "CANDIDATE_RESOLVED" /\ c.event.draft = d
                /\ c.step \in {"event", "committing", "completing"}
            BY <2>1, <2>2, <2>3, <4>3 DEF Sources, Raised
          <5>2. call[w].step \in {"committed", "event"} \cup EngineSteps /\ call[w].step # "committed"
            BY <1>2, <5>1 DEF CallStands
          <5>3. call[w].step \in {"event", "committing"}
            BY <2>1, <5>1, <5>2 DEF Sources, EngineSteps
          <5>4. Raised(call[u], d)
            BY <4>3, <5>1, <5>3 DEF Raised
          <5> QED
            BY <5>4 DEF FreshStands
        <4> QED
          BY <4>1, <4>2, <4>3
      <3>2. /\ txn[d] # "deleted" /\ ~ AboutRecord(record, d)
            /\ \A v \in Updates :
                 /\ ~ AboutRecord(call[v].base, d)
                 /\ v # u => /\ ~ AboutRecord(call[v].next, d)
                             /\ ~(call[v].event.type = "CANDIDATE_RESOLVED" /\ call[v].event.draft = d)
        <4>1. CASE FreshFor(u, d)
          BY <4>1 DEF FreshFor
        <4>2. CASE role[d] = "none"
          <5>1. \A v \in Updates : ~ AboutRecord(call[v].base, d) /\ ~ AboutRecord(call[v].next, d)
            BY <1>2, <4>2, NoneIsAbout DEF CallHasRole
          <5>2. \A v \in Updates : ~(call[v].event.type = "CANDIDATE_RESOLVED" /\ call[v].event.draft = d)
            BY <1>2, <4>2 DEF CallHasRole, EventHasRole, RoleOf
          <5> QED
            BY <1>2, <4>2, <5>1, <5>2, NoneIsAbout DEF DraftFits
        <4> QED
          BY <3>1, <4>1, <4>2
      <3>3. ~ AboutRecord(c.base, d)
        BY <1>3, <1>4, <2>1, <3>2 DEF Sources
      <3>4. txn'[d] # "deleted"
        <4>1. SUFFICES ASSUME Reverses(w), d = call[w].base.draft
                       PROVE  FALSE
          BY <1>5, <3>2, DeletedBy
        <4>2. call[w].base.state = "AWAITING_CONFIRMATION"
          BY <1>2, <4>1 DEF Reverses, CallAt, CallStands
        <4> QED
          BY <3>2, <4>1, <4>2 DEF AboutRecord
      <3>5. ~ AboutRecord(record', d)
        <4>1. CASE UNCHANGED <<record, overdue>>
          BY <3>2, <4>1
        <4>2. CASE Writes(w)
          <5>1. w # u
            BY <2>2, <2>3, <4>2, GoOnIs, EndedCallIs DEF Writes, Raised
          <5>2. ~ AboutRecord(call[w].next, d)
            BY <3>2, <5>1
          <5> QED
            BY <4>2, <5>2, WritesIs DEF AboutRecord
        <4> QED
          BY <1>5, <4>1, <4>2, RecordChanges
      <3>6. w # u => ~(c.event.type = "CANDIDATE_RESOLVED" /\ c.event.draft = d)
        <4>1. SUFFICES ASSUME w # u, c.event.type = "CANDIDATE_RESOLVED", c.event.draft = d
                       PROVE  FALSE
          OBVIOUS
        <4>2. call[w].step = "extracting"
          BY <2>1, <3>2, <4>1 DEF Sources
        <4>3. drafts[d] = "none"
          BY <1>5, <2>2, <4>1, <4>2, RaisedFresh
        <4>4. role[d] # "none"
          BY <1>2, <3>1, <4>1 DEF Raised, CallHasRole, EventHasRole, RoleOf
        <4> QED
          BY <1>2, <4>3, <4>4 DEF DraftFits
      <3>7. w # u => ~ AboutRecord(c.next, d)
        <4>1. CASE c.step \notin EngineSteps
          BY <1>4, <2>1, <4>1 DEF CallStands, Unevaluated
        <4>2. CASE c.step \in EngineSteps
          <5>1. /\ c.base \in Records /\ c.event \in ConversationEvents
                /\ Allowed(c.base, c.event) /\ c.next = NextState(c.base, c.event)
            BY <2>1, <4>2 DEF CallStates, CallStands
          <5>2. To("IDLE").state = "IDLE"
            BY ToIs DEF States
          <5> QED
            BY <3>3, <3>6, <5>1, <5>2, NextStateHas DEF AboutRecord
        <4> QED
          BY <4>1, <4>2
      <3> QED
        BY <2>2, <3>2, <3>3, <3>4, <3>5, <3>6, <3>7 DEF FreshFor
    <2> QED
      BY <2>3 DEF FreshStands
  <1>6. CASE TimePasses \/ Drops \/ AllCallsDone
    <2>1. call' = call /\ txn' = txn /\ record' \in {record, IdleState}
      BY <1>6 DEF TimePasses, Drops, AllCallsDone, conversationVars
    <2> QED
      BY <1>4, <2>1 DEF FreshStands, FreshFor
  <1> QED
    BY <1>5, <1>6 DEF ConversationNext

(***************************************************************************)
(* Unless a call dies on the way, the draft of an undone record is         *)
(* abandoned or about to be.                                               *)
(***************************************************************************)
Discarding(c, d) == c.step = "discarding" /\ c.base.draft = d

UndoneStands ==
  "crash" \notin happened =>
    \A d \in DraftIds :
      txn[d] = "deleted" => drafts[d] = "abandoned" \/ \E u \in Updates : Discarding(call[u], d)

\* Nobody takes back that the draft of an undone record is abandoned.
LEMMA AbandonedStays ==
  ASSUME ConversationTypeOK, CallsStand, NEW role \in [DraftIds -> Roles], RolesFit(role), FreshStands,
         NEW w \in Updates, RouterNext(w) \/ EngineNext(w) \/ CallDies(w),
         NEW d \in DraftIds, txn[d] = "deleted", drafts[d] = "abandoned"
  PROVE  drafts'[d] = "abandoned"
  <1>0. /\ drafts \in [DraftIds -> {"none", "pending", "completed", "abandoned"}]
        /\ call[w] \in CallStates /\ CallStands(call[w]) /\ CallHasRole(call[w], role)
        /\ role[d] = "confirm"
    BY CallIs DEF ConversationTypeOK, CallsStand, RolesFit, DraftFits
  <1>1. ASSUME NEW e \in DraftIds, NEW cl, FreshCandidate(w, e, cl)
        PROVE  drafts'[d] = "abandoned"
    BY <1>0, <1>1 DEF FreshCandidate
  <1>2. ASSUME NEW low \in Seq(DraftIds), NEW high \in SUBSET DraftIds, FreshBatch(w, low, high)
        PROVE  drafts'[d] = "abandoned"
    BY <1>0, <1>2 DEF FreshBatch
  <1>3. ASSUME NEW e \in DraftIds, InterruptsAnswer(w, e)
        PROVE  drafts'[d] = "abandoned"
    BY <1>0, <1>3 DEF InterruptsAnswer
  <1>4. CASE RouterCompletes(w)
    <2>1. call[w].target # d /\ call[w].target \in DraftIds
      BY <1>0, <1>4 DEF RouterCompletes, CallAt, CallHasRole, CallStates
    <2> QED
      BY <1>0, <1>4, <2>1 DEF RouterCompletes
  <1>5. ASSUME NEW e \in DraftIds, NEW committed \in BOOLEAN, Imports(w, e, committed)
        PROVE  drafts'[d] = "abandoned"
    <2>1. e # d
      BY <1>5 DEF Imports
    <2> QED
      BY <1>0, <1>5, <2>1 DEF Imports
  <1>6. CASE CompletesDraft(w)
    <2>1. call[w].step = "completing" /\ CommitRequested(call[w].event) /\ EventStands(call[w].event)
      BY <1>0, <1>6 DEF CompletesDraft, CallAt, CallStands
    <2>2. Raised(call[w], call[w].event.draft)
      BY <2>1 DEF Raised, CommitRequested, EventStands
    <2>3. call[w].event.draft \in DraftIds
      BY <1>0 DEF CallStates, ConversationEvents
    <2>4. call[w].event.draft # d
      BY <2>2, <2>3 DEF FreshStands, FreshFor
    <2> QED
      BY <1>0, <1>6, <2>3, <2>4 DEF CompletesDraft
  <1>7. CASE Discards(w)
    BY <1>0, <1>7 DEF Discards, StatusAfterCancel
  <1>8. CASE RouterCommits(w) \/ Commits(w) \/ Reverses(w)
    BY <1>8 DEF RouterCommits, Commits, Reverses
  <1> QED
    BY <1>1, <1>2, <1>3, <1>4, <1>5, <1>6, <1>7, <1>8, StepChanges DEF MakesDrafts

\* What can become of a call at a step.
LEMMA StepsOn ==
  ASSUME NEW w \in Updates, RouterNext(w) \/ EngineNext(w) \/ CallDies(w)
  PROVE  /\ call[w].step = "discarding" => Discards(w) \/ CallDies(w)
         /\ call[w].step = "committed" => RouterCompletes(w) \/ CallDies(w)
         /\ call[w].step = "event" => Evaluate(w) \/ CallDies(w)
         /\ call[w].step = "writing" => Writes(w) \/ WriteRefused(w) \/ CallDies(w)
  <1>1. /\ RouterNext(w) => call[w].step \notin {"discarding", "event", "writing"}
        /\ RouterNext(w) /\ call[w].step = "committed" => RouterCompletes(w)
    BY DEF RouterNext, CancelPhrase, Text, TapButton, NothingExtracted, FreshCandidate, FreshBatch,
           InterruptsAnswer, AnswerUnresolved, RouterCommits, RouterCommitFails, RouterCompletes,
           Imports,
           ImportsNoMore, EditsValue, CallAt
  <1>2. EngineNext(w) =>
          /\ call[w].step # "committed"
          /\ call[w].step = "discarding" => Discards(w)
          /\ call[w].step = "event" => Evaluate(w)
          /\ call[w].step = "writing" => Writes(w) \/ WriteRefused(w)
    BY DEF EngineNext, Evaluate, Commits, CommitFails, CompletesDraft, Reverses, Discards, Writes,
           WriteRefused, CallAt
  <1> QED
    BY <1>1, <1>2

LEMMA HappenedGrows ==
  ASSUME NEW u \in Updates, RouterNext(u) \/ EngineNext(u) \/ CallDies(u)
  PROVE  happened \subseteq happened' /\ happened' \subseteq happened \cup {"overlap", "crash"}
  BY StepStarts DEF Noted

LEMMA UndoneStays ==
  ASSUME ConversationTypeOK, CallsStand, RolesStand, FreshStands, UndoneStands, ConversationNext
  PROVE  UndoneStands'
  <1>1. PICK role \in [DraftIds -> Roles] : RolesFit(role)
    BY DEF RolesStand
  <1>2. ASSUME NEW w \in Updates, RouterNext(w) \/ EngineNext(w) \/ CallDies(w),
               "crash" \notin happened',
               NEW d \in DraftIds, txn'[d] = "deleted"
        PROVE  drafts'[d] = "abandoned" \/ \E u \in Updates : Discarding(call'[u], d)
    <2>1. \A v \in Updates : v # w => call'[v] = call[v]
      <3>1. PICK c \in CallStates : GoOn(w, c)
        BY <1>2, CallGoesOn
      <3> QED
        BY <3>1, GoOnIs
    <2>2. CASE txn[d] = "deleted" /\ drafts[d] = "abandoned"
      BY <1>1, <1>2, <2>2, AbandonedStays
    <2>3. ASSUME NEW v \in Updates, Discarding(call[v], d), txn[d] = "deleted"
          PROVE  drafts'[d] = "abandoned" \/ \E u \in Updates : Discarding(call'[u], d)
      <3>1. CASE v # w
        BY <2>1, <2>3, <3>1
      <3>2. CASE v = w
        <4>1. Discards(w)
          BY <1>2, <2>3, <3>2, StepsOn DEF Discarding, CallDies
        <4>2. drafts' = [drafts EXCEPT ![d] = "abandoned"]
          BY <2>3, <3>2, <4>1 DEF Discards, StatusAfterCancel, Discarding
        <4> QED
          BY <4>2 DEF ConversationTypeOK
      <3> QED
        BY <3>1, <3>2
    <2>4. CASE Reverses(w) /\ d = call[w].base.draft
      <3>1. "discarding" \in CallSteps
        BY DEF CallSteps
      <3>2. PICK c \in CallStates : GoOn(w, c) /\ c.step = "discarding" /\ SameWork(c, call[w])
        BY <2>4, <3>1, NextStepIs DEF Reverses
      <3>3. Discarding(call'[w], d)
        BY <2>4, <3>2, GoOnIs DEF Discarding, SameWork, KeepsWork
      <3> QED
        BY <3>3
    <2>5. txn[d] = "deleted" => drafts[d] = "abandoned" \/ \E u \in Updates : Discarding(call[u], d)
      BY <1>2, HappenedGrows DEF UndoneStands
    <2> QED
      BY <1>2, <2>2, <2>3, <2>4, <2>5, DeletedBy
  <1>3. CASE TimePasses \/ Drops \/ AllCallsDone
    <2>1. call' = call /\ txn' = txn /\ drafts' = drafts /\ happened \subseteq happened'
      BY <1>3 DEF TimePasses, Drops, AllCallsDone, conversationVars
    <2> QED
      BY <2>1 DEF UndoneStands
  <1>4. ASSUME NEW w \in Updates, RouterNext(w) \/ EngineNext(w) \/ CallDies(w)
        PROVE  UndoneStands'
    BY <1>2, <1>4 DEF UndoneStands
  <1> QED
    BY <1>3, <1>4 DEF ConversationNext

(***************************************************************************)
(* While calls neither overlap nor die, a clarification is about a draft   *)
(* nobody has committed or abandoned, but for the call that is to end it.  *)
(***************************************************************************)
Open(d) == txn[d] = "none" /\ drafts[d] # "abandoned"

Ending(c) ==
  \/ /\ c.event.type = "CLARIFICATION_ANSWER" /\ c.event.holds
     /\ c.step \in {"committed", "event", "writing"}
  \/ c.event.type = "CANCELLATION" /\ c.step = "writing"

OpenFor(c) ==
  /\ c.step = "answering" => Open(c.seen.draft)
  /\ (c.step = "discarding" /\ c.base.state = "AWAITING_CLARIFICATION") => txn[c.base.draft] = "none"
  /\ (c.step \in {"event", "writing"} /\ c.event.classification = "draft_pending_clarification")
       => Open(c.event.draft)
  /\ (c.step = "writing" /\ c.event.type = "CLARIFICATION_ANSWER" /\ ~ c.event.holds) => Open(c.base.draft)

Calm == happened \subseteq {"drop"}

CalmStands ==
  Calm =>
    /\ Effective.state = "AWAITING_CLARIFICATION" => Open(record.draft) \/ \E u \in Updates : Ending(call[u])
    /\ \A u \in Updates : OpenFor(call[u])
    /\ \A d \in DraftIds : drafts[d] = "abandoned" => txn[d] # "live"

\* What a step can do to a draft that is to be clarified.
LEMMA OpenStays ==
  ASSUME ConversationTypeOK, CallsStand, NEW role \in [DraftIds -> Roles], RolesFit(role),
         NEW w \in Updates, RouterNext(w) \/ EngineNext(w) \/ CallDies(w),
         NEW d \in DraftIds, role[d] \in {"none", "clarify"}
  PROVE  /\ txn'[d] # txn[d] => RouterCommits(w) /\ call[w].step = "answering" /\ call[w].seen.draft = d
         /\ drafts'[d] = "abandoned" => drafts[d] = "abandoned" \/ (Discards(w) /\ call[w].base.draft = d)
  <1>0. /\ drafts \in [DraftIds -> {"none", "pending", "completed", "abandoned"}]
        /\ txn \in [DraftIds -> {"none", "live", "deleted"}]
        /\ call[w] \in CallStates /\ CallStands(call[w]) /\ CallHasRole(call[w], role)
    BY CallIs DEF ConversationTypeOK, CallsStand, RolesFit
  <1>1. ASSUME NEW e \in DraftIds, NEW cl, FreshCandidate(w, e, cl)
        PROVE  txn' = txn /\ (drafts'[d] = "abandoned" => drafts[d] = "abandoned")
    BY <1>0, <1>1 DEF FreshCandidate
  <1>2. ASSUME NEW low \in Seq(DraftIds), NEW high \in SUBSET DraftIds, FreshBatch(w, low, high)
        PROVE  txn' = txn /\ (drafts'[d] = "abandoned" => drafts[d] = "abandoned")
    BY <1>0, <1>2 DEF FreshBatch
  <1>3. ASSUME NEW e \in DraftIds, InterruptsAnswer(w, e)
        PROVE  txn' = txn /\ (drafts'[d] = "abandoned" => drafts[d] = "abandoned")
    BY <1>0, <1>3 DEF InterruptsAnswer
  <1>4. CASE RouterCompletes(w) \/ CompletesDraft(w)
    BY <1>0, <1>4 DEF RouterCompletes, CompletesDraft
  <1>5. ASSUME NEW e \in DraftIds, NEW committed \in BOOLEAN, Imports(w, e, committed)
        PROVE  txn'[d] = txn[d] /\ (drafts'[d] = "abandoned" => drafts[d] = "abandoned")
    <2>1. e # d
      BY <1>0, <1>5 DEF Imports, CallHasRole
    <2>2. txn' \in {txn, CommittedNow(e)} /\ drafts' \in {drafts, [drafts EXCEPT ![e] = "completed"]}
      BY <1>5 DEF Imports
    <2> QED
      BY <1>0, <2>1, <2>2 DEF CommittedNow
  <1>6. CASE Commits(w)
    <2>1. CommitRequested(call[w].event) /\ EventStands(call[w].event)
      BY <1>0, <1>6 DEF Commits, CallAt, CallStands
    <2>2. role[call[w].event.draft] \in {"candidate", "confirm"}
      BY <1>0, <2>1 DEF CommitRequested, EventStands, CallHasRole, EventHasRole, RoleOf
    <2> QED
      BY <1>0, <1>6, <2>2 DEF Commits, CommittedNow
  <1>7. CASE Reverses(w)
    <2>1. role[call[w].base.draft] = "confirm"
      BY <1>0, <1>7 DEF Reverses, CallAt, CallStands, CallHasRole, HasRole
    <2> QED
      BY <1>0, <1>7, <2>1 DEF Reverses
  <1>8. CASE Discards(w)
    BY <1>0, <1>8 DEF Discards, StatusAfterCancel
  <1>9. CASE RouterCommits(w)
    <2>1. call[w].step \in {"answering", "interrupting", "confirming"} /\ drafts' = drafts
          /\ txn' = CommittedNow(RouterDraft(w))
      BY <1>9 DEF RouterCommits
    <2>2. CASE call[w].step = "answering"
      BY <1>0, <1>9, <2>1, <2>2 DEF RouterDraft, CallAt, CommittedNow
    <2>3. CASE call[w].step # "answering"
      <3>1. RouterDraft(w) = call[w].target /\ role[call[w].target] \in {"interrupt", "batch"}
        BY <1>0, <2>1, <2>3 DEF RouterDraft, CallAt, CallHasRole
      <3> QED
        BY <1>0, <2>1, <3>1 DEF CommittedNow
    <2> QED
      BY <2>2, <2>3
  <1> QED
    BY <1>1, <1>2, <1>3, <1>4, <1>5, <1>6, <1>7, <1>8, <1>9, StepChanges DEF MakesDrafts

\* A call that is to end a clarification goes on doing so.
LEMMA EndingGoesOn ==
  ASSUME ConversationTypeOK, CallsStand, NEW w \in Updates, Keeps(call[w]), Ending(call[w]),
         RouterNext(w) \/ EngineNext(w) \/ CallDies(w), ~ CallDies(w), ~ Writes(w),
         Effective.state = "AWAITING_CLARIFICATION"
  PROVE  Ending(call'[w])
  <1>0. call[w] \in CallStates /\ CallStands(call[w]) /\ Effective \in Records
    BY CallIs, EffectiveIs DEF CallsStand
  <1>1. CASE call[w].step = "committed"
    <2>1. PICK c \in CallStates : RouterCompleteMakes(w, c)
      BY <1>1, StepsOn, RouterCompletesIs
    <2>2. call[w].event.type = "CLARIFICATION_ANSWER" /\ call[w].event.holds
      BY <1>1 DEF Ending
    <2> QED
      BY <2>1, <2>2, GoOnIs DEF RouterCompleteMakes, Ending, SameWork
  <1>2. CASE call[w].step = "event"
    <2>1. call[w].event.type = "CLARIFICATION_ANSWER" /\ call[w].event.holds
      BY <1>2 DEF Ending
    <2>2. EventStands(call[w].event) /\ call[w].event \in ConversationEvents
      BY <1>0 DEF CallStands, CallStates
    <2>3. PICK c \in CallStates : EvaluateMakes(w, c)
      BY <1>2, <2>2, StepsOn, EvaluateIs
    <2>4. Allowed(Effective, call[w].event)
      BY <2>1 DEF Allowed
    <2>5. FirstEffect(Effective, call[w].event) = "writing"
      BY <1>0, <2>1, <2>2, FirstEffectIs DEF EventStands, CommitRequested
    <2> QED
      BY <2>1, <2>3, <2>4, <2>5, GoOnIs DEF EvaluateMakes, Ending
  <1>3. CASE call[w].step = "writing"
    <2>1. record.version # call[w].expected
      BY <1>3, StepsOn DEF WriteRefused
    <2>2. call[w].base.state # "IDLE"
      BY <1>0, <1>3 DEF Ending, CallStands, EngineSteps, Allowed
    <2>3. record = IdleState
      BY <1>3, <2>1, <2>2 DEF Keeps, EngineSteps
    <2> QED
      BY <2>3, EffectiveIs, IdleStateIs
  <1> QED
    BY <1>1, <1>2, <1>3 DEF Ending

LEMMA NewDraftsPend ==
  ASSUME ConversationTypeOK, NEW w \in Updates, MakesDrafts(w), NEW d \in DraftIds
  PROVE  drafts'[d] = "abandoned" => drafts[d] = "abandoned"
  <1>0. drafts \in [DraftIds -> {"none", "pending", "completed", "abandoned"}]
    BY DEF ConversationTypeOK
  <1>1. ASSUME NEW e \in DraftIds, NEW cl, FreshCandidate(w, e, cl) \/ InterruptsAnswer(w, e)
        PROVE  drafts'[d] = "abandoned" => drafts[d] = "abandoned"
    BY <1>0, <1>1 DEF FreshCandidate, InterruptsAnswer
  <1>2. ASSUME NEW low \in Seq(DraftIds), NEW high \in SUBSET DraftIds, FreshBatch(w, low, high)
        PROVE  drafts'[d] = "abandoned" => drafts[d] = "abandoned"
    BY <1>0, <1>2 DEF FreshBatch
  <1> QED
    BY <1>1, <1>2 DEF MakesDrafts

LEMMA CalmStays ==
  ASSUME ConversationTypeOK, CallsStand, ContextStands, RolesStand, AloneStands, CalmStands,
         ConversationNext
  PROVE  CalmStands'
  <1>1. PICK role \in [DraftIds -> Roles] : RolesFit(role)
    BY DEF RolesStand
  <1>2. /\ \A u \in Updates : call[u] \in CallStates /\ CallStands(call[u]) /\ CallHasRole(call[u], role)
        /\ \A u \in Updates : Undid(call[u], txn)
        /\ \A d \in DraftIds : DraftFits(drafts[d], txn[d], role[d])
        /\ HasRole(record, role) /\ record \in Records
        /\ drafts \in [DraftIds -> {"none", "pending", "completed", "abandoned"}]
        /\ txn \in [DraftIds -> {"none", "live", "deleted"}]
    BY <1>1, CallIs DEF CallsStand, RolesFit, ConversationTypeOK
  <1>3. ASSUME NEW w \in Updates, RouterNext(w) \/ EngineNext(w) \/ CallDies(w), Calm'
        PROVE  /\ Effective'.state = "AWAITING_CLARIFICATION"
                    => Open(record.draft)' \/ \E u \in Updates : Ending(call[u])'
               /\ \A u \in Updates : OpenFor(call[u])'
               /\ \A d \in DraftIds : drafts'[d] = "abandoned" => txn'[d] # "live"
    <2>1. PICK c \in CallStates : GoOn(w, c) /\ CallStands(c) /\ Sources(w, c)
      BY <1>3, CallGoesOn
    <2>2. /\ call'[w] = c
          /\ \A v \in Updates : v # w => call'[v] = call[v]
      BY <2>1, GoOnIs
    <2>3. Calm /\ ~ CallDies(w)
      BY <1>3, HappenedGrows DEF Calm, CallDies
    <2>4. /\ \A v \in Updates : v # w => ~ UnderWay(v)
          /\ Keeps(call[w])
      <3>1. "overlap" \notin happened'
        BY <1>3 DEF Calm
      <3> QED
        BY <1>3, <3>1, AloneStep DEF AloneStands
    <2>5. Effective.state = "AWAITING_CLARIFICATION" =>
            /\ Effective = record /\ record.draft \in DraftIds /\ role[record.draft] = "clarify"
            /\ Open(record.draft) \/ Ending(call[w])
      <3>1. \A v \in Updates : v # w => ~ Ending(call[v])
        BY <2>4 DEF UnderWay, Ending
      <3> QED
        BY <1>2, <2>3, <3>1, EffectiveIs DEF CalmStands, HasRole, Records
    \* What the step does to a draft that is to be clarified.
    <2>6. ASSUME NEW d \in DraftIds, role[d] \in {"none", "clarify"}, Open(d)
          PROVE  \/ Open(d)'
                 \/ RouterCommits(w) /\ call[w].step = "answering"
                 \/ Discards(w) /\ call[w].base.draft = d
      BY <1>1, <1>3, <2>6, OpenStays DEF Open
    <2>7. ~ (call[w].step = "discarding" /\ ~ Discards(w))
      BY <1>3, <2>3, StepsOn
    <2>8. c.step = "answering" => Open(c.seen.draft)'
      <3>1. SUFFICES ASSUME c.step = "answering"
                     PROVE  Open(c.seen.draft)'
        OBVIOUS
      <3>2. call[w].step = "new" /\ c.seen = Effective /\ Effective.state = "AWAITING_CLARIFICATION"
        BY <2>1, <3>1 DEF Sources, CallStands
      <3>3. Open(record.draft)
        BY <2>5, <3>2 DEF Ending
      <3>4. ~ (RouterCommits(w) /\ call[w].step = "answering") /\ ~ Discards(w)
        BY <3>2 DEF Discards, CallAt
      <3> QED
        BY <2>5, <2>6, <3>2, <3>3, <3>4
    <2>9. (c.step = "discarding" /\ c.base.state = "AWAITING_CLARIFICATION") => txn'[c.base.draft] = "none"
      <3>1. SUFFICES ASSUME c.step = "discarding", c.base.state = "AWAITING_CLARIFICATION"
                     PROVE  txn'[c.base.draft] = "none"
        OBVIOUS
      <3>2. /\ call[w].step = "event" /\ c.base = Effective /\ call[w].event.type = "CANCELLATION"
        BY <1>2, <2>1, <3>1 DEF Sources, CallStands, EngineSteps
      <3>3. Open(record.draft)
        BY <2>5, <3>1, <3>2 DEF Ending
      <3>4. ~ (RouterCommits(w) /\ call[w].step = "answering") /\ ~ Discards(w)
        BY <3>2 DEF Discards, CallAt
      <3> QED
        BY <2>5, <2>6, <3>1, <3>2, <3>3, <3>4 DEF Open
    <2>10. (c.step \in {"event", "writing"} /\ c.event.classification = "draft_pending_clarification")
             => Open(c.event.draft)'
      <3>1. SUFFICES ASSUME c.step \in {"event", "writing"},
                            c.event.classification = "draft_pending_clarification"
                     PROVE  Open(c.event.draft)'
        OBVIOUS
      <3>2. /\ c.event.type = "CANDIDATE_RESOLVED" /\ ~ CommitRequested(c.event)
            /\ c.event.draft \in DraftIds
        BY <2>1, <3>1 DEF CallStands, EventStands, CommitRequested, CallStates, ConversationEvents
      <3>3. /\ Open(c.event.draft) /\ role[c.event.draft] \in {"none", "clarify"}
            /\ call[w].step \in {"extracting", "event", "writing"}
        <4>1. CASE call[w].step = "extracting"
          <5>1. drafts[c.event.draft] = "none"
            BY <1>3, <2>2, <3>2, <4>1, RaisedFresh
          <5> QED
            BY <1>2, <3>2, <4>1, <5>1 DEF DraftFits, Open
        <4>2. CASE call[w].step # "extracting"
          <5>1. c.event = call[w].event
            BY <2>1, <3>2, <4>2 DEF Sources
          <5>2. call[w].step \in {"event"} \cup EngineSteps
            BY <1>2, <3>2, <5>1 DEF CallStands
          <5>3. call[w].step \in {"event", "writing"}
            BY <1>2, <3>2, <5>1, <5>2 DEF CallStands, EngineSteps
          <5>4. Open(c.event.draft)
            BY <2>3, <3>1, <5>1, <5>3 DEF CalmStands, OpenFor
          <5>5. role[c.event.draft] = "clarify"
            BY <1>2, <3>1, <3>2, <5>1 DEF CallHasRole, EventHasRole, RoleOf
          <5> QED
            BY <5>3, <5>4, <5>5
        <4> QED
          BY <4>1, <4>2
      <3>4. ~ (RouterCommits(w) /\ call[w].step = "answering") /\ ~ Discards(w)
        BY <3>3 DEF Discards, CallAt
      <3> QED
        BY <2>6, <3>2, <3>3, <3>4
    <2>11. (c.step = "writing" /\ c.event.type = "CLARIFICATION_ANSWER" /\ ~ c.event.holds)
             => Open(c.base.draft)'
      <3>1. SUFFICES ASSUME c.step = "writing", c.event.type = "CLARIFICATION_ANSWER", ~ c.event.holds
                     PROVE  Open(c.base.draft)'
        OBVIOUS
      <3>2. /\ c.event = call[w].event /\ EventStands(c.event) /\ ~ CommitRequested(c.event)
            /\ c.base.state = "AWAITING_CLARIFICATION"
        BY <2>1, <3>1 DEF Sources, CallStands, EngineSteps, EventStands, CommitRequested, Allowed
      <3>3. \/ call[w].step = "event" /\ c.base = Effective
            \/ call[w].step = "writing" /\ c.base = call[w].base
        BY <1>2, <2>1, <3>1, <3>2 DEF Sources, CallStands, EngineSteps
      <3>4. /\ Open(c.base.draft) /\ c.base.draft \in DraftIds /\ role[c.base.draft] = "clarify"
        <4>1. CASE call[w].step = "event" /\ c.base = Effective
          BY <2>5, <3>1, <3>2, <4>1 DEF Ending
        <4>2. CASE call[w].step = "writing" /\ c.base = call[w].base
          <5>1. Open(c.base.draft)
            BY <2>3, <3>1, <3>2, <4>2 DEF CalmStands, OpenFor
          <5>2. c.base.draft \in DraftIds
            BY DEF CallStates, Records
          <5>3. role[c.base.draft] = "clarify"
            BY <1>2, <3>2, <4>2 DEF CallHasRole, HasRole
          <5> QED
            BY <5>1, <5>2, <5>3
        <4> QED
          BY <3>3, <4>1, <4>2
      <3>5. ~ (RouterCommits(w) /\ call[w].step = "answering") /\ ~ Discards(w)
        BY <3>3 DEF Discards, CallAt
      <3> QED
        BY <2>6, <3>4, <3>5
    <2>12. \A u \in Updates : OpenFor(call[u])'
      <3>1. \A v \in Updates : v # w => OpenFor(call[v])'
        BY <2>2, <2>4 DEF UnderWay, OpenFor
      <3> QED
        BY <2>2, <2>8, <2>9, <2>10, <2>11, <3>1 DEF OpenFor
    <2>13. \A d \in DraftIds : drafts'[d] = "abandoned" => txn'[d] # "live"
      <3> TAKE d \in DraftIds
      <3>1. SUFFICES ASSUME drafts'[d] = "abandoned"
                     PROVE  txn'[d] # "live"
        OBVIOUS
      <3>2. CASE txn[d] = "deleted"
        BY <3>2, TransactionsStay, <1>3 DEF ConversationNext
      <3>3. CASE txn[d] # "deleted" /\ drafts[d] = "abandoned"
        <4>1. role[d] = "clarify" /\ txn[d] # "live"
          BY <1>2, <2>3, <3>3 DEF DraftFits, CalmStands
        <4>2. txn'[d] = txn[d]
          <5>1. SUFFICES ASSUME txn'[d] # txn[d]
                         PROVE  FALSE
            OBVIOUS
          <5>2. call[w].step = "answering" /\ call[w].seen.draft = d
            BY <1>1, <1>3, <4>1, <5>1, OpenStays
          <5> QED
            BY <2>3, <3>3, <5>2 DEF CalmStands, OpenFor, Open
        <4> QED
          BY <4>1, <4>2
      <3>4. CASE txn[d] # "deleted" /\ drafts[d] # "abandoned"
        <4>1. CASE MakesDrafts(w)
          BY <1>3, <3>1, <3>4, <4>1, NewDraftsPend
        <4>2. CASE ~ MakesDrafts(w)
          <5>1. role[d] \in {"clarify", "confirm"} /\ (role[d] = "confirm" => txn'[d] = "deleted")
            BY <1>1, <1>3, <3>1, <4>2, DraftsFit DEF DraftFits
          <5>2. CASE role[d] = "confirm"
            BY <5>1, <5>2
          <5>3. CASE role[d] = "clarify"
            <6>1. Discards(w) /\ call[w].base.draft = d
              BY <1>1, <1>3, <3>1, <3>4, <5>3, OpenStays
            <6>2. /\ call[w].step = "discarding" /\ txn' = txn
                  /\ call[w].base.state \in {"AWAITING_CONFIRMATION", "AWAITING_CLARIFICATION"}
              BY <1>2, <6>1 DEF Discards, CallAt, CallStands
            <6>3. call[w].base.state # "AWAITING_CONFIRMATION"
              BY <1>2, <3>4, <6>1, <6>2 DEF Undid
            <6> QED
              BY <2>3, <6>1, <6>2, <6>3 DEF CalmStands, OpenFor
          <5> QED
            BY <5>1, <5>2, <5>3
        <4> QED
          BY <4>1, <4>2
      <3> QED
        BY <3>2, <3>3, <3>4
    <2>14. Effective'.state = "AWAITING_CLARIFICATION"
             => Open(record.draft)' \/ \E u \in Updates : Ending(call[u])'
      <3>1. SUFFICES ASSUME Effective'.state = "AWAITING_CLARIFICATION"
                     PROVE  Open(record.draft)' \/ Ending(c)
        BY <2>2 DEF Ending
      <3>2. CASE UNCHANGED <<record, overdue>> /\ ~ Writes(w)
        <4>1. Effective.state = "AWAITING_CLARIFICATION" /\ record' = record
          BY <3>1, <3>2, EffectiveStays
        <4>2. CASE Ending(call[w])
          BY <1>3, <2>2, <2>3, <2>4, <3>2, <4>1, <4>2, EndingGoesOn
        <4>3. CASE Open(record.draft)
          <5>1. \/ Open(record.draft)'
                \/ RouterCommits(w) /\ call[w].step = "answering"
                \/ Discards(w) /\ call[w].base.draft = record.draft
            <6>1. record.draft \in DraftIds /\ role[record.draft] = "clarify"
              BY <2>5, <4>1
            <6> QED
              BY <1>1, <1>3, <4>1, <4>3, <6>1, OpenStays DEF Open
          <5>2. CASE RouterCommits(w) /\ call[w].step = "answering"
            BY <2>2, <5>2, RouterCommitsIs, GoOnIs DEF RouterCommitMakes, Ending
          <5>3. CASE Discards(w)
            <6>1. "writing" \in CallSteps
              BY DEF CallSteps
            <6>2. PICK k \in CallStates : GoOn(w, k) /\ k.step = "writing" /\ SameWork(k, call[w])
              BY <5>3, <6>1, NextStepIs DEF Discards
            <6>3. call[w].event.type = "CANCELLATION"
              BY <1>2, <5>3 DEF Discards, CallAt, CallStands
            <6> QED
              BY <2>2, <6>2, <6>3, GoOnIs DEF SameWork, Ending
          <5> QED
            BY <5>1, <5>2, <5>3
        <4> QED
          BY <2>5, <4>1, <4>2, <4>3
      <3>3. CASE Writes(w)
        <4>1. /\ call[w].step = "writing" /\ Allowed(call[w].base, call[w].event) /\ EventStands(call[w].event)
              /\ call[w].next = NextState(call[w].base, call[w].event)
              /\ call[w].base \in Records /\ call[w].event \in ConversationEvents
          BY <1>2, <3>3 DEF Writes, CallAt, CallStands, EngineSteps, CallStates
        <4>2. /\ record'.state = "AWAITING_CLARIFICATION" /\ record'.draft = call[w].next.draft
              /\ call[w].next.state = "AWAITING_CLARIFICATION" /\ drafts' = drafts /\ txn' = txn
          <5>1. Effective' = record'
            BY <3>3 DEF Writes, Effective
          <5> QED
            BY <3>1, <3>3, <5>1, WritesIs DEF Writes
        <4>3. To("IDLE").state = "IDLE"
          BY ToIs DEF States
        <4>4. \/ /\ call[w].event.type = "CANDIDATE_RESOLVED" /\ call[w].next.draft = call[w].event.draft
                 /\ call[w].event.classification \notin {"auto_commit", "flagged_review"}
              \/ /\ call[w].event.type = "CLARIFICATION_ANSWER" /\ ~ call[w].event.holds
                 /\ call[w].next.draft = call[w].base.draft
          BY <4>1, <4>2, <4>3, NextStateHas
        <4>5. Open(call[w].next.draft)
          <5>1. CASE call[w].event.type = "CANDIDATE_RESOLVED"
            <6>1. call[w].event.classification = "draft_pending_clarification"
              BY <4>1, <4>4, <5>1 DEF EventStands, ConversationEvents, Classifications
            <6> QED
              BY <2>3, <4>1, <4>4, <5>1, <6>1 DEF CalmStands, OpenFor
          <5>2. CASE call[w].event.type # "CANDIDATE_RESOLVED"
            BY <2>3, <4>1, <4>4, <5>2 DEF CalmStands, OpenFor
          <5> QED
            BY <5>1, <5>2
        <4> QED
          BY <4>2, <4>5 DEF Open
      <3> QED
        BY <1>3, <3>2, <3>3, RecordChanges
    <2> QED
      BY <2>12, <2>13, <2>14
  <1>4. CASE TimePasses \/ Drops \/ AllCallsDone
    <2>1. /\ call' = call /\ drafts' = drafts /\ txn' = txn /\ happened \subseteq happened'
          /\ AllCallsDone => record' = record /\ overdue' = overdue
      BY <1>4 DEF TimePasses, Drops, AllCallsDone, conversationVars
    <2>2. (TimePasses \/ Drops) => Effective'.state = "IDLE"
      <3>1. CASE TimePasses
        <4>1. Effective' = [IdleState EXCEPT !.version = record.version]
          BY <3>1 DEF TimePasses, Effective
        <4> QED
          BY <1>2, <4>1, IdleStateIs DEF Records
      <3>2. CASE Drops
        BY <3>2, IdleStateIs DEF Drops, Effective
      <3> QED
        BY <3>1, <3>2
    <2>3. AllCallsDone => Effective' = Effective
      BY <2>1, EffectiveStays
    <2>4. Calm' => Calm
      BY <2>1 DEF Calm
    <2> QED
      BY <1>4, <2>1, <2>2, <2>3, <2>4 DEF CalmStands, OpenFor, Open
  <1>5. ASSUME NEW w \in Updates, RouterNext(w) \/ EngineNext(w) \/ CallDies(w)
        PROVE  CalmStands'
    BY <1>3, <1>5 DEF CalmStands
  <1> QED
    BY <1>4, <1>5 DEF ConversationNext

(***************************************************************************)
(* The invariant of the conversation, and what follows from it.            *)
(***************************************************************************)
ConversationInv ==
  /\ ConversationTypeOK
  /\ CallsStand
  /\ ContextStands
  /\ VersionStands
  /\ AloneStands
  /\ RolesStand
  /\ FreshStands
  /\ UndoneStands
  /\ CalmStands

LEMMA ConversationStarts == ConversationInit => ConversationInv
  <1> SUFFICES ASSUME ConversationInit
               PROVE  ConversationInv
    OBVIOUS
  <1> USE NewCallIs, IdleStateIs, NoEventIs, EndedStands
  <1>1. ConversationTypeOK
    BY DEF ConversationInit, ConversationTypeOK
  <1>2. /\ \A u \in Updates : call[u] = NewCall
        /\ \A d \in DraftIds : drafts[d] = "none" /\ txn[d] = "none"
        /\ record = IdleState /\ happened = {} /\ overdue = FALSE
    BY DEF ConversationInit
  <1>3. CallsStand /\ VersionStands
    BY <1>2 DEF CallsStand, VersionStands, ExpectsWhatItSaw, EngineSteps
  <1>4. ContextStands
    BY <1>2 DEF ContextStands, CallUsable, RecordUsable
  <1>5. AloneStands
    BY <1>2 DEF AloneStands, UnderWay, Keeps, EngineSteps
  <1>6. RolesStand
    <2> DEFINE role == [d \in DraftIds |-> "none"]
    <2>1. role \in [DraftIds -> Roles] /\ \A d \in DraftIds : role[d] = "none"
      BY DEF Roles
    <2> HIDE DEF role
    <2>2. HasRole(IdleState, role)
      BY IdleHasRole
    <2>3. CallHasRole(NewCall, role) /\ Undid(NewCall, txn)
      BY <2>2 DEF CallHasRole, EventHasRole, Undid
    <2>4. \A d \in DraftIds : DraftFits(drafts[d], txn[d], role[d])
      BY <1>2, <2>1 DEF DraftFits
    <2> QED
      BY <1>2, <2>1, <2>2, <2>3, <2>4 DEF RolesStand, RolesFit
  <1>7. FreshStands
    BY <1>2 DEF FreshStands, Raised
  <1>8. UndoneStands
    BY <1>2 DEF UndoneStands
  <1>9. CalmStands
    <2>1. Effective.state = "IDLE"
      BY <1>1, <1>2, EffectiveIs
    <2>2. \A u \in Updates : OpenFor(call[u])
      BY <1>2 DEF OpenFor
    <2> QED
      BY <1>2, <2>1, <2>2 DEF CalmStands
  <1> QED
    BY <1>1, <1>3, <1>4, <1>5, <1>6, <1>7, <1>8, <1>9 DEF ConversationInv

LEMMA ConversationStays ==
  ConversationInv /\ [ConversationNext]_conversationVars => ConversationInv'
  <1>1. ASSUME ConversationInv, ConversationNext
        PROVE  ConversationInv'
    <2>1. ConversationTypeOK' /\ CallsStand'
      BY <1>1, CallsStay DEF ConversationInv
    <2>2. ContextStands' /\ VersionStands' /\ AloneStands'
      BY <1>1, ContextStays, VersionStays, AloneStays DEF ConversationInv
    <2>3. RolesStand' /\ FreshStands' /\ UndoneStands'
      BY <1>1, RolesStay, FreshStays, UndoneStays DEF ConversationInv
    <2>4. CalmStands'
      BY <1>1, CalmStays DEF ConversationInv
    <2> QED
      BY <2>1, <2>2, <2>3, <2>4 DEF ConversationInv
  <1>2. ASSUME ConversationInv, UNCHANGED conversationVars
        PROVE  ConversationInv'
    <2>1. /\ record' = record /\ overdue' = overdue /\ drafts' = drafts /\ txn' = txn
          /\ call' = call /\ happened' = happened
      BY <1>2 DEF conversationVars
    <2>2. AllCallsDone \/ ~ AllCallsDone
      OBVIOUS
    <2>3. Effective' = Effective
      BY <2>1, EffectiveStays
    <2>4. ConversationTypeOK' /\ CallsStand' /\ ContextStands' /\ VersionStands'
      BY <1>2, <2>1 DEF ConversationInv, ConversationTypeOK, CallsStand, ContextStands, VersionStands,
                        ExpectsWhatItSaw
    <2>5. AloneStands'
      BY <1>2, <2>1, <2>3 DEF ConversationInv, AloneStands, UnderWay, Keeps
    <2>6. RolesStand'
      BY <1>2, <2>1 DEF ConversationInv, RolesStand, RolesFit
    <2>7. FreshStands' /\ UndoneStands'
      BY <1>2, <2>1 DEF ConversationInv, FreshStands, FreshFor, UndoneStands
    <2>8. CalmStands'
      BY <1>2, <2>1, <2>3 DEF ConversationInv, CalmStands, Calm, Open, OpenFor
    <2> QED
      BY <2>4, <2>5, <2>6, <2>7, <2>8 DEF ConversationInv
  <1> QED
    BY <1>1, <1>2

\* The inductive invariant: types, what calls hold, the context, the
\* versions, the calls of a sequence, roles, fresh drafts, undone records and
\* open clarifications, for any number of updates and drafts.
THEOREM ConversationStands == ConversationSpec => []ConversationInv
  <1>1. ConversationInit => ConversationInv
    BY ConversationStarts
  <1>2. ConversationInv /\ [ConversationNext]_conversationVars => ConversationInv'
    BY ConversationStays
  <1> QED
    BY <1>1, <1>2, PTL DEF ConversationSpec

\* ContextIsUsable: however calls interleave and die, what the stored state
\* refers to exists: processConversationEvent writes it only after the commit
\* it is about, and the index under review stays in the list.
THEOREM ContextStaysUsable == ConversationSpec => []ContextIsUsable
  <1>1. ConversationInv => ContextIsUsable
    BY DEF ConversationInv, ContextStands, RecordUsable, ContextIsUsable
  <1> QED
    BY <1>1, ConversationStands, PTL

\* DraftsFollowTheConversation: an undone record's draft is abandoned, an
\* abandoned draft left no record in force, and a clarification is about a
\* draft nobody has committed, each as far as calls die or overlap.
THEOREM DraftsStayWithTheConversation == ConversationSpec => []DraftsFollowTheConversation
  <1>1. ConversationInv => DraftsFollowTheConversation
    <2> SUFFICES ASSUME ConversationInv
                 PROVE  DraftsFollowTheConversation
      OBVIOUS
    <2>1. "crash" \notin happened =>
            \A d \in DraftIds :
              txn[d] = "deleted" => \/ drafts[d] = "abandoned"
                                    \/ \E u \in Updates : CallAt(u, "discarding") /\ call[u].base.draft = d
      BY DEF ConversationInv, UndoneStands, Discarding, CallAt
    <2>2. happened \subseteq {"drop"} => \A d \in DraftIds : drafts[d] = "abandoned" => txn[d] # "live"
      BY DEF ConversationInv, CalmStands, Calm
    <2>3. (happened \subseteq {"drop"} /\ Effective.state = "AWAITING_CLARIFICATION") =>
            txn[record.draft] = "none" \/ \E u \in Updates : UnderWay(u)
      BY DEF ConversationInv, CalmStands, Calm, Open, Ending, UnderWay
    <2> QED
      BY <2>1, <2>2, <2>3 DEF DraftsFollowTheConversation
  <1> QED
    BY <1>1, ConversationStands, PTL

\* WritesOverWhatItSaw: compareAndSetState lets a call write only over the
\* state, by name, that its event was evaluated in, for any number of retries.
THEOREM WritesStayOverWhatWasSeen == ConversationSpec => WritesOverWhatItSaw
  <1>1. ConversationInv /\ [ConversationNext]_conversationVars =>
          [\A u \in Updates :
             (Writes(u) /\ "drop" \notin happened) =>
                \/ record.state = call[u].base.state
                \/ call[u].base.state = "IDLE" /\ overdue]_conversationVars
    BY DEF ConversationInv, VersionStands, ExpectsWhatItSaw, EngineSteps, Writes, CallAt
  <1> QED
    BY <1>1, ConversationStands, PTL DEF ConversationSpec, WritesOverWhatItSaw

\* TapsActOnWhatTheyShow: while calls come one after the other, what was
\* checked of a tap when it was routed still holds when its event takes effect.
THEOREM TapsStayOnWhatTheyShow == ConversationSpec => TapsActOnWhatTheyShow
  <1>1. ASSUME ConversationInv, NEW u \in Updates, "overlap" \notin happened
        PROVE  /\ (Reverses(u) /\ call[u].kind = "undo") => call[u].base.draft = call[u].target
               /\ (Writes(u) /\ ReviewedBy(u)) => record.low[record.index] = call[u].target
    <2>1. Keeps(call[u]) /\ CallStands(call[u])
      BY <1>1 DEF ConversationInv, AloneStands, CallsStand
    <2>2. (Reverses(u) /\ call[u].kind = "undo") => call[u].base.draft = call[u].target
      BY <2>1 DEF Reverses, CallAt, CallStands, Keeps, Shows, EngineSteps
    <2>3. (Writes(u) /\ ReviewedBy(u)) => record.low[record.index] = call[u].target
      <3> SUFFICES ASSUME Writes(u), ReviewedBy(u)
                   PROVE  record.low[record.index] = call[u].target
        OBVIOUS
      <3>1. /\ call[u].step = "writing" /\ call[u].event.type = "BATCH_ITEM_REVIEWED"
            /\ record.version = call[u].expected
        BY DEF Writes, ReviewedBy, CallAt
      <3>2. /\ call[u].base.state = "AWAITING_MULTI_ITEM_REVIEW"
            /\ call[u].kind \in {"batch_confirm", "batch_skip"}
        BY <2>1, <3>1 DEF CallStands, EngineSteps, Allowed
      <3>3. record = call[u].base
        BY <2>1, <3>1, <3>2, IdleStateIs DEF Keeps, EngineSteps
      <3> QED
        BY <2>1, <3>1, <3>2, <3>3 DEF Keeps, Shows, EngineSteps
    <2> QED
      BY <2>2, <2>3
  <1>2. ConversationInv /\ [ConversationNext]_conversationVars =>
          [\A u \in Updates :
             "overlap" \notin happened =>
               /\ (Reverses(u) /\ call[u].kind = "undo") => call[u].base.draft = call[u].target
               /\ (Writes(u) /\ ReviewedBy(u)) => record.low[record.index] = call[u].target]_conversationVars
    BY <1>1
  <1> QED
    BY <1>2, ConversationStands, PTL DEF ConversationSpec, TapsActOnWhatTheyShow

(***************************************************************************)
(* From words to a record, however far a reply is from the plain one:      *)
(* what is called ready lacks nothing, what nobody said is not committed.  *)
(***************************************************************************)

\* What a candidate is, whatever the model replied.
ValueKinds == UNION {KindsOf[f] : f \in Details}
Shapes ==
  {c \in [intent : Intents, value : [Details -> ValueKinds], score : [Scored -> Bands]] :
     \A f \in Details : c.value[f] \in KindsOf[f]}

LEMMA DetailsAre ==
  /\ Details = {"amount", "currency", "category", "transactionDate", "counterparty", "merchant"}
  /\ \A f \in Details : "none" \in KindsOf[f] /\ KindsOf[f] \subseteq ValueKinds
  /\ KindsOf["amount"] = {"none", "sound", "negative", "absurd"}
  /\ KindsOf["category"] = {"none", "", "active", "deprecated"}
  /\ KindsOf["transactionDate"] = {"none", "past", "today", "tomorrow", "absurd"}
  /\ KindsOf["currency"] = {"none", "default", "unrated", "unsupported"}
  /\ KindsOf["counterparty"] = {"none", "", "said", "unsaid"}
  /\ KindsOf["merchant"] = {"none", "said", "unsaid"}
  <1>1. Details = {"amount", "currency", "category", "transactionDate", "counterparty", "merchant"}
    BY DEF Details, KindsOf
  <1>2. /\ KindsOf["amount"] = {"none", "sound", "negative", "absurd"}
        /\ KindsOf["category"] = {"none", "", "active", "deprecated"}
        /\ KindsOf["transactionDate"] = {"none", "past", "today", "tomorrow", "absurd"}
        /\ KindsOf["currency"] = {"none", "default", "unrated", "unsupported"}
        /\ KindsOf["counterparty"] = {"none", "", "said", "unsaid"}
        /\ KindsOf["merchant"] = {"none", "said", "unsaid"}
    BY DEF KindsOf
  <1>3. \A f \in Details : "none" \in KindsOf[f]
    BY <1>1, <1>2
  <1>4. \A f \in Details : KindsOf[f] \subseteq ValueKinds
    BY DEF ValueKinds
  <1> QED
    BY <1>1, <1>2, <1>3, <1>4

LEMMA PlainShape ==
  ASSUME NEW i \in Intents
  PROVE  PlainReply(i) \in Shapes
  <1> DEFINE value == [amount |-> IF i \in FINANCIAL_INTENTS THEN "sound" ELSE "none",
                       currency |-> "default", category |-> "active", transactionDate |-> "past",
                       counterparty |-> IF i \in COUNTERPARTY_REQUIRED_INTENTS THEN "said" ELSE "none",
                       merchant |-> "none"]
             score == [f \in Scored |-> "high"]
  <1>1. PlainReply(i) = [intent |-> i, value |-> value, score |-> score]
    BY DEF PlainReply
  <1>2. \A f \in Details : value[f] \in KindsOf[f]
    <2>1. /\ value["amount"] \in {"none", "sound"} /\ value["currency"] = "default"
          /\ value["category"] = "active" /\ value["transactionDate"] = "past"
          /\ value["counterparty"] \in {"none", "said"} /\ value["merchant"] = "none"
      OBVIOUS
    <2> HIDE DEF value
    <2> QED
      BY <2>1, DetailsAre
  <1>3. value = [f \in Details |-> value[f]]
    BY DetailsAre
  <1>4. score \in [Scored -> Bands]
    BY DEF Bands
  <1> HIDE DEF value, score
  <1>5. value \in [Details -> ValueKinds]
    BY <1>2, <1>3, DetailsAre
  <1> QED
    BY <1>1, <1>2, <1>4, <1>5 DEF Shapes

LEMMA DoubtShape ==
  ASSUME NEW c \in Shapes, NEW d \in OneMoreDoubt(c)
  PROVE  d \in Shapes
  <1>1. CASE \E f \in Details : \E k \in KindsOf[f] : d = [c EXCEPT !.value[f] = k]
    <2>0. PICK f \in Details : \E k \in KindsOf[f] : d = [c EXCEPT !.value[f] = k]
      BY <1>1
    <2>1. PICK k \in KindsOf[f] : d = [c EXCEPT !.value[f] = k]
      BY <2>0
    <2>2. k \in ValueKinds
      BY DetailsAre
    <2> QED
      BY <2>1, <2>2 DEF Shapes
  <1>2. CASE \E f \in Scored : \E b \in Bands : d = [c EXCEPT !.score[f] = b]
    <2>1. PICK f \in Scored, b \in Bands : d = [c EXCEPT !.score[f] = b]
      BY <1>2
    <2> QED
      BY <2>1 DEF Shapes
  <1> QED
    BY <1>1, <1>2 DEF OneMoreDoubt

\* The replies of each distance: there is a function that gives them, which
\* can be had for ever greater distances.
NextReplies(g, n) ==
  IF n = 0 THEN {PlainReply(i) : i \in Intents}
  ELSE g[n - 1] \cup UNION {OneMoreDoubt(c) : c \in g[n - 1]}
IsReplies(g) == g = [n \in 0..MaxDoubts |-> NextReplies(g, n)]

LEMMA RepliesExist == \E g : IsReplies(g)
  <1> DEFINE UpTo(g, n) == \A k \in 0..n : g[k] = NextReplies(g, k)
             bad == {n \in Nat : ~\E g : UpTo(g, n)}
  <1>1. ASSUME bad # {} PROVE FALSE
    <2>1. PICK n \in bad : \A m \in bad : n <= m
      <3> HIDE DEF bad
      <3>1. bad \subseteq Nat
        BY DEF bad
      <3> QED
        BY <1>1, <3>1, LeastNatural
    <2>2. CASE n = 0
      <3>1. UpTo([k \in {0} |-> {PlainReply(i) : i \in Intents}], 0)
        BY DEF NextReplies
      <3> QED
        BY <2>1, <2>2, <3>1
    <2>3. CASE n # 0
      <3>1. n - 1 \in Nat /\ n - 1 \notin bad
        <4>1. n \in Nat /\ n - 1 \in Nat /\ ~(n <= n - 1)
          BY <2>3
        <4> HIDE DEF bad
        <4> QED
          BY <2>1, <4>1
      <3>2. PICK old : UpTo(old, n - 1)
        BY <3>1
      <3> DEFINE new == [k \in 0..n |-> IF k < n THEN old[k] ELSE NextReplies(old, n)]
      <3>3. ASSUME NEW k \in 0..n PROVE new[k] = NextReplies(new, k)
        <4>1. CASE k = 0
          <5>1. 0 \in 0..(n - 1) /\ k < n
            BY <2>3, <4>1
          <5> QED
            BY <3>2, <4>1, <5>1 DEF NextReplies
        <4>2. CASE k # 0
          <5>1. k - 1 \in 0..n /\ k - 1 < n
            BY <3>1, <4>2
          <5>2. new[k - 1] = old[k - 1]
            BY <5>1
          <5>3. new[k] = NextReplies(old, k)
            BY <3>1, <3>2
          <5> HIDE DEF new
          <5> QED
            BY <4>2, <5>2, <5>3 DEF NextReplies
        <4> QED
          BY <4>1, <4>2
      <3> QED
        BY <2>1, <3>3
    <2> QED
      BY <2>2, <2>3
  <1>2. MaxDoubts \in Nat
    BY ExtractionAssumption
  <1>3. PICK g : UpTo(g, MaxDoubts)
    BY <1>1, <1>2
  <1> DEFINE all == [n \in 0..MaxDoubts |-> g[n]]
  <1>4. ASSUME NEW n \in 0..MaxDoubts PROVE all[n] = NextReplies(all, n)
    <2>1. n # 0 => n - 1 \in 0..MaxDoubts
      BY <1>2
    <2> QED
      BY <1>3, <2>1 DEF NextReplies
  <1>5. all = [n \in 0..MaxDoubts |-> NextReplies(all, n)]
    <2>1. all = [n \in 0..MaxDoubts |-> all[n]]
      OBVIOUS
    <2> HIDE DEF all
    <2> QED
      BY <1>4, <2>1
  <1> QED
    BY <1>5 DEF IsReplies

LEMMA RepliesUnfold == IsReplies(Replies)
  BY RepliesExist DEF Replies, IsReplies, NextReplies

\* Every reply is of that shape.
LEMMA RepliesShape == Messages \subseteq Shapes /\ ShortAnswers \subseteq Shapes
  <1> DEFINE bad == {n \in 0..MaxDoubts : ~(Replies[n] \subseteq Shapes)}
  <1>1. \A n \in 0..MaxDoubts : Replies[n] = NextReplies(Replies, n)
    BY RepliesUnfold DEF IsReplies
  <1>2. ASSUME bad # {} PROVE FALSE
    <2>1. PICK n \in bad : \A m \in bad : n <= m
      <3> HIDE DEF bad
      <3>1. bad \subseteq Nat
        BY ExtractionAssumption DEF bad
      <3> QED
        BY <1>2, <3>1, LeastNatural
    <2>2. CASE n = 0
      <3>1. Replies[0] = {PlainReply(i) : i \in Intents}
        BY <1>1, <2>1, <2>2 DEF NextReplies
      <3>2. Replies[0] \subseteq Shapes
        BY <3>1, PlainShape
      <3> QED
        BY <2>1, <2>2, <3>2
    <2>3. CASE n # 0
      <3>1. n - 1 \in 0..MaxDoubts /\ ~(n <= n - 1)
        BY <2>3, ExtractionAssumption
      <3>2. Replies[n - 1] \subseteq Shapes
        BY <2>1, <3>1
      <3>3. Replies[n] = Replies[n - 1] \cup UNION {OneMoreDoubt(c) : c \in Replies[n - 1]}
        BY <1>1, <2>1, <2>3 DEF NextReplies
      <3>4. Replies[n] \subseteq Shapes
        BY <3>2, <3>3, DoubtShape
      <3> QED
        BY <2>1, <3>4
    <2> QED
      BY <2>2, <2>3
  <1>3. MaxDoubts \in 0..MaxDoubts /\ 1 \in 0..MaxDoubts
    BY ExtractionAssumption
  <1> QED
    BY <1>2, <1>3 DEF Messages, ShortAnswers

\* What the layers leave of a candidate: nothing absurd, nothing nobody said,
\* nothing that was guessed.
Trusted ==
  {c \in Shapes :
     /\ c.value["amount"] # "absurd" /\ c.value["transactionDate"] # "absurd"
     /\ c.value["merchant"] # "unsaid"
     /\ \A f \in Details : c.score[f] = "low" => c.value[f] = "none"}

LEMMA ClearedShape ==
  ASSUME NEW c \in Shapes, NEW gone
  PROVE  /\ Cleared(c, gone) \in Shapes
         /\ Cleared(c, gone).intent = c.intent /\ Cleared(c, gone).score = c.score
         /\ \A f \in Details :
              Cleared(c, gone).value[f] = IF f \in gone THEN "none" ELSE c.value[f]
  <1> DEFINE value == [f \in Details |-> IF f \in gone THEN "none" ELSE c.value[f]]
  <1>1. Cleared(c, gone) = [c EXCEPT !.value = value]
    BY DEF Cleared
  <1>2. c \in [intent : Intents, value : [Details -> ValueKinds], score : [Scored -> Bands]]
    BY DEF Shapes
  <1>3. \A f \in Details : value[f] \in KindsOf[f] /\ value[f] \in ValueKinds
    BY DetailsAre DEF Shapes
  <1>4. /\ value \in [Details -> ValueKinds]
        /\ \A f \in Details : value[f] = IF f \in gone THEN "none" ELSE c.value[f]
    BY <1>3
  <1> HIDE DEF value
  <1>5. /\ Cleared(c, gone) \in [intent : Intents, value : [Details -> ValueKinds], score : [Scored -> Bands]]
        /\ Cleared(c, gone).intent = c.intent /\ Cleared(c, gone).score = c.score
        /\ Cleared(c, gone).value = value
    BY <1>1, <1>2, <1>4
  <1> QED
    BY <1>3, <1>4, <1>5 DEF Shapes

LEMMA ScreenedTrusted ==
  ASSUME NEW c \in Shapes
  PROVE  Screened(c) \in Trusted
  <1> DEFINE gated == IntentGate(c)
             grounded == Grounded(gated)
             scored == ConfidenceGate(grounded)
             bounded == SanityBounds(scored)
  <1>0. /\ "amount" \in Details /\ "transactionDate" \in Details /\ "merchant" \in Details
    BY DetailsAre
  <1>1. gated \in Shapes
    <2>1. [c EXCEPT !.intent = "UNKNOWN"] \in Shapes
      BY DEF Shapes, Intents
    <2>2. Cleared([c EXCEPT !.intent = "UNKNOWN"],
                  {"amount", "currency", "transactionDate", "category", "counterparty"}) \in Shapes
      BY <2>1, ClearedShape
    <2> QED
      BY <2>2 DEF IntentGate
  <1> HIDE DEF gated
  <1>2. grounded \in Shapes /\ grounded.value["merchant"] # "unsaid"
    <2> DEFINE gone == {f \in {"merchant", "counterparty"} : Is(gated, f, {"unsaid"})}
    <2>1. /\ grounded \in Shapes
          /\ \A f \in Details : grounded.value[f] = IF f \in gone THEN "none" ELSE gated.value[f]
      BY <1>1, ClearedShape DEF Grounded
    <2>2. gated.value["merchant"] = "unsaid" => "merchant" \in gone
      BY DEF Is
    <2> HIDE DEF gone, grounded
    <2> QED
      BY <1>0, <2>1, <2>2
  <1> HIDE DEF grounded
  <1>3. /\ scored \in Shapes /\ scored.value["merchant"] # "unsaid"
        /\ \A f \in Details : scored.score[f] = "low" => scored.value[f] = "none"
    <2> DEFINE gone == {f \in Details : grounded.score[f] = "low"}
    <2>1. /\ scored \in Shapes /\ scored.score = grounded.score
          /\ \A f \in Details : scored.value[f] = IF f \in gone THEN "none" ELSE grounded.value[f]
      BY <1>2, ClearedShape DEF ConfidenceGate
    <2> HIDE DEF scored
    <2> QED
      BY <1>0, <1>2, <2>1
  <1> HIDE DEF scored
  <1>4. /\ bounded \in Shapes /\ bounded.value["merchant"] # "unsaid"
        /\ \A f \in Details : bounded.score[f] = "low" => bounded.value[f] = "none"
        /\ bounded.value["amount"] # "absurd" /\ bounded.value["transactionDate"] # "absurd"
    <2> DEFINE gone == {f \in {"amount", "transactionDate"} : Is(scored, f, {"absurd"})}
    <2>1. /\ bounded \in Shapes /\ bounded.score = scored.score
          /\ \A f \in Details : bounded.value[f] = IF f \in gone THEN "none" ELSE scored.value[f]
      BY <1>3, ClearedShape DEF SanityBounds
    <2>2. \A f \in {"amount", "transactionDate"} : scored.value[f] = "absurd" => f \in gone
      BY DEF Is
    <2> HIDE DEF bounded, gone
    <2> QED
      BY <1>0, <1>3, <2>1, <2>2
  <1>5. Screened(c) = bounded
    BY DEF Screened, scored, grounded, gated
  <1> QED
    BY <1>4, <1>5 DEF Trusted

LEMMA CandidatesTrusted == Candidates \subseteq Trusted /\ AnswerCandidates \subseteq Trusted
  <1>1. \A replies : replies \subseteq Shapes => Extracted(replies) \subseteq Trusted
    BY ScreenedTrusted DEF Extracted
  <1> QED
    BY <1>1, RepliesShape DEF Candidates, AnswerCandidates

\* What the commit's own checks let through.
LEMMA CommittedIsSound ==
  ASSUME NEW c, CommitOf(c) = "committed"
  PROVE  ~ Incomplete(c) /\ Sound(c)
  BY DEF CommitOf, RecordExpense, RecordIncome

LEMMA OnlyIncompleteIsRefused ==
  ASSUME NEW c, ~ Incomplete(c)
  PROVE  CommitOf(c) # "incomplete"
  BY DEF CommitOf, RecordExpense, RecordIncome

LEMMA ReadyIsComplete ==
  ASSUME NEW c, Missing(c) = {}, Recordable(c)
  PROVE  ~ Incomplete(c)
  BY DEF Missing, Recordable, Incomplete, Required, FINANCIAL_INTENTS, CATEGORY_REQUIRED_INTENTS,
         COUNTERPARTY_REQUIRED_INTENTS

LEMMA ReadyMissesNothing ==
  ASSUME NEW c, Ready(c)
  PROVE  Missing(c) = {}
  <1>1. ASSUME Missing(c) # {} PROVE Classification(c) = "draft_pending_clarification"
    BY <1>1 DEF Classification
  <1> QED
    BY <1>1 DEF Ready

\* A record that is trusted but for the value of one field, which is at least
\* not absurd, is sound when it is committed.
LEMMA CommittedIsPlausible ==
  ASSUME NEW c \in Shapes, c.value["amount"] # "absurd", c.value["merchant"] # "unsaid",
         CommitOf(c) = "committed"
  PROVE  Is(c, "amount", {"sound"}) /\ ~ FutureLocally(c) /\ ~ Is(c, "merchant", {"unsaid"})
  <1>1. ~ Incomplete(c) /\ Sound(c)
    BY CommittedIsSound
  <1>2. c.value["amount"] \in {"none", "sound", "negative", "absurd"}
    BY DetailsAre DEF Shapes
  <1>3. c.value["amount"] # "none" /\ c.value["amount"] # "negative" /\ ~ FutureLocally(c)
    BY <1>1 DEF Incomplete, Sound, Null, Is
  <1> QED
    BY <1>2, <1>3 DEF Is

\* A trusted record, committed or not, by whatever way but an answer.
LEMMA TrustedIsTold ==
  ASSUME NEW c \in Trusted, NEW way, way # "answered",
         way \in {"auto_commit", "flagged_review", "interrupting"} => Ready(c),
         Committed(way, c, c)
  PROVE  RecordsAreAsTold'
  <1>1. outcome' = [way |-> way, record |-> c, before |-> c, result |-> CommitOf(c)]
    BY DEF Committed
  <1>2. ReadyRecordsAreComplete'
    BY <1>1, ReadyMissesNothing, ReadyIsComplete, OnlyIncompleteIsRefused
    DEF ReadyRecordsAreComplete
  <1>3. NothingInventedIsCommitted'
    <2>1. \A f \in Details : c.score[f] = "low" => Null(c, f)
      BY DEF Trusted, Null, Is
    <2>2. c \in Shapes /\ c.value["amount"] # "absurd" /\ c.value["merchant"] # "unsaid"
      BY DEF Trusted
    <2> QED
      BY <1>1, <2>1, <2>2, CommittedIsPlausible DEF NothingInventedIsCommitted
  <1> QED
    BY <1>2, <1>3 DEF RecordsAreAsTold

\* A message that leads to no commit.
LEMMA UncommittedIsTold ==
  ASSUME NEW way, NEW c, Uncommitted(way, c)
  PROVE  RecordsAreAsTold'
  BY DEF Uncommitted, RecordsAreAsTold, ReadyRecordsAreComplete, NothingInventedIsCommitted

\* What the question is about: nothing there, or the intent.
Asks(c, field) ==
  /\ field \in Details => field \in Missing(c)
  /\ field \in Details \cup {"intent"}
  /\ field = "intent" => c.intent = "UNKNOWN" \/ Missing(c) = {}

LEMMA AsksAboutMissing ==
  ASSUME NEW c
  PROVE  Asks(c, selectClarificationField(c))
  <1>1. Missing(c) \subseteq {"amount", "currency", "transactionDate", "category", "counterparty"}
    BY DEF Missing, Required
  <1>2. "intent" \notin Details /\ Missing(c) \subseteq Details
    BY <1>1, DetailsAre
  <1> DEFINE field == selectClarificationField(c)
  <1>3. \/ field = "intent" /\ c.intent = "UNKNOWN"
        \/ field \in Missing(c)
        \/ field = "intent" /\ Missing(c) \cap {"amount", "currency", "transactionDate", "category",
                                               "counterparty"} = {}
    BY DEF selectClarificationField
  <1> HIDE DEF field
  <1>4. Asks(c, field)
    BY <1>1, <1>2, <1>3 DEF Asks
  <1> QED
    BY <1>4 DEF field

LEMMA FiniteDetails == IsFiniteSet(Details)
  <1>1. \A S : \A x : IsFiniteSet(S) => IsFiniteSet(S \cup {x})
    BY FS_AddElement
  <1>2. IsFiniteSet({} \cup {"amount"} \cup {"currency"} \cup {"category"})
    BY <1>1, FS_EmptySet
  <1>3. IsFiniteSet({} \cup {"amount"} \cup {"currency"} \cup {"category"}
                      \cup {"transactionDate"} \cup {"counterparty"} \cup {"merchant"})
    BY <1>1, <1>2
  <1>4. Details = {} \cup {"amount"} \cup {"currency"} \cup {"category"}
                     \cup {"transactionDate"} \cup {"counterparty"} \cup {"merchant"}
    BY DetailsAre
  <1> QED
    BY <1>3, <1>4

\* The draft of a question is trusted, and what is asked about is what it lacks.
ExtractInv ==
  /\ draft \in Trusted
  /\ question # "idle" => Asks(draft, question)
  /\ RecordsAreAsTold

LEMMA AnsweredIsTold ==
  ASSUME ExtractInv, question # "idle", NEW c \in Trusted, Resolves(c),
         Committed("answered", Merged(c), draft)
  PROVE  RecordsAreAsTold'
  <1> DEFINE m == Merged(c)
  <1>1. outcome' = [way |-> "answered", record |-> m, before |-> draft, result |-> CommitOf(m)]
    BY DEF Committed
  <1>2. /\ draft \in Shapes /\ c \in Shapes /\ Asks(draft, question)
        /\ draft.value["amount"] # "absurd" /\ draft.value["merchant"] # "unsaid"
        /\ c.value["amount"] # "absurd" /\ c.value["merchant"] # "unsaid"
        /\ \A f \in Details : draft.score[f] = "low" => draft.value[f] = "none"
    BY DEF ExtractInv, Trusted
  <1>3. CASE question = "intent"
    <2>1. m = [draft EXCEPT !.intent = c.intent]
      BY <1>3 DEF Merged
    <2>2. m \in Shapes /\ m.value = draft.value /\ m.score = draft.score /\ m.intent = c.intent
      BY <1>2, <2>1 DEF Shapes
    <2> HIDE DEF m
    <2>3. NothingInventedIsCommitted'
      <3>1. \A f \in Details : m.score[f] = "low" => Null(m, f)
        BY <1>2, <2>2 DEF Null, Is
      <3> QED
        BY <1>1, <1>2, <2>2, <3>1, CommittedIsPlausible DEF NothingInventedIsCommitted
    <2>4. ReadyRecordsAreComplete'
      <3>1. ASSUME Recordable(m), Cardinality(Missing(draft)) = 1, draft.intent = m.intent PROVE FALSE
        <4>1. draft.intent # "UNKNOWN"
          BY <3>1 DEF Recordable
        <4>2. Missing(draft) = {}
          BY <1>2, <1>3, <4>1 DEF Asks
        <4> QED
          BY <3>1, <4>2, FS_EmptySet
      <3> QED
        BY <1>1, <3>1 DEF ReadyRecordsAreComplete
    <2> QED
      BY <2>3, <2>4 DEF RecordsAreAsTold
  <1>4. CASE question # "intent"
    <2>1. m = [draft EXCEPT !.value[question] = c.value[question]]
      BY <1>4 DEF Merged
    <2>2. question \in Details /\ question \in Missing(draft) /\ draft.value[question] = "none"
      BY <1>2, <1>4 DEF Asks, Missing, Null, Is
    <2>3. /\ c.value[question] # "none" /\ c.value[question] \in KindsOf[question]
          /\ c.value[question] \in ValueKinds
      BY <1>2, <1>4, <2>2, DetailsAre DEF Resolves, Null, Is, Shapes
    <2>4. /\ m \in Shapes /\ m.intent = draft.intent /\ m.score = draft.score
          /\ m.value[question] = c.value[question]
          /\ \A f \in Details : f # question => m.value[f] = draft.value[f]
      BY <1>2, <2>1, <2>2, <2>3 DEF Shapes
    <2> HIDE DEF m
    <2>5. NothingInventedIsCommitted'
      <3>1. m.value["amount"] # "absurd" /\ m.value["merchant"] # "unsaid"
        BY <1>2, <2>4, DetailsAre
      <3>2. \A f \in Details : m.score[f] = "low" /\ ~ Null(m, f) => Null(draft, f)
        BY <1>2, <2>2, <2>4 DEF Null, Is
      <3> QED
        BY <1>1, <2>4, <3>1, <3>2, CommittedIsPlausible DEF NothingInventedIsCommitted
    <2>6. ReadyRecordsAreComplete'
      <3>1. ASSUME Recordable(m), Cardinality(Missing(draft)) = 1 PROVE CommitOf(m) # "incomplete"
        <4>1. Missing(draft) = {question}
          <5>1. Missing(draft) \subseteq Details /\ IsFiniteSet(Missing(draft))
            <6>1. Missing(draft) \subseteq Required(draft) \ {"intent"}
              BY DEF Missing
            <6>2. Required(draft) \ {"intent"} \subseteq Details
              BY DetailsAre DEF Required
            <6>3. IsFiniteSet(Details)
              BY FiniteDetails
            <6> QED
              BY <6>1, <6>2, <6>3, FS_Subset
          <5>2. PICK x : Missing(draft) = {x}
            BY <3>1, <5>1, FS_Singleton
          <5> QED
            BY <2>2, <5>2
        <4>2. Missing(m) = {}
          <5>1. Required(m) = Required(draft)
            BY <2>4 DEF Required
          <5>2. \A f \in Required(draft) \ {"intent"} : f # question => ~ Null(m, f)
            <6>1. Required(draft) \ {"intent"} \subseteq Details
              BY DetailsAre DEF Required
            <6> QED
              BY <2>4, <4>1, <6>1 DEF Missing, Null, Is
          <5>3. ~ Null(m, question)
            BY <2>3, <2>4 DEF Null, Is
          <5> QED
            BY <5>1, <5>2, <5>3 DEF Missing
        <4> QED
          BY <3>1, <4>2, ReadyIsComplete, OnlyIncompleteIsRefused
      <3> QED
        BY <1>1, <3>1 DEF ReadyRecordsAreComplete
    <2> QED
      BY <2>5, <2>6 DEF RecordsAreAsTold
  <1> QED
    BY <1>3, <1>4

LEMMA NobodysDraft == NoCandidate \in Trusted
  <1>1. NoCandidate \in Shapes
    BY PlainShape DEF NoCandidate, Intents
  <1>2. /\ NoCandidate.value["amount"] = "none" /\ NoCandidate.value["transactionDate"] = "past"
        /\ NoCandidate.value["merchant"] = "none"
        /\ \A f \in Details : NoCandidate.score[f] = "high"
    BY DEF NoCandidate, PlainReply, FINANCIAL_INTENTS, Scored
  <1> QED
    BY <1>1, <1>2 DEF Trusted

\* In every reachable state, however far replies are from the plain one: the
\* draft holds nothing absurd, unsaid or guessed, its question is about what it
\* lacks, and the record last committed is as it was told.
THEOREM RecordsStayAsTold == ExtractSpec => []RecordsAreAsTold
  <1>1. ExtractInit => ExtractInv
    <2> SUFFICES ASSUME ExtractInit PROVE ExtractInv
      OBVIOUS
    <2>1. NoCandidate \in Trusted
      BY NobodysDraft
    <2>2. RecordsAreAsTold
      BY DEF ExtractInit, NoOutcome, RecordsAreAsTold, ReadyRecordsAreComplete,
             NothingInventedIsCommitted
    <2> QED
      BY <2>1, <2>2 DEF ExtractInit, ExtractInv
  <1>2. ExtractInv /\ [ExtractNext]_extractVars => ExtractInv'
    <2> SUFFICES ASSUME ExtractInv, [ExtractNext]_extractVars PROVE ExtractInv'
      OBVIOUS
    <2>1. draft \in Trusted /\ RecordsAreAsTold /\ (question # "idle" => Asks(draft, question))
      BY DEF ExtractInv
    <2>2. CASE UNCHANGED <<draft, question>> /\ RecordsAreAsTold'
      BY <2>1, <2>2 DEF ExtractInv, Asks, Missing, Required, Null, Is
    <2>3. CASE NextMessage
      <3>1. RecordsAreAsTold'
        BY <2>3 DEF NextMessage, NoOutcome, RecordsAreAsTold, ReadyRecordsAreComplete,
                    NothingInventedIsCommitted
      <3> QED
        BY <2>2, <2>3, <3>1 DEF NextMessage
    <2>4. CASE NothingUnderstood \/ NothingToRecord
      <3>1. UNCHANGED <<draft, question>> /\ RecordsAreAsTold'
        BY <2>4, UncommittedIsTold DEF NothingUnderstood, NothingToRecord
      <3> QED
        BY <2>2, <3>1
    <2>5. ASSUME NEW c \in Candidates, question = "idle", HearsMessage(c) PROVE ExtractInv'
      <3>1. c \in Trusted
        BY CandidatesTrusted
      <3>2. CASE Ready(c)
        <4>1. Committed(Classification(c), c, c) /\ UNCHANGED <<draft, question>>
          BY <2>5, <3>2 DEF HearsMessage
        <4>2. Classification(c) # "answered"
          BY DEF Classification
        <4>3. RecordsAreAsTold'
          BY <3>1, <3>2, <4>1, <4>2, TrustedIsTold
        <4> QED
          BY <2>2, <4>1, <4>3
      <3>3. CASE ~ Ready(c)
        <4>1. draft' = c /\ question' = selectClarificationField(c) /\ Uncommitted("asked", c)
          BY <2>5, <3>3 DEF HearsMessage
        <4>2. Asks(draft', question') /\ RecordsAreAsTold'
          BY <4>1, AsksAboutMissing, UncommittedIsTold
        <4> QED
          BY <3>1, <4>1, <4>2 DEF ExtractInv, Asks, Missing, Required, Null, Is
      <3> QED
        BY <3>2, <3>3
    <2>6. ASSUME NEW c \in Candidates, ConfirmsDraft(c) PROVE ExtractInv'
      <3>1. RecordsAreAsTold' /\ UNCHANGED <<draft, question>>
        BY <2>6, CandidatesTrusted, TrustedIsTold DEF ConfirmsDraft
      <3> QED
        BY <2>2, <3>1
    <2>7. ASSUME NEW c \in AnswerCandidates, TalksOfSomethingElse(c) PROVE ExtractInv'
      <3>1. Ready(c)
        BY <2>7 DEF TalksOfSomethingElse, Interrupts, Ready
      <3>2. RecordsAreAsTold' /\ UNCHANGED <<draft, question>>
        BY <2>7, <3>1, CandidatesTrusted, TrustedIsTold DEF TalksOfSomethingElse
      <3> QED
        BY <2>2, <3>2
    <2>8. ASSUME NEW c \in AnswerCandidates, question # "idle", Answers(c) PROVE ExtractInv'
      <3>1. c \in Trusted
        BY CandidatesTrusted
      <3>2. CASE Resolves(c)
        <4>1. Committed("answered", Merged(c), draft)
          BY <2>8, <3>2 DEF Answers
        <4>2. RecordsAreAsTold'
          BY <2>8, <3>1, <3>2, <4>1, AnsweredIsTold
        <4>3. \/ question' = "idle" /\ draft' = NoCandidate
              \/ UNCHANGED <<draft, question>>
          BY <2>8, <3>2 DEF Answers
        <4> QED
          BY <2>2, <4>2, <4>3, NobodysDraft DEF ExtractInv, NoCandidate
      <3>3. CASE ~ Resolves(c)
        <4>1. Uncommitted("asked", draft) /\ UNCHANGED <<draft, question>>
          BY <2>8, <3>3 DEF Answers
        <4>2. RecordsAreAsTold'
          BY <4>1, UncommittedIsTold
        <4> QED
          BY <2>2, <4>1, <4>2
      <3> QED
        BY <3>2, <3>3
    <2>9. CASE UNCHANGED extractVars
      <3>1. RecordsAreAsTold' /\ UNCHANGED <<draft, question>>
        BY <2>1, <2>9 DEF extractVars, RecordsAreAsTold, ReadyRecordsAreComplete,
                          NothingInventedIsCommitted
      <3> QED
        BY <2>2, <3>1
    <2> QED
      BY <2>3, <2>4, <2>5, <2>6, <2>7, <2>8, <2>9 DEF ExtractNext
  <1>3. ExtractInv => RecordsAreAsTold
    BY DEF ExtractInv
  <1> QED
    BY <1>1, <1>2, <1>3, PTL DEF ExtractSpec

(***************************************************************************)
(* The keyboards of the bot, for any merchants, categories, rows, pages    *)
(* and any number of old messages: whatever is tapped is understood.       *)
(***************************************************************************)

\* Every button some keyboard may offer, whatever it is made from.
Offered ==
  SettingsMenu \cup LanguagePicker \cup CurrencyPicker \cup TimezonePicker \cup Notifications
    \cup Confidence \cup Plain("settings_", {"categories_add"}) \cup ParentPicker
    \cup OneEach("settings_", "categories_delete", Customs)
    \cup OneEach("settings_", "categories_delete_confirm", Customs)
    \cup Plain("settings_", {"categories_delete_cancel"})
    \cup ReportMenu \cup ReportBack \cup OneEach("report_", "range", RangeTypes \X PresetDays)
    \cup OneEach("report_", "cat", Customs) \cup OneEach("report_", "mer", Merchants)
    \cup ExportMenu \cup FilterMenu \cup TypePicker
    \cup OneEach("search_", "delete", Rows) \cup OneEach("search_", "page", Nat)
    \cup DeletionConfirm \cup CancelPending

\* A reply that understands the tap, and offers what a tap can be understood on.
SoundReply(o) == o.said \notin NotUnderstood /\ o.keyboard \subseteq Offered
Understood(outcomes) == \A o \in outcomes : SoundReply(o)

MenusInv ==
  /\ chat \in Seq(SUBSET Offered)
  /\ custom \subseteq Customs /\ recent \subseteq Merchants
  /\ EveryButtonIsUnderstood

LEMMA SaySound ==
  ASSUME NEW what, what \notin NotUnderstood
  PROVE  SoundReply(Say(what))
  BY DEF SoundReply, Say

LEMMA ShowSound ==
  ASSUME NEW keyboard, keyboard \subseteq Offered
  PROVE  SoundReply(Show(keyboard))
  BY DEF SoundReply, Show, NotUnderstood

LEMMA FailingUnderstood ==
  ASSUME NEW outcomes, Understood(outcomes)
  PROVE  Understood(Failing(outcomes))
  <1>1. SoundReply(Say("failed"))
    BY SaySound DEF NotUnderstood
  <1> QED
    BY <1>1 DEF Understood, Failing

LEMMA AloneUnderstood ==
  ASSUME NEW o, SoundReply(o)
  PROVE  Understood({o})
  BY DEF Understood

\* What each keyboard offers.
LEMMA KeyboardsOffered ==
  /\ SettingsMenu \subseteq Offered /\ SettingsBack \subseteq Offered /\ LanguagePicker \subseteq Offered
  /\ CurrencyPicker \subseteq Offered /\ TimezonePicker \subseteq Offered
  /\ Notifications \subseteq Offered /\ Confidence \subseteq Offered /\ ParentPicker \subseteq Offered
  /\ custom \subseteq Customs => CategoryList \subseteq Offered /\ ReportCategoryPicker \subseteq Offered
  /\ \A c \in Customs : DeleteConfirm(c) \subseteq Offered
  /\ ReportMenu \subseteq Offered /\ ReportBack \subseteq Offered
  /\ \A type \in RangeTypes : RangePresets(type) \subseteq Offered
  /\ recent \subseteq Merchants => MerchantPicker \subseteq Offered
  /\ ExportMenu \subseteq Offered /\ FilterMenu \subseteq Offered /\ TypePicker \subseteq Offered
  /\ \A found \in SUBSET Rows, page \in Nat, more \in BOOLEAN :
       ResultPage(found, page, more) \subseteq Offered
  /\ DeletionConfirm \subseteq Offered /\ CancelPending \subseteq Offered
  <1>1. SettingsBack \subseteq Offered
    BY DEF Offered, LanguagePicker
  <1>2. custom \subseteq Customs => CategoryList \subseteq Offered
    <2>1. custom \subseteq Customs => OneEach("settings_", "categories_delete", custom) \subseteq Offered
      BY DEF Offered, OneEach
    <2>2. Plain("settings_", {"categories_add"}) \subseteq Offered
      BY DEF Offered
    <2> QED
      BY <1>1, <2>1, <2>2 DEF CategoryList
  <1>3. ReportBack \subseteq Offered
    BY DEF Offered
  <1>4. custom \subseteq Customs => ReportCategoryPicker \subseteq Offered
    <2>1. custom \subseteq Customs => OneEach("report_", "cat", custom) \subseteq Offered
      BY DEF Offered, OneEach
    <2> QED
      BY <1>3, <2>1 DEF ReportCategoryPicker
  <1>5. recent \subseteq Merchants => MerchantPicker \subseteq Offered
    <2>1. recent \subseteq Merchants => OneEach("report_", "mer", recent) \subseteq Offered
      BY DEF Offered, OneEach
    <2> QED
      BY <1>3, <2>1 DEF MerchantPicker
  <1>6. ASSUME NEW c \in Customs PROVE DeleteConfirm(c) \subseteq Offered
    <2>1. OneEach("settings_", "categories_delete_confirm", {c}) \subseteq Offered
      BY DEF Offered, OneEach
    <2>2. Plain("settings_", {"categories_delete_cancel"}) \subseteq Offered
      BY DEF Offered
    <2> QED
      BY <2>1, <2>2 DEF DeleteConfirm
  <1>7. ASSUME NEW type \in RangeTypes PROVE RangePresets(type) \subseteq Offered
    <2>1. OneEach("report_", "range", {<<type, d>> : d \in PresetDays})
            \subseteq OneEach("report_", "range", RangeTypes \X PresetDays)
      BY DEF OneEach
    <2>2. OneEach("report_", "range", RangeTypes \X PresetDays) \subseteq Offered
      BY DEF Offered
    <2> QED
      BY <1>3, <2>1, <2>2 DEF RangePresets
  <1>8. ASSUME NEW found \in SUBSET Rows, NEW page \in Nat, NEW more \in BOOLEAN
        PROVE  ResultPage(found, page, more) \subseteq Offered
    <2> DEFINE pages == (IF page > 0 THEN {page - 1} ELSE {}) \cup (IF more THEN {page + 1} ELSE {})
    <2>1. pages \subseteq Nat
      OBVIOUS
    <2> HIDE DEF pages
    <2>2. OneEach("search_", "page", pages) \subseteq OneEach("search_", "page", Nat)
      BY <2>1 DEF OneEach
    <2>3. OneEach("search_", "delete", found) \subseteq OneEach("search_", "delete", Rows)
      BY DEF OneEach
    <2>4. /\ OneEach("search_", "page", Nat) \subseteq Offered
          /\ OneEach("search_", "delete", Rows) \subseteq Offered
          /\ Plain("search_", {"menu"}) \subseteq Offered
      BY DEF Offered, TypePicker
    <2> QED
      BY <2>2, <2>3, <2>4 DEF ResultPage, pages
  <1>9. /\ SettingsMenu \subseteq Offered /\ LanguagePicker \subseteq Offered
        /\ CurrencyPicker \subseteq Offered /\ TimezonePicker \subseteq Offered
        /\ Notifications \subseteq Offered /\ Confidence \subseteq Offered /\ ParentPicker \subseteq Offered
        /\ ReportMenu \subseteq Offered /\ ExportMenu \subseteq Offered /\ FilterMenu \subseteq Offered
        /\ TypePicker \subseteq Offered
        /\ DeletionConfirm \subseteq Offered /\ CancelPending \subseteq Offered
    BY DEF Offered
  <1> QED
    BY <1>1, <1>2, <1>3, <1>4, <1>5, <1>6, <1>7, <1>8, <1>9

\* How a tap on b may be answered.
Answered(b, o) ==
  /\ o.keyboard \subseteq Offered
  /\ o.said \in NotUnderstood => Verb(b) = "mer" /\ Arg(b) \notin recent
AllAnswered(b, outcomes) == \A o \in outcomes : Answered(b, o)

LEMMA UnderstoodIsAnswered ==
  ASSUME NEW b, NEW outcomes, Understood(outcomes)
  PROVE  AllAnswered(b, outcomes)
  BY DEF Understood, SoundReply, AllAnswered, Answered

SettingsVerbs ==
  {"lang", "currency", "timezone", "notif", "confidence", "categories", "export", "deleteaccount",
   "cancel", "back", "lang_set", "currency_set", "timezone_set", "notif_toggle", "confidence_toggle",
   "categories_add", "categories_parent", "categories_cancel", "categories_delete",
   "categories_delete_confirm", "categories_delete_cancel"}
ReportVerbs == {"type", "cancel", "back", "range", "cat", "mer"}
SearchVerbs == {"field", "apply", "reset", "cancel", "type", "menu", "delete", "page"}

LEMMA PlainParts ==
  ASSUME NEW n, NEW verbs, NEW b \in Plain(n, verbs)
  PROVE  Namespace(b) = n /\ Verb(b) \in verbs
  <1>1. PICK v \in verbs : b = Button(n, v, "")
    BY DEF Plain
  <1>2. Button(n, v, "")[1] = n /\ Button(n, v, "")[2] = v
    BY DEF Button
  <1> QED
    BY <1>1, <1>2 DEF Namespace, Verb

LEMMA OneEachParts ==
  ASSUME NEW n, NEW v, NEW args, NEW b \in OneEach(n, v, args)
  PROVE  Namespace(b) = n /\ Verb(b) = v /\ Arg(b) \in args
  BY DEF OneEach, Button, Namespace, Verb, Arg

\* What the buttons of each namespace carry.
LEMMA OfferedShape ==
  ASSUME NEW b \in Offered
  PROVE  \/ /\ Namespace(b) = "settings_" /\ Verb(b) \in SettingsVerbs
            /\ Verb(b) = "notif_toggle" => Arg(b) \in NotificationKinds
            /\ Verb(b) = "categories_delete" => Arg(b) \in Customs
         \/ /\ Namespace(b) = "report_" /\ Verb(b) \in ReportVerbs
            /\ Verb(b) = "type" => Arg(b) \in ReportTypes
            /\ Verb(b) = "range" => Arg(b) \in RangeTypes \X PresetDays
         \/ /\ Namespace(b) = "export_" /\ Verb(b) \in {"range", "cancel"}
            /\ Verb(b) = "range" => Arg(b) \in ExportRanges
         \/ /\ Namespace(b) = "search_" /\ Verb(b) \in SearchVerbs
            /\ Verb(b) = "type" => Arg(b) \in SearchTypes
            /\ Verb(b) = "page" => Arg(b) \in Nat
         \/ Namespace(b) = "delacct_" /\ Verb(b) \in {"confirm", "cancel", "cancel_pending"}
  <1> USE PlainParts, OneEachParts
  <1>1. CASE b \in SettingsMenu \cup LanguagePicker \cup CurrencyPicker \cup TimezonePicker
    BY <1>1 DEF SettingsMenu, LanguagePicker, CurrencyPicker, TimezonePicker, SettingsBack, SettingsVerbs
  <1>2. CASE b \in Notifications \cup Confidence \cup Plain("settings_", {"categories_add"})
                     \cup ParentPicker
    BY <1>2 DEF Notifications, Confidence, SettingsBack, ParentPicker, SettingsVerbs
  <1>3. CASE b \in OneEach("settings_", "categories_delete", Customs)
                     \cup OneEach("settings_", "categories_delete_confirm", Customs)
                     \cup Plain("settings_", {"categories_delete_cancel"})
    BY <1>3 DEF SettingsVerbs
  <1>4. CASE b \in ReportMenu \cup ReportBack
    BY <1>4 DEF ReportMenu, ReportBack, ReportVerbs
  <1>5. CASE b \in OneEach("report_", "range", RangeTypes \X PresetDays)
                     \cup OneEach("report_", "cat", Customs) \cup OneEach("report_", "mer", Merchants)
    BY <1>5 DEF ReportVerbs
  <1>6. CASE b \in ExportMenu
    BY <1>6 DEF ExportMenu
  <1>7. CASE b \in FilterMenu \cup TypePicker
    BY <1>7 DEF FilterMenu, TypePicker, SearchVerbs
  <1>8. CASE b \in OneEach("search_", "delete", Rows) \cup OneEach("search_", "page", Nat)
    BY <1>8 DEF SearchVerbs
  <1>9. CASE b \in DeletionConfirm \cup CancelPending
    BY <1>9 DEF DeletionConfirm, CancelPending
  <1>10. \/ b \in SettingsMenu \cup LanguagePicker \cup CurrencyPicker \cup TimezonePicker
         \/ b \in Notifications \cup Confidence \cup Plain("settings_", {"categories_add"}) \cup ParentPicker
         \/ b \in OneEach("settings_", "categories_delete", Customs)
                    \cup OneEach("settings_", "categories_delete_confirm", Customs)
                    \cup Plain("settings_", {"categories_delete_cancel"})
         \/ b \in ReportMenu \cup ReportBack
         \/ b \in OneEach("report_", "range", RangeTypes \X PresetDays)
                    \cup OneEach("report_", "cat", Customs) \cup OneEach("report_", "mer", Merchants)
         \/ b \in ExportMenu
         \/ b \in FilterMenu \cup TypePicker
         \/ b \in OneEach("search_", "delete", Rows) \cup OneEach("search_", "page", Nat)
         \/ b \in DeletionConfirm \cup CancelPending
    BY DEF Offered
  <1> QED
    BY <1>1, <1>2, <1>3, <1>4, <1>5, <1>6, <1>7, <1>8, <1>9, <1>10

\* The replies that several handlers share.
LEMMA PromptSound == SoundReply(DeletionPrompt)
  BY ShowSound, KeyboardsOffered DEF DeletionPrompt

LEMMA SaysSound ==
  \A what \in {"empty", "cancelled", "created", "duplicate", "invalid", "gone", "deleted", "name?",
               "expired", "value?", "type DELETE", "reactivated", "too late", "not pending",
               "suspended", "too_large", "generated", "invalid_value", "failed"} : SoundReply(Say(what))
  <1>1. ASSUME NEW what \in {"empty", "cancelled", "created", "duplicate", "invalid", "gone", "deleted",
                             "name?", "expired", "value?", "type DELETE", "reactivated", "too late",
                             "not pending", "suspended", "too_large", "generated", "invalid_value",
                             "failed"}
        PROVE  what \notin NotUnderstood
    BY DEF NotUnderstood
  <1> QED
    BY <1>1, SaySound

LEMMA ReportsUnderstood == Understood(Failing(WithReport))
  <1>1. SoundReply(Say("empty")) /\ SoundReply(Show(ReportBack))
    BY SaysSound, ShowSound, KeyboardsOffered
  <1>2. Understood(WithReport)
    BY <1>1 DEF Understood, WithReport
  <1> QED
    BY <1>2, FailingUnderstood

LEMMA RepliesUnderstood ==
  /\ Understood(ShowSettings) /\ Understood(NameReplies) /\ Understood(FilterReplies)
  /\ custom \subseteq Customs => Understood(ShowCategories)
  <1>1. Understood({Show(SettingsMenu)})
    BY KeyboardsOffered, ShowSound, AloneUnderstood
  <1>2. Understood({Show(ParentPicker), Say("duplicate"), Say("invalid")})
    <2>1. SoundReply(Show(ParentPicker)) /\ SoundReply(Say("duplicate")) /\ SoundReply(Say("invalid"))
      BY SaysSound, ShowSound, KeyboardsOffered
    <2> QED
      BY <2>1 DEF Understood
  <1>3. Understood(FilterReplies)
    <2>1. SoundReply(Show(FilterMenu)) /\ SoundReply(Say("invalid")) /\ SoundReply(Say("expired"))
      BY SaysSound, ShowSound, KeyboardsOffered
    <2> QED
      BY <2>1 DEF Understood, FilterReplies
  <1>4. custom \subseteq Customs => Understood({Show(CategoryList)})
    BY KeyboardsOffered, ShowSound, AloneUnderstood
  <1> QED
    BY <1>1, <1>2, <1>3, <1>4, FailingUnderstood DEF ShowSettings, NameReplies, ShowCategories

\* The handlers: one lemma for each namespace.
LEMMA ReportsAnswered ==
  ASSUME NEW b, Verb(b) \in ReportVerbs, recent \subseteq Merchants, custom \subseteq Customs,
         Verb(b) = "type" => Arg(b) \in ReportTypes,
         Verb(b) = "range" => Arg(b) \in RangeTypes \X PresetDays
  PROVE  AllAnswered(b, HandleReport(b))
  <1>1. CASE Verb(b) = "cancel"
    <2>1. HandleReport(b) = {Say("cancelled")}
      BY <1>1 DEF HandleReport
    <2> QED
      BY <2>1, SaysSound, AloneUnderstood, UnderstoodIsAnswered
  <1>2. CASE Verb(b) = "back"
    <2>1. HandleReport(b) = {Show(ReportMenu)}
      BY <1>2 DEF HandleReport
    <2> QED
      BY <2>1, ShowSound, KeyboardsOffered, AloneUnderstood, UnderstoodIsAnswered
  <1>3. CASE Verb(b) = "type"
    <2>1. HandleReport(b) = ReportTypeSelected(Arg(b))
      BY <1>3 DEF HandleReport
    <2>2. CASE Arg(b) \in RangeTypes
      <3>1. ReportTypeSelected(Arg(b)) = {Show(RangePresets(Arg(b)))}
        BY <2>2 DEF ReportTypeSelected, RangeTypes
      <3>2. SoundReply(Show(RangePresets(Arg(b))))
        BY <2>2, ShowSound, KeyboardsOffered
      <3> QED
        BY <2>1, <3>1, <3>2, AloneUnderstood, UnderstoodIsAnswered
    <2>3. CASE Arg(b) = "category"
      <3>1. ReportTypeSelected(Arg(b)) = ChooseReportCategory
        BY <2>3 DEF ReportTypeSelected, RangeTypes
      <3>2. SoundReply(IF custom = {} THEN Say("empty") ELSE Show(ReportCategoryPicker))
        BY SaysSound, ShowSound, KeyboardsOffered
      <3>3. Understood(ChooseReportCategory)
        BY <3>2, AloneUnderstood, FailingUnderstood DEF ChooseReportCategory
      <3> QED
        BY <2>1, <3>1, <3>3, UnderstoodIsAnswered
    <2>4. CASE Arg(b) = "merchant"
      <3>1. ReportTypeSelected(Arg(b)) = ChooseMerchant
        BY <2>4 DEF ReportTypeSelected, RangeTypes
      <3>2. SoundReply(IF recent = {} THEN Say("empty") ELSE Show(MerchantPicker))
        BY SaysSound, ShowSound, KeyboardsOffered
      <3>3. Understood(ChooseMerchant)
        BY <3>2, AloneUnderstood, FailingUnderstood DEF ChooseMerchant
      <3> QED
        BY <2>1, <3>1, <3>3, UnderstoodIsAnswered
    <2>5. CASE Arg(b) \in ImmediateTypes
      <3>1. ReportTypeSelected(Arg(b)) = ImmediateReport
        BY <2>5 DEF ReportTypeSelected, RangeTypes, ImmediateTypes
      <3> QED
        BY <2>1, <3>1, ReportsUnderstood, UnderstoodIsAnswered DEF ImmediateReport
    <2> QED
      BY <1>3, <2>2, <2>3, <2>4, <2>5 DEF ReportTypes, PickerTypes
  <1>4. CASE Verb(b) = "range"
    <2>1. HandleReport(b) = RangeReport(Arg(b)[1], Arg(b)[2])
      BY <1>4 DEF HandleReport
    <2>2. Arg(b)[1] \in RangeTypes /\ Arg(b)[2] \in PresetDays
      BY <1>4
    <2>3. RangeReport(Arg(b)[1], Arg(b)[2]) = Failing(WithReport)
      BY <2>2 DEF RangeReport, PresetDays
    <2> QED
      BY <2>1, <2>3, ReportsUnderstood, UnderstoodIsAnswered
  <1>5. CASE Verb(b) = "cat"
    <2>1. HandleReport(b) = CategoryReport
      BY <1>5 DEF HandleReport
    <2> QED
      BY <2>1, ReportsUnderstood, UnderstoodIsAnswered DEF CategoryReport
  <1>6. CASE Verb(b) = "mer"
    <2>1. HandleReport(b) = MerchantReport(Arg(b))
      BY <1>6 DEF HandleReport
    <2>2. CASE Arg(b) \in recent
      <3>1. MerchantReport(Arg(b)) = Failing(WithReport)
        BY <2>2 DEF MerchantReport
      <3> QED
        BY <2>1, <3>1, ReportsUnderstood, UnderstoodIsAnswered
    <2>3. CASE Arg(b) \notin recent
      <3>1. MerchantReport(Arg(b)) = {Say("malformed")} \cup {Say("failed")}
        BY <2>3 DEF MerchantReport, Failing
      <3>2. Say("malformed").keyboard = {} /\ Say("failed").keyboard = {}
        BY DEF Say
      <3> QED
        BY <1>6, <2>1, <2>3, <3>1, <3>2 DEF AllAnswered, Answered
    <2> QED
      BY <2>2, <2>3
  <1> QED
    BY <1>1, <1>2, <1>3, <1>4, <1>5, <1>6 DEF ReportVerbs

LEMMA ExportsAnswered ==
  ASSUME NEW b, Verb(b) \in {"range", "cancel"}, Verb(b) = "range" => Arg(b) \in ExportRanges
  PROVE  AllAnswered(b, HandleExport(b))
  <1>1. CASE Verb(b) = "cancel"
    <2>1. HandleExport(b) = {Say("cancelled")}
      BY <1>1 DEF HandleExport
    <2> QED
      BY <2>1, SaysSound, AloneUnderstood, UnderstoodIsAnswered
  <1>2. CASE Verb(b) = "range"
    <2>1. HandleExport(b) = GenerateExport
      BY <1>2 DEF HandleExport
    <2>2. Understood({Say(kind) : kind \in ExportOutcomes})
      BY SaysSound DEF Understood, ExportOutcomes
    <2> QED
      BY <2>1, <2>2, FailingUnderstood, UnderstoodIsAnswered DEF GenerateExport
  <1> QED
    BY <1>1, <1>2

LEMMA SearchesAnswered ==
  ASSUME NEW b, Verb(b) \in SearchVerbs, session \in BOOLEAN,
         Verb(b) = "type" => Arg(b) \in SearchTypes,
         Verb(b) = "page" => Arg(b) \in Nat
  PROVE  AllAnswered(b, HandleSearch(b))
  <1>1. ASSUME NEW page \in Nat PROVE Understood(SearchReplies(page))
    <2>1. ASSUME NEW found \in SUBSET Rows, NEW more \in BOOLEAN
          PROVE  SoundReply(Show(ResultPage(found, page, more)))
      BY ShowSound, KeyboardsOffered
    <2>2. SoundReply(Say("empty"))
      BY SaysSound
    <2>3. ASSUME NEW o \in SearchReplies(page), o # Say("empty") PROVE SoundReply(o)
      <3>1. PICK found \in SUBSET Rows \ {{}}, more \in {m \in BOOLEAN : m => page < MaxPage} :
              o = Show(ResultPage(found, page, more))
        BY <2>3 DEF SearchReplies
      <3> QED
        BY <2>1, <3>1
    <2> QED
      BY <2>2, <2>3 DEF Understood
  <1>2. CASE Verb(b) = "delete"
    <2>1. HandleSearch(b) = {Say("deleted"), Say("gone")}
      BY <1>2 DEF HandleSearch
    <2>2. Understood({Say("deleted"), Say("gone")})
      BY SaysSound DEF Understood
    <2> QED
      BY <2>1, <2>2, UnderstoodIsAnswered
  <1>3. CASE Verb(b) # "delete" /\ ~ session
    <2>1. HandleSearch(b) = {Say("expired")}
      BY <1>3 DEF HandleSearch
    <2> QED
      BY <2>1, SaysSound, AloneUnderstood, UnderstoodIsAnswered
  <1>4. CASE Verb(b) \in {"menu", "reset"} /\ session
    <2>1. HandleSearch(b) = {Show(FilterMenu)}
      BY <1>4 DEF HandleSearch
    <2> QED
      BY <2>1, ShowSound, KeyboardsOffered, AloneUnderstood, UnderstoodIsAnswered
  <1>5. CASE Verb(b) = "field" /\ session
    <2>1. HandleSearch(b) = IF Arg(b) = "transactionType" THEN {Show(TypePicker)}
                            ELSE {Say("value?"), Say("expired")}
      BY <1>5 DEF HandleSearch
    <2>2. Understood({Say("value?"), Say("expired")})
      BY SaysSound DEF Understood
    <2>3. Understood({Show(TypePicker)})
      BY ShowSound, KeyboardsOffered, AloneUnderstood
    <2> QED
      BY <2>1, <2>2, <2>3, UnderstoodIsAnswered
  <1>6. CASE Verb(b) = "type" /\ session
    <2>1. HandleSearch(b) = {Show(FilterMenu), Say("expired")}
      BY <1>6 DEF HandleSearch
    <2>2. SoundReply(Show(FilterMenu)) /\ SoundReply(Say("expired"))
      BY SaysSound, ShowSound, KeyboardsOffered
    <2>3. Understood({Show(FilterMenu), Say("expired")})
      BY <2>2 DEF Understood
    <2> QED
      BY <2>1, <2>3, UnderstoodIsAnswered
  <1>7. CASE Verb(b) = "cancel" /\ session
    <2>1. HandleSearch(b) = {Say("cancelled")}
      BY <1>7 DEF HandleSearch
    <2> QED
      BY <2>1, SaysSound, AloneUnderstood, UnderstoodIsAnswered
  <1>8. CASE Verb(b) = "apply" /\ session
    <2>1. HandleSearch(b) = SearchReplies(0)
      BY <1>8 DEF HandleSearch
    <2> QED
      BY <1>1, <2>1, UnderstoodIsAnswered
  <1>9. CASE Verb(b) = "page" /\ session
    <2>1. HandleSearch(b) = SearchReplies(Arg(b))
      BY <1>9 DEF HandleSearch
    <2> QED
      BY <1>1, <1>9, <2>1, UnderstoodIsAnswered
  <1> QED
    BY <1>2, <1>3, <1>4, <1>5, <1>6, <1>7, <1>8, <1>9 DEF SearchVerbs

LEMMA DeletionsAnswered ==
  ASSUME NEW b, Verb(b) \in {"confirm", "cancel", "cancel_pending"}
  PROVE  AllAnswered(b, HandleDeletion(b))
  <1>1. \/ HandleDeletion(b) = {Say("type DELETE")} \/ HandleDeletion(b) = {Say("cancelled")}
        \/ HandleDeletion(b) = {Say("reactivated"), Say("too late"), Say("not pending")}
    BY DEF HandleDeletion
  <1>2. /\ Understood({Say("type DELETE")}) /\ Understood({Say("cancelled")})
        /\ Understood({Say("reactivated"), Say("too late"), Say("not pending")})
    BY SaysSound DEF Understood
  <1> QED
    BY <1>1, <1>2, UnderstoodIsAnswered

LEMMA CategoriesAnswered ==
  ASSUME NEW b, custom \subseteq Customs,
         Verb(b) \in {"categories", "categories_add", "categories_parent", "categories_cancel",
                      "categories_delete", "categories_delete_confirm", "categories_delete_cancel"},
         Verb(b) = "categories_delete" => Arg(b) \in Customs
  PROVE  AllAnswered(b, HandleCategories(b))
  <1>1. CASE Verb(b) \in {"categories", "categories_cancel", "categories_delete_cancel"}
    <2>1. HandleCategories(b) = ShowCategories
      BY <1>1 DEF HandleCategories
    <2> QED
      BY <2>1, RepliesUnderstood, UnderstoodIsAnswered
  <1>2. CASE Verb(b) = "categories_add"
    <2>1. HandleCategories(b) = {Say("name?")}
      BY <1>2 DEF HandleCategories
    <2> QED
      BY <2>1, SaysSound, AloneUnderstood, UnderstoodIsAnswered
  <1>3. CASE Verb(b) = "categories_parent"
    <2>1. HandleCategories(b) = SelectParent
      BY <1>3 DEF HandleCategories
    <2>2. Understood({Say("created"), Say("duplicate"), Say("invalid")})
      BY SaysSound DEF Understood
    <2> QED
      BY <2>1, <2>2, FailingUnderstood, UnderstoodIsAnswered DEF SelectParent
  <1>4. CASE Verb(b) = "categories_delete"
    <2>1. HandleCategories(b) = DeletePreview(Arg(b))
      BY <1>4 DEF HandleCategories
    <2>2. SoundReply(IF Arg(b) \in custom THEN Show(DeleteConfirm(Arg(b))) ELSE Say("gone"))
      BY <1>4, SaysSound, ShowSound, KeyboardsOffered
    <2> QED
      BY <2>1, <2>2, AloneUnderstood, FailingUnderstood, UnderstoodIsAnswered DEF DeletePreview
  <1>5. CASE Verb(b) = "categories_delete_confirm"
    <2>1. HandleCategories(b) = DeleteConfirmed(Arg(b))
      BY <1>5 DEF HandleCategories
    <2>2. SoundReply(IF Arg(b) \in custom THEN Say("deleted") ELSE Say("gone"))
      BY SaysSound
    <2> QED
      BY <2>1, <2>2, AloneUnderstood, FailingUnderstood, UnderstoodIsAnswered DEF DeleteConfirmed
  <1> QED
    BY <1>1, <1>2, <1>3, <1>4, <1>5

LEMMA SettingsAnswered ==
  ASSUME NEW b, Verb(b) \in SettingsVerbs, custom \subseteq Customs,
         Verb(b) = "notif_toggle" => Arg(b) \in NotificationKinds,
         Verb(b) = "categories_delete" => Arg(b) \in Customs
  PROVE  AllAnswered(b, HandleSettings(b))
  <1> DEFINE displays(keyboard) == Understood({Show(keyboard)})
  <1>1. /\ displays(LanguagePicker) /\ displays(CurrencyPicker) /\ displays(TimezonePicker)
        /\ displays(Notifications) /\ displays(Confidence) /\ displays(ExportMenu) /\ displays(SettingsBack)
    BY ShowSound, KeyboardsOffered, AloneUnderstood
  <1> HIDE DEF displays
  <1>2. CASE Verb(b) = "cancel"
    <2>1. HandleSettings(b) = {Say("cancelled")}
      BY <1>2 DEF HandleSettings
    <2> QED
      BY <2>1, SaysSound, AloneUnderstood, UnderstoodIsAnswered
  <1>3. CASE Verb(b) = "back"
    <2>1. HandleSettings(b) = ShowSettings
      BY <1>3 DEF HandleSettings
    <2> QED
      BY <2>1, RepliesUnderstood, UnderstoodIsAnswered
  <1>4. CASE Verb(b) \in {"lang", "timezone", "export"}
    <2>1. \/ HandleSettings(b) = {Show(LanguagePicker)} \/ HandleSettings(b) = {Show(TimezonePicker)}
          \/ HandleSettings(b) = {Show(ExportMenu)}
      BY <1>4 DEF HandleSettings
    <2> QED
      BY <1>1, <2>1, UnderstoodIsAnswered DEF displays
  <1>5. CASE Verb(b) = "deleteaccount"
    <2>1. HandleSettings(b) = {DeletionPrompt}
      BY <1>5 DEF HandleSettings
    <2> QED
      BY <2>1, PromptSound, AloneUnderstood, UnderstoodIsAnswered
  <1>6. CASE Verb(b) \in {"currency", "notif", "confidence", "confidence_toggle"}
    <2>1. \/ HandleSettings(b) = Failing({Show(CurrencyPicker)})
          \/ HandleSettings(b) = Failing({Show(Notifications)})
          \/ HandleSettings(b) = Failing({Show(Confidence)})
          \/ HandleSettings(b) = Failing({Show(SettingsBack)})
      BY <1>6 DEF HandleSettings, ChooseCurrency, ShowNotifications, ShowConfidence, ToggleConfidence
    <2>2. /\ Understood(Failing({Show(CurrencyPicker)})) /\ Understood(Failing({Show(Notifications)}))
          /\ Understood(Failing({Show(Confidence)})) /\ Understood(Failing({Show(SettingsBack)}))
      BY <1>1, FailingUnderstood DEF displays
    <2> QED
      BY <2>1, <2>2, UnderstoodIsAnswered
  <1>7. CASE Verb(b) \in {"lang_set", "currency_set", "timezone_set"}
    <2>1. HandleSettings(b) = UpdateProfile(Verb(b))
      BY <1>7 DEF HandleSettings
    <2>2. SoundReply(Show(SettingsBack)) /\ SoundReply(Say("invalid_value"))
      BY SaysSound, ShowSound, KeyboardsOffered
    <2>3. ProfileOutcomes(Verb(b)) \subseteq {"updated", "invalid_value"}
      BY DEF ProfileOutcomes
    <2>4. Understood({IF kind = "updated" THEN Show(SettingsBack) ELSE Say(kind) :
                        kind \in ProfileOutcomes(Verb(b))})
      BY <2>2, <2>3 DEF Understood
    <2> QED
      BY <2>1, <2>4, FailingUnderstood, UnderstoodIsAnswered DEF UpdateProfile
  <1>8. CASE Verb(b) = "notif_toggle"
    <2>1. HandleSettings(b) = ToggleNotification(Arg(b))
      BY <1>8 DEF HandleSettings
    <2>2. ToggleNotification(Arg(b)) = Failing({Show(SettingsBack)})
      BY <1>8 DEF ToggleNotification
    <2> QED
      BY <1>1, <2>1, <2>2, FailingUnderstood, UnderstoodIsAnswered DEF displays
  <1>9. CASE Verb(b) \in {"categories", "categories_add", "categories_parent", "categories_cancel",
                          "categories_delete", "categories_delete_confirm", "categories_delete_cancel"}
    <2>1. HandleSettings(b) = HandleCategories(b)
      BY <1>9 DEF HandleSettings
    <2> QED
      BY <1>9, <2>1, CategoriesAnswered
  <1> QED
    BY <1>2, <1>3, <1>4, <1>5, <1>6, <1>7, <1>8, <1>9 DEF SettingsVerbs

\* Whatever button is tapped, and whatever its keyboard was made from.
LEMMA TapsAnswered ==
  ASSUME NEW b \in Offered, session \in BOOLEAN, recent \subseteq Merchants, custom \subseteq Customs
  PROVE  AllAnswered(b, TapOutcomes(b))
  <1>1. AllAnswered(b, Handle(b))
    <2>1. CASE Namespace(b) = "settings_"
      <3>1. Handle(b) = HandleSettings(b)
        BY <2>1 DEF Handle
      <3> QED
        BY <2>1, <3>1, OfferedShape, SettingsAnswered
    <2>2. CASE Namespace(b) = "report_"
      <3>1. Handle(b) = HandleReport(b)
        BY <2>2 DEF Handle
      <3> QED
        BY <2>2, <3>1, OfferedShape, ReportsAnswered
    <2>3. CASE Namespace(b) = "export_"
      <3>1. Handle(b) = HandleExport(b)
        BY <2>3 DEF Handle
      <3> QED
        BY <2>3, <3>1, OfferedShape, ExportsAnswered
    <2>4. CASE Namespace(b) = "search_"
      <3>1. Handle(b) = HandleSearch(b)
        BY <2>4 DEF Handle
      <3> QED
        BY <2>4, <3>1, OfferedShape, SearchesAnswered
    <2>5. CASE Namespace(b) = "delacct_"
      <3>1. Handle(b) = HandleDeletion(b)
        BY <2>5 DEF Handle
      <3> QED
        BY <2>5, <3>1, OfferedShape, DeletionsAnswered
    <2> QED
      BY <2>1, <2>2, <2>3, <2>4, <2>5, OfferedShape
  <1>2. AllAnswered(b, {Say("suspended")})
    BY SaysSound, AloneUnderstood, UnderstoodIsAnswered
  <1> QED
    BY <1>1, <1>2 DEF TapOutcomes

LEMMA CommandsUnderstood ==
  ASSUME NEW c \in Commands
  PROVE  Understood(CommandOutcomes(c))
  <1>1. /\ Understood({DeletionPrompt}) /\ Understood({Say("suspended")})
        /\ Understood({Show(ReportMenu)}) /\ Understood({Show(ExportMenu)})
        /\ Understood({Show(FilterMenu)})
    BY PromptSound, SaysSound, ShowSound, KeyboardsOffered, AloneUnderstood
  <1>2. \/ CommandOutcomes(c) = {DeletionPrompt} \/ CommandOutcomes(c) = {Say("suspended")}
        \/ CommandOutcomes(c) = {Show(ReportMenu)} \/ CommandOutcomes(c) = {Show(ExportMenu)}
        \/ CommandOutcomes(c) = ShowSettings \/ CommandOutcomes(c) = {Show(FilterMenu)}
    BY DEF CommandOutcomes, Commands
  <1> QED
    BY <1>1, <1>2, RepliesUnderstood

\* A reply puts only what may be offered into the chat.
LEMMA ReplyKeepsChat ==
  ASSUME NEW o, o.keyboard \subseteq Offered, chat \in Seq(SUBSET Offered), Reply(o)
  PROVE  chat' \in Seq(SUBSET Offered)
  <1>1. Append(chat, o.keyboard) \in Seq(SUBSET Offered)
    OBVIOUS
  <1>2. ASSUME NEW messages \in Seq(SUBSET Offered)
        PROVE  Newest(messages) \in Seq(SUBSET Offered)
    <2> DEFINE from == IF Len(messages) > MaxMessages THEN Len(messages) - MaxMessages + 1 ELSE 1
    <2>1. Len(messages) \in Nat
      OBVIOUS
    <2>2. from \in Nat \ {0}
      BY <2>1, MenusAssumption
    <2>3. \A i \in from..Len(messages) : messages[i] \in SUBSET Offered
      BY <2>1, <2>2
    <2> HIDE DEF from
    <2>4. SubSeq(messages, from, Len(messages)) \in Seq(SUBSET Offered)
      BY <2>1, <2>2, <2>3
    <2> QED
      BY <2>4 DEF Newest, from
  <1> QED
    BY <1>1, <1>2 DEF Reply

\* A message without surprise leaves the property as it is.
LEMMA SoundReplyKeeps ==
  ASSUME NEW outcomes, Understood(outcomes), NEW o \in outcomes, Reply(o),
         MenusInv, UNCHANGED <<custom, recent>>
  PROVE  MenusInv'
  <1>1. o.keyboard \subseteq Offered /\ o.said \notin NotUnderstood
    BY DEF Understood, SoundReply
  <1>2. chat' \in Seq(SUBSET Offered)
    BY <1>1, ReplyKeepsChat DEF MenusInv
  <1>3. answer' \notin NotUnderstood
    BY <1>1 DEF Reply
  <1>4. NotUnderstood' = NotUnderstood
    BY DEF NotUnderstood
  <1> QED
    BY <1>2, <1>3, <1>4 DEF MenusInv, EveryButtonIsUnderstood

LEMMA TapKeeps ==
  ASSUME MenusInv, session \in BOOLEAN, NEW b \in Offered, Tap(b)
  PROVE  MenusInv'
  <1>1. PICK o \in TapOutcomes(b) :
          /\ Reply(o)
          /\ tapped' = IF o.said \in NotUnderstood THEN b ELSE NoButton
          /\ custom' \in CustomAfter(b, o.said)
          /\ UNCHANGED recent
    BY DEF Tap
  <1>2. Answered(b, o)
    BY <1>1, TapsAnswered DEF MenusInv, AllAnswered
  <1>3. chat' \in Seq(SUBSET Offered)
    BY <1>1, <1>2, ReplyKeepsChat DEF MenusInv, Answered
  <1>4. custom' \subseteq Customs
    BY <1>1 DEF MenusInv, CustomAfter
  <1>5. ASSUME answer' \in NotUnderstood
        PROVE  Verb(tapped') = "mer" /\ Arg(tapped') \notin recent'
    <2>1. answer' = o.said
      BY <1>1 DEF Reply
    <2>2. tapped' = b
      BY <1>1, <1>5, <2>1
    <2> QED
      BY <1>1, <1>2, <1>5, <2>1, <2>2 DEF Answered
  <1> QED
    BY <1>1, <1>3, <1>4, <1>5 DEF MenusInv, EveryButtonIsUnderstood

\* For any merchants, categories, rows and pages, however many keyboards are
\* still in reach and whatever became of what they were made from: a tap is
\* understood by the handler its prefix leads to, unless its merchant has left
\* the lookback window (the keyboards against handleReportCallback and its siblings).
THEOREM TapsStayUnderstood == MenusSpec => []EveryButtonIsUnderstood
  <1> DEFINE I == MenusInv /\ session \in BOOLEAN
  <1>1. MenusInit => I
    <2>1. "" \notin NotUnderstood
      BY DEF NotUnderstood
    <2>2. <<>> \in Seq(SUBSET Offered)
      OBVIOUS
    <2> QED
      BY <2>1, <2>2 DEF MenusInit, MenusInv, EveryButtonIsUnderstood
  <1>2. I /\ [MenusNext]_menuVars => I'
    <2> SUFFICES ASSUME I, [MenusNext]_menuVars PROVE I'
      OBVIOUS
    <2>1. ASSUME NEW c \in Commands, Command(c) PROVE I'
      <3>1. PICK o \in CommandOutcomes(c) : Reply(o)
        BY <2>1 DEF Command
      <3>2. MenusInv'
        BY <2>1, <3>1, CommandsUnderstood, SoundReplyKeeps DEF Command
      <3> QED
        BY <2>1, <3>2 DEF Command
    <2>2. ASSUME NEW i \in DOMAIN chat, NEW b \in chat[i], Tap(b) PROVE I'
      <3>1. b \in Offered
        BY <2>2 DEF MenusInv
      <3>2. session' \in BOOLEAN
        BY <2>2 DEF Tap
      <3> QED
        BY <2>2, <3>1, <3>2, TapKeeps
    <2>3. CASE TypeDelete
      <3>1. Understood({Show(CancelPending)})
        BY ShowSound, KeyboardsOffered, AloneUnderstood
      <3> QED
        BY <2>3, <3>1, SoundReplyKeeps DEF TypeDelete
    <2>4. CASE TypeName
      <3>1. PICK o \in NameReplies : Reply(o)
        BY <2>4 DEF TypeName
      <3> QED
        BY <2>4, <3>1, RepliesUnderstood, SoundReplyKeeps DEF TypeName
    <2>5. CASE TypeValue
      <3>1. PICK o \in FilterReplies : Reply(o)
        BY <2>5 DEF TypeValue
      <3> QED
        BY <2>5, <3>1, RepliesUnderstood, SoundReplyKeeps DEF TypeValue
    <2>6. ASSUME Later, recent' \subseteq Merchants, session' \in BOOLEAN PROVE I'
      <3>1. "" \notin NotUnderstood'
        BY DEF NotUnderstood
      <3> QED
        BY <2>6, <3>1 DEF Later, MenusInv, EveryButtonIsUnderstood
    <2>7. ASSUME NEW m \in Merchants, Spend(m) \/ Age(m) PROVE I'
      BY <2>6, <2>7 DEF Spend, Age, MenusInv
    <2>8. CASE ExpireSession
      BY <2>6, <2>8 DEF ExpireSession, MenusInv
    <2>9. CASE UNCHANGED menuVars
      BY <2>9 DEF menuVars, MenusInv, EveryButtonIsUnderstood, Verb, Arg
    <2> QED
      BY <2>1, <2>2, <2>3, <2>4, <2>5, <2>7, <2>8, <2>9 DEF MenusNext
  <1>3. I => EveryButtonIsUnderstood
    BY DEF MenusInv
  <1> QED
    BY <1>1, <1>2, <1>3, PTL DEF MenusSpec
===============================================================================
