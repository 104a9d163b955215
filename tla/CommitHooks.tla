--------------------------- MODULE CommitHooks -------------------------------
(***************************************************************************)
(* PrismaTransactionRepository.create with the hooks it runs inside its    *)
(* database transaction: evaluateBudgetThresholdsOnExpenseCommit for an    *)
(* expense, evaluateSavingsGoalProgressOnContributionCommit for a          *)
(* contribution to a goal; and what else writes the rows the hooks read:   *)
(* changes of transactions, of budgets, and the budget rollover job.       *)
(*                                                                         *)
(* Isolation is READ COMMITTED: each statement sees the committed rows and *)
(* those of its own transaction.  SELECT ... FOR NO KEY UPDATE waits for a *)
(* row's holder and then sees the row's latest version.  Statements of the *)
(* transactions interleave; editors of one statement are one step.         *)
(***************************************************************************)
EXTENDS Integers, FiniteSets, SequencesExt

CONSTANTS
  Commits,     \* calls of create, each the id of the row it inserts
  Budgets,     \* budget ids, numbers since ORDER BY id orders them
  Goals,
  Scopes,      \* what a budget may be set on: everything, or a category
  Labels,      \* the sets of scopes an expense falls under
  Prices,     \* of new transactions, natural numbers, as the limits and the target
  Corrections, \* what an edit may change an amount to
  Limits, Target,
  LastPeriod,  \* bound on the calendar
  MaxOpen,     \* bound on the transactions open at once
  MaxChanges   \* bound on the changes outside create, the calendar's included;
               \* a restoration undoes one

Free == "free"

ASSUME HooksAssumption ==
  /\ IsFiniteSet(Commits) /\ Free \notin Commits
  /\ Budgets \subseteq Nat /\ IsFiniteSet(Budgets) /\ Budgets \cap Goals = {}
  /\ Labels # {} /\ Labels \cap Goals = {} /\ Scopes # {}
  /\ Prices \subseteq Nat /\ Prices # {} /\ Corrections \subseteq Nat
  /\ Limits \subseteq Nat \ {0} /\ Limits # {} /\ Target \in Nat \ {0}
  /\ LastPeriod \in Nat \ {0} /\ MaxOpen \in Nat /\ MaxChanges \in Nat

VARIABLES
  created,   \* [Commits -> the transactions row]
  budget,    \* [Budgets -> the budgets row]
  log,       \* budget_notification_log: <<budget, threshold, period>>
  goal,      \* [Goals -> the savings_goals row]
  lock,      \* [Budgets \cup Goals -> holder of the row lock]
  create,    \* [Commits -> the call of create]
  announced, \* <<subject, threshold, period, commit>> of the committed events
  today,     \* the period the users' calendar is in
  due,       \* what the rollover job has read: <<budget, period>>
  changes,   \* number of those changes
  steady     \* budgets whose total only commits of create have moved

hookVars == <<created, budget, log, goal, lock, create, announced, today, due, changes, steady>>

Thresholds == {75, 90, 100}       \* DEFAULT_BUDGET_THRESHOLDS
Milestones == {25, 50, 75, 100}   \* DEFAULT_GOAL_MILESTONE_THRESHOLDS
BudgetPeriods == 1..LastPeriod

CreatedRows == [status : {"none", "open", "live", "deleted"}, of : Labels \cup Goals,
         amount : Prices \cup Corrections, period : BudgetPeriods, rated : BOOLEAN]

Steps == {"idle", "discover", "lock", "sum", "evaluate",
          "read", "progress", "lockGoal", "evaluateGoal",
          "commit", "answered", "failed"}

Finished == {"idle", "answered", "failed"}

\* todo: budgets still to lock; held: those to evaluate; used: usedAfter; news: the
\* rows for the log; fired: milestones to announce; aborted: a statement of
\* the transaction has failed; alone: no other commit or change of the goal
\* since this one began.
CommitCalls == [step : Steps, todo : Seq(Budgets), held : SUBSET Budgets, used : Nat,
          news : SUBSET (Budgets \X Thresholds \X BudgetPeriods),
          seen : Milestones \cup {0}, fired : SUBSET Milestones,
          aborted : BOOLEAN, alone : BOOLEAN]

HooksTypeOK ==
  /\ created \in [Commits -> CreatedRows]
  /\ budget \in [Budgets -> [status : {"absent", "active", "deleted"},
                             scope : Scopes, limit : Limits, period : BudgetPeriods]]
  /\ log \subseteq Budgets \X Thresholds \X BudgetPeriods
  /\ goal \in [Goals -> [last : Milestones \cup {0}, completed : BOOLEAN]]
  /\ lock \in [Budgets \cup Goals -> Commits \cup {Free}]
  /\ create \in [Commits -> CommitCalls]
  /\ announced \subseteq
       (Budgets \cup Goals) \X (Thresholds \cup Milestones) \X (BudgetPeriods \cup {0}) \X Commits
  /\ today \in BudgetPeriods
  /\ due \subseteq Budgets \X BudgetPeriods
  /\ changes \in 0..MaxChanges
  /\ steady \subseteq Budgets

NoCall == [step |-> "idle", todo |-> <<>>, held |-> {}, used |-> 0, news |-> {},
           seen |-> 0, fired |-> {}, aborted |-> FALSE, alone |-> FALSE]

NoRow == [status |-> "none", of |-> CHOOSE l \in Labels : TRUE,
          amount |-> CHOOSE a \in Prices : TRUE, period |-> 1, rated |-> TRUE]

HooksInit ==
  /\ created = [c \in Commits |-> NoRow]
  /\ budget = [b \in Budgets |-> [status |-> "absent", scope |-> CHOOSE s \in Scopes : TRUE,
                                  limit |-> CHOOSE l \in Limits : TRUE, period |-> 1]]
  /\ log = {}
  /\ goal = [g \in Goals |-> [last |-> 0, completed |-> FALSE]]
  /\ lock = [r \in Budgets \cup Goals |-> Free]
  /\ create = [c \in Commits |-> NoCall]
  /\ announced = {}
  /\ today = 1
  /\ due = {}
  /\ changes = 0
  /\ steady = Budgets

(***************************************************************************)
(* What the rows add up to                                                 *)
(***************************************************************************)
IsExpense(c) == created[c].of \in Labels
Posted == {c \in Commits : created[c].status = "live"}
Open == {c \in Commits : create[c].step \notin Finished}
Total(S) == SumFunctionOnSet([c \in Commits |-> created[c].amount], S)

\* The candidates query's condition on one budget.
Concerns(b, c) ==
  /\ budget[b].status = "active"
  /\ budget[b].scope \in created[c].of
  /\ budget[b].period = created[c].period

\* The sum over the rows S; an expense without a rate adds nothing.
UsedAmount(b, S) ==
  Total({c \in S : IsExpense(c) /\ created[c].rated /\ budget[b].scope \in created[c].of
                   /\ created[c].period = budget[b].period})

\* Utilization is at or over t percent.
Reached(amount, limit, t) == amount * 100 >= t * limit

Crossing(before, after, limit) ==
  {t \in Thresholds : ~Reached(before, limit, t) /\ Reached(after, limit, t)}

Contributions(g, S) == {c \in S : created[c].of = g}
ProgressUnavailable(g, S) == \E c \in Contributions(g, S) : ~created[c].rated

NewlyCrossed(last, g, S) ==
  {m \in Milestones : m > last /\ Reached(Total(Contributions(g, S)), Target, m)}

(***************************************************************************)
(* create: the insert                                                      *)
(***************************************************************************)
IsAt(c, step) == create[c].step = step
Goto(c, step) == create' = [create EXCEPT ![c].step = step]

\* validateNew has passed and the row is inserted; only its own transaction
\* sees it.  The hook depends on the type.
Insert(c, of, amount, period, rated) ==
  /\ IsAt(c, "idle")
  /\ Cardinality(Open) < MaxOpen
  /\ created' = [created EXCEPT ![c] = [status |-> "open", of |-> of, amount |-> amount,
                                period |-> period, rated |-> rated]]
  /\ UNCHANGED <<budget, log, goal, lock, announced, today, due, changes, steady>>

\* CreateExpenseUseCase; the date is not in the future.
InsertExpense(c) ==
  \E l \in Labels, a \in Prices, p \in 1..today, rated \in BOOLEAN :
    /\ Insert(c, l, a, p, rated)
    /\ Goto(c, "discover")

\* ContributeToSavingsGoalUseCase, or a transfer with a goal.
InsertContribution(c) ==
  \E g \in Goals, a \in Prices, rated \in BOOLEAN :
    LET others == {d \in Open : created[d].of = g} IN
    /\ Insert(c, g, a, 1, rated)
    /\ create' = [d \in Commits |->
                  IF d = c THEN [NoCall EXCEPT !.step = "read", !.alone = (others = {})]
                  ELSE IF d \in others THEN [create[d] EXCEPT !.alone = FALSE]
                  ELSE create[d]]

(***************************************************************************)
(* evaluateBudgetThresholdsOnExpenseCommit                                 *)
(***************************************************************************)
\* As it would be locking the rows in the order they were discovered.
LockOrdersOfDiscovery(candidates) == SetToSeqs(candidates)

\* The orders in which one invocation may lock: sorted by id.
LockOrders(candidates) ==
  {order \in SetToSeqs(candidates) : \A i, j \in DOMAIN order : i < j => order[i] < order[j]}

DiscoverBudgets(c) ==
  /\ IsAt(c, "discover")
  /\ \E order \in LockOrders({b \in Budgets : Concerns(b, c)}) :
       create' = [create EXCEPT ![c].todo = order,
                            ![c].step = IF order = <<>> THEN "commit" ELSE "lock"]
  /\ UNCHANGED <<created, budget, log, goal, lock, announced, today, due, changes, steady>>

\* The locking query checks status and period again, not the category.
StillCurrent(b, c) == budget[b].status = "active" /\ budget[b].period = created[c].period

\* One row of the ORDER BY id FOR NO KEY UPDATE: taken, or no longer selected.
LockOne(c, b) ==
  LET took == StillCurrent(b, c)
      held == IF took THEN create[c].held \cup {b} ELSE create[c].held
      todo == Tail(create[c].todo) IN
  /\ took => lock[b] = Free
  /\ lock' = IF took THEN [lock EXCEPT ![b] = c] ELSE lock
  /\ create' = [create EXCEPT ![c].todo = todo, ![c].held = held,
                          ![c].step = IF todo # <<>> THEN "lock"
                                      ELSE IF held = {} THEN "commit" ELSE "sum"]

LockBudget(c) ==
  /\ IsAt(c, "lock")
  /\ LockOne(c, Head(create[c].todo))
  /\ UNCHANGED <<created, budget, log, goal, announced, today, due, changes, steady>>

\* As it would be outside the transaction, which does not see its own row.
SumUsedWithoutOwn(c) ==
  LET b == Min(create[c].held) IN
  /\ IsAt(c, "sum")
  /\ create' = [create EXCEPT ![c].used = UsedAmount(b, Posted), ![c].step = "evaluate"]
  /\ UNCHANGED <<created, budget, log, goal, lock, announced, today, due, changes, steady>>

\* usedAfter: the sum with this transaction's own row.
SumUsed(c) ==
  LET b == Min(create[c].held) IN
  /\ IsAt(c, "sum")
  /\ create' = [create EXCEPT ![c].used = UsedAmount(b, Posted \cup {c}), ![c].step = "evaluate"]
  /\ UNCHANGED <<created, budget, log, goal, lock, announced, today, due, changes, steady>>

\* The thresholds that usedBefore, summed now, and usedAfter lie across.
Crossed(c, b) ==
  {<<b, t, budget[b].period>> :
     t \in Crossing(UsedAmount(b, Posted \ {c}), create[c].used, budget[b].limit)}

\* The transaction is rolled back and its locks are gone.
RollBack(c, step) ==
  /\ created' = [created EXCEPT ![c] = NoRow]
  /\ lock' = [r \in DOMAIN lock |-> IF lock[r] = c THEN Free ELSE lock[r]]
  /\ create' = [create EXCEPT ![c] = [NoCall EXCEPT !.step = step]]
  /\ UNCHANGED <<budget, log, goal, announced, today, due, changes, steady>>

\* Each crossed threshold is logged and its event inserted.
LogCrossings(c) ==
  LET b == Min(create[c].held)
      rest == create[c].held \ {b} IN
  /\ IsAt(c, "evaluate")
  /\ Crossed(c, b) \cap log = {}
  /\ create' = [create EXCEPT ![c].news = @ \cup Crossed(c, b), ![c].held = rest, ![c].used = 0,
                          ![c].step = IF rest = {} THEN "commit" ELSE "sum"]
  /\ UNCHANGED <<created, budget, log, goal, lock, announced, today, due, changes, steady>>

\* A crossed threshold is in the log already: P2002 is caught, but the failed
\* insert has aborted the database transaction.  The next statement, for a
\* further threshold or budget, fails and its error is thrown; with none left
\* the callback returns and COMMIT is reached.
CrossesAgain(c) ==
  LET b == Min(create[c].held)
      again == {n[2] : n \in Crossed(c, b) \cap log}
      rest == create[c].held \ {b}
      isLastStatement == rest = {} /\ Min(again) = Max({n[2] : n \in Crossed(c, b)}) IN
  /\ IsAt(c, "evaluate")
  /\ again # {}
  /\ IF isLastStatement
     THEN /\ create' = [create EXCEPT ![c].aborted = TRUE, ![c].held = {}, ![c].used = 0,
                                  ![c].step = "commit"]
          /\ UNCHANGED <<created, budget, log, goal, lock, announced, today, due, changes, steady>>
     ELSE RollBack(c, "failed")

(***************************************************************************)
(* evaluateSavingsGoalProgressOnContributionCommit                         *)
(***************************************************************************)
ReadGoal(c) ==
  /\ IsAt(c, "read")
  /\ create' = [create EXCEPT ![c].seen = goal[created[c].of].last, ![c].step = "progress"]
  /\ UNCHANGED <<created, budget, log, goal, lock, announced, today, due, changes, steady>>

\* As it would be with the sum computed before the insert.
WorthLockingForOthers(c) ==
  LET g == created[c].of IN
  /\ ~ProgressUnavailable(g, Posted)
  /\ NewlyCrossed(create[c].seen, g, Posted) # {}

\* The first sum, without the lock, decides whether to take it.
WorthLocking(c) ==
  LET g == created[c].of IN
  /\ ~ProgressUnavailable(g, Posted \cup {c})
  /\ NewlyCrossed(create[c].seen, g, Posted \cup {c}) # {}

OptimisticProgress(c) ==
  /\ IsAt(c, "progress")
  /\ Goto(c, IF WorthLocking(c) THEN "lockGoal" ELSE "commit")
  /\ UNCHANGED <<created, budget, log, goal, lock, announced, today, due, changes, steady>>

LockGoal(c) ==
  /\ IsAt(c, "lockGoal")
  /\ lock[created[c].of] = Free
  /\ lock' = [lock EXCEPT ![created[c].of] = c]
  /\ Goto(c, "evaluateGoal")
  /\ UNCHANGED <<created, budget, log, goal, announced, today, due, changes, steady>>

\* The second sum, compared with last_milestone_fired as locked.
MilestonesToFire(c) ==
  LET g == created[c].of IN
  IF ProgressUnavailable(g, Posted \cup {c}) THEN {}
  ELSE NewlyCrossed(goal[g].last, g, Posted \cup {c})

EvaluateGoal(c) ==
  /\ IsAt(c, "evaluateGoal")
  /\ create' = [create EXCEPT ![c].fired = MilestonesToFire(c), ![c].step = "commit"]
  /\ UNCHANGED <<created, budget, log, goal, lock, announced, today, due, changes, steady>>

(***************************************************************************)
(* create: the end of the database transaction                             *)
(***************************************************************************)
\* The update of the savings_goals row.
GoalAfter(g, fired) ==
  [last |-> Max(fired), completed |-> goal[g].completed \/ Max(fired) >= 100]

Commit(c) ==
  /\ IsAt(c, "commit")
  /\ ~create[c].aborted
  /\ created' = [created EXCEPT ![c].status = "live"]
  /\ log' = log \cup create[c].news
  /\ announced' = announced \cup {<<n[1], n[2], n[3], c>> : n \in create[c].news}
                            \cup {<<created[c].of, m, 0, c>> : m \in create[c].fired}
  /\ goal' = IF create[c].fired = {} THEN goal
             ELSE [goal EXCEPT ![created[c].of] = GoalAfter(created[c].of, create[c].fired)]
  /\ lock' = [r \in DOMAIN lock |-> IF lock[r] = c THEN Free ELSE lock[r]]
  /\ create' = [create EXCEPT ![c] = [NoCall EXCEPT !.step = "answered"]]
  /\ UNCHANGED <<budget, today, due, changes, steady>>

\* COMMIT of an aborted transaction rolls it back and reports no error.
CommitAborted(c) ==
  /\ IsAt(c, "commit")
  /\ create[c].aborted
  /\ RollBack(c, "answered")

\* The transaction runs into its timeout, or its process ends.
Fail(c) ==
  /\ c \in Open
  /\ RollBack(c, "failed")

(***************************************************************************)
(* What else writes these rows                                             *)
(***************************************************************************)
Counted == changes < MaxChanges /\ changes' = changes + 1

\* A committed row is deleted, restored, edited, or gets its rate: no hook runs.
ChangeRow(c, new) ==
  LET g == created[c].of IN
  /\ new # created[c]
  /\ created' = [created EXCEPT ![c] = new]
  /\ steady' = IF IsExpense(c) THEN {} ELSE steady
  /\ create' = [d \in Commits |-> IF d \in Open /\ created[d].of = g
                               THEN [create[d] EXCEPT !.alone = FALSE] ELSE create[d]]
  /\ UNCHANGED <<budget, log, goal, lock, announced, today, due>>

DeleteTransaction(c) ==
  created[c].status = "live" /\ Counted /\ ChangeRow(c, [created[c] EXCEPT !.status = "deleted"])

RestoreTransaction(c) ==
  /\ created[c].status = "deleted"
  /\ ChangeRow(c, [created[c] EXCEPT !.status = "live"])
  /\ UNCHANGED changes

EditTransaction(c) ==
  /\ created[c].status = "live"
  /\ Counted
  /\ \E a \in Corrections, p \in 1..today :
       ChangeRow(c, [created[c] EXCEPT !.amount = a, !.period = IF IsExpense(c) THEN p ELSE @])

\* FX ingestion stores the rate a row lacked.
IngestRate(c) ==
  /\ created[c].status \in {"live", "deleted"}
  /\ Counted
  /\ ChangeRow(c, [created[c] EXCEPT !.rated = TRUE])

\* uq_budgets_category_period, uq_budgets_overall_period.
ScopeIsFree(b, scope) ==
  \A d \in Budgets \ {b} : budget[d].status = "active" => budget[d].scope # scope

\* The new budget starts in the current period; rows there may precede it.
CreateBudget(b) ==
  \E scope \in Scopes, limit \in Limits :
    /\ budget[b].status = "absent"
    /\ ScopeIsFree(b, scope)
    /\ budget' = [budget EXCEPT ![b] = [status |-> "active", scope |-> scope,
                                       limit |-> limit, period |-> today]]
    /\ steady' = IF \A c \in Commits : created[c].status = "none" THEN steady ELSE steady \ {b}
    /\ UNCHANGED <<created, log, goal, lock, create, announced, today, due, changes>>

\* The UPDATE waits for the row lock a hook holds.
EditBudget(b) ==
  \E scope \in Scopes, limit \in Limits :
    /\ budget[b].status = "active"
    /\ lock[b] = Free
    /\ ScopeIsFree(b, scope)
    /\ <<scope, limit>> # <<budget[b].scope, budget[b].limit>>
    /\ Counted
    /\ budget' = [budget EXCEPT ![b].scope = scope, ![b].limit = limit]
    /\ steady' = steady \ {b}
    /\ UNCHANGED <<created, log, goal, lock, create, announced, today, due>>

DeleteBudget(b) ==
  /\ budget[b].status = "active"
  /\ lock[b] = Free
  /\ Counted
  /\ budget' = [budget EXCEPT ![b].status = "deleted"]
  /\ UNCHANGED <<created, log, goal, lock, create, announced, today, due, steady>>

NextPeriod ==
  /\ today < LastPeriod
  /\ Counted
  /\ today' = today + 1
  /\ UNCHANGED <<created, budget, log, goal, lock, create, announced, due, steady>>

(***************************************************************************)
(* RolloverBudgetPeriodsUseCase, run by the worker every ten minutes       *)
(***************************************************************************)
IsDue(b) == budget[b].status = "active" /\ budget[b].period < today

\* findDueForRollover reads each user's budgets inside that user's context.
FindDue ==
  /\ due = {}
  /\ \E b \in Budgets : IsDue(b)
  /\ due' = {<<b, budget[b].period>> : b \in {d \in Budgets : IsDue(d)}}
  /\ UNCHANGED <<created, budget, log, goal, lock, create, announced, today, changes, steady>>

\* rolloverPeriod runs outside any user context, where the RLS extension
\* refuses a query of the model Budget: the first call throws, nothing is
\* updated and the job fails.
RolloverPeriod ==
  /\ due # {}
  /\ due' = {}
  /\ UNCHANGED <<created, budget, log, goal, lock, create, announced, today, changes, steady>>

HooksNext ==
  \/ \E c \in Commits :
       \/ InsertExpense(c) \/ InsertContribution(c)
       \/ DiscoverBudgets(c) \/ LockBudget(c) \/ SumUsed(c) \/ LogCrossings(c) \/ CrossesAgain(c)
       \/ ReadGoal(c) \/ OptimisticProgress(c) \/ LockGoal(c) \/ EvaluateGoal(c)
       \/ Commit(c) \/ CommitAborted(c) \/ Fail(c)
       \/ DeleteTransaction(c) \/ RestoreTransaction(c) \/ EditTransaction(c) \/ IngestRate(c)
  \/ \E b \in Budgets : CreateBudget(b) \/ EditBudget(b) \/ DeleteBudget(b)
  \/ NextPeriod \/ FindDue \/ RolloverPeriod

HooksSpec == HooksInit /\ [][HooksNext]_hookVars

\* The queue repeats the job; a started job runs to its end.
FairHooksSpec == HooksSpec /\ WF_hookVars(FindDue) /\ WF_hookVars(RolloverPeriod)

(***************************************************************************)
(* Properties                                                              *)
(***************************************************************************)
\* The lock makes the combined total count: of a budget whose total only
\* commits of create have moved, exactly the thresholds that its used amount
\* reaches are in the log, however the commits interleave.
LogMatchesUse ==
  \A b \in steady :
    budget[b].status = "active" =>
      \A t \in Thresholds :
        <<b, t, budget[b].period>> \in log <=> Reached(UsedAmount(b, Posted), budget[b].limit, t)

\* A threshold of a budget is announced once in a period, a milestone of a
\* goal once for good, also when rows are deleted and the total rises again;
\* the log and last_milestone_fired name just what has been announced.
AnnouncedOnce ==
  /\ \A e, f \in announced :
       <<e[1], e[2], e[3]>> = <<f[1], f[2], f[3]>> => e[4] = f[4]
  /\ \A e \in announced :
       IF e[1] \in Budgets THEN <<e[1], e[2], e[3]>> \in log ELSE e[2] <= goal[e[1]].last
  /\ \A n \in log : \E c \in Commits : <<n[1], n[2], n[3], c>> \in announced
  /\ \A g \in Goals, m \in Milestones :
       m <= goal[g].last => \E c \in Commits : <<g, m, 0, c>> \in announced
  /\ \A g \in Goals : goal[g].completed <=> goal[g].last = 100

\* A budget's notifications are those its use calls for, each announced once.
CrossingsAreToldOnce == LogMatchesUse /\ AnnouncedOnce

WaitsFor(c, d) ==
  \/ IsAt(c, "lock") /\ StillCurrent(Head(create[c].todo), c) /\ lock[Head(create[c].todo)] = d
  \/ IsAt(c, "lockGoal") /\ lock[created[c].of] = d

\* ORDER BY id: no transactions wait for each other in a circle, though an
\* expense may lock several budgets one after the other.
LocksNeverCross ==
  \A S \in (SUBSET Commits) \ {{}} : \E c \in S : \A d \in S : ~WaitsFor(c, d)

\* Whatever was deleted, edited or missed before, a contribution that meets no
\* other and no missing rate leaves every milestone fired that the total
\* reaches: the goal catches up.
LoneContributionCatchesUp ==
  [][\A c \in Commits :
       LET g == created[c].of IN
       /\ created[c].status = "open" /\ created'[c].status = "live"
       /\ ~IsExpense(c) /\ create[c].alone
       /\ ~ProgressUnavailable(g, Posted \cup {c})
       => NewlyCrossed(goal'[g].last, g, Posted \cup {c}) = {}]_hookVars

\* A create that has returned its transaction has stored it.
AnsweredIsStored == \A c \in Commits : IsAt(c, "answered") => created[c].status # "none"

\* A budget whose period is over is rolled over, or deleted.
DueRollsOver == \A b \in Budgets : IsDue(b) ~> ~IsDue(b)
=============================================================================
