------------------------ MODULE CommitEffects_proofs -------------------------
(***************************************************************************)
(* What follows a commit: its hooks and the report totals it outdates.     *)
(* For any commits, budgets and goals, amounts and limits and any number   *)
(* of changes in between: however the hooks interleave, the notifications  *)
(* are those the totals call for, each told once, and nobody waits in a    *)
(* circle.  Sums are reasoned about by SumTheorems.  For any transactions, *)
(* periods, readers and editors: no cached total is stale but in a way     *)
(* StaleIsExplained names.                                                 *)
(***************************************************************************)
EXTENDS CommitHooks, ReportCache, SumTheorems

ExpenseSteps == {"discover", "lock", "sum", "evaluate"}
GoalSteps == {"read", "progress", "lockGoal", "evaluateGoal"}

\* The row of a call is what its step says, and only it has taken which hook.
RowFollows(c) ==
  /\ create[c].step \in {"idle", "failed"} => created[c].status = "none"
  /\ c \in Open => created[c].status = "open"
  /\ IsAt(c, "answered") => created[c].status # "open"
  /\ create[c].step \in ExpenseSteps => IsExpense(c)
  /\ create[c].step \in GoalSteps => created[c].of \in Goals

Awaits(c, b) == \E i \in DOMAIN create[c].todo : create[c].todo[i] = b

\* Budgets are locked in ascending order; those held are locked.
QueueStands(c) ==
  /\ IsAt(c, "lock") =>
       /\ create[c].todo # <<>>
       /\ \A i, j \in DOMAIN create[c].todo : i < j => create[c].todo[i] < create[c].todo[j]
       /\ create[c].held = {b \in Budgets : lock[b] = c}
       /\ \A b \in create[c].held, i \in DOMAIN create[c].todo : b < create[c].todo[i]
  /\ ~IsAt(c, "lock") => create[c].todo = <<>>
  /\ create[c].held # {} => create[c].step \in {"lock", "sum", "evaluate"}
  /\ create[c].step \in {"sum", "evaluate"} =>
       create[c].held # {} /\ \A b \in create[c].held : lock[b] = c

\* Whoever holds a row is a call under way that needs it.
LocksStand(c) ==
  /\ \A r \in Budgets \cup Goals : lock[r] = c =>
       /\ r \in Budgets => /\ create[c].step \in {"lock", "sum", "evaluate", "commit"}
                           /\ IsExpense(c) /\ budget[r].status = "active"
       /\ r \in Goals => create[c].step \in {"evaluateGoal", "commit"} /\ created[c].of = r
  /\ create[c].step = "evaluateGoal" => lock[created[c].of] = c

\* What a call will log is of a budget it holds, and new.
NewsStands(c) ==
  \A n \in create[c].news :
    /\ create[c].step \in {"sum", "evaluate", "commit"}
    /\ lock[n[1]] = c /\ n \notin log /\ n[1] \notin create[c].held

\* The milestones a call will fire are the next ones of the goal it holds.
FiredStands(c) ==
  create[c].fired # {} =>
    LET g == created[c].of IN
    /\ IsAt(c, "commit") /\ g \in Goals /\ lock[g] = c
    /\ \A m \in create[c].fired :
         /\ m > goal[g].last
         /\ \A k \in Milestones : goal[g].last < k /\ k < m => k \in create[c].fired

HookStands(c) ==
  RowFollows(c) /\ QueueStands(c) /\ LocksStand(c) /\ NewsStands(c) /\ FiredStands(c)

LoggedBudgetsExist == \A n \in log : budget[n[1]].status # "absent"

\* The thresholds of a budget the commit of c crosses.
CrossedBy(c, b) ==
  Crossing(UsedAmount(b, Posted), UsedAmount(b, Posted \cup {c}), budget[b].limit)

\* A call holds, or is about to lock, the steady budgets its expense concerns,
\* and what it has evaluated stands until it ends.
SteadyStands(b, c) ==
  /\ c \in Open /\ IsExpense(c) =>
       /\ create[c].step \in {"lock", "sum", "evaluate", "commit"} /\ Concerns(b, c) =>
            lock[b] = c \/ Awaits(c, b)
       /\ lock[b] = c \/ Awaits(c, b) => Concerns(b, c)
  /\ IsAt(c, "evaluate") /\ b = Min(create[c].held) =>
       create[c].used = UsedAmount(b, Posted \cup {c})
  /\ /\ lock[b] = c /\ create[c].step \in {"sum", "evaluate", "commit"}
     /\ ~create[c].aborted /\ b \notin create[c].held
     => {n \in create[c].news : n[1] = b} = {<<b, t, budget[b].period>> : t \in CrossedBy(c, b)}

SteadyBudgetsStand ==
  \A b \in steady : budget[b].status = "active" => \A c \in Commits : SteadyStands(b, c)

\* Nobody else moves the goal of a lone contribution.
AloneStands(c) ==
  LET g == created[c].of IN
  c \in Open /\ g \in Goals /\ create[c].alone =>
    /\ \A d \in Open \ {c} : created[d].of # g
    /\ ~IsAt(c, "read") => create[c].seen = goal[g].last
    /\ IsAt(c, "commit") /\ ~ProgressUnavailable(g, Posted \cup {c}) =>
         create[c].fired = NewlyCrossed(goal[g].last, g, Posted \cup {c})

HooksInv ==
  /\ HooksTypeOK
  /\ \A c \in Commits : HookStands(c) /\ AloneStands(c)
  /\ LoggedBudgetsExist
  /\ LogMatchesUse /\ AnnouncedOnce
  /\ SteadyBudgetsStand
(***************************************************************************)
(* Totals                                                                  *)
(***************************************************************************)
AmountsOf(rows) == [c \in Commits |-> rows[c].amount]
CountsIn(rows, scope, period, c) ==
  rows[c].of \in Labels /\ rows[c].rated /\ scope \in rows[c].of /\ rows[c].period = period

\* UsedAmount and the total of a goal, for rows as they are or will be.
UsedIn(rows, scope, period, S) ==
  SumFunctionOnSet(AmountsOf(rows), {c \in S : CountsIn(rows, scope, period, c)})
GivenIn(rows, g, S) == SumFunctionOnSet(AmountsOf(rows), {c \in S : rows[c].of = g})

LEMMA UsedAmountIs ==
  ASSUME NEW b, NEW S
  PROVE  UsedAmount(b, S) = UsedIn(created, budget[b].scope, budget[b].period, S)
  BY DEF UsedAmount, UsedIn, Total, AmountsOf, CountsIn, IsExpense

LEMMA UsedIsNatural ==
  ASSUME NEW rows \in [Commits -> CreatedRows], NEW scope, NEW period,
         NEW S \in SUBSET Commits
  PROVE  /\ UsedIn(rows, scope, period, S) \in Nat
         /\ \A R \in SUBSET S : UsedIn(rows, scope, period, R) <= UsedIn(rows, scope, period, S)
  <1> DEFINE some(R) == {c \in R : CountsIn(rows, scope, period, c)}
  <1>1. IsFiniteSet(some(S))
    BY FS_Subset, HooksAssumption
  <1>2. \A c \in some(S) : AmountsOf(rows)[c] \in Nat
    BY HooksAssumption DEF AmountsOf, CreatedRows
  <1>3. /\ SumFunctionOnSet(AmountsOf(rows), some(S)) \in Nat
        /\ \A R \in SUBSET some(S) :
             SumFunctionOnSet(AmountsOf(rows), R) <= SumFunctionOnSet(AmountsOf(rows), some(S))
    <2> HIDE DEF some
    <2> QED
      BY <1>1, <1>2, SumOfNaturals
  <1>4. \A R \in SUBSET S : some(R) \in SUBSET some(S)
    OBVIOUS
  <1> QED
    BY <1>3, <1>4 DEF UsedIn

\* A total is that of the rows that count towards it.
LEMMA UsedIsKept ==
  ASSUME NEW old \in [Commits -> CreatedRows], NEW new \in [Commits -> CreatedRows],
         NEW scope, NEW period, NEW S \in SUBSET Commits, NEW T \in SUBSET Commits,
         \A c \in Commits :
           /\ c \in S /\ CountsIn(old, scope, period, c) <=> c \in T /\ CountsIn(new, scope, period, c)
           /\ c \in S /\ CountsIn(old, scope, period, c) => new[c].amount = old[c].amount
  PROVE  UsedIn(new, scope, period, T) = UsedIn(old, scope, period, S)
  <1> DEFINE some == {c \in S : CountsIn(old, scope, period, c)}
  <1>1. some = {c \in T : CountsIn(new, scope, period, c)}
    OBVIOUS
  <1>2. IsFiniteSet(some)
    BY FS_Subset, HooksAssumption
  <1>3. \A c \in some : AmountsOf(new)[c] = AmountsOf(old)[c]
    BY DEF AmountsOf
  <1>4. SumFunctionOnSet(AmountsOf(new), some) = SumFunctionOnSet(AmountsOf(old), some)
    <2> HIDE DEF some
    <2> QED
      BY <1>2, <1>3, SumOfSame
  <1> QED
    BY <1>1, <1>4 DEF UsedIn

LEMMA GivenIsKept ==
  ASSUME NEW old \in [Commits -> CreatedRows], NEW new \in [Commits -> CreatedRows],
         NEW g, NEW S \in SUBSET Commits, NEW T \in SUBSET Commits,
         \A c \in Commits :
           /\ c \in S /\ old[c].of = g <=> c \in T /\ new[c].of = g
           /\ c \in S /\ old[c].of = g => new[c].amount = old[c].amount
  PROVE  GivenIn(new, g, T) = GivenIn(old, g, S)
  <1> DEFINE some == {c \in S : old[c].of = g}
  <1>1. some = {c \in T : new[c].of = g}
    OBVIOUS
  <1>2. IsFiniteSet(some)
    BY FS_Subset, HooksAssumption
  <1>3. \A c \in some : AmountsOf(new)[c] = AmountsOf(old)[c]
    BY DEF AmountsOf
  <1>4. SumFunctionOnSet(AmountsOf(new), some) = SumFunctionOnSet(AmountsOf(old), some)
    <2> HIDE DEF some
    <2> QED
      BY <1>2, <1>3, SumOfSame
  <1> QED
    BY <1>1, <1>4 DEF GivenIn

LEMMA GivenIsNatural ==
  ASSUME NEW rows \in [Commits -> CreatedRows], NEW g, NEW S \in SUBSET Commits
  PROVE  GivenIn(rows, g, S) \in Nat
  <1> DEFINE some == {c \in S : rows[c].of = g}
  <1>1. IsFiniteSet(some)
    BY FS_Subset, HooksAssumption
  <1>2. \A c \in some : AmountsOf(rows)[c] \in Nat
    BY HooksAssumption DEF AmountsOf, CreatedRows
  <1>3. SumFunctionOnSet(AmountsOf(rows), some) \in Nat
    <2> HIDE DEF some
    <2> QED
      BY <1>1, <1>2, SumOfNaturals
  <1> QED
    BY <1>3 DEF GivenIn

LEMMA NewlyCrossedIs ==
  ASSUME NEW last, NEW g, NEW S
  PROVE  NewlyCrossed(last, g, S)
         = {m \in Milestones : m > last /\ Reached(GivenIn(created, g, S), Target, m)}
  BY DEF NewlyCrossed, GivenIn, Total, Contributions, AmountsOf

\* The least of some budgets, the greatest of some milestones.
LEMMA MinIs ==
  ASSUME NEW S, S \subseteq Nat, S # {}
  PROVE  Min(S) \in S /\ \A y \in S : Min(S) <= y
  BY LeastNatural DEF Min

LEMMA MaxIs ==
  ASSUME NEW F \in SUBSET Milestones, F # {}
  PROVE  Max(F) \in F /\ \A m \in F : m <= Max(F)
  <1>1. \E x \in F : \A m \in F : m <= x
    <2>1. CASE 100 \in F
      BY <2>1 DEF Milestones
    <2>2. CASE 75 \in F /\ 100 \notin F
      BY <2>2 DEF Milestones
    <2>3. CASE 50 \in F /\ 75 \notin F /\ 100 \notin F
      BY <2>3 DEF Milestones
    <2>4. CASE 50 \notin F /\ 75 \notin F /\ 100 \notin F
      <3>1. \A m \in F : m = 25
        BY <2>4 DEF Milestones
      <3> QED
        BY <3>1
    <2> QED
      BY <2>1, <2>2, <2>3, <2>4
  <1> QED
    BY <1>1 DEF Max

(***************************************************************************)
(* What a step of another leaves as it was                                 *)
(***************************************************************************)
SameCall(d) == create'[d] = create[d] \/ create'[d] = [create[d] EXCEPT !.alone = FALSE]

LEMMA SameCallKeeps ==
  ASSUME HooksTypeOK, NEW d \in Commits, SameCall(d)
  PROVE  /\ create'[d].step = create[d].step /\ create'[d].todo = create[d].todo
         /\ create'[d].held = create[d].held /\ create'[d].used = create[d].used
         /\ create'[d].news = create[d].news /\ create'[d].seen = create[d].seen
         /\ create'[d].fired = create[d].fired /\ create'[d].aborted = create[d].aborted
         /\ create'[d].alone => create[d].alone
         /\ create'[d] \in CommitCalls
  <1>1. create[d] \in CommitCalls
    BY DEF HooksTypeOK
  <1> QED
    BY <1>1 DEF SameCall, CommitCalls

LEMMA BystanderStands ==
  ASSUME HooksTypeOK, NEW d \in Commits, HookStands(d),
         created'[d] = created[d], SameCall(d),
         \A r \in Budgets \cup Goals : lock'[r] = d <=> lock[r] = d,
         \A r \in Budgets : lock[r] = d => budget'[r].status = budget[r].status,
         \A n \in create[d].news : n \notin log => n \notin log',
         \A g \in Goals : lock[g] = d => goal'[g].last = goal[g].last
  PROVE  HookStands(d)'
  <1>0. /\ create'[d].step = create[d].step /\ create'[d].todo = create[d].todo
        /\ create'[d].held = create[d].held /\ create'[d].news = create[d].news
        /\ create'[d].fired = create[d].fired
        /\ create[d] \in CommitCalls
    BY SameCallKeeps DEF HooksTypeOK
  <1>1. RowFollows(d)'
    BY <1>0 DEF HookStands, RowFollows, Open, Finished, IsAt, IsExpense
  <1>2. QueueStands(d)'
    <2>1. {b \in Budgets : lock'[b] = d} = {b \in Budgets : lock[b] = d}
      OBVIOUS
    <2>2. create[d].held \subseteq Budgets
      BY <1>0 DEF CommitCalls
    <2> QED
      BY <1>0, <2>1, <2>2 DEF HookStands, QueueStands, IsAt
  <1>3. LocksStand(d)'
    <2>1. create[d].step = "evaluateGoal" => created[d].of \in Goals
      BY DEF HookStands, RowFollows, GoalSteps
    <2> QED
      BY <1>0, <2>1 DEF HookStands, LocksStand, IsExpense
  <1>4. NewsStands(d)'
    <2>1. \A n \in create[d].news : n[1] \in Budgets
      BY <1>0 DEF CommitCalls
    <2> QED
      BY <1>0, <2>1 DEF HookStands, NewsStands
  <1>5. FiredStands(d)'
    BY <1>0 DEF HookStands, FiredStands, IsAt
  <1> QED
    BY <1>1, <1>2, <1>3, <1>4, <1>5 DEF HookStands

CountsTowards(b, c) == CountsIn(created, budget[b].scope, budget[b].period, c)

\* No row that counts towards b has come, gone or changed.
TotalKept(b) ==
  /\ budget'[b].scope = budget[b].scope /\ budget'[b].period = budget[b].period
  /\ \A e \in Commits :
       \/ created'[e] = created[e]
       \/ /\ ~(created[e].status = "live" /\ CountsTowards(b, e))
          /\ ~(created'[e].status = "live" /\ CountsTowards(b, e)')

LEMMA UsedAmountKept ==
  ASSUME created \in [Commits -> CreatedRows], created' \in [Commits -> CreatedRows],
         NEW b, TotalKept(b)
  PROVE  /\ UsedAmount(b, Posted)' = UsedAmount(b, Posted)
         /\ \A d \in Commits : created'[d] = created[d] =>
              UsedAmount(b, Posted \cup {d})' = UsedAmount(b, Posted \cup {d})
  <1> DEFINE scope == budget[b].scope
             period == budget[b].period
  <1>1. /\ UsedAmount(b, Posted)' = UsedIn(created', scope, period, Posted')
        /\ \A d : UsedAmount(b, Posted \cup {d})' = UsedIn(created', scope, period, Posted' \cup {d})
    BY DEF TotalKept, UsedAmount, UsedIn, Total, AmountsOf, CountsIn, IsExpense
  <1>2. /\ UsedAmount(b, Posted) = UsedIn(created, scope, period, Posted)
        /\ \A d : UsedAmount(b, Posted \cup {d}) = UsedIn(created, scope, period, Posted \cup {d})
    BY UsedAmountIs
  <1>3. Posted \in SUBSET Commits /\ Posted' \in SUBSET Commits
    BY DEF Posted
  <1>4. \A e \in Commits :
          \/ created'[e] = created[e] /\ (e \in Posted' <=> e \in Posted)
          \/ /\ ~(e \in Posted /\ CountsIn(created, scope, period, e))
             /\ ~(e \in Posted' /\ CountsIn(created', scope, period, e))
    BY DEF TotalKept, CountsTowards, CountsIn, Posted
  <1>5. UsedIn(created', scope, period, Posted') = UsedIn(created, scope, period, Posted)
    <2> HIDE DEF scope, period
    <2>1. \A e \in Commits :
            /\ e \in Posted /\ CountsIn(created, scope, period, e)
               <=> e \in Posted' /\ CountsIn(created', scope, period, e)
            /\ e \in Posted /\ CountsIn(created, scope, period, e)
               => created'[e].amount = created[e].amount
      BY <1>4 DEF CountsIn
    <2> QED
      BY <1>3, <2>1, UsedIsKept
  <1>6. ASSUME NEW d \in Commits, created'[d] = created[d]
        PROVE  UsedIn(created', scope, period, Posted' \cup {d})
               = UsedIn(created, scope, period, Posted \cup {d})
    <2> HIDE DEF scope, period
    <2> DEFINE S == Posted \cup {d}
               T == Posted' \cup {d}
    <2>1. \A e \in Commits :
            /\ e \in S /\ CountsIn(created, scope, period, e)
               <=> e \in T /\ CountsIn(created', scope, period, e)
            /\ e \in S /\ CountsIn(created, scope, period, e)
               => created'[e].amount = created[e].amount
      BY <1>4, <1>6 DEF CountsIn
    <2>2. S \in SUBSET Commits /\ T \in SUBSET Commits
      BY <1>3
    <2> HIDE DEF S, T
    <2>3. UsedIn(created', scope, period, T) = UsedIn(created, scope, period, S)
      BY <2>1, <2>2, UsedIsKept
    <2> QED
      BY <2>3 DEF S, T
  <1> QED
    BY <1>1, <1>2, <1>5, <1>6

LEMMA BystanderIsSteady ==
  ASSUME HooksTypeOK, HooksTypeOK', NEW b \in Budgets, NEW d \in Commits, SteadyStands(b, d),
         created'[d] = created[d], SameCall(d), TotalKept(b),
         budget'[b].status = budget[b].status, budget'[b].limit = budget[b].limit,
         lock'[b] = d <=> lock[b] = d
  PROVE  SteadyStands(b, d)'
  <1>0. /\ create'[d].step = create[d].step /\ create'[d].todo = create[d].todo
        /\ create'[d].held = create[d].held /\ create'[d].news = create[d].news
        /\ create'[d].used = create[d].used /\ create'[d].aborted = create[d].aborted
    BY SameCallKeeps
  <1>1. /\ UsedAmount(b, Posted)' = UsedAmount(b, Posted)
        /\ UsedAmount(b, Posted \cup {d})' = UsedAmount(b, Posted \cup {d})
    BY UsedAmountKept DEF HooksTypeOK
  <1>2. CrossedBy(d, b)' = CrossedBy(d, b)
    BY <1>1 DEF CrossedBy, Crossing
  <1>3. /\ (d \in Open)' <=> d \in Open
        /\ Concerns(b, d)' <=> Concerns(b, d)
        /\ IsExpense(d)' <=> IsExpense(d)
        /\ Awaits(d, b)' <=> Awaits(d, b)
        /\ Min(create[d].held)' = Min(create[d].held)
    BY <1>0 DEF Open, Finished, Concerns, IsExpense, Awaits, TotalKept, Min
  <1>4. SteadyStands(b, d)!1'
    BY <1>0, <1>3 DEF SteadyStands
  <1>5. SteadyStands(b, d)!2'
    BY <1>0, <1>1, <1>3 DEF SteadyStands, IsAt
  <1>6. SteadyStands(b, d)!3'
    BY <1>0, <1>2 DEF SteadyStands, TotalKept
  <1> QED
    BY <1>4, <1>5, <1>6 DEF SteadyStands

\* No contribution to g has come, gone or changed.
ProgressKept(g) ==
  \A e \in Commits :
    \/ created'[e] = created[e]
    \/ /\ ~(created[e].status = "live" /\ created[e].of = g)
       /\ ~(created'[e].status = "live" /\ created'[e].of = g)

LEMMA NewlyCrossedKept ==
  ASSUME created \in [Commits -> CreatedRows], created' \in [Commits -> CreatedRows],
         NEW g, ProgressKept(g), NEW d \in Commits, created'[d] = created[d]
  PROVE  /\ ProgressUnavailable(g, Posted \cup {d})' <=> ProgressUnavailable(g, Posted \cup {d})
         /\ \A last : NewlyCrossed(last, g, Posted \cup {d})' = NewlyCrossed(last, g, Posted \cup {d})
         /\ GivenIn(created', g, Posted' \cup {d}) = GivenIn(created, g, Posted \cup {d})
  <1> DEFINE S == Posted \cup {d}
             T == Posted' \cup {d}
  <1>1. S \in SUBSET Commits /\ T \in SUBSET Commits
    BY DEF Posted
  <1>2. \A e \in Commits :
          /\ e \in S /\ created[e].of = g <=> e \in T /\ created'[e].of = g
          /\ e \in S /\ created[e].of = g => created'[e] = created[e]
    BY DEF ProgressKept, Posted
  <1>3. ProgressUnavailable(g, S)' <=> ProgressUnavailable(g, S)
    BY <1>1, <1>2 DEF ProgressUnavailable, Contributions
  <1>4. GivenIn(created', g, T) = GivenIn(created, g, S)
    <2> HIDE DEF S, T
    <2> QED
      BY <1>1, <1>2, GivenIsKept
  <1>5. \A last : /\ NewlyCrossed(last, g, S)'
                     = {m \in Milestones : m > last /\ Reached(GivenIn(created', g, T), Target, m)}
                  /\ NewlyCrossed(last, g, S)
                     = {m \in Milestones : m > last /\ Reached(GivenIn(created, g, S), Target, m)}
    BY DEF NewlyCrossed, GivenIn, Total, Contributions, AmountsOf, Reached
  <1> QED
    BY <1>3, <1>4, <1>5

LEMMA BystanderIsAlone ==
  ASSUME HooksTypeOK, HooksTypeOK', NEW d \in Commits, AloneStands(d),
         created'[d] = created[d], SameCall(d),
         create'[d].alone =>
           /\ ProgressKept(created[d].of)
           /\ created[d].of \in Goals => goal'[created[d].of].last = goal[created[d].of].last
           /\ \A e \in Open' : created'[e].of = created[d].of => e \in Open /\ created[e].of = created[d].of
  PROVE  AloneStands(d)'
  <1> DEFINE g == created[d].of
  <1>0. /\ create'[d].step = create[d].step /\ create'[d].seen = create[d].seen
        /\ create'[d].fired = create[d].fired
        /\ create'[d].alone => create[d].alone
    BY SameCallKeeps
  <1> SUFFICES ASSUME d \in Open', g \in Goals, create'[d].alone
               PROVE  /\ \A e \in Open' \ {d} : created'[e].of # g
                      /\ ~IsAt(d, "read")' => create'[d].seen = goal'[g].last
                      /\ (IsAt(d, "commit") /\ ~ProgressUnavailable(g, Posted \cup {d}) =>
                             create[d].fired = NewlyCrossed(goal[g].last, g, Posted \cup {d}))'
    BY DEF AloneStands
  <1>1. d \in Open /\ create[d].alone
    BY <1>0 DEF Open
  <1>2. /\ \A e \in Open \ {d} : created[e].of # g
        /\ ~IsAt(d, "read") => create[d].seen = goal[g].last
        /\ IsAt(d, "commit") /\ ~ProgressUnavailable(g, Posted \cup {d}) =>
             create[d].fired = NewlyCrossed(goal[g].last, g, Posted \cup {d})
    BY <1>1 DEF AloneStands
  <1>3. ASSUME NEW h, h = g
        PROVE  /\ ProgressUnavailable(h, Posted \cup {d})' <=> ProgressUnavailable(h, Posted \cup {d})
               /\ GivenIn(created', h, Posted' \cup {d}) = GivenIn(created, h, Posted \cup {d})
    <2>1. ProgressKept(h)
      BY <1>3
    <2> QED
      BY <2>1, NewlyCrossedKept DEF HooksTypeOK
  <1>4. NewlyCrossed(goal[g].last, g, Posted \cup {d})
        = {m \in Milestones : m > goal[g].last /\ Reached(GivenIn(created, g, Posted \cup {d}), Target, m)}
    BY NewlyCrossedIs
  <1>5. goal'[g].last = goal[g].last /\ g' = g
    OBVIOUS
  <1>6. NewlyCrossed(goal[g].last, g, Posted \cup {d})'
        = {m \in Milestones :
             m > goal'[g'].last /\ Reached(GivenIn(created', g', Posted' \cup {d}), Target, m)}
    BY DEF NewlyCrossed, GivenIn, Total, Contributions, AmountsOf, Reached
  <1>7. NewlyCrossed(goal[g].last, g, Posted \cup {d})' = NewlyCrossed(goal[g].last, g, Posted \cup {d})
    <2>1. GivenIn(created', g', Posted' \cup {d}) = GivenIn(created, g, Posted \cup {d})
      BY <1>3, <1>5
    <2> QED
      BY <1>4, <1>5, <1>6, <2>1, Zenon
  <1>8. ProgressUnavailable(g, Posted \cup {d})' <=> ProgressUnavailable(g, Posted \cup {d})
    BY <1>3, <1>5 DEF ProgressUnavailable, Contributions
  <1> QED
    BY <1>0, <1>2, <1>5, <1>7, <1>8 DEF IsAt

\* A call that moves on without a write: only what is said of it has to be shown.
tables == <<created, budget, log, goal, announced, steady>>
records == <<tables, lock, today, due, changes>>

LEMMA CallMovesOn ==
  ASSUME HooksInv, NEW c \in Commits, UNCHANGED tables, HooksTypeOK',
         \A d \in Commits \ {c} :
           create'[d] = create[d] /\ \A r \in Budgets \cup Goals : lock'[r] = d <=> lock[r] = d,
         create'[c].step \notin Finished => create[c].step \notin Finished,
         HookStands(c)', AloneStands(c)',
         \A b \in steady : budget[b].status = "active" => SteadyStands(b, c)'
  PROVE  HooksInv'
  <1>0. \A d \in Commits \ {c} : SameCall(d)
    BY DEF SameCall
  <1>1. ASSUME NEW d \in Commits PROVE HookStands(d)'
    <2>1. CASE d # c
      BY <1>0, <2>1, BystanderStands DEF HooksInv, tables
    <2> QED
      BY <2>1
  <1>2. ASSUME NEW d \in Commits PROVE AloneStands(d)'
    <2>1. CASE d # c
      <3>1. \A e \in Open' : e \in Open
        BY DEF Open
      <3>2. ProgressKept(created[d].of) /\ goal' = goal /\ created' = created
        BY DEF ProgressKept, tables
      <3> QED
        BY <1>0, <2>1, <3>1, <3>2, BystanderIsAlone DEF HooksInv
    <2> QED
      BY <2>1
  <1>3. LoggedBudgetsExist' /\ LogMatchesUse' /\ AnnouncedOnce'
    BY DEF HooksInv, tables, LoggedBudgetsExist, LogMatchesUse, AnnouncedOnce, UsedAmount, Total,
           Posted, IsExpense, Reached
  <1>4. ASSUME NEW b \in steady, budget[b].status = "active", NEW d \in Commits
        PROVE  SteadyStands(b, d)'
    <2>1. CASE d # c
      <3>1. TotalKept(b) /\ budget' = budget /\ created' = created
        BY DEF TotalKept, tables
      <3>2. b \in Budgets /\ SteadyStands(b, d)
        BY <1>4 DEF HooksInv, HooksTypeOK, SteadyBudgetsStand
      <3> QED
        BY <1>0, <2>1, <3>1, <3>2, BystanderIsSteady DEF HooksInv
    <2> QED
      BY <1>4, <2>1
  <1>5. SteadyBudgetsStand'
    BY <1>4 DEF SteadyBudgetsStand, tables
  <1> QED
    BY <1>1, <1>2, <1>3, <1>5 DEF HooksInv

(***************************************************************************)
(* The budget hook                                                         *)
(***************************************************************************)
LEMMA OrdersAreAscending ==
  ASSUME NEW S \in SUBSET Budgets, NEW order \in LockOrders(S)
  PROVE  /\ order \in Seq(Budgets)
         /\ \A i, j \in DOMAIN order : i < j => order[i] < order[j]
         /\ \A i \in DOMAIN order : order[i] \in S
         /\ \A b \in S : \E i \in DOMAIN order : order[i] = b
  <1>1. IsFiniteSet(S) /\ Cardinality(S) \in Nat
    BY FS_Subset, FS_CardinalityType, HooksAssumption
  <1>2. order \in [1..Cardinality(S) -> S]
    BY DEF LockOrders, SetToSeqs
  <1>3. \A i, j \in 1..Cardinality(S) : i # j => order[i] # order[j]
    BY DEF LockOrders, SetToSeqs
  <1>4. \A b \in S : \E i \in 1..Cardinality(S) : order[i] = b
    <2>1. order \in Injection(1..Cardinality(S), S)
      BY <1>2, <1>3 DEF Injection, IsInjective
    <2>2. IsFiniteSet(1..Cardinality(S)) /\ Cardinality(1..Cardinality(S)) = Cardinality(S)
      BY <1>1, FS_Interval
    <2>3. order \in Surjection(1..Cardinality(S), S)
      BY <1>1, <2>1, <2>2, FS_Injection
    <2> QED
      BY <2>3 DEF Surjection
  <1>5. \A i, j \in DOMAIN order : i < j => order[i] < order[j]
    BY DEF LockOrders
  <1>6. order \in Seq(Budgets)
    BY <1>1, <1>2
  <1> QED
    BY <1>2, <1>4, <1>5, <1>6

\* The call of an expense is not a lone contribution.
LEMMA ExpenseIsNotAlone ==
  ASSUME NEW c \in Commits, created[c].of \in Labels, created' = created
  PROVE  AloneStands(c)'
  BY HooksAssumption DEF AloneStands

LEMMA DiscoverStep ==
  ASSUME HooksInv, NEW c \in Commits, DiscoverBudgets(c)
  PROVE  HooksInv'
  <1> DEFINE S == {b \in Budgets : Concerns(b, c)}
  <1>1. PICK order \in LockOrders(S) :
          create' = [create EXCEPT ![c].todo = order,
                                   ![c].step = IF order = <<>> THEN "commit" ELSE "lock"]
    BY DEF DiscoverBudgets
  <1>2. /\ order \in Seq(Budgets)
        /\ \A i, j \in DOMAIN order : i < j => order[i] < order[j]
        /\ \A i \in DOMAIN order : order[i] \in S
        /\ \A b \in S : \E i \in DOMAIN order : order[i] = b
    <2>1. S \in SUBSET Budgets
      OBVIOUS
    <2> HIDE DEF S
    <2> QED
      BY <2>1, OrdersAreAscending
  <1>3. create \in [Commits -> CommitCalls] /\ create[c] \in CommitCalls
    BY DEF HooksInv, HooksTypeOK
  <1>4. /\ create'[c] = [create[c] EXCEPT !.todo = order,
                                          !.step = IF order = <<>> THEN "commit" ELSE "lock"]
        /\ \A d \in Commits \ {c} : create'[d] = create[d]
    BY <1>1, <1>3
  <1>5. create'[c] \in CommitCalls /\ create' \in [Commits -> CommitCalls]
    BY <1>1, <1>2, <1>3, <1>4 DEF CommitCalls, Steps
  <1>6. /\ create'[c].todo = order /\ create'[c].step = IF order = <<>> THEN "commit" ELSE "lock"
        /\ create'[c].held = create[c].held /\ create'[c].news = create[c].news
        /\ create'[c].fired = create[c].fired /\ create'[c].aborted = create[c].aborted
    BY <1>3, <1>4 DEF CommitCalls
  <1>7. UNCHANGED records /\ create[c].step = "discover" /\ HookStands(c)
    BY DEF DiscoverBudgets, records, tables, IsAt, HooksInv
  <1>8. /\ created[c].status = "open" /\ created[c].of \in Labels /\ create[c].held = {}
        /\ \A r \in Budgets \cup Goals : lock[r] # c
        /\ create[c].news = {} /\ create[c].fired = {}
    <2>1. created[c].status = "open" /\ created[c].of \in Labels
      BY <1>7 DEF HookStands, RowFollows, Open, Finished, ExpenseSteps, IsExpense
    <2>2. create[c].held = {}
      BY <1>7 DEF HookStands, QueueStands
    <2>3. \A r \in Budgets \cup Goals : lock[r] # c
      BY <1>7 DEF HookStands, LocksStand
    <2>4. create[c].news = {} /\ create[c].fired = {}
      BY <1>7 DEF HookStands, NewsStands, FiredStands, IsAt
    <2> QED
      BY <2>1, <2>2, <2>3, <2>4
  <1>9. HooksTypeOK'
    BY <1>5, <1>7 DEF HooksInv, HooksTypeOK, records, tables
  <1>10. HookStands(c)'
    <2>1. RowFollows(c)'
      BY <1>6, <1>7, <1>8 DEF RowFollows, records, tables, Open, Finished, IsAt, ExpenseSteps, GoalSteps,
                              IsExpense
    <2>2. QueueStands(c)'
      BY <1>2, <1>6, <1>7, <1>8 DEF QueueStands, records, IsAt
    <2>3. LocksStand(c)' /\ NewsStands(c)' /\ FiredStands(c)'
      BY <1>6, <1>7, <1>8 DEF LocksStand, NewsStands, FiredStands, records
    <2> QED
      BY <2>1, <2>2, <2>3 DEF HookStands
  <1>11. AloneStands(c)'
    BY <1>7, <1>8, ExpenseIsNotAlone DEF records, tables
  <1>12. ASSUME NEW b \in steady, budget[b].status = "active" PROVE SteadyStands(b, c)'
    <2>1. b \in Budgets /\ (Concerns(b, c)' <=> Concerns(b, c))
      BY <1>7 DEF HooksInv, HooksTypeOK, Concerns, records, tables
    <2>2. Awaits(c, b)' <=> b \in S
      BY <1>2, <1>6, <2>1 DEF Awaits
    <2> QED
      BY <1>6, <1>7, <1>8, <2>1, <2>2 DEF SteadyStands, IsAt, records
  <1>13. create[c].step \notin Finished
    BY <1>7 DEF Finished
  <1> QED
    BY <1>4, <1>7, <1>9, <1>10, <1>11, <1>12, <1>13, CallMovesOn DEF records

LEMMA LockBudgetStep ==
  ASSUME HooksInv, NEW c \in Commits, LockBudget(c)
  PROVE  HooksInv'
  <1> DEFINE b == Head(create[c].todo)
             rest == Tail(create[c].todo)
             took == StillCurrent(b, c)
             held == IF took THEN create[c].held \cup {b} ELSE create[c].held
             step == IF rest # <<>> THEN "lock" ELSE IF held = {} THEN "commit" ELSE "sum"
  <1>1. /\ create[c].step = "lock" /\ UNCHANGED <<tables, today, due, changes>> /\ HookStands(c)
        /\ took => lock[b] = Free
        /\ lock' = IF took THEN [lock EXCEPT ![b] = c] ELSE lock
        /\ create' = [create EXCEPT ![c].todo = rest, ![c].held = held, ![c].step = step]
    BY DEF LockBudget, LockOne, IsAt, tables, HooksInv
  <1>2. /\ create \in [Commits -> CommitCalls] /\ create[c] \in CommitCalls
        /\ lock \in [Budgets \cup Goals -> Commits \cup {Free}]
        /\ create[c].todo \in Seq(Budgets) /\ create[c].todo # <<>> /\ create[c].held \subseteq Budgets
    BY <1>1 DEF HooksInv, HooksTypeOK, CommitCalls, HookStands, QueueStands, IsAt
  <1>3. /\ b \in Budgets /\ b = create[c].todo[1] /\ rest \in Seq(Budgets)
        /\ 1 \in DOMAIN create[c].todo
        /\ \A i \in DOMAIN rest : /\ i + 1 \in DOMAIN create[c].todo /\ 1 < i + 1
                                  /\ rest[i] = create[c].todo[i + 1]
        /\ \A i \in DOMAIN create[c].todo :
             i # 1 => i - 1 \in DOMAIN rest /\ rest[i - 1] = create[c].todo[i]
        /\ \A i, j \in DOMAIN rest : i < j => i + 1 < j + 1
    BY <1>2
  <1>4. /\ create'[c] = [create[c] EXCEPT !.todo = rest, !.held = held, !.step = step]
        /\ \A d \in Commits \ {c} : create'[d] = create[d]
    BY <1>1, <1>2
  <1>5. held \subseteq Budgets
    BY <1>2, <1>3
  <1> HIDE DEF b, rest
  <1>6. create'[c] \in CommitCalls /\ create' \in [Commits -> CommitCalls]
    <2>1. step \in Steps
      BY DEF Steps
    <2> HIDE DEF held, step
    <2> QED
      BY <1>1, <1>2, <1>3, <1>4, <1>5, <2>1 DEF CommitCalls
  <1>7. /\ create'[c].todo = rest /\ create'[c].step = step /\ create'[c].held = held
        /\ create'[c].news = create[c].news /\ create'[c].fired = create[c].fired
        /\ create'[c].aborted = create[c].aborted
    BY <1>2, <1>4 DEF CommitCalls
  <1>8. /\ created[c].status = "open" /\ created[c].of \in Labels
        /\ create[c].held = {x \in Budgets : lock[x] = c}
        /\ \A r \in Goals : lock[r] # c
        /\ \A r \in Budgets : lock[r] = c => budget[r].status = "active"
        /\ \A i, j \in DOMAIN create[c].todo : i < j => create[c].todo[i] < create[c].todo[j]
        /\ \A x \in create[c].held, i \in DOMAIN create[c].todo : x < create[c].todo[i]
        /\ create[c].news = {} /\ create[c].fired = {}
    <2>1. created[c].status = "open" /\ created[c].of \in Labels
      BY <1>1 DEF HookStands, RowFollows, Open, Finished, ExpenseSteps, IsExpense
    <2>2. /\ create[c].held = {x \in Budgets : lock[x] = c}
          /\ \A i, j \in DOMAIN create[c].todo : i < j => create[c].todo[i] < create[c].todo[j]
          /\ \A x \in create[c].held, i \in DOMAIN create[c].todo : x < create[c].todo[i]
      BY <1>1 DEF HookStands, QueueStands, IsAt
    <2>3. /\ \A r \in Goals : lock[r] # c
          /\ \A r \in Budgets : lock[r] = c => budget[r].status = "active"
      BY <1>1 DEF HookStands, LocksStand
    <2>4. create[c].news = {} /\ create[c].fired = {}
      BY <1>1 DEF HookStands, NewsStands, FiredStands, IsAt
    <2> QED
      BY <2>1, <2>2, <2>3, <2>4
  <1>9. /\ lock' \in [Budgets \cup Goals -> Commits \cup {Free}]
        /\ held = {x \in Budgets : lock'[x] = c}
        /\ \A r \in Goals : lock'[r] # c
        /\ \A r \in Budgets : lock'[r] = c => lock[r] = c \/ (r = b /\ took)
        /\ \A r \in Budgets \cup Goals : lock[r] = c => lock'[r] = c
        /\ took => lock'[b] = c
        /\ \A d \in Commits \ {c}, r \in Budgets \cup Goals : lock'[r] = d <=> lock[r] = d
    <2>1. CASE took
      <3>1. lock' = [lock EXCEPT ![b] = c] /\ lock[b] = Free /\ held = create[c].held \cup {b}
        BY <1>1, <2>1
      <3> HIDE DEF took, held
      <3>2. \A r \in Budgets \cup Goals : lock'[r] = IF r = b THEN c ELSE lock[r]
        BY <1>2, <1>3, <3>1
      <3>3. lock' \in [Budgets \cup Goals -> Commits \cup {Free}]
        BY <1>2, <1>3, <3>1
      <3>4. b \notin Goals /\ Free \notin Commits
        BY <1>3, HooksAssumption
      <3>5. held = {x \in Budgets : lock'[x] = c}
        BY <1>3, <1>8, <3>1, <3>2
      <3> QED
        BY <1>3, <1>8, <2>1, <3>1, <3>2, <3>3, <3>4, <3>5
    <2>2. CASE ~took
      <3>1. lock' = lock /\ held = create[c].held
        BY <1>1, <2>2
      <3> QED
        BY <1>2, <1>8, <2>2, <3>1
    <2> QED
      BY <2>1, <2>2
  <1>10. HooksTypeOK'
    BY <1>1, <1>6, <1>9 DEF HooksInv, HooksTypeOK, tables
  <1>11. /\ budget' = budget /\ created' = created
         /\ took => budget[b].status = "active"
    BY <1>1 DEF tables, StillCurrent
  <1> HIDE DEF held, took
  <1>12. HookStands(c)'
    <2>1. RowFollows(c)'
      BY <1>7, <1>8, <1>11 DEF RowFollows, Open, Finished, IsAt, ExpenseSteps, GoalSteps, IsExpense
    <2>2. QueueStands(c)'
      <3>1. \A i, j \in DOMAIN rest : i < j => rest[i] < rest[j]
        BY <1>3, <1>8
      <3>2. \A x \in held, i \in DOMAIN rest : x < rest[i]
        <4>1. \A x \in held : x \in create[c].held \/ x = b
          BY DEF held
        <4> QED
          BY <1>3, <1>8, <4>1
      <3> QED
        BY <1>7, <1>9, <3>1, <3>2 DEF QueueStands, IsAt
    <2>3. LocksStand(c)'
      <3>1. ASSUME NEW r \in Budgets, lock'[r] = c
            PROVE  step \in {"lock", "sum", "evaluate", "commit"} /\ budget[r].status = "active"
        BY <1>8, <1>9, <1>11, <3>1
      <3> QED
        BY <1>7, <1>8, <1>9, <1>11, <3>1 DEF LocksStand, IsExpense
    <2>4. NewsStands(c)' /\ FiredStands(c)'
      BY <1>7, <1>8 DEF NewsStands, FiredStands
    <2> QED
      BY <2>1, <2>2, <2>3, <2>4 DEF HookStands
  <1>13. AloneStands(c)'
    BY <1>8, <1>11, ExpenseIsNotAlone
  <1>14. ASSUME NEW x \in steady, budget[x].status = "active" PROVE SteadyStands(x, c)'
    <2>1. /\ x \in Budgets /\ (Concerns(x, c)' <=> Concerns(x, c))
          /\ (IsExpense(c)' <=> IsExpense(c)) /\ IsExpense(c) /\ c \in Open
          /\ SteadyStands(x, c)
      BY <1>1, <1>8, <1>11, <1>14
         DEF HooksInv, HooksTypeOK, Concerns, IsExpense, Open, Finished, SteadyBudgetsStand
    <2>2. /\ Concerns(x, c) => lock[x] = c \/ Awaits(c, x)
          /\ lock[x] = c \/ Awaits(c, x) => Concerns(x, c)
      BY <1>1, <2>1 DEF SteadyStands
    <2>3. Awaits(c, x) <=> x = b \/ Awaits(c, x)'
      BY <1>3, <1>7 DEF Awaits
    <2>4. x = b /\ Concerns(x, c) => took
      BY DEF took, Concerns, StillCurrent
    <2>5. lock'[x] = c => x \in held
      BY <1>9, <2>1
    <2> QED
      BY <1>7, <1>9, <2>1, <2>2, <2>3, <2>4, <2>5 DEF SteadyStands, IsAt
  <1>15. create[c].step \notin Finished
    BY <1>1 DEF Finished
  <1> HIDE DEF step
  <1> QED
    BY <1>1, <1>4, <1>9, <1>10, <1>12, <1>13, <1>14, <1>15, CallMovesOn

\* While nothing is written, the totals are what they were.
LEMMA TotalsStay ==
  ASSUME UNCHANGED <<created, budget>>
  PROVE  /\ \A b : UsedAmount(b, Posted)' = UsedAmount(b, Posted)
         /\ \A b, d : UsedAmount(b, Posted \cup {d})' = UsedAmount(b, Posted \cup {d})
         /\ \A b, d : CrossedBy(d, b)' = CrossedBy(d, b)
  BY DEF UsedAmount, Total, Posted, IsExpense, CrossedBy, Crossing, Reached

LEMMA SumUsedStep ==
  ASSUME HooksInv, NEW c \in Commits, SumUsed(c)
  PROVE  HooksInv'
  <1> DEFINE b == Min(create[c].held)
             used == UsedAmount(b, Posted \cup {c})
  <1>1. /\ create[c].step = "sum" /\ UNCHANGED records /\ HookStands(c)
        /\ create' = [create EXCEPT ![c].used = used, ![c].step = "evaluate"]
    BY DEF SumUsed, IsAt, records, tables, HooksInv
  <1>2. create \in [Commits -> CommitCalls] /\ create[c] \in CommitCalls
    BY DEF HooksInv, HooksTypeOK
  <1>3. /\ create'[c] = [create[c] EXCEPT !.used = used, !.step = "evaluate"]
        /\ \A d \in Commits \ {c} : create'[d] = create[d]
    BY <1>1, <1>2
  <1>4. used \in Nat
    <2>1. Posted \cup {c} \in SUBSET Commits
      BY DEF Posted
    <2>2. used = UsedIn(created, budget[b].scope, budget[b].period, Posted \cup {c})
      BY UsedAmountIs
    <2> QED
      BY <2>1, <2>2, UsedIsNatural DEF HooksInv, HooksTypeOK
  <1> HIDE DEF used
  <1>5. create'[c] \in CommitCalls /\ create' \in [Commits -> CommitCalls]
    BY <1>1, <1>2, <1>3, <1>4 DEF CommitCalls, Steps
  <1>6. /\ create'[c].todo = create[c].todo /\ create'[c].step = "evaluate" /\ create'[c].used = used
        /\ create'[c].held = create[c].held /\ create'[c].news = create[c].news
        /\ create'[c].fired = create[c].fired /\ create'[c].aborted = create[c].aborted
    BY <1>2, <1>3 DEF CommitCalls
  <1>7. created[c].of \in Labels
    BY <1>1 DEF HookStands, RowFollows, ExpenseSteps, IsExpense
  <1>8. HooksTypeOK'
    BY <1>1, <1>5 DEF HooksInv, HooksTypeOK, records, tables
  <1>9. HookStands(c)'
    <2>1. RowFollows(c)' /\ QueueStands(c)' /\ LocksStand(c)'
      BY <1>1, <1>6 DEF HookStands, RowFollows, QueueStands, LocksStand, records, tables, Open, Finished,
                        IsAt, IsExpense, ExpenseSteps, GoalSteps
    <2>2. NewsStands(c)' /\ FiredStands(c)'
      BY <1>1, <1>6 DEF HookStands, NewsStands, FiredStands, records, tables, IsAt
    <2> QED
      BY <2>1, <2>2 DEF HookStands
  <1>10. AloneStands(c)'
    BY <1>1, <1>7, ExpenseIsNotAlone DEF records, tables
  <1>11. ASSUME NEW x \in steady, budget[x].status = "active" PROVE SteadyStands(x, c)'
    <2>1. /\ UNCHANGED <<created, budget, lock>> /\ SteadyStands(x, c)
          /\ (Concerns(x, c)' <=> Concerns(x, c)) /\ (IsExpense(c)' <=> IsExpense(c)) /\ IsExpense(c)
      BY <1>1, <1>7, <1>11
         DEF records, tables, HooksInv, SteadyBudgetsStand, Concerns, IsExpense
    <2>2. UsedAmount(x, Posted \cup {c})' = UsedAmount(x, Posted \cup {c}) /\ CrossedBy(c, x)' = CrossedBy(c, x)
      BY <2>1, TotalsStay
    <2>3. c \in Open
      BY <1>1 DEF Open, Finished
    <2>4. SteadyStands(x, c)!1'
      BY <1>1, <1>6, <2>1, <2>3 DEF SteadyStands, Awaits
    <2>5. SteadyStands(x, c)!2'
      BY <1>6, <2>2 DEF used
    <2>6. SteadyStands(x, c)!3'
      BY <1>1, <1>6, <2>1, <2>2 DEF SteadyStands
    <2> QED
      BY <2>4, <2>5, <2>6 DEF SteadyStands
  <1>12. create[c].step \notin Finished
    BY <1>1 DEF Finished
  <1> QED
    BY <1>1, <1>3, <1>8, <1>9, <1>10, <1>11, <1>12, CallMovesOn DEF records

LEMMA LogCrossingsStep ==
  ASSUME HooksInv, NEW c \in Commits, LogCrossings(c)
  PROVE  HooksInv'
  <1> DEFINE b == Min(create[c].held)
             rest == create[c].held \ {b}
             news == create[c].news \cup Crossed(c, b)
             step == IF rest = {} THEN "commit" ELSE "sum"
  <1>1. /\ create[c].step = "evaluate" /\ UNCHANGED records /\ HookStands(c)
        /\ Crossed(c, b) \cap log = {}
        /\ create' = [create EXCEPT ![c].news = news, ![c].held = rest, ![c].used = 0, ![c].step = step]
    BY DEF LogCrossings, IsAt, records, tables, HooksInv
  <1>2. create \in [Commits -> CommitCalls] /\ create[c] \in CommitCalls /\ create[c].held \subseteq Budgets
    BY DEF HooksInv, HooksTypeOK, CommitCalls
  <1>3. b \in create[c].held /\ b \in Budgets
    <2>1. create[c].held # {}
      BY <1>1 DEF HookStands, QueueStands
    <2>2. create[c].held \subseteq Nat
      BY <1>2, HooksAssumption
    <2> QED
      BY <1>2, <2>1, <2>2, MinIs
  <1>4. /\ create'[c] = [create[c] EXCEPT !.news = news, !.held = rest, !.used = 0, !.step = step]
        /\ \A d \in Commits \ {c} : create'[d] = create[d]
    BY <1>1, <1>2
  <1>5. /\ news \in SUBSET (Budgets \X Thresholds \X BudgetPeriods)
        /\ \A n \in Crossed(c, b) : n[1] = b
    <2>1. budget[b].period \in BudgetPeriods
      BY <1>3 DEF HooksInv, HooksTypeOK
    <2> QED
      BY <1>2, <1>3, <2>1 DEF CommitCalls, Crossed, Crossing
  <1>6. created[c].of \in Labels /\ created[c].status = "open"
    BY <1>1 DEF HookStands, RowFollows, ExpenseSteps, IsExpense, Open, Finished
  <1>7. \A n \in create[c].news : lock[n[1]] = c /\ n \notin log /\ n[1] \notin create[c].held
    BY <1>1 DEF HookStands, NewsStands
  <1>8. \A r \in create[c].held : lock[r] = c
    BY <1>1 DEF HookStands, QueueStands
  <1>9. ASSUME NEW x \in steady, budget[x].status = "active", lock[x] = c, ~create[c].aborted,
               x \notin rest
        PROVE  {n \in news : n[1] = x} = {<<x, t, budget[x].period>> : t \in CrossedBy(c, x)}
    <2>1. SteadyStands(x, c)
      BY <1>9 DEF HooksInv, SteadyBudgetsStand
    <2>2. CASE x = b
      <3>1. create[c].used = UsedAmount(b, Posted \cup {c})
        BY <1>1, <2>1, <2>2 DEF SteadyStands, IsAt
      <3>2. Posted \ {c} = Posted
        BY <1>6 DEF Posted
      <3>3. Crossed(c, b) = {<<b, t, budget[b].period>> : t \in CrossedBy(c, b)}
        BY <3>1, <3>2 DEF Crossed, CrossedBy
      <3>4. {n \in news : n[1] = x} = Crossed(c, b)
        BY <1>3, <1>5, <1>7, <2>2
      <3> QED
        BY <2>2, <3>3, <3>4
    <2>3. CASE x # b
      <3>1. {n \in create[c].news : n[1] = x} = {<<x, t, budget[x].period>> : t \in CrossedBy(c, x)}
        BY <1>1, <1>9, <2>1, <2>3 DEF SteadyStands
      <3>2. {n \in news : n[1] = x} = {n \in create[c].news : n[1] = x}
        BY <1>5, <2>3
      <3> QED
        BY <3>1, <3>2
    <2> QED
      BY <2>2, <2>3
  <1> HIDE DEF news
  <1>10. create'[c] \in CommitCalls /\ create' \in [Commits -> CommitCalls]
    <2>1. create'[c] \in CommitCalls
      BY <1>1, <1>2, <1>4, <1>5, ZenonT(60) DEF CommitCalls, Steps
    <2> QED
      BY <1>1, <1>2, <1>4, <2>1
  <1>11. /\ create'[c].todo = create[c].todo /\ create'[c].step = step
         /\ create'[c].held = rest /\ create'[c].news = news
         /\ create'[c].fired = create[c].fired /\ create'[c].aborted = create[c].aborted
    BY <1>2, <1>4 DEF CommitCalls
  <1>12. HooksTypeOK'
    BY <1>1, <1>10 DEF HooksInv, HooksTypeOK, records, tables
  <1>13. HookStands(c)'
    <2>1. RowFollows(c)'
      BY <1>1, <1>6, <1>11 DEF RowFollows, records, tables, Open, Finished,
                               IsAt, IsExpense, ExpenseSteps, GoalSteps
    <2>2. QueueStands(c)'
      <3>1. create[c].todo = <<>> /\ step # "lock" /\ step # "evaluate" /\ (step = "sum" <=> rest # {})
        BY <1>1 DEF HookStands, QueueStands, IsAt
      <3>2. \A r \in rest : lock'[r] = c
        BY <1>1, <1>8 DEF records
      <3> HIDE DEF rest, step
      <3> QED
        BY <1>11, <3>1, <3>2 DEF QueueStands, IsAt
    <2>3. LocksStand(c)'
      BY <1>1, <1>11 DEF HookStands, LocksStand, records, tables, IsExpense
    <2>4. NewsStands(c)'
      <3>1. ASSUME NEW n \in news PROVE lock[n[1]] = c /\ n \notin log /\ n[1] \notin rest
        BY <1>1, <1>3, <1>5, <1>7, <1>8 DEF news
      <3> QED
        BY <1>1, <1>11, <3>1 DEF NewsStands, records, tables
    <2>5. FiredStands(c)'
      BY <1>1, <1>11 DEF HookStands, FiredStands, records, tables, IsAt
    <2> QED
      BY <2>1, <2>2, <2>3, <2>4, <2>5 DEF HookStands
  <1>14. AloneStands(c)'
    BY <1>1, <1>6, ExpenseIsNotAlone DEF records, tables
  <1>15. ASSUME NEW x \in steady, budget[x].status = "active" PROVE SteadyStands(x, c)'
    <2>1. /\ UNCHANGED <<created, budget, lock>> /\ SteadyStands(x, c)
          /\ (Concerns(x, c)' <=> Concerns(x, c)) /\ (IsExpense(c)' <=> IsExpense(c)) /\ IsExpense(c)
      BY <1>1, <1>6, <1>15
         DEF records, tables, HooksInv, SteadyBudgetsStand, Concerns, IsExpense
    <2>2. CrossedBy(c, x)' = CrossedBy(c, x)
      BY <2>1, TotalsStay
    <2>3. c \in Open
      BY <1>1 DEF Open, Finished
    <2>4. SteadyStands(x, c)!1'
      BY <1>1, <1>11, <2>1, <2>3 DEF SteadyStands, Awaits
    <2>5. SteadyStands(x, c)!2'
      BY <1>11 DEF IsAt
    <2>6. SteadyStands(x, c)!3'
      BY <1>9, <1>11, <1>15, <2>1, <2>2
    <2> QED
      BY <2>4, <2>5, <2>6 DEF SteadyStands
  <1>16. create[c].step \notin Finished
    BY <1>1 DEF Finished
  <1> QED
    BY <1>1, <1>4, <1>12, <1>13, <1>14, <1>15, <1>16, CallMovesOn DEF records

(***************************************************************************)
(* The goal hook                                                           *)
(***************************************************************************)
\* The call of a contribution says nothing of budgets.
LEMMA ContributionIsSteady ==
  ASSUME HooksInv, NEW c \in Commits, created[c].of \in Goals, created' = created,
         create'[c].step \notin ExpenseSteps, lock \in [Budgets \cup Goals -> Commits \cup {Free}],
         \A b \in Budgets : lock'[b] = c => lock[b] = c
  PROVE  \A b \in Budgets : SteadyStands(b, c)'
  <1>1. created'[c].of \notin Labels
    BY HooksAssumption
  <1>2. \A b \in Budgets : lock'[b] # c
    BY <1>1 DEF HooksInv, HookStands, LocksStand, IsExpense
  <1> QED
    BY <1>1, <1>2 DEF SteadyStands, IsExpense, ExpenseSteps, IsAt

LEMMA ReadGoalStep ==
  ASSUME HooksInv, NEW c \in Commits, ReadGoal(c)
  PROVE  HooksInv'
  <1> DEFINE g == created[c].of
  <1>1. /\ create[c].step = "read" /\ UNCHANGED records /\ HookStands(c) /\ AloneStands(c)
        /\ create' = [create EXCEPT ![c].seen = goal[g].last, ![c].step = "progress"]
    BY DEF ReadGoal, IsAt, records, tables, HooksInv
  <1>2. create \in [Commits -> CommitCalls] /\ create[c] \in CommitCalls
    BY DEF HooksInv, HooksTypeOK
  <1>3. g \in Goals /\ goal[g].last \in Milestones \cup {0}
    BY <1>1 DEF HookStands, RowFollows, GoalSteps, HooksInv, HooksTypeOK
  <1>4. /\ create'[c] = [create[c] EXCEPT !.seen = goal[g].last, !.step = "progress"]
        /\ \A d \in Commits \ {c} : create'[d] = create[d]
    BY <1>1, <1>2
  <1>5. create'[c] \in CommitCalls /\ create' \in [Commits -> CommitCalls]
    <2>1. create'[c] \in CommitCalls
      BY <1>2, <1>3, <1>4 DEF CommitCalls, Steps
    <2> QED
      BY <1>1, <1>2, <1>4, <2>1
  <1>6. /\ create'[c].todo = create[c].todo /\ create'[c].step = "progress"
        /\ create'[c].held = create[c].held /\ create'[c].news = create[c].news
        /\ create'[c].fired = create[c].fired /\ create'[c].alone = create[c].alone
        /\ create'[c].seen = goal[g].last
    BY <1>2, <1>4 DEF CommitCalls
  <1>7. HooksTypeOK'
    BY <1>1, <1>5 DEF HooksInv, HooksTypeOK, records, tables
  <1>8. HookStands(c)'
    <2>1. RowFollows(c)'
      BY <1>1, <1>3, <1>6 DEF HookStands, RowFollows, records, tables, Open, Finished, IsAt, ExpenseSteps,
                              GoalSteps
    <2>2. QueueStands(c)' /\ LocksStand(c)'
      BY <1>1, <1>6 DEF HookStands, QueueStands, LocksStand, records, IsAt
    <2>3. NewsStands(c)' /\ FiredStands(c)'
      BY <1>1, <1>6 DEF HookStands, NewsStands, FiredStands, IsAt
    <2> QED
      BY <2>1, <2>2, <2>3 DEF HookStands
  <1>9. AloneStands(c)'
    <2>1. \A d \in Open' : d \in Open
      BY <1>1, <1>4 DEF Open, Finished
    <2>2. c \in Open
      BY <1>1 DEF Open, Finished
    <2> QED
      BY <1>1, <1>6, <2>1, <2>2 DEF AloneStands, records, tables, IsAt
  <1>10. \A b \in steady : SteadyStands(b, c)'
    BY <1>1, <1>3, <1>6, ContributionIsSteady DEF HooksInv, HooksTypeOK, records, tables, ExpenseSteps
  <1>11. create[c].step \notin Finished
    BY <1>1 DEF Finished
  <1> QED
    BY <1>1, <1>4, <1>7, <1>8, <1>9, <1>10, <1>11, CallMovesOn DEF records

LEMMA OptimisticProgressStep ==
  ASSUME HooksInv, NEW c \in Commits, OptimisticProgress(c)
  PROVE  HooksInv'
  <1> DEFINE g == created[c].of
             step == IF WorthLocking(c) THEN "lockGoal" ELSE "commit"
  <1>1. /\ create[c].step = "progress" /\ UNCHANGED records /\ HookStands(c) /\ AloneStands(c)
        /\ create' = [create EXCEPT ![c].step = step]
    BY DEF OptimisticProgress, Goto, IsAt, records, tables, HooksInv
  <1>2. create \in [Commits -> CommitCalls] /\ create[c] \in CommitCalls
    BY DEF HooksInv, HooksTypeOK
  <1>3. g \in Goals
    BY <1>1 DEF HookStands, RowFollows, GoalSteps
  <1>4. /\ create'[c] = [create[c] EXCEPT !.step = step]
        /\ \A d \in Commits \ {c} : create'[d] = create[d]
    BY <1>1, <1>2
  <1>5. step \in {"lockGoal", "commit"}
    OBVIOUS
  <1>6. ASSUME step = "commit", create[c].alone, ~ProgressUnavailable(g, Posted \cup {c})
        PROVE  create[c].fired = NewlyCrossed(goal[g].last, g, Posted \cup {c})
    <2>1. NewlyCrossed(create[c].seen, g, Posted \cup {c}) = {}
      BY <1>6 DEF WorthLocking
    <2>2. create[c].seen = goal[g].last
      BY <1>1, <1>3, <1>6 DEF AloneStands, IsAt, Open, Finished
    <2>3. create[c].fired = {}
      BY <1>1 DEF HookStands, FiredStands, IsAt
    <2> QED
      BY <2>1, <2>2, <2>3
  <1> HIDE DEF step
  <1>7. create'[c] \in CommitCalls /\ create' \in [Commits -> CommitCalls]
    BY <1>1, <1>2, <1>4, <1>5 DEF CommitCalls, Steps
  <1>8. /\ create'[c].todo = create[c].todo /\ create'[c].step = step
        /\ create'[c].held = create[c].held /\ create'[c].news = create[c].news
        /\ create'[c].fired = create[c].fired /\ create'[c].alone = create[c].alone
        /\ create'[c].seen = create[c].seen
    BY <1>2, <1>4 DEF CommitCalls
  <1>9. HooksTypeOK'
    BY <1>1, <1>7 DEF HooksInv, HooksTypeOK, records, tables
  <1>10. HookStands(c)'
    <2>1. RowFollows(c)'
      BY <1>1, <1>3, <1>5, <1>8 DEF HookStands, RowFollows, records, tables, Open, Finished, IsAt,
                                    ExpenseSteps, GoalSteps
    <2>2. QueueStands(c)' /\ LocksStand(c)'
      BY <1>1, <1>5, <1>8 DEF HookStands, QueueStands, LocksStand, records, IsAt
    <2>3. NewsStands(c)' /\ FiredStands(c)'
      BY <1>1, <1>8 DEF HookStands, NewsStands, FiredStands, IsAt
    <2> QED
      BY <2>1, <2>2, <2>3 DEF HookStands
  <1>11. AloneStands(c)'
    <2>1. \A d \in Open' : d \in Open
      BY <1>1, <1>4 DEF Open, Finished
    <2>2. c \in Open
      BY <1>1 DEF Open, Finished
    <2>3. UNCHANGED <<created, goal>>
      BY <1>1 DEF records, tables
    <2>4. ASSUME create'[c].alone
          PROVE  /\ \A d \in Open' \ {c} : created'[d].of # g
                 /\ create'[c].seen = goal'[g].last
      BY <1>1, <1>3, <1>8, <2>1, <2>2, <2>3, <2>4 DEF AloneStands, IsAt
    <2>5. ASSUME IsAt(c, "commit")', create'[c].alone, ~ProgressUnavailable(g, Posted \cup {c})'
          PROVE  create'[c].fired = NewlyCrossed(goal[g].last, g, Posted \cup {c})'
      <3>1. /\ ProgressUnavailable(g, Posted \cup {c})' <=> ProgressUnavailable(g, Posted \cup {c})
            /\ NewlyCrossed(goal[g].last, g, Posted \cup {c})' = NewlyCrossed(goal[g].last, g, Posted \cup {c})
        BY <2>3 DEF ProgressUnavailable, NewlyCrossed, Contributions, Total, Posted, Reached
      <3> QED
        BY <1>6, <1>8, <2>5, <3>1 DEF IsAt
    <2> QED
      BY <1>8, <2>3, <2>4, <2>5 DEF AloneStands
  <1>12. \A b \in steady : SteadyStands(b, c)'
    BY <1>1, <1>3, <1>5, <1>8, ContributionIsSteady DEF HooksInv, HooksTypeOK, records, tables, ExpenseSteps
  <1>13. create[c].step \notin Finished
    BY <1>1 DEF Finished
  <1> QED
    BY <1>1, <1>4, <1>9, <1>10, <1>11, <1>12, <1>13, CallMovesOn DEF records

LEMMA LockGoalStep ==
  ASSUME HooksInv, NEW c \in Commits, LockGoal(c)
  PROVE  HooksInv'
  <1> DEFINE g == created[c].of
  <1>1. /\ create[c].step = "lockGoal" /\ UNCHANGED <<tables, today, due, changes>>
        /\ HookStands(c) /\ AloneStands(c)
        /\ lock[g] = Free /\ lock' = [lock EXCEPT ![g] = c]
        /\ create' = [create EXCEPT ![c].step = "evaluateGoal"]
    BY DEF LockGoal, Goto, IsAt, tables, HooksInv
  <1>2. /\ create \in [Commits -> CommitCalls] /\ create[c] \in CommitCalls
        /\ lock \in [Budgets \cup Goals -> Commits \cup {Free}]
    BY DEF HooksInv, HooksTypeOK
  <1>3. g \in Goals /\ g \notin Labels /\ g \notin Budgets
    BY <1>1, HooksAssumption DEF HookStands, RowFollows, GoalSteps
  <1>4. /\ create'[c] = [create[c] EXCEPT !.step = "evaluateGoal"]
        /\ \A d \in Commits \ {c} : create'[d] = create[d]
    BY <1>1, <1>2
  <1>5. create'[c] \in CommitCalls /\ create' \in [Commits -> CommitCalls]
    BY <1>1, <1>2, <1>4 DEF CommitCalls, Steps
  <1>6. /\ create'[c].todo = create[c].todo /\ create'[c].step = "evaluateGoal"
        /\ create'[c].held = create[c].held /\ create'[c].news = create[c].news
        /\ create'[c].fired = create[c].fired /\ create'[c].alone = create[c].alone
        /\ create'[c].seen = create[c].seen
    BY <1>2, <1>4 DEF CommitCalls
  <1>7. /\ lock' \in [Budgets \cup Goals -> Commits \cup {Free}]
        /\ \A r \in Budgets \cup Goals : lock'[r] = IF r = g THEN c ELSE lock[r]
    BY <1>1, <1>2, <1>3
  <1>8. \A d \in Commits \ {c}, r \in Budgets \cup Goals : lock'[r] = d <=> lock[r] = d
    BY <1>1, <1>7, HooksAssumption
  <1>9. HooksTypeOK'
    BY <1>1, <1>5, <1>7 DEF HooksInv, HooksTypeOK, tables
  <1>10. HookStands(c)'
    <2>1. RowFollows(c)'
      BY <1>1, <1>3, <1>6 DEF HookStands, RowFollows, tables, Open, Finished, IsAt, ExpenseSteps,
                              GoalSteps
    <2>2. QueueStands(c)'
      BY <1>1, <1>6 DEF HookStands, QueueStands, IsAt
    <2>3. LocksStand(c)'
      <3>1. \A r \in Budgets : lock'[r] # c
        BY <1>1, <1>3, <1>7 DEF HookStands, LocksStand, IsExpense
      <3>2. created' = created /\ \A r \in Goals : lock'[r] = c => r = g
        BY <1>1, <1>7 DEF HookStands, LocksStand, tables
      <3> QED
        BY <1>3, <1>6, <1>7, <3>1, <3>2 DEF LocksStand
    <2>4. NewsStands(c)' /\ FiredStands(c)'
      BY <1>1, <1>6 DEF HookStands, NewsStands, FiredStands, IsAt
    <2> QED
      BY <2>1, <2>2, <2>3, <2>4 DEF HookStands
  <1>11. AloneStands(c)'
    <2>1. \A d \in Open' : d \in Open
      BY <1>1, <1>4 DEF Open, Finished
    <2>2. c \in Open
      BY <1>1 DEF Open, Finished
    <2> QED
      BY <1>1, <1>6, <2>1, <2>2 DEF AloneStands, tables, IsAt
  <1>12. \A b \in steady : SteadyStands(b, c)'
    <2>1. \A b \in Budgets : lock'[b] = c => lock[b] = c
      BY <1>3, <1>7
    <2> QED
      BY <1>1, <1>2, <1>3, <1>6, <2>1, ContributionIsSteady DEF HooksInv, HooksTypeOK, tables, ExpenseSteps
  <1>13. create[c].step \notin Finished
    BY <1>1 DEF Finished
  <1> QED
    BY <1>1, <1>4, <1>8, <1>9, <1>10, <1>11, <1>12, <1>13, CallMovesOn

LEMMA EvaluateGoalStep ==
  ASSUME HooksInv, NEW c \in Commits, EvaluateGoal(c)
  PROVE  HooksInv'
  <1> DEFINE g == created[c].of
             S == Posted \cup {c}
             fired == MilestonesToFire(c)
  <1>1. /\ create[c].step = "evaluateGoal" /\ UNCHANGED records /\ HookStands(c) /\ AloneStands(c)
        /\ create' = [create EXCEPT ![c].fired = fired, ![c].step = "commit"]
    BY DEF EvaluateGoal, IsAt, records, tables, HooksInv
  <1>2. create \in [Commits -> CommitCalls] /\ create[c] \in CommitCalls
    BY DEF HooksInv, HooksTypeOK
  <1>3. g \in Goals /\ lock[g] = c /\ goal[g].last \in Milestones \cup {0}
    BY <1>1 DEF HookStands, RowFollows, LocksStand, GoalSteps, HooksInv, HooksTypeOK
  <1>4. /\ create'[c] = [create[c] EXCEPT !.fired = fired, !.step = "commit"]
        /\ \A d \in Commits \ {c} : create'[d] = create[d]
    BY <1>1, <1>2
  <1>5. /\ fired \in SUBSET Milestones
        /\ \A m \in fired : /\ m > goal[g].last
                            /\ \A k \in Milestones : goal[g].last < k /\ k < m => k \in fired
    <2>1. GivenIn(created, g, S) \in Nat
      <3>1. S \in SUBSET Commits
        BY DEF Posted
      <3> QED
        BY <3>1, GivenIsNatural DEF HooksInv, HooksTypeOK
    <2>2. \A k, m \in Milestones :
            k < m /\ Reached(GivenIn(created, g, S), Target, m) => Reached(GivenIn(created, g, S), Target, k)
      <3> DEFINE given == GivenIn(created, g, S)
      <3>1. \A k, m \in Nat : k < m => k * Target <= m * Target
        BY HooksAssumption
      <3>2. Milestones \subseteq Nat /\ given * 100 \in Nat
        BY <2>1 DEF Milestones
      <3>3. \A m \in Nat : m * Target \in Nat
        BY HooksAssumption
      <3> HIDE DEF given
      <3> QED
        BY <3>1, <3>2, <3>3 DEF Reached, given
    <2>3. CASE ProgressUnavailable(g, S)
      BY <2>3 DEF MilestonesToFire
    <2>4. CASE ~ProgressUnavailable(g, S)
      <3>1. fired = {m \in Milestones : m > goal[g].last /\ Reached(GivenIn(created, g, S), Target, m)}
        BY <2>4, NewlyCrossedIs DEF MilestonesToFire
      <3>2. \A k \in Milestones : goal[g].last < k => k > goal[g].last
        BY <1>3 DEF Milestones
      <3> HIDE DEF fired
      <3> QED
        BY <2>2, <3>1, <3>2
    <2> QED
      BY <2>3, <2>4
  <1> HIDE DEF fired
  <1>6. create'[c] \in CommitCalls /\ create' \in [Commits -> CommitCalls]
    BY <1>1, <1>2, <1>4, <1>5 DEF CommitCalls, Steps
  <1>7. /\ create'[c].todo = create[c].todo /\ create'[c].step = "commit"
        /\ create'[c].held = create[c].held /\ create'[c].news = create[c].news
        /\ create'[c].fired = fired /\ create'[c].alone = create[c].alone
        /\ create'[c].seen = create[c].seen
    BY <1>2, <1>4 DEF CommitCalls
  <1>8. HooksTypeOK'
    BY <1>1, <1>6 DEF HooksInv, HooksTypeOK, records, tables
  <1>9. HookStands(c)'
    <2>1. RowFollows(c)'
      BY <1>1, <1>3, <1>7 DEF HookStands, RowFollows, records, tables, Open, Finished, IsAt, ExpenseSteps,
                              GoalSteps
    <2>2. QueueStands(c)'
      BY <1>1, <1>7 DEF HookStands, QueueStands, IsAt
    <2>3. LocksStand(c)'
      BY <1>1, <1>7 DEF HookStands, LocksStand, records, tables, IsExpense
    <2>4. NewsStands(c)'
      BY <1>1, <1>7 DEF HookStands, NewsStands
    <2>5. FiredStands(c)'
      BY <1>1, <1>3, <1>5, <1>7 DEF FiredStands, IsAt, records, tables
    <2> QED
      BY <2>1, <2>2, <2>3, <2>4, <2>5 DEF HookStands
  <1>10. AloneStands(c)'
    <2>1. \A d \in Open' : d \in Open
      BY <1>1, <1>4 DEF Open, Finished
    <2>2. c \in Open
      BY <1>1 DEF Open, Finished
    <2>3. UNCHANGED <<created, goal>>
      BY <1>1 DEF records, tables
    <2>4. ASSUME create'[c].alone
          PROVE  /\ \A d \in Open' \ {c} : created'[d].of # g
                 /\ create'[c].seen = goal'[g].last
      BY <1>1, <1>3, <1>7, <2>1, <2>2, <2>3, <2>4 DEF AloneStands, IsAt
    <2>5. ASSUME ~ProgressUnavailable(g, S)'
          PROVE  create'[c].fired = NewlyCrossed(goal[g].last, g, S)'
      <3>1. /\ ProgressUnavailable(g, S)' <=> ProgressUnavailable(g, S)
            /\ NewlyCrossed(goal[g].last, g, S)' = NewlyCrossed(goal[g].last, g, S)
        BY <2>3 DEF ProgressUnavailable, NewlyCrossed, Contributions, Total, Posted, Reached
      <3> QED
        BY <1>7, <2>5, <3>1 DEF fired, MilestonesToFire
    <2> QED
      BY <1>7, <2>3, <2>4, <2>5 DEF AloneStands
  <1>11. \A b \in steady : SteadyStands(b, c)'
    BY <1>1, <1>3, <1>7, ContributionIsSteady DEF HooksInv, HooksTypeOK, records, tables, ExpenseSteps
  <1>12. create[c].step \notin Finished
    BY <1>1 DEF Finished
  <1> QED
    BY <1>1, <1>4, <1>8, <1>9, <1>10, <1>11, <1>12, CallMovesOn DEF records

(***************************************************************************)
(* The database transaction's beginning and end                            *)
(***************************************************************************)
\* The row of one call is written, and counts towards no budget still steady.
LEMMA RowMoves ==
  ASSUME HooksInv, HooksTypeOK', NEW c \in Commits,
         UNCHANGED <<budget, log, goal, announced>>, steady' \subseteq steady,
         \A d \in Commits \ {c} : /\ created'[d] = created[d] /\ SameCall(d) /\ AloneStands(d)'
                                  /\ \A r \in Budgets \cup Goals : lock'[r] = d <=> lock[r] = d,
         \A b \in steady' : budget[b].status = "active" => TotalKept(b),
         HookStands(c)', AloneStands(c)',
         \A b \in steady' : budget[b].status = "active" => SteadyStands(b, c)'
  PROVE  HooksInv'
  <1>1. ASSUME NEW d \in Commits PROVE HookStands(d)' /\ AloneStands(d)'
    <2>1. CASE d # c
      BY <2>1, BystanderStands DEF HooksInv
    <2> QED
      BY <2>1
  <1>2. LoggedBudgetsExist' /\ AnnouncedOnce'
    BY DEF HooksInv, LoggedBudgetsExist, AnnouncedOnce
  <1>3. LogMatchesUse'
    <2>1. ASSUME NEW b \in steady', budget[b].status = "active"
          PROVE  UsedAmount(b, Posted)' = UsedAmount(b, Posted)
      BY <2>1, UsedAmountKept DEF HooksInv, HooksTypeOK
    <2> QED
      BY <2>1 DEF HooksInv, LogMatchesUse
  <1>4. ASSUME NEW b \in steady', budget[b].status = "active", NEW d \in Commits
        PROVE  SteadyStands(b, d)'
    <2>1. CASE d # c
      <3>1. b \in Budgets /\ SteadyStands(b, d) /\ TotalKept(b)
        BY <1>4 DEF HooksInv, HooksTypeOK, SteadyBudgetsStand
      <3> QED
        BY <2>1, <3>1, BystanderIsSteady DEF HooksInv
    <2> QED
      BY <1>4, <2>1
  <1> QED
    BY <1>1, <1>2, <1>3, <1>4 DEF HooksInv, SteadyBudgetsStand

\* A call that has ended holds nothing.
LEMMA EndedStands ==
  ASSUME NEW c \in Commits, NEW step \in {"answered", "failed"},
         create'[c] = [NoCall EXCEPT !.step = step],
         \A r \in Budgets \cup Goals : lock'[r] # c,
         IF step = "failed" THEN created'[c].status = "none" ELSE created'[c].status # "open"
  PROVE  HookStands(c)' /\ AloneStands(c)' /\ \A b \in Budgets : SteadyStands(b, c)'
  <1>1. /\ create'[c].step = step /\ create'[c].todo = <<>> /\ create'[c].held = {}
        /\ create'[c].news = {} /\ create'[c].fired = {} /\ create'[c].alone = FALSE
    BY DEF NoCall
  <1>2. RowFollows(c)'
    BY <1>1 DEF RowFollows, Open, Finished, IsAt, ExpenseSteps, GoalSteps
  <1>3. QueueStands(c)' /\ LocksStand(c)' /\ NewsStands(c)' /\ FiredStands(c)'
    BY <1>1 DEF QueueStands, LocksStand, NewsStands, FiredStands, IsAt
  <1>4. c \notin Open'
    BY <1>1 DEF Open, Finished
  <1>5. AloneStands(c)'
    BY <1>4 DEF AloneStands
  <1>6. \A b \in Budgets : SteadyStands(b, c)'
    BY <1>1, <1>4 DEF SteadyStands, IsAt
  <1> QED
    BY <1>2, <1>3, <1>5, <1>6 DEF HookStands

LEMMA RowsStart ==
  NoRow \in CreatedRows /\ NoCall \in CommitCalls /\ NoRow.status = "none"
  BY HooksAssumption DEF NoRow, NoCall, CreatedRows, CommitCalls, BudgetPeriods, Steps

LEMMA RollBackStep ==
  ASSUME HooksInv, NEW c \in Open, NEW step \in {"answered", "failed"}, RollBack(c, step)
  PROVE  HooksInv'
  <1>1. /\ UNCHANGED <<budget, log, goal, announced, today, due, changes, steady>>
        /\ c \in Commits /\ HookStands(c)
    BY DEF RollBack, Open, HooksInv
  <1>2. /\ create \in [Commits -> CommitCalls] /\ created \in [Commits -> CreatedRows]
        /\ lock \in [Budgets \cup Goals -> Commits \cup {Free}]
    BY DEF HooksInv, HooksTypeOK
  <1>3. /\ create'[c] = [NoCall EXCEPT !.step = step] /\ created'[c] = NoRow
        /\ \A d \in Commits \ {c} : create'[d] = create[d] /\ created'[d] = created[d]
    BY <1>1, <1>2 DEF RollBack
  <1>4. create' \in [Commits -> CommitCalls] /\ created' \in [Commits -> CreatedRows]
    BY <1>1, <1>2, RowsStart DEF RollBack, CommitCalls, Steps
  <1>5. /\ lock' \in [Budgets \cup Goals -> Commits \cup {Free}]
        /\ \A r \in Budgets \cup Goals : lock'[r] # c
        /\ \A d \in Commits \ {c}, r \in Budgets \cup Goals : lock'[r] = d <=> lock[r] = d
    BY <1>1, <1>2, HooksAssumption DEF RollBack
  <1>6. HooksTypeOK'
    BY <1>1, <1>4, <1>5 DEF HooksInv, HooksTypeOK
  <1>7. HookStands(c)' /\ AloneStands(c)' /\ \A b \in Budgets : SteadyStands(b, c)'
    BY <1>1, <1>3, <1>5, RowsStart, EndedStands
  <1>8. created[c].status = "open"
    BY <1>1 DEF HookStands, RowFollows
  <1>9. \A b : TotalKept(b)
    BY <1>1, <1>3, <1>8, RowsStart DEF TotalKept
  <1>10. \A d \in Commits \ {c} : SameCall(d)
    BY <1>3 DEF SameCall
  <1>11. ASSUME NEW d \in Commits \ {c} PROVE AloneStands(d)'
    <2>1. \A e \in Open' : e \in Open /\ e # c
      BY <1>1, <1>3, EndedStands DEF Open, Finished, NoCall
    <2>2. ProgressKept(created[d].of)
      BY <1>3, <1>8, RowsStart DEF ProgressKept
    <2>3. \A e \in Open' : created'[e] = created[e]
      BY <1>3, <2>1 DEF Open
    <2>4. AloneStands(d)
      BY DEF HooksInv
    <2> QED
      BY <1>1, <1>3, <1>6, <1>10, <2>1, <2>2, <2>3, <2>4, BystanderIsAlone DEF HooksInv
  <1>12. steady' \subseteq Budgets
    BY <1>6 DEF HooksTypeOK
  <1> QED
    BY <1>1, <1>3, <1>5, <1>6, <1>7, <1>9, <1>10, <1>11, <1>12, RowMoves

LEMMA CrossesAgainStep ==
  ASSUME HooksInv, NEW c \in Commits, CrossesAgain(c)
  PROVE  HooksInv'
  <1>1. create[c].step = "evaluate" /\ HookStands(c)
    BY DEF CrossesAgain, IsAt, HooksInv
  <1>2. CASE RollBack(c, "failed")
    <2>1. c \in Open
      BY <1>1 DEF Open, Finished
    <2> QED
      BY <1>2, <2>1, RollBackStep
  <1>3. CASE /\ UNCHANGED records
             /\ create' = [create EXCEPT ![c].aborted = TRUE, ![c].held = {}, ![c].used = 0,
                                         ![c].step = "commit"]
    <2>1. create \in [Commits -> CommitCalls] /\ create[c] \in CommitCalls
      BY DEF HooksInv, HooksTypeOK
    <2>2. /\ create'[c] = [create[c] EXCEPT !.aborted = TRUE, !.held = {}, !.used = 0, !.step = "commit"]
          /\ \A d \in Commits \ {c} : create'[d] = create[d]
      BY <1>3, <2>1
    <2>3. create'[c] \in CommitCalls /\ create' \in [Commits -> CommitCalls]
      BY <1>3, <2>1, <2>2 DEF CommitCalls, Steps
    <2>4. /\ create'[c].todo = create[c].todo /\ create'[c].step = "commit" /\ create'[c].held = {}
          /\ create'[c].news = create[c].news /\ create'[c].fired = create[c].fired
          /\ create'[c].aborted = TRUE
      BY <2>1, <2>2 DEF CommitCalls
    <2>5. created[c].of \in Labels
      BY <1>1 DEF HookStands, RowFollows, ExpenseSteps, IsExpense
    <2>6. HooksTypeOK'
      BY <1>3, <2>3 DEF HooksInv, HooksTypeOK, records, tables
    <2>7. HookStands(c)'
      <3>1. RowFollows(c)' /\ QueueStands(c)' /\ LocksStand(c)'
        BY <1>1, <1>3, <2>4 DEF HookStands, RowFollows, QueueStands, LocksStand, records, tables, Open,
                                Finished, IsAt, IsExpense, ExpenseSteps, GoalSteps
      <3>2. NewsStands(c)' /\ FiredStands(c)'
        BY <1>1, <1>3, <2>4 DEF HookStands, NewsStands, FiredStands, records, tables, IsAt
      <3> QED
        BY <3>1, <3>2 DEF HookStands
    <2>8. AloneStands(c)'
      BY <1>3, <2>5, ExpenseIsNotAlone DEF records, tables
    <2>9. ASSUME NEW x \in steady, budget[x].status = "active" PROVE SteadyStands(x, c)'
      <3>1. /\ UNCHANGED <<created, budget, lock>> /\ SteadyStands(x, c)
            /\ (Concerns(x, c)' <=> Concerns(x, c)) /\ (IsExpense(c)' <=> IsExpense(c)) /\ IsExpense(c)
            /\ c \in Open
        BY <1>1, <1>3, <2>5, <2>9
           DEF records, tables, HooksInv, SteadyBudgetsStand, Concerns, IsExpense, Open, Finished
      <3>2. SteadyStands(x, c)!1'
        BY <1>1, <2>4, <3>1 DEF SteadyStands, Awaits
      <3>3. SteadyStands(x, c)!2'
        BY <2>4 DEF IsAt
      <3>4. SteadyStands(x, c)!3'
        BY <2>4
      <3> QED
        BY <3>2, <3>3, <3>4 DEF SteadyStands
    <2>10. create[c].step \notin Finished
      BY <1>1 DEF Finished
    <2> QED
      BY <1>3, <2>2, <2>6, <2>7, <2>8, <2>9, <2>10, CallMovesOn DEF records
  <1> QED
    BY <1>2, <1>3 DEF CrossesAgain, records, tables

\* A call begins with a row that counts towards nothing yet.
LEMMA InsertStands ==
  ASSUME HooksInv, HooksTypeOK', NEW c \in Commits, IsAt(c, "idle"),
         UNCHANGED <<budget, log, goal, lock, announced, steady>>,
         \A d \in Commits \ {c} : created'[d] = created[d] /\ SameCall(d),
         created'[c].status = "open",
         \/ create'[c].step = "discover" /\ created'[c].of \in Labels
         \/ create'[c].step = "read" /\ created'[c].of \in Goals,
         create'[c].todo = <<>>, create'[c].held = {}, create'[c].news = {}, create'[c].fired = {},
         \A d \in Open : created[d].of = created'[c].of /\ created'[c].of \in Goals =>
           ~create'[d].alone /\ ~create'[c].alone
  PROVE  HooksInv'
  <1>1. HookStands(c) /\ create[c].step = "idle" /\ c \notin Open /\ created[c].status = "none"
    BY DEF HooksInv, IsAt, Open, Finished, HookStands, RowFollows
  <1>2. \A r \in Budgets \cup Goals : lock[r] # c
    BY <1>1 DEF HookStands, LocksStand
  <1>3. HookStands(c)'
    <2>1. RowFollows(c)'
      BY HooksAssumption DEF RowFollows, Open, Finished, IsAt, IsExpense, ExpenseSteps, GoalSteps
    <2>2. QueueStands(c)' /\ LocksStand(c)' /\ NewsStands(c)' /\ FiredStands(c)'
      BY <1>2 DEF QueueStands, LocksStand, NewsStands, FiredStands, IsAt
    <2> QED
      BY <2>1, <2>2 DEF HookStands
  <1>4. \A d \in Commits \ {c} : d \in Open' <=> d \in Open
    BY SameCallKeeps DEF Open, HooksInv
  <1>5. AloneStands(c)'
    <2>1. ASSUME created'[c].of \in Goals, create'[c].alone
          PROVE  create'[c].step = "read" /\ \A d \in Open' \ {c} : created'[d].of # created'[c].of
      <3>1. create'[c].step = "read"
        BY <2>1, HooksAssumption
      <3>2. \A d \in Open : created[d].of # created'[c].of
        BY <2>1
      <3> QED
        BY <1>4, <3>1, <3>2 DEF Open
    <2> QED
      BY <2>1 DEF AloneStands, IsAt
  <1>6. ASSUME NEW b \in Budgets PROVE SteadyStands(b, c)'
    <2>1. lock'[b] # c /\ ~Awaits(c, b)'
      BY <1>2 DEF Awaits
    <2>2. create'[c].step = "discover" \/ ~IsExpense(c)'
      BY HooksAssumption DEF IsExpense
    <2> QED
      BY <2>1, <2>2 DEF SteadyStands, IsAt
  <1>7. ASSUME NEW d \in Commits \ {c} PROVE AloneStands(d)'
    <2>1. CASE d \in Open /\ created[d].of \in Goals /\ create'[d].alone
      <3>1. ProgressKept(created[d].of)
        BY <1>1 DEF ProgressKept
      <3>2. \A e \in Open' : created'[e].of = created[d].of => e \in Open /\ created[e].of = created[d].of
        <4>1. ASSUME NEW e \in Open', created'[e].of = created[d].of
              PROVE  e \in Open /\ created[e].of = created[d].of
          <5>1. e # c
            BY <2>1, <4>1
          <5>2. e \in Commits
            BY DEF Open
          <5> QED
            BY <1>4, <4>1, <5>1, <5>2
        <4> QED
          BY <4>1
      <3> QED
        BY <3>1, <3>2, BystanderIsAlone DEF HooksInv
    <2>2. CASE ~(d \in Open /\ created[d].of \in Goals /\ create'[d].alone)
      BY <1>4, <2>2 DEF AloneStands
    <2> QED
      BY <2>1, <2>2
  <1>8. \A b : TotalKept(b)
    BY <1>1 DEF TotalKept
  <1>9. steady' \subseteq Budgets
    BY DEF HooksTypeOK
  <1> QED
    BY <1>3, <1>5, <1>6, <1>7, <1>8, <1>9, RowMoves

LEMMA IdleCalls ==
  ASSUME HooksInv, NEW c \in Commits, IsAt(c, "idle")
  PROVE  create[c].todo = <<>> /\ create[c].held = {} /\ create[c].news = {} /\ create[c].fired = {}
  BY DEF HooksInv, HookStands, QueueStands, NewsStands, FiredStands, IsAt

LEMMA InsertExpenseStep ==
  ASSUME HooksInv, NEW c \in Commits, InsertExpense(c)
  PROVE  HooksInv'
  <1>1. PICK l \in Labels, a \in Prices, p \in 1..today, rated \in BOOLEAN :
          Insert(c, l, a, p, rated) /\ Goto(c, "discover")
    BY DEF InsertExpense
  <1> DEFINE entry == [status |-> "open", of |-> l, amount |-> a, period |-> p, rated |-> rated]
  <1>2. /\ create \in [Commits -> CommitCalls] /\ created \in [Commits -> CreatedRows]
        /\ today \in BudgetPeriods /\ create[c] \in CommitCalls
    BY DEF HooksInv, HooksTypeOK
  <1>3. /\ IsAt(c, "idle") /\ UNCHANGED <<budget, log, goal, lock, announced, today, due, changes, steady>>
        /\ created' = [created EXCEPT ![c] = entry] /\ create' = [create EXCEPT ![c].step = "discover"]
    BY <1>1 DEF Insert, Goto
  <1>4. entry \in CreatedRows
    <2>1. p \in BudgetPeriods
      BY <1>2, HooksAssumption DEF BudgetPeriods
    <2> QED
      BY <2>1 DEF CreatedRows
  <1>5. entry.status = "open" /\ entry.of = l
    OBVIOUS
  <1> HIDE DEF entry
  <1>6. /\ create'[c] = [create[c] EXCEPT !.step = "discover"] /\ created'[c] = entry
        /\ \A d \in Commits \ {c} : create'[d] = create[d] /\ created'[d] = created[d]
        /\ created' \in [Commits -> CreatedRows]
    BY <1>2, <1>3, <1>4
  <1>7. create'[c] \in CommitCalls /\ create' \in [Commits -> CommitCalls]
    BY <1>2, <1>3, <1>6 DEF CommitCalls, Steps
  <1>8. /\ create'[c].todo = create[c].todo /\ create'[c].step = "discover"
        /\ create'[c].held = create[c].held /\ create'[c].news = create[c].news
        /\ create'[c].fired = create[c].fired
    BY <1>2, <1>6 DEF CommitCalls
  <1>9. HooksTypeOK'
    BY <1>3, <1>6, <1>7 DEF HooksInv, HooksTypeOK
  <1>10. \A d \in Commits \ {c} : SameCall(d)
    BY <1>6 DEF SameCall
  <1>11. l \notin Goals
    BY HooksAssumption
  <1> QED
    BY <1>3, <1>5, <1>6, <1>8, <1>9, <1>10, <1>11, IdleCalls, InsertStands

LEMMA InsertContributionStep ==
  ASSUME HooksInv, NEW c \in Commits, InsertContribution(c)
  PROVE  HooksInv'
  <1>1. PICK g \in Goals, a \in Prices, rated \in BOOLEAN :
          /\ Insert(c, g, a, 1, rated)
          /\ create' = [d \in Commits |->
               IF d = c THEN [NoCall EXCEPT !.step = "read",
                                            !.alone = ({e \in Open : created[e].of = g} = {})]
               ELSE IF d \in {e \in Open : created[e].of = g} THEN [create[d] EXCEPT !.alone = FALSE]
               ELSE create[d]]
    BY DEF InsertContribution
  <1> DEFINE entry == [status |-> "open", of |-> g, amount |-> a, period |-> 1, rated |-> rated]
             others == {e \in Open : created[e].of = g}
  <1>2. create \in [Commits -> CommitCalls] /\ created \in [Commits -> CreatedRows]
    BY DEF HooksInv, HooksTypeOK
  <1>3. /\ IsAt(c, "idle") /\ UNCHANGED <<budget, log, goal, lock, announced, today, due, changes, steady>>
        /\ created' = [created EXCEPT ![c] = entry]
    BY <1>1 DEF Insert
  <1>4. entry \in CreatedRows
    BY HooksAssumption DEF CreatedRows, BudgetPeriods
  <1>5. entry.status = "open" /\ entry.of = g
    OBVIOUS
  <1> HIDE DEF entry
  <1>6. /\ created'[c] = entry /\ \A d \in Commits \ {c} : created'[d] = created[d]
        /\ created' \in [Commits -> CreatedRows]
    BY <1>2, <1>3, <1>4
  <1>7. /\ create'[c] = [NoCall EXCEPT !.step = "read", !.alone = (others = {})]
        /\ \A d \in Commits \ {c} :
             create'[d] = IF d \in others THEN [create[d] EXCEPT !.alone = FALSE] ELSE create[d]
    BY <1>1
  <1> HIDE DEF others
  <1>8. create'[c] \in CommitCalls /\ \A d \in Commits \ {c} : SameCall(d)
    BY <1>7, RowsStart DEF CommitCalls, Steps, SameCall
  <1>9. create' \in [Commits -> CommitCalls]
    <2>1. \A d \in Commits : create'[d] \in CommitCalls
      BY <1>8, SameCallKeeps DEF HooksInv
    <2>2. create' = [d \in Commits |-> create'[d]]
      BY <1>1
    <2> QED
      BY <2>1, <2>2
  <1>10. /\ create'[c].todo = <<>> /\ create'[c].step = "read" /\ create'[c].held = {}
         /\ create'[c].news = {} /\ create'[c].fired = {} /\ create'[c].alone = (others = {})
    BY <1>7 DEF NoCall
  <1>11. HooksTypeOK'
    BY <1>3, <1>6, <1>9 DEF HooksInv, HooksTypeOK
  <1>12. ASSUME NEW d \in Open, created[d].of = g PROVE ~create'[d].alone /\ ~create'[c].alone
    <2>1. d \in others /\ d # c /\ d \in Commits
      BY <1>3, <1>12 DEF others, Open, IsAt, Finished
    <2>2. create'[d] = [create[d] EXCEPT !.alone = FALSE]
      BY <1>7, <2>1
    <2> QED
      BY <1>2, <1>10, <2>1, <2>2 DEF CommitCalls
  <1> QED
    BY <1>3, <1>5, <1>6, <1>8, <1>10, <1>11, <1>12, InsertStands

(***************************************************************************)
(* What else writes these rows                                             *)
(***************************************************************************)
LEMMA ChangeRowStep ==
  ASSUME HooksInv, NEW c \in Commits, created[c].status \in {"live", "deleted"},
         NEW new \in CreatedRows, new.status \in {"live", "deleted"}, new.of = created[c].of,
         ChangeRow(c, new), changes' \in 0..MaxChanges
  PROVE  HooksInv'
  <1> DEFINE g == created[c].of
  <1>1. UNCHANGED <<budget, log, goal, lock, announced, today, due>> /\ HookStands(c)
    BY DEF ChangeRow, HooksInv
  <1>2. create \in [Commits -> CommitCalls] /\ created \in [Commits -> CreatedRows]
    BY DEF HooksInv, HooksTypeOK
  <1>3. create[c].step = "answered"
    <2>1. create[c].step \in Steps
      BY <1>2 DEF CommitCalls
    <2> QED
      BY <1>1, <2>1 DEF HookStands, RowFollows, Open, Finished, Steps
  <1>4. /\ created'[c] = new /\ \A d \in Commits \ {c} : created'[d] = created[d]
        /\ created' \in [Commits -> CreatedRows]
    BY <1>2 DEF ChangeRow
  <1>5. \A d \in Commits : create'[d] = IF d \in Open /\ created[d].of = g
                                        THEN [create[d] EXCEPT !.alone = FALSE] ELSE create[d]
    BY DEF ChangeRow
  <1>6. \A d \in Commits : SameCall(d)
    BY <1>5 DEF SameCall
  <1>7. create' \in [Commits -> CommitCalls]
    <2>1. \A d \in Commits : create'[d] \in CommitCalls
      BY <1>6, SameCallKeeps DEF HooksInv
    <2>2. create' = [d \in Commits |-> create'[d]]
      BY DEF ChangeRow
    <2> QED
      BY <2>1, <2>2
  <1>8. steady' \subseteq steady /\ (IsExpense(c) => steady' = {})
    BY DEF ChangeRow
  <1>9. HooksTypeOK'
    BY <1>1, <1>4, <1>7, <1>8 DEF HooksInv, HooksTypeOK
  <1>10. create'[c] = create[c] /\ c \notin Open /\ c \notin Open'
    BY <1>3, <1>5 DEF Open, Finished
  <1>11. \A r \in Budgets \cup Goals : lock[r] # c
    BY <1>1, <1>3 DEF HookStands, LocksStand
  <1>12. HookStands(c)'
    <2>1. RowFollows(c)'
      BY <1>3, <1>4, <1>10 DEF RowFollows, IsAt, ExpenseSteps, GoalSteps
    <2>2. QueueStands(c)' /\ LocksStand(c)' /\ NewsStands(c)' /\ FiredStands(c)'
      BY <1>1, <1>3, <1>10, <1>11 DEF HookStands, QueueStands, LocksStand, NewsStands, FiredStands, IsAt
    <2> QED
      BY <2>1, <2>2 DEF HookStands
  <1>13. AloneStands(c)' /\ \A b \in Budgets : SteadyStands(b, c)'
    BY <1>1, <1>3, <1>10, <1>11 DEF AloneStands, SteadyStands, IsAt
  <1>14. \A b \in steady' : TotalKept(b)
    BY <1>1, <1>4, <1>8 DEF TotalKept, CountsTowards, CountsIn, IsExpense
  <1>15. ASSUME NEW d \in Commits \ {c} PROVE AloneStands(d)'
    <2>1. \A e \in Commits : e \in Open' <=> e \in Open
      BY <1>6, SameCallKeeps DEF HooksInv, Open
    <2>2. CASE d \in Open /\ created[d].of # g
      <3>1. ProgressKept(created[d].of)
        BY <1>4, <2>2 DEF ProgressKept
      <3>2. \A e \in Open' : e \in Open /\ created'[e] = created[e]
        BY <1>4, <1>10, <2>1 DEF Open
      <3> QED
        BY <1>1, <1>4, <1>6, <1>9, <3>1, <3>2, BystanderIsAlone DEF HooksInv
    <2>3. CASE d \notin Open
      BY <2>1, <2>3 DEF AloneStands
    <2>4. CASE d \in Open /\ created[d].of = g
      <3>1. ~create'[d].alone
        BY <1>2, <1>5, <2>4 DEF CommitCalls
      <3> QED
        BY <3>1 DEF AloneStands
    <2> QED
      BY <2>2, <2>3, <2>4
  <1>16. steady' \subseteq Budgets
    BY <1>9 DEF HooksTypeOK
  <1> QED
    BY <1>1, <1>4, <1>6, <1>8, <1>9, <1>12, <1>13, <1>14, <1>15, <1>16, RowMoves

LEMMA EditorsStep ==
  ASSUME HooksInv, NEW c \in Commits,
         DeleteTransaction(c) \/ RestoreTransaction(c) \/ EditTransaction(c) \/ IngestRate(c)
  PROVE  HooksInv'
  <1>1. created[c] \in CreatedRows /\ changes \in 0..MaxChanges /\ today \in BudgetPeriods
    BY DEF HooksInv, HooksTypeOK
  <1>2. Counted => changes' \in 0..MaxChanges
    BY <1>1, HooksAssumption DEF Counted
  <1>3. CASE DeleteTransaction(c)
    <2> DEFINE new == [created[c] EXCEPT !.status = "deleted"]
    <2>1. new \in CreatedRows /\ new.status = "deleted" /\ new.of = created[c].of
      BY <1>1 DEF CreatedRows
    <2>2. ChangeRow(c, new) /\ Counted /\ created[c].status = "live"
      BY <1>3 DEF DeleteTransaction
    <2> HIDE DEF new
    <2> QED
      BY <1>2, <2>1, <2>2, ChangeRowStep
  <1>4. CASE RestoreTransaction(c)
    <2> DEFINE new == [created[c] EXCEPT !.status = "live"]
    <2>1. new \in CreatedRows /\ new.status = "live" /\ new.of = created[c].of
      BY <1>1 DEF CreatedRows
    <2>2. ChangeRow(c, new) /\ changes' = changes /\ created[c].status = "deleted"
      BY <1>4 DEF RestoreTransaction
    <2> HIDE DEF new
    <2> QED
      BY <1>1, <2>1, <2>2, ChangeRowStep
  <1>5. CASE EditTransaction(c)
    <2>1. PICK a \in Corrections, p \in 1..today :
            ChangeRow(c, [created[c] EXCEPT !.amount = a, !.period = IF IsExpense(c) THEN p ELSE @])
      BY <1>5 DEF EditTransaction
    <2> DEFINE new == [created[c] EXCEPT !.amount = a, !.period = IF IsExpense(c) THEN p ELSE @]
    <2>2. p \in BudgetPeriods
      BY <1>1, HooksAssumption DEF BudgetPeriods
    <2>3. new \in CreatedRows /\ new.status = created[c].status /\ new.of = created[c].of
      BY <1>1, <2>2 DEF CreatedRows
    <2>4. ChangeRow(c, new) /\ Counted /\ created[c].status = "live"
      BY <1>5, <2>1 DEF EditTransaction
    <2> HIDE DEF new
    <2> QED
      BY <1>2, <2>3, <2>4, ChangeRowStep
  <1>6. CASE IngestRate(c)
    <2> DEFINE new == [created[c] EXCEPT !.rated = TRUE]
    <2>1. new \in CreatedRows /\ new.status = created[c].status /\ new.of = created[c].of
      BY <1>1 DEF CreatedRows
    <2>2. ChangeRow(c, new) /\ Counted /\ created[c].status \in {"live", "deleted"}
      BY <1>6 DEF IngestRate
    <2> HIDE DEF new
    <2> QED
      BY <1>2, <2>1, <2>2, ChangeRowStep
  <1> QED
    BY <1>3, <1>4, <1>5, <1>6

\* A budget no hook holds is written; the rows are not.
LEMMA BudgetMoves ==
  ASSUME HooksInv, HooksTypeOK', NEW b \in Budgets, lock[b] = Free,
         UNCHANGED <<created, log, goal, lock, create, announced>>, steady' \subseteq steady,
         \A x \in Budgets \ {b} : budget'[x] = budget[x],
         budget'[b].status # "absent",
         b \in steady' /\ budget'[b].status = "active" =>
           /\ \A c \in Commits : created[c].status = "none"
           /\ \A n \in log : n[1] # b
  PROVE  HooksInv'
  <1>1. \A c \in Commits : SameCall(c)
    BY DEF SameCall
  <1>2. ASSUME NEW c \in Commits PROVE HookStands(c)'
    <2>1. lock[b] # c
      BY HooksAssumption
    <2> QED
      BY <1>1, <2>1, BystanderStands DEF HooksInv
  <1>3. ASSUME NEW c \in Commits PROVE AloneStands(c)'
    <2>1. ProgressKept(created[c].of) /\ \A e \in Open' : e \in Open
      BY DEF ProgressKept, Open
    <2> QED
      BY <1>1, <2>1, BystanderIsAlone DEF HooksInv
  <1>4. LoggedBudgetsExist' /\ AnnouncedOnce'
    <2>1. \A n \in log : n[1] \in Budgets
      BY DEF HooksInv, HooksTypeOK
    <2> QED
      BY <2>1 DEF HooksInv, LoggedBudgetsExist, AnnouncedOnce
  <1>5. \A x \in Budgets \ {b} : TotalKept(x)
    BY DEF TotalKept
  <1>6. steady' \subseteq Budgets
    BY DEF HooksTypeOK
  <1>7. ASSUME NEW x \in steady', budget'[x].status = "active"
        PROVE  /\ \A t \in Thresholds :
                    <<x, t, budget'[x].period>> \in log'
                    <=> Reached(UsedAmount(x, Posted)', budget'[x].limit, t)
               /\ \A c \in Commits : SteadyStands(x, c)'
    <2>1. CASE x # b
      <3>1. UsedAmount(x, Posted)' = UsedAmount(x, Posted)
        BY <1>5, <1>6, <2>1, UsedAmountKept DEF HooksInv, HooksTypeOK
      <3>2. \A t \in Thresholds : <<x, t, budget[x].period>> \in log
                                  <=> Reached(UsedAmount(x, Posted), budget[x].limit, t)
        BY <1>6, <1>7, <2>1 DEF HooksInv, LogMatchesUse
      <3>3. ASSUME NEW c \in Commits PROVE SteadyStands(x, c)'
        <4>1. SteadyStands(x, c)
          BY <1>6, <1>7, <2>1 DEF HooksInv, SteadyBudgetsStand
        <4> QED
          BY <1>1, <1>5, <1>6, <2>1, <4>1, BystanderIsSteady DEF HooksInv
      <3> QED
        BY <1>6, <2>1, <3>1, <3>2, <3>3
    <2>2. CASE x = b
      <3>1. \A c \in Commits : created[c].status = "none"
        BY <1>7, <2>2
      <3>2. UsedAmount(x, Posted)' = 0
        <4>1. UsedAmount(x, Posted)' = SumFunctionOnSet([c \in Commits |-> created'[c].amount], {})
          <5>1. {c \in Posted : IsExpense(c) /\ created[c].rated /\ budget[x].scope \in created[c].of
                                /\ created[c].period = budget[x].period}' = {}
            BY <3>1 DEF Posted
          <5> QED
            BY <5>1 DEF UsedAmount, Total
        <4> QED
          BY <4>1, SumOfNone
      <3>3. ASSUME NEW t \in Thresholds
            PROVE  /\ <<x, t, budget'[x].period>> \notin log'
                   /\ ~Reached(UsedAmount(x, Posted)', budget'[x].limit, t)
        <4>1. <<x, t, budget'[x].period>> \notin log'
          BY <1>7, <2>2
        <4>2. budget'[x].limit \in Nat \ {0} /\ t \in Nat \ {0}
          <5>1. budget'[x].limit \in Limits
            BY <2>2 DEF HooksTypeOK
          <5>2. t \in Nat \ {0}
            BY DEF Thresholds
          <5> QED
            BY <5>1, <5>2, HooksAssumption
        <4>3. \A l, n \in Nat \ {0} : ~(0 * 100 >= n * l)
          OBVIOUS
        <4> QED
          BY <3>2, <4>1, <4>2, <4>3 DEF Reached
      <3>4. ASSUME NEW c \in Commits PROVE SteadyStands(x, c)'
        <4>1. HookStands(c) /\ create[c].step \in Steps
          BY DEF HooksInv, HooksTypeOK, CommitCalls
        <4>2. create[c].step \in Finished
          BY <3>1, <4>1 DEF HookStands, RowFollows, Open
        <4>3. lock[x] # c
          BY <2>2, HooksAssumption
        <4> QED
          BY <4>2, <4>3 DEF SteadyStands, Open, Finished, IsAt
      <3> QED
        BY <3>3, <3>4
    <2> QED
      BY <2>1, <2>2
  <1>8. LogMatchesUse' /\ SteadyBudgetsStand'
    BY <1>7 DEF LogMatchesUse, SteadyBudgetsStand
  <1> QED
    BY <1>2, <1>3, <1>4, <1>8 DEF HooksInv

LEMMA BudgetStep ==
  ASSUME HooksInv, NEW b \in Budgets, CreateBudget(b) \/ EditBudget(b) \/ DeleteBudget(b)
  PROVE  HooksInv'
  <1>1. /\ budget \in [Budgets -> [status : {"absent", "active", "deleted"},
                                   scope : Scopes, limit : Limits, period : BudgetPeriods]]
        /\ lock \in [Budgets \cup Goals -> Commits \cup {Free}]
        /\ changes \in 0..MaxChanges /\ today \in BudgetPeriods /\ steady \subseteq Budgets
    BY DEF HooksInv, HooksTypeOK
  <1>2. Counted => changes' \in 0..MaxChanges
    BY <1>1, HooksAssumption DEF Counted
  <1>3. CASE CreateBudget(b)
    <2>1. PICK scope \in Scopes, limit \in Limits :
            /\ budget[b].status = "absent"
            /\ budget' = [budget EXCEPT ![b] = [status |-> "active", scope |-> scope,
                                                limit |-> limit, period |-> today]]
            /\ steady' = IF \A c \in Commits : created[c].status = "none" THEN steady ELSE steady \ {b}
            /\ UNCHANGED <<created, log, goal, lock, create, announced, today, due, changes>>
      BY <1>3 DEF CreateBudget
    <2>2. /\ budget' \in [Budgets -> [status : {"absent", "active", "deleted"},
                                      scope : Scopes, limit : Limits, period : BudgetPeriods]]
          /\ budget'[b].status = "active" /\ \A x \in Budgets \ {b} : budget'[x] = budget[x]
      BY <1>1, <2>1
    <2>3. HooksTypeOK'
      BY <1>1, <2>1, <2>2 DEF HooksInv, HooksTypeOK
    <2>4. lock[b] = Free
      BY <1>1, <2>1 DEF HooksInv, HookStands, LocksStand
    <2>5. \A n \in log : n[1] # b
      BY <2>1 DEF HooksInv, LoggedBudgetsExist
    <2> QED
      BY <2>1, <2>2, <2>3, <2>4, <2>5, BudgetMoves
  <1>4. CASE EditBudget(b)
    <2>1. PICK scope \in Scopes, limit \in Limits :
            /\ budget[b].status = "active" /\ lock[b] = Free /\ Counted
            /\ budget' = [budget EXCEPT ![b].scope = scope, ![b].limit = limit]
            /\ steady' = steady \ {b}
            /\ UNCHANGED <<created, log, goal, lock, create, announced, today, due>>
      BY <1>4 DEF EditBudget
    <2>2. /\ budget' \in [Budgets -> [status : {"absent", "active", "deleted"},
                                      scope : Scopes, limit : Limits, period : BudgetPeriods]]
          /\ budget'[b].status = "active" /\ \A x \in Budgets \ {b} : budget'[x] = budget[x]
      BY <1>1, <2>1
    <2>3. HooksTypeOK'
      BY <1>1, <1>2, <2>1, <2>2 DEF HooksInv, HooksTypeOK
    <2> QED
      BY <2>1, <2>2, <2>3, BudgetMoves
  <1>5. CASE DeleteBudget(b)
    <2>1. /\ lock[b] = Free /\ Counted
          /\ budget' = [budget EXCEPT ![b].status = "deleted"]
          /\ UNCHANGED <<created, log, goal, lock, create, announced, today, due, steady>>
      BY <1>5 DEF DeleteBudget
    <2>2. /\ budget' \in [Budgets -> [status : {"absent", "active", "deleted"},
                                      scope : Scopes, limit : Limits, period : BudgetPeriods]]
          /\ budget'[b].status = "deleted" /\ \A x \in Budgets \ {b} : budget'[x] = budget[x]
      BY <1>1, <2>1
    <2>3. HooksTypeOK'
      BY <1>1, <1>2, <2>1, <2>2 DEF HooksInv, HooksTypeOK
    <2> QED
      BY <2>1, <2>2, <2>3, BudgetMoves
  <1> QED
    BY <1>3, <1>4, <1>5

\* The calendar and the rollover job write none of the rows.
LEMMA QuietStep ==
  ASSUME HooksInv, UNCHANGED hookVars \/ NextPeriod \/ FindDue \/ RolloverPeriod
  PROVE  HooksInv'
  <1>1. UNCHANGED <<created, budget, log, goal, lock, create, announced, steady>>
    BY DEF hookVars, NextPeriod, FindDue, RolloverPeriod
  <1>2. HooksTypeOK'
    <2>1. /\ today \in BudgetPeriods /\ due \subseteq Budgets \X BudgetPeriods /\ changes \in 0..MaxChanges
          /\ \A b \in Budgets : budget[b].period \in BudgetPeriods
      BY DEF HooksInv, HooksTypeOK
    <2>2. today' \in BudgetPeriods /\ due' \subseteq Budgets \X BudgetPeriods /\ changes' \in 0..MaxChanges
      <3>1. CASE UNCHANGED hookVars
        BY <2>1, <3>1 DEF hookVars
      <3>2. CASE NextPeriod
        BY <2>1, <3>2, HooksAssumption DEF NextPeriod, Counted, BudgetPeriods
      <3>3. CASE FindDue
        BY <2>1, <3>3 DEF FindDue
      <3>4. CASE RolloverPeriod
        BY <2>1, <3>4 DEF RolloverPeriod
      <3> QED
        BY <3>1, <3>2, <3>3, <3>4
    <2> QED
      BY <1>1, <2>2 DEF HooksInv, HooksTypeOK
  <1>3. \A c \in Commits : SameCall(c)
    BY <1>1 DEF SameCall
  <1>4. ASSUME NEW c \in Commits PROVE HookStands(c)' /\ AloneStands(c)'
    <2>1. ProgressKept(created[c].of) /\ \A e \in Open' : e \in Open
      BY <1>1 DEF ProgressKept, Open
    <2> QED
      BY <1>1, <1>2, <1>3, <2>1, BystanderStands, BystanderIsAlone DEF HooksInv
  <1>5. LoggedBudgetsExist' /\ AnnouncedOnce'
    BY <1>1 DEF HooksInv, LoggedBudgetsExist, AnnouncedOnce
  <1>6. LogMatchesUse'
    BY <1>1, TotalsStay DEF HooksInv, LogMatchesUse
  <1>7. SteadyBudgetsStand'
    <2>1. ASSUME NEW b \in steady, budget[b].status = "active", NEW c \in Commits
          PROVE  SteadyStands(b, c)'
      <3>1. TotalKept(b) /\ SteadyStands(b, c) /\ b \in Budgets
        BY <1>1, <2>1 DEF TotalKept, HooksInv, HooksTypeOK, SteadyBudgetsStand
      <3> QED
        BY <1>1, <1>2, <1>3, <3>1, BystanderIsSteady DEF HooksInv
    <2> QED
      BY <1>1, <2>1 DEF SteadyBudgetsStand
  <1> QED
    BY <1>2, <1>4, <1>5, <1>6, <1>7 DEF HooksInv

(***************************************************************************)
(* Commit                                                                  *)
(***************************************************************************)
\* What has been reached stays reached as the total grows.
LEMMA ReachedGrows ==
  ASSUME NEW u \in Nat, NEW v \in Nat, u <= v, NEW limit \in Nat, NEW t \in Nat
  PROVE  Reached(u, limit, t) => Reached(v, limit, t)
  <1>1. t * limit \in Nat
    OBVIOUS
  <1> QED
    BY <1>1 DEF Reached

\* What the invariant says of a call that commits.
CommitStands(c) ==
  /\ c \in Open /\ created[c].status = "open" /\ create[c].held = {} /\ create[c].todo = <<>>
  /\ create[c].news \subseteq Budgets \X Thresholds \X BudgetPeriods
  /\ \A n \in create[c].news : lock[n[1]] = c /\ n \notin log
  /\ create[c].fired \in SUBSET Milestones
  /\ create[c].fired # {} => created[c].of \in Goals /\ lock[created[c].of] = c
  /\ \A m \in create[c].fired :
       /\ m > goal[created[c].of].last
       /\ \A k \in Milestones : goal[created[c].of].last < k /\ k < m => k \in create[c].fired
  /\ \A b \in Budgets : lock[b] = c => IsExpense(c) /\ budget[b].status = "active"

LEMMA CommitStandsThen ==
  ASSUME HooksInv, NEW c \in Commits, IsAt(c, "commit")
  PROVE  CommitStands(c)
  <1>1. HookStands(c) /\ create[c] \in CommitCalls /\ create[c].step = "commit"
    BY DEF HooksInv, HooksTypeOK, IsAt
  <1>2. c \in Open /\ created[c].status = "open"
    BY <1>1 DEF HookStands, RowFollows, Open, Finished
  <1>3. create[c].held = {} /\ create[c].todo = <<>>
    BY <1>1 DEF HookStands, QueueStands, IsAt
  <1>4. \A n \in create[c].news : lock[n[1]] = c /\ n \notin log
    BY <1>1 DEF HookStands, NewsStands
  <1>5. /\ create[c].fired # {} => created[c].of \in Goals /\ lock[created[c].of] = c
        /\ \A m \in create[c].fired :
             /\ m > goal[created[c].of].last
             /\ \A k \in Milestones : goal[created[c].of].last < k /\ k < m => k \in create[c].fired
    BY <1>1 DEF HookStands, FiredStands
  <1>6. \A b \in Budgets : lock[b] = c => IsExpense(c) /\ budget[b].status = "active"
    BY <1>1 DEF HookStands, LocksStand
  <1> QED
    BY <1>1, <1>2, <1>3, <1>4, <1>5, <1>6 DEF CommitStands, CommitCalls

\* A goal's milestone only rises, to the greatest that has fired.
LEMMA GoalRises ==
  ASSUME HooksInv, NEW c \in Commits, Commit(c), CommitStands(c)
  PROVE  /\ goal' \in [Goals -> [last : Milestones \cup {0}, completed : BOOLEAN]]
         /\ create[c].fired = {} => goal' = goal
         /\ \A g \in Goals : create[c].fired = {} \/ g # created[c].of => goal'[g] = goal[g]
         /\ create[c].fired # {} =>
              /\ goal'[created[c].of].last \in create[c].fired
              /\ \A m \in create[c].fired : m <= goal'[created[c].of].last
              /\ goal'[created[c].of].completed
                 = (goal[created[c].of].completed \/ goal'[created[c].of].last >= 100)
  <1> DEFINE fired == create[c].fired
             g == created[c].of
  <1>1. goal \in [Goals -> [last : Milestones \cup {0}, completed : BOOLEAN]] /\ fired \in SUBSET Milestones
    BY DEF HooksInv, HooksTypeOK, CommitStands
  <1>2. CASE fired = {}
    BY <1>1, <1>2 DEF Commit
  <1>3. CASE fired # {}
    <2>1. goal' = [goal EXCEPT ![g] = GoalAfter(g, fired)] /\ g \in Goals
      BY <1>3 DEF Commit, CommitStands
    <2> HIDE DEF fired, g
    <2>2. Max(fired) \in fired /\ \A m \in fired : m <= Max(fired)
      BY <1>1, <1>3, MaxIs
    <2>3. /\ GoalAfter(g, fired).last = Max(fired)
          /\ GoalAfter(g, fired).completed = (goal[g].completed \/ Max(fired) >= 100)
          /\ GoalAfter(g, fired) \in [last : Milestones \cup {0}, completed : BOOLEAN]
      BY <1>1, <2>1, <2>2 DEF GoalAfter
    <2>4. goal'[g] = GoalAfter(g, fired) /\ \A h \in Goals : h # g => goal'[h] = goal[h]
      BY <1>1, <2>1
    <2>5. goal' \in [Goals -> [last : Milestones \cup {0}, completed : BOOLEAN]]
      BY <1>1, <2>1, <2>3
    <2> QED
      BY <1>3, <2>2, <2>3, <2>4, <2>5 DEF fired, g
  <1> QED
    BY <1>2, <1>3

LEMMA CommitAnnounces ==
  ASSUME HooksInv, NEW c \in Commits, Commit(c), CommitStands(c)
  PROVE  AnnouncedOnce' /\ announced' \subseteq (Budgets \cup Goals) \X (Thresholds \cup Milestones)
                                                \X (BudgetPeriods \cup {0}) \X Commits
  <1> DEFINE g == created[c].of
             news == {<<n[1], n[2], n[3], c>> : n \in create[c].news}
             fired == {<<g, m, 0, c>> : m \in create[c].fired}
  <1>1. announced' = announced \cup news \cup fired /\ log' = log \cup create[c].news
    BY DEF Commit
  <1>2. /\ announced \subseteq (Budgets \cup Goals) \X (Thresholds \cup Milestones)
                               \X (BudgetPeriods \cup {0}) \X Commits
        /\ log \subseteq Budgets \X Thresholds \X BudgetPeriods
        /\ goal \in [Goals -> [last : Milestones \cup {0}, completed : BOOLEAN]]
    BY DEF HooksInv, HooksTypeOK
  <1>3. /\ \A f \in news : /\ f[4] = c /\ f[1] \in Budgets /\ <<f[1], f[2], f[3]>> \in create[c].news
                           /\ f \in Budgets \X Thresholds \X BudgetPeriods \X Commits
        /\ \A n \in create[c].news : n = <<n[1], n[2], n[3]>> /\ <<n[1], n[2], n[3], c>> \in news
    BY DEF CommitStands
  <1>4. /\ \A f \in fired : /\ f[4] = c /\ f[1] = g /\ f[2] \in create[c].fired /\ f[3] = 0
                            /\ g \in Goals /\ f \in Goals \X Milestones \X {0} \X Commits
        /\ \A m \in create[c].fired : <<g, m, 0, c>> \in fired
    BY DEF CommitStands
  <1>5. /\ \A e, f \in announced : <<e[1], e[2], e[3]>> = <<f[1], f[2], f[3]>> => e[4] = f[4]
        /\ \A e \in announced :
             IF e[1] \in Budgets THEN <<e[1], e[2], e[3]>> \in log ELSE e[2] <= goal[e[1]].last
        /\ \A n \in log : \E d \in Commits : <<n[1], n[2], n[3], d>> \in announced
        /\ \A h \in Goals, m \in Milestones :
             m <= goal[h].last => \E d \in Commits : <<h, m, 0, d>> \in announced
        /\ \A h \in Goals : goal[h].completed <=> goal[h].last = 100
    BY DEF HooksInv, AnnouncedOnce
  <1>6. \A h \in Goals : h \notin Budgets
    BY HooksAssumption
  <1>7. /\ goal' \in [Goals -> [last : Milestones \cup {0}, completed : BOOLEAN]]
        /\ \A h \in Goals : create[c].fired = {} \/ h # g => goal'[h] = goal[h]
        /\ create[c].fired # {} =>
             /\ goal'[g].last \in create[c].fired
             /\ \A m \in create[c].fired : m <= goal'[g].last
             /\ goal'[g].completed = (goal[g].completed \/ goal'[g].last >= 100)
    BY GoalRises
  <1>8. \A n \in create[c].news : n \notin log
    BY DEF CommitStands
  <1>9. \A m \in create[c].fired :
          /\ m \in Milestones /\ m > goal[g].last
          /\ \A k \in Milestones : goal[g].last < k /\ k < m => k \in create[c].fired
    BY DEF CommitStands
  <1>10. create[c].fired # {} => g \in Goals
    BY DEF CommitStands
  <1> HIDE DEF g, news, fired
  <1>11. \A h \in Goals : goal[h].last <= goal'[h].last /\ goal[h].last \in Milestones \cup {0}
    <2>1. ASSUME NEW h \in Goals PROVE goal[h].last <= goal'[h].last
      <3>1. goal[h].last \in Milestones \cup {0} /\ goal'[h].last \in Milestones \cup {0}
        BY <1>2, <1>7
      <3>2. \A x, y \in Milestones \cup {0} : x > y => y <= x
        BY DEF Milestones
      <3>3. \A x \in Milestones \cup {0} : x <= x
        BY DEF Milestones
      <3> QED
        BY <1>7, <1>9, <3>1, <3>2, <3>3
    <2> QED
      BY <1>2, <2>1
  <1>12. announced' \subseteq (Budgets \cup Goals) \X (Thresholds \cup Milestones)
                              \X (BudgetPeriods \cup {0}) \X Commits
    BY <1>1, <1>2, <1>3, <1>4
  <1>13. ASSUME NEW f \in news, NEW e \in announced, <<e[1], e[2], e[3]>> = <<f[1], f[2], f[3]>>
         PROVE  FALSE
    <2>1. e[1] \in Budgets /\ <<e[1], e[2], e[3]>> \in create[c].news
      BY <1>3, <1>13
    <2> QED
      BY <1>5, <1>8, <2>1
  <1>14. \A f \in fired, e \in announced : <<e[1], e[2], e[3]>> # <<f[1], f[2], f[3]>>
    <2>1. ASSUME NEW f \in fired, NEW e \in announced, e[1] = f[1], e[2] = f[2] PROVE FALSE
      <3>0. f[1] = g /\ f[2] \in create[c].fired /\ g \in Goals
        BY <1>4
      <3>1. f[2] <= goal[g].last /\ f[2] > goal[g].last /\ f[2] \in Milestones
        BY <1>5, <1>6, <1>9, <2>1, <3>0
      <3>2. goal[g].last \in Milestones \cup {0}
        BY <1>11, <3>0
      <3> QED
        BY <3>1, <3>2 DEF Milestones
    <2> QED
      BY <2>1
  <1>15. ASSUME NEW e \in announced', NEW f \in announced', <<e[1], e[2], e[3]>> = <<f[1], f[2], f[3]>>
         PROVE  e[4] = f[4]
    <2>1. CASE e \in announced /\ f \in announced
      BY <1>5, <1>15, <2>1
    <2>2. CASE e \notin announced /\ f \notin announced
      <3>1. e[4] = c /\ f[4] = c
        BY <1>1, <1>3, <1>4, <2>2
      <3> QED
        BY <3>1
    <2>3. CASE e \in announced /\ f \notin announced
      BY <1>1, <1>13, <1>14, <1>15, <2>3
    <2>4. CASE e \notin announced /\ f \in announced
      BY <1>1, <1>13, <1>14, <1>15, <2>4
    <2> QED
      BY <2>1, <2>2, <2>3, <2>4
  <1>16. ASSUME NEW e \in announced'
         PROVE  IF e[1] \in Budgets THEN <<e[1], e[2], e[3]>> \in log' ELSE e[2] <= goal'[e[1]].last
    <2>1. CASE e \in announced
      <3>1. CASE e[1] \in Budgets
        BY <1>1, <1>5, <2>1, <3>1
      <3>2. CASE e[1] \notin Budgets
        <4>1. e[1] \in Goals /\ e[2] <= goal[e[1]].last /\ e[2] \in Thresholds \cup Milestones
          <5>1. e[1] \in Budgets \cup Goals /\ e[2] \in Thresholds \cup Milestones
            BY <1>2, <2>1
          <5> QED
            BY <1>5, <2>1, <3>2, <5>1
        <4>2. /\ goal[e[1]].last <= goal'[e[1]].last
              /\ goal[e[1]].last \in Milestones \cup {0} /\ goal'[e[1]].last \in Milestones \cup {0}
          BY <1>7, <1>11, <4>1
        <4> QED
          BY <3>2, <4>1, <4>2 DEF Milestones, Thresholds
      <3> QED
        BY <3>1, <3>2
    <2>2. CASE e \in news
      BY <1>1, <1>3, <2>2
    <2>3. CASE e \in fired
      BY <1>4, <1>6, <1>7, <2>3
    <2> QED
      BY <1>1, <2>1, <2>2, <2>3
  <1>17. \A n \in log' : \E d \in Commits : <<n[1], n[2], n[3], d>> \in announced'
    BY <1>1, <1>3, <1>5
  <1>18. ASSUME NEW h \in Goals, NEW m \in Milestones, m <= goal'[h].last
         PROVE  \E d \in Commits : <<h, m, 0, d>> \in announced'
    <2>1. CASE create[c].fired = {} \/ h # g
      BY <1>1, <1>5, <1>7, <1>18, <2>1
    <2>2. CASE create[c].fired # {} /\ h = g
      <3>1. goal[h].last \in Milestones \cup {0} /\ goal'[h].last \in create[c].fired
        BY <1>7, <1>11, <2>2
      <3>2. CASE m <= goal[h].last
        BY <1>1, <1>5, <3>2
      <3>3. CASE ~(m <= goal[h].last)
        <4>1. goal[h].last < m
          BY <3>1, <3>3 DEF Milestones
        <4>2. m = goal'[h].last \/ m < goal'[h].last
          BY <1>9, <1>18, <3>1 DEF Milestones
        <4>3. m \in create[c].fired
          BY <1>9, <2>2, <3>1, <4>1, <4>2
        <4> QED
          BY <1>1, <1>4, <2>2, <4>3
      <3> QED
        BY <3>2, <3>3
    <2> QED
      BY <2>1, <2>2
  <1>19. ASSUME NEW h \in Goals PROVE goal'[h].completed <=> goal'[h].last = 100
    <2>1. CASE create[c].fired = {} \/ h # g
      BY <1>5, <1>7, <2>1
    <2>2. CASE create[c].fired # {} /\ h = g
      <3>1. goal'[h].last \in Milestones /\ goal'[h].last > goal[h].last /\ goal[h].last \in Milestones \cup {0}
        BY <1>7, <1>9, <1>11, <2>2
      <3>2. ~goal[h].completed
        BY <1>5, <3>1 DEF Milestones
      <3> QED
        BY <1>7, <2>2, <3>1, <3>2 DEF Milestones
    <2> QED
      BY <2>1, <2>2
  <1>20. AnnouncedOnce'
    BY <1>15, <1>16, <1>17, <1>18, <1>19 DEF AnnouncedOnce
  <1> QED
    BY <1>12, <1>20

\* The expense of c counts towards the steady budgets that c holds, no other.
LEMMA CommitCounts ==
  ASSUME HooksInv, NEW c \in Commits, IsAt(c, "commit"), ~create[c].aborted, Commit(c), CommitStands(c),
         NEW b \in steady, budget[b].status = "active"
  PROVE  /\ lock[b] # c => TotalKept(b) /\ \A n \in create[c].news : n[1] # b
         /\ lock[b] = c =>
              /\ UsedAmount(b, Posted)' = UsedAmount(b, Posted \cup {c})
              /\ {n \in create[c].news : n[1] = b} = {<<b, t, budget[b].period>> : t \in CrossedBy(c, b)}
  <1>1. /\ budget' = budget /\ b \in Budgets /\ SteadyStands(b, c) /\ created \in [Commits -> CreatedRows]
        /\ created' = [created EXCEPT ![c].status = "live"]
    BY DEF Commit, HooksInv, HooksTypeOK, SteadyBudgetsStand
  <1>2. /\ created'[c] = [created[c] EXCEPT !.status = "live"]
        /\ \A d \in Commits \ {c} : created'[d] = created[d]
    BY <1>1
  <1>3. /\ created'[c].of = created[c].of /\ created'[c].period = created[c].period
        /\ created'[c].amount = created[c].amount /\ created'[c].rated = created[c].rated
        /\ created'[c].status = "live" /\ created[c].status = "open" /\ created[c] \in CreatedRows
    BY <1>1, <1>2 DEF CreatedRows, CommitStands
  <1>4. c \in Open /\ create[c].step = "commit" /\ ~Awaits(c, b) /\ create[c].held = {}
    BY DEF IsAt, CommitStands, Awaits
  <1>5. ASSUME lock[b] # c PROVE TotalKept(b) /\ \A n \in create[c].news : n[1] # b
    <2>1. ~(IsExpense(c) /\ Concerns(b, c))
      BY <1>1, <1>4, <1>5 DEF SteadyStands
    <2>2. ~CountsTowards(b, c)'
      BY <1>1, <1>3, <2>1 DEF Concerns, CountsTowards, CountsIn, IsExpense
    <2>3. TotalKept(b)
      BY <1>1, <1>2, <1>3, <2>2 DEF TotalKept
    <2> QED
      BY <1>5, <2>3 DEF CommitStands
  <1>6. ASSUME lock[b] = c
        PROVE  {n \in create[c].news : n[1] = b} = {<<b, t, budget[b].period>> : t \in CrossedBy(c, b)}
    BY <1>1, <1>4, <1>6 DEF SteadyStands
  <1>7. UsedAmount(b, Posted)' = UsedAmount(b, Posted \cup {c})
    <2> DEFINE scope == budget[b].scope
               period == budget[b].period
               S == Posted \cup {c}
    <2>1. UsedAmount(b, Posted)' = UsedIn(created', scope, period, Posted')
      BY <1>1 DEF UsedAmount, UsedIn, Total, AmountsOf, CountsIn, IsExpense
    <2>2. UsedAmount(b, S) = UsedIn(created, scope, period, S)
      BY UsedAmountIs
    <2>3. Posted' = S /\ S \in SUBSET Commits
      BY <1>2, <1>3 DEF Posted
    <2>4. created' \in [Commits -> CreatedRows]
      <3>1. [created[c] EXCEPT !.status = "live"] \in CreatedRows
        BY <1>3 DEF CreatedRows
      <3> QED
        BY <1>1, <3>1
    <2>5. \A e \in Commits :
            /\ e \in S /\ CountsIn(created, scope, period, e) <=> e \in S /\ CountsIn(created', scope, period, e)
            /\ e \in S /\ CountsIn(created, scope, period, e) => created'[e].amount = created[e].amount
      <3>1. \A e \in Commits : /\ created'[e].of = created[e].of /\ created'[e].period = created[e].period
                               /\ created'[e].amount = created[e].amount /\ created'[e].rated = created[e].rated
        BY <1>2, <1>3
      <3> HIDE DEF scope, period, S
      <3> QED
        BY <3>1 DEF CountsIn
    <2> HIDE DEF scope, period, S
    <2>6. created \in [Commits -> CreatedRows] /\ S \in SUBSET Commits
      BY <1>1, <2>3
    <2>7. UsedIn(created', scope, period, S) = UsedIn(created, scope, period, S)
      BY <2>4, <2>5, <2>6, UsedIsKept
    <2> QED
      BY <2>1, <2>2, <2>3, <2>7 DEF S
  <1> QED
    BY <1>5, <1>6, <1>7

LEMMA CommitStep ==
  ASSUME HooksInv, NEW c \in Commits, Commit(c)
  PROVE  HooksInv'
  <1>1. /\ IsAt(c, "commit") /\ ~create[c].aborted /\ UNCHANGED <<budget, today, due, changes, steady>>
        /\ log' = log \cup create[c].news
        /\ created' = [created EXCEPT ![c].status = "live"]
        /\ create' = [create EXCEPT ![c] = [NoCall EXCEPT !.step = "answered"]]
        /\ lock' = [r \in DOMAIN lock |-> IF lock[r] = c THEN Free ELSE lock[r]]
    BY DEF Commit
  <1>2. CommitStands(c)
    BY <1>1, CommitStandsThen
  <1>3. /\ create \in [Commits -> CommitCalls] /\ created \in [Commits -> CreatedRows]
        /\ lock \in [Budgets \cup Goals -> Commits \cup {Free}]
        /\ log \subseteq Budgets \X Thresholds \X BudgetPeriods
    BY DEF HooksInv, HooksTypeOK
  <1>4. /\ create'[c] = [NoCall EXCEPT !.step = "answered"]
        /\ created'[c] = [created[c] EXCEPT !.status = "live"]
        /\ \A d \in Commits \ {c} : create'[d] = create[d] /\ created'[d] = created[d]
    BY <1>1, <1>3
  <1>5. create' \in [Commits -> CommitCalls] /\ created' \in [Commits -> CreatedRows]
    <2>1. [NoCall EXCEPT !.step = "answered"] \in CommitCalls
      BY RowsStart DEF CommitCalls, Steps
    <2>2. [created[c] EXCEPT !.status = "live"] \in CreatedRows
      <3>1. created[c] \in CreatedRows
        BY <1>3
      <3> QED
        BY <3>1 DEF CreatedRows
    <2> QED
      BY <1>1, <1>3, <2>1, <2>2
  <1>6. /\ lock' \in [Budgets \cup Goals -> Commits \cup {Free}]
        /\ \A r \in Budgets \cup Goals : lock'[r] # c
        /\ \A d \in Commits \ {c}, r \in Budgets \cup Goals : lock'[r] = d <=> lock[r] = d
    BY <1>1, <1>3, HooksAssumption
  <1>7. log' \subseteq Budgets \X Thresholds \X BudgetPeriods
    BY <1>1, <1>2, <1>3 DEF CommitStands
  <1>8. HooksTypeOK'
    BY <1>1, <1>2, <1>5, <1>6, <1>7, GoalRises, CommitAnnounces DEF HooksInv, HooksTypeOK
  <1>9. \A d \in Commits \ {c} : SameCall(d) /\ HookStands(d) /\ AloneStands(d)
    BY <1>4 DEF SameCall, HooksInv
  <1>10. created'[c].status = "live" /\ created[c].status = "open" /\ created'[c].of = created[c].of
    <2>1. created[c] \in CreatedRows
      BY <1>3
    <2> QED
      BY <1>2, <1>4, <2>1 DEF CreatedRows, CommitStands
  <1>11. HookStands(c)' /\ AloneStands(c)' /\ \A b \in Budgets : SteadyStands(b, c)'
    BY <1>4, <1>6, <1>10, EndedStands
  <1>12. \A g \in Goals : lock[g] # c => goal'[g] = goal[g]
    BY <1>2, GoalRises DEF CommitStands
  <1>13. ASSUME NEW d \in Commits \ {c} PROVE HookStands(d)'
    <2>1. \A n \in create[d].news : n \notin log => n \notin log'
      BY <1>1, <1>2, <1>9 DEF CommitStands, HookStands, NewsStands
    <2>2. \A g \in Goals : lock[g] = d => goal'[g].last = goal[g].last
      BY <1>12
    <2> QED
      BY <1>1, <1>4, <1>6, <1>9, <2>1, <2>2, BystanderStands DEF HooksInv
  <1>14. ASSUME NEW d \in Commits \ {c} PROVE AloneStands(d)'
    <2>1. \A e \in Open' : e \in Open /\ e # c
      BY <1>4, <1>11, EndedStands DEF Open, Finished, NoCall
    <2>2. CASE d \in Open /\ created[d].of \in Goals /\ create[d].alone
      <3>1. created[c].of # created[d].of
        BY <1>2, <1>9, <2>2 DEF AloneStands, CommitStands
      <3>2. ProgressKept(created[d].of)
        BY <1>4, <1>10, <3>1 DEF ProgressKept
      <3>3. goal'[created[d].of] = goal[created[d].of]
        BY <1>2, <2>2, <3>1, GoalRises
      <3>4. \A e \in Open' : e \in Open /\ created'[e] = created[e]
        BY <1>4, <2>1 DEF Open
      <3> QED
        BY <1>4, <1>8, <1>9, <3>2, <3>3, <3>4, BystanderIsAlone DEF HooksInv
    <2>3. CASE ~(d \in Open /\ created[d].of \in Goals /\ create[d].alone)
      BY <1>4, <2>1, <2>3 DEF AloneStands
    <2> QED
      BY <2>2, <2>3
  <1>15. LoggedBudgetsExist'
    <2>1. \A n \in create[c].news : budget[n[1]].status = "active"
      BY <1>2 DEF CommitStands
    <2> QED
      BY <1>1, <2>1 DEF HooksInv, LoggedBudgetsExist
  <1>16. ASSUME NEW b \in steady, budget[b].status = "active"
         PROVE  /\ \A t \in Thresholds :
                     <<b, t, budget[b].period>> \in log'
                     <=> Reached(UsedAmount(b, Posted)', budget[b].limit, t)
                /\ \A d \in Commits : SteadyStands(b, d)'
    <2>1. b \in Budgets /\ \A d \in Commits : SteadyStands(b, d)
      BY <1>16 DEF HooksInv, HooksTypeOK, SteadyBudgetsStand
    <2>2. \A t \in Thresholds :
            <<b, t, budget[b].period>> \in log <=> Reached(UsedAmount(b, Posted), budget[b].limit, t)
      BY <1>16 DEF HooksInv, LogMatchesUse
    <2>3. CASE lock[b] # c
      <3>1. TotalKept(b) /\ \A n \in create[c].news : n[1] # b
        BY <1>1, <1>2, <1>16, <2>3, CommitCounts
      <3>2. UsedAmount(b, Posted)' = UsedAmount(b, Posted)
        BY <1>5, <1>3, <3>1, UsedAmountKept
      <3>3. \A t \in Thresholds : <<b, t, budget[b].period>> \in log' <=> <<b, t, budget[b].period>> \in log
        BY <1>1, <3>1
      <3>4. ASSUME NEW d \in Commits \ {c} PROVE SteadyStands(b, d)'
        <4>1. SteadyStands(b, d) /\ created'[d] = created[d] /\ SameCall(d) /\ HooksTypeOK
          BY <1>4, <1>9, <2>1 DEF HooksInv
        <4>2. budget'[b].status = budget[b].status /\ budget'[b].limit = budget[b].limit
          BY <1>1
        <4>3. lock'[b] = d <=> lock[b] = d
          BY <1>6, <2>1
        <4> QED
          BY <1>8, <2>1, <3>1, <4>1, <4>2, <4>3, BystanderIsSteady
      <3> QED
        BY <1>11, <2>1, <2>2, <3>2, <3>3, <3>4
    <2>4. CASE lock[b] = c
      <3> DEFINE before == UsedAmount(b, Posted)
                 after == UsedAmount(b, Posted \cup {c})
      <3>1. /\ UsedAmount(b, Posted)' = after
            /\ {n \in create[c].news : n[1] = b} = {<<b, t, budget[b].period>> : t \in CrossedBy(c, b)}
        BY <1>1, <1>2, <1>16, <2>4, CommitCounts
      <3>2. before \in Nat /\ after \in Nat /\ before <= after
        <4>1. Posted \cup {c} \in SUBSET Commits /\ Posted \in SUBSET (Posted \cup {c})
          BY DEF Posted
        <4>2. /\ before = UsedIn(created, budget[b].scope, budget[b].period, Posted)
              /\ after = UsedIn(created, budget[b].scope, budget[b].period, Posted \cup {c})
          BY UsedAmountIs
        <4>3. Posted \in SUBSET Commits
          BY DEF Posted
        <4> QED
          BY <1>3, <4>1, <4>2, <4>3, UsedIsNatural
      <3>3. ASSUME NEW t \in Thresholds
            PROVE  <<b, t, budget[b].period>> \in log' <=> Reached(after, budget[b].limit, t)
        <4>1. <<b, t, budget[b].period>> \in create[c].news <=> t \in CrossedBy(c, b)
          BY <3>1
        <4>2. t \in CrossedBy(c, b) <=> ~Reached(before, budget[b].limit, t) /\ Reached(after, budget[b].limit, t)
          BY DEF CrossedBy, Crossing
        <4>3. Reached(before, budget[b].limit, t) => Reached(after, budget[b].limit, t)
          <5>1. budget[b].limit \in Nat
            BY <2>1, HooksAssumption DEF HooksInv, HooksTypeOK
          <5>2. t \in Nat
            BY DEF Thresholds
          <5> HIDE DEF before, after
          <5> QED
            BY <3>2, <5>1, <5>2, ReachedGrows
        <4> QED
          BY <1>1, <2>2, <4>1, <4>2, <4>3
      <3>4. ASSUME NEW d \in Commits \ {c} PROVE SteadyStands(b, d)'
        <4>1. /\ lock[b] # d /\ lock'[b] # d /\ create'[d] = create[d] /\ created'[d] = created[d]
              /\ budget' = budget /\ SteadyStands(b, d)
          BY <1>1, <1>4, <1>6, <2>1, <2>4
        <4>2. /\ (d \in Open)' <=> d \in Open
              /\ Concerns(b, d)' <=> Concerns(b, d)
              /\ IsExpense(d)' <=> IsExpense(d)
              /\ Awaits(d, b)' <=> Awaits(d, b)
          BY <4>1 DEF Open, Concerns, IsExpense, Awaits
        <4>3. ~(IsAt(d, "evaluate") /\ b = Min(create[d].held))'
          <5>1. ASSUME create[d].step = "evaluate" PROVE Min(create[d].held) # b
            <6>1. HookStands(d) /\ create[d].held \subseteq Nat
              BY <1>3, <1>9, HooksAssumption DEF CommitCalls
            <6>2. create[d].held # {} /\ \A x \in create[d].held : lock[x] = d
              BY <5>1, <6>1 DEF HookStands, QueueStands
            <6> QED
              BY <4>1, <6>1, <6>2, MinIs
          <5> QED
            BY <4>1, <5>1 DEF IsAt, Min
        <4>4. SteadyStands(b, d)!1'
          BY <4>1, <4>2 DEF SteadyStands
        <4> QED
          BY <4>1, <4>3, <4>4 DEF SteadyStands
      <3> QED
        BY <1>11, <2>1, <3>1, <3>3, <3>4
    <2> QED
      BY <2>3, <2>4
  <1>17. LogMatchesUse' /\ SteadyBudgetsStand'
    BY <1>1, <1>16 DEF LogMatchesUse, SteadyBudgetsStand
  <1> QED
    BY <1>2, <1>8, <1>11, <1>13, <1>14, <1>15, <1>17, CommitAnnounces DEF HooksInv

(***************************************************************************)
(* The theorems                                                            *)
(***************************************************************************)
LEMMA HooksInvInit == HooksInit => HooksInv
  <1> SUFFICES ASSUME HooksInit PROVE HooksInv
    OBVIOUS
  <1>1. HooksTypeOK
    BY RowsStart, HooksAssumption DEF HooksInit, HooksTypeOK, BudgetPeriods
  <1>2. /\ \A c \in Commits : create[c] = NoCall /\ created[c] = NoRow
        /\ \A r \in Budgets \cup Goals : lock[r] = Free
        /\ \A b \in Budgets : budget[b].status = "absent"
        /\ \A g \in Goals : goal[g].last = 0 /\ goal[g].completed = FALSE
        /\ log = {} /\ announced = {} /\ steady = Budgets
    BY DEF HooksInit
  <1>3. ASSUME NEW c \in Commits PROVE HookStands(c) /\ AloneStands(c)
    <2>1. /\ create[c].step = "idle" /\ create[c].todo = <<>> /\ create[c].held = {}
          /\ create[c].news = {} /\ create[c].fired = {} /\ created[c].status = "none"
          /\ \A r \in Budgets \cup Goals : lock[r] # c
      <3>1. created[c].status = "none"
        BY <1>2, RowsStart
      <3>2. \A r \in Budgets \cup Goals : lock[r] # c
        BY <1>2, HooksAssumption
      <3> QED
        BY <1>2, <3>1, <3>2 DEF NoCall
    <2>2. RowFollows(c) /\ QueueStands(c) /\ LocksStand(c) /\ NewsStands(c) /\ FiredStands(c)
      BY <2>1 DEF RowFollows, QueueStands, LocksStand, NewsStands, FiredStands, IsAt, Open, Finished,
                  ExpenseSteps, GoalSteps
    <2>3. AloneStands(c)
      BY <2>1 DEF AloneStands, Open, Finished
    <2> QED
      BY <2>2, <2>3 DEF HookStands
  <1>4. LoggedBudgetsExist /\ LogMatchesUse /\ SteadyBudgetsStand
    BY <1>2 DEF LoggedBudgetsExist, LogMatchesUse, SteadyBudgetsStand
  <1>5. AnnouncedOnce
    BY <1>2 DEF AnnouncedOnce, Milestones
  <1> QED
    BY <1>1, <1>3, <1>4, <1>5 DEF HooksInv

LEMMA CommitAbortedStep ==
  ASSUME HooksInv, NEW c \in Commits, CommitAborted(c) \/ Fail(c)
  PROVE  HooksInv'
  <1>1. CASE CommitAborted(c)
    <2>1. c \in Open /\ RollBack(c, "answered")
      BY <1>1 DEF CommitAborted, IsAt, Open, Finished
    <2> QED
      BY <2>1, RollBackStep
  <1>2. CASE Fail(c)
    BY <1>2, RollBackStep DEF Fail
  <1> QED
    BY <1>1, <1>2

LEMMA HooksInvNext == HooksInv /\ [HooksNext]_hookVars => HooksInv'
  <1> SUFFICES ASSUME HooksInv, [HooksNext]_hookVars PROVE HooksInv'
    OBVIOUS
  <1>1. ASSUME NEW c \in Commits, InsertExpense(c) PROVE HooksInv'
    BY <1>1, InsertExpenseStep
  <1>2. ASSUME NEW c \in Commits, InsertContribution(c) PROVE HooksInv'
    BY <1>2, InsertContributionStep
  <1>3. ASSUME NEW c \in Commits, DiscoverBudgets(c) PROVE HooksInv'
    BY <1>3, DiscoverStep
  <1>4. ASSUME NEW c \in Commits, LockBudget(c) PROVE HooksInv'
    BY <1>4, LockBudgetStep
  <1>5. ASSUME NEW c \in Commits, SumUsed(c) PROVE HooksInv'
    BY <1>5, SumUsedStep
  <1>6. ASSUME NEW c \in Commits, LogCrossings(c) PROVE HooksInv'
    BY <1>6, LogCrossingsStep
  <1>7. ASSUME NEW c \in Commits, CrossesAgain(c) PROVE HooksInv'
    BY <1>7, CrossesAgainStep
  <1>8. ASSUME NEW c \in Commits, ReadGoal(c) PROVE HooksInv'
    BY <1>8, ReadGoalStep
  <1>9. ASSUME NEW c \in Commits, OptimisticProgress(c) PROVE HooksInv'
    BY <1>9, OptimisticProgressStep
  <1>10. ASSUME NEW c \in Commits, LockGoal(c) PROVE HooksInv'
    BY <1>10, LockGoalStep
  <1>11. ASSUME NEW c \in Commits, EvaluateGoal(c) PROVE HooksInv'
    BY <1>11, EvaluateGoalStep
  <1>12. ASSUME NEW c \in Commits, Commit(c) PROVE HooksInv'
    BY <1>12, CommitStep
  <1>13. ASSUME NEW c \in Commits, CommitAborted(c) \/ Fail(c) PROVE HooksInv'
    BY <1>13, CommitAbortedStep
  <1>14. ASSUME NEW c \in Commits,
                DeleteTransaction(c) \/ RestoreTransaction(c) \/ EditTransaction(c) \/ IngestRate(c)
         PROVE  HooksInv'
    BY <1>14, EditorsStep
  <1>15. ASSUME NEW b \in Budgets, CreateBudget(b) \/ EditBudget(b) \/ DeleteBudget(b) PROVE HooksInv'
    BY <1>15, BudgetStep
  <1>16. ASSUME UNCHANGED hookVars \/ NextPeriod \/ FindDue \/ RolloverPeriod PROVE HooksInv'
    BY <1>16, QuietStep
  <1> QED
    BY <1>1, <1>2, <1>3, <1>4, <1>5, <1>6, <1>7, <1>8, <1>9, <1>10, <1>11, <1>12, <1>13, <1>14, <1>15, <1>16
       DEF HooksNext

\* In every state the hooks reach: the rows a call has locked, what it has read
\* and what it is about to announce agree with the rows as they are.
THEOREM HooksStand == HooksSpec => []HooksInv
  BY HooksInvInit, HooksInvNext, PTL DEF HooksSpec

\* evaluateBudgetThresholdsOnExpenseCommit and its counterpart for goals: what
\* the log and the goal say has been told is what the committed totals call
\* for, and no threshold or milestone is told twice.
THEOREM CrossingsStayToldOnce == HooksSpec => []CrossingsAreToldOnce
  <1>1. HooksInv => CrossingsAreToldOnce
    BY DEF HooksInv, CrossingsAreToldOnce
  <1> QED
    BY <1>1, HooksStand, PTL

\* Who waits for a budget waits at "lock", for someone whose next budget is a
\* later one; who waits for a goal, for someone who waits for nobody.
LEMMA WaitsForLater ==
  ASSUME HooksInv, NEW c \in Commits, NEW d \in Commits, NEW e \in Commits, WaitsFor(c, d), WaitsFor(d, e)
  PROVE  /\ Head(create[c].todo) \in Budgets /\ Head(create[d].todo) \in Budgets
         /\ Head(create[c].todo) < Head(create[d].todo)
  <1>1. /\ HookStands(c) /\ HookStands(d) /\ create[c] \in CommitCalls /\ create[d] \in CommitCalls
        /\ create[d].step \in {"lock", "lockGoal"}
    BY DEF HooksInv, HooksTypeOK, WaitsFor, IsAt
  <1>2. ~IsAt(c, "lockGoal")
    <2>1. SUFFICES ASSUME IsAt(c, "lockGoal") PROVE FALSE
      OBVIOUS
    <2>2. created[c].of \in Goals /\ lock[created[c].of] = d
      BY <1>1, <2>1 DEF HookStands, RowFollows, GoalSteps, IsAt, WaitsFor
    <2> QED
      BY <1>1, <2>2 DEF HookStands, LocksStand
  <1>3. /\ create[c].step = "lock" /\ create[c].todo # <<>> /\ create[c].todo \in Seq(Budgets)
        /\ lock[Head(create[c].todo)] = d
    BY <1>1, <1>2 DEF WaitsFor, IsAt, HookStands, QueueStands, CommitCalls
  <1>4. Head(create[c].todo) \in Budgets
    BY <1>3
  <1>5. create[d].step = "lock"
    BY <1>1, <1>3, <1>4 DEF HookStands, LocksStand
  <1>6. /\ create[d].todo # <<>> /\ create[d].todo \in Seq(Budgets)
        /\ Head(create[c].todo) \in create[d].held
        /\ \A b \in create[d].held, i \in DOMAIN create[d].todo : b < create[d].todo[i]
    BY <1>1, <1>3, <1>4, <1>5 DEF HookStands, QueueStands, CommitCalls, IsAt
  <1>7. /\ 1 \in DOMAIN create[d].todo /\ create[d].todo[1] = Head(create[d].todo)
        /\ Head(create[d].todo) \in Budgets
    BY <1>6
  <1> QED
    BY <1>4, <1>6, <1>7

\* The locks of the two hooks are taken in an order that cannot become a
\* circle: of any commits, one waits for none of the others.
THEOREM LocksStayOrdered == HooksSpec => []LocksNeverCross
  <1>1. HooksInv => LocksNeverCross
    <2> SUFFICES ASSUME HooksInv, NEW S \in (SUBSET Commits) \ {{}}
                 PROVE  \E c \in S : \A d \in S : ~WaitsFor(c, d)
      BY DEF LocksNeverCross
    <2> SUFFICES ASSUME \A c \in S : \E d \in S : WaitsFor(c, d)
                 PROVE  FALSE
      OBVIOUS
    <2> DEFINE next(c) == Head(create[c].todo)
               heads == {next(c) : c \in S}
    <2>1. \A c \in S : next(c) \in Budgets /\ \E d \in S : next(c) < next(d)
      <3>1. ASSUME NEW c \in S PROVE next(c) \in Budgets /\ \E d \in S : next(c) < next(d)
        <4>1. PICK d \in S : WaitsFor(c, d)
          OBVIOUS
        <4>2. PICK e \in S : WaitsFor(d, e)
          OBVIOUS
        <4> QED
          BY <4>1, <4>2, WaitsForLater
      <3> QED
        BY <3>1
    <2>2. heads \subseteq Nat /\ heads # {} /\ IsFiniteSet(heads)
      <3>1. heads \subseteq Budgets /\ heads # {}
        <4>1. \E c : c \in S
          OBVIOUS
        <4> HIDE DEF next
        <4> QED
          BY <2>1, <4>1
      <3>2. Budgets \subseteq Nat /\ IsFiniteSet(Budgets)
        BY HooksAssumption
      <3> HIDE DEF heads
      <3>3. IsFiniteSet(heads)
        BY <3>1, <3>2, FS_Subset
      <3> QED
        BY <3>1, <3>2, <3>3
    <2>3. PICK n \in heads : \A m \in heads : m <= n
      <3> HIDE DEF heads
      <3> QED
        BY <2>2, GreatestNatural
    <2>4. PICK c \in S : n = next(c)
      BY <2>3
    <2>5. PICK d \in S : next(c) < next(d)
      BY <2>1
    <2>6. next(d) <= next(c) /\ next(c) \in Nat /\ next(d) \in Nat
      BY <2>2, <2>3, <2>4
    <2> HIDE DEF next
    <2> QED
      BY <2>5, <2>6
  <1> QED
    BY <1>1, HooksStand, PTL

\* Only its own commit makes the row of a call live.
LEMMA OnlyCommitPosts ==
  ASSUME HooksInv, [HooksNext]_hookVars, NEW c \in Commits,
         created[c].status = "open", created'[c].status = "live"
  PROVE  Commit(c)
  <1>0. created \in [Commits -> CreatedRows] /\ created' # created
    BY DEF HooksInv, HooksTypeOK
  <1>1. ASSUME NEW d \in Commits,
               \/ DiscoverBudgets(d) \/ LockBudget(d) \/ SumUsed(d) \/ LogCrossings(d)
               \/ ReadGoal(d) \/ OptimisticProgress(d) \/ LockGoal(d) \/ EvaluateGoal(d)
        PROVE  FALSE
    BY <1>0, <1>1 DEF DiscoverBudgets, LockBudget, SumUsed, LogCrossings, ReadGoal, OptimisticProgress,
                      LockGoal, EvaluateGoal
  <1>2. ASSUME NEW d \in Commits, NEW step, RollBack(d, step) PROVE FALSE
    BY <1>0, <1>2, RowsStart DEF RollBack
  <1>3. ASSUME NEW d \in Commits, CrossesAgain(d) \/ CommitAborted(d) \/ Fail(d) PROVE FALSE
    BY <1>0, <1>2, <1>3 DEF CrossesAgain, CommitAborted, Fail
  <1>4. ASSUME NEW d \in Commits, InsertExpense(d) \/ InsertContribution(d) PROVE FALSE
    <2>1. \E l, a, p, rated : Insert(d, l, a, p, rated)
      BY <1>4 DEF InsertExpense, InsertContribution
    <2>2. PICK l, a, p, rated : Insert(d, l, a, p, rated)
      BY <2>1
    <2>3. created' = [created EXCEPT ![d] = [status |-> "open", of |-> l, amount |-> a,
                                             period |-> p, rated |-> rated]]
      BY <2>2 DEF Insert
    <2>4. created'[c] = created[c] \/ created'[c].status = "open"
      BY <1>0, <2>3
    <2> QED
      BY <2>4
  <1>5. ASSUME NEW d \in Commits, Commit(d), d # c PROVE FALSE
    BY <1>0, <1>5 DEF Commit
  <1>6. ASSUME NEW d \in Commits, NEW new, created[d].status \in {"live", "deleted"}, ChangeRow(d, new)
        PROVE  FALSE
    BY <1>0, <1>6 DEF ChangeRow
  <1>7. ASSUME NEW d \in Commits,
               DeleteTransaction(d) \/ RestoreTransaction(d) \/ EditTransaction(d) \/ IngestRate(d)
        PROVE  FALSE
    <2>1. \E new : created[d].status \in {"live", "deleted"} /\ ChangeRow(d, new)
      <3>1. CASE DeleteTransaction(d) \/ RestoreTransaction(d) \/ IngestRate(d)
        BY <3>1 DEF DeleteTransaction, RestoreTransaction, IngestRate
      <3>2. CASE EditTransaction(d)
        BY <3>2 DEF EditTransaction
      <3> QED
        BY <1>7, <3>1, <3>2
    <2> QED
      BY <1>6, <2>1
  <1>8. ASSUME NEW b \in Budgets, CreateBudget(b) \/ EditBudget(b) \/ DeleteBudget(b) PROVE FALSE
    BY <1>0, <1>8 DEF CreateBudget, EditBudget, DeleteBudget
  <1>9. ASSUME UNCHANGED hookVars \/ NextPeriod \/ FindDue \/ RolloverPeriod PROVE FALSE
    BY <1>0, <1>9 DEF hookVars, NextPeriod, FindDue, RolloverPeriod
  <1> QED
    BY <1>1, <1>3, <1>4, <1>5, <1>7, <1>8, <1>9 DEF HooksNext

\* evaluateSavingsGoalProgressOnContributionCommit: the commit of a lone
\* contribution leaves no milestone behind that the goal's total has reached.
THEOREM LoneContributionsCatchUp == HooksSpec => LoneContributionCatchesUp
  <1>1. ASSUME HooksInv, [HooksNext]_hookVars, NEW c \in Commits,
               created[c].status = "open", created'[c].status = "live", ~IsExpense(c), create[c].alone,
               ~ProgressUnavailable(created[c].of, Posted \cup {c})
        PROVE  NewlyCrossed(goal'[created[c].of].last, created[c].of, Posted \cup {c}) = {}
    <2> DEFINE g == created[c].of
               fired == create[c].fired
               reached == {m \in Milestones : Reached(GivenIn(created, g, Posted \cup {c}), Target, m)}
    <2>1. Commit(c) /\ IsAt(c, "commit")
      BY <1>1, OnlyCommitPosts DEF Commit
    <2>2. CommitStands(c)
      BY <1>1, <2>1, CommitStandsThen
    <2>3. g \in Goals
      BY <1>1 DEF HooksInv, HooksTypeOK, CreatedRows, IsExpense
    <2>4. fired = {m \in reached : m > goal[g].last}
      <3>1. fired = NewlyCrossed(goal[g].last, g, Posted \cup {c})
        BY <1>1, <2>1, <2>2, <2>3 DEF HooksInv, AloneStands, CommitStands
      <3> QED
        BY <3>1, NewlyCrossedIs
    <2>5. NewlyCrossed(goal'[g].last, g, Posted \cup {c}) = {m \in reached : m > goal'[g].last}
      BY NewlyCrossedIs
    <2>6. /\ goal[g].last \in Milestones \cup {0} /\ goal'[g].last \in Milestones \cup {0}
          /\ fired = {} => goal'[g] = goal[g]
          /\ fired # {} => goal'[g].last \in fired /\ \A m \in fired : m <= goal'[g].last
      BY <1>1, <2>1, <2>2, <2>3, GoalRises DEF HooksInv, HooksTypeOK
    <2>7. reached \subseteq Milestones
      OBVIOUS
    <2> HIDE DEF g, fired, reached
    <2>8. {m \in reached : m > goal'[g].last} = {}
      <3>1. CASE fired = {}
        BY <2>4, <2>6, <3>1
      <3>2. CASE fired # {}
        <4>1. ASSUME NEW m \in reached, m > goal'[g].last PROVE FALSE
          <5>1. m \in Milestones /\ goal'[g].last > goal[g].last
            BY <2>4, <2>6, <2>7, <3>2
          <5>2. m > goal[g].last
            BY <2>6, <4>1, <5>1 DEF Milestones
          <5>3. m <= goal'[g].last
            BY <2>4, <2>6, <3>2, <5>2
          <5> QED
            BY <2>6, <4>1, <5>1, <5>3 DEF Milestones
        <4> QED
          BY <4>1
      <3> QED
        BY <3>1, <3>2
    <2> QED
      BY <2>5, <2>8 DEF g
  <1>2. HooksInv /\ [HooksNext]_hookVars =>
          [\A c \in Commits :
             LET g == created[c].of IN
             /\ created[c].status = "open" /\ created'[c].status = "live"
             /\ ~IsExpense(c) /\ create[c].alone
             /\ ~ProgressUnavailable(g, Posted \cup {c})
             => NewlyCrossed(goal'[g].last, g, Posted \cup {c}) = {}]_hookVars
    BY <1>1
  <1> QED
    BY <1>2, HooksStand, PTL DEF HooksSpec, LoneContributionCatchesUp

(***************************************************************************)
(* The cached totals                                                       *)
(***************************************************************************)
\* A copy that has heard of every change is right, unless an event is on its way.
CopyStands(copy, p) == copy.missed = {} /\ ~Awaiting(p) => copy.value = Totals(p)

CopiesStand ==
  /\ \A p \in Periods : cache[p].cached => CopyStands(cache[p], p)
  /\ \A r \in Readers : reader[r].step = "computed" => CopyStands(reader[r].copy, reader[r].period)

CacheInv ==
  /\ CacheTypeOK
  /\ \A e \in Editors : editor[e].step = "dated" => editor[e].value \in ValuesOf(editor[e].field)
  /\ CopiesStand

\* Every copy that is left is one there was, and those of the periods ps are marked.
Marks(ps) ==
  /\ \A p \in Periods : cache'[p].cached =>
       /\ cache[p].cached /\ cache'[p].value = cache[p].value
       /\ cache'[p].missed = {} => cache[p].missed = {} /\ p \notin ps
  /\ \A r \in Readers : reader'[r].step = "computed" =>
       /\ reader[r].step = "computed" /\ reader'[r].period = reader[r].period
       /\ reader'[r].copy.value = reader[r].copy.value
       /\ reader'[r].copy.missed = {} => reader[r].copy.missed = {} /\ reader[r].period \notin ps

LEMMA MissesMark ==
  ASSUME CacheTypeOK, NEW ps \in SUBSET Periods, NEW reason \in Reasons, Misses(ps, reason)
  PROVE  Marks(ps) /\ cache' \in [Periods -> Copies] /\ reader' \in [Readers -> ReaderStates]
  <1>1. cache \in [Periods -> Copies] /\ reader \in [Readers -> ReaderStates]
    BY DEF CacheTypeOK
  <1>2. ASSUME NEW p \in Periods
        PROVE  /\ cache'[p] \in Copies
               /\ cache'[p].cached = cache[p].cached /\ cache'[p].value = cache[p].value
               /\ cache'[p].missed = {} /\ cache[p].cached => cache[p].missed = {} /\ p \notin ps
    <2>1. cache[p] \in Copies
      BY <1>1
    <2>2. cache'[p] = IF p \in ps /\ cache[p].cached
                      THEN [cache[p] EXCEPT !.missed = @ \cup {reason}] ELSE cache[p]
      BY DEF Misses
    <2> QED
      BY <2>1, <2>2 DEF Copies
  <1>3. ASSUME NEW r \in Readers
        PROVE  /\ reader'[r] \in ReaderStates
               /\ reader'[r].step = reader[r].step /\ reader'[r].period = reader[r].period
               /\ reader'[r].copy.value = reader[r].copy.value
               /\ reader'[r].copy.missed = {} /\ reader[r].step = "computed" =>
                    reader[r].copy.missed = {} /\ reader[r].period \notin ps
    <2>1. reader[r] \in ReaderStates
      BY <1>1
    <2>2. reader'[r] = IF \E p \in ps : InFlight(r, p)
                       THEN [reader[r] EXCEPT !.copy.missed = @ \cup {reason}] ELSE reader[r]
      BY DEF Misses
    <2> QED
      BY <2>1, <2>2 DEF ReaderStates, Copies, InFlight
  <1>4. cache' \in [Periods -> Copies]
    BY <1>2 DEF Misses
  <1>5. reader' \in [Readers -> ReaderStates]
    BY <1>3 DEF Misses
  <1> QED
    BY <1>2, <1>3, <1>4, <1>5 DEF Marks

\* Whatever is not marked or about to be deleted has kept its total.
LEMMA MarkedCopiesStand ==
  ASSUME CopiesStand, NEW ps, Marks(ps), reader \in [Readers -> ReaderStates],
         \A p \in Periods \ ps : Awaiting(p)' \/ (~Awaiting(p) /\ Totals(p)' = Totals(p))
  PROVE  CopiesStand'
  <1>1. ASSUME NEW p \in Periods, cache'[p].cached PROVE CopyStands(cache[p], p)'
    <2>1. CopyStands(cache[p], p)
      BY <1>1 DEF CopiesStand, Marks
    <2> QED
      BY <1>1, <2>1 DEF CopyStands, Marks
  <1>2. ASSUME NEW r \in Readers, reader'[r].step = "computed"
        PROVE  CopyStands(reader[r].copy, reader[r].period)'
    <2> DEFINE q == reader[r].period
    <2>1. CopyStands(reader[r].copy, q) /\ reader[r].step = "computed"
      BY <1>2 DEF CopiesStand, Marks
    <2>2. q \in Periods
      BY DEF ReaderStates
    <2>3. /\ reader'[r].period = q /\ reader'[r].copy.value = reader[r].copy.value
          /\ reader'[r].copy.missed = {} => reader[r].copy.missed = {} /\ q \notin ps
      BY <1>2 DEF Marks
    <2>4. \A p : p = q =>
            (CopyStands(reader[r].copy, p)' <=> (reader'[r].copy.missed = {} /\ ~Awaiting(p)' =>
               reader'[r].copy.value = Totals(p)'))
      BY DEF CopyStands
    <2>5. ASSUME NEW p \in Periods, p = q
          PROVE  reader'[r].copy.missed = {} /\ ~Awaiting(p)' => reader'[r].copy.value = Totals(p)'
      BY <2>1, <2>3, <2>5 DEF CopyStands
    <2>6. q' = q
      BY <2>3
    <2> QED
      BY <2>2, <2>5, <2>6 DEF CopyStands
  <1> QED
    BY <1>1, <1>2 DEF CopiesStand

\* One row is written: a period it was or is in awaits its events, or is marked.
LEMMA WriteStands ==
  ASSUME CacheInv, NEW t \in Txns, NEW new \in TransactionRows, NEW events \in Seq(DomainEvents),
         Write(t, new, events), NEW ps, Marks(ps),
         cache' \in [Periods -> Copies], reader' \in [Readers -> ReaderStates],
         \A p \in Periods \ ps :
           \/ \E i \in DOMAIN events : p \in Affected(events[i])
           \/ /\ ~(Live(t) /\ p \in PeriodsOf[row[t].date])
              /\ ~(new.state = "live" /\ p \in PeriodsOf[new.date])
  PROVE  StoreTypeOK' /\ CopiesStand'
  <1>1. /\ row \in [Txns -> TransactionRows] /\ emitted \in Seq(DomainEvents)
        /\ writes \in 0..MaxWrites /\ writes < MaxWrites /\ writes' = writes + 1
        /\ row' = [row EXCEPT ![t] = new] /\ latest' = {t} /\ emitted' = emitted \o events
    BY DEF CacheInv, CacheTypeOK, StoreTypeOK, Write
  <1>2. StoreTypeOK'
    <2>1. Cardinality({t}) = 1
      BY FS_Singleton
    <2> QED
      BY <1>1, <2>1, StoreAssumption DEF StoreTypeOK
  <1>3. row'[t] = new /\ \A u \in Txns \ {t} : row'[u] = row[u]
    BY <1>1
  <1>4. /\ \A i \in 1..Len(emitted) : i \in 1..Len(emitted') /\ emitted'[i] = emitted[i]
        /\ \A i \in DOMAIN events :
             Len(emitted) + i \in 1..Len(emitted') /\ emitted'[Len(emitted) + i] = events[i]
    BY <1>1
  <1>5. \A p : Awaiting(p) => Awaiting(p)'
    BY <1>4 DEF Awaiting, Affected
  <1>6. \A p : (\E i \in DOMAIN events : p \in Affected(events[i])) => Awaiting(p)'
    BY <1>4 DEF Awaiting, Affected
  <1>7. ASSUME NEW p, ~(Live(t) /\ p \in PeriodsOf[row[t].date]),
               ~(new.state = "live" /\ p \in PeriodsOf[new.date])
        PROVE  Totals(p)' = Totals(p)
    <2>1. \A u \in Txns : /\ (Live(u)' /\ p \in PeriodsOf[row'[u].date])
                              <=> (Live(u) /\ p \in PeriodsOf[row[u].date])
                          /\ Live(u) /\ p \in PeriodsOf[row[u].date] => row'[u] = row[u]
      BY <1>3, <1>7 DEF Live
    <2> DEFINE counted == {u \in Txns : Live(u) /\ p \in PeriodsOf[row[u].date]}
    <2>2. counted = {u \in Txns : Live(u) /\ p \in PeriodsOf[row[u].date]}'
      BY <2>1
    <2>3. Totals(p) = {<<u, row[u].amount>> : u \in counted}
      BY DEF Totals
    <2>4. Totals(p)' = {<<u, row'[u].amount>> : u \in counted}
      BY <2>2 DEF Totals
    <2>5. \A u \in counted : row'[u] = row[u]
      BY <2>1
    <2> HIDE DEF counted
    <2> QED
      BY <2>3, <2>4, <2>5
  <1>8. CopiesStand'
    <2>1. \A p \in Periods \ ps : Awaiting(p)' \/ (~Awaiting(p) /\ Totals(p)' = Totals(p))
      BY <1>5, <1>6, <1>7
    <2> QED
      BY <2>1, MarkedCopiesStand DEF CacheInv, CacheTypeOK
  <1> QED
    BY <1>2, <1>8

LEMMA NothingMarked ==
  ASSUME CacheTypeOK, UNCHANGED <<cache, reader>>
  PROVE  Marks({}) /\ cache' \in [Periods -> Copies] /\ reader' \in [Readers -> ReaderStates]
  BY DEF Marks, CacheTypeOK

LEMMA PeriodsAre == \A d \in Dates : PeriodsOf[d] \in SUBSET Periods
  BY CacheAssumption

LEMMA IdlesAre == IdleReader \in ReaderStates /\ IdleEditor \in EditorStates
  <1>1. /\ (CHOOSE p \in Periods : TRUE) \in Periods /\ (CHOOSE t \in Txns : TRUE) \in Txns
        /\ (CHOOSE d \in Dates : TRUE) \in Dates
    BY CacheAssumption, StoreAssumption
  <1>2. IdleReader \in ReaderStates
    <2>1. NoCopy \in Copies
      BY DEF NoCopy, Copies, Values
    <2> HIDE DEF NoCopy
    <2> QED
      BY <1>1, <2>1 DEF IdleReader, ReaderStates
  <1>3. IdleEditor \in EditorStates
    BY <1>1 DEF IdleEditor, EditorStates, Fields
  <1> QED
    BY <1>2, <1>3

LEMMA WritersStand ==
  ASSUME CacheInv,
         \/ \E t \in Txns, d \in Dates, a \in Amounts : Create(t, d, a)
         \/ \E t \in Txns : Delete(t) \/ Restore(t)
  PROVE  CacheInv'
  <1>1. row \in [Txns -> TransactionRows]
    BY DEF CacheInv, CacheTypeOK, StoreTypeOK
  <1>2. CASE \E t \in Txns, d \in Dates, a \in Amounts : Create(t, d, a)
    <2>1. PICK t \in Txns, d \in Dates, a \in Amounts : Create(t, d, a)
      BY <1>2
    <2> DEFINE new == [state |-> "live", date |-> d, amount |-> a, untouched |-> TRUE]
               event == [type |-> "TransactionCommitted", txn |-> t, from |-> d, to |-> d]
    <2>2. /\ row[t].state = "absent" /\ Write(t, new, <<event>>) /\ UNCHANGED <<cache, reader, editor>>
      BY <2>1 DEF Create, CreateRow
    <2>3. new \in TransactionRows /\ event \in DomainEvents /\ new.date = d /\ event.from = d
      BY DEF TransactionRows, DomainEvents, EventTypes
    <2> HIDE DEF new, event
    <2>4. /\ <<event>> \in Seq(DomainEvents)
          /\ \A p \in PeriodsOf[d] : \E i \in DOMAIN <<event>> : p \in Affected(<<event>>[i])
      BY <2>3 DEF Affected
    <2>5. StoreTypeOK' /\ CopiesStand'
      <3>1. ~Live(t)
        BY <2>2 DEF Live
      <3>2. Marks({}) /\ cache' \in [Periods -> Copies] /\ reader' \in [Readers -> ReaderStates]
        BY <2>2, NothingMarked DEF CacheInv
      <3>3. \A p \in Periods \ {} :
              \/ \E i \in DOMAIN <<event>> : p \in Affected(<<event>>[i])
              \/ ~(Live(t) /\ p \in PeriodsOf[row[t].date]) /\ ~(new.state = "live" /\ p \in PeriodsOf[new.date])
        BY <2>3, <2>4, <3>1
      <3> QED
        BY <2>2, <2>3, <2>4, <3>2, <3>3, WriteStands
    <2> QED
      BY <2>2, <2>5 DEF CacheInv, CacheTypeOK
  <1>3. CASE \E t \in Txns : Delete(t)
    <2>1. PICK t \in Txns : Delete(t)
      BY <1>3
    <2> DEFINE new == [row[t] EXCEPT !.state = "deleted", !.untouched = FALSE]
               event == [type |-> "TransactionDeleted", txn |-> t, from |-> row[t].date, to |-> row[t].date]
    <2>2. Write(t, new, <<event>>) /\ UNCHANGED <<cache, reader, editor>>
      BY <2>1 DEF Delete, SoftDeleteRow
    <2>3. /\ new \in TransactionRows /\ event \in DomainEvents /\ new.state = "deleted"
          /\ event.from = row[t].date
      BY <1>1 DEF TransactionRows, DomainEvents, EventTypes
    <2> HIDE DEF new, event
    <2>4. /\ <<event>> \in Seq(DomainEvents)
          /\ \A p \in PeriodsOf[row[t].date] : \E i \in DOMAIN <<event>> : p \in Affected(<<event>>[i])
      BY <2>3 DEF Affected
    <2>5. StoreTypeOK' /\ CopiesStand'
      BY <2>2, <2>3, <2>4, NothingMarked, WriteStands DEF CacheInv
    <2> QED
      BY <2>2, <2>5 DEF CacheInv, CacheTypeOK
  <1>4. CASE \E t \in Txns : Restore(t)
    <2>1. PICK t \in Txns : Restore(t)
      BY <1>4
    <2> DEFINE new == [row[t] EXCEPT !.state = "live", !.untouched = FALSE]
    <2>2. /\ Write(t, new, <<>>) /\ Misses(PeriodsOf[row[t].date], "restored") /\ UNCHANGED editor
      BY <2>1 DEF Restore, RestoreRow
    <2>3. new \in TransactionRows /\ new.date = row[t].date /\ row[t].date \in Dates
      BY <1>1 DEF TransactionRows
    <2> HIDE DEF new
    <2>4. PeriodsOf[row[t].date] \in SUBSET Periods /\ "restored" \in Reasons /\ <<>> \in Seq(DomainEvents)
      BY <2>3, PeriodsAre DEF Reasons
    <2>5. /\ Marks(PeriodsOf[row[t].date])
          /\ cache' \in [Periods -> Copies] /\ reader' \in [Readers -> ReaderStates]
      BY <2>2, <2>4, MissesMark DEF CacheInv
    <2>6. \A p \in Periods \ PeriodsOf[row[t].date] :
            ~(Live(t) /\ p \in PeriodsOf[row[t].date]) /\ ~(new.state = "live" /\ p \in PeriodsOf[new.date])
      BY <2>3
    <2>7. StoreTypeOK' /\ CopiesStand'
      <3>1. ASSUME NEW ps, ps = PeriodsOf[row[t].date] PROVE StoreTypeOK' /\ CopiesStand'
        <4>1. /\ Marks(ps)
              /\ \A p \in Periods \ ps :
                   \/ \E i \in DOMAIN <<>> : p \in Affected(<<>>[i])
                   \/ /\ ~(Live(t) /\ p \in PeriodsOf[row[t].date])
                      /\ ~(new.state = "live" /\ p \in PeriodsOf[new.date])
          BY <2>5, <2>6, <3>1
        <4> QED
          BY <2>2, <2>3, <2>4, <2>5, <4>1, WriteStands
      <3> QED
        BY <3>1
    <2> QED
      BY <2>2, <2>5, <2>7 DEF CacheInv, CacheTypeOK
  <1> QED
    BY <1>2, <1>3, <1>4

LEMMA EditWritesStands ==
  ASSUME CacheInv, NEW e \in Editors, EditWrites(e)
  PROVE  CacheInv'
  <1> DEFINE t == editor[e].txn
             field == editor[e].field
             value == editor[e].value
             new == [row[t] EXCEPT ![field] = value, !.untouched = FALSE]
             event == [type |-> "TransactionEdited", txn |-> t, from |-> editor[e].previous, to |-> new.date]
             ps == IF row[t].date = editor[e].previous THEN {} ELSE PeriodsOf[row[t].date]
  <1>1. /\ row \in [Txns -> TransactionRows] /\ editor \in [Editors -> EditorStates]
        /\ editor[e].step = "dated" /\ value \in ValuesOf(field)
    BY DEF CacheInv, CacheTypeOK, StoreTypeOK, EditWrites
  <1>2. t \in Txns /\ field \in Fields /\ editor[e].previous \in Dates /\ row[t] \in TransactionRows
    BY <1>1 DEF EditorStates
  <1>3. new \in TransactionRows
    <2>1. CASE field = "date"
      BY <1>1, <1>2, <2>1 DEF TransactionRows, ValuesOf
    <2>2. CASE field = "amount"
      BY <1>1, <1>2, <2>2 DEF TransactionRows, ValuesOf
    <2> QED
      BY <1>2, <2>1, <2>2 DEF Fields
  <1>4. /\ Write(t, new, <<event>>) /\ editor' = [editor EXCEPT ![e] = IdleEditor]
        /\ IF row[t].date = editor[e].previous THEN UNCHANGED <<cache, reader>>
           ELSE Misses(PeriodsOf[row[t].date], "misdated")
    BY DEF EditWrites, UpdateRow
  <1> HIDE DEF new
  <1>5. event \in DomainEvents /\ event.from = editor[e].previous /\ event.to = new.date
    BY <1>2, <1>3 DEF TransactionRows, DomainEvents, EventTypes
  <1> HIDE DEF event
  <1>6. Marks(ps) /\ cache' \in [Periods -> Copies] /\ reader' \in [Readers -> ReaderStates]
    <2>1. CASE row[t].date = editor[e].previous
      BY <1>4, <2>1, NothingMarked DEF CacheInv
    <2>2. CASE row[t].date # editor[e].previous
      <3>1. PeriodsOf[row[t].date] \in SUBSET Periods /\ "misdated" \in Reasons
        BY <1>2, PeriodsAre DEF TransactionRows, Reasons
      <3> QED
        BY <1>4, <2>2, <3>1, MissesMark DEF CacheInv
    <2> QED
      BY <2>1, <2>2
  <1>7. /\ <<event>> \in Seq(DomainEvents)
        /\ \A p \in Periods \ ps :
             \/ \E i \in DOMAIN <<event>> : p \in Affected(<<event>>[i])
             \/ p \notin PeriodsOf[row[t].date] /\ p \notin PeriodsOf[new.date]
    BY <1>5 DEF Affected
  <1> HIDE DEF ps
  <1>8. StoreTypeOK' /\ CopiesStand'
    <2> HIDE DEF t
    <2> QED
      BY <1>2, <1>3, <1>4, <1>6, <1>7, WriteStands
  <1>9. editor' \in [Editors -> EditorStates] /\ \A f \in Editors : f # e => editor'[f] = editor[f]
    BY <1>1, <1>4, IdlesAre
  <1>10. editor'[e].step = "idle"
    BY <1>1, <1>4 DEF IdleEditor
  <1> QED
    BY <1>6, <1>8, <1>9, <1>10 DEF CacheInv, CacheTypeOK

\* Invalidated marks the copies on their way and forgets the stored ones.
LEMMA InvalidatedMarks ==
  ASSUME CacheTypeOK, NEW ps, Invalidated(ps)
  PROVE  Marks(ps) /\ cache' \in [Periods -> Copies] /\ reader' \in [Readers -> ReaderStates]
  <1>1. cache \in [Periods -> Copies] /\ reader \in [Readers -> ReaderStates]
    BY DEF CacheTypeOK
  <1>2. NoCopy \in Copies /\ ~NoCopy.cached
    BY DEF NoCopy, Copies, Values
  <1>3. cache' \in [Periods -> Copies]
    <2> HIDE DEF NoCopy
    <2> QED
      BY <1>1, <1>2 DEF Invalidated
  <1>4. \A p \in Periods : cache'[p].cached => p \notin ps /\ cache'[p] = cache[p]
    <2> HIDE DEF NoCopy
    <2> QED
      BY <1>2 DEF Invalidated
  <1>5. ASSUME NEW r \in Readers
        PROVE  /\ reader'[r] \in ReaderStates
               /\ reader'[r].step = reader[r].step /\ reader'[r].period = reader[r].period
               /\ reader'[r].copy.value = reader[r].copy.value
               /\ reader'[r].copy.missed = {} /\ reader[r].step = "computed" =>
                    reader[r].copy.missed = {} /\ reader[r].period \notin ps
    <2>1. reader[r] \in ReaderStates
      BY <1>1
    <2>2. reader'[r] = IF \E p \in ps : InFlight(r, p)
                       THEN [reader[r] EXCEPT !.copy.missed = @ \cup {"overtaken"}] ELSE reader[r]
      BY DEF Invalidated
    <2> QED
      BY <2>1, <2>2 DEF ReaderStates, Copies, InFlight, Reasons
  <1>6. reader' \in [Readers -> ReaderStates]
    BY <1>5 DEF Invalidated
  <1> QED
    BY <1>3, <1>4, <1>5, <1>6 DEF Marks

\* Every other event is still there when one is taken out.
LEMMA OthersRemain ==
  ASSUME NEW s \in Seq(DomainEvents), NEW i \in 1..Len(s)
  PROVE  /\ Without(s, i) \in Seq(DomainEvents)
         /\ \A j \in 1..Len(s) : j # i =>
              \E k \in 1..Len(Without(s, i)) : Without(s, i)[k] = s[j]
         /\ \A k \in 1..Len(Without(s, i)) : \E j \in 1..Len(s) : Without(s, i)[k] = s[j]
  <1> DEFINE a == SubSeq(s, 1, i - 1)
             b == SubSeq(s, i + 1, Len(s))
  <1>1. /\ a \in Seq(DomainEvents) /\ Len(a) = i - 1 /\ \A k \in 1..(i - 1) : a[k] = s[k]
        /\ b \in Seq(DomainEvents) /\ Len(b) = Len(s) - i /\ \A k \in 1..(Len(s) - i) : b[k] = s[k + i]
    OBVIOUS
  <1>2. Without(s, i) = a \o b
    BY DEF Without
  <1> HIDE DEF a, b
  <1> DEFINE w == a \o b
  <1>3. /\ w \in Seq(DomainEvents) /\ Len(w) = Len(s) - 1
        /\ \A k \in 1..(i - 1) : w[k] = s[k]
        /\ \A k \in i..(Len(s) - 1) : w[k] = s[k + 1]
    <2>1. /\ w \in Seq(DomainEvents) /\ Len(w) = Len(s) - 1
          /\ \A k \in 1..(i - 1) : w[k] = a[k]
          /\ \A k \in i..(Len(s) - 1) : w[k] = b[k - (i - 1)]
      <3>1. w \in Seq(DomainEvents) /\ Len(w) = Len(s) - 1
        <4>1. w \in Seq(DomainEvents) /\ Len(w) = Len(a) + Len(b)
          <5>1. \A S : \A x, y \in Seq(S) : x \o y \in Seq(S) /\ Len(x \o y) = Len(x) + Len(y)
            OBVIOUS
          <5> QED
            BY <1>1, <5>1
        <4>2. Len(a) + Len(b) = Len(s) - 1
          BY <1>1
        <4> QED
          BY <4>1, <4>2
      <3>2. ASSUME NEW k \in 1..(i - 1) PROVE w[k] = a[k]
        BY <1>1, <3>2
      <3>3. ASSUME NEW k \in i..(Len(s) - 1) PROVE w[k] = b[k - (i - 1)]
        <4>1. k \in 1..(Len(a) + Len(b)) /\ k > Len(a) /\ k - Len(a) = k - (i - 1)
          BY <1>1, <3>3
        <4> QED
          BY <1>1, <4>1
      <3> QED
        BY <3>1, <3>2, <3>3
    <2> HIDE DEF w
    <2>2. ASSUME NEW k \in i..(Len(s) - 1) PROVE w[k] = s[k + 1]
      <3>1. k - (i - 1) \in 1..(Len(s) - i) /\ (k - (i - 1)) + i = k + 1
        OBVIOUS
      <3> QED
        BY <1>1, <2>1, <3>1
    <2> QED
      BY <1>1, <2>1, <2>2
  <1> HIDE DEF w
  <1>4. ASSUME NEW j \in 1..Len(s), j # i PROVE \E k \in 1..Len(w) : w[k] = s[j]
    <2>1. CASE j < i
      BY <1>3, <2>1
    <2>2. CASE j > i
      <3>1. PICK k \in i..(Len(s) - 1) : k + 1 = j
        <4>1. j - 1 \in i..(Len(s) - 1) /\ (j - 1) + 1 = j
          BY <2>2
        <4> QED
          BY <4>1
      <3>2. k \in 1..Len(w)
        BY <1>3
      <3>3. w[k] = s[k + 1]
        BY <1>3
      <3> QED
        BY <3>1, <3>2, <3>3
    <2> QED
      BY <1>4, <2>1, <2>2
  <1>5. ASSUME NEW k \in 1..Len(w) PROVE \E j \in 1..Len(s) : w[k] = s[j]
    BY <1>3
  <1>6. Without(s, i) = w
    BY <1>2 DEF w
  <1> QED
    BY <1>3, <1>4, <1>5, <1>6

\* An event is consumed or given up: its periods are marked, the rest still wait.
LEMMA EventsLeave ==
  ASSUME CacheInv, NEW i \in 1..Len(emitted), Marks(Affected(emitted[i])),
         cache' \in [Periods -> Copies], reader' \in [Readers -> ReaderStates],
         emitted' = Without(emitted, i) \/ emitted' = emitted,
         UNCHANGED <<row, latest, writes, editor>>
  PROVE  CacheInv'
  <1>1. StoreTypeOK /\ emitted \in Seq(DomainEvents)
    BY DEF CacheInv, CacheTypeOK, StoreTypeOK
  <1>2. emitted' \in Seq(DomainEvents)
    BY <1>1, OthersRemain
  <1>3. StoreTypeOK'
    BY <1>1, <1>2 DEF StoreTypeOK
  <1>4. \A p : Totals(p)' = Totals(p)
    BY DEF Totals, Live
  <1>5. ASSUME NEW p \in Periods \ Affected(emitted[i])
        PROVE  Awaiting(p)' \/ (~Awaiting(p) /\ Totals(p)' = Totals(p))
    <2>1. SUFFICES ASSUME Awaiting(p) PROVE Awaiting(p)'
      BY <1>4
    <2>2. PICK j \in 1..Len(emitted) : p \in Affected(emitted[j])
      BY <2>1 DEF Awaiting
    <2>3. j # i
      BY <2>2
    <2>4. \E k \in 1..Len(emitted') : emitted'[k] = emitted[j]
      BY <1>1, <2>3, OthersRemain
    <2> QED
      BY <2>2, <2>4 DEF Awaiting, Affected
  <1>6. CopiesStand'
    <2>1. ASSUME NEW ps, ps = Affected(emitted[i]) PROVE CopiesStand'
      <3>1. Marks(ps) /\ \A p \in Periods \ ps : Awaiting(p)' \/ (~Awaiting(p) /\ Totals(p)' = Totals(p))
        BY <1>5, <2>1
      <3> QED
        BY <3>1, MarkedCopiesStand DEF CacheInv, CacheTypeOK
    <2> QED
      BY <2>1
  <1> QED
    BY <1>3, <1>6 DEF CacheInv, CacheTypeOK

LEMMA ConsumersStand ==
  ASSUME CacheInv, NEW i \in 1..Len(emitted),
         Invalidate(i) \/ InvalidateUncommitted(i) \/ GiveUp(i)
  PROVE  CacheInv'
  <1> DEFINE ps == Affected(emitted[i])
  <1>1. ps \in SUBSET Periods
    <2>1. emitted[i] \in DomainEvents
      BY DEF CacheInv, CacheTypeOK, StoreTypeOK
    <2> QED
      BY <2>1, PeriodsAre DEF Affected, DomainEvents
  <1>2. Marks(ps) /\ cache' \in [Periods -> Copies] /\ reader' \in [Readers -> ReaderStates]
    <2>1. Invalidated(ps) \/ Misses(ps, "abandoned")
      BY DEF Invalidate, InvalidateUncommitted, GiveUp
    <2>2. "abandoned" \in Reasons
      BY DEF Reasons
    <2> HIDE DEF ps
    <2> QED
      BY <1>1, <2>1, <2>2, MissesMark, InvalidatedMarks DEF CacheInv
  <1>3. /\ emitted' = Without(emitted, i) \/ emitted' = emitted
        /\ UNCHANGED <<row, latest, writes, editor>>
    BY DEF Invalidate, InvalidateUncommitted, GiveUp, storeVars
  <1> QED
    BY <1>2, <1>3, EventsLeave

LEMMA StoreKept ==
  ASSUME UNCHANGED storeVars
  PROVE  /\ StoreTypeOK => StoreTypeOK'
         /\ \A p : Totals(p)' = Totals(p) /\ Awaiting(p)' = Awaiting(p)
  BY DEF storeVars, StoreTypeOK, Totals, Live, Awaiting, Affected

LEMMA EditReadsDateStands ==
  ASSUME CacheInv, NEW e \in Editors, NEW t \in Txns, NEW field \in Fields,
         NEW value \in Dates \cup Amounts, EditReadsDate(e, t, field, value)
  PROVE  CacheInv'
  <1> DEFINE entry == [step |-> "dated", txn |-> t, field |-> field,
                       value |-> value, previous |-> row[t].date]
  <1>1. /\ value \in ValuesOf(field) /\ editor' = [editor EXCEPT ![e] = entry]
        /\ UNCHANGED <<storeVars, cache, reader>> /\ row \in [Txns -> TransactionRows]
        /\ editor \in [Editors -> EditorStates]
    BY DEF EditReadsDate, CacheInv, CacheTypeOK, StoreTypeOK
  <1>2. entry \in EditorStates /\ entry.value = value /\ entry.field = field
    BY <1>1 DEF EditorStates, TransactionRows
  <1> HIDE DEF entry
  <1>3. /\ editor' \in [Editors -> EditorStates] /\ editor'[e] = entry
        /\ \A f \in Editors : f # e => editor'[f] = editor[f]
    BY <1>1, <1>2
  <1>4. \A f \in Editors : editor'[f].step = "dated" => editor'[f].value \in ValuesOf(editor'[f].field)
    BY <1>1, <1>2, <1>3 DEF CacheInv
  <1>5. CopiesStand' /\ StoreTypeOK'
    BY <1>1, StoreKept DEF CacheInv, CacheTypeOK, CopiesStand, CopyStands
  <1> QED
    BY <1>1, <1>3, <1>4, <1>5 DEF CacheInv, CacheTypeOK

\* Get and Compute: what a reader has computed is what the rows hold now.
LEMMA ReadersStand ==
  ASSUME CacheInv, NEW r \in Readers, (\E p \in Periods : Get(r, p)) \/ Compute(r)
  PROVE  CacheInv'
  <1>1. /\ reader \in [Readers -> ReaderStates] /\ row \in [Txns -> TransactionRows]
        /\ UNCHANGED <<storeVars, cache, editor>> /\ CopiesStand
    BY DEF CacheInv, CacheTypeOK, StoreTypeOK, Get, Compute
  <1>2. PICK new \in ReaderStates :
          /\ reader' = [reader EXCEPT ![r] = new]
          /\ new.step = "computed" => new.copy.value = Totals(new.period)
    <2>1. CASE \E p \in Periods : Get(r, p)
      <3>1. PICK p \in Periods : Get(r, p)
        BY <2>1
      <3> DEFINE new == [reader[r] EXCEPT !.step = "missed", !.period = p]
      <3>2. new \in ReaderStates /\ new.step # "computed"
        BY <1>1 DEF ReaderStates
      <3>3. reader' = [reader EXCEPT ![r] = new]
        BY <1>1, <3>1 DEF Get
      <3> QED
        BY <3>2, <3>3
    <2>2. CASE Compute(r)
      <3> DEFINE copy == CopyOf(Totals(reader[r].period))
                 new == [reader[r] EXCEPT !.step = "computed", !.copy = copy]
      <3>1. Totals(reader[r].period) \in Values
        BY <1>1 DEF Totals, Values, TransactionRows
      <3>2. copy \in Copies /\ copy.value = Totals(reader[r].period)
        BY <3>1 DEF CopyOf, Copies
      <3>3. reader' = [reader EXCEPT ![r] = new]
        BY <1>1, <2>2 DEF Compute
      <3> HIDE DEF copy
      <3>4. new \in ReaderStates /\ new.copy = copy /\ new.period = reader[r].period
        BY <1>1, <3>2 DEF ReaderStates
      <3> QED
        BY <3>2, <3>3, <3>4
    <2> QED
      BY <2>1, <2>2
  <1>3. reader' \in [Readers -> ReaderStates]
    BY <1>1, <1>2
  <1>4. ASSUME NEW q \in Readers, reader'[q].step = "computed"
        PROVE  CopyStands(reader[q].copy, reader[q].period)'
    <2>1. CASE q = r
      <3>1. reader'[q] = new
        BY <1>1, <1>2, <2>1
      <3> QED
        BY <1>1, <1>2, <1>4, <3>1, StoreKept DEF CopyStands
    <2>2. CASE q # r
      <3>1. reader'[q] = reader[q]
        BY <1>1, <1>2, <2>2
      <3>2. CopyStands(reader[q].copy, reader[q].period)
        BY <1>1, <1>4, <3>1 DEF CopiesStand
      <3> QED
        BY <1>1, <3>1, <3>2, StoreKept DEF CopyStands
    <2> QED
      BY <2>1, <2>2
  <1>5. CopiesStand'
    BY <1>1, <1>4, StoreKept DEF CopiesStand, CopyStands
  <1> QED
    BY <1>1, <1>3, <1>5, StoreKept DEF CacheInv, CacheTypeOK

\* Set stores what the reader carried, with all it has missed.
LEMMA SetStands ==
  ASSUME CacheInv, NEW r \in Readers, Set(r)
  PROVE  CacheInv'
  <1> DEFINE p == reader[r].period
             copy == reader[r].copy
  <1>1. /\ reader \in [Readers -> ReaderStates] /\ cache \in [Periods -> Copies]
        /\ UNCHANGED <<storeVars, editor>> /\ CopiesStand
        /\ cache' = [cache EXCEPT ![p] = copy] /\ reader' = [reader EXCEPT ![r] = IdleReader]
        /\ reader[r].step = "computed"
    BY DEF CacheInv, CacheTypeOK, Set
  <1>2. p \in Periods /\ copy \in Copies /\ CopyStands(copy, p)
    BY <1>1 DEF ReaderStates, CopiesStand
  <1> HIDE DEF p, copy
  <1>3. cache' \in [Periods -> Copies] /\ reader' \in [Readers -> ReaderStates]
    BY <1>1, <1>2, IdlesAre
  <1>4. \A c, q : CopyStands(c, q) =>
          (c.missed = {} /\ ~Awaiting(q)' => c.value = Totals(q)')
    BY <1>1, StoreKept DEF CopyStands
  <1>5. ASSUME NEW q \in Periods, cache'[q].cached PROVE CopyStands(cache[q], q)'
    <2>1. cache'[q] = IF q = p THEN copy ELSE cache[q]
      BY <1>1
    <2>2. CopyStands(cache'[q], q)
      BY <1>1, <1>2, <1>5, <2>1 DEF CopiesStand
    <2> QED
      BY <1>4, <2>2 DEF CopyStands
  <1>6. ASSUME NEW q \in Readers, reader'[q].step = "computed"
        PROVE  CopyStands(reader[q].copy, reader[q].period)'
    <2>1. q # r
      BY <1>1, <1>6 DEF IdleReader
    <2>2. reader'[q] = reader[q]
      BY <1>1, <2>1
    <2>3. CopyStands(reader[q].copy, reader[q].period)
      BY <1>1, <1>6, <2>2 DEF CopiesStand
    <2> QED
      BY <1>1, <2>2, <2>3, StoreKept DEF CopyStands
  <1>7. CopiesStand'
    BY <1>5, <1>6 DEF CopiesStand
  <1> QED
    BY <1>1, <1>3, <1>7, StoreKept DEF CacheInv, CacheTypeOK

LEMMA ExpireStands ==
  ASSUME CacheInv, NEW p \in Periods, Expire(p)
  PROVE  CacheInv'
  <1>1. /\ cache \in [Periods -> Copies] /\ cache' = [cache EXCEPT ![p] = NoCopy]
        /\ UNCHANGED <<storeVars, reader, editor>>
    BY DEF CacheInv, CacheTypeOK, Expire
  <1>2. NoCopy \in Copies /\ ~NoCopy.cached
    BY DEF NoCopy, Copies, Values
  <1> HIDE DEF NoCopy
  <1>3. cache' \in [Periods -> Copies] /\ \A q \in Periods : cache'[q].cached => cache'[q] = cache[q]
    BY <1>1, <1>2
  <1>4. CopiesStand'
    BY <1>1, <1>3, StoreKept DEF CacheInv, CopiesStand, CopyStands
  <1> QED
    BY <1>1, <1>3, <1>4, StoreKept DEF CacheInv, CacheTypeOK

\* What the cache invariant says of the code: every write's events name every
\* period the row was in and is in, or the copies of the other periods are marked.
THEOREM CopiesAreExplained == CacheSpec => []CacheInv
  <1>1. CacheInit => CacheInv
    <2> SUFFICES ASSUME CacheInit PROVE CacheInv
      OBVIOUS
    <2>1. StoreTypeOK
      BY StoreAssumption, FS_EmptySet DEF CacheInit, StoreInit, StoreTypeOK, TransactionRows
    <2>2. NoCopy \in Copies /\ ~NoCopy.cached
      BY DEF NoCopy, Copies, Values
    <2>3. CacheTypeOK
      <3> HIDE DEF NoCopy
      <3> QED
        BY <2>1, <2>2, IdlesAre DEF CacheInit, CacheTypeOK
    <2>4. \A p \in Periods : ~cache[p].cached
      <3> HIDE DEF NoCopy
      <3> QED
        BY <2>2 DEF CacheInit
    <2>5. /\ \A r \in Readers : reader[r].step = "idle"
          /\ \A e \in Editors : editor[e].step = "idle"
      BY DEF CacheInit, IdleReader, IdleEditor
    <2> QED
      BY <2>3, <2>4, <2>5 DEF CacheInv, CopiesStand
  <1>2. CacheInv /\ [CacheNext]_cacheVars => CacheInv'
    <2> SUFFICES ASSUME CacheInv, [CacheNext]_cacheVars PROVE CacheInv'
      OBVIOUS
    <2>1. CASE UNCHANGED cacheVars
      <3>1. UNCHANGED <<storeVars, cache, reader, editor>>
        BY <2>1 DEF cacheVars
      <3> QED
        BY <3>1, StoreKept DEF CacheInv, CacheTypeOK, CopiesStand, CopyStands
    <2>2. CASE \/ \E t \in Txns, d \in Dates, a \in Amounts : Create(t, d, a)
               \/ \E t \in Txns : Delete(t) \/ Restore(t)
      BY <2>2, WritersStand
    <2>3. CASE \E e \in Editors, t \in Txns, field \in Fields, value \in Dates \cup Amounts :
                 EditReadsDate(e, t, field, value)
      BY <2>3, EditReadsDateStands
    <2>4. CASE \E e \in Editors : EditWrites(e)
      BY <2>4, EditWritesStands
    <2>5. CASE \E r \in Readers : (\E p \in Periods : Get(r, p)) \/ Compute(r)
      BY <2>5, ReadersStand
    <2>6. CASE \E r \in Readers : Set(r)
      BY <2>6, SetStands
    <2>7. CASE \E p \in Periods : Expire(p)
      BY <2>7, ExpireStands
    <2>8. CASE \E i \in 1..Len(emitted) : Invalidate(i) \/ InvalidateUncommitted(i) \/ GiveUp(i)
      BY <2>8, ConsumersStand
    <2> QED
      BY <2>1, <2>2, <2>3, <2>4, <2>5, <2>6, <2>7, <2>8 DEF CacheNext
  <1> QED
    BY <1>1, <1>2, PTL DEF CacheSpec

\* A stale cached total awaits its event or missed a change in a known way.
THEOREM StaleStaysExplained == CacheSpec => []StaleIsExplained
  <1>1. CacheInv => StaleIsExplained
    BY DEF CacheInv, CopiesStand, CopyStands, StaleIsExplained, Stale
  <1> QED
    BY <1>1, CopiesAreExplained, PTL

==============================================================================
