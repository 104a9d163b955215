---------------------------- MODULE DebtReminders ----------------------------
(****************************************************************************)
(* Reminders about debts that fall due: the daily scan that records events, *)
(* and the consumer's gate that turns an event into a notification.  Both   *)
(* keep a distance between two of a kind by looking for a recent one first; *)
(* two scans overlap when a stalled job is run again, two gates when two    *)
(* dispatchers hold different events.  One user.                            *)
(****************************************************************************)
EXTENDS Integers, Sequences, FiniteSets

CONSTANTS
  Debts,
  DueDays,         \* due dates a debt may have
  Scanners,        \* runs of the scan job that may overlap
  Dispatchers,     \* workers whose gates may overlap
  DayTicks,        \* ticks of the clock in a day
  Zones,           \* offsets of users' time zones, in ticks
  ApproachingWindow, OverdueWindow,   \* dedup windows of both sides, in ticks
  RowsScanned,     \* MAX_RECENT_ROWS_SCANNED of the dedup query
  MaxTime, MaxEvents, MaxNotices      \* bounds

ASSUME RemindersAssumption ==
  /\ Debts # {} /\ DueDays \subseteq Int /\ Zones \subseteq Int /\ DayTicks \in Nat \ {0}
  /\ ApproachingWindow \in Nat /\ OverdueWindow \in Nat /\ RowsScanned \in Nat

VARIABLES
  clock, zone,
  debt,      \* [Debts -> [due, open]]
  scan,      \* [Scanners -> the scan's progress]
  reminder,  \* rows of domain_events of the two kinds, in order
  claim,     \* [Dispatchers -> the gate's progress in the claim it holds]
  notice     \* rows of notifications, in order

reminderVars == <<clock, zone, debt, scan, reminder, claim, notice>>

NoReminder == 0
NoScan == [step |-> "idle", now |-> 0, todo |-> {}, of |-> CHOOSE d \in Debts : TRUE,
           kind |-> "none", saw |-> 0]
NoGate == [step |-> "idle", event |-> NoReminder, saw |-> 0]

RemindersInit ==
  /\ clock = 0 /\ zone \in Zones
  /\ debt \in [Debts -> [due : DueDays, open : BOOLEAN]]
  /\ scan = [s \in Scanners |-> NoScan]
  /\ reminder = <<>> /\ notice = <<>>
  /\ claim = [w \in Dispatchers |-> NoGate]

\* toLocalCalendarDate.
LocalDay(now) == (now + zone) \div DayTicks

\* classifyDebtReminderCondition.
Condition(d, now) ==
  LET days == debt[d].due - LocalDay(now) IN
  IF days \in {0, 1} THEN "approaching" ELSE IF days < 0 THEN "overdue" ELSE "none"

WindowOf(kind) == IF kind = "approaching" THEN ApproachingWindow ELSE OverdueWindow

(***************************************************************************)
(* The scan                                                                *)
(***************************************************************************)
Candidates(now) == {d \in Debts : debt[d].open /\ debt[d].due <= LocalDay(now) + 1}

FindCandidates(s) ==
  /\ scan[s].step = "idle" /\ Candidates(clock) # {}
  /\ scan' = [scan EXCEPT ![s].step = "next", ![s].now = clock, ![s].todo = Candidates(clock)]
  /\ UNCHANGED <<clock, zone, debt, reminder, claim, notice>>

RecentlyRecorded(d, kind, now) ==
  \E i \in DOMAIN reminder : /\ reminder[i].debt = d /\ reminder[i].kind = kind
                             /\ reminder[i].at >= now - WindowOf(kind)

\* One candidate, classified by the time the scan began.
Consider(s, d) ==
  LET kind == Condition(d, scan[s].now) IN
  /\ scan[s].step = "next" /\ d \in scan[s].todo
  /\ scan' = [scan EXCEPT ![s] =
       IF RecentlyRecorded(d, kind, scan[s].now)
       THEN [scan[s] EXCEPT !.todo = @ \ {d}]
       ELSE [step |-> "record", now |-> scan[s].now, todo |-> scan[s].todo \ {d},
             of |-> d, kind |-> kind, saw |-> Len(reminder)]]
  /\ UNCHANGED <<clock, zone, debt, reminder, claim, notice>>

RecordEvent(s) ==
  /\ scan[s].step = "record" /\ Len(reminder) < MaxEvents
  /\ reminder' = Append(reminder, [debt |-> scan[s].of, kind |-> scan[s].kind, at |-> clock,
                                   pending |-> TRUE, saw |-> scan[s].saw, since |-> scan[s].now])
  /\ scan' = [scan EXCEPT ![s] = [NoScan EXCEPT !.step = "next", !.now = scan[s].now,
                                               !.todo = scan[s].todo]]
  /\ UNCHANGED <<clock, zone, debt, claim, notice>>

\* Done, or the job fails half way; the queue runs it again the next day.
ScanEnds(s) ==
  /\ scan[s].step = "next"
  /\ scan' = [scan EXCEPT ![s] = NoScan]
  /\ UNCHANGED <<clock, zone, debt, reminder, claim, notice>>

(***************************************************************************)
(* gateAndDeliver, with the claim's row lock around it                     *)
(***************************************************************************)
Claimed(i) == \E w \in Dispatchers : claim[w].event = i

ClaimOldest(w) ==
  LET open == {i \in DOMAIN reminder : reminder[i].pending /\ ~Claimed(i)} IN
  /\ claim[w].step = "idle" /\ open # {}
  /\ \E i \in open : /\ \A j \in open : i <= j
                     /\ claim' = [claim EXCEPT ![w] = [NoGate EXCEPT !.step = "dedup", !.event = i]]
  /\ UNCHANGED <<clock, zone, debt, scan, reminder, notice>>

OfKind(kind) == {i \in DOMAIN notice : notice[i].kind = kind}
LaterOfKind(i) == {j \in OfKind(notice[i].kind) : j > i}

\* As it would be with the debt's own rows left out of the question.
RecentlyRemindedNever(e) == FALSE

\* wasRecentlyNotified: among the user's latest rows of the kind, of any status.
RecentlyReminded(e) ==
  \E i \in OfKind(reminder[e].kind) :
    /\ notice[i].debt = reminder[e].debt
    /\ notice[i].at >= clock - WindowOf(reminder[e].kind)
    /\ Cardinality(LaterOfKind(i)) < RowsScanned

Notice(e, status, saw) ==
  [debt |-> reminder[e].debt, kind |-> reminder[e].kind, at |-> clock, status |-> status,
   saw |-> saw]

GateDecides(w) ==
  LET e == claim[w].event IN
  /\ claim[w].step = "dedup"
  /\ IF RecentlyReminded(e)
     THEN /\ Len(notice) < MaxNotices
          /\ notice' = Append(notice, Notice(e, "suppressed", Len(notice)))
          /\ claim' = [claim EXCEPT ![w].step = "commit"]
     ELSE /\ claim' = [claim EXCEPT ![w].step = "create", ![w].saw = Len(notice)]
          /\ UNCHANGED notice
  /\ UNCHANGED <<clock, zone, debt, scan, reminder>>

GateCreates(w) ==
  /\ claim[w].step = "create" /\ Len(notice) < MaxNotices
  /\ notice' = Append(notice, Notice(claim[w].event, "queued", claim[w].saw))
  /\ claim' = [claim EXCEPT ![w].step = "commit"]
  /\ UNCHANGED <<clock, zone, debt, scan, reminder>>

GateCommits(w) ==
  /\ claim[w].step = "commit"
  /\ reminder' = [reminder EXCEPT ![claim[w].event].pending = FALSE]
  /\ claim' = [claim EXCEPT ![w] = NoGate]
  /\ UNCHANGED <<clock, zone, debt, scan, notice>>

\* The claim is rolled back; a notifications row already written stays.
GateFails(w) ==
  /\ claim[w].step \in {"create", "commit"}
  /\ claim' = [claim EXCEPT ![w] = NoGate]
  /\ UNCHANGED <<clock, zone, debt, scan, reminder, notice>>

SettleDebt(d) ==
  /\ debt[d].open
  /\ debt' = [debt EXCEPT ![d].open = FALSE]
  /\ UNCHANGED <<clock, zone, scan, reminder, claim, notice>>

Tick ==
  /\ clock < MaxTime
  /\ clock' = clock + 1
  /\ UNCHANGED <<zone, debt, scan, reminder, claim, notice>>

RemindersNext ==
  \/ Tick
  \/ \E d \in Debts : SettleDebt(d)
  \/ \E s \in Scanners : \/ FindCandidates(s) \/ RecordEvent(s) \/ ScanEnds(s)
                         \/ \E d \in Debts : Consider(s, d)
  \/ \E w \in Dispatchers :
       ClaimOldest(w) \/ GateDecides(w) \/ GateCreates(w) \/ GateCommits(w) \/ GateFails(w)

RemindersSpec == RemindersInit /\ [][RemindersNext]_reminderVars

(***************************************************************************)
(* Property                                                                *)
(***************************************************************************)
\* A user is not reminded twice of one debt within the window of the kind: not by
\* two scans, unless one had looked before the other recorded; and not by two
\* notifications, unless one gate had looked before the other's row was there, or
\* the latest rows of the kind were all about other debts.
RemindersKeepTheirDistance ==
  /\ \A i, j \in DOMAIN reminder :
       i < j /\ reminder[i].debt = reminder[j].debt /\ reminder[i].kind = reminder[j].kind
         => reminder[i].at < reminder[j].since - WindowOf(reminder[j].kind) \/ reminder[j].saw < i
  /\ \A i, j \in DOMAIN notice :
       /\ i < j /\ notice[i].debt = notice[j].debt /\ notice[i].kind = notice[j].kind
       /\ notice[j].status = "queued"
       => \/ notice[j].at - notice[i].at > WindowOf(notice[j].kind)
          \/ notice[j].saw < i
          \/ Cardinality({k \in LaterOfKind(i) : k < j}) >= RowsScanned
=============================================================================
