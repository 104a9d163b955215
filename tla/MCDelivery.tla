----------------------------- MODULE MCDelivery ------------------------------
(* What comes of a domain event: a behaviour exercises the gate with two     *)
(* workers at one event, or its way through the gate and the delivery queue  *)
(* to a message, or the reminders of a debt, whose scans and gates overlap,  *)
(* or of two debts, one step after the other, or the events of transactions  *)
(* and the cache of their totals; the rest stays as it is.                   *)
EXTENDS NotificationPipeline, ReportCache, DebtReminders, TLC

CONSTANTS d1, d2, early, late, week, month

VARIABLE part

\* Two dates in one month, of whose weeks only the first is reported.
OneMonth == (early :> {week, month}) @@ (late :> {month})

\* Two notices tell of an overlap; of a crowd, three.
TwoNotices == Len(notice') <= 2

\* Neither two scans nor two gates overlap.
OneByOne ==
  /\ Cardinality({s \in Scanners : scan'[s] # NoScan}) <= 1
  /\ Cardinality({w \in Dispatchers : claim'[w] # NoGate}) <= 1

\* Two workers and a lost claim, or two processors on the notifications of
\* one worker, always the same: where the other is as at first, the symmetry of
\* workers takes no two states for one.
OneWorker == \A w \in Workers : worker'[w].pc = "idle" \/ w = CHOOSE v \in Workers : TRUE
TwoNotes == Cardinality({n \in Notes : note'[n].status # "absent"}) <= 2

DeliveryInit ==
  /\ part \in {"gate", "queue", "overlap", "crowd", "cache"}
  /\ Init /\ CacheInit /\ RemindersInit
  /\ debt[d1].open /\ (debt[d2].open <=> part = "crowd")
  /\ part \in {"gate", "queue"} \/ enabled

DeliveryNext ==
  /\ UNCHANGED part
  /\ \/ part = "gate" /\ (DispatcherNext \/ UserNext) /\ UNCHANGED <<reminderVars, cacheVars>>
     \/ part = "queue" /\ Next /\ OneWorker /\ TwoNotes
          /\ UNCHANGED <<lost, enabled, reminderVars, cacheVars>>
     \/ part = "overlap" /\ RemindersNext /\ TwoNotices /\ UNCHANGED <<vars, cacheVars>>
     \/ part = "crowd" /\ RemindersNext /\ OneByOne /\ UNCHANGED <<vars, cacheVars>>
     \/ part = "cache" /\ CacheNext /\ UNCHANGED <<vars, reminderVars>>

DeliverySpec == DeliveryInit /\ [][DeliveryNext]_<<part, vars, reminderVars, cacheVars>>

\* The configuration gives workers and scanners the same names, and so it does
\* senders, dispatchers and editors.
Symmetry == Permutations(Workers) \cup Permutations(Senders)
=============================================================================
