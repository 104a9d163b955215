------------------------------- MODULE MCWork --------------------------------
(* The work behind a message, in four parts that share no rows: the domain  *)
(* events and their dispatchers, the commits of a draft and their lock, the *)
(* jobs of photos and voice notes, the calls of a provider.  A behaviour    *)
(* exercises one of them, and the others keep their initial state.          *)
EXTENDS DomainEventOutbox, CommitLock, MediaJobs

CONSTANTS Clients, Threshold

VARIABLES part, kind, up, breaker, request

Vendor == INSTANCE ProviderResilience

vendorVars == <<kind, up, breaker, request>>
workVars == <<part, outboxVars, vars, mediaVars, vendorVars>>

WorkInit ==
  /\ part \in {"outbox", "lock", "media", "vendor"}
  /\ OutboxInit /\ Init /\ MediaInit /\ Vendor!ResilienceInit
  /\ part # "lock" => \A a \in Attempts : attempt[a].draft = CHOOSE d \in Drafts : TRUE
  /\ part # "vendor" => kind = "llm"

OutboxPart == part = "outbox" /\ OutboxNext /\ UNCHANGED <<part, vars, mediaVars, vendorVars>>
LockPart == part = "lock" /\ Next /\ UNCHANGED <<part, outboxVars, mediaVars, vendorVars>>
MediaPart == part = "media" /\ MediaNext /\ UNCHANGED <<part, outboxVars, vars, vendorVars>>
VendorPart ==
  part = "vendor" /\ Vendor!ResilienceNext /\ UNCHANGED <<part, outboxVars, vars, mediaVars>>

WorkNext == OutboxPart \/ LockPart \/ MediaPart \/ VendorPart

(* Dispatchers and job runners go on, Redis drops a key once its time is up, *)
(* a cooldown passes, a call ends; nothing makes anybody send, tap or call.  *)
WorkFairness ==
  /\ \A w \in Workers : WF_outboxVars(part = "outbox" /\ WorkerStep(w))
  /\ \A d \in Drafts : WF_vars(part = "lock" /\ ExpireKey(d))
  /\ \A f \in Files : WF_mediaVars(part = "media" /\ Recovers(f))
  /\ \A r \in Runners, f \in Files :
       WF_mediaVars(part = "media" /\ (Take(r, f) \/ RunStep(r, f)))
  /\ WF_vendorVars(part = "vendor" /\ Vendor!CoolsDown)
  /\ \A c \in Clients : WF_vendorVars(part = "vendor" /\ Vendor!CallEnds(c))

WorkSpec == WorkInit /\ [][WorkNext]_workVars /\ WorkFairness

(* See CommitLock and MediaJobs: whoever dies, a claim on a draft ends, and a *)
(* file that was sent is answered.                                            *)
WorkIsTakenUp == ClaimEnds /\ EveryFileIsAnswered

(* See ProviderResilience.                                                 *)
BreakerRecovers == Vendor!BreakerRecovers
=============================================================================
