---------------------------- MODULE Access_proofs -----------------------------
(***************************************************************************)
(* Users and admins: the proofs about the accounts, the logins, the        *)
(* support sessions and the tokens.                                        *)
(***************************************************************************)
EXTENDS AccountLifecycle, AdminAccess, SupportSessions, ApiTokens, SequenceTheorems,
        FiniteSetTheorems, TLAPS

(***************************************************************************)
(* For any users, calls and scans and any grace period of three ticks or   *)
(* more: whoever is purged was due, although a scan acts on a list read    *)
(* long before, and a deletion that was asked for stands, although a       *)
(* reactivation writes whatever the row has become.                        *)
(***************************************************************************)

\* A call is answered within a tick of the clock.
CallsAreRecent ==
  \A c \in Calls : call[c].step # "idle" => call[c].now <= clock /\ clock <= call[c].now + 1

\* Whoever is about to reactivate a user has seen the row deactivated: if a
\* deletion is pending by now, it was asked for after that, or just before.
ReactivationsCameFirst ==
  \A c \in Calls :
    /\ call[c].step \in {"reactivating", "unblocking"}
    /\ user[call[c].of].status = "pending_deletion"
    => call[c].now <= user[call[c].of].requestedAt + 1

\* The users a scan still has to purge, or is purging.
Targeted(s, u) ==
  \/ u \in scan[s].todo
  \/ scan[s].step \in {"rows", "categories", "objects", "audit", "user"} /\ scan[s].of = u

\* However old the list: nothing but an overtaking cancellation or the purge
\* itself has taken a user's due date back.
TargetsAreDue ==
  \A s \in Scans, u \in Users :
    Targeted(s, u) => DueAt(u, clock) \/ u \in overtaken \/ user[u].status = "purged"

IInv == TypeOK /\ CallsAreRecent /\ ReactivationsCameFirst /\ TargetsAreDue

-----------------------------------------------------------------------------
\* Nothing is under way at first.
LEMMA InitIInv == Init => IInv
  <1> SUFFICES ASSUME Init PROVE IInv
    OBVIOUS
  <1>1. SomeUser \in Users
    BY BoundsAssumption DEF SomeUser
  <1>2. TypeOK
    BY <1>1, BoundsAssumption DEF Init, TypeOK, UserRows, CallStates, ScanStates, NoCall, NoScan, Never
  <1>3. CallsAreRecent /\ ReactivationsCameFirst /\ TargetsAreDue
    BY DEF Init, CallsAreRecent, ReactivationsCameFirst, TargetsAreDue, Targeted, NoCall, NoScan
  <1> QED
    BY <1>2, <1>3 DEF IInv

-----------------------------------------------------------------------------
\* What a step may do to the row of a user, and when.
UserMoves(u) ==
  \/ user'[u] = user[u]
  \/ user[u].status = "absent" /\ user'[u] = [user[u] EXCEPT !.status = "active"]
  \/ user[u].status = "active" /\ user'[u] = [user[u] EXCEPT !.status = "deactivated"]
  \/ /\ Exists(u) /\ user'[u] = [user[u] EXCEPT !.status = "active"]
     /\ \E c \in Calls : call[c].step \in {"reactivating", "unblocking"} /\ call[c].of = u
  \/ /\ user[u].status = "active"
     /\ \E c \in Calls :
          /\ call[c].step = "handling" /\ call[c].of = u
          /\ user'[u] = [status |-> "pending_deletion", requestedAt |-> call[c].now]
  \/ /\ user[u].status = "pending_deletion" /\ user'[u] = Cancelled
     /\ DueAt(u, clock) => u \in overtaken'
  \/ /\ Exists(u) /\ user'[u] = [status |-> "purged", requestedAt |-> Never]
     /\ \E s \in Scans : Targeted(s, u)

\* Each step moves each user so.
LEMMA UserStep ==
  ASSUME TypeOK, [Next]_vars, NEW u \in Users
  PROVE  UserMoves(u)
  <1> user \in [Users -> UserRows] /\ user[u] \in UserRows
    BY DEF TypeOK
  <1>1. ASSUME NEW c \in Calls, CallNext(c) PROVE UserMoves(u)
    <2>1. ASSUME NEW v \in Users, Provision(c, v) PROVE UserMoves(u)
      <3>1. CASE v # u \/ user[u].status # "absent"
        <4>1. user'[u] = user[u]
          BY <2>1, <3>1 DEF Provision, UserRows
        <4> QED
          BY <4>1 DEF UserMoves
      <3>2. CASE v = u /\ user[u].status = "absent"
        BY <2>1, <3>2 DEF Provision, UserMoves
      <3> QED
        BY <3>1, <3>2
    <2>2. CASE Reactivate(c)
      BY <2>2 DEF Reactivate, Becomes, UserMoves
    <2>3. CASE RequestDeletion(c)
      BY <2>3 DEF RequestDeletion, MayRequest, UserMoves
    <2>4. CASE CancelDeletion(c)
      BY <2>4 DEF CancelDeletion, MayCancel, UserMoves
    <2>5. CASE UNCHANGED user
      BY <2>5 DEF UserMoves
    <2> QED
      BY <1>1, <2>1, <2>2, <2>3, <2>4, <2>5 DEF CallNext, Unblock, Records, Answers
  <1>2. ASSUME NEW v \in Users, Block(v) PROVE UserMoves(u)
    BY <1>2 DEF Block, Becomes, UserMoves
  <1>3. ASSUME NEW s \in Scans, DeleteUser(s) PROVE UserMoves(u)
    BY <1>3 DEF DeleteUser, Targeted, UserMoves
  <1>4. CASE UNCHANGED user
    BY <1>4 DEF UserMoves
  <1>5. ASSUME NEW s \in Scans, ScanStep(s) \/ StorageFails(s) \/ ScanFails(s)
        PROVE  DeleteUser(s) \/ UNCHANGED user
    BY <1>5 DEF ScanStep, FindExpired, TakeUser, ScanEnds, EraseRows, EraseCategories, EraseObjects,
                WriteAudit, DeleteRefused, Notify, StorageFails, ScanFails
  <1>6. ASSUME NEW v \in Users, Block(v) \/ OpenSupportSession(v)
        PROVE  Block(v) \/ UNCHANGED user
    BY <1>6 DEF OpenSupportSession
  <1>7. Tick \/ UNCHANGED vars => UNCHANGED user
    BY DEF Tick, vars
  <1> QED
    BY <1>1, <1>2, <1>3, <1>4, <1>5, <1>6, <1>7 DEF Next

\* What a step may do to a call, and what a new one has read.
CallMoves(c) ==
  \/ call'[c] = call[c]
  \/ call'[c] = NoCall
  \/ call[c].step = "reactivating" /\ call'[c] = [call[c] EXCEPT !.step = "handling"]
  \/ \E u \in Users : /\ user[u].status # "purged"
                      /\ call'[c] = [step |-> AfterRead(user[u].status), of |-> u, now |-> clock]
  \/ \E u \in Users : /\ user[u].status = "deactivated"
                      /\ call'[c] = [step |-> "unblocking", of |-> u, now |-> clock]

\* Each step but the clock's moves each call so.
LEMMA CallStep ==
  ASSUME TypeOK, [Next]_vars
  PROVE  \/ /\ Tick
         \/ /\ clock' = clock /\ DOMAIN call' = Calls
            /\ \A c \in Calls : CallMoves(c)
  <1> call \in [Calls -> CallStates]
    BY DEF TypeOK
  <1> DEFINE Moved == DOMAIN call' = Calls /\ \A c \in Calls : CallMoves(c)
  <1>1. ASSUME NEW c \in Calls, CallNext(c) PROVE clock' = clock /\ Moved
    <2>1. ASSUME NEW v \in Users, Provision(c, v) \/ Unblock(c, v) PROVE clock' = clock /\ Moved
      BY <2>1 DEF Provision, Unblock, CallMoves, purgeVars
    <2>2. CASE Reactivate(c)
      <3>1. CASE call[c].step = "reactivating"
        BY <2>2, <3>1 DEF Reactivate, Goes, CallMoves
      <3>2. CASE call[c].step # "reactivating"
        BY <2>2, <3>2 DEF Reactivate, Returns, CallMoves
      <3> QED
        BY <3>1, <3>2
    <2>3. ASSUME Returns(c), clock' = clock PROVE clock' = clock /\ Moved
      BY <2>3 DEF Returns, CallMoves
    <2>4. \/ \E v \in Users : Provision(c, v) \/ Unblock(c, v)
          \/ Reactivate(c)
          \/ Returns(c) /\ clock' = clock
      BY <1>1 DEF CallNext, Records, RequestDeletion, CancelDeletion, Answers
    <2> HIDE DEF Moved
    <2> QED
      BY <2>1, <2>2, <2>3, <2>4
  <1>2. ASSUME UNCHANGED <<clock, call>> PROVE clock' = clock /\ Moved
    BY <1>2 DEF CallMoves
  <1>3. ASSUME NEW s \in Scans, ScanStep(s) \/ StorageFails(s) \/ ScanFails(s)
        PROVE  UNCHANGED <<clock, call>>
    BY <1>3 DEF ScanStep, FindExpired, TakeUser, ScanEnds, EraseRows, EraseCategories, EraseObjects,
                WriteAudit, DeleteUser, DeleteRefused, Notify, StorageFails, ScanFails, callVars
  <1>4. ASSUME NEW v \in Users, Block(v) \/ OpenSupportSession(v)
        PROVE  UNCHANGED <<clock, call>>
    BY <1>4 DEF Block, OpenSupportSession
  <1>5. UNCHANGED vars => UNCHANGED <<clock, call>>
    BY DEF vars
  <1> HIDE DEF Moved
  <1>6. Tick \/ (clock' = clock /\ Moved)
    BY <1>1, <1>2, <1>3, <1>4, <1>5 DEF Next
  <1> QED
    BY <1>6 DEF Moved

\* A scan comes by a user only through the query for those that are due.
LEMMA ScanKeepsTargets ==
  ASSUME TypeOK, [Next]_vars, NEW s \in Scans, NEW u \in Users, Targeted(s, u)'
  PROVE  Targeted(s, u) \/ (DueAt(u, clock) /\ user' = user)
  <1> scan \in [Scans -> ScanStates]
    BY DEF TypeOK
  <1>1. ASSUME NEW t \in Scans, ScanStep(t) \/ StorageFails(t) \/ ScanFails(t)
        PROVE  Targeted(s, u) \/ (DueAt(u, clock) /\ user' = user)
    <2> USE DEF Targeted, ScanStates
    <2>1. CASE FindExpired(t)
      BY <2>1 DEF FindExpired, Expired
    <2>2. ASSUME NEW v \in Users, TakeUser(t, v) PROVE Targeted(s, u)
      BY <2>2 DEF TakeUser
    <2>3. CASE ScanEnds(t) \/ DeleteRefused(t) \/ ScanFails(t)
      BY <2>3 DEF ScanEnds, DeleteRefused, ScanFails, Ends, NoScan
    <2>4. ASSUME NEW step, Moves(t, step),
                 scan[t].step \in {"rows", "categories", "objects", "audit"} \/ step \in {"next", "notify"}
          PROVE  Targeted(s, u)
      BY <2>4 DEF Moves
    <2>5. CASE Ends(t)
      BY <2>5 DEF Ends, NoScan
    <2>6. CASE EraseRows(t) \/ EraseCategories(t) \/ EraseObjects(t) \/ WriteAudit(t) \/ DeleteUser(t)
                 \/ Notify(t) \/ StorageFails(t)
      BY <2>4, <2>5, <2>6 DEF EraseRows, EraseCategories, EraseObjects, WriteAudit, DeleteUser,
         Notify, StorageFails
    <2> HIDE DEF Targeted
    <2> QED
      BY <1>1, <2>1, <2>2, <2>3, <2>6 DEF ScanStep
  <1>2. CASE UNCHANGED scan
    BY <1>2 DEF Targeted
  <1>3. ASSUME NEW c \in Calls, CallNext(c) PROVE UNCHANGED scan
    BY <1>3 DEF CallNext, Provision, Unblock, Reactivate, Records, RequestDeletion, CancelDeletion,
                 Answers, purgeVars
  <1>4. ASSUME NEW v \in Users, Block(v) \/ OpenSupportSession(v) PROVE UNCHANGED scan
    BY <1>4 DEF Block, OpenSupportSession, purgeVars
  <1>5. Tick \/ UNCHANGED vars => UNCHANGED scan
    BY DEF Tick, vars, purgeVars
  <1> QED
    BY <1>1, <1>2, <1>3, <1>4, <1>5 DEF Next

\* A cancellation that overtook a deadline is never forgotten.
LEMMA OvertakenStays == [Next]_vars => overtaken \subseteq overtaken'
  <1> SUFFICES ASSUME [Next]_vars PROVE overtaken \subseteq overtaken'
    OBVIOUS
  <1>1. ASSUME NEW c \in Calls, CallNext(c) PROVE overtaken \subseteq overtaken'
    BY <1>1 DEF CallNext, Provision, Unblock, Reactivate, Records, RequestDeletion, CancelDeletion, Answers
  <1>2. ASSUME NEW v \in Users, Block(v) \/ OpenSupportSession(v) PROVE overtaken' = overtaken
    BY <1>2 DEF Block, OpenSupportSession
  <1>3. ASSUME NEW s \in Scans, ScanStep(s) \/ StorageFails(s) \/ ScanFails(s)
        PROVE  overtaken' = overtaken
    BY <1>3 DEF ScanStep, FindExpired, TakeUser, ScanEnds, EraseRows, EraseCategories, EraseObjects,
                WriteAudit, DeleteUser, DeleteRefused, Notify, StorageFails, ScanFails, callVars
  <1>4. Tick \/ UNCHANGED vars => overtaken' = overtaken
    BY DEF Tick, vars
  <1> QED
    BY <1>1, <1>2, <1>3, <1>4 DEF Next

-----------------------------------------------------------------------------
\* Each row of a table keeps its type, whoever writes it.
LEMMA TypeStep == TypeOK /\ [Next]_vars => TypeOK'
  <1> SUFFICES ASSUME TypeOK, [Next]_vars PROVE TypeOK'
    OBVIOUS
  <1>1. ASSUME NEW c \in Calls, CallNext(c) PROVE TypeOK'
    <2> USE DEF TypeOK
    <2>1. ASSUME NEW v \in Users, Provision(c, v) PROVE TypeOK'
      <3>1. AfterRead(user[v].status) \in {"handling", "reactivating", "suspended"}
        BY <2>1 DEF Provision, AfterRead, UserRows
      <3>2. call' \in [Calls -> CallStates]
        BY <2>1, <3>1 DEF Provision, CallStates
      <3>3. /\ user' \in [Users -> UserRows]
            /\ \A u \in Users : user'[u].status = "pending_deletion" => user'[u].requestedAt # Never
        BY <2>1 DEF Provision, UserRows
      <3> QED
        BY <2>1, <3>2, <3>3, BoundsAssumption DEF Provision, purgeVars
    <2>2. ASSUME NEW v \in Users, Unblock(c, v) PROVE TypeOK'
      <3>1. call' \in [Calls -> CallStates]
        BY <2>2 DEF Unblock, CallStates
      <3> QED
        BY <2>2, <3>1, BoundsAssumption DEF Unblock, purgeVars
    <2>3. SomeUser \in Users
      BY BoundsAssumption DEF SomeUser
    <2>4. ASSUME Returns(c) PROVE call' \in [Calls -> CallStates]
      BY <2>3, <2>4, BoundsAssumption DEF Returns, NoCall, CallStates
    <2>5. CASE Reactivate(c)
      <3>1. call' \in [Calls -> CallStates]
        <4>1. CASE call[c].step = "reactivating"
          BY <2>5, <4>1 DEF Reactivate, Goes, CallStates
        <4>2. CASE call[c].step # "reactivating"
          BY <2>4, <2>5, <4>2 DEF Reactivate
        <4> QED
          BY <4>1, <4>2
      <3>2. /\ user' \in [Users -> UserRows]
            /\ \A u \in Users : user'[u].status = "pending_deletion" => user'[u].requestedAt # Never
        BY <2>5 DEF Reactivate, Becomes, UserRows, CallStates
      <3> QED
        BY <2>5, <3>1, <3>2 DEF Reactivate, purgeVars
    <2>6. ASSUME NEW kind \in {"records", "custom_category", "objects"}, Records(c, kind) PROVE TypeOK'
      <3>1. holds' \in [Users -> SUBSET Kinds] /\ made' \in 0..MaxRows
        BY <2>6, BoundsAssumption DEF Records, CallStates, Kinds
      <3> QED
        BY <2>4, <2>6, <3>1 DEF Records, purgeVars
    <2>7. CASE RequestDeletion(c)
      <3>1. call[c].now \in 1..MaxTime /\ call[c].of \in Users
        BY DEF CallStates
      <3>2. /\ user' \in [Users -> UserRows]
            /\ \A u \in Users : user'[u].status = "pending_deletion" => user'[u].requestedAt # Never
        BY <2>7, <3>1 DEF RequestDeletion, UserRows, Never
      <3> QED
        BY <2>4, <2>7, <3>2 DEF RequestDeletion, purgeVars
    <2>8. CASE CancelDeletion(c)
      <3>1. /\ user' \in [Users -> UserRows]
            /\ \A u \in Users : user'[u].status = "pending_deletion" => user'[u].requestedAt # Never
        BY <2>8, BoundsAssumption DEF CancelDeletion, Cancelled, UserRows, Never, CallStates
      <3>2. overtaken' \in SUBSET Users
        BY <2>8 DEF CancelDeletion, CallStates
      <3> QED
        BY <2>4, <2>8, <3>1, <3>2 DEF CancelDeletion, purgeVars
    <2>9. CASE Answers(c)
      BY <2>4, <2>9 DEF Answers, purgeVars
    <2> QED
      BY <1>1, <2>1, <2>2, <2>5, <2>6, <2>7, <2>8, <2>9 DEF CallNext
  <1>2. ASSUME NEW v \in Users, Block(v) \/ OpenSupportSession(v) PROVE TypeOK'
    <2>1. CASE Block(v)
      BY <2>1 DEF Block, Becomes, UserRows, purgeVars, TypeOK
    <2>2. CASE OpenSupportSession(v)
      BY <2>2, BoundsAssumption DEF OpenSupportSession, Kinds, purgeVars, TypeOK
    <2> QED
      BY <1>2, <2>1, <2>2
  <1>3. ASSUME NEW s \in Scans, ScanStep(s) \/ StorageFails(s) \/ ScanFails(s) PROVE TypeOK'
    <2> USE DEF TypeOK, callVars
    <2>1. scan[s] \in ScanStates /\ Expired \in SUBSET Users /\ SomeUser \in Users
      BY BoundsAssumption DEF Expired, SomeUser
    <2>2. ASSUME NEW step \in {"next", "rows", "categories", "objects", "audit", "user", "notify"},
                 Moves(s, step)
          PROVE  scan' \in [Scans -> ScanStates]
      BY <2>2 DEF Moves, ScanStates
    <2>3. ASSUME Ends(s) PROVE scan' \in [Scans -> ScanStates]
      BY <2>1, <2>3 DEF Ends, NoScan, ScanStates
    <2>4. CASE FindExpired(s) \/ \E u \in Users : TakeUser(s, u)
      <3>1. scan' \in [Scans -> ScanStates]
        BY <2>1, <2>4 DEF FindExpired, TakeUser, ScanStates
      <3> QED
        BY <2>4, <3>1 DEF FindExpired, TakeUser
    <2>5. CASE ScanEnds(s) \/ EraseCategories(s) \/ DeleteRefused(s)
      BY <2>2, <2>3, <2>5 DEF ScanEnds, EraseCategories, DeleteRefused
    <2>6. CASE EraseRows(s) \/ EraseObjects(s)
      <3>1. holds' \in [Users -> SUBSET Kinds]
        BY <2>1, <2>6 DEF EraseRows, EraseObjects, ScanStates
      <3> QED
        BY <2>2, <2>6, <3>1 DEF EraseRows, EraseObjects
    <2>7. CASE WriteAudit(s) \/ Notify(s)
      <3>1. scan[s].of \in Users
        BY <2>1 DEF ScanStates
      <3> QED
        BY <2>2, <2>7, <3>1 DEF WriteAudit, Notify
    <2>8. CASE DeleteUser(s)
      <3>1. /\ user' \in [Users -> UserRows]
            /\ \A u \in Users : user'[u].status = "pending_deletion" => user'[u].requestedAt # Never
        <4>1. user' = [user EXCEPT ![scan[s].of] = [status |-> "purged", requestedAt |-> Never]]
          BY <2>8 DEF DeleteUser
        <4>2. [status |-> "purged", requestedAt |-> Never] \in UserRows
          BY BoundsAssumption DEF UserRows, Never
        <4> HIDE <1>3, <2>8
        <4> QED
          BY <4>1, <4>2
      <3> QED
        BY <2>2, <2>8, <3>1 DEF DeleteUser
    <2>9. CASE StorageFails(s) \/ ScanFails(s)
      <3>1. failures' \in 0..MaxFailures
        BY <2>9, BoundsAssumption DEF StorageFails, ScanFails
      <3> QED
        BY <2>2, <2>3, <2>9, <3>1 DEF StorageFails, ScanFails
    <2> QED
      BY <1>3, <2>4, <2>5, <2>6, <2>7, <2>8, <2>9 DEF ScanStep
  <1>4. CASE Tick
    BY <1>4, BoundsAssumption DEF Tick, TypeOK, purgeVars
  <1>5. CASE UNCHANGED vars
    BY <1>5 DEF vars, TypeOK
  <1> QED
    BY <1>1, <1>2, <1>3, <1>4, <1>5 DEF Next

-----------------------------------------------------------------------------
\* The clock waits for the calls of its last tick.
LEMMA RecentStep == TypeOK /\ CallsAreRecent /\ [Next]_vars => CallsAreRecent'
  <1> SUFFICES ASSUME TypeOK, CallsAreRecent, [Next]_vars, NEW c \in Calls, call'[c].step # "idle"
               PROVE  call'[c].now <= clock' /\ clock' <= call'[c].now + 1
    BY DEF CallsAreRecent
  <1> clock \in Nat /\ call[c] \in CallStates
    BY DEF TypeOK
  <1>1. CASE Tick
    BY <1>1 DEF Tick, CallStates
  <1>2. CASE clock' = clock /\ CallMoves(c)
    <2>1. CASE call'[c] = call[c]
      BY <1>2, <2>1 DEF CallsAreRecent
    <2>2. CASE call[c].step = "reactivating" /\ call'[c] = [call[c] EXCEPT !.step = "handling"]
      BY <1>2, <2>2 DEF CallsAreRecent, CallStates
    <2>3. ASSUME NEW u, NEW step, call'[c] = [step |-> step, of |-> u, now |-> clock]
          PROVE  call'[c].now <= clock' /\ clock' <= call'[c].now + 1
      BY <1>2, <2>3
    <2>4. call'[c] # NoCall
      BY DEF NoCall
    <2> QED
      BY <1>2, <2>1, <2>2, <2>3, <2>4 DEF CallMoves
  <1> QED
    BY <1>1, <1>2, CallStep

\* A request for deletion is timed by the clock its update has read, which is at
\* most a tick behind; whoever would take it back unknowingly has read the row
\* before, and is answered within a tick.
LEMMA ReactivationStep ==
  TypeOK /\ CallsAreRecent /\ ReactivationsCameFirst /\ [Next]_vars => ReactivationsCameFirst'
  <1> SUFFICES ASSUME TypeOK, CallsAreRecent, ReactivationsCameFirst, [Next]_vars, NEW c \in Calls,
                      call'[c].step \in {"reactivating", "unblocking"},
                      user'[call'[c].of].status = "pending_deletion"
               PROVE  call'[c].now <= user'[call'[c].of].requestedAt + 1
    BY DEF ReactivationsCameFirst
  <1> DEFINE u == call'[c].of
  <1>1. CASE call'[c] = call[c]
    <2>1. u \in Users /\ call[c].now \in Nat /\ clock \in Nat /\ user[u] \in UserRows
      BY <1>1 DEF TypeOK, CallStates
    <2>2. UserMoves(u)
      BY <2>1, UserStep
    <2>3. CASE user'[u] = user[u]
      BY <1>1, <2>3 DEF ReactivationsCameFirst
    <2>4. ASSUME NEW d \in Calls, call[d].step = "handling",
                 user'[u] = [status |-> "pending_deletion", requestedAt |-> call[d].now]
          PROVE  call'[c].now <= user'[u].requestedAt + 1
      <3>1. call[c].now <= clock /\ clock <= call[d].now + 1 /\ call[d].now \in Nat
        BY <1>1, <2>4 DEF CallsAreRecent, TypeOK, CallStates
      <3> QED
        BY <1>1, <2>1, <2>4, <3>1
    <2> HIDE DEF u
    <2>5. user'[u] = user[u] \/ user'[u].status # "pending_deletion"
            \/ \E d \in Calls : call[d].step = "handling"
                 /\ user'[u] = [status |-> "pending_deletion", requestedAt |-> call[d].now]
      BY <2>1, <2>2 DEF UserMoves, UserRows, Cancelled
    <2> QED
      BY <2>3, <2>4, <2>5 DEF u
  <1>2. CASE call'[c] # call[c]
    <2>1. u \in Users /\ user[u].status = "deactivated"
      <3>1. CallMoves(c)
        BY <1>2, CallStep DEF Tick
      <3>2. \A v \in Users : user[v].status # "deactivated" /\ user[v].status # "purged" =>
              AfterRead(user[v].status) \in {"handling", "suspended"}
        BY DEF AfterRead, TypeOK, UserRows
      <3>3. call'[c] # NoCall /\ call'[c].step # "handling"
        BY DEF NoCall
      <3>4. CASE call[c].step = "reactivating" /\ call'[c] = [call[c] EXCEPT !.step = "handling"]
        BY <3>3, <3>4 DEF TypeOK, CallStates
      <3>5. ASSUME NEW v \in Users, user[v].status # "purged",
                   call'[c] = [step |-> AfterRead(user[v].status), of |-> v, now |-> clock]
            PROVE  u \in Users /\ user[u].status = "deactivated"
        BY <3>2, <3>5
      <3>6. ASSUME NEW v \in Users, user[v].status = "deactivated",
                   call'[c] = [step |-> "unblocking", of |-> v, now |-> clock]
            PROVE  u \in Users /\ user[u].status = "deactivated"
        BY <3>6
      <3> QED
        BY <1>2, <3>1, <3>3, <3>4, <3>5, <3>6 DEF CallMoves
    <2>2. UserMoves(u) /\ user[u] \in UserRows
      BY <2>1, UserStep DEF TypeOK
    <2> HIDE DEF u
    <2>3. user'[u].status # "pending_deletion"
      BY <2>1, <2>2 DEF UserMoves, UserRows, Cancelled
    <2> QED
      BY <2>3 DEF u
  <1> QED
    BY <1>1, <1>2

\* A reactivation never meets a deletion that is due.
LEMMA NoDueReactivation ==
  ASSUME IInv, NEW c \in Calls, call[c].step \in {"reactivating", "unblocking"},
         user[call[c].of].status = "pending_deletion"
  PROVE  clock - user[call[c].of].requestedAt <= 2
  <1>1. /\ clock \in Nat /\ call[c].now \in Nat /\ user[call[c].of].requestedAt \in Nat
    BY DEF IInv, TypeOK, CallStates, UserRows, Never
  <1>2. clock <= call[c].now + 1 /\ call[c].now <= user[call[c].of].requestedAt + 1
    BY DEF IInv, CallsAreRecent, ReactivationsCameFirst
  <1> QED
    BY <1>1, <1>2

\* The due date of a user is taken back only by a cancellation that overtook it,
\* or by the purge.
LEMMA DueStays ==
  ASSUME IInv, [Next]_vars, NEW u \in Users, DueAt(u, clock)
  PROVE  DueAt(u, clock)' \/ u \in overtaken' \/ user'[u].status = "purged"
  <1>1. /\ user[u].status = "pending_deletion" /\ user[u] \in UserRows
        /\ user[u].requestedAt \in Nat /\ clock \in Nat /\ Grace \in Nat /\ Grace >= 3
        /\ user[u].requestedAt + Grace <= clock
    BY GraceAssumption DEF DueAt, IInv, TypeOK, UserRows, Never
  <1>2. clock' \in Nat /\ clock <= clock'
    BY <1>1, CallStep DEF IInv, Tick
  <1>3. CASE user'[u] = user[u]
    BY <1>1, <1>2, <1>3 DEF DueAt
  <1>4. ~ \E c \in Calls : call[c].step \in {"reactivating", "unblocking"} /\ call[c].of = u
    BY <1>1, NoDueReactivation
  <1>5. UserMoves(u)
    BY UserStep DEF IInv
  <1> QED
    BY <1>1, <1>3, <1>4, <1>5 DEF UserMoves

\* So a scan's list stays good as it ages.
LEMMA TargetsStep == IInv /\ TypeOK' /\ [Next]_vars => TargetsAreDue'
  <1> SUFFICES ASSUME IInv, [Next]_vars, NEW s \in Scans, NEW u \in Users, Targeted(s, u)'
               PROVE  DueAt(u, clock)' \/ u \in overtaken' \/ user'[u].status = "purged"
    BY DEF TargetsAreDue
  <1>1. CASE DueAt(u, clock)
    BY <1>1, DueStays
  <1>2. CASE u \in overtaken
    BY <1>2, OvertakenStays
  <1>3. CASE user[u].status = "purged"
    <2>1. UserMoves(u)
      BY UserStep DEF IInv
    <2> QED
      BY <1>3, <2>1 DEF UserMoves, Exists
  <1>4. Targeted(s, u) \/ DueAt(u, clock)
    BY ScanKeepsTargets DEF IInv
  <1> QED
    BY <1>1, <1>2, <1>3, <1>4 DEF IInv, TargetsAreDue

\* The three hold of every state.
LEMMA Invariance == Spec => []IInv
  <1>1. IInv /\ [Next]_vars => IInv'
    BY TypeStep, RecentStep, ReactivationStep, TargetsStep DEF IInv
  <1> QED
    BY InitIInv, <1>1, PTL DEF Spec

-----------------------------------------------------------------------------
\* The tables keep their types, and a pending deletion always has its date.
THEOREM TypeCorrect == Spec => []TypeOK
  <1>1. IInv => TypeOK
    BY DEF IInv
  <1> QED
    BY <1>1, Invariance, PTL

\* PrismaAccountPurgeRepository deletes a user only after the grace period, however
\* old the scan's list: cancellation and purge exclude each other.
THEOREM PurgesWereDue == Spec => PurgedWasDue
  <1>1. IInv /\ [Next]_vars =>
          [\A u \in Users : user'[u].status = "purged" /\ user[u].status # "purged" =>
                           DueAt(u, clock) \/ u \in overtaken]_vars
    <2> SUFFICES ASSUME IInv, [Next]_vars, NEW u \in Users,
                        user'[u].status = "purged", user[u].status # "purged"
                 PROVE  DueAt(u, clock) \/ u \in overtaken
      OBVIOUS
    <2>1. UserMoves(u) /\ user[u] \in UserRows
      BY UserStep DEF IInv, TypeOK
    <2>2. user'[u] # user[u] /\ user'[u] # Cancelled
      BY DEF Cancelled
    <2>3. /\ user'[u] # [user[u] EXCEPT !.status = "active"]
          /\ user'[u] # [user[u] EXCEPT !.status = "deactivated"]
      BY <2>1 DEF UserRows
    <2>4. \A c \in Calls : user'[u] # [status |-> "pending_deletion", requestedAt |-> call[c].now]
      OBVIOUS
    <2>5. \E s \in Scans : Targeted(s, u)
      BY <2>1, <2>2, <2>3, <2>4 DEF UserMoves
    <2> QED
      BY <2>5 DEF IInv, TargetsAreDue
  <1> QED
    BY <1>1, Invariance, PTL DEF Spec, PurgedWasDue

\* UserRepository.reactivate undoes no request for deletion but one it overlaps.
THEOREM RequestsAreKept == Spec => RequestsStand
  <1>1. IInv /\ [Next]_vars =>
          [\A u \in Users :
             user[u].status = "pending_deletion" /\ user'[u].status # "pending_deletion" =>
               \/ user'[u] = Cancelled \/ user'[u].status = "purged"
               \/ clock - user[u].requestedAt <= 2]_vars
    <2> SUFFICES ASSUME IInv, [Next]_vars, NEW u \in Users,
                        user[u].status = "pending_deletion", user'[u].status # "pending_deletion"
                 PROVE  \/ user'[u] = Cancelled \/ user'[u].status = "purged"
                        \/ clock - user[u].requestedAt <= 2
      OBVIOUS
    <2>1. UserMoves(u)
      BY UserStep DEF IInv
    <2> QED
      BY <2>1, NoDueReactivation DEF UserMoves
  <1> QED
    BY <1>1, Invariance, PTL DEF Spec, RequestsStand

\* Both: scans, cancellations and reactivations keep out of each other's way.
THEOREM DeletionsStayHonoured == Spec => DeletionsAreHonoured
  BY PurgesWereDue, RequestsAreKept DEF DeletionsAreHonoured

(***************************************************************************)
(* For any number of overlapping requests, any threshold, any schedule of  *)
(* lockouts and any lifetimes: every failure that is written is counted, a *)
(* running lock is left alone, and a session ends when it has to.          *)
(***************************************************************************)

LockStates == [attempts : 0..(Threshold - 1), since : Nat, until : Nat, cycles : Nat]

CodeSteps == {"challenged", "code", "consuming", "resetting", "opening"}
VisitSteps == {"found", "touching", "revoking"}

StepNames == {"idle", "password", "failing", "again"} \cup CodeSteps \cup VisitSteps

RequestStates ==
  [step : StepNames,
   now : Nat, saw : LockStates, tries : Nat, of : Nat]

Challenges == [expires : Nat, used : BOOLEAN]

Sessions ==
  [last : Nat, expires : Nat, revoked : BOOLEAN, used : Nat, pause : Nat, ended : Nat,
   challenge : Nat, began : Nat, opened : Nat]

LoginTypeOK ==
  /\ time \in Nat \ {0} /\ requests \in Nat /\ counted \in Nat /\ forgotten \in Nat
  /\ active \in BOOLEAN
  /\ lockout \in LockStates
  /\ challenge \in Seq(Challenges)
  /\ session \in Seq(Sessions)
  /\ request \in [Requests -> RequestStates]

\* A request is timed when it begins.
RequestsHaveBegun == \A c \in Requests : request[c].now <= time

\* A request in the middle of its code step: it began before any session its
\* challenge has opened by now.
CodeStepStands(c) ==
  request[c].step \in CodeSteps =>
    /\ request[c].of \in DOMAIN challenge
    /\ request[c].step \in {"resetting", "opening"} => challenge[request[c].of].used
    /\ \A s \in DOMAIN session :
         session[s].challenge = request[c].of => request[c].now <= session[s].opened

\* A request the guard is about to admit: what was true of its session when it
\* was read is still true of the time it was read at.
VisitStands(c) ==
  request[c].step \in VisitSteps =>
    /\ request[c].of \in DOMAIN session
    /\ request[c].step # "revoking" =>
         /\ request[c].now < session[request[c].of].expires
         /\ request[c].now - session[request[c].of].used <= IdleTimeout
         /\ session[request[c].of].ended # Unset => request[c].now <= session[request[c].of].ended

\* A session was opened by a challenge that is used up, and its columns are in order.
SessionStands(s) ==
  /\ session[s].challenge \in DOMAIN challenge
  /\ challenge[session[s].challenge].used
  /\ session[s].opened <= time /\ session[s].used <= time
  /\ session[s].last <= session[s].used
  /\ session[s].ended # Unset => session[s].revoked
  /\ session[s].used > session[s].opened => session[s].used < session[s].expires
  /\ session[s].ended # Unset => session[s].used <= session[s].ended
  /\ session[s].pause <= IdleTimeout

OpenedOnce ==
  \A s, t \in DOMAIN session :
    s < t /\ session[s].challenge = session[t].challenge => session[t].began <= session[s].opened

AllStand ==
  /\ \A c \in Requests : CodeStepStands(c) /\ VisitStands(c)
  /\ \A s \in DOMAIN session : SessionStands(s)
  /\ OpenedOnce

LoginInv == LoginTypeOK /\ RequestsHaveBegun /\ FailuresAddUp /\ AllStand

-----------------------------------------------------------------------------
\* Nothing has happened yet.
LEMMA InitLoginInv == LoginInit => LoginInv
  <1> SUFFICES ASSUME LoginInit PROVE LoginInv
    OBVIOUS
  <1> USE LoginAssumption
  <1>1. Clear \in LockStates
    BY DEF Clear, LockStates, Unset
  <1>2. LoginTypeOK
    BY <1>1 DEF LoginInit, LoginTypeOK, Idle, RequestStates, StepNames
  <1>3. RequestsHaveBegun
    BY DEF LoginInit, RequestsHaveBegun, Idle
  <1>4. FailuresAddUp
    BY DEF LoginInit, FailuresAddUp, Clear
  <1>5. AllStand
    BY DEF LoginInit, AllStand, CodeStepStands, VisitStands, SessionStands, OpenedOnce, Idle,
           CodeSteps, VisitSteps
  <1> QED
    BY <1>2, <1>3, <1>4, <1>5 DEF LoginInv

-----------------------------------------------------------------------------
\* The back-off of every cycle is in the schedule, and an outcome is a state of
\* the lockout again, fewer failures short of a lock than the threshold.
LEMMA BackoffIsScheduled ==
  ASSUME NEW cycle \in Nat \ {0} PROVE Backoff(cycle) \in Nat
  BY LoginAssumption DEF Backoff

LEMMA CountsToALock ==
  ASSUME NEW state \in LockStates, NEW now \in Nat
  PROVE  Counts(state, now) \in LockStates
  <1> DEFINE attempts == IF WindowExpired(state, now) THEN 1 ELSE state.attempts + 1
  <1>1. /\ state.attempts \in 0..(Threshold - 1) /\ state.since \in Nat
        /\ state.until \in Nat /\ state.cycles \in Nat
    BY DEF LockStates
  <1>2. Backoff(state.cycles + 1) \in Nat
    BY <1>1, BackoffIsScheduled
  <1>3. CASE attempts >= Threshold
    BY <1>1, <1>2, <1>3, LoginAssumption DEF Counts, LockStates, Unset
  <1>4. CASE ~(attempts >= Threshold)
    BY <1>1, <1>4, LoginAssumption DEF Counts, LockStates, Unset
  <1> QED
    BY <1>3, <1>4

\* One failure more, whether the window goes on, begins again or is full.
LEMMA CountsByOne ==
  ASSUME NEW state \in LockStates, NEW now \in Nat,
         NEW before \in Nat, NEW lost \in Nat,
         before = Threshold * state.cycles + state.attempts + lost
  PROVE  LET after == Counts(state, now)
             gone == lost + IF WindowExpired(state, now) THEN state.attempts ELSE 0
         IN before + 1 = Threshold * after.cycles + after.attempts + gone
  <1> DEFINE fresh == WindowExpired(state, now)
             attempts == IF fresh THEN 1 ELSE state.attempts + 1
             after == Counts(state, now)
             gone == lost + IF fresh THEN state.attempts ELSE 0
  <1>1. /\ state.attempts \in 0..(Threshold - 1) /\ state.cycles \in Nat
        /\ Threshold \in Nat \ {0}
    BY LoginAssumption DEF LockStates
  <1>2. Threshold * (state.cycles + 1) = Threshold * state.cycles + Threshold
    BY <1>1
  <1>3. Threshold * state.cycles \in Nat
    BY <1>1
  <1>4. CASE attempts >= Threshold
    <2>1. after.attempts = 0 /\ after.cycles = state.cycles + 1
      BY <1>4 DEF Counts
    <2>2. attempts = Threshold
      <3>1. CASE fresh
        BY <1>1, <1>4, <3>1
      <3>2. CASE ~fresh
        BY <1>1, <1>4, <3>2
      <3> QED
        BY <3>1, <3>2
    <2> QED
      BY <1>1, <1>2, <1>3, <2>1, <2>2
  <1>5. CASE ~(attempts >= Threshold)
    <2>1. after.attempts = attempts /\ after.cycles = state.cycles
      BY <1>5 DEF Counts
    <2> QED
      BY <1>1, <1>3, <2>1
  <1> QED
    BY <1>4, <1>5


-----------------------------------------------------------------------------
\* The steps of Next, named once for the proofs that go through them.
Steps(c) ==
  \/ LoginReads(c) \/ PasswordRight(c) \/ Wrong(c)
  \/ WriteFailure(c) \/ LosesWrite(c) \/ ReadsAgain(c)
  \/ ReadsAdmin(c) \/ CodeRight(c) \/ Consume(c) \/ Reset(c) \/ OpenSession(c)
  \/ ChecksAdmin(c) \/ Touch(c) \/ Revoke(c) \/ Dies(c)
  \/ \E h \in DOMAIN challenge : GetChallenge(c, h)
  \/ \E s \in DOMAIN session : FindSession(c, s) \/ Logout(c, s)

LEMMA NextIsSteps ==
  ASSUME [LoginNext]_loginVars
  PROVE  \/ TimePasses \/ Deactivate
         \/ \E c \in Requests : Steps(c)
         \/ UNCHANGED loginVars
  BY DEF LoginNext, Steps

LEMMA MaxOfTwo ==
  ASSUME NEW a \in Int, NEW b \in Int
  PROVE  Max({a, b}) = IF a >= b THEN a ELSE b
  BY DEF Max

LEMMA ClearIsALockState == Clear \in LockStates
  BY LoginAssumption DEF Clear, LockStates, Unset

LEMMA IdleIsARequestState == Idle \in RequestStates
  BY ClearIsALockState DEF Idle, RequestStates, StepNames

\* Every step of a request rewrites its own record and no other, and it is timed
\* no later than now.
LEMMA RequestStep ==
  ASSUME LoginTypeOK, RequestsHaveBegun, NEW c \in Requests, Steps(c)
  PROVE  \E r \in RequestStates :
           r.now <= time /\ request' = [request EXCEPT ![c] = r]
  <1> DEFINE Rewrites(r) ==
               r \in RequestStates /\ r.now <= time /\ request' = [request EXCEPT ![c] = r]
  <1> SUFFICES \E r : Rewrites(r)
    OBVIOUS
  <1>0. /\ request[c] \in RequestStates /\ request[c].now <= time
        /\ request \in [Requests -> RequestStates]
        /\ Idle \in RequestStates /\ Idle.now <= time /\ time \in Nat
        /\ lockout \in LockStates
        /\ DOMAIN challenge \in SUBSET Nat /\ DOMAIN session \in SUBSET Nat
    BY IdleIsARequestState DEF RequestsHaveBegun, LoginTypeOK, Idle
  <1>1. ASSUME Finishes(c) PROVE \E r : Rewrites(r)
    <2>1. Rewrites(Idle)
      BY <1>0, <1>1 DEF Finishes
    <2> QED
      BY <2>1
  <1>2. ASSUME NEW step \in StepNames, MovesTo(c, step) PROVE \E r : Rewrites(r)
    <2>1. Rewrites([request[c] EXCEPT !.step = step])
      BY <1>0, <1>2 DEF MovesTo, RequestStates
    <2> QED
      BY <2>1
  <1>3. ASSUME NEW step \in StepNames, NEW what \in Nat, Begins(c, step, what)
        PROVE  \E r : Rewrites(r)
    <2> DEFINE s == [Idle EXCEPT !.step = step, !.now = time, !.of = what]
    <2>1. s \in RequestStates
      BY <1>0 DEF RequestStates
    <2>2. s.now = time
      BY <1>0 DEF RequestStates
    <2>3. request' = [request EXCEPT ![c] = s]
      BY <1>3 DEF Begins
    <2>4. Rewrites(s)
      BY <1>0, <2>1, <2>2, <2>3
    <2> QED
      BY <2>4
  <1> USE DEF StepNames, CodeSteps, VisitSteps
  <1>4. CASE LoginReads(c)
    <2> DEFINE s == [Idle EXCEPT !.step = "password", !.now = time, !.saw = lockout]
    <2>1. s \in RequestStates
      BY <1>0 DEF RequestStates
    <2>2. s.now = time
      BY <1>0 DEF RequestStates
    <2>3. request' = [request EXCEPT ![c] = s]
      BY <1>4 DEF LoginReads
    <2>4. Rewrites(s)
      BY <1>0, <2>1, <2>2, <2>3
    <2> QED
      BY <2>4
  <1>5. CASE ReadsAgain(c)
    <2>1. CASE request[c].tries + 1 < Retries
      <3>1. Rewrites([request[c] EXCEPT !.step = "failing", !.saw = lockout, !.tries = @ + 1])
        BY <1>0, <1>5, <2>1 DEF ReadsAgain, RequestStates
      <3> QED
        BY <3>1
    <2>2. CASE ~(request[c].tries + 1 < Retries)
      BY <1>1, <1>5, <2>2 DEF ReadsAgain
    <2> QED
      BY <2>1, <2>2
  <1>6. CASE ReadsAdmin(c)
    <2>1. CASE active /\ ~Locked(lockout, request[c].now)
      <3>1. Rewrites([request[c] EXCEPT !.step = "code", !.saw = lockout])
        BY <1>0, <1>6, <2>1 DEF ReadsAdmin, RequestStates
      <3> QED
        BY <3>1
    <2>2. CASE ~(active /\ ~Locked(lockout, request[c].now))
      BY <1>1, <1>6, <2>2 DEF ReadsAdmin
    <2> QED
      BY <2>1, <2>2
  <1>7. CASE LosesWrite(c)
    BY <1>2, <1>7 DEF LosesWrite, MovesTo
  <1>8. CASE Wrong(c) \/ CodeRight(c) \/ Consume(c) \/ Reset(c)
    BY <1>2, <1>8 DEF Wrong, CodeRight, Consume, Reset
  <1>9. CASE ChecksAdmin(c)
    BY <1>2, <1>9 DEF ChecksAdmin
  <1>10. CASE PasswordRight(c) \/ WriteFailure(c) \/ OpenSession(c) \/ Touch(c) \/ Revoke(c) \/ Dies(c)
    BY <1>1, <1>10 DEF PasswordRight, WriteFailure, OpenSession, Touch, Revoke, Dies
  <1>11. ASSUME NEW h \in DOMAIN challenge, GetChallenge(c, h) PROVE \E r : Rewrites(r)
    BY <1>0, <1>3, <1>11 DEF GetChallenge
  <1>12. ASSUME NEW s \in DOMAIN session, FindSession(c, s) PROVE \E r : Rewrites(r)
    BY <1>0, <1>3, <1>12 DEF FindSession
  <1>13. ASSUME NEW s \in DOMAIN session, Logout(c, s) PROVE \E r : Rewrites(r)
    BY <1>0, <1>3, <1>13 DEF Logout
  <1> QED
    BY <1>4, <1>5, <1>6, <1>7, <1>8, <1>9, <1>10, <1>11, <1>12, <1>13 DEF Steps

-----------------------------------------------------------------------------
\* The row of the lockout: written by a failure that is counted, or cleared.
LEMMA LockStep ==
  ASSUME LoginTypeOK, RequestsHaveBegun, FailuresAddUp, NEW c \in Requests, Steps(c)
  PROVE  /\ lockout' \in LockStates /\ counted' \in Nat /\ forgotten' \in Nat
         /\ FailuresAddUp'
         /\ Locked(lockout, time) /\ lockout' # lockout => lockout' = Clear
  <1>0. /\ lockout \in LockStates /\ counted \in Nat /\ forgotten \in Nat /\ time \in Nat
        /\ request[c] \in RequestStates /\ request[c].now <= time /\ request[c].now \in Nat
        /\ lockout.until \in Nat /\ lockout.attempts \in Nat
        /\ counted = Threshold * lockout.cycles + lockout.attempts + forgotten
    BY LoginAssumption DEF LoginTypeOK, RequestsHaveBegun, RequestStates, LockStates, FailuresAddUp
  <1>1. CASE WriteFailure(c)
    <2> DEFINE now == request[c].now
    <2>1. lockout = request[c].saw /\ lockout' = Outcome(lockout, now)
      BY <1>1 DEF WriteFailure, MayWrite
    <2>2. CASE Locked(lockout, now)
      <3>1. UNCHANGED <<lockout, counted, forgotten>>
        BY <1>1, <2>1, <2>2 DEF WriteFailure, Outcome
      <3> QED
        BY <1>0, <3>1 DEF FailuresAddUp
    <2>3. CASE ~Locked(lockout, now)
      <3>1. lockout' = Counts(lockout, now)
        BY <2>1, <2>3 DEF Outcome
      <3>2. /\ counted' = counted + 1
            /\ forgotten' = forgotten + IF WindowExpired(lockout, now) THEN lockout.attempts ELSE 0
        BY <1>1, <2>1, <2>3 DEF WriteFailure
      <3>3. lockout' \in LockStates /\ counted' \in Nat /\ forgotten' \in Nat
        <4>1. lockout' \in LockStates
          BY <1>0, <3>1, CountsToALock
        <4>2. counted' \in Nat
          BY <1>0, <3>2
        <4>3. forgotten' = forgotten + lockout.attempts \/ forgotten' = forgotten + 0
          BY <3>2
        <4>4. forgotten' \in Nat
          BY <1>0, <4>3
        <4> QED
          BY <4>1, <4>2, <4>4
      <3>4. FailuresAddUp'
        BY <1>0, <3>1, <3>2, CountsByOne DEF FailuresAddUp
      <3>5. ~Locked(lockout, time)
        BY <1>0, <2>3 DEF Locked
      <3> QED
        BY <3>3, <3>4, <3>5
    <2> QED
      BY <2>2, <2>3
  <1>2. CASE Reset(c)
    <2>1. lockout' = Clear /\ counted' = 0 /\ forgotten' = 0
      BY <1>2 DEF Reset
    <2>2. FailuresAddUp'
      BY <2>1, LoginAssumption DEF FailuresAddUp, Clear
    <2> QED
      BY <2>1, <2>2, ClearIsALockState
  <1>3. CASE ~WriteFailure(c) /\ ~Reset(c)
    <2>1. UNCHANGED <<lockout, counted, forgotten>>
      BY <1>3 DEF Steps, LoginReads, PasswordRight, Wrong, LosesWrite, ReadsAgain, ReadsAdmin,
                  CodeRight, Consume, OpenSession, ChecksAdmin, Touch, Revoke, Dies,
                  GetChallenge, FindSession, Logout, lockVars
    <2> QED
      BY <1>0, <2>1 DEF FailuresAddUp
  <1> QED
    BY <1>1, <1>2, <1>3

-----------------------------------------------------------------------------
\* A step that touches neither challenges nor sessions leaves everything as it
\* stands if its own request does.
LEMMA QuietStep ==
  ASSUME AllStand, UNCHANGED <<challenge, session, time>>, NEW c \in Requests,
         \A d \in Requests \ {c} : request'[d] = request[d],
         CodeStepStands(c)', VisitStands(c)'
  PROVE  AllStand'
  <1>1. ASSUME NEW d \in Requests \ {c} PROVE CodeStepStands(d)' /\ VisitStands(d)'
    <2>1. request'[d] = request[d] /\ CodeStepStands(d) /\ VisitStands(d)
      BY DEF AllStand
    <2> QED
      BY <2>1 DEF CodeStepStands, VisitStands
  <1>2. \A d \in Requests : CodeStepStands(d)' /\ VisitStands(d)'
    BY <1>1
  <1>3. \A s \in DOMAIN session' : SessionStands(s)'
    BY DEF AllStand, SessionStands
  <1>4. OpenedOnce'
    BY DEF AllStand, OpenedOnce
  <1> QED
    BY <1>2, <1>3, <1>4 DEF AllStand

\* A request outside its code step and its visit has nothing to stand by.
LEMMA NothingToStandBy ==
  ASSUME NEW c \in Requests, request'[c].step \notin CodeSteps \cup VisitSteps
  PROVE  CodeStepStands(c)' /\ VisitStands(c)'
  BY DEF CodeStepStands, VisitStands

LEMMA QuietStepsStand ==
  ASSUME LoginTypeOK, AllStand, NEW c \in Requests,
         \A d \in Requests \ {c} : request'[d] = request[d],
         \/ LoginReads(c) \/ Wrong(c) \/ WriteFailure(c) \/ LosesWrite(c) \/ ReadsAgain(c) \/ Dies(c)
         \/ ReadsAdmin(c) \/ CodeRight(c) \/ Reset(c) \/ ChecksAdmin(c)
         \/ \E h \in DOMAIN challenge : GetChallenge(c, h)
         \/ \E s \in DOMAIN session : FindSession(c, s) \/ Logout(c, s)
  PROVE  AllStand'
  <1>0. /\ UNCHANGED <<challenge, session, time>>
        /\ request \in [Requests -> RequestStates]
        /\ CodeStepStands(c) /\ VisitStands(c)
    BY DEF LoginReads, Wrong, WriteFailure, LosesWrite, ReadsAgain, Dies, ReadsAdmin, CodeRight,
           Reset, ChecksAdmin, GetChallenge, FindSession, Logout, LoginTypeOK, AllStand
  <1> SUFFICES CodeStepStands(c)' /\ VisitStands(c)'
    BY <1>0, QuietStep
  <1>1. ASSUME request'[c].step \in {"idle", "password", "failing", "again"}
        PROVE  CodeStepStands(c)' /\ VisitStands(c)'
    BY <1>1, NothingToStandBy DEF CodeSteps, VisitSteps
  <1>2. CASE LoginReads(c) \/ Wrong(c) \/ WriteFailure(c) \/ LosesWrite(c) \/ ReadsAgain(c) \/ Dies(c)
    <2>1. request'[c].step \in {"idle", "password", "failing", "again"}
      <3>1. CASE LoginReads(c)
        BY <1>0, <3>1 DEF LoginReads, Idle
      <3>2. CASE Wrong(c) \/ LosesWrite(c)
        BY <1>0, <3>2 DEF Wrong, LosesWrite, MovesTo, RequestStates
      <3>3. CASE WriteFailure(c) \/ Dies(c)
        BY <1>0, <3>3 DEF WriteFailure, Dies, Finishes, Idle
      <3>4. CASE ReadsAgain(c)
        BY <1>0, <3>4 DEF ReadsAgain, Finishes, Idle, RequestStates
      <3> QED
        BY <1>2, <3>1, <3>2, <3>3, <3>4
    <2> QED
      BY <1>1, <2>1
  <1>3. ASSUME NEW from \in CodeSteps, NEW to \in CodeSteps,
               request[c].step = from, request'[c].step = to,
               request'[c].of = request[c].of, request'[c].now = request[c].now,
               to \in {"resetting", "opening"} => from \in {"resetting", "opening"}
        PROVE  CodeStepStands(c)' /\ VisitStands(c)'
    BY <1>0, <1>3 DEF CodeStepStands, VisitStands, CodeSteps, VisitSteps
  <1>4. CASE ReadsAdmin(c)
    <2>1. CASE active /\ ~Locked(lockout, request[c].now)
      <3>1. /\ request[c].step = "challenged" /\ request'[c].step = "code"
            /\ request'[c].of = request[c].of /\ request'[c].now = request[c].now
        BY <1>0, <1>4, <2>1 DEF ReadsAdmin, RequestStates
      <3> QED
        BY <1>3, <3>1 DEF CodeSteps
    <2>2. CASE ~(active /\ ~Locked(lockout, request[c].now))
      <3>1. request'[c].step = "idle"
        BY <1>0, <1>4, <2>2 DEF ReadsAdmin, Finishes, Idle
      <3> QED
        BY <1>1, <3>1
    <2> QED
      BY <2>1, <2>2
  <1>5. CASE CodeRight(c)
    <2>1. /\ request[c].step = "code" /\ request'[c].step = "consuming"
          /\ request'[c].of = request[c].of /\ request'[c].now = request[c].now
      BY <1>0, <1>5 DEF CodeRight, MovesTo, RequestStates
    <2> QED
      BY <1>3, <2>1 DEF CodeSteps
  <1>6. CASE Reset(c)
    <2>1. /\ request[c].step = "resetting" /\ request'[c].step = "opening"
          /\ request'[c].of = request[c].of /\ request'[c].now = request[c].now
      BY <1>0, <1>6 DEF Reset, MovesTo, RequestStates
    <2> QED
      BY <1>3, <2>1 DEF CodeSteps
  <1>7. CASE ChecksAdmin(c)
    <2>1. /\ request[c].step = "found" /\ request'[c].step \in {"touching", "revoking"}
          /\ request'[c].of = request[c].of /\ request'[c].now = request[c].now
      BY <1>0, <1>7 DEF ChecksAdmin, MovesTo, RequestStates
    <2> QED
      BY <1>0, <2>1 DEF CodeStepStands, VisitStands, CodeSteps, VisitSteps
  <1>8. ASSUME NEW h \in DOMAIN challenge, GetChallenge(c, h)
        PROVE  CodeStepStands(c)' /\ VisitStands(c)'
    <2>1. request'[c].step = "challenged" /\ request'[c].of = h
      BY <1>0, <1>8 DEF GetChallenge, Begins, Idle
    <2>2. \A s \in DOMAIN session : session[s].challenge # h
      BY <1>8 DEF GetChallenge, Live, AllStand, SessionStands
    <2> QED
      BY <1>0, <2>1, <2>2 DEF CodeStepStands, VisitStands, CodeSteps, VisitSteps
  <1>9. ASSUME NEW s \in DOMAIN session, Logout(c, s)
        PROVE  CodeStepStands(c)' /\ VisitStands(c)'
    <2>1. request'[c].step = "revoking" /\ request'[c].of = s
      BY <1>0, <1>9 DEF Logout, Begins, Idle
    <2> QED
      BY <1>0, <2>1 DEF CodeStepStands, VisitStands, CodeSteps, VisitSteps
  <1>10. ASSUME NEW s \in DOMAIN session, FindSession(c, s)
         PROVE  CodeStepStands(c)' /\ VisitStands(c)'
    <2>1. /\ request'[c].step = IF TooIdle(s, time) THEN "revoking" ELSE "found"
          /\ request'[c].of = s /\ request'[c].now = time
      BY <1>0, <1>10 DEF FindSession, Begins, Idle
    <2>2. session[s].expires > time /\ session[s].ended = Unset
      BY <1>10 DEF FindSession, AllStand, SessionStands
    <2>3. session[s].last \in Nat /\ session[s].used \in Nat /\ time \in Nat /\ IdleTimeout \in Nat
      <3>1. session[s] \in Sessions /\ time \in Nat /\ IdleTimeout \in Nat
        BY LoginAssumption DEF LoginTypeOK
      <3> QED
        BY <3>1 DEF Sessions
    <2>4. session[s].last <= session[s].used
      BY DEF AllStand, SessionStands
    <2>5. CASE TooIdle(s, time)
      BY <1>0, <2>1, <2>5 DEF CodeStepStands, VisitStands, CodeSteps, VisitSteps
    <2>6. CASE ~TooIdle(s, time)
      <3>1. time - session[s].used <= IdleTimeout /\ time < session[s].expires
        BY <2>2, <2>3, <2>4, <2>6 DEF TooIdle
      <3> QED
        BY <1>0, <2>1, <2>2, <2>6, <3>1 DEF CodeStepStands, VisitStands, CodeSteps, VisitSteps
    <2> QED
      BY <2>5, <2>6
  <1> QED
    BY <1>2, <1>4, <1>5, <1>6, <1>7, <1>8, <1>9, <1>10

-----------------------------------------------------------------------------
\* A challenge more, or a challenge used up.
LEMMA ChallengeStep ==
  ASSUME LoginTypeOK, AllStand, NEW c \in Requests,
         \A d \in Requests \ {c} : request'[d] = request[d],
         PasswordRight(c) \/ Consume(c)
  PROVE  challenge' \in Seq(Challenges) /\ AllStand'
  <1>0. /\ UNCHANGED <<session, time>>
        /\ request \in [Requests -> RequestStates] /\ challenge \in Seq(Challenges)
        /\ time \in Nat
    BY DEF PasswordRight, Consume, LoginTypeOK
  <1>1. /\ challenge' \in Seq(Challenges)
        /\ DOMAIN challenge \in SUBSET DOMAIN challenge'
        /\ \A h \in DOMAIN challenge : challenge[h].used => challenge'[h].used
    <2>1. CASE PasswordRight(c)
      <3> DEFINE fresh == [expires |-> time + ChallengeTtl, used |-> FALSE]
      <3>1. fresh \in Challenges /\ challenge' = Append(challenge, fresh)
        BY <1>0, <2>1, LoginAssumption DEF PasswordRight, Challenges
      <3> QED
        BY <1>0, <3>1, AppendProperties
    <2>2. CASE Consume(c)
      <3> DEFINE h == request[c].of
                 used == [challenge[h] EXCEPT !.used = TRUE]
      <3>1. challenge' = [challenge EXCEPT ![h] = used]
        BY <2>2 DEF Consume, Used
      <3>2. h \in 1..Len(challenge)
        BY <1>0, <2>2 DEF Consume, AllStand, CodeStepStands, CodeSteps
      <3>3. used \in Challenges /\ used.used
        <4>1. challenge[h] \in Challenges
          BY <1>0, <3>2
        <4> QED
          BY <4>1 DEF Challenges
      <3>4. challenge' \in Seq(Challenges) /\ DOMAIN challenge' = DOMAIN challenge
        BY <1>0, <3>1, <3>2, <3>3, ExceptSeq
      <3>5. \A i \in DOMAIN challenge : challenge'[i] = IF i = h THEN used ELSE challenge[i]
        BY <1>0, <3>1
      <3> QED
        BY <3>3, <3>4, <3>5
    <2> QED
      BY <2>1, <2>2
  <1>2. ASSUME NEW d \in Requests \ {c} PROVE CodeStepStands(d)' /\ VisitStands(d)'
    <2>1. request'[d] = request[d] /\ CodeStepStands(d) /\ VisitStands(d)
      BY DEF AllStand
    <2>2. CodeStepStands(d)'
      BY <1>0, <1>1, <2>1 DEF CodeStepStands
    <2>3. VisitStands(d)'
      BY <1>0, <2>1 DEF VisitStands
    <2> QED
      BY <2>2, <2>3
  <1>3. CodeStepStands(c)' /\ VisitStands(c)'
    <2>1. CASE PasswordRight(c)
      <3>1. request'[c].step = "idle"
        BY <1>0, <2>1 DEF PasswordRight, Finishes, Idle
      <3> QED
        BY <3>1, NothingToStandBy DEF CodeSteps, VisitSteps
    <2>2. CASE Consume(c)
      <3>1. /\ request[c].step = "consuming" /\ request'[c].step = "resetting"
            /\ request'[c].of = request[c].of /\ request'[c].now = request[c].now
        BY <1>0, <2>2 DEF Consume, MovesTo, RequestStates
      <3>2. /\ request[c].of \in DOMAIN challenge
            /\ \A s \in DOMAIN session :
                 session[s].challenge = request[c].of => request[c].now <= session[s].opened
        BY <3>1 DEF AllStand, CodeStepStands, CodeSteps
      <3>3. challenge'[request[c].of].used
        <4>1. challenge' = [challenge EXCEPT ![request[c].of] = [challenge[request[c].of] EXCEPT !.used = TRUE]]
          BY <2>2 DEF Consume, Used
        <4>2. challenge[request[c].of] \in Challenges
          BY <1>0, <3>2
        <4> QED
          BY <3>2, <4>1, <4>2 DEF Challenges
      <3> QED
        BY <1>0, <1>1, <3>1, <3>2, <3>3 DEF CodeStepStands, VisitStands, CodeSteps, VisitSteps
    <2> QED
      BY <2>1, <2>2
  <1>4. ASSUME NEW s \in DOMAIN session' PROVE SessionStands(s)'
    <2>1. SessionStands(s)
      BY <1>0 DEF AllStand
    <2> QED
      BY <1>0, <1>1, <2>1 DEF SessionStands
  <1>5. OpenedOnce'
    BY <1>0 DEF AllStand, OpenedOnce
  <1>6. \A d \in Requests : CodeStepStands(d)' /\ VisitStands(d)'
    BY <1>2, <1>3
  <1> QED
    BY <1>1, <1>4, <1>5, <1>6 DEF AllStand

\* A session more: every code step under way began before it.
LEMMA OpenStep ==
  ASSUME LoginTypeOK, RequestsHaveBegun, AllStand, NEW c \in Requests,
         \A d \in Requests \ {c} : request'[d] = request[d],
         OpenSession(c)
  PROVE  session' \in Seq(Sessions) /\ AllStand'
  <1> DEFINE fresh == [last |-> time, expires |-> request[c].now + Lifetime, revoked |-> FALSE,
                       used |-> time, pause |-> 0, ended |-> Unset,
                       challenge |-> request[c].of, began |-> request[c].now, opened |-> time]
             n == Len(session) + 1
  <1>0. /\ UNCHANGED <<challenge, time>> /\ session' = Append(session, fresh)
        /\ request[c].step = "opening" /\ request'[c].step = "idle"
        /\ request \in [Requests -> RequestStates] /\ session \in Seq(Sessions)
        /\ time \in Nat /\ request[c].now \in Nat /\ request[c].of \in Nat
    BY DEF OpenSession, Finishes, Idle, LoginTypeOK, RequestStates
  <1>1. fresh \in Sessions
    BY <1>0, LoginAssumption DEF Sessions, Unset
  <1>2. /\ session' \in Seq(Sessions) /\ DOMAIN session' = 1..n /\ DOMAIN session = 1..Len(session)
        /\ \A s \in DOMAIN session : session'[s] = session[s]
        /\ session'[n] = fresh
    BY <1>0, <1>1, AppendProperties
  <1>2a. DOMAIN session' = DOMAIN session \cup {n} /\ n \notin DOMAIN session /\ n \in Nat
    BY <1>0, <1>2
  <1>3. /\ request[c].of \in DOMAIN challenge /\ challenge[request[c].of].used
        /\ \A s \in DOMAIN session :
             session[s].challenge = request[c].of => request[c].now <= session[s].opened
    BY <1>0 DEF AllStand, CodeStepStands, CodeSteps
  <1>4. ASSUME NEW d \in Requests \ {c} PROVE CodeStepStands(d)' /\ VisitStands(d)'
    <2>1. request'[d] = request[d] /\ CodeStepStands(d) /\ VisitStands(d) /\ request[d].now <= time
      BY DEF AllStand, RequestsHaveBegun
    <2>2. CodeStepStands(d)'
      BY <1>0, <1>2, <1>2a, <2>1 DEF CodeStepStands
    <2>3. VisitStands(d)'
      BY <1>0, <1>2, <1>2a, <2>1 DEF VisitStands
    <2> QED
      BY <2>2, <2>3
  <1>5. CodeStepStands(c)' /\ VisitStands(c)'
    BY <1>0, NothingToStandBy DEF CodeSteps, VisitSteps
  <1>6. ASSUME NEW s \in DOMAIN session' PROVE SessionStands(s)'
    <2>1. CASE s \in DOMAIN session
      <3>1. SessionStands(s)
        BY <2>1 DEF AllStand
      <3> QED
        BY <1>0, <1>2, <2>1, <3>1 DEF SessionStands
    <2>2. CASE s = n
      <3>1. session'[s] = fresh /\ time' = time /\ challenge' = challenge
        BY <1>0, <1>2, <2>2
      <3>2. /\ fresh.challenge = request[c].of /\ fresh.opened = time /\ fresh.used = time
            /\ fresh.last = time /\ fresh.ended = Unset /\ fresh.pause = 0
        OBVIOUS
      <3>3. 0 <= IdleTimeout /\ time <= time /\ ~(time > time)
        BY <1>0, LoginAssumption
      <3> QED
        BY <1>0, <1>3, <3>1, <3>2, <3>3 DEF SessionStands
    <2> QED
      BY <1>2a, <2>1, <2>2
  <1>7. ASSUME NEW s \in DOMAIN session', NEW t \in DOMAIN session',
               s < t, session'[s].challenge = session'[t].challenge
        PROVE  session'[t].began <= session'[s].opened
    <2>1. s \in DOMAIN session
      BY <1>0, <1>2, <1>7
    <2>2. CASE t \in DOMAIN session
      BY <1>2, <1>7, <2>1, <2>2 DEF AllStand, OpenedOnce
    <2>3. CASE t = n
      BY <1>2, <1>3, <1>7, <2>1, <2>3
    <2> QED
      BY <1>2a, <2>2, <2>3
  <1>8. OpenedOnce'
    BY <1>7 DEF OpenedOnce
  <1>9. \A d \in Requests : CodeStepStands(d)' /\ VisitStands(d)'
    BY <1>4, <1>5
  <1> QED
    BY <1>2, <1>6, <1>8, <1>9 DEF AllStand

-----------------------------------------------------------------------------
\* A session that is touched or revoked: later uses and an earlier end move
\* neither its opening nor its lifetime.
LEMMA VisitStep ==
  ASSUME LoginTypeOK, RequestsHaveBegun, AllStand, NEW c \in Requests,
         \A d \in Requests \ {c} : request'[d] = request[d],
         Touch(c) \/ Revoke(c)
  PROVE  session' \in Seq(Sessions) /\ AllStand'
  <1>s. PICK s \in DOMAIN session : s = request[c].of
    BY DEF Touch, Revoke, AllStand, VisitStands, VisitSteps
  <1> DEFINE row == session[s]
             after == session'[s]
             now == request[c].now
  <1>0. /\ UNCHANGED <<challenge, time>>
        /\ request[c].step \in {"touching", "revoking"} /\ request'[c].step = "idle"
        /\ request \in [Requests -> RequestStates] /\ session \in Seq(Sessions)
        /\ time \in Nat /\ now \in Nat /\ now <= time
    BY DEF Touch, Revoke, Finishes, Idle, LoginTypeOK, RequestStates, RequestsHaveBegun
  <1>1. s \in 1..Len(session) /\ row \in Sessions /\ SessionStands(s)
    BY <1>0 DEF AllStand
  <1>2. /\ row.last \in Nat /\ row.used \in Nat /\ row.pause \in Nat /\ row.ended \in Nat
        /\ row.opened \in Nat /\ row.expires \in Nat
        /\ row.opened <= time /\ row.used <= time /\ row.last <= row.used
        /\ row.ended # Unset => row.revoked
        /\ row.used > row.opened => row.used < row.expires
        /\ row.ended # Unset => row.used <= row.ended
        /\ row.pause <= IdleTimeout
    BY <1>1 DEF SessionStands, Sessions
  <1>3. /\ session' \in Seq(Sessions) /\ DOMAIN session' = DOMAIN session
        /\ \A t \in DOMAIN session : t # s => session'[t] = session[t]
        /\ after.opened = row.opened /\ after.began = row.began
        /\ after.expires = row.expires /\ after.challenge = row.challenge
        /\ after.used >= row.used
        /\ after.ended = row.ended \/ (row.ended = Unset /\ after.ended = time)
        /\ SessionStands(s)'
    <2>1. CASE Touch(c)
      <3> DEFINE pause == now - row.used
                 touched == [row EXCEPT !.last = now, !.used = Max({@, now}), !.pause = Max({@, pause})]
      <3>1. /\ now < row.expires /\ now - row.used <= IdleTimeout
            /\ row.ended # Unset => now <= row.ended
        BY <1>0, <1>s, <2>1 DEF Touch, AllStand, VisitStands, VisitSteps
      <3>2. session' = [session EXCEPT ![s] = touched]
        BY <1>s, <2>1 DEF Touch
      <3>3. Max({row.used, now}) = IF row.used >= now THEN row.used ELSE now
        <4>1. row.used \in Int /\ now \in Int
          BY <1>0, <1>2
        <4> QED
          BY <4>1, MaxOfTwo
      <3>4. Max({row.pause, pause}) = IF row.pause >= pause THEN row.pause ELSE pause
        <4>1. row.pause \in Int /\ pause \in Int
          BY <1>0, <1>2
        <4> QED
          BY <4>1, MaxOfTwo
      <3>5. Max({row.used, now}) \in Nat /\ Max({row.pause, pause}) \in Nat
        BY <1>0, <1>2, <3>3, <3>4
      <3>6. touched \in Sessions
        BY <1>0, <1>1, <3>5 DEF Sessions
      <3>7. /\ touched.last = now /\ touched.used = Max({row.used, now})
            /\ touched.pause = Max({row.pause, pause})
            /\ touched.opened = row.opened /\ touched.began = row.began
            /\ touched.expires = row.expires /\ touched.challenge = row.challenge
            /\ touched.ended = row.ended /\ touched.revoked = row.revoked
        BY <1>1 DEF Sessions
      <3>8. session' \in Seq(Sessions) /\ DOMAIN session' = DOMAIN session
        BY <1>0, <1>1, <3>2, <3>6, ExceptSeq
      <3>9. after = touched /\ \A t \in DOMAIN session : t # s => session'[t] = session[t]
        BY <1>0, <1>1, <3>2
      <3>10. SessionStands(s)'
        <4>1. touched.used <= time /\ touched.last <= touched.used
          BY <1>0, <1>2, <3>3, <3>7
        <4>2. touched.used > touched.opened => touched.used < touched.expires
          BY <1>0, <1>2, <3>1, <3>3, <3>7
        <4>3. touched.ended # Unset => touched.used <= touched.ended
          BY <1>0, <1>2, <3>1, <3>3, <3>7
        <4>4. touched.pause <= IdleTimeout
          BY <1>0, <1>2, <3>1, <3>4, <3>7
        <4> QED
          BY <1>0, <1>1, <1>2, <3>7, <3>9, <4>1, <4>2, <4>3, <4>4 DEF SessionStands
      <3>11. after.used >= row.used
        BY <1>0, <1>2, <3>3, <3>7, <3>9
      <3> QED
        BY <3>7, <3>8, <3>9, <3>10, <3>11
    <2>2. CASE Revoke(c)
      <3> DEFINE revoked == [row EXCEPT !.revoked = TRUE, !.ended = IF @ = Unset THEN time ELSE @]
      <3>1. session' = [session EXCEPT ![s] = revoked]
        BY <1>s, <2>2 DEF Revoke
      <3>2. revoked \in Sessions
        BY <1>0, <1>1 DEF Sessions
      <3>3. /\ revoked.last = row.last /\ revoked.used = row.used /\ revoked.pause = row.pause
            /\ revoked.opened = row.opened /\ revoked.began = row.began
            /\ revoked.expires = row.expires /\ revoked.challenge = row.challenge
            /\ revoked.revoked = TRUE
            /\ revoked.ended = IF row.ended = Unset THEN time ELSE row.ended
        BY <1>1 DEF Sessions
      <3>4. session' \in Seq(Sessions) /\ DOMAIN session' = DOMAIN session
        BY <1>0, <1>1, <3>1, <3>2, ExceptSeq
      <3>5. after = revoked /\ \A t \in DOMAIN session : t # s => session'[t] = session[t]
        BY <1>0, <1>1, <3>1
      <3>6. SessionStands(s)'
        BY <1>0, <1>1, <1>2, <3>3, <3>5 DEF SessionStands
      <3>7. after.used >= row.used
        BY <1>2, <3>3, <3>5
      <3> QED
        BY <3>3, <3>4, <3>5, <3>6, <3>7
    <2> QED
      BY <2>1, <2>2
  <1>4. ASSUME NEW d \in Requests \ {c} PROVE CodeStepStands(d)' /\ VisitStands(d)'
    <2>1. /\ request'[d] = request[d] /\ CodeStepStands(d) /\ VisitStands(d)
          /\ request[d].now <= time /\ request[d].now \in Nat
      BY <1>0 DEF AllStand, RequestsHaveBegun, RequestStates
    <2>2. CodeStepStands(d)'
      BY <1>0, <1>3, <2>1 DEF CodeStepStands
    <2>3. VisitStands(d)'
      <3>1. CASE request[d].of = s
        <4>0. after \in Sessions
          BY <1>3
        <4>1. after.used \in Nat /\ IdleTimeout \in Nat
          BY <4>0, LoginAssumption DEF Sessions
        <4>2. request[d].now - row.used <= IdleTimeout => request[d].now - after.used <= IdleTimeout
          BY <1>2, <1>3, <2>1, <4>1
        <4> QED
          BY <1>0, <1>3, <2>1, <3>1, <4>2 DEF VisitStands
      <3>2. CASE request[d].of # s
        BY <1>0, <1>3, <2>1, <3>2 DEF VisitStands
      <3> QED
        BY <3>1, <3>2
    <2> QED
      BY <2>2, <2>3
  <1>5. CodeStepStands(c)' /\ VisitStands(c)'
    BY <1>0, NothingToStandBy DEF CodeSteps, VisitSteps
  <1>6. ASSUME NEW t \in DOMAIN session' PROVE SessionStands(t)'
    <2>1. CASE t = s
      BY <1>3, <2>1
    <2>2. CASE t # s
      <3>1. SessionStands(t) /\ session'[t] = session[t]
        BY <1>3, <2>2 DEF AllStand
      <3> QED
        BY <1>0, <3>1 DEF SessionStands
    <2> QED
      BY <2>1, <2>2
  <1>7. OpenedOnce'
    <2>1. \A t \in DOMAIN session :
            /\ session'[t].challenge = session[t].challenge
            /\ session'[t].began = session[t].began /\ session'[t].opened = session[t].opened
      BY <1>3
    <2> QED
      BY <1>3, <2>1 DEF AllStand, OpenedOnce
  <1>8. \A d \in Requests : CodeStepStands(d)' /\ VisitStands(d)'
    BY <1>4, <1>5
  <1> QED
    BY <1>3, <1>6, <1>7, <1>8 DEF AllStand

-----------------------------------------------------------------------------
\* Every step leaves challenges, sessions and the requests about them in order.
LEMMA SessionsStep ==
  ASSUME LoginTypeOK, RequestsHaveBegun, AllStand, NEW c \in Requests,
         \A d \in Requests \ {c} : request'[d] = request[d],
         Steps(c)
  PROVE  challenge' \in Seq(Challenges) /\ session' \in Seq(Sessions) /\ AllStand'
  <1>1. CASE PasswordRight(c) \/ Consume(c)
    <2>1. session' = session
      BY <1>1 DEF PasswordRight, Consume
    <2> QED
      BY <1>1, <2>1, ChallengeStep DEF LoginTypeOK
  <1>2. CASE OpenSession(c)
    <2>1. challenge' = challenge
      BY <1>2 DEF OpenSession
    <2> QED
      BY <1>2, <2>1, OpenStep DEF LoginTypeOK
  <1>3. CASE Touch(c) \/ Revoke(c)
    <2>1. challenge' = challenge
      BY <1>3 DEF Touch, Revoke
    <2> QED
      BY <1>3, <2>1, VisitStep DEF LoginTypeOK
  <1>4. CASE \/ LoginReads(c) \/ Wrong(c) \/ WriteFailure(c) \/ LosesWrite(c) \/ ReadsAgain(c) \/ Dies(c)
             \/ ReadsAdmin(c) \/ CodeRight(c) \/ Reset(c) \/ ChecksAdmin(c)
             \/ \E h \in DOMAIN challenge : GetChallenge(c, h)
             \/ \E s \in DOMAIN session : FindSession(c, s) \/ Logout(c, s)
    <2>1. UNCHANGED <<challenge, session>>
      BY <1>4 DEF LoginReads, Wrong, WriteFailure, LosesWrite, ReadsAgain, Dies, ReadsAdmin,
                  CodeRight, Reset, ChecksAdmin, GetChallenge, FindSession, Logout
    <2> QED
      BY <1>4, <2>1, QuietStepsStand DEF LoginTypeOK
  <1> QED
    BY <1>1, <1>2, <1>3, <1>4 DEF Steps

\* The clock only makes what has begun older.
LEMMA TimeStep ==
  ASSUME LoginInv, TimePasses \/ Deactivate \/ UNCHANGED loginVars
  PROVE  LoginInv'
  <1>1. /\ UNCHANGED <<lockout, challenge, session, request, requests, counted, forgotten>>
        /\ time' \in Nat \ {0} /\ time' >= time /\ active' \in BOOLEAN
    <2>1. time \in Nat \ {0} /\ active \in BOOLEAN
      BY DEF LoginInv, LoginTypeOK
    <2>2. CASE TimePasses
      BY <2>1, <2>2 DEF TimePasses
    <2>3. CASE Deactivate \/ UNCHANGED loginVars
      <3>1. UNCHANGED time /\ (active' = active \/ active' = FALSE)
        BY <2>3 DEF Deactivate, loginVars
      <3>2. UNCHANGED <<lockout, challenge, session, request, requests, counted, forgotten>>
        BY <2>3 DEF Deactivate, loginVars
      <3>3. active' \in BOOLEAN
        BY <2>1, <3>1, Zenon
      <3>4. time' \in Nat \ {0} /\ time' >= time
        BY <2>1, <3>1
      <3> QED
        BY <3>2, <3>3, <3>4
    <2> QED
      BY <2>2, <2>3
  <1>2. LoginTypeOK'
    BY <1>1 DEF LoginInv, LoginTypeOK
  <1>3. RequestsHaveBegun'
    <2> SUFFICES ASSUME NEW c \in Requests PROVE request[c].now <= time'
      BY <1>1 DEF RequestsHaveBegun
    <2>1. request[c].now <= time /\ request[c].now \in Nat /\ time \in Nat
      BY DEF LoginInv, LoginTypeOK, RequestsHaveBegun, RequestStates
    <2> QED
      BY <1>1, <2>1
  <1>4. FailuresAddUp'
    BY <1>1 DEF LoginInv, FailuresAddUp
  <1>5. ASSUME NEW s \in DOMAIN session PROVE SessionStands(s)'
    <2>1. SessionStands(s) /\ session[s] \in Sessions /\ time \in Nat
      BY DEF LoginInv, LoginTypeOK, AllStand
    <2>2. session[s].opened <= time' /\ session[s].used <= time'
      BY <1>1, <2>1 DEF SessionStands, Sessions
    <2> QED
      BY <1>1, <2>1, <2>2 DEF SessionStands
  <1>6. \A c \in Requests : CodeStepStands(c)' /\ VisitStands(c)'
    BY <1>1 DEF LoginInv, AllStand, CodeStepStands, VisitStands
  <1>7. OpenedOnce'
    BY <1>1 DEF LoginInv, AllStand, OpenedOnce
  <1> QED
    BY <1>1, <1>2, <1>3, <1>4, <1>5, <1>6, <1>7 DEF LoginInv, AllStand

LEMMA NextLoginInv == LoginInv /\ [LoginNext]_loginVars => LoginInv'
  <1> SUFFICES ASSUME LoginInv, [LoginNext]_loginVars PROVE LoginInv'
    OBVIOUS
  <1>1. CASE TimePasses \/ Deactivate \/ UNCHANGED loginVars
    BY <1>1, TimeStep
  <1>2. ASSUME NEW c \in Requests, Steps(c) PROVE LoginInv'
    <2>0. LoginTypeOK /\ RequestsHaveBegun /\ FailuresAddUp /\ AllStand
      BY DEF LoginInv
    <2>1. PICK r \in RequestStates : r.now <= time /\ request' = [request EXCEPT ![c] = r]
      BY <1>2, <2>0, RequestStep
    <2>2. /\ \A d \in Requests \ {c} : request'[d] = request[d]
          /\ request'[c] = r /\ request' \in [Requests -> RequestStates]
      BY <2>0, <2>1 DEF LoginTypeOK
    <2>3. UNCHANGED <<time, active>> /\ requests' \in Nat
      <3>1. UNCHANGED <<time, active>>
        BY <1>2 DEF Steps, LoginReads, PasswordRight, Wrong, WriteFailure, LosesWrite, ReadsAgain,
             ReadsAdmin, CodeRight, Consume, Reset, OpenSession, ChecksAdmin, Touch, Revoke, Dies,
             GetChallenge, FindSession, Logout
      <3>2. requests' = requests \/ requests' = requests + 1
        BY <1>2 DEF Steps, LoginReads, PasswordRight, Wrong, WriteFailure, LosesWrite, ReadsAgain,
             ReadsAdmin, CodeRight, Consume, Reset, OpenSession, ChecksAdmin, Touch, Revoke, Dies,
             GetChallenge, FindSession, Logout, Begins
      <3> QED
        BY <2>0, <3>1, <3>2 DEF LoginTypeOK
    <2>4. lockout' \in LockStates /\ counted' \in Nat /\ forgotten' \in Nat /\ FailuresAddUp'
      BY <1>2, <2>0, LockStep
    <2>5. challenge' \in Seq(Challenges) /\ session' \in Seq(Sessions) /\ AllStand'
      BY <1>2, <2>0, <2>2, SessionsStep
    <2>6. LoginTypeOK'
      BY <2>0, <2>2, <2>3, <2>4, <2>5 DEF LoginTypeOK
    <2>7. RequestsHaveBegun'
      BY <2>0, <2>1, <2>2, <2>3 DEF RequestsHaveBegun
    <2> QED
      BY <2>4, <2>5, <2>6, <2>7 DEF LoginInv
  <1> QED
    BY <1>1, <1>2, NextIsSteps

THEOREM LoginInvariant == LoginSpec => []LoginInv
  BY InitLoginInv, NextLoginInv, PTL DEF LoginSpec

\* However many wrong passwords and codes overlap, each failure that
\* applyFailedLoginOutcome wrote is counted once and stays counted.
THEOREM FailuresStayCounted == LoginSpec => []FailuresAddUp
  <1>1. LoginInv => FailuresAddUp
    BY DEF LoginInv
  <1> QED
    BY <1>1, LoginInvariant, PTL

\* A lock that is running is lifted by a right password and a right code, and by
\* no failure: a request that has read the row before it was locked loses its
\* write, one that reads it locked writes it back as it is.
THEOREM LocksAreHeld == LoginSpec => LocksHold
  <1>1. LoginInv /\ [LoginNext]_loginVars
          => [Locked(lockout, time) /\ lockout' # lockout => lockout' = Clear]_loginVars
    <2> SUFFICES ASSUME LoginInv, [LoginNext]_loginVars, Locked(lockout, time), lockout' # lockout
                 PROVE  lockout' = Clear
      OBVIOUS
    <2>1. ~(TimePasses \/ Deactivate \/ UNCHANGED loginVars)
      BY DEF TimePasses, Deactivate, loginVars
    <2>2. PICK c \in Requests : Steps(c)
      BY <2>1, NextIsSteps
    <2> QED
      BY <2>2, LockStep DEF LoginInv
  <1> QED
    BY <1>1, LoginInvariant, PTL DEF LoginSpec, LocksHold

\* A challenge opens one session unless two code steps overlapped, and no request
\* that began after a logout, the idle timeout or the lifetime is let in.
THEOREM SessionsEnd == LoginSpec => []SessionsComeAndGo
  <1>1. LoginInv => SessionsComeAndGo
    BY DEF LoginInv, AllStand, OpenedOnce, SessionStands, SessionsComeAndGo
  <1> QED
    BY <1>1, LoginInvariant, PTL

(***************************************************************************)
(* For any admins, requests, sessions and lifetimes: nobody holds a power  *)
(* that another super_admin did not give, and whoever sees raw records has *)
(* a session of her own that was elevated on another's word.               *)
(***************************************************************************)

Roles == {"support_agent", "admin", "super_admin"}
Openings == [agent : Admins, expires : Nat, closed : BOOLEAN, expired : BOOLEAN]
Askings ==
  [of : Nat, target : Admins, expires : Nat, resolved : Nat, by : Admins \cup {Nobody},
   closed : BOOLEAN]
Entries == [action : {"opened", "elevated"}, by : Admins, of : Nat]
VisitStates ==
  [step : {"idle", "approving", "granting", "entered", "reading"}, by : Admins \cup {Nobody},
   role : Roles \cup {"none"}, now : Nat \ {0}, of : Nat, session : Nat]

SupportTypeOK ==
  /\ supportClock \in Nat \ {0} /\ visits \in Nat
  /\ role \in [Admins -> Roles]
  /\ opened \in Seq(Openings) /\ asked \in Seq(Askings) /\ audit \in Seq(Entries)
  /\ visit \in [Visits -> VisitStates]
  /\ late \in SUBSET Visits

\* A session was opened on the record.
OpenedOnRecord(s) ==
  \E i \in DOMAIN audit : audit[i] = [action |-> "opened", by |-> opened[s].agent, of |-> s]

\* A request about a session is its agent's and lasts no longer; an answer is a
\* super_admin's who is not the one that asked.
RequestIsProper(r) ==
  /\ asked[r].of # 0 => /\ asked[r].of \in DOMAIN opened
                        /\ asked[r].target = opened[asked[r].of].agent
                        /\ asked[r].expires <= opened[asked[r].of].expires
  /\ asked[r].resolved # Unresolved =>
       /\ asked[r].by \in Admins /\ role[asked[r].by] = "super_admin"
       /\ asked[r].by # asked[r].target

\* It is answered once, and an entry says so.
GrantedOnce(r) ==
  IF asked[r].resolved # Unresolved
  THEN \E i \in DOMAIN audit : GrantsOf(r) = {i}
  ELSE GrantsOf(r) = {}

RecordsStand ==
  /\ \A s \in DOMAIN opened : OpenedOnRecord(s)
  /\ \A r \in DOMAIN asked : RequestIsProper(r) /\ GrantedOnce(r)
  /\ \A i \in DOMAIN audit : audit[i].action = "elevated" => audit[i].of \in DOMAIN asked

PowerIsGiven(a) ==
  role[a] # Role[a] =>
    \E r \in DOMAIN asked :
      asked[r].of = 0 /\ asked[r].target = a /\ asked[r].resolved # Unresolved

\* Who approves is a super_admin still, since nobody ceases to be one; who has
\* entered has a session of her own, which was closed in between or is open.
SupportVisitStands(c) ==
  /\ visit[c].step \in {"approving", "granting"} =>
       /\ visit[c].of \in DOMAIN asked /\ visit[c].session = asked[visit[c].of].of
       /\ visit[c].by \in Admins /\ role[visit[c].by] = "super_admin"
       /\ visit[c].step = "granting" => asked[visit[c].of].target # visit[c].by
  /\ visit[c].step = "entered" =>
       /\ visit[c].session \in DOMAIN opened
       /\ opened[visit[c].session].agent = visit[c].by
       /\ opened[visit[c].session].closed => c \in late

SupportInv ==
  /\ SupportTypeOK /\ RecordsStand
  /\ \A a \in Admins : PowerIsGiven(a)
  /\ \A c \in Visits : SupportVisitStands(c)

-----------------------------------------------------------------------------
(***************************************************************************)
(* Sequences of rows.                                                      *)
(***************************************************************************)
LEMMA RowAdded ==
  ASSUME NEW S, NEW s \in Seq(S), NEW e \in S, NEW t, t = Append(s, e), NEW n, n = Len(s) + 1
  PROVE  /\ t \in Seq(S) /\ DOMAIN t = DOMAIN s \cup {n} /\ n \notin DOMAIN s
         /\ n \in Nat \ {0} /\ t[n] = e /\ \A i \in DOMAIN s : t[i] = s[i]
  BY AppendProperties

LEMMA RowReplaced ==
  ASSUME NEW S, NEW s \in Seq(S), NEW i \in DOMAIN s, NEW e \in S, NEW t, t = [s EXCEPT ![i] = e]
  PROVE  /\ t \in Seq(S) /\ DOMAIN t = DOMAIN s
         /\ t[i] = e /\ \A j \in DOMAIN s : j # i => t[j] = s[j]
  OBVIOUS

LEMMA SupportTypes ==
  ASSUME SupportTypeOK
  PROVE  /\ \A s \in DOMAIN opened :
              /\ opened[s] \in Openings /\ opened[s].agent \in Admins /\ opened[s].expires \in Nat
              /\ opened[s].closed \in BOOLEAN /\ s \in Nat \ {0}
         /\ \A r \in DOMAIN asked :
              /\ asked[r] \in Askings /\ asked[r].of \in Nat /\ asked[r].target \in Admins
              /\ asked[r].expires \in Nat /\ asked[r].resolved \in Nat /\ r \in Nat \ {0}
         /\ \A c \in Visits : visit[c] \in VisitStates
  <1>1. opened \in Seq(Openings) /\ asked \in Seq(Askings) /\ visit \in [Visits -> VisitStates]
    BY DEF SupportTypeOK
  <1>2. /\ \A s \in DOMAIN opened : opened[s] \in Openings /\ s \in Nat \ {0}
        /\ \A r \in DOMAIN asked : asked[r] \in Askings /\ r \in Nat \ {0}
        /\ \A c \in Visits : visit[c] \in VisitStates
    BY <1>1
  <1> QED
    BY <1>2 DEF Openings, Askings

LEMMA VisitTypes ==
  ASSUME SupportTypeOK, NEW c \in Visits
  PROVE  /\ visit[c] \in VisitStates /\ visit[c].now \in Nat \ {0}
         /\ visit[c].of \in Nat /\ visit[c].session \in Nat
         /\ Absent \in VisitStates /\ Absent.step = "idle"
  BY SupportTypes DEF VisitStates, Absent

-----------------------------------------------------------------------------
LEMMA InitSupportInv == SupportInit => SupportInv
  <1> SUFFICES ASSUME SupportInit PROVE SupportInv
    OBVIOUS
  <1>1. SupportTypeOK
    BY SupportAssumption DEF SupportInit, SupportTypeOK, Absent, VisitStates, Roles
  <1>2. RecordsStand
    BY DEF SupportInit, RecordsStand
  <1>3. \A a \in Admins : PowerIsGiven(a)
    BY DEF SupportInit, PowerIsGiven
  <1>4. \A c \in Visits : SupportVisitStands(c)
    BY DEF SupportInit, SupportVisitStands, Absent
  <1> QED
    BY <1>1, <1>2, <1>3, <1>4 DEF SupportInv

-----------------------------------------------------------------------------
(***************************************************************************)
(* What stands while records are only added to.                            *)
(***************************************************************************)
RecordsGrow ==
  /\ DOMAIN opened \subseteq DOMAIN opened' /\ DOMAIN asked \subseteq DOMAIN asked'
  /\ \A s \in DOMAIN opened :
       opened'[s].agent = opened[s].agent /\ opened'[s].expires = opened[s].expires
  /\ \A r \in DOMAIN asked :
       /\ asked'[r].of = asked[r].of /\ asked'[r].target = asked[r].target
       /\ asked'[r].expires = asked[r].expires
       /\ asked[r].resolved # Unresolved =>
            asked'[r].resolved # Unresolved /\ asked'[r].by = asked[r].by
  /\ \A a \in Admins : role[a] = "super_admin" => role'[a] = "super_admin"
  /\ \A i \in DOMAIN audit : i \in DOMAIN audit' /\ audit'[i] = audit[i]

\* No answer is given or written down.
NothingGranted ==
  /\ \A r \in DOMAIN asked : asked'[r].resolved = asked[r].resolved
  /\ \A r \in DOMAIN asked' \ DOMAIN asked : asked'[r].resolved = Unresolved
  /\ \A i \in DOMAIN audit' \ DOMAIN audit : audit'[i].action = "opened"
  /\ UNCHANGED role

LEMMA GrantsStay ==
  ASSUME RecordsGrow, NothingGranted, NEW r PROVE GrantsOf(r)' = GrantsOf(r)
  BY DEF RecordsGrow, NothingGranted, GrantsOf

\* Then the records stand on if new sessions are on the record and new requests
\* are proper.
LEMMA RecordsStandOn ==
  ASSUME SupportInv, RecordsGrow, NothingGranted,
         \A s \in DOMAIN opened' \ DOMAIN opened : OpenedOnRecord(s)',
         \A r \in DOMAIN asked' \ DOMAIN asked : RequestIsProper(r)'
  PROVE  RecordsStand' /\ \A a \in Admins : PowerIsGiven(a)'
  <1>1. ASSUME NEW s \in DOMAIN opened PROVE OpenedOnRecord(s)'
    BY DEF SupportInv, RecordsStand, OpenedOnRecord, RecordsGrow
  <1>2. ASSUME NEW r \in DOMAIN asked PROVE RequestIsProper(r)' /\ GrantedOnce(r)'
    <2>1. RequestIsProper(r) /\ GrantedOnce(r)
      BY DEF SupportInv, RecordsStand
    <2>2. RequestIsProper(r)'
      BY <2>1 DEF RequestIsProper, RecordsGrow, NothingGranted
    <2>3. GrantedOnce(r)'
      BY <2>1, GrantsStay DEF GrantedOnce, RecordsGrow, NothingGranted
    <2> QED
      BY <2>2, <2>3
  <1>3. ASSUME NEW r \in DOMAIN asked' \ DOMAIN asked PROVE GrantedOnce(r)'
    <2>1. GrantsOf(r) = {}
      BY DEF GrantsOf, SupportInv, RecordsStand
    <2> QED
      BY <2>1, GrantsStay DEF GrantedOnce, NothingGranted
  <1>4. \A i \in DOMAIN audit' : audit'[i].action = "elevated" => audit'[i].of \in DOMAIN asked'
    BY DEF SupportInv, RecordsStand, RecordsGrow, NothingGranted
  <1>5. ASSUME NEW a \in Admins PROVE PowerIsGiven(a)'
    BY DEF SupportInv, PowerIsGiven, RecordsGrow, NothingGranted
  <1> QED
    BY <1>1, <1>2, <1>3, <1>4, <1>5 DEF RecordsStand

LEMMA RecordsUnchanged ==
  ASSUME SupportInv, UNCHANGED <<role, opened, asked, audit>>
  PROVE  RecordsGrow /\ RecordsStand' /\ \A a \in Admins : PowerIsGiven(a)'
  <1>1. RecordsGrow /\ NothingGranted
    BY DEF RecordsGrow, NothingGranted
  <1> QED
    BY <1>1, RecordsStandOn

\* A request that does not move stands on, unless its session ends behind its back.
LEMMA VisitStandsOn ==
  ASSUME SupportInv, RecordsGrow, NEW c \in Visits, visit'[c] = visit[c],
         c \in late => c \in late',
         visit[c].step = "entered" /\ opened'[visit[c].session].closed =>
           opened[visit[c].session].closed \/ c \in late'
  PROVE  SupportVisitStands(c)'
  <1>1. SupportVisitStands(c)
    BY DEF SupportInv
  <1> QED
    BY <1>1 DEF SupportVisitStands, RecordsGrow

\* One request moves, and sessions are as they were.
LEMMA OneVisits ==
  ASSUME SupportInv, RecordsGrow, UNCHANGED opened, NEW c \in Visits, NEW x \in VisitStates,
         visit' = [visit EXCEPT ![c] = x], late' \in {late, late \ {c}},
         SupportVisitStands(c)'
  PROVE  /\ visit' \in [Visits -> VisitStates] /\ late' \in SUBSET Visits
         /\ \A d \in Visits : SupportVisitStands(d)'
  <1>1. visit \in [Visits -> VisitStates] /\ late \in SUBSET Visits
    BY DEF SupportInv, SupportTypeOK
  <1>2. \A d \in Visits : d # c => visit'[d] = visit[d] /\ (d \in late => d \in late')
    BY <1>1
  <1>3. ASSUME NEW d \in Visits, d # c PROVE SupportVisitStands(d)'
    BY <1>2, <1>3, VisitStandsOn
  <1> QED
    BY <1>1, <1>3

LEMMA OneLeaves ==
  ASSUME SupportInv, RecordsGrow, UNCHANGED opened, NEW c \in Visits, Leaves(c)
  PROVE  /\ visit' \in [Visits -> VisitStates] /\ late' \in SUBSET Visits
         /\ \A d \in Visits : SupportVisitStands(d)'
  <1>1. /\ visit' = [visit EXCEPT ![c] = Absent] /\ late' \in {late, late \ {c}}
        /\ Absent \in VisitStates /\ SupportTypeOK
    BY VisitTypes DEF Leaves, SupportInv
  <1>2. visit'[c] = Absent
    BY <1>1 DEF SupportTypeOK
  <1>3. SupportVisitStands(c)'
    BY <1>2 DEF SupportVisitStands, Absent
  <1> QED
    BY <1>1, <1>3, OneVisits

\* Nobody moves.
LEMMA NobodyVisits ==
  ASSUME SupportInv, RecordsGrow, UNCHANGED visit, late \subseteq late', late' \in SUBSET Visits,
         \A s \in DOMAIN opened :
           opened'[s].closed => \/ opened[s].closed
                                \/ \A c \in Visits : visit[c].step # "idle" /\ visit[c].session = s
                                                       => c \in late'
  PROVE  /\ visit' \in [Visits -> VisitStates] /\ late' \in SUBSET Visits
         /\ \A d \in Visits : SupportVisitStands(d)'
  <1>1. visit' \in [Visits -> VisitStates]
    BY DEF SupportInv, SupportTypeOK
  <1>2. ASSUME NEW d \in Visits PROVE SupportVisitStands(d)'
    <2>1. SupportVisitStands(d)
      BY DEF SupportInv
    <2> QED
      BY <2>1, VisitStandsOn DEF SupportVisitStands
  <1> QED
    BY <1>1, <1>2

\* What the records of a request and of a session give to what is to be shown.
SupportKeeps ==
  /\ role' \in [Admins -> Roles]
  /\ opened' \in Seq(Openings) /\ asked' \in Seq(Askings) /\ audit' \in Seq(Entries)
  /\ visit' \in [Visits -> VisitStates] /\ late' \in SUBSET Visits
  /\ RecordsStand' /\ (\A a \in Admins : PowerIsGiven(a)') /\ (\A c \in Visits : SupportVisitStands(c)')

-----------------------------------------------------------------------------
(***************************************************************************)
(* One lemma for each operation.                                           *)
(***************************************************************************)
LEMMA SupportOpenStep == ASSUME SupportInv, NEW a \in Admins, Open(a) PROVE SupportKeeps
  <1> DEFINE s == [agent |-> a, expires |-> supportClock + SessionTtl,
                   closed |-> FALSE, expired |-> FALSE]
             e == [action |-> "opened", by |-> a, of |-> Len(opened) + 1]
  <1>0. /\ SupportTypeOK /\ s \in Openings /\ e \in Entries
        /\ opened \in Seq(Openings) /\ audit \in Seq(Entries)
    BY SupportAssumption DEF SupportInv, SupportTypeOK, Openings, Entries
  <1>1. PICK n, i : n = Len(opened) + 1 /\ i = Len(audit) + 1
    OBVIOUS
  <1>2. /\ opened' = Append(opened, s) /\ audit' = Append(audit, e)
        /\ UNCHANGED <<role, asked, visit, late>>
    BY DEF Open
  <1>3. /\ opened' \in Seq(Openings) /\ DOMAIN opened' = DOMAIN opened \cup {n}
        /\ opened'[n] = s /\ \A j \in DOMAIN opened : opened'[j] = opened[j]
    BY <1>0, <1>1, <1>2, RowAdded
  <1>4. /\ audit' \in Seq(Entries) /\ DOMAIN audit' = DOMAIN audit \cup {i}
        /\ audit'[i] = e /\ \A j \in DOMAIN audit : audit'[j] = audit[j]
    BY <1>0, <1>1, <1>2, RowAdded
  <1>5. RecordsGrow /\ NothingGranted
    BY <1>2, <1>3, <1>4 DEF RecordsGrow, NothingGranted
  <1>6. OpenedOnRecord(n)'
    BY <1>1, <1>3, <1>4 DEF OpenedOnRecord
  <1>7. RecordsStand' /\ \A b \in Admins : PowerIsGiven(b)'
    BY <1>2, <1>3, <1>5, <1>6, RecordsStandOn
  <1>8. /\ visit' \in [Visits -> VisitStates] /\ late' \in SUBSET Visits
        /\ \A d \in Visits : SupportVisitStands(d)'
    BY <1>0, <1>2, <1>3, <1>5, NobodyVisits DEF SupportTypeOK
  <1> QED
    BY <1>0, <1>2, <1>3, <1>4, <1>7, <1>8 DEF SupportKeeps, SupportTypeOK

LEMMA CloseStep ==
  ASSUME SupportInv, NEW a \in Admins, NEW s \in DOMAIN opened, Close(a, s) PROVE SupportKeeps
  <1> DEFINE row == [opened[s] EXCEPT !.closed = TRUE]
  <1>0. /\ SupportTypeOK /\ row \in Openings /\ opened \in Seq(Openings)
        /\ row.agent = opened[s].agent /\ row.expires = opened[s].expires
    BY SupportTypes DEF SupportInv, SupportTypeOK, Openings
  <1>1. opened' = [opened EXCEPT ![s] = row] /\ UNCHANGED <<role, asked, audit, visit>>
    BY DEF Close
  <1>2. /\ opened' \in Seq(Openings) /\ DOMAIN opened' = DOMAIN opened
        /\ opened'[s] = row /\ \A j \in DOMAIN opened : j # s => opened'[j] = opened[j]
    BY <1>0, <1>1, RowReplaced
  <1>3. RecordsGrow /\ NothingGranted
    BY <1>0, <1>1, <1>2 DEF RecordsGrow, NothingGranted
  <1>4. RecordsStand' /\ \A b \in Admins : PowerIsGiven(b)'
    BY <1>1, <1>2, <1>3, RecordsStandOn
  <1>5. late' = late \cup {c \in Visits : visit[c].step # "idle" /\ visit[c].session \in {s}}
    BY DEF Close, Overtakes
  <1>6. /\ visit' \in [Visits -> VisitStates] /\ late' \in SUBSET Visits
        /\ \A d \in Visits : SupportVisitStands(d)'
    BY <1>0, <1>1, <1>2, <1>3, <1>5, NobodyVisits DEF SupportTypeOK
  <1> QED
    BY <1>0, <1>1, <1>2, <1>4, <1>6 DEF SupportKeeps, SupportTypeOK

LEMMA SweepStep == ASSUME SupportInv, Sweep PROVE SupportKeeps
  <1>0. /\ SupportTypeOK /\ opened \in Seq(Openings) /\ Len(opened) \in Nat
        /\ DOMAIN opened = 1..Len(opened)
    BY DEF SupportInv, SupportTypeOK
  <1>1. /\ opened' = [s \in DOMAIN opened |->
                        IF s \in Due THEN [opened[s] EXCEPT !.expired = TRUE] ELSE opened[s]]
        /\ UNCHANGED <<role, asked, audit, visit, late>>
    BY DEF Sweep
  <1>2. ASSUME NEW s \in DOMAIN opened
        PROVE  /\ opened'[s] \in Openings /\ opened'[s].agent = opened[s].agent
               /\ opened'[s].expires = opened[s].expires /\ opened'[s].closed = opened[s].closed
    BY <1>0, <1>1, SupportTypes DEF Openings
  <1>3. opened' \in [1..Len(opened) -> Openings]
    BY <1>0, <1>1, <1>2
  <1>4. opened' \in Seq(Openings) /\ DOMAIN opened' = DOMAIN opened
    BY <1>0, <1>3
  <1>5. RecordsGrow /\ NothingGranted
    BY <1>1, <1>2, <1>4 DEF RecordsGrow, NothingGranted
  <1>6. RecordsStand' /\ \A b \in Admins : PowerIsGiven(b)'
    BY <1>1, <1>4, <1>5, RecordsStandOn
  <1>7. /\ visit' \in [Visits -> VisitStates] /\ late' \in SUBSET Visits
        /\ \A d \in Visits : SupportVisitStands(d)'
    BY <1>0, <1>1, <1>2, <1>5, NobodyVisits DEF SupportTypeOK
  <1> QED
    BY <1>0, <1>1, <1>4, <1>6, <1>7 DEF SupportKeeps, SupportTypeOK

LEMMA AskStep ==
  ASSUME SupportInv, NEW of \in Nat, NEW target \in Admins, NEW expires \in Nat,
         Ask(of, target, expires),
         of # 0 => /\ of \in DOMAIN opened /\ target = opened[of].agent
                   /\ expires <= opened[of].expires
  PROVE  SupportKeeps
  <1> DEFINE row == [of |-> of, target |-> target, expires |-> expires,
                     resolved |-> Unresolved, by |-> Nobody, closed |-> FALSE]
  <1>0. SupportTypeOK /\ row \in Askings /\ asked \in Seq(Askings)
    BY DEF SupportInv, SupportTypeOK, Askings, Unresolved
  <1>1. PICK n : n = Len(asked) + 1
    OBVIOUS
  <1>2. asked' = Append(asked, row) /\ UNCHANGED <<role, opened, audit, visit, late>>
    BY DEF Ask
  <1>3. /\ asked' \in Seq(Askings) /\ DOMAIN asked' = DOMAIN asked \cup {n}
        /\ n \notin DOMAIN asked
        /\ asked'[n] = row /\ \A j \in DOMAIN asked : asked'[j] = asked[j]
    BY <1>0, <1>1, <1>2, RowAdded
  <1>4. RecordsGrow /\ NothingGranted
    BY <1>2, <1>3 DEF RecordsGrow, NothingGranted
  <1>5. RequestIsProper(n)'
    BY <1>2, <1>3 DEF RequestIsProper
  <1>6. RecordsStand' /\ \A b \in Admins : PowerIsGiven(b)'
    BY <1>2, <1>3, <1>4, <1>5, RecordsStandOn
  <1>7. /\ visit' \in [Visits -> VisitStates] /\ late' \in SUBSET Visits
        /\ \A d \in Visits : SupportVisitStands(d)'
    BY <1>0, <1>2, <1>4, NobodyVisits DEF SupportTypeOK
  <1> QED
    BY <1>0, <1>2, <1>3, <1>6, <1>7 DEF SupportKeeps, SupportTypeOK

\* The expiry of a request about a session is capped at the session's.
LEMMA RequestExpiryIsCapped ==
  ASSUME SupportInv, NEW s \in DOMAIN opened
  PROVE  RequestExpiry(s) \in Nat /\ RequestExpiry(s) <= opened[s].expires
  <1>1. /\ supportClock + RequestTtl \in Nat /\ opened[s].expires \in Nat
    BY SupportAssumption, SupportTypes DEF SupportInv, SupportTypeOK
  <1> QED
    BY <1>1 DEF RequestExpiry, Min

LEMMA AskForSessionStep ==
  ASSUME SupportInv, NEW a \in Admins, NEW s \in DOMAIN opened, AskForSession(a, s)
  PROVE  SupportKeeps
  <1>1. opened[s].agent = a /\ Ask(s, a, RequestExpiry(s)) /\ s \in Nat
    BY SupportTypes DEF AskForSession, Own, SupportInv
  <1> QED
    BY <1>1, RequestExpiryIsCapped, AskStep

LEMMA AskForRoleStep ==
  ASSUME SupportInv, NEW a \in Admins, AskForRole(a) PROVE SupportKeeps
  <1>1. Ask(0, a, supportClock + RequestTtl) /\ supportClock + RequestTtl \in Nat
    BY SupportAssumption DEF AskForRole, SupportInv, SupportTypeOK
  <1> QED
    BY <1>1, AskStep

LEMMA ReadRequestStep ==
  ASSUME SupportInv, NEW a \in Admins, NEW c \in Visits, NEW r \in DOMAIN asked,
         ReadRequest(c, a, r)
  PROVE  SupportKeeps
  <1> DEFINE x == [step |-> "approving", by |-> a, role |-> role[a], now |-> supportClock,
                   of |-> r, session |-> asked[r].of]
  <1>0. SupportTypeOK /\ x \in VisitStates
    BY SupportTypes DEF SupportInv, SupportTypeOK, VisitStates
  <1>1. /\ visit' = [visit EXCEPT ![c] = x] /\ late' = late \ {c}
        /\ UNCHANGED <<role, opened, asked, audit>>
    BY DEF ReadRequest, Enters
  <1>2. RecordsGrow /\ RecordsStand' /\ \A b \in Admins : PowerIsGiven(b)'
    BY <1>1, RecordsUnchanged
  <1>3. visit'[c] = x
    BY <1>0, <1>1 DEF SupportTypeOK
  <1>4. SupportVisitStands(c)'
    BY <1>1, <1>3 DEF SupportVisitStands, ReadRequest
  <1> HIDE DEF x
  <1>5. /\ visit' \in [Visits -> VisitStates] /\ late' \in SUBSET Visits
        /\ \A d \in Visits : SupportVisitStands(d)'
    BY <1>0, <1>1, <1>2, <1>4, OneVisits
  <1> QED
    BY <1>0, <1>1, <1>2, <1>5 DEF SupportKeeps, SupportTypeOK

LEMMA LeaveStep ==
  ASSUME SupportInv, NEW c \in Visits, Leaves(c), UNCHANGED <<role, opened, asked, audit>>
  PROVE  SupportKeeps
  <1>1. RecordsGrow /\ RecordsStand' /\ \A b \in Admins : PowerIsGiven(b)'
    BY RecordsUnchanged
  <1> QED
    BY <1>1, OneLeaves DEF SupportKeeps, SupportInv, SupportTypeOK

LEMMA ReadSessionStep ==
  ASSUME SupportInv, NEW c \in Visits, ReadSession(c) PROVE SupportKeeps
  <1>0. SupportTypeOK /\ UNCHANGED <<role, opened, asked, audit>> /\ visit[c].step = "approving"
    BY DEF SupportInv, ReadSession
  <1>1. CASE Leaves(c)
    BY <1>0, <1>1, LeaveStep
  <1>2. CASE /\ visit' = [visit EXCEPT ![c].step = "granting"] /\ UNCHANGED late
             /\ MayApprove(c)
    <2> DEFINE x == [visit[c] EXCEPT !.step = "granting"]
    <2>1. /\ x \in VisitStates /\ x.step = "granting" /\ x.of = visit[c].of
          /\ x.session = visit[c].session /\ x.by = visit[c].by
      BY <1>0, VisitTypes DEF VisitStates
    <2>2. visit' = [visit EXCEPT ![c] = x]
      BY <1>2
    <2> HIDE DEF x
    <2>3. RecordsGrow /\ RecordsStand' /\ \A b \in Admins : PowerIsGiven(b)'
      BY <1>0, RecordsUnchanged
    <2>4. visit'[c] = x /\ SupportVisitStands(c)
      BY <1>0, <2>2 DEF SupportInv, SupportTypeOK
    <2>5. SupportVisitStands(c)'
      BY <1>0, <1>2, <2>1, <2>4 DEF SupportVisitStands, MayApprove
    <2>6. /\ visit' \in [Visits -> VisitStates] /\ late' \in SUBSET Visits
          /\ \A d \in Visits : SupportVisitStands(d)'
      BY <1>0, <1>2, <2>1, <2>2, <2>3, <2>5, OneVisits
    <2> QED
      BY <1>0, <2>3, <2>6 DEF SupportKeeps, SupportTypeOK
  <1> QED
    BY <1>1, <1>2 DEF ReadSession

\* The one step that gives a power: the request it consumes is unanswered, so that
\* no entry is about it yet, and the one it adds is the only one.
LEMMA GrantStep == ASSUME SupportInv, NEW c \in Visits, Grant(c) PROVE SupportKeeps
  <1> DEFINE of == visit[c].of
             now == visit[c].now
             by == visit[c].by
  <1>0. PICK r, at, a : r = of /\ at = now /\ a = by
    OBVIOUS
  <1>1. /\ SupportTypeOK /\ r \in DOMAIN asked /\ at \in Nat \ {0} /\ a \in Admins
        /\ role[a] = "super_admin" /\ asked[r].target # a /\ asked[r].target \in Admins
        /\ Leaves(c) /\ UNCHANGED opened
    <2>1. SupportVisitStands(c) /\ SupportTypeOK /\ Grant(c)
      BY DEF SupportInv
    <2> QED
      BY <1>0, <2>1, VisitTypes, SupportTypes DEF Grant, SupportVisitStands
  <1>2. CASE ~ Consumes(r, at)
    BY <1>0, <1>1, <1>2, LeaveStep DEF Grant
  <1>3. CASE Consumes(r, at)
    <2> DEFINE row == [asked[r] EXCEPT !.resolved = at, !.by = a]
               e == [action |-> "elevated", by |-> a, of |-> r]
    <2>1. /\ asked' = [asked EXCEPT ![r] = row] /\ audit' = Append(audit, e)
          /\ role' = IF asked[r].of = 0
                     THEN [role EXCEPT ![asked[r].target] = "super_admin"] ELSE role
      BY <1>0, <1>3 DEF Grant
    <2>2. /\ row \in Askings /\ row.of = asked[r].of /\ row.target = asked[r].target
          /\ row.expires = asked[r].expires /\ row.resolved = at /\ row.by = a
      <3>1. asked[r] \in Askings
        BY <1>1, SupportTypes
      <3> QED
        BY <1>1, <3>1 DEF Askings
    <2>3. e \in Entries
      BY <1>1, SupportTypes DEF Entries
    <2> HIDE DEF row
    <2>4. /\ asked' \in Seq(Askings) /\ DOMAIN asked' = DOMAIN asked
          /\ asked'[r] = row /\ \A q \in DOMAIN asked : q # r => asked'[q] = asked[q]
      BY <1>1, <2>1, <2>2, RowReplaced DEF SupportTypeOK
    <2>5. PICK n : n = Len(audit) + 1
      OBVIOUS
    <2>6. /\ audit' \in Seq(Entries) /\ DOMAIN audit' = DOMAIN audit \cup {n}
          /\ audit'[n] = e /\ n \notin DOMAIN audit
          /\ \A i \in DOMAIN audit : audit'[i] = audit[i]
      BY <1>1, <2>1, <2>3, <2>5, RowAdded DEF SupportTypeOK
    <2>7. /\ role' \in [Admins -> Roles]
          /\ \A b \in Admins : role'[b] = role[b] \/ role'[b] = "super_admin"
          /\ \A b \in Admins : role'[b] # role[b] => asked[r].of = 0 /\ b = asked[r].target
      BY <1>1, <2>1 DEF SupportTypeOK, Roles
    <2>8. asked[r].resolved = Unresolved
      BY <1>3 DEF Consumes, Pending
    <2>9. RecordsGrow
      BY <1>1, <2>2, <2>4, <2>6, <2>7, <2>8 DEF RecordsGrow
    <2>10. ASSUME NEW s \in DOMAIN opened PROVE OpenedOnRecord(s)'
      BY <1>1, <2>9 DEF SupportInv, RecordsStand, OpenedOnRecord, RecordsGrow
    <2>11. ASSUME NEW q \in DOMAIN asked PROVE RequestIsProper(q)' /\ GrantedOnce(q)'
      <3>1. RequestIsProper(q) /\ GrantedOnce(q)
        BY DEF SupportInv, RecordsStand
      <3>2. RequestIsProper(q)'
        <4>1. CASE q = r
          BY <1>1, <2>2, <2>4, <2>9, <3>1, <4>1 DEF RequestIsProper, RecordsGrow
        <4>2. CASE q # r
          BY <1>1, <2>4, <2>9, <3>1, <4>2 DEF RequestIsProper, RecordsGrow
        <4> QED
          BY <4>1, <4>2
      <3>3. CASE q = r
        <4>1. GrantsOf(r) = {}
          BY <2>8, <3>1, <3>3 DEF GrantedOnce
        <4>2. GrantsOf(r)' = {n}
          BY <2>6, <4>1 DEF GrantsOf
        <4> QED
          BY <1>1, <2>2, <2>4, <2>6, <3>2, <3>3, <4>2 DEF GrantedOnce, Unresolved
      <3>4. CASE q # r
        <4>1. GrantsOf(q)' = GrantsOf(q)
          BY <2>6, <3>4 DEF GrantsOf
        <4> QED
          BY <2>4, <2>6, <3>1, <3>2, <3>4, <4>1 DEF GrantedOnce
      <3> QED
        BY <3>3, <3>4
    <2>12. \A i \in DOMAIN audit' : audit'[i].action = "elevated" => audit'[i].of \in DOMAIN asked'
      BY <1>1, <2>4, <2>6 DEF SupportInv, RecordsStand
    <2>13. ASSUME NEW b \in Admins PROVE PowerIsGiven(b)'
      <3>1. CASE role'[b] = role[b]
        BY <2>4, <2>9, <3>1 DEF SupportInv, PowerIsGiven, RecordsGrow
      <3>2. CASE role'[b] # role[b]
        BY <1>1, <2>2, <2>4, <2>7, <3>2 DEF PowerIsGiven, Unresolved
      <3> QED
        BY <3>1, <3>2
    <2>14. /\ visit' \in [Visits -> VisitStates] /\ late' \in SUBSET Visits
           /\ \A d \in Visits : SupportVisitStands(d)'
      BY <1>1, <2>9, OneLeaves
    <2>15. RecordsStand'
      BY <1>1, <2>4, <2>10, <2>11, <2>12 DEF RecordsStand
    <2> QED
      BY <1>1, <2>4, <2>6, <2>7, <2>13, <2>14, <2>15 DEF SupportKeeps, SupportTypeOK
  <1> QED
    BY <1>2, <1>3

LEMMA EnterSessionStep ==
  ASSUME SupportInv, NEW a \in Admins, NEW s \in DOMAIN opened, NEW c \in Visits,
         EnterSession(c, a, s)
  PROVE  SupportKeeps
  <1> DEFINE x == [step |-> "entered", by |-> a, role |-> role[a], now |-> supportClock,
                   of |-> 0, session |-> s]
  <1>0. SupportTypeOK /\ x \in VisitStates
    BY SupportTypes DEF SupportInv, SupportTypeOK, VisitStates
  <1>1. /\ visit' = [visit EXCEPT ![c] = x] /\ late' = late \ {c}
        /\ UNCHANGED <<role, opened, asked, audit>>
        /\ opened[s].agent = a /\ ~ opened[s].closed
    BY DEF EnterSession, Enters, Own, Active
  <1>2. RecordsGrow /\ RecordsStand' /\ \A b \in Admins : PowerIsGiven(b)'
    BY <1>1, RecordsUnchanged
  <1>3. visit'[c] = x
    BY <1>0, <1>1 DEF SupportTypeOK
  <1>4. SupportVisitStands(c)'
    BY <1>1, <1>3 DEF SupportVisitStands
  <1> HIDE DEF x
  <1>5. /\ visit' \in [Visits -> VisitStates] /\ late' \in SUBSET Visits
        /\ \A d \in Visits : SupportVisitStands(d)'
    BY <1>0, <1>1, <1>2, <1>4, OneVisits
  <1> QED
    BY <1>0, <1>1, <1>2, <1>5 DEF SupportKeeps, SupportTypeOK

LEMMA RawDetailStep ==
  ASSUME SupportInv, NEW c \in Visits, RawDetail(c) PROVE SupportKeeps
  <1> DEFINE x == [visit[c] EXCEPT !.step = "reading"]
  <1>0. SupportTypeOK /\ x \in VisitStates /\ x.step = "reading"
    BY VisitTypes DEF SupportInv, VisitStates
  <1>1. /\ visit' = [visit EXCEPT ![c] = x] /\ UNCHANGED <<role, opened, asked, audit, late>>
    BY DEF RawDetail
  <1> HIDE DEF x
  <1>2. RecordsGrow /\ RecordsStand' /\ \A b \in Admins : PowerIsGiven(b)'
    BY <1>1, RecordsUnchanged
  <1>3. visit'[c] = x
    BY <1>0, <1>1 DEF SupportTypeOK
  <1>4. SupportVisitStands(c)'
    BY <1>0, <1>3 DEF SupportVisitStands
  <1>5. /\ visit' \in [Visits -> VisitStates] /\ late' \in SUBSET Visits
        /\ \A d \in Visits : SupportVisitStands(d)'
    BY <1>0, <1>1, <1>2, <1>4, OneVisits
  <1> QED
    BY <1>0, <1>1, <1>2, <1>5 DEF SupportKeeps, SupportTypeOK

LEMMA CloseElevationStep ==
  ASSUME SupportInv, NEW a \in Admins, NEW s \in DOMAIN opened, NEW r \in DOMAIN asked,
         CloseElevation(a, s, r)
  PROVE  SupportKeeps
  <1> DEFINE row == [asked[r] EXCEPT !.closed = TRUE]
  <1>0. SupportTypeOK /\ asked[r] \in Askings /\ asked \in Seq(Askings)
    BY SupportTypes DEF SupportInv, SupportTypeOK
  <1>1. /\ row \in Askings /\ row.of = asked[r].of /\ row.target = asked[r].target
        /\ row.expires = asked[r].expires /\ row.resolved = asked[r].resolved
        /\ row.by = asked[r].by
    BY <1>0 DEF Askings
  <1>2. asked' = [asked EXCEPT ![r] = row] /\ UNCHANGED <<role, opened, audit, visit, late>>
    BY DEF CloseElevation
  <1> HIDE DEF row
  <1>3. /\ asked' \in Seq(Askings) /\ DOMAIN asked' = DOMAIN asked
        /\ asked'[r] = row /\ \A q \in DOMAIN asked : q # r => asked'[q] = asked[q]
    BY <1>0, <1>1, <1>2, RowReplaced
  <1>4. RecordsGrow /\ NothingGranted
    BY <1>1, <1>2, <1>3 DEF RecordsGrow, NothingGranted
  <1>5. RecordsStand' /\ \A b \in Admins : PowerIsGiven(b)'
    BY <1>2, <1>3, <1>4, RecordsStandOn
  <1>6. /\ visit' \in [Visits -> VisitStates] /\ late' \in SUBSET Visits
        /\ \A d \in Visits : SupportVisitStands(d)'
    BY <1>0, <1>2, <1>4, NobodyVisits DEF SupportTypeOK
  <1> QED
    BY <1>0, <1>2, <1>3, <1>5, <1>6 DEF SupportKeeps, SupportTypeOK

LEMMA NothingHappens ==
  ASSUME SupportInv, UNCHANGED <<role, opened, asked, audit, visit, late>> PROVE SupportKeeps
  <1>1. RecordsGrow /\ RecordsStand' /\ \A b \in Admins : PowerIsGiven(b)'
    BY RecordsUnchanged
  <1>2. \A c \in Visits : SupportVisitStands(c)'
    BY DEF SupportInv, SupportVisitStands
  <1> QED
    BY <1>1, <1>2 DEF SupportKeeps, SupportInv, SupportTypeOK

-----------------------------------------------------------------------------
LEMMA NextSupportInv == SupportInv /\ [SupportNext]_supportVars => SupportInv'
  <1> SUFFICES ASSUME SupportInv, [SupportNext]_supportVars PROVE SupportInv'
    OBVIOUS
  <1>0. SupportTypeOK
    BY DEF SupportInv
  <1>1. CASE SupportTick \/ UNCHANGED supportVars
    <2>1. SupportKeeps
      BY <1>1, NothingHappens DEF SupportTick, supportVars
    <2>2. supportClock' \in Nat \ {0} /\ visits' \in Nat
      BY <1>0, <1>1 DEF SupportTick, supportVars, SupportTypeOK
    <2> QED
      BY <2>1, <2>2 DEF SupportInv, SupportTypeOK, SupportKeeps
  <1>2. CASE SupportNext /\ ~ SupportTick
    <2>1. SupportKeeps
      BY <1>2, SupportOpenStep, CloseStep, SweepStep, AskForSessionStep, AskForRoleStep, ReadRequestStep,
         ReadSessionStep, GrantStep, EnterSessionStep, RawDetailStep, CloseElevationStep, LeaveStep
         DEF SupportNext, VisitFails
    <2>2. supportClock' = supportClock /\ (visits' = visits \/ visits' = visits + 1)
      BY <1>2 DEF SupportNext, Open, Close, Sweep, AskForSession, AskForRole, Ask, ReadRequest,
         ReadSession, Grant, VisitFails, EnterSession, RawDetail, CloseElevation, Enters
    <2> QED
      BY <1>0, <2>1, <2>2 DEF SupportInv, SupportTypeOK, SupportKeeps
  <1> QED
    BY <1>1, <1>2

THEOREM SupportInvariant == SupportSpec => []SupportInv
  BY InitSupportInv, NextSupportInv, PTL DEF SupportSpec

\* Whatever approvals overlap, fail or come late, each elevation has one entry in the
\* audit log, by a super_admin who is not the one elevated, lasts no longer than the
\* session it is for, and no role changed without one.
THEOREM PowersStayGranted == SupportSpec => []PowersAreGranted
  <1>1. ASSUME SupportInv PROVE PowersAreGranted
    <2>1. ASSUME NEW r \in DOMAIN asked
          PROVE  Cardinality(GrantsOf(r)) = IF asked[r].resolved # Unresolved THEN 1 ELSE 0
      <3>1. GrantedOnce(r)
        BY <1>1 DEF SupportInv, RecordsStand
      <3> QED
        BY <3>1, FS_Singleton, FS_EmptySet DEF GrantedOnce
    <2> QED
      BY <1>1, <2>1 DEF SupportInv, RecordsStand, RequestIsProper, PowerIsGiven, PowersAreGranted
  <1> QED
    BY <1>1, SupportInvariant, PTL

\* Whoever passes both guards of a raw-detail route has a session of her own, opened
\* on the record, closed at most between the guards, and elevated on another's word.
THEOREM RawDetailStaysElevated == SupportSpec => RawDetailIsElevated
  <1> DEFINE Lets(c) ==
        visit[c].step = "entered" /\ visit'[c].step = "reading" =>
          LET s == visit[c].session IN
          /\ opened[s].agent = visit[c].by
          /\ \E i \in DOMAIN audit : audit[i] = [action |-> "opened", by |-> visit[c].by, of |-> s]
          /\ opened[s].closed => c \in late
          /\ supportClock < opened[s].expires
          /\ \E r \in Elevated(s, supportClock) : asked[r].by # visit[c].by
  <1>1. ASSUME SupportInv, [SupportNext]_supportVars PROVE \A c \in Visits : Lets(c)
    <2> SUFFICES ASSUME NEW c \in Visits, visit[c].step = "entered", visit'[c].step = "reading"
                 PROVE  Lets(c)
      OBVIOUS
    <2>0. SupportTypeOK /\ SupportVisitStands(c) /\ visit \in [Visits -> VisitStates]
      BY <1>1 DEF SupportInv, SupportTypeOK
    <2>1. RawDetail(c)
      <3>1. ASSUME NEW d \in Visits, Leaves(d) PROVE FALSE
        BY <2>0, <3>1 DEF Leaves, Absent
      <3>2. ASSUME NEW d \in Visits, visit' = [visit EXCEPT ![d].step = "granting"] PROVE FALSE
        BY <2>0, <3>2 DEF VisitStates
      <3>3. ASSUME NEW d \in Visits, NEW a, NEW of, NEW s, NEW step \in {"approving", "entered"},
                   Enters(d, a, step, of, s)
            PROVE  FALSE
        BY <2>0, <3>3 DEF Enters
      <3>4. ASSUME NEW d \in Visits, RawDetail(d) PROVE d = c
        BY <2>0, <3>4 DEF RawDetail
      <3>5. visit' # visit
        OBVIOUS
      <3>6. PICK d \in Visits : \/ ReadSession(d) \/ Grant(d) \/ RawDetail(d) \/ VisitFails(d)
                                \/ \E a \in Admins :
                                     \/ \E s \in DOMAIN opened : EnterSession(d, a, s)
                                     \/ \E r \in DOMAIN asked : ReadRequest(d, a, r)
        BY <1>1, <3>5 DEF SupportNext, SupportTick, Sweep, Open, AskForRole, AskForSession, Ask,
                          Close, CloseElevation, supportVars
      <3>7. RawDetail(d)
        BY <3>1, <3>2, <3>3, <3>6 DEF ReadSession, Grant, VisitFails, EnterSession, ReadRequest
      <3> QED
        BY <3>4, <3>7
    <2>2. PICK r \in Elevated(visit[c].session, supportClock) : TRUE
      BY <2>1 DEF RawDetail
    <2> DEFINE s == visit[c].session
    <2>3. /\ s \in DOMAIN opened /\ opened[s].agent = visit[c].by
          /\ opened[s].closed => c \in late
      BY <2>0 DEF SupportVisitStands
    <2>4. s \in Nat \ {0} /\ OpenedOnRecord(s) /\ opened[s].expires \in Nat
      BY <1>1, <2>0, <2>3, SupportTypes DEF SupportInv, RecordsStand
    <2>5. /\ r \in DOMAIN asked /\ asked[r].of = s /\ asked[r].resolved # Unresolved
          /\ asked[r].expires > supportClock
      BY <2>2 DEF Elevated
    <2>6. RequestIsProper(r) /\ asked[r].expires \in Nat /\ supportClock \in Nat
      BY <1>1, <2>0, <2>5, SupportTypes DEF SupportInv, RecordsStand, SupportTypeOK
    <2>7. supportClock < opened[s].expires /\ asked[r].by # visit[c].by
      BY <2>3, <2>4, <2>5, <2>6 DEF RequestIsProper
    <2> QED
      BY <2>2, <2>3, <2>4, <2>7 DEF OpenedOnRecord
  <1> QED
    BY <1>1, SupportInvariant, PTL DEF SupportSpec, RawDetailIsElevated

(***************************************************************************)
(* For any number of overlapping requests, any lifetimes and any number of *)
(* tokens: the refresh tokens of a client are one chain.                   *)
(***************************************************************************)

TokenRows ==
  [kind : {"refresh", "access"}, parent : Nat, client : Nat, expires : Nat, revoked : Nat]

ExchangeStates ==
  [step : {"idle", "consume", "refresh", "access"}, now : Nat \ {0}, old : Nat, new : Nat]

TokenTypeOK ==
  /\ tokenClock \in Nat \ {0} /\ exchanged \in Nat
  /\ token \in Seq(TokenRows)
  /\ exchange \in [Exchanges -> ExchangeStates]
  /\ admitted \in [token : Nat, at : Nat]

Refreshes(t) == token[t].kind = "refresh"

\* A row goes back, through refresh tokens of its client, to the client's first.
RowStands(t) ==
  /\ token[t].parent < t
  /\ token[t].client \in 1..t
  /\ token[t].parent = None => Refreshes(t) /\ token[t].client = t
  /\ token[t].parent # None =>
       /\ Refreshes(token[t].parent)
       /\ token[token[t].parent].client = token[t].client
       /\ Refreshes(t) => token[token[t].parent].revoked # None

\* Of a client's refresh tokens only the latest may still work.
Succeeds(s, t) ==
  s < t /\ Refreshes(s) /\ Refreshes(t) /\ token[s].client = token[t].client =>
    token[s].revoked # None /\ token[s].parent # token[t].parent

RowsAreChained ==
  /\ \A t \in DOMAIN token : RowStands(t)
  /\ \A s, t \in DOMAIN token : Succeeds(s, t)

\* A request that has used up its token and has yet to write the next one: until it
\* does, its client has no token that works, and its token no successor.
Rotating(c) == exchange[c].step = "refresh" /\ exchange[c].old # None

ExchangeStands(c) ==
  LET old == exchange[c].old IN
  /\ exchange[c].step = "consume" \/ Rotating(c) => old \in DOMAIN token /\ Refreshes(old)
  /\ Rotating(c) =>
       \A s \in DOMAIN token : Refreshes(s) /\ token[s].client = token[old].client =>
         token[s].revoked # None /\ token[s].parent # old
  /\ exchange[c].step = "access" =>
       exchange[c].new \in DOMAIN token /\ Refreshes(exchange[c].new)

RotateApart(c, d) ==
  c # d /\ Rotating(c) /\ Rotating(d) =>
    token[exchange[c].old].client # token[exchange[d].old].client

ExchangesStand ==
  /\ \A c \in Exchanges : ExchangeStands(c)
  /\ \A c, d \in Exchanges : RotateApart(c, d)

AdmissionStands ==
  admitted.token # None =>
    /\ admitted.token \in DOMAIN token
    /\ token[admitted.token].kind = "access"
    /\ admitted.at < token[admitted.token].expires

TokenInv == TokenTypeOK /\ RowsAreChained /\ ExchangesStand /\ AdmissionStands

-----------------------------------------------------------------------------
LEMMA InitTokenInv == TokenInit => TokenInv
  <1> SUFFICES ASSUME TokenInit PROVE TokenInv
    OBVIOUS
  <1>1. DOMAIN token = {}
    BY DEF TokenInit
  <1>2. TokenTypeOK
    BY EmptySeq DEF TokenInit, TokenTypeOK, AtRest, NoAdmission, ExchangeStates, None
  <1>3. RowsAreChained /\ AdmissionStands
    BY <1>1 DEF TokenInit, RowsAreChained, AdmissionStands, NoAdmission
  <1>4. ExchangesStand
    BY DEF TokenInit, ExchangesStand, ExchangeStands, RotateApart, Rotating, AtRest
  <1> QED
    BY <1>2, <1>3, <1>4 DEF TokenInv

-----------------------------------------------------------------------------
(***************************************************************************)
(* What a statement does to the rows.                                      *)
(***************************************************************************)
\* Rows are added and revoked; nothing else of a row changes.
RowsRemain ==
  /\ DOMAIN token \subseteq DOMAIN token'
  /\ \A t \in DOMAIN token :
       /\ token'[t].kind = token[t].kind /\ token'[t].parent = token[t].parent
       /\ token'[t].client = token[t].client /\ token'[t].expires = token[t].expires
       /\ token[t].revoked # None => token'[t].revoked # None

LEMMA RowTypes ==
  ASSUME TokenTypeOK, NEW t \in DOMAIN token
  PROVE  /\ t \in Nat \ {0} /\ t <= Len(token) /\ Len(token) \in Nat
         /\ token[t] \in TokenRows
         /\ token[t].kind \in {"refresh", "access"} /\ token[t].parent \in Nat
         /\ token[t].client \in Nat /\ token[t].expires \in Nat /\ token[t].revoked \in Nat
  <1>1. token \in Seq(TokenRows)
    BY DEF TokenTypeOK
  <1>2. /\ t \in Nat \ {0} /\ t <= Len(token) /\ Len(token) \in Nat
        /\ token[t] \in TokenRows
    BY <1>1
  <1> QED
    BY <1>2 DEF TokenRows

LEMMA RevokesRow ==
  ASSUME TokenInv, NEW t \in DOMAIN token, NEW now \in Nat \ {0},
         token' = [token EXCEPT ![t].revoked = now]
  PROVE  /\ token' \in Seq(TokenRows) /\ DOMAIN token' = DOMAIN token
         /\ RowsRemain /\ RowsAreChained'
         /\ \A s \in DOMAIN token : s # t => token'[s] = token[s]
         /\ token'[t].revoked = now
  <1> USE DEF None
  <1>0. TokenTypeOK /\ RowsAreChained
    BY DEF TokenInv
  <1>1. [token[t] EXCEPT !.revoked = now] \in TokenRows
    BY <1>0, RowTypes DEF TokenRows
  <1>2. /\ token' = [token EXCEPT ![t] = [token[t] EXCEPT !.revoked = now]]
        /\ token' \in Seq(TokenRows) /\ DOMAIN token' = DOMAIN token
    BY <1>0, <1>1 DEF TokenTypeOK
  <1>3. /\ \A s \in DOMAIN token : s # t => token'[s] = token[s]
        /\ token'[t] = [token[t] EXCEPT !.revoked = now]
    BY <1>2
  <1>4. /\ token'[t].revoked = now
        /\ token'[t].kind = token[t].kind /\ token'[t].parent = token[t].parent
        /\ token'[t].client = token[t].client /\ token'[t].expires = token[t].expires
    BY <1>0, <1>3, RowTypes DEF TokenRows
  <1>5. RowsRemain
    BY <1>2, <1>3, <1>4 DEF RowsRemain
  <1>6. ASSUME NEW s \in DOMAIN token PROVE RowStands(s)'
    <2>1. RowStands(s)
      BY <1>0 DEF RowsAreChained
    <2>2. token[s].parent # None => token[s].parent \in DOMAIN token
      BY <1>0, <2>1, RowTypes DEF RowStands, TokenTypeOK
    <2> QED
      BY <1>5, <2>1, <2>2 DEF RowStands, RowsRemain, Refreshes
  <1>7. ASSUME NEW r \in DOMAIN token, NEW s \in DOMAIN token PROVE Succeeds(r, s)'
    BY <1>0, <1>5 DEF RowsAreChained, Succeeds, RowsRemain, Refreshes
  <1>8. RowsAreChained'
    BY <1>2, <1>6, <1>7 DEF RowsAreChained
  <1> QED
    BY <1>2, <1>3, <1>4, <1>5, <1>8

\* A new row may go behind the rows there are if it is the first of its client or
\* takes over from a used up token without a successor, all of whose client's
\* tokens are revoked; an access token goes with a refresh token.
MayFollow(row) ==
  /\ row.parent = None => row.kind = "refresh" /\ row.client = Len(token) + 1
  /\ row.parent # None =>
       /\ row.parent \in DOMAIN token /\ Refreshes(row.parent)
       /\ row.client = token[row.parent].client
       /\ row.kind = "refresh" =>
            \A s \in DOMAIN token : Refreshes(s) /\ token[s].client = row.client =>
              token[s].revoked # None /\ token[s].parent # row.parent

LEMMA AddsRow ==
  ASSUME TokenInv, NEW row \in TokenRows, MayFollow(row), token' = Append(token, row),
         NEW n, n = Len(token) + 1
  PROVE  /\ token' \in Seq(TokenRows) /\ DOMAIN token' = DOMAIN token \cup {n}
         /\ token'[n] = row
         /\ \A s \in DOMAIN token : token'[s] = token[s]
         /\ RowsRemain /\ RowsAreChained'
  <1> USE DEF None
  <1>0. TokenTypeOK /\ RowsAreChained /\ Len(token) \in Nat
    BY DEF TokenInv, TokenTypeOK
  <1>1. /\ token' \in Seq(TokenRows) /\ Len(token') = n
        /\ DOMAIN token = 1..Len(token) /\ DOMAIN token' = 1..n
        /\ token'[n] = row /\ \A s \in DOMAIN token : token'[s] = token[s]
    BY <1>0, AppendProperties DEF TokenTypeOK
  <1>2. n \notin DOMAIN token /\ DOMAIN token' = DOMAIN token \cup {n}
    BY <1>0, <1>1
  <1>3. RowsRemain
    BY <1>1, <1>2 DEF RowsRemain
  <1>4. /\ row.kind \in {"refresh", "access"} /\ row.parent \in Nat /\ row.client \in Nat
    BY DEF TokenRows
  <1>5. ASSUME NEW s \in DOMAIN token PROVE RowStands(s)'
    <2>1. RowStands(s)
      BY <1>0 DEF RowsAreChained
    <2>2. token[s].parent # None => token[s].parent \in DOMAIN token
      BY <1>0, <2>1, RowTypes DEF RowStands, TokenTypeOK
    <2> QED
      BY <1>1, <2>1, <2>2 DEF RowStands, Refreshes
  <1>6. RowStands(n)'
    <2>1. CASE row.parent = None
      BY <1>0, <1>1, <1>4, <2>1 DEF MayFollow, RowStands, Refreshes
    <2>2. CASE row.parent # None
      <3>1. /\ row.parent \in DOMAIN token /\ Refreshes(row.parent)
            /\ row.client = token[row.parent].client
            /\ row.kind = "refresh" => token[row.parent].revoked # None
        BY <2>2 DEF MayFollow
      <3>2. RowStands(row.parent) /\ row.parent <= Len(token)
        BY <1>0, <3>1, RowTypes DEF RowsAreChained
      <3>3. row.client \in 1..n /\ row.parent < n
        BY <1>0, <1>1, <1>4, <3>1, <3>2 DEF RowStands
      <3> QED
        BY <1>1, <1>4, <2>2, <3>1, <3>3 DEF RowStands, Refreshes
    <2> QED
      BY <2>1, <2>2
  <1>7. ASSUME NEW r \in DOMAIN token, NEW s \in DOMAIN token PROVE Succeeds(r, s)'
    BY <1>0, <1>1 DEF RowsAreChained, Succeeds, Refreshes
  <1>8. ASSUME NEW s \in DOMAIN token PROVE Succeeds(s, n)'
    <2> SUFFICES ASSUME Refreshes(s), row.kind = "refresh", token[s].client = row.client
                 PROVE  token[s].revoked # None /\ token[s].parent # row.parent
      BY <1>1 DEF Succeeds, Refreshes
    <2>1. RowStands(s) /\ s \in Nat /\ s <= Len(token)
      BY <1>0, RowTypes DEF RowsAreChained
    <2>2. row.parent # None
      BY <1>0, <2>1 DEF MayFollow, RowStands
    <2> QED
      BY <2>2 DEF MayFollow
  <1>9. RowsAreChained'
    <2> SUFFICES ASSUME NEW r \in DOMAIN token', NEW s \in DOMAIN token' PROVE Succeeds(r, s)'
      BY <1>2, <1>5, <1>6 DEF RowsAreChained
    <2>1. CASE r \in DOMAIN token /\ s \in DOMAIN token
      BY <1>7, <2>1
    <2>2. CASE r \in DOMAIN token /\ s = n
      BY <1>8, <2>2
    <2>3. CASE r = n
      BY <1>0, <1>1, <2>3 DEF Succeeds
    <2> QED
      BY <1>2, <2>1, <2>2, <2>3
  <1> QED
    BY <1>1, <1>2, <1>3, <1>9

-----------------------------------------------------------------------------
(***************************************************************************)
(* What a step does to the requests.                                       *)
(***************************************************************************)
\* A request that does not move stands on if no refresh token is added for the
\* client it is rotating a token of.
LEMMA OthersStand ==
  ASSUME TokenInv, RowsRemain, NEW d \in Exchanges, exchange'[d] = exchange[d],
         \A s \in DOMAIN token' \ DOMAIN token :
           Rotating(d) => ~ (Refreshes(s)' /\ token'[s].client = token[exchange[d].old].client)
  PROVE  ExchangeStands(d)'
  <1>1. ExchangeStands(d)
    BY DEF TokenInv, ExchangesStand
  <1>2. Rotating(d)' <=> Rotating(d)
    BY DEF Rotating
  <1>3. ASSUME Rotating(d), NEW s \in DOMAIN token', Refreshes(s)',
               token'[s].client = token'[exchange[d].old].client
        PROVE  token'[s].revoked # None /\ token'[s].parent # exchange[d].old
    <2>1. exchange[d].old \in DOMAIN token
      BY <1>1, <1>3 DEF ExchangeStands
    <2>2. s \in DOMAIN token
      BY <1>3, <2>1 DEF RowsRemain
    <2> QED
      BY <1>1, <1>3, <2>1, <2>2 DEF ExchangeStands, RowsRemain, Refreshes
  <1> QED
    BY <1>1, <1>2, <1>3 DEF ExchangeStands, RowsRemain, Refreshes

\* One request moves and the others stand.
LEMMA OneMoves ==
  ASSUME TokenInv, RowsRemain, NEW c \in Exchanges, NEW x \in ExchangeStates,
         exchange' = [exchange EXCEPT ![c] = x],
         ExchangeStands(c)',
         \A d \in Exchanges : d # c => ExchangeStands(d)' /\ RotateApart(c, d)'
  PROVE  exchange' \in [Exchanges -> ExchangeStates] /\ ExchangesStand'
  <1>1. exchange \in [Exchanges -> ExchangeStates] /\ ExchangesStand
    BY DEF TokenInv, TokenTypeOK
  <1>2. exchange' \in [Exchanges -> ExchangeStates] /\ exchange'[c] = x
    BY <1>1
  <1>3. \A d \in Exchanges : d # c => exchange'[d] = exchange[d]
    BY <1>1
  <1>4. ASSUME NEW d \in Exchanges, NEW e \in Exchanges PROVE RotateApart(d, e)'
    <2>1. CASE d = c
      BY <2>1 DEF RotateApart
    <2>2. CASE e = c /\ d # c
      BY <2>2 DEF RotateApart
    <2>3. CASE d # c /\ e # c
      <3>1. RotateApart(d, e) /\ ExchangeStands(d) /\ ExchangeStands(e)
        BY <1>1 DEF ExchangesStand
      <3> QED
        BY <1>3, <2>3, <3>1 DEF RotateApart, Rotating, ExchangeStands, RowsRemain
    <2> QED
      BY <2>1, <2>2, <2>3
  <1> QED
    BY <1>2, <1>4 DEF ExchangesStand

\* A request leaves, or one begins that has nothing in hand yet.
LEMMA OneIsNew ==
  ASSUME TokenInv, RowsRemain, DOMAIN token' = DOMAIN token, NEW c \in Exchanges,
         NEW x \in ExchangeStates, exchange' = [exchange EXCEPT ![c] = x],
         x.step = "idle" \/ (x.step = "refresh" /\ x.old = None)
  PROVE  exchange' \in [Exchanges -> ExchangeStates] /\ ExchangesStand'
  <1>1. exchange'[c] = x /\ \A d \in Exchanges : d # c => exchange'[d] = exchange[d]
    BY DEF TokenInv, TokenTypeOK
  <1>2. ExchangeStands(c)' /\ \A d \in Exchanges : RotateApart(c, d)'
    BY <1>1 DEF ExchangeStands, RotateApart, Rotating
  <1>3. \A d \in Exchanges : d # c => ExchangeStands(d)'
    BY <1>1, OthersStand
  <1> QED
    BY <1>2, <1>3, OneMoves

LEMMA ExchangeTypes ==
  ASSUME TokenInv, NEW c \in Exchanges
  PROVE  /\ exchange[c] \in ExchangeStates
         /\ exchange[c].step \in {"idle", "consume", "refresh", "access"}
         /\ exchange[c].now \in Nat \ {0} /\ exchange[c].old \in Nat /\ exchange[c].new \in Nat
         /\ ExchangeStands(c)
         /\ AtRest \in ExchangeStates /\ AtRest.step = "idle"
  BY DEF TokenInv, TokenTypeOK, ExchangesStand, ExchangeStates, AtRest, None

LEMMA RowsUnchanged == TokenInv /\ UNCHANGED token => RowsRemain /\ RowsAreChained'
  BY DEF TokenInv, RowsRemain, RowsAreChained, RowStands, Succeeds, Refreshes

\* The parts of the invariant that every request's step keeps.
ExchangeKeeps ==
  /\ token' \in Seq(TokenRows) /\ exchange' \in [Exchanges -> ExchangeStates]
  /\ RowsAreChained' /\ ExchangesStand'

-----------------------------------------------------------------------------
(***************************************************************************)
(* One lemma for each operation.                                           *)
(***************************************************************************)
LEMMA IssueStep ==
  ASSUME TokenInv, NEW c \in Exchanges, Issue(c) PROVE ExchangeKeeps
  <1> DEFINE x == [step |-> "refresh", now |-> tokenClock, old |-> None, new |-> None]
  <1>1. x \in ExchangeStates /\ token \in Seq(TokenRows)
    BY DEF TokenInv, TokenTypeOK, ExchangeStates, None
  <1>2. RowsRemain /\ RowsAreChained' /\ UNCHANGED token
    BY RowsUnchanged DEF Issue
  <1>3. exchange' = [exchange EXCEPT ![c] = x]
    BY DEF Issue, Arrives
  <1> HIDE DEF x
  <1>4. x.step = "refresh" /\ x.old = None
    BY DEF x
  <1> QED
    BY <1>1, <1>2, <1>3, <1>4, OneIsNew DEF ExchangeKeeps

LEMMA FindRefreshStep ==
  ASSUME TokenInv, NEW c \in Exchanges, NEW t \in DOMAIN token, FindRefresh(c, t)
  PROVE  ExchangeKeeps
  <1> DEFINE x == [step |-> "consume", now |-> tokenClock, old |-> t, new |-> None]
  <1>1. x \in ExchangeStates /\ token \in Seq(TokenRows)
    BY RowTypes DEF TokenInv, TokenTypeOK, ExchangeStates, None
  <1>2. RowsRemain /\ RowsAreChained' /\ UNCHANGED token
    BY RowsUnchanged DEF FindRefresh
  <1>3. exchange' = [exchange EXCEPT ![c] = x] /\ exchange \in [Exchanges -> ExchangeStates]
    BY DEF FindRefresh, Arrives, TokenInv, TokenTypeOK
  <1>4. exchange'[c] = x /\ \A d \in Exchanges : d # c => exchange'[d] = exchange[d]
    BY <1>3
  <1>5. ExchangeStands(c)' /\ \A d \in Exchanges : RotateApart(c, d)'
    BY <1>2, <1>4 DEF ExchangeStands, RotateApart, Rotating, FindRefresh, LiveToken, Refreshes
  <1>6. \A d \in Exchanges : d # c => ExchangeStands(d)'
    BY <1>2, <1>4, OthersStand
  <1> HIDE DEF x
  <1> QED
    BY <1>1, <1>2, <1>3, <1>5, <1>6, OneMoves DEF ExchangeKeeps

LEMMA ConsumeRefreshStep ==
  ASSUME TokenInv, NEW c \in Exchanges, ConsumeRefresh(c) PROVE ExchangeKeeps
  <1> DEFINE old == exchange[c].old
             now == exchange[c].now
  <1>t. PICK t, at : t = old /\ at = now
    OBVIOUS
  <1>0. /\ t \in DOMAIN token /\ Refreshes(t) /\ exchange[c].step = "consume"
        /\ at \in Nat \ {0} /\ exchange \in [Exchanges -> ExchangeStates]
    BY <1>t, ExchangeTypes DEF ConsumeRefresh, ExchangeStands, TokenInv, TokenTypeOK
  <1>1. CASE ~ Wins(t)
    <2>1. exchange' = [exchange EXCEPT ![c] = AtRest] /\ UNCHANGED token
      BY <1>1, <1>t DEF ConsumeRefresh, Concludes
    <2>2. RowsRemain /\ RowsAreChained' /\ token' \in Seq(TokenRows)
      BY <2>1, RowsUnchanged DEF TokenInv, TokenTypeOK
    <2> QED
      BY <2>1, <2>2, ExchangeTypes, OneIsNew DEF ExchangeKeeps
  <1>2. CASE Wins(t)
    <2> DEFINE x == [exchange[c] EXCEPT !.step = "refresh"]
    <2>1. /\ token' = [token EXCEPT ![t].revoked = at]
          /\ exchange' = [exchange EXCEPT ![c] = x]
      BY <1>2, <1>t DEF ConsumeRefresh
    <2>2. /\ token' \in Seq(TokenRows) /\ DOMAIN token' = DOMAIN token
          /\ RowsRemain /\ RowsAreChained'
          /\ \A s \in DOMAIN token : s # t => token'[s] = token[s]
          /\ token'[t].revoked = at
      BY <1>0, <2>1, RevokesRow
    <2>3. x \in ExchangeStates /\ x.step = "refresh" /\ x.old = t
      BY <1>0, <1>t DEF ExchangeStates
    <2>4. exchange'[c] = x /\ \A d \in Exchanges : d # c => exchange'[d] = exchange[d]
      BY <1>0, <2>1
    <2> HIDE DEF x
    <2>5. ASSUME NEW s \in DOMAIN token, Refreshes(s), token[s].client = token[t].client, s # t
          PROVE  token[s].revoked # None /\ token[s].parent # t
      <3>1. s \in Nat /\ t \in Nat \ {0} /\ (s < t \/ t < s)
        BY <1>0, <2>5, RowTypes DEF TokenInv
      <3>2. Succeeds(s, t) /\ Succeeds(t, s) /\ RowStands(s)
        BY <1>0 DEF TokenInv, RowsAreChained
      <3> QED
        BY <1>0, <1>2, <2>5, <3>1, <3>2 DEF Succeeds, RowStands, Wins, None
    <2>6. token[t].parent # t
      BY <1>0, RowTypes DEF TokenInv, RowsAreChained, RowStands
    <2>7. ExchangeStands(c)'
      BY <1>0, <2>2, <2>3, <2>4, <2>5, <2>6 DEF ExchangeStands, Rotating, RowsRemain, Refreshes, None
    <2>8. ASSUME NEW d \in Exchanges, d # c PROVE RotateApart(c, d)'
      <3> SUFFICES ASSUME Rotating(d) PROVE token'[t].client # token'[exchange[d].old].client
        BY <2>3, <2>4, <2>8 DEF RotateApart, Rotating
      <3>1. /\ exchange[d].old \in DOMAIN token
            /\ token[t].client = token[exchange[d].old].client => token[t].revoked # None
        BY <1>0, ExchangeTypes DEF ExchangeStands
      <3> QED
        BY <1>0, <1>2, <2>2, <3>1 DEF RowsRemain, Wins
    <2>9. \A d \in Exchanges : d # c => ExchangeStands(d)'
      BY <2>2, <2>4, OthersStand
    <2> QED
      BY <2>1, <2>2, <2>3, <2>7, <2>8, <2>9, OneMoves DEF ExchangeKeeps
  <1> QED
    BY <1>1, <1>2

LEMMA CreateRefreshStep ==
  ASSUME TokenInv, NEW c \in Exchanges, CreateRefresh(c) PROVE ExchangeKeeps
  <1> DEFINE old == exchange[c].old
             client == IF old = None THEN Len(token) + 1 ELSE token[old].client
             row == Row("refresh", old, client, exchange[c].now + RefreshTtl)
             x == [exchange[c] EXCEPT !.step = "access", !.new = Len(token) + 1]
  <1>0. /\ exchange[c].now \in Nat \ {0} /\ old \in Nat /\ exchange[c].step = "refresh"
        /\ old # None => old \in DOMAIN token /\ Refreshes(old)
        /\ exchange \in [Exchanges -> ExchangeStates] /\ Len(token) \in Nat
    BY ExchangeTypes DEF CreateRefresh, ExchangeStands, Rotating, TokenInv, TokenTypeOK
  <1>1. /\ token' = Append(token, row)
        /\ exchange' = [exchange EXCEPT ![c] = x]
    BY DEF CreateRefresh
  <1>2. row \in TokenRows /\ row.kind = "refresh" /\ row.parent = old /\ row.client = client
    BY <1>0, RowTypes, TokenAssumption DEF TokenInv, TokenRows, Row, None
  <1>3. x \in ExchangeStates /\ x.step = "access" /\ x.new = Len(token) + 1
    <2>1. exchange[c] \in ExchangeStates /\ Len(token) + 1 \in Nat
      BY <1>0
    <2> QED
      BY <2>1 DEF ExchangeStates
  <1> HIDE DEF row, x
  <1>4. MayFollow(row)
    BY <1>0, <1>2, ExchangeTypes DEF MayFollow, ExchangeStands, Rotating
  <1>5. PICK n : n = Len(token) + 1
    OBVIOUS
  <1>6. /\ token' \in Seq(TokenRows) /\ DOMAIN token' = DOMAIN token \cup {n}
        /\ token'[n] = row /\ RowsRemain /\ RowsAreChained'
    BY <1>1, <1>2, <1>4, <1>5, AddsRow
  <1>7. exchange'[c] = x /\ \A d \in Exchanges : d # c => exchange'[d] = exchange[d]
    BY <1>0, <1>1
  <1>8. ExchangeStands(c)' /\ \A d \in Exchanges : RotateApart(c, d)'
    BY <1>2, <1>3, <1>5, <1>6, <1>7 DEF ExchangeStands, RotateApart, Rotating, Refreshes
  <1>9. ASSUME NEW d \in Exchanges, d # c PROVE ExchangeStands(d)'
    <2>1. ASSUME Rotating(d) PROVE row.client # token[exchange[d].old].client
      <3>1. exchange[d].old \in DOMAIN token
        BY <2>1, ExchangeTypes DEF ExchangeStands
      <3>2. CASE old = None
        <4>1. token[exchange[d].old].client <= Len(token)
          BY <1>0, <3>1, RowTypes DEF TokenInv, RowsAreChained, RowStands
        <4> QED
          BY <1>0, <1>2, <3>1, <3>2, <4>1, RowTypes DEF TokenInv
      <3>3. CASE old # None
        BY <1>0, <1>2, <1>9, <2>1, <3>3 DEF TokenInv, ExchangesStand, RotateApart, Rotating
      <3> QED
        BY <3>2, <3>3
    <2> QED
      BY <1>6, <1>7, <1>9, <2>1, OthersStand
  <1> QED
    BY <1>1, <1>3, <1>6, <1>8, <1>9, OneMoves DEF ExchangeKeeps

LEMMA CreateAccessStep ==
  ASSUME TokenInv, NEW c \in Exchanges, CreateAccess(c) PROVE ExchangeKeeps
  <1> DEFINE parent == exchange[c].new
             row == Row("access", parent, token[parent].client, exchange[c].now + AccessTtl)
  <1>0. /\ exchange[c].now \in Nat \ {0} /\ parent \in DOMAIN token /\ Refreshes(parent)
        /\ exchange \in [Exchanges -> ExchangeStates]
    BY ExchangeTypes DEF CreateAccess, ExchangeStands, TokenInv, TokenTypeOK
  <1>1. /\ token' = Append(token, row)
        /\ exchange' = [exchange EXCEPT ![c] = AtRest]
    BY DEF CreateAccess, Concludes
  <1>2. /\ row \in TokenRows /\ row.kind = "access" /\ row.parent = parent
        /\ row.client = token[parent].client
    BY <1>0, RowTypes, TokenAssumption DEF TokenInv, TokenRows, Row, None
  <1> HIDE DEF row
  <1>3. MayFollow(row)
    BY <1>0, <1>2, RowTypes DEF MayFollow, TokenInv, None
  <1>4. PICK n : n = Len(token) + 1
    OBVIOUS
  <1>5. /\ token' \in Seq(TokenRows) /\ DOMAIN token' = DOMAIN token \cup {n}
        /\ token'[n] = row /\ RowsRemain /\ RowsAreChained'
    BY <1>1, <1>2, <1>3, <1>4, AddsRow
  <1>6. exchange'[c] = AtRest /\ \A d \in Exchanges : d # c => exchange'[d] = exchange[d]
    BY <1>0, <1>1
  <1>7. ExchangeStands(c)' /\ \A d \in Exchanges : RotateApart(c, d)'
    BY <1>6 DEF ExchangeStands, RotateApart, Rotating, AtRest
  <1>8. \A d \in Exchanges : d # c => ExchangeStands(d)'
    BY <1>2, <1>5, <1>6, OthersStand DEF Refreshes
  <1> QED
    BY <1>1, <1>5, <1>7, <1>8, ExchangeTypes, OneMoves DEF ExchangeKeeps

LEMMA ExchangeFailsStep ==
  ASSUME TokenInv, NEW c \in Exchanges, ExchangeFails(c) PROVE ExchangeKeeps
  <1>1. exchange' = [exchange EXCEPT ![c] = AtRest] /\ UNCHANGED token
    BY DEF ExchangeFails, Concludes
  <1>2. RowsRemain /\ RowsAreChained' /\ token' \in Seq(TokenRows)
    BY <1>1, RowsUnchanged DEF TokenInv, TokenTypeOK
  <1> QED
    BY <1>1, <1>2, ExchangeTypes, OneIsNew DEF ExchangeKeeps

LEMMA RevokeRowStep ==
  ASSUME TokenInv, NEW t \in DOMAIN token, RevokeRow(t) PROVE ExchangeKeeps
  <1>1. /\ token' = [token EXCEPT ![t].revoked = tokenClock] /\ UNCHANGED exchange
        /\ tokenClock \in Nat \ {0} /\ exchange \in [Exchanges -> ExchangeStates]
    BY DEF RevokeRow, TokenInv, TokenTypeOK
  <1>2. /\ token' \in Seq(TokenRows) /\ DOMAIN token' = DOMAIN token /\ RowsRemain
        /\ RowsAreChained'
    BY <1>1, RevokesRow
  <1>3. \A d \in Exchanges : ExchangeStands(d)'
    BY <1>1, <1>2, OthersStand
  <1>4. ASSUME NEW d \in Exchanges, NEW e \in Exchanges PROVE RotateApart(d, e)'
    <2>1. RotateApart(d, e) /\ ExchangeStands(d) /\ ExchangeStands(e)
      BY DEF TokenInv, ExchangesStand
    <2> QED
      BY <1>1, <1>2, <2>1 DEF RotateApart, Rotating, ExchangeStands, RowsRemain
  <1> QED
    BY <1>1, <1>2, <1>3, <1>4 DEF ExchangeKeeps, ExchangesStand

LEMMA NothingMoves == TokenInv /\ UNCHANGED <<token, exchange>> => ExchangeKeeps
  BY DEF TokenInv, TokenTypeOK, ExchangeKeeps, RowsAreChained, RowStands, Succeeds, Refreshes,
         ExchangesStand, ExchangeStands, RotateApart, Rotating

-----------------------------------------------------------------------------
LEMMA NextTokenInv == TokenInv /\ [TokenNext]_tokenVars => TokenInv'
  <1> SUFFICES ASSUME TokenInv, [TokenNext]_tokenVars PROVE TokenInv'
    OBVIOUS
  <1>0. TokenTypeOK
    BY DEF TokenInv
  <1>1. CASE UNCHANGED tokenVars
    <2>1. ExchangeKeeps
      BY <1>1, NothingMoves DEF tokenVars
    <2> QED
      BY <1>0, <1>1, <2>1 DEF tokenVars, ExchangeKeeps, TokenInv, TokenTypeOK, AdmissionStands
  <1>2. ASSUME NEW t \in DOMAIN token, Use(t) PROVE TokenInv'
    <2>1. /\ UNCHANGED <<tokenClock, token, exchange, exchanged>>
          /\ admitted' = [token |-> t, at |-> tokenClock]
      BY <1>2 DEF Use
    <2>2. ExchangeKeeps
      BY <2>1, NothingMoves
    <2>3. TokenTypeOK'
      BY <1>0, <2>1, RowTypes DEF TokenTypeOK
    <2>4. AdmissionStands'
      BY <1>0, <1>2, <2>1, RowTypes DEF AdmissionStands, Use, Accepts, LiveToken, TokenTypeOK
    <2> QED
      BY <2>2, <2>3, <2>4 DEF TokenInv, ExchangeKeeps
  <1>3. ASSUME admitted' = NoAdmission, ExchangeKeeps, tokenClock' \in Nat \ {0}, exchanged' \in Nat
        PROVE  TokenInv'
    <2>1. TokenTypeOK' /\ AdmissionStands'
      BY <1>3 DEF TokenTypeOK, AdmissionStands, NoAdmission, ExchangeKeeps, None
    <2> QED
      BY <1>3, <2>1 DEF TokenInv, ExchangeKeeps
  <1>4. CASE TokenTick /\ admitted' = NoAdmission
    BY <1>0, <1>3, <1>4, NothingMoves DEF TokenTick, TokenTypeOK
  <1>5. ASSUME NEW t \in DOMAIN token, RevokeRow(t), admitted' = NoAdmission PROVE TokenInv'
    BY <1>0, <1>3, <1>5, RevokeRowStep DEF RevokeRow, TokenTypeOK
  <1>6. ASSUME NEW c \in Exchanges, admitted' = NoAdmission,
               \/ Issue(c) \/ ConsumeRefresh(c) \/ CreateRefresh(c) \/ CreateAccess(c)
               \/ ExchangeFails(c)
               \/ \E t \in DOMAIN token : FindRefresh(c, t)
        PROVE  TokenInv'
    <2>1. ExchangeKeeps
      BY <1>6, IssueStep, ConsumeRefreshStep, CreateRefreshStep, CreateAccessStep,
         ExchangeFailsStep, FindRefreshStep
    <2>2. tokenClock' = tokenClock /\ (exchanged' = exchanged \/ exchanged' = exchanged + 1)
      BY <1>6 DEF Issue, ConsumeRefresh, CreateRefresh, CreateAccess, ExchangeFails, FindRefresh,
                  Arrives
    <2> QED
      BY <1>0, <1>3, <1>6, <2>1, <2>2 DEF TokenTypeOK
  <1> QED
    BY <1>1, <1>2, <1>4, <1>5, <1>6 DEF TokenNext

THEOREM TokensStand == TokenSpec => []TokenInv
  BY InitTokenInv, NextTokenInv, PTL DEF TokenSpec

\* "First successful rotation wins": whatever overlaps with a refresh, replays of its
\* token and revocations among it, a refresh token has one successor, a client one
\* refresh token that works, and an admitted access token a parent got by a rotation
\* that went through.
THEOREM ChainsStayOne == TokenSpec => []OneChainPerClient
  <1>1. ASSUME TokenInv PROVE OneChainPerClient
    <2>0. TokenTypeOK /\ RowsAreChained
      BY <1>1 DEF TokenInv
    <2>1. ASSUME NEW s \in DOMAIN token, NEW t \in DOMAIN token, s # t, Refreshes(s), Refreshes(t)
          PROVE  /\ token[s].client = token[t].client => token[s].parent # token[t].parent
                 /\ LiveToken(s, "refresh", tokenClock) /\ LiveToken(t, "refresh", tokenClock)
                      => token[s].client # token[t].client
      <3>1. s < t \/ t < s
        BY <2>0, <2>1, RowTypes
      <3>2. Succeeds(s, t) /\ Succeeds(t, s)
        BY <2>0 DEF RowsAreChained
      <3> QED
        BY <2>1, <3>1, <3>2 DEF Succeeds, LiveToken
    <2>2. ASSUME admitted.token # None
          PROVE  LET parent == token[admitted.token].parent IN
                 /\ parent # None /\ token[parent].kind = "refresh"
                 /\ token[parent].parent # None => token[token[parent].parent].revoked # None
                 /\ admitted.at < token[admitted.token].expires
      <3> DEFINE t == admitted.token
                 parent == token[t].parent
      <3>1. t \in DOMAIN token /\ token[t].kind = "access" /\ admitted.at < token[t].expires
        BY <1>1, <2>2 DEF TokenInv, AdmissionStands
      <3>2. parent # None /\ Refreshes(parent) /\ parent < t
        BY <2>0, <3>1 DEF RowsAreChained, RowStands, Refreshes
      <3>3. parent \in DOMAIN token
        BY <2>0, <3>1, <3>2, RowTypes DEF None, TokenTypeOK
      <3>4. token[parent].parent # None => token[token[parent].parent].revoked # None
        BY <2>0, <3>2, <3>3 DEF RowsAreChained, RowStands
      <3> QED
        BY <3>1, <3>2, <3>4 DEF Refreshes
    <2> QED
      BY <2>1, <2>2 DEF OneChainPerClient, Refreshes
  <1> QED
    BY <1>1, TokensStand, PTL
===============================================================================
