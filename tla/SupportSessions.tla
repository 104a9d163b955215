--------------------------- MODULE SupportSessions ---------------------------
(****************************************************************************)
(* What an admin may see and do, and who said so: an admin made super_admin *)
(* on another's word, a support session opened about a user, and the        *)
(* elevation of such a session, asked for by its agent and approved by a    *)
(* super_admin.  Every approval and every guard reads first and acts later, *)
(* while sessions end, expire and are swept by the worker.                  *)
(****************************************************************************)
EXTENDS Integers, Sequences, FiniteSetsExt

CONSTANTS
  Admins, Nobody,
  Role,                         \* [Admins -> {"support_agent", "admin", "super_admin"}] at first
  Visits,                       \* HTTP requests that may be under way at once
  SessionTtl,                   \* SUPPORT_SESSION_LIFETIME_MS, in ticks of the clock
  RequestTtl,                   \* ADMIN_ and SUPPORT_SESSION_ELEVATION_REQUEST_TTL_MS, in ticks
  MaxSupportTime,               \* bound: the clock stops here
  MaxSessions, MaxElevations,   \* bounds: support sessions and elevation requests in all
  MaxVisits                     \* bound: HTTP requests in all

ASSUME SupportAssumption ==
  /\ Role \in [Admins -> {"support_agent", "admin", "super_admin"}]
  /\ SessionTtl \in Nat /\ RequestTtl \in Nat

VARIABLES
  supportClock, role,
  opened,               \* rows of support_sessions, by number
  asked,                \* rows of the two tables of elevation requests, by number
  audit,                \* rows of audit_log, in order
  visit,                \* [Visits -> the request's progress]
  visits,
  late                  \* calls whose session ended between two of their reads

supportVars == <<supportClock, role, opened, asked, audit, visit, visits, late>>

Unresolved == 0
Absent == [step |-> "idle", by |-> Nobody, role |-> "none", now |-> 1, of |-> 0, session |-> 0]

SupportInit ==
  /\ supportClock = 1 /\ role = Role
  /\ opened = <<>> /\ asked = <<>> /\ audit = <<>>
  /\ visit = [c \in Visits |-> Absent]
  /\ visits = 0 /\ late = {}

Leaves(c) == visit' = [visit EXCEPT ![c] = Absent] /\ late' = late \ {c}
\* AdminSessionGuard reads the caller's row: the role a handler sees is that one.
Enters(c, a, step, of, s) ==
  /\ visit[c].step = "idle" /\ visits < MaxVisits
  /\ visits' = visits + 1
  /\ visit' = [visit EXCEPT ![c] = [step |-> step, by |-> a, role |-> role[a], now |-> supportClock,
                                  of |-> of, session |-> s]]

Active(s, now) == ~opened[s].closed /\ ~opened[s].expired /\ opened[s].expires > now
Pending(r, now) == asked[r].resolved = Unresolved /\ ~asked[r].closed /\ asked[r].expires > now

\* The use case's ValidateSupportSession: live, and the caller's own.
Own(s, a) == Active(s, supportClock) /\ opened[s].agent = a

(***************************************************************************)
(* Sessions                                                                *)
(***************************************************************************)
\* create: the row and its audit entry in one transaction.
Open(a) ==
  /\ Len(opened) < MaxSessions
  /\ opened' = Append(opened, [agent |-> a, expires |-> supportClock + SessionTtl,
                                 closed |-> FALSE, expired |-> FALSE])
  /\ audit' = Append(audit, [action |-> "opened", by |-> a, of |-> Len(opened) + 1])
  /\ UNCHANGED <<supportClock, role, asked, visit, visits, late>>

\* The calls that have seen the session alive and have yet to act.
Overtakes(ss) == late' = late \cup {c \in Visits : visit[c].step # "idle" /\ visit[c].session \in ss}

\* close: only a row that is neither closed nor expired.
Close(a, s) ==
  /\ Own(s, a)
  /\ opened' = [opened EXCEPT ![s].closed = TRUE]
  /\ Overtakes({s})
  /\ UNCHANGED <<supportClock, role, asked, audit, visit, visits>>

\* The worker's sweep, expireDueSessions.
Due == {s \in DOMAIN opened :
          opened[s].expires < supportClock /\ ~opened[s].closed /\ ~opened[s].expired}
Sweep ==
  /\ Due # {}
  /\ opened' = [s \in DOMAIN opened |->
                   IF s \in Due THEN [opened[s] EXCEPT !.expired = TRUE] ELSE opened[s]]
  /\ UNCHANGED <<supportClock, role, asked, audit, visit, visits, late>>

(***************************************************************************)
(* Asking                                                                  *)
(***************************************************************************)
\* As it would be with the lifetime of a request alone.
RequestExpiryUncapped(s) == supportClock + RequestTtl

RequestExpiry(s) == Min({supportClock + RequestTtl, opened[s].expires})

Ask(of, target, expires) ==
  /\ Len(asked) < MaxElevations
  /\ asked' = Append(asked, [of |-> of, target |-> target, expires |-> expires,
                                 resolved |-> Unresolved, by |-> Nobody, closed |-> FALSE])
  /\ UNCHANGED <<supportClock, role, opened, audit, visit, visits, late>>

AskForSession(a, s) == Own(s, a) /\ Ask(s, a, RequestExpiry(s))

\* RequestAdminElevation: only an admin, and only for herself.
AskForRole(a) == role[a] = "admin" /\ Ask(0, a, supportClock + RequestTtl)

(***************************************************************************)
(* Approving: read the request, read its session, then one transaction     *)
(***************************************************************************)
ReadRequest(c, a, r) ==
  /\ role[a] = "super_admin"
  /\ Pending(r, supportClock)
  /\ Enters(c, a, "approving", r, asked[r].of)
  /\ late' = late \ {c}
  /\ UNCHANGED <<supportClock, role, opened, asked, audit>>

MayApprove(c) == asked[visit[c].of].target # visit[c].by

ReadSession(c) ==
  LET s == visit[c].session IN
  /\ visit[c].step = "approving"
  /\ IF (s = 0 \/ Active(s, visit[c].now)) /\ MayApprove(c)
     THEN visit' = [visit EXCEPT ![c].step = "granting"] /\ UNCHANGED late
     ELSE Leaves(c)
  /\ UNCHANGED <<supportClock, role, opened, asked, audit, visits>>

\* As it would be with the earlier read taken for the answer.
ConsumesAnyway(r, now) == TRUE

Consumes(r, now) == Pending(r, now)

\* grant: consume the request, write its effect and the audit entry, or none of them.
Grant(c) ==
  LET r == visit[c].of IN
  /\ visit[c].step = "granting"
  /\ IF Consumes(r, visit[c].now)
     THEN /\ asked' = [asked EXCEPT ![r].resolved = visit[c].now, ![r].by = visit[c].by]
          /\ role' = IF asked[r].of = 0
                     THEN [role EXCEPT ![asked[r].target] = "super_admin"] ELSE role
          /\ audit' = Append(audit, [action |-> "elevated", by |-> visit[c].by, of |-> r])
     ELSE UNCHANGED <<asked, role, audit>>
  /\ Leaves(c)
  /\ UNCHANGED <<supportClock, opened, visits>>

\* A failed statement rolls all of it back; a crash leaves what was committed.
VisitFails(c) ==
  /\ visit[c].step # "idle"
  /\ Leaves(c)
  /\ UNCHANGED <<supportClock, role, opened, asked, audit, visits>>

(***************************************************************************)
(* The guards of a raw-detail route, one after the other                   *)
(***************************************************************************)
Elevated(s, now) ==
  {r \in DOMAIN asked : /\ asked[r].of = s /\ asked[r].resolved # Unresolved
                          /\ ~asked[r].closed /\ asked[r].expires > now}

EnterSession(c, a, s) ==
  /\ Own(s, a)
  /\ Enters(c, a, "entered", 0, s)
  /\ late' = late \ {c}
  /\ UNCHANGED <<supportClock, role, opened, asked, audit>>

\* RequireElevatedSupportSessionGuard, and the handler behind it.
RawDetail(c) ==
  /\ visit[c].step = "entered"
  /\ Elevated(visit[c].session, supportClock) # {}
  /\ visit' = [visit EXCEPT ![c].step = "reading"]
  /\ UNCHANGED <<supportClock, role, opened, asked, audit, visits, late>>

\* Closing the elevation: the latest grant, if it is the one that is named.
CloseElevation(a, s, r) ==
  /\ s # 0 /\ Own(s, a)
  /\ r \in Elevated(s, supportClock)
  /\ \A o \in Elevated(s, supportClock) : asked[o].resolved <= asked[r].resolved
  /\ asked' = [asked EXCEPT ![r].closed = TRUE]
  /\ UNCHANGED <<supportClock, role, opened, audit, visit, visits, late>>

SupportTick ==
  /\ supportClock < MaxSupportTime
  /\ supportClock' = supportClock + 1
  /\ UNCHANGED <<role, opened, asked, audit, visit, visits, late>>

SupportNext ==
  \/ SupportTick \/ Sweep
  \/ \E a \in Admins :
       \/ Open(a) \/ AskForRole(a)
       \/ \E s \in DOMAIN opened :
            \/ Close(a, s) \/ AskForSession(a, s)
            \/ \E r \in DOMAIN asked : CloseElevation(a, s, r)
            \/ \E c \in Visits : EnterSession(c, a, s)
       \/ \E c \in Visits, r \in DOMAIN asked : ReadRequest(c, a, r)
  \/ \E c \in Visits : ReadSession(c) \/ Grant(c) \/ RawDetail(c) \/ VisitFails(c)

SupportSpec == SupportInit /\ [][SupportNext]_supportVars

(***************************************************************************)
(* Properties                                                              *)
(***************************************************************************)
GrantsOf(r) == {i \in DOMAIN audit : audit[i].action = "elevated" /\ audit[i].of = r}

\* Nobody holds a power that another super_admin did not give, once and on the
\* record: every elevation has one audit entry, by a super_admin who is not the one
\* elevated, and no elevation of a session lasts longer than the session may.
PowersAreGranted ==
  /\ \A r \in DOMAIN asked :
       /\ Cardinality(GrantsOf(r)) = IF asked[r].resolved # Unresolved THEN 1 ELSE 0
       /\ asked[r].resolved # Unresolved => /\ role[asked[r].by] = "super_admin"
                                          /\ asked[r].by # asked[r].target
       /\ asked[r].of # 0 => asked[r].expires <= opened[asked[r].of].expires
  /\ \A a \in Admins : role[a] # Role[a] =>
       \E r \in DOMAIN asked : asked[r].of = 0 /\ asked[r].target = a /\ asked[r].resolved # Unresolved

\* Whoever has just been let through to the raw records of a user is the agent of a
\* session that was opened on the record, that is still open unless it ended between
\* the two guards, and that is elevated on another admin's word.
RawDetailIsElevated ==
  [][\A c \in Visits : visit[c].step = "entered" /\ visit'[c].step = "reading" =>
       LET s == visit[c].session IN
       /\ opened[s].agent = visit[c].by
       /\ \E i \in DOMAIN audit : audit[i] = [action |-> "opened", by |-> visit[c].by, of |-> s]
       /\ opened[s].closed => c \in late
       /\ supportClock < opened[s].expires
       /\ \E r \in Elevated(s, supportClock) : asked[r].by # visit[c].by]_supportVars
=============================================================================
