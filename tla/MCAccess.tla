------------------------------ MODULE MCAccess -------------------------------
(* Who may do what, and for how long: a behaviour exercises users and their *)
(* purge, the login of an admin, support sessions with their elevations, or *)
(* the tokens of API clients; the rest stays as it is.                      *)
EXTENDS AccountLifecycle, AdminAccess, SupportSessions, ApiTokens, TLC

CONSTANTS agent, junior, super

VARIABLE part

OneThenTwo == <<1, 2>>

AtFirst == agent :> "admin" @@ junior :> "support_agent" @@ super :> "super_admin"

Parts == {"lifecycle", "login", "support", "tokens"}

AccessInit ==
  /\ part \in Parts
  /\ Init /\ LoginInit /\ SupportInit /\ TokenInit

AccessNext ==
  /\ UNCHANGED part
  /\ \/ part = "lifecycle" /\ Next /\ UNCHANGED <<loginVars, supportVars, tokenVars>>
     \/ part = "login" /\ LoginNext /\ UNCHANGED <<vars, supportVars, tokenVars>>
     \/ part = "support" /\ SupportNext /\ UNCHANGED <<vars, loginVars, tokenVars>>
     \/ part = "tokens" /\ TokenNext /\ UNCHANGED <<vars, loginVars, supportVars>>

allVars == <<part, vars, loginVars, supportVars, tokenVars>>

PartScan(s) ==
  /\ part = "lifecycle" /\ ScanStep(s)
  /\ UNCHANGED <<part, loginVars, supportVars, tokenVars>>

\* BullMQ repeats the purge job and runs it; nothing else need ever happen.
AccessSpec == /\ AccessInit /\ [][AccessNext]_allVars
              /\ \A s \in Scans : WF_allVars(PartScan(s))
=============================================================================
