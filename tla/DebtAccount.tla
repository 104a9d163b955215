---------------------------- MODULE DebtAccount ----------------------------
(***************************************************************************)
(* What the debt tables promise their users, with no callers, reads or     *)
(* retries: a debt is opened once, is paid down by repayments that never   *)
(* exceed what is owed, and is settled once, by the last repayment or by   *)
(* being written off; the settlement is announced in the same step.        *)
(***************************************************************************)
EXTENDS Naturals

CONSTANT Debts

VARIABLES
  state,    \* [Debts -> {"absent", "owing", "settled"}]
  owed,     \* [Debts -> Nat]
  notices   \* [Debts -> Nat], settlements announced

accountVars == <<state, owed, notices>>

Init ==
  /\ state = [d \in Debts |-> "absent"]
  /\ owed = [d \in Debts |-> 0]
  /\ notices = [d \in Debts |-> 0]

Open(d) ==
  /\ state[d] = "absent"
  /\ owed'[d] \in Nat \ {0}
  /\ owed' = [owed EXCEPT ![d] = owed'[d]]
  /\ state' = [state EXCEPT ![d] = "owing"]
  /\ UNCHANGED notices

\* A repayment that leaves something owing.
PayDown(d) ==
  /\ state[d] = "owing"
  /\ owed'[d] \in 1..(owed[d] - 1)
  /\ owed' = [owed EXCEPT ![d] = owed'[d]]
  /\ UNCHANGED <<state, notices>>

\* The repayment that clears the debt.
PayOff(d) ==
  /\ state[d] = "owing"
  /\ state' = [state EXCEPT ![d] = "settled"]
  /\ owed' = [owed EXCEPT ![d] = 0]
  /\ notices' = [notices EXCEPT ![d] = notices[d] + 1]

\* Forgiving: what is still owed is kept on record.
WriteOff(d) ==
  /\ state[d] = "owing"
  /\ state' = [state EXCEPT ![d] = "settled"]
  /\ notices' = [notices EXCEPT ![d] = notices[d] + 1]
  /\ UNCHANGED owed

Next == \E d \in Debts : Open(d) \/ PayDown(d) \/ PayOff(d) \/ WriteOff(d)

Spec == Init /\ [][Next]_accountVars
=============================================================================
