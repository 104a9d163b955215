---------------------------- MODULE AccountBook -----------------------------
(****************************************************************************)
(* A user's accounts, the transactions that move money on them, and the     *)
(* exchange rates their totals are computed with.                           *)
(*                                                                          *)
(* Balances are not stored: they are sums over rows, each row converted by  *)
(* the latest rate on or before its date.  A transfer is one row that names *)
(* both accounts; when these differ in currency it also carries the amount  *)
(* that arrives.  What a row says is checked by a use case against its own  *)
(* earlier reads, then written.  Amounts and rates are small whole numbers, *)
(* dates are days.                                                          *)
(****************************************************************************)
EXTENDS Integers, FiniteSets, FiniteSetsExt, Functions

CONSTANTS
  Accounts,     \* ids of account rows
  Currencies,   \* active currencies
  HomeCurrency, \* users.default_currency
  Rows,         \* ids of transaction rows
  Clients,      \* concurrent use-case invocations
  NoAccount,    \* NULL in an account column
  EntryAmounts, \* amounts of a row
  RateValues,   \* rates a provider may quote
  LastDay,      \* bound: days that pass
  MaxCalls      \* bound: invocations begun, runs of the rate job included

ASSUME BookAssumption ==
  /\ IsFiniteSet(Accounts) /\ IsFiniteSet(Rows) /\ NoAccount \notin Accounts
  /\ HomeCurrency \in Currencies /\ "keep" \notin Currencies
  /\ EntryAmounts # {} /\ EntryAmounts \subseteq Nat \ {0}
  /\ RateValues \subseteq Nat \ {0}
  /\ LastDay \in Nat \ {0} /\ MaxCalls \in Nat

VARIABLES
  account,  \* the accounts table
  entry,    \* the transactions table
  fx,       \* [Pairs -> [Days -> Nat]]: fx_rates, 0 where there is no row
  ingest,   \* the job that reads the day's rates
  today,    \* the day
  client,   \* [Clients -> the invocation]
  calls     \* invocations begun

bookVars == <<account, entry, fx, ingest, today, client, calls>>

Days  == 1..LastDay
Pairs == {p \in Currencies \X Currencies : p[1] # p[2]}
NoAmount == 0

AccountRows == [status : {"absent", "active", "archived"}, currency : Currencies,
                isDefault : BOOLEAN]

\* from and to are account_id of an expense and of an income, and the two
\* accounts of a transfer.  tangled and recurrencied are not columns: they
\* tell that an edit of the row was written over another one's, and that an
\* edit has changed the currency.
Entries == [state : {"absent", "live", "deleted"}, kind : {"EXPENSE", "INCOME", "TRANSFER"},
            amount : EntryAmounts, currency : Currencies, from : Accounts \cup {NoAccount},
            to : Accounts \cup {NoAccount}, destinationAmount : EntryAmounts \cup {NoAmount},
            day : Days, tangled : BOOLEAN, recurrencied : BOOLEAN]

\* The fields of an edit that matter to a transfer.
Edits == [amount : BOOLEAN, currency : Currencies \cup {"keep"},
          destination : {"keep", "set", "clear"}]

Idle == [pc |-> "idle", currency |-> HomeCurrency, account |-> NoAccount]

BookTypeOK ==
  /\ account \in [Accounts -> AccountRows]
  /\ entry \in [Rows -> Entries]
  /\ fx \in [Pairs -> [Days -> RateValues \cup {0}]]
  /\ ingest.todo \subseteq Currencies /\ ingest.asOf \in Days
  /\ today \in Days
  /\ \A c \in Clients :
       client[c].pc \in {"idle", "inserting", "rereading", "resolved", "failed", "editing"}
  /\ calls \in 0..MaxCalls

Blank == [state |-> "absent", kind |-> "EXPENSE", amount |-> CHOOSE a \in EntryAmounts : TRUE,
          currency |-> HomeCurrency, from |-> NoAccount, to |-> NoAccount,
          destinationAmount |-> NoAmount, day |-> 1, tangled |-> FALSE,
          recurrencied |-> FALSE]

\* Accounts the user has opened before: none of them a default.
BookInit ==
  /\ \E opened \in SUBSET Accounts, currency \in [Accounts -> Currencies] :
       /\ \A a \in Accounts \ opened : currency[a] = HomeCurrency
       /\ account = [a \in Accounts |->
            [status |-> IF a \in opened THEN "active" ELSE "absent",
             currency |-> currency[a], isDefault |-> FALSE]]
  /\ entry = [r \in Rows |-> Blank]
  /\ fx = [p \in Pairs |-> [d \in Days |-> 0]]
  /\ ingest = [todo |-> {}, asOf |-> 1]
  /\ today = 1
  /\ client = [c \in Clients |-> Idle]
  /\ calls = 0

Exists(a) == a \in Accounts /\ account[a].status # "absent"

CountCall == calls < MaxCalls /\ calls' = calls + 1

Begin(c) ==
  /\ client[c].pc \notin {"inserting", "rereading", "editing"}
  /\ CountCall

(***************************************************************************)
(* Accounts                                                                *)
(***************************************************************************)
CreateAccount(c, a, cur) ==
  /\ Begin(c)
  /\ ~ Exists(a)
  /\ account' = [account EXCEPT ![a] = [status |-> "active", currency |-> cur,
                                        isDefault |-> FALSE]]
  /\ UNCHANGED <<entry, fx, ingest, today, client>>

\* DeleteAccountUseCase: archive, WHERE status = 'active'.  An archived
\* account keeps its rows and its balance, and stays the default if it was.
ArchiveAccount(c, a) ==
  /\ Begin(c)
  /\ account[a].status = "active"
  /\ account' = [account EXCEPT ![a].status = "archived"]
  /\ UNCHANGED <<entry, fx, ingest, today, client>>

Defaults(cur) == {a \in Accounts : Exists(a) /\ account[a].isDefault /\ account[a].currency = cur}

\* findOrCreateDefaultForCurrency: read first.
FindDefault(c, cur) ==
  /\ Begin(c)
  /\ client' = [client EXCEPT ![c] =
       IF Defaults(cur) = {}
       THEN [pc |-> "inserting", currency |-> cur, account |-> NoAccount]
       ELSE [pc |-> "resolved", currency |-> cur, account |-> CHOOSE a \in Defaults(cur) : TRUE]]
  /\ UNCHANGED <<account, entry, fx, ingest, today>>

\* As it would be without the unique index.
MayInsertDefaultAlways(cur) == TRUE

\* uq_accounts_default_per_currency.
MayInsertDefault(cur) == Defaults(cur) = {}

\* The insert succeeds, or fails: on the index, or for any other reason.
InsertDefault(c, a, fails) ==
  LET cur == client[c].currency IN
  /\ client[c].pc = "inserting"
  /\ ~ Exists(a)
  /\ IF MayInsertDefault(cur) /\ ~ fails
     THEN /\ account' = [account EXCEPT ![a] = [status |-> "active", currency |-> cur,
                                                isDefault |-> TRUE]]
          /\ client' = [client EXCEPT ![c].pc = "resolved", ![c].account = a]
     ELSE /\ client' = [client EXCEPT ![c].pc = "rereading"]
          /\ UNCHANGED account
  /\ UNCHANGED <<entry, fx, ingest, today, calls>>

\* Whatever the failure was, a default that exists now is the answer.
RereadDefault(c) ==
  LET cur == client[c].currency IN
  /\ client[c].pc = "rereading"
  /\ client' = [client EXCEPT ![c] =
       IF Defaults(cur) = {} THEN [pc |-> "failed", currency |-> cur, account |-> NoAccount]
       ELSE [pc |-> "resolved", currency |-> cur, account |-> CHOOSE a \in Defaults(cur) : TRUE]]
  /\ UNCHANGED <<account, entry, fx, ingest, today, calls>>

(***************************************************************************)
(* Rates                                                                   *)
(***************************************************************************)
\* As it would be if the date of the transaction were not looked at.
RatedDaysAll(p, day) == {d \in Days : fx[p][d] # 0}

RatedDays(p, day) == {d \in Days : fx[p][d] # 0 /\ d <= day}

\* findRate: the latest rate on or before the day, 0 if there is none.
FindRate(base, quote, day) ==
  IF base = quote THEN 1
  ELSE IF RatedDays(<<base, quote>>, day) = {} THEN 0
  ELSE fx[<<base, quote>>][Max(RatedDays(<<base, quote>>, day))]

\* IngestFxRatesUseCase reads the clock once, then goes base by base.
IngestStart ==
  /\ CountCall
  /\ ingest.todo = {}
  /\ ingest' = [todo |-> Currencies, asOf |-> today]
  /\ UNCHANGED <<account, entry, fx, today, client>>

\* The quotes of one base are recorded (an upsert per day), or the provider
\* fails and the next base goes on.
IngestBase(base, quoted) ==
  /\ base \in ingest.todo
  /\ fx' = [p \in Pairs |-> IF p[1] = base /\ quoted # 0
                            THEN [fx[p] EXCEPT ![ingest.asOf] = quoted] ELSE fx[p]]
  /\ ingest' = [ingest EXCEPT !.todo = ingest.todo \ {base}]
  /\ UNCHANGED <<account, entry, today, client, calls>>

DayPasses ==
  /\ today < LastDay
  /\ today' = today + 1
  /\ UNCHANGED <<account, entry, fx, ingest, client, calls>>

(***************************************************************************)
(* Transactions that move money on accounts                                *)
(***************************************************************************)
\* CreateExpense and CreateIncome: on the account named or resolved, in any
\* currency for which the user's default has a rate at that date.
CreateEntry(c, r, kind, a, amount, cur, day) ==
  /\ Begin(c)
  /\ entry[r].state = "absent" /\ day <= today /\ Exists(a)
  /\ FindRate(cur, HomeCurrency, day) # 0
  /\ entry' = [entry EXCEPT ![r] =
       [Blank EXCEPT !.state = "live", !.kind = kind, !.amount = amount, !.currency = cur,
                     !.from = IF kind = "EXPENSE" THEN a ELSE NoAccount,
                     !.to = IF kind = "INCOME" THEN a ELSE NoAccount, !.day = day]]
  /\ UNCHANGED <<account, fx, ingest, today, client>>

\* destinationAmount, only of a transfer between currencies.
Arrives(from, to, typed) ==
  IF account[from].currency = account[to].currency THEN NoAmount ELSE typed

\* CreateTransferUseCase: in the currency of the source account.
CreateTransfer(c, r, from, to, amount, typed, day) ==
  /\ Begin(c)
  /\ entry[r].state = "absent" /\ day <= today
  /\ Exists(from) /\ Exists(to) /\ from # to
  /\ account[from].currency # account[to].currency => typed # NoAmount
  /\ FindRate(account[from].currency, HomeCurrency, day) # 0
  /\ entry' = [entry EXCEPT ![r] =
       [Blank EXCEPT !.state = "live", !.kind = "TRANSFER", !.amount = amount,
                     !.currency = account[from].currency, !.from = from, !.to = to,
                     !.destinationAmount = Arrives(from, to, typed), !.day = day]]
  /\ UNCHANGED <<account, fx, ingest, today, client>>

Edited(e, edit, amount) ==
  [e EXCEPT !.currency = IF edit.currency = "keep" THEN e.currency ELSE edit.currency,
            !.amount = IF edit.amount THEN amount ELSE e.amount,
            !.destinationAmount = CASE edit.destination = "keep" -> e.destinationAmount
                                    [] edit.destination = "set" -> amount
                                    [] edit.destination = "clear" -> NoAmount]

\* Transaction.edit and EditTransactionUseCase on a transfer: the amount that
\* arrives changes only together with the other side, is named anew whenever
\* that side changes between currencies, and is absent within one currency.
EditAllowed(e, edit, new) ==
  LET sourceSide == edit.amount \/ edit.currency # "keep"
      cross == new.currency # account[e.to].currency IN
  e.kind = "TRANSFER" =>
    /\ edit.destination # "keep" => sourceSide
    /\ sourceSide =>
         IF cross THEN edit.destination = "set" ELSE new.destinationAmount = NoAmount

\* No other kind may have a destination amount at all (Transaction.validate).
EditStart(c, r, edit, amount) ==
  /\ Begin(c)
  /\ entry[r].state = "live"
  /\ edit.amount \/ edit.currency # "keep" \/ edit.destination # "keep"
  /\ EditAllowed(entry[r], edit, Edited(entry[r], edit, amount))
  /\ entry[r].kind # "TRANSFER" => edit.destination = "keep"
  /\ client' = [client EXCEPT ![c] = [pc |-> "editing", row |-> r, edit |-> edit,
                                      amount |-> amount, seen |-> entry[r]]]
  /\ UNCHANGED <<account, entry, fx, ingest, today>>

\* TransactionRepository.update: the changed columns of whatever the row is.
EditWrite(c) ==
  LET r == client[c].row
      new == Edited(entry[r], client[c].edit, client[c].amount) IN
  /\ client[c].pc = "editing"
  /\ entry' = [entry EXCEPT ![r] =
       [new EXCEPT !.tangled = entry[r].tangled \/ entry[r] # client[c].seen,
                   !.recurrencied = entry[r].recurrencied
                                      \/ client[c].edit.currency \notin {"keep", entry[r].currency}]]
  /\ client' = [client EXCEPT ![c] = Idle]
  /\ UNCHANGED <<account, fx, ingest, today, calls>>

DeleteEntry(c, r) ==
  /\ Begin(c)
  /\ entry[r].state = "live"
  /\ entry' = [entry EXCEPT ![r].state = "deleted"]
  /\ UNCHANGED <<account, fx, ingest, today, client>>

BookNext ==
  \/ \E c \in Clients, a \in Accounts, cur \in Currencies : CreateAccount(c, a, cur)
  \/ \E c \in Clients, a \in Accounts : ArchiveAccount(c, a)
  \/ \E c \in Clients, cur \in Currencies : FindDefault(c, cur)
  \/ \E c \in Clients, a \in Accounts, fails \in BOOLEAN : InsertDefault(c, a, fails)
  \/ \E c \in Clients : RereadDefault(c) \/ EditWrite(c)
  \/ \E c \in Clients, r \in Rows, a \in Accounts, kind \in {"EXPENSE", "INCOME"},
        amount \in EntryAmounts, cur \in Currencies, day \in Days :
       CreateEntry(c, r, kind, a, amount, cur, day)
  \/ \E c \in Clients, r \in Rows, from, to \in Accounts, amount \in EntryAmounts,
        typed \in EntryAmounts \cup {NoAmount}, day \in Days :
       CreateTransfer(c, r, from, to, amount, typed, day)
  \/ \E c \in Clients, r \in Rows, edit \in Edits, amount \in EntryAmounts :
       EditStart(c, r, edit, amount)
  \/ \E c \in Clients, r \in Rows : DeleteEntry(c, r)
  \/ IngestStart
  \/ \E base \in Currencies, quoted \in RateValues \cup {0} : IngestBase(base, quoted)
  \/ DayPasses

BookSpec == BookInit /\ [][BookNext]_bookVars

(***************************************************************************)
(* Totals: computeAccountBalance and computeNetWorth.  A total is a pair:  *)
(* whether it is available, and its value.                                 *)
(***************************************************************************)
\* What row r does to account a, without a rate for a row in another currency
\* it is <<FALSE, 0>>.  Transfers are never converted.
Movement(a, r) ==
  LET e == entry[r]
      rate == FindRate(e.currency, account[a].currency, e.day) IN
  CASE e.kind = "TRANSFER" ->
         <<TRUE, IF e.to = a THEN (IF e.destinationAmount = NoAmount THEN e.amount
                                   ELSE e.destinationAmount)
                 ELSE - e.amount>>
    [] e.kind # "TRANSFER" ->
         <<rate # 0, IF e.kind = "INCOME" THEN e.amount * rate ELSE - e.amount * rate>>

Attributed(a, day) ==
  {r \in Rows : entry[r].state = "live" /\ entry[r].day <= day /\ a \in {entry[r].from, entry[r].to}}

Balance(a, day) ==
  IF \E r \in Attributed(a, day) : ~ Movement(a, r)[1] THEN <<FALSE, 0>>
  ELSE <<TRUE, SumFunction([r \in Attributed(a, day) |-> Movement(a, r)[2]])>>

\* Archived accounts count too.
NetWorth(day) ==
  LET own == {a \in Accounts : Exists(a)}
      Rate(a) == FindRate(account[a].currency, HomeCurrency, day) IN
  IF \E a \in own : ~ Balance(a, day)[1] \/ Rate(a) = 0 THEN <<FALSE, 0>>
  ELSE <<TRUE, SumFunction([a \in own |-> Balance(a, day)[2] * Rate(a)])>>

\* computeNetCashFlow: what rows of the days from..to earn and spend, each
\* converted at its own date, whatever account it is on.
FlowRows(kinds, from, to) ==
  {r \in Rows : entry[r].state = "live" /\ entry[r].kind \in kinds /\ entry[r].day \in from..to}
Converted(r) == FindRate(entry[r].currency, HomeCurrency, entry[r].day)

NetCashFlow(from, to) ==
  LET rows == FlowRows({"EXPENSE", "INCOME"}, from, to) IN
  IF \E r \in rows : Converted(r) = 0 THEN <<FALSE, 0>>
  ELSE <<TRUE, SumFunction(
         [r \in rows |-> (IF entry[r].kind = "INCOME" THEN 1 ELSE -1) * entry[r].amount * Converted(r)])>>

\* A transfer leaves in the currency of its row and arrives in that of the
\* destination account.
TransferTerm(from, to) ==
  LET rows == FlowRows({"TRANSFER"}, from, to)
      RateOfArrival(r) == FindRate(account[entry[r].to].currency, HomeCurrency, entry[r].day)
      Arrived(r) == IF entry[r].destinationAmount = NoAmount THEN entry[r].amount
                    ELSE entry[r].destinationAmount IN
  IF \E r \in rows : Converted(r) = 0 \/ RateOfArrival(r) = 0 THEN <<FALSE, 0>>
  ELSE <<TRUE, SumFunction(
         [r \in rows |-> Arrived(r) * RateOfArrival(r) - entry[r].amount * Converted(r)])>>

\* computeFullCashFlow, but for debts and repayments, which are in DebtLedger.
FullCashFlow(from, to) ==
  IF NetCashFlow(from, to)[1] /\ TransferTerm(from, to)[1]
  THEN <<TRUE, NetCashFlow(from, to)[2] + TransferTerm(from, to)[2]>>
  ELSE <<FALSE, 0>>

\* getCashFlow: the range ends before its end, the two sums on their last day.
CashFlow(range) == FullCashFlow(range.start, range.end - 1)

(***************************************************************************)
(* Properties                                                              *)
(***************************************************************************)
\* Commits that race to make a currency's first account end with one default
\* account for it, and every one of them is given that account, although the
\* insert's failure is not looked into.
OneDefaultPerCurrency ==
  /\ \A cur \in Currencies : Cardinality(Defaults(cur)) <= 1
  /\ \A c \in Clients :
       client[c].pc = "resolved" => client[c].account \in Defaults(client[c].currency)

\* What both ends of a transfer count is unambiguous: the row carries the
\* amount that arrives exactly when its currency is not the destination's,
\* unless two edits of it overlapped, each checked against its own read; and
\* its amount is in the currency of the source account, which the balance
\* formula relies on, unless an edit has changed the currency, which it may.
TransfersStayWhole ==
  \A r \in Rows :
    entry[r].state # "absent" /\ entry[r].kind = "TRANSFER" =>
      /\ \/ entry[r].destinationAmount = NoAmount
              <=> entry[r].currency = account[entry[r].to].currency
         \/ entry[r].tangled
      /\ entry[r].currency = account[entry[r].from].currency \/ entry[r].recurrencied

InOwnCurrency(r) ==
  entry[r].currency = account[IF entry[r].from = NoAccount THEN entry[r].to
                              ELSE entry[r].from].currency

\* The balances of accounts and the cash flow are computed by queries of their
\* own, one account by account, the other row by row, and meet: while a
\* currency keeps its rate and rows are in the currency of their account, what
\* a user has is what ever flowed in less what flowed out, whatever was moved
\* between accounts or archived, and however transfers were edited meanwhile.
WorthIsWhatFlowedIn ==
  \A day \in 1..today :
    LET flow == CashFlow([start |-> 1, end |-> day + 1]) IN
    /\ NetWorth(day)[1] /\ flow[1]
    /\ \A p \in Pairs : Cardinality({fx[p][d] : d \in Days} \ {0}) <= 1
    /\ \A r \in Rows : entry[r].state = "live" => InOwnCurrency(r)
    => NetWorth(day)[2] = flow[2]

\* A currency has one default account, the amounts of a transfer change together,
\* and net worth is what flowed in.
AccountsHoldTogether == OneDefaultPerCurrency /\ TransfersStayWhole /\ WorthIsWhatFlowedIn

\* A balance or net worth as of a day that is over changes only with the
\* accounts and rows themselves, never because rates of later days come in,
\* unless a job begun on that day is still recording its rates.
PastBalancesAreStable ==
  [][\A day \in Days :
       /\ day < today
       /\ entry' = entry /\ account' = account
       /\ ~ (ingest.todo # {} /\ ingest.asOf <= day)
       => /\ NetWorth(day)' = NetWorth(day)
          /\ \A a \in Accounts : Balance(a, day)' = Balance(a, day)]_bookVars
=============================================================================
