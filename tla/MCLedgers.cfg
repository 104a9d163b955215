CONSTANTS
  Debts = {d1, d2}
  Callers = {c1, c2}
  Keys = {k1, k2}
  MaxAmount = 2
  Loans = {l1}
  Payers = {c1, c2}
  Nobody = Nobody
  Principals = {6}
  Payments = {1, 2, 4}
  Rates = {0, 1}
  RateDen = 4
  MaxPayments = 3
  Accounts = {a1, a2}
  Currencies = {usd, eur}
  HomeCurrency = usd
  Rows = {r1}
  Clients = {c1, c2}
  NoAccount = NoAccount
  EntryAmounts = {1, 2}
  RateValues = {2, 3}
  LastDay = 2
  MaxCalls = 3
  FirstYear = 2018
  WalkFrom = 731
  WalkTo = 1220
  LoanStarts = {755, 760, 820}
  LineIds = {1, 2}
  LineKinds = {"EXPENSE", "REFUND", "TRANSFER"}
  Categories = {k3, k4}
  Merchants = {m1}
  NoMerchant = NoMerchant
  Sums = {10, 11}
  LineDays = {1067, 1089, 1094, 1096, 1097}
  AsOf = {1097}
  Spans = {2, 30, 40}
  TopLimit = 1
  PageSize = 1
  MaxExport = 1
  Nothing = Nothing
SPECIFICATION LedgersSpec
INVARIANTS
  BooksAgree
  CappedRepaymentSettles
  LoanIsReplayOfItsPayments
  AccountsHoldTogether
  PeriodsAndFiguresAgree
PROPERTIES
  ImplementsAccount
  PastBalancesAreStable
SYMMETRY Symmetry
CHECK_DEADLOCK FALSE
