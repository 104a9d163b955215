CONSTANTS
  Updates = {u1, u2, u3}
  DraftIds = {d1, d2, d3}
  MaxRetries = 1
  MaxCasRetries = 2
  Handlers = {h1, h2}
  Bounds = {1, 2}
  MaxDialogs = 2
  MaxVersion = 8
  MaxSearch = 4
  Unset = Unset
  Ids = {c1, c2}
  Names = {n1, n2}
  SystemNames = {n2}
  ReplyLanguages = {"uz", "ru"}
  Rows = {r1}
  UserRows = {r1}
  Taps = {h1, h2}
  Parent = Parent
  NoName = NoName
  MaxCalls = 7
  Merchants = {m1}
  Customs = {k1}
  MaxPage = 1
  MaxMessages = 2
  MaxDoubts = 2
SPECIFICATION BotSpec
INVARIANT ButtonsFitTelegram
SYMMETRY Symmetry
CHECK_DEADLOCK FALSE
