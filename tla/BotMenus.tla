------------------------------- MODULE BotMenus -------------------------------
(****************************************************************************)
(* The inline keyboards of the bot and the handlers of their callback data: *)
(* which buttons a message carries and what a tap on one of them sends      *)
(* back.  Old messages keep their buttons, so a tap may come long after     *)
(* what the keyboard was made from has changed.                             *)
(*                                                                          *)
(* A button is its callback data, split after the prefix it is dispatched   *)
(* by and at the colon; labels, languages and the wording of the replies    *)
(* are left out.                                                            *)
(****************************************************************************)
EXTENDS Naturals, Sequences, FiniteSets

CONSTANTS
  Merchants,     \* merchants the user has spent at
  Customs,       \* ids of the user's own categories
  Rows,          \* ids of transactions a search can find
  MaxPage,       \* pages of a search
  MaxMessages    \* keyboards still in reach in the chat

ASSUME MenusAssumption == MaxMessages \in Nat

VARIABLES
  chat,       \* the keyboards delivered, newest last
  built,      \* the keyboard the last step built, whether or not Telegram took it
  tapped,     \* history: the button tapped in it, if that was not understood
  answer,     \* what its handler said
  recent,     \* merchants with an expense in the lookback window
  custom,     \* the user's active custom categories
  session,    \* whether a search session is stored
  suspended   \* whether the user is pending_deletion

menuVars == <<chat, built, tapped, answer, recent, custom, session, suspended>>

\* settings_lang_set:uz is Button("settings_", "lang_set", "uz").
Button(namespace, verb, arg) == <<namespace, verb, arg>>
Namespace(b) == b[1]
Verb(b) == b[2]
Arg(b) == b[3]
NoButton == Button("", "", "")
Plain(namespace, verbs) == {Button(namespace, v, "") : v \in verbs}
OneEach(namespace, verb, args) == {Button(namespace, verb, a) : a \in args}

(***************************************************************************)
(* The keyboards                                                           *)
(***************************************************************************)
Languages == {"uz", "ru", "en"}
Currencies == {"UZS", "USD"}                      \* listActiveCodes
Timezones == {"Asia/Tashkent", "UTC"}             \* two of SETTINGS_TIMEZONE_PRESETS
Parents == {"TRANSPORT", "ENTERTAINMENT"}         \* listActiveSystemCategories

SettingsMenu ==
  Plain("settings_", {"lang", "currency", "timezone", "notif", "confidence", "categories", "export",
                      "deleteaccount", "cancel"})
SettingsBack == Plain("settings_", {"back"})
LanguagePicker == OneEach("settings_", "lang_set", Languages) \cup SettingsBack
CurrencyPicker == OneEach("settings_", "currency_set", Currencies) \cup SettingsBack
TimezonePicker == OneEach("settings_", "timezone_set", Timezones) \cup SettingsBack
NotificationKinds == {"debt_reminder", "budget_alert"}
Notifications == OneEach("settings_", "notif_toggle", NotificationKinds) \cup SettingsBack
Confidence == Plain("settings_", {"confidence_toggle"}) \cup SettingsBack
CategoryList ==
  OneEach("settings_", "categories_delete", custom)
    \cup Plain("settings_", {"categories_add"}) \cup SettingsBack
ParentPicker ==
  OneEach("settings_", "categories_parent", Parents) \cup Plain("settings_", {"categories_cancel"})
DeleteConfirm(c) ==
  OneEach("settings_", "categories_delete_confirm", {c})
    \cup Plain("settings_", {"categories_delete_cancel"})

ImmediateTypes == {"daily", "weekly", "monthly", "quarterly", "yearly", "debt_summary"}
RangeTypes == {"cash_flow", "custom_range", "trend_analysis"}
PickerTypes == {"category", "merchant"}
ReportTypes == ImmediateTypes \cup RangeTypes \cup PickerTypes
PresetDays == {7, 30, 90}

ReportMenu == OneEach("report_", "type", ReportTypes) \cup Plain("report_", {"cancel"})
ReportBack == Plain("report_", {"back"})
RangePresets(type) == OneEach("report_", "range", {<<type, d>> : d \in PresetDays}) \cup ReportBack
ReportCategoryPicker == OneEach("report_", "cat", custom) \cup ReportBack
MerchantPicker == OneEach("report_", "mer", recent) \cup ReportBack

ExportRanges == {"this_month", "last_month", "last_90_days", "all_time"}
ExportMenu == OneEach("export_", "range", ExportRanges) \cup Plain("export_", {"cancel"})

FilterFields == {"category", "merchant", "transactionType", "dateFrom", "dateTo", "minAmount",
                 "maxAmount", "tags"}
FilterMenu ==
  OneEach("search_", "field", FilterFields) \cup Plain("search_", {"apply", "reset", "cancel"})
SearchTypes == {"EXPENSE", "INCOME", "SALARY", "REFUND", "TRANSFER", "GOAL_CONTRIBUTION"}
TypePicker == OneEach("search_", "type", SearchTypes) \cup Plain("search_", {"menu"})
ResultPage(found, page, more) ==
  OneEach("search_", "delete", found) \cup Plain("search_", {"menu"})
    \cup OneEach("search_", "page", (IF page > 0 THEN {page - 1} ELSE {})
                                   \cup (IF more THEN {page + 1} ELSE {}))

DeletionConfirm == Plain("delacct_", {"confirm", "cancel"})
CancelPending == Plain("delacct_", {"cancel_pending"})

(***************************************************************************)
(* The handlers: what a tap may be answered with.  "said" is a message     *)
(* without buttons; a call that throws inside its own try is "failed".     *)
(***************************************************************************)
Show(keyboard) == [said |-> "shown", keyboard |-> keyboard]
NotUnderstood == {"malformed", "nothing"}
Say(what) == [said |-> what, keyboard |-> {}]
Failing(outcomes) == outcomes \cup {Say("failed")}

\* replyWithReport: text is null when the report is empty.
WithReport == {Say("empty"), Show(ReportBack)}

ImmediateReport == Failing(WithReport)
RangeReport(type, days) ==
  IF type \in RangeTypes /\ days > 0 THEN Failing(WithReport) ELSE {Say("malformed")}
CategoryReport == Failing(WithReport)
\* The merchant is found again among those of the window as it is now.
MerchantReport(m) == Failing(IF m \in recent THEN WithReport ELSE {Say("malformed")})

ChooseReportCategory == Failing({IF custom = {} THEN Say("empty") ELSE Show(ReportCategoryPicker)})
ChooseMerchant == Failing({IF recent = {} THEN Say("empty") ELSE Show(MerchantPicker)})

ReportTypeSelectedRange(type) ==
  IF type \in ImmediateTypes THEN ImmediateReport ELSE {Show(RangePresets(type))}

ReportTypeSelected(type) ==
  CASE type \in RangeTypes -> {Show(RangePresets(type))}
    [] type = "category" -> ChooseReportCategory
    [] type = "merchant" -> ChooseMerchant
    [] OTHER -> ImmediateReport

HandleReport(b) ==
  CASE Verb(b) = "cancel" -> {Say("cancelled")}
    [] Verb(b) = "back" -> {Show(ReportMenu)}
    [] Verb(b) = "type" /\ Arg(b) \in ReportTypes -> ReportTypeSelected(Arg(b))
    [] Verb(b) = "range" -> RangeReport(Arg(b)[1], Arg(b)[2])
    [] Verb(b) = "cat" -> CategoryReport
    [] Verb(b) = "mer" -> MerchantReport(Arg(b))
    [] OTHER -> {Say("malformed")}

\* No rows, over MAX_SYNCHRONOUS_EXPORT_ROWS, or a file.
ExportOutcomes == {"empty", "too_large", "generated"}
GenerateExport == Failing({Say(kind) : kind \in ExportOutcomes})

HandleExport(b) ==
  CASE Verb(b) = "cancel" -> {Say("cancelled")}
    [] Verb(b) = "range" /\ Arg(b) \in ExportRanges -> GenerateExport
    [] OTHER -> {Say("malformed")}

ShowCategories == Failing({Show(CategoryList)})
SelectParent == Failing({Say("created"), Say("duplicate"), Say("invalid")})
DeletePreview(c) == Failing({IF c \in custom THEN Show(DeleteConfirm(c)) ELSE Say("gone")})
DeleteConfirmed(c) == Failing({IF c \in custom THEN Say("deleted") ELSE Say("gone")})

DeletionPrompt == IF suspended THEN Show(CancelPending) ELSE Show(DeletionConfirm)

HandleCategories(b) ==
  CASE Verb(b) \in {"categories", "categories_cancel", "categories_delete_cancel"} -> ShowCategories
    [] Verb(b) = "categories_add" -> {Say("name?")}
    [] Verb(b) = "categories_parent" -> SelectParent
    [] Verb(b) = "categories_delete" -> DeletePreview(Arg(b))
    [] Verb(b) = "categories_delete_confirm" -> DeleteConfirmed(Arg(b))
    [] OTHER -> {Say("malformed")}

\* Each reads the user's settings first, and a preference turns into its opposite.
ShowSettings == Failing({Show(SettingsMenu)})
ChooseCurrency == Failing({Show(CurrencyPicker)})
ShowNotifications == Failing({Show(Notifications)})
ShowConfidence == Failing({Show(Confidence)})
ToggleNotification(kind) ==
  IF kind \in NotificationKinds THEN Failing({Show(SettingsBack)}) ELSE {Say("malformed")}
ToggleConfidence == Failing({Show(SettingsBack)})

\* UpdateUserProfileUseCase checks the value once more; a currency may have
\* been retired since its button was made.
ProfileOutcomes(setting) ==
  IF setting = "currency_set" THEN {"updated", "invalid_value"} ELSE {"updated"}
UpdateProfile(setting) ==
  Failing({IF kind = "updated" THEN Show(SettingsBack) ELSE Say(kind) : kind \in ProfileOutcomes(setting)})

HandleSettings(b) ==
  CASE Verb(b) = "cancel" -> {Say("cancelled")}
    [] Verb(b) = "back" -> ShowSettings
    [] Verb(b) = "lang" -> {Show(LanguagePicker)}
    [] Verb(b) = "currency" -> ChooseCurrency
    [] Verb(b) = "timezone" -> {Show(TimezonePicker)}
    [] Verb(b) = "notif" -> ShowNotifications
    [] Verb(b) = "confidence" -> ShowConfidence
    [] Verb(b) = "export" -> {Show(ExportMenu)}
    [] Verb(b) = "deleteaccount" -> {DeletionPrompt}
    [] Verb(b) \in {"lang_set", "currency_set", "timezone_set"} ->
         UpdateProfile(Verb(b))
    [] Verb(b) = "notif_toggle" -> ToggleNotification(Arg(b))
    [] Verb(b) = "confidence_toggle" -> ToggleConfidence
    [] OTHER -> HandleCategories(b)

\* runSearchAndReply: the hits are any of the rows, more pages as may be.
SearchReplies(page) ==
  {Say("empty")} \cup
  {Show(ResultPage(found, page, more)) :
     found \in SUBSET Rows \ {{}}, more \in {m \in BOOLEAN : m => page < MaxPage}}

\* A deletion does not need the session; everything else does.
HandleSearch(b) ==
  CASE Verb(b) = "delete" -> {Say("deleted"), Say("gone")}
    [] Verb(b) # "delete" /\ ~ session -> {Say("expired")}
    [] Verb(b) \in {"menu", "reset"} /\ session -> {Show(FilterMenu)}
    [] Verb(b) = "field" /\ session ->
         IF Arg(b) = "transactionType" THEN {Show(TypePicker)} ELSE {Say("value?"), Say("expired")}
    [] Verb(b) = "type" /\ session ->
         IF Arg(b) \in SearchTypes THEN {Show(FilterMenu), Say("expired")} ELSE {Say("nothing")}
    [] Verb(b) = "cancel" /\ session -> {Say("cancelled")}
    [] Verb(b) = "apply" /\ session -> SearchReplies(0)
    [] Verb(b) = "page" /\ session -> SearchReplies(Arg(b))
    [] OTHER -> {Say("nothing")}

HandleDeletion(b) ==
  CASE Verb(b) = "confirm" -> {Say("type DELETE")}
    [] Verb(b) = "cancel" -> {Say("cancelled")}
    [] Verb(b) = "cancel_pending" -> {Say("reactivated"), Say("too late"), Say("not pending")}
    [] OTHER -> {Say("nothing")}

\* The dispatch on the prefix of the callback data.
Handle(b) ==
  CASE Namespace(b) = "search_" -> HandleSearch(b)
    [] Namespace(b) = "delacct_" -> HandleDeletion(b)
    [] Namespace(b) = "report_" -> HandleReport(b)
    [] Namespace(b) = "export_" -> HandleExport(b)
    [] Namespace(b) = "settings_" -> HandleSettings(b)

(***************************************************************************)
(* Telegram takes a message only when every callback_data fits.            *)
(***************************************************************************)
Limit == 64
UuidBytes == 36
HashBytes == 12
LongestOther == 20    \* every other argument is shorter

Bytes(b) ==
  Len(Namespace(b)) + Len(Verb(b)) + 1 + (CASE Arg(b) \in Customs \cup Rows -> UuidBytes
                        [] Arg(b) \in Merchants -> HashBytes
                        [] OTHER -> LongestOther)
Fits(keyboard) == \A b \in keyboard : Bytes(b) <= Limit

Newest(messages) ==
  SubSeq(messages, IF Len(messages) > MaxMessages THEN Len(messages) - MaxMessages + 1 ELSE 1,
         Len(messages))

\* The reply is sent: one without buttons leaves those of the chat alone.
Reply(o) ==
  /\ answer' = o.said
  /\ built' = o.keyboard
  /\ chat' = IF o.keyboard # {} /\ Fits(o.keyboard) THEN Newest(Append(chat, o.keyboard)) ELSE chat

(***************************************************************************)
(* The updates                                                             *)
(***************************************************************************)
MenusInit ==
  /\ chat = <<>> /\ built = {}
  /\ tapped = NoButton /\ answer = ""
  /\ recent = {} /\ custom = {}
  /\ session = FALSE /\ suspended = FALSE

\* The middleware lets a suspended user through only to his way back.
Commands == {"/report", "/export", "/settings", "/search", "/deleteaccount"}

CommandOutcomes(c) ==
  IF c = "/deleteaccount" THEN {DeletionPrompt}
  ELSE IF suspended THEN {Say("suspended")}
  ELSE CASE c = "/report" -> {Show(ReportMenu)}
         [] c = "/export" -> {Show(ExportMenu)}
         [] c = "/settings" -> ShowSettings
         [] c = "/search" -> {Show(FilterMenu)}

Command(c) ==
  /\ \E o \in CommandOutcomes(c) : Reply(o)
  /\ session' = (session \/ (c = "/search" /\ ~ suspended))
  /\ tapped' = NoButton
  /\ UNCHANGED <<recent, custom, suspended>>

TapOutcomes(b) ==
  IF suspended /\ Verb(b) # "cancel_pending" THEN {Say("suspended")} ELSE Handle(b)

\* What a handler does beside replying.
CustomAfter(b, said) ==
  CASE said = "deleted" /\ Verb(b) = "categories_delete_confirm" -> {custom \ {Arg(b)}}
    [] said = "created" -> {custom \cup {c} : c \in Customs}
    [] OTHER -> {custom}

Tap(b) ==
  \E o \in TapOutcomes(b) :
    /\ Reply(o)
    /\ tapped' = IF o.said \in NotUnderstood THEN b ELSE NoButton
    /\ custom' \in CustomAfter(b, o.said)
    /\ session' = (session /\ ~ (b = Button("search_", "cancel", "") /\ o.said = "cancelled"))
    /\ suspended' = (suspended /\ o.said # "reactivated")
    /\ UNCHANGED recent

\* DELETE typed while the bot waits for it.
TypeDelete ==
  /\ answer = "type DELETE" /\ ~ suspended
  /\ suspended' = TRUE
  /\ Reply(Show(CancelPending))
  /\ tapped' = NoButton
  /\ UNCHANGED <<recent, custom, session>>

\* The name of a category typed while the wizard waits for it.
NameReplies == Failing({Show(ParentPicker), Say("duplicate"), Say("invalid")})
TypeName ==
  /\ answer = "name?" /\ ~ suspended
  /\ \E o \in NameReplies : Reply(o)
  /\ tapped' = NoButton
  /\ UNCHANGED <<recent, custom, session, suspended>>

\* The value of a filter typed while the search waits for it; the session may
\* have been written or dropped since.
FilterReplies == {Show(FilterMenu), Say("invalid"), Say("expired")}
TypeValue ==
  /\ answer = "value?" /\ session /\ ~ suspended
  /\ \E o \in FilterReplies : Reply(o)
  /\ tapped' = NoButton
  /\ UNCHANGED <<recent, custom, session, suspended>>

\* Time passes: a merchant enters the lookback window or leaves it, the
\* session's TTL runs out.
Later ==
  /\ answer' = "" /\ built' = {} /\ tapped' = NoButton
  /\ UNCHANGED <<chat, custom, suspended>>
Spend(m) == recent' = recent \cup {m} /\ Later /\ UNCHANGED session
Age(m) == recent' = recent \ {m} /\ Later /\ UNCHANGED session
ExpireSession == session' = FALSE /\ Later /\ UNCHANGED recent

MenusNext ==
  \/ \E c \in Commands : Command(c)
  \/ \E i \in DOMAIN chat : \E b \in chat[i] : Tap(b)
  \/ TypeDelete \/ TypeName \/ TypeValue
  \/ \E m \in Merchants : Spend(m) \/ Age(m)
  \/ ExpireSession

MenusSpec == MenusInit /\ [][MenusNext]_menuVars

(***************************************************************************)
(* Properties                                                              *)
(***************************************************************************)
\* Every button a keyboard offers is understood by the handler it reaches,
\* however old the message: no tap is called malformed or passed over in
\* silence, except on a merchant who has left the lookback window
\* (report-keyboard.ts and its siblings against the handle*Callback methods).
EveryButtonIsUnderstood ==
  answer \in NotUnderstood => Verb(tapped) = "mer" /\ Arg(tapped) \notin recent

\* The data of every button fits in the 64 bytes Telegram allows, as
\* settings-keyboard.spec.ts:24 asserts: a message with a longer one is
\* refused as a whole, and the step it offers cannot be taken.
ButtonsFitTelegram == Fits(built)
=============================================================================
