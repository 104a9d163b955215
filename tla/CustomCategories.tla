--------------------------- MODULE CustomCategories ---------------------------
(***************************************************************************)
(* A user's own categories: the naming wizard, their creation under a      *)
(* system category, their deletion, which hands their transactions to that *)
(* parent, and the transaction edits, deletions and restorations that race *)
(* with it.  Taps and edits of one user overlap.                           *)
(*                                                                         *)
(* All custom categories have the same parent; names differ by more than   *)
(* letter case, and one of them may be a system category's label.          *)
(***************************************************************************)
EXTENDS Naturals, FiniteSets

CONSTANTS
  Ids,          \* category ids
  Names,        \* names, trimmed and in lower case
  SystemNames,  \* those of them a system category has
  ReplyLanguages, \* the languages a user replies in
  UserRows,     \* the user's transactions
  Taps,         \* calls under way at once
  Parent,       \* the parent system category
  NoName,
  MaxCalls      \* bound on the calls made

VARIABLES
  category,   \* [Ids -> rows of categories and category_translations]
  row,        \* [UserRows -> category and whether deletedAt is null]
  naming,     \* custom_category_wizard:<user>
  language,   \* the user's reply language now
  tap,        \* [Taps -> calls]
  calls,      \* calls made so far
  late        \* rows that an edit or a restoration gave a category deleted meanwhile

categoryVars == <<category, row, naming, language, tap, calls, late>>

NoCategory == [status |-> "none", name |-> NoName, language |-> NoName]
NoWizard == [version |-> 0, name |-> NoName]
NoTap == [does |-> "nothing", name |-> NoName, version |-> 0, language |-> NoName,
          id |-> Parent, row |-> Parent]

Active(c) == category[c].status = "active"
Usable(c) == c = Parent \/ Active(c)

CategoriesInit ==
  /\ category = [c \in Ids |-> NoCategory]
  /\ row \in [UserRows -> [category : {Parent}, live : {TRUE}]]
  /\ naming = NoWizard
  /\ language \in ReplyLanguages
  /\ tap = [t \in Taps |-> NoTap]
  /\ calls = 0
  /\ late = {}

Step(t, does) == tap[t].does = does
Start(t, held) ==
  /\ Step(t, "nothing") /\ calls < MaxCalls
  /\ tap' = [tap EXCEPT ![t] = held]
  /\ calls' = calls + 1
Turn(t, held) == tap' = [tap EXCEPT ![t] = held] /\ UNCHANGED calls
Finish(t) == Turn(t, NoTap)

(***************************************************************************)
(* Creation                                                                *)
(***************************************************************************)
\* isDuplicateCategoryName: labels of active categories, in any language.
Taken(name) == name \in SystemNames \/ \E c \in Ids : Active(c) /\ category[c].name = name

IndexAllowsAlways(name, lang) == TRUE

\* ux_category_translations_owner_lang_label, which deprecated ones keep.
IndexAllows(name, lang) ==
  \A c \in Ids : category[c].status # "none"
                   => category[c].name # name \/ category[c].language # lang

\* startCustomCategoryWizard.
StartWizard(t) ==
  /\ Start(t, NoTap)
  /\ naming' = [version |-> naming.version + 1, name |-> NoName]
  /\ UNCHANGED <<category, row, language, late>>

\* AWAITING_NAME: the name is checked first, the record written after.
NameTyped(t, name) ==
  /\ naming.version > 0 /\ naming.name = NoName
  /\ ~ Taken(name)
  /\ Start(t, [NoTap EXCEPT !.does = "naming", !.name = name, !.version = naming.version])
  /\ UNCHANGED <<category, row, naming, language, late>>

WriteName(t) ==
  /\ Step(t, "naming")
  /\ naming' = IF naming.version = tap[t].version
               THEN [version |-> naming.version + 1, name |-> tap[t].name] ELSE naming
  /\ Finish(t)
  /\ UNCHANGED <<category, row, language, late>>

\* handleCustomCategoryParentSelected and CreateCustomCategoryUseCase: the
\* name is looked up once more before the insertion.
ParentSelected(t) ==
  /\ naming.name # NoName
  /\ Start(t, [NoTap EXCEPT !.does = "checking", !.name = naming.name, !.version = naming.version,
                            !.language = language])
  /\ UNCHANGED <<category, row, naming, language, late>>

Check(t) ==
  /\ Step(t, "checking")
  /\ Turn(t, [tap[t] EXCEPT !.does = IF Taken(tap[t].name) THEN "clearing" ELSE "inserting"])
  /\ UNCHANGED <<category, row, naming, language, late>>

\* One transaction: the category and its translation.  When the index refuses
\* it, the name is looked up again: a duplicate ends the wizard, anything else
\* is an error that leaves it.
InsertCategory(t, c) ==
  LET name == tap[t].name lang == tap[t].language IN
  /\ Step(t, "inserting") /\ category[c].status = "none"
  /\ IF IndexAllows(name, lang)
     THEN /\ category' = [category EXCEPT ![c] = [status |-> "active", name |-> name,
                                                 language |-> lang]]
          /\ Turn(t, [tap[t] EXCEPT !.does = "clearing"])
     ELSE /\ IF Taken(name) THEN Turn(t, [tap[t] EXCEPT !.does = "clearing"]) ELSE Finish(t)
          /\ UNCHANGED category
  /\ UNCHANGED <<row, naming, language, late>>

ClearWizard(t) ==
  /\ Step(t, "clearing")
  /\ naming' = IF naming.version = tap[t].version THEN NoWizard ELSE naming
  /\ Finish(t)
  /\ UNCHANGED <<category, row, language, late>>

\* settings_categories_cancel, and the TTL.
DropWizard ==
  /\ naming' = NoWizard /\ naming # NoWizard
  /\ UNCHANGED <<category, row, language, tap, calls, late>>

\* The language is chosen in the settings.
ChooseLanguage(l) ==
  /\ language' = l
  /\ UNCHANGED <<category, row, naming, tap, calls, late>>

(***************************************************************************)
(* Deletion: deleteAndReassignTransactions, one database transaction.  The *)
(* guarded update decides who deletes; only live rows are handed on.       *)
(***************************************************************************)
ReassignedNever(r, c) == row[r]

Reassigned(r, c) ==
  IF row[r].category = c /\ row[r].live THEN [row[r] EXCEPT !.category = Parent] ELSE row[r]

DeleteCategory(c) ==
  /\ Active(c) /\ calls < MaxCalls
  /\ calls' = calls + 1
  /\ category' = [category EXCEPT ![c].status = "deprecated"]
  /\ row' = [r \in UserRows |-> Reassigned(r, c)]
  /\ UNCHANGED <<naming, language, tap, late>>

(***************************************************************************)
(* Transactions                                                            *)
(***************************************************************************)
\* EditTransactionUseCase: the category is looked up, the row written later.
ChooseCategory(t, r, c) ==
  /\ row[r].live /\ Usable(c)
  /\ Start(t, [NoTap EXCEPT !.does = "editing", !.row = r, !.id = c])
  /\ UNCHANGED <<category, row, naming, language, late>>

\* The write goes by the row's id alone.
WriteCategory(t) ==
  LET r == tap[t].row c == tap[t].id IN
  /\ Step(t, "editing")
  /\ row' = [row EXCEPT ![r].category = c]
  /\ late' = IF Usable(c) THEN late \ {r} ELSE late \cup {r}
  /\ Finish(t)
  /\ UNCHANGED <<category, naming, language>>

DeleteRow(r) ==
  /\ row[r].live
  /\ row' = [row EXCEPT ![r].live = FALSE]
  /\ UNCHANGED <<category, naming, language, tap, calls, late>>

\* RestoreTransactionUseCase: nobody looks at the category.
RestoreRow(r) ==
  /\ ~ row[r].live
  /\ row' = [row EXCEPT ![r].live = TRUE]
  /\ late' = IF Usable(row[r].category) THEN late ELSE late \cup {r}
  /\ UNCHANGED <<category, naming, language, tap, calls>>

CategoriesNext ==
  \/ \E t \in Taps :
       \/ StartWizard(t) \/ WriteName(t) \/ ParentSelected(t) \/ Check(t) \/ ClearWizard(t)
       \/ WriteCategory(t)
       \/ \E n \in Names : NameTyped(t, n)
       \/ \E c \in Ids : InsertCategory(t, c)
       \/ \E r \in UserRows, c \in Ids : ChooseCategory(t, r, c)
  \/ \E c \in Ids : DeleteCategory(c)
  \/ \E l \in ReplyLanguages : ChooseLanguage(l)
  \/ \E r \in UserRows : DeleteRow(r) \/ RestoreRow(r)
  \/ DropWizard

CategoriesSpec == CategoriesInit /\ [][CategoriesNext]_categoryVars

(***************************************************************************)
(* Properties                                                              *)
(***************************************************************************)
\* Two categories of a user that are in use never have one name in one
\* language, however many wizards and taps overlap; none has a system
\* category's (createCustomCategory and the unique index of its migration).
NamesAreUnique ==
  /\ \A c, d \in Ids : c # d /\ Active(c) /\ Active(d)
       => category[c].name # category[d].name \/ category[c].language # category[d].language
  /\ \A c \in Ids : Active(c) => category[c].name \notin SystemNames

\* A transaction that counts has a category in use: deleting a category
\* leaves none behind.  The exceptions are a row whose edit had already looked
\* the category up and a row restored after it (late): neither looks again
\* (deleteAndReassignTransactions, EditTransactionUseCase).
RowsHaveUsableCategories == \A r \in UserRows \ late : row[r].live => Usable(row[r].category)

\* Both: no name is taken twice, and rows have categories that are in use.
CategoriesAreUsable == NamesAreUnique /\ RowsHaveUsableCategories
=============================================================================
