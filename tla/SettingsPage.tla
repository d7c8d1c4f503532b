----------------------------- MODULE SettingsPage -----------------------------
(***************************************************************************)
(* The settings page (dashboard Settings.tsx) and the routes under it      *)
(* (api-server routes/settings.ts): cards with a form each, all filled     *)
(* from one query of GET /settings/config, each saved by a PUT of its own  *)
(* fields.  A form is the set of its fields.                               *)
(*                                                                         *)
(* A query that is invalidated while it runs starts again.  Its data       *)
(* keeps its identity when it has not changed, so the cards' effects run   *)
(* only when it has; they then reset every field of every card.  A PUT     *)
(* whose answer is lost is not cancelled: its handler writes on.           *)
(***************************************************************************)
EXTENDS Naturals, FiniteSets

CONSTANTS
    Forms,       \* disjoint sets of fields
    RpcField,    \* SOLANA_RPC_URL, the field with a Test button
    Texts,       \* what a field may hold, trimmed and not empty
    Env,         \* [Fields -> Texts \cup {Unset, Empty}]: the environment of the API server
    Fallback,    \* [Fields -> Texts \cup {Empty}]: what a form shows for a field without a value
    Unset,
    Empty,       \* ""
    MaxSaves,    \* bound: saves
    MaxEdits,    \* bound: changes of a field
    MaxMishaps   \* bound: failing statements and requests, and saves by other browsers

Fields == UNION Forms

ASSUME SettingsAssumption ==
    /\ \A g, h \in Forms : g # h => g \cap h = {}
    /\ RpcField \in Fields
    /\ Unset # Empty /\ {Unset, Empty} \cap Texts = {}
    /\ Env \in [Fields -> Texts \cup {Unset, Empty}]
    /\ Fallback \in [Fields -> Texts \cup {Empty}]
    /\ {MaxSaves, MaxEdits, MaxMishaps} \subseteq Nat

VARIABLES
    bot_config,  \* [Fields -> Texts \cup {Unset, Empty}]: the rows
    data,        \* [Fields -> Texts \cup {Unset, Empty}]: what the query returned last
    query,       \* the query: "idle", "asked" or "answered"
    answer,      \* its answer, on the way; otherwise data
    draft,       \* [Fields -> Texts \cup {Empty}]: the fields' state
    edited,      \* fields typed into since the forms were reset
    saving,      \* forms with isSaving, their PUT under way
    body,        \* [Fields -> Texts \cup {Empty}]: what is sent for the fields of a save
    left,        \* fields the PUT has still to write
    strays,      \* what handlers have still to write whose answer was lost
    testing,     \* the URL under test, or Unset
    tested,      \* the URL testResult is about, or Unset
    saves, edits, mishaps,
    excused,     \* history variable: the rows may differ from what was last read of them:
                 \* a read failed, a save failed halfway, the handler of one that was
                 \* reported to have failed wrote on, or another browser saved
    overtaken,   \* history variable: the URL was changed during its test, or by a reset
    foreign      \* history variable: fields of a PUT under way that others have written since it
                 \* wrote them, or before it does

queryVars == <<data, query, answer>>
formVars  == <<draft, edited>>
putVars   == <<saving, body, left, strays>>
testVars  == <<testing, tested>>
tally     == <<saves, edits, mishaps>>
settingsVars == <<bot_config, queryVars, formVars, putVars, testVars, tally,
                  excused, overtaken, foreign>>

Answers == [Fields -> Texts \cup {Unset, Empty}]
Strays  == [put : 0 .. MaxMishaps, field : Fields, text : Texts \cup {Empty}]

SettingsTypeOK ==
    /\ bot_config \in Answers
    /\ data \in Answers
    /\ query \in {"idle", "asked", "answered"}
    /\ answer \in Answers
    /\ draft \in [Fields -> Texts \cup {Empty}]
    /\ edited \subseteq Fields
    /\ saving \subseteq Forms
    /\ body \in [Fields -> Texts \cup {Empty}]
    /\ left \subseteq UNION saving
    /\ strays \subseteq Strays
    /\ {testing, tested} \subseteq Texts \cup {Unset}
    /\ saves \in 0 .. MaxSaves
    /\ edits \in 0 .. MaxEdits
    /\ mishaps \in 0 .. MaxMishaps
    /\ excused \in BOOLEAN
    /\ overtaken \in BOOLEAN
    /\ foreign \subseteq Fields

Mishap == mishaps < MaxMishaps /\ mishaps' = mishaps + 1

------------------------------------------------------------------------------
(* The routes.                                                             *)

\* GET /settings/config: a row counts when it is there ...
Merged(rows) == [f \in Fields |-> IF rows[f] # Unset THEN rows[f] ELSE Env[f]]
\* ... and GET /settings/status takes one that is not empty, and so with the environment.
StatusSource(f) == IF bot_config[f] \notin {Unset, Empty} THEN "db"
                   ELSE IF Env[f] \notin {Unset, Empty} THEN "env" ELSE "none"
ConfigSource(f) == IF bot_config[f] # Unset THEN "db"
                   ELSE IF Env[f] # Unset THEN "env" ELSE "none"

\* PUT /settings/config, for one field: "" deletes the row.
StoreField(f, text) == [bot_config EXCEPT ![f] = IF text = Empty THEN Unset ELSE text]

\* The config is read, or loadDbConfig fails and stands for no rows at all.
ServeConfig ==
    /\ query = "asked"
    /\ query' = "answered"
    /\ \/ answer' = Merged(bot_config) /\ excused' = FALSE /\ UNCHANGED mishaps
       \/ Mishap /\ answer' = Merged([f \in Fields |-> Unset]) /\ excused' = TRUE
    /\ UNCHANGED <<bot_config, data, formVars, putVars, testVars, saves, edits, overtaken,
                   foreign>>

\* The PUT writes its fields one after the other, each on its own.
WriteField(f) ==
    /\ f \in left
    /\ left' = left \ {f}
    /\ bot_config' = StoreField(f, body[f])
    /\ foreign' = foreign \ {f}
    /\ UNCHANGED <<queryVars, formVars, saving, body, strays, testVars, tally, excused, overtaken>>

WrittenByOther(f) == /\ excused' = TRUE
                     /\ foreign' = foreign \cup ({f} \cap UNION saving)

\* So does one whose answer was lost, until a statement fails.
WriteStray(w) ==
    /\ w \in strays
    /\ strays' = strays \ {w}
    /\ bot_config' = StoreField(w.field, w.text)
    /\ WrittenByOther(w.field)
    /\ UNCHANGED <<queryVars, formVars, saving, body, left, testVars, tally, overtaken>>

StrayFails(w) ==
    /\ w \in strays
    /\ strays' = {v \in strays : v.put # w.put}
    /\ UNCHANGED <<bot_config, queryVars, formVars, saving, body, left, testVars, tally, excused,
                   overtaken, foreign>>

\* Another browser saves a field.
SavedElsewhere(f, text) ==
    /\ Mishap
    /\ bot_config' = StoreField(f, text)
    /\ WrittenByOther(f)
    /\ UNCHANGED <<queryVars, formVars, putVars, testVars, saves, edits, overtaken>>

------------------------------------------------------------------------------
(* The page.                                                               *)

Display(config) == [f \in Fields |-> IF config[f] # Unset THEN config[f] ELSE Fallback[f]]

\* The window is focused, or the page is opened again.
Refetch ==
    /\ query = "idle"
    /\ query' = "asked"
    /\ UNCHANGED <<bot_config, data, answer, formVars, putVars, testVars, tally, excused,
                   overtaken, foreign>>

\* The answer arrives: when it is new the cards' effects reset the forms.
ConfigArrives ==
    /\ query = "answered"
    /\ query' = "idle"
    /\ data' = answer
    /\ IF answer = data THEN UNCHANGED <<formVars, overtaken>>
       ELSE /\ draft' = Display(answer)
            /\ edited' = {}
            /\ overtaken' = (overtaken \/ (draft'[RpcField] # draft[RpcField]))
    /\ UNCHANGED <<bot_config, answer, putVars, testVars, tally, excused, foreign>>

\* Or the request fails, and so does its one repetition.
ConfigFails ==
    /\ query # "idle"
    /\ Mishap
    /\ query' = "idle"
    /\ answer' = data
    /\ excused' = TRUE
    /\ UNCHANGED <<bot_config, data, formVars, putVars, testVars, saves, edits,
                   overtaken, foreign>>

\* The operator types.  The first URL's onChange also takes the test result away.
TypeField(f, text) ==
    /\ edits < MaxEdits
    /\ edits' = edits + 1
    /\ draft' = [draft EXCEPT ![f] = text]
    /\ edited' = edited \cup {f}
    /\ tested' = IF f = RpcField THEN Unset ELSE tested
    /\ overtaken' = IF f = RpcField THEN testing # Unset ELSE overtaken
    /\ UNCHANGED <<bot_config, queryVars, putVars, testing, saves, mishaps, excused, foreign>>

\* handleSave, up to the await.
Save(form) ==
    /\ form \notin saving
    /\ saves < MaxSaves
    /\ saves' = saves + 1
    /\ saving' = saving \cup {form}
    /\ body' = [f \in Fields |-> IF f \in form THEN draft[f] ELSE body[f]]
    /\ left' = left \cup form
    /\ UNCHANGED <<bot_config, strays, queryVars, formVars, testVars, edits, mishaps, excused,
                   overtaken, foreign>>

\* The answer to the PUT.
PutEnds(form) ==
    /\ form \in saving
    /\ saving' = saving \ {form}
    /\ body' = [f \in Fields |-> IF f \in form THEN Empty ELSE body[f]]
    /\ foreign' = foreign \ form

\* Mutant: a query that is running already is not started again.
SavedJoinsQuery(form) ==
    /\ left \cap form = {}
    /\ PutEnds(form)
    /\ query' = IF query = "idle" THEN "asked" ELSE query
    /\ UNCHANGED <<bot_config, data, answer, formVars, left, strays, testVars, tally, excused,
                   overtaken>>

\* "saved": the query is invalidated.
Saved(form) ==
    /\ left \cap form = {}
    /\ PutEnds(form)
    /\ query' = "asked"
    /\ answer' = data
    /\ UNCHANGED <<bot_config, data, formVars, left, strays, testVars, tally, excused, overtaken>>

\* "Failed to save settings": a statement failed, and the handler stopped there, or
\* the answer was lost, and the handler writes what is left.
SaveFails(form) ==
    /\ Mishap
    /\ PutEnds(form)
    /\ left' = left \ form
    /\ \/ UNCHANGED strays
       \/ strays' = strays \cup {[put |-> mishaps, field |-> f, text |-> body[f]] : f \in left \cap form}
    /\ excused' = TRUE
    /\ UNCHANGED <<bot_config, queryVars, formVars, testVars, saves, edits, overtaken>>

\* handleTestRpc, and its answer.
TestRpc ==
    /\ testing = Unset /\ draft[RpcField] # Empty
    /\ testing' = draft[RpcField]
    /\ tested' = Unset
    /\ overtaken' = FALSE
    /\ UNCHANGED <<bot_config, queryVars, formVars, putVars, tally, excused, foreign>>

TestAnswers ==
    /\ testing # Unset
    /\ tested' = testing
    /\ testing' = Unset
    /\ UNCHANGED <<bot_config, queryVars, formVars, putVars, tally, excused, overtaken,
                   foreign>>

------------------------------------------------------------------------------
SettingsInit ==
    /\ bot_config \in [Fields -> Texts \cup {Unset}]
    /\ data = Merged(bot_config)
    /\ query = "idle" /\ answer = data
    /\ draft = Display(data)
    /\ edited = {}
    /\ saving = {} /\ left = {} /\ strays = {} /\ foreign = {}
    /\ body = [f \in Fields |-> Empty]
    /\ testing = Unset /\ tested = Unset
    /\ saves = 0 /\ edits = 0 /\ mishaps = 0
    /\ excused = FALSE /\ overtaken = FALSE

SettingsNext ==
    \/ Refetch \/ ServeConfig \/ ConfigArrives \/ ConfigFails \/ TestRpc \/ TestAnswers
    \/ \E f \in Fields : WriteField(f)
    \/ \E w \in strays : WriteStray(w) \/ StrayFails(w)
    \/ \E f \in Fields, text \in Texts \cup {Empty} : TypeField(f, text) \/ SavedElsewhere(f, text)
    \/ \E form \in Forms : Save(form) \/ Saved(form) \/ SaveFails(form)

------------------------------------------------------------------------------
(* Properties.                                                             *)

\* At rest the fields nobody has typed into show what is in force, in spite of
\* saves of two cards and queries that overlap, unless since the last answer a read or
\* a save failed, or something was written that no save on this page reported: by the
\* handler of a save that was given up, or from another browser.
FormsShowWhatIsStored ==
    query = "idle" /\ saving = {} /\ ~excused =>
        \A f \in Fields \ edited : draft[f] = Display(Merged(bot_config))[f]

\* "saved" means that every field of the card is stored as it was sent, unless another
\* browser, or the handler of an earlier save that was given up, has written it since.
SavedIsStored ==
    [][\A card \in saving \ saving' :
        mishaps' = mishaps => \A f \in card \ foreign : bot_config = StoreField(f, body[f])]_settingsVars

\* Status and config take a field from the same place, though one asks whether it is
\* empty and the other whether it is there: no save leaves an empty row behind.  Only a
\* variable that is set to "" in the environment is none to one and a value to the other.
SourcesAgree ==
    \A f \in Fields : StatusSource(f) # ConfigSource(f) => bot_config[f] = Unset /\ Env[f] = Empty

\* A test result is shown for the URL in the field, unless the URL changed while
\* it was tested, or the form was reset.
ResultIsForField == tested # Unset /\ ~overtaken => tested = draft[RpcField]

\* What the settings page shows is so.
PageIsTrue == FormsShowWhatIsStored /\ SourcesAgree /\ ResultIsForField
==============================================================================
