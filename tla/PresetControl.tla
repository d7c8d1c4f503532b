---------------------------- MODULE PresetControl ----------------------------
(***************************************************************************)
(* The risk preset from the operator to the strategies: the API's PUT      *)
(* /strategy/preset (api-server routes/wallets.ts) writes it to            *)
(* wallet_config and notifies Python; Python's own route (api/routes.py)   *)
(* writes it back through the API; and the strategy engine                 *)
(* (strategy_engine.py) reads it when it starts and every                  *)
(* PRESET_REFRESH_CYCLES evaluation cycles.  Python's event loop serves    *)
(* its routes while a refresh waits for the API.  What a preset changes in *)
(* a strategy is buy_amount_sol: none has an attribute for its stop, its   *)
(* take or its number of positions.                                        *)
(***************************************************************************)
EXTENDS Naturals, FiniteSets

CONSTANTS
    Presets,
    Balanced,    \* "balanced", the default
    NoPreset,    \* no row, or nothing read
    Custom,      \* the strategies' own settings, or an operator's PATCH of them
    Cycles,      \* PRESET_REFRESH_CYCLES
    MaxChanges,  \* bound: changes by operators
    MaxFailures  \* bound: requests that fail, and crashes of Python

ASSUME PresetAssumption ==
    /\ Balanced \in Presets
    /\ {NoPreset, Custom} \cap Presets = {}
    /\ NoPreset # Custom
    /\ Cycles \in Nat \ {0}
    /\ MaxChanges \in Nat
    /\ MaxFailures \in Nat

VARIABLES
    stored,    \* wallet_config.strategy_preset; NoPreset: there is no row
    notices,   \* presets written by PUT /strategy/preset, Python not yet notified
    writes,    \* requests inside Python's set_strategy_preset: [preset, stored]
    phase,     \* Python: "down", "loading" (start's refresh), "resting", "refreshing", "scanning"
    cycle,     \* _scan_cycle, modulo Cycles
    fetched,   \* the answer a refresh has not yet applied
    params,    \* the parameters the strategies trade with
    changes, failures,
    calm       \* history variable: cycles begun since a preset was written anywhere or a
               \* refresh failed, counted up to Cycles

presetVars == <<stored, notices, writes, phase, cycle, fetched, params, changes, failures, calm>>

\* What the strategies should trade with.
Wanted == IF stored = NoPreset THEN Balanced ELSE stored

PresetTypeOK ==
    /\ stored \in Presets \cup {NoPreset}
    /\ notices \subseteq Presets
    /\ writes \subseteq [preset : Presets, stored : BOOLEAN]
    /\ phase \in {"down", "loading", "resting", "refreshing", "scanning"}
    /\ cycle \in 0 .. Cycles - 1
    /\ fetched \in Presets \cup {NoPreset}
    /\ params \in Presets \cup {Custom}
    /\ changes \in 0 .. MaxChanges
    /\ failures \in 0 .. MaxFailures
    /\ calm \in 0 .. Cycles

Change  == changes < MaxChanges /\ changes' = changes + 1
Failure == failures < MaxFailures /\ failures' = failures + 1

------------------------------------------------------------------------------
(* The API.                                                                *)

\* The UPDATE of PUT /strategy/preset and of PUT /wallets/:id/config; without a
\* row there is nothing to update and the answer is 404.
UpdatePreset(p) ==
    /\ stored # NoPreset
    /\ stored' = p
    /\ calm' = 0

PutPreset(p) ==
    /\ Change
    /\ UpdatePreset(p)
    /\ notices' = notices \cup {p}
    /\ UNCHANGED <<writes, phase, cycle, fetched, params, failures>>

\* "Notify Python engine for in-memory update": the request carries no X-Admin-Key.
NotifyHeaders == {"Content-Type"}

NotifyPython(p) ==
    /\ p \in notices
    /\ notices' = notices \ {p}
    /\ writes' = IF phase # "down" /\ "X-Admin-Key" \in NotifyHeaders
                   THEN writes \cup {[preset |-> p, stored |-> FALSE]} ELSE writes
    /\ UNCHANGED <<stored, phase, cycle, fetched, params, changes, failures, calm>>

\* PUT /wallets/:id/config with a preset notifies nobody.
PutPresetConfig(p) ==
    /\ Change
    /\ UpdatePreset(p)
    /\ UNCHANGED <<notices, writes, phase, cycle, fetched, params, failures>>

\* The trading engine starts and seeds the wallet's row.
SeedConfig ==
    /\ stored = NoPreset
    /\ stored' = Balanced
    /\ calm' = 0
    /\ UNCHANGED <<notices, writes, phase, cycle, fetched, params, changes, failures>>

------------------------------------------------------------------------------
(* Python's routes.                                                        *)

\* PUT /strategy/preset with the admin key ...
SetPreset(p) ==
    /\ phase # "down"
    /\ Change
    /\ writes' = writes \cup {[preset |-> p, stored |-> FALSE]}
    /\ UNCHANGED <<stored, notices, phase, cycle, fetched, params, failures, calm>>

\* ... is stored through the API, or refused with 502, also when only the API's
\* answer was lost ...
StorePreset(x) ==
    /\ x \in writes /\ ~x.stored
    /\ \/ /\ UpdatePreset(x.preset)
          /\ writes' = (writes \ {x}) \cup {[x EXCEPT !.stored = TRUE]}
          /\ UNCHANGED failures
       \/ /\ stored = NoPreset
          /\ writes' = writes \ {x}
          /\ UNCHANGED <<stored, failures, calm>>
       \/ /\ Failure
          /\ writes' = writes \ {x}
          /\ UpdatePreset(x.preset) \/ UNCHANGED <<stored, calm>>
    /\ UNCHANGED <<notices, phase, cycle, fetched, params, changes>>

\* ... and then applied.
ApplyPreset(x) ==
    /\ x \in writes /\ x.stored
    /\ writes' = writes \ {x}
    /\ params' = x.preset
    /\ calm' = 0
    /\ UNCHANGED <<stored, notices, phase, cycle, fetched, changes, failures>>

\* PATCH /strategies/:name sets single parameters.
PatchParams ==
    /\ phase # "down"
    /\ Change
    /\ params' = Custom
    /\ calm' = 0
    /\ UNCHANGED <<stored, notices, writes, phase, cycle, fetched, failures>>

------------------------------------------------------------------------------
(* The strategy engine.                                                    *)

\* The end of a refresh; start's is followed by the first rest.
Refreshed == phase' = IF phase = "loading" THEN "resting" ELSE "scanning"

\* Mutant: an answer of 404 changes nothing.
FetchPresetIgnores404 ==
    /\ phase \in {"loading", "refreshing"} /\ fetched = NoPreset
    /\ IF stored = NoPreset THEN Refreshed /\ UNCHANGED fetched
                            ELSE fetched' = stored /\ UNCHANGED phase
    /\ UNCHANGED <<stored, notices, writes, cycle, params, changes, failures, calm>>

\* _refresh_preset_from_wallet_config: the API answers, 404 standing for the default ...
FetchPreset ==
    /\ phase \in {"loading", "refreshing"} /\ fetched = NoPreset
    /\ fetched' = Wanted
    /\ UNCHANGED <<stored, notices, writes, phase, cycle, params, changes, failures, calm>>

\* ... and what it answered is applied, also over what came in between ...
ApplyFetched ==
    /\ fetched # NoPreset
    /\ params' = fetched
    /\ fetched' = NoPreset
    /\ Refreshed
    /\ UNCHANGED <<stored, notices, writes, cycle, changes, failures, calm>>

\* Mutant: the exception ends the loop of start().
FetchFailsEndsLoop ==
    /\ phase \in {"loading", "refreshing"} /\ fetched = NoPreset
    /\ Failure
    /\ phase' = "ended"
    /\ calm' = 0
    /\ UNCHANGED <<stored, notices, writes, cycle, fetched, params, changes>>

\* ... or nothing: 500, a timeout, the API down.
FetchFails ==
    /\ phase \in {"loading", "refreshing"} /\ fetched = NoPreset
    /\ Failure
    /\ Refreshed
    /\ calm' = 0
    /\ UNCHANGED <<stored, notices, writes, cycle, fetched, params, changes>>

\* An evaluation cycle begins ...
BeginCycle ==
    /\ phase = "resting"
    /\ cycle' = (cycle + 1) % Cycles
    /\ phase' = IF cycle' = 0 THEN "refreshing" ELSE "scanning"
    /\ calm' = IF calm = Cycles THEN calm ELSE calm + 1
    /\ UNCHANGED <<stored, notices, writes, fetched, params, changes, failures>>

\* ... and the strategies evaluate the tokens.
RunStrategies ==
    /\ phase = "scanning"
    /\ phase' = "resting"
    /\ UNCHANGED <<stored, notices, writes, cycle, fetched, params, changes, failures, calm>>

StartPython ==
    /\ phase = "down"
    /\ phase' = "loading"
    /\ cycle' = 0
    /\ params' = Custom
    /\ calm' = 0
    /\ UNCHANGED <<stored, notices, writes, fetched, changes, failures>>

PythonDies ==
    /\ phase # "down"
    /\ Failure
    /\ phase' = "down"
    /\ fetched' = NoPreset
    /\ writes' = {}
    /\ UNCHANGED <<stored, notices, cycle, params, changes, calm>>

------------------------------------------------------------------------------
PresetInit ==
    /\ stored \in Presets \cup {NoPreset}
    /\ notices = {}
    /\ writes = {}
    /\ phase = "down"
    /\ cycle = 0
    /\ fetched = NoPreset
    /\ params = Custom
    /\ changes = 0
    /\ failures = 0
    /\ calm = 0

Loop == FetchPreset \/ ApplyFetched \/ FetchFails \/ BeginCycle \/ RunStrategies

PresetNext ==
    \/ \E p \in Presets : PutPreset(p) \/ NotifyPython(p) \/ PutPresetConfig(p) \/ SetPreset(p)
    \/ \E x \in writes : StorePreset(x) \/ ApplyPreset(x)
    \/ SeedConfig \/ PatchParams \/ StartPython \/ PythonDies \/ Loop

PresetSpec == PresetInit /\ [][PresetNext]_presetVars

\* A Python that is up runs, and its requests and the API's end.  Nothing starts
\* it again: the API server spawns it once.
PresetFairness ==
    /\ WF_presetVars(Loop)
    /\ WF_presetVars(\E x \in writes : StorePreset(x) \/ ApplyPreset(x))

------------------------------------------------------------------------------
(* Properties.                                                             *)

\* However a preset was written, and whatever came between a refresh and its
\* answer, after PRESET_REFRESH_CYCLES undisturbed cycles the strategies trade
\* with the preset that is stored.
StoredPresetIsUsed == phase = "scanning" /\ calm = Cycles => params = Wanted

\* In the end they do, unless Python is down; PATCHed parameters are overwritten.
PresetConverges == <>[](phase = "down" \/ params = Wanted)
==============================================================================
