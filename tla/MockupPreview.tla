---------------------------- MODULE MockupPreview ----------------------------
(***************************************************************************)
(* The preview server of the mock-up sandbox.  Its vite plugin             *)
(* (mockupPreviewPlugin.ts) keeps a generated module that lists the        *)
(* component files: refresh() walks the directory and writes the module    *)
(* when the list has changed; a call that finds another one running leaves *)
(* a note instead.  A preview page (App.tsx, PreviewRenderer) loads the    *)
(* component of its path from the module it was given last.                *)
(***************************************************************************)
EXTENDS Naturals, FiniteSets

CONSTANTS
    Files,       \* component files that are preview targets
    Path,        \* the file a page shows
    MaxFileEdits,    \* bound: files added or removed
    MaxThrows    \* bound: refreshes that throw

ASSUME PreviewAssumption == "none" \notin Files /\ {MaxFileEdits, MaxThrows} \subseteq Nat

VARIABLES
    files,           \* the files there are
    server,          \* "setup" (configureServer's refresh), "scanning" (the watcher's first scan), "ready"
    events,          \* files the watcher has still to report
    walk,            \* a walk of the directory: the files that have changed since it began; or Nothing
    refreshQueued,
    currentSource,   \* the files the plugin has listed last; Nothing: not yet
    generated,       \* the files that the generated module lists
    fileEdits, throws,
    unheard,         \* history variable: changes nobody reports, that no walk has come after
    thrown,          \* history variable: the latest refresh to end threw
    unwritten,       \* history variable: a list was not written, and no other one since
    modules,         \* the page: the module it has
    loads,           \* the loads that have not ended: [modules, cancelled]
    view            \* "nothing", "error" or "component"

Nothing == {"none"}

pluginVars  == <<files, server, events, walk, refreshQueued, currentSource, generated,
                 fileEdits, throws, unheard, thrown, unwritten>>
pageVars    == <<modules, loads, view>>
previewVars == <<pluginVars, pageVars>>

refreshInFlight == walk # Nothing

PreviewTypeOK ==
    /\ {files, events, generated, modules} \subseteq SUBSET Files
    /\ {walk, currentSource} \subseteq (SUBSET Files) \cup {Nothing}
    /\ server \in {"setup", "scanning", "ready"}
    /\ {refreshQueued, unheard, thrown, unwritten} \subseteq BOOLEAN
    /\ fileEdits \in 0 .. MaxFileEdits
    /\ throws \in 0 .. MaxThrows
    /\ loads \subseteq [modules : SUBSET Files, cancelled : BOOLEAN]
    /\ view \in {"nothing", "error", "component"}
    /\ refreshQueued /\ throws = 0 => refreshInFlight

------------------------------------------------------------------------------
(* The directory and the watcher.                                          *)

\* A file is added or removed.  The watcher ignores what its first scan finds, and
\* may not see a change that is undone before it reports it.
Edit(f) ==
    /\ fileEdits < MaxFileEdits
    /\ fileEdits' = fileEdits + 1
    /\ files' = IF f \in files THEN files \ {f} ELSE files \cup {f}
    /\ walk' = IF refreshInFlight THEN walk \cup {f} ELSE walk
    /\ \/ server = "ready" /\ events' = events \cup {f} /\ UNCHANGED unheard
       \/ server = "ready" /\ f \in events /\ events' = events \ {f} /\ unheard' = TRUE
       \/ server # "ready" /\ unheard' = TRUE /\ UNCHANGED events
    /\ UNCHANGED <<server, refreshQueued, currentSource, generated, throws, thrown, unwritten, pageVars>>

\* refresh(), as far as its first await.
Refresh ==
    IF refreshInFlight
      THEN refreshQueued' = TRUE /\ UNCHANGED <<walk, unheard>>
      ELSE walk' = {} /\ unheard' = FALSE /\ UNCHANGED refreshQueued

\* "add" and "unlink", after awaitWriteFinish.
Reported(f) ==
    /\ f \in events
    /\ events' = events \ {f}
    /\ Refresh
    /\ UNCHANGED <<files, server, currentSource, generated, fileEdits, throws, thrown, unwritten, pageVars>>

\* buildStart, or a request below components/mockups that is answered with 404.
Rescan ==
    /\ Refresh
    /\ UNCHANGED <<files, server, events, currentSource, generated, fileEdits, throws, thrown, unwritten, pageVars>>

\* configureServer goes on when its refresh has ended; then the watcher's scan ends.
StartWatcher ==
    /\ \/ server = "setup" /\ ~refreshInFlight /\ server' = "scanning"
       \/ server = "scanning" /\ server' = "ready"
    /\ UNCHANGED <<files, events, walk, refreshQueued, currentSource, generated, fileEdits, throws,
                   unheard, thrown, unwritten, pageVars>>

------------------------------------------------------------------------------
(* The end of the walk.  It sees the files that were there throughout, and *)
(* any of those that came or went.                                         *)

Seen == {(files \ walk) \cup some : some \in SUBSET walk}

\* "if (refreshQueued)": no await between the end and the follow-up's beginning.
FollowUp ==
    /\ walk' = IF refreshQueued THEN {} ELSE Nothing
    /\ unheard' = (unheard /\ ~refreshQueued)
    /\ refreshQueued' = FALSE

\* A list that is the last one again is not written.
Walked(found) ==
    /\ currentSource' = found
    /\ generated' = IF found # currentSource THEN found ELSE generated
    /\ unwritten' = (unwritten /\ found = currentSource)

RefreshEnds ==
    /\ refreshInFlight
    /\ \E found \in Seen : Walked(found)
    /\ thrown' = FALSE
    /\ FollowUp
    /\ UNCHANGED <<files, server, events, fileEdits, throws, pageVars>>

\* The walk or the write throws: the note stays, without a follow-up, and so
\* does currentSource if it was assigned.
RefreshThrows ==
    /\ refreshInFlight
    /\ throws < MaxThrows
    /\ throws' = throws + 1
    /\ walk' = Nothing
    /\ thrown' = TRUE
    /\ \/ UNCHANGED <<currentSource, unwritten>>
       \/ \E found \in Seen \ {currentSource} : currentSource' = found /\ unwritten' = TRUE
    /\ UNCHANGED <<files, server, events, refreshQueued, generated, fileEdits, unheard, pageVars>>

------------------------------------------------------------------------------
(* The page.                                                               *)

\* The effect: it cancels the one before.  Without a loader it shows an error at once.
Load(m) ==
    LET old == {[l EXCEPT !.cancelled = TRUE] : l \in loads}
    IN IF Path \in m
         THEN /\ loads' = old \cup {[modules |-> m, cancelled |-> FALSE]}
              /\ view' = "nothing"
         ELSE loads' = old /\ view' = "error"

\* The page gets the generated module that has changed, and renders anew.
HotUpdate ==
    /\ modules # generated
    /\ modules' = generated
    /\ Load(generated)
    /\ UNCHANGED pluginVars

\* loader() gives a component, or fails, or gives none: a file that has gone may
\* still be in the browser's cache.
LoadEnds(l) ==
    /\ l \in loads
    /\ loads' = loads \ {l}
    /\ view' \in IF l.cancelled THEN {view} ELSE {"component", "error"}
    /\ UNCHANGED <<pluginVars, modules>>

------------------------------------------------------------------------------
PreviewInit ==
    /\ files \in SUBSET Files
    /\ server = "setup"
    /\ events = {}
    /\ walk = {}
    /\ refreshQueued = FALSE
    /\ currentSource = Nothing
    /\ generated \in SUBSET Files
    /\ fileEdits = 0 /\ throws = 0
    /\ unheard = FALSE /\ thrown = FALSE /\ unwritten = FALSE
    /\ modules = {} /\ loads = {} /\ view = "error"

PreviewNext ==
    \/ \E f \in Files : Edit(f) \/ Reported(f)
    \/ Rescan \/ StartWatcher \/ RefreshEnds \/ RefreshThrows \/ HotUpdate
    \/ \E l \in loads : LoadEnds(l)

PreviewSpec == PreviewInit /\ [][PreviewNext]_previewVars

\* Walks end, the watcher reports, and updates reach the page.
PreviewFairness ==
    /\ WF_previewVars(StartWatcher) /\ WF_previewVars(RefreshEnds)
    /\ WF_previewVars(\E f \in Files : Reported(f))
    /\ WF_previewVars(HotUpdate) /\ WF_previewVars(\E l \in loads : LoadEnds(l))

------------------------------------------------------------------------------
(* Properties.                                                             *)

\* However changes, walks and calls overlap, a server at rest has listed every
\* file there is, unless the latest refresh threw, a list could not be written,
\* or the watcher was not ready for a change or saw none.
AtRest == ~refreshInFlight /\ events = {} /\ server = "ready"
ModuleIsCurrent ==
    AtRest /\ ~thrown /\ ~unwritten /\ ~unheard => generated = files

\* What a page shows, once nothing is on its way, comes from the module it has:
\* never from a load that an update has overtaken.
PreviewIsOfItsModule ==
    (\A l \in loads : l.cancelled) => (view = "error" \/ (Path \in modules /\ view = "component"))

\* The files, the generated module and the page agree.
PreviewAgrees == ModuleIsCurrent /\ PreviewIsOfItsModule

\* And the page comes to show what the server lists.
PageFollows == <>[](modules = generated /\ view # "nothing")
==============================================================================
