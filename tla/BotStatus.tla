------------------------------ MODULE BotStatus ------------------------------
(***************************************************************************)
(* The status the dashboard shows, and the button under it (Dashboard.tsx).*)
(* GET /bot/status (api-server routes/bot.ts) asks Python twice, first     *)
(* whether it is there and then for its strategies; the page polls the     *)
(* route, and asks at once after a start or stop that succeeded.  What the *)
(* button does depends on the status shown.  BotControl is what it acts on.*)
(***************************************************************************)
EXTENDS BotControl

CONSTANTS
    PageRequests,  \* the requests the page makes; others make the rest
    NoRequest,
    MaxFaults      \* bound: probes that time out, answers that are lost

ASSUME StatusAssumption ==
    /\ NoRequest \notin Requests
    /\ MaxFaults \in Nat

VARIABLES
    query,      \* the status query: "idle", or how far its fetch is: "sent", "listed"
    retried,    \* the fetch is the retry
    listed,     \* activeStrategies, of the fetch
    status,     \* activeStrategies of the status that is shown
    loaded,     \* there is a status to show
    pressed,    \* the request of the start or stop that is pending
    faults,
    clean,      \* history variable: the latest fetch met no fault
    acked       \* history variable: the latest request of the page that was reported
                \* successful, if it had the status fetched anew

statusVars == <<query, retried, listed, status, loaded, pressed, faults, clean, acked>>

StatusTypeOK ==
    /\ BotTypeOK
    /\ query \in {"idle", "sent", "listed"}
    /\ {retried, loaded, clean} \subseteq BOOLEAN
    /\ {listed, status} \subseteq SUBSET Strategies
    /\ pressed \in Requests \cup {NoRequest}
    /\ faults \in 0 .. MaxFaults
    /\ acked \subseteq Requests

Fault == faults < MaxFaults /\ faults' = faults + 1 /\ clean' = FALSE
NoFault == UNCHANGED <<faults, clean>>

------------------------------------------------------------------------------
(* The fetch.                                                              *)

FetchAnew ==
    /\ query' = "sent"
    /\ retried' = FALSE
    /\ listed' = {}
    /\ clean' = TRUE

\* refetchInterval, or the first time.
Poll ==
    /\ query = "idle"
    /\ FetchAnew
    /\ UNCHANGED <<status, loaded, pressed, faults, acked, botVars>>

\* Both probes of Python: it is down or does not answer within four seconds, or
\* these are its active strategies.
ProbePython ==
    /\ query = "sent"
    /\ query' = "listed"
    /\ \/ listed' = (IF running THEN enabled ELSE {}) /\ NoFault
       \/ listed' = {} /\ running /\ Fault
    /\ UNCHANGED <<retried, status, loaded, pressed, acked, botVars>>

StatusArrives ==
    /\ query = "listed"
    /\ query' = "idle"
    /\ status' = listed
    /\ listed' = {}
    /\ retried' = FALSE
    /\ loaded' = TRUE
    /\ UNCHANGED <<pressed, faults, clean, acked, botVars>>

\* The request fails: it is tried again once, then what was shown stays.
StatusFails ==
    /\ query # "idle"
    /\ Fault
    /\ query' = IF retried THEN "idle" ELSE "sent"
    /\ retried' = ~retried
    /\ listed' = {}
    /\ UNCHANGED <<status, loaded, pressed, acked, botVars>>

------------------------------------------------------------------------------
(* The button: "Stop Bot" while strategies are shown as active.  It is     *)
(* disabled while a start or stop is pending.                              *)

isRunning == status # {}

Press(r) ==
    /\ r \in PageRequests /\ pressed = NoRequest
    /\ IF isRunning THEN BotStop(r) ELSE BotStart(r)
    /\ pressed' = r
    /\ UNCHANGED <<query, retried, listed, status, loaded, faults, clean, acked>>

\* Mutant: a fetch that is running is good enough.
InvalidateKeepsFetch ==
    IF query = "idle" THEN FetchAnew
                      ELSE UNCHANGED <<query, retried, listed, clean>>

\* invalidateQueries: a fetch that is running is dropped for a new one, except
\* for the very first, which goes on.
Invalidate ==
    IF query = "idle" \/ loaded THEN FetchAnew
                                ELSE UNCHANGED <<query, retried, listed, clean>>

\* onSuccess.
Answered ==
    /\ pressed # NoRequest /\ stage[pressed] = "done"
    /\ pressed' = NoRequest
    /\ IF Success(pressed)
         THEN /\ Invalidate
              /\ acked' = IF query = "idle" \/ loaded THEN {pressed} ELSE {}
         ELSE UNCHANGED <<query, retried, listed, clean, acked>>
    /\ UNCHANGED <<status, loaded, faults, botVars>>

\* onError: nothing is asked again.
AnswerLost ==
    /\ pressed # NoRequest /\ stage[pressed] # "new"
    /\ faults < MaxFaults
    /\ faults' = faults + 1
    /\ pressed' = NoRequest
    /\ UNCHANGED <<query, retried, listed, status, loaded, clean, acked, botVars>>

------------------------------------------------------------------------------
StatusInit ==
    /\ BotInit
    /\ query = "idle"
    /\ retried = FALSE
    /\ listed = {}
    /\ status = {}
    /\ loaded = FALSE
    /\ pressed = NoRequest
    /\ faults = 0
    /\ clean = TRUE
    /\ acked = {}

Refresh == Poll \/ ProbePython \/ StatusArrives

Others ==
    /\ BotNext
    /\ \A r \in PageRequests : stage[r] = "new" => stage'[r] = "new"
    /\ UNCHANGED statusVars

StatusNext ==
    \/ Others
    \/ Refresh \/ StatusFails \/ Answered \/ AnswerLost
    \/ \E r \in Requests : Press(r)

StatusSpec == StatusInit /\ [][StatusNext]_<<botVars, statusVars>>

\* The interval fires and fetches end; answers reach the page.
StatusFairness ==
    /\ BotFairness
    /\ WF_<<botVars, statusVars>>(Refresh)
    /\ WF_<<botVars, statusVars>>(Answered)

------------------------------------------------------------------------------
(* Properties.                                                             *)

\* Once a start or stop that switched every strategy was reported, a page at
\* rest never shows what was read before it, whichever poll was on its way:
\* its button offers the opposite.
ShownAfterControl ==
    \A r \in alone \cap acked :
        query = "idle" /\ clean /\ succeeded[r] = Len(Names) =>
            status = IF target[r] THEN Strategies ELSE {}

\* What operators are told about a start or stop, by its answer or by the page,
\* is what Python has done.
BotObeys == StopAllStops /\ FailureIsHonest /\ ShownAfterControl

\* When starts, stops and faults come to an end the page shows what is active.
StatusConverges == <>[](status = IF running THEN enabled ELSE {})
==============================================================================
