----------------------------- MODULE BotControl -----------------------------
(***************************************************************************)
(* Starting and stopping the strategies: POST /bot/start, POST /bot/stop   *)
(* and PATCH /bot/strategies/:name (api-server routes/bot.ts).  The routes *)
(* call Python for one strategy after the other and give each call four    *)
(* seconds; Python may still carry out a call that the route has given up. *)
(* Whether a strategy is enabled is kept in Python's memory only.          *)
(***************************************************************************)
EXTENDS Naturals, Sequences, FiniteSets

CONSTANTS
    Names,      \* the strategies' names, in the order setAllStrategies takes them
    Requests,   \* requests to the routes
    MaxDeaths   \* bound: Python dies

ASSUME BotAssumption ==
    /\ Names \in Seq(STRING) /\ Len(Names) > 0
    /\ MaxDeaths \in Nat

VARIABLES
    enabled,    \* strategies with enabled set
    running,    \* Python runs
    deaths,
    todo,       \* [Requests -> Seq of names]: the calls a request has still to make
    stage,      \* [Requests -> "new" | "calling" | "waiting" | "done"]
    target,     \* [Requests -> BOOLEAN]: enabled, in the body of its calls
    succeeded,  \* [Requests -> Nat]: calls that Python answered
    messages,   \* calls that Python has not yet handled: [request, name]
    late,       \* of those, the ones their request no longer waits for
    alone,      \* history variable: the last request, if nothing has disturbed it since it began
    carried,    \* history variable: requests Python has carried out a call of
    outlived    \* history variable: requests a call of which was not answered in time

history == <<alone, carried, outlived>>
botVars == <<enabled, running, deaths, todo, stage, target, succeeded, messages, late, history>>

Strategies == {Names[i] : i \in 1 .. Len(Names)}
Calls      == [request : Requests, name : Strategies]

BotTypeOK ==
    /\ enabled \subseteq Strategies
    /\ running \in BOOLEAN
    /\ deaths \in 0 .. MaxDeaths
    /\ todo \in [Requests -> Seq(Strategies)]
    /\ stage \in [Requests -> {"new", "calling", "waiting", "done"}]
    /\ target \in [Requests -> BOOLEAN]
    /\ succeeded \in [Requests -> 0 .. Len(Names)]
    /\ messages \subseteq Calls
    /\ late \subseteq messages
    /\ alone \cup carried \cup outlived \subseteq Requests

------------------------------------------------------------------------------
\* setAllStrategies: the names come from Python, or are the same two by default.
\* PATCH makes the one call for its strategy.
Begin(r, names, on) ==
    /\ stage[r] = "new"
    /\ stage' = [stage EXCEPT ![r] = "calling"]
    /\ todo' = [todo EXCEPT ![r] = names]
    /\ target' = [target EXCEPT ![r] = on]
    /\ alone' = IF messages = {} /\ \A q \in Requests : stage[q] \in {"new", "done"} THEN {r} ELSE {}
    /\ UNCHANGED <<enabled, running, deaths, succeeded, messages, late, carried, outlived>>

BotStart(r) == Begin(r, Names, TRUE)
BotStop(r)  == Begin(r, Names, FALSE)
PatchStrategy(r, name, on) == Begin(r, <<name>>, on)

\* fetchPython: the next call is on its way ...
CallPython(r) ==
    /\ stage[r] = "calling" /\ todo[r] # <<>> /\ running
    /\ messages' = messages \cup {[request |-> r, name |-> Head(todo[r])]}
    /\ stage' = [stage EXCEPT ![r] = "waiting"]
    /\ UNCHANGED <<enabled, running, deaths, todo, target, succeeded, late, history>>

\* ... or is refused, Python being down.
Refused(r) ==
    /\ stage[r] = "calling" /\ todo[r] # <<>> /\ ~running
    /\ todo' = [todo EXCEPT ![r] = Tail(@)]
    /\ UNCHANGED <<enabled, running, deaths, stage, target, succeeded, messages, late, history>>

\* The call of a waiting request is over, with an answer or without: the next one.
NextCall(r, answered) ==
    /\ todo' = [todo EXCEPT ![r] = Tail(@)]
    /\ stage' = [stage EXCEPT ![r] = "calling"]
    /\ succeeded' = [succeeded EXCEPT ![r] = IF answered THEN @ + 1 ELSE @]

\* Python carries a call out, and answers whoever still waits: in time, or not.
Activate(m) ==
    /\ m \in messages
    /\ messages' = messages \ {m}
    /\ late' = late \ {m}
    /\ enabled' = IF target[m.request] THEN enabled \cup {m.name} ELSE enabled \ {m.name}
    /\ carried' = carried \cup {m.request}
    /\ \/ /\ m \in late
          /\ alone' = {}
          /\ UNCHANGED <<todo, stage, succeeded, outlived>>
       \/ /\ m \notin late
          /\ \E inTime \in BOOLEAN :
                /\ NextCall(m.request, inTime)
                /\ outlived' = IF inTime THEN outlived ELSE outlived \cup {m.request}
          /\ UNCHANGED alone
    /\ UNCHANGED <<running, deaths, target>>

\* AbortSignal.timeout(4000): Python has not come to it.
TimesOut(m) ==
    /\ m \in messages \ late
    /\ late' = late \cup {m}
    /\ outlived' = outlived \cup {m.request}
    /\ NextCall(m.request, FALSE)
    /\ UNCHANGED <<enabled, running, deaths, target, messages, alone, carried>>

\* The answer.
Finish(r) ==
    /\ stage[r] = "calling" /\ todo[r] = <<>>
    /\ stage' = [stage EXCEPT ![r] = "done"]
    /\ UNCHANGED <<enabled, running, deaths, todo, target, succeeded, messages, late, history>>

Success(r) == succeeded[r] > 0

\* Python dies, and the calls to it fail ...
PythonCrashes ==
    /\ running
    /\ deaths < MaxDeaths
    /\ deaths' = deaths + 1
    /\ running' = FALSE
    /\ LET waiting == {m.request : m \in messages \ late}
       IN /\ todo' = [r \in Requests |-> IF r \in waiting THEN Tail(todo[r]) ELSE todo[r]]
          /\ stage' = [r \in Requests |-> IF r \in waiting THEN "calling" ELSE stage[r]]
    /\ messages' = {}
    /\ late' = {}
    /\ alone' = {}
    /\ UNCHANGED <<enabled, target, succeeded, carried, outlived>>

\* ... and starts again, with every strategy enabled.
PythonStarts ==
    /\ ~running
    /\ running' = TRUE
    /\ enabled' = Strategies
    /\ alone' = {}
    /\ UNCHANGED <<deaths, todo, stage, target, succeeded, messages, late, carried, outlived>>

------------------------------------------------------------------------------
BotInit ==
    /\ enabled = Strategies
    /\ running = TRUE
    /\ deaths = 0
    /\ todo = [r \in Requests |-> <<>>]
    /\ stage = [r \in Requests |-> "new"]
    /\ target = [r \in Requests |-> FALSE]
    /\ succeeded = [r \in Requests |-> 0]
    /\ messages = {}
    /\ late = {}
    /\ alone = {} /\ carried = {} /\ outlived = {}

BotNext ==
    \/ \E r \in Requests : BotStart(r) \/ BotStop(r) \/ CallPython(r) \/ Refused(r) \/ Finish(r)
    \/ \E r \in Requests, name \in Strategies, on \in BOOLEAN : PatchStrategy(r, name, on)
    \/ \E m \in messages : Activate(m) \/ TimesOut(m)
    \/ PythonCrashes \/ PythonStarts

BotSpec == BotInit /\ [][BotNext]_botVars

\* The API works through its requests; a call ends, if only by its timeout.
BotFairness ==
    \A r \in Requests :
        /\ WF_botVars(CallPython(r) \/ Refused(r) \/ Finish(r))
        /\ WF_botVars(\E m \in messages : m.request = r /\ (Activate(m) \/ TimesOut(m)))

------------------------------------------------------------------------------
(* Properties.                                                             *)

\* A start or stop that nothing disturbed and whose calls were all answered has
\* switched every strategy, and it stays so until the next request.
StopAllStops ==
    \A r \in alone :
        stage[r] = "done" /\ succeeded[r] = Len(Names) =>
            enabled = IF target[r] THEN Strategies ELSE {}

\* Who is told that no call succeeded ("Python engine unreachable") finds that
\* Python has carried none out, unless one was not answered in time.
FailureIsHonest ==
    \A r \in Requests \ outlived :
        stage[r] = "done" => (r \in carried <=> Success(r))

\* Every request is answered.
RequestsAnswered ==
    \A r \in Requests : stage[r] = "calling" ~> stage[r] = "done"
==============================================================================
