----------------------------- MODULE LiveTrades -----------------------------
(***************************************************************************)
(* The live trade feed from the engine to the screen: OrderStream together *)
(* with the WebSocket connections of its clients (index.ts) and the hook   *)
(* useLiveTrades (dashboard/src/hooks/use-live-trades.ts) at their end.    *)
(*                                                                         *)
(* A connection can break, which both ends notice, or fall silent, which   *)
(* only the server's ping can notice.  Nothing is sent again after a       *)
(* reconnection.                                                           *)
(***************************************************************************)
EXTENDS OrderStream, SequencesExt

CONSTANTS
    MaxTrades,  \* MAX_LIVE_TRADES
    MaxDrops    \* bound: connections that break, fall silent or are refused

ASSUME FeedAssumption == MaxTrades \in Nat \ {0} /\ MaxDrops \in Nat

VARIABLES
    mounted,    \* [Hooks -> BOOLEAN]: mounted.current
    socket,     \* [Hooks -> "none" | "connecting" | "open" | "closed"]; the close event is due in "closed"
    timer,      \* hooks with a reconnect timer
    connected,  \* the hooks that show "Live"
    trades,     \* [Hooks -> Seq(Updates)]: the list on the screen, newest order first
    drops       \* connections lost so far

streamVars == <<singleton, engine, relay, clients>>
hookVars   == <<mounted, socket, timer, connected, trades, drops>>
feedVars   == <<streamVars, hookVars>>

FeedTypeOK ==
    /\ version \in [Orders -> 0 .. MaxVersion]
    /\ call \in {"none", "calling", "open", "failed"}
    /\ wire \in BoundedSeq(Updates, Channel)
    /\ active \in BOOLEAN
    /\ restarts \in Nat
    /\ attempt \in Nat
    /\ calls \in Nat
    /\ health \in 0 .. calls
    /\ lookups \subseteq Updates
    /\ overlapped \subseteq Orders
    /\ listening \subseteq Hooks
    /\ alive \subseteq listening
    /\ inbox \in [Hooks -> Seq(Updates)]
    /\ mounted \in [Hooks -> BOOLEAN]
    /\ socket \in [Hooks -> {"none", "connecting", "open", "closed"}]
    /\ silent \subseteq Hooks
    /\ timer \subseteq Hooks
    /\ connected \subseteq Hooks
    /\ trades \in [Hooks -> Seq(Updates)]
    /\ drops \in 0 .. MaxDrops

------------------------------------------------------------------------------
(* The server's end of a connection.                                       *)

\* The connection is accepted: wss "connection".
Listen(h) ==
    /\ listening' = listening \cup {h}
    /\ alive' = alive \cup {h}

\* Mutant: the ping timer of a closed connection goes on.
UnlistenKeepsPinging(h) == listening' = listening \ {h} /\ UNCHANGED alive

\* The connection's "close": the listener and the ping timer go.
Unlisten(h) ==
    /\ listening' = listening \ {h}
    /\ alive' = alive \ {h}

\* The ping timer, every WS_PING_INTERVAL_MS, finds the last ping answered ...
Ping(h) ==
    /\ h \in alive
    /\ alive' = alive \ {h}
    /\ UNCHANGED <<singleton, engine, relay, listening, silent, inbox, hookVars>>

\* ... or not: terminate() closes the server's end.  Over a silent connection
\* the browser never learns of it; otherwise the pong was late.
Terminate(h) ==
    /\ h \in listening \ alive
    /\ IF h \in silent THEN UNCHANGED <<socket, drops>>
       ELSE /\ drops < MaxDrops
            /\ drops' = drops + 1
            /\ socket' = [socket EXCEPT ![h] = "closed"]
    /\ Unlisten(h)
    /\ inbox' = [inbox EXCEPT ![h] = <<>>]
    /\ UNCHANGED <<singleton, engine, relay, silent, mounted, timer, connected, trades>>

\* "pong": browsers answer a ping by themselves.
Pong(h) ==
    /\ h \in listening \ (alive \cup silent)
    /\ alive' = alive \cup {h}
    /\ UNCHANGED <<singleton, engine, relay, listening, silent, inbox, hookVars>>

------------------------------------------------------------------------------
(* The connection between the two ends.                                    *)

\* onopen.  A hook that was unmounted while it connected has closed the socket.
Open(h) ==
    /\ socket[h] = "connecting"
    /\ socket' = [socket EXCEPT ![h] = "open"]
    /\ connected' = connected \cup {h}
    /\ Listen(h)
    /\ UNCHANGED <<singleton, engine, relay, silent, inbox, mounted, timer, trades, drops>>

\* The connection is refused or breaks; onerror shows "Error".
Drop(h) ==
    /\ socket[h] \in {"connecting", "open"} /\ h \notin silent
    /\ drops < MaxDrops
    /\ drops' = drops + 1
    /\ socket' = [socket EXCEPT ![h] = "closed"]
    /\ connected' = connected \ {h}
    /\ inbox' = [inbox EXCEPT ![h] = <<>>]
    /\ Unlisten(h)
    /\ UNCHANGED <<singleton, engine, relay, silent, mounted, timer, trades>>

\* The connection falls silent.
Cut(h) ==
    /\ socket[h] = "open" /\ h \notin silent
    /\ drops < MaxDrops
    /\ drops' = drops + 1
    /\ silent' = silent \cup {h}
    /\ inbox' = [inbox EXCEPT ![h] = <<>>]
    /\ UNCHANGED <<singleton, engine, relay, listening, alive, mounted, socket, timer, connected, trades>>

------------------------------------------------------------------------------
(* The hook.                                                               *)

\* Mutant: the hook still shows "Live" after onclose.
CloseStaysLive(h) ==
    /\ socket[h] = "closed"
    /\ socket' = [socket EXCEPT ![h] = "none"]
    /\ timer' = IF mounted[h] THEN timer \cup {h} ELSE timer
    /\ UNCHANGED <<streamVars, mounted, connected, trades, drops>>

\* Mutant: onclose does not connect again.
CloseForGood(h) ==
    /\ socket[h] = "closed"
    /\ socket' = [socket EXCEPT ![h] = "none"]
    /\ connected' = IF mounted[h] THEN connected \ {h} ELSE connected
    /\ UNCHANGED <<streamVars, mounted, timer, trades, drops>>

\* onclose: a mounted hook connects again after three seconds.
Close(h) ==
    /\ socket[h] = "closed"
    /\ socket' = [socket EXCEPT ![h] = "none"]
    /\ IF mounted[h] THEN connected' = connected \ {h} /\ timer' = timer \cup {h}
                     ELSE UNCHANGED <<connected, timer>>
    /\ UNCHANGED <<streamVars, mounted, trades, drops>>

\* The timer runs connect.  When the constructor throws, the next timer stands
\* where this one did: nothing the model tells apart has changed.
Connect(h) ==
    /\ h \in timer
    /\ timer' = timer \ {h}
    /\ socket' = [socket EXCEPT ![h] = IF mounted[h] THEN "connecting" ELSE @]
    /\ UNCHANGED <<streamVars, mounted, connected, trades, drops>>

\* The list with an update in place of the entry of its order, or at its head.
Shown(list, u) ==
    LET at == SelectInSeq(list, LAMBDA t : t.order = u.order)
        longer == <<u>> \o list
    IN IF at # 0 THEN ReplaceAt(list, at, u)
       ELSE IF Len(longer) > MaxTrades THEN Front(longer) ELSE longer

\* onmessage.
Message(h) ==
    /\ socket[h] = "open" /\ inbox[h] # <<>>
    /\ inbox' = [inbox EXCEPT ![h] = Tail(@)]
    /\ trades' = [trades EXCEPT ![h] = IF mounted[h] THEN Shown(@, Head(inbox[h])) ELSE @]
    /\ UNCHANGED <<singleton, engine, relay, listening, alive, silent, mounted, socket, timer, connected, drops>>

\* The effect's clean-up.  A socket being closed answers, so the server's end
\* closes with it, unless the connection is silent.
Unmount(h) ==
    /\ mounted[h]
    /\ mounted' = [mounted EXCEPT ![h] = FALSE]
    /\ timer' = timer \ {h}
    /\ socket' = [socket EXCEPT ![h] = IF @ = "none" THEN @ ELSE "closed"]
    /\ inbox' = [inbox EXCEPT ![h] = <<>>]
    /\ IF h \in silent THEN UNCHANGED <<listening, alive>> ELSE Unlisten(h)
    /\ UNCHANGED <<singleton, engine, relay, silent, connected, trades, drops>>

------------------------------------------------------------------------------
FeedInit ==
    /\ StreamInit
    /\ mounted = [h \in Hooks |-> TRUE]
    /\ socket = [h \in Hooks |-> "connecting"]
    /\ timer = {}
    /\ connected = {}
    /\ trades = [h \in Hooks |-> <<>>]
    /\ drops = 0

ConnectionNext(h) == Ping(h) \/ Terminate(h) \/ Pong(h) \/ Open(h) \/ Drop(h) \/ Cut(h)
HookNext(h) == Close(h) \/ Connect(h) \/ Message(h) \/ Unmount(h)

FeedNext ==
    \/ StreamNext /\ UNCHANGED hookVars
    \/ \E h \in Hooks : ConnectionNext(h) \/ HookNext(h)

FeedSpec == FeedInit /\ [][FeedNext]_feedVars

\* Timers fire, an engine that is up answers, lookups end, events arrive and
\* browsers answer pings before the next one; nothing has to fail.
FeedFairness ==
    /\ WF_feedVars((Reconnect \/ Subscribe \/ Data \/ (call = "failed" /\ End)) /\ UNCHANGED hookVars)
    /\ WF_feedVars((\E u \in lookups : EnrichUpdate(u)) /\ UNCHANGED hookVars)
    /\ \A h \in Hooks : /\ WF_feedVars(Open(h) \/ Close(h) \/ Connect(h) \/ Message(h))
                        /\ WF_feedVars(Ping(h)) /\ WF_feedVars(h \in silent /\ Terminate(h))

------------------------------------------------------------------------------
(* Properties.                                                             *)

\* The feed is never left without a stream and without a restart on its way,
\* and never has two of either: _singletonActive, _reconnectTimer and the call
\* agree, however "error" and "end" fall.
FeedSupervised ==
    /\ active <=> call \in {"calling", "open"}
    /\ restarts = IF active THEN 0 ELSE 1

\* Only the call that is up, and that set the health timer itself, resets the
\* delay: "a failing stream can't accidentally reset the backoff counter",
\* not even with data that comes between its "error" and its "end".
ResetByHealthyCall ==
    [][attempt' < attempt => call = "open" /\ health = calls]_feedVars

\* A hook that shows "Live" is served, unless its connection is silent or the
\* close event is due.
LiveIsServed ==
    \A h \in connected :
        h \in listening \/ h \in silent \/ socket[h] = "closed" \/ ~mounted[h]

VersionsOf(list, o) == {t.version : t \in {x \in ToSet(list) : x.order = o}}

\* An order has one row, and the status it shows only moves forward, unless two
\* of its updates were inside enrichUpdate together: then the later lookup to
\* finish wins.
StatusMovesForward ==
    [][\A h \in Hooks, o \in Orders \ overlapped' :
        \A v \in VersionsOf(trades[h], o), w \in VersionsOf(trades'[h], o) : v <= w]_feedVars

\* What a screen shows, as OrderFeed tells it.
Feed == INSTANCE OrderFeed
          WITH Screens <- Hooks, Rows <- MaxTrades,
               mixed <- overlapped, screen <- [h \in Hooks |-> ToSet(trades[h])]

\* The feed implements OrderFeed: through lags, reconnections and lookups that end in any
\* order a screen shows published statuses only, and each step that changes it puts one
\* status in place of an older one of its order, or gives it a row, for which a full
\* screen loses another.
ImplementsFeed == Feed!FeedSpec

\* What no step of the feed may do.
FeedSteps == ResetByHealthyCall /\ StatusMovesForward /\ ImplementsFeed

\* Once calls stop failing the feed has its stream.
StreamRecovers == <>[](call = "open")

\* Once connections stop breaking, a mounted hook is served and shows it,
\* unless its connection fell silent: nothing on its side notices that.
HookRecovers ==
    \A h \in Hooks :
        <>[](~mounted[h] \/ h \in silent \/ (h \in connected /\ h \in listening))

\* The server gets rid of connections that have fallen silent, and an unmounted
\* hook leaves no listener, socket or timer behind.
NothingLeftBehind ==
    \A h \in Hooks :
        /\ h \in silent ~> h \notin listening
        /\ ~mounted[h] ~> [](h \notin listening /\ h \notin timer /\ socket[h] = "none")

\* Once nothing fails any more the feed and its hooks recover, and nothing stays
\* behind of the connections that are gone.
FeedRecovers == StreamRecovers /\ HookRecovers /\ NothingLeftBehind
==============================================================================
