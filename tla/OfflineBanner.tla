---------------------------- MODULE OfflineBanner ----------------------------
(***************************************************************************)
(* The banner "API server offline" (dashboard OfflineBanner.tsx), which    *)
(* keeps a WebSocket of its own open to know.  connect() closes the socket *)
(* it replaces, but leaves it its handlers: its close event comes later,   *)
(* and connects again.  The layout mounts the banner once, for good.       *)
(***************************************************************************)
EXTENDS Naturals, FiniteSets

CONSTANTS
    Sockets,     \* bound: names for sockets; a name is free again after its close event
    NoSocket,
    MaxLosses,   \* bound: connections that are refused or lost
    MaxRetries   \* bound: clicks on Retry

ASSUME BannerAssumption == {MaxLosses, MaxRetries} \subseteq Nat

VARIABLES
    probe,       \* [Sockets -> "none" | "connecting" | "open" | "closing"]
    wsRef,       \* wsRef.current
    waiting,     \* reconnect timers that are set
    held,        \* timerRef.current is one of them: the newest
    connState,   \* "connecting", "online" or "offline"
    dismissed,
    losses,
    retries,
    overlapped   \* history variable: connect() closed a socket that had not had its close event

bannerVars == <<probe, wsRef, waiting, held, connState, dismissed, losses, retries, overlapped>>

BannerTypeOK ==
    /\ probe \in [Sockets -> {"none", "connecting", "open", "closing"}]
    /\ wsRef \in Sockets \cup {NoSocket}
    /\ waiting \in Nat
    /\ held \in BOOLEAN
    /\ connState \in {"connecting", "online", "offline"}
    /\ dismissed \in BOOLEAN
    /\ losses \in 0 .. MaxLosses
    /\ retries \in 0 .. MaxRetries
    /\ overlapped \in BOOLEAN

\* connect(): a closed socket keeps its place in wsRef, and closing it again
\* does nothing.  MaxRetries + 2 names are enough for one to be free.
Reprobe ==
    LET closed == [s \in Sockets |->
                    IF s = wsRef /\ probe[s] # "none" THEN "closing" ELSE probe[s]]
        free   == {s \in Sockets : probe[s] = "none"} \ {wsRef}
        new    == CHOOSE s \in free : TRUE
    IN /\ free # {}
       /\ probe' = [closed EXCEPT ![new] = "connecting"]
       /\ wsRef' = new
       /\ overlapped' = (overlapped \/ closed # probe)

\* Mutant: a dismissed banner stays as it is.
ProbeOpensUnlessDismissed(s) ==
    /\ probe[s] = "connecting"
    /\ probe' = [probe EXCEPT ![s] = "open"]
    /\ connState' = IF dismissed THEN connState ELSE "online"
    /\ UNCHANGED <<wsRef, waiting, held, dismissed, losses, retries, overlapped>>

\* onopen.
ProbeOpens(s) ==
    /\ probe[s] = "connecting"
    /\ probe' = [probe EXCEPT ![s] = "open"]
    /\ connState' = "online"
    /\ dismissed' = FALSE
    /\ UNCHANGED <<wsRef, waiting, held, losses, retries, overlapped>>

\* onclose: the timer replaces the one in timerRef without clearing it.
OnClose(s) ==
    /\ probe' = [probe EXCEPT ![s] = "none"]
    /\ connState' = "offline"
    /\ waiting' = waiting + 1
    /\ held' = TRUE

\* The connection is refused or lost: "error" and "close" come together.
ProbeFails(s) ==
    /\ probe[s] \in {"connecting", "open"}
    /\ losses < MaxLosses
    /\ losses' = losses + 1
    /\ OnClose(s)
    /\ UNCHANGED <<wsRef, dismissed, retries, overlapped>>

\* A socket that connect() closed has its close event.
ProbeCloses(s) ==
    /\ probe[s] = "closing"
    /\ OnClose(s)
    /\ UNCHANGED <<wsRef, dismissed, losses, retries, overlapped>>

\* A timer, the oldest, after RECONNECT_DELAY_MS: long enough for close events to
\* come first.
Reconnects ==
    /\ waiting > 0
    /\ \A s \in Sockets : probe[s] # "closing"
    /\ waiting' = waiting - 1
    /\ held' = (held /\ waiting > 1)
    /\ Reprobe
    /\ UNCHANGED <<connState, dismissed, losses, retries>>

\* The buttons of the banner: clearTimer(), which clears the timer that is held,
\* and connect(), or away with it.
ShowBanner == connState = "offline" /\ ~dismissed

Retry ==
    /\ ShowBanner
    /\ retries < MaxRetries
    /\ retries' = retries + 1
    /\ waiting' = IF held THEN waiting - 1 ELSE waiting
    /\ held' = FALSE
    /\ Reprobe
    /\ UNCHANGED <<connState, dismissed, losses>>

DismissBanner ==
    /\ ShowBanner
    /\ dismissed' = TRUE
    /\ UNCHANGED <<probe, wsRef, waiting, held, connState, losses, retries, overlapped>>

BannerInit ==
    /\ wsRef \in Sockets
    /\ probe = [s \in Sockets |-> IF s = wsRef THEN "connecting" ELSE "none"]
    /\ waiting = 0
    /\ held = FALSE
    /\ connState = "connecting"
    /\ dismissed = FALSE
    /\ losses = 0
    /\ retries = 0
    /\ overlapped = FALSE

Settle == Reconnects \/ \E s \in Sockets : ProbeOpens(s) \/ ProbeCloses(s)

BannerNext == Settle \/ Retry \/ DismissBanner \/ \E s \in Sockets : ProbeFails(s)

\* Handlers and timers run, and a server that is up accepts.
BannerFairness == WF_bannerVars(Settle)

BannerSpec == BannerInit /\ [][BannerNext]_bannerVars /\ BannerFairness

------------------------------------------------------------------------------
(* Properties.                                                             *)

\* However timers and clicks fall there is one probe: every socket but the one
\* in wsRef is closed or closing.
OneProbe == \A s \in Sockets : probe[s] \in {"connecting", "open"} => s = wsRef

\* The banner is never left without a probe and without one to come.
ProbeContinues == waiting > 0 \/ \E s \in Sockets : probe[s] # "none"

\* As long as no click on Retry closed a socket that was still connecting, the
\* banner is gone while the connection is up and only then.
BannerIsRight ==
    ~overlapped => (connState = "online" <=> \E s \in Sockets : probe[s] = "open")

\* The banner always has its one probe or is about to have it, and shows what the
\* probe found.
BannerKnows == OneProbe /\ ProbeContinues /\ BannerIsRight

\* Once nothing is lost any more the connection is up and the banner gone, unless a
\* click on Retry has closed a socket that was still connecting.
HidesForGood == <>[](overlapped \/ connState = "online")

\* After such a click every timer closes the socket that the one before it opened,
\* whose close event sets the next timer: the banner comes back for ever, though the
\* server is up.
FlapsForEver == overlapped ~> []<>(connState = "offline")

\* "Hides when reconnected" is so exactly as long as no such click was made.
BannerHides == HidesForGood /\ FlapsForEver
==============================================================================
