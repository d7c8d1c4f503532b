------------------------------ MODULE AdminKey ------------------------------
(***************************************************************************)
(* The admin key in the dashboard: the module-level cache of               *)
(* use-admin-key.ts, and the cards that ask for the key (WalletCard in     *)
(* Wallets.tsx, WalletPresetCard in Strategies.tsx, StrategyPresetCard in  *)
(* Settings.tsx), which follow one pattern and share the cache.            *)
(*                                                                         *)
(* A click applies the card's action with the cached key, or opens a       *)
(* prompt.  What is typed into the prompt is the cache itself.  Timers may *)
(* be late, answers come in any order, and Enter in the prompt sends again *)
(* whatever is pending: react-query then forgets the earlier request but   *)
(* still runs its callbacks, with the values of the render before.         *)
(***************************************************************************)
EXTENDS Integers, FiniteSets

CONSTANTS
    Cards,       \* mounted cards
    ShortTTL,    \* of setAdminKey
    HourTTL,     \* HOUR_MS, of rememberAdminKey
    MaxTime      \* bound: the clock

ASSUME KeyAssumption ==
    /\ ShortTTL \in Nat \ {0}
    /\ HourTTL \in Nat /\ HourTTL > ShortTTL
    /\ MaxTime \in Nat

VARIABLES
    now,         \* Date.now()
    cachedKey,   \* _cachedKey
    cacheExpiry, \* _cacheExpiry
    timers,      \* when the expiry timers that are set are due
    shown,       \* [Cards -> Keys]: adminKey, the state of each card's hook
    prompt,      \* [Cards -> BOOLEAN]: showKeyPrompt, pendingPreset # null
    remember,    \* [Cards -> BOOLEAN]: rememberKey
    current,     \* [Cards -> Requests \cup {NoRequest}]: the mutation the card observes
    superseded   \* requests whose card has sent another since

cache    == <<cachedKey, cacheExpiry, timers, shown>>
cards    == <<prompt, remember, current, superseded>>
keyVars  == <<now, cache, cards>>

NoKey     == ""
Typed     == {"half", "whole"}   \* what a prompt may hold; the server accepts "whole"
Keys      == Typed \cup {NoKey}
\* prompt and remember: the values the request's callbacks see, once superseded
Requests  == [card : Cards, key : Typed, prompt : BOOLEAN, remember : BOOLEAN]
NoRequest == [key |-> NoKey]

KeyTypeOK ==
    /\ now \in 0 .. MaxTime
    /\ cachedKey \in Keys
    /\ cacheExpiry \in Nat
    /\ timers \subseteq Nat
    /\ shown \in [Cards -> Keys]
    /\ prompt \in [Cards -> BOOLEAN]
    /\ remember \in [Cards -> BOOLEAN]
    /\ current \in [Cards -> Requests \cup {NoRequest}]
    /\ superseded \subseteq Requests

------------------------------------------------------------------------------
(* The cache.                                                              *)

\* getValidAdminKey: what a read of the cache returns, and leaves behind.
Readable == IF now < cacheExpiry THEN cachedKey ELSE NoKey
ReadKey  == cachedKey' = Readable /\ cacheExpiry' = IF Readable = NoKey THEN 0 ELSE cacheExpiry

\* Mutant: the timer that is set is not cleared.
ScheduleExpiryTwice(ttl) == timers' = timers \cup {now + ttl}

\* scheduleExpiry: one timer takes the place of the other.
ScheduleExpiry(ttl) == timers' = {now + ttl}

\* setAdminKey and rememberAdminKey with a key; broadcast reaches every card.
Store(key, ttl) ==
    /\ cachedKey' = key
    /\ cacheExpiry' = now + ttl
    /\ ScheduleExpiry(ttl)
    /\ shown' = [c \in Cards |-> key]

\* clearAdminKey, and setAdminKey with an empty key.
ClearAdminKey ==
    /\ cachedKey' = NoKey
    /\ cacheExpiry' = 0
    /\ timers' = {}
    /\ shown' = [c \in Cards |-> NoKey]

\* The expiry timer.
Expire(due) ==
    /\ due \in timers /\ due <= now
    /\ cachedKey' = NoKey
    /\ cacheExpiry' = 0
    /\ timers' = timers \ {due}
    /\ shown' = [c \in Cards |-> NoKey]
    /\ UNCHANGED <<now, cards>>

------------------------------------------------------------------------------
(* The cards.                                                              *)

IsPending(c) == current[c] # NoRequest

\* mutate: the request that is pending loses its observer, and its callbacks
\* keep the values of the last render.
Mutate(c, key) ==
    /\ current' = [current EXCEPT ![c] = [card |-> c, key |-> key, prompt |-> FALSE, remember |-> FALSE]]
    /\ superseded' = superseded \cup
         {[r EXCEPT !.prompt = prompt[c], !.remember = remember[c]] : r \in {current[c]} \ {NoRequest}}

\* The action is clicked: with a key that is still good it is applied at once.
Click(c) ==
    /\ ~prompt[c] /\ ~IsPending(c)
    /\ ReadKey
    /\ IF Readable # NoKey
         THEN Mutate(c, Readable) /\ UNCHANGED prompt
         ELSE prompt' = [prompt EXCEPT ![c] = TRUE] /\ UNCHANGED <<current, superseded>>
    /\ UNCHANGED <<now, timers, shown, remember>>

\* A key stroke in the prompt.
Type(c, key) ==
    /\ prompt[c]
    /\ IF key = NoKey THEN ClearAdminKey ELSE Store(key, ShortTTL)
    /\ UNCHANGED <<now, cards>>

\* Enter, and the button, which needs that nothing is pending.  Both send what
\* the card shows.
Confirm(c) ==
    /\ prompt[c] /\ shown[c] # NoKey
    /\ \A r \in superseded : r.card # c   \* bound: one superseded request per card
    /\ Mutate(c, shown[c])
    /\ UNCHANGED <<now, cache, prompt, remember>>

\* Escape, or the cross.
Dismiss(c) ==
    /\ prompt[c]
    /\ prompt' = [prompt EXCEPT ![c] = FALSE]
    /\ remember' = [remember EXCEPT ![c] = FALSE]
    /\ ClearAdminKey
    /\ UNCHANGED <<now, current, superseded>>

\* The checkbox "Remember for 1 hour".
ToggleRemember(c) ==
    /\ prompt[c]
    /\ remember' = [remember EXCEPT ![c] = ~@]
    /\ UNCHANGED <<now, cache, prompt, current, superseded>>

\* Mutant: whether the prompt is still open is not asked.
OnSuccessAnyway(c, key, prompted, ticked) ==
    /\ key = "whole"
    /\ IF ticked \/ ~prompted THEN Store(key, HourTTL) ELSE ClearAdminKey
    /\ prompt' = [prompt EXCEPT ![c] = FALSE]
    /\ UNCHANGED <<now, remember>>

\* onSuccess, with the card's prompt and checkbox as the callback sees them.
OnSuccess(c, key, prompted, ticked) ==
    /\ key = "whole"
    /\ IF ~prompted THEN UNCHANGED cache
       ELSE IF ticked THEN Store(key, HourTTL) ELSE ClearAdminKey
    /\ prompt' = [prompt EXCEPT ![c] = FALSE]
    /\ UNCHANGED <<now, remember>>

\* onError: a wrong key, or any other failure.
OnError(c) ==
    /\ ClearAdminKey
    /\ remember' = [remember EXCEPT ![c] = FALSE]
    /\ UNCHANGED <<now, prompt>>

\* The answer to the request the card observes ...
Answer(c) ==
    /\ IsPending(c)
    /\ current' = [current EXCEPT ![c] = NoRequest]
    /\ OnSuccess(c, current[c].key, prompt[c], remember[c]) \/ OnError(c)
    /\ UNCHANGED superseded

\* ... or to one that was superseded.
LateAnswer(r) ==
    /\ superseded' = superseded \ {r}
    /\ OnSuccess(r.card, r.key, r.prompt, r.remember) \/ OnError(r.card)
    /\ UNCHANGED current

Tick == now < MaxTime /\ now' = now + 1 /\ UNCHANGED <<cache, cards>>

------------------------------------------------------------------------------
KeyInit ==
    /\ now = 0
    /\ cachedKey = NoKey
    /\ cacheExpiry = 0
    /\ timers = {}
    /\ shown = [c \in Cards |-> NoKey]
    /\ prompt = [c \in Cards |-> FALSE]
    /\ remember = [c \in Cards |-> FALSE]
    /\ current = [c \in Cards |-> NoRequest]
    /\ superseded = {}

KeyNext ==
    \/ Tick
    \/ \E due \in timers : Expire(due)
    \/ \E c \in Cards : Click(c) \/ Confirm(c) \/ Dismiss(c) \/ ToggleRemember(c) \/ Answer(c)
    \/ \E c \in Cards, key \in Keys : Type(c, key)
    \/ \E r \in superseded : LateAnswer(r)

KeySpec == KeyInit /\ [][KeyNext]_keyVars

------------------------------------------------------------------------------
(* Properties.                                                             *)

\* A key in the cache has an end: the one timer that is set is due when the key
\* expires, so a key is wiped neither early, by the timer of another, nor never.
KeyEnds ==
    /\ cachedKey # NoKey => timers = {cacheExpiry}
    /\ Cardinality(timers) <= 1

\* Every card shows the key in the cache, except one that expired whose timer is late.
CardsShowTheCache ==
    \A c \in Cards :
        shown[c] # cachedKey => cachedKey = NoKey /\ \E due \in timers : due <= now

\* Without a prompt nothing but a key that has not expired is sent.
AutoSendsFreshKey ==
    [][\A c \in Cards :
        (~IsPending(c) /\ IsPending(c)' /\ ~prompt[c]) =>
            now < cacheExpiry /\ current'[c].key = cachedKey]_keyVars

\* A key that was dismissed or refused stays gone while no prompt is open:
\* answers that come later do not bring it back, unless Enter was pressed twice.
NothingRevives ==
    [][(cachedKey = NoKey /\ cachedKey' # NoKey) =>
        superseded # {} \/ \E c \in Cards : prompt[c]]_keyVars

\* Only a key the server has accepted is kept for longer than ShortTTL, though
\* another may have been typed before the answer came.
OnlyAcceptedKeysStay == cacheExpiry > now + ShortTTL => cachedKey = "whole"

\* The key in the cache is the one on the screen, has one end, and only if it was
\* accepted a late one.
KeyIsKept == KeyEnds /\ CardsShowTheCache /\ OnlyAcceptedKeysStay
==============================================================================
