---------------------------- MODULE ClientProofs ----------------------------
(***************************************************************************)
(* Proofs about what stands between the operator or the strategies and the *)
(* engine: AdminKey, OrderSubmission, TradesPage, OfflineBanner,           *)
(* MockupPreview, SettingsPage and Toast, for any cards, signals, orders,  *)
(* sockets, files and settings, any times and every bound.                 *)
(***************************************************************************)
EXTENDS MCClients, FoldLemmas, FiniteSetTheorems, SequenceTheorems, TLAPS

------------------------------------------------------------------------------
(* AdminKey.                                                               *)

\* What the module-level cache of use-admin-key.ts keeps to, whoever calls it.
CacheInv ==
    /\ now \in Nat
    /\ cacheExpiry \in Nat
    /\ cachedKey \in Keys
    /\ shown \in [Cards -> Keys]
    /\ timers \subseteq Nat
    /\ \A s, t \in timers : s = t
    /\ cachedKey # NoKey => timers = {cacheExpiry}
    /\ CardsShowTheCache
    /\ OnlyAcceptedKeysStay

\* What the hooks of the cards keep to.
CardsInv ==
    /\ prompt \in [Cards -> BOOLEAN]
    /\ remember \in [Cards -> BOOLEAN]
    /\ current \in [Cards -> Requests \cup {NoRequest}]
    /\ superseded \subseteq Requests

\* setAdminKey and rememberAdminKey: any key may stay for ShortTTL, only an accepted
\* one for longer.
LEMMA StoreKeeps ==
  ASSUME CacheInv, NEW key \in Typed, NEW ttl \in {ShortTTL, HourTTL},
         ttl = ShortTTL \/ key = "whole", Store(key, ttl), now' = now
  PROVE  CacheInv'
<1>1. ttl \in Nat /\ ShortTTL \in Nat
  BY KeyAssumption
<1>2. now' \in Nat /\ cacheExpiry' = now + ttl /\ cacheExpiry' \in Nat
  BY <1>1 DEF Store, CacheInv
<1>3. cachedKey' = key /\ key \in Keys /\ timers' = {cacheExpiry'}
  BY <1>2 DEF Store, ScheduleExpiry, Keys
<1>4. shown' = [c \in Cards |-> key]
  BY DEF Store
<1>5. OnlyAcceptedKeysStay'
  BY <1>1, <1>2, <1>3 DEF OnlyAcceptedKeysStay, CacheInv
<1> QED BY <1>2, <1>3, <1>4, <1>5 DEF CacheInv, CardsShowTheCache

\* clearAdminKey empties memory and storage together.
LEMMA ClearKeeps ==
  ASSUME CacheInv, ClearAdminKey, now' = now
  PROVE  CacheInv'
<1>1. OnlyAcceptedKeysStay'
  BY KeyAssumption DEF ClearAdminKey, OnlyAcceptedKeysStay, CacheInv
<1> QED BY <1>1 DEF ClearAdminKey, CacheInv, CardsShowTheCache, Keys, NoKey

\* A read of the cache may find the key expired before its timer ran.
LEMMA ReadKeeps ==
  ASSUME CacheInv, ReadKey, UNCHANGED <<now, timers, shown>>
  PROVE  CacheInv'
<1>1. CASE Readable = NoKey
  <2>1. cachedKey' = NoKey /\ cacheExpiry' = 0
    BY <1>1 DEF ReadKey
  <2>2. cachedKey # NoKey => \E due \in timers : due <= now
    BY <1>1 DEF Readable, CacheInv
  <2>3. CardsShowTheCache'
    BY <2>1, <2>2 DEF CacheInv, CardsShowTheCache
  <2>4. OnlyAcceptedKeysStay'
    BY <2>1, KeyAssumption DEF CacheInv, OnlyAcceptedKeysStay
  <2> QED BY <2>1, <2>3, <2>4 DEF CacheInv, Keys
<1>2. CASE Readable # NoKey
  <2>1. UNCHANGED <<cachedKey, cacheExpiry>>
    BY <1>2 DEF ReadKey, Readable
  <2> QED BY <2>1 DEF CacheInv, CardsShowTheCache, OnlyAcceptedKeysStay
<1> QED BY <1>1, <1>2

\* An answer, to the request the card observes or to one it superseded.
LEMMA CallbackKeeps ==
  ASSUME CacheInv, NEW c \in Cards, NEW key \in Typed, NEW prompted \in BOOLEAN, NEW ticked \in BOOLEAN,
         OnSuccess(c, key, prompted, ticked) \/ OnError(c)
  PROVE  CacheInv'
<1>1. now' = now
  BY DEF OnSuccess, OnError
<1>2. \/ UNCHANGED cache
      \/ ClearAdminKey
      \/ key = "whole" /\ Store(key, HourTTL)
  BY DEF OnSuccess, OnError
<1>3. CASE UNCHANGED cache
  BY <1>1, <1>3 DEF cache, CacheInv, CardsShowTheCache, OnlyAcceptedKeysStay
<1> QED BY <1>1, <1>2, <1>3, ClearKeeps, StoreKeeps

\* mutate: what is sent, and what is kept of the request before.
LEMMA MutateKeeps ==
  ASSUME CardsInv, NEW c \in Cards, NEW key \in Typed, Mutate(c, key)
  PROVE  current' \in [Cards -> Requests \cup {NoRequest}] /\ superseded' \subseteq Requests
<1>1. [card |-> c, key |-> key, prompt |-> FALSE, remember |-> FALSE] \in Requests
  BY DEF Requests
<1>2. current' \in [Cards -> Requests \cup {NoRequest}]
  BY <1>1 DEF Mutate, CardsInv
<1>3. ASSUME NEW r \in {current[c]} \ {NoRequest}
      PROVE  [r EXCEPT !.prompt = prompt[c], !.remember = remember[c]] \in Requests
  <2>1. r \in Requests /\ prompt[c] \in BOOLEAN /\ remember[c] \in BOOLEAN
    BY DEF CardsInv
  <2> QED BY <2>1 DEF Requests
<1>4. superseded' \subseteq Requests
  BY <1>3 DEF Mutate, CardsInv
<1> QED BY <1>2, <1>4

\* The cache and the cards that show it.
KeyInv == CacheInv /\ CardsInv

\* Cache and cards keep to their invariants whatever cards, timers and answers do.
LEMMA KeyInvHolds == KeySpec => []KeyInv
<1>1. KeyInit => KeyInv
  BY KeyAssumption
  DEF KeyInit, KeyInv, CacheInv, CardsInv, CardsShowTheCache, OnlyAcceptedKeysStay, Keys
<1>2. KeyInv /\ [KeyNext]_keyVars => KeyInv'
  <2> SUFFICES ASSUME KeyInv, [KeyNext]_keyVars PROVE KeyInv'
    OBVIOUS
  <2> USE DEF KeyInv
  <2>1. CASE Tick
    <3>1. now' = now + 1 /\ UNCHANGED <<cachedKey, cacheExpiry, timers, shown>>
      BY <2>1 DEF Tick, cache
    <3>2. CardsShowTheCache'
      <4> SUFFICES ASSUME NEW c \in Cards, shown[c] # cachedKey
                   PROVE  cachedKey = NoKey /\ \E due \in timers : due <= now + 1
        BY <3>1 DEF CardsShowTheCache
      <4>1. cachedKey = NoKey /\ \E due \in timers : due <= now
        BY DEF CacheInv, CardsShowTheCache
      <4>2. PICK due \in timers : due <= now
        BY <4>1
      <4>3. due \in Nat /\ now \in Nat
        BY DEF CacheInv
      <4>4. due <= now + 1
        BY <4>2, <4>3
      <4> QED BY <4>1, <4>4
    <3>3. OnlyAcceptedKeysStay'
      BY <3>1, KeyAssumption DEF CacheInv, OnlyAcceptedKeysStay
    <3>4. CacheInv'
      BY <3>1, <3>2, <3>3 DEF CacheInv
    <3>5. CardsInv'
      BY <2>1 DEF Tick, cards, CardsInv
    <3> QED BY <3>4, <3>5
  <2>2. ASSUME NEW due \in timers, Expire(due) PROVE KeyInv'
    <3>1. timers' = {} /\ cachedKey' = NoKey /\ cacheExpiry' = 0 /\ now' = now
      BY <2>2 DEF Expire, CacheInv
    <3>2. OnlyAcceptedKeysStay'
      BY <3>1, KeyAssumption DEF CacheInv, OnlyAcceptedKeysStay
    <3>3. CacheInv'
      BY <2>2, <3>1, <3>2 DEF Expire, CacheInv, CardsShowTheCache, Keys
    <3>4. CardsInv'
      BY <2>2 DEF Expire, cards, CardsInv
    <3> QED BY <3>3, <3>4
  <2>3. ASSUME NEW c \in Cards, Click(c) PROVE KeyInv'
    <3>1. CacheInv'
      BY <2>3, ReadKeeps DEF Click
    <3>2. CASE Readable # NoKey
      <4>1. Readable \in Typed /\ Mutate(c, Readable) /\ UNCHANGED <<prompt, remember>>
        BY <2>3, <3>2 DEF Click, Readable, CacheInv, Keys
      <4>2. current' \in [Cards -> Requests \cup {NoRequest}] /\ superseded' \subseteq Requests
        BY <4>1, MutateKeeps
      <4> QED BY <3>1, <4>1, <4>2 DEF CardsInv
    <3>3. CASE Readable = NoKey
      BY <2>3, <3>1, <3>3 DEF Click, CardsInv
    <3> QED BY <3>2, <3>3
  <2>4. ASSUME NEW c \in Cards, Confirm(c) PROVE KeyInv'
    <3>1. CacheInv'
      BY <2>4 DEF Confirm, cache, CacheInv, CardsShowTheCache, OnlyAcceptedKeysStay
    <3>2. shown[c] \in Typed /\ Mutate(c, shown[c]) /\ UNCHANGED <<prompt, remember>>
      BY <2>4 DEF Confirm, CacheInv, Keys
    <3>3. current' \in [Cards -> Requests \cup {NoRequest}] /\ superseded' \subseteq Requests
      BY <3>2, MutateKeeps
    <3> QED BY <3>1, <3>2, <3>3 DEF CardsInv
  <2>5. ASSUME NEW c \in Cards, Dismiss(c) PROVE KeyInv'
    <3>1. CacheInv'
      BY <2>5, ClearKeeps DEF Dismiss
    <3>2. CardsInv'
      BY <2>5 DEF Dismiss, CardsInv
    <3> QED BY <3>1, <3>2
  <2>6. ASSUME NEW c \in Cards, ToggleRemember(c) PROVE KeyInv'
    <3>1. CacheInv'
      BY <2>6 DEF ToggleRemember, cache, CacheInv, CardsShowTheCache, OnlyAcceptedKeysStay
    <3>2. CardsInv'
      BY <2>6 DEF ToggleRemember, CardsInv
    <3> QED BY <3>1, <3>2
  <2>7. ASSUME NEW c \in Cards, NEW key \in Keys, Type(c, key) PROVE KeyInv'
    <3>1. CASE key = NoKey
      BY <2>7, <3>1, ClearKeeps DEF Type, cards, CardsInv
    <3>2. CASE key # NoKey
      <4>1. key \in Typed /\ Store(key, ShortTTL) /\ now' = now
        BY <2>7, <3>2 DEF Type, Keys
      <4>2. CacheInv'
        BY <4>1, StoreKeeps
      <4> QED BY <2>7, <4>2 DEF Type, cards, CardsInv
    <3> QED BY <3>1, <3>2
  <2>8. ASSUME NEW c \in Cards, Answer(c) PROVE KeyInv'
    <3>1. current[c] \in Requests
      BY <2>8 DEF Answer, IsPending, CardsInv
    <3>2. current[c].key \in Typed /\ prompt[c] \in BOOLEAN /\ remember[c] \in BOOLEAN
      BY <3>1 DEF Requests, CardsInv
    <3>3. CacheInv'
      BY <2>8, <3>2, CallbackKeeps DEF Answer
    <3>4. CardsInv'
      BY <2>8 DEF Answer, OnSuccess, OnError, CardsInv
    <3> QED BY <3>3, <3>4
  <2>9. ASSUME NEW r \in superseded, LateAnswer(r) PROVE KeyInv'
    <3>1. r.card \in Cards /\ r.key \in Typed /\ r.prompt \in BOOLEAN /\ r.remember \in BOOLEAN
      BY DEF CardsInv, Requests
    <3>2. OnSuccess(r.card, r.key, r.prompt, r.remember) \/ OnError(r.card)
      BY <2>9 DEF LateAnswer
    <3>3. CacheInv'
      BY <3>1, <3>2, CallbackKeeps
    <3>4. CardsInv'
      BY <2>9, <3>1 DEF LateAnswer, OnSuccess, OnError, CardsInv
    <3> QED BY <3>3, <3>4
  <2>10. CASE UNCHANGED keyVars
    BY <2>10 DEF keyVars, cache, cards, CacheInv, CardsInv, CardsShowTheCache, OnlyAcceptedKeysStay
  <2> QED BY <2>1, <2>2, <2>3, <2>4, <2>5, <2>6, <2>7, <2>8, <2>9, <2>10 DEF KeyNext
<1> QED BY <1>1, <1>2, PTL DEF KeySpec

\* However many cards type, extend and clear the one cached key of the dashboard,
\* with timers and answers at any time: it has one end, is what the cards show,
\* and stays for longer than ShortTTL only if the server accepted it.
THEOREM KeyKept == KeySpec => []KeyIsKept
<1>1. KeyInv => Cardinality(timers) <= 1
  <2> SUFFICES ASSUME KeyInv PROVE Cardinality(timers) <= 1
    OBVIOUS
  <2>1. CASE timers = {}
    BY <2>1, FS_EmptySet
  <2>2. CASE timers # {}
    <3>1. PICK t \in timers : TRUE
      BY <2>2
    <3>2. timers = {t}
      BY <3>1 DEF KeyInv, CacheInv
    <3>3. Cardinality({t}) = 1
      BY FS_Singleton
    <3> QED BY <3>2, <3>3
  <2> QED BY <2>1, <2>2
<1>2. KeyInv => KeyIsKept
  BY <1>1 DEF KeyInv, CacheInv, KeyIsKept, KeyEnds
<1> QED BY <1>2, KeyInvHolds, PTL

\* A card without a prompt sends nothing but the cached key, and that not when it
\* has expired, timers that are late or not.
THEOREM OnlyFreshKeysAreSent == KeySpec => AutoSendsFreshKey
<1>1. KeyInv /\ [KeyNext]_keyVars =>
        [\A c \in Cards : (~IsPending(c) /\ IsPending(c)' /\ ~prompt[c]) =>
            now < cacheExpiry /\ current'[c].key = cachedKey]_keyVars
  <2> SUFFICES ASSUME KeyInv, KeyNext, NEW c \in Cards, current[c] = NoRequest, current'[c] # NoRequest, ~prompt[c]
               PROVE  now < cacheExpiry /\ current'[c].key = cachedKey
    BY DEF IsPending
  <2> USE DEF KeyInv
  <2>1. CASE current' = current
    BY <2>1
  <2>2. ASSUME NEW d \in Cards, Click(d) PROVE now < cacheExpiry /\ current'[c].key = cachedKey
    <3>1. Readable # NoKey /\ Mutate(d, Readable)
      BY <2>1, <2>2 DEF Click
    <3>2. d = c
      BY <3>1 DEF Mutate, CardsInv
    <3>3. current'[c].key = Readable
      BY <3>1, <3>2 DEF Mutate, CardsInv
    <3> QED BY <3>1, <3>3 DEF Readable
  <2>3. ASSUME NEW d \in Cards, Confirm(d) PROVE FALSE
    <3>1. d # c /\ Mutate(d, shown[d])
      BY <2>3 DEF Confirm
    <3> QED BY <3>1 DEF Mutate, CardsInv
  <2>4. ASSUME NEW d \in Cards, Answer(d) PROVE FALSE
    BY <2>4 DEF Answer, CardsInv
  <2>5. CASE \/ Tick \/ \E due \in timers : Expire(due)
             \/ \E d \in Cards : Dismiss(d) \/ ToggleRemember(d) \/ \E key \in Keys : Type(d, key)
             \/ \E r \in superseded : LateAnswer(r)
    BY <2>1, <2>5 DEF Tick, Expire, Dismiss, ToggleRemember, Type, LateAnswer, cards
  <2> QED BY <2>2, <2>3, <2>4, <2>5 DEF KeyNext
<1> QED BY <1>1, KeyInvHolds, PTL DEF KeySpec, AutoSendsFreshKey

\* A key that was dismissed, refused or has expired stays gone while no prompt is
\* open, unless Enter was pressed twice.
THEOREM NothingIsRevived == KeySpec => NothingRevives
<1>1. KeyInv /\ [KeyNext]_keyVars =>
        [(cachedKey = NoKey /\ cachedKey' # NoKey) => superseded # {} \/ \E c \in Cards : prompt[c]]_keyVars
  <2> SUFFICES ASSUME KeyInv, KeyNext, cachedKey = NoKey, cachedKey' # NoKey, superseded = {}
               PROVE  \E c \in Cards : prompt[c]
    OBVIOUS
  <2>1. ASSUME NEW c \in Cards, Click(c) PROVE FALSE
    BY <2>1 DEF Click, ReadKey, Readable
  <2>2. ASSUME NEW c \in Cards, Answer(c) PROVE prompt[c]
    BY <2>2 DEF Answer, OnSuccess, OnError, ClearAdminKey, cache
  <2>3. ASSUME NEW c \in Cards, Confirm(c) \/ Dismiss(c) \/ ToggleRemember(c) PROVE FALSE
    BY <2>3 DEF Confirm, Dismiss, ToggleRemember, ClearAdminKey, cache
  <2>4. ASSUME NEW c \in Cards, NEW key \in Keys, Type(c, key) PROVE prompt[c]
    BY <2>4 DEF Type
  <2>5. CASE Tick \/ \E due \in timers : Expire(due)
    BY <2>5 DEF Tick, Expire, cache
  <2> QED BY <2>1, <2>2, <2>3, <2>4, <2>5 DEF KeyNext
<1> QED BY <1>1, KeyInvHolds, PTL DEF KeySpec, NothingRevives

------------------------------------------------------------------------------
(* OrderSubmission: the breaker.                                            *)

\* The breaker follows what it has counted.
BreakerInv ==
    /\ state \in {"CLOSED", "OPEN", "HALF_OPEN"}
    /\ failures \in Nat
    /\ BreakerFollowsResults

\* Reading, success and failure keep BreakerInv.
LEMMA BreakerOpsKeep ==
  ASSUME BreakerInv, ReadIsOpen \/ RecordSuccess \/ RecordFailure \/ UNCHANGED breaker
  PROVE  BreakerInv'
<1> USE SubmissionAssumption DEF BreakerInv, BreakerFollowsResults
<1>1. CASE ReadIsOpen
  BY <1>1 DEF ReadIsOpen
<1>2. CASE RecordSuccess
  BY <1>2 DEF RecordSuccess
<1>3. CASE RecordFailure
  <2>1. failures' = failures + 1 /\ state' \in {"CLOSED", "OPEN", "HALF_OPEN"}
    BY <1>3 DEF RecordFailure
  <2>2. state' = "CLOSED" <=> state = "CLOSED" /\ ~(failures + 1 >= Threshold)
    BY <1>3 DEF RecordFailure
  <2>3. state' # "HALF_OPEN"
    BY <1>3 DEF RecordFailure
  <2> QED BY <2>1, <2>2, <2>3
<1>4. CASE UNCHANGED breaker
  BY <1>4 DEF breaker
<1> QED BY <1>1, <1>2, <1>3, <1>4

\* Whoever reads and counts, in whatever order calls end, the breaker of
\* grpc_client/client.py is closed exactly while it has counted fewer failures than
\* cb_failure_threshold since the last success, and half open only when the interval
\* has passed since it opened.
THEOREM BreakerFollows == SubSpec => []BreakerFollowsResults
<1>1. SubInit => BreakerInv
  BY SubmissionAssumption DEF SubInit, BreakerInv, BreakerFollowsResults
<1>2. BreakerInv /\ [SubNext]_subVars => BreakerInv'
  <2> SUFFICES ASSUME BreakerInv, [SubNext]_subVars PROVE BreakerInv'
    OBVIOUS
  <2>1. CASE ReadIsOpen \/ RecordSuccess \/ RecordFailure \/ UNCHANGED breaker
    BY <2>1, BreakerOpsKeep
  <2>2. CASE Cool
    BY <2>2 DEF Cool, BreakerInv, BreakerFollowsResults
  <2>3. CASE \/ \E c \in Calls : Attempt(c) \/ Answered(c) \/ RetryCall(c)
             \/ \E k \in EngineKeys : Accept(k)
    BY <2>1, <2>3 DEF Attempt, Accept, Answered, RetryCall
  <2>4. CASE OtherCallFails \/ \E c \in Calls, fatal \in BOOLEAN : CallFails(c, fatal)
    BY <2>1, <2>4 DEF OtherCallFails, CallFails, OnRpcError
  <2>5. CASE ProbeConnection \/ \E c \in Signals : ExecuteSignal(c)
    BY <2>1, <2>5 DEF ProbeConnection, ExecuteSignal
  <2>6. CASE Post \/ AnsweredDirect \/ FallBack \/ PythonAnswers \/ PythonTimesOut
    BY <2>1, <2>6 DEF Post, AnsweredDirect, FallBack, PythonAnswers, PythonTimesOut
  <2>7. CASE UNCHANGED subVars
    BY <2>1, <2>7 DEF subVars, breaker
  <2> QED BY <2>2, <2>3, <2>4, <2>5, <2>6, <2>7 DEF SubNext
<1>3. BreakerInv => BreakerFollowsResults
  BY DEF BreakerInv
<1> QED BY <1>1, <1>2, <1>3, PTL DEF SubSpec

------------------------------------------------------------------------------
(* OrderSubmission: the orders.                                            *)

\* The types of the calls, of the orders they make, and of those that failed.
OrdersType ==
    /\ api \in {"idle", "grpc", "python", "done"}
    /\ pc \in [Calls -> {"idle", "start", "sent", "backoff", "done"}]
    /\ attempt \in [Calls -> Nat]
    /\ result \in [Calls -> Outcomes]
    /\ orders \subseteq [call : Calls, attempt : Nat]
    /\ failed \subseteq [call : Calls, attempt : Nat]
    /\ IsFiniteSet(orders)

\* The order of the call that is out, or was answered with success.
MayBeUnreported(k) ==
    /\ k.attempt = attempt[Posted]
    /\ pc[Posted] = "sent" \/ (pc[Posted] = "done" /\ result[Posted] = "success")

\* Before Python is asked the only order of the click can be the route's own; from
\* then on every one but the last attempt's was reported to have failed.
PostedInv ==
    /\ pc[Posted] = "idle" =>
        /\ attempt[Posted] = 0
        /\ api # "python"
        /\ \A k \in orders \cup failed : k.call = Posted => k.attempt = 0
        /\ api # "done" => \A k \in failed : k.call # Posted
    /\ api = "idle" => OrdersOf(Posted) = {}
    /\ api \in {"idle", "grpc"} => pc[Posted] = "idle"
    /\ pc[Posted] # "idle" => \A k \in OrdersOf(Posted) : k \in failed \/ MayBeUnreported(k)
    /\ api = "done" /\ ~gaveUp => pc[Posted] \in {"idle", "done"}

\* What the operator was told goes with the orders there are and with those that
\* may still come.
ToldInv ==
    /\ told = "success" => OrdersOf(Posted) # {}
    /\ told = "refused" => /\ api = "done" /\ pc[Posted] = "idle"
                           /\ \A k \in orders \cup failed : k.call # Posted
    /\ told = "unavailable" => api = "done"
    /\ told = "unavailable" /\ ~gaveUp => OrdersOf(Posted) \subseteq failed

\* What the calls and the orders keep to.
HonestInv ==
    /\ OrdersType
    /\ \A k \in orders \cup failed : k.call \in Signals => k.attempt = 0
    /\ PostedInv
    /\ ToldInv
    /\ \A c \in Calls : result[c] = "success" => OrdersOf(c) # {}

\* What HonestInv reads.
honest == <<api, told, gaveUp, pc, attempt, result, orders, failed>>

\* A step that leaves these alone keeps HonestInv.
LEMMA HonestStutters == ASSUME HonestInv, UNCHANGED honest PROVE HonestInv'
  BY DEF HonestInv, honest, OrdersType, PostedInv, ToldInv, MayBeUnreported, OrdersOf

\* The key of a call is a key, its own, and the same for all attempts of a signal.
LEMMA KeyIsOwn ==
  ASSUME OrdersType, NEW c \in Calls
  PROVE  /\ Key(c) \in [call : Calls, attempt : Nat] /\ Key(c).call = c
         /\ Key(c).attempt = IF c \in Signals THEN 0 ELSE attempt[c]
         /\ Key(Posted).attempt = attempt[Posted]
         /\ Posted \in Calls
  BY SubmissionAssumption DEF Key, OrdersType, Calls

\* The engine makes an order, of a call that waits for it or of one that failed.
LEMMA AcceptKeeps == ASSUME HonestInv, NEW k \in EngineKeys, Accept(k) PROVE HonestInv'
<1>1. /\ orders' = orders \cup {k}
      /\ UNCHANGED <<api, told, gaveUp, pc, attempt, result, failed>>
      /\ k \in RequestsOut
  BY DEF Accept, route, calls
<1>2. \/ k \in failed
      \/ \E c \in Calls : pc[c] = "sent" /\ k = Key(c)
      \/ api = "grpc" /\ k = Direct
  BY <1>1 DEF RequestsOut
<1>3. Direct \in [call : Calls, attempt : Nat] /\ Direct.call = Posted /\ Direct.attempt = 0
  BY DEF Direct, Calls
<1>4. Posted \in Calls /\ Posted \notin Signals
  BY SubmissionAssumption DEF Calls
<1>5. k \in [call : Calls, attempt : Nat] /\ (k.call \in Signals => k.attempt = 0)
  BY <1>2, <1>3, <1>4, KeyIsOwn DEF HonestInv, OrdersType
<1>6. OrdersType'
  BY <1>1, <1>5, FS_AddElement DEF HonestInv, OrdersType
<1>7. \A c \in Calls : OrdersOf(c) \subseteq OrdersOf(c)' /\ OrdersOf(c)' \subseteq OrdersOf(c) \cup {k}
  BY <1>1 DEF OrdersOf
<1>8. k.call # Posted => OrdersOf(Posted)' = OrdersOf(Posted)
  BY <1>1 DEF OrdersOf
<1>9. k.call = Posted =>
        \/ k \in failed
        \/ pc[Posted] = "sent" /\ k.attempt = attempt[Posted]
        \/ api = "grpc" /\ k.attempt = 0
  BY <1>2, <1>3, KeyIsOwn DEF HonestInv
<1>10. PostedInv'
  <2>1. CASE k.call # Posted
    BY <1>1, <1>8, <2>1 DEF HonestInv, PostedInv, MayBeUnreported
  <2>2. CASE k.call = Posted
    <3>1. api # "idle"
      BY <1>9, <2>2 DEF HonestInv, PostedInv
    <3>2. pc[Posted] = "idle" => k.attempt = 0
      BY <1>9, <2>2 DEF HonestInv, PostedInv
    <3>3. pc[Posted] # "idle" => k \in failed \/ MayBeUnreported(k)
      BY <1>9, <2>2 DEF HonestInv, PostedInv, MayBeUnreported
    <3>4. pc[Posted] # "idle" => \A j \in OrdersOf(Posted)' : j \in failed \/ MayBeUnreported(j)
      BY <1>4, <1>7, <3>3 DEF HonestInv, PostedInv
    <3> QED BY <1>1, <3>1, <3>2, <3>4 DEF HonestInv, PostedInv, MayBeUnreported
  <2> QED BY <2>1, <2>2
<1>11. ToldInv'
  <2>1. told = "success" => OrdersOf(Posted)' # {}
    BY <1>4, <1>7 DEF HonestInv, ToldInv
  <2>2. told = "refused" => k.call # Posted
    BY <1>9 DEF HonestInv, ToldInv
  <2>3. told = "unavailable" /\ ~gaveUp => OrdersOf(Posted)' \subseteq failed
    <3>1. told = "unavailable" /\ ~gaveUp /\ k.call = Posted => k \in failed
      BY <1>9 DEF HonestInv, ToldInv, PostedInv
    <3> QED BY <1>4, <1>7, <1>8, <3>1 DEF HonestInv, ToldInv
  <2> QED BY <1>1, <2>1, <2>2, <2>3 DEF HonestInv, ToldInv
<1> QED BY <1>1, <1>5, <1>6, <1>7, <1>10, <1>11 DEF HonestInv

\* submit_order goes on, or ends, for a call that may be the fallback's.
LEMMA CallKeeps ==
  ASSUME HonestInv, NEW c \in Calls,
         Attempt(c) \/ Answered(c) \/ RetryCall(c) \/ \E fatal \in BOOLEAN : CallFails(c, fatal)
  PROVE  HonestInv'
<1>1. /\ UNCHANGED <<api, told, gaveUp, orders>>
      /\ \A d \in Calls : OrdersOf(d)' = OrdersOf(d)
      /\ OrdersOf(Posted)' = OrdersOf(Posted)
  BY DEF Attempt, Answered, RetryCall, CallFails, route, OrdersOf
<1>2. failed \subseteq failed' /\ failed' \subseteq failed \cup {Key(c)}
  BY DEF Attempt, Answered, RetryCall, CallFails
<1>3. OrdersType
  BY DEF HonestInv
<1>4. OrdersType'
  <2>1. failed' \subseteq [call : Calls, attempt : Nat]
    BY <1>2, <1>3, KeyIsOwn DEF OrdersType
  <2> QED BY <1>1, <1>3, <2>1 DEF OrdersType, Attempt, Answered, RetryCall, CallFails, calls, Outcomes
<1>5. \A k \in orders' \cup failed' : k.call \in Signals => k.attempt = 0
  BY <1>1, <1>2, <1>3, KeyIsOwn DEF HonestInv
<1>6. \A d \in Calls : result'[d] = "success" => OrdersOf(d)' # {}
  <2> SUFFICES ASSUME NEW d \in Calls, result'[d] = "success" PROVE OrdersOf(d) # {}
    BY <1>1
  <2>1. CASE result[d] = "success"
    BY <2>1 DEF HonestInv
  <2>2. CASE result[d] # "success"
    <3>1. Answered(c) /\ d = c /\ Key(c) \in orders
      BY <2>2, <1>3 DEF Attempt, Answered, RetryCall, CallFails, calls, OrdersType
    <3> QED BY <1>3, <3>1, KeyIsOwn DEF OrdersOf
  <2> QED BY <2>1, <2>2
<1>7. CASE c # Posted
  <2>1. UNCHANGED <<pc[Posted], attempt[Posted], result[Posted]>>
    BY <1>3, <1>7 DEF Attempt, Answered, RetryCall, CallFails, calls, OrdersType, Calls
  <2>2. Key(c).call # Posted
    BY <1>3, <1>7, KeyIsOwn
  <2>3. PostedInv'
    BY <1>1, <1>2, <2>1, <2>2 DEF HonestInv, PostedInv, MayBeUnreported
  <2>4. ToldInv'
    BY <1>1, <1>2, <2>1, <2>2 DEF HonestInv, ToldInv
  <2> QED BY <1>4, <1>5, <1>6, <2>3, <2>4 DEF HonestInv
<1>8. CASE c = Posted
  <2>1. pc[Posted] # "idle" /\ pc'[Posted] # "idle" /\ pc[Posted] # "done"
    BY <1>3, <1>8 DEF Attempt, Answered, RetryCall, CallFails, OrdersType, Calls
  <2>2. api \notin {"idle", "grpc"} /\ (api = "done" => gaveUp)
    BY <2>1 DEF HonestInv, PostedInv
  <2>3. ASSUME NEW k \in OrdersOf(Posted) PROVE k \in failed' \/ MayBeUnreported(k)'
    <3>1. k \in failed \/ (pc[Posted] = "sent" /\ k = Key(Posted))
      <4>1. k \in failed \/ (pc[Posted] = "sent" /\ k.attempt = attempt[Posted])
        BY <2>1 DEF HonestInv, PostedInv, MayBeUnreported
      <4>2. k.attempt = attempt[Posted] => k = Key(Posted)
        BY SubmissionAssumption, <1>3 DEF OrdersType, OrdersOf, Key
      <4> QED BY <4>1, <4>2
    <3>2. k \in orders
      BY DEF OrdersOf
    <3>3. CASE Answered(c) /\ k = Key(Posted)
      <4>1. pc'[Posted] = "done" /\ result'[Posted] = "success" /\ attempt' = attempt
        BY <1>3, <1>8, <3>2, <3>3 DEF Answered, OrdersType, Calls
      <4>2. k.attempt = attempt[Posted]
        BY <3>3, SubmissionAssumption DEF Key
      <4> QED BY <4>1, <4>2 DEF MayBeUnreported
    <3>4. CASE (\E fatal \in BOOLEAN : CallFails(c, fatal)) /\ k = Key(Posted)
      BY <1>8, <3>4 DEF CallFails
    <3>5. CASE Attempt(c) \/ RetryCall(c)
      BY <1>2, <1>8, <3>1, <3>5 DEF Attempt, RetryCall
    <3> QED BY <1>2, <3>1, <3>3, <3>4, <3>5
  <2>4. PostedInv'
    BY <1>1, <2>1, <2>2, <2>3 DEF HonestInv, PostedInv
  <2>5. told # "refused" /\ (told = "unavailable" => gaveUp)
    BY <2>1, <2>2 DEF HonestInv, ToldInv
  <2>6. ToldInv'
    BY <1>1, <2>5 DEF HonestInv, ToldInv
  <2> QED BY <1>4, <1>5, <1>6, <2>4, <2>6 DEF HonestInv
<1> QED BY <1>7, <1>8

\* A step of the route.
LEMMA RouteKeeps ==
  ASSUME HonestInv, Post \/ AnsweredDirect \/ FallBack \/ PythonAnswers \/ PythonTimesOut
  PROVE  HonestInv'
<1> USE SubmissionAssumption
<1>1. Posted \in Calls /\ attempt[Posted] \in Nat
  BY DEF HonestInv, OrdersType, Calls
<1>2. /\ UNCHANGED <<attempt, result, orders>> /\ OrdersOf(Posted)' = OrdersOf(Posted)
      /\ \A d \in Calls : OrdersOf(d)' = OrdersOf(d)
  BY DEF Post, AnsweredDirect, FallBack, PythonAnswers, PythonTimesOut, calls, OrdersOf
<1>3. \A c \in Calls : result'[c] = "success" => OrdersOf(c)' # {}
  BY <1>2 DEF HonestInv
<1>4. ASSUME api = "grpc"
      PROVE  /\ pc[Posted] = "idle" /\ told \notin {"refused", "unavailable"}
             /\ \A k \in failed : k.call # Posted
             /\ OrdersOf(Posted) \subseteq {Direct}
  <2>1. pc[Posted] = "idle" /\ \A k \in failed : k.call # Posted
    BY <1>4 DEF HonestInv, PostedInv
  <2>2. ASSUME NEW k \in OrdersOf(Posted) PROVE k = Direct
    BY <2>1, <2>2 DEF HonestInv, PostedInv, OrdersType, OrdersOf, Direct
  <2> QED BY <1>4, <2>1, <2>2 DEF HonestInv, ToldInv
<1>5. CASE Post
  <2>1. api = "idle" /\ api' = "grpc" /\ UNCHANGED <<told, gaveUp, pc, failed>>
    BY <1>5 DEF Post, calls
  <2>2. told \notin {"refused", "unavailable"}
    BY <2>1 DEF HonestInv, ToldInv
  <2> QED BY <1>2, <1>3, <2>1, <2>2 DEF HonestInv, OrdersType, PostedInv, ToldInv, MayBeUnreported
<1>6. CASE AnsweredDirect
  <2>1. /\ api = "grpc" /\ api' = "done" /\ UNCHANGED <<gaveUp, pc, failed>>
        /\ told' = IF Direct \in orders THEN "success" ELSE "refused"
    BY <1>6 DEF AnsweredDirect, AnswerPost, calls
  <2>2. Direct \in orders => Direct \in OrdersOf(Posted)
    BY DEF Direct, OrdersOf
  <2>3. Direct \notin orders => \A k \in orders : k.call # Posted
    BY <1>4, <2>1 DEF OrdersOf
  <2>4. ToldInv'
    BY <1>2, <1>4, <2>1, <2>2, <2>3 DEF ToldInv
  <2> QED BY <1>2, <1>3, <1>4, <2>1, <2>4 DEF HonestInv, OrdersType, PostedInv, MayBeUnreported
<1>7. CASE FallBack
  <2>1. /\ api = "grpc" /\ UNCHANGED gaveUp
        /\ failed' = failed \cup {Direct}
        /\ \/ api' = "python" /\ pc' = [pc EXCEPT ![Posted] = "start"] /\ UNCHANGED told
           \/ api' = "done" /\ told' = "unavailable" /\ UNCHANGED pc
    BY <1>7 DEF FallBack, AnswerPost
  <2>2. Direct \in [call : Calls, attempt : Nat] /\ Direct.call = Posted /\ Direct.attempt = 0
    BY <1>1 DEF Direct
  <2>3. OrdersOf(Posted) \subseteq failed'
    BY <1>4, <2>1
  <2>4. OrdersType'
    BY <1>1, <1>2, <2>1, <2>2 DEF HonestInv, OrdersType
  <2>5. pc'[Posted] = IF api' = "python" THEN "start" ELSE "idle"
    BY <1>1, <1>4, <2>1 DEF HonestInv, OrdersType
  <2>6. \A k \in orders' \cup failed' : k.call \in Signals => k.attempt = 0
    BY <1>2, <2>1, <2>2 DEF HonestInv
  <2>7. PostedInv'
    BY <1>2, <1>4, <2>1, <2>2, <2>3, <2>5 DEF HonestInv, PostedInv
  <2>8. ToldInv'
    BY <1>2, <1>4, <2>1, <2>3 DEF HonestInv, ToldInv
  <2> QED BY <1>3, <2>4, <2>6, <2>7, <2>8 DEF HonestInv
<1>8. CASE PythonAnswers
  <2>1. /\ api = "python" /\ pc[Posted] = "done" /\ api' = "done"
        /\ told' = IF result[Posted] = "success" THEN "success" ELSE "unavailable"
        /\ UNCHANGED <<gaveUp, pc, failed>>
    BY <1>8 DEF PythonAnswers, AnswerPost, calls
  <2>2. result[Posted] # "success" => OrdersOf(Posted) \subseteq failed
    BY <2>1 DEF HonestInv, PostedInv, MayBeUnreported
  <2>3. result[Posted] = "success" => OrdersOf(Posted) # {}
    BY <1>1 DEF HonestInv
  <2>4. ToldInv'
    BY <1>2, <2>1, <2>2, <2>3 DEF ToldInv
  <2> QED BY <1>2, <1>3, <2>1, <2>4 DEF HonestInv, OrdersType, PostedInv, MayBeUnreported
<1>9. CASE PythonTimesOut
  <2>1. /\ api = "python" /\ api' = "done" /\ told' = "unavailable" /\ gaveUp' = TRUE
        /\ UNCHANGED <<pc, failed>>
    BY <1>9 DEF PythonTimesOut, AnswerPost, calls
  <2> QED BY <1>2, <1>3, <2>1 DEF HonestInv, OrdersType, PostedInv, ToldInv, MayBeUnreported
<1> QED BY <1>5, <1>6, <1>7, <1>8, <1>9

\* Calls, retries, late acceptances and time-outs keep HonestInv.
LEMMA HonestInvHolds == SubSpec => []HonestInv
<1>1. SubInit => HonestInv
  BY FS_EmptySet, SubmissionAssumption
  DEF SubInit, HonestInv, OrdersType, PostedInv, ToldInv, OrdersOf, Calls, Outcomes
<1>2. HonestInv /\ [SubNext]_subVars => HonestInv'
  <2> SUFFICES ASSUME HonestInv, [SubNext]_subVars PROVE HonestInv'
    OBVIOUS
  <2>1. CASE Cool \/ ProbeConnection \/ OtherCallFails \/ UNCHANGED subVars
    BY <2>1, HonestStutters
    DEF Cool, ProbeConnection, OtherCallFails, subVars, route, calls, honest
  <2>2. ASSUME NEW c \in Signals, ExecuteSignal(c) PROVE HonestInv'
    <3>1. /\ c \in Calls /\ c # Posted
          /\ UNCHANGED <<pc[Posted], result[Posted]>>
          /\ UNCHANGED <<api, told, gaveUp, attempt, orders, failed>>
      BY <2>2, SubmissionAssumption DEF ExecuteSignal, route, HonestInv, OrdersType, Calls
    <3>2. OrdersType'
      BY <2>2, <3>1 DEF ExecuteSignal, HonestInv, OrdersType, Outcomes
    <3>3. \A d \in Calls : result'[d] = "success" => result[d] = "success"
      BY <2>2 DEF ExecuteSignal, HonestInv, OrdersType
    <3>4. \A d \in Calls : OrdersOf(d)' = OrdersOf(d)
      BY <3>1 DEF OrdersOf
    <3> QED BY <3>1, <3>2, <3>3, <3>4, SubmissionAssumption
            DEF HonestInv, PostedInv, ToldInv, MayBeUnreported, Calls
  <2>3. ASSUME NEW k \in EngineKeys, Accept(k) PROVE HonestInv'
    BY <2>3, AcceptKeeps
  <2>4. ASSUME NEW c \in Calls,
               Attempt(c) \/ Answered(c) \/ RetryCall(c) \/ \E fatal \in BOOLEAN : CallFails(c, fatal)
        PROVE  HonestInv'
    BY <2>4, CallKeeps
  <2>5. CASE Post \/ AnsweredDirect \/ FallBack \/ PythonAnswers \/ PythonTimesOut
    BY <2>5, RouteKeeps
  <2> QED BY <2>1, <2>2, <2>3, <2>4, <2>5 DEF SubNext
<1> QED BY <1>1, <1>2, PTL DEF SubSpec

\* A set with at most one element has a cardinality of at most one.
LEMMA AtMostOneElement ==
  ASSUME NEW S, NEW n, S \subseteq {n}
  PROVE  Cardinality(S) <= 1
<1>1. IsFiniteSet({n}) /\ Cardinality({n}) = 1
  BY FS_Singleton
<1> QED BY <1>1, FS_Subset

\* However calls are repeated, fail, are refused or given up, and whenever the engine
\* accepts them: a signal makes one order, all but one order of a click were accepted
\* of calls that were reported to have failed, and what is answered is so:
\* "success" of an order that is there, "refused" of none that is or may still come,
\* and "Engine not available" of none but such of failed calls, unless the route did
\* not wait for Python's answer.
THEOREM SubmissionHonest == SubSpec => []SubmissionIsHonest
<1>1. HonestInv => OneOrderPerSignal
  <2> SUFFICES ASSUME HonestInv, NEW c \in Signals PROVE Cardinality(OrdersOf(c)) <= 1
    BY DEF OneOrderPerSignal
  <2>1. OrdersOf(c) \subseteq {[call |-> c, attempt |-> 0]}
    BY DEF OrdersOf, HonestInv, OrdersType
  <2> QED BY <2>1, AtMostOneElement
<1>2. HonestInv => DuplicateNeedsFailedCall
  <2> SUFFICES ASSUME HonestInv PROVE Cardinality(OrdersOf(Posted) \ failed) <= 1
    BY DEF DuplicateNeedsFailedCall
  <2>1. ASSUME NEW k \in OrdersOf(Posted) \ failed PROVE k = [call |-> Posted, attempt |-> attempt[Posted]]
    <3>1. k \in [call : Calls, attempt : Nat] /\ k.call = Posted
      BY DEF OrdersOf, HonestInv, OrdersType
    <3>2. k.attempt = attempt[Posted]
      BY DEF HonestInv, PostedInv, MayBeUnreported, OrdersOf
    <3> QED BY <3>1, <3>2
  <2>2. OrdersOf(Posted) \ failed \subseteq {[call |-> Posted, attempt |-> attempt[Posted]]}
    BY <2>1
  <2> QED BY <2>2, AtMostOneElement
<1>3. HonestInv => AnswersAreHonest
  <2> SUFFICES ASSUME HonestInv PROVE AnswersAreHonest
    OBVIOUS
  <2>1. ASSUME told = "refused" PROVE OrdersOf(Posted) = {} /\ \A k \in RequestsOut : k.call # Posted
    <3>1. /\ api = "done" /\ pc[Posted] = "idle"
          /\ \A k \in orders \cup failed : k.call # Posted
      BY <2>1 DEF HonestInv, ToldInv
    <3>2. \A c \in Calls : pc[c] = "sent" => Key(c).call # Posted
      BY <3>1, KeyIsOwn DEF HonestInv
    <3> QED BY <3>1, <3>2 DEF OrdersOf, RequestsOut
  <2> QED BY <2>1 DEF HonestInv, ToldInv, AnswersAreHonest
<1> QED BY <1>1, <1>2, <1>3, HonestInvHolds, PTL DEF SubmissionIsHonest

------------------------------------------------------------------------------
(* TradesPage.                                                             *)

\* Clicks are counted, so a request that is on its way has no entry of its own in
\* `accepted` yet, an answered one may have one, and a success of the API that is
\* still unread was given for an accepted order.
TradesInv ==
    /\ TradesTypeOK
    /\ MessageIsTrue
    /\ page # "idle" => request \in Orders /\ clicks # 0
    /\ \A a \in accepted : a[1] <= clicks /\ (page = "sent" => a[1] # clicks)
    /\ page = "answered" /\ CustomFetch(response) = Value("success") => <<clicks, request>> \in accepted

\* Only the API's own object becomes a success.
LEMMA SuccessIsTheApis ==
    ASSUME NEW r \in OtherAnswers \cup ApiAnswers(FALSE)
    PROVE  CustomFetch(r) # Value("success")
<1>1. CASE r \in ApiAnswers(FALSE)
  <2>1. \/ r = [ok |-> TRUE, empty |-> FALSE, media |-> "json", body |-> "refusal"]
        \/ r = [ok |-> FALSE, empty |-> FALSE, media |-> "json", body |-> "error"]
    BY <1>1 DEF ApiAnswers, ReplyOf
  <2>2. CASE r.ok
    <3>1. ParseSuccessBody(r) = Value("refusal")
      BY <2>1, <2>2 DEF ParseSuccessBody, HasNoBody, InferResponseType, Objects
    <3> QED BY <2>2, <3>1 DEF CustomFetch, Value
  <2>3. CASE ~r.ok
    BY <2>3 DEF CustomFetch, Value, Thrown
  <2> QED BY <2>2, <2>3
<1>2. CASE r \in OtherAnswers
  <2>1. \/ r.empty
        \/ /\ ~r.empty /\ r.media \in {"json", "text", "none", "other"}
           /\ r.body \in {"blank", "broken", "prose"}
    BY <1>2 DEF OtherAnswers, ReplyOf
  <2>2. ParseSuccessBody(r) \in {Value("null"), Value("text"), Value("blob"), Thrown("ResponseParseError", "null")}
    BY <2>1 DEF ParseSuccessBody, HasNoBody, InferResponseType, Objects
  <2>3. CustomFetch(r) = ParseSuccessBody(r) \/ CustomFetch(r) = Thrown("ApiError", ParseErrorBody(r))
    BY DEF CustomFetch
  <2> QED BY <2>2, <2>3 DEF Value, Thrown
<1> QED BY <1>1, <1>2

\* An answer is remembered with its order, or it is not a success.
LEMMA RespondKeeps ==
    ASSUME TradesInv, NEW isAccepted \in BOOLEAN,
           NEW r \in ApiAnswers(isAccepted) \cup OtherAnswers, Respond(isAccepted, r)
    PROVE  TradesInv'
<1>1. /\ page = "sent" /\ page' = "answered" /\ response' = r
      /\ UNCHANGED <<form, formMsg, clicks, request>>
      /\ accepted' = IF isAccepted THEN accepted \cup {<<clicks, request>>} ELSE accepted
  BY DEF Respond
<1>2. clicks \in 1 .. MaxClicks /\ request \in Orders
  BY <1>1, TradesAssumption DEF TradesInv, TradesTypeOK
<1>3. r \in OtherAnswers \cup ApiAnswers(TRUE)
  BY DEF ApiAnswers
<1>4. TradesTypeOK'
  <2>1. <<clicks, request>> \in (1 .. MaxClicks) \X Orders
    BY <1>2
  <2>2. accepted' \subseteq (1 .. MaxClicks) \X Orders
    BY <1>1, <2>1 DEF TradesInv, TradesTypeOK
  <2> QED BY <1>1, <1>3, <2>2 DEF TradesInv, TradesTypeOK
<1>5. \A a \in accepted' : a[1] <= clicks
  BY <1>1, <1>2 DEF TradesInv
<1>6. CASE isAccepted
  BY <1>1, <1>2, <1>4, <1>5, <1>6 DEF TradesInv, MessageIsTrue, NoMessageMeanwhile, SubmittedIsAccepted
<1>7. CASE ~isAccepted
  <2>1. CustomFetch(r) # Value("success")
    BY <1>7, SuccessIsTheApis
  <2>2. CustomFetch(response)' # Value("success")
    BY <1>1, <2>1 DEF CustomFetch, ParseSuccessBody, ParseErrorBody, HasNoBody, InferResponseType, LooksLikeJson
  <2> QED BY <1>1, <1>2, <1>4, <1>5, <1>7, <2>2 DEF TradesInv, MessageIsTrue, NoMessageMeanwhile, SubmittedIsAccepted
<1> QED BY <1>6, <1>7

\* Whatever answers and breaks off, however the form is edited meanwhile.
LEMMA TradesInvHolds == TradesInit /\ [][TradesNext]_tradesVars => []TradesInv
<1>1. TradesInit => TradesInv
  <2> SUFFICES ASSUME TradesInit PROVE TradesInv
    OBVIOUS
  <2>1. response \in OtherAnswers
    <3>1. PICK ok \in BOOLEAN : ok = TRUE
      OBVIOUS
    <3>2. response = ReplyOf(ok, TRUE, "none", "blank")
      BY <3>1 DEF TradesInit
    <3>3. response \in {ReplyOf(isOk, TRUE, "none", "blank") : isOk \in BOOLEAN}
      BY <3>2, Zenon
    <3>4. {ReplyOf(isOk, TRUE, "none", "blank") : isOk \in BOOLEAN} \subseteq OtherAnswers
      BY SMTT(30) DEF OtherAnswers, ReplyOf
    <3> QED BY <3>3, <3>4
  <2>2. clicks \in 0 .. MaxClicks
    BY TradesAssumption DEF TradesInit
  <2> QED BY <2>1, <2>2 DEF TradesInit, TradesInv, TradesTypeOK, MessageIsTrue, SubmittedIsAccepted, NoMessageMeanwhile
<1>2. TradesInv /\ [TradesNext]_tradesVars => TradesInv'
  <2> SUFFICES ASSUME TradesInv, [TradesNext]_tradesVars PROVE TradesInv'
    OBVIOUS
  <2> USE DEF TradesInv, MessageIsTrue, SubmittedIsAccepted, NoMessageMeanwhile
  <2>1. ASSUME UNCHANGED response PROVE /\ CustomFetch(response)' = CustomFetch(response)
                                       /\ response' \in OtherAnswers \cup ApiAnswers(TRUE)
    BY <2>1 DEF CustomFetch, TradesTypeOK
  <2>2. ASSUME NEW o \in Orders, TypeOrder(o) PROVE TradesInv'
    <3>1. TradesTypeOK'
      BY <2>1, <2>2 DEF TypeOrder, TradesTypeOK
    <3> QED BY <2>1, <2>2, <3>1 DEF TypeOrder
  <2>3. CASE Submit
    <3>1. clicks \in Nat /\ \A a \in accepted : a[1] \in Nat
      BY DEF TradesTypeOK
    <3>2. clicks' \in 0 .. MaxClicks /\ clicks' = clicks + 1 /\ request' = form /\ form \in Orders
      BY <2>3, TradesAssumption DEF Submit, TradesTypeOK
    <3>3. TradesTypeOK'
      BY <2>1, <2>3, <3>2 DEF Submit, TradesTypeOK
    <3>4. \A a \in accepted : a[1] <= clicks' /\ a[1] # clicks'
      BY <3>1, <3>2
    <3> QED BY <2>3, <3>1, <3>2, <3>3, <3>4 DEF Submit
  <2>4. ASSUME NEW isAccepted \in BOOLEAN, FetchRejects(isAccepted) PROVE TradesInv'
    <3>1. clicks \in 1 .. MaxClicks /\ request \in Orders
      BY <2>4, TradesAssumption DEF FetchRejects, TradesTypeOK
    <3>2. TradesTypeOK'
      <4>1. <<clicks, request>> \in (1 .. MaxClicks) \X Orders
        BY <3>1
      <4>2. accepted' \subseteq (1 .. MaxClicks) \X Orders
        BY <2>4, <4>1 DEF FetchRejects, TradesTypeOK
      <4> QED BY <2>1, <2>4, <4>2 DEF FetchRejects, ShowError, TradesTypeOK
    <3> QED BY <2>4, <3>1, <3>2 DEF FetchRejects, ShowError
  <2>5. ASSUME NEW isAccepted \in BOOLEAN, NEW r \in ApiAnswers(isAccepted) \cup OtherAnswers,
               Respond(isAccepted, r) PROVE TradesInv'
    BY <2>5, RespondKeeps
  <2>6. CASE BodyRead
    <3>1. /\ page = "answered" /\ page' = "idle" /\ UNCHANGED <<accepted, response, clicks, request>>
          /\ form' \in {form, NoOrder}
          /\ formMsg' \in {"none", "submitted", "reason", "error"}
          /\ formMsg' = "submitted" => CustomFetch(response) = Value("success")
      BY <2>6 DEF BodyRead, ShowError
    <3>2. TradesTypeOK'
      BY <2>1, <3>1 DEF TradesTypeOK
    <3> QED BY <3>1, <3>2
  <2>7. CASE BodyBreaks
    <3>1. TradesTypeOK'
      BY <2>1, <2>7 DEF BodyBreaks, ShowError, TradesTypeOK
    <3> QED BY <2>7, <3>1 DEF BodyBreaks, ShowError
  <2>8. CASE UNCHANGED tradesVars
    BY <2>1, <2>8 DEF tradesVars, TradesTypeOK
  <2> QED BY <2>2, <2>3, <2>4, <2>5, <2>6, <2>7, <2>8 DEF TradesNext, Settles
<1> QED BY <1>1, <1>2, PTL

\* Whatever the API and the proxies answer to a manual order, and wherever the
\* connection breaks, handleSubmit says "Order submitted" only if an order of the last
\* click's request was accepted, and no message of an earlier request is left while one
\* is on its way.
THEOREM MessagesAreTrue == TradesInit /\ [][TradesNext]_tradesVars => []MessageIsTrue
<1>1. TradesInv => MessageIsTrue
  BY DEF TradesInv
<1> QED BY <1>1, TradesInvHolds, PTL

------------------------------------------------------------------------------
(* MockupPreview.                                                          *)

\* The plugin: the list it has is the one in the generated module unless it could not
\* be written, every file that differs from it, or that a walk may have missed, is
\* still to be reported, and a note is left for what was reported during a walk.
ModuleInv ==
    /\ PreviewTypeOK
    /\ currentSource # Nothing /\ ~unwritten => generated = currentSource
    /\ ~refreshInFlight /\ ~thrown =>
         /\ currentSource # Nothing
         /\ ~unheard => files \ currentSource \subseteq events /\ currentSource \ files \subseteq events
    /\ refreshInFlight /\ ~refreshQueued /\ ~unheard => walk \subseteq events

\* The page: a load that was not cancelled, and a component on the screen, are of the
\* modules it has.
PageInv ==
    /\ \A l \in loads : ~l.cancelled => Path \in modules
    /\ view = "component" => Path \in modules
    /\ (\A l \in loads : l.cancelled) => view # "nothing"

\* A list of files is never taken for no list.
LEMMA ListsAreNotNothing ==
    ASSUME NEW S \in SUBSET Files
    PROVE  S # Nothing
BY PreviewAssumption DEF Nothing

\* refresh() as far as its first await keeps to the types, and leaves a note or starts
\* with everything still to be seen.
LEMMA RefreshKeeps ==
    ASSUME ModuleInv, Refresh, events' \subseteq events,
           UNCHANGED <<files, server, currentSource, generated, fileEdits, throws, thrown, unwritten, pageVars>>
    PROVE  ModuleInv'
<1>1. events' \subseteq Files
  BY DEF ModuleInv, PreviewTypeOK
<1>2. CASE refreshInFlight
  <2>1. refreshQueued' = TRUE /\ UNCHANGED <<walk, unheard>>
    BY <1>2 DEF Refresh
  <2>2. refreshInFlight'
    BY <1>2, <2>1 DEF refreshInFlight
  <2>3. PreviewTypeOK'
    BY <1>1, <2>1, <2>2 DEF ModuleInv, PreviewTypeOK, pageVars
  <2> QED BY <2>1, <2>2, <2>3 DEF ModuleInv
<1>3. CASE ~refreshInFlight
  <2>1. walk' = {} /\ unheard' = FALSE /\ UNCHANGED refreshQueued
    BY <1>3 DEF Refresh
  <2>2. refreshInFlight'
    BY <2>1 DEF refreshInFlight, Nothing
  <2>3. PreviewTypeOK'
    BY <1>1, <2>1, <2>2 DEF ModuleInv, PreviewTypeOK, pageVars
  <2> QED BY <2>1, <2>2, <2>3 DEF ModuleInv
<1> QED BY <1>2, <1>3

\* A file that changes is to be reported, or is unheard of.
LEMMA EditKeeps ==
    ASSUME ModuleInv, NEW f \in Files, Edit(f)
    PROVE  ModuleInv'
<1> USE DEF ModuleInv
<1>1. /\ files' = IF f \in files THEN files \ {f} ELSE files \cup {f}
      /\ walk' = IF refreshInFlight THEN walk \cup {f} ELSE walk
      /\ \/ events' = events \cup {f} /\ UNCHANGED unheard
         \/ events' \subseteq events /\ unheard' = TRUE
      /\ UNCHANGED <<server, refreshQueued, currentSource, generated, throws, thrown, unwritten, modules, loads, view>>
  BY DEF Edit, pageVars
<1>2. refreshInFlight => walk \subseteq Files
  BY DEF PreviewTypeOK, refreshInFlight
<1>3. refreshInFlight' <=> refreshInFlight
  <2>1. CASE refreshInFlight
    <3>1. walk \cup {f} # Nothing
      BY <1>2, <2>1, ListsAreNotNothing
    <3> QED BY <1>1, <2>1, <3>1 DEF refreshInFlight, Nothing
  <2>2. CASE ~refreshInFlight
    BY <1>1, <2>2 DEF refreshInFlight
  <2> QED BY <2>1, <2>2
<1>4. PreviewTypeOK'
  <2>1. files' \subseteq Files /\ events' \subseteq Files
    BY <1>1 DEF PreviewTypeOK
  <2>2. walk' \in (SUBSET Files) \cup {Nothing}
    BY <1>1, <1>2 DEF PreviewTypeOK
  <2>3. fileEdits' \in 0 .. MaxFileEdits
    BY PreviewAssumption DEF PreviewTypeOK, Edit
  <2>4. unheard' \in BOOLEAN
    BY <1>1 DEF PreviewTypeOK
  <2> QED BY <1>1, <1>3, <2>1, <2>2, <2>3, <2>4 DEF PreviewTypeOK
<1>5. ASSUME ~unheard' PROVE events' = events \cup {f} /\ ~unheard
  BY <1>1, <1>5
<1>6. ASSUME ~refreshInFlight', ~thrown', ~unheard'
      PROVE  files' \ currentSource' \subseteq events' /\ currentSource' \ files' \subseteq events'
  BY <1>1, <1>3, <1>5, <1>6
<1>7. ASSUME refreshInFlight', ~refreshQueued', ~unheard' PROVE walk' \subseteq events'
  BY <1>1, <1>3, <1>5, <1>7
<1> QED BY <1>1, <1>3, <1>4, <1>6, <1>7

\* What a walk has not seen, or should not have, changed while it lasted.
LEMMA RefreshEndKeeps ==
    ASSUME ModuleInv, RefreshEnds \/ RefreshThrows
    PROVE  ModuleInv'
<1> USE DEF ModuleInv
<1>1. walk \subseteq Files
  BY DEF RefreshEnds, RefreshThrows, refreshInFlight, PreviewTypeOK
<1>2. ASSUME NEW found \in Seen
      PROVE  /\ found \subseteq Files /\ found # Nothing
             /\ files \ found \subseteq walk /\ found \ files \subseteq walk
  <2>1. PICK some \in SUBSET walk : found = (files \ walk) \cup some
    BY DEF Seen
  <2>2. found \subseteq Files
    BY <1>1, <2>1 DEF PreviewTypeOK
  <2> QED BY <2>1, <2>2, ListsAreNotNothing
<1>3. CASE RefreshEnds
  <2>1. PICK found \in Seen : Walked(found)
    BY <1>3 DEF RefreshEnds
  <2>2. /\ currentSource' = found /\ generated' = (IF found # currentSource THEN found ELSE generated)
        /\ unwritten' = (unwritten /\ found = currentSource)
    BY <2>1 DEF Walked
  <2>3. /\ refreshInFlight /\ thrown' = FALSE /\ refreshQueued' = FALSE
        /\ walk' = (IF refreshQueued THEN {} ELSE Nothing)
        /\ unheard' = (unheard /\ ~refreshQueued)
        /\ UNCHANGED <<files, server, events, fileEdits, throws, modules, loads, view>>
    BY <1>3 DEF RefreshEnds, FollowUp, pageVars
  <2>4. currentSource' # Nothing /\ (~unwritten' => generated' = currentSource')
    BY <1>2, <2>2
  <2>5. PreviewTypeOK'
    <3>1. {unheard', unwritten'} \subseteq BOOLEAN
      BY <2>2, <2>3, Zenon DEF PreviewTypeOK
    <3>2. generated' \subseteq Files /\ currentSource' \in SUBSET Files
      BY <1>2, <2>2 DEF PreviewTypeOK
    <3>3. walk' \in (SUBSET Files) \cup {Nothing}
      BY <2>3
    <3> QED BY <2>3, <3>1, <3>2, <3>3 DEF PreviewTypeOK
  <2>6. CASE refreshQueued
    BY <2>3, <2>4, <2>5, <2>6 DEF refreshInFlight, Nothing
  <2>7. CASE ~refreshQueued
    <3>1. ~refreshInFlight' /\ (unheard' <=> unheard)
      BY <2>3, <2>7 DEF refreshInFlight
    <3>2. ~unheard => files \ found \subseteq events /\ found \ files \subseteq events
      BY <1>2, <2>3, <2>7
    <3> QED BY <2>2, <2>3, <2>4, <2>5, <3>1, <3>2
  <2> QED BY <2>6, <2>7 DEF PreviewTypeOK
<1>4. CASE RefreshThrows
  <2>1. /\ walk' = Nothing /\ thrown' = TRUE /\ throws < MaxThrows /\ throws' = throws + 1
        /\ UNCHANGED <<files, server, events, refreshQueued, generated, fileEdits, unheard, modules, loads, view>>
    BY <1>4 DEF RefreshThrows, pageVars
  <2>2. throws' \in 0 .. MaxThrows /\ throws' # 0
    BY <2>1, PreviewAssumption DEF PreviewTypeOK
  <2>3. ~refreshInFlight'
    BY <2>1 DEF refreshInFlight
  <2>4. CASE UNCHANGED <<currentSource, unwritten>>
    <3>1. PreviewTypeOK'
      BY <2>1, <2>2, <2>4 DEF PreviewTypeOK
    <3> QED BY <2>1, <2>3, <2>4, <3>1
  <2>5. CASE \E found \in Seen \ {currentSource} : currentSource' = found /\ unwritten' = TRUE
    <3>1. currentSource' \in SUBSET Files /\ unwritten' = TRUE
      BY <1>2, <2>5
    <3>2. PreviewTypeOK'
      BY <2>1, <2>2, <3>1 DEF PreviewTypeOK
    <3> QED BY <2>1, <2>3, <3>1, <3>2
  <2> QED BY <1>4, <2>4, <2>5 DEF RefreshThrows
<1> QED BY <1>3, <1>4

\* The page's own steps.
LEMMA PageInvStep == PageInv /\ PreviewTypeOK /\ [PreviewNext]_previewVars => PageInv' /\ (pageVars' # pageVars => PreviewTypeOK')
<1> SUFFICES ASSUME PageInv, PreviewTypeOK, [PreviewNext]_previewVars
    PROVE  PageInv' /\ (pageVars' # pageVars => PreviewTypeOK')
  OBVIOUS
<1> USE DEF PageInv
<1>1. CASE HotUpdate
  <2> DEFINE old == {[l EXCEPT !.cancelled = TRUE] : l \in loads}
  <2>1. modules' = generated /\ UNCHANGED pluginVars /\ Load(generated)
    BY <1>1 DEF HotUpdate
  <2>2. old \subseteq [modules : SUBSET Files, cancelled : BOOLEAN] /\ \A l \in old : l.cancelled
    BY DEF PreviewTypeOK
  <2>3. CASE Path \in generated
    <3>1. loads' = old \cup {[modules |-> generated, cancelled |-> FALSE]} /\ view' = "nothing"
      BY <2>1, <2>3 DEF Load
    <3> DEFINE new == [modules |-> generated, cancelled |-> FALSE]
    <3>2. new \in [modules : SUBSET Files, cancelled : BOOLEAN] /\ ~new.cancelled
      BY DEF PreviewTypeOK
    <3> HIDE DEF old, new
    <3>3. loads' = old \cup {new}
      BY <3>1 DEF old, new
    <3>4. PreviewTypeOK'
      BY <2>1, <2>2, <3>1, <3>2, <3>3 DEF PreviewTypeOK, pluginVars, refreshInFlight
    <3> QED BY <2>1, <2>3, <3>1, <3>2, <3>3, <3>4
  <2>4. CASE Path \notin generated
    <3>1. loads' = old /\ view' = "error"
      BY <2>1, <2>4 DEF Load
    <3> HIDE DEF old
    <3>2. PreviewTypeOK'
      BY <2>1, <2>2, <3>1 DEF PreviewTypeOK, pluginVars, refreshInFlight
    <3> QED BY <2>1, <2>2, <3>1, <3>2
  <2> QED BY <2>3, <2>4
<1>2. ASSUME NEW l \in loads, LoadEnds(l) PROVE PageInv' /\ PreviewTypeOK'
  <2>1. loads' = loads \ {l} /\ UNCHANGED <<pluginVars, modules>>
    BY <1>2 DEF LoadEnds
  <2>2. view' \in {"nothing", "error", "component"}
    BY <1>2 DEF LoadEnds, PreviewTypeOK
  <2>3. PreviewTypeOK'
    BY <2>1, <2>2 DEF PreviewTypeOK, pluginVars, refreshInFlight
  <2>4. CASE l.cancelled
    <3>1. view' = view
      BY <1>2, <2>4 DEF LoadEnds
    <3> QED BY <2>1, <2>3, <2>4, <3>1
  <2>5. CASE ~l.cancelled
    <3>1. view' # "nothing"
      BY <1>2, <2>5 DEF LoadEnds
    <3> QED BY <2>1, <2>3, <2>5, <3>1
  <2> QED BY <2>4, <2>5
<1>3. CASE UNCHANGED pageVars
  BY <1>3 DEF pageVars
<1>4. ASSUME NEW f \in Files, Edit(f) \/ Reported(f) PROVE UNCHANGED pageVars
  BY <1>4 DEF Edit, Reported
<1>5. CASE Rescan \/ StartWatcher \/ RefreshEnds \/ RefreshThrows \/ UNCHANGED previewVars
  BY <1>3, <1>5 DEF Rescan, StartWatcher, RefreshEnds, RefreshThrows, previewVars
<1> QED BY <1>1, <1>2, <1>3, <1>4, <1>5 DEF PreviewNext

\* However edits, reports, walks and pages' loads overlap.
LEMMA PreviewInvHolds == PreviewInit /\ [][PreviewNext]_previewVars => [](ModuleInv /\ PageInv)
<1>1. PreviewInit => ModuleInv /\ PageInv
  <2> SUFFICES ASSUME PreviewInit PROVE ModuleInv /\ PageInv
    OBVIOUS
  <2>1. walk # Nothing
    BY DEF PreviewInit, Nothing
  <2>2. 0 \in 0 .. MaxFileEdits /\ 0 \in 0 .. MaxThrows
    BY PreviewAssumption
  <2> QED BY <2>1, <2>2 DEF PreviewInit, ModuleInv, PageInv, PreviewTypeOK, refreshInFlight
<1>2. ModuleInv /\ PageInv /\ [PreviewNext]_previewVars => (ModuleInv /\ PageInv)'
  <2> SUFFICES ASSUME ModuleInv, PageInv, [PreviewNext]_previewVars PROVE (ModuleInv /\ PageInv)'
    OBVIOUS
  <2>1. PageInv' /\ (pageVars' # pageVars => PreviewTypeOK')
    BY PageInvStep DEF ModuleInv
  <2>2. CASE UNCHANGED pluginVars
    <3>1. PreviewTypeOK'
      BY <2>1, <2>2 DEF ModuleInv, PreviewTypeOK, pageVars, pluginVars, refreshInFlight
    <3> QED BY <2>1, <2>2, <3>1 DEF ModuleInv, pluginVars, refreshInFlight
  <2>3. ASSUME NEW f \in Files, Edit(f) PROVE ModuleInv'
    BY <2>3, EditKeeps
  <2>4. CASE Rescan \/ \E f \in Files : Reported(f)
    <3>1. Refresh /\ events' \subseteq events
          /\ UNCHANGED <<files, server, currentSource, generated, fileEdits, throws, thrown, unwritten, pageVars>>
      BY <2>4 DEF Rescan, Reported
    <3> QED BY <2>1, <3>1, RefreshKeeps
  <2>5. CASE RefreshEnds \/ RefreshThrows
    BY <2>1, <2>5, RefreshEndKeeps
  <2>6. CASE StartWatcher
    <3>1. UNCHANGED <<files, events, walk, refreshQueued, currentSource, generated, fileEdits, throws, unheard, thrown, unwritten, modules, loads, view>>
          /\ server' \in {"scanning", "ready"}
      BY <2>6 DEF StartWatcher, pageVars
    <3>2. PreviewTypeOK'
      BY <3>1 DEF ModuleInv, PreviewTypeOK, refreshInFlight
    <3> QED BY <2>1, <3>1, <3>2 DEF ModuleInv, refreshInFlight
  <2>7. CASE HotUpdate \/ (\E l \in loads : LoadEnds(l)) \/ UNCHANGED previewVars
    BY <2>2, <2>7 DEF HotUpdate, LoadEnds, previewVars
  <2> QED BY <2>1, <2>3, <2>4, <2>5, <2>6, <2>7 DEF PreviewNext
<1> QED BY <1>1, <1>2, PTL

\* However edits, the watcher's reports, walks, notes and throws overlap, a preview
\* server at rest has listed every file there is, unless its latest refresh threw, a list
\* was not written or a change was not heard of; and a page shows nothing of a load that
\* an update has overtaken.
THEOREM PreviewsAgree == PreviewInit /\ [][PreviewNext]_previewVars => []PreviewAgrees
<1>1. ModuleInv => ModuleIsCurrent
  BY DEF ModuleInv, ModuleIsCurrent, AtRest, PreviewTypeOK
<1>2. ModuleInv /\ PageInv => PreviewIsOfItsModule
  BY DEF ModuleInv, PageInv, PreviewIsOfItsModule, PreviewTypeOK
<1> QED BY <1>1, <1>2, PreviewInvHolds, PTL DEF PreviewAgrees

------------------------------------------------------------------------------
(* OfflineBanner.                                                          *)

\* What connect() and the socket's handlers keep to: a socket is closing only if
\* connect() has closed it, and the timer that is held has still to fire.
BannerInv ==
    /\ BannerTypeOK
    /\ BannerKnows
    /\ \A s \in Sockets : probe[s] = "closing" => overlapped
    /\ held => waiting > 0

\* connect() replaces the probe by a new one, which is connecting.
LEMMA ReprobeKeeps ==
    ASSUME BannerInv, Reprobe,
           waiting' \in Nat, held' \in BOOLEAN, held' => waiting' > 0, retries' \in 0 .. MaxRetries,
           UNCHANGED <<connState, dismissed, losses>>
    PROVE  BannerInv'
<1> DEFINE closed == [s \in Sockets |-> IF s = wsRef /\ probe[s] # "none" THEN "closing" ELSE probe[s]]
           free   == {s \in Sockets : probe[s] = "none"} \ {wsRef}
<1> USE DEF BannerInv, BannerTypeOK, BannerKnows
<1>1. PICK new \in free : /\ probe' = [closed EXCEPT ![new] = "connecting"]
                          /\ wsRef' = new
                          /\ overlapped' = (overlapped \/ closed # probe)
  <2>1. free # {} => (CHOOSE s \in free : TRUE) \in free
    OBVIOUS
  <2> QED BY <2>1 DEF Reprobe
<1>2. /\ closed \in [Sockets -> {"none", "connecting", "open", "closing"}]
      /\ \A s \in Sockets : closed[s] \in {"none", "closing"}
  BY DEF OneProbe
<1>3. closed = probe => probe[wsRef] = "none" \/ probe[wsRef] = "closing" \/ wsRef \notin Sockets
  OBVIOUS
<1> HIDE DEF closed
<1>4. new \in Sockets /\ \A s \in Sockets : probe'[s] = IF s = new THEN "connecting" ELSE closed[s]
  BY <1>1, <1>2
<1>5. overlapped' \in BOOLEAN
  BY <1>1, Zenon
<1>6. BannerTypeOK'
  BY <1>1, <1>2, <1>4, <1>5
<1>7. OneProbe' /\ ProbeContinues'
  BY <1>1, <1>2, <1>4 DEF OneProbe, ProbeContinues
<1>8. ASSUME ~overlapped' PROVE \A s \in Sockets : probe[s] = "none"
  <2>1. closed = probe /\ ~overlapped
    BY <1>1, <1>8
  <2> QED BY <1>2, <2>1
<1>9. BannerIsRight'
  BY <1>4, <1>7, <1>8, <1>1, <1>2 DEF BannerIsRight
<1>10. \A s \in Sockets : probe'[s] = "closing" => overlapped'
  <2> SUFFICES ASSUME NEW s \in Sockets, probe'[s] = "closing", ~overlapped' PROVE FALSE
    OBVIOUS
  <2>1. closed = probe /\ probe[s] = "none"
    BY <1>1, <1>8
  <2> QED BY <1>4, <2>1
<1> QED BY <1>6, <1>7, <1>9, <1>10

\* A close event, which only the probe itself has or one that connect() closed.
LEMMA OnCloseKeeps ==
    ASSUME BannerInv, NEW s \in Sockets, OnClose(s), losses' \in 0 .. MaxLosses,
           UNCHANGED <<wsRef, dismissed, retries, overlapped>>,
           probe[s] \in {"connecting", "open", "closing"}
    PROVE  BannerInv'
<1> USE DEF BannerInv, BannerTypeOK, BannerKnows
<1>1. /\ probe' = [probe EXCEPT ![s] = "none"] /\ connState' = "offline"
      /\ waiting' = waiting + 1 /\ held' = TRUE
  BY DEF OnClose
<1>2. waiting' > 0
  BY <1>1
<1>3. \A r \in Sockets : probe'[r] = IF r = s THEN "none" ELSE probe[r]
  BY <1>1
<1>4. BannerTypeOK'
  BY <1>1
<1>5. BannerIsRight'
  BY <1>1, <1>3 DEF BannerIsRight, OneProbe
<1>6. OneProbe' /\ ProbeContinues'
  BY <1>2, <1>3 DEF OneProbe, ProbeContinues
<1> QED BY <1>1, <1>2, <1>3, <1>4, <1>5, <1>6

\* However timers fire, buttons are clicked and close events come.
LEMMA BannerInvHolds == BannerInit /\ [][BannerNext]_bannerVars => []BannerInv
<1>1. BannerInit => BannerInv
  <2> SUFFICES ASSUME BannerInit PROVE BannerInv
    OBVIOUS
  <2>1. \A s \in Sockets : probe[s] = IF s = wsRef THEN "connecting" ELSE "none"
    BY DEF BannerInit
  <2>2. BannerTypeOK
    <3>1. probe \in [Sockets -> {"none", "connecting", "open", "closing"}]
      BY DEF BannerInit
    <3>2. 0 \in 0 .. MaxLosses /\ 0 \in 0 .. MaxRetries
      BY BannerAssumption
    <3>3. {held, dismissed, overlapped} \subseteq BOOLEAN
      BY Zenon DEF BannerInit
    <3> QED BY <3>1, <3>2, <3>3 DEF BannerInit, BannerTypeOK
  <2> QED BY <2>1, <2>2 DEF BannerInit, BannerInv, BannerKnows, OneProbe, ProbeContinues, BannerIsRight
<1>2. BannerInv /\ [BannerNext]_bannerVars => BannerInv'
  <2> SUFFICES ASSUME BannerInv, [BannerNext]_bannerVars PROVE BannerInv'
    OBVIOUS
  <2> USE DEF BannerInv, BannerTypeOK
  <2>1. CASE Reconnects
    <3>1. waiting' \in Nat /\ (held' => waiting' > 0)
      <4>1. waiting > 0 /\ waiting' = waiting - 1
        BY <2>1 DEF Reconnects
      <4>2. held' => waiting > 1
        BY <2>1, Zenon DEF Reconnects
      <4> QED BY <4>1, <4>2
    <3>2. held' \in BOOLEAN
      BY <2>1, Zenon DEF Reconnects
    <3> QED BY <2>1, <3>1, <3>2, ReprobeKeeps DEF Reconnects
  <2>2. CASE Retry
    <3>1. waiting' \in Nat /\ held' = FALSE /\ retries' \in 0 .. MaxRetries
      BY <2>2, BannerAssumption DEF Retry
    <3> QED BY <2>2, <3>1, ReprobeKeeps DEF Retry
  <2>3. ASSUME NEW s \in Sockets, ProbeOpens(s) PROVE BannerInv'
    <3>1. \A r \in Sockets : probe'[r] = IF r = s THEN "open" ELSE probe[r]
      BY <2>3 DEF ProbeOpens
    <3>2. BannerTypeOK'
      BY <2>3 DEF ProbeOpens
    <3> QED BY <2>3, <3>1, <3>2 DEF ProbeOpens, BannerKnows, OneProbe, ProbeContinues, BannerIsRight
  <2>4. ASSUME NEW s \in Sockets, ProbeFails(s) PROVE BannerInv'
    <3>1. losses' \in 0 .. MaxLosses
      BY <2>4, BannerAssumption DEF ProbeFails
    <3> QED BY <2>4, <3>1, OnCloseKeeps DEF ProbeFails
  <2>5. ASSUME NEW s \in Sockets, ProbeCloses(s) PROVE BannerInv'
    BY <2>5, OnCloseKeeps DEF ProbeCloses
  <2>6. CASE DismissBanner
    BY <2>6 DEF DismissBanner, BannerKnows, OneProbe, ProbeContinues, BannerIsRight
  <2>7. CASE UNCHANGED bannerVars
    BY <2>7 DEF bannerVars, BannerKnows, OneProbe, ProbeContinues, BannerIsRight
  <2> QED BY <2>1, <2>2, <2>3, <2>4, <2>5, <2>6, <2>7 DEF BannerNext, Settle
<1> QED BY <1>1, <1>2, PTL

\* However connections are failed, timers that were forgotten fire and Retry is clicked,
\* the banner has one probe or is about to have it, and as long as no click closed a
\* socket that was still connecting it is shown as online exactly while a probe is open.
THEOREM BannerAlwaysKnows == BannerInit /\ [][BannerNext]_bannerVars => []BannerKnows
<1>1. BannerInv => BannerKnows
  BY DEF BannerInv
<1> QED BY <1>1, BannerInvHolds, PTL

------------------------------------------------------------------------------
(* SettingsPage.                                                           *)

\* What a field of a PUT that was written must be stored as.
StoredAs(typed) == IF typed = Empty THEN Unset ELSE typed

\* The forms show the data of the query, which differ from the rows only in fields
\* being saved, or are about to be asked for again; a written field of a save is
\* stored as sent; no row is empty; and a URL under test is the one in its field.
ConfigInv ==
    /\ SettingsTypeOK
    /\ \A f \in Fields : bot_config[f] # Empty
    /\ \A f \in Fields \ edited : draft[f] = Display(data)[f]
    /\ query = "idle" /\ ~excused =>
         \A f \in Fields \ UNION saving : data[f] = Merged(bot_config)[f]
    /\ query = "answered" /\ ~excused =>
         \A f \in Fields \ UNION saving : answer[f] = Merged(bot_config)[f]
    /\ \A card \in saving : \A f \in (card \ left) \ foreign : bot_config[f] = StoredAs(body[f])
    /\ testing # Unset /\ ~overtaken => testing = draft[RpcField]
    /\ tested # Unset /\ ~overtaken => tested = draft[RpcField]

\* The routes read and write rows of the types of their tables.
LEMMA ConfigTypes ==
    /\ \A rows \in Answers : Merged(rows) \in Answers
    /\ \A config \in Answers : Display(config) \in [Fields -> Texts \cup {Empty}]
    /\ [f \in Fields |-> Unset] \in Answers
    /\ \A typed \in Texts \cup {Empty} : StoredAs(typed) \in Texts \cup {Unset} /\ StoredAs(typed) # Empty
BY SettingsAssumption DEF Merged, Display, Answers, StoredAs

\* A field that is written, by a PUT or from elsewhere.
LEMMA RowsKeep ==
    ASSUME ConfigInv, NEW f \in Fields, NEW typed \in Texts \cup {Empty},
           bot_config' = StoreField(f, typed)
    PROVE  /\ bot_config' \in Answers
           /\ bot_config'[f] = StoredAs(typed)
           /\ \A g \in Fields : bot_config'[g] # Empty
           /\ \A g \in Fields \ {f} : /\ bot_config'[g] = bot_config[g]
                                      /\ Merged(bot_config')[g] = Merged(bot_config)[g]
<1>1. bot_config' = [bot_config EXCEPT ![f] = StoredAs(typed)] /\ bot_config \in Answers
  BY DEF StoreField, StoredAs, ConfigInv, SettingsTypeOK
<1>2. StoredAs(typed) \in Texts \cup {Unset} /\ StoredAs(typed) # Empty
  BY ConfigTypes
<1>3. \A g \in Fields : bot_config'[g] # Empty
  BY <1>1, <1>2 DEF Answers, ConfigInv
<1> QED BY <1>1, <1>2, <1>3 DEF Answers, Merged

\* A field that is written by someone else than the PUT under way.
LEMMA OthersKeep ==
    ASSUME ConfigInv, NEW f \in Fields, NEW typed \in Texts \cup {Empty},
           bot_config' = StoreField(f, typed), WrittenByOther(f), strays' \subseteq strays,
           mishaps' \in 0 .. MaxMishaps,
           UNCHANGED <<data, query, answer, draft, edited, saving, body, left, testing, tested, saves, edits, overtaken>>
    PROVE  ConfigInv'
<1>1. /\ bot_config' \in Answers
      /\ \A g \in Fields : bot_config'[g] # Empty
      /\ \A g \in Fields \ {f} : bot_config'[g] = bot_config[g]
  BY RowsKeep
<1>2. excused' = TRUE /\ foreign' = foreign \cup ({f} \cap UNION saving)
  BY DEF WrittenByOther
<1>3. SettingsTypeOK'
  BY <1>1, <1>2 DEF ConfigInv, SettingsTypeOK
<1>4. Display(data)' = Display(data)
  BY DEF Display
<1>5. \A card \in saving' : \A g \in (card \ left') \ foreign' : bot_config'[g] = StoredAs(body'[g])
  <2> SUFFICES ASSUME NEW card \in saving, NEW g \in (card \ left) \ foreign' PROVE bot_config'[g] = StoredAs(body[g])
    BY DEF StoredAs
  <2>1. g \in Fields \ {f} /\ g \notin foreign
    BY <1>2 DEF ConfigInv, SettingsTypeOK, Fields
  <2> QED BY <1>1, <2>1 DEF ConfigInv
<1> QED BY <1>1, <1>2, <1>3, <1>4, <1>5 DEF ConfigInv

\* The routes' steps.
LEMMA RoutesKeep ==
    ASSUME ConfigInv,
           \/ ServeConfig
           \/ \E f \in Fields : WriteField(f)
           \/ \E w \in strays : WriteStray(w) \/ StrayFails(w)
           \/ \E f \in Fields, typed \in Texts \cup {Empty} : SavedElsewhere(f, typed)
    PROVE  ConfigInv'
<1>1. CASE ServeConfig
  <2>1. /\ query' = "answered"
        /\ UNCHANGED <<bot_config, data, draft, edited, saving, body, left, strays, testing, tested, saves, edits, overtaken, foreign>>
        /\ \/ answer' = Merged(bot_config) /\ excused' = FALSE /\ UNCHANGED mishaps
           \/ Mishap /\ answer' = Merged([f \in Fields |-> Unset]) /\ excused' = TRUE
    BY <1>1 DEF ServeConfig, formVars, putVars, testVars
  <2>2. answer' \in Answers
    BY <2>1, ConfigTypes DEF ConfigInv, SettingsTypeOK
  <2>3. mishaps' \in 0 .. MaxMishaps /\ excused' \in BOOLEAN
    <3>1. mishaps \in 0 .. MaxMishaps /\ MaxMishaps \in Nat
      BY SettingsAssumption DEF ConfigInv, SettingsTypeOK
    <3>2. mishaps' = mishaps \/ (mishaps < MaxMishaps /\ mishaps' = mishaps + 1)
      BY <2>1, Zenon DEF Mishap
    <3>3. mishaps' \in 0 .. MaxMishaps
      BY <3>1, <3>2
    <3> QED BY <2>1, <3>3
  <2>4. SettingsTypeOK'
    BY <2>1, <2>2, <2>3 DEF ConfigInv, SettingsTypeOK
  <2>5. Display(data)' = Display(data) /\ Merged(bot_config)' = Merged(bot_config)
    BY <2>1 DEF Display, Merged
  <2>6. ~excused' => answer' = Merged(bot_config)
    BY <2>1
  <2> QED BY <2>1, <2>4, <2>5, <2>6 DEF ConfigInv
<1>2. ASSUME NEW f \in Fields, WriteField(f) PROVE ConfigInv'
  <2>1. /\ f \in left /\ left' = left \ {f} /\ bot_config' = StoreField(f, body[f])
        /\ foreign' = foreign \ {f}
        /\ UNCHANGED <<data, query, answer, draft, edited, saving, body, strays, testing, tested, saves, edits, mishaps, excused, overtaken>>
    BY <1>2 DEF WriteField, queryVars, formVars, testVars, tally
  <2>2. body[f] \in Texts \cup {Empty} /\ f \in UNION saving
    BY <2>1 DEF ConfigInv, SettingsTypeOK
  <2>3. /\ bot_config' \in Answers
        /\ bot_config'[f] = StoredAs(body[f])
        /\ \A g \in Fields : bot_config'[g] # Empty
        /\ \A g \in Fields \ {f} : bot_config'[g] = bot_config[g] /\ Merged(bot_config')[g] = Merged(bot_config)[g]
    BY <2>1, <2>2, RowsKeep
  <2>4. SettingsTypeOK'
    BY <2>1, <2>3 DEF ConfigInv, SettingsTypeOK
  <2>5. Display(data)' = Display(data) /\ Merged(bot_config)' = Merged(bot_config')
    BY <2>1 DEF Display, Merged
  <2>6. \A g \in Fields \ UNION saving : Merged(bot_config')[g] = Merged(bot_config)[g]
    BY <2>2, <2>3
  <2>7. \A card \in saving' : \A g \in (card \ left') \ foreign' : bot_config'[g] = StoredAs(body'[g])
    <3> SUFFICES ASSUME NEW card \in saving, NEW g \in (card \ left') \ foreign' PROVE bot_config'[g] = StoredAs(body[g])
      BY <2>1 DEF StoredAs
    <3>1. g \in Fields
      BY DEF ConfigInv, SettingsTypeOK, Fields
    <3> QED BY <2>1, <2>3, <3>1 DEF ConfigInv
  <2> QED BY <2>1, <2>3, <2>4, <2>5, <2>6, <2>7 DEF ConfigInv
<1>3. ASSUME NEW w \in strays, WriteStray(w) PROVE ConfigInv'
  <2>1. w.field \in Fields /\ w.text \in Texts \cup {Empty}
    BY DEF ConfigInv, SettingsTypeOK, Strays
  <2>2. /\ bot_config' = StoreField(w.field, w.text) /\ WrittenByOther(w.field)
        /\ strays' \subseteq strays
        /\ UNCHANGED <<data, query, answer, draft, edited, saving, body, left, testing, tested, saves, edits, mishaps, overtaken>>
    BY <1>3 DEF WriteStray, queryVars, formVars, testVars, tally
  <2>3. mishaps' \in 0 .. MaxMishaps
    BY <2>2 DEF ConfigInv, SettingsTypeOK
  <2> QED BY <2>1, <2>2, <2>3, OthersKeep
<1>4. ASSUME NEW w \in strays, StrayFails(w) PROVE ConfigInv'
  <2>1. /\ strays' \subseteq strays
        /\ UNCHANGED <<bot_config, data, query, answer, draft, edited, saving, body, left, testing, tested, saves, edits, mishaps, excused, overtaken, foreign>>
    BY <1>4 DEF StrayFails, queryVars, formVars, testVars, tally
  <2>2. Display(data)' = Display(data) /\ Merged(bot_config)' = Merged(bot_config)
    BY <2>1 DEF Display, Merged
  <2>3. \A card \in saving' : \A f \in (card \ left') \ foreign' : bot_config'[f] = StoredAs(body'[f])
    BY <2>1 DEF ConfigInv, StoredAs
  <2>4. SettingsTypeOK'
    BY <2>1 DEF ConfigInv, SettingsTypeOK
  <2> QED BY <2>1, <2>2, <2>3, <2>4 DEF ConfigInv
<1>5. ASSUME NEW f \in Fields, NEW typed \in Texts \cup {Empty}, SavedElsewhere(f, typed) PROVE ConfigInv'
  <2>1. /\ bot_config' = StoreField(f, typed) /\ WrittenByOther(f) /\ strays' \subseteq strays
        /\ UNCHANGED <<data, query, answer, draft, edited, saving, body, left, testing, tested, saves, edits, overtaken>>
    BY <1>5 DEF SavedElsewhere, queryVars, formVars, putVars, testVars
  <2>2. mishaps' \in 0 .. MaxMishaps
    BY <1>5, SettingsAssumption DEF SavedElsewhere, Mishap, ConfigInv, SettingsTypeOK
  <2> QED BY <2>1, <2>2, OthersKeep
<1> QED BY <1>1, <1>2, <1>3, <1>4, <1>5

\* The page's steps around a query.
LEMMA QueryKeeps ==
    ASSUME ConfigInv, Refetch \/ ConfigArrives \/ ConfigFails
    PROVE  ConfigInv'
<1>1. UNCHANGED <<bot_config, saving, body, left, strays, testing, tested, saves, edits, foreign>>
  BY DEF Refetch, ConfigArrives, ConfigFails, putVars, testVars, tally
<1>2. Merged(bot_config)' = Merged(bot_config)
  BY <1>1 DEF Merged
<1>3. \A card \in saving' : \A f \in (card \ left') \ foreign' : bot_config'[f] = StoredAs(body'[f])
  BY <1>1 DEF ConfigInv, StoredAs
<1>4. CASE Refetch
  <2>1. query' = "asked" /\ UNCHANGED <<data, answer, draft, edited, mishaps, excused, overtaken>>
    BY <1>4 DEF Refetch, formVars, tally
  <2>2. SettingsTypeOK'
    BY <1>1, <2>1 DEF ConfigInv, SettingsTypeOK
  <2>3. Display(data)' = Display(data)
    BY <2>1 DEF Display
  <2> QED BY <1>1, <1>3, <2>1, <2>2, <2>3 DEF ConfigInv
<1>5. CASE ConfigFails
  <2>1. query' = "idle" /\ answer' = data /\ excused' = TRUE /\ UNCHANGED <<data, draft, edited, overtaken>>
    BY <1>5 DEF ConfigFails, formVars
  <2>2. mishaps' \in 0 .. MaxMishaps
    BY <1>5, SettingsAssumption DEF ConfigFails, Mishap, ConfigInv, SettingsTypeOK
  <2>3. SettingsTypeOK'
    BY <1>1, <2>1, <2>2 DEF ConfigInv, SettingsTypeOK
  <2>4. Display(data)' = Display(data)
    BY <2>1 DEF Display
  <2> QED BY <1>1, <1>3, <2>1, <2>3, <2>4 DEF ConfigInv
<1>6. CASE ConfigArrives
  <2>1. /\ query = "answered" /\ query' = "idle" /\ data' = answer
        /\ UNCHANGED <<answer, mishaps, excused>>
    BY <1>6 DEF ConfigArrives, tally
  <2>2. ~excused' => \A f \in Fields \ UNION saving' : data'[f] = Merged(bot_config)'[f]
    BY <1>1, <1>2, <2>1 DEF ConfigInv
  <2>3. CASE answer = data
    <3>1. UNCHANGED <<draft, edited, overtaken, data>>
      BY <1>6, <2>1, <2>3 DEF ConfigArrives, formVars
    <3>2. SettingsTypeOK'
      BY <1>1, <2>1, <3>1 DEF ConfigInv, SettingsTypeOK
    <3>3. Display(data)' = Display(data)
      BY <3>1 DEF Display
    <3> QED BY <1>1, <1>3, <2>1, <2>2, <3>1, <3>2, <3>3 DEF ConfigInv
  <2>4. CASE answer # data
    <3>1. draft' = Display(answer) /\ edited' = {} /\ overtaken' = (overtaken \/ (draft'[RpcField] # draft[RpcField]))
      BY <1>6, <2>4 DEF ConfigArrives
    <3>2. overtaken' \in BOOLEAN
      BY <3>1, Zenon
    <3>3. draft' \in [Fields -> Texts \cup {Empty}]
      BY <3>1, ConfigTypes DEF ConfigInv, SettingsTypeOK
    <3>4. SettingsTypeOK'
      BY <1>1, <2>1, <3>1, <3>2, <3>3 DEF ConfigInv, SettingsTypeOK
    <3>5. Display(data)' = Display(answer)
      BY <2>1 DEF Display
    <3>6. ~overtaken' => ~overtaken /\ draft'[RpcField] = draft[RpcField]
      BY <3>1
    <3> QED BY <1>1, <1>3, <2>1, <2>2, <3>1, <3>4, <3>5, <3>6 DEF ConfigInv
  <2> QED BY <2>3, <2>4
<1> QED BY <1>4, <1>5, <1>6

\* A PUT that begins or ends changes what is sent for its own form only.
LEMMA PutsKeep ==
    ASSUME ConfigInv, NEW card \in Forms, Save(card) \/ Saved(card) \/ SaveFails(card)
    PROVE  ConfigInv'
<1>1. UNCHANGED <<bot_config, data, draft, edited, testing, tested, edits, overtaken>>
  BY DEF Save, Saved, SaveFails, queryVars, formVars, testVars, tally
<1>2. Merged(bot_config)' = Merged(bot_config) /\ Display(data)' = Display(data)
  BY <1>1 DEF Merged, Display
<1>3. CASE Save(card)
  <2>1. /\ saves < MaxSaves /\ saves' = saves + 1
        /\ saving' = saving \cup {card} /\ left' = left \cup card
        /\ body' = [f \in Fields |-> IF f \in card THEN draft[f] ELSE body[f]]
        /\ UNCHANGED <<query, answer, strays, mishaps, excused, foreign>>
    BY <1>3 DEF Save, queryVars
  <2>2. saves' \in 0 .. MaxSaves
    BY <2>1, SettingsAssumption DEF ConfigInv, SettingsTypeOK
  <2>3. /\ body' \in [Fields -> Texts \cup {Empty}] /\ saving' \subseteq Forms /\ left' \subseteq UNION saving'
    BY <2>1 DEF ConfigInv, SettingsTypeOK
  <2>4. SettingsTypeOK'
    BY <1>1, <2>1, <2>2, <2>3 DEF ConfigInv, SettingsTypeOK
  <2>5. \A g \in saving' : \A f \in (g \ left') \ foreign' : bot_config'[f] = StoredAs(body'[f])
    <3> SUFFICES ASSUME NEW g \in saving', NEW f \in (g \ left') \ foreign' PROVE bot_config'[f] = StoredAs(body'[f])
      OBVIOUS
    <3>1. g \in saving /\ f \notin card /\ f \in (g \ left) \ foreign /\ f \in Fields
      BY <2>1, <2>3 DEF Fields
    <3>2. body'[f] = body[f]
      BY <2>1, <3>1
    <3> QED BY <1>1, <3>1, <3>2 DEF ConfigInv
  <2>6. Fields \ UNION saving' \subseteq Fields \ UNION saving
    BY <2>1
  <2> QED BY <1>1, <1>2, <2>1, <2>4, <2>5, <2>6 DEF ConfigInv
<1>4. CASE Saved(card) \/ SaveFails(card)
  <2>1. /\ saving' = saving \ {card} /\ foreign' = foreign \ card
        /\ body' = [f \in Fields |-> IF f \in card THEN Empty ELSE body[f]]
        /\ left' = left \ card
        /\ UNCHANGED saves
        /\ \/ query' = "asked" /\ answer' = data /\ UNCHANGED <<strays, mishaps, excused>>
           \/ /\ Mishap /\ excused' = TRUE /\ UNCHANGED <<query, answer>>
              /\ strays' \subseteq strays \cup {[put |-> mishaps, field |-> f, text |-> body[f]] : f \in left \cap card}
    <3>1. CASE Saved(card)
      BY <3>1 DEF Saved, PutEnds, tally
    <3>2. CASE SaveFails(card)
      BY <3>2 DEF SaveFails, PutEnds, queryVars
    <3> QED BY <1>4, <3>1, <3>2
  <2>2. mishaps' \in 0 .. MaxMishaps /\ excused' \in BOOLEAN
    <3>1. mishaps \in 0 .. MaxMishaps /\ MaxMishaps \in Nat /\ excused \in BOOLEAN
      BY SettingsAssumption DEF ConfigInv, SettingsTypeOK
    <3>2. mishaps' = mishaps \/ (mishaps < MaxMishaps /\ mishaps' = mishaps + 1)
      BY <2>1, Zenon DEF Mishap
    <3>3. mishaps' \in 0 .. MaxMishaps
      BY <3>1, <3>2
    <3> QED BY <2>1, <3>1, <3>3
  <2>3. /\ body' \in [Fields -> Texts \cup {Empty}] /\ saving' \subseteq Forms /\ left' \subseteq UNION saving'
        /\ foreign' \subseteq Fields
    BY <2>1 DEF ConfigInv, SettingsTypeOK
  <2>7. strays' \subseteq Strays
    <3>1. {[put |-> mishaps, field |-> f, text |-> body[f]] : f \in left \cap card} \subseteq Strays
      BY DEF ConfigInv, SettingsTypeOK, Strays, Fields
    <3> QED BY <2>1, <3>1 DEF ConfigInv, SettingsTypeOK
  <2>4. SettingsTypeOK'
    BY <1>1, <2>1, <2>2, <2>3, <2>7 DEF ConfigInv, SettingsTypeOK
  <2>5. \A g \in saving' : \A f \in (g \ left') \ foreign' : bot_config'[f] = StoredAs(body'[f])
    <3> SUFFICES ASSUME NEW g \in saving', NEW f \in (g \ left') \ foreign' PROVE bot_config'[f] = StoredAs(body'[f])
      OBVIOUS
    <3>1. g \in saving /\ g # card /\ g \in Forms
      BY <2>1, <2>3
    <3>2. f \in Fields /\ f \notin card
      BY <3>1, SettingsAssumption DEF Fields
    <3>3. f \in (g \ left) \ foreign /\ body'[f] = body[f]
      BY <2>1, <3>2
    <3> QED BY <1>1, <3>1, <3>3 DEF ConfigInv
  <2>6. ~(query' \in {"idle", "answered"} /\ ~excused')
    BY <2>1
  <2> QED BY <1>1, <1>2, <2>4, <2>5, <2>6 DEF ConfigInv
<1> QED BY <1>3, <1>4

\* Typing and the test of the URL.
LEMMA FieldsKeep ==
    ASSUME ConfigInv, \/ TestRpc \/ TestAnswers
                      \/ \E f \in Fields, typed \in Texts \cup {Empty} : TypeField(f, typed)
    PROVE  ConfigInv'
<1>1. UNCHANGED <<bot_config, data, query, answer, saving, body, left, strays, saves, mishaps, excused, foreign>>
  BY DEF TestRpc, TestAnswers, TypeField, queryVars, putVars, tally
<1>2. Merged(bot_config)' = Merged(bot_config) /\ Display(data)' = Display(data)
  BY <1>1 DEF Merged, Display
<1>3. \A card \in saving' : \A f \in (card \ left') \ foreign' : bot_config'[f] = StoredAs(body'[f])
  BY <1>1 DEF ConfigInv, StoredAs
<1>4. CASE TestRpc
  <2>1. /\ testing' = draft[RpcField] /\ tested' = Unset /\ overtaken' = FALSE /\ draft[RpcField] # Empty
        /\ UNCHANGED <<draft, edited, edits>>
    BY <1>4 DEF TestRpc, formVars, tally
  <2>2. testing' \in Texts
    BY <2>1, SettingsAssumption DEF ConfigInv, SettingsTypeOK
  <2>3. SettingsTypeOK'
    BY <1>1, <2>1, <2>2 DEF ConfigInv, SettingsTypeOK
  <2> QED BY <1>1, <1>2, <1>3, <2>1, <2>3 DEF ConfigInv
<1>5. CASE TestAnswers
  <2>1. tested' = testing /\ testing' = Unset /\ testing # Unset /\ UNCHANGED <<draft, edited, edits, overtaken>>
    BY <1>5 DEF TestAnswers, formVars, tally
  <2>2. SettingsTypeOK'
    BY <1>1, <2>1 DEF ConfigInv, SettingsTypeOK
  <2> QED BY <1>1, <1>2, <1>3, <2>1, <2>2 DEF ConfigInv
<1>6. ASSUME NEW f \in Fields, NEW typed \in Texts \cup {Empty}, TypeField(f, typed) PROVE ConfigInv'
  <2>1. /\ edits < MaxEdits /\ edits' = edits + 1
        /\ draft' = [draft EXCEPT ![f] = typed] /\ edited' = edited \cup {f}
        /\ tested' = IF f = RpcField THEN Unset ELSE tested
        /\ UNCHANGED testing
    BY <1>6 DEF TypeField
  <2>2. overtaken' = IF f = RpcField THEN testing # Unset ELSE overtaken
    BY <1>6 DEF TypeField
  <2>3. overtaken' \in BOOLEAN
    <3>1. (testing # Unset) \in BOOLEAN /\ overtaken \in BOOLEAN
      BY DEF ConfigInv, SettingsTypeOK
    <3> QED BY <2>2, <3>1, Zenon
  <2>4. edits' \in 0 .. MaxEdits
    BY <2>1, SettingsAssumption DEF ConfigInv, SettingsTypeOK
  <2>5. draft \in [Fields -> Texts \cup {Empty}] /\ draft' \in [Fields -> Texts \cup {Empty}]
    BY <2>1 DEF ConfigInv, SettingsTypeOK
  <2>6. SettingsTypeOK'
    BY <1>1, <2>1, <2>3, <2>4, <2>5 DEF ConfigInv, SettingsTypeOK
  <2>7. \A g \in Fields \ edited' : draft'[g] = Display(data)'[g]
    BY <1>2, <2>1, <2>5 DEF ConfigInv
  <2>8. CASE f = RpcField
    <3>1. tested' = Unset /\ (~overtaken' => testing' = Unset)
      BY <2>1, <2>2, <2>8
    <3> QED BY <1>1, <1>2, <1>3, <2>6, <2>7, <3>1 DEF ConfigInv
  <2>9. CASE f # RpcField
    <3>1. UNCHANGED <<tested, testing, overtaken>> /\ draft'[RpcField] = draft[RpcField]
      BY <2>1, <2>2, <2>5, <2>9, SettingsAssumption
    <3> QED BY <1>1, <1>2, <1>3, <2>6, <2>7, <3>1 DEF ConfigInv
  <2> QED BY <2>8, <2>9
<1> QED BY <1>4, <1>5, <1>6

\* However saves of several cards, queries, typing, tests and other browsers overlap.
LEMMA ConfigInvHolds == SettingsInit /\ [][SettingsNext]_settingsVars => []ConfigInv
<1>1. SettingsInit => ConfigInv
  <2> SUFFICES ASSUME SettingsInit PROVE ConfigInv
    OBVIOUS
  <2>1. data \in Answers /\ draft \in [Fields -> Texts \cup {Empty}] /\ body \in [Fields -> Texts \cup {Empty}]
    <3>1. bot_config \in Answers
      BY DEF SettingsInit, Answers
    <3>2. data \in Answers
      BY <3>1, ConfigTypes DEF SettingsInit
    <3> QED BY <3>2, ConfigTypes DEF SettingsInit
  <2>2. 0 \in 0 .. MaxSaves /\ 0 \in 0 .. MaxEdits /\ 0 \in 0 .. MaxMishaps
    BY SettingsAssumption
  <2>3. SettingsTypeOK
    BY <2>1, <2>2 DEF SettingsInit, SettingsTypeOK, Answers
  <2> QED BY <2>3, SettingsAssumption DEF SettingsInit, ConfigInv
<1>2. ConfigInv /\ [SettingsNext]_settingsVars => ConfigInv'
  <2> SUFFICES ASSUME ConfigInv, [SettingsNext]_settingsVars PROVE ConfigInv'
    OBVIOUS
  <2>1. CASE UNCHANGED settingsVars
    <3>1. UNCHANGED <<bot_config, data, query, answer, draft, edited, saving, body, left, strays, testing, tested, saves, edits, mishaps, excused, overtaken, foreign>>
      BY <2>1 DEF settingsVars, queryVars, formVars, putVars, testVars, tally
    <3>2. /\ Display(data)' = Display(data) /\ Merged(bot_config)' = Merged(bot_config)
      BY <3>1 DEF Display, Merged
    <3>3. \A card \in saving' : \A f \in (card \ left') \ foreign' : bot_config'[f] = StoredAs(body'[f])
      BY <3>1 DEF ConfigInv, StoredAs
    <3>4. SettingsTypeOK'
      BY <3>1 DEF ConfigInv, SettingsTypeOK
    <3> QED BY <3>1, <3>2, <3>3, <3>4 DEF ConfigInv
  <2> QED BY <2>1, RoutesKeep, QueryKeeps, PutsKeep, FieldsKeep DEF SettingsNext
<1> QED BY <1>1, <1>2, PTL

\* At rest the fields nobody has typed into show what is in force, unless a read or a
\* save failed, or something was written that no save on this page reported; status and
\* config name the same source of every field but one that is set to "" in the
\* environment; and a test result is of the URL in the field, unless it was typed into or
\* reset meanwhile; whatever routes, queries, cards and handlers do at the same time.
THEOREM PageIsAlwaysTrue == SettingsInit /\ [][SettingsNext]_settingsVars => []PageIsTrue
<1>1. ConfigInv => FormsShowWhatIsStored
  <2> SUFFICES ASSUME ConfigInv, query = "idle", saving = {}, ~excused, NEW f \in Fields \ edited
      PROVE  draft[f] = Display(Merged(bot_config))[f]
    BY DEF FormsShowWhatIsStored
  <2>1. data[f] = Merged(bot_config)[f]
    BY DEF ConfigInv
  <2> QED BY <2>1 DEF ConfigInv, Display
<1>2. ConfigInv => SourcesAgree
  BY SettingsAssumption DEF ConfigInv, SettingsTypeOK, Answers, SourcesAgree, StatusSource, ConfigSource
<1>3. ConfigInv => ResultIsForField
  BY DEF ConfigInv, ResultIsForField
<1> QED BY <1>1, <1>2, <1>3, ConfigInvHolds, PTL DEF PageIsTrue

\* handleSave says "saved" only when every field of the card is stored as it was sent,
\* unless another browser, or the handler of a save that was given up, has written it
\* since.
THEOREM SavesAreStored == SettingsInit /\ [][SettingsNext]_settingsVars => SavedIsStored
<1> DEFINE Stored == \A card \in saving \ saving' :
              mishaps' = mishaps => \A f \in card \ foreign : bot_config = StoreField(f, body[f])
<1>1. ConfigInv /\ [SettingsNext]_settingsVars => [Stored]_settingsVars
  <2> SUFFICES ASSUME ConfigInv, SettingsNext, NEW card \in saving \ saving', mishaps' = mishaps,
                      NEW f \in card \ foreign
      PROVE  bot_config = StoreField(f, body[f])
    OBVIOUS
  <2>1. ASSUME NEW g \in Forms, SaveFails(g) PROVE FALSE
    BY <2>1 DEF SaveFails, Mishap, ConfigInv, SettingsTypeOK
  <2>2. ASSUME NEW g \in Forms, Save(g) PROVE FALSE
    BY <2>2 DEF Save
  <2>3. ASSUME \/ Refetch \/ ServeConfig \/ ConfigArrives \/ ConfigFails \/ TestRpc \/ TestAnswers
               \/ \E g \in Fields : WriteField(g)
               \/ \E w \in strays : WriteStray(w) \/ StrayFails(w)
               \/ \E g \in Fields, typed \in Texts \cup {Empty} : TypeField(g, typed) \/ SavedElsewhere(g, typed)
        PROVE  FALSE
    BY <2>3 DEF Refetch, ServeConfig, ConfigArrives, ConfigFails, TestRpc, TestAnswers, WriteField,
                WriteStray, StrayFails, TypeField, SavedElsewhere, putVars
  <2>4. PICK g \in Forms : Saved(g)
    <3>1. \/ \E g \in Forms : Save(g) \/ Saved(g) \/ SaveFails(g)
          \/ Refetch \/ ServeConfig \/ ConfigArrives \/ ConfigFails \/ TestRpc \/ TestAnswers
          \/ \E g \in Fields : WriteField(g)
          \/ \E w \in strays : WriteStray(w) \/ StrayFails(w)
          \/ \E g \in Fields, typed \in Texts \cup {Empty} : TypeField(g, typed) \/ SavedElsewhere(g, typed)
      BY Zenon DEF SettingsNext
    <3> QED BY <2>1, <2>2, <2>3, <3>1
  <2>5. g = card /\ left \cap card = {}
    BY <2>4 DEF Saved, PutEnds
  <2>6. bot_config[f] = StoredAs(body[f]) /\ f \in Fields
    BY <2>5 DEF ConfigInv, SettingsTypeOK, Fields
  <2> QED BY <2>6 DEF StoreField, StoredAs, ConfigInv, SettingsTypeOK, Answers
<1> QED BY <1>1, ConfigInvHolds, PTL DEF SavedIsStored

\* Every attempt of a call is within stop_after_attempt: one that is about to be made,
\* or to be waited for, is not the last yet.
AttemptsInv ==
    /\ SubTypeOK
    /\ \A c \in Calls : /\ pc[c] \in {"start", "backoff"} => attempt[c] < Attempts
                        /\ pc[c] = "idle" => attempt[c] = 0

\* What counting a failure may leave the breaker in.
LEMMA ErrorsKeepTypes ==
    ASSUME SubTypeOK, NEW fatal \in BOOLEAN, OnRpcError(fatal)
    PROVE  /\ connected' \in BOOLEAN /\ failures' \in Nat /\ cooled' \in BOOLEAN
           /\ state' \in {"CLOSED", "OPEN", "HALF_OPEN"}
<1>1. CASE ~fatal
  BY <1>1 DEF OnRpcError, breaker, SubTypeOK
<1>2. CASE fatal
  <2> DEFINE opens == state = "HALF_OPEN" \/ (state = "CLOSED" /\ failures + 1 >= Threshold)
  <2>1. /\ connected' = FALSE /\ failures' = failures + 1
        /\ state' = (IF opens THEN "OPEN" ELSE state)
        /\ cooled' = IF opens THEN FALSE ELSE cooled
    BY <1>2 DEF OnRpcError, RecordFailure
  <2> HIDE DEF opens
  <2>2. cooled' \in BOOLEAN /\ connected' \in BOOLEAN
    BY <2>1, Zenon DEF SubTypeOK
  <2>3. failures' \in Nat /\ state' \in {"CLOSED", "OPEN", "HALF_OPEN"}
    BY <2>1 DEF SubTypeOK
  <2> QED BY <2>2, <2>3
<1> QED BY <1>1, <1>2

\* A step of a call keeps to the types.
LEMMA AttemptsKeep ==
    ASSUME AttemptsInv, NEW c \in Calls,
           \/ Attempt(c) \/ Answered(c) \/ RetryCall(c)
           \/ \E fatal \in BOOLEAN : CallFails(c, fatal)
    PROVE  AttemptsInv'
<1> USE SubmissionAssumption
<1>1. Key(c) \in EngineKeys
  BY DEF Key, EngineKeys, AttemptsInv, SubTypeOK
<1>2. CASE Attempt(c)
  <2>1. \/ pc' = [pc EXCEPT ![c] = "sent"] /\ attempt' = [attempt EXCEPT ![c] = @ + 1] /\ UNCHANGED result
        \/ /\ pc' = [pc EXCEPT ![c] = "done"] /\ UNCHANGED attempt
           /\ result' = [result EXCEPT ![c] = "unavailable"]
    BY <1>2 DEF Attempt
  <2>2. /\ pc[c] = "start" /\ UNCHANGED <<api, told, gaveUp, connected, orders, faults, failed, failures, cooled>>
        /\ state' \in {"CLOSED", "OPEN", "HALF_OPEN"}
    BY <1>2 DEF Attempt, ReadIsOpen, breaker, route, AttemptsInv, SubTypeOK
  <2>3. /\ pc' \in [Calls -> {"idle", "start", "sent", "backoff", "done"}]
        /\ attempt' \in [Calls -> 0 .. Attempts] /\ result' \in [Calls -> Outcomes]
    BY <2>1, <2>2 DEF AttemptsInv, SubTypeOK, Outcomes
  <2>4. SubTypeOK'
    BY <2>2, <2>3 DEF AttemptsInv, SubTypeOK
  <2> QED BY <2>1, <2>4 DEF AttemptsInv, SubTypeOK
<1>4. CASE Answered(c)
  <2>1. /\ pc[c] = "sent" /\ pc' = [pc EXCEPT ![c] = "done"]
        /\ result' = [result EXCEPT ![c] = IF Key(c) \in orders THEN "success" ELSE "refused"]
        /\ state' = "CLOSED" /\ failures' = 0
        /\ UNCHANGED <<api, told, gaveUp, attempt, connected, cooled, orders, faults, failed>>
    BY <1>4 DEF Answered, RecordSuccess, route
  <2>2. result' \in [Calls -> Outcomes] /\ pc' \in [Calls -> {"idle", "start", "sent", "backoff", "done"}]
    BY <2>1 DEF AttemptsInv, SubTypeOK, Outcomes
  <2> QED BY <2>1, <2>2 DEF AttemptsInv, SubTypeOK
<1>5. CASE RetryCall(c)
  <2>1. /\ pc[c] = "backoff" /\ pc' = [pc EXCEPT ![c] = "start"]
        /\ UNCHANGED <<api, told, gaveUp, attempt, result, connected, state, failures, cooled, orders, faults, failed>>
    BY <1>5 DEF RetryCall, route, breaker
  <2> QED BY <2>1 DEF AttemptsInv, SubTypeOK
<1>6. ASSUME NEW fatal \in BOOLEAN, CallFails(c, fatal) PROVE AttemptsInv'
  <2>1. /\ pc[c] = "sent" /\ UNCHANGED <<api, told, gaveUp, attempt, orders>>
        /\ failed' = failed \cup {Key(c)}
        /\ faults < MaxFaults /\ faults' = faults + 1
        /\ \/ attempt[c] < Attempts /\ pc' = [pc EXCEPT ![c] = "backoff"] /\ UNCHANGED result
           \/ pc' = [pc EXCEPT ![c] = "done"] /\ result' = [result EXCEPT ![c] = "unavailable"]
    BY <1>6 DEF CallFails, Fault, route
  <2>2. /\ connected' \in BOOLEAN /\ failures' \in Nat /\ cooled' \in BOOLEAN
        /\ state' \in {"CLOSED", "OPEN", "HALF_OPEN"}
    BY <1>6, ErrorsKeepTypes DEF CallFails, AttemptsInv
  <2>3. faults' \in 0 .. MaxFaults
    BY <2>1 DEF AttemptsInv, SubTypeOK
  <2>4. /\ pc' \in [Calls -> {"idle", "start", "sent", "backoff", "done"}]
        /\ result' \in [Calls -> Outcomes]
    BY <2>1 DEF AttemptsInv, SubTypeOK, Outcomes
  <2>5. SubTypeOK'
    BY <1>1, <2>1, <2>2, <2>3, <2>4 DEF AttemptsInv, SubTypeOK
  <2> QED BY <2>1, <2>5 DEF AttemptsInv, SubTypeOK
<1> QED BY <1>2, <1>4, <1>5, <1>6

\* However often calls are repeated and fail.
LEMMA AttemptsInvHolds == SubSpec => []AttemptsInv
<1>1. SubInit => AttemptsInv
  <2> SUFFICES ASSUME SubInit PROVE AttemptsInv
    OBVIOUS
  <2>1. 0 \in 0 .. Attempts /\ 0 \in 0 .. MaxFaults
    BY SubmissionAssumption
  <2>2. \A c \in Calls : pc[c] = "idle" /\ attempt[c] = 0
    BY DEF SubInit
  <2>3. {connected, cooled, gaveUp} \subseteq BOOLEAN
    BY Zenon DEF SubInit
  <2>4. SubTypeOK
    BY <2>1, <2>3 DEF SubInit, SubTypeOK, Outcomes
  <2> QED BY <2>2, <2>4 DEF AttemptsInv
<1>2. HonestInv /\ AttemptsInv /\ [SubNext]_subVars => AttemptsInv'
  <2> SUFFICES ASSUME HonestInv, AttemptsInv, [SubNext]_subVars PROVE AttemptsInv'
    OBVIOUS
  <2> USE SubmissionAssumption
  <2>1. CASE Cool \/ ProbeConnection \/ UNCHANGED subVars
    BY <2>1 DEF Cool, ProbeConnection, subVars, route, calls, breaker, AttemptsInv, SubTypeOK
  <2>2. CASE OtherCallFails
    <3>1. /\ UNCHANGED <<api, told, gaveUp, pc, attempt, result, orders, failed>>
          /\ faults' \in 0 .. MaxFaults
          /\ connected' \in BOOLEAN /\ failures' \in Nat /\ cooled' \in BOOLEAN
          /\ state' \in {"CLOSED", "OPEN", "HALF_OPEN"}
      <4>1. OnRpcError(TRUE) /\ TRUE \in BOOLEAN
        BY <2>2 DEF OtherCallFails
      <4>2. /\ connected' \in BOOLEAN /\ failures' \in Nat /\ cooled' \in BOOLEAN
            /\ state' \in {"CLOSED", "OPEN", "HALF_OPEN"}
        BY <4>1, ErrorsKeepTypes, Zenon DEF AttemptsInv
      <4>3. faults' \in 0 .. MaxFaults
        BY <2>2 DEF OtherCallFails, Fault, AttemptsInv, SubTypeOK
      <4> QED BY <2>2, <4>2, <4>3 DEF OtherCallFails, route, calls
    <3> QED BY <3>1 DEF AttemptsInv, SubTypeOK
  <2>3. ASSUME NEW c \in Signals, ExecuteSignal(c) PROVE AttemptsInv'
    <3>1. /\ c \in Calls /\ pc[c] = "idle"
          /\ UNCHANGED <<api, told, gaveUp, attempt, connected, failures, cooled, orders, faults, failed>>
          /\ state' \in {"CLOSED", "OPEN", "HALF_OPEN"}
      BY <2>3 DEF ExecuteSignal, ReadIsOpen, route, Calls, AttemptsInv, SubTypeOK
    <3>2. /\ pc' = [pc EXCEPT ![c] = IF IsOpen THEN "done" ELSE "start"]
          /\ result' = [result EXCEPT ![c] = IF IsOpen THEN "unavailable" ELSE @]
      BY <2>3 DEF ExecuteSignal
    <3>3. /\ pc' \in [Calls -> {"idle", "start", "sent", "backoff", "done"}] /\ result' \in [Calls -> Outcomes]
      BY <3>1, <3>2 DEF AttemptsInv, SubTypeOK, Outcomes
    <3>4. SubTypeOK'
      BY <3>1, <3>3 DEF AttemptsInv, SubTypeOK
    <3> QED BY <3>1, <3>2, <3>4 DEF AttemptsInv, SubTypeOK
  <2>4. ASSUME NEW c \in Calls, \/ Attempt(c) \/ Answered(c) \/ RetryCall(c)
                                \/ \E fatal \in BOOLEAN : CallFails(c, fatal)
        PROVE  AttemptsInv'
    BY <2>4, AttemptsKeep
  <2>5. CASE Post \/ AnsweredDirect \/ PythonAnswers \/ PythonTimesOut
    <3>1. /\ UNCHANGED <<pc, attempt, result, connected, state, failures, cooled, orders, faults, failed>>
          /\ api' \in {"idle", "grpc", "python", "done"} /\ told' \in Outcomes /\ gaveUp' \in BOOLEAN
      BY <2>5 DEF Post, AnsweredDirect, PythonAnswers, PythonTimesOut, AnswerPost, calls, breaker,
                  AttemptsInv, SubTypeOK, Outcomes
    <3> QED BY <3>1 DEF AttemptsInv, SubTypeOK
  <2>6. ASSUME NEW k \in EngineKeys, Accept(k) PROVE AttemptsInv'
    <3>1. /\ orders' = orders \cup {k}
          /\ UNCHANGED <<api, told, gaveUp, pc, attempt, result, connected, state, failures, cooled, faults, failed>>
      BY <2>6 DEF Accept, route, calls, breaker
    <3> QED BY <3>1 DEF AttemptsInv, SubTypeOK
  <2>7. CASE FallBack
    <3>1. /\ api = "grpc" /\ UNCHANGED <<gaveUp, attempt, result, connected, state, failures, cooled, orders>>
          /\ faults < MaxFaults /\ faults' = faults + 1
          /\ failed' = failed \cup {Direct}
          /\ \/ api' = "python" /\ pc' = [pc EXCEPT ![Posted] = "start"] /\ UNCHANGED told
             \/ api' = "done" /\ told' = "unavailable" /\ UNCHANGED pc
      BY <2>7 DEF FallBack, Fault, AnswerPost, breaker
    <3>2. Posted \in Calls /\ attempt[Posted] = 0
      BY <3>1 DEF HonestInv, PostedInv, Calls
    <3>3. Direct \in EngineKeys
      BY <3>2 DEF Direct, EngineKeys
    <3>4. SubTypeOK'
      BY <3>1, <3>2, <3>3 DEF AttemptsInv, SubTypeOK, Outcomes
    <3> QED BY <3>1, <3>2, <3>4 DEF AttemptsInv, SubTypeOK
  <2>8. SubNext \/ UNCHANGED subVars
    OBVIOUS
  <2> QED BY <2>1, <2>2, <2>3, <2>4, <2>5, <2>6, <2>7, <2>8 DEF SubNext
<1> QED BY <1>1, <1>2, HonestInvHolds, PTL DEF SubSpec

------------------------------------------------------------------------------
(* The notifications (Toast).                                              *)

\* r consists of the elements of s that have another id.
IsWithout(r, id, n, s, S) ==
    \E m \in 0 .. n :
       /\ r \in [1 .. m -> S]
       /\ \A i \in 1 .. n : s[i].id # id => \E j \in 1 .. m : r[j] = s[i]
       /\ \A j \in 1 .. m : \E i \in 1 .. n : r[j] = s[i]

\* The filter of REMOVE_TOAST, by induction over the list: of a sequence of any length
\* it drops the toasts with that id and no others, and adds none.
LEMMA ToastsKept ==
    ASSUME NEW S, NEW id, NEW n \in Nat, NEW s, HasElements(s, n, S)
    PROVE  IsWithout(Without(id, s), id, n, s, S)
<1>0. s \in [1 .. n -> S]
  BY DEF HasElements
<1> DEFINE op(kept, t) == IF t.id = id THEN kept ELSE Append(kept, t)
           r == Without(id, s)
           eqn(h) == h = [t \in SUBSET (1 .. n) |->
                             IF t = {} THEN <<>> ELSE op(h[t \ {Max(t)}], s[Max(t)])]
           iter == CHOOSE h : eqn(h)
           Q == Seq(S)
           e == <<>>
           f == [p \in Q \X S |-> op(p[1], p[2])]
<1>1. f \in [Q \X S -> Q]
  <2>1. ASSUME NEW p \in Q \X S PROVE op(p[1], p[2]) \in Seq(S)
    OBVIOUS
  <2> HIDE DEF op
  <2> QED BY <2>1
<1>2. e \in Q
  OBVIOUS
<1> HIDE DEF f, Q, e
<1>3. PICK h : IsTable(h, f, e, n, s, Q)
  <2>1. Combines(f, S, Q) /\ HasElements(s, n, S)
    BY <1>1 DEF Combines, HasElements
  <2> QED BY <1>2, <2>1, FoldTable
<1>4. eqn(h)
  <2>1. ASSUME NEW t \in SUBSET (1 .. n), t # {}
        PROVE  f[<<h[t \ {Max(t)}], s[Max(t)]>>] = op(h[t \ {Max(t)}], s[Max(t)])
    <3>1. Max(t) \in 1 .. n
      BY <2>1, MaxIsIn
    <3>2. h[t \ {Max(t)}] \in Q /\ s[Max(t)] \in S
      BY <3>1, <1>0, <1>3 DEF IsTable
    <3> HIDE DEF op
    <3> QED BY <3>2 DEF f
  <2> HIDE DEF op
  <2> QED BY <1>3, <2>1 DEF e, IsTable
<1>5. eqn(iter)
  <2> HIDE DEF eqn
  <2> QED BY <1>4
<1>6. r = iter[1 .. n]
  <2>1. DOMAIN s = 1 .. n
    BY <1>0
  <2> QED BY <2>1 DEF Without, FoldLeft, MapThenFoldSet
<1> HIDE DEF iter, op
<1>7. /\ iter[{}] = <<>>
      /\ \A k \in 1 .. n : iter[1 .. k] = op(iter[1 .. (k - 1)], s[k])
  <2>1. {} \in SUBSET (1 .. n)
    OBVIOUS
  <2>2. ASSUME NEW k \in 1 .. n PROVE iter[1 .. k] = op(iter[1 .. (k - 1)], s[k])
    <3>1. 1 .. k \in SUBSET (1 .. n) /\ 1 .. k # {} /\ Max(1 .. k) = k /\ (1 .. k) \ {k} = 1 .. (k - 1)
      BY Positions
    <3>2. iter = [t \in SUBSET (1 .. n) |-> IF t = {} THEN <<>> ELSE op(iter[t \ {Max(t)}], s[Max(t)])]
      BY <1>5
    <3>3. iter[1 .. k] = op(iter[(1 .. k) \ {Max(1 .. k)}], s[Max(1 .. k)])
      BY <3>1, <3>2
    <3> QED BY <3>1, <3>3
  <2> QED BY <1>5, <2>1, <2>2
<1> HIDE DEF eqn
<1> DEFINE Kept(k) ==
      \E m \in 0 .. k : /\ iter[1 .. k] \in [1 .. m -> S]
                        /\ \A i \in 1 .. k : s[i].id # id => \E j \in 1 .. m : iter[1 .. k][j] = s[i]
                        /\ \A j \in 1 .. m : \E i \in 1 .. k : iter[1 .. k][j] = s[i]
           Good == {k \in Nat : k <= n => Kept(k)}
<1>8. Kept(0)
  <2>1. 1 .. 0 = {}
    OBVIOUS
  <2>2. <<>> \in [1 .. 0 -> S]
    OBVIOUS
  <2>3. iter[1 .. 0] = <<>> /\ 0 \in 0 .. 0
    BY <2>1, <1>7
  <2> QED BY <2>1, <2>2, <2>3
<1>9. ASSUME NEW k \in Nat, k + 1 <= n, Kept(k) PROVE Kept(k + 1)
  <2> DEFINE was == iter[1 .. k]
             is == iter[1 .. (k + 1)]
             x == s[k + 1]
  <2>1. PICK m \in 0 .. k : /\ was \in [1 .. m -> S]
                            /\ \A i \in 1 .. k : s[i].id # id => \E j \in 1 .. m : was[j] = s[i]
                            /\ \A j \in 1 .. m : \E i \in 1 .. k : was[j] = s[i]
    BY <1>9
  <2>2. k + 1 \in 1 .. n /\ (k + 1) - 1 = k
    BY <1>9
  <2>3. is = op(was, x) /\ x \in S
    BY <1>0, <1>7, <2>2
  <2>4. \A i \in 1 .. (k + 1) : i \in 1 .. k \/ i = k + 1
    OBVIOUS
  <2>5. 1 .. k \subseteq 1 .. (k + 1) /\ k + 1 \in 1 .. (k + 1)
    OBVIOUS
  <2> HIDE DEF was, is, x
  <2>6. CASE x.id = id
    <3>1. is = was
      BY <2>3, <2>6 DEF op
    <3>2. m \in 0 .. (k + 1)
      OBVIOUS
    <3>3. \A i \in 1 .. (k + 1) : s[i].id # id => \E j \in 1 .. m : is[j] = s[i]
      BY <3>1, <2>1, <2>4, <2>6 DEF x
    <3>4. \A j \in 1 .. m : \E i \in 1 .. (k + 1) : is[j] = s[i]
      BY <3>1, <2>1, <2>5
    <3> QED BY <3>1, <3>2, <3>3, <3>4, <2>1 DEF is
  <2>7. CASE x.id # id
    <3>1. was \in Seq(S) /\ Len(was) = m
      BY <2>1
    <3>2. is = Append(was, x)
      BY <2>3, <2>7 DEF op
    <3>3. /\ is \in [1 .. (m + 1) -> S]
          /\ \A j \in 1 .. m : is[j] = was[j]
          /\ is[m + 1] = x
      <4>1. m \in Nat
        OBVIOUS
      <4>2. /\ is \in Seq(S) /\ Len(is) = m + 1
            /\ \A j \in 1 .. m : is[j] = was[j]
            /\ is[m + 1] = x
        <5>1. /\ Append(was, x) \in Seq(S) /\ Len(Append(was, x)) = Len(was) + 1
              /\ \A j \in 1 .. Len(was) : Append(was, x)[j] = was[j]
              /\ Append(was, x)[Len(was) + 1] = x
          BY <3>1, <2>3, AppendProperties
        <5> QED BY <3>1, <3>2, <5>1
      <4> QED BY <4>1, <4>2, LenProperties
    <3>4. m + 1 \in 0 .. (k + 1) /\ m + 1 \in 1 .. (m + 1) /\ 1 .. m \subseteq 1 .. (m + 1)
      OBVIOUS
    <3>5. \A i \in 1 .. (k + 1) : s[i].id # id => \E j \in 1 .. (m + 1) : is[j] = s[i]
      BY <3>3, <3>4, <2>1, <2>4 DEF x
    <3>6. \A j \in 1 .. (m + 1) : j \in 1 .. m \/ j = m + 1
      OBVIOUS
    <3>7. \A j \in 1 .. (m + 1) : \E i \in 1 .. (k + 1) : is[j] = s[i]
      BY <3>3, <3>6, <2>1, <2>5 DEF x
    <3> QED BY <3>3, <3>4, <3>5, <3>7 DEF is
  <2> QED BY <2>6, <2>7
<1> HIDE DEF Kept
<1>10. Nat \subseteq Good
  <2>1. 0 \in Good
    BY <1>8
  <2>2. \A k \in Nat : k \in Good => k + 1 \in Good
    BY <1>9
  <2> HIDE DEF Good
  <2> QED BY <2>1, <2>2, SetInduction
<1>11. Kept(n)
  BY <1>10
<1>12. IsWithout(iter[1 .. n], id, n, s, S)
  BY <1>11, Zenon DEF Kept, IsWithout
<1> QED BY <1>6, <1>12, Zenon

\* A toast.
ToastRecord == [id : 1 .. IdLimit, open : BOOLEAN]

\* What use-toast.ts maintains: ids come from the counter, and an open toast has no
\* removal timer.
ToastInv ==
    /\ ToastTypeOK
    /\ \A i \in DOMAIN toasts :
         toasts[i].id <= count /\ (toasts[i].open => toasts[i].id \notin removals)
    /\ \A id \in removals : id <= count

\* The list as a function on positions.
LEMMA ToastsAre ==
    ASSUME ToastTypeOK
    PROVE  \E m \in 0 .. ToastLimit : toasts \in [1 .. m -> ToastRecord]
BY DEF ToastTypeOK, ToastRecord, BoundedSeq, SeqOf

\* And such a function is a list of at most TOAST_LIMIT toasts.
LEMMA BoundedToasts ==
    ASSUME NEW m \in 0 .. ToastLimit, NEW s \in [1 .. m -> ToastRecord]
    PROVE  s \in BoundedSeq([id : 1 .. IdLimit, open : BOOLEAN], ToastLimit)
BY DEF ToastRecord, BoundedSeq, SeqOf

\* ADD_TOAST: the new id is larger than all that have timers.
LEMMA AddKeeps ==
    ASSUME ToastInv, AddToast
    PROVE  ToastInv'
<1> DEFINE new == [id |-> count + 1, open |-> TRUE]
           longer == <<new>> \o toasts
           k == IF Len(longer) > ToastLimit THEN ToastLimit ELSE Len(longer)
<1>1. PICK m \in 0 .. ToastLimit : toasts \in [1 .. m -> ToastRecord]
  BY ToastsAre DEF ToastInv
<1>2. m \in Nat /\ ToastLimit \in Nat /\ ToastLimit >= 1 /\ IdLimit \in Nat
  BY ToastAssumption
<1>3. count \in Nat /\ count' = count + 1 /\ count' \in 0 .. IdLimit /\ count + 1 \in 1 .. IdLimit
  BY <1>2 DEF ToastInv, ToastTypeOK, AddToast
<1>4. new \in ToastRecord
  BY <1>3 DEF ToastRecord
<1> HIDE DEF new
<1>5. toasts \in Seq(ToastRecord) /\ Len(toasts) = m
  BY <1>1, <1>2
<1>6. <<new>> \in Seq(ToastRecord) /\ Len(<<new>>) = 1 /\ <<new>>[1] = new
  BY <1>4
<1>7. /\ longer \in Seq(ToastRecord) /\ Len(longer) = m + 1
      /\ longer[1] = new
      /\ \A i \in 2 .. (m + 1) : longer[i] = toasts[i - 1]
  <2>1. /\ longer \in Seq(ToastRecord) /\ Len(longer) = Len(<<new>>) + Len(toasts)
        /\ \A i \in 1 .. (Len(<<new>>) + Len(toasts)) :
             longer[i] = IF i <= Len(<<new>>) THEN <<new>>[i] ELSE toasts[i - Len(<<new>>)]
    BY <1>5, <1>6, ConcatProperties
  <2> HIDE DEF longer
  <2>2. longer[1] = new
    BY <2>1, <1>2, <1>5, <1>6
  <2> QED BY <2>1, <2>2, <1>2, <1>5, <1>6
<1>8. toasts' = SubSeq(longer, 1, k)
  BY DEF AddToast, new
<1> HIDE DEF longer
<1>9. k \in 1 .. ToastLimit /\ k <= m + 1 /\ k \in Nat
  BY <1>2, <1>7
<1> HIDE DEF k
<1>10. /\ toasts' \in [1 .. k -> ToastRecord]
       /\ \A i \in 1 .. k : toasts'[i] = longer[i]
  <2>1. SubSeq(longer, 1, k) = [i \in 1 .. k |-> longer[i]]
    <3>1. k \in 1 .. Len(longer) /\ (k - 1) + 1 = k
      BY <1>9, <1>7, <1>2
    <3>2. /\ SubSeq(longer, 1, k) \in [1 .. k -> ToastRecord]
          /\ \A i \in 1 .. k : SubSeq(longer, 1, k)[i] = longer[i]
      <4>1. \A i \in 1 .. k : longer[i] \in ToastRecord
        BY <1>7, <1>9, <1>2
      <4>2. /\ SubSeq(longer, 1, k) \in Seq(ToastRecord)
            /\ Len(SubSeq(longer, 1, k)) = IF 1 <= k THEN k - 1 + 1 ELSE 0
            /\ \A i \in 1 .. k - 1 + 1 : SubSeq(longer, 1, k)[i] = longer[1 + i - 1]
        BY <4>1, <1>9, SubSeqProperties
      <4>3. Len(SubSeq(longer, 1, k)) = k
        BY <4>2, <3>1, <1>9
      <4>4. \A i \in 1 .. k : SubSeq(longer, 1, k)[i] = longer[i]
        BY <4>2, <1>9
      <4> QED BY <4>2, <4>3, <4>4, LenProperties
    <3> QED BY <3>2
  <2>2. \A i \in 1 .. k : longer[i] \in ToastRecord
    BY <1>7, <1>9, <1>2
  <2> QED BY <2>1, <2>2, <1>8
<1>11. removals' = removals
  BY DEF AddToast
<1>12. ToastTypeOK'
  <2>1. k \in 0 .. ToastLimit
    BY <1>9, <1>2
  <2>2. toasts' \in BoundedSeq([id : 1 .. IdLimit, open : BOOLEAN], ToastLimit)
    BY <2>1, <1>10, BoundedToasts
  <2> QED BY <2>2, <1>3, <1>11 DEF ToastInv, ToastTypeOK
<1>13. ASSUME NEW i \in 1 .. k
       PROVE  toasts'[i].id <= count' /\ (toasts'[i].open => toasts'[i].id \notin removals')
  <2>1. CASE i = 1
    <3>1. toasts'[i].id = count + 1
      BY <2>1, <1>7, <1>10 DEF new
    <3>2. count + 1 \notin removals
      BY <1>3 DEF ToastInv
    <3> QED BY <3>1, <3>2, <1>3, <1>11
  <2>2. CASE i # 1
    <3>1. i \in 2 .. (m + 1) /\ i - 1 \in 1 .. m
      BY <2>2, <1>9, <1>2
    <3>2. i - 1 \in DOMAIN toasts /\ toasts'[i] = toasts[i - 1] /\ toasts[i - 1] \in ToastRecord
      BY <3>1, <1>1, <1>7, <1>10
    <3>3. toasts[i - 1].id \in Int
      BY <3>2, <1>2 DEF ToastRecord
    <3> HIDE DEF new
    <3> QED BY <3>2, <3>3, <1>3, <1>11 DEF ToastInv
  <2> QED BY <2>1, <2>2
<1>14. \A id \in removals' : id <= count'
  <2>1. \A id \in removals : id \in Int /\ id <= count
    BY <1>2 DEF ToastInv, ToastTypeOK
  <2> QED BY <2>1, <1>3, <1>11
<1>15. DOMAIN toasts' = 1 .. k
  BY <1>10
<1> QED BY <1>12, <1>13, <1>14, <1>15 DEF ToastInv

\* DISMISS_TOAST closes every toast with the id that gets the timer.
LEMMA DismissKeeps ==
    ASSUME ToastInv, NEW t \in Toasts, DismissToast(t)
    PROVE  ToastInv'
<1>1. PICK m \in 0 .. ToastLimit : toasts \in [1 .. m -> ToastRecord]
  BY ToastsAre DEF ToastInv
<1>2. t \in ToastRecord /\ t.id \in 1 .. IdLimit /\ t.id <= count
  <2>1. PICK i \in DOMAIN toasts : t = toasts[i]
    BY DEF Toasts, ToSet
  <2> QED BY <2>1, <1>1 DEF ToastInv, ToastRecord
<1>3. removals' = removals \cup {t.id} /\ count' = count
  BY DEF DismissToast, AddToRemoveQueue
<1>4. toasts' = [i \in 1 .. m |->
                    IF toasts[i].id = t.id THEN [toasts[i] EXCEPT !.open = FALSE] ELSE toasts[i]]
  BY <1>1 DEF DismissToast
<1>5. ASSUME NEW i \in 1 .. m
      PROVE  /\ toasts'[i] \in ToastRecord /\ toasts'[i].id = toasts[i].id
             /\ toasts'[i].open => toasts[i].open /\ toasts[i].id # t.id
  <2>1. toasts[i] \in ToastRecord
    BY <1>1
  <2>2. CASE toasts[i].id = t.id
    BY <2>1, <2>2, <1>4 DEF ToastRecord
  <2>3. CASE toasts[i].id # t.id
    BY <2>1, <2>3, <1>4 DEF ToastRecord
  <2> QED BY <2>2, <2>3
<1>6. toasts' \in [1 .. m -> ToastRecord]
  BY <1>4, <1>5
<1>7. ToastTypeOK'
  <2>1. toasts' \in BoundedSeq([id : 1 .. IdLimit, open : BOOLEAN], ToastLimit)
    BY <1>6, BoundedToasts
  <2> QED BY <2>1, <1>2, <1>3 DEF ToastInv, ToastTypeOK
<1>8. ASSUME NEW i \in 1 .. m
      PROVE  toasts'[i].id <= count' /\ (toasts'[i].open => toasts'[i].id \notin removals')
  BY <1>1, <1>3, <1>5 DEF ToastInv
<1>9. DOMAIN toasts' = 1 .. m
  BY <1>6
<1>10. \A id \in removals' : id <= count'
  BY <1>2, <1>3 DEF ToastInv
<1> QED BY <1>7, <1>8, <1>9, <1>10 DEF ToastInv

\* REMOVE_TOAST leaves every open toast in the list: the id it removes has a timer.
LEMMA RemoveKeeps ==
    ASSUME ToastInv, NEW id \in removals, RemoveToast(id)
    PROVE  /\ ToastInv'
           /\ \A i \in DOMAIN toasts : toasts[i].open => toasts[i] \in Toasts'
<1>1. PICK n \in 0 .. ToastLimit : toasts \in [1 .. n -> ToastRecord]
  BY ToastsAre DEF ToastInv
<1>2. n \in Nat /\ ToastLimit \in Nat
  BY ToastAssumption
<1>3. toasts' = Without(id, toasts) /\ removals' = removals \ {id} /\ count' = count
  BY DEF RemoveToast
<1>4. PICK m \in 0 .. n :
          /\ toasts' \in [1 .. m -> ToastRecord]
          /\ \A i \in 1 .. n : toasts[i].id # id => \E j \in 1 .. m : toasts'[j] = toasts[i]
          /\ \A j \in 1 .. m : \E i \in 1 .. n : toasts'[j] = toasts[i]
  <2>1. HasElements(toasts, n, ToastRecord)
    BY <1>1 DEF HasElements
  <2>2. IsWithout(Without(id, toasts), id, n, toasts, ToastRecord)
    BY <2>1, <1>2, ToastsKept
  <2> QED BY <2>2, <1>3 DEF IsWithout
<1>5. DOMAIN toasts = 1 .. n /\ DOMAIN toasts' = 1 .. m
  BY <1>1, <1>4
<1>6. ToastTypeOK'
  <2>1. m \in 0 .. ToastLimit
    BY <1>2
  <2>2. toasts' \in BoundedSeq([id : 1 .. IdLimit, open : BOOLEAN], ToastLimit)
    BY <1>4, <2>1, BoundedToasts
  <2> QED BY <2>2, <1>3 DEF ToastInv, ToastTypeOK
<1>7. ASSUME NEW j \in 1 .. m
      PROVE  toasts'[j].id <= count' /\ (toasts'[j].open => toasts'[j].id \notin removals')
  <2>1. PICK i \in 1 .. n : toasts'[j] = toasts[i]
    BY <1>4
  <2> QED BY <2>1, <1>3, <1>5 DEF ToastInv
<1>8. \A k \in removals' : k <= count'
  BY <1>3 DEF ToastInv
<1>9. ASSUME NEW i \in 1 .. n, toasts[i].open PROVE toasts[i] \in Toasts'
  <2>1. toasts[i].id # id
    BY <1>5, <1>9 DEF ToastInv
  <2>2. PICK j \in 1 .. m : toasts'[j] = toasts[i]
    BY <1>4, <2>1
  <2> QED BY <1>5, <2>2 DEF Toasts, ToSet
<1> QED BY <1>5, <1>6, <1>7, <1>8, <1>9 DEF ToastInv

\* The list keeps the invariant.
LEMMA ToastInvHolds == ToastInit /\ [][ToastNext]_toastVars => []ToastInv
<1>1. ToastInit => ToastInv
  <2> SUFFICES ASSUME ToastInit PROVE ToastInv
    OBVIOUS
  <2>1. ToastLimit \in Nat /\ IdLimit \in Nat /\ 0 \in 0 .. ToastLimit /\ 0 \in 0 .. IdLimit
    BY ToastAssumption
  <2>2. toasts \in [1 .. 0 -> ToastRecord] /\ DOMAIN toasts = {}
    BY DEF ToastInit
  <2>3. toasts \in BoundedSeq([id : 1 .. IdLimit, open : BOOLEAN], ToastLimit)
    BY <2>1, <2>2, BoundedToasts
  <2> QED BY <2>1, <2>2, <2>3 DEF ToastInit, ToastInv, ToastTypeOK
<1>2. ToastInv /\ [ToastNext]_toastVars => ToastInv'
  <2> SUFFICES ASSUME ToastInv, [ToastNext]_toastVars PROVE ToastInv'
    OBVIOUS
  <2>1. CASE AddToast
    BY <2>1, AddKeeps
  <2>2. CASE \E t \in Toasts : DismissToast(t)
    BY <2>2, DismissKeeps
  <2>3. CASE \E id \in removals : RemoveToast(id)
    BY <2>3, RemoveKeeps
  <2>4. CASE UNCHANGED toastVars
    BY <2>4 DEF toastVars, ToastInv, ToastTypeOK
  <2> QED BY <2>1, <2>2, <2>3, <2>4 DEF ToastNext
<1> QED BY <1>1, <1>2, PTL

\* An open toast leaves the list only when a newer one takes its place: no timer set
\* for another takes it away (use-toast.ts).
THEOREM OpenToastsStay == ToastInit /\ [][ToastNext]_toastVars => OpenToastStays
<1> DEFINE Stays == \A t \in Toasts : t.open /\ (\A u \in Toasts' : u.id # t.id) => count' = count + 1
<1>1. ToastInv /\ [ToastNext]_toastVars => [Stays]_toastVars
  <2> SUFFICES ASSUME ToastInv, ToastNext, NEW t \in Toasts, t.open, \A u \in Toasts' : u.id # t.id
               PROVE  count' = count + 1
    BY DEF Stays
  <2>1. PICK i \in DOMAIN toasts : t = toasts[i]
    BY DEF Toasts, ToSet
  <2>2. CASE AddToast
    BY <2>2 DEF AddToast
  <2>3. CASE \E d \in Toasts : DismissToast(d)
    <3>1. PICK d \in Toasts : DismissToast(d)
      BY <2>3
    <3>2. PICK m \in 0 .. ToastLimit : toasts \in [1 .. m -> ToastRecord]
      BY ToastsAre DEF ToastInv
    <3>3. /\ DOMAIN toasts' = DOMAIN toasts
          /\ toasts'[i] = IF toasts[i].id = d.id THEN [toasts[i] EXCEPT !.open = FALSE] ELSE toasts[i]
      BY <2>1, <3>1 DEF DismissToast
    <3>4. toasts[i] \in ToastRecord
      BY <2>1, <3>2
    <3>5. toasts'[i].id = t.id
      BY <2>1, <3>3, <3>4 DEF ToastRecord
    <3>6. toasts'[i] \in Toasts'
      BY <2>1, <3>3 DEF Toasts, ToSet
    <3> QED BY <3>5, <3>6
  <2>4. CASE \E id \in removals : RemoveToast(id)
    BY <2>1, <2>4, RemoveKeeps
  <2> QED BY <2>2, <2>3, <2>4 DEF ToastNext
<1> QED BY <1>1, ToastInvHolds, PTL DEF OpenToastStays
------------------------------------------------------------------------------
(* MCClients: the parts beside each other.                                 *)

\* The parts share no state: what one of them does leaves the others as they are.
LEMMA ClientsStepAlone ==
    [Next]_vars => /\ [KeyNext]_keyVars /\ [BannerNext]_bannerVars /\ [SettingsNext]_settingsVars
                   /\ [ToastNext]_toastVars /\ [SubNext]_subVars /\ [PreviewNext]_previewVars
                   /\ [TradesNext]_tradesVars
BY DEF Next, vars

\* So each part behaves as if it were alone.
LEMMA ClientsAreAlone ==
    Spec => /\ KeySpec /\ SubSpec
            /\ BannerInit /\ [][BannerNext]_bannerVars
            /\ SettingsInit /\ [][SettingsNext]_settingsVars
            /\ ToastInit /\ [][ToastNext]_toastVars
            /\ PreviewInit /\ [][PreviewNext]_previewVars
            /\ TradesInit /\ [][TradesNext]_tradesVars
<1>1. Init => /\ KeyInit /\ BannerInit /\ SettingsInit /\ ToastInit /\ SubInit /\ PreviewInit
              /\ TradesInit
  BY DEF Init
<1> QED BY <1>1, ClientsStepAlone, PTL DEF Spec, KeySpec, SubSpec

\* What is shown is so, whatever the parts of the dashboard, the order path and the
\* sandbox do at the same time: the banner, the fields of the settings page, the list of
\* mock-ups, and what became of a manual order.
THEOREM ScreensAreAlwaysTrue == Spec => []ScreensAreTrue
<1>1. BannerKnows /\ PageIsTrue /\ PreviewAgrees /\ MessageIsTrue => ScreensAreTrue
  BY DEF ScreensAreTrue
<1> QED BY <1>1, ClientsAreAlone, BannerAlwaysKnows, PageIsAlwaysTrue, PreviewsAgree, MessagesAreTrue, PTL


\* The clock the cards share stays within its bound.
LEMMA ClockIsBounded == KeySpec => [](now \in 0 .. MaxTime)
<1>1. KeyInit => now \in 0 .. MaxTime
  BY KeyAssumption DEF KeyInit
<1>2. now \in 0 .. MaxTime /\ [KeyNext]_keyVars => (now \in 0 .. MaxTime)'
  <2>1. ASSUME [KeyNext]_keyVars PROVE now' = now \/ (now < MaxTime /\ now' = now + 1)
    BY <2>1, Zenon DEF KeyNext, keyVars, Tick, Expire, Click, Type, Confirm, Dismiss, ToggleRemember,
                      Answer, LateAnswer, OnSuccess, OnError
  <2> QED BY <2>1, KeyAssumption
<1> QED BY <1>1, <1>2, PTL DEF KeySpec

\* Every variable of every part has its type: what each variable of the code may hold.
THEOREM ClientsTyped == Spec => []ClientsTypeOK
<1>1. KeyInv /\ now \in 0 .. MaxTime => KeyTypeOK
  BY DEF KeyInv, CacheInv, CardsInv, KeyTypeOK
<1>2. BannerInv => BannerTypeOK
  BY DEF BannerInv
<1>3. ConfigInv => SettingsTypeOK
  BY DEF ConfigInv
<1>4. ToastInv => ToastTypeOK
  BY DEF ToastInv
<1>5. AttemptsInv => SubTypeOK
  BY DEF AttemptsInv
<1>6. ModuleInv => PreviewTypeOK
  BY DEF ModuleInv
<1>7. TradesInv => TradesTypeOK
  BY DEF TradesInv
<1>8. /\ KeyTypeOK /\ BannerTypeOK /\ SettingsTypeOK /\ ToastTypeOK /\ SubTypeOK /\ PreviewTypeOK
      /\ TradesTypeOK
      => ClientsTypeOK
  BY DEF ClientsTypeOK
<1> QED BY <1>1, <1>2, <1>3, <1>4, <1>5, <1>6, <1>7, <1>8, ClientsAreAlone, ClockIsBounded,
           KeyInvHolds, BannerInvHolds, ConfigInvHolds, ToastInvHolds, AttemptsInvHolds,
           PreviewInvHolds, TradesInvHolds, PTL

\* No step of any part sends a key that has expired, brings one back when no request
\* was superseded, reports a save of a field that is not stored and that nobody else has
\* written, or takes away the toast of another.
THEOREM NoClientMissteps == Spec => ClientSteps
BY ClientsAreAlone, OnlyFreshKeysAreSent, NothingIsRevived, SavesAreStored, OpenToastsStay,
   PTL DEF ClientSteps
=============================================================================
