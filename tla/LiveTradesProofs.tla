-------------------------- MODULE LiveTradesProofs --------------------------
(***************************************************************************)
(* Proofs about OrderStream and LiveTrades, for any orders, browsers,      *)
(* capacities and bounds.                                                  *)
(***************************************************************************)
EXTENDS LiveTrades, FiniteSetTheorems, SequenceTheorems, TLAPS

------------------------------------------------------------------------------
(* The stream.                                                             *)

\* The module-level state of index.ts agrees with the call: beside FeedSupervised,
\* only a call that was answered has data, and sets the health timer.
StreamInv ==
    /\ call \in {"none", "calling", "open", "failed"}
    /\ active \in BOOLEAN
    /\ attempt \in Nat
    /\ calls \in Nat
    /\ health \in {0, calls}
    /\ call \in {"none", "calling"} => wire = <<>> /\ health = 0
    /\ FeedSupervised

\* What StreamInv reads.
streamState == <<call, active, attempt, calls, health, wire, restarts>>

\* A step that leaves the stream alone keeps StreamInv.
LEMMA StreamStutters == ASSUME StreamInv, UNCHANGED streamState PROVE StreamInv'
  BY DEF StreamInv, streamState, FeedSupervised

\* onEnd, when the call has failed, ended, or had failed before.
LEMMA OnEndKeeps ==
  ASSUME StreamInv, OnEnd, call' \in {"none", "failed"}, call' = "none" => wire' = <<>>, calls' = calls
  PROVE  StreamInv'
<1>1. health' = 0 /\ active' = FALSE
  BY DEF OnEnd
<1>2. restarts' = 1 /\ attempt' \in Nat
  BY DEF OnEnd, ScheduleReconnect, StreamInv, FeedSupervised
<1> QED BY <1>1, <1>2 DEF StreamInv, FeedSupervised

\* Every step of the stream keeps its state in agreement.
LEMMA StreamKeeps == ASSUME StreamInv, StreamNext PROVE StreamInv'
<1>1. CASE ResetBackoff
  BY <1>1 DEF ResetBackoff, engine, StreamInv, FeedSupervised
<1>2. CASE Reconnect
  <2>1. ~active /\ call = "none"
    BY <1>2 DEF Reconnect, StreamInv, FeedSupervised
  <2>2. /\ active' = TRUE /\ call' = "calling" /\ calls' = calls + 1 /\ restarts' = restarts - 1
        /\ UNCHANGED <<attempt, health, wire>>
    BY <1>2, <2>1 DEF Reconnect
  <2>3. restarts = 1 /\ wire = <<>> /\ health = 0
    BY <2>1 DEF StreamInv, FeedSupervised
  <2> QED BY <2>2, <2>3 DEF StreamInv, FeedSupervised
<1>3. CASE ReconnectThrows
  BY <1>3 DEF ReconnectThrows, engine, StreamInv, FeedSupervised
<1>4. CASE Subscribe
  BY <1>4 DEF Subscribe, singleton, StreamInv, FeedSupervised
<1>5. CASE Data
  <2>1. call \notin {"none", "calling"}
    BY <1>5 DEF Data, StreamInv
  <2> QED BY <1>5, <2>1 DEF Data, StreamInv, FeedSupervised
<1>6. CASE Error
  BY <1>6, OnEndKeeps DEF Error
<1>7. CASE End
  BY <1>7, OnEndKeeps DEF End
<1>8. ASSUME NEW o \in Orders, Publish(o) PROVE StreamInv'
  <2>1. call # "open" => wire' = wire
    BY <1>8 DEF Publish
  <2> QED BY <1>8, <2>1 DEF Publish, singleton, StreamInv, FeedSupervised
<1>9. ASSUME NEW u \in lookups, EnrichUpdate(u) PROVE StreamInv'
  BY <1>9, StreamStutters DEF EnrichUpdate, singleton, engine, streamState
<1> QED BY <1>1, <1>2, <1>3, <1>4, <1>5, <1>6, <1>7, <1>8, <1>9 DEF StreamNext

\* Connections and hooks do not touch the stream.
LEMMA StreamInvHolds == FeedSpec => []StreamInv
<1>1. FeedInit => StreamInv
  <2> SUFFICES ASSUME FeedInit PROVE StreamInv
    OBVIOUS
  <2>1. health = 0 /\ wire = <<>>
    BY DEF FeedInit, StreamInit
  <2>2. CASE call = "calling" /\ active = TRUE /\ restarts = 0 /\ attempt = 0 /\ calls = 1
    BY <2>1, <2>2 DEF StreamInv, FeedSupervised
  <2>3. CASE call = "none" /\ active = FALSE /\ restarts = 1 /\ attempt = 1 /\ calls = 0
    BY <2>1, <2>3 DEF StreamInv, FeedSupervised
  <2> QED BY <2>2, <2>3 DEF FeedInit, StreamInit
<1>2. StreamInv /\ [FeedNext]_feedVars => StreamInv'
  <2> SUFFICES ASSUME StreamInv, [FeedNext]_feedVars PROVE StreamInv'
    OBVIOUS
  <2>1. CASE StreamNext
    BY <2>1, StreamKeeps
  <2>2. ASSUME NEW h \in Hooks, ConnectionNext(h) \/ HookNext(h) PROVE StreamInv'
    <3>1. UNCHANGED streamState
      BY <2>2 DEF ConnectionNext, HookNext, Ping, Terminate, Pong, Open, Drop, Cut, Close, Connect,
                  Message, Unmount, streamVars, singleton, engine, streamState
    <3> QED BY <3>1, StreamStutters
  <2>3. CASE UNCHANGED feedVars
    BY <2>3, StreamStutters DEF feedVars, streamVars, singleton, engine, streamState
  <2> QED BY <2>1, <2>2, <2>3 DEF FeedNext
<1> QED BY <1>1, <1>2, PTL DEF FeedSpec

\* However grpc-js reports the end of a call, by "error", by "end" or by both, the
\* feed has exactly one of a stream and a restart on its way.
THEOREM StreamSupervised == FeedSpec => []FeedSupervised
<1>1. StreamInv => FeedSupervised
  BY DEF StreamInv
<1> QED BY <1>1, StreamInvHolds, PTL

\* Only the call that is up resets the delay of the next restart.
THEOREM OnlyHealthyCallsReset == FeedSpec => ResetByHealthyCall
<1>1. StreamInv /\ [FeedNext]_feedVars => [attempt' < attempt => call = "open" /\ health = calls]_feedVars
  <2> SUFFICES ASSUME StreamInv, FeedNext, attempt' < attempt PROVE call = "open" /\ health = calls
    OBVIOUS
  <2> USE DEF StreamInv
  <2>1. CASE attempt' = attempt \/ attempt' = attempt + 1
    BY <2>1
  <2>2. CASE ResetBackoff
    BY <2>2 DEF ResetBackoff
  <2>3. CASE Error \/ End
    BY <2>1, <2>3 DEF Error, End, OnEnd, ScheduleReconnect
  <2>4. CASE \/ Reconnect \/ ReconnectThrows \/ Subscribe \/ Data
             \/ (\E o \in Orders : Publish(o)) \/ (\E u \in lookups : EnrichUpdate(u))
    BY <2>1, <2>4 DEF Reconnect, ReconnectThrows, Subscribe, Data, Publish, EnrichUpdate, singleton
  <2>5. ASSUME NEW h \in Hooks, ConnectionNext(h) \/ HookNext(h) PROVE FALSE
    <3>1. attempt' = attempt
      BY <2>5 DEF ConnectionNext, HookNext, Ping, Terminate, Pong, Open, Drop, Cut, Close, Connect,
                  Message, Unmount, streamVars, singleton
    <3> QED BY <2>1, <3>1
  <2> QED BY <2>2, <2>3, <2>4, <2>5 DEF FeedNext, StreamNext
<1> QED BY <1>1, StreamInvHolds, PTL DEF FeedSpec, ResetByHealthyCall

------------------------------------------------------------------------------
(* The browsers.                                                           *)

\* A hook waits for its timer without a socket, the server listens to no socket that
\* is known to be closed, and a mounted hook shows "Live" only over one that was open.
HooksInv ==
    /\ mounted \in [Hooks -> BOOLEAN]
    /\ socket \in [Hooks -> {"none", "connecting", "open", "closed"}]
    /\ \A h \in timer : socket[h] = "none"
    /\ \A h \in listening \ silent : socket[h] = "open"
    /\ \A h \in connected : mounted[h] => socket[h] \in {"open", "closed"}
    /\ LiveIsServed

\* Reconnects, drops and remounts keep one connection to a hook.
LEMMA HooksInvHolds == FeedSpec => []HooksInv
<1>1. FeedInit => HooksInv
  BY DEF FeedInit, StreamInit, HooksInv, LiveIsServed
<1>2. HooksInv /\ [FeedNext]_feedVars => HooksInv'
  <2> SUFFICES ASSUME HooksInv, [FeedNext]_feedVars PROVE HooksInv'
    OBVIOUS
  <2> USE DEF HooksInv, LiveIsServed
  <2>1. CASE UNCHANGED <<mounted, socket, timer, connected, listening, silent>>
    BY <2>1
  <2>2. CASE StreamNext /\ UNCHANGED hookVars
    <3>1. UNCHANGED <<listening, silent>>
      BY <2>2 DEF StreamNext, ResetBackoff, Reconnect, ReconnectThrows, Subscribe, Data, Error, End,
                  Publish, EnrichUpdate, clients
    <3> QED BY <2>1, <2>2, <3>1 DEF hookVars
  <2>3. ASSUME NEW h \in Hooks, Ping(h) \/ Pong(h) \/ Message(h) PROVE HooksInv'
    BY <2>1, <2>3 DEF Ping, Pong, Message, hookVars, streamVars, clients
  <2>4. ASSUME NEW h \in Hooks, Terminate(h) PROVE HooksInv'
    <3>1. CASE h \in silent
      BY <2>4, <3>1 DEF Terminate, Unlisten
    <3>2. CASE h \notin silent
      <4>1. h \notin timer
        BY <2>4, <3>2 DEF Terminate
      <4>2. socket' = [socket EXCEPT ![h] = "closed"] /\ listening' = listening \ {h}
            /\ UNCHANGED <<silent, mounted, timer, connected>>
        BY <2>4, <3>2 DEF Terminate, Unlisten
      <4>3. \A g \in Hooks : socket'[g] = IF g = h THEN "closed" ELSE socket[g]
        BY <4>2
      <4> QED BY <4>1, <4>2, <4>3
    <3> QED BY <3>1, <3>2
  <2>5. ASSUME NEW h \in Hooks, Open(h) PROVE HooksInv'
    BY <2>5 DEF Open, Listen
  <2>6. ASSUME NEW h \in Hooks, Drop(h) PROVE HooksInv'
    BY <2>6 DEF Drop, Unlisten
  <2>7. ASSUME NEW h \in Hooks, Cut(h) PROVE HooksInv'
    BY <2>7 DEF Cut
  <2>8. ASSUME NEW h \in Hooks, Close(h) PROVE HooksInv'
    BY <2>8 DEF Close, streamVars, clients
  <2>9. ASSUME NEW h \in Hooks, Connect(h) PROVE HooksInv'
    BY <2>9 DEF Connect, streamVars, clients
  <2>10. ASSUME NEW h \in Hooks, Unmount(h) PROVE HooksInv'
    BY <2>10 DEF Unmount, Unlisten
  <2>11. CASE UNCHANGED feedVars
    BY <2>1, <2>11 DEF feedVars, streamVars, clients, hookVars
  <2> QED BY <2>2, <2>3, <2>4, <2>5, <2>6, <2>7, <2>8, <2>9, <2>10, <2>11
          DEF FeedNext, ConnectionNext, HookNext
<1> QED BY <1>1, <1>2, PTL DEF FeedSpec

\* A hook that shows "Live" has a listener at the server, unless its connection fell
\* silent or the close event is due: nothing else separates the two ends.
THEOREM LiveServed == FeedSpec => []LiveIsServed
<1>1. HooksInv => LiveIsServed
  BY DEF HooksInv
<1> QED BY <1>1, HooksInvHolds, PTL

------------------------------------------------------------------------------
(* The order of the updates.                                               *)

\* In s the updates of an order of O come in the order of their versions.
Ascending(s, O) ==
    \A i, j \in DOMAIN s :
       i < j /\ s[i].order = s[j].order /\ s[i].order \in O => s[i].version < s[j].version

\* Of an order of O the updates of A are older than those of B.
Before(A, B, O) == \A a \in A, b \in B : a.order = b.order /\ a.order \in O => a.version < b.version

\* The orders no two updates of which were inside enrichUpdate together.
InStep == Orders \ overlapped

\* Every update on its way is older than what comes after it, from the screen back to
\* the engine: the list, the socket, the lookups, the call, the order itself.
OrderInv ==
    /\ Ascending(wire, Orders)
    /\ Before(lookups, ToSet(wire), Orders)
    /\ \A u, v \in lookups : u.order = v.order /\ u.order \in InStep => u = v
    /\ \A h \in Hooks :
         /\ Ascending(inbox[h], InStep)
         /\ Before(ToSet(inbox[h]), ToSet(wire), Orders)
         /\ Before(ToSet(inbox[h]), lookups, InStep)
         /\ Before(ToSet(trades[h]), ToSet(wire), Orders)
         /\ Before(ToSet(trades[h]), lookups, InStep)
         /\ Before(ToSet(trades[h]), ToSet(inbox[h]), InStep)
         /\ \A i, j \in DOMAIN trades[h] : trades[h][i].order = trades[h][j].order => i = j
    /\ \A u \in ToSet(wire) \cup lookups : u.version <= version[u.order]
    /\ \A h \in Hooks : \A u \in ToSet(inbox[h]) \cup ToSet(trades[h]) : u.version <= version[u.order]

\* The first update taken, the rest stay in order and are newer than it.
LEMMA TailInOrder ==
    ASSUME NEW s \in Seq(Updates), s # <<>>, NEW O, Ascending(s, O)
    PROVE  /\ Tail(s) \in Seq(Updates) /\ Head(s) \in Updates
           /\ Len(Tail(s)) = Len(s) - 1 /\ Len(s) \in Nat /\ Len(s) # 0
           /\ Head(s) \in ToSet(s) /\ ToSet(Tail(s)) \subseteq ToSet(s)
           /\ Ascending(Tail(s), O)
           /\ Before({Head(s)}, ToSet(Tail(s)), O)
<1>1. Len(s) \in Nat /\ Len(s) # 0 /\ DOMAIN s = 1 .. Len(s) /\ \A i \in DOMAIN s : s[i] \in Updates
  BY EmptySeq
<1>2. Head(s) = s[1] /\ 1 \in DOMAIN s
  BY <1>1
<1>3. /\ Tail(s) \in Seq(Updates) /\ Len(Tail(s)) = Len(s) - 1
      /\ \A i \in 1 .. (Len(s) - 1) : Tail(s)[i] = s[i + 1]
  BY <1>1, HeadTailProperties
<1>4. DOMAIN Tail(s) = 1 .. (Len(s) - 1)
  BY <1>1, <1>3
<1>5. \A i \in DOMAIN Tail(s) : i \in Int /\ i + 1 \in DOMAIN s /\ i + 1 \in Int /\ 1 < i + 1 /\ Tail(s)[i] = s[i + 1]
  BY <1>1, <1>3, <1>4
<1>6. ToSet(Tail(s)) \subseteq ToSet(s)
  BY <1>5 DEF ToSet
<1>7. Ascending(Tail(s), O)
  <2> SUFFICES ASSUME NEW i \in DOMAIN Tail(s), NEW j \in DOMAIN Tail(s), i < j,
                      Tail(s)[i].order = Tail(s)[j].order, Tail(s)[i].order \in O
               PROVE  Tail(s)[i].version < Tail(s)[j].version
    BY DEF Ascending
  <2>1. i + 1 < j + 1
    BY <1>5
  <2> QED BY <1>5, <2>1 DEF Ascending
<1>8. Before({Head(s)}, ToSet(Tail(s)), O)
  BY <1>2, <1>5 DEF Before, Ascending, ToSet
<1>9. Head(s) \in ToSet(s) /\ Head(s) \in Updates
  BY <1>1, <1>2 DEF ToSet
<1> QED BY <1>1, <1>3, <1>6, <1>7, <1>8, <1>9

\* An update put after older ones.
LEMMA AppendInOrder ==
    ASSUME NEW s \in Seq(Updates), NEW u \in Updates
    PROVE  /\ Append(s, u) \in Seq(Updates) /\ Len(Append(s, u)) = Len(s) + 1
           /\ ToSet(Append(s, u)) = ToSet(s) \cup {u}
           /\ \A O : Ascending(s, O) /\ Before(ToSet(s), {u}, O) => Ascending(Append(s, u), O)
<1>1. /\ Append(s, u) \in Seq(Updates) /\ Len(Append(s, u)) = Len(s) + 1 /\ Len(s) \in Nat
      /\ \A i \in 1 .. Len(s) : Append(s, u)[i] = s[i]
      /\ Append(s, u)[Len(s) + 1] = u
  BY AppendProperties, LenProperties
<1>2. DOMAIN Append(s, u) = 1 .. (Len(s) + 1) /\ DOMAIN s = 1 .. Len(s)
  BY <1>1
<1>3. \A i \in DOMAIN Append(s, u) : i \in Int /\ (i \in DOMAIN s \/ i = Len(s) + 1)
  BY <1>1, <1>2
<1>4. DOMAIN s \subseteq DOMAIN Append(s, u) /\ Len(s) + 1 \in DOMAIN Append(s, u)
  BY <1>1, <1>2
<1>5. ToSet(Append(s, u)) = ToSet(s) \cup {u}
  BY <1>1, <1>2, <1>3, <1>4 DEF ToSet
<1>6. ASSUME NEW O, Ascending(s, O), Before(ToSet(s), {u}, O) PROVE Ascending(Append(s, u), O)
  <2> SUFFICES ASSUME NEW i \in DOMAIN Append(s, u), NEW j \in DOMAIN Append(s, u), i < j,
                      Append(s, u)[i].order = Append(s, u)[j].order, Append(s, u)[i].order \in O
               PROVE  Append(s, u)[i].version < Append(s, u)[j].version
    BY DEF Ascending
  <2>1. i \in DOMAIN s
    BY <1>1, <1>2, <1>3
  <2>2. CASE j \in DOMAIN s
    BY <1>1, <1>2, <1>6, <2>1, <2>2 DEF Ascending
  <2>3. CASE j = Len(s) + 1
    BY <1>1, <1>2, <1>6, <2>1, <2>3 DEF Before, ToSet
  <2> QED BY <1>3, <2>2, <2>3
<1> QED BY <1>1, <1>5, <1>6

\* What ascends for some orders ascends for fewer.
LEMMA AscendingShrinks ==
    ASSUME NEW s, NEW O, NEW Q, Ascending(s, O), Q \subseteq O
    PROVE  Ascending(s, Q)
BY DEF Ascending

\* The list of useLiveTrades with an update: the update, and rows of other orders, one
\* row for every order.  It stands in the row of its order, or before all rows, of which
\* the last one goes when there is no room for one more.
LEMMA ShownIs ==
    ASSUME NEW list \in Seq(Updates), NEW u \in Updates,
           \A i, j \in DOMAIN list : list[i].order = list[j].order => i = j
    PROVE  /\ Shown(list, u) \in Seq(Updates)
           /\ \A i, j \in DOMAIN Shown(list, u) : Shown(list, u)[i].order = Shown(list, u)[j].order => i = j
           /\ \A e \in ToSet(Shown(list, u)) : e = u \/ (e \in ToSet(list) /\ e.order # u.order)
           /\ \/ \E k \in DOMAIN list :
                   /\ list[k].order = u.order
                   /\ DOMAIN Shown(list, u) = DOMAIN list
                   /\ \A i \in DOMAIN list : Shown(list, u)[i] = IF i = k THEN u ELSE list[i]
              \/ \E m \in {Len(list), Len(list) + 1} :
                   /\ m = Len(list) <=> Len(list) + 1 > MaxTrades
                   /\ DOMAIN Shown(list, u) = 1 .. m
                   /\ \A i \in DOMAIN list : list[i].order # u.order
                   /\ \A i \in 1 .. m : Shown(list, u)[i] = IF i = 1 THEN u ELSE list[i - 1]
<1> DEFINE I == {i \in 1 .. Len(list) : list[i].order = u.order}
           at == SelectInSeq(list, LAMBDA t : t.order = u.order)
           longer == <<u>> \o list
           n == Len(list)
<1>0. n \in Nat /\ DOMAIN list = 1 .. n /\ \A i \in 1 .. n : list[i] \in Updates
  OBVIOUS
<1>1. CASE I # {}
  <2>1. PICK k \in I : TRUE
    BY <1>1
  <2>2. \A i \in I : i = k
    BY <2>1, <1>0
  <2>3. Min(I) = k
    <3>1. k \in I /\ \A y \in I : k <= y
      BY <2>1, <2>2, <1>0
    <3> HIDE DEF I
    <3>2. (CHOOSE x \in I : \A y \in I : x <= y) = k
      BY <2>2, <3>1
    <3> QED BY <3>2 DEF Min
  <2>4. at = k /\ k # 0 /\ k \in 1 .. n
    BY <2>3, <2>1, <1>1, <1>0 DEF SelectInSeq
  <2>5. Shown(list, u) = [list EXCEPT ![k] = u]
    BY <2>4 DEF Shown, ReplaceAt
  <2>6. /\ Shown(list, u) \in Seq(Updates)
        /\ DOMAIN Shown(list, u) = DOMAIN list
        /\ \A i \in DOMAIN list : Shown(list, u)[i] = IF i = k THEN u ELSE list[i]
    BY <2>5, <1>0
  <2>7. \A i \in DOMAIN list : i # k => list[i].order # u.order
    BY <2>2, <1>0
  <2>8. \A i, j \in DOMAIN list : Shown(list, u)[i].order = Shown(list, u)[j].order => i = j
    BY <2>6, <2>7
  <2>9. \A e \in ToSet(Shown(list, u)) : e = u \/ (e \in ToSet(list) /\ e.order # u.order)
    BY <2>6, <2>7 DEF ToSet
  <2>10. k \in DOMAIN list /\ list[k].order = u.order
    BY <2>1, <1>0
  <2> HIDE DEF I, at, longer
  <2> QED BY <2>6, <2>8, <2>9, <2>10
<1>2. CASE I = {}
  <2>1. at = 0
    BY <1>2 DEF SelectInSeq
  <2>2. \A i \in DOMAIN list : list[i].order # u.order
    BY <1>0, <1>2
  <2>3. /\ longer \in Seq(Updates) /\ Len(longer) = n + 1 /\ longer[1] = u
        /\ \A i \in 2 .. (n + 1) : longer[i] = list[i - 1]
    <3>1. <<u>> \in Seq(Updates) /\ Len(<<u>>) = 1 /\ <<u>>[1] = u
      OBVIOUS
    <3>2. /\ longer \in Seq(Updates) /\ Len(longer) = Len(<<u>>) + Len(list)
          /\ \A i \in 1 .. (Len(<<u>>) + Len(list)) :
               longer[i] = IF i <= Len(<<u>>) THEN <<u>>[i] ELSE list[i - Len(<<u>>)]
      BY <3>1, ConcatProperties
    <3> HIDE DEF longer
    <3>3. longer[1] = u
      BY <3>1, <3>2, <1>0
    <3> QED BY <3>1, <3>2, <3>3, <1>0
  <2>4. Shown(list, u) = IF Len(longer) > MaxTrades THEN Front(longer) ELSE longer
    BY <2>1 DEF Shown
  <2> HIDE DEF longer
  <2>5. PICK m \in {n, n + 1} :
            /\ m = n <=> n + 1 > MaxTrades
            /\ Shown(list, u) \in Seq(Updates) /\ DOMAIN Shown(list, u) = 1 .. m
            /\ \A i \in 1 .. m : Shown(list, u)[i] = longer[i]
    <3>1. CASE ~(n + 1 > MaxTrades)
      <4>0. Shown(list, u) = longer
        <5>1. ~(Len(longer) > MaxTrades)
          BY <2>3, <3>1
        <5> QED BY <5>1, <2>4
      <4>2. n + 1 # n
        <5>1. \A k \in Nat : k + 1 # k
          OBVIOUS
        <5> QED BY <5>1, <1>0
      <4>1. DOMAIN longer = 1 .. (n + 1)
        BY <2>3, <1>0
      <4> QED BY <2>3, <3>1, <4>0, <4>1, <4>2
    <3>2. CASE n + 1 > MaxTrades
      <4>0. Shown(list, u) = Front(longer)
        BY <2>3, <2>4, <3>2
      <4>1. Front(longer) = SubSeq(longer, 1, n)
        BY <2>3, <1>0 DEF Front
      <4>2. \A i \in 1 .. n : longer[i] \in Updates
        BY <2>3, <1>0
      <4>3. /\ SubSeq(longer, 1, n) \in Seq(Updates)
            /\ Len(SubSeq(longer, 1, n)) = IF 1 <= n THEN n - 1 + 1 ELSE 0
            /\ \A i \in 1 .. n - 1 + 1 : SubSeq(longer, 1, n)[i] = longer[1 + i - 1]
        BY <4>2, <1>0, SubSeqProperties
      <4>4. Len(SubSeq(longer, 1, n)) = n
        BY <4>3, <1>0
      <4>5. \A i \in 1 .. n : SubSeq(longer, 1, n)[i] = longer[i]
        BY <4>3, <1>0
      <4>6. DOMAIN SubSeq(longer, 1, n) = 1 .. n
        BY <4>3, <4>4
      <4> QED BY <4>0, <4>1, <4>3, <4>5, <4>6, <3>2
    <3> QED BY <3>1, <3>2
  <2>6. \A i \in 1 .. m : i = 1 \/ (i \in 2 .. (n + 1) /\ i - 1 \in DOMAIN list /\ i \in Int)
    BY <1>0, <2>5
  <2>7. \A i \in 1 .. m :
                        \/ i = 1 /\ Shown(list, u)[i] = u
                        \/ i # 1 /\ i \in Int /\ i - 1 \in DOMAIN list /\ Shown(list, u)[i] = list[i - 1]
    <3>1. ASSUME NEW i \in 1 .. m, i = 1 PROVE Shown(list, u)[i] = u
      BY <2>3, <2>5, <3>1
    <3>2. ASSUME NEW i \in 1 .. m, i # 1
          PROVE  i \in Int /\ i - 1 \in DOMAIN list /\ Shown(list, u)[i] = list[i - 1]
      BY <2>3, <2>5, <2>6, <3>2
    <3> QED BY <3>1, <3>2
  <2>8. ASSUME NEW i \in 1 .. m, NEW j \in 1 .. m, Shown(list, u)[i].order = Shown(list, u)[j].order
        PROVE  i = j
    <3>1. CASE i = 1 \/ j = 1
      BY <2>2, <2>7, <2>8, <3>1
    <3>2. CASE i # 1 /\ j # 1
      <4>1. i - 1 = j - 1 /\ i \in Int /\ j \in Int
        BY <2>7, <2>8, <3>2
      <4> QED BY <4>1
    <3> QED BY <3>1, <3>2
  <2>9. \A e \in ToSet(Shown(list, u)) : e = u \/ (e \in ToSet(list) /\ e.order # u.order)
    BY <2>2, <2>5, <2>7 DEF ToSet
  <2>10. \A i \in 1 .. m : Shown(list, u)[i] = IF i = 1 THEN u ELSE list[i - 1]
    BY <2>7
  <2> HIDE DEF I, at, n
  <2>11. m \in {Len(list), Len(list) + 1} /\ (m = Len(list) <=> Len(list) + 1 > MaxTrades)
    BY <2>5 DEF n
  <2> QED BY <2>2, <2>5, <2>8, <2>9, <2>10, <2>11
<1> QED BY <1>1, <1>2

\* What the server has in hand of the engine's updates.
QueueTypes ==
    /\ version \in [Orders -> 0 .. MaxVersion]
    /\ wire \in Seq(Updates) /\ Len(wire) <= Channel
    /\ lookups \subseteq Updates
    /\ overlapped \subseteq Orders

\* The two ends of the connections.
ClientTypes ==
    /\ listening \subseteq Hooks /\ alive \subseteq listening
    /\ silent \subseteq Hooks /\ timer \subseteq Hooks /\ connected \subseteq Hooks
    /\ inbox \in [Hooks -> Seq(Updates)]
    /\ trades \in [Hooks -> Seq(Updates)]
    /\ drops \in 0 .. MaxDrops

\* What the order of the updates is about.
updateState == <<version, wire, lookups, overlapped, inbox, trades>>

\* The types of all that carries updates, and the order they are in.
UpdatesInv == QueueTypes /\ ClientTypes /\ OrderInv

\* A step that leaves the updates alone keeps their order.
LEMMA UpdatesStutter == ASSUME QueueTypes, OrderInv, UNCHANGED updateState PROVE QueueTypes' /\ OrderInv'
BY DEF QueueTypes, OrderInv, InStep, updateState

\* A connection that is lost takes along what was sent and not received.
LEMMA InboxEmptied ==
    ASSUME UpdatesInv, NEW h \in Hooks, inbox' = [inbox EXCEPT ![h] = <<>>],
           UNCHANGED <<version, wire, lookups, overlapped, trades>>
    PROVE  QueueTypes' /\ OrderInv' /\ inbox' \in [Hooks -> Seq(Updates)]
<1>1. inbox \in [Hooks -> Seq(Updates)]
  BY DEF UpdatesInv, ClientTypes
<1>2. inbox' \in [Hooks -> Seq(Updates)] /\ \A g \in Hooks : inbox'[g] = IF g = h THEN <<>> ELSE inbox[g]
  BY <1>1
<1>3. DOMAIN <<>> = {} /\ ToSet(<<>>) = {}
  BY DEF ToSet
<1>4. ASSUME NEW O PROVE Ascending(<<>>, O) /\ \A B : Before({}, B, O) /\ Before(B, {}, O)
  BY <1>3 DEF Ascending, Before
<1>5. QueueTypes' /\ InStep' = InStep
  BY DEF UpdatesInv, QueueTypes, InStep
<1>6. ASSUME NEW g \in Hooks
      PROVE  /\ Ascending(inbox[g], InStep)'
             /\ Before(ToSet(inbox[g]), ToSet(wire), Orders)'
             /\ Before(ToSet(inbox[g]), lookups, InStep)'
             /\ Before(ToSet(trades[g]), ToSet(inbox[g]), InStep)'
             /\ \A u \in ToSet(inbox'[g]) \cup ToSet(trades'[g]) : u.version <= version'[u.order]
  <2>1. CASE g = h
    <3>1. inbox'[g] = <<>> /\ ToSet(inbox'[g]) = {}
      BY <1>2, <1>3, <2>1
    <3>2. \A u \in ToSet(inbox'[g]) \cup ToSet(trades'[g]) : u.version <= version'[u.order]
      BY <3>1 DEF UpdatesInv, OrderInv
    <3> QED BY <3>1, <3>2, <1>4
  <2>2. CASE g # h
    BY <1>2, <1>5, <2>2 DEF UpdatesInv, OrderInv
  <2> QED BY <2>1, <2>2
<1>7. OrderInv'
  BY <1>5, <1>6 DEF UpdatesInv, OrderInv
<1> QED BY <1>2, <1>5, <1>7

\* The engine publishes a status newer than all before it.
LEMMA PublishKeeps ==
    ASSUME UpdatesInv, NEW o \in Orders, Publish(o), UNCHANGED trades
    PROVE  QueueTypes' /\ OrderInv'
<1> DEFINE u == [order |-> o, version |-> version[o] + 1]
           s == IF Len(wire) = Channel THEN Tail(wire) ELSE wire
<1>0. QueueTypes /\ ClientTypes /\ OrderInv
  BY DEF UpdatesInv
<1>1. version \in [Orders -> 0 .. MaxVersion] /\ version[o] \in Int /\ version[o] >= 0 /\ version[o] < MaxVersion
  BY <1>0, StreamAssumption DEF QueueTypes, Publish
<1>2. u \in Updates /\ u.order = o /\ u.version = version[o] + 1
  BY <1>1, StreamAssumption DEF Updates
<1>3. version' = [version EXCEPT ![o] = version[o] + 1] /\ UNCHANGED <<lookups, overlapped, inbox, trades>>
  BY DEF Publish, relay, clients
<1>4. version' \in [Orders -> 0 .. MaxVersion] /\ \A p \in Orders : version[p] \in Int /\ version'[p] \in Int /\ version[p] <= version'[p]
                                              /\ version'[p] = IF p = o THEN version[o] + 1 ELSE version[p]
  <2>1. version[o] + 1 \in 0 .. MaxVersion
    BY <1>1, StreamAssumption
  <2>2. \A p \in Orders : version[p] \in 0 .. MaxVersion
    BY <1>1
  <2>3. \A p \in Orders : version'[p] = IF p = o THEN version[o] + 1 ELSE version[p]
    BY <1>1, <1>3
  <2>4. version' \in [Orders -> 0 .. MaxVersion]
    BY <1>1, <1>3, <2>1
  <2> QED BY <2>1, <2>2, <2>3, <2>4, StreamAssumption
<1> HIDE DEF u
<1>5. s \in Seq(Updates) /\ Len(s) < Channel /\ ToSet(s) \subseteq ToSet(wire) /\ Ascending(s, Orders) /\ Len(s) \in Nat
  <2>1. wire \in Seq(Updates) /\ Len(wire) \in Nat /\ Len(wire) <= Channel /\ Channel \in Nat /\ Channel # 0 /\ Ascending(wire, Orders)
    BY <1>0, StreamAssumption DEF QueueTypes, OrderInv
  <2>2. CASE Len(wire) = Channel
    <3>1. wire # <<>>
      BY <2>1, <2>2
    <3>2. /\ Tail(wire) \in Seq(Updates) /\ Len(Tail(wire)) = Len(wire) - 1
          /\ ToSet(Tail(wire)) \subseteq ToSet(wire) /\ Ascending(Tail(wire), Orders)
      BY <2>1, <3>1, TailInOrder
    <3> QED BY <2>1, <2>2, <3>2
  <2>3. CASE Len(wire) # Channel
    BY <2>1, <2>3
  <2> QED BY <2>2, <2>3
<1>6. ASSUME NEW A, A \subseteq Updates, \A a \in A : a.version <= version[a.order]
      PROVE  Before(A, {u}, Orders) /\ \A a \in A : a.version <= version'[a.order]
  <2>1. \A a \in A : a.version \in Int /\ a.order \in Orders
    BY <1>6, StreamAssumption DEF Updates
  <2>2. \A a \in A : a.order = o => a.version < version[o] + 1
    BY <1>1, <1>6, <2>1
  <2>3. \A a \in A : a.version <= version'[a.order]
    BY <1>4, <1>6, <2>1
  <2> QED BY <1>2, <2>2, <2>3 DEF Before
<1>7. wire' = wire \/ wire' = Append(s, u)
  BY DEF Publish, u
<1> HIDE DEF s
<1>8. /\ wire' \in Seq(Updates) /\ Len(wire') <= Channel
      /\ ToSet(wire') \subseteq ToSet(wire) \cup {u}
      /\ Ascending(wire', Orders)
  <2>1. CASE wire' = wire
    BY <1>0, <2>1 DEF QueueTypes, OrderInv
  <2>2. CASE wire' = Append(s, u)
    <3>1. /\ Append(s, u) \in Seq(Updates) /\ Len(Append(s, u)) = Len(s) + 1
          /\ ToSet(Append(s, u)) = ToSet(s) \cup {u}
          /\ Ascending(s, Orders) /\ Before(ToSet(s), {u}, Orders) => Ascending(Append(s, u), Orders)
      BY <1>2, <1>5, AppendInOrder
    <3>2. Before(ToSet(s), {u}, Orders)
      <4>1. ToSet(s) \subseteq Updates
        BY <1>5 DEF ToSet
      <4> QED BY <4>1, <1>5, <1>6, <1>0 DEF OrderInv
    <3> QED BY <3>1, <3>2, <2>2, <1>5, StreamAssumption
  <2> QED BY <1>7, <2>1, <2>2
<1>9. /\ ToSet(wire) \subseteq Updates /\ lookups \subseteq Updates
      /\ \A h \in Hooks : ToSet(inbox[h]) \subseteq Updates /\ ToSet(trades[h]) \subseteq Updates
  BY <1>0 DEF QueueTypes, ClientTypes, ToSet
<1>10. QueueTypes'
  BY <1>0, <1>3, <1>4, <1>8 DEF QueueTypes
<1>11. u.version <= version'[u.order]
  BY <1>1, <1>2, <1>4
<1>12. ASSUME NEW A, A \subseteq Updates, Before(A, ToSet(wire), Orders), \A a \in A : a.version <= version[a.order]
       PROVE  Before(A, ToSet(wire'), Orders) /\ \A a \in A : a.version <= version'[a.order]
  <2>1. Before(A, {u}, Orders) /\ \A a \in A : a.version <= version'[a.order]
    BY <1>6, <1>12
  <2> QED BY <1>8, <1>12, <2>1 DEF Before
<1>13. Before(lookups, ToSet(wire'), Orders) /\ \A a \in lookups : a.version <= version'[a.order]
  BY <1>0, <1>9, <1>12 DEF OrderInv
<1>14. \A a \in ToSet(wire') : a.version <= version'[a.order]
  <2>1. \A a \in ToSet(wire) : a.version <= version'[a.order]
    BY <1>0, <1>6, <1>9 DEF OrderInv
  <2> QED BY <1>8, <1>11, <2>1
<1>15. ASSUME NEW h \in Hooks
       PROVE  /\ Before(ToSet(inbox[h]), ToSet(wire'), Orders) /\ Before(ToSet(trades[h]), ToSet(wire'), Orders)
              /\ \A a \in ToSet(inbox[h]) \cup ToSet(trades[h]) : a.version <= version'[a.order]
  BY <1>0, <1>9, <1>12 DEF OrderInv
<1>16. InStep' = InStep
  BY <1>3 DEF InStep
<1>17. OrderInv'
  <2>1. \A h \in Hooks : /\ (Ascending(inbox[h], InStep))'
         /\ Before(ToSet(inbox[h]), lookups, InStep)'
         /\ Before(ToSet(trades[h]), lookups, InStep)'
         /\ Before(ToSet(trades[h]), ToSet(inbox[h]), InStep)'
         /\ \A i, j \in DOMAIN trades'[h] : trades'[h][i].order = trades'[h][j].order => i = j
    BY <1>0, <1>3, <1>16 DEF OrderInv
  <2>2. \A a, b \in lookups' : a.order = b.order /\ a.order \in InStep' => a = b
    BY <1>0, <1>3, <1>16 DEF OrderInv
  <2> QED BY <2>1, <2>2, <1>3, <1>8, <1>13, <1>14, <1>15 DEF OrderInv
<1> QED BY <1>10, <1>17

\* "data": the update goes from the call to the lookups.
LEMMA DataKeeps ==
    ASSUME UpdatesInv, Data, UNCHANGED trades
    PROVE  QueueTypes' /\ OrderInv'
<1> DEFINE u == Head(wire)
<1>0. QueueTypes /\ ClientTypes /\ OrderInv
  BY DEF UpdatesInv
<1>1. wire \in Seq(Updates) /\ wire # <<>> /\ Ascending(wire, Orders) /\ Len(wire) <= Channel /\ Channel \in Nat
  BY <1>0, StreamAssumption DEF QueueTypes, OrderInv, Data
<1>2. /\ Tail(wire) \in Seq(Updates) /\ u \in Updates
      /\ Len(Tail(wire)) = Len(wire) - 1 /\ Len(wire) \in Nat
      /\ u \in ToSet(wire) /\ ToSet(Tail(wire)) \subseteq ToSet(wire)
      /\ Ascending(Tail(wire), Orders)
      /\ Before({u}, ToSet(Tail(wire)), Orders)
  BY <1>1, TailInOrder
<1>3. /\ lookups' = lookups \cup {u} /\ wire' = Tail(wire)
      /\ overlapped' = overlapped \cup {x.order : x \in {y \in lookups : y.order = u.order}}
      /\ UNCHANGED <<version, inbox, trades>>
  BY DEF Data, clients
<1> HIDE DEF u
<1>4. u.order \in Orders
  BY <1>2 DEF Updates
<1>5. InStep' \subseteq InStep /\ overlapped' \subseteq Orders /\ InStep' \subseteq Orders
  BY <1>0, <1>3, <1>4 DEF InStep, QueueTypes
<1>6. u.order \in InStep' => \A x \in lookups : x.order # u.order
  BY <1>3 DEF InStep
<1>7. QueueTypes'
  BY <1>0, <1>1, <1>2, <1>3, <1>5 DEF QueueTypes
<1>8. Before(lookups', ToSet(wire'), Orders)
  BY <1>0, <1>2, <1>3 DEF OrderInv, Before
<1>9. \A a, b \in lookups' : a.order = b.order /\ a.order \in InStep' => a = b
  BY <1>0, <1>3, <1>5, <1>6 DEF OrderInv
<1>10. ASSUME NEW h \in Hooks
       PROVE  /\ Before(ToSet(inbox[h]), ToSet(wire'), Orders) /\ Before(ToSet(trades[h]), ToSet(wire'), Orders)
              /\ Before(ToSet(inbox[h]), lookups', InStep') /\ Before(ToSet(trades[h]), lookups', InStep')
              /\ Before(ToSet(trades[h]), ToSet(inbox[h]), InStep') /\ Ascending(inbox[h], InStep')
  <2>1. /\ Before(ToSet(inbox[h]), ToSet(wire), Orders) /\ Before(ToSet(trades[h]), ToSet(wire), Orders)
        /\ Before(ToSet(inbox[h]), lookups, InStep) /\ Before(ToSet(trades[h]), lookups, InStep)
        /\ Before(ToSet(trades[h]), ToSet(inbox[h]), InStep) /\ Ascending(inbox[h], InStep)
    BY <1>0 DEF OrderInv
  <2>2. Before(ToSet(inbox[h]), ToSet(wire'), Orders) /\ Before(ToSet(trades[h]), ToSet(wire'), Orders)
    BY <1>2, <1>3, <2>1 DEF Before
  <2>3. Before(ToSet(inbox[h]), lookups', InStep') /\ Before(ToSet(trades[h]), lookups', InStep')
    BY <1>2, <1>3, <1>5, <2>1 DEF Before
  <2>4. Before(ToSet(trades[h]), ToSet(inbox[h]), InStep')
    BY <1>5, <2>1 DEF Before
  <2>5. Ascending(inbox[h], InStep')
    BY <1>5, <2>1, AscendingShrinks
  <2> QED BY <2>2, <2>3, <2>4, <2>5
<1>11. \A a \in ToSet(wire') \cup lookups' : a.version <= version'[a.order]
  BY <1>0, <1>2, <1>3 DEF OrderInv
<1>12. OrderInv'
  <2>1. \A h \in Hooks : \A i, j \in DOMAIN trades'[h] : trades'[h][i].order = trades'[h][j].order => i = j
    BY <1>0, <1>3 DEF OrderInv
  <2>2. \A h \in Hooks : \A a \in ToSet(inbox'[h]) \cup ToSet(trades'[h]) : a.version <= version'[a.order]
    BY <1>0, <1>3 DEF OrderInv
  <2>3. Ascending(wire', Orders)
    BY <1>2, <1>3
  <2> QED BY <1>3, <1>8, <1>9, <1>10, <1>11, <2>1, <2>2, <2>3 DEF OrderInv
<1> QED BY <1>7, <1>12

\* The lookup is done: the update goes to the connections.
LEMMA EnrichKeeps ==
    ASSUME UpdatesInv, NEW u \in lookups, EnrichUpdate(u), UNCHANGED trades
    PROVE  QueueTypes' /\ OrderInv' /\ inbox' \in [Hooks -> Seq(Updates)]
<1>0. QueueTypes /\ ClientTypes /\ OrderInv /\ u \in Updates /\ inbox \in [Hooks -> Seq(Updates)]
  BY DEF UpdatesInv, QueueTypes, ClientTypes
<1>1. /\ lookups' = lookups \ {u} /\ UNCHANGED <<version, wire, overlapped>>
      /\ inbox' = [h \in Hooks |-> IF h \in listening \ silent THEN Append(inbox[h], u) ELSE inbox[h]]
  BY DEF EnrichUpdate, engine
<1>2. InStep' = InStep
  BY <1>1 DEF InStep
<1>3. u.order \in InStep => \A x \in lookups' : x.order # u.order
  BY <1>0, <1>1 DEF OrderInv
<1>4. u.version <= version[u.order] /\ Before({u}, ToSet(wire), Orders) /\ Before({u}, lookups', InStep)
  BY <1>0, <1>3 DEF OrderInv, Before
<1>5. QueueTypes'
  BY <1>0, <1>1 DEF QueueTypes
<1>6. ASSUME NEW h \in Hooks
      PROVE  /\ inbox'[h] \in Seq(Updates)
             /\ ToSet(inbox'[h]) \subseteq ToSet(inbox[h]) \cup {u}
             /\ Ascending(inbox'[h], InStep)
  <2>1. inbox[h] \in Seq(Updates) /\ Ascending(inbox[h], InStep) /\ Before(ToSet(inbox[h]), lookups, InStep)
    BY <1>0 DEF OrderInv
  <2>2. Before(ToSet(inbox[h]), {u}, InStep)
    BY <2>1 DEF Before
  <2>3. CASE inbox'[h] = inbox[h]
    BY <2>1, <2>3
  <2>4. CASE inbox'[h] = Append(inbox[h], u)
    <3>1. /\ Append(inbox[h], u) \in Seq(Updates)
          /\ ToSet(Append(inbox[h], u)) = ToSet(inbox[h]) \cup {u}
          /\ Ascending(inbox[h], InStep) /\ Before(ToSet(inbox[h]), {u}, InStep)
             => Ascending(Append(inbox[h], u), InStep)
      BY <1>0, <2>1, AppendInOrder
    <3> QED BY <2>1, <2>2, <2>4, <3>1
  <2> QED BY <1>1, <2>3, <2>4
<1>7. ASSUME NEW h \in Hooks
      PROVE  /\ Before(ToSet(inbox'[h]), ToSet(wire), Orders)
             /\ Before(ToSet(inbox'[h]), lookups', InStep)
             /\ Before(ToSet(trades[h]), lookups', InStep)
             /\ Before(ToSet(trades[h]), ToSet(inbox'[h]), InStep)
             /\ \A a \in ToSet(inbox'[h]) \cup ToSet(trades[h]) : a.version <= version[a.order]
  <2>1. /\ Before(ToSet(inbox[h]), ToSet(wire), Orders) /\ Before(ToSet(inbox[h]), lookups, InStep)
        /\ Before(ToSet(trades[h]), lookups, InStep) /\ Before(ToSet(trades[h]), ToSet(inbox[h]), InStep)
        /\ \A a \in ToSet(inbox[h]) \cup ToSet(trades[h]) : a.version <= version[a.order]
    BY <1>0 DEF OrderInv
  <2>2. ToSet(inbox'[h]) \subseteq ToSet(inbox[h]) \cup {u}
    BY <1>6
  <2>3. Before(ToSet(inbox'[h]), ToSet(wire), Orders)
    BY <1>4, <2>1, <2>2 DEF Before
  <2>4. Before(ToSet(inbox'[h]), lookups', InStep) /\ Before(ToSet(trades[h]), lookups', InStep)
    BY <1>1, <1>4, <2>1, <2>2 DEF Before
  <2>5. Before(ToSet(trades[h]), ToSet(inbox'[h]), InStep)
    BY <2>1, <2>2 DEF Before
  <2> QED BY <1>4, <2>1, <2>2, <2>3, <2>4, <2>5
<1>8. OrderInv'
  <2>1. /\ Ascending(wire', Orders) /\ Before(lookups', ToSet(wire'), Orders)
        /\ \A a \in ToSet(wire') \cup lookups' : a.version <= version'[a.order]
    BY <1>0, <1>1 DEF OrderInv, Before
  <2>2. \A a, b \in lookups' : a.order = b.order /\ a.order \in InStep' => a = b
    BY <1>0, <1>1, <1>2 DEF OrderInv
  <2>3. \A h \in Hooks : /\ Before(ToSet(trades'[h]), ToSet(wire'), Orders)
                         /\ \A i, j \in DOMAIN trades'[h] : trades'[h][i].order = trades'[h][j].order => i = j
    BY <1>0, <1>1 DEF OrderInv
  <2> QED BY <1>1, <1>2, <1>6, <1>7, <2>1, <2>2, <2>3 DEF OrderInv
<1>9. inbox' \in [Hooks -> Seq(Updates)]
  BY <1>1, <1>6
<1> QED BY <1>5, <1>8, <1>9

\* onmessage: the list takes the oldest update of the socket, which is newer than
\* what it shows of the order.
LEMMA MessageKeeps ==
    ASSUME UpdatesInv, NEW h \in Hooks, Message(h)
    PROVE  /\ QueueTypes' /\ OrderInv'
           /\ inbox' \in [Hooks -> Seq(Updates)] /\ trades' \in [Hooks -> Seq(Updates)]
           /\ \A g \in Hooks, o \in InStep :
                \A v \in VersionsOf(trades[g], o), w \in VersionsOf(trades'[g], o) : v <= w
<1> DEFINE u == Head(inbox[h])
<1>0. /\ QueueTypes /\ ClientTypes /\ OrderInv
      /\ inbox \in [Hooks -> Seq(Updates)] /\ trades \in [Hooks -> Seq(Updates)]
  BY DEF UpdatesInv, ClientTypes
<1>1. inbox[h] \in Seq(Updates) /\ inbox[h] # <<>> /\ Ascending(inbox[h], InStep) /\ trades[h] \in Seq(Updates)
  BY <1>0 DEF OrderInv, Message
<1>2. /\ Tail(inbox[h]) \in Seq(Updates) /\ u \in Updates
      /\ u \in ToSet(inbox[h]) /\ ToSet(Tail(inbox[h])) \subseteq ToSet(inbox[h])
      /\ Ascending(Tail(inbox[h]), InStep)
      /\ Before({u}, ToSet(Tail(inbox[h])), InStep)
  BY <1>1, TailInOrder
<1>3. /\ inbox' = [inbox EXCEPT ![h] = Tail(inbox[h])]
      /\ trades' = [trades EXCEPT ![h] = IF mounted[h] THEN Shown(trades[h], u) ELSE trades[h]]
      /\ UNCHANGED <<version, wire, lookups, overlapped>>
  BY DEF Message, engine, relay
<1> HIDE DEF u
<1>4. InStep' = InStep /\ InStep \subseteq Orders
  BY <1>3 DEF InStep
<1>5. /\ \A g \in Hooks : inbox'[g] = IF g = h THEN Tail(inbox[h]) ELSE inbox[g]
      /\ inbox' \in [Hooks -> Seq(Updates)]
  BY <1>0, <1>2, <1>3
<1>6. /\ Shown(trades[h], u) \in Seq(Updates)
      /\ \A i, j \in DOMAIN Shown(trades[h], u) : Shown(trades[h], u)[i].order = Shown(trades[h], u)[j].order => i = j
      /\ \A e \in ToSet(Shown(trades[h], u)) : e = u \/ (e \in ToSet(trades[h]) /\ e.order # u.order)
  <2>1. \A i, j \in DOMAIN trades[h] : trades[h][i].order = trades[h][j].order => i = j
    BY <1>0 DEF OrderInv
  <2> QED BY <2>1, <1>1, <1>2, ShownIs
<1>7. /\ trades' \in [Hooks -> Seq(Updates)]
      /\ \A g \in Hooks : g # h => trades'[g] = trades[g]
      /\ trades'[h] = trades[h] \/ trades'[h] = Shown(trades[h], u)
  BY <1>0, <1>1, <1>3, <1>6
<1>8. /\ \A i, j \in DOMAIN trades'[h] : trades'[h][i].order = trades'[h][j].order => i = j
      /\ ToSet(trades'[h]) \subseteq ToSet(trades[h]) \cup {u}
      /\ trades'[h] = trades[h] \/ \A e \in ToSet(trades'[h]) : e = u \/ (e \in ToSet(trades[h]) /\ e.order # u.order)
  BY <1>0, <1>6, <1>7 DEF OrderInv
<1>9. QueueTypes'
  BY <1>0, <1>3 DEF QueueTypes
<1>10. /\ Before(ToSet(inbox[h]), ToSet(wire), Orders) /\ Before(ToSet(inbox[h]), lookups, InStep)
       /\ Before(ToSet(trades[h]), ToSet(wire), Orders) /\ Before(ToSet(trades[h]), lookups, InStep)
       /\ Before(ToSet(trades[h]), ToSet(inbox[h]), InStep)
       /\ \A a \in ToSet(inbox[h]) \cup ToSet(trades[h]) : a.version <= version[a.order]
  BY <1>0 DEF OrderInv
<1>11. ToSet(inbox'[h]) \subseteq ToSet(inbox[h]) /\ inbox'[h] = Tail(inbox[h])
  BY <1>2, <1>5
<1>12. /\ Before(ToSet(inbox'[h]), ToSet(wire), Orders) /\ Before(ToSet(inbox'[h]), lookups, InStep)
       /\ Before(ToSet(trades'[h]), ToSet(wire), Orders) /\ Before(ToSet(trades'[h]), lookups, InStep)
       /\ \A a \in ToSet(inbox'[h]) \cup ToSet(trades'[h]) : a.version <= version[a.order]
  BY <1>2, <1>8, <1>10, <1>11 DEF Before
<1>13. Before(ToSet(trades'[h]), ToSet(inbox'[h]), InStep)
  BY <1>2, <1>8, <1>10, <1>11 DEF Before
<1>14. ASSUME NEW g \in Hooks
       PROVE  /\ Ascending(inbox'[g], InStep)
              /\ Before(ToSet(inbox'[g]), ToSet(wire), Orders) /\ Before(ToSet(inbox'[g]), lookups, InStep)
              /\ Before(ToSet(trades'[g]), ToSet(wire), Orders) /\ Before(ToSet(trades'[g]), lookups, InStep)
              /\ Before(ToSet(trades'[g]), ToSet(inbox'[g]), InStep)
              /\ \A i, j \in DOMAIN trades'[g] : trades'[g][i].order = trades'[g][j].order => i = j
              /\ \A a \in ToSet(inbox'[g]) \cup ToSet(trades'[g]) : a.version <= version[a.order]
  <2>1. CASE g = h
    BY <2>1, <1>2, <1>8, <1>11, <1>12, <1>13
  <2>2. CASE g # h
    <3>1. inbox'[g] = inbox[g] /\ trades'[g] = trades[g]
      BY <2>2, <1>5, <1>7
    <3> QED BY <3>1, <1>0 DEF OrderInv
  <2> QED BY <2>1, <2>2
<1>15. OrderInv'
  <2>1. /\ Ascending(wire', Orders) /\ Before(lookups', ToSet(wire'), Orders)
        /\ \A a \in ToSet(wire') \cup lookups' : a.version <= version'[a.order]
        /\ \A a, b \in lookups' : a.order = b.order /\ a.order \in InStep' => a = b
    BY <1>0, <1>3, <1>4 DEF OrderInv
  <2> QED BY <1>3, <1>4, <1>14, <2>1 DEF OrderInv
<1>16. ASSUME NEW g \in Hooks, NEW o \in InStep, NEW a \in ToSet(trades[g]), NEW b \in ToSet(trades'[g]),
              a.order = o, b.order = o
       PROVE  a.version <= b.version
  <2>1. a.version \in Int /\ b.version \in Int
    <3>1. trades[g] \in Seq(Updates) /\ trades'[g] \in Seq(Updates)
      BY <1>0, <1>7
    <3>2. a \in Updates /\ b \in Updates
      BY <3>1 DEF ToSet
    <3> QED BY <3>2, StreamAssumption DEF Updates
  <2>2. CASE b \in ToSet(trades[g])
    <3>1. a = b
      BY <2>2, <1>0, <1>16 DEF OrderInv, ToSet
    <3> QED BY <3>1, <2>1
  <2>3. CASE b \notin ToSet(trades[g])
    <3>1. g = h /\ b = u
      BY <2>3, <1>7, <1>8, <1>16
    <3>2. a.version < u.version
      BY <3>1, <1>2, <1>10, <1>16 DEF Before
    <3> QED BY <3>1, <3>2, <2>1
  <2> QED BY <2>2, <2>3
<1>17. \A g \in Hooks, o \in InStep :
          \A v \in VersionsOf(trades[g], o), w \in VersionsOf(trades'[g], o) : v <= w
  BY <1>16 DEF VersionsOf
<1> QED BY <1>5, <1>7, <1>9, <1>15, <1>17

\* Every step of the feed keeps the updates in order.
LEMMA UpdatesInvHolds == FeedSpec => []UpdatesInv
<1>1. FeedInit => UpdatesInv
  <2> SUFFICES ASSUME FeedInit PROVE UpdatesInv
    OBVIOUS
  <2>1. /\ version = [o \in Orders |-> 0] /\ wire = <<>> /\ lookups = {} /\ overlapped = {}
        /\ listening = {} /\ alive = {} /\ silent = {} /\ timer = {} /\ connected = {} /\ drops = 0
        /\ inbox = [h \in Hooks |-> <<>>] /\ trades = [h \in Hooks |-> <<>>]
    BY DEF FeedInit, StreamInit
  <2>2. <<>> \in Seq(Updates) /\ Len(<<>>) = 0 /\ DOMAIN <<>> = {} /\ ToSet(<<>>) = {}
    BY DEF ToSet
  <2>3. 0 \in 0 .. MaxVersion /\ 0 \in 0 .. MaxDrops /\ 0 <= Channel
    BY StreamAssumption, FeedAssumption
  <2>4. QueueTypes
    BY <2>1, <2>2, <2>3 DEF QueueTypes
  <2>5. ClientTypes
    BY <2>1, <2>2, <2>3 DEF ClientTypes
  <2>6. \A h \in Hooks : inbox[h] = <<>> /\ trades[h] = <<>>
    BY <2>1
  <2>7. OrderInv
    BY <2>1, <2>2, <2>6 DEF OrderInv, Ascending, Before
  <2> QED BY <2>4, <2>5, <2>7 DEF UpdatesInv
<1>2. UpdatesInv /\ [FeedNext]_feedVars => UpdatesInv'
  <2> SUFFICES ASSUME UpdatesInv, [FeedNext]_feedVars PROVE UpdatesInv'
    OBVIOUS
  <2>0. QueueTypes /\ ClientTypes /\ OrderInv
    BY DEF UpdatesInv
  <2> USE DEF UpdatesInv
  <2>1. CASE StreamNext /\ UNCHANGED hookVars
    <3>0. UNCHANGED <<timer, connected, trades, drops>>
      BY <2>1 DEF hookVars
    <3>1. CASE ResetBackoff \/ Reconnect \/ ReconnectThrows \/ Subscribe \/ Error
      <4>1. UNCHANGED updateState /\ UNCHANGED <<listening, alive, silent, inbox>>
        BY <3>0, <3>1 DEF ResetBackoff, Reconnect, ReconnectThrows, Subscribe, Error, engine, relay, clients, updateState
      <4>2. ClientTypes'
        BY <2>0, <3>0, <4>1 DEF ClientTypes
      <4> QED BY <2>0, <4>1, <4>2, UpdatesStutter
    <3>2. CASE Data
      <4>1. UNCHANGED <<listening, alive, silent, inbox>>
        BY <3>2 DEF Data, clients
      <4>2. ClientTypes'
        BY <2>0, <3>0, <4>1 DEF ClientTypes
      <4> QED BY <3>0, <3>2, <4>2, DataKeeps
    <3>3. CASE End
      <4>1. UNCHANGED <<version, lookups, overlapped, listening, alive, silent, inbox>> /\ wire' = <<>>
        BY <3>3 DEF End, relay, clients
      <4>2. ClientTypes'
        BY <2>0, <3>0, <4>1 DEF ClientTypes
      <4>3. <<>> \in Seq(Updates) /\ Len(<<>>) = 0 /\ DOMAIN <<>> = {} /\ ToSet(<<>>) = {}
        BY DEF ToSet
      <4>4. QueueTypes' /\ InStep' = InStep
        BY <2>0, <4>1, <4>3, StreamAssumption DEF QueueTypes, InStep
      <4>5. \A A : Before(A, ToSet(wire'), Orders)
        BY <4>1, <4>3 DEF Before
      <4>6. Ascending(wire', Orders)
        BY <4>1, <4>3 DEF Ascending
      <4>7. OrderInv'
        BY <2>0, <3>0, <4>1, <4>3, <4>4, <4>5, <4>6 DEF OrderInv
      <4> QED BY <4>2, <4>4, <4>7
    <3>4. ASSUME NEW o \in Orders, Publish(o) PROVE UpdatesInv'
      <4>1. UNCHANGED <<listening, alive, silent, inbox>>
        BY <3>4 DEF Publish, clients
      <4>2. ClientTypes'
        BY <2>0, <3>0, <4>1 DEF ClientTypes
      <4> QED BY <3>0, <3>4, <4>2, PublishKeeps
    <3>5. ASSUME NEW u \in lookups, EnrichUpdate(u) PROVE UpdatesInv'
      <4>1. UNCHANGED <<listening, alive, silent>>
        BY <3>5 DEF EnrichUpdate
      <4>2. QueueTypes' /\ OrderInv' /\ inbox' \in [Hooks -> Seq(Updates)]
        BY <3>0, <3>5, EnrichKeeps
      <4>3. ClientTypes'
        BY <2>0, <3>0, <4>1, <4>2 DEF ClientTypes
      <4> QED BY <4>2, <4>3
    <3> QED BY <2>1, <3>1, <3>2, <3>3, <3>4, <3>5 DEF StreamNext
  <2>2. ASSUME NEW h \in Hooks, Ping(h) \/ Pong(h) \/ Open(h) \/ Close(h) \/ Connect(h) PROVE UpdatesInv'
    <3>1. UNCHANGED updateState
      BY <2>2 DEF Ping, Pong, Open, Close, Connect, streamVars, engine, relay, clients, hookVars, updateState
    <3>2. /\ listening' \subseteq Hooks /\ alive' \subseteq listening' /\ silent' \subseteq Hooks
          /\ timer' \subseteq Hooks /\ connected' \subseteq Hooks
      BY <2>0, <2>2 DEF ClientTypes, Ping, Pong, Open, Listen, Close, Connect, streamVars, clients, hookVars
    <3>3. drops' = drops
      BY <2>2 DEF Ping, Pong, Open, Close, Connect, hookVars
    <3>4. ClientTypes'
      BY <2>0, <3>1, <3>2, <3>3 DEF ClientTypes, updateState
    <3> QED BY <2>0, <3>1, <3>4, UpdatesStutter
  <2>3. ASSUME NEW h \in Hooks, Terminate(h) \/ Drop(h) \/ Cut(h) \/ Unmount(h) PROVE UpdatesInv'
    <3>1. inbox' = [inbox EXCEPT ![h] = <<>>] /\ UNCHANGED <<version, wire, lookups, overlapped, trades>>
      BY <2>3 DEF Terminate, Drop, Cut, Unmount, engine, relay
    <3>2. QueueTypes' /\ OrderInv' /\ inbox' \in [Hooks -> Seq(Updates)]
      BY <3>1, InboxEmptied
    <3>3. /\ listening' \subseteq Hooks /\ alive' \subseteq listening' /\ silent' \subseteq Hooks
          /\ timer' \subseteq Hooks /\ connected' \subseteq Hooks
      BY <2>0, <2>3 DEF ClientTypes, Terminate, Drop, Cut, Unmount, Unlisten
    <3>4. drops' = drops \/ (drops < MaxDrops /\ drops' = drops + 1)
      BY <2>3 DEF Terminate, Drop, Cut, Unmount
    <3>5. drops' \in 0 .. MaxDrops
      BY <2>0, <3>4, FeedAssumption DEF ClientTypes
    <3> QED BY <2>0, <3>1, <3>2, <3>3, <3>5 DEF ClientTypes
  <2>4. ASSUME NEW h \in Hooks, Message(h) PROVE UpdatesInv'
    <3>1. UNCHANGED <<listening, alive, silent, timer, connected, drops>>
      BY <2>4 DEF Message
    <3>2. QueueTypes' /\ OrderInv' /\ inbox' \in [Hooks -> Seq(Updates)] /\ trades' \in [Hooks -> Seq(Updates)]
      BY <2>4, MessageKeeps
    <3>3. ClientTypes'
      BY <2>0, <3>1, <3>2 DEF ClientTypes
    <3> QED BY <3>2, <3>3
  <2>5. CASE UNCHANGED feedVars
    <3>1. UNCHANGED updateState /\ UNCHANGED <<listening, alive, silent, inbox, timer, connected, trades, drops>>
      BY <2>5 DEF feedVars, streamVars, engine, relay, clients, hookVars, updateState
    <3>2. ClientTypes'
      BY <2>0, <3>1 DEF ClientTypes
    <3> QED BY <2>0, <3>1, <3>2, UpdatesStutter
  <2> QED BY <2>1, <2>2, <2>3, <2>4, <2>5 DEF FeedNext, ConnectionNext, HookNext
<1> QED BY <1>1, <1>2, PTL DEF FeedSpec

\* Every variable of the feed, of the server's end and of the hooks has its type, the
\* buffers of the call within their capacity.
THEOREM FeedTyped == FeedSpec => []FeedTypeOK
<1>1. StreamInv /\ HooksInv /\ UpdatesInv => FeedTypeOK
  <2> SUFFICES ASSUME StreamInv, HooksInv, UpdatesInv PROVE FeedTypeOK
    OBVIOUS
  <2>1. wire \in BoundedSeq(Updates, Channel)
    <3>1. wire \in Seq(Updates) /\ Len(wire) \in 0 .. Channel
      BY StreamAssumption DEF UpdatesInv, QueueTypes
    <3>2. wire \in [1 .. Len(wire) -> Updates]
      BY <3>1
    <3> QED BY <3>1, <3>2 DEF BoundedSeq, SeqOf
  <2>2. calls \in Nat /\ health \in 0 .. calls /\ attempt \in Nat
    BY DEF StreamInv
  <2>3. restarts \in Nat
    BY DEF StreamInv, FeedSupervised
  <2>4. active \in BOOLEAN /\ call \in {"none", "calling", "open", "failed"}
    BY DEF StreamInv
  <2> QED BY <2>1, <2>2, <2>3, <2>4
          DEF FeedTypeOK, HooksInv, UpdatesInv, QueueTypes, ClientTypes
<1> QED BY <1>1, StreamInvHolds, HooksInvHolds, UpdatesInvHolds, PTL

\* The status a browser shows of an order never goes back, whatever breaks on the way,
\* unless two updates of the order were inside enrichUpdate together.
THEOREM StatusesMoveForward == FeedSpec => StatusMovesForward
<1> DEFINE Forward == \A h \in Hooks, o \in Orders \ overlapped' :
             \A v \in VersionsOf(trades[h], o), w \in VersionsOf(trades'[h], o) : v <= w
<1>1. UpdatesInv /\ [FeedNext]_feedVars => [Forward]_feedVars
  <2> SUFFICES ASSUME UpdatesInv, FeedNext PROVE Forward
    OBVIOUS
  <2>1. CASE UNCHANGED trades
    <3> SUFFICES ASSUME NEW h \in Hooks, NEW o \in Orders, NEW a \in ToSet(trades[h]), NEW b \in ToSet(trades[h]),
                        a.order = o, b.order = o
                 PROVE  a.version <= b.version
      BY <2>1 DEF VersionsOf
    <3>1. a = b
      BY DEF UpdatesInv, OrderInv, ToSet
    <3>2. a.version \in Int
      <4>1. trades[h] \in Seq(Updates)
        BY DEF UpdatesInv, ClientTypes
      <4>2. a \in Updates
        BY <4>1 DEF ToSet
      <4> QED BY <4>2, StreamAssumption DEF Updates
    <3> QED BY <3>1, <3>2
  <2>2. ASSUME NEW h \in Hooks, Message(h) PROVE Forward
    <3>1. Orders \ overlapped' = InStep
      BY <2>2 DEF Message, relay, InStep
    <3> QED BY <2>2, <3>1, MessageKeeps
  <2>3. ASSUME NEW h \in Hooks, ConnectionNext(h) \/ Close(h) \/ Connect(h) \/ Unmount(h) PROVE UNCHANGED trades
    BY <2>3 DEF ConnectionNext, Ping, Pong, Open, Drop, Cut, Terminate, Close, Connect, Unmount, hookVars
  <2> QED BY <2>1, <2>2, <2>3 DEF FeedNext, HookNext, hookVars
<1> QED BY <1>1, UpdatesInvHolds, PTL DEF FeedSpec, StatusMovesForward

------------------------------------------------------------------------------
(* The feed implements OrderFeed.                                          *)

\* The list on a screen has no more rows than there is room for.
RowsFit == \A h \in Hooks : Len(trades[h]) <= MaxTrades

\* A list with one row for an order has as many rows as statuses.
LEMMA RowsCounted ==
    ASSUME NEW list \in Seq(Updates), \A i, j \in DOMAIN list : list[i].order = list[j].order => i = j
    PROVE  IsFiniteSet(ToSet(list)) /\ Cardinality(ToSet(list)) = Len(list)
<1> DEFINE n == Len(list)
<1>1. n \in Nat /\ DOMAIN list = 1 .. n /\ list \in [1 .. n -> Updates]
  OBVIOUS
<1> HIDE DEF n
<1>2. ToSet(list) = {list[i] : i \in 1 .. n}
  BY <1>1 DEF ToSet
<1>3. list \in [1 .. n -> ToSet(list)]
  BY <1>1, <1>2
<1>4. list \in Bijection(1 .. n, ToSet(list))
  BY <1>1, <1>2, <1>3 DEF Bijection, Injection, Surjection, IsInjective
<1>5. ExistsBijection(1 .. n, ToSet(list))
  BY <1>4 DEF ExistsBijection
<1>6. Cardinality(ToSet(list)) = n
  BY <1>1, <1>5, FS_CountingElements
<1>7. IsFiniteSet(ToSet(list))
  BY <1>1, <1>5, FS_NatBijection
<1> QED BY <1>6, <1>7 DEF n

\* An interval tells how long it is.
LEMMA SameLength == ASSUME NEW a \in Nat, NEW b \in Nat, 1 .. a = 1 .. b PROVE a = b
<1>1. a >= 1 => a \in 1 .. b
  OBVIOUS
<1>2. b >= 1 => b \in 1 .. a
  OBVIOUS
<1> QED BY <1>1, <1>2

\* OrderFeed counts as this module does.
LEMMA SameCounting ==
    ASSUME NEW S PROVE Feed!Cardinality(S) = Cardinality(S) /\ (Feed!IsFiniteSet(S) <=> IsFiniteSet(S))
<1>1. Feed!Cardinality(S) = Cardinality(S)
  BY DEF Feed!Cardinality, Cardinality
<1>2. Feed!IsFiniteSet(S) <=> IsFiniteSet(S)
  BY DEF Feed!IsFiniteSet, IsFiniteSet
<1> QED BY <1>1, <1>2

\* The statuses of a list that are of other orders than u.
OthersOf(list, u) == {t \in ToSet(list) : t.order # u.order}

\* The rows of other orders, of which a new row takes one when there is no room.
LEMMA ShownScreen ==
    ASSUME NEW list \in Seq(Updates), NEW u \in Updates, Len(list) <= MaxTrades,
           \A i, j \in DOMAIN list : list[i].order = list[j].order => i = j
    PROVE  /\ Len(Shown(list, u)) <= MaxTrades
           /\ \/ /\ Cardinality(OthersOf(list, u)) < MaxTrades
                 /\ ToSet(Shown(list, u)) = OthersOf(list, u) \cup {u}
              \/ /\ Cardinality(OthersOf(list, u)) = MaxTrades
                 /\ \E t \in OthersOf(list, u) : ToSet(Shown(list, u)) = (OthersOf(list, u) \ {t}) \cup {u}
<1> DEFINE n == Len(list)
           new == Shown(list, u)
           others == OthersOf(list, u)
<1>0. others = {t \in ToSet(list) : t.order # u.order}
  BY DEF OthersOf
<1>1. n \in Nat /\ n <= MaxTrades /\ DOMAIN list = 1 .. n /\ MaxTrades \in Nat /\ MaxTrades >= 1
  BY FeedAssumption
<1>2. new \in Seq(Updates) /\ DOMAIN new = 1 .. Len(new) /\ Len(new) \in Nat
  BY ShownIs
<1>3. IsFiniteSet(ToSet(list)) /\ Cardinality(ToSet(list)) = n
  BY RowsCounted
<1>4. ToSet(list) = {list[i] : i \in DOMAIN list} /\ ToSet(new) = {new[i] : i \in DOMAIN new}
  BY DEF ToSet
<1> DEFINE InItsRow ==
             \E k \in DOMAIN list :
              /\ list[k].order = u.order
              /\ DOMAIN new = DOMAIN list
              /\ \A i \in DOMAIN list : new[i] = IF i = k THEN u ELSE list[i]
           OnTop ==
             \E m \in {n, n + 1} :
              /\ m = n <=> n + 1 > MaxTrades
              /\ DOMAIN new = 1 .. m
              /\ \A i \in DOMAIN list : list[i].order # u.order
              /\ \A i \in 1 .. m : new[i] = IF i = 1 THEN u ELSE list[i - 1]
<1>5. InItsRow \/ OnTop
  BY ShownIs
<1> HIDE DEF n, new, others
<1>6. ASSUME NEW k \in DOMAIN list, list[k].order = u.order, DOMAIN new = DOMAIN list,
             \A i \in DOMAIN list : new[i] = IF i = k THEN u ELSE list[i]
      PROVE  Len(new) <= MaxTrades /\ Cardinality(others) < MaxTrades /\ ToSet(new) = others \cup {u}
  <2>1. Len(new) = n
    BY <1>1, <1>2, <1>6, SameLength
  <2>2. others = ToSet(list) \ {list[k]} /\ list[k] \in ToSet(list)
    BY <1>0, <1>4, <1>6
  <2>3. Cardinality(others) = n - 1
    BY <1>3, <2>2, FS_RemoveElement
  <2>4. ToSet(new) \subseteq others \cup {u}
    BY <1>0, <1>4, <1>6
  <2>5. others \cup {u} \subseteq ToSet(new)
    <3>1. u \in ToSet(new)
      BY <1>4, <1>6
    <3>2. ASSUME NEW t \in others PROVE t \in ToSet(new)
      <4>1. PICK i \in DOMAIN list : t = list[i] /\ t.order # u.order
        BY <1>0, <1>4, <3>2
      <4>2. i # k
        BY <4>1, <1>6
      <4> QED BY <1>4, <1>6, <4>1, <4>2
    <3> QED BY <3>1, <3>2
  <2> QED BY <1>1, <2>1, <2>3, <2>4, <2>5
<1>7. ASSUME NEW m \in {n, n + 1}, m = n <=> n + 1 > MaxTrades, DOMAIN new = 1 .. m,
             \A i \in DOMAIN list : list[i].order # u.order,
             \A i \in 1 .. m : new[i] = IF i = 1 THEN u ELSE list[i - 1]
      PROVE  /\ Len(new) <= MaxTrades
             /\ \/ Cardinality(others) < MaxTrades /\ ToSet(new) = others \cup {u}
                \/ /\ Cardinality(others) = MaxTrades
                   /\ \E t \in others : ToSet(new) = (others \ {t}) \cup {u}
  <2>1. m \in Nat /\ m >= 1 /\ m <= MaxTrades
    BY <1>1, <1>7
  <2>2. Len(new) = m
    BY <1>2, <1>7, <2>1, SameLength
  <2>3. others = ToSet(list) /\ Cardinality(others) = n
    <3>1. \A t \in ToSet(list) : t.order # u.order
      BY <1>4, <1>7
    <3>2. others = ToSet(list)
      BY <1>0, <3>1
    <3> QED BY <3>2, <1>3
  <2>4. u = new[1] /\ u \in ToSet(new)
    BY <1>4, <1>7, <2>1
  <2>5. \A i \in 1 .. (m - 1) : i \in DOMAIN list /\ i + 1 \in DOMAIN new /\ new[i + 1] = list[i]
    <3> SUFFICES ASSUME NEW i \in 1 .. (m - 1)
                 PROVE  i \in DOMAIN list /\ i + 1 \in DOMAIN new /\ new[i + 1] = list[i]
      OBVIOUS
    <3>1. i \in DOMAIN list /\ i + 1 \in 1 .. m /\ i + 1 # 1 /\ (i + 1) - 1 = i
      BY <1>1, <1>7, <2>1
    <3> QED BY <1>7, <3>1
  <2>6. ToSet(new) = {list[i] : i \in 1 .. (m - 1)} \cup {u}
    <3>1. ASSUME NEW i \in DOMAIN new, i # 1 PROVE new[i] \in {list[j] : j \in 1 .. (m - 1)}
      <4>1. i \in 1 .. m /\ i - 1 \in 1 .. (m - 1)
        BY <1>7, <2>1, <3>1
      <4> QED BY <1>7, <3>1, <4>1
    <3>2. ToSet(new) \subseteq {list[i] : i \in 1 .. (m - 1)} \cup {u}
      BY <1>4, <2>4, <3>1
    <3>3. {list[i] : i \in 1 .. (m - 1)} \subseteq ToSet(new)
      BY <1>4, <2>5
    <3> QED BY <2>4, <3>2, <3>3
  <2>7. CASE m = n + 1
    <3>1. m - 1 = n /\ n < MaxTrades
      BY <1>1, <2>1, <2>7
    <3>2. ToSet(new) = others \cup {u}
      BY <1>1, <1>4, <2>3, <2>6, <3>1
    <3> QED BY <2>1, <2>2, <2>3, <3>1, <3>2
  <2>8. CASE m = n
    <3>1. n = MaxTrades /\ n \in DOMAIN list
      BY <1>1, <1>7, <2>1, <2>8
    <3>2. \A i \in 1 .. n : i # n <=> i \in 1 .. (n - 1)
      BY <1>1
    <3>3. {list[i] : i \in 1 .. (n - 1)} = ToSet(list) \ {list[n]}
      <4>1. \A i \in 1 .. n : list[i] = list[n] => i = n
        BY <1>1, <3>1
      <4>2. 1 .. (n - 1) \subseteq 1 .. n
        BY <1>1
      <4> QED BY <1>1, <1>4, <3>2, <4>1, <4>2
    <3>4. list[n] \in others
      BY <1>4, <2>3, <3>1
    <3>5. ToSet(new) = (others \ {list[n]}) \cup {u}
      BY <2>3, <2>6, <2>8, <3>3
    <3> QED BY <2>1, <2>2, <2>3, <3>1, <3>4, <3>5
  <2> QED BY <2>7, <2>8
<1>8. CASE InItsRow
  BY <1>6, <1>8 DEF new, others
<1>9. CASE OnTop
  BY <1>7, <1>9 DEF new, others
<1> HIDE DEF InItsRow, OnTop
<1> QED BY <1>8, <1>9, <1>5

\* No step of the feed but the hook's onmessage changes a list.
LEMMA ListsStay ==
    ASSUME [FeedNext]_feedVars, \A h \in Hooks : ~Message(h) PROVE UNCHANGED trades
BY DEF FeedNext, ConnectionNext, HookNext, Ping, Pong, Open, Drop, Cut, Terminate, Close, Connect, Unmount,
       hookVars, feedVars

\* A list that is full loses its last row for a new one.
LEMMA RowsFitHolds == FeedSpec => []RowsFit
<1>1. FeedInit => RowsFit
  <2>1. Len(<<>>) = 0 /\ 0 <= MaxTrades
    BY FeedAssumption
  <2> QED BY <2>1 DEF FeedInit, RowsFit
<1>2. UpdatesInv /\ RowsFit /\ [FeedNext]_feedVars => RowsFit'
  <2> SUFFICES ASSUME UpdatesInv, RowsFit, [FeedNext]_feedVars PROVE RowsFit'
    OBVIOUS
  <2>1. CASE UNCHANGED trades
    BY <2>1 DEF RowsFit
  <2>2. ASSUME NEW h \in Hooks, Message(h) PROVE RowsFit'
    <3>1. trades \in [Hooks -> Seq(Updates)] /\ inbox[h] \in Seq(Updates) /\ inbox[h] # <<>> /\ Ascending(inbox[h], InStep)
      BY <2>2 DEF UpdatesInv, ClientTypes, OrderInv, Message
    <3>2. Head(inbox[h]) \in Updates
      BY <3>1, TailInOrder
    <3>3. Len(Shown(trades[h], Head(inbox[h]))) <= MaxTrades
      BY <3>1, <3>2, ShownScreen DEF UpdatesInv, OrderInv, RowsFit
    <3> QED BY <2>2, <3>1, <3>3 DEF Message, RowsFit
  <2> QED BY <2>1, <2>2, ListsStay
<1> QED BY <1>1, <1>2, UpdatesInvHolds, PTL DEF FeedSpec

\* "data" makes an order one whose updates may be mixed up when it is its second update
\* inside enrichUpdate.
LEMMA DataMixesUp ==
    ASSUME UpdatesInv, Data, UNCHANGED trades
    PROVE  (\E o \in Orders : Feed!MixUp(o)) \/ UNCHANGED Feed!feedVars
<1> DEFINE u == Head(wire)
           met == {y \in lookups : y.order = u.order}
<1>1. /\ overlapped' = overlapped \cup {x.order : x \in met}
      /\ version' = version
  BY DEF Data
<1>2. u \in ToSet(wire) /\ u \in Updates /\ lookups \subseteq Updates
  <2>1. wire \in Seq(Updates) /\ wire # <<>> /\ Ascending(wire, Orders)
    BY DEF UpdatesInv, QueueTypes, OrderInv, Data
  <2> QED BY <2>1, TailInOrder DEF UpdatesInv, QueueTypes
<1> HIDE DEF u
<1>3. CASE met = {}
  BY <1>1, <1>3 DEF Feed!feedVars
<1>4. CASE met # {}
  <2>1. PICK x \in lookups : x.order = u.order
    BY <1>4
  <2>2. x.version < u.version /\ u.version <= version[u.order]
    BY <1>2, <2>1 DEF UpdatesInv, OrderInv, Before, Updates
  <2>3. u.order \in Orders /\ x.version \in Nat /\ x.version >= 1 /\ u.version \in Nat
    BY <1>2, <2>1, StreamAssumption DEF Updates
  <2>4. version[u.order] \in Nat
    BY <2>3, StreamAssumption DEF UpdatesInv, QueueTypes
  <2>5. overlapped' = overlapped \cup {u.order}
    BY <1>1, <2>1
  <2>6. version[u.order] >= 2
    BY <2>2, <2>3, <2>4
  <2>7. Feed!MixUp(u.order)
    BY <1>1, <2>5, <2>6 DEF Feed!MixUp
  <2> QED BY <2>3, <2>7
<1> QED BY <1>3, <1>4

\* onmessage shows one status, unless the hook was unmounted while it was under way.
LEMMA MessageShows ==
    ASSUME UpdatesInv, RowsFit, NEW h \in Hooks, Message(h)
    PROVE  (\E u \in Updates : Feed!Show(h, u)) \/ UNCHANGED Feed!feedVars
<1> DEFINE u == Head(inbox[h])
           others == OthersOf(trades[h], u)
<1>1. /\ trades' = [trades EXCEPT ![h] = IF mounted[h] THEN Shown(trades[h], u) ELSE trades[h]]
      /\ UNCHANGED <<version, overlapped>>
  BY DEF Message, engine, relay
<1>2. /\ trades \in [Hooks -> Seq(Updates)]
      /\ inbox[h] \in Seq(Updates) /\ inbox[h] # <<>> /\ Ascending(inbox[h], InStep)
      /\ Before(ToSet(trades[h]), ToSet(inbox[h]), InStep)
      /\ \A i, j \in DOMAIN trades[h] : trades[h][i].order = trades[h][j].order => i = j
      /\ \A e \in ToSet(inbox[h]) : e.version <= version[e.order]
      /\ Len(trades[h]) <= MaxTrades
  BY DEF UpdatesInv, ClientTypes, OrderInv, RowsFit, Message
<1>3. u \in Updates /\ u \in ToSet(inbox[h])
  BY <1>2, TailInOrder
<1> HIDE DEF u
<1>4. CASE ~mounted[h]
  <2>1. trades' = trades
    BY <1>1, <1>2, <1>4
  <2> QED BY <1>1, <2>1 DEF Feed!feedVars
<1>5. CASE mounted[h]
  <2>1. trades'[h] = Shown(trades[h], u) /\ \A g \in Hooks : g # h => trades'[g] = trades[g]
    BY <1>1, <1>2, <1>5
  <2>0. others = {t \in ToSet(trades[h]) : t.order # u.order} /\ trades[h] \in Seq(Updates)
    BY <1>2 DEF OthersOf
  <2>2. \/ Cardinality(others) < MaxTrades /\ ToSet(trades'[h]) = others \cup {u}
        \/ /\ Cardinality(others) = MaxTrades
           /\ \E t \in others : ToSet(trades'[h]) = (others \ {t}) \cup {u}
    <3>1. /\ Len(trades[h]) <= MaxTrades
          /\ \A i, j \in DOMAIN trades[h] : trades[h][i].order = trades[h][j].order => i = j
      BY <1>2
    <3>2. \/ Cardinality(others) < MaxTrades /\ ToSet(Shown(trades[h], u)) = others \cup {u}
          \/ /\ Cardinality(others) = MaxTrades
             /\ \E t \in others : ToSet(Shown(trades[h], u)) = (others \ {t}) \cup {u}
      BY <1>3, <2>0, <3>1, ShownScreen
    <3> QED BY <2>1, <3>2
  <2> HIDE DEF others
  <2>3. u.order \notin overlapped => \A t \in ToSet(trades[h]) \ others : t.version < u.version
    BY <1>2, <1>3, <2>0 DEF Before, InStep, Updates
  <2>4. [g \in Hooks |-> ToSet(trades'[g])] = [[g \in Hooks |-> ToSet(trades[g])] EXCEPT ![h] = ToSet(trades'[h])]
    BY <2>1
  <2>5. u.version <= version[u.order]
    BY <1>2, <1>3
  <2>6. [g \in Hooks |-> ToSet(trades[g])][h] = ToSet(trades[h])
    OBVIOUS
  <2>7. others = {t \in [g \in Hooks |-> ToSet(trades[g])][h] : t.order # u.order}
    BY <2>0, <2>6
  <2>8. Feed!Cardinality(others) = Cardinality(others)
    BY SameCounting
  <2>9. ASSUME Cardinality(others) < MaxTrades, ToSet(trades'[h]) = others \cup {u}
        PROVE  Feed!Show(h, u)
    <3>1. [g \in Hooks |-> ToSet(trades'[g])]
          = [[g \in Hooks |-> ToSet(trades[g])] EXCEPT ![h] = others \cup {u}]
      BY <2>4, <2>9
    <3> QED BY <1>1, <2>3, <2>5, <2>6, <2>7, <2>8, <2>9, <3>1 DEF Feed!Show
  <2>10. ASSUME Cardinality(others) = MaxTrades, NEW t \in others, ToSet(trades'[h]) = (others \ {t}) \cup {u}
         PROVE  Feed!Show(h, u)
    <3>1. [g \in Hooks |-> ToSet(trades'[g])]
          = [[g \in Hooks |-> ToSet(trades[g])] EXCEPT ![h] = (others \ {t}) \cup {u}]
      BY <2>4, <2>10
    <3> QED BY <1>1, <2>3, <2>5, <2>6, <2>7, <2>8, <2>10, <3>1 DEF Feed!Show
  <2>11. Feed!Show(h, u)
    BY <2>2, <2>9, <2>10
  <2> QED BY <1>3, <2>11
<1> QED BY <1>4, <1>5

\* Through lags, reconnections and lookups that end in any order, each step of the feed
\* publishes a status, mixes up two of an order, shows one, or is not seen on any screen.
THEOREM FeedImplemented == FeedSpec => ImplementsFeed
<1>1. FeedInit => Feed!FeedInit
  <2>1. ToSet(<<>>) = {}
    BY DEF ToSet
  <2> QED BY <2>1 DEF FeedInit, StreamInit, Feed!FeedInit
<1>2. UpdatesInv /\ RowsFit /\ [FeedNext]_feedVars => [Feed!FeedNext]_(Feed!feedVars)
  <2> SUFFICES ASSUME UpdatesInv, RowsFit, [FeedNext]_feedVars PROVE [Feed!FeedNext]_(Feed!feedVars)
    OBVIOUS
  <2>1. CASE UNCHANGED <<version, overlapped, trades>>
    BY <2>1 DEF Feed!feedVars
  <2>2. CASE StreamNext /\ UNCHANGED trades
    <3>1. ASSUME NEW o \in Orders, Publish(o) PROVE Feed!Publish(o)
      BY <2>2, <3>1 DEF Publish, relay, Feed!Publish
    <3>2. CASE Data
      BY <2>2, <3>2, DataMixesUp DEF Feed!FeedNext
    <3>3. CASE \/ ResetBackoff \/ Reconnect \/ ReconnectThrows \/ Subscribe \/ Error \/ End
               \/ \E u \in lookups : EnrichUpdate(u)
      BY <2>1, <2>2, <3>3 DEF ResetBackoff, Reconnect, ReconnectThrows, Subscribe, Error, End, EnrichUpdate,
                              engine, relay
    <3> QED BY <2>2, <3>1, <3>2, <3>3 DEF StreamNext, Feed!FeedNext
  <2>3. ASSUME NEW h \in Hooks, Message(h) PROVE [Feed!FeedNext]_(Feed!feedVars)
    <3>1. Updates = Feed!Statuses
      BY DEF Updates, Feed!Statuses
    <3> QED BY <2>3, <3>1, MessageShows DEF Feed!FeedNext
  <2>4. ASSUME NEW h \in Hooks, ConnectionNext(h) \/ Close(h) \/ Connect(h) \/ Unmount(h)
        PROVE  UNCHANGED <<version, overlapped, trades>>
    BY <2>4 DEF ConnectionNext, Ping, Pong, Open, Drop, Cut, Terminate, Close, Connect, Unmount,
                hookVars, streamVars, engine, relay
  <2> QED BY <2>1, <2>2, <2>3, <2>4 DEF FeedNext, HookNext, hookVars, feedVars, streamVars, engine, relay
<1> QED BY <1>1, <1>2, UpdatesInvHolds, RowsFitHolds, PTL DEF FeedSpec, ImplementsFeed, Feed!FeedSpec

\* A screen never has two rows of an order, nor more than MAX_LIVE_TRADES rows, nor a
\* status that the engine has not published.
THEOREM ScreensStayLists == FeedSpec => []Feed!ScreensAreLists
<1>1. UpdatesInv /\ RowsFit => Feed!ScreensAreLists
  <2> SUFFICES ASSUME UpdatesInv, RowsFit, NEW h \in Hooks
               PROVE  /\ IsFiniteSet(ToSet(trades[h])) /\ Cardinality(ToSet(trades[h])) <= MaxTrades
                      /\ \A t, u \in ToSet(trades[h]) : t.order = u.order => t = u
                      /\ \A u \in ToSet(trades[h]) : u.version <= version[u.order]
    <3>1. \A g \in Hooks : [k \in Hooks |-> ToSet(trades[k])][g] = ToSet(trades[g])
      OBVIOUS
    <3> QED BY <3>1, SameCounting DEF Feed!ScreensAreLists
  <2>1. /\ trades[h] \in Seq(Updates) /\ Len(trades[h]) <= MaxTrades
        /\ \A i, j \in DOMAIN trades[h] : trades[h][i].order = trades[h][j].order => i = j
        /\ \A u \in ToSet(trades[h]) : u.version <= version[u.order]
    BY DEF UpdatesInv, ClientTypes, OrderInv, RowsFit
  <2>2. \A t, u \in ToSet(trades[h]) : t.order = u.order => t = u
    BY <2>1 DEF ToSet
  <2> QED BY <2>1, <2>2, RowsCounted
<1> QED BY <1>1, UpdatesInvHolds, RowsFitHolds, PTL

\* No step of the feed makes a failing stream forget its delay, a status go back, or a
\* screen change as OrderFeed does not.
THEOREM NoFeedMissteps == FeedSpec => FeedSteps
BY OnlyHealthyCallsReset, StatusesMoveForward, FeedImplemented, PTL DEF FeedSteps
=============================================================================
