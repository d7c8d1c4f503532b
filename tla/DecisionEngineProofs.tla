------------------------ MODULE DecisionEngineProofs ------------------------
(***************************************************************************)
(* Theorems about DecisionEngine, for any finite number of overlapping     *)
(* evaluations, any threshold, and any number of restarts and status       *)
(* changes.                                                                *)
(***************************************************************************)
EXTENDS DecisionEngine, FiniteSetTheorems, TLAPS

\* The engine starts with no call under way.
LEMMA InitType == Init => TypeOK
<1> SUFFICES ASSUME Init PROVE TypeOK
  OBVIOUS
<1>1. /\ pc \in [Evals -> EvalPC] /\ gate \in [Evals -> Gates]
      /\ verdict \in [Evals -> Verdicts] /\ pause \in [Evals -> PausePC]
      /\ rejectCount \in [Evals -> Nat]
  BY DEF Init, EvalPC, Verdicts, PausePC
<1>2. registry \in Statuses /\ config \in Statuses /\ alert \in SUBSET Nat
  BY DEF Init, Statuses
<1>3. /\ rejects \in Nat /\ latches \in Nat /\ spawned \in Nat
      /\ ops \in 0 .. MaxOps /\ restarts \in 0 .. MaxRestarts
  BY ConstantsAssumption DEF Init
<1>4. /\ autoPaused \in BOOLEAN /\ needsDbPause \in BOOLEAN /\ demoMode \in BOOLEAN
      /\ healed \in BOOLEAN /\ resumed \in BOOLEAN /\ dropped \in BOOLEAN
  BY DEF Init
<1> QED
  BY <1>1, <1>2, <1>3, <1>4 DEF TypeOK

\* Going to a point of the code, and returning from evaluate().
LEMMA GotoType ==
  ASSUME TypeOK, NEW e \in Evals, NEW label \in EvalPC, Goto(e, label)
  PROVE  pc' \in [Evals -> EvalPC]
  BY DEF TypeOK, Goto

\* A call that returns a decision keeps the types.
LEMMA ReturnType ==
  ASSUME TypeOK, NEW e \in Evals, NEW decision \in Verdicts, Return(e, decision)
  PROVE  /\ pc' \in [Evals -> EvalPC] /\ verdict' \in [Evals -> Verdicts]
         /\ gate' \in [Evals -> Gates]
<1>1. (IF gate[e] = "submit" THEN "heal" ELSE "take") \in EvalPC
  BY DEF EvalPC
<1>2. pc' \in [Evals -> EvalPC]
  BY <1>1, GotoType DEF Return
<1> QED
  BY <1>2 DEF Return, TypeOK

\* No step of a call or of the routes leaves the types.
LEMMA StepType == TypeOK /\ [Next]_vars => TypeOK'
<1> SUFFICES ASSUME TypeOK, [Next]_vars PROVE TypeOK'
  OBVIOUS
<1> USE ConstantsAssumption
<1>a. /\ "Halt" \in Verdicts /\ "Allow" \in Verdicts /\ "Reject" \in Verdicts
      /\ EvalPC = {"idle", "allow", "reject", "latch", "flag", "heal", "status",
                   "reset1", "reset2", "reset3", "take", "spawn", "done", "lost"}
  BY DEF Verdicts, EvalPC
<1>1. ASSUME NEW e \in Evals, Begin(e) PROVE TypeOK'
  <2>1. /\ pc' \in [Evals -> EvalPC] /\ verdict' \in [Evals -> Verdicts]
        /\ gate' \in [Evals -> Gates]
    BY <1>1, <1>a, GotoType, ReturnType DEF Begin, hist, TypeOK
  <2> QED
    BY <1>1, <2>1 DEF Begin, hist, TypeOK, atomics, pauses, rows, bounds
<1>2. ASSUME NEW e \in Evals, EvalStep(e) PROVE TypeOK'
  <2>1. CASE Allow(e) \/ Reject(e) \/ Latch(e) \/ Flag(e)
    <3>1. /\ pc' \in [Evals -> EvalPC] /\ verdict' \in [Evals -> Verdicts]
          /\ gate' \in [Evals -> Gates]
      BY <1>a, <2>1, GotoType, ReturnType DEF Allow, Reject, Latch, Flag, TypeOK
    <3>2. /\ rejects' \in Nat /\ autoPaused' \in BOOLEAN /\ needsDbPause' \in BOOLEAN
          /\ latches' \in Nat /\ resumed' \in BOOLEAN
      <4>1. rejects' = rejects \/ rejects' = 0 \/ rejects' = rejects + 1
        BY <2>1 DEF Allow, Reject, Latch, Flag
      <4>2. latches' = latches \/ latches' = latches + 1
        BY <2>1 DEF Allow, Reject, Latch, Flag, hist
      <4>3. /\ autoPaused' \in {autoPaused, TRUE} /\ needsDbPause' \in {needsDbPause, TRUE}
            /\ resumed' \in {resumed, FALSE}
        BY <2>1 DEF Allow, Reject, Latch, Flag, hist
      <4>4. rejects' \in Nat /\ latches' \in Nat
        BY <4>1, <4>2 DEF TypeOK
      <4>5. autoPaused' \in BOOLEAN /\ needsDbPause' \in BOOLEAN /\ resumed' \in BOOLEAN
        BY <4>3, Zenon DEF TypeOK
      <4> QED
        BY <4>4, <4>5
    <3>3. UNCHANGED <<demoMode, pauses, rows, bounds, dropped, spawned, healed>>
      BY <2>1 DEF Allow, Reject, Latch, Flag, hist
    <3> QED
      BY <3>1, <3>2, <3>3 DEF TypeOK, pauses, rows, bounds
  <2>2. CASE Heal(e) \/ ReadStatus(e) \/ ResetPause(e) \/ Take(e) \/ Spawn(e)
    <3>1. pc' \in [Evals -> EvalPC]
      BY <1>a, <2>2, GotoType DEF Heal, ReadStatus, ResetPause, Take, Spawn
    <3>2. /\ rejects' \in Nat /\ autoPaused' \in BOOLEAN /\ needsDbPause' \in BOOLEAN
          /\ spawned' \in Nat /\ healed' \in BOOLEAN
          /\ pause' \in [Evals -> PausePC] /\ rejectCount' \in [Evals -> Nat]
      <4>1. /\ rejects' \in {rejects, 0} /\ spawned' \in {spawned, spawned + 1}
            /\ autoPaused' \in {autoPaused, FALSE} /\ needsDbPause' \in {needsDbPause, FALSE}
            /\ healed' \in {healed, TRUE}
        BY <2>2 DEF Heal, ReadStatus, ResetPause, Take, Spawn, atomics
      <4>2. /\ pause' \in {pause, [pause EXCEPT ![e] = "registry"]}
            /\ rejectCount' \in {rejectCount, [rejectCount EXCEPT ![e] = rejects]}
        BY <2>2 DEF Heal, ReadStatus, ResetPause, Take, Spawn, pauses
      <4>3. "registry" \in PausePC
        BY DEF PausePC
      <4>4. rejects' \in Nat /\ spawned' \in Nat
        BY <4>1 DEF TypeOK
      <4>5. autoPaused' \in BOOLEAN /\ needsDbPause' \in BOOLEAN /\ healed' \in BOOLEAN
        BY <4>1, Zenon DEF TypeOK
      <4>6. pause' \in [Evals -> PausePC] /\ rejectCount' \in [Evals -> Nat]
        BY <4>2, <4>3 DEF TypeOK
      <4> QED
        BY <4>4, <4>5, <4>6
    <3>3. GateFrame
      BY <2>2 DEF Heal, ReadStatus, ResetPause, Take, Spawn
    <3>4. dropped' \in BOOLEAN
      <4>1. dropped' \in {dropped, FALSE}
        BY <2>2 DEF Heal, ReadStatus, ResetPause, Take, Spawn
      <4> QED
        BY <4>1, Zenon DEF TypeOK
    <3> QED
      BY <3>1, <3>2, <3>3, <3>4 DEF GateFrame, TypeOK, rows, bounds
  <2> QED
    BY <1>2, <2>1, <2>2 DEF EvalStep
<1>3. ASSUME NEW e \in Evals, PauseStep(e) PROVE TypeOK'
  <2>1. /\ registry' \in Statuses /\ config' \in Statuses /\ alert' \in SUBSET Nat
        /\ pause' \in [Evals -> PausePC]
    BY <1>3 DEF PauseStep, PauseRegistry, PauseConfig, PauseAlert, TypeOK, Statuses, PausePC
  <2>2. PauseFrame
    BY <1>3 DEF PauseStep, PauseRegistry, PauseConfig, PauseAlert
  <2> QED
    BY <2>1, <2>2 DEF PauseFrame, TypeOK, atomics, calls, bounds, hist
<1>4. ASSUME NEW status \in Statuses, SetStatus(status) PROVE TypeOK'
  BY <1>4 DEF SetStatus, TypeOK, atomics, calls, pauses
<1>5. CASE Restart
  <2>1. pc' \in [Evals -> EvalPC]
    BY <1>5 DEF Restart, TypeOK, EvalPC
  <2>2. pause' \in [Evals -> PausePC]
    BY <1>5 DEF Restart, TypeOK, PausePC
  <2>3. rejects' \in Nat /\ restarts' \in 0 .. MaxRestarts
    BY <1>5 DEF Restart, TypeOK
  <2>4. autoPaused' \in BOOLEAN /\ needsDbPause' \in BOOLEAN
    BY <1>5 DEF Restart
  <2>5. UNCHANGED <<demoMode, gate, verdict, rejectCount, rows, ops, hist>>
    BY <1>5 DEF Restart
  <2> QED
    BY <2>1, <2>2, <2>3, <2>4, <2>5 DEF TypeOK, rows, hist
<1>6. ASSUME NEW e \in Evals, Drop(e) PROVE TypeOK'
  <2>1. pc' \in [Evals -> EvalPC]
    BY <1>6, <1>a, GotoType DEF Drop
  <2>2. dropped' \in BOOLEAN
    BY <1>6 DEF Drop
  <2> QED
    BY <1>6, <2>1, <2>2 DEF Drop, GateFrame, TypeOK, atomics, pauses, rows, bounds
<1>7. CASE UNCHANGED vars
  BY <1>7 DEF vars, TypeOK, atomics, calls, pauses, rows, bounds, hist
<1> QED
  BY <1>1, <1>2, <1>3, <1>4, <1>5, <1>6, <1>7 DEF Next

\* TypeOK holds in every state: in particular no count ever drops below zero.
THEOREM TypeCorrect == Spec => []TypeOK
  BY InitType, StepType, PTL DEF Spec

-----------------------------------------------------------------------------
(* Single fire *)

\* Calls that carry a pause not yet spawned: on the way to the flag or from it.
Carrying == {e \in Evals : pc[e] \in {"flag", "spawn"}}

\* needs_db_pause, as a number.
FlagUp == IF needsDbPause THEN 1 ELSE 0

\* Strengthening: each rise of the latch is one token, which a call carries to
\* the flag, the flag holds, a call carries from the flag, or a spawn consumes;
\* a reset or a restart may lose it, nothing makes a second one of it.
TokenInv == spawned + Cardinality(Carrying) + FlagUp <= latches

\* The calls that carry a pause can be counted.
LEMMA CarryingFinite == IsFiniteSet(Carrying) /\ Cardinality(Carrying) \in Nat
  BY ConstantsAssumption, FS_Subset, FS_CardinalityType DEF Carrying

\* At the start there is no pause to carry.
LEMMA InitToken == Init => TokenInv
<1> SUFFICES ASSUME Init PROVE TokenInv
  OBVIOUS
<1>1. Carrying = {}
  BY DEF Init, Carrying
<1>2. Cardinality(Carrying) = 0
  BY <1>1, FS_EmptySet
<1> QED
  BY <1>2 DEF Init, TokenInv, FlagUp

\* A step that takes a call nowhere near the flag.
LEMMA CarryingSame ==
  ASSUME TypeOK, NEW e \in Evals, NEW label \in EvalPC \ {"flag", "spawn"}, Goto(e, label),
         pc[e] \notin {"flag", "spawn"}
  PROVE  Carrying' = Carrying
  BY DEF Carrying, Goto, TypeOK

\* A call that takes a pause up adds one,
LEMMA CarryingMore ==
  ASSUME TypeOK, NEW e \in Evals, NEW label \in {"flag", "spawn"}, Goto(e, label),
         pc[e] \notin {"flag", "spawn"}
  PROVE  Cardinality(Carrying') = Cardinality(Carrying) + 1
<1>1. Carrying' = Carrying \cup {e} /\ e \notin Carrying
  BY DEF Carrying, Goto, TypeOK
<1> QED
  BY <1>1, CarryingFinite, FS_AddElement

\* and one that lays it down takes one away.
LEMMA CarryingLess ==
  ASSUME TypeOK, NEW e \in Evals, NEW label \in EvalPC \ {"flag", "spawn"}, Goto(e, label),
         pc[e] \in {"flag", "spawn"}
  PROVE  Cardinality(Carrying') = Cardinality(Carrying) - 1
<1>1. Carrying' = Carrying \ {e} /\ e \in Carrying
  BY DEF Carrying, Goto, TypeOK
<1> QED
  BY <1>1, CarryingFinite, FS_RemoveElement

\* No step makes two pauses of one latch.
LEMMA StepToken == TypeOK /\ TokenInv /\ [Next]_vars => TokenInv'
<1> SUFFICES ASSUME TypeOK, TokenInv, [Next]_vars PROVE TokenInv'
  OBVIOUS
<1>a. /\ spawned \in Nat /\ latches \in Nat /\ FlagUp \in 0 .. 1
      /\ Cardinality(Carrying) \in Nat
  BY CarryingFinite DEF TypeOK, FlagUp
<1>b. ASSUME Carrying' = Carrying, UNCHANGED <<spawned, needsDbPause, latches>> PROVE TokenInv'
  BY <1>b DEF TokenInv, FlagUp
<1>c. /\ {"heal", "take", "status", "reset1", "reset2", "reset3", "done", "allow", "reject",
          "latch", "lost"} \subseteq EvalPC \ {"flag", "spawn"}
  BY DEF EvalPC
\* Returning leads to one of two points of the gate.
<1>d. ASSUME NEW e \in Evals, NEW decision \in Verdicts, Return(e, decision)
      PROVE  \E label \in {"heal", "take"} : Goto(e, label)
  BY <1>d DEF Return
<1>1. ASSUME NEW e \in Evals, Begin(e) PROVE TokenInv'
  <2>1. Carrying' = Carrying
    <3>1. \E label \in {"heal", "take", "allow", "reject"} : Goto(e, label)
      BY <1>1, <1>d DEF Begin, hist, Verdicts
    <3> QED
      BY <1>1, <1>c, <3>1, CarryingSame DEF Begin, hist
  <2> QED
    BY <1>1, <1>b, <2>1 DEF Begin, hist, atomics
<1>2. ASSUME NEW e \in Evals, EvalStep(e) PROVE TokenInv'
  <2>1. CASE Allow(e) \/ Reject(e)
    <3>1. Carrying' = Carrying
      <4>1. \E label \in {"heal", "take", "latch"} : Goto(e, label)
        BY <1>d, <2>1 DEF Allow, Reject, Verdicts
      <4> QED
        BY <1>c, <2>1, <4>1, CarryingSame DEF Allow, Reject
    <3> QED
      BY <1>b, <2>1, <3>1 DEF Allow, Reject, hist
  <2>2. CASE Latch(e)
    <3>1. CASE autoPaused
      <4>1. Carrying' = Carrying
        BY <1>c, <1>d, <2>2, <3>1, CarryingSame DEF Latch, Verdicts
      <4> QED
        BY <1>b, <2>2, <3>1, <4>1 DEF Latch
    <3>2. CASE ~ autoPaused
      <4>1. Cardinality(Carrying') = Cardinality(Carrying) + 1
        BY <2>2, <3>2, CarryingMore DEF Latch
      <4>2. latches' = latches + 1 /\ spawned' = spawned /\ FlagUp' = FlagUp
        BY <2>2, <3>2 DEF Latch, FlagUp
      <4> QED
        BY <1>a, <4>1, <4>2 DEF TokenInv
    <3> QED
      BY <3>1, <3>2
  <2>3. CASE Flag(e)
    <3>1. Cardinality(Carrying') = Cardinality(Carrying) - 1
      BY <1>c, <1>d, <2>3, CarryingLess DEF Flag, Verdicts
    <3>2. FlagUp' \in 0 .. 1 /\ UNCHANGED <<spawned, latches>>
      BY <2>3 DEF Flag, FlagUp, hist
    <3>3. FlagUp' <= FlagUp + 1
      BY <1>a, <3>2
    <3> QED
      BY <1>a, <3>1, <3>2, <3>3 DEF TokenInv
  <2>4. CASE Heal(e) \/ ReadStatus(e)
    <3>1. Carrying' = Carrying
      <4>1. \E label \in {"take", "status", "reset1"} : Goto(e, label)
        BY <2>4 DEF Heal, ReadStatus
      <4> QED
        BY <1>c, <2>4, <4>1, CarryingSame DEF Heal, ReadStatus
    <3> QED
      BY <1>b, <2>4, <3>1 DEF Heal, ReadStatus, GateFrame, atomics
  <2>5. CASE ResetPause(e)
    <3>1. Carrying' = Carrying
      <4>1. \E label \in {"reset2", "reset3", "take"} : Goto(e, label)
        BY <2>5 DEF ResetPause
      <4> QED
        BY <1>c, <2>5, <4>1, CarryingSame DEF ResetPause
    <3>2. FlagUp' \in 0 .. FlagUp /\ UNCHANGED <<spawned, latches>>
      BY <2>5 DEF ResetPause, GateFrame, FlagUp
    <3> QED
      BY <1>a, <3>1, <3>2 DEF TokenInv
  <2>6. CASE Take(e)
    <3>1. FlagUp' = 0 /\ UNCHANGED <<spawned, latches>>
      BY <2>6 DEF Take, GateFrame, FlagUp
    <3>2. CASE needsDbPause
      <4>1. Cardinality(Carrying') = Cardinality(Carrying) + 1
        BY <2>6, <3>2, CarryingMore DEF Take
      <4> QED
        BY <1>a, <3>1, <3>2, <4>1 DEF TokenInv, FlagUp
    <3>3. CASE ~ needsDbPause
      <4>1. Carrying' = Carrying
        BY <1>c, <2>6, <3>3, CarryingSame DEF Take
      <4> QED
        BY <1>a, <3>1, <4>1 DEF TokenInv
    <3> QED
      BY <3>2, <3>3
  <2>7. CASE Spawn(e)
    <3>1. Cardinality(Carrying') = Cardinality(Carrying) - 1
      BY <1>c, <2>7, CarryingLess DEF Spawn
    <3>2. spawned' = spawned + 1 /\ latches' = latches /\ FlagUp' = FlagUp
      BY <2>7 DEF Spawn, GateFrame, atomics, FlagUp
    <3> QED
      BY <1>a, <3>1, <3>2 DEF TokenInv
  <2> QED
    BY <1>2, <2>1, <2>2, <2>3, <2>4, <2>5, <2>6, <2>7 DEF EvalStep
<1>3. ASSUME NEW e \in Evals, PauseStep(e) PROVE TokenInv'
  <2>1. PauseFrame
    BY <1>3 DEF PauseStep, PauseRegistry, PauseConfig, PauseAlert
  <2>2. Carrying' = Carrying
    BY <2>1 DEF PauseFrame, calls, Carrying
  <2> QED
    BY <1>b, <2>1, <2>2 DEF PauseFrame, atomics, hist
<1>4. ASSUME NEW status \in Statuses, SetStatus(status) PROVE TokenInv'
  <2>1. Carrying' = Carrying
    BY <1>4 DEF SetStatus, calls, Carrying
  <2> QED
    BY <1>4, <1>b, <2>1 DEF SetStatus, atomics
<1>5. CASE Restart
  <2>1. Carrying' = {}
    BY <1>5 DEF Restart, Carrying
  <2>2. Cardinality(Carrying') = 0
    BY <2>1, FS_EmptySet
  <2>3. FlagUp' = 0 /\ UNCHANGED <<spawned, latches>>
    BY <1>5 DEF Restart, FlagUp, hist
  <2> QED
    BY <1>a, <2>2, <2>3 DEF TokenInv
<1>6. ASSUME NEW e \in Evals, Drop(e) PROVE TokenInv'
  <2>1. Carrying' = Carrying
    BY <1>6, <1>c, CarryingSame DEF Drop
  <2> QED
    BY <1>6, <1>b, <2>1 DEF Drop, GateFrame, atomics
<1>7. CASE UNCHANGED vars
  <2>1. Carrying' = Carrying
    BY <1>7 DEF vars, calls, Carrying
  <2> QED
    BY <1>7, <1>b, <2>1 DEF vars, atomics, hist
<1> QED
  BY <1>1, <1>2, <1>3, <1>4, <1>5, <1>6, <1>7 DEF Next

\* However many evaluations overlap with each other, with resets and with
\* restarts, one rise of the latch never pauses the wallet twice.
THEOREM PausesOncePerLatch == Spec => []SingleFire
<1>1. Spec => [](TypeOK /\ TokenInv)
  BY InitType, StepType, InitToken, StepToken, PTL DEF Spec
<1>2. TypeOK /\ TokenInv => SingleFire
  BY CarryingFinite DEF TypeOK, TokenInv, SingleFire, FlagUp
<1> QED
  BY <1>1, <1>2, PTL

-----------------------------------------------------------------------------
(* A streak latches *)

\* At the start there is no streak.
LEMMA InitStreak == Init => StreakLatches
  BY DEF Init, StreakLatches

\* A call that is not at the swap leaves the calls that are there alone.
LEMMA SwappersStay ==
  ASSUME TypeOK, NEW e \in Evals, pc[e] # "latch", NEW label \in EvalPC, Goto(e, label)
  PROVE  \A d \in Evals : pc[d] = "latch" => pc'[d] = "latch"
  BY DEF TypeOK, Goto

\* No step lets a streak of rejections reach its limit without the latch.
LEMMA StepStreak == TypeOK /\ StreakLatches /\ [Next]_vars => StreakLatches'
<1> SUFFICES ASSUME TypeOK, StreakLatches, [Next]_vars PROVE StreakLatches'
  OBVIOUS
<1>a. ASSUME UNCHANGED <<rejects, autoPaused, healed>>,
             \A d \in Evals : pc[d] = "latch" => pc'[d] = "latch"
      PROVE  StreakLatches'
  BY <1>a DEF StreakLatches
<1>b. \A label \in {"heal", "take", "status", "reset1", "allow", "reject", "spawn", "done",
                "lost"} :
        label \in EvalPC
  BY DEF EvalPC
<1>1. ASSUME NEW e \in Evals, Begin(e) PROVE StreakLatches'
  <2>1. \E label \in {"heal", "take", "allow", "reject"} : Goto(e, label)
    BY <1>1 DEF Begin, hist, Return
  <2>2. \A d \in Evals : pc[d] = "latch" => pc'[d] = "latch"
    BY <1>1, <1>b, <2>1, SwappersStay DEF Begin, hist
  <2> QED
    BY <1>1, <1>a, <2>2 DEF Begin, hist, atomics
<1>2. ASSUME NEW e \in Evals, EvalStep(e) PROVE StreakLatches'
  <2>1. CASE Allow(e)
    BY <2>1 DEF Allow, StreakLatches
  <2>2. CASE Reject(e)
    <3>1. CASE rejects + 1 >= Threshold
      <4>1. pc'[e] = "latch"
        BY <2>2, <3>1 DEF Reject, Goto, TypeOK
      <4> QED
        BY <4>1 DEF StreakLatches
    <3>2. CASE ~ (rejects + 1 >= Threshold)
      BY <2>2, <3>2 DEF Reject, StreakLatches
    <3> QED
      BY <3>1, <3>2
  <2>3. CASE Latch(e)
    BY <2>3 DEF Latch, StreakLatches
  <2>4. CASE Flag(e) \/ Heal(e) \/ ReadStatus(e) \/ Take(e) \/ Spawn(e)
    <3>1. \E label \in {"heal", "take", "status", "reset1", "spawn", "done"} : Goto(e, label)
      BY <2>4 DEF Flag, Heal, ReadStatus, Take, Spawn, Return
    <3>2. pc[e] # "latch"
      BY <2>4 DEF Flag, Heal, ReadStatus, Take, Spawn
    <3>3. \A d \in Evals : pc[d] = "latch" => pc'[d] = "latch"
      BY <1>b, <3>1, <3>2, SwappersStay
    <3>4. UNCHANGED <<rejects, autoPaused, healed>>
      BY <2>4 DEF Flag, Heal, ReadStatus, Take, Spawn, atomics, hist
    <3> QED
      BY <1>a, <3>3, <3>4
  <2>5. CASE ResetPause(e)
    BY <2>5 DEF ResetPause, StreakLatches
  <2> QED
    BY <1>2, <2>1, <2>2, <2>3, <2>4, <2>5 DEF EvalStep
<1>3. ASSUME NEW e \in Evals, PauseStep(e) PROVE StreakLatches'
  <2>1. PauseFrame
    BY <1>3 DEF PauseStep, PauseRegistry, PauseConfig, PauseAlert
  <2> QED
    BY <1>a, <2>1 DEF PauseFrame, atomics, calls, hist
<1>4. ASSUME NEW status \in Statuses, SetStatus(status) PROVE StreakLatches'
  BY <1>4, <1>a DEF SetStatus, atomics, calls
<1>5. CASE Restart
  BY <1>5 DEF Restart, StreakLatches
<1>6. ASSUME NEW e \in Evals, Drop(e) PROVE StreakLatches'
  <2>1. \A d \in Evals : pc[d] = "latch" => pc'[d] = "latch"
    BY <1>6, <1>b, SwappersStay DEF Drop
  <2> QED
    BY <1>6, <1>a, <2>1 DEF Drop, atomics
<1>7. CASE UNCHANGED vars
  BY <1>7, <1>a DEF vars, atomics, calls, hist
<1> QED
  BY <1>1, <1>2, <1>3, <1>4, <1>5, <1>6, <1>7 DEF Next

\* No interleaving of rejections and approvals makes the engine miss a streak
\* of the threshold's length.
THEOREM StreaksAreNotMissed == Spec => []StreakLatches
<1>1. Spec => [](TypeOK /\ StreakLatches)
  BY InitType, StepType, InitStreak, StepStreak, PTL DEF Spec
<1> QED
  BY <1>1, PTL
=============================================================================
