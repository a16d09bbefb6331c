------------------------ MODULE AccessDBHistoryProofs ------------------------
(***************************************************************************)
(* No dirty reads, for any number of replicas and any faults.              *)
(***************************************************************************)
EXTENDS AccessDBHistory, AccessDBProofs

HistoryTypeOK == TypeOK /\ exchanged \in [Replicas -> Docs]

\* NoDirtyRead alone is not inductive: what a replica holds when its lock is
\* released depends on what it held when the monitor replied.
Faithful(r) ==
    /\ phase[r] = "stored" => cache[r] = exchanged[r]
    /\ phase[r] = "rollback" => cache[r] = EmptyDoc /\ result[r] = "error"
    /\ phase[r] = "idle" =>
           \/ cache[r] = exchanged[r]
           \/ cache[r] = EmptyDoc /\ result[r] = "error" /\ "getFail" \in Faults

AllFaithful == \A r \in Replicas : Faithful(r)

\* A replica that a step does not concern keeps its state.
Still(r) ==
    /\ phase'[r] = phase[r]
    /\ cache'[r] = cache[r]
    /\ result'[r] = result[r]

\* Every step keeps the types, the history variable's included.
LEMMA HistoryTypeStep == HistoryTypeOK /\ [HistoryNext]_historyVars => HistoryTypeOK'
    <1> SUFFICES ASSUME HistoryTypeOK, [HistoryNext]_historyVars
                 PROVE  HistoryTypeOK'
        OBVIOUS
    <1>1. TypeOK'
        BY TypeStep DEF HistoryTypeOK, HistoryNext, historyVars
    <1>2. Stored' \in Docs
        BY <1>1, EmptyDocFacts DEF TypeOK, Stored
    <1> QED BY <1>1, <1>2 DEF HistoryTypeOK, HistoryNext, historyVars

\* Seen from a replica, a step is one of its own or leaves it as it is.
LEMMA OwnStepOrStill ==
    ASSUME TypeOK, Next, NEW q \in Replicas
    PROVE  \/ Still(q)
           \/ Submits(q) \/ MonApply(q) \/ StoreOk(q) \/ StoreLost(q)
           \/ StoreAckLost(q) \/ StoreTimeout(q) \/ RollbackOk(q)
           \/ RollbackFail(q) \/ Load(q) \/ BootRefused(q) \/ Crash(q)
    <1> USE DEF TypeOK, Still
    <1>1. ASSUME NEW r \in Replicas \ {q}, Submits(r)
          PROVE  Still(q)
        BY <1>1, SubmitsAccepted DEF Submit
    <1>2. ASSUME NEW r \in Replicas \ {q},
                 MonApply(r) \/ StoreOk(r) \/ RollbackOk(r) \/ RollbackFail(r) \/ Load(r)
          PROVE  Still(q)
        BY <1>2 DEF MonApply, StoreOk, RollbackOk, RollbackFail, Unlock, Load
    <1>3. ASSUME NEW r \in Replicas \ {q},
                 StoreLost(r) \/ StoreAckLost(r) \/ StoreTimeout(r)
          PROVE  Still(q)
        BY <1>3 DEF StoreLost, StoreAckLost, StoreTimeout, StoreError
    <1>4. ASSUME NEW r \in Replicas \ {q}, BootRefused(r) \/ Crash(r)
          PROVE  Still(q)
        BY <1>4 DEF BootRefused, Crash, Stop
    <1>5. CASE MonApplyLate
        BY <1>5 DEF MonApplyLate
    <1> QED BY <1>1, <1>2, <1>3, <1>4, <1>5, NextSteps

\* Every step, of this replica or another, keeps a replica faithful to what it
\* last exchanged with the monitor.
LEMMA FaithfulStep ==
    ASSUME HistoryTypeOK, HistoryNext, NEW q \in Replicas, Faithful(q)
    PROVE  Faithful(q)'
    <1> USE DEF Faithful, HistoryTypeOK, TypeOK
    <1>0. exchanged'[q] = IF MonApply(q) \/ RollbackOk(q) \/ Load(q)
                          THEN Stored' ELSE exchanged[q]
        BY DEF HistoryNext
    <1>1. CASE Still(q)
        <2>1. ~MonApply(q) /\ ~RollbackOk(q) /\ ~Load(q)
            BY <1>1 DEF Still, MonApply, RollbackOk, Unlock, Load
        <2> QED BY <1>0, <1>1, <2>1 DEF Still
    <1>2. CASE Submits(q)
        <2>1. phase'[q] = "store"
            BY <1>2, SubmitsAccepted DEF Submit
        <2> QED BY <2>1
    <1>3. CASE MonApply(q)
        <2>1. Stored' = cache'[q] /\ phase'[q] = "stored"
            BY <1>3, DBAssumption DEF MonApply, Stored
        <2> QED BY <1>0, <1>3, <2>1
    <1>4. CASE StoreOk(q)
        <2>1. /\ phase[q] = "stored" /\ phase'[q] = "idle" /\ cache'[q] = cache[q]
              /\ ~MonApply(q) /\ ~RollbackOk(q) /\ ~Load(q)
            BY <1>4 DEF StoreOk, MonApply, RollbackOk, Load
        <2> QED BY <1>0, <2>1
    <1>5. CASE StoreLost(q) \/ StoreAckLost(q) \/ StoreTimeout(q)
        <2>1. StoreError(q)
            BY <1>5 DEF StoreLost, StoreAckLost, StoreTimeout
        <2> QED BY <2>1 DEF StoreError
    <1>6. CASE RollbackOk(q)
        <2>1. /\ Stored' = Stored /\ phase'[q] \in {"idle", "down"}
              /\ phase'[q] = "idle" => cache'[q] = Stored
            BY <1>6 DEF RollbackOk, Unlock, Stored
        <2> QED BY <1>0, <1>6, <2>1
    <1>7. CASE RollbackFail(q)
        <2>1. /\ "getFail" \in Faults /\ phase[q] = "rollback"
              /\ phase'[q] \in {"idle", "down"}
              /\ cache'[q] = cache[q] /\ result'[q] = result[q]
            BY <1>7 DEF RollbackFail, Unlock
        <2> QED BY <2>1
    <1>8. CASE Load(q)
        <2>1. Stored' = Stored /\ phase'[q] = "idle" /\ cache'[q] = Stored
            BY <1>8 DEF Load, Stored
        <2> QED BY <1>0, <1>8, <2>1
    <1>9. CASE BootRefused(q) \/ Crash(q)
        <2>1. phase'[q] = "down"
            BY <1>9 DEF BootRefused, Crash, Stop
        <2> QED BY <2>1
    <1>10. Next
        BY DEF HistoryNext
    <1> QED
        BY <1>1, <1>2, <1>3, <1>4, <1>5, <1>6, <1>7, <1>8, <1>9, <1>10, OwnStepOrStill

\* Whoever gets the lock of a replica sees no change the monitor did not have,
\* with any number of replicas and any of the faults.
THEOREM NeverDirtyRead == HistorySpec => []NoDirtyRead
    <1> DEFINE Inv == HistoryTypeOK /\ AllFaithful
    <1>1. HistoryInit => Inv
        BY EmptyDocFacts, InitialAssumption
        DEF HistoryInit, Init, HistoryTypeOK, TypeOK, Phases, AllFaithful, Faithful
    <1>2. Inv /\ [HistoryNext]_historyVars => Inv'
        <2> SUFFICES ASSUME Inv, [HistoryNext]_historyVars PROVE AllFaithful'
            BY HistoryTypeStep
        <2>1. CASE HistoryNext
            BY <2>1, FaithfulStep DEF AllFaithful
        <2>2. CASE UNCHANGED historyVars
            BY <2>2 DEF historyVars, vars, AllFaithful, Faithful
        <2> QED BY <2>1, <2>2
    <1>3. Inv => NoDirtyRead
        BY DEF AllFaithful, Faithful, NoDirtyRead
    <1> QED BY <1>1, <1>2, <1>3, PTL DEF HistorySpec
==============================================================================
