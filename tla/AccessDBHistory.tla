--------------------------- MODULE AccessDBHistory ---------------------------
(***************************************************************************)
(* AccessDB with a history variable: the last document that each replica   *)
(* exchanged with the monitor, by a store that was applied or a load.      *)
(***************************************************************************)
EXTENDS AccessDB

VARIABLE exchanged

historyVars == <<vars, exchanged>>

HistoryInit == Init /\ exchanged = [r \in Replicas |-> EmptyDoc]

HistoryNext ==
    /\ Next
    /\ exchanged' = [r \in Replicas |->
                         IF MonApply(r) \/ RollbackOk(r) \/ Load(r)
                         THEN Stored' ELSE exchanged[r]]

HistorySpec == HistoryInit /\ [][HistoryNext]_historyVars

\* No reader ever sees a change the monitor did not have, however many replicas
\* write and whatever fails: a replica whose lock is free holds the document it
\* last exchanged with the monitor, or nothing if its last rollback failed.
NoDirtyRead ==
    \A r \in Replicas :
        phase[r] = "idle" =>
            \/ cache[r] = exchanged[r]
            \/ cache[r] = EmptyDoc /\ result[r] = "error" /\ "getFail" \in Faults
==============================================================================
