------------------------- MODULE MCTaskMaintenance -------------------------
EXTENDS TaskMaintenance

CONSTANTS child, parent

(* One task was started from the other.                                    *)
MCParent == [t \in Task |-> IF t = child THEN parent ELSE None]
============================================================================
