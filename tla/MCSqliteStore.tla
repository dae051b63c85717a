--------------------------- MODULE MCSqliteStore ---------------------------
(* Instances of SqliteStore for TLC. *)
EXTENDS SqliteStore

CONSTANTS s1, s2, t1, t2
TwoStores == {s1, s2}
TwoThreads == {t1, t2}
AllFaults == FaultKind
=============================================================================
