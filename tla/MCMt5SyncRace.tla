--------------------------- MODULE MCMt5SyncRace ---------------------------
(***************************************************************************)
(* An instance of Mt5SyncRace for TLC: one position closed by two deals    *)
(* and two sessions.                                                       *)
(***************************************************************************)
EXTENDS Mt5SyncRace, TLC

CONSTANTS p1, d1, d2

ClosingP1 == d1 :> p1 @@ d2 :> p1

============================================================================
