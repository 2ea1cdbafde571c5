-------------------------- MODULE MCPushReminders --------------------------
(***************************************************************************)
(* Instances of PushReminders for TLC: two users, one of whom may take     *)
(* over the other's browser.                                               *)
(***************************************************************************)
EXTENDS PushReminders, TLC

CONSTANTS u1, u2, e1, e2, r1, r2

Symmetry == Permutations(Users) \cup Permutations(Endpoints) \cup Permutations(Runs)

============================================================================
