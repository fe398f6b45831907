--------------------------- MODULE MCUserAccounts ---------------------------
(***************************************************************************)
(* Model checking of UserAccounts: values for its constants.               *)
(***************************************************************************)
EXTENDS UserAccounts, TLC

CONSTANTS q1, q2, q3, a1, a2

TwoCalls == {q1, q2}
ThreeCalls == {q1, q2, q3}
OneEmail == {a1}
TwoEmails == {a1, a2}
TwoRoles == {"USER", "ADMIN"}
ThreeRoles == {"USER", "OPERATOR", "ADMIN"}

\* Slots are interchangeable; used where only safety is checked.
Symmetry == Permutations(Calls)
=============================================================================
