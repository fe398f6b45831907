--------------------------- MODULE MCAuthSession ---------------------------
(***************************************************************************)
(* Model checking of AuthSession: values for its constants.                *)
(***************************************************************************)
EXTENDS AuthSession, TLC

CONSTANTS q1, q2, u1, u2

TwoCalls == {q1, q2}
OneUser == {u1}
TwoUsers == {u1, u2}

\* Slots are interchangeable; used where only safety is checked.
Symmetry == Permutations(Calls)
=============================================================================
