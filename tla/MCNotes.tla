------------------------------ MODULE MCNotes ------------------------------
(* The instance of Notes that TLC checks. *)
EXTENDS Notes, TLC

CONSTANTS h1, h2, h3, n1, n2

HandlersAndNotes == Permutations({h1, h2, h3}) \cup Permutations({n1, n2})
=============================================================================
