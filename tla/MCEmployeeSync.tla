--------------------------- MODULE MCEmployeeSync ---------------------------
(* The instance of EmployeeSync that TLC checks. *)
EXTENDS EmployeeSync, TLC

CONSTANTS e1, e2, r1, r2

EmployeesAndRunners == Permutations({e1, e2}) \cup Permutations({r1, r2})
=============================================================================
