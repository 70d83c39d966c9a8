------------------------ MODULE MCEmployeeDirectory ------------------------
(***************************************************************************)
(* EmployeeDirectory for TLC.  Handlers and employees are model values and *)
(* nothing distinguishes one from another, so both are symmetric in the    *)
(* runs that check safety.                                                 *)
(***************************************************************************)
EXTENDS EmployeeDirectory, TLC

Symmetry == Permutations(Handlers) \cup Permutations(Employees)

\* Bodies of updates.
Phone == {{"telephoneNumber"}}
Both == {{"telephoneNumber", "physicalDeliveryOfficeName"}}
=============================================================================
