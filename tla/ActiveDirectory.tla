--------------------------- MODULE ActiveDirectory ---------------------------
(***************************************************************************)
(* The directory service the program reads and edits over LDAP.  It is     *)
(* outside the program and is modelled from how internal/employee/         *)
(* repository.go uses it: one entry per employee, attributes replaced one  *)
(* at a time, answers that may be lost.                                    *)
(*                                                                         *)
(* A value is named by the modification that stored it: the n-th           *)
(* modification the directory makes stores the value n, and 0 is what      *)
(* an attribute held at first.  A larger value of one attribute is then a  *)
(* later one, which is all the properties need to know about data.         *)
(***************************************************************************)
EXTENDS Naturals, Sequences

CONSTANTS
    Employees,   \* the entries below adCfg.EmployeeOU
    MaxMods      \* bound: modifications the directory makes

ASSUME MaxModsAssumption == MaxMods \in Nat

VARIABLES
    ad,          \* ad[e][a]: the value attribute a of employee e holds
    mods         \* history: what each modification replaced

adVars == <<ad, mods>>

\* The attributes UpdateEmployeeAttribute agrees to replace.
EditableAttrs == {"telephoneNumber", "physicalDeliveryOfficeName",
                  "mail", "displayName"}

Record  == [EditableAttrs -> Nat]
Listing == [Employees -> Record]

Modification == [dn: Employees, attr: EditableAttrs, old: Nat,
                 by: {"program", "outside"}]

AdInit ==
    /\ ad = [e \in Employees |-> [a \in EditableAttrs |-> 0]]
    /\ mods = <<>>

\* The next modification replaces attribute a of e.
Store(e, a, by) ==
    /\ Len(mods) < MaxMods
    /\ ad' = [ad EXCEPT ![e][a] = Len(mods) + 1]
    /\ mods' = Append(mods, [dn |-> e, attr |-> a, old |-> ad[e][a], by |-> by])

\* The modification never reaches the entry: dial, bind or refusal.
Refuse == UNCHANGED adVars

\* An administrator's own tools edit the directory behind the program.
OutsideEdit(e, a) == Store(e, a, "outside")

AdTypeOK ==
    /\ ad \in Listing
    /\ mods \in Seq(Modification)
=============================================================================
