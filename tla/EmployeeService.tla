--------------------------- MODULE EmployeeService ---------------------------
(***************************************************************************)
(* What the employee API promises to those who list and update, with no    *)
(* cache, version or directory in sight.  There is one committed listing,  *)
(* of which nothing is ever taken back.  An update takes effect at one     *)
(* moment between its request and its reply, or not at all; a list request *)
(* is shown at least what was committed when it came.  A restart cuts the  *)
(* requests short and forgets nothing that was committed.                  *)
(***************************************************************************)
EXTENDS Naturals

CONSTANTS Handlers, Employees, Attrs

VARIABLES
    committed,   \* what every listing asked for from now on shows at least
    op           \* op[h]: how far the request that h serves has come

Record  == [Attrs -> Nat]
Listing == [Employees -> Record]

Covers(r, s) == \A a \in Attrs : r[a] >= s[a]

Nothing == [a \in Attrs |-> 0]

Idle           == [kind |-> "idle"]
Asked(floor)   == [kind |-> "asked", floor |-> floor]
Shown(listing) == [kind |-> "shown", listing |-> listing]

Updating(e, stored)     == [kind |-> "updating", dn |-> e, stored |-> stored]
Committed(e)            == [kind |-> "committed", dn |-> e]
Acknowledged(e, record) == [kind |-> "acknowledged", dn |-> e, record |-> record]
Unconfirmed             == [kind |-> "unconfirmed"]
Refused                 == [kind |-> "refused"]

Becomes(h, state) == op' = [op EXCEPT ![h] = state]

Init ==
    /\ committed = [e \in Employees |-> Nothing]
    /\ op = [h \in Handlers |-> Idle]

\* A list request comes.
Ask(h) ==
    /\ op[h] = Idle
    /\ Becomes(h, Asked(committed))
    /\ UNCHANGED committed

\* It is answered with a listing that is no older, for any employee, ...
Show(h) ==
    /\ op[h].kind = "asked"
    /\ op'[h].kind = "shown"
    /\ op'[h].listing \in Listing
    /\ \A e \in Employees : Covers(op'[h].listing[e], op[h].floor[e])
    /\ Becomes(h, Shown(op'[h].listing))
    /\ UNCHANGED committed

\* ... or with an error.
TurnAway(h) ==
    /\ op[h].kind = "asked"
    /\ Becomes(h, Idle)
    /\ UNCHANGED committed

\* An update of e comes.
Begin(h, e) ==
    /\ op[h] = Idle
    /\ Becomes(h, Updating(e, Nothing))
    /\ UNCHANGED committed

\* It stores a value of one attribute.
Store(h, a) ==
    /\ op[h].kind = "updating"
    /\ op'[h].kind = "updating"
    /\ op'[h].stored[a] \in Nat
    /\ Becomes(h, Updating(op[h].dn,
                           [op[h].stored EXCEPT ![a] = op'[h].stored[a]]))
    /\ UNCHANGED committed

\* It takes effect: all it stored is committed at once, but where something
\* later is committed already.
Commit(h) ==
    /\ op[h].kind = "updating"
    /\ committed' = [committed EXCEPT ![op[h].dn] =
          [a \in Attrs |-> IF @[a] < op[h].stored[a] THEN op[h].stored[a]
                                                     ELSE @[a]]]
    /\ Becomes(h, Committed(op[h].dn))

\* It fails, and commits nothing.
Refuse(h) ==
    /\ op[h].kind = "updating"
    /\ Becomes(h, Refused)
    /\ UNCHANGED committed

\* The reply to a committed update shows its employee, no older than what is
\* committed, ...
Acknowledge(h) ==
    /\ op[h].kind = "committed"
    /\ op'[h].kind = "acknowledged"
    /\ op'[h].record \in Record
    /\ Covers(op'[h].record, committed[op[h].dn])
    /\ Becomes(h, Acknowledged(op[h].dn, op'[h].record))
    /\ UNCHANGED committed

\* ... or is an error, although the update is in effect.
LeaveOpen(h) ==
    /\ op[h].kind = "committed"
    /\ Becomes(h, Unconfirmed)
    /\ UNCHANGED committed

End(h) ==
    /\ op[h].kind \in {"shown", "acknowledged", "unconfirmed", "refused"}
    /\ Becomes(h, Idle)
    /\ UNCHANGED committed

Restart ==
    /\ op' = [h \in Handlers |-> Idle]
    /\ UNCHANGED committed

HandlerNext(h) ==
    \/ Ask(h) \/ Show(h) \/ TurnAway(h)
    \/ \E e \in Employees : Begin(h, e)
    \/ \E a \in Attrs : Store(h, a)
    \/ Commit(h) \/ Refuse(h) \/ Acknowledge(h) \/ LeaveOpen(h)
    \/ End(h)

Next == (\E h \in Handlers : HandlerNext(h)) \/ Restart

Spec == Init /\ [][Next]_<<committed, op>>
=============================================================================
