---------------------------- MODULE AuditChannel ----------------------------
(***************************************************************************)
(* What an audit queue promises to those that log through it: an event is  *)
(* either turned away at once or accepted, and the accepted events come    *)
(* out once each, in the order in which they went in, at most Capacity of  *)
(* them waiting.  Once it is sealed it accepts nothing more.               *)
(***************************************************************************)
EXTENDS Naturals, Sequences

CONSTANTS Event, Capacity

VARIABLES
    accepted,    \* the events accepted so far
    delivered,   \* the events that came out so far
    sealed       \* no more events are accepted

Init ==
    /\ accepted = <<>>
    /\ delivered = <<>>
    /\ sealed = FALSE

Accept ==
    /\ ~sealed
    /\ Len(accepted) - Len(delivered) < Capacity
    /\ Len(accepted') = Len(accepted) + 1
    /\ accepted' = Append(accepted, accepted'[Len(accepted) + 1])
    /\ accepted'[Len(accepted) + 1] \in Event
    /\ UNCHANGED <<delivered, sealed>>

Deliver ==
    /\ Len(delivered) < Len(accepted)
    /\ delivered' = Append(delivered, accepted[Len(delivered) + 1])
    /\ UNCHANGED <<accepted, sealed>>

Seal ==
    /\ ~sealed
    /\ sealed' = TRUE
    /\ UNCHANGED <<accepted, delivered>>

Next == Accept \/ Deliver \/ Seal

Spec == Init /\ [][Next]_<<accepted, delivered, sealed>>
=============================================================================
