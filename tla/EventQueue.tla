----------------------------- MODULE EventQueue -----------------------------
(***************************************************************************)
(* What PageManager promises to whoever calls PostEvent: one FIFO queue,    *)
(* every event handed to its handler once, until the service closes.        *)
(* No thread, no mutex, no batch: EventLoop implements it.                  *)
(***************************************************************************)
EXTENDS Sequences

CONSTANT Events

VARIABLES
    pending,   \* posted, not yet delivered
    handled,   \* delivered, in order
    closed

vars == <<pending, handled, closed>>

Init ==
    /\ pending = <<>>
    /\ handled = <<>>
    /\ closed = FALSE

\* An event may be posted at any time, also to a closed service.
Post(e) ==
    /\ pending' = Append(pending, e)
    /\ UNCHANGED <<handled, closed>>

Deliver ==
    /\ ~closed
    /\ pending # <<>>
    /\ handled' = Append(handled, Head(pending))
    /\ pending' = Tail(pending)
    /\ UNCHANGED closed

Close ==
    /\ ~closed
    /\ closed' = TRUE
    /\ UNCHANGED <<pending, handled>>

Next == Deliver \/ Close \/ \E e \in Events : Post(e)

Spec == Init /\ [][Next]_vars

\* As long as something is pending and the service is open, it goes on.
FairSpec == Spec /\ WF_vars(Deliver)

=============================================================================
