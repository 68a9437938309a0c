------------------------------ MODULE MCSession ------------------------------
(* Session with bounds on what its environment starts: packet ids drawn     *)
(* from a session, and packets in a channel.  A call of enqueue_publish in  *)
(* progress is not held up by either.                                       *)
EXTENDS Session

CONSTANTS
    MaxEnqueues,    \* bound on the packet ids drawn from one session
    MaxQueue        \* bound on a channel that anything but a call appends to

Drawing(s) == {t \in Tasks : call[t].session = s /\ call[t].pc = "fetch"}

Bounded(s) ==
    /\ Drawing(s)' \subseteq Drawing(s)
         \/ issued[s] + Cardinality(Drawing(s)) < MaxEnqueues
    /\ Len(out'[s]) <= Len(out[s]) \/ call' # call \/ Len(out[s]) < MaxQueue

BoundedNext == SessionNext /\ \A s \in Sessions : Bounded(s)

BoundedSpec == SessionInit /\ [][BoundedNext]_sessionVars
BoundedFairSpec == BoundedSpec /\ SessionFairness
==============================================================================
