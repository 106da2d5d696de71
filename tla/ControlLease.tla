---------------------------- MODULE ControlLease ----------------------------
(***************************************************************************)
(* What the quorum promises to the control plane: a register of leases.    *)
(* A certificate (a record with fields term, leader, lease and expires) is *)
(* granted at most to one lease at a time, and terms name leases.          *)
(***************************************************************************)
EXTENDS Naturals

CONSTANT MaxSkew  \* bound on |clock reading - true time|

VARIABLES
    clock,        \* true time
    granted       \* the certificates granted so far

SameLease(x, y) == x.term = y.term /\ x.leader = y.leader /\ x.lease = y.lease

Unexpired(x) == x.expires > clock + MaxSkew

Init == clock = 0 /\ granted = {}

\* A certificate that is granted while it is still good excludes every other
\* lease that is still good, and no earlier grant has a larger term.  One that
\* has expired before it is granted only respects the naming of terms.
Grant(x) ==
    /\ granted' = granted \cup {x}
    /\ \A y \in granted : y.term = x.term => SameLease(x, y)
    /\ Unexpired(x) => \A y \in granted :
          /\ Unexpired(y) => SameLease(x, y)
          /\ y.term <= x.term
    /\ UNCHANGED clock

Tick == clock' = clock + 1 /\ UNCHANGED granted

Next == Tick \/ \E x \in granted' : Grant(x)

Spec == Init /\ [][Next]_<<clock, granted>>
=============================================================================
