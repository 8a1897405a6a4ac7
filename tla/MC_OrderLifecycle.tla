-------------------------- MODULE MC_OrderLifecycle ---------------------------
(* Small instances: up to two orders that share one product, and two requests *)
(* in flight.                                                                 *)
EXTENDS OrderLifecycle, TLC

CONSTANTS o1, o2, t1, t2, s1, s2

OneOrder    == {o1}
TwoOrders   == {o1, o2}
NoOrder     == {}
FirstOrder  == {o1}
OneTx       == {t1}
TwoTxs      == {t1, t2}
OneSession  == {s1}
TwoSessions == {s1, s2}
OneUnitEach == [o \in Orders |-> 1]

\* Requests are interchangeable.
Symmetry == Permutations(Sessions)

\* So are the transactions of the one order of an instance.
TxSymmetry == {p @@ q : p \in Symmetry, q \in Permutations(Txs)}

\* A bound on what the provider reports: a failure, the success of a second transaction and its
\* refund fit.
MaxCallbacks == 3
FewCallbacks == Cardinality(callbacks) <= MaxCallbacks
===============================================================================
