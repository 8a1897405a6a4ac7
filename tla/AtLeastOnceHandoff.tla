-------------------------- MODULE AtLeastOnceHandoff --------------------------
(***************************************************************************)
(* What an outbox promises, free of rows, leases and workers: the          *)
(* platform's own, towards the broker, and the Odoo add-on's, towards the  *)
(* store.  An event becomes owed when the business transaction that wrote  *)
(* it commits.  From then on it may be handed over any number of times; it *)
(* is acknowledged only if it was accepted at least once, or it is         *)
(* abandoned on the record (no route, malformed, refused, or tried too     *)
(* often).  One commit may report about several events.  A report on an    *)
(* old claim may reopen a settled event, never forget one.                 *)
(***************************************************************************)
CONSTANT Events

VARIABLES ledger,      \* what is on record about each event
          delivered    \* the events the other side accepted at least once

absVars == <<ledger, delivered>>

States == {"none", "owed", "acked", "abandoned"}

AbsTypeOK == /\ ledger \in [Events -> States]
             /\ delivered \subseteq Events

AbsInit == /\ ledger = [e \in Events |-> "none"]
           /\ delivered = {}

Record(e) == /\ ledger[e] = "none"
             /\ ledger' = [ledger EXCEPT ![e] = "owed"]
             /\ UNCHANGED delivered

Deliver(e) == /\ ledger[e] # "none"
              /\ delivered' = delivered \cup {e}
              /\ UNCHANGED ledger

\* What may be put on record about an event.
MayReport(e, word) == /\ ledger[e] # "none"
                      /\ word \in States \ {"none"}
                      /\ word = "acked" => e \in delivered

Report == /\ ledger' \in [Events -> States]
          /\ \A e \in Events : ledger'[e] # ledger[e] => MayReport(e, ledger'[e])
          /\ UNCHANGED delivered

AbsNext == \/ \E e \in Events : Record(e) \/ Deliver(e)
           \/ Report

\* The safety part of the promise.
AbsSafety == AbsInit /\ [][AbsNext]_absVars

\* Its liveness part: nothing stays owed for ever.
EverySettles == \A e \in Events :
                   (ledger[e] = "owed") ~> (ledger[e] \in {"acked", "abandoned"})
===============================================================================
