------------------------------ MODULE MC_Connector ------------------------------
(* Two deliveries of the order task; one event, sent by the cron or by hand. *)
EXTENDS Connector
CONSTANTS t1, t2, e1, e2
===============================================================================
