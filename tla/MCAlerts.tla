------------------------------ MODULE MCAlerts ------------------------------
(***************************************************************************)
(* Restock alerts on a small instance: two watches and one restock, or one *)
(* watch that is ever made and two restocks, chosen at the start.          *)
(***************************************************************************)
EXTENDS Alerts, TLC

CONSTANTS MaxReportsWide   \* bound: reports made while there are two watches
VARIABLE wide

MCInit == Init /\ wide \in BOOLEAN
MCNext ==
    /\ Next
    /\ IF wide THEN reports' =< MaxReportsWide
               ELSE Cardinality({w \in Watch : watch'[w] # None}) =< 1
    /\ UNCHANGED wide

MCSpec == MCInit /\ [][MCNext]_<<vars, wide>> /\ Fairness
=============================================================================
