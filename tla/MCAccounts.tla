----------------------------- MODULE MCAccounts -----------------------------
(* Accounts, AccountData and KeyRotation for TLC.  They share no state that  *)
(* is modelled: a behaviour of the run is one of the three, chosen at the    *)
(* start.                                                                    *)
EXTENDS Accounts, AccountData, KeyRotation

VARIABLE part

allVars == <<vars, dataVars, keyVars, part>>

MCInit == Init /\ DataInit /\ KeyInit /\ part \in {"sessions", "data", "keys"}

MCNext ==
    \/ part = "sessions" /\ Next /\ UNCHANGED <<dataVars, keyVars, part>>
    \/ part = "data" /\ DataNext /\ UNCHANGED <<vars, keyVars, part>>
    \/ part = "keys" /\ KeyNext /\ UNCHANGED <<vars, dataVars, part>>

MCSpec == MCInit /\ [][MCNext]_allVars /\ (part = "sessions" => AccountsFairness)
DataOnly == MCInit /\ part = "data" /\ [][MCNext]_allVars
=============================================================================
