------------------------------ MODULE MCPrices ------------------------------
(***************************************************************************)
(* The price index on a small instance.                                    *)
(***************************************************************************)
EXTENDS Prices
=============================================================================
