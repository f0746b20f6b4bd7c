----------------------------- MODULE MCRouting -----------------------------
(* One lot of each market; the overseas one can be sold in two parts.       *)
EXTENDS Routing
MCDomestic == {"krx"}
MCAbroad   == {"us"}
MCShares   == [l \in Held |-> IF l = "us" THEN 2 ELSE 1]
=============================================================================
