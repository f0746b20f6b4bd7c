------------------------------ MODULE Brokers ------------------------------
(* The broker serve runs on, chosen once when the process starts: KIS, or   *)
(* the one in memory.                                                       *)
EXTENDS KisCalls, PaperBook

VARIABLE live_exec
brokerVars == <<live_exec, callVars, paperVars>>

BrokerInit == live_exec \in BOOLEAN /\ CallInit /\ PaperInit /\ (live_exec => ~waits)

BrokerNext ==
  /\ UNCHANGED live_exec
  /\ \/ live_exec /\ CallNext /\ UNCHANGED paperVars
     \/ ~live_exec /\ PaperNext /\ UNCHANGED callVars

BrokerSpec == BrokerInit /\ [][BrokerNext]_brokerVars
=============================================================================
