------------------------------ MODULE MCWifiTrial ------------------------------
(***************************************************************************)
(* WifiTrial for TLC: home networks with and without a static address, and *)
(* configurations that do not reach a network.                             *)
(***************************************************************************)
EXTENDS WifiTrial, TLC

AllFaults == {"script", "probe", "disk", "helper", "power"}
NoFaults == {}

=============================================================================
