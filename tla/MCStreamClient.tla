-------------------------- MODULE MCStreamClient ---------------------------
(* Instances of StreamClient for TLC: MaxPackets is its only parameter.    *)
EXTENDS StreamClient
============================================================================
