--------------------------- MODULE MCMediaServer ---------------------------
(* Small instances of MediaServer for TLC.  The peers are interchangeable  *)
(* where the instance does not tell them apart by MaySlow.                 *)
EXTENDS MediaServer, TLC

CONSTANTS c1, c2

ClientSymmetry == Permutations(Client)
============================================================================
