----------------------- MODULE MCFragmentReassembly ------------------------
(* Instances of FragmentReassembly for TLC.  The wire holds one packet at  *)
(* a time: the parser sees only the order of the messages, which does not  *)
(* depend on how many of them are waiting.                                 *)
EXTENDS FragmentReassembly
============================================================================
