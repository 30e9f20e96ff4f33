------------------------------ MODULE MCMemory ------------------------------
(***************************************************************************)
(* Memory with bytes of four values, twelve mapped bytes, and stores that  *)
(* overlap each other and the load at many offsets; some addresses wrap    *)
(* around.                                                                 *)
(***************************************************************************)
EXTENDS Memory

MCHostBytes == 20 .. 31
MCBases == {6, AddrSpace - 4}
MCImms == {-2, -1, 0, 1, 3, 6, 10}

\* Bytes 3, 2, 1, 0, 0, 1, 2, 3 and 1, 3, 0, 2, 1, 0, 3, 2, from the lowest up.
MCValues == { 58395, 45453 }
=============================================================================
