------------------------------- MODULE MCAlu -------------------------------
(***************************************************************************)
(* Alu with a uint64_t of 8 bits and a uint32_t of 4: every lower half,    *)
(* with the upper halves around zero, the largest and the smallest values. *)
(***************************************************************************)
EXTENDS Alu

MCValues == { 16 * high + low : high \in {0, 1, 7, 8, 15}, low \in 0 .. 15 }
=============================================================================
