------------------------------ MODULE MCFpRegs ------------------------------
(***************************************************************************)
(* FpRegs with two floating-point registers, an integer register, a        *)
(* variable of eight bytes and one of four, and halves of one bit.  The    *)
(* functions tell their arguments apart as far as a bit allows.            *)
(***************************************************************************)
EXTENDS FpRegs

MCHalf == 0 .. 1
MCDword == [lo : MCHalf, hi : MCHalf]
W(n) == [lo |-> n % 2, hi |-> (n \div 2) % 2]
N(w) == w.lo + 2 * w.hi

MCsop == [t \in MCHalf \X MCHalf \X MCHalf |-> (t[1] + t[2] * (1 + t[3])) % 2]
MCdop == [t \in MCDword \X MCDword \X MCDword |-> W(N(t[1]) + N(t[2]) * (1 + N(t[3])) + 1)]
MCsint == [t \in MCHalf \X MCHalf |-> W(2 * t[1] + t[2])]
MCdint == [t \in MCDword \X MCDword |-> W(N(t[1]) + 3 * N(t[2]))]
MCints == [w \in MCDword |-> (w.lo + w.hi) % 2]
MCintd == [w \in MCDword |-> W(N(w) + 3)]
MCwiden == [h \in MCHalf |-> W(h + 2)]
MCnarrow == [w \in MCDword |-> (w.lo + w.hi + 1) % 2]
MCfill == [h \in MCHalf |-> h]
=============================================================================
