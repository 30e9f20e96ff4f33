------------------------------ MODULE MCDecode ------------------------------
(***************************************************************************)
(* Decode on all compressed words, and on 32-bit words with every opcode   *)
(* and funct3, every funct7 of the floating-point opcode and the values of *)
(* the other fields that a switch or an immediate tells apart.             *)
(***************************************************************************)
EXTENDS Decode

Short == {h \in Half : h % 4 # 3} \X {0}

Long(op, rd, f3, rs1, rs2, f7) ==
  <<3 + 4 * op + 128 * rd + 4096 * f3 + 32768 * (rs1 % 2),
    (rs1 \div 2) + 16 * rs2 + 512 * f7>>

MCWords ==
  Short
  \cup { Long(op, rd, f3, rs1, rs2, f7) :
           op \in (0 .. 31) \ {20}, rd \in {10, 21}, f3 \in 0 .. 7, rs1 \in {13, 18}, rs2 \in {0, 6, 25},
           f7 \in {0, 1, 2, 32, 36, 85, 127} }
  \cup { Long(20, 21, f3, 13, rs2, f7) : f3 \in 0 .. 7, rs2 \in {0, 1, 2, 3, 4, 21}, f7 \in 0 .. 127 }
  \cup { Long(28, 0, 0, 0, 0, 0), Long(28, 0, 0, 0, 1, 0) }
=============================================================================
