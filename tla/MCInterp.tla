------------------------------ MODULE MCInterp ------------------------------
(***************************************************************************)
(* Interp on a machine with 12 addresses, five mapped cells, the registers *)
(* zero, a0 and a7, and one encoding or two for each kind of instruction.  *)
(* The second cell of a long instruction is its immediate, so immediates,  *)
(* stored data and code share one memory, and programs rewrite themselves. *)
(***************************************************************************)
EXTENDS Interp

MCReg == {0, 1, 2}
MCAddr == {0, 2, 4, 8, 10}
MCCell == 0 .. 11

Long(kind, rd, rs1, rs2, imm) ==
  [kind |-> kind, op |-> 0, rd |-> rd, rs1 |-> rs1, rs2 |-> rs2, rs3 |-> 0,
   imm |-> imm, csr |-> FALSE, rvc |-> FALSE]

Short(kind, op, rd, rs1, imm) ==
  [kind |-> kind, op |-> op, rd |-> rd, rs1 |-> rs1, rs2 |-> 0, rs3 |-> 0,
   imm |-> imm, csr |-> FALSE, rvc |-> TRUE]

MCFields(raw) ==
  LET d == raw[2]
  IN  CASE raw[1] = 0  -> Short("alu", 1, 1, 1, 1)
        [] raw[1] = 1  -> Long("alu", 2, 0, 0, d)
        [] raw[1] = 2  -> Long("load", 1, 1, 0, d - 4)
        [] raw[1] = 3  -> Long("store", 0, 1, 2, d)
        [] raw[1] = 4  -> Long("branch", 0, 1, 2, 2 * d - 12)
        [] raw[1] = 5  -> Long("jal", d % 3, 0, 0, 2 * d - 12)
        [] raw[1] = 6  -> Short("jalr", 0, 1, 1, 3)
        [] raw[1] = 7  -> Long("ecall", 0, 0, 0, 0)
        [] raw[1] = 8  -> [Long("csr", 1, 2, 0, 0) EXCEPT !.csr = (d % 2 = 0)]
        [] raw[1] = 9  -> Long("fence", 0, 0, 0, 0)
        [] raw[1] = 10 -> Long("illegal", 0, 0, 0, 0)
        [] raw[1] = 11 -> Short("branch", 1, 0, 1, -2)

MCAluOp(op, o) == Wrap(o.rs1 + o.imm)
MCAluTraps(op, o) == op = 0 /\ o.imm = 11
MCBranchTaken(op, a, b) == IF op = 0 THEN a = b ELSE a # b
MCLoadOp(op, c) == c
MCStoreOp(op, c, v) == v % 12
MCSyscallRet(n) == IF n = 0 THEN {0} ELSE {1, 9}
MCSyscallMem(n, m) == IF n = 0 THEN {m} ELSE {m, [m EXCEPT ![4] = 0]}

\* Every content of the three cells around the end of the address space, after
\* an ecall and before a load or a second ecall; address 6 is not mapped.
MCPrograms ==
  { [a \in MCAddr |-> CASE a = 8 -> 7 [] a = 10 -> p [] a = 0 -> q [] a = 2 -> r [] a = 4 -> s]
      : p, q, r \in MCCell, s \in {2, 7} }
=============================================================================
