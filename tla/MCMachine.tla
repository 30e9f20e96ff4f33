----------------------------- MODULE MCMachine -----------------------------
(***************************************************************************)
(* Machine with registers of 16 bits and a guest program assembled for     *)
(* RV64GC, with short and long instructions mixed.                         *)
(***************************************************************************)
EXTENDS Machine

MCReg == 0 .. 31
MCEntry == 64

\* main:  li sp, Top; ld a0, In; ld a1, In+2; jal gcd; sd a0, Out
\*        jal sum; sd a0, Out+2; li a7, 93; ecall
\* gcd:   c.beqz a1, 2f;  1: remu a2, a0, a1; c.mv a0, a1; c.mv a1, a2; c.bnez a1, 1b
\*     2: c.jr ra
\* sum:   c.beqz a0, 1f; c.addi16sp -16; c.sdsp ra, 8; c.sdsp a0, 0; c.addi a0, -1; jal sum
\*        c.ldsp a1, 0; c.ldsp ra, 8; c.addi16sp 16; c.add a0, a1
\*     1: c.jr ra
MCCode == <<
  \h0113, \h1800, \h3503, \h1000, \h3583, \h1020, \h00EF, \h0180, \h3223, \h10A0,
  \h00EF, \h01E0, \h3323, \h10A0, \h0893, \h05D0, \h0073, \h0000,
  \hC591, \h7633, \h02B5, \h852E, \h85B2, \hFDE5, \h8082,
  \hC919, \h717D, \hE406, \hE02A, \h157D, \hF0EF, \hFF7F, \h6582, \h60A2, \h6141, \h952E, \h8082, 0 >>

In == 256
Out == 260
Top == 384
MaxInput == 6

Text(code) == { MCEntry + 2 * (k - 1) : k \in DOMAIN code }
Stack == { Top - 8 * k : k \in 1 .. (2 * MaxInput) }
MCAddr == Text(MCCode) \cup {In, In + 2, Out, Out + 2} \cup Stack

\* Code, the numbers computed, and the return addresses that are saved.
MCCell == { MCCode[k] : k \in DOMAIN MCCode } \cup 0 .. 21 \cup {88, 128}

Loaded(code, a, b) ==
  [c \in MCAddr |-> IF c \in Text(code) THEN code[(c - MCEntry) \div 2 + 1]
                    ELSE IF c = In THEN a ELSE IF c = In + 2 THEN b ELSE 0]

MCPrograms == { Loaded(MCCode, a, b) : a, b \in 0 .. MaxInput }
NoMem(n, m) == {}
NoRet(n) == {}

-----------------------------------------------------------------------------
(* Properties.                                                             *)

Divides(d, n) == \E q \in 0 .. MaxInput : n = q * d
IsGcd(g, a, b) == Divides(g, a) /\ Divides(g, b)
                  /\ \A d \in 1 .. MaxInput : Divides(d, a) /\ Divides(d, b) => Divides(d, g)

\* The guest program ends with what it was written to compute in memory, its stack
\* balanced: fetch, decoding, dispatch, arithmetic and control flow fit together
\* over a whole run, with calls nested in calls.
Computes ==
  ctl = "exited" =>
    /\ IsGcd(mem[Out], mem[In], mem[In + 2])
    /\ mem[Out + 2] = (mem[Out] * (mem[Out] + 1)) \div 2
    /\ regs[D!sp] = Top

\* The guest program runs to its call of exit.
Exits == <>(ctl = "exited")
=============================================================================
