----------------------------- MODULE BoxedRegs -----------------------------
(***************************************************************************)
(* The floating-point registers of RV64D as a program may expect them: a   *)
(* register has 64 bits, a single-precision value in it is boxed, its      *)
(* upper half all ones, and an operand that is not boxed counts as a NaN.  *)
(* What the operations compute is left to functions on their operands.     *)
(***************************************************************************)
CONSTANTS F, X,             \* floating-point and integer registers
          DSlots, WSlots,   \* memory: 8-byte and 4-byte variables
          Half,             \* the values of 32 bits
          Zero, Ones, NaN,  \* three of them
          sop, dop,         \* single and double arithmetic, on three operands
          sint, dint,       \* a float, a double to an integer register
          ints, intd,       \* the conversions back
          widen, narrow,    \* float to double and back
          fill              \* the sign extension of a half

Dword == [lo : Half, hi : Half]

VARIABLES fp, x, dm, wm

avars == <<fp, x, dm, wm>>

Boxed(h) == [lo |-> h, hi |-> Ones]
Single(r) == IF fp[r].hi = Ones THEN fp[r].lo ELSE NaN
Extend(h) == [lo |-> h, hi |-> fill[h]]

SetFp(rd, w) == fp' = [fp EXCEPT ![rd] = w] /\ UNCHANGED <<x, dm, wm>>
SetX(rd, w) == x' = [x EXCEPT ![rd] = w] /\ UNCHANGED <<fp, dm, wm>>

Init ==
  /\ fp = [r \in F |-> [lo |-> Zero, hi |-> Zero]]
  /\ x = [r \in X |-> [lo |-> Zero, hi |-> Zero]]
  /\ dm = [a \in DSlots |-> [lo |-> Zero, hi |-> Zero]]
  /\ wm = [a \in WSlots |-> Zero]

\* Loads and stores.
Flw(rd, a) == SetFp(rd, Boxed(wm[a]))
Fld(rd, a) == SetFp(rd, dm[a])
Fsw(rs, a) == wm' = [wm EXCEPT ![a] = fp[rs].lo] /\ UNCHANGED <<fp, x, dm>>
Fsd(rs, a) == dm' = [dm EXCEPT ![a] = fp[rs]] /\ UNCHANGED <<fp, x, wm>>

\* Arithmetic and sign injection; conversions, comparisons and moves.
SingleOp(rd, a, b, c) == SetFp(rd, Boxed(sop[Single(a), Single(b), Single(c)]))
DoubleOp(rd, a, b, c) == SetFp(rd, dop[fp[a], fp[b], fp[c]])
SingleToInt(rd, a, b) == SetX(rd, sint[Single(a), Single(b)])
DoubleToInt(rd, a, b) == SetX(rd, dint[fp[a], fp[b]])
IntToSingle(rd, a) == SetFp(rd, Boxed(ints[x[a]]))
IntToDouble(rd, a) == SetFp(rd, intd[x[a]])
Widen(rd, a) == SetFp(rd, widen[Single(a)])
Narrow(rd, a) == SetFp(rd, Boxed(narrow[fp[a]]))
MoveXW(rd, a) == SetX(rd, Extend(fp[a].lo))
MoveWX(rd, a) == SetFp(rd, Boxed(x[a].lo))
MoveXD(rd, a) == SetX(rd, fp[a])
MoveDX(rd, a) == SetFp(rd, x[a])

\* The other instructions change the integer registers only.
Other == \E rd \in X, w \in Dword : SetX(rd, w)

Next ==
  \/ \E rd \in F, a \in WSlots : Flw(rd, a) \/ Fsw(rd, a)
  \/ \E rd \in F, a \in DSlots : Fld(rd, a) \/ Fsd(rd, a)
  \/ \E rd, a, b, c \in F : SingleOp(rd, a, b, c) \/ DoubleOp(rd, a, b, c)
  \/ \E rd \in X, a, b \in F : SingleToInt(rd, a, b) \/ DoubleToInt(rd, a, b)
  \/ \E rd \in F, a \in X :
       IntToSingle(rd, a) \/ IntToDouble(rd, a) \/ MoveWX(rd, a) \/ MoveDX(rd, a)
  \/ \E rd, a \in F : Widen(rd, a) \/ Narrow(rd, a)
  \/ \E rd \in X, a \in F : MoveXW(rd, a) \/ MoveXD(rd, a)
  \/ Other

Safety == Init /\ [][Next]_avars
=============================================================================
