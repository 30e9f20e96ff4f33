------------------------------- MODULE FpRegs -------------------------------
(***************************************************************************)
(* The union fp_reg_t of regs.h as the handlers of interp.c use it.  Some  *)
(* write member v or d, the whole register; the others write f or w, its   *)
(* lower half, and leave the upper half as it is.  flw and the single      *)
(* sign injections fill the upper half with ones.                          *)
(*                                                                         *)
(* The guest programs are those that use a register for the type that they *)
(* have last put in it, as compilers do: fsd and fld move any register, to *)
(* save and restore it.  kind is that knowledge of the program, and not a  *)
(* part of the emulator.                                                   *)
(***************************************************************************)
EXTENDS Naturals

CONSTANTS F, X, DSlots, WSlots, Half, Zero, Ones, NaN,
          sop, dop, sint, dint, ints, intd, widen, narrow, fill

Dword == [lo : Half, hi : Half]

ASSUME FpRegsAssumption ==
  /\ F \cap DSlots = {}
  /\ Zero \in Half /\ Ones \in Half /\ NaN \in Half
  /\ sop \in [Half \X Half \X Half -> Half] /\ dop \in [Dword \X Dword \X Dword -> Dword]
  /\ sint \in [Half \X Half -> Dword] /\ dint \in [Dword \X Dword -> Dword]
  /\ ints \in [Dword -> Half] /\ intd \in [Dword -> Dword]
  /\ widen \in [Half -> Dword] /\ narrow \in [Dword -> Half] /\ fill \in [Half -> {Zero, Ones}]

VARIABLES fp,         \* fp_regs
          x,          \* gp_regs, but for zero
          dm, wm,     \* the guest's 8-byte and 4-byte variables
          kind        \* the type in each register and 8-byte variable: "s" or "d"

vars == <<fp, x, dm, wm, kind>>

Nil == [lo |-> Zero, hi |-> Zero]

-----------------------------------------------------------------------------
(* The assignments.                                                        *)

\* fp_regs[rd].f = ..., fp_regs[rd].w = ...
LowHalf(rd, h) == [fp[rd] EXCEPT !.lo = h]

\* ... | ((uint64_t)-1 << 32)
Filled(h) == [lo |-> h, hi |-> Ones]

SetFp(rd, w, t) ==
  /\ fp' = [fp EXCEPT ![rd] = w] /\ kind' = [kind EXCEPT ![rd] = t]
  /\ UNCHANGED <<x, dm, wm>>

SetX(rd, w) ==
  /\ x' = [x EXCEPT ![rd] = w]
  /\ UNCHANGED <<fp, dm, wm, kind>>

-----------------------------------------------------------------------------
(* The handlers.                                                           *)

func_flw(rd, a) == SetFp(rd, Filled(wm[a]), "s")
func_fld(rd, a) == SetFp(rd, dm[a], kind[a])

func_fsw(rs2, a) ==
  /\ wm' = [wm EXCEPT ![a] = fp[rs2].lo]
  /\ UNCHANGED <<fp, x, dm, kind>>

\* Mutant: the member f is stored, and the upper half of the variable stays.
func_fsd_Low(rs2, a) ==
  /\ dm' = [dm EXCEPT ![a].lo = fp[rs2].lo] /\ kind' = [kind EXCEPT ![a] = kind[rs2]]
  /\ UNCHANGED <<fp, x, wm>>

func_fsd(rs2, a) ==
  /\ dm' = [dm EXCEPT ![a] = fp[rs2]] /\ kind' = [kind EXCEPT ![a] = kind[rs2]]
  /\ UNCHANGED <<fp, x, wm>>

\* fmadd_s to fnmadd_s, fadd_s to fmax_s
func_single(rd, a, b, c) ==
  /\ kind[a] = "s" /\ kind[b] = "s" /\ kind[c] = "s"
  /\ SetFp(rd, LowHalf(rd, sop[fp[a].lo, fp[b].lo, fp[c].lo]), "s")

\* fsgnj_s, fsgnjn_s, fsgnjx_s
func_fsgnj_s(rd, a, b) ==
  /\ kind[a] = "s" /\ kind[b] = "s"
  /\ SetFp(rd, Filled(sop[fp[a].lo, fp[b].lo, fp[b].lo]), "s")

\* fmadd_d to fnmadd_d, fadd_d to fmax_d, fsgnj_d to fsgnjx_d
func_double(rd, a, b, c) ==
  /\ kind[a] = "d" /\ kind[b] = "d" /\ kind[c] = "d"
  /\ SetFp(rd, dop[fp[a], fp[b], fp[c]], "d")

\* fcvt_w_s to fcvt_lu_s, feq_s to fle_s, fclass_s
func_single_int(rd, a, b) ==
  /\ kind[a] = "s" /\ kind[b] = "s"
  /\ SetX(rd, sint[fp[a].lo, fp[b].lo])

\* fcvt_w_d to fcvt_lu_d, feq_d to fle_d, fclass_d
func_double_int(rd, a, b) ==
  /\ kind[a] = "d" /\ kind[b] = "d"
  /\ SetX(rd, dint[fp[a], fp[b]])

\* fcvt_s_w to fcvt_s_lu, fcvt_d_w to fcvt_d_lu
func_fcvt_s(rd, a) == SetFp(rd, LowHalf(rd, ints[x[a]]), "s")
func_fcvt_d(rd, a) == SetFp(rd, intd[x[a]], "d")

func_fcvt_s_d(rd, a) == kind[a] = "d" /\ SetFp(rd, LowHalf(rd, narrow[fp[a]]), "s")
func_fcvt_d_s(rd, a) == kind[a] = "s" /\ SetFp(rd, widen[fp[a].lo], "d")

func_fmv_x_w(rd, a) == SetX(rd, [lo |-> fp[a].lo, hi |-> fill[fp[a].lo]])
func_fmv_w_x(rd, a) == SetFp(rd, LowHalf(rd, x[a].lo), "s")
func_fmv_x_d(rd, a) == kind[a] = "d" /\ SetX(rd, fp[a])
func_fmv_d_x(rd, a) == SetFp(rd, x[a], "d")

\* The handlers of the other instructions write integer registers at most.
Other(rd, w) == SetX(rd, w)

Init ==
  /\ fp = [r \in F |-> Nil] /\ x = [r \in X |-> Nil]
  /\ dm = [a \in DSlots |-> Nil] /\ wm = [a \in WSlots |-> Zero]
  /\ kind = [r \in F \cup DSlots |-> "d"]

Next ==
  \/ \E rd \in F, a \in WSlots : func_flw(rd, a) \/ func_fsw(rd, a)
  \/ \E rd \in F, a \in DSlots : func_fld(rd, a) \/ func_fsd(rd, a)
  \/ \E rd, a, b, c \in F : func_single(rd, a, b, c) \/ func_double(rd, a, b, c)
  \/ \E rd, a, b \in F : func_fsgnj_s(rd, a, b)
  \/ \E rd \in X, a, b \in F : func_single_int(rd, a, b) \/ func_double_int(rd, a, b)
  \/ \E rd \in F, a \in X :
       func_fcvt_s(rd, a) \/ func_fcvt_d(rd, a) \/ func_fmv_w_x(rd, a) \/ func_fmv_d_x(rd, a)
  \/ \E rd, a \in F : func_fcvt_s_d(rd, a) \/ func_fcvt_d_s(rd, a)
  \/ \E rd \in X, a \in F : func_fmv_x_w(rd, a) \/ func_fmv_x_d(rd, a)
  \/ \E rd \in X, w \in Dword : Other(rd, w)

Spec == Init /\ [][Next]_vars

-----------------------------------------------------------------------------
(* Properties.                                                             *)

\* Every variable keeps its type: a half of a register has 32 bits.
TypeOK ==
  /\ fp \in [F -> Dword] /\ x \in [X -> Dword]
  /\ dm \in [DSlots -> Dword] /\ wm \in [WSlots -> Half]
  /\ kind \in [F \cup DSlots -> {"s", "d"}]

\* The registers and the variables that the architecture would hold.
Seen(t, w) == IF t = "s" THEN Filled(w.lo) ELSE w
ArchFp == [r \in F |-> Seen(kind[r], fp[r])]
ArchDm == [a \in DSlots |-> Seen(kind[a], dm[a])]

B == INSTANCE BoxedRegs WITH fp <- ArchFp, dm <- ArchDm

\* To such programs the registers are those of the architecture, where every single
\* is boxed, although most handlers leave the upper half stale: no instruction,
\* and no save and restore of a register, lets the program see it.
RefinesBoxed == B!Safety
=============================================================================
