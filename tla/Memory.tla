------------------------------- MODULE Memory -------------------------------
(***************************************************************************)
(* The load and store handlers of interp.c: func_lb to func_lwu, func_sb   *)
(* to func_sd.  A byte has ByteSize values and a register eight bytes; the *)
(* host is little-endian and allows every alignment.                       *)
(***************************************************************************)
EXTENDS Word, Sequences

CONSTANTS ByteSize,       \* the number of values of a byte, 256 in the code
          GuestOffset,    \* GUEST_MEMORY_OFFSET
          HostBytes,      \* the mapped host addresses
          Bases, Imms,    \* values of rs1 and of the immediate
          Values,         \* values of rs2
          MaxStores       \* bound: the number of stores before the load

Byte == 0 .. (ByteSize - 1)

\* What one unit of byte k of a value is worth: ByteSize to the power k.
Weight ==
  LET two == ByteSize * ByteSize
      four == two * two
  IN  [k \in 0 .. 8 |-> <<1, ByteSize, two, two * ByteSize, four, four * ByteSize,
                         four * two, four * two * ByteSize, four * four>>[k + 1]]

ASSUME MemoryAssumption ==
  /\ ByteSize \in Nat /\ ByteSize > 1 /\ ByteSize % 2 = 0 /\ AddrSpace = Weight[8]
  /\ GuestOffset \in Nat
  /\ HostBytes \subseteq Word /\ Bases \subseteq Word /\ Values \subseteq Word
  /\ Imms \subseteq Int

VARIABLES mem,     \* host address -> byte
          log,     \* history: the stores, in order
          load,    \* the load handler that has run, and its address
          rd,      \* gp_regs[inst->rd] after it
          ctl      \* "run", "loaded" or "crashed"

vars == <<mem, log, load, rd, ctl>>

TO_HOST(a) == Wrap(a + GuestOffset)

\* Byte k of a value.
ByteOf(v, k) == (v \div Weight[k]) % ByteSize

\* The types of the accesses: the number of bytes, and whether it is signed.
Load == [lb |-> 1, lh |-> 2, lw |-> 4, ld |-> 8, lbu |-> 1, lhu |-> 2, lwu |-> 4]
SignedLoad == {"lb", "lh", "lw", "ld"}

\* Mutant: sh stores a whole word.
Store_Wide == [sb |-> 1, sh |-> 4, sw |-> 4, sd |-> 8]

Store == [sb |-> 1, sh |-> 2, sw |-> 4, sd |-> 8]

addr(rs1, imm) == Wrap(rs1 + imm)

\* The bytes an access of n bytes touches.
Touched(a, n) == { TO_HOST(a) + k : k \in 0 .. (n - 1) }

\* The value of eight bytes, the lowest first.
Number(d) ==
  d[0] + ByteSize * (d[1] + ByteSize * (d[2] + ByteSize * (d[3] + ByteSize
    * (d[4] + ByteSize * (d[5] + ByteSize * (d[6] + ByteSize * d[7]))))))

\* *(unsigned ty *)TO_HOST(a)
Fetched(a, n) == Number([k \in 0 .. 7 |-> IF k < n THEN mem[TO_HOST(a) + k] ELSE 0])

\* The conversion of a value of n bytes to uint64_t.
Extended(v, n, signed) ==
  IF signed /\ 2 * v >= Weight[n] THEN Wrap(v - Weight[n]) ELSE v

\* *(typ *)TO_HOST(addr) = (typ)rs2
func_store(op, a, v) ==
  /\ ctl = "run" /\ Len(log) < MaxStores
  /\ Touched(a, Store[op]) \subseteq HostBytes
  /\ mem' = [h \in HostBytes |->
               IF h \in Touched(a, Store[op]) THEN ByteOf(v, h - TO_HOST(a)) ELSE mem[h]]
  /\ log' = Append(log, [op |-> op, addr |-> a, value |-> v])
  /\ UNCHANGED <<load, rd, ctl>>

func_load(op, a) ==
  /\ ctl = "run"
  /\ Touched(a, Load[op]) \subseteq HostBytes
  /\ rd' = Extended(Fetched(a, Load[op]), Load[op], op \in SignedLoad)
  /\ load' = [op |-> op, addr |-> a]
  /\ ctl' = "loaded"
  /\ UNCHANGED <<mem, log>>

\* A byte of the access is not mapped.
Faults(a, n) ==
  /\ ctl = "run"
  /\ ~(Touched(a, n) \subseteq HostBytes)
  /\ ctl' = "crashed"
  /\ UNCHANGED <<mem, log, load, rd>>

Terminated == ctl # "run" /\ UNCHANGED vars

Init ==
  /\ mem = [h \in HostBytes |-> 0]
  /\ log = << >> /\ load = [op |-> "none", addr |-> 0] /\ rd = 0
  /\ ctl = "run"

Next ==
  \/ \E rs1 \in Bases, imm \in Imms :
       \/ \E op \in DOMAIN Store, v \in Values : func_store(op, addr(rs1, imm), v)
       \/ \E op \in DOMAIN Load : func_load(op, addr(rs1, imm))
       \/ \E n \in {1, 2, 4, 8} : Faults(addr(rs1, imm), n)
  \/ Terminated

Spec == Init /\ [][Next]_vars

-----------------------------------------------------------------------------
(* Properties.                                                             *)

\* The sizes of the accesses in the architecture.
Size == [sb |-> 1, sh |-> 2, sw |-> 4, sd |-> 8,
         lb |-> 1, lh |-> 2, lw |-> 4, ld |-> 8, lbu |-> 1, lhu |-> 2, lwu |-> 4]

\* The byte a guest may expect at its address a, after the stores it has made.
LastStored(a) ==
  LET covering == {j \in DOMAIN log : Wrap(a - log[j].addr) < Size[log[j].op]}
      last == CHOOSE j \in covering : \A i \in covering : i <= j
  IN  IF covering = {} THEN 0 ELSE ByteOf(log[last].value, Wrap(a - log[last].addr))

\* A load finds, byte by byte, what the stores before it have left, whatever their
\* sizes and however the accesses overlap, and extends it as its name says.
LoadsSeeStores ==
  ctl = "loaded" =>
    LET n == Size[load.op]
        top == LastStored(Wrap(load.addr + n - 1))
        fill == IF load.op \in {"lbu", "lhu", "lwu"} \/ 2 * top < ByteSize THEN 0 ELSE ByteSize - 1
    IN  \A k \in 0 .. 7 :
          ByteOf(rd, k) = IF k < n THEN LastStored(Wrap(load.addr + k)) ELSE fill
=============================================================================
