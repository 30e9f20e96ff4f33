# A verification project for the RISC-V 64 emulator

`rvemu` runs a statically linked RV64 Linux program on an x86-64 host. It maps the
program's ELF segments into its own address space, builds a stack, and interprets
RV64IMFDC instructions until the guest makes a system call, which it passes on to
the host. This directory models it in TLA+, checks the models with TLC on small
instances and proves the central results with TLAPS.

Source paths below are relative to `src/` of this directory's parent, so
`src/mmu.c` is the file that `PROJECT.json` calls `src/src/mmu.c`.

## 1. Inventory

The program is sequential: one thread, no signals, no persistent state. What is hard
in it is not concurrency but state that several functions share and change in turn,
arithmetic at the edges of a width, and long sequences of legal calls.

| component | state | operations | interacts with | what makes it correct |
|---|---|---|---|---|
| ELF loader (`mmu.c`, `machine.c`, `elfdef.h`) | `mmu_t`: `entry`, `host_alloc`, `guest_alloc`, `base`; the host's page table | `machine_load_program`, `mmu_load_elf`, `load_phdr`, `mmu_load_segment` | maps memory that everything else reads; sets `pc` | every byte of every segment is where its header says, the rest of a segment is zero, the break is above all segments, any file is loaded or refused |
| guest memory (`mmu.c`, `rvemu.h`) | the same | `mmu_alloc` (grow, shrink, neither), `mmu_write`, `TO_HOST`, `TO_GUEST` | called by `machine_setup` and `sys_brk`; calls `mmap`, `munmap` | what was promised to the guest is mapped; the break stays in the accounted area |
| process setup (`machine.c`, `rvemu.c`) | `sp`, the bytes of the stack | `machine_setup` | `mmu_alloc`, `mmu_write` | the guest finds its arguments, terminated, in order |
| interpreter loop (`interp.c`, `machine.c`, `rvemu.c`) | `state_t`: `pc`, `reenter_pc`, `exit_reason`, registers; a static `inst_t` | `exec_block_interp`, the table `funcs[]`, the handlers, `machine_step`, `main`'s loop | decoder, guest memory, system calls | the guest sees one instruction after the other, executed by its own handler; assertions hold; it never stalls |
| decoder (`decode.c`) | none (it fills the static `inst_t`) | `decode_inst`, 25 readers | called before every handler | each word means what the encoding tables say, short forms mean what they abbreviate |
| integer handlers (`interp.c`, `interp_util.h`) | registers, memory | 41 handlers that compute, 11 that load or store, `mulh`, `mulhsu`, `mulhu` | called through `funcs[]` | agreement with integer arithmetic, division by zero and overflow included; a load finds what was stored |
| floating-point handlers (`interp.c`, `interp_util.h`) | `fp_regs`, a union of four members | 62 handlers, `fsgnj32/64`, `f32/f64_classify` | called through `funcs[]`; the host's arithmetic and `llrint` | classes, signs and conversions as IEEE 754 and RISC-V have them; half-written registers never show |
| CSR handlers (`interp.c`) | none | six handlers | called through `funcs[]` | known registers are accepted, others are fatal |
| system calls (`syscall.c`) | host file descriptors and files, `mmu_t` | `do_syscall`, two tables, `convert_flags`, ten handlers | `main`, `mmu_alloc`, the host kernel | each call does to files and memory what the guest's own interface says; results reach `a0` |
| printing (`interp.c`) | none | `inst_print` | its one call is commented out | not modelled |

Hard behaviours, each of which appears at its line in `PROJECT.json` under
`hazards`: sequences of `brk` calls (the shrinking branch of `mmu_alloc` and the
unchecked hint of its `mmap`), segments that share pages or come in any order,
sizes that round up or wrap around, the static `inst_t` that survives from one
instruction to the next, programs that overwrite themselves, the hand-over between
two loops through four variables, a handler table that is tied to an enumeration by
position only, scattered immediates, carries and signs in the multiplications, zero
and overflow in the divisions, system-call numbers and open flags of another system,
buffers that are only partly mapped, `fp_regs` written by halves, and conversions at
the edges of their ranges.

## 2. Modules

| module | models | kind |
|---|---|---|
| `Word` | `uint64_t` arithmetic with `AddrSpace` values in place of 2^64; `ROUNDUP`, `ROUNDDOWN`, `MAX` | operators |
| `Mmu` | `mmu_t`, `mmu_load_segment`, `mmu_alloc`; the kernel's `mmap` and `munmap` (external) | component |
| `Process` | `main` up to and including its system calls on memory: load, set up, `brk`, `exit` | composes `Mmu` |
| `MmuProofs`, `ProcessProofs` | accounting of the guest's memory in `Process`, and what memory contains when the guest starts | proofs |
| `Arch` | what the next two share: instructions, memory, and the meaning of single instructions as operator constants | operators |
| `ISA` | the promise to the guest: one instruction at a time | abstract specification |
| `Interp` | `exec_block_interp`, `machine_step`, `main`'s loop | component, refines `ISA` |
| `InterpProofs` | theorems about `Interp`, the refinement included | proofs |
| `Decode` | `decode_inst` and its readers; beside them the encoding tables as a reference | algorithm |
| `DecodeProofs` | what holds of all decoded words | proofs |
| `Dispatch` | `inst_type_t`, `funcs[]` and `funcs[inst.type]` | operators |
| `Alu` | the integer handlers and the high multiplications | algorithm |
| `AluProofs` | theorems about what the integer handlers compute | proofs |
| `Memory` | the load and store handlers, byte by byte | component |
| `MemoryProofs` | loads see stores, for all sizes and overlaps | proofs |
| `Machine` | `Interp` with `Decode`, `Dispatch` and `Alu` as its decoder and handlers | composition |
| `Files` | files and descriptors of a POSIX kernel (external) | operators |
| `GuestFiles` | what the guest's system-call interface promises | abstract specification |
| `Syscall` | `do_syscall`, its tables and handlers | component, composes `Mmu` and `Files`, refines `GuestFiles` |
| `SyscallProofs` | theorems about `Syscall`, the refinement included | proofs |
| `Ieee` | the host's floating point (external), with widths as parameters | operators |
| `Float` | what the floating-point handlers compute | algorithm |
| `BoxedRegs` | the floating-point registers of RV64D, singles NaN-boxed | abstract specification |
| `FpRegs` | the union `fp_reg_t` under all handlers | component, refines `BoxedRegs` |
| `FloatProofs` | theorems about what the floating-point handlers compute, and the refinement of the registers | proofs |
| `MCProcess`, `MCInterp`, `MCDecode`, `MCAlu`, `MCMemory`, `MCMachine`, `MCSyscall`, `MCFloat`, `MCFpRegs` | instances for TLC | |

`PROJECT.json` maps every definition to the lines it models.

### Process and Mmu

The variables `entry`, `host_alloc`, `guest_alloc` and `base` are the fields of
`mmu_t`. `pages` is the host's page table: a page is unmapped, anonymous, or holds
a page of the ELF file. `data` holds the bytes written since their page was mapped.
Bytes are tagged with where they come from (byte *o* of the file, byte *j* of
`argv[k]`, byte *b* of a stored word), so that a property can say "the byte the
header asks for" with no encoding. A page of the file that lies wholly past its end cannot be
read (`SIGBUS` on the host; `Fault`). `trimmed` and `displaced` are history variables:
`munmap` has been called, and the kernel has placed a mapping away from its hint.

Each turn of a loop in the code is one action (`LoadPhdr`, `PushArg`), each call of
`mmu_alloc` belongs to the action of its caller, and every way a function can stop
the program (`fatal`, an assertion, a fault) is an action or a branch that ends in
`aborted` or `crashed`. `mmap` and `munmap` may refuse any request, must refuse an
empty one or one that leaves the user address space, and follow a hint exactly when
its range is free; with `MAP_FIXED` they replace what is there. The kernel also
holds mappings of its own (the emulator's code, its stack, shared libraries).
They lie far above the guest's area; the model has them only as the limit
`HostLimit`.

The header checks of `mmu_load_elf` are one field of the image, and
`flags_to_mmap_prot` is left out: protections never change control flow here, only
whether a guest's own access faults.

### Interp and ISA

One action per kind of handler; the 133 handlers fall into nine kinds by their
effect on control. What they compute is given by the operator constants `AluOp`,
`LoadOp`, `StoreOp`, `BranchTaken` and `Fields` (`decode_inst`), so the theorems
hold for every instruction set, the one `Decode` and `Alu` describe among them.
`AluTraps` says for which operands a handler stops the process (`SIGFPE` in the W
divisions) instead of writing a register; such a step is `ExecFaults` in `Interp`. `ISA`
stops there too, so that the refinement is about everything but this defect, which the run
`alu_divw` shows.
`type`, `inst` and `continue_exec` are the static `inst_t` of `exec_block_interp`;
decoding overwrites it except for `ECALL`, which sets two fields. Every handler's
action contains what follows it in the loop: the reset of register zero, the test of
`continue_exec` and the advance of `pc` (`LoopEnd`).

The CSR instructions of `ISA` are likewise what the handlers do, 0 in `rd` and no write: the
refinement says nothing about whether that is right (section 5).

`ISA` has no `inst_t`, blocks or exit reason: it reads the instruction at `pc` from
memory, executes it and moves on. The refinement mapping reads `pc` from
`reenter_pc` between the end of a block and the start of the next one. Memory is a
function from a fixed set of mapped addresses to 16-bit cells; that `brk` changes
which addresses are mapped is the subject of `Process`, not of `Interp`.

### Decode

A 32-bit word is a pair of 16-bit halves (TLC's integers have 32 bits). The readers
are translated shift by shift; `Quadrant0` to `Quadrant3` are the cases of
`decode_inst`, an assertion or `unreachable` that fails being `Illegal`; `Opcodes` is the last
quadrant without `ECALL`, the one instruction that keeps fields of the struct before it. The reference
side of the module is written the other way round, from the rows of the encoding
tables (`Row32`, `RvcRow`: which bit of the immediate each bit of the word holds) and
from the expansion of each compressed instruction (`Expansion`), which `Expand` encodes in
32 bits with the opcode and function fields of `Encoding`, bit by bit (`ExpandBit`).

### Alu

Handlers with `XLen` and `WLen` in place of 64 and 32. `&`, `|` and `^` are sums over the
bits of their operands (`Number` of `BitOf`). Signed overflow in `mulh`
(negating `INT64_MIN`, the product in `a * b == 0`) is undefined in C; the build wraps,
and the model does so. A division by a zero lower half, which stops the process with
`SIGFPE`, is the value `Crash` and the action `DivCrashes`.

### Memory

Bytes of `ByteSize` values and registers of eight bytes; `Weight[k]` is `ByteSize` to the
power `k`, written out. A handler's type is the number of
its bytes and whether it is signed; an access touches its bytes at host addresses and
faults when one of them is not mapped. A load ends a behaviour; `log` is the history of
stores from which the property says what the load must find.

### Machine

`Machine` extends `Interp` and defines the values of its operator constants from the
other modules: `decoded` is `decode_inst` of `Decode` followed by `funcs[inst.type]` of
`Dispatch`, `computed` calls the handlers of `Alu`, and `traps` tells where a W division has
the value `Crash` there, so that no register is written then. `taken`, `loaded` and `stored` are
branches, loads and stores (a cell is a register wide here). `MCMachine` runs an
assembled program that computes a gcd by `remu` in a loop and a sum by a recursive
function with its return addresses on a stack, mixing 16-bit and 32-bit instructions. It has
no W division, so `traps` never holds in its run; `MCInterp` has an instruction that traps.

### Syscall, Files and GuestFiles

`Files` is the host kernel as these calls see it: files are sequences of cells, a
descriptor has a file, a position and flags, a transfer may be shorter than asked for,
every failure is -1. `Syscall` has one action per handler, on top of the `mmu_t` and the
page table of `Mmu`: numbers are looked up in the two tables, where an index past the
end is the entry `wild`; pointers go through `TO_HOST`, descriptors through `int`, flags
through `convert_flags`. The kernel copies to and from mapped pages only.

`GuestFiles` is the same interface seen from the guest: newlib's flags by their
meaning, guest addresses, and a memory that consists of what is mapped for the guest. It
knows no tables, no translation, no `host_alloc`. A null `tv` is no error for it, as it is
none for `gettimeofday`, and a call that ends the process promises nothing about memory.
Of `brk` it promises the break and that nothing below it is lost, and not that memory up to a
new break is accessible: this is the subject of `Process`, where `HeapBacked` says when it is
so and `process_shrink` when it is not.
The refinement mapping translates
memory with `TO_GUEST` and leaves the files as they are.

### Float and Ieee

`Ieee` defines rounding to nearest even, the four operations, the square root,
comparison, `llrint` and conversions on bit patterns of a format given by its numbers of
exponent and fraction bits; where x86-64 leaves open which NaN comes out, the result is
a set. It is external. `Float` is the code: one action for each family of handlers, once
per format, with the operands and the member of `fp_reg_t` each reads and writes.
Multiply-adds round twice, as they do in the build (`-O3`, no `-march`, so no fused
instruction).

### FpRegs and BoxedRegs

`FpRegs` is about which half of a register each handler writes; what the handlers
compute are function constants. Most single-precision handlers write `.f` and leave the
upper half, `flw` and `fsgnj` fill it with ones, `fld`, `fsd` and the doubles move all
of it. In `BoxedRegs` every single is boxed, and one that is not reads as NaN. A guest
could tell the difference by saving a single with `fsd` and looking at it as a double;
the programs considered, as a compiler emits them, use a register, and a variable they
have saved it in, for the type that was put there. `kind` records this.

## 3. Runs

| run | states | shows |
|---|---|---|
| `mc_process` | 15 455 | the loader, setup and `brk` |
| `mc_interp` | 75 712 | the interpreter loop and its refinement of `ISA` |
| `mc_decode` | 152 260 | the decoder against the encoding tables |
| `mc_alu` | 268 800 | the integer handlers against integers |
| `mc_memory` | 83 202 | loads and stores of all widths |
| `mc_machine` | 4 760 | whole programs through loop, decoder, table and handlers |
| `mc_syscall` | 167 566 | system calls and their refinement of `GuestFiles` |
| `mc_float` | 490 089 | the floating-point handlers |
| `mc_fpregs` | 4 096 | half-written registers, refinement of `BoxedRegs` |
| `process_shrink`, `process_bss`, `alu_divw` | violations | comments the code does not keep, section 5 |

`mc_process` checks `TypeOK` and

- `BreakWithinHost`, `HeapBacked`: while hints are followed, the break is between `base`
  and the end of the accounted area, and everything below it is mapped. `mmu_alloc`
  rounds the *size* of a growth and not the end it reaches, so this depends on the
  whole sequence of calls.
- `DisplacedOnlyAfterTrim`: a hint is occupied only after an earlier shrink, or past
  the end of the address space.
- `Accounting`: the inductive invariant that the proofs use.
- `SegmentsLoaded`, `BssPagesZero`: file bytes and whole `.bss` pages are right, with
  segments that share a page, come in descending order, or have a leading offset.
- `ArgsIntact`: the emulator's `argc`, pointers to `argv[1]`, `argv[2]`, ... in order, each
  string terminated though only `strlen` bytes are copied, then three null words.
- `StartupEnds`: loading reaches the interpreter or stops.

Bounds: 4-byte pages, 60 bytes of user space out of 256 addresses, a 14-byte stack, 2-byte
pointers. Pages, stack and pointers keep the real alignment relations (the stack is
not a multiple of the page here, which is the harder case); the images cover one to
three headers, shared pages, `.bss` that needs no page, one page, and two, and files
that must be refused. The break can move over seven pages in both directions, which
is enough to shrink twice, leak and collide.

`mc_interp` runs every program over three cells of a set of twelve instructions,
after an `ecall` and before a load or a second `ecall`; the mapped cells lie around
the wrap-around of the address space with one hole. `BlockProtocol` is the inductive
invariant; `AssertsHold` says that no assertion fails; `RefinesISA` and `ExecutesOn`
(with fairness) are the refinement. Twelve addresses and twelve cell values suffice
for jumps into the middle of an instruction, programs that overwrite the next
instruction, `jalr` with `rd = rs1`, writes to register zero, and wrap-around.
`TypeOK` contains that `pc` and `reenter_pc` are even: `jalr` clears the lowest bit of a
register that may be odd, on every other path the parity is kept by even immediates and sizes.

`mc_decode` covers all compressed words. For 32-bit words it covers all opcodes and
funct3 values, all funct7 values of the floating-point opcode, and values of the other
fields chosen so that each bit of each immediate is both 0 and 1. `ImmediatesAsDrawn`
compares immediates with the tables, `ShortMeansLong` decodes a compressed word and
its expansion and compares the meaning, and `EveryBitCounts` flips each bit and
expects another instruction, except for fields the architecture leaves unused (the
rounding mode, `fence` fields, and funct3 of `jalr`, which the code does not check).
`NothingStale` decodes each word a second time into a struct full of leftovers and
expects the same instruction: it is what `Interp` assumes of the decoder. `OwnHandler`
follows each decoded type through `funcs[]`. It holds although the six CSR rows of
enumeration and table are in different orders, because those six handlers are equal.

`mc_alu` takes all lower halves with upper halves around zero and the extremes.
`ShiftsMoveBits` says bit by bit where a shift puts its operand and what it fills up with,
`FullProduct` joins the two halves of a product, `QuotientAndRemainder` relates
dividend, divisor, quotient and remainder, `WordOpsUseLowHalf` says that the upper
half of an operand has no influence on a word operation, `ImmediateIsRegisterForm`
compares each immediate form with its register form.

`mc_memory` has bytes of two bits, so that a register has 16, and twelve mapped bytes.
`LoadsSeeStores` compares each byte of the loaded register with the last store that
covers its address. Two stores are enough for one to overwrite part of another.

`mc_machine` runs its program for all inputs from 0 to 6. `Computes` says that what it
leaves in memory is the gcd and the sum, with the stack pointer back at its start;
`Exits` that it gets to its `exit`. Registers have 16 bits.

`mc_syscall` makes every sequence of four calls out of 63: good, closed, negative and
over-long descriptors, buffers that are mapped, unmapped or run into a hole, all open
flags, `brk` up and down and out of range, and numbers at both ends of both tables and
between them. Four calls are enough to open, write, seek and read, or to shrink the heap
under a buffer. `TypeOK` contains what a guest can find in `a0`: a count, a position, a
descriptor, the break or 2^64 - 1, and so not 2^32 - 1, an `int` -1 that was not extended.
`RefinesFiles` is the refinement; `TablesInBounds` is about the
wrap-around of `n - OLD_SYSCALL_THRESHOLD`; `StdioStaysOpen` about descriptors 0 to 2.
`EscapesOnlyByWrap` says that the break leaves the accounted area by a `brk` in the upper
half of the address space, which the calls contain, and by nothing else.

`mc_float` has a float of 6 exponent and 2 fraction bits in half of an 18-bit register
and a double of 9 and 8. As in the real formats an `int32_t` is exact in a double and not
in a float, and `int64_t` overflows neither. Every float, and the doubles at the limits
of every range, occur as single operands; pairs and triples are taken from zeros,
subnormals, ones, infinities and NaNs. `ClassAgrees` recomputes the class from the order
of the patterns; `ConversionsNearest` compares each conversion with its neighbours, to an
integer where the destination and the `int64_t` of `llrint` both hold the result, and says that
the long conversions leave 2^63 beyond `int64_t`, `fcvt_lu` too (section 5);
`MinMaxOrdered` and `MulAddSigned` relate handlers to one another;
`FusedWhenExact` compares the multiply-adds, which round twice, with a single rounding
of the exact sum.

`mc_fpregs` has two registers with halves of one bit, an integer register and two
variables: enough to write a double, then a single over half of it, save it, restore it
elsewhere and use it.

Every property of a passing run has a mutant in `PROJECT.json`, a plausible slip in
the code under which TLC finds it violated.

Fairness. `Process` assumes weak fairness of start-up only: it is straight-line code
that waits for nobody, whereas a guest need not make system calls or exit. `Interp`
assumes weak fairness of its steps: there is one thread and a host system call that
blocks (a read from a terminal) is assumed to return. `Machine` makes the same
assumption, and its program makes no call but `exit`.

Deadlock is checked in every run; programs that have stopped stutter.

## 4. Proofs

All theorems hold for every value of the constants that satisfies the named
assumptions, so for 64-bit words and 4096-byte pages in particular.

`ProcessProofs`, on the lemmas about rounding, pages and `mmu_alloc` in `MmuProofs`:

- `TypeCorrect`: `Spec => []TypeOK`.
- `AccountingInvariant`: `Spec => []Accounting`.
- `BreakSafe`, `HeapSafe`, `HintsFollowed`: `BreakWithinHost`, `HeapBacked` and
  `DisplacedOnlyAfterTrim` follow from it.

`HeapBacked` is not inductive: a growth maps only what lies above `host_alloc`, so
one needs to know that everything up to `host_alloc`, and not only up to the break,
is mapped; that `host_alloc` is aligned; and that a growth of a rounded size reaches
the break because the break was below `host_alloc` before. And for the hint to be
free one needs that nothing above `host_alloc` is mapped, which a shrink destroys;
hence the history variables. `Accounting` says all this as two cases: `NoImage` (no
segment loaded yet) and `Placed`.

Assumptions: `PageAssumption` (sizes are multiples of the page; user space is at most
a quarter of the address space, as on x86-64), `ProcessAssumption` (segments at user
addresses, argument strings shorter than user space), and, as a hypothesis of the last
four theorems, `BrkArgsInRange`: guests call `brk` with addresses in the lower
half. It is needed: `mc_syscall` contains a `brk` in the upper half, after which the break
lies past `host_alloc` (section 5).

About the contents of memory, also in `ProcessProofs`, from the invariants above and under
the same hypothesis on `brk`:

- `ArgumentsArrive`: `Spec => [](~displaced /\ ArgsFit => ArgsIntact)`.
- `ProgramInPlace`, `BssCleared`: `SegmentsLoaded` and `BssPagesZero`, if moreover
  `SegmentsAgree` and `HeadersSane`.

`ImageKept` says that the pages of every segment loaded so far are still the segment's and
lie below `base`; `StackKept` that everything from `base` to `host_alloc` is zero-filled, that
each argument pushed so far has its pointer in its slot and its string, followed by a
byte never written, in the area behind the stack, and that nothing else of that area has been
written. They need one another: the image is in place because `machine_setup` and `brk`
write above `base` only. The hypotheses are what the code relies on without a check.
`ArgsFit`: the pointers fit in the stack, 32 MB in the code, so four million arguments.
`SegmentsAgree`: where two segments share a page, they put the same into it; `mmu_load_segment`
maps with `MAP_FIXED`, and otherwise the later one wins. `HeadersSane`: `p_offset` and `p_vaddr`
agree within a page, as ELF asks, and sizes do not wrap around. `~displaced`: the kernel has
followed the hints. Without it the theorem is false in a corner: if the stack ends exactly at
the end of user space and the last argument is empty, the string's NUL is a byte that nobody
writes and nobody has mapped (TLC finds this with a stack of 36 bytes and the arguments
`<<2, 0>>`).

`InterpProofs`:

- `ProtocolInvariant`: `Spec => []BlockProtocol`.
- `AssertsSafe`: `Spec => []AssertsHold`.
- `InterpreterRefinesISA`: `Spec => RefinesISA`.
- `InterpTypes`: `Spec => []TypeOK`, for operations that return values of the right type and
  branch and jump immediates that are even, as their formats draw them (`TypedOperations`; the
  other theorems of the module do not need it). `EvenSums` has the arithmetic: wrapping around
  at an even `AddrSpace` keeps the parity.

`BlockProtocol` says what each point of the two loops relies on: register zero is
0, `exit_reason` is clear inside a block and set at its end, and between decoding
and executing the static `inst_t` holds the instruction at `pc`, except for the
fields `ECALL` neither sets nor uses. That last part is what makes `continue_exec`
safe: it is TRUE at a handler only for the kinds that set an exit reason. Every
handler then maps to the ISA action of its kind (`HandlerRefines`), re-entering a
block is a stutter, and a system call maps to `Answer` or `Stop`.

`FloatProofs`, for every width of the two formats and of the registers, and all operands:

- `SignsInjected`: `FloatSpec => []SignInjection`.
- `ClassesOrdered`: `FloatSpec => []ClassAgrees`.
- `MinMax`: `FloatSpec => []MinMaxOrdered`.
- `MulAddSigns`: `FloatSpec => []MulAddSigned`.
- `Conversions`: `FloatSpec => []ConversionsNearest`; for `fcvt_lu` the nearest integer up to
  2^63 - 1, and 2^63 for every operand beyond.
- `RegistersRefineBoxed`: `Spec => RefinesBoxed`, for any set of halves, any functions
  the handlers compute, and any numbers of registers and variables.

`FloatInv` says that the operands are words and that the result is one that the handler can
leave. A pattern is its sign, exponent and fraction (`Parts`,
`FromParts`), and without the sign patterns are ordered as numbers (`MagnitudeOrder`); signs,
classes, minima and comparisons follow. For the multiply-adds each operation is shown to
commute with a change of sign (`Products`, `Sums`, `Differences`): rounding works on the
magnitude alone (`RoundParts`, `Negated`). `Conversions` has the two directions.
`NearestInt`: `llrint` of a scaled significand is within one half of it, and even in a tie;
`Beyond`: from 2^63 on, and for infinities and NaNs, it is `INT64_MIN`.
`FromIntNearest`: an integer has a leading one (`LeadingOne`, by the smallest exponent that is
too large), rounding keeps the bits of the fraction below it, and the result, as a multiple
of its unit, is next to the integer whether or not the carry reaches the exponent
(`RoundInt`, `ValueAt`). `IeeeAssumption` relates the widths: a float has the width of half a
register, and every integer that fits in a register is below the largest number of either
format. `PowerAssumption` has the facts of exponentiation that are used, up to
`MaxPlace`; TLC evaluates both on the widths of `mc_float`.

For the refinement, the mapping shows a register as boxed when the program has a single in
it, whatever its upper half holds. Lemmas say what a handler reads through the mapping
(`SingleRead`, `DoubleRead`, `LowRead`) and what each kind of write does to it
(`SingleWritten`, `DoubleWritten`, `FpWritten`); the step theorem has one case per handler.
The type invariant (`TypeInvariant`) is the only invariant needed. The assumption
(`FpRegsAssumption`) gives the types of the functions and keeps registers and
variables apart.

`SyscallProofs`:

- `TypesKept`: `Spec => []TypeOK`; the results of the host's calls are small numbers or -1
  (`ResultRange`), and -1 fills the register.
- `TablesSafe`: `Spec => []TablesInBounds`. `TableSizes` computes the sizes of the two arrays
  from their initializers, and `HandlerNumbers` the numbers that reach each handler.
- `StdioKept`: `Spec => StdioStaysOpen`.
- `EscapesByWrap`: `Spec => EscapesOnlyByWrap`, for all addresses.
- `CallsAsPromised`: `Spec => RefinesFiles`, if no guest calls `brk` with an address in the upper
  half (`BrkInLowerHalf`).

For the refinement, each handler is shown to be a step of its promise: what the kernel reads
and writes at `TO_HOST(p)` is what the guest has at `p` (memory is translated by `TO_GUEST`),
`convert_flags` gives each flag of newlib its meaning on the host, and a growing or shrinking
heap changes what is mapped in the same way on both sides. The invariant `HeapAbove` is
needed beside the types: the host's page 0 is never mapped and the accounted area lies above
it, so that no guest address other than the host's null turns into it. The hypothesis is
needed for `sys_brk` alone; `TypesKept` to `EscapesByWrap` hold without it.

`MemoryProofs`:

- `StoresSeen`: `Spec => []LoadsSeeStores`, for any size of a byte, any set of mapped
  bytes and any number of stores.

The inductive invariant (`MemoryInv`) adds to the property that every mapped byte holds
what the last store over it has left (`MemoryAgrees`); the log has a latest entry among those
that cover an address (`HasLatest`). The lemmas are about numbers written in bytes: a value is
determined by its bytes and has them (`ByteOf` and `Number` are inverse), extension with the
sign fills the upper bytes with ones (`OnesAbove`, `ExtendedBytes`), and the distance of two
guest addresses is that of the host addresses modulo 2^64 (`SameDistance`).

`AluProofs`, for every width:

- `ImmediateForms`: `Spec => []ImmediateIsRegisterForm`.
- `LowHalves`: `Spec => []WordOpsUseLowHalf`.
- `Division`: `Spec => []QuotientAndRemainder`.
- `Products`: `Spec => []FullProduct`.
- `Shifts`: `Spec => []ShiftsMoveBits`.

The invariant `AluInv` only says that `rd` is what the handler computes; the substance is in the
lemmas. `Cong` is congruence modulo 2^WLen, which the operations of the W instructions keep
(`CongRules`), and a result in range is determined by it (`InRange`). `TruncatedDivision` gives
quotient and remainder of C's division. `HighHalf` is `mulhu`: no sum of partial products
exceeds a register (`HalfProduct`, `FourProducts`), so no carry is lost. `NegatedHigh` is the
line `~res + (a * b == 0)`: the high half of a negated product depends on whether its low half
is zero. `Shifts` goes from products and quotients by 2^n to single bits: a bit of a shifted
number is a bit of the number, and the ones that `sra` brings in are those of a negative number
divided with rounding down. That every handler leaves a word of `XLen` bits is the lemma
`ResultsAreWords`, for which the sums over the bits of `&`, `|` and `^` have to exist and to
stay below 2^n at every n; `SumsExist` and `BitsMakeWord` look at the smallest n where they
would not. The provers know nothing about 2^n for a variable n; `PowerAssumption` states the
facts needed (a register is two halves, halves are even, powers are positive, each is
twice the one before, and exponents add up), and TLC evaluates it on the widths of `mc_alu`.

`DecodeProofs`, for every word of 32 bits (TLC's run has a sample of them):

- `FieldsInRange`: `Spec => []TypeOK`.
- `NothingLeftOver`: `Spec => []NothingStale`.
- `HandlersMatch`: `Spec => []OwnHandler`.
- `ImmediatesRight`: `Spec => []ImmediatesAsDrawn`.
- `ShortFormsAgree`: `Spec => []ShortMeansLong`.

`DecodeInv` says that `inst` is what `decode_inst` makes of the word and of a cleared struct.
The rest is about `decode_inst` as a function. Shifts and masks keep fields in their ranges
(`Fields`), so that every reader returns a cleared struct with numbers of registers that
exist (`Readers32`, `ReadersRvc`); every leaf of the switches sets a type that has a row of its
own in `funcs`, and sets `continue_exec` exactly for `jal` and `jalr` (`Decoded`, one lemma for
each quadrant); and nothing but `ECALL` looks at the struct before, whatever it holds
(`DecodedWord`, `DecodedEcall`).

For `ImmediatesRight` an immediate is a sum of fields of the word, each shifted to its place.
`Peel` and `AboveBits` give the bits of such a sum one field at a time, and `Inverse` says
where a row of the table has the bit that the sum has there; there is one lemma for each
format. The reader of `c.slli` extends a sign that its row does not draw; this is so of the
bits above the six that a shift uses, and the property asks for no more.

`ShortFormsAgree` goes through the word that the expansion gives. Its bits are those that
`ExpandBit` names (`ExpandedBits`), and a field is known once its bits are (`FieldIs`), so that
the word holds opcode, functions and registers in the fields that the format leaves
(`ExpandedAs`). The immediate of each short form is 0 below the places that its row draws and
repeats one bit above them, so that it fits the field of the long format, which may be
shorter than 32 bits or have no bit 0 (`Formed`, one lemma for each quadrant). The arms of
`Opcodes` make of that word the type and the registers of the expansion (`MeantI` to
`MeantR`), as the arms of the quadrants do of the short one (`Expansion0` to `Expansion2`).
Both immediates have the same bits by `ImmediatesRight`, and numbers with the same bits are
equal (`SameNumber`).

Only model-checked:

- `StartupEnds`, `ExecutesOn` and `Exits`: liveness is out of the prover's reach.
- `EveryBitCounts` of `Decode`: it would need, for every type and field, the way back from the
  decoded struct to the word; TLC has all compressed words and a sample of the others.
- `FusedWhenExact` of `Float`: that rounding a sum does not depend on the scale at which it is
  written, the shortened addition of terms far from each other included.
- `Computes` of `Machine`: what one program computes, by induction on its loop and recursion.
- The existence of runs with a displaced heap or a `brk` in the upper half, which the
  hypotheses above exclude (`process_shrink`, `mc_syscall`).

Induction over data is not available to the provers. Where a number of bits is fixed, the
proofs go through the bits one by one; where it is a constant, they take the smallest
counterexample (`WFMin` of `WellFoundedInduction`) and refute it.

## 5. Where the code and its comments disagree

| run | property | what happens |
|---|---|---|
| `process_shrink` | `HeapAlwaysBacked` | `brk` down unmaps the pages above the area (`src/mmu.c:162`, doubted in the comment beside it); the next `brk` up succeeds with its pages elsewhere |
| `process_bss` | `BssZero` | the tail of the last file page keeps the file's bytes where `.bss` begins |
| `alu_divw` | `DivisionByZeroDefined` | the word divisions test all of `rs2` and divide by its lower half |

The models contain these too, without a run of their own:

- `sys_brk` (`src/syscall.c:118`): an address in the upper half is taken for a shrink and
  succeeds with nothing mapped (`EscapesOnlyByWrap` has it as its one exception).
- `mmu_alloc` returns the previous break; the comment at `src/mmu.c:170` says the
  constant start of the heap.
- `argc` on the guest's stack counts the emulator's own `argv[0]`, and is one more than the
  pointers after it (`ArgsIntact` says so; `src/rvemu.h:243` draws the usual layout).
- Four bytes are read for a two-byte instruction (`src/interp.c:1153`), which faults when
  it is the last one mapped; `LEARN_NOTE.md:2` says that instructions are a u32 or a u16.
- `fcvt.w.s` cuts a value that is too large to its lower 32 bits (`src/interp.c:660`); the
  comment at line 658 says that overflow follows RISC-V, which saturates.
- `fcvt.lu.s` and `fcvt.lu.d` answer 2^63 for every number from 2^63 up
  (`src/interp.c:780`, `790`), because `llrint` is signed; the comments at lines 778 and 788 say
  that they convert to an unsigned 64-bit integer, which goes up to 2^64 - 1.
  `ConversionsNearest` states the result as it is.
- `src/rvemu.h:127` exchanges the formulas of `fnmsub` and `fnmadd`; the code is right. What
  it calls FMA rounds twice. The comments at `src/interp.c:530` and `535` (`-((rs1 * rs2) - rs3)`
  and `-((rs1 * rs2) + rs3)`; `558` and `563` for doubles) differ from the code,
  `-(rs1 * rs2) + rs3` and `-(rs1 * rs2) - rs3`, in the sign of a sum that is zero.
- The comments over the CSR handlers promise an exchange; the handlers write 0 to `rd`
  and nothing to the CSR (`src/interp.c:457`).
- `sys_close` protects descriptors 0 to 2 with a 64-bit test, and closes one of them when
  given 2^32 plus its number (the exception in `StdioStaysOpen`).
- `fstat` fills the guest's struct in the host's layout; `fmin` and `fmax` return `rs2` when
  an operand is NaN and do not order the two zeros; rounding modes are ignored.

## 6. Not modelled

- `inst_print` and its names of instructions: text for debugging, behind a call that is
  commented out.
- Page protections (`flags_to_mmap_prot`), and the file offsets of the ELF header
  (`load_phdr` either reads a header or fails; an `e_phentsize` larger than the struct is
  undefined in C).
- The layouts of `struct stat`, `timeval` and `timezone`, the mode of a created file and
  the exit code, which pass between guest and host unchanged.
- Floating-point exception flags and rounding modes: the code has neither.
- Which of several NaNs an operation of the host returns: any of them, in `Ieee`.
- Asynchronous events: one thread, no signal handlers, and nothing that is kept over a
  restart, so there are no crashes to recover from.

## 7. Plan

Done: all components but printing are modelled, and every module with actions has proofs,
except for `Machine`, which puts `Interp`, `Decode` and `Alu` together for TLC.

Left to prove:

1. `EveryBitCounts`: the types of any two opcodes are disjoint, so that a type determines opcode
   and function fields; the registers and the rows determine the rest.
2. `FusedWhenExact`, from `RoundParts` and a lemma on the scale of what is rounded.
