------------------------------- MODULE Process -------------------------------
(***************************************************************************)
(* The life of one emulated process as main() drives it: open the ELF file *)
(* and load it (machine_load_program, mmu_load_elf), build the stack and   *)
(* the argument vector (machine_setup), then serve the guest.  Of the      *)
(* guest's system calls the ones that act on this state are modelled: brk  *)
(* and exit.  Guest loads and stores are the subject of module Interp.     *)
(***************************************************************************)
EXTENDS Mmu, Sequences

CONSTANTS Images,     \* the ELF files that argv[1] may name
          ArgVectors, \* the host's argv, each string given by its strlen
          StackSize,  \* stack_size in machine_setup, 32 MB
          PtrSize,    \* sizeof(uint64_t); an int is half as wide
          BrkArgs     \* the addresses guests pass to brk

Phdr == [type : {"PT_LOAD", "other"}, offset : Word, vaddr : Word,
         filesz : Word, memsz : Word]

\* header says how the checks on the ELF header come out, phnum is e_phnum
\* and phdrs holds the program headers the file is long enough to contain.
Image == [header : {"ok", "short", "badmag", "machine"}, entry : Word,
          phnum : Nat, phdrs : Seq(Phdr), size : Nat]

\* Segments are placed at user addresses, which TO_HOST does not wrap.
ASSUME ProcessAssumption ==
  /\ Images \subseteq Image
  /\ \A m \in Images : \A k \in DOMAIN m.phdrs :
       m.phdrs[k].vaddr + GuestOffset < AddrSpace
  /\ ArgVectors \subseteq Seq(Nat)
  /\ \A v \in ArgVectors : \A k \in DOMAIN v : v[k] < HostLimit
  /\ StackSize \in Nat /\ 0 < StackSize /\ StackSize <= HostLimit
  /\ PtrSize \in Nat \ {0}
  /\ BrkArgs \subseteq Word

VARIABLES ctl,    \* where main() is
          img,    \* the ELF file
          argv,   \* the host's argument vector
          i,      \* the loop counter of mmu_load_elf, then of machine_setup
          addr,   \* machine_setup's local: what mmu_alloc returned last
          sp,     \* gp_regs[sp]
          pc,     \* state.pc
          a0,     \* gp_regs[a0] after a system call
          data    \* the guest bytes written since their page was mapped

vars == <<mmuVars, ctl, img, argv, i, addr, sp, pc, a0, data>>

argc == Len(argv)

-----------------------------------------------------------------------------
(* The bytes of guest memory, by origin: byte o of the file, zero, byte j  *)
(* of argv[k], byte b of a stored word v, a byte of memory next to argc,   *)
(* or an access that faults.                                               *)

Zero == <<"zero", 0, 0>>
Fault == <<"fault", 0, 0>>
Junk == <<"junk", 0, 0>>
StringByte(k, j) == <<"string", k, j>>
WordByte(v, b) == <<"word", v, b>>

\* Past the end of the file the rest of its last page reads as zero, and a page
\* wholly past it cannot be read (SIGBUS).
FileByte(o) ==
  IF o < img.size THEN <<"file", o, 0>>
  ELSE IF o < ROUNDUP(img.size, PageSize) THEN Zero ELSE Fault

Content(g) ==
  LET h == TO_HOST(g)
      frame == pages[PageOf(h)]
  IN  IF ~Mapped(g) THEN Fault
      ELSE IF g \in DOMAIN data THEN data[g]
      ELSE IF frame = Anonymous THEN Zero
      ELSE FileByte(frame * PageSize + (h % PageSize))

\* The n bytes at g.
Bytes(g, n) == {Wrap(g + j) : j \in 0 .. (n - 1)}

Writable(tbl, g, n) == \A x \in Bytes(g, n) : MappedIn(tbl, TO_HOST(x))

\* mmu_write: the n bytes at g become val(0), ..., val(n-1).
mmu_write(mem, g, n, val(_)) ==
  [x \in DOMAIN mem \cup Bytes(g, n) |->
     IF x \in Bytes(g, n) THEN val(Wrap(x - g)) ELSE mem[x]]

-----------------------------------------------------------------------------
(* main and machine_load_program.                                          *)

Loading == {"main", "header", "phdrs", "setup"}
Stopped == {"exited", "aborted", "crashed"}
Ctl == Loading \cup {"argv", "run"} \cup Stopped

\* main's assertion on argc holds and the file opens.
Open ==
  /\ ctl = "main"
  /\ argc > 1
  /\ ctl' = "header"
  /\ UNCHANGED <<mmuVars, img, argv, i, addr, sp, pc, a0, data>>

\* Too few arguments, or open() fails.
OpenFails ==
  /\ ctl = "main"
  /\ ctl' = "aborted"
  /\ UNCHANGED <<mmuVars, img, argv, i, addr, sp, pc, a0, data>>

ReadHeader ==
  /\ ctl = "header"
  /\ IF img.header = "ok"
     THEN /\ entry' = img.entry
          /\ ctl' = "phdrs"
     ELSE /\ ctl' = "aborted"
          /\ UNCHANGED entry
  /\ UNCHANGED <<host_alloc, guest_alloc, base, pages, trimmed, displaced,
                 img, argv, i, addr, sp, pc, a0, data>>

\* Mutant: a header of another type does not advance the loop.
LoadPhdr_Stuck ==
  /\ ctl = "phdrs"
  /\ i < img.phnum /\ i < Len(img.phdrs)
  /\ IF img.phdrs[i + 1].type = "PT_LOAD"
     THEN LoadSegment(img.phdrs[i + 1]) /\ i' = i + 1
     ELSE UNCHANGED mmuVars /\ i' = i
  /\ UNCHANGED <<ctl, img, argv, addr, sp, pc, a0, data>>

\* One turn of the loop over the program headers.
LoadPhdr ==
  /\ ctl = "phdrs"
  /\ i < img.phnum /\ i < Len(img.phdrs)
  /\ IF img.phdrs[i + 1].type = "PT_LOAD"
     THEN LoadSegment(img.phdrs[i + 1])
     ELSE UNCHANGED mmuVars
  /\ i' = i + 1
  /\ UNCHANGED <<ctl, img, argv, addr, sp, pc, a0, data>>

\* The header is not in the file, or the kernel refuses an mmap.
LoadPhdrFails ==
  /\ ctl = "phdrs"
  /\ i < img.phnum
  /\ i < Len(img.phdrs) => img.phdrs[i + 1].type = "PT_LOAD"
  /\ ctl' = "aborted"
  /\ UNCHANGED <<mmuVars, img, argv, i, addr, sp, pc, a0, data>>

LoadDone ==
  /\ ctl = "phdrs"
  /\ i = img.phnum
  /\ pc' = entry
  /\ ctl' = "setup"
  /\ UNCHANGED <<mmuVars, img, argv, i, addr, sp, a0, data>>

-----------------------------------------------------------------------------
(* machine_setup.                                                          *)

\* Mutant: the loop over argv starts at argc.
SetupStack_FromArgc ==
  /\ ctl = "setup"
  /\ mmu_alloc(StackSize)
  /\ addr' = guest_alloc
  /\ sp' = Wrap(guest_alloc + StackSize - 3 * PtrSize)
  /\ i' = argc
  /\ ctl' = "argv"
  /\ UNCHANGED <<img, argv, pc, a0, data>>

\* The stack is allocated and three words at its bottom are skipped.
SetupStack ==
  /\ ctl = "setup"
  /\ mmu_alloc(StackSize)
  /\ addr' = guest_alloc
  /\ sp' = Wrap(guest_alloc + StackSize - 3 * PtrSize)
  /\ i' = argc - 1
  /\ ctl' = "argv"
  /\ UNCHANGED <<img, argv, pc, a0, data>>

\* argv[i] is copied, without its NUL, to fresh memory; its address is pushed.
ArgLen == argv[i + 1]
ArgSlot == Wrap(sp - PtrSize)

\* Mutant: no byte is allocated for the NUL.
ArgAlloc_NoNul == ArgLen

\* strlen does not count the NUL, so one byte more is allocated.
ArgAlloc == ArgLen + 1

PushArg ==
  /\ ctl = "argv" /\ i > 0
  /\ mmu_alloc(ArgAlloc)
  /\ addr' = guest_alloc
  /\ sp' = ArgSlot
  /\ IF Writable(pages', guest_alloc, ArgLen)
        /\ Writable(pages', ArgSlot, PtrSize)
     THEN LET str == mmu_write(data, guest_alloc, ArgLen,
                               LAMBDA j : StringByte(i, j))
          IN  /\ data' = mmu_write(str, ArgSlot, PtrSize,
                                   LAMBDA b : WordByte(guest_alloc, b))
              /\ i' = i - 1
              /\ UNCHANGED ctl
     ELSE /\ ctl' = "crashed"
          /\ UNCHANGED <<i, data>>
  /\ UNCHANGED <<img, argv, pc, a0>>

\* mmu_alloc does not return.
SetupFails ==
  /\ \/ ctl = "setup" /\ AllocStops(StackSize)
     \/ ctl = "argv" /\ i > 0 /\ AllocStops(ArgAlloc)
  /\ ctl' = "aborted"
  /\ UNCHANGED <<mmuVars, img, argv, i, addr, sp, pc, a0, data>>

\* sizeof(uint64_t) bytes are copied from &argc, an int: the upper half is
\* whatever lies next to it.
PushArgc ==
  /\ ctl = "argv" /\ i <= 0
  /\ sp' = ArgSlot
  /\ IF Writable(pages, ArgSlot, PtrSize)
     THEN /\ \E upper \in {WordByte(argc, PtrSize - 1), Junk} :
               data' = mmu_write(data, ArgSlot, PtrSize,
                         LAMBDA b : IF 2 * b < PtrSize
                                    THEN WordByte(argc, b) ELSE upper)
          /\ ctl' = "run"
     ELSE /\ ctl' = "crashed"
          /\ UNCHANGED data
  /\ UNCHANGED <<mmuVars, img, argv, i, addr, pc, a0>>

-----------------------------------------------------------------------------
(* The guest runs and makes system calls.                                  *)

\* addr == 0 asks for the current break.
BrkTarget(a) == IF a = 0 THEN guest_alloc ELSE a

\* (int64_t)addr - guest_alloc, an int64_t again.
BrkIncr(a) == Signed(Wrap(BrkTarget(a) - guest_alloc))

sys_brk(a) ==
  /\ ctl = "run"
  /\ BrkTarget(a) >= base
  /\ mmu_alloc(BrkIncr(a))
  /\ a0' = BrkTarget(a)
  /\ data' = [x \in {y \in DOMAIN data : MappedIn(pages', TO_HOST(y))} |-> data[x]]
  /\ UNCHANGED <<ctl, img, argv, i, addr, sp, pc>>

\* An assertion of sys_brk or mmu_alloc fails, or the kernel says no.
BrkFails(a) ==
  /\ ctl = "run"
  /\ BrkTarget(a) < base \/ AllocStops(BrkIncr(a))
  /\ ctl' = "aborted"
  /\ UNCHANGED <<mmuVars, img, argv, i, addr, sp, pc, a0, data>>

sys_exit ==
  /\ ctl = "run"
  /\ ctl' = "exited"
  /\ UNCHANGED <<mmuVars, img, argv, i, addr, sp, pc, a0, data>>

\* The process is gone.
Terminated == ctl \in Stopped /\ UNCHANGED vars

-----------------------------------------------------------------------------
Init ==
  /\ MmuInit
  /\ ctl = "main"
  /\ img \in Images /\ argv \in ArgVectors
  /\ i = 0 /\ addr = 0 /\ sp = 0 /\ pc = 0 /\ a0 = 0
  /\ data = << >>

Startup ==
  \/ Open \/ OpenFails \/ ReadHeader
  \/ LoadPhdr \/ LoadPhdrFails \/ LoadDone
  \/ SetupStack \/ PushArg \/ SetupFails \/ PushArgc

Syscall ==
  \/ \E a \in BrkArgs : sys_brk(a) \/ BrkFails(a)
  \/ sys_exit

Next == Startup \/ Syscall \/ Terminated

\* Startup is straight-line code that waits for nobody; a running guest need
\* not make system calls.
Spec == Init /\ [][Next]_vars /\ WF_vars(Startup)

-----------------------------------------------------------------------------
(* Properties.                                                             *)

\* Every variable keeps its type, and the loop counter of mmu_load_elf and
\* machine_setup stays within the tables it indexes.
TypeOK ==
  /\ MmuTypeOK
  /\ ctl \in Ctl
  /\ img \in Images /\ argv \in ArgVectors
  /\ i \in Int
  /\ ctl \in Loading => i \in Nat
  /\ ctl = "argv" => i < argc
  /\ addr \in Word /\ sp \in Word /\ pc \in Word /\ a0 \in Word
  /\ DOMAIN data \subseteq Word

\* While the kernel follows its hints, the program break of mmu_alloc and
\* sys_brk lies between the end of the loaded image and the end of the area
\* mmu_t accounts for.
BreakWithinHost ==
  ~displaced => base <= guest_alloc /\ guest_alloc <= TO_GUEST(host_alloc)

\* While the kernel follows its hints, everything between the end of the
\* image and the program break can be accessed: the stack, the argument
\* strings and the heap that a successful brk promised.  (host_alloc is 0
\* only while no segment has been loaded.)
HeapBacked ==
  ~displaced /\ host_alloc # 0 =>
    \A g \in Word : base <= g /\ g < guest_alloc => Mapped(g)

\* mmu_alloc's mmap has no MAP_FIXED and its result is not compared with the
\* hint: the two can differ only after an earlier shrink went through munmap,
\* or when the area grows past the end of the host's address space.
DisplacedOnlyAfterTrim ==
  [][displaced' /\ ~displaced => trimmed \/ host_alloc' > HostLimit]_vars

\* The PT_LOAD headers of the program.
Segments == {k \in DOMAIN img.phdrs : k <= img.phnum /\ img.phdrs[k].type = "PT_LOAD"}

\* mmu_load_segment puts every byte of every segment where its header says,
\* although it maps whole pages and later segments may replace them.
SegmentsLoaded ==
  ctl = "run" /\ ~trimmed =>
    \A k \in Segments : \A j \in 0 .. (img.phdrs[k].filesz - 1) :
      Content(img.phdrs[k].vaddr + j) = FileByte(img.phdrs[k].offset + j)

\* The .bss bytes of a segment, and those of them past its last file page.
BssBytes(phdr) == (phdr.vaddr + phdr.filesz) .. (phdr.vaddr + phdr.memsz - 1)
BssPageBytes(phdr) == {g \in BssBytes(phdr) : TO_HOST(g) >= FileEnd(phdr)}

\* The part of .bss that lies beyond the file's pages is zero when the
\* program starts.
BssPagesZero ==
  ctl = "run" /\ ~trimmed =>
    \A k \in Segments : \A g \in BssPageBytes(img.phdrs[k]) : Content(g) = Zero

\* The word at g is the address of a copy of argv[k], NUL included.
IsArg(g, k) ==
  \E a \in Word :
    /\ \A b \in 0 .. (PtrSize - 1) : Content(g + b) = WordByte(a, b)
    /\ \A j \in 0 .. (argv[k + 1] - 1) : Content(a + j) = StringByte(k, j)
    /\ Content(a + argv[k + 1]) = Zero

\* machine_setup leaves the emulator's own argc, pointers to argv[1], ...,
\* argv[argc-1] in this order (one fewer than argc says), each string terminated
\* although only strlen bytes are copied, and then three null words.
ArgsIntact ==
  ctl = "run" /\ ~trimmed =>
    /\ Content(sp) = WordByte(argc, 0)
    /\ \A k \in 1 .. (argc - 1) : IsArg(sp + k * PtrSize, k)
    /\ \A b \in 0 .. (3 * PtrSize - 1) : Content(sp + argc * PtrSize + b) = Zero

\* main reaches the interpreter loop or stops; it never hangs while loading.
StartupEnds == <>(ctl = "run" \/ ctl \in Stopped)

\* Every address a guest passes to brk is below the middle of the address
\* space, as user addresses are: the difference of two of them is an int64_t.
BrkArgsInRange == \A a \in BrkArgs : 2 * a < AddrSpace

-----------------------------------------------------------------------------
(* The inductive invariant behind BreakWithinHost, HeapBacked and          *)
(* DisplacedOnlyAfterTrim.                                                 *)

\* No segment has been loaded: nothing is mapped, and a stack that was
\* "allocated" for such a program faults at its first use.
NoImage ==
  /\ host_alloc = 0 /\ base = 0 /\ ~trimmed
  /\ \A p \in Page : pages[p] = Unmapped
  /\ guest_alloc <= 2 * HostLimit
  /\ ctl \in Loading => guest_alloc = 0
  /\ ctl = "argv" => guest_alloc <= HostLimit
  /\ ctl # "run"

\* Segments have been loaded: the area from base to host_alloc consists of
\* whole mapped pages, it contains the break, and until the first shrink
\* nothing is mapped above it.
Placed ==
  /\ base > 0 /\ base % PageSize = 0
  /\ host_alloc % PageSize = 0 /\ host_alloc <= HostLimit
  /\ base <= guest_alloc /\ guest_alloc + GuestOffset <= host_alloc
  /\ ctl \in Loading => guest_alloc = base /\ host_alloc = base + GuestOffset /\ ~trimmed
  /\ \A p \in Page :
       base + GuestOffset <= p * PageSize /\ p * PageSize < host_alloc =>
         pages[p] # Unmapped
  /\ ~trimmed => \A p \in Page : host_alloc <= p * PageSize => pages[p] = Unmapped

\* The accounting of mmu_t is right until the kernel first places a mapping
\* away from its hint, which cannot happen while loading.
Accounting ==
  /\ displaced => ctl \notin Loading
  /\ ~displaced => NoImage \/ Placed

-----------------------------------------------------------------------------
(* What comments of the repository say and the code does not do.           *)

\* brk returned, so the memory below the break is there.
HeapAlwaysBacked ==
  ctl = "run" => \A g \in base .. (guest_alloc - 1) : Mapped(g)

\* .bss is zero-filled.
BssZero ==
  ctl = "run" /\ ~trimmed =>
    \A k \in Segments : \A g \in BssBytes(img.phdrs[k]) : Content(g) = Zero
=============================================================================
