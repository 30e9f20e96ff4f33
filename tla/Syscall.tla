------------------------------- MODULE Syscall -------------------------------
(***************************************************************************)
(* syscall.c: do_syscall, its two tables of handlers, and the handlers,    *)
(* for a guest that has been loaded and set up.  Guest memory is what      *)
(* mmu.c has mapped (module Mmu); the host kernel sees it at host          *)
(* addresses, and brk changes it while the other calls fill it.            *)
(***************************************************************************)
EXTENDS Mmu, Files

CONSTANTS Calls,        \* the values of a0 to a3 and a7 the guest calls with
          ImageStart, ImageEnd, StackSize,  \* the loaded guest
          ImageCells,   \* what the image holds at guest addresses
          MaxCalls,     \* bound: the number of calls a guest makes
          StdFiles      \* the files behind descriptors 0, 1 and 2

Arguments == [a0 : Word, a1 : Word, a2 : Word, a3 : Word, a7 : Word]

ASSUME SyscallAssumption ==
  /\ AddrSpace >= 2048
  /\ Calls \subseteq Arguments /\ MaxCalls \in Nat
  /\ {ImageStart, ImageEnd, StackSize} \subseteq Nat
  /\ ImageStart % PageSize = 0 /\ ImageEnd % PageSize = 0 /\ ImageStart < ImageEnd
  /\ StackSize % PageSize = 0
  /\ ImageEnd + StackSize + GuestOffset <= HostLimit
  /\ \A g \in DOMAIN ImageCells :
       g \in ImageStart .. (ImageEnd - 1) /\ ImageCells[g] \in Cell
  /\ {"in", "out", "err"} \subseteq DOMAIN StdFiles
  /\ StdFiles = [n \in DOMAIN StdFiles |-> StdFiles[n]]
  /\ \A n \in DOMAIN StdFiles :
       n \in Cell /\ Len(StdFiles[n]) <= MaxFile /\ StdFiles[n] \in Seq(Cell)

VARIABLES fs,      \* the host's files and the process's descriptors
          data,    \* what host addresses hold that have been written to
          call,    \* the registers of the call being served
          ret,     \* gp_regs[a0] after the last call
          made,    \* history: the number of calls, for the bound
          ctl      \* "guest", "ecall", or why the process has stopped

vars == <<mmuVars, fs, data, call, ret, made, ctl>>

NoCall == [a0 |-> 0, a1 |-> 0, a2 |-> 0, a3 |-> 0, a7 |-> 0]

Stopped == {"exited", "fatal", "assert", "crashed"}

-----------------------------------------------------------------------------
(* The tables.  An entry that no initializer names is NULL.                *)

\* SYS_pread, statx, fstatat, linkat, unlinkat, mkdirat, renameat, getcwd, uname,
\* getpid, getuid, geteuid, getgid, getegid, gettid, tgkill, mmap, munmap, mremap,
\* mprotect, rt_sigaction, times, writev, faccessat, fcntl, ftruncate, getdents,
\* dup, dup3, rt_sigprocmask, clock_gettime and chdir.
Unimplemented ==
  {67, 291, 79, 37, 35, 34, 38, 17, 160, 172, 174, 175, 176, 177, 178, 131, 222, 215, 216,
   226, 134, 153, 66, 48, 25, 46, 61, 23, 24, 135, 113, 49}

syscall_table ==
  [n \in {93, 94, 63, 64, 56, 57, 80, 62, 214, 169} \cup Unimplemented |->
     CASE n = 93 -> "sys_exit" [] n = 94 -> "sys_exit" [] n = 63 -> "sys_read"
       [] n = 64 -> "sys_write" [] n = 56 -> "sys_openat" [] n = 57 -> "sys_close"
       [] n = 80 -> "sys_fstat" [] n = 62 -> "sys_lseek" [] n = 214 -> "sys_brk"
       [] n = 169 -> "sys_gettimeofday" [] OTHER -> "sys_unimplemented"]

OLD_SYSCALL_THRESHOLD == 1024

\* SYS_open; SYS_link, unlink, mkdir, access, stat, lstat and time.
old_syscall_table ==
  [n \in { m - OLD_SYSCALL_THRESHOLD :
            m \in {1024, 1025, 1026, 1030, 1033, 1038, 1039, 1062} } |->
     IF n = 1024 - OLD_SYSCALL_THRESHOLD THEN "sys_open" ELSE "sys_unimplemented"]

ARRAY_SIZE(table) == Max(DOMAIN table) + 1
table_size == ARRAY_SIZE(syscall_table)
old_table_size == ARRAY_SIZE(old_syscall_table)

\* "wild" is what lies in memory next to the table.
Entry(table, size, n) ==
  IF n \notin 0 .. (size - 1) THEN "wild"
  ELSE IF n \in DOMAIN table THEN table[n] ELSE "NULL"

\* Mutant: the difference is compared as a signed number.
do_syscall_Signed(n) ==
  LET old == Signed(Wrap(n - OLD_SYSCALL_THRESHOLD))
  IN  IF n < table_size THEN Entry(syscall_table, table_size, n)
      ELSE IF old < old_table_size THEN Entry(old_syscall_table, old_table_size, old)
      ELSE "NULL"

\* The handler do_syscall calls for number n.
do_syscall(n) ==
  LET old == Wrap(n - OLD_SYSCALL_THRESHOLD)
  IN  IF n < table_size THEN Entry(syscall_table, table_size, n)
      ELSE IF old < old_table_size THEN Entry(old_syscall_table, old_table_size, old)
      ELSE "NULL"

-----------------------------------------------------------------------------
(* Open flags of newlib and of the host, an x86-64 Linux.                  *)

NEWLIB == [O_WRONLY |-> 1, O_RDWR |-> 2, O_APPEND |-> 8, O_CREAT |-> 512,
           O_TRUNC |-> 1024, O_EXCL |-> 2048]

O_WRONLY == 1
O_RDWR == 2
O_CREAT == 64
O_EXCL == 128
O_TRUNC == 512
O_APPEND == 1024

\* flags & bit
HasFlag(flags, bit) == (flags \div bit) % 2 = 1

\* Mutant: the flags are passed to the host as they are.
convert_flags_Same(flags) == flags % IntSpace

\* O_RDONLY is zero in both, and its test never succeeds.
convert_flags(flags) ==
  LET Rewrite(newlib, host) == IF HasFlag(flags, newlib) THEN host ELSE 0
  IN  Rewrite(NEWLIB.O_WRONLY, O_WRONLY) + Rewrite(NEWLIB.O_RDWR, O_RDWR)
      + Rewrite(NEWLIB.O_APPEND, O_APPEND) + Rewrite(NEWLIB.O_CREAT, O_CREAT)
      + Rewrite(NEWLIB.O_TRUNC, O_TRUNC) + Rewrite(NEWLIB.O_EXCL, O_EXCL)

\* How the host kernel reads the flags of open.
HostMeaning(flags) ==
  LET Bit == [WRONLY |-> O_WRONLY, RDWR |-> O_RDWR, APPEND |-> O_APPEND,
              CREAT |-> O_CREAT, TRUNC |-> O_TRUNC, EXCL |-> O_EXCL]
  IN  {f \in Flag : HasFlag(flags, Bit[f])}

-----------------------------------------------------------------------------
(* Host memory as the kernel sees it.                                      *)

\* A page of the image or an anonymous one; what was not written is zero.
At(h) == IF h \in DOMAIN data THEN data[h] ELSE Nul

\* The mapped cells from h on, at most count of them.
HostRoom(h, count) ==
  CHOOSE n \in 0 .. count :
    /\ \A k \in 0 .. (n - 1) : MappedIn(pages, h + k)
    /\ n < count => ~MappedIn(pages, h + n)

\* The kernel refuses a buffer that leaves the user address space.
InRange(h, count) == h + count <= HostLimit

Stored(h, cells) ==
  [x \in DOMAIN data \cup {h + k - 1 : k \in DOMAIN cells} |->
     IF x - h + 1 \in DOMAIN cells THEN cells[x - h + 1] ELSE data[x]]

-----------------------------------------------------------------------------
(* The handlers.                                                           *)

Runs(handler) == ctl = "ecall" /\ do_syscall(call.a7) = handler

\* Mutant: an int result passes through a uint32_t, which extends it with zeroes.
Returns_ZeroExtended(v) == ret' = v % IntSpace /\ call' = NoCall /\ ctl' = "guest"

\* machine_set_gp_reg(a0) in main; the guest uses the other registers as it likes
\* until its next call.  v comes from an int or a 64-bit result.
Returns(v) == ret' = Wrap(v) /\ call' = NoCall /\ ctl' = "guest"

Result(r) == fs' = r.fs /\ Returns(r.ret)

sys_read ==
  LET buf == TO_HOST(call.a1)
  IN  /\ Runs("sys_read")
      /\ \E r \in IF InRange(buf, call.a2)
                  THEN Reads(fs, int(call.a0), call.a2, HostRoom(buf, call.a2))
                  ELSE {Fail(fs)} :
           Result(r) /\ data' = Stored(buf, r.cells)
      /\ UNCHANGED <<mmuVars, made>>

sys_write ==
  LET buf == TO_HOST(call.a1)
      cells == [k \in 1 .. HostRoom(buf, call.a2) |-> At(buf + k - 1)]
  IN  /\ Runs("sys_write")
      /\ \E r \in IF InRange(buf, call.a2) THEN Writes(fs, int(call.a0), call.a2, cells)
                  ELSE {Fail(fs)} : Result(r)
      /\ UNCHANGED <<mmuVars, data, made>>

HostOpen(nameptr, flags) ==
  IF MappedIn(pages, TO_HOST(nameptr))
  THEN Open(fs, At(TO_HOST(nameptr)), HostMeaning(convert_flags(flags)))
  ELSE Fail(fs)

\* Names are relative, and no descriptor is a directory.
sys_openat ==
  /\ Runs("sys_openat")
  /\ Result(IF int(call.a0) = AT_FDCWD THEN HostOpen(call.a1, call.a2) ELSE Fail(fs))
  /\ UNCHANGED <<mmuVars, data, made>>

sys_open ==
  /\ Runs("sys_open")
  /\ Result(HostOpen(call.a0, call.a1))
  /\ UNCHANGED <<mmuVars, data, made>>

\* Mutant: only descriptor 0 is protected.
sys_close_AboveZero ==
  /\ Runs("sys_close")
  /\ IF call.a0 > 0 THEN Result(Close(fs, int(call.a0))) ELSE Returns(0) /\ UNCHANGED fs
  /\ UNCHANGED <<mmuVars, data, made>>

\* The test is on 64 bits; close takes an int.
sys_close ==
  /\ Runs("sys_close")
  /\ IF call.a0 > 2 THEN Result(Close(fs, int(call.a0))) ELSE Returns(0) /\ UNCHANGED fs
  /\ UNCHANGED <<mmuVars, data, made>>

sys_lseek ==
  /\ Runs("sys_lseek")
  /\ Result(Seek(fs, int(call.a0), Signed(call.a1), int(call.a2)))
  /\ UNCHANGED <<mmuVars, data, made>>

sys_fstat ==
  /\ Runs("sys_fstat")
  /\ IF int(call.a0) \in DOMAIN fs.fds /\ MappedIn(pages, TO_HOST(call.a1))
     THEN data' = Stored(TO_HOST(call.a1), <<Stat>>) /\ Returns(0)
     ELSE Returns(-1) /\ UNCHANGED data
  /\ UNCHANGED <<mmuVars, fs, made>>

\* gettimeofday(2) skips a null pointer.  With a bad pointer it fails with EFAULT,
\* or faults when the C library answers without entering the kernel.
sys_gettimeofday ==
  LET tv == TO_HOST(call.a0)
      tz == IF call.a1 # 0 THEN TO_HOST(call.a1) ELSE 0
      Good(p) == p = 0 \/ MappedIn(pages, p)
      timeval == {p \in {tv} : p # 0 /\ Good(p)}
      timezone == {p \in {tz} : p # 0 /\ Good(p) /\ Good(tv)}
  IN  /\ Runs("sys_gettimeofday")
      /\ data' = [x \in timezone \cup timeval \cup DOMAIN data |->
                     IF x \in timezone THEN Zone ELSE IF x \in timeval THEN Time ELSE data[x]]
      /\ \/ Returns(IF Good(tv) /\ Good(tz) THEN 0 ELSE -1)
         \/ ~(Good(tv) /\ Good(tz)) /\ ctl' = "crashed" /\ UNCHANGED <<call, ret>>
      /\ UNCHANGED <<mmuVars, fs, made>>

BrkTarget == IF call.a0 = 0 THEN guest_alloc ELSE call.a0
BrkIncr == Signed(Wrap(BrkTarget - guest_alloc))

\* A page that mmu_alloc unmaps takes its contents with it.
sys_brk ==
  /\ Runs("sys_brk")
  /\ BrkTarget >= base
  /\ mmu_alloc(BrkIncr)
  /\ data' = [h \in {x \in DOMAIN data : MappedIn(pages', x)} |-> data[h]]
  /\ Returns(BrkTarget)
  /\ UNCHANGED <<fs, made>>

\* An assertion of sys_brk or mmu_alloc fails, or the kernel says no.
BrkStops ==
  /\ Runs("sys_brk")
  /\ ctl' = IF BrkTarget < base \/ ~AllocAsserts(BrkIncr) THEN "assert" ELSE "fatal"
  /\ ctl' = "fatal" => AllocStops(BrkIncr)
  /\ UNCHANGED <<mmuVars, fs, data, call, ret, made>>

sys_exit ==
  /\ Runs("sys_exit")
  /\ ctl' = "exited"
  /\ UNCHANGED <<mmuVars, fs, data, call, ret, made>>

\* sys_unimplemented, and do_syscall when there is no handler.
SyscallFatal ==
  /\ Runs("sys_unimplemented") \/ Runs("NULL")
  /\ ctl' = "fatal"
  /\ UNCHANGED <<mmuVars, fs, data, call, ret, made>>

\* The guest runs until its next ecall.  Only its own stores, which are the
\* subject of other modules, change memory meanwhile.
Ecall ==
  /\ ctl = "guest" /\ made < MaxCalls
  /\ call' \in Calls
  /\ made' = made + 1
  /\ ctl' = "ecall" /\ ret' = 0
  /\ UNCHANGED <<mmuVars, fs, data>>

\* The process has stopped, or the guest makes no more calls.
Terminated == (ctl \in Stopped \/ (ctl = "guest" /\ made = MaxCalls)) /\ UNCHANGED vars

-----------------------------------------------------------------------------
\* machine_load_program and machine_setup have returned.  The standard
\* descriptors are the emulator's own.
Init ==
  /\ entry = ImageStart
  /\ base = ImageEnd
  /\ guest_alloc = ImageEnd + StackSize
  /\ host_alloc = TO_HOST(ImageEnd + StackSize)
  /\ pages = MapAnon([p \in Page |-> Unmapped], TO_HOST(ImageStart),
                     ImageEnd + StackSize - ImageStart)
  /\ trimmed = FALSE /\ displaced = FALSE
  /\ fs = [files |-> StdFiles,
           fds |-> [d \in 0 .. 2 |->
                      [name |-> <<"in", "out", "err">>[d + 1], pos |-> 0,
                       flags |-> IF d = 0 THEN {} ELSE {"WRONLY", "APPEND"}]]]
  /\ data = [h \in { TO_HOST(g) : g \in DOMAIN ImageCells } |-> ImageCells[TO_GUEST(h)]]
  /\ call = NoCall
  /\ ret = 0 /\ made = 0 /\ ctl = "guest"

Next ==
  \/ Ecall \/ sys_read \/ sys_write \/ sys_openat \/ sys_open \/ sys_close \/ sys_lseek
  \/ sys_fstat \/ sys_gettimeofday \/ sys_brk \/ BrkStops \/ sys_exit \/ SyscallFatal
  \/ Terminated

Spec == Init /\ [][Next]_vars

-----------------------------------------------------------------------------
(* Properties.                                                             *)

\* What a0 may hold after a call: a count, a position or a descriptor, the int or
\* int64_t -1 as a uint64_t, or the break.
GuestResult == (0 .. MaxFile) \cup (0 .. MaxFd) \cup {AddrSpace - 1, guest_alloc}

\* Every variable keeps its type: files within their size, descriptors that name files,
\* cells in host memory.  a0 holds one of the results that a guest can tell apart,
\* although the kernel's are ints, int64_ts and addresses: above all, every failure
\* is the one value that newlib compares with, -1 in 64 bits.
TypeOK ==
  /\ MmuTypeOK
  /\ FilesOK(fs)
  /\ \A h \in DOMAIN data : h \in 0 .. (HostLimit - 1) /\ data[h] \in Cell
  /\ call \in Arguments /\ ret \in GuestResult /\ made \in 0 .. MaxCalls
  /\ ctl \in {"guest", "ecall"} \cup Stopped

\* do_syscall never reads past the end of a table, although the index into the
\* second one is a difference that wraps around for the numbers below 1024.
TablesInBounds == ctl = "ecall" => do_syscall(call.a7) # "wild"

\* Memory as the guest addresses it.
GuestMem ==
  LET hosts == {h \in 0 .. (HostLimit - 1) : MappedIn(pages, h)}
  IN  [g \in { TO_GUEST(h) : h \in hosts } |-> At(TO_HOST(g))]

GuestMode == IF ctl \in Stopped THEN "stop" ELSE IF ctl = "ecall" THEN "call" ELSE "guest"

Promise == INSTANCE GuestFiles WITH mem <- GuestMem, brk <- guest_alloc, mode <- GuestMode

\* Every call does what the guest's own interface says, with newlib's flags and
\* the guest's addresses: the right handler runs, flags and pointers are converted
\* so that the host kernel understands the same call, failures come back as -1, and
\* no call touches memory that the guest did not name, brk included.
RefinesFiles == Promise!Safety

\* No sequence of calls takes the standard descriptors away from the emulator,
\* which shares them with the guest: sys_close lets them be.  (A descriptor that is
\* no int passes its test and is cut to one by close.)
StdioStaysOpen ==
  [][\/ (0 .. 2) \cap DOMAIN fs.fds \subseteq DOMAIN fs'.fds
     \/ call.a7 = 57 /\ call.a0 >= IntSpace]_vars

\* sys_brk takes a difference of addresses for an int64_t, so an address in the upper
\* half is a negative increment, and the break leaves the area that host_alloc ends;
\* no other sequence of calls gets it there, whatever the sizes and their rounding.
EscapesOnlyByWrap ==
  [][/\ guest_alloc <= TO_GUEST(host_alloc)
     /\ guest_alloc' > TO_GUEST(host_alloc')
     => call.a7 = 214 /\ 2 * call.a0 >= AddrSpace]_vars
=============================================================================
