---------------------------- MODULE SyscallProofs ----------------------------
(***************************************************************************)
(* For every guest, host layout, set of files and sequence of calls:       *)
(* do_syscall stays inside its tables, the standard descriptors stay open, *)
(* and the calls do what the guest's interface says (GuestFiles).          *)
(***************************************************************************)
EXTENDS Syscall, MmuProofs, WellFoundedInduction

-----------------------------------------------------------------------------
(* The tables of handlers.                                                 *)

\* ARRAY_SIZE of the two tables: one more than the largest index that an
\* initializer names.
LEMMA TableSizes == table_size = 292 /\ old_table_size = 39
<1>1. DOMAIN syscall_table = {93, 94, 63, 64, 56, 57, 80, 62, 214, 169} \cup Unimplemented
  BY DEF syscall_table
<1>2. \A n \in DOMAIN syscall_table : n \in Int /\ n <= 291
  BY <1>1 DEF Unimplemented
<1>3. 291 \in DOMAIN syscall_table
  BY <1>1 DEF Unimplemented
<1>4. Max(DOMAIN syscall_table) = 291
  BY <1>2, <1>3 DEF Max
<1>5. DOMAIN old_syscall_table = {0, 1, 2, 6, 9, 14, 15, 38}
  BY DEF old_syscall_table, OLD_SYSCALL_THRESHOLD
<1>6. Max(DOMAIN old_syscall_table) = 38
  BY <1>5 DEF Max
<1> QED
  BY <1>4, <1>6 DEF table_size, old_table_size, ARRAY_SIZE

\* The numbers for which do_syscall runs each handler; every other number
\* ends the process.
LEMMA HandlerNumbers ==
  ASSUME NEW n \in Word
  PROVE  /\ do_syscall(n) # "wild"
         /\ do_syscall(n) = "sys_read" <=> n = 63
         /\ do_syscall(n) = "sys_write" <=> n = 64
         /\ do_syscall(n) = "sys_openat" <=> n = 56
         /\ do_syscall(n) = "sys_close" <=> n = 57
         /\ do_syscall(n) = "sys_lseek" <=> n = 62
         /\ do_syscall(n) = "sys_fstat" <=> n = 80
         /\ do_syscall(n) = "sys_gettimeofday" <=> n = 169
         /\ do_syscall(n) = "sys_brk" <=> n = 214
         /\ do_syscall(n) = "sys_open" <=> n = 1024
<1>0. n \in Nat /\ n < AddrSpace /\ AddrSpace \in Nat /\ AddrSpace >= 2048
  BY WordAssumption, SyscallAssumption DEF Word
<1>1. CASE n < 292
  <2>1. do_syscall(n) = IF n \in DOMAIN syscall_table THEN syscall_table[n] ELSE "NULL"
    BY <1>0, <1>1, TableSizes DEF do_syscall, Entry
  <2>2. CASE n \in Unimplemented
    <3>1. do_syscall(n) = "sys_unimplemented"
      BY <2>1, <2>2 DEF syscall_table, Unimplemented
    <3> QED
      BY <2>2, <3>1, <1>1, <1>0 DEF Unimplemented
  <2>3. CASE n \notin Unimplemented
    BY <2>1, <2>3, <1>1, <1>0 DEF syscall_table
  <2> QED
    BY <2>2, <2>3
<1>2. CASE n >= 292
  <2> DEFINE old == Wrap(n - OLD_SYSCALL_THRESHOLD)
  <2>1. old \in Nat /\ (old = 0 <=> n = 1024)
    BY <1>0, <1>2 DEF Wrap, OLD_SYSCALL_THRESHOLD
  <2> HIDE DEF old
  <2>2. do_syscall(n) = IF old < 39 THEN Entry(old_syscall_table, 39, old) ELSE "NULL"
    BY <1>0, <1>2, TableSizes DEF do_syscall, old
  <2>3. DOMAIN old_syscall_table = {0, 1, 2, 6, 9, 14, 15, 38}
    BY DEF old_syscall_table, OLD_SYSCALL_THRESHOLD
  <2>4. \A k \in DOMAIN old_syscall_table :
          old_syscall_table[k] = IF k = 0 THEN "sys_open" ELSE "sys_unimplemented"
    BY DEF old_syscall_table, OLD_SYSCALL_THRESHOLD
  <2>5. CASE old < 39 /\ old \in DOMAIN old_syscall_table
    BY <2>1, <2>2, <2>3, <2>4, <2>5, <1>2 DEF Entry
  <2>6. CASE ~(old < 39 /\ old \in DOMAIN old_syscall_table)
    <3>1. do_syscall(n) = "NULL" /\ old # 0
      BY <2>1, <2>2, <2>3, <2>6 DEF Entry
    <3> QED
      BY <3>1, <2>1, <1>2, <1>0
  <2> QED
    BY <2>5, <2>6
<1> QED
  BY <1>0, <1>1, <1>2

-----------------------------------------------------------------------------
(* The flags of open.                                                      *)

\* What the host makes of the rewritten flags is what the guest meant,
\* although O_TRUNC of newlib has the bit of the host's O_APPEND.
LEMMA FlagsConverted ==
  ASSUME NEW flags \in Nat
  PROVE  HostMeaning(convert_flags(flags)) = Promise!Meaning(flags)
<1> DEFINE c == convert_flags(flags)
           B(k) == (flags \div k) % 2 = 1
<1>1. c = (IF B(1) THEN 1 ELSE 0) + (IF B(2) THEN 2 ELSE 0) + (IF B(8) THEN 1024 ELSE 0)
          + (IF B(512) THEN 64 ELSE 0) + (IF B(1024) THEN 512 ELSE 0)
          + (IF B(2048) THEN 128 ELSE 0)
  BY DEF convert_flags, HasFlag, NEWLIB, O_WRONLY, O_RDWR, O_APPEND, O_CREAT, O_TRUNC, O_EXCL
<1> HIDE DEF c
<1>2. /\ (c \div 1) % 2 = 1 <=> B(1)
      /\ (c \div 2) % 2 = 1 <=> B(2)
      /\ (c \div 1024) % 2 = 1 <=> B(8)
      /\ (c \div 64) % 2 = 1 <=> B(512)
      /\ (c \div 512) % 2 = 1 <=> B(1024)
      /\ (c \div 128) % 2 = 1 <=> B(2048)
  <2> HIDE DEF B
  <2> QED
    BY <1>1
<1>3. \A f \in Flag : f \in HostMeaning(c) <=> f \in Promise!Meaning(flags)
  BY <1>2 DEF HostMeaning, HasFlag, Promise!Meaning, Flag, Promise!Flag,
     O_WRONLY, O_RDWR, O_APPEND, O_CREAT, O_TRUNC, O_EXCL
<1>4. HostMeaning(c) \subseteq Flag /\ Promise!Meaning(flags) \subseteq Flag
  BY DEF HostMeaning, Promise!Meaning, Flag, Promise!Flag
<1> QED
  BY <1>3, <1>4 DEF c

-----------------------------------------------------------------------------
(* Files and descriptors.                                                  *)

\* The smaller and the larger of two numbers.
LEMMA MinMax2 ==
  ASSUME NEW a \in Int, NEW b \in Int
  PROVE  /\ Min({a, b}) = IF a <= b THEN a ELSE b
         /\ Max({a, b}) = IF a <= b THEN b ELSE a
BY DEF Min, Max

\* The smallest of three numbers.
LEMMA Min3 ==
  ASSUME NEW a \in Int, NEW b \in Int, NEW c \in Int
  PROVE  /\ Min({a, b, c}) \in {a, b, c}
         /\ Min({a, b, c}) <= a /\ Min({a, b, c}) <= b /\ Min({a, b, c}) <= c
<1>1. \E x \in {a, b, c} : \A y \in {a, b, c} : x =< y
  OBVIOUS
<1> QED
  BY <1>1 DEF Min

\* There is a lowest descriptor among the free ones.
LEMMA MinOfNats ==
  ASSUME NEW S \in SUBSET Nat, S # {}
  PROVE  Min(S) \in S /\ \A y \in S : Min(S) <= y
<1> DEFINE R == {ss \in Nat \X Nat : ss[1] < ss[2]}
<1>1. IsWellFoundedOn(R, Nat)
  BY NatLessThanWellFounded DEF OpToRel
<1> HIDE DEF R
<1>2. \E x \in S : \A y \in S : ~(<<y, x>> \in R)
  <2>1. S \subseteq Nat
    OBVIOUS
  <2> QED
    BY <1>1, <2>1, WFMin, Zenon
<1>3. PICK x \in S : \A y \in S : ~(<<y, x>> \in R)
  BY <1>2
<1>4. ASSUME NEW y \in S PROVE x =< y
  <2>1. x \in Nat /\ y \in Nat
    OBVIOUS
  <2>2. y < x => <<y, x>> \in R
    BY <2>1 DEF R
  <2> QED
    BY <1>3, <2>1, <2>2
<1> QED
  BY <1>4 DEF Min

\* What a call of the kernel returns: -1, a descriptor, or a number of cells.
KernelResult == {-1} \cup (0 .. MaxFd) \cup (0 .. MaxFile)

LEMMA ResultRange ==
  /\ 0 \in KernelResult /\ -1 \in KernelResult
  /\ \A k \in 0 .. MaxFd : k \in KernelResult
  /\ \A k \in 0 .. MaxFile : k \in KernelResult
BY FilesAssumption DEF KernelResult

\* A failed call changes nothing.
LEMMA FailOK ==
  ASSUME NEW f, FilesOK(f)
  PROVE  /\ FilesOK(Fail(f).fs) /\ Fail(f).ret \in KernelResult
         /\ DOMAIN Fail(f).fs.fds = DOMAIN f.fds
         /\ Fail(f).cells = << >>
BY DEF Fail, KernelResult

\* open adds a descriptor for a file that exists afterwards.
LEMMA OpenOK ==
  ASSUME NEW f, FilesOK(f), NEW name \in Cell, NEW flags \in SUBSET Flag
  PROVE  LET r == Open(f, name, flags)
         IN  FilesOK(r.fs) /\ r.ret \in KernelResult /\ DOMAIN f.fds \subseteq DOMAIN r.fs.fds
<1> DEFINE free == (0 .. MaxFd) \ DOMAIN f.fds
           exists == name \in DOMAIN f.files
           found == IF exists THEN ~({"CREAT", "EXCL"} \subseteq flags) ELSE "CREAT" \in flags
           files == IF exists /\ "TRUNC" \notin flags THEN f.files
                    ELSE With(f.files, name, << >>)
           new == [name |-> name, pos |-> 0, flags |-> flags]
           fds == With(f.fds, Min(free), new)
           r == Open(f, name, flags)
<1>1. CASE free # {} /\ found
  <2>1. r = [fs |-> [files |-> files, fds |-> fds], ret |-> Min(free), cells |-> << >>]
    BY <1>1 DEF Open
  <2>2. Min(free) \in free
    BY <1>1, MinOfNats
  <2>3. new \in Desc
    BY FilesAssumption DEF Desc
  <2>4. /\ DOMAIN files = DOMAIN f.files \cup {name}
        /\ files = [n \in DOMAIN files |-> files[n]]
        /\ \A n \in DOMAIN files :
             n \in Cell /\ Len(files[n]) <= MaxFile /\ files[n] \in Seq(Cell)
    <3>1. CASE exists /\ "TRUNC" \notin flags
      BY <3>1 DEF FilesOK
    <3>2. CASE ~(exists /\ "TRUNC" \notin flags)
      <4>1. files = With(f.files, name, << >>)
        BY <3>2
      <4>2. << >> \in Seq(Cell) /\ Len(<< >>) <= MaxFile
        BY FilesAssumption
      <4> HIDE DEF files
      <4>3. /\ DOMAIN files = DOMAIN f.files \cup {name}
            /\ files = [n \in DOMAIN files |-> files[n]]
            /\ \A n \in DOMAIN files : files[n] = IF n = name THEN << >> ELSE f.files[n]
        BY <4>1 DEF With
      <4> QED
        BY <4>2, <4>3 DEF FilesOK
    <3> QED
      BY <3>1, <3>2
  <2> HIDE DEF new, files, free
  <2>5. /\ DOMAIN fds = DOMAIN f.fds \cup {Min(free)}
        /\ fds = [d \in DOMAIN fds |-> fds[d]]
        /\ fds[Min(free)] = new
        /\ \A d \in DOMAIN f.fds : d # Min(free) => fds[d] = f.fds[d]
    BY DEF With
  <2>6. \A d \in DOMAIN fds :
          d \in 0 .. MaxFd /\ fds[d] \in Desc /\ fds[d].name \in DOMAIN files
    <3>1. Min(free) \in 0 .. MaxFd /\ new.name = name
      BY <2>2 DEF free, new
    <3> QED
      BY <2>3, <2>4, <2>5, <3>1 DEF FilesOK
  <2> HIDE DEF fds
  <2>7. FilesOK([files |-> files, fds |-> fds])
    BY <2>4, <2>5, <2>6 DEF FilesOK
  <2> HIDE DEF r
  <2> QED
    BY <2>1, <2>2, <2>5, <2>7, ResultRange DEF free, r
<1>2. CASE ~(free # {} /\ found)
  BY <1>2, FailOK DEF Open
<1> QED
  BY <1>1, <1>2

\* close takes away one descriptor.
LEMMA CloseOK ==
  ASSUME NEW f, FilesOK(f), NEW fd \in Int
  PROVE  LET r == Close(f, fd)
         IN  /\ FilesOK(r.fs) /\ r.ret \in KernelResult
             /\ DOMAIN f.fds \ {fd} \subseteq DOMAIN r.fs.fds
<1>1. CASE fd \in DOMAIN f.fds
  <2> DEFINE fds == [d \in DOMAIN f.fds \ {fd} |-> f.fds[d]]
  <2>1. Close(f, fd).fs = [files |-> f.files, fds |-> fds] /\ Close(f, fd).ret = 0
    BY <1>1 DEF Close
  <2>2. FilesOK([files |-> f.files, fds |-> fds])
    BY DEF FilesOK
  <2> QED
    BY <2>1, <2>2, ResultRange
<1>2. CASE fd \notin DOMAIN f.fds
  BY <1>2, FailOK DEF Close
<1> QED
  BY <1>1, <1>2

\* Moving the position of a descriptor leaves everything else alone.
LEMMA MovedOK ==
  ASSUME NEW f, FilesOK(f), NEW fd \in DOMAIN f.fds, NEW p \in 0 .. MaxFile
  PROVE  FilesOK(MovedTo(f, fd, p)) /\ DOMAIN MovedTo(f, fd, p).fds = DOMAIN f.fds
<1> DEFINE d == [name |-> f.fds[fd].name, pos |-> p, flags |-> f.fds[fd].flags]
           fds == With(f.fds, fd, d)
<1>1. d \in Desc /\ d.name \in DOMAIN f.files
  BY DEF FilesOK, Desc
<1>2. MovedTo(f, fd, p) = [files |-> f.files, fds |-> fds]
  BY DEF MovedTo
<1> HIDE DEF d
<1>3. /\ DOMAIN fds = DOMAIN f.fds
      /\ fds = [x \in DOMAIN fds |-> fds[x]]
      /\ \A x \in DOMAIN fds : fds[x] = IF x = fd THEN d ELSE f.fds[x]
  BY DEF With
<1> HIDE DEF fds
<1>4. \A x \in DOMAIN fds :
        x \in 0 .. MaxFd /\ fds[x] \in Desc /\ fds[x].name \in DOMAIN f.files
  BY <1>1, <1>3 DEF FilesOK
<1> QED
  BY <1>2, <1>3, <1>4 DEF FilesOK

\* lseek moves one position, within the limits of a file.
LEMMA SeekOK ==
  ASSUME NEW f, FilesOK(f), NEW fd \in Int, NEW offset \in Int, NEW whence \in Int
  PROVE  LET r == Seek(f, fd, offset, whence)
         IN  FilesOK(r.fs) /\ r.ret \in KernelResult /\ DOMAIN r.fs.fds = DOMAIN f.fds
<1> DEFINE start == IF whence = 1 THEN f.fds[fd].pos
                    ELSE IF whence = 2 THEN Len(f.files[f.fds[fd].name]) ELSE 0
           target == start + offset
           good == fd \in DOMAIN f.fds /\ whence \in 0 .. 2 /\ target \in 0 .. MaxFile
           g == MovedTo(f, fd, target)
<1>1. CASE good
  <2>1. Seek(f, fd, offset, whence) = [fs |-> g, ret |-> target, cells |-> << >>]
    BY <1>1 DEF Seek
  <2>2. FilesOK(g) /\ DOMAIN g.fds = DOMAIN f.fds
    BY <1>1, MovedOK
  <2>3. target \in KernelResult
    BY <1>1, ResultRange
  <2> HIDE DEF g, target
  <2> QED
    BY <1>1, <2>1, <2>2, <2>3
<1>2. CASE ~good
  <2>1. Seek(f, fd, offset, whence) = Fail(f)
    BY <1>2 DEF Seek
  <2> QED
    BY <2>1, FailOK
<1> QED
  BY <1>1, <1>2

\* A transfer is never longer than asked for.
LEMMA TransferBound ==
  ASSUME NEW n \in Nat, NEW k \in Transfer(n)
  PROVE  k \in 0 .. n
BY DEF Transfer

\* read fills at most the room there is, from inside the file, and moves one
\* position.
LEMMA ReadsOK ==
  ASSUME NEW f, FilesOK(f), NEW fd \in Int, NEW count \in Nat, NEW room \in Nat,
         NEW r \in Reads(f, fd, count, room)
  PROVE  /\ FilesOK(r.fs) /\ r.ret \in KernelResult /\ DOMAIN r.fs.fds = DOMAIN f.fds
         /\ r.cells \in Seq(Cell) /\ Len(r.cells) <= room
<1> DEFINE pos == f.fds[fd].pos
           text == f.files[f.fds[fd].name]
           n == Min({count, Max({0, Len(text) - pos})})
           refused == ~Readable(f, fd) \/ (n > 0 /\ room = 0)
           G(k) == MovedTo(f, fd, pos + k)
           C(k) == SubSeq(text, pos + 1, pos + k)
<1>1. CASE refused
  <2>1. r = Fail(f)
    BY <1>1 DEF Reads
  <2>2. << >> \in Seq(Cell) /\ Len(<< >>) <= room
    OBVIOUS
  <2> QED
    BY <2>1, <2>2, FailOK
<1>2. CASE ~refused
  <2>1. PICK k \in Transfer(Min({n, room})) : r = [fs |-> G(k), ret |-> k, cells |-> C(k)]
    BY <1>2 DEF Reads
  <2>2. /\ fd \in DOMAIN f.fds /\ pos \in 0 .. MaxFile /\ text \in Seq(Cell)
        /\ Len(text) \in 0 .. MaxFile
    <3>1. fd \in DOMAIN f.fds
      BY <1>2 DEF Readable
    <3>2. f.fds[fd] \in Desc /\ f.fds[fd].name \in DOMAIN f.files
      BY <3>1 DEF FilesOK
    <3>3. text \in Seq(Cell) /\ Len(text) <= MaxFile
      BY <3>2 DEF FilesOK
    <3> QED
      BY <3>1, <3>2, <3>3, FilesAssumption DEF Desc
  <2> HIDE DEF pos, text
  <2>3. n \in Nat /\ n <= count /\ (n > 0 => pos + n <= Len(text))
    <3> DEFINE left == Max({0, Len(text) - pos})
    <3>1. Len(text) - pos \in Int
      BY <2>2, FilesAssumption
    <3>2. left = IF 0 <= Len(text) - pos THEN Len(text) - pos ELSE 0
      BY <3>1, MinMax2, 0 \in Int, Zenon
    <3>3. left \in Nat
      BY <3>1, <3>2
    <3>4. n = IF count <= left THEN count ELSE left
      BY <3>3, count \in Int, left \in Int, MinMax2, Zenon
    <3> HIDE DEF left
    <3> QED
      BY <3>1, <3>2, <3>3, <3>4, <2>2, FilesAssumption
  <2> HIDE DEF n
  <2>4. k \in Nat /\ k <= n /\ k <= room
    BY <2>1, <2>3, MinMax2, TransferBound
  <2>5. pos + k \in 0 .. MaxFile /\ (k > 0 => pos + k <= Len(text))
    BY <2>2, <2>3, <2>4, FilesAssumption
  <2>6. C(k) \in Seq(Cell) /\ Len(C(k)) = k
    BY <2>2, <2>4, <2>5, FilesAssumption, SMTT(40)
  <2>7. FilesOK(G(k)) /\ DOMAIN G(k).fds = DOMAIN f.fds
    BY <2>2, <2>5, MovedOK
  <2>8. k \in KernelResult
    <3>1. k \in 0 .. MaxFile
      BY <2>2, <2>4, <2>5, FilesAssumption
    <3> QED
      BY <3>1, ResultRange
  <2> HIDE DEF G, C
  <2> QED
    BY <2>1, <2>4, <2>6, <2>7, <2>8, SMTT(40)
<1> QED
  BY <1>1, <1>2

\* A file that has been written to is as long as its last cell needs.
LEMMA OverwrittenOK ==
  ASSUME NEW text \in Seq(Cell), NEW at \in Nat, NEW cells \in Seq(Cell)
  PROVE  LET new == Overwritten(text, at, cells)
         IN  /\ new \in Seq(Cell)
             /\ Len(new) = IF Len(text) <= at + Len(cells) THEN at + Len(cells) ELSE Len(text)
<1> DEFINE m == Max({Len(text), at + Len(cells)})
           C(j) == IF j \in (at + 1) .. (at + Len(cells)) THEN cells[j - at]
                   ELSE IF j <= Len(text) THEN text[j] ELSE Nul
<1>0. Len(text) \in Nat /\ at + Len(cells) \in Nat
  OBVIOUS
<1>a. m = IF Len(text) <= at + Len(cells) THEN at + Len(cells) ELSE Len(text)
  BY Len(text) \in Int, at + Len(cells) \in Int, MinMax2, Zenon
<1>1. m \in Nat /\ m = IF Len(text) <= at + Len(cells) THEN at + Len(cells) ELSE Len(text)
  BY <1>0, <1>a
<1>2. Overwritten(text, at, cells) = [j \in 1 .. m |-> C(j)]
  BY DEF Overwritten
<1> HIDE DEF m
<1>3. ASSUME NEW j \in 1 .. m PROVE C(j) \in Cell
  <2>1. Nul \in Cell /\ j \in Nat /\ j >= 1
    BY <1>1 DEF Cell
  <2>2. j \in (at + 1) .. (at + Len(cells)) => cells[j - at] \in Cell
    OBVIOUS
  <2>3. j <= Len(text) => text[j] \in Cell
    BY <2>1
  <2> QED
    BY <2>1, <2>2, <2>3
<1> HIDE DEF C
<1> QED
  BY <1>1, <1>2, <1>3

\* write keeps a file within its size and moves one position.
LEMMA WritesOK ==
  ASSUME NEW f, FilesOK(f), NEW fd \in Int, NEW count \in Nat, NEW cells \in Seq(Cell),
         NEW r \in Writes(f, fd, count, cells)
  PROVE  FilesOK(r.fs) /\ r.ret \in KernelResult /\ DOMAIN r.fs.fds = DOMAIN f.fds
<1> DEFINE d == f.fds[fd]
           text == f.files[d.name]
           at == IF "APPEND" \in d.flags THEN Len(text) ELSE d.pos
           new(k) == Overwritten(text, at, SubSeq(cells, 1, k))
           Put(k) == IF k = 0 THEN f
                     ELSE MovedTo([files |-> With(f.files, d.name, new(k)), fds |-> f.fds],
                                  fd, at + k)
           n == Min({count, Len(cells), MaxFile - at})
           refused == ~Writable(f, fd) \/ (count > 0 /\ (cells = << >> \/ at = MaxFile))
<1>1. CASE refused
  <2>1. r = Fail(f)
    BY <1>1 DEF Writes
  <2> QED
    BY <2>1, FailOK
<1>2. CASE ~refused
  <2>1. PICK k \in Transfer(n) : r = [fs |-> Put(k), ret |-> k, cells |-> << >>]
    BY <1>2 DEF Writes
  <2>2. fd \in DOMAIN f.fds /\ d \in Desc /\ d.name \in DOMAIN f.files
    <3>1. fd \in DOMAIN f.fds
      BY <1>2 DEF Writable
    <3> QED
      BY <3>1 DEF FilesOK
  <2>3. text \in Seq(Cell) /\ Len(text) \in 0 .. MaxFile /\ at \in 0 .. MaxFile
    <3>1. text \in Seq(Cell) /\ Len(text) <= MaxFile
      BY <2>2 DEF FilesOK
    <3> QED
      BY <2>2, <3>1, FilesAssumption DEF Desc
  <2> HIDE DEF text, at
  <2>4. k \in Nat /\ k <= Len(cells) /\ at + k \in 0 .. MaxFile
    <3>1. count \in Int /\ Len(cells) \in Nat /\ MaxFile - at \in Nat
      BY <2>3, FilesAssumption
    <3>2. /\ n \in {count, Len(cells), MaxFile - at}
          /\ n <= count /\ n <= Len(cells) /\ n <= MaxFile - at
      <4>1. Len(cells) \in Int /\ MaxFile - at \in Int
        BY <3>1
      <4> QED
        BY <4>1, count \in Int, Min3, Zenon
    <3> HIDE DEF n
    <3>3. n \in Nat /\ k \in 0 .. n
      BY <2>1, <3>1, <3>2, TransferBound
    <3> QED
      BY <3>1, <3>2, <3>3, <2>3, FilesAssumption
  <2>r. k \in KernelResult
    <3>1. k \in 0 .. MaxFile
      BY <2>3, <2>4, FilesAssumption
    <3> QED
      BY <3>1, ResultRange
  <2>5. CASE k = 0
    BY <2>1, <2>5, <2>r
  <2>6. CASE k # 0
    <3> DEFINE g == [files |-> With(f.files, d.name, new(k)), fds |-> f.fds]
    <3>1. SubSeq(cells, 1, k) \in Seq(Cell) /\ Len(SubSeq(cells, 1, k)) = k
      BY <2>4
    <3>2. new(k) \in Seq(Cell) /\ Len(new(k)) <= MaxFile
      <4>1. at \in Nat
        BY <2>3, FilesAssumption
      <4>2. /\ new(k) \in Seq(Cell)
            /\ Len(new(k)) = IF Len(text) <= at + Len(SubSeq(cells, 1, k))
                             THEN at + Len(SubSeq(cells, 1, k)) ELSE Len(text)
        BY <2>3, <3>1, <4>1, OverwrittenOK, Zenon
      <4> HIDE DEF new
      <4> QED
        BY <2>3, <2>4, <3>1, <4>2, FilesAssumption
    <3> HIDE DEF new
    <3>3. FilesOK(g) /\ fd \in DOMAIN g.fds /\ g.fds = f.fds
      <4> DEFINE files == With(f.files, d.name, new(k))
      <4>1. /\ DOMAIN files = DOMAIN f.files
            /\ files = [x \in DOMAIN files |-> files[x]]
            /\ \A x \in DOMAIN files : files[x] = IF x = d.name THEN new(k) ELSE f.files[x]
        BY <2>2 DEF With
      <4> HIDE DEF files
      <4>2. \A x \in DOMAIN files :
              x \in Cell /\ Len(files[x]) <= MaxFile /\ files[x] \in Seq(Cell)
        BY <4>1, <3>2 DEF FilesOK
      <4>3. g = [files |-> files, fds |-> f.fds]
        BY DEF files
      <4> HIDE DEF g
      <4>4. f.fds = [x \in DOMAIN f.fds |-> f.fds[x]]
        BY DEF FilesOK
      <4> QED
        BY <4>1, <4>2, <4>3, <4>4, <2>2 DEF FilesOK
    <3>4. r.fs = MovedTo(g, fd, at + k) /\ r.ret = k
      BY <2>1, <2>6
    <3> HIDE DEF g
    <3> QED
      BY <3>3, <3>4, <2>4, <2>r, MovedOK
  <2> QED
    BY <2>5, <2>6
<1> QED
  BY <1>1, <1>2

-----------------------------------------------------------------------------
(* Memory as the kernel sees it.                                           *)

\* The layout in numbers.
LEMMA Layout ==
  /\ AddrSpace \in Nat /\ AddrSpace >= 2048
  /\ HostLimit \in Nat /\ GuestOffset \in Nat /\ PageSize \in Nat \ {0}
  /\ 4 * HostLimit <= AddrSpace /\ 0 < GuestOffset /\ GuestOffset < HostLimit
BY WordAssumption, PageAssumption, SyscallAssumption

\* Below the end of a range that is good up to its first bad place.
LEMMA FirstBad ==
  ASSUME NEW count \in Nat, NEW G
  PROVE  \E n \in 0 .. count :
           (\A k \in 0 .. (n - 1) : k \in G) /\ (n < count => n \notin G)
<1> DEFINE bad == {k \in 0 .. (count - 1) : k \notin G}
<1>1. CASE bad = {}
  <2>1. count \in 0 .. count /\ (\A k \in 0 .. (count - 1) : k \in G)
    BY <1>1
  <2> QED
    BY <2>1
<1>2. CASE bad # {}
  <2>1. bad \in SUBSET Nat
    OBVIOUS
  <2>2. Min(bad) \in bad /\ \A y \in bad : Min(bad) <= y
    BY <1>2, <2>1, MinOfNats
  <2> DEFINE n == Min(bad)
  <2>3. n \in 0 .. count /\ n \notin G /\ n \in Nat
    BY <2>2
  <2>4. ASSUME NEW k \in 0 .. (n - 1) PROVE k \in G
    <3>1. k \in 0 .. (count - 1) /\ k < n /\ k \in Nat
      BY <2>2, <2>3
    <3> QED
      BY <2>2, <2>3, <3>1
  <2> HIDE DEF n
  <2> QED
    BY <2>3, <2>4
<1> QED
  BY <1>1, <1>2

\* What the kernel finds of a buffer: all of its cells are mapped, and it is the
\* whole buffer or ends where the next cell is not mapped.
LEMMA HostRoomIs ==
  ASSUME NEW h \in Nat, NEW count \in Nat
  PROVE  /\ HostRoom(h, count) \in 0 .. count
         /\ \A k \in 0 .. (HostRoom(h, count) - 1) : MappedIn(pages, h + k)
         /\ HostRoom(h, count) < count => ~MappedIn(pages, h + HostRoom(h, count))
<1> DEFINE G == {k \in 0 .. count : MappedIn(pages, h + k)}
           P(n) == /\ \A k \in 0 .. (n - 1) : MappedIn(pages, h + k)
                   /\ n < count => ~MappedIn(pages, h + n)
<1>1. \E n \in 0 .. count :
        (\A k \in 0 .. (n - 1) : k \in G) /\ (n < count => n \notin G)
  <2> HIDE DEF G
  <2> QED
    BY FirstBad
<1>2. \E n \in 0 .. count : P(n)
  BY <1>1
<1>3. HostRoom(h, count) = CHOOSE n \in 0 .. count : P(n)
  BY DEF HostRoom
<1> HIDE DEF P
<1>4. HostRoom(h, count) \in 0 .. count /\ P(HostRoom(h, count))
  BY <1>2, <1>3
<1> QED
  BY <1>4 DEF P

\* A mapped address is an address of the host's user space.
LEMMA MappedBelow ==
  ASSUME NEW h \in Nat, MappedIn(pages, h)
  PROVE  h \in 0 .. (HostLimit - 1)
BY Layout DEF MappedIn

\* Translation of addresses.
LEMMA ToHostType ==
  ASSUME NEW a \in Word
  PROVE  TO_HOST(a) \in Word /\ TO_HOST(a) \in Nat /\ TO_GUEST(a) \in Word
<1>1. a + GuestOffset \in Int /\ a - GuestOffset \in Int
  BY Layout DEF Word
<1>2. TO_HOST(a) \in Word /\ TO_GUEST(a) \in Word
  BY <1>1, WrapType DEF TO_HOST, TO_GUEST
<1> QED
  BY <1>2 DEF Word

\* What a host address holds is a cell.
LEMMA AtType ==
  ASSUME TypeOK, NEW h
  PROVE  At(h) \in Cell
BY DEF At, TypeOK, Cell

\* Cells stored into a buffer that is mapped keep memory well typed.
LEMMA StoredType ==
  ASSUME TypeOK, NEW h \in Nat, NEW cells \in Seq(Cell),
         \A k \in 0 .. (Len(cells) - 1) : h + k \in 0 .. (HostLimit - 1)
  PROVE  \A x \in DOMAIN Stored(h, cells) :
           x \in 0 .. (HostLimit - 1) /\ Stored(h, cells)[x] \in Cell
<1> TAKE x \in DOMAIN Stored(h, cells)
<1>1. DOMAIN Stored(h, cells) = DOMAIN data \cup {h + k - 1 : k \in DOMAIN cells}
  BY DEF Stored
<1>2. Stored(h, cells)[x] = IF x - h + 1 \in DOMAIN cells THEN cells[x - h + 1] ELSE data[x]
  BY <1>1 DEF Stored
<1>3. DOMAIN cells = 1 .. Len(cells) /\ Len(cells) \in Nat
  OBVIOUS
<1>4. CASE x \in DOMAIN data
  <2>1. x \in 0 .. (HostLimit - 1) /\ data[x] \in Cell
    BY <1>4 DEF TypeOK
  <2>2. x - h + 1 \in DOMAIN cells => cells[x - h + 1] \in Cell
    BY <1>3
  <2> QED
    BY <1>2, <2>1, <2>2
<1>5. CASE x \notin DOMAIN data
  <2>1. PICK k \in DOMAIN cells : x = h + k - 1
    BY <1>1, <1>5
  <2>2. k \in Nat /\ k >= 1 /\ k - 1 \in 0 .. (Len(cells) - 1) /\ x = h + (k - 1)
    BY <1>3, <2>1
  <2>3. x \in 0 .. (HostLimit - 1) /\ x - h + 1 = k
    BY <2>2, Layout, SMTT(40)
  <2> QED
    BY <1>2, <1>3, <2>1, <2>3
<1> QED
  BY <1>4, <1>5

-----------------------------------------------------------------------------
(* The type invariant.                                                     *)

\* A descriptor, a flag word or a whence passed in a register is an int.
LEMMA IntType == \A v \in Word : int(v) \in Int /\ Signed(v) \in Int /\ v \in Nat
BY Layout, FilesAssumption DEF int, Signed, Word

\* The registers of a call are words.
LEMMA CallType ==
  ASSUME TypeOK
  PROVE  /\ {call.a0, call.a1, call.a2, call.a3, call.a7} \subseteq Word
         /\ NoCall \in Arguments
BY Layout DEF TypeOK, Arguments, NoCall, Word

\* Whatever the kernel returns, the guest sees one of its own results afterwards.
LEMMA ReturnsType ==
  ASSUME TypeOK, NEW v \in KernelResult, Returns(v)
  PROVE  call' \in Arguments /\ ret' \in GuestResult' /\ ctl' = "guest"
<1>1. call' \in Arguments /\ ret' = Wrap(v) /\ ctl' = "guest"
  BY CallType DEF Returns
<1>2. CASE v = -1
  <2>1. Wrap(v) = AddrSpace - 1
    BY <1>2, Layout DEF Wrap
  <2> QED
    BY <1>1, <2>1 DEF GuestResult
<1>3. CASE v # -1
  <2>1. v \in Nat /\ (v <= MaxFd \/ v <= MaxFile)
    BY <1>3, FilesAssumption DEF KernelResult
  <2>2. Wrap(v) \in Nat /\ Wrap(v) <= v
    BY <2>1, Layout DEF Wrap
  <2>3. Wrap(v) \in (0 .. MaxFile) \cup (0 .. MaxFd)
    BY <2>1, <2>2, FilesAssumption
  <2> QED
    BY <1>1, <2>3 DEF GuestResult
<1> QED
  BY <1>1, <1>2, <1>3

\* The increment that sys_brk passes to mmu_alloc is an int64_t that leads to the
\* address asked for.
LEMMA BrkExact ==
  ASSUME TypeOK
  PROVE  /\ BrkTarget \in Word /\ BrkIncr \in Int
         /\ NewBreak(BrkIncr) = BrkTarget
         /\ -AddrSpace <= 2 * BrkIncr /\ 2 * BrkIncr < AddrSpace
         /\ \/ guest_alloc + BrkIncr = BrkTarget
            \/ guest_alloc + BrkIncr = BrkTarget + AddrSpace
            \/ guest_alloc + BrkIncr = BrkTarget - AddrSpace
<1>1. guest_alloc \in Nat /\ guest_alloc < AddrSpace /\ BrkTarget \in Nat
      /\ BrkTarget < AddrSpace /\ BrkTarget \in Word
  BY CallType, Layout DEF BrkTarget, TypeOK, MmuTypeOK, Word
<1> DEFINE d == BrkTarget - guest_alloc
           w == Wrap(d)
<1>2. d \in Int /\ -AddrSpace < d /\ d < AddrSpace
  BY <1>1, Layout
<1> HIDE DEF d
<1>3. w = IF d < 0 THEN d + AddrSpace ELSE d
  BY <1>2, Layout DEF Wrap
<1>4. BrkIncr = IF 2 * w < AddrSpace THEN w ELSE w - AddrSpace
  BY DEF BrkIncr, Signed, d
<1> HIDE DEF w
<1>5. /\ BrkIncr \in Int /\ -AddrSpace <= 2 * BrkIncr /\ 2 * BrkIncr < AddrSpace
      /\ BrkIncr = d \/ BrkIncr = d + AddrSpace \/ BrkIncr = d - AddrSpace
  BY <1>2, <1>3, <1>4, Layout
<1>6. \/ guest_alloc + BrkIncr = BrkTarget
      \/ guest_alloc + BrkIncr = BrkTarget + AddrSpace
      \/ guest_alloc + BrkIncr = BrkTarget - AddrSpace
  BY <1>1, <1>2, <1>5, Layout DEF d
<1>7. NewBreak(BrkIncr) = BrkTarget
  BY <1>1, <1>6, Layout DEF NewBreak, Wrap
<1> QED
  BY <1>1, <1>5, <1>6, <1>7

\* The loaded guest is well typed.
LEMMA InitType == Init => TypeOK
<1> SUFFICES ASSUME Init PROVE TypeOK
  OBVIOUS
<1>1. /\ ImageStart \in Nat /\ ImageEnd \in Nat /\ StackSize \in Nat /\ ImageStart < ImageEnd
      /\ ImageEnd + StackSize + GuestOffset <= HostLimit
  BY SyscallAssumption
<1>2. ASSUME NEW g \in ImageStart .. (ImageEnd - 1)
      PROVE  TO_HOST(g) \in 0 .. (HostLimit - 1) /\ TO_GUEST(TO_HOST(g)) = g
  BY <1>1, Layout DEF TO_HOST, TO_GUEST, Wrap
<1>3. TO_HOST(ImageEnd + StackSize) = ImageEnd + StackSize + GuestOffset
      /\ TO_HOST(ImageStart) = ImageStart + GuestOffset
  BY <1>1, Layout DEF TO_HOST, Wrap
<1>4. MmuTypeOK
  <2>1. pages = MapAnon([p \in Page |-> Unmapped], ImageStart + GuestOffset,
                        ImageEnd + StackSize - ImageStart)
    BY <1>3 DEF Init
  <2>2. [p \in Page |-> Unmapped] \in [Page -> Frame]
    BY DEF Frame
  <2>3. ImageStart + GuestOffset \in Nat /\ ImageEnd + StackSize - ImageStart \in Nat
    BY <1>1, Layout
  <2>4. pages \in [Page -> Frame]
    <3> DEFINE h == ImageStart + GuestOffset
               n == ImageEnd + StackSize - ImageStart
               tbl == [p \in Page |-> Unmapped]
    <3> HIDE DEF h, n, tbl
    <3>1. h \in Nat /\ n \in Nat /\ tbl \in [Page -> Frame]
      BY <2>2, <2>3 DEF h, n, tbl
    <3>2. MapAnon(tbl, h, n) \in [Page -> Frame]
      BY <3>1, TableType
    <3> QED
      BY <2>1, <3>2 DEF h, n, tbl
  <2>5. {ImageStart, ImageEnd, ImageEnd + StackSize, ImageEnd + StackSize + GuestOffset}
          \subseteq Word
    BY <1>1, Layout DEF Word
  <2>6. /\ entry = ImageStart /\ base = ImageEnd /\ guest_alloc = ImageEnd + StackSize
        /\ host_alloc = ImageEnd + StackSize + GuestOffset
        /\ trimmed = FALSE /\ displaced = FALSE
    BY <1>3 DEF Init
  <2> QED
    BY <2>4, <2>5, <2>6 DEF MmuTypeOK
<1>5. FilesOK(fs)
  <2> DEFINE name(d) == <<"in", "out", "err">>[d + 1]
             flags(d) == IF d = 0 THEN {} ELSE {"WRONLY", "APPEND"}
             fds == [d \in 0 .. 2 |-> [name |-> name(d), pos |-> 0, flags |-> flags(d)]]
  <2>1. fs = [files |-> StdFiles, fds |-> fds]
    BY DEF Init
  <2>2. ASSUME NEW d \in 0 .. 2 PROVE name(d) \in DOMAIN StdFiles
    <3>1. d = 0 \/ d = 1 \/ d = 2
      OBVIOUS
    <3>2. name(d) \in {"in", "out", "err"}
      <4>1. CASE d = 0
        BY <4>1
      <4>2. CASE d = 1
        BY <4>2
      <4>3. CASE d = 2
        BY <4>3
      <4> QED
        BY <3>1, <4>1, <4>2, <4>3
    <3> QED
      BY <3>2, SyscallAssumption
  <2>3. ASSUME NEW d \in 0 .. 2 PROVE flags(d) \in SUBSET Flag
    BY DEF Flag
  <2> HIDE DEF name, flags
  <2>4. ASSUME NEW d \in 0 .. 2
        PROVE  /\ d \in 0 .. MaxFd /\ fds[d] \in Desc /\ fds[d].name \in DOMAIN StdFiles
    <3>1. name(d) \in Cell
      <4>1. \A n \in DOMAIN StdFiles : n \in Cell
        BY SyscallAssumption
      <4> QED
        BY <2>2, <4>1
    <3> QED
      BY <2>2, <2>3, <3>1, FilesAssumption DEF Desc
  <2>5. DOMAIN fds = 0 .. 2 /\ fds = [d \in DOMAIN fds |-> fds[d]]
    OBVIOUS
  <2> HIDE DEF fds
  <2> QED
    <3>1. /\ StdFiles = [n \in DOMAIN StdFiles |-> StdFiles[n]]
          /\ \A n \in DOMAIN StdFiles :
               n \in Cell /\ Len(StdFiles[n]) <= MaxFile /\ StdFiles[n] \in Seq(Cell)
      BY SyscallAssumption
    <3>2. fs.files = StdFiles /\ fs.fds = fds /\ fs = [files |-> fs.files, fds |-> fs.fds]
      BY <2>1
    <3> QED
      BY <2>4, <2>5, <3>1, <3>2 DEF FilesOK
<1>6. \A h \in DOMAIN data : h \in 0 .. (HostLimit - 1) /\ data[h] \in Cell
  <2> SUFFICES ASSUME NEW h \in DOMAIN data
               PROVE  h \in 0 .. (HostLimit - 1) /\ data[h] \in Cell
    OBVIOUS
  <2>1. /\ h \in { TO_HOST(g) : g \in DOMAIN ImageCells }
        /\ data[h] = ImageCells[TO_GUEST(h)]
    BY DEF Init
  <2>2. PICK g \in DOMAIN ImageCells : h = TO_HOST(g)
    BY <2>1
  <2>3. g \in ImageStart .. (ImageEnd - 1) /\ ImageCells[g] \in Cell
    BY SyscallAssumption
  <2> QED
    BY <1>2, <2>1, <2>2, <2>3
<1>7. call \in Arguments /\ ret \in GuestResult /\ made \in 0 .. MaxCalls /\ ctl = "guest"
  <2>1. 0 \in Word /\ MaxCalls \in Nat /\ 0 \in 0 .. MaxFile
    BY SyscallAssumption, FilesAssumption, Layout, SMTT(40) DEF Word
  <2> QED
    BY <2>1 DEF Init, NoCall, Arguments, GuestResult
<1> QED
  BY <1>4, <1>5, <1>6, <1>7 DEF TypeOK

\* A call that answers with a result of the kernel and leaves memory alone.
LEMMA ResultType ==
  ASSUME TypeOK, NEW r, FilesOK(r.fs), r.ret \in KernelResult, Result(r),
         UNCHANGED <<mmuVars, data, made>>
  PROVE  TypeOK'
<1>1. call' \in Arguments /\ ret' \in GuestResult' /\ ctl' = "guest" /\ FilesOK(fs)'
  BY ReturnsType DEF Result
<1> QED
  BY <1>1 DEF TypeOK, MmuTypeOK, mmuVars, Stopped

\* open finds a name, or nothing.
LEMMA HostOpenOK ==
  ASSUME TypeOK, NEW nameptr \in Word, NEW flags \in Word
  PROVE  /\ FilesOK(HostOpen(nameptr, flags).fs) /\ HostOpen(nameptr, flags).ret \in KernelResult
         /\ DOMAIN fs.fds \subseteq DOMAIN HostOpen(nameptr, flags).fs.fds
<1>1. FilesOK(fs)
  BY DEF TypeOK
<1>2. CASE MappedIn(pages, TO_HOST(nameptr))
  <2> DEFINE name == At(TO_HOST(nameptr))
             meaning == HostMeaning(convert_flags(flags))
  <2>1. name \in Cell /\ meaning \in SUBSET Flag
    BY AtType DEF HostMeaning
  <2>2. HostOpen(nameptr, flags) = Open(fs, name, meaning)
    BY <1>2 DEF HostOpen
  <2> HIDE DEF name, meaning
  <2> QED
    BY <1>1, <2>1, <2>2, OpenOK
<1>3. CASE ~MappedIn(pages, TO_HOST(nameptr))
  BY <1>1, <1>3, FailOK DEF HostOpen
<1> QED
  BY <1>2, <1>3

\* The buffer of a write, as far as it is mapped.
LEMMA BufferType ==
  ASSUME TypeOK, NEW h \in Nat, NEW count \in Nat
  PROVE  /\ [k \in 1 .. HostRoom(h, count) |-> At(h + k - 1)] \in Seq(Cell)
         /\ Len([k \in 1 .. HostRoom(h, count) |-> At(h + k - 1)]) = HostRoom(h, count)
<1>1. HostRoom(h, count) \in Nat
  BY HostRoomIs
<1>2. \A k \in 1 .. HostRoom(h, count) : At(h + k - 1) \in Cell
  BY AtType
<1> QED
  BY <1>1, <1>2

\* What sys_read may get from the kernel.
HostReads(buf) ==
  IF InRange(buf, call.a2) THEN Reads(fs, int(call.a0), call.a2, HostRoom(buf, call.a2))
  ELSE {Fail(fs)}

\* read stores no more than the kernel finds room for.
LEMMA HostReadsOK ==
  ASSUME TypeOK, NEW r \in HostReads(TO_HOST(call.a1))
  PROVE  /\ FilesOK(r.fs) /\ r.ret \in KernelResult /\ DOMAIN r.fs.fds = DOMAIN fs.fds
         /\ r.cells \in Seq(Cell) /\ Len(r.cells) <= HostRoom(TO_HOST(call.a1), call.a2)
         /\ \A k \in 0 .. (Len(r.cells) - 1) : MappedIn(pages, TO_HOST(call.a1) + k)
<1> DEFINE buf == TO_HOST(call.a1)
           room == HostRoom(buf, call.a2)
<1>1. buf \in Nat /\ call.a2 \in Nat /\ int(call.a0) \in Int
  BY CallType, ToHostType, IntType
<1>2. room \in Nat /\ \A k \in 0 .. (room - 1) : MappedIn(pages, buf + k)
  <2>1. room \in 0 .. call.a2 /\ \A k \in 0 .. (room - 1) : MappedIn(pages, buf + k)
    BY <1>1, HostRoomIs, Zenon
  <2> QED
    BY <1>1, <2>1
<1>3. FilesOK(fs)
  BY DEF TypeOK
<1> HIDE DEF room
<1>4. /\ FilesOK(r.fs) /\ r.ret \in KernelResult /\ DOMAIN r.fs.fds = DOMAIN fs.fds
      /\ r.cells \in Seq(Cell) /\ Len(r.cells) <= room
  <2>1. CASE InRange(buf, call.a2)
    <3>1. r \in Reads(fs, int(call.a0), call.a2, room)
      BY <2>1 DEF HostReads, room
    <3> QED
      BY <1>1, <1>2, <1>3, <3>1, ReadsOK
  <2>2. CASE ~InRange(buf, call.a2)
    <3>1. r = Fail(fs)
      BY <2>2 DEF HostReads
    <3>2. << >> \in Seq(Cell) /\ Len(<< >>) <= room
      BY <1>2
    <3> QED
      BY <1>3, <3>1, <3>2, FailOK
  <2> QED
    BY <2>1, <2>2
<1>5. \A k \in 0 .. (Len(r.cells) - 1) : MappedIn(pages, buf + k)
  BY <1>2, <1>4
<1> QED
  BY <1>4, <1>5 DEF room

\* What sys_write may get from the kernel.
HostWrites(buf) ==
  IF InRange(buf, call.a2)
  THEN Writes(fs, int(call.a0), call.a2,
              [k \in 1 .. HostRoom(buf, call.a2) |-> At(buf + k - 1)])
  ELSE {Fail(fs)}

LEMMA HostWritesOK ==
  ASSUME TypeOK, NEW r \in HostWrites(TO_HOST(call.a1))
  PROVE  FilesOK(r.fs) /\ r.ret \in KernelResult /\ DOMAIN r.fs.fds = DOMAIN fs.fds
<1> DEFINE buf == TO_HOST(call.a1)
           cells == [k \in 1 .. HostRoom(buf, call.a2) |-> At(buf + k - 1)]
<1>1. buf \in Nat /\ call.a2 \in Nat /\ int(call.a0) \in Int
  BY CallType, ToHostType, IntType
<1>2. cells \in Seq(Cell)
  BY <1>1, BufferType
<1>3. FilesOK(fs)
  BY DEF TypeOK
<1> HIDE DEF cells
<1>4. CASE InRange(buf, call.a2)
  <2>1. r \in Writes(fs, int(call.a0), call.a2, cells)
    BY <1>4 DEF HostWrites, cells
  <2> QED
    BY <1>1, <1>2, <1>3, <2>1, WritesOK
<1>5. CASE ~InRange(buf, call.a2)
  <2>1. r = Fail(fs)
    BY <1>5 DEF HostWrites
  <2> QED
    BY <1>3, <2>1, FailOK
<1> QED
  BY <1>4, <1>5

\* The calls in terms of these results.
LEMMA ReadStep ==
  ASSUME sys_read
  PROVE  \E r \in HostReads(TO_HOST(call.a1)) :
           /\ Runs("sys_read") /\ Result(r) /\ data' = Stored(TO_HOST(call.a1), r.cells)
           /\ UNCHANGED <<mmuVars, made>>
BY Zenon DEF sys_read, HostReads

LEMMA WriteStep ==
  ASSUME sys_write
  PROVE  \E r \in HostWrites(TO_HOST(call.a1)) :
           Runs("sys_write") /\ Result(r) /\ UNCHANGED <<mmuVars, data, made>>
BY Zenon DEF sys_write, HostWrites

\* The next-state relation, disjunct by disjunct.
LEMMA NextCases ==
  ASSUME Next
  PROVE  \/ Ecall \/ sys_read \/ sys_write \/ sys_openat \/ sys_open \/ sys_close \/ sys_lseek
         \/ sys_fstat \/ sys_gettimeofday \/ sys_brk \/ BrkStops \/ sys_exit \/ SyscallFatal
         \/ Terminated
BY DEF Next

\* Every call keeps the types.
LEMMA StepType == TypeOK /\ [Next]_vars => TypeOK'
<1> SUFFICES ASSUME TypeOK, [Next]_vars
             PROVE  TypeOK'
  OBVIOUS
<1>f. FilesOK(fs) /\ MmuTypeOK
  BY DEF TypeOK
<1>c. /\ {call.a0, call.a1, call.a2, call.a3, call.a7} \subseteq Word
      /\ \A v \in Word : int(v) \in Int /\ Signed(v) \in Int /\ v \in Nat
  BY CallType, IntType
<1>1. CASE Ecall
  <2>1. call' \in Arguments /\ made' \in 0 .. MaxCalls /\ ret' \in GuestResult' /\ ctl' = "ecall"
    <3>1. 0 \in 0 .. MaxFile /\ made \in 0 .. MaxCalls /\ MaxCalls \in Nat
      BY FilesAssumption, SyscallAssumption DEF TypeOK
    <3> QED
      BY <1>1, <3>1, SyscallAssumption DEF Ecall, GuestResult
  <2> QED
    BY <1>1, <2>1 DEF Ecall, TypeOK, MmuTypeOK, mmuVars
<1>2. CASE sys_read
  <2> DEFINE buf == TO_HOST(call.a1)
  <2>1. PICK r \in HostReads(buf) :
          /\ Runs("sys_read") /\ Result(r) /\ data' = Stored(buf, r.cells)
          /\ UNCHANGED <<mmuVars, made>>
    BY <1>2, ReadStep
  <2>2. /\ FilesOK(r.fs) /\ r.ret \in KernelResult /\ r.cells \in Seq(Cell)
        /\ \A k \in 0 .. (Len(r.cells) - 1) : MappedIn(pages, buf + k)
    BY HostReadsOK
  <2>3. buf \in Nat
    BY <1>c, ToHostType
  <2> HIDE DEF buf
  <2>4. \A k \in 0 .. (Len(r.cells) - 1) : buf + k \in 0 .. (HostLimit - 1)
    BY <2>2, <2>3, MappedBelow
  <2>5. \A x \in DOMAIN Stored(buf, r.cells) :
          x \in 0 .. (HostLimit - 1) /\ Stored(buf, r.cells)[x] \in Cell
    BY <2>2, <2>3, <2>4, StoredType
  <2>6. call' \in Arguments /\ ret' \in GuestResult' /\ ctl' = "guest" /\ FilesOK(fs)'
    BY <2>1, <2>2, ReturnsType DEF Result
  <2> QED
    BY <2>1, <2>5, <2>6 DEF TypeOK, MmuTypeOK, mmuVars
<1>3. CASE sys_write
  <2>1. PICK r \in HostWrites(TO_HOST(call.a1)) :
          Runs("sys_write") /\ Result(r) /\ UNCHANGED <<mmuVars, data, made>>
    BY <1>3, WriteStep
  <2> QED
    BY <2>1, HostWritesOK, ResultType
<1>4. CASE sys_openat
  <2> DEFINE r == IF int(call.a0) = AT_FDCWD THEN HostOpen(call.a1, call.a2) ELSE Fail(fs)
  <2>1. Result(r) /\ UNCHANGED <<mmuVars, data, made>>
    BY <1>4 DEF sys_openat
  <2>2. FilesOK(r.fs) /\ r.ret \in KernelResult
    BY <1>f, <1>c, HostOpenOK, FailOK
  <2> HIDE DEF r
  <2> QED
    BY <2>1, <2>2, ResultType
<1>5. CASE sys_open
  <2> DEFINE r == HostOpen(call.a0, call.a1)
  <2>1. Result(r) /\ UNCHANGED <<mmuVars, data, made>>
    BY <1>5 DEF sys_open
  <2>2. FilesOK(r.fs) /\ r.ret \in KernelResult
    BY <1>c, HostOpenOK
  <2> HIDE DEF r
  <2> QED
    BY <2>1, <2>2, ResultType
<1>6. CASE sys_close
  <2>1. CASE call.a0 > 2
    <3>1. Result(Close(fs, int(call.a0))) /\ UNCHANGED <<mmuVars, data, made>>
      BY <1>6, <2>1 DEF sys_close
    <3>2. FilesOK(Close(fs, int(call.a0)).fs) /\ Close(fs, int(call.a0)).ret \in KernelResult
      BY <1>f, <1>c, CloseOK
    <3> QED
      BY <3>1, <3>2, ResultType
  <2>2. CASE ~(call.a0 > 2)
    <3>1. Returns(0) /\ UNCHANGED <<mmuVars, fs, data, made>>
      BY <1>6, <2>2 DEF sys_close
    <3>2. call' \in Arguments /\ ret' \in GuestResult' /\ ctl' = "guest"
      BY <3>1, ReturnsType, ResultRange
    <3> QED
      BY <3>1, <3>2 DEF TypeOK, MmuTypeOK, mmuVars
  <2> QED
    BY <2>1, <2>2
<1>7. CASE sys_lseek
  <2> DEFINE r == Seek(fs, int(call.a0), Signed(call.a1), int(call.a2))
  <2>1. Result(r) /\ UNCHANGED <<mmuVars, data, made>>
    BY <1>7 DEF sys_lseek
  <2>2. FilesOK(r.fs) /\ r.ret \in KernelResult
    BY <1>f, <1>c, SeekOK
  <2> HIDE DEF r
  <2> QED
    BY <2>1, <2>2, ResultType
<1>8. CASE sys_fstat
  <2>1. call' \in Arguments /\ ret' \in GuestResult' /\ ctl' = "guest"
    BY <1>8, ReturnsType, ResultRange DEF sys_fstat
  <2>2. \A x \in DOMAIN data' : x \in 0 .. (HostLimit - 1) /\ data'[x] \in Cell
    <3> DEFINE h == TO_HOST(call.a1)
    <3>1. CASE data' = Stored(h, <<Stat>>) /\ MappedIn(pages, h)
      <4>1. h \in Nat
        BY <1>c, ToHostType
      <4>2. h \in 0 .. (HostLimit - 1)
        BY <3>1, <4>1, MappedBelow
      <4>3. <<Stat>> \in Seq(Cell) /\ Len(<<Stat>>) = 1
        BY DEF Cell
      <4> HIDE DEF h
      <4>4. \A k \in 0 .. (Len(<<Stat>>) - 1) : h + k \in 0 .. (HostLimit - 1)
        BY <4>2, <4>3, Layout
      <4> QED
        BY <3>1, <4>1, <4>3, <4>4, StoredType
    <3>2. CASE data' = data
      BY <3>2 DEF TypeOK
    <3> QED
      BY <1>8, <3>1, <3>2 DEF sys_fstat
  <2> QED
    BY <1>8, <2>1, <2>2 DEF sys_fstat, TypeOK, MmuTypeOK, mmuVars
<1>9. CASE sys_gettimeofday
  <2> DEFINE tv == TO_HOST(call.a0)
             tz == IF call.a1 # 0 THEN TO_HOST(call.a1) ELSE 0
             Good(p) == p = 0 \/ MappedIn(pages, p)
             timeval == {p \in {tv} : p # 0 /\ Good(p)}
             timezone == {p \in {tz} : p # 0 /\ Good(p) /\ Good(tv)}
  <2>1. /\ data' = [x \in timezone \cup timeval \cup DOMAIN data |->
                      IF x \in timezone THEN Zone ELSE IF x \in timeval THEN Time ELSE data[x]]
        /\ UNCHANGED <<mmuVars, fs, made>>
        /\ \/ Returns(0) \/ Returns(-1)
           \/ ctl' = "crashed" /\ UNCHANGED <<call, ret>>
    BY <1>9, Zenon DEF sys_gettimeofday
  <2>2. tv \in Nat /\ tz \in Nat
    BY <1>c, ToHostType
  <2>3. \A x \in timezone \cup timeval : x \in 0 .. (HostLimit - 1)
    BY <2>2, MappedBelow
  <2> HIDE DEF timezone, timeval
  <2>4. \A x \in DOMAIN data' : x \in 0 .. (HostLimit - 1) /\ data'[x] \in Cell
    BY <2>1, <2>3 DEF TypeOK, Cell
  <2>5. call' \in Arguments /\ ret' \in GuestResult' /\ ctl' \in {"guest", "crashed"}
    <3>1. CASE Returns(0) \/ Returns(-1)
      BY <3>1, ReturnsType, ResultRange
    <3>2. CASE ctl' = "crashed" /\ UNCHANGED <<call, ret>>
      BY <2>1, <3>2 DEF TypeOK, GuestResult, mmuVars
    <3> QED
      BY <2>1, <3>1, <3>2
  <2> QED
    BY <2>1, <2>4, <2>5 DEF TypeOK, MmuTypeOK, mmuVars, Stopped
<1>10. CASE sys_brk
  <2>1. BrkTarget \in Word /\ BrkTarget \in Int /\ BrkIncr \in Int
    BY BrkExact DEF Word
  <2>2. MmuTypeOK'
    BY <1>10, <1>f, <2>1, AllocType DEF sys_brk
  <2>3. call' \in Arguments /\ ret' \in GuestResult' /\ ctl' = "guest"
    <3>1. call' = NoCall /\ ret' = Wrap(BrkTarget) /\ ctl' = "guest"
      BY <1>10 DEF sys_brk, Returns
    <3>2. Wrap(BrkTarget) = BrkTarget
      BY <2>1, Layout DEF Wrap, Word
    <3>3. guest_alloc' = BrkTarget
      BY <1>10, BrkExact DEF sys_brk, mmu_alloc, AllocWithin, AllocGrow, AllocShrink
    <3> QED
      BY <3>1, <3>2, <3>3, CallType DEF GuestResult
  <2>4. \A x \in DOMAIN data' : x \in 0 .. (HostLimit - 1) /\ data'[x] \in Cell
    BY <1>10 DEF sys_brk, TypeOK
  <2> QED
    BY <1>10, <2>2, <2>3, <2>4 DEF sys_brk, TypeOK
<1>11. CASE BrkStops \/ sys_exit \/ SyscallFatal
  BY <1>11 DEF BrkStops, sys_exit, SyscallFatal, TypeOK, MmuTypeOK, mmuVars, Stopped,
              GuestResult
<1>12. CASE Terminated \/ UNCHANGED vars
  BY <1>12 DEF Terminated, vars, TypeOK, MmuTypeOK, mmuVars, GuestResult
<1> QED
  BY <1>1, <1>2, <1>3, <1>4, <1>5, <1>6, <1>7, <1>8, <1>9, <1>10, <1>11, <1>12, NextCases

\* Every variable keeps its type, for any calls: a result is a count, a position, a
\* descriptor, the break or the 64-bit -1, files stay within their size, and no
\* descriptor outlives its file.
THEOREM TypesKept == Spec => []TypeOK
BY InitType, StepType, PTL DEF Spec

\* do_syscall never reads past the end of one of its tables, for any number.
THEOREM TablesSafe == Spec => []TablesInBounds
<1>1. TypeOK => TablesInBounds
  BY CallType, HandlerNumbers DEF TablesInBounds
<1> QED
  BY <1>1, TypesKept, PTL

-----------------------------------------------------------------------------
(* The standard descriptors.                                               *)

\* sys_close passes on to close(2) no int that is a standard descriptor.
LEMMA CloseSpares ==
  ASSUME NEW a \in Nat, a > 2, a < IntSpace
  PROVE  int(a) \notin 0 .. 2
BY FilesAssumption DEF int

\* A step takes a standard descriptor away only when sys_close is given a number that
\* is no int.
LEMMA StdioStep ==
  ASSUME TypeOK, [Next]_vars
  PROVE  \/ (0 .. 2) \cap DOMAIN fs.fds \subseteq DOMAIN fs'.fds
         \/ call.a7 = 57 /\ call.a0 >= IntSpace
<1>f. FilesOK(fs) /\ IntSpace \in Nat
  BY FilesAssumption DEF TypeOK
<1>c. /\ {call.a0, call.a1, call.a2, call.a3, call.a7} \subseteq Word
      /\ \A v \in Word : int(v) \in Int /\ Signed(v) \in Int /\ v \in Nat
  BY CallType, IntType
<1>1. CASE sys_read
  BY <1>1, ReadStep, HostReadsOK DEF Result
<1>2. CASE sys_write
  BY <1>2, WriteStep, HostWritesOK DEF Result
<1>3. CASE sys_openat
  <2> DEFINE r == IF int(call.a0) = AT_FDCWD THEN HostOpen(call.a1, call.a2) ELSE Fail(fs)
  <2>1. fs' = r.fs
    BY <1>3 DEF sys_openat, Result
  <2>2. DOMAIN fs.fds \subseteq DOMAIN r.fs.fds
    BY <1>f, <1>c, HostOpenOK, FailOK
  <2> HIDE DEF r
  <2> QED
    BY <2>1, <2>2
<1>4. CASE sys_open
  BY <1>4, <1>c, HostOpenOK DEF sys_open, Result
<1>5. CASE sys_close
  <2>1. CASE call.a0 > 2
    <3>1. fs' = Close(fs, int(call.a0)).fs /\ Runs("sys_close")
      BY <1>5, <2>1 DEF sys_close, Result
    <3>2. call.a7 = 57
      BY <1>c, <3>1, HandlerNumbers DEF Runs
    <3>3. DOMAIN fs.fds \ {int(call.a0)} \subseteq DOMAIN Close(fs, int(call.a0)).fs.fds
      BY <1>f, <1>c, CloseOK
    <3>4. call.a0 < IntSpace => int(call.a0) \notin 0 .. 2
      BY <1>c, <2>1, CloseSpares
    <3> QED
      BY <1>f, <1>c, <3>1, <3>2, <3>3, <3>4
  <2>2. CASE ~(call.a0 > 2)
    BY <1>5, <2>2 DEF sys_close
  <2> QED
    BY <2>1, <2>2
<1>6. CASE sys_lseek
  <2> DEFINE r == Seek(fs, int(call.a0), Signed(call.a1), int(call.a2))
  <2>1. fs' = r.fs
    BY <1>6 DEF sys_lseek, Result
  <2>2. DOMAIN r.fs.fds = DOMAIN fs.fds
    BY <1>f, <1>c, SeekOK
  <2> HIDE DEF r
  <2> QED
    BY <2>1, <2>2
<1>7. CASE Ecall \/ sys_fstat \/ sys_brk \/ BrkStops \/ sys_exit \/ SyscallFatal
  BY <1>7 DEF Ecall, sys_fstat, sys_brk, BrkStops, sys_exit, SyscallFatal
<1>8. CASE sys_gettimeofday
  BY <1>8, Zenon DEF sys_gettimeofday
<1>9. CASE Terminated \/ UNCHANGED vars
  BY <1>9 DEF Terminated, vars
<1> QED
  BY <1>1, <1>2, <1>3, <1>4, <1>5, <1>6, <1>7, <1>8, <1>9, NextCases

\* No sequence of calls closes a descriptor that the emulator shares with the guest,
\* but for the calls of close with a number that is no int.
THEOREM StdioKept == Spec => StdioStaysOpen
<1>1. TypeOK /\ [Next]_vars =>
        [\/ (0 .. 2) \cap DOMAIN fs.fds \subseteq DOMAIN fs'.fds
         \/ call.a7 = 57 /\ call.a0 >= IntSpace]_vars
  BY StdioStep
<1> QED
  BY <1>1, TypesKept, PTL DEF Spec, StdioStaysOpen

-----------------------------------------------------------------------------
(* The break.                                                              *)

\* A word that is one turn out of range wraps into it.
LEMMA WrapCases ==
  ASSUME NEW x \in Int, -AddrSpace <= x, x < 2 * AddrSpace
  PROVE  Wrap(x) = IF x < 0 THEN x + AddrSpace ELSE IF x < AddrSpace THEN x ELSE x - AddrSpace
BY Layout DEF Wrap

\* host_alloc and its guest address move together, however they wrap around.
LEMMA MovesTogether ==
  ASSUME NEW h \in Word, NEW n \in Int, -AddrSpace < n, n < AddrSpace
  PROVE  TO_GUEST(Wrap(h + n)) = Wrap(TO_GUEST(h) + n)
<1>0. h \in Nat /\ h < AddrSpace /\ AddrSpace \in Nat /\ GuestOffset \in Nat
      /\ GuestOffset < AddrSpace
  BY Layout DEF Word
<1> DEFINE w == Wrap(h + n)
           g == TO_GUEST(h)
<1>1. w = IF h + n < 0 THEN h + n + AddrSpace ELSE IF h + n < AddrSpace THEN h + n
          ELSE h + n - AddrSpace
  BY <1>0, WrapCases
<1>2. g = IF h - GuestOffset < 0 THEN h - GuestOffset + AddrSpace ELSE h - GuestOffset
  BY <1>0, WrapCases DEF TO_GUEST
<1> HIDE DEF w, g
<1>3. w \in Nat /\ w < AddrSpace /\ g \in Nat /\ g < AddrSpace
  BY <1>0, <1>1, <1>2
<1>4. Wrap(w - GuestOffset) =
        IF w - GuestOffset < 0 THEN w - GuestOffset + AddrSpace ELSE w - GuestOffset
  BY <1>0, <1>3, WrapCases
<1>5. Wrap(g + n) = IF g + n < 0 THEN g + n + AddrSpace ELSE IF g + n < AddrSpace THEN g + n
                    ELSE g + n - AddrSpace
  BY <1>0, <1>3, WrapCases
<1>6. Wrap(w - GuestOffset) = Wrap(g + n)
  BY <1>0, <1>1, <1>2, <1>3, <1>4, <1>5
<1> QED
  BY <1>6 DEF TO_GUEST, w, g

\* Where brk leaves the break and the end of the area, when the address asked for is
\* in the lower half and the break was inside the area.
LEMMA BreakStaysInside ==
  ASSUME TypeOK, mmu_alloc(BrkIncr), 2 * call.a0 < AddrSpace,
         guest_alloc <= TO_GUEST(host_alloc)
  PROVE  guest_alloc' <= TO_GUEST(host_alloc')
<1> DEFINE G == TO_GUEST(host_alloc)
           target == BrkTarget
           incr == BrkIncr
<1>1. /\ host_alloc \in Word /\ G \in Nat /\ G < AddrSpace
      /\ guest_alloc \in Nat /\ guest_alloc < AddrSpace
  BY ToHostType, Layout DEF TypeOK, MmuTypeOK, Word
<1>2. /\ target \in Nat /\ target < AddrSpace /\ incr \in Int
      /\ NewBreak(incr) = target
      /\ -AddrSpace <= 2 * incr /\ 2 * incr < AddrSpace
      /\ \/ guest_alloc + incr = target
         \/ guest_alloc + incr = target + AddrSpace
         \/ guest_alloc + incr = target - AddrSpace
  BY BrkExact, Layout DEF Word
<1>3. target = guest_alloc \/ 2 * target < AddrSpace
  BY DEF BrkTarget
<1>4. PageSize \in Nat /\ 4 * PageSize <= AddrSpace
  BY PageFits, Layout
<1>5. guest_alloc' = target
  BY <1>2, Zenon DEF mmu_alloc, AllocWithin, AllocGrow, AllocShrink
<1> HIDE DEF G, target, incr
<1>6. CASE AllocWithin(incr)
  <2>1. host_alloc' = host_alloc /\ (incr > 0 => ~(target > G))
    BY <1>2, <1>6 DEF AllocWithin, Grows, G
  <2>2. target <= G
    BY <1>1, <1>2, <1>3, <2>1, Layout DEF G
  <2> QED
    BY <1>5, <2>1, <2>2 DEF G
<1>7. CASE AllocGrow(incr)
  <2> DEFINE n == ROUNDUP(incr, PageSize)
  <2>1. incr > 0 /\ target > G /\ n <= HostLimit /\ host_alloc' = Wrap(host_alloc + n)
    <3>1. n \in Int
      BY <1>2, RoundUpType DEF Word
    <3> HIDE DEF n
    <3>2. Grows(incr) /\ InUserSpace(0, n) /\ host_alloc' = Wrap(host_alloc + n)
      BY <1>7, Zenon DEF AllocGrow, n
    <3> QED
      BY <1>2, <3>1, <3>2, Layout DEF Grows, InUserSpace, G
  <2>2. n \in Nat /\ incr <= n
    BY <1>2, <1>4, <2>1, RoundUp, Layout DEF Word
  <2> HIDE DEF n
  <2>3. guest_alloc + incr = target /\ 2 * target < AddrSpace
    BY <1>1, <1>2, <1>3, <2>1, Layout DEF G
  <2>4. n < AddrSpace
    BY <2>1, <2>2, Layout
  <2>5. TO_GUEST(host_alloc') = Wrap(G + n)
    BY <1>1, <2>1, <2>2, <2>4, MovesTogether, Layout DEF G
  <2>6. G + n < AddrSpace /\ G + n >= target
    BY <1>1, <1>2, <2>1, <2>2, <2>3, Layout DEF G
  <2>7. Wrap(G + n) = G + n
    BY <1>1, <2>2, <2>6, WrapCases, Layout
  <2> QED
    BY <1>5, <2>5, <2>6, <2>7
<1>8. CASE AllocShrink(incr)
  <2> DEFINE R == ROUNDUP(target, PageSize)
             n == Wrap(G - R)
  <2>1. R < G /\ host_alloc' = Wrap(host_alloc - n) /\ incr < 0
    BY <1>2, <1>8 DEF AllocShrink, Shrinks, G
  <2>2. 2 * target < AddrSpace
    BY <1>1, <1>2, <1>3, <2>1, Layout DEF G
  <2>3. R \in Nat /\ target <= R
    BY <1>2, <1>4, <2>2, RoundUp, Layout DEF Word
  <2>4. n = G - R
    BY <1>1, <2>1, <2>3, WrapCases, Layout
  <2> HIDE DEF R, n
  <2>5. TO_GUEST(host_alloc') = Wrap(G + (-n))
    <3>1. -n \in Int /\ -AddrSpace < -n /\ -n < AddrSpace /\ host_alloc - n = host_alloc + (-n)
      BY <1>1, <2>1, <2>3, <2>4, Layout DEF Word
    <3> QED
      BY <1>1, <2>1, <3>1, MovesTogether DEF G
  <2>6. Wrap(G + (-n)) = R
    <3>1. G + (-n) = R /\ R < AddrSpace
      BY <1>1, <2>1, <2>3, <2>4, Layout
    <3> QED
      BY <2>3, <3>1, WrapCases, Layout
  <2> QED
    BY <1>5, <2>3, <2>5, <2>6
<1> QED
  BY <1>6, <1>7, <1>8 DEF mmu_alloc, incr

\* Only brk changes the memory map.
LEMMA OnlyBrkMaps == Next => sys_brk \/ UNCHANGED mmuVars
<1>1. sys_gettimeofday => UNCHANGED mmuVars
  BY Zenon DEF sys_gettimeofday
<1>2. sys_read => UNCHANGED mmuVars
  BY ReadStep
<1>3. sys_write => UNCHANGED mmuVars
  BY WriteStep
<1> QED
  BY <1>1, <1>2, <1>3, NextCases DEF Ecall, sys_openat, sys_open, sys_close,
     sys_lseek, sys_fstat, BrkStops, sys_exit, SyscallFatal, Terminated, vars

\* The break leaves the area that host_alloc ends only by a call of brk with an
\* address of the upper half, for any sizes and page size.
THEOREM EscapesByWrap == Spec => EscapesOnlyByWrap
<1>1. ASSUME TypeOK, Next, guest_alloc <= TO_GUEST(host_alloc),
             guest_alloc' > TO_GUEST(host_alloc')
      PROVE  call.a7 = 214 /\ 2 * call.a0 >= AddrSpace
  <2>1. guest_alloc' \in Int /\ TO_GUEST(host_alloc') \in Int /\ guest_alloc \in Int
        /\ call.a0 \in Nat /\ call.a7 \in Word
    <3>1. TypeOK'
      BY <1>1, StepType
    <3>2. guest_alloc' \in Word /\ host_alloc' \in Word
      BY <3>1 DEF TypeOK, MmuTypeOK
    <3> QED
      BY <1>1, <3>2, ToHostType, CallType DEF TypeOK, MmuTypeOK, Word
  <2>2. CASE sys_brk
    <3>1. mmu_alloc(BrkIncr) /\ do_syscall(call.a7) = "sys_brk"
      BY <2>2 DEF sys_brk, Runs
    <3>2. call.a7 = 214
      BY <2>1, <3>1, HandlerNumbers
    <3>3. ~(2 * call.a0 < AddrSpace)
      BY <1>1, <2>1, <3>1, BreakStaysInside
    <3> QED
      BY <2>1, <3>2, <3>3, Layout
  <2>3. CASE UNCHANGED mmuVars
    BY <1>1, <2>1, <2>3 DEF mmuVars
  <2>4. sys_brk \/ UNCHANGED mmuVars
    BY <1>1, OnlyBrkMaps
  <2> QED
    BY <2>2, <2>3, <2>4
<1>2. TypeOK /\ [Next]_vars =>
        [/\ guest_alloc <= TO_GUEST(host_alloc)
         /\ guest_alloc' > TO_GUEST(host_alloc')
         => call.a7 = 214 /\ 2 * call.a0 >= AddrSpace]_vars
  BY <1>1
<1> QED
  BY <1>2, TypesKept, PTL DEF Spec, EscapesOnlyByWrap

-----------------------------------------------------------------------------
(* What the calls promise.  The promise speaks of the same kernel, so its  *)
(* operators on files are this module's.                                   *)

LEMMA SameArithmetic ==
  ASSUME NEW v
  PROVE  Promise!int(v) = int(v) /\ Promise!Wrap(v) = Wrap(v) /\ Promise!Signed(v) = Signed(v)
BY DEF Promise!int, int, Promise!Wrap, Wrap, Promise!Signed, Signed

LEMMA SameCalls ==
  ASSUME NEW f, NEW fd, NEW x, NEW y
  PROVE  /\ Promise!Fail(f) = Fail(f)
         /\ Promise!Open(f, x, y) = Open(f, x, y)
         /\ Promise!Close(f, fd) = Close(f, fd)
         /\ Promise!Seek(f, fd, x, y) = Seek(f, fd, x, y)
         /\ Promise!Reads(f, fd, x, y) = Reads(f, fd, x, y)
         /\ Promise!Writes(f, fd, x, y) = Writes(f, fd, x, y)
<1>1. /\ \A S : Promise!Min(S) = Min(S) /\ Promise!Max(S) = Max(S)
      /\ \A g, z, v : Promise!With(g, z, v) = With(g, z, v)
      /\ Promise!Fail(f) = Fail(f)
  BY Zenon DEF Promise!Min, Min, Promise!Max, Max, Promise!With, With, Promise!Fail, Fail
<1>2. \A g, p : Promise!MovedTo(g, fd, p) = MovedTo(g, fd, p)
  BY <1>1, Zenon DEF Promise!MovedTo, MovedTo
<1>3. Promise!Readable(f, fd) = Readable(f, fd) /\ Promise!Writable(f, fd) = Writable(f, fd)
  BY Zenon DEF Promise!Readable, Readable, Promise!Writable, Writable
<1>4. \A n : Promise!Transfer(n) = Transfer(n)
  BY Zenon DEF Promise!Transfer, Transfer
<1>5. Promise!Open(f, x, y) = Open(f, x, y)
  BY <1>1, Zenon DEF Promise!Open, Open
<1>6. Promise!Close(f, fd) = Close(f, fd)
  BY <1>1, Zenon DEF Promise!Close, Close
<1>7. Promise!Seek(f, fd, x, y) = Seek(f, fd, x, y)
  BY <1>1, <1>2, Zenon DEF Promise!Seek, Seek
<1>8. Promise!Reads(f, fd, x, y) = Reads(f, fd, x, y)
  BY <1>1, <1>2, <1>3, <1>4, Zenon DEF Promise!Reads, Reads
<1>9. Promise!Writes(f, fd, x, y) = Writes(f, fd, x, y)
  BY Zenon DEF Promise!Writes, Writes, Promise!Writable, Writable, Promise!Fail, Fail,
     Promise!Overwritten, Overwritten, Promise!MovedTo, MovedTo, Promise!With, With,
     Promise!Transfer, Transfer, Promise!Min, Min, Promise!Max, Max, Promise!Nul, Nul
<1> QED
  BY <1>1, <1>5, <1>6, <1>7, <1>8, <1>9

\* Addresses translate back and forth.
LEMMA RoundTrip ==
  ASSUME NEW a \in Word
  PROVE  TO_GUEST(TO_HOST(a)) = a /\ TO_HOST(TO_GUEST(a)) = a
<1>0. a \in Nat /\ a < AddrSpace /\ GuestOffset < AddrSpace /\ GuestOffset \in Nat /\ AddrSpace \in Nat
  BY Layout DEF Word
<1>1. TO_HOST(a) = IF a + GuestOffset < AddrSpace THEN a + GuestOffset
                   ELSE a + GuestOffset - AddrSpace
  BY <1>0, WrapCases DEF TO_HOST
<1>2. TO_GUEST(a) = IF a < GuestOffset THEN a - GuestOffset + AddrSpace ELSE a - GuestOffset
  BY <1>0, WrapCases DEF TO_GUEST
<1>3. TO_GUEST(TO_HOST(a)) = a
  <2> DEFINE h == TO_HOST(a)
  <2> HIDE DEF h
  <2>1. h \in Int /\ -AddrSpace <= h - GuestOffset /\ h - GuestOffset < AddrSpace
    BY <1>0, <1>1 DEF h
  <2>2. TO_GUEST(h) = IF h - GuestOffset < 0 THEN h - GuestOffset + AddrSpace
                      ELSE h - GuestOffset
    BY <1>0, <2>1, WrapCases DEF TO_GUEST
  <2> QED
    BY <1>0, <1>1, <2>1, <2>2 DEF h
<1>4. TO_HOST(TO_GUEST(a)) = a
  <2> DEFINE g == TO_GUEST(a)
  <2> HIDE DEF g
  <2>1. g \in Int /\ 0 <= g + GuestOffset /\ g + GuestOffset < 2 * AddrSpace
    BY <1>0, <1>2 DEF g
  <2>2. TO_HOST(g) = IF g + GuestOffset < AddrSpace THEN g + GuestOffset
                     ELSE g + GuestOffset - AddrSpace
    BY <1>0, <2>1, WrapCases DEF TO_HOST
  <2> QED
    BY <1>0, <1>2, <2>1, <2>2 DEF g
<1> QED
  BY <1>3, <1>4

\* GuestMem for a page table and contents, so that both states of a step can be named.
MemOf(tbl, d) ==
  [g \in { TO_GUEST(h) : h \in {h \in 0 .. (HostLimit - 1) : MappedIn(tbl, h)} } |->
     IF TO_HOST(g) \in DOMAIN d THEN d[TO_HOST(g)] ELSE Nul]

LEMMA GuestMemIs == GuestMem = MemOf(pages, data) /\ GuestMem' = MemOf(pages', data')
BY Zenon DEF GuestMem, MemOf, At

\* The guest sees at an address what the host holds at its image under TO_HOST.
LEMMA MemOfIs ==
  ASSUME NEW tbl, NEW d
  PROVE  /\ DOMAIN MemOf(tbl, d) \subseteq Word
         /\ \A a \in Word : a \in DOMAIN MemOf(tbl, d) <=> MappedIn(tbl, TO_HOST(a))
         /\ \A a \in DOMAIN MemOf(tbl, d) :
              MemOf(tbl, d)[a] = IF TO_HOST(a) \in DOMAIN d THEN d[TO_HOST(a)] ELSE Nul
         /\ MemOf(tbl, d) = [a \in DOMAIN MemOf(tbl, d) |-> MemOf(tbl, d)[a]]
<1> DEFINE hosts == {h \in 0 .. (HostLimit - 1) : MappedIn(tbl, h)}
           D == { TO_GUEST(h) : h \in hosts }
           C(a) == IF TO_HOST(a) \in DOMAIN d THEN d[TO_HOST(a)] ELSE Nul
<1>1. MemOf(tbl, d) = [a \in D |-> C(a)]
  BY DEF MemOf
<1>2. \A h \in hosts : h \in Word
  BY Layout DEF Word
<1>3. D \subseteq Word
  BY <1>2, ToHostType
<1>4. ASSUME NEW a \in Word PROVE a \in D <=> MappedIn(tbl, TO_HOST(a))
  <2>1. TO_HOST(a) \in Nat /\ TO_GUEST(TO_HOST(a)) = a
    BY ToHostType, RoundTrip
  <2>2. ASSUME MappedIn(tbl, TO_HOST(a)) PROVE a \in D
    <3>1. TO_HOST(a) \in hosts
      BY <2>1, <2>2, Layout DEF MappedIn
    <3> QED
      BY <2>1, <3>1
  <2>3. ASSUME a \in D PROVE MappedIn(tbl, TO_HOST(a))
    <3>1. PICK h \in hosts : a = TO_GUEST(h)
      BY <2>3
    <3> QED
      BY <1>2, <3>1, RoundTrip
  <2> QED
    BY <2>2, <2>3
<1> HIDE DEF C, D
<1>5. DOMAIN MemOf(tbl, d) = D /\ \A a \in D : MemOf(tbl, d)[a] = C(a)
  BY <1>1
<1>6. MemOf(tbl, d) = [a \in DOMAIN MemOf(tbl, d) |-> MemOf(tbl, d)[a]]
  BY <1>1
<1> QED
  BY <1>3, <1>4, <1>5, <1>6 DEF C

\* The same in terms of this state.
LEMMA GuestMemory ==
  /\ DOMAIN GuestMem \subseteq Word
  /\ \A a \in Word : a \in DOMAIN GuestMem <=> MappedIn(pages, TO_HOST(a))
  /\ \A a \in DOMAIN GuestMem : GuestMem[a] = At(TO_HOST(a))
BY GuestMemIs, MemOfIs DEF At

\* A step that leaves the page table alone.
LEMMA SamePages ==
  ASSUME pages' = pages
  PROVE  /\ DOMAIN GuestMem' = DOMAIN GuestMem
         /\ \A a \in DOMAIN GuestMem :
              GuestMem'[a] = IF TO_HOST(a) \in DOMAIN data' THEN data'[TO_HOST(a)] ELSE Nul
         /\ GuestMem' = [a \in DOMAIN GuestMem |-> GuestMem'[a]]
         /\ data' = data => GuestMem' = GuestMem
<1>1. DOMAIN GuestMem' = DOMAIN GuestMem
  <2>1. DOMAIN MemOf(pages, data') = DOMAIN MemOf(pages, data)
    BY DEF MemOf
  <2> QED
    BY <2>1, GuestMemIs
<1> QED
  BY <1>1, GuestMemIs, MemOfIs

\* The cells of a buffer that the kernel finds are those the guest can name, and a
\* buffer that leaves the user space is one the guest cannot access as a whole.
LEMMA SameRoom ==
  ASSUME NEW a \in Word, NEW count \in Nat
  PROVE  /\ Promise!Room(a, count) = HostRoom(TO_HOST(a), count)
         /\ ~InRange(TO_HOST(a), count) => Promise!Faulty(a, count)
         /\ \A k \in 0 .. (HostRoom(TO_HOST(a), count) - 1) :
              Wrap(a + k) \in DOMAIN GuestMem /\ TO_HOST(Wrap(a + k)) = TO_HOST(a) + k
<1> DEFINE h == TO_HOST(a)
           n == HostRoom(h, count)
           P(m) == /\ \A k \in 0 .. (m - 1) : Wrap(a + k) \in DOMAIN GuestMem
                   /\ m < count => Wrap(a + m) \notin DOMAIN GuestMem
<1>1. h \in Nat /\ h < AddrSpace /\ a \in Nat /\ a < AddrSpace /\ AddrSpace \in Nat
      /\ HostLimit \in Nat /\ HostLimit < AddrSpace
  BY ToHostType, Layout DEF Word
<1>2. /\ n \in 0 .. count
      /\ \A k \in 0 .. (n - 1) : MappedIn(pages, h + k)
      /\ n < count => ~MappedIn(pages, h + n)
  BY <1>1, HostRoomIs
<1>3. \A k \in Nat : h + k < AddrSpace => TO_HOST(Wrap(a + k)) = h + k /\ Wrap(a + k) \in Word
  <2> SUFFICES ASSUME NEW k \in Nat, h + k < AddrSpace
               PROVE  TO_HOST(Wrap(a + k)) = h + k /\ Wrap(a + k) \in Word
    OBVIOUS
  <2>1. TO_GUEST(Wrap(h + k)) = Wrap(TO_GUEST(h) + k)
    BY <1>1, MovesTogether, Layout DEF Word
  <2>2. Wrap(h + k) = h + k /\ h + k \in Word
    BY <1>1, WrapInRange DEF Word
  <2>3. TO_GUEST(h + k) = Wrap(a + k)
    BY <2>1, <2>2, RoundTrip
  <2> QED
    BY <2>2, <2>3, RoundTrip, ToHostType
<1> HIDE DEF h, n
<1>4. n \in Nat /\ count \in Nat /\ (n > 0 => h + n <= HostLimit) /\ h + n < AddrSpace
  <2>1. n \in Nat
    BY <1>2
  <2>2. n > 0 => MappedIn(pages, h + (n - 1))
    BY <1>2, <2>1
  <2>3. n > 0 => h + (n - 1) < HostLimit
    BY <2>2 DEF MappedIn
  <2> QED
    BY <1>1, <2>1, <2>3
<1>5. \A k \in 0 .. n : (Wrap(a + k) \in DOMAIN GuestMem) <=> MappedIn(pages, h + k)
  <2> TAKE k \in 0 .. n
  <2>1. k \in Nat /\ h + k < AddrSpace
    BY <1>1, <1>4
  <2> QED
    BY <1>3, <2>1, GuestMemory
<1>6. P(n)
  <2>1. \A k \in 0 .. (n - 1) : k \in 0 .. n
    BY <1>4
  <2>2. n \in 0 .. n
    BY <1>4
  <2> QED
    BY <1>2, <1>5, <2>1, <2>2
<1>7. \A m \in 0 .. count : P(m) => m = n
  <2> SUFFICES ASSUME NEW m \in 0 .. count, P(m) PROVE m = n
    OBVIOUS
  <2>1. ~(m < n)
    <3>1. m < n => m \in 0 .. (n - 1) /\ m < count
      BY <1>2, <1>4
    <3> QED
      BY <1>6, <3>1
  <2>2. ~(n < m)
    <3>1. n < m => n \in 0 .. (m - 1) /\ n < count
      BY <1>2, <1>4
    <3> QED
      BY <1>6, <3>1
  <2> QED
    BY <1>4, <2>1, <2>2
<1>8. Promise!Room(a, count) = n
  <2>1. Promise!Room(a, count) = CHOOSE m \in 0 .. count : P(m)
    BY Zenon, SameArithmetic DEF Promise!Room, Promise!Wrap, Wrap
  <2> HIDE DEF P
  <2> QED
    BY <1>2, <1>6, <1>7, <2>1
<1>9. \A k \in 0 .. (n - 1) : Wrap(a + k) \in DOMAIN GuestMem /\ TO_HOST(Wrap(a + k)) = h + k
  <2> TAKE k \in 0 .. (n - 1)
  <2>1. k \in Nat /\ h + k < AddrSpace
    BY <1>1, <1>4
  <2> QED
    BY <1>3, <1>6, <2>1
<1>10. ASSUME ~InRange(h, count) PROVE Promise!Faulty(a, count)
  <2>1. h + count > HostLimit
    BY <1>1, <1>10 DEF InRange
  <2>2. CASE n < count
    BY <1>8, <2>2 DEF Promise!Faulty
  <2>3. CASE n = count
    <3>1. n = 0 /\ h >= HostLimit
      BY <1>1, <1>4, <2>1, <2>3
    <3>2. ~MappedIn(pages, h)
      BY <1>1, <3>1 DEF MappedIn
    <3>3. a \notin DOMAIN GuestMem
      BY <3>2, GuestMemory DEF h
    <3> QED
      BY <3>3 DEF Promise!Faulty
  <2> QED
    BY <1>2, <2>2, <2>3
<1> QED
  BY <1>8, <1>9, <1>10 DEF h, n

\* Two addresses are as far apart for the host as for the guest.
LEMMA SameDistance ==
  ASSUME NEW g \in Word, NEW a \in Word
  PROVE  Wrap(TO_HOST(g) - TO_HOST(a)) = Wrap(g - a)
<1>1. g \in Nat /\ g < AddrSpace /\ a \in Nat /\ a < AddrSpace /\ GuestOffset \in Nat
      /\ GuestOffset < AddrSpace /\ AddrSpace \in Nat
  BY Layout DEF Word
<1> DEFINE x == TO_HOST(g)
           h == TO_HOST(a)
<1>2. /\ x = g + GuestOffset \/ x = g + GuestOffset - AddrSpace
      /\ h = a + GuestOffset \/ h = a + GuestOffset - AddrSpace
      /\ x \in Nat /\ x < AddrSpace /\ h \in Nat /\ h < AddrSpace
  BY <1>1, WrapCases DEF TO_HOST
<1> HIDE DEF x, h
<1>3. Wrap(x - h) = IF x - h < 0 THEN x - h + AddrSpace ELSE x - h
  BY <1>1, <1>2, WrapCases
<1>4. Wrap(g - a) = IF g - a < 0 THEN g - a + AddrSpace ELSE g - a
  BY <1>1, WrapCases
<1>5. x - h = g - a \/ x - h = g - a + AddrSpace \/ x - h = g - a - AddrSpace
  BY <1>1, <1>2
<1>6. Wrap(x - h) = Wrap(g - a)
  BY <1>1, <1>2, <1>3, <1>4, <1>5
<1> QED
  BY <1>6 DEF x, h

\* Cells stored at the host's addresses are stored where the guest said.
LEMMA StoredAgrees ==
  ASSUME NEW a \in Word, NEW cells \in Seq(Cell),
         \A k \in 0 .. (Len(cells) - 1) : MappedIn(pages, TO_HOST(a) + k),
         pages' = pages, data' = Stored(TO_HOST(a), cells)
  PROVE  GuestMem' = Promise!Stored(a, cells)
<1> DEFINE h == TO_HOST(a)
           J(g) == Wrap(g - a) + 1
           M == [g \in DOMAIN GuestMem |-> IF J(g) \in DOMAIN cells THEN cells[J(g)] ELSE GuestMem[g]]
<1>1. Promise!Stored(a, cells) = M
  BY Zenon DEF Promise!Stored, Promise!Wrap, Wrap
<1>2. /\ GuestMem' = [g \in DOMAIN GuestMem |-> GuestMem'[g]]
      /\ \A g \in DOMAIN GuestMem :
           GuestMem'[g] = IF TO_HOST(g) \in DOMAIN data' THEN data'[TO_HOST(g)] ELSE Nul
  BY SamePages
<1>3. h \in Nat /\ h < AddrSpace /\ h \in Word /\ a \in Int /\ AddrSpace \in Nat
      /\ HostLimit \in Nat /\ HostLimit < AddrSpace
  <2>1. h \in Word
    BY ToHostType
  <2> HIDE DEF h
  <2> QED
    BY <2>1, Layout DEF Word
<1>4. DOMAIN cells = 1 .. Len(cells) /\ Len(cells) \in Nat
  OBVIOUS
<1> HIDE DEF h
<1>5. Len(cells) > 0 => h + Len(cells) <= HostLimit
  <2>1. Len(cells) > 0 => MappedIn(pages, h + (Len(cells) - 1))
    BY <1>4 DEF h
  <2> QED
    BY <1>3, <1>4, <2>1 DEF MappedIn
<1>6. ASSUME NEW g \in DOMAIN GuestMem
      PROVE  GuestMem'[g] = IF J(g) \in DOMAIN cells THEN cells[J(g)] ELSE GuestMem[g]
  <2> DEFINE x == TO_HOST(g)
  <2>1. g \in Word /\ x \in Nat /\ x < HostLimit /\ GuestMem[g] = At(x)
    BY GuestMemory, ToHostType DEF MappedIn
  <2>2. Wrap(g - a) = Wrap(x - h) /\ g - a \in Int
    <3>1. g \in Int /\ Wrap(TO_HOST(g) - TO_HOST(a)) = Wrap(g - a)
      BY <2>1, SameDistance DEF Word
    <3> QED
      BY <1>3, <3>1 DEF h
  <2> HIDE DEF x
  <2>3. J(g) \in DOMAIN cells <=> x - h + 1 \in DOMAIN cells
    <3>1. Wrap(x - h) = IF x - h < 0 THEN x - h + AddrSpace ELSE x - h
      BY <1>3, <2>1, WrapCases
    <3> DEFINE w == Wrap(x - h)
               L == Len(cells)
    <3> HIDE DEF w, L
    <3>2. w + 1 \in 1 .. L <=> x - h + 1 \in 1 .. L
      BY <1>3, <1>4, <1>5, <2>1, <3>1 DEF w, L
    <3> QED
      BY <1>4, <2>2, <3>2 DEF w, L
  <2>4. x - h + 1 \in DOMAIN cells => J(g) = x - h + 1
    <3>1. x - h + 1 \in DOMAIN cells => x >= h
      BY <1>3, <1>4, <2>1
    <3> QED
      BY <1>3, <2>1, <2>2, <3>1, WrapCases
  <2>5. data' = [z \in DOMAIN data \cup {h + k - 1 : k \in DOMAIN cells} |->
                   IF z - h + 1 \in DOMAIN cells THEN cells[z - h + 1] ELSE data[z]]
    BY DEF Stored, h
  <2>6. CASE x - h + 1 \in DOMAIN cells
    <3>1. x \in {h + k - 1 : k \in DOMAIN cells}
      <4>1. x = h + (x - h + 1) - 1
        BY <1>3, <2>1
      <4> QED
        BY <2>6, <4>1
    <3> QED
      BY <1>2, <2>3, <2>4, <2>5, <2>6, <3>1 DEF x
  <2>7. CASE x - h + 1 \notin DOMAIN cells
    <3>1. x \notin {h + k - 1 : k \in DOMAIN cells}
      BY <1>3, <1>4, <2>1, <2>7
    <3> QED
      BY <1>2, <2>1, <2>3, <2>5, <2>7, <3>1 DEF x, At
  <2> QED
    BY <2>6, <2>7
<1> HIDE DEF J
<1>7. GuestMem' = M
  BY <1>2, <1>6
<1> QED
  BY <1>1, <1>7

-----------------------------------------------------------------------------
(* The calls do what they promise, unless brk is asked for an address of   *)
(* the upper half of the address space: that is a negative increment, and  *)
(* enough of them take host_alloc once around.                             *)

\* No call of brk asks for an address in the upper half.
BrkInLowerHalf == \A c \in Calls : c.a7 = 214 => 2 * c.a0 < AddrSpace

\* What the refinement needs besides types.  The heap ends above the guest's address
\* 0, so that mmu_alloc never maps the host's page 0, which makes a null pointer of
\* a guest address.
HeapAbove ==
  /\ call \in Calls \cup {NoCall}
  /\ guest_alloc <= TO_GUEST(host_alloc)
  /\ GuestOffset <= host_alloc
  /\ pages[0] = Unmapped

\* The host's first page lies below the guest's memory.
LEMMA FirstPage ==
  ASSUME NEW h \in Nat, GuestOffset <= h, NEW len
  PROVE  0 \in Page /\ 0 \notin Span(h, len)
<1>1. PageSize \in Nat \ {0} /\ PageSize <= h /\ HostLimit \in Nat /\ PageSize <= HostLimit
  BY PageFits, Layout
<1>2. h \div PageSize >= 1 /\ HostLimit \div PageSize >= 1
  <2>1. ASSUME NEW x \in Nat, PageSize <= x PROVE x \div PageSize >= 1
    BY <1>1, <2>1
  <2> QED
    BY <1>1, <2>1
<1>3. h \div PageSize \in Int /\ HostLimit \div PageSize \in Int
  BY <1>1
<1> QED
  BY <1>2, <1>3 DEF Page, Span, PageOf

LEMMA InitHeap == Init => HeapAbove
<1> SUFFICES ASSUME Init PROVE HeapAbove
  OBVIOUS
<1>1. /\ ImageStart \in Nat /\ ImageEnd \in Nat /\ StackSize \in Nat /\ ImageStart < ImageEnd
      /\ ImageEnd + StackSize + GuestOffset <= HostLimit
  BY SyscallAssumption
<1>2. TO_HOST(ImageEnd + StackSize) = ImageEnd + StackSize + GuestOffset
      /\ TO_HOST(ImageStart) = ImageStart + GuestOffset
  BY <1>1, Layout DEF TO_HOST, Wrap
<1>3. ImageEnd + StackSize \in Word
  BY <1>1, Layout DEF Word
<1>4. /\ guest_alloc = ImageEnd + StackSize /\ host_alloc = TO_HOST(guest_alloc)
      /\ call = NoCall
      /\ pages = MapAnon([p \in Page |-> Unmapped], TO_HOST(ImageStart),
                         ImageEnd + StackSize - ImageStart)
  BY DEF Init
<1>5. TO_GUEST(host_alloc) = guest_alloc
  BY <1>3, <1>4, RoundTrip
<1>6. GuestOffset <= host_alloc /\ guest_alloc \in Int
  BY <1>1, <1>2, <1>4, Layout
<1>7. pages[0] = Unmapped
  <2> DEFINE len == ImageEnd + StackSize - ImageStart
  <2>1. TO_HOST(ImageStart) \in Nat /\ GuestOffset <= TO_HOST(ImageStart)
    BY <1>1, <1>2, Layout
  <2> HIDE DEF len
  <2>2. 0 \in Page /\ 0 \notin Span(TO_HOST(ImageStart), len)
    BY <2>1, FirstPage
  <2> QED
    BY <1>4, <2>2 DEF MapAnon, len
<1> QED
  BY <1>4, <1>5, <1>6, <1>7 DEF HeapAbove

\* brk keeps the heap above.
LEMMA BrkHeap ==
  ASSUME TypeOK, HeapAbove, mmu_alloc(BrkIncr), 2 * call.a0 < AddrSpace
  PROVE  GuestOffset <= host_alloc' /\ pages'[0] = Unmapped
<1> DEFINE G == TO_GUEST(host_alloc)
           incr == BrkIncr
           target == BrkTarget
<1>1. /\ host_alloc \in Nat /\ host_alloc < AddrSpace /\ GuestOffset <= host_alloc
      /\ guest_alloc \in Nat /\ guest_alloc < AddrSpace /\ pages[0] = Unmapped
      /\ guest_alloc <= G
  BY Layout DEF TypeOK, MmuTypeOK, Word, HeapAbove
<1>2. G = host_alloc - GuestOffset
  BY <1>1, WrapCases, Layout DEF TO_GUEST
<1>3. /\ target \in Nat /\ target < AddrSpace /\ incr \in Int
      /\ NewBreak(incr) = target
      /\ -AddrSpace <= 2 * incr /\ 2 * incr < AddrSpace
      /\ \/ guest_alloc + incr = target
         \/ guest_alloc + incr = target + AddrSpace
         \/ guest_alloc + incr = target - AddrSpace
  BY BrkExact, Layout DEF Word
<1>4. target = guest_alloc \/ 2 * target < AddrSpace
  BY DEF BrkTarget
<1> HIDE DEF G, incr, target
<1>5. CASE AllocWithin(incr)
  BY <1>1, <1>5 DEF AllocWithin
<1>6. CASE AllocGrow(incr)
  <2> DEFINE n == ROUNDUP(incr, PageSize)
  <2>1. n \in Nat
    BY <1>3, RoundUpType DEF Word
  <2> HIDE DEF n
  <2>2. /\ Grows(incr) /\ InUserSpace(0, n) /\ host_alloc' = Wrap(host_alloc + n)
        /\ pages' = MapAnon(pages, host_alloc, n) \/ pages' = pages
    BY <1>6, Zenon DEF AllocGrow, n
  <2>3. incr > 0 /\ target > G /\ n <= HostLimit
    BY <1>3, <2>1, <2>2, Layout DEF Grows, InUserSpace, G
  <2>4. 2 * target < AddrSpace
    BY <1>1, <1>2, <1>3, <1>4, <2>3, Layout
  <2>5. host_alloc + n < AddrSpace
    BY <1>1, <1>2, <1>3, <2>1, <2>3, <2>4, Layout
  <2>6. host_alloc' = host_alloc + n
    BY <1>1, <2>1, <2>2, <2>5, WrapCases, Layout
  <2>7. pages'[0] = Unmapped
    <3>1. 0 \in Page /\ 0 \notin Span(host_alloc, n)
      BY <1>1, FirstPage
    <3> QED
      BY <1>1, <2>2, <3>1 DEF MapAnon
  <2> QED
    BY <1>1, <2>1, <2>6, <2>7, Layout
<1>7. CASE AllocShrink(incr)
  <2> DEFINE R == ROUNDUP(target, PageSize)
             n == Wrap(G - R)
  <2>1. /\ R < G /\ host_alloc' = Wrap(host_alloc - n)
        /\ pages' = Unmap(pages, host_alloc, n)
    BY <1>3, <1>7 DEF AllocShrink, Shrinks, G
  <2>2. R \in Nat
    BY <1>3, RoundUpType DEF Word
  <2>3. n = G - R
    BY <1>1, <1>2, <2>1, <2>2, WrapCases, Layout
  <2> HIDE DEF R, n
  <2>4. host_alloc' = GuestOffset + R
    BY <1>1, <1>2, <2>1, <2>2, <2>3, WrapCases, Layout
  <2>5. pages'[0] = Unmapped
    <3>1. 0 \in Page
      BY <1>1, FirstPage
    <3> QED
      BY <1>1, <2>1, <3>1 DEF Unmap
  <2> QED
    BY <2>2, <2>4, <2>5, Layout
<1> QED
  BY <1>5, <1>6, <1>7 DEF mmu_alloc, incr

\* Every step starts or ends a call, or leaves it alone.
LEMMA CallChanges == Next => call' \in Calls \/ call' = NoCall \/ call' = call
<1>1. sys_gettimeofday => call' = NoCall \/ call' = call
  BY Zenon DEF sys_gettimeofday, Returns
<1>2. sys_read => call' = NoCall
  BY ReadStep DEF Result, Returns
<1>3. sys_write => call' = NoCall
  BY WriteStep DEF Result, Returns
<1> QED
  BY <1>1, <1>2, <1>3, NextCases DEF Ecall, sys_openat, sys_open, sys_close, sys_lseek,
     sys_fstat, sys_brk, BrkStops, sys_exit, SyscallFatal, Terminated, vars, Result, Returns

\* A call of brk in the lower half.
LEMMA BrkCalledLow ==
  ASSUME BrkInLowerHalf, TypeOK, HeapAbove, sys_brk
  PROVE  call.a7 = 214 /\ 2 * call.a0 < AddrSpace
<1>1. call.a7 = 214
  BY CallType, HandlerNumbers DEF sys_brk, Runs
<1>2. call \in Calls
  BY <1>1 DEF HeapAbove, NoCall
<1> QED
  BY <1>1, <1>2 DEF BrkInLowerHalf

LEMMA StepHeap ==
  ASSUME BrkInLowerHalf, TypeOK, HeapAbove, [Next]_vars
  PROVE  HeapAbove'
<1>1. CASE sys_brk
  <2>1. mmu_alloc(BrkIncr) /\ 2 * call.a0 < AddrSpace /\ guest_alloc <= TO_GUEST(host_alloc)
    BY <1>1, BrkCalledLow DEF sys_brk, HeapAbove
  <2>2. guest_alloc' <= TO_GUEST(host_alloc') /\ GuestOffset <= host_alloc'
        /\ pages'[0] = Unmapped
    BY <2>1, BreakStaysInside, BrkHeap
  <2>3. call' = NoCall
    BY <1>1 DEF sys_brk, Returns
  <2>4. TO_GUEST(host_alloc)' = TO_GUEST(host_alloc') /\ NoCall' = NoCall
    BY DEF TO_GUEST, Wrap, NoCall
  <2> QED
    BY <2>2, <2>3, <2>4 DEF HeapAbove
<1>2. CASE Next /\ UNCHANGED mmuVars
  BY <1>2, CallChanges DEF HeapAbove, mmuVars
<1>3. CASE UNCHANGED vars
  BY <1>3 DEF vars, mmuVars, HeapAbove
<1> QED
  BY <1>1, <1>2, <1>3, OnlyBrkMaps

\* A call that answers with a result of the kernel and leaves memory alone.
LEMMA DoneStep ==
  ASSUME NEW r, Result(r), UNCHANGED <<mmuVars, data, made>>
  PROVE  Promise!Done(r)
<1>1. GuestMem' = GuestMem /\ guest_alloc' = guest_alloc
  BY SamePages DEF mmuVars
<1>2. ret' = Wrap(r.ret) /\ GuestMode' = "guest" /\ fs' = r.fs
  BY DEF Result, Returns, GuestMode, Stopped
<1> QED
  BY <1>1, <1>2, SameArithmetic DEF Promise!Done, Promise!Answer

\* The handler that runs is the one for the number the guest gave.
LEMMA CalledNumber ==
  ASSUME TypeOK, NEW n \in Nat, ctl = "ecall", call.a7 = n
  PROVE  Promise!Called(n)
BY DEF Promise!Called, GuestMode, Stopped

LEMMA ReadRefines ==
  ASSUME TypeOK, sys_read
  PROVE  Promise!Read
<1> DEFINE buf == TO_HOST(call.a1)
<1>1. PICK r \in HostReads(buf) :
        /\ Runs("sys_read") /\ Result(r) /\ data' = Stored(buf, r.cells)
        /\ UNCHANGED <<mmuVars, made>>
  BY ReadStep
<1>2. call.a0 \in Word /\ call.a1 \in Word /\ call.a2 \in Nat /\ call.a7 \in Word
  BY CallType DEF Word
<1>3. Promise!Called(63)
  BY <1>1, <1>2, HandlerNumbers, CalledNumber DEF Runs
<1>4. /\ r.cells \in Seq(Cell) /\ pages' = pages
      /\ \A k \in 0 .. (Len(r.cells) - 1) : MappedIn(pages, buf + k)
  BY <1>1, HostReadsOK DEF mmuVars
<1>5. GuestMem' = Promise!Stored(call.a1, r.cells)
  BY <1>1, <1>2, <1>4, StoredAgrees
<1>6. fs' = r.fs /\ Promise!Answer(r.ret) /\ guest_alloc' = guest_alloc
  BY <1>1, SameArithmetic DEF Result, Returns, Promise!Answer, GuestMode, Stopped, mmuVars
<1> HIDE DEF buf
<1>7. CASE InRange(buf, call.a2)
  <2>1. r \in Reads(fs, int(call.a0), call.a2, HostRoom(buf, call.a2))
    BY <1>1, <1>7 DEF HostReads
  <2>2. r \in Promise!Reads(fs, Promise!int(call.a0), call.a2, Promise!Room(call.a1, call.a2))
    BY <1>2, <2>1, SameRoom, SameCalls, SameArithmetic DEF buf
  <2> QED
    BY <1>3, <1>5, <1>6, <2>2 DEF Promise!Read
<1>8. CASE ~InRange(buf, call.a2)
  <2>1. r = Fail(fs)
    BY <1>1, <1>8 DEF HostReads
  <2>2. Promise!Faulty(call.a1, call.a2)
    BY <1>2, <1>8, SameRoom DEF buf
  <2>3. GuestMem' = GuestMem
    <3>1. r.cells = << >>
      BY <2>1 DEF Fail
    <3>2. \A a \in DOMAIN GuestMem : GuestMem'[a] = GuestMem[a]
      <4>1. data' = Stored(buf, << >>) /\ DOMAIN << >> = {}
        BY <1>1, <3>1
      <4>2. DOMAIN data' = DOMAIN data /\ \A x \in DOMAIN data : data'[x] = data[x]
        BY <4>1 DEF Stored
      <4> QED
        BY <1>4, <4>2, SamePages, GuestMemory DEF At
    <3> QED
      BY <1>4, <3>2, SamePages, GuestMemIs, MemOfIs
  <2>4. Promise!Done(Promise!Fail(fs))
    BY <1>6, <2>1, <2>3, SameCalls DEF Promise!Done
  <2> QED
    BY <1>3, <2>2, <2>4 DEF Promise!Read
<1> QED
  BY <1>7, <1>8

LEMMA WriteRefines ==
  ASSUME TypeOK, sys_write
  PROVE  Promise!Write
<1> DEFINE buf == TO_HOST(call.a1)
           n == HostRoom(buf, call.a2)
           cells == [k \in 1 .. n |-> At(buf + k - 1)]
<1>1. PICK r \in HostWrites(buf) :
        Runs("sys_write") /\ Result(r) /\ UNCHANGED <<mmuVars, data, made>>
  BY WriteStep
<1>2. call.a0 \in Word /\ call.a1 \in Word /\ call.a2 \in Nat /\ call.a7 \in Word
  BY CallType DEF Word
<1>3. Promise!Called(64)
  BY <1>1, <1>2, HandlerNumbers, CalledNumber DEF Runs
<1>4. Promise!Done(r)
  BY <1>1, DoneStep
<1>5. CASE InRange(buf, call.a2)
  <2>1. r \in Writes(fs, int(call.a0), call.a2, cells)
    BY <1>1, <1>5 DEF HostWrites
  <2>2. Promise!Buffer(call.a1, call.a2) = cells
    <3>1. /\ Promise!Room(call.a1, call.a2) = n
          /\ \A k \in 0 .. (n - 1) : /\ Wrap(call.a1 + k) \in DOMAIN GuestMem
                                     /\ TO_HOST(Wrap(call.a1 + k)) = buf + k
      BY <1>2, SameRoom
    <3>2. buf \in Nat /\ call.a1 \in Int
      BY <1>2, ToHostType DEF Word
    <3>3. n \in Nat
      <4>1. n \in 0 .. call.a2
        BY <1>2, <3>2, HostRoomIs, Zenon
      <4> QED
        BY <1>2, <4>1
    <3> HIDE DEF n, buf
    <3>4. \A j \in 1 .. n : GuestMem[Wrap(call.a1 + j - 1)] = At(buf + j - 1)
      <4> TAKE j \in 1 .. n
      <4>1. j - 1 \in 0 .. (n - 1) /\ call.a1 + j - 1 = call.a1 + (j - 1)
            /\ buf + j - 1 = buf + (j - 1)
        BY <3>2, <3>3
      <4> QED
        BY <3>1, <4>1, GuestMemory
    <3>5. Promise!Buffer(call.a1, call.a2) = [j \in 1 .. n |-> GuestMem[Wrap(call.a1 + j - 1)]]
      BY <3>1, Zenon DEF Promise!Buffer, Promise!Wrap, Wrap
    <3> QED
      BY <3>4, <3>5
  <2> HIDE DEF cells
  <2>3. r \in Promise!Writes(fs, Promise!int(call.a0), call.a2, Promise!Buffer(call.a1, call.a2))
    BY <2>1, <2>2, SameCalls, SameArithmetic
  <2> QED
    BY <1>3, <1>4, <2>3 DEF Promise!Write
<1>6. CASE ~InRange(buf, call.a2)
  <2>1. r = Promise!Fail(fs)
    BY <1>1, <1>6, SameCalls DEF HostWrites
  <2>2. Promise!Faulty(call.a1, call.a2)
    BY <1>2, <1>6, SameRoom
  <2> QED
    BY <1>3, <1>4, <2>1, <2>2 DEF Promise!Write
<1> QED
  BY <1>5, <1>6

\* open finds the name where the guest put it, with the flags the guest meant.
LEMMA OpenRefines ==
  ASSUME TypeOK, NEW name \in Word, NEW flags \in Word, Result(HostOpen(name, flags)),
         UNCHANGED <<mmuVars, data, made>>
  PROVE  Promise!OpenNamed(name, flags)
<1> DEFINE r == IF name \in DOMAIN GuestMem
                THEN Promise!Open(fs, GuestMem[name], Promise!Meaning(flags))
                ELSE Promise!Fail(fs)
<1>1. HostOpen(name, flags) = r
  <2>1. HostMeaning(convert_flags(flags)) = Promise!Meaning(flags)
    BY FlagsConverted DEF Word
  <2>2. CASE name \in DOMAIN GuestMem
    <3>1. MappedIn(pages, TO_HOST(name)) /\ GuestMem[name] = At(TO_HOST(name))
      BY <2>2, GuestMemory
    <3> QED
      BY <2>1, <2>2, <3>1, SameCalls DEF HostOpen
  <2>3. CASE name \notin DOMAIN GuestMem
    <3>1. ~MappedIn(pages, TO_HOST(name))
      BY <2>3, GuestMemory
    <3> QED
      BY <2>3, <3>1, SameCalls DEF HostOpen
  <2> QED
    BY <2>2, <2>3
<1>2. Promise!Done(HostOpen(name, flags))
  BY DoneStep
<1> QED
  BY <1>1, <1>2 DEF Promise!OpenNamed

LEMMA CloseRefines ==
  ASSUME TypeOK, sys_close
  PROVE  Promise!CloseFd
<1>1. call.a0 \in Nat /\ call.a7 \in Word
  BY CallType DEF Word
<1>2. Promise!Called(57)
  BY <1>1, HandlerNumbers, CalledNumber DEF sys_close, Runs
<1> DEFINE same == [fs |-> fs, ret |-> 0, cells |-> << >>]
<1>3. CASE call.a0 > 2
  <2>1. Promise!Done(Close(fs, int(call.a0)))
    BY <1>3, DoneStep DEF sys_close
  <2>2. call.a0 \notin 0 .. 2
    BY <1>1, <1>3
  <2> QED
    BY <1>2, <2>1, <2>2, SameCalls, SameArithmetic DEF Promise!CloseFd
<1>4. CASE ~(call.a0 > 2)
  <2>1. Returns(0) /\ UNCHANGED <<mmuVars, fs, data, made>>
    BY <1>4 DEF sys_close
  <2>2. Result(same)
    BY <2>1 DEF Result
  <2>3. Promise!Done(same)
    BY <2>1, <2>2, DoneStep
  <2>4. call.a0 \in 0 .. 2
    BY <1>1, <1>4
  <2> HIDE DEF same
  <2> QED
    BY <1>2, <2>3, <2>4 DEF Promise!CloseFd, same
<1> QED
  BY <1>3, <1>4

LEMMA FstatRefines ==
  ASSUME TypeOK, sys_fstat
  PROVE  Promise!Fstat
<1>1. call.a0 \in Word /\ call.a1 \in Word /\ call.a7 \in Word
  BY CallType
<1>2. Promise!Called(80)
  BY <1>1, HandlerNumbers, CalledNumber DEF sys_fstat, Runs
<1>3. call.a1 \in DOMAIN GuestMem <=> MappedIn(pages, TO_HOST(call.a1))
  BY <1>1, GuestMemory
<1>4. UNCHANGED <<mmuVars, fs, made>> /\ pages' = pages /\ guest_alloc' = guest_alloc
  BY DEF sys_fstat, mmuVars
<1>5. CASE int(call.a0) \in DOMAIN fs.fds /\ MappedIn(pages, TO_HOST(call.a1))
  <2>1. data' = Stored(TO_HOST(call.a1), <<Stat>>) /\ Returns(0)
    BY <1>5 DEF sys_fstat
  <2>2. Promise!Answer(0)
    BY <2>1, SameArithmetic DEF Returns, Promise!Answer, GuestMode, Stopped
  <2>3. GuestMem' = [GuestMem EXCEPT ![call.a1] = Stat]
    <3> DEFINE h == TO_HOST(call.a1)
    <3>0. h \in Nat
      BY <1>1, ToHostType
    <3>1. DOMAIN data' = DOMAIN data \cup {h} /\ data'[h] = Stat
          /\ \A x \in DOMAIN data : x # h => data'[x] = data[x]
      <4> HIDE DEF h
      <4>1. DOMAIN <<Stat>> = {1} /\ <<Stat>>[1] = Stat
        OBVIOUS
      <4>2. data' = [x \in DOMAIN data \cup {h + k - 1 : k \in {1}} |->
                       IF x - h + 1 \in {1} THEN Stat ELSE data[x]]
        BY <2>1, <4>1 DEF Stored, h
      <4>3. {h + k - 1 : k \in {1}} = {h}
        BY <3>0
      <4>4. \A x \in DOMAIN data : x \in Int
        BY DEF TypeOK
      <4> QED
        BY <3>0, <4>2, <4>3, <4>4
    <3>2. \A a \in DOMAIN GuestMem : TO_HOST(a) = h => a = call.a1
      BY <1>1, GuestMemory, RoundTrip
    <3>3. \A a \in DOMAIN GuestMem :
            GuestMem'[a] = IF a = call.a1 THEN Stat ELSE GuestMem[a]
      BY <1>4, <3>1, <3>2, SamePages, GuestMemory DEF At
    <3> QED
      BY <1>3, <1>4, <1>5, <3>3, SamePages
  <2> QED
    BY <1>2, <1>3, <1>4, <1>5, <2>2, <2>3, SameArithmetic
       DEF Promise!Fstat, Promise!Stat, Stat
<1>6. CASE ~(int(call.a0) \in DOMAIN fs.fds /\ MappedIn(pages, TO_HOST(call.a1)))
  <2>1. data' = data /\ Returns(-1)
    BY <1>6 DEF sys_fstat
  <2>2. Result(Fail(fs))
    BY <1>4, <2>1 DEF Result, Fail
  <2>3. Promise!Done(Fail(fs))
    BY <1>4, <2>1, <2>2, DoneStep
  <2> QED
    BY <1>2, <1>3, <1>6, <2>3, SameArithmetic, SameCalls DEF Promise!Fstat
<1> QED
  BY <1>5, <1>6

\* gettimeofday fills what it was asked to fill; the null pointers of the host are no
\* addresses of the guest.
LEMMA TimeRefines ==
  ASSUME TypeOK, HeapAbove, sys_gettimeofday
  PROVE  Promise!Gettimeofday \/ Promise!Stop
<1> DEFINE tv == TO_HOST(call.a0)
           tz == IF call.a1 # 0 THEN TO_HOST(call.a1) ELSE 0
           Good(p) == p = 0 \/ MappedIn(pages, p)
           timeval == {p \in {tv} : p # 0 /\ Good(p)}
           timezone == {p \in {tz} : p # 0 /\ Good(p) /\ Good(tv)}
           asked == {call.a0} \cup (IF call.a1 = 0 THEN {} ELSE {call.a1})
           Filled(g) == IF g = call.a1 /\ g # 0 THEN Zone ELSE Time
<1>1. /\ Runs("sys_gettimeofday")
      /\ data' = [x \in timezone \cup timeval \cup DOMAIN data |->
                    IF x \in timezone THEN Zone ELSE IF x \in timeval THEN Time ELSE data[x]]
      /\ \/ Returns(IF Good(tv) /\ Good(tz) THEN 0 ELSE -1)
         \/ ~(Good(tv) /\ Good(tz)) /\ ctl' = "crashed" /\ UNCHANGED <<call, ret>>
      /\ UNCHANGED <<mmuVars, fs, made>>
  BY Zenon DEF sys_gettimeofday
<1>2. call.a0 \in Word /\ call.a1 \in Word /\ call.a7 \in Word
  BY CallType
<1>3. call.a7 = 169 /\ Promise!Called(169)
  BY <1>1, <1>2, HandlerNumbers, CalledNumber DEF Runs
<1>4. pages' = pages /\ guest_alloc' = guest_alloc /\ fs' = fs
  BY <1>1 DEF mmuVars
<1>5. /\ call.a0 \in DOMAIN GuestMem <=> MappedIn(pages, tv)
      /\ call.a1 # 0 => (call.a1 \in DOMAIN GuestMem <=> MappedIn(pages, tz))
      /\ \A a \in DOMAIN GuestMem : (TO_HOST(a) = tv => a = call.a0)
                                 /\ (TO_HOST(a) = TO_HOST(call.a1) => a = call.a1)
  BY <1>2, GuestMemory, RoundTrip
<1>6. ~MappedIn(pages, 0)
  <2>1. PageSize \in Nat \ {0}
    BY Layout
  <2>2. 0 \div PageSize = 0
    BY <2>1
  <2> QED
    BY <2>2 DEF HeapAbove, MappedIn, PageOf
<1>7. /\ DOMAIN GuestMem' = DOMAIN GuestMem
      /\ \A g \in DOMAIN GuestMem :
           GuestMem'[g] = IF TO_HOST(g) \in timezone THEN Zone
                          ELSE IF TO_HOST(g) \in timeval THEN Time ELSE GuestMem[g]
  <2> HIDE DEF timezone, timeval
  <2> QED
    BY <1>1, <1>4, SamePages, GuestMemory DEF At
<1>8. \A g \in DOMAIN GuestMem : TO_HOST(g) # 0
  BY <1>6, GuestMemory
<1>9. \A g \in DOMAIN GuestMem :
        /\ TO_HOST(g) \in timezone => g = call.a1 /\ g # 0
        /\ TO_HOST(g) \in timeval <=> g = call.a0
  BY <1>5, <1>8, GuestMemory
<1>10. \A g \in DOMAIN GuestMem : GuestMem'[g] = GuestMem[g] \/ (g \in asked /\ GuestMem'[g] = Filled(g))
  <2> SUFFICES ASSUME NEW g \in DOMAIN GuestMem, GuestMem'[g] # GuestMem[g]
               PROVE  g \in asked /\ GuestMem'[g] = Filled(g)
    OBVIOUS
  <2> QED
    BY <1>5, <1>7, <1>8, <1>9, GuestMemory
<1>11. ASSUME asked \subseteq DOMAIN GuestMem
       PROVE  Good(tv) /\ Good(tz) /\ \A g \in asked : GuestMem'[g] = Filled(g)
  <2>1. /\ call.a0 \in DOMAIN GuestMem /\ MappedIn(pages, tv)
        /\ call.a1 # 0 => call.a1 \in DOMAIN GuestMem /\ MappedIn(pages, tz)
    BY <1>5, <1>11
  <2>2. Good(tv) /\ Good(tz)
    BY <2>1
  <2>3. call.a1 # 0 => tz # 0 /\ tz \in timezone
    BY <1>8, <2>1, <2>2
  <2>4. \A g \in asked : GuestMem'[g] = Filled(g)
    <3> TAKE g \in asked
    <3>1. g \in DOMAIN GuestMem
      BY <1>11
    <3>2. CASE g = call.a1 /\ g # 0
      BY <1>7, <2>3, <3>1, <3>2
    <3>3. CASE ~(g = call.a1 /\ g # 0)
      <4>1. g = call.a0 /\ TO_HOST(g) \notin timezone /\ TO_HOST(g) \in timeval
        BY <1>9, <3>1, <3>3
      <4> HIDE DEF timezone, timeval
      <4> QED
        BY <1>7, <3>1, <3>3, <4>1
    <3> QED
      BY <3>2, <3>3
  <2> QED
    BY <2>2, <2>4
<1>12. CASE Returns(IF Good(tv) /\ Good(tz) THEN 0 ELSE -1)
  <2>1. GuestMode' = "guest" /\ ret' = Wrap(IF Good(tv) /\ Good(tz) THEN 0 ELSE -1)
    BY <1>12 DEF Returns, GuestMode, Stopped
  <2>2. IF Good(tv) /\ Good(tz) THEN Promise!Answer(0) ELSE Promise!Answer(-1)
    BY <2>1, SameArithmetic DEF Promise!Answer
  <2>3. IF asked \subseteq DOMAIN GuestMem
        THEN Promise!Answer(0) /\ \A g \in asked : GuestMem'[g] = Filled(g)
        ELSE Promise!Answer(0) \/ Promise!Answer(-1)
    BY <1>11, <2>2
  <2>4. Promise!Zone = Zone /\ Promise!Time = Time
    BY DEF Promise!Zone, Zone, Promise!Time, Time
  <2>5. Promise!Gettimeofday
    BY <1>3, <1>4, <1>7, <1>10, <2>3, <2>4, ZenonT(60) DEF Promise!Gettimeofday
  <2> QED
    BY <2>5
<1>13. CASE ~(Good(tv) /\ Good(tz)) /\ ctl' = "crashed" /\ UNCHANGED <<call, ret>>
  <2>1. call.a0 \notin DOMAIN GuestMem \/ call.a1 \notin DOMAIN GuestMem \cup {0}
    BY <1>5, <1>13
  <2>2. GuestMode = "call" /\ GuestMode' = "stop"
    BY <1>3, <1>13 DEF Promise!Called, GuestMode, Stopped
  <2> HIDE DEF Good
  <2>3. Promise!Stop
    BY <1>3, <1>4, <1>13, <2>1, <2>2 DEF Promise!Stop
  <2> QED
    BY <2>3
<1> QED
  BY <1>1, <1>12, <1>13

\* What lies below a page boundary is on an earlier page than what lies above.
LEMMA EarlierPage ==
  ASSUME NEW x \in Nat, NEW m \in Nat, NEW y \in Nat, m % PageSize = 0, x < m, m <= y
  PROVE  PageOf(x) < PageOf(y)
<1>1. PageSize \in Nat \ {0}
  BY Layout
<1>2. /\ ROUNDDOWN(x, PageSize) = PageOf(x) * PageSize /\ ROUNDDOWN(x, PageSize) <= x
      /\ ROUNDDOWN(y, PageSize) = PageOf(y) * PageSize /\ m <= ROUNDDOWN(y, PageSize)
  <2>1. x \in Int /\ y \in Int /\ m \in Int
    OBVIOUS
  <2>2. ROUNDDOWN(x, PageSize) = PageOf(x) * PageSize /\ ROUNDDOWN(y, PageSize) = PageOf(y) * PageSize
    BY <1>1, <2>1, RoundDownDiv, Zenon DEF PageOf
  <2>3. ROUNDDOWN(x, PageSize) <= x
    BY <1>1, <2>1, RoundDown, Zenon
  <2>4. m <= ROUNDDOWN(y, PageSize)
    BY <1>1, <2>1, RoundDownLargest, Zenon
  <2> QED
    BY <2>2, <2>3, <2>4
<1>3. PageOf(x) \in Int /\ PageOf(y) \in Int
  BY <1>1 DEF PageOf
<1> DEFINE p == PageOf(x)
           q == PageOf(y)
<1>4. p * PageSize < q * PageSize
  BY <1>1, <1>2, RoundDown
<1> HIDE DEF p, q
<1>5. p < q
  <2>1. ASSUME q <= p PROVE FALSE
    <3>1. p \in Int /\ q \in Int /\ p - q \in Nat
      BY <1>3, <2>1 DEF p, q
    <3>2. (p - q) * PageSize >= 0
      BY <1>1, <3>1
    <3>3. (p - q) * PageSize = p * PageSize - q * PageSize
      BY <1>1, <3>1
    <3> QED
      BY <1>1, <1>4, <3>1, <3>2, <3>3
  <2> QED
    BY <1>3, <2>1 DEF p, q
<1> QED
  BY <1>5 DEF p, q

\* Memory below the break stays where it is, and keeps its contents.
LEMMA BrkKeeps ==
  ASSUME TypeOK, HeapAbove, mmu_alloc(BrkIncr), 2 * call.a0 < AddrSpace,
         NEW g \in Word, g < BrkTarget, MappedIn(pages, TO_HOST(g))
  PROVE  MappedIn(pages', TO_HOST(g))
<1> DEFINE h == TO_HOST(g)
           G == TO_GUEST(host_alloc)
<1>1. /\ h \in Nat /\ h < HostLimit /\ pages[PageOf(h)] # Unmapped /\ PageOf(h) \in Page
  BY ToHostType, PageOfAddress DEF MappedIn
<1>2. PageOf(h) \in Int
  BY <1>1, Layout DEF PageOf
<1> HIDE DEF h
<1>3. CASE AllocWithin(BrkIncr)
  BY <1>1, <1>3 DEF AllocWithin, MappedIn, h
<1>4. CASE AllocGrow(BrkIncr)
  <2> DEFINE n == ROUNDUP(BrkIncr, PageSize)
  <2>1. pages' = MapAnon(pages, host_alloc, n) \/ pages' = pages
    BY <1>4, Zenon DEF AllocGrow
  <2> HIDE DEF n
  <2>2. pages'[PageOf(h)] # Unmapped
    BY <1>1, <2>1 DEF MapAnon, Anonymous, Unmapped
  <2> QED
    BY <1>1, <2>2 DEF MappedIn, h
<1>5. CASE AllocShrink(BrkIncr)
  <2> DEFINE R == ROUNDUP(BrkTarget, PageSize)
             n == Wrap(G - R)
  <2>1. BrkTarget \in Nat /\ BrkIncr \in Int /\ NewBreak(BrkIncr) = BrkTarget
    BY BrkExact DEF Word
  <2>2. R < G /\ pages' = Unmap(pages, host_alloc, n) /\ BrkIncr < 0
    BY <1>5, <2>1 DEF AllocShrink, Shrinks
  <2>3. R \in Nat /\ R % PageSize = 0
    BY <2>1, RoundUpType DEF Word
  <2>4. /\ host_alloc \in Nat /\ host_alloc < AddrSpace /\ GuestOffset <= host_alloc
        /\ guest_alloc <= G /\ guest_alloc \in Nat /\ guest_alloc < AddrSpace
    BY Layout DEF TypeOK, MmuTypeOK, Word, HeapAbove
  <2>5. G = host_alloc - GuestOffset
    BY <2>4, WrapCases, Layout DEF TO_GUEST
  <2>6. 2 * BrkTarget < AddrSpace
    <3>1. BrkTarget = guest_alloc \/ 2 * BrkTarget < AddrSpace
      BY DEF BrkTarget
    <3>2. BrkTarget # guest_alloc
      BY <2>2, <2>4, Layout DEF BrkIncr, Wrap, Signed
    <3> QED
      BY <3>1, <3>2
  <2>7. BrkTarget <= R
    <3>1. BrkTarget + PageSize <= AddrSpace
      BY <2>1, <2>6, PageFits, Layout
    <3> QED
      BY <2>1, <3>1, RoundUp
  <2> HIDE DEF R, n, G
  <2>8. h = g + GuestOffset
    <3>1. g \in Nat /\ g < AddrSpace /\ g + GuestOffset < AddrSpace
      BY <2>1, <2>6, Layout DEF Word
    <3> QED
      BY <3>1, WrapCases, Layout DEF TO_HOST, h
  <2>9. R + GuestOffset \in Nat /\ (R + GuestOffset) % PageSize = 0
    <3>1. /\ PageSize \in Nat \ {0} /\ GuestOffset \in Int /\ R \in Int
          /\ R % PageSize = 0 /\ GuestOffset % PageSize = 0
      BY <2>3, PageAssumption
    <3>2. (R + GuestOffset) % PageSize = 0
      BY <3>1, MultipleSum, Zenon
    <3> QED
      BY <2>3, <3>2, Layout
  <2>10. h < R + GuestOffset /\ R + GuestOffset <= host_alloc
    BY <2>1, <2>2, <2>3, <2>4, <2>5, <2>7, <2>8, Layout DEF Word
  <2>11. PageOf(h) < PageOf(host_alloc)
    BY <1>1, <2>4, <2>9, <2>10, EarlierPage
  <2>12. PageOf(h) \notin Span(host_alloc, n)
    BY <1>2, <2>4, <2>11, Layout DEF Span, PageOf
  <2>13. pages'[PageOf(h)] = pages[PageOf(h)]
    BY <1>1, <2>2, <2>12 DEF Unmap
  <2> QED
    BY <1>1, <2>13 DEF MappedIn, h
<1> QED
  BY <1>3, <1>4, <1>5 DEF mmu_alloc

LEMMA BrkRefines ==
  ASSUME BrkInLowerHalf, TypeOK, HeapAbove, sys_brk
  PROVE  Promise!Brk
<1>1. call.a7 = 214 /\ 2 * call.a0 < AddrSpace /\ mmu_alloc(BrkIncr) /\ call.a0 \in Nat
  BY BrkCalledLow, CallType DEF sys_brk, Word
<1>2. Promise!Called(214)
  BY <1>1, CalledNumber DEF sys_brk, Runs
<1>3. guest_alloc' = BrkTarget
  <2>1. guest_alloc' = NewBreak(BrkIncr)
    BY <1>1, Zenon DEF mmu_alloc, AllocWithin, AllocGrow, AllocShrink
  <2> QED
    BY <2>1, BrkExact
<1>4. fs' = fs /\ Promise!Answer(BrkTarget)
  BY SameArithmetic DEF sys_brk, Returns, Promise!Answer, GuestMode, Stopped
<1>5. ASSUME NEW g \in DOMAIN GuestMem, g < BrkTarget
      PROVE  g \in DOMAIN GuestMem' /\ GuestMem'[g] = GuestMem[g]
  <2>1. g \in Word /\ MappedIn(pages, TO_HOST(g)) /\ GuestMem[g] = At(TO_HOST(g))
    BY GuestMemory
  <2>2. MappedIn(pages', TO_HOST(g))
    BY <1>1, <1>5, <2>1, BrkKeeps
  <2>3. /\ g \in DOMAIN GuestMem'
        /\ GuestMem'[g] = IF TO_HOST(g) \in DOMAIN data' THEN data'[TO_HOST(g)] ELSE Nul
    BY <2>1, <2>2, GuestMemIs, MemOfIs
  <2>4. data' = [h \in {x \in DOMAIN data : MappedIn(pages', x)} |-> data[h]]
    BY DEF sys_brk
  <2> QED
    BY <2>1, <2>2, <2>3, <2>4 DEF At
<1> QED
  BY <1>2, <1>3, <1>4, <1>5 DEF Promise!Brk, BrkTarget

\* Exit, brk that is refused, and the numbers with no handler of their own.
LEMMA StopRefines ==
  ASSUME TypeOK, BrkStops \/ sys_exit \/ SyscallFatal
  PROVE  Promise!Stop
<1>1. /\ ctl = "ecall" /\ ctl' \in Stopped /\ UNCHANGED <<fs, guest_alloc, call, ret>>
      /\ do_syscall(call.a7) \in {"sys_brk", "sys_exit", "sys_unimplemented", "NULL"}
  BY DEF BrkStops, sys_exit, SyscallFatal, Runs, mmuVars, Stopped
<1>2. call.a7 \notin {63, 64, 56, 1024, 57, 62, 80, 169}
  BY <1>1, CallType, HandlerNumbers
<1>3. GuestMode = "call" /\ GuestMode' = "stop"
  BY <1>1 DEF GuestMode, Stopped
<1> QED
  BY <1>1, <1>2, <1>3 DEF Promise!Stop, Promise!Called

\* Every step of do_syscall is a step of the promise, or changes nothing in it.
LEMMA StepRefines ==
  ASSUME BrkInLowerHalf, TypeOK, HeapAbove, [Next]_vars
  PROVE  [Promise!Serve]_(Promise!guestVars)
<1>c. call.a0 \in Word /\ call.a1 \in Word /\ call.a2 \in Word /\ call.a7 \in Word
  BY CallType
<1>1. CASE Ecall
  <2>1. GuestMem' = GuestMem /\ guest_alloc' = guest_alloc /\ fs' = fs
    BY <1>1, SamePages DEF Ecall, mmuVars
  <2>2. GuestMode = "guest" /\ GuestMode' = "call"
    BY <1>1 DEF Ecall, GuestMode, Stopped
  <2>3. Promise!Ask
    BY <2>1, <2>2 DEF Promise!Ask
  <2> QED
    BY <2>3 DEF Promise!Serve
<1>2. CASE sys_read
  BY <1>2, ReadRefines DEF Promise!Serve
<1>3. CASE sys_write
  BY <1>3, WriteRefines DEF Promise!Serve
<1>4. CASE sys_openat
  <2>1. Promise!Called(56)
    BY <1>4, <1>c, HandlerNumbers, CalledNumber DEF sys_openat, Runs
  <2>2. UNCHANGED <<mmuVars, data, made>>
    BY <1>4 DEF sys_openat
  <2>3. CASE int(call.a0) = AT_FDCWD
    <3>1. Promise!OpenNamed(call.a1, call.a2)
      BY <1>4, <1>c, <2>2, <2>3, OpenRefines DEF sys_openat
    <3> QED
      BY <2>1, <2>3, <3>1, SameArithmetic
         DEF Promise!Serve, Promise!Openat, Promise!AT_FDCWD, AT_FDCWD
  <2>4. CASE int(call.a0) # AT_FDCWD
    <3>1. Promise!Done(Fail(fs))
      BY <1>4, <2>2, <2>4, DoneStep DEF sys_openat
    <3> QED
      BY <2>1, <2>4, <3>1, SameArithmetic, SameCalls
         DEF Promise!Serve, Promise!Openat, Promise!AT_FDCWD, AT_FDCWD
  <2> QED
    BY <2>3, <2>4
<1>5. CASE sys_open
  <2>1. Promise!Called(1024)
    BY <1>5, <1>c, HandlerNumbers, CalledNumber DEF sys_open, Runs
  <2>2. Promise!OpenNamed(call.a0, call.a1)
    BY <1>5, <1>c, OpenRefines DEF sys_open
  <2> QED
    BY <2>1, <2>2 DEF Promise!Serve, Promise!OldOpen
<1>6. CASE sys_close
  BY <1>6, CloseRefines DEF Promise!Serve
<1>7. CASE sys_lseek
  <2>1. Promise!Called(62)
    BY <1>7, <1>c, HandlerNumbers, CalledNumber DEF sys_lseek, Runs
  <2>2. Promise!Done(Seek(fs, int(call.a0), Signed(call.a1), int(call.a2)))
    BY <1>7, DoneStep DEF sys_lseek
  <2>3. Promise!Lseek
    BY <2>1, <2>2, SameArithmetic, SameCalls DEF Promise!Lseek
  <2> QED
    BY <2>3 DEF Promise!Serve
<1>8. CASE sys_fstat
  BY <1>8, FstatRefines DEF Promise!Serve
<1>9. CASE sys_gettimeofday
  BY <1>9, TimeRefines DEF Promise!Serve
<1>10. CASE sys_brk
  BY <1>10, BrkRefines DEF Promise!Serve
<1>11. CASE BrkStops \/ sys_exit \/ SyscallFatal
  BY <1>11, StopRefines DEF Promise!Serve
<1>12. CASE Terminated \/ UNCHANGED vars
  <2>1. UNCHANGED vars
    BY <1>12 DEF Terminated
  <2>2. GuestMem' = GuestMem
    BY <2>1, SamePages DEF vars, mmuVars
  <2>3. UNCHANGED <<fs, guest_alloc, call, ret>> /\ GuestMode' = GuestMode
    BY <2>1 DEF vars, mmuVars, GuestMode
  <2> QED
    BY <2>2, <2>3 DEF Promise!guestVars
<1> QED
  BY <1>1, <1>2, <1>3, <1>4, <1>5, <1>6, <1>7, <1>8, <1>9, <1>10, <1>11, <1>12, NextCases

\* Every call does what the guest's interface says, for any guest, host layout, files
\* and sequence of calls, as long as brk is asked for addresses of the lower half: the
\* tables, the rewritten flags, the translated pointers, the failures that come back as
\* -1, and the memory that mmu_alloc maps and unmaps all amount to the promise.
THEOREM CallsAsPromised ==
  ASSUME BrkInLowerHalf
  PROVE  Spec => RefinesFiles
<1>1. Init => Promise!Init
  <2> SUFFICES ASSUME Init PROVE Promise!Init
    OBVIOUS
  <2>1. DOMAIN fs.fds = 0 .. 2
    BY DEF Init
  <2>2. ret = 0 /\ GuestMode = "guest"
    BY DEF Init, GuestMode, Stopped
  <2> QED
    BY <2>1, <2>2 DEF Promise!Init
<1>2. HeapAbove /\ TypeOK /\ [Next]_vars => HeapAbove' /\ [Promise!Serve]_(Promise!guestVars)
  BY StepHeap, StepRefines
<1> QED
  BY <1>1, <1>2, InitHeap, TypesKept, PTL DEF Spec, RefinesFiles, Promise!Safety
=============================================================================
