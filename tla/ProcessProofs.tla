---------------------------- MODULE ProcessProofs ----------------------------
(***************************************************************************)
(* Process, for every host geometry, every set of ELF files and argument   *)
(* vectors: its types, the accounting of the program break, and what the   *)
(* guest finds when it starts - its segments where their headers say, and  *)
(* the argument vector that machine_setup builds.                          *)
(***************************************************************************)
EXTENDS Process, MmuProofs

-----------------------------------------------------------------------------
(* Types.                                                                  *)

\* The program header that LoadPhdr looks at is one of the file's.
LEMMA CurrentPhdr ==
  ASSUME TypeOK, ctl = "phdrs", i < Len(img.phdrs)
  PROVE  PhdrOK(img.phdrs[i + 1])
<1>1. img \in Images /\ img \in Image
  BY ProcessAssumption DEF TypeOK
<1>2. img.phdrs \in Seq(Phdr)
  BY <1>1 DEF Image
<1>3. i + 1 \in DOMAIN img.phdrs
  BY <1>2 DEF TypeOK, Loading
<1>4. img.phdrs[i + 1] \in Phdr
  BY <1>2, <1>3
<1>5. img.phdrs[i + 1].vaddr + GuestOffset < AddrSpace
  BY <1>1, <1>3, ProcessAssumption
<1>6. QED
  BY <1>4, <1>5 DEF PhdrOK, Phdr

\* The argument that PushArg copies is one of the host's, and short.
LEMMA CurrentArg ==
  ASSUME TypeOK, ctl = "argv", i > 0
  PROVE  ArgLen \in Nat /\ ArgLen < HostLimit /\ ArgAlloc = ArgLen + 1
<1>1. argv \in ArgVectors /\ argv \in Seq(Nat)
  BY ProcessAssumption DEF TypeOK
<1>2. i + 1 \in DOMAIN argv
  BY <1>1 DEF TypeOK, argc
<1>3. argv[i + 1] \in Nat
  BY <1>1, <1>2
<1>4. argv[i + 1] < HostLimit
  BY <1>1, <1>2, ProcessAssumption
<1>5. QED
  BY <1>3, <1>4 DEF ArgLen, ArgAlloc

\* The constants that machine_setup adds and subtracts are integers.
LEMMA SetupTypes ==
  ASSUME TypeOK
  PROVE  /\ guest_alloc \in Nat /\ sp \in Nat /\ base \in Nat /\ host_alloc \in Nat
         /\ PtrSize \in Nat /\ StackSize \in Nat
         /\ argc \in Nat
         /\ ArgSlot \in Word
<1>1. guest_alloc \in Nat /\ sp \in Nat /\ base \in Nat /\ host_alloc \in Nat
  BY DEF TypeOK, MmuTypeOK, Word
<1>2. PtrSize \in Nat /\ StackSize \in Nat
  BY ProcessAssumption
<1>3. argc \in Nat
  BY ProcessAssumption DEF TypeOK, argc
<1>4. sp - PtrSize \in Int
  BY <1>1, <1>2
<1>5. QED
  BY <1>1, <1>2, <1>3, <1>4, WrapType DEF ArgSlot

\* The increment that sys_brk computes is an integer.
LEMMA BrkTypes ==
  ASSUME TypeOK, NEW a \in BrkArgs
  PROVE  BrkTarget(a) \in Word /\ BrkIncr(a) \in Int
<1>1. a \in Word /\ guest_alloc \in Word
  BY ProcessAssumption DEF TypeOK, MmuTypeOK
<1>2. BrkTarget(a) \in Word
  BY <1>1 DEF BrkTarget
<1>3. BrkTarget(a) - guest_alloc \in Int
  BY <1>1, <1>2 DEF Word
<1>4. Wrap(BrkTarget(a) - guest_alloc) \in Word
  BY <1>3, WrapType
<1>5. QED
  BY <1>2, <1>4, WordAssumption DEF BrkIncr, Signed, Word

\* Every program state has the types TypeOK gives: the loops of mmu_load_elf
\* and machine_setup index their tables in range, and all of mmu_t stays a word.
THEOREM TypeCorrect == Spec => []TypeOK
<1>1. Init => TypeOK
  <2> SUFFICES ASSUME Init PROVE TypeOK
    OBVIOUS
  <2>1. 0 \in Word
    BY WordAssumption DEF Word
  <2>2. MmuTypeOK
    BY <2>1 DEF Init, MmuInit, MmuTypeOK, Frame
  <2>3. DOMAIN data \subseteq Word
    BY DEF Init
  <2>4. QED
    BY <2>1, <2>2, <2>3 DEF Init, TypeOK, Ctl, Loading
<1>2. TypeOK /\ [Next]_vars => TypeOK'
  <2> SUFFICES ASSUME TypeOK, [Next]_vars PROVE TypeOK'
    OBVIOUS
  <2>1. CASE Open
    BY <2>1 DEF Open, TypeOK, MmuTypeOK, mmuVars, Ctl, Loading, argc
  <2>2. CASE OpenFails
    BY <2>2 DEF OpenFails, TypeOK, MmuTypeOK, mmuVars, Ctl, Loading, Stopped, argc
  <2>3. CASE ReadHeader
    <3>1. img.entry \in Word
      BY ProcessAssumption DEF TypeOK, Image
    <3>2. QED
      BY <2>3, <3>1 DEF ReadHeader, TypeOK, MmuTypeOK, Ctl, Loading, Stopped, argc
  <2>4. CASE LoadPhdr
    <3>1. MmuTypeOK'
      <4>1. CASE img.phdrs[i + 1].type = "PT_LOAD"
        BY <2>4, <4>1, CurrentPhdr, SegmentType DEF LoadPhdr, TypeOK
      <4>2. CASE img.phdrs[i + 1].type # "PT_LOAD"
        BY <2>4, <4>2 DEF LoadPhdr, TypeOK, MmuTypeOK, mmuVars
      <4>3. QED
        BY <4>1, <4>2
    <3>2. QED
      BY <2>4, <3>1 DEF LoadPhdr, TypeOK, Ctl, Loading, argc
  <2>5. CASE LoadPhdrFails
    BY <2>5 DEF LoadPhdrFails, TypeOK, MmuTypeOK, mmuVars, Ctl, Loading, Stopped, argc
  <2>6. CASE LoadDone
    BY <2>6 DEF LoadDone, TypeOK, MmuTypeOK, mmuVars, Ctl, Loading, argc
  <2>7. CASE SetupStack
    <3>1. MmuTypeOK'
      BY <2>7, SetupTypes, AllocType DEF SetupStack, TypeOK
    <3>2. Wrap(guest_alloc + StackSize - 3 * PtrSize) \in Word
      <4>1. guest_alloc + StackSize - 3 * PtrSize \in Int
        BY SetupTypes
      <4>2. QED
        BY <4>1, WrapType
    <3>3. argc - 1 \in Int /\ argc - 1 < argc
      BY SetupTypes
    <3>4. QED
      BY <2>7, <3>1, <3>2, <3>3
      DEF SetupStack, TypeOK, MmuTypeOK, Ctl, Loading, argc
  <2>8. CASE PushArg
    <3>1. ctl = "argv" /\ i > 0
      BY <2>8 DEF PushArg
    <3>2. ArgLen \in Nat /\ ArgAlloc \in Int /\ guest_alloc \in Word /\ ArgSlot \in Word /\ PtrSize \in Nat
      BY <3>1, CurrentArg, SetupTypes DEF TypeOK, MmuTypeOK
    <3>3. MmuTypeOK'
      BY <2>8, <3>2, AllocType DEF PushArg, TypeOK
    <3>4. DOMAIN data' \subseteq Word
      <4> DEFINE str == mmu_write(data, guest_alloc, ArgLen, LAMBDA j : StringByte(i, j))
                 all == mmu_write(str, ArgSlot, PtrSize, LAMBDA b : WordByte(guest_alloc, b))
      <4>1. Bytes(guest_alloc, ArgLen) \subseteq Word /\ Bytes(ArgSlot, PtrSize) \subseteq Word
        BY <3>2, WrapType DEF Bytes, Word
      <4>2. DOMAIN all = DOMAIN data \cup Bytes(guest_alloc, ArgLen) \cup Bytes(ArgSlot, PtrSize)
        BY DEF mmu_write
      <4>3. data' = all \/ data' = data
        BY <2>8 DEF PushArg
      <4>4. QED
        BY <4>1, <4>2, <4>3 DEF TypeOK
    <3>5. /\ ctl' \in Ctl /\ i' \in Int
          /\ ctl' \notin Loading /\ (ctl' = "argv" => i' < argc)
      BY <2>8, SetupTypes DEF PushArg, TypeOK, Ctl, Loading, Stopped
    <3>6. QED
      BY <2>8, <3>2, <3>3, <3>4, <3>5 DEF PushArg, TypeOK, argc
  <2>9. CASE SetupFails
    BY <2>9 DEF SetupFails, TypeOK, MmuTypeOK, mmuVars, Ctl, Loading, Stopped, argc
  <2>10. CASE PushArgc
    <3>1. ArgSlot \in Word /\ PtrSize \in Nat
      BY SetupTypes
    <3>2. DOMAIN data' \subseteq Word
      <4>1. Bytes(ArgSlot, PtrSize) \subseteq Word
        BY <3>1, WrapType DEF Bytes, Word
      <4>2. DOMAIN data' \subseteq DOMAIN data \cup Bytes(ArgSlot, PtrSize)
        BY <2>10 DEF PushArgc, mmu_write
      <4>3. QED
        BY <4>1, <4>2 DEF TypeOK
    <3>3. QED
      BY <2>10, <3>1, <3>2
      DEF PushArgc, TypeOK, MmuTypeOK, mmuVars, Ctl, Loading, Stopped, argc
  <2>11. ASSUME NEW a \in BrkArgs, sys_brk(a) PROVE TypeOK'
    <3>1. BrkTarget(a) \in Word /\ BrkIncr(a) \in Int
      BY BrkTypes
    <3>2. MmuTypeOK'
      BY <2>11, <3>1, AllocType DEF sys_brk, TypeOK
    <3>3. DOMAIN data' \subseteq Word
      BY <2>11 DEF sys_brk, TypeOK
    <3>4. QED
      BY <2>11, <3>1, <3>2, <3>3 DEF sys_brk, TypeOK, Loading, argc
  <2>12. ASSUME NEW a \in BrkArgs, BrkFails(a) PROVE TypeOK'
    BY <2>12 DEF BrkFails, TypeOK, MmuTypeOK, mmuVars, Ctl, Loading, Stopped, argc
  <2>13. CASE sys_exit
    BY <2>13 DEF sys_exit, TypeOK, MmuTypeOK, mmuVars, Ctl, Loading, Stopped, argc
  <2>14. CASE UNCHANGED vars
    BY <2>14 DEF vars, mmuVars, TypeOK, MmuTypeOK, argc
  <2>15. QED
    BY <2>1, <2>2, <2>3, <2>4, <2>5, <2>6, <2>7, <2>8, <2>9, <2>10, <2>11, <2>12,
       <2>13, <2>14 DEF Next, Startup, Syscall, Terminated
<1>3. QED
  BY <1>1, <1>2, PTL DEF Spec

-----------------------------------------------------------------------------
(* The accounting of the break.                                            *)

\* What the constants are, for arithmetic.
LEMMA Geometry ==
  /\ PageSize \in Nat \ {0} /\ AddrSpace \in Nat /\ HostLimit \in Nat
  /\ GuestOffset \in Nat /\ 0 < GuestOffset /\ GuestOffset < HostLimit
  /\ GuestOffset % PageSize = 0 /\ HostLimit % PageSize = 0
  /\ 4 * HostLimit <= AddrSpace
  /\ PageSize <= HostLimit
  /\ StackSize \in Nat /\ 0 < StackSize /\ StackSize <= HostLimit
BY PageAssumption, WordAssumption, ProcessAssumption, PageFits

\* TO_GUEST undoes TO_HOST above the offset.
LEMMA GuestOf ==
  ASSUME NEW h \in Nat, GuestOffset <= h, h < AddrSpace
  PROVE  TO_GUEST(h) = h - GuestOffset
<1>1. h - GuestOffset \in Word
  BY Geometry DEF Word
<1>2. QED
  BY <1>1, WrapInRange DEF TO_GUEST

\* What mmu_load_segment needs of the state, and what it leaves: a segment
\* extends the area, and nothing is mapped beyond it.
LEMMA LoadPlaces ==
  ASSUME TypeOK, NoImage \/ Placed, ctl = "phdrs", ~trimmed, ctl' = "phdrs",
         NEW phdr, PhdrOK(phdr), LoadSegment(phdr)
  PROVE  Placed' /\ ~trimmed' /\ displaced' = displaced
<1> DEFINE e == SegmentEnd(phdr)
<1>1. InUserSpace(Aligned(phdr), FileSize(phdr))
  BY DEF LoadSegment
<1>2. BssSize(phdr) > 0 => InUserSpace(FileEnd(phdr), BssSize(phdr))
  BY DEF LoadSegment
<1>3. /\ e \in Nat /\ e % PageSize = 0
      /\ GuestOffset < e /\ e <= HostLimit
      /\ FileEnd(phdr) % PageSize = 0
      /\ Aligned(phdr) + FileSize(phdr) <= e
      /\ BssSize(phdr) > 0 => FileEnd(phdr) + BssSize(phdr) <= e
  BY <1>1, <1>2, SegmentGeometry
<1>4. host_alloc' = MAX(host_alloc, e) /\ base' = TO_GUEST(host_alloc')
      /\ guest_alloc' = base' /\ trimmed' = trimmed /\ displaced' = displaced
  BY DEF LoadSegment, SegmentEnd
<1>5. /\ Aligned(phdr) \in Nat /\ Aligned(phdr) % PageSize = 0
      /\ FileSize(phdr) \in Nat /\ FileSize(phdr) > 0
      /\ FileEnd(phdr) \in Nat /\ BssSize(phdr) \in Nat
  BY <1>1, SegmentLocals DEF Word, InUserSpace
<1> HIDE DEF e
<1>6. host_alloc \in Nat /\ host_alloc % PageSize = 0 /\ host_alloc <= HostLimit
  BY Geometry, SetupTypes DEF NoImage, Placed
<1>7. /\ host_alloc' \in Nat /\ host_alloc' % PageSize = 0
      /\ GuestOffset < host_alloc' /\ host_alloc' <= HostLimit
      /\ host_alloc <= host_alloc' /\ e <= host_alloc'
  BY <1>3, <1>4, <1>6, Geometry DEF MAX
<1>8. base' = host_alloc' - GuestOffset /\ base' \in Nat /\ base' > 0
  BY <1>4, <1>7, GuestOf, Geometry
<1>9. base' % PageSize = 0
  <2>1. host_alloc' \in Int /\ GuestOffset \in Int
    BY <1>7, Geometry
  <2>2. (host_alloc' - GuestOffset) % PageSize = 0
    BY <1>7, <2>1, Geometry, MultipleSum
  <2>3. QED
    BY <1>8, <2>2
<1>10. ASSUME NEW p \in Page, host_alloc' <= p * PageSize
       PROVE  pages'[p] = Unmapped
  <2>1. p \in Int /\ p * PageSize \in Int
    BY Geometry DEF Page
  <2>2. p \notin Span(Aligned(phdr), FileSize(phdr))
    BY <1>3, <1>5, <1>7, <1>10, <2>1, SpanBytes
  <2>3. BssSize(phdr) > 0 => p \notin Span(FileEnd(phdr), BssSize(phdr))
    BY <1>3, <1>5, <1>7, <1>10, <2>1, SpanBytes
  <2>4. pages'[p] = pages[p]
    BY <2>2, <2>3 DEF LoadSegment, SegmentPages, MapFile, MapAnon
  <2>5. pages[p] = Unmapped
    BY <1>6, <1>7, <1>10, <2>1 DEF NoImage, Placed
  <2>6. QED
    BY <2>4, <2>5
<1>11. QED
  <2>1. \A p \in Page :
          ~(base' + GuestOffset <= p * PageSize /\ p * PageSize < host_alloc')
    <3>1. PICK H \in Nat : H = host_alloc'
      BY <1>7
    <3>2. GuestOffset \in Nat /\ \A p \in Page : p * PageSize \in Int
      BY Geometry DEF Page
    <3>3. base' + GuestOffset = H
      <4>1. (H - GuestOffset) + GuestOffset = H
        BY <3>2
      <4>2. QED
        BY <1>8, <3>1, <4>1, Zenon
    <3>4. \A p \in Page : ~(H <= p * PageSize /\ p * PageSize < H)
      BY <3>2
    <3>5. QED
      BY <3>1, <3>3, <3>4, Zenon
  <2>2. guest_alloc' + GuestOffset = host_alloc'
    BY <1>4, <1>7, <1>8, Geometry
  <2>3. QED
    BY <1>4, <1>7, <1>8, <1>9, <1>10, <2>1, <2>2, Geometry DEF Placed, Loading

\* A break of a program without segments only moves up, within the range
\* that mmu_alloc believes to be mapped already.
LEMMA AllocNoImage ==
  ASSUME TypeOK, NoImage, ~displaced, NEW size \in Nat, size > 0,
         guest_alloc + size <= 2 * HostLimit, mmu_alloc(size)
  PROVE  /\ guest_alloc' = guest_alloc + size
         /\ UNCHANGED <<entry, host_alloc, base, pages, trimmed, displaced>>
<1>1. guest_alloc \in Nat /\ host_alloc = 0
  BY SetupTypes DEF NoImage
<1>2. NewBreak(size) = guest_alloc + size
  <2>1. guest_alloc + size \in Word
    BY <1>1, Geometry DEF Word
  <2>2. QED
    BY <2>1, WrapInRange DEF NewBreak
<1>3. TO_GUEST(host_alloc) = AddrSpace - GuestOffset
  BY <1>1, Geometry, WrapNegative DEF TO_GUEST
<1>4. ~Grows(size) /\ ~Shrinks(size)
  BY <1>1, <1>2, <1>3, Geometry DEF Grows, Shrinks
<1>5. AllocWithin(size)
  BY <1>4 DEF mmu_alloc, AllocGrow, AllocShrink
<1>6. QED
  BY <1>2, <1>5 DEF AllocWithin

\* mmu_alloc keeps the accounting of a loaded program, unless its mmap is
\* placed away from the hint; that takes an earlier munmap or an area that
\* grows past the end of the user address space.
LEMMA AllocPlaces ==
  ASSUME TypeOK, Placed, ~displaced, ctl' \notin Loading,
         NEW size \in Int, 2 * size <= AddrSpace, guest_alloc + size >= 0,
         mmu_alloc(size)
  PROVE  /\ ~displaced' => Placed'
         /\ displaced' => trimmed \/ host_alloc' > HostLimit
<1>1. /\ guest_alloc \in Nat /\ base \in Nat /\ host_alloc \in Nat
      /\ base > 0 /\ base % PageSize = 0 /\ host_alloc % PageSize = 0
      /\ base <= guest_alloc /\ guest_alloc + GuestOffset <= host_alloc
      /\ host_alloc <= HostLimit
  BY SetupTypes DEF Placed
<1>2. NewBreak(size) = guest_alloc + size /\ guest_alloc + size \in Nat
  <2>1. guest_alloc + size \in Word
    BY <1>1, Geometry DEF Word
  <2>2. QED
    BY <2>1, WrapInRange DEF NewBreak, Word
<1>3. TO_GUEST(host_alloc) = host_alloc - GuestOffset
  BY <1>1, GuestOf, Geometry
<1>4. AllocAsserts(size) /\ guest_alloc + size >= base
  BY <1>2 DEF mmu_alloc, AllocWithin, AllocGrow, AllocShrink, AllocAsserts
<1>5. CASE AllocWithin(size)
  <2>1. guest_alloc' + GuestOffset <= host_alloc /\ guest_alloc' >= base
    BY <1>1, <1>2, <1>3, <1>4, <1>5, Geometry DEF AllocWithin, Grows
  <2>2. QED
    BY <1>1, <1>5, <2>1 DEF AllocWithin, Placed
<1>6. CASE AllocGrow(size)
  <2> DEFINE n == ROUNDUP(size, PageSize)
  <2>1. size \in Nat /\ size > 0 /\ size + PageSize <= AddrSpace
    BY <1>6, Geometry DEF AllocGrow, Grows
  <2>2. n \in Nat /\ n % PageSize = 0 /\ size <= n
    BY <2>1, RoundUp DEF Word
  <2>3. /\ InUserSpace(0, n) /\ guest_alloc' = NewBreak(size)
        /\ host_alloc' = Wrap(host_alloc + n)
        /\ \/ /\ HintFree(pages, host_alloc, n)
              /\ pages' = MapAnon(pages, host_alloc, n)
              /\ displaced' = displaced
           \/ /\ ~HintFree(pages, host_alloc, n)
              /\ displaced' = TRUE
              /\ pages' = pages
        /\ base' = base /\ trimmed' = trimmed
    BY <1>6 DEF AllocGrow
  <2> HIDE DEF n
  <2>4. n > 0 /\ n <= HostLimit
    BY <2>2, <2>3 DEF InUserSpace
  <2>5. host_alloc' = host_alloc + n
    <3>1. host_alloc + n \in Word
      BY <1>1, <2>2, <2>4, Geometry DEF Word
    <3>2. QED
      BY <2>3, <3>1, WrapInRange
  <2>6. CASE HintFree(pages, host_alloc, n)
    <3>1. host_alloc + n <= HostLimit
      BY <2>6 DEF HintFree, InUserSpace
    <3>2. guest_alloc' + GuestOffset <= host_alloc' /\ base' <= guest_alloc'
      BY <1>1, <1>2, <1>4, <2>2, <2>3, <2>5, Geometry
    <3>3. (host_alloc + n) % PageSize = 0
      <4>1. host_alloc \in Int /\ n \in Int
        BY <1>1, <2>2
      <4>2. QED
        BY <1>1, <2>2, <4>1, Geometry, MultipleSum
    <3>4. ASSUME NEW p \in Page
          PROVE  /\ base' + GuestOffset <= p * PageSize /\ p * PageSize < host_alloc' =>
                      pages'[p] # Unmapped
                 /\ ~trimmed' /\ host_alloc' <= p * PageSize => pages'[p] = Unmapped
      <4>1. p \in Int /\ p * PageSize \in Int
        BY Geometry DEF Page
      <4>2. p \in Span(host_alloc, n) <=>
              host_alloc <= p * PageSize /\ p * PageSize < host_alloc + n
        BY <1>1, <2>2, <2>4, <4>1, SpanBytes
      <4>3. pages'[p] = IF p \in Span(host_alloc, n) THEN Anonymous ELSE pages[p]
        BY <2>3, <2>6 DEF MapAnon
      <4>4. Anonymous # Unmapped
        BY DEF Anonymous, Unmapped
      <4>5. /\ base + GuestOffset <= p * PageSize /\ p * PageSize < host_alloc =>
                  pages[p] # Unmapped
            /\ ~trimmed /\ host_alloc <= p * PageSize => pages[p] = Unmapped
        BY DEF Placed
      <4>6. QED
        BY <1>1, <2>2, <2>3, <2>5, <4>1, <4>2, <4>3, <4>4, <4>5
    <3>5. QED
      BY <1>1, <2>3, <2>5, <2>6, <3>1, <3>2, <3>3, <3>4 DEF Placed
  <2>7. CASE ~HintFree(pages, host_alloc, n)
    <3>1. ASSUME ~trimmed, host_alloc + n <= HostLimit PROVE FALSE
      <4>1. InUserSpace(host_alloc, n)
        BY <2>4, <3>1 DEF InUserSpace
      <4>2. host_alloc > 0
        BY <1>1, Geometry
      <4>3. ASSUME NEW p \in Span(host_alloc, n) PROVE pages[p] = Unmapped
        <5>1. p \in Int
          BY DEF Span
        <5>2. p \in Page
          BY <1>1, <2>2, <4>1, <4>3, <5>1, SpanPages
        <5>3. host_alloc <= p * PageSize
          BY <1>1, <2>2, <2>4, <4>3, <5>1, SpanBytes
        <5>4. QED
          BY <3>1, <5>2, <5>3 DEF Placed
      <4>4. QED
        BY <2>7, <4>1, <4>2, <4>3 DEF HintFree
    <3>2. QED
      BY <2>3, <2>5, <2>7, <3>1, <1>1, <2>2, Geometry
  <2>8. QED
    BY <2>6, <2>7
<1>7. CASE AllocShrink(size)
  <2> DEFINE r == ROUNDUP(NewBreak(size), PageSize)
             m == Wrap(TO_GUEST(host_alloc) - r)
  <2>1. size < 0 /\ r < TO_GUEST(host_alloc)
    BY <1>7 DEF AllocShrink, Shrinks
  <2>2. /\ InUserSpace(host_alloc, m) /\ guest_alloc' = NewBreak(size)
        /\ pages' = Unmap(pages, host_alloc, m)
        /\ host_alloc' = Wrap(host_alloc - m)
        /\ trimmed' = TRUE /\ base' = base /\ displaced' = displaced
    BY <1>7 DEF AllocShrink
  <2>3. r \in Nat /\ r % PageSize = 0 /\ guest_alloc + size <= r
    <3>1. guest_alloc + size + PageSize <= AddrSpace
      BY <1>1, <2>1, Geometry
    <3>2. QED
      BY <1>2, <3>1, RoundUp DEF Word
  <2> HIDE DEF r
  <2>4. m = host_alloc - GuestOffset - r /\ m \in Nat
    <3>1. host_alloc - GuestOffset - r \in Word
      BY <1>1, <1>3, <2>1, <2>3, Geometry DEF Word
    <3>2. QED
      BY <1>3, <3>1, WrapInRange DEF Word
  <2> HIDE DEF m
  <2>5. host_alloc' = r + GuestOffset
    <3>1. host_alloc - m = r + GuestOffset
      BY <1>1, <2>3, <2>4, Geometry
    <3>2. r + GuestOffset \in Word
      BY <1>1, <1>3, <2>1, <2>3, Geometry DEF Word
    <3>3. QED
      BY <2>2, <3>1, <3>2, WrapInRange
  <2>6. (r + GuestOffset) % PageSize = 0
    <3>1. r \in Int /\ GuestOffset \in Int
      BY <2>3, Geometry
    <3>2. QED
      BY <2>3, <3>1, Geometry, MultipleSum
  <2>7. host_alloc' < host_alloc
    BY <1>1, <1>3, <2>1, <2>3, <2>5, Geometry
  <2>8. ASSUME NEW p \in Page,
               base' + GuestOffset <= p * PageSize, p * PageSize < host_alloc'
        PROVE  pages'[p] # Unmapped
    <3>1. p \in Int /\ p * PageSize \in Int
      BY Geometry DEF Page
    <3>2. p * PageSize < host_alloc
      BY <1>1, <2>3, <2>5, <2>7, <2>8, <3>1, Geometry
    <3>3. p \notin Span(host_alloc, m)
      BY <1>1, <2>2, <2>4, <3>1, <3>2, SpanBytes DEF InUserSpace
    <3>4. pages'[p] = pages[p]
      BY <2>2, <3>3 DEF Unmap
    <3>5. QED
      BY <2>2, <2>8, <3>2, <3>4 DEF Placed
  <2>9. QED
    BY <1>1, <1>2, <1>4, <2>2, <2>3, <2>5, <2>6, <2>7, <2>8, Geometry DEF Placed
<1>8. QED
  BY <1>5, <1>6, <1>7 DEF mmu_alloc

\* For addresses below the middle of the address space sys_brk's int64_t
\* increment is the true difference, so the break ends up where asked.
LEMMA BrkExact ==
  ASSUME BrkArgsInRange, TypeOK, Placed, NEW a \in BrkArgs
  PROVE  /\ BrkIncr(a) \in Int /\ 2 * BrkIncr(a) <= AddrSpace
         /\ guest_alloc + BrkIncr(a) = BrkTarget(a) /\ BrkTarget(a) \in Nat
<1>1. guest_alloc \in Nat /\ 2 * guest_alloc < AddrSpace
  BY SetupTypes, Geometry DEF Placed
<1>2. BrkTarget(a) \in Nat /\ 2 * BrkTarget(a) < AddrSpace
  <2>1. a \in Nat /\ 2 * a < AddrSpace
    BY ProcessAssumption DEF BrkArgsInRange, Word
  <2>2. QED
    BY <1>1, <2>1 DEF BrkTarget
<1> DEFINE d == BrkTarget(a) - guest_alloc
<1>3. d \in Int /\ 2 * d < AddrSpace /\ -AddrSpace < 2 * d
  BY <1>1, <1>2, Geometry
<1> HIDE DEF d
<1>4. Signed(Wrap(d)) = d
  <2>1. CASE d >= 0
    <3>1. d \in Word
      BY <1>3, <2>1, Geometry DEF Word
    <3>2. QED
      BY <1>3, <2>1, <3>1, WrapInRange, Geometry DEF Signed
  <2>2. CASE d < 0
    <3>1. Wrap(d) = d + AddrSpace
      BY <1>3, <2>2, WrapNegative, Geometry
    <3>2. QED
      BY <1>3, <2>2, <3>1, Geometry DEF Signed
  <2>3. QED
    BY <1>3, <2>1, <2>2
<1>5. BrkIncr(a) = d
  BY <1>4 DEF BrkIncr, d
<1>6. QED
  BY <1>1, <1>2, <1>3, <1>5, WordAssumption DEF d

\* Accounting is inductive: each step of main keeps it.
LEMMA AccountingStep ==
  ASSUME BrkArgsInRange, TypeOK, Accounting, [Next]_vars
  PROVE  /\ Accounting'
         /\ displaced' /\ ~displaced => trimmed \/ host_alloc' > HostLimit
<1>1. CASE UNCHANGED mmuVars /\ ctl' \notin Loading \cup {"argv", "run"}
  BY <1>1 DEF Accounting, NoImage, Placed, mmuVars
<1>2. CASE UNCHANGED mmuVars /\ ctl \in Loading /\ ctl' \in Loading
  BY <1>2 DEF Accounting, NoImage, Placed, mmuVars, Loading
<1>3. CASE OpenFails \/ LoadPhdrFails \/ SetupFails \/ sys_exit
           \/ (\E a \in BrkArgs : BrkFails(a))
  <2>1. UNCHANGED mmuVars /\ ctl' \notin Loading \cup {"argv", "run"}
    BY <1>3 DEF OpenFails, LoadPhdrFails, SetupFails, sys_exit, BrkFails, Loading
  <2>2. QED
    BY <1>1, <2>1
<1>4. CASE Open \/ LoadDone
  <2>1. UNCHANGED mmuVars /\ ctl \in Loading /\ ctl' \in Loading
    BY <1>4 DEF Open, LoadDone, Loading
  <2>2. QED
    BY <1>2, <2>1
<1>5. CASE ReadHeader
  BY <1>5 DEF ReadHeader, Accounting, NoImage, Placed, Loading
<1>6. CASE LoadPhdr
  <2>1. ctl = "phdrs" /\ ctl' = "phdrs" /\ i < Len(img.phdrs)
    BY <1>6 DEF LoadPhdr
  <2>2. ~displaced /\ (NoImage \/ Placed) /\ ~trimmed
    BY <2>1 DEF Accounting, NoImage, Placed, Loading
  <2>3. CASE img.phdrs[i + 1].type = "PT_LOAD"
    <3>1. LoadSegment(img.phdrs[i + 1])
      BY <1>6, <2>3 DEF LoadPhdr
    <3>2. PhdrOK(img.phdrs[i + 1])
      BY <2>1, CurrentPhdr
    <3>3. Placed' /\ displaced' = displaced
      BY <2>1, <2>2, <3>1, <3>2, LoadPlaces
    <3>4. QED
      BY <2>2, <3>3 DEF Accounting
  <2>4. CASE img.phdrs[i + 1].type # "PT_LOAD"
    <3>1. UNCHANGED mmuVars
      BY <1>6, <2>4 DEF LoadPhdr
    <3>2. QED
      BY <1>2, <2>1, <3>1 DEF Loading
  <2>5. QED
    BY <2>3, <2>4
<1>7. CASE SetupStack
  <2>1. ctl = "setup" /\ ctl' = "argv" /\ mmu_alloc(StackSize)
    BY <1>7 DEF SetupStack
  <2>2. ~displaced /\ (NoImage \/ Placed)
    BY <2>1 DEF Accounting, Loading
  <2>3. CASE NoImage
    <3>1. guest_alloc = 0
      BY <2>1, <2>3 DEF NoImage, Loading
    <3>2. /\ guest_alloc' = guest_alloc + StackSize
          /\ UNCHANGED <<entry, host_alloc, base, pages, trimmed, displaced>>
      BY <2>1, <2>2, <2>3, <3>1, AllocNoImage, Geometry
    <3>3. QED
      BY <2>1, <2>2, <2>3, <3>1, <3>2, Geometry DEF Accounting, NoImage, Loading
  <2>4. CASE Placed
    <3>1. /\ ~displaced' => Placed'
          /\ displaced' => trimmed \/ host_alloc' > HostLimit
      BY <2>1, <2>2, <2>4, AllocPlaces, Geometry, SetupTypes DEF Loading
    <3>2. QED
      BY <2>1, <3>1 DEF Accounting, Loading
  <2>5. QED
    BY <2>2, <2>3, <2>4
<1>8. CASE PushArg
  <2>1. ctl = "argv" /\ i > 0 /\ ctl' \in {"argv", "crashed"} /\ mmu_alloc(ArgAlloc)
    BY <1>8 DEF PushArg
  <2>2. ArgLen \in Nat /\ ArgLen + 1 <= HostLimit /\ ArgAlloc = ArgLen + 1
    BY <2>1, CurrentArg, Geometry
  <2>3. CASE displaced
    <3>1. displaced'
      BY <2>1, <2>3 DEF mmu_alloc, AllocWithin, AllocGrow, AllocShrink
    <3>2. QED
      BY <2>1, <2>3, <3>1 DEF Accounting, Loading
  <2>4. CASE ~displaced /\ NoImage
    <3>1. guest_alloc \in Nat /\ guest_alloc + (ArgLen + 1) <= 2 * HostLimit
      BY <2>1, <2>2, <2>4, SetupTypes, Geometry DEF NoImage
    <3>2. /\ guest_alloc' = guest_alloc + (ArgLen + 1)
          /\ UNCHANGED <<entry, host_alloc, base, pages, trimmed, displaced>>
      BY <2>1, <2>2, <2>4, <3>1, AllocNoImage
    <3>3. ctl' = "crashed"
      <4>1. ~Writable(pages', ArgSlot, PtrSize)
        <5>1. PtrSize \in Nat \ {0} /\ ArgSlot \in Word
          BY ProcessAssumption, SetupTypes
        <5>2. Wrap(ArgSlot + 0) \in Bytes(ArgSlot, PtrSize)
          BY <5>1 DEF Bytes, Word
        <5>3. ArgSlot \in Bytes(ArgSlot, PtrSize)
          BY <5>1, <5>2, WrapInRange DEF Word
        <5>4. TO_HOST(ArgSlot) \in Nat
          BY <5>1, WrapType, Geometry DEF TO_HOST, Word
        <5>5. ~MappedIn(pages, TO_HOST(ArgSlot))
          BY <2>4, <5>4, PageOfAddress DEF MappedIn, NoImage
        <5>6. QED
          BY <3>2, <5>3, <5>5 DEF Writable
      <4>2. QED
        BY <1>8, <4>1 DEF PushArg
    <3>4. QED
      BY <2>4, <3>1, <3>2, <3>3 DEF Accounting, NoImage, Loading
  <2>5. CASE ~displaced /\ Placed
    <3>1. guest_alloc + ArgAlloc >= 0 /\ 2 * ArgAlloc <= AddrSpace /\ ArgAlloc \in Int
      BY <2>2, SetupTypes, Geometry
    <3>2. /\ ~displaced' => Placed'
          /\ displaced' => trimmed \/ host_alloc' > HostLimit
      BY <2>1, <2>5, <3>1, AllocPlaces DEF Loading
    <3>3. QED
      BY <2>1, <3>2 DEF Accounting, Loading
  <2>6. QED
    BY <2>3, <2>4, <2>5 DEF Accounting
<1>9. CASE PushArgc
  <2>1. /\ UNCHANGED mmuVars /\ ctl = "argv" /\ ctl' \in {"run", "crashed"}
        /\ ctl' = "run" => Writable(pages, ArgSlot, PtrSize)
    BY <1>9 DEF PushArgc
  <2>2. NoImage => ~Writable(pages, ArgSlot, PtrSize)
    <3>1. PtrSize \in Nat \ {0} /\ ArgSlot \in Word
      BY ProcessAssumption, SetupTypes
    <3>2. Wrap(ArgSlot + 0) \in Bytes(ArgSlot, PtrSize)
      BY <3>1 DEF Bytes, Word
    <3>3. ArgSlot \in Bytes(ArgSlot, PtrSize)
      BY <3>1, <3>2, WrapInRange DEF Word
    <3>4. TO_HOST(ArgSlot) \in Nat
      BY <3>1, WrapType, Geometry DEF TO_HOST, Word
    <3>5. NoImage => ~MappedIn(pages, TO_HOST(ArgSlot))
      BY <3>4, PageOfAddress DEF MappedIn, NoImage
    <3>6. QED
      BY <3>3, <3>5 DEF Writable
  <2>3. QED
    BY <2>1, <2>2 DEF Accounting, NoImage, Placed, mmuVars, Loading
<1>10. ASSUME NEW a \in BrkArgs, sys_brk(a)
       PROVE  /\ Accounting'
              /\ displaced' /\ ~displaced => trimmed \/ host_alloc' > HostLimit
  <2>1. ctl = "run" /\ ctl' = "run" /\ mmu_alloc(BrkIncr(a))
    BY <1>10 DEF sys_brk
  <2>2. CASE displaced
    <3>1. displaced'
      BY <2>1, <2>2 DEF mmu_alloc, AllocWithin, AllocGrow, AllocShrink
    <3>2. QED
      BY <2>1, <2>2, <3>1 DEF Accounting, Loading
  <2>3. CASE ~displaced
    <3>1. Placed
      BY <2>1, <2>3 DEF Accounting, NoImage
    <3>2. /\ BrkIncr(a) \in Int /\ 2 * BrkIncr(a) <= AddrSpace
          /\ guest_alloc + BrkIncr(a) >= 0
      BY <3>1, BrkExact
    <3>3. /\ ~displaced' => Placed'
          /\ displaced' => trimmed \/ host_alloc' > HostLimit
      BY <2>1, <2>3, <3>1, <3>2, AllocPlaces DEF Loading
    <3>4. QED
      BY <2>1, <3>3 DEF Accounting, Loading
  <2>4. QED
    BY <2>2, <2>3
<1>11. CASE UNCHANGED vars
  BY <1>11 DEF vars, mmuVars, Accounting, NoImage, Placed
<1>12. QED
  BY <1>3, <1>4, <1>5, <1>6, <1>7, <1>8, <1>9, <1>10, <1>11
  DEF Next, Startup, Syscall, Terminated

\* The invariant implies the two properties of the break.
LEMMA AccountingImplies ==
  ASSUME TypeOK, Accounting
  PROVE  BreakWithinHost /\ HeapBacked
<1>1. BreakWithinHost
  <2> SUFFICES ASSUME ~displaced
               PROVE  base <= guest_alloc /\ guest_alloc <= TO_GUEST(host_alloc)
    BY DEF BreakWithinHost
  <2>1. CASE NoImage
    <3>1. TO_GUEST(host_alloc) = AddrSpace - GuestOffset
      BY <2>1, Geometry, WrapNegative DEF TO_GUEST, NoImage
    <3>2. QED
      BY <2>1, <3>1, SetupTypes, Geometry DEF NoImage
  <2>2. CASE Placed
    <3>1. TO_GUEST(host_alloc) = host_alloc - GuestOffset
      BY <2>2, GuestOf, SetupTypes, Geometry DEF Placed
    <3>2. QED
      BY <2>2, <3>1, SetupTypes, Geometry DEF Placed
  <2>3. QED
    BY <2>1, <2>2 DEF Accounting
<1>2. HeapBacked
  <2> SUFFICES ASSUME ~displaced, host_alloc # 0, NEW g \in Word,
                      base <= g, g < guest_alloc
               PROVE  Mapped(g)
    BY DEF HeapBacked
  <2>1. Placed
    BY DEF Accounting, NoImage
  <2>2. /\ base \in Nat /\ guest_alloc \in Nat /\ host_alloc \in Nat /\ g \in Nat
        /\ base % PageSize = 0 /\ guest_alloc + GuestOffset <= host_alloc
        /\ host_alloc <= HostLimit
    BY <2>1, SetupTypes DEF Placed, Word
  <2> DEFINE h == g + GuestOffset
  <2>3. h \in Nat /\ h < host_alloc /\ h < HostLimit /\ base + GuestOffset <= h
    BY <2>2, Geometry
  <2>4. TO_HOST(g) = h
    <3>1. h \in Word
      BY <2>2, <2>3, Geometry DEF Word
    <3>2. QED
      BY <3>1, WrapInRange DEF TO_HOST
  <2> HIDE DEF h
  <2>5. PageOf(h) \in Page /\ PageOf(h) * PageSize = ROUNDDOWN(h, PageSize)
    BY <2>3, PageOfAddress
  <2>6. (base + GuestOffset) % PageSize = 0
    <3>1. base \in Int /\ GuestOffset \in Int
      BY <2>2, Geometry
    <3>2. QED
      BY <2>2, <3>1, Geometry, MultipleSum
  <2>7. base + GuestOffset <= ROUNDDOWN(h, PageSize)
    <3>1. base + GuestOffset \in Int /\ h \in Int
      BY <2>2, <2>3, Geometry
    <3>2. QED
      BY <2>3, <2>6, <3>1, RoundDownLargest, Geometry
  <2>8. ROUNDDOWN(h, PageSize) <= h /\ ROUNDDOWN(h, PageSize) \in Int
    <3>1. h \in Int /\ PageSize \in Nat \ {0}
      BY <2>3, Geometry
    <3>2. QED
      BY <3>1, RoundDown
  <2>9. pages[PageOf(h)] # Unmapped
    <3>1. /\ base + GuestOffset <= PageOf(h) * PageSize
          /\ PageOf(h) * PageSize < host_alloc
      BY <2>2, <2>3, <2>5, <2>7, <2>8, Geometry
    <3>2. QED
      BY <2>1, <2>5, <3>1 DEF Placed
  <2>10. QED
    BY <2>3, <2>4, <2>9 DEF Mapped, MappedIn
<1>3. QED
  BY <1>1, <1>2

\* Before the first step the accounting holds: nothing is mapped.
LEMMA AccountingInit ==
  ASSUME Init
  PROVE  Accounting
<1>1. \A p \in Page : pages[p] = Unmapped
  BY DEF Init, MmuInit
<1>2. QED
  BY <1>1, Geometry DEF Init, MmuInit, Accounting, NoImage

\* The accounting of mmu_t is an invariant of every process whose guest passes
\* user addresses to brk.
THEOREM AccountingInvariant ==
  ASSUME BrkArgsInRange
  PROVE  Spec => []Accounting
<1>1. Init => Accounting
  BY AccountingInit
<1>2. TypeOK /\ Accounting /\ [Next]_vars => Accounting'
  BY AccountingStep
<1>3. QED
  BY <1>1, <1>2, TypeCorrect, PTL DEF Spec

\* The program break stays between the end of the image and the end of the area
\* that mmu_alloc accounts for, while the kernel follows its hints.
THEOREM BreakSafe ==
  ASSUME BrkArgsInRange
  PROVE  Spec => []BreakWithinHost
<1>1. TypeOK /\ Accounting => BreakWithinHost
  BY AccountingImplies
<1>2. QED
  BY <1>1, TypeCorrect, AccountingInvariant, PTL

\* Every byte of the stack, the argument strings and the heap below the break
\* is mapped, while the kernel follows the hints of mmu_alloc's mmap.
THEOREM HeapSafe ==
  ASSUME BrkArgsInRange
  PROVE  Spec => []HeapBacked
<1>1. TypeOK /\ Accounting => HeapBacked
  BY AccountingImplies
<1>2. QED
  BY <1>1, TypeCorrect, AccountingInvariant, PTL

\* mmu_alloc's unchecked mmap goes astray only after a shrink, or at the end of
\* the host's address space.
THEOREM HintsFollowed ==
  ASSUME BrkArgsInRange
  PROVE  Spec => DisplacedOnlyAfterTrim
<1>1. TypeOK /\ Accounting /\ [Next]_vars
        => [displaced' /\ ~displaced => trimmed \/ host_alloc' > HostLimit]_vars
  BY AccountingStep
<1>2. QED
  BY <1>1, TypeCorrect, AccountingInvariant, PTL DEF Spec, DisplacedOnlyAfterTrim

-----------------------------------------------------------------------------
(* The image.                                                              *)

\* What a segment asks page p to hold, Unmapped where it asks for nothing.
FrameOf(phdr, p) == SegmentPages([q \in Page |-> Unmapped], phdr)[p]

\* The kernel accepts the two mappings of a segment.
Accepted(phdr) ==
  /\ InUserSpace(Aligned(phdr), FileSize(phdr))
  /\ BssSize(phdr) > 0 => InUserSpace(FileEnd(phdr), BssSize(phdr))

\* Two segments that share a page ask for the same page of the file there:
\* mmu_load_segment lets the later of them have it.
SegmentsAgree ==
  \A k, l \in Segments : k < l =>
    \A p \in Page :
      FrameOf(img.phdrs[k], p) # Unmapped /\ FrameOf(img.phdrs[l], p) # Unmapped =>
        FrameOf(img.phdrs[k], p) = FrameOf(img.phdrs[l], p)

\* What the ELF format asks of a PT_LOAD header and the loader relies on
\* without a check: p_offset and p_vaddr agree within a page, and the sizes
\* are those of an object in the address space.
HeadersSane ==
  \A k \in Segments :
    /\ img.phdrs[k].offset % PageSize = img.phdrs[k].vaddr % PageSize
    /\ img.phdrs[k].filesz + 2 * PageSize <= AddrSpace
    /\ img.phdrs[k].memsz + 2 * PageSize <= AddrSpace

\* The segments loaded so far.
LoadedSoFar == {k \in Segments : ctl = "phdrs" => k <= i}

\* Every segment loaded so far still has its pages, and ends below base.
ImageKept ==
  /\ ctl \in {"main", "header"} => i = 0
  /\ ctl \in {"phdrs", "setup", "argv", "run"} /\ ~trimmed /\ SegmentsAgree =>
       \A k \in LoadedSoFar :
         /\ Accepted(img.phdrs[k])
         /\ SegmentEnd(img.phdrs[k]) <= base + GuestOffset
         /\ \A p \in Page : FrameOf(img.phdrs[k], p) # Unmapped =>
              pages[p] = FrameOf(img.phdrs[k], p)

-----------------------------------------------------------------------------
(* The stack.                                                              *)

\* Everything between base and host_alloc is zero-filled memory.
AnonArea ==
  \A p \in Page :
    base + GuestOffset <= p * PageSize /\ p * PageSize < host_alloc =>
      pages[p] = Anonymous

\* The argument pointers, argc and three null words fit in the stack, whose 32 MB
\* machine_setup does not compare with argc.
ArgsFit == (argc + 3) * PtrSize <= StackSize

\* Where the stack pointer starts, and where the pointer to argv[k] goes.
Top == base + StackSize - 3 * PtrSize
Slot(k) == Top - (argc - k) * PtrSize

\* argv[k] has been copied to a: the pointer, the string, and a NUL that was
\* never written.
CopiedTo(k, a) ==
  /\ base + StackSize <= a
  /\ a + argv[k + 1] + GuestOffset < host_alloc
  /\ ctl = "argv" => a + argv[k + 1] < guest_alloc
  /\ \A b \in 0 .. (PtrSize - 1) :
       Slot(k) + b \in DOMAIN data /\ data[Slot(k) + b] = WordByte(a, b)
  /\ \A j \in 0 .. (argv[k + 1] - 1) :
       a + j \in DOMAIN data /\ data[a + j] = StringByte(k, j)
  /\ a + argv[k + 1] \notin DOMAIN data

\* The number of the last argument copied; argc itself counts as number 0.
LastPushed == IF ctl = "argv" THEN i + 1 ELSE 0

\* The part of the stack and the string area that machine_setup has filled.
StackLaid ==
  /\ AnonArea
  /\ ctl = "argv" => i \in Nat /\ base + StackSize <= guest_alloc
  /\ base + StackSize + GuestOffset <= host_alloc
  /\ sp = Slot(LastPushed)
  /\ \A x \in DOMAIN data :
       /\ sp <= x /\ (x < Top \/ base + StackSize <= x)
       /\ x + GuestOffset < host_alloc
       /\ ctl = "argv" => x < guest_alloc
  /\ \A k \in 1 .. (argc - 1) : LastPushed <= k => \E a \in Word : CopiedTo(k, a)
  /\ ctl = "run" => sp \in DOMAIN data /\ data[sp] = WordByte(argc, 0)

\* machine_setup fills the stack downwards and the strings upwards, and the
\* guest's calls of brk disturb neither.
StackKept ==
  /\ ctl \in Loading => data = << >>
  /\ ctl \in (Loading \cup {"argv", "run"}) \ {"main"} => argc > 1
  /\ ctl \in {"argv", "run"} /\ ~trimmed /\ ~displaced /\ Placed /\ ArgsFit => StackLaid

-----------------------------------------------------------------------------
(* The image stays where the loader puts it.                               *)

\* The header of a segment is one of the file's.
LEMMA SegmentPhdr ==
  ASSUME TypeOK, NEW k \in Segments
  PROVE  /\ k \in Nat /\ 0 < k /\ k <= img.phnum /\ k <= Len(img.phdrs)
         /\ img.phdrs[k].type = "PT_LOAD" /\ PhdrOK(img.phdrs[k])
<1>1. img \in Images /\ img \in Image
  BY ProcessAssumption DEF TypeOK
<1>2. img.phdrs \in Seq(Phdr)
  BY <1>1 DEF Image
<1>3. k \in DOMAIN img.phdrs /\ k <= img.phnum /\ img.phdrs[k].type = "PT_LOAD"
  BY DEF Segments
<1>4. k \in Nat /\ 0 < k /\ k <= Len(img.phdrs)
  BY <1>2, <1>3
<1>5. img.phdrs[k] \in Phdr
  BY <1>2, <1>3
<1>6. img.phdrs[k].vaddr + GuestOffset < AddrSpace
  BY <1>1, <1>3, ProcessAssumption
<1>7. QED
  BY <1>3, <1>4, <1>5, <1>6 DEF PhdrOK, Phdr

\* A segment replaces the pages it asks for and keeps the others.
LEMMA SegmentReplaces ==
  ASSUME NEW phdr, PhdrOK(phdr), NEW tbl, NEW p \in Page
  PROVE  SegmentPages(tbl, phdr)[p] =
           IF FrameOf(phdr, p) = Unmapped THEN tbl[p] ELSE FrameOf(phdr, p)
<1> DEFINE h == Aligned(phdr)
           n == FileSize(phdr)
           o == ROUNDDOWN(phdr.offset, PageSize)
           none == [q \in Page |-> Unmapped]
<1>1. PageSize \in Nat \ {0} /\ phdr.offset \in Int /\ phdr.offset >= 0
  BY PageAssumption, WordAssumption DEF PhdrOK, Word
<1>2. o \in Nat
  BY <1>1, RoundDown
<1>3. h \in Nat /\ n \in Nat
  BY SegmentLocals DEF Word
<1>4. p \in Span(h, n) => PageOf(o) + (p - PageOf(h)) \in Nat
  <2>1. PageOf(o) \in Nat /\ PageOf(h) \in Nat /\ p \in Nat
    BY <1>1, <1>2, <1>3, PageAssumption DEF PageOf, Page
  <2>2. p \in Span(h, n) => p >= PageOf(h)
    BY <2>1 DEF Span
  <2>3. QED
    BY <2>1, <2>2
<1> HIDE DEF h, n, o
<1>5. /\ MapFile(tbl, h, n, o)[p] =
           IF p \in Span(h, n) THEN PageOf(o) + (p - PageOf(h)) ELSE tbl[p]
      /\ MapFile(none, h, n, o)[p] =
           IF p \in Span(h, n) THEN PageOf(o) + (p - PageOf(h)) ELSE Unmapped
  BY DEF MapFile
<1>6. Unmapped \notin Nat /\ Anonymous # Unmapped
  BY DEF Unmapped, Anonymous
<1>7. CASE BssSize(phdr) > 0 /\ p \in Span(FileEnd(phdr), BssSize(phdr))
  BY <1>6, <1>7 DEF FrameOf, SegmentPages, MapAnon
<1>8. CASE ~(BssSize(phdr) > 0 /\ p \in Span(FileEnd(phdr), BssSize(phdr)))
  <2>1. /\ SegmentPages(tbl, phdr)[p] = MapFile(tbl, h, n, o)[p]
        /\ FrameOf(phdr, p) = MapFile(none, h, n, o)[p]
    BY <1>8 DEF FrameOf, SegmentPages, MapAnon, h, n, o
  <2>2. QED
    BY <1>4, <1>5, <1>6, <2>1
<1>9. QED
  BY <1>7, <1>8

\* Until it first calls munmap, mmu_alloc leaves every mapped page alone.
LEMMA AllocKeeps ==
  ASSUME NEW size \in Int, mmu_alloc(size), ~trimmed'
  PROVE  /\ base' = base /\ ~trimmed
         /\ \A p \in Page : pages[p] # Unmapped => pages'[p] = pages[p]
<1>1. CASE AllocWithin(size)
  BY <1>1 DEF AllocWithin
<1>2. CASE AllocGrow(size)
  BY <1>2 DEF AllocGrow, HintFree, MapAnon
<1>3. CASE AllocShrink(size)
  BY <1>3 DEF AllocShrink
<1>4. QED
  BY <1>1, <1>2, <1>3 DEF mmu_alloc

\* Loading one more segment keeps the ones before it.
LEMMA LoadKeeps ==
  ASSUME TypeOK, Accounting, Accounting', ImageKept, LoadPhdr,
         img.phdrs[i + 1].type = "PT_LOAD"
  PROVE  ImageKept'
<1> DEFINE phdr == img.phdrs[i + 1]
<1>1. /\ ctl = "phdrs" /\ ctl' = "phdrs" /\ i < img.phnum /\ i < Len(img.phdrs)
      /\ i' = i + 1 /\ img' = img /\ LoadSegment(phdr)
  BY DEF LoadPhdr
<1>2. i \in Nat /\ PhdrOK(phdr)
  BY <1>1, CurrentPhdr DEF TypeOK, Loading
<1>3. trimmed' = trimmed /\ displaced' = displaced /\ Accepted(phdr)
      /\ pages' = SegmentPages(pages, phdr)
      /\ host_alloc' = MAX(host_alloc, SegmentEnd(phdr))
  BY <1>1 DEF LoadSegment, Accepted, SegmentEnd
<1>4. ~displaced /\ ~trimmed /\ (NoImage \/ Placed)
  BY <1>1 DEF Accounting, Loading, NoImage, Placed
<1>5. Placed'
  BY <1>1, <1>2, <1>4, LoadPlaces
<1>6. /\ host_alloc' = base' + GuestOffset /\ host_alloc \in Nat
      /\ SegmentEnd(phdr) \in Nat
  <2>1. host_alloc' = base' + GuestOffset
    BY <1>1, <1>5 DEF Placed, Loading
  <2>2. SegmentEnd(phdr) \in Nat
    BY <1>2, <1>3, SegmentGeometry DEF Accepted
  <2>3. QED
    BY <2>1, <2>2, SetupTypes
<1>7. host_alloc <= host_alloc' /\ SegmentEnd(phdr) <= base' + GuestOffset
  BY <1>3, <1>6 DEF MAX
<1> SUFFICES ASSUME SegmentsAgree', NEW k \in LoadedSoFar'
             PROVE  /\ Accepted(img.phdrs[k])
                    /\ SegmentEnd(img.phdrs[k]) <= base' + GuestOffset
                    /\ \A p \in Page : FrameOf(img.phdrs[k], p) # Unmapped =>
                         pages'[p] = FrameOf(img.phdrs[k], p)
  BY <1>1 DEF ImageKept
<1>8. SegmentsAgree
  BY <1>1 DEF SegmentsAgree, Segments
<1>9. k \in Segments /\ k <= i + 1
  BY <1>1 DEF LoadedSoFar, Segments
<1>10. k \in Nat /\ PhdrOK(img.phdrs[k])
  BY <1>9, SegmentPhdr
<1>11. CASE k = i + 1
  <2>1. \A p \in Page : FrameOf(phdr, p) # Unmapped => pages'[p] = FrameOf(phdr, p)
    BY <1>2, <1>3, SegmentReplaces
  <2>2. QED
    BY <1>3, <1>7, <1>11, <2>1
<1>12. CASE k # i + 1
  <2>1. k <= i /\ k \in LoadedSoFar /\ k < i + 1
    BY <1>2, <1>9, <1>10, <1>12 DEF LoadedSoFar
  <2>2. /\ Accepted(img.phdrs[k])
        /\ SegmentEnd(img.phdrs[k]) <= base + GuestOffset
        /\ \A p \in Page : FrameOf(img.phdrs[k], p) # Unmapped =>
             pages[p] = FrameOf(img.phdrs[k], p)
    BY <1>1, <1>4, <1>8, <2>1 DEF ImageKept
  <2>3. base + GuestOffset <= base' + GuestOffset
    <3>1. CASE NoImage
      <4>1. base + GuestOffset = GuestOffset
        BY <3>1, Geometry DEF NoImage
      <4>2. GuestOffset < SegmentEnd(phdr)
        BY <1>2, <1>3, SegmentGeometry DEF Accepted
      <4>3. base' + GuestOffset \in Int
        BY <1>3, <1>6 DEF MAX
      <4>4. QED
        BY <1>6, <1>7, <4>1, <4>2, <4>3, Geometry
    <3>2. CASE Placed
      <4>1. host_alloc = base + GuestOffset
        BY <1>1, <3>2 DEF Placed, Loading
      <4>2. QED
        BY <1>6, <1>7, <4>1
    <3>3. QED
      BY <1>4, <3>1, <3>2
  <2>4. SegmentEnd(img.phdrs[k]) \in Nat /\ base + GuestOffset \in Int
        /\ base' + GuestOffset \in Int
    <3>1. SegmentEnd(img.phdrs[k]) \in Nat
      BY <1>10, <2>2, SegmentGeometry DEF Accepted
    <3>2. base + GuestOffset \in Int
      BY SetupTypes, Geometry
    <3>3. base' + GuestOffset \in Int
      BY <1>3, <1>6 DEF MAX
    <3>4. QED
      BY <3>1, <3>2, <3>3
  <2>5. SegmentEnd(img.phdrs[k]) <= base' + GuestOffset
    BY <2>2, <2>3, <2>4
  <2>6. i + 1 \in Segments
    <3>1. img \in Image
      BY ProcessAssumption DEF TypeOK
    <3>2. img.phdrs \in Seq(Phdr) /\ img.phnum \in Nat
      BY <3>1 DEF Image
    <3>3. QED
      BY <1>1, <1>2, <3>2 DEF Segments
  <2>7. ASSUME NEW p \in Page, FrameOf(img.phdrs[k], p) # Unmapped
        PROVE  pages'[p] = FrameOf(img.phdrs[k], p)
    <3>1. FrameOf(phdr, p) # Unmapped => FrameOf(phdr, p) = FrameOf(img.phdrs[k], p)
      BY <1>8, <1>9, <2>1, <2>6, <2>7 DEF SegmentsAgree
    <3>2. pages[p] = FrameOf(img.phdrs[k], p)
      BY <2>2, <2>7
    <3>3. pages'[p] = IF FrameOf(phdr, p) = Unmapped THEN pages[p] ELSE FrameOf(phdr, p)
      BY <1>2, <1>3, SegmentReplaces
    <3>4. QED
      BY <3>1, <3>2, <3>3
  <2>8. QED
    BY <2>2, <2>5, <2>7
<1>13. QED
  BY <1>11, <1>12

\* Once loaded, a segment keeps its pages through machine_setup and the guest's
\* calls of brk.
LEMMA SetupKeeps ==
  ASSUME ImageKept, NEW size \in Int, mmu_alloc(size), img' = img,
         ctl \in {"setup", "argv", "run"}, ctl' \in {"argv", "run"} \cup Stopped
  PROVE  ImageKept'
<1>1. ctl' \notin {"main", "header"}
  BY DEF Stopped
<1> SUFFICES ASSUME ~trimmed', SegmentsAgree', ctl' \in {"argv", "run"},
                    NEW k \in LoadedSoFar'
             PROVE  /\ Accepted(img.phdrs[k])
                    /\ SegmentEnd(img.phdrs[k]) <= base' + GuestOffset
                    /\ \A p \in Page : FrameOf(img.phdrs[k], p) # Unmapped =>
                         pages'[p] = FrameOf(img.phdrs[k], p)
  BY <1>1 DEF ImageKept, Stopped
<1>2. /\ base' = base /\ ~trimmed
      /\ \A p \in Page : pages[p] # Unmapped => pages'[p] = pages[p]
  BY AllocKeeps
<1>3. SegmentsAgree /\ k \in LoadedSoFar
  BY DEF SegmentsAgree, Segments, LoadedSoFar
<1>4. QED
  BY <1>2, <1>3 DEF ImageKept

\* Each step of main keeps the image.
LEMMA ImageStep ==
  ASSUME BrkArgsInRange, TypeOK, Accounting, Accounting', ImageKept, [Next]_vars
  PROVE  ImageKept'
<1>1. CASE ctl' \in Stopped
  BY <1>1 DEF ImageKept, Stopped
<1>2. CASE OpenFails \/ LoadPhdrFails \/ SetupFails \/ sys_exit
           \/ (\E a \in BrkArgs : BrkFails(a))
  <2>1. ctl' \in Stopped
    BY <1>2 DEF OpenFails, LoadPhdrFails, SetupFails, sys_exit, BrkFails, Stopped
  <2>2. QED
    BY <1>1, <2>1
<1>3. CASE Open
  BY <1>3 DEF Open, ImageKept
<1>4. CASE ReadHeader /\ ctl' = "phdrs"
  <2>1. i = 0 /\ i' = 0 /\ img' = img
    BY <1>4 DEF ReadHeader, ImageKept
  <2>2. \A k \in Segments : k \in Nat /\ 0 < k
    BY SegmentPhdr
  <2>3. LoadedSoFar' = {}
    BY <1>4, <2>1, <2>2 DEF LoadedSoFar, Segments
  <2>4. QED
    BY <1>4, <2>3 DEF ImageKept
<1>5. CASE LoadPhdr /\ img.phdrs[i + 1].type = "PT_LOAD"
  BY <1>5, LoadKeeps
<1>6. CASE LoadPhdr /\ img.phdrs[i + 1].type # "PT_LOAD"
  <2>1. /\ ctl = "phdrs" /\ ctl' = "phdrs" /\ i' = i + 1
        /\ UNCHANGED <<mmuVars, img>> /\ i \in Nat
    BY <1>6 DEF LoadPhdr, TypeOK, Loading
  <2>2. \A k \in Segments : k \in Nat /\ img.phdrs[k].type = "PT_LOAD"
    BY SegmentPhdr
  <2>3. LoadedSoFar' \subseteq LoadedSoFar
    BY <1>6, <2>1, <2>2 DEF LoadedSoFar, Segments
  <2>4. QED
    BY <2>1, <2>3 DEF ImageKept, SegmentsAgree, Segments, mmuVars
<1>7. CASE LoadDone
  <2>1. /\ ctl = "phdrs" /\ ctl' = "setup" /\ i = img.phnum
        /\ UNCHANGED <<mmuVars, img, i>>
    BY <1>7 DEF LoadDone
  <2>2. LoadedSoFar' \subseteq LoadedSoFar
    BY <2>1 DEF LoadedSoFar, Segments
  <2>3. QED
    BY <2>1, <2>2 DEF ImageKept, SegmentsAgree, Segments, mmuVars
<1>8. CASE SetupStack
  <2>1. StackSize \in Int
    BY Geometry
  <2>2. QED
    BY <1>8, <2>1, SetupKeeps DEF SetupStack
<1>9. CASE PushArg
  <2>1. ArgAlloc \in Int
    BY <1>9, CurrentArg DEF PushArg
  <2>2. ctl' \in {"argv", "crashed"}
    BY <1>9 DEF PushArg
  <2>3. QED
    BY <1>9, <2>1, <2>2, SetupKeeps DEF PushArg, Stopped
<1>10. CASE PushArgc /\ ctl' = "run"
  <2>1. ctl = "argv" /\ UNCHANGED <<mmuVars, img, i>>
    BY <1>10 DEF PushArgc
  <2>2. QED
    BY <1>10, <2>1 DEF ImageKept, SegmentsAgree, Segments, LoadedSoFar, mmuVars
<1>11. ASSUME NEW a \in BrkArgs, sys_brk(a)
       PROVE  ImageKept'
  <2>1. BrkIncr(a) \in Int
    BY BrkTypes
  <2>2. QED
    BY <1>11, <2>1, SetupKeeps DEF sys_brk
<1>12. CASE UNCHANGED vars
  BY <1>12 DEF vars, mmuVars, ImageKept, SegmentsAgree, Segments, LoadedSoFar
<1>13. ReadHeader => ctl' = "phdrs" \/ ctl' \in Stopped
  BY DEF ReadHeader, Stopped
<1>14. PushArgc => ctl' = "run" \/ ctl' \in Stopped
  BY DEF PushArgc, Stopped
<1>15. QED
  BY <1>1, <1>2, <1>3, <1>4, <1>5, <1>6, <1>7, <1>8, <1>9, <1>10, <1>11, <1>12,
     <1>13, <1>14
  DEF Next, Startup, Syscall, Terminated

-----------------------------------------------------------------------------
(* Bytes and addresses.                                                    *)

\* The bytes of a range that does not wrap.
LEMMA BytesRange ==
  ASSUME NEW g \in Nat, NEW n \in Nat, g + n <= AddrSpace
  PROVE  /\ Bytes(g, n) = g .. (g + n - 1)
         /\ \A x \in g .. (g + n - 1) : Wrap(x - g) = x - g
<1>1. \A j \in 0 .. (n - 1) : Wrap(g + j) = g + j
  <2>1. \A j \in 0 .. (n - 1) : g + j \in Word
    BY WordAssumption DEF Word
  <2>2. QED
    BY <2>1, WrapInRange
<1>2. Bytes(g, n) = {g + j : j \in 0 .. (n - 1)}
  BY <1>1 DEF Bytes
<1>3. ASSUME NEW x \in g .. (g + n - 1) PROVE x \in {g + j : j \in 0 .. (n - 1)}
  <2>1. x - g \in 0 .. (n - 1) /\ x = g + (x - g)
    OBVIOUS
  <2>2. QED
    BY <2>1
<1>4. \A x \in g .. (g + n - 1) : Wrap(x - g) = x - g
  <2>1. \A x \in g .. (g + n - 1) : x - g \in Word
    BY WordAssumption DEF Word
  <2>2. QED
    BY <2>1, WrapInRange
<1>5. QED
  BY <1>2, <1>3, <1>4

\* An address between base and host_alloc lies on a page of that area.
LEMMA AreaPage ==
  ASSUME TypeOK, Placed, NEW g \in Nat, base <= g, g + GuestOffset < host_alloc
  PROVE  /\ TO_HOST(g) = g + GuestOffset /\ TO_HOST(g) < HostLimit
         /\ PageOf(TO_HOST(g)) \in Page
         /\ base + GuestOffset <= PageOf(TO_HOST(g)) * PageSize
         /\ PageOf(TO_HOST(g)) * PageSize < host_alloc
<1>1. /\ base \in Nat /\ host_alloc \in Nat /\ base % PageSize = 0
      /\ host_alloc <= HostLimit
  BY SetupTypes DEF Placed
<1> DEFINE h == g + GuestOffset
<1>2. h \in Nat /\ h < host_alloc /\ h < HostLimit /\ base + GuestOffset <= h
  BY <1>1, Geometry
<1>3. TO_HOST(g) = h
  <2>1. h \in Word
    BY <1>2, Geometry DEF Word
  <2>2. QED
    BY <2>1, WrapInRange DEF TO_HOST
<1> HIDE DEF h
<1>4. PageOf(h) \in Page /\ PageOf(h) * PageSize = ROUNDDOWN(h, PageSize)
  BY <1>2, PageOfAddress
<1>5. (base + GuestOffset) % PageSize = 0
  <2>1. base \in Int /\ GuestOffset \in Int
    BY <1>1, Geometry
  <2>2. QED
    BY <1>1, <2>1, Geometry, MultipleSum
<1>6. base + GuestOffset <= ROUNDDOWN(h, PageSize)
  <2>1. base + GuestOffset \in Int /\ h \in Int
    BY <1>1, <1>2, Geometry
  <2>2. QED
    BY <1>2, <1>5, <2>1, RoundDownLargest, Geometry
<1>7. ROUNDDOWN(h, PageSize) <= h /\ ROUNDDOWN(h, PageSize) \in Int
  <2>1. h \in Int /\ PageSize \in Nat \ {0}
    BY <1>2, Geometry
  <2>2. QED
    BY <2>1, RoundDown
<1>8. PageOf(h) * PageSize < host_alloc
  BY <1>1, <1>2, <1>4, <1>7
<1>9. h = g + GuestOffset
  BY DEF h
<1>10. QED
  BY <1>2, <1>3, <1>4, <1>6, <1>8, <1>9

\* What the guest reads there: what machine_setup wrote, and zero elsewhere.
LEMMA AreaContent ==
  ASSUME TypeOK, Placed, AnonArea, NEW g \in Nat, base <= g, g + GuestOffset < host_alloc
  PROVE  /\ g \in DOMAIN data => Content(g) = data[g]
         /\ g \notin DOMAIN data => Content(g) = Zero
<1>1. /\ TO_HOST(g) < HostLimit /\ PageOf(TO_HOST(g)) \in Page
      /\ pages[PageOf(TO_HOST(g))] = Anonymous
  BY AreaPage DEF AnonArea
<1>2. Mapped(g)
  BY <1>1 DEF Mapped, MappedIn, Anonymous, Unmapped
<1>3. QED
  BY <1>1, <1>2 DEF Content

\* While the kernel follows its hints mmu_alloc moves the break exactly, and
\* the area it adds is zero-filled.
LEMMA AllocExact ==
  ASSUME TypeOK, Placed, AnonArea, ~displaced, ctl' \notin Loading,
         NEW size \in Int, 2 * size <= AddrSpace, guest_alloc + size >= 0,
         mmu_alloc(size), ~displaced', ~trimmed'
  PROVE  /\ Placed' /\ AnonArea' /\ guest_alloc' = guest_alloc + size
         /\ base' = base /\ host_alloc <= host_alloc' /\ host_alloc' \in Nat
<1>1. /\ guest_alloc \in Nat /\ base \in Nat /\ host_alloc \in Nat
      /\ host_alloc % PageSize = 0 /\ guest_alloc + GuestOffset <= host_alloc
      /\ host_alloc <= HostLimit
  BY SetupTypes DEF Placed
<1>2. Placed'
  BY AllocPlaces
<1>3. NewBreak(size) = guest_alloc + size
  <2>1. guest_alloc + size \in Word
    BY <1>1, Geometry DEF Word
  <2>2. QED
    BY <2>1, WrapInRange DEF NewBreak, Word
<1>4. CASE AllocWithin(size)
  BY <1>1, <1>2, <1>3, <1>4 DEF AllocWithin, AnonArea
<1>5. CASE AllocGrow(size)
  <2> DEFINE n == ROUNDUP(size, PageSize)
  <2>1. size \in Nat /\ size > 0 /\ size + PageSize <= AddrSpace
    BY <1>5, Geometry DEF AllocGrow, Grows
  <2>2. n \in Nat /\ n % PageSize = 0 /\ size <= n
    BY <2>1, RoundUp DEF Word
  <2>3. /\ InUserSpace(0, n) /\ guest_alloc' = NewBreak(size)
        /\ host_alloc' = Wrap(host_alloc + n)
        /\ pages' = MapAnon(pages, host_alloc, n)
        /\ base' = base
    BY <1>5 DEF AllocGrow
  <2> HIDE DEF n
  <2>4. n > 0 /\ host_alloc' = host_alloc + n
    <3>1. host_alloc + n \in Word
      BY <1>1, <2>2, <2>3, Geometry DEF InUserSpace, Word
    <3>2. QED
      BY <2>3, <3>1, WrapInRange DEF InUserSpace
  <2>5. AnonArea'
    <3> SUFFICES ASSUME NEW p \in Page, base + GuestOffset <= p * PageSize,
                        p * PageSize < host_alloc + n
                 PROVE  pages'[p] = Anonymous
      BY <2>3, <2>4 DEF AnonArea
    <3>1. p \in Int /\ p * PageSize \in Int
      BY Geometry DEF Page
    <3>2. CASE p * PageSize < host_alloc
      <4>1. pages[p] = Anonymous
        BY <3>2 DEF AnonArea
      <4>2. QED
        BY <2>3, <4>1 DEF MapAnon
    <3>3. CASE host_alloc <= p * PageSize
      <4>1. p \in Span(host_alloc, n)
        BY <1>1, <2>2, <2>4, <3>1, <3>3, SpanBytes
      <4>2. QED
        BY <2>3, <4>1 DEF MapAnon
    <3>4. QED
      BY <1>1, <3>1, <3>2, <3>3
  <2>6. QED
    BY <1>1, <1>2, <1>3, <2>2, <2>3, <2>4, <2>5
<1>6. CASE AllocShrink(size)
  BY <1>6 DEF AllocShrink
<1>7. QED
  BY <1>4, <1>5, <1>6 DEF mmu_alloc

\* The arguments are short strings.
LEMMA ArgLens ==
  ASSUME TypeOK, NEW k \in 1 .. (argc - 1)
  PROVE  argv[k + 1] \in Nat /\ argv[k + 1] < HostLimit
<1>1. argv \in ArgVectors /\ argv \in Seq(Nat)
  BY ProcessAssumption DEF TypeOK
<1>2. k + 1 \in DOMAIN argv
  BY <1>1 DEF argc
<1>3. QED
  BY <1>1, <1>2, ProcessAssumption

\* A product of the pointer size, for arithmetic.
LEMMA SlotProducts ==
  \A p, n, k \in Nat : k <= n =>
         /\ (n - k) * p \in Nat /\ (n - k) * p <= n * p
         /\ k > 0 => (n - (k - 1)) * p = (n - k) * p + p
         /\ (n + 3) * p = n * p + 3 * p /\ k * p \in Nat /\ n * p \in Nat
         /\ (n - k) * p = n * p - k * p
OBVIOUS

\* The slots of the argument pointers lie one below the other inside the stack.
LEMMA Slots ==
  ASSUME TypeOK, ArgsFit
  PROVE  /\ Top \in Nat /\ base <= Top /\ Top + 3 * PtrSize = base + StackSize
         /\ PtrSize \in Nat /\ PtrSize > 0 /\ argc \in Nat
         /\ \A k \in 0 .. argc :
              /\ Slot(k) \in Nat /\ base <= Slot(k) /\ Slot(k) <= Top
              /\ k > 0 => Slot(k - 1) = Slot(k) - PtrSize
              /\ Slot(k) = Slot(0) + k * PtrSize
         /\ Slot(argc) = Top
<1>1. PtrSize \in Nat /\ PtrSize > 0 /\ argc \in Nat /\ base \in Nat /\ StackSize \in Nat
  BY SetupTypes, ProcessAssumption
<1> DEFINE all == argc * PtrSize
<1>2. all \in Nat /\ all + 3 * PtrSize <= StackSize
  BY <1>1 DEF ArgsFit
<1>3. ASSUME NEW k \in 0 .. argc
      PROVE  /\ (argc - k) * PtrSize \in Nat /\ (argc - k) * PtrSize <= all
             /\ k > 0 => (argc - (k - 1)) * PtrSize = (argc - k) * PtrSize + PtrSize
             /\ k * PtrSize \in Nat /\ (argc - k) * PtrSize = all - k * PtrSize
  <2>1. PICK n \in Nat : n = argc
    BY <1>1
  <2>2. k \in Nat /\ k <= n
    BY <2>1
  <2>3. /\ (n - k) * PtrSize \in Nat /\ (n - k) * PtrSize <= n * PtrSize
        /\ k > 0 => (n - (k - 1)) * PtrSize = (n - k) * PtrSize + PtrSize
        /\ k * PtrSize \in Nat /\ (n - k) * PtrSize = n * PtrSize - k * PtrSize
    BY <1>1, <2>2, SlotProducts
  <2>4. QED
    BY <2>1, <2>3
<1>4. (argc - 0) * PtrSize = all /\ (argc - argc) * PtrSize = 0
  BY <1>1
<1>5. Top \in Nat /\ base <= Top /\ Top + 3 * PtrSize = base + StackSize /\ all <= Top - base
  BY <1>1, <1>2 DEF Top
<1> HIDE DEF all
<1>6. ASSUME NEW k \in 0 .. argc
      PROVE  /\ Slot(k) \in Nat /\ base <= Slot(k) /\ Slot(k) <= Top
             /\ Slot(k) = Slot(0) + k * PtrSize
  BY <1>1, <1>2, <1>3, <1>4, <1>5 DEF Slot
<1>7. ASSUME NEW k \in 0 .. argc, k > 0
      PROVE  Slot(k - 1) = Slot(k) - PtrSize
  BY <1>1, <1>3, <1>5, <1>7 DEF Slot
<1>8. Slot(argc) = Top
  BY <1>4, <1>5 DEF Slot
<1>9. QED
  BY <1>1, <1>5, <1>6, <1>7, <1>8

-----------------------------------------------------------------------------
(* The stack keeps what machine_setup puts there.                          *)

\* A break that moves keeps base, and the history of displacements.
LEMMA AllocHistory ==
  ASSUME NEW size \in Int, mmu_alloc(size)
  PROVE  base' = base /\ (displaced => displaced')
BY DEF mmu_alloc, AllocWithin, AllocGrow, AllocShrink

\* machine_setup's first allocation is the empty stack.
LEMMA StackAllocated ==
  ASSUME TypeOK, TypeOK', Accounting, StackKept, SetupStack,
         ~trimmed', ~displaced', Placed', ArgsFit'
  PROVE  StackLaid'
<1>1. /\ ctl = "setup" /\ ctl' = "argv" /\ mmu_alloc(StackSize) /\ i' = argc - 1
      /\ sp' = Wrap(guest_alloc + StackSize - 3 * PtrSize)
      /\ UNCHANGED <<img, argv, data>>
  BY DEF SetupStack
<1>2. StackSize \in Int /\ 2 * StackSize <= AddrSpace /\ StackSize \in Nat
  BY Geometry
<1>3. base' = base /\ ~displaced /\ ~trimmed
  BY <1>1, <1>2, AllocHistory, AllocKeeps
<1>4. Placed
  BY <1>3 DEF Accounting, NoImage, Placed
<1>5. /\ base \in Nat /\ host_alloc \in Nat /\ guest_alloc = base
      /\ host_alloc = base + GuestOffset /\ guest_alloc + StackSize >= 0
  BY <1>1, <1>2, <1>4, SetupTypes DEF Placed, Loading
<1>6. AnonArea
  <2>1. \A p \in Page : p * PageSize \in Int
    BY Geometry DEF Page
  <2>2. QED
    BY <1>5, <2>1 DEF AnonArea
<1>7. /\ AnonArea' /\ guest_alloc' = guest_alloc + StackSize
      /\ host_alloc <= host_alloc' /\ host_alloc' \in Nat
  <2>1. ctl' \notin Loading
    BY <1>1 DEF Loading
  <2>2. QED
    BY <1>1, <1>2, <1>3, <1>4, <1>5, <1>6, <2>1, AllocExact
<1>8. argc' = argc /\ ArgsFit /\ Top' = Top /\ argc > 1 /\ DOMAIN data' = {}
  <2>1. argc' = argc
    BY <1>1 DEF argc
  <2>2. DOMAIN data' = {}
    BY <1>1 DEF StackKept, Loading
  <2>3. QED
    BY <1>1, <1>3, <2>1, <2>2 DEF ArgsFit, Top, StackKept, Loading
<1>9. sp' = Top
  <2>1. Top = guest_alloc + StackSize - 3 * PtrSize
    BY <1>5 DEF Top
  <2>2. Top \in Word
    <3>1. Top \in Nat /\ Top <= base + StackSize
      BY <1>8, Slots
    <3>2. base + GuestOffset <= HostLimit
      BY <1>4, <1>5 DEF Placed
    <3>3. QED
      BY <1>5, <3>1, <3>2, Geometry DEF Word
  <2>3. QED
    BY <1>1, <2>1, <2>2, WrapInRange
<1>10. LastPushed' = argc
  <2>1. argc \in Nat
    BY SetupTypes
  <2>2. QED
    BY <1>1, <2>1 DEF LastPushed
<1>11. sp' = Slot(LastPushed)'
  <2>1. Slot(argc) = Top
    BY <1>8, Slots
  <2>2. Slot(LastPushed)' = Slot(argc)
    BY <1>8, <1>10 DEF Slot
  <2>3. QED
    BY <1>9, <2>1, <2>2
<1>12. base' + StackSize <= guest_alloc' /\ base' + StackSize + GuestOffset <= host_alloc'
  <2>1. guest_alloc' = base + StackSize
    BY <1>5, <1>7
  <2>2. guest_alloc' + GuestOffset <= host_alloc'
    BY DEF Placed
  <2>3. QED
    BY <1>2, <1>3, <1>5, <2>1, <2>2
<1>13. i' \in Nat /\ \A k \in 1 .. (argc' - 1) : ~(LastPushed' <= k)
  BY <1>1, <1>8, <1>10, SetupTypes
<1>14. QED
  BY <1>1, <1>7, <1>8, <1>11, <1>12, <1>13 DEF StackLaid

\* One argument more is copied: the string goes above everything written before,
\* its pointer below.
LEMMA ArgumentCopied ==
  ASSUME TypeOK, TypeOK', Accounting, StackKept, PushArg, ctl' = "argv",
         ~trimmed', ~displaced', Placed', ArgsFit'
  PROVE  StackLaid'
<1>0. PICK g \in Nat : g = guest_alloc
  BY SetupTypes
<1>1. /\ ctl = "argv" /\ i > 0 /\ mmu_alloc(ArgAlloc) /\ sp' = ArgSlot
      /\ UNCHANGED <<img, argv>>
  BY DEF PushArg
<1>2. i' = i - 1
  BY DEF PushArg
<1>3. PICK n \in Nat : /\ n = ArgLen /\ n + 1 <= HostLimit /\ ArgAlloc = n + 1
                        /\ n = argv[i + 1] /\ ArgAlloc \in Int
  BY <1>1, CurrentArg, Geometry DEF ArgLen
<1>4. base' = base /\ ~displaced /\ ~trimmed
  BY <1>1, <1>3, AllocHistory, AllocKeeps
<1>5. Placed
  BY <1>4 DEF Accounting, NoImage, Placed
<1>6. argc' = argc /\ ArgsFit /\ Top' = Top /\ \A k : Slot(k)' = Slot(k)
  <2>1. argc' = argc
    BY <1>1 DEF argc
  <2>2. QED
    BY <1>4, <2>1 DEF ArgsFit, Top, Slot
<1>7. StackLaid
  BY <1>1, <1>4, <1>5, <1>6 DEF StackKept
<1>8. /\ base \in Nat /\ host_alloc \in Nat /\ g \in Nat /\ PtrSize \in Nat
      /\ g + GuestOffset <= host_alloc /\ host_alloc <= HostLimit
      /\ base + StackSize <= g /\ StackSize \in Nat
  BY <1>0, <1>1, <1>5, <1>7, SetupTypes DEF Placed, StackLaid
<1>9. /\ AnonArea' /\ guest_alloc' = g + (n + 1)
      /\ host_alloc <= host_alloc' /\ host_alloc' \in Nat
  <2>1. ctl' \notin Loading /\ AnonArea
    BY <1>7 DEF Loading, StackLaid
  <2>2. 2 * ArgAlloc <= AddrSpace /\ guest_alloc + ArgAlloc >= 0
    BY <1>0, <1>3, <1>8, Geometry
  <2>3. guest_alloc' = guest_alloc + ArgAlloc /\ AnonArea'
        /\ host_alloc <= host_alloc' /\ host_alloc' \in Nat
    BY <1>1, <1>3, <1>4, <1>5, <2>1, <2>2, AllocExact
  <2>4. QED
    BY <1>0, <1>3, <2>3
<1>10. g + n + 1 + GuestOffset <= host_alloc'
  <2>1. guest_alloc' + GuestOffset <= host_alloc'
    BY DEF Placed
  <2>2. QED
    BY <1>3, <1>8, <1>9, <2>1, Geometry
<1>11. i \in 1 .. (argc - 1) /\ argc \in Nat /\ LastPushed = i + 1 /\ LastPushed' = i
  <2>1. i \in Nat /\ i < argc /\ argc \in Nat
    BY <1>1, <1>7, SetupTypes DEF StackLaid, TypeOK
  <2>2. QED
    BY <1>1, <1>2, <2>1 DEF LastPushed
<1>12. /\ PtrSize > 0 /\ Top \in Nat /\ Top + 3 * PtrSize = base + StackSize
       /\ Slot(i) \in Nat /\ base <= Slot(i) /\ Slot(i + 1) <= Top
       /\ Slot(i + 1) \in Nat /\ Slot(i) = Slot(i + 1) - PtrSize
  <2>1. i \in 0 .. argc /\ i + 1 \in 0 .. argc /\ i + 1 > 0 /\ (i + 1) - 1 = i
    BY <1>11
  <2>2. QED
    BY <1>6, <2>1, Slots
<1>13. sp = Slot(i + 1) /\ sp' = Slot(i)
  <2>1. sp = Slot(i + 1)
    BY <1>7, <1>11 DEF StackLaid
  <2>2. Slot(i) \in Word
    BY <1>8, <1>12, Geometry DEF Word
  <2>3. QED
    BY <1>1, <1>12, <2>1, <2>2, WrapInRange DEF ArgSlot
<1>sl. PICK s \in Nat, t \in Nat : s = Slot(i) /\ t = Slot(i + 1)
  BY <1>12
<1> DEFINE word == s .. (t - 1)
           str == g .. (g + n - 1)
<1>14. s < t /\ t <= Top /\ Top <= g /\ Top \in Nat /\ s + PtrSize = t
       /\ base <= s
  BY <1>sl, <1>8, <1>12
<1>15. /\ Bytes(g, n) = str /\ \A x \in str : Wrap(x - g) = x - g
       /\ Bytes(s, PtrSize) = word /\ \A x \in word : Wrap(x - s) = x - s
  <2>1. g + n <= AddrSpace
    BY <1>3, <1>8, Geometry
  <2>2. s + PtrSize <= AddrSpace /\ s + PtrSize - 1 = t - 1
    BY <1>8, <1>14, Geometry
  <2>3. Bytes(g, n) = str /\ \A x \in str : Wrap(x - g) = x - g
    BY <1>3, <1>8, <2>1, BytesRange
  <2>4. /\ Bytes(s, PtrSize) = s .. (s + PtrSize - 1)
        /\ \A x \in s .. (s + PtrSize - 1) : Wrap(x - s) = x - s
    BY <1>8, <1>14, <2>2, BytesRange
  <2>5. QED
    BY <2>2, <2>3, <2>4
<1>16. /\ \A x \in DOMAIN data : t <= x /\ x < g /\ (x < Top \/ base + StackSize <= x)
                                 /\ x + GuestOffset < host_alloc
       /\ DOMAIN data \subseteq Nat
  BY <1>0, <1>sl, <1>1, <1>7, <1>13 DEF StackLaid, TypeOK, Word
<1>17. /\ DOMAIN data' = DOMAIN data \cup str \cup word
       /\ \A x \in word : data'[x] = WordByte(g, x - s)
       /\ \A x \in str : data'[x] = StringByte(i, x - g)
       /\ \A x \in DOMAIN data : data'[x] = data[x]
  <2> DEFINE mid == [x \in DOMAIN data \cup Bytes(g, n) |->
                      IF x \in Bytes(g, n) THEN StringByte(i, Wrap(x - g)) ELSE data[x]]
  <2>1. data' = [x \in DOMAIN mid \cup Bytes(ArgSlot, PtrSize) |->
                   IF x \in Bytes(ArgSlot, PtrSize)
                   THEN WordByte(guest_alloc, Wrap(x - ArgSlot)) ELSE mid[x]]
    BY <1>0, <1>3, Zenon DEF PushArg, mmu_write
  <2>2. ArgSlot = s
    BY <1>sl, <1>1, <1>13
  <2>3. /\ DOMAIN mid = DOMAIN data \cup str
        /\ \A x \in str : mid[x] = StringByte(i, x - g)
        /\ \A x \in DOMAIN data \ str : mid[x] = data[x]
    BY <1>15
  <2> HIDE DEF mid, word, str
  <2>4. data' = [x \in DOMAIN mid \cup word |->
                  IF x \in word THEN WordByte(g, Wrap(x - s)) ELSE mid[x]]
    BY <1>0, <1>15, <2>1, <2>2
  <2>5. /\ DOMAIN data' = DOMAIN data \cup str \cup word
        /\ \A x \in word : data'[x] = WordByte(g, x - s)
        /\ \A x \in (DOMAIN data \cup str) \ word : data'[x] = mid[x]
    BY <1>15, <2>3, <2>4
  <2>6. \A x \in word : x \in Int /\ x < t
    BY <1>14 DEF word
  <2>7. \A x \in str : x \in Int /\ x >= g
    BY <1>8 DEF str
  <2>8. \A x \in DOMAIN data : x \notin word /\ x \notin str
    BY <1>8, <1>14, <1>16, <2>6, <2>7
  <2>9. \A x \in str : x \notin word
    BY <1>8, <1>14, <2>6, <2>7
  <2>10. QED
    BY <2>3, <2>5, <2>8, <2>9
<1>18. ASSUME NEW x \in DOMAIN data'
       PROVE  /\ s <= x /\ (x < Top \/ base + StackSize <= x)
              /\ x + GuestOffset < host_alloc' /\ x < guest_alloc'
  <2>1. CASE x \in DOMAIN data
    BY <1>3, <1>8, <1>9, <1>14, <1>16, <2>1, Geometry
  <2>2. CASE x \in str
    BY <1>3, <1>8, <1>9, <1>10, <1>14, <2>2, Geometry
  <2>3. CASE x \in word
    BY <1>3, <1>8, <1>9, <1>14, <2>3, Geometry
  <2>4. QED
    BY <1>17, <2>1, <2>2, <2>3
<1>m. PICK m \in Nat : m = i
  BY <1>11
<1>19. \E a \in Word : CopiedTo(m, a)'
  <2>1. g \in Word
    BY <1>8, Geometry DEF Word
  <2>2. ASSUME NEW b \in 0 .. (PtrSize - 1)
        PROVE  s + b \in DOMAIN data' /\ data'[s + b] = WordByte(g, b)
    <3>1. s + b \in word /\ (s + b) - s = b
      BY <1>8, <1>14
    <3>2. QED
      BY <1>17, <3>1
  <2>3. ASSUME NEW j \in 0 .. (n - 1)
        PROVE  g + j \in DOMAIN data' /\ data'[g + j] = StringByte(m, j)
    <3>1. g + j \in str /\ (g + j) - g = j
      BY <1>3, <1>8
    <3>2. QED
      BY <1>m, <1>17, <3>1
  <2>4. g + n \notin DOMAIN data'
    <3>1. g + n \notin str /\ g + n \notin word
      BY <1>3, <1>8, <1>14
    <3>2. g + n \notin DOMAIN data
      BY <1>3, <1>8, <1>16
    <3>3. QED
      BY <1>17, <3>1, <3>2
  <2>5. g + n + GuestOffset < host_alloc' /\ g + n < guest_alloc'
    BY <1>3, <1>8, <1>9, <1>10, Geometry
  <2>6. argv'[m + 1] = n /\ Slot(m)' = s
    BY <1>m, <1>sl, <1>1, <1>3, <1>6
  <2>7. base' + StackSize <= g
    BY <1>4, <1>8
  <2>8. CopiedTo(m, g)'
    BY <2>2, <2>3, <2>4, <2>5, <2>6, <2>7 DEF CopiedTo
  <2>9. QED
    BY <2>1, <2>8
<1>20. ASSUME NEW k \in 1 .. (argc - 1), i + 1 <= k
       PROVE  \E a \in Word : CopiedTo(k, a)'
  <2>1. PICK a \in Word : CopiedTo(k, a)
    BY <1>7, <1>11, <1>20 DEF StackLaid
  <2>2. argv[k + 1] \in Nat /\ a \in Nat
    BY ArgLens DEF Word
  <2>3. argv' = argv /\ Slot(k)' = Slot(k)
    BY <1>1, <1>6
  <2>4. a + argv[k + 1] + GuestOffset < host_alloc' /\ a + argv[k + 1] < guest_alloc'
    <3>1. a + argv[k + 1] + GuestOffset < host_alloc /\ a + argv[k + 1] < g
      BY <1>0, <1>1, <2>1 DEF CopiedTo
    <3>2. QED
      BY <1>3, <1>8, <1>9, <2>2, <3>1, Geometry
  <2>5. a + argv[k + 1] \notin DOMAIN data'
    <3>1. a + argv[k + 1] \notin DOMAIN data /\ a + argv[k + 1] < g /\ base + StackSize <= a
      BY <1>0, <1>1, <2>1 DEF CopiedTo
    <3>2. a + argv[k + 1] \notin str /\ a + argv[k + 1] \notin word
      BY <1>8, <1>12, <1>14, <2>2, <3>1
    <3>3. QED
      BY <1>17, <3>1, <3>2
  <2>6. CopiedTo(k, a)'
    BY <1>4, <1>17, <2>1, <2>3, <2>4, <2>5 DEF CopiedTo
  <2>7. QED
    BY <2>6
<1>21. i' \in Nat /\ base' + StackSize <= guest_alloc'
       /\ base' + StackSize + GuestOffset <= host_alloc'
  BY <1>2, <1>3, <1>4, <1>8, <1>9, <1>10, <1>11, Geometry
<1>22. sp' = Slot(LastPushed)'
  BY <1>6, <1>11, <1>13
<1>23. \A k \in 1 .. (argc' - 1) : LastPushed' <= k => \E a \in Word : CopiedTo(k, a)'
  BY <1>m, <1>6, <1>11, <1>19, <1>20
<1>24. \A x \in DOMAIN data' :
         /\ sp' <= x /\ (x < Top' \/ base' + StackSize <= x)
         /\ x + GuestOffset < host_alloc' /\ x < guest_alloc'
  BY <1>sl, <1>4, <1>6, <1>13, <1>18
<1>25. QED
  BY <1>9, <1>21, <1>22, <1>23, <1>24 DEF StackLaid

\* argc goes below the pointers.
LEMMA CountPushed ==
  ASSUME TypeOK, TypeOK', StackKept, PushArgc, ctl' = "run",
         ~trimmed', ~displaced', Placed', ArgsFit'
  PROVE  StackLaid'
<1>1. /\ ctl = "argv" /\ i <= 0 /\ sp' = ArgSlot
      /\ UNCHANGED <<mmuVars, img, argv>>
  BY DEF PushArgc
<1>2. /\ UNCHANGED <<host_alloc, guest_alloc, base, pages, trimmed, displaced>>
      /\ argc' = argc
  BY <1>1 DEF mmuVars, argc
<1>3. Placed /\ ArgsFit /\ Top' = Top /\ \A k : Slot(k)' = Slot(k)
  <2>1. Placed
    BY <1>1, <1>2 DEF Placed, Loading
  <2>2. QED
    BY <1>2, <2>1 DEF ArgsFit, Top, Slot
<1>4. StackLaid
  BY <1>1, <1>2, <1>3 DEF StackKept
<1>5. i = 0 /\ LastPushed = 1 /\ LastPushed' = 0 /\ argc \in Nat /\ argc > 1
  <2>1. i = 0
    BY <1>1, <1>4 DEF StackLaid
  <2>2. argc > 1 /\ argc \in Nat
    BY <1>1, SetupTypes DEF StackKept, Loading
  <2>3. QED
    BY <1>1, <2>1, <2>2 DEF LastPushed
<1>6. PICK s \in Nat, t \in Nat :
        /\ s = Slot(0) /\ t = Slot(1) /\ sp = t /\ s = t - PtrSize
        /\ base <= s /\ t <= Top
  <2>1. 0 \in 0 .. argc /\ 1 \in 0 .. argc /\ 1 > 0 /\ 1 - 1 = 0
    BY <1>5
  <2>2. sp = Slot(1)
    BY <1>4, <1>5 DEF StackLaid
  <2>3. /\ Slot(0) \in Nat /\ Slot(1) \in Nat /\ Slot(0) = Slot(1) - PtrSize
        /\ base <= Slot(0) /\ Slot(1) <= Top
    BY <1>3, <2>1, Slots
  <2>4. QED
    BY <2>2, <2>3
<1>7. /\ base \in Nat /\ host_alloc \in Nat /\ PtrSize \in Nat /\ PtrSize > 0
      /\ host_alloc <= HostLimit /\ base + StackSize + GuestOffset <= host_alloc
      /\ Top \in Nat /\ Top + 3 * PtrSize = base + StackSize /\ StackSize \in Nat
  BY <1>3, <1>4, SetupTypes, Slots DEF Placed, StackLaid
<1>8. ArgSlot = s /\ sp' = s
  <2>1. s \in Word
    BY <1>6, <1>7, Geometry DEF Word
  <2>2. QED
    BY <1>1, <1>6, <2>1, WrapInRange DEF ArgSlot
<1> DEFINE word == s .. (t - 1)
<1>9. Bytes(s, PtrSize) = word /\ Wrap(s - s) = 0 /\ s \in word
  <2>1. s + PtrSize <= AddrSpace /\ s + PtrSize - 1 = t - 1 /\ s \in word /\ s - s = 0
    BY <1>6, <1>7, Geometry
  <2>2. /\ Bytes(s, PtrSize) = s .. (s + PtrSize - 1)
        /\ \A x \in s .. (s + PtrSize - 1) : Wrap(x - s) = x - s
    BY <1>7, <2>1, BytesRange
  <2>3. QED
    BY <2>1, <2>2
<1>10. /\ DOMAIN data' = DOMAIN data \cup word
       /\ data'[s] = WordByte(argc, 0)
       /\ \A x \in DOMAIN data \ word : data'[x] = data[x]
  <2>1. PICK upper : data' =
          [x \in DOMAIN data \cup Bytes(ArgSlot, PtrSize) |->
             IF x \in Bytes(ArgSlot, PtrSize)
             THEN IF 2 * Wrap(x - ArgSlot) < PtrSize
                  THEN WordByte(argc, Wrap(x - ArgSlot)) ELSE upper
             ELSE data[x]]
    BY <1>1, Zenon DEF PushArgc, mmu_write
  <2>2. data' = [x \in DOMAIN data \cup word |->
                   IF x \in word
                   THEN IF 2 * Wrap(x - s) < PtrSize
                        THEN WordByte(argc, Wrap(x - s)) ELSE upper
                   ELSE data[x]]
    BY <1>8, <1>9, <2>1, Zenon
  <2> HIDE DEF word
  <2>3. data'[s] = WordByte(argc, 0)
    <3>1. 2 * Wrap(s - s) < PtrSize
      BY <1>7, <1>9
    <3>2. data'[s] = WordByte(argc, Wrap(s - s))
      BY <1>9, <2>2, <3>1
    <3>3. QED
      BY <1>9, <3>2
  <2>4. QED
    BY <2>2, <2>3
<1>11. ASSUME NEW x \in DOMAIN data
       PROVE  /\ x \in Nat /\ t <= x /\ (x < Top \/ base + StackSize <= x)
              /\ x + GuestOffset < host_alloc /\ x \notin word
  <2>1. /\ x \in Nat /\ t <= x /\ (x < Top \/ base + StackSize <= x)
        /\ x + GuestOffset < host_alloc
    BY <1>4, <1>6 DEF StackLaid, TypeOK, Word
  <2>2. QED
    BY <2>1
<1>12. ASSUME NEW x \in DOMAIN data'
       PROVE  /\ s <= x /\ (x < Top \/ base + StackSize <= x)
              /\ x + GuestOffset < host_alloc
  <2>1. CASE x \in DOMAIN data
    BY <1>6, <1>7, <1>11, <2>1
  <2>2. CASE x \in word
    BY <1>6, <1>7, <2>2, Geometry
  <2>3. QED
    BY <1>10, <2>1, <2>2
<1> HIDE DEF word
<1>13. ASSUME NEW k \in 1 .. (argc - 1)
       PROVE  \E a \in Word : CopiedTo(k, a)'
  <2>1. PICK a \in Word : CopiedTo(k, a)
    BY <1>4, <1>5 DEF StackLaid
  <2>2. argv[k + 1] \in Nat /\ a \in Nat
    BY ArgLens DEF Word
  <2>3. argv' = argv /\ Slot(k)' = Slot(k)
    BY <1>1, <1>3
  <2>4. a + argv[k + 1] \notin word
    <3>1. base + StackSize <= a
      BY <2>1 DEF CopiedTo
    <3>2. QED
      BY <1>6, <1>7, <2>2, <3>1 DEF word
  <2>5. CopiedTo(k, a)'
    BY <1>2, <1>10, <1>11, <2>1, <2>3, <2>4 DEF CopiedTo
  <2>6. QED
    BY <2>5
<1>14. sp' = Slot(LastPushed)'
  BY <1>3, <1>5, <1>6, <1>8
<1>15. AnonArea'
  BY <1>2, <1>4 DEF StackLaid, AnonArea
<1>16. /\ base' + StackSize + GuestOffset <= host_alloc'
       /\ \A x \in DOMAIN data' :
            /\ sp' <= x /\ (x < Top' \/ base' + StackSize <= x)
            /\ x + GuestOffset < host_alloc'
  BY <1>2, <1>3, <1>7, <1>8, <1>12
<1>17. \A k \in 1 .. (argc' - 1) : \E a \in Word : CopiedTo(k, a)'
  BY <1>2, <1>13
<1>18. sp' \in DOMAIN data' /\ data'[sp'] = WordByte(argc', 0)
  BY <1>2, <1>8, <1>9, <1>10
<1>19. QED
  BY <1>14, <1>15, <1>16, <1>17, <1>18 DEF StackLaid

\* brk leaves the stack and the strings alone, until it calls munmap.
LEMMA BrkSpares ==
  ASSUME BrkArgsInRange, TypeOK, TypeOK', Accounting, StackKept,
         NEW a \in BrkArgs, sys_brk(a), ~trimmed', ~displaced', Placed', ArgsFit'
  PROVE  StackLaid'
<1>1. /\ ctl = "run" /\ ctl' = "run" /\ mmu_alloc(BrkIncr(a))
      /\ data' = [x \in {y \in DOMAIN data : MappedIn(pages', TO_HOST(y))} |-> data[x]]
      /\ UNCHANGED <<img, argv, i, sp>>
  BY DEF sys_brk
<1>2. BrkIncr(a) \in Int
  BY BrkTypes
<1>3. /\ base' = base /\ ~displaced /\ ~trimmed
      /\ \A p \in Page : pages[p] # Unmapped => pages'[p] = pages[p]
  BY <1>1, <1>2, AllocHistory, AllocKeeps
<1>4. Placed
  BY <1>1, <1>3 DEF Accounting, NoImage
<1>5. argc' = argc /\ ArgsFit /\ Top' = Top /\ \A k : Slot(k)' = Slot(k)
  <2>1. argc' = argc
    BY <1>1 DEF argc
  <2>2. QED
    BY <1>3, <2>1 DEF ArgsFit, Top, Slot
<1>6. StackLaid /\ AnonArea
  BY <1>1, <1>3, <1>4, <1>5 DEF StackKept, StackLaid
<1>7. AnonArea' /\ host_alloc <= host_alloc' /\ host_alloc' \in Nat
  <2>1. 2 * BrkIncr(a) <= AddrSpace /\ guest_alloc + BrkIncr(a) >= 0
    BY <1>4, BrkExact
  <2>2. ctl' \notin Loading
    BY <1>1 DEF Loading
  <2>3. QED
    BY <1>1, <1>2, <1>3, <1>4, <1>6, <2>1, <2>2, AllocExact
<1>8. base \in Nat /\ host_alloc \in Nat /\ argc \in Nat /\ StackSize \in Nat
  BY SetupTypes
<1>9. LastPushed = 0 /\ LastPushed' = 0 /\ sp \in Nat /\ base <= sp
  <2>1. LastPushed = 0 /\ LastPushed' = 0
    BY <1>1 DEF LastPushed
  <2>2. sp = Slot(0)
    BY <1>6, <2>1 DEF StackLaid
  <2>3. 0 \in 0 .. argc
    BY <1>8
  <2>4. Slot(0) \in Nat /\ base <= Slot(0)
    BY <1>5, <2>3, Slots
  <2>5. QED
    BY <2>1, <2>2, <2>4
<1>10. ASSUME NEW x \in DOMAIN data
       PROVE  /\ MappedIn(pages', TO_HOST(x)) /\ x \in Nat
              /\ sp <= x /\ (x < Top \/ base + StackSize <= x)
              /\ x + GuestOffset < host_alloc'
  <2>1. /\ x \in Nat /\ sp <= x /\ (x < Top \/ base + StackSize <= x)
        /\ x + GuestOffset < host_alloc
    BY <1>6 DEF StackLaid, TypeOK, Word
  <2>2. base <= x
    BY <1>8, <1>9, <2>1
  <2>3. /\ TO_HOST(x) < HostLimit /\ PageOf(TO_HOST(x)) \in Page
        /\ base + GuestOffset <= PageOf(TO_HOST(x)) * PageSize
        /\ PageOf(TO_HOST(x)) * PageSize < host_alloc
    BY <1>4, <2>1, <2>2, AreaPage
  <2>4. pages[PageOf(TO_HOST(x))] = Anonymous
    BY <1>6, <2>3 DEF AnonArea
  <2>5. MappedIn(pages', TO_HOST(x))
    BY <1>3, <2>3, <2>4 DEF MappedIn, Anonymous, Unmapped
  <2>6. x + GuestOffset < host_alloc'
    BY <1>7, <1>8, <2>1, Geometry
  <2>7. QED
    BY <2>1, <2>5, <2>6
<1>11. DOMAIN data' = DOMAIN data /\ \A x \in DOMAIN data : data'[x] = data[x]
  BY <1>1, <1>10
<1>12. ASSUME NEW k \in 1 .. (argc - 1)
       PROVE  \E c \in Word : CopiedTo(k, c)'
  <2>1. PICK c \in Word : CopiedTo(k, c)
    BY <1>6, <1>9 DEF StackLaid
  <2>2. argv[k + 1] \in Nat /\ c \in Nat
    BY ArgLens DEF Word
  <2>3. c + argv[k + 1] + GuestOffset < host_alloc'
    <3>1. c + argv[k + 1] + GuestOffset < host_alloc
      BY <2>1 DEF CopiedTo
    <3>2. QED
      BY <1>7, <1>8, <2>2, <3>1, Geometry
  <2>4. argv' = argv /\ Slot(k)' = Slot(k)
    BY <1>1, <1>5
  <2>5. CopiedTo(k, c)'
    BY <1>1, <1>3, <1>11, <2>1, <2>3, <2>4 DEF CopiedTo
  <2>6. QED
    BY <2>5
<1>13. sp' = Slot(LastPushed)'
  <2>1. sp = Slot(0)
    BY <1>6, <1>9 DEF StackLaid
  <2>2. QED
    BY <1>1, <1>5, <1>9, <2>1
<1>14. base' + StackSize + GuestOffset <= host_alloc'
  <2>1. base + StackSize + GuestOffset <= host_alloc
    BY <1>6 DEF StackLaid
  <2>2. QED
    BY <1>3, <1>7, <1>8, <2>1, Geometry
<1>15. \A x \in DOMAIN data' :
         /\ sp' <= x /\ (x < Top' \/ base' + StackSize <= x)
         /\ x + GuestOffset < host_alloc'
  BY <1>1, <1>3, <1>5, <1>10, <1>11
<1>16. \A k \in 1 .. (argc' - 1) : \E c \in Word : CopiedTo(k, c)'
  BY <1>5, <1>12
<1>17. sp' \in DOMAIN data' /\ data'[sp'] = WordByte(argc', 0)
  BY <1>1, <1>5, <1>6, <1>11 DEF StackLaid
<1>18. QED
  BY <1>1, <1>7, <1>13, <1>14, <1>15, <1>16, <1>17 DEF StackLaid

\* Each step of main keeps the stack.
LEMMA StackStep ==
  ASSUME BrkArgsInRange, TypeOK, TypeOK', Accounting, StackKept, [Next]_vars
  PROVE  StackKept'
<1>1. CASE ctl' \in Stopped
  BY <1>1 DEF StackKept, Stopped, Loading
<1>2. CASE OpenFails \/ LoadPhdrFails \/ SetupFails \/ sys_exit
           \/ (\E a \in BrkArgs : BrkFails(a))
  <2>1. ctl' \in Stopped
    BY <1>2 DEF OpenFails, LoadPhdrFails, SetupFails, sys_exit, BrkFails, Stopped
  <2>2. QED
    BY <1>1, <2>1
<1>3. CASE Open
  <2>1. ctl = "main" /\ ctl' = "header" /\ argc > 1 /\ argc' = argc /\ data' = data
    BY <1>3 DEF Open, argc
  <2>2. QED
    BY <2>1 DEF StackKept, Loading
<1>4. CASE (ReadHeader \/ LoadPhdr \/ LoadDone) /\ ctl' \in Loading
  <2>1. /\ ctl \in Loading \ {"main"} /\ ctl' \in Loading \ {"main"}
        /\ argc' = argc /\ data' = data
    BY <1>4 DEF ReadHeader, LoadPhdr, LoadDone, argc, Loading
  <2>2. QED
    BY <2>1 DEF StackKept, Loading
<1>5. CASE SetupStack
  <2>1. ctl = "setup" /\ ctl' = "argv" /\ argc' = argc
    BY <1>5 DEF SetupStack, argc
  <2>2. ctl' \notin Loading /\ argc' > 1
    BY <2>1 DEF StackKept, Loading
  <2>3. QED
    BY <1>5, <2>2, StackAllocated DEF StackKept
<1>6. CASE PushArg /\ ctl' \notin Stopped
  <2>1. ctl = "argv" /\ ctl' = "argv" /\ argc' = argc
    BY <1>6 DEF PushArg, argc, Stopped
  <2>2. ctl' \notin Loading /\ argc' > 1
    BY <2>1 DEF StackKept, Loading
  <2>3. QED
    BY <1>6, <2>1, <2>2, ArgumentCopied DEF StackKept
<1>7. CASE PushArgc /\ ctl' \notin Stopped
  <2>1. ctl = "argv" /\ ctl' = "run" /\ argc' = argc
    BY <1>7 DEF PushArgc, argc, Stopped
  <2>2. ctl' \notin Loading /\ argc' > 1
    BY <2>1 DEF StackKept, Loading
  <2>3. QED
    BY <1>7, <2>1, <2>2, CountPushed DEF StackKept
<1>8. ASSUME NEW a \in BrkArgs, sys_brk(a)
      PROVE  StackKept'
  <2>1. ctl = "run" /\ ctl' = "run" /\ argc' = argc
    BY <1>8 DEF sys_brk, argc
  <2>2. ctl' \notin Loading /\ argc' > 1
    BY <2>1 DEF StackKept, Loading
  <2>3. QED
    BY <1>8, <2>2, BrkSpares DEF StackKept
<1>9. CASE UNCHANGED vars
  <2>1. /\ UNCHANGED <<host_alloc, guest_alloc, base, pages, trimmed, displaced>>
        /\ UNCHANGED <<ctl, argv, i, sp, data>>
    BY <1>9 DEF vars, mmuVars
  <2>2. /\ argc' = argc /\ Top' = Top /\ LastPushed' = LastPushed
        /\ (Placed' <=> Placed) /\ (ArgsFit' <=> ArgsFit) /\ (AnonArea' <=> AnonArea)
        /\ \A k : Slot(k)' = Slot(k)
    BY <2>1 DEF argc, Top, LastPushed, Placed, ArgsFit, AnonArea, Slot
  <2>3. \A k, a : CopiedTo(k, a)' <=> CopiedTo(k, a)
    BY <2>1, <2>2 DEF CopiedTo
  <2>4. Slot(LastPushed)' = Slot(LastPushed)
    BY <2>2
  <2>5. StackLaid => StackLaid'
    BY <2>1, <2>2, <2>3, <2>4 DEF StackLaid
  <2>6. QED
    BY <2>1, <2>2, <2>5 DEF StackKept
<1>10. (ReadHeader \/ LoadPhdr \/ LoadDone) => ctl' \in Loading \/ ctl' \in Stopped
  BY DEF ReadHeader, LoadPhdr, LoadDone, Loading, Stopped
<1>11. QED
  BY <1>1, <1>2, <1>3, <1>4, <1>5, <1>6, <1>7, <1>8, <1>9, <1>10
  DEF Next, Startup, Syscall, Terminated

-----------------------------------------------------------------------------
(* What the guest finds.                                                   *)

\* The two invariants hold of every reachable state.
LEMMA StartupInvariant ==
  ASSUME BrkArgsInRange
  PROVE  Spec => [](TypeOK /\ Accounting /\ ImageKept /\ StackKept)
<1>1. Init => ImageKept /\ StackKept
  BY DEF Init, ImageKept, StackKept, Loading
<1>2. TypeOK /\ TypeOK' /\ Accounting /\ Accounting' /\ ImageKept /\ StackKept /\ [Next]_vars
        => ImageKept' /\ StackKept'
  BY ImageStep, StackStep
<1>3. QED
  BY <1>1, <1>2, TypeCorrect, AccountingInvariant, PTL DEF Spec

\* A laid-out stack is what ArgsIntact describes.
LEMMA LaidMeansIntact ==
  ASSUME TypeOK, Accounting, StackKept, ~displaced, ArgsFit
  PROVE  ArgsIntact
<1> SUFFICES ASSUME ctl = "run", ~trimmed
             PROVE  /\ Content(sp) = WordByte(argc, 0)
                    /\ \A k \in 1 .. (argc - 1) : IsArg(sp + k * PtrSize, k)
                    /\ \A b \in 0 .. (3 * PtrSize - 1) :
                         Content(sp + argc * PtrSize + b) = Zero
  BY DEF ArgsIntact
<1>1. Placed /\ StackLaid /\ AnonArea
  BY DEF Accounting, NoImage, StackKept, StackLaid
<1>2. /\ base \in Nat /\ host_alloc \in Nat /\ argc \in Nat /\ StackSize \in Nat
      /\ PtrSize \in Nat /\ PtrSize > 0 /\ Top \in Nat
      /\ Top + 3 * PtrSize = base + StackSize
      /\ base + StackSize + GuestOffset <= host_alloc
  BY <1>1, SetupTypes, Slots DEF StackLaid
<1>3. LastPushed = 0 /\ sp = Slot(0)
  BY <1>1 DEF StackLaid, LastPushed
<1>4. \A k \in 0 .. argc : /\ Slot(k) \in Nat /\ base <= Slot(k) /\ Slot(k) <= Top
                           /\ Slot(k) = sp + k * PtrSize
  BY <1>3, Slots
<1>5. Slot(argc) = Top /\ sp + argc * PtrSize = Top /\ sp \in Nat /\ base <= sp
      /\ sp <= Top
  <2>1. argc \in 0 .. argc /\ 0 \in 0 .. argc
    BY <1>2
  <2>2. Slot(argc) = Top
    BY Slots
  <2>3. QED
    BY <1>3, <1>4, <2>1, <2>2
<1>6. Content(sp) = WordByte(argc, 0)
  <2>1. sp \in DOMAIN data /\ data[sp] = WordByte(argc, 0)
    BY <1>1 DEF StackLaid
  <2>2. sp + GuestOffset < host_alloc
    BY <1>2, <1>5, Geometry
  <2>3. QED
    BY <1>1, <1>5, <2>1, <2>2, AreaContent
<1>7. ASSUME NEW b \in 0 .. (3 * PtrSize - 1)
      PROVE  Content(sp + argc * PtrSize + b) = Zero
  <2>1. /\ Top + b \in Nat /\ base <= Top + b /\ Top + b + GuestOffset < host_alloc
        /\ Top <= Top + b /\ Top + b < base + StackSize
    BY <1>2, <1>5, Geometry
  <2>2. Top + b \notin DOMAIN data
    <3>1. Top + b \in DOMAIN data => Top + b < Top \/ base + StackSize <= Top + b
      BY <1>1 DEF StackLaid
    <3>2. QED
      BY <1>2, <2>1, <3>1
  <2>3. Content(Top + b) = Zero
    BY <1>1, <2>1, <2>2, AreaContent
  <2>4. QED
    BY <1>5, <2>3
<1>8. ASSUME NEW k \in 1 .. (argc - 1)
      PROVE  IsArg(sp + k * PtrSize, k)
  <2>1. PICK a \in Word : CopiedTo(k, a)
    BY <1>1, <1>3 DEF StackLaid
  <2>2. argv[k + 1] \in Nat /\ a \in Nat
    BY ArgLens DEF Word
  <2>3. /\ base + StackSize <= a /\ a + argv[k + 1] + GuestOffset < host_alloc
        /\ a + argv[k + 1] \notin DOMAIN data
    BY <2>1 DEF CopiedTo
  <2>4. k \in 0 .. argc
    BY <1>2
  <2>5. ASSUME NEW b \in 0 .. (PtrSize - 1)
        PROVE  Content(sp + k * PtrSize + b) = WordByte(a, b)
    <3>1. Slot(k) + b \in DOMAIN data /\ data[Slot(k) + b] = WordByte(a, b)
      BY <2>1 DEF CopiedTo
    <3>2. Slot(k) \in Nat /\ base <= Slot(k) /\ Slot(k) <= Top
          /\ Slot(k) = sp + k * PtrSize
      BY <1>4, <2>4
    <3>3. Slot(k) + b \in Nat /\ base <= Slot(k) + b
          /\ Slot(k) + b + GuestOffset < host_alloc
      BY <1>2, <3>2, Geometry
    <3>4. Content(Slot(k) + b) = WordByte(a, b)
      BY <1>1, <3>1, <3>3, AreaContent
    <3>5. QED
      BY <3>2, <3>4
  <2>6. ASSUME NEW j \in 0 .. (argv[k + 1] - 1)
        PROVE  Content(a + j) = StringByte(k, j)
    <3>1. a + j \in DOMAIN data /\ data[a + j] = StringByte(k, j)
      BY <2>1 DEF CopiedTo
    <3>2. a + j \in Nat /\ base <= a + j /\ a + j + GuestOffset < host_alloc
      BY <1>2, <2>2, <2>3, Geometry
    <3>3. QED
      BY <1>1, <3>1, <3>2, AreaContent
  <2>7. Content(a + argv[k + 1]) = Zero
    <3>1. a + argv[k + 1] \in Nat /\ base <= a + argv[k + 1]
      BY <1>2, <2>2, <2>3, Geometry
    <3>2. QED
      BY <1>1, <2>3, <3>1, AreaContent
  <2>8. QED
    BY <2>5, <2>6, <2>7 DEF IsArg
<1>9. QED
  BY <1>6, <1>7, <1>8

\* The guest starts with the whole argument vector: argc, one pointer to each
\* argument, every string terminated, and three null words, provided that the
\* vector fits in the stack and that the kernel followed the hints of
\* machine_setup's allocations.
THEOREM ArgumentsArrive ==
  ASSUME BrkArgsInRange
  PROVE  Spec => [](~displaced /\ ArgsFit => ArgsIntact)
<1>1. TypeOK /\ Accounting /\ StackKept => (~displaced /\ ArgsFit => ArgsIntact)
  BY LaidMeansIntact
<1>2. QED
  BY <1>1, StartupInvariant, PTL

\* One header that HeadersSane describes.
SanePhdr(phdr) ==
  /\ PhdrOK(phdr)
  /\ phdr.offset % PageSize = phdr.vaddr % PageSize
  /\ phdr.filesz + 2 * PageSize <= AddrSpace
  /\ phdr.memsz + 2 * PageSize <= AddrSpace

\* Adding a whole number of pages keeps the place within the page.
LEMMA SamePlace ==
  \A k \in Nat \ {0} : \A x, y \in Nat : y % k = 0 => (x + y) % k = x % k
<1> SUFFICES ASSUME NEW k \in Nat \ {0}, NEW x \in Nat, NEW y \in Nat, y % k = 0
             PROVE  (x + y) % k = x % k
  OBVIOUS
<1> DEFINE a == x \div k
           b == y \div k
           r == x % k
<1>1. x = a * k + r /\ y = b * k /\ a \in Int /\ b \in Int /\ r \in Int /\ 0 <= r /\ r < k
  OBVIOUS
<1> HIDE DEF a, b, r
<1>2. x + y = (a + b) * k + r /\ a + b \in Int
  BY <1>1
<1>3. (x + y) % k = r
  BY <1>1, <1>2, ModMultiple
<1>4. QED
  BY <1>3 DEF r

\* For such a header no size wraps: the segment is where it should be.
LEMMA SaneSizes ==
  ASSUME NEW phdr, SanePhdr(phdr)
  PROVE  /\ Lead(phdr) = phdr.vaddr % PageSize /\ Lead(phdr) \in Nat
         /\ phdr.vaddr + GuestOffset = Aligned(phdr) + Lead(phdr)
         /\ FileSize(phdr) = phdr.filesz + Lead(phdr)
         /\ MemSize(phdr) = phdr.memsz + Lead(phdr)
         /\ MemSize(phdr) + PageSize <= AddrSpace
<1>1. /\ PageSize \in Nat \ {0} /\ GuestOffset \in Nat /\ GuestOffset % PageSize = 0
      /\ phdr.vaddr \in Nat /\ phdr.filesz \in Nat /\ phdr.memsz \in Nat
      /\ phdr.vaddr + GuestOffset < AddrSpace /\ AddrSpace \in Nat
      /\ phdr.filesz + 2 * PageSize <= AddrSpace
      /\ phdr.memsz + 2 * PageSize <= AddrSpace
  BY PageAssumption, WordAssumption DEF SanePhdr, PhdrOK, Word
<1>2. PICK h \in Nat : h = phdr.vaddr + GuestOffset /\ h < AddrSpace
  BY <1>1
<1>3. InHost(phdr) = h
  <2>1. h \in Word
    BY <1>1, <1>2 DEF Word
  <2>2. QED
    BY <1>2, <2>1, WrapInRange DEF InHost, TO_HOST
<1>4. h % PageSize = phdr.vaddr % PageSize
  BY <1>1, <1>2, SamePlace
<1>5. Aligned(phdr) = h - (h % PageSize)
  BY <1>3 DEF Aligned, ROUNDDOWN
<1>6. PICK l \in Nat : l = h % PageSize /\ l < PageSize
  BY <1>1
<1>7. Lead(phdr) = l /\ h = Aligned(phdr) + l
  <2>1. Lead(phdr) = h - (h - l)
    BY <1>3, <1>5, <1>6 DEF Lead
  <2>2. h - (h - l) = l /\ h = (h - l) + l
    OBVIOUS
  <2>3. QED
    BY <1>5, <1>6, <2>1, <2>2, Zenon
<1>8. FileSize(phdr) = phdr.filesz + l /\ MemSize(phdr) = phdr.memsz + l
  <2>1. phdr.filesz + l \in Word /\ phdr.memsz + l \in Word
    BY <1>1, <1>6 DEF Word
  <2>2. QED
    BY <1>7, <2>1, WrapInRange DEF FileSize, MemSize
<1>9. phdr.memsz + l + PageSize <= AddrSpace
  BY <1>1, <1>6
<1>10. QED
  BY <1>2, <1>4, <1>6, <1>7, <1>8, <1>9

\* Products distribute over sums.
LEMMA Products ==
  \A x, y, p, k \in Nat : (x + (p - y)) * k = x * k + p * k - y * k
OBVIOUS

\* What the pages of an accepted segment show: at each byte of its file part that
\* byte of the file, and on the .bss pages nothing of the file.
LEMMA SegmentShows ==
  ASSUME NEW phdr, SanePhdr(phdr), Accepted(phdr), NEW h \in Nat
  PROVE  /\ phdr.vaddr + GuestOffset <= h
            /\ h < phdr.vaddr + GuestOffset + phdr.filesz =>
              /\ h < SegmentEnd(phdr) /\ h < HostLimit
              /\ FrameOf(phdr, PageOf(h)) \in Nat
              /\ FrameOf(phdr, PageOf(h)) * PageSize + (h % PageSize)
                   = phdr.offset + (h - (phdr.vaddr + GuestOffset))
         /\ FileEnd(phdr) <= h /\ h < phdr.vaddr + GuestOffset + phdr.memsz =>
              /\ h < SegmentEnd(phdr) /\ h < HostLimit
              /\ FrameOf(phdr, PageOf(h)) = Anonymous
<1> DEFINE p == PageOf(h)
<1>1. /\ PageSize \in Nat \ {0} /\ GuestOffset \in Nat /\ HostLimit \in Nat
      /\ phdr.vaddr \in Nat /\ phdr.filesz \in Nat /\ phdr.memsz \in Nat
      /\ phdr.offset \in Nat /\ AddrSpace \in Nat
  BY PageAssumption, WordAssumption DEF SanePhdr, PhdrOK, Word
<1>2. PICK l \in Nat, a \in Nat, f \in Nat, m \in Nat :
        /\ l = phdr.vaddr % PageSize /\ a = Aligned(phdr)
        /\ phdr.vaddr + GuestOffset = a + l
        /\ f = FileSize(phdr) /\ f = phdr.filesz + l
        /\ m = MemSize(phdr) /\ m = phdr.memsz + l /\ m + PageSize <= AddrSpace
        /\ a % PageSize = 0 /\ f > 0 /\ a + f <= HostLimit
  <2>1. PhdrOK(phdr)
    BY DEF SanePhdr
  <2>2. /\ Aligned(phdr) \in Nat /\ Aligned(phdr) % PageSize = 0
        /\ FileSize(phdr) \in Nat /\ MemSize(phdr) \in Nat
    BY <2>1, SegmentLocals DEF Word
  <2>3. FileSize(phdr) > 0 /\ Aligned(phdr) + FileSize(phdr) <= HostLimit
    BY DEF Accepted, InUserSpace
  <2>4. QED
    BY <2>2, <2>3, SaneSizes
<1>3. PICK rf \in Nat, rm \in Nat :
        /\ f <= rf /\ m <= rm /\ rf <= rm /\ a + rm <= HostLimit
        /\ (a + rf) % PageSize = 0
        /\ FileEnd(phdr) = a + rf /\ BssSize(phdr) = rm - rf /\ SegmentEnd(phdr) = a + rm
  <2>1. PICK rf, rm : /\ rf = ROUNDUP(FileSize(phdr), PageSize)
                      /\ rm = ROUNDUP(MemSize(phdr), PageSize)
    OBVIOUS
  <2>2. /\ rf \in Nat /\ FileSize(phdr) <= rf /\ rm \in Nat /\ rf <= rm
        /\ Aligned(phdr) + rm <= HostLimit
        /\ (Aligned(phdr) + rf) % PageSize = 0
        /\ FileEnd(phdr) = Aligned(phdr) + rf /\ BssSize(phdr) = rm - rf
        /\ SegmentEnd(phdr) = Aligned(phdr) + rm
    BY <2>1, SegmentLayout DEF SanePhdr, Accepted
  <2>3. m <= rm
    BY <1>2, <2>1, RoundUp
  <2>4. QED
    BY <1>2, <2>2, <2>3
<1>r. /\ a + f <= HostLimit /\ HostLimit \in Nat /\ f <= rf /\ m <= rm /\ rf <= rm
      /\ a + rm <= HostLimit /\ FileEnd(phdr) = a + rf
  BY <1>1, <1>2, <1>3
<1>4. h < HostLimit =>
        /\ p \in Page /\ p \in Int /\ p * PageSize = ROUNDDOWN(h, PageSize)
  BY PageOfAddress, PageAssumption DEF Page
<1>5. /\ ROUNDDOWN(h, PageSize) \in Int /\ ROUNDDOWN(h, PageSize) <= h
      /\ ROUNDDOWN(h, PageSize) = h - (h % PageSize)
  <2>1. h \in Int
    OBVIOUS
  <2>2. QED
    BY <1>1, <2>1, RoundDown DEF ROUNDDOWN
<1> HIDE DEF p
<1>6. ASSUME a + l <= h, h < a + f
      PROVE  /\ h < SegmentEnd(phdr) /\ h < HostLimit
             /\ FrameOf(phdr, p) \in Nat
             /\ FrameOf(phdr, p) * PageSize + (h % PageSize)
                  = phdr.offset + (h - (phdr.vaddr + GuestOffset))
  <2>1. h < a + rm /\ h < HostLimit /\ a <= h
    BY <1>r, <1>6
  <2>2. /\ p \in Page /\ p \in Int /\ p * PageSize \in Int /\ p * PageSize <= h
        /\ p * PageSize = h - (h % PageSize)
    BY <1>4, <1>5, <2>1
  <2>3. a <= p * PageSize
    <3>1. a \in Int /\ h \in Int
      OBVIOUS
    <3>2. a <= ROUNDDOWN(h, PageSize)
      BY <1>1, <1>2, <2>1, <3>1, RoundDownLargest
    <3>3. QED
      BY <1>4, <2>1, <3>2
  <2>4. p \in Span(a, f)
    <3>1. p * PageSize < a + f
      BY <1>6, <2>2
    <3>2. QED
      BY <1>2, <2>2, <2>3, <3>1, SpanBytes
  <2>5. ~(BssSize(phdr) > 0 /\ p \in Span(FileEnd(phdr), BssSize(phdr)))
    <3> SUFFICES ASSUME rm - rf > 0, p \in Span(a + rf, rm - rf)
                 PROVE  FALSE
      BY <1>3
    <3>1. a + rf \in Nat /\ rm - rf \in Nat
      BY <1>3
    <3>2. a + rf <= p * PageSize
      BY <1>3, <2>2, <3>1, SpanBytes
    <3>3. QED
      BY <1>3, <1>6, <2>2, <3>2
  <2> DEFINE o == ROUNDDOWN(phdr.offset, PageSize)
  <2>6. FrameOf(phdr, p) = PageOf(o) + (p - PageOf(a))
    BY <1>2, <2>2, <2>4, <2>5 DEF FrameOf, SegmentPages, MapFile, MapAnon
  <2>7. o \in Nat /\ o % PageSize = 0 /\ phdr.offset = o + l
    <3>1. phdr.offset \in Int
      BY <1>1
    <3>2. o \in Int /\ o % PageSize = 0 /\ o >= 0
      BY <1>1, <3>1, RoundDown
    <3>3. o = phdr.offset - l
      BY <1>2 DEF ROUNDDOWN, SanePhdr
    <3>4. QED
      BY <1>1, <3>2, <3>3
  <2> HIDE DEF o
  <2>8. PICK x \in Nat, y \in Nat : /\ x = PageOf(o) /\ x * PageSize = o
                                    /\ y = PageOf(a) /\ y * PageSize = a
    <3>1. ASSUME NEW z \in Nat, z % PageSize = 0
          PROVE  PageOf(z) \in Nat /\ PageOf(z) * PageSize = z
      BY <1>1, <3>1 DEF PageOf
    <3>2. QED
      BY <1>2, <2>7, <3>1
  <2>9. p >= y
    BY <1>1, <2>2, <2>3, <2>8
  <2>10. (x + (p - y)) * PageSize = o + p * PageSize - a
    <3>1. p \in Nat /\ PageSize \in Nat
      BY <1>1, <2>2, PageAssumption DEF Page
    <3>2. (x + (p - y)) * PageSize = x * PageSize + p * PageSize - y * PageSize
      BY <3>1, Products
    <3>3. QED
      BY <2>8, <3>2
  <2>11. FrameOf(phdr, p) = x + (p - y)
    BY <2>6, <2>8
  <2>12. PICK r \in Nat : r = h % PageSize
    BY <1>1
  <2>13. o + p * PageSize - a + (h % PageSize) = phdr.offset + (h - (phdr.vaddr + GuestOffset))
    <3>1. /\ p * PageSize \in Int /\ p * PageSize = h - r /\ phdr.offset = o + l
          /\ phdr.vaddr + GuestOffset = a + l /\ o \in Nat
      BY <1>2, <2>2, <2>7, <2>12
    <3>2. o + (h - r) - a + r = (o + l) + (h - (a + l))
      BY <3>1
    <3>3. QED
      BY <2>12, <3>1, <3>2
  <2>14. FrameOf(phdr, p) \in Nat
    BY <2>2, <2>9, <2>11
  <2>15. QED
    BY <1>3, <2>1, <2>10, <2>11, <2>13, <2>14
<1>7. ASSUME FileEnd(phdr) <= h, h < a + m
      PROVE  /\ h < SegmentEnd(phdr) /\ h < HostLimit
             /\ FrameOf(phdr, p) = Anonymous
  <2>1. h < a + rm /\ h < HostLimit /\ a + rf <= h /\ rm - rf > 0
    BY <1>r, <1>7
  <2>2. p \in Page /\ p \in Int /\ p * PageSize \in Int /\ p * PageSize <= h
    BY <1>4, <1>5, <2>1
  <2>3. a + rf <= p * PageSize
    <3>1. a + rf \in Int /\ h \in Int
      OBVIOUS
    <3>2. a + rf <= ROUNDDOWN(h, PageSize)
      BY <1>1, <1>3, <2>1, <3>1, RoundDownLargest
    <3>3. QED
      BY <1>4, <2>1, <3>2
  <2>4. p \in Span(FileEnd(phdr), BssSize(phdr)) /\ BssSize(phdr) > 0
    <3>1. a + rf \in Nat /\ rm - rf \in Nat
      BY <1>3
    <3>2. p * PageSize < (a + rf) + (rm - rf)
      BY <2>1, <2>2
    <3>3. p \in Span(a + rf, rm - rf)
      BY <1>3, <2>1, <2>2, <2>3, <3>1, <3>2, SpanBytes
    <3>4. QED
      BY <1>3, <2>1, <3>3
  <2>5. QED
    BY <1>3, <2>1, <2>2, <2>4 DEF FrameOf, SegmentPages, MapAnon
<1>8. QED
  <2>1. phdr.vaddr + GuestOffset + phdr.filesz = a + f
        /\ phdr.vaddr + GuestOffset + phdr.memsz = a + m
    BY <1>1, <1>2
  <2>2. QED
    BY <1>2, <1>6, <1>7, <2>1 DEF p

\* The .bss of an accepted segment does not run past the address space.
LEMMA BssInRange ==
  ASSUME NEW phdr, SanePhdr(phdr), Accepted(phdr), NEW h \in Nat,
         h < phdr.vaddr + GuestOffset + phdr.memsz
  PROVE  h < AddrSpace
<1>1. PICK rf, rm : /\ rf = ROUNDUP(FileSize(phdr), PageSize)
                    /\ rm = ROUNDUP(MemSize(phdr), PageSize)
  OBVIOUS
<1>2. rm \in Nat /\ Aligned(phdr) + rm <= HostLimit
  BY <1>1, SegmentLayout DEF SanePhdr, Accepted
<1>3. Aligned(phdr) \in Nat /\ MemSize(phdr) \in Nat
  BY SegmentLocals DEF SanePhdr, Word
<1>4. MemSize(phdr) <= rm
  BY <1>1, <1>3, SaneSizes, RoundUp
<1>5. /\ Lead(phdr) \in Nat /\ phdr.vaddr + GuestOffset = Aligned(phdr) + Lead(phdr)
      /\ MemSize(phdr) = phdr.memsz + Lead(phdr) /\ phdr.memsz \in Nat
  BY SaneSizes DEF SanePhdr, PhdrOK, Word
<1>6. h < Aligned(phdr) + MemSize(phdr)
  BY <1>3, <1>5
<1>7. QED
  BY <1>2, <1>3, <1>4, <1>6, Geometry

\* A byte of the image has the frame its segment asked for, and machine_setup and
\* brk have written nothing over it.
LEMMA ImageByte ==
  ASSUME TypeOK, Accounting, ImageKept, StackKept, ctl = "run", ~trimmed, ~displaced,
         ArgsFit, SegmentsAgree, HeadersSane, NEW k \in Segments, NEW g \in Nat,
         g + GuestOffset < SegmentEnd(img.phdrs[k]), g + GuestOffset < HostLimit,
         FrameOf(img.phdrs[k], PageOf(g + GuestOffset)) # Unmapped
  PROVE  /\ TO_HOST(g) = g + GuestOffset /\ Mapped(g) /\ g \notin DOMAIN data
         /\ pages[PageOf(g + GuestOffset)] = FrameOf(img.phdrs[k], PageOf(g + GuestOffset))
<1> DEFINE h == g + GuestOffset
<1>1. h \in Nat /\ h < HostLimit /\ h \in Word
  BY Geometry DEF Word
<1>2. TO_HOST(g) = h
  BY <1>1, WrapInRange DEF TO_HOST
<1>3. PageOf(h) \in Page
  BY <1>1, PageOfAddress
<1>4. /\ SegmentEnd(img.phdrs[k]) <= base + GuestOffset
      /\ pages[PageOf(h)] = FrameOf(img.phdrs[k], PageOf(h))
      /\ Accepted(img.phdrs[k])
  <2>1. k \in LoadedSoFar
    BY DEF LoadedSoFar
  <2>2. QED
    BY <1>3, <2>1 DEF ImageKept
<1>5. Mapped(g)
  BY <1>1, <1>2, <1>4 DEF Mapped, MappedIn
<1>6. g < base
  <2>1. SegmentEnd(img.phdrs[k]) \in Nat
    BY <1>4, SegmentPhdr, SegmentGeometry DEF Accepted
  <2>2. base \in Nat /\ GuestOffset \in Nat
    BY SetupTypes, Geometry
  <2>3. QED
    BY <1>4, <2>1, <2>2
<1>7. g \notin DOMAIN data
  <2>1. StackLaid
    BY DEF Accounting, NoImage, StackKept
  <2>2. sp = Slot(0)
    BY <2>1 DEF StackLaid, LastPushed
  <2>3. base <= Slot(0) /\ Slot(0) \in Nat /\ base \in Nat
    <3>1. argc \in Nat /\ base \in Nat
      BY SetupTypes
    <3>2. 0 \in 0 .. argc
      BY <3>1
    <3>3. QED
      BY <3>1, <3>2, Slots
  <2>4. g \in DOMAIN data => sp <= g
    BY <2>1 DEF StackLaid
  <2>5. QED
    BY <1>6, <2>2, <2>3, <2>4
<1>8. QED
  BY <1>2, <1>4, <1>5, <1>7

\* The invariants imply the two properties of the image.
LEMMA ImageRight ==
  ASSUME TypeOK, Accounting, ImageKept, StackKept, ~displaced,
         ArgsFit, SegmentsAgree, HeadersSane
  PROVE  SegmentsLoaded /\ BssPagesZero
<1>1. ASSUME NEW k \in Segments PROVE SanePhdr(img.phdrs[k])
  BY <1>1, SegmentPhdr DEF SanePhdr, HeadersSane
<1>2. ASSUME ctl = "run", ~trimmed, NEW k \in Segments PROVE Accepted(img.phdrs[k])
  BY <1>2 DEF ImageKept, LoadedSoFar
<1>3. SegmentsLoaded
  <2> SUFFICES ASSUME ctl = "run", ~trimmed, NEW k \in Segments,
                      NEW j \in 0 .. (img.phdrs[k].filesz - 1)
               PROVE  Content(img.phdrs[k].vaddr + j) = FileByte(img.phdrs[k].offset + j)
    BY DEF SegmentsLoaded
  <2>1. PICK phdr : phdr = img.phdrs[k]
    OBVIOUS
  <2>2. SanePhdr(phdr) /\ Accepted(phdr)
    BY <1>1, <1>2, <2>1
  <2>3. /\ phdr.vaddr \in Nat /\ phdr.filesz \in Nat /\ phdr.offset \in Nat
        /\ GuestOffset \in Nat /\ j \in Nat /\ j < phdr.filesz
    BY <2>1, <2>2, Geometry DEF SanePhdr, PhdrOK, Word
  <2>4. PICK g \in Nat, h \in Nat :
          /\ g = phdr.vaddr + j /\ h = g + GuestOffset
          /\ phdr.vaddr + GuestOffset <= h
          /\ h < phdr.vaddr + GuestOffset + phdr.filesz
          /\ h - (phdr.vaddr + GuestOffset) = j
    BY <2>3
  <2>5. /\ h < SegmentEnd(phdr) /\ h < HostLimit /\ FrameOf(phdr, PageOf(h)) \in Nat
        /\ FrameOf(phdr, PageOf(h)) * PageSize + (h % PageSize) = phdr.offset + j
    BY <2>2, <2>4, SegmentShows
  <2>6. FrameOf(phdr, PageOf(h)) # Unmapped /\ FrameOf(phdr, PageOf(h)) # Anonymous
    BY <2>5 DEF Unmapped, Anonymous
  <2>7. /\ TO_HOST(g) = h /\ Mapped(g) /\ g \notin DOMAIN data
        /\ pages[PageOf(h)] = FrameOf(phdr, PageOf(h))
    BY <2>1, <2>4, <2>5, <2>6, ImageByte
  <2>8. Content(g) = FileByte(phdr.offset + j)
    BY <2>5, <2>6, <2>7, Zenon DEF Content
  <2>9. QED
    BY <2>1, <2>4, <2>8
<1>4. BssPagesZero
  <2> SUFFICES ASSUME ctl = "run", ~trimmed, NEW k \in Segments,
                      NEW g \in BssPageBytes(img.phdrs[k])
               PROVE  Content(g) = Zero
    BY DEF BssPagesZero
  <2>1. PICK phdr : phdr = img.phdrs[k]
    OBVIOUS
  <2>2. SanePhdr(phdr) /\ Accepted(phdr) /\ PhdrOK(phdr)
    BY <1>1, <1>2, <2>1 DEF SanePhdr
  <2>3. /\ phdr.vaddr \in Nat /\ phdr.filesz \in Nat /\ phdr.memsz \in Nat
        /\ GuestOffset \in Nat
    BY <2>2, Geometry DEF PhdrOK, Word
  <2>4. /\ g \in Nat /\ g < phdr.vaddr + phdr.memsz /\ FileEnd(phdr) <= TO_HOST(g)
        /\ FileEnd(phdr) \in Nat
    <3>1. /\ g \in (phdr.vaddr + phdr.filesz) .. (phdr.vaddr + phdr.memsz - 1)
          /\ TO_HOST(g) >= FileEnd(phdr)
      BY <2>1 DEF BssPageBytes, BssBytes
    <3>2. FileEnd(phdr) \in Nat /\ g + GuestOffset \in Int
      BY <2>2, <2>3, <3>1, SegmentLocals DEF Word
    <3>3. TO_HOST(g) \in Nat
      BY <3>2, WrapType DEF TO_HOST, Word
    <3>4. QED
      BY <2>3, <3>1, <3>2, <3>3
  <2>5. PICK h \in Nat : h = g + GuestOffset /\ h < phdr.vaddr + GuestOffset + phdr.memsz
    BY <2>3, <2>4
  <2>6. TO_HOST(g) = h
    <3>1. h < AddrSpace
      BY <2>2, <2>5, BssInRange
    <3>2. h \in Word
      BY <3>1, Geometry DEF Word
    <3>3. QED
      BY <2>5, <3>2, WrapInRange DEF TO_HOST
  <2>7. h < SegmentEnd(phdr) /\ h < HostLimit /\ FrameOf(phdr, PageOf(h)) = Anonymous
    BY <2>2, <2>4, <2>5, <2>6, SegmentShows
  <2>8. Mapped(g) /\ g \notin DOMAIN data /\ pages[PageOf(h)] = Anonymous
    BY <2>1, <2>4, <2>5, <2>7, ImageByte DEF Anonymous, Unmapped
  <2>9. QED
    BY <2>6, <2>8, Zenon DEF Content
<1>5. QED
  BY <1>3, <1>4

\* A program whose headers follow the ELF format starts with every byte of every
\* segment in place, although mmu_load_segment maps whole pages over one another
\* and machine_setup and brk write and map next to them.
THEOREM ProgramInPlace ==
  ASSUME BrkArgsInRange
  PROVE  Spec => [](~displaced /\ ArgsFit /\ SegmentsAgree /\ HeadersSane => SegmentsLoaded)
<1>1. TypeOK /\ Accounting /\ ImageKept /\ StackKept =>
        (~displaced /\ ArgsFit /\ SegmentsAgree /\ HeadersSane => SegmentsLoaded)
  BY ImageRight
<1>2. QED
  BY <1>1, StartupInvariant, PTL

\* The .bss pages beyond the file's are zero when such a program starts.
THEOREM BssCleared ==
  ASSUME BrkArgsInRange
  PROVE  Spec => [](~displaced /\ ArgsFit /\ SegmentsAgree /\ HeadersSane => BssPagesZero)
<1>1. TypeOK /\ Accounting /\ ImageKept /\ StackKept =>
        (~displaced /\ ArgsFit /\ SegmentsAgree /\ HeadersSane => BssPagesZero)
  BY ImageRight
<1>2. QED
  BY <1>1, StartupInvariant, PTL
=============================================================================
