------------------------------ MODULE MmuProofs ------------------------------
(***************************************************************************)
(* Facts about the macros of rvemu.h and about page ranges, for every word *)
(* width, page size and address-space layout.                              *)
(***************************************************************************)
EXTENDS Mmu, TLAPS

-----------------------------------------------------------------------------
(* Words.                                                                  *)

\* Unsigned wrap-around of any integer is a word (every uint64_t result).
LEMMA WrapType == \A x \in Int : Wrap(x) \in Word
BY WordAssumption DEF Wrap, Word

\* Sums that stay in range do not wrap.
LEMMA WrapInRange == \A x \in Word : Wrap(x) = x
BY WordAssumption DEF Wrap, Word

\* A difference that drops below zero comes back at the top.
LEMMA WrapNegative == \A x \in Int : -AddrSpace <= x /\ x < 0 => Wrap(x) = x + AddrSpace
BY WordAssumption DEF Wrap

\* Adding a multiple of k keeps the remainder.
LEMMA ModMultiple ==
  \A k \in Nat \ {0} : \A q, r \in Int : 0 <= r /\ r < k => (q * k + r) % k = r
OBVIOUS

\* Multiples of k are closed under sum and difference.
LEMMA MultipleSum ==
  ASSUME NEW k \in Nat \ {0}, NEW x \in Int, NEW y \in Int,
         x % k = 0, y % k = 0
  PROVE  (x + y) % k = 0 /\ (x - y) % k = 0
<1>1. x = (x \div k) * k /\ y = (y \div k) * k
  OBVIOUS
<1> DEFINE a == x \div k
           b == y \div k
<1>2. a \in Int /\ b \in Int
  OBVIOUS
<1>3. x + y = (a + b) * k + 0 /\ x - y = (a - b) * k + 0
  BY <1>1, <1>2
<1>4. a + b \in Int /\ a - b \in Int
  BY <1>2
<1> HIDE DEF a, b
<1>5. QED
  BY <1>3, <1>4, ModMultiple, SMTT(40)

\* ROUNDDOWN is the largest multiple of k that is not above x.
LEMMA RoundDown ==
  ASSUME NEW k \in Nat \ {0}, NEW x \in Int
  PROVE  /\ ROUNDDOWN(x, k) \in Int
         /\ ROUNDDOWN(x, k) % k = 0
         /\ ROUNDDOWN(x, k) <= x /\ x < ROUNDDOWN(x, k) + k
         /\ x >= 0 => ROUNDDOWN(x, k) >= 0
<1>1. x = (x \div k) * k + (x % k) /\ (x % k) \in 0 .. (k - 1)
  OBVIOUS
<1>2. ROUNDDOWN(x, k) % k = 0
  BY DEF ROUNDDOWN
<1>3. x >= 0 => ROUNDDOWN(x, k) >= 0
  BY <1>1 DEF ROUNDDOWN
<1>4. QED
  BY <1>1, <1>2, <1>3 DEF ROUNDDOWN

\* ROUNDDOWN in terms of the quotient.
LEMMA RoundDownDiv ==
  ASSUME NEW k \in Nat \ {0}, NEW x \in Int
  PROVE  ROUNDDOWN(x, k) = (x \div k) * k
<1>1. x = (x \div k) * k + (x % k) /\ (x % k) \in 0 .. (k - 1)
  OBVIOUS
<1>2. QED
  BY <1>1 DEF ROUNDDOWN

\* A multiple of k that is not above x is not above ROUNDDOWN(x, k).
LEMMA RoundDownLargest ==
  ASSUME NEW k \in Nat \ {0}, NEW x \in Int, NEW m \in Int, m % k = 0, m <= x
  PROVE  m <= ROUNDDOWN(x, k)
<1>1. m = (m \div k) * k /\ (m \div k) \in Int
  OBVIOUS
<1>2. ROUNDDOWN(x, k) = (x \div k) * k
  BY RoundDownDiv, Zenon
<1>3. x < (x \div k) * k + k
  BY RoundDown, <1>2
<1> DEFINE a == m \div k
           b == x \div k
<1>4. a * k < (b + 1) * k
  BY <1>1, <1>2, <1>3
<1>5. a \in Int /\ b \in Int
  OBVIOUS
<1> HIDE DEF a, b
<1>6. a < b + 1
  BY <1>4, <1>5
<1>7. a * k <= b * k
  BY <1>6, <1>5
<1>8. QED
  BY <1>7, <1>1, <1>2 DEF a, b

\* ROUNDUP to pages of a size that does not wrap: the next multiple.
LEMMA RoundUp ==
  ASSUME NEW x \in Nat, x + PageSize <= AddrSpace
  PROVE  /\ ROUNDUP(x, PageSize) \in Word
         /\ ROUNDUP(x, PageSize) % PageSize = 0
         /\ x <= ROUNDUP(x, PageSize) /\ ROUNDUP(x, PageSize) < x + PageSize
<1>1. x + PageSize - 1 \in Word
  BY WordAssumption, PageAssumption DEF Word
<1>2. ROUNDUP(x, PageSize) = ROUNDDOWN(x + PageSize - 1, PageSize)
  BY <1>1, WrapInRange DEF ROUNDUP
<1>3. PageSize \in Nat \ {0}
  BY PageAssumption
<1> DEFINE y == x + PageSize - 1
<1>4. y \in Int /\ y >= 0
  BY <1>3
<1>5. /\ ROUNDDOWN(y, PageSize) \in Int
      /\ ROUNDDOWN(y, PageSize) % PageSize = 0
      /\ ROUNDDOWN(y, PageSize) <= y /\ y < ROUNDDOWN(y, PageSize) + PageSize
      /\ ROUNDDOWN(y, PageSize) >= 0
  BY <1>3, <1>4, RoundDown
<1>6. QED
  BY <1>1, <1>2, <1>3, <1>5, WordAssumption DEF Word

\* ROUNDUP of any integer is a word and a whole number of pages.
LEMMA RoundUpType ==
  ASSUME NEW x \in Int
  PROVE  ROUNDUP(x, PageSize) \in Word /\ ROUNDUP(x, PageSize) % PageSize = 0
<1>1. PageSize \in Nat \ {0} /\ x + PageSize - 1 \in Int
  BY PageAssumption DEF Word
<1>2. Wrap(x + PageSize - 1) \in Word
  BY <1>1, WrapType
<1>3. PICK y \in Word : y = Wrap(x + PageSize - 1)
  BY <1>2
<1>4. y \in Int /\ y >= 0
  BY <1>3, WordAssumption DEF Word
<1>5. /\ ROUNDDOWN(y, PageSize) \in Int /\ ROUNDDOWN(y, PageSize) % PageSize = 0
      /\ ROUNDDOWN(y, PageSize) <= y /\ ROUNDDOWN(y, PageSize) >= 0
  BY <1>1, <1>4, RoundDown
<1>6. ROUNDDOWN(y, PageSize) \in Word
  BY <1>3, <1>5, WordAssumption DEF Word
<1>7. QED
  BY <1>3, <1>5, <1>6 DEF ROUNDUP

-----------------------------------------------------------------------------
(* Pages.                                                                  *)

\* A page is in the span of an aligned range when its first byte is.
LEMMA SpanBytes ==
  ASSUME NEW h \in Nat, NEW len \in Nat, h % PageSize = 0, len > 0, NEW p \in Int
  PROVE  p \in Span(h, len) <=> h <= p * PageSize /\ p * PageSize < h + len
<1>1. PageSize \in Nat \ {0}
  BY PageAssumption
<1> DEFINE n == h + len - 1
<1>2. n \in Nat /\ n < h + len /\ n >= h
  OBVIOUS
<1>3. (p * PageSize) % PageSize = 0 /\ p * PageSize \in Int
  BY <1>1
<1>4. h = (h \div PageSize) * PageSize
  BY <1>1
<1>5. n \div PageSize \in Int /\ h \div PageSize \in Int
  BY <1>1, <1>2
<1>6. (n \div PageSize) * PageSize <= n /\ n < (n \div PageSize) * PageSize + PageSize
  BY <1>1, <1>2
<1>7. p >= h \div PageSize <=> h <= p * PageSize
  <2> DEFINE a == h \div PageSize
  <2>1. a \in Int /\ h = a * PageSize
    BY <1>4, <1>5
  <2> HIDE DEF a
  <2>2. p >= a <=> a * PageSize <= p * PageSize
    BY <2>1, <1>1
  <2>3. QED
    BY <2>1, <2>2 DEF a
<1>8. p <= n \div PageSize <=> p * PageSize <= n
  <2> DEFINE b == n \div PageSize
  <2>1. b \in Int /\ b * PageSize <= n /\ n < (b + 1) * PageSize
    BY <1>1, <1>5, <1>6
  <2> HIDE DEF b
  <2>2. ASSUME p <= b PROVE p * PageSize <= n
    BY <2>1, <2>2, <1>1, <1>2
  <2>3. ASSUME p * PageSize <= n PROVE p <= b
    <3>1. p * PageSize < (b + 1) * PageSize
      BY <2>1, <2>3, <1>1, <1>2
    <3>2. QED
      BY <3>1, <2>1, <1>1
  <2>4. QED
    BY <2>2, <2>3 DEF b
<1>9. Span(h, len) = (h \div PageSize) .. (n \div PageSize)
  BY DEF Span, PageOf
<1>10. p \in Span(h, len) <=> p >= h \div PageSize /\ p <= n \div PageSize
  BY <1>5, <1>9
<1>11. p * PageSize <= n <=> p * PageSize < h + len
  BY <1>3
<1>12. QED
  BY <1>7, <1>8, <1>10, <1>11

\* The page of a user address is a page of the table, and holds the address.
LEMMA PageOfAddress ==
  ASSUME NEW h \in Nat, h < HostLimit
  PROVE  /\ PageOf(h) \in Page
         /\ PageOf(h) * PageSize = ROUNDDOWN(h, PageSize)
<1>1. PageSize \in Nat \ {0} /\ HostLimit \in Nat /\ HostLimit % PageSize = 0
  BY PageAssumption
<1>2. PageOf(h) * PageSize = ROUNDDOWN(h, PageSize)
  <2>1. h \in Int
    OBVIOUS
  <2>2. QED
    BY <1>1, <2>1, RoundDownDiv, Zenon DEF PageOf
<1>3. h \div PageSize \in Nat
  BY <1>1
<1> DEFINE a == h \div PageSize
           b == HostLimit \div PageSize
<1>4. a \in Nat /\ b \in Int /\ HostLimit = b * PageSize
  BY <1>1, <1>3
<1>5. a * PageSize <= h
  BY <1>1
<1> HIDE DEF a, b
<1>6. a * PageSize < b * PageSize
  BY <1>4, <1>5, <1>1
<1>7. a < b
  BY <1>6, <1>4, <1>1
<1>8. QED
  BY <1>2, <1>4, <1>7 DEF Page, PageOf, a, b

\* The pages of a range the kernel accepts are pages of the table.
LEMMA SpanPages ==
  ASSUME NEW h \in Nat, NEW len \in Nat, h % PageSize = 0, InUserSpace(h, len),
         NEW p \in Int, p \in Span(h, len)
  PROVE  p \in Page
<1>1. PageSize \in Nat \ {0} /\ HostLimit \in Nat /\ HostLimit % PageSize = 0
  BY PageAssumption
<1>2. h <= p * PageSize /\ p * PageSize < h + len /\ len > 0
  BY SpanBytes DEF InUserSpace
<1> DEFINE b == HostLimit \div PageSize
<1>3. b \in Int /\ HostLimit = b * PageSize
  BY <1>1
<1> HIDE DEF b
<1>4. p * PageSize < b * PageSize
  BY <1>1, <1>2, <1>3 DEF InUserSpace
<1>5. p < b
  BY <1>1, <1>3, <1>4
<1>6. p >= 0
  BY <1>1, <1>2
<1>7. QED
  BY <1>3, <1>5, <1>6 DEF Page, b

\* Multiples of the page size less than a page apart are ordered.
LEMMA MultipleGap ==
  ASSUME NEW k \in Nat \ {0}, NEW x \in Int, NEW y \in Int,
         x % k = 0, y % k = 0, x < y + k
  PROVE  x <= y
<1>1. x = (x \div k) * k /\ y = (y \div k) * k
  OBVIOUS
<1> DEFINE a == x \div k
           b == y \div k
<1>2. a \in Int /\ b \in Int /\ a * k < (b + 1) * k
  BY <1>1
<1> HIDE DEF a, b
<1>3. a < b + 1
  BY <1>2
<1>4. a * k <= b * k
  BY <1>2, <1>3
<1>5. QED
  BY <1>1, <1>4 DEF a, b

\* A page is no larger than the user address space.
LEMMA PageFits == PageSize <= HostLimit /\ PageSize <= GuestOffset
<1>1. PageSize \in Nat \ {0} /\ HostLimit \in Nat /\ GuestOffset \in Nat
  BY PageAssumption
<1>2. ASSUME NEW x \in Nat, x > 0, x % PageSize = 0 PROVE PageSize <= x
  BY <1>1, <1>2
<1>3. QED
  BY <1>1, <1>2, PageAssumption

-----------------------------------------------------------------------------
(* Types: what mmu_load_segment and mmu_alloc leave behind.                *)

\* The effects of mmap and munmap keep the page table well formed.
LEMMA TableType ==
  ASSUME NEW tbl \in [Page -> Frame], NEW h \in Nat, NEW len \in Nat,
         NEW offset \in Nat
  PROVE  /\ MapAnon(tbl, h, len) \in [Page -> Frame]
         /\ Unmap(tbl, h, len) \in [Page -> Frame]
         /\ MapFile(tbl, h, len, offset) \in [Page -> Frame]
<1>1. MapAnon(tbl, h, len) \in [Page -> Frame]
  BY DEF MapAnon, Frame
<1>2. Unmap(tbl, h, len) \in [Page -> Frame]
  BY DEF Unmap, Frame
<1>3. MapFile(tbl, h, len, offset) \in [Page -> Frame]
  <2>1. PageOf(offset) \in Nat /\ PageOf(h) \in Int /\ PageOf(h + len - 1) \in Int
    BY PageAssumption DEF PageOf
  <2>2. ASSUME NEW p \in Page, p \in Span(h, len)
        PROVE  PageOf(offset) + (p - PageOf(h)) \in Frame
    BY <2>1, <2>2 DEF Span, Frame
  <2>3. QED
    BY <2>2 DEF MapFile
<1>4. QED
  BY <1>1, <1>2, <1>3

\* mmu_alloc keeps the types of mmu_t, whatever the size asked for.
LEMMA AllocType ==
  ASSUME MmuTypeOK, NEW size \in Int, mmu_alloc(size)
  PROVE  MmuTypeOK'
<1>1. NewBreak(size) \in Word
  BY WrapType DEF NewBreak, MmuTypeOK, Word
<1>2. CASE AllocWithin(size)
  BY <1>1, <1>2 DEF AllocWithin, MmuTypeOK
<1>3. CASE AllocGrow(size)
  <2> DEFINE n == ROUNDUP(size, PageSize)
  <2>1. n \in Word
    BY RoundUpType
  <2>2. n \in Nat /\ host_alloc \in Nat
    BY <2>1 DEF Word, MmuTypeOK
  <2> HIDE DEF n
  <2>3. Wrap(host_alloc + n) \in Word
    BY <2>2, WrapType
  <2>4. MapAnon(pages, host_alloc, n) \in [Page -> Frame]
    BY <2>2, TableType DEF MmuTypeOK
  <2>5. /\ guest_alloc' = NewBreak(size) /\ host_alloc' = Wrap(host_alloc + n)
        /\ \/ pages' = MapAnon(pages, host_alloc, n) /\ displaced' = displaced
           \/ pages' = pages /\ displaced' = TRUE
        /\ UNCHANGED <<entry, base, trimmed>>
    BY <1>3 DEF AllocGrow, n
  <2>6. QED
    BY <1>1, <2>3, <2>4, <2>5 DEF MmuTypeOK
<1>4. CASE AllocShrink(size)
  <2> DEFINE m == Wrap(TO_GUEST(host_alloc) - ROUNDUP(NewBreak(size), PageSize))
  <2>1. m \in Word
    <3>1. TO_GUEST(host_alloc) \in Word
      BY WrapType, PageAssumption DEF TO_GUEST, MmuTypeOK, Word
    <3>2. ROUNDUP(NewBreak(size), PageSize) \in Word
      BY <1>1, RoundUpType DEF Word
    <3>3. TO_GUEST(host_alloc) - ROUNDUP(NewBreak(size), PageSize) \in Int
      BY <3>1, <3>2 DEF Word
    <3>4. QED
      BY <3>3, WrapType
  <2>2. m \in Nat /\ host_alloc \in Nat
    BY <2>1 DEF Word, MmuTypeOK
  <2> HIDE DEF m
  <2>3. Wrap(host_alloc - m) \in Word
    BY <2>2, WrapType
  <2>4. Unmap(pages, host_alloc, m) \in [Page -> Frame]
    BY <2>2, TableType DEF MmuTypeOK
  <2>5. /\ guest_alloc' = NewBreak(size) /\ host_alloc' = Wrap(host_alloc - m)
        /\ pages' = Unmap(pages, host_alloc, m) /\ trimmed' = TRUE
        /\ UNCHANGED <<entry, base, displaced>>
    BY <1>4 DEF AllocShrink, m
  <2>6. QED
    BY <1>1, <2>3, <2>4, <2>5 DEF MmuTypeOK
<1>5. QED
  BY <1>2, <1>3, <1>4 DEF mmu_alloc

-----------------------------------------------------------------------------
(* Segments: where mmu_load_segment puts a header the kernel accepted.     *)

\* The end of a segment as mmu_load_segment computes it.
SegmentEnd(phdr) == Wrap(Aligned(phdr) + ROUNDUP(MemSize(phdr), PageSize))

\* A program header at a user address.
PhdrOK(phdr) ==
  /\ phdr.vaddr \in Word /\ phdr.filesz \in Word /\ phdr.memsz \in Word
  /\ phdr.offset \in Word
  /\ phdr.vaddr + GuestOffset < AddrSpace

\* The locals of mmu_load_segment are words, whatever the header holds.
LEMMA SegmentLocals ==
  ASSUME NEW phdr, PhdrOK(phdr)
  PROVE  /\ Aligned(phdr) \in Nat /\ Aligned(phdr) % PageSize = 0
         /\ GuestOffset <= Aligned(phdr) /\ Aligned(phdr) < AddrSpace
         /\ FileSize(phdr) \in Word /\ MemSize(phdr) \in Word
         /\ FileEnd(phdr) \in Word /\ BssSize(phdr) \in Word
<1>1. PageSize \in Nat \ {0} /\ GuestOffset \in Nat /\ GuestOffset % PageSize = 0
  BY PageAssumption
<1>2. InHost(phdr) = phdr.vaddr + GuestOffset /\ InHost(phdr) \in Word
  <2>1. phdr.vaddr + GuestOffset \in Word
    BY <1>1, WordAssumption DEF PhdrOK, Word
  <2>2. QED
    BY <2>1, WrapInRange DEF InHost, TO_HOST
<1>3. InHost(phdr) \in Int /\ InHost(phdr) >= GuestOffset /\ InHost(phdr) < AddrSpace
  BY <1>1, <1>2, WordAssumption DEF PhdrOK, Word
<1> DEFINE g == InHost(phdr)
<1> HIDE DEF g
<1>4. /\ ROUNDDOWN(g, PageSize) \in Int /\ ROUNDDOWN(g, PageSize) % PageSize = 0
      /\ ROUNDDOWN(g, PageSize) <= g
  BY <1>1, <1>3, RoundDown DEF g
<1>5. GuestOffset <= ROUNDDOWN(g, PageSize)
  BY <1>1, <1>3, RoundDownLargest DEF g
<1>6. /\ Aligned(phdr) \in Nat /\ Aligned(phdr) % PageSize = 0
      /\ GuestOffset <= Aligned(phdr) /\ Aligned(phdr) < AddrSpace
  BY <1>1, <1>3, <1>4, <1>5, WordAssumption DEF Aligned, g
<1>7. Lead(phdr) \in Int
  BY <1>3, <1>6 DEF Lead
<1>8. FileSize(phdr) \in Word /\ MemSize(phdr) \in Word
  <2>1. phdr.filesz + Lead(phdr) \in Int /\ phdr.memsz + Lead(phdr) \in Int
    BY <1>7 DEF PhdrOK, Word
  <2>2. QED
    BY <2>1, WrapType DEF FileSize, MemSize
<1>9. ROUNDUP(FileSize(phdr), PageSize) \in Word /\ ROUNDUP(MemSize(phdr), PageSize) \in Word
  BY <1>8, RoundUpType DEF Word
<1>10. FileEnd(phdr) \in Word /\ BssSize(phdr) \in Word
  <2>1. /\ Aligned(phdr) + ROUNDUP(FileSize(phdr), PageSize) \in Int
        /\ ROUNDUP(MemSize(phdr), PageSize) - ROUNDUP(FileSize(phdr), PageSize) \in Int
    BY <1>6, <1>9 DEF Word
  <2>2. QED
    BY <2>1, WrapType DEF FileEnd, BssSize
<1>11. QED
  BY <1>6, <1>8, <1>10

\* Once the kernel has accepted its two mappings the locals of mmu_load_segment
\* are the true ends and sizes.  This needs no assumption on p_filesz and
\* p_memsz: sizes that wrap are refused.
LEMMA SegmentLayout ==
  ASSUME NEW phdr, PhdrOK(phdr),
         InUserSpace(Aligned(phdr), FileSize(phdr)),
         BssSize(phdr) > 0 => InUserSpace(FileEnd(phdr), BssSize(phdr)),
         NEW rf, rf = ROUNDUP(FileSize(phdr), PageSize),
         NEW rm, rm = ROUNDUP(MemSize(phdr), PageSize)
  PROVE  /\ rf \in Nat /\ rf % PageSize = 0
         /\ FileSize(phdr) <= rf /\ rf < FileSize(phdr) + PageSize
         /\ rm \in Nat /\ rm % PageSize = 0 /\ rf <= rm
         /\ Aligned(phdr) + rm <= HostLimit
         /\ (Aligned(phdr) + rf) % PageSize = 0 /\ (Aligned(phdr) + rm) % PageSize = 0
         /\ FileEnd(phdr) = Aligned(phdr) + rf
         /\ BssSize(phdr) = rm - rf
         /\ SegmentEnd(phdr) = Aligned(phdr) + rm
<1> DEFINE a == Aligned(phdr)
           f == FileSize(phdr)
<1>1. /\ PageSize \in Nat \ {0} /\ GuestOffset \in Nat /\ HostLimit \in Nat
      /\ HostLimit % PageSize = 0 /\ 4 * HostLimit <= AddrSpace /\ AddrSpace \in Nat
      /\ PageSize <= HostLimit
  BY PageAssumption, WordAssumption, PageFits
<1>2. a \in Nat /\ a % PageSize = 0 /\ GuestOffset <= a
  BY SegmentLocals
<1>3. f \in Nat /\ f > 0 /\ a + f <= HostLimit
  BY SegmentLocals DEF InUserSpace, Word
<1>4. f + PageSize <= AddrSpace
  BY <1>1, <1>2, <1>3
<1>5. rf \in Nat /\ rf % PageSize = 0 /\ f <= rf /\ rf < f + PageSize
  BY <1>3, <1>4, RoundUp DEF Word
<1>6. rm \in Nat /\ rm < AddrSpace /\ rm % PageSize = 0
  <2>1. MemSize(phdr) \in Int
    BY SegmentLocals DEF Word
  <2>2. rm \in Word /\ rm % PageSize = 0
    BY <2>1, RoundUpType
  <2>3. QED
    BY <2>2, WordAssumption DEF Word
<1> HIDE DEF a, f
<1>7. (a + rf) % PageSize = 0 /\ (a + rm) % PageSize = 0
  <2>1. a \in Int /\ rf \in Int /\ rm \in Int
    BY <1>2, <1>5, <1>6
  <2>2. (a + rf) % PageSize = 0
    BY <1>1, <1>2, <1>5, <2>1, MultipleSum, Zenon
  <2>3. (a + rm) % PageSize = 0
    BY <1>1, <1>2, <1>6, <2>1, MultipleSum, Zenon
  <2>4. QED
    BY <2>2, <2>3
<1>8. a + rf <= HostLimit
  <2>1. a + rf < HostLimit + PageSize
    BY <1>1, <1>2, <1>3, <1>5
  <2>2. a + rf \in Int
    BY <1>2, <1>5
  <2>3. QED
    BY <1>1, <1>7, <2>1, <2>2, MultipleGap
<1>9. FileEnd(phdr) = a + rf
  <2>1. a + rf \in Word
    BY <1>1, <1>2, <1>5, <1>8 DEF Word
  <2>2. QED
    BY <2>1, WrapInRange DEF FileEnd, a, f
<1>10. BssSize(phdr) = Wrap(rm - rf)
  BY DEF BssSize, f
<1>11. rm >= rf
  <2>1. SUFFICES ASSUME rm < rf PROVE FALSE
    BY <1>5, <1>6
  <2>2. Wrap(rm - rf) = rm - rf + AddrSpace
    <3>1. -AddrSpace <= rm - rf /\ rm - rf < 0 /\ rm - rf \in Int
      BY <2>1, <1>1, <1>2, <1>5, <1>6, <1>8
    <3>2. QED
      BY <3>1, WrapNegative
  <2>3. BssSize(phdr) > 0
    BY <2>2, <1>1, <1>2, <1>5, <1>6, <1>8, <1>10
  <2>4. a + rf + (rm - rf + AddrSpace) <= HostLimit
    BY <2>2, <2>3, <1>9, <1>10 DEF InUserSpace
  <2>5. QED
    BY <2>4, <1>1, <1>2, <1>5, <1>6
<1>12. BssSize(phdr) = rm - rf
  <2>1. rm - rf \in Word
    BY <1>1, <1>5, <1>6, <1>11 DEF Word
  <2>2. QED
    BY <2>1, <1>10, WrapInRange
<1>13. a + rm <= HostLimit
  <2>1. CASE rm = rf
    BY <2>1, <1>8
  <2>2. CASE rm > rf
    BY <2>2, <1>5, <1>6, <1>9, <1>12, <1>2 DEF InUserSpace
  <2>3. QED
    BY <2>1, <2>2, <1>5, <1>6, <1>11
<1>14. SegmentEnd(phdr) = a + rm
  <2>1. a + rm \in Word
    BY <1>1, <1>2, <1>6, <1>13 DEF Word
  <2>2. QED
    BY <2>1, WrapInRange DEF SegmentEnd, a
<1>15. Aligned(phdr) = a /\ FileSize(phdr) = f
  BY DEF a, f
<1>16. QED
  BY <1>5, <1>6, <1>7, <1>9, <1>11, <1>12, <1>13, <1>14, <1>15

\* An accepted segment ends, with its .bss,
\* inside the user address space, and both mappings lie below that end.
LEMMA SegmentGeometry ==
  ASSUME NEW phdr, PhdrOK(phdr),
         InUserSpace(Aligned(phdr), FileSize(phdr)),
         BssSize(phdr) > 0 => InUserSpace(FileEnd(phdr), BssSize(phdr))
  PROVE  /\ SegmentEnd(phdr) \in Nat /\ SegmentEnd(phdr) % PageSize = 0
         /\ GuestOffset < SegmentEnd(phdr) /\ SegmentEnd(phdr) <= HostLimit
         /\ FileEnd(phdr) % PageSize = 0
         /\ Aligned(phdr) + FileSize(phdr) <= SegmentEnd(phdr)
         /\ BssSize(phdr) > 0 => FileEnd(phdr) + BssSize(phdr) <= SegmentEnd(phdr)
<1>1. PICK rf, rm : /\ rf = ROUNDUP(FileSize(phdr), PageSize)
                    /\ rm = ROUNDUP(MemSize(phdr), PageSize)
  OBVIOUS
<1>2. /\ rf \in Nat /\ FileSize(phdr) <= rf /\ rm \in Nat /\ rf <= rm
      /\ Aligned(phdr) + rm <= HostLimit
      /\ (Aligned(phdr) + rf) % PageSize = 0 /\ (Aligned(phdr) + rm) % PageSize = 0
      /\ FileEnd(phdr) = Aligned(phdr) + rf /\ BssSize(phdr) = rm - rf
      /\ SegmentEnd(phdr) = Aligned(phdr) + rm
  BY <1>1, SegmentLayout
<1>3. Aligned(phdr) \in Nat /\ GuestOffset <= Aligned(phdr) /\ FileSize(phdr) \in Nat
      /\ FileSize(phdr) > 0 /\ GuestOffset \in Nat /\ HostLimit \in Nat
  BY SegmentLocals, PageAssumption DEF Word, InUserSpace
<1>4. QED
  BY <1>2, <1>3

\* mmu_load_segment keeps the types of mmu_t.
LEMMA SegmentType ==
  ASSUME MmuTypeOK, NEW phdr, PhdrOK(phdr), LoadSegment(phdr)
  PROVE  MmuTypeOK'
<1>1. /\ Aligned(phdr) \in Nat /\ FileSize(phdr) \in Nat
      /\ FileEnd(phdr) \in Nat /\ BssSize(phdr) \in Nat
  BY SegmentLocals DEF Word
<1> DEFINE o == ROUNDDOWN(phdr.offset, PageSize)
<1>2. o \in Nat
  <2>1. PageSize \in Nat \ {0} /\ phdr.offset \in Int /\ phdr.offset >= 0
    BY PageAssumption DEF PhdrOK, Word
  <2>2. QED
    BY <2>1, RoundDown
<1> HIDE DEF o
<1> DEFINE file == MapFile(pages, Aligned(phdr), FileSize(phdr), o)
<1>3. file \in [Page -> Frame]
  BY <1>1, <1>2, TableType DEF MmuTypeOK
<1> HIDE DEF file
<1>4. MapAnon(file, FileEnd(phdr), BssSize(phdr)) \in [Page -> Frame]
  BY <1>1, <1>2, <1>3, TableType
<1>5. pages' = IF BssSize(phdr) > 0 THEN MapAnon(file, FileEnd(phdr), BssSize(phdr)) ELSE file
  BY DEF LoadSegment, SegmentPages, file, o
<1>6. pages' \in [Page -> Frame]
  BY <1>3, <1>4, <1>5
<1>7. SegmentEnd(phdr) \in Word
  <2>1. ROUNDUP(MemSize(phdr), PageSize) \in Word
    BY SegmentLocals, RoundUpType DEF Word
  <2>2. Aligned(phdr) + ROUNDUP(MemSize(phdr), PageSize) \in Int
    BY <1>1, <2>1 DEF Word
  <2>3. QED
    BY <2>2, WrapType DEF SegmentEnd
<1>8. host_alloc' \in Word
  BY <1>7 DEF LoadSegment, SegmentEnd, MAX, MmuTypeOK
<1>9. TO_GUEST(host_alloc') \in Word
  <2>1. host_alloc' - GuestOffset \in Int
    BY <1>8, PageAssumption DEF Word
  <2>2. QED
    BY <2>1, WrapType DEF TO_GUEST
<1>10. QED
  BY <1>6, <1>8, <1>9 DEF LoadSegment, MmuTypeOK
=============================================================================
