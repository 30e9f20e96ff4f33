--------------------------------- MODULE Mmu ---------------------------------
(***************************************************************************)
(* The linear-mapped MMU of mmu.c: the fields of mmu_t, the page table of  *)
(* the host process as mmap and munmap leave it, and one action for each   *)
(* way mmu_load_segment and mmu_alloc can end.                             *)
(*                                                                         *)
(* The kernel is external.  It is modelled by what the code asks of it:    *)
(*  - mmap with MAP_FIXED replaces whatever is mapped in the range;        *)
(*  - mmap with only an address hint uses the hint when the range is free  *)
(*    and otherwise picks a range outside the guest window (the host's     *)
(*    own mmap area), returning an address the code does not compare with  *)
(*    the hint; either kind of mmap may also fail;                         *)
(*  - munmap removes every page of its range, mapped or not;               *)
(*  - a range that is empty or leaves the user address space is refused.   *)
(***************************************************************************)
EXTENDS Word

CONSTANTS PageSize,     \* getpagesize()
          GuestOffset,  \* GUEST_MEMORY_OFFSET
          HostLimit     \* the end of the host's user address space

ASSUME PageAssumption ==
  /\ PageSize \in Nat /\ PageSize > 0
  /\ AddrSpace % PageSize = 0
  /\ HostLimit \in Nat /\ HostLimit % PageSize = 0
  /\ 4 * HostLimit <= AddrSpace
  /\ GuestOffset \in Nat /\ GuestOffset % PageSize = 0
  /\ 0 < GuestOffset /\ GuestOffset < HostLimit

VARIABLES entry,        \* mmu_t.entry
          host_alloc,   \* mmu_t.host_alloc: end of the occupied area, a host address
          guest_alloc,  \* mmu_t.guest_alloc: the program break, a guest address
          base,         \* mmu_t.base: the break right after loading
          pages,        \* what each page of the host address space holds
          trimmed,      \* history: mmu_alloc has called munmap
          displaced     \* history: the kernel did not follow the hint of an mmap

mmuVars == <<entry, host_alloc, guest_alloc, base, pages, trimmed, displaced>>

TO_HOST(a) == Wrap(a + GuestOffset)
TO_GUEST(a) == Wrap(a - GuestOffset)

-----------------------------------------------------------------------------
(* The host's pages.  A page is unmapped, anonymous (zero-filled when it   *)
(* is mapped) or a private view of one page of the ELF file.               *)

Unmapped == -2
Anonymous == -1
Frame == {Unmapped, Anonymous} \cup Nat
Page == 0 .. ((HostLimit \div PageSize) - 1)

PageOf(h) == h \div PageSize

\* The pages that a call on the range of len > 0 bytes from h operates on.
Span(h, len) == PageOf(h) .. PageOf(h + len - 1)

\* The kernel accepts the range of len bytes from h.
InUserSpace(h, len) == len > 0 /\ h + len <= HostLimit

MapAnon(tbl, h, len) ==
  [p \in Page |-> IF p \in Span(h, len) THEN Anonymous ELSE tbl[p]]

MapFile(tbl, h, len, offset) ==
  [p \in Page |-> IF p \in Span(h, len)
                  THEN PageOf(offset) + (p - PageOf(h)) ELSE tbl[p]]

Unmap(tbl, h, len) ==
  [p \in Page |-> IF p \in Span(h, len) THEN Unmapped ELSE tbl[p]]

\* The hint of a plain mmap is honoured: it is not NULL, the range exists and
\* is free.
HintFree(tbl, h, len) ==
  /\ h > 0
  /\ InUserSpace(h, len)
  /\ \A p \in Span(h, len) : tbl[p] = Unmapped

\* Host address h can be accessed.
MappedIn(tbl, h) == h < HostLimit /\ tbl[PageOf(h)] # Unmapped

Mapped(g) == MappedIn(pages, TO_HOST(g))

-----------------------------------------------------------------------------
(* mmu_load_segment: one PT_LOAD program header.                           *)

\* The local variables of mmu_load_segment for header phdr.
InHost(phdr) == TO_HOST(phdr.vaddr)
Aligned(phdr) == ROUNDDOWN(InHost(phdr), PageSize)
Lead(phdr) == InHost(phdr) - Aligned(phdr)

\* Mutant: the bytes between the page boundary and p_vaddr are forgotten.
FileSize_NoLead(phdr) == phdr.filesz

FileSize(phdr) == Wrap(phdr.filesz + Lead(phdr))
MemSize(phdr) == Wrap(phdr.memsz + Lead(phdr))
FileEnd(phdr) == Wrap(Aligned(phdr) + ROUNDUP(FileSize(phdr), PageSize))

\* Mutant: the end of .bss is rounded down to a page.
BssSize_RoundedDown(phdr) ==
  Wrap(MAX(ROUNDDOWN(MemSize(phdr), PageSize), ROUNDUP(FileSize(phdr), PageSize))
         - ROUNDUP(FileSize(phdr), PageSize))

BssSize(phdr) ==
  Wrap(ROUNDUP(MemSize(phdr), PageSize) - ROUNDUP(FileSize(phdr), PageSize))

\* The two MAP_FIXED mappings of a segment: file pages, then zero pages.
SegmentPages(tbl, phdr) ==
  LET file == MapFile(tbl, Aligned(phdr), FileSize(phdr),
                      ROUNDDOWN(phdr.offset, PageSize))
  IN  IF BssSize(phdr) > 0
      THEN MapAnon(file, FileEnd(phdr), BssSize(phdr))
      ELSE file

\* The call returns: the kernel accepts both ranges (an empty one is EINVAL).
LoadSegment(phdr) ==
  /\ InUserSpace(Aligned(phdr), FileSize(phdr))
  /\ BssSize(phdr) > 0 => InUserSpace(FileEnd(phdr), BssSize(phdr))
  /\ pages' = SegmentPages(pages, phdr)
  /\ host_alloc' = MAX(host_alloc,
                       Wrap(Aligned(phdr) + ROUNDUP(MemSize(phdr), PageSize)))
  /\ guest_alloc' = TO_GUEST(host_alloc')
  /\ base' = guest_alloc'
  /\ UNCHANGED <<entry, trimmed, displaced>>

-----------------------------------------------------------------------------
(* mmu_alloc(size), size an int64_t, moves the break by size and returns   *)
(* the old break.  Exactly one of the actions below describes a call.      *)

NewBreak(size) == Wrap(guest_alloc + size)

\* The two assertions on the break, before and after it moves.
AllocAsserts(size) == guest_alloc >= base /\ NewBreak(size) >= base

\* Mutant: the test looks at the break before it moves.
Grows_OldBreak(size) == size > 0 /\ guest_alloc > TO_GUEST(host_alloc)

Grows(size) == size > 0 /\ NewBreak(size) > TO_GUEST(host_alloc)

Shrinks(size) ==
  size < 0 /\ ROUNDUP(NewBreak(size), PageSize) < TO_GUEST(host_alloc)

\* The break moves within the pages already accounted for.
AllocWithin(size) ==
  /\ AllocAsserts(size)
  /\ ~Grows(size) /\ ~Shrinks(size)
  /\ guest_alloc' = NewBreak(size)
  /\ UNCHANGED <<entry, host_alloc, base, pages, trimmed, displaced>>

\* Mutant: host_alloc advances by the size asked for, not by whole pages.
AllocGrow_Unrounded(size) ==
  LET alloc_size == ROUNDUP(size, PageSize)
  IN  /\ AllocAsserts(size)
      /\ Grows(size)
      /\ HintFree(pages, host_alloc, alloc_size)
      /\ guest_alloc' = NewBreak(size)
      /\ pages' = MapAnon(pages, host_alloc, alloc_size)
      /\ host_alloc' = Wrap(host_alloc + size)
      /\ UNCHANGED <<entry, base, trimmed, displaced>>

\* The break passes the mapped area: ROUNDUP(size) more bytes are asked for
\* at host_alloc, with a hint only, and the address returned is not looked at.
AllocGrow(size) ==
  LET alloc_size == ROUNDUP(size, PageSize)
  IN  /\ AllocAsserts(size)
      /\ Grows(size)
      /\ InUserSpace(0, alloc_size)
      /\ guest_alloc' = NewBreak(size)
      /\ \/ /\ HintFree(pages, host_alloc, alloc_size)
            /\ pages' = MapAnon(pages, host_alloc, alloc_size)
            /\ UNCHANGED displaced
         \/ /\ ~HintFree(pages, host_alloc, alloc_size)
            /\ displaced' = TRUE
            /\ UNCHANGED pages
      /\ host_alloc' = Wrap(host_alloc + alloc_size)
      /\ UNCHANGED <<entry, base, trimmed>>

\* Mutant: munmap starts one page below the area's end.
AllocShrink_PageBelow(size) ==
  LET munmap_size ==
        Wrap(TO_GUEST(host_alloc) - ROUNDUP(NewBreak(size), PageSize))
  IN  /\ AllocAsserts(size)
      /\ Shrinks(size)
      /\ InUserSpace(host_alloc, munmap_size)
      /\ guest_alloc' = NewBreak(size)
      /\ pages' = Unmap(pages, host_alloc - munmap_size - PageSize, munmap_size)
      /\ host_alloc' = Wrap(host_alloc - munmap_size)
      /\ trimmed' = TRUE
      /\ UNCHANGED <<entry, base, displaced>>

\* Whole pages become free: munmap is given host_alloc as its start, so it
\* works on the range above host_alloc, and then host_alloc is lowered.
AllocShrink(size) ==
  LET munmap_size ==
        Wrap(TO_GUEST(host_alloc) - ROUNDUP(NewBreak(size), PageSize))
  IN  /\ AllocAsserts(size)
      /\ Shrinks(size)
      /\ InUserSpace(host_alloc, munmap_size)
      /\ guest_alloc' = NewBreak(size)
      /\ pages' = Unmap(pages, host_alloc, munmap_size)
      /\ host_alloc' = Wrap(host_alloc - munmap_size)
      /\ trimmed' = TRUE
      /\ UNCHANGED <<entry, base, displaced>>

mmu_alloc(size) == AllocWithin(size) \/ AllocGrow(size) \/ AllocShrink(size)

\* The process stops inside mmu_alloc: an assertion fails, or the kernel
\* refuses the mmap or the munmap and fatal() is called.
AllocStops(size) == ~AllocAsserts(size) \/ Grows(size) \/ Shrinks(size)

-----------------------------------------------------------------------------
MmuInit ==
  /\ entry = 0 /\ host_alloc = 0 /\ guest_alloc = 0 /\ base = 0
  /\ pages = [p \in Page |-> Unmapped]
  /\ trimmed = FALSE /\ displaced = FALSE

MmuTypeOK ==
  /\ entry \in Word /\ host_alloc \in Word
  /\ guest_alloc \in Word /\ base \in Word
  /\ pages \in [Page -> Frame]
  /\ trimmed \in BOOLEAN /\ displaced \in BOOLEAN
=============================================================================
