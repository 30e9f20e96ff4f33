------------------------------ MODULE MCProcess ------------------------------
(***************************************************************************)
(* Process on a host with 4-byte pages, 256 addresses of which 60 are user *)
(* space, and 2-byte pointers.                                             *)
(***************************************************************************)
EXTENDS Process

Load(offset, vaddr, filesz, memsz) ==
  [type |-> "PT_LOAD", offset |-> offset, vaddr |-> vaddr,
   filesz |-> filesz, memsz |-> memsz]

Note == [type |-> "other", offset |-> 0, vaddr |-> 0, filesz |-> 2, memsz |-> 2]

Elf(phdrs) ==
  [header |-> "ok", entry |-> 5, phnum |-> Len(phdrs), phdrs |-> phdrs, size |-> 11]

\* Text, and data with .bss that needs a page of its own.
TwoSegments == Elf(<<Note, Load(1, 1, 3, 3), Load(5, 9, 2, 6)>>)

\* The two segments share a page of the file and of memory.
SharedPage == Elf(<<Load(1, 1, 5, 5), Load(6, 6, 4, 9)>>)

\* Descending order, and a segment whose file part crosses a page.
Descending == Elf(<<Load(2, 10, 4, 4), Load(4, 0, 1, 7)>>)

\* Files that stop the loader, and one without a PT_LOAD header.
Bad == { [TwoSegments EXCEPT !.header = "short"],
         [TwoSegments EXCEPT !.header = "badmag"],
         [TwoSegments EXCEPT !.header = "machine"],
         [TwoSegments EXCEPT !.phnum = 4],
         Elf(<<Load(0, 4, 0, 6)>>),
         Elf(<<Load(0, 4, 6, 2)>>),
         Elf(<<Load(3, 247, 2, 2)>>),
         Elf(<<Load(0, 1, 3, 255)>>),
         Elf(<<Note>>),
         Elf(<< >>) }

AllImages == {TwoSegments, SharedPage, Descending} \cup Bad

ArgChoices == { <<2>>, <<2, 0>>, <<2, 3, 0>>, <<2, 1, 6, 2>> }
TwoArgs == { <<2, 1>> }
OneImage == { TwoSegments }
BssImage == { SharedPage }

BrkBelowHalf == {0, 1, 16, 29, 30, 36, 37, 44, 45, 52, 60}
BrkUpAndDown == {0, 32, 36, 44}
=============================================================================
