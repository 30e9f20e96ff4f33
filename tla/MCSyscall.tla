------------------------------ MODULE MCSyscall ------------------------------
(***************************************************************************)
(* Syscall for a guest of one page of image and one of stack, with room    *)
(* for three pages of heap.  Addresses 4 to 7 are the image; 4 holds a     *)
(* file name, and 0 to 3 are not mapped.                                   *)
(***************************************************************************)
EXTENDS Syscall, TLC

MCData == {"in", "out", "err", "new"}
MCImageCells == (4 :> "new" @@ 5 :> "out")
MCStdFiles == ("in" :> <<"new", "in">> @@ "out" :> << >> @@ "err" :> << >>)

C(n, x, y, z) == [a0 |-> x, a1 |-> y, a2 |-> z, a3 |-> 0, a7 |-> n]

MinusOne == AddrSpace - 1
Cwd == AddrSpace - 100

\* O_WRONLY|O_CREAT|O_TRUNC, O_RDWR|O_CREAT|O_APPEND, O_RDWR|O_CREAT|O_EXCL, O_RDONLY
MCFlags == {1 + 512 + 1024, 2 + 512 + 8, 2 + 512 + 2048, 0}

FileCalls ==
  { C(63, fd, 6, n) : fd \in {0, 3}, n \in {1, 2} }
  \cup { C(63, 0, 7, 2), C(63, 0, 12, 1), C(63, 3, MinusOne, 2), C(63, 1, 4, 1) }
  \cup { C(64, fd, 5, n) : fd \in {3, 4}, n \in {0, 1, 2} }
  \cup { C(64, 1, 6, 1), C(64, 3, 11, 2), C(64, 3, 4, MinusOne) }
  \cup { C(56, Cwd, 4, f) : f \in MCFlags }
  \cup { C(56, IntSpace - 100, 6, 0), C(56, 3, 4, 0), C(56, Cwd, 3, 0) }
  \cup { C(1024, 4, 1, 0), C(1024, 0, 0, 0) }
  \cup { C(57, fd, 0, 0) : fd \in {0, 1, 2, 3, 4, MinusOne, IntSpace + 1} }
  \cup { C(62, 3, 0, 0), C(62, 3, 1, 1), C(62, 3, MinusOne, 2), C(62, 3, 0, 3), C(62, 3, 9, 0) }

OtherCalls ==
  { C(80, 3, 6, 0), C(80, 0, 0, 0) }
  \cup { C(169, 6, 0, 0), C(169, 6, 7, 0), C(169, 6, 1, 0), C(169, 0, 0, 0), C(169, 7, 0 - 8 + AddrSpace, 0),
         C(169, AddrSpace - 8, 6, 0) }
  \cup { C(214, a, 0, 0) : a \in {0, 7, 10, 16, 20, AddrSpace - 4} }
  \cup { C(n, 0, 0, 0) : n \in {93, 94, 0, 67, 291, 292, 500, 1023, 1025, 1062, 1063, 60000} }

MCCalls == FileCalls \cup OtherCalls
=============================================================================
