-------------------------------- MODULE Files --------------------------------
(***************************************************************************)
(* A POSIX kernel's files and descriptors, as far as the system calls that *)
(* syscall.c passes on can tell.  The kernel is external: every failure is *)
(* the result -1, and a transfer may be shorter than asked for.            *)
(*                                                                         *)
(* A file is a sequence of cells.  A name, a struct stat, a timeval and a  *)
(* timezone are one cell each.  fs is the record of the files that exist   *)
(* and of the open descriptors.                                            *)
(***************************************************************************)
EXTENDS Integers, Sequences, FiniteSetsExt

CONSTANTS Data,       \* bytes and file names
          MaxFile,    \* the largest size of a file
          MaxFd,      \* the largest descriptor
          IntSpace    \* the number of int values, 2^32 in the code

ASSUME FilesAssumption ==
  /\ MaxFile \in Nat /\ MaxFd \in Nat /\ MaxFd >= 2
  /\ IntSpace \in Nat /\ IntSpace % 2 = 0 /\ 2 * MaxFd < IntSpace

Nul == "nul"
Stat == "stat"
Time == "time"
Zone == "zone"
Cell == Data \cup {Nul, Stat, Time, Zone}

Flag == {"WRONLY", "RDWR", "APPEND", "CREAT", "TRUNC", "EXCL"}

Desc == [name : Cell, pos : 0 .. MaxFile, flags : SUBSET Flag]

\* Files within their size, descriptors within the table, and every descriptor's
\* file there.
FilesOK(fs) ==
  /\ fs = [files |-> [n \in DOMAIN fs.files |-> fs.files[n]],
           fds |-> [d \in DOMAIN fs.fds |-> fs.fds[d]]]
  /\ \A n \in DOMAIN fs.files :
       n \in Cell /\ Len(fs.files[n]) <= MaxFile /\ fs.files[n] \in Seq(Cell)
  /\ \A d \in DOMAIN fs.fds :
       d \in 0 .. MaxFd /\ fs.fds[d] \in Desc /\ fs.fds[d].name \in DOMAIN fs.files

\* (int)v
int(v) == LET w == v % IntSpace IN IF 2 * w < IntSpace THEN w ELSE w - IntSpace

AT_FDCWD == -100

\* f with v at x.
With(f, x, v) == [y \in DOMAIN f \cup {x} |-> IF y = x THEN v ELSE f[y]]

\* Descriptor fd has moved to position p.
MovedTo(fs, fd, p) ==
  [files |-> fs.files,
   fds |-> With(fs.fds, fd, [name |-> fs.fds[fd].name, pos |-> p, flags |-> fs.fds[fd].flags])]

Fail(fs) == [fs |-> fs, ret |-> -1, cells |-> << >>]

Readable(fs, fd) == fd \in DOMAIN fs.fds /\ "WRONLY" \notin fs.fds[fd].flags
Writable(fs, fd) ==
  LET flags == fs.fds[fd].flags
  IN  fd \in DOMAIN fs.fds /\ (("WRONLY" \in flags) # ("RDWR" \in flags))

\* The lowest free descriptor.  The file is looked at only when there is one.
Open(fs, name, flags) ==
  LET free == (0 .. MaxFd) \ DOMAIN fs.fds
      exists == name \in DOMAIN fs.files
      found == IF exists THEN ~({"CREAT", "EXCL"} \subseteq flags) ELSE "CREAT" \in flags
      files == IF exists /\ "TRUNC" \notin flags THEN fs.files ELSE With(fs.files, name, << >>)
      new == [name |-> name, pos |-> 0, flags |-> flags]
  IN  IF free # {} /\ found
      THEN [fs |-> [files |-> files, fds |-> With(fs.fds, Min(free), new)],
            ret |-> Min(free), cells |-> << >>]
      ELSE Fail(fs)

Close(fs, fd) ==
  IF fd \in DOMAIN fs.fds
  THEN [fs |-> [files |-> fs.files, fds |-> [d \in DOMAIN fs.fds \ {fd} |-> fs.fds[d]]],
        ret |-> 0, cells |-> << >>]
  ELSE Fail(fs)

Seek(fs, fd, offset, whence) ==
  LET d == fs.fds[fd]
      start == IF whence = 1 THEN d.pos
               ELSE IF whence = 2 THEN Len(fs.files[d.name]) ELSE 0
      target == start + offset
  IN  IF fd \in DOMAIN fs.fds /\ whence \in 0 .. 2 /\ target \in 0 .. MaxFile
      THEN [fs |-> MovedTo(fs, fd, target), ret |-> target, cells |-> << >>]
      ELSE Fail(fs)

\* What the kernel may transfer of n cells.
Transfer(n) == IF n = 0 THEN {0} ELSE 1 .. n

\* The results of reading count cells into a buffer of which room can be written.
Reads(fs, fd, count, room) ==
  LET d == fs.fds[fd]
      text == fs.files[d.name]
      n == Min({count, Max({0, Len(text) - d.pos})})
  IN  IF ~Readable(fs, fd) \/ (n > 0 /\ room = 0) THEN {Fail(fs)}
      ELSE { [fs |-> MovedTo(fs, fd, d.pos + k), ret |-> k,
              cells |-> SubSeq(text, d.pos + 1, d.pos + k)] : k \in Transfer(Min({n, room})) }

\* text with the cells put at position at; a hole reads as Nul.
Overwritten(text, at, cells) ==
  [j \in 1 .. Max({Len(text), at + Len(cells)}) |->
     IF j \in (at + 1) .. (at + Len(cells)) THEN cells[j - at]
     ELSE IF j <= Len(text) THEN text[j] ELSE Nul]

\* The results of writing count cells from a buffer that starts with the readable
\* cells.
Writes(fs, fd, count, cells) ==
  LET d == fs.fds[fd]
      text == fs.files[d.name]
      at == IF "APPEND" \in d.flags THEN Len(text) ELSE d.pos
      Put(k) == IF k = 0 THEN fs
                ELSE LET new == Overwritten(text, at, SubSeq(cells, 1, k))
                     IN  MovedTo([files |-> With(fs.files, d.name, new), fds |-> fs.fds],
                                 fd, at + k)
  IN  IF ~Writable(fs, fd) \/ (count > 0 /\ (cells = << >> \/ at = MaxFile)) THEN {Fail(fs)}
      ELSE { [fs |-> Put(k), ret |-> k, cells |-> << >>] :
               k \in Transfer(Min({count, Len(cells), MaxFile - at})) }
=============================================================================
