------------------------------ MODULE GuestFiles ------------------------------
(***************************************************************************)
(* What the system calls promise the guest, in its own terms: the numbers  *)
(* of riscv-pk, newlib's open flags, and guest addresses.  There is no     *)
(* table of handlers, no host flag and no host address here.               *)
(***************************************************************************)
EXTENDS Word, Files

VARIABLES fs,      \* files and descriptors
          mem,     \* the accessible guest addresses and what they hold
          brk,     \* the program break
          call,    \* the registers a0 to a3 and a7 of the call being served
          ret,     \* what the last call left in a0
          mode     \* "guest", "call" or "stop"

guestVars == <<fs, mem, brk, call, ret, mode>>

\* newlib's open flags.
Meaning(flags) ==
  LET Bit == [WRONLY |-> 1, RDWR |-> 2, APPEND |-> 8, CREAT |-> 512, TRUNC |-> 1024,
              EXCL |-> 2048]
  IN  {f \in Flag : (flags \div Bit[f]) % 2 = 1}

Called(number) == mode = "call" /\ call.a7 = number

Answer(v) == ret' = Wrap(v) /\ mode' = "guest"

\* How many cells are accessible from address a on, at most count of them.
Room(a, count) ==
  CHOOSE n \in 0 .. count :
    /\ \A k \in 0 .. (n - 1) : Wrap(a + k) \in DOMAIN mem
    /\ n < count => Wrap(a + n) \notin DOMAIN mem
Buffer(a, count) == [j \in 1 .. Room(a, count) |-> mem[Wrap(a + j - 1)]]

\* The buffer is not all there: the call may be refused as a whole.
Faulty(a, count) == a \notin DOMAIN mem \/ Room(a, count) < count

Stored(a, cells) ==
  [g \in DOMAIN mem |-> LET j == Wrap(g - a) + 1
                        IN  IF j \in DOMAIN cells THEN cells[j] ELSE mem[g]]

Done(r) == fs' = r.fs /\ Answer(r.ret) /\ UNCHANGED <<mem, brk>>

Read ==
  /\ Called(63)
  /\ \/ Faulty(call.a1, call.a2) /\ Done(Fail(fs))
     \/ \E r \in Reads(fs, int(call.a0), call.a2, Room(call.a1, call.a2)) :
          fs' = r.fs /\ mem' = Stored(call.a1, r.cells) /\ Answer(r.ret) /\ UNCHANGED brk

Write ==
  /\ Called(64)
  /\ \/ Faulty(call.a1, call.a2) /\ Done(Fail(fs))
     \/ \E r \in Writes(fs, int(call.a0), call.a2, Buffer(call.a1, call.a2)) : Done(r)

OpenNamed(name, flags) ==
  Done(IF name \in DOMAIN mem THEN Open(fs, mem[name], Meaning(flags)) ELSE Fail(fs))

Openat == 
  /\ Called(56)
  /\ IF int(call.a0) = AT_FDCWD THEN OpenNamed(call.a1, call.a2) ELSE Done(Fail(fs))

OldOpen == Called(1024) /\ OpenNamed(call.a0, call.a1)

\* Closing one of the standard descriptors succeeds and does nothing.
CloseFd ==
  /\ Called(57)
  /\ Done(IF call.a0 \in 0 .. 2 THEN [fs |-> fs, ret |-> 0, cells |-> << >>] ELSE Close(fs, int(call.a0)))

Lseek == Called(62) /\ Done(Seek(fs, int(call.a0), Signed(call.a1), int(call.a2)))

Fstat ==
  /\ Called(80)
  /\ IF int(call.a0) \in DOMAIN fs.fds /\ call.a1 \in DOMAIN mem
     THEN mem' = [mem EXCEPT ![call.a1] = Stat] /\ Answer(0) /\ UNCHANGED <<fs, brk>>
     ELSE Done(Fail(fs))

\* The time, and the time zone when it is asked for.  With a bad pointer the
\* result is not specified; only what it points to can change.
Gettimeofday ==
  LET asked == {call.a0} \cup (IF call.a1 = 0 THEN {} ELSE {call.a1})
      Filled(g) == IF g = call.a1 /\ g # 0 THEN Zone ELSE Time
  IN  /\ Called(169)
      /\ DOMAIN mem' = DOMAIN mem
      /\ \A g \in DOMAIN mem : mem'[g] = mem[g] \/ (g \in asked /\ mem'[g] = Filled(g))
      /\ IF asked \subseteq DOMAIN mem
         THEN Answer(0) /\ \A g \in asked : mem'[g] = Filled(g)
         ELSE Answer(0) \/ Answer(-1)
      /\ UNCHANGED <<fs, brk>>

\* The break moves.  Nothing below it is lost; what is accessible above it may
\* change.  That the memory up to a new break is accessible is no part of this
\* promise, which mmu_alloc does not keep after a shrink; it is the subject of
\* Process (HeapBacked, HeapAlwaysBacked).
Brk ==
  LET target == IF call.a0 = 0 THEN brk ELSE call.a0
  IN  /\ Called(214)
      /\ brk' = target /\ Answer(target) /\ UNCHANGED fs
      /\ \A g \in DOMAIN mem : g < brk /\ g < target => g \in DOMAIN mem' /\ mem'[g] = mem[g]

\* Exit, a call that is not supported or not possible, or one with a bad pointer.
\* What memory holds then is lost.
Stop ==
  /\ mode = "call"
  /\ call.a7 \notin {63, 64, 56, 1024, 57, 62, 80}
  /\ Called(169) => call.a0 \notin DOMAIN mem \/ call.a1 \notin DOMAIN mem \cup {0}
  /\ mode' = "stop"
  /\ UNCHANGED <<fs, brk, call, ret>>

\* The guest does something else and makes a call.
Ask == mode = "guest" /\ mode' = "call" /\ UNCHANGED <<fs, mem, brk>>

Serve ==
  Ask \/ Read \/ Write \/ Openat \/ OldOpen \/ CloseFd \/ Lseek \/ Fstat \/ Gettimeofday
  \/ Brk \/ Stop

Init == mode = "guest" /\ DOMAIN fs.fds = 0 .. 2 /\ ret = 0

Safety == Init /\ [][Serve]_guestVars
=============================================================================
