------------------------------- MODULE SeamLock -------------------------------
(***************************************************************************)
(* The inside of a SEAM call: how the processes that share a SEAM segment  *)
(* create its System V semaphore (sub/semipc.c), initialise the segment    *)
(* once (SEAM_Init), and write and read one ring inside the semaphore      *)
(* section, one shared-memory effect per step.  Module SeamRing takes such *)
(* a section as one step; this module is the reason it may.                *)
(*                                                                         *)
(* The kernel's side is external: semget gives a new semaphore the value   *)
(* 0, semctl SETVAL forgets the undo adjustments, semop -1 waits, and the  *)
(* death of a process applies its adjustment.  A dead process is started   *)
(* again by the FEP daemon and begins with SEAM_Init.                      *)
(***************************************************************************)
EXTENDS Integers, Sequences, FiniteSets

CONSTANTS Writers,          \* processes that call SEAM_W
          Readers,          \* processes that call SEAM_R, one cursor each
          Slots,            \* SEAM_Q_SLOTS
          MaxRec,           \* largest batch of a SEAM_R call
          MaxWrites,        \* bound: no SEAM_W call starts after so many records
          MaxDeaths,        \* bound: process deaths
          MaxCreateDeaths   \* bound: those between semget and SETVAL

ASSUME ProcAssumption == Writers \cap Readers = {}
ASSUME SlotsAssumption == Slots \in Nat \ {0}
ASSUME MaxRecAssumption == MaxRec \in Nat \ {0}
ASSUME BoundsAssumption ==
  MaxWrites \in Nat /\ MaxDeaths \in Nat /\ MaxCreateDeaths \in Nat

VARIABLES
  exists,    \* the semaphore set of the key exists
  semval,    \* its value
  undo,      \* SEM_UNDO adjustment the kernel holds for each process
  magic,     \* SEAM_SHM.magic = SEAM_MAGIC
  w_seq,     \* SEAM_QUEUE.w_seq
  slot,      \* SEAM_QUEUE.slot[][]
  r_seq,     \* SEAM_QUEUE.r_seq[]
  dropped,   \* SEAM_QUEUE.dropped[]
  pc,        \* where each process is
  out,       \* the out buffer of each reader
  skipped,   \* history: records each cursor has jumped over
  halfDone,  \* history: a writer has died inside seam_ring_write
  deaths     \* history: deaths so far, <<all, between semget and SETVAL>>

sem  == <<exists, semval, undo>>
shm  == <<magic, w_seq, slot, r_seq, dropped>>
hist == <<skipped, halfDone, deaths>>
vars == <<exists, semval, undo, magic, w_seq, slot, r_seq, dropped,
          pc, out, skipped, halfDone, deaths>>

Proc == Writers \union Readers

\* A slot of zeroes or spaces, and one that is being filled.
Blank == -1
Torn  == -2
Content == Nat \union {Blank, Torn}

\* Places between SEM_Lock and SEM_UnLock.
InWrite == {"fill", "copy", "publish"}
InRead  == {"account", "jump", "take"}
Section == {"magic", "zero", "mark", "unlock"} \union InWrite \union InRead
Waiting == {"lockInit", "lock"}
Places  == {"attach", "setval", "ready"} \union Waiting \union Section

TypeOK ==
  /\ exists \in BOOLEAN
  /\ semval \in Nat
  /\ undo \in [Proc -> Int]
  /\ magic \in BOOLEAN
  /\ w_seq \in Nat
  /\ slot \in [0..(Slots - 1) -> Content]
  /\ r_seq \in [Readers -> Nat]
  /\ dropped \in [Readers -> Nat]
  /\ pc \in [Proc -> Places]
  /\ out \in [Readers -> Seq(Content)]
  /\ skipped \in [Readers -> Nat]
  /\ halfDone \in BOOLEAN
  /\ deaths \in Nat \X Nat

\* No IPC object yet; the kernel hands out a segment of zeroes.
Init ==
  /\ exists = FALSE
  /\ semval = 0
  /\ undo = [p \in Proc |-> 0]
  /\ magic = FALSE
  /\ w_seq = 0
  /\ slot = [i \in 0..(Slots - 1) |-> Blank]
  /\ r_seq = [r \in Readers |-> 0]
  /\ dropped = [r \in Readers |-> 0]
  /\ pc = [p \in Proc |-> "attach"]
  /\ out = [r \in Readers |-> <<>>]
  /\ skipped = [r \in Readers |-> 0]
  /\ halfDone = FALSE
  /\ deaths = <<0, 0>>

Goto(p, place) == pc' = [pc EXCEPT ![p] = place]

-------------------------------------------------------------------------------
\* SEAM_Init

\* SEM_Creat_Excl: semget with IPC_EXCL makes the semaphore, of value 0 ...
CreatExcl(p) ==
  /\ pc[p] = "attach"
  /\ ~exists
  /\ exists' = TRUE
  /\ semval' = 0
  /\ Goto(p, "setval")
  /\ UNCHANGED <<undo, shm, out, hist>>

\* ... and a second call, semctl SETVAL, opens it.
SetVal(p) ==
  /\ pc[p] = "setval"
  /\ semval' = 1
  /\ undo' = [q \in Proc |-> 0]
  /\ Goto(p, "lockInit")
  /\ UNCHANGED <<exists, shm, out, hist>>

\* SEM_Creat: it was there already.
Creat(p) ==
  /\ pc[p] = "attach"
  /\ exists
  /\ Goto(p, "lockInit")
  /\ UNCHANGED <<sem, shm, out, hist>>

\* Where a process that has taken the semaphore goes on.
Enter(p) ==
  IF pc[p] = "lockInit" THEN "magic"
  ELSE IF p \in Writers THEN "fill" ELSE "account"

\* Faulty: the semaphore is entered whatever its value.
SEM_LockIgnored(p) ==
  /\ pc[p] \in Waiting
  /\ semval' = IF semval > 0 THEN semval - 1 ELSE 0
  /\ undo' = [undo EXCEPT ![p] = @ + 1]
  /\ Goto(p, Enter(p))
  /\ UNCHANGED <<exists, shm, out, hist>>

\* SEM_Lock: semop -1 with SEM_UNDO.
SEM_Lock(p) ==
  /\ pc[p] \in Waiting
  /\ semval > 0
  /\ semval' = semval - 1
  /\ undo' = [undo EXCEPT ![p] = @ + 1]
  /\ Goto(p, Enter(p))
  /\ UNCHANGED <<exists, shm, out, hist>>

\* SEM_UnLock: semop +1 with SEM_UNDO.
SEM_UnLock(p) ==
  /\ pc[p] = "unlock"
  /\ semval' = semval + 1
  /\ undo' = [undo EXCEPT ![p] = @ - 1]
  /\ Goto(p, "ready")
  /\ UNCHANGED <<exists, shm, out, hist>>

\* Faulty: a process that finds no magic waits for it inside the section.
ZeroSpins(p) ==
  /\ pc[p] = "magic"
  /\ ~magic
  /\ UNCHANGED vars

\* The magic is not there: the segment is to be initialised.
NeedInit(p) ==
  /\ pc[p] = "magic"
  /\ ~magic
  /\ Goto(p, "zero")
  /\ UNCHANGED <<sem, shm, out, hist>>

\* memset of the segment.
ZeroInit(p) ==
  /\ pc[p] = "zero"
  /\ magic' = FALSE
  /\ w_seq' = 0
  /\ slot' = [i \in 0..(Slots - 1) |-> Blank]
  /\ r_seq' = [r \in Readers |-> 0]
  /\ dropped' = [r \in Readers |-> 0]
  /\ Goto(p, "mark")
  /\ UNCHANGED <<sem, out, hist>>

Mark(p) ==
  /\ pc[p] = "mark"
  /\ magic' = TRUE
  /\ Goto(p, "unlock")
  /\ UNCHANGED <<sem, w_seq, slot, r_seq, dropped, out, hist>>

\* The magic is there: nothing to initialise.
SkipInit(p) ==
  /\ pc[p] = "magic"
  /\ magic
  /\ Goto(p, "unlock")
  /\ UNCHANGED <<sem, shm, out, hist>>

-------------------------------------------------------------------------------
\* SEAM_W and seam_ring_write

CallW(p) ==
  /\ p \in Writers
  /\ pc[p] = "ready"
  /\ w_seq < MaxWrites
  /\ Goto(p, "lock")
  /\ UNCHANGED <<sem, shm, out, hist>>

\* The slot is blanked with spaces first.
Fill(p) ==
  /\ pc[p] = "fill"
  /\ slot' = [slot EXCEPT ![w_seq % Slots] = Torn]
  /\ Goto(p, "copy")
  /\ UNCHANGED <<sem, magic, w_seq, r_seq, dropped, out, hist>>

\* Then the record is copied over the spaces.
CopyIn(p) ==
  /\ pc[p] = "copy"
  /\ slot' = [slot EXCEPT ![w_seq % Slots] = w_seq]
  /\ Goto(p, "publish")
  /\ UNCHANGED <<sem, magic, w_seq, r_seq, dropped, out, hist>>

\* Then it is published.
Publish(p) ==
  /\ pc[p] = "publish"
  /\ w_seq' = w_seq + 1
  /\ Goto(p, "unlock")
  /\ UNCHANGED <<sem, magic, slot, r_seq, dropped, out, hist>>

-------------------------------------------------------------------------------
\* SEAM_R and seam_ring_read

Lag(r) == w_seq - r_seq[r]

CallR(r) ==
  /\ r \in Readers
  /\ pc[r] = "ready"
  /\ Goto(r, "lock")
  /\ out' = [out EXCEPT ![r] = <<>>]
  /\ UNCHANGED <<sem, shm, hist>>

\* Faulty: the cursor jumps before the loss is entered, which the next step
\* then finds to be none.
JumpOnly(r) ==
  /\ pc[r] = "account"
  /\ Lag(r) > Slots
  /\ r_seq' = [r_seq EXCEPT ![r] = w_seq - Slots]
  /\ skipped' = [skipped EXCEPT ![r] = @ + Lag(r) - Slots]
  /\ Goto(r, "jump")
  /\ UNCHANGED <<sem, magic, w_seq, slot, dropped, out, halfDone, deaths>>

\* Faulty: the cursor is taken to be overrun whatever its lag.
AccountAlways(r) ==
  /\ pc[r] = "account"
  /\ dropped' = [dropped EXCEPT ![r] = @ + Lag(r) - Slots]
  /\ Goto(r, "jump")
  /\ UNCHANGED <<sem, magic, w_seq, slot, r_seq, out, hist>>

\* The cursor has been overrun: the loss is entered in dropped ...
Account(r) ==
  /\ pc[r] = "account"
  /\ Lag(r) > Slots
  /\ dropped' = [dropped EXCEPT ![r] = @ + Lag(r) - Slots]
  /\ Goto(r, "jump")
  /\ UNCHANGED <<sem, magic, w_seq, slot, r_seq, out, hist>>

\* ... and then the cursor jumps to the oldest record of the ring.
Jump(r) ==
  /\ pc[r] = "jump"
  /\ r_seq' = [r_seq EXCEPT ![r] = w_seq - Slots]
  /\ skipped' = [skipped EXCEPT ![r] = @ + Lag(r) - Slots]
  /\ Goto(r, "take")
  /\ UNCHANGED <<sem, magic, w_seq, slot, dropped, out, halfDone, deaths>>

NoOverrun(r) ==
  /\ pc[r] = "account"
  /\ Lag(r) <= Slots
  /\ Goto(r, "take")
  /\ UNCHANGED <<sem, shm, out, hist>>

\* Faulty: the copy loop runs one record past what is published.
TakePast(r) ==
  /\ pc[r] = "take"
  /\ r_seq[r] <= w_seq
  /\ Len(out[r]) < MaxRec
  /\ out' = [out EXCEPT ![r] = Append(@, slot[r_seq[r] % Slots])]
  /\ r_seq' = [r_seq EXCEPT ![r] = @ + 1]
  /\ UNCHANGED <<sem, magic, w_seq, slot, dropped, pc, hist>>

\* One turn of the copy loop.
Take(r) ==
  /\ pc[r] = "take"
  /\ r_seq[r] < w_seq
  /\ Len(out[r]) < MaxRec
  /\ out' = [out EXCEPT ![r] = Append(@, slot[r_seq[r] % Slots])]
  /\ r_seq' = [r_seq EXCEPT ![r] = @ + 1]
  /\ UNCHANGED <<sem, magic, w_seq, slot, dropped, pc, hist>>

TakeEnds(r) ==
  /\ pc[r] = "take"
  /\ r_seq[r] >= w_seq \/ Len(out[r]) = MaxRec
  /\ Goto(r, "unlock")
  /\ UNCHANGED <<sem, shm, out, hist>>

-------------------------------------------------------------------------------
\* Death and restart

\* Deaths allowed at the place p is at.
MayDie(p) ==
  /\ deaths[1] < MaxDeaths
  /\ pc[p] # "attach"
  /\ pc[p] = "setval" => deaths[2] < MaxCreateDeaths

\* A process dies: the kernel applies its adjustment and the daemon starts
\* it again; what it had in memory is gone.
Die(p) ==
  /\ MayDie(p)
  /\ semval' = semval + undo[p]
  /\ undo' = [undo EXCEPT ![p] = 0]
  /\ deaths' = <<deaths[1] + 1, deaths[2] + (IF pc[p] = "setval" THEN 1 ELSE 0)>>
  /\ halfDone' = (halfDone \/ pc[p] \in InWrite)
  /\ out' = [r \in Readers |-> IF r = p THEN <<>> ELSE out[r]]
  /\ Goto(p, "attach")
  /\ UNCHANGED <<exists, shm, skipped>>

-------------------------------------------------------------------------------
\* What a process does by itself once it runs, apart from taking the semaphore.
SEAM_Init(p) ==
  \/ CreatExcl(p) \/ SetVal(p) \/ Creat(p)
  \/ NeedInit(p) \/ ZeroInit(p) \/ Mark(p) \/ SkipInit(p)

Ring_Write(p) == Fill(p) \/ CopyIn(p) \/ Publish(p)

Ring_Read(r) ==
  r \in Readers /\ (Account(r) \/ Jump(r) \/ NoOverrun(r) \/ Take(r) \/ TakeEnds(r))

Progress(p) == SEAM_Init(p) \/ Ring_Write(p) \/ Ring_Read(p) \/ SEM_UnLock(p)

Next ==
  \E p \in Proc :
    Progress(p) \/ SEM_Lock(p) \/ CallW(p) \/ CallR(p) \/ Die(p)

Spec == Init /\ [][Next]_vars

\* A running process goes on, and semop serves its waiters in turn.
FairSpec ==
  /\ Spec
  /\ \A p \in Proc : WF_vars(Progress(p)) /\ SF_vars(SEM_Lock(p))

-------------------------------------------------------------------------------
\* Properties

\* Of all the writers, readers and initialisers of a segment, deaths and
\* restarts included, at most one is between SEM_Lock and SEM_UnLock.
MutualExclusion ==
  \A p, q \in Proc : pc[p] \in Section /\ pc[q] \in Section => p = q

\* The records published last, up to one less than the ring holds, are each
\* whole and in the slot of their number, at any moment and whoever has died:
\* two writers never fill one slot for two numbers, nor publish an empty one.
RingWhole ==
  \A n \in 0..(w_seq - 1) : w_seq - n < Slots => slot[n % Slots] = n

\* A process that attaches late, or again after a death, never zeroes a
\* segment that holds records (SEAM_Init's magic).
NeverZeroedAgain == [][w_seq' >= w_seq]_vars

\* Every record a cursor jumps over has been entered in dropped, even when
\* the reader dies between the two assignments of the overrun branch.
NoSilentJump == \A r \in Readers : skipped[r] <= dropped[r]

\* What a SEAM_R call has copied out are the published records, in order and
\* whole.
ReadsWhole ==
  \A r \in Readers : \A i \in 1..Len(out[r]) :
    out[r][i] = r_seq[r] - Len(out[r]) + i - 1

\* They are, as long as no writer has died inside seam_ring_write.
ReadsWholeUnlessWidowed == ReadsWhole \/ halfDone

\* A process has died between semget and SETVAL: the semaphore exists, closed,
\* and SEM_Creat takes it as it is.
NeverOpened == deaths[2] > 0

\* Whoever waits for the semaphore gets it or dies, also when its holder dies.
LockServed ==
  \A p \in Proc : pc[p] \in Waiting ~> pc[p] \notin Waiting \/ NeverOpened

===============================================================================
