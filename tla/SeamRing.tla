------------------------------- MODULE SeamRing -------------------------------
(***************************************************************************)
(* One queue of the SEAM staging area (sub/seam_ring.c, wrapped by         *)
(* sub/seam_queue.c): a ring of Slots slots in shared memory that several  *)
(* receivers write and several readers drain, each at its own cursor.      *)
(* Every call runs inside one semaphore section, so each is one step here; *)
(* module SeamLock looks inside that section.                              *)
(*                                                                         *)
(* A writer never waits: it overwrites.  A reader that has fallen more     *)
(* than Slots records behind jumps to the oldest record still in the ring  *)
(* and adds the distance to its dropped counter.                           *)
(*                                                                         *)
(* A record is represented by its number in the order of publication, so   *)
(* that the content of a slot tells which write filled it.                 *)
(***************************************************************************)
EXTENDS Integers, Sequences, FiniteSets

CONSTANTS Slots,       \* SEAM_Q_SLOTS
          Takers,      \* readers that use SEAM_R (or SEAM_ORD_R)
          Peekers,     \* readers that use SEAM_Peek and SEAM_Commit
          MaxRec,      \* largest batch a reader asks for (READ_MAX)
          MaxWrites,   \* bound: records written in a behaviour
          MaxCrashes   \* bound: reader crashes in a behaviour

ASSUME SlotsAssumption == Slots \in Nat \ {0}
ASSUME ReadersAssumption == Takers \cap Peekers = {}
ASSUME MaxRecAssumption == MaxRec \in Nat \ {0}
ASSUME BoundsAssumption == MaxWrites \in Nat /\ MaxCrashes \in Nat

VARIABLES
  w_seq,     \* SEAM_QUEUE.w_seq: records published so far
  r_seq,     \* SEAM_QUEUE.r_seq[]: cursor of each reader
  dropped,   \* SEAM_QUEUE.dropped[]: overrun records of each reader
  slot,      \* SEAM_QUEUE.slot[][]
  inbox,     \* Seam_Buf of each reader process: copied, not yet processed
  worked,    \* records of the current peek a peeker has processed
  handled,   \* history: the records each reader has processed, in order
  gone,      \* history: records a taker had consumed when it crashed
  crashes    \* history: crashes so far (bounded by MaxCrashes)

shm  == <<w_seq, r_seq, dropped, slot>>
hist == <<handled, gone, crashes>>
vars == <<w_seq, r_seq, dropped, slot, inbox, worked, handled, gone, crashes>>

Readers == Takers \union Peekers

\* A slot of the zero-initialised segment.
Blank == -1

TypeOK ==
  /\ w_seq \in Nat
  /\ r_seq \in [Readers -> Nat]
  /\ dropped \in [Readers -> Nat]
  /\ slot \in [0..(Slots - 1) -> Nat \union {Blank}]
  /\ inbox \in [Readers -> Seq(Nat \union {Blank})]
  /\ worked \in [Readers -> Nat]
  /\ handled \in [Readers -> Seq(Nat \union {Blank})]
  /\ gone \in [Readers -> Nat]
  /\ crashes \in Nat

\* SEAM_Init on a fresh segment: memset to zero under the semaphore.
Init ==
  /\ w_seq = 0
  /\ r_seq = [r \in Readers |-> 0]
  /\ dropped = [r \in Readers |-> 0]
  /\ slot = [i \in 0..(Slots - 1) |-> Blank]
  /\ inbox = [r \in Readers |-> <<>>]
  /\ worked = [r \in Readers |-> 0]
  /\ handled = [r \in Readers |-> <<>>]
  /\ gone = [r \in Readers |-> 0]
  /\ crashes = 0

-------------------------------------------------------------------------------
\* Faulty variants, each what a plausible slip in the C code would do; the
\* specification does not use them.

OverrunUnguarded(r) == w_seq - r_seq[r] - Slots

AvailKeepsLast(r, maxrec) ==
  IF w_seq - r_seq[r] > 1 THEN 1 ELSE 0

RestartRereads(r) ==
  /\ crashes < MaxCrashes
  /\ inbox[r] # <<>> \/ worked[r] > 0
  /\ crashes' = crashes + 1
  /\ r_seq' = [r_seq EXCEPT ![r] = 0]
  /\ inbox' = [inbox EXCEPT ![r] = <<>>]
  /\ worked' = [worked EXCEPT ![r] = 0]
  /\ UNCHANGED <<w_seq, dropped, slot, handled, gone>>

CommitWholeBatch(r) ==
  /\ worked[r] > 0
  /\ r_seq' = [r_seq EXCEPT ![r] = @ + worked[r] + Len(inbox[r])]
  /\ worked' = [worked EXCEPT ![r] = 0]
  /\ inbox' = [inbox EXCEPT ![r] = <<>>]
  /\ UNCHANGED <<w_seq, dropped, slot, hist>>

-------------------------------------------------------------------------------
\* Writers

\* SEAM_W / SEAM_ORD_W: fill the slot, then publish it.
SEAM_W ==
  /\ w_seq < MaxWrites
  /\ slot' = [slot EXCEPT ![w_seq % Slots] = w_seq]
  /\ w_seq' = w_seq + 1
  /\ UNCHANGED <<r_seq, dropped, inbox, worked, hist>>

-------------------------------------------------------------------------------
\* Readers

\* Records the cursor of r has been overrun by.
Overrun(r) ==
  IF w_seq - r_seq[r] > Slots THEN w_seq - r_seq[r] - Slots ELSE 0

\* Cursor of r after the jump to the oldest record still in the ring.
Oldest(r) == r_seq[r] + Overrun(r)

\* Number of records a call that asks for maxrec returns.
Avail(r, maxrec) ==
  IF w_seq - Oldest(r) < maxrec THEN w_seq - Oldest(r) ELSE maxrec

\* The n records copied out of the ring from the cursor on.
Copy(r, n) == [i \in 1..n |-> slot[(Oldest(r) + i - 1) % Slots]]

\* Faulty variant: the jump is not entered in dropped.
SEAM_R_Silent(r) ==
  /\ inbox[r] = <<>>
  /\ \E maxrec \in 1..MaxRec :
       LET n == Avail(r, maxrec) IN
         /\ n > 0
         /\ inbox' = [inbox EXCEPT ![r] = Copy(r, n)]
         /\ r_seq' = [r_seq EXCEPT ![r] = Oldest(r) + n]
  /\ UNCHANGED <<w_seq, slot, dropped, worked, hist>>

\* SEAM_R / SEAM_ORD_R: jump, copy, and move the cursor past the copies.  One
\* step, also for a crash: a death between the two stores of the jump, which
\* makes the next call count it again, is in module SeamLock.
SEAM_R(r) ==
  /\ inbox[r] = <<>>
  /\ \E maxrec \in 1..MaxRec :
       LET n == Avail(r, maxrec) IN
         /\ n > 0
         /\ inbox' = [inbox EXCEPT ![r] = Copy(r, n)]
         /\ dropped' = [dropped EXCEPT ![r] = @ + Overrun(r)]
         /\ r_seq' = [r_seq EXCEPT ![r] = Oldest(r) + n]
  /\ UNCHANGED <<w_seq, slot, worked, hist>>

\* SEAM_Peek: jump and copy; the cursor does not move past the copies.
SEAM_Peek(r) ==
  /\ inbox[r] = <<>> /\ worked[r] = 0
  /\ \E maxrec \in 1..MaxRec :
       LET n == Avail(r, maxrec) IN
         /\ n > 0
         /\ inbox' = [inbox EXCEPT ![r] = Copy(r, n)]
         /\ dropped' = [dropped EXCEPT ![r] = @ + Overrun(r)]
         /\ r_seq' = [r_seq EXCEPT ![r] = Oldest(r)]
  /\ UNCHANGED <<w_seq, slot, worked, hist>>

\* SEAM_Commit(n) for the records processed since the peek; a reader may
\* commit part of a batch and peek the rest again.
SEAM_Commit(r) ==
  /\ worked[r] > 0
  /\ LET to == r_seq[r] + worked[r] IN
       r_seq' = [r_seq EXCEPT ![r] = IF to > w_seq THEN w_seq ELSE to]
  /\ worked' = [worked EXCEPT ![r] = 0]
  /\ inbox' = [inbox EXCEPT ![r] = <<>>]
  /\ UNCHANGED <<w_seq, dropped, slot, hist>>

\* The body of the reader loop works on the records of its private buffer
\* one by one, outside the semaphore.
Work(r) ==
  /\ inbox[r] # <<>>
  /\ handled' = [handled EXCEPT ![r] = Append(@, Head(inbox[r]))]
  /\ inbox' = [inbox EXCEPT ![r] = Tail(@)]

Analyze_Data(r) ==
  /\ Work(r)
  /\ UNCHANGED <<shm, worked, gone, crashes>>

Analyze_Peeked(r) ==
  /\ Work(r)
  /\ worked' = [worked EXCEPT ![r] = @ + 1]
  /\ UNCHANGED <<shm, gone, crashes>>

\* The reader process dies and is started again: its private buffer is lost,
\* the segment with the cursors is not.
Restart(r) ==
  /\ crashes < MaxCrashes
  /\ inbox[r] # <<>> \/ worked[r] > 0
  /\ crashes' = crashes + 1
  /\ gone' = [gone EXCEPT ![r] = IF r \in Takers THEN @ + Len(inbox[r]) ELSE @]
  /\ inbox' = [inbox EXCEPT ![r] = <<>>]
  /\ worked' = [worked EXCEPT ![r] = 0]
  /\ UNCHANGED <<shm, handled>>

-------------------------------------------------------------------------------

Next ==
  \/ SEAM_W
  \/ \E r \in Takers : SEAM_R(r) \/ Analyze_Data(r)
  \/ \E r \in Peekers : SEAM_Peek(r) \/ Analyze_Peeked(r) \/ SEAM_Commit(r)
  \/ \E r \in Readers : Restart(r)

Spec == Init /\ [][Next]_vars

\* Each reader is a process whose main loop rescans the queue every SEAM_POLL
\* milliseconds; nothing obliges a writer to write or a process to crash.
Fairness ==
  /\ \A r \in Takers : WF_vars(SEAM_R(r)) /\ WF_vars(Analyze_Data(r))
  /\ \A r \in Peekers : /\ WF_vars(SEAM_Peek(r))
                        /\ WF_vars(Analyze_Peeked(r))
                        /\ WF_vars(SEAM_Commit(r))

FairSpec == Spec /\ Fairness
-------------------------------------------------------------------------------
\* Properties

\* The slots hold the newest Slots records, each in its own slot: what a
\* reader copies after its jump is what was published (seam_ring_write and
\* the slot arithmetic of seam_ring_read agree).
Window ==
  \A s \in 0..(w_seq - 1) : s >= w_seq - Slots => slot[s % Slots] = s

\* Number of the record a reader process works on next.
Current(r) ==
  IF r \in Takers THEN r_seq[r] - Len(inbox[r]) ELSE r_seq[r] + worked[r]

\* What a reader holds is a gapless run of published records ending at its
\* cursor (taker) or starting at it (peeker): no slot was overwritten under
\* a copy and no cursor has overtaken the writer.
HeldRun ==
  \A r \in Readers :
    /\ Current(r) >= 0
    /\ Current(r) + Len(inbox[r]) <= w_seq
    /\ \A i \in 1..Len(inbox[r]) : inbox[r][i] = Current(r) + i - 1

\* At most once and in order: a taker never works on a record again, not even
\* after a restart ("replay-safe", the cursor lives in shared memory).
TakerOrder ==
  \A r \in Takers :
    /\ \A i, j \in 1..Len(handled[r]) : i < j => handled[r][i] < handled[r][j]
    /\ \A i \in 1..Len(handled[r]) : handled[r][i] < Current(r)

\* Every record a taker's cursor has passed was processed, is in its hands,
\* was counted in dropped, or died with the process: there is no other way
\* to lose one.  The equality is exact because no process dies inside a call
\* here; a death between counting and jumping leaves dropped too large, never
\* too small (NoSilentJump of module SeamLock).
TakerAccounting ==
  \A r \in Takers :
    r_seq[r] = Len(handled[r]) + Len(inbox[r]) + dropped[r] + gone[r]

\* At least once: a record a peeker has committed past was processed or is
\* counted in dropped, crashes or not.
PeekerNoLoss ==
  \A r \in Peekers :
    LET done == {handled[r][i] : i \in 1..Len(handled[r])} IN
      Cardinality({s \in 0..(r_seq[r] - 1) : s \notin done}) <= dropped[r]

\* The ring implements the unbounded log: Capacity is its number of slots.
\* In particular a commit moves a cursor over records the reader was shown and
\* has processed, and over no other.
Log == INSTANCE SeamLog WITH Capacity <- Slots, produced <- w_seq,
                             next <- r_seq, lost <- dropped, given <- inbox,
                             finished <- worked
ImplementsLog == Log!Spec

\* Every published record is passed by every reader, and what a reader holds
\* gets worked on: a reader that keeps scanning drains its queue.
Drained ==
  \A r \in Readers, s \in 0..(MaxWrites - 1) :
    w_seq > s ~> r_seq[r] > s /\ inbox[r] = <<>>
===============================================================================
