--------------------------- MODULE SeamLock_proofs ---------------------------
(***************************************************************************)
(* Proofs about SeamLock, for every set of writers and readers, every size *)
(* of the ring and every bound on writes and deaths.                       *)
(*                                                                         *)
(* Three inductive invariants, each on top of the last.  LockInv ties the  *)
(* semaphore to the places of the processes: its value is 1 only while     *)
(* nobody is in the section or still opening it, and the kernel's undo     *)
(* adjustment is 1 exactly for the process that is in.  Mutual exclusion   *)
(* is part of it.  RingInv, proved with LockInv at hand, ties the ring to  *)
(* the places: what the process in the section has done so far.  ReadInv   *)
(* ties the buffers of the readers to the ring.                            *)
(***************************************************************************)
EXTENDS SeamLock, TLAPS

-------------------------------------------------------------------------------
\* The semaphore

LockType ==
  /\ exists \in BOOLEAN
  /\ semval \in {0, 1}
  /\ pc \in [Proc -> Places]
  /\ undo \in [Proc -> Int]

UndoInv == \A p \in Proc : undo[p] = IF pc[p] \in Section THEN 1 ELSE 0

\* While one process is between semget and SETVAL, nobody is in.
OpeningInv ==
  \A p \in Proc : pc[p] = "setval" =>
    /\ exists /\ semval = 0
    /\ \A q \in Proc : pc[q] \notin Section /\ (pc[q] = "setval" => q = p)

OpenInv ==
  semval = 1 => exists /\ \A q \in Proc : pc[q] \notin Section /\ pc[q] # "setval"

AbsentInv == ~exists => \A p \in Proc : pc[p] = "attach"

LockInv ==
  LockType /\ UndoInv /\ OpeningInv /\ OpenInv /\ AbsentInv /\ MutualExclusion

\* A step that moves one process within the section, or within the places
\* outside it, and leaves the semaphore alone.
LEMMA MoveKeepsLock ==
  ASSUME LockInv, NEW p \in Proc, NEW place \in Places,
         pc' = [pc EXCEPT ![p] = place], UNCHANGED sem,
         pc[p] \notin {"attach", "setval"}, place \notin {"attach", "setval"},
         pc[p] \in Section <=> place \in Section
  PROVE  LockInv'
<1>1. LockType'
  BY DEF LockInv, LockType, sem
<1>2. \A q \in Proc : pc'[q] \in Section <=> pc[q] \in Section
  BY DEF LockInv, LockType
<1>3. \A q \in Proc : pc'[q] = "setval" <=> pc[q] = "setval"
  BY DEF LockInv, LockType
<1>4. UndoInv'
  BY <1>2 DEF LockInv, UndoInv, sem
<1>5. OpeningInv'
  BY <1>2, <1>3 DEF LockInv, OpeningInv, sem
<1>6. OpenInv'
  BY <1>2, <1>3 DEF LockInv, OpenInv, sem
<1>7. AbsentInv'
  BY DEF LockInv, AbsentInv, sem
<1>8. MutualExclusion'
  BY <1>2 DEF LockInv, MutualExclusion
<1>9. QED
  BY <1>1, <1>4, <1>5, <1>6, <1>7, <1>8 DEF LockInv

LEMMA LockInit == Init => LockInv
<1> SUFFICES ASSUME Init PROVE LockInv
  OBVIOUS
<1>1. \A p \in Proc : pc[p] = "attach" /\ undo[p] = 0
  BY DEF Init
<1>2. "attach" \notin Section
  BY DEF Section, InWrite, InRead
<1>3. LockType
  <2>0. exists \in BOOLEAN
    BY DEF Init
  <2>1. semval \in {0, 1} /\ undo \in [Proc -> Int]
    BY DEF Init
  <2>2. "attach" \in Places
    BY DEF Places
  <2>3. pc \in [Proc -> Places]
    BY <2>2 DEF Init
  <2>4. QED
    BY <2>0, <2>1, <2>3 DEF LockType
<1>4. UndoInv /\ MutualExclusion
  BY <1>1, <1>2 DEF UndoInv, MutualExclusion
<1>5. OpeningInv /\ OpenInv /\ AbsentInv
  BY <1>1 DEF Init, OpeningInv, OpenInv, AbsentInv
<1>6. QED
  BY <1>3, <1>4, <1>5 DEF LockInv

LEMMA LockCreat ==
  ASSUME LockInv, NEW p \in Proc, CreatExcl(p) \/ SetVal(p) \/ Creat(p)
  PROVE  LockInv'
<1> USE DEF LockInv, LockType, UndoInv, OpeningInv, OpenInv, AbsentInv,
            MutualExclusion, Places, Waiting, Section, InWrite, InRead, Goto
<1>1. CASE CreatExcl(p)
  BY <1>1 DEF CreatExcl
<1>2. CASE SetVal(p)
  BY <1>2 DEF SetVal
<1>3. CASE Creat(p)
  BY <1>3 DEF Creat, sem
<1>4. QED
  BY <1>1, <1>2, <1>3

LEMMA LockTaken ==
  ASSUME LockInv, NEW p \in Proc, SEM_Lock(p) \/ SEM_UnLock(p)
  PROVE  LockInv'
<1> USE DEF LockInv, LockType, UndoInv, OpeningInv, OpenInv, AbsentInv,
            MutualExclusion, Places, Waiting, Section, InWrite, InRead, Goto
<1>1. CASE SEM_Lock(p)
  BY <1>1 DEF SEM_Lock, Enter
<1>2. CASE SEM_UnLock(p)
  BY <1>2 DEF SEM_UnLock
<1>3. QED
  BY <1>1, <1>2

LEMMA LockDie ==
  ASSUME LockInv, NEW p \in Proc, Die(p)
  PROVE  LockInv'
BY DEF Die, MayDie, LockInv, LockType, UndoInv, OpeningInv, OpenInv, AbsentInv,
       MutualExclusion, Places, Waiting, Section, InWrite, InRead, Goto

\* Every other step moves a process within the section or outside it.
LEMMA LockMoves ==
  ASSUME LockInv, NEW p \in Proc,
         \/ NeedInit(p) \/ ZeroInit(p) \/ Mark(p) \/ SkipInit(p)
         \/ Ring_Write(p) \/ Ring_Read(p) \/ CallW(p) \/ CallR(p)
  PROVE  LockInv'
<1> USE MoveKeepsLock DEF Places, Waiting, Section, InWrite, InRead, Goto
<1>1. CASE NeedInit(p)
  BY <1>1 DEF NeedInit
<1>2. CASE ZeroInit(p)
  BY <1>2 DEF ZeroInit
<1>3. CASE Mark(p)
  BY <1>3 DEF Mark
<1>4. CASE SkipInit(p)
  BY <1>4 DEF SkipInit
<1>5. CASE Ring_Write(p)
  BY <1>5 DEF Ring_Write, Fill, CopyIn, Publish
<1>6. CASE Ring_Read(p)
  <2>1. CASE Take(p)
    BY <2>1 DEF Take, sem, LockInv, LockType, UndoInv, OpeningInv, OpenInv,
                AbsentInv, MutualExclusion
  <2>2. CASE Account(p)
    BY <2>2 DEF Account
  <2>3. CASE Jump(p)
    BY <2>3 DEF Jump
  <2>4. CASE NoOverrun(p)
    BY <2>4 DEF NoOverrun
  <2>5. CASE TakeEnds(p)
    BY <2>5 DEF TakeEnds
  <2>6. QED
    BY <1>6, <2>1, <2>2, <2>3, <2>4, <2>5 DEF Ring_Read
<1>7. CASE CallW(p)
  BY <1>7 DEF CallW
<1>8. CASE CallR(p)
  BY <1>8 DEF CallR
<1>9. QED
  BY <1>1, <1>2, <1>3, <1>4, <1>5, <1>6, <1>7, <1>8

LEMMA LockStep == LockInv /\ [Next]_vars => LockInv'
<1> SUFFICES ASSUME LockInv, [Next]_vars PROVE LockInv'
  OBVIOUS
<1>1. CASE UNCHANGED vars
  BY <1>1 DEF vars, LockInv, LockType, UndoInv, OpeningInv, OpenInv, AbsentInv,
              MutualExclusion
<1>2. CASE Next
  <2>1. PICK p \in Proc :
          Progress(p) \/ SEM_Lock(p) \/ CallW(p) \/ CallR(p) \/ Die(p)
    BY <1>2 DEF Next
  <2>2. QED
    BY <2>1, LockCreat, LockTaken, LockDie, LockMoves DEF Progress, SEAM_Init
<1>3. QED
  BY <1>1, <1>2

LEMMA LockAlways == Spec => []LockInv
BY LockInit, LockStep, PTL DEF Spec

\* At most one process is between SEM_Lock and SEM_UnLock, however many die,
\* wherever they die, and whoever comes first to create the semaphore.
THEOREM Exclusive == Spec => []MutualExclusion
BY LockAlways, PTL DEF LockInv

-------------------------------------------------------------------------------
\* Slot arithmetic

\* A slot number is within the ring.
LEMMA SlotInRing ==
  ASSUME NEW S \in Nat \ {0}, NEW a \in Nat
  PROVE  a % S \in 0..(S - 1)
OBVIOUS

\* Two records less than a ring of S apart never share a slot.
LEMMA NearSlotsDiffer ==
  ASSUME NEW S \in Nat \ {0}, NEW a \in Nat, NEW b \in Nat, a < b, b < a + S
  PROVE  a % S # b % S
<1> DEFINE q == (b \div S) - (a \div S)
<1>1. a \div S \in Nat /\ b \div S \in Nat
  OBVIOUS
<1>2. (a = S * (a \div S) + (a % S)) /\ (b = S * (b \div S) + (b % S))
  OBVIOUS
<1>3. S * q = (S * (b \div S)) - (S * (a \div S))
  BY <1>1
<1>4. /\ q <= 0 => S * q <= 0
      /\ q >= 1 => S * q >= S
  BY <1>1
<1>5. QED
  BY <1>1, <1>2, <1>3, <1>4

-------------------------------------------------------------------------------
\* The ring

RingType ==
  /\ magic \in BOOLEAN
  /\ w_seq \in Nat
  /\ slot \in [0..(Slots - 1) -> Content]
  /\ r_seq \in [Readers -> Nat]
  /\ dropped \in [Readers -> Nat]
  /\ skipped \in [Readers -> Nat]

\* Places of a process that has been through SEAM_Init.
Inited == {"ready", "lock", "unlock"} \union InWrite \union InRead

\* Nothing happens to a segment before its magic is set, and only the process
\* in the section can be about to set it.
MagicInv ==
  /\ ~magic => w_seq = 0 /\ \A r \in Readers : skipped[r] = 0
  /\ \A p \in Proc : pc[p] \in Inited => magic
  /\ \A p \in Proc : pc[p] \in {"zero", "mark"} => ~magic

\* Between the two assignments of the overrun branch.
JumpInv ==
  \A r \in Readers : pc[r] = "jump" =>
    Lag(r) > Slots /\ skipped[r] + Lag(r) - Slots <= dropped[r]

\* Before w_seq moves, the slot of the next record holds it.
PublishInv ==
  \A p \in Proc : pc[p] = "publish" => slot[w_seq % Slots] = w_seq

RingInv ==
  RingType /\ MagicInv /\ JumpInv /\ NoSilentJump /\ PublishInv /\ RingWhole

\* A step that leaves the segment alone and does not enter one of the places
\* the invariant speaks about, but for those that need the magic.
LEMMA QuietKeepsRing ==
  ASSUME LockInv, RingInv, NEW p \in Proc, NEW place,
         pc' = [pc EXCEPT ![p] = place], UNCHANGED shm, UNCHANGED skipped,
         place \notin {"mark", "jump", "publish"},
         place \in Inited => magic,
         place = "zero" => ~magic
  PROVE  RingInv'
<1> USE DEF shm
<1>1. RingType'
  BY DEF RingInv, RingType
<1>2. \A q \in Proc : pc'[q] = IF q = p THEN place ELSE pc[q]
  BY DEF LockInv, LockType
<1>3. MagicInv'
  BY <1>2 DEF RingInv, MagicInv
<1>4. JumpInv'
  BY <1>2 DEF RingInv, JumpInv, Lag, Proc
<1>5. PublishInv'
  BY <1>2 DEF RingInv, PublishInv
<1>6. NoSilentJump' /\ RingWhole'
  BY DEF RingInv, NoSilentJump, RingWhole
<1>7. QED
  BY <1>1, <1>3, <1>4, <1>5, <1>6 DEF RingInv

LEMMA RingQuietSteps ==
  ASSUME LockInv, RingInv, NEW p \in Proc,
         \/ CreatExcl(p) \/ SetVal(p) \/ Creat(p) \/ NeedInit(p) \/ SkipInit(p)
         \/ SEM_Lock(p) \/ SEM_UnLock(p) \/ CallW(p) \/ CallR(p)
         \/ NoOverrun(p) \/ TakeEnds(p) \/ Die(p)
  PROVE  RingInv'
<1> USE QuietKeepsRing DEF Goto, hist, Inited, InWrite, InRead
<1>0. MagicInv
  BY DEF RingInv
<1>1. CASE CreatExcl(p) \/ SetVal(p) \/ Creat(p)
  BY <1>1 DEF CreatExcl, SetVal, Creat
<1>2. CASE NeedInit(p) \/ SkipInit(p)
  BY <1>2 DEF NeedInit, SkipInit
<1>3. CASE SEM_Lock(p)
  BY <1>0, <1>3 DEF SEM_Lock, Enter, Waiting, MagicInv
<1>4. CASE SEM_UnLock(p)
  BY <1>0, <1>4 DEF SEM_UnLock, MagicInv
<1>5. CASE CallW(p)
  BY <1>0, <1>5 DEF CallW, MagicInv
<1>6. CASE CallR(p)
  BY <1>0, <1>6 DEF CallR, MagicInv
<1>7. CASE NoOverrun(p)
  BY <1>0, <1>7 DEF NoOverrun, MagicInv
<1>8. CASE TakeEnds(p)
  BY <1>0, <1>8 DEF TakeEnds, MagicInv
<1>9. CASE Die(p)
  BY <1>9 DEF Die
<1>10. QED
  BY <1>1, <1>2, <1>3, <1>4, <1>5, <1>6, <1>7, <1>8, <1>9

\* A step taken in the section: no other process is there.
LEMMA Alone ==
  ASSUME LockInv, NEW p \in Proc, pc[p] \in Section, NEW q \in Proc, q # p
  PROVE  pc[q] \notin Section
BY DEF LockInv, MutualExclusion

LEMMA RingInitSteps ==
  ASSUME LockInv, RingInv, NEW p \in Proc, ZeroInit(p) \/ Mark(p)
  PROVE  RingInv'
<1> USE SlotsAssumption
<1>1. pc[p] \in {"zero", "mark"} /\ ~magic
  BY DEF ZeroInit, Mark, RingInv, MagicInv
<1>2. \A q \in Proc : q # p => pc[q] \notin Section
  BY <1>1, Alone DEF Section
<1>3. CASE ZeroInit(p)
  <2>1. \A q \in Proc : pc'[q] = IF q = p THEN "mark" ELSE pc[q]
    BY <1>3 DEF ZeroInit, Goto, LockInv, LockType
  <2>2. \A q \in Proc : pc'[q] \notin Section \ {"mark"}
    BY <2>1, <1>2
  <2>3. RingType'
    BY <1>3 DEF ZeroInit, RingInv, RingType, Content, hist
  <2>4. MagicInv'
    BY <2>1, <1>1, <1>3 DEF ZeroInit, RingInv, MagicInv, hist, Inited, InWrite, InRead
  <2>5. JumpInv' /\ PublishInv'
    BY <2>2 DEF JumpInv, PublishInv, Section, InRead, InWrite, Proc
  <2>6. NoSilentJump'
    BY <1>1, <1>3 DEF ZeroInit, RingInv, MagicInv, NoSilentJump, hist
  <2>7. RingWhole'
    BY <1>3 DEF ZeroInit, RingWhole
  <2>8. QED
    BY <2>3, <2>4, <2>5, <2>6, <2>7 DEF RingInv
<1>4. CASE Mark(p)
  <2>1. \A q \in Proc : pc'[q] = IF q = p THEN "unlock" ELSE pc[q]
    BY <1>4 DEF Mark, Goto, LockInv, LockType
  <2>2. \A q \in Proc : pc'[q] \notin Section \ {"unlock"}
    BY <2>1, <1>2
  <2>3. RingType'
    BY <1>4 DEF Mark, RingInv, RingType, hist
  <2>4. MagicInv'
    BY <2>2, <1>4 DEF Mark, MagicInv, Section
  <2>5. JumpInv' /\ PublishInv'
    BY <2>2 DEF JumpInv, PublishInv, Section, InRead, InWrite, Proc
  <2>6. NoSilentJump' /\ RingWhole'
    BY <1>4 DEF Mark, RingInv, NoSilentJump, RingWhole, hist
  <2>7. QED
    BY <2>3, <2>4, <2>5, <2>6 DEF RingInv
<1>5. QED
  BY <1>3, <1>4

LEMMA RingWriteSteps ==
  ASSUME LockInv, RingInv, NEW p \in Proc, Ring_Write(p)
  PROVE  RingInv'
<1> USE SlotsAssumption
<1>1. pc[p] \in InWrite /\ magic
  BY DEF Ring_Write, Fill, CopyIn, Publish, RingInv, MagicInv, InWrite, Inited
<1>2. \A q \in Proc : q # p => pc[q] \notin Section
  BY <1>1, Alone DEF Section
<1>3. w_seq \in Nat /\ slot \in [0..(Slots - 1) -> Content] /\ w_seq % Slots \in 0..(Slots - 1)
  BY SlotInRing DEF RingInv, RingType
<1>4. PICK place \in {"copy", "publish", "unlock"} : pc' = [pc EXCEPT ![p] = place]
  BY DEF Ring_Write, Fill, CopyIn, Publish, Goto
<1>5. \A q \in Proc : pc'[q] = IF q = p THEN place ELSE pc[q]
  BY <1>4 DEF LockInv, LockType
<1>6. \A q \in Proc : pc'[q] \notin Section \ {place}
  BY <1>2, <1>5
<1>7. magic' = magic /\ skipped' = skipped /\ dropped' = dropped /\ r_seq' = r_seq
  BY DEF Ring_Write, Fill, CopyIn, Publish, hist
<1>8. MagicInv'
  BY <1>1, <1>6, <1>7 DEF MagicInv, Section
<1>9. JumpInv'
  BY <1>4, <1>6 DEF JumpInv, Section, InRead, Proc
<1>10. NoSilentJump'
  BY <1>7 DEF RingInv, NoSilentJump
<1>11. \A q \in Proc : pc'[q] = "publish" => q = p /\ place = "publish"
  BY <1>5, <1>6, <1>2 DEF Section, InWrite
<1>12. CASE Fill(p) \/ CopyIn(p)
  <2>1. PICK c \in Content :
           /\ slot' = [slot EXCEPT ![w_seq % Slots] = c] /\ w_seq' = w_seq
           /\ CopyIn(p) => c = w_seq
    BY <1>3, <1>12 DEF Fill, CopyIn, Content
  <2>2. RingType'
    BY <2>1, <1>3, <1>7 DEF RingInv, RingType
  <2>3. ASSUME NEW n \in 0..(w_seq - 1), w_seq - n < Slots
        PROVE  slot'[n % Slots] = n
    <3>1. n \in Nat /\ n < w_seq /\ w_seq < n + Slots
      BY <2>3, <1>3
    <3>2. n % Slots # w_seq % Slots
      BY <3>1, <1>3, NearSlotsDiffer
    <3>3. n % Slots \in 0..(Slots - 1)
      BY <3>1, SlotInRing
    <3>4. slot'[n % Slots] = slot[n % Slots]
      BY <2>1, <3>2, <3>3, <1>3
    <3>5. QED
      BY <3>4, <2>3 DEF RingInv, RingWhole
  <2>4. RingWhole'
    BY <2>1, <2>3 DEF RingWhole
  <2>5. place = "publish" => CopyIn(p)
    BY <1>4, <1>12 DEF Fill, Goto, LockInv, LockType
  <2>6. PublishInv'
    BY <2>1, <2>5, <1>3, <1>11 DEF PublishInv
  <2>7. QED
    BY <2>2, <2>4, <2>6, <1>8, <1>9, <1>10 DEF RingInv
<1>13. CASE Publish(p)
  <2>1. w_seq' = w_seq + 1 /\ slot' = slot /\ slot[w_seq % Slots] = w_seq
    BY <1>13 DEF Publish, RingInv, PublishInv
  <2>2. RingType'
    BY <2>1, <1>3, <1>7 DEF RingInv, RingType
  <2>3. ASSUME NEW n \in 0..w_seq, w_seq + 1 - n < Slots
        PROVE  slot[n % Slots] = n
    <3>1. CASE n = w_seq
      BY <3>1, <2>1
    <3>2. CASE n # w_seq
      <4>1. n \in 0..(w_seq - 1) /\ w_seq - n < Slots
        BY <3>2, <2>3, <1>3
      <4>2. QED
        BY <4>1 DEF RingInv, RingWhole
    <3>3. QED
      BY <3>1, <3>2
  <2>4. RingWhole'
    BY <2>1, <2>3, <1>3 DEF RingWhole
  <2>5. place = "unlock"
    BY <1>4, <1>13 DEF Publish, Goto, LockInv, LockType
  <2>6. PublishInv'
    BY <2>5, <1>11 DEF PublishInv
  <2>7. QED
    BY <2>2, <2>4, <2>6, <1>8, <1>9, <1>10 DEF RingInv
<1>14. QED
  BY <1>12, <1>13 DEF Ring_Write

LEMMA RingReadSteps ==
  ASSUME LockInv, RingInv, NEW p \in Readers, Account(p) \/ Jump(p) \/ Take(p)
  PROVE  RingInv'
<1> USE SlotsAssumption
<1>0. p \in Proc
  BY DEF Proc
<1>1. pc[p] \in InRead /\ magic
  BY <1>0 DEF Account, Jump, Take, RingInv, MagicInv, InRead, Inited
<1>2. \A q \in Proc : q # p => pc[q] \notin Section
  BY <1>0, <1>1, Alone DEF Section
<1>3. /\ w_seq \in Nat /\ r_seq \in [Readers -> Nat]
      /\ dropped \in [Readers -> Nat] /\ skipped \in [Readers -> Nat]
      /\ NoSilentJump
  BY DEF RingInv, RingType
<1>4. PICK place \in {"jump", "take"} : pc' = [pc EXCEPT ![p] = place]
  BY <1>0 DEF Account, Jump, Take, Goto, LockInv, LockType
<1>5. \A q \in Proc : pc'[q] = IF q = p THEN place ELSE pc[q]
  BY <1>4 DEF LockInv, LockType
<1>6. \A q \in Proc : pc'[q] \notin Section \ {place}
  BY <1>2, <1>5
<1>7. magic' = magic /\ w_seq' = w_seq /\ slot' = slot
  BY DEF Account, Jump, Take, hist
<1>8. MagicInv'
  BY <1>1, <1>6, <1>7 DEF MagicInv, Section
<1>9. PublishInv'
  BY <1>4, <1>6 DEF PublishInv, Section, InWrite
<1>10. RingWhole'
  BY <1>7 DEF RingInv, RingWhole
<1>11. \A r \in Readers : pc'[r] = "jump" => r = p /\ place = "jump"
  BY <1>5, <1>6, <1>2 DEF Section, InRead, Proc
<1>12. CASE Account(p)
  <2>1. /\ Lag(p) > Slots /\ r_seq' = r_seq /\ skipped' = skipped
        /\ dropped' = [dropped EXCEPT ![p] = @ + Lag(p) - Slots]
    BY <1>12 DEF Account, hist
  <2>2. RingType'
    BY <2>1, <1>3, <1>7 DEF RingInv, RingType, Lag
  <2>3. NoSilentJump'
    BY <2>1, <1>3 DEF NoSilentJump, Lag
  <2>4. JumpInv'
    BY <2>1, <1>3, <1>7, <1>11 DEF JumpInv, NoSilentJump, Lag
  <2>5. QED
    BY <2>2, <2>3, <2>4, <1>8, <1>9, <1>10 DEF RingInv
<1>13. CASE Jump(p)
  <2>1. /\ dropped' = dropped /\ place = "take"
        /\ r_seq' = [r_seq EXCEPT ![p] = w_seq - Slots]
        /\ skipped' = [skipped EXCEPT ![p] = @ + Lag(p) - Slots]
    BY <1>0, <1>4, <1>13 DEF Jump, Goto, LockInv, LockType
  <2>2. Lag(p) > Slots /\ skipped[p] + Lag(p) - Slots <= dropped[p]
    BY <1>13 DEF Jump, RingInv, JumpInv
  <2>3. RingType'
    BY <2>1, <2>2, <1>3, <1>7 DEF RingInv, RingType, Lag
  <2>4. NoSilentJump'
    BY <2>1, <2>2, <1>3 DEF NoSilentJump, Lag
  <2>5. JumpInv'
    BY <2>1, <1>11 DEF JumpInv
  <2>6. QED
    BY <2>3, <2>4, <2>5, <1>8, <1>9, <1>10 DEF RingInv
<1>14. CASE Take(p)
  <2>1. /\ dropped' = dropped /\ skipped' = skipped /\ pc' = pc
        /\ r_seq' = [r_seq EXCEPT ![p] = @ + 1]
    BY <1>14 DEF Take, hist
  <2>2. RingType'
    BY <2>1, <1>3, <1>7 DEF RingInv, RingType
  <2>3. NoSilentJump'
    BY <2>1, <1>3 DEF NoSilentJump
  <2>4. pc[p] = "take"
    BY <1>14 DEF Take
  <2>5. \A r \in Readers : pc'[r] # "jump"
    BY <2>1, <2>4, <1>2 DEF Section, InRead, Proc
  <2>6. JumpInv'
    BY <2>5 DEF JumpInv
  <2>7. QED
    BY <2>2, <2>3, <2>6, <1>8, <1>9, <1>10 DEF RingInv
<1>15. QED
  BY <1>12, <1>13, <1>14

LEMMA RingInit == Init => RingInv
<1> SUFFICES ASSUME Init PROVE RingInv
  OBVIOUS
<1> USE SlotsAssumption
<1>1. \A p \in Proc : pc[p] = "attach"
  BY DEF Init
<1>2. magic \in BOOLEAN /\ ~magic
  BY DEF Init
<1>3. RingType
  BY <1>2 DEF Init, RingType, Content
<1>4. MagicInv
  BY <1>1 DEF Init, MagicInv, Inited, InWrite, InRead
<1>5. JumpInv /\ PublishInv
  BY <1>1 DEF JumpInv, PublishInv, Proc
<1>6. NoSilentJump /\ RingWhole
  BY DEF Init, NoSilentJump, RingWhole
<1>7. QED
  BY <1>3, <1>4, <1>5, <1>6 DEF RingInv

LEMMA RingStep == LockInv /\ RingInv /\ [Next]_vars => RingInv'
<1> SUFFICES ASSUME LockInv, RingInv, [Next]_vars PROVE RingInv'
  OBVIOUS
<1>1. CASE UNCHANGED vars
  BY <1>1 DEF vars, RingInv, RingType, MagicInv, JumpInv, NoSilentJump,
              PublishInv, RingWhole, Lag
<1>2. CASE Next
  <2>1. PICK p \in Proc :
          Progress(p) \/ SEM_Lock(p) \/ CallW(p) \/ CallR(p) \/ Die(p)
    BY <1>2 DEF Next
  <2>2. QED
    BY <2>1, RingQuietSteps, RingInitSteps, RingWriteSteps, RingReadSteps
       DEF Progress, SEAM_Init, Ring_Read
<1>3. QED
  BY <1>1, <1>2

LEMMA RingAlways == Spec => [](LockInv /\ RingInv)
<1>1. Spec => []LockInv
  BY LockAlways
<1>2. QED
  BY <1>1, RingInit, RingStep, PTL DEF Spec

\* The newest records, up to one less than the ring holds, are whole and in
\* their slots whoever dies where: the slot a writer is filling is never one
\* of theirs.
THEOREM NewestWhole == Spec => []RingWhole
BY RingAlways, PTL DEF RingInv

\* A cursor never jumps over a record that dropped does not count.
THEOREM JumpsAreCounted == Spec => []NoSilentJump
BY RingAlways, PTL DEF RingInv

\* The segment is zeroed only before the first record: w_seq never goes back.
THEOREM ZeroedOnce == Spec => NeverZeroedAgain
<1>1. LockInv /\ RingInv /\ [Next]_vars => [w_seq' >= w_seq]_vars
  <2> SUFFICES ASSUME RingInv, Next PROVE w_seq' >= w_seq
    BY DEF vars
  <2>1. w_seq \in Nat
    BY DEF RingInv, RingType
  <2>2. PICK p \in Proc :
          Progress(p) \/ SEM_Lock(p) \/ CallW(p) \/ CallR(p) \/ Die(p)
    BY DEF Next
  <2>3. CASE ZeroInit(p)
    BY <2>3 DEF ZeroInit, RingInv, MagicInv
  <2>4. CASE Publish(p)
    BY <2>1, <2>4 DEF Publish
  <2>5. CASE ~ZeroInit(p) /\ ~Publish(p)
    BY <2>1, <2>2, <2>5 DEF Progress, SEAM_Init, Ring_Write, Ring_Read, CreatExcl,
       SetVal, Creat, NeedInit, Mark, SkipInit, Fill, CopyIn, Account, Jump, NoOverrun,
       Take, TakeEnds, SEM_UnLock, SEM_Lock, CallW, CallR, Die, shm
  <2>6. QED
    BY <2>3, <2>4, <2>5
<1>2. QED
  BY <1>1, RingAlways, PTL DEF Spec, NeverZeroedAgain

-------------------------------------------------------------------------------
\* What the readers have copied out

OutType ==
  /\ out \in [Readers -> Seq(Content)]
  /\ halfDone \in BOOLEAN
  /\ deaths \in Nat \X Nat

\* Places of a reader that may have something in its out buffer.
Loaded == {"take", "unlock", "ready"}

EmptyInv == \A r \in Readers : pc[r] \notin Loaded => out[r] = <<>>

\* While no slot is being filled and none was left half filled, all that the
\* ring holds is whole, the oldest record included.
WholeInv ==
  ~halfDone /\ (\A p \in Proc : pc[p] \notin {"copy", "publish"}) =>
    \A n \in 0..(w_seq - 1) : w_seq - n <= Slots => slot[n % Slots] = n

TakeInv == \A r \in Readers : pc[r] = "take" => Lag(r) <= Slots

ReadInv ==
  OutType /\ EmptyInv /\ WholeInv /\ TakeInv /\ ReadsWholeUnlessWidowed

\* A step that leaves the records, the cursors and the out buffers alone.
LEMMA QuietKeepsReads ==
  ASSUME LockInv, ReadInv, NEW p \in Proc, NEW place,
         pc' = [pc EXCEPT ![p] = place],
         UNCHANGED <<w_seq, slot, r_seq, out, halfDone, deaths>>,
         pc[p] \notin {"copy", "publish"},
         place = "take" => (p \in Readers => Lag(p) <= Slots /\ out[p] = <<>>),
         place \notin Loaded => pc[p] \notin Loaded \/ p \notin Readers
  PROVE  ReadInv'
<1>1. \A q \in Proc : pc'[q] = IF q = p THEN place ELSE pc[q]
  BY DEF LockInv, LockType
<1>2. OutType'
  BY DEF ReadInv, OutType
<1>3. EmptyInv'
  BY <1>1 DEF ReadInv, EmptyInv, Proc
<1>4. WholeInv'
  <2>1. (\A q \in Proc : pc'[q] \notin {"copy", "publish"}) =>
          \A q \in Proc : pc[q] \notin {"copy", "publish"}
    BY <1>1
  <2>2. QED
    BY <2>1 DEF ReadInv, WholeInv
<1>5. TakeInv'
  BY <1>1 DEF ReadInv, TakeInv, Lag, Proc
<1>6. ReadsWholeUnlessWidowed'
  BY DEF ReadInv, ReadsWholeUnlessWidowed, ReadsWhole
<1>7. QED
  BY <1>2, <1>3, <1>4, <1>5, <1>6 DEF ReadInv

LEMMA ReadQuietSteps ==
  ASSUME LockInv, ReadInv, NEW p \in Proc,
         \/ CreatExcl(p) \/ SetVal(p) \/ Creat(p) \/ NeedInit(p) \/ Mark(p)
         \/ SkipInit(p) \/ SEM_Lock(p) \/ SEM_UnLock(p) \/ CallW(p)
         \/ p \in Readers /\ (Account(p) \/ NoOverrun(p) \/ TakeEnds(p))
  PROVE  ReadInv'
<1> USE QuietKeepsReads DEF Goto, shm, hist, Loaded
<1>1. CASE CreatExcl(p) \/ SetVal(p) \/ Creat(p)
  BY <1>1 DEF CreatExcl, SetVal, Creat
<1>2. CASE NeedInit(p) \/ SkipInit(p) \/ Mark(p)
  BY <1>2 DEF NeedInit, SkipInit, Mark
<1>3. CASE SEM_Lock(p)
  BY <1>3 DEF SEM_Lock, Enter, Waiting
<1>4. CASE SEM_UnLock(p)
  BY <1>4 DEF SEM_UnLock
<1>5. CASE CallW(p)
  BY <1>5, ProcAssumption DEF CallW
<1>6. CASE p \in Readers /\ Account(p)
  BY <1>6 DEF Account
<1>7. CASE p \in Readers /\ NoOverrun(p)
  BY <1>7 DEF NoOverrun, ReadInv, EmptyInv
<1>8. CASE p \in Readers /\ TakeEnds(p)
  BY <1>8 DEF TakeEnds
<1>9. QED
  BY <1>1, <1>2, <1>3, <1>4, <1>5, <1>6, <1>7, <1>8

\* The segment is zeroed while nobody has copied anything.
LEMMA ReadZeroInit ==
  ASSUME LockInv, RingInv, ReadInv, NEW p \in Proc, ZeroInit(p)
  PROVE  ReadInv'
<1>1. \A q \in Proc : pc'[q] = IF q = p THEN "mark" ELSE pc[q]
  BY DEF ZeroInit, Goto, LockInv, LockType
<1>2. UNCHANGED <<out, halfDone, deaths>> /\ w_seq' = 0
  BY DEF ZeroInit, hist
<1>3. \A q \in Proc : pc[q] \notin {"take", "ready", "copy", "publish"}
  BY DEF ZeroInit, RingInv, MagicInv, Inited, InWrite, InRead
<1>4. \A r \in Readers : out[r] = <<>>
  <2>1. ~magic /\ \A r \in Readers : pc[r] \notin Inited
    BY DEF ZeroInit, RingInv, MagicInv, Proc
  <2>2. QED
    BY <2>1 DEF ReadInv, EmptyInv, Loaded, Inited, InRead
<1>5. OutType' /\ EmptyInv'
  BY <1>2, <1>4 DEF ReadInv, OutType, EmptyInv
<1>6. WholeInv'
  BY <1>2 DEF WholeInv
<1>7. TakeInv'
  BY <1>1, <1>3 DEF TakeInv, Proc
<1>8. ReadsWholeUnlessWidowed'
  BY <1>2, <1>4 DEF ReadsWholeUnlessWidowed, ReadsWhole
<1>9. QED
  BY <1>5, <1>6, <1>7, <1>8 DEF ReadInv

\* While a writer is in the section no reader is copying.
LEMMA ReadWriteSteps ==
  ASSUME LockInv, RingInv, RingInv', ReadInv, NEW p \in Proc, Ring_Write(p)
  PROVE  ReadInv'
<1> USE SlotsAssumption
<1>1. pc[p] \in InWrite
  BY DEF Ring_Write, Fill, CopyIn, Publish, InWrite
<1>2. PICK place \in {"copy", "publish", "unlock"} :
        /\ pc' = [pc EXCEPT ![p] = place]
        /\ Publish(p) <=> place = "unlock"
  BY DEF Ring_Write, Fill, CopyIn, Publish, Goto, LockInv, LockType
<1>3. \A q \in Proc : pc'[q] = IF q = p THEN place ELSE pc[q]
  BY <1>2 DEF LockInv, LockType
<1>4. UNCHANGED <<r_seq, out, halfDone, deaths>>
  BY DEF Ring_Write, Fill, CopyIn, Publish, hist
<1>5. OutType' /\ ReadsWholeUnlessWidowed'
  BY <1>4 DEF ReadInv, OutType, ReadsWholeUnlessWidowed, ReadsWhole
<1>6. EmptyInv'
  BY <1>1, <1>3, <1>4 DEF ReadInv, EmptyInv, Loaded, InWrite, Proc
<1>7. TakeInv'
  <2>1. \A q \in Proc : q # p => pc[q] \notin Section
    BY <1>1, Alone DEF Section
  <2>2. \A q \in Proc : pc'[q] # "take"
    BY <1>3, <2>1 DEF Section, InRead
  <2>3. QED
    BY <2>2 DEF TakeInv, Proc
<1>8. WholeInv'
  <2>1. CASE place # "unlock"
    BY <1>2, <1>3, <2>1 DEF WholeInv
  <2>2. CASE place = "unlock"
    <3>1. Publish(p) /\ w_seq \in Nat
      BY <1>2, <2>2 DEF RingInv, RingType
    <3>2. w_seq' = w_seq + 1 /\ slot' = slot /\ slot[w_seq % Slots] = w_seq
      BY <3>1 DEF Publish, RingInv, PublishInv
    <3>3. ASSUME NEW n \in 0..(w_seq' - 1), w_seq' - n <= Slots
          PROVE  slot'[n % Slots] = n
      <4>1. CASE n = w_seq
        BY <4>1, <3>2
      <4>2. CASE n # w_seq
        <5>1. n \in 0..(w_seq - 1) /\ w_seq - n < Slots
          BY <3>1, <3>2, <3>3, <4>2
        <5>2. QED
          BY <3>2, <5>1 DEF RingInv, RingWhole
      <4>3. QED
        BY <4>1, <4>2
    <3>4. QED
      BY <3>3 DEF WholeInv
  <2>3. QED
    BY <2>1, <2>2
<1>9. QED
  BY <1>5, <1>6, <1>7, <1>8 DEF ReadInv

LEMMA ReadCallR ==
  ASSUME LockInv, ReadInv, NEW p \in Proc, CallR(p)
  PROVE  ReadInv'
<1>1. \A q \in Proc : pc'[q] = IF q = p THEN "lock" ELSE pc[q]
  BY DEF CallR, Goto, LockInv, LockType
<1>2. UNCHANGED <<w_seq, slot, r_seq, halfDone, deaths>>
  BY DEF CallR, shm, hist
<1>3. /\ out' \in [Readers -> Seq(Content)]
      /\ \A r \in Readers : out'[r] = IF r = p THEN <<>> ELSE out[r]
  BY DEF CallR, ReadInv, OutType
<1>4. OutType' /\ EmptyInv'
  BY <1>1, <1>2, <1>3 DEF ReadInv, OutType, EmptyInv, Proc
<1>5. pc[p] = "ready"
  BY DEF CallR
<1>6. WholeInv'
  <2>1. (\A q \in Proc : pc'[q] \notin {"copy", "publish"}) =>
          \A q \in Proc : pc[q] \notin {"copy", "publish"}
    BY <1>1, <1>5
  <2>2. QED
    BY <2>1, <1>2 DEF ReadInv, WholeInv
<1>7. TakeInv'
  BY <1>1, <1>2 DEF ReadInv, TakeInv, Lag, Proc
<1>8. ReadsWholeUnlessWidowed'
  <2>1. CASE halfDone
    BY <1>2, <2>1, Zenon DEF ReadsWholeUnlessWidowed
  <2>2. CASE ~halfDone
    <3>1. ReadsWhole
      BY <2>2, Zenon DEF ReadInv, ReadsWholeUnlessWidowed
    <3>2. ASSUME NEW r \in Readers, NEW i \in 1..Len(out'[r])
          PROVE  out'[r][i] = r_seq'[r] - Len(out'[r]) + i - 1
      <4>1. CASE r = p
        BY <1>3, <3>2, <4>1
      <4>2. CASE r # p
        <5>1. out'[r] = out[r] /\ r_seq' = r_seq
          BY <1>2, <1>3, <4>2
        <5>2. QED
          BY <3>1, <3>2, <5>1 DEF ReadsWhole
      <4>3. QED
        BY <4>1, <4>2
    <3>3. QED
      BY <3>2 DEF ReadsWholeUnlessWidowed, ReadsWhole
  <2>3. QED
    BY <2>1, <2>2
<1>9. QED
  BY <1>4, <1>6, <1>7, <1>8 DEF ReadInv

LEMMA ReadJump ==
  ASSUME LockInv, RingInv, ReadInv, NEW p \in Readers, Jump(p)
  PROVE  ReadInv'
<1>0. p \in Proc
  BY DEF Proc
<1>1. \A q \in Proc : pc'[q] = IF q = p THEN "take" ELSE pc[q]
  BY DEF Jump, Goto, LockInv, LockType
<1>2. UNCHANGED <<w_seq, slot, out, halfDone, deaths>> /\ pc[p] = "jump"
  BY DEF Jump
<1>3. /\ w_seq \in Nat /\ r_seq \in [Readers -> Nat]
      /\ \A r \in Readers : r_seq'[r] = IF r = p THEN w_seq - Slots ELSE r_seq[r]
  BY DEF Jump, RingInv, RingType
<1>4. out[p] = <<>>
  BY <1>2 DEF ReadInv, EmptyInv, Loaded
<1>5. OutType' /\ EmptyInv'
  BY <1>0, <1>1, <1>2 DEF ReadInv, OutType, EmptyInv, Loaded, Proc
<1>6. WholeInv'
  <2>1. (\A q \in Proc : pc'[q] \notin {"copy", "publish"}) =>
          \A q \in Proc : pc[q] \notin {"copy", "publish"}
    BY <1>1, <1>2
  <2>2. QED
    BY <2>1, <1>2 DEF ReadInv, WholeInv
<1>7. TakeInv'
  BY <1>1, <1>2, <1>3, SlotsAssumption DEF ReadInv, TakeInv, Lag, Proc
<1>8. ReadsWholeUnlessWidowed'
  <2>1. \A r \in Readers : \A i \in 1..Len(out[r]) : r # p
    BY <1>4
  <2>2. QED
    BY <1>2, <1>3, <2>1 DEF ReadInv, ReadsWholeUnlessWidowed, ReadsWhole
<1>9. QED
  BY <1>5, <1>6, <1>7, <1>8 DEF ReadInv

\* The slot the cursor is at is whole: nobody else is in the section, and the
\* cursor is not more than Slots behind.
LEMMA ReadTake ==
  ASSUME LockInv, RingInv, ReadInv, NEW p \in Readers, Take(p)
  PROVE  ReadInv'
<1>0. p \in Proc /\ pc[p] = "take" /\ r_seq[p] < w_seq
  BY DEF Proc, Take
<1>1. UNCHANGED <<w_seq, slot, pc, halfDone, deaths>>
  BY DEF Take, hist
<1>2. /\ w_seq \in Nat /\ r_seq \in [Readers -> Nat]
      /\ slot \in [0..(Slots - 1) -> Content]
  BY DEF RingInv, RingType
<1>3. \A r \in Readers : r_seq'[r] = IF r = p THEN r_seq[p] + 1 ELSE r_seq[r]
  BY <1>2 DEF Take
<1>4. slot[r_seq[p] % Slots] \in Content
  BY <1>2, SlotsAssumption, SlotInRing
<1>5. /\ out' \in [Readers -> Seq(Content)]
      /\ out'[p] = Append(out[p], slot[r_seq[p] % Slots])
      /\ \A r \in Readers : r # p => out'[r] = out[r]
  BY <1>4 DEF Take, ReadInv, OutType
<1>6. OutType' /\ EmptyInv'
  BY <1>0, <1>1, <1>5 DEF ReadInv, OutType, EmptyInv, Loaded
<1>7. WholeInv'
  BY <1>1 DEF ReadInv, WholeInv
<1>8. TakeInv'
  BY <1>1, <1>2, <1>3, SlotsAssumption DEF ReadInv, TakeInv, Lag
<1>9. halfDone \/ slot[r_seq[p] % Slots] = r_seq[p]
  <2>1. \A q \in Proc : q # p => pc[q] \notin Section
    BY <1>0, Alone DEF Section, InRead
  <2>2. \A q \in Proc : pc[q] \notin {"copy", "publish"}
    BY <1>0, <2>1 DEF Section, InWrite
  <2>3. r_seq[p] \in 0..(w_seq - 1) /\ w_seq - r_seq[p] <= Slots
    BY <1>0, <1>2 DEF ReadInv, TakeInv, Lag
  <2>4. QED
    BY <2>2, <2>3 DEF ReadInv, WholeInv
<1>10. ReadsWholeUnlessWidowed'
  <2>1. CASE halfDone
    BY <2>1, <1>1 DEF ReadsWholeUnlessWidowed
  <2>2. CASE ~halfDone
    <3>1. ReadsWhole /\ slot[r_seq[p] % Slots] = r_seq[p]
      BY <2>2, <1>9 DEF ReadInv, ReadsWholeUnlessWidowed
    <3>2. ASSUME NEW r \in Readers, NEW i \in 1..Len(out'[r])
          PROVE  out'[r][i] = r_seq'[r] - Len(out'[r]) + i - 1
      <4>1. CASE r # p
        <5>1. out'[r] = out[r] /\ r_seq'[r] = r_seq[r]
          BY <4>1, <1>3, <1>5
        <5>2. i \in 1..Len(out[r])
          BY <5>1
        <5>3. out[r][i] = r_seq[r] - Len(out[r]) + i - 1
          BY <5>2, <3>1 DEF ReadsWhole
        <5>4. QED
          BY <5>1, <5>3
      <4>2. CASE r = p
        <5>1. out[p] \in Seq(Content) /\ slot[r_seq[p] % Slots] \in Content
          BY <1>4 DEF ReadInv, OutType
        <5>2. Len(out'[p]) = Len(out[p]) + 1 /\ Len(out[p]) \in Nat
          BY <1>5, <5>1
        <5>3. CASE i = Len(out[p]) + 1
          <6>1. out'[p][i] = r_seq[p]
            BY <1>5, <5>1, <5>3, <3>1
          <6>2. QED
            <7>1. r_seq'[p] = r_seq[p] + 1 /\ r_seq[p] \in Nat
              BY <1>2, <1>3
            <7>2. r_seq'[p] - Len(out'[p]) + i - 1 = r_seq[p]
              BY <5>2, <5>3, <7>1
            <7>3. QED
              BY <4>2, <6>1, <7>2
        <5>4. CASE i # Len(out[p]) + 1
          <6>1. i \in 1..Len(out[p])
            BY <3>2, <4>2, <5>2, <5>4
          <6>2. out'[p][i] = out[p][i]
            BY <1>5, <5>1, <6>1
          <6>3. out[p][i] = r_seq[p] - Len(out[p]) + i - 1
            BY <3>1, <6>1 DEF ReadsWhole
          <6>4. QED
            <7>1. r_seq'[p] = r_seq[p] + 1 /\ r_seq[p] \in Nat
              BY <1>2, <1>3
            <7>2. r_seq'[p] - Len(out'[p]) = r_seq[p] - Len(out[p])
              BY <5>2, <7>1
            <7>3. QED
              BY <4>2, <6>2, <6>3, <7>2
        <5>5. QED
          BY <5>3, <5>4
      <4>3. QED
        BY <4>1, <4>2
    <3>3. QED
      BY <3>2 DEF ReadsWholeUnlessWidowed, ReadsWhole
  <2>3. QED
    BY <2>1, <2>2
<1>11. QED
  BY <1>6, <1>7, <1>8, <1>10 DEF ReadInv

LEMMA ReadDie ==
  ASSUME LockInv, RingInv, ReadInv, NEW p \in Proc, Die(p)
  PROVE  ReadInv'
<1>1. \A q \in Proc : pc'[q] = IF q = p THEN "attach" ELSE pc[q]
  BY DEF Die, Goto, LockInv, LockType
<1>2. UNCHANGED <<w_seq, slot, r_seq>>
  BY DEF Die, shm
<1>3. /\ halfDone' \in BOOLEAN
      /\ ~halfDone' => ~halfDone /\ pc[p] \notin InWrite
  BY DEF Die, ReadInv, OutType
<1>4. deaths' \in Nat \X Nat
  BY DEF Die, ReadInv, OutType
<1>5. /\ out' \in [Readers -> Seq(Content)]
      /\ \A r \in Readers : out'[r] = IF r = p THEN <<>> ELSE out[r]
  BY DEF Die, ReadInv, OutType
<1>6. OutType' /\ EmptyInv'
  BY <1>1, <1>3, <1>4, <1>5 DEF ReadInv, OutType, EmptyInv, Proc
<1>7. WholeInv'
  <2>1. ~halfDone' /\ (\A q \in Proc : pc'[q] \notin {"copy", "publish"}) =>
          ~halfDone /\ \A q \in Proc : pc[q] \notin {"copy", "publish"}
    BY <1>1, <1>3 DEF InWrite
  <2>2. QED
    BY <2>1, <1>2 DEF ReadInv, WholeInv
<1>8. TakeInv'
  BY <1>1, <1>2 DEF ReadInv, TakeInv, Lag, Proc
<1>9. ReadsWholeUnlessWidowed'
  BY <1>2, <1>3, <1>5 DEF ReadInv, ReadsWholeUnlessWidowed, ReadsWhole
<1>10. QED
  BY <1>6, <1>7, <1>8, <1>9 DEF ReadInv

LEMMA ReadInit == Init => ReadInv
<1> SUFFICES ASSUME Init PROVE ReadInv
  OBVIOUS
<1>1. \A p \in Proc : pc[p] = "attach"
  BY DEF Init
<1>2. OutType
  <2>1. out \in [Readers -> Seq(Content)]
    BY DEF Init
  <2>2. halfDone \in BOOLEAN /\ deaths \in Nat \X Nat
    BY DEF Init
  <2>3. QED
    BY <2>1, <2>2 DEF OutType
<1>3. EmptyInv /\ TakeInv
  BY <1>1 DEF Init, EmptyInv, TakeInv, Proc
<1>4. WholeInv /\ ReadsWholeUnlessWidowed
  BY DEF Init, WholeInv, ReadsWholeUnlessWidowed, ReadsWhole
<1>5. QED
  BY <1>2, <1>3, <1>4 DEF ReadInv

LEMMA ReadStep ==
  LockInv /\ RingInv /\ RingInv' /\ ReadInv /\ [Next]_vars => ReadInv'
<1> SUFFICES ASSUME LockInv, RingInv, RingInv', ReadInv, [Next]_vars
             PROVE  ReadInv'
  OBVIOUS
<1>1. CASE UNCHANGED vars
  BY <1>1 DEF vars, ReadInv, OutType, EmptyInv, WholeInv, TakeInv, Lag,
              ReadsWholeUnlessWidowed, ReadsWhole
<1>2. CASE Next
  <2>1. PICK p \in Proc :
          Progress(p) \/ SEM_Lock(p) \/ CallW(p) \/ CallR(p) \/ Die(p)
    BY <1>2 DEF Next
  <2>2. QED
    BY <2>1, ReadQuietSteps, ReadZeroInit, ReadWriteSteps, ReadCallR, ReadJump,
       ReadTake, ReadDie DEF Progress, SEAM_Init, Ring_Read
<1>3. QED
  BY <1>1, <1>2

LEMMA ReadAlways == Spec => [](LockInv /\ RingInv /\ ReadInv)
<1>1. LockInv /\ RingInv /\ [Next]_vars => LockInv' /\ RingInv'
  BY LockStep, RingStep
<1>2. QED
  BY <1>1, LockInit, RingInit, ReadInit, ReadStep, PTL DEF Spec

\* What a SEAM_R call copies out are the published records in order and whole,
\* the oldest slot of the ring included, unless a writer has died inside
\* seam_ring_write.
THEOREM ReadsPublished == Spec => []ReadsWholeUnlessWidowed
BY ReadAlways, PTL DEF ReadInv

\* The semaphore, the segment and the buffers stay within their types.
THEOREM TypeCorrect == Spec => []TypeOK
<1>1. LockInv /\ RingInv /\ ReadInv => TypeOK
  BY DEF LockInv, LockType, RingInv, RingType, ReadInv, OutType, TypeOK
<1>2. QED
  BY <1>1, ReadAlways, PTL
===============================================================================
