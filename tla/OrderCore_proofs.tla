--------------------------- MODULE OrderCore_proofs ---------------------------
(***************************************************************************)
(* Proofs about the order core: the SEAM queues its processes read         *)
(* (SeamRing) and the table of open orders they keep (MicheTable).         *)
(*                                                                         *)
(* SeamRing, for every number of slots, every set of readers and every     *)
(* bound on writes and crashes.  The inductive invariant is                *)
(* TypeOK /\ Window /\ HeldRun: the slots hold the newest records          *)
(* (Window), hence a copy made after the jump is a run of consecutive      *)
(* records (lemma CopyIsRun), hence what readers hold stays a run next to  *)
(* their cursor (HeldRun).  Order, accounting and the refinement of        *)
(* SeamLog follow from it.                                                 *)
(*                                                                         *)
(* MicheTable, for every table, cache and number of orders, messages,      *)
(* retries and deaths.  What is due of an order, Due(o), is what the       *)
(* exchange has left of it and what the messages on the way will take from *)
(* it.  It never rises once the order is known; a process that reduces an  *)
(* order has read at least what is due (ReduceInv), and stores that less   *)
(* its own message, which is due no more: what another process stored in   *)
(* between is lost, but only ever upwards.                                 *)
(***************************************************************************)
EXTENDS SeamRing, MicheTable, FiniteSetTheorems, SequenceTheorems, TLAPS

-------------------------------------------------------------------------------
\* Slot arithmetic

\* A slot index is within the ring.
LEMMA SlotRange ==
  ASSUME NEW a \in Nat
  PROVE  a % Slots \in 0..(Slots - 1)
BY SlotsAssumption

\* Two records less than a ring of S apart never share a slot.
LEMMA NearSlotsDiffer ==
  ASSUME NEW S \in Nat \ {0}, NEW a \in Nat, NEW b \in Nat, a < b, b < a + S
  PROVE  a % S # b % S
<1> DEFINE q == (b \div S) - (a \div S)
<1>1. a \div S \in Nat /\ b \div S \in Nat
  OBVIOUS
<1>2. (a = S * (a \div S) + (a % S)) /\ (b = S * (b \div S) + (b % S))
  OBVIOUS
<1>3. S * q = (S * (b \div S)) - (S * (a \div S))
  BY <1>1
<1>4. /\ q <= 0 => S * q <= 0
      /\ q >= 1 => S * q >= S
  BY <1>1
<1>5. QED
  BY <1>1, <1>2, <1>3, <1>4

LEMMA SlotDistinct ==
  ASSUME NEW a \in Nat, NEW b \in Nat, a < b, b < a + Slots
  PROVE  a % Slots # b % Slots
BY NearSlotsDiffer, SlotsAssumption

-------------------------------------------------------------------------------
\* The inductive invariant

IInv == TypeOK /\ Window /\ HeldRun

\* After its jump a cursor is inside the ring and not beyond the writer.
LEMMA OldestInRing ==
  ASSUME IInv, NEW r \in Readers
  PROVE  /\ r_seq[r] \in Nat /\ r_seq[r] <= w_seq
         /\ Overrun(r) \in Nat
         /\ Oldest(r) \in Nat /\ Oldest(r) <= w_seq /\ Oldest(r) >= w_seq - Slots
         /\ Oldest(r) = r_seq[r] + Overrun(r)
BY SlotsAssumption DEF IInv, TypeOK, HeldRun, Current, Readers, Overrun, Oldest

\* A call returns at least one record when there is one, and only records
\* that have been published.
LEMMA AvailBound ==
  ASSUME IInv, NEW r \in Readers, NEW maxrec \in 1..MaxRec
  PROVE  /\ Avail(r, maxrec) \in Nat
         /\ Oldest(r) + Avail(r, maxrec) <= w_seq
<1>1. w_seq \in Nat
  BY DEF IInv, TypeOK
<1>2. Oldest(r) \in Nat /\ Oldest(r) <= w_seq
  BY OldestInRing
<1>3. QED
  BY <1>1, <1>2, MaxRecAssumption DEF Avail

\* The slots a reader copies hold exactly the records its cursor points at.
LEMMA CopyIsRun ==
  ASSUME IInv, NEW r \in Readers, NEW n \in Nat, Oldest(r) + n <= w_seq
  PROVE  /\ Copy(r, n) \in Seq(Nat \union {Blank})
         /\ Len(Copy(r, n)) = n
         /\ \A i \in 1..n : Copy(r, n)[i] = Oldest(r) + i - 1
         /\ Copy(r, n) = [i \in 1..n |-> Oldest(r) + i - 1]
<1>1. \A i \in 1..n : slot[(Oldest(r) + i - 1) % Slots] = Oldest(r) + i - 1
  <2> TAKE i \in 1..n
  <2> DEFINE s == Oldest(r) + i - 1
  <2>1. w_seq \in Nat
    BY DEF IInv, TypeOK
  <2>2. Oldest(r) \in Nat /\ Oldest(r) >= w_seq - Slots
    BY OldestInRing
  <2>3. s \in 0..(w_seq - 1) /\ s >= w_seq - Slots
    BY <2>1, <2>2, SlotsAssumption
  <2>4. QED
    BY <2>3 DEF IInv, Window
<1>2. Copy(r, n) = [i \in 1..n |-> Oldest(r) + i - 1]
  BY <1>1 DEF Copy
<1>3. \A i \in 1..n : Oldest(r) + i - 1 \in Nat
  BY OldestInRing
<1>4. QED
  BY <1>2, <1>3, OldestInRing

LEMMA InitInv == Init => IInv
BY SlotsAssumption, BoundsAssumption
   DEF Init, IInv, TypeOK, Window, HeldRun, Current, Readers, Blank

LEMMA StepInv == IInv /\ [Next]_vars => IInv'
<1> SUFFICES ASSUME IInv, [Next]_vars PROVE IInv'
  OBVIOUS
<1>w. w_seq \in Nat /\ slot \in [0..(Slots - 1) -> Nat \union {Blank}]
  BY DEF IInv, TypeOK
<1>t. /\ w_seq \in Nat
      /\ slot \in [0..(Slots - 1) -> Nat \union {Blank}]
      /\ r_seq \in [Readers -> Nat]
      /\ dropped \in [Readers -> Nat]
      /\ inbox \in [Readers -> Seq(Nat \union {Blank})]
      /\ worked \in [Readers -> Nat]
      /\ handled \in [Readers -> Seq(Nat \union {Blank})]
      /\ gone \in [Readers -> Nat]
      /\ crashes \in Nat
  BY DEF IInv, TypeOK
<1>1. CASE SEAM_W
  <2>1. /\ w_seq' = w_seq + 1
        /\ slot' = [slot EXCEPT ![w_seq % Slots] = w_seq]
        /\ UNCHANGED <<r_seq, dropped, inbox, worked, handled, gone, crashes>>
    BY <1>1 DEF SEAM_W, hist
  <2>k. PICK k \in 0..(Slots - 1) : k = w_seq % Slots /\ slot' = [slot EXCEPT ![k] = w_seq]
    BY <1>w, <2>1, SlotRange
  <2>2. TypeOK'
    <3>1. slot' \in [0..(Slots - 1) -> Nat \union {Blank}] /\ w_seq' \in Nat
      BY <1>w, <2>1, <2>k
    <3>2. QED
      BY <1>t, <2>1, <3>1 DEF TypeOK
  <2>3. Window'
    <3> SUFFICES ASSUME NEW s \in 0..w_seq, s >= w_seq + 1 - Slots
                 PROVE  slot'[s % Slots] = s
      <4>1. w_seq' - 1 = w_seq /\ \A s \in Nat : s >= w_seq' - Slots <=> s >= w_seq + 1 - Slots
        BY <1>w, <2>1, SlotsAssumption
      <4>2. QED
        BY <4>1 DEF Window
    <3>1. s \in Nat /\ s % Slots \in 0..(Slots - 1) /\ w_seq % Slots \in 0..(Slots - 1)
      BY <1>w, SlotRange
    <3>2. CASE s = w_seq
      BY <1>w, <2>k, <3>2
    <3>3. CASE s < w_seq
      <4>a. w_seq < s + Slots
        BY <1>w, <3>1, SlotsAssumption
      <4> DEFINE j == s % Slots
      <4>b. j \in 0..(Slots - 1)
        BY <3>1
      <4>1. j # w_seq % Slots
        BY <1>w, <3>1, <3>3, <4>a, SlotDistinct, Zenon
      <4>c. s \in 0..(w_seq - 1) /\ s >= w_seq - Slots
        BY <1>w, <3>1, <3>3, SlotsAssumption
      <4>2. slot[j] = s
        BY <4>c DEF IInv, Window
      <4> HIDE DEF j
      <4>3. slot'[j] = s
        BY <1>w, <2>k, <4>b, <4>1, <4>2
      <4>4. QED
        BY <4>3 DEF j
    <3>4. QED
      BY <1>w, <3>1, <3>2, <3>3
  <2>4. HeldRun'
    BY <1>t, <2>1 DEF IInv, HeldRun, Current
  <2>5. QED
    BY <2>2, <2>3, <2>4 DEF IInv
<1>2. ASSUME NEW r \in Takers, SEAM_R(r) PROVE IInv'
  <2>1. r \in Readers
    BY DEF Readers
  <2>2. PICK maxrec \in 1..MaxRec :
          /\ Avail(r, maxrec) > 0
          /\ inbox' = [inbox EXCEPT ![r] = Copy(r, Avail(r, maxrec))]
          /\ dropped' = [dropped EXCEPT ![r] = @ + Overrun(r)]
          /\ r_seq' = [r_seq EXCEPT ![r] = Oldest(r) + Avail(r, maxrec)]
    BY <1>2 DEF SEAM_R
  <2> DEFINE n == Avail(r, maxrec)
  <2>3. n \in Nat /\ Oldest(r) + n <= w_seq /\ Oldest(r) \in Nat /\ Overrun(r) \in Nat
    BY <2>1, AvailBound, OldestInRing
  <2>4. /\ Copy(r, n) \in Seq(Nat \union {Blank})
        /\ Len(Copy(r, n)) = n
        /\ \A i \in 1..n : Copy(r, n)[i] = Oldest(r) + i - 1
    BY <2>1, <2>3, CopyIsRun
  <2> HIDE DEF n
  <2>5. UNCHANGED <<w_seq, slot, worked, handled, gone, crashes>>
    BY <1>2 DEF SEAM_R, hist
  <2>6. TypeOK'
    <3>1. inbox' \in [Readers -> Seq(Nat \union {Blank})]
      BY <1>t, <2>1, <2>2, <2>4 DEF n
    <3>2. dropped' \in [Readers -> Nat]
      BY <1>t, <2>1, <2>2, <2>3
    <3>3. r_seq' \in [Readers -> Nat]
      BY <1>t, <2>1, <2>2, <2>3 DEF n
    <3>4. QED
      BY <1>t, <2>5, <3>1, <3>2, <3>3 DEF TypeOK
  <2>7. Window'
    BY <2>5 DEF IInv, Window
  <2>8. HeldRun'
    <3> SUFFICES ASSUME NEW q \in Readers
                 PROVE  /\ Current(q)' >= 0
                        /\ Current(q)' + Len(inbox'[q]) <= w_seq'
                        /\ \A i \in 1..Len(inbox'[q]) : inbox'[q][i] = Current(q)' + i - 1
      BY DEF HeldRun
    <3>1. CASE q = r
      <4>1. inbox'[q] = Copy(r, n) /\ r_seq'[q] = Oldest(r) + n
        BY <2>1, <2>2, <3>1 DEF IInv, TypeOK, n
      <4>2. Current(q)' = Oldest(r)
        BY <4>1, <2>3, <2>4, <3>1, <1>2 DEF Current
      <4>3. QED
        BY <4>1, <4>2, <2>3, <2>4, <2>5
    <3>2. CASE q # r
      <4>1. inbox'[q] = inbox[q] /\ r_seq'[q] = r_seq[q] /\ worked'[q] = worked[q]
        BY <2>2, <2>5, <3>2 DEF IInv, TypeOK
      <4>2. QED
        BY <4>1, <2>5 DEF IInv, HeldRun, Current
    <3>3. QED
      BY <3>1, <3>2
  <2>9. QED
    BY <2>6, <2>7, <2>8 DEF IInv
<1>3. ASSUME NEW r \in Peekers, SEAM_Peek(r) PROVE IInv'
  <2>1. r \in Readers /\ r \notin Takers
    BY ReadersAssumption DEF Readers
  <2>2. PICK maxrec \in 1..MaxRec :
          /\ Avail(r, maxrec) > 0
          /\ inbox' = [inbox EXCEPT ![r] = Copy(r, Avail(r, maxrec))]
          /\ dropped' = [dropped EXCEPT ![r] = @ + Overrun(r)]
          /\ r_seq' = [r_seq EXCEPT ![r] = Oldest(r)]
    BY <1>3 DEF SEAM_Peek
  <2> DEFINE n == Avail(r, maxrec)
  <2>3. n \in Nat /\ Oldest(r) + n <= w_seq /\ Oldest(r) \in Nat /\ Overrun(r) \in Nat
    BY <2>1, AvailBound, OldestInRing
  <2>4. /\ Copy(r, n) \in Seq(Nat \union {Blank})
        /\ Len(Copy(r, n)) = n
        /\ \A i \in 1..n : Copy(r, n)[i] = Oldest(r) + i - 1
    BY <2>1, <2>3, CopyIsRun
  <2> HIDE DEF n
  <2>5. UNCHANGED <<w_seq, slot, worked, handled, gone, crashes>> /\ worked[r] = 0
    BY <1>3 DEF SEAM_Peek, hist
  <2>6. TypeOK'
    <3>1. inbox' \in [Readers -> Seq(Nat \union {Blank})]
      BY <1>t, <2>1, <2>2, <2>4 DEF n
    <3>2. dropped' \in [Readers -> Nat]
      BY <1>t, <2>1, <2>2, <2>3
    <3>3. r_seq' \in [Readers -> Nat]
      BY <1>t, <2>1, <2>2, <2>3 DEF n
    <3>4. QED
      BY <1>t, <2>5, <3>1, <3>2, <3>3 DEF TypeOK
  <2>7. Window'
    BY <2>5 DEF IInv, Window
  <2>8. HeldRun'
    <3> SUFFICES ASSUME NEW q \in Readers
                 PROVE  /\ Current(q)' >= 0
                        /\ Current(q)' + Len(inbox'[q]) <= w_seq'
                        /\ \A i \in 1..Len(inbox'[q]) : inbox'[q][i] = Current(q)' + i - 1
      BY DEF HeldRun
    <3>1. CASE q = r
      <4>1. inbox'[q] = Copy(r, n) /\ r_seq'[q] = Oldest(r)
        BY <2>1, <2>2, <3>1 DEF IInv, TypeOK, n
      <4>2. Current(q)' = Oldest(r)
        BY <4>1, <2>1, <2>3, <2>5, <3>1 DEF Current
      <4>3. QED
        BY <4>1, <4>2, <2>3, <2>4, <2>5
    <3>2. CASE q # r
      <4>1. inbox'[q] = inbox[q] /\ r_seq'[q] = r_seq[q] /\ worked'[q] = worked[q]
        BY <2>2, <2>5, <3>2 DEF IInv, TypeOK
      <4>2. QED
        BY <4>1, <2>5 DEF IInv, HeldRun, Current
    <3>3. QED
      BY <3>1, <3>2
  <2>9. QED
    BY <2>6, <2>7, <2>8 DEF IInv
<1>4. ASSUME NEW r \in Peekers, SEAM_Commit(r) PROVE IInv'
  <2>1. r \in Readers /\ r \notin Takers
    BY ReadersAssumption DEF Readers
  <2>2. r_seq[r] + worked[r] <= w_seq
    <3>1. Current(r) + Len(inbox[r]) <= w_seq /\ Current(r) = r_seq[r] + worked[r]
      BY <2>1 DEF IInv, HeldRun, Current
    <3>2. Len(inbox[r]) \in Nat /\ r_seq[r] + worked[r] \in Nat
      BY <1>t, <2>1
    <3>3. QED
      BY <1>w, <3>1, <3>2
  <2>3. /\ r_seq' = [r_seq EXCEPT ![r] = r_seq[r] + worked[r]]
        /\ worked' = [worked EXCEPT ![r] = 0]
        /\ inbox' = [inbox EXCEPT ![r] = <<>>]
        /\ UNCHANGED <<w_seq, slot, dropped, handled, gone, crashes>>
    <3> DEFINE to == r_seq[r] + worked[r]
    <3>1. r_seq' = [r_seq EXCEPT ![r] = IF to > w_seq THEN w_seq ELSE to]
      BY <1>4 DEF SEAM_Commit
    <3>2. to \in Nat /\ to <= w_seq
      BY <1>t, <2>1, <2>2
    <3>3. r_seq' = [r_seq EXCEPT ![r] = to]
      <4> HIDE DEF to
      <4>1. ~(to > w_seq)
        BY <1>w, <3>2
      <4>2. QED
        BY <3>1, <4>1
    <3>4. QED
      BY <1>4, <3>3 DEF SEAM_Commit, hist
  <2>4. TypeOK'
    <3>1. r_seq' \in [Readers -> Nat] /\ worked' \in [Readers -> Nat]
      BY <1>t, <2>1, <2>3
    <3>2. inbox' \in [Readers -> Seq(Nat \union {Blank})]
      BY <1>t, <2>1, <2>3
    <3>3. QED
      BY <1>t, <2>3, <3>1, <3>2 DEF TypeOK
  <2>5. Window'
    BY <2>3 DEF IInv, Window
  <2>6. HeldRun'
    <3> SUFFICES ASSUME NEW q \in Readers
                 PROVE  /\ Current(q)' >= 0
                        /\ Current(q)' + Len(inbox'[q]) <= w_seq'
                        /\ \A i \in 1..Len(inbox'[q]) : inbox'[q][i] = Current(q)' + i - 1
      BY DEF HeldRun
    <3>1. CASE q = r
      <4>1. inbox'[q] = <<>> /\ Current(q)' = r_seq[r] + worked[r] + 0
        BY <1>t, <2>1, <2>3, <3>1 DEF Current
      <4>2. QED
        BY <1>t, <2>1, <2>2, <2>3, <4>1
    <3>2. CASE q # r
      <4>1. inbox'[q] = inbox[q] /\ r_seq'[q] = r_seq[q] /\ worked'[q] = worked[q]
        BY <1>t, <2>3, <3>2
      <4>2. QED
        BY <4>1, <2>3 DEF IInv, HeldRun, Current
    <3>3. QED
      BY <3>1, <3>2
  <2>7. QED
    BY <2>4, <2>5, <2>6 DEF IInv
<1>5. ASSUME NEW r \in Readers, Work(r),
             UNCHANGED <<w_seq, r_seq, dropped, slot, gone, crashes>>,
             IF r \in Takers THEN worked' = worked
                             ELSE worked' = [worked EXCEPT ![r] = @ + 1]
      PROVE  IInv'
  <2>1. /\ inbox[r] # <<>> /\ inbox[r] \in Seq(Nat \union {Blank})
        /\ inbox' = [inbox EXCEPT ![r] = Tail(inbox[r])]
        /\ handled' = [handled EXCEPT ![r] = Append(handled[r], Head(inbox[r]))]
    BY <1>t, <1>5 DEF Work
  <2>2. /\ Tail(inbox[r]) \in Seq(Nat \union {Blank})
        /\ Head(inbox[r]) \in Nat \union {Blank}
        /\ Len(Tail(inbox[r])) = Len(inbox[r]) - 1
        /\ Len(inbox[r]) \in Nat
        /\ \A i \in 1..(Len(inbox[r]) - 1) : Tail(inbox[r])[i] = inbox[r][i + 1]
    BY <2>1
  <2>3. TypeOK'
    <3>1. inbox' \in [Readers -> Seq(Nat \union {Blank})]
      BY <1>t, <2>1, <2>2
    <3>2. handled' \in [Readers -> Seq(Nat \union {Blank})]
      BY <1>t, <2>1, <2>2
    <3>3. worked' \in [Readers -> Nat]
      <4>1. CASE r \in Takers
        BY <1>t, <1>5, <4>1
      <4>2. CASE r \notin Takers
        <5>1. worked' = [worked EXCEPT ![r] = worked[r] + 1]
          BY <1>5, <4>2, Zenon
        <5>2. worked \in [Readers -> Nat] /\ worked[r] + 1 \in Nat
          BY <1>t
        <5>3. QED
          BY <5>1, <5>2
      <4>3. QED
        BY <4>1, <4>2
    <3>4. QED
      BY <1>t, <1>5, <3>1, <3>2, <3>3 DEF TypeOK
  <2>4. Window'
    BY <1>5 DEF IInv, Window
  <2>5. HeldRun'
    <3> SUFFICES ASSUME NEW q \in Readers
                 PROVE  /\ Current(q)' >= 0
                        /\ Current(q)' + Len(inbox'[q]) <= w_seq'
                        /\ \A i \in 1..Len(inbox'[q]) : inbox'[q][i] = Current(q)' + i - 1
      BY DEF HeldRun
    <3>1. CASE q = r
      <4>1. inbox'[q] = Tail(inbox[r])
        BY <1>t, <2>1, <3>1
      <4>2. Current(q)' = Current(r) + 1
        <5>1. CASE r \in Takers
          BY <1>t, <1>5, <2>2, <3>1, <4>1, <5>1 DEF Current
        <5>2. CASE r \notin Takers
          BY <1>t, <1>5, <3>1, <5>2 DEF Current
        <5>3. QED
          BY <5>1, <5>2
      <4>3. /\ Current(r) >= 0 /\ Current(r) + Len(inbox[r]) <= w_seq
            /\ \A i \in 1..Len(inbox[r]) : inbox[r][i] = Current(r) + i - 1
        BY DEF IInv, HeldRun
      <4>4. Current(r) \in Int
        BY <1>t, <2>2 DEF Current
      <4>5. QED
        BY <1>w, <1>5, <2>2, <4>1, <4>2, <4>3, <4>4
    <3>2. CASE q # r
      <4>1. inbox'[q] = inbox[q] /\ r_seq'[q] = r_seq[q] /\ worked'[q] = worked[q]
        BY <1>t, <1>5, <2>1, <3>2
      <4>2. QED
        BY <4>1, <1>5 DEF IInv, HeldRun, Current
    <3>3. QED
      BY <3>1, <3>2
  <2>6. QED
    BY <2>3, <2>4, <2>5 DEF IInv
<1>6. ASSUME NEW r \in Readers, Restart(r) PROVE IInv'
  <2>1. /\ inbox' = [inbox EXCEPT ![r] = <<>>]
        /\ worked' = [worked EXCEPT ![r] = 0]
        /\ gone' = [gone EXCEPT ![r] = IF r \in Takers THEN @ + Len(inbox[r]) ELSE @]
        /\ crashes' = crashes + 1
        /\ UNCHANGED <<w_seq, r_seq, dropped, slot, handled>>
    BY <1>6 DEF Restart, shm
  <2>2. r_seq[r] <= w_seq /\ r_seq[r] \in Nat /\ Len(inbox[r]) \in Nat
    BY <1>t, OldestInRing
  <2>3. TypeOK'
    <3>1. inbox' \in [Readers -> Seq(Nat \union {Blank})]
      BY <1>t, <2>1
    <3>2. gone' \in [Readers -> Nat] /\ worked' \in [Readers -> Nat] /\ crashes' \in Nat
      BY <1>t, <2>1, <2>2
    <3>3. QED
      BY <1>t, <2>1, <3>1, <3>2 DEF TypeOK
  <2>4. Window'
    BY <2>1 DEF IInv, Window
  <2>5. HeldRun'
    <3> SUFFICES ASSUME NEW q \in Readers
                 PROVE  /\ Current(q)' >= 0
                        /\ Current(q)' + Len(inbox'[q]) <= w_seq'
                        /\ \A i \in 1..Len(inbox'[q]) : inbox'[q][i] = Current(q)' + i - 1
      BY DEF HeldRun
    <3>1. CASE q = r
      <4>1. inbox'[q] = <<>> /\ Current(q)' = r_seq[r]
        BY <1>t, <2>1, <2>2, <3>1 DEF Current
      <4>2. QED
        BY <1>w, <2>1, <2>2, <4>1
    <3>2. CASE q # r
      <4>1. inbox'[q] = inbox[q] /\ r_seq'[q] = r_seq[q] /\ worked'[q] = worked[q]
        BY <1>t, <2>1, <3>2
      <4>2. QED
        BY <4>1, <2>1 DEF IInv, HeldRun, Current
    <3>3. QED
      BY <3>1, <3>2
  <2>6. QED
    BY <2>3, <2>4, <2>5 DEF IInv
<1>7. ASSUME NEW r \in Takers, Analyze_Data(r) PROVE IInv'
  BY <1>5, <1>7 DEF Analyze_Data, shm, Readers
<1>8. ASSUME NEW r \in Peekers, Analyze_Peeked(r) PROVE IInv'
  BY <1>5, <1>8, ReadersAssumption DEF Analyze_Peeked, shm, Readers
<1>9. CASE UNCHANGED vars
  BY <1>9 DEF IInv, TypeOK, Window, HeldRun, Current, vars
<1>10. QED
  BY <1>1, <1>2, <1>3, <1>4, <1>6, <1>7, <1>8, <1>9 DEF Next

\* The state of the ring is well typed, the slots hold the newest records and
\* what readers hold is a run of published records at their cursor.
THEOREM Invariance == Spec => []IInv
BY InitInv, StepInv, PTL DEF Spec

\* The values of every variable stay in their types.
THEOREM TypeCorrect == Spec => []TypeOK
<1>1. IInv => TypeOK
  BY DEF IInv
<1>2. QED
  BY <1>1, Invariance, PTL

\* No overwritten slot is ever read as a record: what SEAM_R and SEAM_Peek
\* hand out is the gapless run of published records at the reader's cursor.
THEOREM ReadsPublishedRun == Spec => []HeldRun
<1>1. IInv => HeldRun
  BY DEF IInv
<1>2. QED
  BY <1>1, Invariance, PTL

-------------------------------------------------------------------------------
\* Takers: at most once, in order, and every record accounted for

\* What one step does to a taker: either it works on the record it is at, or
\* it leaves its history alone and does not move backwards; the balance of
\* TakerAccounting moves with the history.
LEMMA TakerStep ==
  ASSUME IInv, [Next]_vars, NEW r \in Takers
  PROVE  \/ /\ handled'[r] = handled[r]
            /\ Current(r)' >= Current(r)
            /\ r_seq'[r] - Len(inbox'[r]) - dropped'[r] - gone'[r]
                 = r_seq[r] - Len(inbox[r]) - dropped[r] - gone[r]
         \/ /\ handled'[r] = Append(handled[r], Current(r))
            /\ Current(r)' = Current(r) + 1
            /\ r_seq'[r] - Len(inbox'[r]) - dropped'[r] - gone'[r]
                 = r_seq[r] - Len(inbox[r]) - dropped[r] - gone[r] + 1
<1>t. /\ w_seq \in Nat
      /\ r_seq \in [Readers -> Nat]
      /\ dropped \in [Readers -> Nat]
      /\ inbox \in [Readers -> Seq(Nat \union {Blank})]
      /\ handled \in [Readers -> Seq(Nat \union {Blank})]
      /\ gone \in [Readers -> Nat]
  BY DEF IInv, TypeOK
<1>r. r \in Readers
  BY DEF Readers
<1>n. /\ r_seq[r] \in Nat /\ dropped[r] \in Nat /\ gone[r] \in Nat
      /\ inbox[r] \in Seq(Nat \union {Blank}) /\ Len(inbox[r]) \in Nat
  BY <1>t, <1>r
<1>m. r_seq[r] \in Nat /\ dropped[r] \in Nat /\ gone[r] \in Nat
  BY <1>n
<1>0. ASSUME handled'[r] = handled[r], r_seq'[r] = r_seq[r], inbox'[r] = inbox[r],
             dropped'[r] = dropped[r], gone'[r] = gone[r]
      PROVE  /\ handled'[r] = handled[r]
             /\ Current(r)' >= Current(r)
             /\ r_seq'[r] - Len(inbox'[r]) - dropped'[r] - gone'[r]
                  = r_seq[r] - Len(inbox[r]) - dropped[r] - gone[r]
  BY <1>0, <1>n DEF Current
<1>1. CASE SEAM_W \/ UNCHANGED vars
  <2>1. UNCHANGED <<handled, r_seq, inbox, dropped, gone>>
    BY <1>1 DEF SEAM_W, hist, vars
  <2>2. QED
    BY <1>0, <2>1
<1>2. CASE SEAM_R(r)
  <2>1. PICK maxrec \in 1..MaxRec :
          /\ inbox' = [inbox EXCEPT ![r] = Copy(r, Avail(r, maxrec))]
          /\ dropped' = [dropped EXCEPT ![r] = @ + Overrun(r)]
          /\ r_seq' = [r_seq EXCEPT ![r] = Oldest(r) + Avail(r, maxrec)]
    BY <1>2 DEF SEAM_R
  <2> DEFINE n == Avail(r, maxrec)
  <2>2. n \in Nat /\ Len(Copy(r, n)) = n
    BY <1>r, AvailBound, CopyIsRun
  <2>3. /\ Overrun(r) \in Nat /\ Oldest(r) \in Nat
        /\ Oldest(r) = r_seq[r] + Overrun(r)
    BY <1>r, OldestInRing
  <2>4. /\ inbox[r] = <<>> /\ handled' = handled /\ gone' = gone
    BY <1>2 DEF SEAM_R, hist
  <2>5. /\ inbox'[r] = Copy(r, n) /\ dropped'[r] = dropped[r] + Overrun(r)
        /\ r_seq'[r] = Oldest(r) + n
    BY <1>t, <1>r, <2>1
  <2> HIDE DEF n
  <2>6. Current(r)' = Oldest(r) /\ Current(r) = r_seq[r]
    BY <1>n, <2>2, <2>3, <2>4, <2>5 DEF Current
  <2>7. QED
    BY <1>n, <2>2, <2>3, <2>4, <2>5, <2>6
<1>3. CASE Analyze_Data(r)
  <2>1. /\ inbox[r] # <<>>
        /\ inbox'[r] = Tail(inbox[r])
        /\ handled'[r] = Append(handled[r], Head(inbox[r]))
        /\ UNCHANGED <<r_seq, dropped, gone>>
    BY <1>t, <1>r, <1>3 DEF Analyze_Data, Work, shm
  <2>2. Len(inbox'[r]) = Len(inbox[r]) - 1 /\ Head(inbox[r]) = inbox[r][1]
        /\ Len(inbox[r]) >= 1
    BY <1>n, <2>1
  <2>3. inbox[r][1] = Current(r) /\ Current(r) \in Int
    <3>1. \A i \in 1..Len(inbox[r]) : inbox[r][i] = Current(r) + i - 1
      BY <1>r DEF IInv, HeldRun
    <3>2. Current(r) \in Int
      BY <1>n DEF Current
    <3>3. QED
      BY <1>n, <2>2, <3>1, <3>2
  <2>4. Current(r)' = Current(r) + 1
    BY <1>n, <2>1, <2>2 DEF Current
  <2> DEFINE l == Len(inbox[r])
             l1 == Len(inbox'[r])
  <2>5. r_seq'[r] - l1 - dropped'[r] - gone'[r] = r_seq[r] - l - dropped[r] - gone[r] + 1
    <3>1. r_seq'[r] = r_seq[r] /\ dropped'[r] = dropped[r] /\ gone'[r] = gone[r]
      BY <2>1
    <3>2. l \in Nat /\ l1 = l - 1
      BY <1>n, <2>2
    <3> HIDE DEF l, l1
    <3>3. QED
      BY <1>m, <3>1, <3>2
  <2>6. handled'[r] = Append(handled[r], Current(r))
    BY <2>1, <2>2, <2>3
  <2>7. QED
    BY <2>4, <2>5, <2>6, Zenon
<1>4. CASE Restart(r)
  <2>1. /\ inbox'[r] = <<>> /\ gone'[r] = gone[r] + Len(inbox[r])
        /\ UNCHANGED <<r_seq, dropped, handled>>
    BY <1>t, <1>r, <1>4 DEF Restart, shm
  <2>2. Current(r)' = r_seq[r] /\ Current(r) = r_seq[r] - Len(inbox[r])
    BY <1>n, <2>1 DEF Current
  <2>3. QED
    BY <1>n, <2>1, <2>2
<1>5. ASSUME NEW q \in Readers, q # r,
             \/ SEAM_R(q) \/ Analyze_Data(q) \/ Restart(q)
             \/ SEAM_Peek(q) \/ SEAM_Commit(q) \/ Analyze_Peeked(q)
      PROVE  /\ handled'[r] = handled[r] /\ r_seq'[r] = r_seq[r]
             /\ inbox'[r] = inbox[r] /\ dropped'[r] = dropped[r] /\ gone'[r] = gone[r]
  BY <1>t, <1>r, <1>5 DEF SEAM_R, Analyze_Data, Restart, SEAM_Peek, SEAM_Commit,
                         Analyze_Peeked, Work, shm, hist
<1>6. \A q \in Peekers : q \in Readers /\ q # r
  BY ReadersAssumption DEF Readers
<1>7. \A q \in Takers : q \in Readers
  BY DEF Readers
<1>8. \/ SEAM_W \/ UNCHANGED vars
      \/ SEAM_R(r) \/ Analyze_Data(r) \/ Restart(r)
      \/ \E q \in Readers : /\ q # r
                           /\ \/ SEAM_R(q) \/ Analyze_Data(q) \/ Restart(q)
                              \/ SEAM_Peek(q) \/ SEAM_Commit(q) \/ Analyze_Peeked(q)
  BY <1>6, <1>7, Zenon DEF Next
<1>9. CASE \E q \in Readers : /\ q # r
                           /\ \/ SEAM_R(q) \/ Analyze_Data(q) \/ Restart(q)
                              \/ SEAM_Peek(q) \/ SEAM_Commit(q) \/ Analyze_Peeked(q)
  BY <1>0, <1>5, <1>9
<1>10. QED
  BY <1>1, <1>2, <1>3, <1>4, <1>8, <1>9

\* A taker works on every record at most once and in order of publication,
\* however its process is restarted.
THEOREM TakersInOrder == Spec => []TakerOrder
<1>1. Init => TakerOrder
  BY DEF Init, TakerOrder, Readers
<1>2. IInv /\ TakerOrder /\ [Next]_vars => TakerOrder'
  <2> SUFFICES ASSUME IInv, TakerOrder, [Next]_vars, NEW r \in Takers
               PROVE  /\ \A i, j \in 1..Len(handled'[r]) :
                           i < j => handled'[r][i] < handled'[r][j]
                      /\ \A i \in 1..Len(handled'[r]) : handled'[r][i] < Current(r)'
    BY DEF TakerOrder
  <2> DEFINE h == handled[r]
             c == Current(r)
             d == Current(r)'
  <2>1. /\ \A i, j \in 1..Len(h) : i < j => h[i] < h[j]
        /\ \A i \in 1..Len(h) : h[i] < c
    BY DEF TakerOrder
  <2>2. h \in Seq(Nat \union {Blank}) /\ c \in Int
    BY DEF IInv, TypeOK, Readers, Current
  <2>3. Nat \union {Blank} \subseteq Int
    BY DEF Blank
  <2>4. d \in Int
    BY StepInv DEF IInv, TypeOK, Readers, Current
  <2>5. \A i \in 1..Len(h) : h[i] \in Int
    BY <2>2, <2>3
  <2>6. \/ handled'[r] = h /\ d >= c
        \/ handled'[r] = Append(h, c) /\ d = c + 1
    BY TakerStep
  <2> HIDE DEF h, c, d
  <2>7. CASE handled'[r] = h /\ d >= c
    BY <2>1, <2>2, <2>4, <2>5, <2>7 DEF d
  <2>8. CASE handled'[r] = Append(h, c) /\ d = c + 1
    <3>1. /\ Len(Append(h, c)) = Len(h) + 1 /\ Len(h) \in Nat
          /\ \A i \in 1..Len(h) : Append(h, c)[i] = h[i]
          /\ Append(h, c)[Len(h) + 1] = c
      BY <2>2
    <3>2. \A i \in 1..(Len(h) + 1) : Append(h, c)[i] <= c
      BY <2>1, <2>2, <2>5, <3>1
    <3>3. \A i, j \in 1..(Len(h) + 1) : i < j => Append(h, c)[i] < Append(h, c)[j]
      BY <2>1, <2>2, <2>5, <3>1
    <3>4. \A i \in 1..(Len(h) + 1) : Append(h, c)[i] \in Int
      BY <2>2, <2>5, <3>1
    <3>5. QED
      BY <2>2, <2>8, <3>1, <3>2, <3>3, <3>4 DEF d
  <2>9. QED
    BY <2>6, <2>7, <2>8
<1>3. QED
  BY <1>1, <1>2, Invariance, PTL DEF Spec

\* Every record a taker's cursor has passed was processed, is in its hands,
\* was counted as dropped or died with the process.
THEOREM TakersAccountForAll == Spec => []TakerAccounting
<1>1. Init => TakerAccounting
  BY DEF Init, TakerAccounting, Readers
<1>2. IInv /\ TakerAccounting /\ [Next]_vars => TakerAccounting'
  <2> SUFFICES ASSUME IInv, TakerAccounting, [Next]_vars, NEW r \in Takers
               PROVE  r_seq'[r] = Len(handled'[r]) + Len(inbox'[r]) + dropped'[r] + gone'[r]
    BY DEF TakerAccounting
  <2>1. r_seq[r] = Len(handled[r]) + Len(inbox[r]) + dropped[r] + gone[r]
    BY DEF TakerAccounting
  <2>2. /\ r_seq[r] \in Nat /\ dropped[r] \in Nat /\ gone[r] \in Nat
        /\ Len(inbox[r]) \in Nat /\ Len(handled[r]) \in Nat
        /\ handled[r] \in Seq(Nat \union {Blank})
    BY DEF IInv, TypeOK, Readers
  <2>3. /\ r_seq'[r] \in Nat /\ dropped'[r] \in Nat /\ gone'[r] \in Nat
        /\ Len(inbox'[r]) \in Nat
    BY StepInv DEF IInv, TypeOK, Readers
  <2>4. Current(r) \in Nat
    <3>1. Current(r) >= 0 /\ Current(r) = r_seq[r] - Len(inbox[r])
      BY DEF IInv, HeldRun, Current, Readers
    <3>2. QED
      BY <2>2, <3>1
  <2>5. Len(Append(handled[r], Current(r))) = Len(handled[r]) + 1
    BY <2>2, <2>4
  <2> DEFINE l == Len(inbox[r])
             l1 == Len(inbox'[r])
             h == Len(handled[r])
             h1 == Len(handled'[r])
  <2>6. \/ h1 = h /\ r_seq'[r] - l1 - dropped'[r] - gone'[r] = r_seq[r] - l - dropped[r] - gone[r]
        \/ h1 = h + 1 /\ r_seq'[r] - l1 - dropped'[r] - gone'[r]
                          = r_seq[r] - l - dropped[r] - gone[r] + 1
    BY <2>5, TakerStep
  <2>7. l \in Nat /\ l1 \in Nat /\ h \in Nat /\ h1 \in Nat
    BY <2>2, <2>3, StepInv DEF IInv, TypeOK, Readers
  <2>8. r_seq[r] = h + l + dropped[r] + gone[r]
    BY <2>1
  <2>9. r_seq'[r] = h1 + l1 + dropped'[r] + gone'[r]
    <3>1. /\ r_seq[r] \in Nat /\ dropped[r] \in Nat /\ gone[r] \in Nat
          /\ r_seq'[r] \in Nat /\ dropped'[r] \in Nat /\ gone'[r] \in Nat
      BY <2>2, <2>3
    <3> HIDE DEF l, l1, h, h1
    <3>2. r_seq[r] - l - dropped[r] - gone[r] = h
      BY <2>7, <2>8, <3>1
    <3>3. r_seq'[r] - l1 - dropped'[r] - gone'[r] = h1
      BY <2>6, <3>2
    <3>4. QED
      BY <2>7, <3>1, <3>3
  <2>10. QED
    BY <2>9
<1>3. QED
  BY <1>1, <1>2, Invariance, PTL DEF Spec

-------------------------------------------------------------------------------
\* Peekers: at least once

\* Records a reader has worked on, and those its cursor has passed without.
Done(r) == {handled[r][i] : i \in 1..Len(handled[r])}
Missing(r) == {s \in 0..(r_seq[r] - 1) : s \notin Done(r)}

\* What a peeker has worked on since its peek is what the commit will pass.
WorkedInv ==
  \A r \in Peekers : \A k \in 0..(worked[r] - 1) : r_seq[r] + k \in Done(r)

\* A cursor that moves from a to b over records that are done, but for c at
\* most, adds c to the missing ones at most.
LEMMA MissingBound ==
  ASSUME NEW a \in Nat, NEW b \in Nat, NEW c \in Nat, NEW D, NEW E,
         D \subseteq E, \A s \in a..(b - 1) : s \in E \/ s < a + c
  PROVE  /\ IsFiniteSet({s \in 0..(b - 1) : s \notin E})
         /\ Cardinality({s \in 0..(b - 1) : s \notin E})
              <= Cardinality({s \in 0..(a - 1) : s \notin D}) + c
<1> DEFINE M == {s \in 0..(a - 1) : s \notin D}
           N == {s \in 0..(b - 1) : s \notin E}
           I == a..(a + c - 1)
<1>1. IsFiniteSet(M)
  <2>1. IsFiniteSet(0..(a - 1)) /\ M \in SUBSET (0..(a - 1))
    BY FS_Interval
  <2> HIDE DEF M
  <2>2. QED
    BY <2>1, FS_Subset
<1>2. IsFiniteSet(I) /\ Cardinality(I) = c
  BY FS_Interval
<1>3. N \subseteq M \union I
  OBVIOUS
<1> HIDE DEF M, N, I
<1>4. /\ IsFiniteSet(M \union I)
      /\ Cardinality(M \union I) = Cardinality(M) + c - Cardinality(M \cap I)
  BY <1>1, <1>2, FS_Union
<1>5. IsFiniteSet(M \cap I)
  BY <1>1, FS_Subset, M \cap I \in SUBSET M
<1>6. Cardinality(M \cap I) \in Nat /\ Cardinality(M) \in Nat
  BY <1>1, <1>5, FS_CardinalityType
<1>7. IsFiniteSet(N) /\ Cardinality(N) <= Cardinality(M \union I)
  BY <1>3, <1>4, FS_Subset
<1>8. Cardinality(N) \in Nat
  BY <1>7, FS_CardinalityType
<1>9. Cardinality(N) <= Cardinality(M) + c
  BY <1>4, <1>6, <1>7, <1>8
<1>10. QED
  BY <1>7, <1>9 DEF M, N

\* Work only ever adds to what is done.
LEMMA AppendDone ==
  ASSUME NEW S, NEW h \in Seq(S), NEW x \in S
  PROVE  {Append(h, x)[i] : i \in 1..Len(Append(h, x))}
           = {h[i] : i \in 1..Len(h)} \union {x}
<1>1. /\ Len(Append(h, x)) = Len(h) + 1 /\ Len(h) \in Nat
      /\ \A i \in 1..Len(h) : Append(h, x)[i] = h[i]
      /\ Append(h, x)[Len(h) + 1] = x
  OBVIOUS
<1>2. 1..(Len(h) + 1) = 1..Len(h) \union {Len(h) + 1}
  BY <1>1
<1>3. QED
  BY <1>1, <1>2

\* What one step does to a peeker: its cursor passes records it has worked on
\* (a commit) or records that it enters in dropped (the jump of a peek).
LEMMA PeekerStep ==
  ASSUME IInv, WorkedInv, [Next]_vars, NEW r \in Peekers
  PROVE  /\ Done(r) \subseteq Done(r)'
         /\ \A k \in 0..(worked'[r] - 1) : r_seq'[r] + k \in Done(r)'
         /\ dropped'[r] - dropped[r] \in Nat
         /\ \A s \in r_seq[r]..(r_seq'[r] - 1) :
              s \in Done(r)' \/ s < r_seq[r] + (dropped'[r] - dropped[r])
<1>t. /\ w_seq \in Nat
      /\ r_seq \in [Readers -> Nat]
      /\ dropped \in [Readers -> Nat]
      /\ worked \in [Readers -> Nat]
      /\ inbox \in [Readers -> Seq(Nat \union {Blank})]
      /\ handled \in [Readers -> Seq(Nat \union {Blank})]
  BY DEF IInv, TypeOK
<1>r. r \in Readers /\ r \notin Takers
  BY ReadersAssumption DEF Readers
<1>n. /\ r_seq[r] \in Nat /\ dropped[r] \in Nat /\ worked[r] \in Nat
      /\ inbox[r] \in Seq(Nat \union {Blank})
      /\ handled[r] \in Seq(Nat \union {Blank})
  BY <1>t, <1>r
<1>w. \A k \in 0..(worked[r] - 1) : r_seq[r] + k \in Done(r)
  BY DEF WorkedInv
<1>0. ASSUME handled'[r] = handled[r], r_seq'[r] = r_seq[r],
             worked'[r] \in {0, worked[r]}, dropped'[r] = dropped[r]
      PROVE  /\ Done(r) \subseteq Done(r)'
             /\ \A k \in 0..(worked'[r] - 1) : r_seq'[r] + k \in Done(r)'
             /\ dropped'[r] - dropped[r] \in Nat
             /\ \A s \in r_seq[r]..(r_seq'[r] - 1) :
                  s \in Done(r)' \/ s < r_seq[r] + (dropped'[r] - dropped[r])
  <2>1. Done(r)' = Done(r)
    BY <1>0 DEF Done
  <2>2. \A k \in 0..(worked'[r] - 1) : k \in 0..(worked[r] - 1)
    BY <1>0, <1>n
  <2>3. \A k \in 0..(worked'[r] - 1) : r_seq'[r] + k \in Done(r)'
    BY <1>0, <1>w, <2>1, <2>2
  <2>4. dropped'[r] - dropped[r] = 0 /\ r_seq[r]..(r_seq'[r] - 1) = {}
    BY <1>0, <1>n
  <2>5. QED
    BY <2>1, <2>3, <2>4
<1>1. CASE SEAM_W \/ UNCHANGED vars
  <2>1. UNCHANGED <<handled, r_seq, worked, dropped>>
    BY <1>1 DEF SEAM_W, hist, vars
  <2>2. QED
    BY <1>0, <2>1
<1>2. CASE SEAM_Peek(r)
  <2>1. /\ dropped'[r] = dropped[r] + Overrun(r) /\ r_seq'[r] = Oldest(r)
        /\ worked[r] = 0 /\ worked' = worked /\ handled' = handled
    BY <1>t, <1>r, <1>2 DEF SEAM_Peek, hist
  <2>2. Overrun(r) \in Nat /\ Oldest(r) = r_seq[r] + Overrun(r)
    BY <1>r, OldestInRing
  <2>3. Done(r)' = Done(r)
    BY <2>1 DEF Done
  <2> HIDE DEF Overrun
  <2>4. dropped'[r] - dropped[r] = Overrun(r) /\ 0..(worked'[r] - 1) = {}
    BY <1>n, <2>1, <2>2
  <2>5. \A s \in r_seq[r]..(r_seq'[r] - 1) : s < r_seq[r] + Overrun(r)
    BY <1>n, <2>1, <2>2
  <2>6. QED
    BY <2>2, <2>3, <2>4, <2>5
<1>3. CASE Analyze_Peeked(r)
  <2>1. /\ inbox[r] # <<>>
        /\ handled'[r] = Append(handled[r], Head(inbox[r]))
        /\ worked'[r] = worked[r] + 1 /\ r_seq' = r_seq /\ dropped' = dropped
    BY <1>t, <1>r, <1>3 DEF Analyze_Peeked, Work, shm
  <2>2. Head(inbox[r]) = inbox[r][1] /\ Len(inbox[r]) >= 1
        /\ Len(inbox[r]) \in Nat /\ inbox[r][1] \in Nat \union {Blank}
    BY <1>n, <2>1
  <2>3. Head(inbox[r]) = r_seq[r] + worked[r]
    <3>1. \A i \in 1..Len(inbox[r]) : inbox[r][i] = Current(r) + i - 1
      BY <1>r DEF IInv, HeldRun
    <3>2. Current(r) = r_seq[r] + worked[r]
      BY <1>r DEF Current
    <3>3. QED
      BY <1>n, <2>2, <3>1, <3>2
  <2>4. Done(r)' = Done(r) \union {r_seq[r] + worked[r]}
    BY <1>n, <2>1, <2>2, <2>3, AppendDone DEF Done
  <2>5. \A k \in 0..(worked'[r] - 1) : r_seq'[r] + k \in Done(r)'
    <3>1. \A k \in 0..(worked'[r] - 1) : k \in 0..(worked[r] - 1) \/ k = worked[r]
      BY <1>n, <2>1
    <3>2. QED
      BY <1>w, <2>1, <2>4, <3>1
  <2>6. dropped'[r] - dropped[r] = 0 /\ r_seq[r]..(r_seq'[r] - 1) = {}
    BY <1>n, <2>1
  <2>7. QED
    BY <2>4, <2>5, <2>6
<1>4. CASE SEAM_Commit(r)
  <2>1. /\ worked'[r] = 0 /\ handled' = handled /\ dropped' = dropped
        /\ r_seq'[r] = r_seq[r] + worked[r] \/ r_seq'[r] = w_seq
        /\ r_seq'[r] <= r_seq[r] + worked[r]
    BY <1>t, <1>r, <1>4 DEF SEAM_Commit, hist
  <2>2. Done(r)' = Done(r)
    BY <2>1 DEF Done
  <2>3. r_seq'[r] \in Nat
    BY <1>t, <1>n, <2>1
  <2>4. \A s \in r_seq[r]..(r_seq'[r] - 1) : s \in Done(r)
    <3> SUFFICES ASSUME NEW s \in r_seq[r]..(r_seq'[r] - 1) PROVE s \in Done(r)
      OBVIOUS
    <3>1. s - r_seq[r] \in 0..(worked[r] - 1) /\ s = r_seq[r] + (s - r_seq[r])
      BY <1>n, <2>1, <2>3
    <3>2. QED
      BY <1>w, <3>1
  <2>5. dropped'[r] - dropped[r] = 0 /\ 0..(worked'[r] - 1) = {}
    BY <1>n, <2>1
  <2>6. QED
    BY <2>2, <2>4, <2>5
<1>5. CASE Restart(r)
  <2>1. worked'[r] = 0 /\ UNCHANGED <<r_seq, dropped, handled>>
    BY <1>t, <1>r, <1>5 DEF Restart, shm
  <2>2. QED
    BY <1>0, <2>1
<1>6. ASSUME NEW q \in Readers, q # r,
             \/ SEAM_R(q) \/ Analyze_Data(q) \/ Restart(q)
             \/ SEAM_Peek(q) \/ SEAM_Commit(q) \/ Analyze_Peeked(q)
      PROVE  /\ handled'[r] = handled[r] /\ r_seq'[r] = r_seq[r]
             /\ worked'[r] = worked[r] /\ dropped'[r] = dropped[r]
  BY <1>t, <1>r, <1>6 DEF SEAM_R, Analyze_Data, Restart, SEAM_Peek, SEAM_Commit,
                         Analyze_Peeked, Work, shm, hist
<1>7. \A q \in Takers : q \in Readers /\ q # r
  BY <1>r DEF Readers
<1>8. \A q \in Peekers : q \in Readers
  BY DEF Readers
<1>9. \/ SEAM_W \/ UNCHANGED vars
      \/ SEAM_Peek(r) \/ Analyze_Peeked(r) \/ SEAM_Commit(r) \/ Restart(r)
      \/ \E q \in Readers : /\ q # r
                           /\ \/ SEAM_R(q) \/ Analyze_Data(q) \/ Restart(q)
                              \/ SEAM_Peek(q) \/ SEAM_Commit(q) \/ Analyze_Peeked(q)
  BY <1>7, <1>8, Zenon DEF Next
<1>10. CASE \E q \in Readers : /\ q # r
                           /\ \/ SEAM_R(q) \/ Analyze_Data(q) \/ Restart(q)
                              \/ SEAM_Peek(q) \/ SEAM_Commit(q) \/ Analyze_Peeked(q)
  BY <1>0, <1>6, <1>10
<1>11. QED
  BY <1>1, <1>2, <1>3, <1>4, <1>5, <1>9, <1>10

PeekInv ==
  \A r \in Peekers : IsFiniteSet(Missing(r)) /\ Cardinality(Missing(r)) <= dropped[r]

\* At least once: the records a peeker has committed past without working on
\* them are no more than dropped counts, however often it is restarted.
THEOREM PeekersLoseNone == Spec => []PeekerNoLoss
<1>1. Init => WorkedInv /\ PeekInv
  <2> SUFFICES ASSUME Init, NEW r \in Peekers
               PROVE  /\ \A k \in 0..(worked[r] - 1) : r_seq[r] + k \in Done(r)
                      /\ IsFiniteSet(Missing(r))
                      /\ Cardinality(Missing(r)) <= dropped[r]
    BY DEF WorkedInv, PeekInv
  <2>1. worked[r] = 0 /\ r_seq[r] = 0 /\ dropped[r] = 0
    BY DEF Init, Readers
  <2>2. Missing(r) = {}
    BY <2>1 DEF Missing
  <2>3. QED
    BY <2>1, <2>2, FS_EmptySet
<1>2. IInv /\ WorkedInv /\ PeekInv /\ [Next]_vars => WorkedInv' /\ PeekInv'
  <2> SUFFICES ASSUME IInv, WorkedInv, PeekInv, [Next]_vars, NEW r \in Peekers
               PROVE  /\ \A k \in 0..(worked'[r] - 1) : r_seq'[r] + k \in Done(r)'
                      /\ IsFiniteSet(Missing(r)')
                      /\ Cardinality(Missing(r)') <= dropped'[r]
    BY DEF WorkedInv, PeekInv
  <2> DEFINE a == r_seq[r]
             b == r_seq'[r]
             c == dropped'[r] - dropped[r]
             D == Done(r)
             E == Done(r)'
  <2>1. a \in Nat /\ b \in Nat /\ dropped[r] \in Nat /\ dropped'[r] \in Nat
    BY StepInv DEF IInv, TypeOK, Readers
  <2>2. /\ D \subseteq E /\ c \in Nat
        /\ \A s \in a..(b - 1) : s \in E \/ s < a + c
        /\ \A k \in 0..(worked'[r] - 1) : r_seq'[r] + k \in Done(r)'
    BY PeekerStep
  <2>3. Missing(r) = {s \in 0..(a - 1) : s \notin D}
        /\ Missing(r)' = {s \in 0..(b - 1) : s \notin E}
    BY DEF Missing
  <2> HIDE DEF a, b, D, E
  <2>4. /\ IsFiniteSet(Missing(r)')
        /\ Cardinality(Missing(r)') <= Cardinality(Missing(r)) + c
    <3>1. D \subseteq E /\ c \in Nat /\ \A s \in a..(b - 1) : s \in E \/ s < a + c
      BY <2>2
    <3> HIDE DEF c
    <3>2. /\ IsFiniteSet({s \in 0..(b - 1) : s \notin E})
          /\ Cardinality({s \in 0..(b - 1) : s \notin E})
               <= Cardinality({s \in 0..(a - 1) : s \notin D}) + c
      BY <2>1, <3>1, MissingBound
    <3>3. QED
      BY <2>3, <3>2
  <2>5. IsFiniteSet(Missing(r)) /\ Cardinality(Missing(r)) <= dropped[r]
    BY DEF PeekInv
  <2>6. Cardinality(Missing(r)) \in Nat /\ Cardinality(Missing(r)') \in Nat
    BY <2>4, <2>5, FS_CardinalityType
  <2>7. QED
    BY <2>1, <2>2, <2>4, <2>5, <2>6
<1>3. PeekInv => PeekerNoLoss
  BY DEF PeekInv, PeekerNoLoss, Missing, Done
<1>4. QED
  BY <1>1, <1>2, <1>3, Invariance, PTL DEF Spec

-------------------------------------------------------------------------------
\* The ring implements the unbounded log

\* A read hands out the run of the log that starts at the jumped cursor.
LEMMA ReadIsRun ==
  ASSUME IInv, NEW r \in Readers, NEW maxrec \in 1..MaxRec, Avail(r, maxrec) > 0
  PROVE  /\ Overrun(r) \in 0..w_seq
         /\ Avail(r, maxrec) \in 1..w_seq
         /\ Log!MayPassOver(r, Overrun(r))
         /\ r_seq[r] + Overrun(r) + Avail(r, maxrec) <= w_seq
         /\ Copy(r, Avail(r, maxrec)) = Log!Run(r_seq[r] + Overrun(r), Avail(r, maxrec))
<1>1. /\ Avail(r, maxrec) \in Nat /\ Oldest(r) + Avail(r, maxrec) <= w_seq
  BY AvailBound
<1>2. /\ r_seq[r] \in Nat /\ Overrun(r) \in Nat /\ Oldest(r) = r_seq[r] + Overrun(r)
  BY OldestInRing
<1>3. w_seq \in Nat
  BY DEF IInv, TypeOK
<1>4. Log!MayPassOver(r, Overrun(r))
  BY <1>2, <1>3, SlotsAssumption DEF Log!MayPassOver, Overrun
<1>5. Copy(r, Avail(r, maxrec)) = [i \in 1..Avail(r, maxrec) |-> Oldest(r) + i - 1]
  BY <1>1, CopyIsRun
<1>6. QED
  BY <1>1, <1>2, <1>3, <1>4, <1>5 DEF Log!Run

\* Every step of the ring is a step of the log, or leaves the log as it is.
LEMMA StepRefines == IInv /\ [Next]_vars => [Log!Next]_(Log!vars)
<1> SUFFICES ASSUME IInv, [Next]_vars PROVE [Log!Next]_(Log!vars)
  OBVIOUS
<1>r. Readers = Takers \union Peekers /\ Log!Readers = Readers
  BY DEF Readers, Log!Readers
<1>1. CASE SEAM_W
  BY <1>1 DEF SEAM_W, hist, Log!Next, Log!Produce
<1>2. ASSUME NEW r \in Takers, SEAM_R(r) PROVE Log!Next
  <2>1. PICK maxrec \in 1..MaxRec :
          /\ Avail(r, maxrec) > 0
          /\ inbox' = [inbox EXCEPT ![r] = Copy(r, Avail(r, maxrec))]
          /\ dropped' = [dropped EXCEPT ![r] = @ + Overrun(r)]
          /\ r_seq' = [r_seq EXCEPT ![r] = Oldest(r) + Avail(r, maxrec)]
          /\ w_seq' = w_seq /\ worked' = worked /\ inbox[r] = <<>>
    BY <1>2 DEF SEAM_R
  <2>2. r \in Readers
    BY <1>r
  <2>3. Log!Take(r, Overrun(r), Avail(r, maxrec))
    BY <2>1, <2>2, ReadIsRun DEF Log!Take, Oldest
  <2>4. QED
    BY <2>1, <2>2, <2>3, ReadIsRun DEF Log!Next
<1>3. ASSUME NEW r \in Peekers, SEAM_Peek(r) PROVE Log!Next
  <2>1. PICK maxrec \in 1..MaxRec :
          /\ Avail(r, maxrec) > 0
          /\ inbox' = [inbox EXCEPT ![r] = Copy(r, Avail(r, maxrec))]
          /\ dropped' = [dropped EXCEPT ![r] = @ + Overrun(r)]
          /\ r_seq' = [r_seq EXCEPT ![r] = Oldest(r)]
          /\ w_seq' = w_seq /\ worked' = worked
          /\ inbox[r] = <<>> /\ worked[r] = 0
    BY <1>3 DEF SEAM_Peek
  <2>2. r \in Readers
    BY <1>r
  <2>3. Log!Show(r, Overrun(r), Avail(r, maxrec))
    BY <2>1, <2>2, ReadIsRun DEF Log!Show, Oldest
  <2>4. QED
    BY <2>1, <2>2, <2>3, ReadIsRun DEF Log!Next
<1>4. ASSUME NEW r \in Peekers, SEAM_Commit(r) PROVE Log!Next
  <2> DEFINE to == r_seq[r] + worked[r]
  <2>1. /\ worked[r] > 0
        /\ r_seq' = [r_seq EXCEPT ![r] = IF to > w_seq THEN w_seq ELSE to]
        /\ inbox' = [inbox EXCEPT ![r] = <<>>]
        /\ worked' = [worked EXCEPT ![r] = 0]
        /\ UNCHANGED <<w_seq, dropped>>
    BY <1>4 DEF SEAM_Commit
  <2>2. /\ r_seq[r] \in Nat /\ worked[r] \in Nat /\ w_seq \in Nat
        /\ Len(inbox[r]) \in Nat
    BY <1>r DEF IInv, TypeOK
  <2>3. to + Len(inbox[r]) <= w_seq
    BY <1>r, ReadersAssumption DEF IInv, HeldRun, Current
  <2>4. ~(to > w_seq) /\ worked[r] \in 1..w_seq
    BY <2>1, <2>2, <2>3
  <2>5. r_seq' = [r_seq EXCEPT ![r] = @ + worked[r]]
    BY <2>1, <2>4
  <2>6. Log!Advance(r, worked[r])
    BY <2>1, <2>2, <2>4, <2>5 DEF Log!Advance
  <2>7. QED
    BY <2>4, <2>6 DEF Log!Next
<1>5. ASSUME NEW r \in Takers, Analyze_Data(r) PROVE Log!Next
  <2>1. worked = [worked EXCEPT ![r] = IF r \in Peekers THEN @ + 1 ELSE @]
    BY <1>r, ReadersAssumption DEF IInv, TypeOK
  <2>2. Log!Finish(r)
    BY <1>5, <2>1 DEF Analyze_Data, Work, shm, Log!Finish
  <2>3. QED
    BY <1>r, <2>2 DEF Log!Next
<1>9. ASSUME NEW r \in Peekers, Analyze_Peeked(r) PROVE Log!Next
  <2>1. Log!Finish(r)
    BY <1>9 DEF Analyze_Peeked, Work, shm, Log!Finish
  <2>2. QED
    BY <1>r, <2>1 DEF Log!Next
<1>6. ASSUME NEW r \in Readers, Restart(r) PROVE Log!Next
  <2>1. Log!Forget(r)
    BY <1>6 DEF Restart, shm, Log!Forget
  <2>2. QED
    BY <1>r, <2>1 DEF Log!Next
<1>7. CASE UNCHANGED vars
  BY <1>7 DEF vars, Log!vars
<1>8. QED
  BY <1>r, <1>1, <1>2, <1>3, <1>4, <1>5, <1>6, <1>7, <1>9 DEF Next

\* The ring of any size, with any readers, implements the unbounded log: a
\* cursor passes over records it was never given only when those are more than
\* Slots old, each of them counted, and the commit of a peeking reader moves it
\* over records that the reader was shown and has processed.
THEOREM RingImplementsLog == Spec => ImplementsLog
<1>1. Init => Log!Init
  BY DEF Init, Log!Init, Readers, Log!Readers
<1>2. QED
  BY <1>1, StepRefines, Invariance, PTL DEF Spec, ImplementsLog, Log!Spec

-------------------------------------------------------------------------------
\* Induction, and sums over a sequence

\* Every set of natural numbers has a least one: the intervals 0..n are finite
\* sets, which strict inclusion orders well.
LEMMA Least ==
  ASSUME NEW T \in SUBSET Nat, T # {}
  PROVE  \E n \in T : \A m \in T : n <= m
<1> DEFINE R == StrictSubsetOrdering(Nat)
           F == {0..n : n \in T}
<1>1. \A n \in T : 0..n \in FiniteSubsetsOf(Nat)
  BY FS_Interval DEF FiniteSubsetsOf
<1>2. F \subseteq FiniteSubsetsOf(Nat) /\ F # {}
  BY <1>1
<1>3. IsWellFoundedOn(R, FiniteSubsetsOf(Nat))
  BY FS_StrictSubsetOrderingWellFounded
<1> HIDE DEF R
<1>4. \E x \in F : \A y \in F : <<y, x>> \notin R
  <2> HIDE DEF F
  <2>1. QED
    BY <1>2, <1>3, WFMin, Zenon
<1>5. PICK n \in T : \A m \in T : <<0..m, 0..n>> \notin R
  BY <1>4
<1>6. \A m \in T : n <= m
  <2>1. SUFFICES ASSUME NEW m \in T, m < n PROVE FALSE
    OBVIOUS
  <2>2. 0..m \subseteq 0..n /\ n \in 0..n /\ n \notin 0..m
    BY <2>1
  <2>3. <<0..m, 0..n>> \in R
    BY <2>2 DEF R, StrictSubsetOrdering
  <2>4. QED
    BY <1>5, <2>3
<1>7. QED
  BY <1>6

\* Induction, with the property as a set.
LEMMA Induction ==
  ASSUME NEW T \in SUBSET Nat, 0 \in T, \A n \in T : n + 1 \in T
  PROVE  \A n \in Nat : n \in T
<1>1. SUFFICES ASSUME Nat \ T # {} PROVE FALSE
  OBVIOUS
<1>2. PICK n \in Nat \ T : \A m \in Nat \ T : n <= m
  BY <1>1, Least
<1>3. n # 0 /\ n - 1 \in Nat
  BY <1>2
<1>4. n - 1 \in T
  BY <1>2, <1>3
<1>5. QED
  BY <1>2, <1>3, <1>4

\* f gives the sum of each prefix of w up to the n-th.
Sums(w, f, n) ==
  /\ f \in [0..n -> Nat]
  /\ f[0] = 0
  /\ \A k \in 1..n : f[k] = f[k - 1] + w[k]

\* Every sequence has such an f.
LEMMA SumsExist ==
  ASSUME NEW w \in Seq(Nat)
  PROVE  \E f : Sums(w, f, Len(w))
<1> DEFINE T == {n \in Nat : n <= Len(w) => \E f : Sums(w, f, n)}
<1>1. Len(w) \in Nat /\ \A k \in 1..Len(w) : w[k] \in Nat
  BY LenProperties, ElementOfSeq
<1>2. 0 \in T
  <2>1. Sums(w, [k \in 0..0 |-> 0], 0)
    BY DEF Sums
  <2>2. QED
    BY <2>1
<1>3. ASSUME NEW n \in T PROVE n + 1 \in T
  <2>1. SUFFICES ASSUME n + 1 <= Len(w)
                 PROVE  \E f : Sums(w, f, n + 1)
    OBVIOUS
  <2>2. PICK f : Sums(w, f, n)
    BY <1>1, <2>1
  <2> DEFINE g == [k \in 0..(n + 1) |-> IF k = n + 1 THEN f[n] + w[n + 1] ELSE f[k]]
  <2>3. g \in [0..(n + 1) -> Nat]
    BY <1>1, <2>1, <2>2 DEF Sums
  <2>4. g[0] = 0
    BY <2>2 DEF Sums
  <2>5. \A k \in 1..(n + 1) : g[k] = g[k - 1] + w[k]
    BY <1>1, <2>1, <2>2 DEF Sums
  <2>6. Sums(w, g, n + 1)
    BY <2>3, <2>4, <2>5 DEF Sums
  <2>7. QED
    BY <2>6
<1>4. Len(w) \in T
  <2> HIDE DEF T
  <2>1. T \in SUBSET Nat
    BY DEF T
  <2>2. QED
    BY <1>1, <1>2, <1>3, <2>1, Induction
<1>5. QED
  BY <1>1, <1>4

\* Any such f gives the total.
LEMMA TotalIsSum ==
  ASSUME NEW w \in Seq(Nat), NEW f, Sums(w, f, Len(w))
  PROVE  Total(w) = f[Len(w)] /\ Total(w) \in Nat
<1> DEFINE n == Len(w)
           Upto(g, k) == IF k = 0 THEN 0 ELSE g[k - 1] + w[k]
           Is(g) == g = [k \in 0..n |-> Upto(g, k)]
           s == CHOOSE g : Is(g)
<1>1. n \in Nat
  BY LenProperties
<1>2. Is(f)
  <2>1. \A k \in 0..n : f[k] = Upto(f, k)
    BY <1>1 DEF Sums
  <2>2. f = [k \in 0..n |-> f[k]]
    BY DEF Sums
  <2>3. QED
    BY <2>1, <2>2
<1>3. s = [k \in 0..n |-> Upto(s, k)]
  <2>1. Is(s)
    <3> HIDE DEF Is
    <3>1. QED
      BY <1>2, Zenon
  <2>2. QED
    BY <2>1
<1>4. s[0] = 0 /\ \A k \in 1..n : s[k] = s[k - 1] + w[k]
  <2> HIDE DEF s
  <2>1. \A k \in 0..n : s[k] = Upto(s, k)
    BY <1>3, Zenon
  <2>2. QED
    BY <1>1, <2>1
<1>5. \A k \in Nat : k <= n => s[k] = f[k]
  <2> HIDE DEF s
  <2> DEFINE T == {k \in Nat : k <= n => s[k] = f[k]}
  <2>1. 0 \in T
    BY <1>4 DEF Sums
  <2>2. ASSUME NEW k \in T PROVE k + 1 \in T
    <3>1. SUFFICES ASSUME k + 1 <= n PROVE s[k + 1] = f[k + 1]
      OBVIOUS
    <3>2. s[k] = f[k] /\ k + 1 \in 1..n /\ (k + 1) - 1 = k
      BY <1>1, <3>1
    <3>3. s[k + 1] = s[k] + w[k + 1] /\ f[k + 1] = f[k] + w[k + 1]
      BY <1>4, <3>2 DEF Sums
    <3>4. QED
      BY <3>2, <3>3
  <2>3. \A k \in Nat : k \in T
    <3> HIDE DEF T
    <3>1. T \in SUBSET Nat
      BY DEF T
    <3>2. QED
      BY <2>1, <2>2, <3>1, Induction
  <2>4. QED
    BY <2>3
<1>6. Total(w) = s[n]
  BY Zenon DEF Total
<1>7. QED
  BY <1>1, <1>5, <1>6 DEF Sums

\* The total of a sequence of natural numbers is one.
LEMMA TotalType ==
  ASSUME NEW w \in Seq(Nat)
  PROVE  Total(w) \in Nat
BY SumsExist, TotalIsSum

\* Nothing adds up to nothing.
LEMMA TotalEmpty == Total(<<>>) = 0
<1>1. <<>> \in Seq(Nat) /\ Len(<<>>) = 0
  OBVIOUS
<1>2. PICK f : Sums(<<>>, f, 0)
  BY <1>1, SumsExist
<1>3. QED
  BY <1>1, <1>2, TotalIsSum DEF Sums

\* A number at the end adds itself to the total.
LEMMA TotalAppend ==
  ASSUME NEW w \in Seq(Nat), NEW x \in Nat
  PROVE  Total(Append(w, x)) = Total(w) + x
<1> DEFINE v == Append(w, x)
           n == Len(w)
<1>1. /\ v \in Seq(Nat) /\ Len(v) = n + 1 /\ n \in Nat
      /\ v[n + 1] = x /\ \A k \in 1..n : v[k] = w[k]
  BY AppendProperties, LenProperties
<1> HIDE DEF v
<1>2. PICK f : Sums(v, f, n + 1)
  BY <1>1, SumsExist
<1> DEFINE g == [k \in 0..n |-> f[k]]
<1>3. Sums(w, g, n)
  BY <1>1, <1>2 DEF Sums
<1>4. f[n + 1] = f[n] + x /\ g[n] = f[n]
  <2>1. n + 1 \in 1..(n + 1) /\ (n + 1) - 1 = n /\ n \in 0..n
    BY <1>1
  <2>2. f[n + 1] = f[(n + 1) - 1] + v[n + 1]
    BY <1>2, <2>1 DEF Sums
  <2>3. QED
    BY <1>1, <2>1, <2>2
<1>5. Total(v) = f[n + 1]
  BY <1>1, <1>2, TotalIsSum
<1>6. Total(w) = g[n]
  BY <1>3, TotalIsSum
<1>7. QED
  BY <1>4, <1>5, <1>6 DEF v

\* Without its first number a sequence adds up to that much less.
LEMMA TotalTail ==
  ASSUME NEW w \in Seq(Nat), w # <<>>
  PROVE  Total(w) = Head(w) + Total(Tail(w))
<1> DEFINE v == Tail(w)
           n == Len(w)
<1>1. /\ v \in Seq(Nat) /\ Len(v) = n - 1 /\ n \in Nat /\ n >= 1
      /\ Head(w) = w[1] /\ w[1] \in Nat /\ \A k \in 1..(n - 1) : v[k] = w[k + 1]
  BY HeadTailProperties, LenProperties, EmptySeq, ElementOfSeq
<1> HIDE DEF v
<1>2. PICK g : Sums(v, g, n - 1)
  BY <1>1, SumsExist
<1> DEFINE f == [k \in 0..n |-> IF k = 0 THEN 0 ELSE g[k - 1] + w[1]]
<1>3. f \in [0..n -> Nat] /\ f[0] = 0
  <2>1. ASSUME NEW k \in 0..n PROVE (IF k = 0 THEN 0 ELSE g[k - 1] + w[1]) \in Nat
    <3>1. CASE k = 0
      BY <3>1
    <3>2. CASE k # 0
      <4>1. k - 1 \in 0..(n - 1)
        BY <1>1, <2>1, <3>2
      <4>2. g[k - 1] \in Nat
        BY <1>2, <4>1 DEF Sums
      <4>3. QED
        BY <1>1, <3>2, <4>2
    <3>3. QED
      BY <3>1, <3>2
  <2>2. f \in [0..n -> Nat]
    BY <2>1
  <2>3. 0 \in 0..n
    BY <1>1
  <2>4. QED
    BY <2>2, <2>3
<1>4. ASSUME NEW k \in 1..n PROVE f[k] = f[k - 1] + w[k]
  <2>1. CASE k = 1
    BY <1>1, <1>2, <2>1 DEF Sums
  <2>2. CASE k # 1
    <3>1. k - 1 \in 1..(n - 1) /\ (k - 1) + 1 = k /\ k - 1 # 0 /\ k # 0
      BY <1>1, <2>2
    <3>2. g[k - 1] = g[(k - 1) - 1] + v[k - 1] /\ v[k - 1] = w[k]
      BY <1>1, <1>2, <3>1 DEF Sums
    <3>3. f[k] = g[k - 1] + w[1] /\ f[k - 1] = g[(k - 1) - 1] + w[1]
      BY <1>1, <3>1
    <3>4. g[(k - 1) - 1] \in Nat /\ w[k] \in Nat
      <4>1. (k - 1) - 1 \in 0..(n - 1)
        BY <1>1, <3>1
      <4>2. QED
        BY <1>2, <4>1, ElementOfSeq DEF Sums
    <3>5. QED
      BY <1>1, <3>2, <3>3, <3>4
  <2>3. QED
    BY <2>1, <2>2
<1>5. Sums(w, f, n)
  BY <1>3, <1>4 DEF Sums
<1>6. f[n] = g[n - 1] + w[1] /\ g[n - 1] \in Nat
  <2>1. n \in 0..n /\ n # 0 /\ n - 1 \in 0..(n - 1)
    BY <1>1
  <2>2. QED
    BY <1>2, <2>1 DEF Sums
<1>7. Total(w) = f[n]
  BY <1>5, TotalIsSum
<1>8. Total(v) = g[n - 1]
  BY <1>1, <1>2, TotalIsSum
<1>9. QED
  BY <1>1, <1>6, <1>7, <1>8 DEF v

-------------------------------------------------------------------------------
\* Types of the table

\* Where a process can be that is not idle.
Places == {"seek", "count", "jan", "no", "find", "check",
           "load", "store", "zero", "dec", "book"}

\* A message that says which order it reduces.
Message == {m \in Msg : Target(m) \in Orders}

\* A process that is doing something.
Working == [pc : Places, msg : Message, i : TableSlots, reg : Int,
            retry : 0..(MaxRetry + 1)]

\* TypeOK, but for the bound on what is booked.
Types ==
  /\ tab \in [TableSlots -> [no : Orders \union {Nobody}, jan : Int]]
  /\ MeChe_Cnt \in Int
  /\ queue \in [Proc -> Seq(Message)]
  /\ me \in [Proc -> Working \union {Idle}]
  /\ midx \in [Proc ->
                [0..(Hash - 1) -> [key : Orders \union {NoKey},
                                   slot : TableSlots \union {NoSlot}]]]
  /\ booked \in [Orders -> Nat]
  /\ rem \in [Orders -> 0..Quantity]
  /\ given \in 0..MaxOrders /\ reports \in 0..MaxReports
  /\ known \subseteq Orders
  /\ spilt \in BOOLEAN /\ deaths \in 0..MaxDeaths

\* What the assumptions say, without the names.
LEMMA ConstantFacts ==
  /\ Keys = Orders /\ MaxOrders \in Nat /\ MaxReports \in Nat
  /\ MaxRetry \in Nat /\ MaxDeaths \in Nat
  /\ MAX_MICHE \in Nat /\ MAX_MICHE > 0 /\ Quantity \in Nat /\ Quantity > 0
  /\ Hash \in Nat /\ Hash > 0 /\ Probe \in 1..Hash
  /\ Home \in [Orders -> 0..(Hash - 1)]
BY KeysAssumption, HashAssumption, TableAssumption, TableBounds
   DEF Orders

\* The smallest element of a set of slots, places or probes is one of them.
LEMMA MinIn ==
  ASSUME NEW S \in SUBSET Nat, S # {}
  PROVE  Min(S) \in S
<1>1. \E n \in S : \A m \in S : n <= m
  BY Least
<1>2. QED
  BY <1>1, Zenon DEF Min

\* A process that is doing something is one with a message and a place.
LEMMA Busy ==
  ASSUME Types, NEW p \in Proc
  PROVE  /\ me[p] \in Working <=> me[p].pc # "idle"
         /\ me[p] = Idle <=> me[p].pc = "idle"
         /\ me[p] \in Working =>
              /\ me[p].pc \in Places /\ me[p].msg \in Message
              /\ me[p].i \in TableSlots /\ me[p].reg \in Int
              /\ me[p].retry \in 0..(MaxRetry + 1)
BY DEF Types, Working, Places, Idle

\* Only process p has moved, and its place and locals are r.
Moved(p, r) ==
  /\ me' \in [Proc -> Working \union {Idle}]
  /\ me'[p] = r
  /\ \A q \in Proc \ {p} : me'[q] = me[q]

\* What Becomes does: p works on ...
LEMMA BecomesWorking ==
  ASSUME Types, NEW p \in Proc, NEW r \in Working, Becomes(p, r)
  PROVE  Moved(p, r)
<1>1. r.pc # "idle"
  BY DEF Working, Places
<1>2. me' = [me EXCEPT ![p] = r]
  BY <1>1 DEF Becomes
<1>3. QED
  BY <1>2 DEF Types, Moved

\* ... or comes to rest, without live locals.
LEMMA BecomesIdle ==
  ASSUME Types, NEW p \in Proc, NEW r, r.pc = "idle", Becomes(p, r)
  PROVE  Moved(p, Idle)
<1>1. me' = [me EXCEPT ![p] = Idle]
  BY DEF Becomes
<1>2. QED
  BY <1>1 DEF Types, Moved

\* What Goto does: p goes on to another place ...
LEMMA GoesOn ==
  ASSUME Types, NEW p \in Proc, me[p].pc # "idle",
         NEW place \in Places, Goto(p, place)
  PROVE  /\ [me[p] EXCEPT !.pc = place] \in Working
         /\ Moved(p, [me[p] EXCEPT !.pc = place])
<1>1. [me[p] EXCEPT !.pc = place] \in Working
  BY Busy DEF Working
<1>2. QED
  BY <1>1, BecomesWorking DEF Goto

\* ... or comes to rest.
LEMMA GoesIdle ==
  ASSUME Types, NEW p \in Proc, me[p].pc # "idle", Goto(p, "idle")
  PROVE  Moved(p, Idle)
<1>1. [me[p] EXCEPT !.pc = "idle"].pc = "idle"
  BY Busy DEF Working
<1>2. QED
  BY <1>1, BecomesIdle DEF Goto

\* What the cache and the scan return.
LEMMA PutType ==
  ASSUME Types, NEW p \in Proc, NEW o \in Orders,
         NEW s \in TableSlots, midx' = [midx EXCEPT ![p] = Put(@, o, s)]
  PROVE  midx' \in [Proc ->
                     [0..(Hash - 1) -> [key : Orders \union {NoKey},
                                        slot : TableSlots \union {NoSlot}]]]
BY DEF Types, Put

\* A cache entry names a slot or none.
LEMMA GetType ==
  ASSUME Types, NEW p \in Proc, NEW o \in Orders
  PROVE  Get(midx[p], o) \in TableSlots \union {NoSlot}
<1> DEFINE S == Stops(midx[p], o)
<1>1. \A n \in 0..(Probe - 1) : Place(o, n) \in 0..(Hash - 1)
  <2>1. TAKE n \in 0..(Probe - 1)
  <2>2. Home[o] + n \in Nat /\ Hash \in Nat /\ Hash > 0
    BY ConstantFacts
  <2>3. \A a \in Nat : a % Hash \in 0..(Hash - 1)
    BY <2>2
  <2>4. QED
    BY <2>2, <2>3 DEF Place
<1>2. S \subseteq 0..(Probe - 1) /\ 0..(Probe - 1) \subseteq Nat
  BY ConstantFacts DEF Stops
<1>3. CASE S = {}
  BY <1>3 DEF Get
<1>4. CASE S # {}
  <2>1. Min(S) \in 0..(Probe - 1)
    BY <1>2, <1>4, MinIn
  <2>2. Place(o, Min(S)) \in 0..(Hash - 1)
    BY <1>1, <2>1
  <2>3. midx[p][Place(o, Min(S))].slot \in TableSlots \union {NoSlot}
    <3>1. midx[p] \in [0..(Hash - 1) -> [key : Orders \union {NoKey},
                                        slot : TableSlots \union {NoSlot}]]
      BY DEF Types
    <3>2. midx[p][Place(o, Min(S))] \in
            [key : Orders \union {NoKey},
             slot : TableSlots \union {NoSlot}]
      BY <2>2, <3>1, Zenon
    <3>3. QED
      BY <3>2
  <2>4. QED
    BY <1>4, <2>3 DEF Get
<1>5. QED
  BY <1>3, <1>4

\* A search that finds a slot finds one that holds the order.
LEMMA LookupFinds ==
  ASSUME Types, NEW p \in Proc, NEW o \in Orders,
         Lookup(p, o) # NoSlot
  PROVE  Lookup(p, o) \in TableSlots /\ tab[Lookup(p, o)].no = o
<1>1. CASE Cached(p, o) # NoSlot
  BY <1>1, GetType DEF Lookup, Cached
<1>2. CASE Cached(p, o) = NoSlot
  <2>1. Lookup(p, o) = Scan(o)
    BY <1>2 DEF Lookup
  <2>2. Holds(o) # {} /\ Lookup(p, o) = Min(Holds(o))
    BY <2>1 DEF Scan
  <2>3. Holds(o) \subseteq Nat
    BY ConstantFacts DEF Holds, TableSlots
  <2>4. QED
    BY <2>2, <2>3, MinIn DEF Holds
<1>3. QED
  BY <1>1, <1>2

-------------------------------------------------------------------------------
\* What each step of a process does

\* p goes on to a place with its message and slot s, or comes to rest.
Goes(p, place, s) ==
  /\ me[p] \in Working /\ me'[p] \in Working
  /\ me'[p].pc = place /\ me'[p].msg = me[p].msg /\ me'[p].i = s
  /\ Moved(p, me'[p])

Rests(p) == me[p].pc # "idle" /\ Moved(p, Idle)

\* No message comes or goes, and the exchange does nothing.
Private == UNCHANGED <<queue, rem, given, reports>>

\* Analyze_Data takes the first message of the queue to its first place.
LEMMA DoesAnalyze ==
  ASSUME Types, NEW p \in Proc, TakeRecord(p)
  PROVE  /\ me[p].pc = "idle" /\ queue[p] # <<>> /\ Head(queue[p]) \in Message
         /\ queue' = [queue EXCEPT ![p] = Tail(@)]
         /\ \/ Moved(p, Idle)
            \/ /\ me'[p] \in Working /\ Moved(p, me'[p])
               /\ me'[p].pc = FirstPlace(Head(queue[p]))
               /\ me'[p].msg = Head(queue[p])
         /\ UNCHANGED <<tab, MeChe_Cnt, midx, booked, rem, given, reports,
                        known, spilt, deaths>>
<1> DEFINE m == Head(queue[p])
           r == [Idle EXCEPT !.pc = FirstPlace(m), !.msg = m]
<1>1. /\ me[p].pc = "idle" /\ queue[p] # <<>>
      /\ queue' = [queue EXCEPT ![p] = Tail(@)]
      /\ Becomes(p, r)
      /\ UNCHANGED <<tab, MeChe_Cnt, midx, booked, rem, given, reports,
                     known, spilt, deaths>>
  BY DEF TakeRecord, At, table, market
<1>2. m \in Message
  BY <1>1, HeadTailProperties DEF Types
<1>4. FirstPlace(m) \in {"seek", "idle", "find"}
  BY DEF FirstPlace
<1> HIDE DEF m
<1>5. CASE FirstPlace(m) = "idle"
  <2>1. r.pc = "idle"
    BY <1>5 DEF Idle
  <2>2. Moved(p, Idle)
    BY <1>1, <2>1, BecomesIdle
  <2>3. QED
    BY <1>1, <1>2, <2>2 DEF m
<1>6. CASE FirstPlace(m) # "idle"
  <2>1. 0 \in TableSlots /\ 0 \in 0..(MaxRetry + 1)
    BY ConstantFacts DEF TableSlots
  <2>2. FirstPlace(m) \in Places
    BY <1>4, <1>6 DEF Places
  <2>3. Idle \in [pc : {"idle"}, msg : {NoMsg}, i : TableSlots,
                        reg : Int, retry : 0..(MaxRetry + 1)]
    BY <2>1 DEF Idle
  <2>4. r \in Working /\ r.pc = FirstPlace(m) /\ r.msg = m
    <3>1. \A x \in [pc : {"idle"}, msg : {NoMsg}, i : TableSlots,
                    reg : Int, retry : 0..(MaxRetry + 1)] :
            LET y == [x EXCEPT !.pc = FirstPlace(m), !.msg = m]
            IN  y \in Working /\ y.pc = FirstPlace(m) /\ y.msg = m
      BY <1>2, <2>2 DEF Working
    <3>2. QED
      BY <2>3, <3>1
  <2>5. Moved(p, r)
    BY <1>1, <2>4, BecomesWorking
  <2>6. QED
    BY <1>1, <1>2, <2>4, <2>5 DEF Moved, m
<1>7. QED
  BY <1>5, <1>6

\* Seek picks a slot in which nothing is open.
LEMMA DoesSeek ==
  ASSUME Types, Seek
  PROVE  /\ me["MICHE"].pc = "seek"
         /\ \E s \in TableSlots : tab[s].jan <= 0 /\ Goes("MICHE", "count", s)
         /\ Private /\ UNCHANGED <<tab, MeChe_Cnt, midx, booked, known, spilt, deaths>>
<1> DEFINE free == {i \in TableSlots : tab[i].jan <= 0}
           s == Min(free)
           r == [me["MICHE"] EXCEPT !.pc = "count", !.i = s, !.reg = MeChe_Cnt]
<1>1. /\ me["MICHE"].pc = "seek" /\ free # {} /\ Becomes("MICHE", r)
      /\ Private /\ UNCHANGED <<tab, MeChe_Cnt, midx, booked, known, spilt, deaths>>
  BY DEF Seek, At, Local, table, market, Private
<1>2. s \in free
  <2>1. free \subseteq Nat
    BY ConstantFacts DEF TableSlots
  <2> HIDE DEF free
  <2>2. QED
    BY <1>1, <2>1, MinIn
<1>3. s \in TableSlots /\ tab[s].jan <= 0
  BY <1>2
<1> HIDE DEF s, free
<1>4. "MICHE" \in Proc /\ me["MICHE"] \in Working
  BY <1>1, Busy DEF Proc
<1>5. r \in Working /\ r.pc = "count" /\ r.msg = me["MICHE"].msg /\ r.i = s
  BY <1>3, <1>4 DEF Working, Places, Types
<1>6. Moved("MICHE", r)
  BY <1>1, <1>4, <1>5, BecomesWorking
<1>7. Goes("MICHE", "count", s)
  BY <1>4, <1>5, <1>6 DEF Goes, Moved
<1>8. QED
  BY <1>1, <1>3, <1>7

\* Count goes on with the slot.
LEMMA DoesCount ==
  ASSUME Types, Count
  PROVE  /\ me["MICHE"].pc = "count" /\ Goes("MICHE", "jan", me["MICHE"].i)
         /\ MeChe_Cnt' \in Int
         /\ Private /\ UNCHANGED <<tab, midx, booked, known, spilt, deaths>>
<1> DEFINE r == [me["MICHE"] EXCEPT !.pc = "jan", !.reg = 0]
<1>1. /\ me["MICHE"].pc = "count" /\ Becomes("MICHE", r)
      /\ MeChe_Cnt' = me["MICHE"].reg + 1
      /\ Private /\ UNCHANGED <<tab, midx, booked, known, spilt, deaths>>
  BY DEF Count, At, Local, market, Private
<1>2. "MICHE" \in Proc /\ me["MICHE"] \in Working
  BY <1>1, Busy DEF Proc
<1>3. /\ r \in Working /\ r.pc = "jan" /\ r.msg = me["MICHE"].msg
      /\ r.i = me["MICHE"].i /\ me["MICHE"].reg \in Int
  <2>1. "jan" \in Places /\ 0 \in Int
    BY DEF Places
  <2>2. \A n \in Int :
          LET x == [me["MICHE"] EXCEPT !.pc = "jan", !.reg = n]
          IN  x \in Working /\ x.pc = "jan" /\ x.msg = me["MICHE"].msg
              /\ x.i = me["MICHE"].i
    BY <1>2, <2>1 DEF Working
  <2>3. r \in Working /\ r.pc = "jan" /\ r.msg = me["MICHE"].msg /\ r.i = me["MICHE"].i
    BY <2>1, <2>2
  <2>4. QED
    BY <1>2, <2>3 DEF Working
<1>4. Moved("MICHE", r)
  BY <1>1, <1>2, <1>3, BecomesWorking
<1>5. QED
  BY <1>1, <1>2, <1>3, <1>4 DEF Goes, Moved

\* SetJan writes the quantity of the slot ...
LEMMA DoesSetJan ==
  ASSUME Types, SetJan
  PROVE  /\ me["MICHE"].pc = "jan" /\ Goes("MICHE", "no", me["MICHE"].i)
         /\ tab' = [tab EXCEPT ![me["MICHE"].i].jan = me["MICHE"].msg.qty]
         /\ Private /\ UNCHANGED <<MeChe_Cnt, midx, booked, known, spilt, deaths>>
<1>1. /\ me["MICHE"].pc = "jan" /\ Goto("MICHE", "no")
      /\ tab' = [tab EXCEPT ![me["MICHE"].i].jan = me["MICHE"].msg.qty]
      /\ Private /\ UNCHANGED <<MeChe_Cnt, midx, booked, known, spilt, deaths>>
  BY DEF SetJan, At, Local, market, Private
<1> DEFINE r == [me["MICHE"] EXCEPT !.pc = "no"]
<1>2. "MICHE" \in Proc /\ me["MICHE"] \in Working /\ "no" \in Places
  BY <1>1, Busy DEF Proc, Places
<1>3. r \in Working /\ Moved("MICHE", r)
  BY <1>1, <1>2, GoesOn
<1>4. r.pc = "no" /\ r.msg = me["MICHE"].msg /\ r.i = me["MICHE"].i
  BY <1>2 DEF Working
<1>5. QED
  BY <1>1, <1>2, <1>3, <1>4 DEF Goes, Moved

\* ... and SetNo the number, after which the order is known.
LEMMA DoesSetNo ==
  ASSUME Types, SetNo
  PROVE  /\ me["MICHE"].pc = "no"
         /\ \/ me["MICHE"].msg.kind = "modify" /\ Goes("MICHE", "find", me["MICHE"].i)
            \/ me["MICHE"].msg.kind # "modify" /\ Rests("MICHE")
         /\ tab' = [tab EXCEPT ![me["MICHE"].i].no = me["MICHE"].msg.no]
         /\ midx' = [midx EXCEPT !["MICHE"] =
                       Put(@, me["MICHE"].msg.no, me["MICHE"].i)]
         /\ known' = known \union {me["MICHE"].msg.no}
         /\ Private /\ UNCHANGED <<MeChe_Cnt, booked, spilt, deaths>>
<1>1. /\ me["MICHE"].pc = "no"
      /\ Goto("MICHE", IF me["MICHE"].msg.kind = "modify" THEN "find" ELSE "idle")
      /\ tab' = [tab EXCEPT ![me["MICHE"].i].no = me["MICHE"].msg.no]
      /\ midx' = [midx EXCEPT !["MICHE"] =
                    Put(@, me["MICHE"].msg.no, me["MICHE"].i)]
      /\ known' = known \union {me["MICHE"].msg.no}
      /\ Private /\ UNCHANGED <<MeChe_Cnt, booked, spilt, deaths>>
  BY DEF SetNo, At, Local, market, Private
<1> DEFINE r == [me["MICHE"] EXCEPT !.pc = "find"]
<1>2. "MICHE" \in Proc /\ me["MICHE"] \in Working /\ "find" \in Places
  BY <1>1, Busy DEF Proc, Places
<1>3. CASE me["MICHE"].msg.kind = "modify"
  <2>1. r \in Working /\ Moved("MICHE", r)
    BY <1>1, <1>2, <1>3, GoesOn
  <2>2. r.pc = "find" /\ r.msg = me["MICHE"].msg /\ r.i = me["MICHE"].i
    BY <1>2 DEF Working
  <2>3. QED
    BY <1>1, <1>2, <1>3, <2>1, <2>2 DEF Goes, Moved
<1>4. CASE me["MICHE"].msg.kind # "modify"
  <2>1. Moved("MICHE", Idle)
    BY <1>1, <1>2, <1>4, GoesIdle
  <2>2. QED
    BY <1>1, <1>4, <2>1 DEF Rests
<1>5. QED
  BY <1>3, <1>4

\* The order found is in slot me'[p].i.
LEMMA DoesFind ==
  ASSUME Types, NEW p \in Proc, Find(p)
  PROVE  /\ me[p].pc = "find"
         /\ \E s \in TableSlots :
              /\ tab[s].no = Target(me[p].msg)
              /\ Goes(p, "load", s) \/ Goes(p, "check", s)
         /\ midx' = midx \/ \E s \in TableSlots :
              midx' = [midx EXCEPT ![p] = Put(@, Target(me[p].msg), s)]
         /\ Private
         /\ UNCHANGED <<tab, MeChe_Cnt, booked, known, spilt, deaths>>
<1> DEFINE o == Target(me[p].msg)
           s == Lookup(p, o)
           place == IF me[p].msg.kind = "expire" THEN "load" ELSE "check"
           r == [me[p] EXCEPT !.i = s, !.retry = 0, !.pc = place]
<1>1. /\ me[p].pc = "find" /\ s # NoSlot
      /\ midx' = midx \/ midx' = [midx EXCEPT ![p] = Put(@, o, s)]
      /\ Becomes(p, r)
      /\ Private /\ UNCHANGED <<tab, MeChe_Cnt, booked, known, spilt, deaths>>
  BY DEF Find, At, Local, table, market, Private
<1>2. me[p] \in Working
  BY <1>1, Busy
<1>3. o \in Orders
  BY <1>2 DEF Working, Message
<1>4. s \in TableSlots /\ tab[s].no = o
  BY <1>1, <1>3, LookupFinds
<1> HIDE DEF s, o
<1>5. place \in {"load", "check"} /\ place \in Places
  BY DEF Places
<1> HIDE DEF place
<1>6. 0 \in 0..(MaxRetry + 1)
  BY ConstantFacts
<1>7. \A t \in 0..(MaxRetry + 1) :
        LET x == [me[p] EXCEPT !.i = s, !.retry = t, !.pc = place]
        IN  x \in Working /\ x.pc = place /\ x.msg = me[p].msg /\ x.i = s
  BY <1>2, <1>4, <1>5 DEF Working
<1>8. r \in Working /\ r.pc = place /\ r.msg = me[p].msg /\ r.i = s
  BY <1>6, <1>7
<1>9. Moved(p, r)
  BY <1>1, <1>8, BecomesWorking
<1>10. Goes(p, place, s)
  BY <1>2, <1>8, <1>9 DEF Goes, Moved
<1>11. Goes(p, "load", s) \/ Goes(p, "check", s)
  BY <1>5, <1>10
<1>12. QED
  BY <1>1, <1>4, <1>11 DEF o

\* A search given up ends the work on the message.
LEMMA DoesDrop ==
  ASSUME Types, NEW p \in Proc,
         \/ p = "MICHE" /\ NotFound
         \/ p = "LEDGER" /\ GiveUp
  PROVE  /\ Rests(p) /\ me[p].pc = "find"
         /\ Private /\ spilt' \in BOOLEAN
         /\ UNCHANGED <<tab, MeChe_Cnt, midx, booked, known, deaths>>
<1>1. /\ me[p].pc = "find" /\ Goto(p, "idle")
      /\ Private /\ spilt' \in BOOLEAN
      /\ UNCHANGED <<tab, MeChe_Cnt, midx, booked, known, deaths>>
  BY DEF NotFound, GiveUp, NotThere, At, market,
         table, Private
<1>2. QED
  BY <1>1, GoesIdle DEF Rests

\* Retry changes nothing but the count of the retries.
LEMMA DoesRetry ==
  ASSUME Types, Retry
  PROVE  /\ me["LEDGER"].pc = "find" /\ Goes("LEDGER", "find", me["LEDGER"].i)
         /\ Private
         /\ UNCHANGED <<tab, MeChe_Cnt, midx, booked, known, spilt, deaths>>
<1> DEFINE t == me["LEDGER"].retry + 1
           r == [me["LEDGER"] EXCEPT !.retry = t]
<1>1. /\ me["LEDGER"].pc = "find" /\ me["LEDGER"].retry <= MaxRetry
      /\ Becomes("LEDGER", r)
      /\ Private
      /\ UNCHANGED <<tab, MeChe_Cnt, midx, booked, known, spilt, deaths>>
  BY DEF Retry, NotThere, At, Local, market,
         table, Private
<1>2. "LEDGER" \in Proc /\ me["LEDGER"] \in Working
  BY <1>1, Busy DEF Proc
<1>3. t \in 0..(MaxRetry + 1)
  BY <1>1, <1>2, ConstantFacts DEF Working
<1> HIDE DEF t
<1>4. r \in Working /\ r.pc = "find" /\ r.msg = me["LEDGER"].msg /\ r.i = me["LEDGER"].i
  BY <1>1, <1>2, <1>3 DEF Working
<1>5. Moved("LEDGER", r)
  BY <1>1, <1>2, <1>4, BecomesWorking
<1>6. QED
  BY <1>1, <1>2, <1>4, <1>5 DEF Goes, Moved

\* Check refuses the message, or goes on with the slot.
LEMMA DoesCheck ==
  ASSUME Types, NEW p \in Proc, Check(p)
  PROVE  /\ me[p].pc = "check"
         /\ Rests(p) \/ Goes(p, "load", me[p].i)
         /\ Private
         /\ UNCHANGED <<tab, MeChe_Cnt, midx, booked, known, spilt, deaths>>
<1>1. /\ me[p].pc = "check"
      /\ Goto(p, "idle") \/ Goto(p, "load")
      /\ Private
      /\ UNCHANGED <<tab, MeChe_Cnt, midx, booked, known, spilt, deaths>>
  BY DEF Check, At, Local, market, table, Private
<1>2. me[p] \in Working /\ "load" \in Places
  BY <1>1, Busy DEF Places
<1> DEFINE r == [me[p] EXCEPT !.pc = "load"]
<1>3. r.pc = "load" /\ r.msg = me[p].msg /\ r.i = me[p].i
  BY <1>2 DEF Working
<1>4. CASE Goto(p, "load")
  <2>1. r \in Working /\ Moved(p, r)
    BY <1>1, <1>2, <1>4, GoesOn
  <2>2. QED
    BY <1>1, <1>2, <1>3, <2>1 DEF Goes, Moved
<1>5. CASE Goto(p, "idle")
  BY <1>1, <1>5, GoesIdle DEF Rests
<1>6. QED
  BY <1>1, <1>4, <1>5

\* Load reads what the slot shows now.
LEMMA DoesLoad ==
  ASSUME Types, NEW p \in Proc, Load(p)
  PROVE  /\ me[p].pc = "load" /\ Goes(p, "store", me[p].i)
         /\ me'[p].reg = tab[me[p].i].jan
         /\ Private
         /\ UNCHANGED <<tab, MeChe_Cnt, midx, booked, known, spilt, deaths>>
<1> DEFINE n == tab[me[p].i].jan
           r == [me[p] EXCEPT !.pc = "store", !.reg = n]
<1>1. /\ me[p].pc = "load" /\ Becomes(p, r)
      /\ Private
      /\ UNCHANGED <<tab, MeChe_Cnt, midx, booked, known, spilt, deaths>>
  BY DEF Load, At, Local, market, table, Private
<1>2. me[p] \in Working
  BY <1>1, Busy
<1>3. "store" \in Places /\ n \in Int
  BY <1>2 DEF Places, Types, Working
<1> HIDE DEF n
<1>4. /\ r \in Working /\ r.pc = "store" /\ r.msg = me[p].msg /\ r.i = me[p].i
      /\ r.reg = n
  BY <1>2, <1>3 DEF Working
<1>5. Moved(p, r)
  BY <1>1, <1>4, BecomesWorking
<1>6. QED
  BY <1>1, <1>2, <1>4, <1>5 DEF Goes, Moved, n

\* Store writes what was read, less the quantity of the message.
LEMMA DoesStore ==
  ASSUME Types, NEW p \in Proc, Store(p)
  PROVE  /\ me[p].pc = "store" /\ Goes(p, "zero", me[p].i)
         /\ tab' = [tab EXCEPT ![me[p].i].jan = me[p].reg - me[p].msg.qty]
         /\ Private
         /\ UNCHANGED <<MeChe_Cnt, midx, booked, known, spilt, deaths>>
<1> DEFINE r == [me[p] EXCEPT !.pc = "zero", !.reg = 0]
<1>1. /\ me[p].pc = "store" /\ Becomes(p, r)
      /\ tab' = [tab EXCEPT ![me[p].i].jan = me[p].reg - me[p].msg.qty]
      /\ Private
      /\ UNCHANGED <<MeChe_Cnt, midx, booked, known, spilt, deaths>>
  BY DEF Store, At, Local, market, Private
<1>2. me[p] \in Working /\ "zero" \in Places /\ 0 \in Int
  BY <1>1, Busy DEF Places
<1>3. r \in Working /\ r.pc = "zero" /\ r.msg = me[p].msg /\ r.i = me[p].i
  <2>1. \A n \in Int :
          LET x == [me[p] EXCEPT !.pc = "zero", !.reg = n]
          IN  x \in Working /\ x.pc = "zero" /\ x.msg = me[p].msg /\ x.i = me[p].i
    BY <1>2 DEF Working
  <2>2. QED
    BY <1>2, <2>1
<1>4. Moved(p, r)
  BY <1>1, <1>3, BecomesWorking
<1>5. QED
  BY <1>1, <1>2, <1>3, <1>4 DEF Goes, Moved

\* After the store the message has done its work on the table.
LEMMA DoesZero ==
  ASSUME Types, NEW p \in Proc, Zero(p) \/ Dec(p)
  PROVE  /\ me[p].pc \in {"zero", "dec"}
         /\ \/ Goes(p, "dec", me[p].i)
            \/ p = "LEDGER" /\ Goes(p, "book", me[p].i)
            \/ p # "LEDGER" /\ Rests(p)
         /\ MeChe_Cnt' \in Int
         /\ Private /\ UNCHANGED <<tab, midx, booked, known, spilt, deaths>>
<1>1. /\ me[p].pc \in {"zero", "dec"}
      /\ Private /\ UNCHANGED <<tab, midx, booked, known, spilt, deaths>>
  BY DEF Zero, Dec, At, Local, market,
         table, Private
<1>2. me[p] \in Working
  BY <1>1, Busy
<1>3. ASSUME NEW place \in Places, NEW n \in Int,
             Becomes(p, [me[p] EXCEPT !.pc = place, !.reg = n])
      PROVE  Goes(p, place, me[p].i)
  <2> DEFINE r == [me[p] EXCEPT !.pc = place, !.reg = n]
  <2>1. r \in Working /\ r.pc = place /\ r.msg = me[p].msg /\ r.i = me[p].i
    BY <1>2 DEF Working
  <2>2. Moved(p, r)
    BY <1>3, <2>1, BecomesWorking
  <2>3. QED
    BY <1>2, <2>1, <2>2 DEF Goes, Moved
<1>4. CASE Zero(p) /\ tab[me[p].i].jan <= 0
  <2>1. /\ Becomes(p, [me[p] EXCEPT !.pc = "dec", !.reg = MeChe_Cnt])
        /\ MeChe_Cnt' = MeChe_Cnt
    BY <1>4 DEF Zero, table
  <2>2. "dec" \in Places /\ MeChe_Cnt \in Int
    BY DEF Places, Types
  <2>3. QED
    BY <1>1, <1>3, <2>1, <2>2
<1>5. CASE Zero(p) /\ ~(tab[me[p].i].jan <= 0)
  <2>1. Goto(p, Then(p)) /\ MeChe_Cnt' = MeChe_Cnt /\ MeChe_Cnt \in Int
    BY <1>5 DEF Zero, table, Types
  <2>2. CASE p = "LEDGER"
    <3> DEFINE r == [me[p] EXCEPT !.pc = "book"]
    <3>1. Goto(p, "book") /\ "book" \in Places
      BY <2>1, <2>2 DEF Then, Places
    <3>2. r \in Working /\ Moved(p, r)
      BY <1>1, <3>1, GoesOn
    <3>3. r.pc = "book" /\ r.msg = me[p].msg /\ r.i = me[p].i
      BY <1>2 DEF Working
    <3>4. Goes(p, "book", me[p].i)
      BY <1>2, <3>2, <3>3 DEF Goes, Moved
    <3>5. QED
      BY <1>1, <2>1, <2>2, <3>4
  <2>3. CASE p # "LEDGER"
    <3>1. Goto(p, "idle")
      BY <2>1, <2>3 DEF Then
    <3>2. Rests(p)
      BY <1>1, <3>1, GoesIdle DEF Rests
    <3>3. QED
      BY <1>1, <2>1, <2>3, <3>2
  <2>4. QED
    BY <2>2, <2>3
<1>6. CASE Dec(p)
  <2>1. /\ Becomes(p, [me[p] EXCEPT !.pc = Then(p), !.reg = 0])
        /\ MeChe_Cnt' = me[p].reg - 1
    BY <1>6 DEF Dec
  <2>2. MeChe_Cnt' \in Int /\ 0 \in Int
    BY <1>2, <2>1 DEF Working
  <2>3. CASE p = "LEDGER"
    <3>1. Then(p) = "book" /\ "book" \in Places
      BY <2>3 DEF Then, Places
    <3>2. Goes(p, "book", me[p].i)
      BY <1>3, <2>1, <2>2, <3>1
    <3>3. QED
      BY <1>1, <2>2, <2>3, <3>2
  <2>4. CASE p # "LEDGER"
    <3> DEFINE r == [me[p] EXCEPT !.pc = Then(p), !.reg = 0]
    <3>1. r.pc = "idle"
      BY <1>2, <2>4 DEF Then, Working
    <3>2. Moved(p, Idle)
      BY <2>1, <3>1, BecomesIdle
    <3>3. QED
      BY <1>1, <2>2, <2>4, <3>2 DEF Rests
  <2>5. QED
    BY <2>3, <2>4
<1>7. QED
  BY <1>4, <1>5, <1>6

\* Che_Rtn books the quantity of the message.
LEMMA DoesChe_Rtn ==
  ASSUME Types, Che_Rtn
  PROVE  /\ me["LEDGER"].pc = "book" /\ Rests("LEDGER")
         /\ booked' = [booked EXCEPT ![me["LEDGER"].msg.no] = @ + me["LEDGER"].msg.qty]
         /\ Private
         /\ UNCHANGED <<tab, MeChe_Cnt, midx, known, spilt, deaths>>
<1>1. /\ me["LEDGER"].pc = "book" /\ Goto("LEDGER", "idle")
      /\ booked' = [booked EXCEPT ![me["LEDGER"].msg.no] = @ + me["LEDGER"].msg.qty]
      /\ Private /\ UNCHANGED <<tab, MeChe_Cnt, midx, known, spilt, deaths>>
  BY DEF Che_Rtn, At, market, table, Private
<1>2. "LEDGER" \in Proc
  BY DEF Proc
<1>3. QED
  BY <1>1, <1>2, GoesIdle DEF Rests

\* A death ends the work on the message and clears the cache.
LEMMA DoesDie ==
  ASSUME Types, NEW p \in Proc, Die(p)
  PROVE  /\ Rests(p)
         /\ midx' = [midx EXCEPT ![p] = Reset]
         /\ deaths' \in 0..MaxDeaths /\ spilt' \in BOOLEAN
         /\ Private /\ UNCHANGED <<tab, MeChe_Cnt, booked, known>>
<1>1. /\ me[p].pc # "idle" /\ Goto(p, "idle")
      /\ midx' = [midx EXCEPT ![p] = Reset]
      /\ deaths < MaxDeaths /\ deaths' = deaths + 1 /\ spilt' \in BOOLEAN
      /\ Private /\ UNCHANGED <<tab, MeChe_Cnt, booked, known>>
  BY DEF Die, At, market, table, Private
<1>2. QED
  BY <1>1, GoesIdle, ConstantFacts DEF Rests, Types

-------------------------------------------------------------------------------
\* What a queue takes from an order

\* What each message of queue q takes from order o.
Loads(q, o) == [i \in 1..Len(q) |-> Taking(q[i], o)]

\* What a message takes is a natural number.
LEMMA TakingType ==
  ASSUME NEW m \in Message, NEW o
  PROVE  Taking(m, o) \in Nat
BY ConstantFacts DEF Message, Msg, Taking

\* One number for each message.
LEMMA LoadsType ==
  ASSUME NEW q \in Seq(Message), NEW o
  PROVE  Loads(q, o) \in Seq(Nat) /\ Len(Loads(q, o)) = Len(q)
<1>1. Len(q) \in Nat /\ \A i \in 1..Len(q) : q[i] \in Message
  BY LenProperties, ElementOfSeq
<1>2. Loads(q, o) \in [1..Len(q) -> Nat]
  BY <1>1, TakingType DEF Loads
<1>3. QED
  BY <1>1, <1>2, SeqDef, LenProperties

\* What a queue takes, with a message at its end ...
LEMMA LoadsAppend ==
  ASSUME NEW q \in Seq(Message), NEW m \in Message, NEW o
  PROVE  Loads(Append(q, m), o) = Append(Loads(q, o), Taking(m, o))
<1> DEFINE v == Append(q, m)
           w == Append(Loads(q, o), Taking(m, o))
           n == Len(q)
<1>1. /\ n \in Nat /\ v \in Seq(Message) /\ Len(v) = n + 1
      /\ v[n + 1] = m /\ \A i \in 1..n : v[i] = q[i]
  BY LenProperties, AppendProperties
<1>2. Loads(q, o) \in Seq(Nat) /\ Len(Loads(q, o)) = n /\ Taking(m, o) \in Nat
  BY LoadsType, TakingType
<1>3. /\ w \in Seq(Nat) /\ Len(w) = n + 1 /\ w[n + 1] = Taking(m, o)
      /\ \A i \in 1..n : w[i] = Loads(q, o)[i]
  BY <1>2, AppendProperties
<1> HIDE DEF v, w
<1>4. Loads(v, o) \in Seq(Nat) /\ Len(Loads(v, o)) = n + 1
  BY <1>1, LoadsType
<1>5. ASSUME NEW i \in 1..(n + 1) PROVE Loads(v, o)[i] = w[i]
  <2>1. Loads(v, o)[i] = Taking(v[i], o)
    BY <1>1 DEF Loads
  <2>2. CASE i = n + 1
    BY <1>1, <1>3, <2>1, <2>2
  <2>3. CASE i # n + 1
    <3>1. i \in 1..n
      BY <1>1, <2>3
    <3>2. Loads(q, o)[i] = Taking(q[i], o)
      BY <3>1 DEF Loads
    <3>3. QED
      BY <1>1, <1>3, <2>1, <3>1, <3>2
  <2>4. QED
    BY <2>2, <2>3
<1>6. Loads(v, o) = w
  BY <1>3, <1>4, <1>5, SeqEqual
<1>7. QED
  BY <1>6 DEF v, w

\* ... and without its first.
LEMMA LoadsTail ==
  ASSUME NEW q \in Seq(Message), q # <<>>, NEW o
  PROVE  /\ Loads(q, o) # <<>>
         /\ Head(Loads(q, o)) = Taking(Head(q), o)
         /\ Tail(Loads(q, o)) = Loads(Tail(q), o)
<1> DEFINE v == Loads(q, o)
           t == Tail(q)
           n == Len(q)
<1>1. /\ n \in Nat /\ n >= 1 /\ Head(q) = q[1] /\ t \in Seq(Message)
      /\ Len(t) = n - 1 /\ \A i \in 1..(n - 1) : t[i] = q[i + 1]
  BY LenProperties, EmptySeq, HeadTailProperties
<1>2. v \in Seq(Nat) /\ Len(v) = n
  BY LoadsType
<1>3. v[1] = Taking(q[1], o)
  BY <1>1 DEF Loads
<1>4. v # <<>>
  BY <1>1, <1>2, EmptySeq
<1> HIDE DEF v, t
<1>5. /\ Head(v) = v[1] /\ Tail(v) \in Seq(Nat) /\ Len(Tail(v)) = n - 1
      /\ \A i \in 1..(n - 1) : Tail(v)[i] = v[i + 1]
  BY <1>2, <1>4, HeadTailProperties
<1>6. Loads(t, o) \in Seq(Nat) /\ Len(Loads(t, o)) = n - 1
  BY <1>1, LoadsType
<1>7. ASSUME NEW i \in 1..(n - 1) PROVE Tail(v)[i] = Loads(t, o)[i]
  <2>1. i + 1 \in 1..n
    BY <1>1
  <2>2. v[i + 1] = Taking(q[i + 1], o)
    BY <2>1 DEF Loads, v
  <2>3. Loads(t, o)[i] = Taking(t[i], o)
    BY <1>1 DEF Loads
  <2>4. QED
    BY <1>1, <1>5, <2>2, <2>3
<1>8. Tail(v) = Loads(t, o)
  BY <1>5, <1>6, <1>7, SeqEqual
<1>9. QED
  BY <1>1, <1>3, <1>4, <1>5, <1>8 DEF v, t

\* What is queued and what is in the hand are natural numbers.
LEMMA QueuedType ==
  ASSUME Types, NEW p \in Proc, NEW o
  PROVE  Queued(p, o) \in Nat /\ InHands(p, o) \in Nat
<1>1. queue[p] \in Seq(Message)
  BY DEF Types
<1>2. Queued(p, o) \in Nat
  BY <1>1, LoadsType, TotalType DEF Queued, Loads
<1>3. InHand(p) => me[p].msg \in Message
  BY Busy DEF InHand
<1>4. QED
  BY <1>2, <1>3, TakingType DEF InHands

\* A message sent adds what it takes to what is queued for its process.
LEMMA QueuedAppend ==
  ASSUME Types, NEW p \in Proc, NEW m \in Message, NEW o,
         queue' = [queue EXCEPT ![p] = Append(@, m)]
  PROVE  /\ Queued(p, o)' = Queued(p, o) + Taking(m, o)
         /\ \A q \in Proc \ {p} : Queued(q, o)' = Queued(q, o)
         /\ queue' \in [Proc -> Seq(Message)]
<1>1. queue[p] \in Seq(Message)
  BY DEF Types
<1>2. /\ queue'[p] = Append(queue[p], m)
      /\ \A q \in Proc \ {p} : queue'[q] = queue[q]
      /\ queue' \in [Proc -> Seq(Message)]
  BY <1>1, AppendProperties DEF Types
<1>3. Loads(queue'[p], o) = Append(Loads(queue[p], o), Taking(m, o))
  BY <1>1, <1>2, LoadsAppend
<1>4. Loads(queue[p], o) \in Seq(Nat) /\ Taking(m, o) \in Nat
  BY <1>1, LoadsType, TakingType
<1>5. Total(Loads(queue'[p], o))
        = Total(Loads(queue[p], o)) + Taking(m, o)
  BY <1>3, <1>4, TotalAppend
<1>6. Queued(p, o)' = Queued(p, o) + Taking(m, o)
  BY <1>5 DEF Queued, Loads
<1>7. QED
  BY <1>2, <1>6 DEF Queued

\* A message taken leaves the rest queued.
LEMMA QueuedTail ==
  ASSUME Types, NEW p \in Proc, queue[p] # <<>>, NEW o,
         queue' = [queue EXCEPT ![p] = Tail(@)]
  PROVE  /\ Queued(p, o) = Taking(Head(queue[p]), o) + Queued(p, o)'
         /\ \A q \in Proc \ {p} : Queued(q, o)' = Queued(q, o)
         /\ queue' \in [Proc -> Seq(Message)]
<1>1. queue[p] \in Seq(Message)
  BY DEF Types
<1>2. /\ queue'[p] = Tail(queue[p])
      /\ \A q \in Proc \ {p} : queue'[q] = queue[q]
      /\ queue' \in [Proc -> Seq(Message)]
  BY <1>1, HeadTailProperties DEF Types
<1>3. /\ Loads(queue[p], o) # <<>>
      /\ Head(Loads(queue[p], o)) = Taking(Head(queue[p]), o)
      /\ Tail(Loads(queue[p], o)) = Loads(queue'[p], o)
  BY <1>1, <1>2, LoadsTail
<1>4. Loads(queue[p], o) \in Seq(Nat)
  BY <1>1, LoadsType
<1>5. Total(Loads(queue[p], o))
        = Taking(Head(queue[p]), o) + Total(Loads(queue'[p], o))
  BY <1>3, <1>4, TotalTail
<1>6. Queued(p, o) = Taking(Head(queue[p]), o) + Queued(p, o)'
  BY <1>5 DEF Queued, Loads
<1>7. QED
  BY <1>2, <1>6 DEF Queued

\* Queues that stay take what they took.
LEMMA QueuedSame ==
  ASSUME queue' = queue
  PROVE  \A p \in Proc, o \in Orders : Queued(p, o)' = Queued(p, o)
BY DEF Queued

-------------------------------------------------------------------------------
\* The exchange's steps

\* Message m is sent to process p, and the exchange now has r of each order.
Sent(p, m, r) ==
  /\ m \in Message
  /\ queue' = [queue EXCEPT ![p] = Append(@, m)]
  /\ rem' = r
  /\ UNCHANGED <<tab, MeChe_Cnt, me, midx, booked, known, spilt, deaths>>
  /\ reports' \in 0..MaxReports

\* ... with a number for a new order,
Numbered(m) == given < MaxOrders /\ given' = given + 1 /\ m.no = given + 1

\* A message's fields.
LEMMA MessageFields ==
  ASSUME NEW kind \in Kinds, NEW no \in Orders,
         NEW orig \in Orders \union {Nobody}, NEW qty \in 1..Quantity,
         kind \in {"modify", "cancel"} => orig \in Orders
  PROVE  [kind |-> kind, no |-> no, orig |-> orig, qty |-> qty] \in Message
BY DEF Message, Msg, Target

\* A new order is numbered and reported with its whole quantity.
LEMMA DoesAccept ==
  ASSUME Types, Accept
  PROVE  \E m \in Message :
           /\ m.kind = "new" /\ m.qty = Quantity /\ Numbered(m)
           /\ Sent("MICHE", m, [rem EXCEPT ![m.no] = Quantity])
<1> DEFINE m == [kind |-> "new", no |-> given + 1, orig |-> Nobody, qty |-> Quantity]
<1>1. /\ given < MaxOrders /\ given' = given + 1
      /\ rem' = [rem EXCEPT ![given + 1] = Quantity]
      /\ queue' = [queue EXCEPT !["MICHE"] = Append(@, m)]
      /\ reports < MaxReports /\ reports' = reports + 1
      /\ UNCHANGED <<tab, MeChe_Cnt, me, midx, booked, known, spilt, deaths>>
  BY DEF Accept, Report, Inside, table
<1>2. given + 1 \in Orders /\ Quantity \in 1..Quantity /\ "new" \in Kinds
  BY <1>1, ConstantFacts DEF Types, Orders, Kinds
<1>3. m \in Message
  BY <1>2, MessageFields
<1>4. reports' \in 0..MaxReports
  BY <1>1, ConstantFacts DEF Types
<1>5. QED
  BY <1>1, <1>3, <1>4 DEF Sent, Numbered

\* A modify numbers an order of the quantity it takes from another.
LEMMA DoesModify ==
  ASSUME Types, NEW o \in Orders, NEW q \in 1..Quantity,
         Modify(o, q)
  PROVE  \E m \in Message :
           /\ m.kind = "modify" /\ m.orig = o /\ m.qty = q /\ q <= rem[o] /\ Numbered(m)
           /\ Sent("MICHE", m, [rem EXCEPT ![o] = @ - q, ![m.no] = q])
<1> DEFINE m == [kind |-> "modify", no |-> given + 1, orig |-> o, qty |-> q]
<1>1. /\ given < MaxOrders /\ given' = given + 1 /\ q <= rem[o]
      /\ rem' = [rem EXCEPT ![o] = @ - q, ![given + 1] = q]
      /\ queue' = [queue EXCEPT !["MICHE"] = Append(@, m)]
      /\ reports < MaxReports /\ reports' = reports + 1
      /\ UNCHANGED <<tab, MeChe_Cnt, me, midx, booked, known, spilt, deaths>>
  BY DEF Modify, Report, Inside, table
<1>2. given + 1 \in Orders /\ "modify" \in Kinds
  BY <1>1, ConstantFacts DEF Types, Orders, Kinds
<1>3. m \in Message
  BY <1>2, MessageFields
<1>4. reports' \in 0..MaxReports
  BY <1>1, ConstantFacts DEF Types
<1>5. QED
  BY <1>1, <1>3, <1>4 DEF Sent, Numbered

\* A cancel has a number, and takes its quantity from an order.
LEMMA DoesCancel ==
  ASSUME Types, NEW o \in Orders, NEW q \in 1..Quantity,
         Cancel(o, q)
  PROVE  \E m \in Message :
           /\ m.kind = "cancel" /\ m.orig = o /\ m.qty = q /\ q <= rem[o] /\ Numbered(m)
           /\ Sent("MICHE", m, [rem EXCEPT ![o] = @ - q])
<1> DEFINE m == [kind |-> "cancel", no |-> given + 1, orig |-> o, qty |-> q]
<1>1. /\ given < MaxOrders /\ given' = given + 1 /\ q <= rem[o]
      /\ rem' = [rem EXCEPT ![o] = @ - q]
      /\ queue' = [queue EXCEPT !["MICHE"] = Append(@, m)]
      /\ reports < MaxReports /\ reports' = reports + 1
      /\ UNCHANGED <<tab, MeChe_Cnt, me, midx, booked, known, spilt, deaths>>
  BY DEF Cancel, Report, Inside, table
<1>2. given + 1 \in Orders /\ "cancel" \in Kinds
  BY <1>1, ConstantFacts DEF Types, Orders, Kinds
<1>3. m \in Message
  BY <1>2, MessageFields
<1>4. reports' \in 0..MaxReports
  BY <1>1, ConstantFacts DEF Types
<1>5. QED
  BY <1>1, <1>3, <1>4 DEF Sent, Numbered

\* An expiry takes all that is left of an order.
LEMMA DoesExpire ==
  ASSUME Types, NEW o \in Orders, Expire(o)
  PROVE  \E m \in Message :
           /\ m.kind = "expire" /\ m.no = o /\ m.qty = rem[o] /\ given' = given
           /\ Sent("MICHE", m, [rem EXCEPT ![o] = @ - m.qty])
<1> DEFINE m == [kind |-> "expire", no |-> o, orig |-> Nobody, qty |-> rem[o]]
<1>1. /\ given' = given /\ 0 < rem[o]
      /\ rem' = [rem EXCEPT ![o] = 0]
      /\ queue' = [queue EXCEPT !["MICHE"] = Append(@, m)]
      /\ reports < MaxReports /\ reports' = reports + 1
      /\ UNCHANGED <<tab, MeChe_Cnt, me, midx, booked, known, spilt, deaths>>
  BY DEF Expire, Report, Inside, table
<1>2. rem[o] \in 1..Quantity /\ "expire" \in Kinds
  BY <1>1, ConstantFacts DEF Types, Kinds
<1>3. m \in Message
  BY <1>2, MessageFields
<1>4. reports' \in 0..MaxReports
  BY <1>1, ConstantFacts DEF Types
<1>5. rem' = [rem EXCEPT ![o] = @ - m.qty]
  <2>1. m.qty = rem[o] /\ rem[o] - rem[o] = 0
    BY <1>2
  <2>2. QED
    BY <1>1, <2>1, Zenon
<1>6. QED
  BY <1>1, <1>3, <1>4, <1>5 DEF Sent

\* A fill takes its quantity from an order.
LEMMA DoesFill ==
  ASSUME Types, NEW o \in Orders, NEW q \in 1..Quantity,
         Fill(o, q)
  PROVE  \E m \in Message :
           /\ m.kind = "fill" /\ m.no = o /\ m.qty = q /\ q <= rem[o] /\ given' = given
           /\ Sent("LEDGER", m, [rem EXCEPT ![o] = @ - q])
<1> DEFINE m == [kind |-> "fill", no |-> o, orig |-> Nobody, qty |-> q]
<1>1. /\ given' = given /\ q <= rem[o]
      /\ rem' = [rem EXCEPT ![o] = @ - q]
      /\ queue' = [queue EXCEPT !["LEDGER"] = Append(@, m)]
      /\ reports < MaxReports /\ reports' = reports + 1
      /\ UNCHANGED <<tab, MeChe_Cnt, me, midx, booked, known, spilt, deaths>>
  BY DEF Fill, Report, Inside, table
<1>2. "fill" \in Kinds
  BY DEF Kinds
<1>3. m \in Message
  BY <1>2, MessageFields
<1>4. reports' \in 0..MaxReports
  BY <1>1, ConstantFacts DEF Types
<1>5. QED
  BY <1>1, <1>3, <1>4 DEF Sent

-------------------------------------------------------------------------------
\* The types are kept.

\* Sending a message keeps the types ...
LEMMA TypesSent ==
  ASSUME Types, NEW p \in Proc, NEW m \in Message,
         NEW r \in [Orders -> 0..Quantity], Sent(p, m, r),
         given' = given \/ Numbered(m)
  PROVE  Types'
<1>1. queue' \in [Proc -> Seq(Message)]
  BY QueuedAppend DEF Sent
<1>2. given' \in 0..MaxOrders
  BY ConstantFacts DEF Types, Numbered
<1>3. QED
  BY <1>1, <1>2 DEF Types, Sent

\* ... and so does every step of the exchange.
LEMMA TypesExchange ==
  ASSUME Types, Exchange
  PROVE  Types'
<1>1. "MICHE" \in Proc /\ "LEDGER" \in Proc
  BY DEF Proc
<1>2. Quantity \in 0..Quantity /\ \A q \in 1..Quantity : q \in 0..Quantity
  BY ConstantFacts
<1>3. \A o \in Orders : \A q \in 1..Quantity :
        q <= rem[o] => [rem EXCEPT ![o] = @ - q] \in [Orders -> 0..Quantity]
  <2>1. TAKE o \in Orders
  <2>2. TAKE q \in 1..Quantity
  <2>3. HAVE q <= rem[o]
  <2>4. rem[o] - q \in 0..Quantity
    BY <2>3, ConstantFacts DEF Types
  <2>5. QED
    BY <2>4 DEF Types
<1>4. CASE Accept
  <2>1. PICK m \in Message : Numbered(m) /\ Sent("MICHE", m, [rem EXCEPT ![m.no] = Quantity])
    BY <1>4, DoesAccept
  <2>2. [rem EXCEPT ![m.no] = Quantity] \in [Orders -> 0..Quantity]
    BY <1>2 DEF Types
  <2>3. QED
    BY <1>1, <2>1, <2>2, TypesSent
<1>5. ASSUME NEW o \in Orders, NEW q \in 1..Quantity, Modify(o, q)
      PROVE  Types'
  <2>1. PICK m \in Message :
           /\ q <= rem[o] /\ Numbered(m)
           /\ Sent("MICHE", m, [rem EXCEPT ![o] = @ - q, ![m.no] = q])
    BY <1>5, DoesModify
  <2>2. [rem EXCEPT ![o] = @ - q, ![m.no] = q] \in [Orders -> 0..Quantity]
    BY <1>2, <1>3, <2>1
  <2>3. QED
    BY <1>1, <2>1, <2>2, TypesSent
<1>6. ASSUME NEW o \in Orders, NEW q \in 1..Quantity, Cancel(o, q)
      PROVE  Types'
  <2>1. PICK m \in Message :
           q <= rem[o] /\ Numbered(m) /\ Sent("MICHE", m, [rem EXCEPT ![o] = @ - q])
    BY <1>6, DoesCancel
  <2>2. QED
    BY <1>1, <1>3, <2>1, TypesSent
<1>7. ASSUME NEW o \in Orders, Expire(o)
      PROVE  Types'
  <2>1. PICK m \in Message :
           m.qty = rem[o] /\ given' = given /\ Sent("MICHE", m, [rem EXCEPT ![o] = @ - m.qty])
    BY <1>7, DoesExpire
  <2>2. m.qty \in 1..Quantity /\ m.qty <= rem[o]
    BY <2>1, ConstantFacts DEF Message, Msg
  <2>3. QED
    BY <1>1, <1>3, <2>1, <2>2, TypesSent
<1>8. ASSUME NEW o \in Orders, NEW q \in 1..Quantity, Fill(o, q)
      PROVE  Types'
  <2>1. PICK m \in Message :
           q <= rem[o] /\ given' = given /\ Sent("LEDGER", m, [rem EXCEPT ![o] = @ - q])
    BY <1>8, DoesFill
  <2>2. QED
    BY <1>1, <1>3, <2>1, TypesSent
<1>9. QED
  BY <1>4, <1>5, <1>6, <1>7, <1>8 DEF Exchange

\* What process p does when it neither takes a message nor writes a slot.
Quiet(p) ==
  /\ me[p] \in Working /\ Moved(p, me'[p])
  /\ Private /\ UNCHANGED <<tab, known>>
  /\ \/ me'[p] = Idle
     \/ p = "MICHE" /\ me[p].pc = "seek" /\ \E s \in TableSlots :
          tab[s].jan <= 0 /\ Goes(p, "count", s)
     \/ p = "MICHE" /\ me[p].pc = "count" /\ Goes(p, "jan", me[p].i)
     \/ me[p].pc = "find" /\ Goes(p, "find", me[p].i)
     \/ me[p].pc = "find" /\ \E s \in TableSlots :
          /\ tab[s].no = Target(me[p].msg)
          /\ Goes(p, "load", s) \/ Goes(p, "check", s)
     \/ me[p].pc = "check" /\ Goes(p, "load", me[p].i)
     \/ me[p].pc = "load" /\ Goes(p, "store", me[p].i) /\ me'[p].reg = tab[me[p].i].jan
     \/ /\ me[p].pc \in {"zero", "dec"}
        /\ Goes(p, "dec", me[p].i) \/ Goes(p, "book", me[p].i)

\* The steps of a process that change the slots of the table.
SetsJan ==
  /\ me["MICHE"].pc = "jan" /\ Goes("MICHE", "no", me["MICHE"].i)
  /\ tab' = [tab EXCEPT ![me["MICHE"].i].jan = me["MICHE"].msg.qty]
  /\ Private /\ UNCHANGED <<booked, known>>

\* SetNo: MICHE puts the order's number into the slot it has chosen.
SetsNo ==
  /\ me["MICHE"].pc = "no" /\ me["MICHE"] \in Working /\ Moved("MICHE", me'["MICHE"])
  /\ \/ me["MICHE"].msg.kind = "modify" /\ Goes("MICHE", "find", me["MICHE"].i)
     \/ me["MICHE"].msg.kind # "modify" /\ me'["MICHE"] = Idle
  /\ tab' = [tab EXCEPT ![me["MICHE"].i].no = me["MICHE"].msg.no]
  /\ known' = known \union {me["MICHE"].msg.no}
  /\ Private /\ UNCHANGED booked

\* Store: p writes what it has read less what its message takes.
Stores(p) ==
  /\ me[p].pc = "store" /\ Goes(p, "zero", me[p].i)
  /\ tab' = [tab EXCEPT ![me[p].i].jan = me[p].reg - me[p].msg.qty]
  /\ Private /\ UNCHANGED <<booked, known>>

\* Analyze_Data: p takes a message.
Takes(p) ==
  /\ me[p].pc = "idle" /\ queue[p] # <<>> /\ Head(queue[p]) \in Message
  /\ queue' = [queue EXCEPT ![p] = Tail(@)]
  /\ \/ Moved(p, Idle)
     \/ /\ me'[p] \in Working /\ Moved(p, me'[p])
        /\ me'[p].pc = FirstPlace(Head(queue[p]))
        /\ me'[p].msg = Head(queue[p])
  /\ UNCHANGED <<tab, booked, rem, given, reports, known>>

\* LEDGER books what it has taken.
Books ==
  /\ me["LEDGER"].pc = "book" /\ Quiet("LEDGER") /\ me'["LEDGER"] = Idle
  /\ booked' = [booked EXCEPT ![me["LEDGER"].msg.no] = @ + me["LEDGER"].msg.qty]

\* One of these is what a step of a process comes to.
Works ==
  \/ \E p \in Proc : (Quiet(p) /\ booked' = booked) \/ Stores(p) \/ Takes(p)
  \/ SetsJan \/ SetsNo \/ Books

\* The steps that register keep the types, and are among Works.
LEMMA WorkRegisters ==
  ASSUME Types, Make_MiChe
  PROVE  Types' /\ Works
<1>1. "MICHE" \in Proc
  BY DEF Proc
<1>2. CASE Seek
  <2>1. /\ me["MICHE"].pc = "seek"
        /\ \E s \in TableSlots : tab[s].jan <= 0 /\ Goes("MICHE", "count", s)
        /\ Private /\ UNCHANGED <<tab, MeChe_Cnt, midx, booked, known, spilt, deaths>>
    BY <1>2, DoesSeek
  <2>2. me["MICHE"] \in Working /\ Moved("MICHE", me'["MICHE"])
    BY <2>1 DEF Goes
  <2>3. Types'
    BY <1>1, <2>1, <2>2 DEF Types, Moved, Private
  <2>4. Quiet("MICHE")
    BY <2>1, <2>2 DEF Quiet
  <2>5. QED
    BY <1>1, <2>1, <2>3, <2>4 DEF Works
<1>3. CASE Count
  <2>1. /\ me["MICHE"].pc = "count" /\ Goes("MICHE", "jan", me["MICHE"].i)
        /\ MeChe_Cnt' \in Int
        /\ Private /\ UNCHANGED <<tab, midx, booked, known, spilt, deaths>>
    BY <1>3, DoesCount
  <2>2. me["MICHE"] \in Working /\ Moved("MICHE", me'["MICHE"])
    BY <2>1 DEF Goes
  <2>3. Types'
    BY <1>1, <2>1, <2>2 DEF Types, Moved, Private
  <2>4. Quiet("MICHE")
    BY <2>1, <2>2 DEF Quiet
  <2>5. QED
    BY <1>1, <2>1, <2>3, <2>4 DEF Works
<1>4. CASE SetJan
  <2>1. /\ me["MICHE"].pc = "jan" /\ Goes("MICHE", "no", me["MICHE"].i)
        /\ tab' = [tab EXCEPT ![me["MICHE"].i].jan = me["MICHE"].msg.qty]
        /\ Private /\ UNCHANGED <<MeChe_Cnt, midx, booked, known, spilt, deaths>>
    BY <1>4, DoesSetJan
  <2>2. me["MICHE"] \in Working /\ Moved("MICHE", me'["MICHE"])
    BY <2>1 DEF Goes
  <2>3. me["MICHE"].i \in TableSlots /\ me["MICHE"].msg.qty \in Int
    BY <2>2, ConstantFacts DEF Working, Message, Msg
  <2>4. tab' \in [TableSlots -> [no : Orders \union {Nobody}, jan : Int]]
    BY <2>1, <2>3 DEF Types
  <2>5. Types'
    BY <1>1, <2>1, <2>2, <2>4 DEF Types, Moved, Private
  <2>6. SetsJan
    BY <2>1 DEF SetsJan
  <2>7. QED
    BY <2>5, <2>6 DEF Works
<1>5. CASE SetNo
  <2> DEFINE m == me["MICHE"].msg
             i == me["MICHE"].i
  <2>1. /\ me["MICHE"].pc = "no"
        /\ \/ m.kind = "modify" /\ Goes("MICHE", "find", i)
           \/ m.kind # "modify" /\ Rests("MICHE")
        /\ tab' = [tab EXCEPT ![i].no = m.no]
        /\ midx' = [midx EXCEPT !["MICHE"] = Put(@, m.no, i)]
        /\ known' = known \union {m.no}
        /\ Private /\ UNCHANGED <<MeChe_Cnt, booked, spilt, deaths>>
    BY <1>5, DoesSetNo
  <2>2. me["MICHE"] \in Working
    BY <1>1, <2>1, Busy
  <2>3. i \in TableSlots /\ m.no \in Orders
    BY <2>2 DEF Working, Message, Msg
  <2>4. midx' \in [Proc ->
                    [0..(Hash - 1) -> [key : Orders \union {NoKey},
                                       slot : TableSlots \union {NoSlot}]]]
    BY <1>1, <2>1, <2>3, PutType
  <2> HIDE DEF m, i
  <2>5. tab' \in [TableSlots -> [no : Orders \union {Nobody}, jan : Int]]
    BY <2>1, <2>3 DEF Types
  <2>6. Moved("MICHE", me'["MICHE"])
    BY <1>1, <2>1 DEF Goes, Rests, Moved
  <2>7. Types'
    BY <1>1, <2>1, <2>3, <2>4, <2>5, <2>6 DEF Types, Moved, Private
  <2>8. Rests("MICHE") => me'["MICHE"] = Idle
    BY DEF Rests, Moved
  <2>9. SetsNo
    BY <2>1, <2>2, <2>6, <2>8 DEF SetsNo, m, i
  <2>10. QED
    BY <2>7, <2>9 DEF Works
<1>6. CASE NotFound
  <2>1. /\ Rests("MICHE") /\ Private /\ spilt' \in BOOLEAN
        /\ UNCHANGED <<tab, MeChe_Cnt, midx, booked, known, deaths>>
    BY <1>1, <1>6, DoesDrop
  <2>2. me["MICHE"] \in Working /\ Moved("MICHE", me'["MICHE"]) /\ me'["MICHE"] = Idle
    BY <1>1, <2>1, Busy DEF Rests, Moved
  <2>3. Types'
    BY <1>1, <2>1, <2>2 DEF Types, Moved, Private
  <2>4. Quiet("MICHE")
    BY <2>1, <2>2 DEF Quiet
  <2>5. QED
    BY <1>1, <2>1, <2>3, <2>4 DEF Works
<1>7. QED
  BY <1>2, <1>3, <1>4, <1>5, <1>6 DEF Make_MiChe

\* So do LEDGER's own ...
LEMMA WorkLedger ==
  ASSUME Types, Ledger
  PROVE  Types' /\ Works
<1>1. "LEDGER" \in Proc
  BY DEF Proc
<1>2. CASE Retry
  <2>1. /\ me["LEDGER"].pc = "find" /\ Goes("LEDGER", "find", me["LEDGER"].i)
        /\ Private
        /\ UNCHANGED <<tab, MeChe_Cnt, midx, booked, known, spilt, deaths>>
    BY <1>2, DoesRetry
  <2>2. me["LEDGER"] \in Working /\ Moved("LEDGER", me'["LEDGER"])
    BY <2>1 DEF Goes
  <2>3. Types'
    BY <1>1, <2>1, <2>2 DEF Types, Moved, Private
  <2>4. Quiet("LEDGER")
    BY <2>1, <2>2 DEF Quiet
  <2>5. QED
    BY <1>1, <2>1, <2>3, <2>4 DEF Works
<1>3. CASE GiveUp
  <2>1. /\ Rests("LEDGER") /\ Private /\ spilt' \in BOOLEAN
        /\ UNCHANGED <<tab, MeChe_Cnt, midx, booked, known, deaths>>
    BY <1>1, <1>3, DoesDrop
  <2>2. me["LEDGER"] \in Working /\ Moved("LEDGER", me'["LEDGER"]) /\ me'["LEDGER"] = Idle
    BY <1>1, <2>1, Busy DEF Rests, Moved
  <2>3. Types'
    BY <1>1, <2>1, <2>2 DEF Types, Moved, Private
  <2>4. Quiet("LEDGER")
    BY <2>1, <2>2 DEF Quiet
  <2>5. QED
    BY <1>1, <2>1, <2>3, <2>4 DEF Works
<1>4. CASE Che_Rtn
  <2> DEFINE m == me["LEDGER"].msg
  <2>1. /\ me["LEDGER"].pc = "book" /\ Rests("LEDGER")
        /\ booked' = [booked EXCEPT ![m.no] = @ + m.qty]
        /\ Private
        /\ UNCHANGED <<tab, MeChe_Cnt, midx, known, spilt, deaths>>
    BY <1>4, DoesChe_Rtn
  <2>2. me["LEDGER"] \in Working /\ Moved("LEDGER", me'["LEDGER"]) /\ me'["LEDGER"] = Idle
    BY <1>1, <2>1, Busy DEF Rests, Moved
  <2>3. m.no \in Orders /\ m.qty \in Nat
    BY <2>2, ConstantFacts DEF Working, Message, Msg
  <2> HIDE DEF m
  <2>4. booked' \in [Orders -> Nat]
    BY <2>1, <2>3 DEF Types
  <2>5. Types'
    BY <1>1, <2>1, <2>2, <2>4 DEF Types, Moved, Private
  <2>6. Quiet("LEDGER")
    BY <2>1, <2>2 DEF Quiet
  <2>7. Books
    BY <2>1, <2>2, <2>6 DEF Books, m
  <2>8. QED
    BY <2>5, <2>7 DEF Works
<1>5. QED
  BY <1>2, <1>3, <1>4 DEF Ledger

\* ... and those of both, and the deaths.
LEMMA WorkStep ==
  ASSUME Types, NEW p \in Proc, Step(p) \/ Die(p)
  PROVE  Types' /\ Works
<1>1. CASE TakeRecord(p)
  <2>1. /\ me[p].pc = "idle" /\ queue[p] # <<>> /\ Head(queue[p]) \in Message
        /\ queue' = [queue EXCEPT ![p] = Tail(@)]
        /\ \/ Moved(p, Idle)
           \/ /\ me'[p] \in Working /\ Moved(p, me'[p])
              /\ me'[p].pc = FirstPlace(Head(queue[p]))
              /\ me'[p].msg = Head(queue[p])
        /\ UNCHANGED <<tab, MeChe_Cnt, midx, booked, rem, given, reports,
                       known, spilt, deaths>>
    BY <1>1, DoesAnalyze
  <2>2. queue' \in [Proc -> Seq(Message)]
    BY <2>1, QueuedTail
  <2>3. Types'
    BY <2>1, <2>2 DEF Types, Moved
  <2>4. Takes(p)
    BY <2>1 DEF Takes
  <2>5. QED
    BY <2>3, <2>4 DEF Works
<1>2. CASE Find(p)
  <2> DEFINE o == Target(me[p].msg)
  <2>1. /\ me[p].pc = "find"
        /\ \E s \in TableSlots :
             /\ tab[s].no = o
             /\ Goes(p, "load", s) \/ Goes(p, "check", s)
        /\ midx' = midx \/ \E s \in TableSlots :
             midx' = [midx EXCEPT ![p] = Put(@, o, s)]
        /\ Private
        /\ UNCHANGED <<tab, MeChe_Cnt, booked, known, spilt, deaths>>
    BY <1>2, DoesFind
  <2>2. me[p] \in Working /\ Moved(p, me'[p])
    BY <2>1 DEF Goes
  <2>3. o \in Orders
    BY <2>2 DEF Working, Message
  <2>4. Quiet(p)
    BY <2>1, <2>2 DEF Quiet
  <2> HIDE DEF o
  <2>5. midx' \in [Proc ->
                    [0..(Hash - 1) -> [key : Orders \union {NoKey},
                                       slot : TableSlots \union {NoSlot}]]]
    <3>1. CASE midx' = midx
      BY <3>1 DEF Types
    <3>2. CASE midx' # midx
      <4>1. PICK s \in TableSlots : midx' = [midx EXCEPT ![p] = Put(@, o, s)]
        BY <2>1, <3>2
      <4>2. QED
        BY <2>3, <4>1, PutType
    <3>3. QED
      BY <3>1, <3>2
  <2>6. Types'
    BY <2>1, <2>2, <2>5 DEF Types, Moved, Private
  <2>7. QED
    BY <2>1, <2>4, <2>6 DEF Works
<1>3. CASE Check(p)
  <2>1. /\ me[p].pc = "check"
        /\ Rests(p) \/ Goes(p, "load", me[p].i)
        /\ Private
        /\ UNCHANGED <<tab, MeChe_Cnt, midx, booked, known, spilt, deaths>>
    BY <1>3, DoesCheck
  <2>2. me[p] \in Working /\ Moved(p, me'[p])
        /\ (Rests(p) => me'[p] = Idle)
    BY <2>1, Busy DEF Goes, Rests, Moved
  <2>3. Types'
    BY <2>1, <2>2 DEF Types, Moved, Private
  <2>4. Quiet(p)
    BY <2>1, <2>2 DEF Quiet
  <2>5. QED
    BY <2>1, <2>3, <2>4 DEF Works
<1>4. CASE Load(p)
  <2>1. /\ me[p].pc = "load" /\ Goes(p, "store", me[p].i)
        /\ me'[p].reg = tab[me[p].i].jan
        /\ Private
        /\ UNCHANGED <<tab, MeChe_Cnt, midx, booked, known, spilt, deaths>>
    BY <1>4, DoesLoad
  <2>2. me[p] \in Working /\ Moved(p, me'[p])
    BY <2>1 DEF Goes
  <2>3. Types'
    BY <2>1, <2>2 DEF Types, Moved, Private
  <2>4. Quiet(p)
    BY <2>1, <2>2 DEF Quiet
  <2>5. QED
    BY <2>1, <2>3, <2>4 DEF Works
<1>5. CASE Store(p)
  <2>1. /\ me[p].pc = "store" /\ Goes(p, "zero", me[p].i)
        /\ tab' = [tab EXCEPT ![me[p].i].jan = me[p].reg - me[p].msg.qty]
        /\ Private
        /\ UNCHANGED <<MeChe_Cnt, midx, booked, known, spilt, deaths>>
    BY <1>5, DoesStore
  <2>2. me[p] \in Working /\ Moved(p, me'[p])
    BY <2>1 DEF Goes
  <2>3. me[p].i \in TableSlots /\ me[p].reg - me[p].msg.qty \in Int
    BY <2>2, ConstantFacts DEF Working, Message, Msg
  <2>4. tab' \in [TableSlots -> [no : Orders \union {Nobody}, jan : Int]]
    BY <2>1, <2>3 DEF Types
  <2>5. Types'
    BY <2>1, <2>2, <2>4 DEF Types, Moved, Private
  <2>6. Stores(p)
    BY <2>1 DEF Stores
  <2>7. QED
    BY <2>5, <2>6 DEF Works
<1>6. CASE Zero(p) \/ Dec(p)
  <2>1. /\ me[p].pc \in {"zero", "dec"}
        /\ \/ Goes(p, "dec", me[p].i)
           \/ p = "LEDGER" /\ Goes(p, "book", me[p].i)
           \/ p # "LEDGER" /\ Rests(p)
        /\ MeChe_Cnt' \in Int
        /\ Private /\ UNCHANGED <<tab, midx, booked, known, spilt, deaths>>
    BY <1>6, DoesZero
  <2>2. me[p] \in Working /\ Moved(p, me'[p])
        /\ (Rests(p) => me'[p] = Idle)
    BY <2>1, Busy DEF Goes, Rests, Moved
  <2>3. Types'
    BY <2>1, <2>2 DEF Types, Moved, Private
  <2>4. Quiet(p)
    BY <2>1, <2>2 DEF Quiet
  <2>5. QED
    BY <2>1, <2>3, <2>4 DEF Works
<1>7. CASE Die(p)
  <2>1. /\ Rests(p)
        /\ midx' = [midx EXCEPT ![p] = Reset]
        /\ deaths' \in 0..MaxDeaths /\ spilt' \in BOOLEAN
        /\ Private /\ UNCHANGED <<tab, MeChe_Cnt, booked, known>>
    BY <1>7, DoesDie
  <2>2. me[p] \in Working /\ Moved(p, me'[p]) /\ me'[p] = Idle
    BY <2>1, Busy DEF Rests, Moved
  <2>3. midx' \in [Proc ->
                    [0..(Hash - 1) -> [key : Orders \union {NoKey},
                                       slot : TableSlots \union {NoSlot}]]]
    BY <2>1 DEF Types, Reset
  <2>4. Types'
    BY <2>1, <2>2, <2>3 DEF Types, Moved, Private
  <2>5. Quiet(p)
    BY <2>1, <2>2 DEF Quiet
  <2>6. QED
    BY <2>1, <2>4, <2>5 DEF Works
<1>8. QED
  BY <1>1, <1>2, <1>3, <1>4, <1>5, <1>6, <1>7 DEF Step

\* A step is the exchange's, a process's, or none.
LEMMA Steps ==
  ASSUME Types, [TableNext]_tableVars
  PROVE  Types' /\ (Exchange \/ Works \/ UNCHANGED tableVars)
<1>1. CASE UNCHANGED tableVars
  BY <1>1 DEF tableVars, Types
<1>2. CASE TableNext
  BY <1>2, TypesExchange, WorkRegisters, WorkLedger, WorkStep DEF TableNext
<1>3. QED
  BY <1>1, <1>2

-------------------------------------------------------------------------------
\* What is due of an order: what the exchange has left of it, and what the
\* messages on the way will still take from it.  Only the exchange raises it,
\* and only for a new order.

\* What is due of an order.
Due(o) == rem[o] + OnTheWay(o)

\* Where a process still has its message's effect before it.
Hand == {"seek", "count", "jan", "no", "find", "check", "load", "store"}

\* What is due is a sum of natural numbers.
LEMMA DueParts ==
  ASSUME Types, NEW o \in Orders
  PROVE  /\ Due(o) = rem[o] + Queued("MICHE", o) + InHands("MICHE", o)
                            + Queued("LEDGER", o) + InHands("LEDGER", o)
         /\ rem[o] \in Nat /\ Due(o) \in Nat
         /\ \A p \in Proc : Queued(p, o) \in Nat /\ InHands(p, o) \in Nat
<1>1. rem[o] \in Nat
  BY ConstantFacts DEF Types
<1>2. \A p \in Proc : Queued(p, o) \in Nat /\ InHands(p, o) \in Nat
  BY QueuedType
<1>3. "MICHE" \in Proc /\ "LEDGER" \in Proc
  BY DEF Proc
<1>4. QED
  BY <1>1, <1>2, <1>3 DEF Due, OnTheWay

\* The hand of a process is all it is about.
LEMMA HandIs ==
  ASSUME NEW p, NEW o
  PROVE  /\ me[p].pc \in Hand => InHands(p, o) = Taking(me[p].msg, o)
         /\ me[p].pc \notin Hand => InHands(p, o) = 0
         /\ me'[p].pc \in Hand => InHands(p, o)' = Taking(me'[p].msg, o)
         /\ me'[p].pc \notin Hand => InHands(p, o)' = 0
BY DEF InHands, InHand, Taking, Target, Hand

\* An idle process has nothing in its hands.
LEMMA IdleHand == Idle.pc \notin Hand
BY DEF Idle, Hand

\* Where the others stay, so do their hands.
LEMMA OtherHands ==
  ASSUME NEW p \in Proc, NEW r, Moved(p, r), NEW o
  PROVE  \A q \in Proc \ {p} : InHands(q, o)' = InHands(q, o)
<1>1. TAKE q \in Proc \ {p}
<1>2. me'[q] = me[q]
  BY DEF Moved
<1>3. QED
  BY <1>2 DEF InHands, InHand, Taking, Target

\* A step that keeps the message can only take it off the way.
LEMMA HandFalls ==
  ASSUME Types, Types', Private, NEW p \in Proc, Moved(p, me'[p]),
         me[p] \in Working,
         \/ me'[p] = Idle
         \/ me'[p].msg = me[p].msg /\ (me'[p].pc \in Hand => me[p].pc \in Hand),
         NEW o \in Orders
  PROVE  /\ Due(o)' = Due(o) - InHands(p, o) + InHands(p, o)'
         /\ InHands(p, o)' <= InHands(p, o)
<1>1. \A q \in Proc : Queued(q, o)' = Queued(q, o)
  BY QueuedSame DEF Private
<1>2. \A q \in Proc \ {p} : InHands(q, o)' = InHands(q, o)
  BY OtherHands
<1>3. rem'[o] = rem[o]
  BY DEF Private
<1>4. Taking(me[p].msg, o) \in Nat
  BY TakingType DEF Working
<1>5. InHands(p, o)' <= InHands(p, o)
  BY <1>4, HandIs, IdleHand
<1>6. p = "MICHE" \/ p = "LEDGER"
  BY DEF Proc
<1>7. "MICHE" \in Proc /\ "LEDGER" \in Proc /\ "MICHE" # "LEDGER"
  BY DEF Proc
<1>8. /\ InHands(p, o)' \in Nat
      /\ \A q \in Proc : Queued(q, o) \in Nat /\ InHands(q, o) \in Nat
  BY <1>4, HandIs, IdleHand, DueParts
<1>9. Due(o)' = rem'[o] + (Queued("MICHE", o)' + InHands("MICHE", o)'
                           + Queued("LEDGER", o)' + InHands("LEDGER", o)')
  BY DEF Due, OnTheWay
<1>10. QED
  BY <1>1, <1>2, <1>3, <1>5, <1>6, <1>7, <1>8, <1>9, DueParts

\* What is queued stays a natural number.
LEMMA QueuedNext ==
  ASSUME Types', NEW p \in Proc, NEW o
  PROVE  Queued(p, o)' \in Nat
<1>1. queue'[p] \in Seq(Message)
  BY DEF Types
<1>2. Total(Loads(queue'[p], o)) \in Nat
  BY <1>1, LoadsType, TotalType
<1>3. QED
  BY <1>2 DEF Queued, Loads

\* A message taken is on the way no more than it was in the queue.
LEMMA DueTakes ==
  ASSUME Types, Types', NEW p \in Proc, Takes(p),
         NEW o \in Orders
  PROVE  /\ Due(o)' <= Due(o)
         /\ InHands(p, o) = 0
         /\ Queued(p, o) = Taking(Head(queue[p]), o) + Queued(p, o)'
         /\ InHands(p, o)' <= Taking(Head(queue[p]), o)
<1> DEFINE m == Head(queue[p])
<1>1. /\ Queued(p, o) = Taking(m, o) + Queued(p, o)'
      /\ \A q \in Proc \ {p} : Queued(q, o)' = Queued(q, o)
  BY QueuedTail DEF Takes
<1>2. Moved(p, me'[p])
  BY DEF Takes, Moved
<1>3. \A q \in Proc \ {p} : InHands(q, o)' = InHands(q, o)
  BY <1>2, OtherHands
<1>4. rem'[o] = rem[o] /\ me[p].pc \notin Hand
  BY DEF Takes, Hand
<1>5. InHands(p, o) = 0
  BY <1>4, HandIs
<1>6. Taking(m, o) \in Nat
  BY TakingType DEF Takes
<1> HIDE DEF m
<1>7. /\ InHands(p, o)' \in Nat
      /\ InHands(p, o)' <= Taking(m, o)
  <2>1. me'[p] = Idle \/ me'[p].msg = m
    BY DEF Takes, Moved, m
  <2>2. QED
    BY <1>6, <2>1, HandIs, IdleHand
<1>8. p = "MICHE" \/ p = "LEDGER"
  BY DEF Proc
<1>9. "MICHE" \in Proc /\ "LEDGER" \in Proc /\ "MICHE" # "LEDGER"
  BY DEF Proc
<1>10. Due(o)' = rem'[o] + (Queued("MICHE", o)' + InHands("MICHE", o)'
                            + Queued("LEDGER", o)' + InHands("LEDGER", o)')
  BY DEF Due, OnTheWay
<1>11. Queued(p, o)' \in Nat
  BY QueuedNext
<1>12. Due(o)' <= Due(o)
  BY <1>1, <1>3, <1>4, <1>5, <1>6, <1>7, <1>8, <1>9, <1>10, <1>11, DueParts
<1>13. QED
  BY <1>1, <1>5, <1>7, <1>12 DEF m

\* No step of a process raises what is due of an order.
LEMMA DueFalls ==
  ASSUME Types, Types', Works
  PROVE  rem' = rem /\ given' = given /\ \A o \in Orders : Due(o)' <= Due(o)
<1>1. ASSUME Private, NEW p \in Proc, Moved(p, me'[p]), me[p] \in Working,
             \/ me'[p] = Idle
             \/ me'[p].msg = me[p].msg /\ (me'[p].pc \in Hand => me[p].pc \in Hand)
      PROVE  rem' = rem /\ given' = given /\ \A o \in Orders : Due(o)' <= Due(o)
  <2>1. ASSUME NEW o \in Orders PROVE Due(o)' <= Due(o)
    <3>1. /\ Due(o)' = Due(o) - InHands(p, o) + InHands(p, o)'
          /\ InHands(p, o)' <= InHands(p, o)
      BY <1>1, HandFalls
    <3>2. Due(o) \in Nat /\ InHands(p, o) \in Nat
      BY DueParts
    <3>3. InHands(p, o)' \in Nat
      <4>1. Taking(me[p].msg, o) \in Nat
        BY <1>1, TakingType DEF Working
      <4>2. QED
        BY <1>1, <4>1, HandIs, IdleHand
    <3>4. QED
      BY <3>1, <3>2, <3>3
  <2>2. QED
    BY <1>1, <2>1 DEF Private
<1>2. ASSUME NEW p \in Proc, Quiet(p)
      PROVE  rem' = rem /\ given' = given /\ \A o \in Orders : Due(o)' <= Due(o)
  <2>1. \/ me'[p] = Idle
        \/ me'[p].msg = me[p].msg /\ (me'[p].pc \in Hand => me[p].pc \in Hand)
    BY <1>2 DEF Quiet, Goes, Hand
  <2>2. QED
    BY <1>1, <1>2, <2>1 DEF Quiet
<1>3. ASSUME NEW p \in Proc, Stores(p)
      PROVE  rem' = rem /\ given' = given /\ \A o \in Orders : Due(o)' <= Due(o)
  <2>1. me'[p].msg = me[p].msg /\ (me'[p].pc \in Hand => me[p].pc \in Hand)
    BY <1>3 DEF Stores, Goes, Hand
  <2>2. QED
    BY <1>1, <1>3, <2>1 DEF Stores, Goes
<1>4. ASSUME NEW p \in Proc, Takes(p)
      PROVE  rem' = rem /\ given' = given /\ \A o \in Orders : Due(o)' <= Due(o)
  BY <1>4, DueTakes DEF Takes
<1>5. "MICHE" \in Proc /\ "LEDGER" \in Proc
  BY DEF Proc
<1>6. CASE SetsJan
  <2>1. me'["MICHE"].msg = me["MICHE"].msg
        /\ (me'["MICHE"].pc \in Hand => me["MICHE"].pc \in Hand)
    BY <1>6 DEF SetsJan, Goes, Hand
  <2>2. QED
    BY <1>1, <1>5, <1>6, <2>1 DEF SetsJan, Goes
<1>7. CASE SetsNo
  <2>1. \/ me'["MICHE"] = Idle
        \/ /\ me'["MICHE"].msg = me["MICHE"].msg
           /\ (me'["MICHE"].pc \in Hand => me["MICHE"].pc \in Hand)
    BY <1>7 DEF SetsNo, Goes, Hand
  <2>2. QED
    BY <1>1, <1>5, <1>7, <2>1 DEF SetsNo
<1>8. CASE Books
  BY <1>2, <1>5, <1>8 DEF Books
<1>9. QED
  BY <1>2, <1>3, <1>4, <1>6, <1>7, <1>8 DEF Works

-------------------------------------------------------------------------------
\* What the exchange's steps come to

\* Messages that put an order into the table.
Registers(m) == m.kind \in {"new", "modify"}

\* Nothing is due of an order the exchange has not numbered yet.
NothingEarly == \A o \in Orders : o > given => Due(o) = 0

\* What LEDGER will still book of an order.
Bookable(o) == rem[o] + Queued("LEDGER", o)

\* The exchange sends m to p: what is due stays as it was, what is taken from
\* an order being now on the way; but for an order that m makes.
Sends(p, m) ==
  /\ queue' = [queue EXCEPT ![p] = Append(@, m)]
  /\ UNCHANGED <<tab, me, midx, booked, known>>
  /\ p = "LEDGER" => m.kind = "fill"
  /\ given' = given \/ Numbered(m)
  /\ Registers(m) => p = "MICHE" /\ Numbered(m) /\ Due(m.no)' <= m.qty
  /\ \A o \in Orders : Due(o)' = Due(o) \/ (Registers(m) /\ o = m.no)
  /\ \A o \in Orders :
       \/ Bookable(o)' <= Bookable(o)
       \/ /\ Registers(m) /\ o = m.no
          /\ Queued("LEDGER", o)' = Queued("LEDGER", o)

\* What a message sent does to what is due and to what will be booked.
LEMMA DueSent ==
  ASSUME Types, NEW p \in Proc, NEW m \in Message, NEW r,
         Sent(p, m, r), NEW o \in Orders, r[o] \in Int
  PROVE  /\ Due(o)' = Due(o) - rem[o] + r[o] + Taking(m, o)
         /\ Taking(m, o) \in Nat
         /\ p = "MICHE" => Bookable(o)' = Bookable(o) - rem[o] + r[o]
                           /\ Queued("LEDGER", o)' = Queued("LEDGER", o)
         /\ p = "LEDGER" => Bookable(o)' = Bookable(o) - rem[o] + r[o] + Taking(m, o)
<1>1. /\ Queued(p, o)' = Queued(p, o) + Taking(m, o)
      /\ \A q \in Proc \ {p} : Queued(q, o)' = Queued(q, o)
  BY QueuedAppend DEF Sent
<1>2. me' = me /\ rem'[o] = r[o]
  BY DEF Sent
<1>3. \A q : InHands(q, o)' = InHands(q, o)
  BY <1>2 DEF InHands, InHand, Taking, Target
<1>4. Taking(m, o) \in Nat
  BY TakingType
<1>5. p = "MICHE" \/ p = "LEDGER"
  BY DEF Proc
<1>6. "MICHE" \in Proc /\ "LEDGER" \in Proc /\ "MICHE" # "LEDGER"
  BY DEF Proc
<1>7. Due(o)' = rem'[o] + (Queued("MICHE", o)' + InHands("MICHE", o)'
                           + Queued("LEDGER", o)' + InHands("LEDGER", o)')
  BY DEF Due, OnTheWay
<1>8. /\ Bookable(o)' = rem'[o] + Queued("LEDGER", o)'
      /\ Bookable(o) = rem[o] + Queued("LEDGER", o)
  BY DEF Bookable
<1>9. Due(o)' = Due(o) - rem[o] + r[o] + Taking(m, o)
  BY <1>1, <1>2, <1>3, <1>4, <1>5, <1>6, <1>7, DueParts
<1>10. /\ p = "MICHE" => Bookable(o)' = Bookable(o) - rem[o] + r[o]
                         /\ Queued("LEDGER", o)' = Queued("LEDGER", o)
       /\ p = "LEDGER" => Bookable(o)' = Bookable(o) - rem[o] + r[o] + Taking(m, o)
  BY <1>1, <1>2, <1>4, <1>6, <1>8, DueParts
<1>11. QED
  BY <1>4, <1>9, <1>10

\* What is not numbered yet is not there.
LEMMA EarlyIsNothing ==
  ASSUME Types, NothingEarly, NEW o \in Orders, o > given
  PROVE  rem[o] = 0 /\ Due(o) = 0
<1>1. Due(o) = 0
  BY DEF NothingEarly
<1>2. \A p \in Proc : Queued(p, o) \in Nat /\ InHands(p, o) \in Nat
  BY DueParts
<1>3. "MICHE" \in Proc /\ "LEDGER" \in Proc
  BY DEF Proc
<1>4. QED
  BY <1>1, <1>2, <1>3, DueParts

\* An expiry, a cancel and a fill take what they say from the order they name.
LEMMA SendsTaking ==
  ASSUME Types, NEW p \in Proc, NEW m \in Message,
         p = "LEDGER" => m.kind = "fill",
         m.kind \in {"cancel", "expire", "fill"},
         given' = given \/ Numbered(m),
         Sent(p, m, [rem EXCEPT ![Target(m)] = @ - m.qty])
  PROVE  Sends(p, m)
<1> DEFINE t == Target(m)
           r == [rem EXCEPT ![t] = @ - m.qty]
<1>1. t \in Orders /\ m.qty \in Nat
  BY ConstantFacts DEF Message, Msg
<1>2. rem \in [Orders -> Int]
  BY ConstantFacts DEF Types
<1> HIDE DEF t
<1>3. r[t] = rem[t] - m.qty /\ \A o \in Orders \ {t} : r[o] = rem[o]
  BY <1>1, <1>2
<1>4. \A o \in Orders : r[o] \in Int /\ rem[o] \in Int
  BY <1>1, <1>2
<1>5. Sent(p, m, r)
  BY DEF t
<1> HIDE DEF r
<1>6. ASSUME NEW o \in Orders
      PROVE  Due(o)' = Due(o) /\ Bookable(o)' <= Bookable(o)
  <2>1. Taking(m, o) = IF o = t THEN m.qty ELSE 0
    BY DEF Taking, t
  <2>2. /\ Due(o)' = Due(o) - rem[o] + r[o] + Taking(m, o)
        /\ p = "MICHE" => Bookable(o)' = Bookable(o) - rem[o] + r[o]
        /\ p = "LEDGER" => Bookable(o)' = Bookable(o) - rem[o] + r[o] + Taking(m, o)
    BY <1>4, <1>5, DueSent
  <2>3. p = "MICHE" \/ p = "LEDGER"
    BY DEF Proc
  <2>4. Due(o) \in Int /\ Bookable(o) \in Int
    <3>1. "LEDGER" \in Proc
      BY DEF Proc
    <3>2. QED
      BY <3>1, DueParts DEF Bookable
  <2>5. r[o] = rem[o] - Taking(m, o)
    BY <1>3, <1>4, <2>1
  <2>6. Taking(m, o) \in Nat /\ r[o] \in Int /\ rem[o] \in Int
    BY <1>4, TakingType
  <2>7. Due(o)' = Due(o)
    BY <2>2, <2>4, <2>5, <2>6
  <2>8. Bookable(o)' <= Bookable(o)
    BY <2>2, <2>3, <2>4, <2>5, <2>6
  <2>9. QED
    BY <2>7, <2>8
<1>7. ~Registers(m)
  BY DEF Registers
<1>8. QED
  BY <1>5, <1>6, <1>7 DEF Sends, Sent

\* A new order and a modify make an order of the quantity they say, the modify
\* out of the order it names.
LEMMA SendsMaking ==
  ASSUME Types, NothingEarly, NEW m \in Message,
         NEW r \in [Orders -> Int],
         Registers(m), Numbered(m), Sent("MICHE", m, r),
         r[m.no] = m.qty, Taking(m, m.no) = 0,
         \A o \in Orders \ {m.no} : r[o] = rem[o] - Taking(m, o)
  PROVE  Sends("MICHE", m)
<1>1. m.no \in Orders /\ m.qty \in Nat
  BY ConstantFacts DEF Message, Msg
<1>2. rem \in [Orders -> Int] /\ given \in Int
  BY ConstantFacts DEF Types
<1>3. rem[m.no] = 0 /\ Due(m.no) = 0
  BY <1>1, <1>2, EarlyIsNothing DEF Numbered
<1>4. "MICHE" \in Proc /\ "LEDGER" \in Proc
  BY DEF Proc
<1>5. ASSUME NEW o \in Orders
      PROVE  /\ Due(o)' = Due(o) - rem[o] + r[o] + Taking(m, o)
             /\ Taking(m, o) \in Nat
             /\ Bookable(o)' = Bookable(o) - rem[o] + r[o]
             /\ Queued("LEDGER", o)' = Queued("LEDGER", o)
             /\ Due(o) \in Int /\ Bookable(o) \in Int
  <2>1. /\ Due(o)' = Due(o) - rem[o] + r[o] + Taking(m, o)
        /\ Taking(m, o) \in Nat
        /\ Bookable(o)' = Bookable(o) - rem[o] + r[o]
        /\ Queued("LEDGER", o)' = Queued("LEDGER", o)
    BY <1>4, DueSent
  <2>2. Due(o) \in Int /\ Bookable(o) \in Int
    BY <1>4, DueParts DEF Bookable
  <2>3. QED
    BY <2>1, <2>2
<1>6. Due(m.no)' = m.qty /\ Queued("LEDGER", m.no)' = Queued("LEDGER", m.no)
  BY <1>1, <1>3, <1>5
<1>7. ASSUME NEW o \in Orders, o # m.no
      PROVE  Due(o)' = Due(o) /\ Bookable(o)' <= Bookable(o)
  <2>1. r[o] = rem[o] - Taking(m, o) /\ rem[o] \in Int
    BY <1>2, <1>7
  <2>2. QED
    BY <1>5, <2>1
<1>8. Due(m.no)' <= m.qty
  BY <1>1, <1>6
<1>9. QED
  BY <1>6, <1>7, <1>8 DEF Sends, Sent

\* Every step of the exchange is such a sending.
LEMMA ExchangeSends ==
  ASSUME Types, NothingEarly, Exchange
  PROVE  \E p \in Proc, m \in Message : Sends(p, m)
<1>1. "MICHE" \in Proc /\ "LEDGER" \in Proc
  BY DEF Proc
<1>2. CASE Accept
  <2>1. PICK m \in Message :
           /\ m.kind = "new" /\ m.qty = Quantity /\ Numbered(m)
           /\ Sent("MICHE", m, [rem EXCEPT ![m.no] = Quantity])
    BY <1>2, DoesAccept
  <2> DEFINE r == [rem EXCEPT ![m.no] = Quantity]
  <2>2. m.no \in Orders
    BY DEF Message, Msg
  <2>3. r \in [Orders -> Int] /\ r[m.no] = m.qty
        /\ \A o \in Orders \ {m.no} : r[o] = rem[o] - 0
    BY <2>1, <2>2, ConstantFacts DEF Types
  <2>4. Registers(m) /\ \A o : Taking(m, o) = 0
    BY <2>1 DEF Registers, Taking
  <2>5. Sent("MICHE", m, r)
    BY <2>1
  <2> HIDE DEF r
  <2>6. QED
    BY <1>1, <2>1, <2>3, <2>4, <2>5, SendsMaking
<1>3. ASSUME NEW o \in Orders, NEW q \in 1..Quantity, Modify(o, q)
      PROVE  \E p \in Proc, m \in Message : Sends(p, m)
  <2>1. PICK m \in Message :
           /\ m.kind = "modify" /\ m.orig = o /\ m.qty = q /\ q <= rem[o] /\ Numbered(m)
           /\ Sent("MICHE", m, [rem EXCEPT ![o] = @ - q, ![m.no] = q])
    BY <1>3, DoesModify
  <2> DEFINE r == [rem EXCEPT ![o] = @ - q, ![m.no] = q]
  <2>2. m.no \in Orders /\ given \in Int /\ rem \in [Orders -> Int]
    BY ConstantFacts DEF Message, Msg, Types
  <2>3. o # m.no
    <3>1. rem[m.no] = 0
      BY <2>1, <2>2, EarlyIsNothing DEF Numbered
    <3>2. QED
      BY <2>1, <3>1
  <2>4. \A x : Taking(m, x) = IF x = o THEN q ELSE 0
    BY <2>1 DEF Taking, Target
  <2>5. r \in [Orders -> Int] /\ r[m.no] = m.qty
        /\ \A x \in Orders \ {m.no} : r[x] = IF x = o THEN rem[x] - q ELSE rem[x]
    BY <2>1, <2>2, <2>3
  <2>6. Registers(m) /\ Sent("MICHE", m, r)
    BY <2>1 DEF Registers
  <2> HIDE DEF r
  <2>7. \A x \in Orders \ {m.no} : r[x] = rem[x] - Taking(m, x)
    BY <2>2, <2>4, <2>5
  <2>8. QED
    BY <1>1, <2>1, <2>3, <2>4, <2>5, <2>6, <2>7, SendsMaking
<1>4. ASSUME NEW o \in Orders, NEW q \in 1..Quantity, Cancel(o, q)
      PROVE  \E p \in Proc, m \in Message : Sends(p, m)
  <2>1. PICK m \in Message :
           /\ m.kind = "cancel" /\ m.orig = o /\ m.qty = q /\ Numbered(m)
           /\ Sent("MICHE", m, [rem EXCEPT ![o] = @ - q])
    BY <1>4, DoesCancel
  <2>2. Target(m) = o
    BY <2>1 DEF Target
  <2>3. QED
    BY <1>1, <2>1, <2>2, SendsTaking
<1>5. ASSUME NEW o \in Orders, Expire(o)
      PROVE  \E p \in Proc, m \in Message : Sends(p, m)
  <2>1. PICK m \in Message :
           /\ m.kind = "expire" /\ m.no = o /\ given' = given
           /\ Sent("MICHE", m, [rem EXCEPT ![o] = @ - m.qty])
    BY <1>5, DoesExpire
  <2>2. Target(m) = o
    BY <2>1 DEF Target
  <2>3. QED
    BY <1>1, <2>1, <2>2, SendsTaking
<1>6. ASSUME NEW o \in Orders, NEW q \in 1..Quantity, Fill(o, q)
      PROVE  \E p \in Proc, m \in Message : Sends(p, m)
  <2>1. PICK m \in Message :
           /\ m.kind = "fill" /\ m.no = o /\ m.qty = q /\ given' = given
           /\ Sent("LEDGER", m, [rem EXCEPT ![o] = @ - q])
    BY <1>6, DoesFill
  <2>2. Target(m) = o
    BY <2>1 DEF Target
  <2>3. QED
    BY <1>1, <2>1, <2>2, SendsTaking
<1>7. QED
  BY <1>2, <1>3, <1>4, <1>5, <1>6 DEF Exchange

-------------------------------------------------------------------------------
\* Which messages a process works on

\* MICHE has a message to register.
Registering == me["MICHE"].pc \in {"seek", "count", "jan", "no"}

\* LEDGER gets executions only, nobody reduces an order for a new one, and what
\* MICHE registers is an order.
KindInv ==
  /\ \A i \in 1..Len(queue["LEDGER"]) : queue["LEDGER"][i].kind = "fill"
  /\ me["LEDGER"].pc # "idle" =>
       /\ me["LEDGER"].msg.kind = "fill"
       /\ me["LEDGER"].pc \notin {"seek", "count", "jan", "no"}
  /\ \A p \in Proc :
       me[p].pc \in {"find", "check", "load", "store"} => me[p].msg.kind # "new"
  /\ Registering => Registers(me["MICHE"].msg)

\* The queues after a message has been sent ...
LEMMA SendsQueue ==
  ASSUME Types, NEW p \in Proc, NEW m \in Message, Sends(p, m)
  PROVE  /\ Len(queue[p]) \in Nat /\ Len(queue'[p]) = Len(queue[p]) + 1
         /\ queue'[p][Len(queue[p]) + 1] = m
         /\ \A i \in 1..Len(queue[p]) : queue'[p][i] = queue[p][i]
         /\ \A q \in Proc \ {p} : queue'[q] = queue[q]
<1>1. queue[p] \in Seq(Message)
  BY DEF Types
<1>2. queue'[p] = Append(queue[p], m) /\ \A q \in Proc \ {p} : queue'[q] = queue[q]
  BY DEF Types, Sends
<1>3. QED
  BY <1>1, <1>2, AppendProperties, LenProperties

\* ... and after one has been taken.
LEMMA TakesQueue ==
  ASSUME Types, NEW p \in Proc, Takes(p)
  PROVE  /\ Len(queue[p]) \in Nat /\ Len(queue[p]) >= 1
         /\ Len(queue'[p]) = Len(queue[p]) - 1
         /\ queue[p][1] = Head(queue[p])
         /\ \A i \in 1..(Len(queue[p]) - 1) : queue'[p][i] = queue[p][i + 1]
         /\ \A q \in Proc \ {p} : queue'[q] = queue[q]
<1>1. queue[p] \in Seq(Message) /\ queue[p] # <<>>
  BY DEF Types, Takes
<1>2. queue'[p] = Tail(queue[p]) /\ \A q \in Proc \ {p} : queue'[q] = queue[q]
  BY DEF Types, Takes
<1>3. QED
  BY <1>1, <1>2, HeadTailProperties, LenProperties, EmptySeq

\* A process that goes to rest has no live locals.
LEMMA IdlePlace == Idle.pc = "idle"
BY DEF Idle

\* KindInv holds when a message is sent ...
LEMMA KindSends ==
  ASSUME Types, KindInv, NEW p \in Proc, NEW m \in Message, Sends(p, m)
  PROVE  KindInv'
<1>1. \A i \in 1..Len(queue'["LEDGER"]) : queue'["LEDGER"][i].kind = "fill"
  <2>1. CASE p = "LEDGER"
    <3>1. TAKE i \in 1..Len(queue'["LEDGER"])
    <3>2. i = Len(queue["LEDGER"]) + 1 \/ i \in 1..Len(queue["LEDGER"])
      BY <2>1, SendsQueue
    <3>3. m.kind = "fill"
      BY <2>1 DEF Sends
    <3>4. QED
      BY <2>1, <3>2, <3>3, SendsQueue DEF KindInv
  <2>2. CASE p # "LEDGER"
    <3>1. queue'["LEDGER"] = queue["LEDGER"]
      BY <2>2, SendsQueue DEF Proc
    <3>2. QED
      BY <3>1 DEF KindInv
  <2>3. QED
    BY <2>1, <2>2
<1>2. me' = me
  BY DEF Sends
<1>3. QED
  BY <1>1, <1>2 DEF KindInv, Registering, Registers

\* ... when it is taken ...
LEMMA KindTakes ==
  ASSUME Types, KindInv, NEW p \in Proc, Takes(p)
  PROVE  KindInv'
<1> DEFINE m == Head(queue[p])
<1>1. \A i \in 1..Len(queue'["LEDGER"]) : queue'["LEDGER"][i].kind = "fill"
  <2>1. CASE p = "LEDGER"
    <3>1. TAKE i \in 1..Len(queue'["LEDGER"])
    <3>2. i \in 1..(Len(queue["LEDGER"]) - 1) /\ i + 1 \in 1..Len(queue["LEDGER"])
      BY <2>1, TakesQueue
    <3>3. QED
      BY <2>1, <3>2, TakesQueue DEF KindInv
  <2>2. CASE p # "LEDGER"
    <3>1. queue'["LEDGER"] = queue["LEDGER"]
      BY <2>2, TakesQueue DEF Proc
    <3>2. QED
      BY <3>1 DEF KindInv
  <2>3. QED
    BY <2>1, <2>2
<1>2. p = "LEDGER" => m.kind = "fill"
  BY TakesQueue DEF KindInv
<1>3. \/ me'[p] = Idle
      \/ /\ me'[p].msg = m
         /\ me'[p].pc = IF Registers(m) THEN "seek" ELSE "find"
      \/ me'[p].msg = m /\ me'[p].pc = "idle"
  BY DEF Takes, Moved, FirstPlace, Registers
<1>4. \A q \in Proc \ {p} : me'[q] = me[q]
  BY DEF Takes, Moved
<1> HIDE DEF m
<1>5. "MICHE" \in Proc /\ "LEDGER" \in Proc
  BY DEF Proc
<1>6. me'["LEDGER"].pc # "idle" =>
        /\ me'["LEDGER"].msg.kind = "fill"
        /\ me'["LEDGER"].pc \notin {"seek", "count", "jan", "no"}
  BY <1>2, <1>3, <1>4, <1>5, IdlePlace DEF KindInv, Registers
<1>7. \A q \in Proc :
        me'[q].pc \in {"find", "check", "load", "store"} => me'[q].msg.kind # "new"
  BY <1>3, <1>4, IdlePlace DEF KindInv, Registers
<1>8. Registering' => Registers(me["MICHE"].msg)'
  BY <1>3, <1>4, <1>5, IdlePlace DEF KindInv, Registers, Registering
<1>9. QED
  BY <1>1, <1>6, <1>7, <1>8 DEF KindInv

\* Every other step keeps the message and goes forward.
Forward(p) ==
  /\ Moved(p, me'[p]) /\ me[p] \in Working /\ Private
  /\ \/ me'[p] = Idle
     \/ /\ me'[p].msg = me[p].msg
        /\ me'[p].pc \in {"seek", "count", "jan", "no"} =>
             /\ p = "MICHE" /\ me[p].pc \in {"seek", "count", "jan", "no"}
        /\ me'[p].pc \in {"find", "check", "load", "store"} =>
             \/ me[p].pc \in {"find", "check", "load", "store"}
             \/ p = "MICHE" /\ me[p].msg.kind = "modify"

\* Every step of a process takes a message or goes forward.
LEMMA WorksForward ==
  ASSUME Types, Works
  PROVE  \E p \in Proc : Takes(p) \/ Forward(p)
<1>1. "MICHE" \in Proc /\ "LEDGER" \in Proc
  BY DEF Proc
<1>2. ASSUME NEW p \in Proc, Quiet(p) PROVE Forward(p)
  BY <1>2 DEF Quiet, Forward, Goes
<1>3. ASSUME NEW p \in Proc, Stores(p) PROVE Forward(p)
  BY <1>3 DEF Stores, Forward, Goes
<1>4. SetsJan => Forward("MICHE")
  BY DEF SetsJan, Forward, Goes
<1>5. SetsNo => Forward("MICHE")
  BY DEF SetsNo, Forward, Goes
<1>6. Books => Forward("LEDGER")
  BY <1>1, <1>2 DEF Books
<1>7. QED
  BY <1>1, <1>2, <1>3, <1>4, <1>5, <1>6 DEF Works

\* ... and as it is worked on.
LEMMA KindForward ==
  ASSUME Types, KindInv, NEW p \in Proc, Forward(p)
  PROVE  KindInv'
<1>1. queue' = queue /\ \A q \in Proc \ {p} : me'[q] = me[q]
  BY DEF Forward, Private, Moved
<1>2. "MICHE" \in Proc /\ "LEDGER" \in Proc
  BY DEF Proc
<1>3. me[p].pc # "idle"
  BY Busy DEF Forward
<1>4. me'["LEDGER"].pc # "idle" =>
        /\ me'["LEDGER"].msg.kind = "fill"
        /\ me'["LEDGER"].pc \notin {"seek", "count", "jan", "no"}
  BY <1>1, <1>2, <1>3, IdlePlace DEF KindInv, Forward
<1>5. \A q \in Proc :
        me'[q].pc \in {"find", "check", "load", "store"} => me'[q].msg.kind # "new"
  BY <1>1, <1>2, IdlePlace DEF KindInv, Forward
<1>6. Registering' => Registers(me["MICHE"].msg)'
  BY <1>1, <1>2, IdlePlace DEF KindInv, Registers, Registering, Forward
<1>7. QED
  BY <1>1, <1>4, <1>5, <1>6 DEF KindInv

-------------------------------------------------------------------------------
\* The orders still to be registered

\* MICHE has m before it, or is registering it.
Queueing(m) == \E i \in 1..Len(queue["MICHE"]) : queue["MICHE"][i] = m
Waiting(m)  == Queueing(m) \/ (Registering /\ me["MICHE"].msg = m)

\* The order that m registers has been numbered, it is not in the table yet, and
\* m says enough for it.
Fresh(m) ==
  Registers(m) => m.no <= given /\ m.no \notin known /\ Due(m.no) <= m.qty

\* What waits to be registered is fresh.
FreshInv ==
  /\ known \subseteq 1..given
  /\ \A m \in Message : Waiting(m) => Fresh(m)

\* No order is registered twice.
OnceInv ==
  /\ \A i, j \in 1..Len(queue["MICHE"]) :
       Registers(queue["MICHE"][i]) /\ Registers(queue["MICHE"][j]) =>
         (queue["MICHE"][i].no = queue["MICHE"][j].no => i = j)
  /\ Registering => \A i \in 1..Len(queue["MICHE"]) :
       Registers(queue["MICHE"][i]) => queue["MICHE"][i].no # me["MICHE"].msg.no

\* What is in a queue is a message.
LEMMA QueuedMessage ==
  ASSUME Types, NEW p \in Proc, NEW i \in 1..Len(queue[p])
  PROVE  queue[p][i] \in Message
<1>1. queue[p] \in Seq(Message)
  BY DEF Types
<1>2. QED
  BY <1>1, ElementOfSeq

\* What is in the queue and in the hand is fresh.
LEMMA FreshIs ==
  ASSUME Types, FreshInv
  PROVE  /\ Registering => me["MICHE"].msg \in Message /\ Fresh(me["MICHE"].msg)
         /\ \A i \in 1..Len(queue["MICHE"]) :
              queue["MICHE"][i] \in Message /\ Fresh(queue["MICHE"][i])
<1>1. "MICHE" \in Proc
  BY DEF Proc
<1>2. Registering => me["MICHE"].msg \in Message
  BY <1>1, Busy DEF Registering
<1>3. \A i \in 1..Len(queue["MICHE"]) : queue["MICHE"][i] \in Message
  BY <1>1, QueuedMessage
<1>4. QED
  BY <1>2, <1>3 DEF FreshInv, Waiting, Queueing

\* Numbers, of which arithmetic speaks.
LEMMA RegisterTypes ==
  ASSUME Types, NEW m \in Message
  PROVE  /\ m.no \in Orders /\ m.no \in Nat /\ m.qty \in Nat /\ m.qty > 0
         /\ given \in Nat /\ Due(m.no) \in Nat
<1>1. m.no \in Orders /\ m.qty \in Nat /\ m.qty > 0
  BY ConstantFacts DEF Message, Msg
<1>2. Due(m.no) \in Nat
  BY <1>1, DueParts
<1>3. m.no \in Nat /\ given \in Nat
  BY <1>1, ConstantFacts DEF Types, Orders
<1>4. QED
  BY <1>1, <1>2, <1>3

\* FreshInv: the number of an order is given when its message is sent.
LEMMA FreshSends ==
  ASSUME Types, FreshInv,
         NEW p \in Proc, NEW m \in Message, Sends(p, m)
  PROVE  FreshInv'
<1>1. /\ given \in Nat /\ given' \in {given, given + 1} /\ known' = known /\ me' = me
      /\ Registers(m) => p = "MICHE" /\ m.no = given + 1 /\ given' = given + 1
  BY RegisterTypes DEF Sends, Numbered
<1>2. known' \subseteq 1..given'
  BY <1>1 DEF FreshInv
<1>3. ASSUME NEW x \in Message, Waiting(x)' PROVE Fresh(x)'
  <2>1. x = m \/ Waiting(x)
    <3>1. Registering' = Registering
      BY <1>1 DEF Registering
    <3>2. Queueing(x)' => x = m \/ Queueing(x)
      <4>1. CASE p = "MICHE"
        <5>1. \A i \in 1..Len(queue'["MICHE"]) :
                i = Len(queue["MICHE"]) + 1 \/ i \in 1..Len(queue["MICHE"])
          BY <4>1, SendsQueue
        <5>2. QED
          BY <4>1, <5>1, SendsQueue DEF Queueing
      <4>2. CASE p # "MICHE"
        <5>1. queue'["MICHE"] = queue["MICHE"]
          BY <4>2, SendsQueue DEF Proc
        <5>2. QED
          BY <5>1 DEF Queueing
      <4>3. QED
        BY <4>1, <4>2
    <3>3. QED
      BY <1>1, <1>3, <3>1, <3>2 DEF Waiting
  <2>2. CASE x = m
    <3>1. Registers(m) => m.no \notin known
      BY <1>1 DEF FreshInv
    <3>2. Registers(m) => m.no <= given' /\ m.no \notin known' /\ Due(m.no)' <= m.qty
      BY <1>1, <3>1 DEF Sends
    <3>3. QED
      BY <2>2, <3>2 DEF Fresh, Registers
  <2>3. CASE Waiting(x)
    <3>1. SUFFICES ASSUME Registers(x)
                   PROVE  x.no <= given' /\ x.no \notin known' /\ Due(x.no)' <= x.qty
      BY DEF Fresh, Registers
    <3>2. x.no <= given /\ x.no \notin known /\ Due(x.no) <= x.qty
      BY <2>3, <3>1 DEF FreshInv, Fresh
    <3>3. Registers(m) => x.no # m.no
      BY <1>1, <3>2, RegisterTypes
    <3>4. Due(x.no)' = Due(x.no)
      BY <3>3, RegisterTypes DEF Sends
    <3>5. QED
      BY <1>1, <3>2, <3>4, RegisterTypes
  <2>4. QED
    BY <2>1, <2>2, <2>3
<1>4. QED
  BY <1>2, <1>3 DEF FreshInv

\* OnceInv: a number just given is in no other message.
LEMMA OnceSends ==
  ASSUME Types, FreshInv, OnceInv, KindInv,
         NEW p \in Proc, NEW m \in Message, Sends(p, m)
  PROVE  OnceInv'
<1> DEFINE n == Len(queue["MICHE"])
<1>1. me' = me /\ (Registers(m) => p = "MICHE" /\ m.no = given + 1)
  BY DEF Sends, Numbered
<1>2. CASE p # "MICHE"
  <2>1. queue'["MICHE"] = queue["MICHE"]
    BY <1>2, SendsQueue DEF Proc
  <2>2. QED
    BY <1>1, <2>1 DEF OnceInv, Registering, Registers
<1>3. CASE p = "MICHE"
  <2>1. \A i \in 1..n : Registers(queue["MICHE"][i]) => queue["MICHE"][i].no # given + 1
    <3>1. SUFFICES ASSUME NEW i \in 1..n, Registers(queue["MICHE"][i])
                   PROVE  queue["MICHE"][i].no # given + 1
      OBVIOUS
    <3>2. queue["MICHE"][i] \in Message /\ queue["MICHE"][i].no <= given
      BY <3>1, FreshIs DEF Fresh
    <3>3. queue["MICHE"][i].no \in Nat /\ given \in Nat
      BY <3>2, RegisterTypes
    <3>4. QED
      BY <3>2, <3>3
  <2>2. Registering => me["MICHE"].msg.no # given + 1
    BY FreshIs, RegisterTypes DEF Fresh, KindInv
  <2>3. /\ n \in Nat /\ Len(queue'["MICHE"]) = n + 1
        /\ queue'["MICHE"][n + 1] = m
        /\ \A i \in 1..n : queue'["MICHE"][i] = queue["MICHE"][i]
    BY <1>3, SendsQueue
  <2> HIDE DEF n
  <2>4. \A i \in 1..(n + 1) : i = n + 1 \/ i \in 1..n
    BY <2>3
  <2>5. \A i, j \in 1..Len(queue'["MICHE"]) :
          Registers(queue'["MICHE"][i]) /\ Registers(queue'["MICHE"][j]) =>
            (queue'["MICHE"][i].no = queue'["MICHE"][j].no => i = j)
    BY <1>1, <2>1, <2>3, <2>4 DEF OnceInv, n
  <2>6. Registering => \A i \in 1..Len(queue'["MICHE"]) :
          Registers(queue'["MICHE"][i]) => queue'["MICHE"][i].no # me["MICHE"].msg.no
    BY <1>1, <2>2, <2>3, <2>4 DEF OnceInv, n
  <2>7. QED
    BY <1>1, <2>5, <2>6 DEF OnceInv, Registering, Registers
<1>4. QED
  BY <1>2, <1>3

\* A step of a process puts nothing in the way, and registers what it had.
LEMMA WaitingFalls ==
  ASSUME Types, Works, NEW x \in Message, Waiting(x)'
  PROVE  Waiting(x)
<1>1. "MICHE" \in Proc
  BY DEF Proc
<1>2. ASSUME NEW p \in Proc, Takes(p) PROVE Waiting(x)
  <2>1. CASE p = "MICHE"
    <3>1. Queueing(x)' => Queueing(x)
      <4>1. SUFFICES ASSUME NEW i \in 1..Len(queue'["MICHE"]), queue'["MICHE"][i] = x
                     PROVE  \E j \in 1..Len(queue["MICHE"]) : queue["MICHE"][j] = x
        BY DEF Queueing
      <4>2. /\ i \in 1..(Len(queue["MICHE"]) - 1) /\ i + 1 \in 1..Len(queue["MICHE"])
            /\ queue["MICHE"][i + 1] = x
        BY <1>2, <2>1, <4>1, TakesQueue
      <4>3. QED
        BY <4>2
    <3>2. Registering' => me'["MICHE"].msg = Head(queue["MICHE"])
      BY <1>2, <2>1, IdlePlace DEF Takes, Moved, Registering
    <3>3. 1 \in 1..Len(queue["MICHE"]) /\ queue["MICHE"][1] = Head(queue["MICHE"])
      BY <1>2, <2>1, TakesQueue
    <3>4. QED
      BY <3>1, <3>2, <3>3 DEF Waiting, Queueing
  <2>2. CASE p # "MICHE"
    <3>1. queue'["MICHE"] = queue["MICHE"] /\ me'["MICHE"] = me["MICHE"]
      BY <1>1, <1>2, <2>2, TakesQueue DEF Takes, Moved
    <3>2. QED
      BY <3>1 DEF Waiting, Queueing, Registering
  <2>3. QED
    BY <2>1, <2>2
<1>3. ASSUME NEW p \in Proc, Forward(p) PROVE Waiting(x)
  <2>1. queue' = queue /\ \A q \in Proc \ {p} : me'[q] = me[q]
    BY <1>3 DEF Forward, Private, Moved
  <2>2. Registering' => Registering /\ me'["MICHE"].msg = me["MICHE"].msg
    BY <1>1, <1>3, <2>1, IdlePlace DEF Forward, Registering
  <2>3. QED
    BY <2>1, <2>2 DEF Waiting, Queueing
<1>4. QED
  BY <1>2, <1>3, WorksForward

\* Only SetNo registers.
LEMMA WorksKnown ==
  ASSUME Works
  PROVE  known' = known \/ SetsNo
BY DEF Works, Quiet, Stores, Takes, SetsJan, Books

\* What is due stays a natural number.
LEMMA DueNext ==
  ASSUME Types', NEW o \in Orders
  PROVE  Due(o)' \in Nat
<1>1. rem'[o] \in Nat /\ "MICHE" \in Proc /\ "LEDGER" \in Proc
  BY ConstantFacts DEF Types, Proc
<1>2. ASSUME NEW p \in Proc PROVE InHands(p, o)' \in Nat
  <2>1. me'[p].pc \in Hand => me'[p].msg \in Message
    BY DEF Types, Working, Hand, Idle
  <2>2. me'[p].pc \in Hand => Taking(me'[p].msg, o) \in Nat
    BY <2>1, TakingType
  <2>3. QED
    BY <2>2, HandIs
<1>3. Due(o)' = rem'[o] + (Queued("MICHE", o)' + InHands("MICHE", o)'
                           + Queued("LEDGER", o)' + InHands("LEDGER", o)')
  BY DEF Due, OnTheWay
<1>4. QED
  BY <1>1, <1>2, <1>3, QueuedNext

\* FreshInv: an order that gets known has no other message waiting (OnceInv).
LEMMA FreshWorks ==
  ASSUME Types, Types', FreshInv, OnceInv, KindInv, Works
  PROVE  FreshInv'
<1>1. rem' = rem /\ given' = given /\ \A o \in Orders : Due(o)' <= Due(o)
  BY DueFalls
<1> DEFINE m == me["MICHE"].msg
<1>2. SetsNo => m.no <= given /\ m.no \in Nat /\ m.no > 0 /\ Registering /\ Registers(m)
  <2>1. SetsNo => Registering
    BY DEF SetsNo, Registering
  <2>2. Registering => Registers(m) /\ m \in Message /\ Fresh(m)
    BY FreshIs DEF KindInv
  <2>3. QED
    BY <2>1, <2>2, RegisterTypes DEF Fresh, Orders
<1>3. known' \subseteq 1..given'
  <2>1. given \in Nat /\ known \subseteq 1..given
    BY ConstantFacts DEF FreshInv, Types
  <2>2. CASE known' = known
    BY <1>1, <2>1, <2>2
  <2>3. CASE SetsNo
    <3>1. known' = known \union {m.no}
      BY <2>3 DEF SetsNo
    <3>2. m.no \in 1..given
      BY <1>2, <2>1, <2>3
    <3>3. QED
      BY <1>1, <2>1, <3>1, <3>2
  <2>4. QED
    BY <2>2, <2>3, WorksKnown
<1>4. ASSUME NEW x \in Message, Waiting(x)' PROVE Fresh(x)'
  <2>1. SUFFICES ASSUME Registers(x)
                 PROVE  x.no <= given' /\ x.no \notin known' /\ Due(x.no)' <= x.qty
    BY DEF Fresh, Registers
  <2>2. x.no <= given /\ x.no \notin known /\ Due(x.no) <= x.qty
    BY <1>4, <2>1, WaitingFalls DEF FreshInv, Fresh
  <2>3. Due(x.no)' <= x.qty
    <3>1. x.no \in Orders /\ Due(x.no) \in Int /\ x.qty \in Int
      BY RegisterTypes
    <3>2. Due(x.no)' \in Int
      BY <3>1, DueNext
    <3>3. QED
      BY <1>1, <2>2, <3>1, <3>2
  <2>4. x.no \notin known'
    <3>1. CASE SetsNo
      <4>1. queue' = queue /\ ~Registering'
        BY <3>1, IdlePlace DEF SetsNo, Private, Goes, Registering
      <4>2. PICK i \in 1..Len(queue["MICHE"]) : queue["MICHE"][i] = x
        BY <1>4, <4>1 DEF Waiting, Queueing
      <4>3. x.no # m.no
        BY <1>2, <2>1, <3>1, <4>2 DEF OnceInv
      <4>4. QED
        BY <2>2, <3>1, <4>3 DEF SetsNo
    <3>2. QED
      BY <2>2, <3>1, WorksKnown
  <2>5. QED
    BY <1>1, <2>2, <2>3, <2>4
<1>5. QED
  BY <1>3, <1>4 DEF FreshInv

\* OnceInv: taking a message does not double it.
LEMMA OnceWorks ==
  ASSUME Types, OnceInv, Works
  PROVE  OnceInv'
<1>1. "MICHE" \in Proc
  BY DEF Proc
<1>2. ASSUME NEW p \in Proc, Takes(p) PROVE OnceInv'
  <2>1. CASE p = "MICHE"
    <3> DEFINE n == Len(queue["MICHE"])
    <3>1. /\ n \in Nat /\ n >= 1 /\ Len(queue'["MICHE"]) = n - 1
          /\ queue["MICHE"][1] = Head(queue["MICHE"])
          /\ \A i \in 1..(n - 1) : queue'["MICHE"][i] = queue["MICHE"][i + 1]
      BY <1>2, <2>1, TakesQueue
    <3> HIDE DEF n
    <3>2. 1 \in 1..n /\ \A i \in 1..(n - 1) : i + 1 \in 1..n /\ i + 1 # 1
      BY <3>1
    <3>3. \A i, j \in 1..Len(queue'["MICHE"]) :
            Registers(queue'["MICHE"][i]) /\ Registers(queue'["MICHE"][j]) =>
              (queue'["MICHE"][i].no = queue'["MICHE"][j].no => i = j)
      <4>1. TAKE i, j \in 1..Len(queue'["MICHE"])
      <4>2. /\ i \in 1..(n - 1) /\ j \in 1..(n - 1) /\ i + 1 \in 1..n /\ j + 1 \in 1..n
            /\ queue'["MICHE"][i] = queue["MICHE"][i + 1]
            /\ queue'["MICHE"][j] = queue["MICHE"][j + 1]
        BY <3>1, <3>2
      <4>3. i + 1 = j + 1 => i = j
        BY <4>2
      <4>4. QED
        BY <4>2, <4>3 DEF OnceInv, n
    <3>4. Registering' => /\ me'["MICHE"].msg = queue["MICHE"][1]
                          /\ Registers(queue["MICHE"][1])
      <4>1. Registering' => /\ me'["MICHE"].msg = Head(queue["MICHE"])
                            /\ Registers(Head(queue["MICHE"]))
        BY <1>2, <2>1, IdlePlace
        DEF Takes, Moved, Registering, Registers, FirstPlace
      <4>2. QED
        BY <3>1, <4>1
    <3>5. Registering' => \A i \in 1..Len(queue'["MICHE"]) :
            Registers(queue'["MICHE"][i]) => queue'["MICHE"][i].no # me'["MICHE"].msg.no
      <4>1. SUFFICES ASSUME Registering', NEW i \in 1..Len(queue'["MICHE"]),
                            Registers(queue'["MICHE"][i])
                     PROVE  queue'["MICHE"][i].no # me'["MICHE"].msg.no
        OBVIOUS
      <4>2. i \in 1..(n - 1) /\ i + 1 \in 1..n /\ i + 1 # 1 /\ 1 \in 1..n
            /\ queue'["MICHE"][i] = queue["MICHE"][i + 1]
        BY <3>1, <3>2
      <4>3. QED
        BY <3>4, <4>1, <4>2 DEF OnceInv, n
    <3>6. QED
      BY <3>3, <3>5 DEF OnceInv, Registers
  <2>2. CASE p # "MICHE"
    <3>1. queue'["MICHE"] = queue["MICHE"] /\ me'["MICHE"] = me["MICHE"]
      BY <1>1, <1>2, <2>2, TakesQueue DEF Takes, Moved
    <3>2. QED
      BY <3>1 DEF OnceInv, Registering, Registers
  <2>3. QED
    BY <2>1, <2>2
<1>3. ASSUME NEW p \in Proc, Forward(p) PROVE OnceInv'
  <2>1. queue' = queue /\ \A q \in Proc \ {p} : me'[q] = me[q]
    BY <1>3 DEF Forward, Private, Moved
  <2>2. Registering' => Registering /\ me'["MICHE"].msg = me["MICHE"].msg
    BY <1>1, <1>3, <2>1, IdlePlace DEF Forward, Registering
  <2>3. QED
    BY <2>1, <2>2 DEF OnceInv, Registers
<1>4. QED
  BY <1>2, <1>3, WorksForward

\* NothingEarly: a sending makes something due of numbered orders only.
LEMMA EarlySends ==
  ASSUME Types, NothingEarly,
         NEW p \in Proc, NEW m \in Message, Sends(p, m)
  PROVE  NothingEarly'
<1>1. ASSUME NEW o \in Orders, o > given' PROVE Due(o)' = 0
  <2>1. given \in Nat /\ o \in Nat /\ given' \in {given, given + 1}
        /\ (Registers(m) => m.no = given')
    BY RegisterTypes DEF Sends, Numbered, Orders
  <2>2. o > given /\ ~(Registers(m) /\ o = m.no)
    BY <1>1, <2>1
  <2>3. Due(o) = 0
    BY <2>2 DEF NothingEarly
  <2>4. QED
    BY <2>2, <2>3 DEF Sends
<1>2. QED
  BY <1>1 DEF NothingEarly

\* NothingEarly: what is due does not rise.
LEMMA EarlyWorks ==
  ASSUME Types, Types', NothingEarly, Works
  PROVE  NothingEarly'
<1>1. given' = given /\ \A o \in Orders : Due(o)' <= Due(o)
  BY DueFalls
<1>2. ASSUME NEW o \in Orders, o > given' PROVE Due(o)' = 0
  <2>1. Due(o) = 0
    BY <1>1, <1>2 DEF NothingEarly
  <2>2. Due(o)' \in Nat
    BY DueNext
  <2>3. QED
    BY <1>1, <2>1, <2>2
<1>3. QED
  BY <1>2 DEF NothingEarly

-------------------------------------------------------------------------------
\* The slots of the table

\* A slot holds an order that has been registered, and no order has two.
HolderInv ==
  /\ \A s \in TableSlots : tab[s].no \in known \union {Nobody}
  /\ \A s, t \in TableSlots :
       tab[s].no = tab[t].no /\ tab[s].no # Nobody => s = t

\* Only SetNo changes what a slot holds.
LEMMA WorksHolds ==
  ASSUME Types, Works, ~SetsNo
  PROVE  known' = known /\ \A s \in TableSlots : tab'[s].no = tab[s].no
<1>1. known' = known
  BY WorksKnown
<1>2. ASSUME NEW i, NEW v, tab' = [tab EXCEPT ![i].jan = v]
      PROVE  \A s \in TableSlots : tab'[s].no = tab[s].no
  BY <1>2 DEF Types
<1>3. QED
  BY <1>1, <1>2 DEF Works, Quiet, Stores, Takes, SetsJan, Books

\* MICHE registers an order that is not known, with enough for it.
LEMMA RegistersAt ==
  ASSUME Types, FreshInv, KindInv, Registering
  PROVE  /\ me["MICHE"] \in Working /\ me["MICHE"].i \in TableSlots
         /\ me["MICHE"].msg \in Message /\ Registers(me["MICHE"].msg)
         /\ me["MICHE"].msg.no \notin known /\ me["MICHE"].msg.no \in Orders
         /\ me["MICHE"].msg.no <= given
         /\ Due(me["MICHE"].msg.no) <= me["MICHE"].msg.qty
<1>1. "MICHE" \in Proc
  BY DEF Proc
<1>2. me["MICHE"] \in Working /\ me["MICHE"].i \in TableSlots /\ me["MICHE"].msg \in Message
  BY <1>1, Busy DEF Registering
<1>3. Registers(me["MICHE"].msg) /\ Fresh(me["MICHE"].msg)
  BY FreshIs DEF KindInv
<1>4. QED
  BY <1>2, <1>3, RegisterTypes DEF Fresh

\* The slot that SetNo writes, and the others.
LEMMA SetsNoHolds ==
  ASSUME Types, FreshInv, KindInv, SetsNo
  PROVE  /\ me["MICHE"].i \in TableSlots
         /\ tab'[me["MICHE"].i].no = me["MICHE"].msg.no
         /\ \A s \in TableSlots \ {me["MICHE"].i} : tab'[s] = tab[s]
         /\ \A s \in TableSlots : tab'[s].jan = tab[s].jan
         /\ Registering /\ known' = known \union {me["MICHE"].msg.no}
<1>1. Registering
  BY DEF SetsNo, Registering
<1>2. me["MICHE"].i \in TableSlots
  BY <1>1, RegistersAt
<1>3. tab' = [tab EXCEPT ![me["MICHE"].i].no = me["MICHE"].msg.no]
  BY DEF SetsNo
<1>4. QED
  BY <1>1, <1>2, <1>3 DEF Types, SetsNo

\* HolderInv: the order that SetNo puts in is in no other slot.
LEMMA HolderWorks ==
  ASSUME Types, FreshInv, KindInv, HolderInv, Works
  PROVE  HolderInv'
<1>1. CASE SetsNo
  <2> DEFINE i == me["MICHE"].i
             n == me["MICHE"].msg.no
  <2>1. /\ i \in TableSlots /\ tab'[i].no = n /\ Registering
        /\ \A s \in TableSlots \ {i} : tab'[s] = tab[s]
        /\ known' = known \union {n}
    BY <1>1, SetsNoHolds
  <2>2. n \notin known /\ n \in Orders /\ n # Nobody
    BY <2>1, RegistersAt DEF Orders, Nobody
  <2> HIDE DEF i, n
  <2>3. \A s \in TableSlots \ {i} : tab'[s].no = tab[s].no /\ tab[s].no # n
    BY <2>1, <2>2 DEF HolderInv
  <2>4. \A s \in TableSlots : tab'[s].no \in known' \union {Nobody}
    BY <2>1, <2>3 DEF HolderInv
  <2>5. \A s, t \in TableSlots :
          tab'[s].no = tab'[t].no /\ tab'[s].no # Nobody => s = t
    BY <2>1, <2>3 DEF HolderInv
  <2>6. QED
    BY <2>4, <2>5 DEF HolderInv, TableSlots, Nobody
<1>2. CASE ~SetsNo
  BY <1>2, WorksHolds DEF HolderInv, TableSlots, Nobody
<1>3. QED
  BY <1>1, <1>2

\* HolderInv: the exchange does not touch the table.
LEMMA HolderSends ==
  ASSUME HolderInv, NEW p, NEW m, Sends(p, m)
  PROVE  HolderInv'
BY DEF HolderInv, Sends, TableSlots, Nobody

-------------------------------------------------------------------------------
\* The table shows enough

\* p has found the slot and has not stored yet.
Reducing(p) == me[p].pc \in {"check", "load", "store"}

\* Nothing is due of the order whose slot is being given to another; the slot
\* shows the new order's quantity before its number.
FreeInv ==
  /\ me["MICHE"].pc \in {"count", "jan", "no"} =>
       \A o \in Orders : tab[me["MICHE"].i].no = o => Due(o) = 0
  /\ me["MICHE"].pc = "no" => tab[me["MICHE"].i].jan = me["MICHE"].msg.qty

\* A process that reduces an order has found its slot, and has read enough.
ReduceInv ==
  \A p \in Proc :
    /\ Reducing(p) => tab[me[p].i].no = Target(me[p].msg)
    /\ me[p].pc = "store" =>
         \A o \in Orders : o = Target(me[p].msg) => me[p].reg >= Due(o)

\* NeverUnderstated, in terms of what is due.
EnoughInv ==
  \A o \in known : Due(o) > 0 =>
    \E i \in TableSlots : tab[i].no = o /\ tab[i].jan >= Due(o)

\* The quantity in the hand of a process that reduces is due of its order.
LEMMA ReducesDue ==
  ASSUME Types, KindInv, NEW p \in Proc, Reducing(p)
  PROVE  /\ me[p] \in Working /\ me[p].i \in TableSlots /\ me[p].reg \in Int
         /\ Target(me[p].msg) \in Orders
         /\ me[p].msg.qty \in Nat /\ me[p].msg.qty > 0
         /\ \A o \in Orders :
              InHands(p, o) =
                IF o = Target(me[p].msg) THEN me[p].msg.qty ELSE 0
         /\ \A o \in Orders :
              o = Target(me[p].msg) => Due(o) >= me[p].msg.qty
<1>1. me[p] \in Working
  BY Busy DEF Reducing
<1>2. /\ me[p].i \in TableSlots /\ me[p].reg \in Int /\ me[p].msg \in Message
      /\ me[p].pc \in Hand /\ me[p].msg.kind # "new"
  BY <1>1 DEF Working, Hand, Reducing, KindInv
<1>3. /\ Target(me[p].msg) \in Orders
      /\ me[p].msg.qty \in Nat /\ me[p].msg.qty > 0
  BY <1>2, RegisterTypes DEF Message
<1>4. \A o \in Orders :
        InHands(p, o) = IF o = Target(me[p].msg) THEN me[p].msg.qty ELSE 0
  BY <1>2, HandIs DEF Taking
<1>5. ASSUME NEW o \in Orders, o = Target(me[p].msg)
      PROVE  Due(o) >= me[p].msg.qty
  <2>1. InHands(p, o) = me[p].msg.qty
    BY <1>4, <1>5
  <2>2. \A q \in Proc : Queued(q, o) \in Nat /\ InHands(q, o) \in Nat
    BY DueParts
  <2>3. p = "MICHE" \/ p = "LEDGER"
    BY DEF Proc
  <2>4. "MICHE" \in Proc /\ "LEDGER" \in Proc
    BY DEF Proc
  <2>5. QED
    BY <1>3, <2>1, <2>2, <2>3, <2>4, DueParts
<1>6. QED
  BY <1>1, <1>2, <1>3, <1>4, <1>5

\* The slot that holds an order shows enough of it, there being no other.
LEMMA SlotShows ==
  ASSUME Types, HolderInv, EnoughInv, NEW s \in TableSlots,
         NEW o \in Orders, tab[s].no = o, Due(o) > 0
  PROVE  tab[s].jan >= Due(o)
<1>1. o # Nobody
  BY DEF Orders, Nobody
<1>2. o \in known
  BY <1>1 DEF HolderInv
<1>3. PICK i \in TableSlots : tab[i].no = o /\ tab[i].jan >= Due(o)
  BY <1>2 DEF EnoughInv
<1>4. i = s
  BY <1>1, <1>3 DEF HolderInv
<1>5. QED
  BY <1>3, <1>4

\* Nobody reduces an order in the slot that MICHE is giving away.
LEMMA OtherSlot ==
  ASSUME Types, KindInv, FreeInv, ReduceInv,
         NEW p \in Proc, Reducing(p), me["MICHE"].pc \in {"count", "jan", "no"}
  PROVE  me[p].i # me["MICHE"].i
<1>1. tab[me[p].i].no = Target(me[p].msg)
  BY DEF ReduceInv
<1>2. \A o \in Orders : o = Target(me[p].msg) => Due(o) > 0
  BY ReducesDue, DueParts
<1>3. Target(me[p].msg) \in Orders
  BY ReducesDue
<1>4. QED
  BY <1>1, <1>2, <1>3 DEF FreeInv

\* What is due of a registered order is not changed by the exchange.
LEMMA DueOfKnown ==
  ASSUME Types, FreshInv, NEW p, NEW m \in Message, Sends(p, m),
         NEW o \in known
  PROVE  Due(o)' = Due(o)
<1>1. o \in Orders /\ o <= given /\ given \in Nat /\ o \in Nat
  BY RegisterTypes DEF FreshInv, Types, Orders
<1>2. Registers(m) => m.no = given + 1
  BY DEF Sends, Numbered
<1>3. QED
  BY <1>1, <1>2 DEF Sends

\* FreeInv when a message is sent: nothing more gets due of a known order.
LEMMA FreeSends ==
  ASSUME Types, FreshInv, HolderInv, FreeInv,
         NEW p \in Proc, NEW m \in Message, Sends(p, m)
  PROVE  FreeInv'
<1>1. me' = me /\ tab' = tab
  BY DEF Sends
<1>2. ASSUME me["MICHE"].pc \in {"count", "jan", "no"}, NEW o \in Orders,
             tab[me["MICHE"].i].no = o
      PROVE  Due(o)' = 0
  <2>1. me["MICHE"].i \in TableSlots
    BY <1>2, Busy DEF Proc
  <2>2. o \in known
    BY <1>2, <2>1 DEF HolderInv, Orders, Nobody
  <2>3. Due(o) = 0
    BY <1>2 DEF FreeInv
  <2>4. QED
    BY <2>2, <2>3, DueOfKnown
<1>3. QED
  BY <1>1, <1>2 DEF FreeInv

\* EnoughInv when a message is sent: likewise.
LEMMA EnoughSends ==
  ASSUME Types, FreshInv, EnoughInv,
         NEW p \in Proc, NEW m \in Message, Sends(p, m)
  PROVE  EnoughInv'
<1>1. known' = known /\ tab' = tab
  BY DEF Sends
<1>2. \A o \in known : Due(o)' = Due(o)
  BY DueOfKnown
<1>3. QED
  BY <1>1, <1>2 DEF EnoughInv, TableSlots

\* ReduceInv when a message is sent: likewise.
LEMMA ReduceSends ==
  ASSUME Types, FreshInv, HolderInv, KindInv, ReduceInv,
         NEW p \in Proc, NEW m \in Message, Sends(p, m)
  PROVE  ReduceInv'
<1>1. me' = me /\ tab' = tab
  BY DEF Sends
<1>2. ASSUME NEW q \in Proc, me[q].pc = "store", NEW o \in Orders,
             o = Target(me[q].msg)
      PROVE  me[q].reg >= Due(o)'
  <2>1. tab[me[q].i].no = o /\ me[q].reg >= Due(o) /\ me[q].i \in TableSlots
    BY <1>2, ReducesDue DEF ReduceInv, Reducing
  <2>2. o \in known
    BY <2>1 DEF HolderInv, Orders, Nobody
  <2>3. QED
    BY <2>1, <2>2, DueOfKnown
<1>3. QED
  BY <1>1, <1>2 DEF ReduceInv, Reducing, Target

\* The step that stores takes its quantity off what is due.
LEMMA StoresDue ==
  ASSUME Types, Types', KindInv, NEW p \in Proc, Stores(p),
         NEW o \in Orders, o = Target(me[p].msg)
  PROVE  Due(o)' = Due(o) - me[p].msg.qty
<1>1. Reducing(p)
  BY DEF Stores, Reducing
<1>2. InHands(p, o) = me[p].msg.qty /\ me[p].msg.qty \in Nat
  BY <1>1, ReducesDue
<1>3. me'[p].msg = me[p].msg /\ me'[p].pc \notin Hand /\ me[p] \in Working
      /\ Moved(p, me'[p]) /\ Private
  BY DEF Stores, Goes, Hand
<1>4. InHands(p, o)' = 0
  BY <1>3, HandIs
<1>5. Due(o)' = Due(o) - InHands(p, o) + InHands(p, o)'
  <2>1. me'[p].msg = me[p].msg /\ (me'[p].pc \in Hand => me[p].pc \in Hand)
    BY <1>3
  <2>2. Private /\ Moved(p, me'[p]) /\ me[p] \in Working
    BY <1>3
  <2>3. QED
    BY <2>1, <2>2, HandFalls
<1>6. QED
  BY <1>2, <1>4, <1>5, DueParts

\* The steps that write a slot, and how.
LEMMA WorksTab ==
  ASSUME Types, FreshInv, KindInv, Works
  PROVE  \/ tab' = tab
         \/ SetsNo
         \/ /\ SetsJan /\ Registering
            /\ me["MICHE"].i \in TableSlots
            /\ tab'[me["MICHE"].i].jan = me["MICHE"].msg.qty
            /\ tab'[me["MICHE"].i].no = tab[me["MICHE"].i].no
            /\ \A s \in TableSlots \ {me["MICHE"].i} : tab'[s] = tab[s]
         \/ \E p \in Proc :
              /\ Stores(p) /\ Reducing(p)
              /\ tab'[me[p].i].jan = me[p].reg - me[p].msg.qty
              /\ tab'[me[p].i].no = tab[me[p].i].no
              /\ \A s \in TableSlots \ {me[p].i} : tab'[s] = tab[s]
<1>1. CASE SetsJan
  <2>1. Registering
    BY <1>1 DEF SetsJan, Registering
  <2>2. me["MICHE"].i \in TableSlots
    BY <2>1, RegistersAt
  <2>3. tab' = [tab EXCEPT ![me["MICHE"].i].jan = me["MICHE"].msg.qty]
    BY <1>1 DEF SetsJan
  <2>4. QED
    BY <1>1, <2>1, <2>2, <2>3 DEF Types
<1>2. ASSUME NEW p \in Proc, Stores(p)
      PROVE  /\ Reducing(p)
             /\ tab'[me[p].i].jan = me[p].reg - me[p].msg.qty
             /\ tab'[me[p].i].no = tab[me[p].i].no
             /\ \A s \in TableSlots \ {me[p].i} : tab'[s] = tab[s]
  <2>1. Reducing(p)
    BY <1>2 DEF Stores, Reducing
  <2>2. me[p].i \in TableSlots
    BY <2>1, ReducesDue
  <2>3. tab' = [tab EXCEPT ![me[p].i].jan = me[p].reg - me[p].msg.qty]
    BY <1>2 DEF Stores
  <2>4. QED
    BY <2>1, <2>2, <2>3 DEF Types
<1>3. QED
  BY <1>1, <1>2 DEF Works, Quiet, Takes, Books

\* EnoughInv: a store takes off no more than its message takes off what is due.
LEMMA EnoughWorks ==
  ASSUME Types, Types', FreshInv, KindInv, HolderInv, FreeInv,
         ReduceInv, EnoughInv, Works
  PROVE  EnoughInv'
<1>1. \A o \in Orders : Due(o)' <= Due(o) /\ Due(o) \in Nat /\ Due(o)' \in Nat
  BY DueFalls, DueParts, DueNext
<1>2. known \subseteq Orders /\ known' \subseteq Orders
  BY DEF Types
<1>3. \A s \in TableSlots : tab[s].jan \in Int /\ tab'[s].jan \in Int
  BY DEF Types
<1>4. CASE SetsNo
  <2> DEFINE i == me["MICHE"].i
  <2>1. /\ i \in TableSlots /\ tab'[i].no = me["MICHE"].msg.no /\ Registering
        /\ \A s \in TableSlots \ {i} : tab'[s] = tab[s]
        /\ \A s \in TableSlots : tab'[s].jan = tab[s].jan
        /\ known' = known \union {me["MICHE"].msg.no}
    BY <1>4, SetsNoHolds
  <2>2. PICK n \in Orders :
          /\ n = me["MICHE"].msg.no /\ Due(n) <= me["MICHE"].msg.qty
          /\ me["MICHE"].msg.qty \in Int
    BY <2>1, RegistersAt, RegisterTypes
  <2>3. /\ tab[i].jan = me["MICHE"].msg.qty
        /\ \A o \in Orders : tab[i].no = o => Due(o) = 0
    BY <1>4 DEF FreeInv, SetsNo
  <2> HIDE DEF i
  <2>4. tab'[i].jan >= Due(n)' /\ tab'[i].no = n /\ known' = known \union {n}
    BY <1>1, <2>1, <2>2, <2>3
  <2>5. ASSUME NEW o \in known, Due(o)' > 0
        PROVE  \E s \in TableSlots : tab'[s].no = o /\ tab'[s].jan >= Due(o)'
    <3>1. o \in Orders /\ Due(o) > 0
      BY <1>1, <1>2, <2>5
    <3>2. PICK s \in TableSlots : tab[s].no = o /\ tab[s].jan >= Due(o)
      BY <3>1 DEF EnoughInv
    <3>3. s # i
      BY <2>3, <3>1, <3>2
    <3>4. tab'[s] = tab[s]
      BY <2>1, <3>3
    <3>5. QED
      BY <1>1, <1>3, <3>1, <3>2, <3>4
  <2>6. ASSUME NEW o \in known', Due(o)' > 0
        PROVE  \E s \in TableSlots : tab'[s].no = o /\ tab'[s].jan >= Due(o)'
    BY <2>1, <2>4, <2>5, <2>6
  <2>7. QED
    BY <2>6 DEF EnoughInv, TableSlots
<1>5. CASE ~SetsNo
  <2>1. known' = known /\ \A s \in TableSlots : tab'[s].no = tab[s].no
    BY <1>5, WorksHolds
  <2>2. ASSUME NEW o \in known, Due(o)' > 0
        PROVE  \E s \in TableSlots : tab'[s].no = o /\ tab'[s].jan >= Due(o)'
    <3>1. o \in Orders /\ Due(o) > 0
      BY <1>1, <1>2, <2>2
    <3>2. PICK s \in TableSlots : tab[s].no = o /\ tab[s].jan >= Due(o)
      BY <3>1 DEF EnoughInv
    <3>3. CASE tab'[s] = tab[s]
      BY <1>1, <1>3, <3>1, <3>2, <3>3
    <3>4. CASE SetsJan
      <4>1. \A x \in TableSlots \ {me["MICHE"].i} : tab'[x] = tab[x]
        BY <3>4 DEF SetsJan, Types
      <4>2. s # me["MICHE"].i
        BY <3>1, <3>2, <3>4 DEF FreeInv, SetsJan
      <4>3. QED
        BY <3>3, <4>1, <4>2
    <3>5. ASSUME NEW p \in Proc, Stores(p), Reducing(p), s = me[p].i,
                 tab'[me[p].i].jan = me[p].reg - me[p].msg.qty
          PROVE  tab'[s].no = o /\ tab'[s].jan >= Due(o)'
      <4>1. o = Target(me[p].msg)
        BY <3>2, <3>5 DEF ReduceInv
      <4>2. Due(o)' = Due(o) - me[p].msg.qty
        BY <3>1, <3>5, <4>1, StoresDue
      <4>3. me[p].reg >= Due(o)
        BY <3>1, <3>5, <4>1 DEF ReduceInv, Stores
      <4>4. me[p].reg \in Int /\ me[p].msg.qty \in Int
        BY <3>5, ReducesDue
      <4>5. QED
        BY <1>1, <2>1, <3>1, <3>2, <3>5, <4>2, <4>3, <4>4
    <3>6. QED
      BY <1>5, <3>3, <3>4, <3>5, WorksTab
  <2>3. QED
    BY <2>1, <2>2 DEF EnoughInv, TableSlots
<1>6. QED
  BY <1>4, <1>5

\* Where MICHE is with a slot it has chosen, and where it was before.
LEMMA ChosenBefore ==
  ASSUME Types, Works, me'["MICHE"].pc \in {"count", "jan", "no"}
  PROVE  \/ /\ me["MICHE"].pc = "seek" /\ tab' = tab /\ me'["MICHE"].pc = "count"
            /\ \E s \in TableSlots : tab[s].jan <= 0 /\ me'["MICHE"].i = s
         \/ /\ me["MICHE"].pc \in {"count", "jan", "no"}
            /\ me'["MICHE"].i = me["MICHE"].i /\ me'["MICHE"].msg = me["MICHE"].msg
            /\ \/ SetsJan
               \/ me'["MICHE"].pc # "no"
               \/ me' ["MICHE"] = me["MICHE"]
<1>1. "MICHE" \in Proc /\ "LEDGER" \in Proc
  BY DEF Proc
<1>2. me'["MICHE"] # Idle
  BY IdlePlace
<1>3. ASSUME NEW p \in Proc, p # "MICHE", Quiet(p) \/ Stores(p) \/ Takes(p)
      PROVE  me'["MICHE"] = me["MICHE"]
  BY <1>1, <1>3 DEF Quiet, Stores, Takes, Goes, Moved
<1>4. CASE Quiet("MICHE")
  BY <1>2, <1>4 DEF Quiet, Goes
<1>5. CASE Stores("MICHE")
  BY <1>5 DEF Stores, Goes
<1>6. CASE Takes("MICHE")
  BY <1>2, <1>6 DEF Takes, Moved, FirstPlace
<1>7. CASE SetsJan
  BY <1>7 DEF SetsJan, Goes
<1>8. CASE SetsNo
  BY <1>2, <1>8 DEF SetsNo, Goes
<1>9. CASE Books
  BY <1>1, <1>3, <1>9 DEF Books
<1>10. QED
  BY <1>3, <1>4, <1>5, <1>6, <1>7, <1>8, <1>9 DEF Works

\* FreeInv: a slot without anything open holds an order of which nothing is due.
LEMMA FreeWorks ==
  ASSUME Types, Types', FreshInv, KindInv, HolderInv, FreeInv,
         ReduceInv, EnoughInv, Works
  PROVE  FreeInv'
<1>1. \A o \in Orders : Due(o)' <= Due(o) /\ Due(o) \in Nat /\ Due(o)' \in Nat
  BY DueFalls, DueParts, DueNext
<1>2. ASSUME me'["MICHE"].pc \in {"count", "jan", "no"}
      PROVE  /\ \A o \in Orders : tab'[me'["MICHE"].i].no = o => Due(o)' = 0
             /\ me'["MICHE"].pc = "no" => tab'[me'["MICHE"].i].jan = me'["MICHE"].msg.qty
  <2>1. CASE /\ me["MICHE"].pc = "seek" /\ tab' = tab /\ me'["MICHE"].pc = "count"
             /\ \E s \in TableSlots : tab[s].jan <= 0 /\ me'["MICHE"].i = s
    <3>1. PICK s \in TableSlots : tab[s].jan <= 0 /\ me'["MICHE"].i = s
      BY <2>1
    <3>2. ASSUME NEW o \in Orders, tab[s].no = o PROVE Due(o) = 0
      <4>1. Due(o) > 0 => tab[s].jan >= Due(o)
        BY <3>2, SlotShows
      <4>2. tab[s].jan \in Int
        BY DEF Types
      <4>3. QED
        BY <1>1, <3>1, <4>1, <4>2
    <3>3. QED
      BY <1>1, <2>1, <3>1, <3>2
  <2>2. CASE /\ me["MICHE"].pc \in {"count", "jan", "no"}
             /\ me'["MICHE"].i = me["MICHE"].i /\ me'["MICHE"].msg = me["MICHE"].msg
             /\ \/ SetsJan
                \/ me'["MICHE"].pc # "no"
                \/ me'["MICHE"] = me["MICHE"]
    <3> DEFINE i == me["MICHE"].i
    <3>1. ~SetsNo
      <4>1. SetsNo => me'["MICHE"].pc \notin {"count", "jan", "no"}
        BY IdlePlace DEF SetsNo, Goes
      <4>2. QED
        BY <1>2, <4>1
    <3>2. Registering
      BY <2>2 DEF Registering
    <3>3. i \in TableSlots
      BY <3>2, RegistersAt
    <3>4. tab'[i].no = tab[i].no
      BY <3>1, <3>3, WorksHolds
    <3>5. \A o \in Orders : tab[i].no = o => Due(o) = 0
      BY <2>2 DEF FreeInv
    <3>6. \A o \in Orders : tab'[i].no = o => Due(o)' = 0
      BY <1>1, <3>4, <3>5
    <3>7. me'["MICHE"].pc = "no" => tab'[i].jan = me["MICHE"].msg.qty
      <4>1. SUFFICES ASSUME me'["MICHE"].pc = "no" PROVE tab'[i].jan = me["MICHE"].msg.qty
        OBVIOUS
      <4>2. CASE SetsJan
        BY <3>3, <4>2 DEF SetsJan, Types
      <4>3. CASE ~SetsJan
        <5>1. me'["MICHE"] = me["MICHE"] /\ tab[i].jan = me["MICHE"].msg.qty
          BY <2>2, <4>1, <4>3 DEF FreeInv
        <5>2. ASSUME NEW p \in Proc, Reducing(p) PROVE me[p].i # i
          BY <2>2, <5>2, OtherSlot
        <5>3. tab'[i] = tab[i]
          BY <3>1, <3>3, <4>3, <5>2, WorksTab
        <5>4. QED
          BY <5>1, <5>3
      <4>4. QED
        BY <4>2, <4>3
    <3>8. QED
      BY <2>2, <3>6, <3>7
  <2>3. QED
    BY <1>2, <2>1, <2>2, ChosenBefore
<1>3. QED
  BY <1>2 DEF FreeInv

\* Where a process is that reduces an order, and where it was before.
LEMMA ReducedBefore ==
  ASSUME Types, Works, NEW p \in Proc,
         me'[p].pc \in {"check", "load", "store"}
  PROVE  \/ me'[p] = me[p] /\ Reducing(p)
         \/ /\ me'[p].msg = me[p].msg /\ tab' = tab /\ me[p] \in Working
            /\ \/ /\ me'[p].pc # "store" /\ me'[p].i \in TableSlots
                  /\ tab[me'[p].i].no = Target(me[p].msg)
               \/ Reducing(p) /\ me'[p].pc # "store" /\ me'[p].i = me[p].i
               \/ Reducing(p) /\ me'[p].i = me[p].i /\ me'[p].reg = tab[me[p].i].jan
<1>1. "MICHE" \in Proc /\ "LEDGER" \in Proc
  BY DEF Proc
<1>2. me'[p] # Idle
  BY IdlePlace
<1>3. ASSUME NEW q \in Proc, q # p, Quiet(q) \/ Stores(q) \/ Takes(q)
      PROVE  me'[p] = me[p]
  BY <1>3 DEF Quiet, Stores, Takes, Goes, Moved
<1>4. CASE Quiet(p)
  <2>1. tab' = tab /\ me[p] \in Working
    BY <1>4 DEF Quiet
  <2>2. me'[p].pc \notin {"count", "jan", "find", "dec", "book"}
    OBVIOUS
  <2>3. QED
    BY <1>2, <1>4, <2>1, <2>2 DEF Quiet, Goes, Reducing
<1>5. CASE Stores(p)
  BY <1>5 DEF Stores, Goes
<1>6. CASE Takes(p)
  BY <1>2, <1>6 DEF Takes, Moved, FirstPlace
<1>7. CASE SetsJan
  <2>1. p # "MICHE"
    BY <1>7 DEF SetsJan, Goes
  <2>2. me'[p] = me[p]
    BY <1>7, <2>1 DEF SetsJan, Goes, Moved
  <2>3. QED
    BY <2>2 DEF Reducing
<1>8. CASE SetsNo
  <2>1. p # "MICHE"
    BY <1>2, <1>8 DEF SetsNo, Goes
  <2>2. me'[p] = me[p]
    BY <1>8, <2>1 DEF SetsNo, Moved
  <2>3. QED
    BY <2>2 DEF Reducing
<1>9. CASE Books
  <2>1. p # "LEDGER"
    BY <1>2, <1>9 DEF Books
  <2>2. me'[p] = me[p]
    BY <1>1, <1>3, <1>9, <2>1 DEF Books
  <2>3. QED
    BY <2>2 DEF Reducing
<1>10. QED
  <2>1. ASSUME NEW q \in Proc, q # p, Quiet(q) \/ Stores(q) \/ Takes(q)
        PROVE  me'[p] = me[p] /\ Reducing(p)
    BY <1>3, <2>1 DEF Reducing
  <2>2. QED
    BY <2>1, <1>4, <1>5, <1>6, <1>7, <1>8, <1>9 DEF Works

\* ReduceInv: what a process has read stays enough, since what is due only falls.
LEMMA ReduceWorks ==
  ASSUME Types, Types', FreshInv, KindInv, HolderInv, FreeInv,
         ReduceInv, EnoughInv, Works
  PROVE  ReduceInv'
<1>1. \A o \in Orders : Due(o)' <= Due(o) /\ Due(o) \in Nat /\ Due(o)' \in Nat
  BY DueFalls, DueParts, DueNext
<1>2. ASSUME NEW p \in Proc, me'[p].pc \in {"check", "load", "store"}
      PROVE  /\ tab'[me'[p].i].no = Target(me'[p].msg)
             /\ me'[p].pc = "store" => \A o \in Orders :
                  o = Target(me'[p].msg) => me'[p].reg >= Due(o)'
  <2>1. CASE me'[p] = me[p] /\ Reducing(p)
    <3>1. /\ me[p].i \in TableSlots /\ me[p].reg \in Int
          /\ tab[me[p].i].no = Target(me[p].msg)
      BY <2>1, ReducesDue DEF ReduceInv
    <3>2. tab'[me[p].i].no = tab[me[p].i].no
      <4>1. CASE SetsNo
        <5>1. me["MICHE"].pc = "no"
          BY <4>1 DEF SetsNo
        <5>2. me[p].i # me["MICHE"].i
          BY <2>1, <5>1, OtherSlot
        <5>3. QED
          BY <3>1, <4>1, <5>2, SetsNoHolds
      <4>2. CASE ~SetsNo
        BY <3>1, <4>2, WorksHolds
      <4>3. QED
        BY <4>1, <4>2
    <3>3. me[p].pc = "store" => \A o \in Orders :
            o = Target(me[p].msg) => me[p].reg >= Due(o)'
      <4>1. SUFFICES ASSUME me[p].pc = "store", NEW o \in Orders,
                            o = Target(me[p].msg)
                     PROVE  me[p].reg >= Due(o)'
        OBVIOUS
      <4>2. me[p].reg >= Due(o)
        BY <4>1 DEF ReduceInv
      <4>3. QED
        BY <1>1, <3>1, <4>2
    <3>4. QED
      BY <2>1, <3>1, <3>2, <3>3
  <2>2. CASE /\ me'[p].pc # "store" /\ me'[p].i \in TableSlots /\ me'[p].msg = me[p].msg
             /\ tab' = tab /\ tab[me'[p].i].no = Target(me[p].msg)
    BY <2>2
  <2>3. CASE /\ Reducing(p) /\ me'[p].pc # "store" /\ me'[p].i = me[p].i
             /\ me'[p].msg = me[p].msg /\ tab' = tab
    BY <2>3 DEF ReduceInv
  <2>4. CASE /\ Reducing(p) /\ me'[p].i = me[p].i /\ me'[p].msg = me[p].msg
             /\ me'[p].reg = tab[me[p].i].jan /\ tab' = tab
    <3>1. tab[me[p].i].no = Target(me[p].msg)
      BY <2>4 DEF ReduceInv
    <3>2. me[p].i \in TableSlots /\ tab[me[p].i].jan \in Int
      BY <2>4, ReducesDue DEF Types
    <3>3. ASSUME NEW o \in Orders, o = Target(me[p].msg)
          PROVE  tab[me[p].i].jan >= Due(o)'
      <4>1. Due(o) > 0
        BY <1>1, <2>4, <3>3, ReducesDue
      <4>2. tab[me[p].i].jan >= Due(o)
        BY <3>1, <3>2, <3>3, <4>1, SlotShows
      <4>3. QED
        BY <1>1, <3>2, <4>2
    <3>4. QED
      BY <2>4, <3>1, <3>3
  <2>5. QED
    BY <1>2, <2>1, <2>2, <2>3, <2>4, ReducedBefore
<1>3. QED
  BY <1>2 DEF ReduceInv, Reducing, Target

-------------------------------------------------------------------------------
\* No more is booked of an order than was ordered.

\* What LEDGER holds and has not booked.
ToBook(o) ==
  IF me["LEDGER"].pc # "idle" THEN Taking(me["LEDGER"].msg, o) ELSE 0

\* What is booked of an order and what may still be.
Sold(o) == booked[o] + Bookable(o) + ToBook(o)

\* It is never more than was ordered.
SoldInv == \A o \in Orders : Sold(o) <= Quantity /\ (o > given => Sold(o) = 0)

\* The parts of it are natural numbers ...
LEMMA SoldTypes ==
  ASSUME Types, NEW o \in Orders
  PROVE  /\ booked[o] \in Nat /\ rem[o] \in Nat
         /\ Queued("LEDGER", o) \in Nat /\ ToBook(o) \in Nat
         /\ Bookable(o) = rem[o] + Queued("LEDGER", o)
         /\ Quantity \in Nat /\ o \in Nat /\ given \in Nat
<1>1. "LEDGER" \in Proc
  BY DEF Proc
<1>2. me["LEDGER"].pc # "idle" => me["LEDGER"].msg \in Message
  BY <1>1, Busy
<1>3. ToBook(o) \in Nat
  BY <1>2, TakingType DEF ToBook
<1>4. booked[o] \in Nat /\ o \in Nat /\ given \in Nat
  <2>1. booked[o] \in Nat
    BY DEF Types
  <2>2. o \in Nat /\ given \in Nat
    BY ConstantFacts DEF Types, Orders
  <2>3. QED
    BY <2>1, <2>2
<1>5. rem[o] \in Nat /\ Queued("LEDGER", o) \in Nat
  BY <1>1, DueParts
<1>6. QED
  BY <1>3, <1>4, <1>5, ConstantFacts DEF Bookable

\* ... and stay so.
LEMMA SoldNext ==
  ASSUME Types', NEW o \in Orders
  PROVE  /\ booked'[o] \in Nat /\ rem'[o] \in 0..Quantity
         /\ Queued("LEDGER", o)' \in Nat /\ ToBook(o)' \in Nat
         /\ Bookable(o)' = rem'[o] + Queued("LEDGER", o)'
         /\ Sold(o)' = booked'[o] + Bookable(o)' + ToBook(o)'
<1>1. "LEDGER" \in Proc
  BY DEF Proc
<1>2. me'["LEDGER"].pc # "idle" => me'["LEDGER"].msg \in Message
  BY <1>1 DEF Types, Working, Idle
<1>3. me'["LEDGER"].pc # "idle" => Taking(me'["LEDGER"].msg, o) \in Nat
  BY <1>2, TakingType
<1>4. ToBook(o)' \in Nat
  BY <1>3 DEF ToBook, Taking, Target
<1>5. booked'[o] \in Nat /\ rem'[o] \in 0..Quantity
  BY DEF Types
<1>6. Queued("LEDGER", o)' \in Nat
  BY <1>1, QueuedNext
<1>7. QED
  BY <1>4, <1>5, <1>6 DEF Bookable, Sold

\* SoldInv when a message is sent: a fill moves its quantity from what is left.
LEMMA SoldSends ==
  ASSUME Types, Types', SoldInv,
         NEW p \in Proc, NEW m \in Message, Sends(p, m)
  PROVE  SoldInv'
<1>1. /\ given' \in {given, given + 1} /\ me' = me /\ booked' = booked
      /\ Registers(m) => m.no = given + 1 /\ given' = given + 1
  BY DEF Sends, Numbered
<1>2. ASSUME NEW o \in Orders
      PROVE  Sold(o)' <= Quantity /\ (o > given' => Sold(o)' = 0)
  <2>1. ToBook(o)' = ToBook(o) /\ booked'[o] = booked[o]
    BY <1>1 DEF ToBook, Taking, Target
  <2>2. Sold(o) = booked[o] + Bookable(o) + ToBook(o)
        /\ Sold(o) <= Quantity /\ (o > given => Sold(o) = 0)
    BY DEF SoldInv, Sold
  <2>3. CASE Bookable(o)' <= Bookable(o)
    <3>1. Sold(o)' <= Sold(o) /\ Sold(o)' \in Nat /\ Sold(o) \in Nat
      BY <2>1, <2>2, <2>3, SoldTypes, SoldNext
    <3>2. o > given' => o > given
      BY <1>1, SoldTypes
    <3>3. QED
      BY <2>2, <3>1, <3>2, SoldTypes
  <2>4. CASE /\ Registers(m) /\ o = m.no
             /\ Queued("LEDGER", o)' = Queued("LEDGER", o)
    <3>1. o > given /\ ~(o > given')
      BY <1>1, <2>4, SoldTypes
    <3>2. booked[o] = 0 /\ Queued("LEDGER", o) = 0 /\ ToBook(o) = 0
      BY <2>2, <3>1, SoldTypes
    <3>3. Sold(o)' = rem'[o]
      BY <2>1, <2>4, <3>2, SoldNext
    <3>4. QED
      BY <3>1, <3>3, SoldNext, ConstantFacts
  <2>5. QED
    BY <2>3, <2>4 DEF Sends
<1>3. QED
  BY <1>2 DEF SoldInv

\* SoldInv: a fill taken is booked or lost.
LEMMA SoldWorks ==
  ASSUME Types, Types', KindInv, SoldInv, Works
  PROVE  SoldInv'
<1>1. "MICHE" \in Proc /\ "LEDGER" \in Proc
  BY DEF Proc
<1>2. rem' = rem /\ given' = given
  BY DueFalls
<1>3. SUFFICES ASSUME NEW o \in Orders PROVE Sold(o)' <= Sold(o)
  <2>1. ASSUME NEW x \in Orders
        PROVE  Sold(x)' <= Quantity /\ (x > given' => Sold(x)' = 0)
    <3>1. Sold(x)' <= Sold(x)
      BY <1>3
    <3>2. Sold(x) \in Nat /\ Sold(x)' \in Nat /\ Quantity \in Nat
      BY SoldTypes, SoldNext DEF Sold
    <3>3. Sold(x) <= Quantity /\ (x > given => Sold(x) = 0)
      BY DEF SoldInv
    <3>4. QED
      BY <1>2, <3>1, <3>2, <3>3
  <2>2. QED
    BY <2>1 DEF SoldInv
<1>4. Sold(o) = booked[o] + Bookable(o) + ToBook(o)
  BY DEF Sold
<1>5. ASSUME NEW p \in Proc, Takes(p) PROVE Sold(o)' <= Sold(o)
  <2>1. booked' = booked
    BY <1>5 DEF Takes
  <2>2. CASE p = "LEDGER"
    <3> DEFINE t == Taking(Head(queue["LEDGER"]), o)
    <3>1. Queued("LEDGER", o) = t + Queued("LEDGER", o)'
      BY <1>5, <2>2, DueTakes
    <3>2. t \in Nat
      BY <1>5, <2>2, TakingType DEF Takes
    <3>3. ToBook(o) = 0
      BY <1>5, <2>2 DEF Takes, ToBook
    <3>4. me'["LEDGER"] = Idle \/ me'["LEDGER"].msg = Head(queue["LEDGER"])
      BY <1>5, <2>2 DEF Takes, Moved
    <3>5. ToBook(o)' <= t
      <4>1. ToBook(o)' = 0 \/ ToBook(o)' = Taking(me'["LEDGER"].msg, o)
        BY DEF ToBook, Taking, Target
      <4>2. me'["LEDGER"] = Idle => ToBook(o)' = 0
        BY IdlePlace DEF ToBook
      <4>3. QED
        BY <3>2, <3>4, <4>1, <4>2
    <3> HIDE DEF t
    <3>6. QED
      BY <1>2, <1>4, <2>1, <3>1, <3>2, <3>3, <3>5, SoldTypes, SoldNext
  <2>3. CASE p # "LEDGER"
    <3>1. me'["LEDGER"] = me["LEDGER"] /\ queue'["LEDGER"] = queue["LEDGER"]
      BY <1>1, <1>5, <2>3, TakesQueue DEF Takes, Moved
    <3>2. ToBook(o)' = ToBook(o) /\ Queued("LEDGER", o)' = Queued("LEDGER", o)
      BY <3>1 DEF ToBook, Taking, Target, Queued
    <3>3. QED
      BY <1>2, <1>4, <2>1, <3>2, SoldTypes, SoldNext
  <2>4. QED
    BY <2>2, <2>3
<1>6. ASSUME NEW p \in Proc, Forward(p)
      PROVE  /\ ToBook(o)' <= ToBook(o)
             /\ Queued("LEDGER", o)' = Queued("LEDGER", o)
  <2>1. Queued("LEDGER", o)' = Queued("LEDGER", o)
    BY <1>1, <1>6, QueuedSame DEF Forward, Private
  <2>2. CASE p = "LEDGER"
    <3>1. ToBook(o)' = 0 \/ ToBook(o)' = Taking(me'["LEDGER"].msg, o)
      BY DEF ToBook, Taking, Target
    <3>2. me'["LEDGER"] = Idle => ToBook(o)' = 0
      BY IdlePlace DEF ToBook
    <3>3. me["LEDGER"].pc # "idle"
      BY <1>1, <1>6, <2>2, Busy DEF Forward
    <3>4. ToBook(o) = Taking(me["LEDGER"].msg, o)
      BY <3>3 DEF ToBook
    <3>5. me'["LEDGER"] = Idle \/ me'["LEDGER"].msg = me["LEDGER"].msg
      BY <1>6, <2>2 DEF Forward
    <3>6. ToBook(o)' = 0 \/ ToBook(o)' = ToBook(o)
      BY <3>1, <3>2, <3>4, <3>5
    <3>7. QED
      BY <2>1, <3>6, SoldTypes
  <2>3. CASE p # "LEDGER"
    <3>1. me'["LEDGER"] = me["LEDGER"]
      BY <1>1, <1>6, <2>3 DEF Forward, Moved
    <3>2. ToBook(o)' = ToBook(o)
      BY <3>1 DEF ToBook, Taking, Target
    <3>3. QED
      BY <2>1, <3>2, SoldTypes
  <2>4. QED
    BY <2>2, <2>3
<1>7. ASSUME NEW p \in Proc, Forward(p), booked' = booked
      PROVE  Sold(o)' <= Sold(o)
  BY <1>2, <1>4, <1>6, <1>7, SoldTypes, SoldNext
<1>8. CASE Books
  <2> DEFINE m == me["LEDGER"].msg
  <2>1. /\ me["LEDGER"] \in Working /\ me["LEDGER"].pc = "book"
        /\ me'["LEDGER"] = Idle /\ queue' = queue
        /\ booked' = [booked EXCEPT ![m.no] = @ + m.qty]
    BY <1>8 DEF Books, Quiet, Private
  <2>2. m \in Message /\ m.kind = "fill"
    BY <2>1 DEF KindInv, Working
  <2>3. m.no \in Orders /\ m.qty \in Nat
    BY <2>2, RegisterTypes
  <2>4. ToBook(o) = (IF o = m.no THEN m.qty ELSE 0) /\ ToBook(o)' = 0
    <3>1. ToBook(o) = Taking(m, o)
      BY <2>1 DEF ToBook
    <3>2. Taking(m, o) = IF o = m.no THEN m.qty ELSE 0
      BY <2>2 DEF Taking, Target
    <3>3. ToBook(o)' = 0
      BY <2>1, IdlePlace DEF ToBook
    <3>4. QED
      BY <3>1, <3>2, <3>3
  <2> HIDE DEF m
  <2>5. booked'[o] = booked[o] + IF o = m.no THEN m.qty ELSE 0
    <3>1. booked'[o] = IF o = m.no THEN booked[o] + m.qty ELSE booked[o]
      BY <2>1, <2>3 DEF Types
    <3>2. QED
      BY <3>1, SoldTypes
  <2>6. Queued("LEDGER", o)' = Queued("LEDGER", o)
    BY <1>1, <2>1, QueuedSame
  <2>7. QED
    BY <1>2, <1>4, <2>3, <2>4, <2>5, <2>6, SoldTypes, SoldNext
<1>9. QED
  <2>1. ASSUME NEW p \in Proc, Quiet(p) \/ Stores(p) PROVE Forward(p)
    BY <2>1 DEF Quiet, Stores, Forward, Goes
  <2>2. SetsJan => Forward("MICHE") /\ booked' = booked
    BY DEF SetsJan, Forward, Goes
  <2>3. SetsNo => Forward("MICHE") /\ booked' = booked
    BY DEF SetsNo, Forward, Goes
  <2>4. \A p : Stores(p) => booked' = booked
    BY DEF Stores
  <2>5. QED
    BY <1>1, <1>5, <1>7, <1>8, <2>1, <2>2, <2>3, <2>4 DEF Works

-------------------------------------------------------------------------------
\* The inductive invariant of the table

\* What every step keeps.
TableInv ==
  /\ Types /\ KindInv /\ FreshInv /\ OnceInv /\ NothingEarly /\ HolderInv
  /\ FreeInv /\ ReduceInv /\ EnoughInv /\ SoldInv

\* At first nothing is due, queued or booked.
LEMMA InitDue ==
  ASSUME TableInit
  PROVE  Types /\ \A o \in Orders :
           /\ Due(o) = 0 /\ Queued("LEDGER", o) = 0 /\ rem[o] = 0 /\ booked[o] = 0
<1>1. \A p \in Proc : queue[p] = <<>> /\ me[p] = Idle
  BY DEF TableInit
<1>2. Types
  <2>1. queue \in [Proc -> Seq(Message)]
    BY DEF TableInit
  <2>2. 0 \in 0..Quantity /\ 0 \in 0..MaxOrders /\ 0 \in 0..MaxReports /\ 0 \in 0..MaxDeaths
    BY ConstantFacts
  <2>3. midx \in [Proc ->
                   [0..(Hash - 1) -> [key : Orders \union {NoKey},
                                      slot : TableSlots \union {NoSlot}]]]
    BY DEF TableInit, Reset
  <2>4. tab \in [TableSlots -> [no : Orders \union {Nobody}, jan : Int]]
    BY DEF TableInit
  <2>5. booked \in [Orders -> Nat] /\ rem \in [Orders -> 0..Quantity]
    BY <2>2 DEF TableInit
  <2>6. me \in [Proc -> Working \union {Idle}]
    BY DEF TableInit
  <2>7. /\ MeChe_Cnt \in Int /\ known \subseteq Orders /\ spilt \in BOOLEAN
        /\ given \in 0..MaxOrders /\ reports \in 0..MaxReports /\ deaths \in 0..MaxDeaths
    <3>1. MeChe_Cnt = 0 /\ known = {} /\ given = 0 /\ reports = 0 /\ deaths = 0
      BY DEF TableInit
    <3>2. spilt \in BOOLEAN
      BY Zenon DEF TableInit
    <3>3. QED
      BY <2>2, <3>1, <3>2
  <2>8. QED
    BY <2>1, <2>3, <2>4, <2>5, <2>6, <2>7 DEF Types
<1>3. ASSUME NEW p \in Proc, NEW o
      PROVE  Queued(p, o) = 0 /\ InHands(p, o) = 0
  <2>1. Loads(queue[p], o) = <<>>
    <3>1. Loads(queue[p], o) \in Seq(Nat) /\ Len(Loads(queue[p], o)) = 0
      <4>1. queue[p] \in Seq(Message) /\ Len(queue[p]) = 0
        <5>1. <<>> \in Seq(Message) /\ Len(<<>>) = 0
          OBVIOUS
        <5>2. queue[p] = <<>>
          BY <1>1, <1>3
        <5>3. QED
          BY <5>1, <5>2
      <4>2. QED
        BY <4>1, LoadsType
    <3>2. QED
      BY <3>1, EmptySeq
  <2>2. Total(Loads(queue[p], o)) = 0
    BY <2>1, TotalEmpty
  <2>3. QED
    BY <1>1, <2>2, HandIs, IdleHand DEF Queued, Loads
<1>4. "MICHE" \in Proc /\ "LEDGER" \in Proc
  BY DEF Proc
<1>5. \A o \in Orders : rem[o] = 0 /\ booked[o] = 0
  BY DEF TableInit
<1>6. QED
  BY <1>2, <1>3, <1>4, <1>5 DEF Due, OnTheWay

\* The invariant holds at first ...
LEMMA InitTable ==
  ASSUME TableInit
  PROVE  TableInv
<1>1. /\ Types
      /\ \A o \in Orders : /\ Due(o) = 0 /\ Queued("LEDGER", o) = 0
                                 /\ rem[o] = 0 /\ booked[o] = 0
  BY InitDue
<1>2. /\ "MICHE" \in Proc /\ "LEDGER" \in Proc
      /\ \A p \in Proc : queue[p] = <<>> /\ me[p].pc = "idle"
      /\ known = {} /\ \A s \in TableSlots : tab[s].no = Nobody
  BY IdlePlace DEF TableInit, Proc
<1>3. me["LEDGER"].pc = "idle" /\ me["MICHE"].pc = "idle"
      /\ \A p \in Proc : 1..Len(queue[p]) = {}
  <2>1. Len(<<>>) = 0 /\ 1..0 = {}
    OBVIOUS
  <2>2. QED
    BY <1>2, <2>1
<1>4. KindInv
  BY <1>2, <1>3 DEF KindInv, Registering
<1>5. FreshInv /\ OnceInv
  BY <1>2, <1>3 DEF FreshInv, OnceInv, Registering, Waiting, Queueing
<1>6. NothingEarly
  BY <1>1 DEF NothingEarly
<1>7. HolderInv
  BY <1>2 DEF HolderInv
<1>8. FreeInv /\ ReduceInv
  BY <1>2, <1>3 DEF FreeInv, ReduceInv, Reducing
<1>9. EnoughInv
  BY <1>2 DEF EnoughInv
<1>10. SoldInv
  <2>1. ASSUME NEW o \in Orders PROVE Sold(o) = 0
    BY <1>1, <1>3 DEF Sold, Bookable, ToBook
  <2>2. QED
    BY <2>1, ConstantFacts DEF SoldInv
<1>11. QED
  BY <1>1, <1>4, <1>5, <1>6, <1>7, <1>8, <1>9, <1>10 DEF TableInv

\* ... when the exchange sends a message ...
LEMMA InvSends ==
  ASSUME TableInv, Types', NEW p \in Proc, NEW m \in Message, Sends(p, m)
  PROVE  TableInv'
<1>1. KindInv' /\ FreshInv' /\ OnceInv'
  BY KindSends, FreshSends, OnceSends DEF TableInv
<1>2. NothingEarly' /\ HolderInv' /\ FreeInv'
  BY EarlySends, HolderSends, FreeSends DEF TableInv
<1>3. ReduceInv' /\ EnoughInv' /\ SoldInv'
  BY ReduceSends, EnoughSends, SoldSends DEF TableInv
<1>4. QED
  BY <1>1, <1>2, <1>3 DEF TableInv

\* ... when a process makes a step ...
LEMMA InvWorks ==
  ASSUME TableInv, Types', Works
  PROVE  TableInv'
<1>1. KindInv' /\ FreshInv' /\ OnceInv'
  BY KindTakes, KindForward, WorksForward, FreshWorks, OnceWorks DEF TableInv
<1>2. NothingEarly' /\ HolderInv' /\ FreeInv'
  BY EarlyWorks, HolderWorks, FreeWorks DEF TableInv
<1>3. ReduceInv' /\ EnoughInv' /\ SoldInv'
  BY ReduceWorks, EnoughWorks, SoldWorks DEF TableInv
<1>4. QED
  BY <1>1, <1>2, <1>3 DEF TableInv

\* ... when nothing changes ...
LEMMA InvStays ==
  ASSUME TableInv, UNCHANGED tableVars
  PROVE  TableInv'
<1>1. UNCHANGED <<tab, queue, me, midx, booked, rem, given, known>> /\ Types'
  BY DEF tableVars, TableInv, Types
<1>2. \A o : Due(o)' = Due(o) /\ Sold(o)' = Sold(o)
  BY <1>1 DEF Due, Sold, Bookable, ToBook, OnTheWay, Queued,
              InHands, InHand, Taking, Target
<1>3. KindInv' /\ OnceInv'
  BY <1>1 DEF TableInv, KindInv, OnceInv, Registering, Registers
<1>4. FreshInv'
  BY <1>1, <1>2 DEF TableInv, FreshInv, Waiting, Queueing, Registering, Fresh, Registers
<1>5. NothingEarly' /\ SoldInv'
  BY <1>1, <1>2 DEF TableInv, NothingEarly, SoldInv
<1>6. HolderInv' /\ FreeInv' /\ EnoughInv'
  BY <1>1, <1>2 DEF TableInv, HolderInv, FreeInv, EnoughInv, TableSlots, Nobody
<1>7. ReduceInv'
  BY <1>1, <1>2 DEF TableInv, ReduceInv, Reducing, Target
<1>8. QED
  BY <1>1, <1>3, <1>4, <1>5, <1>6, <1>7 DEF TableInv

\* ... and so in every step.
LEMMA TableStep ==
  ASSUME TableInv, [TableNext]_tableVars
  PROVE  TableInv'
<1>1. Types' /\ (Exchange \/ Works \/ UNCHANGED tableVars)
  BY Steps DEF TableInv
<1>2. CASE Exchange
  BY <1>1, <1>2, ExchangeSends, InvSends DEF TableInv
<1>3. CASE Works
  BY <1>1, <1>3, InvWorks
<1>4. CASE UNCHANGED tableVars
  BY <1>4, InvStays
<1>5. QED
  BY <1>1, <1>2, <1>3, <1>4

\* The table's data keep their types in every behaviour; no more is booked than
\* was ordered.
THEOREM TableTypes == TableSpec => []TableTypeOK
<1>1. TableInit => TableInv
  BY InitTable
<1>2. TableInv /\ [TableNext]_tableVars => TableInv'
  BY TableStep
<1>3. TableInv => TableTypeOK
  <2>1. SUFFICES ASSUME TableInv PROVE TableTypeOK
    OBVIOUS
  <2>2. Types /\ SoldInv
    BY <2>1 DEF TableInv
  <2>3. queue \in [Proc -> Seq(Msg)]
    <3>1. ASSUME NEW p \in Proc PROVE queue[p] \in Seq(Msg)
      <4>1. queue[p] \in Seq(Message)
        BY <2>2 DEF Types
      <4>2. QED
        BY <4>1 DEF Message
    <3>2. QED
      BY <2>2, <3>1 DEF Types
  <2>4. booked \in [Orders -> 0..Quantity]
    <3>1. ASSUME NEW o \in Orders PROVE booked[o] \in 0..Quantity
      BY <2>2, SoldTypes DEF SoldInv, Sold
    <3>2. QED
      BY <2>2, <3>1 DEF Types
  <2>5. ASSUME NEW p \in Proc
        PROVE  \/ me[p] = Idle
               \/ /\ me[p].pc \in {"seek", "count", "jan", "no", "find", "check",
                                   "load", "store", "zero", "dec", "book"}
                  /\ me[p].msg \in Msg /\ me[p].i \in TableSlots
                  /\ me[p].reg \in Int /\ me[p].retry \in 0..(MaxRetry + 1)
    BY <2>2 DEF Types, Working, Places, Message
  <2>6. ASSUME NEW p \in Proc, NEW h \in DOMAIN midx[p]
        PROVE  midx[p][h].slot \in TableSlots \union {NoSlot}
    <3> DEFINE C == [key : Orders \union {NoKey},
                     slot : TableSlots \union {NoSlot}]
    <3>1. midx[p] \in [0..(Hash - 1) -> C]
      BY <2>2 DEF Types
    <3>2. midx[p][h] \in C
      <4> HIDE DEF C
      <4>1. QED
        BY <2>6, <3>1
    <3>3. QED
      BY <3>2
  <2>7. QED
    BY <2>2, <2>3, <2>4, <2>5, <2>6 DEF Types, TableTypeOK
<1>4. QED
  BY <1>1, <1>2, <1>3, PTL DEF TableSpec

\* The table never shows less of an order than the exchange can still execute,
\* however the two processes and the exchange interleave and whatever is lost.
THEOREM TableEnough == TableSpec => []NeverUnderstated
<1>1. TableInit => TableInv
  BY InitTable
<1>2. TableInv /\ [TableNext]_tableVars => TableInv'
  BY TableStep
<1>3. TableInv => NeverUnderstated
  BY DEF TableInv, EnoughInv, Due, NeverUnderstated, Holds
<1>4. QED
  BY <1>1, <1>2, <1>3, PTL DEF TableSpec

\* The cache never changes what a search of the table finds.
THEOREM TableLookup == TableSpec => []LookupExact
<1>1. TableInit => TableInv
  BY InitTable
<1>2. TableInv /\ [TableNext]_tableVars => TableInv'
  BY TableStep
<1>3. TableInv => LookupExact
  <2>1. SUFFICES ASSUME TableInv, NEW p \in Proc, NEW o \in Orders
                 PROVE  Lookup(p, o) = Scan(o)
    BY DEF LookupExact
  <2>2. Types /\ HolderInv
    BY <2>1 DEF TableInv
  <2>3. CASE Cached(p, o) = NoSlot
    BY <2>3 DEF Lookup
  <2>4. CASE Cached(p, o) # NoSlot
    <3> DEFINE i == Cached(p, o)
    <3>1. i \in TableSlots /\ tab[i].no = o /\ i = Lookup(p, o)
      BY <2>2, <2>4, LookupFinds DEF Lookup
    <3> HIDE DEF i
    <3>2. Holds(o) = {i}
      BY <2>2, <3>1 DEF HolderInv, Holds, Orders, Nobody
    <3>3. Min({i}) = i
      <4>1. i \in Nat
        BY <3>1, ConstantFacts DEF TableSlots
      <4>2. Min({i}) \in {i}
        BY <4>1, MinIn
      <4>3. QED
        BY <4>2
    <3>4. Scan(o) = i
      BY <3>2, <3>3 DEF Scan
    <3>5. QED
      BY <3>1, <3>4
  <2>5. QED
    BY <2>3, <2>4
<1>4. QED
  BY <1>1, <1>2, <1>3, PTL DEF TableSpec
===============================================================================
