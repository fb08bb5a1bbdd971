--------------------------- MODULE DshmQueue_proofs ---------------------------
(***************************************************************************)
(* Proofs about DshmQueue, for every size of the ring and of the batches   *)
(* and every bound on writes, load and deaths.                             *)
(*                                                                         *)
(* The central fact is about the ring (RingInv): a header that still shows *)
(* its record's number vouches for every later record, because the writer  *)
(* overwrites the oldest first.  So one look at the first header is enough *)
(* for a whole batch (ReadInv), as long as the writer does not come round  *)
(* into it.  The file is right as long as no record leaves the ring before *)
(* the sync thread has it (SyncInv), and it is what a consumer falls back  *)
(* on.                                                                     *)
(***************************************************************************)
EXTENDS DshmQueue, SequenceTheorems, TLAPS

-------------------------------------------------------------------------------
\* The inductive invariants

\* Types, and how far batches and buffers reach.
Types ==
  /\ TypeOK
  /\ rpc \in {"head", "body"} =>
       Len(inbox) < want /\ r_cnt + want <= w_cnt
  /\ rpc = "work" => inbox # <<>>
  /\ sm_r_cnt <= w_cnt
  /\ spc = "idle" => w_buf = <<>>
  /\ spc # "idle" => sm_r_cnt + scnt <= w_cnt
  /\ spc = "copy" => Len(w_buf) < scnt
  /\ spc \in {"write", "count"} => Len(w_buf) = scnt

\* Record n is in the ring, whole.
Intact(n) == slot[SlotOf(n)] = <<n, n>>
Header(n) == slot[SlotOf(n)][1]

RingInv ==
  /\ \A n \in 1..w_cnt : Header(n) = n => \A m \in n..w_cnt : Intact(m)
  /\ wpc \in {"body", "publish"} => Header(w_cnt + 1) = w_cnt + 1
  /\ wpc = "publish" => Intact(w_cnt + 1)

\* The records the sync thread has not got yet are in the ring, those it has
\* are in its buffer and the file.
SyncInv ==
  ~spoiled =>
    /\ \A n \in (sm_r_cnt + Len(w_buf) + 1)..w_cnt : Intact(n)
    /\ \A i \in 1..Len(w_buf) : w_buf[i] = <<sm_r_cnt + i, sm_r_cnt + i>>
    /\ Len(file) = sm_r_cnt + (IF spc = "count" THEN scnt ELSE 0)
    /\ FileIsQueue

\* The first header of the batch was right.
Vouched == inbox # <<>> \/ (rpc = "body" /\ head = r_cnt + 1)

BatchRight ==
  /\ \A i \in 1..want : Intact(r_cnt + i)
  /\ \A i \in 1..Len(inbox) : inbox[i] = <<r_cnt + i, r_cnt + i>>
  /\ rpc = "body" => head = Copying

ReadInv ==
  /\ (rpc \in {"head", "body"} /\ Vouched /\ ~lapped) => BatchRight
  /\ SafetyNetUnlessLapped

IInv == Types /\ RingInv /\ SyncInv /\ ReadInv

-------------------------------------------------------------------------------
\* Facts about the operators

LEMMA Constants ==
  /\ Max \in Nat /\ Max > 0 /\ Batch \in Nat /\ Batch > 0
  /\ SyncBatch \in Nat /\ SyncBatch > 0
  /\ MaxWrites \in Nat /\ MaxDeaths \in Nat
BY RingAssumption, BatchAssumption, BoundsAssumption

\* A slot number is within the ring.
LEMMA SlotInRing ==
  ASSUME NEW S \in Nat \ {0}, NEW a \in Nat
  PROVE  a % S \in 0..(S - 1)
OBVIOUS

\* Two records less than a ring of S apart never share a slot.
LEMMA NearSlotsDiffer ==
  ASSUME NEW S \in Nat \ {0}, NEW a \in Nat, NEW b \in Nat, a < b, b < a + S
  PROVE  a % S # b % S
<1> DEFINE q == (b \div S) - (a \div S)
<1>1. a \div S \in Nat /\ b \div S \in Nat
  OBVIOUS
<1>2. (a = S * (a \div S) + (a % S)) /\ (b = S * (b \div S) + (b % S))
  OBVIOUS
<1>3. S * q = (S * (b \div S)) - (S * (a \div S))
  BY <1>1
<1>4. /\ q <= 0 => S * q <= 0
      /\ q >= 1 => S * q >= S
  BY <1>1
<1>5. QED
  BY <1>1, <1>2, <1>3, <1>4

\* Records a whole ring apart share their slot.
LEMMA AddedRing ==
  ASSUME NEW S \in Nat \ {0}, NEW a \in Nat
  PROVE  (a + S) % S = a % S
<1> DEFINE q == a \div S
           r == a % S
           p == (a + S) \div S
           t == (a + S) % S
<1>1. /\ q \in Nat /\ r \in 0..(S - 1) /\ a = S * q + r
      /\ p \in Nat /\ t \in 0..(S - 1) /\ a + S = S * p + t
  OBVIOUS
<1> HIDE DEF q, r, p, t
<1>2. S * (p - q) = S * p - S * q
  BY <1>1
<1>3. S * (p - q) = S + (r - t)
  BY <1>1, <1>2
<1>4. CASE p - q <= 0
  <2>1. S * (p - q) <= 0
    BY <1>1, <1>4
  <2>2. QED
    BY <1>1, <1>3, <2>1
<1>5. CASE p - q >= 2
  <2>1. S * (p - q) >= 2 * S
    BY <1>1, <1>5
  <2>2. QED
    BY <1>1, <1>3, <2>1
<1>6. CASE p - q = 1
  <2>1. S * (p - q) = S
    BY <1>1, <1>6
  <2>2. r = t
    BY <1>1, <1>3, <2>1
  <2>3. QED
    BY <2>2 DEF r, t
<1>7. QED
  BY <1>1, <1>4, <1>5, <1>6

LEMMA SlotTyped ==
  ASSUME NEW n \in Nat, n > 0
  PROVE  SlotOf(n) \in 0..(Max - 1)
<1>1. n - 1 \in Nat
  OBVIOUS
<1>2. QED
  BY <1>1, SlotInRing, RingAssumption DEF SlotOf

\* Records that share a slot are a ring apart, and a ring apart they do.
LEMMA SameSlot ==
  ASSUME NEW m \in Nat, NEW n \in Nat, 0 < m, m < n, SlotOf(m) = SlotOf(n)
  PROVE  m + Max <= n
<1>1. m - 1 \in Nat /\ n - 1 \in Nat /\ m - 1 < n - 1 /\ Max \in Nat
  BY Constants
<1>2. ~(n - 1 < (m - 1) + Max)
  BY <1>1, NearSlotsDiffer, RingAssumption DEF SlotOf
<1>3. QED
  BY <1>1, <1>2

LEMMA RingApart ==
  ASSUME NEW n \in Nat, 0 < n
  PROVE  SlotOf(n + Max) = SlotOf(n)
<1>1. Max \in Nat /\ Max > 0 /\ (n + Max) - 1 = (n - 1) + Max /\ n - 1 \in Nat
  BY Constants
<1>2. ((n - 1) + Max) % Max = (n - 1) % Max
  BY <1>1, AddedRing, RingAssumption
<1>3. QED
  BY <1>1, <1>2 DEF SlotOf

LEMMA PairParts ==
  ASSUME NEW p \in Pairs
  PROVE  p[1] \in Nat /\ p[2] \in Nat /\ p = <<p[1], p[2]>>
BY DEF Pairs

LEMMA PairExcept ==
  ASSUME NEW p \in Pairs, NEW n \in Nat
  PROVE  /\ [p EXCEPT ![1] = n] = <<n, p[2]>>
         /\ [p EXCEPT ![2] = n] = <<p[1], n>>
         /\ <<n, p[2]>> \in Pairs /\ <<p[1], n>> \in Pairs
<1>1. p = <<p[1], p[2]>> /\ p[1] \in Nat /\ p[2] \in Nat
  BY PairParts
<1>2. [p EXCEPT ![1] = n] = <<n, p[2]>>
  BY <1>1
<1>3. [p EXCEPT ![2] = n] = <<p[1], n>>
  BY <1>1
<1>4. QED
  BY <1>1, <1>2, <1>3 DEF Pairs

LEMMA SmallerOf ==
  ASSUME NEW a \in Int, NEW b \in Int
  PROVE  /\ Smaller(a, b) \in {a, b} /\ Smaller(a, b) <= a
         /\ Smaller(a, b) <= b
BY DEF Smaller

-------------------------------------------------------------------------------
\* The ring

LEMMA SlotPair ==
  ASSUME Types, NEW n \in Nat, n > 0
  PROVE  slot[SlotOf(n)] \in Pairs /\ Header(n) \in Nat
         /\ slot[SlotOf(n)] = <<Header(n), slot[SlotOf(n)][2]>>
<1>1. slot[SlotOf(n)] \in Pairs
  BY SlotTyped DEF Types, TypeOK
<1>2. QED
  BY <1>1, PairParts DEF Header

\* Whole record, right header.
LEMMA IntactHeader ==
  ASSUME NEW n, Intact(n)
  PROVE  Header(n) = n
BY DEF Intact, Header

LEMMA HeadWritten ==
  ASSUME Types, WriteHead
  PROVE  /\ slot' \in [0..(Max - 1) -> Pairs]
         /\ slot'[SlotOf(w_cnt + 1)] = <<w_cnt + 1, slot[SlotOf(w_cnt + 1)][2]>>
         /\ \A i \in 0..(Max - 1) :
              i # SlotOf(w_cnt + 1) => slot'[i] = slot[i]
<1> DEFINE s == SlotOf(w_cnt + 1)
<1>1. w_cnt + 1 \in Nat /\ w_cnt + 1 > 0
  BY DEF Types, TypeOK
<1>2. s \in 0..(Max - 1) /\ slot[s] \in Pairs
  BY <1>1, SlotTyped, SlotPair
<1>3. slot' = [slot EXCEPT ![s][1] = w_cnt + 1]
  BY DEF WriteHead
<1>4. slot \in [0..(Max - 1) -> Pairs]
  BY DEF Types, TypeOK
<1> HIDE DEF s
<1>5. slot' = [slot EXCEPT ![s] = [slot[s] EXCEPT ![1] = w_cnt + 1]]
  BY <1>3
<1>6. /\ [slot[s] EXCEPT ![1] = w_cnt + 1] = <<w_cnt + 1, slot[s][2]>>
      /\ <<w_cnt + 1, slot[s][2]>> \in Pairs
  BY <1>1, <1>2, PairExcept
<1>7. slot' = [slot EXCEPT ![s] = <<w_cnt + 1, slot[s][2]>>]
  BY <1>5, <1>6
<1>8. QED
  BY <1>2, <1>4, <1>6, <1>7 DEF s

LEMMA BodyWritten ==
  ASSUME Types, WriteBody
  PROVE  /\ slot' \in [0..(Max - 1) -> Pairs]
         /\ slot'[SlotOf(w_cnt + 1)] = <<Header(w_cnt + 1), w_cnt + 1>>
         /\ \A i \in 0..(Max - 1) :
              i # SlotOf(w_cnt + 1) => slot'[i] = slot[i]
<1> DEFINE s == SlotOf(w_cnt + 1)
<1>1. w_cnt + 1 \in Nat /\ w_cnt + 1 > 0
  BY DEF Types, TypeOK
<1>2. s \in 0..(Max - 1) /\ slot[s] \in Pairs
  BY <1>1, SlotTyped, SlotPair
<1>3. slot' = [slot EXCEPT ![s][2] = w_cnt + 1]
  BY DEF WriteBody
<1>4. slot \in [0..(Max - 1) -> Pairs]
  BY DEF Types, TypeOK
<1> HIDE DEF s
<1>5. slot' = [slot EXCEPT ![s] = [slot[s] EXCEPT ![2] = w_cnt + 1]]
  BY <1>3
<1>6. /\ [slot[s] EXCEPT ![2] = w_cnt + 1] = <<slot[s][1], w_cnt + 1>>
      /\ <<slot[s][1], w_cnt + 1>> \in Pairs
  BY <1>1, <1>2, PairExcept
<1>7. slot' = [slot EXCEPT ![s] = <<slot[s][1], w_cnt + 1>>]
  BY <1>5, <1>6
<1>8. QED
  BY <1>2, <1>4, <1>6, <1>7 DEF s, Header

\* A header that shows its record's number is less than a ring behind.
LEMMA StillThere ==
  ASSUME Types, RingInv, NEW n \in 1..w_cnt, Header(n) = n
  PROVE  w_cnt < n + Max
<1>1. w_cnt \in Nat /\ Max \in Nat /\ Max > 0
  BY Constants DEF Types, TypeOK
<1>2. CASE n + Max <= w_cnt
  <2>1. n + Max \in n..w_cnt
    BY <1>1, <1>2
  <2>2. Intact(n + Max)
    BY <2>1 DEF RingInv
  <2>3. Header(n + Max) = n + Max
    BY <2>2, IntactHeader
  <2>4. SlotOf(n + Max) = SlotOf(n)
    BY RingApart
  <2>5. Header(n + Max) = Header(n)
    BY <2>4 DEF Header
  <2>6. QED
    BY <1>1, <2>3, <2>5
<1>3. QED
  BY <1>1, <1>2

\* Of the records whose header is right, the writer takes the oldest one's
\* slot.
LEMMA OldestGoes ==
  ASSUME Types, RingInv, NEW n \in 1..w_cnt, Header(n) = n,
         SlotOf(n) = SlotOf(w_cnt + 1)
  PROVE  n = Before(w_cnt + 1)
<1>1. w_cnt \in Nat /\ Max \in Nat /\ w_cnt < n + Max
  BY Constants, StillThere DEF Types, TypeOK
<1>2. n + Max <= w_cnt + 1
  <2>1. n \in Nat /\ w_cnt + 1 \in Nat /\ 0 < n /\ n < w_cnt + 1
    BY <1>1
  <2>2. QED
    BY <2>1, SameSlot
<1>3. QED
  BY <1>1, <1>2 DEF Before

\* What a write of a header leaves whole.
LEMMA HeadLeaves ==
  ASSUME Types, RingInv, WriteHead, NEW n \in 1..w_cnt, Intact(n),
         n # Before(w_cnt + 1)
  PROVE  Intact(n)'
<1>1. SlotOf(n) # SlotOf(w_cnt + 1)
  BY OldestGoes, IntactHeader
<1>2. SlotOf(n) \in 0..(Max - 1)
  BY SlotTyped DEF Types, TypeOK
<1>3. slot'[SlotOf(n)] = slot[SlotOf(n)]
  BY <1>1, <1>2, HeadWritten
<1>4. QED
  BY <1>3 DEF Intact, SlotOf

\* The body of a record whose header has been written is nobody else's.
LEMMA BodyLeaves ==
  ASSUME Types, RingInv, WriteBody, NEW n \in 1..w_cnt
  PROVE  /\ Intact(n) => Intact(n)'
         /\ (Header(n))' = n => Header(n) = n
<1>1. w_cnt \in Nat /\ SlotOf(n) \in 0..(Max - 1) /\ wpc = "body"
  BY SlotTyped DEF Types, TypeOK, WriteBody
<1>2. Header(w_cnt + 1) = w_cnt + 1
  BY <1>1 DEF RingInv
<1>3. CASE SlotOf(n) = SlotOf(w_cnt + 1)
  <2>1. Header(n) = w_cnt + 1
    BY <1>2, <1>3 DEF Header
  <2>2. ~Intact(n)
    BY <1>1, <2>1, IntactHeader
  <2>3. slot'[SlotOf(n)] = <<Header(w_cnt + 1), w_cnt + 1>>
    BY <1>3, BodyWritten
  <2>4. slot'[SlotOf(n)][1] # n
    BY <1>1, <1>2, <2>3
  <2>5. QED
    BY <2>2, <2>4 DEF Header, SlotOf
<1>4. CASE SlotOf(n) # SlotOf(w_cnt + 1)
  <2>1. slot'[SlotOf(n)] = slot[SlotOf(n)]
    BY <1>1, <1>4, BodyWritten
  <2>2. QED
    BY <2>1 DEF Intact, Header, SlotOf
<1>5. QED
  BY <1>3, <1>4

LEMMA StepRing ==
  ASSUME Types, RingInv, [Next]_vars
  PROVE  RingInv'
<1>1. w_cnt \in Nat /\ Max \in Nat /\ Max > 0
  BY Constants DEF Types, TypeOK
<1>2. CASE WriteHead
  <2>1. w_cnt' = w_cnt /\ wpc' = "body"
    BY <1>2 DEF WriteHead
  <2>2. slot'[SlotOf(w_cnt + 1)] = <<w_cnt + 1, slot[SlotOf(w_cnt + 1)][2]>>
    BY <1>2, HeadWritten
  <2>3. (Header(w_cnt + 1) = w_cnt + 1)'
    BY <2>1, <2>2 DEF Header, SlotOf
  <2>4. ASSUME NEW n \in 1..w_cnt, (Header(n))' = n, NEW m \in n..w_cnt
        PROVE  Intact(m)'
    <3>1. SlotOf(n) \in 0..(Max - 1)
      BY <1>1, SlotTyped
    <3>2. SlotOf(n) # SlotOf(w_cnt + 1)
      BY <1>1, <2>2, <2>4 DEF Header, SlotOf
    <3>3. Header(n) = n
      <4>1. slot'[SlotOf(n)] = slot[SlotOf(n)]
        BY <1>2, <3>1, <3>2, HeadWritten
      <4>2. QED
        BY <2>4, <4>1 DEF Header, SlotOf
    <3>4. Intact(m) /\ m \in 1..w_cnt
      BY <1>1, <3>3 DEF RingInv
    <3>5. w_cnt < n + Max
      BY <3>3, StillThere
    <3>6. m # Before(w_cnt + 1)
      <4>1. CASE m = n
        BY <3>2, <3>5, <4>1, <1>1, RingApart DEF Before
      <4>2. CASE m # n
        BY <1>1, <3>5, <4>2 DEF Before
      <4>3. QED
        BY <4>1, <4>2
    <3>7. QED
      BY <1>2, <3>4, <3>6, HeadLeaves
  <2>5. QED
    BY <2>1, <2>3, <2>4 DEF RingInv
<1>3. CASE WriteBody
  <2>1. w_cnt' = w_cnt /\ wpc = "body" /\ wpc' = "publish"
    BY <1>3 DEF WriteBody
  <2>2. Header(w_cnt + 1) = w_cnt + 1
    BY <2>1 DEF RingInv
  <2>3. slot'[SlotOf(w_cnt + 1)] = <<w_cnt + 1, w_cnt + 1>>
    BY <1>3, <2>2, BodyWritten
  <2>4. Intact(w_cnt + 1)' /\ (Header(w_cnt + 1) = w_cnt + 1)'
    BY <2>1, <2>3 DEF Intact, Header, SlotOf
  <2>5. ASSUME NEW n \in 1..w_cnt, (Header(n))' = n, NEW m \in n..w_cnt
        PROVE  Intact(m)'
    <3>1. Header(n) = n
      BY <1>3, <2>5, BodyLeaves
    <3>2. Intact(m) /\ m \in 1..w_cnt
      BY <1>1, <3>1 DEF RingInv
    <3>3. QED
      BY <1>3, <3>2, BodyLeaves
  <2>6. QED
    BY <2>1, <2>4, <2>5 DEF RingInv
<1>4. CASE Publish
  <2>1. w_cnt' = w_cnt + 1 /\ wpc = "publish" /\ wpc' = "idle" /\ slot' = slot
    BY <1>4 DEF Publish
  <2>2. Intact(w_cnt + 1)
    BY <2>1 DEF RingInv
  <2>3. ASSUME NEW n \in 1..(w_cnt + 1), Header(n) = n,
               NEW m \in n..(w_cnt + 1)
        PROVE  Intact(m)
    <3>1. CASE m = w_cnt + 1
      BY <2>2, <3>1
    <3>2. CASE m # w_cnt + 1
      BY <1>1, <2>3, <3>2 DEF RingInv
    <3>3. QED
      BY <3>1, <3>2
  <2>4. \A n : Intact(n)' = Intact(n) /\ (Header(n))' = Header(n)
    BY <2>1 DEF Intact, Header, SlotOf
  <2>5. QED
    BY <2>1, <2>3, <2>4 DEF RingInv
<1>5. CASE WriterDies
  BY <1>5 DEF WriterDies, RingInv, Intact, Header, SlotOf
<1>6. CASE Consumer \/ ConsumerDies \/ Sync \/ SyncDies \/ UNCHANGED vars
  <2>1. UNCHANGED <<w_cnt, slot, wpc>>
    BY <1>6
    DEF Consumer, ReadStart, CopyHead, CopyBody, FallBack, FileRead, Work,
        ConsumerDies, Sync, SyncStart, SyncCopy, SyncWrite, SyncCount,
        SyncDies, vars, wvars
  <2>2. QED
    BY <2>1 DEF RingInv, Intact, Header, SlotOf
<1>7. QED
  BY <1>2, <1>3, <1>4, <1>5, <1>6 DEF Next, Writer

-------------------------------------------------------------------------------
\* Types

LEMMA RowsTyped ==
  ASSUME NEW f \in Seq(Pairs), NEW a \in Nat, NEW n \in Nat, a + n <= Len(f)
  PROVE  /\ SubSeq(f, a + 1, a + n) \in Seq(Pairs)
         /\ Len(SubSeq(f, a + 1, a + n)) = n
         /\ \A i \in 1..n : SubSeq(f, a + 1, a + n)[i] = f[a + i]
<1>1. Len(f) \in Nat
  BY LenProperties
<1>2. \A i \in (a + 1)..(a + n) : i \in 1..Len(f)
  BY <1>1
<1>3. \A i \in (a + 1)..(a + n) : f[i] \in Pairs
  BY <1>2, ElementOfSeq
<1>4. QED
  BY <1>1, <1>3, SubSeqProperties

\* What FileRead takes: rows of the file from the cursor on, or none.
LEMMA FileReadRows ==
  ASSUME Types, FileRead
  PROVE  /\ inbox' \in Seq(Pairs)
         /\ rpc' = "work" => inbox' # <<>>
         /\ rpc' \in {"work", "idle"}
         /\ \A i \in 1..Len(inbox') : /\ r_cnt + i \in 1..Len(file)
                                      /\ inbox'[i] = file[r_cnt + i]
<1> DEFINE low == Smaller(r_cnt, Len(file))
           n   == Smaller(want, Len(file) - low)
<1>1. r_cnt \in Nat /\ want \in Nat /\ file \in Seq(Pairs) /\ Len(file) \in Nat
  BY LenProperties DEF Types, TypeOK
<1>2. /\ low \in {r_cnt, Len(file)} /\ low <= r_cnt /\ low <= Len(file)
      /\ low \in Nat
  BY <1>1, SmallerOf
<1>3. /\ n \in {want, Len(file) - low} /\ n <= Len(file) - low /\ n \in Nat
  BY <1>1, <1>2, SmallerOf
<1>4. /\ inbox' = SubSeq(file, r_cnt + 1, r_cnt + n)
      /\ rpc' = IF n > 0 THEN "work" ELSE "idle"
  BY DEF FileRead
<1> HIDE DEF n, low
<1>5. CASE n = 0
  <2>1. inbox' = <<>>
    BY <1>1, <1>4, <1>5, SubSeqEmpty
  <2>2. <<>> \in Seq(Pairs) /\ Len(<<>>) = 0
    BY EmptySeq
  <2>3. Len(inbox') = 0 /\ inbox' \in Seq(Pairs)
    BY <2>1, <2>2
  <2>4. rpc' = "idle"
    BY <1>4, <1>5
  <2>5. QED
    BY <2>3, <2>4
<1>6. CASE n > 0
  <2>1. low = r_cnt /\ r_cnt + n <= Len(file)
    BY <1>1, <1>2, <1>3, <1>6
  <2>2. /\ inbox' \in Seq(Pairs) /\ Len(inbox') = n
        /\ \A i \in 1..n : inbox'[i] = file[r_cnt + i]
    BY <1>1, <1>3, <1>4, <2>1, RowsTyped
  <2>3. inbox' # <<>>
    BY <1>6, <2>2
  <2>4. QED
    BY <1>1, <1>3, <1>4, <1>6, <2>1, <2>2, <2>3
<1>7. QED
  BY <1>3, <1>5, <1>6

LEMMA CopyingTyped ==
  ASSUME Types
  PROVE  Copying \in Nat /\ Copying > 0
BY LenProperties DEF Copying, Types, TypeOK

LEMMA WriterTyped ==
  ASSUME Types, Writer \/ WriterDies
  PROVE  Types'
<1>1. CASE WriteHead
  <2>1. slot' \in [0..(Max - 1) -> Pairs]
    BY <1>1, HeadWritten
  <2>2. lapped' \in BOOLEAN /\ spoiled' \in BOOLEAN
    BY <1>1 DEF WriteHead
  <2>3. UNCHANGED <<w_cnt, rvars, svars, deaths>> /\ wpc' = "body"
    BY <1>1 DEF WriteHead
  <2>4. QED
    BY <2>1, <2>2, <2>3 DEF Types, TypeOK, rvars, svars
<1>2. CASE WriteBody
  <2>1. slot' \in [0..(Max - 1) -> Pairs]
    BY <1>2, BodyWritten
  <2>2. UNCHANGED <<w_cnt, rvars, svars, hist>> /\ wpc' = "publish"
    BY <1>2 DEF WriteBody
  <2>3. QED
    BY <2>1, <2>2 DEF Types, TypeOK, rvars, svars, hist
<1>3. CASE Publish
  BY <1>3 DEF Publish, Types, TypeOK, rvars, svars, hist
<1>4. CASE WriterDies
  BY <1>4 DEF WriterDies, Types, TypeOK, rvars, svars
<1>5. QED
  BY <1>1, <1>2, <1>3, <1>4 DEF Writer

LEMMA ConsumerTyped ==
  ASSUME Types, Consumer \/ ConsumerDies
  PROVE  Types'
<1>1. CASE ReadStart
  <2>1. /\ want' = Smaller(w_cnt - r_cnt, Batch) /\ inbox' = <<>>
        /\ r_cnt' = r_cnt /\ w_cnt' = w_cnt /\ r_cnt < w_cnt
    BY <1>1 DEF ReadStart, wvars
  <2>2. w_cnt - r_cnt \in Int /\ Batch \in Int /\ r_cnt \in Nat /\ w_cnt \in Nat
    BY Constants DEF Types, TypeOK
  <2>3. /\ want' \in {w_cnt - r_cnt, Batch} /\ want' <= w_cnt - r_cnt
    BY <2>1, <2>2, SmallerOf
  <2>4. want' \in Nat /\ 0 < want' /\ r_cnt + want' <= w_cnt
    BY <2>1, <2>2, <2>3, Constants
  <2>5. inbox' \in Seq(Pairs) /\ Len(inbox') = 0
    BY <2>1, EmptySeq
  <2>6. QED
    BY <1>1, <2>4, <2>5 DEF ReadStart, Types, TypeOK, wvars, svars
<1>2. CASE CopyHead
  <2>1. slot[SlotOf(Copying)][1] \in Nat
    BY CopyingTyped, SlotPair DEF Header
  <2>2. QED
    BY <1>2, <2>1 DEF CopyHead, Types, TypeOK, wvars, svars, hist
<1>3. CASE CopyBody
  <2> DEFINE row == <<head, slot[SlotOf(Copying)][2]>>
  <2>1. row \in Pairs
    <3>1. slot[SlotOf(Copying)] \in Pairs
      BY CopyingTyped, SlotPair
    <3>2. slot[SlotOf(Copying)][2] \in Nat /\ head \in Nat
      BY <3>1, PairParts DEF Types, TypeOK
    <3>3. QED
      BY <3>2 DEF Pairs
  <2>2. /\ inbox' = Append(inbox, row)
        /\ rpc' = IF Len(inbox) + 1 = want THEN "work" ELSE "head"
        /\ rpc = "body"
        /\ UNCHANGED <<r_cnt, want, head, wvars, svars, hist>>
    BY <1>3 DEF CopyBody
  <2> HIDE DEF row
  <2>3. /\ inbox' \in Seq(Pairs) /\ Len(inbox') = Len(inbox) + 1
        /\ inbox' # <<>> /\ Len(inbox) \in Nat
    BY <2>1, <2>2, AppendProperties, LenProperties DEF Types, TypeOK
  <2>4. /\ Len(inbox) < want /\ r_cnt + want <= w_cnt /\ want \in Nat
    BY <2>2 DEF Types, TypeOK
  <2>5. rpc' = "head" => Len(inbox') < want
    BY <2>2, <2>3, <2>4
  <2>6. QED
    BY <2>2, <2>3, <2>4, <2>5 DEF Types, TypeOK, wvars, svars, hist
<1>4. CASE FallBack
  BY <1>4 DEF FallBack, Types, TypeOK, wvars, svars, hist
<1>5. CASE FileRead
  BY <1>5, FileReadRows DEF FileRead, Types, TypeOK, wvars, svars, hist
<1>6. CASE Work
  <2>1. inbox # <<>> /\ inbox \in Seq(Pairs)
    BY <1>6 DEF Work, Types, TypeOK
  <2>2. /\ inbox' \in Seq(Pairs) /\ Len(inbox') = Len(inbox) - 1
        /\ Len(inbox) \in Nat
    BY <1>6, <2>1, HeadTailProperties, LenProperties DEF Work
  <2>3. rpc' = "work" => inbox' # <<>>
    <3>1. rpc' = "work" => Len(inbox) # 1
      BY <1>6 DEF Work
    <3>2. rpc' = "work" => Len(inbox') # 0
      BY <2>2, <3>1
    <3>3. Len(<<>>) = 0
      BY EmptySeq
    <3>4. QED
      BY <3>2, <3>3
  <2>4. rpc' \in {"work", "idle"}
    BY <1>6 DEF Work
  <2>5. QED
    BY <1>6, <2>2, <2>3, <2>4 DEF Work, Types, TypeOK, wvars, svars, hist
<1>7. CASE ConsumerDies
  BY <1>7, EmptySeq DEF ConsumerDies, Types, TypeOK, wvars, svars
<1>8. QED
  BY <1>1, <1>2, <1>3, <1>4, <1>5, <1>6, <1>7 DEF Consumer

LEMMA SyncTyped ==
  ASSUME Types, Sync \/ SyncDies
  PROVE  Types'
<1>1. CASE SyncStart
  <2>1. w_cnt - sm_r_cnt \in Int /\ sm_r_cnt \in Nat /\ w_cnt \in Nat
    BY DEF Types, TypeOK
  <2>2. scnt' = Smaller(w_cnt - sm_r_cnt, SyncBatch) /\ sm_r_cnt < w_cnt
        /\ w_buf' = w_buf /\ spc = "idle"
    BY <1>1 DEF SyncStart
  <2>3. scnt' \in {w_cnt - sm_r_cnt, SyncBatch} /\ scnt' <= w_cnt - sm_r_cnt
    BY <2>1, <2>2, SmallerOf, Constants
  <2>4. scnt' \in Nat /\ 0 < scnt' /\ sm_r_cnt + scnt' <= w_cnt
    BY <2>1, <2>2, <2>3, Constants
  <2>5. w_buf' = <<>> /\ Len(w_buf') = 0
    BY <2>2, EmptySeq DEF Types
  <2>6. QED
    BY <1>1, <2>4, <2>5 DEF SyncStart, Types, TypeOK, wvars, rvars, hist
<1>2. CASE SyncCopy
  <2> DEFINE n == sm_r_cnt + Len(w_buf) + 1
             row == slot[SlotOf(n)]
  <2>1. n \in Nat /\ n > 0
    BY LenProperties DEF Types, TypeOK
  <2>2. row \in Pairs
    BY <2>1, SlotPair
  <2>3. /\ w_buf' = Append(w_buf, row) /\ spc = "copy"
        /\ spc' = IF Len(w_buf) + 1 = scnt THEN "write" ELSE "copy"
        /\ UNCHANGED <<sm_r_cnt, file, scnt, wvars, rvars, hist>>
    BY <1>2 DEF SyncCopy
  <2> HIDE DEF n, row
  <2>4. w_buf' \in Seq(Pairs) /\ Len(w_buf') = Len(w_buf) + 1
        /\ Len(w_buf) \in Nat
    BY <2>2, <2>3, AppendProperties, LenProperties DEF Types, TypeOK
  <2>5. Len(w_buf) < scnt /\ scnt \in Nat
    BY <2>3 DEF Types, TypeOK
  <2>6. /\ spc' = "copy" => Len(w_buf') < scnt
        /\ spc' = "write" => Len(w_buf') = scnt
        /\ spc' \in {"copy", "write"}
    BY <2>3, <2>4, <2>5
  <2>7. QED
    BY <2>3, <2>4, <2>6 DEF Types, TypeOK, wvars, rvars, hist
<1>3. CASE SyncWrite
  <2>1. file' \in Seq(Pairs)
    BY <1>3, ConcatProperties DEF SyncWrite, Types, TypeOK
  <2>2. QED
    BY <1>3, <2>1 DEF SyncWrite, Types, TypeOK, wvars, rvars, hist
<1>4. CASE SyncCount
  BY <1>4, EmptySeq DEF SyncCount, Types, TypeOK, wvars, rvars, hist
<1>5. CASE SyncDies
  <2>1. spoiled' \in BOOLEAN
    BY <1>5 DEF SyncDies
  <2>2. QED
    BY <1>5, <2>1, EmptySeq DEF SyncDies, Types, TypeOK, wvars, rvars
<1>6. QED
  BY <1>1, <1>2, <1>3, <1>4, <1>5 DEF Sync

LEMMA StepTyped ==
  ASSUME Types, [Next]_vars
  PROVE  Types'
<1>1. CASE UNCHANGED vars
  BY <1>1 DEF vars, Types, TypeOK
<1>2. QED
  BY <1>1, WriterTyped, ConsumerTyped, SyncTyped DEF Next

LEMMA InitTyped ==
  ASSUME Init
  PROVE  Types
<1>1. slot \in [0..(Max - 1) -> Pairs]
  BY DEF Init, Pairs
<1>2. <<>> \in Seq(Pairs)
  BY EmptySeq
<1>3. TypeOK
  BY <1>1, <1>2 DEF Init, TypeOK
<1>4. QED
  BY <1>3 DEF Init, Types

-------------------------------------------------------------------------------
\* The file

LEMMA SyncTypes ==
  ASSUME Types
  PROVE  /\ w_cnt \in Nat /\ sm_r_cnt \in Nat /\ scnt \in Nat
         /\ w_buf \in Seq(Pairs) /\ Len(w_buf) \in Nat
         /\ file \in Seq(Pairs) /\ Len(file) \in Nat
         /\ spc = "copy" => Len(w_buf) < scnt
         /\ spc \in {"write", "count"} => Len(w_buf) = scnt
         /\ spc = "idle" => Len(w_buf) = 0
         /\ sm_r_cnt <= w_cnt
         /\ spc # "idle" => sm_r_cnt + scnt <= w_cnt
BY LenProperties, EmptySeq DEF Types, TypeOK

LEMMA StepSync ==
  ASSUME Types, Types', RingInv, SyncInv, [Next]_vars
  PROVE  SyncInv'
<1> DEFINE Reach   == sm_r_cnt + Len(w_buf)
           InRing  == \A n \in (Reach + 1)..w_cnt : Intact(n)
           InBuf   == \A i \in 1..Len(w_buf) :
                        w_buf[i] = <<sm_r_cnt + i, sm_r_cnt + i>>
           FileLen == Len(file) = sm_r_cnt + (IF spc = "count" THEN scnt ELSE 0)
<1> SUFFICES ASSUME spoiled' = FALSE
             PROVE  InRing' /\ InBuf' /\ FileLen' /\ FileIsQueue'
  BY DEF SyncInv, Types, TypeOK
<1>1. spoiled = FALSE
  <2>1. spoiled \in BOOLEAN
    BY DEF Types, TypeOK
  <2>2. spoiled => spoiled'
    BY Zenon
    DEF Next, Writer, WriteHead, WriteBody, Publish, WriterDies, Consumer,
        ReadStart, CopyHead, CopyBody, FallBack, FileRead, Work, ConsumerDies,
        Sync, SyncStart, SyncCopy, SyncWrite, SyncCount, SyncDies, vars, hist
  <2>3. QED
    BY <2>1, <2>2, Zenon
<1>2. InRing /\ InBuf /\ FileLen /\ FileIsQueue
  BY <1>1 DEF SyncInv
<1>3. /\ w_cnt \in Nat /\ sm_r_cnt \in Nat /\ scnt \in Nat
      /\ w_buf \in Seq(Pairs) /\ Len(w_buf) \in Nat /\ Reach \in Nat
  BY SyncTypes
<1>4. CASE WriteHead
  <2>1. UNCHANGED <<w_cnt, sm_r_cnt, file, spc, scnt, w_buf>>
    BY <1>4 DEF WriteHead, svars
  <2>2. ~Spoils(w_cnt + 1)
    BY <1>4 DEF WriteHead
  <2>3. Before(w_cnt + 1) <= Reach
    BY <1>3, <2>2, Constants DEF Spoils, Before
  <2>4. ASSUME NEW n \in (Reach + 1)..w_cnt
        PROVE  Intact(n)'
    <3>1. n \in 1..w_cnt /\ Intact(n)
      BY <1>2, <1>3
    <3>2. n # Before(w_cnt + 1)
      BY <1>3, <2>3, Constants DEF Before
    <3>3. QED
      BY <1>4, <3>1, <3>2, HeadLeaves
  <2>5. QED
    BY <1>2, <2>1, <2>4 DEF FileIsQueue
<1>5. CASE WriteBody
  <2>1. UNCHANGED <<w_cnt, sm_r_cnt, file, spc, scnt, w_buf>>
    BY <1>5 DEF WriteBody, svars
  <2>2. ASSUME NEW n \in (Reach + 1)..w_cnt
        PROVE  Intact(n)'
    BY <1>2, <1>3, <1>5, BodyLeaves
  <2>3. QED
    BY <1>2, <2>1, <2>2 DEF FileIsQueue
<1>6. CASE Publish
  <2>1. /\ UNCHANGED <<slot, sm_r_cnt, file, spc, scnt, w_buf>>
        /\ w_cnt' = w_cnt + 1 /\ wpc = "publish"
    BY <1>6 DEF Publish, svars
  <2>2. Intact(w_cnt + 1)
    BY <2>1 DEF RingInv
  <2>3. ASSUME NEW n \in (Reach + 1)..(w_cnt + 1)
        PROVE  Intact(n)
    <3>1. CASE n = w_cnt + 1
      BY <2>2, <3>1
    <3>2. CASE n # w_cnt + 1
      BY <1>2, <1>3, <3>2
    <3>3. QED
      BY <3>1, <3>2
  <2>4. \A n : Intact(n)' = Intact(n)
    BY <2>1 DEF Intact, SlotOf
  <2>5. QED
    BY <1>2, <2>1, <2>3, <2>4 DEF FileIsQueue
<1>7. CASE SyncStart
  <2>1. UNCHANGED <<w_cnt, slot, sm_r_cnt, file, w_buf>>
        /\ spc = "idle" /\ spc' = "copy"
    BY <1>7 DEF SyncStart, wvars
  <2>2. \A n : Intact(n)' = Intact(n)
    BY <2>1 DEF Intact, SlotOf
  <2>3. QED
    BY <1>2, <2>1, <2>2 DEF FileIsQueue
<1>8. CASE SyncCopy
  <2> DEFINE row == slot[SlotOf(Reach + 1)]
  <2>1. /\ UNCHANGED <<w_cnt, slot, sm_r_cnt, file, scnt>>
        /\ w_buf' = Append(w_buf, row)
        /\ spc = "copy" /\ spc' \in {"copy", "write"}
    BY <1>8 DEF SyncCopy, wvars
  <2>2. Reach + 1 <= w_cnt
    <3>1. Len(w_buf) < scnt /\ sm_r_cnt + scnt <= w_cnt
      BY <2>1, SyncTypes
    <3>2. QED
      BY <1>3, <3>1
  <2>3. row = <<Reach + 1, Reach + 1>>
    BY <1>2, <1>3, <2>2 DEF Intact
  <2>4. row \in Pairs
    BY <1>3, <2>3 DEF Pairs
  <2> HIDE DEF row
  <2>5. /\ Len(w_buf') = Len(w_buf) + 1 /\ w_buf'[Len(w_buf) + 1] = row
        /\ \A i \in 1..Len(w_buf) : w_buf'[i] = w_buf[i]
    BY <1>3, <2>1, <2>4, AppendProperties
  <2>6. InBuf'
    <3> SUFFICES ASSUME NEW i \in 1..(Len(w_buf) + 1)
                 PROVE  w_buf'[i] = <<sm_r_cnt + i, sm_r_cnt + i>>
      BY <2>1, <2>5
    <3>1. CASE i = Len(w_buf) + 1
      <4>1. sm_r_cnt + i = Reach + 1
        BY <1>3, <3>1
      <4>2. QED
        BY <2>3, <2>5, <3>1, <4>1
    <3>2. CASE i # Len(w_buf) + 1
      BY <1>2, <1>3, <2>5, <3>2
    <3>3. QED
      BY <3>1, <3>2
  <2>7. InRing'
    <3>1. Reach' = Reach + 1
      BY <1>3, <2>1, <2>5
    <3>2. ASSUME NEW n \in (Reach + 2)..w_cnt
          PROVE  Intact(n)
      BY <1>2, <1>3
    <3>3. \A n : Intact(n)' = Intact(n)
      BY <2>1 DEF Intact, SlotOf
    <3>4. (Reach + 1) + 1 = Reach + 2
      BY <1>3
    <3> HIDE DEF Reach
    <3>5. QED
      BY <2>1, <3>1, <3>2, <3>3, <3>4
  <2>8. QED
    BY <1>2, <2>1, <2>6, <2>7 DEF FileIsQueue
<1>9. CASE SyncWrite
  <2>1. /\ UNCHANGED <<w_cnt, slot, sm_r_cnt, w_buf, scnt>>
        /\ file' = file \o w_buf /\ spc = "write" /\ spc' = "count"
    BY <1>9 DEF SyncWrite, wvars
  <2>2. /\ Len(file) = sm_r_cnt /\ Len(w_buf) = scnt
    BY <1>2, <1>3, <2>1, SyncTypes
  <2>3. /\ Len(file') = sm_r_cnt + scnt
        /\ \A n \in 1..(sm_r_cnt + scnt) :
             file'[n] = IF n <= sm_r_cnt THEN file[n] ELSE w_buf[n - sm_r_cnt]
    BY <2>1, <2>2, ConcatProperties, SyncTypes
  <2>4. FileIsQueue'
    <3> SUFFICES ASSUME NEW n \in 1..(sm_r_cnt + scnt)
                 PROVE  file'[n] = <<n, n>>
      BY <2>3 DEF FileIsQueue
    <3>1. CASE n <= sm_r_cnt
      BY <1>2, <1>3, <2>2, <2>3, <3>1 DEF FileIsQueue
    <3>2. CASE ~(n <= sm_r_cnt)
      <4>1. n - sm_r_cnt \in 1..Len(w_buf) /\ sm_r_cnt + (n - sm_r_cnt) = n
        BY <1>3, <2>2, <3>2
      <4>2. QED
        BY <1>2, <2>3, <3>2, <4>1
    <3>3. QED
      BY <3>1, <3>2
  <2>5. \A n : Intact(n)' = Intact(n)
    BY <2>1 DEF Intact, SlotOf
  <2>6. QED
    BY <1>2, <2>1, <2>3, <2>4, <2>5
<1>10. CASE SyncCount
  <2>1. /\ UNCHANGED <<w_cnt, slot, file, scnt>> /\ w_buf' = <<>>
        /\ sm_r_cnt' = sm_r_cnt + scnt /\ spc = "count" /\ spc' = "idle"
    BY <1>10 DEF SyncCount, wvars
  <2>2. Len(w_buf) = scnt /\ Len(w_buf') = 0
    BY <2>1, SyncTypes, EmptySeq
  <2>3. Reach' = Reach
    BY <1>3, <2>1, <2>2
  <2>4. \A n : Intact(n)' = Intact(n)
    BY <2>1 DEF Intact, SlotOf
  <2>5. InRing'
    <3> HIDE DEF Reach
    <3>1. QED
      BY <1>2, <2>1, <2>3, <2>4
  <2>6. InBuf'
    BY <2>2
  <2>7. FileLen'
    BY <1>2, <1>3, <2>1
  <2>8. QED
    BY <1>2, <2>1, <2>5, <2>6, <2>7 DEF FileIsQueue
<1>11. CASE SyncDies
  <2>1. /\ UNCHANGED <<w_cnt, slot, sm_r_cnt, file>> /\ w_buf' = <<>>
        /\ spc # "count" /\ spc' = "idle"
        /\ AllInRing
    BY <1>11, Zenon DEF SyncDies, wvars
  <2>2. Len(w_buf') = 0
    BY <2>1, EmptySeq
  <2>3. Reach' = sm_r_cnt
    BY <1>3, <2>1, <2>2
  <2>4. \A n : Intact(n)' = Intact(n)
    BY <2>1 DEF Intact, SlotOf
  <2>5. InRing'
    <3> HIDE DEF Reach
    <3>1. QED
      BY <2>1, <2>3, <2>4 DEF AllInRing, Intact
  <2>6. InBuf'
    BY <2>2
  <2>7. QED
    BY <1>2, <2>1, <2>5, <2>6 DEF FileIsQueue
<1>12. CASE Consumer \/ ConsumerDies \/ WriterDies \/ UNCHANGED vars
  <2>1. UNCHANGED <<w_cnt, slot, sm_r_cnt, file, spc, scnt, w_buf>>
    BY <1>12
    DEF Consumer, ReadStart, CopyHead, CopyBody, FallBack, FileRead, Work,
        ConsumerDies, WriterDies, vars, wvars, svars
  <2>2. \A n : Intact(n)' = Intact(n)
    BY <2>1 DEF Intact, SlotOf
  <2>3. QED
    BY <1>2, <2>1, <2>2 DEF FileIsQueue
<1>13. QED
  BY <1>4, <1>5, <1>6, <1>7, <1>8, <1>9, <1>10, <1>11, <1>12
  DEF Next, Writer, Sync

-------------------------------------------------------------------------------
\* The batch of the consumer

LEMMA ReadTypes ==
  ASSUME Types
  PROVE  /\ w_cnt \in Nat /\ r_cnt \in Nat /\ want \in Nat /\ head \in Nat
         /\ inbox \in Seq(Pairs) /\ Len(inbox) \in Nat
         /\ rpc \in {"head", "body"} =>
              Len(inbox) < want /\ r_cnt + want <= w_cnt
         /\ rpc = "work" => inbox # <<>>
         /\ lapped \in BOOLEAN /\ spoiled \in BOOLEAN
BY LenProperties DEF Types, TypeOK

\* A batch in hand stays right while the writer goes on.
LEMMA WriterKeepsBatch ==
  ASSUME Types, RingInv, Writer \/ WriterDies,
         rpc \in {"head", "body"}, Vouched, ~lapped, ~lapped', BatchRight
  PROVE  BatchRight'
<1>1. UNCHANGED <<r_cnt, rpc, want, head, inbox>>
  BY DEF Writer, WriteHead, WriteBody, Publish, WriterDies, rvars
<1>2. ASSUME NEW i \in 1..want
      PROVE  Intact(r_cnt + i)'
  <2>1. PICK m \in 1..w_cnt : m = r_cnt + i /\ Intact(m)
    BY ReadTypes DEF BatchRight
  <2>2. Intact(m)'
    <3>1. CASE WriteHead
      <4>1. ~Laps(w_cnt + 1)
        BY <3>1, Zenon DEF WriteHead
      <4>2. m \in (r_cnt + 1)..(r_cnt + want)
        BY <2>1, ReadTypes
      <4>3. m # Before(w_cnt + 1)
        BY <4>1, <4>2 DEF Laps
      <4>4. QED
        BY <2>1, <3>1, <4>3, HeadLeaves
    <3>2. CASE WriteBody
      BY <2>1, <3>2, BodyLeaves
    <3>3. CASE Publish \/ WriterDies
      <4>1. slot' = slot
        BY <3>3 DEF Publish, WriterDies
      <4>2. QED
        BY <2>1, <4>1 DEF Intact, SlotOf
    <3>4. QED
      BY <3>1, <3>2, <3>3 DEF Writer
  <2>3. QED
    BY <1>1, <2>1, <2>2 DEF Intact, SlotOf
<1>3. QED
  BY <1>1, <1>2 DEF BatchRight, Copying

\* The header of the first record, once read, vouches for the batch.
LEMMA CopyHeadBatch ==
  ASSUME Types, RingInv, ReadInv, CopyHead, Vouched', ~lapped
  PROVE  BatchRight'
<1>1. /\ rpc = "head" /\ rpc' = "body" /\ head' = Header(Copying)
      /\ UNCHANGED <<r_cnt, want, inbox, slot>>
  BY DEF CopyHead, wvars, Header
<1>2. /\ r_cnt \in Nat /\ want \in Nat /\ Len(inbox) \in Nat /\ w_cnt \in Nat
      /\ Len(inbox) < want /\ r_cnt + want <= w_cnt
  BY <1>1, ReadTypes
<1>3. \A n : Intact(n)' = Intact(n)
  BY <1>1 DEF Intact, SlotOf
<1>4. CASE inbox = <<>>
  <2>1. Copying = r_cnt + 1 /\ Len(inbox) = 0
    BY <1>2, <1>4, EmptySeq DEF Copying
  <2>2. Header(r_cnt + 1) = r_cnt + 1
    BY <1>1, <1>4, <2>1 DEF Vouched
  <2>3. \A m \in (r_cnt + 1)..w_cnt : Intact(m)
    BY <1>2, <2>2 DEF RingInv
  <2>4. \A i \in 1..want : Intact(r_cnt + i)
    BY <1>2, <2>3
  <2>5. QED
    BY <1>1, <1>3, <2>1, <2>2, <2>4 DEF BatchRight, Copying
<1>5. CASE inbox # <<>>
  <2>1. BatchRight
    BY <1>1, <1>5 DEF ReadInv, Vouched
  <2>2. Intact(Copying)
    <3>1. Len(inbox) + 1 \in 1..want /\ Copying = r_cnt + (Len(inbox) + 1)
      BY <1>2 DEF Copying
    <3>2. QED
      BY <2>1, <3>1 DEF BatchRight
  <2>3. head' = Copying
    BY <1>1, <2>2, IntactHeader
  <2>4. QED
    BY <1>1, <1>3, <2>1, <2>3 DEF BatchRight, Copying
<1>6. QED
  BY <1>4, <1>5

LEMMA CopyBodyBatch ==
  ASSUME Types, RingInv, ReadInv, CopyBody, ~lapped
  PROVE  /\ rpc' \in {"work", "head"}
         /\ UNCHANGED <<r_cnt, want, slot>>
         /\ \A i \in 1..want : Intact(r_cnt + i)
         /\ \A i \in 1..Len(inbox') : inbox'[i] = <<r_cnt + i, r_cnt + i>>
<1> DEFINE row == <<head, slot[SlotOf(Copying)][2]>>
<1>1. /\ rpc = "body" /\ rpc' \in {"work", "head"}
      /\ inbox' = Append(inbox, row) /\ Vouched
      /\ UNCHANGED <<r_cnt, want, slot>>
  BY DEF CopyBody, Vouched, wvars
<1>2. BatchRight
  BY <1>1 DEF ReadInv
<1>3. /\ r_cnt \in Nat /\ want \in Nat /\ Len(inbox) \in Nat
      /\ Len(inbox) < want /\ inbox \in Seq(Pairs)
  BY <1>1, ReadTypes
<1>4. Len(inbox) + 1 \in 1..want /\ Copying = r_cnt + (Len(inbox) + 1)
  BY <1>3 DEF Copying
<1>5. Intact(Copying)
  BY <1>2, <1>4 DEF BatchRight
<1>6. row = <<Copying, Copying>>
  BY <1>1, <1>2, <1>5 DEF Intact, BatchRight
<1>7. row \in Pairs
  BY <1>6, CopyingTyped DEF Pairs
<1> HIDE DEF row
<1>8. /\ Len(inbox') = Len(inbox) + 1 /\ inbox'[Len(inbox) + 1] = row
      /\ \A i \in 1..Len(inbox) : inbox'[i] = inbox[i]
  BY <1>1, <1>3, <1>7, AppendProperties
<1>9. ASSUME NEW i \in 1..Len(inbox')
      PROVE  inbox'[i] = <<r_cnt + i, r_cnt + i>>
  <2>1. CASE i = Len(inbox) + 1
    BY <1>4, <1>6, <1>8, <2>1
  <2>2. CASE i # Len(inbox) + 1
    BY <1>2, <1>3, <1>8, <2>2 DEF BatchRight
  <2>3. QED
    BY <2>1, <2>2
<1>10. QED
  BY <1>1, <1>2, <1>9 DEF BatchRight

LEMMA StepBatch ==
  ASSUME Types, RingInv, ReadInv, [Next]_vars,
         rpc' \in {"head", "body"}, Vouched', lapped' = FALSE
  PROVE  BatchRight'
<1>1. CASE ReadStart
  BY <1>1 DEF ReadStart, Vouched
<1>2. CASE CopyHead
  <2>1. lapped = FALSE
    BY <1>2 DEF CopyHead, hist
  <2>2. QED
    BY <1>2, <2>1, CopyHeadBatch
<1>3. CASE CopyBody
  <2>1. lapped = FALSE
    BY <1>3 DEF CopyBody, hist
  <2>2. rpc' = "head"
    BY <1>3, <2>1, CopyBodyBatch
  <2>3. \A n : Intact(n)' = Intact(n)
    BY <1>3, <2>1, CopyBodyBatch DEF Intact, SlotOf
  <2>4. QED
    BY <1>3, <2>1, <2>2, <2>3, CopyBodyBatch DEF BatchRight
<1>4. CASE FallBack \/ FileRead \/ Work \/ ConsumerDies
  BY <1>4 DEF FallBack, FileRead, Work, ConsumerDies
<1>5. CASE Writer \/ WriterDies
  <2>1. UNCHANGED <<r_cnt, rpc, want, head, inbox>>
    BY <1>5 DEF Writer, WriteHead, WriteBody, Publish, WriterDies, rvars
  <2>2. Vouched
    BY <2>1 DEF Vouched
  <2>3. lapped = FALSE
    <3>1. lapped => lapped'
      BY <1>5, Zenon
      DEF Writer, WriteHead, WriteBody, Publish, WriterDies, hist
    <3>2. lapped \in BOOLEAN
      BY ReadTypes
    <3>3. QED
      BY <3>1, <3>2, Zenon
  <2>4. BatchRight
    BY <2>1, <2>2, <2>3 DEF ReadInv
  <2>5. QED
    BY <1>5, <2>1, <2>2, <2>3, <2>4, WriterKeepsBatch
<1>6. CASE Sync \/ SyncDies \/ UNCHANGED vars
  <2>1. UNCHANGED <<r_cnt, rpc, want, head, inbox, slot, lapped>>
    BY <1>6
    DEF Sync, SyncStart, SyncCopy, SyncWrite, SyncCount, SyncDies, vars,
        wvars, rvars, hist
  <2>2. BatchRight
    BY <2>1 DEF ReadInv, Vouched
  <2>3. QED
    BY <2>1, <2>2 DEF BatchRight, Intact, SlotOf, Copying
<1>7. QED
  BY <1>1, <1>2, <1>3, <1>4, <1>5, <1>6 DEF Next, Consumer

LEMMA StepNet ==
  ASSUME Types, Types', RingInv, SyncInv, ReadInv, [Next]_vars
  PROVE  SafetyNetUnlessLapped'
<1> SUFFICES ASSUME lapped' = FALSE, spoiled' = FALSE, rpc' = "work",
                    NEW i \in 1..Len(inbox')
             PROVE  inbox'[i] = <<r_cnt' + i, r_cnt' + i>>
  <2>1. lapped' \in BOOLEAN /\ spoiled' \in BOOLEAN
    BY DEF Types, TypeOK
  <2>2. QED
    BY <2>1 DEF SafetyNetUnlessLapped, SafetyNet
<1>1. CASE CopyBody
  <2>1. lapped = FALSE
    BY <1>1 DEF CopyBody, hist
  <2>2. QED
    BY <1>1, <2>1, CopyBodyBatch
<1>2. CASE FileRead
  <2>1. spoiled = FALSE /\ r_cnt' = r_cnt
    BY <1>2 DEF FileRead, hist
  <2>2. FileIsQueue
    BY <2>1 DEF SyncInv
  <2>3. QED
    BY <1>2, <2>1, <2>2, FileReadRows DEF FileIsQueue
<1>3. CASE Work
  <2>1. /\ rpc = "work" /\ r_cnt' = r_cnt + 1 /\ inbox' = Tail(inbox)
        /\ lapped = FALSE /\ spoiled = FALSE
    BY <1>3 DEF Work, hist
  <2>2. \A j \in 1..Len(inbox) : inbox[j] = <<r_cnt + j, r_cnt + j>>
    BY <2>1 DEF ReadInv, SafetyNetUnlessLapped, SafetyNet
  <2>3. inbox # <<>> /\ inbox \in Seq(Pairs) /\ r_cnt \in Nat
        /\ Len(inbox) \in Nat
    BY <2>1, ReadTypes
  <2>4. Len(inbox') = Len(inbox) - 1 /\ inbox'[i] = inbox[i + 1]
    BY <2>1, <2>3, HeadTailProperties
  <2>5. i + 1 \in 1..Len(inbox) /\ r_cnt + (i + 1) = r_cnt' + i
    BY <2>1, <2>3, <2>4
  <2>6. QED
    BY <2>2, <2>4, <2>5
<1>4. CASE ReadStart \/ CopyHead \/ FallBack \/ ConsumerDies
  BY <1>4 DEF ReadStart, CopyHead, FallBack, ConsumerDies
<1>5. CASE Writer \/ WriterDies \/ Sync \/ SyncDies \/ UNCHANGED vars
  <2>1. UNCHANGED <<r_cnt, rpc, inbox>>
    BY <1>5
    DEF Writer, WriteHead, WriteBody, Publish, WriterDies, Sync, SyncStart,
        SyncCopy, SyncWrite, SyncCount, SyncDies, vars, rvars
  <2>2. (lapped => lapped') /\ (spoiled => spoiled')
    BY <1>5, Zenon
    DEF Writer, WriteHead, WriteBody, Publish, WriterDies, Sync, SyncStart,
        SyncCopy, SyncWrite, SyncCount, SyncDies, vars, hist
  <2>3. ~lapped /\ ~spoiled
    BY <2>2, Zenon
  <2>4. SafetyNet
    BY <2>3, Zenon DEF ReadInv, SafetyNetUnlessLapped
  <2>5. QED
    BY <2>1, <2>4 DEF SafetyNet
<1>6. QED
  BY <1>1, <1>2, <1>3, <1>4, <1>5 DEF Next, Consumer

LEMMA StepRead ==
  ASSUME Types, Types', RingInv, SyncInv, ReadInv, [Next]_vars
  PROVE  ReadInv'
<1>1. lapped' \in BOOLEAN
  BY DEF Types, TypeOK
<1>2. (rpc' \in {"head", "body"} /\ Vouched' /\ ~lapped') => BatchRight'
  BY <1>1, StepBatch
<1>3. QED
  BY <1>2, StepNet DEF ReadInv

-------------------------------------------------------------------------------
\* The theorems

LEMMA InitInv ==
  ASSUME Init
  PROVE  IInv
<1>1. Types
  BY InitTyped
<1>2. RingInv
  BY DEF Init, RingInv
<1>3. SyncInv
  <2>1. Len(w_buf) = 0 /\ Len(file) = 0 /\ w_cnt = 0 /\ sm_r_cnt = 0
        /\ spc = "idle"
    BY EmptySeq DEF Init
  <2>2. QED
    BY <2>1 DEF SyncInv, FileIsQueue
<1>4. ReadInv
  BY DEF Init, ReadInv, SafetyNetUnlessLapped, SafetyNet
<1>5. QED
  BY <1>1, <1>2, <1>3, <1>4 DEF IInv

LEMMA Invariant == Spec => []IInv
<1>1. Init => IInv
  BY InitInv
<1>2. IInv /\ [Next]_vars => IInv'
  BY StepTyped, StepRing, StepSync, StepRead DEF IInv
<1>3. QED
  BY <1>1, <1>2, PTL DEF Spec

\* Counts, slots, rows and buffers stay in their types, for every ring, batch
\* and number of deaths.
THEOREM TypeCorrect == Spec => []TypeOK
<1>1. IInv => TypeOK
  BY DEF IInv, Types
<1>2. QED
  BY <1>1, Invariant, PTL

\* The one header DSHM_R compares is enough: a batch it hands out, from the
\* ring or from the file, is the records after the cursor, whole and in order,
\* unless the writer came round into it or the file has been spoiled.
THEOREM SafetyNetHolds == Spec => []SafetyNetUnlessLapped
<1>1. IInv => SafetyNetUnlessLapped
  BY DEF IInv, ReadInv
<1>2. QED
  BY <1>1, Invariant, PTL

\* Row n of the backing file is record n and the file is never ahead of the
\* writer, unless the ring has overrun the sync thread or it has died between
\* write and count.
THEOREM FileIsRight == Spec => []FileIsQueueUnlessSpoiled
<1>1. IInv => FileIsQueueUnlessSpoiled
  <2> SUFFICES ASSUME IInv, spoiled = FALSE
               PROVE  /\ FileIsQueue /\ sm_r_cnt <= Len(file)
                      /\ Len(file) <= w_cnt
    BY DEF FileIsQueueUnlessSpoiled, IInv, Types, TypeOK
  <2>1. /\ FileIsQueue
        /\ Len(file) = sm_r_cnt + (IF spc = "count" THEN scnt ELSE 0)
    BY DEF IInv, SyncInv
  <2>2. /\ sm_r_cnt \in Nat /\ scnt \in Nat /\ sm_r_cnt <= w_cnt
        /\ spc # "idle" => sm_r_cnt + scnt <= w_cnt
    BY SyncTypes DEF IInv
  <2>3. QED
    BY <2>1, <2>2
<1>2. QED
  BY <1>1, Invariant, PTL

===============================================================================
