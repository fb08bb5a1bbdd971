--------------------------- MODULE FileQueue_proofs ---------------------------
(***************************************************************************)
(* Proofs about FileQueue, for every number of writers and readers, every  *)
(* batch size and throttle, and every bound on rows and faults.            *)
(*                                                                         *)
(* Three invariants.  FileInv is about the writers: one is inside at a     *)
(* time, what it has written and has still to write are its rows from its  *)
(* edge on, and the file up to there is made of whole rows, numbered by    *)
(* place, unless history says otherwise.  CursorInv is about the readers:  *)
(* the rows in hand continue the cursor, and no saved cursor is ahead of   *)
(* the counted one.  FreshInv is about the _seq file: what a reader is     *)
(* about to store is every cursor but the owed ones.                       *)
(***************************************************************************)
EXTENDS FileQueue, SequenceTheorems, TLAPS

-------------------------------------------------------------------------------
\* The inductive invariants

Cell == [num : 1..(MaxRows + 1), part : {1, 2}]

Types ==
  /\ file \in Seq(Cell) /\ w_cnt \in Nat
  /\ r_cnt \in [Readers -> Nat] /\ saved \in [Readers -> Nat]
  /\ out \in [Writers -> Seq(Cell)] /\ rows \in [Writers -> 0..WriteMax]
  /\ wpc \in [Writers -> {"out", "write", "count", "ring"}]
  /\ edge \in [Writers -> Nat]
  /\ rpc \in [Readers -> {"read", "work", "count", "save", "store", "poll"}]
  /\ got \in [Readers -> Seq(Nat)]
  /\ snap \in [Readers -> [Readers -> Nat]]
  /\ age \in [Readers -> 0..Never] /\ bell \subseteq Readers
  /\ faults \in 0..MaxFaults /\ owes \subseteq Readers
  /\ done \in [Readers -> SUBSET Nat]
  /\ torn \in BOOLEAN /\ skewed \in BOOLEAN

\* A writer whose rows are not counted yet.
Inside(w) == wpc[w] \in {"write", "count"}

\* One writer at a time, and where it stands.
WritersInv ==
  /\ \A v, w \in Writers : wpc[v] # "out" /\ wpc[w] # "out" => v = w
  /\ Len(file) <= 2 * MaxRows + 1 /\ 2 * w_cnt <= Len(file)
  /\ \A w \in Writers :
       /\ wpc[w] = "out" => out[w] = <<>> /\ rows[w] = 0
       /\ wpc[w] \in {"count", "ring"} => out[w] = <<>>
       /\ wpc[w] = "write" => out[w] # <<>>
       /\ edge[w] <= Len(file) /\ Len(out[w]) <= 2 * rows[w]
       /\ Inside(w) =>
            /\ edge[w] + 2 * rows[w] = Len(file) + Len(out[w])
            /\ 2 * w_cnt <= edge[w]
            /\ edge[w] + 2 * rows[w] <= 2 * MaxRows + 1

\* What a writer has written, followed by what it has still to write, are its
\* rows.
RunInv ==
  \A w \in Writers : Inside(w) =>
    \A j \in 1..(2 * rows[w]) :
      IF edge[w] + j <= Len(file)
      THEN file[edge[w] + j] = RowCells(w_cnt + 1, rows[w])[j]
      ELSE out[w][(edge[w] + j) - Len(file)] = RowCells(w_cnt + 1, rows[w])[j]

\* The first n cells of the file are whole rows; they are the rows numbered
\* by their places.
Solid(n) ==
  /\ n % 2 = 0
  /\ \A m \in 1..(n \div 2) : IsRowAt(m)
Numbered(n) ==
  \A m \in 1..(n \div 2) : file[2 * m - 1] = Head1(m) /\ file[2 * m] = Tail2(m)

WholeInv ==
  ~torn => /\ \A w \in Writers : Inside(w) => Solid(edge[w])
           /\ (\A w \in Writers : ~Inside(w)) => Solid(Len(file))

NumberedInv ==
  ~torn /\ ~skewed =>
    /\ \A w \in Writers : Inside(w) => edge[w] = 2 * w_cnt /\ Numbered(edge[w])
    /\ (\A w \in Writers : ~Inside(w)) =>
         Len(file) = 2 * w_cnt /\ Numbered(Len(file))

FileInv == WritersInv /\ RunInv /\ WholeInv /\ NumberedInv

\* The rows a peeker has still to count.
InHand(r) ==
  IF r \in Peekers THEN (IF rpc[r] = "count" THEN 1 ELSE 0) + Len(got[r]) ELSE 0

PeekerInv(r) ==
  /\ 1..r_cnt[r] \subseteq done[r]
  /\ rpc[r] = "count" => r_cnt[r] + 1 \in done[r]
  /\ \A i \in 1..Len(got[r]) :
       got[r][i] = r_cnt[r] + i + (IF rpc[r] = "count" THEN 1 ELSE 0)

TakerInv(r) ==
  /\ rpc[r] # "count"
  /\ faults = 0 => /\ Len(got[r]) <= r_cnt[r]
                   /\ 1..(r_cnt[r] - Len(got[r])) \subseteq done[r]
                   /\ \A i \in 1..Len(got[r]) :
                        got[r][i] = r_cnt[r] - Len(got[r]) + i

ReaderInv(r) ==
  /\ 2 * (r_cnt[r] + InHand(r)) <= Len(file)
  /\ Len(got[r]) <= ReadMax
  /\ rpc[r] \in {"read", "poll"} => got[r] = <<>>
  /\ rpc[r] = "work" => got[r] # <<>>
  /\ r \in Peekers => PeekerInv(r)
  /\ r \in Takers => TakerInv(r)

SavedInv ==
  \A r \in Readers :
    /\ saved[r] <= r_cnt[r]
    /\ rpc[r] = "store" => \A q \in Readers : snap[r][q] <= r_cnt[q]

CursorInv == SavedInv /\ \A r \in Readers : ReaderInv(r)

FreshInv ==
  /\ \A q, r \in Readers : rpc[q] = "store" /\ rpc[r] = "store" => q = r
  /\ \A q \in Readers : rpc[q] = "store" =>
       \A r \in Readers : r \notin owes \/ r = q => snap[q][r] = r_cnt[r]
  /\ SaveIsFresh

IInv == Types /\ FileInv /\ CursorInv /\ FreshInv

-------------------------------------------------------------------------------
\* Facts about the operators

LEMMA Constants ==
  /\ ReadMax \in Nat \ {0} /\ WriteMax \in Nat \ {0} /\ Interval \in Nat
  /\ MaxRows \in Nat /\ MaxFaults \in Nat
  /\ \A r \in Peekers : r \in Readers /\ r \notin Takers
  /\ \A r \in Takers : r \in Readers /\ r \notin Peekers
  /\ Never \in Nat /\ Never > Interval
BY QueueAssumption DEF Readers, Never

LEMMA MinOfTwo ==
  ASSUME NEW a \in Int, NEW b \in Int
  PROVE  Min({a, b}) = IF a <= b THEN a ELSE b
BY DEF Min

LEMMA MaxOfTwo ==
  ASSUME NEW a \in Int, NEW b \in Int
  PROVE  Max({a, b}) = IF a >= b THEN a ELSE b
BY DEF Max

LEMMA HalfBound ==
  ASSUME NEW a \in Nat, NEW b \in Nat, NEW e \in Nat, NEW m \in Nat,
         2 * a <= e, e + 2 * b <= 2 * m + 1
  PROVE  a + b <= m
OBVIOUS

\* The cells of a run of rows.
LEMMA RunOfRows ==
  ASSUME NEW k \in Nat \ {0}, NEW n \in Nat, k + n <= MaxRows + 2
  PROVE  /\ RowCells(k, n) \in Seq(Cell) /\ Len(RowCells(k, n)) = 2 * n
         /\ \A m \in 1..n : /\ RowCells(k, n)[2 * m - 1] = Head1(k + m - 1)
                            /\ RowCells(k, n)[2 * m] = Tail2(k + m - 1)
<1>1. \A i \in 1..(2 * n) : RowCells(k, n)[i] \in Cell
  <2> SUFFICES ASSUME NEW i \in 1..(2 * n) PROVE RowCells(k, n)[i] \in Cell
    OBVIOUS
  <2>1. CASE i % 2 = 1
    <3>1. k + (i \div 2) \in 1..(MaxRows + 1)
      BY <2>1, Constants
    <3>2. QED
      BY <2>1, <3>1 DEF RowCells, Head1, Cell
  <2>2. CASE i % 2 # 1
    <3>1. k + (i \div 2) - 1 \in 1..(MaxRows + 1)
      BY <2>2, Constants
    <3>2. QED
      BY <2>2, <3>1 DEF RowCells, Tail2, Cell
  <2>3. QED
    BY <2>1, <2>2
<1>2. RowCells(k, n) \in Seq(Cell) /\ Len(RowCells(k, n)) = 2 * n
  <2>1. RowCells(k, n) = [i \in 1..(2 * n) |-> RowCells(k, n)[i]]
    BY DEF RowCells
  <2>2. RowCells(k, n) \in [1..(2 * n) -> Cell]
    BY <1>1, <2>1
  <2>3. QED
    BY <2>2, SeqDef, LenProperties
<1>3. ASSUME NEW m \in 1..n
      PROVE  /\ RowCells(k, n)[2 * m - 1] = Head1(k + m - 1)
             /\ RowCells(k, n)[2 * m] = Tail2(k + m - 1)
  <2>1. /\ 2 * m - 1 \in 1..(2 * n) /\ 2 * m \in 1..(2 * n)
        /\ (2 * m - 1) % 2 = 1 /\ (2 * m) % 2 = 0
        /\ (2 * m - 1) \div 2 = m - 1 /\ (2 * m) \div 2 = m
    BY <1>3
  <2>2. QED
    BY <2>1 DEF RowCells
<1>4. QED
  BY <1>2, <1>3

\* What a write puts at the end and what it leaves.
LEMMA PartWritten ==
  ASSUME NEW S, NEW s \in Seq(S), NEW t \in Seq(S), NEW k \in 1..Len(t)
  PROVE  /\ s \o SubSeq(t, 1, k) \in Seq(S)
         /\ Len(s \o SubSeq(t, 1, k)) = Len(s) + k
         /\ \A i \in 1..Len(s) : (s \o SubSeq(t, 1, k))[i] = s[i]
         /\ \A i \in 1..k : (s \o SubSeq(t, 1, k))[Len(s) + i] = t[i]
         /\ SubSeq(t, k + 1, Len(t)) \in Seq(S)
         /\ Len(SubSeq(t, k + 1, Len(t))) = Len(t) - k
         /\ \A i \in 1..(Len(t) - k) : SubSeq(t, k + 1, Len(t))[i] = t[k + i]
<1>1. /\ SubSeq(t, 1, k) \in Seq(S) /\ Len(SubSeq(t, 1, k)) = k
      /\ \A i \in 1..k : SubSeq(t, 1, k)[i] = t[i]
  OBVIOUS
<1>2. /\ SubSeq(t, k + 1, Len(t)) \in Seq(S)
      /\ Len(SubSeq(t, k + 1, Len(t))) = Len(t) - k
      /\ \A i \in 1..(Len(t) - k) : SubSeq(t, k + 1, Len(t))[i] = t[k + i]
  OBVIOUS
<1>3. QED
  BY <1>1, <1>2, ConcatProperties

\* The rows a reader that has its lock finds.
LEMMA FoundRows ==
  ASSUME Types, NEW r \in Readers, 2 * r_cnt[r] <= Len(file)
  PROVE  /\ Found(r) = IF Len(file) <= Wanted(r) THEN Len(file) - 2 * r_cnt[r]
                       ELSE 2 * ReadMax
         /\ Found(r) \in Nat /\ Found(r) <= 2 * ReadMax
         /\ Batch(r) \in Seq(Nat) /\ Len(Batch(r)) = Found(r) \div 2
         /\ Len(Batch(r)) <= ReadMax
         /\ 2 * (r_cnt[r] + Len(Batch(r))) <= Len(file)
         /\ \A i \in 1..Len(Batch(r)) : Batch(r)[i] = r_cnt[r] + i
<1>1. Len(file) \in Nat /\ r_cnt[r] \in Nat
  BY DEF Types
<1>2. Wanted(r) = 2 * r_cnt[r] + 2 * ReadMax
  BY <1>1, Constants DEF Wanted
<1>3. Wanted(r) \in Int /\ Len(file) \in Int /\ 2 * r_cnt[r] \in Int
  BY <1>1, <1>2, Constants
<1>a. Min({Len(file), Wanted(r)})
        = IF Len(file) <= Wanted(r) THEN Len(file) ELSE Wanted(r)
  BY <1>3, MinOfTwo
<1>b. Min({Len(file), 2 * r_cnt[r]}) = 2 * r_cnt[r]
  <2>1. Min({Len(file), 2 * r_cnt[r]})
          = IF Len(file) <= 2 * r_cnt[r] THEN Len(file) ELSE 2 * r_cnt[r]
    BY <1>3, MinOfTwo
  <2>2. QED
    BY <1>3, <2>1
<1>4. Found(r) = IF Len(file) <= Wanted(r) THEN Len(file) - 2 * r_cnt[r]
                 ELSE 2 * ReadMax
  BY <1>1, <1>2, <1>a, <1>b, Constants DEF Found
<1>5. Found(r) \in Nat /\ Found(r) <= 2 * ReadMax /\ 2 * r_cnt[r] + Found(r) <= Len(file)
  BY <1>1, <1>2, <1>4, Constants
<1> HIDE DEF Found
<1>6. Found(r) \div 2 \in Nat /\ 2 * (Found(r) \div 2) <= Found(r)
  BY <1>5
<1>7. Batch(r) \in [1..(Found(r) \div 2) -> Nat]
  BY <1>1, <1>6 DEF Batch
<1>8. Batch(r) \in Seq(Nat) /\ Len(Batch(r)) = Found(r) \div 2
  BY <1>6, <1>7, SeqDef, LenProperties
<1>9. \A i \in 1..Len(Batch(r)) : Batch(r)[i] = r_cnt[r] + i
  BY <1>8 DEF Batch
<1>10. Len(Batch(r)) <= ReadMax /\ 2 * (r_cnt[r] + Len(Batch(r))) <= Len(file)
  BY <1>1, <1>5, <1>6, <1>8, Constants
<1>11. QED
  BY <1>4, <1>5, <1>8, <1>9, <1>10

-------------------------------------------------------------------------------
\* What a step leaves alone

LEMMA FileKept ==
  ASSUME FileInv, UNCHANGED <<file, w_cnt, writing, torn, skewed>>
  PROVE  FileInv'
<1>1. UNCHANGED <<file, w_cnt, out, rows, wpc, edge, torn, skewed>>
  BY DEF writing
<1>2. WritersInv'
  BY <1>1 DEF FileInv, WritersInv, Inside
<1>3. RunInv'
  BY <1>1 DEF FileInv, RunInv, Inside
<1>4. WholeInv'
  BY <1>1 DEF FileInv, WholeInv, Inside, Solid, IsRowAt
<1>5. NumberedInv'
  BY <1>1 DEF FileInv, NumberedInv, Inside, Numbered
<1>6. QED
  BY <1>2, <1>3, <1>4, <1>5 DEF FileInv

\* A step of one reader is none of the others.
LEMMA OneReader ==
  ASSUME \A q \in Readers : ReaderInv(q), NEW r \in Readers,
         file' = file, faults' = faults,
         \A q \in Readers \ {r} : /\ r_cnt'[q] = r_cnt[q] /\ got'[q] = got[q]
                                  /\ rpc'[q] = rpc[q] /\ done'[q] = done[q],
         ReaderInv(r)'
  PROVE  \A q \in Readers : ReaderInv(q)'
<1> SUFFICES ASSUME NEW q \in Readers, q # r PROVE ReaderInv(q)'
  OBVIOUS
<1>1. /\ r_cnt'[q] = r_cnt[q] /\ got'[q] = got[q]
      /\ rpc'[q] = rpc[q] /\ done'[q] = done[q]
  OBVIOUS
<1>2. ReaderInv(q)
  OBVIOUS
<1>3. InHand(q)' = InHand(q)
  BY <1>1 DEF InHand
<1>4. PeekerInv(q) => PeekerInv(q)'
  BY <1>1 DEF PeekerInv
<1>5. TakerInv(q) => TakerInv(q)'
  BY <1>1 DEF TakerInv
<1>6. (r_cnt[q] + InHand(q))' = r_cnt[q] + InHand(q)
  BY <1>1, <1>3
<1>7. (2 * (r_cnt[q] + InHand(q)) <= Len(file))'
  BY <1>2, <1>6 DEF ReaderInv
<1>8. QED
  BY <1>1, <1>2, <1>4, <1>5, <1>7 DEF ReaderInv

LEMMA SavedKept ==
  ASSUME Types, Types', SavedInv, UNCHANGED <<saved, snap>>,
         \A q \in Readers : r_cnt[q] <= r_cnt'[q],
         \A q \in Readers : rpc'[q] = "store" => rpc[q] = "store"
  PROVE  SavedInv'
<1>1. \A q \in Readers : saved[q] \in Nat /\ r_cnt[q] \in Nat /\ r_cnt'[q] \in Nat
  BY DEF Types
<1>2. \A q, r \in Readers : snap[r][q] \in Nat
  BY DEF Types
<1>3. QED
  BY <1>1, <1>2 DEF SavedInv

LEMMA FreshKept ==
  ASSUME FreshInv, UNCHANGED <<saved, snap>>,
         \A q \in Readers : rpc'[q] = "store" => rpc[q] = "store",
         \A q \in Readers : q \notin owes' \/ rpc[q] = "store"
                              => r_cnt'[q] = r_cnt[q],
         owes \subseteq owes'
  PROVE  FreshInv'
BY DEF FreshInv, SaveIsFresh

\* Steps that touch no reader; the file may grow.
LEMMA ReadersKept ==
  ASSUME Types, CursorInv, FreshInv,
         UNCHANGED <<r_cnt, saved, rpc, got, snap, done, owes>>,
         Len(file') \in Nat, Len(file) <= Len(file'), faults' = 0 => faults = 0
  PROVE  CursorInv' /\ FreshInv'
<1>1. SavedInv' /\ FreshInv'
  BY DEF CursorInv, SavedInv, FreshInv, SaveIsFresh
<1>2. ASSUME NEW r \in Readers PROVE ReaderInv(r)'
  <2>1. ReaderInv(r)
    BY DEF CursorInv
  <2>2. InHand(r)' = InHand(r) /\ PeekerInv(r)' = PeekerInv(r)
    BY DEF InHand, PeekerInv
  <2>3. InHand(r) \in Nat /\ r_cnt[r] \in Nat /\ Len(file) \in Nat
    BY DEF Types, InHand
  <2>4. (r_cnt[r] + InHand(r))' = r_cnt[r] + InHand(r)
    BY <2>2
  <2>5. (2 * (r_cnt[r] + InHand(r)) <= Len(file))'
    BY <2>1, <2>3, <2>4 DEF ReaderInv
  <2>6. r \in Takers => TakerInv(r)'
    BY <2>1 DEF ReaderInv, TakerInv
  <2>7. QED
    BY <2>1, <2>2, <2>5, <2>6 DEF ReaderInv
<1>3. QED
  BY <1>1, <1>2 DEF CursorInv

-------------------------------------------------------------------------------
\* Steps of the readers

LEMMA PollKeeps ==
  ASSUME IInv, NEW r \in Readers, Poll_File(r) \/ Poll_Timeout(r)
  PROVE  IInv'
<1>1. /\ rpc[r] = "poll" /\ rpc' = [rpc EXCEPT ![r] = "read"]
      /\ bell' \subseteq bell
      /\ UNCHANGED <<file, w_cnt, r_cnt, saved, writing, got, snap, age, faults,
                     history>>
  BY DEF Poll_File, Poll_Timeout
<1>2. Types'
  BY <1>1 DEF IInv, Types, writing, history
<1>3. FileInv'
  BY <1>1, FileKept DEF IInv, history
<1>4. rpc'[r] = "read" /\ \A q \in Readers \ {r} : rpc'[q] = rpc[q]
  BY <1>1 DEF IInv, Types
<1>5. ReaderInv(r)'
  <2>1. ReaderInv(r)
    BY DEF IInv, CursorInv
  <2>2. InHand(r)' = InHand(r)
    BY <1>1, <1>4 DEF InHand
  <2>3. UNCHANGED <<file, r_cnt, got, done, faults>>
    BY <1>1 DEF history
  <2>4. r \in Peekers => PeekerInv(r)'
    BY <1>1, <1>4, <2>1, <2>3 DEF ReaderInv, PeekerInv
  <2>5. r \in Takers => TakerInv(r)'
    BY <1>4, <2>1, <2>3 DEF ReaderInv, TakerInv
  <2>6. QED
    BY <1>1, <1>4, <2>1, <2>2, <2>3, <2>4, <2>5 DEF ReaderInv
<1>6. \A q \in Readers : r_cnt[q] <= r_cnt'[q]
  BY <1>1 DEF IInv, Types
<1>7. CursorInv'
  <2>1. SavedInv'
    BY <1>1, <1>2, <1>4, <1>6, SavedKept DEF IInv, CursorInv
  <2>2. \A q \in Readers : ReaderInv(q)'
    BY <1>1, <1>4, <1>5, OneReader DEF IInv, CursorInv, history
  <2>3. QED
    BY <2>1, <2>2 DEF CursorInv
<1>8. FreshInv'
  BY <1>1, <1>4, FreshKept DEF IInv, history
<1>9. QED
  BY <1>2, <1>3, <1>7, <1>8 DEF IInv

\* A reader goes on with the rows in its hands, or reads again.
LEMMA GoesOn ==
  ASSUME IInv, NEW r \in Readers, rpc[r] \in {"save", "store"},
         rpc' = [rpc EXCEPT ![r] = AfterSave(r)],
         UNCHANGED <<file, w_cnt, r_cnt, got, faults, done>>
  PROVE  /\ rpc' \in [Readers -> {"read", "work", "count", "save", "store", "poll"}]
         /\ \A q \in Readers : rpc'[q] = "store" => rpc[q] = "store" /\ q # r
         /\ \A q \in Readers : ReaderInv(q)'
<1>1. /\ rpc'[r] = IF got[r] # <<>> THEN "work" ELSE "read"
      /\ \A q \in Readers \ {r} : rpc'[q] = rpc[q]
      /\ rpc' \in [Readers -> {"read", "work", "count", "save", "store", "poll"}]
  BY DEF AfterSave, IInv, Types
<1>2. ReaderInv(r)'
  <2>1. ReaderInv(r)
    BY DEF IInv, CursorInv
  <2>2. InHand(r)' = InHand(r)
    BY <1>1 DEF InHand
  <2>3. r \in Peekers => PeekerInv(r)'
    BY <1>1, <2>1 DEF ReaderInv, PeekerInv
  <2>4. r \in Takers => TakerInv(r)'
    BY <1>1, <2>1 DEF ReaderInv, TakerInv
  <2>5. (2 * (r_cnt[r] + InHand(r)) <= Len(file))'
    BY <2>1, <2>2 DEF ReaderInv
  <2>6. QED
    BY <1>1, <2>1, <2>3, <2>4, <2>5 DEF ReaderInv
<1>3. \A q \in Readers : ReaderInv(q)'
  BY <1>1, <1>2, OneReader DEF IInv, CursorInv
<1>4. QED
  BY <1>1, <1>3

LEMMA Seq_Throttle_CheckKeeps ==
  ASSUME IInv, NEW r \in Readers, Seq_Throttle_Check(r)
  PROVE  IInv'
<1>1. /\ rpc[r] = "save" /\ rpc' = [rpc EXCEPT ![r] = AfterSave(r)]
      /\ UNCHANGED <<file, w_cnt, r_cnt, saved, writing, got, snap, age, bell,
                     faults, done, torn, skewed, owes>>
  BY DEF Seq_Throttle_Check, history
<1>2. /\ rpc' \in [Readers -> {"read", "work", "count", "save", "store", "poll"}]
      /\ \A q \in Readers : rpc'[q] = "store" => rpc[q] = "store"
      /\ \A q \in Readers : ReaderInv(q)'
  BY <1>1, GoesOn
<1>3. Types'
  BY <1>1, <1>2 DEF IInv, Types, writing
<1>4. FileInv'
  BY <1>1, FileKept DEF IInv
<1>5. SavedInv'
  <2>1. \A q \in Readers : r_cnt[q] <= r_cnt'[q]
    BY <1>1 DEF IInv, Types
  <2>2. QED
    BY <1>1, <1>2, <1>3, <2>1, SavedKept DEF IInv, CursorInv
<1>6. FreshInv'
  BY <1>1, <1>2, FreshKept DEF IInv
<1>7. QED
  BY <1>2, <1>3, <1>4, <1>5, <1>6 DEF IInv, CursorInv

LEMMA Seq_SaveKeeps ==
  ASSUME IInv, NEW r \in Readers, Seq_Save(r)
  PROVE  IInv'
<1>1. /\ rpc[r] = "save" /\ \A q \in Readers : rpc[q] # "store"
      /\ snap' = [snap EXCEPT ![r] = r_cnt] /\ age' = [age EXCEPT ![r] = 0]
      /\ rpc' = [rpc EXCEPT ![r] = "store"]
      /\ UNCHANGED <<file, w_cnt, r_cnt, saved, writing, got, bell, faults,
                     done, torn, skewed, owes>>
  BY DEF Seq_Save, history
<1>2. /\ rpc'[r] = "store" /\ snap'[r] = r_cnt
      /\ \A q \in Readers \ {r} : rpc'[q] = rpc[q]
  BY <1>1 DEF IInv, Types
<1>3. Types'
  <2>1. 0 \in 0..Never
    BY Constants
  <2>2. QED
    BY <1>1, <2>1 DEF IInv, Types, writing
<1>4. FileInv'
  BY <1>1, FileKept DEF IInv
<1>5. ReaderInv(r)'
  <2>1. ReaderInv(r)
    BY DEF IInv, CursorInv
  <2>2. InHand(r)' = InHand(r)
    BY <1>1, <1>2 DEF InHand
  <2>3. r \in Peekers => PeekerInv(r)'
    BY <1>1, <1>2, <2>1 DEF ReaderInv, PeekerInv
  <2>4. r \in Takers => TakerInv(r)'
    BY <1>1, <1>2, <2>1 DEF ReaderInv, TakerInv
  <2>5. (2 * (r_cnt[r] + InHand(r)) <= Len(file))'
    BY <1>1, <2>1, <2>2 DEF ReaderInv
  <2>6. QED
    BY <1>1, <1>2, <2>1, <2>3, <2>4, <2>5 DEF ReaderInv
<1>6. \A q \in Readers : ReaderInv(q)'
  BY <1>1, <1>2, <1>5, OneReader DEF IInv, CursorInv
<1>7. SavedInv'
  <2>1. \A q \in Readers : r_cnt[q] <= r_cnt[q]
    BY DEF IInv, Types
  <2>2. \A q \in Readers : rpc'[q] = "store" => q = r
    BY <1>1, <1>2
  <2>3. QED
    BY <1>1, <1>2, <2>1, <2>2 DEF IInv, CursorInv, SavedInv
<1>8. FreshInv'
  <2>1. \A q \in Readers : rpc'[q] = "store" => q = r
    BY <1>1, <1>2
  <2>2. QED
    BY <1>1, <1>2, <2>1 DEF IInv, FreshInv, SaveIsFresh
<1>9. QED
  BY <1>3, <1>4, <1>6, <1>7, <1>8 DEF IInv, CursorInv

LEMMA StoreKeeps ==
  ASSUME IInv, NEW r \in Readers, Store(r)
  PROVE  IInv'
<1>1. /\ rpc[r] = "store" /\ saved' = snap[r] /\ owes' = owes \ {r}
      /\ rpc' = [rpc EXCEPT ![r] = AfterSave(r)]
      /\ UNCHANGED <<file, w_cnt, r_cnt, writing, got, snap, age, bell, faults,
                     done, torn, skewed>>
  BY DEF Store
<1>2. /\ rpc' \in [Readers -> {"read", "work", "count", "save", "store", "poll"}]
      /\ \A q \in Readers : rpc'[q] = "store" => rpc[q] = "store" /\ q # r
      /\ \A q \in Readers : ReaderInv(q)'
  BY <1>1, GoesOn
<1>3. Types'
  BY <1>1, <1>2 DEF IInv, Types, writing
<1>4. FileInv'
  BY <1>1, FileKept DEF IInv
<1>5. \A q \in Readers : rpc'[q] # "store"
  BY <1>1, <1>2 DEF IInv, FreshInv
<1>6. SavedInv'
  BY <1>1, <1>5 DEF IInv, CursorInv, SavedInv
<1>7. FreshInv'
  BY <1>1, <1>5 DEF IInv, FreshInv, SaveIsFresh
<1>8. QED
  BY <1>2, <1>3, <1>4, <1>6, <1>7 DEF IInv, CursorInv

\* What F_R finds is in the reader's hands; a taker has counted it already.
LEMMA TakesRows ==
  ASSUME IInv, NEW r \in Readers, rpc[r] = "read", Found(r) % 2 = 0,
         Found(r) # 0, Takes(r), UNCHANGED <<file, done, faults>>
  PROVE  /\ got' \in [Readers -> Seq(Nat)] /\ r_cnt' \in [Readers -> Nat]
         /\ rpc' \in [Readers -> {"read", "work", "count", "save", "store", "poll"}]
         /\ owes \subseteq owes' /\ owes' \subseteq Readers
         /\ rpc'[r] \in {"work", "save"}
         /\ r_cnt'[r] = r_cnt[r] \/ r \in owes'
         /\ r_cnt[r] <= r_cnt'[r]
         /\ \A q \in Readers \ {r} :
              r_cnt'[q] = r_cnt[q] /\ got'[q] = got[q] /\ rpc'[q] = rpc[q]
         /\ ReaderInv(r)'
<1>t. /\ got \in [Readers -> Seq(Nat)] /\ r_cnt \in [Readers -> Nat]
      /\ rpc \in [Readers -> {"read", "work", "count", "save", "store", "poll"}]
      /\ owes \subseteq Readers /\ Len(file) \in Nat
  BY DEF IInv, Types
<1>0. ReaderInv(r) /\ got[r] = <<>>
  BY DEF IInv, CursorInv, ReaderInv
<1>1. 2 * r_cnt[r] <= Len(file)
  BY <1>t, <1>0 DEF ReaderInv, InHand
<1>2. /\ Found(r) \in Nat /\ Batch(r) \in Seq(Nat)
      /\ Len(Batch(r)) = Found(r) \div 2 /\ Len(Batch(r)) <= ReadMax
      /\ 2 * (r_cnt[r] + Len(Batch(r))) <= Len(file)
      /\ \A i \in 1..Len(Batch(r)) : Batch(r)[i] = r_cnt[r] + i
  BY <1>1, FoundRows DEF IInv
<1>3. Len(Batch(r)) \in Nat /\ Len(Batch(r)) > 0 /\ Batch(r) # <<>>
  <2>1. Len(Batch(r)) \in Nat /\ Len(Batch(r)) > 0
    BY <1>2
  <2>2. QED
    BY <2>1
<1>4. got' = [got EXCEPT ![r] = Batch(r)] /\ got'[r] = Batch(r)
  BY <1>t DEF Takes
<1>5. CASE r \in Takers
  <2>1. r \notin Peekers
    BY <1>5, Constants
  <2>2. /\ r_cnt' = [r_cnt EXCEPT ![r] = @ + Len(Batch(r))]
        /\ rpc' = [rpc EXCEPT ![r] = "save"] /\ owes' = owes \union {r}
    BY <1>5 DEF Takes
  <2>3. r_cnt'[r] = r_cnt[r] + Len(Batch(r)) /\ rpc'[r] = "save"
    BY <1>t, <2>2
  <2>4. InHand(r)' = 0
    BY <2>1 DEF InHand
  <2>5. TakerInv(r)'
    <3>1. faults = 0 => 1..r_cnt[r] \subseteq done[r]
      BY <1>t, <1>0, <1>5 DEF ReaderInv, TakerInv
    <3>2. r_cnt[r] \in Nat /\ r_cnt'[r] - Len(Batch(r)) = r_cnt[r]
      BY <1>t, <1>3, <2>3
    <3>3. Len(Batch(r)) <= r_cnt'[r]
      BY <1>t, <1>3, <2>3
    <3>4. QED
      BY <1>2, <1>4, <2>3, <3>1, <3>2, <3>3 DEF TakerInv
  <2>6. ReaderInv(r)'
    BY <1>2, <1>3, <1>4, <2>1, <2>3, <2>4, <2>5 DEF ReaderInv
  <2>7. r_cnt'[r] \in Nat /\ r_cnt[r] <= r_cnt'[r]
    BY <1>t, <1>3, <2>3
  <2>8. /\ got' \in [Readers -> Seq(Nat)] /\ r_cnt' \in [Readers -> Nat]
        /\ rpc' \in [Readers -> {"read", "work", "count", "save", "store", "poll"}]
    BY <1>t, <1>2, <1>3, <1>4, <2>2
  <2>9. QED
    BY <1>t, <1>4, <2>2, <2>3, <2>6, <2>7, <2>8
<1>6. CASE r \notin Takers
  <2>1. r \in Peekers
    BY <1>6 DEF Readers
  <2>2. /\ r_cnt' = r_cnt /\ rpc' = [rpc EXCEPT ![r] = "work"] /\ owes' = owes
    BY <1>6 DEF Takes
  <2>3. rpc'[r] = "work"
    BY <1>t, <2>2
  <2>4. InHand(r)' = Len(Batch(r))
    BY <1>3, <1>4, <2>1, <2>3 DEF InHand
  <2>5. PeekerInv(r)'
    <3>1. 1..r_cnt[r] \subseteq done[r]
      BY <1>0, <2>1 DEF ReaderInv, PeekerInv
    <3>2. \A i \in 1..Len(Batch(r)) : Batch(r)[i] = r_cnt[r] + i + 0
      BY <1>t, <1>2
    <3>3. QED
      BY <1>4, <2>2, <2>3, <3>1, <3>2 DEF PeekerInv
  <2>6. ReaderInv(r)'
    BY <1>2, <1>3, <1>4, <1>6, <2>2, <2>3, <2>4, <2>5 DEF ReaderInv
  <2>7. /\ got' \in [Readers -> Seq(Nat)]
        /\ rpc' \in [Readers -> {"read", "work", "count", "save", "store", "poll"}]
    BY <1>t, <1>2, <1>4, <2>2
  <2>8. QED
    BY <1>t, <1>4, <2>2, <2>3, <2>6, <2>7
<1>7. QED
  BY <1>5, <1>6

LEMMA F_RKeeps ==
  ASSUME IInv, NEW r \in Readers, F_R(r)
  PROVE  IInv'
<1>1. /\ rpc[r] = "read" /\ Found(r) % 2 = 0
      /\ UNCHANGED <<file, w_cnt, saved, writing, snap, age, bell, faults, done,
                     torn, skewed>>
  BY DEF F_R
<1>2. CASE Found(r) # 0
  <2>1. Takes(r)
    BY <1>2 DEF F_R
  <2>2. /\ got' \in [Readers -> Seq(Nat)] /\ r_cnt' \in [Readers -> Nat]
        /\ rpc' \in [Readers -> {"read", "work", "count", "save", "store", "poll"}]
        /\ owes \subseteq owes' /\ owes' \subseteq Readers
        /\ rpc'[r] \in {"work", "save"}
        /\ r_cnt'[r] = r_cnt[r] \/ r \in owes'
        /\ r_cnt[r] <= r_cnt'[r]
        /\ \A q \in Readers \ {r} :
             r_cnt'[q] = r_cnt[q] /\ got'[q] = got[q] /\ rpc'[q] = rpc[q]
        /\ ReaderInv(r)'
    BY <1>1, <1>2, <2>1, TakesRows
  <2>3. Types'
    BY <1>1, <2>2 DEF IInv, Types, writing
  <2>4. FileInv'
    BY <1>1, FileKept DEF IInv
  <2>5. \A q \in Readers : ReaderInv(q)'
    BY <1>1, <2>2, OneReader DEF IInv, CursorInv
  <2>6. SavedInv'
    <3>1. \A q \in Readers : r_cnt[q] <= r_cnt'[q]
      <4>1. \A q \in Readers : r_cnt[q] \in Nat /\ r_cnt[q] <= r_cnt[q]
        BY DEF IInv, Types
      <4>2. QED
        BY <2>2, <4>1
    <3>2. QED
      BY <1>1, <2>2, <2>3, <3>1, SavedKept DEF IInv, CursorInv
  <2>7. FreshInv'
    BY <1>1, <2>2, FreshKept DEF IInv
  <2>8. QED
    BY <2>3, <2>4, <2>5, <2>6, <2>7 DEF IInv, CursorInv
<1>3. CASE Found(r) = 0
  <2>1. rpc' = [rpc EXCEPT ![r] = "poll"] /\ UNCHANGED <<got, r_cnt, owes>>
    BY <1>3 DEF F_R
  <2>2. rpc'[r] = "poll" /\ \A q \in Readers \ {r} : rpc'[q] = rpc[q]
    BY <2>1 DEF IInv, Types
  <2>3. Types'
    BY <1>1, <2>1 DEF IInv, Types, writing
  <2>4. FileInv'
    BY <1>1, FileKept DEF IInv
  <2>5. ReaderInv(r)'
    <3>1. ReaderInv(r)
      BY DEF IInv, CursorInv
    <3>2. InHand(r)' = InHand(r)
      BY <1>1, <2>1, <2>2 DEF InHand
    <3>3. r \in Peekers => PeekerInv(r)'
      BY <1>1, <2>1, <2>2, <3>1 DEF ReaderInv, PeekerInv
    <3>4. r \in Takers => TakerInv(r)'
      BY <1>1, <2>1, <2>2, <3>1 DEF ReaderInv, TakerInv
    <3>5. (2 * (r_cnt[r] + InHand(r)) <= Len(file))'
      BY <1>1, <2>1, <3>1, <3>2 DEF ReaderInv
    <3>6. QED
      BY <1>1, <2>1, <2>2, <3>1, <3>3, <3>4, <3>5 DEF ReaderInv
  <2>6. \A q \in Readers : ReaderInv(q)'
    BY <1>1, <2>1, <2>2, <2>5, OneReader DEF IInv, CursorInv
  <2>7. SavedInv'
    <3>1. \A q \in Readers : r_cnt[q] <= r_cnt'[q]
      BY <2>1 DEF IInv, Types
    <3>2. QED
      BY <1>1, <2>2, <2>3, <3>1, SavedKept DEF IInv, CursorInv
  <2>8. FreshInv'
    BY <1>1, <2>1, <2>2, FreshKept DEF IInv
  <2>9. QED
    BY <2>3, <2>4, <2>6, <2>7, <2>8 DEF IInv, CursorInv
<1>4. QED
  BY <1>2, <1>3

LEMMA F_R_FailsKeeps ==
  ASSUME IInv, NEW r \in Readers, F_R_Fails(r)
  PROVE  IInv'
<1>1. /\ rpc[r] = "read" /\ \A q \in Readers : rpc[q] # "store"
      /\ \/ UNCHANGED <<saved, owes>>
         \/ saved' = r_cnt /\ owes' = owes \ {r}
      /\ age' = [age EXCEPT ![r] = Never]
      /\ UNCHANGED <<file, w_cnt, r_cnt, writing, rpc, got, snap, bell, faults,
                     done, torn, skewed>>
  BY DEF F_R_Fails
<1>2. Types'
  <2>1. Never \in 0..Never
    BY Constants
  <2>2. QED
    BY <1>1, <2>1 DEF IInv, Types, writing
<1>3. FileInv'
  BY <1>1, FileKept DEF IInv
<1>4. \A q \in Readers : ReaderInv(q)'
  BY <1>1 DEF IInv, CursorInv, ReaderInv, InHand, PeekerInv, TakerInv
<1>5. SavedInv'
  <2>1. \A q \in Readers : r_cnt[q] <= r_cnt[q]
    BY DEF IInv, Types
  <2>2. QED
    BY <1>1, <2>1 DEF IInv, CursorInv, SavedInv
<1>6. FreshInv'
  BY <1>1 DEF IInv, FreshInv, SaveIsFresh
<1>7. QED
  BY <1>2, <1>3, <1>4, <1>5, <1>6 DEF IInv, CursorInv

LEMMA HandleKeeps ==
  ASSUME IInv, NEW r \in Readers, Handle(r)
  PROVE  IInv'
<1>1. /\ rpc[r] = "work"
      /\ done' = [done EXCEPT ![r] = @ \union {Head(got[r])}]
      /\ got' = [got EXCEPT ![r] = Tail(@)]
      /\ rpc' = [rpc EXCEPT ![r] = IF r \in Peekers THEN "count"
                                   ELSE IF Len(got[r]) > 1 THEN @ ELSE "read"]
      /\ UNCHANGED <<file, w_cnt, r_cnt, saved, writing, snap, age, bell, faults,
                     torn, skewed, owes>>
  BY DEF Handle
<1>t. /\ got \in [Readers -> Seq(Nat)] /\ r_cnt[r] \in Nat
      /\ done \in [Readers -> SUBSET Nat]
      /\ rpc \in [Readers -> {"read", "work", "count", "save", "store", "poll"}]
      /\ Len(file) \in Nat
  BY DEF IInv, Types
<1>0. ReaderInv(r) /\ got[r] # <<>>
  BY <1>1 DEF IInv, CursorInv, ReaderInv
<1>2. /\ Head(got[r]) \in Nat /\ Head(got[r]) = got[r][1]
      /\ Tail(got[r]) \in Seq(Nat) /\ Len(Tail(got[r])) = Len(got[r]) - 1
      /\ Len(got[r]) \in Nat /\ Len(got[r]) >= 1
      /\ \A i \in 1..(Len(got[r]) - 1) : Tail(got[r])[i] = got[r][i + 1]
  <2>1. got[r] \in Seq(Nat)
    BY <1>t
  <2>2. /\ Head(got[r]) \in Nat /\ Tail(got[r]) \in Seq(Nat)
        /\ Len(Tail(got[r])) = Len(got[r]) - 1
        /\ \A i \in 1..Len(Tail(got[r])) : Tail(got[r])[i] = got[r][i + 1]
    BY <1>0, <2>1, HeadTailProperties
  <2>3. Len(got[r]) \in Nat /\ Len(got[r]) >= 1 /\ Head(got[r]) = got[r][1]
    BY <1>0, <2>1, EmptySeq
  <2>4. QED
    BY <2>2, <2>3
<1>3. /\ got'[r] = Tail(got[r]) /\ done'[r] = done[r] \union {got[r][1]}
      /\ \A q \in Readers \ {r} :
           got'[q] = got[q] /\ rpc'[q] = rpc[q] /\ done'[q] = done[q]
      /\ rpc'[r] = IF r \in Peekers THEN "count"
                   ELSE IF Len(got[r]) > 1 THEN "work" ELSE "read"
  BY <1>t, <1>1, <1>2
<1>4. Types'
  <2>1. got' \in [Readers -> Seq(Nat)]
    BY <1>t, <1>1, <1>2
  <2>2. done' \in [Readers -> SUBSET Nat]
    BY <1>t, <1>1, <1>2
  <2>3. rpc' \in [Readers -> {"read", "work", "count", "save", "store", "poll"}]
    BY <1>t, <1>1
  <2>4. QED
    BY <1>1, <2>1, <2>2, <2>3 DEF IInv, Types, writing
<1>5. FileInv'
  BY <1>1, FileKept DEF IInv
<1>6. ReaderInv(r)'
  <2>1. CASE r \in Peekers
    <3>1. r \notin Takers /\ PeekerInv(r)
      BY <1>0, <2>1, Constants DEF ReaderInv
    <3>2. rpc'[r] = "count"
      BY <1>3, <2>1
    <3>3. InHand(r)' = 1 + (Len(got[r]) - 1) /\ InHand(r) = 0 + Len(got[r])
      BY <1>1, <1>2, <1>3, <2>1, <3>2 DEF InHand
    <3>4. (2 * (r_cnt[r] + InHand(r)) <= Len(file))'
      BY <1>0, <1>1, <1>2, <1>t, <3>3 DEF ReaderInv
    <3>5. got[r][1] = r_cnt[r] + 1
      BY <1>1, <1>2, <1>t, <3>1 DEF PeekerInv
    <3>6. \A i \in 1..(Len(got[r]) - 1) : Tail(got[r])[i] = r_cnt[r] + i + 1
      <4> SUFFICES ASSUME NEW i \in 1..(Len(got[r]) - 1)
                   PROVE  Tail(got[r])[i] = r_cnt[r] + i + 1
        OBVIOUS
      <4>1. i + 1 \in 1..Len(got[r])
        BY <1>2
      <4>2. got[r][i + 1] = r_cnt[r] + (i + 1) + 0
        BY <1>1, <3>1, <4>1 DEF PeekerInv
      <4>3. Tail(got[r])[i] = got[r][i + 1]
        BY <1>2
      <4>4. r_cnt[r] + (i + 1) + 0 = r_cnt[r] + i + 1
        BY <1>t
      <4>5. QED
        BY <4>2, <4>3, <4>4
    <3>7. PeekerInv(r)'
      BY <1>1, <1>2, <1>3, <3>1, <3>2, <3>5, <3>6 DEF PeekerInv
    <3>8. Len(Tail(got[r])) <= ReadMax
      BY <1>0, <1>2, Constants DEF ReaderInv
    <3>9. QED
      BY <1>3, <3>1, <3>2, <3>4, <3>7, <3>8 DEF ReaderInv
  <2>2. CASE r \in Takers
    <3>1. r \notin Peekers /\ TakerInv(r)
      BY <1>0, <2>2, Constants DEF ReaderInv
    <3>2. rpc'[r] = IF Len(got[r]) > 1 THEN "work" ELSE "read"
      BY <1>3, <3>1
    <3>3. InHand(r)' = 0 /\ InHand(r) = 0
      BY <3>1 DEF InHand
    <3>4. (2 * (r_cnt[r] + InHand(r)) <= Len(file))'
      BY <1>0, <1>1, <3>3 DEF ReaderInv
    <3>5. TakerInv(r)'
      <4>0. rpc'[r] # "count" /\ r_cnt' = r_cnt /\ faults' = faults
        BY <1>1, <3>2
      <4>1. SUFFICES ASSUME faults = 0
                     PROVE  /\ Len(Tail(got[r])) <= r_cnt[r]
                            /\ 1..(r_cnt[r] - Len(Tail(got[r]))) \subseteq done'[r]
                            /\ \A i \in 1..Len(Tail(got[r])) : Tail(got[r])[i]
                                 = r_cnt[r] - Len(Tail(got[r])) + i
        BY <1>3, <4>0 DEF TakerInv
      <4>2. /\ Len(got[r]) <= r_cnt[r]
            /\ 1..(r_cnt[r] - Len(got[r])) \subseteq done[r]
            /\ \A i \in 1..Len(got[r]) : got[r][i] = r_cnt[r] - Len(got[r]) + i
        BY <3>1, <4>1 DEF TakerInv
      <4>3. got[r][1] = r_cnt[r] - Len(got[r]) + 1
        BY <1>2, <4>2
      <4>4. 1..(r_cnt[r] - (Len(got[r]) - 1))
              \subseteq 1..(r_cnt[r] - Len(got[r])) \union {got[r][1]}
        BY <1>2, <1>t, <4>2, <4>3
      <4>5. \A i \in 1..(Len(got[r]) - 1) :
              Tail(got[r])[i] = r_cnt[r] - (Len(got[r]) - 1) + i
        <5> SUFFICES ASSUME NEW i \in 1..(Len(got[r]) - 1)
                     PROVE Tail(got[r])[i] = r_cnt[r] - (Len(got[r]) - 1) + i
          OBVIOUS
        <5>1. i + 1 \in 1..Len(got[r])
          BY <1>2
        <5>2. got[r][i + 1] = r_cnt[r] - Len(got[r]) + (i + 1)
          BY <4>2, <5>1
        <5>3. QED
          BY <1>2, <1>t, <5>2
      <4>6. Len(got[r]) - 1 <= r_cnt[r]
        BY <1>2, <1>t, <4>2
      <4>7. QED
        BY <1>2, <1>3, <4>2, <4>4, <4>5, <4>6
    <3>6. Len(Tail(got[r])) <= ReadMax
      BY <1>0, <1>2, Constants DEF ReaderInv
    <3>7. IF Len(got[r]) > 1 THEN Tail(got[r]) # <<>> ELSE Tail(got[r]) = <<>>
      <4>1. Len(Tail(got[r])) = 0 <=> ~(Len(got[r]) > 1)
        <5> DEFINE a == Len(got[r])
                   b == Len(Tail(got[r]))
        <5>1. a \in Nat /\ a >= 1 /\ b = a - 1
          BY <1>2
        <5> HIDE DEF a, b
        <5>2. b = 0 <=> ~(a > 1)
          BY <5>1
        <5>3. QED
          BY <5>2 DEF a, b
      <4>2. Tail(got[r]) = <<>> <=> Len(Tail(got[r])) = 0
        BY <1>2, EmptySeq
      <4>3. QED
        BY <4>1, <4>2
    <3>8. QED
      BY <1>3, <3>1, <3>2, <3>4, <3>5, <3>6, <3>7 DEF ReaderInv
  <2>3. QED
    BY <2>1, <2>2 DEF Readers
<1>7. \A q \in Readers : ReaderInv(q)'
  BY <1>1, <1>3, <1>6, OneReader DEF IInv, CursorInv
<1>8. \A q \in Readers : rpc'[q] = "store" => rpc[q] = "store"
  BY <1>3
<1>9. SavedInv'
  <2>1. \A q \in Readers : r_cnt[q] <= r_cnt'[q]
    BY <1>1 DEF IInv, Types
  <2>2. QED
    BY <1>1, <1>4, <1>8, <2>1, SavedKept DEF IInv, CursorInv
<1>10. FreshInv'
  BY <1>1, <1>8, FreshKept DEF IInv
<1>11. QED
  BY <1>4, <1>5, <1>7, <1>9, <1>10 DEF IInv, CursorInv

LEMMA Add_CountKeeps ==
  ASSUME IInv, NEW r \in Readers, Add_Count(r)
  PROVE  IInv'
<1>1. /\ rpc[r] = "count" /\ r_cnt' = [r_cnt EXCEPT ![r] = @ + 1]
      /\ rpc' = [rpc EXCEPT ![r] = "save"] /\ owes' = owes \union {r}
      /\ UNCHANGED <<file, w_cnt, saved, writing, got, snap, age, bell, faults,
                     done, torn, skewed>>
  BY DEF Add_Count
<1>t. /\ got[r] \in Seq(Nat) /\ Len(got[r]) \in Nat /\ Len(file) \in Nat
      /\ r_cnt \in [Readers -> Nat]
      /\ rpc \in [Readers -> {"read", "work", "count", "save", "store", "poll"}]
  BY DEF IInv, Types
<1>2. /\ r_cnt'[r] = r_cnt[r] + 1 /\ r_cnt[r] \in Nat /\ rpc'[r] = "save"
      /\ \A q \in Readers \ {r} : r_cnt'[q] = r_cnt[q] /\ rpc'[q] = rpc[q]
  BY <1>1, <1>t
<1>3. Types'
  BY <1>1, <1>t DEF IInv, Types, writing
<1>4. FileInv'
  BY <1>1, FileKept DEF IInv
<1>5. ReaderInv(r)'
  <2>1. ReaderInv(r)
    BY DEF IInv, CursorInv
  <2>2. r \in Peekers /\ r \notin Takers /\ PeekerInv(r)
    BY <1>1, <2>1, Constants DEF ReaderInv, TakerInv, Readers
  <2>3. InHand(r)' = 0 + Len(got[r]) /\ InHand(r) = 1 + Len(got[r])
    BY <1>1, <1>2, <2>2 DEF InHand
  <2>4. (2 * (r_cnt[r] + InHand(r)) <= Len(file))'
    BY <1>1, <1>2, <1>t, <2>1, <2>3 DEF ReaderInv
  <2>5. PeekerInv(r)'
    <3>1. 1..(r_cnt[r] + 1) \subseteq 1..r_cnt[r] \union {r_cnt[r] + 1}
      BY <1>2
    <3>2. \A i \in 1..Len(got[r]) : got[r][i] = (r_cnt[r] + 1) + i + 0
      BY <1>1, <1>2, <1>t, <2>2 DEF PeekerInv
    <3>3. QED
      BY <1>1, <1>2, <2>2, <3>1, <3>2 DEF PeekerInv
  <2>6. QED
    BY <1>1, <1>2, <2>1, <2>2, <2>4, <2>5 DEF ReaderInv
<1>6. \A q \in Readers : ReaderInv(q)'
  BY <1>1, <1>2, <1>5, OneReader DEF IInv, CursorInv
<1>7. SavedInv'
  <2>1. \A q \in Readers : r_cnt[q] \in Nat /\ r_cnt[q] <= r_cnt[q]
    BY <1>t
  <2>2. r_cnt[r] <= r_cnt'[r]
    BY <1>2
  <2>3. \A q \in Readers : r_cnt[q] <= r_cnt'[q]
    BY <1>2, <2>1, <2>2
  <2>4. QED
    BY <1>1, <1>2, <1>3, <2>3, SavedKept DEF IInv, CursorInv
<1>8. FreshInv'
  BY <1>1, <1>2, FreshKept DEF IInv
<1>9. QED
  BY <1>3, <1>4, <1>6, <1>7, <1>8 DEF IInv, CursorInv

LEMMA ReaderStopsKeeps ==
  ASSUME IInv, NEW r \in Readers, ReaderStops(r)
  PROVE  IInv'
<1>1. /\ faults' = faults + 1 /\ faults < MaxFaults
      /\ rpc' = [rpc EXCEPT ![r] = "read"] /\ got' = [got EXCEPT ![r] = <<>>]
      /\ age' = [age EXCEPT ![r] = Never]
      /\ UNCHANGED <<file, w_cnt, r_cnt, saved, writing, snap, bell, done, torn,
                     skewed, owes>>
  BY DEF ReaderStops
<1>t. /\ got \in [Readers -> Seq(Nat)] /\ Len(file) \in Nat /\ faults \in Nat
      /\ r_cnt \in [Readers -> Nat] /\ faults' \in 0..MaxFaults /\ faults' # 0
      /\ rpc \in [Readers -> {"read", "work", "count", "save", "store", "poll"}]
  BY <1>1, Constants DEF IInv, Types
<1>2. /\ rpc'[r] = "read" /\ got'[r] = <<>>
      /\ \A q \in Readers \ {r} : got'[q] = got[q] /\ rpc'[q] = rpc[q]
  BY <1>1, <1>t
<1>3. Types'
  <2>1. Never \in 0..Never /\ <<>> \in Seq(Nat)
    BY Constants
  <2>2. QED
    BY <1>1, <1>t, <2>1 DEF IInv, Types, writing
<1>4. FileInv'
  BY <1>1, FileKept DEF IInv
<1>5. ASSUME NEW q \in Readers PROVE ReaderInv(q)'
  <2>1. ReaderInv(q)
    BY DEF IInv, CursorInv
  <2>2. q \in Takers => TakerInv(q)'
    BY <1>2, <1>t, <2>1 DEF ReaderInv, TakerInv
  <2>3. CASE q = r
    <3>1. InHand(q)' = 0 /\ InHand(q) \in Nat
      <4>1. InHand(q) \in Nat
        BY DEF IInv, Types, InHand
      <4>2. rpc'[q] = "read" /\ Len(got'[q]) = 0
        BY <1>2, <2>3, EmptySeq
      <4>3. InHand(q)' = 0
        BY <4>2 DEF InHand
      <4>4. QED
        BY <4>1, <4>3
    <3>2. (2 * (r_cnt[q] + InHand(q)) <= Len(file))'
      BY <1>1, <1>t, <2>1, <3>1 DEF ReaderInv
    <3>3. q \in Peekers => PeekerInv(q)'
      BY <1>1, <1>2, <2>1, <2>3 DEF ReaderInv, PeekerInv
    <3>4. Len(<<>>) <= ReadMax
      BY Constants
    <3>5. QED
      BY <1>2, <2>2, <2>3, <3>2, <3>3, <3>4 DEF ReaderInv
  <2>4. CASE q # r
    <3>1. InHand(q)' = InHand(q)
      BY <1>2, <2>4 DEF InHand
    <3>2. (2 * (r_cnt[q] + InHand(q)) <= Len(file))'
      BY <1>1, <2>1, <3>1 DEF ReaderInv
    <3>3. q \in Peekers => PeekerInv(q)'
      BY <1>1, <1>2, <2>1, <2>4 DEF ReaderInv, PeekerInv
    <3>4. QED
      BY <1>2, <2>1, <2>2, <2>4, <3>2, <3>3 DEF ReaderInv
  <2>5. QED
    BY <2>3, <2>4
<1>6. SavedInv'
  <2>1. \A q \in Readers : r_cnt[q] <= r_cnt'[q]
    BY <1>1, <1>t
  <2>2. QED
    BY <1>1, <1>2, <1>3, <2>1, SavedKept DEF IInv, CursorInv
<1>7. FreshInv'
  BY <1>1, <1>2, FreshKept DEF IInv
<1>8. QED
  BY <1>3, <1>4, <1>5, <1>6, <1>7 DEF IInv, CursorInv

-------------------------------------------------------------------------------
\* Steps of the writers

\* Whole rows a writer has written continue the file.
LEMMA RowsWritten ==
  ASSUME Types, WritersInv, RunInv, NEW w \in Writers, Inside(w),
         NEW c \in 0..rows[w], edge[w] + 2 * c <= Len(file), Solid(edge[w])
  PROVE  /\ Solid(edge[w] + 2 * c)
         /\ edge[w] = 2 * w_cnt /\ Numbered(edge[w]) => Numbered(edge[w] + 2 * c)
<1>1. /\ edge[w] \in Nat /\ w_cnt \in Nat /\ rows[w] \in Nat /\ Len(file) \in Nat
      /\ edge[w] % 2 = 0 /\ 2 * w_cnt <= edge[w]
      /\ edge[w] + 2 * rows[w] <= 2 * MaxRows + 1
  BY Constants DEF Types, WritersInv, Solid
<1>2. (w_cnt + 1) + rows[w] <= MaxRows + 2 /\ w_cnt + 1 \in Nat \ {0}
  <2> DEFINE n == rows[w]
  <2>1. n \in Nat /\ w_cnt \in Nat /\ MaxRows \in Nat
    BY <1>1, Constants
  <2>2. w_cnt + n <= MaxRows
    BY <1>1, Constants, HalfBound
  <2> HIDE DEF n
  <2>3. (w_cnt + 1) + n <= MaxRows + 2 /\ w_cnt + 1 \in Nat \ {0}
    BY <2>1, <2>2
  <2>4. QED
    BY <2>3, Zenon DEF n
<1>3. PICK e \in Nat : edge[w] = 2 * e
  <2>1. edge[w] \div 2 \in Nat /\ edge[w] = 2 * (edge[w] \div 2)
    BY <1>1
  <2>2. QED
    BY <2>1
<1>4. edge[w] \div 2 = e /\ (edge[w] + 2 * c) \div 2 = e + c
      /\ (edge[w] + 2 * c) % 2 = 0
  BY <1>3
<1>5. ASSUME NEW j \in 1..c
      PROVE  /\ file[2 * (e + j) - 1] = Head1(w_cnt + j)
             /\ file[2 * (e + j)] = Tail2(w_cnt + j)
  <2>1. /\ 2 * j - 1 \in 1..(2 * rows[w]) /\ 2 * j \in 1..(2 * rows[w])
        /\ edge[w] + (2 * j - 1) <= Len(file) /\ edge[w] + 2 * j <= Len(file)
        /\ j \in 1..rows[w]
    BY <1>1, <1>5
  <2>2. /\ file[edge[w] + (2 * j - 1)] = RowCells(w_cnt + 1, rows[w])[2 * j - 1]
        /\ file[edge[w] + 2 * j] = RowCells(w_cnt + 1, rows[w])[2 * j]
    BY <2>1 DEF RunInv
  <2>3. /\ RowCells(w_cnt + 1, rows[w])[2 * j - 1] = Head1((w_cnt + 1) + j - 1)
        /\ RowCells(w_cnt + 1, rows[w])[2 * j] = Tail2((w_cnt + 1) + j - 1)
    BY <1>1, <1>2, <2>1, RunOfRows
  <2>4. /\ (w_cnt + 1) + j - 1 = w_cnt + j
        /\ edge[w] + (2 * j - 1) = 2 * (e + j) - 1 /\ edge[w] + 2 * j = 2 * (e + j)
    BY <1>1, <1>3
  <2>5. QED
    BY <2>2, <2>3, <2>4
<1>6. \A m \in 1..(e + c) : m \in 1..e \/ \E j \in 1..c : m = e + j
  <2> SUFFICES ASSUME NEW m \in 1..(e + c), m \notin 1..e
               PROVE  \E j \in 1..c : m = e + j
    OBVIOUS
  <2>1. m - e \in 1..c /\ m = e + (m - e)
    OBVIOUS
  <2>2. QED
    BY <2>1
<1>7. Solid(edge[w] + 2 * c)
  <2>1. \A m \in 1..e : IsRowAt(m)
    BY <1>4 DEF Solid
  <2>2. ASSUME NEW j \in 1..c PROVE IsRowAt(e + j)
    <3>1. w_cnt + j \in 1..(MaxRows + 1)
      BY <1>1, <1>2, Constants
    <3>2. QED
      BY <1>5, <3>1 DEF IsRowAt
  <2>3. \A m \in 1..(e + c) : IsRowAt(m)
    BY <1>6, <2>1, <2>2, Zenon
  <2>4. QED
    BY <1>4, <2>3 DEF Solid
<1>8. ASSUME edge[w] = 2 * w_cnt, Numbered(edge[w])
      PROVE  Numbered(edge[w] + 2 * c)
  <2>1. e = w_cnt
    BY <1>1, <1>3, <1>8
  <2>2. \A m \in 1..e : file[2 * m - 1] = Head1(m) /\ file[2 * m] = Tail2(m)
    BY <1>4, <1>8 DEF Numbered
  <2>3. \A j \in 1..c : /\ file[2 * (e + j) - 1] = Head1(e + j)
                         /\ file[2 * (e + j)] = Tail2(e + j)
    BY <1>5, <2>1
  <2>4. \A m \in 1..(e + c) : file[2 * m - 1] = Head1(m) /\ file[2 * m] = Tail2(m)
    BY <1>6, <2>2, <2>3
  <2>5. QED
    BY <1>4, <2>4 DEF Numbered
<1>9. QED
  BY <1>7, <1>8

LEMMA F_WKeeps ==
  ASSUME IInv, NEW w \in Writers, NEW n \in 1..WriteMax, F_W(w, n)
  PROVE  IInv'
<1>1. /\ \A v \in Writers : wpc[v] = "out"
      /\ (Len(file) \div 2) + n <= MaxRows
      /\ out' = [out EXCEPT ![w] = RowCells(w_cnt + 1, n)]
      /\ rows' = [rows EXCEPT ![w] = n]
      /\ edge' = [edge EXCEPT ![w] = Len(file)]
      /\ wpc' = [wpc EXCEPT ![w] = "write"]
      /\ UNCHANGED <<file, w_cnt, r_cnt, saved, rpc, got, snap, age, bell, faults,
                     done, torn, skewed, owes>>
  BY DEF F_W, WriterMayLock, reading, history
<1>t. /\ Len(file) \in Nat /\ w_cnt \in Nat /\ n \in Nat
      /\ out \in [Writers -> Seq(Cell)] /\ rows \in [Writers -> 0..WriteMax]
      /\ edge \in [Writers -> Nat]
      /\ wpc \in [Writers -> {"out", "write", "count", "ring"}]
  BY Constants DEF IInv, Types
<1>2. Len(file) + 2 * n <= 2 * MaxRows + 1 /\ 2 * w_cnt <= Len(file)
  BY <1>1, <1>t, Constants DEF IInv, FileInv, WritersInv
<1>3. /\ RowCells(w_cnt + 1, n) \in Seq(Cell) /\ Len(RowCells(w_cnt + 1, n)) = 2 * n
      /\ RowCells(w_cnt + 1, n) # <<>>
  <2>1. w_cnt + 1 \in Nat \ {0} /\ (w_cnt + 1) + n <= MaxRows + 2
    BY <1>2, <1>t, Constants
  <2>2. /\ RowCells(w_cnt + 1, n) \in Seq(Cell)
        /\ Len(RowCells(w_cnt + 1, n)) = 2 * n
    BY <1>t, <2>1, RunOfRows
  <2>3. 2 * n # 0
    OBVIOUS
  <2>4. QED
    BY <2>2, <2>3, EmptySeq
<1>4. /\ out'[w] = RowCells(w_cnt + 1, n) /\ rows'[w] = n /\ edge'[w] = Len(file)
      /\ wpc'[w] = "write"
      /\ \A v \in Writers \ {w} : /\ out'[v] = out[v] /\ rows'[v] = rows[v]
                                  /\ edge'[v] = edge[v] /\ wpc'[v] = "out"
  BY <1>1, <1>t
<1>5. /\ \A v \in Writers : ~Inside(v)
      /\ Inside(w)' /\ \A v \in Writers : Inside(v)' => v = w
  BY <1>1, <1>4 DEF Inside
<1>6. Types'
  BY <1>1, <1>3, <1>t DEF IInv, Types
<1>7. WritersInv'
  <2>1. \A v \in Writers \ {w} :
          /\ out[v] = <<>> /\ rows[v] = 0
          /\ edge[v] <= Len(file) /\ Len(out[v]) <= 2 * rows[v]
    BY <1>1 DEF IInv, FileInv, WritersInv
  <2>2. /\ edge'[w] <= Len(file') /\ Len(out'[w]) <= 2 * rows'[w]
        /\ edge'[w] + 2 * rows'[w] = Len(file') + Len(out'[w])
        /\ 2 * w_cnt' <= edge'[w] /\ edge'[w] + 2 * rows'[w] <= 2 * MaxRows + 1
    <3>1. /\ edge'[w] = Len(file) /\ Len(file') = Len(file) /\ rows'[w] = n
          /\ Len(out'[w]) = 2 * n /\ w_cnt' = w_cnt
      BY <1>1, <1>3, <1>4
    <3>2. Len(file) <= Len(file) /\ 2 * n <= 2 * n
      BY <1>t
    <3>3. QED
      BY <1>2, <3>1, <3>2
  <2>3. (Len(file) <= 2 * MaxRows + 1 /\ 2 * w_cnt <= Len(file))'
    BY <1>1 DEF IInv, FileInv, WritersInv
  <2>4. \A v \in Writers \ {w} : /\ (wpc[v] = "out" => out[v] = <<>> /\ rows[v] = 0)'
                                 /\ (edge[v] <= Len(file))'
                                 /\ (Len(out[v]) <= 2 * rows[v])'
    BY <1>1, <1>4, <2>1
  <2>5. QED
    BY <1>3, <1>4, <1>5, <2>2, <2>3, <2>4 DEF WritersInv
<1>8. RunInv'
  <2>1. \A j \in 1..(2 * n) :
          ~(Len(file) + j <= Len(file)) /\ (Len(file) + j) - Len(file) = j
    BY <1>t
  <2>2. \A j \in 1..(2 * n) :
          IF Len(file) + j <= Len(file)
          THEN file[Len(file) + j] = RowCells(w_cnt + 1, n)[j]
          ELSE out'[w][(Len(file) + j) - Len(file)] = RowCells(w_cnt + 1, n)[j]
    BY <1>4, <2>1
  <2>3. edge'[w] = Len(file) /\ rows'[w] = n /\ file' = file /\ w_cnt' = w_cnt
    BY <1>1, <1>4
  <2>4. QED
    BY <1>5, <2>2, <2>3 DEF RunInv
<1>9. WholeInv'
  BY <1>1, <1>4, <1>5 DEF IInv, FileInv, WholeInv, Solid, IsRowAt
<1>10. NumberedInv'
  BY <1>1, <1>4, <1>5 DEF IInv, FileInv, NumberedInv, Numbered
<1>11. CursorInv' /\ FreshInv'
  BY <1>1, <1>t, ReadersKept DEF IInv
<1>12. QED
  BY <1>6, <1>7, <1>8, <1>9, <1>10, <1>11 DEF IInv, FileInv

LEMMA F_W_ProcKeeps ==
  ASSUME IInv, NEW w \in Writers, F_W_Proc(w)
  PROVE  IInv'
<1>1. PICK k \in 1..Len(out[w]) :
        /\ file' = file \o SubSeq(out[w], 1, k)
        /\ out' = [out EXCEPT ![w] = SubSeq(@, k + 1, Len(@))]
        /\ wpc' = [wpc EXCEPT ![w] = IF k = Len(out[w]) THEN "count" ELSE @]
  BY DEF F_W_Proc
<1>2. /\ wpc[w] = "write"
      /\ UNCHANGED <<w_cnt, r_cnt, saved, rows, edge, rpc, got, snap, age, bell,
                     faults, done, torn, skewed, owes>>
  BY DEF F_W_Proc, reading, history
<1>t. /\ file \in Seq(Cell) /\ Len(file) \in Nat /\ w_cnt \in Nat
      /\ out \in [Writers -> Seq(Cell)] /\ rows \in [Writers -> 0..WriteMax]
      /\ rows[w] \in Nat /\ edge \in [Writers -> Nat]
      /\ wpc \in [Writers -> {"out", "write", "count", "ring"}]
      /\ out[w] \in Seq(Cell) /\ Len(out[w]) \in Nat
  BY Constants DEF IInv, Types
<1>3. /\ file' \in Seq(Cell) /\ Len(file') = Len(file) + k
      /\ \A i \in 1..Len(file) : file'[i] = file[i]
      /\ \A i \in 1..k : file'[Len(file) + i] = out[w][i]
      /\ SubSeq(out[w], k + 1, Len(out[w])) \in Seq(Cell)
      /\ Len(SubSeq(out[w], k + 1, Len(out[w]))) = Len(out[w]) - k
      /\ \A i \in 1..(Len(out[w]) - k) :
           SubSeq(out[w], k + 1, Len(out[w]))[i] = out[w][k + i]
  BY <1>1, <1>t, PartWritten
<1>4. /\ out'[w] = SubSeq(out[w], k + 1, Len(out[w]))
      /\ wpc'[w] = IF k = Len(out[w]) THEN "count" ELSE "write"
      /\ \A v \in Writers \ {w} : out'[v] = out[v] /\ wpc'[v] = wpc[v]
  BY <1>1, <1>2, <1>t
<1>5. /\ \A v \in Writers \ {w} : wpc[v] = "out"
      /\ edge[w] + 2 * rows[w] = Len(file) + Len(out[w])
      /\ 2 * w_cnt <= edge[w] /\ edge[w] <= Len(file)
      /\ edge[w] + 2 * rows[w] <= 2 * MaxRows + 1
  BY <1>2 DEF IInv, FileInv, WritersInv, Inside
<1>6. /\ Inside(w) /\ Inside(w)'
      /\ \A v \in Writers : (Inside(v) => v = w) /\ (Inside(v)' => v = w)
  BY <1>2, <1>4, <1>5 DEF Inside
<1>7. Types'
  BY <1>1, <1>2, <1>3, <1>t DEF IInv, Types
<1>8. WritersInv'
  <2>1. /\ Len(file) + k <= 2 * MaxRows + 1 /\ 2 * w_cnt <= Len(file) + k
        /\ edge[w] <= Len(file) + k /\ Len(out[w]) - k <= 2 * rows[w]
        /\ edge[w] + 2 * rows[w] = (Len(file) + k) + (Len(out[w]) - k)
    <3>1. edge[w] \in Nat /\ k \in Nat /\ k <= Len(out[w])
      BY <1>t
    <3>2. QED
      BY <1>5, <1>t, <3>1, Constants
  <2>2. wpc'[w] = "count" => out'[w] = <<>>
    BY <1>3, <1>4, EmptySeq
  <2>3. wpc'[w] = "write" => out'[w] # <<>>
    <3>1. wpc'[w] = "write" => Len(out[w]) - k # 0
      BY <1>4, <1>t
    <3>2. QED
      BY <1>3, <1>4, <3>1, EmptySeq
  <2>4. \A v \in Writers \ {w} :
          /\ out'[v] = <<>> /\ rows'[v] = 0 /\ wpc'[v] = "out"
          /\ edge'[v] <= Len(file') /\ Len(out'[v]) <= 2 * rows'[v]
    <3>1. \A v \in Writers \ {w} :
            /\ out[v] = <<>> /\ rows[v] = 0 /\ edge[v] <= Len(file)
            /\ Len(out[v]) <= 2 * rows[v]
      BY <1>5 DEF IInv, FileInv, WritersInv
    <3>2. \A v \in Writers : edge[v] \in Nat
      BY <1>t
    <3>3. \A v \in Writers \ {w} : edge[v] <= Len(file) + k
      BY <1>t, <3>1, <3>2
    <3>4. QED
      BY <1>2, <1>3, <1>4, <1>5, <3>1, <3>3
  <2>5. wpc'[w] \in {"write", "count"}
    BY <1>4
  <2>6. /\ Len(file') <= 2 * MaxRows + 1 /\ 2 * w_cnt' <= Len(file')
        /\ edge'[w] <= Len(file') /\ Len(out'[w]) <= 2 * rows'[w]
        /\ edge'[w] + 2 * rows'[w] = Len(file') + Len(out'[w])
        /\ 2 * w_cnt' <= edge'[w] /\ edge'[w] + 2 * rows'[w] <= 2 * MaxRows + 1
    BY <1>2, <1>3, <1>4, <1>5, <2>1
  <2>7. QED
    BY <1>6, <2>2, <2>3, <2>4, <2>5, <2>6 DEF WritersInv
<1>9. RunInv'
  <2> SUFFICES ASSUME NEW j \in 1..(2 * rows[w])
               PROVE  IF edge[w] + j <= Len(file')
                      THEN file'[edge[w] + j] = RowCells(w_cnt + 1, rows[w])[j]
                      ELSE out'[w][(edge[w] + j) - Len(file')]
                             = RowCells(w_cnt + 1, rows[w])[j]
    BY <1>2, <1>6 DEF RunInv
  <2> DEFINE e == edge[w] + j
             c == RowCells(w_cnt + 1, rows[w])[j]
  <2>1. /\ e <= Len(file) => file[e] = c
        /\ ~(e <= Len(file)) => out[w][e - Len(file)] = c
    <3>1. \A i \in 1..(2 * rows[w]) :
            IF edge[w] + i <= Len(file)
            THEN file[edge[w] + i] = RowCells(w_cnt + 1, rows[w])[i]
            ELSE out[w][(edge[w] + i) - Len(file)] = RowCells(w_cnt + 1, rows[w])[i]
      BY <1>6 DEF IInv, FileInv, RunInv
    <3>2. IF edge[w] + j <= Len(file)
          THEN file[edge[w] + j] = RowCells(w_cnt + 1, rows[w])[j]
          ELSE out[w][(edge[w] + j) - Len(file)] = RowCells(w_cnt + 1, rows[w])[j]
      BY <3>1
    <3>3. QED
      BY <3>2 DEF e, c
  <2>2. e \in 1..(Len(file) + Len(out[w]))
    BY <1>5, <1>t
  <2> HIDE DEF e, c
  <2>3. CASE e <= Len(file)
    <3>1. e \in 1..Len(file) /\ e <= Len(file')
      BY <1>3, <1>t, <2>2, <2>3
    <3>2. QED
      BY <1>3, <2>1, <2>3, <3>1 DEF e, c
  <2>4. CASE e > Len(file) /\ e <= Len(file) + k
    <3>1. e - Len(file) \in 1..k /\ Len(file) + (e - Len(file)) = e
          /\ ~(e <= Len(file))
      BY <1>t, <2>2, <2>4
    <3>2. file'[e] = out[w][e - Len(file)]
      BY <1>3, <3>1
    <3>3. e <= Len(file') /\ file'[e] = c
      BY <1>3, <2>1, <2>4, <3>1, <3>2
    <3>4. QED
      BY <3>3, Zenon DEF e, c
  <2>5. CASE e > Len(file) + k
    <3>1. /\ e - (Len(file) + k) \in 1..(Len(out[w]) - k)
          /\ k + (e - (Len(file) + k)) = e - Len(file)
          /\ ~(e <= Len(file)) /\ ~(e <= Len(file) + k)
      BY <1>t, <2>2, <2>5
    <3>2. out'[w][e - (Len(file) + k)] = out[w][e - Len(file)]
      BY <1>3, <1>4, <3>1
    <3>3. ~(e <= Len(file')) /\ out'[w][e - Len(file')] = c
      BY <1>3, <2>1, <3>1, <3>2
    <3>4. QED
      BY <3>3, Zenon DEF e, c
  <2>6. QED
    BY <1>t, <2>2, <2>3, <2>4, <2>5
<1>10. (Solid(edge[w]) => Solid(edge[w])') /\ (Numbered(edge[w]) => Numbered(edge[w])')
  <2>1. edge'[w] = edge[w] /\ edge[w] \in Nat
    BY <1>2, <1>t
  <2> DEFINE n == edge[w]
  <2>2. n \in Nat /\ n <= Len(file)
    BY <1>5, <2>1
  <2>3. (Solid(n) => n % 2 = 0 /\ \A m \in 1..(n \div 2) : IsRowAt(m)')
        /\ (Numbered(n) => \A m \in 1..(n \div 2) :
              file'[2 * m - 1] = Head1(m) /\ file'[2 * m] = Tail2(m))
    <3> HIDE DEF n
    <3>1. \A m \in 1..(n \div 2) : /\ 2 * m - 1 \in 1..Len(file)
                                   /\ 2 * m \in 1..Len(file)
      BY <1>t, <2>2
    <3>2. \A m \in 1..(n \div 2) :
            file'[2 * m - 1] = file[2 * m - 1] /\ file'[2 * m] = file[2 * m]
      BY <1>3, <3>1
    <3>3. QED
      BY <3>2 DEF Solid, Numbered, IsRowAt
  <2>4. QED
    BY <2>1, <2>3 DEF Solid, Numbered
<1>11. WholeInv'
  BY <1>2, <1>6, <1>10 DEF IInv, FileInv, WholeInv
<1>12. NumberedInv'
  BY <1>2, <1>6, <1>10 DEF IInv, FileInv, NumberedInv
<1>13. CursorInv' /\ FreshInv'
  <2>1. Len(file') \in Nat /\ Len(file) <= Len(file')
    BY <1>3, <1>t
  <2>2. QED
    BY <1>2, <2>1, ReadersKept DEF IInv
<1>14. QED
  BY <1>7, <1>8, <1>9, <1>11, <1>12, <1>13 DEF IInv, FileInv

LEMMA CountKeeps ==
  ASSUME IInv, NEW w \in Writers, Count(w)
  PROVE  IInv'
<1>1. /\ wpc[w] = "count" /\ w_cnt' = w_cnt + rows[w]
      /\ wpc' = [wpc EXCEPT ![w] = "ring"]
      /\ UNCHANGED <<file, r_cnt, saved, out, rows, edge, rpc, got, snap, age,
                     bell, faults, done, torn, skewed, owes>>
  BY DEF Count, reading, history
<1>t. /\ Len(file) \in Nat /\ w_cnt \in Nat /\ rows[w] \in Nat /\ edge[w] \in Nat
      /\ wpc \in [Writers -> {"out", "write", "count", "ring"}]
  BY Constants DEF IInv, Types
<1>2. wpc'[w] = "ring" /\ \A v \in Writers \ {w} : wpc'[v] = wpc[v]
  BY <1>1, <1>t
<1>3. /\ \A v \in Writers \ {w} : wpc[v] = "out"
      /\ out[w] = <<>> /\ Len(out[w]) = 0
      /\ edge[w] + 2 * rows[w] = Len(file) /\ 2 * w_cnt <= edge[w]
  <2>1. \A v \in Writers \ {w} : wpc[v] = "out"
    BY <1>1 DEF IInv, FileInv, WritersInv
  <2>2. out[w] = <<>> /\ edge[w] + 2 * rows[w] = Len(file) + Len(out[w])
        /\ 2 * w_cnt <= edge[w]
    BY <1>1 DEF IInv, FileInv, WritersInv, Inside
  <2>3. QED
    BY <1>t, <2>1, <2>2, EmptySeq
<1>4. Inside(w) /\ \A v \in Writers : ~Inside(v)'
  BY <1>1, <1>2, <1>3 DEF Inside
<1>5. Types'
  BY <1>1, <1>t DEF IInv, Types
<1>6. WritersInv'
  <2>1. 2 * w_cnt' <= Len(file')
    BY <1>1, <1>3, <1>t
  <2>2. QED
    BY <1>1, <1>2, <1>3, <1>4, <2>1 DEF IInv, FileInv, WritersInv
<1>7. RunInv'
  BY <1>4 DEF RunInv
<1>8. Solid(edge[w]) => /\ Solid(Len(file))
                        /\ edge[w] = 2 * w_cnt /\ Numbered(edge[w])
                             => Numbered(Len(file))
  <2>1. rows[w] \in 0..rows[w] /\ edge[w] + 2 * rows[w] <= Len(file)
    BY <1>3, <1>t
  <2>2. Solid(edge[w]) =>
          /\ Solid(edge[w] + 2 * rows[w])
          /\ edge[w] = 2 * w_cnt /\ Numbered(edge[w])
               => Numbered(edge[w] + 2 * rows[w])
    BY <1>4, <2>1, RowsWritten DEF IInv, FileInv
  <2>3. QED
    BY <1>3, <2>2
<1>9. WholeInv'
  <2>1. ~torn => Solid(Len(file))
    BY <1>4, <1>8 DEF IInv, FileInv, WholeInv
  <2>2. QED
    BY <1>1, <1>4, <2>1 DEF WholeInv, Solid, IsRowAt
<1>10. NumberedInv'
  <2>1. ~torn /\ ~skewed => edge[w] = 2 * w_cnt /\ Numbered(Len(file))
    BY <1>4, <1>8 DEF IInv, FileInv, WholeInv, NumberedInv
  <2>2. ~torn /\ ~skewed => Len(file) = 2 * w_cnt'
    BY <1>1, <1>3, <1>t, <2>1
  <2>3. QED
    BY <1>1, <1>4, <2>1, <2>2 DEF NumberedInv, Numbered
<1>11. CursorInv' /\ FreshInv'
  BY <1>1, <1>t, ReadersKept DEF IInv
<1>12. QED
  BY <1>5, <1>6, <1>7, <1>9, <1>10, <1>11 DEF IInv, FileInv

\* A writer that has given its lock back leaves nobody inside.
LEMMA UnlockedKeeps ==
  ASSUME IInv, NEW w \in Writers, wpc[w] # "out", Unlocked(w),
         UNCHANGED <<file, w_cnt>>
  PROVE  /\ \A v \in Writers : wpc'[v] = "out"
         /\ WritersInv' /\ RunInv'
         /\ out' \in [Writers -> Seq(Cell)] /\ rows' \in [Writers -> 0..WriteMax]
         /\ wpc' \in [Writers -> {"out", "write", "count", "ring"}]
         /\ edge' \in [Writers -> Nat]
<1>t. /\ out \in [Writers -> Seq(Cell)] /\ rows \in [Writers -> 0..WriteMax]
      /\ wpc \in [Writers -> {"out", "write", "count", "ring"}]
      /\ edge \in [Writers -> Nat] /\ Len(file) \in Nat
      /\ <<>> \in Seq(Cell) /\ Len(<<>>) = 0
  BY Constants DEF IInv, Types
<1>1. /\ wpc' = [wpc EXCEPT ![w] = "out"] /\ out' = [out EXCEPT ![w] = <<>>]
      /\ rows' = [rows EXCEPT ![w] = 0] /\ edge' = [edge EXCEPT ![w] = 0]
  BY DEF Unlocked
<1>2. \A v \in Writers \ {w} : wpc[v] = "out"
  BY DEF IInv, FileInv, WritersInv
<1>3. /\ wpc'[w] = "out" /\ out'[w] = <<>> /\ rows'[w] = 0 /\ edge'[w] = 0
      /\ \A v \in Writers \ {w} : /\ wpc'[v] = "out" /\ out'[v] = out[v]
                                  /\ rows'[v] = rows[v] /\ edge'[v] = edge[v]
  BY <1>1, <1>2, <1>t
<1>4. \A v \in Writers : ~Inside(v)'
  BY <1>3 DEF Inside
<1>5. WritersInv'
  <2>1. \A v \in Writers \ {w} :
          /\ out[v] = <<>> /\ rows[v] = 0
          /\ edge[v] <= Len(file) /\ Len(out[v]) <= 2 * rows[v]
    BY <1>2 DEF IInv, FileInv, WritersInv
  <2>2. \A v \in Writers :
          /\ out'[v] = <<>> /\ rows'[v] = 0 /\ wpc'[v] = "out"
          /\ edge'[v] <= Len(file') /\ Len(out'[v]) <= 2 * rows'[v]
    BY <1>3, <1>t, <2>1
  <2>3. Len(file') <= 2 * MaxRows + 1 /\ 2 * w_cnt' <= Len(file')
    BY DEF IInv, FileInv, WritersInv
  <2>4. QED
    BY <1>4, <2>2, <2>3 DEF WritersInv
<1>6. RunInv'
  BY <1>4 DEF RunInv
<1>7. /\ out' \in [Writers -> Seq(Cell)] /\ rows' \in [Writers -> 0..WriteMax]
      /\ wpc' \in [Writers -> {"out", "write", "count", "ring"}]
      /\ edge' \in [Writers -> Nat]
  BY <1>1, <1>t, Constants
<1>8. QED
  BY <1>3, <1>5, <1>6, <1>7

LEMMA RingKeeps ==
  ASSUME IInv, NEW w \in Writers, Ring(w)
  PROVE  IInv'
<1>1. /\ wpc[w] = "ring" /\ bell' = Readers /\ Unlocked(w)
      /\ UNCHANGED <<file, w_cnt, r_cnt, saved, rpc, got, snap, age, faults,
                     done, torn, skewed, owes>>
  BY DEF Ring, reading, history
<1>2. /\ \A v \in Writers : wpc'[v] = "out"
      /\ WritersInv' /\ RunInv'
      /\ out' \in [Writers -> Seq(Cell)] /\ rows' \in [Writers -> 0..WriteMax]
      /\ wpc' \in [Writers -> {"out", "write", "count", "ring"}]
      /\ edge' \in [Writers -> Nat]
  BY <1>1, UnlockedKeeps
<1>3. /\ \A v \in Writers : ~Inside(v) /\ ~Inside(v)'
  <2>1. \A v \in Writers \ {w} : wpc[v] = "out"
    BY <1>1 DEF IInv, FileInv, WritersInv
  <2>2. QED
    BY <1>1, <1>2, <2>1 DEF Inside
<1>4. Types'
  BY <1>1, <1>2 DEF IInv, Types
<1>5. WholeInv'
  BY <1>1, <1>3 DEF IInv, FileInv, WholeInv, Solid, IsRowAt
<1>6. NumberedInv'
  BY <1>1, <1>3 DEF IInv, FileInv, NumberedInv, Numbered
<1>7. CursorInv' /\ FreshInv'
  <2>1. Len(file) \in Nat
    BY DEF IInv, Types
  <2>2. QED
    BY <1>1, <2>1, ReadersKept DEF IInv
<1>8. QED
  BY <1>2, <1>4, <1>5, <1>6, <1>7 DEF IInv, FileInv

LEMMA WriterStopsKeeps ==
  ASSUME IInv, NEW w \in Writers, WriterStops(w)
  PROVE  IInv'
<1> DEFINE wrote == 2 * rows[w] - Len(out[w])
<1>1. /\ wpc[w] # "out" /\ faults < MaxFaults /\ faults' = faults + 1 /\ Unlocked(w)
      /\ torn' = (torn \/ wrote % 2 = 1)
      /\ skewed' = (skewed \/ (wpc[w] # "ring" /\ wrote > 0))
      /\ UNCHANGED <<file, w_cnt, r_cnt, saved, rpc, got, snap, age, bell,
                     done, owes>>
  BY DEF WriterStops, Leaves, reading
<1>t. /\ Len(file) \in Nat /\ w_cnt \in Nat /\ rows[w] \in Nat /\ edge[w] \in Nat
      /\ Len(out[w]) \in Nat /\ torn \in BOOLEAN /\ skewed \in BOOLEAN
      /\ faults' \in 0..MaxFaults /\ faults' # 0
      /\ wpc \in [Writers -> {"out", "write", "count", "ring"}]
  BY <1>1, Constants DEF IInv, Types
<1>2. /\ \A v \in Writers : wpc'[v] = "out"
      /\ WritersInv' /\ RunInv'
      /\ out' \in [Writers -> Seq(Cell)] /\ rows' \in [Writers -> 0..WriteMax]
      /\ wpc' \in [Writers -> {"out", "write", "count", "ring"}]
      /\ edge' \in [Writers -> Nat]
  BY <1>1, UnlockedKeeps
<1>3. /\ \A v \in Writers : ~Inside(v)'
      /\ \A v \in Writers \ {w} : ~Inside(v)
  <2>1. \A v \in Writers \ {w} : wpc[v] = "out"
    BY <1>1 DEF IInv, FileInv, WritersInv
  <2>2. QED
    BY <1>2, <2>1 DEF Inside
<1>4. Types'
  <2>1. torn' \in BOOLEAN /\ skewed' \in BOOLEAN
    BY <1>1, <1>t
  <2>2. QED
    BY <1>1, <1>2, <1>t, <2>1 DEF IInv, Types
<1>5. (torn => torn') /\ (skewed => skewed')
  BY <1>1
<1>6. (~torn' => Solid(Len(file)))
        /\ (~torn' /\ ~skewed' => Len(file) = 2 * w_cnt /\ Numbered(Len(file)))
  <2>1. CASE ~Inside(w)
    BY <1>3, <1>5, <2>1 DEF IInv, FileInv, WholeInv, NumberedInv
  <2>2. CASE Inside(w)
    <3>1. edge[w] + 2 * rows[w] = Len(file) + Len(out[w]) /\ edge[w] <= Len(file)
            /\ Len(out[w]) <= 2 * rows[w]
      BY <2>2 DEF IInv, FileInv, WritersInv
    <3>2. wrote \in 0..(2 * rows[w]) /\ Len(file) = edge[w] + wrote
      <4> DEFINE all == 2 * rows[w]
                 left == Len(out[w])
                 first == edge[w]
                 end == Len(file)
      <4>1. all \in Nat /\ left \in Nat /\ first \in Nat /\ end \in Nat
        BY <1>t
      <4>2. first + all = end + left /\ left <= all
        BY <3>1
      <4> HIDE DEF all, left, first, end
      <4>3. all - left \in 0..all /\ end = first + (all - left)
        BY <4>1, <4>2
      <4>4. QED
        BY <4>3, Zenon DEF all, left, first, end
    <3>3. wpc[w] # "ring"
      BY <2>2 DEF Inside
    <3> HIDE DEF wrote
    <3>4. ASSUME ~torn' PROVE Solid(Len(file))
      <4>1. wrote % 2 # 1 /\ ~torn
        BY <1>1, <3>4
      <4>2. wrote \div 2 \in 0..rows[w] /\ wrote = 2 * (wrote \div 2)
        BY <1>t, <3>2, <4>1
      <4>3. edge[w] + 2 * (wrote \div 2) <= Len(file)
        BY <1>t, <3>2, <4>2
      <4>4. Solid(edge[w])
        BY <2>2, <4>1 DEF IInv, FileInv, WholeInv
      <4>5. Solid(edge[w] + 2 * (wrote \div 2))
        BY <2>2, <4>2, <4>3, <4>4, RowsWritten DEF IInv, FileInv
      <4>6. QED
        BY <3>2, <4>2, <4>5
    <3>5. ASSUME ~torn', ~skewed'
          PROVE  Len(file) = 2 * w_cnt /\ Numbered(Len(file))
      <4>a. ~torn /\ ~skewed /\ ~(wrote > 0)
        BY <1>1, <1>5, <3>3, <3>5, Zenon
      <4>b. wrote \in Nat
        BY <1>t, <3>2
      <4>1. ~torn /\ ~skewed /\ wrote = 0
        BY <4>a, <4>b
      <4>2. edge[w] = 2 * w_cnt /\ Numbered(edge[w])
        BY <2>2, <4>1 DEF IInv, FileInv, NumberedInv
      <4>3. Len(file) = edge[w]
        BY <1>t, <3>2, <4>1
      <4>4. QED
        BY <4>2, <4>3
    <3>6. QED
      BY <3>4, <3>5
  <2>3. QED
    BY <2>1, <2>2
<1>7. WholeInv'
  BY <1>1, <1>3, <1>6 DEF WholeInv, Solid, IsRowAt
<1>8. NumberedInv'
  BY <1>1, <1>3, <1>6 DEF NumberedInv, Numbered
<1>9. CursorInv' /\ FreshInv'
  BY <1>1, <1>t, ReadersKept DEF IInv
<1>10. QED
  BY <1>2, <1>4, <1>7, <1>8, <1>9 DEF IInv, FileInv

-------------------------------------------------------------------------------
\* Steps of the system

LEMMA Load_ConfigKeeps ==
  ASSUME IInv, Load_Config
  PROVE  IInv'
<1>1. /\ faults' = faults + 1 /\ faults < MaxFaults
      /\ \A w \in Writers : wpc[w] = "out"
      /\ w_cnt' = Len(file) \div 2 /\ r_cnt' = saved
      /\ rpc' = [r \in Readers |-> "read"] /\ got' = [r \in Readers |-> <<>>]
      /\ age' = [r \in Readers |-> Never] /\ bell' = {} /\ owes' = {}
      /\ skewed' = (skewed /\ \E i \in 1..(Len(file) \div 2) :
                                file[2 * i - 1].num # i)
      /\ UNCHANGED <<file, saved, out, rows, wpc, edge, snap, done, torn>>
  BY DEF Load_Config, writing
<1>t. /\ Len(file) \in Nat /\ Len(file) \div 2 \in Nat
      /\ saved \in [Readers -> Nat] /\ r_cnt \in [Readers -> Nat]
      /\ torn \in BOOLEAN /\ skewed \in BOOLEAN
      /\ faults' \in 0..MaxFaults /\ faults' # 0
  BY <1>1, Constants DEF IInv, Types
<1>2. \A w \in Writers : ~Inside(w) /\ ~Inside(w)'
  BY <1>1 DEF Inside
<1>3. Types'
  <2>1. Never \in 0..Never /\ <<>> \in Seq(Nat) /\ skewed' \in BOOLEAN
    BY <1>1, <1>t, Constants
  <2>2. QED
    BY <1>1, <1>t, <2>1 DEF IInv, Types
<1>4. WritersInv' /\ RunInv'
  <2>1. 2 * (Len(file) \div 2) <= Len(file)
    BY <1>t
  <2>2. QED
    BY <1>1, <1>2, <2>1 DEF IInv, FileInv, WritersInv, RunInv
<1>5. WholeInv'
  BY <1>1, <1>2 DEF IInv, FileInv, WholeInv, Solid, IsRowAt
<1>6. ASSUME ~torn, ~skewed'
      PROVE  Len(file) = 2 * (Len(file) \div 2) /\ Numbered(Len(file))
  <2>1. Solid(Len(file))
    BY <1>2, <1>6 DEF IInv, FileInv, WholeInv
  <2>2. Len(file) = 2 * (Len(file) \div 2)
    BY <1>t, <2>1 DEF Solid
  <2>3. CASE ~skewed
    BY <1>2, <1>6, <2>2, <2>3 DEF IInv, FileInv, NumberedInv
  <2>4. CASE skewed
    <3>1. \A i \in 1..(Len(file) \div 2) : file[2 * i - 1].num = i
      BY <1>1, <1>6, <2>4
    <3>2. ASSUME NEW i \in 1..(Len(file) \div 2)
          PROVE  file[2 * i - 1] = Head1(i) /\ file[2 * i] = Tail2(i)
      <4>1. PICK n \in 1..(MaxRows + 1) :
              file[2 * i - 1] = Head1(n) /\ file[2 * i] = Tail2(n)
        BY <2>1 DEF Solid, IsRowAt
      <4>2. n = i
        BY <3>1, <4>1 DEF Head1
      <4>3. QED
        BY <4>1, <4>2
    <3>3. QED
      BY <2>2, <3>2 DEF Numbered
  <2>5. QED
    BY <2>3, <2>4
<1>7. NumberedInv'
  BY <1>1, <1>2, <1>6 DEF NumberedInv, Numbered
<1>8. \A r \in Readers : /\ saved[r] <= r_cnt[r] /\ rpc'[r] = "read"
                         /\ got'[r] = <<>> /\ r_cnt'[r] = saved[r]
  BY <1>1 DEF IInv, CursorInv, SavedInv
<1>9. ASSUME NEW r \in Readers PROVE ReaderInv(r)'
  <2>1. ReaderInv(r)
    BY DEF IInv, CursorInv
  <2>2. /\ InHand(r) \in Nat /\ InHand(r)' = 0
        /\ Len(got'[r]) = 0
    <3>1. InHand(r) \in Nat
      BY DEF IInv, Types, InHand
    <3>2. rpc'[r] = "read" /\ Len(got'[r]) = 0
      BY <1>8, EmptySeq
    <3>3. InHand(r)' = 0
      BY <3>2 DEF InHand
    <3>4. QED
      BY <3>1, <3>2, <3>3
  <2>3. saved[r] \in Nat /\ r_cnt[r] \in Nat /\ saved[r] <= r_cnt[r]
    BY <1>8, <1>t
  <2>4. (2 * (r_cnt[r] + InHand(r)) <= Len(file))'
    <3>1. 2 * (r_cnt[r] + InHand(r)) <= Len(file)
      BY <2>1 DEF ReaderInv
    <3>2. 2 * (saved[r] + 0) <= Len(file)
      BY <1>t, <2>2, <2>3, <3>1
    <3>3. QED
      BY <1>1, <1>8, <2>2, <3>2
  <2>5. r \in Peekers => PeekerInv(r)'
    <3> SUFFICES ASSUME r \in Peekers PROVE PeekerInv(r)'
      OBVIOUS
    <3>1. 1..r_cnt[r] \subseteq done[r]
      BY <2>1 DEF ReaderInv, PeekerInv
    <3>2. 1..saved[r] \subseteq done[r]
      BY <2>3, <3>1
    <3>3. QED
      BY <1>1, <1>8, <2>2, <3>2 DEF PeekerInv
  <2>6. TakerInv(r)'
    BY <1>8, <1>t DEF TakerInv
  <2>7. QED
    BY <1>8, <2>2, <2>4, <2>5, <2>6, Constants DEF ReaderInv
<1>10. SavedInv'
  BY <1>1, <1>8, <1>t DEF SavedInv
<1>11. FreshInv'
  BY <1>1, <1>8 DEF FreshInv, SaveIsFresh
<1>12. QED
  BY <1>3, <1>4, <1>5, <1>7, <1>9, <1>10, <1>11 DEF IInv, FileInv, CursorInv

LEMMA TickKeeps ==
  ASSUME IInv, Tick
  PROVE  IInv'
<1>1. /\ age' = [r \in Readers |-> IF age[r] < Interval THEN age[r] + 1
                                   ELSE age[r]]
      /\ UNCHANGED <<file, w_cnt, r_cnt, saved, writing, rpc, got, snap, bell,
                     faults, done, torn, skewed, owes>>
  BY DEF Tick
<1>2. age' \in [Readers -> 0..Never]
  BY <1>1, Constants DEF IInv, Types
<1>3. Types'
  BY <1>1, <1>2 DEF IInv, Types, writing
<1>4. FileInv'
  BY <1>1, FileKept DEF IInv
<1>5. CursorInv' /\ FreshInv'
  <2>1. Len(file) \in Nat
    BY DEF IInv, Types
  <2>2. QED
    BY <1>1, <2>1, ReadersKept DEF IInv
<1>6. QED
  BY <1>3, <1>4, <1>5 DEF IInv

-------------------------------------------------------------------------------
\* The invariant

LEMMA InitInv == Init => IInv
<1> SUFFICES ASSUME Init PROVE IInv
  OBVIOUS
<1>1. /\ file = <<>> /\ w_cnt = 0 /\ faults = 0 /\ owes = {}
      /\ torn = FALSE /\ skewed = FALSE
      /\ r_cnt = [r \in Readers |-> 0] /\ saved = r_cnt
      /\ out = [w \in Writers |-> <<>>] /\ rows = [w \in Writers |-> 0]
      /\ wpc = [w \in Writers |-> "out"] /\ edge = rows
      /\ rpc = [r \in Readers |-> "read"] /\ got = [r \in Readers |-> <<>>]
      /\ snap = [r \in Readers |-> r_cnt] /\ age = [r \in Readers |-> Never]
      /\ bell = {} /\ done = [r \in Readers |-> {}]
  BY DEF Init
<1>2. /\ <<>> \in Seq(Cell) /\ <<>> \in Seq(Nat) /\ Len(<<>>) = 0
  OBVIOUS
<1>3. Types
  <2>1. /\ r_cnt \in [Readers -> Nat] /\ saved \in [Readers -> Nat]
        /\ got \in [Readers -> Seq(Nat)]
        /\ rpc \in [Readers -> {"read", "work", "count", "save", "store", "poll"}]
        /\ age \in [Readers -> 0..Never] /\ done \in [Readers -> SUBSET Nat]
    BY <1>1, <1>2, Constants
  <2>2. snap \in [Readers -> [Readers -> Nat]]
    BY <1>1, <2>1
  <2>3. /\ out \in [Writers -> Seq(Cell)] /\ rows \in [Writers -> 0..WriteMax]
        /\ wpc \in [Writers -> {"out", "write", "count", "ring"}]
        /\ edge \in [Writers -> Nat]
    BY <1>1, <1>2, Constants
  <2>4. /\ file \in Seq(Cell) /\ w_cnt \in Nat /\ faults \in 0..MaxFaults
        /\ bell \subseteq Readers /\ owes \subseteq Readers
    BY <1>1, <1>2, Constants
  <2>5. torn \in BOOLEAN /\ skewed \in BOOLEAN
    BY <1>1
  <2>6. QED
    BY <2>1, <2>2, <2>3, <2>4, <2>5 DEF Types
<1>4. \A w \in Writers : ~Inside(w)
  BY <1>1 DEF Inside
<1>5. FileInv
  <2>1. 0 \div 2 = 0 /\ 0 % 2 = 0 /\ 1..0 = {}
    OBVIOUS
  <2>2. WritersInv
    BY <1>1, <1>2, <1>4, Constants DEF WritersInv
  <2>3. Solid(Len(file)) /\ Numbered(Len(file))
    BY <1>1, <1>2, <2>1 DEF Solid, Numbered
  <2>4. RunInv /\ WholeInv /\ NumberedInv
    BY <1>1, <1>2, <1>4, <2>3 DEF RunInv, WholeInv, NumberedInv
  <2>5. QED
    BY <2>2, <2>4 DEF FileInv
<1>6. ASSUME NEW r \in Readers PROVE ReaderInv(r)
  <2>1. /\ rpc[r] = "read" /\ got[r] = <<>> /\ r_cnt[r] = 0 /\ done[r] = {}
        /\ Len(got[r]) = 0 /\ Len(file) = 0
    BY <1>1, <1>2
  <2>2. InHand(r) = 0
    BY <2>1 DEF InHand
  <2>3. PeekerInv(r) /\ TakerInv(r)
    BY <2>1 DEF PeekerInv, TakerInv
  <2>4. QED
    BY <2>1, <2>2, <2>3, Constants DEF ReaderInv
<1>7. SavedInv /\ FreshInv
  BY <1>1 DEF SavedInv, FreshInv, SaveIsFresh
<1>8. QED
  BY <1>3, <1>5, <1>6, <1>7 DEF IInv, CursorInv

LEMMA StutterKeeps ==
  ASSUME IInv, UNCHANGED vars
  PROVE  IInv'
<1>1. UNCHANGED <<file, w_cnt, r_cnt, saved, out, rows, wpc, edge, rpc, got, snap,
                  age, bell, faults, done, torn, skewed, owes>>
  BY DEF vars
<1>2. Types'
  BY <1>1 DEF IInv, Types
<1>3. FileInv'
  BY <1>1, FileKept DEF IInv, writing
<1>4. CursorInv' /\ FreshInv'
  <2>1. Len(file) \in Nat
    BY DEF IInv, Types
  <2>2. QED
    BY <1>1, <2>1, ReadersKept DEF IInv
<1>5. QED
  BY <1>2, <1>3, <1>4 DEF IInv

LEMMA NextInv == IInv /\ [Next]_vars => IInv'
<1> SUFFICES ASSUME IInv, [Next]_vars PROVE IInv'
  OBVIOUS
<1>1. CASE UNCHANGED vars
  BY <1>1, StutterKeeps
<1>2. ASSUME NEW w \in Writers, NEW n \in 1..WriteMax, F_W(w, n) PROVE IInv'
  BY <1>2, F_WKeeps
<1>3. ASSUME NEW w \in Writers, WriterSteps(w) \/ WriterStops(w) PROVE IInv'
  BY <1>3, F_W_ProcKeeps, CountKeeps, RingKeeps, WriterStopsKeeps DEF WriterSteps
<1>4. ASSUME NEW r \in Readers, ReaderSteps(r) \/ ReaderStops(r) PROVE IInv'
  BY <1>4, F_RKeeps, F_R_FailsKeeps, HandleKeeps, Add_CountKeeps,
     Seq_Throttle_CheckKeeps, Seq_SaveKeeps, StoreKeeps, PollKeeps,
     ReaderStopsKeeps DEF ReaderSteps
<1>5. CASE Load_Config
  BY <1>5, Load_ConfigKeeps
<1>6. CASE Tick
  BY <1>6, TickKeeps
<1>7. QED
  BY <1>1, <1>2, <1>3, <1>4, <1>5, <1>6 DEF Next

LEMMA Invariance == Spec => []IInv
<1>1. Init => IInv
  BY InitInv
<1>2. IInv /\ [Next]_vars => IInv'
  BY NextInv
<1>3. QED
  BY <1>1, <1>2, PTL DEF Spec

-------------------------------------------------------------------------------
\* What the invariant says of the queue

\* A cursor never passes the whole rows of the file.
LEMMA CountsBounded ==
  ASSUME IInv, NEW r \in Readers
  PROVE  /\ r_cnt[r] \in 0..(Len(file) \div 2) /\ saved[r] \in 0..MaxRows
         /\ 2 * r_cnt[r] <= Len(file)
<1>1. /\ r_cnt[r] \in Nat /\ saved[r] \in Nat /\ Len(file) \in Nat
      /\ InHand(r) \in Nat
  BY DEF IInv, Types, InHand
<1>2. /\ 2 * (r_cnt[r] + InHand(r)) <= Len(file)
      /\ saved[r] <= r_cnt[r] /\ Len(file) <= 2 * MaxRows + 1
  BY DEF IInv, CursorInv, SavedInv, ReaderInv, FileInv, WritersInv
<1>3. 2 * r_cnt[r] <= Len(file)
  BY <1>1, <1>2
<1>4. r_cnt[r] \in 0..(Len(file) \div 2)
  BY <1>1, <1>3
<1>5. saved[r] \in 0..MaxRows
  BY <1>1, <1>2, <1>3, Constants
<1>6. QED
  BY <1>3, <1>4, <1>5

\* Every variable keeps its type, no count exceeds the rows that are in the
\* file, and no saved cursor exceeds the counted one.
THEOREM TypeCorrect == Spec => []TypeOK
<1>1. IInv => TypeOK
  <2> SUFFICES ASSUME IInv PROVE TypeOK
    OBVIOUS
  <2>t. Types
    BY DEF IInv
  <2>1. \A i \in DOMAIN file : file[i] \in [num : 1..(MaxRows + 1), part : {1, 2}]
    <3>1. file \in Seq(Cell)
      BY <2>t DEF Types
    <3>2. \A i \in DOMAIN file : file[i] \in Cell
      BY <3>1, ElementOfSeq, LenProperties
    <3>3. QED
      BY <3>2 DEF Cell
  <2>2. w_cnt \in 0..(Len(file) \div 2)
    <3>1. 2 * w_cnt <= Len(file) /\ w_cnt \in Nat /\ Len(file) \in Nat
      BY <2>t DEF Types, IInv, FileInv, WritersInv
    <3>2. QED
      BY <3>1
  <2>3. /\ r_cnt \in [Readers -> 0..(Len(file) \div 2)]
        /\ saved \in [Readers -> 0..MaxRows]
    <3>1. \A r \in Readers : /\ r_cnt[r] \in 0..(Len(file) \div 2)
                             /\ saved[r] \in 0..MaxRows
      BY CountsBounded
    <3>2. r_cnt \in [Readers -> Nat] /\ saved \in [Readers -> Nat]
      BY <2>t DEF Types
    <3>3. QED
      BY <3>1, <3>2
  <2>4. \A r \in Readers : saved[r] <= r_cnt[r] /\ Len(got[r]) <= ReadMax
    BY DEF IInv, CursorInv, SavedInv, ReaderInv
  <2>5. \A w \in Writers : Len(out[w]) <= 2 * rows[w]
    BY DEF IInv, FileInv, WritersInv
  <2>6. edge \in [Writers -> 0..Len(file)]
    <3>1. \A w \in Writers : edge[w] <= Len(file)
      BY DEF IInv, FileInv, WritersInv
    <3>2. edge \in [Writers -> Nat] /\ Len(file) \in Nat
      BY <2>t DEF Types
    <3>3. QED
      BY <3>1, <3>2
  <2>7. QED
    BY <2>t, <2>1, <2>2, <2>3, <2>4, <2>5, <2>6 DEF Types, TypeOK
<1>2. QED
  BY <1>1, Invariance, PTL

\* The row at the i-th place is row number i, as the readers that count by
\* place take it to be, while no writer has left a part of a row or rows that
\* it did not count.
THEOREM RowsNumbered == Spec => []RowNumbers
<1>1. IInv => RowNumbers
  <2> SUFFICES ASSUME IInv, ~torn, ~skewed,
                      NEW i \in 1..(Len(file) \div 2)
               PROVE  file[2 * i - 1] = Head1(i) /\ file[2 * i] = Tail2(i)
    BY DEF RowNumbers
  <2>t. /\ Len(file) \in Nat /\ w_cnt \in Nat
        /\ \A w \in Writers : edge[w] \in Nat /\ rows[w] \in Nat /\ Len(out[w]) \in Nat
    BY Constants DEF IInv, Types
  <2>1. CASE \A w \in Writers : ~Inside(w)
    BY <2>1 DEF IInv, FileInv, NumberedInv, Numbered
  <2>2. CASE \E w \in Writers : Inside(w)
    <3>1. PICK w \in Writers : Inside(w)
      BY <2>2
    <3>2. edge[w] = 2 * w_cnt /\ Numbered(edge[w]) /\ Solid(edge[w])
      BY <3>1 DEF IInv, FileInv, WholeInv, NumberedInv
    <3>3. /\ edge[w] <= Len(file)
          /\ edge[w] + 2 * rows[w] = Len(file) + Len(out[w])
      BY <3>1 DEF IInv, FileInv, WritersInv
    <3> DEFINE c == (Len(file) - edge[w]) \div 2
    <3>4. c \in 0..rows[w] /\ edge[w] + 2 * c <= Len(file)
          /\ (edge[w] + 2 * c) \div 2 = Len(file) \div 2
      <4> DEFINE f == Len(file)
                 e == edge[w]
                 n == rows[w]
                 o == Len(out[w])
      <4>1. /\ f \in Nat /\ e \in Nat /\ n \in Nat /\ o \in Nat /\ e <= f
            /\ e + 2 * n = f + o /\ e = 2 * w_cnt /\ w_cnt \in Nat
        BY <2>t, <3>2, <3>3
      <4> HIDE DEF f, e, n, o
      <4>2. /\ (f - e) \div 2 \in 0..n /\ e + 2 * ((f - e) \div 2) <= f
            /\ (e + 2 * ((f - e) \div 2)) \div 2 = f \div 2
        BY <4>1
      <4>3. QED
        BY <4>2, Zenon DEF f, e, n, o
    <3> HIDE DEF c
    <3>5. Numbered(edge[w] + 2 * c)
      BY <3>1, <3>2, <3>4, RowsWritten DEF IInv, FileInv
    <3>6. QED
      BY <3>4, <3>5 DEF Numbered
  <2>3. QED
    BY <2>1, <2>2
<1>2. QED
  BY <1>1, Invariance, PTL

\* A reader that has its lock finds whole rows whatever a writer is about, as
\* long as no writer has left a part of a row: F_R does not fail.
THEOREM ReadersFindRows == Spec => []ReadsWhole
<1>1. IInv => ReadsWhole
  <2> SUFFICES ASSUME IInv, NEW r \in Readers, ReaderMayLock(r), ~torn
               PROVE  /\ Found(r) % 2 = 0
                      /\ \A i \in DOMAIN Batch(r) : IsRowAt(Batch(r)[i])
    BY DEF ReadsWhole
  <2>t. Types /\ Len(file) \in Nat /\ r_cnt[r] \in Nat
        /\ \A w \in Writers : edge[w] \in Nat
    BY DEF IInv, Types
  <2>1. 2 * r_cnt[r] <= Len(file)
    BY CountsBounded
  <2>2. Wanted(r) = 2 * r_cnt[r] + 2 * ReadMax
    BY <2>t, Constants DEF Wanted
  <2>3. /\ Found(r) = IF Len(file) <= Wanted(r) THEN Len(file) - 2 * r_cnt[r]
                      ELSE 2 * ReadMax
        /\ Batch(r) \in Seq(Nat) /\ Len(Batch(r)) = Found(r) \div 2
        /\ 2 * (r_cnt[r] + Len(Batch(r))) <= Len(file)
        /\ Len(Batch(r)) <= ReadMax
        /\ \A i \in 1..Len(Batch(r)) : Batch(r)[i] = r_cnt[r] + i
    BY <2>t, <2>1, FoundRows
  <2>4. \E n \in Nat : /\ Solid(n) /\ n <= Len(file)
                       /\ n = Len(file) \/ Wanted(r) <= n
    <3>1. CASE \A w \in Writers : ~Inside(w)
      BY <2>t, <3>1 DEF IInv, FileInv, WholeInv
    <3>2. CASE \E w \in Writers : Inside(w)
      <4>1. PICK w \in Writers : Inside(w)
        BY <3>2
      <4>2. wpc[w] # "out"
        BY <4>1 DEF Inside
      <4>3. Wanted(r) <= edge[w] /\ Solid(edge[w]) /\ edge[w] <= Len(file)
        BY <4>1, <4>2 DEF ReaderMayLock, IInv, FileInv, WholeInv, WritersInv
      <4>4. QED
        BY <2>t, <4>3
    <3>3. QED
      BY <3>1, <3>2
  <2>5. PICK n \in Nat : /\ Solid(n) /\ n <= Len(file)
                         /\ n = Len(file) \/ Wanted(r) <= n
    BY <2>4
  <2>6. n % 2 = 0 /\ \A m \in 1..(n \div 2) : IsRowAt(m)
    BY <2>5 DEF Solid
  <2> HIDE DEF Found, Batch, Wanted
  <2>7. Found(r) % 2 = 0
    <3>1. CASE Len(file) <= Wanted(r)
      <4>1. n = Len(file)
        BY <2>t, <2>2, <2>5, <3>1, Constants
      <4>2. Found(r) = n - 2 * r_cnt[r]
        BY <2>3, <3>1, <4>1
      <4>3. QED
        BY <2>t, <2>6, <4>2
    <3>2. CASE ~(Len(file) <= Wanted(r))
      BY <2>3, <3>2, Constants
    <3>3. QED
      BY <3>1, <3>2
  <2>8. 2 * (r_cnt[r] + Len(Batch(r))) <= n
    BY <2>t, <2>2, <2>3, <2>5, Constants
  <2>9. ASSUME NEW i \in 1..Len(Batch(r)) PROVE IsRowAt(Batch(r)[i])
    <3>1. Len(Batch(r)) \in Nat
      BY <2>3
    <3>2. r_cnt[r] + i \in 1..(n \div 2)
      BY <2>t, <2>8, <3>1
    <3>3. QED
      BY <2>3, <2>6, <3>2
  <2>10. QED
    BY <2>3, <2>7, <2>9
<1>2. QED
  BY <1>1, Invariance, PTL

\* Whoever dies and however often the system starts, a peeker's cursors, in
\* memory and in _seq, are above handled rows only; a taker's are until the
\* first fault.
THEOREM NoneSkipped == Spec => []NoRowPassedOver
<1>1. IInv => NoRowPassedOver
  <2> SUFFICES ASSUME IInv PROVE NoRowPassedOver
    OBVIOUS
  <2>1. ASSUME NEW r \in Peekers
        PROVE  1..Max({r_cnt[r], saved[r]}) \subseteq done[r]
    <3>1. r \in Readers
      BY Constants
    <3>2. r_cnt[r] \in Nat /\ saved[r] \in Nat /\ saved[r] <= r_cnt[r]
      BY <3>1 DEF IInv, Types, CursorInv, SavedInv
    <3>3. Max({r_cnt[r], saved[r]}) = r_cnt[r]
      BY <3>2, MaxOfTwo
    <3>4. QED
      BY <3>1, <3>3 DEF IInv, CursorInv, ReaderInv, PeekerInv
  <2>2. ASSUME faults = 0, NEW r \in Takers
        PROVE  1..r_cnt[r] \subseteq done[r] \cup {got[r][i] : i \in DOMAIN got[r]}
    <3>1. r \in Readers
      BY Constants
    <3>2. r_cnt[r] \in Nat /\ Len(got[r]) \in Nat /\ DOMAIN got[r] = 1..Len(got[r])
      BY <3>1 DEF IInv, Types
    <3>3. /\ Len(got[r]) <= r_cnt[r]
          /\ 1..(r_cnt[r] - Len(got[r])) \subseteq done[r]
          /\ \A i \in 1..Len(got[r]) : got[r][i] = r_cnt[r] - Len(got[r]) + i
      BY <2>2, <3>1 DEF IInv, CursorInv, ReaderInv, TakerInv
    <3>4. ASSUME NEW n \in 1..r_cnt[r], n \notin done[r]
          PROVE  \E i \in 1..Len(got[r]) : n = got[r][i]
      <4> DEFINE i == n - (r_cnt[r] - Len(got[r]))
      <4>1. i \in 1..Len(got[r])
        <5>1. n \notin 1..(r_cnt[r] - Len(got[r]))
          BY <3>3, <3>4
        <5>2. QED
          BY <3>2, <3>3, <5>1
      <4>2. r_cnt[r] - Len(got[r]) + i = n
        BY <3>2
      <4> HIDE DEF i
      <4>3. QED
        BY <3>3, <4>1, <4>2
    <3>5. QED
      BY <3>2, <3>4
  <2>3. QED
    BY <2>1, <2>2 DEF NoRowPassedOver
<1>2. QED
  BY <1>1, Invariance, PTL

\* A reader that has come to the end of a save finds its cursor in _seq,
\* although every reader stores the cursors of all.
THEOREM SavesFresh == Spec => []SaveIsFresh
<1>1. IInv => SaveIsFresh
  BY DEF IInv, FreshInv
<1>2. QED
  BY <1>1, Invariance, PTL

===============================================================================
