------------------------------- MODULE FileQueue -------------------------------
(***************************************************************************)
(* A journal file as a queue between processes (sub/file_rw.c) and the     *)
(* read cursors beside it (sub/seq_save.c, sub/seq_throttle.c).            *)
(*                                                                         *)
(* Writers append whole rows with F_W: under a write lock from the end of  *)
(* the file on, they number the rows from the shared count w_cnt, write,   *)
(* raise the count and ring the readers' FIFOs.  A reader works from its   *)
(* cursor r_cnt * row size on, under a read lock on the rows it asks for,  *)
(* and looks at the file itself, not at w_cnt.  A peeker (PS_R_n) handles  *)
(* a row and then counts it; a taker (PS_R_n + 10 and more) counts rows    *)
(* when it reads them.  Every count is saved to the _seq file, from which  *)
(* a start of the system, which loses the shared memory, takes it back.    *)
(*                                                                         *)
(* A row is two cells, because write() may write a part of what it is      *)
(* given and a process may die or give up before it has written the rest.  *)
(***************************************************************************)
EXTENDS Naturals, Sequences, FiniteSets, FiniteSetsExt

CONSTANTS Writers, Peekers, Takers,
          ReadMax,     \* rows a reader asks F_R for
          WriteMax,    \* rows a writer gives F_W
          Interval,    \* FEP_SEQ_SAVE_INTERVAL in seconds, 0 when not set
          MaxRows,     \* bound: rows in the file
          MaxFaults    \* bound: deaths, failed writes, starts of the system

Readers == Peekers \cup Takers

ASSUME QueueAssumption ==
  /\ {ReadMax, WriteMax} \subseteq Nat \ {0}
  /\ {Interval, MaxRows, MaxFaults} \subseteq Nat
  /\ Peekers \cap Takers = {} /\ Writers \cap Readers = {}

VARIABLES
  file,    \* the cells of the journal file
  w_cnt,   \* OFW: the rows counted
  r_cnt,   \* IFR: per reader, the rows it has counted
  saved,   \* the cursors in the _seq file
  out,     \* per writer: the cells it has still to write
  rows,    \* per writer: the rows of this F_W, 0 outside of it
  wpc,     \* per writer: "out", "write", "count", "ring"
  edge,    \* per writer: the first cell it has locked
  rpc,     \* per reader: "read", "work", "count", "save", "store", "poll"
  got,     \* per reader: the rows read and not yet handled
  snap,    \* per reader: the cursors it is about to write to _seq
  age,     \* per reader: seconds since it last saved, Never in a new process
  bell,    \* readers with a byte in their FIFO
  faults,  \* bound: faults that have happened
  done,    \* history: per reader, the places in the file it has handled
  torn,    \* history: a part of a row has been left in the file
  skewed,  \* history: rows have been left in the file without being counted
  owes     \* history: readers whose last count no save has followed

writing == <<out, rows, wpc, edge>>
reading == <<rpc, got, snap, age>>
history == <<done, torn, skewed, owes>>
vars == <<file, w_cnt, r_cnt, saved, out, rows, wpc, edge, rpc, got, snap,
          age, bell, faults, done, torn, skewed, owes>>

\* A process that has not saved yet has nothing to throttle and no file open.
Never == Interval + 1

Head1(n) == [num |-> n, part |-> 1]
Tail2(n) == [num |-> n, part |-> 2]

\* The cells of n rows numbered from k.
RowCells(k, n) == [i \in 1..(2 * n) |->
  IF i % 2 = 1 THEN Head1(k + (i \div 2)) ELSE Tail2(k + (i \div 2) - 1)]

\* What stands at the i-th place of the file: a row, or pieces of two.
IsRowAt(i) == \E n \in 1..(MaxRows + 1) :
                /\ file[2 * i - 1] = Head1(n) /\ file[2 * i] = Tail2(n)

Init ==
  /\ file = <<>> /\ w_cnt = 0
  /\ r_cnt = [r \in Readers |-> 0] /\ saved = r_cnt
  /\ out = [w \in Writers |-> <<>>] /\ rows = [w \in Writers |-> 0]
  /\ wpc = [w \in Writers |-> "out"] /\ edge = rows
  /\ rpc = [r \in Readers |-> "read"] /\ got = [r \in Readers |-> <<>>]
  /\ snap = [r \in Readers |-> r_cnt]
  /\ age = [r \in Readers |-> Never]
  /\ bell = {} /\ faults = 0
  /\ done = [r \in Readers |-> {}] /\ torn = FALSE /\ skewed = FALSE
  /\ owes = {}

-----------------------------------------------------------------------------
(* Locks on the journal file *)

\* The cells F_R locks: as many rows as it asks for, written yet or not.
Wanted(r) == 2 * (r_cnt[r] + ReadMax)

\* A taker saves its cursor before it gives its lock back; the rows it has
\* just counted are the first of those it locked.
HoldsTo(r) ==
  IF r \in Takers /\ rpc[r] \in {"save", "store"}
  THEN 2 * (r_cnt[r] - Len(got[r]) + ReadMax) ELSE 0

\* Mutant: the lock is asked for and not waited for.
FaultyLockIgnored == \A r \in Readers : HoldsTo(r) <= Len(file)

WriterMayLock == /\ \A v \in Writers : wpc[v] = "out"
                 /\ \A r \in Readers : HoldsTo(r) <= Len(file)

\* Mutant: a lock of one row for a read of several.
FaultyLocksOneRow(r) ==
  \A w \in Writers : wpc[w] # "out" => 2 * (r_cnt[r] + 1) <= edge[w]

ReaderMayLock(r) ==
  \A w \in Writers : wpc[w] # "out" => Wanted(r) <= edge[w]

-----------------------------------------------------------------------------
(* Writing *)

\* F_W takes its lock and numbers the rows after OFW.
F_W(w, n) ==
  /\ wpc[w] = "out" /\ WriterMayLock
  /\ (Len(file) \div 2) + n <= MaxRows
  /\ out' = [out EXCEPT ![w] = RowCells(w_cnt + 1, n)]
  /\ rows' = [rows EXCEPT ![w] = n]
  /\ edge' = [edge EXCEPT ![w] = Len(file)]
  /\ wpc' = [wpc EXCEPT ![w] = "write"]
  /\ UNCHANGED <<file, w_cnt, r_cnt, saved, reading, bell, faults, history>>

\* Mutant: a short write taken for a whole one.
FaultyShortWrite(w) ==
  /\ wpc[w] = "write"
  /\ \E k \in 1..Len(out[w]) :
       /\ file' = file \o SubSeq(out[w], 1, k)
       /\ out' = [out EXCEPT ![w] = <<>>]
  /\ wpc' = [wpc EXCEPT ![w] = "count"]
  /\ UNCHANGED <<w_cnt, r_cnt, saved, rows, edge, reading, bell, faults,
                 history>>

\* write() writes what is left or a part of it.
F_W_Proc(w) ==
  /\ wpc[w] = "write"
  /\ \E k \in 1..Len(out[w]) :
       /\ file' = file \o SubSeq(out[w], 1, k)
       /\ out' = [out EXCEPT ![w] = SubSeq(@, k + 1, Len(@))]
       /\ wpc' = [wpc EXCEPT ![w] = IF k = Len(out[w]) THEN "count" ELSE @]
  /\ UNCHANGED <<w_cnt, r_cnt, saved, rows, edge, reading, bell, faults,
                 history>>

Count(w) ==
  /\ wpc[w] = "count"
  /\ w_cnt' = w_cnt + rows[w]
  /\ wpc' = [wpc EXCEPT ![w] = "ring"]
  /\ UNCHANGED <<file, r_cnt, saved, out, rows, edge, reading, bell, faults,
                 history>>

\* The lock is gone and the next F_W starts afresh.
Unlocked(w) ==
  /\ wpc' = [wpc EXCEPT ![w] = "out"] /\ out' = [out EXCEPT ![w] = <<>>]
  /\ rows' = [rows EXCEPT ![w] = 0] /\ edge' = [edge EXCEPT ![w] = 0]

\* A byte into every reader's FIFO; a full FIFO has bytes enough.
Ring(w) ==
  /\ wpc[w] = "ring"
  /\ bell' = Readers
  /\ Unlocked(w)
  /\ UNCHANGED <<file, w_cnt, r_cnt, saved, reading, faults, history>>

\* A write that fails, or a death, anywhere in F_W: the kernel takes the lock
\* back, what is written stays and nothing is counted.  A new process follows.
Leaves(w) ==
  LET wrote == 2 * rows[w] - Len(out[w])
  IN /\ torn' = (torn \/ wrote % 2 = 1)
     /\ skewed' = (skewed \/ (wpc[w] # "ring" /\ wrote > 0))

WriterStops(w) ==
  /\ faults < MaxFaults /\ wpc[w] # "out"
  /\ faults' = faults + 1
  /\ Leaves(w) /\ Unlocked(w)
  /\ UNCHANGED <<file, w_cnt, r_cnt, saved, reading, bell, done, owes>>

-----------------------------------------------------------------------------
(* Reading *)

\* The whole rows among the cells F_R finds, each with its place.
Found(r) == Min({Len(file), Wanted(r)}) - Min({Len(file), 2 * r_cnt[r]})
Batch(r) == [i \in 1..(Found(r) \div 2) |-> r_cnt[r] + i]

\* What F_R gives the reader becomes its work; a taker's cursor moves first.
Takes(r) ==
  /\ got' = [got EXCEPT ![r] = Batch(r)]
  /\ IF r \in Takers
     THEN /\ r_cnt' = [r_cnt EXCEPT ![r] = @ + Len(Batch(r))]
          /\ rpc' = [rpc EXCEPT ![r] = "save"]
          /\ owes' = owes \cup {r}
     ELSE /\ rpc' = [rpc EXCEPT ![r] = "work"]
          /\ UNCHANGED <<r_cnt, owes>>

F_R(r) ==
  /\ rpc[r] = "read" /\ ReaderMayLock(r)
  /\ Found(r) % 2 = 0
  /\ IF Found(r) = 0
     THEN rpc' = [rpc EXCEPT ![r] = "poll"] /\ UNCHANGED <<got, r_cnt, owes>>
     ELSE Takes(r)
  /\ UNCHANGED <<file, w_cnt, saved, writing, snap, age, bell, faults, done,
                 torn, skewed>>

\* A part of a row at the end: F_R fails and the reader ends (Exit_Process),
\* after Seq_Save_Flush if it has saved before.  Its successor finds the same.
F_R_Fails(r) ==
  /\ rpc[r] = "read" /\ ReaderMayLock(r)
  /\ Found(r) % 2 = 1
  /\ \A q \in Readers : rpc[q] # "store"
  /\ IF age[r] = Never
     THEN UNCHANGED <<saved, owes>>
     ELSE saved' = r_cnt /\ owes' = owes \ {r}
  /\ age' = [age EXCEPT ![r] = Never]
  /\ UNCHANGED <<file, w_cnt, r_cnt, writing, rpc, got, snap, bell, faults,
                 done, torn, skewed>>

\* The reader handles the first of its rows.
Handle(r) ==
  /\ rpc[r] = "work"
  /\ done' = [done EXCEPT ![r] = @ \cup {Head(got[r])}]
  /\ got' = [got EXCEPT ![r] = Tail(@)]
  /\ rpc' = [rpc EXCEPT ![r] = IF r \in Peekers THEN "count"
                               ELSE IF Len(got[r]) > 1 THEN @ ELSE "read"]
  /\ UNCHANGED <<file, w_cnt, r_cnt, saved, writing, snap, age, bell, faults,
                 torn, skewed, owes>>

\* Mutant: the batch is counted when its first row is done.
FaultyCountsBatch(r) ==
  /\ rpc[r] = "count"
  /\ r_cnt' = [r_cnt EXCEPT ![r] = @ + 1 + Len(got[r])]
  /\ rpc' = [rpc EXCEPT ![r] = "save"]
  /\ owes' = owes \cup {r}
  /\ UNCHANGED <<file, w_cnt, saved, writing, got, snap, age, bell, faults,
                 done, torn, skewed>>

Add_Count(r) ==
  /\ rpc[r] = "count"
  /\ r_cnt' = [r_cnt EXCEPT ![r] = @ + 1]
  /\ rpc' = [rpc EXCEPT ![r] = "save"]
  /\ owes' = owes \cup {r}
  /\ UNCHANGED <<file, w_cnt, saved, writing, got, snap, age, bell, faults,
                 done, torn, skewed>>

\* Where the reader goes on after Seq_Save.
AfterSave(r) == IF got[r] # <<>> THEN "work" ELSE "read"

\* Seq_Throttle_Check: saved less than Interval seconds ago.
Throttled(r) == Interval > 0 /\ age[r] < Interval

Seq_Throttle_Check(r) ==
  /\ rpc[r] = "save" /\ Throttled(r)
  /\ rpc' = [rpc EXCEPT ![r] = AfterSave(r)]
  /\ UNCHANGED <<file, w_cnt, r_cnt, saved, writing, got, snap, age, bell,
                 faults, history>>

\* Mutant: the cursors are taken before the lock.
FaultyOldCursors(r) ==
  /\ rpc[r] = "save" /\ ~Throttled(r)
  /\ snap' = [snap EXCEPT ![r] = r_cnt]
  /\ age' = [age EXCEPT ![r] = 0]
  /\ rpc' = [rpc EXCEPT ![r] = "store"]
  /\ UNCHANGED <<file, w_cnt, r_cnt, saved, writing, got, bell, faults,
                 history>>

\* seq_write_slot takes its lock, then the cursors of all readers.
Seq_Save(r) ==
  /\ rpc[r] = "save" /\ ~Throttled(r)
  /\ \A q \in Readers : rpc[q] # "store"
  /\ snap' = [snap EXCEPT ![r] = r_cnt]
  /\ age' = [age EXCEPT ![r] = 0]
  /\ rpc' = [rpc EXCEPT ![r] = "store"]
  /\ UNCHANGED <<file, w_cnt, r_cnt, saved, writing, got, bell, faults,
                 history>>

Store(r) ==
  /\ rpc[r] = "store"
  /\ saved' = snap[r]
  /\ rpc' = [rpc EXCEPT ![r] = AfterSave(r)]
  /\ owes' = owes \ {r}
  /\ UNCHANGED <<file, w_cnt, r_cnt, writing, got, snap, age, bell, faults,
                 done, torn, skewed>>

\* Poll_File: the FIFO is emptied, or nothing came in DATA_TIME.
Poll_File(r) ==
  /\ rpc[r] = "poll" /\ r \in bell
  /\ bell' = bell \ {r}
  /\ rpc' = [rpc EXCEPT ![r] = "read"]
  /\ UNCHANGED <<file, w_cnt, r_cnt, saved, writing, got, snap, age, faults,
                 history>>

\* Mutant: poll without a time limit.
FaultyWaitsForBell(r) == FALSE

Poll_Timeout(r) ==
  /\ rpc[r] = "poll" /\ r \notin bell
  /\ rpc' = [rpc EXCEPT ![r] = "read"]
  /\ UNCHANGED <<file, w_cnt, r_cnt, saved, writing, got, snap, age, bell,
                 faults, history>>

\* A death, or a stop by SIGTERM, whose handler does not flush.
ReaderStops(r) ==
  /\ faults < MaxFaults
  /\ faults' = faults + 1
  /\ rpc' = [rpc EXCEPT ![r] = "read"] /\ got' = [got EXCEPT ![r] = <<>>]
  /\ age' = [age EXCEPT ![r] = Never]
  /\ UNCHANGED <<file, w_cnt, r_cnt, saved, writing, snap, bell, done, torn,
                 skewed, owes>>

-----------------------------------------------------------------------------
(* The system *)

\* A start of the system after its shared memory is gone: the count from the
\* length of the file, the cursors from _seq.
Load_Config ==
  /\ faults < MaxFaults /\ \A w \in Writers : wpc[w] = "out"
  /\ faults' = faults + 1
  /\ w_cnt' = Len(file) \div 2
  /\ r_cnt' = saved
  /\ rpc' = [r \in Readers |-> "read"] /\ got' = [r \in Readers |-> <<>>]
  /\ age' = [r \in Readers |-> Never] /\ bell' = {}
  /\ skewed' = (skewed /\ \E i \in 1..(Len(file) \div 2) :
                            file[2 * i - 1].num # i)
  /\ owes' = {}
  /\ UNCHANGED <<file, saved, writing, snap, done, torn>>

\* Seconds matter only to the throttle.
Tick ==
  /\ Interval > 0
  /\ age' = [r \in Readers |-> IF age[r] < Interval THEN age[r] + 1
                               ELSE age[r]]
  /\ UNCHANGED <<file, w_cnt, r_cnt, saved, writing, rpc, got, snap, bell,
                 faults, done, torn, skewed, owes>>

WriterSteps(w) == F_W_Proc(w) \/ Count(w) \/ Ring(w)
ReaderSteps(r) ==
  \/ F_R(r) \/ F_R_Fails(r) \/ Handle(r) \/ Add_Count(r)
  \/ Seq_Throttle_Check(r) \/ Seq_Save(r) \/ Store(r)
  \/ Poll_File(r) \/ Poll_Timeout(r)

Next ==
  \/ \E w \in Writers : \/ \E n \in 1..WriteMax : F_W(w, n)
                        \/ WriterSteps(w) \/ WriterStops(w)
  \/ \E r \in Readers : ReaderSteps(r) \/ ReaderStops(r)
  \/ Load_Config
  \/ Tick

\* Processes run on; nobody has to write, and faults need not happen.
Spec ==
  /\ Init /\ [][Next]_vars
  /\ \A w \in Writers : WF_vars(WriterSteps(w))
  /\ \A r \in Readers : WF_vars(ReaderSteps(r))
  /\ WF_vars(Tick)

-----------------------------------------------------------------------------
(* Properties *)

\* Every variable has the range its C counterpart has; a count never exceeds
\* the rows that are in the file, nor a saved cursor the counts.
TypeOK ==
  /\ \A i \in DOMAIN file : file[i] \in
       [num : 1..(MaxRows + 1), part : {1, 2}]
  /\ w_cnt \in 0..(Len(file) \div 2)
  /\ r_cnt \in [Readers -> 0..(Len(file) \div 2)]
  /\ saved \in [Readers -> 0..MaxRows]
  /\ \A r \in Readers : saved[r] <= r_cnt[r]
  /\ rows \in [Writers -> 0..WriteMax]
  /\ \A w \in Writers : Len(out[w]) <= 2 * rows[w]
  /\ wpc \in [Writers -> {"out", "write", "count", "ring"}]
  /\ edge \in [Writers -> 0..Len(file)]
  /\ rpc \in [Readers -> {"read", "work", "count", "save", "store", "poll"}]
  /\ \A r \in Readers : Len(got[r]) <= ReadMax
  /\ age \in [Readers -> 0..Never] /\ bell \subseteq Readers
  /\ faults \in 0..MaxFaults /\ owes \subseteq Readers

\* The number in a row is its place in the file, which is what readers count
\* by, unless a writer has left rows that it did not count or a part of one:
\* the write lock covers the number as well as the write.
RowNumbers ==
  torn \/ skewed \/ \A i \in 1..(Len(file) \div 2) :
                       file[2 * i - 1] = Head1(i) /\ file[2 * i] = Tail2(i)

\* A reader that has its lock finds whole rows, whatever a writer is about:
\* while no writer has left a part of a row it never has to give up.
ReadsWhole ==
  \A r \in Readers :
    rpc[r] = "read" /\ ReaderMayLock(r) /\ ~torn
      => /\ Found(r) % 2 = 0
         /\ \A i \in DOMAIN Batch(r) : IsRowAt(Batch(r)[i])

\* No row below a peeker's cursor, in memory or in _seq, is unhandled, whoever
\* died and however often the system was started; a taker misses none unless
\* something fails.
NoRowPassedOver ==
  /\ \A r \in Peekers : 1..Max({r_cnt[r], saved[r]}) \subseteq done[r]
  /\ faults = 0 =>
       \A r \in Takers :
         1..r_cnt[r] \subseteq done[r] \cup {got[r][i] : i \in DOMAIN got[r]}

\* A cursor is in _seq once its reader has come to the end of a save, although
\* every reader writes the cursors of all.
SaveIsFresh == \A r \in Readers \ owes : saved[r] = r_cnt[r]

\* Every row is handled by every peeker in the end, also one whose writer died
\* before it rang, unless a part of a row stands before it.
EveryRowHandled ==
  \A r \in Peekers, i \in 1..MaxRows :
    Len(file) >= 2 * i ~> i \in done[r] \/ torn

=============================================================================
