------------------------------ MODULE DshmQueue ------------------------------
(***************************************************************************)
(* One DSHM queue: a ring of records in shared memory that a writer fills  *)
(* under a semaphore (DSHM_W_Core), a consumer reads without it (DSHM_R),  *)
(* and a thread of the sync manager appends to a backing file behind the   *)
(* writer (Sync_Thread).  Nobody waits for anybody: a consumer that finds  *)
(* another record in its slot reads the backing file by position instead.  *)
(*                                                                         *)
(* Record n is written in slot (n - 1) % Max with n in its header; a slot  *)
(* and a row are pairs <<number in the header, number of the body>>, which *)
(* differ while a copy is half done.  The doorbell bytes in the FIFOs are  *)
(* left out: every poll on them has a timeout and looks at the counts.     *)
(***************************************************************************)
EXTENDS Integers, Sequences, FiniteSets

CONSTANTS Max,        \* IDM / DSHM.max_rec: records the ring holds
          Batch,      \* p_cnt of the consumer's DSHM_R
          SyncBatch,  \* max_cnt of Sync_Thread
          MaxWrites,  \* bound: records written
          MaxBehind,  \* load: the writer is never this far ahead of the file
          MaxDeaths   \* bound: deaths of writer, consumer and sync manager

ASSUME RingAssumption == Max \in Nat \ {0}
ASSUME BatchAssumption == Batch \in Nat \ {0} /\ SyncBatch \in Nat \ {0}
ASSUME BoundsAssumption ==
  MaxWrites \in Nat /\ MaxBehind \in Nat /\ MaxDeaths \in Nat

VARIABLES
  w_cnt,     \* DSHM.w_cnt[0]: records written
  r_cnt,     \* IDR: records the consumer is done with
  sm_r_cnt,  \* DSHM.sm_r_cnt: records the sync thread is done with
  slot,      \* the ring
  file,      \* rows of the backing file
  wpc,       \* the writer: idle, or half way through a record
  rpc,       \* the consumer: idle, in DSHM_R's copy loop, at the file, working
  want,      \* data_cnt of the consumer's DSHM_R
  head,      \* header of the record the consumer is copying
  inbox,     \* R_Fmt: records copied and not yet done with
  spc,       \* the sync thread
  scnt,      \* cnt of the sync thread
  w_buf,     \* its w_buf
  lapped,    \* history: the writer came round into the batch being copied
  spoiled,   \* history: the file has missed or repeated a record
  deaths     \* history: deaths so far

wvars == <<w_cnt, slot, wpc>>
rvars == <<r_cnt, rpc, want, head, inbox>>
svars == <<sm_r_cnt, file, spc, scnt, w_buf>>
hist  == <<lapped, spoiled, deaths>>
vars  == <<w_cnt, slot, wpc, r_cnt, rpc, want, head, inbox,
           sm_r_cnt, file, spc, scnt, w_buf, lapped, spoiled, deaths>>

Pairs == Nat \X Nat

TypeOK ==
  /\ w_cnt \in Nat /\ r_cnt \in Nat /\ sm_r_cnt \in Nat
  /\ slot \in [0..(Max - 1) -> Pairs]
  /\ file \in Seq(Pairs)
  /\ wpc \in {"idle", "body", "publish"}
  /\ rpc \in {"idle", "head", "body", "file", "work"}
  /\ want \in Nat /\ head \in Nat
  /\ inbox \in Seq(Pairs)
  /\ spc \in {"idle", "copy", "write", "count"}
  /\ scnt \in Nat /\ w_buf \in Seq(Pairs)
  /\ lapped \in BOOLEAN /\ spoiled \in BOOLEAN
  /\ deaths \in Nat

\* A fresh segment and an empty file.
Init ==
  /\ w_cnt = 0 /\ r_cnt = 0 /\ sm_r_cnt = 0
  /\ slot = [i \in 0..(Max - 1) |-> <<0, 0>>]
  /\ file = <<>>
  /\ wpc = "idle"
  /\ rpc = "idle" /\ want = 0 /\ head = 0 /\ inbox = <<>>
  /\ spc = "idle" /\ scnt = 0 /\ w_buf = <<>>
  /\ lapped = FALSE /\ spoiled = FALSE
  /\ deaths = 0

Smaller(a, b) == IF a < b THEN a ELSE b

\* The slot of record n, and the record an older write of it left there.
SlotOf(n) == (n - 1) % Max
Before(n) == n - Max

-------------------------------------------------------------------------------
\* DSHM_W_Core, one record per call, inside the semaphore

\* Record n - Max disappears from the ring while the consumer is copying a
\* batch it belongs to, or before the sync thread has copied it.
Laps(n)   == rpc \in {"head", "body"} /\ Before(n) \in (r_cnt + 1)..(r_cnt + want)
Spoils(n) == Before(n) > sm_r_cnt + Len(w_buf)

WriteHead ==
  /\ wpc = "idle"
  /\ w_cnt < MaxWrites
  /\ w_cnt - sm_r_cnt < MaxBehind
  /\ slot' = [slot EXCEPT ![SlotOf(w_cnt + 1)][1] = w_cnt + 1]
  /\ lapped' = (lapped \/ Laps(w_cnt + 1))
  /\ spoiled' = (spoiled \/ Spoils(w_cnt + 1))
  /\ wpc' = "body"
  /\ UNCHANGED <<w_cnt, rvars, svars, deaths>>

\* Faulty: the count moves before the body of the record is there.
PublishEarly ==
  /\ wpc = "body"
  /\ w_cnt' = w_cnt + 1
  /\ wpc' = "idle"
  /\ UNCHANGED <<slot, rvars, svars, hist>>

WriteBody ==
  /\ wpc = "body"
  /\ slot' = [slot EXCEPT ![SlotOf(w_cnt + 1)][2] = w_cnt + 1]
  /\ wpc' = "publish"
  /\ UNCHANGED <<w_cnt, rvars, svars, hist>>

Publish ==
  /\ wpc = "publish"
  /\ w_cnt' = w_cnt + 1
  /\ wpc' = "idle"
  /\ UNCHANGED <<slot, rvars, svars, hist>>

\* The semaphore is released by SEM_UNDO; the half-written slot stays.
WriterDies ==
  /\ wpc # "idle"
  /\ deaths < MaxDeaths
  /\ deaths' = deaths + 1
  /\ wpc' = "idle"
  /\ UNCHANGED <<w_cnt, slot, rvars, svars, lapped, spoiled>>

-------------------------------------------------------------------------------
\* DSHM_R(PS_R_1, ...) and what its caller does with the batch

\* The counts are read once, at the start.
ReadStart ==
  /\ rpc = "idle"
  /\ r_cnt < w_cnt
  /\ want' = Smaller(w_cnt - r_cnt, Batch)
  /\ inbox' = <<>>
  /\ rpc' = "head"
  /\ lapped' = FALSE
  /\ UNCHANGED <<r_cnt, head, wvars, svars, spoiled, deaths>>

\* The record of the copy loop, and its slot.
Copying == r_cnt + Len(inbox) + 1

CopyHead ==
  /\ rpc = "head"
  /\ head' = slot[SlotOf(Copying)][1]
  /\ rpc' = "body"
  /\ UNCHANGED <<r_cnt, want, inbox, wvars, svars, hist>>

\* Faulty: the header of the first record is not looked at.
CopyUnchecked ==
  /\ rpc = "body"
  /\ LET row == <<head, slot[SlotOf(Copying)][2]>> IN
       /\ inbox' = Append(inbox, row)
       /\ rpc' = IF Len(inbox) + 1 = want THEN "work" ELSE "head"
  /\ UNCHANGED <<r_cnt, want, head, wvars, svars, hist>>

\* The first record of a batch must carry its own number.
CopyBody ==
  /\ rpc = "body"
  /\ inbox # <<>> \/ head = r_cnt + 1
  /\ LET row == <<head, slot[SlotOf(Copying)][2]>> IN
       /\ inbox' = Append(inbox, row)
       /\ rpc' = IF Len(inbox) + 1 = want THEN "work" ELSE "head"
  /\ UNCHANGED <<r_cnt, want, head, wvars, svars, hist>>

\* Faulty: the cursor is stepped back before the file is read.
FallBackRewinds ==
  /\ rpc = "body"
  /\ inbox = <<>> /\ head # r_cnt + 1
  /\ r_cnt' = r_cnt - 1
  /\ rpc' = "file"
  /\ UNCHANGED <<want, head, inbox, wvars, svars, hist>>

\* It does not: the backing file is read instead.
FallBack ==
  /\ rpc = "body"
  /\ inbox = <<>> /\ head # r_cnt + 1
  /\ rpc' = "file"
  /\ UNCHANGED <<r_cnt, want, head, inbox, wvars, svars, hist>>

\* Faulty: the file is read from the writer's position.
FileFromEnd ==
  /\ rpc = "file"
  /\ LET n == Smaller(want, Len(file) - Smaller(w_cnt, Len(file))) IN
       /\ inbox' = SubSeq(file, w_cnt + 1, w_cnt + n)
       /\ rpc' = IF n > 0 THEN "work" ELSE "idle"
  /\ UNCHANGED <<r_cnt, want, head, wvars, svars, hist>>

\* lseek to row r_cnt and F_R_Proc: up to want rows, none at the end of file.
FileRead ==
  /\ rpc = "file"
  /\ LET n == Smaller(want, Len(file) - Smaller(r_cnt, Len(file))) IN
       /\ inbox' = SubSeq(file, r_cnt + 1, r_cnt + n)
       /\ rpc' = IF n > 0 THEN "work" ELSE "idle"
  /\ UNCHANGED <<r_cnt, want, head, wvars, svars, hist>>

\* The caller sends or applies the next record, then Dshm_Add_Count(.., 1).
Work ==
  /\ rpc = "work"
  /\ r_cnt' = r_cnt + 1
  /\ inbox' = Tail(inbox)
  /\ rpc' = IF Len(inbox) = 1 THEN "idle" ELSE "work"
  /\ UNCHANGED <<want, head, wvars, svars, hist>>

\* The batch is lost with the process, the cursor is not.
ConsumerDies ==
  /\ rpc # "idle"
  /\ deaths < MaxDeaths
  /\ deaths' = deaths + 1
  /\ rpc' = "idle" /\ inbox' = <<>>
  /\ UNCHANGED <<r_cnt, want, head, wvars, svars, lapped, spoiled>>

-------------------------------------------------------------------------------
\* Sync_Thread of pw_1000_mp

SyncStart ==
  /\ spc = "idle"
  /\ sm_r_cnt < w_cnt
  /\ scnt' = Smaller(w_cnt - sm_r_cnt, SyncBatch)
  /\ spc' = "copy"
  /\ UNCHANGED <<sm_r_cnt, file, w_buf, wvars, rvars, hist>>

\* One turn of its copy loop.
SyncCopy ==
  /\ spc = "copy"
  /\ w_buf' = Append(w_buf, slot[SlotOf(sm_r_cnt + Len(w_buf) + 1)])
  /\ spc' = IF Len(w_buf) + 1 = scnt THEN "write" ELSE "copy"
  /\ UNCHANGED <<sm_r_cnt, file, scnt, wvars, rvars, hist>>

\* write() to the file opened O_APPEND.
SyncWrite ==
  /\ spc = "write"
  /\ file' = file \o w_buf
  /\ spc' = "count"
  /\ UNCHANGED <<sm_r_cnt, scnt, w_buf, wvars, rvars, hist>>

\* Faulty: one record short when the batch was a full one.
SyncCountShort ==
  /\ spc = "count"
  /\ sm_r_cnt' = IF scnt = SyncBatch THEN sm_r_cnt + scnt - 1 ELSE sm_r_cnt + scnt
  /\ spc' = "idle" /\ w_buf' = <<>>
  /\ UNCHANGED <<file, scnt, wvars, rvars, hist>>

SyncCount ==
  /\ spc = "count"
  /\ sm_r_cnt' = sm_r_cnt + scnt
  /\ spc' = "idle" /\ w_buf' = <<>>
  /\ UNCHANGED <<file, scnt, wvars, rvars, hist>>

\* Every record the sync thread is not done with is still in the ring.
AllInRing == \A n \in (sm_r_cnt + 1)..w_cnt : slot[SlotOf(n)] = <<n, n>>

\* The manager dies and is started again: what it had copied is copied again,
\* and if it died between write() and the count, written again.
SyncDies ==
  /\ spc # "idle"
  /\ deaths < MaxDeaths
  /\ deaths' = deaths + 1
  /\ spoiled' = (spoiled \/ spc = "count" \/ ~AllInRing)
  /\ spc' = "idle" /\ w_buf' = <<>>
  /\ UNCHANGED <<sm_r_cnt, file, scnt, wvars, rvars, lapped>>

-------------------------------------------------------------------------------
Writer   == WriteHead \/ WriteBody \/ Publish
Consumer == ReadStart \/ CopyHead \/ CopyBody \/ FallBack \/ FileRead \/ Work
Sync     == SyncStart \/ SyncCopy \/ SyncWrite \/ SyncCount

Next == Writer \/ Consumer \/ Sync \/ WriterDies \/ ConsumerDies \/ SyncDies

Spec == Init /\ [][Next]_vars

\* A write that has begun goes on; the consumer and the thread keep polling.
FairSpec ==
  /\ Spec
  /\ WF_vars(WriteBody \/ Publish)
  /\ WF_vars(Consumer)
  /\ WF_vars(Sync)

-------------------------------------------------------------------------------
\* Properties

\* The records a consumer works on are the ones of its cursor, in order.
SafetyNet ==
  rpc = "work" => \A i \in 1..Len(inbox) : inbox[i] = <<r_cnt + i, r_cnt + i>>

\* They are, from the ring or from the file, unless the writer came round
\* into the batch while it was being copied, or the file has been spoiled.
SafetyNetUnlessLapped == lapped \/ spoiled \/ SafetyNet

\* Row n of the backing file is record n: the fallback's offset relies on it.
FileIsQueue == \A n \in 1..Len(file) : file[n] = <<n, n>>

\* It is, and the file is never ahead of the writer, as long as the ring has
\* not overrun the sync thread and it has not died between write and count.
FileIsQueueUnlessSpoiled ==
  spoiled \/ (FileIsQueue /\ sm_r_cnt <= Len(file) /\ Len(file) <= w_cnt)

\* Every record written is sooner or later behind the consumer's cursor, also
\* when it has to wait for the sync thread to bring the file up.
EveryRecordPassed == \A n \in 1..MaxWrites : w_cnt >= n ~> r_cnt >= n

===============================================================================
