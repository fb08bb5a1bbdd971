# FEP in TLA+

Models, checks and proofs for the front-end processor (FEP) under `st01/`: the
C programs that relay orders, responses, executions and quotes between Korean
brokerage systems and the exchange (KRX). The FEP is a set of daemons that share
System V memory, semaphores, FIFO doorbells and files; nothing in it is a thread
of control that sees the whole. What can go wrong is therefore in the joints: two
processes on one ring, two counters of which a process has moved one when it dies,
a reader that takes no lock, a connection that breaks with messages in flight.
These joints are what the modules describe.

Paths below are relative to `st01/` unless they say otherwise.

## 1. The system

### 1.1 Components

| Component | State it keeps | Operations | Talks to | What makes it correct |
|---|---|---|---|---|
| **SEAM queues** `sub/seam_ring.c`, `sub/seam_queue.c` | per queue `w_seq`, `slot[]`, and for each reader `r_seq[]`, `dropped[]` | `SEAM_Init`, `SEAM_W`, `SEAM_R`, `SEAM_Peek`, `SEAM_Commit`, `SEAM_ORD_*` | written by the receivers and the injector, read by the order core | readers get published records in order, whole; every record passed over is counted |
| **SEAM consumers** `src/PO/po_1200_mp.c`, `src/PB/pb_1109_mp.c` | a private batch `Seam_Buf` | scan loop, work on the batch, restart | SEAM queue to file and DSHM queues | each record worked on at most once, in order |
| **Semaphores** `sub/semipc.c` | one System V semaphore per segment | `SEM_Creat_Excl`, `SEM_Creat`, `SEM_Lock`, `SEM_UnLock` | every writer and reader of SEAM, DSHM, logs | exclusion; deaths neither close it nor open it twice |
| **Order sender** `src/PB/pb_1100_ts.c`, `src/PC/pc_1100_ts.c` | `RD_CNT` of its queue, `INT_SEQ`, `LogOnFlag`, `OpenFlag` | LOGON, LINK, drain, poll, send, reject, heartbeat, restart | order queue in, exchange out (TCP) | the exchange takes the queue, once and in order |
| **Receiver** `src/PC/pc_1200_tr.c`, `src/PB/pb_1200_tr.c` | `INT_SEQ`, `INT_MEG_SEQ[]` per matching-engine group | LOGON, LINK, receive, stage, skip, end of day, time-out, restart | exchange in (TCP), SEAM out | every response and execution is staged once, in the order of its group |
| **Open orders** `src/PO/po_1290_mp.c` (MICHE), `src/PO/po_1490_mp.c` (LEDGER), `sub/miche_idx.c` | `F_MiChe[]` (`OrderNo`, `Jan_Cnt`), `MeChe_Cnt`, positions; a private hash cache | register, reduce, remove an order; book an execution | two SEAM queues in, limits and positions out | the open quantity is never shown too small; a change hits its own order's slot |
| **DSHM queues** `sub/shm_rw.c`, sync manager `src/PW/pw_1000_mp.c` | `w_cnt`, `r_cnt`, `sm_r_cnt`, ring, backing file | `DSHM_W*`, `DSHM_R`, `Dshm_Add_Count`, `Sync_Thread` | order pipeline, quote pipeline | a consumer gets every record, from the ring or from the file |
| **File queues** `sub/file_rw.c`, `sub/poll_file.c` | journal files, counts in shared memory | `F_W`, `F_R`, `Add_Count` | everything | row *n* is record *n* |
| **Cursor persistence** `sub/seq_save.c`, `sub/seq_throttle.c`, `sub/stat_save.c` | `_seq` and `_stat` files | throttled save, flush, reload | file queues | a start of the system never goes forward past unhandled records |
| **fd pool** `sub/fd_cache.c` | open descriptors by name | lookup, insert | file queues | a descriptor belongs to the file of its name |
| **Quote receiver pair** `src/PB/pb_7100_ur.c`, `src/PC/pc_7100_ur.c` | `ha_active`, heartbeat and receive counters, a TCP connection | heartbeat, failover, failback | peer (UDP), quote pipeline | somebody forwards soon after a failure, and not both for good |
| **Daemon** `src/PZ/pz_daemon.c`, `pz_daemon_proc.c`, `pz_fepp.c`, `pz_procchk.c` | `process_no`, status, start/stop marks of every process | start, restart, stop, supervise | all processes (signals, `DTART` doorbell) | one process of each program, whom the daemon can reach, whenever it should run |
| Limits and screen server `src/PO/po_9000_mp.c` | strategy slots, limits | start-of-day reset, requests | strategies | |
| Strategies and older module `src/PA` | | | | |
| Quote, master and batch forwarders `src/PB/pb_7*`, `pb_8*`, `src/PC/pc_7*`, `src/PF` | none that matters beyond the file queue's | forward | | |
| System servers `src/PW`, logs `sub/log_*.c`, wrappers `sub/tcpip_*.c`, configuration, conversions, encryption, tools `src/PX` | | | | |

`PROJECT.json` lists all of them with their status.

### 1.2 How they interact

```
 brokers' order processes --(file or DSHM queue)--> order sender --TCP--> KRX
                                                                           |
 KRX --TCP--> receiver --SEAM_W--> SEAM queues --SEAM_R--> DIST  --> brokers
                                                    +----> MICHE  --+
                                                    +----> LEDGER --+--> open orders,
                                                                         positions
 daemon: starts and restarts every process (DTART doorbell, signals)
 sync manager: appends every DSHM ring to its file, behind the writer
```

Everything that outlives a process is in shared memory or in files: the counters
(`INT_SEQ`, `RD_CNT`, `r_seq`), the rings, the tables. Everything that does not is
in the process: its flags, the batch it has copied, its hash cache, its socket. A
process that meets something it cannot handle calls `Exit_Process`
(`sub/setsigfatal.c`), which rings the daemon, and the daemon starts it again. So a
restart is normal operation here, and "die anywhere, come back, go on from shared
memory" is the behaviour most properties are about.

### 1.3 What is hard

* **Two assignments, one fact.** `INT_SEQ++` and `Add_Count` at a send, `RD_CNT` and
  `INT_SEQ` at a rewind, `INT_MEG_SEQ` before `SEAM_W` before `INT_SEQ` at a
  reception. A death in between leaves the two apart for the next incarnation.
* **Orders are sent blind.** There is no acknowledgement; what was lost is found out
  at the next LINK, whose answer rewinds both counters.
* **Rings overwrite.** A SEAM or DSHM writer never waits for a reader. Late readers
  must notice, count or fall back.
* **Lock-free readers and writers.** `DSHM_R` and `Sync_Thread` copy without the
  semaphore; MICHE and LEDGER change one table without one.
* **No order between queues.** An execution may be read before the response of its
  order.
* **Files shared by name.** Writers and readers of a journal file meet only in record
  locks; the cursors of all its readers are in one `_seq` file that each rewrites.
* **A table instead of process numbers.** The daemon knows a process by `process_no`
  alone, which the process writes at the end of its start and clears when it ends,
  and which the daemon clears too.
* **Two hosts and no common clock.** The quote receivers decide by counted heartbeats
  over UDP, in a loop that is also held up by `connect`.

The list, with the line each hazard bites at and the properties that would catch it,
is `PROJECT.json` "hazards". Lesser ones that are not in it: cursors saved as eight
digits (`sub/seq_save.c:118`), a descriptor that outlives the renaming of its file
(`sub/fd_cache.c:85`), the second read of `Jan_Cnt` that decides about `MeChe_Cnt`
(`src/PO/po_1490_mp.c:329`), numbers left in the slots by the start-of-day reset
(`src/PO/po_9000_mp.c:174`), a request written while a strategy slot is given away
(`src/PO/po_9000_mp.c:408`), a reject answered from the DSHM ring by a sender that
runs on the file queue (`src/PB/pb_1100_ts.c:745`), an order throttled with 0020 that
is not sent again until a later order breaks the sequence (`src/PB/pb_1100_ts.c:419`)
and the manager's end, whose loop never stops (`src/PW/pw_1000_mp.c:110`).

## 2. Modules

| Module | Models | Proved in |
|---|---|---|
| `SeamLog` | what a SEAM queue promises, without its ring (abstract specification) | |
| `SeamRing` | one SEAM queue, its takers and peekers; refines `SeamLog` | `OrderCore_proofs` |
| `SeamLock` | the inside of a SEAM call: semaphore, initialisation, ring, one effect a step | `SeamLock_proofs` |
| `OrderRelay` | what the sender promises about the orders the exchange takes (abstract specification) | |
| `OrderSession` | the order sender and its session with the exchange; refines `OrderRelay` | `OrderSession_proofs` |
| `TradeReceiver` | the receiver and its session with the exchange | `TradeReceiver_proofs` |
| `DshmQueue` | a DSHM ring, its consumer, its sync thread and the backing file | `DshmQueue_proofs` |
| `FileQueue` | a journal file, its writers and readers, record locks and saved cursors | `FileQueue_proofs` |
| `HaPair` | the primary and the secondary quote receiver | `HaPair_proofs` |
| `Daemon` | a daemon, the processes it starts and the table both use | `Daemon_proofs` |
| `MicheIdx` | the order-number cache as pure operators | |
| `MicheTable` | the open-order table with its two processes (extends `MicheIdx`) | `OrderCore_proofs` |
| `MCMicheTable` | the TLC instance of `MicheTable` | |

Definitions whose comment starts with "Faulty" are slips the specification does not
use. Put in the place of the right definition they must break the property named
with them under "mutants": they show that the property says something about the code.

### 2.1 SeamLog and SeamRing

`SeamRing` is one `SEAM_QUEUE`. A record is its number in the order of publication,
so that the content of a slot says which write filled it. Every call is one semaphore
section and so one step (`SeamLock` is the justification).

| Module | Code |
|---|---|
| `SEAM_W` | `seam_ring_write`: fill slot `w_seq % SLOTS`, then `w_seq++` |
| `Overrun`, `Oldest`, `Avail`, `Copy` | the overrun test, the jump, the batch size and the copy loop of `seam_ring_read` |
| `SEAM_R` | jump, count in `dropped`, copy, move the cursor past the copies |
| `SEAM_Peek`, `SEAM_Commit` | the same without moving past them, and the clamped move |
| `Analyze_Data`, `Analyze_Peeked` | the loop body of the consumer, one record at a time, outside the semaphore |
| `Restart` | the consumer dies with its private batch and comes back |

`inbox` is the process's `Seam_Buf`; `handled`, `gone`, `crashes` are history. The
tree's readers use `SEAM_R`; `SEAM_Peek`/`SEAM_Commit` are exported and exercised by
`test/unit/test_seam_queue.c`, so both kinds are in the model.

A call is one step also for a crash: a reader that dies between `dropped += ...` and
`r_seq = ...` (`sub/seam_ring.c:61-62`) counts the same records again at its next call.
That death is in `SeamLock` only; the exact equality of `TakerAccounting` is about the
other deaths, and `NoSilentJump` says that with it `dropped` is never too small.

`SeamLog` is an unbounded log with a cursor per reader. A cursor may pass over records
it has not given out only when they are more than `Capacity` old, and each one is
counted; a peeker's cursor otherwise moves only over records it was shown and has
finished (`finished`, `Advance`). `seam_ring.c` itself only keeps a commit below `w_seq`;
that a caller commits what it has worked on, as the test does, is in `SEAM_Commit` of the
model, and a commit of more is no step of the log. The refinement maps `Capacity <- Slots, produced <- w_seq, next <- r_seq,
lost <- dropped, given <- inbox, finished <- worked`: that slots are reused cannot be
seen from outside except through `dropped`.

### 2.2 SeamLock

Writers and readers attach (`SEAM_Init`), then call `SEAM_W` and `SEAM_R`. Each effect
on the semaphore or the segment is a step and a process can die after any of them.
`CreatExcl`/`SetVal`/`Creat` are `SEM_Creat_Excl` and `SEM_Creat` (semget, then SETVAL
in a second call); `SEM_Lock`/`SEM_UnLock` are semop with `SEM_UNDO`, `undo` being the
adjustment the kernel keeps; `NeedInit`/`ZeroInit`/`Mark`/`SkipInit` are the magic
check of `SEAM_Init`; `Fill`/`CopyIn`/`Publish` are the three effects of
`seam_ring_write`; `Account`/`Jump`/`Take` those of `seam_ring_read`. `Die` is the
kernel applying the adjustment and the daemon starting the process again.

`SeamRing` leaves out a writer that dies inside its section; `SeamLock` shows what
that costs (`ReadsWholeUnlessWidowed`).

### 2.3 OrderRelay and OrderSession

`WR_CNT` and `RD_CNT` are the queue's counts, `INT_SEQ` the last sequence used. `pc`
has a place for each moment between two assignments that belong together: `sent`
(written, `INT_SEQ` not counted), `counted` (`INT_SEQ` counted, `RD_CNT` not),
`rewound` (LINK moved `RD_CNT`, not `INT_SEQ`), `rejected` (a reject moved `INT_SEQ`,
not `RD_CNT`). The socket is `up`, `broken` (nobody has noticed) or `closed`; a break
loses any tail of what is in flight in either direction. `undefined` holds the orders of
the queue whose transaction code the sender does not know; each order that comes in may
be one, up to `MaxUndefined`.

| Module | Code (`src/PB/pb_1100_ts.c`) |
|---|---|
| `Device_Open_Logon`, `Link_Request`, `Link_Response`, `Link_Finish`, `Link_Lost` | `Device_Open` with TR_LOON and TR_LINK, the comparison of sequences, the guarded rewind, the exits |
| `Poll`, `Send`, `CountSeq`, `CountRead` | main loop and `Data_Event_Rtn` |
| `Undefined_Data` | `Make_Data_Block` on a transaction code it does not know: the process ends and no counter has moved |
| `Socket_Event_Rtn` (`Throttled`, `Rejected`, `Reject_Refuse`), `Reject_Finish` | `Socket_Event_Rtn` with `Write_Response_Data` |
| `Disconnect`, `Hangup`, `Crash`, `Restart` | failing reads and heartbeats, POLLHUP, death, daemon |
| `Krx_*`, `Market_Open` | the exchange, external |

`Answers` is what `DSHM_R` may return inside `Write_Response_Data`: the runs use the
file build (nothing read). With `Answers = {1}`, a reject moves `RD_CNT` by one
more than `INT_SEQ` and `SequenceIsPosition` fails.

`OrderRelay` has only the length of the queue, what the exchange has taken and the
places at which the sender has died between two counters. It says which order may be
taken: one that is in the queue, and normally the next one; after a death at
`rewound` or `counted` perhaps one that was taken before, but never past one that was
not; after one at `rejected` any. The refinement maps `queued <- WR_CNT,
taken <- consumed`: connections, LINK, rewinds and rejects cannot be seen from outside.

### 2.4 TradeReceiver

The exchange numbers every message twice, in the session header and per group.
`Receive` checks both and moves the group's number; the place is then `grouped`.
`Write_Data` stages the record with `If_Seq = INT_SEQ + 1` (place `staged`), and
`Count` moves `INT_SEQ`. `Skip` is a transaction that is not defined, `IF_End` the end
of the exchange's day. `LinkGroups` is what `Make_Send_Msg` reports: the group numbers
only when `INT_SEQ > 0`. `staged` is the SEAM queue behind the receiver as a log
(what `SeamLog.Produce` appends to).

### 2.5 DshmQueue

Record *n* goes to slot `(n - 1) % Max` with *n* in its header; a slot is a pair
<<header, body>> whose halves differ while it is half written. `WriteHead`,
`WriteBody`, `Publish` are `DSHM_W_Core`; `ReadStart`, `CopyHead`, `CopyBody`,
`FallBack`, `FileRead` are `DSHM_R(PS_R_1)`, which fixes its batch from counts read
once and compares only the first header; `Work` is the caller with `Dshm_Add_Count`;
`SyncStart`, `SyncCopy`, `SyncWrite`, `SyncCount` are `Sync_Thread`. The writer, the
consumer and the manager may die. `lapped` and `spoiled` are history: the writer came
round into a batch being copied; the file has missed or repeated a record.

### 2.6 MicheIdx and MicheTable

`MicheIdx` is `sub/miche_idx.c` as operators on a table of cells. `Put` keeps the
code's behaviour on a full window: the probe index has moved on once more, so the key
lands one place after the window, where `Get` does not look.

`MicheTable` has two processes at places `seek, count, jan, no, find, check, load,
store, zero, dec, book`; every load and store of a shared field is a step. Each takes a
record from its queue (`TakeRecord`: `SEAM_R` and the branch of `Analyze_Data`). MICHE
registers (`Seek`, `Count`, `SetJan`, `SetNo`: the quantity before the number, and the
cache), both reduce (`Find`, `Check`, `Load`, `Store`, `Zero`, `Dec`), LEDGER retries
an order that is not there yet (`Retry`, `GiveUp`) and books (`Che_Rtn`). `Bond`
selects the bond handler, whose expiry branch is dead code. The exchange accepts,
amends, cancels, expires and fills orders, and its responses and executions travel in
two queues with no order between them.

### 2.7 FileQueue

A row is two cells, so that a part of it can be in the file. `file` is the journal,
`w_cnt` and `r_cnt` the counts in shared memory, `saved` the cursors in the `_seq`
file. Readers of both kinds are there: a peeker (`PS_R_n`) counts a row with
`Add_Count` after it has handled it, a taker (`PS_R_n + 10`) counts its batch inside
`F_R`, before it gives its lock back.

| Module | Code |
|---|---|
| `F_W`, `F_W_Proc`, `Count`, `Ring` | `F_W` with the write lock from the end of the file on, `write()` of what is left or a part of it, `OFW += p_cnt`, a byte into every reader's FIFO |
| `WriterMayLock`, `ReaderMayLock`, `HoldsTo`, `Wanted` | which `fcntl` locks exclude each other; a reader locks as many rows as it asks for, written or not |
| `WriterStops` | `write()` fails, or the process dies, anywhere: the lock is gone, what is written stays, nothing is counted |
| `F_R`, `F_R_Fails`, `Takes`, `Handle`, `Add_Count` | reading by cursor, giving up at a part of a row, the loop of `po_9000_mp` |
| `Seq_Throttle_Check`, `Seq_Save`, `Store` | the throttle; the lock and the cursors of all readers; the write of the `_seq` file |
| `Poll_File`, `Poll_Timeout` | the FIFO, and the time-out without it |
| `ReaderStops`, `Load_Config` | a death or SIGTERM (no flush); a start of the system, which counts the rows of the file and takes the cursors from `_seq` |

`torn` and `skewed` are history: a part of a row, or rows nobody counted, have been
left in the file. `owes` holds the readers whose last count no save has followed. A
writer's lock begins where the file ends when it is granted; the kernel resolves
SEEK_END at the call already, which only keeps more readers out.

### 2.8 HaPair

The two receivers, in ticks of a second. One turn of a loop is what happens from one
return of `Recv_Data` to its next call, the quote and then the top of the loop:
`HA_Heartbeat_Send` or `HA_Check_Failover`, then `Manage`, which opens or closes the
TCP connection. `tcp` is "first" in the `Device_Open` before the loop, "opening" in
one of the loop, and a host in either does not turn. `Tick` passes only when every
running loop has turned in this second or is inside `connect`, as `select` with one
second and the alarm of `Connect2` make it. The socket of heartbeats is emptied before
each turn, and the secondary judges the last count it holds (`HeardPri`), so that the
order of its tests matters. Counters that are only compared stop at their bound;
`Lose`, `Stop` and `Start` are the faults; `calm` and `dark` are history.

### 2.9 Daemon

One sub-daemon and its table. `dpc` is where the daemon is: `poll`, `signal`
(`User_Signal`), `stop` and `restart`/`start` (`Stop_Process`, `Start_Process`, one
program of the table a step), `reload` (`Daemon_SHM_Process`, a new segment), `doze`
(the sleep of 5 seconds, after which `Sig_No` is cleared), `drain` (the doorbell). A
process goes "fork", "exec", "init" (past `Check_Exist`), "attach" (on the segment),
"work" (its number is in the table), "exit" (no number any more, still in `/proc`).
`old` holds the processes on a segment that has been removed, `term` those SIGTERM is
on its way to. `proc_no` is the number the daemon has sent SIGTERM to and has still to set
to 0: `Signal` reads `process_no` and sends, `Forget` stores the 0
(`src/PZ/pz_daemon_proc.c:854-868` and `744-759`), and between the two the process may
end and another one may write its own number. `poll_flag` says that nine time-outs have
been counted (`Timeout`); a byte in between does not put the count back, so a tenth
time-out (`TenthTimeout`) may follow a start at once. `Exit_Process` and `Gone` are the
two halves of an orderly end, `End_Routine` the handler of SIGTERM, `Stat_Save` an end out of hours, `Dies` an end
without a handler. `lost` and `missed` are history: a program whose process died
without a handler, and processes that were starting when the daemon read the number of
their program to stop it.

## 3. What the runs check

| Run | Instance | States | Shows |
|---|---|---|---|
| `seam_ring` | 2 slots, 1 taker, 1 peeker, batches of 1 or 2, 5 writes, 1 crash | 96 k | order, accounting, refinement of `SeamLog`, draining |
| `seam_lock` | 2 writers, 1 reader, 2 slots, 4 writes, 2 deaths (1 between semget and SETVAL) | 64 k | whole slots and reads, counted jumps, waiters served |
| `order_session` | 4 orders, 1 death, 2 broken connections, 2 rejected or throttled orders, 1 order of an unknown type | 277 k | what the exchange took is the queue in order; refinement of `OrderRelay`; every order in front of the unknown one gets there |
| `order_resume` (violation) | 3 orders, 1 reject | | finding 1 |
| `trade_receiver` | 2 groups of 2 messages, 1 death, 1 broken connection | 311 k | each group's log is staged, once and in order |
| `dshm_queue` | ring of 2, batches of 2, 4 writes, writer up to 3 ahead of the file, 1 death | 349 k | where each record comes from; what the file holds; every record gets through |
| `file_queue` | 2 writers, 1 peeker, 1 taker, 2 rows, batches of 2, a throttle of 1 second, 2 faults | 308 k | places and wholeness of rows; no row passed over; what `_seq` holds; every row handled |
| `miche_table` | 3 order numbers, 2 slots, quantity 2, 5 reports, 1 death, cache of 2 places and a window of 1 | 357 k | table, cache, no process stuck |
| `miche_race` (violation) | the same, derivatives, no death | | finding 2 |
| `ha_pair` | the code's times with two of the fives as threes, 1 fault | 327 k | no takeover from a live primary; a bounded outage; two forwarders end |
| `ha_connect` (violation) | the code's times, no fault | | finding 3 |
| `daemon` | 1 program, up to 3 processes of it, 3 events | 394 k | one process past `Check_Exist`; whom the table names; whom a stop reaches; restarts |

### 3.1 The properties, and what they rule out

`seam_ring`. `TakerOrder`: a taker works on a record at most once, in order, restarts
included. `TakerAccounting`: every record its cursor passed was worked on, is held, is
in `dropped`, or died with the process. `PeekerNoLoss`: peek and commit is
at-least-once. `ImplementsLog`, `Drained`.

`seam_lock`. `RingWhole`: the newest `Slots - 1` records are whole at any moment,
whoever has died; `NoSilentJump`: a reader that dies between counting an overrun and
moving its cursor counts the loss twice but never misses it;
`ReadsWholeUnlessWidowed`: a read hands out whole records, unless a writer has died
inside a write; `LockServed`: a death leaves the semaphore usable, except between
semget and SETVAL (`NeverOpened`), after which it is closed for ever.

`order_session`. `SequenceIsPosition`: the *i*-th sequence the exchange took is the
*i*-th order, so none twice and none missed, unless a death tore a pair of counters.
`NoOrderPassedOver`: even then the damage is a repeat and not a hole, unless the death
was in the middle of a reject. `ImplementsRelay` adds that the exchange takes nothing
that is not in the queue at that moment, which the other two do not see when a number
and an order appear together. `EveryOrderTaken`: every order in front of the first one of
an unknown type gets to the exchange; behind it none does, since each new process reads
the same record and ends on it.

`trade_receiver`. `StagedIsLog`: per group, exactly the passed responses and
executions, once, in order, except a message in hand at a death before `SEAM_W`.
`ExitNeedsDeath`: losses and silences alone never end the process on a sequence check.
`EveryTradeStaged`.

`dshm_queue`. `SafetyNetUnlessLapped`: the consumer works on the records of its
cursor, from the ring or from the file. `FileIsQueueUnlessSpoiled`: row *n* is record
*n* and the file is between `sm_r_cnt` and `w_cnt`. `EveryRecordPassed`.

`file_queue`. `RowNumbers`: the number in a row is its place, because the write lock
covers the numbering as well as the write; it fails only after a writer left rows it
did not count, or a part of one. `ReadsWhole`: whatever a writer is about, a reader
that has its lock finds whole rows. `NoRowPassedOver`: neither a death nor a start of
the system from an old `_seq` takes a peeker's cursor past a row it has not handled.
`SaveIsFresh`: although each reader writes the cursors of all, a save never puts back
an older one. `EveryRowHandled`: also a row whose writer died before it rang.

`ha_pair`. `LivePrimaryBeats`: a primary that tries to connect again and again still
sends heartbeats in time; three constants in three functions make it so.
`OutageBounded`: when the primary's process is gone, quotes flow again after at most
`HB_TIMEOUT + 1` seconds. `SplitBrainEnds`: once both run and the primary has quotes,
the secondary stands by for good.

`daemon`. `OneWorks`: however often a program is started before the first child has
written its number, one process at most gets past `Check_Exist`. `NumberIsWorker`: the
table names a process that works, and one that works is named, or SIGTERM is on its way
to it, or it was starting when the daemon read the number of its predecessor and stored 0
too late. The run reaches that case: without the exception it is violated.
`StopReachesAll`: after a stop, or a new segment, nothing works on but what had no
number yet at that moment. `Restarted`: what should run comes to work, also when the
successor met its predecessor in `/proc` and gave up.

`miche_table`. `NeverUnderstated`: in spite of unlocked updates, late executions,
deaths and lost messages the table never shows less than the exchange can still
execute, given what is on its way: errors go upwards only. `LookupExact`: the cache,
stale or evicted, never changes what a search finds. `QueuesDrained`: no process is
stuck, except MICHE behind a table full of orders that nobody reduces.

What the exceptions cost. An exception in a property is a failure the code does have, so
the property says nothing about that hazard beyond the fact that it is the only way to
fail. `torn` excuses a death between two counters in `SequenceIsPosition` and, for a death
inside a reject, in `NoOrderPassedOver`; `lapped` and `spoiled` excuse the late lap and
the sync thread's death and overrun in `DshmQueue`; `torn` and `skewed` excuse the partial
and the uncounted write in `FileQueue`; `missed` excuses the starting process in
`StopReachesAll` and in `NumberIsWorker`; `Stuck` excuses what is behind an order of an
unknown type. In `ha_pair` the one fault can be a lost heartbeat but not five of them:
split brain is reached there by stops and by deaths at the alarm, and five lost heartbeats
are covered for `OutageBounded` by its theorem only.

Some modules define further invariants that no run names, because the proofs establish
them for every instance (`Window`, `HeldRun`, `MutualExclusion`, `NeverZeroedAgain`, `TypeOK` of
`OrderSession`) or
because they are only parts of the ones above.

### 3.2 Bounds

Each bound is a constant in the module that declares it and a guard in one action.

* *Rings of two slots.* Five writes go round twice, so that a reader can be current,
  one behind, exactly `Slots` behind (the boundary of the overrun test) and more.
  The proofs cover every number of slots.
* *Four orders* let a reject of an early order meet later ones already sent, and a
  LINK rewind by more than one. *Two breaks* allow a LINK that is itself interrupted,
  *two rejects* a reject during the consequences of another. *One order of an unknown
  type* at any place of the queue is enough, since nothing gets past the first.
* *Two groups of two messages* let the two numberings diverge and include a first
  message of the day (`INT_SEQ` zero), a skipped one and an end of day.
* *One death* (two in `seam_lock`) at any step. Every property names the pair of
  assignments a death tears; a second death tears another pair of the same kinds.
* `MaxBehind` is the load on the sync thread: 3 with a ring of 2 lets the ring overrun
  it (`spoiled`), 2 does not.
* *Three order numbers in two slots* with five reports fill the table, reuse a slot
  and amend; all numbers hash to one place, so the window of the cache overflows.
  `MaxRetry` is 3 in the code and 0 here: the number of sleeps before giving up does
  not matter to untimed properties.

* *Two writers and two rows* are enough for a writer to number its row while another
  writes, for a batch of two to be torn in any place, and for a second write to follow
  what the first has left; *two faults* for a death and a start of the system after it.
* *The times of `HaPair`* are the code's; `HB_DATA_TIMEOUT` and `TCP_RETRY_INTVL` are 3
  instead of 5 to keep the run short. They only count turns and seconds; `HB_TIMEOUT`,
  `HB_STABLE_COUNT` and the alarm, which the properties are about, are as they are.
* *One program with three processes*: the old one that leaves, the one at work and one
  more that is started by mistake. Three events are a signal during a signal's
  handling with an end or a change of the hour around it, and the end of a process
  between the SIGTERM and the 0 with its successor starting; four pass as well
  (1.4 million states, three minutes). What passes between programs is only the daemon's
  walk through the table, and the proofs cover any number of programs and events.

`CHECK_DEADLOCK FALSE` stands where the inputs are bounded: once the records, orders
or messages are used up the system rightly rests (and in `seam_lock` everyone may wait
for a semaphore that was never opened). `FileQueue`, `HaPair` and `Daemon` never rest,
and are checked for deadlock.

### 3.3 Fairness

* Weak fairness of each process's own steps: the loops of the sender, the receiver,
  the consumers and the sync thread wait only in `poll` or in reads, all with
  timeouts, and look at the counts after every wake-up (as in `SEAM_POLL`).
* Weak fairness of `Restart`: `Exit_Process` rings the daemon, which starts the
  process again.
* Weak fairness of the exchange opening and answering; strong fairness of `Krx_Send`
  in `TradeReceiver`: the receiver disconnects after a silence, and the exchange must
  manage to send before that again and again, or nothing could be promised.
* Strong fairness of `SEM_Lock`: semop serves its waiters from a queue.
* `FileQueue`: weak fairness of each writer inside `F_W`, of each reader's loop
  (`poll` has a time-out) and of time. Nobody has to begin a write.
* `HaPair`: time passes, loops turn, and `connect` returns or is interrupted by its
  alarm. Nothing is asked of restarts.
* `Daemon`: the daemon's loop and the processes' own progress through start and end;
  the poll of the daemon comes back after ten time-outs at the latest (`Timeout` and
  `Poll` are the daemon's steps).
* Nothing is asked of writers, new orders, deaths, breaks, rejects, throttling, or of
  the exchange in `MicheTable`.

### 3.4 Assumptions about what is not in the repository

The exchange takes sequence *s* only after *s - 1* and closes the session on anything
else; it answers the order sender's LINK with the last sequence taken and the
receiver's with the number it carried; it has read the old connection before it
answers a new LOGON; it does not give an order number again on another day (the
start-of-day reset of `po_9000_mp` leaves the numbers in the slots). The kernel gives
a new semaphore the value 0, SETVAL clears the undo adjustments, and a death applies
them. A fork in `Daemon` takes a number that neither a living process nor the table
holds. No start of a process takes as long as nine of the daemon's time-outs of 3
seconds; the tenth may come at any moment of a start.
The seconds of the two hosts in `HaPair` begin together; their clocks are never
compared. These actions are marked external in the map.

## 4. Findings

Each is one violated run: the code on one side, a comment or a document of the
repository on the other.

1. `order_resume` (`src/PB/pb_1100_ts.c`): after a reject the counters stay at the
   rewound position, because the restore is commented out. The next order sent is one
   already sent; when the rejected order was the last, `mun` is -1 and one number is
   passed over. The comment says to handle the reject of 90 and go on with 101.
2. `miche_race` (`src/PO/po_1490_mp.c`): `Jan_Cnt` is loaded and stored by two
   processes without a lock; a lost update leaves an order open for ever.
   `NeverUnderstated` says it is always this direction.
3. `ha_connect` (`sub/tcpip_connect.c`): the alarm of `Connect2` has no handler
   anywhere in the build, so a TCP server that does not answer ends the receiver where
   the comments expect a failed attempt. It ends without `End_Routine`, its number
   stays in the table, and the daemon does not start it again (`lost` in `Daemon`).

Seen in the models, and kept as exceptions in properties or as guards of actions:

* A taker that dies after `SEAM_R` loses the records in its hands without any count
  (`gone`).
* A writer blanks its slot while the slot still counts as the oldest record's
  (`sub/seam_ring.c:32`); if it dies there, a reader exactly `SLOTS` behind takes the
  blank for that record, and `dropped` does not move (`halfDone`).
* A death between semget and SETVAL closes a semaphore for ever (`NeverOpened`).
* A death between `Device_Write` and `INT_SEQ++` makes every later LINK end the sender
  (`Refused`).
* A record with a transaction code that is not known ends the sender
  (`src/PB/pb_1100_ts.c:1005-1009`) before a counter moves. The process that comes after
  it reads the same record and ends too: the queue stands until somebody moves `RD_CNT`
  by hand (`Stuck`).
* A death on the receiver's first message of the day, after `INT_MEG_SEQ` and before
  `INT_SEQ`: LINK then leaves the groups out (`src/PC/pc_1200_tr.c:657`), the exchange
  sends the group from its start and the process ends on it, at every reconnection.
* `DSHM_R` copies without the semaphore (`sub/shm_rw.c:73`); a writer that comes round
  during the copy gives the consumer one record's header with another's body
  (`lapped`). A sync manager that dies between `write()` and the count repeats rows
  (`spoiled`).
* Bond orders that expire stay in the table: the removal at an automatic cancellation
  compares with the derivatives' transaction code inside the bond branch
  (`src/PO/po_1290_mp.c:682`).
* A part of a row left in a journal file ends every reader that gets there, at every
  start (`F_R_Fails`).
* The last cursor of an idle reader, throttled, is saved by nobody, and a stop by
  SIGTERM does not flush (`sub/setsigfatal.c:42`): rows are handled twice after a start
  of the system, though not passed over.
* Five quotes before the primary's first heartbeat are enough for a takeover; a
  takeover for want of quotes needs five in a row with a count of zero and so never
  comes in a slow market; the secondary may hand back to a primary without quotes when
  the third heartbeat comes between two of its own quotes; a heartbeat says nothing of
  the primary's TCP connection.
* A process rings before it has left `/proc`, so the successor started for the ring
  often gives up in `Check_Exist`; the start after ten time-outs is what brings the
  program back (`Restarted` needs `TenthTimeout`).
* The daemon stores the 0 some time after it has read the number and sent SIGTERM
  (`src/PZ/pz_daemon_proc.c:868` and `757`). If the process ends first and a child that
  was already starting has written its number, the 0 wipes it out: that process works
  under no number, no stop reaches it, and each child started for the 0 meets it in
  `/proc` and gives up.
* A child that has not got to the end of `Init_Proc` is passed over by `Stop_Process`
  (`missed`): it works although stopped or, after SIGUSR1, on the removed segment,
  where its name in `/proc` also keeps every successor from starting.
* SIGUSR2 that comes during the sleep or while SIGUSR1 is handled is forgotten
  (`src/PZ/pz_daemon_proc.c:618`).

## 5. What is proved

TLAPS proves the following for all values of the constants, under the modules' named
assumptions only (ring sizes and batch sizes are positive, takers and peekers, or
writers and readers, are disjoint, bounds are natural numbers). Three theorems of
`OrderSession` and one of `HaPair` need more of the constants and say so in their
statement; what and why is told there.

**`OrderCore_proofs`** has the proofs about what the processes of the order core work
on: the SEAM queues they read (`SeamRing`) and the table of open orders they keep
(`MicheTable`). It extends both, which is why the names of `MicheTable`'s specification
start with `Table`.

*SeamRing.* The inductive invariant is `IInv == TypeOK /\ Window /\
HeldRun`. `HeldRun` alone is not inductive: that a copy is a run needs to know what is
in the slots, which is `Window`; and `Window` is kept by a write only because two
numbers within a ring have different slots (`NearSlotsDiffer`, whose division is done
by hand because the arithmetic is not linear). From `IInv`:

* `TypeCorrect` (`TypeOK`) and `ReadsPublishedRun` (`HeldRun`);
* `PeekersLoseNone` (`PeekerNoLoss`): a count of the records below the cursor that were
  not worked on. `PeekerStep` says that a step moves the cursor only over records that
  were worked on or that `dropped` counts, and `MissingBound` turns that into the
  cardinalities;
* `TakersInOrder` (`TakerOrder`): what a taker handled lies before its batch, and the
  batch is a run (`TakerStep`);
* `TakersAccountForAll` (`TakerAccounting`): a sum that each step keeps, with the jump
  equal to `Overrun`;
* `RingImplementsLog` (`ImplementsLog`): `ReadIsRun` turns the copy into `SeamLog`'s
  `Run`, and `StepRefines` maps every action to one of `SeamLog` or to a stutter. A commit
  is an `Advance` by what the peeker has finished; by `HeldRun` that never goes past
  `w_seq`, so the clamp of `SEAM_Commit` does not cut.

*MicheTable*, for any table, cache, hash and window, and any number of orders, messages,
retries and deaths. The argument is about what is *due* of an order: what the exchange
has left of it, and what the messages on the way will still take from it (`Due`).

* A report moves a quantity from what is left to what is on the way, so that the
  exchange changes nothing in what is due except for an order it numbers
  (`ExchangeSends`); and no step of a process raises it (`DueFalls`). What is on the way
  is a sum over two queues, of which the proof needs only what `Append` and `Tail` do to
  it (`TotalAppend`, `TotalTail`). These need induction over the length of a queue, which
  comes from the well-ordering of finite sets by inclusion (`Least`, `Induction`).
* `KindInv`, `FreshInv`, `OnceInv` say what waits to be registered: a numbered order that
  is not in the table, in one message only, with at least what is due of it. Hence
  `HolderInv`: a slot holds an order that has been registered, and no order has two.
* `EnoughInv`, which is `NeverUnderstated`, is not inductive. Two facts about the
  moments between a load and a store make it so. `FreeInv`: of the order whose number is
  still in the slot MICHE has chosen nothing is due, so nobody reduces there, and the
  slot shows the new quantity before it shows the new number. `ReduceInv`: a process that
  reduces has found its order's slot and has read at least what is due, and since what is
  due only falls, that stays true however long it waits before its store. The store
  takes off no more than its own message, which is due no more afterwards. What the other
  process stored in between is lost, which can only leave the quantity too large: finding
  2 of section 4 is all that the missing lock can do to the quantity.
* `SoldInv`: what is booked, what LEDGER has in hand or in its queue and what the
  exchange has left never exceed the quantity ordered.

From it `TableTypes` (`TableTypeOK`, with the bound on what is booked), `TableEnough`
(`NeverUnderstated`) and `TableLookup` (`LookupExact`): a cache entry is believed only
after a look at its slot, and by `HolderInv` the slot that holds an order is the only one
the scan can find.

**`SeamLock_proofs`**. Three invariants, each under the one before. `LockInv` is about
the semaphore: an undo adjustment is 1 exactly inside the section, the value and the
holders add up to at most one, at most one process is between semget and SETVAL and
then nobody is inside. It gives `Exclusive` (`MutualExclusion`). `RingInv` is about the
segment: whoever is past the magic check finds it initialised, what a process inside
has half done, and `RingWhole` with `NoSilentJump`. It gives `NewestWhole`,
`JumpsAreCounted` and `ZeroedOnce` (`NeverZeroedAgain`, an action property: a step that
zeroes has no magic, and without magic `w_seq` is 0). `MutualExclusion` is needed in
its induction: two writers at `copy` would publish over each other. `ReadInv` is about
reads: while no writer has died inside a write, the oldest slot is whole too unless a
writer is inside, and what a reader has copied so far is the run from its cursor on. It
gives `ReadsPublished` (`ReadsWholeUnlessWidowed`); `TypeCorrect` (`TypeOK`) collects
the types of the three.

**`Daemon_proofs`**, for any number of programs, processes and events. The invariant is
`IInv == TypeOK /\ OneWorks /\ NumberInv /\ WorkerInv /\ WindowInv /\ ToldInv /\
SweepInv`.
`NumberIsWorker` has two halves: what the table names (`NumberInv`) and who can be
reached (`WorkerInv`, with the processes of `missed`); the second needs `OneWorks`, or a
second process could overwrite the number of the first, and, for the 0 that the daemon
stores late, `SweepInv`. `StopReachesAll` speaks of processes that work, but one that
is only starting when the daemon passes must be in `missed` before it works: `ToldInv`
says it for all that live. After a signal the daemon goes through the table while
processes go on starting, and `SweepInv` says how far it has come: whoever lives of a
program it has passed, or of the one whose number is still to be set to 0 (`WindowInv` says
where that can be), has been told or was starting at the SIGTERM, so that the 0 can only
hide a process of `missed`. `Reload`, which puts
everything on the removed segment at once, is right only because the walk was complete.
From it: `TypeCorrect` (`TypeOK`), `NeverTwo` (`OneWorks`), `NumberNamesWorker`
(`NumberIsWorker`) and `StopReaches` (`StopReachesAll`).

**`FileQueue_proofs`**, for any number of writers and readers, any batch sizes, any
throttle and any number of rows and faults. The invariant is `IInv == Types /\ FileInv
/\ CursorInv /\ FreshInv`.

* `FileInv` is about the writers. One is inside at a time; what it has written and has
  still to write are its rows from its edge on (`RunInv`), which is what makes a partial
  write harmless; up to the edge, or to the end when nobody is inside, the file is whole
  rows (`WholeInv`) whose numbers are their places (`NumberedInv`), unless `torn` or
  `skewed` say otherwise. Only whole rows in front of the edge are claimed, so a writer
  that dies half-way breaks nothing but sets `torn`. It gives `RowsNumbered`
  (`RowNumbers`) and, with the lock that keeps a reader's rows below the edge,
  `ReadersFindRows` (`ReadsWhole`).
* `CursorInv` is about the readers: the rows in hand continue the cursor, all below it
  are handled, and no saved cursor, nor one a reader is about to store, is ahead of the
  counted one. The last makes `Load_Config`, which takes the saved ones back, keep it.
  It gives `NoneSkipped` (`NoRowPassedOver`).
* `FreshInv`: one reader at a time is at its store, and what it is about to store is
  every cursor but the owed ones. It gives `SavesFresh` (`SaveIsFresh`).

`TypeCorrect` (`TypeOK`) collects the types and the bounds the first two give.

**`OrderSession_proofs`**, for any number of orders, deaths, broken connections and
rejects. The argument is about one number, the *lag*: the sequence an order gets minus
its position in the queue. `Lag` is what the sender would give now, found from
`INT_SEQ - RD_CNT` and the place between two assignments where it stands; it is kept
by every step but a death: one at `counted` or `rewound` makes it larger, one at
`rejected` smaller, and one at `sent` leaves it alone.

* `LagInv`: unless a process has died at `rejected`, the lags on the channel to the exchange never fall
  from one order to the next and lie between that of the last order taken and `Lag`.
  That they lie in between is not enough, since a tail of the channel can be lost and a
  rewound sender appends again. The exchange takes sequences without a gap, so an order
  whose lag is at least the last one's cannot skip a position: `NoHole`
  (`NoOrderPassedOver`).
* `InStepInv`: unless a process has died at any of the three, `Lag` is 0, and then all
  lags are: `SequencesArePositions` (`SequenceIsPosition`).

* `SessionImplementsRelay` (`ImplementsRelay`): step by step, every step but `F_W`,
  `Crash` and `Krx_Take` leaves the mapped variables alone (`Visible`). For `Krx_Take`
  the two invariants above, in the new state, give the guard of `Take`, and `RelayInv`
  gives that the order is in the queue: the sender's cursor is never negative
  (`CursorInv`, which needs the guard of the LINK rewind and that of the reject) and
  what is on the channel is in the queue (`FromQueue`).

All three are stated for `1 \notin Answers`, the file build, in which a reject finds nothing
to answer and moves both counters alike; with the DSHM build they are false (2.3).
`TypeCorrect` (`TypeOK`) needs no such hypothesis.

**`TradeReceiver_proofs`**, for any set of groups, logs of any length and any number of
deaths, silences and broken connections. The invariant is `IInv == Types /\ LineInv /\
StagedInv /\ StreamInv`.

* `LineInv`: what can be on a connection in each of its phases. A request is alone on it
  and still says what the counters say; after the answer there are only messages of the
  groups, each with the kind its group's log has at its number.
* `StagedInv`: the message in hand is the one its group has just counted, nothing that
  was lost is ahead of its group's counter, and `StagedIsLog`. It needs
  `LineInv`, by which a message that is received is what its group's log has at its
  number, whatever connection it came on. It gives `TradesOnceInOrder`.
* `StreamInv`: while no process has died between the two counters, the messages under
  way continue both numberings and the exchange goes on where they end, on every
  connection and after every LINK; hence no check of the numbers can fail:
  `OnlyDeathEndsSequence` (`ExitNeedsDeath`, an action property).

**`DshmQueue_proofs`**, for any ring, batches and load. `RingInv` is the fact the
code's single comparison rests on: a header that still shows its record's number
vouches for every later record, because the writer overwrites the oldest first.
`ReadInv` carries it through a batch that is copied header and body apart while the
writer goes on (unless it comes round into the batch, `lapped`); `SyncInv` says that
the records the sync thread has not got are in the ring, those it has are in its
buffer or the file, unless `spoiled`. The fallback of the consumer joins the two: what
is not in the ring any more is in the file. From it `TypeCorrect` (`TypeOK`),
`SafetyNetHolds` (`SafetyNetUnlessLapped`) and `FileIsRight`
(`FileIsQueueUnlessSpoiled`).

**`HaPair_proofs`**, for any intervals and any number of faults.

* `OutageIsBounded` (`OutageBounded`), from `OutageInv`: a secondary that stands by is
  never inside `connect`, so it turns in every second, and a turn that leaves it
  standing by has heard of the primary within `HB_TIMEOUT`. Once the last heartbeat of
  the dead primary is read, which the first turn of the outage does, the silence grows
  with the outage; the one tick before it is the second in `HB_TIMEOUT + 1`.
* `LivePrimaryIsHeard` (`LivePrimaryBeats`, an action property), from `BeatInv`: while
  nothing is lost and nothing has stopped, the silence in which the secondary has read
  nothing is bounded by where the primary is (`SilenceByPhase`): inside `connect` by
  the interval and the time it is in, after a turn by the interval and the longest
  connect, and before its turn one more. The theorem assumes `Margin`: heartbeat
  interval and limit of `connect` together are below `HB_TIMEOUT`, and two attempts are
  at least a connect apart. The code has 1 + 2 < 5 and 2 <= 5
  (`src/PB/pb_7100_ur.c:96-99` and `203`); with a limit of 4 seconds the theorem would
  be false. `OutageIsBounded` needs no margin.

**Only model-checked.** Every invariant and every action property of the passing runs is
a theorem, the first three of `OrderSession` in the file build. Out of the prover's
reach is every liveness property (`Drained`, `LockServed`, `EveryOrderTaken`,
`EveryTradeStaged`, `EveryRecordPassed`, `EveryRowHandled`, `QueuesDrained`,
`SplitBrainEnds`, `Restarted`) and anything with ENABLED. The properties of the runs that
expect a violation are false. The library's induction takes an operator as its
parameter, which the provers do not instantiate; `Least` and `Induction` above do without
one for a property that is a set of numbers, which was enough for the sums of
`MicheTable`.

## 6. What is not modelled

* *Whole components*: the fd pool, whose table is sequential and has a unit test. Logs,
  wrappers,
  conversions, encryption, configuration, forwarders of quotes, strategies and tools
  keep no state the order path depends on, or are pure I/O.
* *SeamRing, SeamLock*: a SEM_Lock that fails (EINTR, EIDRM): its return value is never
  looked at. It needs the signals each process installs without SA_RESTART.
* *OrderSession*: an encryption that fails (`src/PB/pb_1100_ts.c:1045-1052`), the same exit
  at the same place but not bound to one record, which `Crash` covers; Log_Out and the
  orderly stop, Line_Change, handshake, encryption, the
  other message types a LINK wait may meet.
* *TradeReceiver*: Line_Change, decryption, the drop-copy builds, what NET_STA does to
  the order sender (composition planned).
* *DshmQueue*: `PS_R_2`/`PS_R_3`, which move the cursor inside `DSHM_R`, the batch
  writers, doorbells, the newline that ends a copied record early, an append that a
  concurrent `read` sees half of, the 32-bit product in the fallback's offset.
* *FileQueue*: `F_R` with an explicit position (`F_R_SEQ`), index files of variable
  records, failures of `open` and `lseek`, a FIFO that cannot be opened, the renaming of
  a file by the compaction daemon, the saved cursors of DSHM segments, the numbers in the
  `_stat` file.
* *HaPair*: the content of quotes and answers, the stand-alone role, two-byte heartbeats
  of an older version, a failed `HA_Init`, re-opening the multicast socket, the day's end.
* *Daemon*: the super daemon (`pz_fepp`) with its own signals, the daemon's own hours and
  day's end, a failed fork, `pz_procchk`, which only displays.
* *MicheTable*: limits other than the booked quantity, rejects, the LP and spread
  branches, other accounts and markets, the displayed `MeChe_Cnt` (kept as state, with
  no property).

## 7. Plan

Done, in this order: `SeamLog`, `SeamRing` with its proofs (every other component sits
behind or in front of a SEAM queue); `OrderSession` (the reason the system exists);
`TradeReceiver`; `SeamLock` with its proofs (the atomicity the first module assumes);
`DshmQueue`; `MicheIdx` and `MicheTable`; `HaPair`; `FileQueue` and `Daemon` with their
proofs; the remaining safety properties of `SeamRing` and `SeamLock`; the proofs of
`OrderSession`, `TradeReceiver`, `DshmQueue` and `HaPair`; `OrderRelay` and the proof
that `OrderSession` refines it; the proofs of `MicheTable`.

Next:

1. The composition of `OrderSession` with `TradeReceiver` through NET_STA at the end of
   the day.
2. A lemma on the 32-bit offset of the DSHM fallback.
3. A refinement from `SeamLock` to `SeamLog` with the effects of a call taking place at
   its `SEM_UnLock` or at the death inside it, for runs in which no writer dies half way:
   the atomicity `SeamRing` assumes as one theorem, where there are now three
   (`Exclusive`, `NewestWhole`, `ReadsPublished`).

## 8. Running it

    tlc -config SeamRing.cfg SeamRing.tla      # and likewise for each run of PROJECT.json
    tlapm OrderCore_proofs.tla                 # and likewise each module *_proofs

Every run ends within a few minutes on two cores; the violated ones stop at their
counterexample, which is the scenario of the finding.
