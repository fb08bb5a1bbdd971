----------------------------- MODULE Daemon_proofs -----------------------------
(***************************************************************************)
(* Proofs about Daemon, for every number of programs, of processes of one  *)
(* program at a time and of events.                                        *)
(*                                                                         *)
(* The inductive invariant says of each place of the table what the        *)
(* process it names is doing (NumberInv), of each process that works who   *)
(* can still reach it (WorkerInv), and of each process that lives through  *)
(* a stop that it has been told or was not there to be told: after the     *)
(* stop (ToldInv), and while the daemon is still going through the table   *)
(* or has a number still to forget (SweepInv).  The last is what makes the *)
(* late 0 harmless but for a process that was starting: it wipes the       *)
(* number of nobody else (WindowInv, SweepInv).                            *)
(***************************************************************************)
EXTENDS Daemon, TLAPS

-------------------------------------------------------------------------------
\* The inductive invariant

Alive == Starting \cup {"work"}

NumberInv ==
  \A p \in Progs, i \in Ids : process_no[p] = i =>
    \/ st[p][i] = "work" /\ <<p, i>> \notin old
    \/ st[p][i] = "none" /\ p \in lost

WorkerInv ==
  \A p \in Progs, i \in Ids :
    st[p][i] = "work" /\ <<p, i>> \notin old /\ process_no[p] # i
      => <<p, i>> \in term \cup missed

ToldInv ==
  \A p \in Progs, i \in Ids :
    /\ st[p][i] \in Alive
    /\ <<p, i>> \in old \/ (process_status[p] # 1 /\ start_status[p] # JOB_END)
    => <<p, i>> \in term \cup missed

SweepInv ==
  \A p \in Progs, i \in Ids :
    /\ st[p][i] \in Alive
    /\ (dpc = "stop" /\ p < pk) \/ dpc = "reload" \/ (p = pk /\ proc_no # 0)
    => <<p, i>> \in term \cup missed

\* A number is still to be forgotten only where programs are stopped.
WindowInv == proc_no # 0 => dpc \in {"stop", "start", "restart"}

IInv ==
  /\ TypeOK /\ OneWorks /\ NumberInv /\ WorkerInv
  /\ ToldInv /\ SweepInv /\ WindowInv

-------------------------------------------------------------------------------
\* Steps of the daemon

USE DEF JOB_END

LEMMA Numbers == 1 \in Progs /\ Progs \subseteq Nat \ {0} /\ Ids \subseteq Nat \ {0}
BY DaemonAssumption DEF Ids

\* A process that moves leaves every other where it is.
LEMMA MovedOne ==
  ASSUME NEW p \in Progs, NEW i \in Ids, NEW to,
         st \in [Progs -> [Ids -> {"none", "fork"} \cup Named]],
         to \in {"none", "fork"} \cup Named, st' = [st EXCEPT ![p][i] = to]
  PROVE  /\ st' \in [Progs -> [Ids -> {"none", "fork"} \cup Named]]
         /\ st'[p][i] = to
         /\ \A q \in Progs, j \in Ids :
              q # p \/ j # i => st'[q][j] = st[q][j]
BY DEF Named, Past

LEMMA InitInv == Init => IInv
<1> SUFFICES ASSUME Init PROVE IInv
  OBVIOUS
<1>1. TypeOK
  <2>1. st \in [Progs -> [Ids -> {"none", "fork"} \cup Named]]
    BY DEF Init
  <2>2. events \in 0..MaxEvents
    BY DaemonAssumption DEF Init
  <2>3. QED
    BY <2>1, <2>2, Numbers DEF Init, TypeOK
<1>2. \A p \in Progs, i \in Ids : st[p][i] = "none" /\ process_no[p] # i
  BY Numbers DEF Init
<1>3. OneWorks
  BY <1>2 DEF OneWorks, Past
<1>4. NumberInv /\ WorkerInv /\ ToldInv /\ SweepInv /\ WindowInv
  BY <1>2 DEF NumberInv, WorkerInv, ToldInv, SweepInv, WindowInv, Alive, Starting,
              Init
<1>5. QED
  BY <1>1, <1>3, <1>4 DEF IInv

\* Steps after which the table and the processes are as they were.
LEMMA TableKept ==
  ASSUME IInv, TypeOK', UNCHANGED <<table, procs>>, lost' = lost, missed' = missed,
         proc_no' = proc_no,
         \/ dpc' = dpc /\ pk' = pk
         \/ proc_no = 0 /\ dpc' \notin {"stop", "reload"}
         \/ proc_no = 0 /\ dpc' = "stop" /\ pk' = 1
  PROVE  IInv'
<1>1. OneWorks' /\ NumberInv' /\ WorkerInv' /\ ToldInv'
  BY DEF IInv, OneWorks, NumberInv, WorkerInv, ToldInv, table, procs
<1>2. SweepInv'
  <2>1. \A p \in Progs : ~(p < 1)
    BY Numbers
  <2>2. CASE proc_no = 0 /\ dpc' \notin {"stop", "reload"}
    BY <2>2 DEF SweepInv
  <2>3. CASE proc_no = 0 /\ dpc' = "stop" /\ pk' = 1
    BY <2>1, <2>3 DEF SweepInv
  <2>4. CASE dpc' = dpc /\ pk' = pk
    BY <2>4 DEF IInv, SweepInv, table, procs
  <2>5. QED
    BY <2>2, <2>3, <2>4
<1>3. WindowInv'
  BY DEF IInv, WindowInv
<1>4. QED
  BY <1>1, <1>2, <1>3 DEF IInv

LEMMA TimeoutKeeps == IInv /\ Timeout => IInv'
<1> SUFFICES ASSUME IInv, Timeout PROVE IInv'
  OBVIOUS
<1>1. TypeOK'
  BY DEF IInv, TypeOK, Timeout, table, procs
<1>2. QED
  BY <1>1, TableKept DEF Timeout

LEMMA PollKeeps == IInv /\ Poll => IInv'
<1> SUFFICES ASSUME IInv, Poll PROVE IInv'
  OBVIOUS
<1>1. TypeOK'
  BY DEF IInv, TypeOK, Poll, Wakes, TenthTimeout, table, procs
<1>2. QED
  BY <1>1, TableKept DEF IInv, WindowInv, Poll

LEMMA User_SignalKeeps == IInv /\ User_Signal => IInv'
<1> SUFFICES ASSUME IInv, User_Signal PROVE IInv'
  OBVIOUS
<1>1. TypeOK'
  BY Numbers DEF IInv, TypeOK, User_Signal, Turn, table, procs
<1>2. dpc' = "stop" \/ dpc' \notin {"stop", "reload"}
  BY DEF User_Signal, Turn
<1>3. QED
  BY <1>1, <1>2, TableKept DEF IInv, WindowInv, User_Signal

LEMMA DozeKeeps == IInv /\ Doze => IInv'
<1> SUFFICES ASSUME IInv, Doze PROVE IInv'
  OBVIOUS
<1>1. TypeOK'
  BY DEF IInv, TypeOK, Doze, Turn, table, procs
<1>2. dpc' \notin {"stop", "reload"}
  BY DEF Doze, Turn
<1>3. QED
  BY <1>1, <1>2, TableKept DEF IInv, WindowInv, Doze

LEMMA DrainKeeps == IInv /\ Drain => IInv'
<1> SUFFICES ASSUME IInv, Drain PROVE IInv'
  OBVIOUS
<1>1. TypeOK'
  BY Numbers DEF IInv, TypeOK, Drain, table, procs
<1>2. QED
  BY <1>1, TableKept DEF IInv, WindowInv, Drain

LEMMA Sig_HandlerKeeps ==
  ASSUME NEW s \in {"usr1", "usr2"}, IInv, Sig_Handler(s) PROVE IInv'
<1>1. TypeOK'
  BY DaemonAssumption, Numbers DEF IInv, TypeOK, Sig_Handler, Event, table, procs, daemon
<1>2. QED
  BY <1>1, TableKept DEF Sig_Handler, daemon

LEMMA HourKeeps ==
  ASSUME NEW p \in Progs, IInv, Hour(p) PROVE IInv'
<1>1. TypeOK'
  BY DaemonAssumption, Numbers DEF IInv, TypeOK, Hour, Event, table, procs, daemon
<1>2. QED
  BY <1>1, TableKept DEF Hour, daemon

\* Whoever of a program is alive when it is stopped has been told, or was
\* starting and is missed.
LEMMA Signalled ==
  ASSUME IInv, NEW p \in Progs, Signal(p), Misses(p)
  PROVE  /\ proc_no' \in Ids \cup {0}
         /\ term' \subseteq Progs \X Ids /\ term \subseteq term'
         /\ \A x \in term' : st[x[1]][x[2]] \in {"work", "exit"}
         /\ missed' \subseteq Progs \X Ids /\ missed \subseteq missed'
         /\ \A i \in Ids : st[p][i] \in Alive => <<p, i>> \in term' \cup missed'
<1>1. /\ process_no \in [Progs -> Ids \cup {0}]
      /\ term \subseteq Progs \X Ids
      /\ \A x \in term : st[x[1]][x[2]] \in {"work", "exit"}
  BY DEF IInv, TypeOK
<1>2. proc_no' \in Ids \cup {0}
  BY <1>1 DEF Signal
<1>3. /\ missed' \subseteq Progs \X Ids /\ missed \subseteq missed'
      /\ \A i \in Ids : st[p][i] \in Starting => <<p, i>> \in missed'
  BY DEF IInv, TypeOK, Misses
<1>4. /\ term' \subseteq Progs \X Ids /\ term \subseteq term'
      /\ \A x \in term' : st[x[1]][x[2]] \in {"work", "exit"}
      /\ process_no[p] # 0 /\ st[p][process_no[p]] # "none"
           => <<p, process_no[p]>> \in term'
  <2>1. CASE process_no[p] # 0 /\ st[p][process_no[p]] # "none"
    <3>1. term' = term \cup {<<p, process_no[p]>>} /\ process_no[p] \in Ids
      BY <1>1, <2>1 DEF Signal
    <3>2. st[p][process_no[p]] = "work"
      BY <3>1, <2>1 DEF IInv, NumberInv
    <3>3. QED
      BY <1>1, <3>1, <3>2
  <2>2. CASE ~(process_no[p] # 0 /\ st[p][process_no[p]] # "none")
    BY <1>1, <2>2 DEF Signal
  <2>3. QED
    BY <2>1, <2>2
<1>5. ASSUME NEW i \in Ids, st[p][i] = "work" PROVE <<p, i>> \in term' \cup missed'
  <2>1. CASE <<p, i>> \in old
    BY <1>3, <1>4, <1>5, <2>1 DEF IInv, ToldInv, Alive
  <2>2. CASE process_no[p] = i
    BY <1>4, <1>5, <2>2, Numbers
  <2>3. CASE <<p, i>> \notin old /\ process_no[p] # i
    BY <1>3, <1>4, <1>5, <2>3 DEF IInv, WorkerInv
  <2>4. QED
    BY <2>1, <2>2, <2>3
<1>6. QED
  BY <1>2, <1>3, <1>4, <1>5 DEF Alive

\* The daemon leaves a program when nothing is left to be forgotten of it.
LEMMA StepSweeps ==
  ASSUME IInv, dpc \in {"stop", "start", "restart"}, Step(After), proc_no' = 0,
         UNCHANGED st, term \subseteq term', missed \subseteq missed',
         dpc = "stop" => \A i \in Ids :
           st[pk][i] \in Alive => <<pk, i>> \in term' \cup missed'
  PROVE  /\ pk' \in Progs
         /\ dpc' \in {"stop", "reload", "doze", "poll", "start", "restart"}
         /\ SweepInv' /\ WindowInv'
<1>1. pk \in Progs
  BY DEF IInv, TypeOK
<1>2. \/ pk' = pk + 1 /\ pk' \in Progs /\ dpc' = dpc
      \/ pk' = 1 /\ dpc' = After /\ pk + 1 \notin Progs
  BY <1>1 DEF Step
<1>3. /\ pk' \in Progs
      /\ dpc' \in {"stop", "reload", "doze", "poll", "start", "restart"}
  BY <1>2, Numbers DEF After
<1>4. CASE dpc # "stop"
  <2>1. dpc' \notin {"stop", "reload"}
    BY <1>2, <1>4 DEF After
  <2>2. QED
    BY <1>3, <2>1 DEF SweepInv, WindowInv
<1>5. CASE dpc = "stop"
  <2>1. \A q \in Progs, i \in Ids : q < pk \/ q = pk =>
          (st[q][i] \in Alive => <<q, i>> \in term' \cup missed')
    BY <1>5 DEF IInv, SweepInv
  <2>2. \A q \in Progs : (dpc' = "stop" /\ q < pk') \/ dpc' = "reload"
          => q < pk \/ q = pk
    <3>1. CASE pk' = pk + 1 /\ pk' \in Progs /\ dpc' = dpc
      BY <1>1, <1>5, <3>1, Numbers
    <3>2. CASE pk' = 1 /\ dpc' = After /\ pk + 1 \notin Progs
      BY <1>1, <3>2, DaemonAssumption
    <3>3. QED
      BY <1>2, <3>1, <3>2
  <2>3. QED
    BY <1>3, <2>1, <2>2 DEF SweepInv, WindowInv
<1>6. QED
  BY <1>3, <1>4, <1>5

\* Stopping at one program, whatever becomes of its status.
LEMMA StopOneKeeps ==
  ASSUME IInv, dpc \in {"stop", "start", "restart"}, StopOne(pk),
         process_status' \in [Progs -> {1, 2, 4}],
         \A q \in Progs : q # pk => process_status'[q] = process_status[q],
         UNCHANGED <<start_status, process_no, in_hours, st, old, bell, Sig_No,
                     woken, poll_flag, events, lost>>
  PROVE  IInv'
<1>1. pk \in Progs /\ Signal(pk) /\ Misses(pk)
  BY DEF IInv, TypeOK, StopOne
<1>2. /\ proc_no' \in Ids \cup {0}
      /\ term' \subseteq Progs \X Ids /\ term \subseteq term'
      /\ \A x \in term' : st[x[1]][x[2]] \in {"work", "exit"}
      /\ missed' \subseteq Progs \X Ids /\ missed \subseteq missed'
      /\ \A i \in Ids : st[pk][i] \in Alive => <<pk, i>> \in term' \cup missed'
  BY <1>1, Signalled
<1>3. OneWorks' /\ NumberInv'
  BY DEF IInv, OneWorks, NumberInv
<1>4. WorkerInv'
  BY <1>2 DEF IInv, WorkerInv
<1>5. ToldInv'
  BY <1>2 DEF IInv, ToldInv
<1>6. /\ pk' \in Progs
      /\ dpc' \in {"stop", "reload", "doze", "poll", "start", "restart"}
      /\ SweepInv' /\ WindowInv'
  <2>1. CASE process_no[pk] # 0
    <3>1. UNCHANGED <<dpc, pk>>
      BY <2>1 DEF StopOne
    <3>2. SweepInv'
      BY <1>2, <3>1 DEF IInv, SweepInv
    <3>3. QED
      BY <1>1, <3>1, <3>2 DEF WindowInv
  <2>2. CASE process_no[pk] = 0
    <3>1. Step(After) /\ proc_no' = 0
      BY <1>1, <2>2 DEF StopOne, Signal
    <3>2. QED
      BY <1>2, <3>1, StepSweeps
  <2>3. QED
    BY <2>1, <2>2
<1>7. TypeOK'
  BY <1>2, <1>6 DEF IInv, TypeOK
<1>8. QED
  BY <1>3, <1>4, <1>5, <1>6, <1>7 DEF IInv

LEMMA Stop_ProcessKeeps == IInv /\ Stop_Process => IInv'
<1> SUFFICES ASSUME IInv, Stop_Process PROVE IInv'
  OBVIOUS
<1>1. /\ process_status' \in [Progs -> {1, 2, 4}]
      /\ \A q \in Progs : q # pk => process_status'[q] = process_status[q]
  BY DEF IInv, TypeOK, Stop_Process
<1>2. QED
  BY <1>1, StopOneKeeps DEF Stop_Process

\* The late 0 wipes only a number whose process has been told or is missed.
LEMMA ForgetKeeps == IInv /\ Forget => IInv'
<1> SUFFICES ASSUME IInv, Forget PROVE IInv'
  OBVIOUS
<1>1. /\ pk \in Progs /\ proc_no # 0 /\ proc_no' = 0 /\ Step(After)
      /\ dpc \in {"stop", "start", "restart"}
      /\ UNCHANGED <<process_status, start_status, st, old, term, missed>>
  BY DEF IInv, TypeOK, WindowInv, Forget, procs
<1>2. /\ process_no' \in [Progs -> Ids \cup {0}] /\ process_no'[pk] = 0
      /\ lost' \subseteq Progs
      /\ \A q \in Progs : q # pk =>
           process_no'[q] = process_no[q] /\ (q \in lost' <=> q \in lost)
  BY DEF IInv, TypeOK, Forget
<1>3. \A i \in Ids : st[pk][i] \in Alive => <<pk, i>> \in term' \cup missed'
  BY <1>1 DEF IInv, SweepInv
<1>4. /\ pk' \in Progs
      /\ dpc' \in {"stop", "reload", "doze", "poll", "start", "restart"}
      /\ SweepInv' /\ WindowInv'
  BY <1>1, <1>3, StepSweeps
<1>5. OneWorks' /\ ToldInv'
  BY <1>1 DEF IInv, OneWorks, ToldInv
<1>6. NumberInv'
  BY <1>1, <1>2, Numbers DEF IInv, NumberInv
<1>7. WorkerInv'
  BY <1>1, <1>2, <1>3 DEF IInv, WorkerInv, Alive
<1>8. TypeOK'
  BY <1>1, <1>2, <1>4 DEF IInv, TypeOK, Forget
<1>9. QED
  BY <1>4, <1>5, <1>6, <1>7, <1>8 DEF IInv

LEMMA ReloadKeeps == IInv /\ Reload => IInv'
<1> SUFFICES ASSUME IInv, Reload PROVE IInv'
  OBVIOUS
<1>1. TypeOK'
  BY Numbers DEF IInv, TypeOK, Reload
<1>2. OneWorks'
  BY DEF IInv, OneWorks, Reload
<1>3. \A p \in Progs, i \in Ids : <<p, i>> \in old' <=>
        st[p][i] \in {"attach", "work", "exit"}
  BY DEF Reload
<1>4. NumberInv' /\ WorkerInv'
  BY <1>3, Numbers DEF NumberInv, WorkerInv, Reload
<1>5. ToldInv'
  BY DEF IInv, SweepInv, ToldInv, Reload
<1>6. SweepInv' /\ WindowInv'
  BY DEF IInv, SweepInv, WindowInv, Reload
<1>7. QED
  BY <1>1, <1>2, <1>4, <1>5, <1>6 DEF IInv

LEMMA ForkKeeps ==
  ASSUME IInv, NEW p \in Progs, Fork(p), dpc # "stop", dpc # "reload",
         process_status' = [process_status EXCEPT ![p] = 1],
         UNCHANGED <<start_status, process_no, term, lost>>
  PROVE  /\ st' \in [Progs -> [Ids -> {"none", "fork"} \cup Named]]
         /\ old' \subseteq Progs \X Ids /\ missed' \subseteq Progs \X Ids
         /\ \A x \in term' : st'[x[1]][x[2]] \in {"work", "exit"}
         /\ OneWorks' /\ NumberInv' /\ WorkerInv' /\ ToldInv'
<1>1. PICK i \in Ids :
        /\ st[p][i] = "none" /\ i # process_no[p]
        /\ st' = [st EXCEPT ![p][i] = "fork"]
        /\ old' = old \ {<<p, i>>} /\ missed' = missed \ {<<p, i>>}
  BY DEF Fork
<1>2. /\ st' \in [Progs -> [Ids -> {"none", "fork"} \cup Named]]
      /\ st'[p][i] = "fork"
      /\ \A q \in Progs, j \in Ids : q # p \/ j # i => st'[q][j] = st[q][j]
  BY <1>1, MovedOne DEF IInv, TypeOK
<1>3. old' \subseteq Progs \X Ids /\ missed' \subseteq Progs \X Ids
  BY <1>1 DEF IInv, TypeOK
<1>4. \A x \in term' : st'[x[1]][x[2]] \in {"work", "exit"}
  <2> SUFFICES ASSUME NEW x \in term PROVE st'[x[1]][x[2]] \in {"work", "exit"}
    OBVIOUS
  <2>1. x[1] \in Progs /\ x[2] \in Ids /\ st[x[1]][x[2]] \in {"work", "exit"}
    BY DEF IInv, TypeOK
  <2>2. QED
    BY <1>1, <1>2, <2>1
<1>5. \A q \in Progs, j \in Ids : q # p \/ j # i =>
        /\ <<q, j>> \in old' <=> <<q, j>> \in old
        /\ <<q, j>> \in missed' <=> <<q, j>> \in missed
  BY <1>1
<1>6. OneWorks'
  BY <1>2 DEF IInv, OneWorks, Past
<1>7. NumberInv'
  BY <1>1, <1>2, <1>5 DEF IInv, NumberInv
<1>8. WorkerInv'
  BY <1>2, <1>5 DEF IInv, WorkerInv
<1>9. ToldInv'
  <2>1. <<p, i>> \notin old' /\ process_status'[p] = 1
    BY <1>1 DEF IInv, TypeOK
  <2>2. \A q \in Progs : q # p => process_status'[q] = process_status[q]
    BY DEF IInv, TypeOK
  <2>3. QED
    BY <1>2, <1>5, <2>1, <2>2 DEF IInv, ToldInv
<1>10. QED
  BY <1>2, <1>3, <1>4, <1>6, <1>7, <1>8, <1>9

LEMMA Start_ProcessKeeps == IInv /\ Start_Process => IInv'
<1> SUFFICES ASSUME IInv, Start_Process PROVE IInv'
  OBVIOUS
<1> DEFINE Stopped == StopOne(pk) /\ UNCHANGED <<process_status, st, old>>
<1>1. pk \in Progs /\ dpc \in {"start", "restart"} /\ proc_no = 0
  BY DEF IInv, TypeOK, Start_Process
<1>2. UNCHANGED <<start_status, process_no, in_hours, bell, Sig_No, woken,
                  poll_flag, events, lost>>
  BY DEF Start_Process
<1>3. CASE Stopped
  BY <1>1, <1>2, <1>3, StopOneKeeps DEF IInv, TypeOK
<1>4. CASE ~Stopped
  <2>1. /\ \/ /\ process_status' = [process_status EXCEPT ![pk] = 1]
              /\ Fork(pk)
           \/ UNCHANGED <<process_status, st, old, missed>>
        /\ Step(After) /\ UNCHANGED <<term, proc_no>>
    BY <1>4 DEF Start_Process
  <2>2. pk' \in Progs /\ dpc' \in {"start", "restart", "poll", "doze"}
    BY <1>1, <2>1, Numbers DEF Step, After
  <2>3. SweepInv' /\ WindowInv'
    BY <1>1, <2>1, <2>2 DEF SweepInv, WindowInv
  <2>4. /\ st' \in [Progs -> [Ids -> {"none", "fork"} \cup Named]]
        /\ old' \subseteq Progs \X Ids /\ missed' \subseteq Progs \X Ids
        /\ \A x \in term' : st'[x[1]][x[2]] \in {"work", "exit"}
        /\ process_status' \in [Progs -> {1, 2, 4}]
        /\ OneWorks' /\ NumberInv' /\ WorkerInv' /\ ToldInv'
    <3>1. CASE /\ process_status' = [process_status EXCEPT ![pk] = 1]
               /\ Fork(pk)
      <4>1. process_status' \in [Progs -> {1, 2, 4}]
        BY <3>1 DEF IInv, TypeOK
      <4>2. QED
        BY <1>1, <1>2, <2>1, <3>1, <4>1, ForkKeeps
    <3>2. CASE UNCHANGED <<process_status, st, old, missed>>
      BY <1>2, <2>1, <3>2
         DEF IInv, TypeOK, OneWorks, NumberInv, WorkerInv, ToldInv
    <3>3. QED
      BY <2>1, <3>1, <3>2
  <2>5. TypeOK'
    BY <1>2, <2>1, <2>2, <2>4 DEF IInv, TypeOK
  <2>6. QED
    BY <2>3, <2>4, <2>5 DEF IInv
<1>5. QED
  BY <1>3, <1>4

-------------------------------------------------------------------------------
\* Steps of the programs

\* A step of a process that is not there yet, or is on its way out, to a place
\* where it does not work: the numbers still name what they named.
LEMMA ProcessMoves ==
  ASSUME IInv, NEW p \in Progs, NEW i \in Ids, NEW from, NEW to,
         Moves(p, i, from, to), to \in {"none", "fork"} \cup Named,
         from \in Starting, to \in {"none", "exec", "init", "attach"},
         to = "init" => ~Exists(p, i), from \in Past => to \in Past,
         to \in Past => from \in Past \/ to = "init",
         UNCHANGED <<table, old, term, lost, missed, daemon>>
  PROVE  /\ st' \in [Progs -> [Ids -> {"none", "fork"} \cup Named]]
         /\ \A x \in term' : st'[x[1]][x[2]] \in {"work", "exit"}
         /\ OneWorks' /\ NumberInv' /\ WorkerInv' /\ ToldInv' /\ SweepInv'
         /\ WindowInv'
<1>1. st[p][i] = from /\ st' = [st EXCEPT ![p][i] = to]
  BY DEF Moves
<1>2. /\ st' \in [Progs -> [Ids -> {"none", "fork"} \cup Named]]
      /\ st'[p][i] = to
      /\ \A q \in Progs, j \in Ids : q # p \/ j # i => st'[q][j] = st[q][j]
  BY <1>1, MovedOne DEF IInv, TypeOK
<1>3. \A x \in term' : st'[x[1]][x[2]] \in {"work", "exit"}
  <2> SUFFICES ASSUME NEW x \in term PROVE st'[x[1]][x[2]] \in {"work", "exit"}
    OBVIOUS
  <2>1. x[1] \in Progs /\ x[2] \in Ids /\ st[x[1]][x[2]] \in {"work", "exit"}
    BY DEF IInv, TypeOK
  <2>2. QED
    BY <1>1, <1>2, <2>1 DEF Starting
<1>4. OneWorks'
  <2>1. to = "init" => \A j \in Ids \ {i} : st[p][j] \notin Past
    BY DEF Exists, Named
  <2>2. from \in Past => \A j \in Ids \ {i} : st[p][j] \notin Past
    BY <1>1 DEF IInv, OneWorks
  <2>3. to \in Past => \A j \in Ids \ {i} : st[p][j] \notin Past
    BY <2>1, <2>2
  <2>4. QED
    BY <1>2, <2>3 DEF IInv, OneWorks
<1>5. NumberInv'
  BY <1>1, <1>2 DEF IInv, NumberInv, Starting, table
<1>6. WorkerInv'
  BY <1>2 DEF IInv, WorkerInv, table
<1>7. \A q \in Progs, j \in Ids : st'[q][j] \in Alive => st[q][j] \in Alive
  BY <1>1, <1>2 DEF Alive
<1>8. ToldInv' /\ SweepInv' /\ WindowInv'
  BY <1>7 DEF IInv, ToldInv, SweepInv, WindowInv, table, daemon
<1>9. QED
  BY <1>2, <1>3, <1>4, <1>5, <1>6, <1>8

LEMMA StartingKeeps ==
  ASSUME IInv, NEW p \in Progs, NEW i \in Ids,
         Exec(p, i) \/ Check_Exist(p, i) \/ Mem_SHM(p, i)
  PROVE  IInv'
<1> DEFINE Kept == UNCHANGED <<table, old, term, lost, missed, daemon>>
<1> DEFINE Done ==
      /\ st' \in [Progs -> [Ids -> {"none", "fork"} \cup Named]]
      /\ \A x \in term' : st'[x[1]][x[2]] \in {"work", "exit"}
      /\ OneWorks' /\ NumberInv' /\ WorkerInv' /\ ToldInv' /\ SweepInv'
      /\ WindowInv'
<1>1. CASE Exec(p, i)
  <2>1. Moves(p, i, "fork", "exec") /\ Kept
    BY <1>1 DEF Exec, daemon
  <2>2. Done
    BY <2>1, ProcessMoves DEF Starting, Named, Past
  <2>3. QED
    BY <1>1, <2>2 DEF IInv, TypeOK, Exec, table, daemon
<1>2. CASE Check_Exist(p, i)
  <2> DEFINE to == IF Exists(p, i) THEN "none" ELSE "init"
  <2>1. Moves(p, i, "exec", to) /\ Kept
    BY <1>2 DEF Check_Exist, daemon
  <2>2. Done
    <3>1. /\ to \in {"none", "init"} /\ (to = "init" => ~Exists(p, i))
          /\ to \in {"none", "fork"} \cup Named
      BY DEF Named, Past
    <3> HIDE DEF to
    <3>2. QED
      BY <2>1, <3>1, ProcessMoves DEF Starting, Past
  <2>3. QED
    BY <1>2, <2>2 DEF IInv, TypeOK, Check_Exist, table, daemon
<1>3. CASE Mem_SHM(p, i)
  <2>1. Moves(p, i, "init", "attach") /\ Kept
    BY <1>3 DEF Mem_SHM, daemon
  <2>2. Done
    BY <2>1, ProcessMoves DEF Starting, Named, Past
  <2>3. QED
    BY <1>3, <2>2 DEF IInv, TypeOK, Mem_SHM, table, daemon
<1>4. QED
  BY <1>1, <1>2, <1>3

\* The process that works is the only one of its program past Check_Exist.
LEMMA Init_ProcKeeps ==
  ASSUME IInv, NEW p \in Progs, NEW i \in Ids, Init_Proc(p, i)
  PROVE  IInv'
<1>1. st[p][i] = "attach" /\ st' = [st EXCEPT ![p][i] = "work"]
  BY DEF Init_Proc, Moves
<1>2. /\ st' \in [Progs -> [Ids -> {"none", "fork"} \cup Named]]
      /\ st'[p][i] = "work"
      /\ \A q \in Progs, j \in Ids : q # p \/ j # i => st'[q][j] = st[q][j]
  BY <1>1, MovedOne DEF IInv, TypeOK, Named, Past
<1>3. \A j \in Ids \ {i} : st[p][j] \notin Past
  BY <1>1 DEF IInv, OneWorks, Past
<1>4. /\ process_no' \in [Progs -> Ids \cup {0}]
      /\ \A q \in Progs \ {p} : process_no'[q] = process_no[q]
      /\ <<p, i>> \in old => process_no'[p] = process_no[p]
      /\ <<p, i>> \notin old => process_no'[p] = i
  BY DEF IInv, TypeOK, Init_Proc
<1>5. UNCHANGED <<process_status, start_status, old, term, daemon, lost, missed>>
  BY DEF Init_Proc
<1>6. \A x \in term' : st'[x[1]][x[2]] \in {"work", "exit"}
  <2> SUFFICES ASSUME NEW x \in term PROVE st'[x[1]][x[2]] \in {"work", "exit"}
    BY <1>5
  <2>1. x[1] \in Progs /\ x[2] \in Ids /\ st[x[1]][x[2]] \in {"work", "exit"}
    BY DEF IInv, TypeOK
  <2>2. QED
    BY <1>2, <2>1
<1>7. TypeOK'
  BY <1>2, <1>4, <1>6 DEF IInv, TypeOK, Init_Proc, daemon
<1>8. OneWorks'
  BY <1>2, <1>3 DEF IInv, OneWorks
<1>9. NumberInv'
  BY <1>1, <1>2, <1>3, <1>4, <1>5 DEF IInv, NumberInv, Past
<1>10. WorkerInv'
  BY <1>2, <1>3, <1>4, <1>5 DEF IInv, WorkerInv, Past
<1>11. \A q \in Progs, j \in Ids : st'[q][j] \in Alive => st[q][j] \in Alive
  BY <1>1, <1>2 DEF Alive, Starting
<1>12. ToldInv' /\ SweepInv' /\ WindowInv'
  BY <1>5, <1>11 DEF IInv, ToldInv, SweepInv, WindowInv, daemon
<1>13. QED
  BY <1>7, <1>8, <1>9, <1>10, <1>12 DEF IInv

\* A process that works or is on its way out goes on towards its end, and may
\* clear the number of its program while no other process works.
LEMMA ProcessEnds ==
  ASSUME IInv, NEW p \in Progs, NEW i \in Ids, NEW to \in {"exit", "none"},
         st[p][i] # "none", st' = [st EXCEPT ![p][i] = to],
         to = "exit" => st[p][i] = "work",
         \/ UNCHANGED process_no /\ <<p, i>> \in old
         \/ UNCHANGED process_no /\ st[p][i] = "exit"
         \/ UNCHANGED process_no /\ (process_no[p] = i => p \in lost' /\ to = "none")
         \/ process_no' = [process_no EXCEPT ![p] = 0] /\ st[p][i] \in Past,
         UNCHANGED old, lost \subseteq lost',
         term' \in {term, term \ {<<p, i>>}}, to = "none" => <<p, i>> \notin term',
         missed \subseteq missed'
  PROVE  /\ st' \in [Progs -> [Ids -> {"none", "fork"} \cup Named]]
         /\ process_no' \in [Progs -> Ids \cup {0}]
         /\ term' \subseteq Progs \X Ids
         /\ \A x \in term' : st'[x[1]][x[2]] \in {"work", "exit"}
         /\ \A q \in Progs, j \in Ids : st'[q][j] \in Alive =>
              /\ st[q][j] \in Alive
              /\ <<q, j>> \in term \cup missed => <<q, j>> \in term' \cup missed'
         /\ OneWorks' /\ NumberInv' /\ WorkerInv'
<1>1. /\ st' \in [Progs -> [Ids -> {"none", "fork"} \cup Named]]
      /\ st'[p][i] = to
      /\ \A q \in Progs, j \in Ids : q # p \/ j # i => st'[q][j] = st[q][j]
  BY MovedOne DEF IInv, TypeOK, Named, Past
<1>2. /\ process_no' \in [Progs -> Ids \cup {0}]
      /\ \A q \in Progs \ {p} : process_no'[q] = process_no[q]
      /\ process_no'[p] \in {0, process_no[p]}
  BY DEF IInv, TypeOK
<1>3. /\ term' \subseteq Progs \X Ids
      /\ \A q \in Progs, j \in Ids : q # p \/ j # i =>
           (<<q, j>> \in term' <=> <<q, j>> \in term)
  BY DEF IInv, TypeOK
<1>4. \A x \in term' : st'[x[1]][x[2]] \in {"work", "exit"}
  <2> SUFFICES ASSUME NEW x \in term' PROVE st'[x[1]][x[2]] \in {"work", "exit"}
    OBVIOUS
  <2>1. /\ x[1] \in Progs /\ x[2] \in Ids /\ x = <<x[1], x[2]>>
        /\ st[x[1]][x[2]] \in {"work", "exit"}
    BY DEF IInv, TypeOK
  <2>2. CASE x[1] = p /\ x[2] = i
    <3>1. to = "exit"
      BY <2>1, <2>2
    <3>2. QED
      BY <1>1, <2>2, <3>1
  <2>3. CASE x[1] # p \/ x[2] # i
    BY <1>1, <2>1, <2>3
  <2>4. QED
    BY <2>2, <2>3
<1>5. \A q \in Progs, j \in Ids : st'[q][j] \in Alive =>
        (q # p \/ j # i) /\ st[q][j] \in Alive
  BY <1>1 DEF Alive, Starting
<1>6. \A q \in Progs, j \in Ids : st'[q][j] \in Alive =>
        (<<q, j>> \in term \cup missed => <<q, j>> \in term' \cup missed')
  BY <1>3, <1>5
<1>7. OneWorks'
  BY <1>1 DEF IInv, OneWorks, Past
<1>8. st[p][i] \in Past => \A j \in Ids \ {i} : st[p][j] # "work"
  BY DEF IInv, OneWorks, Past
<1>9. NumberInv'
  <2> SUFFICES ASSUME NEW q \in Progs, NEW j \in Ids, process_no'[q] = j
               PROVE  \/ st'[q][j] = "work" /\ <<q, j>> \notin old
                      \/ st'[q][j] = "none" /\ q \in lost'
    BY DEF NumberInv
  <2>1. process_no[q] = j
    BY <1>2, Numbers
  <2>2. \/ st[q][j] = "work" /\ <<q, j>> \notin old
        \/ st[q][j] = "none" /\ q \in lost
    BY <2>1 DEF IInv, NumberInv
  <2>3. CASE q = p /\ j = i
    <3>1. process_no'[p] # 0
      BY <2>3, Numbers
    <3>2. process_no' # [process_no EXCEPT ![p] = 0]
      BY <3>1 DEF IInv, TypeOK
    <3>3. p \in lost' /\ to = "none"
      BY <2>1, <2>2, <2>3, <3>2
    <3>4. QED
      BY <1>1, <2>3, <3>3
  <2>4. CASE q # p \/ j # i
    BY <1>1, <2>2, <2>4
  <2>5. QED
    BY <2>3, <2>4
<1>10. WorkerInv'
  <2> SUFFICES ASSUME NEW q \in Progs, NEW j \in Ids, st'[q][j] = "work",
                      <<q, j>> \notin old, process_no'[q] # j
               PROVE  <<q, j>> \in term' \cup missed'
    BY DEF WorkerInv
  <2>1. (q # p \/ j # i) /\ st[q][j] = "work"
    BY <1>1, <1>5 DEF Alive
  <2>2. process_no[q] # j
    BY <1>2, <1>8, <2>1 DEF IInv, TypeOK
  <2>3. QED
    BY <1>6, <2>1, <2>2 DEF IInv, WorkerInv, Alive
<1>11. QED
  BY <1>1, <1>2, <1>3, <1>4, <1>5, <1>6, <1>7, <1>9, <1>10

\* Where no program's status turns to one that stops it, ToldInv stays.
LEMMA ToldStays ==
  ASSUME IInv, UNCHANGED <<old, dpc, pk, proc_no>>,
         \A q \in Progs, j \in Ids : st'[q][j] \in Alive =>
           /\ st[q][j] \in Alive
           /\ <<q, j>> \in term \cup missed => <<q, j>> \in term' \cup missed',
         \A q \in Progs :
           process_status'[q] # 1 /\ start_status'[q] # JOB_END
             => process_status[q] # 1 /\ start_status[q] # JOB_END
  PROVE  ToldInv' /\ SweepInv' /\ WindowInv'
<1>1. ToldInv'
  BY DEF IInv, ToldInv
<1>2. SweepInv' /\ WindowInv'
  BY DEF IInv, SweepInv, WindowInv
<1>3. QED
  BY <1>1, <1>2

LEMMA Exit_ProcessKeeps ==
  ASSUME IInv, NEW p \in Progs, NEW i \in Ids, Exit_Process(p, i)
  PROVE  IInv'
<1>1. st[p][i] = "work" /\ st' = [st EXCEPT ![p][i] = "exit"]
  BY DEF Exit_Process, Moves
<1>2. /\ UNCHANGED <<process_status, start_status, old, term, dpc, pk, proc_no,
                     lost, missed>>
      /\ \/ UNCHANGED process_no /\ <<p, i>> \in old
         \/ process_no' = [process_no EXCEPT ![p] = 0] /\ st[p][i] \in Past
  BY <1>1 DEF Exit_Process, Leaves, daemon, Past
<1>3. /\ st' \in [Progs -> [Ids -> {"none", "fork"} \cup Named]]
      /\ process_no' \in [Progs -> Ids \cup {0}]
      /\ term' \subseteq Progs \X Ids
      /\ \A x \in term' : st'[x[1]][x[2]] \in {"work", "exit"}
      /\ \A q \in Progs, j \in Ids : st'[q][j] \in Alive =>
           /\ st[q][j] \in Alive
           /\ <<q, j>> \in term \cup missed => <<q, j>> \in term' \cup missed'
      /\ OneWorks' /\ NumberInv' /\ WorkerInv'
  <2> "exit" # "none"
    OBVIOUS
  <2>1. QED
    BY <1>1, <1>2, ProcessEnds
<1>4. ToldInv' /\ SweepInv' /\ WindowInv'
  BY <1>2, <1>3, ToldStays
<1>5. TypeOK'
  <2>1. bell' \in BOOLEAN
    BY DEF IInv, TypeOK, Exit_Process, Leaves
  <2>2. events' \in 0..MaxEvents
    BY DaemonAssumption DEF IInv, TypeOK, Exit_Process, Event
  <2>3. QED
    BY <1>3, <2>1, <2>2 DEF IInv, TypeOK, Exit_Process, daemon
<1>6. QED
  BY <1>3, <1>4, <1>5 DEF IInv

LEMMA Stat_SaveKeeps ==
  ASSUME IInv, NEW p \in Progs, NEW i \in Ids, Stat_Save(p, i)
  PROVE  IInv'
<1>1. st[p][i] = "work" /\ st' = [st EXCEPT ![p][i] = "exit"]
  BY DEF Stat_Save, Moves
<1>2. /\ UNCHANGED <<start_status, old, term, dpc, pk, proc_no, lost>>
      /\ process_no' = [process_no EXCEPT ![p] = 0] /\ st[p][i] \in Past
      /\ process_status' = [process_status EXCEPT ![p] = 4]
  BY <1>1 DEF Stat_Save, daemon, Past
<1>3. /\ missed \subseteq missed' /\ missed' \subseteq Progs \X Ids
      /\ \A j \in Ids : st[p][j] \in Starting => <<p, j>> \in missed'
  BY DEF IInv, TypeOK, Stat_Save, Misses
<1>4. /\ st' \in [Progs -> [Ids -> {"none", "fork"} \cup Named]]
      /\ process_no' \in [Progs -> Ids \cup {0}]
      /\ term' \subseteq Progs \X Ids
      /\ \A x \in term' : st'[x[1]][x[2]] \in {"work", "exit"}
      /\ \A q \in Progs, j \in Ids : st'[q][j] \in Alive =>
           /\ st[q][j] \in Alive
           /\ <<q, j>> \in term \cup missed => <<q, j>> \in term' \cup missed'
      /\ OneWorks' /\ NumberInv' /\ WorkerInv'
  <2> "exit" # "none"
    OBVIOUS
  <2>1. QED
    BY <1>1, <1>2, <1>3, ProcessEnds
\* Whoever of the program is still alive is starting: it is missed.
<1>5. \A j \in Ids : st'[p][j] \in Alive => <<p, j>> \in missed'
  <2> SUFFICES ASSUME NEW j \in Ids, st'[p][j] \in Alive
               PROVE  <<p, j>> \in missed'
    OBVIOUS
  <2>1. j # i /\ st[p][j] \in Alive
    <3>1. st'[p][i] = "exit"
      BY <1>1 DEF IInv, TypeOK
    <3>2. QED
      BY <1>4, <3>1 DEF Alive, Starting
  <2>2. st[p][j] # "work"
    BY <1>1, <2>1 DEF IInv, OneWorks, Past
  <2>3. QED
    BY <1>3, <2>1, <2>2 DEF Alive
<1>6. ToldInv'
  <2>1. \A q \in Progs \ {p} : process_status'[q] = process_status[q]
    BY <1>2 DEF IInv, TypeOK
  <2>2. QED
    BY <1>2, <1>4, <1>5, <2>1 DEF IInv, ToldInv
<1>7. SweepInv' /\ WindowInv'
  BY <1>2, <1>4 DEF IInv, SweepInv, WindowInv
<1>8. TypeOK'
  <2>1. process_status' \in [Progs -> {1, 2, 4}]
    BY <1>2 DEF IInv, TypeOK
  <2>2. QED
    BY <1>3, <1>4, <2>1, DaemonAssumption
       DEF IInv, TypeOK, Stat_Save, Event, daemon
<1>9. QED
  BY <1>4, <1>6, <1>7, <1>8 DEF IInv

LEMMA GoneKeeps ==
  ASSUME IInv, NEW p \in Progs, NEW i \in Ids, Gone(p, i)
  PROVE  IInv'
<1>1. st[p][i] = "exit" /\ st' = [st EXCEPT ![p][i] = "none"]
  BY DEF Gone, Moves
<1>2. /\ UNCHANGED <<process_no, start_status, old, dpc, pk, proc_no, lost, missed>>
      /\ term' = term \ {<<p, i>>}
  BY DEF Gone, daemon
<1>3. /\ st' \in [Progs -> [Ids -> {"none", "fork"} \cup Named]]
      /\ process_no' \in [Progs -> Ids \cup {0}]
      /\ term' \subseteq Progs \X Ids
      /\ \A x \in term' : st'[x[1]][x[2]] \in {"work", "exit"}
      /\ \A q \in Progs, j \in Ids : st'[q][j] \in Alive =>
           /\ st[q][j] \in Alive
           /\ <<q, j>> \in term \cup missed => <<q, j>> \in term' \cup missed'
      /\ OneWorks' /\ NumberInv' /\ WorkerInv'
  <2> "exit" # "none"
    OBVIOUS
  <2>1. QED
    BY <1>1, <1>2, ProcessEnds
<1>4. /\ process_status' \in [Progs -> {1, 2, 4}]
      /\ \A q \in Progs : process_status'[q] # 1 => process_status[q] # 1
  BY DEF IInv, TypeOK, Gone
<1>5. ToldInv' /\ SweepInv' /\ WindowInv'
  BY <1>2, <1>3, <1>4, ToldStays
<1>6. TypeOK'
  BY <1>3, <1>4 DEF IInv, TypeOK, Gone, daemon
<1>7. QED
  BY <1>3, <1>5, <1>6 DEF IInv

LEMMA End_RoutineKeeps ==
  ASSUME IInv, NEW p \in Progs, NEW i \in Ids, End_Routine(p, i)
  PROVE  IInv'
<1>1. st[p][i] \in {"work", "exit"} /\ st' = [st EXCEPT ![p][i] = "none"]
  BY DEF End_Routine
<1>2. /\ UNCHANGED <<process_status, start_status, old, dpc, pk, proc_no, lost,
                     missed>>
      /\ term' = term \ {<<p, i>>}
      /\ \/ UNCHANGED process_no /\ <<p, i>> \in old
         \/ process_no' = [process_no EXCEPT ![p] = 0] /\ st[p][i] \in Past
  BY <1>1 DEF End_Routine, Leaves, daemon, Past
<1>3. /\ st' \in [Progs -> [Ids -> {"none", "fork"} \cup Named]]
      /\ process_no' \in [Progs -> Ids \cup {0}]
      /\ term' \subseteq Progs \X Ids
      /\ \A x \in term' : st'[x[1]][x[2]] \in {"work", "exit"}
      /\ \A q \in Progs, j \in Ids : st'[q][j] \in Alive =>
           /\ st[q][j] \in Alive
           /\ <<q, j>> \in term \cup missed => <<q, j>> \in term' \cup missed'
      /\ OneWorks' /\ NumberInv' /\ WorkerInv'
  <2> "exit" # "none" /\ "work" # "none"
    OBVIOUS
  <2>1. QED
    BY <1>1, <1>2, ProcessEnds
<1>4. ToldInv' /\ SweepInv' /\ WindowInv'
  BY <1>2, <1>3, ToldStays
<1>5. TypeOK'
  <2>1. bell' \in BOOLEAN
    BY DEF IInv, TypeOK, End_Routine, Leaves
  <2>2. QED
    BY <1>3, <2>1 DEF IInv, TypeOK, End_Routine, daemon
<1>6. QED
  BY <1>3, <1>4, <1>5 DEF IInv

LEMMA DiesKeeps ==
  ASSUME IInv, NEW p \in Progs, NEW i \in Ids, Dies(p, i)
  PROVE  IInv'
<1>1. st[p][i] # "none" /\ st' = [st EXCEPT ![p][i] = "none"]
  BY DEF Dies
<1>2. /\ UNCHANGED <<process_status, start_status, process_no, old, dpc, pk,
                     proc_no, missed>>
      /\ term' = term \ {<<p, i>>}
  BY DEF Dies, table, daemon
<1>3. /\ lost \subseteq lost' /\ lost' \subseteq Progs
      /\ process_no[p] = i => p \in lost'
  BY DEF IInv, TypeOK, Dies
<1>4. /\ st' \in [Progs -> [Ids -> {"none", "fork"} \cup Named]]
      /\ process_no' \in [Progs -> Ids \cup {0}]
      /\ term' \subseteq Progs \X Ids
      /\ \A x \in term' : st'[x[1]][x[2]] \in {"work", "exit"}
      /\ \A q \in Progs, j \in Ids : st'[q][j] \in Alive =>
           /\ st[q][j] \in Alive
           /\ <<q, j>> \in term \cup missed => <<q, j>> \in term' \cup missed'
      /\ OneWorks' /\ NumberInv' /\ WorkerInv'
  <2> "exit" # "none"
    OBVIOUS
  <2>1. QED
    BY <1>1, <1>2, <1>3, ProcessEnds
<1>5. ToldInv' /\ SweepInv' /\ WindowInv'
  BY <1>2, <1>4, ToldStays
<1>6. TypeOK'
  BY <1>3, <1>4, DaemonAssumption DEF IInv, TypeOK, Dies, Event, table, daemon
<1>7. QED
  BY <1>4, <1>5, <1>6 DEF IInv

\* Log_Out and Start_Client change what the table asks for, and no process.
LEMMA Log_OutKeeps ==
  ASSUME IInv, NEW p \in Progs, NEW i \in Ids, Log_Out(p, i)
  PROVE  IInv'
<1>1. UNCHANGED <<process_no, st, old, term, dpc, pk, proc_no, lost, missed>>
  BY DEF Log_Out, procs, daemon
<1>2. /\ start_status' \in [Progs -> {0, JOB_END}]
      /\ process_status' \in [Progs -> {1, 2, 4}]
      /\ start_status'[p] = JOB_END
      /\ \A q \in Progs \ {p} : process_status'[q] = process_status[q]
                             /\ start_status'[q] = start_status[q]
  BY DEF IInv, TypeOK, Log_Out
<1>3. OneWorks' /\ NumberInv' /\ WorkerInv'
  BY <1>1 DEF IInv, OneWorks, NumberInv, WorkerInv
<1>4. ToldInv' /\ SweepInv' /\ WindowInv'
  <2>1. \A q \in Progs :
          process_status'[q] # 1 /\ start_status'[q] # JOB_END
            => process_status[q] # 1 /\ start_status[q] # JOB_END
    BY <1>2
  <2>2. QED
    BY <1>1, <2>1, ToldStays
<1>5. TypeOK'
  BY <1>1, <1>2, DaemonAssumption DEF IInv, TypeOK, Log_Out, Event, procs, daemon
<1>6. QED
  BY <1>3, <1>4, <1>5 DEF IInv

LEMMA Start_ClientKeeps ==
  ASSUME IInv, NEW p \in Progs, Start_Client(p)
  PROVE  IInv'
<1>1. UNCHANGED <<process_no, st, old, term, dpc, pk, proc_no, lost, missed>>
  BY DEF Start_Client, procs, daemon
<1>2. /\ start_status' \in [Progs -> {0, JOB_END}]
      /\ process_status' \in [Progs -> {1, 2, 4}]
      /\ process_status'[p] = 1
      /\ \A q \in Progs \ {p} : process_status'[q] = process_status[q]
                             /\ start_status'[q] = start_status[q]
  BY DEF IInv, TypeOK, Start_Client
<1>3. OneWorks' /\ NumberInv' /\ WorkerInv'
  BY <1>1 DEF IInv, OneWorks, NumberInv, WorkerInv
<1>4. ToldInv' /\ SweepInv' /\ WindowInv'
  <2>1. \A q \in Progs :
          process_status'[q] # 1 /\ start_status'[q] # JOB_END
            => process_status[q] # 1 /\ start_status[q] # JOB_END
    BY <1>2
  <2>2. QED
    BY <1>1, <2>1, ToldStays
<1>5. TypeOK'
  BY <1>1, <1>2, DaemonAssumption
     DEF IInv, TypeOK, Start_Client, Event, procs, daemon
<1>6. QED
  BY <1>3, <1>4, <1>5 DEF IInv

-------------------------------------------------------------------------------
\* The theorems

LEMMA NextKeeps == IInv /\ [Next]_vars => IInv'
<1> SUFFICES ASSUME IInv, [Next]_vars PROVE IInv'
  OBVIOUS
<1>1. CASE DaemonStep
  BY <1>1, TimeoutKeeps, PollKeeps, User_SignalKeeps, Stop_ProcessKeeps,
     ForgetKeeps, ReloadKeeps, DozeKeeps, DrainKeeps, Start_ProcessKeeps
     DEF DaemonStep
<1>2. ASSUME NEW p \in Progs, NEW i \in Ids,
             \/ ProcStep(p, i) \/ Exit_Process(p, i) \/ Stat_Save(p, i)
             \/ Log_Out(p, i) \/ Dies(p, i)
      PROVE  IInv'
  BY <1>2, StartingKeeps, Init_ProcKeeps, GoneKeeps, End_RoutineKeeps,
     Exit_ProcessKeeps, Stat_SaveKeeps, Log_OutKeeps, DiesKeeps DEF ProcStep
<1>3. ASSUME NEW p \in Progs, Start_Client(p) \/ Hour(p)
      PROVE  IInv'
  BY <1>3, Start_ClientKeeps, HourKeeps
<1>4. ASSUME NEW s \in {"usr1", "usr2"}, Sig_Handler(s)
      PROVE  IInv'
  BY <1>4, Sig_HandlerKeeps
<1>5. CASE UNCHANGED vars
  <2>1. UNCHANGED <<table, procs>> /\ UNCHANGED <<lost, missed, dpc, pk, proc_no>>
    BY <1>5 DEF vars, table, procs
  <2>2. TypeOK'
    BY <1>5 DEF IInv, TypeOK, vars
  <2>3. QED
    BY <2>1, <2>2, TableKept
<1>6. QED
  BY <1>1, <1>2, <1>3, <1>4, <1>5 DEF Next

LEMMA Invariance == Spec => []IInv
<1>1. Init => IInv
  BY InitInv
<1>2. IInv /\ [Next]_vars => IInv'
  BY NextKeeps
<1>3. QED
  BY <1>1, <1>2, PTL DEF Spec

\* The table, the processes and the daemon stay within their types; SIGTERM is
\* only ever on its way to a process that works or is ending.
THEOREM TypeCorrect == Spec => []TypeOK
<1>1. IInv => TypeOK
  BY DEF IInv
<1>2. QED
  BY <1>1, Invariance, PTL

\* However often a program is started before a process of it has written its
\* number, Check_Exist lets only one of them get as far as the journals.
THEOREM NeverTwo == Spec => []OneWorks
<1>1. IInv => OneWorks
  BY DEF IInv
<1>2. QED
  BY <1>1, Invariance, PTL

\* process_no, the only handle the daemon has on a process, names the one that
\* works, whatever it does and whoever ends, except after a death without the
\* handler; a process that works is named, told to end, or was starting when
\* the daemon read the number that it sets to 0 later.
THEOREM NumberNamesWorker == Spec => []NumberIsWorker
<1>1. IInv => NumberIsWorker
  BY DEF IInv, NumberInv, WorkerInv, NumberIsWorker
<1>2. QED
  BY <1>1, Invariance, PTL

\* A stop, or the new segment that SIGUSR1 makes, leaves behind only processes
\* that had no number when the daemon went through the table.
THEOREM StopReaches == Spec => []StopReachesAll
<1>1. IInv => StopReachesAll
  BY DEF IInv, ToldInv, StopReachesAll, Alive
<1>2. QED
  BY <1>1, Invariance, PTL

=============================================================================
