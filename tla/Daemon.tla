-------------------------------- MODULE Daemon --------------------------------
(***************************************************************************)
(* A daemon of the FEP (PZ/pz_daemon_proc.c) and the programs it starts,   *)
(* stops and starts again.                                                 *)
(*                                                                         *)
(* The daemon waits for a byte in its start FIFO (DTART_FD) or for ten     *)
(* time-outs, and then starts every program that should run and whose      *)
(* process_no is 0.  A child writes its number to process_no only at the   *)
(* end of Init_Proc; until then only Check_Exist, which looks for its name *)
(* in /proc, keeps a second child from working.  A process that ends       *)
(* clears process_no and rings.  SIGUSR2 stops all programs, SIGUSR1 stops *)
(* them, makes a new segment and starts them again; processes that are     *)
(* attached to the segment that has been removed keep it.                  *)
(*                                                                         *)
(* Whoever stops a program reads its number, sends SIGTERM and stores 0    *)
(* some time later.  By then the process may have ended and a child that   *)
(* was starting may have written its own number, which the 0 wipes out.    *)
(***************************************************************************)
EXTENDS Naturals, FiniteSets

CONSTANTS Progs,       \* bound: programs, numbered as in the table
          MaxInst,     \* bound: processes of one program at one time
          MaxEvents    \* bound: signals, ends, deaths, changes of the hour

ASSUME DaemonAssumption ==
  /\ Progs = 1..Cardinality(Progs) /\ Cardinality(Progs) \in Nat \ {0}
  /\ MaxInst \in Nat \ {0} /\ MaxEvents \in Nat

Ids == 1..MaxInst
JOB_END == 2

VARIABLES
  process_status, \* PROC: 1 run, 2 stop, 4 out of its hours
  start_status,   \* PROC: 0, or JOB_END
  process_no,     \* PROC: the process that works, 0 for none
  in_hours,       \* programs within their operating hours
  st,             \* per program and process: how far it is
  old,            \* processes attached to a segment that has been removed
  term,           \* processes that SIGTERM is on its way to
  bell,           \* a byte in DTART_FD
  Sig_No,         \* the last signal, "none" for 0
  dpc,            \* the daemon: where it is
  pk,             \* the daemon: the program it is at
  woken,          \* the daemon: poll returned to start programs
  proc_no,        \* the daemon: the number signalled and not yet set to 0
  poll_flag,      \* the daemon: nine time-outs have been counted
  events,         \* bound: events so far
  lost,           \* history: programs whose process died without a handler
  missed          \* history: processes that were starting when the daemon
                  \* read the number of their program to stop it

table == <<process_status, start_status, process_no>>
daemon == <<dpc, pk, woken, proc_no, poll_flag>>
procs == <<st, old, term>>
vars == <<process_status, start_status, process_no, in_hours, st, old, term,
          bell, Sig_No, dpc, pk, woken, proc_no, poll_flag, events, lost,
          missed>>

Starting == {"fork", "exec", "init", "attach"}
Past == {"init", "attach", "work", "exit"}
Named == {"exec"} \cup Past

Init ==
  /\ process_status = [p \in Progs |-> 1]
  /\ start_status = [p \in Progs |-> 0]
  /\ process_no = [p \in Progs |-> 0]
  /\ in_hours \in SUBSET Progs
  /\ st = [p \in Progs |-> [i \in Ids |-> "none"]]
  /\ old = {} /\ term = {} /\ bell = FALSE /\ Sig_No = "none"
  /\ dpc = "start" /\ pk = 1 /\ woken = FALSE
  /\ proc_no = 0 /\ poll_flag = FALSE
  /\ events = 0 /\ lost = {} /\ missed = {}

-----------------------------------------------------------------------------
(* The daemon *)

\* Nine time-outs of three seconds have passed since the last tenth one; no
\* start takes so long.  A byte in between does not reset the counter.
Timeout ==
  /\ dpc = "poll" /\ ~poll_flag
  /\ \A p \in Progs, i \in Ids : st[p][i] \notin Starting
  /\ poll_flag' = TRUE
  /\ UNCHANGED <<table, in_hours, procs, bell, Sig_No, dpc, pk, woken, proc_no,
                 events, lost, missed>>

TenthTimeout == ~bell /\ poll_flag

\* Mutant: programs are started for a byte only.
FaultyWakes == {bell}

\* poll returns with a byte, at a time-out, or because of a signal.
Wakes == {b \in {bell, TenthTimeout} : b \/ Sig_No # "none"}

Poll ==
  /\ dpc = "poll"
  /\ woken' \in Wakes
  /\ poll_flag' = (poll_flag /\ (woken' => bell))
  /\ dpc' = "signal"
  /\ UNCHANGED <<table, in_hours, procs, bell, Sig_No, pk, proc_no, events, lost,
                 missed>>

\* User_Signal acts on the last signal before anything is started.
Turn == IF woken THEN "drain" ELSE "poll"

User_Signal ==
  /\ dpc = "signal"
  /\ dpc' = IF Sig_No = "none" THEN Turn ELSE "stop"
  /\ pk' = 1
  /\ UNCHANGED <<table, in_hours, procs, bell, Sig_No, woken, proc_no,
                 poll_flag, events, lost, missed>>

\* To the next program of the table, or on to what follows the last.
Step(after) ==
  IF pk \in Progs /\ pk + 1 \in Progs
  THEN pk' = pk + 1 /\ UNCHANGED dpc
  ELSE pk' = 1 /\ dpc' = after

\* What follows the last program.
After ==
  IF dpc = "start" THEN "poll"
  ELSE IF dpc = "stop" /\ Sig_No = "usr1" THEN "reload" ELSE "doze"

\* Mutant: a number is forgotten and its process not told.
FaultySignal(p) == proc_no' = process_no[p] /\ UNCHANGED term

\* SIGTERM to the process that process_no names.
Signal(p) ==
  /\ proc_no' = process_no[p]
  /\ term' = IF process_no[p] # 0 /\ st[p][process_no[p]] # "none"
             THEN term \cup {<<p, process_no[p]>>} ELSE term

\* A process that has no number yet is not told.
Misses(p) ==
  missed' = missed \cup {<<p, i>> : i \in {j \in Ids : st[p][j] \in Starting}}

\* The daemon stops at a program: it signals the process, if there is one, and
\* has its number still to forget.
StopOne(p) ==
  /\ Signal(p)
  /\ Misses(p)
  /\ IF process_no[p] # 0 THEN UNCHANGED <<dpc, pk>> ELSE Step(After)

\* The number is set to 0, whatever has been written there meanwhile.
Forget ==
  /\ proc_no # 0
  /\ proc_no' = 0
  /\ process_no' = [process_no EXCEPT ![pk] = 0]
  /\ lost' = lost \ {pk}
  /\ Step(After)
  /\ UNCHANGED <<process_status, start_status, in_hours, procs, bell, Sig_No,
                 woken, poll_flag, events, missed>>

Stop_Process ==
  /\ dpc = "stop" /\ proc_no = 0
  /\ process_status' =
       [process_status EXCEPT ![pk] = IF Sig_No = "usr2" /\ @ = 1 THEN 2 ELSE @]
  /\ StopOne(pk)
  /\ UNCHANGED <<start_status, process_no, in_hours, st, old, bell, Sig_No, woken,
                 poll_flag, events, lost>>

\* Daemon_SHM_Process: a new segment from the files.  A process that has
\* attached the old one keeps it.
Reload ==
  /\ dpc = "reload"
  /\ process_status' = [p \in Progs |-> 1]
  /\ start_status' \in {start_status, [p \in Progs |-> 0]}
  /\ process_no' = [p \in Progs |-> 0]
  /\ old' = {x \in Progs \X Ids : st[x[1]][x[2]] \in {"attach", "work", "exit"}}
  /\ lost' = {}
  /\ dpc' = "restart" /\ pk' = 1
  /\ UNCHANGED <<in_hours, st, term, bell, Sig_No, woken, proc_no, poll_flag,
                 events, missed>>

\* User_Sleep(5), and Sig_No = 0 whatever has come since.
Doze ==
  /\ dpc = "doze"
  /\ Sig_No' = "none"
  /\ dpc' = Turn
  /\ UNCHANGED <<table, in_hours, procs, bell, pk, woken, proc_no, poll_flag,
                 events, lost, missed>>

Drain ==
  /\ dpc = "drain"
  /\ bell' = FALSE
  /\ dpc' = "start" /\ pk' = 1
  /\ UNCHANGED <<table, in_hours, procs, Sig_No, woken, proc_no, poll_flag,
                 events, lost, missed>>

\* A new process gets a number that nothing names any more.
Fork(p) ==
  \E i \in Ids :
    /\ st[p][i] = "none" /\ i # process_no[p]
    /\ \A j \in 1..(i - 1) : st[p][j] # "none" \/ j = process_no[p]
    /\ st' = [st EXCEPT ![p][i] = "fork"]
    /\ old' = old \ {<<p, i>>} /\ missed' = missed \ {<<p, i>>}

\* Start_Process at one program.
MayRun(p) ==
  \/ process_status[p] = 1 /\ process_no[p] = 0
  \/ process_status[p] = 2 /\ Sig_No = "usr1"

Start_Process ==
  LET p == pk
  IN /\ dpc \in {"start", "restart"} /\ proc_no = 0
     /\ IF start_status[p] # JOB_END /\ p \notin in_hours
        THEN StopOne(p) /\ UNCHANGED <<process_status, st, old>>
        ELSE /\ IF start_status[p] # JOB_END /\ MayRun(p)
                THEN /\ process_status' = [process_status EXCEPT ![p] = 1]
                     /\ Fork(p)
                ELSE UNCHANGED <<process_status, st, old, missed>>
             /\ Step(After)
             /\ UNCHANGED <<term, proc_no>>
     /\ UNCHANGED <<start_status, process_no, in_hours, bell, Sig_No, woken,
                    poll_flag, events, lost>>

DaemonStep ==
  \/ Timeout \/ Poll \/ User_Signal \/ Stop_Process \/ Forget \/ Reload \/ Doze
  \/ Drain \/ Start_Process

-----------------------------------------------------------------------------
(* The programs *)

Moves(p, i, from, to) ==
  /\ st[p][i] = from
  /\ st' = [st EXCEPT ![p][i] = to]

Event == events < MaxEvents /\ events' = events + 1

Exec(p, i) ==
  /\ Moves(p, i, "fork", "exec")
  /\ UNCHANGED <<table, in_hours, old, term, bell, Sig_No, daemon, events, lost,
                 missed>>

\* Mutant: a name in /proc is no reason to give up.
FaultyExists(p, i) == FALSE

Exists(p, i) == \E j \in Ids \ {i} : st[p][j] \in Named

Check_Exist(p, i) ==
  /\ Moves(p, i, "exec", IF Exists(p, i) THEN "none" ELSE "init")
  /\ UNCHANGED <<table, in_hours, old, term, bell, Sig_No, daemon, events, lost,
                 missed>>

\* Mutant: the number is written as soon as there is a segment.
FaultyNumberEarly(p, i) ==
  /\ Moves(p, i, "init", "attach")
  /\ process_no' = [process_no EXCEPT ![p] = i]
  /\ UNCHANGED <<process_status, start_status, in_hours, old, term, bell,
                 Sig_No, daemon, events, lost, missed>>

\* Mem_SHM attaches the segment there is now.
Mem_SHM(p, i) ==
  /\ Moves(p, i, "init", "attach")
  /\ UNCHANGED <<table, in_hours, old, term, bell, Sig_No, daemon, events, lost,
                 missed>>

\* The end of Init_Proc, which looks at no status.
Init_Proc(p, i) ==
  /\ Moves(p, i, "attach", "work")
  /\ process_no' = IF <<p, i>> \in old THEN process_no
                   ELSE [process_no EXCEPT ![p] = i]
  /\ UNCHANGED <<process_status, start_status, in_hours, old, term, bell,
                 Sig_No, daemon, events, lost, missed>>

\* Mutant: only the first line's branch clears the number.
FaultyLeaves(p, i) == UNCHANGED <<process_no, bell>>

\* Exit_Process up to the ring.  One that has the old segment goes by what
\* that one says of it.
Leaves(p, i) ==
  IF <<p, i>> \in old
  THEN bell' \in {bell, TRUE} /\ UNCHANGED process_no
  ELSE /\ process_no' = [process_no EXCEPT ![p] = 0]
       /\ bell' = (bell \/ (process_status[p] = 1 /\ start_status[p] # JOB_END))

\* A process ends of its own accord, and is in /proc until it has flushed.
Exit_Process(p, i) ==
  /\ Event
  /\ Moves(p, i, "work", "exit")
  /\ Leaves(p, i)
  /\ UNCHANGED <<process_status, start_status, in_hours, old, term, Sig_No,
                 daemon, lost, missed>>

\* Stat_Save out of the hours of the program.
Stat_Save(p, i) ==
  /\ Event
  /\ p \notin in_hours /\ <<p, i>> \notin old
  /\ Moves(p, i, "work", "exit")
  /\ process_status' = [process_status EXCEPT ![p] = 4]
  /\ process_no' = [process_no EXCEPT ![p] = 0]
  /\ Misses(p)
  /\ UNCHANGED <<start_status, in_hours, old, term, bell, Sig_No, daemon, lost>>

Gone(p, i) ==
  /\ Moves(p, i, "exit", "none")
  /\ process_status' =
       [process_status EXCEPT
          ![p] = IF @ = 4 /\ <<p, i>> \notin old THEN 2 ELSE @]
  /\ term' = term \ {<<p, i>>}
  /\ UNCHANGED <<start_status, process_no, in_hours, old, bell, Sig_No, daemon,
                 events, lost, missed>>

\* SIGTERM arrives: Exit_Process in the handler, and _exit at once.
End_Routine(p, i) ==
  /\ <<p, i>> \in term
  /\ st[p][i] \in {"work", "exit"}
  /\ st' = [st EXCEPT ![p][i] = "none"]
  /\ term' = term \ {<<p, i>>}
  /\ Leaves(p, i)
  /\ UNCHANGED <<process_status, start_status, in_hours, old, Sig_No, daemon,
                 events, lost, missed>>

\* The order sender has logged out for the day.
Log_Out(p, i) ==
  /\ Event
  /\ st[p][i] = "work" /\ <<p, i>> \notin old /\ start_status[p] # JOB_END
  /\ start_status' = [start_status EXCEPT ![p] = JOB_END]
  /\ process_status' = [process_status EXCEPT ![p] = 2]
  /\ bell' = TRUE
  /\ UNCHANGED <<process_no, in_hours, procs, Sig_No, daemon, lost, missed>>

\* Start_Client marks a program that is not running to be run.
Start_Client(p) ==
  /\ Event
  /\ process_status[p] # 1
  /\ start_status' = [start_status EXCEPT ![p] = 0]
  /\ process_status' = [process_status EXCEPT ![p] = 1]
  /\ bell' = TRUE
  /\ UNCHANGED <<process_no, in_hours, procs, Sig_No, daemon, lost, missed>>

\* SIGKILL, or SIGALRM without a handler.
Dies(p, i) ==
  /\ Event
  /\ st[p][i] # "none"
  /\ st' = [st EXCEPT ![p][i] = "none"]
  /\ term' = term \ {<<p, i>>}
  /\ lost' = IF process_no[p] = i THEN lost \cup {p} ELSE lost
  /\ UNCHANGED <<table, in_hours, old, bell, Sig_No, daemon, missed>>

ProcStep(p, i) ==
  \/ Exec(p, i) \/ Check_Exist(p, i) \/ Mem_SHM(p, i) \/ Init_Proc(p, i)
  \/ Gone(p, i) \/ End_Routine(p, i)

-----------------------------------------------------------------------------
(* Signals and the clock *)

\* Stop_Process blocks both signals.
Sig_Handler(s) ==
  /\ Event
  /\ dpc # "stop"
  /\ Sig_No' = s
  /\ bell' = (bell \/ s = "usr1")
  /\ UNCHANGED <<table, in_hours, procs, daemon, lost, missed>>

Hour(p) ==
  /\ Event
  /\ in_hours' = IF p \in in_hours THEN in_hours \ {p} ELSE in_hours \cup {p}
  /\ UNCHANGED <<table, procs, bell, Sig_No, daemon, lost, missed>>

Next ==
  \/ DaemonStep
  \/ \E p \in Progs, i \in Ids :
       \/ ProcStep(p, i) \/ Exit_Process(p, i) \/ Stat_Save(p, i)
       \/ Log_Out(p, i) \/ Dies(p, i)
  \/ \E p \in Progs : Start_Client(p) \/ Hour(p)
  \/ \E s \in {"usr1", "usr2"} : Sig_Handler(s)

\* The daemon and the processes run on; what ends or kills them need not happen.
Spec ==
  /\ Init /\ [][Next]_vars
  /\ WF_vars(DaemonStep)
  /\ \A p \in Progs, i \in Ids : WF_vars(ProcStep(p, i))

-----------------------------------------------------------------------------
(* Properties *)

TypeOK ==
  /\ process_status \in [Progs -> {1, 2, 4}]
  /\ start_status \in [Progs -> {0, JOB_END}]
  /\ process_no \in [Progs -> Ids \cup {0}]
  /\ in_hours \subseteq Progs /\ lost \subseteq Progs
  /\ st \in [Progs -> [Ids -> {"none", "fork"} \cup Named]]
  /\ old \subseteq Progs \X Ids /\ missed \subseteq Progs \X Ids
  /\ term \subseteq Progs \X Ids
  /\ \A x \in term : st[x[1]][x[2]] \in {"work", "exit"}
  /\ bell \in BOOLEAN /\ woken \in BOOLEAN
  /\ Sig_No \in {"none", "usr1", "usr2"}
  /\ dpc \in {"poll", "signal", "stop", "reload", "restart", "doze", "drain",
              "start"}
  /\ pk \in Progs /\ events \in 0..MaxEvents
  /\ proc_no \in Ids \cup {0} /\ poll_flag \in BOOLEAN

\* A program never has two processes past Check_Exist, however often it is
\* started before the first has written its number: two readers of one cursor
\* would each handle every record.
OneWorks ==
  \A p \in Progs, i, j \in Ids :
    {st[p][i], st[p][j]} \subseteq Past => i = j

\* process_no names a process that works, so that the daemon can stop it,
\* unless that process died without its handler; and a process that works is
\* named, unless SIGTERM is on its way to it or it was starting when the
\* daemon read the number of its predecessor, which it set to 0 too late.
NumberIsWorker ==
  \A p \in Progs, i \in Ids :
    /\ process_no[p] = i /\ p \notin lost
         => st[p][i] = "work" /\ <<p, i>> \notin old
    /\ st[p][i] = "work" /\ <<p, i>> \notin old /\ process_no[p] # i
         => <<p, i>> \in term \cup missed

\* What has been stopped ends, and nothing works on a segment that has been
\* removed, except a process that had no number yet when all were stopped.
StopReachesAll ==
  \A p \in Progs, i \in Ids :
    /\ st[p][i] = "work"
    /\ \/ <<p, i>> \in old
       \/ process_status[p] = 2 /\ start_status[p] # JOB_END
    => <<p, i>> \in term \cup missed

\* A program that should run comes to work, also when its successor met it in
\* /proc and gave up, unless it died without its handler or a process keeps
\* its name on a segment that has been removed.
Due(p) == process_status[p] = 1 /\ start_status[p] # JOB_END /\ p \in in_hours

Works(p) == \E i \in Ids : st[p][i] = "work"

Restarted == \A p \in Progs : Due(p) ~> Works(p) \/ ~Due(p) \/ p \in lost

=============================================================================
