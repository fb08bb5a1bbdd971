-------------------------------- MODULE HaPair --------------------------------
(***************************************************************************)
(* The bond quote receivers of the two production servers                  *)
(* (src/PB/pb_7100_ur.c; src/PC/pc_7100_ur.c is the same machine).         *)
(*                                                                         *)
(* Both receive the exchange's multicast; only one forwards it over TCP,   *)
(* because quotes carry no number a receiver could drop doubles by.  The   *)
(* primary always forwards and sends one heartbeat a second with the       *)
(* number of quotes it received since the last one.  The secondary stands  *)
(* by, takes over when heartbeats stop or report no quotes, and falls back *)
(* when they are back.                                                     *)
(*                                                                         *)
(* Time is counted in ticks of one second.  The main loop runs once for    *)
(* every quote and at least once a second (select), except while it is     *)
(* inside connect.  One turn is what happens from the return of Recv_Data  *)
(* to its next call: the quote, then the top of the loop.                  *)
(***************************************************************************)
EXTENDS Naturals, Sequences, FiniteSets, FiniteSetsExt

CONSTANTS Primary, Secondary,
          HB_SEND_INTVL, HB_TIMEOUT, HB_STABLE_COUNT, HB_DATA_TIMEOUT,
          TCP_RETRY_INTVL,
          ConnectLimit,   \* the alarm Device_Open sets for Connect2, in ticks
          MaxFaults       \* bound: heartbeats lost and processes stopped

ASSUME TimesAssumption ==
  /\ {HB_SEND_INTVL, HB_TIMEOUT, HB_STABLE_COUNT, HB_DATA_TIMEOUT,
      TCP_RETRY_INTVL, ConnectLimit} \subseteq Nat \ {0}
  /\ MaxFaults \in Nat
ASSUME HostsAssumption == Primary # Secondary

VARIABLES
  up,        \* hosts whose receiver runs
  turned,    \* hosts whose loop has turned since the last tick
  tcp,       \* per host: "off", "first" or "opening" (in connect), "on"
  wait,      \* per host: ticks since the connect began, up to the interval
  mine,      \* the primary's my_recv_cnt, 0 or more than 0 (1)
  unsent,    \* ticks since hb_last_send
  net,       \* heartbeats not yet read: their recv_cnt, 0 or 1
  silent,    \* ticks since hb_last_recv, as far as HB_TIMEOUT
  stable,    \* hb_stable_cnt, as far as HB_STABLE_COUNT
  pri,       \* pri_recv_cnt, 0 or 1
  noData,    \* pri_no_data_cnt
  active,    \* the secondary's ha_active; the primary's is always ON
  faults,    \* bound: faults that have happened
  calm,      \* history: no heartbeat lost and no process stopped so far
  dark       \* history: ticks with no primary and the secondary standing by

beats == <<mine, unsent, net>>
judge == <<silent, stable, pri, noData, active>>
past  == <<faults, calm, dark>>
vars  == <<up, turned, tcp, wait, mine, unsent, net, silent, stable, pri,
           noData, active, faults, calm, dark>>

Host == {Primary, Secondary}
Connecting(h) == tcp[h] \in {"first", "opening"}

\* A counter that is only compared with a bound stops there.
Upto(bound, n) == Min({bound, n})

\* Counts of dark ticks beyond this one are not told apart.
DarkCap == HB_TIMEOUT + 3

\* Both have just been started; the primary is in its first Device_Open.
Init ==
  /\ up = Host /\ turned = {}
  /\ tcp = [h \in Host |-> IF h = Primary THEN "first" ELSE "off"]
  /\ wait = [h \in Host |-> IF h = Primary THEN 0 ELSE TCP_RETRY_INTVL]
  /\ mine = 0 /\ unsent = HB_SEND_INTVL /\ net = <<>>
  /\ silent = 0 /\ stable = 0 /\ pri = 0 /\ noData = 0 /\ active = FALSE
  /\ faults = 0 /\ calm = TRUE /\ dark = 0

-----------------------------------------------------------------------------
(* The TCP connection *)

\* What a quote does to the connection: nothing, or Select_Send fails and
\* Device_Close closes it.
AfterForward(h, forwards, sent) ==
  IF forwards /\ tcp[h] = "on" /\ ~sent THEN "off" ELSE tcp[h]

\* TCP management at the top of the loop, with ha_active as just decided:
\* Device_Open at most every TCP_RETRY_INTVL, Device_Close_HA on standby.
Manage(h, line, on) ==
  LET tries == on /\ line = "off" /\ wait[h] >= TCP_RETRY_INTVL
  IN /\ tcp' = [tcp EXCEPT ![h] = IF tries THEN "opening"
                                  ELSE IF on THEN line ELSE "off"]
     /\ wait' = [wait EXCEPT ![h] = IF tries THEN 0 ELSE @]

\* connect returns.  tcp_last_try is not set by the Device_Open before the
\* loop, so that after it the next attempt is due at once.
Opened(h, ok) ==
  /\ h \in up /\ Connecting(h)
  /\ tcp' = [tcp EXCEPT ![h] = IF ok THEN "on" ELSE "off"]
  /\ wait' = [wait EXCEPT ![h] = IF tcp[h] = "first" THEN TCP_RETRY_INTVL
                                 ELSE @]
  /\ turned' = turned \cup {h}
  /\ UNCHANGED <<up, beats, judge, past>>

\* What a stop leaves: its socket and its counters are gone.
Gone(h) ==
  /\ up' = up \ {h}
  /\ tcp' = [tcp EXCEPT ![h] = "off"]
  /\ wait' = [wait EXCEPT ![h] = TCP_RETRY_INTVL]
  /\ net' = IF h = Secondary THEN <<>> ELSE net
  /\ calm' = FALSE
  /\ IF h = Primary THEN mine' = 0 /\ unsent' = HB_SEND_INTVL
                    ELSE UNCHANGED <<mine, unsent>>
  /\ IF h = Secondary
     THEN /\ silent' = 0 /\ stable' = 0 /\ pri' = 0 /\ noData' = 0
          /\ active' = FALSE
     ELSE UNCHANGED judge
  /\ turned' = turned \cup {h}
  /\ dark' = 0

\* connect has not answered within the alarm.  No process of this system
\* installs a handler for SIGALRM: the signal ends the process.
AlarmKills(h) ==
  /\ h \in up /\ Connecting(h) /\ wait[h] >= ConnectLimit
  /\ Gone(h)
  /\ UNCHANGED faults

-----------------------------------------------------------------------------
(* The primary *)

\* HA_Heartbeat_Send: one heartbeat an interval, which empties the count.
HA_Heartbeat_Send(count) ==
  IF unsent < HB_SEND_INTVL
  THEN mine' = count /\ UNCHANGED <<unsent, net>>
  ELSE /\ mine' = 0 /\ unsent' = 0
       /\ net' = IF Secondary \in up THEN Append(net, count) ELSE net

\* A turn of the primary, with a quote (1) or without (0).
PrimaryTurn(quote, sent) ==
  /\ Primary \in up /\ ~Connecting(Primary)
  /\ HA_Heartbeat_Send(Max({mine, quote}))
  /\ Manage(Primary, AfterForward(Primary, quote = 1, sent), TRUE)
  /\ turned' = turned \cup {Primary}
  /\ UNCHANGED <<up, judge, past>>

-----------------------------------------------------------------------------
(* The secondary *)

\* Recv_Data empties the heartbeat socket before it reads a quote.
HeardPri    == IF net = <<>> THEN pri ELSE net[Len(net)]
HeardSilent == IF net = <<>> THEN silent ELSE 0
HeardStable == Upto(HB_STABLE_COUNT, stable + Len(net))

\* Mutant: > for >=.
FaultyLateTimeOut == ~active /\ HeardSilent > HB_TIMEOUT

\* HA_Check_Failover's verdicts, on what was just heard and the quotes
\* received since its last call, which is the last turn.
TimedOut    == ~active /\ HeardSilent >= HB_TIMEOUT
PrimaryDry(quote) == ~active /\ HeardPri = 0 /\ quote = 1
FailsOver(quote) ==
  \/ TimedOut
  \/ PrimaryDry(quote) /\ noData + 1 >= HB_DATA_TIMEOUT
Weighs == active /\ HeardSilent < HB_TIMEOUT /\ HeardStable >= HB_STABLE_COUNT
\* Mutant: hands back only when it has quotes itself.
FaultyBothHaveQuotes(quote) == Weighs /\ HeardPri > 0 /\ quote = 1

FailsBack(quote) == Weighs /\ (HeardPri > 0 \/ quote = 0)

HA_Check_Failover(quote) ==
  /\ active' = ((active \/ FailsOver(quote)) /\ ~FailsBack(quote))
  /\ stable' = IF FailsOver(quote) \/ Weighs
                  \/ (active /\ HeardSilent >= HB_TIMEOUT)
               THEN 0 ELSE HeardStable
  /\ noData' = IF FailsOver(quote) \/ FailsBack(quote) THEN 0
               ELSE IF PrimaryDry(quote) THEN noData + 1
               ELSE IF active THEN noData ELSE 0

SecondaryTurn(quote, sent) ==
  /\ Secondary \in up /\ ~Connecting(Secondary)
  /\ net' = <<>> /\ pri' = HeardPri /\ silent' = HeardSilent
  /\ HA_Check_Failover(quote)
  /\ Manage(Secondary, AfterForward(Secondary, active /\ quote = 1, sent),
            active')
  /\ turned' = turned \cup {Secondary}
  /\ dark' = IF active' THEN 0 ELSE dark
  /\ UNCHANGED <<up, mine, unsent, faults, calm>>

-----------------------------------------------------------------------------
(* Time, faults and restarts *)

\* Mutant: Connect without a limit.
FaultyNoConnectLimit(h) == Connecting(h) \/ h \in turned

\* A second passes only when every running loop has turned in it or is
\* inside connect, which the alarm limits.
MayWait(h) == IF Connecting(h) THEN wait[h] < ConnectLimit ELSE h \in turned

Tick ==
  /\ \A h \in up : MayWait(h)
  /\ turned' = {}
  /\ wait' = [h \in Host |-> Upto(TCP_RETRY_INTVL, wait[h] + 1)]
  /\ unsent' = Upto(HB_SEND_INTVL, unsent + 1)
  /\ silent' = Upto(HB_TIMEOUT, silent + 1)
  /\ dark' = IF Primary \notin up /\ Secondary \in up /\ ~active
             THEN Upto(DarkCap, dark + 1) ELSE 0
  /\ UNCHANGED <<up, tcp, mine, net, stable, pri, noData, active, faults,
                 calm>>

Lose ==
  /\ faults < MaxFaults /\ net # <<>>
  /\ net' = Tail(net) /\ faults' = faults + 1 /\ calm' = FALSE
  /\ UNCHANGED <<up, turned, tcp, wait, mine, unsent, judge, dark>>

Stop(h) ==
  /\ faults < MaxFaults /\ h \in up
  /\ faults' = faults + 1
  /\ Gone(h)

\* HA_Init: the secondary takes the time of its start for the time of the
\* last heartbeat and leaves every count at zero.  A restart takes a second.
Start(h) ==
  /\ h \notin up /\ h \notin turned
  /\ up' = up \cup {h}
  /\ turned' = turned \cup {h}
  /\ tcp' = [tcp EXCEPT ![h] = IF h = Primary THEN "first" ELSE "off"]
  /\ wait' = [wait EXCEPT ![h] = IF h = Primary THEN 0 ELSE @]
  /\ silent' = IF h = Secondary THEN 0 ELSE silent
  /\ dark' = 0
  /\ UNCHANGED <<beats, stable, pri, noData, active, faults, calm>>

PrimaryTurns == \E quote \in {0, 1}, sent \in BOOLEAN :
                  PrimaryTurn(quote, sent)
SecondaryTurns == \E quote \in {0, 1}, sent \in BOOLEAN :
                    SecondaryTurn(quote, sent)
ConnectReturns(h) == AlarmKills(h) \/ \E ok \in BOOLEAN : Opened(h, ok)

Next ==
  \/ PrimaryTurns
  \/ SecondaryTurns
  \/ \E h \in Host : ConnectReturns(h) \/ Stop(h) \/ Start(h)
  \/ Lose
  \/ Tick

\* Time passes, loops turn and connect returns or is interrupted.  No
\* fairness is given to faults or to restarts.
Spec ==
  /\ Init /\ [][Next]_vars
  /\ WF_vars(Tick)
  /\ WF_vars(PrimaryTurns) /\ WF_vars(SecondaryTurns)
  /\ \A h \in Host : WF_vars(ConnectReturns(h))

-----------------------------------------------------------------------------
(* Properties *)

\* While no heartbeat is lost and no process stops, the secondary never takes
\* over for want of heartbeats: a primary that tries to connect again and
\* again still sends them in time (the limit of Connect2 in Device_Open, the
\* interval of the attempts in the main loop and no sleep in Device_Close).
LivePrimaryBeats ==
  [][~active /\ active' /\ silent' >= HB_TIMEOUT => ~calm]_vars

\* When the primary's process is gone and the secondary runs, somebody
\* forwards again after HB_TIMEOUT seconds and the one in which the last
\* heartbeat was still under way.
OutageBounded == dark <= HB_TIMEOUT + 1

\* Both run and every heartbeat reports quotes.
Healthy == up = Host /\ pri = 1 /\ \A i \in DOMAIN net : net[i] = 1

\* Two receivers that forward do not stay so: once both run and the primary
\* has quotes for good, the secondary stands by for good, whatever its own
\* connection does.
SplitBrainEnds == <>[]Healthy => <>[](~active)

\* The comments of Device_Open and of the main loop take a connect that is
\* not answered for a failed attempt after two seconds.
SilentPeerIsSurvived == [][up \ up' # {} => faults' > faults]_vars

=============================================================================
