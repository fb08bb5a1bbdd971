---------------------------- MODULE HaPair_proofs ----------------------------
(***************************************************************************)
(* Proofs about HaPair, for every choice of its intervals and every number *)
(* of faults.                                                              *)
(*                                                                         *)
(* OutageInv: a secondary that stands by is never inside connect, so it    *)
(* turns every second, and after each of its turns the silence is below    *)
(* the limit; once the last heartbeat of a dead primary is read, the       *)
(* silence grows with the outage.  BeatInv: while nothing is lost and      *)
(* nothing stops, the silence the secondary has not read anything in is    *)
(* bounded by where the primary is between two of its heartbeats.          *)
(***************************************************************************)
EXTENDS HaPair, SequenceTheorems, TLAPS

-------------------------------------------------------------------------------
\* The inductive invariants

Types ==
  /\ up \subseteq Host /\ turned \subseteq Host
  /\ tcp \in [Host -> {"off", "first", "opening", "on"}]
  /\ wait \in [Host -> Nat]
  /\ mine \in Nat /\ unsent \in Nat /\ net \in Seq(Nat)
  /\ silent \in Nat /\ stable \in Nat
  /\ dark \in Nat

\* Only the one that forwards connects.
StandbyInv == ~active => tcp[Secondary] = "off"

\* A turn that leaves the secondary standing by has heard of the primary.
HeardInv ==
  Secondary \in up \cap turned /\ ~active => silent < HB_TIMEOUT

DarkInv ==
  dark > 0 => Primary \notin up /\ Secondary \in up /\ ~active

\* After the turn that reads the last heartbeat the outage is a silence.
SilenceInv ==
  dark > 0 =>
    /\ dark <= silent + 1
    /\ dark > 1 \/ Secondary \in turned => net = <<>>

OutageInv == StandbyInv /\ HeardInv /\ DarkInv /\ SilenceInv /\ OutageBounded

\* The longest silence by where the primary is: in connect, which it begins in
\* a turn that leaves unsent below the interval, after a turn, or before it.
SilenceByPhase ==
  /\ Connecting(Primary) => silent <= HB_SEND_INTVL - 1 + wait[Primary]
  /\ ~Connecting(Primary) => silent <= HB_SEND_INTVL + ConnectLimit
  /\ ~Connecting(Primary) /\ Primary \in turned =>
       silent <= HB_SEND_INTVL - 1 + ConnectLimit

BeatInv ==
  calm =>
    /\ up = Host
    /\ Connecting(Primary) => wait[Primary] <= ConnectLimit
    /\ net = <<>> => /\ SilenceByPhase
                     /\ unsent < HB_SEND_INTVL => silent <= unsent

-------------------------------------------------------------------------------
\* Types

LEMMA Times ==
  /\ HB_SEND_INTVL \in Nat \ {0} /\ HB_TIMEOUT \in Nat \ {0}
  /\ HB_STABLE_COUNT \in Nat \ {0} /\ HB_DATA_TIMEOUT \in Nat \ {0}
  /\ TCP_RETRY_INTVL \in Nat \ {0} /\ ConnectLimit \in Nat \ {0}
  /\ DarkCap \in Nat
BY TimesAssumption DEF DarkCap

LEMMA Hosts == Primary \in Host /\ Secondary \in Host /\ Primary # Secondary
BY HostsAssumption DEF Host

LEMMA MinOfTwo ==
  ASSUME NEW a \in Nat, NEW b \in Nat
  PROVE  Min({a, b}) = IF a <= b THEN a ELSE b
<1> DEFINE m == IF a <= b THEN a ELSE b
<1>1. m \in {a, b} /\ \A y \in {a, b} : m <= y
  OBVIOUS
<1>2. \A x \in {a, b} : (\A y \in {a, b} : x <= y) => x = m
  OBVIOUS
<1>3. QED
  BY <1>1, <1>2, Zenon DEF Min

LEMMA MaxOfTwo ==
  ASSUME NEW a \in Nat, NEW b \in Nat
  PROVE  Max({a, b}) \in Nat
<1> DEFINE m == IF a >= b THEN a ELSE b
<1>1. m \in {a, b} /\ \A y \in {a, b} : m >= y
  OBVIOUS
<1>2. \A x \in {a, b} : (\A y \in {a, b} : x >= y) => x = m
  OBVIOUS
<1>3. Max({a, b}) = m
  BY <1>1, <1>2, Zenon DEF Max
<1>4. QED
  BY <1>3

LEMMA UptoBound ==
  ASSUME NEW b \in Nat, NEW n \in Nat
  PROVE  /\ Upto(b, n) \in Nat /\ Upto(b, n) <= n
         /\ Upto(b, n) = IF b <= n THEN b ELSE n
<1>1. Upto(b, n) = IF b <= n THEN b ELSE n
  BY MinOfTwo DEF Upto
<1>2. QED
  BY <1>1

\* What each step does, as far as the invariants look.

LEMMA ManageEffect ==
  ASSUME Types, NEW h \in Host, NEW line \in {"off", "first", "opening", "on"},
         line \notin {"first", "opening"}, NEW on, Manage(h, line, on)
  PROVE  /\ tcp' \in [Host -> {"off", "first", "opening", "on"}]
         /\ wait' \in [Host -> Nat]
         /\ \A k \in Host \ {h} : tcp'[k] = tcp[k] /\ wait'[k] = wait[k]
         /\ Connecting(h)' => wait'[h] = 0
         /\ ~on => tcp'[h] = "off"
<1>1. PICK tries \in BOOLEAN :
        tries = (on /\ line = "off" /\ wait[h] >= TCP_RETRY_INTVL)
  BY Zenon
<1>2. /\ tcp' = [tcp EXCEPT ![h] = IF tries THEN "opening"
                                  ELSE IF on THEN line ELSE "off"]
      /\ wait' = [wait EXCEPT ![h] = IF tries THEN 0 ELSE wait[h]]
  BY <1>1, Zenon DEF Manage
<1>3. tries => on
  BY <1>1, Zenon
<1>4. CASE tries
  <2>1. /\ tcp' = [tcp EXCEPT ![h] = "opening"] /\ wait' = [wait EXCEPT ![h] = 0]
    BY <1>2, <1>4, Zenon
  <2>2. QED
    BY <1>3, <1>4, <2>1 DEF Types
<1>5. CASE ~tries
  <2>1. wait' = wait
    <3>1. wait' = [wait EXCEPT ![h] = wait[h]]
      BY <1>2, <1>5, Zenon
    <3>2. QED
      BY <3>1 DEF Types
  <2>2. CASE on
    <3>1. tcp' = [tcp EXCEPT ![h] = line]
      BY <1>2, <1>5, <2>2, Zenon
    <3>2. ~Connecting(h)'
      BY <3>1 DEF Types, Connecting
    <3>3. /\ tcp' \in [Host -> {"off", "first", "opening", "on"}]
          /\ \A k \in Host \ {h} : tcp'[k] = tcp[k]
      BY <3>1 DEF Types
    <3>4. wait' \in [Host -> Nat]
      BY <2>1 DEF Types
    <3>5. QED
      BY <2>1, <2>2, <3>2, <3>3, <3>4, Zenon
  <2>3. CASE ~on
    <3>1. tcp' = [tcp EXCEPT ![h] = "off"]
      BY <1>2, <1>5, <2>3, Zenon
    <3>2. ~Connecting(h)' /\ tcp'[h] = "off"
      BY <3>1 DEF Types, Connecting
    <3>3. /\ tcp' \in [Host -> {"off", "first", "opening", "on"}]
          /\ \A k \in Host \ {h} : tcp'[k] = tcp[k]
      BY <3>1 DEF Types
    <3>4. wait' \in [Host -> Nat]
      BY <2>1 DEF Types
    <3>5. QED
      BY <2>1, <3>2, <3>3, <3>4, Zenon
  <2>4. QED
    BY <2>2, <2>3
<1>6. QED
  BY <1>4, <1>5

LEMMA PrimaryEffect ==
  ASSUME Types, PrimaryTurns
  PROVE  /\ Types'
         /\ Primary \in up /\ ~Connecting(Primary)
         /\ up' = up /\ turned' = turned \cup {Primary} /\ dark' = dark
         /\ silent' = silent
         /\ tcp'[Secondary] = tcp[Secondary]
         /\ Connecting(Primary)' => wait'[Primary] = 0
         /\ unsent' < HB_SEND_INTVL
         /\ \/ unsent' = unsent /\ net' = net
            \/ Secondary \in up /\ net' # <<>>
            \/ Secondary \notin up /\ net' = net
<1>1. PICK quote \in {0, 1}, sent \in BOOLEAN : PrimaryTurn(quote, sent)
  BY DEF PrimaryTurns
<1>2. /\ Primary \in up /\ ~Connecting(Primary)
      /\ HA_Heartbeat_Send(Max({mine, quote}))
      /\ Manage(Primary, AfterForward(Primary, quote = 1, sent), TRUE)
      /\ turned' = turned \cup {Primary}
      /\ up' = up /\ silent' = silent /\ stable' = stable /\ dark' = dark
  BY <1>1 DEF PrimaryTurn, judge, past
<1>3. AfterForward(Primary, quote = 1, sent) \in {"off", "on"}
  BY <1>2, Hosts DEF AfterForward, Connecting, Types
<1>4. /\ tcp' \in [Host -> {"off", "first", "opening", "on"}]
      /\ wait' \in [Host -> Nat]
      /\ tcp'[Secondary] = tcp[Secondary]
      /\ Connecting(Primary)' => wait'[Primary] = 0
  BY <1>2, <1>3, Hosts, ManageEffect
<1>5. Max({mine, quote}) \in Nat
  BY MaxOfTwo DEF Types
<1>6. PICK c \in Nat : c = Max({mine, quote})
  BY <1>5
<1>7. HA_Heartbeat_Send(c)
  BY <1>2, <1>6
<1>8. Append(net, c) \in Seq(Nat) /\ Append(net, c) # <<>>
  <2>1. net \in Seq(Nat)
    BY DEF Types
  <2>2. Append(net, c) \in Seq(Nat) /\ Len(Append(net, c)) = Len(net) + 1
        /\ Len(net) \in Nat
    BY <2>1, AppendProperties, LenProperties
  <2>3. Len(Append(net, c)) # 0
    BY <2>2
  <2>4. QED
    BY <2>2, <2>3, EmptySeq
<1>9. /\ mine' \in Nat /\ unsent' \in Nat /\ net' \in Seq(Nat)
      /\ unsent' < HB_SEND_INTVL
      /\ \/ unsent' = unsent /\ net' = net
         \/ Secondary \in up /\ net' # <<>>
         \/ Secondary \notin up /\ net' = net
  <2>1. CASE unsent < HB_SEND_INTVL
    BY <1>7, <2>1 DEF HA_Heartbeat_Send, Types
  <2>2. CASE ~(unsent < HB_SEND_INTVL)
    BY <1>7, <1>8, <2>2, Times DEF HA_Heartbeat_Send, Types
  <2>3. QED
    BY <2>1, <2>2
<1>10. up' \subseteq Host /\ turned' \subseteq Host
  BY <1>2, Hosts DEF Types
<1>11. Types'
  BY <1>2, <1>4, <1>9, <1>10 DEF Types
<1>12. QED
  BY <1>2, <1>4, <1>9, <1>11

LEMMA SecondaryEffect ==
  ASSUME Types, SecondaryTurns
  PROVE  /\ Types'
         /\ Secondary \in up /\ ~Connecting(Secondary)
         /\ up' = up /\ turned' = turned \cup {Secondary}
         /\ unsent' = unsent /\ net' = <<>>
         /\ \/ net = <<>> /\ silent' = silent
            \/ net # <<>> /\ silent' = 0
         /\ tcp'[Primary] = tcp[Primary] /\ wait'[Primary] = wait[Primary]
         /\ ~active' => tcp'[Secondary] = "off" /\ silent' < HB_TIMEOUT
                        /\ dark' = dark
         /\ active' => dark' = 0
<1>1. PICK quote \in {0, 1}, sent \in BOOLEAN : SecondaryTurn(quote, sent)
  BY DEF SecondaryTurns
<1> DEFINE line == AfterForward(Secondary, active /\ quote = 1, sent)
<1>2. /\ Secondary \in up /\ ~Connecting(Secondary)
      /\ net' = <<>> /\ silent' = HeardSilent
      /\ HA_Check_Failover(quote)
      /\ Manage(Secondary, line, active')
      /\ turned' = turned \cup {Secondary}
      /\ up' = up /\ mine' = mine /\ unsent' = unsent
      /\ dark' = IF active' THEN 0 ELSE dark
  BY <1>1, Zenon DEF SecondaryTurn
<1>3. line \in {"off", "on"}
  <2>1. line \in {"off", tcp[Secondary]}
    BY Zenon DEF AfterForward
  <2>2. tcp[Secondary] \in {"off", "on"}
    BY <1>2, Hosts DEF Connecting, Types
  <2>3. QED
    BY <2>1, <2>2
<1> HIDE DEF line
<1>4. /\ tcp' \in [Host -> {"off", "first", "opening", "on"}]
      /\ wait' \in [Host -> Nat]
      /\ tcp'[Primary] = tcp[Primary] /\ wait'[Primary] = wait[Primary]
      /\ ~active' => tcp'[Secondary] = "off"
  <2>1. PICK l \in {"off", "on"} : l = line
    BY <1>3
  <2>2. PICK b : b = active'
    BY Zenon
  <2>3. Manage(Secondary, l, b)
    BY <1>2, <2>1, <2>2, Zenon
  <2>4. /\ tcp' \in [Host -> {"off", "first", "opening", "on"}]
        /\ wait' \in [Host -> Nat]
        /\ \A k \in Host \ {Secondary} : tcp'[k] = tcp[k] /\ wait'[k] = wait[k]
        /\ ~b => tcp'[Secondary] = "off"
    BY <2>3, Hosts, ManageEffect
  <2>5. Primary \in Host \ {Secondary}
    BY Hosts
  <2>6. QED
    BY <2>2, <2>4, <2>5, Zenon
<1>5. /\ HeardSilent \in Nat
      /\ \/ net = <<>> /\ HeardSilent = silent
         \/ net # <<>> /\ HeardSilent = 0
  BY DEF HeardSilent, Types
<1>6. ~active' => HeardSilent < HB_TIMEOUT
  <2>1. ~active' => (~active /\ ~FailsOver(quote)) \/ FailsBack(quote)
    BY <1>2, Zenon DEF HA_Check_Failover
  <2>2. FailsBack(quote) => HeardSilent < HB_TIMEOUT
    BY Zenon DEF FailsBack, Weighs
  <2>3. ~active /\ ~FailsOver(quote) => ~(HeardSilent >= HB_TIMEOUT)
    BY Zenon DEF FailsOver, TimedOut
  <2>4. ~(HeardSilent >= HB_TIMEOUT) => HeardSilent < HB_TIMEOUT
    BY <1>5, Times
  <2>5. QED
    BY <2>1, <2>2, <2>3, <2>4, Zenon
<1>7. stable' \in Nat
  <2>1. stable' = 0 \/ stable' = HeardStable
    BY <1>2, Zenon DEF HA_Check_Failover
  <2>2. HeardStable \in Nat
    <3>1. stable + Len(net) \in Nat
      BY LenProperties DEF Types
    <3>2. QED
      BY <3>1, Times, UptoBound DEF HeardStable
  <2>3. QED
    BY <2>1, <2>2
<1>8. /\ ~active' => dark' = dark
      /\ active' => dark' = 0
      /\ dark' = dark \/ dark' = 0
  BY <1>2, Zenon
<1>9. /\ up' \subseteq Host /\ turned' \subseteq Host /\ dark' \in Nat
      /\ net' \in Seq(Nat)
  BY <1>2, <1>8, Hosts, EmptySeq DEF Types
<1>10. Types'
  BY <1>2, <1>4, <1>5, <1>7, <1>9 DEF Types
<1>11. QED
  BY <1>2, <1>4, <1>5, <1>6, <1>8, <1>10, Zenon

LEMMA OpenedEffect ==
  ASSUME Types, NEW h \in Host, NEW ok \in BOOLEAN, Opened(h, ok)
  PROVE  /\ Types'
         /\ h \in up /\ Connecting(h) /\ ~Connecting(h)'
         /\ \A k \in Host \ {h} : tcp'[k] = tcp[k] /\ wait'[k] = wait[k]
         /\ up' = up /\ turned' = turned \cup {h} /\ dark' = dark
         /\ silent' = silent /\ unsent' = unsent /\ net' = net
<1>1. PICK line \in {"on", "off"} : tcp' = [tcp EXCEPT ![h] = line]
  <2>1. CASE ok
    BY <2>1, Zenon DEF Opened
  <2>2. CASE ~ok
    BY <2>2, Zenon DEF Opened
  <2>3. QED
    BY <2>1, <2>2
<1>2. PICK w \in Nat : wait' = [wait EXCEPT ![h] = w]
  <2>1. wait[h] \in Nat
    BY DEF Types
  <2>2. \/ wait' = [wait EXCEPT ![h] = TCP_RETRY_INTVL]
        \/ wait' = [wait EXCEPT ![h] = wait[h]]
    BY Zenon DEF Opened
  <2>3. QED
    BY <2>1, <2>2, Times
<1>3. /\ h \in up /\ Connecting(h)
      /\ up' = up /\ turned' = turned \cup {h} /\ dark' = dark
      /\ silent' = silent /\ unsent' = unsent /\ net' = net
      /\ mine' = mine /\ stable' = stable
  BY Zenon DEF Opened, beats, judge, past
<1>4. ~Connecting(h)' /\ \A k \in Host \ {h} : tcp'[k] = tcp[k]
                                               /\ wait'[k] = wait[k]
  BY <1>1, <1>2 DEF Connecting, Types
<1>5. Types'
  BY <1>1, <1>2, <1>3 DEF Types
<1>6. QED
  BY <1>3, <1>4, <1>5

LEMMA GoneEffect ==
  ASSUME Types, NEW h \in Host, Gone(h)
  PROVE  /\ Types'
         /\ up' = up \ {h} /\ turned' = turned \cup {h} /\ dark' = 0
         /\ h = Primary => tcp'[Secondary] = tcp[Secondary]
                           /\ silent' = silent
         /\ h = Secondary => tcp'[Secondary] = "off"
<1>1. /\ up' = up \ {h} /\ turned' = turned \cup {h} /\ dark' = 0
      /\ tcp' = [tcp EXCEPT ![h] = "off"]
      /\ wait' = [wait EXCEPT ![h] = TCP_RETRY_INTVL]
      /\ net' = IF h = Secondary THEN <<>> ELSE net
  BY Zenon DEF Gone
<1>2. \/ mine' = 0 /\ unsent' = HB_SEND_INTVL
      \/ mine' = mine /\ unsent' = unsent
  BY Zenon DEF Gone
<1>3. \/ h = Secondary /\ silent' = 0 /\ stable' = 0
      \/ h # Secondary /\ silent' = silent /\ stable' = stable
  BY Zenon DEF Gone, judge
<1>4. /\ h = Primary => tcp'[Secondary] = tcp[Secondary]
                        /\ silent' = silent
      /\ h = Secondary => tcp'[Secondary] = "off"
  BY <1>1, <1>3, Hosts DEF Types
<1>5. net' \in Seq(Nat)
  BY <1>1, EmptySeq DEF Types
<1>6. Types'
  BY <1>1, <1>2, <1>3, <1>5, Times DEF Types
<1>7. QED
  BY <1>1, <1>4, <1>6

LEMMA StartEffect ==
  ASSUME Types, NEW h \in Host, Start(h)
  PROVE  /\ Types'
         /\ h \notin up /\ up' = up \cup {h} /\ turned' = turned \cup {h}
         /\ dark' = 0
         /\ h = Primary => tcp'[Secondary] = tcp[Secondary]
                           /\ silent' = silent
         /\ h = Secondary => tcp'[Secondary] = "off" /\ silent' = 0
<1>1. /\ h \notin up /\ up' = up \cup {h} /\ turned' = turned \cup {h}
      /\ dark' = 0
      /\ tcp' = [tcp EXCEPT ![h] = IF h = Primary THEN "first" ELSE "off"]
      /\ wait' = [wait EXCEPT ![h] = IF h = Primary THEN 0 ELSE wait[h]]
      /\ silent' = IF h = Secondary THEN 0 ELSE silent
      /\ mine' = mine /\ unsent' = unsent /\ net' = net /\ stable' = stable
  BY Zenon DEF Start, beats
<1>2. /\ h = Primary => tcp'[Secondary] = tcp[Secondary]
                        /\ silent' = silent
      /\ h = Secondary => tcp'[Secondary] = "off" /\ silent' = 0
  BY <1>1, Hosts DEF Types
<1>3. Types'
  BY <1>1 DEF Types
<1>4. QED
  BY <1>1, <1>2, <1>3

LEMMA TickEffect ==
  ASSUME Types, Tick
  PROVE  /\ Types'
         /\ \A h \in up : MayWait(h)
         /\ up' = up /\ turned' = {} /\ tcp' = tcp /\ net' = net
         /\ \A h \in Host : wait'[h] = IF TCP_RETRY_INTVL <= wait[h] + 1
                                        THEN TCP_RETRY_INTVL ELSE wait[h] + 1
         /\ unsent' = IF HB_SEND_INTVL <= unsent + 1 THEN HB_SEND_INTVL
                      ELSE unsent + 1
         /\ silent' = IF HB_TIMEOUT <= silent + 1 THEN HB_TIMEOUT
                      ELSE silent + 1
         /\ dark' > 0 => /\ Primary \notin up /\ Secondary \in up /\ ~active
                         /\ dark' <= dark + 1
<1>1. /\ \A h \in up : MayWait(h)
      /\ up' = up /\ turned' = {} /\ tcp' = tcp /\ net' = net
      /\ mine' = mine /\ stable' = stable
      /\ wait' = [h \in Host |-> Upto(TCP_RETRY_INTVL, wait[h] + 1)]
      /\ unsent' = Upto(HB_SEND_INTVL, unsent + 1)
      /\ silent' = Upto(HB_TIMEOUT, silent + 1)
  BY Zenon DEF Tick
<1>2. \/ /\ Primary \notin up /\ Secondary \in up /\ ~active
         /\ dark' = Upto(DarkCap, dark + 1)
      \/ dark' = 0
  BY Zenon DEF Tick
<1>3. ASSUME NEW h \in Host
      PROVE  /\ wait'[h] = IF TCP_RETRY_INTVL <= wait[h] + 1
                           THEN TCP_RETRY_INTVL ELSE wait[h] + 1
             /\ Upto(TCP_RETRY_INTVL, wait[h] + 1) \in Nat
  <2>1. PICK n \in Nat : n = wait[h] + 1
    BY DEF Types
  <2>2. wait'[h] = Upto(TCP_RETRY_INTVL, n)
    BY <1>1, <2>1, Zenon
  <2>3. /\ Upto(TCP_RETRY_INTVL, n) \in Nat
        /\ Upto(TCP_RETRY_INTVL, n) = IF TCP_RETRY_INTVL <= n
                                      THEN TCP_RETRY_INTVL ELSE n
    BY Times, UptoBound
  <2>4. QED
    BY <2>1, <2>2, <2>3, Zenon
<1>4. wait' \in [Host -> Nat]
  BY <1>1, <1>3
<1>5. /\ unsent' = IF HB_SEND_INTVL <= unsent + 1 THEN HB_SEND_INTVL
                   ELSE unsent + 1
      /\ unsent' \in Nat
  <2>1. unsent + 1 \in Nat
    BY DEF Types
  <2>2. QED
    BY <1>1, <2>1, Times, UptoBound
<1>6. /\ silent' = IF HB_TIMEOUT <= silent + 1 THEN HB_TIMEOUT
                   ELSE silent + 1
      /\ silent' \in Nat
  <2>1. silent + 1 \in Nat
    BY DEF Types
  <2>2. QED
    BY <1>1, <2>1, Times, UptoBound
<1>7. Upto(DarkCap, dark + 1) \in Nat /\ Upto(DarkCap, dark + 1) <= dark + 1
  <2>1. dark + 1 \in Nat
    BY DEF Types
  <2>2. QED
    BY <2>1, Times, UptoBound
<1>8. dark' \in Nat
  BY <1>2, <1>7
<1>9. dark' > 0 => /\ Primary \notin up /\ Secondary \in up /\ ~active
                   /\ dark' <= dark + 1
  <2>1. dark' = 0 => ~(dark' > 0)
    OBVIOUS
  <2>2. dark' = Upto(DarkCap, dark + 1) => dark' <= dark + 1
    BY <1>7
  <2>3. QED
    BY <1>2, <2>1, <2>2, Zenon
<1>10. Types'
  BY <1>1, <1>4, <1>5, <1>6, <1>8 DEF Types
<1>11. QED
  BY <1>1, <1>3, <1>5, <1>6, <1>9, <1>10, Zenon

LEMMA LoseEffect ==
  ASSUME Types, Lose
  PROVE  /\ Types'
         /\ net # <<>>
         /\ up' = up /\ turned' = turned /\ tcp' = tcp /\ wait' = wait
         /\ unsent' = unsent /\ silent' = silent /\ dark' = dark
<1>1. /\ net # <<>> /\ net' = Tail(net)
      /\ up' = up /\ turned' = turned /\ tcp' = tcp /\ wait' = wait
      /\ mine' = mine /\ unsent' = unsent /\ silent' = silent
      /\ stable' = stable /\ dark' = dark
  BY Zenon DEF Lose, judge
<1>2. Types'
  BY <1>1, HeadTailProperties DEF Types
<1>3. QED
  BY <1>1, <1>2

-------------------------------------------------------------------------------
\* The outage

LEMMA OutageStart == Init => OutageInv
BY Hosts, Times
   DEF Init, OutageInv, StandbyInv, HeardInv, DarkInv, SilenceInv,
       OutageBounded

LEMMA OutagePrimary ==
  ASSUME Types, OutageInv, PrimaryTurns
  PROVE  OutageInv'
<1>1. /\ Primary \in up /\ up' = up /\ turned' = turned \cup {Primary}
      /\ dark' = dark /\ silent' = silent /\ tcp'[Secondary] = tcp[Secondary]
  BY PrimaryEffect
<1>2. active' = active
  BY Zenon DEF PrimaryTurns, PrimaryTurn, judge
<1>3. ~(dark > 0)
  BY <1>1, Zenon DEF OutageInv, DarkInv
<1>4. StandbyInv'
  BY <1>1, <1>2, Zenon DEF OutageInv, StandbyInv
<1>5. HeardInv'
  BY <1>1, <1>2, Hosts DEF OutageInv, HeardInv
<1>6. DarkInv' /\ SilenceInv' /\ OutageBounded'
  BY <1>1, <1>3 DEF OutageInv, DarkInv, SilenceInv, OutageBounded
<1>7. QED
  BY <1>4, <1>5, <1>6 DEF OutageInv

LEMMA OutageSecondary ==
  ASSUME Types, OutageInv, SecondaryTurns
  PROVE  OutageInv'
<1>1. /\ up' = up /\ turned' = turned \cup {Secondary}
      /\ net' = <<>>
      /\ \/ net = <<>> /\ silent' = silent
         \/ net # <<>> /\ silent' = 0
      /\ ~active' => tcp'[Secondary] = "off" /\ silent' < HB_TIMEOUT
                     /\ dark' = dark
      /\ active' => dark' = 0
  BY SecondaryEffect
<1>2. CASE active'
  <2>1. dark' = 0
    BY <1>1, <1>2
  <2>2. StandbyInv' /\ HeardInv'
    BY <1>2, Zenon DEF StandbyInv, HeardInv
  <2>3. ~(dark' > 0) /\ dark' <= HB_TIMEOUT + 1
    BY <2>1, Times
  <2>4. DarkInv' /\ SilenceInv' /\ OutageBounded'
    BY <2>3, Zenon DEF DarkInv, SilenceInv, OutageBounded
  <2>5. QED
    BY <2>2, <2>4 DEF OutageInv
<1>3. CASE ~active'
  <2>1. dark' = dark /\ tcp'[Secondary] = "off" /\ silent' < HB_TIMEOUT
    BY <1>1, <1>3
  <2>2. StandbyInv' /\ HeardInv'
    BY <2>1, Zenon DEF StandbyInv, HeardInv
  <2>3. DarkInv'
    BY <1>1, <1>3, <2>1, Zenon DEF DarkInv, OutageInv
  <2>4. dark' > 0 => dark' <= silent' + 1
    BY <1>1, <2>1 DEF SilenceInv, OutageInv, Types
  <2>5. SilenceInv' /\ OutageBounded'
    BY <1>1, <2>1, <2>4, Zenon DEF SilenceInv, OutageInv, OutageBounded
  <2>6. QED
    BY <2>2, <2>3, <2>5 DEF OutageInv
<1>4. QED
  BY <1>2, <1>3

LEMMA OutageOpened ==
  ASSUME Types, OutageInv, NEW h \in Host, NEW ok \in BOOLEAN, Opened(h, ok)
  PROVE  OutageInv'
<1>1. /\ h \in up /\ Connecting(h)
      /\ \A k \in Host \ {h} : tcp'[k] = tcp[k]
      /\ up' = up /\ turned' = turned \cup {h} /\ dark' = dark
      /\ silent' = silent /\ net' = net
  BY OpenedEffect
<1>2. active' = active
  BY Zenon DEF Opened, judge
<1>3. CASE h = Secondary
  <2>1. tcp[Secondary] # "off"
    BY <1>1, <1>3 DEF Connecting
  <2>2. active /\ active'
    BY <1>2, <2>1, Zenon DEF OutageInv, StandbyInv
  <2>3. ~(dark > 0)
    BY <2>2, Zenon DEF OutageInv, DarkInv
  <2>4. StandbyInv' /\ HeardInv'
    BY <2>2, Zenon DEF StandbyInv, HeardInv
  <2>5. DarkInv' /\ SilenceInv' /\ OutageBounded'
    BY <1>1, <2>3 DEF OutageInv, DarkInv, SilenceInv, OutageBounded
  <2>6. QED
    BY <2>4, <2>5 DEF OutageInv
<1>4. CASE h = Primary
  <2>1. tcp'[Secondary] = tcp[Secondary]
    BY <1>1, <1>4, Hosts
  <2>2. ~(dark > 0)
    BY <1>1, <1>4, Zenon DEF OutageInv, DarkInv
  <2>3. StandbyInv'
    BY <1>2, <2>1, Zenon DEF OutageInv, StandbyInv
  <2>4. HeardInv'
    BY <1>1, <1>2, <1>4, Hosts DEF OutageInv, HeardInv
  <2>5. DarkInv' /\ SilenceInv' /\ OutageBounded'
    BY <1>1, <2>2 DEF OutageInv, DarkInv, SilenceInv, OutageBounded
  <2>6. QED
    BY <2>3, <2>4, <2>5 DEF OutageInv
<1>5. QED
  BY <1>3, <1>4 DEF Host

LEMMA OutageNotDark ==
  ASSUME dark' = 0
  PROVE  DarkInv' /\ SilenceInv' /\ OutageBounded'
BY Times DEF DarkInv, SilenceInv, OutageBounded

LEMMA OutageGone ==
  ASSUME Types, OutageInv, NEW h \in Host, Gone(h)
  PROVE  OutageInv'
<1>1. /\ up' = up \ {h} /\ turned' = turned \cup {h} /\ dark' = 0
      /\ h = Primary => tcp'[Secondary] = tcp[Secondary] /\ silent' = silent
      /\ h = Secondary => tcp'[Secondary] = "off"
  BY GoneEffect
<1>2. h = Primary => active' = active
  BY Hosts, Zenon DEF Gone, judge
<1>3. StandbyInv'
  BY <1>1, <1>2, Zenon DEF Host, OutageInv, StandbyInv
<1>4. HeardInv'
  <2>1. CASE h = Secondary
    BY <1>1, <2>1 DEF HeardInv
  <2>2. CASE h = Primary
    BY <1>1, <1>2, <2>2, Hosts DEF OutageInv, HeardInv
  <2>3. QED
    BY <2>1, <2>2 DEF Host
<1>5. QED
  BY <1>1, <1>3, <1>4, OutageNotDark DEF OutageInv

LEMMA OutageRestart ==
  ASSUME Types, OutageInv, NEW h \in Host, Start(h)
  PROVE  OutageInv'
<1>1. /\ up' = up \cup {h} /\ turned' = turned \cup {h} /\ dark' = 0
      /\ h = Primary => tcp'[Secondary] = tcp[Secondary] /\ silent' = silent
      /\ h = Secondary => tcp'[Secondary] = "off" /\ silent' = 0
  BY StartEffect
<1>2. active' = active
  BY Zenon DEF Start
<1>3. StandbyInv'
  BY <1>1, <1>2, Zenon DEF Host, OutageInv, StandbyInv
<1>4. HeardInv'
  <2>1. CASE h = Secondary
    BY <1>1, <2>1, Times DEF HeardInv
  <2>2. CASE h = Primary
    BY <1>1, <1>2, <2>2, Hosts DEF OutageInv, HeardInv
  <2>3. QED
    BY <2>1, <2>2 DEF Host
<1>5. QED
  BY <1>1, <1>3, <1>4, OutageNotDark DEF OutageInv

LEMMA OutageLose ==
  ASSUME Types, OutageInv, Lose
  PROVE  OutageInv'
<1>1. /\ net # <<>>
      /\ up' = up /\ turned' = turned /\ tcp' = tcp
      /\ silent' = silent /\ dark' = dark
  BY LoseEffect
<1>2. active' = active
  BY Zenon DEF Lose, judge
<1>3. StandbyInv' /\ HeardInv' /\ DarkInv' /\ OutageBounded'
  BY <1>1, <1>2, Zenon
     DEF OutageInv, StandbyInv, HeardInv, DarkInv, OutageBounded
<1>4. SilenceInv'
  BY <1>1, Zenon DEF OutageInv, SilenceInv
<1>5. QED
  BY <1>3, <1>4 DEF OutageInv

LEMMA OutageTick ==
  ASSUME Types, OutageInv, Tick
  PROVE  OutageInv'
<1>1. /\ \A h \in up : MayWait(h)
      /\ up' = up /\ turned' = {} /\ tcp' = tcp /\ net' = net
      /\ silent' = IF HB_TIMEOUT <= silent + 1 THEN HB_TIMEOUT
                   ELSE silent + 1
      /\ dark' > 0 => /\ Primary \notin up /\ Secondary \in up /\ ~active
                      /\ dark' <= dark + 1
      /\ dark' \in Nat
  BY TickEffect DEF Types
<1>2. active' = active
  BY Zenon DEF Tick
<1>3. StandbyInv'
  BY <1>1, <1>2, Zenon DEF OutageInv, StandbyInv
<1>4. HeardInv'
  BY <1>1 DEF HeardInv
<1>5. CASE dark' = 0
  BY <1>3, <1>4, <1>5, OutageNotDark DEF OutageInv
<1>6. CASE dark' # 0
  <2>1. /\ dark' > 0 /\ Primary \notin up /\ Secondary \in up /\ ~active
        /\ dark' <= dark + 1
    BY <1>1, <1>6
  <2>2. DarkInv'
    BY <1>1, <1>2, <2>1, Zenon DEF DarkInv
  <2>3. ~Connecting(Secondary)
    <3>1. tcp[Secondary] = "off"
      BY <2>1, Zenon DEF OutageInv, StandbyInv
    <3>2. QED
      BY <3>1 DEF Connecting
  <2>4. Secondary \in turned
    BY <1>1, <2>1, <2>3, Zenon DEF MayWait
  <2>5. silent < HB_TIMEOUT
    BY <2>1, <2>4 DEF OutageInv, HeardInv
  <2>6. silent' = silent + 1
    BY <1>1, <2>5, Times DEF Types
  <2>7. dark > 0 => dark <= silent + 1 /\ net = <<>>
    BY <2>4, Zenon DEF OutageInv, SilenceInv
  <2>8. dark' <= silent' + 1 /\ (dark' > 1 => net' = <<>>)
    <3>1. CASE dark > 0
      BY <1>1, <2>1, <2>6, <2>7, <3>1 DEF Types
    <3>2. CASE ~(dark > 0)
      BY <1>1, <2>1, <2>6, <3>2 DEF Types
    <3>3. QED
      BY <3>1, <3>2
  <2>9. SilenceInv'
    BY <1>1, <2>8 DEF SilenceInv
  <2>10. OutageBounded'
    <3>1. silent' + 1 <= HB_TIMEOUT + 1
      BY <2>5, <2>6, Times DEF Types
    <3>2. silent' \in Nat
      BY <2>6 DEF Types
    <3>3. QED
      BY <1>1, <2>8, <3>1, <3>2, Times DEF OutageBounded
  <2>11. QED
    BY <1>3, <1>4, <2>2, <2>9, <2>10 DEF OutageInv
<1>7. QED
  BY <1>5, <1>6

-------------------------------------------------------------------------------
\* The heartbeats of a living primary

LEMMA BeatStart == Init => BeatInv
BY Hosts, Times DEF Init, BeatInv, SilenceByPhase, Connecting, Host

LEMMA BeatPrimary ==
  ASSUME Types, BeatInv, PrimaryTurns
  PROVE  BeatInv'
<1>1. /\ up' = up /\ silent' = silent
      /\ Connecting(Primary)' => wait'[Primary] = 0
      /\ unsent' < HB_SEND_INTVL
      /\ \/ unsent' = unsent /\ net' = net
         \/ Secondary \in up /\ net' # <<>>
         \/ Secondary \notin up /\ net' = net
  BY PrimaryEffect
<1>2. calm' = calm
  BY Zenon DEF PrimaryTurns, PrimaryTurn, past
<1>3. SUFFICES ASSUME calm'
               PROVE  /\ up' = Host
                      /\ Connecting(Primary)' => wait'[Primary] <= ConnectLimit
                      /\ net' = <<>> => SilenceByPhase' /\ silent' <= unsent'
  BY Zenon DEF BeatInv
<1>4. calm /\ up = Host
  BY <1>2, <1>3, Zenon DEF BeatInv
<1>5. Connecting(Primary)' => wait'[Primary] <= ConnectLimit
  BY <1>1, Times
<1>6. ASSUME net' = <<>>
      PROVE  SilenceByPhase' /\ silent' <= unsent'
  <2>1. unsent' = unsent /\ net = <<>>
    BY <1>1, <1>4, <1>6, Hosts
  <2>2. unsent < HB_SEND_INTVL
    BY <1>1, <2>1
  <2>3. silent <= unsent
    BY <1>4, <2>1, <2>2, Zenon DEF BeatInv
  <2>4. silent' <= HB_SEND_INTVL - 1
    BY <1>1, <2>2, <2>3, Times DEF Types
  <2>5. /\ Connecting(Primary)' => silent' <= HB_SEND_INTVL - 1 + wait'[Primary]
        /\ silent' <= HB_SEND_INTVL + ConnectLimit
        /\ silent' <= HB_SEND_INTVL - 1 + ConnectLimit
    BY <1>1, <2>4, Times DEF Types
  <2>6. QED
    BY <1>1, <2>1, <2>3, <2>5, Zenon DEF SilenceByPhase
<1>7. QED
  BY <1>1, <1>4, <1>5, <1>6, Zenon

LEMMA BeatSecondary ==
  ASSUME Types, BeatInv, SecondaryTurns
  PROVE  BeatInv'
<1>1. /\ up' = up /\ turned' = turned \cup {Secondary}
      /\ unsent' = unsent
      /\ \/ net = <<>> /\ silent' = silent
         \/ net # <<>> /\ silent' = 0
      /\ tcp'[Primary] = tcp[Primary] /\ wait'[Primary] = wait[Primary]
      /\ Types'
  BY SecondaryEffect
<1>2. calm' = calm
  BY Zenon DEF SecondaryTurns, SecondaryTurn
<1>3. SUFFICES ASSUME calm'
               PROVE  /\ up' = Host
                      /\ Connecting(Primary)' => wait'[Primary] <= ConnectLimit
                      /\ SilenceByPhase'
                      /\ unsent' < HB_SEND_INTVL => silent' <= unsent'
  BY Zenon DEF BeatInv
<1>4. /\ calm /\ up = Host
      /\ Connecting(Primary) => wait[Primary] <= ConnectLimit
      /\ net = <<>> => /\ SilenceByPhase
                       /\ unsent < HB_SEND_INTVL => silent <= unsent
  BY <1>2, <1>3, Zenon DEF BeatInv
<1>5. /\ Connecting(Primary)' <=> Connecting(Primary)
      /\ Primary \in turned' <=> Primary \in turned
  BY <1>1, Hosts DEF Connecting
<1>6. SilenceByPhase' /\ (unsent' < HB_SEND_INTVL => silent' <= unsent')
  <2>1. CASE net = <<>>
    BY <1>1, <1>4, <1>5, <2>1, Zenon DEF SilenceByPhase
  <2>2. CASE net # <<>>
    <3>1. /\ silent' = 0 /\ unsent' \in Nat /\ wait'[Primary] \in Nat
      BY <1>1, <2>2, Hosts DEF Types
    <3>2. QED
      BY <3>1, Times DEF SilenceByPhase
  <2>3. QED
    BY <2>1, <2>2
<1>7. QED
  BY <1>1, <1>4, <1>5, <1>6, Zenon

LEMMA BeatOpened ==
  ASSUME Types, BeatInv, NEW h \in Host, NEW ok \in BOOLEAN, Opened(h, ok)
  PROVE  BeatInv'
<1>1. /\ Connecting(h) /\ ~Connecting(h)'
      /\ \A k \in Host \ {h} : tcp'[k] = tcp[k] /\ wait'[k] = wait[k]
      /\ up' = up /\ turned' = turned \cup {h}
      /\ silent' = silent /\ unsent' = unsent /\ net' = net
  BY OpenedEffect
<1>2. calm' = calm
  BY Zenon DEF Opened, past
<1>3. CASE h = Secondary
  <2>1. /\ tcp'[Primary] = tcp[Primary] /\ wait'[Primary] = wait[Primary]
        /\ Primary \in turned' <=> Primary \in turned
    BY <1>1, <1>3, Hosts
  <2>2. Connecting(Primary)' <=> Connecting(Primary)
    BY <2>1 DEF Connecting
  <2>3. QED
    BY <1>1, <1>2, <2>1, <2>2, Zenon DEF BeatInv, SilenceByPhase
<1>4. CASE h = Primary
  <2>1. Connecting(Primary) /\ ~Connecting(Primary)'
    BY <1>1, <1>4
  <2>2. SUFFICES ASSUME calm', net' = <<>>, SilenceByPhase,
                        wait[Primary] <= ConnectLimit
                 PROVE  SilenceByPhase'
    BY <1>1, <1>2, <2>1, Zenon DEF BeatInv
  <2>3. silent' <= HB_SEND_INTVL - 1 + wait[Primary]
    BY <1>1, <2>1, <2>2, Zenon DEF SilenceByPhase
  <2>4. /\ silent' <= HB_SEND_INTVL + ConnectLimit
        /\ silent' <= HB_SEND_INTVL - 1 + ConnectLimit
    BY <1>1, <2>2, <2>3, Times, Hosts DEF Types
  <2>5. QED
    BY <2>1, <2>4, Zenon DEF SilenceByPhase
<1>5. QED
  BY <1>3, <1>4 DEF Host

LEMMA BeatTick ==
  ASSUME Types, BeatInv, Tick, ConnectLimit <= TCP_RETRY_INTVL
  PROVE  BeatInv'
<1>1. /\ \A h \in up : MayWait(h)
      /\ up' = up /\ turned' = {} /\ tcp' = tcp /\ net' = net
      /\ wait'[Primary] = IF TCP_RETRY_INTVL <= wait[Primary] + 1
                          THEN TCP_RETRY_INTVL ELSE wait[Primary] + 1
      /\ unsent' = IF HB_SEND_INTVL <= unsent + 1 THEN HB_SEND_INTVL
                   ELSE unsent + 1
      /\ silent' = IF HB_TIMEOUT <= silent + 1 THEN HB_TIMEOUT
                   ELSE silent + 1
  BY TickEffect, Hosts
<1>2. calm' = calm
  BY Zenon DEF Tick
<1>3. SUFFICES ASSUME calm, up = Host,
                      net' = <<>> =>
                        /\ SilenceByPhase
                        /\ unsent < HB_SEND_INTVL => silent <= unsent
               PROVE  /\ Connecting(Primary)' => wait'[Primary] <= ConnectLimit
                      /\ net' = <<>> =>
                           /\ SilenceByPhase'
                           /\ unsent' < HB_SEND_INTVL => silent' <= unsent'
  BY <1>1, <1>2, Zenon DEF BeatInv
<1>4. Connecting(Primary)' <=> Connecting(Primary)
  BY <1>1 DEF Connecting
<1>5. MayWait(Primary)
  BY <1>1, <1>3, Hosts
<1>6. /\ silent \in Nat /\ unsent \in Nat /\ wait[Primary] \in Nat
      /\ silent' <= silent + 1 /\ silent' \in Nat
  BY <1>1, Hosts, Times DEF Types
<1>7. unsent' < HB_SEND_INTVL => unsent < HB_SEND_INTVL /\ unsent' = unsent + 1
  BY <1>1, <1>6, Times
<1>8. (unsent < HB_SEND_INTVL => silent <= unsent) =>
        (unsent' < HB_SEND_INTVL => silent' <= unsent')
  BY <1>6, <1>7
<1>9. CASE Connecting(Primary)
  <2>1. wait[Primary] < ConnectLimit
    BY <1>5, <1>9, Zenon DEF MayWait
  <2>2. wait'[Primary] = wait[Primary] + 1 /\ wait'[Primary] <= ConnectLimit
    BY <1>1, <1>6, <2>1, Times
  <2>3. silent <= HB_SEND_INTVL - 1 + wait[Primary] =>
          silent' <= HB_SEND_INTVL - 1 + wait'[Primary]
    BY <1>6, <2>2, Times
  <2>4. SilenceByPhase => SilenceByPhase'
    BY <1>4, <1>9, <2>3, Zenon DEF SilenceByPhase
  <2>5. QED
    BY <1>3, <1>8, <2>2, <2>4, Zenon
<1>10. CASE ~Connecting(Primary)
  <2>1. Primary \in turned /\ Primary \notin turned'
    BY <1>1, <1>5, <1>10 DEF MayWait
  <2>2. silent <= HB_SEND_INTVL - 1 + ConnectLimit =>
          silent' <= HB_SEND_INTVL + ConnectLimit
    BY <1>6, Times
  <2>3. SilenceByPhase => SilenceByPhase'
    BY <1>4, <1>10, <2>1, <2>2, Zenon DEF SilenceByPhase
  <2>4. QED
    BY <1>3, <1>4, <1>8, <1>10, <2>3, Zenon
<1>11. QED
  BY <1>9, <1>10

-------------------------------------------------------------------------------
\* Theorems

\* The limits the heartbeats are sent within (pb_7100_ur.c:96-99: one second
\* between two heartbeats, five without one; the two seconds of Connect2 and
\* the five between two attempts).
Margin ==
  /\ HB_SEND_INTVL + ConnectLimit < HB_TIMEOUT
  /\ ConnectLimit <= TCP_RETRY_INTVL

LEMMA InitTypes == Init => Types
<1>1. <<>> \in Seq(Nat)
  BY EmptySeq
<1>2. QED
  BY <1>1, Times, Hosts DEF Init, Types

LEMMA StepTypes == Types /\ [Next]_vars => Types'
<1>1. SUFFICES ASSUME Types, [Next]_vars PROVE Types'
  OBVIOUS
<1>2. CASE PrimaryTurns
  BY <1>1, <1>2, PrimaryEffect
<1>3. CASE SecondaryTurns
  BY <1>1, <1>3, SecondaryEffect
<1>4. ASSUME NEW h \in Host, NEW ok \in BOOLEAN, Opened(h, ok) PROVE Types'
  BY <1>1, <1>4, OpenedEffect
<1>5. ASSUME NEW h \in Host, Gone(h) PROVE Types'
  BY <1>1, <1>5, GoneEffect
<1>6. ASSUME NEW h \in Host, Start(h) PROVE Types'
  BY <1>1, <1>6, StartEffect
<1>7. CASE Lose
  BY <1>1, <1>7, LoseEffect
<1>8. CASE Tick
  BY <1>1, <1>8, TickEffect
<1>9. CASE UNCHANGED vars
  BY <1>1, <1>9 DEF vars, Types
<1>10. QED
  BY <1>1, <1>2, <1>3, <1>4, <1>5, <1>6, <1>7, <1>8, <1>9, Zenon
     DEF Next, ConnectReturns, AlarmKills, Stop

LEMMA StepOutage == Types /\ OutageInv /\ [Next]_vars => OutageInv'
<1>1. SUFFICES ASSUME Types, OutageInv, [Next]_vars PROVE OutageInv'
  OBVIOUS
<1>2. CASE PrimaryTurns
  BY <1>1, <1>2, OutagePrimary
<1>3. CASE SecondaryTurns
  BY <1>1, <1>3, OutageSecondary
<1>4. ASSUME NEW h \in Host, NEW ok \in BOOLEAN, Opened(h, ok)
      PROVE  OutageInv'
  BY <1>1, <1>4, OutageOpened
<1>5. ASSUME NEW h \in Host, Gone(h) PROVE OutageInv'
  BY <1>1, <1>5, OutageGone
<1>6. ASSUME NEW h \in Host, Start(h) PROVE OutageInv'
  BY <1>1, <1>6, OutageRestart
<1>7. CASE Lose
  BY <1>1, <1>7, OutageLose
<1>8. CASE Tick
  BY <1>1, <1>8, OutageTick
<1>9. CASE UNCHANGED vars
  BY <1>1, <1>9, Zenon
     DEF vars, OutageInv, StandbyInv, HeardInv, DarkInv, SilenceInv,
         OutageBounded
<1>10. QED
  BY <1>1, <1>2, <1>3, <1>4, <1>5, <1>6, <1>7, <1>8, <1>9, Zenon
     DEF Next, ConnectReturns, AlarmKills, Stop

\* Whatever ends the calm needs no argument, and while it lasts nothing can be
\* started.
LEMMA StepBeat ==
  ASSUME ConnectLimit <= TCP_RETRY_INTVL
  PROVE  Types /\ BeatInv /\ [Next]_vars => BeatInv'
<1>1. SUFFICES ASSUME Types, BeatInv, [Next]_vars PROVE BeatInv'
  OBVIOUS
<1>2. CASE PrimaryTurns
  BY <1>1, <1>2, BeatPrimary
<1>3. CASE SecondaryTurns
  BY <1>1, <1>3, BeatSecondary
<1>4. ASSUME NEW h \in Host, NEW ok \in BOOLEAN, Opened(h, ok)
      PROVE  BeatInv'
  BY <1>1, <1>4, BeatOpened
<1>5. ASSUME NEW h \in Host, Gone(h) PROVE BeatInv'
  BY <1>5, Zenon DEF Gone, BeatInv
<1>6. ASSUME NEW h \in Host, Start(h) PROVE BeatInv'
  BY <1>1, <1>6, Zenon DEF Start, BeatInv
<1>7. CASE Lose
  BY <1>7, Zenon DEF Lose, BeatInv
<1>8. CASE Tick
  BY <1>1, <1>8, BeatTick
<1>9. CASE UNCHANGED vars
  BY <1>1, <1>9, Zenon DEF vars, BeatInv, SilenceByPhase, Connecting
<1>10. QED
  BY <1>1, <1>2, <1>3, <1>4, <1>5, <1>6, <1>7, <1>8, <1>9, Zenon
     DEF Next, ConnectReturns, AlarmKills, Stop

\* Only a turn takes over, and it has read no heartbeat if the silence is still
\* as long as the limit.
LEMMA TakeOver ==
  ASSUME Types, Next, ~active, active', silent' >= HB_TIMEOUT
  PROVE  net = <<>> /\ silent' = silent
<1>1. CASE SecondaryTurns
  <2>1. \/ net = <<>> /\ silent' = silent
        \/ net # <<>> /\ silent' = 0
    BY <1>1, SecondaryEffect
  <2>2. QED
    BY <2>1, Times
<1>2. ~PrimaryTurns
  BY Zenon DEF PrimaryTurns, PrimaryTurn, judge
<1>3. ~Lose /\ ~Tick
  BY Zenon DEF Lose, Tick, judge
<1>4. ASSUME NEW h \in Host PROVE ~(ConnectReturns(h) \/ Stop(h) \/ Start(h))
  BY Zenon
     DEF ConnectReturns, AlarmKills, Opened, Stop, Gone, Start, judge
<1>5. QED
  BY <1>1, <1>2, <1>3, <1>4, Zenon DEF Next

LEMMA CalmIsHeard ==
  ASSUME Margin, Types, BeatInv, calm, net = <<>>
  PROVE  silent < HB_TIMEOUT
<1>1. SilenceByPhase /\ (Connecting(Primary) => wait[Primary] <= ConnectLimit)
  BY Zenon DEF BeatInv
<1>2. CASE Connecting(Primary)
  <2>1. /\ silent <= HB_SEND_INTVL - 1 + wait[Primary]
        /\ wait[Primary] <= ConnectLimit
    BY <1>1, <1>2, Zenon DEF SilenceByPhase
  <2>2. QED
    BY <2>1, Times, Hosts DEF Margin, Types
<1>3. CASE ~Connecting(Primary)
  <2>1. silent <= HB_SEND_INTVL + ConnectLimit
    BY <1>1, <1>3, Zenon DEF SilenceByPhase
  <2>2. QED
    BY <2>1, Times DEF Margin, Types
<1>4. QED
  BY <1>2, <1>3

\* When the primary's process is gone and the secondary runs, somebody forwards
\* again after HB_TIMEOUT seconds and the one in which the last heartbeat was
\* still under way, whatever the intervals are and however often either is
\* stopped and started (HA_Check_Failover, pb_7100_ur.c).
THEOREM OutageIsBounded == Spec => []OutageBounded
<1>1. Init => Types /\ OutageInv
  BY InitTypes, OutageStart
<1>2. Types /\ OutageInv /\ [Next]_vars => (Types /\ OutageInv)'
  BY StepTypes, StepOutage, Zenon
<1>3. Types /\ OutageInv => OutageBounded
  BY DEF OutageInv
<1>4. QED
  BY <1>1, <1>2, <1>3, PTL DEF Spec

\* While no heartbeat is lost and no process stops, the secondary never takes
\* over for want of heartbeats, if the interval between two heartbeats and the
\* longest connect together stay below the limit of the silence and two
\* attempts are a connect apart: what HB_SEND_INTVL, HB_TIMEOUT, the alarm of
\* Connect2 and TCP_RETRY_INTVL of pb_7100_ur.c are chosen for.
THEOREM LivePrimaryIsHeard ==
  ASSUME Margin
  PROVE  Spec => LivePrimaryBeats
<1>1. Init => Types /\ BeatInv
  BY InitTypes, BeatStart
<1>2. Types /\ BeatInv /\ [Next]_vars => (Types /\ BeatInv)'
  BY StepTypes, StepBeat, Zenon DEF Margin
<1>3. Types /\ BeatInv /\ [Next]_vars =>
        [~active /\ active' /\ silent' >= HB_TIMEOUT => ~calm]_vars
  <2>1. SUFFICES ASSUME Types, BeatInv, Next, ~active, active',
                        silent' >= HB_TIMEOUT, calm
                 PROVE  FALSE
    BY Zenon
  <2>2. net = <<>> /\ silent' = silent
    BY <2>1, TakeOver
  <2>3. silent < HB_TIMEOUT
    BY <2>1, <2>2, CalmIsHeard
  <2>4. QED
    BY <2>1, <2>2, <2>3, Times DEF Types
<1>4. QED
  BY <1>1, <1>2, <1>3, PTL DEF Spec, LivePrimaryBeats

===============================================================================
