----------------------------- MODULE TradeReceiver ----------------------------
(***************************************************************************)
(* The receiver of order responses and executions (src/PC/pc_1200_tr.c;    *)
(* src/PB/pb_1200_tr.c is the same machine with a file queue behind it).   *)
(*                                                                         *)
(* The exchange numbers what it sends twice: the header carries a number   *)
(* of the session, the body a number of the matching-engine group it comes *)
(* from.  The receiver keeps INT_SEQ for the first and INT_MEG_SEQ for the *)
(* second in shared memory, ends the process when either does not follow,  *)
(* and reports both in LINK when it comes back, so that the exchange goes  *)
(* on from there.  The group number is moved before the record is staged   *)
(* for the order core, INT_SEQ after it.                                   *)
(***************************************************************************)
EXTENDS Integers, Sequences

CONSTANTS Groups,      \* matching-engine groups
          MaxMsgs,     \* bound: messages of each group
          MaxCrashes,  \* bound: deaths of the receiver
          MaxDrops     \* bound: connections lost

ASSUME BoundsAssumption == {MaxMsgs, MaxCrashes, MaxDrops} \subseteq Nat

VARIABLES
  INT_SEQ,      \* last session number taken
  INT_MEG_SEQ,  \* last number taken of each group
  LogOnFlag,
  OpenFlag,
  pc,           \* where the receiver is, "down" when it does not run
  meg,          \* the message in hand, or Nothing
  staged,       \* what SEAM_W published, in order, of both queues
  conn,         \* the socket: "up", "broken" (not noticed yet) or "closed"
  toKrx,        \* LINK requests on their way
  fromKrx,      \* what the exchange sent
  market,       \* external: "shut" until LINK is accepted
  log,          \* external: what each group has to send, by kind
  next,         \* external: the number last sent of each group
  header,       \* external: the session number last sent
  linked,       \* external: LINK was accepted on this connection
  lost,         \* history: messages in hand at a death, not yet staged
  torn,         \* history: the places between two assignments of a death
  budget        \* bounds: deaths and drops still allowed

flags    == <<LogOnFlag, OpenFlag>>
counters == <<INT_SEQ, INT_MEG_SEQ>>
channels == <<conn, toKrx, fromKrx>>
krx      == <<market, log, next, header, linked>>
hist     == <<lost, torn, budget>>
vars     == <<INT_SEQ, INT_MEG_SEQ, LogOnFlag, OpenFlag, pc, meg, staged, conn,
              toKrx, fromKrx, market, log, next, header, linked, lost, torn,
              budget>>

\* A response or an execution, a transaction the receiver does not know, and
\* the notice that the exchange has ended its day.
Kinds == {"trade", "unknown", "end"}

\* The process can die with the group counted but nothing staged, and with the
\* record staged but INT_SEQ not counted.
Between == {"grouped", "staged"}

Nothing == [kind |-> "none", seq |-> 0, group |-> 0, num |-> 0]

Zero == [g \in Groups |-> 0]

Init ==
  /\ INT_SEQ = 0 /\ INT_MEG_SEQ = Zero
  /\ LogOnFlag = FALSE /\ OpenFlag = FALSE
  /\ pc = "down" /\ meg = Nothing /\ staged = <<>>
  /\ conn = "closed" /\ toKrx = <<>> /\ fromKrx = <<>>
  /\ market = "shut" /\ log = [g \in Groups |-> <<>>]
  /\ next = Zero /\ header = 0 /\ linked = FALSE
  /\ lost = {} /\ torn = {}
  /\ budget = [crash |-> MaxCrashes, drop |-> MaxDrops]

-------------------------------------------------------------------------------
(* Connecting *)

Spend(b) == budget[b] > 0 /\ budget' = [budget EXCEPT ![b] = @ - 1]

\* Device_Close_Base.  The exchange stops sending on a closed connection.
Device_Close ==
  /\ conn' = "closed" /\ fromKrx' = <<>>
  /\ LogOnFlag' = FALSE /\ OpenFlag' = FALSE

\* Exit_Process: shared memory and what the exchange was sent stay.
Exit_Process ==
  /\ Device_Close
  /\ pc' = "down" /\ meg' = Nothing

Restart ==
  /\ pc = "down"
  /\ pc' = "loop"
  /\ UNCHANGED <<counters, flags, meg, staged, channels, krx, hist>>

\* Device_Open(TR_LOON): connect and LOGON; a failed attempt changes nothing.
Device_Open_Logon ==
  /\ pc = "loop" /\ ~OpenFlag /\ ~LogOnFlag
  /\ toKrx = <<>>
  /\ conn' = "up" /\ fromKrx' = <<>>
  /\ LogOnFlag' = TRUE
  /\ linked' = FALSE
  /\ UNCHANGED <<counters, OpenFlag, pc, meg, staged, toKrx, market, log, next,
                 header, hist>>

\* Faulty: LINK always asks for the whole day.
LinkGroups_FromStart == Zero

\* What LINK reports of the groups: nothing as long as INT_SEQ is zero.
LinkGroups == IF INT_SEQ > 0 THEN INT_MEG_SEQ ELSE Zero

\* Device_Open(TR_LINK): the request; a write on a broken connection that
\* fails closes the device, and the read that follows fails in any case.
Link_Request ==
  /\ pc = "loop" /\ ~OpenFlag /\ LogOnFlag
  /\ \/ /\ conn = "up"
        /\ toKrx' = Append(toKrx, [seq |-> INT_SEQ, megs |-> LinkGroups])
        /\ pc' = "linking"
        /\ UNCHANGED <<conn, fromKrx, flags>>
     \/ /\ conn = "broken"
        /\ Device_Close
        /\ UNCHANGED <<pc, toKrx>>
  /\ UNCHANGED <<counters, meg, staged, krx, hist>>

\* The answer must be positive and repeat INT_SEQ, or the process ends.
Link_Response ==
  /\ pc = "linking" /\ fromKrx # <<>>
  /\ LET m == Head(fromKrx)
     IN \/ /\ m.kind = "link" /\ m.seq = INT_SEQ
           /\ OpenFlag' = TRUE
           /\ pc' = "loop"
           /\ fromKrx' = Tail(fromKrx)
           /\ UNCHANGED <<LogOnFlag, meg, conn>>
        \/ /\ m.kind = "refused" \/ m.seq # INT_SEQ
           /\ Exit_Process
  /\ UNCHANGED <<counters, staged, toKrx, krx, hist>>

\* Device_Read fails while the answer is awaited.
Link_Lost ==
  /\ pc = "linking" /\ conn = "broken" /\ fromKrx = <<>>
  /\ Device_Close
  /\ pc' = "loop"
  /\ UNCHANGED <<counters, meg, staged, toKrx, krx, hist>>

-------------------------------------------------------------------------------
(* Socket_Event_Rtn *)

\* Faulty: only the session number is checked, as pb_1200_tr does for drop copy.
Follows_HeaderOnly(m) == m.seq = INT_SEQ + 1

\* Both numbers must be the next ones.
Follows(m) == m.seq = INT_SEQ + 1 /\ m.num = INT_MEG_SEQ[m.group] + 1

\* A message in sequence: its group is counted first.
Receive ==
  /\ pc = "loop" /\ OpenFlag /\ fromKrx # <<>>
  /\ Follows(Head(fromKrx))
  /\ meg' = Head(fromKrx)
  /\ INT_MEG_SEQ' = [INT_MEG_SEQ EXCEPT ![meg'.group] = meg'.num]
  /\ fromKrx' = Tail(fromKrx)
  /\ pc' = "grouped"
  /\ UNCHANGED <<INT_SEQ, flags, staged, conn, toKrx, krx, hist>>

\* Anything else ends the process.
Out_Of_Sequence ==
  /\ pc = "loop" /\ OpenFlag /\ fromKrx # <<>>
  /\ ~Follows(Head(fromKrx))
  /\ Exit_Process
  /\ UNCHANGED <<counters, staged, toKrx, krx, hist>>

\* Write_Data: SEAM_W to the response or the execution queue ...
Write_Data ==
  /\ pc = "grouped" /\ meg.kind = "trade"
  /\ staged' = Append(staged, [group |-> meg.group, num |-> meg.num,
                               If_Seq |-> INT_SEQ + 1])
  /\ pc' = "staged"
  /\ UNCHANGED <<counters, flags, meg, channels, krx, hist>>

\* ... and INT_SEQ += rt.
Count ==
  /\ pc = "staged"
  /\ INT_SEQ' = INT_SEQ + 1
  /\ pc' = "loop" /\ meg' = Nothing
  /\ UNCHANGED <<INT_MEG_SEQ, flags, staged, channels, krx, hist>>

\* A transaction that is not defined here is counted and skipped.
Skip ==
  /\ pc = "grouped" /\ meg.kind = "unknown"
  /\ INT_SEQ' = INT_SEQ + 1
  /\ pc' = "loop" /\ meg' = Nothing
  /\ UNCHANGED <<INT_MEG_SEQ, flags, staged, channels, krx, hist>>

\* The end of the exchange's day closes the device; the main loop, which does
\* not look at NET_STA, connects again a minute later.
IF_End ==
  /\ pc = "grouped" /\ meg.kind = "end"
  /\ INT_SEQ' = INT_SEQ + 1
  /\ Device_Close
  /\ pc' = "loop" /\ meg' = Nothing
  /\ UNCHANGED <<INT_MEG_SEQ, staged, toKrx, krx, hist>>

\* Device_Read fails, or nothing came for MAIN_TIME (Time_Out_Disconnect).
Disconnect ==
  /\ pc = "loop" /\ OpenFlag /\ fromKrx = <<>>
  /\ Device_Close
  /\ UNCHANGED <<counters, pc, meg, staged, toKrx, krx, hist>>

\* POLLHUP: PC_1200_TR returns and main ends the process.
Hangup ==
  /\ pc = "loop" /\ OpenFlag /\ conn = "broken"
  /\ Exit_Process
  /\ UNCHANGED <<counters, staged, toKrx, krx, hist>>

-------------------------------------------------------------------------------
(* Failures *)

Crash ==
  /\ pc # "down"
  /\ Spend("crash")
  /\ Exit_Process
  /\ torn' = torn \union ({pc} \cap Between)
  /\ lost' = IF pc = "grouped" /\ meg.kind = "trade"
             THEN lost \union {<<meg.group, meg.num>>} ELSE lost
  /\ UNCHANGED <<counters, staged, toKrx, krx>>

Drop ==
  /\ conn = "up"
  /\ Spend("drop")
  /\ conn' = "broken"
  /\ \E k \in 0..Len(toKrx) : toKrx' = SubSeq(toKrx, 1, k)
  /\ \E k \in 0..Len(fromKrx) : fromKrx' = SubSeq(fromKrx, 1, k)
  /\ UNCHANGED <<counters, flags, pc, meg, staged, krx, lost, torn>>

-------------------------------------------------------------------------------
(* The exchange (external) *)

Market_Open ==
  /\ market = "shut"
  /\ market' = "open"
  /\ UNCHANGED <<counters, flags, pc, meg, staged, channels, log, next, header,
                 linked, hist>>

\* Something happened to an order; the end of the day is the last to happen.
Publish(g, k) ==
  /\ Len(log[g]) < MaxMsgs
  /\ \A i \in DOMAIN log[g] : log[g][i] # "end"
  /\ log' = [log EXCEPT ![g] = Append(@, k)]
  /\ UNCHANGED <<counters, flags, pc, meg, staged, channels, market, next,
                 header, linked, hist>>

\* LINK is refused before the market opens; after that it is answered with the
\* number it carried, and each group goes on after the number it reported.
Krx_Link ==
  /\ toKrx # <<>>
  /\ toKrx' = Tail(toKrx)
  /\ LET m == Head(toKrx)
         answer(kind) == fromKrx' = IF conn = "up"
           THEN Append(fromKrx, [kind |-> kind, seq |-> m.seq, group |-> 0,
                                 num |-> 0])
           ELSE fromKrx
     IN \/ /\ market = "open"
           /\ answer("link")
           /\ next' = m.megs /\ header' = m.seq
           /\ linked' = (conn = "up")
        \/ /\ market = "shut"
           /\ answer("refused")
           /\ UNCHANGED <<next, header, linked>>
  /\ UNCHANGED <<counters, flags, pc, meg, staged, conn, market, log, hist>>

Krx_Send(g) ==
  /\ linked /\ conn = "up"
  /\ next[g] < Len(log[g])
  /\ next' = [next EXCEPT ![g] = @ + 1]
  /\ header' = header + 1
  /\ fromKrx' = Append(fromKrx, [kind |-> log[g][next'[g]], seq |-> header',
                                 group |-> g, num |-> next'[g]])
  /\ UNCHANGED <<counters, flags, pc, meg, staged, conn, toKrx, market, log,
                 linked, hist>>

-------------------------------------------------------------------------------
Receiver == \/ Device_Open_Logon \/ Link_Request \/ Link_Response \/ Link_Lost
            \/ Receive \/ Out_Of_Sequence \/ Write_Data \/ Count \/ Skip
            \/ IF_End \/ Disconnect \/ Hangup

Exchange == \/ Market_Open \/ Krx_Link
            \/ \E g \in Groups : Krx_Send(g) \/ \E k \in Kinds : Publish(g, k)

Next == Receiver \/ Restart \/ Exchange \/ Crash \/ Drop

\* The loop of the receiver waits only in poll or in a read; the daemon starts
\* it again; the exchange opens, answers, and again and again finds the time
\* to send what it has before the receiver gives the silence up.
Fairness ==
  /\ WF_vars(Receiver)
  /\ WF_vars(Restart)
  /\ WF_vars(Market_Open)
  /\ WF_vars(Krx_Link)
  /\ \A g \in Groups : SF_vars(Krx_Send(g))

Spec == Init /\ [][Next]_vars
FairSpec == Spec /\ Fairness

-------------------------------------------------------------------------------
(* Properties *)

\* The places of group g in what was staged.
PlacesOf(g) == {i \in DOMAIN staged : staged[i].group = g}

\* What each group's counter has passed and must therefore have been staged.
Passed(g) == INT_MEG_SEQ[g] - (IF pc = "grouped" /\ meg.group = g THEN 1 ELSE 0)

\* The order core gets, for each group, exactly the responses and executions
\* the counter has passed, in their order and once each, however often the
\* connection or the process was lost; only a message in hand at a death
\* between the group counter and SEAM_W is missing.
StagedIsLog ==
  \A g \in Groups :
    /\ {staged[i].num : i \in PlacesOf(g)} =
         {n \in 1..Passed(g) : log[g][n] = "trade" /\ <<g, n>> \notin lost}
    /\ \A i, j \in PlacesOf(g) : i < j => staged[i].num < staged[j].num

\* The check of both numbers never ends the process in spite of lost bytes,
\* silences, refused LINKs and restarts: only a death between the two counters
\* can make the exchange send something that does not follow.
ExitNeedsDeath ==
  [][Out_Of_Sequence => torn # {}]_vars

\* A death that left INT_SEQ at zero after a group was counted: LINK then asks
\* for that group from its beginning, and the process ends on the answer.
Stuck == INT_SEQ = 0 /\ torn # {}

\* Every response and execution the exchange has published reaches the order
\* core, unless it was in hand at a death or the receiver is stuck for good.
EveryTradeStaged ==
  \A g \in Groups, n \in 1..MaxMsgs :
    Len(log[g]) >= n /\ log[g][n] = "trade"
      ~> \/ \E i \in DOMAIN staged : staged[i].group = g /\ staged[i].num = n
         \/ <<g, n>> \in lost
         \/ Stuck

===============================================================================
