----------------------------- MODULE OrderSession -----------------------------
(***************************************************************************)
(* The order sender (src/PB/pb_1100_ts.c; src/PC/pc_1100_ts.c is the same  *)
(* machine) and its session with the exchange.                             *)
(*                                                                         *)
(* The sender takes orders from a queue by position (RD_CNT) and numbers   *)
(* them for the exchange with its own counter (INT_SEQ).  Both counters    *)
(* are in shared memory and outlive the process.  Orders are sent without  *)
(* waiting for an answer; after a reconnection the LINK reply carries the  *)
(* last sequence the exchange has taken, and both counters are moved back  *)
(* to it.  The two counters are two assignments, so a process can die      *)
(* between them: every handler that moves both is split there.             *)
(*                                                                         *)
(* The exchange is external.  It takes order s only after s - 1, refuses   *)
(* anything else by closing the session, and may reject or throttle an     *)
(* order whose sequence is right.                                          *)
(***************************************************************************)
EXTENDS Integers, Sequences

CONSTANTS MaxOrders,     \* bound: orders queued in a behaviour
          MaxCrashes,    \* bound: deaths of the sender
          MaxDrops,      \* bound: connections lost
          MaxRejects,    \* bound: orders rejected or throttled
          MaxUndefined,  \* bound: orders of a type the sender does not know
          RejectOffsets, \* a reject of order s carries s - k, k one of these
          Answers        \* what DSHM_R may return in Write_Response_Data

ASSUME BoundsAssumption ==
  {MaxOrders, MaxCrashes, MaxDrops, MaxRejects, MaxUndefined} \subseteq Nat
ASSUME RejectAssumption ==
  RejectOffsets \subseteq Nat /\ Answers \subseteq {0, 1}

VARIABLES
  WR_CNT,     \* orders in the queue
  RD_CNT,     \* orders read from it
  undefined,  \* the orders of the queue whose transaction code is unknown
  INT_SEQ,    \* last sequence given to an order
  LogOnFlag,  \* LOGON answered on this connection
  OpenFlag,   \* LINK answered: orders may be sent
  pc,         \* where the sender is, "down" when it does not run
  mun,        \* the rewind distance of the handler in progress
  conn,       \* the socket: "up", "broken" (not noticed yet) or "closed"
  toKrx,      \* bytes on their way to the exchange
  fromKrx,    \* and back
  market,     \* external: "shut" until the exchange opens for orders
  consumed,   \* external: the order taken at each sequence, rejects included
  lastSent,   \* history: highest sequence sent since the LINK reply
  torn,       \* history: the places between two assignments of a death
  budget      \* bounds: deaths, drops, rejects and unknown orders still allowed

counters == <<WR_CNT, RD_CNT, INT_SEQ>>
flags    == <<LogOnFlag, OpenFlag>>
channels == <<conn, toKrx, fromKrx>>
krx      == <<market, consumed>>
vars     == <<WR_CNT, RD_CNT, INT_SEQ, LogOnFlag, OpenFlag, pc, mun, conn,
              toKrx, fromKrx, market, consumed, lastSent, torn, budget,
              undefined>>

Places == {"loop", "poll", "linking", "rewound", "sent", "counted",
           "rejected", "down"}

\* Places where one of two counters that belong together has been moved.
Between == {"rewound", "sent", "counted", "rejected"}

Message == [kind : {"order", "link", "reject", "throttle"},
            seq : Int, order : Int, ok : BOOLEAN]

Msg(kind, seq, order, ok) ==
  [kind |-> kind, seq |-> seq, order |-> order, ok |-> ok]

\* The last sequence the exchange has taken.
KrxSeq == Len(consumed)

TypeOK ==
  /\ WR_CNT \in Nat /\ RD_CNT \in Int /\ INT_SEQ \in Int /\ mun \in Int
  /\ LogOnFlag \in BOOLEAN /\ OpenFlag \in BOOLEAN /\ (OpenFlag => LogOnFlag)
  /\ pc \in Places
  /\ conn \in {"up", "broken", "closed"}
  /\ toKrx \in Seq(Message) /\ fromKrx \in Seq(Message)
  /\ market \in {"shut", "open"}
  /\ consumed \in Seq(Int)
  /\ lastSent \in Int
  /\ torn \subseteq Between
  /\ undefined \subseteq 1..WR_CNT
  /\ budget \in [{"crash", "drop", "reject", "undefined"} -> Nat]

\* The start of the day, before the daemon starts the process.
Init ==
  /\ WR_CNT = 0 /\ RD_CNT = 0 /\ INT_SEQ = 0 /\ mun = 0
  /\ LogOnFlag = FALSE /\ OpenFlag = FALSE
  /\ pc = "down"
  /\ conn = "closed" /\ toKrx = <<>> /\ fromKrx = <<>>
  /\ market = "shut" /\ consumed = <<>>
  /\ lastSent = 0 /\ torn = {} /\ undefined = {}
  /\ budget = [crash |-> MaxCrashes, drop |-> MaxDrops, reject |-> MaxRejects,
               undefined |-> MaxUndefined]

-------------------------------------------------------------------------------
(* Helpers of the sender *)

Spend(b) == budget[b] > 0 /\ budget' = [budget EXCEPT ![b] = @ - 1]

\* Device_Close_Base: the socket is closed and both flags go off.
Device_Close ==
  /\ conn' = "closed" /\ fromKrx' = <<>>
  /\ LogOnFlag' = FALSE /\ OpenFlag' = FALSE
  /\ UNCHANGED toKrx

\* Device_Write: a write on a connection that has broken unnoticed is either
\* swallowed or fails, and a failure closes the device.
Device_Write(m) ==
  \/ /\ conn = "up"
     /\ toKrx' = Append(toKrx, m)
     /\ UNCHANGED <<conn, fromKrx, LogOnFlag, OpenFlag>>
  \/ /\ conn = "broken"
     /\ UNCHANGED <<channels, flags>>
  \/ /\ conn = "broken"
     /\ Device_Close

\* What was written last may never arrive.
LoseTail ==
  /\ \E k \in 0..Len(toKrx) : toKrx' = SubSeq(toKrx, 1, k)
  /\ \E k \in 0..Len(fromKrx) : fromKrx' = SubSeq(fromKrx, 1, k)

\* Exit_Process: the flags are of the process, the counters are not.
Exit_Process ==
  /\ pc' = "down"
  /\ LogOnFlag' = FALSE /\ OpenFlag' = FALSE /\ mun' = 0
  /\ conn' = "closed" /\ fromKrx' = <<>>
  /\ \E k \in 0..Len(toKrx) : toKrx' = SubSeq(toKrx, 1, k)

-------------------------------------------------------------------------------
(* The environment of the sender *)

\* The order side writes a record and rings the doorbell.  It does not look at
\* the transaction code.
F_W ==
  /\ WR_CNT < MaxOrders
  /\ WR_CNT' = WR_CNT + 1
  /\ \/ UNCHANGED <<undefined, budget>>
     \/ Spend("undefined") /\ undefined' = undefined \union {WR_CNT'}
  /\ UNCHANGED <<RD_CNT, INT_SEQ, flags, pc, mun, channels, krx, lastSent,
                 torn>>

\* The daemon starts the process (again).
Restart ==
  /\ pc = "down"
  /\ pc' = "loop"
  /\ UNCHANGED <<counters, flags, mun, channels, krx, lastSent, torn, budget,
                 undefined>>

\* The process dies at any point.
Crash ==
  /\ pc # "down"
  /\ Spend("crash")
  /\ Exit_Process
  /\ torn' = torn \union ({pc} \cap Between)
  /\ UNCHANGED <<counters, krx, lastSent, undefined>>

\* The connection breaks.
Drop ==
  /\ conn = "up"
  /\ Spend("drop")
  /\ conn' = "broken"
  /\ LoseTail
  /\ UNCHANGED <<counters, flags, pc, mun, krx, lastSent, torn, undefined>>

-------------------------------------------------------------------------------
(* Connecting *)

\* Device_Open(TR_LOON): connect, handshake, LOGON and its answer.  A failed
\* attempt changes nothing.  The exchange has read what came on the previous
\* connection before it answers a new LOGON.
Device_Open_Logon ==
  /\ pc = "loop" /\ ~OpenFlag /\ ~LogOnFlag
  /\ toKrx = <<>>
  /\ conn' = "up" /\ fromKrx' = <<>>
  /\ LogOnFlag' = TRUE
  /\ UNCHANGED <<counters, OpenFlag, pc, mun, toKrx, krx, lastSent, torn,
                 budget, undefined>>

\* Device_Open(TR_LINK): the request, and the read of the answer begins.
Link_Request ==
  /\ pc = "loop" /\ ~OpenFlag /\ LogOnFlag
  /\ Device_Write(Msg("link", INT_SEQ, 0, TRUE))
  /\ pc' = IF conn' = "closed" THEN "loop" ELSE "linking"
  /\ UNCHANGED <<counters, mun, krx, lastSent, torn, budget, undefined>>

\* Orders may be sent: lastSent starts again from what the exchange has.
Link_Ok ==
  /\ OpenFlag' = TRUE
  /\ pc' = "loop"
  /\ mun' = 0
  /\ lastSent' = INT_SEQ'
  /\ UNCHANGED <<WR_CNT, RD_CNT, LogOnFlag, conn, toKrx>>

\* The answer says the market is not open yet: ask again later.
Link_TooEarly(m) ==
  /\ ~m.ok
  /\ pc' = "loop"
  /\ UNCHANGED <<counters, flags, mun, conn, toKrx, lastSent>>

\* Faulty (each Faulty definition is a plausible slip the specification does
\* not use): a sequence behind ours is taken for in step.
Link_InStep_Behind(m) ==
  /\ m.ok /\ m.seq <= INT_SEQ
  /\ UNCHANGED INT_SEQ
  /\ Link_Ok

Link_InStep(m) ==
  /\ m.ok /\ m.seq = INT_SEQ
  /\ UNCHANGED INT_SEQ
  /\ Link_Ok

\* Faulty: only the sequence is rewound.
Link_Rewind_SeqOnly(m) ==
  /\ m.ok /\ m.seq < INT_SEQ
  /\ mun' = INT_SEQ - m.seq
  /\ pc' = "rewound"
  /\ UNCHANGED <<counters, flags, conn, toKrx, lastSent>>

\* The exchange has taken less than was numbered: the read cursor first.
Link_Rewind(m) ==
  /\ m.ok /\ m.seq < INT_SEQ
  /\ INT_SEQ - m.seq <= RD_CNT
  /\ mun' = INT_SEQ - m.seq
  /\ RD_CNT' = RD_CNT - mun'
  /\ pc' = "rewound"
  /\ UNCHANGED <<WR_CNT, INT_SEQ, flags, conn, toKrx, lastSent>>

\* The exchange is ahead, or behind what is left in the queue: the process
\* ends and an operator has to look.
Link_Refuse(m) ==
  /\ m.ok
  /\ m.seq > INT_SEQ \/ INT_SEQ - m.seq > RD_CNT
  /\ pc' = "down"
  /\ LogOnFlag' = FALSE /\ OpenFlag' = FALSE
  /\ conn' = "closed"
  /\ UNCHANGED <<counters, mun, toKrx, lastSent>>

Link_Response ==
  /\ pc = "linking" /\ fromKrx # <<>>
  /\ LET m == Head(fromKrx)
     IN \/ Link_TooEarly(m)
        \/ Link_InStep(m)
        \/ Link_Rewind(m)
        \/ Link_Refuse(m)
  /\ fromKrx' = IF pc' = "down" THEN <<>> ELSE Tail(fromKrx)
  /\ UNCHANGED <<krx, torn, budget, undefined>>

\* ... then the sequence, and the session is open.
Link_Finish ==
  /\ pc = "rewound"
  /\ INT_SEQ' = INT_SEQ - mun
  /\ Link_Ok
  /\ UNCHANGED <<fromKrx, krx, torn, budget, undefined>>

\* Device_Read fails while the answer is awaited.
Link_Lost ==
  /\ pc = "linking" /\ conn = "broken" /\ fromKrx = <<>>
  /\ Device_Close
  /\ pc' = "loop"
  /\ UNCHANGED <<counters, mun, krx, lastSent, torn, budget, undefined>>

-------------------------------------------------------------------------------
(* Sending *)

\* Nothing to drain: wait in poll for a doorbell, the socket or the timer.
Poll ==
  /\ pc = "loop" /\ OpenFlag
  /\ WR_CNT <= RD_CNT
  /\ pc' = "poll"
  /\ UNCHANGED <<counters, flags, mun, channels, krx, lastSent, torn, budget,
                 undefined>>

\* Faulty: the drain test is one too late.
Send_PastQueue ==
  /\ pc \in {"loop", "poll"} /\ OpenFlag
  /\ WR_CNT >= RD_CNT
  /\ Device_Write(Msg("order", INT_SEQ + 1, RD_CNT + 1, TRUE))
  /\ lastSent' = INT_SEQ + 1
  /\ pc' = "sent"
  /\ UNCHANGED <<counters, mun, krx, torn, budget, undefined>>

\* Data_Event_Rtn runs: from the drain test of the main loop or from a
\* doorbell.
Draining == pc \in {"loop", "poll"} /\ OpenFlag /\ WR_CNT > RD_CNT

\* Data_Event_Rtn, up to Device_Write.  Whether the write succeeded is not
\* looked at.
Send ==
  /\ Draining
  /\ RD_CNT + 1 \notin undefined
  /\ Device_Write(Msg("order", INT_SEQ + 1, RD_CNT + 1, TRUE))
  /\ lastSent' = INT_SEQ + 1
  /\ pc' = "sent"
  /\ UNCHANGED <<counters, mun, krx, torn, budget, undefined>>

\* Make_Data_Block does not know the transaction code of the record, sleeps and
\* ends the process before either counter has moved: the next process reads the
\* same record and ends too.  What was written before leaves in the three
\* seconds of the sleep, as far as the connection holds.
Undefined_Data ==
  /\ Draining
  /\ RD_CNT + 1 \in undefined
  /\ pc' = "down" /\ mun' = 0
  /\ Device_Close
  /\ UNCHANGED <<counters, krx, lastSent, torn, budget, undefined>>

\* INT_SEQ++
CountSeq ==
  /\ pc = "sent"
  /\ INT_SEQ' = INT_SEQ + 1
  /\ pc' = "counted"
  /\ UNCHANGED <<WR_CNT, RD_CNT, flags, mun, channels, krx, lastSent, torn,
                 budget, undefined>>

\* Faulty: the record is counted only if the write did not fail.
CountRead_IfWritten ==
  /\ pc = "counted"
  /\ RD_CNT' = IF LogOnFlag THEN RD_CNT + 1 ELSE RD_CNT
  /\ pc' = "loop"
  /\ UNCHANGED <<WR_CNT, INT_SEQ, flags, mun, channels, krx, lastSent, torn,
                 budget, undefined>>

\* Add_Count(PS_R_1, 1)
CountRead ==
  /\ pc = "counted"
  /\ RD_CNT' = RD_CNT + 1
  /\ pc' = "loop"
  /\ UNCHANGED <<WR_CNT, INT_SEQ, flags, mun, channels, krx, lastSent, torn,
                 budget, undefined>>

\* The connection is found broken: Device_Read fails, or the heartbeat of
\* Time_Out_Rtn cannot be written.
Disconnect ==
  /\ pc = "poll" /\ conn = "broken" /\ fromKrx = <<>>
  /\ Device_Close
  /\ pc' = "loop"
  /\ UNCHANGED <<counters, mun, krx, lastSent, torn, budget, undefined>>

\* poll reports POLLHUP: PB_1100_TS returns and main ends the process.
Hangup ==
  /\ pc = "poll" /\ conn = "broken"
  /\ Exit_Process
  /\ UNCHANGED <<counters, krx, lastSent, torn, budget, undefined>>

-------------------------------------------------------------------------------
(* Socket_Event_Rtn: the exchange says something about an order *)

\* Response "0020", too many orders a second: nothing but a pause.
Throttled(m) ==
  /\ m.kind = "throttle"
  /\ pc' = "loop"
  /\ UNCHANGED <<counters, flags, mun, conn, toKrx>>

\* A reject moves both counters, the sequence first ...
Rejected(m) ==
  /\ m.kind = "reject"
  /\ m.seq <= INT_SEQ
  /\ INT_SEQ - m.seq - 1 <= RD_CNT
  /\ mun' = INT_SEQ - m.seq - 1
  /\ INT_SEQ' = INT_SEQ - mun'
  /\ pc' = "rejected"
  /\ UNCHANGED <<WR_CNT, RD_CNT, flags, conn, toKrx>>

\* ... unless that is impossible.
Reject_Refuse(m) ==
  /\ m.kind = "reject"
  /\ m.seq > INT_SEQ \/ INT_SEQ - m.seq - 1 > RD_CNT
  /\ pc' = "down"
  /\ LogOnFlag' = FALSE /\ OpenFlag' = FALSE
  /\ conn' = "closed"
  /\ UNCHANGED <<counters, mun, toKrx>>

Socket_Event_Rtn ==
  /\ pc = "poll" /\ fromKrx # <<>>
  /\ LET m == Head(fromKrx)
     IN Throttled(m) \/ Rejected(m) \/ Reject_Refuse(m)
  /\ fromKrx' = IF pc' = "down" THEN <<>> ELSE Tail(fromKrx)
  /\ UNCHANGED <<krx, lastSent, torn, budget, undefined>>

\* Faulty: the read cursor is put back to where it was, as the code once did.
Reject_Finish_Restores ==
  /\ pc = "rejected"
  /\ pc' = "loop" /\ mun' = 0
  /\ UNCHANGED <<counters, flags, channels, krx, lastSent, torn, budget,
                 undefined>>

\* Faulty: a reject that could not be passed on is counted as read.
Reject_Finish_CountsAlways ==
  /\ pc = "rejected"
  /\ RD_CNT' = RD_CNT - mun + 1
  /\ pc' = "loop" /\ mun' = 0
  /\ UNCHANGED <<WR_CNT, INT_SEQ, flags, channels, krx, lastSent, torn, budget,
                 undefined>>

\* The read cursor follows, and Write_Response_Data passes the reject on and
\* counts one more record read, if DSHM_R gives it one.
Reject_Finish ==
  /\ pc = "rejected"
  /\ \E n \in Answers : RD_CNT' = RD_CNT - mun + n
  /\ pc' = "loop" /\ mun' = 0
  /\ UNCHANGED <<WR_CNT, INT_SEQ, flags, channels, krx, lastSent, torn, budget,
                 undefined>>

-------------------------------------------------------------------------------
(* The exchange (external) *)

Market_Open ==
  /\ market = "shut"
  /\ market' = "open"
  /\ UNCHANGED <<counters, flags, pc, mun, channels, consumed, lastSent, torn,
                 budget, undefined>>

\* An answer reaches the sender only on a live connection.
Answer(m) == fromKrx' = IF conn = "up" THEN Append(fromKrx, m) ELSE fromKrx

Krx_Link ==
  /\ toKrx # <<>> /\ Head(toKrx).kind = "link"
  /\ toKrx' = Tail(toKrx)
  /\ Answer(Msg("link", KrxSeq, 0, market = "open"))
  /\ UNCHANGED <<counters, flags, pc, mun, conn, krx, lastSent, torn, budget,
                 undefined>>

Krx_Take ==
  /\ toKrx # <<>> /\ Head(toKrx).kind = "order"
  /\ Head(toKrx).seq = KrxSeq + 1
  /\ toKrx' = Tail(toKrx)
  /\ consumed' = Append(consumed, Head(toKrx).order)
  /\ \/ UNCHANGED <<fromKrx, budget>>
     \/ /\ Spend("reject")
        /\ \E k \in RejectOffsets :
             Answer(Msg("reject", Head(toKrx).seq - k, 0, FALSE))
  /\ UNCHANGED <<counters, flags, pc, mun, conn, market, lastSent, torn,
                 undefined>>

Krx_Throttle ==
  /\ toKrx # <<>> /\ Head(toKrx).kind = "order"
  /\ Head(toKrx).seq = KrxSeq + 1
  /\ Spend("reject")
  /\ toKrx' = Tail(toKrx)
  /\ Answer(Msg("throttle", Head(toKrx).seq, 0, FALSE))
  /\ UNCHANGED <<counters, flags, pc, mun, conn, krx, lastSent, torn,
                 undefined>>

\* An order out of sequence ends the session; what followed it is not read.
Krx_Close ==
  /\ toKrx # <<>> /\ Head(toKrx).kind = "order"
  /\ Head(toKrx).seq # KrxSeq + 1
  /\ toKrx' = <<>>
  /\ conn' = IF conn = "up" THEN "broken" ELSE conn
  /\ UNCHANGED <<counters, flags, pc, mun, fromKrx, krx, lastSent, torn, budget,
                 undefined>>

-------------------------------------------------------------------------------
Connecting == \/ Device_Open_Logon \/ Link_Request \/ Link_Response
              \/ Link_Finish \/ Link_Lost

Working == \/ Poll \/ Send \/ Undefined_Data \/ CountSeq \/ CountRead
           \/ Disconnect \/ Hangup \/ Socket_Event_Rtn \/ Reject_Finish

Exchange == \/ Market_Open \/ Krx_Link \/ Krx_Take \/ Krx_Throttle \/ Krx_Close

Environment == F_W \/ Crash \/ Drop

Next == Connecting \/ Working \/ Restart \/ Exchange \/ Environment

\* The sender is a loop that only ever waits in poll or in a read with a
\* timeout, the daemon restarts it, and the exchange reads its socket and opens
\* at last.  Nothing is asked of deaths, drops, rejects and new orders.
Fairness ==
  /\ WF_vars(Connecting \/ Working)
  /\ WF_vars(Restart)
  /\ WF_vars(Market_Open)
  /\ WF_vars(Krx_Link \/ Krx_Take \/ Krx_Close)

Spec == Init /\ [][Next]_vars
FairSpec == Spec /\ Fairness

-------------------------------------------------------------------------------
(* Properties *)

\* Sequence i of the exchange is the i-th order of the queue, so that no order
\* is taken twice and none is passed over, whatever was lost, rewound, rejected
\* or restarted, unless the process died between the two assignments of a
\* handler that moves both counters.  (A death before INT_SEQ++ is not such a
\* case: the sequence it used was never counted.)
SequenceIsPosition ==
  torn \subseteq {"sent"} => \A i \in 1..KrxSeq : consumed[i] = i

\* Even after a torn death the exchange never gets an order before all earlier
\* ones: the damage is a repeat, not a hole.  Only a death in the middle of a
\* reject, which moves the sequence first, leaves a hole.
NoOrderPassedOver ==
  "rejected" \notin torn => \A i \in 1..KrxSeq : \A j \in 1..(consumed[i] - 1) :
    \E k \in 1..(i - 1) : consumed[k] = j

\* The sender relays the queue: what the exchange takes is an order that is in
\* the queue, the next one unless a death has torn two counters apart.
Relay == INSTANCE OrderRelay WITH queued <- WR_CNT, taken <- consumed
ImplementsRelay == Relay!Spec

\* History: no order has been rejected or throttled so far.
NoReject == budget.reject = MaxRejects

\* LINK can only end the process.
Refused == KrxSeq > INT_SEQ \/ INT_SEQ - KrxSeq > RD_CNT

\* An order the sender does not know how to send is in front of order i, or is
\* order i: it stops the queue for good, since every process that reaches it
\* ends before it counts it as read.
Stuck(i) == \E j \in 1..i : j \in undefined

\* Every order in front of the first one of an unknown type reaches the exchange
\* in spite of drops and deaths, unless the counters have come to the point
\* where every LINK is refused, or a reject has moved them.
EveryOrderTaken ==
  \A i \in 1..MaxOrders :
    WR_CNT >= i ~> \/ \E k \in 1..KrxSeq : consumed[k] = i
                   \/ Stuck(i)
                   \/ torn # {} /\ Refused
                   \/ ~NoReject

\* The comment in Socket_Event_Rtn: after a reject the sender goes on with the
\* order after the last one it sent.
ContinuesAfterLastSent ==
  [][Send => INT_SEQ + 1 = lastSent + 1]_vars
===============================================================================
