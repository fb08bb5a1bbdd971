------------------------- MODULE OrderSession_proofs -------------------------
(***************************************************************************)
(* Proofs about OrderSession, for every number of orders, deaths, drops    *)
(* and rejects and every set of reject offsets.                            *)
(*                                                                         *)
(* The argument is about one number, the lag: the sequence an order gets   *)
(* minus its position in the queue.  What the sender would give now (Lag)  *)
(* is found from the two counters and the place between two assignments    *)
(* where it stands.  Steps of the sender leave the lag alone, a death      *)
(* between two assignments makes it larger, and only a death inside a      *)
(* reject makes it smaller.  So the lags of the orders on their way never  *)
(* fall, and the exchange, which takes sequences without a gap, never      *)
(* skips a position; and while no such death has happened the lag is zero. *)
(***************************************************************************)
EXTENDS OrderSession, SequenceTheorems, TLAPS

-------------------------------------------------------------------------------
\* The inductive invariants

\* What the environment may still spend.
Budgets == {"crash", "drop", "reject", "undefined"}

Data ==
  /\ WR_CNT \in Nat /\ RD_CNT \in Int /\ INT_SEQ \in Int /\ mun \in Int
  /\ pc \in Places
  /\ conn \in {"up", "broken", "closed"}
  /\ toKrx \in Seq(Message) /\ fromKrx \in Seq(Message)
  /\ market \in {"shut", "open"}
  /\ consumed \in Seq(Int)
  /\ lastSent \in Int
  /\ torn \subseteq Between
  /\ budget \in [Budgets -> Nat]
  /\ pc = "rewound" => mun > 0

\* A LINK is only in progress after a LOGON.
FlagsInv ==
  /\ LogOnFlag \in BOOLEAN /\ OpenFlag \in BOOLEAN
  /\ OpenFlag => LogOnFlag
  /\ pc \in {"linking", "rewound"} => LogOnFlag

\* Only orders of the queue are of an unknown type.
QueueInv == undefined \subseteq 1..WR_CNT

Types == Data /\ FlagsInv /\ QueueInv

\* The lag of the next order, once the handler in progress is through.
Lag ==
  INT_SEQ - RD_CNT + IF pc = "counted" THEN 0 - 1
                     ELSE IF pc = "rewound" THEN 0 - mun
                     ELSE IF pc = "rejected" THEN mun ELSE 0

\* The lag of a message that is an order, and of what was taken last.
LagOf(m) == m.seq - m.order
KrxLag == IF KrxSeq = 0 THEN 0 ELSE KrxSeq - consumed[KrxSeq]

IsOrder(m) == m.kind = "order"

\* The lags of the orders on a channel.
LagsBetween(c, lo, hi) ==
  \A i \in 1..Len(c) : IsOrder(c[i]) => lo <= LagOf(c[i]) /\ LagOf(c[i]) <= hi

LagsRise(c) ==
  \A i, j \in 1..Len(c) :
    (i < j /\ IsOrder(c[i]) /\ IsOrder(c[j])) => LagOf(c[i]) <= LagOf(c[j])

LagInv ==
  "rejected" \notin torn =>
    /\ 0 <= KrxLag /\ KrxLag <= Lag
    /\ LagsBetween(toKrx, KrxLag, Lag)
    /\ LagsRise(toKrx)

InStepInv == torn \subseteq {"sent"} => Lag = 0

IInv == Types /\ LagInv /\ InStepInv /\ SequenceIsPosition /\ NoOrderPassedOver

-------------------------------------------------------------------------------
\* Types

LEMMA Constants ==
  /\ MaxOrders \in Nat /\ MaxCrashes \in Nat /\ MaxDrops \in Nat
  /\ MaxRejects \in Nat /\ MaxUndefined \in Nat
  /\ \A k \in RejectOffsets : k \in Nat
  /\ \A n \in Answers : n \in {0, 1}
BY BoundsAssumption, RejectAssumption

LEMMA MessageFields ==
  ASSUME NEW m \in Message
  PROVE  m.seq \in Int /\ m.order \in Int
BY DEF Message

LEMMA ChannelOps ==
  ASSUME NEW s \in Seq(Message)
  PROVE  /\ \A m \in Message : Append(s, m) \in Seq(Message)
         /\ s # <<>> => Head(s) \in Message /\ Tail(s) \in Seq(Message)
         /\ \A k \in 0..Len(s) : SubSeq(s, 1, k) \in Seq(Message)
         /\ <<>> \in Seq(Message)
<1>1. \A m \in Message : Append(s, m) \in Seq(Message)
  BY AppendProperties
<1>2. s # <<>> => Head(s) \in Message /\ Tail(s) \in Seq(Message)
  BY HeadTailProperties
<1>3. \A k \in 0..Len(s) : SubSeq(s, 1, k) \in Seq(Message)
  BY SubSeqProperties, LenProperties
<1>4. QED
  BY <1>1, <1>2, <1>3

LEMMA BudgetTyped ==
  ASSUME NEW b \in Budgets, Types, Spend(b)
  PROVE  budget' \in [Budgets -> Nat]
BY DEF Spend, Types, Data, Budgets

LEMMA KrxSeqTyped ==
  ASSUME Types
  PROVE  KrxSeq \in Nat
BY LenProperties DEF KrxSeq, Types, Data

\* What a write leaves behind.
LEMMA WriteTyped ==
  ASSUME NEW m \in Message, Types, Device_Write(m)
  PROVE  /\ conn' \in {"up", "broken", "closed"}
         /\ toKrx' \in Seq(Message) /\ fromKrx' \in Seq(Message)
BY ChannelOps DEF Device_Write, Device_Close, Types, Data, channels

\* A write that fails puts both flags off, any other leaves them.
LEMMA WriteFlags ==
  ASSUME NEW m, Device_Write(m)
  PROVE  \/ LogOnFlag' = LogOnFlag /\ OpenFlag' = OpenFlag
         \/ LogOnFlag' = FALSE /\ OpenFlag' = FALSE /\ conn' = "closed"
BY Zenon DEF Device_Write, Device_Close, flags

LEMMA ConnectingTyped ==
  ASSUME Types, Connecting
  PROVE  Data'
<1>1. CASE Device_Open_Logon
  BY <1>1, ChannelOps
  DEF Device_Open_Logon, Types, Data, counters, krx, Places
<1>2. CASE Link_Request
  <2>1. Msg("link", INT_SEQ, 0, TRUE) \in Message
    BY DEF Types, Data, Msg, Message
  <2>2. QED
    BY <1>2, <2>1, WriteTyped
    DEF Link_Request, Types, Data, counters, krx, Places
<1>3. CASE Link_Response
  <2> DEFINE m == Head(fromKrx)
  <2>1. m \in Message /\ Tail(fromKrx) \in Seq(Message) /\ m.seq \in Int
    BY <1>3, ChannelOps, MessageFields DEF Link_Response, Types, Data
  <2>2. fromKrx' \in Seq(Message)
    BY <1>3, <2>1, ChannelOps DEF Link_Response, Types, Data
  <2> HIDE DEF m
  <2>3. Link_TooEarly(m) \/ Link_InStep(m) \/ Link_Rewind(m) \/ Link_Refuse(m)
    BY <1>3 DEF Link_Response, m
  <2>4. UNCHANGED <<krx, torn, budget>> /\ pc = "linking"
    BY <1>3 DEF Link_Response
  <2>5. CASE Link_TooEarly(m)
    BY <2>2, <2>4, <2>5 DEF Link_TooEarly, Types, Data, counters, krx, Places
  <2>6. CASE Link_InStep(m)
    BY <2>2, <2>4, <2>6 DEF Link_InStep, Link_Ok, Types, Data, krx, Places
  <2>7. CASE Link_Rewind(m)
    <3>1. mun' \in Int /\ mun' > 0 /\ RD_CNT' \in Int
      <4>1. /\ mun' = INT_SEQ - m.seq /\ m.seq < INT_SEQ
            /\ RD_CNT' = RD_CNT - mun'
        BY <2>7 DEF Link_Rewind
      <4>2. QED
        BY <2>1, <4>1 DEF Types, Data
    <3>2. QED
      BY <2>2, <2>4, <2>7, <3>1 DEF Link_Rewind, Types, Data, krx, Places
  <2>8. CASE Link_Refuse(m)
    BY <2>2, <2>4, <2>8 DEF Link_Refuse, Types, Data, counters, krx, Places
  <2>9. QED
    BY <2>3, <2>5, <2>6, <2>7, <2>8
<1>4. CASE Link_Finish
  BY <1>4 DEF Link_Finish, Link_Ok, Types, Data, krx, Places
<1>5. CASE Link_Lost
  BY <1>5, ChannelOps
  DEF Link_Lost, Device_Close, Types, Data, counters, krx, Places
<1>6. QED
  BY <1>1, <1>2, <1>3, <1>4, <1>5 DEF Connecting

LEMMA WorkingTyped ==
  ASSUME Types, Working
  PROVE  Data'
<1>1. CASE Poll
  BY <1>1 DEF Poll, Types, Data, counters, flags, channels, krx, Places
<1>2. CASE Send
  <2>1. Msg("order", INT_SEQ + 1, RD_CNT + 1, TRUE) \in Message
    BY DEF Types, Data, Msg, Message
  <2>2. /\ conn' \in {"up", "broken", "closed"}
        /\ toKrx' \in Seq(Message) /\ fromKrx' \in Seq(Message)
    BY <1>2, <2>1, WriteTyped DEF Send
  <2>3. lastSent' \in Int
    BY <1>2 DEF Send, Types, Data
  <2>4. QED
    BY <1>2, <2>2, <2>3 DEF Send, Types, Data, counters, krx, Places
<1>3. CASE CountSeq
  BY <1>3 DEF CountSeq, Types, Data, flags, channels, krx, Places
<1>4. CASE CountRead
  BY <1>4 DEF CountRead, Types, Data, flags, channels, krx, Places
<1>5. CASE Disconnect
  BY <1>5, ChannelOps
  DEF Disconnect, Device_Close, Types, Data, counters, krx, Places
<1>6. CASE Hangup
  BY <1>6, ChannelOps
  DEF Hangup, Exit_Process, Types, Data, counters, krx, Places
<1>7. CASE Socket_Event_Rtn
  <2> DEFINE m == Head(fromKrx)
  <2>1. m \in Message /\ Tail(fromKrx) \in Seq(Message) /\ m.seq \in Int
    BY <1>7, ChannelOps, MessageFields DEF Socket_Event_Rtn, Types, Data
  <2>2. fromKrx' \in Seq(Message)
    BY <1>7, <2>1, ChannelOps DEF Socket_Event_Rtn, Types, Data
  <2> HIDE DEF m
  <2>3. Throttled(m) \/ Rejected(m) \/ Reject_Refuse(m)
    BY <1>7 DEF Socket_Event_Rtn, m
  <2>4. UNCHANGED <<krx, lastSent, torn, budget>> /\ pc = "poll"
    BY <1>7 DEF Socket_Event_Rtn
  <2>5. CASE Throttled(m)
    BY <2>2, <2>4, <2>5 DEF Throttled, Types, Data, counters, krx, Places
  <2>6. CASE Rejected(m)
    <3>1. mun' \in Int /\ INT_SEQ' \in Int
      <4>1. mun' = INT_SEQ - m.seq - 1 /\ INT_SEQ' = INT_SEQ - mun'
        BY <2>6 DEF Rejected
      <4>2. QED
        BY <2>1, <4>1 DEF Types, Data
    <3>2. QED
      BY <2>2, <2>4, <2>6, <3>1 DEF Rejected, Types, Data, krx, Places
  <2>7. CASE Reject_Refuse(m)
    BY <2>2, <2>4, <2>7 DEF Reject_Refuse, Types, Data, counters, krx, Places
  <2>8. QED
    BY <2>3, <2>5, <2>6, <2>7
<1>8. CASE Reject_Finish
  <2>1. PICK n \in Answers : RD_CNT' = RD_CNT - mun + n
    BY <1>8 DEF Reject_Finish
  <2>2. n \in Int
    BY Constants
  <2>3. QED
    BY <1>8, <2>1, <2>2
    DEF Reject_Finish, Types, Data, flags, channels, krx, Places
<1>9. CASE Undefined_Data
  BY <1>9, ChannelOps
  DEF Undefined_Data, Device_Close, Types, Data, counters, krx, Places
<1>10. QED
  BY <1>1, <1>2, <1>3, <1>4, <1>5, <1>6, <1>7, <1>8, <1>9
  DEF Working

LEMMA ExchangeTyped ==
  ASSUME Types, Exchange
  PROVE  Data'
<1>1. \A m \in Message : Answer(m) => fromKrx' \in Seq(Message)
  BY ChannelOps DEF Answer, Types, Data
<1>2. CASE Market_Open
  BY <1>2 DEF Market_Open, Types, Data, counters, flags, channels
<1>3. CASE Krx_Link
  <2>1. Msg("link", KrxSeq, 0, market = "open") \in Message
    <3>1. KrxSeq \in Int
      BY KrxSeqTyped
    <3>2. QED
      BY <3>1 DEF Msg, Message
  <2>2. toKrx' \in Seq(Message)
    BY <1>3, ChannelOps DEF Krx_Link, Types, Data
  <2>3. QED
    BY <1>1, <1>3, <2>1, <2>2
    DEF Krx_Link, Types, Data, counters, flags, krx
<1>4. CASE Krx_Take
  <2>1. Head(toKrx).seq \in Int /\ Head(toKrx).order \in Int
        /\ toKrx' \in Seq(Message)
    BY <1>4, ChannelOps, MessageFields DEF Krx_Take, Types, Data
  <2>2. \A k \in RejectOffsets :
          Msg("reject", Head(toKrx).seq - k, 0, FALSE) \in Message
    BY <2>1, Constants DEF Msg, Message
  <2>3. fromKrx' \in Seq(Message)
    BY <1>1, <1>4, <2>2 DEF Krx_Take, Types, Data
  <2>4. consumed' \in Seq(Int)
    BY <1>4, <2>1, AppendProperties DEF Krx_Take, Types, Data
  <2>5. budget' \in [Budgets -> Nat]
    BY <1>4, BudgetTyped DEF Krx_Take, Types, Data, Budgets
  <2>6. QED
    BY <1>4, <2>1, <2>3, <2>4, <2>5
    DEF Krx_Take, Types, Data, counters, flags
<1>5. CASE Krx_Throttle
  <2>1. Head(toKrx).seq \in Int /\ toKrx' \in Seq(Message)
    BY <1>5, ChannelOps, MessageFields DEF Krx_Throttle, Types, Data
  <2>2. Msg("throttle", Head(toKrx).seq, 0, FALSE) \in Message
    BY <2>1 DEF Msg, Message
  <2>3. budget' \in [Budgets -> Nat]
    BY <1>5, BudgetTyped DEF Krx_Throttle, Budgets
  <2>4. QED
    BY <1>1, <1>5, <2>1, <2>2, <2>3
    DEF Krx_Throttle, Types, Data, counters, flags, krx
<1>6. CASE Krx_Close
  BY <1>6, ChannelOps DEF Krx_Close, Types, Data, counters, flags, krx
<1>7. QED
  BY <1>2, <1>3, <1>4, <1>5, <1>6 DEF Exchange

LEMMA EnvironmentTyped ==
  ASSUME Types, Environment
  PROVE  Data'
<1>1. CASE F_W
  <2>1. budget' \in [Budgets -> Nat]
    BY <1>1, BudgetTyped DEF F_W, Types, Data, Budgets
  <2>2. QED
    BY <1>1, <2>1 DEF F_W, Types, Data, flags, channels, krx
<1>2. CASE Crash
  <2>1. budget' \in [Budgets -> Nat]
    BY <1>2, BudgetTyped DEF Crash, Budgets
  <2>2. toKrx' \in Seq(Message) /\ fromKrx' \in Seq(Message)
    BY <1>2, ChannelOps DEF Crash, Exit_Process, Types, Data
  <2>3. QED
    BY <1>2, <2>1, <2>2
    DEF Crash, Exit_Process, Types, Data, counters, krx, Places
<1>3. CASE Drop
  <2>1. budget' \in [Budgets -> Nat]
    BY <1>3, BudgetTyped DEF Drop, Budgets
  <2>2. toKrx' \in Seq(Message) /\ fromKrx' \in Seq(Message)
    BY <1>3, ChannelOps DEF Drop, LoseTail, Types, Data
  <2>3. QED
    BY <1>3, <2>1, <2>2 DEF Drop, Types, Data, counters, flags, krx
<1>4. QED
  BY <1>1, <1>2, <1>3 DEF Environment

LEMMA StepData ==
  ASSUME Types, [Next]_vars
  PROVE  Data'
<1>1. CASE Restart
  BY <1>1
  DEF Restart, Types, Data, counters, flags, channels, krx, Places
<1>2. CASE UNCHANGED vars
  BY <1>2 DEF vars, Types, Data
<1>3. QED
  BY <1>1, <1>2, ConnectingTyped, WorkingTyped, ExchangeTyped,
     EnvironmentTyped DEF Next

LEMMA FlagsOutsideLink ==
  ASSUME FlagsInv, pc' \notin {"linking", "rewound"},
         \/ LogOnFlag' = LogOnFlag /\ OpenFlag' = OpenFlag
         \/ LogOnFlag' = FALSE /\ OpenFlag' = FALSE
  PROVE  FlagsInv'
<1>1. /\ LogOnFlag' \in BOOLEAN /\ OpenFlag' \in BOOLEAN
      /\ OpenFlag' => LogOnFlag'
  <2>1. CASE LogOnFlag' = LogOnFlag /\ OpenFlag' = OpenFlag
    BY <2>1, Zenon DEF FlagsInv
  <2>2. CASE LogOnFlag' = FALSE /\ OpenFlag' = FALSE
    BY <2>2, Zenon
  <2>3. QED
    BY <2>1, <2>2
<1>2. pc' \in {"linking", "rewound"} => LogOnFlag'
  OBVIOUS
<1>3. QED
  BY <1>1, <1>2, Zenon DEF FlagsInv

LEMMA StepFlags ==
  ASSUME FlagsInv, [Next]_vars
  PROVE  FlagsInv'
<1>1. CASE Device_Open_Logon
  BY <1>1, Zenon DEF Device_Open_Logon, FlagsInv
<1>2. CASE Link_Request
  <2>1. \/ LogOnFlag' = LogOnFlag /\ OpenFlag' = OpenFlag
        \/ LogOnFlag' = FALSE /\ OpenFlag' = FALSE /\ conn' = "closed"
    BY <1>2, WriteFlags DEF Link_Request
  <2>2. LogOnFlag /\ pc' = IF conn' = "closed" THEN "loop" ELSE "linking"
    BY <1>2 DEF Link_Request
  <2>3. QED
    BY <2>1, <2>2, Zenon DEF FlagsInv
<1>3. CASE Link_Response
  <2>1. LogOnFlag
    BY <1>3, Zenon DEF Link_Response, FlagsInv
  <2>2. \/ LogOnFlag' = LogOnFlag /\ OpenFlag' \in {TRUE, OpenFlag}
        \/ LogOnFlag' = FALSE /\ OpenFlag' = FALSE /\ pc' = "down"
    BY <1>3, Zenon
    DEF Link_Response, Link_TooEarly, Link_InStep, Link_Ok, Link_Rewind,
        Link_Refuse, flags
  <2>3. QED
    BY <2>1, <2>2, Zenon DEF FlagsInv
<1>4. CASE Link_Finish
  BY <1>4, Zenon DEF Link_Finish, Link_Ok, FlagsInv
<1>5. CASE Link_Lost \/ Disconnect
  BY <1>5, Zenon DEF Link_Lost, Disconnect, Device_Close, FlagsInv
<1>6. CASE Send
  <2>1. \/ LogOnFlag' = LogOnFlag /\ OpenFlag' = OpenFlag
        \/ LogOnFlag' = FALSE /\ OpenFlag' = FALSE /\ conn' = "closed"
    BY <1>6, WriteFlags DEF Send
  <2>2. pc' \notin {"linking", "rewound"}
    BY <1>6 DEF Send
  <2>3. QED
    BY <2>1, <2>2, FlagsOutsideLink
<1>7. CASE Hangup \/ Crash
  BY <1>7, Zenon DEF Hangup, Crash, Exit_Process, FlagsInv
<1>8. CASE Socket_Event_Rtn
  <2>1. \/ LogOnFlag' = LogOnFlag /\ OpenFlag' = OpenFlag
        \/ LogOnFlag' = FALSE /\ OpenFlag' = FALSE
    BY <1>8, Zenon
    DEF Socket_Event_Rtn, Throttled, Rejected, Reject_Refuse, flags
  <2>2. pc' \notin {"linking", "rewound"}
    BY <1>8 DEF Socket_Event_Rtn, Throttled, Rejected, Reject_Refuse
  <2>3. QED
    BY <2>1, <2>2, FlagsOutsideLink
<1>9. CASE Poll \/ CountSeq \/ CountRead \/ Reject_Finish \/ Restart
  <2>1. LogOnFlag' = LogOnFlag /\ OpenFlag' = OpenFlag
    BY <1>9, Zenon
    DEF Poll, CountSeq, CountRead, Reject_Finish, Restart, flags
  <2>2. pc' \notin {"linking", "rewound"}
    BY <1>9 DEF Poll, CountSeq, CountRead, Reject_Finish, Restart
  <2>3. QED
    BY <2>1, <2>2, FlagsOutsideLink
<1>10. CASE Exchange \/ F_W \/ Drop \/ UNCHANGED vars
  <2>1. pc' = pc /\ LogOnFlag' = LogOnFlag /\ OpenFlag' = OpenFlag
    BY <1>10, Zenon
    DEF Exchange, Market_Open, Krx_Link, Krx_Take, Krx_Throttle, Krx_Close,
        F_W, Drop, vars, flags
  <2>2. QED
    BY <2>1, Zenon DEF FlagsInv
<1>11. CASE Undefined_Data
  <2>1. LogOnFlag' = FALSE /\ OpenFlag' = FALSE /\ pc' = "down"
    BY <1>11, Zenon DEF Undefined_Data, Device_Close
  <2>2. QED
    BY <2>1, Zenon DEF FlagsInv
<1>12. QED
  BY <1>1, <1>2, <1>3, <1>4, <1>5, <1>6, <1>7, <1>8, <1>9, <1>10, <1>11,
     Zenon
  DEF Next, Connecting, Working, Environment

\* Only the order side writes to the queue.
LEMMA StepQueue ==
  ASSUME Types, [Next]_vars
  PROVE  QueueInv'
<1>1. CASE F_W
  <2>1. /\ WR_CNT \in Nat /\ WR_CNT' = WR_CNT + 1
        /\ undefined' = undefined \/ undefined' = undefined \union {WR_CNT'}
        /\ undefined \subseteq 1..WR_CNT
    BY <1>1 DEF F_W, Types, Data, QueueInv
  <2>2. WR_CNT' \in 1..WR_CNT' /\ \A i \in 1..WR_CNT : i \in 1..WR_CNT'
    BY <2>1
  <2>3. QED
    BY <2>1, <2>2, Zenon DEF QueueInv
<1>2. CASE \/ Connecting \/ Working \/ Restart \/ Exchange \/ Crash \/ Drop
           \/ UNCHANGED vars
  <2>1. UNCHANGED <<WR_CNT, undefined>>
    BY <1>2, Zenon
    DEF Connecting, Device_Open_Logon, Link_Request, Link_Response,
        Link_TooEarly, Link_InStep, Link_Rewind, Link_Refuse, Link_Ok,
        Link_Finish, Link_Lost, Working, Poll, Send, Undefined_Data, CountSeq,
        CountRead, Disconnect, Hangup, Socket_Event_Rtn, Throttled, Rejected,
        Reject_Refuse, Reject_Finish, Restart, Exchange, Market_Open, Krx_Link,
        Krx_Take, Krx_Throttle, Krx_Close, Crash, Drop, vars, counters
  <2>2. QED
    BY <2>1, Zenon DEF Types, QueueInv
<1>3. QED
  BY <1>1, <1>2, Zenon DEF Next, Environment

LEMMA InitTyped ==
  ASSUME Init
  PROVE  Types
<1>1. Data
  <2>1. <<>> \in Seq(Message) /\ <<>> \in Seq(Int)
    BY EmptySeq
  <2>2. budget \in [Budgets -> Nat]
    BY Constants DEF Init, Budgets
  <2>3. QED
    BY <2>1, <2>2 DEF Init, Data, Places
<1>2. FlagsInv
  BY Zenon DEF Init, FlagsInv
<1>3. QueueInv
  BY Zenon DEF Init, QueueInv
<1>4. QED
  BY <1>1, <1>2, <1>3 DEF Types

\* Counters, flags, channels and the exchange stay in their types, whatever
\* the sender does and wherever it dies: no handler leaves orders open on a
\* connection that has no LOGON.
THEOREM TypeCorrect == Spec => []TypeOK
<1>1. Init => Types
  BY InitTyped
<1>2. Types /\ [Next]_vars => Types'
  BY StepData, StepFlags, StepQueue DEF Types
<1>3. Types => TypeOK
  BY Zenon DEF Types, Data, FlagsInv, QueueInv, TypeOK, Budgets
<1>4. QED
  BY <1>1, <1>2, <1>3, PTL DEF Spec

-------------------------------------------------------------------------------
\* The lags of the orders on their way

LEMMA LagTyped ==
  ASSUME NEW m \in Message
  PROVE  LagOf(m) \in Int
BY MessageFields DEF LagOf

LEMMA CutLags ==
  ASSUME NEW c \in Seq(Message), NEW k \in 0..Len(c),
         NEW lo \in Int, NEW hi \in Int, LagsBetween(c, lo, hi), LagsRise(c)
  PROVE  LagsBetween(SubSeq(c, 1, k), lo, hi) /\ LagsRise(SubSeq(c, 1, k))
<1> DEFINE d == SubSeq(c, 1, k)
<1>1. Len(d) = k /\ \A i \in 1..k : d[i] = c[i]
  BY SubSeqProperties, LenProperties
<1>2. Len(c) \in Nat
  BY LenProperties
<1> HIDE DEF d
<1>3. LagsBetween(d, lo, hi)
  BY <1>1, <1>2 DEF LagsBetween
<1>4. LagsRise(d)
  BY <1>1, <1>2 DEF LagsRise
<1>5. QED
  BY <1>3, <1>4 DEF d

LEMMA TailLags ==
  ASSUME NEW c \in Seq(Message), c # <<>>,
         NEW lo \in Int, NEW hi \in Int, LagsBetween(c, lo, hi), LagsRise(c)
  PROVE  LagsBetween(Tail(c), lo, hi) /\ LagsRise(Tail(c))
<1> DEFINE d == Tail(c)
<1>1. Len(c) \in Nat /\ Len(d) = Len(c) - 1
      /\ \A i \in 1..Len(d) : d[i] = c[i + 1]
  BY HeadTailProperties, LenProperties
<1> HIDE DEF d
<1>2. LagsBetween(d, lo, hi)
  BY <1>1 DEF LagsBetween
<1>3. LagsRise(d)
  <2> SUFFICES ASSUME NEW i \in 1..Len(d), NEW j \in 1..Len(d), i < j,
                      IsOrder(d[i]), IsOrder(d[j])
               PROVE  LagOf(d[i]) <= LagOf(d[j])
    BY DEF LagsRise
  <2>1. i + 1 \in 1..Len(c) /\ j + 1 \in 1..Len(c) /\ i + 1 < j + 1
        /\ d[i] = c[i + 1] /\ d[j] = c[j + 1]
    BY <1>1
  <2>2. QED
    BY <2>1 DEF LagsRise
<1>4. QED
  BY <1>2, <1>3 DEF d

\* What follows an order has at least its lag.
LEMMA TakeLags ==
  ASSUME NEW c \in Seq(Message), c # <<>>, IsOrder(Head(c)),
         NEW lo \in Int, NEW hi \in Int, LagsBetween(c, lo, hi), LagsRise(c)
  PROVE  /\ lo <= LagOf(Head(c)) /\ LagOf(Head(c)) <= hi
         /\ LagsBetween(Tail(c), LagOf(Head(c)), hi) /\ LagsRise(Tail(c))
<1>1. Head(c) = c[1] /\ 1 \in 1..Len(c) /\ Len(c) \in Nat
      /\ Len(Tail(c)) = Len(c) - 1
      /\ \A i \in 1..Len(Tail(c)) : Tail(c)[i] = c[i + 1]
  BY HeadTailProperties, LenProperties
<1>2. lo <= LagOf(c[1]) /\ LagOf(c[1]) <= hi
  BY <1>1 DEF LagsBetween
<1>3. ASSUME NEW i \in 1..Len(Tail(c)), IsOrder(Tail(c)[i])
      PROVE  LagOf(c[1]) <= LagOf(Tail(c)[i]) /\ LagOf(Tail(c)[i]) <= hi
  <2>1. i + 1 \in 1..Len(c) /\ 1 < i + 1 /\ Tail(c)[i] = c[i + 1]
    BY <1>1
  <2>2. LagOf(c[1]) <= LagOf(c[i + 1])
    BY <1>1, <1>3, <2>1 DEF LagsRise
  <2>3. LagOf(c[i + 1]) <= hi
    BY <1>3, <2>1 DEF LagsBetween
  <2>4. QED
    BY <2>1, <2>2, <2>3
<1>4. LagsBetween(Tail(c), LagOf(c[1]), hi)
  BY <1>3 DEF LagsBetween
<1>5. QED
  BY <1>1, <1>2, <1>4, TailLags

LEMMA AppendLags ==
  ASSUME NEW c \in Seq(Message), NEW m \in Message,
         NEW lo \in Int, NEW hi \in Int, lo <= hi,
         LagsBetween(c, lo, hi), LagsRise(c), IsOrder(m) => LagOf(m) = hi
  PROVE  LagsBetween(Append(c, m), lo, hi) /\ LagsRise(Append(c, m))
<1> DEFINE d == Append(c, m)
<1>1. Len(c) \in Nat /\ Len(d) = Len(c) + 1 /\ d[Len(c) + 1] = m
      /\ \A i \in 1..Len(c) : d[i] = c[i]
  BY AppendProperties, LenProperties
<1> HIDE DEF d
<1>2. LagsBetween(d, lo, hi)
  <2> SUFFICES ASSUME NEW i \in 1..Len(d), IsOrder(d[i])
               PROVE  lo <= LagOf(d[i]) /\ LagOf(d[i]) <= hi
    BY DEF LagsBetween
  <2>1. CASE i = Len(c) + 1
    BY <1>1, <2>1
  <2>2. CASE i # Len(c) + 1
    BY <1>1, <2>2 DEF LagsBetween
  <2>3. QED
    BY <2>1, <2>2
<1>3. LagsRise(d)
  <2> SUFFICES ASSUME NEW i \in 1..Len(d), NEW j \in 1..Len(d), i < j,
                      IsOrder(d[i]), IsOrder(d[j])
               PROVE  LagOf(d[i]) <= LagOf(d[j])
    BY DEF LagsRise
  <2>1. i \in 1..Len(c) /\ d[i] = c[i]
    BY <1>1
  <2>2. CASE j = Len(c) + 1
    BY <1>1, <2>1, <2>2 DEF LagsBetween
  <2>3. CASE j # Len(c) + 1
    BY <1>1, <2>1, <2>3 DEF LagsRise
  <2>4. QED
    BY <2>2, <2>3
<1>4. QED
  BY <1>2, <1>3 DEF d

LEMMA RaiseLags ==
  ASSUME NEW c \in Seq(Message), NEW lo \in Int, NEW hi \in Int, NEW h \in Int,
         hi <= h, LagsBetween(c, lo, hi)
  PROVE  LagsBetween(c, lo, h)
<1> SUFFICES ASSUME NEW i \in 1..Len(c), IsOrder(c[i])
             PROVE  lo <= LagOf(c[i]) /\ LagOf(c[i]) <= h
  BY DEF LagsBetween
<1>1. LagOf(c[i]) \in Int
  BY ElementOfSeq, LagTyped
<1>2. lo <= LagOf(c[i]) /\ LagOf(c[i]) <= hi
  BY DEF LagsBetween
<1>3. QED
  BY <1>1, <1>2

-------------------------------------------------------------------------------
\* The lag of the sender

LEMMA LagAt ==
  ASSUME Types
  PROVE  /\ Lag \in Int
         /\ pc = "counted" => Lag = INT_SEQ - RD_CNT - 1
         /\ pc = "rewound" => Lag = INT_SEQ - RD_CNT - mun
         /\ pc = "rejected" => Lag = INT_SEQ - RD_CNT + mun
         /\ pc \notin {"counted", "rewound", "rejected"} => Lag = INT_SEQ - RD_CNT
BY DEF Lag, Types, Data

LEMMA LagAtNext ==
  ASSUME Types'
  PROVE  /\ Lag' \in Int
         /\ pc' = "counted" => Lag' = INT_SEQ' - RD_CNT' - 1
         /\ pc' = "rewound" => Lag' = INT_SEQ' - RD_CNT' - mun'
         /\ pc' = "rejected" => Lag' = INT_SEQ' - RD_CNT' + mun'
         /\ pc' \notin {"counted", "rewound", "rejected"} =>
              Lag' = INT_SEQ' - RD_CNT'
BY DEF Lag, Types, Data

LEMMA SteadyLag ==
  ASSUME Types, Types', UNCHANGED <<RD_CNT, INT_SEQ>>,
         pc \notin {"counted", "rewound", "rejected"},
         pc' \notin {"counted", "rewound", "rejected"}
  PROVE  Lag' = Lag
BY LagAt, LagAtNext

LEMMA MovedTogether ==
  ASSUME NEW i \in Int, NEW r \in Int, NEW u \in Int
  PROVE  (i - (r - u)) - u = i - r /\ ((i - u) - r) + u = i - r
OBVIOUS

LEMMA LinkResponseLag ==
  ASSUME Types, Types', Link_Response
  PROVE  Lag' = Lag
<1> DEFINE m == Head(fromKrx)
<1>1. m.seq \in Int
  BY ChannelOps, MessageFields DEF Link_Response, Types, Data
<1>2. \/ Link_TooEarly(m) \/ Link_InStep(m) \/ Link_Refuse(m)
      \/ Link_Rewind(m)
  BY DEF Link_Response
<1>3. pc = "linking"
  BY DEF Link_Response
<1> HIDE DEF m
<1>4. CASE Link_TooEarly(m) \/ Link_InStep(m) \/ Link_Refuse(m)
  <2>1. /\ UNCHANGED <<RD_CNT, INT_SEQ>>
        /\ pc' \notin {"counted", "rewound", "rejected"}
    BY <1>4 DEF Link_TooEarly, Link_InStep, Link_Refuse, Link_Ok, counters
  <2>2. QED
    BY <1>3, <2>1, SteadyLag
<1>5. CASE Link_Rewind(m)
  <2>1. INT_SEQ' = INT_SEQ /\ RD_CNT' = RD_CNT - mun' /\ pc' = "rewound"
    BY <1>5 DEF Link_Rewind
  <2>2. Lag' = INT_SEQ' - RD_CNT' - mun' /\ Lag = INT_SEQ - RD_CNT
    BY <1>3, <2>1, LagAt, LagAtNext
  <2>3. INT_SEQ \in Int /\ RD_CNT \in Int
    BY DEF Types, Data
  <2>4. mun' \in Int
    BY DEF Types, Data
  <2>5. (INT_SEQ - (RD_CNT - mun')) - mun' = INT_SEQ - RD_CNT
    BY <2>3, <2>4, MovedTogether, Zenon
  <2>6. QED
    BY <2>1, <2>2, <2>5, Zenon
<1>6. QED
  BY <1>2, <1>4, <1>5

LEMMA SocketEventLag ==
  ASSUME Types, Types', Socket_Event_Rtn
  PROVE  Lag' = Lag
<1> DEFINE m == Head(fromKrx)
<1>1. Throttled(m) \/ Rejected(m) \/ Reject_Refuse(m)
  BY DEF Socket_Event_Rtn
<1>2. pc = "poll"
  BY DEF Socket_Event_Rtn
<1> HIDE DEF m
<1>3. CASE Throttled(m) \/ Reject_Refuse(m)
  <2>1. /\ UNCHANGED <<RD_CNT, INT_SEQ>>
        /\ pc' \notin {"counted", "rewound", "rejected"}
    BY <1>3 DEF Throttled, Reject_Refuse, counters
  <2>2. QED
    BY <1>2, <2>1, SteadyLag
<1>4. CASE Rejected(m)
  <2>1. RD_CNT' = RD_CNT /\ INT_SEQ' = INT_SEQ - mun' /\ pc' = "rejected"
    BY <1>4 DEF Rejected
  <2>2. Lag' = INT_SEQ' - RD_CNT' + mun' /\ Lag = INT_SEQ - RD_CNT
    BY <1>2, <2>1, LagAt, LagAtNext
  <2>3. INT_SEQ \in Int /\ RD_CNT \in Int
    BY DEF Types, Data
  <2>4. mun' \in Int
    BY DEF Types, Data
  <2>5. ((INT_SEQ - mun') - RD_CNT) + mun' = INT_SEQ - RD_CNT
    BY <2>3, <2>4, MovedTogether, Zenon
  <2>6. QED
    BY <2>1, <2>2, <2>5, Zenon
<1>5. QED
  BY <1>1, <1>3, <1>4

\* A death leaves the counters as they are: between two assignments that is
\* another lag.
LEMMA CrashLag ==
  ASSUME Types, Types', Crash
  PROVE  /\ pc \notin {"counted", "rewound", "rejected"} => Lag' = Lag
         /\ pc \in {"counted", "rewound"} => Lag <= Lag'
         /\ torn' = torn \union ({pc} \cap Between)
<1>1. /\ UNCHANGED <<RD_CNT, INT_SEQ>> /\ pc' = "down"
      /\ torn' = torn \union ({pc} \cap Between)
  BY DEF Crash, Exit_Process, counters
<1>2. Lag' = INT_SEQ - RD_CNT
  BY <1>1, LagAtNext
<1>3. /\ INT_SEQ \in Int /\ RD_CNT \in Int /\ mun \in Int
      /\ pc = "rewound" => mun > 0
  BY DEF Types, Data
<1>4. CASE pc = "counted"
  BY <1>1, <1>2, <1>3, <1>4, LagAt
<1>5. CASE pc = "rewound"
  BY <1>1, <1>2, <1>3, <1>5, LagAt
<1>6. CASE pc \notin {"counted", "rewound"}
  BY <1>1, <1>2, <1>6, LagAt
<1>7. QED
  BY <1>4, <1>5, <1>6

LEMMA StepLag ==
  ASSUME Types, Types', [Next]_vars, 1 \notin Answers
  PROVE  \/ Lag' = Lag /\ torn \subseteq torn'
         \/ /\ pc \in {"counted", "rewound", "rejected"}
            /\ pc # "rejected" => Lag <= Lag'
            /\ torn' = torn \union {pc}
<1>0. INT_SEQ \in Int /\ RD_CNT \in Int /\ mun \in Int
  BY DEF Types, Data
<1>1. CASE Crash
  <2>1. pc \in {"counted", "rewound", "rejected"} => {pc} \cap Between = {pc}
    BY DEF Between
  <2>2. QED
    BY <1>1, <2>1, CrashLag
<1>2. CASE Link_Response \/ Socket_Event_Rtn
  BY <1>2, LinkResponseLag, SocketEventLag DEF Link_Response, Socket_Event_Rtn
<1>3. CASE Link_Finish
  <2>1. /\ RD_CNT' = RD_CNT /\ INT_SEQ' = INT_SEQ - mun /\ torn' = torn
        /\ pc = "rewound" /\ pc' = "loop"
    BY <1>3 DEF Link_Finish, Link_Ok
  <2>2. Lag = INT_SEQ - RD_CNT - mun /\ Lag' = INT_SEQ' - RD_CNT'
    BY <2>1, LagAt, LagAtNext
  <2>3. QED
    BY <1>0, <2>1, <2>2
<1>4. CASE CountSeq
  <2>1. /\ RD_CNT' = RD_CNT /\ INT_SEQ' = INT_SEQ + 1 /\ torn' = torn
        /\ pc = "sent" /\ pc' = "counted"
    BY <1>4 DEF CountSeq
  <2>2. Lag = INT_SEQ - RD_CNT /\ Lag' = INT_SEQ' - RD_CNT' - 1
    BY <2>1, LagAt, LagAtNext
  <2>3. QED
    BY <1>0, <2>1, <2>2
<1>5. CASE CountRead
  <2>1. /\ RD_CNT' = RD_CNT + 1 /\ INT_SEQ' = INT_SEQ /\ torn' = torn
        /\ pc = "counted" /\ pc' = "loop"
    BY <1>5 DEF CountRead
  <2>2. Lag = INT_SEQ - RD_CNT - 1 /\ Lag' = INT_SEQ' - RD_CNT'
    BY <2>1, LagAt, LagAtNext
  <2>3. QED
    BY <1>0, <2>1, <2>2
<1>6. CASE Reject_Finish
  <2>1. PICK n \in Answers : RD_CNT' = RD_CNT - mun + n
    BY <1>6 DEF Reject_Finish
  <2>2. n = 0
    BY Constants
  <2>3. /\ INT_SEQ' = INT_SEQ /\ torn' = torn
        /\ pc = "rejected" /\ pc' = "loop"
    BY <1>6 DEF Reject_Finish
  <2>4. Lag = INT_SEQ - RD_CNT + mun /\ Lag' = INT_SEQ' - RD_CNT'
    BY <2>3, LagAt, LagAtNext
  <2>5. QED
    BY <1>0, <2>1, <2>2, <2>3, <2>4
<1>7. CASE \/ Device_Open_Logon \/ Link_Request \/ Link_Lost \/ Poll \/ Send
           \/ Undefined_Data \/ Disconnect \/ Hangup \/ Restart
  <2>1. /\ UNCHANGED <<RD_CNT, INT_SEQ, torn>>
        /\ pc \notin {"counted", "rewound", "rejected"}
        /\ pc' \notin {"counted", "rewound", "rejected"}
    BY <1>7
    DEF Device_Open_Logon, Link_Request, Link_Lost, Poll, Send, Draining,
        Undefined_Data, Disconnect, Hangup, Exit_Process, Restart, counters
  <2>2. QED
    BY <2>1, SteadyLag
<1>8. CASE Exchange \/ F_W \/ Drop \/ UNCHANGED vars
  <2>1. UNCHANGED <<RD_CNT, INT_SEQ, mun, pc, torn>>
    BY <1>8
    DEF Exchange, Market_Open, Krx_Link, Krx_Take, Krx_Throttle, Krx_Close,
        F_W, Drop, vars, counters
  <2>2. QED
    BY <2>1 DEF Lag
<1>9. QED
  BY <1>1, <1>2, <1>3, <1>4, <1>5, <1>6, <1>7, <1>8
  DEF Next, Connecting, Working, Environment

-------------------------------------------------------------------------------
\* What a step does to the orders on their way

\* What is on its way after a step that is no taking: less at the end, less at
\* the front, or one more message, whose lag is the sender's.
NextInQueue(m) == RD_CNT < WR_CNT /\ m.order = RD_CNT + 1

Flown ==
  \/ \E k \in 0..Len(toKrx) : toKrx' = SubSeq(toKrx, 1, k)
  \/ toKrx # <<>> /\ toKrx' = Tail(toKrx)
  \/ \E m \in Message : /\ toKrx' = Append(toKrx, m)
                        /\ IsOrder(m) => LagOf(m) = Lag /\ NextInQueue(m)

LEMMA StaysFlown ==
  ASSUME Types, toKrx' = toKrx \/ toKrx' = <<>>
  PROVE  Flown
<1>1. Len(toKrx) \in 0..Len(toKrx) /\ 0 \in 0..Len(toKrx)
  BY LenProperties DEF Types, Data
<1>2. SubSeq(toKrx, 1, Len(toKrx)) = toKrx /\ SubSeq(toKrx, 1, 0) = <<>>
  BY SubSeqFull, SubSeqEmpty DEF Types, Data
<1>3. QED
  BY <1>1, <1>2 DEF Flown

LEMMA WriteFlown ==
  ASSUME Types, NEW m \in Message, Device_Write(m),
         IsOrder(m) => LagOf(m) = Lag /\ NextInQueue(m)
  PROVE  Flown
<1>1. CASE toKrx' = toKrx
  BY <1>1, StaysFlown
<1>2. CASE toKrx' = Append(toKrx, m)
  BY <1>2 DEF Flown
<1>3. QED
  BY <1>1, <1>2 DEF Device_Write, Device_Close, channels

LEMMA StepFlown ==
  ASSUME Types, [Next]_vars
  PROVE  Krx_Take \/ (consumed' = consumed /\ Flown)
<1>1. CASE Link_Request
  <2>1. Msg("link", INT_SEQ, 0, TRUE) \in Message
    BY DEF Types, Data, Msg, Message
  <2>2. ~IsOrder(Msg("link", INT_SEQ, 0, TRUE))
    BY DEF IsOrder, Msg
  <2>3. Flown
    BY <1>1, <2>1, <2>2, WriteFlown DEF Link_Request
  <2>4. QED
    BY <1>1, <2>3 DEF Link_Request, krx
<1>2. CASE Send
  <2> DEFINE m == Msg("order", INT_SEQ + 1, RD_CNT + 1, TRUE)
  <2>1. m \in Message
    BY DEF Types, Data, Msg, Message
  <2>2. LagOf(m) = (INT_SEQ + 1) - (RD_CNT + 1) /\ m.order = RD_CNT + 1
    BY DEF LagOf, Msg
  <2>3. Lag = INT_SEQ - RD_CNT /\ INT_SEQ \in Int /\ RD_CNT \in Int
    BY <1>2, LagAt DEF Send, Draining, Types, Data
  <2> HIDE DEF m
  <2>4. LagOf(m) = Lag /\ NextInQueue(m)
    BY <1>2, <2>2, <2>3 DEF Send, Draining, NextInQueue, Types, Data
  <2>5. Device_Write(m) /\ consumed' = consumed
    BY <1>2 DEF Send, krx, m
  <2>6. Flown
    BY <2>1, <2>4, <2>5, WriteFlown
  <2>7. QED
    BY <2>5, <2>6
<1>3. CASE Hangup \/ Crash \/ Drop
  BY <1>3 DEF Hangup, Crash, Drop, Exit_Process, LoseTail, Flown, krx
<1>4. CASE Krx_Link \/ Krx_Throttle
  BY <1>4 DEF Krx_Link, Krx_Throttle, Flown, krx
<1>5. CASE \/ Device_Open_Logon \/ Link_Response \/ Link_Finish \/ Link_Lost
           \/ Poll \/ CountSeq \/ CountRead \/ Disconnect \/ Socket_Event_Rtn
           \/ Undefined_Data \/ Reject_Finish \/ Restart \/ F_W \/ Market_Open
           \/ Krx_Close
           \/ UNCHANGED vars
  <2>1. /\ toKrx' = toKrx \/ toKrx' = <<>>
        /\ consumed' = consumed
    BY <1>5
    DEF Device_Open_Logon, Link_Response, Link_TooEarly, Link_InStep,
        Link_Rewind, Link_Refuse, Link_Ok, Link_Finish, Link_Lost,
        Device_Close, Poll, CountSeq, CountRead, Disconnect, Socket_Event_Rtn,
        Undefined_Data,
        Throttled, Rejected, Reject_Refuse, Reject_Finish, Restart, F_W,
        Market_Open, Krx_Close, vars, channels, krx
  <2>2. QED
    BY <2>1, StaysFlown
<1>6. QED
  BY <1>1, <1>2, <1>3, <1>4, <1>5
  DEF Next, Connecting, Working, Exchange, Environment

\* The order taken next, and what has been taken then.
LEMMA Taken ==
  ASSUME Types, Krx_Take
  PROVE  /\ toKrx # <<>> /\ toKrx' = Tail(toKrx)
         /\ IsOrder(Head(toKrx)) /\ Head(toKrx) \in Message
         /\ Head(toKrx).order \in Int /\ Head(toKrx).seq \in Int
         /\ Head(toKrx).seq = KrxSeq + 1
         /\ KrxSeq \in Nat /\ KrxSeq' = KrxSeq + 1
         /\ consumed'[KrxSeq + 1] = Head(toKrx).order
         /\ \A i \in 1..KrxSeq : consumed'[i] = consumed[i]
         /\ KrxLag' = LagOf(Head(toKrx))
         /\ torn' = torn
<1>1. /\ toKrx # <<>> /\ toKrx' = Tail(toKrx) /\ IsOrder(Head(toKrx))
      /\ Head(toKrx).seq = KrxSeq + 1 /\ torn' = torn
      /\ consumed' = Append(consumed, Head(toKrx).order)
  BY DEF Krx_Take, IsOrder
<1>2. Head(toKrx) \in Message
  BY <1>1, ChannelOps DEF Types, Data
<1>3. Head(toKrx).order \in Int /\ Head(toKrx).seq \in Int
  BY <1>2, MessageFields
<1>4. consumed \in Seq(Int) /\ KrxSeq \in Nat
  BY KrxSeqTyped DEF Types, Data
<1>5. /\ KrxSeq' = KrxSeq + 1 /\ consumed'[KrxSeq + 1] = Head(toKrx).order
      /\ \A i \in 1..KrxSeq : consumed'[i] = consumed[i]
  BY <1>1, <1>3, <1>4, AppendProperties DEF KrxSeq
<1>6. KrxLag' = KrxSeq' - consumed'[KrxSeq']
  BY <1>4, <1>5 DEF KrxLag
<1>7. KrxLag' = LagOf(Head(toKrx))
  BY <1>1, <1>5, <1>6 DEF LagOf
<1>8. QED
  BY <1>1, <1>2, <1>3, <1>4, <1>5, <1>7

LEMMA KrxLagTyped ==
  ASSUME Types
  PROVE  KrxLag \in Int
<1>1. KrxSeq \in Nat /\ consumed \in Seq(Int)
  BY KrxSeqTyped DEF Types, Data
<1>2. KrxSeq # 0 => consumed[KrxSeq] \in Int
  BY <1>1, ElementOfSeq DEF KrxSeq
<1>3. QED
  BY <1>1, <1>2 DEF KrxLag

\* Whatever a step does to the channel, it keeps the lags on it in order.
LEMMA FlownLags ==
  ASSUME Types, Flown, KrxLag <= Lag, LagsBetween(toKrx, KrxLag, Lag),
         LagsRise(toKrx)
  PROVE  LagsBetween(toKrx', KrxLag, Lag) /\ LagsRise(toKrx')
<1>1. toKrx \in Seq(Message) /\ KrxLag \in Int /\ Lag \in Int
  BY KrxLagTyped, LagAt DEF Types, Data
<1>2. CASE \E k \in 0..Len(toKrx) : toKrx' = SubSeq(toKrx, 1, k)
  BY <1>1, <1>2, CutLags
<1>3. CASE toKrx # <<>> /\ toKrx' = Tail(toKrx)
  BY <1>1, <1>3, TailLags
<1>4. CASE \E m \in Message : /\ toKrx' = Append(toKrx, m)
                              /\ IsOrder(m) => LagOf(m) = Lag
  BY <1>1, <1>4, AppendLags
<1>5. QED
  BY <1>2, <1>3, <1>4, Zenon DEF Flown

LEMMA StepLags ==
  ASSUME Types, Types', [Next]_vars, 1 \notin Answers, LagInv
  PROVE  LagInv'
<1> SUFFICES ASSUME "rejected" \notin torn'
             PROVE  /\ 0 <= KrxLag' /\ KrxLag' <= Lag'
                    /\ LagsBetween(toKrx', KrxLag', Lag')
                    /\ LagsRise(toKrx')
  BY DEF LagInv
<1>1. Lag <= Lag' /\ torn \subseteq torn' /\ Lag \in Int /\ Lag' \in Int
  BY StepLag, LagAt, LagAtNext
<1>2. /\ 0 <= KrxLag /\ KrxLag <= Lag
      /\ LagsBetween(toKrx, KrxLag, Lag) /\ LagsRise(toKrx)
  BY <1>1 DEF LagInv
<1>3. KrxLag \in Int /\ toKrx \in Seq(Message)
  BY KrxLagTyped DEF Types, Data
<1>4. toKrx' \in Seq(Message)
  BY DEF Types, Data
<1>5. CASE Krx_Take
  <2> DEFINE h == LagOf(Head(toKrx))
  <2>1. /\ toKrx # <<>> /\ toKrx' = Tail(toKrx) /\ IsOrder(Head(toKrx))
        /\ KrxLag' = h /\ h \in Int
    BY <1>5, Taken, LagTyped
  <2>2. /\ KrxLag <= h /\ h <= Lag
        /\ LagsBetween(toKrx', h, Lag) /\ LagsRise(toKrx')
    BY <1>1, <1>2, <1>3, <2>1, TakeLags
  <2>3. LagsBetween(toKrx', h, Lag')
    BY <1>1, <1>4, <2>1, <2>2, RaiseLags
  <2> HIDE DEF h
  <2>4. 0 <= h /\ h <= Lag'
    BY <1>1, <1>2, <1>3, <2>1, <2>2
  <2>5. QED
    BY <2>1, <2>2, <2>3, <2>4
<1>6. CASE consumed' = consumed /\ Flown
  <2>1. KrxLag' = KrxLag
    BY <1>6 DEF KrxLag, KrxSeq
  <2>2. LagsBetween(toKrx', KrxLag, Lag) /\ LagsRise(toKrx')
    BY <1>2, <1>6, FlownLags
  <2>3. LagsBetween(toKrx', KrxLag, Lag')
    BY <1>1, <1>3, <1>4, <2>2, RaiseLags
  <2>4. KrxLag <= Lag'
    BY <1>1, <1>2, <1>3
  <2>5. QED
    BY <1>2, <2>1, <2>2, <2>3, <2>4
<1>7. QED
  BY <1>5, <1>6, StepFlown

LEMMA StepInStep ==
  ASSUME Types, Types', [Next]_vars, 1 \notin Answers, InStepInv
  PROVE  InStepInv'
<1> SUFFICES ASSUME torn' \subseteq {"sent"}
             PROVE  Lag' = 0
  BY DEF InStepInv
<1>1. Lag' = Lag /\ torn \subseteq torn'
  BY StepLag
<1>2. QED
  BY <1>1 DEF InStepInv

LEMMA StepPositions ==
  ASSUME Types, [Next]_vars, LagInv, InStepInv, torn \subseteq torn',
         SequenceIsPosition
  PROVE  SequenceIsPosition'
<1> SUFFICES ASSUME torn' \subseteq {"sent"}, NEW i \in 1..KrxSeq'
             PROVE  consumed'[i] = i
  BY DEF SequenceIsPosition
<1>1. Lag = 0 /\ "rejected" \notin torn
  BY DEF InStepInv
<1>2. \A j \in 1..KrxSeq : consumed[j] = j
  BY DEF SequenceIsPosition
<1>3. CASE Krx_Take
  <2>1. CASE i = KrxSeq + 1
    <3>1. /\ 0 <= KrxLag /\ KrxLag <= 0
          /\ LagsBetween(toKrx, KrxLag, 0) /\ LagsRise(toKrx)
      BY <1>1 DEF LagInv
    <3>2. KrxLag \in Int /\ toKrx \in Seq(Message)
      BY KrxLagTyped DEF Types, Data
    <3>3. KrxLag <= LagOf(Head(toKrx)) /\ LagOf(Head(toKrx)) <= 0
      BY <1>3, <3>1, <3>2, Taken, TakeLags
    <3>4. LagOf(Head(toKrx)) \in Int
      BY <1>3, Taken, LagTyped
    <3>5. LagOf(Head(toKrx)) = 0
      BY <3>1, <3>2, <3>3, <3>4
    <3>6. QED
      BY <1>3, <2>1, <3>5, Taken DEF LagOf
  <2>2. CASE i # KrxSeq + 1
    BY <1>2, <1>3, <2>2, Taken
  <2>3. QED
    BY <2>1, <2>2
<1>4. CASE consumed' = consumed
  BY <1>2, <1>4 DEF KrxSeq
<1>5. QED
  BY <1>3, <1>4, StepFlown

LEMMA StepNoHole ==
  ASSUME Types, [Next]_vars, LagInv, torn \subseteq torn', NoOrderPassedOver
  PROVE  NoOrderPassedOver'
<1> SUFFICES ASSUME "rejected" \notin torn', NEW i \in 1..KrxSeq',
                    NEW j \in 1..(consumed'[i] - 1)
             PROVE  \E k \in 1..(i - 1) : consumed'[k] = j
  BY DEF NoOrderPassedOver
<1>1. "rejected" \notin torn
  OBVIOUS
<1>2. \A n \in 1..KrxSeq : \A m \in 1..(consumed[n] - 1) :
        \E k \in 1..(n - 1) : consumed[k] = m
  BY <1>1 DEF NoOrderPassedOver
<1>3. CASE Krx_Take
  <2> DEFINE h == Head(toKrx)
  <2>1. /\ h.order \in Int /\ h.seq = KrxSeq + 1
        /\ KrxSeq \in Nat /\ KrxSeq' = KrxSeq + 1
        /\ consumed'[KrxSeq + 1] = h.order
        /\ \A n \in 1..KrxSeq : consumed'[n] = consumed[n]
    BY <1>3, Taken
  <2>2. CASE i \in 1..KrxSeq
    <3>1. PICK k \in 1..(i - 1) : consumed[k] = j
      BY <1>2, <2>1, <2>2
    <3>2. k \in 1..KrxSeq
      BY <2>1, <2>2
    <3>3. QED
      BY <2>1, <3>1, <3>2
  <2>3. CASE i = KrxSeq + 1
    <3>1. KrxLag <= LagOf(h)
      <4>1. /\ LagsBetween(toKrx, KrxLag, Lag) /\ LagsRise(toKrx)
        BY <1>1 DEF LagInv
      <4>2. KrxLag \in Int /\ Lag \in Int /\ toKrx \in Seq(Message)
        BY KrxLagTyped, LagAt DEF Types, Data
      <4>3. QED
        BY <1>3, <4>1, <4>2, Taken, TakeLags
    <3>2. LagOf(h) = KrxSeq + 1 - h.order
      BY <2>1 DEF LagOf
    <3>3. 0 <= KrxLag
      BY <1>1 DEF LagInv
    <3> HIDE DEF h
    <3>4. j \in Int /\ 1 <= j /\ j < h.order
      BY <2>1, <2>3
    <3>5. KrxSeq # 0
      BY <2>1, <3>1, <3>2, <3>4 DEF KrxLag
    <3>6. consumed[KrxSeq] \in Int
      BY <2>1, <3>5, ElementOfSeq DEF KrxSeq, Types, Data
    <3>7. j <= consumed[KrxSeq]
      BY <2>1, <3>1, <3>2, <3>4, <3>5, <3>6 DEF KrxLag
    <3>8. CASE j = consumed[KrxSeq]
      BY <2>1, <2>3, <3>5, <3>8
    <3>9. CASE j # consumed[KrxSeq]
      <4>1. j \in 1..(consumed[KrxSeq] - 1) /\ KrxSeq \in 1..KrxSeq
        BY <2>1, <3>4, <3>5, <3>6, <3>7, <3>9
      <4>2. PICK k \in 1..(KrxSeq - 1) : consumed[k] = j
        BY <1>2, <4>1
      <4>3. k \in 1..KrxSeq /\ k \in 1..(i - 1)
        BY <2>1, <2>3
      <4>4. QED
        BY <2>1, <4>2, <4>3
    <3>10. QED
      BY <3>8, <3>9
  <2>4. QED
    BY <2>1, <2>2, <2>3
<1>4. CASE consumed' = consumed
  BY <1>2, <1>4 DEF KrxSeq
<1>5. QED
  BY <1>3, <1>4, StepFlown

-------------------------------------------------------------------------------
\* The theorems

LEMMA Invariant ==
  ASSUME 1 \notin Answers
  PROVE  Spec => []IInv
<1>1. ASSUME Init
      PROVE  IInv
  <2>1. Types
    BY <1>1, InitTyped
  <2>2. consumed = <<>> /\ toKrx = <<>> /\ Lag = 0 /\ KrxSeq = 0
    BY <1>1 DEF Init, Lag, KrxSeq
  <2>3. LagInv /\ InStepInv /\ SequenceIsPosition /\ NoOrderPassedOver
    BY <2>2
    DEF LagInv, InStepInv, SequenceIsPosition, NoOrderPassedOver, KrxLag,
        LagsBetween, LagsRise
  <2>4. QED
    BY <2>1, <2>3 DEF IInv
<1>2. ASSUME IInv, [Next]_vars
      PROVE  IInv'
  <2>1. Types /\ LagInv /\ InStepInv /\ SequenceIsPosition /\ NoOrderPassedOver
    BY <1>2 DEF IInv
  <2>2. Types'
    BY <1>2, <2>1, StepData, StepFlags, StepQueue DEF Types
  <2>3. torn \subseteq torn'
    BY <1>2, <2>1, <2>2, StepLag
  <2>4. LagInv' /\ InStepInv'
    BY <1>2, <2>1, <2>2, StepLags, StepInStep
  <2>5. SequenceIsPosition' /\ NoOrderPassedOver'
    BY <1>2, <2>1, <2>3, StepPositions, StepNoHole
  <2>6. QED
    BY <2>2, <2>4, <2>5 DEF IInv
<1>3. QED
  BY <1>1, <1>2, PTL DEF Spec

\* Sequence i of the exchange is the i-th order of the queue, whatever was
\* lost, rewound, rejected or restarted, as long as no process has died between
\* the two assignments of a handler; where Write_Response_Data reads no order
\* of its own, which is the file build.
THEOREM SequencesArePositions ==
  ASSUME 1 \notin Answers
  PROVE  Spec => []SequenceIsPosition
<1>1. IInv => SequenceIsPosition
  BY DEF IInv
<1>2. QED
  BY <1>1, Invariant, PTL

\* Unless a process has died inside a reject, the exchange gets no order
\* before all earlier ones, under the same condition.
THEOREM NoHole ==
  ASSUME 1 \notin Answers
  PROVE  Spec => []NoOrderPassedOver
<1>1. IInv => NoOrderPassedOver
  BY DEF IInv
<1>2. QED
  BY <1>1, Invariant, PTL

-------------------------------------------------------------------------------
\* The abstract specification

\* The cursor is never before the queue, also not after a reject has moved it.
CursorInv ==
  /\ RD_CNT >= 0
  /\ pc = "rejected" => mun <= RD_CNT

\* What is on its way to the exchange is in the queue.
FromQueue(c) ==
  \A i \in 1..Len(c) : IsOrder(c[i]) => c[i].order \in 1..WR_CNT

RelayInv == CursorInv /\ FromQueue(toKrx)

LEMMA StepCursor ==
  ASSUME Types, CursorInv, [Next]_vars
  PROVE  CursorInv'
<1>1. CASE Link_Response
  <2> DEFINE m == Head(fromKrx)
  <2>1. m.seq \in Int
    BY <1>1, ChannelOps, MessageFields DEF Link_Response, Types, Data
  <2> HIDE DEF m
  <2>2. \/ RD_CNT' = RD_CNT
        \/ INT_SEQ - m.seq <= RD_CNT /\ RD_CNT' = RD_CNT - (INT_SEQ - m.seq)
    <3>1. Link_TooEarly(m) \/ Link_InStep(m) \/ Link_Rewind(m) \/ Link_Refuse(m)
      BY <1>1 DEF Link_Response, m
    <3>2. QED
      BY <3>1, Zenon
      DEF Link_TooEarly, Link_InStep, Link_Ok, Link_Rewind, Link_Refuse, counters
  <2>3. pc' \in {"loop", "rewound", "down"}
    BY <1>1, Zenon
    DEF Link_Response, Link_TooEarly, Link_InStep, Link_Ok, Link_Rewind,
        Link_Refuse
  <2>4. QED
    BY <2>1, <2>2, <2>3 DEF CursorInv, Types, Data
<1>2. CASE CountRead
  BY <1>2 DEF CountRead, CursorInv, Types, Data
<1>3. CASE Socket_Event_Rtn
  <2> DEFINE m == Head(fromKrx)
  <2>1. m.seq \in Int
    BY <1>3, ChannelOps, MessageFields DEF Socket_Event_Rtn, Types, Data
  <2> HIDE DEF m
  <2>2. RD_CNT' = RD_CNT /\ (pc' = "rejected" => mun' <= RD_CNT)
    <3>1. Throttled(m) \/ Rejected(m) \/ Reject_Refuse(m)
      BY <1>3 DEF Socket_Event_Rtn, m
    <3>2. QED
      BY <3>1 DEF Throttled, Rejected, Reject_Refuse, counters
  <2>3. QED
    BY <2>2 DEF CursorInv
<1>4. CASE Reject_Finish
  <2>1. PICK n \in Answers : RD_CNT' = RD_CNT - mun + n
    BY <1>4 DEF Reject_Finish
  <2>2. n \in {0, 1} /\ mun <= RD_CNT /\ pc' = "loop"
    BY <1>4, Constants DEF Reject_Finish, CursorInv
  <2>3. QED
    BY <2>1, <2>2 DEF CursorInv, Types, Data
<1>5. CASE \/ Device_Open_Logon \/ Link_Request \/ Link_Finish \/ Link_Lost
           \/ Poll \/ Send \/ Undefined_Data \/ CountSeq \/ Disconnect
           \/ Hangup \/ Restart \/ Crash
  <2>1. RD_CNT' = RD_CNT /\ pc' # "rejected"
    BY <1>5
    DEF Device_Open_Logon, Link_Request, Link_Finish, Link_Ok, Link_Lost,
        Poll, Send, Undefined_Data, CountSeq, Disconnect, Hangup, Restart,
        Crash,
        Exit_Process, counters
  <2>2. QED
    BY <2>1 DEF CursorInv
<1>6. CASE Exchange \/ F_W \/ Drop \/ UNCHANGED vars
  <2>1. RD_CNT' = RD_CNT /\ pc' = pc /\ mun' = mun
    BY <1>6, Zenon
    DEF Exchange, Market_Open, Krx_Link, Krx_Take, Krx_Throttle, Krx_Close,
        F_W, Drop, counters, vars
  <2>2. QED
    BY <2>1, Zenon DEF CursorInv
<1>7. QED
  BY <1>1, <1>2, <1>3, <1>4, <1>5, <1>6, Zenon
  DEF Next, Connecting, Working, Environment

\* Orders are only added to the queue, and apart from F_W, Crash and Krx_Take no
\* step can be seen in the abstract specification.
LEMMA Visible ==
  ASSUME Types, [Next]_vars
  PROVE  \/ WR_CNT' = WR_CNT + 1 /\ UNCHANGED <<consumed, torn>>
         \/ /\ \/ \E p \in Between : torn' = torn \union {p}
               \/ torn' = torn
            /\ UNCHANGED <<WR_CNT, consumed>>
         \/ Krx_Take /\ UNCHANGED <<WR_CNT, torn>>
<1>1. CASE Crash
  <2>1. /\ torn' = torn \union ({pc} \cap Between)
        /\ UNCHANGED <<WR_CNT, consumed>>
    BY <1>1 DEF Crash, counters, krx
  <2>2. CASE pc \in Between
    <3>1. torn' = torn \union {pc}
      BY <2>1, <2>2
    <3>2. QED
      BY <2>1, <2>2, <3>1
  <2>3. CASE pc \notin Between
    <3>1. torn' = torn
      BY <2>1, <2>3
    <3>2. QED
      BY <2>1, <3>1
  <2>4. QED
    BY <2>2, <2>3
<1>2. CASE F_W
  BY <1>2 DEF F_W, krx
<1>3. CASE Krx_Take
  BY <1>3 DEF Krx_Take, counters
<1>4. CASE \/ Connecting \/ Working \/ Restart \/ Drop \/ UNCHANGED vars
           \/ Market_Open \/ Krx_Link \/ Krx_Throttle \/ Krx_Close
  BY <1>4, Zenon
  DEF Connecting, Device_Open_Logon, Link_Request, Link_Response,
      Link_TooEarly, Link_InStep, Link_Rewind, Link_Refuse, Link_Ok,
      Link_Finish, Link_Lost, Working, Poll, Send, Undefined_Data, CountSeq,
      CountRead, Disconnect, Hangup, Socket_Event_Rtn, Throttled, Rejected,
      Reject_Refuse, Reject_Finish, Restart, Drop, Market_Open, Krx_Link,
      Krx_Throttle, Krx_Close, vars, counters, krx
<1>5. QED
  BY <1>1, <1>2, <1>3, <1>4, Zenon DEF Next, Exchange, Environment

LEMMA StepFromQueue ==
  ASSUME Types, RelayInv, [Next]_vars
  PROVE  FromQueue(toKrx)'
<1>1. WR_CNT \in Nat /\ WR_CNT' \in Nat /\ WR_CNT <= WR_CNT'
  BY Visible DEF Types, Data
<1>2. toKrx \in Seq(Message) /\ Len(toKrx) \in Nat
  BY LenProperties DEF Types, Data
<1>3. \A i \in 1..Len(toKrx) : IsOrder(toKrx[i]) => toKrx[i].order \in 1..WR_CNT'
  BY <1>1 DEF RelayInv, FromQueue
<1>4. CASE \E k \in 0..Len(toKrx) : toKrx' = SubSeq(toKrx, 1, k)
  <2>1. PICK k \in 0..Len(toKrx) : toKrx' = SubSeq(toKrx, 1, k)
    BY <1>4
  <2>2. Len(toKrx') = k /\ \A i \in 1..k : toKrx'[i] = toKrx[i]
    BY <1>2, <2>1, SubSeqProperties
  <2>3. QED
    BY <1>2, <1>3, <2>2 DEF FromQueue
<1>5. CASE toKrx # <<>> /\ toKrx' = Tail(toKrx)
  <2>1. /\ Len(toKrx') = Len(toKrx) - 1
        /\ \A i \in 1..Len(toKrx') : toKrx'[i] = toKrx[i + 1]
    BY <1>2, <1>5, HeadTailProperties
  <2>2. QED
    BY <1>2, <1>3, <2>1 DEF FromQueue
<1>6. CASE \E m \in Message : /\ toKrx' = Append(toKrx, m)
                              /\ IsOrder(m) => NextInQueue(m)
  <2>1. PICK m \in Message : /\ toKrx' = Append(toKrx, m)
                             /\ IsOrder(m) => NextInQueue(m)
    BY <1>6
  <2>2. /\ Len(toKrx') = Len(toKrx) + 1 /\ toKrx'[Len(toKrx) + 1] = m
        /\ \A i \in 1..Len(toKrx) : toKrx'[i] = toKrx[i]
    BY <1>2, <2>1, AppendProperties
  <2>3. IsOrder(m) => m.order \in 1..WR_CNT'
    BY <1>1, <2>1 DEF NextInQueue, RelayInv, CursorInv, Types, Data
  <2>4. QED
    BY <1>2, <1>3, <2>2, <2>3 DEF FromQueue
<1>7. CASE Krx_Take
  BY <1>5, <1>7, Taken
<1>8. QED
  BY <1>4, <1>5, <1>6, <1>7, StepFlown, Zenon DEF Flown

\* A step of the sender or the exchange is one of the abstract specification or
\* cannot be seen in it.
LEMMA StepRefines ==
  ASSUME Types, RelayInv, SequenceIsPosition', NoOrderPassedOver', [Next]_vars
  PROVE  [Relay!Next]_(Relay!vars)
<1>1. CASE WR_CNT' = WR_CNT + 1 /\ UNCHANGED <<consumed, torn>>
  BY <1>1 DEF Relay!Next, Relay!Queue
<1>2. CASE /\ \E p \in Between : torn' = torn \union {p}
           /\ UNCHANGED <<WR_CNT, consumed>>
  BY <1>2 DEF Relay!Next, Relay!Die, Relay!Deaths, Between
<1>3. CASE torn' = torn /\ UNCHANGED <<WR_CNT, consumed>>
  BY <1>3 DEF Relay!vars
<1>4. CASE Krx_Take /\ UNCHANGED <<WR_CNT, torn>>
  <2> DEFINE k == Head(toKrx).order
  <2>1. /\ toKrx # <<>> /\ IsOrder(Head(toKrx)) /\ k \in Int
        /\ KrxSeq \in Nat /\ KrxSeq' = KrxSeq + 1
        /\ consumed'[KrxSeq + 1] = k
        /\ \A i \in 1..KrxSeq : consumed'[i] = consumed[i]
    BY <1>4, Taken
  <2>2. consumed' = Append(consumed, k)
    BY <1>4 DEF Krx_Take
  <2>3. k \in 1..WR_CNT
    <3>1. toKrx \in Seq(Message) /\ Len(toKrx) \in Nat
      BY LenProperties DEF Types, Data
    <3>2. Len(toKrx) # 0 /\ Head(toKrx) = toKrx[1]
      BY <2>1, <3>1, EmptySeq, HeadTailProperties
    <3>3. QED
      BY <2>1, <3>1, <3>2 DEF RelayInv, FromQueue
  <2> HIDE DEF k
  <2>4. torn \subseteq {"sent"} => k = Len(consumed) + 1
    BY <1>4, <2>1 DEF SequenceIsPosition, KrxSeq
  <2>5. ASSUME "rejected" \notin torn, NEW j \in 1..(k - 1)
        PROVE  Relay!WasTaken(j)
    <3>1. KrxSeq + 1 \in 1..KrxSeq' /\ j \in 1..(consumed'[KrxSeq + 1] - 1)
      BY <2>1
    <3>2. PICK i \in 1..((KrxSeq + 1) - 1) : consumed'[i] = j
      BY <1>4, <2>5, <3>1 DEF NoOrderPassedOver
    <3>3. i \in 1..KrxSeq /\ consumed[i] = j
      BY <2>1, <3>2
    <3>4. DOMAIN consumed = 1..KrxSeq
      BY LenProperties DEF KrxSeq, Types, Data
    <3>5. QED
      BY <3>3, <3>4 DEF Relay!WasTaken
  <2>6. Relay!Take(k)
    BY <1>4, <2>2, <2>4, <2>5 DEF Relay!Take
  <2>7. QED
    BY <2>3, <2>6 DEF Relay!Next
<1>5. QED
  BY <1>1, <1>2, <1>3, <1>4, Visible

\* The sender, with any number of orders, deaths, drops and rejects, relays the
\* queue: the exchange takes what is in the queue, the next order unless a death
\* has torn two counters apart, and none before all earlier ones unless it was
\* inside a reject; in the file build, as above.
THEOREM SessionImplementsRelay ==
  ASSUME 1 \notin Answers
  PROVE  Spec => ImplementsRelay
<1>1. Init => Relay!Init /\ RelayInv
  BY DEF Init, Relay!Init, RelayInv, CursorInv, FromQueue
<1>2. IInv /\ RelayInv /\ [Next]_vars => RelayInv'
  BY StepCursor, StepFromQueue DEF IInv, RelayInv
<1>3. IInv /\ RelayInv /\ IInv' /\ [Next]_vars => [Relay!Next]_(Relay!vars)
  BY StepRefines DEF IInv
<1>4. QED
  BY <1>1, <1>2, <1>3, Invariant, PTL DEF Spec, ImplementsRelay, Relay!Spec

===============================================================================
