------------------------- MODULE TradeReceiver_proofs -------------------------
(***************************************************************************)
(* Proofs about TradeReceiver, for every set of groups, every length of    *)
(* their logs and every number of deaths and drops.                        *)
(*                                                                         *)
(* LineInv says what can be on a connection in each phase of it: nothing   *)
(* before the request, one answer, and then messages of the groups, with   *)
(* what the groups have to send.  That and the counters give StagedInv,    *)
(* the claim about the order core.  StreamInv is about the numbers: while  *)
(* no process has died between the two counters, what is on the way        *)
(* continues both, and the exchange goes on where it ends.                 *)
(***************************************************************************)
EXTENDS TradeReceiver, SequenceTheorems, TLAPS

-------------------------------------------------------------------------------
\* The inductive invariants

Request == [seq : Nat, megs : [Groups -> Nat]]
Message == [kind : Kinds \union {"link", "refused"}, seq : Nat,
            group : Groups \union {0}, num : Nat]
Record  == [group : Groups, num : Nat, If_Seq : Nat]

Types ==
  /\ INT_SEQ \in Nat /\ INT_MEG_SEQ \in [Groups -> Nat]
  /\ pc \in {"down", "loop", "linking", "grouped", "staged"}
  /\ staged \in Seq(Record)
  /\ conn \in {"up", "broken", "closed"}
  /\ toKrx \in Seq(Request) /\ fromKrx \in Seq(Message)
  /\ log \in [Groups -> Seq(Kinds)]
  /\ next \in [Groups -> Nat] /\ header \in Nat

\* What group m.group has to send, l being the logs of the groups.
FromLog(m, l) ==
  /\ m.kind \in Kinds /\ m.group \in Groups
  /\ m.num \in 1..Len(l[m.group]) /\ m.kind = l[m.group][m.num]

\* The answer to LINK comes first.
Answers == IF pc = "linking" THEN 1 ELSE 0

\* The phases of a connection.
PhaseInv ==
  /\ pc = "down" => conn = "closed"
  /\ conn = "closed" => fromKrx = <<>> /\ ~LogOnFlag /\ ~OpenFlag
  /\ ~LogOnFlag => conn = "closed"
  /\ pc = "linking" => ~OpenFlag /\ LogOnFlag
  /\ pc \in Between => OpenFlag
  /\ pc = "loop" /\ ~OpenFlag /\ LogOnFlag =>
       toKrx = <<>> /\ fromKrx = <<>> /\ ~linked

\* A request is alone on its connection, and still says what the counters say.
RequestInv ==
  /\ toKrx # <<>> => fromKrx = <<>>
  /\ toKrx # <<>> /\ conn = "up" =>
       /\ Tail(toKrx) = <<>> /\ pc = "linking" /\ ~linked
       /\ Head(toKrx).seq = INT_SEQ /\ Head(toKrx).megs = LinkGroups
  /\ linked /\ conn = "up" => Len(fromKrx) >= Answers

\* After the first a messages of channel c come those of the groups.
Content(c, a, l) == \A i \in (a + 1)..Len(c) : FromLog(c[i], l)

ContentInv == Content(fromKrx, Answers, log)

LineInv == PhaseInv /\ RequestInv /\ ContentInv

\* The message in hand is the one its group counted last.
HandInv ==
  /\ pc \in Between =>
       FromLog(meg, log) /\ meg.num = INT_MEG_SEQ[meg.group]
  /\ \A g \in Groups : INT_MEG_SEQ[g] <= Len(log[g])

\* What was lost is behind its group's counter.
LostInv ==
  \A g \in Groups : \A n \in Nat : <<g, n>> \in lost => n <= Passed(g)

StagedInv == HandInv /\ LostInv /\ StagedIsLog

\* The session numbers up to the message in hand.
Base == INT_SEQ + (IF pc \in Between THEN 1 ELSE 0)

\* Message i of channel c continues the session after b, and its group after
\* what M says of it.
Continues(c, a, b, M, i) ==
  /\ c[i].seq = b + i - a
  /\ M[c[i].group] < c[i].num
  /\ \A n \in (M[c[i].group] + 1)..(c[i].num - 1) :
       \E j \in (a + 1)..(i - 1) : c[j].group = c[i].group /\ c[j].num = n
  /\ \A j \in (a + 1)..(i - 1) :
       c[j].group = c[i].group => c[j].num < c[i].num

InOrder(c, a, b, M) == \A i \in (a + 1)..Len(c) : Continues(c, a, b, M, i)

\* Group g is on channel c from what M says of it up to number x.
UpTo(c, a, M, g, x) ==
  /\ M[g] <= x
  /\ \A n \in (M[g] + 1)..x :
       \E j \in (a + 1)..Len(c) : c[j].group = g /\ c[j].num = n
  /\ \A j \in (a + 1)..Len(c) : c[j].group = g => c[j].num <= x

\* The exchange goes on after what is on the way.
GoesOn ==
  /\ header = Base + Len(fromKrx) - Answers
  /\ \A g \in Groups : UpTo(fromKrx, Answers, INT_MEG_SEQ, g, next[g])

Stream ==
  /\ InOrder(fromKrx, Answers, Base, INT_MEG_SEQ)
  /\ linked /\ conn = "up" => GoesOn

\* Without such a death no group is counted before the session is.
CountedTogether == INT_SEQ = 0 /\ pc \notin Between => INT_MEG_SEQ = Zero

StreamInv == torn = {} => Stream /\ CountedTogether

IInv == Types /\ LineInv /\ StagedInv /\ StreamInv

-------------------------------------------------------------------------------
\* Types

LEMMA ChannelOps ==
  ASSUME NEW S, NEW s \in Seq(S)
  PROVE  /\ \A m \in S : Append(s, m) \in Seq(S)
         /\ s # <<>> => Head(s) \in S /\ Head(s) = s[1] /\ Tail(s) \in Seq(S)
         /\ \A k \in 0..Len(s) : SubSeq(s, 1, k) \in Seq(S)
         /\ <<>> \in Seq(S)
<1>1. \A m \in S : Append(s, m) \in Seq(S)
  BY AppendProperties
<1>2. s # <<>> => Head(s) \in S /\ Head(s) = s[1] /\ Tail(s) \in Seq(S)
  BY HeadTailProperties
<1>3. \A k \in 0..Len(s) : SubSeq(s, 1, k) \in Seq(S)
  BY SubSeqProperties, LenProperties
<1>4. QED
  BY <1>1, <1>2, <1>3, EmptySeq

LEMMA MessageFields ==
  ASSUME NEW m \in Message
  PROVE  m.seq \in Nat /\ m.num \in Nat
BY DEF Message

LEMMA ZeroTyped == Zero \in [Groups -> Nat]
BY DEF Zero

\* The message the receiver looks at next.
LEMMA FirstIsFromLog ==
  ASSUME Types, LineInv, pc = "loop", fromKrx # <<>>
  PROVE  /\ Head(fromKrx) \in Message /\ Head(fromKrx) = fromKrx[1]
         /\ FromLog(Head(fromKrx), log) /\ Answers = 0
<1>1. Head(fromKrx) \in Message /\ Head(fromKrx) = fromKrx[1]
  BY ChannelOps DEF Types
<1>2. Answers = 0
  BY DEF Answers
<1>3. 1 \in 1..Len(fromKrx)
  BY LenProperties, EmptySeq, HeadTailProperties DEF Types
<1>4. FromLog(fromKrx[1], log)
  BY <1>2, <1>3 DEF LineInv, ContentInv, Content
<1>5. QED
  BY <1>1, <1>2, <1>4

\* Every handler that gives the connection up does this to it.
Closing == Device_Close /\ pc' \in {"loop", "down"}

LEMMA ClosingSteps ==
  /\ Link_Request => Closing \/ (conn = "up" /\ UNCHANGED conn)
  /\ Link_Response => Closing \/ Head(fromKrx).kind = "link"
  /\ Link_Lost \/ Out_Of_Sequence \/ IF_End \/ Disconnect \/ Hangup \/ Crash
       => Closing
<1>1. Link_Request => Closing \/ (conn = "up" /\ UNCHANGED conn)
  BY Zenon DEF Link_Request, Closing
<1>2. Link_Response => Closing \/ Head(fromKrx).kind = "link"
  BY Zenon DEF Link_Response, Closing, Exit_Process
<1>3. Link_Lost \/ Out_Of_Sequence \/ IF_End \/ Disconnect \/ Hangup \/ Crash
        => Closing
  BY Zenon
  DEF Link_Lost, Out_Of_Sequence, IF_End, Disconnect, Hangup, Crash,
      Exit_Process, Closing
<1>4. QED
  BY <1>1, <1>2, <1>3

LEMMA ReceiverTyped ==
  ASSUME Types, LineInv, HandInv, Receiver
  PROVE  Types'
<1>1. CASE Device_Open_Logon
  BY <1>1, ChannelOps
  DEF Device_Open_Logon, Types, counters
<1>2. CASE Link_Request
  <2>1. [seq |-> INT_SEQ, megs |-> LinkGroups] \in Request
    BY ZeroTyped DEF Types, LinkGroups, Request
  <2>2. toKrx' \in Seq(Request) /\ fromKrx' \in Seq(Message)
    BY <1>2, <2>1, ChannelOps DEF Link_Request, Device_Close, Types
  <2>3. /\ conn' \in {"up", "broken", "closed"}
        /\ pc' \in {"loop", "linking"}
    BY <1>2 DEF Link_Request, Device_Close
  <2>4. QED
    BY <1>2, <2>2, <2>3 DEF Link_Request, Types, counters, krx
<1>3. CASE Link_Response
  <2>1. fromKrx' \in Seq(Message)
    BY <1>3, ChannelOps DEF Link_Response, Exit_Process, Device_Close, Types
  <2>2. /\ conn' \in {"up", "broken", "closed"}
        /\ pc' \in {"loop", "down"}
    BY <1>3 DEF Link_Response, Exit_Process, Device_Close, Types
  <2>3. QED
    BY <1>3, <2>1, <2>2 DEF Link_Response, Types, counters, krx
<1>4. CASE Link_Lost \/ Disconnect
  BY <1>4, ChannelOps
  DEF Link_Lost, Disconnect, Device_Close, Types, counters, krx
<1>5. CASE Receive
  <2>1. meg'.num \in Nat
    BY <1>5, FirstIsFromLog, MessageFields DEF Receive
  <2>2. INT_MEG_SEQ' \in [Groups -> Nat]
    BY <1>5, <2>1 DEF Receive, Types
  <2>3. fromKrx' \in Seq(Message)
    BY <1>5, ChannelOps DEF Receive, Types
  <2>4. QED
    BY <1>5, <2>2, <2>3 DEF Receive, Types, krx
<1>6. CASE Out_Of_Sequence \/ Hangup
  BY <1>6, ChannelOps
  DEF Out_Of_Sequence, Hangup, Exit_Process, Device_Close, Types, counters, krx
<1>7. CASE Write_Data
  <2>1. [group |-> meg.group, num |-> meg.num, If_Seq |-> INT_SEQ + 1]
          \in Record
    <3>1. FromLog(meg, log)
      BY <1>7 DEF Write_Data, HandInv, Between
    <3>2. log[meg.group] \in Seq(Kinds)
      BY <3>1 DEF FromLog, Types
    <3>3. meg.group \in Groups /\ meg.num \in Nat
      BY <3>1, <3>2, LenProperties DEF FromLog
    <3>4. QED
      BY <3>3 DEF Types, Record
  <2>2. staged' \in Seq(Record)
    BY <1>7, <2>1, ChannelOps DEF Write_Data, Types
  <2>3. QED
    BY <1>7, <2>2 DEF Write_Data, Types, counters, channels, krx
<1>8. CASE Count \/ Skip
  BY <1>8 DEF Count, Skip, Types, channels, krx
<1>9. CASE IF_End
  BY <1>9, ChannelOps DEF IF_End, Device_Close, Types, krx
<1>10. QED
  BY <1>1, <1>2, <1>3, <1>4, <1>5, <1>6, <1>7, <1>8, <1>9 DEF Receiver

LEMMA ExchangeTyped ==
  ASSUME Types, Exchange
  PROVE  Types'
<1>1. CASE Market_Open
  BY <1>1 DEF Market_Open, Types, counters, channels
<1>2. CASE Krx_Link
  <2>1. Head(toKrx) \in Request /\ toKrx' \in Seq(Request)
    BY <1>2, ChannelOps DEF Krx_Link, Types
  <2>2. Head(toKrx).seq \in Nat /\ Head(toKrx).megs \in [Groups -> Nat]
    BY <2>1 DEF Request
  <2>3. next' \in [Groups -> Nat] /\ header' \in Nat
    BY <1>2, <2>2 DEF Krx_Link, Types
  <2>4. \E k \in {"link", "refused"} :
          \/ fromKrx' = Append(fromKrx, [kind |-> k, seq |-> Head(toKrx).seq,
                                         group |-> 0, num |-> 0])
          \/ fromKrx' = fromKrx
    BY <1>2 DEF Krx_Link
  <2>5. fromKrx' \in Seq(Message)
    <3>1. \A k \in {"link", "refused"} :
            [kind |-> k, seq |-> Head(toKrx).seq, group |-> 0, num |-> 0]
              \in Message
      BY <2>2 DEF Message
    <3>2. fromKrx \in Seq(Message)
      BY DEF Types
    <3>3. PICK m \in Message : fromKrx' = Append(fromKrx, m) \/ fromKrx' = fromKrx
      BY <2>4, <3>1
    <3>4. QED
      BY <3>2, <3>3, AppendProperties
  <2>6. QED
    BY <1>2, <2>1, <2>3, <2>5 DEF Krx_Link, Types, counters
<1>3. CASE \E g \in Groups : Krx_Send(g)
  <2>1. PICK g \in Groups : Krx_Send(g)
    BY <1>3
  <2>2. log[g] \in Seq(Kinds) /\ next[g] \in Nat
    BY DEF Types
  <2>3. next'[g] = next[g] + 1 /\ next' \in [Groups -> Nat]
    BY <2>1, <2>2 DEF Krx_Send, Types
  <2>4. log[g][next'[g]] \in Kinds
    BY <2>1, <2>2, <2>3, LenProperties, ElementOfSeq DEF Krx_Send
  <2>5. header' \in Nat
    BY <2>1 DEF Krx_Send, Types
  <2>6. [kind |-> log[g][next'[g]], seq |-> header', group |-> g,
         num |-> next'[g]] \in Message
    BY <2>2, <2>3, <2>4, <2>5 DEF Message
  <2>7. fromKrx' \in Seq(Message)
    BY <2>1, <2>6, ChannelOps DEF Krx_Send, Types
  <2>8. QED
    BY <2>1, <2>3, <2>5, <2>7 DEF Krx_Send, Types, counters
<1>4. CASE \E g \in Groups : \E k \in Kinds : Publish(g, k)
  <2>1. PICK g \in Groups, k \in Kinds : Publish(g, k)
    BY <1>4
  <2>2. Append(log[g], k) \in Seq(Kinds)
    BY AppendProperties DEF Types
  <2>3. log' \in [Groups -> Seq(Kinds)]
    BY <2>1, <2>2 DEF Publish, Types
  <2>4. QED
    BY <2>1, <2>3 DEF Publish, Types, counters, channels
<1>5. QED
  BY <1>1, <1>2, <1>3, <1>4 DEF Exchange

LEMMA StepTypes ==
  ASSUME Types, LineInv, HandInv, [Next]_vars
  PROVE  Types'
<1>1. CASE Restart
  BY <1>1 DEF Restart, Types, counters, channels, krx
<1>2. CASE Crash
  BY <1>2, ChannelOps DEF Crash, Exit_Process, Device_Close, Types, counters, krx
<1>3. CASE Drop
  <2>1. toKrx' \in Seq(Request) /\ fromKrx' \in Seq(Message)
    BY <1>3, ChannelOps DEF Drop, Types
  <2>2. QED
    BY <1>3, <2>1 DEF Drop, Types, counters, krx
<1>4. CASE UNCHANGED vars
  BY <1>4 DEF vars, Types
<1>5. QED
  BY <1>1, <1>2, <1>3, <1>4, ReceiverTyped, ExchangeTyped DEF Next

-------------------------------------------------------------------------------
\* The connection

LEMMA ClosedPhase ==
  ASSUME Closing
  PROVE  PhaseInv'
<1>1. /\ conn' = "closed" /\ fromKrx' = <<>>
      /\ LogOnFlag' = FALSE /\ OpenFlag' = FALSE
  BY Zenon DEF Closing, Device_Close
<1>2. pc' # "linking" /\ pc' \notin Between
  BY DEF Closing, Between
<1>3. QED
  BY <1>1, <1>2, Zenon DEF PhaseInv

LEMMA NothingToCut ==
  ASSUME NEW S, NEW s \in Seq(S), s = <<>>, NEW k \in 0..Len(s)
  PROVE  SubSeq(s, 1, k) = <<>>
BY SubSeqProperties, LenProperties, EmptySeq

LEMMA DropCuts ==
  ASSUME Types, Drop
  PROVE  /\ fromKrx = <<>> => fromKrx' = <<>>
         /\ toKrx = <<>> => toKrx' = <<>>
BY NothingToCut DEF Drop, Types

LEMMA StepPhase ==
  ASSUME Types, LineInv, [Next]_vars
  PROVE  PhaseInv'
<1>1. PhaseInv
  BY DEF LineInv
<1>2. CASE Closing
  BY <1>2, ClosedPhase
<1>3. CASE Device_Open_Logon
  <2>1. /\ conn' = "up" /\ fromKrx' = <<>> /\ toKrx' = <<>> /\ pc' = "loop"
        /\ LogOnFlag' = TRUE /\ linked' = FALSE
    BY <1>3, Zenon DEF Device_Open_Logon
  <2>2. conn' # "closed" /\ pc' \notin Between /\ pc' # "linking" /\ pc' # "down"
    BY <2>1 DEF Between
  <2>3. QED
    BY <2>1, <2>2, Zenon DEF PhaseInv
<1>4. CASE Link_Request /\ conn = "up"
  <2>1. /\ conn' = "up" /\ pc' = "linking" /\ LogOnFlag' = LogOnFlag
        /\ OpenFlag' = OpenFlag /\ LogOnFlag /\ ~OpenFlag
    BY <1>4, Zenon DEF Link_Request, flags
  <2>2. conn' # "closed" /\ pc' \notin Between /\ pc' # "loop" /\ pc' # "down"
    BY <2>1 DEF Between
  <2>3. QED
    BY <2>1, <2>2, Zenon DEF PhaseInv
<1>5. CASE Link_Response /\ Head(fromKrx).kind = "link"
  <2>1. CASE Exit_Process
    BY <1>2, <2>1 DEF Exit_Process, Closing
  <2>2. CASE ~Exit_Process
    <3>1. /\ conn' = conn /\ pc' = "loop" /\ LogOnFlag' = LogOnFlag
          /\ OpenFlag' = TRUE /\ fromKrx # <<>> /\ pc = "linking"
      BY <1>5, <2>2, Zenon DEF Link_Response
    <3>2. LogOnFlag /\ conn # "closed"
      BY <1>1, <3>1, Zenon DEF PhaseInv
    <3>3. pc' \notin Between /\ pc' # "linking" /\ pc' # "down"
      BY <3>1 DEF Between
    <3>4. QED
      BY <3>1, <3>2, <3>3, Zenon DEF PhaseInv
  <2>3. QED
    BY <2>1, <2>2
<1>6. CASE Receive \/ Write_Data \/ Count \/ Skip
  <2>1. /\ conn' = conn /\ LogOnFlag' = LogOnFlag /\ OpenFlag' = OpenFlag
        /\ (Receive \/ fromKrx' = fromKrx)
        /\ ((pc = "loop" /\ OpenFlag) \/ pc \in Between)
    BY <1>6, Zenon
    DEF Receive, Write_Data, Count, Skip, flags, channels, Between
  <2>2. pc' # "linking" /\ pc' # "down"
    BY <1>6 DEF Receive, Write_Data, Count, Skip
  <2>3. OpenFlag /\ conn # "closed" /\ LogOnFlag
    BY <1>1, <2>1, Zenon DEF PhaseInv
  <2>4. QED
    BY <2>1, <2>2, <2>3, Zenon DEF PhaseInv
<1>7. CASE Restart
  <2>1. /\ conn' = conn /\ LogOnFlag' = LogOnFlag /\ OpenFlag' = OpenFlag
        /\ fromKrx' = fromKrx /\ pc = "down" /\ pc' = "loop"
    BY <1>7, Zenon DEF Restart, flags, channels
  <2>2. conn = "closed" /\ fromKrx = <<>> /\ ~LogOnFlag /\ ~OpenFlag
    BY <1>1, <2>1, Zenon DEF PhaseInv
  <2>3. pc' # "linking" /\ pc' \notin Between /\ pc' # "down"
    BY <2>1 DEF Between
  <2>4. QED
    BY <2>1, <2>2, <2>3, Zenon DEF PhaseInv
<1>8. CASE \/ Market_Open \/ UNCHANGED vars
           \/ \E g \in Groups : \E k \in Kinds : Publish(g, k)
  <2>1. /\ conn' = conn /\ LogOnFlag' = LogOnFlag /\ OpenFlag' = OpenFlag
        /\ fromKrx' = fromKrx /\ toKrx' = toKrx /\ pc' = pc
        /\ linked' = linked
    BY <1>8, Zenon DEF Market_Open, Publish, vars, flags, channels
  <2>2. QED
    BY <1>1, <2>1, Zenon DEF PhaseInv
<1>9. CASE Krx_Link
  <2>1. /\ conn' = conn /\ LogOnFlag' = LogOnFlag /\ OpenFlag' = OpenFlag
        /\ pc' = pc /\ toKrx # <<>> /\ (conn = "up" \/ fromKrx' = fromKrx)
    BY <1>9, Zenon DEF Krx_Link, flags
  <2>2. ~(pc = "loop" /\ ~OpenFlag /\ LogOnFlag)
    BY <1>1, <2>1, Zenon DEF PhaseInv
  <2>3. conn = "closed" => fromKrx' = fromKrx
    BY <2>1
  <2>4. QED
    BY <1>1, <2>1, <2>2, <2>3, Zenon DEF PhaseInv
<1>10. CASE \E g \in Groups : Krx_Send(g)
  <2>1. /\ conn' = conn /\ LogOnFlag' = LogOnFlag /\ OpenFlag' = OpenFlag
        /\ pc' = pc /\ linked /\ conn = "up"
    BY <1>10, Zenon DEF Krx_Send, flags
  <2>2. ~(pc = "loop" /\ ~OpenFlag /\ LogOnFlag)
    BY <1>1, <2>1, Zenon DEF PhaseInv
  <2>3. conn # "closed"
    BY <2>1
  <2>4. QED
    BY <1>1, <2>1, <2>2, <2>3, Zenon DEF PhaseInv
<1>11. CASE Drop
  <2>1. /\ LogOnFlag' = LogOnFlag /\ OpenFlag' = OpenFlag /\ pc' = pc
        /\ linked' = linked /\ conn = "up" /\ conn' = "broken"
    BY <1>11, Zenon DEF Drop, flags, krx
  <2>2. conn # "closed" /\ conn' # "closed"
    BY <2>1
  <2>3. /\ fromKrx = <<>> => fromKrx' = <<>>
        /\ toKrx = <<>> => toKrx' = <<>>
    BY <1>11, DropCuts
  <2>4. QED
    BY <1>1, <2>1, <2>2, <2>3, Zenon DEF PhaseInv
<1>12. QED
  BY <1>2, <1>3, <1>4, <1>5, <1>6, <1>7, <1>8, <1>9, <1>10, <1>11,
     ClosingSteps, Zenon
  DEF Next, Receiver, Exchange

LEMMA OneElement ==
  ASSUME NEW S, NEW s \in Seq(S), s = <<>>, NEW m \in S
  PROVE  /\ Append(s, m) # <<>> /\ Len(Append(s, m)) = 1
         /\ Head(Append(s, m)) = m /\ Tail(Append(s, m)) = <<>>
<1>1. Len(s) = 0 /\ Append(s, m) \in Seq(S) /\ Len(Append(s, m)) = 1
      /\ Append(s, m)[1] = m
  BY AppendProperties, EmptySeq
<1>2. Append(s, m) # <<>>
  BY <1>1, EmptySeq
<1>3. Head(Append(s, m)) = m /\ Tail(Append(s, m)) \in Seq(S)
      /\ Len(Tail(Append(s, m))) = 0
  BY <1>1, <1>2, HeadTailProperties
<1>4. QED
  BY <1>1, <1>2, <1>3, EmptySeq

LEMMA StepRequest ==
  ASSUME Types, LineInv, [Next]_vars
  PROVE  RequestInv'
<1>1. PhaseInv /\ RequestInv
  BY DEF LineInv
<1>2. CASE Closing
  BY <1>2 DEF Closing, Device_Close, RequestInv
<1>3. CASE Device_Open_Logon
  BY <1>3, Zenon DEF Device_Open_Logon, RequestInv
<1>4. CASE Link_Request /\ conn = "up"
  <2>1. /\ toKrx' = Append(toKrx, [seq |-> INT_SEQ, megs |-> LinkGroups])
        /\ fromKrx' = fromKrx /\ linked' = linked /\ pc' = "linking"
        /\ pc = "loop" /\ ~OpenFlag /\ LogOnFlag
        /\ INT_SEQ' = INT_SEQ /\ INT_MEG_SEQ' = INT_MEG_SEQ
    BY <1>4, Zenon DEF Link_Request, flags, krx, counters
  <2>2. toKrx = <<>> /\ fromKrx = <<>> /\ ~linked
    BY <1>1, <2>1, Zenon DEF PhaseInv
  <2>3. LinkGroups' = LinkGroups
    BY <2>1 DEF LinkGroups
  <2>4. [seq |-> INT_SEQ, megs |-> LinkGroups] \in Request
    BY ZeroTyped DEF Types, LinkGroups, Request
  <2>5. /\ Tail(toKrx') = <<>> /\ Head(toKrx').seq = INT_SEQ
        /\ Head(toKrx').megs = LinkGroups
    BY <2>1, <2>2, <2>4, OneElement DEF Types
  <2>6. QED
    BY <2>1, <2>2, <2>3, <2>5, Zenon DEF RequestInv
<1>5. CASE Link_Response /\ Head(fromKrx).kind = "link"
  <2>1. CASE Exit_Process
    BY <1>2, <2>1 DEF Exit_Process, Closing
  <2>2. CASE ~Exit_Process
    <3>1. /\ pc' = "loop" /\ fromKrx # <<>> /\ fromKrx' = Tail(fromKrx)
          /\ toKrx' = toKrx
      BY <1>5, <2>2, Zenon DEF Link_Response
    <3>2. toKrx' = <<>>
      BY <1>1, <3>1 DEF RequestInv
    <3>3. Len(fromKrx') \in Nat
      BY <3>1, ChannelOps, LenProperties DEF Types
    <3>4. Len(fromKrx') >= Answers'
      BY <3>1, <3>3 DEF Answers
    <3>5. QED
      BY <3>2, <3>4, Zenon DEF RequestInv
  <2>3. QED
    BY <2>1, <2>2
<1>6. CASE Receive \/ Write_Data \/ Count \/ Skip
  <2>1. /\ toKrx' = toKrx /\ conn' = conn /\ pc # "linking" /\ pc' # "linking"
        /\ fromKrx' = fromKrx \/ fromKrx # <<>>
    BY <1>6 DEF Receive, Write_Data, Count, Skip, channels
  <2>2. Len(fromKrx') >= Answers'
    <3>1. Len(fromKrx') \in Nat
      BY <1>6, ChannelOps, LenProperties
      DEF Receive, Write_Data, Count, Skip, channels, Types
    <3>2. QED
      BY <2>1, <3>1 DEF Answers
  <2>3. QED
    BY <1>1, <2>1, <2>2, Zenon DEF RequestInv
<1>7. CASE Restart
  <2>1. conn' = conn /\ fromKrx' = fromKrx /\ pc = "down"
    BY <1>7 DEF Restart, channels
  <2>2. conn' = "closed" /\ fromKrx' = <<>>
    BY <1>1, <2>1, Zenon DEF PhaseInv
  <2>3. QED
    BY <2>2 DEF RequestInv
<1>8. CASE \/ Market_Open \/ UNCHANGED vars
           \/ \E g \in Groups : \E k \in Kinds : Publish(g, k)
  <2>1. /\ conn' = conn /\ fromKrx' = fromKrx /\ toKrx' = toKrx /\ pc' = pc
        /\ linked' = linked /\ INT_SEQ' = INT_SEQ
        /\ INT_MEG_SEQ' = INT_MEG_SEQ
    BY <1>8, Zenon DEF Market_Open, Publish, vars, channels, counters
  <2>2. LinkGroups' = LinkGroups /\ Answers' = Answers
    BY <2>1 DEF LinkGroups, Answers
  <2>3. QED
    BY <1>1, <2>1, <2>2, Zenon DEF RequestInv
<1>9. CASE Krx_Link
  <2>1. /\ toKrx # <<>> /\ toKrx' = Tail(toKrx) /\ conn' = conn
    BY <1>9 DEF Krx_Link
  <2>2. fromKrx = <<>>
    BY <1>1, <2>1 DEF RequestInv
  <2>3. CASE conn = "up"
    <3>1. toKrx' = <<>>
      BY <1>1, <2>1, <2>3 DEF RequestInv
    <3>2. \E m \in Message : fromKrx' = Append(fromKrx, m)
      <4>1. Head(toKrx).seq \in Nat
        <5>1. Head(toKrx) \in Request
          BY <2>1, ChannelOps DEF Types
        <5>2. QED
          BY <5>1 DEF Request
      <4>2. \A k \in {"link", "refused"} :
              [kind |-> k, seq |-> Head(toKrx).seq, group |-> 0, num |-> 0]
                \in Message
        BY <4>1 DEF Message
      <4>3. QED
        BY <1>9, <2>3, <4>2 DEF Krx_Link
    <3>3. Len(fromKrx') = 1
      BY <2>2, <3>2, OneElement DEF Types
    <3>4. Len(fromKrx') >= Answers'
      BY <3>3 DEF Answers
    <3>5. QED
      BY <3>1, <3>4, Zenon DEF RequestInv
  <2>4. CASE conn # "up"
    <3>1. fromKrx' = <<>>
      BY <1>9, <2>2, <2>4 DEF Krx_Link
    <3>2. QED
      BY <2>1, <2>4, <3>1 DEF RequestInv
  <2>5. QED
    BY <2>3, <2>4
<1>10. CASE \E g \in Groups : Krx_Send(g)
  <2>1. /\ conn' = conn /\ toKrx' = toKrx /\ pc' = pc /\ linked
        /\ conn = "up"
    BY <1>10, Zenon DEF Krx_Send
  <2>2. toKrx' = <<>> /\ Len(fromKrx) >= Answers
    BY <1>1, <2>1, Zenon DEF RequestInv
  <2>3. Len(fromKrx') = Len(fromKrx) + 1 /\ Len(fromKrx) \in Nat
    <3>1. PICK m : fromKrx' = Append(fromKrx, m)
      BY <1>10 DEF Krx_Send
    <3>2. QED
      BY <3>1 DEF Types
  <2>4. Len(fromKrx') >= Answers'
    BY <2>1, <2>2, <2>3 DEF Answers
  <2>5. QED
    BY <2>2, <2>4, Zenon DEF RequestInv
<1>11. CASE Drop
  <2>1. conn' = "broken"
    BY <1>11 DEF Drop
  <2>2. toKrx' # <<>> => fromKrx' = <<>>
    BY <1>1, <1>11, DropCuts DEF RequestInv
  <2>3. QED
    BY <2>1, <2>2 DEF RequestInv
<1>12. QED
  BY <1>2, <1>3, <1>4, <1>5, <1>6, <1>7, <1>8, <1>9, <1>10, <1>11,
     ClosingSteps, Zenon
  DEF Next, Receiver, Exchange

LEMMA CutContent ==
  ASSUME NEW c \in Seq(Message), NEW k \in 0..Len(c), NEW a \in {0, 1}, NEW l,
         Content(c, a, l)
  PROVE  Content(SubSeq(c, 1, k), a, l)
<1>1. Len(SubSeq(c, 1, k)) = k /\ \A i \in 1..k : SubSeq(c, 1, k)[i] = c[i]
  BY SubSeqProperties, LenProperties
<1>2. Len(c) \in Nat
  BY LenProperties
<1>3. QED
  BY <1>1, <1>2 DEF Content

LEMMA TailContent ==
  ASSUME NEW c \in Seq(Message), c # <<>>, NEW a \in {0, 1}, NEW l,
         Content(c, a, l)
  PROVE  Content(Tail(c), 0, l)
<1>1. Len(c) \in Nat /\ Len(Tail(c)) = Len(c) - 1
      /\ \A i \in 1..Len(Tail(c)) : Tail(c)[i] = c[i + 1]
  BY HeadTailProperties, LenProperties
<1>2. QED
  BY <1>1 DEF Content

LEMMA AppendContent ==
  ASSUME NEW c \in Seq(Message), NEW m, NEW a \in {0, 1}, NEW l,
         Content(c, a, l), FromLog(m, l)
  PROVE  Content(Append(c, m), a, l)
<1>1. /\ Len(c) \in Nat /\ Len(Append(c, m)) = Len(c) + 1
      /\ Append(c, m)[Len(c) + 1] = m
      /\ \A i \in 1..Len(c) : Append(c, m)[i] = c[i]
  BY LenProperties
<1>2. ASSUME NEW i \in (a + 1)..(Len(c) + 1)
      PROVE  FromLog(Append(c, m)[i], l)
  <2>1. CASE i = Len(c) + 1
    BY <1>1, <2>1
  <2>2. CASE i # Len(c) + 1
    <3>1. i \in (a + 1)..Len(c) /\ i \in 1..Len(c)
      BY <1>1, <2>2
    <3>2. QED
      BY <1>1, <3>1 DEF Content
  <2>3. QED
    BY <2>1, <2>2
<1>3. QED
  BY <1>1, <1>2 DEF Content

\* A longer log still has what came from the shorter one.
LEMMA LongerLog ==
  ASSUME Types, NEW g \in Groups, NEW k \in Kinds, Publish(g, k), NEW m,
         FromLog(m, log)
  PROVE  FromLog(m, log')
<1>1. /\ log' = [log EXCEPT ![g] = Append(@, k)] /\ log[g] \in Seq(Kinds)
      /\ log[m.group] \in Seq(Kinds) /\ m.group \in Groups
      /\ m.num \in 1..Len(log[m.group]) /\ m.kind = log[m.group][m.num]
      /\ m.kind \in Kinds
  BY DEF Publish, Types, FromLog
<1>2. CASE m.group = g
  <2>1. log'[m.group] = Append(log[g], k)
    BY <1>1, <1>2 DEF Types
  <2>2. /\ Len(Append(log[g], k)) = Len(log[g]) + 1 /\ Len(log[g]) \in Nat
        /\ \A i \in 1..Len(log[g]) : Append(log[g], k)[i] = log[g][i]
    BY <1>1, AppendProperties, LenProperties
  <2>3. QED
    BY <1>1, <1>2, <2>1, <2>2 DEF FromLog
<1>3. CASE m.group # g
  <2>1. log'[m.group] = log[m.group]
    BY <1>1, <1>3 DEF Types
  <2>2. QED
    BY <1>1, <2>1 DEF FromLog
<1>4. QED
  BY <1>2, <1>3

LEMMA StepContent ==
  ASSUME Types, LineInv, [Next]_vars
  PROVE  ContentInv'
<1>1. PhaseInv /\ RequestInv /\ Content(fromKrx, Answers, log)
  BY DEF LineInv, ContentInv
<1>2. Answers \in {0, 1} /\ Answers' \in {0, 1}
  BY DEF Answers
<1>3. ASSUME fromKrx' = <<>>
      PROVE  ContentInv'
  <2>1. Content(<<>>, 0, log') /\ Content(<<>>, 1, log')
    BY DEF Content
  <2>2. Answers' = 0 \/ Answers' = 1
    BY <1>2
  <2>3. QED
    BY <1>3, <2>1, <2>2, Zenon DEF ContentInv
<1>4. CASE Closing \/ Device_Open_Logon
  <2>1. fromKrx' = <<>>
    BY <1>4, Zenon DEF Closing, Device_Close, Device_Open_Logon
  <2>2. QED
    BY <1>3, <2>1
<1>5. CASE Link_Request /\ conn = "up"
  <2>1. /\ fromKrx' = fromKrx /\ pc = "loop" /\ ~OpenFlag /\ LogOnFlag
    BY <1>5, Zenon DEF Link_Request
  <2>2. fromKrx' = <<>>
    BY <1>1, <2>1, Zenon DEF PhaseInv
  <2>3. QED
    BY <1>3, <2>2
<1>6. CASE \/ Link_Response /\ Head(fromKrx).kind = "link"
           \/ Receive
  <2>1. CASE Exit_Process
    BY <1>3, <2>1 DEF Exit_Process, Device_Close
  <2>2. CASE ~Exit_Process
    <3>1. /\ fromKrx # <<>> /\ fromKrx' = Tail(fromKrx) /\ log' = log
          /\ pc' # "linking"
      BY <1>6, <2>2 DEF Link_Response, Receive, krx
    <3>2. Answers' = 0
      BY <3>1 DEF Answers
    <3>3. Content(Tail(fromKrx), 0, log)
      BY <1>1, <1>2, <3>1, TailContent DEF Types
    <3>4. QED
      BY <3>1, <3>2, <3>3 DEF ContentInv
  <2>3. QED
    BY <2>1, <2>2
<1>7. CASE \/ Write_Data \/ Count \/ Skip \/ Restart
           \/ Market_Open \/ UNCHANGED vars
  <2>1. fromKrx' = fromKrx /\ log' = log
    BY <1>7, Zenon
    DEF Write_Data, Count, Skip, Restart, Market_Open, vars, channels, krx
  <2>2. Answers' = Answers
    BY <1>7
    DEF Write_Data, Count, Skip, Restart, Market_Open, vars, Answers
  <2>3. QED
    BY <1>1, <2>1, <2>2 DEF ContentInv
<1>8. CASE Krx_Link
  <2>1. /\ toKrx # <<>> /\ conn' = conn /\ pc' = pc /\ log' = log
    BY <1>8 DEF Krx_Link
  <2>2. fromKrx = <<>>
    BY <1>1, <2>1 DEF RequestInv
  <2>3. CASE conn = "up"
    <3>1. Answers' = 1
      BY <1>1, <2>1, <2>3 DEF RequestInv, Answers
    <3>2. PICK m : fromKrx' = Append(fromKrx, m)
      BY <1>8, <2>3 DEF Krx_Link
    <3>3. Len(fromKrx') = 1
      BY <2>2, <3>2, EmptySeq DEF Types
    <3>4. QED
      BY <3>1, <3>3 DEF ContentInv, Content
  <2>4. CASE conn # "up"
    BY <1>3, <1>8, <2>2, <2>4 DEF Krx_Link
  <2>5. QED
    BY <2>3, <2>4
<1>9. CASE \E g \in Groups : Krx_Send(g)
  <2>1. PICK g \in Groups : Krx_Send(g)
    BY <1>9
  <2>2. log[g] \in Seq(Kinds) /\ next[g] \in Nat /\ Len(log[g]) \in Nat
        /\ next[g] < Len(log[g]) /\ next'[g] = next[g] + 1
    BY <2>1, LenProperties DEF Krx_Send, Types
  <2> DEFINE m == [kind |-> log[g][next'[g]], seq |-> header', group |-> g,
                   num |-> next'[g]]
  <2>3. FromLog(m, log)
    BY <2>2, ElementOfSeq DEF FromLog
  <2> HIDE DEF m
  <2>4. fromKrx' = Append(fromKrx, m) /\ log' = log /\ pc' = pc
    BY <2>1 DEF Krx_Send, m
  <2>5. PICK n : n = m
    OBVIOUS
  <2>6. Content(Append(fromKrx, n), Answers, log)
    BY <1>1, <1>2, <2>3, <2>5, AppendContent DEF Types
  <2>7. Answers' = Answers
    BY <2>4 DEF Answers
  <2>8. QED
    BY <2>4, <2>5, <2>6, <2>7 DEF ContentInv
<1>10. CASE \E g \in Groups : \E k \in Kinds : Publish(g, k)
  <2>1. PICK g \in Groups, k \in Kinds : Publish(g, k)
    BY <1>10
  <2>2. fromKrx' = fromKrx /\ pc' = pc
    BY <2>1 DEF Publish, channels
  <2>3. Answers' = Answers
    BY <2>2 DEF Answers
  <2>4. QED
    BY <1>1, <2>1, <2>2, <2>3, LongerLog DEF ContentInv, Content
<1>11. CASE Drop
  <2>1. PICK k \in 0..Len(fromKrx) : fromKrx' = SubSeq(fromKrx, 1, k)
    BY <1>11 DEF Drop
  <2>2. log' = log /\ pc' = pc
    BY <1>11 DEF Drop, krx
  <2>3. Content(SubSeq(fromKrx, 1, k), Answers, log)
    BY <1>1, <1>2, CutContent DEF Types
  <2>4. Answers' = Answers
    BY <2>2 DEF Answers
  <2>5. QED
    BY <2>1, <2>2, <2>3, <2>4 DEF ContentInv
<1>12. QED
  BY <1>4, <1>5, <1>6, <1>7, <1>8, <1>9, <1>10, <1>11, ClosingSteps, Zenon
  DEF Next, Receiver, Exchange

LEMMA StepLine ==
  ASSUME Types, LineInv, [Next]_vars
  PROVE  LineInv'
BY StepPhase, StepRequest, StepContent DEF LineInv

-------------------------------------------------------------------------------
\* What the order core gets

\* The trades of group g that its counter has passed, and that were not lost.
Due(g) == {n \in 1..Passed(g) : log[g][n] = "trade" /\ <<g, n>> \notin lost}

LEMMA PassedTyped ==
  ASSUME Types, HandInv, NEW g \in Groups
  PROVE  /\ Passed(g) \in Nat /\ Passed(g) <= Len(log[g])
         /\ Len(log[g]) \in Nat /\ INT_MEG_SEQ[g] \in Nat
<1>1. INT_MEG_SEQ[g] \in Nat /\ log[g] \in Seq(Kinds)
  BY DEF Types
<1>2. Len(log[g]) \in Nat /\ INT_MEG_SEQ[g] <= Len(log[g])
  BY <1>1, LenProperties DEF HandInv
<1>3. pc = "grouped" /\ meg.group = g => INT_MEG_SEQ[g] >= 1
  BY <1>2 DEF HandInv, Between, FromLog
<1>4. QED
  BY <1>1, <1>2, <1>3 DEF Passed

LEMMA DueKept ==
  ASSUME StagedIsLog, staged' = staged, \A g \in Groups : Due(g)' = Due(g)
  PROVE  StagedIsLog'
<1>1. \A g \in Groups : PlacesOf(g)' = PlacesOf(g)
  BY DEF PlacesOf
<1>2. \A g \in Groups : {staged[i].num : i \in PlacesOf(g)} = Due(g)
  BY Zenon DEF StagedIsLog, Due
<1>3. SUFFICES ASSUME NEW g \in Groups
               PROVE  /\ {staged[i].num : i \in PlacesOf(g)}' = Due(g)'
                      /\ \A i, j \in PlacesOf(g)' :
                           i < j => staged'[i].num < staged'[j].num
  BY Zenon DEF StagedIsLog, Due
<1>4. {staged[i].num : i \in PlacesOf(g)}' = Due(g)'
  BY <1>1, <1>2
<1>5. \A i, j \in PlacesOf(g)' : i < j => staged'[i].num < staged'[j].num
  BY <1>1 DEF StagedIsLog
<1>6. QED
  BY <1>4, <1>5

\* Steps that touch neither the group counters nor what was staged.
LEMMA QuietStaged ==
  ASSUME Types, StagedInv, INT_MEG_SEQ' = INT_MEG_SEQ,
         log' = log, lost' = lost, staged' = staged,
         \/ pc' = pc /\ meg' = meg
         \/ pc # "grouped" /\ pc' \notin Between
  PROVE  StagedInv'
<1>1. HandInv /\ LostInv /\ StagedIsLog
  BY DEF StagedInv
<1>2. \A g \in Groups : Passed(g)' = Passed(g)
  BY DEF Passed, Between
<1>3. HandInv'
  BY <1>1 DEF HandInv, FromLog
<1>4. LostInv'
  BY <1>1, <1>2 DEF LostInv
<1>5. \A g \in Groups : Due(g)' = Due(g)
  BY <1>2 DEF Due
<1>6. QED
  BY <1>1, <1>3, <1>4, <1>5, DueKept DEF StagedInv

\* The message in hand is dropped: it is not a trade, or is lost.
LEMMA LeaveStaged ==
  ASSUME Types, StagedInv, pc = "grouped", pc' \notin Between,
         INT_MEG_SEQ' = INT_MEG_SEQ, log' = log, staged' = staged,
         lost' = IF meg.kind = "trade"
                 THEN lost \union {<<meg.group, meg.num>>} ELSE lost
  PROVE  StagedInv'
<1>1. HandInv /\ LostInv /\ StagedIsLog
  BY DEF StagedInv
<1>2. FromLog(meg, log) /\ meg.num = INT_MEG_SEQ[meg.group]
  BY <1>1 DEF HandInv, Between
<1>3. meg.group \in Groups /\ meg.kind = log[meg.group][meg.num]
  BY <1>2 DEF FromLog
<1>4. \A g \in Groups :
        /\ Passed(g) \in Nat /\ Passed(g)' \in Nat
        /\ g = meg.group => /\ Passed(g)' = meg.num
                            /\ Passed(g) = meg.num - 1
        /\ g # meg.group => Passed(g)' = Passed(g)
  <2>1. pc' # "grouped"
    BY DEF Between
  <2>2. \A g \in Groups : INT_MEG_SEQ[g] \in Nat /\ Passed(g) \in Nat
    BY <1>1, PassedTyped
  <2>3. QED
    BY <1>2, <2>1, <2>2 DEF Passed
<1>5. HandInv'
  BY <1>1 DEF HandInv
<1>6. LostInv'
  <2> SUFFICES ASSUME NEW g \in Groups, NEW n \in Nat, <<g, n>> \in lost'
               PROVE  n <= Passed(g)'
    BY DEF LostInv
  <2>1. <<g, n>> \in lost \/ <<g, n>> = <<meg.group, meg.num>>
    OBVIOUS
  <2>2. CASE <<g, n>> \in lost
    BY <1>1, <1>4, <2>2 DEF LostInv
  <2>3. CASE <<g, n>> = <<meg.group, meg.num>>
    BY <1>4, <2>3
  <2>4. QED
    BY <2>1, <2>2, <2>3
<1>7. ASSUME NEW g \in Groups
      PROVE  Due(g)' = Due(g)
  <2>1. CASE g # meg.group
    <3>1. \A n : <<g, n>> \in lost' <=> <<g, n>> \in lost
      BY <2>1
    <3>2. Passed(g)' = Passed(g)
      BY <1>4, <2>1
    <3>3. QED
      BY <3>1, <3>2 DEF Due
  <2>2. CASE g = meg.group
    <3>1. /\ Passed(g)' = meg.num /\ Passed(g) = meg.num - 1
          /\ meg.num \in Nat /\ meg.num - 1 \in Nat
      BY <1>4, <2>2
    <3>2. \A n \in 1..Passed(g) : <<g, n>> \in lost' <=> <<g, n>> \in lost
      BY <3>1
    <3>3. ~(log[g][meg.num] = "trade" /\ <<g, meg.num>> \notin lost')
      BY <1>3, <2>2
    <3>4. 1..meg.num = (1..(meg.num - 1)) \union {meg.num}
      BY <3>1
    <3>5. \A n : n \in Due(g)' <=> n \in Due(g)
      BY <3>1, <3>2, <3>3, <3>4 DEF Due
    <3>6. QED
      BY <3>5 DEF Due
  <2>3. QED
    BY <2>1, <2>2
<1>8. QED
  BY <1>1, <1>5, <1>6, <1>7, DueKept DEF StagedInv

LEMMA ReceiveStaged ==
  ASSUME Types, LineInv, StagedInv, Receive
  PROVE  StagedInv'
<1>1. HandInv /\ LostInv /\ StagedIsLog
  BY DEF StagedInv
<1>2. /\ pc = "loop" /\ fromKrx # <<>> /\ meg' = Head(fromKrx)
      /\ pc' = "grouped" /\ Follows(meg') /\ log' = log /\ lost' = lost
      /\ staged' = staged
      /\ INT_MEG_SEQ' = [INT_MEG_SEQ EXCEPT ![meg'.group] = meg'.num]
  BY DEF Receive, krx, hist
<1> DEFINE m == Head(fromKrx)
<1>3. FromLog(m, log)
  BY <1>2, FirstIsFromLog
<1> HIDE DEF m
<1>4. meg' = m /\ m.num = INT_MEG_SEQ[m.group] + 1 /\ m.group \in Groups
      /\ m.num \in 1..Len(log[m.group])
  BY <1>2, <1>3 DEF Follows, FromLog, m
<1>5. \A g \in Groups :
        INT_MEG_SEQ'[g] = IF g = m.group THEN m.num ELSE INT_MEG_SEQ[g]
  BY <1>2, <1>4 DEF Types
<1>6. \A g \in Groups : INT_MEG_SEQ[g] \in Nat /\ Len(log[g]) \in Nat
  BY <1>1, PassedTyped
<1>7. ASSUME NEW g \in Groups
      PROVE  Passed(g)' = Passed(g)
  <2>1. Passed(g) = INT_MEG_SEQ[g]
    BY <1>2, <1>6 DEF Passed
  <2>2. Passed(g)' = INT_MEG_SEQ'[g] - (IF g = m.group THEN 1 ELSE 0)
    BY <1>2, <1>4 DEF Passed
  <2>3. QED
    BY <2>1, <2>2, <1>4, <1>5, <1>6
<1>8. HandInv'
  <2>1. FromLog(meg', log') /\ meg'.num = INT_MEG_SEQ'[meg'.group]
    BY <1>2, <1>3, <1>4, <1>5
  <2>2. \A g \in Groups : INT_MEG_SEQ'[g] <= Len(log'[g])
    BY <1>1, <1>2, <1>4, <1>5, <1>6 DEF HandInv
  <2>3. QED
    BY <2>1, <2>2 DEF HandInv
<1>9. LostInv'
  BY <1>1, <1>2, <1>7 DEF LostInv
<1>10. \A g \in Groups : Due(g)' = Due(g)
  BY <1>2, <1>7 DEF Due
<1>11. QED
  BY <1>1, <1>2, <1>8, <1>9, <1>10, DueKept DEF StagedInv

LEMMA WriteStaged ==
  ASSUME Types, StagedInv, Write_Data
  PROVE  StagedInv'
<1>1. HandInv /\ LostInv /\ StagedIsLog
  BY DEF StagedInv
<1>2. /\ pc = "grouped" /\ pc' = "staged" /\ meg.kind = "trade"
      /\ meg' = meg /\ INT_MEG_SEQ' = INT_MEG_SEQ /\ log' = log
      /\ lost' = lost
  BY DEF Write_Data, counters, krx, hist
<1>3. PICK r : r = [group |-> meg.group, num |-> meg.num,
                    If_Seq |-> INT_SEQ + 1]
  OBVIOUS
<1>4. staged' = Append(staged, r) /\ r.group = meg.group /\ r.num = meg.num
  BY <1>3 DEF Write_Data
<1>5. /\ FromLog(meg, log) /\ meg.num = INT_MEG_SEQ[meg.group]
      /\ meg.group \in Groups /\ meg.kind = log[meg.group][meg.num]
  BY <1>1, <1>2 DEF HandInv, Between, FromLog
<1>6. \A g \in Groups :
        /\ Passed(g) \in Nat /\ Passed(g)' \in Nat
        /\ g = meg.group => /\ Passed(g)' = meg.num
                            /\ Passed(g) = meg.num - 1
        /\ g # meg.group => Passed(g)' = Passed(g)
  <2>1. \A g \in Groups : INT_MEG_SEQ[g] \in Nat /\ Passed(g) \in Nat
    BY <1>1, PassedTyped
  <2>2. QED
    BY <1>2, <1>5, <2>1 DEF Passed
<1>7. HandInv'
  BY <1>1, <1>2, <1>5 DEF HandInv
<1>8. LostInv'
  BY <1>1, <1>2, <1>6 DEF LostInv
<1>9. /\ Len(staged) \in Nat /\ DOMAIN staged = 1..Len(staged)
      /\ Len(staged') = Len(staged) + 1
      /\ DOMAIN staged' = 1..(Len(staged) + 1)
      /\ staged'[Len(staged) + 1] = r
      /\ \A i \in 1..Len(staged) : staged'[i] = staged[i]
  BY <1>4, LenProperties DEF Types
<1>10. \A g \in Groups : {staged[i].num : i \in PlacesOf(g)} = Due(g)
  BY <1>1, Zenon DEF StagedIsLog, Due
<1>11. \A g \in Groups : \A i \in PlacesOf(g) :
         staged[i].num \in 1..Passed(g) /\ i \in 1..Len(staged)
  <2>1. \A g \in Groups : \A i \in PlacesOf(g) : staged[i].num \in Due(g)
    BY <1>10
  <2>2. QED
    BY <2>1, <1>9 DEF Due, PlacesOf
<1>12. ASSUME NEW g \in Groups, g # meg.group
       PROVE  /\ {staged'[i].num : i \in PlacesOf(g)'} = Due(g)'
              /\ PlacesOf(g)' = PlacesOf(g)
  <2>1. PlacesOf(g)' = PlacesOf(g)
    BY <1>4, <1>9, <1>12 DEF PlacesOf
  <2>2. Due(g)' = Due(g)
    BY <1>2, <1>6, <1>12 DEF Due
  <2>3. \A i \in PlacesOf(g) : staged'[i].num = staged[i].num
    BY <1>9, <1>11
  <2>4. {staged'[i].num : i \in PlacesOf(g)} = {staged[i].num : i \in PlacesOf(g)}
    BY <2>3
  <2>5. QED
    BY <1>10, <2>1, <2>2, <2>4
<1>13. ASSUME NEW g \in Groups, g = meg.group
       PROVE  /\ {staged'[i].num : i \in PlacesOf(g)'} = Due(g)'
              /\ PlacesOf(g)' = PlacesOf(g) \union {Len(staged) + 1}
  <2>1. PlacesOf(g)' = PlacesOf(g) \union {Len(staged) + 1}
    BY <1>4, <1>9, <1>13 DEF PlacesOf
  <2>2. Passed(g)' = Passed(g) + 1 /\ meg.num = Passed(g) + 1
        /\ Passed(g) \in Nat
    BY <1>6, <1>13
  <2>3. <<g, meg.num>> \notin lost
    BY <1>1, <2>2 DEF LostInv
  <2>4. 1..(Passed(g) + 1) = (1..Passed(g)) \union {meg.num}
    BY <2>2
  <2>5. Due(g)' = Due(g) \union {meg.num}
    BY <1>2, <1>5, <1>13, <2>2, <2>3, <2>4 DEF Due
  <2>6. \A i \in PlacesOf(g) : staged'[i].num = staged[i].num
    BY <1>9, <1>11
  <2>7. {staged'[i].num : i \in PlacesOf(g)} = {staged[i].num : i \in PlacesOf(g)}
    BY <2>6
  <2>8. {staged'[i].num : i \in PlacesOf(g)'}
          = {staged'[i].num : i \in PlacesOf(g)} \union {meg.num}
    BY <1>4, <1>9, <2>1
  <2>9. QED
    BY <1>10, <2>1, <2>5, <2>7, <2>8
<1>14. ASSUME NEW g \in Groups, NEW i \in PlacesOf(g)', NEW j \in PlacesOf(g)',
              i < j
       PROVE  staged'[i].num < staged'[j].num
  <2>1. i \in 1..(Len(staged) + 1) /\ j \in 1..(Len(staged) + 1)
    BY <1>9 DEF PlacesOf
  <2>2. i \in PlacesOf(g) /\ staged'[i].num = staged[i].num
    <3>1. i # Len(staged) + 1 /\ i \in 1..Len(staged)
      BY <1>9, <1>14, <2>1
    <3>2. QED
      BY <1>9, <1>12, <1>13, <3>1
  <2>3. CASE j \in PlacesOf(g)
    <3>1. staged'[j].num = staged[j].num
      BY <1>9, <1>11, <2>3
    <3>2. staged[i].num < staged[j].num
      BY <1>1, <1>14, <2>2, <2>3 DEF StagedIsLog
    <3>3. QED
      BY <2>2, <3>1, <3>2
  <2>4. CASE j \notin PlacesOf(g)
    <3>1. g = meg.group /\ j = Len(staged) + 1
      BY <1>12, <1>13, <2>4
    <3>2. staged'[j].num = meg.num /\ staged[i].num \in 1..Passed(g)
      BY <1>4, <1>9, <1>11, <2>2, <3>1
    <3>3. Passed(g) = meg.num - 1 /\ Passed(g) \in Nat /\ Passed(g)' = meg.num
          /\ Passed(g)' \in Nat
      BY <1>6, <3>1
    <3>4. QED
      BY <2>2, <3>2, <3>3
  <2>5. QED
    BY <2>3, <2>4
<1>15. StagedIsLog'
  <2>1. \A g \in Groups : {staged'[i].num : i \in PlacesOf(g)'} = Due(g)'
    BY <1>12, <1>13
  <2>2. \A g \in Groups : \A i, j \in PlacesOf(g)' :
          i < j => staged'[i].num < staged'[j].num
    BY <1>14
  <2>3. QED
    BY <2>1, <2>2, Zenon DEF StagedIsLog, Due
<1>16. QED
  BY <1>7, <1>8, <1>15 DEF StagedInv

LEMMA PublishStaged ==
  ASSUME Types, StagedInv, NEW g \in Groups, NEW k \in Kinds, Publish(g, k)
  PROVE  StagedInv'
<1>1. HandInv /\ LostInv /\ StagedIsLog
  BY DEF StagedInv
<1>2. /\ INT_MEG_SEQ' = INT_MEG_SEQ /\ lost' = lost /\ staged' = staged
      /\ pc' = pc /\ meg' = meg
  BY DEF Publish, counters, hist
<1>3. \A h \in Groups :
        /\ Len(log[h]) \in Nat /\ Len(log'[h]) \in Nat
        /\ Len(log[h]) <= Len(log'[h])
        /\ \A n \in 1..Len(log[h]) : log'[h][n] = log[h][n]
  <2>1. \A h \in Groups :
          log'[h] = IF h = g THEN Append(log[g], k) ELSE log[h]
    BY DEF Publish, Types
  <2>2. \A h \in Groups : log[h] \in Seq(Kinds) /\ Len(log[h]) \in Nat
    BY LenProperties DEF Types
  <2>3. /\ Len(Append(log[g], k)) = Len(log[g]) + 1
        /\ \A n \in 1..Len(log[g]) : Append(log[g], k)[n] = log[g][n]
    BY <2>2, AppendProperties, LenProperties
  <2>4. TAKE h \in Groups
  <2>5. CASE h = g
    <3>1. log'[h] = Append(log[g], k) /\ log[h] = log[g]
      BY <2>1, <2>5
    <3>2. QED
      BY <2>2, <2>3, <3>1
  <2>6. CASE h # g
    <3>1. log'[h] = log[h]
      BY <2>1, <2>6
    <3>2. QED
      BY <2>2, <3>1
  <2>7. QED
    BY <2>5, <2>6
<1>4. \A h \in Groups :
        /\ Passed(h)' = Passed(h) /\ Passed(h) \in Nat
        /\ Passed(h) <= Len(log[h]) /\ INT_MEG_SEQ[h] \in Nat
  <2>1. \A h \in Groups : Passed(h)' = Passed(h)
    BY <1>2 DEF Passed
  <2>2. QED
    BY <1>1, <2>1, PassedTyped
<1>5. HandInv'
  <2>1. pc \in Between => FromLog(meg, log')
    BY <1>1, LongerLog DEF HandInv
  <2>2. \A h \in Groups : INT_MEG_SEQ[h] <= Len(log'[h])
    BY <1>1, <1>3, <1>4 DEF HandInv
  <2>3. QED
    BY <1>1, <1>2, <2>1, <2>2 DEF HandInv
<1>6. LostInv'
  BY <1>1, <1>2, <1>4 DEF LostInv
<1>7. ASSUME NEW h \in Groups
      PROVE  Due(h)' = Due(h)
  <2>1. \A n \in 1..Passed(h) : log'[h][n] = log[h][n]
    BY <1>3, <1>4
  <2>2. QED
    BY <1>2, <1>4, <2>1 DEF Due
<1>8. QED
  BY <1>1, <1>2, <1>5, <1>6, <1>7, DueKept DEF StagedInv

LEMMA StepStaged ==
  ASSUME Types, LineInv, StagedInv, [Next]_vars
  PROVE  StagedInv'
<1>1. CASE \/ Device_Open_Logon \/ Link_Request \/ Link_Response \/ Link_Lost
           \/ Out_Of_Sequence \/ Disconnect \/ Hangup \/ Count \/ Restart
  <2>1. /\ INT_MEG_SEQ' = INT_MEG_SEQ /\ log' = log /\ lost' = lost
        /\ staged' = staged
    BY <1>1, Zenon
    DEF Device_Open_Logon, Link_Request, Link_Response, Link_Lost,
        Out_Of_Sequence, Disconnect, Hangup, Count, Restart, counters, krx,
        hist
  <2>2. pc # "grouped" /\ (pc' = pc \/ pc' \notin Between)
    BY <1>1
    DEF Device_Open_Logon, Link_Request, Link_Response, Link_Lost, Between,
        Out_Of_Sequence, Disconnect, Hangup, Count, Restart, Exit_Process
  <2>3. pc' \notin Between
    BY <1>1, <2>2
    DEF Device_Open_Logon, Link_Request, Link_Response, Link_Lost, Between,
        Out_Of_Sequence, Disconnect, Hangup, Count, Restart
  <2>4. QED
    BY <2>1, <2>2, <2>3, QuietStaged
<1>2. CASE \/ Market_Open \/ Krx_Link \/ Drop \/ UNCHANGED vars
           \/ \E g \in Groups : Krx_Send(g)
  <2>1. /\ INT_MEG_SEQ' = INT_MEG_SEQ /\ log' = log /\ lost' = lost
        /\ staged' = staged /\ pc' = pc /\ meg' = meg
    BY <1>2, Zenon
    DEF Market_Open, Krx_Link, Krx_Send, Drop, vars, counters, krx, hist
  <2>2. QED
    BY <2>1, QuietStaged
<1>3. CASE Skip \/ IF_End
  <2>1. /\ INT_MEG_SEQ' = INT_MEG_SEQ /\ log' = log /\ lost' = lost
        /\ staged' = staged /\ pc = "grouped"
    BY <1>3, Zenon DEF Skip, IF_End, krx, hist
  <2>2. pc' \notin Between /\ meg.kind # "trade"
    BY <1>3 DEF Skip, IF_End, Between
  <2>3. QED
    BY <2>1, <2>2, LeaveStaged
<1>4. CASE Crash
  <2>1. /\ INT_MEG_SEQ' = INT_MEG_SEQ /\ log' = log /\ staged' = staged
        /\ pc' = "down"
    BY <1>4, Zenon DEF Crash, Exit_Process, counters, krx
  <2>2. pc' \notin Between
    BY <2>1 DEF Between
  <2>3. lost' = IF pc = "grouped" /\ meg.kind = "trade"
                THEN lost \union {<<meg.group, meg.num>>} ELSE lost
    BY <1>4, Zenon DEF Crash
  <2>4. CASE pc = "grouped"
    BY <2>1, <2>2, <2>3, <2>4, LeaveStaged
  <2>5. CASE pc # "grouped"
    BY <2>1, <2>2, <2>3, <2>5, QuietStaged
  <2>6. QED
    BY <2>4, <2>5
<1>5. QED
  BY <1>1, <1>2, <1>3, <1>4, ReceiveStaged, WriteStaged, PublishStaged, Zenon
  DEF Next, Receiver, Exchange

LEMMA InitInv ==
  ASSUME Init
  PROVE  Types /\ LineInv /\ StagedInv
<1>1. Types
  BY ZeroTyped, EmptySeq DEF Init, Types
<1>2. PhaseInv
  <2>1. /\ pc = "down" /\ conn = "closed" /\ fromKrx = <<>>
        /\ LogOnFlag = FALSE /\ OpenFlag = FALSE
    BY Zenon DEF Init
  <2>2. pc # "linking" /\ pc \notin Between
    BY <2>1 DEF Between
  <2>3. QED
    BY <2>1, <2>2, Zenon DEF PhaseInv
<1>3. RequestInv /\ ContentInv
  BY DEF Init, RequestInv, ContentInv, Content, Answers
<1>4. HandInv /\ LostInv
  BY DEF Init, HandInv, LostInv, Between, Zero
<1>5. StagedIsLog
  <2>1. \A g \in Groups : Passed(g) = 0
    <3>1. pc # "grouped" /\ INT_MEG_SEQ = Zero
      BY DEF Init
    <3>2. \A g \in Groups : INT_MEG_SEQ[g] = 0
      BY <3>1 DEF Zero
    <3>3. TAKE g \in Groups
    <3>4. (IF pc = "grouped" /\ meg.group = g THEN 1 ELSE 0) = 0
      BY <3>1
    <3>5. QED
      BY <3>2, <3>4 DEF Passed
  <2>2. \A g \in Groups : PlacesOf(g) = {}
    <3>1. DOMAIN staged = {}
      BY DEF Init
    <3>2. QED
      BY <3>1 DEF PlacesOf
  <2>3. ASSUME NEW g \in Groups
        PROVE  {n \in 1..Passed(g) : log[g][n] = "trade"
                                     /\ <<g, n>> \notin lost} = {}
    BY <2>1
  <2>4. \A g \in Groups : {staged[i].num : i \in PlacesOf(g)} = {}
    BY <2>2
  <2>5. QED
    BY <2>2, <2>3, <2>4 DEF StagedIsLog
<1>6. QED
  BY <1>1, <1>2, <1>3, <1>4, <1>5 DEF LineInv, StagedInv

\* For each group, whatever was lost and restarted: the order core has got the
\* trades its counter has passed, in their order and once each, except those in
\* hand at a death between the counter and SEAM_W.
THEOREM TradesOnceInOrder == Spec => []StagedIsLog
<1>1. Init => Types /\ LineInv /\ StagedInv
  BY InitInv
<1>2. Types /\ LineInv /\ StagedInv /\ [Next]_vars
        => (Types /\ LineInv /\ StagedInv)'
  BY StepTypes, StepLine, StepStaged DEF StagedInv
<1>3. StagedInv => StagedIsLog
  BY DEF StagedInv
<1>4. QED
  BY <1>1, <1>2, <1>3, PTL DEF Spec

-------------------------------------------------------------------------------
\* The numbers on the way

\* Message i only depends on those before it.
LEMMA SamePrefix ==
  ASSUME NEW c, NEW d, NEW a \in {0, 1}, NEW b, NEW M, NEW i \in Nat, i > a,
         \A j \in 1..i : d[j] = c[j], Continues(c, a, b, M, i)
  PROVE  Continues(d, a, b, M, i)
<1>1. d[i] = c[i]
  OBVIOUS
<1>2. \A j \in (a + 1)..(i - 1) : d[j] = c[j]
  OBVIOUS
<1>3. QED
  BY <1>1, <1>2, Zenon DEF Continues

LEMMA CutOrder ==
  ASSUME NEW c \in Seq(Message), NEW k \in 0..Len(c), NEW a \in {0, 1}, NEW b,
         NEW M, InOrder(c, a, b, M)
  PROVE  InOrder(SubSeq(c, 1, k), a, b, M)
<1>1. Len(SubSeq(c, 1, k)) = k /\ \A j \in 1..k : SubSeq(c, 1, k)[j] = c[j]
  BY SubSeqProperties, LenProperties
<1>2. Len(c) \in Nat
  BY LenProperties
<1>3. ASSUME NEW i \in (a + 1)..k
      PROVE  Continues(SubSeq(c, 1, k), a, b, M, i)
  <2>1. i \in (a + 1)..Len(c) /\ i \in Nat /\ i > a
    BY <1>2
  <2>2. Continues(c, a, b, M, i)
    BY <2>1 DEF InOrder
  <2>3. \A j \in 1..i : SubSeq(c, 1, k)[j] = c[j]
    BY <1>1
  <2>4. QED
    BY <2>1, <2>2, <2>3, SamePrefix
<1>4. QED
  BY <1>1, <1>3 DEF InOrder

LEMMA FirstFollows ==
  ASSUME NEW c \in Seq(Message), c # <<>>, NEW b \in Nat,
         NEW M \in [Groups -> Nat], c[1].group \in Groups,
         InOrder(c, 0, b, M)
  PROVE  c[1].seq = b + 1 /\ c[1].num = M[c[1].group] + 1
<1>1. 1 \in 1..Len(c) /\ c[1] \in Message
  BY LenProperties, EmptySeq, ElementOfSeq
<1>2. c[1].num \in Nat /\ M[c[1].group] \in Nat
  BY <1>1, MessageFields
<1>3. Continues(c, 0, b, M, 1)
  BY <1>1 DEF InOrder
<1>4. c[1].seq = b + 1 /\ M[c[1].group] < c[1].num
  BY <1>3 DEF Continues
<1>5. \A n \in (M[c[1].group] + 1)..(c[1].num - 1) : FALSE
  BY <1>3 DEF Continues
<1>6. M[c[1].group] + 1 \notin (M[c[1].group] + 1)..(c[1].num - 1)
  BY <1>5
<1>7. QED
  BY <1>2, <1>4, <1>6

LEMMA AppendOrder ==
  ASSUME NEW c \in Seq(Message), NEW a \in {0, 1}, a <= Len(c), NEW b \in Nat,
         NEW M \in [Groups -> Nat], InOrder(c, a, b, M),
         NEW X \in [Groups -> Nat],
         \A h \in Groups : UpTo(c, a, M, h, X[h]),
         NEW g \in Groups, NEW m, m.group = g, m.num = X[g] + 1,
         m.seq = b + Len(c) + 1 - a
  PROVE  /\ InOrder(Append(c, m), a, b, M)
         /\ \A h \in Groups :
              UpTo(Append(c, m), a, M, h, IF h = g THEN X[g] + 1 ELSE X[h])
<1> DEFINE d == Append(c, m)
<1>1. /\ Len(c) \in Nat /\ Len(d) = Len(c) + 1 /\ d[Len(c) + 1] = m
      /\ \A j \in 1..Len(c) : d[j] = c[j]
  BY LenProperties
<1> HIDE DEF d
<1>2. \A h \in Groups : M[h] \in Nat /\ X[h] \in Nat
  OBVIOUS
<1>3. /\ M[g] <= X[g]
      /\ \A n \in (M[g] + 1)..X[g] :
           \E j \in (a + 1)..Len(c) : c[j].group = g /\ c[j].num = n
      /\ \A j \in (a + 1)..Len(c) : c[j].group = g => c[j].num <= X[g]
  BY DEF UpTo
<1>4. \A j \in (a + 1)..Len(c) : j \in 1..Len(c) /\ j \in (a + 1)..Len(d)
                                 /\ d[j] = c[j]
  BY <1>1
<1>5. \A j \in (a + 1)..Len(c) : c[j].num \in Nat
  BY <1>4, ElementOfSeq, MessageFields
<1>6. Continues(d, a, b, M, Len(d))
  <2>1. d[Len(d)] = m
    BY <1>1
  <2>2. m.seq = b + Len(d) - a
    BY <1>1
  <2>3. M[m.group] < m.num
    BY <1>2, <1>3
  <2>4. \A n \in (M[m.group] + 1)..(m.num - 1) :
          \E j \in (a + 1)..(Len(d) - 1) : d[j].group = m.group /\ d[j].num = n
    <3>1. m.num - 1 = X[g] /\ Len(d) - 1 = Len(c)
      BY <1>1, <1>2
    <3>2. QED
      BY <1>3, <1>4, <3>1
  <2>5. \A j \in (a + 1)..(Len(d) - 1) :
          d[j].group = m.group => d[j].num < m.num
    <3>1. Len(d) - 1 = Len(c)
      BY <1>1
    <3>2. TAKE j \in (a + 1)..(Len(d) - 1)
    <3>3. d[j] = c[j] /\ c[j].num \in Nat
          /\ (c[j].group = g => c[j].num <= X[g])
      BY <1>3, <1>4, <1>5, <3>1
    <3>4. QED
      BY <1>2, <3>3
  <2>6. QED
    BY <2>1, <2>2, <2>3, <2>4, <2>5, Zenon DEF Continues
<1>7. ASSUME NEW i \in (a + 1)..Len(d)
      PROVE  Continues(d, a, b, M, i)
  <2>1. CASE i = Len(d)
    BY <1>6, <2>1
  <2>2. CASE i # Len(d)
    <3>1. i \in (a + 1)..Len(c) /\ i \in Nat /\ i > a
      BY <1>1, <2>2
    <3>2. \A j \in 1..i : d[j] = c[j]
      BY <1>1, <3>1
    <3>3. Continues(c, a, b, M, i)
      BY <3>1 DEF InOrder
    <3>4. QED
      BY <3>1, <3>2, <3>3, SamePrefix
  <2>3. QED
    BY <2>1, <2>2
<1>8. ASSUME NEW h \in Groups, h # g
      PROVE  UpTo(d, a, M, h, X[h])
  <2>1. /\ M[h] <= X[h]
        /\ \A n \in (M[h] + 1)..X[h] :
             \E j \in (a + 1)..Len(c) : c[j].group = h /\ c[j].num = n
        /\ \A j \in (a + 1)..Len(c) : c[j].group = h => c[j].num <= X[h]
    BY DEF UpTo
  <2>2. \A n \in (M[h] + 1)..X[h] :
          \E j \in (a + 1)..Len(d) : d[j].group = h /\ d[j].num = n
    BY <1>4, <2>1
  <2>3. \A j \in (a + 1)..Len(d) : d[j].group = h => j \in (a + 1)..Len(c)
    BY <1>1, <1>8
  <2>4. \A j \in (a + 1)..Len(d) : d[j].group = h => d[j].num <= X[h]
    BY <1>4, <2>1, <2>3
  <2>5. QED
    BY <2>1, <2>2, <2>4 DEF UpTo
<1>9. UpTo(d, a, M, g, X[g] + 1)
  <2>1. M[g] <= X[g] + 1
    BY <1>2, <1>3
  <2>2. ASSUME NEW n \in (M[g] + 1)..(X[g] + 1)
        PROVE  \E j \in (a + 1)..Len(d) : d[j].group = g /\ d[j].num = n
    <3>1. CASE n = X[g] + 1
      <4>1. Len(d) \in (a + 1)..Len(d) /\ d[Len(d)] = m
        BY <1>1
      <4>2. QED
        BY <3>1, <4>1
    <3>2. CASE n # X[g] + 1
      <4>1. n \in (M[g] + 1)..X[g]
        BY <1>2, <3>2
      <4>2. QED
        BY <1>3, <1>4, <4>1
    <3>3. QED
      BY <3>1, <3>2
  <2>3. ASSUME NEW j \in (a + 1)..Len(d), d[j].group = g
        PROVE  d[j].num <= X[g] + 1
    <3>1. CASE j = Len(d)
      BY <1>1, <1>2, <3>1
    <3>2. CASE j # Len(d)
      <4>1. j \in (a + 1)..Len(c)
        BY <1>1, <3>2
      <4>2. d[j] = c[j] /\ c[j].num \in Nat /\ c[j].num <= X[g]
        BY <1>3, <1>4, <1>5, <2>3, <4>1
      <4>3. QED
        BY <1>2, <4>2
    <3>3. QED
      BY <3>1, <3>2
  <2>4. QED
    BY <2>1, <2>2, <2>3 DEF UpTo
<1>10. QED
  BY <1>7, <1>8, <1>9 DEF InOrder, d

\* The answer is taken: the numbers of the groups stay as they are.
LEMMA AnswerOrder ==
  ASSUME NEW c \in Seq(Message), c # <<>>, NEW b \in Nat, NEW M,
         InOrder(c, 1, b, M)
  PROVE  /\ InOrder(Tail(c), 0, b, M)
         /\ \A g, x : UpTo(c, 1, M, g, x) => UpTo(Tail(c), 0, M, g, x)
<1> DEFINE d == Tail(c)
<1>1. /\ Len(c) \in Nat /\ Len(d) = Len(c) - 1
      /\ \A i \in 1..Len(d) : d[i] = c[i + 1]
  BY HeadTailProperties, LenProperties
<1> HIDE DEF d
<1>2. ASSUME NEW i \in 1..Len(d)
      PROVE  Continues(d, 0, b, M, i)
  <2>1. i + 1 \in 2..Len(c) /\ d[i] = c[i + 1]
    BY <1>1
  <2>2. Continues(c, 1, b, M, i + 1)
    BY <2>1 DEF InOrder
  <2>3. d[i].seq = b + i - 0 /\ M[d[i].group] < d[i].num
    <3>1. c[i + 1].seq = b + (i + 1) - 1 /\ M[c[i + 1].group] < c[i + 1].num
      BY <2>2 DEF Continues
    <3>2. QED
      BY <2>1, <3>1
  <2>4. ASSUME NEW n \in (M[d[i].group] + 1)..(d[i].num - 1)
        PROVE  \E j \in (0 + 1)..(i - 1) : d[j].group = d[i].group
                                           /\ d[j].num = n
    <3>1. PICK j \in (1 + 1)..((i + 1) - 1) :
            c[j].group = c[i + 1].group /\ c[j].num = n
      BY <2>1, <2>2, <2>4 DEF Continues
    <3>2. j - 1 \in (0 + 1)..(i - 1) /\ j - 1 \in 1..Len(d)
          /\ (j - 1) + 1 = j
      BY <1>1
    <3>3. d[j - 1] = c[j]
      BY <1>1, <3>2
    <3>4. QED
      BY <2>1, <3>1, <3>2, <3>3
  <2>5. ASSUME NEW j \in (0 + 1)..(i - 1), d[j].group = d[i].group
        PROVE  d[j].num < d[i].num
    <3>1. j + 1 \in (1 + 1)..((i + 1) - 1) /\ d[j] = c[j + 1]
      BY <1>1
    <3>2. c[j + 1].group = c[i + 1].group => c[j + 1].num < c[i + 1].num
      BY <2>2, <3>1 DEF Continues
    <3>3. QED
      BY <2>1, <2>5, <3>1, <3>2
  <2>6. QED
    BY <2>3, <2>4, <2>5, Zenon DEF Continues
<1>3. ASSUME NEW g, NEW x, UpTo(c, 1, M, g, x)
      PROVE  UpTo(d, 0, M, g, x)
  <2>1. ASSUME NEW n \in (M[g] + 1)..x
        PROVE  \E j \in (0 + 1)..Len(d) : d[j].group = g /\ d[j].num = n
    <3>1. PICK j \in (1 + 1)..Len(c) : c[j].group = g /\ c[j].num = n
      BY <1>3 DEF UpTo
    <3>2. j - 1 \in (0 + 1)..Len(d) /\ (j - 1) + 1 = j
      BY <1>1
    <3>3. d[j - 1] = c[j]
      BY <1>1, <3>2
    <3>4. QED
      BY <3>1, <3>2, <3>3
  <2>2. ASSUME NEW j \in (0 + 1)..Len(d), d[j].group = g
        PROVE  d[j].num <= x
    <3>1. j + 1 \in (1 + 1)..Len(c) /\ d[j] = c[j + 1]
      BY <1>1
    <3>2. QED
      BY <1>3, <2>2, <3>1 DEF UpTo
  <2>3. QED
    BY <1>3, <2>1, <2>2 DEF UpTo
<1>4. InOrder(d, 0, b, M)
  BY <1>2 DEF InOrder
<1>5. QED
  BY <1>3, <1>4 DEF d

\* The first message is counted: what follows it continues its numbers.
LEMMA TakeOrder ==
  ASSUME NEW c \in Seq(Message), c # <<>>, NEW b \in Nat,
         NEW M \in [Groups -> Nat],
         \A i \in 1..Len(c) : c[i].group \in Groups,
         InOrder(c, 0, b, M)
  PROVE  LET N == [M EXCEPT ![c[1].group] = c[1].num]
         IN /\ InOrder(Tail(c), 0, b + 1, N)
            /\ \A g \in Groups : \A x \in Nat :
                 UpTo(c, 0, M, g, x) => UpTo(Tail(c), 0, N, g, x)
<1> DEFINE d == Tail(c)
           N == [M EXCEPT ![c[1].group] = c[1].num]
<1>1. /\ Len(c) \in Nat /\ Len(d) = Len(c) - 1 /\ 1 \in 1..Len(c)
      /\ \A i \in 1..Len(d) : d[i] = c[i + 1]
  BY HeadTailProperties, LenProperties, EmptySeq
<1>2. c[1].group \in Groups /\ c[1].num = M[c[1].group] + 1
  BY <1>1, FirstFollows
<1>3. \A i \in 1..Len(c) : c[i].num \in Nat
  BY ElementOfSeq, MessageFields
<1>4. \A g \in Groups :
        /\ M[g] \in Nat
        /\ g = c[1].group => N[g] = c[1].num
        /\ g # c[1].group => N[g] = M[g]
  OBVIOUS
<1>5. PICK K : K = N
  OBVIOUS
<1>6. \A g \in Groups :
        /\ M[g] \in Nat
        /\ g = c[1].group => K[g] = c[1].num
        /\ g # c[1].group => K[g] = M[g]
  BY <1>4, <1>5
<1> HIDE DEF d, N
\* Numbers after those counted now were after those counted before, and the
\* first message is none of them.
<1>7. ASSUME NEW g \in Groups, NEW y \in Int, NEW n \in (K[g] + 1)..y
      PROVE  /\ n \in (M[g] + 1)..y
             /\ c[1].group = g => c[1].num # n
  BY <1>1, <1>2, <1>3, <1>6
<1>8. ASSUME NEW i \in 1..Len(d)
      PROVE  Continues(d, 0, b + 1, K, i)
  <2>1. i + 1 \in 2..Len(c) /\ i + 1 \in 1..Len(c) /\ d[i] = c[i + 1]
    BY <1>1
  <2>2. Continues(c, 0, b, M, i + 1)
    BY <2>1 DEF InOrder
  <2>3. d[i].group \in Groups /\ d[i].num \in Nat
    BY <1>3, <2>1
  <2>4. d[i].seq = b + 1 + i - 0
    <3>1. c[i + 1].seq = b + (i + 1) - 0
      BY <2>2 DEF Continues
    <3>2. QED
      BY <2>1, <3>1
  <2>5. K[d[i].group] < d[i].num
    <3>1. M[c[i + 1].group] < c[i + 1].num
      BY <2>2 DEF Continues
    <3>2. 1 \in (0 + 1)..((i + 1) - 1)
      OBVIOUS
    <3>3. c[1].group = c[i + 1].group => c[1].num < c[i + 1].num
      BY <2>2, <3>2 DEF Continues
    <3>4. QED
      BY <1>6, <2>1, <2>3, <3>1, <3>3
  <2>6. ASSUME NEW n \in (K[d[i].group] + 1)..(d[i].num - 1)
        PROVE  \E j \in (0 + 1)..(i - 1) : d[j].group = d[i].group
                                           /\ d[j].num = n
    <3>1. d[i].num - 1 \in Int
      BY <2>3
    <3>2. n \in (M[d[i].group] + 1)..(d[i].num - 1)
          /\ (c[1].group = d[i].group => c[1].num # n)
      BY <1>7, <2>3, <3>1
    <3>3. PICK j \in (0 + 1)..((i + 1) - 1) :
            c[j].group = c[i + 1].group /\ c[j].num = n
      BY <2>1, <2>2, <3>2 DEF Continues
    <3>4. j # 1
      BY <2>1, <3>2, <3>3
    <3>5. j - 1 \in (0 + 1)..(i - 1) /\ j - 1 \in 1..Len(d)
          /\ (j - 1) + 1 = j
      BY <1>1, <3>4
    <3>6. d[j - 1] = c[j]
      BY <1>1, <3>5
    <3>7. QED
      BY <2>1, <3>3, <3>5, <3>6
  <2>7. ASSUME NEW j \in (0 + 1)..(i - 1), d[j].group = d[i].group
        PROVE  d[j].num < d[i].num
    <3>1. j + 1 \in (0 + 1)..((i + 1) - 1) /\ d[j] = c[j + 1]
      BY <1>1
    <3>2. c[j + 1].group = c[i + 1].group => c[j + 1].num < c[i + 1].num
      BY <2>2, <3>1 DEF Continues
    <3>3. QED
      BY <2>1, <2>7, <3>1, <3>2
  <2>8. QED
    BY <2>4, <2>5, <2>6, <2>7, Zenon DEF Continues
<1>9. ASSUME NEW g \in Groups, NEW x \in Nat, UpTo(c, 0, M, g, x)
      PROVE  UpTo(d, 0, K, g, x)
  <2>1. K[g] <= x
    <3>1. M[g] <= x /\ (c[1].group = g => c[1].num <= x)
      BY <1>1, <1>9 DEF UpTo
    <3>2. QED
      BY <1>6, <3>1
  <2>2. ASSUME NEW n \in (K[g] + 1)..x
        PROVE  \E j \in (0 + 1)..Len(d) : d[j].group = g /\ d[j].num = n
    <3>1. n \in (M[g] + 1)..x /\ (c[1].group = g => c[1].num # n)
      BY <1>7
    <3>2. PICK j \in (0 + 1)..Len(c) : c[j].group = g /\ c[j].num = n
      BY <1>9, <3>1 DEF UpTo
    <3>3. j # 1
      BY <3>1, <3>2
    <3>4. j - 1 \in (0 + 1)..Len(d) /\ (j - 1) + 1 = j
      BY <1>1, <3>3
    <3>5. d[j - 1] = c[j]
      BY <1>1, <3>4
    <3>6. QED
      BY <3>2, <3>4, <3>5
  <2>3. ASSUME NEW j \in (0 + 1)..Len(d), d[j].group = g
        PROVE  d[j].num <= x
    <3>1. j + 1 \in (0 + 1)..Len(c) /\ d[j] = c[j + 1]
      BY <1>1
    <3>2. QED
      BY <1>9, <2>3, <3>1 DEF UpTo
  <2>4. QED
    BY <2>1, <2>2, <2>3 DEF UpTo
<1>10. InOrder(d, 0, b + 1, K)
  BY <1>8 DEF InOrder
<1>11. QED
  BY <1>5, <1>9, <1>10 DEF d, N

LEMMA BaseTyped ==
  ASSUME Types
  PROVE  Base \in Nat /\ Answers \in {0, 1} /\ INT_MEG_SEQ \in [Groups -> Nat]
BY DEF Types, Base, Answers

LEMMA NothingOnTheWay ==
  ASSUME NEW a \in {0, 1}, NEW b, NEW M
  PROVE  InOrder(<<>>, a, b, M)
BY DEF InOrder

LEMMA QuietStream ==
  ASSUME Stream, fromKrx' = fromKrx, Answers' = Answers, Base' = Base,
         INT_MEG_SEQ' = INT_MEG_SEQ, conn' = conn, header' = header,
         next' = next, linked' => linked
  PROVE  Stream'
<1>1. InOrder(fromKrx, Answers, Base, INT_MEG_SEQ)'
  BY DEF Stream
<1>2. linked' /\ conn' = "up" => GoesOn
  BY Zenon DEF Stream
<1>3. GoesOn => GoesOn'
  BY DEF GoesOn
<1>4. QED
  BY <1>1, <1>2, <1>3, Zenon DEF Stream

LEMMA EmptyStream ==
  ASSUME fromKrx' = <<>>, Answers' \in {0, 1}, ~(linked' /\ conn' = "up")
  PROVE  Stream'
<1>1. /\ InOrder(<<>>, 0, Base', INT_MEG_SEQ')
      /\ InOrder(<<>>, 1, Base', INT_MEG_SEQ')
  BY NothingOnTheWay
<1>2. Answers' = 0 \/ Answers' = 1
  OBVIOUS
<1>3. InOrder(fromKrx, Answers, Base, INT_MEG_SEQ)'
  BY <1>1, <1>2, Zenon
<1>4. QED
  BY <1>3, Zenon DEF Stream

LEMMA AnswerStream ==
  ASSUME Types, LineInv, Stream, Link_Response, ~Exit_Process
  PROVE  Stream'
<1>1. /\ pc = "linking" /\ pc' = "loop" /\ fromKrx # <<>>
      /\ fromKrx' = Tail(fromKrx) /\ INT_SEQ' = INT_SEQ
      /\ INT_MEG_SEQ' = INT_MEG_SEQ /\ conn' = conn /\ linked' = linked
      /\ header' = header /\ next' = next
  BY Zenon DEF Link_Response, counters, krx
<1>2. Answers = 1 /\ Answers' = 0 /\ Base' = Base /\ Base \in Nat
  BY <1>1, BaseTyped DEF Answers, Base, Between
<1>3. InOrder(fromKrx, 1, Base, INT_MEG_SEQ)
  BY <1>2 DEF Stream
<1>4. fromKrx \in Seq(Message)
  BY DEF Types
<1>5. /\ InOrder(Tail(fromKrx), 0, Base, INT_MEG_SEQ)
      /\ \A g, x : UpTo(fromKrx, 1, INT_MEG_SEQ, g, x)
                     => UpTo(Tail(fromKrx), 0, INT_MEG_SEQ, g, x)
  BY <1>1, <1>2, <1>3, <1>4, AnswerOrder
<1>6. InOrder(fromKrx, Answers, Base, INT_MEG_SEQ)'
  BY <1>1, <1>2, <1>5
<1>7. GoesOn => GoesOn'
  <2> SUFFICES ASSUME GoesOn
               PROVE  GoesOn'
    OBVIOUS
  <2>1. Len(fromKrx') = Len(fromKrx) - 1 /\ Len(fromKrx) \in Nat
    BY <1>1, <1>4, HeadTailProperties, LenProperties
  <2>2. header' = Base' + Len(fromKrx') - Answers'
    <3>1. header = Base + Len(fromKrx) - 1
      BY <1>2 DEF GoesOn
    <3>2. QED
      BY <1>1, <1>2, <2>1, <3>1
  <2>3. \A g \in Groups : UpTo(fromKrx', Answers', INT_MEG_SEQ', g, next'[g])
    <3>1. \A g \in Groups : UpTo(fromKrx, 1, INT_MEG_SEQ, g, next[g])
      BY <1>2 DEF GoesOn
    <3>2. QED
      BY <1>1, <1>2, <1>5, <3>1
  <2>4. QED
    BY <2>2, <2>3 DEF GoesOn
<1>8. linked' /\ conn' = "up" => GoesOn
  BY <1>1, Zenon DEF Stream
<1>9. QED
  BY <1>6, <1>7, <1>8, Zenon DEF Stream

LEMMA ReceiveStream ==
  ASSUME Types, LineInv, Stream, Receive
  PROVE  Stream'
<1>1. /\ pc = "loop" /\ pc' = "grouped" /\ fromKrx # <<>>
      /\ fromKrx' = Tail(fromKrx) /\ INT_SEQ' = INT_SEQ
      /\ conn' = conn /\ linked' = linked
      /\ header' = header /\ next' = next
  BY Zenon DEF Receive, krx
<1>2. Answers = 0 /\ Answers' = 0 /\ Base' = Base + 1 /\ Base \in Nat
  BY <1>1 DEF Answers, Base, Between, Types
<1>3. InOrder(fromKrx, 0, Base, INT_MEG_SEQ)
  BY <1>2 DEF Stream
<1>4. fromKrx \in Seq(Message) /\ INT_MEG_SEQ \in [Groups -> Nat]
  BY DEF Types
<1>5. \A i \in 1..Len(fromKrx) : fromKrx[i].group \in Groups
  BY <1>2 DEF LineInv, ContentInv, Content, FromLog
<1> DEFINE N == [INT_MEG_SEQ EXCEPT ![fromKrx[1].group] = fromKrx[1].num]
<1>6. INT_MEG_SEQ' = N
  BY <1>1, FirstIsFromLog DEF Receive
<1>7. /\ InOrder(Tail(fromKrx), 0, Base + 1, N)
      /\ \A g \in Groups : \A x \in Nat :
           UpTo(fromKrx, 0, INT_MEG_SEQ, g, x)
             => UpTo(Tail(fromKrx), 0, N, g, x)
  BY <1>1, <1>2, <1>3, <1>4, <1>5, TakeOrder
<1> HIDE DEF N
<1>8. InOrder(fromKrx, Answers, Base, INT_MEG_SEQ)'
  BY <1>1, <1>2, <1>6, <1>7
<1>9. GoesOn => GoesOn'
  <2> SUFFICES ASSUME GoesOn
               PROVE  GoesOn'
    OBVIOUS
  <2>1. Len(fromKrx') = Len(fromKrx) - 1 /\ Len(fromKrx) \in Nat
    BY <1>1, <1>4, HeadTailProperties, LenProperties
  <2>2. header' = Base' + Len(fromKrx') - Answers'
    <3>1. header = Base + Len(fromKrx) - 0
      BY <1>2 DEF GoesOn
    <3>2. QED
      BY <1>1, <1>2, <2>1, <3>1
  <2>3. \A g \in Groups : UpTo(fromKrx', Answers', INT_MEG_SEQ', g, next'[g])
    <3>1. \A g \in Groups :
            next[g] \in Nat /\ UpTo(fromKrx, 0, INT_MEG_SEQ, g, next[g])
      BY <1>2 DEF GoesOn, Types
    <3>2. QED
      BY <1>1, <1>2, <1>6, <1>7, <3>1
  <2>4. QED
    BY <2>2, <2>3 DEF GoesOn
<1>10. linked' /\ conn' = "up" => GoesOn
  BY <1>1, Zenon DEF Stream
<1>11. QED
  BY <1>8, <1>9, <1>10, Zenon DEF Stream

LEMMA SendStream ==
  ASSUME Types, LineInv, Stream, NEW g \in Groups, Krx_Send(g)
  PROVE  Stream'
<1>1. /\ linked /\ conn = "up" /\ conn' = conn /\ pc' = pc
      /\ INT_SEQ' = INT_SEQ /\ INT_MEG_SEQ' = INT_MEG_SEQ
      /\ header' = header + 1
  BY Zenon DEF Krx_Send, counters
<1>2. GoesOn /\ InOrder(fromKrx, Answers, Base, INT_MEG_SEQ)
  BY <1>1, Zenon DEF Stream
<1>3. Len(fromKrx) >= Answers
  BY <1>1, Zenon DEF LineInv, RequestInv
<1>4. Answers' = Answers /\ Base' = Base
  BY <1>1 DEF Answers, Base
<1>5. /\ Base \in Nat /\ Answers \in {0, 1} /\ INT_MEG_SEQ \in [Groups -> Nat]
      /\ fromKrx \in Seq(Message) /\ Len(fromKrx) \in Nat /\ header \in Nat
      /\ next \in [Groups -> Nat]
  BY BaseTyped, LenProperties DEF Types
<1>6. \A h \in Groups : UpTo(fromKrx, Answers, INT_MEG_SEQ, h, next[h])
  BY <1>2 DEF GoesOn
<1>7. \A h \in Groups : next'[h] = IF h = g THEN next[g] + 1 ELSE next[h]
  BY <1>5 DEF Krx_Send
<1>8. header = Base + Len(fromKrx) - Answers
  BY <1>2 DEF GoesOn
<1>9. PICK m : m = [kind |-> log[g][next'[g]], seq |-> header', group |-> g,
                    num |-> next'[g]]
  OBVIOUS
<1>10. fromKrx' = Append(fromKrx, m)
  BY <1>9 DEF Krx_Send
<1>11. /\ m.group = g /\ m.num = next[g] + 1
       /\ m.seq = Base + Len(fromKrx) + 1 - Answers
  BY <1>1, <1>5, <1>7, <1>8, <1>9
<1>12. Answers <= Len(fromKrx)
  BY <1>3, <1>5
<1>13. /\ InOrder(Append(fromKrx, m), Answers, Base, INT_MEG_SEQ)
       /\ \A h \in Groups :
            UpTo(Append(fromKrx, m), Answers, INT_MEG_SEQ, h,
                 IF h = g THEN next[g] + 1 ELSE next[h])
  BY <1>2, <1>5, <1>6, <1>11, <1>12, AppendOrder
<1>14. InOrder(fromKrx, Answers, Base, INT_MEG_SEQ)'
  BY <1>1, <1>4, <1>10, <1>13
<1>15. GoesOn'
  <2>1. Len(fromKrx') = Len(fromKrx) + 1
    BY <1>5, <1>10
  <2>2. header' = Base' + Len(fromKrx') - Answers'
    BY <1>1, <1>4, <1>5, <1>8, <2>1
  <2>3. \A h \in Groups : UpTo(fromKrx', Answers', INT_MEG_SEQ', h, next'[h])
    BY <1>1, <1>4, <1>7, <1>10, <1>13
  <2>4. QED
    BY <2>2, <2>3 DEF GoesOn
<1>16. QED
  BY <1>14, <1>15, Zenon DEF Stream

\* An answer alone on the way: the groups start where the receiver is.
LEMMA AloneOnTheWay ==
  ASSUME NEW c \in Seq(Message), Len(c) = 1, NEW b,
         NEW M \in [Groups -> Nat]
  PROVE  InOrder(c, 1, b, M) /\ \A g \in Groups : UpTo(c, 1, M, g, M[g])
<1>1. InOrder(c, 1, b, M)
  BY DEF InOrder
<1>2. ASSUME NEW g \in Groups
      PROVE  UpTo(c, 1, M, g, M[g])
  <2>1. M[g] \in Nat
    OBVIOUS
  <2>2. M[g] <= M[g] /\ (M[g] + 1)..M[g] = {} /\ (1 + 1)..Len(c) = {}
    BY <2>1
  <2>3. QED
    BY <2>2 DEF UpTo
<1>3. QED
  BY <1>1, <1>2

LEMMA LinkStream ==
  ASSUME Types, LineInv, CountedTogether, Krx_Link
  PROVE  Stream'
<1>1. /\ toKrx # <<>> /\ conn' = conn /\ pc' = pc
      /\ INT_SEQ' = INT_SEQ /\ INT_MEG_SEQ' = INT_MEG_SEQ
  BY DEF Krx_Link, counters
<1>2. fromKrx = <<>>
  BY <1>1 DEF LineInv, RequestInv
<1>3. CASE conn # "up"
  <2>1. fromKrx' = <<>> /\ conn' # "up"
    BY <1>1, <1>2, <1>3 DEF Krx_Link
  <2>2. Answers' \in {0, 1}
    BY DEF Answers
  <2>3. ~(linked' /\ conn' = "up")
    BY <2>1, Zenon
  <2>4. QED
    BY <2>1, <2>2, <2>3, EmptyStream
<1>4. CASE conn = "up"
  <2>1. pc = "linking" /\ ~linked
    BY <1>1, <1>4, Zenon DEF LineInv, RequestInv
  <2>2. Head(toKrx).seq = INT_SEQ /\ Head(toKrx).megs = LinkGroups
    BY <1>1, <1>4, Zenon DEF LineInv, RequestInv
  <2>3. Answers' = 1 /\ Base' = INT_SEQ /\ INT_SEQ \in Nat
    BY <1>1, <2>1 DEF Answers, Base, Between, Types
  <2>4. LinkGroups = INT_MEG_SEQ
    <3>1. pc \notin Between
      BY <2>1 DEF Between
    <3>2. QED
      BY <3>1 DEF LinkGroups, CountedTogether, Types
  <2>5. \E m \in Message : fromKrx' = Append(fromKrx, m)
    <3>1. \A k \in {"link", "refused"} :
            [kind |-> k, seq |-> Head(toKrx).seq, group |-> 0, num |-> 0]
              \in Message
      BY <2>2, <2>3 DEF Message
    <3>2. QED
      BY <1>4, <3>1 DEF Krx_Link
  <2>6. fromKrx' \in Seq(Message) /\ Len(fromKrx') = 1
    BY <1>2, <2>5, OneElement, ChannelOps DEF Types
  <2>7. PICK c \in Seq(Message) : c = fromKrx' /\ Len(c) = 1
    BY <2>6
  <2>8. /\ InOrder(c, 1, INT_SEQ, INT_MEG_SEQ)
        /\ \A g \in Groups : UpTo(c, 1, INT_MEG_SEQ, g, INT_MEG_SEQ[g])
    BY <2>7, AloneOnTheWay DEF Types
  <2>9. InOrder(fromKrx, Answers, Base, INT_MEG_SEQ)'
    BY <1>1, <2>3, <2>7, <2>8
  <2>10. linked' => next' = INT_MEG_SEQ /\ header' = INT_SEQ
    <3>1. \/ next' = Head(toKrx).megs /\ header' = Head(toKrx).seq
          \/ linked' = linked
      BY Zenon DEF Krx_Link
    <3>2. QED
      BY <2>1, <2>2, <2>4, <3>1, Zenon
  <2>11. next' = INT_MEG_SEQ /\ header' = INT_SEQ => GoesOn'
    <3>1. INT_SEQ = INT_SEQ + 1 - 1
      BY <2>3
    <3>2. QED
      BY <1>1, <2>3, <2>7, <2>8, <3>1 DEF GoesOn
  <2>12. QED
    BY <2>9, <2>10, <2>11, Zenon DEF Stream
<1>5. QED
  BY <1>3, <1>4

LEMMA StepCounted ==
  ASSUME Types, CountedTogether, [Next]_vars, torn' = {}
  PROVE  CountedTogether'
<1>1. CASE Receive
  <2>1. pc' \in Between
    BY <1>1 DEF Receive, Between
  <2>2. QED
    BY <2>1 DEF CountedTogether
<1>2. CASE Count \/ Skip \/ IF_End
  <2>1. INT_SEQ' = INT_SEQ + 1 /\ INT_SEQ \in Nat
    BY <1>2 DEF Count, Skip, IF_End, Types
  <2>2. INT_SEQ' # 0
    BY <2>1
  <2>3. QED
    BY <2>2 DEF CountedTogether
<1>3. CASE Write_Data
  <2>1. pc' \in Between
    BY <1>3 DEF Write_Data, Between
  <2>2. QED
    BY <2>1 DEF CountedTogether
<1>4. CASE \/ Device_Open_Logon \/ Link_Request \/ Link_Response \/ Link_Lost
           \/ Out_Of_Sequence \/ Disconnect \/ Hangup \/ Restart
  <2>1. INT_SEQ' = INT_SEQ /\ INT_MEG_SEQ' = INT_MEG_SEQ
    BY <1>4, Zenon
    DEF Device_Open_Logon, Link_Request, Link_Response, Link_Lost,
        Out_Of_Sequence, Disconnect, Hangup, Restart, counters
  <2>2. pc \in {"loop", "linking", "down"}
    BY <1>4
    DEF Device_Open_Logon, Link_Request, Link_Response, Link_Lost,
        Out_Of_Sequence, Disconnect, Hangup, Restart
  <2>3. pc \notin Between
    BY <2>2 DEF Between
  <2>4. QED
    BY <2>1, <2>3 DEF CountedTogether
<1>5. CASE Crash
  <2>1. INT_SEQ' = INT_SEQ /\ INT_MEG_SEQ' = INT_MEG_SEQ
        /\ torn' = torn \union ({pc} \cap Between)
    BY <1>5, Zenon DEF Crash, counters
  <2>2. pc \notin Between
    BY <2>1
  <2>3. QED
    BY <2>1, <2>2 DEF CountedTogether
<1>6. CASE Exchange \/ Drop \/ UNCHANGED vars
  <2>1. INT_SEQ' = INT_SEQ /\ INT_MEG_SEQ' = INT_MEG_SEQ /\ pc' = pc
    BY <1>6, Zenon
    DEF Exchange, Market_Open, Krx_Link, Krx_Send, Publish, Drop, vars,
        counters
  <2>2. QED
    BY <2>1 DEF CountedTogether
<1>7. QED
  BY <1>1, <1>2, <1>3, <1>4, <1>5, <1>6, Zenon DEF Next, Receiver

LEMMA StepStream ==
  ASSUME Types, LineInv, StreamInv, [Next]_vars
  PROVE  StreamInv'
<1> SUFFICES ASSUME torn' = {}
             PROVE  Stream' /\ CountedTogether'
  BY DEF StreamInv
<1>1. torn = {}
  <2>1. torn' = torn \/ torn' = torn \union ({pc} \cap Between)
    BY Zenon
    DEF Next, Receiver, Exchange, Crash, Drop, Restart, Device_Open_Logon,
        Link_Request, Link_Response, Link_Lost, Receive, Out_Of_Sequence,
        Write_Data, Count, Skip, IF_End, Disconnect, Hangup, Market_Open,
        Krx_Link, Krx_Send, Publish, vars, hist
  <2>2. QED
    BY <2>1
<1>2. Stream /\ CountedTogether
  BY <1>1 DEF StreamInv
<1>3. CountedTogether'
  BY <1>2, StepCounted
<1>4. Answers' \in {0, 1}
  BY DEF Answers
<1>5. CASE Closing
  <2>1. fromKrx' = <<>> /\ conn' = "closed"
    BY <1>5, Zenon DEF Closing, Device_Close
  <2>2. conn' # "up"
    BY <2>1
  <2>3. ~(linked' /\ conn' = "up")
    BY <2>2, Zenon
  <2>4. QED
    BY <1>3, <1>4, <2>1, <2>3, EmptyStream
<1>6. CASE Device_Open_Logon
  <2>1. fromKrx' = <<>> /\ linked' = FALSE
    BY <1>6, Zenon DEF Device_Open_Logon
  <2>2. ~(linked' /\ conn' = "up")
    BY <2>1, Zenon
  <2>3. QED
    BY <1>3, <1>4, <2>1, <2>2, EmptyStream
<1>7. CASE Link_Request /\ conn = "up"
  <2>1. /\ fromKrx' = fromKrx /\ linked' = linked /\ pc = "loop" /\ ~OpenFlag
        /\ LogOnFlag
    BY <1>7, Zenon DEF Link_Request, krx
  <2>2. fromKrx' = <<>> /\ ~(linked' /\ conn' = "up")
    BY <2>1, Zenon DEF LineInv, PhaseInv
  <2>3. QED
    BY <1>3, <1>4, <2>2, EmptyStream
<1>8. CASE Link_Response
  <2>1. CASE Exit_Process
    BY <1>5, <2>1 DEF Exit_Process, Closing
  <2>2. CASE ~Exit_Process
    BY <1>2, <1>3, <1>8, <2>2, AnswerStream
  <2>3. QED
    BY <2>1, <2>2
<1>9. CASE Receive
  BY <1>2, <1>3, <1>9, ReceiveStream
<1>10. CASE \/ Write_Data \/ Count \/ Skip \/ Restart \/ Market_Open
            \/ UNCHANGED vars
            \/ \E g \in Groups : \E k \in Kinds : Publish(g, k)
  <2>1. /\ fromKrx' = fromKrx /\ INT_MEG_SEQ' = INT_MEG_SEQ /\ conn' = conn
        /\ header' = header /\ next' = next /\ linked' = linked
    BY <1>10, Zenon
    DEF Write_Data, Count, Skip, Restart, Market_Open, Publish, vars, counters,
        channels, krx
  <2>2. Answers' = Answers
    BY <1>10
    DEF Write_Data, Count, Skip, Restart, Market_Open, Publish, vars, Answers
  <2>3. Base' = Base
    BY <1>10
    DEF Write_Data, Count, Skip, Restart, Market_Open, Publish, vars, counters,
        Base, Between, Types
  <2>4. linked' => linked
    BY <2>1, Zenon
  <2>5. QED
    BY <1>2, <1>3, <2>1, <2>2, <2>3, <2>4, QuietStream
<1>11. CASE Krx_Link
  BY <1>2, <1>3, <1>11, LinkStream
<1>12. CASE \E g \in Groups : Krx_Send(g)
  BY <1>2, <1>3, <1>12, SendStream
<1>13. CASE Drop
  <2>1. PICK k \in 0..Len(fromKrx) : fromKrx' = SubSeq(fromKrx, 1, k)
    BY <1>13 DEF Drop
  <2>2. /\ conn' = "broken" /\ pc' = pc /\ INT_SEQ' = INT_SEQ
        /\ INT_MEG_SEQ' = INT_MEG_SEQ
    BY <1>13 DEF Drop, counters
  <2>3. Answers' = Answers /\ Base' = Base /\ Answers \in {0, 1}
    BY <2>2 DEF Answers, Base
  <2>4. InOrder(SubSeq(fromKrx, 1, k), Answers, Base, INT_MEG_SEQ)
    BY <1>2, <2>3, CutOrder DEF Types, Stream
  <2>5. InOrder(fromKrx, Answers, Base, INT_MEG_SEQ)'
    BY <2>1, <2>2, <2>3, <2>4
  <2>6. conn' # "up"
    BY <2>2
  <2>7. QED
    BY <1>3, <2>5, <2>6, Zenon DEF Stream
<1>14. QED
  BY <1>5, <1>6, <1>7, <1>8, <1>9, <1>10, <1>11, <1>12, <1>13, ClosingSteps,
     Zenon
  DEF Next, Receiver, Exchange

\* Lost bytes, silences, refused LINKs and deaths elsewhere never make the
\* check of the two numbers end the process: only a death between the two
\* counters can.
THEOREM OnlyDeathEndsSequence == Spec => ExitNeedsDeath
<1>1. Init => IInv
  <2>1. Init => Types /\ LineInv /\ StagedInv
    BY InitInv
  <2>2. ASSUME Init
        PROVE  Stream
    <3>1. fromKrx = <<>> /\ conn = "closed" /\ pc = "down"
      BY <2>2, Zenon DEF Init
    <3>2. Answers = 0 /\ conn # "up"
      BY <3>1 DEF Answers
    <3>3. InOrder(<<>>, 0, Base, INT_MEG_SEQ)
      BY NothingOnTheWay
    <3>4. QED
      BY <3>1, <3>2, <3>3, Zenon DEF Stream
  <2>3. Init => CountedTogether
    BY DEF Init, CountedTogether
  <2>4. QED
    BY <2>1, <2>2, <2>3 DEF StreamInv, IInv
<1>2. IInv /\ [Next]_vars => IInv'
  BY StepTypes, StepLine, StepStaged, StepStream DEF StagedInv, IInv
<1>3. IInv => (Out_Of_Sequence => torn # {})
  <2> SUFFICES ASSUME IInv, Out_Of_Sequence, torn = {}
               PROVE  FALSE
    OBVIOUS
  <2>0. Types /\ LineInv /\ StreamInv
    BY DEF IInv
  <2>1. /\ pc = "loop" /\ fromKrx # <<>> /\ ~Follows(Head(fromKrx))
    BY DEF Out_Of_Sequence
  <2>2. /\ Head(fromKrx) = fromKrx[1] /\ FromLog(fromKrx[1], log)
        /\ Answers = 0
    BY <2>0, <2>1, FirstIsFromLog
  <2>3. InOrder(fromKrx, 0, INT_SEQ, INT_MEG_SEQ)
    <3>1. Base = INT_SEQ
      BY <2>0, <2>1 DEF Base, Between, Types
    <3>2. QED
      BY <2>0, <2>2, <3>1 DEF StreamInv, Stream
  <2>4. /\ fromKrx[1].seq = INT_SEQ + 1
        /\ fromKrx[1].num = INT_MEG_SEQ[fromKrx[1].group] + 1
    BY <2>0, <2>1, <2>2, <2>3, FirstFollows DEF Types, FromLog
  <2>5. QED
    BY <2>1, <2>2, <2>4 DEF Follows
<1>4. QED
  BY <1>1, <1>2, <1>3, PTL DEF Spec, ExitNeedsDeath

===============================================================================
