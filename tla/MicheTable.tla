------------------------------ MODULE MicheTable ------------------------------
(***************************************************************************)
(* The table of open orders (MK_PREMATCH: F_MiChe and MeChe_Cnt) of one    *)
(* market and account.  Two processes change it without a lock:            *)
(*   MICHE  (po_1290_mp) takes the exchange's order responses and          *)
(*          registers, reduces and removes orders,                         *)
(*   LEDGER (po_1490_mp) takes the executions, reduces the orders and      *)
(*          books the positions.                                           *)
(* Responses and executions come through two SEAM queues, so that their    *)
(* order at the exchange is not kept.  Every load and store of the shared  *)
(* fields is a step.  A search of the table is one step: only MICHE puts   *)
(* numbers into it, one at a time, and a search that misses the one being  *)
(* put in is one that came before it.                                      *)
(* A slot freed behind the search for a free one only changes which of     *)
(* two free slots is taken.                                                *)
(*                                                                         *)
(* The exchange is external: it numbers orders, fills, amends, cancels and  *)
(* expires them.  Rejects, which do not touch the table, and the limits    *)
(* (ProFit) beyond "booked" are left out.                                  *)
(*                                                                         *)
(* The names of the specification start with Table, so that a module can   *)
(* extend this one and SeamRing, whose queues the two processes read.      *)
(***************************************************************************)
EXTENDS Integers, Sequences, FiniteSets, MicheIdx

CONSTANTS MaxOrders,   \* bound: order numbers the exchange gives
          MAX_MICHE,   \* slots of the table
          Quantity,    \* of a new order
          MaxReports,  \* bound: responses and executions the exchange sends
          MaxRetry,    \* po_1490_mp: retry_cnt > 3 gives up
          MaxDeaths,   \* bound: deaths of the two processes
          Bond         \* the bond handler Make_MiChe, else Make_MiChe_Deriv

ASSUME KeysAssumption == Keys = 1..MaxOrders
ASSUME TableAssumption == MAX_MICHE \in Nat \ {0} /\ Quantity \in Nat \ {0}
ASSUME TableBounds ==
  {MaxOrders, MaxReports, MaxRetry, MaxDeaths} \subseteq Nat /\ Bond \in BOOLEAN

VARIABLES
  tab,        \* F_MiChe: OrderNo and Jan_Cnt of each slot
  MeChe_Cnt,  \* number of open orders
  queue,      \* the SEAM queue of each process, what it has not taken
  me,         \* where each process is, with the locals that are live there:
              \* its message R_Fmt, its i, a shared value loaded, retry_cnt
  midx,       \* its Midx
  booked,     \* quantity booked for each order
  rem,        \* external: what the exchange has left of each order
  given,      \* external: order numbers given
  reports,    \* external: responses and executions sent
  known,      \* history: orders that have been registered
  spilt,      \* history: a message was given up or lost with its process
  deaths      \* history: deaths so far

table  == <<tab, MeChe_Cnt>>
market == <<rem, given, reports>>
tableVars == <<tab, MeChe_Cnt, queue, me, midx, booked,
               rem, given, reports, known, spilt, deaths>>

Orders     == 1..MaxOrders
TableSlots == 0..(MAX_MICHE - 1)
Proc       == {"MICHE", "LEDGER"}

Nobody == 0
Kinds  == {"new", "modify", "cancel", "expire", "fill"}
Msg    == [kind : Kinds, no : Orders, orig : Orders \union {Nobody},
           qty : 1..Quantity]
NoMsg  == [kind |-> "none"]
Idle   == [pc |-> "idle", msg |-> NoMsg, i |-> 0, reg |-> 0, retry |-> 0]

TableTypeOK ==
  /\ tab \in [TableSlots -> [no : Orders \union {Nobody}, jan : Int]]
  /\ MeChe_Cnt \in Int
  /\ queue \in [Proc -> Seq(Msg)]
  /\ \A p \in Proc :
       \/ me[p] = Idle
       \/ /\ me[p].pc \in {"seek", "count", "jan", "no", "find", "check",
                           "load", "store", "zero", "dec", "book"}
          /\ me[p].msg \in Msg /\ me[p].i \in TableSlots /\ me[p].reg \in Int
          /\ me[p].retry \in 0..(MaxRetry + 1)
  /\ \A p \in Proc : \A h \in DOMAIN midx[p] : midx[p][h].slot \in TableSlots \union {NoSlot}
  /\ booked \in [Orders -> 0..Quantity]
  /\ rem \in [Orders -> 0..Quantity]
  /\ given \in 0..MaxOrders /\ reports \in 0..MaxReports
  /\ known \subseteq Orders
  /\ spilt \in BOOLEAN /\ deaths \in 0..MaxDeaths

\* po_9000_mp has cleared the quantities; nothing has been ordered.  It leaves
\* the numbers of an earlier day in the slots: the exchange is assumed not to
\* give them again, so that they are as good as none.
TableInit ==
  /\ tab = [i \in TableSlots |-> [no |-> Nobody, jan |-> 0]]
  /\ MeChe_Cnt = 0
  /\ queue = [p \in Proc |-> <<>>]
  /\ me = [p \in Proc |-> Idle]
  /\ midx = [p \in Proc |-> Reset]
  /\ booked = [o \in Orders |-> 0]
  /\ rem = [o \in Orders |-> 0]
  /\ given = 0 /\ reports = 0
  /\ known = {}
  /\ spilt = FALSE /\ deaths = 0

-------------------------------------------------------------------------------
(* The exchange (external) *)

Report(p, kind, no, orig, qty) ==
  /\ reports < MaxReports
  /\ reports' = reports + 1
  /\ queue' = [queue EXCEPT ![p] =
                Append(@, [kind |-> kind, no |-> no, orig |-> orig, qty |-> qty])]

Inside == <<table, me, midx, booked, known, spilt, deaths>>

Accept ==
  /\ given < MaxOrders
  /\ given' = given + 1
  /\ rem' = [rem EXCEPT ![given + 1] = Quantity]
  /\ Report("MICHE", "new", given + 1, Nobody, Quantity)
  /\ UNCHANGED Inside

\* A modify leaves the order and makes a new one of the quantity modified.
Modify(o, q) ==
  /\ q <= rem[o]
  /\ given < MaxOrders
  /\ given' = given + 1
  /\ rem' = [rem EXCEPT ![o] = @ - q, ![given + 1] = q]
  /\ Report("MICHE", "modify", given + 1, o, q)
  /\ UNCHANGED Inside

\* A cancel has a number of its own that no slot is registered for.
Cancel(o, q) ==
  /\ q <= rem[o]
  /\ given < MaxOrders
  /\ given' = given + 1
  /\ rem' = [rem EXCEPT ![o] = @ - q]
  /\ Report("MICHE", "cancel", given + 1, o, q)
  /\ UNCHANGED Inside

\* Automatic cancellation of what is left.
Expire(o) ==
  /\ rem[o] > 0
  /\ rem' = [rem EXCEPT ![o] = 0]
  /\ Report("MICHE", "expire", o, Nobody, rem[o])
  /\ UNCHANGED <<Inside, given>>

Fill(o, q) ==
  /\ q <= rem[o]
  /\ rem' = [rem EXCEPT ![o] = @ - q]
  /\ Report("LEDGER", "fill", o, Nobody, q)
  /\ UNCHANGED <<Inside, given>>

Exchange ==
  \/ Accept
  \/ \E o \in Orders : Expire(o)
  \/ \E o \in Orders, q \in 1..Quantity : Modify(o, q) \/ Cancel(o, q) \/ Fill(o, q)

-------------------------------------------------------------------------------
(* SEAM_R and the branch on the message *)

\* Process p at the place r; idle, it has no live locals.
Becomes(p, r) == me' = [me EXCEPT ![p] = IF r.pc = "idle" THEN Idle ELSE r]
Goto(p, place) == Becomes(p, [me[p] EXCEPT !.pc = place])
At(p, place) == me[p].pc = place

\* The bond handler looks for the derivatives' transaction code inside the
\* branch for its own, so that an expiry changes nothing in the table.
FirstPlace(m) ==
  CASE m.kind \in {"new", "modify"} -> "seek"
    [] m.kind = "expire" /\ Bond    -> "idle"
    [] OTHER                        -> "find"

\* SEAM_R of one record, and Analyze_Data goes to its branch.
TakeRecord(p) ==
  /\ At(p, "idle") /\ queue[p] # <<>>
  /\ Becomes(p, [Idle EXCEPT !.pc = FirstPlace(Head(queue[p])),
                             !.msg = Head(queue[p])])
  /\ queue' = [queue EXCEPT ![p] = Tail(@)]
  /\ UNCHANGED <<table, midx, booked, market, known, spilt, deaths>>

-------------------------------------------------------------------------------
(* Registration: MICHE only *)

Local == <<queue, booked, market, spilt, deaths>>

\* The first slot with nothing open; with none it sleeps and looks again.
Seek ==
  LET free == {i \in TableSlots : tab[i].jan <= 0}
  IN /\ At("MICHE", "seek") /\ free # {}
     /\ Becomes("MICHE", [me["MICHE"] EXCEPT !.pc = "count", !.i = Min(free),
                                             !.reg = MeChe_Cnt])
     /\ UNCHANGED <<table, midx, known, Local>>

\* MeChe_Cnt++
Count ==
  /\ At("MICHE", "count")
  /\ MeChe_Cnt' = me["MICHE"].reg + 1
  /\ Becomes("MICHE", [me["MICHE"] EXCEPT !.pc = "jan", !.reg = 0])
  /\ UNCHANGED <<tab, midx, known, Local>>

\* Jan_Cnt first ...
SetJan ==
  /\ At("MICHE", "jan")
  /\ tab' = [tab EXCEPT ![me["MICHE"].i].jan = me["MICHE"].msg.qty]
  /\ Goto("MICHE", "no")
  /\ UNCHANGED <<MeChe_Cnt, midx, known, Local>>

\* ... and the order number after it, which is what others look for.
SetNo ==
  LET m == me["MICHE"].msg
      i == me["MICHE"].i
  IN /\ At("MICHE", "no")
     /\ tab' = [tab EXCEPT ![i].no = m.no]
     /\ midx' = [midx EXCEPT !["MICHE"] = Put(@, m.no, i)]
     /\ known' = known \union {m.no}
     /\ Goto("MICHE", IF m.kind = "modify" THEN "find" ELSE "idle")
     /\ UNCHANGED <<MeChe_Cnt, Local>>

-------------------------------------------------------------------------------
(* Reduction of an order: both processes *)

\* The order a message reduces.
Target(m) == IF m.kind \in {"modify", "cancel"} THEN m.orig ELSE m.no

\* What the scan of the table finds.
Holds(o) == {i \in TableSlots : tab[i].no = o}
Scan(o)  == IF Holds(o) = {} THEN NoSlot ELSE Min(Holds(o))

\* Faulty: the slot in the cache is trusted.
CachedUnchecked(p, o) == Get(midx[p], o)

\* The cache, if the slot it names still holds the order.
Cached(p, o) ==
  LET i == Get(midx[p], o)
  IN IF i # NoSlot /\ tab[i].no = o THEN i ELSE NoSlot

\* Faulty: nothing in the cache, nothing found.
LookupCacheOnly(p, o) == Cached(p, o)

Lookup(p, o) == IF Cached(p, o) # NoSlot THEN Cached(p, o) ELSE Scan(o)

\* Found; what the scan found is put into the cache, but not for an expiry.
Find(p) ==
  LET m == me[p].msg
      o == Target(m)
      i == Lookup(p, o)
  IN /\ At(p, "find") /\ i # NoSlot
     /\ midx' = IF Cached(p, o) = NoSlot /\ m.kind # "expire"
                THEN [midx EXCEPT ![p] = Put(@, o, i)] ELSE midx
     /\ Becomes(p, [me[p] EXCEPT !.i = i, !.retry = 0,
                                 !.pc = IF m.kind = "expire" THEN "load" ELSE "check"])
     /\ UNCHANGED <<table, known, Local>>

NotThere(p) == At(p, "find") /\ Lookup(p, Target(me[p].msg)) = NoSlot

\* Not found: MICHE logs it and is done.
NotFound ==
  /\ NotThere("MICHE")
  /\ spilt' = TRUE
  /\ Goto("MICHE", "idle")
  /\ UNCHANGED <<table, queue, midx, booked, market, known, deaths>>

\* Faulty: looks once more than it may.
RetryOnceMore ==
  /\ NotThere("LEDGER") /\ me["LEDGER"].retry <= MaxRetry + 1
  /\ Becomes("LEDGER", [me["LEDGER"] EXCEPT !.retry = @ + 1])
  /\ UNCHANGED <<table, midx, known, Local>>

\* LEDGER sleeps and looks again, since the response may be on its way ...
Retry ==
  /\ NotThere("LEDGER") /\ me["LEDGER"].retry <= MaxRetry
  /\ Becomes("LEDGER", [me["LEDGER"] EXCEPT !.retry = @ + 1])
  /\ UNCHANGED <<table, midx, known, Local>>

\* Faulty: the count of the retries is put back each time.
GiveUpNever ==
  /\ NotThere("LEDGER") /\ me["LEDGER"].retry > MaxRetry
  /\ Becomes("LEDGER", [me["LEDGER"] EXCEPT !.retry = 0])
  /\ UNCHANGED <<table, midx, known, Local>>

\* ... and gives up at last.
GiveUp ==
  /\ NotThere("LEDGER") /\ me["LEDGER"].retry > MaxRetry
  /\ spilt' = TRUE
  /\ Goto("LEDGER", "idle")
  /\ UNCHANGED <<table, queue, midx, booked, market, known, deaths>>

\* A quantity that is not there is refused, and nothing booked.
Check(p) ==
  /\ At(p, "check")
  /\ Goto(p, IF tab[me[p].i].jan - me[p].msg.qty < 0 THEN "idle" ELSE "load")
  /\ UNCHANGED <<table, midx, known, Local>>

\* Jan_Cnt = Jan_Cnt - quantity
Load(p) ==
  /\ At(p, "load")
  /\ Becomes(p, [me[p] EXCEPT !.pc = "store", !.reg = tab[me[p].i].jan])
  /\ UNCHANGED <<table, midx, known, Local>>

Store(p) ==
  /\ At(p, "store")
  /\ tab' = [tab EXCEPT ![me[p].i].jan = me[p].reg - me[p].msg.qty]
  /\ Becomes(p, [me[p] EXCEPT !.pc = "zero", !.reg = 0])
  /\ UNCHANGED <<MeChe_Cnt, midx, known, Local>>

\* Where a process goes when the table is done with.
Then(p) == IF p = "LEDGER" THEN "book" ELSE "idle"

\* if (Jan_Cnt <= 0), read again ...
Zero(p) ==
  /\ At(p, "zero")
  /\ IF tab[me[p].i].jan <= 0
     THEN Becomes(p, [me[p] EXCEPT !.pc = "dec", !.reg = MeChe_Cnt])
     ELSE Goto(p, Then(p))
  /\ UNCHANGED <<table, midx, known, Local>>

\* ... MeChe_Cnt--
Dec(p) ==
  /\ At(p, "dec")
  /\ MeChe_Cnt' = me[p].reg - 1
  /\ Becomes(p, [me[p] EXCEPT !.pc = Then(p), !.reg = 0])
  /\ UNCHANGED <<tab, midx, known, Local>>

\* Che_Rtn: position and profit.
Che_Rtn ==
  LET m == me["LEDGER"].msg
  IN /\ At("LEDGER", "book")
     /\ booked' = [booked EXCEPT ![m.no] = @ + m.qty]
     /\ Goto("LEDGER", "idle")
     /\ UNCHANGED <<table, queue, midx, market, known, spilt, deaths>>

-------------------------------------------------------------------------------
\* A process dies with the message in its hands and comes back without a cache.
Die(p) ==
  /\ ~At(p, "idle") /\ deaths < MaxDeaths
  /\ deaths' = deaths + 1
  /\ spilt' = TRUE
  /\ midx' = [midx EXCEPT ![p] = Reset]
  /\ Goto(p, "idle")
  /\ UNCHANGED <<table, queue, booked, market, known>>

\* Faulty: the order number before Jan_Cnt.
NumberFirst ==
  LET m == me["MICHE"].msg
      i == me["MICHE"].i
  IN \/ /\ At("MICHE", "jan")
        /\ tab' = [tab EXCEPT ![i].no = m.no]
        /\ known' = known \union {m.no}
        /\ Goto("MICHE", "no")
        /\ UNCHANGED <<MeChe_Cnt, midx, Local>>
     \/ /\ At("MICHE", "no")
        /\ tab' = [tab EXCEPT ![i].jan = m.qty]
        /\ midx' = [midx EXCEPT !["MICHE"] = Put(@, m.no, i)]
        /\ Goto("MICHE", IF m.kind = "modify" THEN "find" ELSE "idle")
        /\ UNCHANGED <<MeChe_Cnt, known, Local>>

MakeNumberFirst == Seek \/ Count \/ NumberFirst \/ NotFound

Make_MiChe == Seek \/ Count \/ SetJan \/ SetNo \/ NotFound
Ledger     == Retry \/ GiveUp \/ Che_Rtn
Step(p)    == \/ TakeRecord(p) \/ Find(p) \/ Check(p)
              \/ Load(p) \/ Store(p) \/ Zero(p) \/ Dec(p)

TableNext == Exchange \/ Make_MiChe \/ Ledger \/ \E p \in Proc : Step(p) \/ Die(p)

TableSpec == TableInit /\ [][TableNext]_tableVars

\* Both processes scan their queues for ever; nothing is asked of the exchange.
TableFairSpec ==
  /\ TableSpec
  /\ WF_tableVars(Make_MiChe \/ Step("MICHE"))
  /\ WF_tableVars(Ledger \/ Step("LEDGER"))

-------------------------------------------------------------------------------
(* Properties *)

\* Messages on the way: those in the queues, and those in the hands of a
\* process that has not stored their effect yet.
InHand(p) == me[p].pc \in {"seek", "count", "jan", "no", "find", "check", "load", "store"}

\* What message m takes from order o.
Taking(m, o) == IF m.kind # "new" /\ Target(m) = o THEN m.qty ELSE 0

Total(w) ==
  LET upto[n \in 0..Len(w)] == IF n = 0 THEN 0 ELSE upto[n - 1] + w[n]
  IN upto[Len(w)]

\* What messages on the way to process p will still take from order o.
Queued(p, o)  == Total([i \in 1..Len(queue[p]) |-> Taking(queue[p][i], o)])
InHands(p, o) == IF InHand(p) THEN Taking(me[p].msg, o) ELSE 0

OnTheWay(o) == Queued("MICHE", o) + InHands("MICHE", o)
               + Queued("LEDGER", o) + InHands("LEDGER", o)

\* The table never shows less of an order than the exchange can still execute:
\* races, late executions, deaths and lost messages err upwards only, so that
\* what depends on the open quantity is never too generous, and the slot of an
\* order is never given away while something of it is on the way.
NeverUnderstated ==
  \A o \in known :
    rem[o] + OnTheWay(o) > 0 =>
      \E i \in Holds(o) : tab[i].jan >= rem[o] + OnTheWay(o)

\* The cache never changes the result of a search: stale, evicted or lost, the
\* validated answer is the slot the scan of the table finds.
LookupExact == \A p \in Proc, o \in Orders : Lookup(p, o) = Scan(o)

\* Both processes get to the end of what they have been sent, unless the table
\* is full of orders for ever: MICHE then waits for a slot which only LEDGER can
\* free, since the cancels are behind the message it holds.
Full == \A i \in TableSlots : tab[i].jan > 0
QueuesDrained ==
  (\A p \in Proc : []<>At(p, "idle")) \/ <>[]Full

\* Everything sent has been worked on, none of it lost.
AtRest == \A p \in Proc : At(p, "idle") /\ queue[p] = <<>>

\* Analyze_Data's comment: what is left of an order is what was left less what
\* has been executed.
JanIsRemaining ==
  AtRest /\ ~spilt => \A o \in known : \A i \in Holds(o) : tab[i].jan = rem[o]
===============================================================================
