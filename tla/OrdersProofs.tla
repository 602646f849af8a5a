---------------------------- MODULE OrdersProofs ----------------------------
(***************************************************************************)
(* Proofs about Orders, for any tickers, orders and number of faults.      *)
(***************************************************************************)
EXTENDS Orders, Sums

-----------------------------------------------------------------------------
(***************************************************************************)
(* What the helpers return.                                                *)
(***************************************************************************)

LEMMA NoAnswerType == NoAnswer \in Answer
BY DEF NoAnswer, Answer, Status

LEMMA NothingCachedType == NothingCached \in [Ticker -> Int]
BY DEF NothingCached

LEMMA FreshType == Fresh \in Trader
BY NothingCachedType, NoAnswerType DEF Fresh, Trader, Stage, Account

\* Reading positions changes the view, the cache and what is resolved.
LEMMA ReadType ==
    ASSUME TypeOK, NEW how \in {"kept", "broker", "ledger"}
    PROVE  /\ Read(how) \in Trader
           /\ Read(how).stage = trader.stage
           /\ Read(how).halted = trader.halted
<1>1. CASE how = "kept"
  BY <1>1 DEF TypeOK, Read
<1>2. CASE how = "broker"
  <2>1. Read(how) = [trader EXCEPT !.view = "broker", !.cached = position, !.resolved = Ticker]
    BY <1>2 DEF Read
  <2> QED  BY <2>1 DEF TypeOK, Trader
<1>3. CASE how = "ledger"
  <2>1. Read(how) = [trader EXCEPT !.view = "ledger", !.cached = NothingCached]
    BY <1>3 DEF Read
  <2> QED  BY <2>1, NothingCachedType DEF TypeOK, Trader
<1> QED  BY <1>1, <1>2, <1>3

LEMMA NextTickerType ==
    ASSUME NEW p \in Trader, NEW t
    PROVE  /\ NextTicker(p, t) \in Trader
           /\ NextTicker(p, t).stage = "cycle"
           /\ NextTicker(p, t).halted = p.halted
<1>1. /\ Done(p) \in Trader
      /\ Done(p).halted = p.halted
  <2> DEFINE q == [p EXCEPT !.ticker = NoTicker, !.lots = 0]
  <2>1. q \in Trader /\ q.halted = p.halted
    <3>1. [p EXCEPT !.lots = 0] \in Trader
      BY DEF Trader
    <3>2. [p EXCEPT !.ticker = NoTicker] \in Trader
      BY DEF Trader
    <3> QED  BY <3>1, <3>2 DEF Trader
  <2>2. [q EXCEPT !.order = 0, !.answer = NoAnswer] \in Trader
    BY <2>1, NoAnswerType DEF Trader
  <2>3. Done(p) = [q EXCEPT !.order = 0, !.answer = NoAnswer]
    BY DEF Done, Trader
  <2> QED  BY <2>1, <2>2, <2>3 DEF Trader
<1>2. "cycle" \in Stage
  BY DEF Stage
<1> QED  BY <1>1, <1>2 DEF NextTicker, Trader

LEMMA AnswersType ==
    ASSUME NEW lots \in Int, NEW a \in Answers(lots)
    PROVE  a \in Answer
<1>1. Parts(lots) \subseteq Int
  BY DEF Parts
<1>2. PICK status \in Status, executed \in Int : a = [status |-> status, executed |-> executed]
  <2>1. CASE a = [status |-> "filled", executed |-> lots]
    BY <2>1 DEF Status, Settled
  <2>2. CASE a \in [status : {"partially_filled"}, executed : Parts(lots)]
    BY <1>1, <2>2 DEF Status
  <2>3. CASE a \in [status : {"refused"}, executed : {0} \cup Parts(lots)]
    BY <1>1, <2>3 DEF Status, Settled
  <2>4. CASE a \in [status : {"new", "unspecified"}, executed : {0}]
    BY <2>4 DEF Status, Pending
  <2> QED  BY <2>1, <2>2, <2>3, <2>4 DEF Answers
<1> QED  BY <1>2 DEF Answer

LEMMA HandledType ==
    ASSUME TypeOK, NEW q \in Process, NEW o, NEW error \in BOOLEAN
    PROVE  Handled(q, o, error) \in [Process -> Recovery]
<1>1. recovery[q] \in Recovery
  BY DEF TypeOK
<1>2. [recovery[q] EXCEPT !.pending = @ \ {o}] \in Recovery
  BY <1>1 DEF Recovery
<1>3. (recovery[q].failed \/ error) \in BOOLEAN
  BY Zenon
<1>4. [recovery[q] EXCEPT !.pending = @ \ {o}, !.failed = @ \/ error] \in Recovery
  BY <1>1, <1>3 DEF Recovery
<1> QED  BY <1>4 DEF TypeOK, Handled

LEMMA NoRecoveryType == NoRecovery \in Recovery
BY DEF NoRecovery, Recovery

LEMMA PositionType ==
    ASSUME NEW p \in [Ticker -> Int], NEW t, NEW lots \in Int
    PROVE  [p EXCEPT ![t] = @ + lots] \in [Ticker -> Int]
<1>1. CASE t \in Ticker
  BY <1>1
<1>2. CASE t \notin Ticker
  <2>1. [p EXCEPT ![t] = @ + lots] = p
    BY <1>2
  <2> QED  BY <2>1
<1> QED  BY <1>1, <1>2

LEMMA RowType ==
    ASSUME NEW status \in Status, NEW lots \in Int
    PROVE  Row(status, lots) \in AuditRow
BY DEF Row, AuditRow

-----------------------------------------------------------------------------
(***************************************************************************)
(* Type correctness.                                                       *)
(***************************************************************************)

LEMMA InitType == Init => TypeOK
<1> SUFFICES ASSUME Init PROVE TypeOK
  OBVIOUS
<1>1. position \in [Ticker -> Int]
  BY DEF Init
<1>2. [at |-> "unsent", executed |-> 0] \in BookEntry
  BY DEF BookEntry
<1>3. book \in [OrderId -> BookEntry]
  BY <1>2 DEF Init
<1>4. [ticker |-> NoTicker, lots |-> 0] \in Request
  BY DEF Request
<1>5. request \in [OrderId -> Request]
  BY <1>4 DEF Init
<1>6. [status |-> "none", lots |-> 0] \in AuditRow
  BY DEF AuditRow, Status
<1>7. rows \in [OrderId -> AuditRow]
  BY <1>6 DEF Init
<1>8. recovery \in [Process -> Recovery]
  BY NoRecoveryType DEF Init
<1>9. switch \in BOOLEAN /\ trader = Fresh /\ trip = "none" /\ faults = 0
  BY Zenon DEF Init
<1> QED
  BY <1>1, <1>3, <1>5, <1>7, <1>8, <1>9, FreshType, LotsAssumption DEF TypeOK, Trip

LEMMA FaultType == TypeOK /\ Fault => faults' \in 0..MaxFaults
BY LotsAssumption DEF TypeOK, Fault

LEMMA ReadsType ==
    ASSUME TypeOK, NEW how, Reads(how)
    PROVE  faults' \in 0..MaxFaults
BY FaultType DEF Reads, TypeOK

\* The actions of the trader between two cycles, and of a trip.
LEMMA CycleTypeStep ==
    ASSUME TypeOK
    PROVE  /\ BeginCycle => TypeOK'
           /\ EndCycle => TypeOK'
           /\ StoreSwitch => TypeOK'
           /\ CancelOpenOrders => TypeOK'
<1>1. ASSUME BeginCycle PROVE TypeOK'
  <2>1. PICK a \in Account :
          trader' = [trader EXCEPT !.stage = "cycle", !.account = a, !.todo = Ticker]
    BY <1>1 DEF BeginCycle
  <2>2. trader' \in Trader
    BY <2>1 DEF TypeOK, Trader, Stage
  <2> QED  BY <1>1, <2>2 DEF TypeOK, BeginCycle
<1>2. ASSUME EndCycle PROVE TypeOK'
  <2>1. [trader EXCEPT !.stage = "idle", !.todo = {}] \in Trader
    BY DEF TypeOK, Trader, Stage
  <2>2. trader' = [[trader EXCEPT !.stage = "idle", !.todo = {}]
                      EXCEPT !.account = "fine", !.view = "stale", !.cached = NothingCached]
    BY <1>2 DEF EndCycle, TypeOK, Trader
  <2>3. trader' \in Trader
    BY <2>1, <2>2, NothingCachedType DEF Trader, Account
  <2> QED  BY <1>2, <2>3, FaultType DEF TypeOK, EndCycle
<1>3. ASSUME StoreSwitch PROVE TypeOK'
  <2>1. trader' \in Trader
    BY <1>3 DEF StoreSwitch, TypeOK, Trader, Stage
  <2> QED  BY <1>3, <2>1, FaultType DEF TypeOK, StoreSwitch, Trip
<1>4. ASSUME CancelOpenOrders PROVE TypeOK'
  <2>1. trader' \in Trader
    BY <1>4, NextTickerType DEF CancelOpenOrders, TypeOK
  <2>2. \A o \in OrderId : [book[o] EXCEPT !.at = "closed"] \in BookEntry
    BY DEF TypeOK, BookEntry
  <2>3. book' \in [OrderId -> BookEntry]
    BY <1>4, <2>2 DEF CancelOpenOrders, TypeOK
  <2> QED  BY <1>4, <2>1, <2>3, FaultType DEF TypeOK, CancelOpenOrders
<1> QED  BY <1>1, <1>2, <1>3, <1>4

\* The actions on one ticker, up to the decision.
LEMMA TickerTypeStep ==
    ASSUME TypeOK, NEW t \in Ticker
    PROVE  /\ Skip(t) => TypeOK'
           /\ TripSwitch(t) => TypeOK'
           /\ Approve(t) => TypeOK'
<1>1. ASSUME Skip(t) PROVE TypeOK'
  <2>1. trader' \in Trader /\ faults' \in 0..MaxFaults
    <3>1. CASE trader' = NextTicker(trader, t) /\ UNCHANGED faults
      BY <3>1, NextTickerType DEF TypeOK
    <3>2. ASSUME NEW how \in {"kept", "broker", "ledger"}, NEW asked \in {{}, {t}},
                 Reads(how),
                 trader' = [NextTicker(Read(how), t) EXCEPT !.resolved = @ \cup asked]
          PROVE  trader' \in Trader /\ faults' \in 0..MaxFaults
      <4>1. NextTicker(Read(how), t) \in Trader
        BY ReadType, NextTickerType
      <4>2. NextTicker(Read(how), t).resolved \cup asked \in SUBSET Ticker
        BY <4>1 DEF Trader
      <4>3. trader' \in Trader
        BY <3>2, <4>1, <4>2 DEF Trader
      <4> QED  BY <3>2, <4>3, ReadsType
    <3> QED  BY <1>1, <3>1, <3>2 DEF Skip
  <2> QED  BY <1>1, <2>1 DEF TypeOK, Skip
<1>2. ASSUME TripSwitch(t) PROVE TypeOK'
  <2>1. ASSUME NEW p \in Trader
        PROVE  [p EXCEPT !.stage = "trip", !.halted = TRUE, !.ticker = t] \in Trader
    BY DEF Trader, Stage
  <2>2. trader' \in Trader /\ faults' \in 0..MaxFaults
    <3>1. CASE /\ trader' = [trader EXCEPT !.stage = "trip", !.halted = TRUE, !.ticker = t]
               /\ UNCHANGED faults
      BY <2>1, <3>1 DEF TypeOK
    <3>2. ASSUME NEW how \in {"kept", "broker", "ledger"}, Reads(how),
                 trader' = [Read(how) EXCEPT !.stage = "trip", !.halted = TRUE, !.ticker = t]
          PROVE  trader' \in Trader /\ faults' \in 0..MaxFaults
      BY <2>1, <3>2, ReadType, ReadsType
    <3> QED  BY <1>2, <3>1, <3>2 DEF TripSwitch
  <2> QED  BY <1>2, <2>2 DEF TypeOK, TripSwitch, Trip
<1>3. ASSUME Approve(t) PROVE TypeOK'
  <2>1. PICK how \in {"kept", "broker", "ledger"}, delta \in Int \ {0} :
          /\ Reads(how)
          /\ trader' = [Read(how) EXCEPT !.stage = "intent", !.ticker = t, !.lots = delta,
                                         !.resolved = @ \cup {t}]
    BY <1>3 DEF Approve
  <2>2. [Read(how) EXCEPT !.stage = "intent", !.ticker = t] \in Trader
    <3>1. "intent" \in Stage
      BY DEF Stage
    <3>2. ASSUME NEW p \in Trader
          PROVE  [p EXCEPT !.stage = "intent", !.ticker = t] \in Trader
      BY <3>1 DEF Trader
    <3>3. Read(how) \in Trader
      BY ReadType
    <3> QED  BY <3>2, <3>3
  <2>3. trader' = [[Read(how) EXCEPT !.stage = "intent", !.ticker = t]
                      EXCEPT !.lots = delta, !.resolved = @ \cup {t}]
    BY <2>1, ReadType DEF Trader
  <2>4. trader' \in Trader
    BY <2>2, <2>3 DEF Trader
  <2> QED  BY <1>3, <2>1, <2>4, ReadsType DEF TypeOK, Approve
<1> QED  BY <1>1, <1>2, <1>3

\* The three steps of an order.
LEMMA OrderTypeStep ==
    ASSUME TypeOK
    PROVE  /\ RecordIntent => TypeOK'
           /\ PostOrder => TypeOK'
           /\ RecordAnswer => TypeOK'
<1>0. NextTicker(trader, trader.ticker) \in Trader
  BY NextTickerType DEF TypeOK
<1>1. ASSUME RecordIntent PROVE TypeOK'
  <2>1. CASE Fault /\ trader' = NextTicker(trader, trader.ticker) /\ UNCHANGED <<request, rows>>
    BY <1>0, <1>1, <2>1, FaultType DEF TypeOK, RecordIntent
  <2>2. ASSUME NEW o \in Unused,
               request' = [request EXCEPT ![o] = [ticker |-> trader.ticker,
                                                  lots |-> trader.lots]],
               rows' = [rows EXCEPT ![o] = Row("requires_reconciliation", 0)],
               trader' = [trader EXCEPT !.stage = "post", !.order = o],
               UNCHANGED faults
        PROVE  TypeOK'
    <3>1. o \in Int
      BY OrderIdAssumption DEF Unused
    <3>2. trader' \in Trader
      <4>1. [trader EXCEPT !.stage = "post"] \in Trader
        BY DEF TypeOK, Trader, Stage
      <4>2. trader' = [[trader EXCEPT !.stage = "post"] EXCEPT !.order = o]
        BY <2>2 DEF TypeOK, Trader
      <4> QED  BY <3>1, <4>1, <4>2 DEF Trader
    <3>3. rows' \in [OrderId -> AuditRow]
      <4>1. "requires_reconciliation" \in Status
        BY DEF Status, Pending
      <4>2. Row("requires_reconciliation", 0) \in AuditRow
        BY <4>1, RowType
      <4> QED  BY <2>2, <4>2 DEF TypeOK
    <3>4. request' \in [OrderId -> Request]
      <4>1. [ticker |-> trader.ticker, lots |-> trader.lots] \in Request
        BY DEF TypeOK, Trader, Request
      <4> QED  BY <2>2, <4>1 DEF TypeOK
    <3> QED  BY <1>1, <2>2, <3>2, <3>3, <3>4 DEF TypeOK, RecordIntent
  <2> QED  BY <1>1, <2>1, <2>2 DEF RecordIntent
<1>2. ASSUME PostOrder PROVE TypeOK'
  <2>1. CASE Fault /\ trader' = NextTicker(trader, trader.ticker) /\ UNCHANGED broker
    BY <1>0, <1>2, <2>1, FaultType DEF TypeOK, PostOrder, broker
  <2>2. ASSUME NEW a \in Answers(trader.lots), Accept(trader.order, a),
               \/ trader' = [trader EXCEPT !.stage = "record", !.answer = a] /\ UNCHANGED faults
               \/ Fault /\ trader' = NextTicker(trader, trader.ticker)
        PROVE  TypeOK'
    <3>1. a \in Answer
      BY AnswersType DEF TypeOK, Trader
    <3>2. a.executed \in Int
      BY <3>1 DEF Answer
    <3>3. /\ book' \in [OrderId -> BookEntry]
          /\ position' \in [Ticker -> Int]
      <4>1. position' \in [Ticker -> Int]
        BY <2>2, <3>2, PositionType DEF Accept, TypeOK
      <4>2. [at |-> IF a.status \in {"filled", "refused"} THEN "closed" ELSE "open",
             executed |-> a.executed] \in BookEntry
        BY <3>2 DEF BookEntry
      <4>3. book' \in [OrderId -> BookEntry]
        BY <2>2, <4>2 DEF Accept, TypeOK
      <4> QED  BY <4>1, <4>3
    <3>4. trader' \in Trader
      BY <1>0, <2>2, <3>1 DEF TypeOK, Trader, Stage
    <3>5. faults' \in 0..MaxFaults
      BY <2>2, FaultType DEF TypeOK
    <3> QED  BY <1>2, <3>3, <3>4, <3>5 DEF TypeOK, PostOrder
  <2> QED  BY <1>2, <2>1, <2>2 DEF PostOrder
<1>3. ASSUME RecordAnswer PROVE TypeOK'
  <2>1. RowFor(trader.answer) \in AuditRow
    BY RowType DEF TypeOK, Trader, Answer, RowFor
  <2>2. rows' \in [OrderId -> AuditRow]
    BY <1>3, <2>1 DEF RecordAnswer, TypeOK
  <2> QED  BY <1>0, <1>3, <2>2, FaultType DEF TypeOK, RecordAnswer
<1> QED  BY <1>1, <1>2, <1>3

\* A recovery, in either process.
LEMMA RecoveryTypeStep ==
    ASSUME TypeOK, NEW q \in Process
    PROVE  /\ ListPending(q) => recovery' \in [Process -> Recovery]
           /\ ListOpen(q) => TypeOK'
           /\ \A o \in OrderId : Recover(q, o) => TypeOK'
           /\ EndRecovery(q) => recovery' \in [Process -> Recovery]
<1>1. ASSUME ListPending(q) PROVE recovery' \in [Process -> Recovery]
  <2>1. [NoRecovery EXCEPT !.stage = "listed",
                           !.pending = {o \in OrderId : rows[o].status \in Recoverable}]
          \in Recovery
    BY NoRecoveryType DEF Recovery
  <2> QED  BY <1>1, <2>1 DEF ListPending, TypeOK
<1>2. ASSUME ListOpen(q) PROVE TypeOK'
  <2>1. recovery' = [recovery EXCEPT ![q] =
                       [recovery[q] EXCEPT !.stage = "cancelling",
                                           !.open = {o \in OrderId : book[o].at = "open"}]]
    BY <1>2 DEF ListOpen, TypeOK, Recovery
  <2>2. [recovery[q] EXCEPT !.stage = "cancelling",
                            !.open = {o \in OrderId : book[o].at = "open"}] \in Recovery
    BY DEF TypeOK, Recovery
  <2>3. recovery' \in [Process -> Recovery]
    BY <2>1, <2>2 DEF TypeOK
  <2> QED  BY <1>2, <2>3 DEF ListOpen, TypeOK
<1>3. ASSUME NEW o \in OrderId, Recover(q, o) PROVE TypeOK'
  <2>1. recovery' \in [Process -> Recovery]
    BY <1>3, HandledType DEF Recover
  <2>2. book' \in [OrderId -> BookEntry]
    BY <1>3 DEF Recover, TypeOK, BookEntry
  <2>3. {"cancelled_on_recovery", "closed_on_recovery"} \subseteq Status
    BY DEF Status, Settled
  <2>4. rows' \in [OrderId -> AuditRow]
    <3>1. \A status \in {"cancelled_on_recovery", "closed_on_recovery"} :
            Row(status, 0) \in AuditRow
      BY <2>3, RowType
    <3> QED  BY <1>3, <3>1 DEF Recover, TypeOK
  <2>5. faults' \in 0..MaxFaults
    BY <1>3, FaultType DEF Recover, TypeOK
  <2>6. UNCHANGED <<position, request, switch, trader, trip>>
    BY <1>3 DEF Recover
  <2> QED  BY <2>1, <2>2, <2>4, <2>5, <2>6 DEF TypeOK
<1>4. ASSUME EndRecovery(q) PROVE recovery' \in [Process -> Recovery]
  BY <1>4, NoRecoveryType DEF EndRecovery, TypeOK
<1> QED  BY <1>1, <1>2, <1>3, <1>4

\* Starting and ending processes, and the broker.
LEMMA ProcessTypeStep ==
    ASSUME TypeOK
    PROVE  /\ StartTrader => TypeOK'
           /\ TraderReady => TypeOK'
           /\ Crash => TypeOK'
           /\ StartReset => TypeOK'
           /\ EndReset => TypeOK'
           /\ \A o \in OrderId : Execute(o) \/ Expire(o) => TypeOK'
<1>0. "trader" \in Process /\ "reset" \in Process
  BY DEF Process
<1>1. ASSUME StartTrader PROVE TypeOK'
  <2>1. trader' \in Trader
    BY <1>1, FreshType DEF StartTrader, Trader, Stage
  <2> QED  BY <1>0, <1>1, <2>1, RecoveryTypeStep DEF StartTrader, TypeOK
<1>2. ASSUME TraderReady PROVE TypeOK'
  <2>1. trader' \in Trader
    BY <1>2, FreshType DEF TraderReady, TypeOK, Trader, Stage
  <2> QED  BY <1>0, <1>2, <2>1, RecoveryTypeStep DEF TraderReady, TypeOK
<1>3. ASSUME Crash PROVE TypeOK'
  BY <1>0, <1>3, FreshType, NoRecoveryType, FaultType DEF Crash, TypeOK, Trip
<1>4. ASSUME StartReset PROVE TypeOK'
  BY <1>0, <1>4, RecoveryTypeStep DEF StartReset, TypeOK
<1>5. ASSUME EndReset PROVE TypeOK'
  BY <1>0, <1>5, RecoveryTypeStep DEF EndReset, TypeOK, Trip
<1>6. ASSUME NEW o \in OrderId, Execute(o) PROVE TypeOK'
  <2> DEFINE lot  == IF request[o].lots > 0 THEN 1 ELSE -1
             done == book[o].executed + lot
  <2>1. lot \in Int /\ done \in Int
    BY DEF TypeOK, BookEntry
  <2>2. [at |-> IF done = request[o].lots THEN "closed" ELSE "open", executed |-> done]
          \in BookEntry
    BY <2>1 DEF BookEntry
  <2>3. book' \in [OrderId -> BookEntry]
    BY <1>6, <2>2 DEF Execute, TypeOK
  <2>4. position' = [position EXCEPT ![request[o].ticker] = @ + lot]
    BY <1>6 DEF Execute
  <2>5. position' \in [Ticker -> Int]
    BY <2>1, <2>4, PositionType DEF TypeOK
  <2> QED  BY <1>6, <2>3, <2>5 DEF Execute, TypeOK
<1>7. ASSUME NEW o \in OrderId, Expire(o) PROVE TypeOK'
  BY <1>7 DEF Expire, TypeOK, BookEntry
<1> QED  BY <1>1, <1>2, <1>3, <1>4, <1>5, <1>6, <1>7

LEMMA TypeStep == TypeOK /\ [Next]_vars => TypeOK'
<1> SUFFICES ASSUME TypeOK, [Next]_vars PROVE TypeOK'
  OBVIOUS
<1>1. CASE UNCHANGED vars
  BY <1>1 DEF TypeOK, vars
<1> QED
  BY <1>1, CycleTypeStep, TickerTypeStep, OrderTypeStep, RecoveryTypeStep, ProcessTypeStep DEF Next

(***************************************************************************)
(* The state of the trader, the reset, the store and the broker always has *)
(* its types.                                                              *)
(***************************************************************************)
THEOREM OrdersTypeCorrect == Spec => []TypeOK
BY InitType, TypeStep, PTL DEF Spec

-----------------------------------------------------------------------------
(***************************************************************************)
(* The kill switch.  SwitchInv and RecoveryInv depend on the trader only   *)
(* through its stage and its flag, so each action is first reduced to what *)
(* it does to these.                                                       *)
(***************************************************************************)

LEMMA SwitchInit == Init => SwitchInv /\ RecoveryInv
BY DEF Init, SwitchInv, RecoveryInv, Ordering, Fresh, NoRecovery, Process

LEMMA HandledStages ==
    ASSUME TypeOK, NEW q \in Process, NEW o, NEW error
    PROVE  \A r \in Process : Handled(q, o, error)[r].stage = recovery[r].stage
BY DEF TypeOK, Handled, Recovery

\* The actions that touch neither the switch nor the recoveries and keep the
\* flag: what they have to do to the stage.
LEMMA QuietStep ==
    ASSUME SwitchInv, RecoveryInv, UNCHANGED <<switch, recovery, trip>>,
           trader'.halted = trader.halted,
           \/ trader'.stage = trader.stage
           \/ /\ trader.stage \in {"idle", "cycle", "intent", "post", "record", "cancel"}
              /\ trader'.stage \in {"idle", "cycle"}
           \/ Ordering /\ Ordering'
    PROVE  SwitchInv' /\ RecoveryInv'
BY DEF SwitchInv, RecoveryInv, Ordering

LEMMA SwitchCycleStep ==
    ASSUME TypeOK, SwitchInv, RecoveryInv
    PROVE  /\ BeginCycle => SwitchInv' /\ RecoveryInv'
           /\ EndCycle => SwitchInv' /\ RecoveryInv'
           /\ StoreSwitch => SwitchInv' /\ RecoveryInv'
           /\ CancelOpenOrders => SwitchInv' /\ RecoveryInv'
<1>1. ASSUME BeginCycle PROVE SwitchInv' /\ RecoveryInv'
  BY <1>1, QuietStep DEF BeginCycle, TypeOK, Trader
<1>2. ASSUME EndCycle PROVE SwitchInv' /\ RecoveryInv'
  BY <1>2, QuietStep DEF EndCycle, TypeOK, Trader
<1>3. ASSUME StoreSwitch PROVE SwitchInv' /\ RecoveryInv'
  <2>1. trader'.halted = trader.halted /\ trader'.stage = "cancel" /\ trader.stage = "trip"
    BY <1>3 DEF StoreSwitch, TypeOK, Trader
  <2>2. ~Ordering' /\ UNCHANGED recovery
    BY <1>3, <2>1 DEF StoreSwitch, Ordering
  <2>3. CASE switch' = TRUE /\ trip' = "stored"
    BY <2>1, <2>2, <2>3 DEF SwitchInv, RecoveryInv
  <2>4. CASE UNCHANGED <<switch, trip>>
    BY <2>1, <2>2, <2>4 DEF SwitchInv, RecoveryInv
  <2> QED  BY <1>3, <2>3, <2>4 DEF StoreSwitch
<1>4. ASSUME CancelOpenOrders PROVE SwitchInv' /\ RecoveryInv'
  <2>1. trader' = NextTicker(trader, trader.ticker) /\ trader.stage = "cancel"
    BY <1>4 DEF CancelOpenOrders
  <2>2. UNCHANGED <<switch, recovery, trip>>
    BY <1>4 DEF CancelOpenOrders
  <2> QED  BY <2>1, <2>2, QuietStep, NextTickerType DEF TypeOK
<1> QED  BY <1>1, <1>2, <1>3, <1>4

LEMMA SwitchTickerStep ==
    ASSUME TypeOK, SwitchInv, RecoveryInv, NEW t \in Ticker
    PROVE  /\ Skip(t) => SwitchInv' /\ RecoveryInv'
           /\ TripSwitch(t) => SwitchInv' /\ RecoveryInv'
           /\ Approve(t) => SwitchInv' /\ RecoveryInv'
<1>1. ASSUME Skip(t) PROVE SwitchInv' /\ RecoveryInv'
  <2>1. trader'.stage = "cycle" /\ trader'.halted = trader.halted
    <3>1. CASE trader' = NextTicker(trader, t)
      BY <3>1, NextTickerType DEF TypeOK
    <3>2. ASSUME NEW how \in {"kept", "broker", "ledger"}, NEW asked,
                 trader' = [NextTicker(Read(how), t) EXCEPT !.resolved = @ \cup asked]
          PROVE  trader'.stage = "cycle" /\ trader'.halted = trader.halted
      BY <3>2, ReadType, NextTickerType DEF Trader
    <3> QED  BY <1>1, <3>1, <3>2 DEF Skip
  <2>2. trader.stage = "cycle" /\ UNCHANGED <<switch, recovery, trip>>
    BY <1>1 DEF Skip, Considers
  <2> QED  BY <2>1, <2>2, QuietStep
<1>2. ASSUME TripSwitch(t) PROVE SwitchInv' /\ RecoveryInv'
  <2>1. trader'.stage = "trip" /\ trader'.halted
    <3>1. ASSUME NEW p \in Trader,
                 trader' = [p EXCEPT !.stage = "trip", !.halted = TRUE, !.ticker = t]
          PROVE  trader'.stage = "trip" /\ trader'.halted
      BY <3>1 DEF Trader
    <3> QED  BY <1>2, <3>1, ReadType DEF TripSwitch, TypeOK
  <2>2. trader.stage = "cycle" /\ trip' = "memory" /\ UNCHANGED <<switch, recovery>>
    BY <1>2 DEF TripSwitch, Considers
  <2> QED  BY <2>1, <2>2 DEF SwitchInv, RecoveryInv, Ordering
<1>3. ASSUME Approve(t) PROVE SwitchInv' /\ RecoveryInv'
  <2>1. /\ trader.stage = "cycle" /\ ~switch /\ ~trader.halted
        /\ UNCHANGED <<switch, recovery, trip>>
    BY <1>3 DEF Approve, Considers, Approved, KillSwitchActive
  <2>2. trip \notin {"memory", "stored"}
    BY <2>1 DEF SwitchInv
  <2>3. trader'.stage = "intent"
    BY <1>3, ReadType DEF Approve, Trader
  <2> QED  BY <2>1, <2>2, <2>3 DEF SwitchInv, RecoveryInv, Ordering
<1> QED  BY <1>1, <1>2, <1>3

LEMMA SwitchOrderStep ==
    ASSUME TypeOK, SwitchInv, RecoveryInv
    PROVE  /\ RecordIntent => SwitchInv' /\ RecoveryInv'
           /\ PostOrder => SwitchInv' /\ RecoveryInv'
           /\ RecordAnswer => SwitchInv' /\ RecoveryInv'
<1>0. /\ NextTicker(trader, trader.ticker).stage = "cycle"
      /\ NextTicker(trader, trader.ticker).halted = trader.halted
  BY NextTickerType DEF TypeOK
<1>1. ASSUME RecordIntent PROVE SwitchInv' /\ RecoveryInv'
  <2>1. /\ trader'.stage \in {"cycle", "post"} /\ trader'.halted = trader.halted
        /\ trader.stage = "intent" /\ UNCHANGED <<switch, recovery, trip>>
    BY <1>0, <1>1 DEF RecordIntent, TypeOK, Trader
  <2> QED  BY <2>1, QuietStep DEF Ordering
<1>2. ASSUME PostOrder PROVE SwitchInv' /\ RecoveryInv'
  <2>1. /\ trader'.stage \in {"cycle", "record"} /\ trader'.halted = trader.halted
        /\ trader.stage = "post" /\ UNCHANGED <<switch, recovery, trip>>
    BY <1>0, <1>2 DEF PostOrder, TypeOK, Trader
  <2> QED  BY <2>1, QuietStep DEF Ordering
<1>3. ASSUME RecordAnswer PROVE SwitchInv' /\ RecoveryInv'
  <2>1. /\ trader'.stage = "cycle" /\ trader'.halted = trader.halted
        /\ trader.stage = "record" /\ UNCHANGED <<switch, recovery, trip>>
    BY <1>0, <1>3 DEF RecordAnswer
  <2> QED  BY <2>1, QuietStep
<1> QED  BY <1>1, <1>2, <1>3

\* A recovery goes on; it starts or ends with its process, below.
LEMMA SwitchRecoveryStep ==
    ASSUME TypeOK, SwitchInv, RecoveryInv, NEW q \in Process
    PROVE  /\ ListOpen(q) => SwitchInv' /\ RecoveryInv'
           /\ \A o \in OrderId : Recover(q, o) => SwitchInv' /\ RecoveryInv'
<1>0. ASSUME UNCHANGED <<switch, trader, trip>>,
             \A r \in Process : (recovery'[r].stage = "off") = (recovery[r].stage = "off")
      PROVE  SwitchInv' /\ RecoveryInv'
  BY <1>0 DEF SwitchInv, RecoveryInv, Ordering, Process
<1>1. ASSUME ListOpen(q) PROVE SwitchInv' /\ RecoveryInv'
  <2>1. \A r \in Process : (recovery'[r].stage = "off") = (recovery[r].stage = "off")
    BY <1>1 DEF ListOpen, TypeOK, Recovery
  <2> QED  BY <1>0, <1>1, <2>1 DEF ListOpen
<1>2. ASSUME NEW o \in OrderId, Recover(q, o) PROVE SwitchInv' /\ RecoveryInv'
  <2>1. \A r \in Process : recovery'[r].stage = recovery[r].stage
    <3>1. PICK error \in BOOLEAN : recovery' = Handled(q, o, error)
      BY <1>2 DEF Recover
    <3> QED  BY <3>1, HandledStages
  <2> QED  BY <1>0, <1>2, <2>1 DEF Recover
<1> QED  BY <1>1, <1>2

LEMMA SwitchProcessStep ==
    ASSUME TypeOK, SwitchInv, RecoveryInv
    PROVE  /\ StartTrader => SwitchInv' /\ RecoveryInv'
           /\ TraderReady => SwitchInv' /\ RecoveryInv'
           /\ Crash => SwitchInv' /\ RecoveryInv'
           /\ StartReset => SwitchInv' /\ RecoveryInv'
           /\ EndReset => SwitchInv' /\ RecoveryInv'
           /\ \A o \in OrderId : Execute(o) \/ Expire(o) => SwitchInv' /\ RecoveryInv'
<1>1. ASSUME StartTrader PROVE SwitchInv' /\ RecoveryInv'
  <2>1. trader'.stage = "recovering" /\ trader.stage = "down"
    BY <1>1, FreshType DEF StartTrader, Trader
  <2>2. recovery'["reset"] = recovery["reset"] /\ UNCHANGED <<switch, trip>>
    BY <1>1 DEF StartTrader, ListPending, TypeOK, Process
  <2> QED  BY <2>1, <2>2 DEF SwitchInv, RecoveryInv, Ordering
<1>2. ASSUME TraderReady PROVE SwitchInv' /\ RecoveryInv'
  <2>1. trader.stage = "recovering" /\ trader'.stage \in {"down", "idle"}
    BY <1>2 DEF TraderReady, EndRecovery, RecoveryInv, Fresh, TypeOK, Trader
  <2>2. /\ recovery'["trader"].stage = "off" /\ recovery'["reset"] = recovery["reset"]
        /\ UNCHANGED <<switch, trip>>
    BY <1>2 DEF TraderReady, EndRecovery, TypeOK, Process, NoRecovery
  <2> QED  BY <2>1, <2>2 DEF SwitchInv, RecoveryInv, Ordering
<1>3. ASSUME Crash PROVE SwitchInv' /\ RecoveryInv'
  <2>1. trader'.stage = "down" /\ trip' # "memory" /\ (trip' = "stored" => trip = "stored")
    BY <1>3 DEF Crash, Fresh
  <2>2. /\ recovery'["trader"].stage = "off" /\ recovery'["reset"] = recovery["reset"]
        /\ UNCHANGED switch
    BY <1>3 DEF Crash, TypeOK, Process, NoRecovery
  <2> QED  BY <2>1, <2>2 DEF SwitchInv, RecoveryInv, Ordering
<1>4. ASSUME StartReset PROVE SwitchInv' /\ RecoveryInv'
  <2>1. recovery'["trader"] = recovery["trader"] /\ UNCHANGED <<switch, trader, trip>>
    BY <1>4 DEF StartReset, ListPending, TypeOK, Process
  <2>2. switch \/ ResetAnyTime
    BY <1>4 DEF StartReset
  <2> QED  BY <2>1, <2>2 DEF SwitchInv, RecoveryInv, Ordering
<1>5. ASSUME EndReset PROVE SwitchInv' /\ RecoveryInv'
  <2>1. /\ recovery'["reset"].stage = "off" /\ recovery'["trader"] = recovery["trader"]
        /\ UNCHANGED trader
    BY <1>5 DEF EndReset, EndRecovery, TypeOK, Process, NoRecovery
  <2>2. CASE switch' = FALSE /\ trip' = "none"
    BY <2>1, <2>2 DEF SwitchInv, RecoveryInv, Ordering
  <2>3. CASE UNCHANGED <<switch, trip>>
    BY <2>1, <2>3 DEF SwitchInv, RecoveryInv, Ordering
  <2> QED  BY <1>5, <2>2, <2>3 DEF EndReset
<1>6. ASSUME NEW o \in OrderId, Execute(o) \/ Expire(o) PROVE SwitchInv' /\ RecoveryInv'
  <2>1. UNCHANGED <<switch, trader, recovery, trip>>
    BY <1>6 DEF Execute, Expire
  <2> QED  BY <2>1 DEF SwitchInv, RecoveryInv, Ordering
<1> QED  BY <1>1, <1>2, <1>3, <1>4, <1>5, <1>6

LEMMA OrdersInvStep == OrdersInv /\ [Next]_vars => OrdersInv'
<1> SUFFICES ASSUME OrdersInv, [Next]_vars PROVE OrdersInv'
  OBVIOUS
<1>1. TypeOK /\ SwitchInv /\ RecoveryInv
  BY DEF OrdersInv
<1>2. TypeOK'
  BY <1>1, TypeStep
<1>3. SwitchInv' /\ RecoveryInv'
  <2>1. CASE UNCHANGED vars
    BY <1>1, <2>1 DEF SwitchInv, RecoveryInv, Ordering, vars
  <2> QED
    BY <1>1, <2>1, SwitchCycleStep, SwitchTickerStep, SwitchOrderStep,
       SwitchRecoveryStep, SwitchProcessStep DEF Next
<1> QED  BY <1>2, <1>3 DEF OrdersInv

(***************************************************************************)
(* A trip, the stored switch and the orders under way always relate as     *)
(* SwitchInv says, and no recovery meets an order under way unless the     *)
(* operator resets a switch that is not on.                                *)
(***************************************************************************)
THEOREM OrdersInvariant == Spec => []OrdersInv
<1>1. Init => OrdersInv
  BY InitType, SwitchInit DEF OrdersInv
<1> QED  BY <1>1, OrdersInvStep, PTL DEF Spec

\* Only PostOrder sends.
LEMMA OnlyPostSends == TypeOK /\ [Next]_vars /\ Sends => PostOrder
<1> SUFFICES ASSUME TypeOK, [Next]_vars, ~PostOrder,
                    NEW o \in OrderId, book[o].at = "unsent"
             PROVE  book'[o].at = "unsent"
  BY DEF Sends
<1>1. CASE UNCHANGED book
  BY <1>1
<1>2. CASE CancelOpenOrders
  BY <1>2 DEF CancelOpenOrders
<1>3. ASSUME NEW q \in Process, NEW i \in OrderId, Recover(q, i)
      PROVE  book'[o].at = "unsent"
  BY <1>3 DEF Recover, TypeOK, BookEntry
<1>4. ASSUME NEW i \in OrderId, Execute(i) \/ Expire(i)
      PROVE  book'[o].at = "unsent"
  BY <1>4 DEF Execute, Expire, TypeOK, BookEntry
<1>5. \/ UNCHANGED book
      \/ CancelOpenOrders
      \/ \E q \in Process, i \in OrderId : Recover(q, i)
      \/ \E i \in OrderId : Execute(i) \/ Expire(i)
  BY DEF Next, vars, BeginCycle, EndCycle, Skip, TripSwitch, StoreSwitch, Approve,
         RecordIntent, RecordAnswer, ListOpen, StartTrader, TraderReady, Crash,
         StartReset, EndReset
<1> QED  BY <1>1, <1>2, <1>3, <1>4, <1>5

(***************************************************************************)
(* From a trip to its reset no order is sent, whatever crashes, unless the *)
(* switch could not be stored and the process that remembered it died.     *)
(* This holds however many orders, tickers and faults there are, and also  *)
(* when resets come at any time.                                           *)
(***************************************************************************)
THEOREM TripStopsTrading == Spec => SwitchStopsTrading
<1>1. OrdersInv /\ [Next]_vars => [(trip \in {"memory", "stored"}) => ~Sends]_vars
  <2> SUFFICES ASSUME OrdersInv, [Next]_vars, trip \in {"memory", "stored"}, Sends
               PROVE  FALSE
    OBVIOUS
  <2>1. PostOrder
    BY OnlyPostSends DEF OrdersInv
  <2>2. Ordering
    BY <2>1 DEF PostOrder, Ordering
  <2> QED  BY <2>2 DEF OrdersInv, SwitchInv
<1> QED  BY <1>1, OrdersInvariant, PTL DEF Spec, SwitchStopsTrading

-----------------------------------------------------------------------------
(***************************************************************************)
(* Recorded fills.  A row is written by the trader for its order under     *)
(* way, which nobody else touches, or by a recovery that listed it while   *)
(* it was pending; so neither ever meets a fill.                           *)
(***************************************************************************)
Untouched == Pending \cup {"cancelled_on_recovery", "closed_on_recovery"}

RowInv ==
    /\ \A o \in OrderId : request[o].lots = 0 => rows[o].status = "none"
    /\ trader.stage = "intent" => trader.lots # 0
    /\ trader.stage \in {"post", "record"} =>
          /\ trader.order \in OrderId
          /\ rows[trader.order].status = "requires_reconciliation"
    /\ \A q \in Process :
          /\ recovery[q].stage = "off" => recovery[q].pending = {}
          /\ \A o \in recovery[q].pending : rows[o].status \in Untouched

LEMMA RowInit == Init => RowInv
BY DEF Init, RowInv, Fresh, NoRecovery

\* Most actions: the rows stay, and so do the recoveries.
LEMMA RowFrame ==
    ASSUME RowInv, UNCHANGED <<request, rows>>,
           trader'.stage \notin {"intent", "post", "record"} \/ UNCHANGED trader,
           \A q \in Process :
              \/ recovery'[q] = recovery[q]
              \/ recovery'[q] = NoRecovery
              \/ /\ recovery'[q].stage # "off"
                 /\ recovery[q].stage # "off"
                 /\ recovery'[q].pending = recovery[q].pending
              \/ /\ recovery'[q].stage # "off"
                 /\ recovery'[q].pending = {o \in OrderId : rows[o].status \in Recoverable}
    PROVE  RowInv'
<1>1. \A q \in Process :
        /\ recovery'[q].stage = "off" => recovery'[q].pending = {}
        /\ \A o \in recovery'[q].pending : rows'[o].status \in Untouched
  BY DEF RowInv, NoRecovery, Recoverable, Untouched
<1>2. \/ trader' = trader
      \/ trader'.stage \notin {"intent", "post", "record"}
  OBVIOUS
<1> QED  BY <1>1, <1>2 DEF RowInv

LEMMA RowRecoverStep ==
    ASSUME TypeOK, RecoveryInv, SwitchInv, RowInv, ~ResetAnyTime,
           NEW q \in Process, NEW o \in OrderId, Recover(q, o)
    PROVE  RowInv' /\ KeepsFills
<1>1. /\ o \in recovery[q].pending /\ rows[o].status \in Untouched
      /\ recovery[q].stage = "cancelling" /\ UNCHANGED <<request, trader>>
  BY DEF Recover, RowInv
<1>2. ~Ordering
  BY <1>1 DEF RecoveryInv, SwitchInv, Ordering, Process
<1>3. PICK error \in BOOLEAN : recovery' = Handled(q, o, error)
  BY DEF Recover
<1>4. \A r \in Process : /\ recovery'[r].stage = recovery[r].stage
                         /\ recovery'[r].pending \subseteq recovery[r].pending
  BY <1>3 DEF Handled, TypeOK, Recovery
<1>5. \/ UNCHANGED rows
      \/ /\ \A i \in OrderId : i # o => rows'[i] = rows[i]
         /\ rows'[o].status \in Untouched
  <2>1. \/ UNCHANGED rows
        \/ \E status \in {"cancelled_on_recovery", "closed_on_recovery"} :
              rows' = [rows EXCEPT ![o] = Row(status, 0)]
    BY DEF Recover
  <2>2. ASSUME NEW status \in {"cancelled_on_recovery", "closed_on_recovery"},
               rows' = [rows EXCEPT ![o] = Row(status, 0)]
        PROVE  /\ \A i \in OrderId : i # o => rows'[i] = rows[i]
               /\ rows'[o].status \in Untouched
    BY <2>2 DEF TypeOK, Row, Untouched
  <2> QED  BY <2>1, <2>2
<1>6. rows[o].status # "filled" /\ request[o].lots # 0
  BY <1>1 DEF Untouched, Pending, RowInv
<1>7. KeepsFills
  BY <1>5, <1>6 DEF KeepsFills
<1>8. \A i \in OrderId : request'[i].lots = 0 => rows'[i].status = "none"
  BY <1>1, <1>5, <1>6 DEF RowInv
<1>9. \A r \in Process :
        /\ recovery'[r].stage = "off" => recovery'[r].pending = {}
        /\ \A i \in recovery'[r].pending : rows'[i].status \in Untouched
  <2> SUFFICES ASSUME NEW r \in Process
               PROVE  /\ recovery'[r].stage = "off" => recovery'[r].pending = {}
                      /\ \A i \in recovery'[r].pending : rows'[i].status \in Untouched
    OBVIOUS
  <2>1. recovery[r].pending \subseteq OrderId
    BY DEF TypeOK, Recovery
  <2> QED  BY <1>4, <1>5, <2>1 DEF RowInv
<1> QED  BY <1>1, <1>2, <1>7, <1>8, <1>9 DEF RowInv, Ordering

\* While an order is under way nothing is being recovered.
LEMMA NothingPending ==
    ASSUME SwitchInv, RecoveryInv, RowInv, ~ResetAnyTime, Ordering, NEW q \in Process
    PROVE  recovery[q].pending = {}
BY DEF SwitchInv, RecoveryInv, RowInv, Ordering, Process

LEMMA RowOrderStep ==
    ASSUME TypeOK, RecoveryInv, SwitchInv, RowInv, ~ResetAnyTime
    PROVE  /\ RecordIntent => RowInv' /\ KeepsFills
           /\ PostOrder => RowInv' /\ KeepsFills
           /\ RecordAnswer => RowInv' /\ KeepsFills
<1>0. NextTicker(trader, trader.ticker).stage = "cycle"
  BY NextTickerType DEF TypeOK
<1>1. ASSUME RecordIntent PROVE RowInv' /\ KeepsFills
  <2>1. UNCHANGED recovery /\ trader.stage = "intent" /\ trader.lots # 0
    BY <1>1 DEF RecordIntent, RowInv
  <2>2. CASE trader' = NextTicker(trader, trader.ticker) /\ UNCHANGED <<request, rows>>
    BY <1>0, <2>1, <2>2, RowFrame DEF KeepsFills
  <2>3. ASSUME NEW o \in Unused,
               request' = [request EXCEPT ![o] = [ticker |-> trader.ticker,
                                                  lots |-> trader.lots]],
               rows' = [rows EXCEPT ![o] = Row("requires_reconciliation", 0)],
               trader' = [trader EXCEPT !.stage = "post", !.order = o]
        PROVE  RowInv' /\ KeepsFills
    <3>1. o \in OrderId /\ request[o].lots = 0 /\ rows[o].status = "none"
      BY DEF Unused, RowInv
    <3>2. /\ \A i \in OrderId : i # o => rows'[i] = rows[i] /\ request'[i] = request[i]
          /\ rows'[o].status = "requires_reconciliation"
          /\ request'[o].lots = trader.lots
      BY <2>3, <3>1 DEF TypeOK, Row
    <3>3. trader'.stage = "post" /\ trader'.order = o
      BY <2>3 DEF TypeOK, Trader
    <3>4. KeepsFills
      BY <3>1, <3>2 DEF KeepsFills
    <3>5. \A q \in Process : recovery'[q].pending = {}
      BY <2>1, NothingPending DEF Ordering
    <3> QED  BY <2>1, <3>1, <3>2, <3>3, <3>4, <3>5 DEF RowInv
  <2> QED  BY <1>1, <2>2, <2>3 DEF RecordIntent
<1>2. ASSUME PostOrder PROVE RowInv' /\ KeepsFills
  <2>1. UNCHANGED <<request, rows, recovery>> /\ trader.stage = "post"
    BY <1>2 DEF PostOrder
  <2>2. \/ trader' = NextTicker(trader, trader.ticker)
        \/ trader'.stage = "record" /\ trader'.order = trader.order
    BY <1>2 DEF PostOrder, TypeOK, Trader
  <2>3. CASE trader' = NextTicker(trader, trader.ticker)
    BY <1>0, <2>1, <2>3, RowFrame DEF KeepsFills
  <2>4. CASE trader'.stage = "record" /\ trader'.order = trader.order
    BY <2>1, <2>4 DEF RowInv, KeepsFills
  <2> QED  BY <2>2, <2>3, <2>4
<1>3. ASSUME RecordAnswer PROVE RowInv' /\ KeepsFills
  <2> DEFINE o == trader.order
  <2>1. /\ o \in OrderId /\ rows[o].status = "requires_reconciliation"
        /\ trader'.stage = "cycle" /\ UNCHANGED <<request, recovery>>
    BY <1>0, <1>3 DEF RecordAnswer, RowInv
  <2>2. \A i \in OrderId : i # o => rows'[i] = rows[i]
    BY <1>3 DEF RecordAnswer, TypeOK
  <2>3. \A q \in Process : recovery'[q].pending = {}
    BY <1>3, <2>1, NothingPending DEF RecordAnswer, Ordering
  <2>4. request[o].lots # 0
    BY <2>1 DEF RowInv
  <2>5. KeepsFills
    BY <2>1, <2>2 DEF KeepsFills
  <2> QED  BY <2>1, <2>2, <2>3, <2>4, <2>5 DEF RowInv
<1> QED  BY <1>1, <1>2, <1>3

\* Where the actions of a cycle leave the trader.
LEMMA StageAfterCycle ==
    ASSUME TypeOK
    PROVE  /\ BeginCycle => trader'.stage = "cycle"
           /\ EndCycle => trader'.stage = "idle"
           /\ StoreSwitch => trader'.stage = "cancel"
           /\ CancelOpenOrders => trader'.stage = "cycle"
           /\ \A t \in Ticker : /\ Skip(t) => trader'.stage = "cycle"
                                /\ TripSwitch(t) => trader'.stage = "trip"
                                /\ Approve(t) => trader'.stage = "intent" /\ trader'.lots # 0
<1>1. BeginCycle => trader'.stage = "cycle"
  BY DEF BeginCycle, TypeOK, Trader
<1>2. EndCycle => trader'.stage = "idle"
  BY DEF EndCycle, TypeOK, Trader
<1>3. StoreSwitch => trader'.stage = "cancel"
  BY DEF StoreSwitch, TypeOK, Trader
<1>4. CancelOpenOrders => trader'.stage = "cycle"
  BY NextTickerType DEF CancelOpenOrders, TypeOK
<1>5. ASSUME NEW t \in Ticker, Skip(t) PROVE trader'.stage = "cycle"
  <2>1. CASE trader' = NextTicker(trader, t)
    BY <2>1, NextTickerType DEF TypeOK
  <2>2. ASSUME NEW how \in {"kept", "broker", "ledger"}, NEW asked,
               trader' = [NextTicker(Read(how), t) EXCEPT !.resolved = @ \cup asked]
        PROVE  trader'.stage = "cycle"
    BY <2>2, ReadType, NextTickerType DEF Trader
  <2> QED  BY <1>5, <2>1, <2>2 DEF Skip
<1>6. ASSUME NEW t \in Ticker, TripSwitch(t) PROVE trader'.stage = "trip"
  <2>1. ASSUME NEW p \in Trader,
               trader' = [p EXCEPT !.stage = "trip", !.halted = TRUE, !.ticker = t]
        PROVE  trader'.stage = "trip"
    BY <2>1 DEF Trader
  <2> QED  BY <1>6, <2>1, ReadType DEF TripSwitch, TypeOK
<1>7. ASSUME NEW t \in Ticker, Approve(t) PROVE trader'.stage = "intent" /\ trader'.lots # 0
  <2>1. PICK how \in {"kept", "broker", "ledger"}, delta \in Int \ {0} :
          trader' = [Read(how) EXCEPT !.stage = "intent", !.ticker = t, !.lots = delta,
                                      !.resolved = @ \cup {t}]
    BY <1>7 DEF Approve
  <2> QED  BY <2>1, ReadType DEF Trader
<1> QED  BY <1>1, <1>2, <1>3, <1>4, <1>5, <1>6, <1>7

LEMMA RowCycleStep ==
    ASSUME TypeOK, RowInv,
           \/ BeginCycle \/ EndCycle \/ StoreSwitch \/ CancelOpenOrders
           \/ \E t \in Ticker : Skip(t) \/ TripSwitch(t) \/ Approve(t)
    PROVE  RowInv' /\ KeepsFills
<1>1. UNCHANGED <<request, rows, recovery>>
  BY DEF BeginCycle, EndCycle, StoreSwitch, CancelOpenOrders, Skip, TripSwitch, Approve
<1>2. CASE \E t \in Ticker : Approve(t)
  <2>1. trader'.stage = "intent" /\ trader'.lots # 0
    BY <1>2, StageAfterCycle
  <2> QED  BY <1>1, <2>1 DEF RowInv, KeepsFills
<1>3. CASE ~\E t \in Ticker : Approve(t)
  <2>1. trader'.stage \notin {"intent", "post", "record"}
    BY <1>3, StageAfterCycle
  <2> QED  BY <1>1, <2>1, RowFrame DEF KeepsFills
<1> QED  BY <1>2, <1>3

LEMMA RowProcessStep ==
    ASSUME TypeOK, RowInv
    PROVE  /\ StartTrader => RowInv' /\ KeepsFills
           /\ TraderReady => RowInv' /\ KeepsFills
           /\ Crash => RowInv' /\ KeepsFills
           /\ StartReset => RowInv' /\ KeepsFills
           /\ EndReset => RowInv' /\ KeepsFills
           /\ \A q \in Process : ListOpen(q) => RowInv' /\ KeepsFills
           /\ \A o \in OrderId : Execute(o) \/ Expire(o) => RowInv' /\ KeepsFills
<1>0. ASSUME UNCHANGED <<request, rows>>,
             trader'.stage \notin {"intent", "post", "record"} \/ UNCHANGED trader,
             NEW q \in Process,
             \A r \in Process \ {q} : recovery'[r] = recovery[r],
             \/ recovery'[q] = recovery[q]
             \/ recovery'[q] = NoRecovery
             \/ /\ recovery'[q].stage # "off"
                /\ recovery[q].stage # "off"
                /\ recovery'[q].pending = recovery[q].pending
             \/ /\ recovery'[q].stage # "off"
                /\ recovery'[q].pending = {o \in OrderId : rows[o].status \in Recoverable}
      PROVE  RowInv' /\ KeepsFills
  BY <1>0, RowFrame DEF KeepsFills
<1>1. "trader" \in Process /\ "reset" \in Process
  BY DEF Process
<1>2. ASSUME NEW q \in Process, ListPending(q)
      PROVE  /\ \A r \in Process \ {q} : recovery'[r] = recovery[r]
             /\ recovery'[q].stage # "off"
             /\ recovery'[q].pending = {o \in OrderId : rows[o].status \in Recoverable}
  BY <1>2 DEF ListPending, TypeOK, NoRecovery
<1>3. ASSUME NEW q \in Process, EndRecovery(q)
      PROVE  /\ \A r \in Process \ {q} : recovery'[r] = recovery[r]
             /\ recovery'[q] = NoRecovery
  BY <1>3 DEF EndRecovery, TypeOK
<1>4. Fresh.stage = "down"
  BY DEF Fresh
<1>5. ASSUME StartTrader PROVE RowInv' /\ KeepsFills
  <2>1. trader'.stage = "recovering"
    BY <1>5, FreshType DEF StartTrader, Trader
  <2> QED  BY <1>0, <1>1, <1>2, <1>5, <2>1 DEF StartTrader
<1>6. ASSUME TraderReady PROVE RowInv' /\ KeepsFills
  <2>1. trader'.stage \in {"down", "idle"}
    BY <1>4, <1>6 DEF TraderReady, TypeOK, Trader
  <2> QED  BY <1>0, <1>1, <1>3, <1>6, <2>1 DEF TraderReady
<1>7. ASSUME Crash PROVE RowInv' /\ KeepsFills
  <2>1. /\ \A r \in Process \ {"trader"} : recovery'[r] = recovery[r]
        /\ recovery'["trader"] = NoRecovery
    BY <1>1, <1>7 DEF Crash, TypeOK
  <2> QED  BY <1>0, <1>1, <1>4, <1>7, <2>1 DEF Crash
<1>8. ASSUME StartReset PROVE RowInv' /\ KeepsFills
  BY <1>0, <1>1, <1>2, <1>8 DEF StartReset
<1>9. ASSUME EndReset PROVE RowInv' /\ KeepsFills
  BY <1>0, <1>1, <1>3, <1>9 DEF EndReset
<1>10. ASSUME NEW q \in Process, ListOpen(q) PROVE RowInv' /\ KeepsFills
  <2>1. /\ \A r \in Process \ {q} : recovery'[r] = recovery[r]
        /\ recovery[q].stage # "off" /\ recovery'[q].stage # "off"
        /\ recovery'[q].pending = recovery[q].pending
    BY <1>10 DEF ListOpen, TypeOK, Recovery
  <2> QED  BY <1>0, <1>10, <2>1 DEF ListOpen
<1>11. ASSUME NEW o \in OrderId, Execute(o) \/ Expire(o) PROVE RowInv' /\ KeepsFills
  <2>1. UNCHANGED <<request, rows, trader, recovery>>
    BY <1>11 DEF Execute, Expire
  <2> QED  BY <1>0, <1>1, <2>1
<1> QED  BY <1>5, <1>6, <1>7, <1>8, <1>9, <1>10, <1>11

LEMMA RowStep ==
    ASSUME ~ResetAnyTime
    PROVE  OrdersInv /\ RowInv /\ [Next]_vars => RowInv' /\ [KeepsFills]_vars
<1> SUFFICES ASSUME OrdersInv, RowInv, [Next]_vars PROVE RowInv' /\ [KeepsFills]_vars
  OBVIOUS
<1>1. TypeOK /\ SwitchInv /\ RecoveryInv
  BY DEF OrdersInv
<1>2. CASE UNCHANGED vars
  BY <1>2 DEF RowInv, vars
<1>3. CASE Next
  <2>1. RowInv' /\ KeepsFills
    BY <1>1, <1>3, RowCycleStep, RowOrderStep, RowProcessStep, RowRecoverStep DEF Next
  <2> QED  BY <2>1
<1> QED  BY <1>2, <1>3

(***************************************************************************)
(* A recorded fill is never taken back, through any crashes, restarts and  *)
(* resets, as long as nobody resets a switch that is not on.               *)
(***************************************************************************)
THEOREM RecordedFillsStay ==
    ASSUME ~ResetAnyTime
    PROVE  Spec => FillsStay
<1>1. Init => RowInv
  BY RowInit
<1>2. OrdersInv /\ RowInv /\ [Next]_vars => RowInv' /\ [KeepsFills]_vars
  BY RowStep
<1> QED  BY <1>1, <1>2, OrdersInvariant, PTL DEF Spec, FillsStay

-----------------------------------------------------------------------------
(***************************************************************************)
(* Stray orders.  An order that is open has a row that is not settled:     *)
(* the row is written before the order is sent, an answer that settles it  *)
(* says that the broker has closed it, and a recovery settles what it has  *)
(* cancelled or did not find open.                                         *)
(***************************************************************************)
StrayInv ==
    /\ NoStrayOrder
    /\ \A o \in OrderId : request[o].lots = 0 => book[o].at = "unsent"
    /\ trader.stage = "post" => book[trader.order].at = "unsent"
    /\ trader.stage = "record" =>
          /\ trader.answer.status \in {"filled", "partially_filled", "refused", "new", "unspecified"}
          /\ trader.answer.status \in {"filled", "refused"} => book[trader.order].at = "closed"
    /\ \A q \in Process :
          recovery[q].stage = "cancelling" =>
             \A o \in recovery[q].pending \ recovery[q].open : book[o].at # "open"

LEMMA StrayInit == Init => StrayInv
BY DEF Init, StrayInv, NoStrayOrder, Fresh, NoRecovery

\* The broker only closes orders.
Closes(o) ==
    \/ book'[o].at = book[o].at
    \/ book[o].at = "open" /\ book'[o].at = "closed"

\* Actions that write no row, send no order and open no recovery's list.
LEMMA StrayFrame ==
    ASSUME TypeOK, RowInv, StrayInv, UNCHANGED <<request, rows>>, \A o \in OrderId : Closes(o),
           trader'.stage \notin {"post", "record"} \/ UNCHANGED trader,
           \A q \in Process : recovery'[q] = recovery[q] \/ recovery'[q].stage # "cancelling"
    PROVE  StrayInv'
<1>1. NoStrayOrder'
  BY DEF StrayInv, NoStrayOrder, Closes
<1>2. \A o \in OrderId : request'[o].lots = 0 => book'[o].at = "unsent"
  BY DEF StrayInv, Closes
<1>3. trader'.stage \in {"post", "record"} => UNCHANGED trader /\ trader.order \in OrderId
  BY DEF RowInv
<1>4. /\ trader'.stage = "post" => book'[trader'.order].at = "unsent"
      /\ trader'.stage = "record" =>
            /\ trader'.answer.status \in {"filled", "partially_filled", "refused", "new", "unspecified"}
            /\ trader'.answer.status \in {"filled", "refused"} => book'[trader'.order].at = "closed"
  BY <1>3 DEF StrayInv, Closes
<1>5. ASSUME NEW q \in Process, recovery'[q].stage = "cancelling",
             NEW o \in recovery'[q].pending \ recovery'[q].open
      PROVE  book'[o].at # "open"
  <2>1. recovery'[q] = recovery[q] /\ o \in OrderId
    BY <1>5 DEF TypeOK, Recovery
  <2> QED  BY <1>5, <2>1 DEF StrayInv, Closes
<1> QED  BY <1>1, <1>2, <1>4, <1>5 DEF StrayInv

LEMMA StrayRecoverStep ==
    ASSUME TypeOK, SwitchInv, RecoveryInv, RowInv, StrayInv, ~ResetAnyTime,
           NEW q \in Process, NEW o \in OrderId, Recover(q, o)
    PROVE  StrayInv'
<1>1. /\ o \in recovery[q].pending /\ recovery[q].stage = "cancelling"
      /\ UNCHANGED <<request, trader>>
  BY DEF Recover
<1>2. ~Ordering
  BY <1>1 DEF RecoveryInv, SwitchInv, Ordering, Process
<1>3. \A i \in OrderId : Closes(i)
  <2>1. CASE UNCHANGED book
    BY <2>1 DEF Closes
  <2>2. CASE book' = [book EXCEPT ![o].at = "closed"] /\ book[o].at = "open"
    BY <2>2 DEF TypeOK, BookEntry, Closes
  <2> QED  BY <2>1, <2>2 DEF Recover
<1>4. book'[o].at = "open" => UNCHANGED rows
  <2>1. CASE UNCHANGED rows
    BY <2>1
  <2>2. CASE ~UNCHANGED rows
    <3>1. book' = IF o \in recovery[q].open THEN [book EXCEPT ![o].at = "closed"] ELSE book
      BY <2>2 DEF Recover
    <3>2. o \notin recovery[q].open => book[o].at # "open"
      BY <1>1 DEF StrayInv
    <3> QED  BY <3>1, <3>2 DEF TypeOK, BookEntry
  <2> QED  BY <2>1, <2>2
<1>5. \A i \in OrderId : i # o => rows'[i] = rows[i]
  BY DEF Recover, TypeOK
<1>6. NoStrayOrder'
  BY <1>3, <1>4, <1>5 DEF StrayInv, NoStrayOrder, Closes
<1>7. \A i \in OrderId : request'[i].lots = 0 => book'[i].at = "unsent"
  BY <1>1, <1>3 DEF StrayInv, Closes
<1>8. PICK error \in BOOLEAN : recovery' = Handled(q, o, error)
  BY DEF Recover
<1>9. \A r \in Process : /\ recovery'[r].stage = recovery[r].stage
                         /\ recovery'[r].open = recovery[r].open
                         /\ recovery'[r].pending \subseteq recovery[r].pending
  BY <1>8 DEF Handled, TypeOK, Recovery
<1>10. ASSUME NEW r \in Process, recovery'[r].stage = "cancelling",
              NEW i \in recovery'[r].pending \ recovery'[r].open
       PROVE  book'[i].at # "open"
  <2>1. i \in recovery[r].pending \ recovery[r].open /\ recovery[r].stage = "cancelling"
    BY <1>9, <1>10
  <2>2. i \in OrderId
    BY <2>1 DEF TypeOK, Recovery
  <2> QED  BY <1>3, <2>1, <2>2 DEF StrayInv, Closes
<1> QED  BY <1>1, <1>2, <1>6, <1>7, <1>10 DEF StrayInv, Ordering

LEMMA StrayOrderStep ==
    ASSUME TypeOK, SwitchInv, RecoveryInv, RowInv, StrayInv, ~ResetAnyTime
    PROVE  /\ RecordIntent => StrayInv'
           /\ PostOrder => StrayInv'
           /\ RecordAnswer => StrayInv'
<1> DEFINE o == trader.order
<1>0. NextTicker(trader, trader.ticker).stage = "cycle"
  BY NextTickerType DEF TypeOK
<1>1. ASSUME RecordIntent PROVE StrayInv'
  <2>1. UNCHANGED <<book, recovery>> /\ trader.stage = "intent"
    BY <1>1 DEF RecordIntent
  <2>2. CASE trader' = NextTicker(trader, trader.ticker) /\ UNCHANGED <<request, rows>>
    <3>1. \A i \in OrderId : Closes(i)
      BY <2>1 DEF Closes
    <3> QED  BY <1>0, <2>1, <2>2, <3>1, StrayFrame
  <2>3. ASSUME NEW i \in Unused,
               request' = [request EXCEPT ![i] = [ticker |-> trader.ticker,
                                                  lots |-> trader.lots]],
               rows' = [rows EXCEPT ![i] = Row("requires_reconciliation", 0)],
               trader' = [trader EXCEPT !.stage = "post", !.order = i]
        PROVE  StrayInv'
    <3>1. i \in OrderId /\ book[i].at = "unsent"
      BY DEF Unused, StrayInv
    <3>2. \A j \in OrderId : j # i => rows'[j] = rows[j] /\ request'[j] = request[j]
      BY <2>3 DEF TypeOK
    <3>3. trader'.stage = "post" /\ trader'.order = i
      BY <2>3 DEF TypeOK, Trader
    <3> QED  BY <2>1, <3>1, <3>2, <3>3 DEF StrayInv, NoStrayOrder
  <2> QED  BY <1>1, <2>2, <2>3 DEF RecordIntent
<1>2. ASSUME PostOrder PROVE StrayInv'
  <2>1. /\ UNCHANGED <<request, rows, recovery>> /\ trader.stage = "post"
        /\ o \in OrderId /\ rows[o].status = "requires_reconciliation"
        /\ request[o].lots # 0
    BY <1>2 DEF PostOrder, RowInv
  <2>2. \A q \in Process : recovery[q].pending = {}
    BY <2>1, NothingPending DEF Ordering
  <2>3. CASE trader' = NextTicker(trader, trader.ticker) /\ UNCHANGED book
    <3>1. \A i \in OrderId : Closes(i)
      BY <2>3 DEF Closes
    <3> QED  BY <1>0, <2>1, <2>3, <3>1, StrayFrame
  <2>4. ASSUME NEW a \in Answers(trader.lots), Accept(o, a),
               \/ trader' = [trader EXCEPT !.stage = "record", !.answer = a]
               \/ trader' = NextTicker(trader, trader.ticker)
        PROVE  StrayInv'
    <3>1. /\ \A i \in OrderId : i # o => book'[i] = book[i]
          /\ a.status \in {"filled", "refused"} => book'[o].at = "closed"
      BY <2>1, <2>4 DEF Accept, TypeOK
    <3>2. a.status \in {"filled", "partially_filled", "refused", "new", "unspecified"}
      BY DEF Answers
    <3>3. NoStrayOrder'
      BY <2>1, <3>1 DEF StrayInv, NoStrayOrder, Settled
    <3>4. \A i \in OrderId : request'[i].lots = 0 => book'[i].at = "unsent"
      BY <2>1, <3>1 DEF StrayInv
    <3>5. \/ trader'.stage = "cycle"
          \/ trader'.stage = "record" /\ trader'.order = o /\ trader'.answer = a
      BY <1>0, <2>4 DEF TypeOK, Trader
    <3> QED  BY <2>1, <2>2, <3>1, <3>2, <3>3, <3>4, <3>5 DEF StrayInv
  <2> QED  BY <1>2, <2>3, <2>4 DEF PostOrder, broker
<1>3. ASSUME RecordAnswer PROVE StrayInv'
  <2>1. /\ UNCHANGED <<book, request, recovery>> /\ trader.stage = "record" /\ o \in OrderId
        /\ trader'.stage = "cycle"
    BY <1>0, <1>3 DEF RecordAnswer, RowInv
  <2>2. /\ \A i \in OrderId : i # o => rows'[i] = rows[i]
        /\ rows'[o] = rows[o] \/ rows'[o].status = trader.answer.status
    BY <1>3 DEF RecordAnswer, TypeOK, RowFor, Row
  <2>3. NoStrayOrder'
    BY <2>1, <2>2 DEF StrayInv, NoStrayOrder, Settled
  <2> QED  BY <2>1, <2>3 DEF StrayInv
<1> QED  BY <1>1, <1>2, <1>3

LEMMA StrayStep ==
    ASSUME ~ResetAnyTime
    PROVE  OrdersInv /\ RowInv /\ StrayInv /\ [Next]_vars => StrayInv'
<1> SUFFICES ASSUME OrdersInv, RowInv, StrayInv, [Next]_vars PROVE StrayInv'
  OBVIOUS
<1>1. TypeOK /\ SwitchInv /\ RecoveryInv
  BY DEF OrdersInv
<1>2. CASE UNCHANGED vars
  BY <1>2 DEF StrayInv, NoStrayOrder, vars
<1>3. CASE \/ BeginCycle \/ EndCycle \/ StoreSwitch \/ CancelOpenOrders
           \/ \E t \in Ticker : Skip(t) \/ TripSwitch(t) \/ Approve(t)
  <2>1. UNCHANGED <<request, rows, recovery>>
    BY <1>3 DEF BeginCycle, EndCycle, StoreSwitch, CancelOpenOrders, Skip, TripSwitch, Approve
  <2>2. trader'.stage \notin {"post", "record"}
    BY <1>1, <1>3, StageAfterCycle
  <2>3. \A o \in OrderId : Closes(o)
    <3>1. CASE CancelOpenOrders
      BY <1>1, <3>1 DEF CancelOpenOrders, Closes, TypeOK, BookEntry
    <3>2. CASE UNCHANGED book
      BY <3>2 DEF Closes
    <3> QED  BY <1>3, <3>1, <3>2 DEF BeginCycle, EndCycle, StoreSwitch, Skip, TripSwitch, Approve
  <2> QED  BY <1>1, <2>1, <2>2, <2>3, StrayFrame
<1>4. CASE RecordIntent \/ PostOrder \/ RecordAnswer
  BY <1>1, <1>4, StrayOrderStep
<1>5. CASE StartTrader \/ TraderReady \/ Crash \/ StartReset \/ EndReset
  <2>1. UNCHANGED <<book, request, rows>>
    BY <1>5 DEF StartTrader, TraderReady, Crash, StartReset, EndReset
  <2>2. trader'.stage \notin {"post", "record"} \/ UNCHANGED trader
    BY <1>1, <1>5, FreshType DEF StartTrader, TraderReady, Crash, StartReset, EndReset,
                                 Fresh, TypeOK, Trader
  <2>3. \A q \in Process : recovery'[q] = recovery[q] \/ recovery'[q].stage # "cancelling"
    <3>1. ASSUME NEW p \in Process, ListPending(p) \/ EndRecovery(p)
          PROVE  \A q \in Process : recovery'[q] = recovery[q] \/ recovery'[q].stage # "cancelling"
      <4>1. NoRecovery.stage = "off"
        BY DEF NoRecovery
      <4>2. CASE ListPending(p)
        BY <1>1, <4>2, NoRecoveryType DEF ListPending, TypeOK, Recovery
      <4>3. CASE EndRecovery(p)
        BY <1>1, <4>1, <4>3 DEF EndRecovery, TypeOK
      <4> QED  BY <3>1, <4>2, <4>3
    <3>2. CASE Crash
      BY <1>1, <3>2 DEF Crash, TypeOK, NoRecovery
    <3>3. "trader" \in Process /\ "reset" \in Process
      BY DEF Process
    <3> QED  BY <1>5, <3>1, <3>2, <3>3 DEF StartTrader, TraderReady, StartReset, EndReset
  <2>4. \A o \in OrderId : Closes(o)
    BY <2>1 DEF Closes
  <2> QED  BY <1>1, <2>1, <2>2, <2>3, <2>4, StrayFrame
<1>6. ASSUME NEW q \in Process, ListOpen(q) PROVE StrayInv'
  <2>1. UNCHANGED <<book, request, rows, trader>>
    BY <1>6 DEF ListOpen
  <2>2. /\ \A r \in Process \ {q} : recovery'[r] = recovery[r]
        /\ recovery'[q].open = {o \in OrderId : book[o].at = "open"}
        /\ recovery'[q].pending \subseteq OrderId
    BY <1>1, <1>6 DEF ListOpen, TypeOK, Recovery
  <2> QED  BY <2>1, <2>2 DEF StrayInv, NoStrayOrder
<1>7. ASSUME NEW q \in Process, NEW o \in OrderId, Recover(q, o) PROVE StrayInv'
  BY <1>1, <1>7, StrayRecoverStep
<1>8. ASSUME NEW i \in OrderId, Execute(i) \/ Expire(i) PROVE StrayInv'
  <2>1. UNCHANGED <<request, rows, trader, recovery>>
    BY <1>8 DEF Execute, Expire
  <2>2. \A o \in OrderId : Closes(o)
    BY <1>1, <1>8 DEF Execute, Expire, Closes, TypeOK, BookEntry
  <2> QED  BY <1>1, <2>1, <2>2, StrayFrame
<1> QED  BY <1>2, <1>3, <1>4, <1>5, <1>6, <1>7, <1>8 DEF Next

(***************************************************************************)
(* No order is ever left open at the broker under a row that is settled    *)
(* or missing, whatever calls and writes fail and whenever the trader      *)
(* dies, as long as nobody resets a switch that is not on.                 *)
(***************************************************************************)
THEOREM NoOrderStrays ==
    ASSUME ~ResetAnyTime
    PROVE  Spec => []NoStrayOrder
<1>1. Init => RowInv /\ StrayInv
  BY RowInit, StrayInit
<1>2. OrdersInv /\ RowInv /\ [Next]_vars => RowInv' /\ [KeepsFills]_vars
  BY RowStep
<1>3. OrdersInv /\ RowInv /\ StrayInv /\ [Next]_vars => StrayInv'
  BY StrayStep
<1>4. StrayInv => NoStrayOrder
  BY DEF StrayInv
<1> QED  BY <1>1, <1>2, <1>3, <1>4, OrdersInvariant, PTL DEF Spec

-----------------------------------------------------------------------------
(***************************************************************************)
(* The ledger.  What an order executed only grows, in its own direction,   *)
(* up to what it asked for; and a row holds what some answer reported.     *)
(***************************************************************************)
LedgerInv ==
    /\ LedgerNeverAhead
    /\ \A o \in OrderId : /\ Within(book[o].executed, request[o].lots)
                          /\ book[o].at = "unsent" => book[o].executed = 0
                          /\ book[o].at = "open" => book[o].executed # request[o].lots
    /\ trader.stage = "post" => request[trader.order].lots = trader.lots
    /\ trader.stage = "record" =>
          Within(RowFor(trader.answer).lots, book[trader.order].executed)

LEMMA LedgerInit == Init => LedgerInv
BY DEF Init, LedgerInv, LedgerNeverAhead, Within, Fresh

LEMMA WithinGrows ==
    ASSUME NEW a \in Int, NEW b \in Int, NEW c \in Int, Within(a, b), Within(b, c)
    PROVE  Within(a, c)
BY DEF Within

LEMMA RowForLots ==
    ASSUME NEW a \in Answer
    PROVE  /\ RowFor(a).lots = IF a.status \in {"filled", "partially_filled"}
                               THEN a.executed ELSE 0
           /\ RowFor(a).lots \in Int
BY DEF RowFor, Row, Answer

\* Actions that write no row and leave what was asked for and executed alone.
LEMMA LedgerFrame ==
    ASSUME TypeOK, RowInv, LedgerInv, UNCHANGED <<request, rows>>,
           \A o \in OrderId : Closes(o) /\ book'[o].executed = book[o].executed,
           trader'.stage \notin {"post", "record"} \/ UNCHANGED trader
    PROVE  LedgerInv'
<1>1. LedgerNeverAhead'
  BY DEF LedgerInv, LedgerNeverAhead
<1>2. \A o \in OrderId : /\ Within(book'[o].executed, request'[o].lots)
                         /\ book'[o].at = "unsent" => book'[o].executed = 0
                         /\ book'[o].at = "open" => book'[o].executed # request'[o].lots
  BY DEF LedgerInv, Closes
<1>3. trader'.stage \in {"post", "record"} => UNCHANGED trader /\ trader.order \in OrderId
  BY DEF RowInv
<1>4. /\ trader'.stage = "post" => request'[trader'.order].lots = trader'.lots
      /\ trader'.stage = "record" =>
            Within(RowFor(trader'.answer).lots, book'[trader'.order].executed)
  BY <1>3 DEF LedgerInv
<1> QED  BY <1>1, <1>2, <1>4 DEF LedgerInv

\* One more lot brings an open order closer to what it asked for.
LEMMA OneMoreLot ==
    ASSUME NEW e \in Int, NEW lots \in Int, Within(e, lots), e # lots
    PROVE  LET lot == IF lots > 0 THEN 1 ELSE -1
           IN /\ Within(e + lot, lots)
              /\ Within(e, e + lot)
BY DEF Within

LEMMA LedgerExecuteStep ==
    ASSUME TypeOK, RowInv, LedgerInv, NEW i \in OrderId, Execute(i)
    PROVE  LedgerInv'
<1> DEFINE lot  == IF request[i].lots > 0 THEN 1 ELSE -1
           done == book[i].executed + lot
<1>1. UNCHANGED <<request, rows, trader>> /\ book[i].at = "open"
  BY DEF Execute
<1>2. book' = [book EXCEPT ![i] =
                 [at |-> IF done = request[i].lots THEN "closed" ELSE "open",
                  executed |-> done]]
  BY DEF Execute
<1>3. /\ \A o \in OrderId : o # i => book'[o] = book[o]
      /\ book'[i].executed = done
      /\ book'[i].at # "unsent"
      /\ book'[i].at = "open" => done # request[i].lots
  BY <1>2 DEF TypeOK
<1>4. \A o \in OrderId : /\ book[o].executed \in Int /\ request[o].lots \in Int
                         /\ rows[o].lots \in Int
  BY DEF TypeOK, BookEntry, Request, AuditRow
<1>5. Within(done, request[i].lots) /\ Within(book[i].executed, done) /\ done \in Int
  BY <1>1, <1>4, OneMoreLot DEF LedgerInv
<1> HIDE DEF done
<1>6. \A o \in OrderId : /\ Within(book[o].executed, book'[o].executed)
                         /\ book'[o].executed \in Int
  BY <1>3, <1>4, <1>5 DEF Within
<1>7. LedgerNeverAhead'
  BY <1>1, <1>4, <1>6, WithinGrows DEF LedgerInv, LedgerNeverAhead
<1>8. \A o \in OrderId : /\ Within(book'[o].executed, request'[o].lots)
                         /\ book'[o].at = "unsent" => book'[o].executed = 0
                         /\ book'[o].at = "open" => book'[o].executed # request'[o].lots
  BY <1>1, <1>3, <1>5 DEF LedgerInv
<1>9. trader.stage = "record" =>
        Within(RowFor(trader.answer).lots, book'[trader.order].executed)
  BY <1>4, <1>6, WithinGrows, RowForLots DEF LedgerInv, RowInv, TypeOK, Trader
<1> QED  BY <1>1, <1>7, <1>8, <1>9 DEF LedgerInv

\* What an answer reports is a part of the order, and less than it while open.
LEMMA AnswerWithin ==
    ASSUME NEW lots \in Int \ {0}, NEW a \in Answers(lots)
    PROVE  /\ Within(a.executed, lots)
           /\ a.status \notin {"filled", "refused"} => a.executed # lots
<1>1. \A k \in Parts(lots) : Within(k, lots) /\ k # lots
  BY DEF Parts, Abs, Within
<1>2. Within(0, lots) /\ Within(lots, lots)
  BY DEF Within
<1> QED  BY <1>1, <1>2 DEF Answers

LEMMA LedgerOrderStep ==
    ASSUME TypeOK, SwitchInv, RecoveryInv, RowInv, StrayInv, LedgerInv
    PROVE  /\ RecordIntent => LedgerInv'
           /\ PostOrder => LedgerInv'
           /\ RecordAnswer => LedgerInv'
<1> DEFINE o == trader.order
<1>0. NextTicker(trader, trader.ticker).stage = "cycle"
  BY NextTickerType DEF TypeOK
<1>t. \A i \in OrderId : /\ book[i].executed \in Int /\ request[i].lots \in Int
                         /\ rows[i].lots \in Int
  BY DEF TypeOK, BookEntry, Request, AuditRow
<1>1. ASSUME RecordIntent PROVE LedgerInv'
  <2>1. UNCHANGED book /\ trader.stage = "intent"
    BY <1>1 DEF RecordIntent
  <2>2. CASE trader' = NextTicker(trader, trader.ticker) /\ UNCHANGED <<request, rows>>
    <3>1. \A i \in OrderId : Closes(i) /\ book'[i].executed = book[i].executed
      BY <2>1 DEF Closes
    <3> QED  BY <1>0, <2>2, <3>1, LedgerFrame
  <2>3. ASSUME NEW i \in Unused,
               request' = [request EXCEPT ![i] = [ticker |-> trader.ticker,
                                                  lots |-> trader.lots]],
               rows' = [rows EXCEPT ![i] = Row("requires_reconciliation", 0)],
               trader' = [trader EXCEPT !.stage = "post", !.order = i]
        PROVE  LedgerInv'
    <3>1. i \in OrderId /\ book[i].at = "unsent" /\ book[i].executed = 0
      BY DEF Unused, StrayInv, LedgerInv
    <3>2. /\ \A j \in OrderId : j # i => rows'[j] = rows[j] /\ request'[j] = request[j]
          /\ rows'[i].lots = 0 /\ request'[i].lots = trader.lots
      BY <2>3, <3>1 DEF TypeOK, Row
    <3>3. trader'.stage = "post" /\ trader'.order = i /\ trader'.lots = trader.lots
      BY <2>3 DEF TypeOK, Trader
    <3>4. trader.lots \in Int
      BY DEF TypeOK, Trader
    <3>5. LedgerNeverAhead'
      BY <2>1, <3>1, <3>2 DEF LedgerInv, LedgerNeverAhead, Within
    <3>6. Within(0, trader.lots)
      BY <3>4 DEF Within
    <3>7. \A j \in OrderId : /\ Within(book'[j].executed, request'[j].lots)
                             /\ book'[j].at = "unsent" => book'[j].executed = 0
                             /\ book'[j].at = "open" => book'[j].executed # request'[j].lots
      BY <2>1, <3>1, <3>2, <3>6 DEF LedgerInv
    <3> QED  BY <3>2, <3>3, <3>5, <3>7 DEF LedgerInv
  <2> QED  BY <1>1, <2>2, <2>3 DEF RecordIntent
<1>2. ASSUME PostOrder PROVE LedgerInv'
  <2>1. /\ UNCHANGED <<request, rows>> /\ trader.stage = "post"
        /\ o \in OrderId /\ request[o].lots # 0
        /\ request[o].lots = trader.lots /\ book[o].executed = 0
    BY <1>2 DEF PostOrder, RowInv, StrayInv, LedgerInv
  <2>2. CASE trader' = NextTicker(trader, trader.ticker) /\ UNCHANGED book
    <3>1. \A i \in OrderId : Closes(i) /\ book'[i].executed = book[i].executed
      BY <2>2 DEF Closes
    <3> QED  BY <1>0, <2>1, <2>2, <3>1, LedgerFrame
  <2>3. ASSUME NEW a \in Answers(trader.lots), Accept(o, a),
               \/ trader' = [trader EXCEPT !.stage = "record", !.answer = a]
               \/ trader' = NextTicker(trader, trader.ticker)
        PROVE  LedgerInv'
    <3>1. /\ \A i \in OrderId : i # o => book'[i] = book[i]
          /\ book'[o].executed = a.executed /\ book'[o].at # "unsent"
          /\ book'[o].at = "open" => a.status \notin {"filled", "refused"}
      BY <2>1, <2>3 DEF Accept, TypeOK
    <3>2. /\ Within(a.executed, request[o].lots)
          /\ a.status \notin {"filled", "refused"} => a.executed # request[o].lots
      BY <1>t, <2>1, AnswerWithin
    <3>3. rows[o].lots = 0
      BY <1>t, <2>1 DEF LedgerInv, LedgerNeverAhead, Within
    <3>4. a \in Answer /\ a.executed \in Int
      BY <1>t, <2>1, AnswersType DEF Answer
    <3>5. LedgerNeverAhead'
      BY <2>1, <3>1, <3>3, <3>4 DEF LedgerInv, LedgerNeverAhead, Within
    <3>6. \A j \in OrderId : /\ Within(book'[j].executed, request'[j].lots)
                             /\ book'[j].at = "unsent" => book'[j].executed = 0
                             /\ book'[j].at = "open" => book'[j].executed # request'[j].lots
      BY <2>1, <3>1, <3>2 DEF LedgerInv
    <3>7. Within(RowFor(a).lots, a.executed)
      BY <3>4, RowForLots DEF Within
    <3>8. \/ trader'.stage = "cycle"
          \/ trader'.stage = "record" /\ trader'.order = o /\ trader'.answer = a
      BY <1>0, <2>3 DEF TypeOK, Trader
    <3> QED  BY <3>1, <3>5, <3>6, <3>7, <3>8 DEF LedgerInv
  <2> QED  BY <1>2, <2>2, <2>3 DEF PostOrder, broker
<1>3. ASSUME RecordAnswer PROVE LedgerInv'
  <2>1. /\ UNCHANGED <<book, request>> /\ trader.stage = "record" /\ o \in OrderId
        /\ trader'.stage = "cycle"
    BY <1>0, <1>3 DEF RecordAnswer, RowInv
  <2>2. /\ \A i \in OrderId : i # o => rows'[i] = rows[i]
        /\ rows'[o] \in {rows[o], RowFor(trader.answer)}
    BY <1>3 DEF RecordAnswer, TypeOK
  <2>3. LedgerNeverAhead'
    BY <2>1, <2>2 DEF LedgerInv, LedgerNeverAhead
  <2> QED  BY <2>1, <2>3 DEF LedgerInv
<1> QED  BY <1>1, <1>2, <1>3

LEMMA LedgerRecoverStep ==
    ASSUME TypeOK, SwitchInv, RecoveryInv, RowInv, LedgerInv, ~ResetAnyTime,
           NEW q \in Process, NEW o \in OrderId, Recover(q, o)
    PROVE  LedgerInv'
<1>1. /\ o \in recovery[q].pending /\ recovery[q].stage = "cancelling"
      /\ UNCHANGED <<request, trader>>
  BY DEF Recover
<1>2. ~Ordering
  BY <1>1 DEF RecoveryInv, SwitchInv, Ordering, Process
<1>3. \A i \in OrderId : Closes(i) /\ book'[i].executed = book[i].executed
  <2>1. CASE UNCHANGED book
    BY <2>1 DEF Closes
  <2>2. CASE book' = [book EXCEPT ![o].at = "closed"] /\ book[o].at = "open"
    BY <2>2 DEF TypeOK, BookEntry, Closes
  <2> QED  BY <2>1, <2>2 DEF Recover
<1>4. \A i \in OrderId : rows'[i].lots = rows[i].lots \/ rows'[i].lots = 0
  <2>1. ASSUME NEW status, rows' = [rows EXCEPT ![o] = Row(status, 0)]
        PROVE  \A i \in OrderId : rows'[i].lots = rows[i].lots \/ rows'[i].lots = 0
    <3>1. Row(status, 0).lots = 0
      BY DEF Row
    <3> QED  BY <2>1, <3>1 DEF TypeOK
  <2>2. CASE UNCHANGED rows
    BY <2>2
  <2> QED  BY <2>1, <2>2 DEF Recover
<1>5. LedgerNeverAhead'
  <2>1. \A i \in OrderId : book[i].executed \in Int
    BY DEF TypeOK, BookEntry
  <2> QED  BY <1>3, <1>4, <2>1 DEF LedgerInv, LedgerNeverAhead, Within
<1>6. \A i \in OrderId : /\ Within(book'[i].executed, request'[i].lots)
                         /\ book'[i].at = "unsent" => book'[i].executed = 0
                         /\ book'[i].at = "open" => book'[i].executed # request'[i].lots
  BY <1>1, <1>3 DEF LedgerInv, Closes
<1> QED  BY <1>1, <1>2, <1>5, <1>6 DEF LedgerInv, Ordering

LEMMA LedgerStep ==
    ASSUME ~ResetAnyTime
    PROVE  OrdersInv /\ RowInv /\ StrayInv /\ LedgerInv /\ [Next]_vars => LedgerInv'
<1> SUFFICES ASSUME OrdersInv, RowInv, StrayInv, LedgerInv, [Next]_vars PROVE LedgerInv'
  OBVIOUS
<1>1. TypeOK /\ SwitchInv /\ RecoveryInv
  BY DEF OrdersInv
<1>2. CASE UNCHANGED vars
  BY <1>2 DEF LedgerInv, LedgerNeverAhead, vars
<1>3. CASE \/ BeginCycle \/ EndCycle \/ StoreSwitch \/ CancelOpenOrders
           \/ \E t \in Ticker : Skip(t) \/ TripSwitch(t) \/ Approve(t)
  <2>1. UNCHANGED <<request, rows>>
    BY <1>3 DEF BeginCycle, EndCycle, StoreSwitch, CancelOpenOrders, Skip, TripSwitch, Approve
  <2>2. trader'.stage \notin {"post", "record"}
    BY <1>1, <1>3, StageAfterCycle
  <2>3. \A o \in OrderId : Closes(o) /\ book'[o].executed = book[o].executed
    <3>1. CASE CancelOpenOrders
      BY <1>1, <3>1 DEF CancelOpenOrders, Closes, TypeOK, BookEntry
    <3>2. CASE UNCHANGED book
      BY <3>2 DEF Closes
    <3> QED  BY <1>3, <3>1, <3>2 DEF BeginCycle, EndCycle, StoreSwitch, Skip, TripSwitch, Approve
  <2> QED  BY <1>1, <2>1, <2>2, <2>3, LedgerFrame
<1>4. CASE RecordIntent \/ PostOrder \/ RecordAnswer
  BY <1>1, <1>4, LedgerOrderStep
<1>5. CASE \/ StartTrader \/ TraderReady \/ Crash \/ StartReset \/ EndReset
           \/ \E q \in Process : ListOpen(q)
  <2>1. UNCHANGED <<book, request, rows>>
    BY <1>5 DEF StartTrader, TraderReady, Crash, StartReset, EndReset, ListOpen
  <2>2. trader'.stage \notin {"post", "record"} \/ UNCHANGED trader
    <3>1. CASE \E q \in Process : ListOpen(q)
      BY <3>1 DEF ListOpen
    <3>2. CASE StartTrader \/ TraderReady \/ Crash \/ StartReset \/ EndReset
      BY <1>1, <3>2, FreshType DEF StartTrader, TraderReady, Crash, StartReset, EndReset,
                                   Fresh, TypeOK, Trader
    <3> QED  BY <1>5, <3>1, <3>2
  <2>3. \A o \in OrderId : Closes(o) /\ book'[o].executed = book[o].executed
    BY <2>1 DEF Closes
  <2> QED  BY <1>1, <2>1, <2>2, <2>3, LedgerFrame
<1>6. ASSUME NEW q \in Process, NEW o \in OrderId, Recover(q, o) PROVE LedgerInv'
  BY <1>1, <1>6, LedgerRecoverStep
<1>7. ASSUME NEW i \in OrderId, Execute(i) PROVE LedgerInv'
  BY <1>1, <1>7, LedgerExecuteStep
<1>8. ASSUME NEW i \in OrderId, Expire(i) PROVE LedgerInv'
  <2>1. UNCHANGED <<request, rows, trader>>
    BY <1>8 DEF Expire
  <2>2. \A o \in OrderId : Closes(o) /\ book'[o].executed = book[o].executed
    BY <1>1, <1>8 DEF Expire, Closes, TypeOK, BookEntry
  <2> QED  BY <1>1, <2>1, <2>2, LedgerFrame
<1> QED  BY <1>2, <1>3, <1>4, <1>5, <1>6, <1>7, <1>8 DEF Next

(***************************************************************************)
(* No row of the ledger ever counts more lots than the broker executed for *)
(* its order, nor any on the other side, whatever answers and records are  *)
(* lost, as long as nobody resets a switch that is not on.                 *)
(***************************************************************************)
THEOREM LedgerHolds ==
    ASSUME ~ResetAnyTime
    PROVE  Spec => []LedgerNeverAhead
<1>1. Init => RowInv /\ StrayInv /\ LedgerInv
  BY RowInit, StrayInit, LedgerInit
<1>2. OrdersInv /\ RowInv /\ [Next]_vars => RowInv' /\ [KeepsFills]_vars
  BY RowStep
<1>3. OrdersInv /\ RowInv /\ StrayInv /\ [Next]_vars => StrayInv'
  BY StrayStep
<1>4. OrdersInv /\ RowInv /\ StrayInv /\ LedgerInv /\ [Next]_vars => LedgerInv'
  BY LedgerStep
<1>5. LedgerInv => LedgerNeverAhead
  BY DEF LedgerInv
<1> QED  BY <1>1, <1>2, <1>3, <1>4, <1>5, OrdersInvariant, PTL DEF Spec

-----------------------------------------------------------------------------
(***************************************************************************)
(* Positions.  What the broker holds of a ticker is what its orders        *)
(* executed.  Held is that without the order whose answer the trader has   *)
(* but has not recorded; as long as every other row says what its order    *)
(* executed, the cached portfolio of a ticker still to come, and the       *)
(* ledger, say what is held, and the order under way ends within max_lots. *)
(***************************************************************************)
Of(t) == {o \in OrderId : request[o].ticker = t}
Executed == [o \in OrderId |-> book[o].executed]
Reported == [o \in OrderId |-> rows[o].lots]

InHand(o) == trader.stage = "record" /\ o = trader.order

Seen(t) == \A o \in Of(t) : InHand(o) \/ rows[o].lots = book[o].executed

Held(t) ==
    IF trader.stage = "record" /\ trader.ticker = t
    THEN position[t] - book[trader.order].executed
    ELSE position[t]

DrawnInv ==
    /\ \A o \in OrderId : IF request[o].lots = 0 THEN request[o].ticker = NoTicker
                                                 ELSE request[o].ticker \in Ticker
    /\ \A o \in OrderId : rows[o].status \in Untouched \cup {"none"} => rows[o].lots = 0
    /\ Ordering => trader.ticker \in Ticker
    /\ trader.stage \in {"post", "record"} =>
          /\ request[trader.order].ticker = trader.ticker
          /\ request[trader.order].lots = trader.lots
    /\ trader.stage \in {"down", "recovering", "idle"} => trader.view = "stale"
    /\ \A t \in Ticker : IsFiniteSet(Of(t))

PositionInv == \A t \in Ticker : position[t] = SumFunctionOnSet(Executed, Of(t))

HeldInv ==
    \A t \in Ticker : Seen(t) =>
       /\ Abs(Held(t)) <= MaxLots
       /\ t \in trader.todo /\ trader.view = "broker" => trader.cached[t] = Held(t)
       /\ Ordering /\ trader.ticker = t => Abs(Held(t) + trader.lots) <= MaxLots

HoldInv == DrawnInv /\ PositionInv /\ HeldInv

LEMMA HoldInit == Init => HoldInv
<1> SUFFICES ASSUME Init PROVE HoldInv
  OBVIOUS
<1>1. \A t \in Ticker : Of(t) = {}
  BY TickerAssumption DEF Init, Of
<1>2. DrawnInv
  BY <1>1, FS_EmptySet DEF Init, DrawnInv, Fresh, Ordering
<1>3. PositionInv
  BY <1>1, SumEmpty DEF Init, PositionInv
<1>4. \A t \in Ticker : Held(t) = 0
  BY DEF Init, Held, Fresh
<1>5. trader.todo = {} /\ ~Ordering /\ Abs(0) <= MaxLots
  BY LotsAssumption DEF Init, Fresh, Ordering, Abs
<1>6. HeldInv
  BY <1>4, <1>5 DEF HeldInv
<1> QED  BY <1>2, <1>3, <1>6 DEF HoldInv

\* The numbers the invariant is about.
LEMMA HoldTypes ==
    ASSUME TypeOK
    PROVE  /\ \A o \in OrderId : /\ Executed[o] \in Int /\ Reported[o] \in Int
                                 /\ book[o].executed \in Int /\ rows[o].lots \in Int
                                 /\ request[o].lots \in Int
           /\ \A t \in Ticker : position[t] \in Int /\ trader.cached[t] \in Int
           /\ trader.lots \in Int /\ trader.todo \subseteq Ticker
<1>1. \A o \in OrderId : /\ Executed[o] \in Int /\ Reported[o] \in Int
                         /\ book[o].executed \in Int /\ rows[o].lots \in Int
                         /\ request[o].lots \in Int
  BY DEF TypeOK, BookEntry, AuditRow, Request, Executed, Reported
<1>2. \A t \in Ticker : position[t] \in Int /\ trader.cached[t] \in Int
  BY DEF TypeOK, Trader
<1>3. trader.lots \in Int /\ trader.todo \subseteq Ticker
  BY DEF TypeOK, Trader
<1> QED  BY <1>1, <1>2, <1>3

\* Nothing executes, nothing is drawn: positions still add up.
LEMMA PositionFrame ==
    ASSUME TypeOK, DrawnInv, PositionInv, UNCHANGED <<position, request>>,
           \A o \in OrderId : book'[o].executed = book[o].executed
    PROVE  PositionInv'
<1>1. Executed' = Executed /\ \A t \in Ticker : Of(t)' = Of(t)
  BY DEF Executed, Of
<1> QED  BY <1>1 DEF PositionInv

\* Once the trader has no answer in hand, the rows tell what is held.
LEMMA NothingInHand ==
    ASSUME TypeOK, RowInv, DrawnInv, UNCHANGED <<position, request>>, trader'.stage # "record",
           \A o \in OrderId : /\ book'[o].executed = book[o].executed
                              /\ rows'[o].lots = rows[o].lots,
           NEW t \in Ticker, Seen(t)'
    PROVE  Seen(t) /\ Held(t) = position[t] /\ Held(t)' = position[t]
<1>1. \A o \in Of(t) : rows[o].lots = book[o].executed
  BY DEF Seen, Of, InHand
<1>2. Seen(t) /\ Held(t)' = position[t]
  BY <1>1 DEF Seen, Held
<1>3. CASE trader.stage = "record" /\ trader.ticker = t
  <2>1. trader.order \in Of(t) /\ rows[trader.order].lots = 0
    BY <1>3 DEF DrawnInv, RowInv, Of, Untouched, Pending
  <2>2. book[trader.order].executed = 0
    BY <1>1, <2>1
  <2> QED  BY <1>2, <1>3, <2>2, HoldTypes DEF Held
<1>4. CASE ~(trader.stage = "record" /\ trader.ticker = t)
  BY <1>2, <1>4 DEF Held
<1> QED  BY <1>2, <1>3, <1>4

\* Actions of the trader that place no order: the cache is as good as it was.
LEMMA HoldTraderFrame ==
    ASSUME TypeOK, RowInv, HoldInv, UNCHANGED <<position, request, rows>>,
           \A o \in OrderId : book'[o].executed = book[o].executed,
           trader'.stage \notin {"intent", "post", "record"},
           trader'.stage \in {"down", "recovering", "idle"} => trader'.view = "stale",
           \/ trader'.view # "broker"
           \/ trader'.cached = position
           \/ /\ trader'.view = trader.view /\ trader'.cached = trader.cached
              /\ trader'.todo \subseteq trader.todo
    PROVE  HoldInv'
<1>1. DrawnInv /\ PositionInv /\ HeldInv
  BY DEF HoldInv
<1>2. \A t \in Ticker : Of(t)' = Of(t)
  BY DEF Of
<1>3. DrawnInv'
  BY <1>1, <1>2 DEF DrawnInv, Ordering
<1>4. PositionInv'
  BY <1>1, PositionFrame
<1>5. ASSUME NEW t \in Ticker, Seen(t)'
      PROVE  /\ Abs(Held(t)') <= MaxLots
             /\ t \in trader'.todo /\ trader'.view = "broker" => trader'.cached[t] = Held(t)'
             /\ ~Ordering'
  <2>1. Seen(t) /\ Held(t) = position[t] /\ Held(t)' = position[t]
    BY <1>1, <1>5, NothingInHand
  <2>2. /\ Abs(position[t]) <= MaxLots
        /\ t \in trader.todo /\ trader.view = "broker" => trader.cached[t] = position[t]
    BY <1>1, <2>1 DEF HeldInv
  <2>3. ~Ordering'
    BY DEF Ordering
  <2>4. t \in trader'.todo /\ trader'.view = "broker" => trader'.cached[t] = position[t]
    BY <2>2
  <2> QED  BY <2>1, <2>2, <2>3, <2>4
<1>6. HeldInv'
  BY <1>5 DEF HeldInv
<1> QED  BY <1>3, <1>4, <1>6 DEF HoldInv

\* What reading positions leaves in the cache.
LEMMA ReadView ==
    ASSUME TypeOK, NEW how \in {"kept", "broker", "ledger"}
    PROVE  /\ Read(how).todo = trader.todo
           /\ \/ Read(how).view # "broker"
              \/ Read(how).cached = position
              \/ Read(how).view = trader.view /\ Read(how).cached = trader.cached
<1>1. CASE how = "kept"
  BY <1>1 DEF Read
<1>2. CASE how = "broker"
  <2>1. Read(how) = [trader EXCEPT !.view = "broker", !.cached = position, !.resolved = Ticker]
    BY <1>2 DEF Read
  <2> QED  BY <2>1 DEF TypeOK, Trader
<1>3. CASE how = "ledger"
  <2>1. Read(how) = [trader EXCEPT !.view = "ledger", !.cached = NothingCached]
    BY <1>3 DEF Read
  <2> QED  BY <2>1 DEF TypeOK, Trader
<1> QED  BY <1>1, <1>2, <1>3

LEMMA NextTickerView ==
    ASSUME NEW p \in Trader, NEW t
    PROVE  /\ NextTicker(p, t).view = p.view
           /\ NextTicker(p, t).cached = p.cached
           /\ NextTicker(p, t).todo = p.todo \ {t}
<1> DEFINE q == [p EXCEPT !.ticker = NoTicker, !.lots = 0, !.order = 0, !.answer = NoAnswer]
<1>1. NextTicker(p, t) = [q EXCEPT !.stage = "cycle", !.todo = @ \ {t}]
  BY DEF NextTicker, Done
<1>2. q.view = p.view /\ q.cached = p.cached /\ q.todo = p.todo
  BY DEF Trader
<1>3. DOMAIN q = DOMAIN p
  OBVIOUS
<1>4. DOMAIN p = {"stage", "halted", "resolved", "view", "cached", "account", "todo",
                  "ticker", "lots", "order", "answer"}
  BY DEF Trader
<1> HIDE DEF q
<1> QED  BY <1>1, <1>2, <1>3, <1>4

LEMMA HoldCycleStep ==
    ASSUME TypeOK, RowInv, HoldInv
    PROVE  /\ BeginCycle => HoldInv'
           /\ EndCycle => HoldInv'
           /\ StoreSwitch => HoldInv'
           /\ CancelOpenOrders => HoldInv'
           /\ \A t \in Ticker : Skip(t) => HoldInv'
           /\ \A t \in Ticker : TripSwitch(t) => HoldInv'
<1>1. ASSUME BeginCycle PROVE HoldInv'
  <2>1. trader'.stage = "cycle" /\ trader'.view = trader.view
    BY <1>1 DEF BeginCycle, TypeOK, Trader
  <2>2. trader.view = "stale"
    BY <1>1 DEF BeginCycle, HoldInv, DrawnInv
  <2>3. UNCHANGED <<position, request, rows, book>>
    BY <1>1 DEF BeginCycle
  <2> QED  BY <2>1, <2>2, <2>3, HoldTraderFrame
<1>2. ASSUME EndCycle PROVE HoldInv'
  <2>1. trader'.stage = "idle" /\ trader'.view = "stale"
    BY <1>2 DEF EndCycle, TypeOK, Trader
  <2>2. UNCHANGED <<position, request, rows, book>>
    BY <1>2 DEF EndCycle
  <2> QED  BY <2>1, <2>2, HoldTraderFrame
<1>3. ASSUME StoreSwitch PROVE HoldInv'
  <2>1. /\ trader'.stage = "cancel" /\ trader'.view = trader.view
        /\ trader'.cached = trader.cached /\ trader'.todo = trader.todo
    BY <1>3 DEF StoreSwitch, TypeOK, Trader
  <2>2. UNCHANGED <<position, request, rows, book>>
    BY <1>3 DEF StoreSwitch
  <2> QED  BY <2>1, <2>2, HoldTraderFrame
<1>4. ASSUME CancelOpenOrders PROVE HoldInv'
  <2>1. trader' = NextTicker(trader, trader.ticker) /\ UNCHANGED <<position, request, rows>>
    BY <1>4 DEF CancelOpenOrders
  <2>2. /\ trader'.stage = "cycle" /\ trader'.view = trader.view
        /\ trader'.cached = trader.cached /\ trader'.todo \subseteq trader.todo
    BY <2>1, NextTickerType, NextTickerView DEF TypeOK
  <2>3. \A o \in OrderId : book'[o].executed = book[o].executed
    BY <1>4 DEF CancelOpenOrders, TypeOK, BookEntry
  <2> QED  BY <2>1, <2>2, <2>3, HoldTraderFrame
<1>5. ASSUME NEW t \in Ticker, Skip(t) PROVE HoldInv'
  <2>1. UNCHANGED <<position, request, rows, book>>
    BY <1>5 DEF Skip
  <2>2. CASE trader' = NextTicker(trader, t)
    <3>1. /\ trader'.stage = "cycle" /\ trader'.view = trader.view
          /\ trader'.cached = trader.cached /\ trader'.todo \subseteq trader.todo
      BY <2>2, NextTickerType, NextTickerView DEF TypeOK
    <3> QED  BY <2>1, <3>1, HoldTraderFrame
  <2>3. ASSUME NEW how \in {"kept", "broker", "ledger"}, NEW asked \in {{}, {t}},
               trader' = [NextTicker(Read(how), t) EXCEPT !.resolved = @ \cup asked]
        PROVE  HoldInv'
    <3> DEFINE p == NextTicker(Read(how), t)
    <3>1. p \in Trader /\ p.stage = "cycle"
      BY ReadType, NextTickerType
    <3>2. /\ p.view = Read(how).view /\ p.cached = Read(how).cached
          /\ p.todo = Read(how).todo \ {t}
      BY ReadType, NextTickerView
    <3> HIDE DEF p
    <3>3. /\ trader'.stage = p.stage /\ trader'.view = p.view
          /\ trader'.cached = p.cached /\ trader'.todo = p.todo
      BY <2>3, <3>1 DEF Trader, p
    <3>4. /\ trader'.stage = "cycle" /\ trader'.todo \subseteq trader.todo
          /\ \/ trader'.view # "broker"
             \/ trader'.cached = position
             \/ trader'.view = trader.view /\ trader'.cached = trader.cached
      BY <3>1, <3>2, <3>3, ReadView
    <3> QED  BY <2>1, <3>4, HoldTraderFrame
  <2> QED  BY <1>5, <2>2, <2>3 DEF Skip
<1>6. ASSUME NEW t \in Ticker, TripSwitch(t) PROVE HoldInv'
  <2>1. UNCHANGED <<position, request, rows, book>>
    BY <1>6 DEF TripSwitch
  <2>2. PICK how \in {"kept", "broker", "ledger"} :
           trader' = [Read(how) EXCEPT !.stage = "trip", !.halted = TRUE, !.ticker = t]
    BY <1>6 DEF TripSwitch, Read
  <2>3. /\ trader'.stage = "trip" /\ trader'.todo = Read(how).todo
        /\ trader'.view = Read(how).view /\ trader'.cached = Read(how).cached
    <3>1. Read(how) \in Trader
      BY ReadType
    <3> QED  BY <2>2, <3>1 DEF Trader
  <2>4. \/ trader'.view # "broker"
        \/ trader'.cached = position
        \/ trader'.view = trader.view /\ trader'.cached = trader.cached
    BY <2>3, ReadView
  <2>5. trader'.todo \subseteq trader.todo
    BY <2>3, ReadView
  <2> QED  BY <2>1, <2>3, <2>4, <2>5, HoldTraderFrame
<1> QED  BY <1>1, <1>2, <1>3, <1>4, <1>5, <1>6

(* Whichever way positions were read, the gate sees what is held of a      *)
(* ticker whose rows are all true.                                         *)
LEMMA SeesHeld ==
    ASSUME TypeOK, HoldInv, trader.stage = "cycle", NEW t \in trader.todo, Seen(t),
           NEW how \in {"kept", "broker", "ledger"}
    PROVE  CurrentLots(Read(how), t) = position[t]
<1>1. t \in Ticker /\ Held(t) = position[t]
  BY HoldTypes DEF Held
<1>2. \A o \in Of(t) : o \in OrderId /\ rows[o].lots = book[o].executed
  BY DEF Seen, Of, InHand
<1>3. Ledger(t) = position[t]
  <2>1. IsFiniteSet(Of(t)) /\ position[t] = SumFunctionOnSet(Executed, Of(t))
    BY <1>1 DEF HoldInv, DrawnInv, PositionInv
  <2>2. \A o \in Of(t) : Executed[o] \in Int /\ Reported[o] = Executed[o]
    BY <1>2, HoldTypes DEF Executed, Reported
  <2>3. SumFunctionOnSet(Executed, Of(t)) = SumFunctionOnSet(Reported, Of(t))
    BY <2>1, <2>2, SumSame
  <2>4. Ledger(t) = SumFunctionOnSet(Reported, Of(t))
    BY DEF Ledger, Reported, Of
  <2> QED  BY <2>1, <2>3, <2>4
<1>4. trader.view = "broker" => trader.cached[t] = position[t]
  BY <1>1 DEF HoldInv, HeldInv
<1>5. \/ Read(how).view # "broker"
      \/ Read(how).cached = position
      \/ Read(how).view = trader.view /\ Read(how).cached = trader.cached
  BY ReadView
<1> QED  BY <1>3, <1>4, <1>5 DEF CurrentLots

LEMMA HoldApproveStep ==
    ASSUME TypeOK, RowInv, HoldInv, NEW t \in Ticker, Approve(t)
    PROVE  HoldInv'
<1>1. /\ UNCHANGED <<position, request, rows, book>> /\ t \in trader.todo
      /\ trader.stage = "cycle"
  BY DEF Approve, Considers
<1>2. PICK how \in {"kept", "broker", "ledger"}, desired \in -(MaxLots + 1)..(MaxLots + 1) :
        LET current == CurrentLots(Read(how), t)
            delta   == Delta(desired, current)
        IN /\ Approved(desired, current)
           /\ delta \in Int \ {0}
           /\ trader' = [Read(how) EXCEPT !.stage = "intent", !.ticker = t, !.lots = delta,
                                          !.resolved = @ \cup {t}]
  BY DEF Approve
<1> DEFINE current == CurrentLots(Read(how), t)
           delta   == Delta(desired, current)
<1>3. /\ Abs(desired) <= MaxLots /\ delta \in Int
      /\ trader' = [Read(how) EXCEPT !.stage = "intent", !.ticker = t, !.lots = delta,
                                     !.resolved = @ \cup {t}]
  BY <1>2 DEF Approved
<1> HIDE DEF delta
<1>4. /\ trader'.stage = "intent" /\ trader'.ticker = t /\ trader'.lots = delta
      /\ trader'.todo = Read(how).todo /\ trader'.view = Read(how).view
      /\ trader'.cached = Read(how).cached
  <2>1. Read(how) \in Trader
    BY ReadType
  <2> QED  BY <1>3, <2>1 DEF Trader
<1>5. DrawnInv /\ PositionInv /\ HeldInv
  BY DEF HoldInv
<1>6. \A u \in Ticker : Of(u)' = Of(u)
  BY <1>1 DEF Of
<1>7. DrawnInv'
  BY <1>1, <1>4, <1>5, <1>6 DEF DrawnInv, Ordering
<1>8. PositionInv'
  BY <1>1, <1>5, PositionFrame
<1>9. ASSUME NEW u \in Ticker, Seen(u)'
      PROVE  /\ Abs(Held(u)') <= MaxLots
             /\ u \in trader'.todo /\ trader'.view = "broker" => trader'.cached[u] = Held(u)'
             /\ trader'.ticker = u => Abs(Held(u)' + trader'.lots) <= MaxLots
  <2>1. Seen(u) /\ Held(u) = position[u] /\ Held(u)' = position[u]
    BY <1>1, <1>4, <1>5, <1>9, NothingInHand
  <2>2. /\ Abs(position[u]) <= MaxLots
        /\ u \in trader.todo /\ trader.view = "broker" => trader.cached[u] = position[u]
    BY <1>5, <2>1 DEF HeldInv
  <2>3. u \in trader'.todo /\ trader'.view = "broker" => trader'.cached[u] = position[u]
    BY <1>4, <2>2, ReadView
  <2>4. CASE trader'.ticker = u
    <3>1. u = t /\ current = position[t]
      BY <1>1, <1>4, <2>1, <2>4, SeesHeld
    <3>2. position[u] + delta = desired
      BY <3>1, HoldTypes DEF Delta, delta
    <3> QED  BY <1>3, <1>4, <2>1, <2>2, <2>3, <3>2
  <2> QED  BY <2>1, <2>2, <2>3, <2>4
<1>10. HeldInv'
  BY <1>9 DEF HeldInv
<1> QED  BY <1>7, <1>8, <1>10 DEF HoldInv

LEMMA HoldIntentStep ==
    ASSUME TypeOK, RowInv, StrayInv, LedgerInv, HoldInv, RecordIntent
    PROVE  HoldInv'
<1>0. /\ NextTicker(trader, trader.ticker).stage = "cycle"
      /\ NextTicker(trader, trader.ticker).view = trader.view
      /\ NextTicker(trader, trader.ticker).cached = trader.cached
      /\ NextTicker(trader, trader.ticker).todo \subseteq trader.todo
  BY NextTickerType, NextTickerView DEF TypeOK
<1>1. UNCHANGED <<position, book>> /\ trader.stage = "intent"
  BY DEF RecordIntent
<1>2. CASE trader' = NextTicker(trader, trader.ticker) /\ UNCHANGED <<request, rows>>
  BY <1>0, <1>1, <1>2, HoldTraderFrame
<1>3. ASSUME NEW o \in Unused,
             request' = [request EXCEPT ![o] = [ticker |-> trader.ticker,
                                                lots |-> trader.lots]],
             rows' = [rows EXCEPT ![o] = Row("requires_reconciliation", 0)],
             trader' = [trader EXCEPT !.stage = "post", !.order = o]
      PROVE  HoldInv'
  <2>1. DrawnInv /\ PositionInv /\ HeldInv
    BY DEF HoldInv
  <2> PICK t \in Ticker : t = trader.ticker
    BY <1>1, <2>1 DEF DrawnInv, Ordering
  <2>2. o \in OrderId /\ request[o].ticker = NoTicker /\ book[o].executed = 0
    BY <2>1 DEF Unused, DrawnInv, StrayInv, LedgerInv
  <2>3. trader.lots # 0
    BY <1>1 DEF RowInv
  <2>4. /\ \A i \in OrderId : i # o => rows'[i] = rows[i] /\ request'[i] = request[i]
        /\ rows'[o].lots = 0 /\ rows'[o].status = "requires_reconciliation"
        /\ request'[o].lots = trader.lots /\ request'[o].ticker = t
    BY <1>3, <2>2 DEF TypeOK, Row
  <2>5. /\ trader'.stage = "post" /\ trader'.order = o /\ trader'.lots = trader.lots
        /\ trader'.ticker = t /\ trader'.todo = trader.todo /\ trader'.view = trader.view
        /\ trader'.cached = trader.cached
    BY <1>3 DEF TypeOK, Trader
  <2>6. /\ o \notin Of(t) /\ Of(t)' = Of(t) \cup {o}
        /\ \A u \in Ticker \ {t} : Of(u)' = Of(u)
    <3>1. \A u \in Ticker : o \notin Of(u)
      BY <2>2, TickerAssumption DEF Of
    <3>2. \A u \in Ticker : \A i \in OrderId :
             i \in Of(u)' <=> i \in Of(u) \/ (i = o /\ u = t)
      BY <2>2, <2>4, <3>1 DEF Of
    <3>3. \A u \in Ticker : Of(u) \subseteq OrderId /\ Of(u)' \subseteq OrderId
      BY DEF Of
    <3> QED  BY <2>2, <3>1, <3>2, <3>3
  <2>7. ASSUME NEW u \in Ticker
        PROVE  IsFiniteSet(Of(u)')
    <3>1. IsFiniteSet(Of(u))
      BY <2>1 DEF DrawnInv
    <3>2. CASE u = t
      BY <2>6, <3>1, <3>2, FS_AddElement
    <3>3. CASE u # t
      BY <2>6, <3>1, <3>3
    <3> QED  BY <3>2, <3>3
  <2>8. DrawnInv'
    BY <2>1, <2>2, <2>3, <2>4, <2>5, <2>7 DEF DrawnInv, Ordering
  <2>9. PositionInv'
    <3>1. Executed' = Executed /\ Executed[o] = 0
      BY <1>1, <2>2 DEF Executed
    <3>2. SumFunctionOnSet(Executed, Of(t) \cup {o})
            = Executed[o] + SumFunctionOnSet(Executed, Of(t))
      <4>1. IsFiniteSet(Of(t)) /\ \A i \in Of(t) : Executed[i] \in Int
        BY <2>1, <2>2, HoldTypes DEF DrawnInv, Of
      <4> QED  BY <2>6, <3>1, <4>1, SumAdd
    <3>3. position[t] = SumFunctionOnSet(Executed, Of(t)) /\ position[t] \in Int
      BY <2>1, <2>2, HoldTypes DEF PositionInv
    <3>4. position[t] = SumFunctionOnSet(Executed, Of(t) \cup {o})
      BY <3>1, <3>2, <3>3
    <3>5. ASSUME NEW u \in Ticker
          PROVE  position'[u] = SumFunctionOnSet(Executed', Of(u)')
      <4>1. CASE u = t
        BY <1>1, <2>6, <3>1, <3>4, <4>1
      <4>2. CASE u # t
        BY <1>1, <2>1, <2>6, <3>1, <4>2 DEF PositionInv
      <4> QED  BY <4>1, <4>2
    <3> QED  BY <3>5 DEF PositionInv
  <2>10. ASSUME NEW u \in Ticker, Seen(u)'
         PROVE  /\ Abs(Held(u)') <= MaxLots
                /\ u \in trader'.todo /\ trader'.view = "broker" => trader'.cached[u] = Held(u)'
                /\ trader'.ticker = u => Abs(Held(u)' + trader'.lots) <= MaxLots
    <3>1. Seen(u) /\ Held(u) = position[u] /\ Held(u)' = position[u]
      BY <1>1, <2>2, <2>4, <2>5, <2>6, <2>10, TickerAssumption DEF Seen, Of, InHand, Held
    <3>2. /\ Abs(Held(u)) <= MaxLots
          /\ u \in trader.todo /\ trader.view = "broker" => trader.cached[u] = Held(u)
          /\ trader.ticker = u => Abs(Held(u) + trader.lots) <= MaxLots
      BY <1>1, <2>1, <3>1 DEF HeldInv, Ordering
    <3> QED  BY <2>5, <3>1, <3>2
  <2>11. HeldInv'
    BY <2>10 DEF HeldInv
  <2> QED  BY <2>8, <2>9, <2>11 DEF HoldInv
<1> QED  BY <1>2, <1>3 DEF RecordIntent

\* A part of what was asked for ends between where it began and where it aimed.
LEMMA PartWithin ==
    ASSUME NEW held \in Int, NEW lots \in Int, NEW part \in Int, Within(part, lots),
           Abs(held) <= MaxLots, Abs(held + lots) <= MaxLots
    PROVE  Abs(held + part) <= MaxLots
BY LotsAssumption DEF Within, Abs

LEMMA HoldPostStep ==
    ASSUME TypeOK, RowInv, StrayInv, LedgerInv, HoldInv, PostOrder
    PROVE  HoldInv'
<1> DEFINE o == trader.order
           t == trader.ticker
<1>0. /\ NextTicker(trader, t).stage = "cycle"
      /\ NextTicker(trader, t).view = trader.view
      /\ NextTicker(trader, t).cached = trader.cached
      /\ NextTicker(trader, t).todo = trader.todo \ {t}
  BY NextTickerType, NextTickerView DEF TypeOK
<1>1. /\ UNCHANGED <<request, rows>> /\ trader.stage = "post" /\ t \in Ticker
      /\ o \in OrderId /\ rows[o].lots = 0 /\ request[o].ticker = t
      /\ request[o].lots = trader.lots /\ book[o].executed = 0
  BY DEF PostOrder, RowInv, StrayInv, LedgerInv, HoldInv, DrawnInv, Ordering,
         Untouched, Pending
<1>2. CASE trader' = NextTicker(trader, t) /\ UNCHANGED broker
  BY <1>0, <1>1, <1>2, HoldTraderFrame DEF broker
<1>3. ASSUME NEW a \in Answers(trader.lots), Accept(o, a),
             \/ trader' = [trader EXCEPT !.stage = "record", !.answer = a]
             \/ trader' = NextTicker(trader, t)
      PROVE  HoldInv'
  <2>1. DrawnInv /\ PositionInv /\ HeldInv
    BY DEF HoldInv
  <2>2. a \in Answer /\ a.executed \in Int
    BY HoldTypes, AnswersType DEF Answer
  <2>3. /\ \A i \in OrderId : i # o => book'[i] = book[i]
        /\ book'[o].executed = a.executed
        /\ position'[t] = position[t] + a.executed
        /\ \A u \in Ticker : u # t => position'[u] = position[u]
    BY <1>1, <1>3 DEF Accept, TypeOK
  <2>4. \A u \in Ticker : Of(u)' = Of(u)
    BY <1>1 DEF Of
  <2>5. \/ /\ trader'.stage = "record" /\ trader'.order = o /\ trader'.lots = trader.lots
           /\ trader'.ticker = t /\ trader'.todo = trader.todo /\ trader'.view = trader.view
           /\ trader'.cached = trader.cached
        \/ /\ trader'.stage = "cycle" /\ trader'.view = trader.view
           /\ trader'.cached = trader.cached /\ trader'.todo = trader.todo \ {t}
    BY <1>0, <1>3 DEF TypeOK, Trader
  <2> HIDE DEF o, t
  <2>6. DrawnInv'
    BY <1>1, <2>1, <2>4, <2>5 DEF DrawnInv, Ordering
  <2>7. PositionInv'
    <3>1. /\ \A i \in OrderId : Executed[i] \in Int /\ Executed'[i] \in Int
          /\ \A i \in OrderId \ {o} : Executed'[i] = Executed[i]
          /\ Executed[o] = 0 /\ Executed'[o] = a.executed
      BY <1>1, <2>2, <2>3, HoldTypes DEF Executed
    <3>2. o \in Of(t) /\ IsFiniteSet(Of(t)) /\ Of(t) \subseteq OrderId
      BY <1>1, <2>1 DEF Of, DrawnInv
    <3>3. SumFunctionOnSet(Executed', Of(t))
            = SumFunctionOnSet(Executed, Of(t)) + (Executed'[o] - Executed[o])
      <4>1. /\ \A x \in Of(t) : Executed[x] \in Int /\ Executed'[x] \in Int
            /\ \A x \in Of(t) \ {o} : Executed'[x] = Executed[x]
        BY <3>1, <3>2
      <4> QED  BY <3>2, <4>1, SumChange
    <3>4. position'[t] = SumFunctionOnSet(Executed', Of(t))
      <4>1. position[t] = SumFunctionOnSet(Executed, Of(t)) /\ position[t] \in Int
        BY <1>1, <2>1, HoldTypes DEF PositionInv
      <4> QED  BY <2>2, <2>3, <3>1, <3>3, <4>1
    <3>5. ASSUME NEW u \in Ticker, u # t
          PROVE  position'[u] = SumFunctionOnSet(Executed', Of(u))
      <4>1. IsFiniteSet(Of(u)) /\ \A i \in Of(u) : i \in OrderId \ {o}
        BY <1>1, <2>1, <3>5 DEF Of, DrawnInv
      <4>2. \A i \in Of(u) : Executed[i] \in Int /\ Executed'[i] = Executed[i]
        BY <3>1, <4>1
      <4>3. SumFunctionOnSet(Executed, Of(u)) = SumFunctionOnSet(Executed', Of(u))
        BY <4>1, <4>2, SumSame
      <4> QED  BY <2>1, <2>3, <3>5, <4>3 DEF PositionInv
    <3> QED  BY <2>4, <3>4, <3>5 DEF PositionInv
  <2>8. ASSUME NEW u \in Ticker, Seen(u)'
        PROVE  /\ Abs(Held(u)') <= MaxLots
               /\ u \in trader'.todo /\ trader'.view = "broker" => trader'.cached[u] = Held(u)'
               /\ Ordering' /\ trader'.ticker = u => Abs(Held(u)' + trader'.lots) <= MaxLots
    <3>1. Held(u) = position[u] /\ position[t] \in Int
      BY <1>1, HoldTypes DEF Held
    <3>2. \A i \in Of(u) : i \in OrderId /\ (i = o => u = t)
      BY <1>1 DEF Of
    <3>3. CASE trader'.stage = "record"
      <4>1. Seen(u)
        BY <1>1, <2>3, <2>4, <2>5, <2>8, <3>2, <3>3 DEF Seen, InHand
      <4>2. Held(u)' = Held(u)
        <5>1. CASE u = t
          BY <1>1, <2>2, <2>3, <2>5, <3>1, <3>3, <5>1 DEF Held
        <5>2. CASE u # t
          BY <2>3, <2>5, <3>1, <3>3, <5>2 DEF Held
        <5> QED  BY <5>1, <5>2
      <4>3. /\ Abs(Held(u)) <= MaxLots
            /\ u \in trader.todo /\ trader.view = "broker" => trader.cached[u] = Held(u)
            /\ trader.ticker = u => Abs(Held(u) + trader.lots) <= MaxLots
        BY <1>1, <2>1, <4>1 DEF HeldInv, Ordering
      <4> QED  BY <2>5, <3>3, <4>2, <4>3 DEF t
    <3>4. CASE trader'.stage = "cycle"
      <4>1. \A i \in Of(u) : rows[i].lots = book'[i].executed
        BY <1>1, <2>4, <2>8, <3>4 DEF Seen, InHand
      <4>2. u = t => a.executed = 0
        BY <1>1, <2>3, <4>1 DEF Of
      <4>3. Seen(u) /\ Held(u)' = position[u]
        <5>1. \A i \in Of(u) : rows[i].lots = book[i].executed
          BY <1>1, <2>3, <3>2, <4>1, <4>2
        <5>2. position'[u] = position[u]
          BY <2>3, <3>1, <4>2
        <5> QED  BY <3>4, <5>1, <5>2 DEF Seen, Held
      <4>4. /\ Abs(Held(u)) <= MaxLots
            /\ u \in trader.todo /\ trader.view = "broker" => trader.cached[u] = Held(u)
        BY <2>1, <4>3 DEF HeldInv
      <4> QED  BY <2>5, <3>1, <3>4, <4>3, <4>4 DEF Ordering
    <3> QED  BY <2>5, <3>3, <3>4
  <2>9. HeldInv'
    BY <2>8 DEF HeldInv
  <2> QED  BY <2>6, <2>7, <2>9 DEF HoldInv
<1> QED  BY <1>2, <1>3 DEF PostOrder

LEMMA HoldRecordStep ==
    ASSUME TypeOK, RowInv, StrayInv, LedgerInv, HoldInv, RecordAnswer
    PROVE  HoldInv'
<1> DEFINE o == trader.order
           t == trader.ticker
<1>0. /\ NextTicker(trader, t).stage = "cycle"
      /\ NextTicker(trader, t).view = trader.view
      /\ NextTicker(trader, t).cached = trader.cached
      /\ NextTicker(trader, t).todo = trader.todo \ {t}
  BY NextTickerType, NextTickerView DEF TypeOK
<1>1. /\ UNCHANGED <<position, book, request>> /\ trader.stage = "record" /\ t \in Ticker
      /\ o \in OrderId /\ request[o].ticker = t
      /\ request[o].lots = trader.lots /\ Within(book[o].executed, trader.lots)
      /\ trader' = NextTicker(trader, t)
  BY DEF RecordAnswer, RowInv, StrayInv, LedgerInv, HoldInv, DrawnInv, Ordering
<1>2. CASE UNCHANGED rows
  BY <1>0, <1>1, <1>2, HoldTraderFrame
<1>3. CASE rows' = [rows EXCEPT ![o] = RowFor(trader.answer)]
  <2>1. DrawnInv /\ PositionInv /\ HeldInv
    BY DEF HoldInv
  <2>2. /\ \A i \in OrderId : i # o => rows'[i] = rows[i]
        /\ rows'[o] = RowFor(trader.answer)
    BY <1>1, <1>3 DEF TypeOK
  <2>3. rows'[o].status \in Untouched \cup {"none"} => rows'[o].lots = 0
    BY <2>2 DEF RowFor, Row, Untouched, Pending
  <2>4. \A u \in Ticker : Of(u)' = Of(u)
    BY <1>1 DEF Of
  <2>5. DrawnInv'
    <3>1. \A i \in OrderId : rows'[i].status \in Untouched \cup {"none"} => rows'[i].lots = 0
      BY <2>1, <2>2, <2>3 DEF DrawnInv
    <3> QED  BY <1>0, <1>1, <2>1, <2>4, <3>1 DEF DrawnInv, Ordering
  <2>6. PositionInv'
    BY <1>1, <2>1, PositionFrame
  <2>7. ASSUME NEW u \in Ticker, Seen(u)'
        PROVE  /\ Abs(Held(u)') <= MaxLots
               /\ u \in trader'.todo /\ trader'.view = "broker" => trader'.cached[u] = Held(u)'
               /\ ~Ordering'
    <3>1. Held(u)' = position[u] /\ ~Ordering'
      BY <1>0, <1>1 DEF Held, Ordering
    <3>2. Seen(u)
      BY <1>0, <1>1, <2>2, <2>7 DEF Seen, Of, InHand
    <3>3. /\ Abs(Held(u)) <= MaxLots
          /\ u \in trader.todo /\ trader.view = "broker" => trader.cached[u] = Held(u)
          /\ t = u => Abs(Held(u) + trader.lots) <= MaxLots
      BY <1>1, <2>1, <3>2 DEF HeldInv, Ordering
    <3>4. CASE u = t
      <4>1. Held(u) = position[u] - book[o].executed
        BY <1>1, <3>4 DEF Held
      <4>2. position[u] \in Int /\ book[o].executed \in Int /\ trader.lots \in Int
        BY <1>1, HoldTypes
      <4>3. Held(u) \in Int /\ Held(u) + book[o].executed = position[u]
        BY <4>1, <4>2
      <4>4. Abs(Held(u) + book[o].executed) <= MaxLots
        BY <1>1, <3>3, <3>4, <4>2, <4>3, PartWithin
      <4> QED  BY <1>0, <1>1, <3>1, <3>4, <4>3, <4>4
    <3>5. CASE u # t
      <4>1. Held(u) = position[u]
        BY <3>5 DEF Held
      <4> QED  BY <1>0, <1>1, <3>1, <3>3, <4>1
    <3> QED  BY <3>4, <3>5
  <2>8. HeldInv'
    BY <2>7 DEF HeldInv
  <2> QED  BY <2>5, <2>6, <2>8 DEF HoldInv
<1> QED  BY <1>2, <1>3 DEF RecordAnswer

\* Lots of an order that is not in hand execute unseen.
LEMMA HoldExecuteStep ==
    ASSUME TypeOK, RowInv, LedgerInv, HoldInv, NEW o \in OrderId, Execute(o)
    PROVE  HoldInv'
<1>1. UNCHANGED <<request, rows, trader>> /\ book[o].at = "open"
  BY DEF Execute
<1>2. PICK lot \in {1, -1} :
         /\ lot = IF request[o].lots > 0 THEN 1 ELSE -1
         /\ position' = [position EXCEPT ![request[o].ticker] = @ + lot]
         /\ \A i \in OrderId : i # o => book'[i] = book[i]
         /\ book'[o].executed = book[o].executed + lot
  BY DEF Execute, TypeOK
<1>3. DrawnInv /\ PositionInv /\ HeldInv
  BY DEF HoldInv
<1>4. /\ Within(book[o].executed, request[o].lots) /\ book[o].executed # request[o].lots
      /\ Within(rows[o].lots, book[o].executed)
  BY <1>1 DEF LedgerInv, LedgerNeverAhead
<1>5. book[o].executed \in Int /\ request[o].lots \in Int /\ rows[o].lots \in Int
  BY HoldTypes
<1>6. request[o].lots # 0 /\ rows[o].lots # book[o].executed + lot
  BY <1>2, <1>4, <1>5 DEF Within
<1> PICK t \in Ticker : t = request[o].ticker
  BY <1>3, <1>6 DEF DrawnInv
<1>7. /\ position'[t] = position[t] + lot
      /\ \A u \in Ticker : u # t => position'[u] = position[u]
  BY <1>2 DEF TypeOK
<1>8. \A u \in Ticker : Of(u)' = Of(u)
  BY <1>1 DEF Of
<1>9. DrawnInv'
  BY <1>1, <1>3, <1>8 DEF DrawnInv, Ordering
<1>10. PositionInv'
  <2>1. /\ \A i \in OrderId : Executed[i] \in Int /\ Executed'[i] \in Int
        /\ \A i \in OrderId \ {o} : Executed'[i] = Executed[i]
        /\ Executed'[o] - Executed[o] = lot
    BY <1>2, <1>5, HoldTypes DEF Executed
  <2>2. o \in Of(t) /\ IsFiniteSet(Of(t)) /\ Of(t) \subseteq OrderId
    BY <1>3 DEF Of, DrawnInv
  <2>3. SumFunctionOnSet(Executed', Of(t))
          = SumFunctionOnSet(Executed, Of(t)) + (Executed'[o] - Executed[o])
    <3>1. /\ \A x \in Of(t) : Executed[x] \in Int /\ Executed'[x] \in Int
          /\ \A x \in Of(t) \ {o} : Executed'[x] = Executed[x]
      BY <2>1, <2>2
    <3> QED  BY <2>2, <3>1, SumChange
  <2>4. position'[t] = SumFunctionOnSet(Executed', Of(t))
    BY <1>3, <1>7, <2>1, <2>3 DEF PositionInv
  <2>5. ASSUME NEW u \in Ticker, u # t
        PROVE  position'[u] = SumFunctionOnSet(Executed', Of(u))
    <3>1. IsFiniteSet(Of(u)) /\ \A i \in Of(u) : i \in OrderId \ {o}
      BY <1>3, <2>5 DEF Of, DrawnInv
    <3>2. \A i \in Of(u) : Executed[i] \in Int /\ Executed'[i] = Executed[i]
      BY <2>1, <3>1
    <3>3. SumFunctionOnSet(Executed, Of(u)) = SumFunctionOnSet(Executed', Of(u))
      BY <3>1, <3>2, SumSame
    <3> QED  BY <1>3, <1>7, <2>5, <3>3 DEF PositionInv
  <2> QED  BY <1>8, <2>4, <2>5 DEF PositionInv
<1>11. ASSUME NEW u \in Ticker, Seen(u)'
       PROVE  Seen(u) /\ Held(u)' = Held(u)
  <2>1. u = t => InHand(o)
    BY <1>1, <1>2, <1>6, <1>11 DEF Seen, Of, InHand
  <2>2. Seen(u)
    BY <1>1, <1>2, <1>11, <2>1 DEF Seen, Of, InHand
  <2>3. CASE u = t
    <3>1. trader.stage = "record" /\ trader.order = o /\ trader.ticker = t
      BY <1>3, <2>1, <2>3 DEF InHand, DrawnInv
    <3>2. Held(u) = position[t] - book[o].executed
      BY <2>3, <3>1 DEF Held
    <3>3. Held(u)' = (position[t] + lot) - (book[o].executed + lot)
      <4>1. Held(u)' = position'[t] - book'[o].executed
        BY <1>1, <2>3, <3>1 DEF Held
      <4> QED  BY <1>2, <1>7, <4>1, Zenon
    <3>4. position[t] \in Int /\ book[o].executed \in Int /\ lot \in Int
      BY HoldTypes
    <3> QED  BY <2>2, <3>2, <3>3, <3>4
  <2>4. CASE u # t
    <3>1. trader.stage = "record" /\ trader.ticker = u =>
             trader.order # o /\ trader.order \in OrderId
      BY <1>3, <2>4 DEF DrawnInv, RowInv
    <3> QED  BY <1>1, <1>2, <1>7, <2>2, <2>4, <3>1 DEF Held
  <2> QED  BY <2>3, <2>4
<1>12. HeldInv'
  BY <1>1, <1>3, <1>11 DEF HeldInv, Ordering
<1> QED  BY <1>9, <1>10, <1>12 DEF HoldInv

\* Actions of others than the trader: no lot moves.
LEMMA HoldOthersFrame ==
    ASSUME TypeOK, HoldInv, UNCHANGED <<position, request, trader>>,
           \A o \in OrderId : /\ book'[o].executed = book[o].executed
                              /\ rows'[o].lots = rows[o].lots
                              /\ rows'[o].status = rows[o].status \/ rows'[o].lots = 0,
           RowInv
    PROVE  HoldInv'
<1>1. DrawnInv /\ PositionInv /\ HeldInv
  BY DEF HoldInv
<1>2. \A u \in Ticker : Of(u)' = Of(u)
  BY DEF Of
<1>3. DrawnInv'
  BY <1>1, <1>2 DEF DrawnInv, Ordering
<1>4. PositionInv'
  BY <1>1, PositionFrame
<1>5. ASSUME NEW u \in Ticker
      PROVE  Seen(u)' = Seen(u) /\ Held(u)' = Held(u)
  <2>1. Seen(u)' = Seen(u)
    BY <1>2 DEF Seen, InHand, Of
  <2>2. Held(u)' = Held(u)
    BY DEF Held, RowInv
  <2> QED  BY <2>1, <2>2
<1>6. HeldInv'
  BY <1>1, <1>5 DEF HeldInv, Ordering
<1> QED  BY <1>3, <1>4, <1>6 DEF HoldInv

LEMMA HoldRecoverStep ==
    ASSUME TypeOK, RowInv, HoldInv, NEW q \in Process, NEW o \in OrderId, Recover(q, o)
    PROVE  HoldInv'
<1>1. /\ o \in recovery[q].pending /\ UNCHANGED <<position, request, trader>>
  BY DEF Recover
<1>2. rows[o].lots = 0
  BY <1>1 DEF RowInv, HoldInv, DrawnInv
<1>3. \A i \in OrderId : book'[i].executed = book[i].executed
  <2>1. CASE UNCHANGED book
    BY <2>1
  <2>2. CASE book' = [book EXCEPT ![o].at = "closed"]
    BY <2>2 DEF TypeOK, BookEntry
  <2> QED  BY <2>1, <2>2 DEF Recover
<1>4. \A i \in OrderId : /\ rows'[i].lots = rows[i].lots
                         /\ rows'[i].status = rows[i].status \/ rows'[i].lots = 0
  <2>1. CASE UNCHANGED rows
    BY <2>1
  <2>2. ASSUME NEW status, rows' = [rows EXCEPT ![o] = Row(status, 0)]
        PROVE  \A i \in OrderId : /\ rows'[i].lots = rows[i].lots
                                  /\ rows'[i].status = rows[i].status \/ rows'[i].lots = 0
    <3>1. Row(status, 0).lots = 0
      BY DEF Row
    <3> QED  BY <1>2, <2>2, <3>1 DEF TypeOK
  <2> QED  BY <2>1, <2>2 DEF Recover
<1> QED  BY <1>1, <1>3, <1>4, HoldOthersFrame

LEMMA HoldProcessStep ==
    ASSUME TypeOK, RecoveryInv, RowInv, HoldInv
    PROVE  /\ StartTrader => HoldInv'
           /\ TraderReady => HoldInv'
           /\ Crash => HoldInv'
           /\ StartReset => HoldInv'
           /\ EndReset => HoldInv'
           /\ \A q \in Process : ListOpen(q) => HoldInv'
           /\ \A o \in OrderId : Expire(o) => HoldInv'
<1>1. ASSUME StartTrader PROVE HoldInv'
  <2>1. trader'.stage = "recovering" /\ trader'.view = "stale"
    BY <1>1 DEF StartTrader, Fresh
  <2>2. UNCHANGED <<position, request, rows, book>>
    BY <1>1 DEF StartTrader
  <2> QED  BY <2>1, <2>2, HoldTraderFrame
<1>2. Fresh.stage = "down" /\ Fresh.view = "stale"
  BY DEF Fresh
<1>3. ASSUME TraderReady PROVE HoldInv'
  <2>1. trader'.stage \in {"down", "idle"} /\ trader'.view = "stale"
    <3>1. CASE trader' = Fresh
      BY <1>2, <3>1
    <3>2. CASE trader' = [trader EXCEPT !.stage = "idle"]
      <4>1. trader.view = "stale"
        BY <1>3 DEF TraderReady, EndRecovery, RecoveryInv, HoldInv, DrawnInv
      <4> QED  BY <3>2, <4>1 DEF TypeOK, Trader
    <3> QED  BY <1>3, <3>1, <3>2 DEF TraderReady
  <2>2. UNCHANGED <<position, request, rows, book>>
    BY <1>3 DEF TraderReady
  <2> QED  BY <2>1, <2>2, HoldTraderFrame
<1>4. ASSUME Crash PROVE HoldInv'
  <2>1. UNCHANGED <<position, request, rows, book>> /\ trader' = Fresh
    BY <1>4 DEF Crash
  <2> QED  BY <1>2, <2>1, HoldTraderFrame
<1>5. ASSUME \/ StartReset \/ EndReset \/ \E q \in Process : ListOpen(q)
             \/ \E o \in OrderId : Expire(o)
      PROVE  HoldInv'
  <2>1. UNCHANGED <<position, request, rows, trader>>
    BY <1>5 DEF StartReset, EndReset, ListOpen, Expire
  <2>2. \A o \in OrderId : book'[o].executed = book[o].executed
    <3>1. CASE \E o \in OrderId : Expire(o)
      BY <3>1 DEF Expire, TypeOK, BookEntry
    <3>2. CASE UNCHANGED book
      BY <3>2
    <3> QED  BY <1>5, <3>1, <3>2 DEF StartReset, EndReset, ListOpen
  <2> QED  BY <2>1, <2>2, HoldOthersFrame
<1> QED  BY <1>1, <1>3, <1>4, <1>5

LEMMA HoldStep ==
    OrdersInv /\ RowInv /\ StrayInv /\ LedgerInv /\ HoldInv /\ [Next]_vars => HoldInv'
<1> SUFFICES ASSUME OrdersInv, RowInv, StrayInv, LedgerInv, HoldInv, [Next]_vars PROVE HoldInv'
  OBVIOUS
<1>1. TypeOK /\ RecoveryInv
  BY DEF OrdersInv
<1>2. CASE UNCHANGED vars
  <2>1. UNCHANGED <<position, request, rows, book, trader>>
    BY <1>2 DEF vars
  <2> QED  BY <1>1, <2>1, HoldOthersFrame
<1>3. CASE \/ BeginCycle \/ EndCycle \/ StoreSwitch \/ CancelOpenOrders
           \/ \E t \in Ticker : Skip(t) \/ TripSwitch(t)
  BY <1>1, <1>3, HoldCycleStep
<1>4. CASE \E t \in Ticker : Approve(t)
  BY <1>1, <1>4, HoldApproveStep
<1>5. CASE RecordIntent
  BY <1>1, <1>5, HoldIntentStep
<1>6. CASE PostOrder
  BY <1>1, <1>6, HoldPostStep
<1>7. CASE RecordAnswer
  BY <1>1, <1>7, HoldRecordStep
<1>8. CASE \E o \in OrderId : Execute(o)
  BY <1>1, <1>8, HoldExecuteStep
<1>9. CASE \E q \in Process, o \in OrderId : Recover(q, o)
  BY <1>1, <1>9, HoldRecoverStep
<1>10. CASE \/ StartTrader \/ TraderReady \/ Crash \/ StartReset \/ EndReset
            \/ \E q \in Process : ListOpen(q)
            \/ \E o \in OrderId : Expire(o)
  BY <1>1, <1>10, HoldProcessStep
<1> QED  BY <1>2, <1>3, <1>4, <1>5, <1>6, <1>7, <1>8, <1>9, <1>10 DEF Next

\* With every row true, the one in hand too, what is held is the position.
LEMMA HeldIsSeen == TypeOK /\ RowInv /\ HoldInv => SeenPositionWithinLots
<1> SUFFICES ASSUME TypeOK, RowInv, HoldInv, NEW t \in Ticker,
                    \A o \in Of(t) : rows[o].lots = book[o].executed
             PROVE  ~(Abs(position[t]) > MaxLots)
  BY DEF SeenPositionWithinLots, Of
<1>1. Abs(Held(t)) <= MaxLots
  BY DEF Seen, HoldInv, HeldInv
<1>2. Held(t) = position[t]
  <2>1. CASE trader.stage = "record" /\ trader.ticker = t
    <3>1. trader.order \in Of(t) /\ rows[trader.order].lots = 0
      BY <2>1 DEF HoldInv, DrawnInv, RowInv, Of, Untouched, Pending
    <3>2. book[trader.order].executed = 0
      BY <3>1
    <3> QED  BY <2>1, <3>2, HoldTypes DEF Held
  <2>2. CASE ~(trader.stage = "record" /\ trader.ticker = t)
    BY <2>2 DEF Held
  <2> QED  BY <2>1, <2>2
<1> QED  BY <1>1, <1>2, HoldTypes, LotsAssumption DEF Abs

(***************************************************************************)
(* A position is beyond max_lots only with lots of an order whose row does *)
(* not say what it executed: neither a cached portfolio nor the ledger     *)
(* that stands in for it makes the gate take too much, as long as nobody   *)
(* resets a switch that is not on.                                         *)
(***************************************************************************)
THEOREM SeenPositionsHold ==
    ASSUME ~ResetAnyTime
    PROVE  Spec => []SeenPositionWithinLots
<1>1. Init => RowInv /\ StrayInv /\ LedgerInv /\ HoldInv
  BY RowInit, StrayInit, LedgerInit, HoldInit
<1>2. OrdersInv /\ RowInv /\ [Next]_vars => RowInv' /\ [KeepsFills]_vars
  BY RowStep
<1>3. OrdersInv /\ RowInv /\ StrayInv /\ [Next]_vars => StrayInv'
  BY StrayStep
<1>4. OrdersInv /\ RowInv /\ StrayInv /\ LedgerInv /\ [Next]_vars => LedgerInv'
  BY LedgerStep
<1>5. OrdersInv /\ RowInv /\ StrayInv /\ LedgerInv /\ HoldInv /\ [Next]_vars => HoldInv'
  BY HoldStep
<1>6. OrdersInv /\ RowInv /\ HoldInv => SeenPositionWithinLots
  BY HeldIsSeen DEF OrdersInv
<1> QED  BY <1>1, <1>2, <1>3, <1>4, <1>5, <1>6, OrdersInvariant, PTL DEF Spec

=============================================================================
