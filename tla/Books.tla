-------------------------------- MODULE Books --------------------------------
(***************************************************************************)
(* The books kept over one stream of executed orders, and the two gates    *)
(* that read them.                                                         *)
(*                                                                         *)
(* Every execution is a row of the audit log.  storage.go sums the rows    *)
(* for positions and exposure; risk.TickerBreaker follows the fills it is  *)
(* shown while the trader lives, and is seeded from the rows when it       *)
(* starts; the daily summary and internal/pnl replay the rows; the         *)
(* backtest engine keeps books of its own and feeds a breaker of its own.  *)
(* The gate admits an order by the breaker and by the ledger's exposure.   *)
(*                                                                         *)
(* Lots are signed.  The code keeps an average entry price, here it is     *)
(* basis = lots * average; amounts are integers.  An order executes a      *)
(* spread away from the quoted price, and a position is what its rows say: *)
(* answers that are lost are left out (Orders.tla has them).               *)
(***************************************************************************)
EXTENDS Integers, FiniteSetsExt, Functions

CONSTANTS
    Ticker,
    Price,                 \* quoted prices
    SpreadDivisor,         \* spread and slippage are the price divided by this
    Target,                \* lots a signal may ask for
    MaxLots,               \* risk.max_lots
    LotSize,               \* [Ticker -> Nat]: shares in a lot
    RateDivisor,           \* the commission is the amount divided by this
    MinDeviationPct,       \* risk.rebalance_min_deviation_pct, in percent
    MaxNetExposure, MaxNetShort, MaxNetLong,  \* caps of the gate, 0 for none
    SectorCaps,            \* {[names : SUBSET Ticker, cap : Nat]}
    MaxConsecutiveLosses,  \* of the breaker
    LossLimit,             \* notional * max_loss_pct, 0 for none
    MaxFills               \* bound on the fills of a behavior

ASSUME TickerAssumption == IsFiniteSet(Ticker)
ASSUME TradeAssumption ==
    /\ Price \subseteq Nat \ {0}
    /\ Target \subseteq Int
    /\ LotSize \in [Ticker -> Nat \ {0}]
    /\ {RateDivisor, SpreadDivisor} \subseteq Nat \ {0}
ASSUME LimitAssumption ==
    /\ {MaxLots, MinDeviationPct, MaxNetExposure, MaxNetShort, MaxNetLong,
        LossLimit, MaxFills} \subseteq Nat
    /\ MaxConsecutiveLosses \in Nat \ {0}
    /\ \A s \in SectorCaps : s.names \subseteq Ticker /\ s.cap \in Nat

VARIABLES
    store,    \* per ticker, what Store.ledgerExposure makes of its rows
    live,     \* the running trader's TickerBreaker
    seeded,   \* the TickerBreaker the rows would seed
    summary,  \* the positions the daily summary and pnl.Replay derive
    engine,   \* a backtest that makes the same trades
    tested,   \* the TickerBreaker that backtest feeds
    missed,   \* history: per ticker, rows and live breaker may differ
    covered,  \* history: per ticker, a buy has reduced a short
    trimmed,  \* history: per ticker, a position was reduced but not closed
    fills     \* fills so far

vars == <<store, live, seeded, summary, engine, tested, missed, covered,
          trimmed, fills>>

-----------------------------------------------------------------------------
(***************************************************************************)
(* Amounts                                                                 *)
(***************************************************************************)
Abs(n) == IF n < 0 THEN -n ELSE n
Least(m, n) == IF m < n THEN m ELSE n
SameSide(m, n) == (m > 0) = (n > 0)

\* The part of an amount that belongs to `part` of `whole` lots.
Share(amount, part, whole) == (amount * part) \div whole

\* The part that goes with `closed` of `whole` lots: the others keep theirs.
Freed(amount, closed, whole) == amount - Share(amount, whole - closed, whole)

\* The price of a fill for an order, or a target, of `lots` at a quoted price.
FillPrice(lots, quote) ==
    IF lots < 0 THEN quote - quote \div SpreadDivisor ELSE quote + quote \div SpreadDivisor

Commission(lots, price) == (Abs(lots) * price) \div RateDivisor

\* What an execution costs in money, negative for the proceeds of a sale.
Paid(lots, price) == lots * price + Commission(lots, price)

(* The unit of money is small enough for a spread and a commission to be   *)
(* counted in it, as the code's decimals count them without rounding.      *)
ASSUME UnitAssumption ==
    /\ RateDivisor > 1
    /\ \A quote \in Price :
          /\ quote % SpreadDivisor = 0
          /\ \A side \in {-1, 1} : FillPrice(side, quote) % RateDivisor = 0

-----------------------------------------------------------------------------
(***************************************************************************)
(* risk.TickerBreaker                                                      *)
(***************************************************************************)
Untouched == [lots |-> 0, basis |-> 0, realized |-> 0, losses |-> 0, tripped |-> FALSE]

LossesAfter(losses, pnl) == IF pnl < 0 THEN losses + 1 ELSE 0

\* tickerState.evaluateTrip
Trips(losses, realized) ==
    \/ losses >= MaxConsecutiveLosses
    \/ LossLimit > 0 /\ -realized >= LossLimit

(***************************************************************************)
(* tickerState.record.  A fill against the position closes what it can, at *)
(* the average cost of the position and its own share of the commission,   *)
(* and what is left of it opens a position on the other side.              *)
(***************************************************************************)
\* Mutant: the commission of an entry is forgotten.
AddFree(s, lots, price) == [s EXCEPT !.lots = @ + lots, !.basis = @ + lots * price]

Add(s, lots, price) ==
    [s EXCEPT !.lots = @ + lots, !.basis = @ + Paid(lots, price)]

\* Mutant: a fill larger than the position only closes it.
ReduceOnly(s, lots, price) ==
    LET closed == Least(Abs(s.lots), Abs(lots))
        cost   == Freed(s.basis, closed, Abs(s.lots))
    IN [s EXCEPT !.lots = IF s.lots > 0 THEN @ - closed ELSE @ + closed,
                 !.basis = @ - cost,
                 !.realized = @ - (cost + Share(Paid(lots, price), closed, Abs(lots)))]

Reduce(s, lots, price) ==
    LET closed == Least(Abs(s.lots), Abs(lots))
        cost   == Freed(s.basis, closed, Abs(s.lots))
        back   == Share(Paid(lots, price), closed, Abs(lots))
        pnl    == -(cost + back)
        losses == LossesAfter(s.losses, pnl)
    IN [lots     |-> s.lots + lots,
        basis    |-> s.basis - cost + Paid(lots, price) - back,
        realized |-> s.realized + pnl,
        losses   |-> losses,
        tripped  |-> s.tripped \/ Trips(losses, s.realized + pnl)]

Record(s, lots, price) ==
    IF s.lots = 0 \/ SameSide(s.lots, lots) THEN Add(s, lots, price)
                                            ELSE Reduce(s, lots, price)

-----------------------------------------------------------------------------
(***************************************************************************)
(* position.record of the daily summary, and Position.record of            *)
(* internal/pnl, the same code: they subtract the closed lots from a short *)
(* as from a long, where the breaker adds them.                            *)
(***************************************************************************)
NoPosition == [lots |-> 0, basis |-> 0, realized |-> 0]

\* Mutant: here too.
SummaryReduceOnly(s, lots, price) ==
    LET closed == Least(Abs(s.lots), Abs(lots))
        cost   == Freed(s.basis, closed, Abs(s.lots))
    IN [lots     |-> s.lots - closed,
        basis    |-> s.basis - cost,
        realized |-> s.realized - (cost + Share(Paid(lots, price), closed, Abs(lots)))]

SummaryReduce(s, lots, price) ==
    LET closed == Least(Abs(s.lots), Abs(lots))
        rest   == Abs(lots) - closed
        cost   == Freed(s.basis, closed, Abs(s.lots))
        back   == Share(Paid(lots, price), closed, Abs(lots))
        kept   == s.lots - closed
    IN [lots     |-> IF rest = 0 THEN kept ELSE IF lots < 0 THEN -rest ELSE rest,
        basis    |-> IF rest = 0 THEN Share(s.basis, Abs(kept), Abs(s.lots))
                                 ELSE Paid(lots, price) - back,
        realized |-> s.realized - (cost + back)]

SummaryRecord(s, lots, price) ==
    IF s.lots = 0 \/ SameSide(s.lots, lots) THEN Add(s, lots, price)
                                            ELSE SummaryReduce(s, lots, price)

-----------------------------------------------------------------------------
(***************************************************************************)
(* backtest.Engine: the average price is kept without commissions, these   *)
(* are paid in a pot of their own, and a position is told its target.      *)
(***************************************************************************)
NoTrade == [lots |-> 0, basis |-> 0, comm |-> 0, realized |-> 0]

\* newPosition
Opened(e, lots, price) ==
    [e EXCEPT !.lots = lots, !.basis = lots * price, !.comm = Commission(lots, price)]

\* Mutant: the entry commission of the closed lots stays with the position.
ClosedKeepsFee(e, closed, price) ==
    LET cost == Freed(e.basis, closed, Abs(e.lots))
        side == IF e.lots > 0 THEN closed ELSE -closed
    IN [e EXCEPT !.lots = @ - side, !.basis = @ - cost,
                 !.realized = @ + side * price - cost - Commission(closed, price)]

\* closeTrade and what its callers do with it, for `closed` lots of e.
Closed(e, closed, price) ==
    LET cost == Freed(e.basis, closed, Abs(e.lots))
        side == IF e.lots > 0 THEN closed ELSE -closed
        fee  == Freed(e.comm, closed, Abs(e.lots))
    IN [lots     |-> e.lots - side,
        basis    |-> e.basis - cost,
        comm     |-> e.comm - fee,
        realized |-> e.realized + side * price - cost - (fee + Commission(closed, price))]

\* Engine.recordFill, and closePositionLocked for a target of zero.
EngineFill(e, desired, price) ==
    IF e.lots = 0
    THEN Opened(e, desired, price)
    ELSE IF desired = 0 \/ ~SameSide(desired, e.lots)
    THEN LET flat == Closed(e, Abs(e.lots), price)
         IN IF desired = 0 THEN flat ELSE Opened(flat, desired, price)
    ELSE IF Abs(desired) > Abs(e.lots)
    THEN [e EXCEPT !.lots = desired,
                   !.basis = @ + (desired - e.lots) * price,
                   !.comm = @ + Commission(desired - e.lots, price)]
    ELSE Closed(e, Abs(e.lots) - Abs(desired), price)

\* Engine.feedBreaker: a reversal is two fills there.
FeedBreaker(b, held, desired, price) ==
    IF held # 0 /\ desired # 0 /\ ~SameSide(held, desired)
    THEN Record(Record(b, -held, price), desired, price)
    ELSE Record(b, desired - held, price)

-----------------------------------------------------------------------------
(***************************************************************************)
(* risk.HardenedGate: what it asks the ledger and the breaker.             *)
(***************************************************************************)

\* Store.ExposureByTicker: the money a name's rows cost, if any lots are left.
Leg(t) == IF store[t].lots = 0 THEN 0 ELSE store[t].cost

SumLegs(names) == SumFunctionOnSet([n \in Ticker |-> Leg(n)], names)
SumSizes(names) == SumFunctionOnSet([n \in Ticker |-> Abs(Leg(n))], names)

\* Mutant: a long and a short cancel.
ProjectedNet(names, t, change) == Abs(SumLegs(names) + change)

\* The gross exposure of names when the one of t changes.
Projected(names, t, change) == SumSizes(names \ {t}) + Abs(Leg(t) + change)

\* exceedsMaxNetExposure, in spite of its name a cap on the gross exposure.
ExceedsMaxNetExposure(t, change) ==
    MaxNetExposure > 0 /\ Projected(Ticker, t, change) > MaxNetExposure

ExceedsNetDirection(t, change) ==
    LET after == SumLegs(Ticker) + change
    IN \/ change < 0 /\ MaxNetShort > 0 /\ -after > MaxNetShort
       \/ change > 0 /\ MaxNetLong > 0 /\ after > MaxNetLong

ExceedsSectorCap(t, change) ==
    \E s \in SectorCaps : t \in s.names /\ Projected(s.names, t, change) > s.cap

(***************************************************************************)
(* ApproveReason, without the account's limits (Orders.tla).  No cap is    *)
(* asked about a flattening signal, whose target is zero.                  *)
(***************************************************************************)
Approved(t, desired, price) ==
    LET change == (desired - store[t].lots) * LotSize[t] * price
    IN /\ ~live[t].tripped
       /\ Abs(desired) <= MaxLots
       /\ (desired # 0 /\ change # 0) =>
             /\ ~ExceedsMaxNetExposure(t, change)
             /\ ~ExceedsNetDirection(t, change)
             /\ ~ExceedsSectorCap(t, change)

\* TargetPositionExecutor.skipRebalance
SkipRebalance(held, desired) ==
    LET size == Abs(desired - held)
    IN /\ MinDeviationPct > 0
       /\ desired # 0
       /\ \/ size <= 1 /\ held # 0 /\ SameSide(held, desired)
          \/ size * 100 <= MinDeviationPct * Abs(desired)

-----------------------------------------------------------------------------
(***************************************************************************)
(* Steps                                                                   *)
(***************************************************************************)
Ledger == [lots : Int, cost : Int, fees : Int]
TickerState == [lots : Int, basis : Int, realized : Int, losses : Nat, tripped : BOOLEAN]
Position == [lots : Int, basis : Int, realized : Int]
EnginePosition == [lots : Int, basis : Int, comm : Int, realized : Int]

TypeOK ==
    /\ store \in [Ticker -> Ledger]
    /\ live \in [Ticker -> TickerState]
    /\ seeded \in [Ticker -> TickerState]
    /\ tested \in [Ticker -> TickerState]
    /\ summary \in [Ticker -> Position]
    /\ engine \in [Ticker -> EnginePosition]
    /\ missed \in [Ticker -> BOOLEAN]
    /\ covered \in [Ticker -> BOOLEAN]
    /\ trimmed \in [Ticker -> BOOLEAN]
    /\ fills \in 0 .. MaxFills

Init ==
    /\ store = [t \in Ticker |-> [lots |-> 0, cost |-> 0, fees |-> 0]]
    /\ live = [t \in Ticker |-> Untouched]
    /\ seeded = [t \in Ticker |-> Untouched]
    /\ summary = [t \in Ticker |-> NoPosition]
    /\ engine = [t \in Ticker |-> NoTrade]
    /\ tested = [t \in Ticker |-> Untouched]
    /\ missed = [t \in Ticker |-> FALSE]
    /\ covered = [t \in Ticker |-> FALSE]
    /\ trimmed = [t \in Ticker |-> FALSE]
    /\ fills = 0

\* A row with `lots` at `price` is in the audit log; fees are not read there.
Row(s, lots, price) ==
    [lots |-> s.lots + lots, cost |-> s.cost + lots * price,
     fees |-> s.fees + Commission(lots, price)]

\* breakerFillObserver: an order that was filled in part comes as an error.
Observed(t, delta, lots, price) ==
    live' = [live EXCEPT ![t] = IF lots = delta THEN Record(@, lots, price) ELSE @]

\* The executions an order for delta lots may come back with.
Executions(delta) ==
    {lots \in -Abs(delta)..Abs(delta) : lots # 0 /\ SameSide(lots, delta)}

\* The price the backtest fills at follows the side of the target: a position
\* that is reduced is bought and sold like one that grows.
EnginePrice(held, desired, quote) ==
    FillPrice(IF desired = 0 THEN -held ELSE desired, quote)

(***************************************************************************)
(* A signal passes the gate and TargetPositionExecutor, and its order is   *)
(* executed, whole or in part.                                             *)
(***************************************************************************)
Trade(t, desired, quote, lots) ==
    LET held  == store[t].lots
        price == FillPrice(lots, quote)
        sim   == EnginePrice(held, held + lots, quote)
    IN /\ fills < MaxFills
       /\ fills' = fills + 1
       /\ Approved(t, desired, quote)
       /\ ~SkipRebalance(held, desired)
       /\ lots \in Executions(desired - held)
       /\ store' = [store EXCEPT ![t] = Row(@, lots, price)]
       /\ Observed(t, desired - held, lots, price)
       /\ seeded' = [seeded EXCEPT ![t] = Record(@, lots, price)]
       /\ summary' = [summary EXCEPT ![t] = SummaryRecord(@, lots, price)]
       /\ engine' = [engine EXCEPT ![t] = EngineFill(@, held + lots, sim)]
       /\ tested' = [tested EXCEPT ![t] = FeedBreaker(@, held, held + lots, sim)]
       /\ missed' = [missed EXCEPT ![t] = @ \/ lots # desired - held]
       /\ covered' = [covered EXCEPT ![t] = @ \/ (held < 0 /\ lots > 0 /\ held + lots <= 0)]
       /\ trimmed' = [trimmed EXCEPT ![t] = @ \/ (~SameSide(held, lots) /\ SameSide(held, held + lots)
                                                /\ held + lots # 0 /\ held # 0)]

\* Mutant: a start unblocks every name.
RestartUnblocks ==
    /\ live' = [t \in Ticker |-> [seeded[t] EXCEPT !.losses = 0, !.tripped = FALSE]]
    /\ missed' = [t \in Ticker |-> FALSE]
    /\ UNCHANGED <<store, seeded, summary, engine, tested, covered, trimmed, fills>>

\* seedTickerBreaker at the start of a trader, from every row of the log.
Restart ==
    /\ live' = seeded
    /\ missed' = [t \in Ticker |-> FALSE]
    /\ UNCHANGED <<store, seeded, summary, engine, tested, covered, trimmed, fills>>

\* The log could not be read: run only notes it, and the breaker starts empty.
RestartUnread ==
    /\ live' = [t \in Ticker |-> Untouched]
    /\ missed' = [t \in Ticker |-> TRUE]
    /\ UNCHANGED <<store, seeded, summary, engine, tested, covered, trimmed, fills>>

Next ==
    \/ \E t \in Ticker, desired \in Target, quote \in Price :
          \E lots \in Executions(desired - store[t].lots) : Trade(t, desired, quote, lots)
    \/ Restart
    \/ RestartUnread

Spec == Init /\ [][Next]_vars

-----------------------------------------------------------------------------
(***************************************************************************)
(* Properties.                                                             *)
(***************************************************************************)

(* The positions of the ledger, the seeded breaker and the backtest are    *)
(* one position, however they split a fill that reverses it.               *)
SameLots ==
    \A t \in Ticker : /\ seeded[t].lots = store[t].lots
                      /\ engine[t].lots = store[t].lots
                      /\ tested[t].lots = store[t].lots

BooksInv == TypeOK /\ SameLots

(* No money is lost or made by the average cost accounting: what a         *)
(* position still has tied up, less what it has realized, is what its rows *)
(* paid.  So the exposure the gate reads is the cost of the lots held only *)
(* up to everything the name ever realized.                                *)
MoneyConserved ==
    \A t \in Ticker :
       seeded[t].basis - seeded[t].realized = store[t].cost + store[t].fees

\* The part of a position its leg does not show: what the name earned before
\* counts against a long, what it lost against a short.  A flat name has none.
Hidden(t) ==
    LET result == engine[t].basis - Leg(t)
    IN IF store[t].lots > 0 /\ result > 0 THEN result
       ELSE IF store[t].lots < 0 /\ result < 0 THEN -result
       ELSE 0

\* The spread on the largest order there is.
Slippage(quote) == 2 * MaxLots * (quote \div SpreadDivisor)

(* The cap on gross exposure holds at average cost but for the parts of    *)
(* the positions held now that their legs hide, and for the spread of one  *)
(* order: the gate asks at the quoted price.  What a flat name has earned, *)
(* and results that make a leg larger, excuse nothing.  (Amounts are lots  *)
(* times price, as in the ledger: shares in a lot are in neither side.)    *)
CapUpToRealized ==
    MaxNetExposure > 0 =>
       \E quote \in Price \cup {0} :
          SumFunctionOnSet([t \in Ticker |-> Abs(engine[t].basis)], Ticker)
            <= MaxNetExposure + SumFunctionOnSet([t \in Ticker |-> Hidden(t)], Ticker)
                 + Slippage(quote)

(* A restart does not change the breaker's verdict on a name whose orders  *)
(* were all filled whole: what the trader saw fill by fill is what the     *)
(* rows tell the next one.                                                 *)
RestartKeepsVerdict == \A t \in Ticker : missed[t] \/ live[t] = seeded[t]

(* The backtest earns what the live books earn by the same trades, and its *)
(* breaker trips on the same trade, though it keeps commissions apart and  *)
(* reverses a position in two steps -- as long as no position was reduced  *)
(* without being closed.  Then it has taken the spread where the live book *)
(* paid it, and has earned more.                                           *)
BacktestAgrees ==
    \A t \in Ticker :
       IF trimmed[t]
       THEN /\ engine[t].realized >= seeded[t].realized
            /\ engine[t].lots = 0 => engine[t].realized > seeded[t].realized
       ELSE /\ engine[t].realized = seeded[t].realized
            /\ engine[t].basis + engine[t].comm = seeded[t].basis
            /\ tested[t] = seeded[t]

(* The daily summary and the P&L replay agree with the breaker they are    *)
(* said to mirror as long as no buy has reduced a short.  (Then they keep  *)
(* a short of twice the lots instead of none.)                             *)
SummaryAgrees ==
    \A t \in Ticker : covered[t] \/ /\ summary[t].lots = seeded[t].lots
                                    /\ summary[t].basis = seeded[t].basis
                                    /\ summary[t].realized = seeded[t].realized
=============================================================================
