------------------------------- MODULE Orders -------------------------------
(***************************************************************************)
(* From a signal to the ledger: the trading cycle of one trader process    *)
(* (internal/orchestrator, internal/risk, internal/executor), the SQLite   *)
(* rows it keeps (internal/storage), the broker's account, and a second    *)
(* process on the same database, cmd/trader -reset-kill-switch.            *)
(*                                                                         *)
(* Lots are signed: buys are positive, sells negative.  A signal is the    *)
(* position it asks for.  Prices, exposure caps, the fat-finger band, the  *)
(* breaker, trading hours and cooldowns only turn an order into no order   *)
(* (Skip).  A call to the broker or a write that fails, an answer that is  *)
(* lost and a crash are faults; MaxFaults bounds them.                     *)
(***************************************************************************)
EXTENDS Integers, FiniteSetsExt, Functions

CONSTANTS
    Ticker,                 \* the configured tickers
    OrderId,                \* the uuids the executor draws, in drawing order
    MaxLots,                \* risk.max_lots
    KillSwitchOnDailyLoss,  \* risk.kill_switch_on_daily_loss
    ResetAnyTime,           \* the operator resets a switch that is not on
    MaxFaults               \* bound on faults

ASSUME OrderIdAssumption == OrderId \subseteq Nat
ASSUME LotsAssumption == MaxLots \in Nat \ {0} /\ MaxFaults \in Nat
ASSUME FlagAssumption ==
    KillSwitchOnDailyLoss \in BOOLEAN /\ ResetAnyTime \in BOOLEAN

VARIABLES
    position,  \* the broker's portfolio, lots per ticker
    book,      \* the broker's orders
    request,   \* what each order asked for; lots 0: the uuid is not drawn
    rows,      \* audit_events, the executor's row of each order
    switch,    \* the kill_switch row
    trader,    \* the trader process, see Trader
    recovery,  \* RecoverPendingOrders in each of the two processes
    trip,      \* history: what became of the last trip, see Trip
    faults     \* faults so far

broker == <<position, book>>
vars == <<position, book, request, rows, switch, trader, recovery, trip, faults>>

Process == {"trader", "reset"}
NoTicker == "no ticker"

ASSUME TickerAssumption == NoTicker \notin Ticker

(***************************************************************************)
(* The executor's row statuses.  "refused" stands for rejected and         *)
(* cancelled, which are handled alike.                                     *)
(***************************************************************************)
Pending == {"requires_reconciliation", "new"}
Settled == {"filled", "refused", "cancelled_on_recovery", "closed_on_recovery"}
Status == Pending \cup Settled \cup {"none", "partially_filled", "unspecified"}

(***************************************************************************)
(* Where the trader is: between cycles, in a cycle, before the three steps *)
(* of an order, before the two of a trip.  view is the position cache.     *)
(***************************************************************************)
Stage == {"down", "recovering", "idle", "cycle", "intent", "post", "record",
          "trip", "cancel"}
Account == {"fine", "loss", "drawdown"}
Answer == [status : Status, executed : Int]
NoAnswer == [status |-> "none", executed |-> 0]

Trader ==
    [stage    : Stage,
     halted   : BOOLEAN,          \* HardenedGate.killSwitch
     resolved : SUBSET Ticker,    \* Sandbox.instruments
     view     : {"stale", "broker", "ledger"},
     cached   : [Ticker -> Int],  \* reconcilingPositionReader.cached
     account  : Account,
     todo     : SUBSET Ticker,
     ticker   : Ticker \cup {NoTicker},
     lots     : Int,
     order    : Int,
     answer   : Answer]

NothingCached == [t \in Ticker |-> 0]

Fresh ==
    [stage |-> "down", halted |-> FALSE, resolved |-> {}, view |-> "stale",
     cached |-> NothingCached, account |-> "fine", todo |-> {},
     ticker |-> NoTicker, lots |-> 0, order |-> 0, answer |-> NoAnswer]

BookEntry == [at : {"unsent", "open", "closed"}, executed : Int]
Request == [ticker : Ticker \cup {NoTicker}, lots : Int]
AuditRow == [status : Status, lots : Int]

Recovery ==
    [stage   : {"off", "listed", "cancelling"},
     pending : SUBSET OrderId,   \* listed in the store, not yet handled
     open    : SUBSET OrderId,   \* listed by the broker
     failed  : BOOLEAN]

NoRecovery == [stage |-> "off", pending |-> {}, open |-> {}, failed |-> FALSE]

(***************************************************************************)
(* "memory": the process that tripped lives but could not store it;        *)
(* "forgotten": it died since.                                             *)
(***************************************************************************)
Trip == {"none", "memory", "stored", "forgotten"}

TypeOK ==
    /\ position \in [Ticker -> Int]
    /\ book \in [OrderId -> BookEntry]
    /\ request \in [OrderId -> Request]
    /\ rows \in [OrderId -> AuditRow]
    /\ switch \in BOOLEAN
    /\ trader \in Trader
    /\ recovery \in [Process -> Recovery]
    /\ trip \in Trip
    /\ faults \in 0..MaxFaults

Init ==
    /\ position = [t \in Ticker |-> 0]
    /\ book = [o \in OrderId |-> [at |-> "unsent", executed |-> 0]]
    /\ request = [o \in OrderId |-> [ticker |-> NoTicker, lots |-> 0]]
    /\ rows = [o \in OrderId |-> [status |-> "none", lots |-> 0]]
    /\ switch = FALSE
    /\ trader = Fresh
    /\ recovery = [p \in Process |-> NoRecovery]
    /\ trip = "none"
    /\ faults = 0

Fault ==
    /\ faults < MaxFaults
    /\ faults' = faults + 1

-----------------------------------------------------------------------------
(***************************************************************************)
(* Reading positions                                                       *)
(***************************************************************************)

\* Store.CurrentLots: an order counts with the lots its row holds.
Ledger(t) ==
    SumFunctionOnSet([o \in OrderId |-> rows[o].lots], {o \in OrderId : request[o].ticker = t})

(***************************************************************************)
(* reconcilingPositionReader: a cached portfolio serves for a minute, less *)
(* than a poll and perhaps less than a cycle; refreshing it resolves every *)
(* ticker, and when that fails the ledger serves instead.                  *)
(***************************************************************************)
Read(how) ==
    CASE how = "kept"   -> trader
      [] how = "broker" -> [trader EXCEPT !.view = "broker",
                                          !.cached = position,
                                          !.resolved = Ticker]
      [] how = "ledger" -> [trader EXCEPT !.view = "ledger",
                                          !.cached = NothingCached]

Reads(how) ==
    /\ how = "kept" => trader.view # "stale"
    /\ IF how = "ledger" THEN Fault ELSE UNCHANGED faults

CurrentLots(p, t) == IF p.view = "broker" THEN p.cached[t] ELSE Ledger(t)

-----------------------------------------------------------------------------
(***************************************************************************)
(* The cycle, orchestrator.RunOnce                                         *)
(***************************************************************************)

\* The account snapshot of the cycle; the broker's prices move in between.
BeginCycle ==
    /\ trader.stage = "idle"
    /\ \E a \in Account :
          trader' = [trader EXCEPT !.stage = "cycle", !.account = a, !.todo = Ticker]
    /\ UNCHANGED <<position, book, request, rows, switch, recovery, trip, faults>>

\* All tickers are done, the switch is on, or reading it failed.  What was
\* cached is too old for the next cycle, which takes a new snapshot.
EndCycle ==
    /\ trader.stage = "cycle"
    /\ \/ (trader.todo = {} \/ switch) /\ UNCHANGED faults
       \/ Fault
    /\ trader' = [trader EXCEPT !.stage = "idle", !.todo = {}, !.account = "fine",
                                !.view = "stale", !.cached = NothingCached]
    /\ UNCHANGED <<position, book, request, rows, switch, recovery, trip>>

Considers(t) ==
    /\ trader.stage = "cycle"
    /\ t \in trader.todo
    /\ ~switch

\* Mutant: the gate asks only the store.
StoreSaysActive == switch

\* HardenedGate.killSwitchActive
KillSwitchActive == trader.halted \/ switch

\* p is done with t and goes on to the next ticker.
Done(p) ==
    [p EXCEPT !.ticker = NoTicker, !.lots = 0, !.order = 0, !.answer = NoAnswer]

NextTicker(p, t) == [Done(p) EXCEPT !.stage = "cycle", !.todo = @ \ {t}]

(***************************************************************************)
(* No order for t: no data, no signal, HOLD, a veto of the gate, nothing   *)
(* to change, a closed market, a cooldown.  Positions may have been read,  *)
(* and asking for the market's state resolves the ticker.                  *)
(***************************************************************************)
Skip(t) ==
    /\ Considers(t)
    /\ \/ /\ trader' = NextTicker(trader, t)
          /\ UNCHANGED faults
       \/ \E how \in {"kept", "broker", "ledger"}, asked \in {{}, {t}} :
             /\ Reads(how)
             /\ trader' = [NextTicker(Read(how), t) EXCEPT !.resolved = @ \cup asked]
    /\ UNCHANGED <<position, book, request, rows, switch, recovery, trip>>

LimitBroken ==
    \/ trader.account = "drawdown"
    \/ trader.account = "loss" /\ KillSwitchOnDailyLoss

(***************************************************************************)
(* triggerKillSwitch sets the gate's flag first.  Only a BUY or SELL has   *)
(* read positions before the gate is asked.                                *)
(***************************************************************************)
TripSwitch(t) ==
    /\ Considers(t)
    /\ ~KillSwitchActive
    /\ LimitBroken
    /\ \/ /\ trader' = [trader EXCEPT !.stage = "trip", !.halted = TRUE, !.ticker = t]
          /\ UNCHANGED faults
       \/ \E how \in {"kept", "broker", "ledger"} :
             /\ Reads(how)
             /\ trader' = [Read(how) EXCEPT !.stage = "trip", !.halted = TRUE, !.ticker = t]
    /\ trip' = "memory"
    /\ UNCHANGED <<position, book, request, rows, switch, recovery>>

StoreSwitch ==
    /\ trader.stage = "trip"
    /\ \/ /\ switch' = TRUE
          /\ trip' = "stored"
          /\ UNCHANGED faults
       \/ /\ Fault
          /\ UNCHANGED <<switch, trip>>
    /\ trader' = [trader EXCEPT !.stage = "cancel"]
    /\ UNCHANGED <<position, book, request, rows, recovery>>

\* Sandbox.CancelOpenOrders: the open orders of the instruments it resolved.
CancelOpenOrders ==
    /\ trader.stage = "cancel"
    /\ LET owned == {o \in OrderId : /\ book[o].at = "open"
                                     /\ request[o].ticker \in trader.resolved}
       IN \E left \in SUBSET owned :
             /\ IF left = {} THEN UNCHANGED faults ELSE Fault
             /\ book' = [o \in OrderId |->
                           IF o \in owned \ left THEN [book[o] EXCEPT !.at = "closed"]
                                                 ELSE book[o]]
    /\ trader' = NextTicker(trader, trader.ticker)
    /\ UNCHANGED <<position, request, rows, switch, recovery, trip>>

-----------------------------------------------------------------------------
(***************************************************************************)
(* An order                                                                *)
(***************************************************************************)

Abs(n) == IF n < 0 THEN -n ELSE n

\* reducesPosition: on the same side and smaller, or flat.
Reduces(desired, current) ==
    /\ current # 0
    /\ (desired > 0) = (current > 0) \/ desired = 0
    /\ Abs(desired) < Abs(current)

\* ApproveReason for a signal that wants `desired` lots where `current` are.
Approved(desired, current) ==
    /\ ~KillSwitchActive
    /\ ~LimitBroken
    /\ Abs(desired) <= MaxLots
    /\ trader.account = "loss" => Reduces(desired, current)

\* Mutant: the signal's lots are taken for the change, not for the target.
WholeTarget(desired, current) == desired

\* TargetPositionExecutor.Execute: what is missing to the target.
Delta(desired, current) == desired - current

Unused == {o \in OrderId : request[o].lots = 0}

Approve(t) ==
    /\ Considers(t)
    /\ Unused # {}
    /\ \E how \in {"kept", "broker", "ledger"}, desired \in -(MaxLots + 1)..(MaxLots + 1) :
          LET current == CurrentLots(Read(how), t)
              delta   == Delta(desired, current)
          IN /\ Reads(how)
             /\ Approved(desired, current)
             /\ delta \in Int \ {0}
             /\ trader' = [Read(how) EXCEPT !.stage = "intent", !.ticker = t, !.lots = delta,
                                            !.resolved = @ \cup {t}]
    /\ UNCHANGED <<position, book, request, rows, switch, recovery, trip>>

Row(status, lots) == [status |-> status, lots |-> lots]

\* recordIntent comes before PostOrder and stops it when it fails.
RecordIntent ==
    /\ trader.stage = "intent"
    /\ \/ \E o \in Unused :
             /\ \A i \in Unused : o <= i
             /\ request' = [request EXCEPT ![o] = [ticker |-> trader.ticker,
                                                   lots |-> trader.lots]]
             /\ rows' = [rows EXCEPT ![o] = Row("requires_reconciliation", 0)]
             /\ trader' = [trader EXCEPT !.stage = "post", !.order = o]
             /\ UNCHANGED faults
       \/ /\ Fault
          /\ trader' = NextTicker(trader, trader.ticker)
          /\ UNCHANGED <<request, rows>>
    /\ UNCHANGED <<position, book, switch, recovery, trip>>

\* Lots that execute a part of an order for `lots`.
Parts(lots) == {k \in -Abs(lots)..Abs(lots) : k # 0 /\ (k > 0) = (lots > 0) /\ k # lots}

\* What the broker may answer to an order, with what it executed at once.
Answers(lots) ==
    {[status |-> "filled", executed |-> lots]}
    \cup [status : {"partially_filled"}, executed : Parts(lots)]
    \cup [status : {"refused"}, executed : {0} \cup Parts(lots)]
    \cup [status : {"new", "unspecified"}, executed : {0}]

Accept(o, answer) ==
    /\ book' = [book EXCEPT ![o] =
                  [at |-> IF answer.status \in {"filled", "refused"} THEN "closed" ELSE "open",
                   executed |-> answer.executed]]
    /\ position' = [position EXCEPT ![request[o].ticker] = @ + answer.executed]

\* PostOrder; the request or its answer may be lost.
PostOrder ==
    /\ trader.stage = "post"
    /\ \/ \E a \in Answers(trader.lots) :
             /\ Accept(trader.order, a)
             /\ \/ /\ trader' = [trader EXCEPT !.stage = "record", !.answer = a]
                   /\ UNCHANGED faults
                \/ /\ Fault
                   /\ trader' = NextTicker(trader, trader.ticker)
       \/ /\ Fault
          /\ trader' = NextTicker(trader, trader.ticker)
          /\ UNCHANGED broker
    /\ UNCHANGED <<request, rows, switch, recovery, trip>>

\* Mutant: an order that was only accepted is recorded as if it had filled.
RowOnAcceptance(answer) == Row(answer.status, trader.lots)

\* Mutant: a partial fill is recorded like a fill.
RowOfAnyFill(answer) ==
    Row(IF answer.status = "partially_filled" THEN "filled" ELSE answer.status,
        answer.executed)

\* placeOrder's switch over the execution report.
RowFor(answer) ==
    Row(answer.status,
        IF answer.status \in {"filled", "partially_filled"} THEN answer.executed ELSE 0)

\* record, recordPartialFill, recordOrderStatus
RecordAnswer ==
    /\ trader.stage = "record"
    /\ \/ /\ rows' = [rows EXCEPT ![trader.order] = RowFor(trader.answer)]
          /\ UNCHANGED faults
       \/ /\ Fault
          /\ UNCHANGED rows
    /\ trader' = NextTicker(trader, trader.ticker)
    /\ UNCHANGED <<position, book, request, switch, recovery, trip>>

-----------------------------------------------------------------------------
(***************************************************************************)
(* RecoverPendingOrders, before the trader's first cycle and in the reset  *)
(***************************************************************************)

\* Mutant: every order without an end of its own is taken up again.
NotRefused == Status \ {"none", "refused", "cancelled_on_recovery", "closed_on_recovery"}

\* The statuses the recovery takes up.
Recoverable == Pending

ListPending(p) ==
    /\ recovery[p].stage = "off"
    /\ recovery' = [recovery EXCEPT ![p] =
                      [NoRecovery EXCEPT !.stage = "listed",
                                         !.pending = {o \in OrderId :
                                                         rows[o].status \in Recoverable}]]

\* OpenOrders; without anything pending it is not asked.
ListOpen(p) ==
    /\ recovery[p].stage = "listed"
    /\ recovery' = [recovery EXCEPT ![p].stage = "cancelling",
                                    ![p].open = {o \in OrderId : book[o].at = "open"}]
    /\ UNCHANGED <<position, book, request, rows, switch, trader, trip, faults>>

Handled(p, o, error) ==
    [recovery EXCEPT ![p].pending = @ \ {o}, ![p].failed = @ \/ error]

(***************************************************************************)
(* One pending order: cancelled if it was listed as open, an error if it   *)
(* is no longer; markRecovered writes the row back as it was listed.       *)
(***************************************************************************)
Recover(p, o) ==
    LET listed == o \in recovery[p].open
        status == IF listed THEN "cancelled_on_recovery" ELSE "closed_on_recovery"
    IN /\ recovery[p].stage = "cancelling"
       /\ o \in recovery[p].pending
       /\ \/ /\ listed
             /\ IF book[o].at = "open" THEN Fault ELSE UNCHANGED faults
             /\ recovery' = Handled(p, o, TRUE)
             /\ UNCHANGED <<book, rows>>
          \/ /\ listed => book[o].at = "open"
             /\ book' = IF listed THEN [book EXCEPT ![o].at = "closed"] ELSE book
             /\ \/ /\ rows' = [rows EXCEPT ![o] = Row(status, 0)]
                   /\ recovery' = Handled(p, o, FALSE)
                   /\ UNCHANGED faults
                \/ /\ Fault
                   /\ recovery' = Handled(p, o, TRUE)
                   /\ UNCHANGED rows
       /\ UNCHANGED <<position, request, switch, trader, trip>>

EndRecovery(p) ==
    /\ recovery[p].stage = "cancelling"
    /\ recovery[p].pending = {}
    /\ recovery' = [recovery EXCEPT ![p] = NoRecovery]

-----------------------------------------------------------------------------
(***************************************************************************)
(* The processes                                                           *)
(***************************************************************************)

\* newBrokerRuntime; a recovery that cannot list or cancel ends the process.
StartTrader ==
    /\ trader.stage = "down"
    /\ ListPending("trader")
    /\ trader' = [Fresh EXCEPT !.stage = "recovering"]
    /\ UNCHANGED <<position, book, request, rows, switch, trip, faults>>

TraderReady ==
    /\ EndRecovery("trader")
    /\ trader' = IF recovery["trader"].failed THEN Fresh
                                              ELSE [trader EXCEPT !.stage = "idle"]
    /\ UNCHANGED <<position, book, request, rows, switch, trip, faults>>

Crash ==
    /\ trader.stage # "down"
    /\ Fault
    /\ trader' = Fresh
    /\ recovery' = [recovery EXCEPT !["trader"] = NoRecovery]
    /\ trip' = IF trip = "memory" THEN "forgotten" ELSE trip
    /\ UNCHANGED <<position, book, request, rows, switch>>

\* cmd/trader -reset-kill-switch starts like the trader does, whatever the
\* switch; nobody has a reason to call it before the switch is on.
StartReset ==
    /\ switch \/ ResetAnyTime
    /\ ListPending("reset")
    /\ UNCHANGED <<position, book, request, rows, switch, trader, trip, faults>>

(***************************************************************************)
(* runKillSwitchReset: runbook.Decide allows or refuses what the equity    *)
(* and the positions are; a failed recovery ended the process before.      *)
(***************************************************************************)
EndReset ==
    /\ EndRecovery("reset")
    /\ \/ /\ ~recovery["reset"].failed
          /\ switch' = FALSE
          /\ trip' = "none"
       \/ UNCHANGED <<switch, trip>>
    /\ UNCHANGED <<position, book, request, rows, trader, faults>>

-----------------------------------------------------------------------------
(***************************************************************************)
(* The broker                                                              *)
(***************************************************************************)

\* One more lot of an open order executes.
Execute(o) ==
    LET lot == IF request[o].lots > 0 THEN 1 ELSE -1
        done == book[o].executed + lot
    IN /\ book[o].at = "open"
       /\ book' = [book EXCEPT ![o] =
                     [at |-> IF done = request[o].lots THEN "closed" ELSE "open",
                      executed |-> done]]
       /\ position' = [position EXCEPT ![request[o].ticker] = @ + lot]
       /\ UNCHANGED <<request, rows, switch, trader, recovery, trip, faults>>

\* The broker withdraws an open order at the end of the day.
Expire(o) ==
    /\ book[o].at = "open"
    /\ book' = [book EXCEPT ![o].at = "closed"]
    /\ UNCHANGED <<position, request, rows, switch, trader, recovery, trip, faults>>

Next ==
    \/ BeginCycle \/ EndCycle
    \/ \E t \in Ticker : Skip(t) \/ TripSwitch(t) \/ Approve(t)
    \/ StoreSwitch \/ CancelOpenOrders
    \/ RecordIntent \/ PostOrder \/ RecordAnswer
    \/ StartTrader \/ TraderReady \/ Crash
    \/ StartReset \/ EndReset
    \/ \E p \in Process : ListOpen(p) \/ \E o \in OrderId : Recover(p, o)
    \/ \E o \in OrderId : Execute(o) \/ Expire(o)

Spec == Init /\ [][Next]_vars

-----------------------------------------------------------------------------
(***************************************************************************)
(* Properties                                                              *)
(***************************************************************************)

(***************************************************************************)
(* Why the switch holds.  A trip that is not stored is in the memory of    *)
(* the process that tripped; one that is stored is in the row, which only  *)
(* a reset clears; and no order is under way in either case.  A recovery   *)
(* runs before the trader's first cycle or while the switch is on, so it   *)
(* never meets an order that is under way.                                 *)
(***************************************************************************)
Ordering == trader.stage \in {"intent", "post", "record"}

SwitchInv ==
    /\ trip = "memory" => trader.halted /\ trader.stage \notin {"down", "recovering"}
    /\ trip = "stored" => switch
    /\ Ordering => ~switch /\ trip \notin {"memory", "stored"}

RecoveryInv ==
    /\ recovery["trader"].stage # "off" => trader.stage = "recovering"
    /\ ResetAnyTime \/ recovery["reset"].stage = "off" \/ switch

\* The types, and how the trip, the switch and the orders under way relate.
OrdersInv == TypeOK /\ SwitchInv /\ RecoveryInv

(***************************************************************************)
(* The ledger never counts a lot the broker did not execute: every row is  *)
(* at most what its order executed, in the order's own direction.          *)
(***************************************************************************)
Within(lots, executed) ==
    \/ 0 <= lots /\ lots <= executed
    \/ executed <= lots /\ lots <= 0

LedgerNeverAhead ==
    \A o \in OrderId : Within(rows[o].lots, book[o].executed)

(***************************************************************************)
(* Whatever failed or crashed in between, an order that is open at the     *)
(* broker has a row, and that row does not call it filled, refused, closed *)
(* or cancelled.  (It need not be a row that a recovery takes up: it skips *)
(* what was reported partially filled or without a status.)                *)
(***************************************************************************)
NoStrayOrder ==
    \A o \in OrderId :
        book[o].at = "open" => rows[o].status \notin Settled \cup {"none"}

(***************************************************************************)
(* A position exceeds max_lots only with lots of an order that executed    *)
(* unseen: after its answer, or with the answer or the record lost.        *)
(***************************************************************************)
SeenPositionWithinLots ==
    \A t \in Ticker :
        Abs(position[t]) > MaxLots =>
            \E o \in OrderId : /\ request[o].ticker = t
                               /\ rows[o].lots # book[o].executed

(***************************************************************************)
(* From the moment the gate trips until an operator resets it, through     *)
(* crashes and restarts, no order is sent, unless the switch could not be  *)
(* stored and the process that remembered it died.                         *)
(***************************************************************************)
Sends == \E o \in OrderId : book[o].at = "unsent" /\ book'[o].at # "unsent"

SwitchStopsTrading == [][(trip \in {"memory", "stored"}) => ~Sends]_vars

(***************************************************************************)
(* A fill, once recorded, stays recorded: neither the recovery of a        *)
(* restart nor that of a reset takes it back.                              *)
(***************************************************************************)
KeepsFills == \A o \in OrderId : rows[o].status = "filled" => rows'[o] = rows[o]

FillsStay == [][KeepsFills]_vars

(***************************************************************************)
(* "Kill switch trips on >3% drawdown and blocks new signals until reset"  *)
(* (docs/GO_LIVE_CHECKLIST.md): after a trip nothing is sent before a      *)
(* reset, whatever failed or crashed in between.                           *)
(***************************************************************************)
BlockedUntilReset == [][(trip # "none") => ~Sends]_vars
=============================================================================
