------------------------------- MODULE Signals -------------------------------
(***************************************************************************)
(* From the model's signal to an order, for one ticker: the hysteresis on  *)
(* the model's signals, the news gate with its incident shorts, the exit   *)
(* manager that closes them again, and the cooldown after orders the       *)
(* broker rejects.                                                         *)
(*                                                                         *)
(* A poll asks the sources for a signal and then executes it; a crash may  *)
(* come between.  What the exit manager knows is saved as one row; the     *)
(* rest lives in memory.  All maps of the code are keyed by ticker and the *)
(* orchestrator polls tickers one after the other, so one is enough.       *)
(*                                                                         *)
(* Times are ages, in polls, and age one poll at a time; an age that no    *)
(* condition tells from a greater one stays as it is.  Lots are -1, 0 and  *)
(* 1 at the broker.  Prices are left out: whether stop loss or take profit *)
(* is reached (hit), whether the gate approves, what the checker of        *)
(* headlines answers and whether sentiment vetoes are free.                *)
(*                                                                         *)
(* articles are the reports of an incident that were published with a      *)
(* date.  A poll sees a view of them: feeds are read anew in every cycle,  *)
(* some fail, others drop what is old, and some headlines have no date.    *)
(***************************************************************************)
EXTENDS Integers

CONSTANTS
    Required,      \* polls of hysteresis
    Grace,         \* newsTradePendingGrace
    MaxHold,       \* news.exit_max_hold
    Cooldown,      \* news.exit_cooldown
    IncidentWindow, IncidentEpisodeGap, IncidentMaxAge,
    Threshold,     \* rejections of the broker until a cooldown
    RejectionCooldown,
    MaxFaults      \* bound on crashes, failed reads and writes, lost answers

ASSUME PollsAssumption ==
    /\ {Grace, Cooldown, MaxFaults} \subseteq Nat
    /\ {Required, MaxHold, Threshold, RejectionCooldown, IncidentEpisodeGap} \subseteq Nat \ {0}

(* The window is long enough to tell that a report that is fresh starts an *)
(* episode: 48 h against 12 h and 6 h.                                     *)
ASSUME WindowAssumption ==
    /\ {IncidentWindow, IncidentMaxAge} \subseteq Nat
    /\ IncidentMaxAge + IncidentEpisodeGap <= IncidentWindow + 1

VARIABLES
    pc,         \* "idle", "order", "done" with a poll, or "down"
    band,       \* SignalHysteresisSource's state; "none" is its empty candidate
    memory,     \* newsExitManager.state: trade, cooldown left, watermark
    saved,      \* the row news-trade-state
    signal,     \* what the sources answered in this poll
    held,       \* lots at the broker
    ledger,     \* lots by the executor's rows
    rejection,  \* RejectionCooldownExecutor, for sales
    articles,   \* ages of the reports with a date published in the window
    origin,     \* history: who opened the short that is held
    forgot,     \* history: the manager was told nothing or amiss, or has forgotten
    episode,    \* history, of the latest episode: "new", "settled" or "shorted"
    fromStart,  \* history: the signal is of an incident seen from its episode's start
    sinceExit,  \* history: polls since an exit was decided
    streak,     \* history: rejections since a sale went well or was skipped, or a cooldown
    raw,        \* history: the model's last answer, and how often in a row
    faults      \* faults so far

broker == <<held, ledger, rejection>>
history == <<origin, forgot, episode, fromStart, sinceExit, streak>>
vars == <<pc, band, memory, saved, signal, broker, articles, history, raw, faults>>

Action == {"BUY", "SELL", "HOLD"}
Source == {"model", "incident", "exit"}

Stale == IncidentMaxAge + 1      \* not fresh
NoTrade == [age |-> 0, exit |-> FALSE, open |-> FALSE]
NewTrade == [age |-> 0, exit |-> FALSE, open |-> TRUE]
NoSignal == [action |-> "HOLD", by |-> "model"]
NoAnswer == [action |-> "error", times |-> 0]
NoBand == [on |-> FALSE, committed |-> "HOLD", candidate |-> "none", polls |-> 0]
NothingKnown == [trade |-> NoTrade, cooldown |-> 0, seen |-> Stale]
NoRejection == [failures |-> 0, left |-> 0]

Least(m, n) == IF m < n THEN m ELSE n
Greatest(m, n) == IF m > n THEN m ELSE n

-----------------------------------------------------------------------------
(***************************************************************************)
(* SignalHysteresisSource                                                  *)
(***************************************************************************)

\* Mutant: a new candidate inherits the polls of the one before.
BandCountsAny(b, action) ==
    IF ~b.on \/ action = b.committed \/ b.polls + 1 >= Required
    THEN [on |-> TRUE, committed |-> action, candidate |-> "none", polls |-> 0]
    ELSE [b EXCEPT !.candidate = action, !.polls = @ + 1]

\* Generate, after the source answered with an action.
BandAfter(b, action) ==
    LET polls == IF action = b.candidate THEN b.polls + 1 ELSE 1
    IN IF ~b.on \/ action = b.committed \/ polls >= Required
       THEN [on |-> TRUE, committed |-> action, candidate |-> "none", polls |-> 0]
       ELSE [b EXCEPT !.candidate = action, !.polls = polls]

-----------------------------------------------------------------------------
(***************************************************************************)
(* SummarizeIncidents                                                      *)
(***************************************************************************)

\* An episode starts with a report that none came before by less than the
\* gap; the latest that starts is the one reported.
StartsEpisode(dates, a) ==
    \A b \in dates : b > a => b - a >= IncidentEpisodeGap
IncidentFirst(dates) ==
    CHOOSE a \in dates : /\ StartsEpisode(dates, a)
                        /\ \A b \in dates : StartsEpisode(dates, b) => a <= b
IncidentLatest(dates) == CHOOSE a \in dates : \A b \in dates : a <= b

(***************************************************************************)
(* What a poll may read: whether enough sources report an incident, the    *)
(* first and the latest date of their reports, if any has one, and whether *)
(* a headline denies it.                                                   *)
(***************************************************************************)
Quiet(denied) == [open |-> FALSE, dated |-> FALSE, first |-> 0, latest |-> 0, denied |-> denied]
Undated(denied) == [Quiet(denied) EXCEPT !.open = TRUE]
Dated(dates, denied) ==
    [open |-> TRUE, dated |-> TRUE, first |-> IncidentFirst(dates), latest |-> IncidentLatest(dates),
     denied |-> denied]
Views ==
    {Quiet(denied) : denied \in BOOLEAN} \cup {Undated(denied) : denied \in BOOLEAN}
        \cup {Dated(dates, denied) : dates \in (SUBSET articles) \ {{}}, denied \in BOOLEAN}

\* The view has a report of the latest episode, or its very start.
ShowsEpisode(v) == v.dated /\ v.latest <= IncidentFirst(articles)
ShowsStart(v) == v.dated /\ v.first = IncidentFirst(articles)

-----------------------------------------------------------------------------
(***************************************************************************)
(* newsExitManager                                                         *)
(***************************************************************************)

\* forceExit, which news of a denial asks for.
Forced(m, v) ==
    IF v.denied /\ m.trade.open /\ ~m.trade.exit
    THEN [m EXCEPT !.trade.exit = TRUE, !.cooldown = Cooldown]
    ELSE m

\* Mutant: an exit starts no cooldown.
EvaluatedOnly(m, lots, hit) ==
    LET t == m.trade
    IN CASE ~t.open -> m
         [] t.open /\ lots = 0 -> IF t.exit \/ t.age > Grace THEN [m EXCEPT !.trade = NoTrade] ELSE m
         [] t.open /\ lots > 0 -> [m EXCEPT !.trade = NoTrade]
         [] t.open /\ lots < 0 -> [m EXCEPT !.trade.exit = @ \/ hit \/ t.age >= MaxHold]

\* Mutant: the trade is over once its exit is decided, done or not.
EvaluatedOnce(m, lots, hit) ==
    LET t == m.trade
    IN CASE ~t.open -> m
         [] t.open /\ lots = 0 -> IF t.exit \/ t.age > Grace THEN [m EXCEPT !.trade = NoTrade] ELSE m
         [] t.open /\ lots > 0 -> [m EXCEPT !.trade = NoTrade]
         [] t.open /\ lots < 0 -> IF t.exit THEN [m EXCEPT !.trade = NoTrade]
                                 ELSE IF hit \/ t.age >= MaxHold
                                      THEN [m EXCEPT !.trade.exit = TRUE, !.cooldown = Cooldown] ELSE m

\* Mutant: a trade that never reaches its prices is held for ever.
EvaluatedByPrice(m, lots, hit) ==
    LET t == m.trade
    IN CASE ~t.open -> m
         [] t.open /\ lots = 0 -> IF t.exit \/ t.age > Grace THEN [m EXCEPT !.trade = NoTrade] ELSE m
         [] t.open /\ lots > 0 -> [m EXCEPT !.trade = NoTrade]
         [] t.open /\ lots < 0 -> IF ~t.exit /\ hit
                                 THEN [m EXCEPT !.trade.exit = TRUE, !.cooldown = Cooldown] ELSE m

\* evaluate: a trade without its short ends, a short that is due is to be
\* closed, and the cooldown begins.
Evaluated(m, lots, hit) ==
    LET t   == m.trade
        due == ~t.exit /\ (hit \/ t.age >= MaxHold)
    IN CASE ~t.open -> m
         [] t.open /\ lots = 0 -> IF t.exit \/ t.age > Grace THEN [m EXCEPT !.trade = NoTrade] ELSE m
         [] t.open /\ lots > 0 -> [m EXCEPT !.trade = NoTrade]
         [] t.open /\ lots < 0 -> IF due THEN [m EXCEPT !.trade.exit = TRUE, !.cooldown = Cooldown] ELSE m

\* The lots could not be read.
NewsExit(m, v, hit, fault) ==
    IF fault = "read" THEN Forced(m, v) ELSE Evaluated(Forced(m, v), ledger, hit)

\* An exit signal comes of it, but not when the decision could not be saved.
Exits(m, v, hit, fault) ==
    LET after == NewsExit(m, v, hit, fault)
    IN /\ fault # "read"
       /\ ledger < 0
       /\ after.trade.open /\ after.trade.exit
       /\ fault = "write" => Forced(m, v).trade.exit

\* Mutant: any later report of an episode is news.
FirstReportAny(m, v) ==
    v.dated => v.latest < m.seen /\ v.latest <= IncidentMaxAge

\* claimIncident: is the episode new and fresh?  Without dates it always is,
\* and leaves no watermark.
FirstReport(m, v) ==
    v.dated => v.first < m.seen /\ v.first <= IncidentMaxAge
Claimed(m, v) == IF v.dated THEN [m EXCEPT !.seen = Least(@, v.latest)] ELSE m

\* shortSuppressed
ShortSuppressed(m) == m.trade.open \/ m.cooldown > 0

\* Mutant: a short that is held already becomes a news trade.
NotedAnyway(m, fault) ==
    IF fault = "read" \/ m.trade.open THEN m ELSE [m EXCEPT !.trade = NewTrade]

\* noteShortEntry: a short that is held already is not the manager's.
Noted(m, fault) ==
    IF fault = "read" \/ ledger < 0 \/ m.trade.open THEN m ELSE [m EXCEPT !.trade = NewTrade]

-----------------------------------------------------------------------------
(***************************************************************************)
(* Steps                                                                   *)
(***************************************************************************)
Trade == [age : 0 .. Greatest(Grace, MaxHold) + 1, exit : BOOLEAN, open : BOOLEAN]
State == [trade : Trade, cooldown : 0 .. Cooldown, seen : 0 .. Stale]

TypeOK ==
    /\ pc \in {"idle", "order", "done", "down"}
    /\ band \in [on : BOOLEAN, committed : Action, candidate : Action \cup {"none"},
                 polls : 0 .. Required - 1]
    /\ memory \in State
    /\ saved \in State
    /\ signal \in [action : Action, by : Source]
    /\ held \in -1 .. 1
    /\ ledger \in Int
    /\ rejection \in [failures : 0 .. Threshold - 1, left : 0 .. RejectionCooldown]
    /\ articles \subseteq 0 .. IncidentWindow
    /\ origin \in {"none", "model", "incident", "adopted"}
    /\ forgot \in BOOLEAN
    /\ episode \in {"new", "settled", "shorted"}
    /\ fromStart \in BOOLEAN
    /\ sinceExit \in 0 .. Cooldown
    /\ streak \in 0 .. Threshold
    /\ raw \in [action : Action \cup {"error"}, times : 0 .. Required]
    /\ faults \in 0 .. MaxFaults

Init ==
    /\ pc = "idle"
    /\ band = NoBand
    /\ memory = NothingKnown
    /\ saved = NothingKnown
    /\ signal = NoSignal
    /\ held = 0
    /\ ledger = 0
    /\ rejection = NoRejection
    /\ articles = {}
    /\ origin = "none"
    /\ forgot = FALSE
    /\ episode = "new"
    /\ fromStart = FALSE
    /\ sinceExit = Cooldown
    /\ streak = 0
    /\ raw = NoAnswer
    /\ faults = 0

Fault(kind) ==
    /\ kind # "none" => faults < MaxFaults
    /\ faults' = IF kind = "none" THEN faults ELSE faults + 1

\* The source fails: the hysteresis forgets, and no exit is looked for.
SourceFails ==
    /\ pc = "idle"
    /\ raw' = NoAnswer
    /\ band' = NoBand
    /\ pc' = "done"
    /\ UNCHANGED <<memory, saved, signal, broker, articles, history, faults>>

\* Mutant: the row has no watermark of incidents.
SaveNoIncidents(fault, before) ==
    saved' \in IF fault = "write" THEN {saved} \cup before ELSE {[memory EXCEPT !.seen = Stale]'}

\* saveLocked, called at the end of every change: the last save that does not
\* fail counts.
Save(fault, before) == saved' \in IF fault = "write" THEN {saved} \cup before ELSE {memory'}

\* What the earlier saves of a poll write: forceExit, evaluate (which shows no
\* exit when its save fails) and claimIncident.
SavedBefore(m, v) ==
    {n \in {Forced(memory, v), m} : n.trade.exit => Forced(memory, v).trade.exit}
        \cup (IF v.open THEN {Claimed(m, v)} \ {m} ELSE {})

SinceExit(m) == IF m.trade.exit /\ ~memory.trade.exit THEN 0 ELSE sinceExit

\* Generate, when a news trade is to be closed.
AnswerExit(v, hit, fault) ==
    /\ Exits(memory, v, hit, fault)
    /\ memory' = NewsExit(memory, v, hit, fault)
    /\ IF memory' = memory THEN saved' = saved ELSE Save(fault, {})
    /\ signal' = [action |-> "BUY", by |-> "exit"]
    /\ sinceExit' = SinceExit(memory')
    /\ UNCHANGED <<broker, articles, origin, forgot, episode, fromStart, streak>>

(***************************************************************************)
(* What gateIncident does with an action: the manager's state after it,    *)
(* and the signal.  verdict is the answer of confirmDamage.                *)
(***************************************************************************)
ShortsOnIncident(m, v, action) ==
    /\ v.open
    /\ FirstReport(m, v)
    /\ ~v.denied
    /\ action # "SELL"
    /\ ~ShortSuppressed(m)

\* The checker is asked only when a short would follow.
Verdicts(m, v, action) ==
    IF ShortsOnIncident(m, v, action) THEN {"damage", "no", "retry"} ELSE {"no"}

\* Mutant: an episode stays claimed although its check is to be repeated.
GatedForGood(m, v, action, verdict, fault) ==
    CASE ~v.open -> [memory |-> m, action |-> action, by |-> "model"]
      [] v.open /\ verdict = "damage" ->
             [memory |-> Noted(Claimed(m, v), fault), action |-> "SELL", by |-> "incident"]
      [] v.open /\ verdict # "damage" ->
             [memory |-> Claimed(m, v), action |-> IF action = "BUY" THEN "HOLD" ELSE action,
              by |-> "model"]

Gated(m, v, action, verdict, fault) ==
    CASE ~v.open -> [memory |-> m, action |-> action, by |-> "model"]
      [] v.open /\ verdict = "damage" ->
             [memory |-> Noted(Claimed(m, v), fault), action |-> "SELL", by |-> "incident"]
      [] v.open /\ verdict # "damage" ->
             [memory |-> IF verdict = "retry" THEN m ELSE Claimed(m, v),
              action |-> IF action = "BUY" THEN "HOLD" ELSE action, by |-> "model"]

\* Generate, when no news trade is to be closed.  The sentiment veto comes
\* last, after an incident short has been claimed and noted.
AnswerSignal(v, hit, verdict, vetoed, fault) ==
    LET m     == NewsExit(memory, v, hit, fault)
        gated == Gated(m, v, band'.committed, verdict, fault)
    IN /\ vetoed => gated.action # "HOLD"
       /\ memory' = gated.memory
       /\ IF /\ memory' = memory /\ verdict # "retry"
             /\ fault = "read" \/ ~memory.trade.open \/ ledger = 0
          THEN saved' = saved ELSE Save(fault, SavedBefore(m, v))
       /\ signal' = IF vetoed THEN NoSignal ELSE [action |-> gated.action, by |-> gated.by]
       /\ forgot' = (forgot \/ (signal'.by = "incident" /\ (fault = "read" \/ (ledger < 0 /\ held >= 0))))
       /\ episode' = IF gated.by = "incident" /\ ShowsEpisode(v) THEN "shorted"
                     ELSE IF episode = "new" /\ verdict # "retry" /\ ShowsEpisode(v) THEN "settled"
                     ELSE episode
       /\ fromStart' = (signal'.by = "incident" /\ ShowsStart(v))
       /\ sinceExit' = SinceExit(m)
       /\ UNCHANGED <<broker, articles, origin, streak>>

\* TargetPositionExecutor: the lots to trade.
Wanted(s) == IF s.by = "exit" THEN 0 ELSE IF s.action = "BUY" THEN 1 ELSE -1
Delta == IF signal.action = "HOLD" THEN 0 ELSE Wanted(signal) - held

Suppressed == Delta < 0 /\ rejection.left > 0

\* Nothing to trade, or the gate refuses, or the cooldown answers.
NoOrder ==
    /\ pc = "order"
    /\ pc' = "done"
    /\ signal' = NoSignal
    /\ fromStart' = FALSE
    /\ UNCHANGED <<band, memory, saved, broker, articles, origin, forgot, episode, sinceExit, streak, raw, faults>>

\* Mutant: an order that went through leaves the count of rejections.
ClearedNot == rejection
Cleared == IF Delta < 0 THEN NoRejection ELSE rejection

\* recordFailure
Rejected ==
    IF rejection.failures + 1 >= Threshold
    THEN [failures |-> 0, left |-> RejectionCooldown]
    ELSE [rejection EXCEPT !.failures = @ + 1]

Origin(lots) ==
    IF lots >= 0 THEN "none"
    ELSE IF held < 0 THEN origin
    ELSE IF signal.by = "incident" THEN "incident"
    ELSE IF memory.trade.open THEN "adopted" ELSE "model"

Traded(lots) ==
    /\ held' = held + lots
    /\ origin' = Origin(held + lots)
    /\ pc' = "done"
    /\ signal' = NoSignal
    /\ fromStart' = FALSE
    /\ UNCHANGED <<band, memory, saved, articles, forgot, episode, sinceExit, raw>>

Sent == pc = "order" /\ Delta # 0 /\ ~Suppressed

\* The order is filled, or skipped because the market is closed: both answer
\* without an error.
OrderGoesWell(lots) ==
    /\ Sent
    /\ lots \in {0, Delta}
    /\ Traded(lots)
    /\ ledger' = ledger + lots
    /\ rejection' = Cleared
    /\ streak' = IF Delta < 0 THEN 0 ELSE streak
    /\ UNCHANGED faults

\* A fill in part is booked, and comes as an error.
OrderFillsInPart ==
    /\ Sent
    /\ Delta \in {-2, 2}
    /\ Traded(Delta \div 2)
    /\ ledger' = ledger + Delta \div 2
    /\ UNCHANGED <<rejection, streak, faults>>

\* The broker lends no lots to sell short.
OrderIsRejected ==
    /\ Sent
    /\ Delta < 0 /\ held + Delta < 0
    /\ Traded(0)
    /\ rejection' = Rejected
    /\ streak' = Least(streak + 1, Threshold)
    /\ UNCHANGED <<ledger, faults>>

\* The order is filled, but the answer is lost and its row keeps no lots.
AnswerIsLost ==
    /\ Sent
    /\ Fault("lost")
    /\ Traded(Delta)
    /\ UNCHANGED <<ledger, rejection, streak>>

Older(age, limit) == IF age < limit THEN age + 1 ELSE age

Aged(m) ==
    [m EXCEPT !.trade.age = IF m.trade.open THEN Older(@, Greatest(Grace, MaxHold) + 1) ELSE @,
              !.cooldown = Greatest(@ - 1, 0),
              !.seen = Older(@, Stale)]

\* Time until the next poll, with what is published in it.
NextPoll(published) ==
    /\ pc \in {"done", "down"}
    /\ pc' = IF pc = "done" THEN "idle" ELSE "down"
    /\ memory' = Aged(memory)
    /\ saved' = Aged(saved)
    /\ rejection' = [rejection EXCEPT !.left = Greatest(@ - 1, 0)]
    /\ articles' = {a + 1 : a \in articles \ {IncidentWindow}}
                       \cup (IF published = "report" THEN {0} ELSE {})
    /\ episode' = IF articles' = {} \/ (published = "report" /\ StartsEpisode(articles, -1))
                  THEN "new" ELSE episode
    /\ sinceExit' = Older(sinceExit, Cooldown)
    /\ streak' = IF rejection.left = 1 THEN 0 ELSE streak
    /\ UNCHANGED <<band, signal, held, ledger, origin, forgot, fromStart, raw, faults>>

Dies ==
    /\ Fault("crash")
    /\ pc' = "down"
    /\ memory' = NothingKnown
    /\ band' = NoBand
    /\ rejection' = NoRejection
    /\ signal' = NoSignal
    /\ streak' = 0
    /\ fromStart' = FALSE
    /\ raw' = NoAnswer
    /\ UNCHANGED <<held, ledger, articles, origin>>

Crash ==
    /\ pc # "down"
    /\ Dies
    /\ forgot' = (forgot \/ memory # saved)
    /\ UNCHANGED <<saved, episode, sinceExit>>

\* The process dies while the checker reads the headlines, for up to a minute:
\* the episode is claimed and saved, its short never comes.  Nothing is saved
\* when nothing changed.
CrashInCheck(v, action, hit) ==
    LET m     == NewsExit(memory, v, hit, "none")
        after == Claimed(m, v)
    IN /\ pc = "idle"
       /\ ~Exits(memory, v, hit, "none")
       /\ ShortsOnIncident(m, v, BandAfter(band, action).committed)
       /\ Dies
       /\ saved' = IF after = memory THEN saved ELSE after
       /\ forgot' = (forgot \/ after # saved')
       /\ sinceExit' = SinceExit(m)
       /\ episode' = IF episode = "new" /\ ShowsEpisode(v) THEN "settled" ELSE episode

\* newNewsExitManager
Start ==
    /\ pc = "down"
    /\ pc' = "idle"
    /\ memory' = saved
    /\ UNCHANGED <<band, saved, signal, broker, articles, history, raw, faults>>

\* How often in a row the model has answered with an action.
InARow(action) == IF raw.action = action THEN Least(raw.times + 1, Required) ELSE 1

\* Prices matter to a news short only, denials and the store to that and to an
\* incident.  A HOLD makes no order.
Answer(fault) ==
    /\ pc = "idle"
    /\ Fault(fault)
    /\ \E action \in Action :
       /\ raw' = [action |-> action, times |-> InARow(action)]
       /\ band' = BandAfter(band, action)
    /\ \E v \in Views, hit \in {FALSE, memory.trade.open /\ ledger < 0} :
       /\ fault # "none" \/ v.denied => memory.trade.open \/ v.open
       /\ \/ AnswerExit(v, hit, fault)
          \/ /\ ~Exits(memory, v, hit, fault)
             /\ \E verdict \in Verdicts(NewsExit(memory, v, hit, fault), v, band'.committed),
                   vetoed \in BOOLEAN : AnswerSignal(v, hit, verdict, vetoed, fault)
    /\ pc' = IF signal'.action = "HOLD" THEN "done" ELSE "order"

Order ==
    \/ \E lots \in {0, Delta} : OrderGoesWell(lots)
    \/ OrderFillsInPart
    \/ OrderIsRejected
    \/ AnswerIsLost

Next ==
    \/ SourceFails
    \/ \E fault \in {"none", "read", "write"} : Answer(fault)
    \/ NoOrder
    \/ Order
    \/ \E published \in {"nothing", "report"} : NextPoll(published)
    \/ Crash
    \/ /\ faults < MaxFaults
       /\ \E v \in Views, action \in Action, hit \in {FALSE, memory.trade.open /\ ledger < 0} :
             CrashInCheck(v, action, hit)
    \/ Start

(***************************************************************************)
(* The trader polls and is started again by its watchdog.  The last two    *)
(* say of the world that the model answers and an order is filled again    *)
(* and again: with a breaker or a kill switch that stays, an exit is only  *)
(* repeated.                                                               *)
(***************************************************************************)
Scheduled ==
    \/ Start
    \/ NoOrder
    \/ pc = "done" /\ \E published \in {"nothing", "report"} : NextPoll(published)

\* The model answers, and nothing else fails either.
Answers ==
    /\ pc = "idle"
    /\ pc' \in {"order", "done"}
    /\ \E action \in Action : raw' = [action |-> action, times |-> InARow(action)]
    /\ UNCHANGED faults

Fairness == WF_vars(Scheduled) /\ SF_<<pc, faults>>(Answers) /\ SF_vars(OrderGoesWell(Delta))

Spec == Init /\ [][Next]_vars /\ Fairness

-----------------------------------------------------------------------------
(***************************************************************************)
(* Properties.                                                             *)
(***************************************************************************)

(* As long as no read or write has failed and nothing crashed, the row     *)
(* holds whatever the manager knows: every change is saved in its poll.    *)
NothingUnsaved == faults = 0 => memory = saved

SignalsInv == TypeOK /\ NothingUnsaved

(* A short that an incident opened has a news trade that will end it, over *)
(* refused, partly filled and repeated orders, crashes and restarts --     *)
(* unless the manager was not told of it or has forgotten (a failed read,  *)
(* a failed write before a crash), or the ledger misses or missed an order.*)
NewsShortTracked ==
    origin = "incident" =>
       \/ (IF pc = "down" THEN saved ELSE memory).trade.open
       \/ forgot
       \/ ledger # held

(* "Only positions the manager opened are ever closed" -- and those that   *)
(* the model opened while a news trade was waiting for its order.          *)
ExitsOnlyItsOwn ==
    signal.by = "exit" => origin \in {"incident", "adopted"} \/ forgot \/ ledger # held

(* After an exit no incident opens a short until the cooldown is over,     *)
(* across restarts.                                                        *)
CooldownHolds ==
    signal.by = "incident" => sinceExit = Cooldown \/ forgot

(* An episode opens one short at most: later reports, a checker that asks  *)
(* to be tried again, views that come and go and a restart do not repeat   *)
(* it.  Two kinds of incident are let through, as claimIncident lets them: *)
(* one whose reports have no date is new in every poll and leaves no       *)
(* watermark, and one whose start the feeds no longer show begins, for the *)
(* trader, with a report that may be later than the watermark.             *)
OneShortPerEpisode ==
    [][pc = "idle" /\ signal'.by = "incident" /\ fromStart' => episode # "shorted" \/ forgot]_vars

(* "No short this cycle" is all a failed check may cost: an episode that   *)
(* is fresh and counts as seen has been settled, by a verdict, without the *)
(* need of one, or by a death in the middle of it -- across retries, later *)
(* reports, views that show it in part or not at all, failed saves and     *)
(* restarts.                                                               *)
NoEpisodeSwallowed ==
    articles # {} /\ IncidentFirst(articles) <= IncidentMaxAge
      /\ (IF pc = "down" THEN saved ELSE memory).seen <= IncidentFirst(articles)
    => episode # "new" \/ forgot

(* The signal that leaves the hysteresis changes only after as many equal  *)
(* answers of the model in a row as are required, unless it was forgotten. *)
HysteresisHolds ==
    [][band.on /\ band'.on /\ band.committed # band'.committed
          => raw' = [action |-> band'.committed, times |-> Required]]_vars

(* Each cooldown of sales follows as many rejections of its own, since the *)
(* one before, with no sale in between that went through or found the      *)
(* market closed, and none is counted that did not come.                   *)
RejectionsInARow == rejection.failures <= streak
ThresholdReached == rejection.left > 0 => streak = Threshold
CooldownEarned == RejectionsInARow /\ ThresholdReached

(* A short that an incident opened and the manager knows ends: by time if  *)
(* not by price, over any number of refused exits.                         *)
NewsShortEnds == origin = "incident" ~> origin # "incident" \/ forgot \/ ledger # held
=============================================================================
