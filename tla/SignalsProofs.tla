---------------------------- MODULE SignalsProofs ----------------------------
(***************************************************************************)
(* What holds on the way from a signal to an order, for any durations, any *)
(* number of polls and any faults.                                         *)
(***************************************************************************)
EXTENDS Signals, TLAPS, FiniteSetTheorems

-----------------------------------------------------------------------------
(***************************************************************************)
(* Numbers and sets of them.                                               *)
(***************************************************************************)

LEMMA Durations ==
    /\ Grace \in Nat /\ Cooldown \in Nat /\ MaxFaults \in Nat
    /\ IncidentWindow \in Nat /\ IncidentMaxAge \in Nat
    /\ Required \in Nat \ {0} /\ MaxHold \in Nat \ {0}
    /\ Threshold \in Nat \ {0} /\ RejectionCooldown \in Nat \ {0}
    /\ IncidentEpisodeGap \in Nat \ {0}
    /\ IncidentMaxAge + IncidentEpisodeGap <= IncidentWindow + 1
    BY PollsAssumption, WindowAssumption

LEMMA Youngest ==
    ASSUME NEW N \in Nat, NEW S, S \subseteq 0 .. N, S # {}
    PROVE  \E x \in S : \A y \in S : x <= y
  <1> DEFINE Upto(x) == {y \in S : y <= x}
             T == {Upto(x) : x \in S}
  <1>1. IsFiniteSet(0 .. N)
    BY FS_Interval
  <1>2. FiniteSubsetsOf(0 .. N) = SUBSET (0 .. N)
    BY <1>1, FS_FiniteSubsetsOfFinite
  <1>3. IsWellFoundedOn(StrictSubsetOrdering(0 .. N), SUBSET (0 .. N))
    BY <1>2, FS_StrictSubsetOrderingWellFounded
  <1>4. T \subseteq SUBSET (0 .. N) /\ T # {}
    OBVIOUS
  <1>5. PICK U \in T : \A V \in T : <<V, U>> \notin StrictSubsetOrdering(0 .. N)
    <2> HIDE DEF T
    <2> QED BY <1>3, <1>4, WFMin
  <1>6. PICK x \in S : U = Upto(x)
    BY <1>5
  <1>7. \A z \in S : z \in Int
    OBVIOUS
  <1>8. ASSUME NEW y \in S, y < x PROVE FALSE
    <2>1. x \in Upto(x) /\ x \notin Upto(y)
      BY <1>7, <1>8
    <2>2. ASSUME NEW z \in Upto(y) PROVE z \in Upto(x)
      BY <1>7, <1>8, <2>2
    <2>3. <<Upto(y), Upto(x)>> \in StrictSubsetOrdering(0 .. N)
      BY <2>1, <2>2 DEF StrictSubsetOrdering
    <2> QED BY <1>5, <1>6, <2>3
  <1>9. ASSUME NEW y \in S PROVE x <= y
    BY <1>7, <1>8
  <1> QED BY <1>9

LEMMA Oldest ==
    ASSUME NEW N \in Nat, NEW S, S \subseteq 0 .. N, S # {}
    PROVE  \E x \in S : \A y \in S : y <= x
  <1> DEFINE R == {N - x : x \in S}
  <1>1. \A x \in S : x \in Int /\ N - x \in 0 .. N
    OBVIOUS
  <1>2. R \subseteq 0 .. N /\ R # {}
    BY <1>1
  <1>3. PICK r \in R : \A q \in R : r <= q
    <2> HIDE DEF R
    <2> QED BY <1>2, Youngest
  <1>4. PICK x \in S : r = N - x
    OBVIOUS
  <1>5. ASSUME NEW y \in S PROVE y <= x
    <2>1. N - x <= N - y
      BY <1>3, <1>4
    <2> QED BY <1>1, <2>1
  <1> QED BY <1>5

-----------------------------------------------------------------------------
(***************************************************************************)
(* Any reports: there is a first one of their latest episode, and a latest *)
(* one.                                                                    *)
(***************************************************************************)

LEMMA Latest ==
    ASSUME NEW dates, dates \subseteq 0 .. IncidentWindow, dates # {}
    PROVE  /\ IncidentLatest(dates) \in dates
           /\ \A b \in dates : IncidentLatest(dates) <= b
  <1>1. \E a \in dates : \A b \in dates : a <= b
    BY Durations, Youngest
  <1> QED BY <1>1 DEF IncidentLatest

LEMMA First ==
    ASSUME NEW dates, dates \subseteq 0 .. IncidentWindow, dates # {}
    PROVE  /\ IncidentFirst(dates) \in dates
           /\ StartsEpisode(dates, IncidentFirst(dates))
           /\ \A b \in dates : StartsEpisode(dates, b) => IncidentFirst(dates) <= b
  <1> DEFINE S == {a \in dates : StartsEpisode(dates, a)}
  <1>1. PICK o \in dates : \A b \in dates : b <= o
    BY Durations, Oldest
  <1>2. StartsEpisode(dates, o)
    BY <1>1 DEF StartsEpisode
  <1>3. S \subseteq 0 .. IncidentWindow /\ S # {}
    BY <1>2
  <1>4. \E a \in S : \A b \in S : a <= b
    <2> HIDE DEF S
    <2> QED BY <1>3, Durations, Youngest
  <1>5. \E a \in dates : StartsEpisode(dates, a) /\ \A b \in dates : StartsEpisode(dates, b) => a <= b
    BY <1>4
  <1> QED BY <1>5 DEF IncidentFirst

(***************************************************************************)
(* A poll's view: its dates are dates of reports, the latest no older than *)
(* the first.                                                              *)
(***************************************************************************)
LEMMA ViewType ==
    ASSUME articles \subseteq 0 .. IncidentWindow, NEW v \in Views
    PROVE  /\ v.open \in BOOLEAN /\ v.dated \in BOOLEAN
           /\ v.first \in Nat /\ v.latest \in Nat
           /\ v.dated => articles # {} /\ v.latest <= v.first
  <1>1. CASE \E denied \in BOOLEAN : v = Quiet(denied) \/ v = Undated(denied)
    <2>1. PICK denied \in BOOLEAN : v = Quiet(denied) \/ v = Undated(denied)
      BY <1>1
    <2>2. \/ v = [open |-> FALSE, dated |-> FALSE, first |-> 0, latest |-> 0, denied |-> denied]
          \/ v = [open |-> TRUE, dated |-> FALSE, first |-> 0, latest |-> 0, denied |-> denied]
      BY <2>1 DEF Quiet, Undated
    <2>3. v.open \in BOOLEAN /\ v.dated \in BOOLEAN /\ ~v.dated
      <3>1. CASE v = [open |-> FALSE, dated |-> FALSE, first |-> 0, latest |-> 0, denied |-> denied]
        BY <3>1
      <3>2. CASE v = [open |-> TRUE, dated |-> FALSE, first |-> 0, latest |-> 0, denied |-> denied]
        BY <3>2
      <3> QED BY <2>2, <3>1, <3>2
    <2>4. v.first = 0 /\ v.latest = 0
      BY <2>2
    <2>5. v.first \in Nat /\ v.latest \in Nat
      BY <2>4
    <2> QED BY <2>3, <2>5, Zenon
  <1>2. ASSUME NEW dates \in (SUBSET articles) \ {{}}, NEW denied \in BOOLEAN, v = Dated(dates, denied)
        PROVE  /\ v.open \in BOOLEAN /\ v.dated \in BOOLEAN
               /\ v.first \in Nat /\ v.latest \in Nat
               /\ v.dated => articles # {} /\ v.latest <= v.first
    <2>1. dates \subseteq 0 .. IncidentWindow /\ dates # {} /\ articles # {}
      OBVIOUS
    <2>2. /\ IncidentFirst(dates) \in dates /\ IncidentLatest(dates) \in dates
          /\ IncidentLatest(dates) <= IncidentFirst(dates)
      BY <2>1, First, Latest
    <2>3. IncidentFirst(dates) \in Nat /\ IncidentLatest(dates) \in Nat
      <3> DEFINE first == IncidentFirst(dates)
                 latest == IncidentLatest(dates)
      <3>1. first \in 0 .. IncidentWindow /\ latest \in 0 .. IncidentWindow
        BY <2>1, <2>2
      <3> HIDE DEF first, latest
      <3>2. first \in Nat /\ latest \in Nat
        BY <3>1, Durations
      <3> QED BY <3>2 DEF first, latest
    <2> QED BY <1>2, <2>1, <2>2, <2>3 DEF Dated
  <1> QED BY <1>1, <1>2 DEF Views

-----------------------------------------------------------------------------
(***************************************************************************)
(* The exit manager's state.                                               *)
(***************************************************************************)

\* What the manager knows, or will know when it is back.
Known == IF pc = "down" THEN saved ELSE memory

\* No incident short may follow from the episode in view.
EpisodeOver(m) ==
    articles # {} => ~(IncidentFirst(articles) < m.seen /\ IncidentFirst(articles) <= IncidentMaxAge)

\* A fresh episode counts as seen.
EpisodeSeen(m) ==
    articles # {} /\ IncidentFirst(articles) <= IncidentMaxAge /\ m.seen <= IncidentFirst(articles)

LEMMA StateFields ==
    ASSUME NEW m \in State
    PROVE  /\ m = [trade |-> m.trade, cooldown |-> m.cooldown, seen |-> m.seen]
           /\ m.trade = [age |-> m.trade.age, exit |-> m.trade.exit, open |-> m.trade.open]
           /\ m.trade \in Trade /\ m.cooldown \in 0 .. Cooldown /\ m.seen \in 0 .. Stale
           /\ m.trade.age \in 0 .. Greatest(Grace, MaxHold) + 1
           /\ m.trade.exit \in BOOLEAN /\ m.trade.open \in BOOLEAN
    BY DEF State, Trade

\* What an evaluation of m may make of it.
Evaluates(m, n) ==
    /\ n \in State
    /\ n.seen = m.seen
    /\ n.trade.open => m.trade.open
    /\ n.cooldown = m.cooldown \/ n.cooldown = Cooldown
    /\ n.trade.exit /\ ~m.trade.exit => n.cooldown = Cooldown

LEMMA ExitDecided ==
    ASSUME NEW m \in State, NEW n,
           n = [m EXCEPT !.trade.exit = TRUE, !.cooldown = Cooldown]
    PROVE  /\ n \in State
           /\ n.seen = m.seen
           /\ n.cooldown = Cooldown
           /\ n.trade.open = m.trade.open
           /\ n.trade.exit
  <1>1. Cooldown \in 0 .. Cooldown
    BY Durations
  <1>2. n \in State
    BY <1>1 DEF State, Trade
  <1>3. /\ n.seen = m.seen
        /\ n.cooldown = Cooldown
        /\ n.trade.open = m.trade.open
        /\ n.trade.exit
    BY <1>1 DEF State, Trade
  <1> QED BY <1>2, <1>3

LEMMA NoTradeType == NoTrade \in Trade /\ NewTrade \in Trade
    BY Durations DEF NoTrade, NewTrade, Trade, Greatest

LEMMA TradeReplaced ==
    ASSUME NEW m \in State, NEW t \in Trade, NEW n, n = [m EXCEPT !.trade = t]
    PROVE  /\ n \in State
           /\ n.seen = m.seen
           /\ n.cooldown = m.cooldown
           /\ n.trade = t
    BY DEF State

LEMMA ForcedEvaluates ==
    ASSUME NEW m \in State, NEW v
    PROVE  /\ Evaluates(m, Forced(m, v))
           /\ Forced(m, v).trade.open = m.trade.open
           /\ m.trade.exit => Forced(m, v).trade.exit
  <1>1. CASE v.denied /\ m.trade.open /\ ~m.trade.exit
    BY <1>1, ExitDecided DEF Forced, Evaluates
  <1>2. CASE ~(v.denied /\ m.trade.open /\ ~m.trade.exit)
    BY <1>2, StateFields DEF Forced, Evaluates
  <1> QED BY <1>1, <1>2

LEMMA EvaluatedEvaluates ==
    ASSUME NEW m \in State, NEW lots \in Int, NEW hit \in BOOLEAN
    PROVE  /\ Evaluates(m, Evaluated(m, lots, hit))
           /\ lots < 0 => Evaluated(m, lots, hit).trade.open = m.trade.open
  <1> DEFINE n == Evaluated(m, lots, hit)
  <1>1. \/ n = m
        \/ n = [m EXCEPT !.trade = NoTrade] /\ ~(lots < 0)
        \/ n = [m EXCEPT !.trade.exit = TRUE, !.cooldown = Cooldown]
    <2>1. m.trade.open \in BOOLEAN
      BY StateFields
    <2>2. CASE ~m.trade.open
      BY <2>2 DEF Evaluated
    <2>3. CASE m.trade.open /\ lots = 0
      BY <2>3 DEF Evaluated
    <2>4. CASE m.trade.open /\ lots > 0
      BY <2>4 DEF Evaluated
    <2>5. CASE m.trade.open /\ lots < 0
      BY <2>5 DEF Evaluated
    <2> QED BY <2>1, <2>2, <2>3, <2>4, <2>5
  <1> HIDE DEF n
  <1>2. ASSUME n = m PROVE Evaluates(m, n)
    BY <1>2, StateFields DEF Evaluates
  <1>3. ASSUME n = [m EXCEPT !.trade = NoTrade] PROVE Evaluates(m, n)
    <2>1. /\ n \in State /\ n.seen = m.seen /\ n.cooldown = m.cooldown
          /\ n.trade = NoTrade
      BY <1>3, TradeReplaced, NoTradeType
    <2> QED BY <1>3, <2>1 DEF Evaluates, NoTrade
  <1>4. ASSUME n = [m EXCEPT !.trade.exit = TRUE, !.cooldown = Cooldown] PROVE Evaluates(m, n)
    BY <1>4, ExitDecided DEF Evaluates
  <1>5. lots < 0 => n.trade.open = m.trade.open
    <2>1. n = [m EXCEPT !.trade.exit = TRUE, !.cooldown = Cooldown] => n.trade.open = m.trade.open
      BY ExitDecided
    <2> QED BY <1>1, <2>1
  <1>6. Evaluates(m, n)
    BY <1>1, <1>2, <1>3, <1>4
  <1> QED BY <1>5, <1>6 DEF n

LEMMA NewsExitEvaluates ==
    ASSUME NEW m \in State, ledger \in Int, NEW v, NEW hit \in BOOLEAN, NEW fault
    PROVE  /\ Evaluates(m, NewsExit(m, v, hit, fault))
           /\ fault = "read" \/ ledger < 0 => NewsExit(m, v, hit, fault).trade.open = m.trade.open
  <1> DEFINE f == Forced(m, v)
  <1>1. Evaluates(m, f) /\ f \in State /\ f.trade.open = m.trade.open
    BY ForcedEvaluates DEF Evaluates
  <1>2. CASE fault = "read"
    BY <1>1, <1>2 DEF NewsExit
  <1>3. CASE fault # "read"
    <2> DEFINE n == Evaluated(f, ledger, hit)
    <2>1. NewsExit(m, v, hit, fault) = n
      BY <1>3 DEF NewsExit
    <2>2. Evaluates(f, n) /\ (ledger < 0 => n.trade.open = f.trade.open)
      BY <1>1, EvaluatedEvaluates
    <2>3. n \in State /\ m.trade.exit \in BOOLEAN /\ f.trade.exit \in BOOLEAN
      BY <1>1, <2>2, StateFields DEF Evaluates
    <2> HIDE DEF f, n
    <2>4. n.trade.exit /\ ~m.trade.exit => n.cooldown = Cooldown
      BY <1>1, <2>2, <2>3 DEF Evaluates
    <2> QED BY <1>1, <1>3, <2>1, <2>2, <2>3, <2>4 DEF Evaluates
  <1> QED BY <1>2, <1>3

(***************************************************************************)
(* What the gate makes of the manager's state and of the model's action.   *)
(***************************************************************************)

LEMMA ClaimedKeeps ==
    ASSUME NEW m \in State, articles \subseteq 0 .. IncidentWindow, NEW v \in Views
    PROVE  /\ Claimed(m, v) \in State
           /\ Claimed(m, v).trade = m.trade
           /\ Claimed(m, v).cooldown = m.cooldown
           /\ EpisodeOver(m) => EpisodeOver(Claimed(m, v))
           /\ ShowsEpisode(v) => EpisodeOver(Claimed(m, v))
           /\ ~ShowsEpisode(v) /\ EpisodeSeen(Claimed(m, v)) => EpisodeSeen(m)
  <1> DEFINE seen == Least(m.seen, v.latest)
             first == IncidentFirst(articles)
  <1>1. /\ v.latest \in Nat /\ v.dated \in BOOLEAN
        /\ v.dated => articles # {}
        /\ articles # {} => first \in Int
    <2>1. articles # {} => first \in articles
      BY First
    <2>2. ASSUME articles # {} PROVE first \in Int
      <3>1. first \in 0 .. IncidentWindow
        BY <2>1, <2>2
      <3> HIDE DEF first
      <3> QED BY <3>1
    <2> QED BY <2>2, ViewType
  <1>2. m.seen \in 0 .. Stale /\ Stale \in Nat
    <2>1. Stale \in Nat
      BY Durations DEF Stale
    <2> QED BY <2>1, StateFields
  <1> HIDE DEF first
  <1>3. CASE ~v.dated
    <2>1. Claimed(m, v) = m /\ ~ShowsEpisode(v)
      BY <1>3 DEF Claimed, ShowsEpisode
    <2> QED BY <2>1
  <1>4. CASE v.dated
    <2>1. seen \in 0 .. Stale /\ seen <= m.seen /\ (seen = m.seen \/ seen = v.latest) /\ seen <= v.latest
      BY <1>1, <1>2 DEF Least
    <2>2. Claimed(m, v) = [m EXCEPT !.seen = seen]
      BY <1>4 DEF Claimed
    <2> HIDE DEF seen
    <2>3. /\ Claimed(m, v) \in State
          /\ Claimed(m, v).trade = m.trade
          /\ Claimed(m, v).cooldown = m.cooldown
          /\ Claimed(m, v).seen = seen
      BY <2>1, <2>2 DEF State
    <2>4. ShowsEpisode(v) <=> v.latest <= first
      BY <1>4 DEF ShowsEpisode, first
    <2>5. EpisodeOver(m) => EpisodeOver(Claimed(m, v))
      BY <1>1, <1>2, <1>4, <2>1, <2>3 DEF EpisodeOver, first
    <2>6. ShowsEpisode(v) => EpisodeOver(Claimed(m, v))
      BY <1>1, <1>2, <1>4, <2>1, <2>3, <2>4 DEF EpisodeOver, first
    <2>7. ~ShowsEpisode(v) /\ EpisodeSeen(Claimed(m, v)) => EpisodeSeen(m)
      BY <1>1, <1>2, <1>4, <2>1, <2>3, <2>4 DEF EpisodeSeen, first
    <2> QED BY <2>3, <2>5, <2>6, <2>7
  <1> QED BY <1>1, <1>3, <1>4

LEMMA NotedKeeps ==
    ASSUME NEW m \in State, NEW fault, ledger \in Int
    PROVE  /\ Noted(m, fault) \in State
           /\ Noted(m, fault).seen = m.seen
           /\ Noted(m, fault).cooldown = m.cooldown
           /\ m.trade.open => Noted(m, fault).trade.open
           /\ ~m.trade.open /\ Noted(m, fault).trade.open => ~(ledger < 0)
           /\ Noted(m, fault).trade.open \/ fault = "read" \/ ledger < 0
  <1>1. CASE fault = "read" \/ ledger < 0 \/ m.trade.open
    BY <1>1 DEF Noted
  <1>2. CASE ~(fault = "read" \/ ledger < 0 \/ m.trade.open)
    <2>1. Noted(m, fault) = [m EXCEPT !.trade = NewTrade]
      BY <1>2 DEF Noted
    <2>2. /\ Noted(m, fault) \in State /\ Noted(m, fault).seen = m.seen
          /\ Noted(m, fault).cooldown = m.cooldown /\ Noted(m, fault).trade = NewTrade
      BY <2>1, TradeReplaced, NoTradeType
    <2> QED BY <1>2, <2>2 DEF NewTrade
  <1> QED BY <1>1, <1>2

LEMMA GatedKeeps ==
    ASSUME NEW m \in State, NEW v \in Views, NEW action \in Action, NEW fault,
           NEW verdict \in Verdicts(m, v, action),
           ledger \in Int, articles \subseteq 0 .. IncidentWindow,
           NEW g, g = Gated(m, v, action, verdict, fault)
    PROVE  /\ g.memory \in State /\ g.action \in Action /\ g.by \in {"model", "incident"}
           /\ g.memory.cooldown = m.cooldown
           /\ m.trade.open => g.memory.trade.open
           /\ ~m.trade.open /\ g.memory.trade.open => ~(ledger < 0)
           /\ EpisodeOver(m) => EpisodeOver(g.memory)
           /\ ~ShowsEpisode(v) /\ EpisodeSeen(g.memory) => EpisodeSeen(m)
           /\ g.by = "incident" =>
                 /\ m.cooldown = 0
                 /\ ShowsStart(v) => ~EpisodeOver(m)
                 /\ ShowsEpisode(v) => EpisodeOver(g.memory)
                 /\ g.memory.trade.open \/ fault = "read" \/ ledger < 0
  <1> DEFINE c == Claimed(m, v)
             noted == Noted(c, fault)
             act == IF action = "BUY" THEN "HOLD" ELSE action
             short == ShortsOnIncident(m, v, action)
  <1>1. act \in Action
    BY DEF Action
  <1>2. /\ c \in State /\ c.trade = m.trade /\ c.cooldown = m.cooldown
        /\ EpisodeOver(m) => EpisodeOver(c)
        /\ ShowsEpisode(v) => EpisodeOver(c)
        /\ ~ShowsEpisode(v) /\ EpisodeSeen(c) => EpisodeSeen(m)
    BY ClaimedKeeps
  <1>3. /\ noted \in State /\ noted.seen = c.seen /\ noted.cooldown = c.cooldown
        /\ c.trade.open => noted.trade.open
        /\ ~c.trade.open /\ noted.trade.open => ~(ledger < 0)
        /\ noted.trade.open \/ fault = "read" \/ ledger < 0
    <2> HIDE DEF c
    <2> QED BY <1>2, NotedKeeps
  <1>4. (EpisodeOver(noted) <=> EpisodeOver(c)) /\ (EpisodeSeen(noted) <=> EpisodeSeen(c))
    BY <1>3 DEF EpisodeOver, EpisodeSeen
  <1>5. short => FirstReport(m, v) /\ ~ShortSuppressed(m)
    BY DEF ShortsOnIncident
  <1>6. short => m.cooldown = 0 /\ (ShowsStart(v) => ~EpisodeOver(m))
    <2>0. m.cooldown \in 0 .. Cooldown
      BY StateFields
    <2>1. m.cooldown \in Nat
      BY <2>0, Durations
    <2>2. v.dated => articles # {}
      BY ViewType
    <2> QED BY <1>5, <2>1, <2>2 DEF ShortSuppressed, FirstReport, EpisodeOver, ShowsStart
  <1>7. \/ short /\ g = [memory |-> noted, action |-> "SELL", by |-> "incident"]
        \/ g = [memory |-> c, action |-> act, by |-> "model"]
        \/ g = [memory |-> m, action |-> act, by |-> "model"]
        \/ g = [memory |-> m, action |-> action, by |-> "model"]
    <2>0. verdict = "damage" => short
      BY DEF Verdicts
    <2> HIDE DEF c, noted, short
    <2>1. CASE ~v.open
      BY <2>1 DEF Gated
    <2>2. CASE v.open /\ verdict = "damage"
      BY <2>0, <2>2 DEF Gated, c, noted
    <2>3. CASE v.open /\ verdict # "damage"
      BY <2>3 DEF Gated, c
    <2> QED BY <2>1, <2>2, <2>3
  <1> HIDE DEF c, noted, act, short
  <1>8. CASE short /\ g = [memory |-> noted, action |-> "SELL", by |-> "incident"]
    BY <1>2, <1>3, <1>4, <1>5, <1>6, <1>8 DEF Action
  <1>9. CASE g = [memory |-> c, action |-> act, by |-> "model"]
    BY <1>1, <1>2, <1>9
  <1>10. CASE g = [memory |-> m, action |-> act, by |-> "model"]
    BY <1>1, <1>10
  <1>11. CASE g = [memory |-> m, action |-> action, by |-> "model"]
    BY <1>11
  <1> QED BY <1>7, <1>8, <1>9, <1>10, <1>11

-----------------------------------------------------------------------------
(***************************************************************************)
(* The inductive invariant.  An answer is there only until it is traded;   *)
(* the hysteresis has counted no more than the model said; a failure is    *)
(* one of a row; the news trade follows the short, whoever knows of it;    *)
(* the cooldown left and the time since the exit make up the cooldown; and *)
(* an episode that had its short can have no other.                        *)
(***************************************************************************)

Answered == pc # "order" => signal = NoSignal

BandCounts ==
    band.candidate # "none" => raw.action = band.candidate /\ band.polls <= raw.times

RejectionsCount == CooldownEarned /\ (rejection.left > 0 => rejection.failures = 0)

TradeKnown ==
    /\ origin # "none" => held < 0
    /\ origin = "incident" => Known.trade.open \/ forgot \/ ledger # held
    /\ signal.by = "incident" => memory.trade.open \/ forgot \/ held < 0
    /\ Known.trade.open /\ held < 0 => origin \in {"incident", "adopted"} \/ forgot \/ ledger # held
    /\ signal.by = "exit" => memory.trade.open /\ ledger < 0

CooldownKnown ==
    /\ Cooldown <= sinceExit + Known.cooldown \/ forgot
    /\ CooldownHolds

EpisodeKnown ==
    /\ episode = "shorted" => EpisodeOver(Known) \/ forgot
    /\ EpisodeSeen(Known) => episode # "new" \/ forgot

IInv ==
    /\ SignalsInv
    /\ Answered
    /\ BandCounts
    /\ RejectionsCount
    /\ TradeKnown
    /\ CooldownKnown
    /\ EpisodeKnown

LEMMA Begins == Init => IInv
  <1> SUFFICES ASSUME Init PROVE IInv
    OBVIOUS
  <1> USE DEF Init
  <1>1. NothingKnown \in State
    BY Durations, NoTradeType DEF NothingKnown, State, Stale
  <1>2. TypeOK
    <2>1. 0 \in 0 .. Required - 1 /\ 0 \in 0 .. Threshold - 1 /\ 0 \in 0 .. Threshold
      BY Durations
    <2>2. 0 \in 0 .. RejectionCooldown /\ 0 \in 0 .. Required /\ 0 \in 0 .. MaxFaults
      BY Durations
    <2>3. Cooldown \in 0 .. Cooldown 
      BY Durations
    <2>4. band \in [on : BOOLEAN, committed : Action, candidate : Action \cup {"none"},
                   polls : 0 .. Required - 1]
      BY <2>1 DEF NoBand, Action
    <2>5. rejection \in [failures : 0 .. Threshold - 1, left : 0 .. RejectionCooldown]
      BY <2>1, <2>2 DEF NoRejection
    <2>6. raw \in [action : Action \cup {"error"}, times : 0 .. Required]
      BY <2>2 DEF NoAnswer
    <2>7. signal \in [action : Action, by : Source]
      BY DEF NoSignal, Action, Source
    <2>8. /\ pc \in {"idle", "order", "done", "down"}
          /\ origin \in {"none", "model", "incident", "adopted"}
          /\ forgot \in BOOLEAN /\ episode \in {"new", "settled", "shorted"} /\ fromStart \in BOOLEAN
      OBVIOUS
    <2>9. held \in -1 .. 1 /\ ledger \in Int
      OBVIOUS
    <2>10. articles \subseteq 0 .. IncidentWindow
      OBVIOUS
    <2>11. sinceExit \in 0 .. Cooldown
      BY <2>3
    <2> QED BY <1>1, <2>1, <2>2, <2>4, <2>5, <2>6, <2>7, <2>8, <2>11, <2>9, <2>10 DEF TypeOK
  <1>3. SignalsInv
    BY <1>2 DEF SignalsInv, NothingUnsaved
  <1>4. Answered /\ BandCounts
    BY DEF Answered, BandCounts, NoBand
  <1>5. RejectionsCount
    BY Durations DEF RejectionsCount, CooldownEarned, RejectionsInARow, ThresholdReached, NoRejection
  <1>6. TradeKnown
    BY DEF TradeKnown, NoSignal, Known, NothingKnown, NoTrade
  <1>7. CooldownKnown
    BY Durations DEF CooldownKnown, CooldownHolds, NoSignal, Known, NothingKnown
  <1>8. EpisodeKnown
    BY DEF EpisodeKnown, EpisodeSeen
  <1> QED BY <1>3, <1>4, <1>5, <1>6, <1>7, <1>8 DEF IInv

(***************************************************************************)
(* A poll's answer.                                                        *)
(***************************************************************************)

LEMMA BandAfterCounts ==
    ASSUME TypeOK, BandCounts, NEW action \in Action,
           band' = BandAfter(band, action),
           raw' = [action |-> action, times |-> InARow(action)]
    PROVE  /\ band' \in [on : BOOLEAN, committed : Action, candidate : Action \cup {"none"},
                         polls : 0 .. Required - 1]
           /\ raw' \in [action : Action \cup {"error"}, times : 0 .. Required]
           /\ BandCounts'
           /\ band.on /\ band.committed # band'.committed =>
                  raw' = [action |-> band'.committed, times |-> Required]
  <1> DEFINE polls == IF action = band.candidate THEN band.polls + 1 ELSE 1
             times == InARow(action)
  <1>1. /\ band.on \in BOOLEAN /\ band.committed \in Action
        /\ band.candidate \in Action \cup {"none"}
        /\ band.polls \in Int /\ 0 <= band.polls /\ band.polls < Required
        /\ raw.times \in Int /\ 0 <= raw.times /\ raw.times <= Required
        /\ Required \in Int /\ 1 <= Required
    <2>1. band.polls \in 0 .. Required - 1 /\ raw.times \in 0 .. Required
      BY DEF TypeOK
    <2>2. Required \in Int /\ 1 <= Required
      BY Durations
    <2>3. /\ band.on \in BOOLEAN /\ band.committed \in Action
          /\ band.candidate \in Action \cup {"none"}
      BY DEF TypeOK
    <2> QED BY <2>1, <2>2, <2>3
  <1>2. /\ polls \in Int /\ 1 <= polls /\ polls <= Required
        /\ times \in Int /\ 1 <= times /\ times <= Required
    BY <1>1 DEF Least, InARow
  <1>3. polls <= times
    <2>1. CASE action = band.candidate
      <3>1. raw.action = action /\ band.polls <= raw.times
        BY <2>1 DEF BandCounts, Action
      <3> QED BY <1>1, <2>1, <3>1 DEF Least, InARow
    <2>2. CASE action # band.candidate
      BY <1>2, <2>2
    <2> QED BY <2>1, <2>2
  <1>4. raw' = [action |-> action, times |-> times]
    OBVIOUS
  <1>5. action # "none" /\ action \in Action \cup {"error"}
    BY DEF Action
  <1>6. \/ band' = [on |-> TRUE, committed |-> action, candidate |-> "none", polls |-> 0]
           /\ (band.on => action = band.committed \/ polls = Required)
        \/ band' = [band EXCEPT !.candidate = action, !.polls = polls] /\ polls < Required
    <2>1. CASE ~band.on \/ action = band.committed \/ polls >= Required
      BY <1>1, <1>2, <2>1 DEF BandAfter
    <2>2. CASE ~(~band.on \/ action = band.committed \/ polls >= Required)
      BY <1>1, <1>2, <2>2 DEF BandAfter
    <2> QED BY <2>1, <2>2
  <1> HIDE DEF polls, times
  <1>7. raw' \in [action : Action \cup {"error"}, times : 0 .. Required]
    <2>1. times \in 0 .. Required
      BY <1>1, <1>2
    <2> QED BY <1>4, <1>5, <2>1
  <1>8. CASE /\ band' = [on |-> TRUE, committed |-> action, candidate |-> "none", polls |-> 0]
             /\ band.on => action = band.committed \/ polls = Required
    <2>1. band' \in [on : BOOLEAN, committed : Action, candidate : Action \cup {"none"},
                    polls : 0 .. Required - 1]
      <3>1. 0 \in 0 .. Required - 1
        BY <1>1
      <3> QED BY <1>8, <3>1
    <2>2. BandCounts'
      BY <1>8 DEF BandCounts
    <2>3. band.on /\ band.committed # band'.committed =>
             raw' = [action |-> band'.committed, times |-> Required]
      <3>1. SUFFICES ASSUME band.on, band.committed # band'.committed
                     PROVE  raw' = [action |-> band'.committed, times |-> Required]
        OBVIOUS
      <3>2. band'.committed = action /\ polls = Required
        BY <1>8, <3>1
      <3>3. times = Required
        BY <1>1, <1>2, <1>3, <3>2
      <3> QED BY <1>4, <3>2, <3>3
    <2> QED BY <1>7, <2>1, <2>2, <2>3
  <1>9. CASE band' = [band EXCEPT !.candidate = action, !.polls = polls] /\ polls < Required
    <2>1. polls \in 0 .. Required - 1
      BY <1>1, <1>2, <1>9
    <2>2. band \in [on : BOOLEAN, committed : Action, candidate : Action \cup {"none"},
                   polls : 0 .. Required - 1]
      BY DEF TypeOK
    <2>3. band' \in [on : BOOLEAN, committed : Action, candidate : Action \cup {"none"},
                    polls : 0 .. Required - 1]
      BY <1>9, <2>1, <2>2
    <2>4. band'.candidate = action /\ band'.polls = polls /\ band'.committed = band.committed
      BY <1>9, <2>2
    <2>5. BandCounts'
      BY <1>3, <1>4, <2>4 DEF BandCounts
    <2> QED BY <1>7, <2>3, <2>4, <2>5
  <1> QED BY <1>6, <1>8, <1>9

\* How much cooldown is left when an exit may have been decided.
LEMMA SinceExitCounts ==
    ASSUME NEW m \in State, NEW n \in State, Evaluates(m, n),
           NEW s \in 0 .. Cooldown, NEW t,
           t = IF n.trade.exit /\ ~m.trade.exit THEN 0 ELSE s
    PROVE  /\ t \in 0 .. Cooldown
           /\ Cooldown <= s + m.cooldown => Cooldown <= t + n.cooldown
  <1>1. m.cooldown \in 0 .. Cooldown /\ n.cooldown \in 0 .. Cooldown
    BY StateFields
  <1>2. m.trade.exit \in BOOLEAN /\ n.trade.exit \in BOOLEAN
    BY StateFields
  <1>3. n.cooldown = m.cooldown \/ n.cooldown = Cooldown
    BY DEF Evaluates
  <1>4. CASE n.trade.exit /\ ~m.trade.exit
    <2>1. n.cooldown = Cooldown /\ t = 0
      BY <1>4 DEF Evaluates
    <2> QED BY <2>1, Durations
  <1>5. CASE ~(n.trade.exit /\ ~m.trade.exit)
    <2>1. t = s
      BY <1>5
    <2> QED BY <1>1, <1>3, <2>1, Durations
  <1> QED BY <1>4, <1>5

\* What a poll's answer leaves behind, with or without an exit.
LEMMA AnswerExitMakes ==
    ASSUME TypeOK, NEW v, NEW hit \in BOOLEAN, NEW fault, AnswerExit(v, hit, fault)
    PROVE  /\ memory' \in State /\ saved' \in State
           /\ fault # "write" => saved' = memory' \/ (memory' = memory /\ saved' = saved)
           /\ memory'.seen = memory.seen
           /\ memory'.trade.open /\ memory.trade.open /\ ledger < 0
           /\ sinceExit' \in 0 .. Cooldown
           /\ Cooldown <= sinceExit + memory.cooldown => Cooldown <= sinceExit' + memory'.cooldown
  <1>1. memory \in State /\ saved \in State /\ ledger \in Int /\ sinceExit \in 0 .. Cooldown
    BY DEF TypeOK
  <1>2. memory' = NewsExit(memory, v, hit, fault)
    BY DEF AnswerExit
  <1>3. Evaluates(memory, memory') /\ memory' \in State
    BY <1>1, <1>2, NewsExitEvaluates DEF Evaluates
  <1>4. ledger < 0 /\ memory'.trade.open
    BY <1>2 DEF AnswerExit, Exits
  <1>5. memory.trade.open /\ memory'.seen = memory.seen
    BY <1>3, <1>4 DEF Evaluates
  <1>6. \/ saved' = saved /\ memory' = memory
        \/ saved' = IF fault = "write" THEN saved ELSE memory'
    BY DEF AnswerExit, Save
  <1>7. sinceExit' = IF memory'.trade.exit /\ ~memory.trade.exit THEN 0 ELSE sinceExit
    BY DEF AnswerExit, SinceExit
  <1>8. /\ sinceExit' \in 0 .. Cooldown
        /\ Cooldown <= sinceExit + memory.cooldown => Cooldown <= sinceExit' + memory'.cooldown
    BY <1>1, <1>3, <1>7, SinceExitCounts
  <1> QED BY <1>1, <1>3, <1>4, <1>5, <1>6, <1>8

LEMMA EpisodeOverSeen ==
    ASSUME NEW m, NEW n, m.seen = n.seen
    PROVE  (EpisodeOver(m) <=> EpisodeOver(n)) /\ (EpisodeSeen(m) <=> EpisodeSeen(n))
    BY DEF EpisodeOver, EpisodeSeen

LEMMA AnswerSignalMakes ==
    ASSUME TypeOK, band'.committed \in Action, NEW v \in Views, NEW hit \in BOOLEAN, NEW fault,
           NEW verdict \in Verdicts(NewsExit(memory, v, hit, fault), v, band'.committed),
           NEW vetoed \in BOOLEAN,
           AnswerSignal(v, hit, verdict, vetoed, fault)
    PROVE  /\ memory' \in State /\ saved' \in State
           /\ fault # "write" => saved' = memory' \/ (memory' = memory /\ saved' = saved)
           /\ signal' \in [action : Action, by : Source] /\ signal'.by # "exit"
           /\ sinceExit' \in 0 .. Cooldown
           /\ Cooldown <= sinceExit + memory.cooldown => Cooldown <= sinceExit' + memory'.cooldown
           /\ forgot' \in BOOLEAN /\ episode' \in {"new", "settled", "shorted"} /\ fromStart' \in BOOLEAN
           /\ forgot => forgot'
           /\ memory.trade.open /\ ~memory'.trade.open => ~(ledger < 0)
           /\ ~memory.trade.open /\ memory'.trade.open => ~(ledger < 0)
           /\ EpisodeOver(memory) => EpisodeOver(memory')
           /\ episode' = "shorted" => episode = "shorted" \/ EpisodeOver(memory')
           /\ episode' = "new" /\ EpisodeSeen(memory') => episode = "new" /\ EpisodeSeen(memory)
           /\ signal'.by = "incident" =>
                  /\ memory'.cooldown = 0
                  /\ fromStart' => ~EpisodeOver(memory)
                  /\ memory'.trade.open \/ forgot' \/ held < 0
  <1> DEFINE m == NewsExit(memory, v, hit, fault)
             g == Gated(m, v, band'.committed, verdict, fault)
  <1>1. /\ memory \in State /\ saved \in State /\ ledger \in Int /\ sinceExit \in 0 .. Cooldown
        /\ articles \subseteq 0 .. IncidentWindow /\ held \in -1 .. 1
        /\ forgot \in BOOLEAN /\ episode \in {"new", "settled", "shorted"}
    BY DEF TypeOK
  <1>2. Evaluates(memory, m) /\ m \in State
    BY <1>1, NewsExitEvaluates DEF Evaluates
  <1>3. fault = "read" \/ ledger < 0 => m.trade.open = memory.trade.open
    BY <1>1, NewsExitEvaluates
  <1>4. /\ memory' = g.memory
        /\ signal' = IF vetoed THEN NoSignal ELSE [action |-> g.action, by |-> g.by]
        /\ forgot' = (forgot \/ (signal'.by = "incident" /\ (fault = "read" \/ (ledger < 0 /\ held >= 0))))
        /\ episode' = IF g.by = "incident" /\ ShowsEpisode(v) THEN "shorted"
                      ELSE IF episode = "new" /\ verdict # "retry" /\ ShowsEpisode(v) THEN "settled"
                      ELSE episode
        /\ fromStart' = (signal'.by = "incident" /\ ShowsStart(v))
        /\ sinceExit' = IF m.trade.exit /\ ~memory.trade.exit THEN 0 ELSE sinceExit
        /\ \/ saved' = saved /\ memory' = memory
           \/ saved' \in IF fault = "write" THEN {saved} \cup SavedBefore(m, v) ELSE {memory'}
    BY DEF AnswerSignal, SinceExit, Save
  <1>0. verdict \in Verdicts(m, v, band'.committed)
    OBVIOUS
  <1> HIDE DEF m
  <1>5. /\ g.memory \in State /\ g.action \in Action /\ g.by \in {"model", "incident"}
        /\ g.memory.cooldown = m.cooldown
        /\ m.trade.open => g.memory.trade.open
        /\ ~m.trade.open /\ g.memory.trade.open => ~(ledger < 0)
        /\ EpisodeOver(m) => EpisodeOver(g.memory)
        /\ ~ShowsEpisode(v) /\ EpisodeSeen(g.memory) => EpisodeSeen(m)
        /\ g.by = "incident" =>
              /\ m.cooldown = 0
              /\ ShowsStart(v) => ~EpisodeOver(m)
              /\ ShowsEpisode(v) => EpisodeOver(g.memory)
              /\ g.memory.trade.open \/ fault = "read" \/ ledger < 0
    BY <1>0, <1>1, <1>2, GatedKeeps
  <1>50. verdict = "retry" /\ g.by # "incident" => g.memory = m
    BY DEF Gated
  <1> HIDE DEF g
  <1>6. (EpisodeOver(m) <=> EpisodeOver(memory)) /\ (EpisodeSeen(m) <=> EpisodeSeen(memory))
    BY <1>2, EpisodeOverSeen DEF Evaluates
  <1>7. /\ sinceExit' \in 0 .. Cooldown
        /\ Cooldown <= sinceExit + memory.cooldown => Cooldown <= sinceExit' + m.cooldown
    BY <1>1, <1>2, <1>4, SinceExitCounts
  <1>8. memory' \in State /\ saved' \in State
    <2>1. SavedBefore(m, v) \subseteq State
      <3>1. Forced(memory, v) \in State
        BY <1>1, ForcedEvaluates DEF Evaluates
      <3>2. Claimed(m, v) \in State
        BY <1>1, <1>2, ClaimedKeeps
      <3> QED BY <1>2, <3>1, <3>2 DEF SavedBefore
    <2> QED BY <1>1, <1>4, <1>5, <2>1
  <1>9. fault # "write" => saved' = memory' \/ (memory' = memory /\ saved' = saved)
    BY <1>4
  <1>10. signal' \in [action : Action, by : Source] /\ signal'.by # "exit"
    BY <1>4, <1>5 DEF NoSignal, Action, Source
  <1>11. signal'.by = "incident" => g.by = "incident"
    BY <1>4 DEF NoSignal
  <1>12. /\ forgot' \in BOOLEAN /\ (forgot => forgot')
         /\ episode' \in {"new", "settled", "shorted"} /\ fromStart' \in BOOLEAN
    <2>1. ShowsStart(v) \in BOOLEAN
      BY DEF ShowsStart
    <2> QED BY <1>1, <1>4, <2>1
  <1>13. memory.trade.open \in BOOLEAN /\ m.trade.open \in BOOLEAN /\ memory'.trade.open \in BOOLEAN
    BY <1>1, <1>2, <1>8, StateFields
  <1>14. /\ memory.trade.open /\ ~memory'.trade.open => ~(ledger < 0)
         /\ ~memory.trade.open /\ memory'.trade.open => ~(ledger < 0)
    BY <1>3, <1>4, <1>5, <1>13
  <1>15. EpisodeOver(memory) => EpisodeOver(memory')
    BY <1>4, <1>5, <1>6
  <1>16. /\ episode' = "shorted" => episode = "shorted" \/ EpisodeOver(memory')
         /\ episode' = "new" /\ EpisodeSeen(memory') => episode = "new" /\ EpisodeSeen(memory)
    <2>1. CASE ~ShowsEpisode(v)
      BY <1>4, <1>5, <1>6, <2>1
    <2>2. CASE ShowsEpisode(v)
      BY <1>4, <1>5, <1>50, <1>6, <2>2
    <2> QED BY <2>1, <2>2
  <1>17. signal'.by = "incident" =>
            /\ memory'.cooldown = 0
            /\ fromStart' => ~EpisodeOver(memory)
            /\ memory'.trade.open \/ forgot' \/ held < 0
    <2>1. SUFFICES ASSUME signal'.by = "incident"
                   PROVE  /\ memory'.cooldown = 0
                          /\ fromStart' => ~EpisodeOver(memory)
                          /\ memory'.trade.open \/ forgot' \/ held < 0
      OBVIOUS
    <2>2. memory'.cooldown = 0
      BY <1>4, <1>5, <1>11, <2>1
    <2>3. fromStart' => ~EpisodeOver(memory)
      BY <1>4, <1>5, <1>6, <1>11, <2>1
    <2>4. memory'.trade.open \/ fault = "read" \/ ledger < 0
      BY <1>4, <1>5, <1>11, <2>1
    <2>5. fault = "read" \/ (ledger < 0 /\ held >= 0) => forgot'
      BY <1>4, <2>1
    <2>6. held >= 0 \/ held < 0
      BY <1>1
    <2> QED BY <2>2, <2>3, <2>4, <2>5, <2>6
  <1> QED BY <1>4, <1>5, <1>7, <1>8, <1>9, <1>10, <1>12, <1>14, <1>15, <1>16, <1>17

LEMMA FaultCounts ==
    ASSUME faults \in 0 .. MaxFaults, NEW kind, Fault(kind)
    PROVE  faults' \in 0 .. MaxFaults /\ (faults' = 0 => faults = 0 /\ kind = "none")
    BY Durations DEF Fault

LEMMA AnswerExitKeeps ==
    ASSUME IInv, NEW fault, NEW action \in Action, NEW v, NEW hit \in BOOLEAN,
           pc = "idle", pc' = IF signal'.action = "HOLD" THEN "done" ELSE "order", Fault(fault),
           raw' = [action |-> action, times |-> InARow(action)],
           band' = BandAfter(band, action),
           AnswerExit(v, hit, fault)
    PROVE  IInv'
  <1>1. TypeOK /\ BandCounts /\ pc' # "down" /\ Known = memory /\ Known' = memory'
    BY DEF IInv, SignalsInv, Known
  <1>2. /\ memory' \in State /\ saved' \in State
        /\ fault # "write" => saved' = memory' \/ (memory' = memory /\ saved' = saved)
        /\ memory'.seen = memory.seen
        /\ memory'.trade.open /\ memory.trade.open /\ ledger < 0
        /\ sinceExit' \in 0 .. Cooldown
        /\ Cooldown <= sinceExit + memory.cooldown => Cooldown <= sinceExit' + memory'.cooldown
    BY <1>1, AnswerExitMakes
  <1>3. /\ band' \in [on : BOOLEAN, committed : Action, candidate : Action \cup {"none"},
                     polls : 0 .. Required - 1]
        /\ raw' \in [action : Action \cup {"error"}, times : 0 .. Required]
        /\ BandCounts'
    BY <1>1, BandAfterCounts
  <1>4. faults' \in 0 .. MaxFaults /\ (faults' = 0 => faults = 0 /\ fault = "none")
    BY <1>1, FaultCounts DEF TypeOK
  <1>5. UNCHANGED <<held, ledger, rejection, articles, origin, forgot, episode, fromStart, streak>>
    BY DEF AnswerExit, broker
  <1>6. signal' = [action |-> "BUY", by |-> "exit"]
    BY DEF AnswerExit
  <1>7. TypeOK'
    <2>1. signal' \in [action : Action, by : Source]
      BY <1>6 DEF Action, Source
    <2> QED BY <1>1, <1>2, <1>3, <1>4, <1>5, <2>1 DEF TypeOK
  <1>8. NothingUnsaved'
    BY <1>2, <1>4 DEF IInv, SignalsInv, NothingUnsaved
  <1>9. Answered'
    BY <1>6 DEF Answered
  <1>10. RejectionsCount'
    BY <1>5 DEF IInv, RejectionsCount, CooldownEarned, RejectionsInARow, ThresholdReached
  <1>11. TradeKnown'
    BY <1>1, <1>2, <1>5, <1>6 DEF IInv, TradeKnown
  <1>12. CooldownKnown'
    BY <1>1, <1>2, <1>5, <1>6 DEF IInv, CooldownKnown, CooldownHolds
  <1>13. EpisodeKnown'
    <2>1. (EpisodeOver(memory) <=> EpisodeOver(memory')) /\ (EpisodeSeen(memory) <=> EpisodeSeen(memory'))
      BY <1>2, EpisodeOverSeen
    <2>2. (EpisodeOver(Known)' <=> EpisodeOver(memory')) /\ (EpisodeSeen(Known)' <=> EpisodeSeen(memory'))
      BY <1>1, <1>5 DEF EpisodeOver, EpisodeSeen, IncidentFirst, StartsEpisode
    <2> QED BY <1>1, <1>5, <2>1, <2>2 DEF IInv, EpisodeKnown
  <1> QED BY <1>3, <1>7, <1>8, <1>9, <1>10, <1>11, <1>12, <1>13 DEF IInv, SignalsInv

LEMMA AnswerSignalKeeps ==
    ASSUME IInv, NEW fault, NEW action \in Action, NEW v \in Views, NEW hit \in BOOLEAN,
           pc = "idle", pc' = IF signal'.action = "HOLD" THEN "done" ELSE "order", Fault(fault),
           raw' = [action |-> action, times |-> InARow(action)],
           band' = BandAfter(band, action),
           NEW verdict \in Verdicts(NewsExit(memory, v, hit, fault), v, band'.committed),
           NEW vetoed \in BOOLEAN,
           AnswerSignal(v, hit, verdict, vetoed, fault)
    PROVE  IInv'
  <1>1. TypeOK /\ BandCounts /\ Known = memory /\ Known' = memory'
    BY DEF IInv, SignalsInv, Known
  <1>2. /\ band' \in [on : BOOLEAN, committed : Action, candidate : Action \cup {"none"},
                     polls : 0 .. Required - 1]
        /\ raw' \in [action : Action \cup {"error"}, times : 0 .. Required]
        /\ BandCounts'
    BY <1>1, BandAfterCounts
  <1>3. /\ memory' \in State /\ saved' \in State
        /\ fault # "write" => saved' = memory' \/ (memory' = memory /\ saved' = saved)
        /\ signal' \in [action : Action, by : Source] /\ signal'.by # "exit"
        /\ sinceExit' \in 0 .. Cooldown
        /\ Cooldown <= sinceExit + memory.cooldown => Cooldown <= sinceExit' + memory'.cooldown
        /\ forgot' \in BOOLEAN /\ episode' \in {"new", "settled", "shorted"} /\ fromStart' \in BOOLEAN
        /\ forgot => forgot'
        /\ memory.trade.open /\ ~memory'.trade.open => ~(ledger < 0)
        /\ ~memory.trade.open /\ memory'.trade.open => ~(ledger < 0)
        /\ EpisodeOver(memory) => EpisodeOver(memory')
        /\ episode' = "shorted" => episode = "shorted" \/ EpisodeOver(memory')
        /\ episode' = "new" /\ EpisodeSeen(memory') => episode = "new" /\ EpisodeSeen(memory)
        /\ signal'.by = "incident" =>
               /\ memory'.cooldown = 0
               /\ memory'.trade.open \/ forgot' \/ held < 0
    BY <1>1, <1>2, AnswerSignalMakes
  <1>4. faults' \in 0 .. MaxFaults /\ (faults' = 0 => faults = 0 /\ fault = "none")
    BY <1>1, FaultCounts DEF TypeOK
  <1>5. UNCHANGED <<held, ledger, rejection, articles, origin, streak>>
    BY DEF AnswerSignal, broker
  <1>6. TypeOK'
    BY <1>1, <1>2, <1>3, <1>4, <1>5 DEF TypeOK
  <1>7. NothingUnsaved'
    BY <1>3, <1>4 DEF IInv, SignalsInv, NothingUnsaved
  <1>8. Answered'
    <2>1. signal'.action = "HOLD" => signal' = NoSignal
      BY DEF AnswerSignal, Gated, NoSignal
    <2> QED BY <2>1 DEF Answered
  <1>9. RejectionsCount'
    BY <1>5 DEF IInv, RejectionsCount, CooldownEarned, RejectionsInARow, ThresholdReached
  <1>10. TradeKnown'
    <2>1. memory.trade.open \in BOOLEAN /\ memory'.trade.open \in BOOLEAN
      BY <1>1, <1>3, StateFields DEF TypeOK
    <2>2. held < 0 /\ ~(ledger < 0) => ledger # held
      BY <1>1 DEF TypeOK
    <2>3. origin # "none" => held < 0
      BY DEF IInv, TradeKnown
    <2>4. origin = "incident" => memory.trade.open \/ forgot \/ ledger # held
      BY <1>1 DEF IInv, TradeKnown
    <2>5. memory.trade.open /\ held < 0 =>
             origin \in {"incident", "adopted"} \/ forgot \/ ledger # held
      BY <1>1 DEF IInv, TradeKnown
    <2>6. origin = "incident" => memory'.trade.open \/ forgot' \/ ledger # held
      BY <1>3, <2>1, <2>2, <2>3, <2>4
    <2>7. memory'.trade.open /\ held < 0 =>
             origin \in {"incident", "adopted"} \/ forgot' \/ ledger # held
      BY <1>3, <2>1, <2>2, <2>5
    <2> QED BY <1>1, <1>3, <1>5, <2>3, <2>6, <2>7 DEF TradeKnown
  <1>11. CooldownKnown'
    <2>1. Cooldown <= sinceExit + memory.cooldown \/ forgot
      BY <1>1 DEF IInv, CooldownKnown
    <2>2. Cooldown <= sinceExit' + memory'.cooldown \/ forgot'
      BY <1>3, <2>1
    <2>3. signal'.by = "incident" => sinceExit' = Cooldown \/ forgot'
      BY <1>3, <2>2, Durations
    <2> QED BY <1>1, <2>2, <2>3 DEF CooldownKnown, CooldownHolds
  <1>12. EpisodeKnown'
    <2>1. (EpisodeOver(Known)' <=> EpisodeOver(memory')) /\ (EpisodeSeen(Known)' <=> EpisodeSeen(memory'))
      BY <1>1, <1>5 DEF EpisodeOver, EpisodeSeen, IncidentFirst, StartsEpisode
    <2>2. episode = "shorted" => EpisodeOver(memory) \/ forgot
      BY <1>1 DEF IInv, EpisodeKnown
    <2>3. episode' = "shorted" => EpisodeOver(memory') \/ forgot'
      BY <1>3, <2>2
    <2>4. EpisodeSeen(memory') => episode' # "new" \/ forgot'
      BY <1>1, <1>3 DEF IInv, EpisodeKnown
    <2> QED BY <2>1, <2>3, <2>4 DEF EpisodeKnown
  <1> QED BY <1>2, <1>6, <1>7, <1>8, <1>9, <1>10, <1>11, <1>12 DEF IInv, SignalsInv

LEMMA AnswerKeeps == ASSUME IInv, NEW fault, Answer(fault) PROVE IInv'
  <1>1. PICK v \in Views, action \in Action, hit \in {FALSE, memory.trade.open /\ ledger < 0} :
           /\ raw' = [action |-> action, times |-> InARow(action)]
           /\ band' = BandAfter(band, action)
           /\ \/ AnswerExit(v, hit, fault)
              \/ \E verdict \in Verdicts(NewsExit(memory, v, hit, fault), v, band'.committed),
                    vetoed \in BOOLEAN : AnswerSignal(v, hit, verdict, vetoed, fault)
    BY DEF Answer
  <1>2. hit \in BOOLEAN
    <2>1. memory.trade.open \in BOOLEAN
      BY StateFields DEF IInv, SignalsInv, TypeOK
    <2> QED BY <2>1
  <1>3. pc = "idle" /\ pc' = (IF signal'.action = "HOLD" THEN "done" ELSE "order") /\ Fault(fault)
    BY DEF Answer
  <1>4. CASE AnswerExit(v, hit, fault)
    BY <1>1, <1>2, <1>3, <1>4, AnswerExitKeeps
  <1>5. ASSUME NEW verdict \in Verdicts(NewsExit(memory, v, hit, fault), v, band'.committed),
               NEW vetoed \in BOOLEAN, AnswerSignal(v, hit, verdict, vetoed, fault)
        PROVE  IInv'
    BY <1>1, <1>2, <1>3, <1>5, AnswerSignalKeeps
  <1> QED BY <1>1, <1>4, <1>5

(***************************************************************************)
(* The other steps.                                                        *)
(***************************************************************************)

\* A step that touches neither the manager nor the episode.
LEMMA EpisodeStays ==
    ASSUME EpisodeKnown, UNCHANGED <<articles, episode>>, Known' = Known, forgot => forgot'
    PROVE  EpisodeKnown'
  <1>1. (EpisodeOver(Known)' <=> EpisodeOver(Known)) /\ (EpisodeSeen(Known)' <=> EpisodeSeen(Known))
    BY DEF EpisodeOver, EpisodeSeen, IncidentFirst, StartsEpisode
  <1> QED BY <1>1 DEF EpisodeKnown

LEMMA SourceFailsKeeps == ASSUME IInv, SourceFails PROVE IInv'
  <1> USE DEF IInv, SignalsInv, SourceFails, broker, history
  <1>1. TypeOK'
    <2>1. /\ band' \in [on : BOOLEAN, committed : Action, candidate : Action \cup {"none"},
                       polls : 0 .. Required - 1]
          /\ raw' \in [action : Action \cup {"error"}, times : 0 .. Required]
      <3>1. 0 \in 0 .. Required - 1 /\ 0 \in 0 .. Required
        BY Durations
      <3> QED BY <3>1 DEF NoBand, NoAnswer, Action
    <2> QED BY <2>1 DEF TypeOK
  <1>2. Known' = Known
    BY DEF Known
  <1>3. NothingUnsaved' /\ Answered'
    BY DEF NothingUnsaved, Answered
  <1>4. BandCounts'
    BY DEF BandCounts, NoBand
  <1>5. RejectionsCount'
    BY DEF RejectionsCount, CooldownEarned, RejectionsInARow, ThresholdReached
  <1>6. TradeKnown'
    BY <1>2 DEF TradeKnown
  <1>7. CooldownKnown'
    BY <1>2 DEF CooldownKnown, CooldownHolds
  <1>8. EpisodeKnown'
    BY <1>2, EpisodeStays
  <1> QED BY <1>1, <1>3, <1>4, <1>5, <1>6, <1>7, <1>8

LEMMA NoSignalType == NoSignal \in [action : Action, by : Source] /\ NoSignal.by = "model"
    BY DEF NoSignal, Action, Source

LEMMA NoOrderKeeps == ASSUME IInv, NoOrder PROVE IInv'
  <1> USE DEF IInv, SignalsInv, NoOrder, broker, history
  <1>1. TypeOK'
    BY NoSignalType DEF TypeOK
  <1>2. Known' = Known
    BY DEF Known
  <1>3. NothingUnsaved' /\ Answered' /\ BandCounts'
    BY DEF NothingUnsaved, Answered, BandCounts
  <1>4. RejectionsCount'
    BY DEF RejectionsCount, CooldownEarned, RejectionsInARow, ThresholdReached
  <1>5. TradeKnown'
    BY <1>2, NoSignalType DEF TradeKnown
  <1>6. CooldownKnown'
    BY <1>2, NoSignalType DEF CooldownKnown, CooldownHolds
  <1>7. EpisodeKnown'
    BY <1>2, EpisodeStays
  <1> QED BY <1>1, <1>3, <1>4, <1>5, <1>6, <1>7

LEMMA StartKeeps == ASSUME IInv, Start PROVE IInv'
  <1> USE DEF IInv, SignalsInv, Start, broker, history
  <1>1. TypeOK'
    BY DEF TypeOK
  <1>2. Known' = Known
    BY DEF Known
  <1>3. NothingUnsaved' /\ Answered' /\ BandCounts'
    BY DEF NothingUnsaved, Answered, BandCounts
  <1>4. RejectionsCount'
    BY DEF RejectionsCount, CooldownEarned, RejectionsInARow, ThresholdReached
  <1>5. TradeKnown'
    <2>1. signal' = NoSignal
      BY DEF Answered
    <2> QED BY <1>2, <2>1, NoSignalType DEF TradeKnown
  <1>6. CooldownKnown'
    BY <1>2 DEF CooldownKnown, CooldownHolds
  <1>7. EpisodeKnown'
    BY <1>2, EpisodeStays
  <1> QED BY <1>1, <1>3, <1>4, <1>5, <1>6, <1>7

\* What a process that dies leaves behind, by what is in the row then.
LEMMA DiesKeeps ==
    ASSUME IInv, Dies,
           saved' \in State, sinceExit' \in 0 .. Cooldown,
           forgot' \in BOOLEAN, episode' \in {"new", "settled", "shorted"},
           ~forgot' =>
               /\ origin = "incident" => saved'.trade.open \/ ledger # held
               /\ saved'.trade.open /\ held < 0 =>
                      origin \in {"incident", "adopted"} \/ ledger # held
               /\ Cooldown <= sinceExit' + saved'.cooldown
               /\ episode' = "shorted" => EpisodeOver(saved')
               /\ EpisodeSeen(saved') => episode' # "new"
    PROVE  IInv'
  <1> USE DEF IInv, SignalsInv, Dies
  <1>1. Known' = saved'
    BY DEF Known
  <1>2. faults' \in 0 .. MaxFaults /\ faults' # 0
    BY FaultCounts DEF TypeOK
  <1>3. TypeOK'
    <2>1. NothingKnown \in State
      BY Durations, NoTradeType DEF NothingKnown, State, Stale
    <2>2. 0 \in 0 .. Required - 1 /\ 0 \in 0 .. Required /\ 0 \in 0 .. Threshold
      BY Durations
    <2>3. 0 \in 0 .. Threshold - 1 /\ 0 \in 0 .. RejectionCooldown
      BY Durations
    <2>4. band' \in [on : BOOLEAN, committed : Action, candidate : Action \cup {"none"},
                    polls : 0 .. Required - 1]
      BY <2>2 DEF NoBand, Action
    <2>5. raw' \in [action : Action \cup {"error"}, times : 0 .. Required]
      BY <2>2 DEF NoAnswer
    <2>6. rejection' \in [failures : 0 .. Threshold - 1, left : 0 .. RejectionCooldown]
      BY <2>3 DEF NoRejection
    <2> QED BY <1>2, <2>1, <2>2, <2>4, <2>5, <2>6, NoSignalType DEF TypeOK
  <1>4. NothingUnsaved' /\ Answered'
    BY <1>2 DEF NothingUnsaved, Answered
  <1>5. BandCounts'
    BY DEF BandCounts, NoBand
  <1>6. RejectionsCount'
    BY Durations DEF RejectionsCount, CooldownEarned, RejectionsInARow, ThresholdReached, NoRejection
  <1>7. TradeKnown'
    BY <1>1, NoSignalType DEF TradeKnown
  <1>8. CooldownKnown'
    BY <1>1, NoSignalType DEF CooldownKnown, CooldownHolds
  <1>9. EpisodeKnown'
    <2>1. (EpisodeOver(Known)' <=> EpisodeOver(saved')) /\ (EpisodeSeen(Known)' <=> EpisodeSeen(saved'))
      BY <1>1 DEF EpisodeOver, EpisodeSeen, IncidentFirst, StartsEpisode
    <2> QED BY <2>1 DEF EpisodeKnown
  <1> QED BY <1>3, <1>4, <1>5, <1>6, <1>7, <1>8, <1>9

LEMMA CrashKeeps == ASSUME IInv, Crash PROVE IInv'
  <1>1. TypeOK /\ Known = memory
    BY DEF IInv, SignalsInv, Crash, Known
  <1>2. saved' = saved /\ sinceExit' = sinceExit /\ episode' = episode /\ Dies
    BY DEF Crash
  <1>3. forgot' \in BOOLEAN /\ (~forgot' => ~forgot /\ saved = memory)
    BY <1>1 DEF Crash, TypeOK
  <1>4. ~forgot' =>
           /\ origin = "incident" => saved'.trade.open \/ ledger # held
           /\ saved'.trade.open /\ held < 0 => origin \in {"incident", "adopted"} \/ ledger # held
           /\ Cooldown <= sinceExit' + saved'.cooldown
           /\ episode' = "shorted" => EpisodeOver(saved')
           /\ EpisodeSeen(saved') => episode' # "new"
    BY <1>1, <1>2, <1>3 DEF IInv, TradeKnown, CooldownKnown, EpisodeKnown
  <1> QED BY <1>1, <1>2, <1>3, <1>4, DiesKeeps DEF TypeOK

LEMMA CrashInCheckKeeps ==
    ASSUME IInv, NEW v \in Views, NEW action \in Action, NEW hit \in BOOLEAN,
           CrashInCheck(v, action, hit)
    PROVE  IInv'
  <1> DEFINE m == NewsExit(memory, v, hit, "none")
             after == Claimed(m, v)
  <1>1. TypeOK /\ Known = memory
    BY DEF IInv, SignalsInv, CrashInCheck, Known
  <1>2. /\ memory \in State /\ ledger \in Int /\ held \in -1 .. 1 /\ sinceExit \in 0 .. Cooldown
        /\ articles \subseteq 0 .. IncidentWindow /\ forgot \in BOOLEAN /\ saved \in State
        /\ episode \in {"new", "settled", "shorted"}
    BY <1>1 DEF TypeOK
  <1>3. /\ Evaluates(memory, m) /\ m \in State
        /\ ledger < 0 => m.trade.open = memory.trade.open
    BY <1>2, NewsExitEvaluates DEF Evaluates
  <1>4. /\ Dies /\ saved' = (IF after = memory THEN saved ELSE after)
        /\ forgot' = (forgot \/ after # saved')
        /\ sinceExit' = IF m.trade.exit /\ ~memory.trade.exit THEN 0 ELSE sinceExit
        /\ episode' = IF episode = "new" /\ ShowsEpisode(v) THEN "settled" ELSE episode
    BY DEF CrashInCheck, SinceExit
  <1> HIDE DEF m
  <1>5. /\ after \in State /\ after.trade = m.trade /\ after.cooldown = m.cooldown
        /\ EpisodeOver(m) => EpisodeOver(after)
        /\ ShowsEpisode(v) => EpisodeOver(after)
        /\ ~ShowsEpisode(v) /\ EpisodeSeen(after) => EpisodeSeen(m)
    BY <1>2, <1>3, ClaimedKeeps
  <1>50. (EpisodeOver(m) <=> EpisodeOver(memory)) /\ (EpisodeSeen(m) <=> EpisodeSeen(memory))
    BY <1>3, EpisodeOverSeen DEF Evaluates
  <1> HIDE DEF after
  <1>51. saved' \in State /\ forgot' \in BOOLEAN /\ (~forgot' => saved' = after)
    BY <1>2, <1>4, <1>5
  <1>6. /\ sinceExit' \in 0 .. Cooldown
        /\ Cooldown <= sinceExit + memory.cooldown => Cooldown <= sinceExit' + m.cooldown
    BY <1>2, <1>3, <1>4, SinceExitCounts
  <1>7. memory.trade.open \in BOOLEAN /\ m.trade.open \in BOOLEAN /\ (m.trade.open => memory.trade.open)
    BY <1>2, <1>3, StateFields DEF Evaluates
  <1>8. episode' \in {"new", "settled", "shorted"}
    BY <1>2, <1>4
  <1>9. ASSUME ~forgot'
        PROVE  /\ origin = "incident" => saved'.trade.open \/ ledger # held
               /\ saved'.trade.open /\ held < 0 => origin \in {"incident", "adopted"} \/ ledger # held
               /\ Cooldown <= sinceExit' + saved'.cooldown
               /\ episode' = "shorted" => EpisodeOver(saved')
               /\ EpisodeSeen(saved') => episode' # "new"
    <2>1. /\ origin # "none" => held < 0
          /\ origin = "incident" => memory.trade.open \/ ledger # held
          /\ memory.trade.open /\ held < 0 => origin \in {"incident", "adopted"} \/ ledger # held
          /\ Cooldown <= sinceExit + memory.cooldown
          /\ episode = "shorted" => EpisodeOver(memory)
          /\ EpisodeSeen(memory) => episode # "new"
      BY <1>1, <1>4, <1>9 DEF IInv, TradeKnown, CooldownKnown, EpisodeKnown
    <2>2. held < 0 /\ ~(ledger < 0) => ledger # held
      BY <1>2
    <2>3. saved' = after
      BY <1>51, <1>9
    <2>4. Cooldown <= sinceExit' + saved'.cooldown
      BY <1>5, <1>6, <2>1, <2>3
    <2>5. origin = "incident" => saved'.trade.open \/ ledger # held
      BY <1>3, <1>5, <1>7, <2>1, <2>2, <2>3
    <2>6. saved'.trade.open /\ held < 0 => origin \in {"incident", "adopted"} \/ ledger # held
      BY <1>5, <1>7, <2>1, <2>3
    <2>7. episode' = "shorted" => EpisodeOver(saved')
      BY <1>4, <1>5, <1>50, <2>1, <2>3
    <2>8. EpisodeSeen(saved') => episode' # "new"
      BY <1>4, <1>5, <1>50, <2>1, <2>3
    <2> QED BY <2>4, <2>5, <2>6, <2>7, <2>8
  <1> QED BY <1>4, <1>51, <1>6, <1>8, <1>9, DiesKeeps

(***************************************************************************)
(* The orders.                                                             *)
(***************************************************************************)

\* What may be traded, and who opened what is held then.
LEMMA TradedKeeps ==
    ASSUME IInv, Sent, NEW lots \in Int, Traded(lots),
           held + lots \in -1 .. 1,
           held >= 0 \/ held + lots >= 0 \/ lots = 0,
           lots = 0 => ledger' = ledger
    PROVE  /\ pc' # "order" /\ pc' \in {"idle", "order", "done", "down"}
           /\ held' \in -1 .. 1 /\ signal' \in [action : Action, by : Source]
           /\ origin' \in {"none", "model", "incident", "adopted"}
           /\ Answered' /\ BandCounts' /\ TradeKnown' /\ CooldownKnown' /\ EpisodeKnown'
  <1> USE DEF IInv, SignalsInv, Traded, Sent
  <1>1. pc = "order" /\ pc' = "done" /\ signal' = NoSignal
    OBVIOUS
  <1>2. held' = held + lots /\ held' \in -1 .. 1 /\ held \in -1 .. 1
    BY DEF TypeOK
  <1>3. Known' = Known /\ Known = memory
    BY <1>1 DEF Known
  <1>4. Answered' /\ BandCounts'
    BY <1>1 DEF Answered, BandCounts
  <1>5. CooldownKnown'
    BY <1>1, <1>3, NoSignalType DEF CooldownKnown, CooldownHolds
  <1>6. EpisodeKnown'
    BY <1>3, EpisodeStays
  <1>7. memory.trade.open \in BOOLEAN /\ origin \in {"none", "model", "incident", "adopted"}
    BY StateFields DEF TypeOK
  <1>8. \/ held' >= 0 /\ origin' = "none"
        \/ held' < 0 /\ held < 0 /\ lots = 0 /\ origin' = origin
        \/ held' < 0 /\ held >= 0 /\ origin' = "incident" /\ signal.by = "incident"
        \/ held' < 0 /\ held >= 0 /\ origin' = "adopted" /\ memory.trade.open
        \/ held' < 0 /\ held >= 0 /\ origin' = "model" /\ ~memory.trade.open
    BY <1>2 DEF Origin
  <1>9. origin' \in {"none", "model", "incident", "adopted"}
    BY <1>7, <1>8
  <1>10. TradeKnown'
    <2>1. /\ origin = "incident" => memory.trade.open \/ forgot \/ ledger # held
          /\ signal.by = "incident" => memory.trade.open \/ forgot \/ held < 0
          /\ memory.trade.open /\ held < 0 =>
                 origin \in {"incident", "adopted"} \/ forgot \/ ledger # held
      BY <1>3 DEF TradeKnown
    <2>2. lots = 0 => held' = held /\ ledger' = ledger
      BY <1>2
    <2>3. held' >= 0 <=> ~(held' < 0)
      BY <1>2
    <2>4. held >= 0 <=> ~(held < 0)
      BY <1>2
    <2>5. memory' = memory /\ forgot' = forgot /\ Known' = memory
      BY <1>3
    <2>6. origin' # "none" => held' < 0
      BY <1>7, <1>8, <2>3
    <2>7. origin' = "incident" => memory.trade.open \/ forgot \/ ledger' # held'
      BY <1>8, <2>1, <2>2, <2>3, <2>4
    <2>8. memory.trade.open /\ held' < 0 =>
             origin' \in {"incident", "adopted"} \/ forgot \/ ledger' # held'
      BY <1>8, <2>1, <2>2, <2>3, <2>4
    <2> QED BY <1>1, <2>5, <2>6, <2>7, <2>8, NoSignalType DEF TradeKnown
  <1> QED BY <1>1, <1>2, <1>4, <1>5, <1>6, <1>9, <1>10, NoSignalType

LEMMA DeltaType ==
    ASSUME TypeOK
    PROVE  /\ Delta \in -2 .. 2 /\ held + Delta \in -1 .. 1
           /\ held >= 0 \/ Delta >= 0
  <1>1. held \in -1 .. 1
    BY DEF TypeOK
  <1>2. Wanted(signal) \in -1 .. 1
    BY DEF Wanted
  <1>3. Delta = 0 \/ Delta = Wanted(signal) - held
    BY DEF Delta
  <1> QED BY <1>1, <1>2, <1>3

LEMMA RejectionType ==
    ASSUME TypeOK
    PROVE  /\ rejection = [failures |-> rejection.failures, left |-> rejection.left]
           /\ rejection.failures \in Int /\ 0 <= rejection.failures /\ rejection.failures < Threshold
           /\ rejection.left \in 0 .. RejectionCooldown
           /\ streak \in 0 .. Threshold
           /\ Threshold \in Int /\ 1 <= Threshold /\ RejectionCooldown \in Int /\ 1 <= RejectionCooldown
  <1>1. rejection \in [failures : 0 .. Threshold - 1, left : 0 .. RejectionCooldown]
    BY DEF TypeOK
  <1>2. rejection.failures \in 0 .. Threshold - 1
    BY <1>1
  <1> QED BY <1>1, <1>2, Durations DEF TypeOK

LEMMA RejectionsStay ==
    ASSUME RejectionsCount, UNCHANGED <<rejection, streak>>
    PROVE  RejectionsCount'
    BY DEF RejectionsCount, CooldownEarned, RejectionsInARow, ThresholdReached

LEMMA NoRejectionCounts ==
    ASSUME TypeOK, rejection' = NoRejection, streak' \in 0 .. Threshold
    PROVE  /\ rejection' \in [failures : 0 .. Threshold - 1, left : 0 .. RejectionCooldown]
           /\ RejectionsCount'
  <1>1. 0 \in 0 .. Threshold - 1 /\ 0 \in 0 .. RejectionCooldown /\ 0 # RejectionCooldown
    BY RejectionType
  <1>2. rejection' \in [failures : 0 .. Threshold - 1, left : 0 .. RejectionCooldown]
    BY <1>1 DEF NoRejection
  <1>3. rejection'.failures = 0 /\ rejection'.left = 0
    BY DEF NoRejection
  <1>4. 0 <= streak'
    BY Durations
  <1> QED BY <1>1, <1>2, <1>3, <1>4 DEF RejectionsCount, CooldownEarned, RejectionsInARow, ThresholdReached

LEMMA OrderGoesWellKeeps == ASSUME IInv, NEW lots \in {0, Delta}, OrderGoesWell(lots) PROVE IInv'
  <1> USE DEF IInv, SignalsInv, OrderGoesWell
  <1>1. TypeOK /\ held \in -1 .. 1 /\ ledger \in Int
    BY DEF TypeOK
  <1>2. lots \in Int /\ held + lots \in -1 .. 1 /\ (held >= 0 \/ held + lots >= 0 \/ lots = 0)
    BY <1>1, DeltaType
  <1>3. ledger' \in Int /\ (lots = 0 => ledger' = ledger)
    BY <1>1, <1>2
  <1>4. /\ pc' # "order" /\ pc' \in {"idle", "order", "done", "down"}
        /\ held' \in -1 .. 1 /\ signal' \in [action : Action, by : Source]
        /\ origin' \in {"none", "model", "incident", "adopted"}
        /\ Answered' /\ BandCounts' /\ TradeKnown' /\ CooldownKnown' /\ EpisodeKnown'
    BY <1>2, <1>3, TradedKeeps
  <1>5. /\ rejection' \in [failures : 0 .. Threshold - 1, left : 0 .. RejectionCooldown]
        /\ streak' \in 0 .. Threshold
        /\ RejectionsCount'
    <2>1. CASE Delta < 0
      <3>1. rejection' = NoRejection /\ streak' = 0
        BY <2>1 DEF Cleared
      <3> QED BY <1>1, <3>1, NoRejectionCounts, Durations
    <2>2. CASE ~(Delta < 0)
      <3>1. rejection' = rejection /\ streak' = streak
        BY <2>2 DEF Cleared
      <3> QED BY <3>1, RejectionsStay DEF TypeOK
    <2> QED BY <2>1, <2>2
  <1>6. UNCHANGED <<band, memory, saved, articles, forgot, episode, sinceExit, raw, faults>> /\ fromStart' = FALSE
    BY DEF Traded
  <1>7. TypeOK'
    BY <1>3, <1>4, <1>5, <1>6 DEF TypeOK
  <1>8. NothingUnsaved'
    BY <1>6 DEF NothingUnsaved
  <1> QED BY <1>4, <1>5, <1>7, <1>8

LEMMA OrderFillsInPartKeeps == ASSUME IInv, OrderFillsInPart PROVE IInv'
  <1> USE DEF IInv, SignalsInv, OrderFillsInPart
  <1> DEFINE lots == Delta \div 2
  <1>1. TypeOK /\ held \in -1 .. 1 /\ ledger \in Int
    BY DEF TypeOK
  <1>2. (Delta = -2 /\ lots = -1) \/ (Delta = 2 /\ lots = 1)
    <2>1. (-2) \div 2 = -1 /\ 2 \div 2 = 1
      OBVIOUS
    <2> QED BY <2>1
  <1> HIDE DEF lots
  <1>3. lots \in Int /\ held + lots \in -1 .. 1 /\ (held >= 0 \/ held + lots >= 0 \/ lots = 0)
    BY <1>1, <1>2, DeltaType
  <1>4. ledger' \in Int /\ (lots = 0 => ledger' = ledger)
    BY <1>1, <1>2 DEF lots
  <1>5. /\ pc' # "order" /\ pc' \in {"idle", "order", "done", "down"}
        /\ held' \in -1 .. 1 /\ signal' \in [action : Action, by : Source]
        /\ origin' \in {"none", "model", "incident", "adopted"}
        /\ Answered' /\ BandCounts' /\ TradeKnown' /\ CooldownKnown' /\ EpisodeKnown'
    <2>1. Traded(lots) /\ Sent
      BY DEF lots
    <2> QED BY <1>3, <1>4, <2>1, TradedKeeps
  <1>6. RejectionsCount'
    BY RejectionsStay
  <1>7. UNCHANGED <<band, memory, saved, articles, forgot, episode, sinceExit, raw, faults>> /\ fromStart' = FALSE
    BY DEF Traded
  <1>8. TypeOK'
    BY <1>4, <1>5, <1>7 DEF TypeOK
  <1>9. NothingUnsaved'
    BY <1>7 DEF NothingUnsaved
  <1> QED BY <1>5, <1>6, <1>8, <1>9

LEMMA OrderIsRejectedKeeps == ASSUME IInv, OrderIsRejected PROVE IInv'
  <1> USE DEF IInv, SignalsInv, OrderIsRejected
  <1>1. TypeOK /\ held \in -1 .. 1 /\ ledger \in Int
    BY DEF TypeOK
  <1>2. /\ pc' # "order" /\ pc' \in {"idle", "order", "done", "down"}
        /\ held' \in -1 .. 1 /\ signal' \in [action : Action, by : Source]
        /\ origin' \in {"none", "model", "incident", "adopted"}
        /\ Answered' /\ BandCounts' /\ TradeKnown' /\ CooldownKnown' /\ EpisodeKnown'
    <2>1. held + 0 \in -1 .. 1
      BY <1>1
    <2> QED BY <2>1, TradedKeeps
  <1>3. /\ rejection.failures \in Int /\ 0 <= rejection.failures /\ rejection.failures < Threshold
        /\ rejection.left \in 0 .. RejectionCooldown
        /\ streak \in 0 .. Threshold
        /\ Threshold \in Int /\ 1 <= Threshold /\ RejectionCooldown \in Int /\ 1 <= RejectionCooldown
    BY <1>1, RejectionType
  <1>4. rejection.failures <= streak /\ ~(rejection.left > 0)
    BY DEF RejectionsCount, CooldownEarned, RejectionsInARow, Sent, Suppressed
  <1>5. streak' = Least(streak + 1, Threshold) /\ streak' \in 0 .. Threshold /\ streak' > 0
    BY <1>3 DEF Least
  <1>6. /\ rejection' \in [failures : 0 .. Threshold - 1, left : 0 .. RejectionCooldown]
        /\ RejectionsCount'
    <2>1. CASE rejection.failures + 1 >= Threshold
      <3>1. rejection' = [failures |-> 0, left |-> RejectionCooldown]
        BY <2>1 DEF Rejected
      <3>2. streak' = Threshold
        BY <1>3, <1>4, <1>5, <2>1 DEF Least
      <3>3. 0 \in 0 .. Threshold - 1 /\ RejectionCooldown \in 0 .. RejectionCooldown
        BY <1>3
      <3>4. rejection' \in [failures : 0 .. Threshold - 1, left : 0 .. RejectionCooldown]
        BY <3>1, <3>3
      <3> QED BY <1>3, <1>5, <3>1, <3>2, <3>4
              DEF RejectionsCount, CooldownEarned, RejectionsInARow, ThresholdReached
    <2>2. CASE ~(rejection.failures + 1 >= Threshold)
      <3>1. rejection' = [rejection EXCEPT !.failures = @ + 1]
        BY <2>2 DEF Rejected
      <3>2. rejection' = [failures |-> rejection.failures + 1, left |-> rejection.left]
        BY <1>1, <3>1, RejectionType
      <3>3. rejection.failures + 1 \in 0 .. Threshold - 1
        BY <1>3, <2>2
      <3>4. rejection' \in [failures : 0 .. Threshold - 1, left : 0 .. RejectionCooldown]
        BY <1>3, <3>2, <3>3
      <3>5. rejection'.failures <= streak'
        BY <1>3, <1>4, <1>5, <2>2, <3>2 DEF Least
      <3>6. ~(rejection'.left > 0)
        BY <1>3, <1>4, <3>2
      <3> QED BY <1>5, <3>4, <3>5, <3>6
              DEF RejectionsCount, CooldownEarned, RejectionsInARow, ThresholdReached
    <2> QED BY <2>1, <2>2
  <1>7. UNCHANGED <<band, memory, saved, ledger, articles, forgot, episode, sinceExit, raw, faults>> /\ fromStart' = FALSE
    BY DEF Traded
  <1>8. TypeOK'
    BY <1>2, <1>5, <1>6, <1>7 DEF TypeOK
  <1>9. NothingUnsaved'
    BY <1>7 DEF NothingUnsaved
  <1> QED BY <1>2, <1>6, <1>8, <1>9

LEMMA AnswerIsLostKeeps == ASSUME IInv, AnswerIsLost PROVE IInv'
  <1> USE DEF IInv, SignalsInv, AnswerIsLost
  <1>1. TypeOK /\ held \in -1 .. 1 /\ ledger \in Int
    BY DEF TypeOK
  <1>2. Delta \in Int /\ held + Delta \in -1 .. 1 /\ (held >= 0 \/ held + Delta >= 0 \/ Delta = 0)
    BY <1>1, DeltaType
  <1>3. /\ pc' # "order" /\ pc' \in {"idle", "order", "done", "down"}
        /\ held' \in -1 .. 1 /\ signal' \in [action : Action, by : Source]
        /\ origin' \in {"none", "model", "incident", "adopted"}
        /\ Answered' /\ BandCounts' /\ TradeKnown' /\ CooldownKnown' /\ EpisodeKnown'
    BY <1>2, TradedKeeps
  <1>4. faults' \in 0 .. MaxFaults /\ faults' # 0
    BY FaultCounts DEF TypeOK
  <1>5. RejectionsCount'
    BY RejectionsStay
  <1>6. UNCHANGED <<band, memory, saved, ledger, rejection, streak, articles, forgot,
                    episode, sinceExit, raw>> /\ fromStart' = FALSE
    BY DEF Traded
  <1>7. TypeOK'
    BY <1>3, <1>4, <1>6 DEF TypeOK
  <1>8. NothingUnsaved'
    BY <1>4 DEF NothingUnsaved
  <1> QED BY <1>3, <1>5, <1>7, <1>8

(***************************************************************************)
(* Time passes.                                                            *)
(***************************************************************************)

LEMMA AgedKeeps ==
    ASSUME NEW m \in State
    PROVE  /\ Aged(m) \in State
           /\ Aged(m).trade.open = m.trade.open
           /\ Aged(m).cooldown = Greatest(m.cooldown - 1, 0)
           /\ Aged(m).seen = Older(m.seen, Stale)
  <1> DEFINE oldest == Greatest(Grace, MaxHold) + 1
             age == IF m.trade.open THEN Older(m.trade.age, oldest) ELSE m.trade.age
             cooldown == Greatest(m.cooldown - 1, 0)
             seen == Older(m.seen, Stale)
  <1>1. oldest \in Nat /\ Stale \in Nat
    BY Durations DEF Greatest, Stale
  <1>2. /\ m.trade \in Trade /\ m.cooldown \in 0 .. Cooldown /\ m.seen \in 0 .. Stale
        /\ m.trade.age \in 0 .. oldest
    BY StateFields
  <1>3. age \in 0 .. oldest
    <2> HIDE DEF oldest
    <2> QED BY <1>1, <1>2 DEF Older
  <1>4. cooldown \in 0 .. Cooldown
    BY <1>2, Durations DEF Greatest
  <1>5. seen \in 0 .. Stale
    BY <1>1, <1>2 DEF Older
  <1>6. Aged(m) = [m EXCEPT !.trade.age = age, !.cooldown = cooldown, !.seen = seen]
    BY DEF Aged
  <1> HIDE DEF age, cooldown, seen
  <1>7. [m.trade EXCEPT !.age = age] \in Trade /\ [m.trade EXCEPT !.age = age].open = m.trade.open
    BY <1>2, <1>3 DEF Trade
  <1>8. /\ Aged(m) \in State
        /\ Aged(m).trade = [m.trade EXCEPT !.age = age]
        /\ Aged(m).cooldown = cooldown
        /\ Aged(m).seen = seen
    BY <1>4, <1>5, <1>6, <1>7 DEF State
  <1> QED BY <1>7, <1>8 DEF cooldown, seen

\* The headlines after a poll's time.
Published(published) ==
    articles' = {a + 1 : a \in articles \ {IncidentWindow}}
                    \cup (IF published = "report" THEN {0} ELSE {})

(***************************************************************************)
(* Time only ages the start of an episode: a report that leaves the view   *)
(* was too far from those that are fresh to have been what joined them to  *)
(* their episode.                                                          *)
(***************************************************************************)
LEMMA FirstAges ==
    ASSUME articles \subseteq 0 .. IncidentWindow, NEW published, Published(published),
           ~(published = "report" /\ StartsEpisode(articles, -1)),
           NEW first \in articles', \A b \in articles' : b > first => b - first >= IncidentEpisodeGap,
           \A a \in articles' : (\A b \in articles' : b > a => b - a >= IncidentEpisodeGap) => first <= a
    PROVE  first > IncidentMaxAge \/ (articles # {} /\ first = IncidentFirst(articles) + 1)
  <1>1. /\ IncidentWindow \in Nat /\ IncidentMaxAge \in Nat /\ IncidentEpisodeGap \in Nat \ {0}
        /\ IncidentMaxAge + IncidentEpisodeGap <= IncidentWindow + 1
    BY Durations
  <1>2. \A b \in articles : b \in Int /\ 0 <= b /\ b <= IncidentWindow
    BY <1>1
  <1>3. \A b \in articles : b # IncidentWindow => b + 1 \in articles'
    BY DEF Published
  <1>4. \A a \in articles' : (a = 0 /\ published = "report") \/ \E f \in articles : a = f + 1
    BY DEF Published
  <1>5. CASE first = 0 /\ published = "report"
    <2>1. PICK b \in articles : b > -1 /\ ~(b - (-1) >= IncidentEpisodeGap)
      BY <1>5 DEF StartsEpisode
    <2>2. b + 1 < IncidentEpisodeGap /\ b # IncidentWindow
      BY <1>1, <1>2, <2>1
    <2>3. PICK older \in articles' : older = b + 1
      BY <1>3, <2>2
    <2>4. older > first => older - first >= IncidentEpisodeGap
      BY <2>3
    <2> QED BY <1>1, <1>2, <1>5, <2>2, <2>3, <2>4
  <1>6. ASSUME NEW f \in articles, first = f + 1
        PROVE  first > IncidentMaxAge \/ first = IncidentFirst(articles) + 1
    <2>1. CASE StartsEpisode(articles, f)
      <3> DEFINE g == IncidentFirst(articles)
      <3>1. g \in articles /\ StartsEpisode(articles, g) /\ g <= f
        BY <2>1, First
      <3> HIDE DEF g
      <3>2. SUFFICES ASSUME g < f PROVE FALSE
        <4>1. g \in Int /\ f \in Int
          BY <1>2, <3>1
        <4>2. g = f \/ g < f
          BY <3>1, <4>1
        <4>3. g = f => first = IncidentFirst(articles) + 1
          BY <1>6 DEF g
        <4> QED BY <4>2, <4>3
      <3>3. PICK a \in articles' : a = g + 1
        BY <1>2, <1>3, <3>1, <3>2
      <3>4. ASSUME NEW b \in articles', b > a PROVE b - a >= IncidentEpisodeGap
        <4>1. PICK c \in articles : b = c + 1
          BY <1>2, <1>4, <3>1, <3>3, <3>4
        <4>2. c > g => c - g >= IncidentEpisodeGap
          BY <3>1 DEF StartsEpisode
        <4> QED BY <1>1, <1>2, <3>1, <3>3, <3>4, <4>1, <4>2
      <3>5. first <= a
        BY <3>3, <3>4
      <3> QED BY <1>2, <1>6, <3>1, <3>2, <3>3, <3>5
    <2>2. CASE ~StartsEpisode(articles, f)
      <3>1. PICK b \in articles : b > f /\ ~(b - f >= IncidentEpisodeGap)
        BY <2>2 DEF StartsEpisode
      <3>2. b = IncidentWindow
        <4>1. SUFFICES ASSUME b # IncidentWindow PROVE FALSE
          OBVIOUS
        <4>2. PICK older \in articles' : older = b + 1
          BY <1>3, <4>1
        <4>3. older > first => older - first >= IncidentEpisodeGap
          BY <4>2
        <4> QED BY <1>1, <1>2, <1>6, <3>1, <4>2, <4>3
      <3> QED BY <1>1, <1>2, <1>6, <3>1, <3>2
    <2> QED BY <2>1, <2>2
  <1> QED BY <1>4, <1>5, <1>6

\* A report that starts an episode is its start.
LEMMA FirstIsNew ==
    ASSUME articles \subseteq 0 .. IncidentWindow, NEW published, Published(published),
           published = "report" /\ StartsEpisode(articles, -1),
           NEW first \in articles',
           \A a \in articles' : (\A b \in articles' : b > a => b - a >= IncidentEpisodeGap) => first <= a
    PROVE  first = 0
  <1>1. IncidentWindow \in Nat /\ IncidentEpisodeGap \in Nat
    BY Durations
  <1>2. \A b \in articles : b \in Int /\ 0 <= b
    BY <1>1
  <1>3. 0 \in articles' /\ \A a \in articles' : a = 0 \/ \E f \in articles : a = f + 1
    BY DEF Published
  <1>4. ASSUME NEW b \in articles', b > 0 PROVE b - 0 >= IncidentEpisodeGap
    <2>1. PICK c \in articles : b = c + 1
      BY <1>3, <1>4
    <2>2. c > -1 => c - (-1) >= IncidentEpisodeGap
      BY DEF StartsEpisode
    <2> QED BY <1>1, <1>2, <2>1, <2>2
  <1>5. first <= 0
    BY <1>3, <1>4
  <1> QED BY <1>2, <1>3, <1>5

LEMMA FirstOfEpisode ==
    articles \subseteq 0 .. IncidentWindow /\ articles # {} =>
        /\ IncidentFirst(articles) \in articles
        /\ StartsEpisode(articles, IncidentFirst(articles))
        /\ \A b \in articles : StartsEpisode(articles, b) => IncidentFirst(articles) <= b
    BY First

LEMMA NextPollKeeps == ASSUME IInv, NEW published, NextPoll(published) PROVE IInv'
  <1> USE DEF IInv, SignalsInv, NextPoll
  <1>1. /\ memory \in State /\ saved \in State /\ articles \subseteq 0 .. IncidentWindow
        /\ sinceExit \in 0 .. Cooldown
        /\ forgot \in BOOLEAN /\ episode \in {"new", "settled", "shorted"}
        /\ TypeOK
    BY DEF TypeOK
  <1>2. /\ memory' \in State /\ memory'.trade.open = memory.trade.open
        /\ saved' \in State /\ saved'.trade.open = saved.trade.open
    BY <1>1, AgedKeeps
  <1>3. Known \in State /\ Known' = Aged(Known)
    BY <1>1 DEF Known, TypeOK
  <1>4. /\ Known' \in State /\ Known'.trade.open = Known.trade.open
        /\ Known'.cooldown = Greatest(Known.cooldown - 1, 0)
    BY <1>3, AgedKeeps
  <1>5. signal = NoSignal /\ signal' = NoSignal /\ pc' \in {"idle", "down"}
    BY DEF Answered
  <1>6. articles' \subseteq 0 .. IncidentWindow
    BY <1>1, Durations
  <1>7. sinceExit' \in 0 .. Cooldown
    BY <1>1, Durations DEF Older
  <1>8. /\ rejection' \in [failures : 0 .. Threshold - 1, left : 0 .. RejectionCooldown]
        /\ RejectionsCount' /\ streak' \in 0 .. Threshold
    <2>1. /\ rejection = [failures |-> rejection.failures, left |-> rejection.left]
          /\ rejection.left \in 0 .. RejectionCooldown
          /\ rejection.failures \in 0 .. Threshold - 1
          /\ RejectionCooldown \in Int /\ 1 <= RejectionCooldown
      BY <1>1, RejectionType DEF TypeOK
    <2> DEFINE left == Greatest(rejection.left - 1, 0)
    <2>2. left \in 0 .. RejectionCooldown
      BY <2>1 DEF Greatest
    <2>3. left > 0 => rejection.left > 0 /\ rejection.left # 1
      BY <2>1 DEF Greatest
    <2> HIDE DEF left
    <2>4. rejection' = [failures |-> rejection.failures, left |-> left]
      BY <2>1 DEF left
    <2>5. streak' = IF rejection.left = 1 THEN 0 ELSE streak
      OBVIOUS
    <2>6. streak \in 0 .. Threshold /\ Threshold \in Int /\ 1 <= Threshold
      BY <1>1, RejectionType DEF TypeOK
    <2>7. streak' \in 0 .. Threshold
      BY <2>5, <2>6
    <2> QED BY <2>1, <2>2, <2>3, <2>4, <2>5, <2>6, <2>7
            DEF RejectionsCount, CooldownEarned, RejectionsInARow, ThresholdReached
  <1>9. TypeOK'
    BY <1>1, <1>2, <1>5, <1>6, <1>7, <1>8 DEF TypeOK
  <1>10. NothingUnsaved' /\ Answered' /\ BandCounts'
    BY <1>5 DEF NothingUnsaved, Answered, BandCounts
  <1>11. TradeKnown'
    BY <1>4, <1>5, NoSignalType DEF TradeKnown
  <1>12. CooldownKnown'
    <2>1. Known.cooldown \in 0 .. Cooldown
      BY <1>3, StateFields
    <2>2. Cooldown <= sinceExit + Known.cooldown => Cooldown <= sinceExit' + Known'.cooldown
      BY <1>1, <1>4, <2>1, Durations DEF Greatest, Older
    <2> QED BY <1>5, <2>2, NoSignalType DEF CooldownKnown, CooldownHolds
  <1>13. EpisodeKnown'
    <2> DEFINE first == IncidentFirst(articles)'
               new == published = "report" /\ StartsEpisode(articles, -1)
    <2>1. SUFFICES ASSUME ~forgot', articles' # {}, first <= IncidentMaxAge
                   PROVE  /\ episode' = "shorted" => ~(first < Known'.seen)
                          /\ episode' = "new" => ~(Known'.seen <= first)
      BY DEF EpisodeKnown, EpisodeOver, EpisodeSeen
    <2>2. Published(published)
      BY DEF Published
    <2>3. /\ first \in articles'
          /\ \A b \in articles' : b > first => b - first >= IncidentEpisodeGap
          /\ \A a \in articles' : (\A b \in articles' : b > a => b - a >= IncidentEpisodeGap) => first <= a
      <3>1. (articles \subseteq 0 .. IncidentWindow /\ articles # {} =>
                /\ IncidentFirst(articles) \in articles
                /\ StartsEpisode(articles, IncidentFirst(articles))
                /\ \A b \in articles : StartsEpisode(articles, b) => IncidentFirst(articles) <= b)'
        BY FirstOfEpisode, PTL
      <3> QED BY <1>6, <2>1, <3>1 DEF StartsEpisode
    <2>4. Known.seen \in 0 .. Stale /\ Stale = IncidentMaxAge + 1 /\ Known'.seen = Older(Known.seen, Stale)
      BY <1>3, StateFields, AgedKeeps DEF Stale
    <2>5. first \in Int /\ IncidentMaxAge \in Nat
      <3>1. first \in 0 .. IncidentWindow
        BY <1>6, <2>3
      <3> QED BY <3>1, Durations
    <2> HIDE DEF first
    <2>6. CASE new
      <3>1. first = 0
        BY <1>1, <2>2, <2>3, <2>6, FirstIsNew
      <3>2. episode' = "new"
        BY <2>6
      <3> HIDE DEF NextPoll
      <3> QED BY <2>4, <2>5, <3>1, <3>2 DEF Older
    <2>7. CASE ~new
      <3>1. articles # {} /\ first = IncidentFirst(articles) + 1
        <4>1. first > IncidentMaxAge \/ (articles # {} /\ first = IncidentFirst(articles) + 1)
          BY <1>1, <2>2, <2>3, <2>7, FirstAges
        <4> QED BY <2>1, <2>5, <4>1
      <3>2. episode' = episode
        BY <2>1, <2>7
      <3>3. IncidentFirst(articles) \in articles /\ IncidentFirst(articles) \in Int
        BY <1>1, <3>1, First
      <3>4. /\ episode = "shorted" => ~(IncidentFirst(articles) < Known.seen /\ IncidentFirst(articles) <= IncidentMaxAge)
            /\ episode = "new" => ~(Known.seen <= IncidentFirst(articles) /\ IncidentFirst(articles) <= IncidentMaxAge)
        BY <2>1, <3>1 DEF EpisodeKnown, EpisodeOver, EpisodeSeen
      <3> HIDE DEF NextPoll
      <3> QED BY <2>1, <2>4, <2>5, <3>1, <3>2, <3>3, <3>4 DEF Older
    <2> QED BY <2>6, <2>7
  <1> QED BY <1>8, <1>9, <1>10, <1>11, <1>12, <1>13

-----------------------------------------------------------------------------
(***************************************************************************)
(* Theorems.                                                               *)
(***************************************************************************)

LEMMA StutterKeeps == ASSUME IInv, UNCHANGED vars PROVE IInv'
  <1>1. UNCHANGED <<pc, band, memory, saved, signal, held, ledger, rejection, articles,
                    origin, forgot, episode, fromStart, sinceExit, streak, raw, faults>>
    BY DEF vars, broker, history
  <1>2. Known' = Known
    BY <1>1 DEF Known
  <1>3. EpisodeKnown'
    BY <1>1, <1>2, EpisodeStays DEF IInv
  <1>4. SignalsInv' /\ Answered' /\ BandCounts'
    BY <1>1 DEF IInv, SignalsInv, TypeOK, NothingUnsaved, Answered, BandCounts
  <1>5. RejectionsCount'
    BY <1>1, RejectionsStay DEF IInv
  <1>6. TradeKnown' /\ CooldownKnown'
    BY <1>1, <1>2 DEF IInv, TradeKnown, CooldownKnown, CooldownHolds
  <1> QED BY <1>3, <1>4, <1>5, <1>6 DEF IInv

LEMMA NextKeeps == ASSUME IInv, Next PROVE IInv'
  <1>1. ASSUME NEW v \in Views, NEW action \in Action, NEW hit \in {FALSE, memory.trade.open /\ ledger < 0},
               CrashInCheck(v, action, hit)
        PROVE  IInv'
    <2>1. hit \in BOOLEAN
      BY StateFields DEF IInv, SignalsInv, TypeOK
    <2> QED BY <1>1, <2>1, CrashInCheckKeeps
  <1> QED BY <1>1, SourceFailsKeeps, AnswerKeeps, NoOrderKeeps, OrderGoesWellKeeps, OrderFillsInPartKeeps,
             OrderIsRejectedKeeps, AnswerIsLostKeeps, NextPollKeeps, CrashKeeps, StartKeeps
             DEF Next, Order

(* The inductive invariant holds: of every handler of a poll, of its order *)
(* and of a restart.                                                       *)
THEOREM SignalsInvariant == Spec => []IInv
  <1>1. IInv /\ [Next]_vars => IInv'
    BY NextKeeps, StutterKeeps
  <1> QED BY Begins, <1>1, PTL DEF Spec

(* Everything has its type, and what the manager knows is saved as long as *)
(* nothing has failed.                                                     *)
THEOREM SignalsSafe == Spec => []SignalsInv
  <1>1. IInv => SignalsInv
    BY DEF IInv
  <1> QED BY SignalsInvariant, <1>1, PTL

(* A short that an incident opened has its news trade, whatever the broker *)
(* does with the orders: noteShortEntry with claimIncident and evaluate.   *)
THEOREM NewsShortsTracked == Spec => []NewsShortTracked
  <1>1. IInv => NewsShortTracked
    BY DEF IInv, TradeKnown, NewsShortTracked, Known
  <1> QED BY SignalsInvariant, <1>1, PTL

(* The exit manager closes a short only if it is its own or was adopted:   *)
(* evaluate, and the target of zero lots.                                  *)
THEOREM ExitsItsOwn == Spec => []ExitsOnlyItsOwn
  <1>1. IInv => ExitsOnlyItsOwn
    <2>1. SUFFICES ASSUME IInv, signal.by = "exit"
                   PROVE  origin \in {"incident", "adopted"} \/ forgot \/ ledger # held
      BY DEF ExitsOnlyItsOwn
    <2>2. Known = memory \/ signal = NoSignal
      BY <2>1 DEF IInv, Answered, Known
    <2>3. Known = memory
      BY <2>1, <2>2, NoSignalType
    <2>4. memory.trade.open /\ ledger < 0
      BY <2>1 DEF IInv, TradeKnown
    <2>5. held < 0 \/ ledger # held
      BY <2>4
    <2> QED BY <2>1, <2>3, <2>4, <2>5 DEF IInv, TradeKnown
  <1> QED BY SignalsInvariant, <1>1, PTL

(* No incident opens a short while the cooldown of an exit lasts, over     *)
(* restarts: shortSuppressed, and the row it is read from.                 *)
THEOREM CooldownsHold == Spec => []CooldownHolds
  <1>1. IInv => CooldownHolds
    BY DEF IInv, CooldownKnown
  <1> QED BY SignalsInvariant, <1>1, PTL

(* The cooldown of sales is earned by rejections in a row: recordFailure   *)
(* and clear.                                                              *)
THEOREM CooldownsEarned == Spec => []CooldownEarned
  <1>1. IInv => CooldownEarned
    BY DEF IInv, RejectionsCount
  <1> QED BY SignalsInvariant, <1>1, PTL

(* An episode that a poll sees from its start opens one short at most:     *)
(* claimIncident with a watermark that ages as the headlines do, over any  *)
(* views, that show nothing, undated reports or a part of it in between.   *)
THEOREM OneShortPerEpisodeHolds == Spec => OneShortPerEpisode
  <1>1. ASSUME IInv, Next, pc = "idle", signal'.by = "incident", fromStart'
        PROVE  episode # "shorted" \/ forgot
    <2>1. signal = NoSignal
      BY <1>1 DEF IInv, Answered
    <2>2. PICK fault : Answer(fault)
      BY <1>1, <2>1, NoSignalType DEF Next, Order, SourceFails, NoOrder, OrderGoesWell, OrderFillsInPart,
         OrderIsRejected, AnswerIsLost, Sent, NextPoll, Crash, CrashInCheck, Dies, Start
    <2>3. PICK v \in Views, action \in Action, hit \in {FALSE, memory.trade.open /\ ledger < 0} :
             /\ raw' = [action |-> action, times |-> InARow(action)]
             /\ band' = BandAfter(band, action)
             /\ \/ AnswerExit(v, hit, fault)
                \/ \E verdict \in Verdicts(NewsExit(memory, v, hit, fault), v, band'.committed),
                      vetoed \in BOOLEAN : AnswerSignal(v, hit, verdict, vetoed, fault)
      BY <2>2 DEF Answer
    <2>4. PICK verdict \in Verdicts(NewsExit(memory, v, hit, fault), v, band'.committed),
               vetoed \in BOOLEAN : AnswerSignal(v, hit, verdict, vetoed, fault)
      <3>1. AnswerExit(v, hit, fault) => signal'.by = "exit"
        BY DEF AnswerExit
      <3> QED BY <1>1, <2>3, <3>1
    <2>5. TypeOK /\ BandCounts /\ memory.trade.open \in BOOLEAN
      BY <1>1, StateFields DEF IInv, SignalsInv, TypeOK
    <2>6. band'.committed \in Action
      BY <2>3, <2>5, BandAfterCounts
    <2>7. hit \in BOOLEAN
      BY <2>5
    <2>8. ~EpisodeOver(memory)
      BY <1>1, <2>4, <2>5, <2>6, <2>7, AnswerSignalMakes
    <2>9. Known = memory
      BY <1>1 DEF Known
    <2> QED BY <1>1, <2>8, <2>9 DEF IInv, EpisodeKnown
  <1>2. ASSUME IInv, UNCHANGED vars, pc = "idle", signal'.by = "incident" PROVE FALSE
    <2>1. signal = NoSignal /\ signal' = signal
      BY <1>2 DEF IInv, Answered, vars
    <2> QED BY <1>2, <2>1, NoSignalType
  <1>3. IInv /\ [Next]_vars =>
           [pc = "idle" /\ signal'.by = "incident" /\ fromStart' => episode # "shorted" \/ forgot]_vars
    BY <1>1
  <1> QED BY SignalsInvariant, <1>3, PTL DEF Spec, OneShortPerEpisode

(* A fresh episode that counts as seen has been settled: claimIncident,    *)
(* restoreIncident after a check that failed, and the row.                 *)
THEOREM NoEpisodesSwallowed == Spec => []NoEpisodeSwallowed
  <1>1. IInv => NoEpisodeSwallowed
    BY DEF IInv, EpisodeKnown, EpisodeSeen, NoEpisodeSwallowed, Known
  <1> QED BY SignalsInvariant, <1>1, PTL

(* The signal changes only after the required answers in a row, however    *)
(* many: SignalHysteresisSource.Generate.                                  *)
THEOREM HysteresisHeld == Spec => HysteresisHolds
  <1>1. ASSUME IInv, Next, band.on, band'.on, band.committed # band'.committed
        PROVE  raw' = [action |-> band'.committed, times |-> Required]
    <2>1. band' # band /\ band' # NoBand
      BY <1>1 DEF NoBand
    <2>2. ~SourceFails /\ ~Crash /\ ~NoOrder /\ ~Start
      BY <2>1 DEF SourceFails, Crash, Dies, NoOrder, Start
    <2>3. ~(\E published \in {"nothing", "report"} : NextPoll(published))
      BY <2>1 DEF NextPoll
    <2>4. ~(\E v \in Views, action \in Action, hit \in {FALSE, memory.trade.open /\ ledger < 0} : CrashInCheck(v, action, hit))
      BY <2>1 DEF CrashInCheck, Dies
    <2>5. ~Order
      BY <2>1 DEF Order, OrderGoesWell, OrderFillsInPart, OrderIsRejected, AnswerIsLost, Traded
    <2>6. PICK fault : Answer(fault)
      BY <1>1, <2>2, <2>3, <2>4, <2>5 DEF Next
    <2>7. PICK action \in Action : /\ raw' = [action |-> action, times |-> InARow(action)]
                                   /\ band' = BandAfter(band, action)
      BY <2>6 DEF Answer
    <2>8. TypeOK /\ BandCounts
      BY <1>1 DEF IInv, SignalsInv
    <2> QED BY <1>1, <2>7, <2>8, BandAfterCounts
  <1>2. IInv /\ [Next]_vars =>
           [band.on /\ band'.on /\ band.committed # band'.committed
               => raw' = [action |-> band'.committed, times |-> Required]]_vars
    BY <1>1
  <1> QED BY SignalsInvariant, <1>2, PTL DEF Spec, HysteresisHolds
=============================================================================
