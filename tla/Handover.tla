------------------------------ MODULE Handover ------------------------------
(***************************************************************************)
(* Which of the two watchdogs trades: failures, backoff, giving the lease  *)
(* up, failover and the yield protocol (cmd/watchdog/node.go).             *)
(*                                                                         *)
(* A tick is atomic here; Fencing.tla models what happens inside of one.   *)
(* Time is counted in rounds: each live watchdog ticks once, then a round  *)
(* passes.  A time is kept relative to now, so it is at most 0 when past,  *)
(* and becomes the zero time once no test can tell the two apart.          *)
(***************************************************************************)
EXTENDS Election, FiniteSets

CONSTANTS
    Node, Role,
    TTL, Grace,            \* the witness's, in rounds
    Backoff,               \* trader.backoff: the wait after the k-th failure
    MaxFailures,           \* trader.max_failures
    RetryCooldown,         \* trader.retry_cooldown
    PostFailureCooldown,   \* trader.post_failure_cooldown
    Health,                \* what may become of a node's trader, see below
    Horizon,               \* bound on the age of a state
    MaxFaults              \* bound on faults in a behavior

Past == {t \in Int : t <= 0}
PastOrNever == Past \cup {NoTime}
PeerView == [ running : BOOLEAN, state : NodeState, since : Past,
              startedAt : PastOrNever, reachable : BOOLEAN ]

ASSUME HandoverAssumption ==
    /\ Cardinality(Node) = 2
    /\ NoNode \notin Node
    /\ Role \in [Node -> {"primary", "standby"}]
    /\ {TTL, Grace, RetryCooldown, PostFailureCooldown, MaxFaults} \subseteq Nat
    /\ MaxFailures \in Nat \ {0}
    /\ Backoff \in [1 .. MaxFailures - 1 -> Nat]
    /\ Health \subseteq {"good", "bad", "stuck"}
    /\ Horizon \in Nat /\ PeerErrorGrace < Horizon /\ 2 * StartupGrace < Horizon
    /\ NoTime \notin Int /\ NoPeer \notin PeerView

VARIABLES
    wd,        \* [Node -> Watchdog]: the fields of the watchdog struct
    holder,    \* the witness's lease
    expiresAt,
    ticked,    \* the watchdogs that have ticked in this round
    up,        \* the node's watchdog is running
    health,    \* "good": the trader gets active; "bad": it exits; "stuck": neither
    cut,       \* the node cannot reach the witness
    link,      \* the node can reach its peer
    faults,    \* faults so far
    gaveUpAt   \* history: when n last gave the lease up after max_failures

lease == <<holder, expiresAt>>
world == <<up, health, cut, link>>
vars == <<wd, lease, ticked, world, faults, gaveUpAt>>

Peer(n) == CHOOSE m \in Node : m # n

Watchdog ==
    [ state : NodeState, since : Past, trader : {"none", "starting", "active", "exited"},
      failures : 0 .. MaxFailures, nextStartAt : Nat \cup {NoTime},
      lastFailureAt : PastOrNever, yieldRequested : PastOrNever,
      lastYieldAt : PastOrNever, lastYieldReqAt : PastOrNever,
      reachable : BOOLEAN, peer : PeerView \cup {NoPeer}, lastPeerSeen : PastOrNever ]

TypeOK ==
    /\ wd \in [Node -> Watchdog]
    /\ holder \in Node \cup {NoNode}
    /\ expiresAt \in -Grace .. TTL
    /\ ticked \subseteq Node
    /\ up \in [Node -> BOOLEAN]
    /\ health \in [Node -> Health]
    /\ cut \in [Node -> BOOLEAN]
    /\ link \in [Node -> BOOLEAN]
    /\ faults \in 0 .. MaxFaults
    /\ gaveUpAt \in [Node -> PastOrNever]

\* newWatchdog
Fresh ==
    [ state |-> "standby", since |-> 0, trader |-> "none",
      failures |-> 0, nextStartAt |-> NoTime, lastFailureAt |-> NoTime,
      yieldRequested |-> NoTime, lastYieldAt |-> NoTime, lastYieldReqAt |-> NoTime,
      reachable |-> FALSE, peer |-> NoPeer, lastPeerSeen |-> NoTime ]

Init ==
    /\ wd = [n \in Node |-> Fresh]
    /\ holder = NoNode /\ expiresAt = -Grace
    /\ ticked = {}
    /\ up = [n \in Node |-> TRUE]
    /\ health \in [Node -> Health]
    /\ cut = [n \in Node |-> FALSE]
    /\ link = [n \in Node |-> TRUE]
    /\ faults = 0
    /\ gaveUpAt = [n \in Node |-> NoTime]

-----------------------------------------------------------------------------
(***************************************************************************)
(* The functions of node.go, from the fields of a watchdog to its fields.  *)
(***************************************************************************)
Running(w) == w.trader \in {"starting", "active"}

SetState(w, s) == IF w.state = s THEN w ELSE [w EXCEPT !.state = s, !.since = 0]

\* n reaches the other watchdog: for a heartbeat or a yield request.
Connected(n) == link[n] /\ up[Peer(n)]

\* A trader's start time is read in the state "starting", which it begins.
Heartbeat(w) ==
    [ running |-> Running(w), state |-> w.state, since |-> w.since,
      startedAt |-> IF w.state = "starting" THEN w.since ELSE NoTime,
      reachable |-> w.reachable ]

Observe(n) ==
    IF Connected(n)
    THEN [wd[n] EXCEPT !.peer = Heartbeat(wd[Peer(n)]), !.lastPeerSeen = 0]
    ELSE wd[n]

\* A trader that did not start or exited counts, and delays the next start.
BackoffAfter(failures) ==
    IF failures = MaxFailures THEN RetryCooldown ELSE Backoff[failures]

Failed(w) ==
    LET failures == IF w.failures < MaxFailures THEN w.failures + 1 ELSE MaxFailures
    IN  SetState([w EXCEPT !.failures = failures, !.lastFailureAt = 0,
                           !.nextStartAt = BackoffAfter(failures)], "error")

Reap(w) == IF w.trader = "exited" THEN Failed([w EXCEPT !.trader = "none"]) ELSE w

Refresh(w) ==
    IF w.trader = "active" /\ w.state # "active"
    THEN SetState([w EXCEPT !.failures = 0, !.nextStartAt = NoTime], "active")
    ELSE w

Waiting(w) == w.nextStartAt # NoTime /\ w.nextStartAt > 0

Input(n, w, l) ==
    [ role |-> Role[n], node |-> n, now |-> 0, lease |-> l, traderRunning |-> Running(w),
      peer |-> w.peer, lastPeerSeen |-> w.lastPeerSeen,
      yieldRequestedAt |-> w.yieldRequested, lastYieldAt |-> w.lastYieldAt,
      lastYieldRequestAt |-> w.lastYieldReqAt,
      lastTraderFailureAt |-> w.lastFailureAt, selfInhibitedUntil |-> w.nextStartAt ]

(***************************************************************************)
(* apply, one operator per part.                                           *)
(***************************************************************************)
StopTrader(w, d) ==
    IF Running(w) /\ ~d.run THEN SetState([w EXCEPT !.trader = "none"], "standby") ELSE w

Yield(w, d) ==
    IF d.release
    THEN SetState([w EXCEPT !.lastYieldAt = 0, !.yieldRequested = NoTime], "standby")
    ELSE w

Ask(n, w, d) == IF d.ask /\ Connected(n) THEN [w EXCEPT !.lastYieldReqAt = 0] ELSE w

StartTrader(w, starts) ==
    IF starts THEN SetState([w EXCEPT !.trader = "starting"], "starting") ELSE Failed(w)

\* Mutant: once failed is "error" for ever, also after the cooldown.
RestInError(w, d) ==
    SetState(w, IF d.fence THEN "fenced"
                ELSE IF w.failures = MaxFailures THEN "error" ELSE "standby")

Rest(w, d) ==
    SetState(w, IF d.fence THEN "fenced"
                ELSE IF w.failures = MaxFailures /\ Waiting(w) THEN "error"
                ELSE "standby")

Apply(n, w, d, starts) ==
    LET w1 == Ask(n, Yield(StopTrader(w, d), d), d)
    IN  CASE d.run /\ (Running(w1) \/ Waiting(w1)) -> w1
          [] d.run /\ ~(Running(w1) \/ Waiting(w1)) -> StartTrader(w1, starts)
          [] ~d.run /\ d.release -> w1
          [] ~d.run /\ ~d.release -> Rest(w1, d)

-----------------------------------------------------------------------------
(***************************************************************************)
(* A tick.  A lease view also is the lease the witness keeps: what a node  *)
(* cannot reach it does not change.                                        *)
(***************************************************************************)
View(n) == [reachable |-> ~cut[n], holder |-> holder, expiresAt |-> expiresAt]
NoLease == [reachable |-> TRUE, holder |-> NoNode, expiresAt |-> -Grace]
Granted(n) == [reachable |-> TRUE, holder |-> n, expiresAt |-> TTL]

\* The witness grants a lease that is free, n's, or expired for the grace.
Grants(n, l) == l.reachable /\ (l.holder \in {NoNode, n} \/ l.expiresAt + Grace <= 0)

\* Mutants: the lease is never given up; a give-up forgets its cooldown.
KeepsLease(n, w, l) == FALSE
GiveUpForNow(w) == SetState(w, "error")

\* releaseLeaseAfterFailures; the witness has just answered, so it does again.
MustGiveUp(n, w, l) == ~Running(w) /\ w.failures = MaxFailures /\ HeldBy(l, n, 0)
GiveUp(w) == SetState([w EXCEPT !.nextStartAt = PostFailureCooldown], "error")

Tick(n) ==
    LET w1 == [Refresh(Reap(Observe(n))) EXCEPT !.reachable = ~cut[n]]
        gives == MustGiveUp(n, w1, View(n))
        w == IF gives THEN GiveUp(w1) ELSE w1
        l1 == IF gives THEN NoLease ELSE View(n)
        d1 == Evaluate(Input(n, w, l1))
        renewed == d1.acquire /\ Grants(n, l1)
        l2 == IF renewed THEN Granted(n) ELSE l1
        d == IF renewed THEN Evaluate(Input(n, w, l2)) ELSE d1
        l == IF d.release THEN NoLease ELSE l2
    IN  /\ up[n] /\ n \notin ticked
        /\ \E starts \in {health[n] # "bad", TRUE} :
              wd' = [m \in Node |->
                        IF m = n THEN Apply(n, w, d, starts)
                        ELSE IF d.ask /\ Connected(n) THEN [wd[m] EXCEPT !.yieldRequested = 0]
                        ELSE wd[m]]
        /\ holder' = l.holder /\ expiresAt' = l.expiresAt
        /\ gaveUpAt' = IF gives THEN [gaveUpAt EXCEPT ![n] = 0] ELSE gaveUpAt
        /\ ticked' = ticked \cup {n}
        /\ UNCHANGED <<world, faults>>

-----------------------------------------------------------------------------
(***************************************************************************)
(* The trader, and what goes wrong around the watchdogs.                   *)
(***************************************************************************)
SetTrader(n, from, to) ==
    /\ wd[n].trader \in from
    /\ wd' = [wd EXCEPT ![n].trader = to]
    /\ UNCHANGED <<lease, ticked, up, health, cut, link, gaveUpAt>>

\* The trader prints the startup marker that the watchdog waits for.
TraderActive(n) ==
    health[n] = "good" /\ SetTrader(n, {"starting"}, "active") /\ UNCHANGED faults

\* It exits before that: the preflight gate refuses, or the broker does.
TraderFails(n) ==
    health[n] = "bad" /\ SetTrader(n, {"starting"}, "exited") /\ UNCHANGED faults

TraderCrashes(n) == SetTrader(n, {"active"}, "exited")

SetHealth(n, h) ==
    /\ h # health[n] /\ health' = [health EXCEPT ![n] = h]
    /\ UNCHANGED <<wd, lease, ticked, up, cut, link, gaveUpAt>>

SetCut(n, c) ==
    /\ c # cut[n] /\ cut' = [cut EXCEPT ![n] = c]
    /\ UNCHANGED <<wd, lease, ticked, up, health, link, gaveUpAt>>

SetLink(n, c) ==
    /\ c # link[n] /\ link' = [link EXCEPT ![n] = c]
    /\ UNCHANGED <<wd, lease, ticked, up, health, cut, gaveUpAt>>

Stop(n) ==
    /\ up[n] /\ up' = [up EXCEPT ![n] = FALSE]
    /\ wd' = [wd EXCEPT ![n] = Fresh]
    /\ gaveUpAt' = [gaveUpAt EXCEPT ![n] = NoTime]
    /\ UNCHANGED <<ticked, health, cut, link>>

\* The machine stops, with the trader; the lease is left to expire.
Crash(n) == Stop(n) /\ UNCHANGED lease

\* The watchdog is told to stop: it stops the trader and frees its lease.
Shutdown(n) ==
    LET held == wd[n].reachable /\ holder = n /\ 0 < expiresAt
        l == IF held /\ ~cut[n] THEN NoLease ELSE View(n)
    IN  Stop(n) /\ holder' = l.holder /\ expiresAt' = l.expiresAt

Start(n) ==
    /\ ~up[n] /\ up' = [up EXCEPT ![n] = TRUE]
    /\ UNCHANGED <<wd, lease, ticked, health, cut, link, gaveUpAt>>

Fault(n) ==
    /\ faults < MaxFaults /\ faults' = faults + 1
    /\ \/ TraderCrashes(n)
       \/ \E h \in Health : SetHealth(n, h)
       \/ SetCut(n, TRUE)
       \/ SetLink(n, FALSE)
       \/ Crash(n)
       \/ Shutdown(n)

Repair(n) ==
    (SetCut(n, FALSE) \/ SetLink(n, TRUE) \/ Start(n)) /\ UNCHANGED faults

-----------------------------------------------------------------------------
(***************************************************************************)
(* A round passes once every live watchdog has ticked and no trader, other *)
(* than a stuck one, has been starting for longer than StartupGrace.  Aged *)
(* forgets a time when it is older than the tests on it look.              *)
(***************************************************************************)
StartingTooLong(n) ==
    wd[n].trader = "starting" /\ health[n] # "stuck" /\ -wd[n].since >= StartupGrace

Aged(t, keep) == IF t = NoTime \/ t - 1 < -keep THEN NoTime ELSE t - 1
Older(since) == IF since > -Horizon THEN since - 1 ELSE since

AgedView(hb) ==
    [hb EXCEPT !.since = Older(@),
               !.startedAt = IF @ = NoTime THEN NoTime ELSE Older(@)]

AgedWatchdog(w) ==
    LET seen == Aged(w.lastPeerSeen, FailoverAfter)
    IN  [w EXCEPT
           !.since = Older(@),
           !.nextStartAt = IF Waiting(w) THEN @ - 1 ELSE @,
           !.lastFailureAt = Aged(@, FailureMemory),
           !.yieldRequested = Aged(@, YieldRequestTTL),
           !.lastYieldAt = Aged(@, HandoverCooldown),
           !.lastYieldReqAt = Aged(@, YieldRequestCooldown),
           !.lastPeerSeen = seen,
           !.peer = IF seen = NoTime \/ seen < -PeerStaleAfter THEN NoPeer ELSE AgedView(@)]

Elapse ==
    /\ \A n \in Node : up[n] => n \in ticked /\ ~StartingTooLong(n)
    /\ ticked' = {}
    /\ wd' = [n \in Node |-> IF up[n] THEN AgedWatchdog(wd[n]) ELSE wd[n]]
    /\ expiresAt' = IF expiresAt > -Grace THEN expiresAt - 1 ELSE expiresAt
    /\ gaveUpAt' = [n \in Node |-> Aged(gaveUpAt[n], PostFailureCooldown)]
    /\ UNCHANGED <<holder, world, faults>>

Next ==
    \/ \E n \in Node :
          Tick(n) \/ TraderActive(n) \/ TraderFails(n) \/ Fault(n) \/ Repair(n)
    \/ Elapse

(***************************************************************************)
(* run ticks for as long as the watchdog lives, time passes, and a trader  *)
(* that starts becomes active or exits unless it is stuck.  Only Tick(n)   *)
(* adds n to ticked, so fairness of Ticks(n) is fairness of Tick(n).       *)
(***************************************************************************)
Ticks(n) == up[n] /\ n \notin ticked /\ ticked' = ticked \cup {n}

Fairness ==
    /\ WF_vars(Elapse)
    /\ \A n \in Node :
          WF_ticked(Ticks(n)) /\ WF_vars(TraderActive(n)) /\ WF_vars(TraderFails(n))

Spec == Init /\ [][Next]_vars /\ Fairness

-----------------------------------------------------------------------------
(***************************************************************************)
(* Anti ping-pong (docs/knowledge/validation-and-ops.md): a watchdog that  *)
(* has given the lease up after trader.max_failures stays in "error" for   *)
(* post_failure_cooldown, and neither holds the lease nor runs a trader.   *)
(***************************************************************************)
StaysOut ==
    \A n \in Node :
        gaveUpAt[n] # NoTime /\ -gaveUpAt[n] < PostFailureCooldown =>
            wd[n].state = "error" /\ ~Running(wd[n]) /\ holder # n

(***************************************************************************)
(* Why it does: the failures are not forgotten and the next start is put   *)
(* off by exactly what is left of the cooldown, so no decision acquires.   *)
(* The last conjunct ties a heartbeat that may still count to its time.    *)
(***************************************************************************)
SittingOut(n) ==
    gaveUpAt[n] # NoTime /\ -gaveUpAt[n] < PostFailureCooldown =>
        /\ up[n] /\ wd[n].state = "error" /\ wd[n].trader = "none"
        /\ wd[n].failures = MaxFailures
        /\ wd[n].nextStartAt = PostFailureCooldown + gaveUpAt[n]
        /\ holder # n

PeerKnown(w) ==
    w.lastPeerSeen # NoTime /\ -w.lastPeerSeen <= PeerStaleAfter => w.peer # NoPeer

HandoverInv ==
    TypeOK /\ \A n \in Node : SittingOut(n) /\ PeerKnown(wd[n])

(***************************************************************************)
(* The primary comes back: once it stays up and healthy and reaches the    *)
(* witness, with the LAN up both ways, it ends up trading for good,        *)
(* whoever held the lease before (the yield protocol, with its cooldowns). *)
(***************************************************************************)
Trading(n) == wd[n].trader = "active"

FitPrimary(n) ==
    Role[n] = "primary" /\ up[n] /\ health[n] = "good" /\ ~cut[n]
    /\ link[n] /\ link[Peer(n)]

PrimaryReturns ==
    \A n \in Node : <>[]FitPrimary(n) => <>[]Trading(n)

(***************************************************************************)
(* Failover: as long as one node stays up and healthy with access to the   *)
(* witness, somebody trades again and again.  It asks that the other node  *)
(* does not hang in its startup, and that a standby does not hear a        *)
(* primary which lost the witness: the code waits for both.                *)
(***************************************************************************)
Serviceable(n) ==
    /\ up[n] /\ health[n] = "good" /\ ~cut[n]
    /\ up[Peer(n)] =>
          /\ health[Peer(n)] # "stuck"
          /\ Role[n] = "standby" /\ cut[Peer(n)] => ~link[n]

Available ==
    \A n \in Node : <>[]Serviceable(n) => []<>(\E m \in Node : Trading(m))

(***************************************************************************)
(* election_test.go, TestStandbyAcquiresWhenPeerStuckStarting: "want       *)
(* acquire when peer startup is stuck".  A standby that is well and keeps  *)
(* seeing its peer stuck gets to run its trader.                           *)
(***************************************************************************)
StuckPeerReplaced ==
    \A n \in Node :
        <>[](/\ Role[n] = "standby" /\ up[n] /\ health[n] = "good" /\ ~cut[n] /\ link[n]
             /\ up[Peer(n)] /\ health[Peer(n)] = "stuck")
            => <>Trading(n)
=============================================================================
