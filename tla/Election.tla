----------------------------- MODULE Election ------------------------------
(***************************************************************************)
(* internal/failover/election.go: what one watchdog decides from what it   *)
(* knows.  Evaluate is a pure function of an Input record; its fields keep *)
(* the names of the Go struct.  Times are integers, NoTime is the zero     *)
(* time.Time, NoPeer is a nil heartbeat.  A heartbeat carries              *)
(*   [running, state, since, startedAt, reachable]                         *)
(* and a lease view [reachable, holder, expiresAt].                        *)
(***************************************************************************)
EXTENDS Integers

CONSTANTS
    NoNode, NoTime, NoPeer,
    PeerStaleAfter, FailoverAfter, PeerErrorGrace, HandoverCooldown,
    YieldRequestCooldown, YieldRequestTTL, StartupGrace, FailureMemory

ASSUME ParamsAssumption ==
    {PeerStaleAfter, FailoverAfter, PeerErrorGrace, HandoverCooldown,
     YieldRequestCooldown, YieldRequestTTL, StartupGrace, FailureMemory} \subseteq Nat

NodeState == {"starting", "active", "standby", "error", "fenced"}

HeldBy(l, node, now) ==
    l.reachable /\ l.holder = node /\ now < l.expiresAt

HeldByOther(l, node, now) ==
    l.reachable /\ l.holder \notin {NoNode, node} /\ now < l.expiresAt

\* now.Sub(t) <= d and now.Sub(t) >= d of a time that may be zero; a zero
\* time is infinitely long ago.
Within(now, t, d) == t # NoTime /\ now - t <= d
Elapsed(now, t, d) == t = NoTime \/ now - t >= d

(***************************************************************************)
(* What the last heartbeat says of the peer.  An age below zero counts as  *)
(* zero, which Within already gives.                                       *)
(***************************************************************************)
PeerFresh(in) == in.peer # NoPeer /\ Within(in.now, in.lastPeerSeen, PeerStaleAfter)
PeerRunning(in) == PeerFresh(in) /\ in.peer.running

\* Heartbeat.TraderStartedAt: the state's age stands in for a start time.
TraderStartedAt(hb) == IF hb.startedAt = NoTime THEN hb.since ELSE hb.startedAt

PeerBroken(in) ==
    /\ PeerFresh(in)
    /\ \/ in.peer.state \in {"error", "fenced"} /\ ~in.peer.running
       \/ in.peer.state = "starting" /\ in.now - TraderStartedAt(in.peer) > 2 * StartupGrace

PeerWilling(in) ==
    PeerFresh(in) /\ ~in.peer.running /\ in.peer.reachable /\ in.peer.state = "standby"

RecentFailure(in) ==
    in.lastTraderFailureAt # NoTime /\ in.now - in.lastTraderFailureAt < FailureMemory
YieldRequestFresh(in) == Within(in.now, in.yieldRequestedAt, YieldRequestTTL)
CooldownElapsed(in) == Elapsed(in.now, in.lastYieldAt, HandoverCooldown)
Inhibited(in) == in.selfInhibitedUntil # NoTime /\ in.now < in.selfInhibitedUntil

(***************************************************************************)
(* Decisions.  Reason strings are left out, except that apply() recognises *)
(* the fencing one: fence is that reason.                                  *)
(***************************************************************************)
Wait == [acquire |-> FALSE, release |-> FALSE, run |-> FALSE, ask |-> FALSE, fence |-> FALSE]
HandOver == [Wait EXCEPT !.release = TRUE]
Fence == [Wait EXCEPT !.fence = TRUE]
KeepLease == [Wait EXCEPT !.acquire = TRUE, !.run = TRUE]
Take == [Wait EXCEPT !.acquire = TRUE]
AskPeer == [Wait EXCEPT !.ask = TRUE]
Decision == {Wait, HandOver, Fence, KeepLease, Take, AskPeer}

Held(in) == HeldBy(in.lease, in.node, in.now)

Acquire(in) ==
    IF Inhibited(in) \/ HeldByOther(in.lease, in.node, in.now) THEN Wait ELSE Take

MustHandOver(in) ==
    /\ Held(in)
    /\ in.role = "standby"
    /\ YieldRequestFresh(in)
    /\ PeerWilling(in)
    /\ CooldownElapsed(in)

StandbyMayAcquire(in) ==
    IF PeerFresh(in)
    THEN PeerBroken(in) /\ in.now - in.peer.since >= PeerErrorGrace
    ELSE Elapsed(in.now, in.lastPeerSeen, FailoverAfter)

EvaluateUnheld(in) ==
    CASE in.role = "standby" -> IF StandbyMayAcquire(in) THEN Acquire(in) ELSE Wait
      [] in.role = "primary" /\ ~PeerRunning(in) -> Acquire(in)
      [] in.role = "primary" /\ PeerRunning(in) ->
            IF /\ in.lease.reachable
               /\ ~RecentFailure(in)
               /\ Elapsed(in.now, in.lastYieldRequestAt, YieldRequestCooldown)
            THEN AskPeer ELSE Wait

Evaluate(in) ==
    IF MustHandOver(in) THEN HandOver
    ELSE IF in.traderRunning /\ ~Held(in) THEN Fence
    ELSE IF Held(in) THEN KeepLease
    ELSE EvaluateUnheld(in)
=============================================================================
