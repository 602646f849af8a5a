------------------------------ MODULE Fencing ------------------------------
(***************************************************************************)
(* Two watchdogs (cmd/watchdog/node.go) and the witness they share: who    *)
(* may have a trader process alive, and when.                              *)
(*                                                                         *)
(* A watchdog is one goroutine that ticks: it samples now, asks the        *)
(* witness for the lease, decides with Election!Evaluate, renews, and      *)
(* applies the decision.  Every HTTP call is a point where the other node, *)
(* the witness and the clock may move, so a tick is a sequence of steps    *)
(* and the sampled now and the decision grow old between them.             *)
(*                                                                         *)
(* What a watchdog believes of its peer and of its own past failures is    *)
(* any member of Belief: exclusion must not depend on it.  Handover.tla    *)
(* models those beliefs.                                                   *)
(***************************************************************************)
EXTENDS Witness

CONSTANTS
    Role,            \* [Node -> {"primary", "standby"}]
    Skew,            \* [Node -> Int]: a node's clock minus the witness's
    Sleepers,        \* nodes whose machine may be suspended
    Failers,         \* nodes whose trader may fail max_failures times in a row
    OwnGroup,        \* nodes whose trader outlives a killed watchdog (Setpgid)
    Belief,          \* what a watchdog may know besides its lease
    MaxRenewDelay,   \* bound on: start of a tick to its renew at the witness
    MaxTick,         \* bound on: start of a tick to the start of the next
    MaxRenewGap,     \* how old a grant may be when a single renew is lost
    MaxFaults,       \* bound on the environment's faults in a behavior
    NoTime, NoPeer,
    PeerStaleAfter, FailoverAfter, PeerErrorGrace, HandoverCooldown,
    YieldRequestCooldown, YieldRequestTTL, StartupGrace, FailureMemory

ASSUME DeploymentAssumption ==
    /\ Role \in [Node -> {"primary", "standby"}]
    /\ Skew \in [Node -> Int]
    /\ Sleepers \subseteq Node
    /\ Failers \subseteq Node
    /\ OwnGroup \subseteq Node
    /\ {MaxRenewDelay, MaxTick, MaxRenewGap, MaxFaults} \subseteq Nat

INSTANCE Election

VARIABLES
    wd,        \* the watchdog process: "up", "asleep", "down"
    pc,        \* where its goroutine is
    tickAt,    \* when the current or last tick sampled now (witness time)
    lease,     \* watchdog.lease
    decision,  \* the Decision of this tick
    trader,    \* watchdog.trader: "none", "run", "stop" (signalled, alive)
    orphan,    \* a trader no watchdog knows of is alive
    excuse,    \* history: ticks until a broken timing assumption is repaired
    cut,       \* the node's calls to the witness fail
    faults     \* faults so far

nodeVars == <<wd, pc, tickAt, lease, decision, trader, orphan, excuse>>
vars == <<witnessVars, nodeVars, cut, faults>>

PC == {"idle", "status", "giveup", "renew", "apply", "stopping", "quit"}
LeaseView == [reachable : BOOLEAN, holder : Holder, expiresAt : Nat]
\* Without Reachable no other field of a LeaseStatus is looked at.
NoLease == [reachable |-> FALSE, holder |-> NoNode, expiresAt |-> 0]
Freed == [NoLease EXCEPT !.reachable = TRUE]

NodeTypeOK ==
    /\ wd \in [Node -> {"up", "asleep", "down"}]
    /\ pc \in [Node -> PC]
    /\ tickAt \in [Node -> Nat]
    /\ lease \in [Node -> LeaseView]
    /\ decision \in [Node -> Decision]
    /\ trader \in [Node -> {"none", "run", "stop"}]
    /\ orphan \in [Node -> BOOLEAN]
    /\ excuse \in [Node -> 0 .. 2]

FaultTypeOK ==
    /\ cut \in [Node -> BOOLEAN]
    /\ faults \in 0 .. MaxFaults

TypeOK == WitnessTypeOK /\ NodeTypeOK /\ FaultTypeOK

Init ==
    /\ WitnessInit
    /\ wd = [n \in Node |-> "up"]
    /\ pc = [n \in Node |-> "idle"]
    /\ tickAt = [n \in Node |-> 0]
    /\ lease = [n \in Node |-> NoLease]
    /\ decision = [n \in Node |-> Wait]
    /\ trader = [n \in Node |-> "none"]
    /\ orphan = [n \in Node |-> FALSE]
    /\ excuse = [n \in Node |-> 0]
    /\ cut = [n \in Node |-> FALSE]
    /\ faults = 0

-----------------------------------------------------------------------------
\* The goroutine of n stands at p and moves on to q.
At(n, p) == wd[n] = "up" /\ pc[n] = p
Goto(n, q) == pc' = [pc EXCEPT ![n] = q]

\* now of the current tick, on n's own clock.
Now(n) == tickAt[n] + Skew[n]

Max0(i) == IF i < 0 THEN 0 ELSE i

(***************************************************************************)
(* watchdog.input: times are taken relative to the tick's now.             *)
(***************************************************************************)
Input(n, l, b) ==
    [ role |-> Role[n], node |-> n, now |-> 0,
      lease |-> [l EXCEPT !.expiresAt = l.expiresAt - Now(n)],
      traderRunning |-> trader[n] = "run",
      peer |-> b.peer, lastPeerSeen |-> b.lastPeerSeen,
      yieldRequestedAt |-> b.yieldRequestedAt, lastYieldAt |-> b.lastYieldAt,
      lastYieldRequestAt |-> b.lastYieldRequestAt,
      lastTraderFailureAt |-> b.lastTraderFailureAt,
      selfInhibitedUntil |-> b.selfInhibitedUntil ]

\* n decides on the lease view l.
Decide(n, l) ==
    \E b \in Belief : decision' = [decision EXCEPT ![n] = Evaluate(Input(n, l, b))]

DecideAndGo(n, l) ==
    /\ Decide(n, l)
    /\ Goto(n, IF decision'[n].acquire THEN "renew" ELSE "apply")

\* The tick is over; syncPassive does not touch leases or traders.
EndTick(n) ==
    /\ Goto(n, "idle")
    /\ decision' = [decision EXCEPT ![n] = Wait]
    /\ excuse' = [excuse EXCEPT ![n] = Max0(@ - 1)]

(***************************************************************************)
(* A call of n to the witness is answered, or else it fails: it was        *)
(* carried out and the answer was lost, or it never arrived.               *)
(***************************************************************************)
Online(n) == up /\ ~cut[n]
Fails(n, Call) == ~Online(n) /\ (Call \/ UNCHANGED witnessVars)

-----------------------------------------------------------------------------
(***************************************************************************)
(* tick                                                                    *)
(***************************************************************************)
BeginTick(n) ==
    /\ At(n, "idle")
    /\ tickAt' = [tickAt EXCEPT ![n] = clock]
    /\ Goto(n, "status")
    /\ UNCHANGED <<witnessVars, wd, lease, decision, trader, orphan, excuse>>

\* Mutant: a failed status call leaves the last lease view as it was.
KeptView(n) ==
    IF Online(n) THEN [reachable |-> TRUE, holder |-> holder, expiresAt |-> expiresAt]
    ELSE lease[n]

StatusView(n) ==
    IF Online(n) THEN [reachable |-> TRUE, holder |-> holder, expiresAt |-> expiresAt]
    ELSE NoLease

(***************************************************************************)
(* Status, then reapTrader and refreshTraderState (an exited trader is     *)
(* simply gone here), then the guard of releaseLeaseAfterFailures; when    *)
(* max_failures is reached is left open.                                   *)
(***************************************************************************)
ReadStatus(n) ==
    /\ At(n, "status")
    /\ lease' = [lease EXCEPT ![n] = StatusView(n)]
    /\ \/ DecideAndGo(n, lease'[n])
       \/ /\ n \in Failers /\ trader[n] = "none"
          /\ HeldBy(lease'[n], n, Now(n))
          /\ Goto(n, "giveup")
          /\ UNCHANGED decision
    /\ UNCHANGED <<witnessVars, wd, tickAt, trader, orphan, excuse>>

\* n is to run its trader although this release has been carried out.
RunsReleased(n) == decision'[n].run /\ promise'[n] # promise[n]

(***************************************************************************)
(* releaseLeaseAfterFailures, then Evaluate.  A failed release leaves the  *)
(* lease view as it was, also if it was carried out.  (In the code the     *)
(* trader that is decided on then waits for nextStartAt, retry_cooldown    *)
(* after its last failure; here it may start at once.)                     *)
(***************************************************************************)
GiveUpLease(n) ==
    /\ At(n, "giveup")
    /\ \/ Online(n) /\ Release(n) /\ lease' = [lease EXCEPT ![n] = Freed]
       \/ Fails(n, Release(n)) /\ UNCHANGED lease
    /\ DecideAndGo(n, lease'[n])
    /\ excuse' = IF RunsReleased(n) THEN [excuse EXCEPT ![n] = 2] ELSE excuse
    /\ UNCHANGED <<wd, tickAt, trader, orphan>>

\* This renew is lost while the trader is to run on an older grant than
\* MaxRenewGap allows.
RunsUnrenewed(n) == decision[n].run /\ clock > promise'[n] - TTL + MaxRenewGap

(***************************************************************************)
(* Renew.  The client takes "the holder is me" for granted, and only then  *)
(* evaluates again; a denied or lost renew leaves the decision as it was.  *)
(***************************************************************************)
RenewLease(n) ==
    /\ At(n, "renew")
    /\ \/ /\ Online(n) /\ Renew(n)
          /\ lease' = [lease EXCEPT ![n] =
                [reachable |-> TRUE, holder |-> holder', expiresAt |-> expiresAt']]
          /\ IF holder' = n THEN Decide(n, lease'[n]) ELSE UNCHANGED decision
          /\ UNCHANGED excuse
       \/ /\ Fails(n, Renew(n))
          /\ lease' = [lease EXCEPT ![n] = NoLease]
          /\ excuse' = IF RunsUnrenewed(n) THEN [excuse EXCEPT ![n] = 2] ELSE excuse
          /\ UNCHANGED decision
    /\ Goto(n, "apply")
    /\ UNCHANGED <<wd, tickAt, trader, orphan>>

\* apply, first branch: stopTrader signals the process group and waits.
SignalTrader(n) ==
    /\ At(n, "apply")
    /\ trader[n] = "run" /\ ~decision[n].run
    /\ trader' = [trader EXCEPT ![n] = "stop"]
    /\ Goto(n, "stopping")
    /\ UNCHANGED <<witnessVars, wd, tickAt, lease, decision, orphan, excuse>>

\* traderProcess.stop returns: the process has exited or has been killed.
TraderStopped(n) ==
    /\ wd[n] = "up" /\ trader[n] = "stop"
    /\ trader' = [trader EXCEPT ![n] = "none"]
    /\ Goto(n, IF pc[n] = "quit" THEN "quit" ELSE "apply")
    /\ UNCHANGED <<witnessVars, wd, tickAt, lease, decision, orphan, excuse>>

\* apply, second branch: the handover release.
ApplyHandOver(n) ==
    /\ At(n, "apply")
    /\ trader[n] = "none" /\ decision[n].release
    /\ \/ Online(n) /\ Release(n) /\ lease' = [lease EXCEPT ![n] = Freed]
       \/ Fails(n, Release(n)) /\ UNCHANGED lease
    /\ EndTick(n)
    /\ UNCHANGED <<wd, tickAt, trader, orphan>>

\* apply, last branches: start the trader, unless nextStartAt holds it back
\* or it fails to start; or nothing is to be done.
ApplyRun(n) ==
    /\ At(n, "apply")
    /\ ~decision[n].release
    /\ decision[n].run \/ trader[n] = "none"
    /\ \/ decision[n].run /\ trader' = [trader EXCEPT ![n] = "run"]
       \/ UNCHANGED trader
    /\ EndTick(n)
    /\ UNCHANGED <<witnessVars, wd, tickAt, lease, orphan>>

(***************************************************************************)
(* shutdown, when the context is cancelled between two ticks: stop the     *)
(* trader, then release a held lease.                                      *)
(***************************************************************************)
Shutdown(n) ==
    /\ At(n, "idle")
    /\ tickAt' = [tickAt EXCEPT ![n] = clock]
    /\ decision' = [decision EXCEPT ![n] =
          IF HeldBy(lease[n], n, clock + Skew[n]) THEN HandOver ELSE Wait]
    /\ trader' = [trader EXCEPT ![n] = IF @ = "run" THEN "stop" ELSE @]
    /\ Goto(n, "quit")
    /\ UNCHANGED <<witnessVars, wd, lease, orphan, excuse>>

Quit(n) ==
    /\ At(n, "quit")
    /\ trader[n] = "none"
    /\ IF ~decision[n].release THEN UNCHANGED witnessVars
       ELSE (Online(n) /\ Release(n)) \/ Fails(n, Release(n))
    /\ wd' = [wd EXCEPT ![n] = "down"]
    /\ Goto(n, "idle")
    /\ lease' = [lease EXCEPT ![n] = NoLease]
    /\ decision' = [decision EXCEPT ![n] = Wait]
    /\ UNCHANGED <<tickAt, trader, orphan, excuse>>

-----------------------------------------------------------------------------
(***************************************************************************)
(* The environment of a node.                                              *)
(***************************************************************************)
TraderExits(n) ==
    /\ wd[n] # "asleep" /\ trader[n] = "run"
    /\ trader' = [trader EXCEPT ![n] = "none"]
    /\ UNCHANGED <<witnessVars, wd, pc, tickAt, lease, decision, orphan, excuse>>

OrphanExits(n) ==
    /\ wd[n] # "asleep" /\ orphan[n]
    /\ orphan' = [orphan EXCEPT ![n] = FALSE]
    /\ UNCHANGED <<witnessVars, wd, pc, tickAt, lease, decision, trader, excuse>>

\* The watchdog is killed.  Its trader, in a process group of its own, goes
\* on unless the service manager kills all of the service's processes.
WatchdogCrash(n) ==
    /\ wd[n] = "up"
    /\ wd' = [wd EXCEPT ![n] = "down"]
    /\ orphan' = [orphan EXCEPT ![n] = @ \/ (n \in OwnGroup /\ trader[n] # "none")]
    /\ trader' = [trader EXCEPT ![n] = "none"]
    /\ lease' = [lease EXCEPT ![n] = NoLease]
    /\ decision' = [decision EXCEPT ![n] = Wait]
    /\ Goto(n, "idle")
    /\ UNCHANGED <<witnessVars, tickAt, excuse>>

WatchdogStart(n) ==
    /\ wd[n] = "down"
    /\ wd' = [wd EXCEPT ![n] = "up"]
    /\ tickAt' = [tickAt EXCEPT ![n] = clock]
    /\ UNCHANGED <<witnessVars, pc, lease, decision, trader, orphan, excuse>>

\* The machine sleeps: watchdog and trader freeze where they are.
Suspend(n) ==
    /\ n \in Sleepers /\ wd[n] = "up"
    /\ wd' = [wd EXCEPT ![n] = "asleep"]
    /\ excuse' = [excuse EXCEPT ![n] = 2]
    /\ UNCHANGED <<witnessVars, pc, tickAt, lease, decision, trader, orphan>>

Resume(n) ==
    /\ wd[n] = "asleep"
    /\ wd' = [wd EXCEPT ![n] = "up"]
    /\ UNCHANGED <<witnessVars, pc, tickAt, lease, decision, trader, orphan, excuse>>

\* An awake watchdog meets its deadlines.
Timely(n) ==
    wd[n] = "up" =>
        /\ clock < tickAt[n] + MaxTick
        /\ pc[n] \in {"status", "giveup", "renew"} => clock < tickAt[n] + MaxRenewDelay

Elapse ==
    /\ \A n \in Node : Timely(n)
    /\ TimePasses
    /\ UNCHANGED <<nodeVars, cut, faults>>

SetCut(n, b) ==
    /\ cut[n] = ~b
    /\ cut' = [cut EXCEPT ![n] = b]
    /\ UNCHANGED <<witnessVars, nodeVars>>

WatchdogStep(n) ==
    /\ \/ BeginTick(n) \/ ReadStatus(n) \/ GiveUpLease(n) \/ RenewLease(n)
       \/ SignalTrader(n) \/ TraderStopped(n) \/ ApplyHandOver(n) \/ ApplyRun(n)
       \/ Quit(n)
    /\ UNCHANGED <<cut, faults>>

Fault ==
    /\ faults < MaxFaults
    /\ faults' = faults + 1
    /\ \/ WitnessFault /\ UNCHANGED <<nodeVars, cut>>
       \/ \E n \in Node :
             \/ SetCut(n, TRUE)
             \/ /\ TraderExits(n) \/ WatchdogCrash(n) \/ Shutdown(n) \/ Suspend(n)
                /\ UNCHANGED cut

Repair ==
    /\ UNCHANGED faults
    /\ \/ WitnessRepair /\ UNCHANGED <<nodeVars, cut>>
       \/ \E n \in Node :
             \/ SetCut(n, FALSE)
             \/ /\ OrphanExits(n) \/ WatchdogStart(n) \/ Resume(n)
                /\ UNCHANGED cut

Next ==
    \/ \E n \in Node : WatchdogStep(n)
    \/ Fault
    \/ Repair
    \/ Elapse

Spec == Init /\ [][Next]_vars

-----------------------------------------------------------------------------
(***************************************************************************)
(* Properties.                                                             *)
(***************************************************************************)
Alive(n) == trader[n] # "none"

\* n may be held to its claims: the witness recalls every lease, and n has
\* completed a tick since it slept, ran on a lost renew, or decided to run on
\* a lease it did not know it had just given up.
Accountable(n) == recall # "stale" /\ excuse[n] = 0

(* Two watchdogs never have a trader alive at the same time, whatever      *)
(* calls are lost and whoever crashes.  There are four ways out: a machine *)
(* that slept, renews that kept being lost, a witness that restored an old *)
(* lease, and a release after too many failures whose answer was lost, so  *)
(* that the node goes on to run its trader.  A node is bound again when it *)
(* has completed a tick since.                                             *)
ExclusiveTraders ==
    \A m, n \in Node :
        m # n /\ Alive(m) /\ Alive(n) => ~Accountable(m) \/ ~Accountable(n)

(* As long as a watchdog has a trader alive, to the end of its stop grace, *)
(* the witness would deny the lease to every other node.                   *)
LeaseOutlivesTrader ==
    \A m, n \in Node :
        m # n /\ Alive(n) /\ Accountable(n) => ~(up /\ Granted(m))

\* A trader that can place orders now.
Trading(n) == wd[n] # "asleep" /\ (trader[n] = "run" \/ orphan[n])

(* docs/ARCHITECTURE.md 3: "Mac (primary) and ai-box (standby) never trade *)
(* simultaneously".                                                        *)
NeverTradeSimultaneously ==
    \A m, n \in Node : m # n => ~(Trading(m) /\ Trading(n))

(* docs/ARCHITECTURE.md 3: the watchdog "runs the trader only while        *)
(* holding it".  No watchdog starts a trader when the witness's last       *)
(* answer to it says that another node holds the lease.                    *)
StartsOnlyWhileHolding ==
    [][\A n \in Node :
          trader[n] = "none" /\ trader'[n] = "run"
          => ~HeldByOther(lease[n], n, Now(n))]_vars
=============================================================================
