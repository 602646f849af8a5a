--------------------------- MODULE HandoverProofs ---------------------------
(***************************************************************************)
(* Proofs of TypeOK and StaysOut, for every value of the constants: any    *)
(* timing parameters, any backoff, any number of faults.                   *)
(***************************************************************************)
EXTENDS Handover, FiniteSetTheorems, TLAPS

-----------------------------------------------------------------------------
(***************************************************************************)
(* Every function on a watchdog's fields yields fields again.  Same lists  *)
(* the fields that a change of state leaves alone.                         *)
(***************************************************************************)
Same(v, w) ==
    /\ v.trader = w.trader /\ v.failures = w.failures /\ v.nextStartAt = w.nextStartAt
    /\ v.peer = w.peer /\ v.lastPeerSeen = w.lastPeerSeen

LEMMA PeerIsOther == ASSUME NEW n \in Node PROVE Peer(n) \in Node /\ Peer(n) # n
  <1>1. Cardinality(Node) = 2
    BY HandoverAssumption
  <1>2. \E m \in Node : m # n
    <2>1. SUFFICES ASSUME \A m \in Node : m = n PROVE FALSE
      OBVIOUS
    <2>2. Node = {n}
      BY <2>1
    <2>3. Cardinality({n}) = 1
      BY FS_Singleton
    <2> QED BY <1>1, <2>2, <2>3
  <1> QED BY <1>2 DEF Peer

LEMMA SetStateType ==
    ASSUME NEW w \in Watchdog, NEW s \in NodeState
    PROVE  /\ SetState(w, s) \in Watchdog
           /\ SetState(w, s).state = s
           /\ Same(SetState(w, s), w)
  <1>1. CASE w.state = s
    BY <1>1 DEF SetState, Same
  <1>2. CASE w.state # s
    <2> DEFINE v == [w EXCEPT !.state = s, !.since = 0]
    <2>1. SetState(w, s) = v
      BY <1>2 DEF SetState
    <2>2. v \in Watchdog
      <3>1. 0 \in Past
        BY DEF Past
      <3> QED BY <3>1 DEF Watchdog
    <2>3. v.state = s /\ Same(v, w)
      BY DEF Watchdog, Same
    <2> QED BY <2>1, <2>2, <2>3
  <1> QED BY <1>1, <1>2

LEMMA HeartbeatType ==
    ASSUME NEW w \in Watchdog
    PROVE  Heartbeat(w) \in PeerView /\ Heartbeat(w) # NoPeer
  <1>1. Heartbeat(w) \in PeerView
    BY DEF Heartbeat, Running, Watchdog, PeerView, PastOrNever, NodeState
  <1> QED BY <1>1, HandoverAssumption

LEMMA ObserveType ==
    ASSUME TypeOK, NEW n \in Node, PeerKnown(wd[n])
    PROVE  /\ Observe(n) \in Watchdog
           /\ PeerKnown(Observe(n))
           /\ Observe(n).trader = wd[n].trader /\ Observe(n).state = wd[n].state
           /\ Observe(n).failures = wd[n].failures
           /\ Observe(n).nextStartAt = wd[n].nextStartAt
  <1>1. wd[n] \in Watchdog /\ wd[Peer(n)] \in Watchdog
    BY PeerIsOther DEF TypeOK
  <1>2. Heartbeat(wd[Peer(n)]) \in PeerView /\ Heartbeat(wd[Peer(n)]) # NoPeer
    BY <1>1, HeartbeatType
  <1>3. 0 \in PastOrNever
    BY DEF PastOrNever, Past
  <1> HIDE DEF PeerView, PastOrNever, Past
  <1> QED BY <1>1, <1>2, <1>3 DEF Observe, Watchdog, PeerKnown

LEMMA FailedType ==
    ASSUME NEW w \in Watchdog
    PROVE  /\ Failed(w) \in Watchdog /\ Failed(w).trader = w.trader
           /\ Failed(w).peer = w.peer /\ Failed(w).lastPeerSeen = w.lastPeerSeen
  <1> DEFINE f == IF w.failures < MaxFailures THEN w.failures + 1 ELSE MaxFailures
             v == [w EXCEPT !.failures = f, !.lastFailureAt = 0,
                            !.nextStartAt = BackoffAfter(f)]
  <1>1. f \in 1 .. MaxFailures
    BY HandoverAssumption DEF Watchdog
  <1>2. BackoffAfter(f) \in Nat
    <2>1. CASE f = MaxFailures
      BY <2>1, HandoverAssumption DEF BackoffAfter
    <2>2. CASE f # MaxFailures
      <3>1. f \in 1 .. MaxFailures - 1
        BY <1>1, <2>2, HandoverAssumption
      <3>2. BackoffAfter(f) = Backoff[f]
        BY <2>2 DEF BackoffAfter
      <3>3. Backoff \in [1 .. MaxFailures - 1 -> Nat]
        BY HandoverAssumption
      <3> HIDE DEF f
      <3> QED BY <3>1, <3>2, <3>3
    <2> QED BY <2>1, <2>2
  <1>3. 0 \in PastOrNever
    BY DEF PastOrNever, Past
  <1>4. v \in Watchdog
    <2>1. f \in 0 .. MaxFailures
      BY <1>1, HandoverAssumption
    <2> HIDE DEF f
    <2> QED BY <1>2, <1>3, <2>1 DEF Watchdog
  <1>5. v.trader = w.trader /\ v.peer = w.peer /\ v.lastPeerSeen = w.lastPeerSeen
    BY DEF Watchdog
  <1>6. Failed(w) = SetState(v, "error")
    BY DEF Failed
  <1> HIDE DEF v
  <1> QED BY <1>4, <1>5, <1>6, SetStateType DEF Same, NodeState

LEMMA ReapType ==
    ASSUME NEW w \in Watchdog
    PROVE  /\ Reap(w) \in Watchdog
           /\ Reap(w).trader \in {"none", "starting", "active"}
           /\ w.trader # "exited" => Reap(w) = w
           /\ Reap(w).peer = w.peer /\ Reap(w).lastPeerSeen = w.lastPeerSeen
  <1> DEFINE v == [w EXCEPT !.trader = "none"]
  <1>1. v \in Watchdog /\ v.trader = "none"
        /\ v.peer = w.peer /\ v.lastPeerSeen = w.lastPeerSeen
    BY DEF Watchdog
  <1>2. w.trader \in {"none", "starting", "active", "exited"}
    BY DEF Watchdog
  <1>3. CASE w.trader = "exited"
    <2>1. Reap(w) = Failed(v)
      BY <1>3 DEF Reap
    <2> HIDE DEF v
    <2> QED BY <1>1, <1>3, <2>1, FailedType
  <1>4. CASE w.trader # "exited"
    BY <1>2, <1>4 DEF Reap
  <1> QED BY <1>3, <1>4

LEMMA RefreshType ==
    ASSUME NEW w \in Watchdog
    PROVE  /\ Refresh(w) \in Watchdog /\ Refresh(w).trader = w.trader
           /\ w.trader # "active" => Refresh(w) = w
           /\ Refresh(w).peer = w.peer /\ Refresh(w).lastPeerSeen = w.lastPeerSeen
  <1> DEFINE v == [w EXCEPT !.failures = 0, !.nextStartAt = NoTime]
  <1>1. v \in Watchdog
    <2>1. 0 \in 0 .. MaxFailures
      BY HandoverAssumption
    <2> QED BY <2>1 DEF Watchdog
  <1>2. v.trader = w.trader /\ v.peer = w.peer /\ v.lastPeerSeen = w.lastPeerSeen
    BY DEF Watchdog
  <1>3. Refresh(w) \in {SetState(v, "active"), w} /\ (w.trader # "active" => Refresh(w) = w)
    BY DEF Refresh
  <1> HIDE DEF v
  <1> QED BY <1>1, <1>2, <1>3, SetStateType DEF Same, NodeState

LEMMA GiveUpType ==
    ASSUME NEW w \in Watchdog
    PROVE  /\ GiveUp(w) \in Watchdog /\ GiveUp(w).trader = w.trader
           /\ GiveUp(w).state = "error" /\ GiveUp(w).failures = w.failures
           /\ GiveUp(w).nextStartAt = PostFailureCooldown
           /\ GiveUp(w).peer = w.peer /\ GiveUp(w).lastPeerSeen = w.lastPeerSeen
  <1> DEFINE v == [w EXCEPT !.nextStartAt = PostFailureCooldown]
  <1>1. v \in Watchdog
    BY HandoverAssumption DEF Watchdog
  <1>2. v.nextStartAt = PostFailureCooldown /\ v.failures = w.failures /\ v.trader = w.trader
        /\ v.peer = w.peer /\ v.lastPeerSeen = w.lastPeerSeen
    BY DEF Watchdog
  <1>3. GiveUp(w) = SetState(v, "error")
    BY DEF GiveUp
  <1> HIDE DEF v
  <1> QED BY <1>1, <1>2, <1>3, SetStateType DEF Same, NodeState

-----------------------------------------------------------------------------
(***************************************************************************)
(* The parts of apply, and apply.                                          *)
(***************************************************************************)
SamePeer(v, w) == v.peer = w.peer /\ v.lastPeerSeen = w.lastPeerSeen

LEMMA StopTraderType ==
    ASSUME NEW w \in Watchdog, NEW d
    PROVE  /\ StopTrader(w, d) \in Watchdog /\ SamePeer(StopTrader(w, d), w)
           /\ w.trader = "none" => StopTrader(w, d) = w
  <1> DEFINE v == [w EXCEPT !.trader = "none"]
  <1>1. v \in Watchdog /\ SamePeer(v, w)
    BY DEF Watchdog, SamePeer
  <1>2. StopTrader(w, d) \in {SetState(v, "standby"), w}
        /\ (w.trader = "none" => StopTrader(w, d) = w)
    BY DEF StopTrader, Running
  <1> HIDE DEF v
  <1> QED BY <1>1, <1>2, SetStateType DEF Same, SamePeer, NodeState

LEMMA YieldType ==
    ASSUME NEW w \in Watchdog, NEW d
    PROVE  /\ Yield(w, d) \in Watchdog /\ SamePeer(Yield(w, d), w)
           /\ ~d.release => Yield(w, d) = w
  <1> DEFINE v == [w EXCEPT !.lastYieldAt = 0, !.yieldRequested = NoTime]
  <1>1. 0 \in PastOrNever /\ NoTime \in PastOrNever
    BY DEF PastOrNever, Past
  <1>2. v \in Watchdog
    BY <1>1 DEF Watchdog
  <1>3. SamePeer(v, w)
    BY DEF Watchdog, SamePeer
  <1>4. Yield(w, d) \in {SetState(v, "standby"), w} /\ (~d.release => Yield(w, d) = w)
    BY DEF Yield
  <1> HIDE DEF v
  <1> QED BY <1>2, <1>3, <1>4, SetStateType DEF Same, SamePeer, NodeState

LEMMA AskType ==
    ASSUME NEW w \in Watchdog, NEW d, NEW n
    PROVE  /\ Ask(n, w, d) \in Watchdog /\ Same(Ask(n, w, d), w)
           /\ Ask(n, w, d).state = w.state
  <1>1. 0 \in PastOrNever
    BY DEF PastOrNever, Past
  <1> QED BY <1>1 DEF Ask, Watchdog, Same

LEMMA ApplyType ==
    ASSUME NEW w \in Watchdog, NEW d \in Decision, NEW n, NEW starts
    PROVE  Apply(n, w, d, starts) \in Watchdog /\ SamePeer(Apply(n, w, d, starts), w)
  <1> DEFINE w1 == Ask(n, Yield(StopTrader(w, d), d), d)
             v == [w1 EXCEPT !.trader = "starting"]
  <1>1. w1 \in Watchdog /\ SamePeer(w1, w)
    BY StopTraderType, YieldType, AskType DEF Same, SamePeer
  <1> HIDE DEF w1
  <1>2. v \in Watchdog /\ SamePeer(v, w1)
    BY <1>1 DEF Watchdog, SamePeer
  <1>3. StartTrader(w1, starts) \in {SetState(v, "starting"), Failed(w1)}
    BY DEF StartTrader
  <1>4. Rest(w1, d) \in {SetState(w1, s) : s \in NodeState}
    BY DEF Rest, NodeState
  <1> HIDE DEF v
  <1>5. StartTrader(w1, starts) \in Watchdog /\ SamePeer(StartTrader(w1, starts), w1)
    BY <1>1, <1>2, <1>3, SetStateType, FailedType DEF Same, SamePeer, NodeState
  <1>6. Rest(w1, d) \in Watchdog /\ SamePeer(Rest(w1, d), w1)
    BY <1>1, <1>4, SetStateType DEF Same, SamePeer
  <1>7. d.run \in BOOLEAN /\ d.release \in BOOLEAN
    <2>1. Wait.run = FALSE /\ HandOver.run = FALSE /\ Fence.run = FALSE
          /\ KeepLease.run = TRUE /\ Take.run = FALSE /\ AskPeer.run = FALSE
      BY DEF Wait, HandOver, Fence, KeepLease, Take, AskPeer
    <2>2. Wait.release = FALSE /\ HandOver.release = TRUE /\ Fence.release = FALSE
          /\ KeepLease.release = FALSE /\ Take.release = FALSE /\ AskPeer.release = FALSE
      BY DEF Wait, HandOver, Fence, KeepLease, Take, AskPeer
    <2>3. \/ d = Wait \/ d = HandOver \/ d = Fence
          \/ d = KeepLease \/ d = Take \/ d = AskPeer
      BY DEF Decision
    <2> QED BY <2>1, <2>2, <2>3
  <1>8. Apply(n, w, d, starts) \in {w1, StartTrader(w1, starts), Rest(w1, d)}
    BY <1>7 DEF Apply, w1
  <1> QED BY <1>1, <1>5, <1>6, <1>8 DEF SamePeer

\* A watchdog that sits out, and neither holds nor acquires, goes on so.
LEMMA ApplySitsOut ==
    ASSUME NEW w \in Watchdog, NEW d \in {Wait, AskPeer}, NEW n, NEW starts,
           w.state = "error", w.trader = "none", w.failures = MaxFailures, Waiting(w)
    PROVE  LET v == Apply(n, w, d, starts)
           IN  /\ v.state = "error" /\ v.trader = "none"
               /\ v.failures = MaxFailures /\ v.nextStartAt = w.nextStartAt
  <1>1. ~d.run /\ ~d.release /\ ~d.fence
    BY DEF Wait, AskPeer
  <1>2. StopTrader(w, d) = w /\ Yield(w, d) = w
    BY <1>1, StopTraderType, YieldType
  <1> DEFINE w1 == Ask(n, w, d)
  <1>3. w1 \in Watchdog /\ Same(w1, w) /\ w1.state = "error"
    BY AskType
  <1>4. Apply(n, w, d, starts) = Rest(w1, d)
    BY <1>1, <1>2 DEF Apply
  <1> HIDE DEF w1
  <1>5. Waiting(w1) /\ w1.failures = MaxFailures
    BY <1>3 DEF Waiting, Same
  <1>6. Rest(w1, d) = SetState(w1, "error")
    BY <1>1, <1>5 DEF Rest
  <1> QED BY <1>3, <1>4, <1>6, SetStateType DEF Same, NodeState

-----------------------------------------------------------------------------
(***************************************************************************)
(* What a watchdog decides.                                                *)
(***************************************************************************)
LEMMA EvaluateType ==
    ASSUME NEW in, in.role \in {"primary", "standby"}
    PROVE  /\ Evaluate(in) \in Decision
           /\ ~in.traderRunning /\ ~Held(in) /\ Inhibited(in) => Evaluate(in) \in {Wait, AskPeer}
  <1>1. EvaluateUnheld(in) \in {Wait, Take, AskPeer}
    BY DEF EvaluateUnheld, Acquire
  <1>2. Evaluate(in) \in {HandOver, Fence, KeepLease, EvaluateUnheld(in)}
    BY DEF Evaluate
  <1>3. ASSUME ~in.traderRunning, ~Held(in), Inhibited(in)
        PROVE  Evaluate(in) \in {Wait, AskPeer}
    <2>1. Evaluate(in) = EvaluateUnheld(in)
      BY <1>3 DEF Evaluate, MustHandOver
    <2>2. Acquire(in) = Wait
      BY <1>3 DEF Acquire
    <2> QED BY <2>1, <2>2 DEF EvaluateUnheld
  <1> QED BY <1>1, <1>2, <1>3 DEF Decision

LEMMA InputRole ==
    ASSUME NEW n \in Node, NEW w, NEW l
    PROVE  Input(n, w, l).role \in {"primary", "standby"}
  <1>1. Role \in [Node -> {"primary", "standby"}]
    BY HandoverAssumption
  <1> QED BY <1>1 DEF Input

\* A watchdog without a trader or the lease that waits decides to go on so.
LEMMA WaitingDecides ==
    ASSUME NEW n \in Node, NEW w \in Watchdog, NEW l,
           w.trader = "none", Waiting(w), l.holder # n
    PROVE  Evaluate(Input(n, w, l)) \in {Wait, AskPeer}
  <1> DEFINE in == Input(n, w, l)
  <1>1. in.role \in {"primary", "standby"}
    BY InputRole
  <1>2. ~in.traderRunning
    BY DEF Input, Running
  <1>3. ~Held(in)
    BY DEF Held, HeldBy, Input
  <1>4. Inhibited(in)
    BY DEF Inhibited, Input, Waiting
  <1> HIDE DEF in
  <1>5. Evaluate(in) \in {Wait, AskPeer}
    BY <1>1, <1>2, <1>3, <1>4, EvaluateType
  <1> QED BY <1>5 DEF in

-----------------------------------------------------------------------------
LEMMA InitInv == Init => HandoverInv
  <1> SUFFICES ASSUME Init PROVE HandoverInv
    OBVIOUS
  <1>1. Fresh \in Watchdog
    <2>1. 0 \in Past /\ 0 \in 0 .. MaxFailures /\ NoTime \in PastOrNever
      BY HandoverAssumption DEF Past, PastOrNever
    <2> QED BY <2>1 DEF Fresh, Watchdog, NodeState
  <1>2. PeerKnown(Fresh)
    BY DEF PeerKnown, Fresh
  <1>3. -Grace \in -Grace .. TTL /\ 0 \in 0 .. MaxFaults /\ NoTime \in PastOrNever
    BY HandoverAssumption DEF PastOrNever
  <1>4. TypeOK
    BY <1>1, <1>3 DEF Init, TypeOK
  <1>5. \A n \in Node : SittingOut(n)
    BY DEF Init, SittingOut
  <1> QED BY <1>2, <1>4, <1>5 DEF HandoverInv, Init

(***************************************************************************)
(* A tick.  The names w1, w, d1, l1, l2, d and l are those of Tick.        *)
(***************************************************************************)
LEMMA TickInv ==
    ASSUME HandoverInv, NEW n \in Node, Tick(n)
    PROVE  HandoverInv'
  <1> DEFINE w0 == Refresh(Reap(Observe(n)))
             w1 == [w0 EXCEPT !.reachable = ~cut[n]]
             gives == MustGiveUp(n, w1, View(n))
             w == IF gives THEN GiveUp(w1) ELSE w1
             l1 == IF gives THEN NoLease ELSE View(n)
             d1 == Evaluate(Input(n, w, l1))
             renewed == d1.acquire /\ Grants(n, l1)
             l2 == IF renewed THEN Granted(n) ELSE l1
             d == IF renewed THEN Evaluate(Input(n, w, l2)) ELSE d1
             l == IF d.release THEN NoLease ELSE l2
  <1> USE DEF HandoverInv
  <1>1. PICK starts :
           wd' = [m \in Node |->
                     IF m = n THEN Apply(n, w, d, starts)
                     ELSE IF d.ask /\ Connected(n) THEN [wd[m] EXCEPT !.yieldRequested = 0]
                     ELSE wd[m]]
    BY DEF Tick
  <1>2. /\ holder' = l.holder /\ expiresAt' = l.expiresAt
        /\ gaveUpAt' = IF gives THEN [gaveUpAt EXCEPT ![n] = 0] ELSE gaveUpAt
        /\ ticked' = ticked \cup {n}
        /\ UNCHANGED <<world, faults>>
    BY DEF Tick
  <1>3. /\ Observe(n) \in Watchdog /\ PeerKnown(Observe(n))
        /\ Observe(n).trader = wd[n].trader /\ Observe(n).state = wd[n].state
        /\ Observe(n).failures = wd[n].failures
        /\ Observe(n).nextStartAt = wd[n].nextStartAt
    BY ObserveType
  <1>4. /\ w0 \in Watchdog /\ PeerKnown(w0) /\ w0.trader \in {"none", "starting", "active"}
        /\ Observe(n).trader = "none" => w0 = Observe(n)
    BY <1>3, ReapType, RefreshType DEF PeerKnown
  <1> HIDE DEF w0
  <1>5. /\ w1 \in Watchdog /\ PeerKnown(w1) /\ w1.trader = w0.trader /\ w1.state = w0.state
        /\ w1.failures = w0.failures /\ w1.nextStartAt = w0.nextStartAt
    <2>1. cut[n] \in BOOLEAN
      BY DEF TypeOK
    <2> QED BY <1>4, <2>1 DEF Watchdog, PeerKnown
  <1> HIDE DEF w1
  <1>6. gives => w1.trader = "none" /\ w1.failures = MaxFailures /\ holder = n
    BY <1>4, <1>5 DEF MustGiveUp, Running, HeldBy, View
  <1>7. gives => /\ w.state = "error" /\ w.trader = "none" /\ w.failures = MaxFailures
                 /\ w.nextStartAt = PostFailureCooldown
    BY <1>5, <1>6, GiveUpType
  <1>8. ~gives => w = w1 /\ l1 = View(n)
    OBVIOUS
  <1>9. w \in Watchdog /\ PeerKnown(w)
    BY <1>5, GiveUpType DEF PeerKnown
  <1>10. gives => l1 = NoLease
    OBVIOUS
  <1> HIDE DEF w, gives
  <1>11. d1 \in Decision /\ d \in Decision
    BY InputRole, EvaluateType
  <1> DEFINE v == Apply(n, w, d, starts)
  <1>12. v \in Watchdog /\ PeerKnown(v)
    BY <1>9, <1>11, ApplyType DEF PeerKnown, SamePeer
  \* The lease after the tick.
  <1>13. l1.holder \in Node \cup {NoNode} /\ l1.expiresAt \in -Grace .. TTL
    BY HandoverAssumption DEF NoLease, View, TypeOK
  <1>14. l.holder \in Node \cup {NoNode} /\ l.expiresAt \in -Grace .. TTL
    BY <1>13, HandoverAssumption DEF NoLease, Granted
  <1>15. l.holder \in {NoNode, n, l1.holder} /\ (~d1.acquire /\ ~d.release => l.holder = l1.holder)
    BY DEF NoLease, Granted
  <1>16. l1.holder \in {holder, NoNode} /\ (gives => l1.holder = NoNode)
    BY <1>8, <1>10 DEF NoLease, View
  \* A node that sits out in the next state.
  <1>17. ASSUME w.trader = "none", w.state = "error", w.failures = MaxFailures,
                w.nextStartAt # NoTime, w.nextStartAt > 0, l1.holder # n
         PROVE  /\ v.state = "error" /\ v.trader = "none" /\ v.failures = MaxFailures
                /\ v.nextStartAt = w.nextStartAt /\ l.holder = l1.holder
    <2>1. Waiting(w)
      BY <1>17 DEF Waiting
    <2>2. d1 \in {Wait, AskPeer}
      BY <1>9, <1>17, <2>1, WaitingDecides
    <2>3. ~d1.acquire /\ ~d1.release
      BY <2>2 DEF Wait, AskPeer
    <2>4. d = d1
      BY <2>3
    <2>5. l.holder = l1.holder
      BY <1>15, <2>3, <2>4
    <2> HIDE DEF d, d1
    <2> QED BY <1>9, <1>17, <2>1, <2>2, <2>4, <2>5, ApplySitsOut
  <1> HIDE DEF v, l, d, d1, l1
  <1>18. SittingOut(n)'
    <2>1. wd'[n] = v /\ up'[n]
      BY <1>1, <1>2 DEF v, Tick, world
    <2>2. CASE gives /\ 0 < PostFailureCooldown
      <3>1. gaveUpAt'[n] = 0
        BY <1>2, <2>2 DEF TypeOK
      <3>2. w.nextStartAt # NoTime /\ w.nextStartAt > 0
        BY <1>7, <2>2, HandoverAssumption
      <3>3. l1.holder # n
        BY <1>16, <2>2, HandoverAssumption
      <3>4. /\ v.state = "error" /\ v.trader = "none" /\ v.failures = MaxFailures
            /\ v.nextStartAt = PostFailureCooldown /\ l.holder # n
        BY <1>7, <1>17, <2>2, <3>2, <3>3
      <3> QED BY <1>2, <2>1, <3>1, <3>4, HandoverAssumption DEF SittingOut
    <2>3. CASE gives /\ ~(0 < PostFailureCooldown)
      <3>1. gaveUpAt'[n] = 0
        BY <1>2, <2>3 DEF TypeOK
      <3> QED BY <2>3, <3>1 DEF SittingOut
    <2>4. CASE ~gives
      <3>1. gaveUpAt' = gaveUpAt
        BY <1>2, <2>4
      <3>2. SUFFICES ASSUME gaveUpAt[n] # NoTime, -gaveUpAt[n] < PostFailureCooldown
                     PROVE  SittingOut(n)'
        BY <3>1 DEF SittingOut
      <3>3. /\ wd[n].state = "error" /\ wd[n].trader = "none" /\ wd[n].failures = MaxFailures
            /\ wd[n].nextStartAt = PostFailureCooldown + gaveUpAt[n] /\ holder # n
        BY <3>2 DEF SittingOut
      <3>4. /\ w.state = "error" /\ w.trader = "none" /\ w.failures = MaxFailures
            /\ w.nextStartAt = PostFailureCooldown + gaveUpAt[n]
        BY <1>3, <1>4, <1>5, <1>8, <2>4, <3>3
      <3>5. gaveUpAt[n] \in Int /\ PostFailureCooldown \in Int
        BY <3>2, HandoverAssumption DEF TypeOK, PastOrNever, Past
      <3>6. w.nextStartAt \in Int /\ w.nextStartAt > 0
        BY <3>2, <3>4, <3>5
      <3>7. w.nextStartAt # NoTime /\ l1.holder # n
        BY <1>16, <3>3, <3>6, HandoverAssumption
      <3>8. /\ v.state = "error" /\ v.trader = "none" /\ v.failures = MaxFailures
            /\ v.nextStartAt = w.nextStartAt /\ l.holder # n
        BY <1>17, <3>4, <3>6, <3>7
      <3> QED BY <1>2, <2>1, <3>1, <3>4, <3>8 DEF SittingOut
    <2> QED BY <2>2, <2>3, <2>4
  \* The peer, whose only field to change is yieldRequested.
  <1>19. ASSUME NEW m \in Node, m # n
         PROVE  wd'[m] \in Watchdog /\ PeerKnown(wd'[m]) /\ SittingOut(m)'
    <2>1. 0 \in PastOrNever /\ wd[m] \in Watchdog /\ PeerKnown(wd[m])
      BY DEF PastOrNever, Past, TypeOK
    <2>2. wd'[m] \in {[wd[m] EXCEPT !.yieldRequested = 0], wd[m]}
      BY <1>1, <1>19
    <2>3. wd'[m] \in Watchdog /\ Same(wd'[m], wd[m]) /\ wd'[m].state = wd[m].state
      BY <2>1, <2>2 DEF Watchdog, Same
    <2>4. PeerKnown(wd'[m])
      BY <2>1, <2>3 DEF PeerKnown, Same
    <2>5. gaveUpAt'[m] = gaveUpAt[m]
      BY <1>2, <1>19 DEF TypeOK
    <2>6. holder' = m => holder = m
      BY <1>2, <1>15, <1>16, <1>19, HandoverAssumption
    <2>7. up' = up
      BY <1>2 DEF world
    <2> QED BY <2>3, <2>4, <2>5, <2>6, <2>7 DEF SittingOut, Same
  <1>20. wd' \in [Node -> Watchdog] /\ \A m \in Node : PeerKnown(wd'[m])
    <2>1. \A m \in Node : wd'[m] \in Watchdog /\ PeerKnown(wd'[m])
      BY <1>1, <1>12, <1>19 DEF v
    <2>2. wd' = [m \in Node |-> wd'[m]]
      BY <1>1
    <2> QED BY <2>1, <2>2
  <1>21. gaveUpAt' \in [Node -> PastOrNever]
    <2>1. 0 \in PastOrNever
      BY DEF PastOrNever, Past
    <2> QED BY <1>2, <2>1 DEF TypeOK
  <1>22. TypeOK'
    BY <1>2, <1>14, <1>20, <1>21 DEF TypeOK, world
  <1>23. \A m \in Node : PeerKnown(wd[m])'
    BY <1>20 DEF PeerKnown
  <1> QED BY <1>18, <1>19, <1>22, <1>23

(***************************************************************************)
(* A round, the trader, and the world.                                     *)
(***************************************************************************)
LEMMA AgedType ==
    ASSUME NEW t \in PastOrNever, NEW keep
    PROVE  Aged(t, keep) \in PastOrNever /\ (Aged(t, keep) # NoTime => Aged(t, keep) = t - 1)
  BY HandoverAssumption DEF Aged, PastOrNever, Past

LEMMA AgedViewType ==
    ASSUME NEW hb \in PeerView
    PROVE  AgedView(hb) \in PeerView /\ AgedView(hb) # NoPeer
  <1>1. hb.since \in Past /\ hb.startedAt \in PastOrNever
    BY DEF PeerView
  <1>2. Horizon \in Nat /\ NoTime \notin Int
    BY HandoverAssumption
  <1>3. Older(hb.since) \in Past
    BY <1>1, <1>2 DEF Older, Past
  <1>4. hb.startedAt # NoTime => Older(hb.startedAt) \in PastOrNever
    BY <1>1, <1>2 DEF Older, Past, PastOrNever
  <1>5. NoTime \in PastOrNever
    BY DEF PastOrNever
  <1>6. AgedView(hb) \in PeerView
    BY <1>3, <1>4, <1>5 DEF AgedView, PeerView
  <1> QED BY <1>6, HandoverAssumption

LEMMA AgedWatchdogType ==
    ASSUME NEW w \in Watchdog, PeerKnown(w)
    PROVE  LET v == AgedWatchdog(w)
           IN  /\ v \in Watchdog /\ PeerKnown(v)
               /\ v.state = w.state /\ v.trader = w.trader /\ v.failures = w.failures
               /\ Waiting(w) => v.nextStartAt = w.nextStartAt - 1
  <1> DEFINE seen == Aged(w.lastPeerSeen, FailoverAfter)
             p == IF seen = NoTime \/ seen < -PeerStaleAfter THEN NoPeer ELSE AgedView(w.peer)
             next == IF Waiting(w) THEN w.nextStartAt - 1 ELSE w.nextStartAt
             since == Older(w.since)
             failure == Aged(w.lastFailureAt, FailureMemory)
             asked == Aged(w.yieldRequested, YieldRequestTTL)
             yielded == Aged(w.lastYieldAt, HandoverCooldown)
             asks == Aged(w.lastYieldReqAt, YieldRequestCooldown)
             v == [w EXCEPT !.since = since, !.nextStartAt = next, !.lastFailureAt = failure,
                            !.yieldRequested = asked, !.lastYieldAt = yielded,
                            !.lastYieldReqAt = asks, !.lastPeerSeen = seen, !.peer = p]
  <1>1. /\ failure \in PastOrNever /\ asked \in PastOrNever /\ yielded \in PastOrNever
        /\ asks \in PastOrNever /\ seen \in PastOrNever
        /\ seen # NoTime => seen = w.lastPeerSeen - 1
    BY AgedType DEF Watchdog
  <1>2. next \in Nat \cup {NoTime}
    BY DEF Waiting, Watchdog
  <1>3. since \in Past
    <2>1. w.since \in Past /\ Horizon \in Nat
      BY HandoverAssumption DEF Watchdog
    <2> QED BY <2>1 DEF Older, Past
  <1>4. p \in PeerView \cup {NoPeer} /\ (seen # NoTime /\ -seen <= PeerStaleAfter => p # NoPeer)
    <2>1. CASE seen = NoTime \/ seen < -PeerStaleAfter
      <3>1. seen # NoTime => seen \in Int
        BY <1>1 DEF PastOrNever, Past
      <3> QED BY <2>1, <3>1, ParamsAssumption
    <2>2. CASE ~(seen = NoTime \/ seen < -PeerStaleAfter)
      <3>1. seen \in Int /\ w.lastPeerSeen \in Int /\ w.lastPeerSeen # NoTime
        <4>1. seen \in Past
          BY <1>1, <2>2 DEF PastOrNever
        <4>2. w.lastPeerSeen # NoTime
          BY <2>2 DEF Aged
        <4>3. w.lastPeerSeen \in Past
          BY <4>2 DEF Watchdog, PastOrNever
        <4> QED BY <4>1, <4>2, <4>3 DEF Past
      <3>2. PeerStaleAfter \in Nat
        BY ParamsAssumption
      <3>3. seen = w.lastPeerSeen - 1
        BY <1>1, <2>2
      <3> HIDE DEF seen
      <3>4. -w.lastPeerSeen <= PeerStaleAfter
        BY <2>2, <3>1, <3>2, <3>3
      <3>5. w.peer # NoPeer
        BY <3>1, <3>4 DEF PeerKnown
      <3>6. w.peer \in PeerView
        BY <3>5 DEF Watchdog
      <3> QED BY <2>2, <3>6, AgedViewType
    <2> QED BY <2>1, <2>2
  <1>5. AgedWatchdog(w) = v
    BY DEF AgedWatchdog
  <1> HIDE DEF seen, p, next, since, failure, asked, yielded, asks
  <1>6. v \in Watchdog
    BY <1>1, <1>2, <1>3, <1>4 DEF Watchdog
  <1>7. /\ v.state = w.state /\ v.trader = w.trader /\ v.failures = w.failures
        /\ v.nextStartAt = next /\ v.peer = p /\ v.lastPeerSeen = seen
    BY DEF Watchdog
  <1>8. Waiting(w) => next = w.nextStartAt - 1
    BY DEF next
  <1> QED BY <1>4, <1>5, <1>6, <1>7, <1>8 DEF PeerKnown

LEMMA ElapseInv == HandoverInv /\ Elapse => HandoverInv'
  <1> SUFFICES ASSUME HandoverInv, Elapse PROVE HandoverInv'
    OBVIOUS
  <1> USE DEF HandoverInv
  <1>1. ASSUME NEW n \in Node
        PROVE  /\ wd'[n] \in Watchdog /\ PeerKnown(wd'[n])
               /\ gaveUpAt'[n] \in PastOrNever /\ SittingOut(n)'
    <2>1. wd[n] \in Watchdog /\ PeerKnown(wd[n]) /\ gaveUpAt[n] \in PastOrNever
      BY DEF TypeOK
    <2>2. wd'[n] \in {AgedWatchdog(wd[n]), wd[n]} /\ (up[n] => wd'[n] = AgedWatchdog(wd[n]))
          /\ gaveUpAt'[n] = Aged(gaveUpAt[n], PostFailureCooldown)
          /\ holder' = holder /\ up' = up
      BY DEF Elapse, world
    <2>3. wd'[n] \in Watchdog /\ PeerKnown(wd'[n]) /\ gaveUpAt'[n] \in PastOrNever
      BY <2>1, <2>2, AgedWatchdogType, AgedType
    <2>4. ASSUME gaveUpAt'[n] # NoTime, -gaveUpAt'[n] < PostFailureCooldown
          PROVE  /\ up'[n] /\ wd'[n].state = "error" /\ wd'[n].trader = "none"
                 /\ wd'[n].failures = MaxFailures
                 /\ wd'[n].nextStartAt = PostFailureCooldown + gaveUpAt'[n]
                 /\ holder' # n
      <3>1. gaveUpAt'[n] = gaveUpAt[n] - 1 /\ gaveUpAt[n] # NoTime
        BY <2>1, <2>2, <2>4, AgedType DEF Aged
      <3>2. gaveUpAt[n] \in Int /\ PostFailureCooldown \in Int
        BY <2>1, <3>1, HandoverAssumption DEF PastOrNever, Past
      <3>3. -gaveUpAt[n] < PostFailureCooldown
        BY <2>4, <3>1, <3>2
      <3>4. /\ wd[n].state = "error" /\ wd[n].trader = "none" /\ wd[n].failures = MaxFailures
            /\ wd[n].nextStartAt = PostFailureCooldown + gaveUpAt[n] /\ holder # n
        BY <3>1, <3>3 DEF SittingOut
      <3>5. Waiting(wd[n])
        <4>1. wd[n].nextStartAt \in Int /\ wd[n].nextStartAt > 0
          BY <3>2, <3>3, <3>4
        <4> QED BY <4>1, HandoverAssumption DEF Waiting
      <3>6. up[n]
        BY <3>1, <3>3 DEF SittingOut
      <3> QED BY <2>1, <2>2, <3>1, <3>2, <3>4, <3>5, <3>6, AgedWatchdogType
    <2> QED BY <2>3, <2>4 DEF SittingOut
  <1>2. TypeOK'
    <2>1. expiresAt' \in -Grace .. TTL
      <3>1. Grace \in Nat /\ TTL \in Nat /\ expiresAt \in -Grace .. TTL
        BY HandoverAssumption DEF TypeOK
      <3> QED BY <3>1 DEF Elapse
    <2>2. wd' \in [Node -> Watchdog] /\ gaveUpAt' \in [Node -> PastOrNever]
      BY <1>1 DEF Elapse
    <2> QED BY <2>1, <2>2 DEF Elapse, TypeOK, world
  <1>3. \A n \in Node : PeerKnown(wd[n])'
    BY <1>1 DEF PeerKnown
  <1> QED BY <1>1, <1>2, <1>3

\* A trader changes only where one runs, so not at a node that sits out.
LEMMA SetTraderInv ==
    ASSUME HandoverInv, faults' \in 0 .. MaxFaults, NEW n \in Node,
           NEW from, "none" \notin from,
           NEW to \in {"active", "exited"}, SetTrader(n, from, to)
    PROVE  HandoverInv'
  <1> USE DEF HandoverInv
  <1>1. wd[n] \in Watchdog /\ wd[n].trader # "none"
    BY DEF SetTrader, TypeOK
  <1>2. /\ wd' = [wd EXCEPT ![n].trader = to]
        /\ UNCHANGED <<holder, expiresAt, ticked, up, health, cut, link, gaveUpAt>>
    BY DEF SetTrader, lease
  <1>3. wd'[n] = [wd[n] EXCEPT !.trader = to] /\ \A m \in Node \ {n} : wd'[m] = wd[m]
    BY <1>2 DEF TypeOK
  <1>4. wd'[n] \in Watchdog /\ PeerKnown(wd'[n])
    BY <1>1, <1>3 DEF Watchdog, PeerKnown
  <1>5. \A m \in Node : wd'[m] \in Watchdog /\ PeerKnown(wd'[m])
    BY <1>3, <1>4 DEF TypeOK
  <1>6. TypeOK'
    BY <1>2, <1>5 DEF TypeOK
  <1>7. ASSUME NEW m \in Node PROVE SittingOut(m)'
    <2>1. SittingOut(m) /\ (m # n => wd'[m] = wd[m])
      BY <1>3
    <2> QED BY <1>1, <1>2, <2>1 DEF SittingOut
  <1>8. \A m \in Node : PeerKnown(wd[m])'
    BY <1>5 DEF PeerKnown
  <1> QED BY <1>6, <1>7, <1>8

\* A node whose watchdog is down has forgotten that it gave up.
LEMMA WorldInv ==
    ASSUME HandoverInv, faults' \in 0 .. MaxFaults, NEW n \in Node,
           \/ \E h \in Health : SetHealth(n, h)
           \/ \E c \in BOOLEAN : SetCut(n, c) \/ SetLink(n, c)
           \/ Start(n)
    PROVE  HandoverInv'
  <1> USE DEF HandoverInv
  <1>1. UNCHANGED <<wd, holder, expiresAt, ticked, gaveUpAt>>
    BY DEF SetHealth, SetCut, SetLink, Start, lease
  <1>2. /\ up' \in [Node -> BOOLEAN] /\ health' \in [Node -> Health]
        /\ cut' \in [Node -> BOOLEAN] /\ link' \in [Node -> BOOLEAN]
        /\ \A m \in Node : up[m] => up'[m]
    BY DEF SetHealth, SetCut, SetLink, Start, TypeOK
  <1>3. TypeOK'
    BY <1>1, <1>2 DEF TypeOK
  <1>4. \A m \in Node : SittingOut(m)' /\ PeerKnown(wd[m])'
    BY <1>1, <1>2 DEF SittingOut, PeerKnown
  <1> QED BY <1>3, <1>4

LEMMA StopInv ==
    ASSUME HandoverInv, faults' \in 0 .. MaxFaults, NEW n \in Node,
           Crash(n) \/ Shutdown(n)
    PROVE  HandoverInv'
  <1> USE DEF HandoverInv
  <1>1. Stop(n)
    BY DEF Crash, Shutdown
  <1>2. /\ wd' = [wd EXCEPT ![n] = Fresh] /\ up' = [up EXCEPT ![n] = FALSE]
        /\ gaveUpAt' = [gaveUpAt EXCEPT ![n] = NoTime]
        /\ UNCHANGED <<ticked, health, cut, link>>
    BY <1>1 DEF Stop
  <1>3. holder' \in {holder, NoNode} /\ expiresAt' \in {expiresAt, -Grace}
    BY DEF Crash, Shutdown, lease, NoLease, View
  <1>4. -Grace \in -Grace .. TTL
    BY HandoverAssumption
  <1>5. Fresh \in Watchdog /\ PeerKnown(Fresh) /\ NoTime \in PastOrNever
    <2>1. 0 \in Past /\ 0 \in 0 .. MaxFailures /\ NoTime \in PastOrNever
      BY HandoverAssumption DEF Past, PastOrNever
    <2> QED BY <2>1 DEF Fresh, Watchdog, NodeState, PeerKnown
  <1>6. TypeOK'
    BY <1>2, <1>3, <1>4, <1>5 DEF TypeOK
  <1>7. ASSUME NEW m \in Node PROVE SittingOut(m)' /\ PeerKnown(wd'[m])
    <2>1. CASE m = n
      BY <1>2, <1>5, <2>1 DEF SittingOut, TypeOK
    <2>2. CASE m # n
      <3>1. wd'[m] = wd[m] /\ up'[m] = up[m] /\ gaveUpAt'[m] = gaveUpAt[m]
        BY <1>2, <2>2 DEF TypeOK
      <3>2. holder' = m => holder = m
        BY <1>3, HandoverAssumption
      <3> QED BY <3>1, <3>2 DEF SittingOut
    <2> QED BY <2>1, <2>2
  <1>8. \A m \in Node : PeerKnown(wd[m])'
    BY <1>7 DEF PeerKnown
  <1> QED BY <1>6, <1>7, <1>8

-----------------------------------------------------------------------------
LEMMA StepInv == HandoverInv /\ [Next]_vars => HandoverInv'
  <1> SUFFICES ASSUME HandoverInv, [Next]_vars PROVE HandoverInv'
    OBVIOUS
  <1>1. CASE UNCHANGED vars
    BY <1>1 DEF HandoverInv, TypeOK, SittingOut, PeerKnown, vars, lease, world
  <1>2. CASE Elapse
    BY <1>2, ElapseInv
  <1>3. ASSUME NEW n \in Node,
               Tick(n) \/ TraderActive(n) \/ TraderFails(n) \/ Fault(n) \/ Repair(n)
        PROVE  HandoverInv'
    <2>1. CASE Tick(n)
      BY <2>1, TickInv
    <2>2. CASE TraderActive(n) \/ TraderFails(n)
      <3>1. faults' \in 0 .. MaxFaults
        BY <2>2 DEF TraderActive, TraderFails, HandoverInv, TypeOK
      <3>2. \/ SetTrader(n, {"starting"}, "active") \/ SetTrader(n, {"starting"}, "exited")
        BY <2>2 DEF TraderActive, TraderFails
      <3> QED BY <3>1, <3>2, SetTraderInv
    <2>3. CASE Repair(n)
      <3>1. faults' \in 0 .. MaxFaults
        BY <2>3 DEF Repair, HandoverInv, TypeOK
      <3> QED BY <2>3, <3>1, WorldInv DEF Repair
    <2>4. CASE Fault(n)
      <3>1. faults' \in 0 .. MaxFaults
        BY <2>4, HandoverAssumption DEF Fault, HandoverInv, TypeOK
      <3>2. CASE TraderCrashes(n)
        BY <3>1, <3>2, SetTraderInv DEF TraderCrashes
      <3>3. CASE (\E h \in Health : SetHealth(n, h)) \/ SetCut(n, TRUE) \/ SetLink(n, FALSE)
        BY <3>1, <3>3, WorldInv
      <3>4. CASE Crash(n) \/ Shutdown(n)
        BY <3>1, <3>4, StopInv
      <3> QED BY <2>4, <3>2, <3>3, <3>4 DEF Fault
    <2> QED BY <1>3, <2>1, <2>2, <2>3, <2>4
  <1> QED BY <1>1, <1>2, <1>3 DEF Next

(***************************************************************************)
(* The invariant behind both theorems holds in every reachable state.      *)
(***************************************************************************)
THEOREM HandoverInvariant == Spec => []HandoverInv
  <1> QED BY InitInv, StepInv, PTL DEF Spec

(***************************************************************************)
(* The watchdogs' fields, the lease and the world always have their types. *)
(***************************************************************************)
THEOREM HandoverTypeCorrect == Spec => []TypeOK
  <1>1. HandoverInv => TypeOK
    BY DEF HandoverInv
  <1> QED BY <1>1, InitInv, StepInv, PTL DEF Spec

(***************************************************************************)
(* No ping-pong: a watchdog that gave the lease up stays out of the way    *)
(* for post_failure_cooldown, whatever happens around it meanwhile.        *)
(***************************************************************************)
THEOREM GiverStaysOut == Spec => []StaysOut
  <1>1. HandoverInv => StaysOut
    BY DEF HandoverInv, SittingOut, StaysOut, Running
  <1> QED BY <1>1, InitInv, StepInv, PTL DEF Spec
=============================================================================
