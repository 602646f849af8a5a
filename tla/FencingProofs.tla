--------------------------- MODULE FencingProofs ---------------------------
(***************************************************************************)
(* Exclusion of traders, for every set of nodes, belief, skew and fault    *)
(* schedule that keeps the timing below.                                   *)
(***************************************************************************)
EXTENDS Fencing, WitnessProofs

(***************************************************************************)
(* Two ticks fit into a lease, and into what is left of it after the       *)
(* oldest renew that may get lost; a tick's renew reaches the witness      *)
(* before the grace of a lease that the tick still saw has run out.        *)
(***************************************************************************)
ASSUME TimingAssumption ==
    /\ 2 * MaxTick < TTL
    /\ MaxRenewGap + 2 * MaxTick < TTL + Grace
    /\ MaxRenewDelay <= MaxTick
    /\ \A n \in Node : MaxRenewDelay <= Grace + Skew[n]

USE NodeAssumption, LeaseTimesAssumption, DeploymentAssumption, TimingAssumption

-----------------------------------------------------------------------------
(* No node but n is granted the lease at any instant up to d.              *)
Protected(n, d) ==
    \/ holder = n /\ expiresAt + Grace > d
    \/ notBefore > d

(* The lease in memory is the one its holder was promised.                 *)
HolderPromised == holder # NoNode => promise[holder] = expiresAt /\ expiresAt > 0

(* Where the goroutine of n can be, and with which trader.                 *)
Shape(n) ==
    /\ tickAt[n] <= clock
    /\ wd[n] = "down" => trader[n] = "none" /\ pc[n] = "idle"
    /\ wd[n] = "asleep" => excuse[n] = 2
    /\ trader[n] = "stop" => pc[n] \in {"stopping", "quit"}
    /\ pc[n] = "giveup" => trader[n] = "none"
    /\ pc[n] = "stopping" => ~decision[n].run
    /\ pc[n] = "renew" /\ decision[n].run => HeldBy(lease[n], n, Now(n))

(* A node that did not sleep during this tick is within its deadlines.     *)
Prompt(n) ==
    wd[n] = "up" /\ excuse[n] < 2 /\ (pc[n] # "idle" \/ excuse[n] = 0) =>
        /\ clock <= tickAt[n] + MaxTick
        /\ pc[n] \in {"status", "giveup", "renew"} => clock <= tickAt[n] + MaxRenewDelay

(* n has read this tick that it holds the lease, and has not renewed yet.  *)
Sees(n) ==
    /\ wd[n] = "up" /\ excuse[n] < 2
    /\ pc[n] \in {"giveup", "renew"}
    /\ HeldBy(lease[n], n, Now(n))

(* n is about to have a trader run.                                        *)
Intends(n) == wd[n] = "up" /\ excuse[n] < 2 /\ pc[n] = "apply" /\ decision[n].run

Runs(n) == excuse[n] = 0 /\ Alive(n)

(* What n saw is still so, unless the witness lost it and blocks leases.   *)
SeesTruly(n) ==
    Sees(n) => \/ holder = n /\ expiresAt = lease[n].expiresAt
               \/ notBefore > tickAt[n] + 2 * MaxTick

IntendsSafely(n) == Intends(n) => Protected(n, tickAt[n] + 2 * MaxTick)

(* A running trader is protected to the end of the tick in progress, and   *)
(* between two ticks to the latest end of the next one.                    *)
RunsSafely(n) ==
    Runs(n) => /\ Protected(n, tickAt[n] + MaxTick)
               /\ pc[n] = "idle" => Protected(n, tickAt[n] + 2 * MaxTick)

Claims(n) == Sees(n) \/ Intends(n) \/ Runs(n)
OneClaim == \A m, n \in Node : m # n => ~(Claims(m) /\ Claims(n))

NodeInv == \A n \in Node : Shape(n) /\ Prompt(n)
LeaseInv == \A n \in Node : SeesTruly(n) /\ IntendsSafely(n) /\ RunsSafely(n)

ExclusionInv ==
    /\ WitnessInv
    /\ NodeTypeOK
    /\ NodeInv
    /\ recall # "stale" => HolderPromised /\ LeaseInv /\ OneClaim

FencingInv == FaultTypeOK /\ ExclusionInv

-----------------------------------------------------------------------------
(* Evaluate lets the trader run only on a lease it takes for its own.      *)
LEMMA EvaluateRunsHeld ==
  ASSUME NEW in, in.role \in {"primary", "standby"}
  PROVE  /\ Evaluate(in) \in Decision
         /\ Evaluate(in).run => Held(in) /\ Evaluate(in).acquire
         /\ Held(in) /\ Evaluate(in).acquire => Evaluate(in).run
<1>1. EvaluateUnheld(in) \in {Wait, Take, AskPeer}
  BY DEF EvaluateUnheld, Acquire
<1>2. \/ Evaluate(in) \in {HandOver, Fence, EvaluateUnheld(in)}
      \/ Evaluate(in) = KeepLease /\ Held(in)
  BY DEF Evaluate
<1>3. KeepLease.acquire /\ ~HandOver.run /\ ~Fence.run /\ ~Wait.run /\ ~Take.run /\ ~AskPeer.run
  BY DEF Wait, HandOver, Fence, KeepLease, Take, AskPeer
<1>4. Held(in) /\ Evaluate(in).acquire => Evaluate(in).run
  <2>1. Held(in) => Evaluate(in) \in {HandOver, KeepLease}
    BY DEF Evaluate
  <2>2. ~HandOver.acquire /\ KeepLease.run
    BY DEF Wait, HandOver, KeepLease
  <2> QED
    BY <2>1, <2>2
<1> QED
  BY <1>1, <1>2, <1>3, <1>4 DEF Decision

(* So does the watchdog's decision on the lease view l.                    *)
LEMMA DecideRunsHeld ==
  ASSUME NodeTypeOK, NEW n \in Node, NEW l \in LeaseView, Decide(n, l)
  PROVE  /\ decision' \in [Node -> Decision]
         /\ \A m \in Node \ {n} : decision'[m] = decision[m]
         /\ decision'[n].run => HeldBy(l, n, Now(n)) /\ decision'[n].acquire
         /\ decision'[n].acquire /\ HeldBy(l, n, Now(n)) => decision'[n].run
<1>1. PICK b \in Belief : decision' = [decision EXCEPT ![n] = Evaluate(Input(n, l, b))]
  BY DEF Decide
<1> DEFINE in == Input(n, l, b)
<1>2. in.role \in {"primary", "standby"} /\ in.node = n /\ in.now = 0
      /\ in.lease = [l EXCEPT !.expiresAt = l.expiresAt - Now(n)]
  BY DEF Input
<1>3. /\ Evaluate(in) \in Decision
      /\ Evaluate(in).run => Held(in) /\ Evaluate(in).acquire
      /\ Held(in) /\ Evaluate(in).acquire => Evaluate(in).run
  BY <1>2, EvaluateRunsHeld
<1>4. Held(in) <=> HeldBy(l, n, Now(n))
  BY <1>2 DEF Held, HeldBy, Now, LeaseView, NodeTypeOK
<1>5. decision'[n] = Evaluate(in)
  BY <1>1 DEF NodeTypeOK
<1> QED
  BY <1>1, <1>3, <1>4, <1>5 DEF NodeTypeOK

-----------------------------------------------------------------------------
(* A claim is protected now: the witness would deny everyone else.         *)
LEMMA ClaimProtected ==
  ASSUME ExclusionInv, recall # "stale", NEW m \in Node, Claims(m)
  PROVE  Protected(m, clock)
<1> SeesTruly(m) /\ IntendsSafely(m) /\ RunsSafely(m) /\ Shape(m) /\ Prompt(m)
  BY DEF ExclusionInv, NodeInv, LeaseInv
<1> /\ MaxTick \in Nat /\ MaxRenewDelay \in Nat /\ Skew[m] \in Int /\ tickAt[m] \in Nat
    /\ clock \in Nat /\ expiresAt \in Nat /\ notBefore \in Nat
  BY DEF ExclusionInv, NodeTypeOK, WitnessInv, WitnessTypeOK
<1>1. CASE Sees(m)
  BY <1>1 DEF Sees, SeesTruly, Prompt, HeldBy, Now, Protected
<1>2. CASE Intends(m)
  BY <1>2 DEF Intends, IntendsSafely, Prompt, Protected
<1>3. CASE Runs(m)
  <2>1. wd[m] = "up"
    BY <1>3 DEF Runs, Alive, Shape, ExclusionInv, NodeTypeOK
  <2> QED
    BY <1>3, <2>1 DEF Runs, RunsSafely, Prompt, Protected
<1> QED
  BY <1>1, <1>2, <1>3 DEF Claims

(* So nobody else can take or hold the lease.                              *)
LEMMA ClaimExcludes ==
  ASSUME ExclusionInv, recall # "stale", NEW m \in Node, NEW n \in Node, m # n, Claims(m)
  PROVE  ~Granted(n) /\ holder # n
  BY ClaimProtected DEF Protected, Granted, ExclusionInv, WitnessInv, WitnessTypeOK, BlockIsBlank

(* One call of n to the witness, or none.                                  *)
Calls(n) == Renew(n) \/ Release(n) \/ UNCHANGED witnessVars

LEMMA CallsKeep ==
  ASSUME ExclusionInv, NEW n \in Node, Calls(n)
  PROVE  /\ WitnessInv'
         /\ clock' = clock /\ recall' = recall /\ notBefore' = notBefore
         /\ recall # "stale" => HolderPromised'
<1> WitnessInv /\ WitnessTypeOK
  BY DEF ExclusionInv, WitnessInv
<1>1. WitnessInv'
  BY RenewInv, ReleaseInv, WitnessStutterInv DEF Calls
<1>2. clock' = clock /\ recall' = recall /\ notBefore' = notBefore
  BY DEF Calls, Renew, Grant, Deny, Release, Free, witnessVars, store
<1>3. recall # "stale" => HolderPromised'
  <2> SUFFICES ASSUME recall # "stale" PROVE HolderPromised'
    OBVIOUS
  <2>0. HolderPromised
    BY DEF ExclusionInv
  <2>1. CASE Grant(n)
    BY <2>1 DEF Grant, HolderPromised, WitnessTypeOK
  <2>2. CASE Free(n)
    BY <2>2 DEF Free, HolderPromised
  <2>3. CASE holder # n /\ Release(n) /\ ~Free(n)
    <3>1. holder' = holder /\ expiresAt' = expiresAt /\ promise' = [promise EXCEPT ![n] = 0]
      BY <2>3 DEF Release
    <3>2. holder # NoNode => promise'[holder] = promise[holder]
      BY <2>3, <3>1 DEF WitnessTypeOK, Holder
    <3> QED
      BY <2>0, <3>1, <3>2 DEF HolderPromised
  <2>4. CASE UNCHANGED witnessVars
    BY <2>0, <2>4 DEF witnessVars, store, HolderPromised
  <2> QED
    BY <2>1, <2>2, <2>3, <2>4 DEF Calls, Renew, Deny, Release, Free
<1> QED
  BY <1>1, <1>2, <1>3

(* n's call moves nothing under another node's claim.                      *)
LEMMA ClaimStays ==
  ASSUME ExclusionInv, recall # "stale", NEW m \in Node, NEW n \in Node, m # n,
         Claims(m), Calls(n)
  PROVE  UNCHANGED <<clock, up, holder, expiresAt, notBefore, disk, recall>>
  BY ClaimExcludes DEF Calls, Renew, Grant, Deny, Release, Free, witnessVars, store

Same(m) ==
    /\ wd'[m] = wd[m] /\ pc'[m] = pc[m] /\ tickAt'[m] = tickAt[m]
    /\ lease'[m] = lease[m] /\ decision'[m] = decision[m]
    /\ trader'[m] = trader[m] /\ excuse'[m] = excuse[m]

(* A node keeps its part of the invariant during another node's step.      *)
LEMMA OthersKeep ==
  ASSUME ExclusionInv, NEW m \in Node, NEW n \in Node, m # n, Same(m), Calls(n)
  PROVE  /\ Shape(m)' /\ Prompt(m)'
         /\ Claims(m)' = Claims(m)
         /\ recall # "stale" => SeesTruly(m)' /\ IntendsSafely(m)' /\ RunsSafely(m)'
<1> USE DEF Same
<1>1. clock' = clock
  BY CallsKeep
<1>2. Shape(m)' /\ Prompt(m)'
  BY <1>1 DEF ExclusionInv, NodeInv, Shape, Prompt, HeldBy, Now
<1>3. /\ Sees(m)' = Sees(m) /\ Intends(m)' = Intends(m) /\ Runs(m)' = Runs(m)
  BY DEF Sees, Intends, Runs, Alive, HeldBy, Now
<1>4. Claims(m)' = Claims(m)
  BY <1>3 DEF Claims
<1>5. ASSUME recall # "stale"
      PROVE  SeesTruly(m)' /\ IntendsSafely(m)' /\ RunsSafely(m)'
  <2>1. CASE ~Claims(m)
    BY <1>3, <2>1 DEF Claims, SeesTruly, IntendsSafely, RunsSafely
  <2>2. CASE Claims(m)
    <3>1. UNCHANGED <<holder, expiresAt, notBefore>>
      BY <1>5, <2>2, ClaimStays
    <3> QED
      BY <1>3, <1>5, <3>1 DEF ExclusionInv, LeaseInv, SeesTruly, IntendsSafely, RunsSafely, Protected
  <2> QED
    BY <2>1, <2>2
<1> QED
  BY <1>2, <1>4, <1>5

(***************************************************************************)
(* What is left to show of a step of n: that n keeps its own part, and     *)
(* makes no claim but on a lease the witness gives or has given it.        *)
(***************************************************************************)
LEMMA OneMoves ==
  ASSUME ExclusionInv, NEW n \in Node, Calls(n), \A m \in Node \ {n} : Same(m),
         NodeTypeOK', Shape(n)', Prompt(n)',
         recall # "stale" =>
             /\ SeesTruly(n)' /\ IntendsSafely(n)' /\ RunsSafely(n)'
             /\ Claims(n)' => Claims(n) \/ holder = n \/ Granted(n)
  PROVE  ExclusionInv'
<1>1. WitnessInv' /\ recall' = recall /\ (recall # "stale" => HolderPromised')
  BY CallsKeep
<1>2. NodeInv'
  BY OthersKeep DEF NodeInv
<1>3. recall # "stale" => LeaseInv'
  BY OthersKeep DEF LeaseInv
<1>4. ASSUME recall # "stale" PROVE OneClaim'
  <2>1. \A m \in Node \ {n} : Claims(m)' = Claims(m)
    BY OthersKeep
  <2>2. \A m \in Node \ {n} : Claims(m) => ~Claims(n)'
    BY <1>4, ClaimExcludes DEF ExclusionInv, OneClaim
  <2> QED
    BY <1>4, <2>1, <2>2 DEF ExclusionInv, OneClaim
<1> QED
  BY <1>1, <1>2, <1>3, <1>4 DEF ExclusionInv

-----------------------------------------------------------------------------
(* The steps of a tick.                                                    *)
LEMMA BeginTickInv ==
  ASSUME ExclusionInv, NEW n \in Node, BeginTick(n)
  PROVE  ExclusionInv'
<1> USE DEF BeginTick, At, Goto
<1>1. NodeTypeOK /\ Shape(n) /\ Prompt(n) /\ clock \in Nat
  BY DEF ExclusionInv, NodeInv, WitnessInv, WitnessTypeOK
<1>2. /\ wd[n] = "up" /\ pc[n] = "idle" /\ pc'[n] = "status" /\ tickAt'[n] = clock
      /\ UNCHANGED <<clock, up, holder, expiresAt, notBefore, recall, wd, lease, decision, trader, excuse>>
  BY <1>1 DEF NodeTypeOK, witnessVars, store
<1>3. Calls(n) /\ \A m \in Node \ {n} : Same(m)
  BY <1>1 DEF Calls, Same, NodeTypeOK
<1>4. NodeTypeOK'
  BY <1>1 DEF NodeTypeOK, PC
<1>5. Shape(n)' /\ Prompt(n)'
  BY <1>1, <1>2 DEF Shape, Prompt, NodeTypeOK
<1>6. ~Sees(n)' /\ ~Intends(n)' /\ Runs(n)' = Runs(n)
  BY <1>2 DEF Sees, Intends, Runs, Alive
<1>7. recall # "stale" => RunsSafely(n)'
  <2> SUFFICES ASSUME recall # "stale", Runs(n)
               PROVE  Protected(n, tickAt[n] + MaxTick)'
    BY <1>2, <1>6 DEF RunsSafely
  <2>1. Protected(n, tickAt[n] + 2 * MaxTick)
    BY <1>2 DEF ExclusionInv, LeaseInv, RunsSafely
  <2>2. clock <= tickAt[n] + MaxTick
    BY <1>1, <1>2 DEF Prompt, Runs
  <2>3. /\ expiresAt \in Nat /\ notBefore \in Nat /\ tickAt[n] \in Nat
    BY <1>1 DEF ExclusionInv, WitnessInv, WitnessTypeOK, NodeTypeOK
  <2> QED
    BY <1>1, <1>2, <2>1, <2>2, <2>3 DEF Protected
<1> QED
  BY <1>3, <1>4, <1>5, <1>6, <1>7, OneMoves DEF SeesTruly, IntendsSafely, Claims

LEMMA ReadStatusInv ==
  ASSUME ExclusionInv, NEW n \in Node, ReadStatus(n)
  PROVE  ExclusionInv'
<1> USE DEF ReadStatus, StatusView, At, Goto
<1>1. /\ NodeTypeOK /\ WitnessTypeOK /\ Shape(n) /\ Prompt(n)
  BY DEF ExclusionInv, NodeInv, WitnessInv
<1>2. /\ wd[n] = "up" /\ pc[n] = "status"
      /\ UNCHANGED <<clock, up, holder, expiresAt, notBefore, recall, wd, tickAt, trader, excuse>>
  BY DEF witnessVars, store
<1>3. /\ lease' \in [Node -> LeaseView]
      /\ \A m \in Node \ {n} : lease'[m] = lease[m]
      /\ HeldBy(lease'[n], n, Now(n)) => holder = n /\ expiresAt = lease'[n].expiresAt
  BY <1>1 DEF NodeTypeOK, WitnessTypeOK, LeaseView, HeldBy, NoLease, Holder
<1>4. /\ decision' \in [Node -> Decision] /\ pc' \in [Node -> PC]
      /\ \A m \in Node \ {n} : decision'[m] = decision[m] /\ pc'[m] = pc[m]
      /\ \/ /\ pc'[n] \in {"renew", "apply"}
            /\ decision'[n].run => HeldBy(lease'[n], n, Now(n)) /\ decision'[n].acquire
            /\ pc'[n] = "apply" => ~decision'[n].acquire
         \/ pc'[n] = "giveup" /\ trader[n] = "none"
  <2>1. CASE DecideAndGo(n, lease'[n])
    <3>1. Decide(n, lease'[n]) /\ lease'[n] \in LeaseView
      BY <1>3, <2>1 DEF DecideAndGo
    <3> QED
      BY <1>1, <2>1, <3>1, DecideRunsHeld DEF DecideAndGo, NodeTypeOK, PC
  <2>2. CASE ~DecideAndGo(n, lease'[n])
    BY <1>1, <2>2 DEF NodeTypeOK, PC
  <2> QED
    BY <2>1, <2>2
<1>5. Calls(n) /\ \A m \in Node \ {n} : Same(m)
  BY <1>3, <1>4 DEF Calls, Same
<1>6. NodeTypeOK'
  BY <1>1, <1>3, <1>4 DEF NodeTypeOK
<1>7. Shape(n)' /\ Prompt(n)'
  BY <1>1, <1>2, <1>4 DEF Shape, Prompt, Now
<1>8. /\ SeesTruly(n)' /\ IntendsSafely(n)'
      /\ Runs(n)' = Runs(n) /\ ~Intends(n)'
      /\ Sees(n)' => holder = n
  BY <1>2, <1>3, <1>4 DEF SeesTruly, Sees, IntendsSafely, Intends, Runs, Alive, Now
<1>9. recall # "stale" => RunsSafely(n)'
  BY <1>2, <1>4, <1>8 DEF ExclusionInv, LeaseInv, RunsSafely, Protected
<1> QED
  BY <1>5, <1>6, <1>7, <1>8, <1>9, OneMoves DEF Claims

LEMMA GiveUpLeaseInv ==
  ASSUME ExclusionInv, NEW n \in Node, GiveUpLease(n)
  PROVE  ExclusionInv'
<1> USE DEF GiveUpLease, At, Goto
<1>1. /\ NodeTypeOK /\ WitnessTypeOK /\ Shape(n) /\ Prompt(n)
  BY DEF ExclusionInv, NodeInv, WitnessInv
<1>2. /\ wd[n] = "up" /\ pc[n] = "giveup" /\ trader[n] = "none"
      /\ UNCHANGED <<wd, tickAt, trader>>
  BY <1>1 DEF Shape
<1>3. Calls(n)
  BY DEF Calls, Fails
<1>4. clock' = clock /\ recall' = recall /\ notBefore' = notBefore
  BY <1>3, CallsKeep
<1>5. lease'[n] = Freed \/ lease' = lease
  BY <1>1 DEF NodeTypeOK
<1>6. /\ lease' \in [Node -> LeaseView] /\ excuse' \in [Node -> 0 .. 2]
      /\ \A m \in Node \ {n} : lease'[m] = lease[m] /\ excuse'[m] = excuse[m]
      /\ excuse'[n] \in {excuse[n], 2}
  <2>1. /\ lease' \in {lease, [lease EXCEPT ![n] = Freed]}
        /\ excuse' \in {excuse, [excuse EXCEPT ![n] = 2]}
    OBVIOUS
  <2>2. Freed \in LeaseView
    BY DEF LeaseView, Freed, NoLease, Holder
  <2> QED
    BY <1>1, <2>1, <2>2 DEF NodeTypeOK
<1>7. /\ decision' \in [Node -> Decision] /\ pc' \in [Node -> PC]
      /\ \A m \in Node \ {n} : decision'[m] = decision[m] /\ pc'[m] = pc[m]
      /\ pc'[n] \in {"renew", "apply"}
      /\ decision'[n].run => HeldBy(lease'[n], n, Now(n)) /\ decision'[n].acquire
      /\ pc'[n] = "renew" /\ HeldBy(lease'[n], n, Now(n)) => decision'[n].run
      /\ pc'[n] = "apply" => ~decision'[n].acquire
  <2>1. Decide(n, lease'[n]) /\ lease'[n] \in LeaseView
    BY <1>6 DEF DecideAndGo
  <2> QED
    BY <1>1, <2>1, DecideRunsHeld DEF DecideAndGo, NodeTypeOK, PC
<1>8. \A m \in Node \ {n} : Same(m)
  BY <1>2, <1>6, <1>7 DEF Same
<1>9. NodeTypeOK'
  BY <1>1, <1>2, <1>6, <1>7 DEF NodeTypeOK
<1>10. Shape(n)' /\ Prompt(n)'
  BY <1>1, <1>2, <1>4, <1>6, <1>7 DEF Shape, Prompt, Now, NodeTypeOK
<1>11. ~Intends(n)' /\ ~Runs(n)'
  BY <1>2, <1>7 DEF Intends, Runs, Alive
<1>12. Sees(n)' => Sees(n) /\ lease' = lease /\ promise'[n] = promise[n]
  <2> SUFFICES ASSUME Sees(n)' PROVE Sees(n) /\ lease' = lease /\ promise'[n] = promise[n]
    OBVIOUS
  <2>1. lease' = lease /\ decision'[n].run /\ Sees(n)
    BY <1>1, <1>2, <1>5, <1>6, <1>7 DEF Sees, HeldBy, Freed, NoLease, Now, NodeTypeOK
  <2>2. ~RunsReleased(n)
    BY <1>1, <1>6 DEF Sees, NodeTypeOK
  <2> QED
    BY <2>1, <2>2 DEF RunsReleased
<1>13. recall # "stale" => SeesTruly(n)'
  <2> SUFFICES ASSUME recall # "stale", Sees(n)'
               PROVE  \/ holder' = n /\ expiresAt' = lease'[n].expiresAt
                      \/ notBefore' > tickAt'[n] + 2 * MaxTick
    BY DEF SeesTruly
  <2>1. \/ holder = n /\ expiresAt = lease[n].expiresAt
        \/ notBefore > tickAt[n] + 2 * MaxTick
    BY <1>12 DEF ExclusionInv, LeaseInv, SeesTruly
  <2>2. CASE holder = n /\ expiresAt = lease[n].expiresAt
    <3>1. promise[n] > 0
      BY <2>2 DEF ExclusionInv, HolderPromised
    <3>2. ~Release(n)
      BY <1>1, <1>12, <3>1 DEF Release, Free, WitnessTypeOK
    <3> QED
      BY <1>12, <2>2, <3>2 DEF Fails, witnessVars, store
  <2>3. CASE notBefore > tickAt[n] + 2 * MaxTick
    BY <1>2, <1>4, <2>3
  <2> QED
    BY <2>1, <2>2, <2>3
<1> QED
  BY <1>3, <1>8, <1>9, <1>10, <1>11, <1>12, <1>13, OneMoves
     DEF Claims, IntendsSafely, RunsSafely

(* n's own renew prolongs its protection or leaves it as it is; a granted  *)
(* one is answered with n as the holder.                                   *)
LEMMA RenewProtects ==
  ASSUME WitnessInv, NEW n \in Node, Renew(n)
  PROVE  /\ holder' = n => expiresAt' = clock + TTL
         /\ \A d \in Int : d < clock + TTL /\ Protected(n, d) =>
               (holder' = n /\ expiresAt' + Grace > d) \/ notBefore' > d
<1> WitnessTypeOK /\ BlockIsBlank
  BY DEF WitnessInv
<1>1. CASE Grant(n)
  BY <1>1 DEF Grant, WitnessTypeOK, Protected
<1>2. CASE Deny(n)
  BY <1>2 DEF Deny, Granted, witnessVars, store, WitnessTypeOK, BlockIsBlank, Protected
<1> QED
  BY <1>1, <1>2 DEF Renew

LEMMA RenewLeaseInv ==
  ASSUME ExclusionInv, NEW n \in Node, RenewLease(n)
  PROVE  ExclusionInv'
<1> USE DEF At, Goto
<1>1. /\ NodeTypeOK /\ WitnessTypeOK /\ Shape(n) /\ Prompt(n) /\ WitnessInv
  BY DEF ExclusionInv, NodeInv, WitnessInv
<1>2. /\ wd[n] = "up" /\ pc[n] = "renew" /\ pc'[n] = "apply"
      /\ UNCHANGED <<wd, tickAt, trader>>
      /\ decision[n].run => HeldBy(lease[n], n, Now(n))
  BY <1>1 DEF RenewLease, Shape, NodeTypeOK
<1>3. Calls(n) /\ (Renew(n) \/ UNCHANGED witnessVars)
  BY DEF RenewLease, Calls, Fails
<1>4. clock' = clock /\ recall' = recall /\ notBefore' = notBefore
      /\ WitnessTypeOK' /\ (recall # "stale" => HolderPromised')
  BY <1>3, CallsKeep DEF WitnessInv
<1>5. /\ lease' \in [Node -> LeaseView] /\ excuse' \in [Node -> 0 .. 2]
      /\ \A m \in Node \ {n} : lease'[m] = lease[m] /\ excuse'[m] = excuse[m]
      /\ excuse'[n] \in {excuse[n], 2}
  <2>1. /\ \E l \in LeaseView : lease' = [lease EXCEPT ![n] = l]
        /\ excuse' \in {excuse, [excuse EXCEPT ![n] = 2]}
    BY <1>4 DEF RenewLease, LeaseView, NoLease, Holder, WitnessTypeOK
  <2> QED
    BY <1>1, <2>1 DEF NodeTypeOK
<1>6. /\ decision' \in [Node -> Decision]
      /\ \A m \in Node \ {n} : decision'[m] = decision[m]
  BY <1>1, <1>5, DecideRunsHeld DEF RenewLease, NodeTypeOK
<1>7. \A m \in Node \ {n} : Same(m)
  BY <1>1, <1>2, <1>5, <1>6 DEF RenewLease, Same, NodeTypeOK
<1>8. NodeTypeOK'
  BY <1>1, <1>2, <1>5, <1>6 DEF RenewLease, NodeTypeOK, PC
<1>9. Shape(n)' /\ Prompt(n)'
  BY <1>1, <1>2, <1>4, <1>5 DEF Shape, Prompt, NodeTypeOK
<1>10. ~Sees(n)' /\ (Runs(n)' => Runs(n))
  BY <1>1, <1>2, <1>5 DEF Sees, Runs, Alive, NodeTypeOK
<1>11. /\ tickAt[n] <= clock /\ tickAt[n] \in Nat /\ clock \in Nat
       /\ 2 * MaxTick < TTL /\ MaxTick \in Nat /\ TTL \in Nat
  BY <1>1 DEF Shape, NodeTypeOK, WitnessTypeOK
<1>12. recall # "stale" => RunsSafely(n)'
  <2> SUFFICES ASSUME recall # "stale", Runs(n)
               PROVE  Protected(n, tickAt[n] + MaxTick)'
    BY <1>2, <1>10 DEF RunsSafely
  <2>1. Protected(n, tickAt[n] + MaxTick)
    BY DEF ExclusionInv, LeaseInv, RunsSafely
  <2>2. CASE Renew(n)
    <3>1. tickAt[n] + MaxTick \in Int /\ tickAt[n] + MaxTick < clock + TTL
      BY <1>11
    <3> QED
      BY <1>1, <1>2, <2>1, <2>2, <3>1, RenewProtects DEF Protected
  <2>3. CASE UNCHANGED witnessVars
    BY <1>2, <2>1, <2>3 DEF witnessVars, store, Protected
  <2> QED
    BY <1>3, <2>2, <2>3
<1>13. ASSUME recall # "stale", Intends(n)'
       PROVE  /\ Protected(n, tickAt[n] + 2 * MaxTick)'
              /\ Claims(n) \/ holder = n \/ Granted(n)
  <2> DEFINE D == tickAt[n] + 2 * MaxTick
  <2>1. decision'[n].run /\ excuse'[n] < 2 /\ excuse[n] < 2
    BY <1>1, <1>5, <1>13 DEF Intends, NodeTypeOK
  <2>2. ASSUME Grant(n)
        PROVE  holder' = n /\ expiresAt' + Grace > D /\ Granted(n)
    BY <1>11, <2>2 DEF Grant
  <2>3. ASSUME decision[n].run
        PROVE  Sees(n) /\ (holder = n \/ notBefore > D)
    BY <1>2, <1>13, <2>1, <2>3 DEF Sees, SeesTruly, ExclusionInv, LeaseInv
  <2>4. CASE Renew(n) /\ Online(n)
    <3>1. holder' = n \/ decision' = decision
      BY <2>4 DEF RenewLease, Fails
    <3>2. holder' = n => Grant(n)
      <4>1. BlockIsBlank /\ clock \in Nat /\ notBefore \in Nat
        BY <1>1 DEF WitnessInv, WitnessTypeOK
      <4>2. holder = n => Granted(n)
        BY <4>1 DEF Granted, BlockIsBlank
      <4>3. Deny(n) => ~Granted(n) /\ holder' = holder
        BY DEF Deny, witnessVars, store
      <4> QED
        BY <2>4, <4>2, <4>3 DEF Renew
    <3>3. holder = n => holder' = n
      BY <2>4 DEF Renew, Grant, Deny, witnessVars, store
    <3> QED
      BY <1>2, <1>4, <2>1, <2>2, <2>3, <3>1, <3>2, <3>3 DEF Protected, Claims
  <2>5. CASE Fails(n, Renew(n))
    <3>1. decision' = decision /\ ~RunsUnrenewed(n)
      <4>1. ~Online(n)
        BY <2>5 DEF Fails
      <4> QED
        BY <1>1, <2>1, <4>1 DEF RenewLease, NodeTypeOK
    <3>2. clock <= promise'[n] - TTL + MaxRenewGap
      BY <1>1, <1>4, <2>1, <3>1 DEF RunsUnrenewed, WitnessTypeOK
    <3>3. Sees(n) /\ (holder = n \/ notBefore > D)
      BY <2>1, <2>3, <3>1
    <3>4. CASE UNCHANGED witnessVars /\ holder = n
      <4>1. expiresAt = promise[n]
        BY <1>13, <3>4 DEF ExclusionInv, HolderPromised
      <4>2. expiresAt + Grace > D
        BY <1>1, <1>11, <3>2, <3>4, <4>1 DEF witnessVars, store, WitnessTypeOK
      <4> QED
        BY <1>2, <3>3, <3>4, <4>2 DEF witnessVars, store, Protected, Claims
    <3> QED
      BY <1>2, <1>4, <2>2, <2>5, <3>3, <3>4 DEF Fails, Renew, Deny, Protected, Claims
  <2> QED
    BY <2>4, <2>5 DEF RenewLease
<1> QED
  BY <1>2, <1>3, <1>7, <1>8, <1>9, <1>10, <1>12, <1>13, OneMoves
     DEF Claims, SeesTruly, IntendsSafely, Protected

(***************************************************************************)
(* Most steps only give claims up: n keeps its part of the invariant when  *)
(* it ends without a claim, or without the witness having been asked and   *)
(* with no claim that it did not have.                                     *)
(***************************************************************************)
LEMMA ClaimlessMove ==
  ASSUME ExclusionInv, NEW n \in Node, Calls(n), \A m \in Node \ {n} : Same(m),
         NodeTypeOK', Shape(n)', Prompt(n)', ~Claims(n)'
  PROVE  ExclusionInv'
  BY OneMoves DEF Claims, SeesTruly, IntendsSafely, RunsSafely

LEMMA QuietMove ==
  ASSUME ExclusionInv, NEW n \in Node, UNCHANGED witnessVars, \A m \in Node \ {n} : Same(m),
         NodeTypeOK', Shape(n)', Prompt(n)', tickAt'[n] = tickAt[n],
         Sees(n)' => Sees(n) /\ lease'[n] = lease[n],
         Intends(n)' => Intends(n),
         Runs(n)' => \/ Intends(n)
                     \/ Runs(n) /\ (pc'[n] = "idle" => pc[n] = "idle")
  PROVE  ExclusionInv'
<1>1. Calls(n) /\ UNCHANGED <<clock, up, holder, expiresAt, notBefore, recall>>
  BY DEF Calls, witnessVars, store
<1>2. Claims(n)' => Claims(n)
  BY DEF Claims
<1>3. /\ tickAt[n] \in Nat /\ expiresAt \in Nat /\ notBefore \in Nat /\ MaxTick \in Nat
  BY DEF ExclusionInv, NodeTypeOK, WitnessInv, WitnessTypeOK
<1>4. recall # "stale" => SeesTruly(n)' /\ IntendsSafely(n)'
  BY <1>1 DEF ExclusionInv, LeaseInv, SeesTruly, IntendsSafely, Protected
<1>5. recall # "stale" => RunsSafely(n)'
  <2> SUFFICES ASSUME recall # "stale", Runs(n)'
               PROVE  /\ Protected(n, tickAt[n] + MaxTick)
                      /\ pc'[n] = "idle" => Protected(n, tickAt[n] + 2 * MaxTick)
    BY <1>1 DEF RunsSafely, Protected
  <2> QED
    BY <1>3 DEF ExclusionInv, LeaseInv, IntendsSafely, RunsSafely, Protected
<1> QED
  BY <1>1, <1>2, <1>4, <1>5, OneMoves

LEMMA SignalTraderInv ==
  ASSUME ExclusionInv, NEW n \in Node, SignalTrader(n)
  PROVE  ExclusionInv'
<1> USE DEF SignalTrader, At, Goto
<1>1. NodeTypeOK /\ Shape(n) /\ Prompt(n)
  BY DEF ExclusionInv, NodeInv
<1>2. NodeTypeOK' /\ \A m \in Node \ {n} : Same(m)
  BY <1>1 DEF NodeTypeOK, PC, Same
<1>3. Shape(n)' /\ Prompt(n)'
  BY <1>1 DEF Shape, Prompt, NodeTypeOK, witnessVars
<1>4. ~Sees(n)' /\ ~Intends(n)' /\ (Runs(n)' => Runs(n)) /\ pc'[n] # "idle"
  BY <1>1 DEF Sees, Intends, Runs, Alive, NodeTypeOK
<1> QED
  BY <1>2, <1>3, <1>4, QuietMove

LEMMA TraderStoppedInv ==
  ASSUME ExclusionInv, NEW n \in Node, TraderStopped(n)
  PROVE  ExclusionInv'
<1> USE DEF TraderStopped, Goto
<1>1. NodeTypeOK /\ Shape(n) /\ Prompt(n)
  BY DEF ExclusionInv, NodeInv
<1>2. NodeTypeOK' /\ \A m \in Node \ {n} : Same(m)
  BY <1>1 DEF NodeTypeOK, PC, Same
<1>3. Shape(n)' /\ Prompt(n)'
  BY <1>1 DEF Shape, Prompt, NodeTypeOK, witnessVars
<1>4. ~Sees(n)' /\ ~Intends(n)' /\ ~Runs(n)'
  BY <1>1 DEF Sees, Intends, Runs, Alive, NodeTypeOK, Shape
<1> QED
  BY <1>2, <1>3, <1>4, QuietMove

(* A completed tick takes one tick off the excuse.                         *)
LEMMA ExcuseShrinks ==
  ASSUME NodeTypeOK, NEW n \in Node, EndTick(n)
  PROVE  /\ excuse' \in [Node -> 0 .. 2]
         /\ \A m \in Node \ {n} : excuse'[m] = excuse[m]
         /\ excuse'[n] = IF excuse[n] = 0 THEN 0 ELSE excuse[n] - 1
  BY DEF EndTick, NodeTypeOK, Max0

LEMMA ApplyHandOverInv ==
  ASSUME ExclusionInv, NEW n \in Node, ApplyHandOver(n)
  PROVE  ExclusionInv'
<1> USE DEF ApplyHandOver, At, Goto, EndTick
<1>1. NodeTypeOK /\ Shape(n) /\ Prompt(n)
  BY DEF ExclusionInv, NodeInv
<1>2. Calls(n)
  BY DEF Calls, Fails
<1>3. clock' = clock
  BY <1>2, CallsKeep
<1>4. lease' \in {lease, [lease EXCEPT ![n] = Freed]}
  OBVIOUS
<1>5. /\ lease' \in [Node -> LeaseView] /\ excuse' \in [Node -> 0 .. 2]
      /\ \A m \in Node \ {n} : lease'[m] = lease[m] /\ excuse'[m] = excuse[m]
      /\ excuse'[n] = IF excuse[n] = 0 THEN 0 ELSE excuse[n] - 1
  <2>1. Freed \in LeaseView
    BY DEF Freed, NoLease, LeaseView, Holder
  <2> HIDE DEF ApplyHandOver, EndTick
  <2>2. \E l \in LeaseView : lease' = lease \/ lease' = [lease EXCEPT ![n] = l]
    BY <1>4, <2>1
  <2>3. /\ lease' \in [Node -> LeaseView]
        /\ \A m \in Node \ {n} : lease'[m] = lease[m]
    BY <1>1, <2>2 DEF NodeTypeOK
  <2>4. EndTick(n)
    BY DEF ApplyHandOver
  <2> QED
    BY <1>1, <2>3, <2>4, ExcuseShrinks
<1>6. NodeTypeOK' /\ \A m \in Node \ {n} : Same(m)
  BY <1>1, <1>5 DEF NodeTypeOK, PC, Same, Decision
<1>7. wd' = wd /\ tickAt' = tickAt /\ trader' = trader /\ trader[n] = "none" /\ pc'[n] = "idle"
  BY <1>1 DEF NodeTypeOK
<1>8. Shape(n)' /\ Prompt(n)'
  BY <1>1, <1>3, <1>5, <1>7 DEF Shape, Prompt, NodeTypeOK
<1>9. ~Claims(n)'
  BY <1>7 DEF Claims, Sees, Intends, Runs, Alive
<1> QED
  BY <1>2, <1>6, <1>8, <1>9, ClaimlessMove

LEMMA ApplyRunInv ==
  ASSUME ExclusionInv, NEW n \in Node, ApplyRun(n)
  PROVE  ExclusionInv'
<1> USE DEF ApplyRun, At, Goto, EndTick
<1>1. NodeTypeOK /\ Shape(n) /\ Prompt(n)
  BY DEF ExclusionInv, NodeInv
<1>2. /\ excuse' \in [Node -> 0 .. 2]
      /\ \A m \in Node \ {n} : excuse'[m] = excuse[m]
      /\ excuse'[n] = IF excuse[n] = 0 THEN 0 ELSE excuse[n] - 1
  BY <1>1, ExcuseShrinks
<1>3. /\ trader' \in [Node -> {"none", "run", "stop"}]
      /\ \A m \in Node \ {n} : trader'[m] = trader[m]
      /\ trader'[n] = "none" \/ decision[n].run
      /\ trader'[n] \in {trader[n], "run"}
  BY <1>1 DEF NodeTypeOK
<1>4. NodeTypeOK' /\ \A m \in Node \ {n} : Same(m)
  BY <1>1, <1>2, <1>3 DEF NodeTypeOK, PC, Same, Decision
<1>5. UNCHANGED <<clock, wd, tickAt, lease>> /\ wd[n] = "up" /\ pc[n] = "apply" /\ pc'[n] = "idle"
  BY <1>1 DEF NodeTypeOK, witnessVars
<1>6. Shape(n)' /\ Prompt(n)'
  BY <1>1, <1>2, <1>3, <1>5 DEF Shape, Prompt, NodeTypeOK
<1>7. ~Sees(n)' /\ ~Intends(n)' /\ (Runs(n)' => Intends(n))
  BY <1>1, <1>2, <1>3, <1>5 DEF Sees, Intends, Runs, Alive, NodeTypeOK
<1> QED
  BY <1>4, <1>5, <1>6, <1>7, QuietMove

LEMMA QuitInv ==
  ASSUME ExclusionInv, NEW n \in Node, Quit(n)
  PROVE  ExclusionInv'
<1> USE DEF At, Goto
<1>1. NodeTypeOK /\ Shape(n) /\ Prompt(n)
  BY DEF ExclusionInv, NodeInv
<1>2. Calls(n)
  BY DEF Quit, Calls, Fails
<1>3. clock' = clock
  BY <1>2, CallsKeep
<1>4. NoLease \in LeaseView /\ Wait \in Decision
  BY DEF NoLease, LeaseView, Holder, Decision
<1>5. NodeTypeOK' /\ \A m \in Node \ {n} : Same(m)
  BY <1>1, <1>4 DEF Quit, NodeTypeOK, PC, Same
<1>6. wd'[n] = "down" /\ pc'[n] = "idle" /\ UNCHANGED <<tickAt, trader>> /\ trader[n] = "none"
  BY <1>1 DEF Quit, NodeTypeOK
<1>7. Shape(n)' /\ Prompt(n)'
  BY <1>1, <1>3, <1>6 DEF Shape, Prompt
<1>8. ~Claims(n)'
  BY <1>6 DEF Claims, Sees, Intends, Runs, Alive
<1> QED
  BY <1>2, <1>5, <1>7, <1>8, ClaimlessMove

(* Between two ticks a protected trader is protected long enough to stop.  *)
LEMMA ShutdownInv ==
  ASSUME ExclusionInv, NEW n \in Node, Shutdown(n)
  PROVE  ExclusionInv'
<1> USE DEF Shutdown, At, Goto
<1>1. NodeTypeOK /\ Shape(n) /\ Prompt(n) /\ clock \in Nat
  BY DEF ExclusionInv, NodeInv, WitnessInv, WitnessTypeOK
<1>2. /\ wd[n] = "up" /\ pc[n] = "idle" /\ pc'[n] = "quit" /\ tickAt'[n] = clock
      /\ UNCHANGED <<clock, up, holder, expiresAt, notBefore, recall, wd, lease, excuse>>
      /\ trader'[n] \in {"none", "stop"} /\ (trader'[n] = "none" => trader[n] = "none")
  BY <1>1 DEF NodeTypeOK, witnessVars, store
<1>3. Calls(n)
  BY DEF Calls
<1>4. NodeTypeOK' /\ \A m \in Node \ {n} : Same(m)
  BY <1>1 DEF NodeTypeOK, PC, Same, Decision
<1>5. Shape(n)' /\ Prompt(n)'
  BY <1>1, <1>2 DEF Shape, Prompt, NodeTypeOK
<1>6. ~Sees(n)' /\ ~Intends(n)' /\ (Runs(n)' => Runs(n))
  BY <1>2, <1>1 DEF Sees, Intends, Runs, Alive, NodeTypeOK, Shape
<1>7. recall # "stale" => RunsSafely(n)'
  <2> SUFFICES ASSUME recall # "stale", Runs(n)
               PROVE  Protected(n, tickAt[n] + MaxTick)'
    BY <1>2, <1>6 DEF RunsSafely
  <2>1. Protected(n, tickAt[n] + 2 * MaxTick)
    BY <1>2 DEF ExclusionInv, LeaseInv, RunsSafely
  <2>2. clock <= tickAt[n] + MaxTick
    BY <1>1, <1>2 DEF Prompt, Runs
  <2>3. expiresAt \in Nat /\ notBefore \in Nat /\ tickAt[n] \in Nat
    BY <1>1 DEF ExclusionInv, WitnessInv, WitnessTypeOK, NodeTypeOK
  <2> QED
    BY <1>1, <1>2, <2>1, <2>2, <2>3 DEF Protected
<1> QED
  BY <1>3, <1>4, <1>5, <1>6, <1>7, OneMoves DEF SeesTruly, IntendsSafely, Claims

-----------------------------------------------------------------------------
(* The steps of a node's environment.                                      *)
LEMMA TraderExitsInv ==
  ASSUME ExclusionInv, NEW n \in Node, TraderExits(n)
  PROVE  ExclusionInv'
<1> USE DEF TraderExits
<1>1. NodeTypeOK /\ Shape(n) /\ Prompt(n)
  BY DEF ExclusionInv, NodeInv
<1>2. NodeTypeOK' /\ \A m \in Node \ {n} : Same(m)
  BY <1>1 DEF NodeTypeOK, Same
<1>3. trader'[n] = "none" /\ UNCHANGED <<clock, wd, pc, tickAt, lease, decision, excuse>>
  BY <1>1 DEF NodeTypeOK, witnessVars
<1>4. Shape(n)' /\ Prompt(n)'
  BY <1>1, <1>3 DEF Shape, Prompt, HeldBy, Now
<1>5. Sees(n)' = Sees(n) /\ Intends(n)' = Intends(n) /\ ~Runs(n)'
  BY <1>3 DEF Sees, Intends, Runs, Alive, HeldBy, Now
<1> QED
  BY <1>2, <1>3, <1>4, <1>5, QuietMove

LEMMA OrphanExitsInv ==
  ASSUME ExclusionInv, NEW n \in Node, OrphanExits(n)
  PROVE  ExclusionInv'
<1> USE DEF OrphanExits
<1>1. NodeTypeOK /\ Shape(n) /\ Prompt(n)
  BY DEF ExclusionInv, NodeInv
<1>2. NodeTypeOK' /\ \A m \in Node : Same(m)
  BY <1>1 DEF NodeTypeOK, Same
<1>3. UNCHANGED <<clock, wd, pc, tickAt, lease, decision, trader, excuse>>
  BY DEF witnessVars
<1>4. Shape(n)' /\ Prompt(n)'
  BY <1>1, <1>3 DEF Shape, Prompt, HeldBy, Now
<1>5. Sees(n)' = Sees(n) /\ Intends(n)' = Intends(n) /\ Runs(n)' = Runs(n)
  BY <1>3 DEF Sees, Intends, Runs, Alive, HeldBy, Now
<1> QED
  BY <1>2, <1>3, <1>4, <1>5, QuietMove

LEMMA WatchdogCrashInv ==
  ASSUME ExclusionInv, NEW n \in Node, WatchdogCrash(n)
  PROVE  ExclusionInv'
<1> USE DEF WatchdogCrash, Goto
<1>1. NodeTypeOK /\ Shape(n) /\ Prompt(n)
  BY DEF ExclusionInv, NodeInv
<1>2. NoLease \in LeaseView /\ Wait \in Decision
  BY DEF NoLease, LeaseView, Holder, Decision
<1>3. NodeTypeOK' /\ \A m \in Node \ {n} : Same(m)
  BY <1>1, <1>2 DEF NodeTypeOK, PC, Same
<1>4. /\ wd'[n] = "down" /\ pc'[n] = "idle" /\ trader'[n] = "none"
      /\ UNCHANGED <<clock, tickAt, excuse>>
  BY <1>1 DEF NodeTypeOK, witnessVars
<1>5. Shape(n)' /\ Prompt(n)'
  BY <1>1, <1>4 DEF Shape, Prompt
<1>6. ~Claims(n)' /\ Calls(n)
  BY <1>4 DEF Claims, Sees, Intends, Runs, Alive, Calls
<1> QED
  BY <1>3, <1>5, <1>6, ClaimlessMove

LEMMA WatchdogStartInv ==
  ASSUME ExclusionInv, NEW n \in Node, WatchdogStart(n)
  PROVE  ExclusionInv'
<1> USE DEF WatchdogStart
<1>1. NodeTypeOK /\ Shape(n) /\ Prompt(n) /\ clock \in Nat
  BY DEF ExclusionInv, NodeInv, WitnessInv, WitnessTypeOK
<1>2. NodeTypeOK' /\ \A m \in Node \ {n} : Same(m)
  BY <1>1 DEF NodeTypeOK, Same
<1>3. /\ wd'[n] = "up" /\ tickAt'[n] = clock /\ pc[n] = "idle" /\ trader[n] = "none"
      /\ UNCHANGED <<clock, pc, trader, excuse>>
  BY <1>1 DEF NodeTypeOK, witnessVars, Shape
<1>4. Shape(n)' /\ Prompt(n)'
  BY <1>1, <1>3 DEF Shape, Prompt
<1>5. ~Claims(n)' /\ Calls(n)
  BY <1>3 DEF Claims, Sees, Intends, Runs, Alive, Calls
<1> QED
  BY <1>2, <1>4, <1>5, ClaimlessMove

LEMMA SuspendInv ==
  ASSUME ExclusionInv, NEW n \in Node, Suspend(n) \/ Resume(n)
  PROVE  ExclusionInv'
<1> USE DEF Suspend, Resume
<1>1. NodeTypeOK /\ Shape(n) /\ Prompt(n)
  BY DEF ExclusionInv, NodeInv
<1>2. NodeTypeOK' /\ \A m \in Node \ {n} : Same(m)
  BY <1>1 DEF NodeTypeOK, Same
<1>3. /\ wd'[n] \in {"up", "asleep"} /\ excuse'[n] = 2
      /\ UNCHANGED <<clock, pc, tickAt, lease, decision, trader>>
  BY <1>1 DEF NodeTypeOK, witnessVars, Shape
<1>4. Shape(n)' /\ Prompt(n)'
  BY <1>1, <1>3 DEF Shape, Prompt, HeldBy, Now
<1>5. ~Claims(n)' /\ Calls(n)
  BY <1>3 DEF Claims, Sees, Intends, Runs, Calls
<1> QED
  BY <1>2, <1>4, <1>5, ClaimlessMove

-----------------------------------------------------------------------------
(* The steps of the witness's environment.                                 *)
LEMMA WitnessEventKeeps ==
  ASSUME WitnessInv, WitnessFault \/ WitnessRepair
  PROVE  /\ clock' = clock /\ promise' = promise
         /\ recall' # "stale" =>
              /\ recall # "stale"
              /\ \/ UNCHANGED <<holder, expiresAt>> /\ (clock < notBefore => notBefore' = notBefore)
                 \/ holder' = NoNode /\ notBefore' = clock + TTL
<1> WitnessTypeOK /\ BlockIsBlank
  BY DEF WitnessInv
<1>1. CASE WitnessCrash \/ DiskLost \/ DiskFull \/ DiskFreed
  BY <1>1 DEF WitnessCrash, DiskLost, DiskFull, DiskFreed
<1>2. CASE WitnessRestart /\ disk.readable
  BY <1>2 DEF WitnessRestart, BlockIsBlank, WitnessTypeOK
<1>3. CASE WitnessRestart /\ ~disk.readable
  BY <1>3 DEF WitnessRestart, BlockedUntil, WitnessTypeOK, Recall
<1> QED
  BY <1>1, <1>2, <1>3 DEF WitnessFault, WitnessRepair

LEMMA ClaimPrompt ==
  ASSUME ExclusionInv, NEW n \in Node, Claims(n)
  PROVE  /\ clock <= tickAt[n] + MaxTick /\ tickAt[n] <= clock
         /\ tickAt[n] \in Nat /\ clock \in Nat /\ MaxTick \in Nat /\ TTL \in Nat
         /\ expiresAt \in Nat /\ notBefore \in Nat
<1>1. NodeTypeOK /\ Shape(n) /\ Prompt(n) /\ WitnessTypeOK
  BY DEF ExclusionInv, NodeInv, WitnessInv
<1>2. wd[n] = "up" /\ excuse[n] < 2 /\ (pc[n] # "idle" \/ excuse[n] = 0)
  BY <1>1 DEF Claims, Sees, Intends, Runs, Alive, Shape, NodeTypeOK
<1> QED
  BY <1>1, <1>2 DEF Prompt, Shape, NodeTypeOK, WitnessTypeOK

(* A restart either finds every claim's lease in the file, or blocks       *)
(* leases for longer than any claim needs.                                 *)
LEMMA WitnessEventInv ==
  ASSUME ExclusionInv, WitnessFault \/ WitnessRepair, UNCHANGED nodeVars
  PROVE  ExclusionInv'
<1>1. WitnessInv /\ WitnessInv' /\ NodeTypeOK /\ NodeTypeOK'
  BY FaultInv DEF ExclusionInv, NodeTypeOK, nodeVars
<1>2. clock' = clock /\ promise' = promise
  BY <1>1, WitnessEventKeeps
<1>3. NodeInv'
  BY <1>2 DEF ExclusionInv, NodeInv, nodeVars, Shape, Prompt, HeldBy, Now
<1> SUFFICES ASSUME recall' # "stale"
             PROVE  HolderPromised' /\ LeaseInv' /\ OneClaim'
  BY <1>1, <1>3 DEF ExclusionInv
<1>4. /\ recall # "stale"
      /\ \/ UNCHANGED <<holder, expiresAt>> /\ (clock < notBefore => notBefore' = notBefore)
         \/ holder' = NoNode /\ notBefore' = clock + TTL
  BY <1>1, WitnessEventKeeps
<1>5. HolderPromised'
  BY <1>2, <1>4 DEF ExclusionInv, HolderPromised
<1>6. \A n \in Node : /\ Sees(n)' = Sees(n) /\ Intends(n)' = Intends(n) /\ Runs(n)' = Runs(n)
                      /\ Claims(n)' = Claims(n)
  BY DEF nodeVars, Sees, Intends, Runs, Alive, Claims, HeldBy, Now
<1>7. ASSUME NEW n \in Node
      PROVE  SeesTruly(n)' /\ IntendsSafely(n)' /\ RunsSafely(n)'
  <2>1. UNCHANGED nodeVars /\ SeesTruly(n) /\ IntendsSafely(n) /\ RunsSafely(n)
    BY <1>4 DEF ExclusionInv, LeaseInv
  <2>2. CASE ~Claims(n)
    BY <1>6, <2>2 DEF Claims, SeesTruly, IntendsSafely, RunsSafely
  <2>3. CASE Claims(n)
    <3>1. /\ clock <= tickAt[n] + MaxTick /\ tickAt[n] <= clock
          /\ tickAt[n] \in Nat /\ clock \in Nat /\ MaxTick \in Nat /\ TTL \in Nat
          /\ expiresAt \in Nat /\ notBefore \in Nat
      BY <2>3, ClaimPrompt
    <3>2. ASSUME NEW d \in Int, clock <= d, d < clock + TTL, Protected(n, d)
          PROVE  (holder' = n /\ expiresAt' + Grace > d) \/ notBefore' > d
      BY <1>4, <3>1, <3>2 DEF Protected
    <3>3. /\ clock <= tickAt[n] + MaxTick /\ tickAt[n] + MaxTick < clock + TTL
          /\ clock <= tickAt[n] + 2 * MaxTick /\ tickAt[n] + 2 * MaxTick < clock + TTL
          /\ tickAt[n] + MaxTick \in Int /\ tickAt[n] + 2 * MaxTick \in Int
      BY <3>1
    <3>4. SeesTruly(n)'
      BY <1>4, <1>6, <2>1, <3>1, <3>3 DEF SeesTruly, nodeVars
    <3>5. IntendsSafely(n)'
      BY <1>6, <2>1, <3>2, <3>3 DEF IntendsSafely, Protected, nodeVars
    <3>6. RunsSafely(n)'
      BY <1>6, <2>1, <3>2, <3>3 DEF RunsSafely, Protected, nodeVars
    <3> QED
      BY <3>4, <3>5, <3>6
  <2> QED
    BY <2>2, <2>3
<1>8. OneClaim'
  BY <1>4, <1>6 DEF ExclusionInv, OneClaim
<1> QED
  BY <1>5, <1>7, <1>8 DEF LeaseInv

(* Time passes only as far as every awake watchdog's deadlines.            *)
LEMMA ElapseInv ==
  ASSUME ExclusionInv, Elapse
  PROVE  ExclusionInv'
<1>1. WitnessInv' /\ NodeTypeOK /\ NodeTypeOK' /\ UNCHANGED nodeVars /\ clock' = clock + 1
      /\ UNCHANGED <<holder, expiresAt, notBefore, promise, recall>> /\ clock \in Nat
  BY TimeInv DEF ExclusionInv, Elapse, NodeTypeOK, nodeVars, TimePasses, store,
                 WitnessInv, WitnessTypeOK
<1>2. NodeInv'
  <2> SUFFICES ASSUME NEW n \in Node PROVE Shape(n)' /\ Prompt(n)'
    BY DEF NodeInv
  <2>1. Shape(n)'
    BY <1>1 DEF ExclusionInv, NodeInv, NodeTypeOK, nodeVars, Shape, HeldBy, Now
  <2>2. Prompt(n)'
    BY <1>1 DEF Elapse, Timely, NodeTypeOK, nodeVars, Prompt
  <2> QED
    BY <2>1, <2>2
<1>3. recall' # "stale" => HolderPromised' /\ LeaseInv' /\ OneClaim'
  BY <1>1 DEF ExclusionInv, HolderPromised, LeaseInv, OneClaim, nodeVars, SeesTruly,
              IntendsSafely, RunsSafely, Claims, Sees, Intends, Runs, Alive, Protected, HeldBy, Now
<1> QED
  BY <1>1, <1>2, <1>3 DEF ExclusionInv

LEMMA StillInv ==
  ASSUME ExclusionInv, UNCHANGED <<witnessVars, nodeVars>>
  PROVE  ExclusionInv'
<1>1. WitnessInv' /\ UNCHANGED <<clock, holder, expiresAt, notBefore, promise, recall>>
  BY WitnessStutterInv DEF ExclusionInv, witnessVars, store
<1>2. NodeTypeOK' /\ NodeInv'
  BY <1>1 DEF ExclusionInv, NodeTypeOK, NodeInv, nodeVars, Shape, Prompt, HeldBy, Now
<1>3. recall' # "stale" => HolderPromised' /\ LeaseInv' /\ OneClaim'
  BY <1>1 DEF ExclusionInv, HolderPromised, LeaseInv, OneClaim, nodeVars, SeesTruly,
              IntendsSafely, RunsSafely, Claims, Sees, Intends, Runs, Alive, Protected, HeldBy, Now
<1> QED
  BY <1>1, <1>2, <1>3 DEF ExclusionInv

-----------------------------------------------------------------------------
(* The invariant holds first and is kept by every step.                    *)
LEMMA FencingInitInv == Init => FencingInv
<1> SUFFICES ASSUME Init PROVE FencingInv
  OBVIOUS
<1>1. WitnessInv /\ clock = 0 /\ holder = NoNode
  BY WitnessInitInv DEF Init, WitnessInit
<1>2. NoLease \in LeaseView /\ Wait \in Decision
  BY DEF NoLease, LeaseView, Holder, Decision
<1>3. NodeTypeOK /\ FaultTypeOK
  BY <1>2 DEF Init, NodeTypeOK, FaultTypeOK, PC
<1>4. NodeInv
  <2> SUFFICES ASSUME NEW n \in Node PROVE Shape(n) /\ Prompt(n)
    BY DEF NodeInv
  <2>1. /\ wd[n] = "up" /\ pc[n] = "idle" /\ tickAt[n] = 0 /\ trader[n] = "none" /\ clock = 0
        /\ MaxTick \in Nat
    BY <1>1 DEF Init
  <2> QED
    BY <2>1 DEF Shape, Prompt
<1>5. \A n \in Node : ~Sees(n) /\ ~Intends(n) /\ ~Runs(n)
  BY DEF Init, Sees, Intends, Runs, Alive
<1>6. HolderPromised /\ LeaseInv /\ OneClaim
  BY <1>1, <1>5 DEF HolderPromised, LeaseInv, SeesTruly, IntendsSafely, RunsSafely, OneClaim, Claims
<1> QED
  BY <1>1, <1>3, <1>4, <1>6 DEF FencingInv, ExclusionInv

LEMMA FencingStepInv == FencingInv /\ [Next]_vars => FencingInv'
<1> SUFFICES ASSUME FencingInv, [Next]_vars PROVE FencingInv'
  OBVIOUS
<1>1. ExclusionInv
  BY DEF FencingInv
<1>2. ASSUME NEW n \in Node, WatchdogStep(n) PROVE ExclusionInv'
  BY <1>1, <1>2, BeginTickInv, ReadStatusInv, GiveUpLeaseInv, RenewLeaseInv, SignalTraderInv,
     TraderStoppedInv, ApplyHandOverInv, ApplyRunInv, QuitInv DEF WatchdogStep
<1>3. ASSUME Fault PROVE ExclusionInv'
  <2>1. ASSUME NEW n \in Node, SetCut(n, TRUE) PROVE ExclusionInv'
    BY <1>1, <2>1, StillInv DEF SetCut
  <2> QED
    BY <1>1, <1>3, <2>1, WitnessEventInv, TraderExitsInv, WatchdogCrashInv, ShutdownInv, SuspendInv
       DEF Fault
<1>4. ASSUME Repair PROVE ExclusionInv'
  <2>1. ASSUME NEW n \in Node, SetCut(n, FALSE) PROVE ExclusionInv'
    BY <1>1, <2>1, StillInv DEF SetCut
  <2> QED
    BY <1>1, <1>4, <2>1, WitnessEventInv, OrphanExitsInv, WatchdogStartInv, SuspendInv DEF Repair
<1>5. ASSUME Elapse PROVE ExclusionInv'
  BY <1>1, <1>5, ElapseInv
<1>6. ASSUME UNCHANGED vars PROVE ExclusionInv'
  BY <1>1, <1>6, StillInv DEF vars
<1>7. ExclusionInv'
  BY <1>2, <1>3, <1>4, <1>5, <1>6 DEF Next
<1>8. FaultTypeOK'
  <2>1. cut' = cut \/ \E n \in Node, b \in BOOLEAN : cut' = [cut EXCEPT ![n] = b]
    BY DEF Next, WatchdogStep, Fault, Repair, Elapse, SetCut, vars
  <2>2. faults' = faults \/ (faults < MaxFaults /\ faults' = faults + 1)
    BY DEF Next, WatchdogStep, Fault, Repair, Elapse, vars
  <2> QED
    BY <2>1, <2>2 DEF FencingInv, FaultTypeOK
<1> QED
  BY <1>7, <1>8 DEF FencingInv

-----------------------------------------------------------------------------

(* The invariant behind all of this holds in every reachable state.        *)
THEOREM FencingInvariant == Spec => []FencingInv
<1> QED
  BY FencingInitInv, FencingStepInv, PTL DEF Spec

(* Every variable keeps its type.                                          *)
THEOREM FencingTypeCorrect == Spec => []TypeOK
<1>1. FencingInv => TypeOK
  BY DEF FencingInv, ExclusionInv, TypeOK, WitnessInv
<1> QED
  BY <1>1, FencingInitInv, FencingStepInv, PTL DEF Spec

(* Two accountable nodes never have a trader alive at the same time: for   *)
(* any number of nodes and faults, any beliefs, and any skew within the    *)
(* timing assumption.                                                      *)
THEOREM TradersExclusive == Spec => []ExclusiveTraders
<1>1. FencingInv => ExclusiveTraders
  BY DEF FencingInv, ExclusionInv, OneClaim, ExclusiveTraders, Accountable, Claims, Runs
<1> QED
  BY <1>1, FencingInitInv, FencingStepInv, PTL DEF Spec

(* No node is granted the lease while an accountable node's trader lives.  *)
THEOREM LeaseGuardsTrader == Spec => []LeaseOutlivesTrader
<1>1. FencingInv => LeaseOutlivesTrader
  BY ClaimExcludes DEF FencingInv, LeaseOutlivesTrader, Accountable, Claims, Runs
<1> QED
  BY <1>1, FencingInitInv, FencingStepInv, PTL DEF Spec
=============================================================================
