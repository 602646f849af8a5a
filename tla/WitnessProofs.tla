--------------------------- MODULE WitnessProofs ---------------------------
(***************************************************************************)
(* The lease arbiter's promises, for every set of nodes, TTL and grace.    *)
(***************************************************************************)
EXTENDS Witness, TLAPS

(* A promise cannot run further than one TTL ahead of the clock.           *)
PromiseBounded == \A n \in Node : promise[n] <= clock + TTL

(* While a blind start blocks leases nothing is held and nothing has been  *)
(* written, so that another restart blocks again.                          *)
BlockIsBlank == clock < notBefore => holder = NoNode /\ ~disk.readable

(* An unexpired promise is shielded: it is the lease in memory, or leases  *)
(* are blocked until it has run out.                                       *)
PromiseShielded ==
    recall # "stale" =>
        \A n \in Node : promise[n] > clock =>
            \/ holder = n /\ expiresAt = promise[n]
            \/ notBefore >= promise[n]

(* With full recall a promise is the lease in memory until its grace ends. *)
PromiseRecalled ==
    recall = "full" =>
        \A n \in Node : promise[n] > 0 =>
            \/ holder = n /\ expiresAt = promise[n]
            \/ clock >= promise[n] + Grace

WitnessInv ==
    /\ WitnessTypeOK
    /\ PromiseBounded
    /\ LockoutBounded
    /\ BlockIsBlank
    /\ PromiseShielded
    /\ PromiseRecalled
    /\ PromiseSurvivesRestart

USE NodeAssumption, LeaseTimesAssumption

-----------------------------------------------------------------------------

(* The first start, with or without a file, satisfies the invariant.       *)
LEMMA WitnessInitInv == WitnessInit => WitnessInv
  BY DEF WitnessInit, WitnessInv, WitnessTypeOK, Holder, Recall, PromiseBounded,
         LockoutBounded, BlockIsBlank, PromiseShielded, PromiseRecalled,
         PromiseSurvivesRestart, OneUnexpiredPromise

(* A grant goes to one node only when every other promise has run out.     *)
LEMMA GrantedAlone ==
  ASSUME WitnessInv, recall # "stale", NEW n \in Node, Granted(n),
         NEW m \in Node, m # n
  PROVE  clock >= promise[m]
  BY DEF WitnessInv, WitnessTypeOK, Holder, PromiseShielded, Granted

LEMMA GrantInv ==
  ASSUME WitnessInv, NEW n \in Node, Grant(n)
  PROVE  WitnessInv'
<1> USE DEF Grant, Persist
<1>1. WitnessTypeOK'
  BY DEF WitnessInv, WitnessTypeOK, Holder
<1>2. \A m \in Node : promise'[m] = IF m = n THEN clock + TTL ELSE promise[m]
  BY DEF WitnessInv, WitnessTypeOK
<1>3. PromiseBounded' /\ LockoutBounded' /\ BlockIsBlank'
  BY <1>2 DEF WitnessInv, WitnessTypeOK, PromiseBounded, LockoutBounded,
              BlockIsBlank, Granted
<1>4. ASSUME recall # "stale", NEW m \in Node, m # n
      PROVE  clock >= promise[m]
  BY <1>4, GrantedAlone
<1>5. PromiseShielded'
  BY <1>2, <1>4 DEF WitnessInv, WitnessTypeOK, PromiseShielded
<1>6. PromiseRecalled'
  BY <1>2 DEF WitnessInv, WitnessTypeOK, Holder, PromiseRecalled, Granted
<1>7. PromiseSurvivesRestart'
  BY <1>2, <1>4 DEF WitnessInv, WitnessTypeOK, PromiseSurvivesRestart, OneUnexpiredPromise
<1> QED
  BY <1>1, <1>3, <1>5, <1>6, <1>7 DEF WitnessInv

LEMMA ReleaseInv ==
  ASSUME WitnessInv, NEW n \in Node, Release(n)
  PROVE  WitnessInv'
<1>1. \A m \in Node : promise'[m] = IF m = n THEN 0 ELSE promise[m]
  BY DEF WitnessInv, WitnessTypeOK, Release, Free
<1>2. CASE holder # n
  <2>1. UNCHANGED <<clock, up, holder, expiresAt, notBefore, disk, writable, recall>>
    BY <1>2 DEF Release, Free
  <2>2. WitnessTypeOK'
    BY <1>2, <2>1 DEF WitnessInv, WitnessTypeOK, Release, Free
  <2>3. PromiseBounded' /\ LockoutBounded' /\ BlockIsBlank'
    BY <1>1, <2>1 DEF WitnessInv, WitnessTypeOK, PromiseBounded, LockoutBounded, BlockIsBlank
  <2>4. PromiseShielded' /\ PromiseRecalled'
    BY <1>1, <2>1 DEF WitnessInv, WitnessTypeOK, PromiseShielded, PromiseRecalled
  <2>5. PromiseSurvivesRestart'
    BY <1>1, <2>1 DEF WitnessInv, WitnessTypeOK, PromiseSurvivesRestart, OneUnexpiredPromise
  <2> QED
    BY <2>2, <2>3, <2>4, <2>5 DEF WitnessInv
<1>3. CASE holder = n
  <2>1. Free(n)
    BY <1>3 DEF Release
  <2> USE DEF Free, Persist
  <2>2. WitnessTypeOK'
    BY <2>1 DEF WitnessInv, WitnessTypeOK, Holder
  <2>3. PromiseBounded' /\ LockoutBounded'
    BY <1>1, <2>1 DEF WitnessInv, WitnessTypeOK, PromiseBounded, LockoutBounded
  <2>4. BlockIsBlank'
    BY <1>3, <2>1 DEF WitnessInv, WitnessTypeOK, BlockIsBlank
  <2>5. PromiseShielded' /\ PromiseRecalled'
    BY <1>1, <1>3, <2>1 DEF WitnessInv, WitnessTypeOK, PromiseShielded, PromiseRecalled
  <2>6. PromiseSurvivesRestart'
    BY <1>1, <2>1 DEF WitnessInv, WitnessTypeOK, PromiseSurvivesRestart, OneUnexpiredPromise
  <2> QED
    BY <2>2, <2>3, <2>4, <2>5, <2>6 DEF WitnessInv
<1> QED
  BY <1>2, <1>3

LEMMA FaultInv ==
  ASSUME WitnessInv, WitnessFault \/ WitnessRepair
  PROVE  WitnessInv'
<1>1. CASE WitnessCrash
  BY <1>1 DEF WitnessCrash, WitnessInv, WitnessTypeOK, PromiseBounded, LockoutBounded,
        BlockIsBlank, PromiseShielded, PromiseRecalled, PromiseSurvivesRestart,
        OneUnexpiredPromise
<1>2. CASE DiskLost
  BY <1>2 DEF DiskLost, WitnessInv, WitnessTypeOK, PromiseBounded, LockoutBounded,
        BlockIsBlank, PromiseShielded, PromiseRecalled, PromiseSurvivesRestart,
        OneUnexpiredPromise
<1>5. CASE DiskFull
  BY <1>5 DEF DiskFull, WitnessInv, WitnessTypeOK, PromiseBounded, LockoutBounded,
        BlockIsBlank, PromiseShielded, PromiseRecalled, PromiseSurvivesRestart,
        OneUnexpiredPromise
<1>6. CASE DiskFreed
  BY <1>6 DEF DiskFreed, WitnessInv, WitnessTypeOK, PromiseBounded, LockoutBounded,
        BlockIsBlank, PromiseShielded, PromiseRecalled, PromiseSurvivesRestart,
        OneUnexpiredPromise
<1>3. CASE WitnessRestart /\ disk.readable
  <2>1. WitnessTypeOK'
    BY <1>3 DEF WitnessRestart, WitnessInv, WitnessTypeOK, Holder, Recall
  <2>2. PromiseBounded' /\ LockoutBounded' /\ BlockIsBlank'
    BY <1>3 DEF WitnessRestart, WitnessInv, WitnessTypeOK, PromiseBounded,
                LockoutBounded, BlockIsBlank
  <2>3. PromiseShielded' /\ PromiseRecalled'
    BY <1>3 DEF WitnessRestart, WitnessInv, WitnessTypeOK, PromiseShielded,
                PromiseRecalled, BlockIsBlank
  <2>4. PromiseSurvivesRestart'
    BY <1>3 DEF WitnessRestart, WitnessInv, PromiseSurvivesRestart, OneUnexpiredPromise
  <2> QED
    BY <2>1, <2>2, <2>3, <2>4 DEF WitnessInv
<1>4. CASE WitnessRestart /\ ~disk.readable
  <2>1. WitnessTypeOK'
    BY <1>4 DEF WitnessRestart, BlockedUntil, WitnessInv, WitnessTypeOK, Holder, Recall
  <2>2. PromiseBounded' /\ LockoutBounded' /\ BlockIsBlank'
    BY <1>4 DEF WitnessRestart, BlockedUntil, WitnessInv, WitnessTypeOK, PromiseBounded,
                LockoutBounded, BlockIsBlank
  <2>3. PromiseShielded' /\ PromiseRecalled'
    BY <1>4 DEF WitnessRestart, BlockedUntil, WitnessInv, WitnessTypeOK, PromiseShielded,
                PromiseRecalled, PromiseBounded
  <2>4. PromiseSurvivesRestart'
    BY <1>4 DEF WitnessRestart, BlockedUntil, WitnessInv, PromiseSurvivesRestart, OneUnexpiredPromise
  <2> QED
    BY <2>1, <2>2, <2>3, <2>4 DEF WitnessInv
<1> QED
  BY <1>1, <1>2, <1>3, <1>4, <1>5, <1>6 DEF WitnessFault, WitnessRepair, WitnessRestart

LEMMA TimeInv ==
  ASSUME WitnessInv, TimePasses
  PROVE  WitnessInv'
  BY DEF TimePasses, store, WitnessInv, WitnessTypeOK, PromiseBounded, LockoutBounded,
         BlockIsBlank, PromiseShielded, PromiseRecalled, PromiseSurvivesRestart,
         OneUnexpiredPromise

LEMMA WitnessStutterInv ==
  ASSUME WitnessInv, UNCHANGED witnessVars
  PROVE  WitnessInv'
  BY DEF witnessVars, store, WitnessInv, WitnessTypeOK, PromiseBounded, LockoutBounded,
         BlockIsBlank, PromiseShielded, PromiseRecalled, PromiseSurvivesRestart,
         OneUnexpiredPromise

LEMMA RenewInv ==
  ASSUME WitnessInv, NEW n \in Node, Renew(n)
  PROVE  WitnessInv'
  BY GrantInv, WitnessStutterInv DEF Renew, Deny

LEMMA WitnessStepInv == WitnessInv /\ [WitnessNext]_witnessVars => WitnessInv'
  BY RenewInv, ReleaseInv, FaultInv, TimeInv, WitnessStutterInv DEF WitnessNext

-----------------------------------------------------------------------------

(* No instant is ever promised to two nodes, whatever crashes and file     *)
(* losses happen, unless a restart restored a lease that was not the last. *)
THEOREM WitnessSafe == WitnessSpec => []PromiseSurvivesRestart
<1>1. WitnessInv => PromiseSurvivesRestart
  BY DEF WitnessInv
<1> QED
  BY <1>1, WitnessInitInv, WitnessStepInv, PTL DEF WitnessSpec

(* Every variable of the witness keeps its type.                           *)
THEOREM WitnessTypeCorrect == WitnessSpec => []WitnessTypeOK
<1>1. WitnessInv => WitnessTypeOK
  BY DEF WitnessInv
<1> QED
  BY <1>1, WitnessInitInv, WitnessStepInv, PTL DEF WitnessSpec

(* No restart can lock a node out for longer than one TTL and the grace.   *)
THEOREM WitnessNeverLocksOut == WitnessSpec => []LockoutBounded
<1>1. WitnessInv => LockoutBounded
  BY DEF WitnessInv
<1> QED
  BY <1>1, WitnessInitInv, WitnessStepInv, PTL DEF WitnessSpec

(* With full recall, a takeover waits out the old promise and its grace.   *)
THEOREM WitnessTakeoverWaits == WitnessSpec => TakeoverWaits
<1> DEFINE Waits ==
      \A n \in Node : promise'[n] > promise[n] /\ recall = "full" =>
          \A m \in Node \ {n} : promise[m] > 0 => clock >= promise[m] + Grace
<1>1. ASSUME WitnessInv, [WitnessNext]_witnessVars
      PROVE  Waits
  <2> SUFFICES ASSUME NEW n \in Node, promise'[n] > promise[n], recall = "full",
                      NEW m \in Node \ {n}, promise[m] > 0
               PROVE  clock >= promise[m] + Grace
    OBVIOUS
  <2>1. \E k \in Node : Grant(k)
    BY <1>1 DEF WitnessNext, Renew, Release, Deny, Free, WitnessFault, WitnessRepair, WitnessCrash,
                WitnessRestart, DiskLost, DiskFull, DiskFreed, TimePasses, witnessVars, store,
                WitnessInv, WitnessTypeOK
  <2>2. PICK k \in Node : Grant(k)
    BY <2>1
  <2>3. k = n
    BY <1>1, <2>2 DEF Grant, WitnessInv, WitnessTypeOK
  <2> QED
    BY <1>1, <2>2, <2>3 DEF Grant, Granted, WitnessInv, WitnessTypeOK, Holder, PromiseRecalled
<1>2. WitnessInv /\ [WitnessNext]_witnessVars => [Waits]_witnessVars
  BY <1>1
<1>3. [][Waits]_witnessVars <=> TakeoverWaits
  BY DEF TakeoverWaits
<1> QED
  BY <1>2, <1>3, WitnessInitInv, WitnessStepInv, PTL DEF WitnessSpec
(* What WitnessStepInv keeps is what every reachable state satisfies.      *)
THEOREM WitnessInvariant == WitnessSpec => []WitnessInv
<1> QED
  BY WitnessInitInv, WitnessStepInv, PTL DEF WitnessSpec

-----------------------------------------------------------------------------

(* A grant is a promise that the service may make.                         *)
LEMMA GrantIsPromise ==
  ASSUME WitnessInv, NEW n \in Node, Grant(n)
  PROVE  Service!Promise(n)
<1>1. recall # "stale" => \A m \in Node \ {n} : promise[m] <= clock
  BY GrantedAlone DEF Grant, WitnessInv, WitnessTypeOK
<1> QED
  BY <1>1 DEF Grant, Service!Promise

LEMMA ReleaseIsYield ==
  ASSUME NEW n \in Node, Release(n)
  PROVE  Service!Yield(n)
  BY DEF Release, Free, Service!Yield

(* A restart forgets, or it changes nothing that the clients could see.    *)
LEMMA FaultIsQuiet ==
  ASSUME WitnessInv, WitnessFault \/ WitnessRepair
  PROVE  Service!Forget \/ UNCHANGED Service!leaseVars
<1>1. CASE WitnessRestart
  <2>1. UNCHANGED <<clock, promise>>
    BY <1>1 DEF WitnessRestart
  <2>2. CASE recall' = "stale"
    BY <2>1, <2>2 DEF Service!Forget
  <2>3. CASE recall' # "stale"
    <3>1. recall # "stale"
      BY <1>1, <2>3 DEF WitnessRestart
    <3> QED
      BY <2>1, <2>3, <3>1 DEF Service!leaseVars
  <2> QED
    BY <2>2, <2>3
<1>2. CASE ~WitnessRestart
  BY <1>2 DEF WitnessFault, WitnessRepair, WitnessCrash, DiskLost, DiskFull, DiskFreed,
              Service!leaseVars
<1> QED
  BY <1>1, <1>2

LEMMA StepIsService ==
  WitnessInv /\ [WitnessNext]_witnessVars => [Service!LeaseNext]_Service!leaseVars
<1> SUFFICES ASSUME WitnessInv, [WitnessNext]_witnessVars
             PROVE  [Service!LeaseNext]_Service!leaseVars
  OBVIOUS
<1>1. CASE UNCHANGED witnessVars
  BY <1>1 DEF witnessVars, store, Service!leaseVars
<1>2. ASSUME NEW n \in Node, Renew(n)
      PROVE  Service!Promise(n) \/ UNCHANGED Service!leaseVars
  BY <1>2, GrantIsPromise DEF Renew, Deny, witnessVars, store, Service!leaseVars
<1>3. ASSUME NEW n \in Node, Release(n)
      PROVE  Service!Yield(n)
  BY <1>3, ReleaseIsYield
<1>4. CASE WitnessFault \/ WitnessRepair
  BY <1>4, FaultIsQuiet DEF Service!LeaseNext
<1>5. CASE TimePasses
  BY <1>5 DEF TimePasses, store, Service!LeaseNext, Service!Advance
<1> QED
  BY <1>1, <1>2, <1>3, <1>4, <1>5 DEF WitnessNext, Service!LeaseNext

(* The witness implements the lease service that the watchdogs rely on,    *)
(* for all nodes, terms and graces, through any crashes and lost files.    *)
THEOREM WitnessIsLeaseService == WitnessSpec => ImplementsLeaseService
<1>1. WitnessInit => Service!LeaseInit
  BY DEF WitnessInit, Service!LeaseInit
<1> QED
  BY <1>1, WitnessInitInv, WitnessStepInv, StepIsService, PTL
     DEF WitnessSpec, ImplementsLeaseService, Service!LeaseSpec
=============================================================================
