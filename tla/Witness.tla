------------------------------ MODULE Witness ------------------------------
(***************************************************************************)
(* The lease arbiter, cmd/witness/main.go: one leaseStore behind a mutex,  *)
(* so every HTTP handler is one atomic step.  The store lives in memory    *)
(* and is written to a state file after every change; a restart reads the  *)
(* file back, and blocks all leases for one TTL when it cannot.            *)
(*                                                                         *)
(* Time is a discrete clock.  The zero time.Time is 0.                     *)
(***************************************************************************)
EXTENDS Integers

CONSTANTS
    Node,     \* names the watchdogs send in /renew and /release
    NoNode,   \* the empty holder ""
    TTL,      \* -ttl, default 5m
    Grace,    \* -grace, default 5s
    MaxTime   \* bound on the clock

ASSUME NodeAssumption == NoNode \notin Node
ASSUME LeaseTimesAssumption == TTL \in Nat \ {0} /\ Grace \in Nat
ASSUME MaxTimeAssumption == MaxTime \in Nat

VARIABLES
    clock,      \* the time every time.Now of the witness reads
    up,         \* the process is serving
    holder,     \* leaseStore.holder
    expiresAt,  \* leaseStore.expiresAt
    notBefore,  \* leaseStore.notBefore
    disk,       \* the state file; unreadable stands for missing or corrupt
    writable,   \* writing the state file succeeds
    promise,    \* history: per node, the expiry its last grant told it
    recall      \* history: what restarts kept of the leases, see Recall

store == <<up, holder, expiresAt, notBefore, disk, writable, promise, recall>>
witnessVars == <<clock, store>>

Holder == Node \cup {NoNode}

(***************************************************************************)
(* "full": every restart found the last lease in the file.  "blind": some  *)
(* restart found no readable file and waited a TTL instead.  "stale": some *)
(* restart restored a lease that was not the last one.                     *)
(***************************************************************************)
Recall == {"full", "blind", "stale"}

WitnessTypeOK ==
    /\ clock \in Nat
    /\ up \in BOOLEAN
    /\ holder \in Holder
    /\ expiresAt \in Nat
    /\ notBefore \in Nat
    /\ disk \in [readable : BOOLEAN, holder : Holder, expiresAt : Nat]
    /\ writable \in BOOLEAN
    /\ promise \in [Node -> Nat]
    /\ recall \in Recall

(***************************************************************************)
(* The first start finds either no state file, or one that a released      *)
(* lease left behind.                                                      *)
(***************************************************************************)
WitnessInit ==
    /\ clock = 0
    /\ up = TRUE
    /\ holder = NoNode
    /\ expiresAt = 0
    /\ \E readable \in BOOLEAN :
          /\ disk = [readable |-> readable, holder |-> NoNode, expiresAt |-> 0]
          /\ notBefore = IF readable THEN 0 ELSE TTL
    /\ writable = TRUE
    /\ promise = [n \in Node |-> 0]
    /\ recall = "full"

(***************************************************************************)
(* persistLocked replaces the file atomically (write a temporary, rename). *)
(* Its error is only logged, so the old file may stay behind a change that *)
(* is nevertheless answered.                                               *)
(***************************************************************************)
Persist(h, e) ==
    disk' = IF writable
            THEN [readable |-> TRUE, holder |-> h, expiresAt |-> e]
            ELSE disk

\* Mutants: a takeover without the grace; a renew that forgets notBefore.
GrantedAtExpiry(n) ==
    /\ clock >= notBefore
    /\ holder \in {NoNode, n} \/ clock >= expiresAt

GrantedWhenBlocked(n) ==
    holder \in {NoNode, n} \/ clock >= expiresAt + Grace

\* leaseStore.renew grants the lease to n at this instant.
Granted(n) ==
    /\ clock >= notBefore
    /\ \/ holder \in {NoNode, n}
       \/ clock >= expiresAt + Grace

Grant(n) ==
    /\ Granted(n)
    /\ holder' = n
    /\ expiresAt' = clock + TTL
    /\ Persist(n, clock + TTL)
    /\ promise' = [promise EXCEPT ![n] = clock + TTL]
    /\ UNCHANGED <<clock, up, notBefore, writable, recall>>

Deny(n) ==
    /\ ~Granted(n)
    /\ UNCHANGED witnessVars

\* POST /renew of node n.
Renew(n) ==
    /\ up
    /\ \/ Grant(n)
       \/ Deny(n)

\* The holder's release; a release by anyone else changes nothing.
Free(n) ==
    /\ holder = n
    /\ holder' = NoNode
    /\ expiresAt' = 0
    /\ Persist(NoNode, 0)
    /\ promise' = [promise EXCEPT ![n] = 0]
    /\ UNCHANGED <<clock, up, notBefore, writable, recall>>

\* POST /release of node n: whatever n was promised, n has given it up.
Release(n) ==
    /\ up
    /\ \/ Free(n)
       \/ /\ holder # n
          /\ promise' = [promise EXCEPT ![n] = 0]
          /\ UNCHANGED <<clock, up, holder, expiresAt, notBefore, disk, writable, recall>>

\* The process dies.  The memory it had is kept only to define recall.
WitnessCrash ==
    /\ up
    /\ up' = FALSE
    /\ UNCHANGED <<clock, holder, expiresAt, notBefore, disk, writable, promise, recall>>

\* Mutant: the grace is added to the wait after a start.
BlockedForGraceToo == clock + TTL + Grace

\* newLeaseStore: without a state file nobody gets a lease for one TTL.
BlockedUntil == clock + TTL

\* leaseStore.load in a new process.
WitnessRestart ==
    /\ ~up
    /\ up' = TRUE
    /\ IF disk.readable
       THEN /\ holder' = disk.holder
            /\ expiresAt' = disk.expiresAt
            /\ notBefore' = 0
            /\ recall' = IF disk.holder = holder /\ disk.expiresAt = expiresAt
                          THEN recall ELSE "stale"
       ELSE /\ holder' = NoNode
            /\ expiresAt' = 0
            /\ notBefore' = BlockedUntil
            /\ recall' = IF recall = "full" THEN "blind" ELSE recall
    /\ UNCHANGED <<clock, disk, writable, promise>>

\* The environment loses or truncates the state file.
DiskLost ==
    /\ disk.readable
    /\ disk' = [disk EXCEPT !.readable = FALSE]
    /\ UNCHANGED <<clock, up, holder, expiresAt, notBefore, writable, promise, recall>>

\* The disk fills up, or is freed again.
DiskFull ==
    /\ writable
    /\ writable' = FALSE
    /\ UNCHANGED <<clock, up, holder, expiresAt, notBefore, disk, promise, recall>>

DiskFreed ==
    /\ ~writable
    /\ writable' = TRUE
    /\ UNCHANGED <<clock, up, holder, expiresAt, notBefore, disk, promise, recall>>

TimePasses ==
    /\ clock < MaxTime
    /\ clock' = clock + 1
    /\ UNCHANGED store

WitnessFault == WitnessCrash \/ DiskLost \/ DiskFull
WitnessRepair == WitnessRestart \/ DiskFreed

WitnessNext ==
    \/ \E n \in Node : Renew(n) \/ Release(n)
    \/ WitnessFault \/ WitnessRepair
    \/ TimePasses

WitnessSpec == WitnessInit /\ [][WitnessNext]_witnessVars

-----------------------------------------------------------------------------
(***************************************************************************)
(* Properties.                                                             *)
(***************************************************************************)

(* The witness, with its crashes, its file and what gets lost of it, is a  *)
(* lease service: every answer of a renew is a promise that leaves no      *)
(* other one open, a release is the client's own, and nothing else that    *)
(* happens to the witness makes or breaks a promise -- until a restart     *)
(* restores a lease that is not the last one.                              *)
Service == INSTANCE LeaseService WITH
    Client <- Node, Term <- TTL,
    now <- clock, until <- promise, honest <- recall # "stale"

ImplementsLeaseService == Service!LeaseSpec

(* No instant belongs to two nodes: the expiry times the witness has told  *)
(* two different nodes are never both in the future.                       *)
OneUnexpiredPromise ==
    \A m, n \in Node : m # n => clock >= promise[m] \/ clock >= promise[n]

(* The promise survives crashes, restarts, and a lost or corrupt state     *)
(* file.  The one way to break it is renew's ignored persist error: a      *)
(* crash then restores a lease older than the one it answered with.        *)
PromiseSurvivesRestart == recall # "stale" => OneUnexpiredPromise

(* A node other than the last promised one gets the lease only after that  *)
(* promise, and its grace, are over ("extra wait before a lease can be     *)
(* taken over").  A witness that restarted without a readable file waits   *)
(* out the promise but not the grace.                                      *)
TakeoverWaits ==
    [][\A n \in Node : promise'[n] > promise[n] /\ recall = "full" =>
          \A m \in Node \ {n} : promise[m] > 0 => clock >= promise[m] + Grace]_witnessVars

(* Nobody is locked out for longer than one TTL and the grace: after       *)
(* whatever restarts, every deadline the witness keeps is at most one TTL  *)
(* ahead, whether in memory or in the file it would restore.               *)
LockoutBounded ==
    /\ expiresAt <= clock + TTL
    /\ notBefore <= clock + TTL
    /\ disk.expiresAt <= clock + TTL
=============================================================================
