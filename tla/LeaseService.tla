---------------------------- MODULE LeaseService ----------------------------
(***************************************************************************)
(* What the two watchdogs ask of a lease arbiter, and all they ask: a      *)
(* node is told until when it may trade, and as long as the service has    *)
(* not forgotten a promise it makes no new one before the others are over. *)
(* There is no process here, no file, no holder and no grace; Witness.tla  *)
(* implements this with all of them.                                       *)
(***************************************************************************)
EXTENDS Integers

CONSTANTS Client, Term

VARIABLES
    now,     \* the time
    until,   \* per client, the end of what it was promised last
    honest   \* the service has not forgotten a promise

leaseVars == <<now, until, honest>>

LeaseInit ==
    /\ now = 0
    /\ until = [c \in Client |-> 0]
    /\ honest = TRUE

\* A client is promised the next Term.
Promise(c) ==
    /\ honest => \A d \in Client \ {c} : until[d] <= now
    /\ until' = [until EXCEPT ![c] = now + Term]
    /\ UNCHANGED <<now, honest>>

\* A client gives up what it was promised.
Yield(c) ==
    /\ until' = [until EXCEPT ![c] = 0]
    /\ UNCHANGED <<now, honest>>

Forget ==
    /\ honest' = FALSE
    /\ UNCHANGED <<now, until>>

Advance ==
    /\ now' = now + 1
    /\ UNCHANGED <<until, honest>>

LeaseNext ==
    \/ \E c \in Client : Promise(c) \/ Yield(c)
    \/ Forget
    \/ Advance

LeaseSpec == LeaseInit /\ [][LeaseNext]_leaseVars
=============================================================================
