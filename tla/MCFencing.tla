----------------------------- MODULE MCFencing -----------------------------
(***************************************************************************)
(* TLC instance of Fencing: the primary mac and the standby aibox.         *)
(***************************************************************************)
EXTENDS Fencing, TLC

CONSTANTS mac, aibox

MCRole == mac :> "primary" @@ aibox :> "standby"
MCSkew == mac :> 0 @@ aibox :> -1
NoSkew == mac :> 0 @@ aibox :> 0

(***************************************************************************)
(* Two states of mind reach every decision that touches a lease or a       *)
(* trader: nobody there, and a peer that waits for a handover.             *)
(***************************************************************************)
Alone ==
    [ peer |-> NoPeer, lastPeerSeen |-> NoTime, yieldRequestedAt |-> NoTime,
      lastYieldAt |-> NoTime, lastYieldRequestAt |-> NoTime,
      lastTraderFailureAt |-> NoTime, selfInhibitedUntil |-> NoTime ]
WaitingPeer ==
    [running |-> FALSE, state |-> "standby", since |-> 0, startedAt |-> NoTime, reachable |-> TRUE]
Asked == [Alone EXCEPT !.peer = WaitingPeer, !.lastPeerSeen = 0, !.yieldRequestedAt = 0]
MCBelief == {Alone, Asked}
=============================================================================
