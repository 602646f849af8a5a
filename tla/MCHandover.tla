----------------------------- MODULE MCHandover -----------------------------
(***************************************************************************)
(* Two machines, the deployment's roles.  The defaults of config.go are    *)
(* scaled to rounds so that their order is kept: a grace is shorter than a *)
(* failover, a retry shorter than the cooldown after giving up.            *)
(***************************************************************************)
EXTENDS Handover

CONSTANTS mac, aibox

MCRole == [n \in Node |-> IF n = mac THEN "primary" ELSE "standby"]
MCBackoff == <<1>>
=============================================================================
