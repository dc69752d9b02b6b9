------------------------- MODULE ExclusiveAuthority -------------------------
(* What the signing fences of one validator set promise together: at any    *)
(* instant at most one Pod may forward signing traffic, and authority is    *)
(* only ever granted when nobody holds it (no direct hand-over from one Pod *)
(* to another).  FenceLease implements this with a Kubernetes Lease, clocks *)
(* that disagree and requests that are lost or late.                        *)

CONSTANTS Pod,      \* Pod UIDs that may run a fence process
          NoPod     \* nobody

VARIABLE signer     \* the Pod whose connections may carry signing requests

Init == signer = NoPod

\* Authority passes through "nobody" before it reaches another Pod.
Grant(p) == signer = NoPod /\ signer' = p

\* The deadline passes, or the process trips, stops or crashes.
Lose == signer # NoPod /\ signer' = NoPod

Next == Lose \/ \E p \in Pod : Grant(p)

Spec == Init /\ [][Next]_signer
=============================================================================
