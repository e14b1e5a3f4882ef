----------------------------- MODULE MCForwards -----------------------------
(* Values for TLC.  Hosts: every kind of guest, every backend, both kinds   *)
(* of address, though not all their combinations.  Wants: nothing, one     *)
(* binding, and a set that moves this binding and adds another, so that a  *)
(* live set may have done one removal and one addition when it fails.      *)
EXTENDS Forwards, TLC

CONSTANTS p1, p2, q1, q2

MCPort == {p1, p2}
MCTarget == {q1, q2}
MCWants == {Empty, p1 :> q1 @@ p2 :> NoTarget, p1 :> q2 @@ p2 :> q1}

LOCAL H(k, b, s) == [kind |-> k, be |-> b, static |-> s]

MCHosts == {H("lxc", "nft", TRUE), H("lxc", "nft", FALSE),
            H("pve", "nft", TRUE), H("lxc", "none", FALSE),
            H("vm", "none", FALSE)}
=============================================================================
