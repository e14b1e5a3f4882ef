----------------------------- MODULE MCVmRuntime -----------------------------
(* Instances of VmRuntime for TLC: a few commands on one VM. *)
EXTENDS VmRuntime

CONSTANTS a, b, c, d   \* invocations

Four  == {a, b, c, d}
Three == {a, b, c}

\* Starts run alone, stops and destroys overlap: two of each, in any mix.
LifePlans == {p \in [Four -> Op] : /\ p[a] = "start"
                                   /\ p[b] \in {"start", "graceful"}
                                   /\ p[c] \in {"stop", "force", "graceful"}
                                   /\ p[d] \in {"stop", "destroy", "destroyForce"}}

\* A start, then a graceful-only stop.
GracefulPlans == {[p \in Three |-> IF p = a THEN "start" ELSE "graceful"]}
===============================================================================
