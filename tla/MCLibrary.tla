----------------------------- MODULE MCLibrary ------------------------------
(* Values for TLC: an instance of each mode, the plain container with and  *)
(* without limits, the VMs partly with the sizes of the defaults; bags     *)
(* with one key, with both, and one that set refuses.                      *)
EXTENDS Library, TLC

CONSTANTS p1

MCMems == {1, 2}
MCCores == {1, 2}
MCPorts == {p1}

LOCAL Bag(m, c) == [mem |-> m, cores |-> c]
MCBags == {Bag(2, Absent), Bag(2, 2), Bag(1, 0)}

MCHosts == {[pve |-> FALSE, bridge |-> FALSE], [pve |-> TRUE, bridge |-> TRUE]}
MCDefaults == [mem |-> 1, cores |-> 2]

LOCAL Ask(kind, platform, net, m, c, p) ==
  [kind |-> kind, platform |-> platform, network |-> net,
   mem |-> m, cores |-> c, port |-> p]
MCCreations ==
  {Ask("lxc", Absent, "DHCP", 1, 1, p1),
   Ask("lxc", "STANDARD", "UNNAMED", Absent, Absent, Absent),
   Ask("lxc", "STANDARD", "USER", 0, Absent, Absent),
   Ask("vm", Absent, Absent, 2, Absent, p1),
   Ask("vm", "PVE", Absent, Absent, 1, Absent)}

MCNets == {"DISABLED", "USER", "DHCP", "UNNAMED"}
MCRequests == {[Nothing EXCEPT !.mem = 2, !.net = "unnamed"]}
=============================================================================
