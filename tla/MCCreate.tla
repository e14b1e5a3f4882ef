------------------------------- MODULE MCCreate -------------------------------
(***************************************************************************)
(* Instances of Create for TLC: who asks for what.                         *)
(***************************************************************************)
EXTENDS Create, TLC

CONSTANTS c1, c2,                \* invocations
          n0, n1, n2, web, db,   \* names
          p1, p2                 \* host ports

TwoProc == {c1, c2}
MCName == {n0, n1, n2, web, db}
MCAutoName == <<n0, n1, n2>>
MCPort == {p1, p2}
TwoVmid == {100, 101}
PlainOthers == {[base |-> "lxc", id |-> 100]}
PlainStubborn == {"wrapper"}

Ask(m, n, v, q, s) == [mode |-> m, name |-> n, vmid |-> v, port |-> q,
                       force |-> FALSE, start |-> s]

\* Generated names in both namespaces, one explicit name wanted twice.
PlainAsks == c1 :> {Ask("lxc", Allocate, Allocate, Allocate, TRUE),
                    Ask("lxc", web, Allocate, None, FALSE)}
          @@ c2 :> {Ask("vm", Allocate, Allocate, Allocate, TRUE),
                    Ask("lxc", web, Allocate, Allocate, TRUE),
                    Ask("pve-vm", Allocate, Allocate, Allocate, TRUE)}

\* Proxmox containers: their directory is the VMID, their name a file in it.
ThreeVmid == {100, 101, 102}
PveOthers == {[base |-> "qemu", id |-> 100]}
PveStubborn == {"conf", "dir"}
PveAsks == c1 :> {Ask("pve", web, Allocate, Allocate, TRUE),
                  Ask("pve", web, 101, None, TRUE)}
        @@ c2 :> {Ask("pve", db, Allocate, None, FALSE),
                  Ask("pve", web, 101, Allocate, TRUE),
                  Ask("lxc", db, Allocate, Allocate, TRUE)}

\* Two Proxmox VMs (or a VM and a container) whose VMID kento picks.
VmidRaceAsks == c1 :> {Ask("pve-vm", web, Allocate, None, FALSE)}
             @@ c2 :> {Ask("pve-vm", db, Allocate, None, FALSE)}
===============================================================================
