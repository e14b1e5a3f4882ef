-------------------------------- MODULE MCKento --------------------------------
(* Instances of Kento for TLC: creates, a destroyer and a reaper. *)
EXTENDS Kento, TLC

CONSTANTS c1, c2, d1, r1,   \* invocations
          web, db,          \* names
          p1                \* a host port

MCProc == {c1, c2, d1, r1}
MCCreator == {c1, c2}
MCDestroyer == {d1}
MCReaper == {r1}
NoProc == {}
PruneCrew == {{r1}}
MCName == {web, db}
MCAutoName == << >>
MCPort == {p1}
MCVmid == {101}
MCOthers == {}
MCStubborn == {}

Ask(m, n, v, q, s) == [mode |-> m, name |-> n, vmid |-> v, port |-> q,
                       force |-> FALSE, start |-> s]

Aim(n, f) == [name |-> n, scope |-> "any", force |-> f]

\* The second create wants the VMID, or the name, of the first.
HostAsks == c1 :> {Ask("pve-vm", web, 101, None, TRUE)}
         @@ c2 :> {Ask("pve-vm", db, 101, None, FALSE),
                   Ask("lxc", web, Allocate, None, FALSE)}

HostRemovals == d1 :> {Aim(web, TRUE)}

\* A destroy or a prune beside the creates, not both.
EitherCrew == {{d1}, {r1}}

\* A reaper beside creates of Proxmox instances, and nothing else.
ReapProc == {c1, c2, r1}
ReapAsks == c1 :> {Ask("pve", web, 101, None, FALSE)}
         @@ c2 :> {Ask("lxc", db, Allocate, None, FALSE)}
NoRemovals == << >>
===============================================================================
