-------------------------------- MODULE MCAdopt --------------------------------
(* An instance of Adopt for TLC: two creates and two adopts. *)
EXTENDS Adopt, TLC

CONSTANTS c1, c2, a1, a2,   \* invocations
          web, db,          \* names
          p1                \* a host port

MCProc == {c1, c2, a1, a2}
MCCreator == {c1, c2}
MCAdopter == {a1, a2}
MCName == {web, db}
MCAutoName == << >>
MCPort == {p1}
MCVmid == {101}
MCNobody == {}

Ask(m, n, v, q) == [mode |-> m, name |-> n, vmid |-> v, port |-> q,
                    force |-> FALSE, start |-> FALSE]

\* The second create takes the VMID of the first as soon as it is free.
MCAsks == c1 :> {Ask("pve-vm", web, 101, None), Ask("pve", web, 101, p1)}
       @@ c2 :> {Ask("pve-vm", db, Allocate, None)}

MCAdoptions == {web}
===============================================================================
