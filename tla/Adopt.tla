-------------------------------- MODULE Adopt --------------------------------
(***************************************************************************)
(* kento adopt (adopt in reconcile.py): it heals an orphan, an instance    *)
(* whose Proxmox config was removed behind kento's back, by writing the    *)
(* snippets wrapper and the config again from the instance's own files.    *)
(* It reads these files first, and then takes the same lock as create for  *)
(* the test that nobody has the VMID and for the writes.  Proxmox does not *)
(* know of that lock, and create writes its own config outside it.         *)
(***************************************************************************)
EXTENDS Create

CONSTANTS
  Adopter,    \* the invocations of adopt
  Adoptions   \* the names they may be given

ASSUME AdoptAssumption ==
  /\ Adopter \subseteq Proc \ Creator
  /\ Adoptions \subseteq Name

VARIABLES
  apc,       \* the next step of each adopter
  ward,      \* the instance directory it works on
  form,      \* the mode read from it
  number,    \* the VMID read from it
  rivals,    \* history: the creates that shared a name or a VMID with another
  overtaken, \* history: the adopters that write at a VMID they have not seen free:
             \* Proxmox gave it to a guest of its own after they had looked, or
             \* their directory has got another one
  healed     \* history: adopter -> the create whose instance it made whole,
             \* until something is done to that again

adoption == <<apc, ward, form, number>>
history  == <<rivals, overtaken, healed>>
all      == <<vars, adoption, history>>

AEnd == {"done", "refused"}
ALocked == {"check", "wrapper", "conf"}

AdoptInit ==
  /\ Init
  /\ apc = [a \in Adopter |-> "find"]
  /\ ward = [a \in Adopter |-> None]
  /\ form = [a \in Adopter |-> None]
  /\ number = [a \in Adopter |-> None]
  /\ rivals = {} /\ overtaken = {}
  /\ healed = [a \in Adopter |-> {}]

Advance(a, l) == apc' = [apc EXCEPT ![a] = l]

\* kento-net-type must be there; create writes it with kento-name.
Adoptable(d) == /\ ModeOf(d) \in PveMode
                /\ VmidOf(d, ModeOf(d)) # None
                /\ disk[d].name # None

\* resolve_any, and what is read before the lock is taken.
ResolveOrphan(a) ==
  /\ apc[a] = "find"
  /\ \E n \in Adoptions : \E d \in Matches(n, "any") :
       /\ Adoptable(d)
       /\ ward' = [ward EXCEPT ![a] = d]
       /\ form' = [form EXCEPT ![a] = ModeOf(d)]
       /\ number' = [number EXCEPT ![a] = VmidOf(d, ModeOf(d))]
  /\ Advance(a, "lock")
  /\ UNCHANGED <<lock, host>>

Unadoptable(a) ==
  /\ apc[a] = "find"
  /\ \E n \in Adoptions : \A d \in Matches(n, "any") : ~Adoptable(d)
  /\ Advance(a, "refused")
  /\ UNCHANGED <<lock, host, ward, form, number>>

TakeLock(a) ==
  /\ apc[a] = "lock" /\ lock = None
  /\ lock' = a
  /\ Advance(a, "check")
  /\ UNCHANGED <<host, ward, form, number>>

\* Neither the instance nor any other guest may have a config at its VMID.
Free(v) == \A c \in ConfKey : c.id = v => conf[c] = None

\* Mutant: the refusal returns with the lock taken.
CheckKeepsLock(a) ==
  /\ apc[a] = "check"
  /\ Advance(a, IF Free(number[a]) THEN "wrapper" ELSE "refused")
  /\ UNCHANGED <<lock, host, ward, form, number>>

CheckOrphan(a) ==
  /\ apc[a] = "check"
  /\ IF Free(number[a]) THEN Advance(a, "wrapper") /\ UNCHANGED lock
     ELSE Advance(a, "refused") /\ lock' = None
  /\ UNCHANGED <<host, ward, form, number>>

\* emit_pve_config: it reads the VMID again, writes the hook into the directory,
\* and the wrapper unless a Proxmox container needs none.
EmitWrapper(a) ==
  /\ apc[a] = "wrapper" /\ disk[ward[a]].dir
  /\ LET v == VmidOf(ward[a], form[a])
     IN /\ v # None
        /\ number' = [number EXCEPT ![a] = v]
        /\ \/ wrapper' = [wrapper EXCEPT ![ConfOf(form[a], v)] = ward[a]]
           \/ /\ form[a] = "pve" /\ disk[ward[a]].port = None
              /\ UNCHANGED wrapper
  /\ Advance(a, "conf")
  /\ UNCHANGED <<lock, disk, holds, layers, conf, up, ward, form>>

\* Mutant: the config of the other kind of guest is written.
EmitOtherConf(a) ==
  /\ apc[a] = "conf"
  /\ conf' = [conf EXCEPT ![ConfOf("pve", number[a])] = ward[a]]
  /\ lock' = None /\ Advance(a, "done")
  /\ UNCHANGED <<disk, holds, layers, wrapper, up, ward, form, number>>

EmitConf(a) ==
  /\ apc[a] = "conf"
  /\ conf' = [conf EXCEPT ![ConfOf(form[a], number[a])] = ward[a]]
  /\ lock' = None /\ Advance(a, "done")
  /\ UNCHANGED <<disk, holds, layers, wrapper, up, ward, form, number>>

\* pmxcfs or a write fails, or the files have gone: the lock is released.
AdoptFails(a) ==
  /\ apc[a] \in ALocked
  /\ lock' = None /\ Advance(a, "refused")
  /\ UNCHANGED <<host, ward, form, number>>

AdoptStep(a) ==
  \/ ResolveOrphan(a) \/ Unadoptable(a) \/ TakeLock(a) \/ CheckOrphan(a)
  \/ EmitWrapper(a)   \/ EmitConf(a)    \/ AdoptFails(a)

-------------------------------------------------------------------------------
(* Adopts beside creates and beside Proxmox. *)

\* An adopt has made a finished instance whole; it stays so until Proxmox
\* removes its config again.
Heals(a, p) == /\ apc[a] = "conf" /\ apc'[a] = "done"
               /\ pc[p] = "done" /\ p \notin rivals /\ ward[a] = Home(p)

Creates == /\ \E p \in Creator : CreateStep(p)
           /\ rivals' = rivals \cup {p \in Creator : Rival(p)'}
           /\ UNCHANGED <<adoption, overtaken, healed>>

Adopts ==
  /\ \E a \in Adopter : AdoptStep(a)
  /\ healed' = [a \in Adopter |-> healed[a] \cup {p \in Creator : Heals(a, p)}]
  /\ overtaken' = overtaken \cup
       {a \in Adopter : apc'[a] = "conf" /\ number'[a] # number[a]}
  /\ UNCHANGED <<local, rivals>>

\* pct destroy, qm destroy.
ProxmoxRemoves ==
  \E c \in ConfKey :
    /\ conf[c] \in DirKey /\ c \notin up
    /\ conf' = [conf EXCEPT ![c] = None]
    /\ healed' = [a \in Adopter |-> {p \in healed[a] : conf[c] # Home(p)}]
    /\ UNCHANGED <<lock, disk, holds, layers, wrapper, up, local, adoption,
                   rivals, overtaken>>

\* pct create, qm create: Proxmox gives the VMID to a guest of its own.
ProxmoxTakes ==
  \E c \in ConfKey :
    /\ Free(c.id)
    /\ conf' = [conf EXCEPT ![c] = Foreign]
    /\ overtaken' = overtaken \cup
         {a \in Adopter : apc[a] \in {"wrapper", "conf"} /\ number[a] = c.id}
    /\ UNCHANGED <<lock, disk, holds, layers, wrapper, up, local, adoption,
                   rivals, healed>>

AllStopped == /\ \A p \in Creator : pc[p] \in EndPc
              /\ \A a \in Adopter : apc[a] \in AEnd
              /\ UNCHANGED all

AdoptNext == Creates \/ Adopts \/ ProxmoxRemoves \/ ProxmoxTakes \/ AllStopped

AdoptSpec == AdoptInit /\ [][AdoptNext]_all

-------------------------------------------------------------------------------
(* Properties. *)

\* The types of an adopt's variables; it holds the lock from the test to the
\* write.
AdoptTypeOK ==
  /\ TypeOK
  /\ apc \in [Adopter -> {"find", "lock"} \cup ALocked \cup AEnd]
  /\ ward \in [Adopter -> DirKey \cup {None}]
  /\ form \in [Adopter -> PveMode \cup {None}]
  /\ number \in [Adopter -> Vmid \cup {None}]
  /\ \A a \in Adopter : (lock = a) <=> apc[a] \in ALocked
  /\ healed \in [Adopter -> SUBSET Creator]
  /\ rivals \subseteq Creator /\ overtaken \subseteq Adopter

\* An instance that an adopt has healed is whole again, files, layers, wrapper
\* and config, and stays so beside the creates of others until it loses its
\* config once more (reconcile.py:404-410).
AdoptedWhole == \A a \in Adopter : \A p \in healed[a] : Intact(p)

\* An adopt never writes over, or beside, the config of another kento instance
\* at its VMID, although create writes its configs outside the lock: the
\* orphan's own files keep its VMID reserved.  A guest that Proxmox itself made
\* before the adopt looked is spared too (reconcile.py:475-492).
AdoptClobbersNothing ==
  [][\A a \in Adopter : apc[a] = "conf" /\ apc'[a] = "done" =>
       \A c \in ConfKey : c.id = number[a] =>
         \/ conf[c] \in {None, ward[a]}
         \/ conf[c] = Foreign /\ a \in overtaken
         \/ \E p \in rivals : conf[c] = Home(p)]_all
===============================================================================
