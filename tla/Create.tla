-------------------------------- MODULE Create --------------------------------
(***************************************************************************)
(* kento create (create.py:create()).  Each creator is one invocation with *)
(* its validated parameters.  Name, VMID and directory are allocated under *)
(* kento_lock(); everything after the mkdir runs outside it, so the steps  *)
(* below interleave with those of any other invocation.  Each side effect  *)
(* is one step, and where the code registers the matching undo only after  *)
(* the effect, that is a step of its own.                                  *)
(***************************************************************************)
EXTENDS KentoState

CONSTANTS
  Creator,     \* the invocations that run create()
  Asks,        \* creator -> the requests it may have been given
  Allocate,    \* "pick one for me": no --name, no --vmid, --port auto
  Stubborn,    \* the rollback actions that may raise
  Interrupts,  \* KeyboardInterrupt, or an error half-way, may hit anywhere
  Crashes      \* an invocation may be killed outright

Request == [mode: Mode, name: Name \cup {Allocate},
            vmid: Vmid \cup {Allocate}, port: Port \cup {Allocate, None},
            force: BOOLEAN, start: BOOLEAN]

\* The labels of the undos list ("stop" is qm-stop, pct-stop, lxc-stop or
\* vm-stop; "conf" is qm-config or pve-config, "wrapper" likewise).
Label == {"dir", "hold", "state", "wrapper", "conf", "stop"}

ASSUME CreateAssumption ==
  /\ Creator \subseteq Proc
  /\ Asks \in [Creator -> SUBSET Request]
  /\ Allocate \notin Name \cup Vmid \cup Port \cup {None}
  /\ Stubborn \subseteq Label
  /\ Interrupts \in BOOLEAN
  /\ Crashes \in BOOLEAN

VARIABLES
  pc,     \* the next step of each creator
  req,    \* its parameters
  name,   \* the resolved instance name
  vmid,   \* the resolved VMID
  port,   \* the host port about to be written
  undos,  \* the rollback actions registered so far
  stuck   \* the rollback actions that raised

local == <<pc, req, name, vmid, port, undos, stuck>>
vars  == <<lock, host, local>>

LockedPc == {"name", "vmid", "mkdir"}
PortPc   == {"portPick", "portWrite"}
\* Between an effect and the registration of its undo.
GapPc    == {"holdUndo", "stateUndo", "wrapperUndo", "confUndo"}
TryPc    == {"hold", "stateTest", "stateFresh", "stateShared", "image", "mode",
             "nameFile", "portLock", "wrapper", "vmidFile", "conf", "start",
             "boot"} \cup PortPc \cup GapPc
EndPc    == {"done", "refused", "failed", "crashed"}
Pc       == {"lock", "enter", "rollback"} \cup LockedPc \cup TryPc \cup EndPc

Home(p)  == DirOf(req[p].mode, name[p], vmid[p])
Conf(p)  == ConfOf(req[p].mode, vmid[p])
Guests(p) == GuestOf(req[p].mode, name[p], vmid[p])

Init ==
  /\ HostInit
  /\ pc = [p \in Creator |-> "lock"]
  /\ req \in [Creator -> UNION {Asks[p] : p \in Creator}]
  /\ \A p \in Creator : req[p] \in Asks[p]
  /\ name = [p \in Creator |-> None]
  /\ vmid = [p \in Creator |-> None]
  /\ port = [p \in Creator |-> None]
  /\ undos = [p \in Creator |-> << >>]
  /\ stuck = [p \in Creator |-> {}]

Goto(p, l) == pc' = [pc EXCEPT ![p] = l]

Register(p, l) == undos' = [undos EXCEPT ![p] = Append(@, l)]

-------------------------------------------------------------------------------
(* Under kento_lock(): name, VMID, directory. *)

\* flock(LOCK_EX), for the allocation and again for the ports.
Acquire(p) ==
  /\ pc[p] \in {"lock", "portLock"}
  /\ lock = None
  /\ lock' = p
  /\ Goto(p, IF pc[p] = "lock" THEN "name" ELSE "portPick")
  /\ UNCHANGED <<host, req, name, vmid, port, undos, stuck>>

AfterName(p) == Goto(p, IF req[p].mode \in PveMode THEN "vmid" ELSE "mkdir")

\* Mutant: only the directories of the target namespace are scanned.
GenerateNameOneBase(p) ==
  /\ pc[p] = "name"
  /\ req[p].name = Allocate
  /\ LET free == {i \in DOMAIN AutoName :
                    \A d \in Existing : d.base = BaseOf(req[p].mode)
                                        => d.id # AutoName[i]}
     IN \E i \in free : /\ \A j \in free : i <= j
                        /\ name' = [name EXCEPT ![p] = AutoName[i]]
  /\ AfterName(p)
  /\ UNCHANGED <<lock, host, req, vmid, port, undos, stuck>>

\* next_instance_name: the first generated name nobody has.
GenerateName(p) ==
  /\ pc[p] = "name"
  /\ req[p].name = Allocate
  /\ \E i \in FreeAutoName :
       /\ \A j \in FreeAutoName : i <= j
       /\ name' = [name EXCEPT ![p] = AutoName[i]]
  /\ AfterName(p)
  /\ UNCHANGED <<lock, host, req, vmid, port, undos, stuck>>

\* An explicit name: --force looks only at the target namespace.
NameConflict(p) ==
  \E b \in IF req[p].force THEN {BaseOf(req[p].mode)} ELSE {"lxc", "vm"} :
    Scan(req[p].name, b) # {}

TakeName(p) ==
  /\ pc[p] = "name"
  /\ req[p].name # Allocate
  /\ ~NameConflict(p)
  /\ name' = [name EXCEPT ![p] = req[p].name]
  /\ AfterName(p)
  /\ UNCHANGED <<lock, host, req, vmid, port, undos, stuck>>

\* next_vmid, or validate_vmid of an explicit --vmid.
TakeVmid(p) ==
  /\ pc[p] = "vmid"
  /\ \E v \in FreeVmids :
       /\ IF req[p].vmid = Allocate THEN \A u \in FreeVmids : v <= u
                                ELSE v = req[p].vmid
       /\ vmid' = [vmid EXCEPT ![p] = v]
  /\ Goto(p, "mkdir")
  /\ UNCHANGED <<lock, host, req, name, port, undos, stuck>>

\* Mutant: mkdir(exist_ok=True) without the existence check.
MakeDirAnyway(p) ==
  /\ pc[p] = "mkdir"
  /\ disk' = [disk EXCEPT ![Home(p)].dir = TRUE]
  /\ lock' = None
  /\ Goto(p, "enter")
  /\ UNCHANGED <<holds, layers, conf, wrapper, up, req, name, vmid, port,
                 undos, stuck>>

\* The existence check, the mkdir, and the end of the with block.
MakeDir(p) ==
  /\ pc[p] = "mkdir"
  /\ ~disk[Home(p)].dir
  /\ disk' = [disk EXCEPT ![Home(p)] = EmptyDir]
  /\ lock' = None
  /\ Goto(p, "enter")
  /\ UNCHANGED <<holds, layers, conf, wrapper, up, req, name, vmid, port,
                 undos, stuck>>

\* Mutant: a refusal returns without releasing the lock.
RefuseLocked(p) ==
  /\ pc[p] \in LockedPc
  /\ Goto(p, "refused")
  /\ UNCHANGED <<lock, host, req, name, vmid, port, undos, stuck>>

\* InstanceExistsError, a VMID in use, an I/O error: nothing was made yet,
\* and the context manager's finally releases the lock.
Refuse(p) ==
  /\ pc[p] \in LockedPc
  /\ lock' = None
  /\ Goto(p, "refused")
  /\ UNCHANGED <<host, req, name, vmid, port, undos, stuck>>

-------------------------------------------------------------------------------
(* Outside the lock. *)

\* --config-mode cloudinit for an image without cloud-init: an rmtree of its
\* own, before the undos list exists.
RejectSeed(p) ==
  /\ pc[p] = "enter"
  /\ disk' = [disk EXCEPT ![Home(p)] = NoDir]
  /\ Goto(p, "failed")
  /\ UNCHANGED <<lock, holds, layers, conf, wrapper, up, req, name, vmid,
                 port, undos, stuck>>

EnterTry(p) ==
  /\ pc[p] = "enter"
  /\ Register(p, "dir")
  /\ \E l \in {"hold", "stateTest"} : Goto(p, l)   \* a URL rootfs has no hold
  /\ UNCHANGED <<lock, host, req, name, vmid, port, stuck>>

\* create_image_hold: podman's exit status is not looked at.
PinImage(p) ==
  /\ pc[p] = "hold"
  /\ holds' \in {holds, holds \cup {name[p]}}
  /\ Goto(p, "holdUndo")
  /\ UNCHANGED <<lock, disk, layers, conf, wrapper, up, req, name, vmid, port,
                 undos, stuck>>

\* state_dir_existed_outside.
TestState(p) ==
  /\ pc[p] = "stateTest"
  /\ LET s == StateDir(Home(p))
     IN Goto(p, IF s # Home(p) /\ s \notin layers THEN "stateFresh"
                                                  ELSE "stateShared")
  /\ UNCHANGED <<lock, host, req, name, vmid, port, undos, stuck>>

\* mkdir(parents=True, exist_ok=True): it would recreate the instance
\* directory itself if that had gone.
MakeState(p) ==
  /\ pc[p] \in {"stateFresh", "stateShared"}
  /\ layers' = layers \cup {StateDir(Home(p))}
  /\ disk' = IF StateDir(Home(p)) = Home(p)
             THEN [disk EXCEPT ![Home(p)].dir = TRUE] ELSE disk
  /\ Goto(p, IF pc[p] = "stateFresh" THEN "stateUndo" ELSE "image")
  /\ UNCHANGED <<lock, holds, conf, wrapper, up, req, name, vmid, port, undos,
                 stuck>>

\* One of the kento-* files of the instance directory, which must be there.
WriteFile(p, files, l) ==
  /\ disk[Home(p)].dir
  /\ disk' = [disk EXCEPT ![Home(p)] = files]
  /\ Goto(p, l)
  /\ UNCHANGED <<lock, holds, layers, conf, wrapper, up, req, name, vmid,
                 port, undos, stuck>>

\* Where the configuration ends: --start, or nothing more to do.
AfterConf(p) == IF req[p].start THEN "start" ELSE "done"

\* The wrapper is always written for pve-vm, and for pve when --port, --memory
\* or --cores ask for the hook.
AfterPort(p) ==
  CASE req[p].mode = "pve-vm"                   -> {"wrapper"}
    [] req[p].mode = "pve" /\ req[p].port # None -> {"wrapper"}
    [] req[p].mode = "pve" /\ req[p].port = None -> {"wrapper", "conf"}
    [] OTHER                                    -> {AfterConf(p)}

WriteImage(p) ==
  /\ pc[p] = "image"
  /\ WriteFile(p, [disk[Home(p)] EXCEPT !.image = TRUE], "mode")

WriteMode(p) ==
  /\ pc[p] = "mode"
  /\ WriteFile(p, [disk[Home(p)] EXCEPT !.mode = req[p].mode], "nameFile")

WriteName(p) ==
  /\ pc[p] = "nameFile"
  /\ \E l \in IF req[p].port = None THEN AfterPort(p) ELSE {"portLock"} :
       WriteFile(p, [disk[Home(p)] EXCEPT !.name = name[p]], l)

\* Mutant: the "auto" placeholder reaches the write.
PickPlaceholder(p) ==
  /\ pc[p] = "portPick"
  /\ port' = [port EXCEPT ![p] = req[p].port]
  /\ Goto(p, "portWrite")
  /\ UNCHANGED <<lock, host, req, name, vmid, undos, stuck>>

\* Mutant: the lock covers the allocation but not the write.
PickPortUnlock(p) ==
  /\ pc[p] = "portPick"
  /\ \E q \in IF req[p].port = Allocate THEN Port \ UsedPorts
                                        ELSE {req[p].port} :
       port' = [port EXCEPT ![p] = q]
  /\ lock' = None
  /\ Goto(p, "portWrite")
  /\ UNCHANGED <<host, req, name, vmid, undos, stuck>>

\* _write_port_specs under the lock: allocate_port takes the first port that
\* no kento-port names and that nothing on the host has bound.
PickPort(p) ==
  /\ pc[p] = "portPick"
  /\ \E q \in IF req[p].port = Allocate THEN Port \ UsedPorts
                                        ELSE {req[p].port} :
       port' = [port EXCEPT ![p] = q]
  /\ Goto(p, "portWrite")
  /\ UNCHANGED <<lock, host, req, name, vmid, undos, stuck>>

WritePort(p) ==
  /\ pc[p] = "portWrite"
  /\ disk[Home(p)].dir
  /\ disk' = [disk EXCEPT ![Home(p)].port = port[p]]
  /\ lock' = None
  /\ \E l \in AfterPort(p) : Goto(p, l)
  /\ UNCHANGED <<holds, layers, conf, wrapper, up, req, name, vmid, port,
                 undos, stuck>>

WriteWrapper(p) ==
  /\ pc[p] = "wrapper"
  /\ wrapper' = [wrapper EXCEPT ![Conf(p)] = Home(p)]
  /\ Goto(p, "wrapperUndo")
  /\ UNCHANGED <<lock, disk, holds, layers, conf, up, req, name, vmid, port,
                 undos, stuck>>

WriteVmid(p) ==
  /\ pc[p] = "vmidFile"
  /\ WriteFile(p, [disk[Home(p)] EXCEPT !.vmid = vmid[p]], "conf")

\* write_qm_config, write_pve_config: the file is written whether or not it
\* exists.
WriteConf(p) ==
  /\ pc[p] = "conf"
  /\ conf' = [conf EXCEPT ![Conf(p)] = Home(p)]
  /\ Goto(p, "confUndo")
  /\ UNCHANGED <<lock, disk, holds, layers, wrapper, up, req, name, vmid,
                 port, undos, stuck>>

\* undos.append after the effect.
AddUndo(p) ==
  /\ \/ /\ pc[p] = "holdUndo"
        /\ Register(p, "hold")
        /\ Goto(p, "stateTest")
     \/ /\ pc[p] = "stateUndo"
        /\ Register(p, "state")
        /\ Goto(p, "image")
     \/ /\ pc[p] = "wrapperUndo"
        /\ Register(p, "wrapper")
        /\ Goto(p, IF req[p].mode = "pve-vm" THEN "vmidFile" ELSE "conf")
     \/ /\ pc[p] = "confUndo"
        /\ Register(p, "conf")
        /\ Goto(p, AfterConf(p))
  /\ UNCHANGED <<lock, host, req, name, vmid, port, stuck>>

\* Mutant: the stop would be registered once the start has succeeded.
RegisterNoStop(p) ==
  /\ pc[p] = "start"
  /\ Goto(p, "boot")
  /\ UNCHANGED <<lock, host, req, name, vmid, port, undos, stuck>>

\* --start: the stop is registered before the start is tried, because a start
\* command may fail after the guest came up.
RegisterStop(p) ==
  /\ pc[p] = "start"
  /\ Register(p, "stop")
  /\ Goto(p, "boot")
  /\ UNCHANGED <<lock, host, req, name, vmid, port, stuck>>

Startable(p) == /\ Guests(p) \notin up
                /\ IF req[p].mode \in PveMode THEN conf[Conf(p)] # None
                                              ELSE disk[Home(p)].dir

StartGuest(p) ==
  /\ pc[p] = "boot"
  /\ Startable(p)
  /\ up' = up \cup {Guests(p)}
  /\ \E l \in {"done", "rollback"} : Goto(p, l)
  /\ UNCHANGED <<lock, disk, holds, layers, conf, wrapper, req, name, vmid,
                 port, undos, stuck>>

-------------------------------------------------------------------------------
(* Failure. *)

\* Any exception in the try block reaches the rollback; out of the port
\* section it passes the context manager, which releases the lock.  Without
\* Interrupts an exception comes before the step's effect, so never in a gap.
Fail(p) ==
  /\ pc[p] \in TryPc
  /\ pc[p] \in GapPc => Interrupts
  /\ lock' = IF pc[p] \in PortPc THEN None ELSE lock
  /\ Goto(p, "rollback")
  /\ UNCHANGED <<host, req, name, vmid, port, undos, stuck>>

\* Between the mkdir and the try, and inside _run_cleanup (which catches
\* Exception only), KeyboardInterrupt ends create() on the spot.
Interrupt(p) ==
  /\ Interrupts
  /\ pc[p] \in {"enter", "rollback"}
  /\ Goto(p, "failed")
  /\ UNCHANGED <<lock, host, req, name, vmid, port, undos, stuck>>

UndoEffect(p, l) ==
  /\ disk' = IF l = "dir" THEN [disk EXCEPT ![Home(p)] = NoDir] ELSE disk
  /\ layers' = CASE l = "dir"   -> layers \ {Home(p)}
                 [] l = "state" -> layers \ {StateDir(Home(p))}
                 [] OTHER       -> layers
  /\ holds' = IF l = "hold" THEN holds \ {name[p]} ELSE holds
  /\ wrapper' = IF l = "wrapper" THEN [wrapper EXCEPT ![Conf(p)] = None]
                                 ELSE wrapper
  /\ conf' = IF l = "conf" THEN [conf EXCEPT ![Conf(p)] = None] ELSE conf
  /\ up' = IF l = "stop" THEN up \ {Guests(p)} ELSE up

\* _run_cleanup: last in, first out; an undo that raises is logged and the
\* rest still run.
RunCleanup(p) ==
  /\ pc[p] = "rollback"
  /\ undos[p] # << >>
  /\ LET n == Len(undos[p])
         l == undos[p][n]
     IN /\ undos' = [undos EXCEPT ![p] = SubSeq(@, 1, n - 1)]
        /\ \/ UndoEffect(p, l) /\ UNCHANGED stuck
           \/ /\ l \in Stubborn
              /\ stuck' = [stuck EXCEPT ![p] = @ \cup {l}]
              /\ UNCHANGED host
  /\ UNCHANGED <<lock, pc, req, name, vmid, port>>

\* Mutant: the bare raise is missing, so create() returns after the rollback.
ReraiseMissing(p) ==
  /\ pc[p] = "rollback"
  /\ undos[p] = << >>
  /\ Goto(p, "done")
  /\ UNCHANGED <<lock, host, req, name, vmid, port, undos, stuck>>

Reraise(p) ==
  /\ pc[p] = "rollback"
  /\ undos[p] = << >>
  /\ Goto(p, "failed")
  /\ UNCHANGED <<lock, host, req, name, vmid, port, undos, stuck>>

\* The process is killed: its flock goes with its file descriptors.
Crash(p) ==
  /\ Crashes
  /\ pc[p] \notin EndPc
  /\ Goto(p, "crashed")
  /\ lock' = IF lock = p THEN None ELSE lock
  /\ UNCHANGED <<host, req, name, vmid, port, undos, stuck>>

-------------------------------------------------------------------------------
CreateStep(p) ==
  \/ Acquire(p)    \/ GenerateName(p) \/ TakeName(p)     \/ TakeVmid(p)
  \/ MakeDir(p)    \/ Refuse(p)       \/ RejectSeed(p)   \/ EnterTry(p)
  \/ PinImage(p)   \/ TestState(p)    \/ MakeState(p)    \/ WriteImage(p)
  \/ WriteMode(p)  \/ WriteName(p)    \/ PickPort(p)     \/ WritePort(p)
  \/ WriteWrapper(p) \/ WriteVmid(p)  \/ WriteConf(p)    \/ AddUndo(p)
  \/ RegisterStop(p) \/ StartGuest(p) \/ Fail(p)         \/ RunCleanup(p)
  \/ Reraise(p)

Finished == /\ \A p \in Creator : pc[p] \in EndPc
            /\ UNCHANGED vars

Next == \/ \E p \in Creator : CreateStep(p) \/ Interrupt(p) \/ Crash(p)
        \/ Finished

Spec == Init /\ [][Next]_vars /\ \A p \in Creator : WF_vars(CreateStep(p))

-------------------------------------------------------------------------------
(* Properties. *)

\* The types of the variables: what every other statement is read under.
TypeOK ==
  /\ HostTypeOK
  /\ pc \in [Creator -> Pc]
  /\ req \in [Creator -> Request]
  /\ name \in [Creator -> Name \cup {None}]
  /\ vmid \in [Creator -> Vmid \cup {None}]
  /\ port \in [Creator -> Port \cup {None}]
  /\ undos \in [Creator -> Seq(Label)]
  /\ stuck \in [Creator -> SUBSET Label]

\* From the mkdir until it has finished, or has undone the mkdir.
Owns(p) == \/ pc[p] \in {"enter", "done"} \cup TryPc
           \/ pc[p] = "rollback" /\ undos[p] # << >>

\* Two creates never work in the same instance directory, and no create
\* loses its directory to another one's rollback: the lock covers the test
\* and the mkdir (create.py:1062-1069), and the rmtree comes last.
DirsDistinct ==
  \A p \in Creator : Owns(p) =>
    /\ disk[Home(p)].dir
    /\ \A q \in Creator : q # p /\ Owns(q) => Home(q) # Home(p)

\* Creates share out the instance directories as Reservation says: no other
\* step of create(), its failures, its rollback and a kill included, gives a
\* directory to two creates, takes it from one, or takes it from one that has
\* succeeded (locking.py:1-8, create.py:1062-1069).
Directories == INSTANCE Reservation
  WITH Client <- Creator, Resource <- DirKey, taken <- Existing,
       held <- [p \in Creator |-> IF Owns(p) THEN {Home(p)} ELSE {}],
       kept <- {p \in Creator : pc[p] = "done"}
ReservesDirectories == Directories!RSpec

\* Two creates that both let kento pick the host port never hold the same
\* one, whatever failed or was rolled back in between (create.py:668-691).
PortsDistinct ==
  \A p, q \in Creator :
    /\ p # q /\ Owns(p) /\ Owns(q)
    /\ req[p].port = Allocate /\ req[q].port = Allocate
    /\ disk[Home(p)].port # None
    => disk[Home(p)].port # disk[Home(q)].port

\* Generated names are unique across the two namespaces, so the podman hold
\* and the state directory named after the instance are its own
\* (create.py:1011-1014, __init__.py:276-299).
NamesDistinct ==
  \A p, q \in Creator :
    /\ p # q /\ Owns(p) /\ Owns(q)
    /\ req[p].name = Allocate /\ req[q].name = Allocate
    => name[p] # name[q]

\* No two creates of Proxmox containers ever work with the same VMID: their
\* directory carries it from inside the lock on (pve.py:100-112).
VmidsDistinct ==
  \A p, q \in Creator :
    /\ p # q /\ Owns(p) /\ Owns(q)
    /\ req[p].mode \in PveMode /\ req[q].mode \in PveMode
    => vmid[p] # vmid[q]

\* Two creates that both reported success never got the same VMID
\* (locking.py:4-6, create.py:1001-1004).
CommittedVmidsDistinct ==
  \A p, q \in Creator :
    /\ p # q /\ pc[p] = "done" /\ pc[q] = "done"
    /\ req[p].mode \in PveMode /\ req[q].mode \in PveMode
    => vmid[p] # vmid[q]

\* The effect that the undo labelled l of create p would take back.
InPlace(p, l) ==
  CASE l = "dir"     -> disk[Home(p)].dir
    [] l = "hold"    -> name[p] \in holds
    [] l = "state"   -> StateDir(Home(p)) \in layers \ {Home(p)}
    [] l = "wrapper" -> req[p].mode \in PveMode /\ wrapper[Conf(p)] = Home(p)
    [] l = "conf"    -> req[p].mode \in PveMode /\ conf[Conf(p)] = Home(p)
    [] l = "stop"    -> Guests(p) \in up

Written(p) == [dir |-> TRUE, image |-> TRUE, mode |-> req[p].mode,
               name |-> name[p], port |-> port[p],
               vmid |-> IF req[p].mode = "pve-vm" THEN vmid[p] ELSE None]

Intact(p) ==
  /\ disk[Home(p)] = Written(p)
  /\ StateDir(Home(p)) \in layers
  /\ \A i \in DOMAIN undos[p] :
       undos[p][i] # "hold" => InPlace(p, undos[p][i])

\* A create that reported success stays complete whatever the others do:
\* its files, layers, wrapper, Proxmox config and running guest survive
\* their rollbacks, crashes and overwrites.
CommittedIntact == \A p \in Creator : pc[p] = "done" => Intact(p)

InProgress(p) == pc[p] \notin {"lock"} \cup EndPc

\* Two creates at once of one explicit name, or of Proxmox VMs with one VMID:
\* the scans under the lock go by kento-image and kento-vmid, which are
\* written outside it.
Rival(p) ==
  \E q \in Creator \ {p} :
    /\ InProgress(p) /\ InProgress(q) /\ name[p] # None
    /\ \/ name[p] = name[q]
       \/ {req[p].mode, req[q].mode} \subseteq PveMode /\ vmid[p] = vmid[q]

\* Names, directories and VMIDs that a later create has taken over.
Shared(p) ==
  \E q \in Creator \ {p} :
    /\ pc[q] \notin {"lock", "refused"} \cup LockedPc
    /\ \/ name[q] = name[p]
       \/ Home(q) = Home(p)
       \/ Guests(q) = Guests(p)

\* A failed create leaves nothing behind but what an undo could not remove
\* (create.py:1556-1562): no directory, hold, layers, wrapper, config, guest.
RollbackComplete ==
  \A p \in Creator : pc[p] = "failed" /\ ~Shared(p) =>
    \A l \in Label : InPlace(p, l) => l \in stuck[p]

\* No step of another create takes away the hold that pins the image of one
\* that is still there (layers.py:287-293 removes it by name alone).
HoldsKept ==
  [][\A p \in Creator :
       /\ Owns(p) /\ pc'[p] = pc[p] /\ undos'[p] = undos[p]
       /\ name[p] \in holds
       => name[p] \in holds']_vars

\* Every create ends: nobody waits for ever on kento_lock(), because each way
\* out of a locked section, the kill included, releases it.
Ends == \A p \in Creator : <>(pc[p] \in EndPc)
===============================================================================
