------------------------------ MODULE KentoState ------------------------------
(***************************************************************************)
(* The state every kento invocation reads and writes: the instance         *)
(* directories and their kento-* files, the podman image holds, the        *)
(* writable layers, the Proxmox configs and hookscript wrappers, the       *)
(* running guests, and the one lock (/run/kento.lock).  There is no        *)
(* daemon and no database: each invocation is a process of its own that    *)
(* scans these files, decides, and writes them.  The modules that EXTEND   *)
(* this one are the operations.                                            *)
(***************************************************************************)
EXTENDS Naturals, Sequences, FiniteSets

CONSTANTS
  Proc,         \* kento invocations (operating-system processes)
  Name,         \* instance names
  AutoName,     \* the generated names base-0, base-1, ... of one image
  Vmid,         \* Proxmox VMIDs, a finite set of naturals from 100 up
  Port,         \* host ports
  None,         \* "no value" / "no such file"
  Foreign,      \* the content of a Proxmox config that kento did not write
  Others,       \* the Proxmox configs of guests that are not kento's
  OutsideState  \* KENTO_STATE_DIR or SUDO_USER is set: layers live elsewhere

ASSUME StateAssumption ==
  /\ Vmid \subseteq Nat
  /\ Others \subseteq [base: {"lxc", "qemu"}, id: Vmid]
  /\ AutoName \in Seq(Name)
  /\ OutsideState \in BOOLEAN
  /\ None \notin Proc \cup Name \cup Vmid \cup Port

VARIABLES
  lock,     \* who holds kento_lock(), or None
  disk,     \* instance directory -> its kento-* files
  holds,    \* instance names with a podman container kento-hold.<name>
  layers,   \* the state directories (upper/ and work/) that exist
  conf,     \* Proxmox config file -> the directory its rootfs line names
  wrapper,  \* snippets wrapper file -> the directory whose hook it runs
  up        \* running guests

host == <<disk, holds, layers, conf, wrapper, up>>

Mode    == {"lxc", "pve", "vm", "pve-vm"}
PveMode == {"pve", "pve-vm"}

(***************************************************************************)
(* Directories: LXC_BASE/<name>, LXC_BASE/<vmid> (pve), VM_BASE/<name>.    *)
(***************************************************************************)
DirKey == [base: {"lxc"}, id: Name \cup Vmid] \cup [base: {"vm"}, id: Name]

\* "No file" and what somebody else has written are told from kento's own.
ASSUME ContentAssumption ==
  /\ None # Foreign /\ None \notin Mode
  /\ {None, Foreign} \cap DirKey = {}

BaseOf(m) == IF m \in {"vm", "pve-vm"} THEN "vm" ELSE "lxc"

\* Mutant: Proxmox containers are filed by name like the others.
DirOfByName(m, n, v) == [base |-> BaseOf(m), id |-> n]

DirOf(m, n, v) == [base |-> BaseOf(m), id |-> IF m = "pve" THEN v ELSE n]

(***************************************************************************)
(* /etc/pve/nodes/<node>/lxc/<vmid>.conf and .../qemu-server/<vmid>.conf;  *)
(* the hookscript wrappers kento-lxc-<vmid>.sh and kento-vm-<vmid>.sh are  *)
(* keyed the same way.                                                     *)
(***************************************************************************)
ConfKey == [base: {"lxc", "qemu"}, id: Vmid]

ConfOf(m, v) == [base |-> IF m = "pve-vm" THEN "qemu" ELSE "lxc", id |-> v]

\* What pct, qm, lxc-start or QEMU runs: Proxmox knows a guest by its VMID,
\* the plain modes by their directory.
GuestOf(m, n, v) == IF m \in PveMode THEN ConfOf(m, v) ELSE DirOf(m, n, v)

Guest == ConfKey \cup DirKey

\* KENTO_STATE_DIR/<id> and ~user/.local/share/kento/<id> leave the base out:
\* only the default location, the instance directory itself, tells the two
\* namespaces apart.
StateDir(d) == IF OutsideState THEN [base |-> "state", id |-> d.id] ELSE d

StateKey == DirKey \cup [base: {"state"}, id: Name \cup Vmid]

(***************************************************************************)
(* The kento-* files of one directory that some decision reads: dir (the   *)
(* directory), image (kento-image), mode, name, vmid, and the host port in *)
(* kento-port.                                                             *)
(***************************************************************************)
Files == [dir: BOOLEAN, image: BOOLEAN, mode: Mode \cup {None},
          name: Name \cup {None}, vmid: Vmid \cup {None},
          port: Port \cup {None}]

NoDir == [dir |-> FALSE, image |-> FALSE, mode |-> None,
          name |-> None, vmid |-> None, port |-> None]

EmptyDir == [dir |-> TRUE, image |-> FALSE, mode |-> None,
             name |-> None, vmid |-> None, port |-> None]

Existing == {d \in DirKey : disk[d].dir}

\* _scan_namespace: the directories of one base that answer to a name.
Scan(n, b) == {d \in Existing : /\ d.base = b
                                /\ disk[d].image
                                /\ d.id = n \/ disk[d].name = n}

\* next_instance_name skips every directory name and every recorded name.
UsedNames == {d.id : d \in Existing} \cup {disk[d].name : d \in Existing}

FreeAutoName == {i \in DOMAIN AutoName : AutoName[i] \notin UsedNames}

\* _used_vmids: what Proxmox lists, and what kento has recorded itself.
PveViewVmids == {c.id : c \in {k \in ConfKey : conf[k] # None}}

KentoRecordedVmids ==
  {d.id : d \in {e \in Existing : e.base = "lxc" /\ e.id \in Vmid}}
    \cup {disk[d].vmid : d \in {e \in Existing : /\ e.base = "vm"
                                                 /\ disk[e].vmid # None}}

UsedVmids == PveViewVmids \cup KentoRecordedVmids

FreeVmids == Vmid \ UsedVmids

\* allocate_port skips every host port some kento-port file names.
UsedPorts == {disk[d].port : d \in Existing}

\* Mutant: kento-mode is taken to be there.
ModeOfFile(d) == disk[d].mode

\* read_mode: without kento-mode, an instance is of its namespace's own mode.
ModeOf(d) == IF disk[d].mode = None THEN d.base ELSE disk[d].mode

\* The VMID of a Proxmox container is its directory name.
VmidOf(d, m) == IF m = "pve" THEN d.id ELSE disk[d].vmid

\* _scan_namespace prefers the directory of that name.
Hits(n, b) == LET direct == {d \in Scan(n, b) : d.id = n}
              IN IF direct # {} THEN direct ELSE Scan(n, b)

\* resolve_any: without a scope a name in both namespaces is ambiguous.
Matches(n, scope) ==
  IF scope # "any" THEN Hits(n, scope)
  ELSE IF Hits(n, "lxc") # {} /\ Hits(n, "vm") # {} THEN {}
  ELSE Hits(n, "lxc") \cup Hits(n, "vm")

(***************************************************************************)
(* A host before its first kento command.                                  *)
(***************************************************************************)
HostInit ==
  /\ lock = None
  /\ disk = [d \in DirKey |-> NoDir]
  /\ holds = {}
  /\ layers = {}
  /\ conf = [c \in ConfKey |-> IF c \in Others THEN Foreign ELSE None]
  /\ wrapper = [c \in ConfKey |-> None]
  /\ up = {}

HostTypeOK ==
  /\ lock \in Proc \cup {None}
  /\ disk \in [DirKey -> Files]
  /\ holds \subseteq Name
  /\ layers \subseteq StateKey
  /\ conf \in [ConfKey -> DirKey \cup {None, Foreign}]
  /\ wrapper \in [ConfKey -> DirKey \cup {None}]
  /\ up \subseteq Guest
===============================================================================
