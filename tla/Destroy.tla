------------------------------- MODULE Destroy -------------------------------
(***************************************************************************)
(* kento destroy (destroy.py) and kento prune --orphans (reap_orphans in   *)
(* reconcile.py), which calls it for each orphan it has found.  Neither    *)
(* takes kento_lock(): a remover looks its victim up once and then works   *)
(* on the directory it was given, in as many steps as there are things to  *)
(* remove, the directory last.                                             *)
(***************************************************************************)
EXTENDS KentoState

CONSTANTS
  Destroyer,  \* the invocations of destroy
  Reaper,     \* the invocations of prune --orphans --yes
  Removals,   \* destroyer -> the requests it may have been given
  Crews,      \* the sets of removers that are run at the same time
  Flaky       \* stop commands, status queries and pmxcfs may fail

Remover == Destroyer \cup Reaper

Removal == [name: Name, scope: {"any", "lxc", "vm"}, force: BOOLEAN]

VARIABLES
  dpc,      \* the next step of each remover
  aim,      \* the request of each destroyer
  handle,   \* the instance directory it works on
  kind,     \* the mode read from it
  title,    \* the name destroy() was given
  state,    \* the state directory read from it
  slot,     \* the VMID read from it
  skipped,  \* what could not be removed and was only warned about
  queue     \* the orphans a reaper has yet to destroy: directory, mode, name

victim  == <<handle, kind, title, state>>
removal == <<dpc, aim, victim, slot, skipped, queue>>

DEnd == {"done", "refused", "failed", "crashed"}
DPc  == {"find", "next", "probe", "stop", "image", "slot", "conf", "wrapper",
         "hold", "state", "files", "dir"} \cup DEnd

DestroyInit ==
  /\ \E crew \in Crews :
       dpc = [r \in Remover |-> IF r \in crew THEN "find" ELSE "done"]
  /\ aim \in [Destroyer -> UNION {Removals[r] : r \in Destroyer}]
  /\ \A r \in Destroyer : aim[r] \in Removals[r]
  /\ handle = [r \in Remover |-> None]
  /\ kind = [r \in Remover |-> None]
  /\ title = [r \in Remover |-> None]
  /\ state = [r \in Remover |-> None]
  /\ slot = [r \in Remover |-> None]
  /\ skipped = [r \in Remover |-> {}]
  /\ queue = [r \in Remover |-> {}]

To(r, l) == dpc' = [dpc EXCEPT ![r] = l]

\* reap_orphans isolates the failure of one destroy and goes on.
Leave(r, l) == To(r, IF r \in Reaper THEN "next" ELSE l)

Forced(r) == r \in Reaper \/ aim[r].force

-------------------------------------------------------------------------------
(* Finding the victim. *)

\* kento-state is written together with kento-mode.
StateOf(d) == IF disk[d].mode = None THEN d ELSE StateDir(d)

Take(r, d, m, n) ==
  /\ handle' = [handle EXCEPT ![r] = d]
  /\ kind' = [kind EXCEPT ![r] = m]
  /\ title' = [title EXCEPT ![r] = n]
  /\ state' = [state EXCEPT ![r] = StateOf(d)]
  /\ slot' = [slot EXCEPT ![r] = None]
  /\ skipped' = [skipped EXCEPT ![r] = {}]
  /\ To(r, "probe")

Resolve(r) ==
  /\ dpc[r] = "find" /\ r \in Destroyer
  /\ \E d \in Matches(aim[r].name, aim[r].scope) :
       Take(r, d, ModeOf(d), aim[r].name)
  /\ UNCHANGED <<lock, host, aim, queue>>

NotFound(r) ==
  /\ dpc[r] = "find" /\ r \in Destroyer
  /\ Matches(aim[r].name, aim[r].scope) = {}
  /\ To(r, "refused")
  /\ UNCHANGED <<lock, host, aim, victim, slot, skipped, queue>>

\* _is_orphan: a Proxmox instance whose VMID or config is gone.
IsOrphan(d) ==
  /\ ModeOf(d) \in PveMode
  /\ LET v == VmidOf(d, ModeOf(d))
     IN v = None \/ conf[ConfOf(ModeOf(d), v)] = None

\* find_orphans, and the list that reap_orphans then walks through.
FindOrphans(r) ==
  /\ dpc[r] = "find" /\ r \in Reaper
  /\ queue' = [queue EXCEPT ![r] =
       {<<d, ModeOf(d), IF disk[d].name = None THEN d.id ELSE disk[d].name>> :
          d \in {e \in Existing : disk[e].image /\ IsOrphan(e)}}]
  /\ To(r, "next")
  /\ UNCHANGED <<lock, host, aim, victim, slot, skipped>>

\* destroy(force=True) of the directory and mode that the scan has found.
ReapNext(r) ==
  /\ dpc[r] = "next"
  /\ \/ /\ queue[r] = {}
        /\ To(r, "done")
        /\ UNCHANGED <<victim, slot, skipped, queue>>
     \/ \E o \in queue[r] :
          /\ queue' = [queue EXCEPT ![r] = @ \ {o}]
          /\ Take(r, o[1], o[2], o[3])
  /\ UNCHANGED <<lock, host, aim>>

-------------------------------------------------------------------------------
(* destroy(). *)

GuestAt(r) == GuestOf(kind[r], handle[r].id, VmidOf(handle[r], kind[r]))

\* is_running: without a config or a VMID a Proxmox guest is taken for gone, and
\* a status query that fails is taken for a running one.
IsRunning(r) ==
  LET v == VmidOf(handle[r], kind[r])
  IN IF /\ kind[r] \in PveMode
        /\ v = None \/ conf[ConfOf(kind[r], v)] = None
     THEN {FALSE}
     ELSE {GuestAt(r) \in up}
            \cup {b \in {TRUE} : Flaky /\ kind[r] \in PveMode}

Probe(r) ==
  /\ dpc[r] = "probe"
  /\ \E running \in IsRunning(r) :
       IF ~running THEN To(r, "image")
       ELSE IF Forced(r) THEN To(r, "stop") ELSE Leave(r, "refused")
  /\ UNCHANGED <<lock, host, aim, victim, slot, skipped, queue>>

\* Best effort: a stop that fails is logged.
StopVictim(r) ==
  /\ dpc[r] = "stop"
  /\ \/ up' = up \ {GuestAt(r)} /\ UNCHANGED skipped
     \/ /\ Flaky
        /\ skipped' = [skipped EXCEPT ![r] = @ \cup {"stop"}]
        /\ UNCHANGED up
  /\ To(r, "image")
  /\ UNCHANGED <<lock, disk, holds, layers, conf, wrapper, aim, victim, slot,
                 queue>>

\* Mutant: the directory goes first, the config after it.
ReadImageFirst(r) ==
  /\ dpc[r] = "image"
  /\ slot' = [slot EXCEPT ![r] = IF kind[r] \in PveMode
                                 THEN VmidOf(handle[r], kind[r]) ELSE None]
  /\ disk' = [disk EXCEPT ![handle[r]] = NoDir]
  /\ layers' = layers \ {handle[r]}
  /\ To(r, IF slot'[r] = None THEN "hold" ELSE "conf")
  /\ UNCHANGED <<lock, holds, conf, wrapper, up, aim, victim, skipped, queue>>

\* kento-image is read to release the image mount, and must be there.
ReadImage(r) ==
  /\ dpc[r] = "image"
  /\ IF disk[handle[r]].image THEN To(r, "slot") ELSE Leave(r, "failed")
  /\ UNCHANGED <<lock, host, aim, victim, slot, skipped, queue>>

ReadVmid(r) ==
  /\ dpc[r] = "slot"
  /\ slot' = [slot EXCEPT ![r] = IF kind[r] \in PveMode
                                 THEN VmidOf(handle[r], kind[r]) ELSE None]
  /\ To(r, IF slot'[r] = None THEN "hold" ELSE "conf")
  /\ UNCHANGED <<lock, host, aim, victim, skipped, queue>>

\* delete_pve_config, delete_qm_config; a forced destroy goes on without it.
DeleteConf(r) ==
  /\ dpc[r] = "conf"
  /\ \/ /\ conf' = [conf EXCEPT ![ConfOf(kind[r], slot[r])] = None]
        /\ To(r, "wrapper")
        /\ UNCHANGED skipped
     \/ /\ Flaky
        /\ IF Forced(r) THEN To(r, "hold") ELSE Leave(r, "failed")
        /\ skipped' = [skipped EXCEPT ![r] = @ \cup {"conf", "wrapper"}]
        /\ UNCHANGED conf
  /\ UNCHANGED <<lock, disk, holds, layers, wrapper, up, aim, victim, slot,
                 queue>>

\* delete_lxc_snippets_wrapper, delete_snippets_wrapper.
DeleteWrapper(r) ==
  /\ dpc[r] = "wrapper"
  /\ wrapper' = [wrapper EXCEPT ![ConfOf(kind[r], slot[r])] = None]
  /\ To(r, "hold")
  /\ UNCHANGED <<lock, disk, holds, layers, conf, up, aim, victim, slot,
                 skipped, queue>>

\* remove_image_hold of the recorded name.
RemoveHold(r) ==
  /\ dpc[r] = "hold"
  /\ LET recorded == disk[handle[r]].name
     IN holds' = holds \ {IF recorded # None THEN recorded ELSE title[r]}
  /\ To(r, "state")
  /\ UNCHANGED <<lock, disk, layers, conf, wrapper, up, aim, victim, slot,
                 skipped, queue>>

\* Mutant: the state directory is always taken to be the instance's own.
RemoveStateNot(r) ==
  /\ dpc[r] = "state"
  /\ To(r, "files")
  /\ UNCHANGED <<lock, host, aim, victim, slot, skipped, queue>>

RemoveState(r) ==
  /\ dpc[r] = "state"
  /\ layers' = IF state[r] = handle[r] THEN layers ELSE layers \ {state[r]}
  /\ To(r, "files")
  /\ UNCHANGED <<lock, disk, holds, conf, wrapper, up, aim, victim, slot,
                 skipped, queue>>

\* rmtree: the content goes first, the directory itself last.
RemoveFiles(r) ==
  /\ dpc[r] = "files"
  /\ disk[handle[r]].dir
  /\ disk' = [disk EXCEPT ![handle[r]] = EmptyDir]
  /\ layers' = layers \ {handle[r]}
  /\ To(r, "dir")
  /\ UNCHANGED <<lock, holds, conf, wrapper, up, aim, victim, slot, skipped,
                 queue>>

\* It fails when the directory has been removed, or written to, meanwhile.
RemoveDir(r) ==
  /\ \/ /\ dpc[r] = "dir"
        /\ disk[handle[r]] = EmptyDir /\ handle[r] \notin layers
        /\ disk' = [disk EXCEPT ![handle[r]] = NoDir]
        /\ Leave(r, "done")
     \/ /\ dpc[r] = "files" /\ ~disk[handle[r]].dir
        /\ Leave(r, "failed")
        /\ UNCHANGED disk
     \/ /\ dpc[r] = "dir"
        /\ disk[handle[r]] # EmptyDir \/ handle[r] \in layers
        /\ Leave(r, "failed")
        /\ UNCHANGED disk
  /\ UNCHANGED <<lock, holds, layers, conf, wrapper, up, aim, victim, slot,
                 skipped, queue>>

RemoverStep(r) ==
  \/ Resolve(r)     \/ NotFound(r)      \/ FindOrphans(r) \/ ReapNext(r)
  \/ Probe(r)       \/ StopVictim(r)    \/ ReadImage(r)   \/ ReadVmid(r)
  \/ DeleteConf(r)  \/ DeleteWrapper(r) \/ RemoveHold(r)  \/ RemoveState(r)
  \/ RemoveFiles(r) \/ RemoveDir(r)

DestroyTypeOK ==
  /\ dpc \in [Remover -> DPc]
  /\ aim \in [Destroyer -> Removal]
  /\ handle \in [Remover -> DirKey \cup {None}]
  /\ kind \in [Remover -> Mode \cup {None}]
  /\ \A r \in Remover : (handle[r] = None) = (kind[r] = None)
  /\ title \in [Remover -> Name \cup Vmid \cup {None}]
  /\ state \in [Remover -> StateKey \cup {None}]
  /\ slot \in [Remover -> Vmid \cup {None}]
  /\ skipped \in [Remover -> SUBSET {"stop", "conf", "wrapper"}]
  /\ queue \in [Remover -> SUBSET (DirKey \X Mode \X (Name \cup Vmid))]
===============================================================================
