--------------------------------- MODULE Kento ---------------------------------
(***************************************************************************)
(* The host as a whole: creates, destroys and prunes running side by side  *)
(* on the same directories, while Proxmox guests may be removed behind     *)
(* kento's back (pct destroy, qm destroy).  Creates take kento_lock() for  *)
(* their allocation, removers never do: what protects an instance from a   *)
(* remover is the order in which the files of its neighbour disappear.     *)
(***************************************************************************)
EXTENDS Create, Destroy

CONSTANT OutOfBand   \* Proxmox guests may be removed without kento

ASSUME KentoAssumption ==
  /\ Creator \cap Remover = {} /\ Destroyer \cap Reaper = {}
  /\ Creator \cup Remover \subseteq Proc
  /\ Removals \in [Destroyer -> SUBSET Removal]
  /\ Crews \subseteq SUBSET Remover
  /\ Flaky \in BOOLEAN /\ OutOfBand \in BOOLEAN

VARIABLES
  exposed,  \* history: the creates that a remover, or Proxmox, has met
  rivals,   \* history: the creates that shared a name or a VMID with another
  prey      \* history: remover -> the finished create whose directory it was
            \* the first to take

history == <<exposed, rivals, prey>>
kento   == <<vars, removal, history>>

KentoInit ==
  /\ Init /\ DestroyInit
  /\ exposed = {} /\ rivals = {}
  /\ prey = [r \in Remover |-> {}]

Active(r) == dpc[r] \notin {"find"} \cup DEnd

\* The directories a remover is going to remove.
Aimed(r) == {o[1] : o \in queue[r]}
              \cup {d \in {handle[r]} : Active(r) /\ dpc[r] # "next"}

\* A create that a destroyer has aimed at, whatever its progress; or one that
\* was still going on when its directory was on a reaper's list.
Met(p) ==
  /\ Owns(p)
  /\ \E r \in Remover : /\ Home(p) \in Aimed(r)
                        /\ r \in Reaper => pc[p] # "done"

\* A remover that goes on by name and VMID although its directory, which
\* another command has emptied or removed, reserves them no longer.
Stranded(r) ==
  /\ dpc[r] \in {"slot", "conf", "wrapper", "hold", "state"}
  /\ \/ ~disk[handle[r]].image
     \/ dpc[r] \in {"conf", "wrapper"} /\ VmidOf(handle[r], kind[r]) # slot[r]

Touched(p) == Met(p) \/ (InProgress(p) /\ \E r \in Remover : Stranded(r))

Remember ==
  /\ exposed' = exposed \cup {p \in Creator : Touched(p)'}
  /\ rivals' = rivals \cup {p \in Creator : Rival(p)'}
  /\ prey' = [r \in Remover |->
                IF dpc'[r] = "probe" /\ dpc[r] # "probe"
                THEN {p \in Creator \ rivals :
                        /\ pc[p] = "done" /\ Home(p) = handle'[r]
                        /\ \A s \in Remover \ {r} : handle[s] # Home(p)}
                ELSE prey[r]]

\* pct destroy, qm destroy: Proxmox refuses while the guest runs.
RemoveOutOfBand ==
  /\ OutOfBand
  /\ \E c \in ConfKey :
       /\ conf[c] \in DirKey
       /\ c \notin up
       /\ conf' = [conf EXCEPT ![c] = None]
       /\ exposed' = exposed \cup {p \in Creator : conf[c] = Home(p)}
  /\ UNCHANGED <<lock, disk, holds, layers, wrapper, up, local, removal, rivals,
                 prey>>

CreatorMoves(p) == CreateStep(p) /\ UNCHANGED removal /\ Remember

RemoverMoves(r) == RemoverStep(r) /\ UNCHANGED local /\ Remember

Stopped == /\ \A p \in Creator : pc[p] \in EndPc
           /\ \A r \in Remover : dpc[r] \in DEnd
           /\ UNCHANGED kento

KentoNext ==
  \/ \E p \in Creator : CreatorMoves(p)
  \/ \E r \in Remover : RemoverMoves(r)
  \/ RemoveOutOfBand
  \/ Stopped

KentoSpec == KentoInit /\ [][KentoNext]_kento

-------------------------------------------------------------------------------
(* Properties. *)

\* The types of the variables of the whole host.
KentoTypeOK == /\ TypeOK /\ DestroyTypeOK
               /\ exposed \cup rivals \subseteq Creator
               /\ prey \in [Remover -> SUBSET Creator]

\* An instance that no destroyer aimed at, whose config nobody deleted behind
\* kento's back, that no reaper's scan met half made, and whose name and VMID no
\* other create was given at the same time, stays whole while its
\* neighbours are destroyed and their names and VMIDs are given to it: a
\* destroy deletes config, wrapper and state directory by VMID and name while
\* its own directory still reserves them (destroy.py:87-129).
SurvivorsIntact ==
  \A p \in Creator \ (exposed \cup rivals) : pc[p] = "done" => Intact(p)

\* A destroy that ends well leaves nothing of the finished instance it was
\* given: no hold, layers, wrapper, config or guest, but what a forced one
\* has warned it could not remove (destroy.py:38-129).
DestroyComplete ==
  [][\A r \in Remover :
       dpc[r] = "dir" /\ disk[handle[r]].dir /\ ~disk'[handle[r]].dir
       => \A p \in prey[r] :
            ~Shared(p) => \A l \in Label : InPlace(p, l)' => l \in skipped[r]
    ]_kento

\* prune --orphans never takes away an instance whose Proxmox config nobody
\* has deleted: no destroyer and no out-of-band removal being there, a create
\* that reported success keeps its directory (reconcile.py:167-170).
ReapSparesHealthy == \A p \in Creator : pc[p] = "done" => disk[Home(p)].dir
===============================================================================
