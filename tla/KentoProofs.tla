----------------------------- MODULE KentoProofs -----------------------------
(***************************************************************************)
(* Creates, destroys and prunes on one host: any number of each, with any  *)
(* of them failing, and Proxmox guests removed behind kento's back.        *)
(***************************************************************************)
EXTENDS Kento, RollbackProofs

-------------------------------------------------------------------------------
(* Types. *)

\* What holds of the creates whatever the removers do to the host.
Core == TInv /\ UndoShape /\ Asked /\ Stages /\ ConfigUndos /\ PortUnset /\ ModesFiled

\* What is not there has no content, and only VMs have a VMID file.
Shaped ==
  \A d \in DirKey : /\ ~disk[d].dir => disk[d] = NoDir
                    /\ disk[d].vmid # None => d.base = "vm"

\* A mode that the namespace of the directory d allows.
Fits(d, m) == d \in DirKey /\ m \in Mode /\ d.base = BaseOf(m) /\ (m = "pve" => d.id \in Vmid)

\* What a remover has read of its instance fits together.
Fitted(r) ==
  /\ handle[r] # None => /\ Fits(handle[r], kind[r])
                         /\ state[r] \in {handle[r], StateDir(handle[r])}
  /\ dpc[r] \notin {"find", "next"} \cup DEnd => handle[r] # None
  /\ dpc[r] \in {"conf", "wrapper"} => kind[r] \in PveMode /\ slot[r] \in Vmid
  /\ \A o \in queue[r] : Fits(o[1], o[2])

Histories == exposed \cup rivals \subseteq Creator /\ prey \in [Remover -> SUBSET Creator]

HostInv == Core /\ Shaped /\ DestroyTypeOK /\ (\A r \in Remover : Fitted(r)) /\ Histories

\* What is written to a directory by its create.
LEMMA StepShaped == ASSUME TInv, Stages, Shaped, NEW c \in Creator, Step(c) PROVE Shaped'
  <1>0. disk \in [DirKey -> Files]
    BY DEF TInv, TypeOK, HostTypeOK
  <1>1. CASE MakeDir(c) \/ RejectSeed(c) \/ RunCleanup(c)
    <2>1. \/ disk' = disk \/ disk' = [disk EXCEPT ![Home(c)] = NoDir]
          \/ disk' = [disk EXCEPT ![Home(c)] = EmptyDir]
      BY <1>1 DEF MakeDir, RejectSeed, RunCleanup, UndoEffect, host
    <2>2. NoDir.vmid = None /\ EmptyDir.vmid = None /\ EmptyDir.dir
      BY DEF NoDir, EmptyDir
    <2> QED BY <1>0, <2>1, <2>2 DEF Shaped
  <1>2. CASE WriteImage(c) \/ WriteMode(c) \/ WriteName(c) \/ WritePort(c) \/ MakeState(c)
    <2>1. Home(c) \in DirKey /\ disk[Home(c)] \in Files
      BY <1>0, <1>2, Keys DEF WriteImage, WriteMode, WriteName, WritePort, MakeState
    <2>2. ASSUME NEW d \in DirKey
          PROVE  /\ disk'[d].vmid = disk[d].vmid
                 /\ disk'[d].dir \/ disk'[d] = disk[d]
      <3>1. CASE WriteImage(c)
        BY <1>0, <2>1, <3>1 DEF WriteImage, WriteFile, Files
      <3>2. CASE WriteMode(c)
        BY <1>0, <2>1, <3>2 DEF WriteMode, WriteFile, Files
      <3>3. CASE WriteName(c)
        BY <1>0, <2>1, <3>3 DEF WriteName, WriteFile, Files
      <3>4. CASE WritePort(c)
        BY <1>0, <2>1, <3>4 DEF WritePort, Files
      <3>5. CASE MakeState(c)
        BY <1>0, <2>1, <3>5 DEF MakeState, Files
      <3> QED BY <1>2, <3>1, <3>2, <3>3, <3>4, <3>5
    <2> QED BY <2>2 DEF Shaped
  <1>3. CASE WriteVmid(c)
    <2>1. Home(c).base = "vm"
      BY <1>3 DEF WriteVmid, Stages, Home, DirOf, BaseOf
    <2> QED BY <1>0, <1>3, <2>1 DEF Shaped, WriteVmid, WriteFile, Files
  <1>4. CASE ~(\/ MakeDir(c) \/ RejectSeed(c) \/ RunCleanup(c) \/ WriteImage(c) \/ WriteMode(c)
              \/ WriteName(c) \/ WritePort(c) \/ MakeState(c) \/ WriteVmid(c))
    <2>1. disk' = disk
      BY <1>4 DEF host, Step, CreateStep, Interrupt, Crash, Acquire, GenerateName, TakeName,
         TakeVmid, Refuse, EnterTry, PinImage, TestState, PickPort, WriteWrapper, WriteConf,
         AddUndo, RegisterStop, StartGuest, Fail, Reraise
    <2> QED BY <2>1 DEF Shaped
  <1> QED BY <1>1, <1>2, <1>3, <1>4

LEMMA CoreByCreate == ASSUME Core, NEW c \in Creator, Step(c) PROVE Core'
  BY StepTyped, StepUndoShape, StepAsked, StepStages, StepConfigUndos, StepPortUnset,
     StepModesFiled DEF Core, Step, Next

\* A remover touches only the directory, the state directory, the guest, the
\* config and the wrapper that it has found.
LEMMA RemoverHost ==
  ASSUME HostInv, NEW r \in Remover, RemoverStep(r)
  PROVE  /\ lock' = lock /\ holds' \subseteq holds
         /\ \/ disk' = disk
            \/ /\ dpc[r] \in {"files", "dir"} /\ handle[r] \in DirKey /\ disk[handle[r]].dir
               /\ disk' \in {[disk EXCEPT ![handle[r]] = f] : f \in {EmptyDir, NoDir}}
         /\ \/ layers' = layers
            \/ dpc[r] = "state" /\ state[r] # handle[r] /\ layers' = layers \ {state[r]}
            \/ dpc[r] = "files" /\ layers' = layers \ {handle[r]}
         /\ \/ conf' = conf
            \/ dpc[r] = "conf" /\ conf' = [conf EXCEPT ![ConfOf(kind[r], slot[r])] = None]
         /\ \/ wrapper' = wrapper
            \/ dpc[r] = "wrapper" /\ wrapper' = [wrapper EXCEPT ![ConfOf(kind[r], slot[r])] = None]
         /\ up' = up \/ (dpc[r] = "stop" /\ up' = up \ {GuestAt(r)})
  <1>1. dpc[r] \in {"files", "dir"} => handle[r] \in DirKey
    BY DEF HostInv, Fitted, Fits, DEnd
  <1>2. EmptyDir.dir
    BY DEF EmptyDir
  <1> QED BY <1>1, <1>2
    DEF RemoverStep, host, Resolve, NotFound, FindOrphans, ReapNext, Probe, StopVictim, ReadImage,
        ReadVmid, DeleteConf, DeleteWrapper, RemoveHold, RemoveState, RemoveFiles, RemoveDir

LEMMA RemoverHostTyped ==
  ASSUME HostInv, NEW r \in Remover, RemoverStep(r), UNCHANGED local
  PROVE  Core' /\ Shaped'
  <1>1. /\ disk \in [DirKey -> Files] /\ EmptyDir \in Files /\ NoDir \in Files
        /\ EmptyDir.vmid = None /\ NoDir.vmid = None /\ EmptyDir.dir
        /\ EmptyDir.mode = None /\ NoDir.mode = None
    BY DEF HostInv, Core, TInv, TypeOK, HostTypeOK, Files, EmptyDir, NoDir
  <1>2. None # "pve"
    BY ContentAssumption DEF Mode
  <1>3. HostTypeOK'
    BY <1>1, RemoverHost DEF HostInv, Core, TInv, TypeOK, HostTypeOK
  <1>4. Shaped' /\ ModesFiled'
    BY <1>1, <1>2, RemoverHost DEF HostInv, Core, Shaped, ModesFiled
  <1>5. TypeOK' /\ Resolved' /\ UndoShape' /\ Asked'
    BY <1>3 DEF HostInv, Core, TInv, TypeOK, Resolved, UndoShape, Asked, local
  <1>6. Stages' /\ ConfigUndos' /\ PortUnset'
    BY DEF HostInv, Core, Stages, ConfigUndos, Registered, PortUnset, local
  <1> QED BY <1>4, <1>5, <1>6 DEF Core, TInv

\* A remover keeps to its own variables.
LEMMA RemoverOthers ==
  ASSUME DestroyTypeOK, NEW r \in Remover, RemoverStep(r), NEW s \in Remover, s # r
  PROVE  /\ dpc'[s] = dpc[s] /\ handle'[s] = handle[s] /\ kind'[s] = kind[s]
         /\ title'[s] = title[s] /\ state'[s] = state[s] /\ slot'[s] = slot[s]
         /\ skipped'[s] = skipped[s] /\ queue'[s] = queue[s] /\ aim' = aim
  BY DEF DestroyTypeOK, RemoverStep, Resolve, NotFound, FindOrphans, ReapNext, Probe, StopVictim,
     ReadImage, ReadVmid, DeleteConf, DeleteWrapper, RemoveHold, RemoveState, RemoveFiles,
     RemoveDir, Take, To, Leave, victim

\* The directories that may be destroyed, with their modes.
LEMMA Found ==
  ASSUME Core, NEW d \in DirKey
  PROVE  Fits(d, ModeOf(d)) /\ StateOf(d) \in {d, StateDir(d)}
  <1>1. disk[d] \in Files /\ d.base \in {"lxc", "vm"} /\ None \notin Mode
    BY ContentAssumption DEF Core, TInv, TypeOK, HostTypeOK, DirKey
  <1> QED BY <1>1 DEF Core, ModesFiled, ModeOf, Files, Fits, Mode, BaseOf, StateOf

\* A remover takes up an instance, or goes on with the one it has.
LEMMA RemoverTakes ==
  ASSUME HostInv, NEW r \in Remover, RemoverStep(r)
  PROVE  \/ \E d \in DirKey, m \in Mode :
              /\ Fits(d, m) /\ dpc[r] \in {"find", "next"}
              /\ dpc'[r] = "probe" /\ handle'[r] = d /\ kind'[r] = m /\ state'[r] = StateOf(d)
              /\ slot'[r] = None /\ queue'[r] \subseteq queue[r]
              /\ dpc[r] = "next" => \E o \in queue[r] : o[1] = d
              /\ dpc[r] = "find" => r \in Destroyer
         \/ /\ handle'[r] = handle[r] /\ kind'[r] = kind[r] /\ state'[r] = state[r]
            /\ title'[r] = title[r]
            /\ dpc[r] \notin {"find", "next"} \cup DEnd \/ dpc'[r] \in {"next"} \cup DEnd
            /\ slot'[r] = slot[r] \/ ReadVmid(r)
            /\ queue'[r] = queue[r] \/ FindOrphans(r)
  <1>1. CASE Resolve(r)
    <2>1. PICK d \in Matches(aim[r].name, aim[r].scope) : Take(r, d, ModeOf(d), aim[r].name)
      BY <1>1 DEF Resolve
    <2>2. d \in DirKey
      BY DEF Matches, Hits, Scan, Existing
    <2>3. Fits(d, ModeOf(d)) /\ ModeOf(d) \in Mode
      BY <2>2, Found DEF HostInv, Fits
    <2>4. /\ dpc[r] = "find" /\ r \in Destroyer /\ dpc'[r] = "probe" /\ handle'[r] = d
          /\ kind'[r] = ModeOf(d) /\ state'[r] = StateOf(d) /\ slot'[r] = None
          /\ queue'[r] = queue[r]
      BY <1>1, <2>1 DEF Resolve, Take, To, HostInv, DestroyTypeOK
    <2> QED BY <2>2, <2>3, <2>4
  <1>2. CASE ReapNext(r)
    <2>1. CASE \E o \in queue[r] : /\ queue' = [queue EXCEPT ![r] = @ \ {o}]
                                   /\ Take(r, o[1], o[2], o[3])
      <3>1. PICK o \in queue[r] : /\ queue' = [queue EXCEPT ![r] = @ \ {o}]
                                  /\ Take(r, o[1], o[2], o[3])
        BY <2>1
      <3>2. Fits(o[1], o[2])
        BY DEF HostInv, Fitted
      <3>3. /\ dpc[r] = "next" /\ dpc'[r] = "probe" /\ handle'[r] = o[1]
            /\ kind'[r] = o[2] /\ state'[r] = StateOf(o[1]) /\ slot'[r] = None
            /\ queue'[r] \subseteq queue[r]
        BY <1>2, <3>1 DEF ReapNext, Take, To, HostInv, DestroyTypeOK
      <3> QED BY <3>2, <3>3 DEF Fits
    <2>2. CASE queue[r] = {} /\ To(r, "done") /\ UNCHANGED <<victim, slot, skipped, queue>>
      BY <1>2, <2>2 DEF ReapNext, To, victim, HostInv, DestroyTypeOK, DEnd
    <2> QED BY <1>2, <2>1, <2>2 DEF ReapNext
  <1>3. CASE ~Resolve(r) /\ ~ReapNext(r)
    BY <1>3
    DEF HostInv, DestroyTypeOK, RemoverStep, NotFound, FindOrphans, Probe, StopVictim,
        ReadImage, ReadVmid, DeleteConf, DeleteWrapper, RemoveHold, RemoveState, RemoveFiles,
        RemoveDir, To, Leave, victim, DEnd
  <1> QED BY <1>1, <1>2, <1>3

LEMMA StepFitted ==
  ASSUME HostInv, NEW r \in Remover, RemoverStep(r)
  PROVE  \A s \in Remover : Fitted(s)'
  <1>1. \A s \in Remover \ {r} : Fitted(s)'
    BY RemoverOthers DEF HostInv, Fitted
  <1>2. \A o \in queue'[r] : Fits(o[1], o[2])
    <2>1. CASE FindOrphans(r)
      <3>1. queue'[r] = {<<d, ModeOf(d), IF disk[d].name = None THEN d.id ELSE disk[d].name>> :
                           d \in {e \in Existing : disk[e].image /\ IsOrphan(e)}}
        BY <2>1 DEF FindOrphans, HostInv, DestroyTypeOK
      <3>2. \A d \in Existing : Fits(d, ModeOf(d))
        BY Found DEF HostInv, Existing
      <3> QED BY <3>1, <3>2
    <2>2. CASE ~FindOrphans(r)
      BY <2>2, RemoverTakes DEF HostInv, Fitted
    <2> QED BY <2>1, <2>2
  <1>3. handle'[r] # None => /\ Fits(handle'[r], kind'[r])
                             /\ state'[r] \in {handle'[r], StateDir(handle'[r])}
    BY RemoverTakes, Found DEF HostInv, Fitted
  <1>4. dpc'[r] \notin {"find", "next"} \cup DEnd => handle'[r] # None
    <2>1. None \notin DirKey
      BY ContentAssumption
    <2> QED BY <2>1, RemoverTakes DEF HostInv, Fitted
  <1>5. dpc'[r] \in {"conf", "wrapper"} => kind'[r] \in PveMode /\ slot'[r] \in Vmid
    <2>1. CASE ReadVmid(r)
      <3>1. /\ Fits(handle[r], kind[r]) /\ kind'[r] = kind[r]
            /\ slot'[r] = IF kind[r] \in PveMode THEN VmidOf(handle[r], kind[r]) ELSE None
            /\ dpc'[r] = IF slot'[r] = None THEN "hold" ELSE "conf"
        BY <2>1 DEF ReadVmid, To, victim, HostInv, Fitted, DestroyTypeOK, DEnd
      <3>2. disk[handle[r]].vmid \in Vmid \cup {None}
        BY <3>1 DEF Fits, HostInv, Core, TInv, TypeOK, HostTypeOK, Files
      <3> QED BY <3>1, <3>2 DEF VmidOf, Fits
    <2>2. CASE ~ReadVmid(r)
      <3>1. dpc'[r] \in {"conf", "wrapper"} => dpc[r] \in {"conf", "wrapper"}
        BY <2>2 DEF HostInv, DestroyTypeOK, RemoverStep, Resolve, NotFound, FindOrphans, ReapNext,
           Probe, StopVictim, ReadImage, DeleteConf, DeleteWrapper, RemoveHold, RemoveState,
           RemoveFiles, RemoveDir, Take, To, Leave
      <3> QED BY <2>2, <3>1, RemoverTakes DEF HostInv, Fitted
    <2> QED BY <2>1, <2>2
  <1> QED BY <1>1, <1>2, <1>3, <1>4, <1>5 DEF Fitted

LEMMA StepDestroyTyped ==
  ASSUME HostInv, NEW r \in Remover, RemoverStep(r)
  PROVE  DestroyTypeOK'
  <1> USE DEF HostInv, DestroyTypeOK, To, Leave, victim, DPc, DEnd, Remover
  <1>1. CASE Resolve(r)
    <2>1. PICK d \in Matches(aim[r].name, aim[r].scope) : Take(r, d, ModeOf(d), aim[r].name)
      BY <1>1 DEF Resolve
    <2>2. /\ d \in DirKey /\ ModeOf(d) \in Mode /\ StateOf(d) \in StateKey
          /\ aim[r].name \in Name /\ None \notin DirKey \cup Mode
      <3>1. d \in DirKey
        BY DEF Matches, Hits, Scan, Existing
      <3> QED BY <1>1, <3>1, Found, ContentAssumption
          DEF Fits, Resolve, Removal, StateDir, StateKey, DirKey
    <2> QED BY <1>1, <2>1, <2>2 DEF Resolve, Take
  <1>2. CASE FindOrphans(r)
    <2>1. {<<d, ModeOf(d), IF disk[d].name = None THEN d.id ELSE disk[d].name>> :
             d \in {e \in Existing : disk[e].image /\ IsOrphan(e)}}
          \in SUBSET (DirKey \X Mode \X (Name \cup Vmid))
      <3>1. ASSUME NEW d \in Existing
            PROVE  /\ d \in DirKey /\ ModeOf(d) \in Mode /\ d.id \in Name \cup Vmid
                   /\ disk[d].name \in Name \cup {None}
        BY Found DEF Fits, Existing, DirKey, Core, TInv, TypeOK, HostTypeOK, Files
      <3> QED BY <3>1
    <2> QED BY <1>2, <2>1 DEF FindOrphans
  <1>3. CASE ReapNext(r)
    <2>1. CASE \E o \in queue[r] : /\ queue' = [queue EXCEPT ![r] = @ \ {o}]
                                   /\ Take(r, o[1], o[2], o[3])
      <3>1. PICK o \in queue[r] : /\ queue' = [queue EXCEPT ![r] = @ \ {o}]
                                  /\ Take(r, o[1], o[2], o[3])
        BY <2>1
      <3>2. /\ o[1] \in DirKey /\ o[2] \in Mode /\ o[3] \in Name \cup Vmid
            /\ StateOf(o[1]) \in StateKey /\ None \notin DirKey \cup Mode
        BY ContentAssumption DEF StateOf, StateDir, StateKey, DirKey
      <3> QED BY <1>3, <3>1, <3>2 DEF ReapNext, Take
    <2> QED BY <1>3, <2>1 DEF ReapNext
  <1>4. CASE ReadVmid(r)
    <2>1. /\ Fits(handle[r], kind[r]) /\ slot[r] \in Vmid \cup {None}
      BY <1>4 DEF ReadVmid, Fitted
    <2>2. VmidOf(handle[r], kind[r]) \in Vmid \cup {None}
      BY <2>1 DEF VmidOf, Fits, Core, TInv, TypeOK, HostTypeOK, Files
    <2> QED BY <1>4, <2>2 DEF ReadVmid
  <1>5. CASE ~Resolve(r) /\ ~FindOrphans(r) /\ ~ReapNext(r) /\ ~ReadVmid(r)
    BY <1>5 DEF RemoverStep, NotFound, Probe, StopVictim, ReadImage, DeleteConf, DeleteWrapper,
       RemoveHold, RemoveState, RemoveFiles, RemoveDir
  <1> QED BY <1>1, <1>2, <1>3, <1>4, <1>5

LEMMA InitHostInv == KentoInit => HostInv
  <1> SUFFICES ASSUME KentoInit PROVE HostInv
    OBVIOUS
  <1>1. /\ Init /\ DestroyInit /\ exposed = {} /\ rivals = {} /\ prey = [r \in Remover |-> {}]
        /\ disk = [d \in DirKey |-> NoDir]
    BY DEF KentoInit, Init, HostInit
  <1>2. Core
    <2>1. \A p \in Creator : /\ pc[p] = "lock" /\ undos[p] = << >> /\ stuck[p] = {}
                             /\ port[p] = None /\ req[p] \in Asks[p]
      BY <1>1 DEF Init
    <2>2. SInv /\ Asked /\ Stages /\ ConfigUndos /\ PortUnset
      BY <1>1, <2>1, InitSafe DEF Asked, Stages, ConfPc, ConfigUndos, Registered, PortUnset
    <2>3. ModesFiled
      BY <1>1, ContentAssumption DEF ModesFiled, NoDir, Mode
    <2> QED BY <2>2, <2>3 DEF SInv, Core
  <1>3. Shaped
    BY <1>1 DEF Shaped, NoDir
  <1>4. /\ \A r \in Remover : /\ handle[r] = None /\ kind[r] = None /\ title[r] = None
                             /\ state[r] = None /\ slot[r] = None /\ skipped[r] = {}
                             /\ queue[r] = {} /\ dpc[r] \in {"find", "done"}
        /\ aim \in [Destroyer -> Removal]
    BY <1>1, KentoAssumption DEF DestroyInit
  <1>5. DestroyTypeOK
    BY <1>1, <1>4 DEF DestroyInit, DestroyTypeOK, DPc, DEnd
  <1>6. \A r \in Remover : Fitted(r)
    BY <1>4 DEF Fitted, DEnd
  <1> QED BY <1>1, <1>2, <1>3, <1>5, <1>6 DEF HostInv, Histories

LEMMA Remembered == ASSUME Histories, Remember PROVE Histories'
  BY DEF Histories, Remember

LEMMA CreatorHostInv == ASSUME HostInv, NEW c \in Creator, CreatorMoves(c) PROVE HostInv'
  <1>1. Step(c) /\ UNCHANGED removal
    BY DEF CreatorMoves, Step
  <1>2. Core' /\ Shaped'
    BY <1>1, CoreByCreate, StepShaped DEF HostInv, Core
  <1>3. DestroyTypeOK' /\ \A r \in Remover : Fitted(r)'
    BY <1>1 DEF HostInv, removal, victim, DestroyTypeOK, Fitted, Fits
  <1> QED BY <1>2, <1>3, Remembered DEF HostInv, CreatorMoves

LEMMA RemoverHostInv == ASSUME HostInv, NEW r \in Remover, RemoverMoves(r) PROVE HostInv'
  <1>1. RemoverStep(r) /\ UNCHANGED local
    BY DEF RemoverMoves
  <1> QED BY <1>1, RemoverHostTyped, StepDestroyTyped, StepFitted, Remembered
      DEF HostInv, RemoverMoves

LEMMA ProxmoxHostInv == ASSUME HostInv, RemoveOutOfBand PROVE HostInv'
  <1>1. /\ UNCHANGED local /\ UNCHANGED removal /\ disk' = disk
        /\ \E c \in ConfKey : conf' = [conf EXCEPT ![c] = None]
    BY DEF RemoveOutOfBand
  <1>2. HostTypeOK'
    BY <1>1 DEF RemoveOutOfBand, HostInv, Core, TInv, TypeOK, HostTypeOK
  <1>3. TypeOK' /\ Resolved' /\ UndoShape' /\ Asked'
    BY <1>1, <1>2 DEF HostInv, Core, TInv, TypeOK, Resolved, UndoShape, Asked, local
  <1>4. Stages' /\ ConfigUndos' /\ PortUnset' /\ ModesFiled' /\ Shaped'
    BY <1>1 DEF HostInv, Core, Stages, ConfigUndos, Registered, PortUnset, ModesFiled,
       Shaped, local
  <1>5. DestroyTypeOK' /\ \A r \in Remover : Fitted(r)'
    BY <1>1 DEF HostInv, removal, victim, DestroyTypeOK, Fitted, Fits
  <1>6. Histories'
    BY DEF RemoveOutOfBand, HostInv, Histories
  <1> QED BY <1>3, <1>4, <1>5, <1>6 DEF HostInv, Core, TInv

LEMMA IdleHostInv == ASSUME HostInv, UNCHANGED kento PROVE HostInv'
  <1>1. UNCHANGED vars /\ UNCHANGED removal /\ UNCHANGED history
    BY DEF kento
  <1>2. TypeOK' /\ Resolved' /\ UndoShape' /\ Asked'
    BY <1>1 DEF HostInv, Core, TInv, TypeOK, HostTypeOK, Resolved, UndoShape, Asked, local,
       vars, host
  <1>3. Stages' /\ ConfigUndos' /\ PortUnset' /\ ModesFiled' /\ Shaped'
    BY <1>1 DEF HostInv, Core, Stages, ConfigUndos, Registered, PortUnset, ModesFiled,
       Shaped, local, vars, host
  <1>4. DestroyTypeOK' /\ \A r \in Remover : Fitted(r)'
    BY <1>1 DEF HostInv, removal, victim, DestroyTypeOK, Fitted, Fits
  <1>5. Histories'
    BY <1>1 DEF HostInv, Histories, history
  <1> QED BY <1>2, <1>3, <1>4, <1>5 DEF HostInv, Core, TInv

LEMMA StepHostInv == HostInv /\ [KentoNext]_kento => HostInv'
  BY CreatorHostInv, RemoverHostInv, ProxmoxHostInv, IdleHostInv DEF KentoNext, Stopped

LEMMA HostInvariant == KentoSpec => []HostInv
  BY InitHostInv, StepHostInv, PTL DEF KentoSpec

\* Whatever creates and removers do side by side on one host, no step reads a
\* file as something it is not: a directory's recorded mode, name and VMID, the
\* directory, mode, VMID and state directory that a remover has read and works
\* with, and the orphans that a prune has yet to destroy are always of their
\* kinds (create.py:1006-1562, destroy.py:38-129, reconcile.py:117-170).
THEOREM KentoTyped == KentoSpec => []KentoTypeOK
  <1>1. HostInv => KentoTypeOK
    BY DEF HostInv, Core, TInv, Histories, KentoTypeOK
  <1> QED BY <1>1, HostInvariant, PTL

-------------------------------------------------------------------------------
(* What tells an instance that nobody has aimed at from all the others. *)

\* Nobody has asked for --force, which lets a name be used in both namespaces.
Unforced == \A p \in Creator : \A a \in Asks[p] : ~a.force

\* The creates nobody has met or competed with.
Spared == Creator \ (exposed \cup rivals)

Placed(p) == pc[p] = "mkdir" \/ pc[p] \in InPlay

\* No other directory records its VMID, or is named as it is and resolvable.
RecordedOnce(p) == Placed(p) /\ req[p].mode \in PveMode =>
  \A d \in DirKey \ {Home(p)} : disk[d].vmid # vmid[p]

ImagesApart(p) == OutsideState /\ (Placed(p) \/ pc[p] = "vmid") /\ req[p].mode # "pve" =>
  \A d \in DirKey \ {Home(p)} : disk[d].image => d.id # name[p]

\* Once it is finished, no create in progress has its directory, VMID or name ...
OthersApart(p) == pc[p] = "done" => \A q \in Creator \ {p} :
  /\ Owns(q) /\ pc[q] # "done" => Home(q) # Home(p)
  /\ /\ InProgress(q) /\ pc[q] \notin {"name", "vmid"}
     /\ req[p].mode \in PveMode /\ req[q].mode \in PveMode
     => vmid[q] # vmid[p]
  /\ OutsideState /\ InProgress(q) /\ pc[q] # "name" => name[q] # name[p]

\* ... and no remover its directory, its config, or its state directory.
RemoverApart(p, r) ==
  /\ Home(p) \notin Aimed(r)
  /\ dpc[r] \in {"conf", "wrapper"} /\ req[p].mode \in PveMode =>
       ConfOf(kind[r], slot[r]) # Conf(p)
  /\ OutsideState /\ dpc[r] \in {"slot", "conf", "wrapper", "hold", "state"} =>
       state[r] # StateDir(Home(p))

RemoversApart(p) == pc[p] = "done" => \A r \in Remover : RemoverApart(p, r)

\* What its create has made so far is there.
Whole(p) ==
  /\ pc[p] \in InPlay => disk[Home(p)] = Filed(p)
  /\ LayerKept(p)
  /\ \A l \in {"state", "wrapper", "conf"} : UndoInPlace(p, l)
  /\ StopKept(p)
  /\ pc[p] \in {"start", "boot", "done"} /\ req[p].mode \in PveMode => Registered(p, "conf")

Safe(p) == Whole(p) /\ RecordedOnce(p) /\ ImagesApart(p) /\ OthersApart(p) /\ RemoversApart(p)

Told == \A p \in Creator : /\ Touched(p) => p \in exposed
                           /\ Rival(p) => p \in rivals

SparedInv == HostInv /\ Told /\ \A p \in Spared : Safe(p)

\* Directory, VMID and, where it names the state directory, name of q are not p's.
Away(p, q) ==
  /\ Home(q) # Home(p)
  /\ req[p].mode \in PveMode /\ req[q].mode \in PveMode => vmid[q] # vmid[p]
  /\ OutsideState => name[q] # name[p]

LEMMA ModeNamed ==
  ASSUME TInv, NEW p \in Creator, pc[p] \notin {"lock", "name", "vmid", "refused", "crashed"}
  PROVE  /\ req[p].mode \in Mode /\ name[p] \in Name /\ Home(p) \in DirKey
         /\ req[p].mode \in PveMode => vmid[p] \in Vmid /\ Guests(p) = Conf(p)
                                       /\ Conf(p) \in ConfKey
         /\ req[p].mode \notin PveMode => Guests(p) = Home(p)
         /\ Home(p) = [base |-> BaseOf(req[p].mode),
                       id |-> IF req[p].mode = "pve" THEN vmid[p] ELSE name[p]]
         /\ Conf(p) = [base |-> IF req[p].mode = "pve-vm" THEN "qemu" ELSE "lxc", id |-> vmid[p]]
  BY Keys DEF TInv, TypeOK, Resolved, Request, Home, DirOf, Guests, GuestOf, Conf, ConfOf, ConfKey

\* Then nothing they make is shared.
LEMMA AwayEffects ==
  ASSUME NumbersApart, TInv, NEW p \in Creator, NEW q \in Creator,
         pc[p] \notin {"lock", "name", "vmid", "refused", "crashed"},
         pc[q] \notin {"lock", "name", "vmid", "refused", "crashed"}, Away(p, q)
  PROVE  /\ StateDir(Home(q)) # StateDir(Home(p)) /\ Home(q) # StateDir(Home(p))
         /\ Guests(q) # Guests(p)
         /\ req[p].mode \in PveMode /\ req[q].mode \in PveMode => Conf(q) # Conf(p)
  <1>1. Name \cap Vmid = {}
    BY DEF NumbersApart
  <1>2. StateDir(Home(q)) # StateDir(Home(p)) /\ Home(q) # StateDir(Home(p))
    <2>1. CASE OutsideState
      <3>1. Home(q).id # Home(p).id
        BY <1>1, <2>1, ModeNamed DEF Away, PveMode
      <3>2. Home(q).base # "state"
        BY ModeNamed DEF DirKey
      <3> QED BY <2>1, <3>1, <3>2 DEF StateDir
    <2>2. CASE ~OutsideState
      BY <2>2 DEF StateDir, Away
    <2> QED BY <2>1, <2>2
  <1>3. req[p].mode \in PveMode /\ req[q].mode \in PveMode => Conf(q) # Conf(p)
    BY ModeNamed DEF Away
  <1>4. Guests(q) # Guests(p)
    <2>1. CASE req[p].mode \in PveMode /\ req[q].mode \in PveMode
      BY <1>3, <2>1, ModeNamed
    <2>2. CASE req[p].mode \notin PveMode /\ req[q].mode \notin PveMode
      BY <2>2, ModeNamed DEF Away
    <2>3. CASE req[p].mode \in PveMode /\ req[q].mode \notin PveMode
      <3>1. Guests(p).id \in Vmid /\ Guests(q).id \in Name
        BY <2>3, ModeNamed DEF PveMode
      <3> QED BY <1>1, <3>1
    <2>4. CASE req[p].mode \notin PveMode /\ req[q].mode \in PveMode
      <3>1. Guests(q).id \in Vmid /\ Guests(p).id \in Name
        BY <2>4, ModeNamed DEF PveMode
      <3> QED BY <1>1, <3>1
    <2> QED BY <2>1, <2>2, <2>3, <2>4
  <1> QED BY <1>2, <1>3, <1>4

LEMMA ProgressAway ==
  ASSUME NumbersApart, TInv, NEW p \in Creator, NEW q \in Creator, q # p,
         InProgress(p), InProgress(q), ~Rival(p),
         pc[p] \notin {"name", "vmid"}, pc[q] \notin {"name", "vmid"}
  PROVE  Away(p, q)
  <1>1. /\ pc[p] \notin {"lock", "name", "vmid", "refused", "crashed"}
        /\ pc[q] \notin {"lock", "name", "vmid", "refused", "crashed"}
    BY DEF InProgress, EndPc
  <1>2. name[p] # None
    BY <1>1, ModeNamed, StateAssumption
  <1>3. /\ name[p] # name[q]
        /\ ~(req[p].mode \in PveMode /\ req[q].mode \in PveMode /\ vmid[p] = vmid[q])
    BY <1>2 DEF Rival
  <1>4. Home(q) # Home(p)
    BY <1>1, <1>3, ModeNamed DEF NumbersApart, PveMode
  <1> QED BY <1>3, <1>4 DEF Away

LEMMA SpareAway ==
  ASSUME NumbersApart, SparedInv, NEW p \in Spared, NEW q \in Creator, q # p,
         Placed(p), InProgress(q), pc[q] \notin {"name", "vmid"},
         pc[p] = "done" => Owns(q)
  PROVE  Away(p, q)
  <1>1. TInv /\ p \in Creator /\ ~Rival(p) /\ OthersApart(p)
    BY DEF SparedInv, HostInv, Core, Told, Spared, Safe
  <1>2. CASE pc[p] = "done"
    BY <1>1, <1>2 DEF OthersApart, Away, InProgress, EndPc
  <1>3. CASE pc[p] # "done"
    <2>1. InProgress(p) /\ pc[p] \notin {"name", "vmid"}
      BY <1>3 DEF Placed, InPlay, TryPc, GapPc, PortPc, InProgress, EndPc
    <2> QED BY <1>1, <2>1, ProgressAway
  <1> QED BY <1>2, <1>3

\* What others leave of a create's directory, layers, config and guest.
Left(p) ==
  /\ disk'[Home(p)] = disk[Home(p)]
  /\ StateDir(Home(p)) \in layers => StateDir(Home(p)) \in layers'
  /\ Guests(p) \in up => Guests(p) \in up'
  /\ req[p].mode \in PveMode => /\ wrapper'[Conf(p)] = wrapper[Conf(p)]
                                /\ conf'[Conf(p)] = conf[Conf(p)]

Still(p) ==
  /\ pc'[p] = pc[p] /\ undos'[p] = undos[p] /\ name'[p] = name[p]
  /\ vmid'[p] = vmid[p] /\ port'[p] = port[p] /\ req' = req

LEMMA WholeKept ==
  ASSUME NEW p \in Creator, Still(p), pc[p] \in InPlay => Left(p), Whole(p)
  PROVE  Whole(p)'
  <1>1. /\ Home(p)' = Home(p) /\ StateDir(Home(p))' = StateDir(Home(p))
        /\ Guests(p)' = Guests(p) /\ Conf(p)' = Conf(p) /\ Filed(p)' = Filed(p)
        /\ \A l \in Label : Registered(p, l)' <=> Registered(p, l)
    BY DEF Still, Home, StateDir, Guests, Conf, Filed, Registered
  <1>2. pc'[p] \in InPlay => disk'[Home(p)'] = Filed(p)'
    BY <1>1 DEF Still, Left, Whole
  <1>3. LayerKept(p)'
    BY <1>1 DEF Still, Left, Whole, LayerKept
  <1>4. ASSUME NEW l \in {"state", "wrapper", "conf"} PROVE UndoInPlace(p, l)'
    <2>1. l \in Label /\ UndoInPlace(p, l)
      BY DEF Whole, Label
    <2>2. InPlace(p, l) /\ pc[p] \in InPlay => InPlace(p, l)'
      BY <1>1 DEF Still, Left, InPlace
    <2> QED BY <1>1, <2>1, <2>2 DEF Still, UndoInPlace
  <1>5. StopKept(p)'
    BY <1>1 DEF Still, Left, Whole, StopKept, Label
  <1>6. pc'[p] \in {"start", "boot", "done"} /\ req'[p].mode \in PveMode =>
          Registered(p, "conf")'
    BY <1>1 DEF Still, Whole, Label
  <1> QED BY <1>2, <1>3, <1>4, <1>5, <1>6 DEF Whole

\* No other create touches what a spared one has made.
LEMMA CreatesLeave ==
  ASSUME NumbersApart, SparedInv, NEW p \in Spared, pc[p] \in InPlay,
         NEW q \in Creator, q # p, Step(q)
  PROVE  Left(p)
  <1>1. /\ p \in Creator /\ TInv /\ UndoShape /\ Stages /\ ConfigUndos
        /\ disk[Home(p)].dir /\ Owns(p) /\ Placed(p)
        /\ pc[p] \notin {"lock", "name", "vmid", "refused", "crashed"}
    <2>1. disk[Home(p)] = Filed(p) /\ p \in Creator
      BY DEF SparedInv, Safe, Whole, Spared
    <2> QED BY <2>1 DEF SparedInv, HostInv, Core, Filed, Owns, Placed, InPlay, TryPc,
        GapPc, PortPc
  <1>2. ASSUME Owns(q), pc[q] # "done"
        PROVE  /\ Home(q) # Home(p) /\ Guests(q) # Guests(p)
               /\ StateDir(Home(q)) # StateDir(Home(p)) /\ Home(q) # StateDir(Home(p))
    <2>1. /\ InProgress(q)
          /\ pc[q] \notin {"lock", "name", "vmid", "refused", "crashed"}
      BY <1>2 DEF Owns, TryPc, GapPc, PortPc, InProgress, EndPc
    <2>2. Away(p, q)
      BY <1>1, <1>2, <2>1, SpareAway
    <2> QED BY <1>1, <2>1, <2>2, AwayEffects DEF Away
  <1>3. pc[q] # "done"
    BY DEF Step, CreateStep, Interrupt, Crash, EndPc, GapPc, PortPc, LockedPc, TryPc, Acquire,
       GenerateName, TakeName, TakeVmid, MakeDir, Refuse, RejectSeed, EnterTry, PinImage,
       TestState, MakeState, WriteImage, WriteMode, WriteName, PickPort, WritePort, WriteWrapper,
       WriteVmid, WriteConf, AddUndo, RegisterStop, StartGuest, Fail, RunCleanup, Reraise
  <1>4. disk'[Home(p)] = disk[Home(p)]
    <2>1. disk \in [DirKey -> Files] /\ Home(p) \in DirKey
      BY <1>1, ModeNamed DEF TInv, TypeOK, HostTypeOK
    <2>2. CASE MakeDir(q)
      <3>1. Home(q) # Home(p) /\ disk' = [disk EXCEPT ![Home(q)] = EmptyDir]
        BY <1>1, <2>2 DEF MakeDir
      <3> QED BY <2>1, <3>1
    <2>3. CASE ~MakeDir(q)
      BY <1>1, <1>2, <1>3, <2>1, <2>3, DiskSteps DEF DiskStep, WritePort
    <2> QED BY <2>2, <2>3
  <1>5. StateDir(Home(p)) \in layers => StateDir(Home(p)) \in layers'
    <2>1. CASE RunCleanup(q)
      <3>1. Owns(q)
        BY <1>1, <2>1, RollersOwn
      <3> QED BY <1>2, <1>3, <2>1, <3>1 DEF RunCleanup, UndoEffect, host
    <2>2. CASE ~RunCleanup(q)
      <3>1. layers \subseteq layers'
        BY <2>2 DEF host, Step, CreateStep, Interrupt, Crash, WriteFile, Acquire, GenerateName,
           TakeName, TakeVmid, MakeDir, Refuse, RejectSeed, EnterTry, PinImage, TestState,
           MakeState, WriteImage, WriteMode, WriteName, PickPort, WritePort, WriteWrapper,
           WriteVmid, WriteConf, AddUndo, RegisterStop, StartGuest, Fail, Reraise
      <3> QED BY <3>1
    <2> QED BY <2>1, <2>2
  <1>6. /\ req[p].mode \in PveMode => /\ wrapper'[Conf(p)] = wrapper[Conf(p)]
                                      /\ conf'[Conf(p)] = conf[Conf(p)]
        /\ Guests(p) \in up => Guests(p) \in up'
    BY <1>1, <1>2, <1>3, OthersSpare
  <1> QED BY <1>4, <1>5, <1>6 DEF Left

\* Another directory leads to another config, another guest, another state directory.
LEMMA ConfAway ==
  ASSUME TInv, NEW p \in Creator, RecordedOnce(p), Placed(p),
         req[p].mode \in PveMode, NEW m \in PveMode, NEW d, Fits(d, m), d # Home(p)
  PROVE  ConfOf(m, VmidOf(d, m)) # Conf(p)
  <1>1. pc[p] \notin {"lock", "name", "vmid", "refused", "crashed"}
    BY DEF Placed, InPlay, TryPc, GapPc, PortPc
  <1>2. CASE (m = "pve-vm") # (req[p].mode = "pve-vm")
    BY <1>2 DEF ConfOf, Conf
  <1>3. CASE m = "pve-vm" /\ req[p].mode = "pve-vm"
    <2>1. d \in DirKey \ {Home(p)}
      BY DEF Fits
    <2>2. disk[d].vmid # vmid[p]
      BY <2>1 DEF RecordedOnce
    <2> QED BY <1>3, <2>2 DEF ConfOf, Conf, VmidOf
  <1>4. CASE m = "pve" /\ req[p].mode = "pve"
    <2>1. /\ d.base = "lxc" /\ d \in DirKey
          /\ Home(p) = [base |-> "lxc", id |-> vmid[p]]
      BY <1>1, <1>4, ModeNamed DEF Fits, BaseOf
    <2>2. d.id # vmid[p]
      BY <2>1 DEF DirKey
    <2> QED BY <1>4, <2>2 DEF ConfOf, Conf, VmidOf
  <1> QED BY <1>2, <1>3, <1>4 DEF PveMode

LEMMA GuestAway ==
  ASSUME NumbersApart, TInv, NEW p \in Creator, RecordedOnce(p), Placed(p),
         NEW m \in Mode, NEW d, Fits(d, m), d # Home(p)
  PROVE  GuestOf(m, d.id, VmidOf(d, m)) # Guests(p)
  <1>1. pc[p] \notin {"lock", "name", "vmid", "refused", "crashed"}
    BY DEF Placed, InPlay, TryPc, GapPc, PortPc
  <1>2. CASE m \in PveMode /\ req[p].mode \in PveMode
    BY <1>1, <1>2, ConfAway, ModeNamed DEF GuestOf
  <1>3. CASE m \in PveMode /\ req[p].mode \notin PveMode
    <2>1. Guests(p) = Home(p) /\ Home(p).base \in {"lxc", "vm"} /\ Home(p).id \in Name
      BY <1>1, <1>3, ModeNamed DEF PveMode, BaseOf
    <2>2. CASE m = "pve-vm"
      BY <2>1, <2>2 DEF GuestOf, PveMode, ConfOf
    <2>3. CASE m = "pve"
      BY <2>1, <2>3 DEF GuestOf, PveMode, ConfOf, VmidOf, Fits, NumbersApart
    <2> QED BY <1>3, <2>2, <2>3 DEF PveMode
  <1>4. CASE m \notin PveMode
    <2>1. GuestOf(m, d.id, VmidOf(d, m)) = d /\ d.base \in {"lxc", "vm"}
      <3>1. m \in {"lxc", "vm"} /\ d.base = m
        BY <1>4 DEF Mode, PveMode, Fits, BaseOf
      <3>2. d = [base |-> d.base, id |-> d.id]
        BY DEF Fits, DirKey
      <3> QED BY <1>4, <3>1, <3>2 DEF GuestOf, DirOf, BaseOf
    <2>2. CASE req[p].mode \in PveMode
      <3>1. Guests(p) = Home(p) \/ Guests(p).base = "qemu"
        BY <1>1, <2>2, ModeNamed DEF PveMode, BaseOf
      <3> QED BY <2>1, <3>1
    <2>3. CASE req[p].mode \notin PveMode
      BY <1>1, <2>1, <2>3, ModeNamed
    <2> QED BY <2>2, <2>3
  <1> QED BY <1>2, <1>3, <1>4

LEMMA StateAway ==
  ASSUME NumbersApart, TInv, NEW p \in Creator, ImagesApart(p), Placed(p), OutsideState,
         NEW d \in DirKey, d # Home(p), disk[d].image
  PROVE  StateDir(d) # StateDir(Home(p)) /\ d # StateDir(Home(p))
  <1>1. pc[p] \notin {"lock", "name", "vmid", "refused", "crashed"}
    BY DEF Placed, InPlay, TryPc, GapPc, PortPc
  <1>2. d.id # Home(p).id
    <2>1. CASE req[p].mode = "pve"
      <3>1. Home(p) = [base |-> "lxc", id |-> vmid[p]] /\ vmid[p] \in Vmid
        BY <1>1, <2>1, ModeNamed DEF BaseOf, PveMode
      <3> QED BY <3>1 DEF DirKey, NumbersApart
    <2>2. CASE req[p].mode # "pve"
      BY <1>1, <2>2, ModeNamed DEF ImagesApart
    <2> QED BY <2>1, <2>2
  <1>3. d.base # "state"
    BY DEF DirKey
  <1> QED BY <1>2, <1>3 DEF StateDir

\* No remover comes near a spared create, finished or not.
LEMMA RemoverAway ==
  ASSUME NumbersApart, SparedInv, NEW p \in Spared, pc[p] \in InPlay, NEW r \in Remover
  PROVE  RemoverApart(p, r)
  <1>1. /\ p \in Creator /\ TInv /\ Placed(p) /\ Owns(p) /\ ~Touched(p)
        /\ RecordedOnce(p) /\ ImagesApart(p) /\ Fitted(r)
    BY DEF SparedInv, HostInv, Core, Told, Spared, Safe, Placed, InPlay, Owns
  <1>2. CASE pc[p] = "done"
    BY <1>2 DEF SparedInv, Safe, RemoversApart
  <1>3. CASE pc[p] # "done"
    <2>1. InProgress(p)
      BY <1>3 DEF InPlay, TryPc, GapPc, PortPc, InProgress, EndPc
    <2>2. ~Met(p) /\ ~Stranded(r)
      BY <1>1, <2>1 DEF Touched
    <2>3. Home(p) \notin Aimed(r)
      BY <1>1, <1>3, <2>2 DEF Met
    <2>4. ASSUME dpc[r] \in {"slot", "conf", "wrapper", "hold", "state"}
          PROVE  /\ handle[r] # Home(p) /\ Fits(handle[r], kind[r]) /\ disk[handle[r]].image
                 /\ state[r] \in {handle[r], StateDir(handle[r])}
      <3>1. handle[r] \in Aimed(r) /\ handle[r] # None
        BY <1>1, <2>4 DEF Aimed, Active, Fitted, DEnd
      <3> QED BY <1>1, <2>2, <2>3, <2>4, <3>1 DEF Stranded, Fitted
    <2>5. dpc[r] \in {"conf", "wrapper"} /\ req[p].mode \in PveMode =>
            ConfOf(kind[r], slot[r]) # Conf(p)
      <3> SUFFICES ASSUME dpc[r] \in {"conf", "wrapper"}, req[p].mode \in PveMode
                   PROVE  ConfOf(kind[r], slot[r]) # Conf(p)
        OBVIOUS
      <3>1. kind[r] \in PveMode /\ VmidOf(handle[r], kind[r]) = slot[r]
        BY <1>1, <2>2 DEF Fitted, Stranded
      <3> QED BY <1>1, <2>4, <3>1, ConfAway
    <2>6. OutsideState /\ dpc[r] \in {"slot", "conf", "wrapper", "hold", "state"} =>
            state[r] # StateDir(Home(p))
      BY <1>1, <2>4, StateAway DEF Fits
    <2> QED BY <2>3, <2>5, <2>6 DEF RemoverApart
  <1> QED BY <1>2, <1>3

LEMMA RemoversLeave ==
  ASSUME NumbersApart, SparedInv, NEW p \in Spared, pc[p] \in InPlay,
         NEW r \in Remover, RemoverStep(r)
  PROVE  Left(p)
  <1>1. /\ p \in Creator /\ HostInv /\ TInv /\ Placed(p) /\ RecordedOnce(p) /\ Fitted(r)
        /\ RemoverApart(p, r)
        /\ pc[p] \notin {"lock", "name", "vmid", "refused", "crashed"}
    BY RemoverAway
    DEF SparedInv, HostInv, Core, Spared, Safe, Placed, InPlay, TryPc, GapPc, PortPc
  <1>2. /\ disk \in [DirKey -> Files] /\ Home(p) \in DirKey
        /\ conf \in [ConfKey -> DirKey \cup {None, Foreign}]
        /\ wrapper \in [ConfKey -> DirKey \cup {None}]
        /\ req[p].mode \in PveMode => Conf(p) \in ConfKey
    BY <1>1, ModeNamed DEF TInv, TypeOK, HostTypeOK
  <1>3. dpc[r] \in {"stop", "conf", "wrapper", "state", "files", "dir"} =>
          handle[r] # Home(p) /\ handle[r] \in DirKey /\ Fits(handle[r], kind[r])
    BY <1>1 DEF RemoverApart, Aimed, Active, Fitted, Fits, DEnd
  <1>4. disk'[Home(p)] = disk[Home(p)]
    BY <1>1, <1>2, <1>3, RemoverHost
  <1>5. StateDir(Home(p)) \in layers => StateDir(Home(p)) \in layers'
    <2>1. CASE OutsideState
      <3>1. StateDir(Home(p)) \notin DirKey
        BY <2>1 DEF StateDir, DirKey
      <3> QED BY <1>1, <1>3, <2>1, <3>1, RemoverHost DEF RemoverApart
    <2>2. CASE ~OutsideState
      <3>1. StateDir(Home(p)) = Home(p) /\ (dpc[r] = "state" => state[r] = handle[r])
        BY <1>1, <1>3, <2>2 DEF StateDir, Fitted, Fits, DEnd
      <3> QED BY <1>1, <1>3, <3>1, RemoverHost
    <2> QED BY <2>1, <2>2
  <1>6. Guests(p) \in up => Guests(p) \in up'
    <2>1. dpc[r] = "stop" => GuestAt(r) # Guests(p)
      BY <1>1, <1>3, GuestAway DEF GuestAt, Fits
    <2> QED BY <1>1, <2>1, RemoverHost
  <1>7. req[p].mode \in PveMode => /\ wrapper'[Conf(p)] = wrapper[Conf(p)]
                                   /\ conf'[Conf(p)] = conf[Conf(p)]
    BY <1>1, <1>2, RemoverHost DEF RemoverApart
  <1> QED BY <1>4, <1>5, <1>6, <1>7 DEF Left

-------------------------------------------------------------------------------
(* What each step leaves of it. *)

\* Only kento-image makes a directory resolvable, only kento-vmid records a VMID.
LEMMA CreateRecords ==
  ASSUME TInv, UndoShape, NEW c \in Creator, Step(c), NEW d \in DirKey
  PROVE  /\ disk'[d].image => disk[d].image \/ (WriteImage(c) /\ d = Home(c))
         /\ \/ disk'[d].vmid \in {disk[d].vmid, None}
            \/ WriteVmid(c) /\ d = Home(c) /\ disk'[d].vmid = vmid[c]
         /\ d # Home(c) => disk'[d] = disk[d]
  <1>0. disk \in [DirKey -> Files] /\ disk[d] \in Files
    BY DEF TInv, TypeOK, HostTypeOK
  <1>1. d # Home(c) => disk'[d] = disk[d]
    BY <1>0, DiskSteps DEF DiskStep, MakeDir, WritePort
  <1>2. CASE MakeDir(c) \/ RejectSeed(c) \/ RunCleanup(c)
    <2>1. \/ disk' = disk \/ disk' = [disk EXCEPT ![Home(c)] = NoDir]
          \/ disk' = [disk EXCEPT ![Home(c)] = EmptyDir]
      BY <1>2 DEF MakeDir, RejectSeed, RunCleanup, UndoEffect, host
    <2>2. /\ NoDir.vmid = None /\ EmptyDir.vmid = None
          /\ NoDir.image = FALSE /\ EmptyDir.image = FALSE
      BY DEF NoDir, EmptyDir
    <2> QED BY <1>0, <1>1, <2>1, <2>2
  <1>3. CASE WriteImage(c) \/ WriteVmid(c)
    <2>1. \/ WriteImage(c) /\ disk' = [disk EXCEPT ![Home(c)] = [@ EXCEPT !.image = TRUE]]
          \/ WriteVmid(c) /\ disk' = [disk EXCEPT ![Home(c)] = [@ EXCEPT !.vmid = vmid[c]]]
      BY <1>3 DEF WriteImage, WriteVmid, WriteFile
    <2> QED BY <1>0, <1>1, <2>1 DEF Files
  <1>4. CASE WriteMode(c) \/ WriteName(c) \/ WritePort(c) \/ MakeState(c)
    <2>1. disk'[d].image = disk[d].image /\ disk'[d].vmid = disk[d].vmid
      <3>1. CASE WriteMode(c) \/ WriteName(c)
        BY <1>0, <1>1, <3>1 DEF WriteMode, WriteName, WriteFile, Files
      <3>2. CASE WritePort(c)
        BY <1>0, <1>1, <3>2 DEF WritePort, Files
      <3>3. CASE MakeState(c)
        BY <1>0, <1>1, <3>3 DEF MakeState, Files
      <3> QED BY <1>4, <3>1, <3>2, <3>3
    <2> QED BY <1>1, <2>1
  <1>5. CASE ~(\/ MakeDir(c) \/ RejectSeed(c) \/ RunCleanup(c) \/ WriteImage(c) \/ WriteMode(c)
              \/ WriteName(c) \/ WritePort(c) \/ MakeState(c) \/ WriteVmid(c))
    <2>1. disk' = disk
      BY <1>5 DEF host, Step, CreateStep, Interrupt, Crash, Acquire, GenerateName, TakeName,
         TakeVmid, Refuse, EnterTry, PinImage, TestState, PickPort, WriteWrapper, WriteConf,
         AddUndo, RegisterStop, StartGuest, Fail, Reraise
    <2> QED BY <2>1
  <1> QED BY <1>1, <1>2, <1>3, <1>4, <1>5

\* What is asked of those that are in progress beside a spared create.
LEMMA NamesAway ==
  ASSUME SparedInv, NEW p \in Spared, NEW q \in Creator, q # p, InProgress(q)
  PROVE  /\ OutsideState /\ pc[q] # "name" /\ (Placed(p) \/ pc[p] = "vmid") => name[q] # name[p]
         /\ /\ pc[q] \notin {"name", "vmid"} /\ Placed(p)
            /\ req[p].mode \in PveMode /\ req[q].mode \in PveMode
            => vmid[q] # vmid[p]
  <1>1. p \in Creator /\ TInv /\ ~Rival(p) /\ OthersApart(p)
    BY DEF SparedInv, HostInv, Core, Told, Spared, Safe
  <1>2. CASE pc[p] = "done"
    BY <1>1, <1>2 DEF OthersApart
  <1>3. CASE pc[p] # "done" /\ (Placed(p) \/ pc[p] = "vmid")
    <2>1. InProgress(p) /\ name[p] \in Name
      BY <1>1, <1>3 DEF Placed, InPlay, TryPc, GapPc, PortPc, InProgress, EndPc, TInv, Resolved
    <2>2. name[p] # None
      BY <2>1, StateAssumption
    <2> QED BY <1>1, <2>1, <2>2 DEF Rival
  <1> QED BY <1>2, <1>3

LEMMA RecordedByOthers ==
  ASSUME SparedInv, NEW p \in Spared, NEW q \in Creator, q # p, Step(q)
  PROVE  RecordedOnce(p)'
  <1>1. /\ p \in Creator /\ TInv /\ UndoShape /\ Stages /\ RecordedOnce(p)
    BY DEF SparedInv, HostInv, Core, Spared, Safe
  <1>2. Home(p)' = Home(p) /\ pc'[p] = pc[p] /\ vmid'[p] = vmid[p] /\ req' = req
    BY <1>1, OthersKeep DEF Home
  <1> SUFFICES ASSUME Placed(p), req[p].mode \in PveMode, NEW d \in DirKey \ {Home(p)}
               PROVE  disk'[d].vmid # vmid[p]
    BY <1>2 DEF RecordedOnce, Placed
  <1>3. disk[d].vmid # vmid[p]
    BY DEF SparedInv, Safe, RecordedOnce
  <1>4. vmid[p] # None
    <2>1. pc[p] \notin {"lock", "name", "vmid", "refused", "crashed"}
      BY DEF Placed, InPlay, TryPc, GapPc, PortPc
    <2> QED BY <1>1, <2>1, ModeNamed, StateAssumption
  <1>5. WriteVmid(q) => vmid[q] # vmid[p]
    <2> SUFFICES ASSUME WriteVmid(q) PROVE vmid[q] # vmid[p]
      OBVIOUS
    <2>1. pc[q] = "vmidFile"
      BY DEF WriteVmid
    <2>2. InProgress(q) /\ req[q].mode \in PveMode
      BY <1>1, <2>1 DEF InProgress, EndPc, Stages, ConfPc
    <2> QED BY <2>1, <2>2, NamesAway
  <1> QED BY <1>1, <1>3, <1>4, <1>5, CreateRecords

LEMMA ImagesByOthers ==
  ASSUME NumbersApart, SparedInv, NEW p \in Spared, NEW q \in Creator, q # p, Step(q)
  PROVE  ImagesApart(p)'
  <1>1. /\ p \in Creator /\ TInv /\ UndoShape
    BY DEF SparedInv, HostInv, Core, Spared, Safe
  <1>2. Home(p)' = Home(p) /\ pc'[p] = pc[p] /\ name'[p] = name[p] /\ req' = req
    BY <1>1, OthersKeep DEF Home
  <1> SUFFICES ASSUME OutsideState, Placed(p) \/ pc[p] = "vmid", req[p].mode # "pve",
                      NEW d \in DirKey \ {Home(p)}, disk'[d].image
               PROVE  d.id # name[p]
    BY <1>2 DEF ImagesApart, Placed
  <1>3. CASE disk[d].image
    BY <1>3 DEF SparedInv, Safe, ImagesApart
  <1>4. CASE WriteImage(q) /\ d = Home(q)
    <2>1. pc[q] = "image"
      BY <1>4 DEF WriteImage
    <2>2. InProgress(q) /\ pc[q] \notin {"lock", "name", "vmid", "refused", "crashed"}
      BY <2>1 DEF InProgress, EndPc
    <2>3. name[q] # name[p]
      BY <2>1, <2>2, NamesAway
    <2>4. name[p] \in Name
      BY <1>1 DEF TInv, Resolved, Placed, InPlay, TryPc, GapPc, PortPc
    <2> QED BY <1>1, <1>4, <2>2, <2>3, <2>4, ModeNamed DEF NumbersApart, PveMode
  <1> QED BY <1>1, <1>3, <1>4, CreateRecords

\* What a finished create has filed reserves its directory, name and VMID.
LEMMA Reserved ==
  ASSUME TInv, NEW p \in Creator, pc[p] = "done", Whole(p)
  PROVE  /\ disk[Home(p)].dir /\ disk[Home(p)].image /\ disk[Home(p)].name = name[p]
         /\ disk[Home(p)].mode = req[p].mode
         /\ Home(p) \in Existing /\ name[p] \in UsedNames
         /\ Home(p) \in Scan(name[p], BaseOf(req[p].mode))
         /\ req[p].mode \in PveMode => vmid[p] \in UsedVmids
  <1>1. /\ disk[Home(p)] = Filed(p) /\ Home(p) \in DirKey
        /\ Home(p).base = BaseOf(req[p].mode)
        /\ req[p].mode = "pve" => Home(p) = [base |-> "lxc", id |-> vmid[p]]
        /\ req[p].mode \in PveMode => vmid[p] \in Vmid
    BY ModeNamed DEF Whole, InPlay, BaseOf
  <1>2. /\ disk[Home(p)].dir /\ disk[Home(p)].image /\ disk[Home(p)].name = name[p]
        /\ disk[Home(p)].mode = req[p].mode
        /\ req[p].mode = "pve-vm" => disk[Home(p)].vmid = vmid[p]
    BY <1>1, FiledFields DEF BeforeName, BeforeMode, BeforeImage, BeforeState, AfterVmid
  <1>3. Home(p) \in Existing
    BY <1>1, <1>2 DEF Existing
  <1>4. name[p] \in UsedNames /\ Home(p) \in Scan(name[p], BaseOf(req[p].mode))
    BY <1>1, <1>2, <1>3 DEF UsedNames, Scan
  <1>5. req[p].mode = "pve" => vmid[p] \in UsedVmids
    BY <1>1, <1>3 DEF UsedVmids, KentoRecordedVmids, PveMode
  <1>6. req[p].mode = "pve-vm" => vmid[p] \in UsedVmids
    <2> SUFFICES ASSUME req[p].mode = "pve-vm" PROVE vmid[p] \in KentoRecordedVmids
      BY DEF UsedVmids
    <2>1. vmid[p] # None
      BY <1>1, StateAssumption DEF PveMode
    <2>2. Home(p) \in {e \in Existing : e.base = "vm" /\ disk[e].vmid # None}
      BY <1>1, <1>2, <1>3, <2>1 DEF BaseOf
    <2> QED BY <1>2, <2>2 DEF KentoRecordedVmids
  <1> QED BY <1>2, <1>3, <1>4, <1>5, <1>6 DEF PveMode

\* A create is given a name that is free, and a VMID that is free.
LEMMA GivenFree ==
  ASSUME TInv, Asked, Unforced, NEW c \in Creator, Step(c), pc[c] = "name", pc'[c] # "name",
         InProgress(c)'
  PROVE  name'[c] \notin UsedNames \/ \A b \in {"lxc", "vm"} : Scan(name'[c], b) = {}
  <1>1. GenerateName(c) \/ TakeName(c)
    BY DEF InProgress, EndPc, TInv, TypeOK, Step, CreateStep, Interrupt, Crash, Goto, TryPc, GapPc,
       PortPc, Acquire, TakeVmid, MakeDir, Refuse, RejectSeed, EnterTry, PinImage, TestState,
       MakeState, WriteImage, WriteMode, WriteName, PickPort, WritePort, WriteWrapper, WriteVmid,
       WriteConf, AddUndo, RegisterStop, StartGuest, Fail, RunCleanup, Reraise
  <1>2. CASE GenerateName(c)
    BY <1>2 DEF GenerateName, FreeAutoName, TInv, TypeOK
  <1>3. CASE TakeName(c)
    <2>1. ~req[c].force /\ name'[c] = req[c].name
      BY <1>3 DEF TakeName, TInv, TypeOK, Asked, Unforced
    <2> QED BY <1>3, <2>1 DEF TakeName, NameConflict
  <1> QED BY <1>1, <1>2, <1>3

LEMMA OthersByOthers ==
  ASSUME NumbersApart, OutsideState => Unforced, SparedInv,
         NEW p \in Spared, NEW q \in Creator, q # p, Step(q)
  PROVE  OthersApart(p)'
  <1>1. /\ p \in Creator /\ TInv /\ UndoShape /\ Stages /\ Asked /\ Whole(p) /\ OthersApart(p)
    BY DEF SparedInv, HostInv, Core, Spared, Safe
  <1>2. /\ Home(p)' = Home(p) /\ pc'[p] = pc[p] /\ name'[p] = name[p] /\ vmid'[p] = vmid[p]
        /\ req' = req
    BY <1>1, OthersKeep DEF Home
  <1> SUFFICES ASSUME pc[p] = "done", NEW x \in Creator \ {p}
               PROVE  /\ Owns(x)' /\ pc'[x] # "done" => Home(x)' # Home(p)
                      /\ /\ InProgress(x)' /\ pc'[x] \notin {"name", "vmid"}
                         /\ req[p].mode \in PveMode /\ req[x].mode \in PveMode
                         => vmid'[x] # vmid[p]
                      /\ OutsideState /\ InProgress(x)' /\ pc'[x] # "name" => name'[x] # name[p]
    BY <1>2 DEF OthersApart
  <1>3. CASE x # q
    <2>1. /\ Home(x)' = Home(x) /\ pc'[x] = pc[x] /\ name'[x] = name[x] /\ vmid'[x] = vmid[x]
          /\ undos'[x] = undos[x]
      BY <1>1, <1>3, OthersKeep DEF Home
    <2> QED BY <1>1, <2>1 DEF OthersApart, Owns, InProgress
  <1>4. CASE x = q
    <2>1. Owns(q)' /\ pc'[q] # "done" => Home(q)' # Home(p)
      <3>1. CASE MakeDir(q)
        <4>1. Home(q)' = Home(q)
          BY <3>1 DEF MakeDir, Home
        <4> QED BY <1>1, <3>1, <4>1, Reserved DEF MakeDir
      <3>2. CASE ~MakeDir(q)
        <4>1. Owns(q)' /\ pc'[q] # "done" => Owns(q) /\ pc[q] # "done"
          BY <1>1, <3>2
          DEF Owns, TInv, TypeOK, UndoShape, LockedPc, TryPc, GapPc, PortPc, EndPc, Step, CreateStep,
              Interrupt, Crash, Goto, Register, WriteFile, AfterName, Acquire, GenerateName, TakeName,
              TakeVmid, MakeDir, Refuse, RejectSeed, EnterTry, PinImage, TestState, MakeState,
              WriteImage, WriteMode, WriteName, PickPort, WritePort, WriteWrapper, WriteVmid,
              WriteConf, AddUndo, RegisterStop, StartGuest, Fail, RunCleanup, Reraise, AfterPort,
              AfterConf
        <4>2. Owns(q) => Home(q)' = Home(q)
          BY <1>1, PastKept DEF Owns, Past, LockedPc, TryPc, GapPc, PortPc
        <4> QED BY <1>1, <1>4, <4>1, <4>2 DEF OthersApart
      <3> QED BY <3>1, <3>2
    <2>2. CASE ~(GenerateName(q) \/ TakeName(q) \/ TakeVmid(q) \/ Acquire(q))
      <3>1. /\ name'[q] = name[q] /\ vmid'[q] = vmid[q]
            /\ InProgress(q)' => InProgress(q) /\ pc[q] \notin {"name", "vmid"}
        BY <1>1, <2>2
        DEF InProgress, TInv, TypeOK, LockedPc, TryPc, GapPc, PortPc, EndPc, Step, CreateStep,
            Interrupt, Crash, Goto, Register, WriteFile, AfterName, MakeDir, Refuse, RejectSeed,
            EnterTry, PinImage, TestState, MakeState, WriteImage, WriteMode, WriteName, PickPort,
            WritePort, WriteWrapper, WriteVmid, WriteConf, AddUndo, RegisterStop, StartGuest, Fail,
            RunCleanup, Reraise, AfterPort, AfterConf
      <3> QED BY <1>1, <1>4, <2>1, <3>1 DEF OthersApart
    <2>3. CASE Acquire(q)
      <3>1. /\ name' = name /\ vmid' = vmid
            /\ \/ pc[q] = "lock" /\ pc'[q] = "name"
               \/ pc[q] = "portLock" /\ pc'[q] = "portPick"
        BY <1>1, <2>3 DEF Acquire, Goto, TInv, TypeOK
      <3>2. pc[q] = "portLock" => InProgress(q) /\ pc[q] \notin {"name", "vmid"}
        BY DEF InProgress, EndPc
      <3> QED BY <1>1, <1>4, <2>1, <3>1, <3>2 DEF OthersApart
    <2>4. CASE TakeVmid(q)
      <3>1. vmid'[q] \in FreeVmids /\ name'[q] = name[q] /\ pc[q] = "vmid"
        BY <1>1, <2>4 DEF TakeVmid, TInv, TypeOK
      <3>2. req[p].mode \in PveMode => vmid'[q] # vmid[p]
        BY <1>1, <3>1, Reserved DEF FreeVmids
      <3>3. InProgress(q)
        BY <3>1 DEF InProgress, EndPc
      <3> QED BY <1>1, <1>4, <2>1, <3>1, <3>2, <3>3 DEF OthersApart
    <2>5. CASE GenerateName(q) \/ TakeName(q)
      <3>1. /\ pc[q] = "name" /\ pc'[q] \in {"vmid", "mkdir"}
            /\ req[q].mode \in PveMode => pc'[q] = "vmid"
        BY <1>1, <2>5 DEF GenerateName, TakeName, AfterName, Goto, TInv, TypeOK
      <3>2. OutsideState => name'[q] # name[p]
        <4>1. InProgress(q)'
          BY <3>1 DEF InProgress, EndPc
        <4> QED BY <1>1, <3>1, <4>1, GivenFree, Reserved DEF BaseOf
      <3> QED BY <1>4, <2>1, <3>1, <3>2
    <2> QED BY <2>2, <2>3, <2>4, <2>5
  <1> QED BY <1>3, <1>4

\* What a remover does next depends on the host only through what it has read.
LEMMA ApartKept ==
  ASSUME NEW p \in Creator, NEW r \in Remover, RemoverApart(p, r), UNCHANGED removal,
         Home(p)' = Home(p), Conf(p)' = Conf(p), req' = req
  PROVE  RemoverApart(p, r)'
  BY DEF RemoverApart, Aimed, Active, removal, victim, StateDir, ConfOf

LEMMA SafeByOthers ==
  ASSUME NumbersApart, OutsideState => Unforced, SparedInv,
         NEW p \in Spared, NEW q \in Creator, q # p, Step(q), UNCHANGED removal
  PROVE  Safe(p)'
  <1>1. p \in Creator /\ TInv /\ Safe(p)
    BY DEF SparedInv, HostInv, Core, Spared
  <1>2. Still(p)
    BY <1>1, OthersKeep DEF Still
  <1>3. Whole(p)'
    BY <1>1, <1>2, CreatesLeave, WholeKept DEF Safe
  <1>4. RemoversApart(p)'
    BY <1>1, <1>2, ApartKept DEF Safe, RemoversApart, Still, Home, Conf
  <1> QED BY <1>3, <1>4, RecordedByOthers, ImagesByOthers, OthersByOthers DEF Safe

\* Removing things behind a create's back only makes it more alone.
LEMMA LessRecorded ==
  ASSUME NEW p \in Creator, RecordedOnce(p), ImagesApart(p), OthersApart(p), UNCHANGED local,
         \A d \in DirKey : /\ disk'[d].vmid \in {disk[d].vmid, None}
                           /\ disk'[d].image => disk[d].image,
         Placed(p) /\ req[p].mode \in PveMode => vmid[p] # None
  PROVE  RecordedOnce(p)' /\ ImagesApart(p)' /\ OthersApart(p)'
  <1>1. Home(p)' = Home(p) /\ Placed(p)' = Placed(p)
    BY DEF local, Home, Placed
  <1>2. RecordedOnce(p)' /\ ImagesApart(p)'
    BY <1>1 DEF local, RecordedOnce, ImagesApart
  <1>3. OthersApart(p)'
    BY <1>1 DEF local, OthersApart, Owns, InProgress, Home
  <1> QED BY <1>2, <1>3

LEMMA VmidGiven ==
  ASSUME TInv, NEW p \in Creator, Placed(p), req[p].mode \in PveMode
  PROVE  vmid[p] # None
  <1>1. pc[p] \notin {"lock", "name", "vmid", "refused", "crashed"}
    BY DEF Placed, InPlay, TryPc, GapPc, PortPc
  <1> QED BY <1>1, ModeNamed, StateAssumption

\* A remover that takes up another instance keeps away from a finished one.
LEMMA ApartByRemover ==
  ASSUME NumbersApart, SparedInv, NEW p \in Spared, p \notin exposed', pc[p] = "done",
         NEW r \in Remover, RemoverMoves(r)
  PROVE  RemoverApart(p, r)'
  <1>1. /\ p \in Creator /\ HostInv /\ TInv /\ Placed(p) /\ Whole(p) /\ RemoverApart(p, r)
        /\ RecordedOnce(p) /\ ImagesApart(p) /\ DestroyTypeOK /\ Fitted(r)
    BY DEF SparedInv, HostInv, Core, Spared, Safe, Placed, InPlay, RemoversApart
  <1>2. /\ RemoverStep(r) /\ UNCHANGED local /\ ~Touched(p)'
        /\ Home(p)' = Home(p) /\ Conf(p)' = Conf(p) /\ req' = req /\ pc' = pc
        /\ StateDir(Home(p))' = StateDir(Home(p))
    BY <1>1 DEF RemoverMoves, Remember, local, Home, Conf, StateDir
  <1>3. \A o \in queue'[r] : o[1] # Home(p)
    <2>1. CASE FindOrphans(r)
      <3>1. queue'[r] = {<<d, ModeOf(d), IF disk[d].name = None THEN d.id ELSE disk[d].name>> :
                           d \in {e \in Existing : disk[e].image /\ IsOrphan(e)}}
        BY <1>1, <2>1 DEF FindOrphans, DestroyTypeOK
      <3>2. ~IsOrphan(Home(p))
        <4>1. ModeOf(Home(p)) = req[p].mode
          <5>1. req[p].mode # None
            BY <1>1, ModeNamed, ContentAssumption
          <5> QED BY <1>1, <5>1, Reserved DEF ModeOf
        <4>2. CASE req[p].mode \in PveMode
          <5>1. VmidOf(Home(p), req[p].mode) = vmid[p] /\ vmid[p] # None
            <6>1. disk[Home(p)] = Filed(p)
              BY <1>1 DEF Whole, InPlay
            <6>2. req[p].mode = "pve-vm" => disk[Home(p)].vmid = vmid[p]
              BY <1>1, <6>1, FiledFields DEF AfterVmid
            <6>3. req[p].mode = "pve" => Home(p).id = vmid[p]
              BY <1>1, ModeNamed
            <6> QED BY <1>1, <4>2, <6>2, <6>3, VmidGiven DEF VmidOf, PveMode
          <5>2. conf[Conf(p)] = Home(p) /\ Home(p) \in DirKey
            BY <1>1, <4>2, ModeNamed DEF Whole, UndoInPlace, InPlay, InPlace
          <5> QED BY <4>1, <5>1, <5>2, ContentAssumption DEF IsOrphan, Conf
        <4>3. CASE req[p].mode \notin PveMode
          BY <4>1, <4>3 DEF IsOrphan
        <4> QED BY <4>2, <4>3
      <3> QED BY <3>1, <3>2
    <2>2. CASE ~FindOrphans(r)
      BY <1>1, <1>2, <2>2, RemoverTakes DEF RemoverApart, Aimed
    <2> QED BY <2>1, <2>2
  <1>4. Home(p) \notin Aimed(r)'
    <2> SUFFICES ASSUME handle'[r] = Home(p), Active(r)', dpc'[r] # "next" PROVE FALSE
      BY <1>2, <1>3 DEF Aimed
    <2>1. CASE \E d \in DirKey, m \in Mode :
                 /\ dpc[r] \in {"find", "next"} /\ handle'[r] = d
                 /\ dpc[r] = "next" => \E o \in queue[r] : o[1] = d
                 /\ dpc[r] = "find" => r \in Destroyer
      <3>1. dpc[r] = "find" /\ r \in Destroyer
        BY <1>1, <2>1 DEF RemoverApart, Aimed
      <3>2. Met(p)'
        BY <1>1, <1>2, <3>1, KentoAssumption DEF Met, Owns, Aimed, Remover
      <3> QED BY <1>2, <3>2 DEF Touched
    <2>2. CASE handle'[r] = handle[r] /\
               (dpc[r] \notin {"find", "next"} \cup DEnd \/ dpc'[r] \in {"next"} \cup DEnd)
      BY <1>1, <2>2 DEF RemoverApart, Aimed, Active
    <2> QED BY <1>1, <1>2, <2>1, <2>2, RemoverTakes
  <1>5. ASSUME dpc'[r] \in {"conf", "wrapper"}, req[p].mode \in PveMode
        PROVE  ConfOf(kind'[r], slot'[r]) # Conf(p)
    <2>1. CASE ReadVmid(r)
      <3>1. /\ kind'[r] \in PveMode /\ handle'[r] = handle[r] /\ kind'[r] = kind[r]
            /\ Fits(handle[r], kind[r]) /\ handle[r] # Home(p)
        BY <1>1, <1>2, <1>5, <2>1, StepFitted
        DEF ReadVmid, victim, Fitted, RemoverApart, Aimed, Active, DEnd
      <3>2. slot'[r] = VmidOf(handle[r], kind[r])
        BY <1>1, <2>1, <3>1 DEF ReadVmid, DestroyTypeOK
      <3> QED BY <1>1, <1>5, <3>1, <3>2, ConfAway
    <2>2. CASE ~ReadVmid(r)
      <3>1. dpc[r] \in {"conf", "wrapper"} /\ kind'[r] = kind[r] /\ slot'[r] = slot[r]
        BY <1>1, <1>2, <1>5, <2>2 DEF DestroyTypeOK, RemoverStep, Resolve, NotFound, FindOrphans,
           ReapNext, Probe, StopVictim, ReadImage, DeleteConf, DeleteWrapper, RemoveHold,
           RemoveState, RemoveFiles, RemoveDir, Take, To, Leave, victim
      <3> QED BY <1>1, <1>5, <3>1 DEF RemoverApart
    <2> QED BY <2>1, <2>2
  <1>6. ASSUME OutsideState, dpc'[r] \in {"slot", "conf", "wrapper", "hold", "state"}
        PROVE  state'[r] # StateDir(Home(p))
    <2>1. CASE ReadImage(r)
      <3>1. /\ disk[handle[r]].image /\ state'[r] = state[r] /\ handle[r] # Home(p)
            /\ handle[r] \in DirKey /\ state[r] \in {handle[r], StateDir(handle[r])}
        BY <1>1, <1>6, <2>1
        DEF ReadImage, To, Leave, victim, Fitted, Fits, RemoverApart, Aimed, Active, DEnd,
            DestroyTypeOK
      <3> QED BY <1>1, <1>6, <3>1, StateAway
    <2>2. CASE ~ReadImage(r)
      <3>1. /\ dpc[r] \in {"slot", "conf", "wrapper", "hold", "state"} /\ state'[r] = state[r]
        BY <1>1, <1>2, <1>6, <2>2 DEF DestroyTypeOK, RemoverStep, Resolve, NotFound, FindOrphans,
           ReapNext, Probe, StopVictim, ReadVmid, DeleteConf, DeleteWrapper, RemoveHold,
           RemoveState, RemoveFiles, RemoveDir, Take, To, Leave, victim
      <3> QED BY <1>1, <1>6, <3>1 DEF RemoverApart
    <2> QED BY <2>1, <2>2
  <1> QED BY <1>2, <1>4, <1>5, <1>6 DEF RemoverApart, ConfOf

LEMMA SafeByRemover ==
  ASSUME NumbersApart, SparedInv, NEW p \in Spared, p \notin exposed',
         NEW r \in Remover, RemoverMoves(r)
  PROVE  Safe(p)'
  <1>1. /\ p \in Creator /\ HostInv /\ TInv /\ Safe(p) /\ RemoverStep(r) /\ UNCHANGED local
    BY DEF SparedInv, HostInv, Core, Spared, RemoverMoves
  <1>2. Still(p)
    BY <1>1 DEF Still, local
  <1>3. Whole(p)'
    BY <1>1, <1>2, RemoversLeave, WholeKept DEF Safe
  <1>4. \A d \in DirKey : /\ disk'[d].vmid \in {disk[d].vmid, None}
                          /\ disk'[d].image => disk[d].image
    <2>1. /\ disk \in [DirKey -> Files] /\ EmptyDir.vmid = None /\ NoDir.vmid = None
          /\ EmptyDir.image = FALSE /\ NoDir.image = FALSE
      BY <1>1 DEF TInv, TypeOK, HostTypeOK, EmptyDir, NoDir
    <2> QED BY <1>1, <2>1, RemoverHost
  <1>5. RecordedOnce(p)' /\ ImagesApart(p)' /\ OthersApart(p)'
    BY <1>1, <1>4, LessRecorded, VmidGiven DEF Safe
  <1>6. RemoversApart(p)'
    <2> SUFFICES ASSUME pc[p] = "done", NEW s \in Remover PROVE RemoverApart(p, s)'
      BY <1>2 DEF RemoversApart, Still
    <2>1. CASE s = r
      BY <2>1, ApartByRemover
    <2>2. CASE s # r
      <3>1. /\ dpc'[s] = dpc[s] /\ handle'[s] = handle[s] /\ kind'[s] = kind[s]
            /\ state'[s] = state[s] /\ slot'[s] = slot[s] /\ queue'[s] = queue[s]
        BY <1>1, <2>2, RemoverOthers DEF HostInv
      <3>2. RemoverApart(p, s)
        BY <1>1 DEF Safe, RemoversApart
      <3> QED BY <1>2, <3>1, <3>2 DEF Still, RemoverApart, Aimed, Active, Home, Conf, ConfOf, StateDir
    <2> QED BY <2>1, <2>2
  <1> QED BY <1>3, <1>5, <1>6 DEF Safe

\* Who loses its config to Proxmox is not spared.
LEMMA SafeByProxmox ==
  ASSUME SparedInv, NEW p \in Spared, p \notin exposed', RemoveOutOfBand
  PROVE  Safe(p)'
  <1>1. /\ p \in Creator /\ TInv /\ Safe(p) /\ UNCHANGED local /\ UNCHANGED removal
        /\ UNCHANGED <<disk, layers, wrapper>>
    BY DEF SparedInv, HostInv, Core, Spared, RemoveOutOfBand
  <1>2. Still(p) /\ Home(p)' = Home(p) /\ Conf(p)' = Conf(p)
    BY <1>1 DEF Still, local, Home, Conf
  <1>3. PICK c \in ConfKey : /\ conf[c] # Home(p) /\ c \notin up /\ up' = up
                             /\ conf' = [conf EXCEPT ![c] = None]
    BY <1>1 DEF RemoveOutOfBand
  <1>4. Whole(p)'
    <2>1. UNCHANGED <<disk, layers, up, wrapper>>
      BY <1>1, <1>3
    <2>2. /\ pc[p] \in InPlay => disk'[Home(p)'] = Filed(p)'
          /\ LayerKept(p)' /\ StopKept(p)'
          /\ pc'[p] \in {"start", "boot", "done"} /\ req'[p].mode \in PveMode =>
               Registered(p, "conf")'
      BY <1>1, <2>1 DEF Safe, Whole, LayerKept, StopKept, Registered, Guests, Home, StateDir,
         Filed, local
    <2>3. ASSUME NEW l \in {"state", "wrapper", "conf"} PROVE UndoInPlace(p, l)'
      <3>1. InPlace(p, l) => InPlace(p, l)'
        <4>1. CASE l = "conf"
          <5>1. conf[Conf(p)] = Home(p) => conf'[Conf(p)] = Home(p)
            BY <1>1, <1>3 DEF TInv, TypeOK, HostTypeOK
          <5> QED BY <1>1, <1>2, <4>1, <5>1 DEF InPlace, local
        <4>2. CASE l # "conf"
          BY <1>1, <1>2, <2>1, <4>2 DEF InPlace, StateDir, local
        <4> QED BY <4>1, <4>2
      <3> QED BY <1>1, <3>1 DEF Safe, Whole, UndoInPlace, Registered, local
    <2> QED BY <1>1, <2>2, <2>3 DEF Whole, local
  <1>5. RecordedOnce(p)' /\ ImagesApart(p)' /\ OthersApart(p)'
    BY <1>1, LessRecorded, VmidGiven DEF Safe
  <1>6. RemoversApart(p)'
    BY <1>1, <1>2, ApartKept DEF Safe, RemoversApart, Still
  <1> QED BY <1>4, <1>5, <1>6 DEF Safe

LEMMA WholeByItself ==
  ASSUME SparedInv, NEW p \in Spared, Step(p)
  PROVE  Whole(p)'
  <1>1. /\ p \in Creator /\ TInv /\ UndoShape /\ Stages /\ PortUnset /\ Whole(p)
    BY DEF SparedInv, HostInv, Core, Spared, Safe
  <1>2. pc'[p] \in InPlay => disk'[Home(p)'] = Filed(p)'
    <2>1. CASE MakeDir(p)
      BY <1>1, <2>1, FiledByMkdir
    <2>2. CASE ~MakeDir(p)
      BY <1>1, <2>2, EntersByMkdir, FiledByOwner DEF Whole
    <2> QED BY <2>1, <2>2
  <1>3. LayerKept(p)' /\ StopKept(p)'
    BY <1>1, LayersByOwner, StopByOwner DEF Whole
  <1>4. \A l \in {"state", "wrapper", "conf"} : UndoInPlace(p, l)'
    BY <1>1, UndosByOwner DEF Whole
  <1>5. pc'[p] \in {"start", "boot", "done"} /\ req'[p].mode \in PveMode => Registered(p, "conf")'
    <2> SUFFICES ASSUME pc'[p] \in {"start", "boot", "done"}, req'[p].mode \in PveMode
                 PROVE  Registered(p, "conf")'
      OBVIOUS
    <2>1. \/ pc[p] = "confUndo" /\ AddUndo(p)
          \/ RegisterStop(p) \/ StartGuest(p)
      BY <1>1 DEF PveMode, EndPc, TInv, TypeOK, LockedPc, TryPc, GapPc, PortPc, Step, CreateStep,
         Interrupt, Crash, Goto, Register, WriteFile, AfterName, Acquire, GenerateName, TakeName,
         TakeVmid, MakeDir, Refuse, RejectSeed, EnterTry, PinImage, TestState, MakeState,
         WriteImage, WriteMode, WriteName, PickPort, WritePort, WriteWrapper, WriteVmid, WriteConf,
         AddUndo, RegisterStop, StartGuest, Fail, RunCleanup, Reraise, AfterPort, AfterConf
    <2>2. undos[p] \in Seq(Label)
      BY <1>1 DEF TInv, TypeOK
    <2>3. CASE pc[p] = "confUndo" /\ AddUndo(p)
      <3>1. undos'[p] = Append(undos[p], "conf")
        BY <1>1, <2>3 DEF AddUndo, Register, TInv, TypeOK
      <3>2. Len(undos[p]) + 1 \in DOMAIN undos'[p] /\ undos'[p][Len(undos[p]) + 1] = "conf"
        BY <2>2, <3>1
      <3> QED BY <3>2 DEF Registered
    <2>4. CASE RegisterStop(p) \/ StartGuest(p)
      <3>1. Registered(p, "conf")
        BY <1>1, <2>4 DEF Whole, RegisterStop, StartGuest
      <3>2. undos'[p] = undos[p] \/ undos'[p] = Append(undos[p], "stop")
        BY <1>1, <2>4 DEF RegisterStop, StartGuest, Register, TInv, TypeOK
      <3>3. PICK i \in DOMAIN undos[p] : undos[p][i] = "conf"
        BY <3>1 DEF Registered
      <3>4. i \in DOMAIN undos'[p] /\ undos'[p][i] = "conf"
        BY <2>2, <3>2, <3>3
      <3> QED BY <3>4 DEF Registered
    <2> QED BY <2>1, <2>3, <2>4
  <1> QED BY <1>2, <1>3, <1>4, <1>5 DEF Whole

\* A create that gets its VMID gets one that is recorded nowhere.
LEMMA RecordedByItself ==
  ASSUME SparedInv, NEW p \in Spared, Step(p)
  PROVE  RecordedOnce(p)'
  <1>1. /\ p \in Creator /\ TInv /\ UndoShape /\ RecordedOnce(p) /\ Shaped
    BY DEF SparedInv, HostInv, Core, Spared, Safe
  <1> SUFFICES ASSUME Placed(p)', req'[p].mode \in PveMode, NEW d \in DirKey \ {Home(p)'}
               PROVE  disk'[d].vmid # vmid'[p]
    BY DEF RecordedOnce
  <1>2. CASE TakeVmid(p)
    <2>1. vmid'[p] \in FreeVmids /\ disk' = disk
      BY <1>1, <1>2 DEF TakeVmid, TInv, TypeOK, host
    <2>2. disk[d].vmid # None => disk[d].vmid \in UsedVmids
      <3> SUFFICES ASSUME disk[d].vmid # None PROVE disk[d].vmid \in KentoRecordedVmids
        BY DEF UsedVmids
      <3>1. d.base = "vm" /\ disk[d].dir
        BY <1>1 DEF Shaped, NoDir
      <3>2. d \in {e \in Existing : e.base = "vm" /\ disk[e].vmid # None}
        BY <3>1 DEF Existing
      <3> QED BY <3>2 DEF KentoRecordedVmids
    <2> QED BY <2>1, <2>2, StateAssumption DEF FreeVmids
  <1>3. CASE ~TakeVmid(p)
    <2>1. Placed(p) /\ Past(p)' /\ req' = req /\ vmid' = vmid /\ Home(p)' = Home(p)
      <3>1. Placed(p) /\ req' = req /\ vmid' = vmid /\ name' = name
        BY <1>1, <1>3 DEF Placed, InPlay, PveMode, TInv, TypeOK, LockedPc, TryPc, GapPc, PortPc,
           EndPc, Step, CreateStep, Interrupt, Crash, Goto, Register, WriteFile, AfterName, Acquire,
           GenerateName, TakeName, TakeVmid, MakeDir, Refuse, RejectSeed, EnterTry, PinImage,
           TestState, MakeState, WriteImage, WriteMode, WriteName, PickPort, WritePort,
           WriteWrapper, WriteVmid, WriteConf, AddUndo, RegisterStop, StartGuest, Fail, RunCleanup,
           Reraise, AfterPort, AfterConf
      <3>2. Past(p)'
        BY <1>1, <3>1 DEF Placed, InPlay, Past, PveMode, TInv, TypeOK, LockedPc, TryPc, GapPc,
           PortPc, EndPc, Step, CreateStep, Interrupt, Crash, Goto, Register, WriteFile, AfterName,
           Acquire, GenerateName, TakeName, TakeVmid, MakeDir, Refuse, RejectSeed, EnterTry,
           PinImage, TestState, MakeState, WriteImage, WriteMode, WriteName, PickPort, WritePort,
           WriteWrapper, WriteVmid, WriteConf, AddUndo, RegisterStop, StartGuest, Fail, RunCleanup,
           Reraise, AfterPort, AfterConf
      <3> QED BY <3>1, <3>2 DEF Home
    <2> QED BY <1>1, <2>1, CreateRecords DEF RecordedOnce
  <1> QED BY <1>2, <1>3

\* So with its name, where the state directories go by it.
LEMMA ImagesByItself ==
  ASSUME NumbersApart, OutsideState => Unforced, SparedInv, NEW p \in Spared, Step(p)
  PROVE  ImagesApart(p)'
  <1>1. /\ p \in Creator /\ TInv /\ UndoShape /\ Asked /\ ImagesApart(p) /\ Shaped
    BY DEF SparedInv, HostInv, Core, Spared, Safe
  <1> SUFFICES ASSUME OutsideState, Placed(p)' \/ pc'[p] = "vmid", req'[p].mode # "pve",
                      NEW d \in DirKey \ {Home(p)'}, disk'[d].image
               PROVE  d.id # name'[p]
    BY DEF ImagesApart
  <1>2. CASE pc[p] = "name"
    <2>1. GenerateName(p) \/ TakeName(p)
      BY <1>1, <1>2 DEF Placed, InPlay, EndPc, TInv, TypeOK, Step, CreateStep, Interrupt, Crash,
         Goto, TryPc, GapPc, PortPc, Acquire, TakeVmid, MakeDir, Refuse, RejectSeed, EnterTry,
         PinImage, TestState, MakeState, WriteImage, WriteMode, WriteName, PickPort, WritePort,
         WriteWrapper, WriteVmid, WriteConf, AddUndo, RegisterStop, StartGuest, Fail, RunCleanup,
         Reraise
    <2>2. disk' = disk /\ pc'[p] # "name" /\ InProgress(p)'
      BY <1>1, <2>1 DEF GenerateName, TakeName, AfterName, Goto, host, InProgress, EndPc, TInv,
         TypeOK
    <2>3. d \in Existing /\ d.base \in {"lxc", "vm"}
      BY <1>1, <2>2 DEF Shaped, NoDir, Existing, DirKey
    <2>4. d.id \in UsedNames /\ d \in Scan(d.id, d.base)
      BY <2>2, <2>3 DEF UsedNames, Scan
    <2> QED BY <1>1, <1>2, <2>2, <2>3, <2>4, GivenFree
  <1>3. CASE pc[p] # "name"
    <2>1. /\ Placed(p) \/ pc[p] = "vmid"
          /\ req' = req /\ name' = name /\ Home(p)' = Home(p)
      <3>1. /\ Placed(p) \/ pc[p] = "vmid"
            /\ req' = req /\ name' = name /\ (vmid' = vmid \/ TakeVmid(p))
        BY <1>1, <1>3 DEF Placed, InPlay, PveMode, TInv, TypeOK, LockedPc, TryPc, GapPc, PortPc,
           EndPc, Step, CreateStep, Interrupt, Crash, Goto, Register, WriteFile, AfterName, Acquire,
           GenerateName, TakeName, TakeVmid, MakeDir, Refuse, RejectSeed, EnterTry, PinImage,
           TestState, MakeState, WriteImage, WriteMode, WriteName, PickPort, WritePort,
           WriteWrapper, WriteVmid, WriteConf, AddUndo, RegisterStop, StartGuest, Fail, RunCleanup,
           Reraise, AfterPort, AfterConf
      <3> QED BY <3>1 DEF Home, DirOf
    <2> QED BY <1>1, <2>1, CreateRecords DEF ImagesApart
  <1> QED BY <1>2, <1>3

\* When it finishes, those still on their way have not met or competed with it.
LEMMA ApartByItself ==
  ASSUME NumbersApart, SparedInv, NEW p \in Spared, Step(p), UNCHANGED removal
  PROVE  OthersApart(p)' /\ RemoversApart(p)'
  <1>1. p \in Creator /\ TInv
    BY DEF SparedInv, HostInv, Core, Spared
  <1> SUFFICES ASSUME pc'[p] = "done" PROVE OthersApart(p)' /\ RemoversApart(p)'
    BY DEF OthersApart, RemoversApart
  <1>2. ~MakeDir(p) /\ pc[p] \in InPlay \ {"done"}
    <2>1. ~MakeDir(p) /\ pc'[p] \in InPlay
      BY <1>1 DEF MakeDir, Goto, TInv, TypeOK, InPlay
    <2> QED BY <1>1, <2>1, EntersByMkdir
  <1>3. /\ InProgress(p) /\ Placed(p) /\ Past(p)
        /\ pc[p] \notin {"name", "vmid"}
    BY <1>2 DEF InPlay, TryPc, GapPc, PortPc, InProgress, EndPc, Placed, Past, LockedPc
  <1>4. /\ Home(p)' = Home(p) /\ Conf(p)' = Conf(p) /\ req' = req
        /\ name'[p] = name[p] /\ vmid'[p] = vmid[p]
    BY <1>1, <1>3, PastKept
  <1>5. OthersApart(p)'
    <2> SUFFICES ASSUME NEW q \in Creator \ {p}
                 PROVE  /\ Owns(q)' /\ pc'[q] # "done" => Home(q)' # Home(p)
                        /\ /\ InProgress(q)' /\ pc'[q] \notin {"name", "vmid"}
                           /\ req[p].mode \in PveMode /\ req[q].mode \in PveMode
                           => vmid'[q] # vmid[p]
                        /\ OutsideState /\ InProgress(q)' /\ pc'[q] # "name" =>
                             name'[q] # name[p]
      BY <1>4 DEF OthersApart
    <2>1. /\ pc'[q] = pc[q] /\ vmid'[q] = vmid[q] /\ name'[q] = name[q] /\ Home(q)' = Home(q)
          /\ undos'[q] = undos[q]
      BY <1>1, OthersKeep DEF Home
    <2>2. Owns(q) /\ pc[q] # "done" => InProgress(q) /\ pc[q] \notin {"name", "vmid"}
      BY DEF Owns, TryPc, GapPc, PortPc, InProgress, EndPc
    <2>3. Owns(q) /\ pc[q] # "done" => Home(q) # Home(p)
      BY <1>2, <1>3, <2>2, SpareAway DEF Away
    <2> QED BY <1>3, <2>1, <2>3, NamesAway DEF Owns, InProgress
  <1>6. RemoversApart(p)'
    BY <1>1, <1>2, <1>4, RemoverAway, ApartKept DEF RemoversApart
  <1> QED BY <1>5, <1>6

LEMMA SafeByItself ==
  ASSUME NumbersApart, OutsideState => Unforced, SparedInv,
         NEW p \in Spared, Step(p), UNCHANGED removal
  PROVE  Safe(p)'
  BY WholeByItself, RecordedByItself, ImagesByItself, ApartByItself DEF Safe

LEMMA StepTold == ASSUME Remember PROVE Told' /\ exposed \subseteq exposed' /\ rivals \subseteq rivals'
  BY DEF Remember, Told

LEMMA ProxmoxTold ==
  ASSUME Told, RemoveOutOfBand
  PROVE  Told' /\ exposed \subseteq exposed' /\ rivals' = rivals
  <1>1. UNCHANGED local /\ UNCHANGED removal /\ disk' = disk /\ rivals' = rivals
        /\ exposed \subseteq exposed'
    BY DEF RemoveOutOfBand
  <1>2. \A p \in Creator : Met(p)' = Met(p) /\ Rival(p)' = Rival(p) /\ InProgress(p)' = InProgress(p)
    BY <1>1 DEF local, removal, victim, Met, Owns, Home, Aimed, Active, Rival, InProgress
  <1>3. \A r \in Remover : Stranded(r)' = Stranded(r)
    BY <1>1 DEF removal, victim, Stranded, VmidOf
  <1> QED BY <1>1, <1>2, <1>3 DEF Told, Touched

LEMMA IdleSparedInv == ASSUME SparedInv, UNCHANGED kento PROVE SparedInv'
  <1>1. UNCHANGED local /\ UNCHANGED host /\ UNCHANGED removal /\ UNCHANGED history
    BY DEF kento, vars
  <1>2. HostInv'
    BY IdleHostInv DEF SparedInv
  <1>3. Told'
    <2>1. \A p \in Creator : Met(p)' = Met(p) /\ Rival(p)' = Rival(p) /\ InProgress(p)' = InProgress(p)
      BY <1>1 DEF local, removal, victim, Met, Owns, Home, Aimed, Active, Rival, InProgress
    <2>2. \A r \in Remover : Stranded(r)' = Stranded(r)
      BY <1>1 DEF host, removal, victim, Stranded, VmidOf
    <2> QED BY <1>1, <2>1, <2>2 DEF SparedInv, Told, Touched, history
  <1>4. ASSUME NEW p \in Spared PROVE Safe(p)'
    <2>1. p \in Creator /\ Safe(p) /\ TInv
      BY DEF SparedInv, HostInv, Core, Spared
    <2>2. Still(p) /\ Left(p) /\ Home(p)' = Home(p) /\ Conf(p)' = Conf(p)
      BY <1>1 DEF local, host, Still, Left, Home, Conf
    <2>3. Whole(p)'
      BY <2>1, <2>2, WholeKept DEF Safe
    <2>4. RecordedOnce(p)' /\ ImagesApart(p)' /\ OthersApart(p)'
      BY <1>1, <2>1, LessRecorded, VmidGiven DEF Safe, host
    <2>5. RemoversApart(p)'
      BY <1>1, <2>1, <2>2, ApartKept DEF Safe, RemoversApart, Still
    <2> QED BY <2>3, <2>4, <2>5 DEF Safe
  <1>5. Spared' = Spared
    BY <1>1 DEF Spared, history
  <1> QED BY <1>2, <1>3, <1>4, <1>5 DEF SparedInv

\* An instance that was created side by side with others, and that no remover
\* has aimed at, stays whole for good: its files, layers, wrapper, Proxmox config
\* and running guest outlast the destroys and prunes of its neighbours, the
\* reuse of their names and VMIDs by other creates, failures, interrupts, kills
\* and Proxmox's own removals (destroy.py:38-129, reconcile.py:117-170).  Names
\* are no VMIDs, and where the layers live outside the instance directories
\* nobody forces a name into both namespaces: the two would share one.
THEOREM SurvivorsStay ==
  ASSUME NumbersApart, OutsideState => Unforced
  PROVE  KentoSpec => []SurvivorsIntact
  <1>1. KentoInit => SparedInv
    <2> SUFFICES ASSUME KentoInit PROVE SparedInv
      OBVIOUS
    <2>1. /\ HostInv
          /\ \A p \in Creator : pc[p] = "lock" /\ undos[p] = << >>
      BY InitHostInv DEF KentoInit, Init
    <2>2. Told
      BY <2>1 DEF Told, Touched, Met, Owns, InProgress, Rival, TryPc, GapPc, PortPc
    <2>3. \A p \in Creator : Safe(p)
      BY <2>1 DEF Safe, Whole, LayerKept, UndoInPlace, StopKept, RecordedOnce, ImagesApart,
         OthersApart, RemoversApart, Placed, InPlay, TryPc, GapPc, PortPc
    <2> QED BY <2>1, <2>2, <2>3 DEF SparedInv, Spared
  <1>2. SparedInv /\ [KentoNext]_kento => SparedInv'
    <2> SUFFICES ASSUME SparedInv, [KentoNext]_kento PROVE SparedInv'
      OBVIOUS
    <2>1. HostInv'
      BY StepHostInv DEF SparedInv
    <2>2. ASSUME NEW q \in Creator, CreatorMoves(q) PROVE SparedInv'
      <3>1. Step(q) /\ UNCHANGED removal /\ Remember
        BY <2>2 DEF CreatorMoves, Step
      <3>2. \A p \in Spared : Safe(p)'
        <4> SUFFICES ASSUME NEW p \in Spared PROVE Safe(p)'
          OBVIOUS
        <4> QED BY <3>1, SafeByItself, SafeByOthers
      <3> QED BY <2>1, <3>1, <3>2, StepTold DEF SparedInv, Spared
    <2>3. ASSUME NEW r \in Remover, RemoverMoves(r) PROVE SparedInv'
      <3>1. Remember
        BY <2>3 DEF RemoverMoves
      <3>2. \A p \in Spared : p \notin exposed' => Safe(p)'
        BY <2>3, SafeByRemover
      <3> QED BY <2>1, <3>1, <3>2, StepTold DEF SparedInv, Spared
    <2>4. ASSUME RemoveOutOfBand PROVE SparedInv'
      <3>1. Told' /\ exposed \subseteq exposed' /\ rivals' = rivals
        BY <2>4, ProxmoxTold DEF SparedInv
      <3>2. \A p \in Spared : p \notin exposed' => Safe(p)'
        BY <2>4, SafeByProxmox
      <3> QED BY <2>1, <3>1, <3>2 DEF SparedInv, Spared
    <2>5. CASE UNCHANGED kento
      BY <2>5, IdleSparedInv
    <2> QED BY <2>2, <2>3, <2>4, <2>5 DEF KentoNext, Stopped
  <1>3. SparedInv => SurvivorsIntact
    <2> SUFFICES ASSUME SparedInv, NEW p \in Spared, pc[p] = "done" PROVE Intact(p)
      BY DEF SurvivorsIntact, Spared
    <2>1. p \in Creator /\ TInv /\ Whole(p) /\ pc[p] \in InPlay
      BY DEF SparedInv, HostInv, Core, Safe, Spared, InPlay
    <2>2. disk[Home(p)] = Written(p)
      BY <2>1 DEF Whole, Filed, Written, BeforeName, BeforeMode, BeforeImage, BeforeState, AfterVmid
    <2>3. StateDir(Home(p)) \in layers
      BY <2>1 DEF Whole, LayerKept, BeforeState
    <2>4. ASSUME NEW i \in DOMAIN undos[p], undos[p][i] # "hold"
          PROVE  InPlace(p, undos[p][i])
      <3>1. undos[p] \in Seq(Label)
        BY <2>1 DEF TInv, TypeOK
      <3>2. undos[p][i] \in Label /\ Registered(p, undos[p][i])
        BY <3>1 DEF Registered
      <3>3. CASE undos[p][i] = "stop"
        BY <2>1, <3>2, <3>3 DEF Whole, StopKept, InPlace
      <3>4. CASE undos[p][i] = "dir"
        BY <2>2, <3>4 DEF Written, InPlace
      <3>5. CASE undos[p][i] \in {"state", "wrapper", "conf"}
        BY <2>1, <3>2, <3>5 DEF Whole, UndoInPlace
      <3> QED BY <2>4, <3>2, <3>3, <3>4, <3>5 DEF Label
    <2> QED BY <2>2, <2>3, <2>4 DEF Intact
  <1> QED BY <1>1, <1>2, <1>3, PTL DEF KentoSpec
-------------------------------------------------------------------------------
(* What a remover works on was some create's. *)

\* A create that got past its allocation had the directory d, in the mode m if
\* that is one of Proxmox.
Had(d, m) == \E q \in Creator : Past(q) /\ Home(q) = d /\ (m \in PveMode => req[q].mode = m)

\* Whatever is in a directory was written by a create that had it.
Origins ==
  \A d \in DirKey :
    /\ disk[d].image => \E q \in Creator : Past(q) /\ Home(q) = d
    /\ disk[d].mode # None => \E q \in Creator : Past(q) /\ Home(q) = d /\ req[q].mode = disk[d].mode
    /\ disk[d].vmid # None => \E q \in Creator : /\ Past(q) /\ Home(q) = d
                                                 /\ req[q].mode = "pve-vm" /\ vmid[q] = disk[d].vmid

\* The directories a remover has found, and the config it goes for, were creates'.
Sought(r) ==
  /\ dpc[r] = "find" => handle[r] = None /\ queue[r] = {}
  /\ dpc[r] = "next" => r \in Reaper
  /\ handle[r] # None => Had(handle[r], kind[r])
  /\ r \in Reaper /\ handle[r] # None => kind[r] \in PveMode
  /\ \A o \in queue[r] : Had(o[1], o[2]) /\ o[2] \in PveMode
  /\ dpc[r] \in {"conf", "wrapper"} =>
       \E q \in Creator : /\ Past(q) /\ req[q].mode \in PveMode /\ Home(q) = handle[r]
                          /\ Conf(q) = ConfOf(kind[r], slot[r])

\* Where commands fail there is one remover, so all warnings are its own.
Out(r) == dpc[r] = "done" /\ handle[r] = None

Solo == /\ ~Flaky => \A r \in Remover : skipped[r] = {}
        /\ Flaky => \A r, s \in Remover : r # s => Out(r) \/ Out(s)

TrailInv == HostInv /\ Traced /\ Origins /\ (\A r \in Remover : Sought(r)) /\ Solo

LEMMA Writes ==
  ASSUME TInv, Stages, NEW c \in Creator, Step(c), NEW d \in DirKey
  PROVE  /\ disk'[d].image => disk[d].image \/ (Past(c) /\ d = Home(c))
         /\ disk'[d].mode # None =>
              \/ disk'[d].mode = disk[d].mode
              \/ Past(c) /\ d = Home(c) /\ disk'[d].mode = req[c].mode
         /\ disk'[d].vmid # None =>
              \/ disk'[d].vmid = disk[d].vmid
              \/ Past(c) /\ d = Home(c) /\ req[c].mode = "pve-vm" /\ disk'[d].vmid = vmid[c]
  <1>0. disk \in [DirKey -> Files] /\ disk[d] \in Files
    BY DEF TInv, TypeOK, HostTypeOK
  <1>1. CASE MakeDir(c) \/ RejectSeed(c) \/ RunCleanup(c)
    <2>1. \/ disk' = disk \/ disk' = [disk EXCEPT ![Home(c)] = NoDir]
          \/ disk' = [disk EXCEPT ![Home(c)] = EmptyDir]
      BY <1>1 DEF MakeDir, RejectSeed, RunCleanup, UndoEffect, host
    <2>2. /\ NoDir.mode = None /\ NoDir.vmid = None /\ ~NoDir.image
          /\ EmptyDir.mode = None /\ EmptyDir.vmid = None /\ ~EmptyDir.image
      BY DEF NoDir, EmptyDir
    <2> QED BY <1>0, <2>1, <2>2
  <1>2. CASE MakeState(c) \/ WriteImage(c) \/ WriteMode(c) \/ WriteName(c) \/ WritePort(c) \/ WriteVmid(c)
    <2>1. Past(c)
      BY <1>2 DEF Past, LockedPc, MakeState, WriteImage, WriteMode, WriteName, WritePort, WriteVmid
    <2>2. d # Home(c) => disk'[d] = disk[d]
      BY <1>0, <1>2 DEF MakeState, WriteImage, WriteMode, WriteName, WritePort, WriteVmid, WriteFile
    <2>3. CASE d = Home(c)
      <3>1. CASE WriteMode(c)
        BY <1>0, <2>1, <2>3, <3>1 DEF WriteMode, WriteFile, Files
      <3>2. CASE WriteVmid(c)
        BY <1>0, <2>1, <2>3, <3>2 DEF WriteVmid, WriteFile, Files, Stages
      <3>3. CASE MakeState(c) \/ WriteImage(c) \/ WriteName(c) \/ WritePort(c)
        BY <1>0, <2>1, <2>3, <3>3 DEF MakeState, WriteImage, WriteName, WritePort, WriteFile, Files
      <3> QED BY <1>2, <3>1, <3>2, <3>3
    <2> QED BY <2>2, <2>3
  <1>3. CASE ~(\/ MakeDir(c) \/ RejectSeed(c) \/ RunCleanup(c) \/ MakeState(c) \/ WriteImage(c)
              \/ WriteMode(c) \/ WriteName(c) \/ WritePort(c) \/ WriteVmid(c))
    <2>1. disk' = disk
      BY <1>3 DEF host, Step, CreateStep, Interrupt, Crash, Acquire, GenerateName, TakeName,
         TakeVmid, Refuse, EnterTry, PinImage, TestState, PickPort, WriteWrapper, WriteConf,
         AddUndo, RegisterStop, StartGuest, Fail, Reraise
    <2> QED BY <2>1
  <1> QED BY <1>1, <1>2, <1>3

LEMMA StepOrigins == ASSUME TInv, Stages, Origins, NEW c \in Creator, Step(c) PROVE Origins'
  <1> SUFFICES ASSUME NEW d \in DirKey
               PROVE  /\ disk'[d].image => \E q \in Creator : Past(q)' /\ Home(q)' = d
                      /\ disk'[d].mode # None =>
                           \E q \in Creator : Past(q)' /\ Home(q)' = d /\ req'[q].mode = disk'[d].mode
                      /\ disk'[d].vmid # None =>
                           \E q \in Creator : /\ Past(q)' /\ Home(q)' = d
                                              /\ req'[q].mode = "pve-vm" /\ vmid'[q] = disk'[d].vmid
    BY DEF Origins
  <1>1. \A q \in Creator : Past(q) =>
          Past(q)' /\ Home(q)' = Home(q) /\ req' = req /\ vmid'[q] = vmid[q]
    BY PastKept
  <1>2. disk'[d].image => \E q \in Creator : Past(q) /\ Home(q) = d
    BY Writes DEF Origins
  <1>3. disk'[d].mode # None =>
          \E q \in Creator : Past(q) /\ Home(q) = d /\ req[q].mode = disk'[d].mode
    BY Writes DEF Origins
  <1>4. disk'[d].vmid # None =>
          \E q \in Creator : /\ Past(q) /\ Home(q) = d
                             /\ req[q].mode = "pve-vm" /\ vmid[q] = disk'[d].vmid
    BY Writes DEF Origins
  <1> QED BY <1>1, <1>2, <1>3, <1>4

\* Creates do not disturb what removers have found.
LEMMA TrailByCreate ==
  ASSUME TrailInv, NEW c \in Creator, CreatorMoves(c)
  PROVE  TrailInv'
  <1>1. Step(c) /\ UNCHANGED removal /\ HostInv' /\ TInv /\ Stages
    BY CreatorHostInv DEF CreatorMoves, Step, TrailInv, HostInv, Core
  <1>2. Traced' /\ Origins'
    BY <1>1, StepTraced, StepOrigins DEF TrailInv
  <1>3. \A d \in DirKey, m \in Mode : Had(d, m) => Had(d, m)'
    BY <1>1, PastKept DEF Had
  <1>4. \A r \in Remover : Sought(r)'
    <2> SUFFICES ASSUME NEW r \in Remover PROVE Sought(r)'
      OBVIOUS
    <2>1. /\ Sought(r) /\ Fitted(r)
          /\ dpc'[r] = dpc[r] /\ handle'[r] = handle[r] /\ kind'[r] = kind[r]
          /\ slot'[r] = slot[r] /\ queue'[r] = queue[r]
      BY <1>1 DEF TrailInv, HostInv, removal, victim
    <2>2. dpc[r] \in {"conf", "wrapper"} =>
            \E q \in Creator : /\ Past(q)' /\ req'[q].mode \in PveMode /\ Home(q)' = handle[r]
                               /\ Conf(q)' = ConfOf(kind[r], slot[r])
      BY <1>1, <2>1, PastKept DEF Sought
    <2>3. /\ handle[r] # None => handle[r] \in DirKey /\ kind[r] \in Mode
          /\ \A o \in queue[r] : o[1] \in DirKey /\ o[2] \in Mode
      BY <2>1 DEF Fitted, Fits
    <2> QED BY <1>3, <2>1, <2>2, <2>3 DEF Sought
  <1>5. Solo'
    BY <1>1 DEF TrailInv, Solo, Out, removal, victim
  <1> QED BY <1>1, <1>2, <1>4, <1>5 DEF TrailInv

\* Removers only take away, so what is there is still from where it was.
LEMMA RemoverLessens ==
  ASSUME HostInv, NEW r \in Remover, RemoverStep(r), UNCHANGED local
  PROVE  /\ \A d \in DirKey : disk'[d] = disk[d] \/ (d = handle[r] /\ disk'[d] \in {EmptyDir, NoDir})
         /\ \A d \in DirKey : disk'[d].dir => disk[d].dir
         /\ holds' \subseteq holds /\ layers' \subseteq layers /\ up' \subseteq up
         /\ \A c \in ConfKey : conf'[c] \in {conf[c], None} /\ wrapper'[c] \in {wrapper[c], None}
  <1>1. /\ disk \in [DirKey -> Files]
        /\ conf \in [ConfKey -> DirKey \cup {None, Foreign}]
        /\ wrapper \in [ConfKey -> DirKey \cup {None}]
    BY DEF HostInv, Core, TInv, TypeOK, HostTypeOK
  <1>2. \A d \in DirKey : disk'[d] = disk[d] \/ (d = handle[r] /\ disk'[d] \in {EmptyDir, NoDir})
    BY <1>1, RemoverHost
  <1>3. \A d \in DirKey : disk'[d].dir => disk[d].dir
    BY <1>1, RemoverHost
  <1>4. holds' \subseteq holds /\ layers' \subseteq layers /\ up' \subseteq up
    BY RemoverHost
  <1>5. \A c \in ConfKey : conf'[c] \in {conf[c], None} /\ wrapper'[c] \in {wrapper[c], None}
    BY <1>1, RemoverHost
  <1> QED BY <1>2, <1>3, <1>4, <1>5

\* A remover knows the create whose Proxmox config it is about to delete.
LEMMA SoughtByRemover ==
  ASSUME HostInv, Origins, NEW r \in Remover, Sought(r), RemoverStep(r), UNCHANGED local
  PROVE  Sought(r)'
  <1>0. /\ DestroyTypeOK /\ Fitted(r) /\ None \notin DirKey /\ disk \in [DirKey -> Files]
        /\ \A d, m : Had(d, m)' = Had(d, m)
    BY ContentAssumption
    DEF HostInv, Core, TInv, TypeOK, HostTypeOK, Had, Past, Home, local
  <1>1. \A d \in DirKey : disk[d].image => Had(d, ModeOf(d))
    BY DEF Origins, Had, ModeOf, DirKey, PveMode
  <1>2. dpc'[r] # "find" /\ (dpc'[r] = "next" => r \in Reaper)
    BY <1>0 DEF Sought, DestroyTypeOK, RemoverStep, Resolve, NotFound, FindOrphans, ReapNext, Probe,
       StopVictim, ReadImage, ReadVmid, DeleteConf, DeleteWrapper, RemoveHold, RemoveState,
       RemoveFiles, RemoveDir, Take, To, Leave
  <1>3. /\ handle'[r] # None => Had(handle'[r], kind'[r])
        /\ r \in Reaper /\ handle'[r] # None => kind'[r] \in PveMode
    <2>1. CASE Resolve(r)
      <3>1. PICK d \in Matches(aim[r].name, aim[r].scope) : Take(r, d, ModeOf(d), aim[r].name)
        BY <2>1 DEF Resolve
      <3>2. d \in DirKey /\ disk[d].image /\ r \notin Reaper
        BY <2>1, KentoAssumption DEF Matches, Hits, Scan, Existing, Resolve
      <3> QED BY <1>0, <1>1, <3>1, <3>2 DEF Take, DestroyTypeOK
    <2>2. CASE ReapNext(r)
      BY <1>0, <2>2 DEF ReapNext, Take, victim, DestroyTypeOK, Sought
    <2>3. CASE ~Resolve(r) /\ ~ReapNext(r)
      <3>1. handle'[r] = handle[r] /\ kind'[r] = kind[r]
        BY <2>3 DEF RemoverStep, NotFound, FindOrphans, Probe, StopVictim, ReadImage, ReadVmid,
           DeleteConf, DeleteWrapper, RemoveHold, RemoveState, RemoveFiles, RemoveDir, victim
      <3> QED BY <3>1 DEF Sought
    <2> QED BY <2>1, <2>2, <2>3
  <1>4. \A o \in queue'[r] : Had(o[1], o[2]) /\ o[2] \in PveMode
    <2>1. CASE FindOrphans(r)
      <3>1. queue'[r] = {<<d, ModeOf(d), IF disk[d].name = None THEN d.id ELSE disk[d].name>> :
                           d \in {e \in Existing : disk[e].image /\ IsOrphan(e)}}
        BY <1>0, <2>1 DEF FindOrphans, DestroyTypeOK
      <3> QED BY <1>1, <3>1 DEF Existing, IsOrphan
    <2>2. CASE ~FindOrphans(r)
      BY <2>2, RemoverTakes DEF Sought
    <2> QED BY <2>1, <2>2
  <1>5. ASSUME dpc'[r] \in {"conf", "wrapper"}
        PROVE  \E q \in Creator : /\ Past(q) /\ req[q].mode \in PveMode /\ Home(q) = handle'[r]
                                  /\ Conf(q) = ConfOf(kind'[r], slot'[r])
    <2>1. CASE ReadVmid(r)
      <3>1. /\ handle'[r] = handle[r] /\ kind'[r] = kind[r]
            /\ slot'[r] = IF kind[r] \in PveMode THEN VmidOf(handle[r], kind[r]) ELSE None
            /\ slot'[r] # None /\ handle[r] \in DirKey
        BY <1>0, <1>5, <2>1 DEF ReadVmid, To, victim, DestroyTypeOK, Fitted, Fits, DEnd
      <3>2. kind[r] \in PveMode /\ Had(handle[r], kind[r])
        BY <1>0, <3>1 DEF Sought
      <3>3. PICK q \in Creator : Past(q) /\ Home(q) = handle[r] /\ req[q].mode = kind[r]
        BY <3>2 DEF Had
      <3>4. CASE kind[r] = "pve"
        BY <3>1, <3>3, <3>4 DEF VmidOf, Home, DirOf, Conf, PveMode
      <3>5. CASE kind[r] = "pve-vm"
        <4>1. disk[handle[r]].vmid # None /\ slot'[r] = disk[handle[r]].vmid
          BY <3>1, <3>5 DEF VmidOf, PveMode
        <4> QED BY <3>1, <3>5, <4>1 DEF Origins, Conf, PveMode
      <3> QED BY <3>2, <3>4, <3>5 DEF PveMode
    <2>2. CASE ~ReadVmid(r)
      <3>1. /\ dpc[r] \in {"conf", "wrapper"} /\ handle'[r] = handle[r] /\ kind'[r] = kind[r]
            /\ slot'[r] = slot[r]
        BY <1>0, <1>5, <2>2 DEF DestroyTypeOK, RemoverStep, Resolve, NotFound, FindOrphans,
           ReapNext, Probe, StopVictim, ReadImage, DeleteConf, DeleteWrapper, RemoveHold,
           RemoveState, RemoveFiles, RemoveDir, Take, To, Leave, victim
      <3> QED BY <3>1 DEF Sought
    <2> QED BY <2>1, <2>2
  <1>6. \A q \in Creator : /\ Past(q)' = Past(q) /\ req'[q] = req[q]
                           /\ Home(q)' = Home(q) /\ Conf(q)' = Conf(q)
    BY DEF Past, Home, Conf, local
  <1> QED BY <1>0, <1>2, <1>3, <1>4, <1>5, <1>6 DEF Sought

LEMMA TrailByRemover ==
  ASSUME TrailInv, NEW r \in Remover, RemoverMoves(r)
  PROVE  TrailInv'
  <1>1. /\ HostInv /\ HostInv' /\ RemoverStep(r) /\ UNCHANGED local /\ DestroyTypeOK
    BY RemoverHostInv DEF TrailInv, HostInv, RemoverMoves
  <1>2. /\ \A q \in Creator : /\ Past(q)' = Past(q) /\ Home(q)' = Home(q) /\ Conf(q)' = Conf(q)
                              /\ Guests(q)' = Guests(q) /\ StateDir(Home(q))' = StateDir(Home(q))
        /\ req' = req /\ name' = name /\ vmid' = vmid
    BY <1>1 DEF local, Past, Home, Conf, Guests, StateDir
  <1>3. Traced'
    <2>1. \A c \in ConfKey : /\ wrapper'[c] # None => wrapper[c] # None
                             /\ conf'[c] \in DirKey => conf[c] \in DirKey
      BY <1>1, RemoverLessens, ContentAssumption
    <2> QED BY <1>1, <1>2, <2>1, RemoverLessens DEF TrailInv, Traced
  <1>4. Origins'
    <2>1. /\ EmptyDir.image = FALSE /\ EmptyDir.mode = None /\ EmptyDir.vmid = None
          /\ NoDir.image = FALSE /\ NoDir.mode = None /\ NoDir.vmid = None
      BY DEF EmptyDir, NoDir
    <2> QED BY <1>1, <1>2, <2>1, RemoverLessens DEF TrailInv, Origins
  <1>5. ASSUME NEW s \in Remover PROVE Sought(s)'
    <2>1. CASE s = r
      BY <1>1, <2>1, SoughtByRemover DEF TrailInv
    <2>2. CASE s # r
      <3>1. /\ dpc'[s] = dpc[s] /\ handle'[s] = handle[s] /\ kind'[s] = kind[s]
            /\ slot'[s] = slot[s] /\ queue'[s] = queue[s]
        BY <1>1, <2>2, RemoverOthers
      <3>2. \A d, m : Had(d, m)' = Had(d, m)
        BY <1>2 DEF Had
      <3> QED BY <1>2, <3>1, <3>2 DEF TrailInv, Sought
    <2> QED BY <2>1, <2>2
  <1>6. Solo'
    <2>1. ~Flaky => skipped'[r] = {}
      BY <1>1 DEF TrailInv, Solo, DestroyTypeOK, RemoverStep, Resolve, NotFound, FindOrphans,
         ReapNext, Probe, StopVictim, ReadImage, ReadVmid, DeleteConf, DeleteWrapper, RemoveHold,
         RemoveState, RemoveFiles, RemoveDir, Take
    <2>2. ~Out(r)
      BY <1>1 DEF Out, RemoverStep, Resolve, NotFound, FindOrphans, ReapNext, Probe,
         StopVictim, ReadImage, ReadVmid, DeleteConf, DeleteWrapper, RemoveHold, RemoveState,
         RemoveFiles, RemoveDir
    <2>3. \A s \in Remover \ {r} : skipped'[s] = skipped[s] /\ Out(s)' = Out(s)
      BY <1>1, RemoverOthers DEF Out
    <2> QED BY <2>1, <2>2, <2>3 DEF TrailInv, Solo
  <1> QED BY <1>1, <1>3, <1>4, <1>5, <1>6 DEF TrailInv

\* Neither does Proxmox disturb it, nor standing still.
LEMMA TrailByProxmox == ASSUME TrailInv, RemoveOutOfBand PROVE TrailInv'
  <1>1. /\ HostInv' /\ UNCHANGED local /\ UNCHANGED removal
        /\ UNCHANGED <<disk, holds, layers, wrapper, up>>
        /\ \E c \in ConfKey : conf' = [conf EXCEPT ![c] = None]
    BY ProxmoxHostInv DEF TrailInv, RemoveOutOfBand
  <1>2. /\ \A q \in Creator : /\ Past(q)' = Past(q) /\ Home(q)' = Home(q) /\ Conf(q)' = Conf(q)
                              /\ Guests(q)' = Guests(q) /\ StateDir(Home(q))' = StateDir(Home(q))
        /\ req' = req /\ name' = name /\ vmid' = vmid
    BY <1>1 DEF local, Past, Home, Conf, Guests, StateDir
  <1>3. \A c \in ConfKey : conf'[c] \in DirKey => conf[c] \in DirKey
    BY <1>1, ContentAssumption DEF TrailInv, HostInv, Core, TInv, TypeOK, HostTypeOK
  <1>4. Traced' /\ Origins'
    BY <1>1, <1>2, <1>3 DEF TrailInv, Traced, Origins
  <1>5. (\A r \in Remover : Sought(r)') /\ Solo'
    BY <1>1, <1>2 DEF TrailInv, Sought, Had, Solo, Out, removal, victim
  <1> QED BY <1>1, <1>4, <1>5 DEF TrailInv

LEMMA TrailIdle == ASSUME TrailInv, UNCHANGED kento PROVE TrailInv'
  <1>1. HostInv' /\ UNCHANGED local /\ UNCHANGED removal /\ UNCHANGED host
    BY IdleHostInv DEF TrailInv, kento, vars
  <1>2. /\ \A q \in Creator : /\ Past(q)' = Past(q) /\ Home(q)' = Home(q) /\ Conf(q)' = Conf(q)
                              /\ Guests(q)' = Guests(q) /\ StateDir(Home(q))' = StateDir(Home(q))
        /\ req' = req /\ name' = name /\ vmid' = vmid
    BY <1>1 DEF local, Past, Home, Conf, Guests, StateDir
  <1>3. Traced' /\ Origins'
    BY <1>1, <1>2 DEF TrailInv, Traced, Origins, host
  <1>4. (\A r \in Remover : Sought(r)') /\ Solo'
    BY <1>1, <1>2 DEF TrailInv, Sought, Had, Solo, Out, removal, victim
  <1> QED BY <1>1, <1>3, <1>4 DEF TrailInv

\* Where commands may fail, one remover runs at a time.
LoneIfFlaky == Flaky => \A crew \in Crews : \A r, s \in crew : r = s

LEMMA InitTrail == ASSUME LoneIfFlaky, KentoInit PROVE TrailInv
  <1>1. /\ HostInv /\ Init /\ DestroyInit
        /\ disk = [d \in DirKey |-> NoDir] /\ holds = {} /\ layers = {} /\ up = {}
        /\ conf = [c \in ConfKey |-> IF c \in Others THEN Foreign ELSE None]
        /\ wrapper = [c \in ConfKey |-> None]
    BY InitHostInv DEF KentoInit, Init, HostInit
  <1>2. Traced /\ Origins
    BY <1>1, ContentAssumption DEF Traced, Origins, NoDir
  <1>3. PICK crew \in Crews : dpc = [r \in Remover |-> IF r \in crew THEN "find" ELSE "done"]
    BY <1>1 DEF DestroyInit
  <1>4. \A r \in Remover : Sought(r)
    BY <1>1, <1>3 DEF DestroyInit, Sought
  <1>5. Solo
    BY <1>1, <1>3 DEF DestroyInit, Solo, Out, LoneIfFlaky
  <1> QED BY <1>1, <1>2, <1>4, <1>5 DEF TrailInv

-------------------------------------------------------------------------------
(* An instance that shares nothing, and those who remove it. *)

\* In play, and no other create has taken over its name, directory or VMID.
Sole(p) == pc[p] \in InPlay /\ ~Shared(p)

\* While it is being made nobody finds it, its files are its own, and its guest
\* does not run before it is done; nor without a config, unless a remover
\* has it.  Who has got as far as its directory has emptied it, and so has a
\* prune that has turned to the next one.
Unmarred(p) ==
  /\ pc[p] \in BeforeImage =>
       /\ disk[Home(p)] \in {EmptyDir, NoDir}
       /\ \A s \in Remover : handle[s] # Home(p) /\ \A o \in queue[s] : o[1] # Home(p)
  /\ disk[Home(p)].image => disk[Home(p)] = Filed(p)
  /\ pc[p] # "done" => Guests(p) \notin up
  /\ \A s \in Remover :
       handle[s] = Home(p) /\ (dpc[s] = "dir" \/ (s \in Reaper /\ dpc[s] \in {"next", "done"}))
       => ~disk[Home(p)].image
  /\ /\ pc[p] = "done" /\ disk[Home(p)].image /\ \A s \in Remover : handle[s] # Home(p)
     /\ req[p].mode \in PveMode /\ conf[Conf(p)] = None
     => Guests(p) \notin up

Late    == {"slot", "conf", "wrapper", "hold", "state", "files", "dir"}
Working == {"probe", "stop", "image"} \cup Late

\* What the remover s has behind it once it has read kento-image.
Behind(l, s) ==
  \/ l = "stop"
  \/ l = "conf" /\ dpc[s] \notin {"slot", "conf"}
  \/ l = "wrapper" /\ dpc[s] \notin {"slot", "conf", "wrapper"}
  \/ l = "hold" /\ dpc[s] \in {"state", "files", "dir"}
  \/ l = "state" /\ dpc[s] \in {"files", "dir"}

Gone(p, l, s) == InPlace(p, l) => l \in skipped[s]

\* How far the remover s has come with p: an emptied directory means that
\* somebody has done all the rest.
Chased(p, s) ==
  /\ kind[s] = req[p].mode
  /\ disk[Home(p)].image \/ dpc[s] \in Late => state[s] = StateDir(Home(p))
  /\ dpc[s] = "image" /\ disk[Home(p)].image => Gone(p, "stop", s)
  /\ dpc[s] \in Late =>
       \A l \in Label \ {"dir"} : Behind(l, s) \/ ~disk[Home(p)].image => Gone(p, l, s)

\* What holds of p from when r was the first to take it.
Hunted(r, p) ==
  /\ pc[p] = "done" /\ handle[r] = Home(p)
  /\ \A s \in Remover : handle[s] = Home(p) /\ dpc[s] \in Working => Chased(p, s)
  /\ disk[Home(p)].image /\ req[p].mode \in PveMode /\ conf[Conf(p)] = None => Gone(p, "stop", r)

GoneInv ==
  /\ TrailInv
  /\ \A p \in Creator : Sole(p) => Unmarred(p)
  /\ \A r \in Remover : \A p \in prey[r] :
       /\ pc[p] = "done"
       /\ dpc[r] \in Working /\ ~Shared(p) => Hunted(r, p)

\* Nobody else has had what is its own.
LEMMA OnlyItself ==
  ASSUME TInv, IdsApart, NEW p \in Creator, Sole(p), NEW q \in Creator, Past(q),
         \/ Home(q) = Home(p) \/ Guests(q) = Guests(p) \/ StateDir(Home(q)) = StateDir(Home(p))
         \/ req[p].mode \in PveMode /\ req[q].mode \in PveMode /\ Conf(q) = Conf(p)
  PROVE  q = p
  <1>1. pc[p] \notin {"lock", "name", "vmid", "refused", "crashed"}
    BY DEF Sole, InPlay, TryPc, GapPc, PortPc
  <1>2. name[q] = name[p] \/ Home(q) = Home(p) \/ Guests(q) = Guests(p)
    BY <1>1, SameState DEF Guests, GuestOf, Conf
  <1> QED BY <1>2 DEF Sole, Shared, Past

LEMMA SoleKeys ==
  ASSUME TInv, NEW p \in Creator, Sole(p)
  PROVE  /\ Past(p) /\ Owns(p) /\ Home(p) \in DirKey /\ name[p] # None
         /\ req[p].mode \in Mode /\ req[p].mode # None
         /\ req[p].mode \in PveMode => Conf(p) \in ConfKey /\ Guests(p) = Conf(p) /\ vmid[p] # None
         /\ req[p].mode \notin PveMode => Guests(p) = Home(p)
         /\ disk[Home(p)] \in Files
  <1>1. /\ pc[p] \notin {"lock", "name", "vmid", "refused", "crashed"} /\ Past(p) /\ Owns(p)
    BY DEF Sole, InPlay, TryPc, GapPc, PortPc, Past, LockedPc, Owns
  <1> QED BY <1>1, ModeNamed, StateAssumption, ContentAssumption DEF TInv, TypeOK, HostTypeOK

\* Another create leaves it alone.
LEMMA OtherCreates ==
  ASSUME TrailInv, IdsApart, NEW p \in Creator, pc[p] \in InPlay, ~Shared(p)',
         NEW q \in Creator, q # p, Step(q)
  PROVE  /\ Sole(p) /\ Home(p)' = Home(p) /\ Conf(p)' = Conf(p) /\ Guests(p)' = Guests(p)
         /\ StateDir(Home(p))' = StateDir(Home(p)) /\ Filed(p)' = Filed(p)
         /\ pc'[p] = pc[p] /\ req' = req /\ disk'[Home(p)] = disk[Home(p)]
         /\ req[p].mode \in PveMode => conf'[Conf(p)] = conf[Conf(p)]
         /\ \A l \in Label : InPlace(p, l)' => InPlace(p, l)
  <1>1. TInv /\ UndoShape /\ Stages /\ ConfigUndos
    BY DEF TrailInv, HostInv, Core
  <1>2. Past(p) /\ pc[p] # "crashed"
    BY DEF InPlay, Past, LockedPc, TryPc, GapPc, PortPc
  <1>3. Sole(p)
    BY <1>1, <1>2, SharedStays DEF Sole
  <1>4. /\ pc'[p] = pc[p] /\ name'[p] = name[p] /\ vmid'[p] = vmid[p] /\ port'[p] = port[p]
        /\ req' = req
    BY <1>1, OthersKeep
  <1>5. /\ Home(p)' = Home(p) /\ Conf(p)' = Conf(p) /\ Guests(p)' = Guests(p)
        /\ StateDir(Home(p))' = StateDir(Home(p)) /\ Filed(p)' = Filed(p)
    BY <1>4 DEF Home, Conf, Guests, StateDir, Filed
  <1>6. Owns(q) => Past(q) /\ Home(q) # Home(p) /\ Guests(q) # Guests(p)
    <2>1. Owns(q) => Past(q)
      BY DEF Owns, Past, LockedPc, TryPc, GapPc, PortPc
    <2> QED BY <1>1, <1>3, <2>1, OnlyItself
  <1>7. disk'[Home(p)] = disk[Home(p)]
    <2>1. disk \in [DirKey -> Files] /\ Home(p) \in DirKey
      BY <1>1, <1>3, SoleKeys DEF TInv, TypeOK, HostTypeOK
    <2>2. CASE MakeDir(q)
      <3>1. /\ disk' = [disk EXCEPT ![Home(q)] = EmptyDir] /\ Home(q)' = Home(q)
            /\ Past(q)'
        BY <1>1, <2>2, DirMade DEF MakeDir, Goto, Past, LockedPc, TInv, TypeOK
      <3>2. Home(q) # Home(p)
        BY <1>5, <3>1 DEF Shared, Past
      <3> QED BY <2>1, <3>1, <3>2
    <2>3. CASE ~MakeDir(q)
      BY <1>1, <1>6, <2>1, <2>3, DiskSteps DEF DiskStep, WritePort
    <2> QED BY <2>2, <2>3
  <1>8. req[p].mode \in PveMode => conf'[Conf(p)] = conf[Conf(p)]
    BY <1>1, <1>3, <1>6, OthersSpare, SoleKeys
  <1>9. \A l \in Label : InPlace(p, l)' => InPlace(p, l)
    BY <1>1, <1>2, OthersEffects
  <1> QED BY <1>3, <1>4, <1>5, <1>7, <1>8, <1>9

\* What another create's step leaves of the two parts of the invariant.
LEMMA UnmarredByOthers ==
  ASSUME TrailInv, IdsApart, NEW p \in Creator, Sole(p)', NEW q \in Creator, q # p, Step(q),
         UNCHANGED removal, Sole(p) => Unmarred(p)
  PROVE  Unmarred(p)'
  <1>1. pc[p] \in InPlay
    BY OthersKeep DEF TrailInv, HostInv, Core, Sole
  <1>2. /\ Unmarred(p) /\ Home(p)' = Home(p) /\ Conf(p)' = Conf(p) /\ Guests(p)' = Guests(p)
        /\ Filed(p)' = Filed(p) /\ pc'[p] = pc[p] /\ req' = req
        /\ disk'[Home(p)] = disk[Home(p)]
        /\ req[p].mode \in PveMode => conf'[Conf(p)] = conf[Conf(p)]
        /\ Guests(p) \in up' => Guests(p) \in up
    <2>1. ~Shared(p)' /\ "stop" \in Label
      BY DEF Sole, Label
    <2>2. Guests(p)' \in up' => Guests(p) \in up
      BY <1>1, <2>1, OtherCreates DEF InPlace
    <2> QED BY <1>1, <2>1, <2>2, OtherCreates
  <1> QED BY <1>2 DEF Unmarred, removal, victim

LEMMA HuntedByOthers ==
  ASSUME TrailInv, IdsApart, NEW p \in Creator, ~Shared(p)', NEW q \in Creator, q # p, Step(q),
         UNCHANGED removal, NEW r \in Remover, pc[p] = "done", Hunted(r, p)
  PROVE  Hunted(r, p)'
  <1>1. pc[p] \in InPlay
    BY DEF InPlay
  <1>2. /\ Home(p)' = Home(p) /\ Conf(p)' = Conf(p) /\ StateDir(Home(p))' = StateDir(Home(p))
        /\ pc'[p] = pc[p] /\ req' = req /\ disk'[Home(p)] = disk[Home(p)]
        /\ req[p].mode \in PveMode => conf'[Conf(p)] = conf[Conf(p)]
        /\ \A l \in Label : InPlace(p, l)' => InPlace(p, l)
    BY <1>1, OtherCreates
  <1>3. \A l \in Label, s \in Remover : Gone(p, l, s) => Gone(p, l, s)'
    BY <1>2 DEF Gone, removal
  <1>4. "stop" \in Label
    BY DEF Label
  <1>5. ASSUME NEW s \in Remover, handle[s] = Home(p), dpc[s] \in Working PROVE Chased(p, s)'
    <2>1. Chased(p, s) /\ dpc' = dpc /\ kind' = kind /\ state' = state
      BY <1>5 DEF Hunted, removal, victim
    <2> QED BY <1>2, <1>3, <1>4, <2>1 DEF Chased, Behind
  <1> QED BY <1>2, <1>3, <1>4, <1>5 DEF Hunted, removal, victim

\* A create finds nothing in its new directory, and keeps out of nobody's way.
LEMMA UnmarredByItself ==
  ASSUME TrailInv, IdsApart, NEW p \in Creator, Sole(p)', Step(p), UNCHANGED removal,
         Sole(p) => Unmarred(p)
  PROVE  Unmarred(p)'
  <1>1. /\ TInv /\ UndoShape /\ Stages /\ PortUnset /\ disk \in [DirKey -> Files]
        /\ pc'[p] \in InPlay /\ ~Shared(p)'
        /\ handle' = handle /\ dpc' = dpc /\ queue' = queue
    BY DEF TrailInv, HostInv, Core, TInv, TypeOK, HostTypeOK, Sole, removal, victim
  <1>2. CASE MakeDir(p)
    <2>1. /\ Home(p) \in DirKey /\ Home(p)' = Home(p) /\ Conf(p)' = Conf(p)
          /\ Guests(p)' = Guests(p) /\ req' = req /\ up' = up /\ pc'[p] = "enter"
          /\ disk'[Home(p)] = EmptyDir /\ ~Past(p) /\ pc[p] = "mkdir"
      BY <1>1, <1>2, DirMade
      DEF MakeDir, Goto, Home, Conf, Guests, Past, LockedPc, TInv, TypeOK
    <2>2. \A q \in Creator : Past(q) => Home(q) # Home(p) /\ Guests(q) # Guests(p)
      <3> SUFFICES ASSUME NEW q \in Creator, Past(q)
                   PROVE  Home(q) # Home(p) /\ Guests(q) # Guests(p)
        OBVIOUS
      <3>1. q # p /\ Past(q)' /\ Home(q)' = Home(q) /\ Guests(q)' = Guests(q)
        BY <1>1, <2>1, PastKept
      <3> QED BY <1>1, <2>1, <3>1 DEF Shared, Past
    <2>3. Guests(p) \notin up
      BY <2>2 DEF TrailInv, Traced
    <2>4. \A s \in Remover : handle[s] # Home(p) /\ \A o \in queue[s] : o[1] # Home(p)
      BY <2>1, <2>2, ContentAssumption DEF TrailInv, Sought, Had
    <2>5. EmptyDir.image = FALSE
      BY DEF EmptyDir
    <2> QED BY <1>1, <2>1, <2>3, <2>4, <2>5 DEF Unmarred, BeforeImage, BeforeState
  <1>3. CASE ~MakeDir(p)
    <2>1. /\ pc[p] \in InPlay \ {"done"} /\ Past(p)
      <3>1. pc[p] \in InPlay \ {"done"}
        BY <1>1, <1>3, EntersByMkdir
      <3> QED BY <3>1 DEF InPlay, Past, LockedPc, TryPc, GapPc, PortPc
    <2>2. Sole(p) /\ Unmarred(p)
      BY <1>1, <2>1, SharedStays DEF Sole
    <2>3. /\ Home(p)' = Home(p) /\ Conf(p)' = Conf(p) /\ Guests(p)' = Guests(p) /\ req' = req
          /\ Home(p) \in DirKey /\ disk[Home(p)] \in Files
      BY <1>1, <2>1, <2>2, PastKept, SoleKeys
    <2>4. pc'[p] \in BeforeImage => pc[p] \in BeforeImage
      BY <1>1, <1>3, <2>1
      DEF BeforeImage, BeforeState, InPlay, TInv, TypeOK, LockedPc, TryPc, GapPc, PortPc, EndPc,
          Step, CreateStep, Interrupt, Crash, Goto, Register, WriteFile, AfterName, Acquire,
          GenerateName, TakeName, TakeVmid, MakeDir, Refuse, RejectSeed, EnterTry, PinImage,
          TestState, MakeState, WriteImage, WriteMode, WriteName, PickPort, WritePort,
          WriteWrapper, WriteVmid, WriteConf, AddUndo, RegisterStop, StartGuest, Fail, RunCleanup,
          Reraise, AfterPort, AfterConf
    <2>5. pc'[p] \in BeforeImage => disk'[Home(p)] \in {EmptyDir, NoDir}
      <3> SUFFICES ASSUME pc'[p] \in BeforeImage PROVE disk'[Home(p)] \in {EmptyDir, NoDir}
        OBVIOUS
      <3>1. disk[Home(p)] \in {EmptyDir, NoDir} /\ pc[p] \in BeforeImage
        BY <2>2, <2>4 DEF Unmarred
      <3>2. \/ disk' = disk
            \/ disk' = [disk EXCEPT ![Home(p)].dir = TRUE]
        BY <1>1, <1>3, <2>1, <3>1
        DEF BeforeImage, BeforeState, InPlay, TInv, TypeOK, LockedPc, TryPc, GapPc, PortPc, host,
            Step, CreateStep, Interrupt, Crash, Goto, WriteFile, Acquire, GenerateName, TakeName,
            TakeVmid, MakeDir, Refuse, RejectSeed, EnterTry, PinImage, TestState, MakeState,
            WriteImage, WriteMode, WriteName, PickPort, WritePort, WriteWrapper, WriteVmid,
            WriteConf, AddUndo, RegisterStop, StartGuest, Fail, RunCleanup, Reraise
      <3>3. disk'[Home(p)] \in {disk[Home(p)], [disk[Home(p)] EXCEPT !.dir = TRUE]}
        BY <1>1, <2>3, <3>2
      <3> DEFINE f == [disk[Home(p)] EXCEPT !.dir = TRUE]
      <3>4. /\ disk[Home(p)].image = FALSE /\ disk[Home(p)].mode = None
            /\ disk[Home(p)].name = None /\ disk[Home(p)].port = None
            /\ disk[Home(p)].vmid = None
        BY <3>1 DEF EmptyDir, NoDir
      <3>5. /\ f \in Files /\ f.dir = TRUE /\ f.image = FALSE /\ f.mode = None
            /\ f.name = None /\ f.port = None /\ f.vmid = None
        BY <2>3, <3>4 DEF Files
      <3>6. EmptyDir \in Files
        BY DEF EmptyDir, Files
      <3>7. f = EmptyDir
        BY <3>5, <3>6, SameFiles DEF EmptyDir
      <3> QED BY <3>1, <3>3, <3>7
    <2>6. disk'[Home(p)].image => disk[Home(p)].image \/ WriteImage(p)
      BY <1>1, <2>3, CreateRecords
    <2>7. disk'[Home(p)].image => disk'[Home(p)] = Filed(p)'
      <3> SUFFICES ASSUME disk'[Home(p)].image PROVE disk[Home(p)] = Filed(p)
        BY <1>1, <1>3, <2>3, FiledByOwner
      <3>1. CASE disk[Home(p)].image
        BY <2>2, <3>1 DEF Unmarred
      <3>2. CASE WriteImage(p)
        <4>1. pc[p] = "image" /\ disk[Home(p)].dir /\ port[p] = None
          BY <1>1, <3>2
          DEF WriteImage, WriteFile, PortUnset, BeforePort, BeforeName, BeforeMode, BeforeImage
        <4>2. disk[Home(p)] = EmptyDir
          BY <2>2, <4>1 DEF Unmarred, BeforeImage, NoDir
        <4>3. Filed(p) = EmptyDir
          BY <4>1 DEF Filed, EmptyDir, BeforeName, BeforeMode, BeforeImage, BeforeState, AfterVmid
        <4> QED BY <4>2, <4>3
      <3> QED BY <2>6, <3>1, <3>2
    <2>8. Guests(p) \notin up
      BY <2>1, <2>2 DEF Unmarred
    <2>9. /\ pc'[p] # "done" => up' \subseteq up
          /\ pc'[p] = "done" /\ up' # up => Startable(p) /\ conf' = conf
      BY <1>1, <1>3, <2>1
      DEF host, InPlay, TInv, TypeOK, LockedPc, TryPc, GapPc, PortPc, EndPc, Step, CreateStep,
          Interrupt, Crash, Goto, WriteFile, Acquire, GenerateName, TakeName, TakeVmid, MakeDir,
          Refuse, RejectSeed, EnterTry, PinImage, TestState, MakeState, WriteImage, WriteMode,
          WriteName, PickPort, WritePort, WriteWrapper, WriteVmid, WriteConf, AddUndo,
          RegisterStop, StartGuest, Fail, RunCleanup, Reraise, AfterPort, AfterConf
    <2>10. WriteImage(p) => \A s \in Remover : handle[s] # Home(p)
      BY <2>2 DEF WriteImage, Unmarred, BeforeImage
    <2> QED
      <3>1. pc'[p] \in BeforeImage =>
              \A s \in Remover : handle[s] # Home(p) /\ \A o \in queue[s] : o[1] # Home(p)
        BY <2>2, <2>4 DEF Unmarred
      <3>2. pc'[p] # "done" => Guests(p) \notin up'
        BY <2>8, <2>9
      <3>3. \A s \in Remover :
              handle[s] = Home(p) /\ (dpc[s] = "dir" \/ (s \in Reaper /\ dpc[s] \in {"next", "done"}))
              => ~disk'[Home(p)].image
        BY <2>2, <2>6, <2>10 DEF Unmarred
      <3>4. pc'[p] = "done" /\ req[p].mode \in PveMode /\ conf'[Conf(p)] = None =>
              Guests(p) \notin up'
        BY <2>8, <2>9 DEF Startable
      <3> QED BY <1>1, <2>3, <2>5, <2>7, <3>1, <3>2, <3>3, <3>4 DEF Unmarred
  <1> QED BY <1>2, <1>3

\* The config that a remover deletes is that of the directory it works on.
LEMMA OwnConf ==
  ASSUME TrailInv, IdsApart, NEW p \in Creator, Sole(p), req[p].mode \in PveMode,
         NEW s \in Remover, dpc[s] \in {"conf", "wrapper"}
  PROVE  (handle[s] = Home(p)) <=> (ConfOf(kind[s], slot[s]) = Conf(p))
  <1>1. PICK q \in Creator : /\ Past(q) /\ req[q].mode \in PveMode /\ Home(q) = handle[s]
                             /\ Conf(q) = ConfOf(kind[s], slot[s])
    BY DEF TrailInv, Sought
  <1> QED BY <1>1, OnlyItself DEF TrailInv, HostInv, Core

LEMMA UnmarredByRemover ==
  ASSUME TrailInv, IdsApart, NEW p \in Creator, Sole(p), NEW r \in Remover,
         RemoverStep(r), UNCHANGED local, Unmarred(p)
  PROVE  Unmarred(p)'
  <1>1. /\ HostInv /\ TInv /\ Shaped /\ DestroyTypeOK /\ Fitted(r) /\ Sought(r)
        /\ Home(p) \in DirKey /\ None \notin DirKey
        /\ req[p].mode \in PveMode => Conf(p) \in ConfKey
    BY SoleKeys, ContentAssumption DEF TrailInv, HostInv, Core
  <1>2. /\ Home(p)' = Home(p) /\ Conf(p)' = Conf(p) /\ Guests(p)' = Guests(p)
        /\ Filed(p)' = Filed(p) /\ pc' = pc /\ req' = req
    BY DEF local, Home, Conf, Guests, Filed
  <1>3. /\ EmptyDir.image = FALSE /\ NoDir.image = FALSE
        /\ disk'[Home(p)] = disk[Home(p)]
             \/ (handle[r] = Home(p) /\ disk'[Home(p)] \in {EmptyDir, NoDir})
        /\ disk'[Home(p)].image => disk'[Home(p)] = disk[Home(p)]
        /\ up' \subseteq up
    BY <1>1, RemoverLessens DEF EmptyDir, NoDir
  <1>4. \A s \in Remover \ {r} : /\ dpc'[s] = dpc[s] /\ handle'[s] = handle[s]
                                 /\ queue'[s] = queue[s]
    BY <1>1, RemoverOthers
  <1>5. ~disk[Home(p)].image =>
          /\ handle'[r] = Home(p) =>
               handle[r] = Home(p) \/ \E o \in queue[r] : o[1] = Home(p)
          /\ \A o \in queue'[r] : o[1] = Home(p) => \E t \in queue[r] : t[1] = Home(p)
    <2>1. CASE Resolve(r)
      <3>1. PICK d \in Matches(aim[r].name, aim[r].scope) : Take(r, d, ModeOf(d), aim[r].name)
        BY <2>1 DEF Resolve
      <3>2. disk[d].image /\ handle'[r] = d /\ queue' = queue
        BY <1>1, <2>1, <3>1 DEF Matches, Hits, Scan, Resolve, Take, DestroyTypeOK
      <3> QED BY <3>2
    <2>2. CASE FindOrphans(r)
      <3>1. queue'[r] = {<<d, ModeOf(d), IF disk[d].name = None THEN d.id ELSE disk[d].name>> :
                           d \in {e \in Existing : disk[e].image /\ IsOrphan(e)}}
        BY <1>1, <2>2 DEF FindOrphans, DestroyTypeOK
      <3> QED BY <2>2, <3>1 DEF FindOrphans, victim
    <2>3. CASE ~Resolve(r) /\ ~FindOrphans(r)
      <3>1. ~\E d \in DirKey, m \in Mode : dpc[r] = "find" /\ dpc'[r] = "probe"
        BY <1>1, <2>3 DEF DestroyTypeOK, RemoverStep, NotFound, ReapNext, Probe, StopVictim,
           ReadImage, ReadVmid, DeleteConf, DeleteWrapper, RemoveHold, RemoveState, RemoveFiles,
           RemoveDir, To, Leave, Take
      <3> QED BY <1>1, <2>3, <3>1, RemoverTakes
    <2> QED BY <2>1, <2>2, <2>3
  <1>6. pc[p] \in BeforeImage =>
          /\ disk'[Home(p)] \in {EmptyDir, NoDir}
          /\ \A s \in Remover : handle'[s] # Home(p) /\ \A o \in queue'[s] : o[1] # Home(p)
    <2> SUFFICES ASSUME pc[p] \in BeforeImage
                 PROVE  /\ disk'[Home(p)] \in {EmptyDir, NoDir}
                        /\ \A s \in Remover : /\ handle'[s] # Home(p)
                                              /\ \A o \in queue'[s] : o[1] # Home(p)
      OBVIOUS
    <2>1. /\ disk[Home(p)] \in {EmptyDir, NoDir} /\ ~disk[Home(p)].image
          /\ \A s \in Remover : handle[s] # Home(p) /\ \A o \in queue[s] : o[1] # Home(p)
      BY <1>3 DEF Unmarred
    <2> QED BY <1>3, <1>4, <1>5, <2>1
  <1>7. ASSUME handle'[r] = Home(p),
               dpc'[r] = "dir" \/ (r \in Reaper /\ dpc'[r] \in {"next", "done"})
        PROVE  ~disk'[Home(p)].image
    <2>1. CASE RemoveFiles(r)
      <3>1. handle[r] = Home(p) /\ disk'[Home(p)] = EmptyDir
        BY <1>1, <1>7, <2>1 DEF RemoveFiles, victim, TInv, TypeOK, HostTypeOK
      <3> QED BY <1>3, <3>1
    <2>2. CASE RemoveDir(r) \/ ReapNext(r)
      <3>1. /\ handle[r] = Home(p)
            /\ \/ dpc[r] = "dir" \/ (dpc[r] = "files" /\ ~disk[Home(p)].dir)
               \/ r \in Reaper /\ dpc[r] = "next"
        BY <1>1, <1>7, <2>2 DEF RemoveDir, ReapNext, Take, To, victim, DestroyTypeOK
      <3>2. ~disk[Home(p)].image
        BY <1>1, <1>3, <3>1 DEF Unmarred, Shaped
      <3> QED BY <1>3, <3>2
    <2>3. CASE ReadImage(r)
      BY <1>1, <1>3, <1>7, <2>3 DEF ReadImage, To, victim, DestroyTypeOK
    <2>4. CASE ~RemoveFiles(r) /\ ~RemoveDir(r) /\ ~ReapNext(r) /\ ~ReadImage(r)
      <3>1. dpc[r] = "find"
        BY <1>1, <1>7, <2>4
        DEF DestroyTypeOK, Forced, RemoverStep, Resolve, NotFound, FindOrphans, Probe, StopVictim,
            ReadVmid, DeleteConf, DeleteWrapper, RemoveHold, RemoveState, To, Leave, Take
      <3>2. ~Resolve(r) => handle'[r] = handle[r]
        BY <1>1, <2>4, <3>1, RemoverTakes DEF RemoverStep, NotFound, FindOrphans, victim, Probe,
           StopVictim, ReadVmid, DeleteConf, DeleteWrapper, RemoveHold, RemoveState
      <3>3. ~Resolve(r)
        BY <1>1, <1>7 DEF Resolve, Take, To, DestroyTypeOK
      <3> QED BY <1>1, <1>7, <3>1, <3>2, <3>3 DEF Sought
    <2> QED BY <2>1, <2>2, <2>3, <2>4
  <1>8. ASSUME pc[p] = "done", disk'[Home(p)].image, \A s \in Remover : handle'[s] # Home(p),
               req[p].mode \in PveMode, conf'[Conf(p)] = None
        PROVE  Guests(p) \notin up'
    <2>1. disk[Home(p)].image
      BY <1>3, <1>8
    <2>2. handle[r] # Home(p)
      <3> SUFFICES ASSUME handle[r] = Home(p) PROVE FALSE
        OBVIOUS
      <3>1. dpc[r] = "next"
        BY <1>1, <1>8, RemoverTakes DEF Sought
      <3>2. r \in Reaper
        BY <1>1, <3>1 DEF Sought
      <3> QED BY <2>1, <3>1, <3>2 DEF Unmarred
    <2>3. conf'[Conf(p)] = conf[Conf(p)]
      <3>1. dpc[r] = "conf" => ConfOf(kind[r], slot[r]) # Conf(p)
        BY <1>8, <2>2, OwnConf
      <3> QED BY <1>1, <1>8, <3>1, RemoverHost DEF TInv, TypeOK, HostTypeOK
    <2>4. \A s \in Remover : handle[s] # Home(p)
      BY <1>4, <1>8, <2>2
    <2> QED BY <1>3, <1>8, <2>1, <2>3, <2>4 DEF Unmarred
  <1>9. \A s \in Remover :
          handle'[s] = Home(p) /\ (dpc'[s] = "dir" \/ (s \in Reaper /\ dpc'[s] \in {"next", "done"}))
          => ~disk'[Home(p)].image
    BY <1>3, <1>4, <1>7 DEF Unmarred
  <1> QED BY <1>2, <1>3, <1>6, <1>8, <1>9 DEF Unmarred

\* pct destroy refuses a guest that runs.
LEMMA UnmarredByProxmox ==
  ASSUME TrailInv, NEW p \in Creator, Sole(p), RemoveOutOfBand, Unmarred(p)
  PROVE  Unmarred(p)'
  <1>1. /\ UNCHANGED local /\ UNCHANGED removal /\ disk' = disk /\ up' = up
        /\ Home(p)' = Home(p) /\ Conf(p)' = Conf(p) /\ Guests(p)' = Guests(p) /\ Filed(p)' = Filed(p)
    BY DEF RemoveOutOfBand, local, Home, Conf, Guests, Filed
  <1>2. req[p].mode \in PveMode => Conf(p) \in ConfKey /\ Guests(p) = Conf(p)
    BY SoleKeys DEF TrailInv, HostInv, Core
  <1>3. req[p].mode \in PveMode /\ conf'[Conf(p)] = None =>
          conf[Conf(p)] = None \/ Guests(p) \notin up
    BY <1>2 DEF RemoveOutOfBand, TrailInv, HostInv, Core, TInv, TypeOK, HostTypeOK
  <1> QED BY <1>1, <1>3 DEF Unmarred, local, removal, victim

LEMMA HuntedByProxmox ==
  ASSUME TrailInv, NEW p \in Creator, Sole(p), RemoveOutOfBand, NEW r \in Remover, Hunted(r, p)
  PROVE  Hunted(r, p)'
  <1>1. /\ UNCHANGED local /\ UNCHANGED removal
        /\ UNCHANGED <<disk, holds, layers, wrapper, up>>
        /\ Home(p)' = Home(p) /\ Conf(p)' = Conf(p) /\ Guests(p)' = Guests(p)
        /\ StateDir(Home(p))' = StateDir(Home(p))
    BY DEF RemoveOutOfBand, local, Home, Conf, Guests, StateDir
  <1>2. req[p].mode \in PveMode => Conf(p) \in ConfKey /\ Guests(p) = Conf(p)
    BY SoleKeys DEF TrailInv, HostInv, Core
  <1>3. PICK c \in ConfKey : c \notin up /\ conf' = [conf EXCEPT ![c] = None]
    BY DEF RemoveOutOfBand
  <1>4. /\ Home(p) # None
        /\ req[p].mode \in PveMode =>
             conf'[Conf(p)] = conf[Conf(p)] \/ (conf'[Conf(p)] = None /\ Guests(p) \notin up)
    BY <1>2, <1>3, SoleKeys, ContentAssumption
    DEF TrailInv, HostInv, Core, TInv, TypeOK, HostTypeOK
  <1>5. \A l \in Label, s \in Remover : Gone(p, l, s) => Gone(p, l, s)'
    <2> SUFFICES ASSUME NEW l \in Label, InPlace(p, l)' PROVE InPlace(p, l)
      BY <1>1 DEF Gone, removal
    <2>1. CASE l = "conf"
      BY <1>1, <1>4, <2>1 DEF InPlace, local
    <2>2. CASE l # "conf"
      BY <1>1, <2>2 DEF InPlace, local, Label
    <2> QED BY <2>1, <2>2
  <1>6. "stop" \in Label
    BY DEF Label
  <1>7. ASSUME NEW s \in Remover, handle[s] = Home(p), dpc[s] \in Working PROVE Chased(p, s)'
    <2>1. Chased(p, s)
      BY <1>7 DEF Hunted
    <2> QED BY <1>1, <1>5, <1>6, <2>1 DEF Chased, Behind, removal, victim, local
  <1>8. req[p].mode \in PveMode /\ conf'[Conf(p)] = None =>
          conf[Conf(p)] = None \/ Gone(p, "stop", r)'
    BY <1>1, <1>4 DEF Gone, InPlace
  <1> QED BY <1>1, <1>5, <1>6, <1>7, <1>8 DEF Hunted, removal, victim, local

\* Two removers that are at work have been spared the same things.
LEMMA Alike ==
  ASSUME Solo, NEW r \in Remover, NEW s \in Remover, handle[r] # None, handle[s] # None
  PROVE  skipped[r] = skipped[s]
  BY DEF Solo, Out

\* What a remover leaves in place was there.
LEMMA LessInPlace ==
  ASSUME TrailInv, NEW p \in Creator, Sole(p), NEW r \in Remover, RemoverStep(r), UNCHANGED local,
         NEW l \in Label, InPlace(p, l)'
  PROVE  InPlace(p, l)
  <1>1. /\ HostInv /\ Home(p) \in DirKey /\ Home(p) # None
        /\ req[p].mode \in PveMode => Conf(p) \in ConfKey
    BY SoleKeys, ContentAssumption DEF TrailInv, HostInv, Core
  <1>2. /\ Home(p)' = Home(p) /\ Conf(p)' = Conf(p) /\ Guests(p)' = Guests(p)
        /\ StateDir(Home(p))' = StateDir(Home(p)) /\ name' = name /\ req' = req
    BY DEF local, Home, Conf, Guests, StateDir
  <1>3. CASE l \in {"wrapper", "conf"}
    <2>1. req[p].mode \in PveMode =>
            /\ conf'[Conf(p)] \in {conf[Conf(p)], None}
            /\ wrapper'[Conf(p)] \in {wrapper[Conf(p)], None}
      BY <1>1, RemoverLessens
    <2> QED BY <1>1, <1>2, <1>3, <2>1 DEF InPlace
  <1>4. CASE l \in {"dir", "hold", "state", "stop"}
    <2>1. /\ disk'[Home(p)].dir => disk[Home(p)].dir
          /\ holds' \subseteq holds /\ layers' \subseteq layers /\ up' \subseteq up
      BY <1>1, RemoverLessens
    <2> QED BY <1>2, <1>4, <2>1 DEF InPlace
  <1> QED BY <1>3, <1>4 DEF Label

\* The guest and the VMID read from a finished instance are its own.
LEMMA FiledGuest ==
  ASSUME TInv, NEW p \in Creator, Sole(p), pc[p] = "done", disk[Home(p)] = Filed(p),
         NEW r \in Remover, handle[r] = Home(p), kind[r] = req[p].mode
  PROVE  /\ GuestAt(r) = Guests(p) /\ disk[Home(p)].name = name[p]
         /\ disk[Home(p)].mode = req[p].mode
         /\ req[p].mode \in PveMode => VmidOf(handle[r], kind[r]) = vmid[p]
  <1>1. /\ disk[Home(p)].name = name[p] /\ disk[Home(p)].mode = req[p].mode
        /\ req[p].mode = "pve-vm" => disk[Home(p)].vmid = vmid[p]
    BY FiledFields DEF BeforeName, BeforeMode, BeforeImage, BeforeState, AfterVmid
  <1>2. req[p].mode \in PveMode => VmidOf(handle[r], kind[r]) = vmid[p]
    BY <1>1 DEF VmidOf, PveMode, Home, DirOf
  <1>3. GuestAt(r) = Guests(p)
    BY <1>2 DEF GuestAt, Guests, GuestOf, Home, DirOf, PveMode
  <1> QED BY <1>1, <1>2, <1>3

\* A remover that takes a finished instance reads its mode and state directory.
LEMMA ChasedAtFirst ==
  ASSUME TrailInv, IdsApart, NEW p \in Creator, Sole(p), pc[p] = "done", Unmarred(p),
         NEW r \in Remover, RemoverStep(r), UNCHANGED local,
         dpc'[r] \in Working, dpc[r] \notin Working, handle'[r] = Home(p)
  PROVE  Chased(p, r)' /\ dpc'[r] = "probe" /\ disk' = disk /\ conf' = conf /\ up' = up
  <1>1. /\ DestroyTypeOK /\ TInv /\ Home(p)' = Home(p) /\ StateDir(Home(p))' = StateDir(Home(p))
        /\ req' = req /\ Sought(r) /\ req[p].mode # None
    BY SoleKeys DEF TrailInv, HostInv, Core, local, Home, StateDir
  <1>2. disk[Home(p)].image => disk[Home(p)].mode = req[p].mode
    BY <1>1, FiledFields DEF Unmarred, BeforeMode, BeforeImage, BeforeState
  <1>3. CASE Resolve(r)
    <2>1. PICK d \in Matches(aim[r].name, aim[r].scope) : Take(r, d, ModeOf(d), aim[r].name)
      BY <1>3 DEF Resolve
    <2>2. d = Home(p) /\ disk[d].image
      BY <1>1, <2>1 DEF Take, DestroyTypeOK, Matches, Hits, Scan
    <2>3. kind'[r] = req[p].mode /\ state'[r] = StateDir(Home(p)) /\ dpc'[r] = "probe"
      BY <1>1, <1>2, <2>1, <2>2 DEF Take, To, DestroyTypeOK, ModeOf, StateOf
    <2> QED BY <1>1, <1>3, <2>3 DEF Resolve, host, Chased, Late
  <1>4. CASE ReapNext(r)
    <2>1. PICK o \in queue[r] : Take(r, o[1], o[2], o[3])
      BY <1>1, <1>4 DEF ReapNext, To, DestroyTypeOK, Working, Late
    <2>2. o[1] = Home(p) /\ Had(Home(p), o[2]) /\ o[2] \in PveMode
      BY <1>1, <2>1 DEF Take, DestroyTypeOK, Sought
    <2>3. o[2] = req[p].mode
      BY <1>1, <2>2, OnlyItself DEF Had
    <2>4. /\ kind'[r] = req[p].mode /\ dpc'[r] = "probe"
          /\ disk[Home(p)].image => state'[r] = StateDir(Home(p))
      BY <1>1, <1>2, <2>1, <2>2, <2>3 DEF Take, To, DestroyTypeOK, StateOf
    <2> QED BY <1>1, <1>4, <2>4 DEF ReapNext, host, Chased, Late
  <1>5. CASE ~Resolve(r) /\ ~ReapNext(r)
    BY <1>1, <1>5
    DEF Working, Late, DestroyTypeOK, RemoverStep, NotFound, FindOrphans, Probe, StopVictim,
        ReadImage, ReadVmid, DeleteConf, DeleteWrapper, RemoveHold, RemoveState, RemoveFiles,
        RemoveDir, To, Leave
  <1> QED BY <1>3, <1>4, <1>5

\* What a status query answers is yes or no.
LEMMA Known == ASSUME NEW r \in Remover, NEW b \in IsRunning(r) PROVE b \in BOOLEAN
  <1>1. (GuestAt(r) \in up) \in BOOLEAN
    OBVIOUS
  <1>2. IsRunning(r) = {FALSE} \/ b = (GuestAt(r) \in up) \/ b = TRUE
    BY Zenon DEF IsRunning
  <1>3. CASE IsRunning(r) = {FALSE}
    BY <1>3, Zenon
  <1>4. CASE b = (GuestAt(r) \in up) \/ b = TRUE
    BY <1>1, <1>4, Zenon
  <1> QED BY <1>2, <1>3, <1>4, Zenon

\* Each step of a remover at work has put one more thing behind it.
LEMMA ChasedOn ==
  ASSUME TrailInv, IdsApart, NEW p \in Creator, Sole(p), pc[p] = "done", Unmarred(p),
         NEW r \in Remover, RemoverStep(r), UNCHANGED local,
         dpc[r] \in Working, dpc'[r] \in Working, handle[r] = Home(p), Chased(p, r),
         disk[Home(p)].image /\ req[p].mode \in PveMode /\ conf[Conf(p)] = None =>
           Gone(p, "stop", r)
  PROVE  Chased(p, r)'
  <1>1. /\ DestroyTypeOK /\ TInv /\ HostInv /\ Home(p) \in DirKey /\ Home(p) # None
        /\ name[p] # None /\ req[p].mode \in Mode
        /\ req[p].mode \in PveMode => Conf(p) \in ConfKey /\ vmid[p] # None /\ Guests(p) = Conf(p)
    BY SoleKeys, ContentAssumption DEF TrailInv, HostInv, Core
  <1>2. /\ Home(p)' = Home(p) /\ StateDir(Home(p))' = StateDir(Home(p)) /\ Conf(p)' = Conf(p)
        /\ Guests(p)' = Guests(p) /\ req' = req /\ name' = name
    BY DEF local, Home, StateDir, Conf, Guests
  <1>3. /\ ~Resolve(r) /\ ~ReapNext(r) /\ ~NotFound(r) /\ ~FindOrphans(r)
        /\ handle'[r] = handle[r] /\ kind'[r] = kind[r] /\ state'[r] = state[r]
        /\ skipped[r] \subseteq skipped'[r]
    BY <1>1 DEF DestroyTypeOK, Working, Late, RemoverStep, Resolve, ReapNext, NotFound,
       FindOrphans, Probe, StopVictim, ReadImage, ReadVmid, DeleteConf, DeleteWrapper, RemoveHold,
       RemoveState, RemoveFiles, RemoveDir, victim
  <1>4. \A l \in Label : Gone(p, l, r) => Gone(p, l, r)'
    BY <1>3, LessInPlace DEF Gone
  <1>5. disk'[Home(p)].image => disk[Home(p)].image /\ disk'[Home(p)] = disk[Home(p)]
    BY <1>1, RemoverLessens DEF EmptyDir, NoDir
  <1>6. disk[Home(p)].image =>
          /\ disk[Home(p)] = Filed(p) /\ GuestAt(r) = Guests(p) /\ disk[Home(p)].name = name[p]
          /\ req[p].mode \in PveMode => VmidOf(handle[r], kind[r]) = vmid[p]
    BY <1>1, FiledGuest DEF Unmarred, Chased
  <1>7. kind'[r] = req'[p].mode
    BY <1>2, <1>3 DEF Chased
  <1>8. dpc'[r] \in Late /\ dpc[r] \notin Late => ReadImage(r) /\ disk[Home(p)].image
    BY <1>1, <1>3 DEF DestroyTypeOK, Working, Late, RemoverStep, Probe, StopVictim, ReadImage,
       ReadVmid, DeleteConf, DeleteWrapper, RemoveHold, RemoveState, RemoveFiles, RemoveDir, To,
       Leave
  <1>9. disk'[Home(p)].image \/ dpc'[r] \in Late => state'[r] = StateDir(Home(p))
    BY <1>3, <1>5, <1>8 DEF Chased
  <1>10. dpc'[r] = "image" /\ disk'[Home(p)].image => Gone(p, "stop", r)'
    <2> SUFFICES ASSUME dpc'[r] = "image", disk[Home(p)].image PROVE Gone(p, "stop", r)'
      BY <1>5
    <2>1. "stop" \in Label
      BY DEF Label
    <2>2. Probe(r) \/ StopVictim(r)
      BY <1>1, <1>3 DEF DestroyTypeOK, RemoverStep, ReadImage, ReadVmid, DeleteConf,
         DeleteWrapper, RemoveHold, RemoveState, RemoveFiles, RemoveDir, To, Leave
    <2>3. CASE Probe(r)
      <3>1. FALSE \in IsRunning(r) /\ up' = up
        <4>1. PICK running \in IsRunning(r) : ~running
          BY <1>1, <2>3 DEF Probe, To, Leave, DestroyTypeOK
        <4>2. running \in BOOLEAN
          BY Known
        <4> QED BY <2>3, <4>1, <4>2 DEF Probe, host
      <3>2. \/ Guests(p) \notin up
            \/ req[p].mode \in PveMode /\ conf[Conf(p)] = None
        <4>1. CASE req[p].mode \in PveMode
          BY <1>1, <1>6, <3>1, <4>1 DEF IsRunning, Chased, Conf
        <4>2. CASE req[p].mode \notin PveMode
          BY <1>6, <3>1, <4>2 DEF IsRunning, Chased
        <4> QED BY <4>1, <4>2
      <3>3. Guests(p) \notin up => Gone(p, "stop", r)'
        BY <1>2, <3>1 DEF Gone, InPlace
      <3> QED BY <1>4, <2>1, <3>2, <3>3
    <2>4. CASE StopVictim(r)
      <3>1. up' = up \ {Guests(p)} \/ "stop" \in skipped'[r]
        BY <1>1, <1>6, <2>4 DEF StopVictim, DestroyTypeOK
      <3> QED BY <1>2, <3>1 DEF Gone, InPlace
    <2> QED BY <2>2, <2>3, <2>4
  <1>11. ASSUME dpc'[r] \in Late, NEW l \in Label \ {"dir"}, Behind(l, r)' \/ ~disk'[Home(p)].image
         PROVE  Gone(p, l, r)'
    <2>1. CASE ReadImage(r)
      <3>1. l = "stop" /\ Gone(p, "stop", r)
        BY <1>1, <1>11, <2>1 DEF ReadImage, To, Leave, DestroyTypeOK, Behind, Chased, host, Late
      <3> QED BY <1>4, <3>1
    <2>2. CASE dpc[r] \in Late /\ ~disk[Home(p)].image
      BY <1>4, <2>2 DEF Chased
    <2>3. CASE dpc[r] \in Late /\ disk[Home(p)].image /\ Behind(l, r)
      BY <1>4, <2>3 DEF Chased
    <2>4. CASE dpc[r] \in Late /\ disk[Home(p)].image /\ ~Behind(l, r)
      <3>1. CASE ReadVmid(r)
        <4>1. /\ l \in {"conf", "wrapper"} /\ req[p].mode \notin PveMode
          <5>1. /\ dpc[r] = "slot" /\ disk' = disk /\ dpc'[r] \in {"hold", "conf"}
                /\ kind[r] \in PveMode /\ VmidOf(handle[r], kind[r]) # None => dpc'[r] = "conf"
            BY <1>1, <3>1 DEF ReadVmid, To, host, DestroyTypeOK
          <5> QED BY <1>1, <1>6, <1>11, <2>4, <5>1 DEF Behind, Chased
        <4> QED BY <1>2, <4>1 DEF Gone, InPlace
      <3>2. CASE DeleteConf(r)
        <4>1. /\ dpc[r] = "conf" /\ disk' = disk
              /\ \/ dpc'[r] = "wrapper" /\ conf' = [conf EXCEPT ![ConfOf(kind[r], slot[r])] = None]
                 \/ dpc'[r] = "hold" /\ {"conf", "wrapper"} \subseteq skipped'[r]
          BY <1>1, <1>11, <3>2 DEF DeleteConf, To, Leave, DestroyTypeOK, Late
        <4>2. req[p].mode \in PveMode => ConfOf(kind[r], slot[r]) = Conf(p)
          BY <4>1, OwnConf
        <4>3. req[p].mode \in PveMode /\ dpc'[r] = "wrapper" => conf'[Conf(p)] = None
          BY <1>1, <4>1, <4>2 DEF TInv, TypeOK, HostTypeOK
        <4>4. l \in {"conf", "wrapper"} /\ (l = "wrapper" => dpc'[r] # "wrapper")
          BY <1>11, <2>4, <4>1 DEF Behind
        <4> QED BY <1>1, <1>2, <4>1, <4>3, <4>4 DEF Gone, InPlace
      <3>3. CASE DeleteWrapper(r)
        <4>1. /\ dpc[r] = "wrapper" /\ disk' = disk /\ dpc'[r] = "hold"
              /\ wrapper' = [wrapper EXCEPT ![ConfOf(kind[r], slot[r])] = None]
          BY <1>1, <3>3 DEF DeleteWrapper, To, DestroyTypeOK
        <4>2. req[p].mode \in PveMode => ConfOf(kind[r], slot[r]) = Conf(p)
          BY <4>1, OwnConf
        <4>3. req[p].mode \in PveMode => wrapper'[Conf(p)] = None
          BY <1>1, <4>1, <4>2 DEF TInv, TypeOK, HostTypeOK
        <4>4. l = "wrapper"
          BY <1>11, <2>4, <4>1 DEF Behind
        <4> QED BY <1>1, <1>2, <4>3, <4>4 DEF Gone, InPlace
      <3>4. CASE RemoveHold(r)
        <4>1. /\ dpc[r] = "hold" /\ disk' = disk /\ dpc'[r] = "state"
              /\ holds' = holds \ {name[p]}
          BY <1>1, <1>6, <2>4, <3>4 DEF RemoveHold, To, DestroyTypeOK
        <4>2. l = "hold"
          BY <1>11, <2>4, <4>1 DEF Behind
        <4> QED BY <1>2, <4>1, <4>2 DEF Gone, InPlace
      <3>5. CASE RemoveState(r)
        <4>1. /\ dpc[r] = "state" /\ disk' = disk /\ dpc'[r] = "files"
              /\ StateDir(Home(p)) \notin layers' \ {Home(p)}
          BY <1>1, <2>4, <3>5 DEF RemoveState, To, DestroyTypeOK, Chased
        <4>2. l = "state"
          BY <1>11, <2>4, <4>1 DEF Behind
        <4> QED BY <1>2, <4>1, <4>2 DEF Gone, InPlace
      <3>6. CASE RemoveFiles(r)
        BY <2>4, <3>6 DEF RemoveFiles, Behind, Label
      <3>7. CASE RemoveDir(r)
        BY <1>1, <1>11, <3>7 DEF RemoveDir, To, Leave, DestroyTypeOK, Late
      <3> QED BY <1>3, <2>4, <3>1, <3>2, <3>3, <3>4, <3>5, <3>6, <3>7
          DEF RemoverStep, Probe, StopVictim, ReadImage, Late
    <2> QED BY <1>8, <1>11, <2>1, <2>2, <2>3, <2>4
  <1> QED BY <1>2, <1>7, <1>9, <1>10, <1>11 DEF Chased

\* Whoever else works on the same instance does no less than the first.
LEMMA HuntedByRemover ==
  ASSUME TrailInv, IdsApart, NEW p \in Creator, Sole(p), Unmarred(p),
         NEW x \in Remover, RemoverStep(x), UNCHANGED local,
         NEW r \in Remover, dpc[r] \in Working, dpc'[r] \in Working, Hunted(r, p)
  PROVE  Hunted(r, p)'
  <1>1. /\ DestroyTypeOK /\ HostInv /\ TInv /\ Shaped /\ Solo /\ None # Home(p) /\ Home(p) \in DirKey
        /\ req[p].mode \in PveMode => Conf(p) \in ConfKey
        /\ pc[p] = "done" /\ handle[r] = Home(p)
    BY SoleKeys, ContentAssumption DEF TrailInv, HostInv, Core, Hunted
  <1>2. /\ Home(p)' = Home(p) /\ StateDir(Home(p))' = StateDir(Home(p)) /\ Conf(p)' = Conf(p)
        /\ req' = req /\ pc' = pc
    BY DEF local, Home, StateDir, Conf
  <1>3. /\ EmptyDir.image = FALSE /\ NoDir.image = FALSE
        /\ disk'[Home(p)].image => disk[Home(p)].image
    BY <1>1, RemoverLessens DEF EmptyDir, NoDir
  <1>4. "stop" \in Label
    BY DEF Label
  <1>5. \A s \in Remover : handle[s] = Home(p) => skipped[s] = skipped[r]
    BY <1>1, Alike
  <1>6. \A s \in Remover \ {x} :
          /\ dpc'[s] = dpc[s] /\ handle'[s] = handle[s] /\ kind'[s] = kind[s]
          /\ state'[s] = state[s] /\ skipped'[s] = skipped[s]
          /\ \A l \in Label : Gone(p, l, s) => Gone(p, l, s)'
    BY <1>1, RemoverOthers, LessInPlace DEF Gone
  <1>7. disk[Home(p)].image /\ req[p].mode \in PveMode /\ conf[Conf(p)] = None =>
          \A s \in Remover : handle[s] = Home(p) => Gone(p, "stop", s)
    BY <1>5 DEF Hunted, Gone
  <1>8. x = r => handle'[r] = handle[r] /\ skipped[r] \subseteq skipped'[r]
    BY <1>1 DEF DestroyTypeOK, Working, Late, RemoverStep, Resolve, ReapNext, NotFound,
       FindOrphans, Probe, StopVictim, ReadImage, ReadVmid, DeleteConf, DeleteWrapper, RemoveHold,
       RemoveState, RemoveFiles, RemoveDir, victim
  <1>9. ASSUME NEW s \in Remover, handle'[s] = Home(p), dpc'[s] \in Working PROVE Chased(p, s)'
    <2>1. CASE s = x /\ dpc[x] \notin Working
      BY <1>1, <1>9, <2>1, ChasedAtFirst
    <2>2. CASE s = x /\ dpc[x] \in Working
      <3>1. handle[x] = Home(p)
        BY <1>1, <1>9, <2>2 DEF DestroyTypeOK, Working, Late, RemoverStep, Resolve, ReapNext,
           NotFound, FindOrphans, Probe, StopVictim, ReadImage, ReadVmid, DeleteConf,
           DeleteWrapper, RemoveHold, RemoveState, RemoveFiles, RemoveDir, victim
      <3> QED BY <1>1, <1>7, <1>9, <2>2, <3>1, ChasedOn DEF Hunted
    <2>3. CASE s # x
      <3>1. /\ handle[s] = Home(p) /\ dpc'[s] = dpc[s] /\ kind'[s] = kind[s]
            /\ state'[s] = state[s] /\ skipped'[s] = skipped[s] /\ Chased(p, s)
        BY <1>6, <1>9, <2>3 DEF Hunted
      <3>2. \A l \in Label : Gone(p, l, s) => Gone(p, l, s)'
        BY <1>6, <2>3
      <3>3. ASSUME disk[Home(p)].image, ~disk'[Home(p)].image, NEW l \in Label \ {"dir"}
            PROVE  Gone(p, l, s)
        <4>1. handle[x] = Home(p) /\ dpc[x] = "files"
          <5>1. disk'[Home(p)] # disk[Home(p)]
            BY <3>3
          <5>2. dpc[x] = "dir" => disk[handle[x]] = EmptyDir \/ disk' = disk
            BY DEF RemoverStep, host, Resolve, NotFound, FindOrphans, ReapNext, Probe, StopVictim,
               ReadImage, ReadVmid, DeleteConf, DeleteWrapper, RemoveHold, RemoveState,
               RemoveFiles, RemoveDir
          <5>3. handle[x] = Home(p) /\ dpc[x] \in {"files", "dir"}
            BY <1>1, <5>1, RemoverHost, RemoverLessens
          <5> QED BY <1>3, <3>3, <5>1, <5>2, <5>3
        <4>2. Chased(p, x) /\ Behind(l, x)
          BY <4>1 DEF Hunted, Working, Late, Behind, Label
        <4>3. Gone(p, l, x)
          BY <4>1, <4>2 DEF Chased, Late
        <4> QED BY <1>5, <3>1, <4>1, <4>3 DEF Gone
      <3> QED BY <1>2, <1>3, <1>4, <3>1, <3>2, <3>3 DEF Chased, Behind
    <2> QED BY <2>1, <2>2, <2>3
  <1>10. ASSUME disk'[Home(p)].image, req[p].mode \in PveMode, conf'[Conf(p)] = None
         PROVE  Gone(p, "stop", r)'
    <2>1. Gone(p, "stop", r)
      <3>1. CASE conf[Conf(p)] = None
        BY <1>3, <1>10, <3>1 DEF Hunted
      <3>2. CASE conf[Conf(p)] # None
        <4>1. dpc[x] = "conf" /\ ConfOf(kind[x], slot[x]) = Conf(p)
          BY <1>1, <1>10, <3>2, RemoverHost DEF TInv, TypeOK, HostTypeOK
        <4>2. handle[x] = Home(p)
          BY <1>10, <4>1, OwnConf
        <4>3. Gone(p, "stop", x)
          BY <1>4, <4>1, <4>2 DEF Hunted, Chased, Working, Late, Behind
        <4> QED BY <1>5, <4>2, <4>3 DEF Gone
      <3> QED BY <3>1, <3>2
    <2> QED BY <1>4, <1>6, <1>8, <2>1, LessInPlace DEF Gone
  <1>11. handle'[r] = Home(p)
    BY <1>1, <1>6, <1>8
  <1> QED BY <1>1, <1>2, <1>9, <1>10, <1>11 DEF Hunted

\* The first to take an instance finds no guest whose config is gone.
LEMMA HuntedAtFirst ==
  ASSUME TrailInv, IdsApart, NEW p \in Creator, Sole(p), Unmarred(p), pc[p] = "done",
         NEW r \in Remover, RemoverStep(r), UNCHANGED local,
         dpc'[r] = "probe", dpc[r] # "probe", handle'[r] = Home(p),
         \A s \in Remover \ {r} : handle[s] # Home(p)
  PROVE  Hunted(r, p)'
  <1>1. /\ DestroyTypeOK /\ HostInv /\ TInv /\ None # Home(p)
        /\ Home(p)' = Home(p) /\ Conf(p)' = Conf(p) /\ Guests(p)' = Guests(p) /\ req' = req
        /\ pc' = pc /\ Sought(r)
    BY SoleKeys, ContentAssumption
    DEF TrailInv, HostInv, Core, local, Home, Conf, Guests
  <1>2. dpc[r] \in {"find", "next"}
    BY <1>1 DEF DestroyTypeOK, RemoverStep, Resolve, ReapNext, NotFound, FindOrphans, Probe,
       StopVictim, ReadImage, ReadVmid, DeleteConf, DeleteWrapper, RemoveHold, RemoveState,
       RemoveFiles, RemoveDir, To, Leave
  <1>3. Chased(p, r)' /\ disk' = disk /\ conf' = conf /\ up' = up
    BY <1>2, ChasedAtFirst DEF Working, Late
  <1>4. \A s \in Remover : handle'[s] = Home(p) => s = r
    BY <1>1, RemoverOthers
  <1>5. disk[Home(p)].image => \A s \in Remover : handle[s] # Home(p)
    BY <1>1, <1>2 DEF Unmarred, Sought
  <1>6. disk[Home(p)].image /\ req[p].mode \in PveMode /\ conf[Conf(p)] = None =>
          Guests(p) \notin up
    BY <1>5 DEF Unmarred
  <1> QED BY <1>1, <1>3, <1>4, <1>6 DEF Hunted, Gone, InPlace

LEMMA DoneStays ==
  ASSUME TInv, NEW c \in Creator, Step(c), NEW p \in Creator, pc[p] = "done"
  PROVE  p # c /\ pc'[p] = "done"
  <1>1. pc[c] # "done"
    BY DEF Step, CreateStep, Interrupt, Crash, EndPc, GapPc, PortPc, LockedPc, TryPc, Acquire,
       GenerateName, TakeName, TakeVmid, MakeDir, Refuse, RejectSeed, EnterTry, PinImage,
       TestState, MakeState, WriteImage, WriteMode, WriteName, PickPort, WritePort, WriteWrapper,
       WriteVmid, WriteConf, AddUndo, RegisterStop, StartGuest, Fail, RunCleanup, Reraise
  <1> QED BY <1>1, OthersKeep

LEMMA GoneByCreate ==
  ASSUME IdsApart, GoneInv, NEW c \in Creator, CreatorMoves(c)
  PROVE  GoneInv'
  <1>1. /\ TrailInv /\ HostInv /\ TInv /\ Histories /\ prey \in [Remover -> SUBSET Creator]
        /\ TrailInv' /\ Step(c) /\ UNCHANGED removal
    BY TrailByCreate DEF GoneInv, TrailInv, HostInv, Core, Histories, CreatorMoves, Step
  <1>2. /\ dpc' = dpc /\ handle' = handle
        /\ \A r \in Remover : prey'[r] = prey[r]
    <2>1. dpc' = dpc /\ handle' = handle
      BY <1>1 DEF removal, victim
    <2> QED BY <2>1 DEF CreatorMoves, Remember
  <1>3. ASSUME NEW p \in Creator, Sole(p)' PROVE Unmarred(p)'
    <2>1. Sole(p) => Unmarred(p)
      BY DEF GoneInv
    <2> QED BY <1>1, <1>3, <2>1, UnmarredByItself, UnmarredByOthers
  <1>4. ASSUME NEW r \in Remover, NEW p \in prey'[r]
        PROVE  /\ pc'[p] = "done"
               /\ dpc'[r] \in Working /\ ~Shared(p)' => Hunted(r, p)'
    <2>1. p \in Creator /\ p \in prey[r]
      BY <1>1, <1>2, <1>4
    <2>2. pc[p] = "done"
      BY <2>1 DEF GoneInv
    <2>3. p # c /\ pc'[p] = "done"
      BY <1>1, <2>1, <2>2, DoneStays
    <2>4. ASSUME dpc'[r] \in Working, ~Shared(p)' PROVE Hunted(r, p)'
      <3>1. Past(p)
        BY <2>2 DEF Past, LockedPc
      <3>2. ~Shared(p)
        BY <1>1, <2>1, <2>4, <3>1, SharedStays
      <3>3. Hunted(r, p)
        BY <1>2, <2>1, <2>4, <3>2 DEF GoneInv
      <3> QED BY <1>1, <2>1, <2>2, <2>3, <2>4, <3>3, HuntedByOthers
    <2> QED BY <2>3, <2>4
  <1> QED BY <1>1, <1>3, <1>4 DEF GoneInv

LEMMA GoneByRemover ==
  ASSUME IdsApart, GoneInv, NEW x \in Remover, RemoverMoves(x)
  PROVE  GoneInv'
  <1>1. /\ TrailInv /\ HostInv /\ TInv /\ DestroyTypeOK /\ prey \in [Remover -> SUBSET Creator]
        /\ TrailInv' /\ RemoverStep(x) /\ UNCHANGED local /\ pc' = pc
    BY TrailByRemover DEF GoneInv, TrailInv, HostInv, Core, Histories, RemoverMoves, local
  <1>2. \A p \in Creator : Sole(p)' = Sole(p) /\ Shared(p)' = Shared(p)
    BY <1>1 DEF Sole, Shared, Home, Guests, local
  <1>3. ASSUME NEW p \in Creator, Sole(p) PROVE Unmarred(p)'
    BY <1>1, <1>3, UnmarredByRemover DEF GoneInv
  <1>4. ASSUME NEW r \in Remover, NEW p \in prey'[r]
        PROVE  /\ pc[p] = "done"
               /\ dpc'[r] \in Working /\ ~Shared(p) => Hunted(r, p)'
    <2>1. CASE dpc'[r] = "probe" /\ dpc[r] # "probe"
      <3>1. /\ p \in Creator /\ pc[p] = "done" /\ Home(p) = handle'[r]
            /\ \A s \in Remover \ {r} : handle[s] # Home(p)
        BY <1>4, <2>1 DEF RemoverMoves, Remember
      <3>2. r = x
        BY <1>1, <2>1, RemoverOthers
      <3>3. ~Shared(p) => Sole(p) /\ Unmarred(p)
        BY <3>1 DEF Sole, InPlay, GoneInv
      <3> QED BY <1>1, <2>1, <3>1, <3>2, <3>3, HuntedAtFirst
    <2>2. CASE ~(dpc'[r] = "probe" /\ dpc[r] # "probe")
      <3>1. p \in prey[r] /\ p \in Creator
        BY <1>1, <1>4, <2>2 DEF RemoverMoves, Remember
      <3>2. pc[p] = "done"
        BY <3>1 DEF GoneInv
      <3>3. ASSUME dpc'[r] \in Working, ~Shared(p) PROVE Hunted(r, p)'
        <4>1. Sole(p) /\ Unmarred(p)
          BY <3>1, <3>2, <3>3 DEF Sole, InPlay, GoneInv
        <4>2. dpc[r] \in Working
          <5>1. r # x => dpc'[r] = dpc[r]
            BY <1>1, RemoverOthers
          <5>2. r = x /\ dpc[r] \notin Working => dpc'[r] = "probe"
            BY <1>1, <3>3 DEF DestroyTypeOK, Working, Late, RemoverStep, Resolve, ReapNext,
               NotFound, FindOrphans, Probe, StopVictim, ReadImage, ReadVmid, DeleteConf,
               DeleteWrapper, RemoveHold, RemoveState, RemoveFiles, RemoveDir, Take, To, Leave
          <5> QED BY <2>2, <3>3, <5>1, <5>2 DEF Working
        <4>3. Hunted(r, p)
          BY <3>1, <3>3, <4>2 DEF GoneInv
        <4> QED BY <1>1, <3>1, <3>3, <4>1, <4>2, <4>3, HuntedByRemover
      <3> QED BY <3>2, <3>3
    <2> QED BY <2>1, <2>2
  <1>5. \A r \in Remover : \A p \in prey'[r] : p \in Creator
    BY <1>1 DEF TrailInv, HostInv, Histories
  <1> QED BY <1>1, <1>2, <1>3, <1>4, <1>5 DEF GoneInv

LEMMA GoneByProxmox == ASSUME GoneInv, RemoveOutOfBand PROVE GoneInv'
  <1>1. /\ TrailInv /\ prey \in [Remover -> SUBSET Creator]
        /\ TrailInv' /\ UNCHANGED local /\ UNCHANGED removal /\ pc' = pc /\ prey' = prey
        /\ dpc' = dpc
    BY TrailByProxmox
    DEF GoneInv, TrailInv, HostInv, Histories, RemoveOutOfBand, local, removal
  <1>2. \A p \in Creator : Sole(p)' = Sole(p) /\ Shared(p)' = Shared(p)
    BY <1>1 DEF Sole, Shared, Home, Guests, local
  <1>3. ASSUME NEW p \in Creator, Sole(p) PROVE Unmarred(p)'
    BY <1>1, <1>3, UnmarredByProxmox DEF GoneInv
  <1>4. ASSUME NEW r \in Remover, NEW p \in prey[r]
        PROVE  /\ pc[p] = "done" /\ p \in Creator
               /\ dpc[r] \in Working /\ ~Shared(p) => Hunted(r, p)'
    <2>1. p \in Creator /\ pc[p] = "done"
      BY <1>1, <1>4 DEF GoneInv
    <2>2. ~Shared(p) => Sole(p)
      BY <2>1 DEF Sole, InPlay
    <2>3. dpc[r] \in Working /\ ~Shared(p) => Hunted(r, p)
      BY <1>4 DEF GoneInv
    <2> QED BY <1>1, <2>1, <2>2, <2>3, HuntedByProxmox
  <1> QED BY <1>1, <1>2, <1>3, <1>4 DEF GoneInv

LEMMA GoneIdle == ASSUME GoneInv, UNCHANGED kento PROVE GoneInv'
  <1>1. /\ TrailInv' /\ UNCHANGED local /\ UNCHANGED removal /\ UNCHANGED host /\ prey' = prey
    BY TrailIdle DEF GoneInv, kento, vars, history
  <1>2. \A p \in Creator :
          /\ Sole(p)' = Sole(p) /\ Shared(p)' = Shared(p) /\ Home(p)' = Home(p)
          /\ Conf(p)' = Conf(p) /\ Guests(p)' = Guests(p) /\ Filed(p)' = Filed(p)
          /\ StateDir(Home(p))' = StateDir(Home(p)) /\ pc'[p] = pc[p] /\ req'[p] = req[p]
    BY <1>1 DEF Sole, Shared, Home, Guests, Conf, Filed, StateDir, local
  <1>3. \A p \in Creator : Unmarred(p)' = Unmarred(p)
    BY <1>1, <1>2 DEF Unmarred, removal, victim, host
  <1>4. \A p \in Creator, l \in Label, s \in Remover : Gone(p, l, s)' = Gone(p, l, s)
    BY <1>1, <1>2 DEF Gone, InPlace, host, local, removal
  <1>5. \A p \in Creator, s \in Remover : Chased(p, s)' = Chased(p, s)
    BY <1>1, <1>2, <1>4 DEF Chased, Behind, Label, removal, victim, host
  <1>6. \A r \in Remover, p \in Creator : Hunted(r, p)' = Hunted(r, p)
    BY <1>1, <1>2, <1>4, <1>5 DEF Hunted, Label, removal, victim, host
  <1>7. prey \in [Remover -> SUBSET Creator] /\ dpc' = dpc
    BY <1>1 DEF GoneInv, TrailInv, HostInv, Histories, removal
  <1> QED BY <1>1, <1>2, <1>3, <1>6, <1>7 DEF GoneInv

LEMMA StepGone == ASSUME IdsApart, GoneInv, [KentoNext]_kento PROVE GoneInv'
  BY GoneByCreate, GoneByRemover, GoneByProxmox, GoneIdle DEF KentoNext, Stopped

LEMMA InitGone == ASSUME LoneIfFlaky, KentoInit PROVE GoneInv
  <1>1. /\ TrailInv /\ \A p \in Creator : pc[p] = "lock"
        /\ \A r \in Remover : prey[r] = {}
    BY InitTrail DEF KentoInit, Init
  <1> QED BY <1>1 DEF GoneInv, Sole, InPlay, TryPc, GapPc, PortPc

\* No create takes away the directory of a finished instance that is not its own;
\* when a remover does, it has all the rest behind it.
LEMMA DirTaken ==
  ASSUME IdsApart, GoneInv, [KentoNext]_kento, NEW r \in Remover, NEW p \in prey[r], ~Shared(p),
         dpc[r] = "dir", disk[handle[r]].dir, ~disk'[handle[r]].dir,
         NEW l \in Label, InPlace(p, l)'
  PROVE  l \in skipped[r]
  <1>1. /\ TrailInv /\ TInv /\ UndoShape /\ p \in Creator /\ pc[p] = "done" /\ Sole(p)
        /\ Hunted(r, p) /\ disk \in [DirKey -> Files]
    <2>1. TrailInv /\ TInv /\ UndoShape /\ p \in Creator /\ disk \in [DirKey -> Files]
      BY DEF GoneInv, TrailInv, HostInv, Core, Histories, TInv, TypeOK, HostTypeOK
    <2> QED BY <2>1 DEF GoneInv, Sole, InPlay, Working, Late
  <1>2. handle[r] = Home(p) /\ Chased(p, r) /\ Home(p) \in DirKey
    BY <1>1, SoleKeys DEF Hunted, Working, Late
  <1>3. l # "dir" => Gone(p, l, r)
    BY <1>2 DEF Chased, Behind, Label, Late
  <1>4. ASSUME NEW c \in Creator, CreatorMoves(c) PROVE FALSE
    <2>1. Step(c)
      BY <1>4 DEF CreatorMoves, Step
    <2>2. c # p
      BY <1>1, <2>1, DoneStays
    <2>3. Owns(c) => Home(c) # Home(p)
      <3>1. Owns(c) => Past(c)
        BY DEF Owns, Past, LockedPc, TryPc, GapPc, PortPc
      <3> QED BY <1>1, <2>2, <3>1, OnlyItself
    <2>4. DiskStep(c)
      BY <1>1, <2>1, DiskSteps
    <2>5. Owns(c) => disk'[Home(p)] = disk[Home(p)] \/ MakeDir(c)
      BY <1>1, <1>2, <2>3, <2>4 DEF DiskStep, WritePort
    <2>6. MakeDir(c) => disk' = [disk EXCEPT ![Home(c)] = EmptyDir]
      BY DEF MakeDir
    <2>7. EmptyDir.dir
      BY DEF EmptyDir
    <2>8. ~Owns(c) => disk' = disk \/ MakeDir(c)
      BY <2>4 DEF DiskStep
    <2> QED BY <1>1, <1>2, <2>5, <2>6, <2>7, <2>8
  <1>5. ASSUME NEW x \in Remover, RemoverMoves(x) PROVE l \in skipped[r]
    <2>1. RemoverStep(x) /\ UNCHANGED local
      BY <1>5 DEF RemoverMoves
    <2>2. l # "dir"
      BY <1>2, <2>1 DEF InPlace, Home, local
    <2> QED BY <1>1, <1>3, <2>1, <2>2, LessInPlace DEF Gone
  <1>6. ASSUME disk' = disk PROVE FALSE
    BY <1>6
  <1> QED BY <1>4, <1>5, <1>6 DEF KentoNext, RemoveOutOfBand, Stopped, kento, vars, host

\* Whatever creates, destroys and prunes do side by side, and Proxmox behind
\* their backs: the command that removes the directory of a finished instance,
\* and was the first to take that instance, leaves none of it, no hold, layers,
\* wrapper, Proxmox config or running guest, but what a forced destroy has warned
\* it could not remove (destroy.py:38-129).  Where the layers live outside the
\* instance directories, names are no VMIDs; and where guests and pct may refuse,
\* one remover is at work at a time.
THEOREM DestroyTakesAll ==
  ASSUME IdsApart, LoneIfFlaky
  PROVE  KentoSpec => DestroyComplete
  <1>1. KentoInit => GoneInv
    BY InitGone
  <1>2. GoneInv /\ [KentoNext]_kento => GoneInv'
    BY StepGone
  <1> DEFINE Empties(r) ==
    dpc[r] = "dir" /\ disk[handle[r]].dir /\ ~disk'[handle[r]].dir
    => \A p \in prey[r] : ~Shared(p) => \A l \in Label : InPlace(p, l)' => l \in skipped[r]
  <1>3. GoneInv /\ [KentoNext]_kento => [\A r \in Remover : Empties(r)]_kento
    BY DirTaken
  <1>4. KentoSpec => [][\A r \in Remover : Empties(r)]_kento
    BY <1>1, <1>2, <1>3, PTL DEF KentoSpec
  <1> QED BY <1>4 DEF DestroyComplete
===============================================================================
