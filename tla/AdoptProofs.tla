----------------------------- MODULE AdoptProofs -----------------------------
(***************************************************************************)
(* What an adopt does to the creates, and they to it: for any number of    *)
(* both, beside a Proxmox that makes and removes guests of its own.        *)
(***************************************************************************)
EXTENDS Adopt, RollbackProofs

-------------------------------------------------------------------------------
(* Types, and what an adopt knows of its instance. *)

\* What the steps of creates keep whatever happens to locks, wrappers, configs.
Core == SInv /\ Asked /\ Stages /\ ConfigUndos /\ PortUnset /\ FilesKept

\* What has been read from the instance fits together.
Warded ==
  \A a \in Adopter : apc[a] \in {"lock"} \cup ALocked =>
    /\ ward[a] \in DirKey /\ form[a] \in PveMode /\ number[a] \in Vmid
    /\ ward[a].base = BaseOf(form[a])
    /\ form[a] = "pve" => ward[a].id \in Vmid

\* Proxmox and the adopts leave directories, layers and guests alone.
Beside == /\ UNCHANGED <<disk, holds, layers, up, local>>
          /\ conf' \in [ConfKey -> DirKey \cup {None, Foreign}]
          /\ wrapper' \in [ConfKey -> DirKey \cup {None}]
          /\ lock' \in Proc \cup {None}
          /\ \A p \in Creator : (lock' = p) <=> (lock = p)

LEMMA CoreStep == ASSUME Core, NEW c \in Creator, Step(c) PROVE Core'
  <1>1. SInv' /\ Asked'
    BY StepSafe, StepAsked DEF Core, Step, Next
  <1> QED BY <1>1, StepStages, StepConfigUndos, StepPortUnset, StepFilesKept DEF Core, SInv

LEMMA CoreBeside == ASSUME Core, Beside PROVE Core'
  <1>1. TInv'
    BY DEF Core, Beside, SInv, TInv, TypeOK, HostTypeOK, Resolved, local
  <1>2. LockHeld'
    BY DEF Core, Beside, SInv, LockHeld, local
  <1>3. UndoShape' /\ DirsDistinct'
    BY DEF Core, Beside, SInv, UndoShape, DirsDistinct, Owns, Home, local
  <1>4. Asked' /\ Stages' /\ ConfigUndos' /\ PortUnset'
    BY DEF Core, Beside, Asked, Stages, ConfigUndos, Registered, PortUnset, local
  <1>5. FilesKept'
    BY DEF Core, Beside, FilesKept, Filed, Home, local
  <1> QED BY <1>1, <1>2, <1>3, <1>4, <1>5 DEF Core, SInv

\* What resolve_any finds of a Proxmox instance has its VMID.
LEMMA Resolves ==
  ASSUME Core, ModesFiled, NEW n \in Name, NEW d \in Matches(n, "any"), Adoptable(d)
  PROVE  /\ d \in DirKey /\ disk[d].dir /\ ModeOf(d) \in PveMode
         /\ VmidOf(d, ModeOf(d)) \in Vmid
         /\ d.base = BaseOf(ModeOf(d))
         /\ ModeOf(d) = "pve" => d.id \in Vmid
  <1>1. d \in DirKey /\ disk[d].dir
    BY DEF Matches, Hits, Scan, Existing
  <1>2. disk[d] \in Files
    BY <1>1 DEF Core, SInv, TInv, TypeOK, HostTypeOK
  <1>3. ModeOf(d) \in PveMode /\ disk[d].mode = ModeOf(d)
    BY <1>1 DEF Adoptable, ModeOf, PveMode, DirKey
  <1>4. disk[d].vmid \in Vmid \cup {None}
    BY <1>2 DEF Files
  <1>5. disk[d].mode # None
    BY <1>3, ContentAssumption DEF PveMode, Mode
  <1> QED BY <1>1, <1>3, <1>4, <1>5 DEF Adoptable, ModesFiled, VmidOf, PveMode, BaseOf

TypedInv == Core /\ ModesFiled /\ AdoptTypeOK /\ Warded

\* A step of an adopt: its effect on the lock, and on what it has read.
LEMMA AdopterStep ==
  ASSUME TypedInv, NEW a \in Adopter, AdoptStep(a)
  PROVE  /\ UNCHANGED <<disk, holds, layers, up>>
         /\ lock' \in {None, a, lock}
         /\ \A p \in Creator : (lock' = p) <=> (lock = p)
         /\ \A b \in Adopter : (lock' = b) <=> apc'[b] \in ALocked
         /\ apc' \in [Adopter -> {"find", "lock"} \cup ALocked \cup AEnd]
         /\ ward' \in [Adopter -> DirKey \cup {None}]
         /\ form' \in [Adopter -> PveMode \cup {None}]
         /\ number' \in [Adopter -> Vmid \cup {None}]
         /\ \A b \in Adopter \ {a} : /\ apc'[b] = apc[b] /\ ward'[b] = ward[b]
                                     /\ form'[b] = form[b] /\ number'[b] = number[b]
         /\ apc'[a] \in {"lock"} \cup ALocked =>
              /\ ward'[a] \in DirKey /\ form'[a] \in PveMode /\ number'[a] \in Vmid
              /\ ward'[a].base = BaseOf(form'[a])
              /\ form'[a] = "pve" => ward'[a].id \in Vmid
  <1> USE DEF TypedInv, AdoptTypeOK
  <1>1. /\ a \in Proc \ Creator /\ None \notin Proc /\ Creator \subseteq Proc
        /\ \A b \in Adopter : b \in Proc \ Creator
    BY AdoptAssumption, StateAssumption, CreateAssumption
  <1>2. CASE ResolveOrphan(a)
    <2>1. PICK n \in Adoptions : \E e \in Matches(n, "any") :
             /\ Adoptable(e)
             /\ ward' = [ward EXCEPT ![a] = e]
             /\ form' = [form EXCEPT ![a] = ModeOf(e)]
             /\ number' = [number EXCEPT ![a] = VmidOf(e, ModeOf(e))]
      BY <1>2 DEF ResolveOrphan
    <2>2. PICK d \in Matches(n, "any") :
             /\ Adoptable(d)
             /\ ward' = [ward EXCEPT ![a] = d]
             /\ form' = [form EXCEPT ![a] = ModeOf(d)]
             /\ number' = [number EXCEPT ![a] = VmidOf(d, ModeOf(d))]
      BY <2>1
    <2>3. /\ d \in DirKey /\ ModeOf(d) \in PveMode
          /\ VmidOf(d, ModeOf(d)) \in Vmid
          /\ d.base = BaseOf(ModeOf(d))
          /\ ModeOf(d) = "pve" => d.id \in Vmid
      BY <2>2, Resolves, AdoptAssumption
    <2> QED BY <1>1, <1>2, <2>2, <2>3 DEF ResolveOrphan, Advance, host, ALocked, AEnd
  <1>3. CASE Unadoptable(a)
    BY <1>1, <1>3 DEF Unadoptable, Advance, host, ALocked, AEnd
  <1>4. CASE TakeLock(a)
    BY <1>1, <1>4 DEF TakeLock, Advance, host, ALocked, AEnd, Warded
  <1>5. CASE CheckOrphan(a)
    BY <1>1, <1>5 DEF CheckOrphan, Advance, host, ALocked, AEnd, Warded
  <1>6. CASE EmitWrapper(a)
    <2>1. PICK v : /\ v = VmidOf(ward[a], form[a]) /\ v # None
                   /\ number' = [number EXCEPT ![a] = v]
      BY <1>6 DEF EmitWrapper
    <2>2. ward[a] \in DirKey /\ form[a] \in PveMode /\ (form[a] = "pve" => ward[a].id \in Vmid)
      BY <1>6 DEF EmitWrapper, Warded, ALocked
    <2>3. disk[ward[a]] \in Files
      BY <2>2 DEF Core, SInv, TInv, TypeOK, HostTypeOK
    <2>4. v \in Vmid
      BY <2>1, <2>2, <2>3 DEF VmidOf, Files
    <2> QED BY <1>1, <1>6, <2>1, <2>2, <2>4 DEF EmitWrapper, Advance, ALocked, AEnd, Warded
  <1>7. CASE EmitConf(a)
    BY <1>1, <1>7 DEF EmitConf, Advance, host, ALocked, AEnd, Warded
  <1>8. CASE AdoptFails(a)
    BY <1>1, <1>8 DEF AdoptFails, Advance, host, ALocked, AEnd, Warded
  <1> QED BY <1>2, <1>3, <1>4, <1>5, <1>6, <1>7, <1>8 DEF AdoptStep

\* What it writes is the config or the wrapper at the VMID it has read.
LEMMA AdopterWrites ==
  ASSUME TypedInv, NEW a \in Adopter, AdoptStep(a)
  PROVE  /\ \/ wrapper' = wrapper
            \/ EmitWrapper(a) /\ wrapper' = [wrapper EXCEPT ![ConfOf(form[a], number'[a])] = ward[a]]
         /\ \/ conf' = conf
            \/ EmitConf(a) /\ conf' = [conf EXCEPT ![ConfOf(form[a], number[a])] = ward[a]]
  BY DEF TypedInv, AdoptTypeOK, AdoptStep, ResolveOrphan, Unadoptable, TakeLock, CheckOrphan,
     EmitWrapper, EmitConf, AdoptFails, host

LEMMA AdoptsBeside == ASSUME TypedInv, Adopts PROVE Beside
  <1>1. PICK a \in Adopter : AdoptStep(a)
    BY DEF Adopts
  <1>2. /\ UNCHANGED <<disk, holds, layers, up>>
        /\ lock' \in {None, a, lock}
        /\ \A p \in Creator : (lock' = p) <=> (lock = p)
    BY <1>1, AdopterStep
  <1>3. /\ EmitWrapper(a) \/ EmitConf(a) => ward[a] \in DirKey
        /\ wrapper' = wrapper \/ (EmitWrapper(a) /\ wrapper' = [wrapper EXCEPT ![ConfOf(form[a], number'[a])] = ward[a]])
        /\ conf' = conf \/ (EmitConf(a) /\ conf' = [conf EXCEPT ![ConfOf(form[a], number[a])] = ward[a]])
    BY <1>1, AdopterWrites DEF TypedInv, Warded, EmitWrapper, EmitConf, ALocked
  <1>4. /\ conf \in [ConfKey -> DirKey \cup {None, Foreign}]
        /\ wrapper \in [ConfKey -> DirKey \cup {None}]
        /\ lock \in Proc \cup {None} /\ a \in Proc
    BY AdoptAssumption DEF TypedInv, Core, SInv, TInv, TypeOK, HostTypeOK
  <1>5. UNCHANGED local
    BY DEF Adopts
  <1> QED BY <1>2, <1>3, <1>4, <1>5 DEF Beside

LEMMA ProxmoxBeside == ASSUME TypedInv, ProxmoxRemoves \/ ProxmoxTakes PROVE Beside
  BY DEF TypedInv, Core, SInv, TInv, TypeOK, HostTypeOK, ProxmoxRemoves, ProxmoxTakes, Beside

\* Nobody but an adopt has the lock of one.
LEMMA CreatesLock ==
  ASSUME TypedInv, NEW c \in Creator, Step(c)
  PROVE  \A a \in Adopter : (lock' = a) <=> (lock = a)
  <1>1. lock' \in {lock, None, c} /\ (lock' # lock => lock \in {None, c})
    BY DEF TypedInv, Core, SInv, TInv, TypeOK, HostTypeOK, LockHeld, LockedPc, PortPc, host, Step, CreateStep, Interrupt, Crash, Goto, Register, WriteFile, AfterName,
         Acquire, GenerateName, TakeName, TakeVmid, MakeDir, Refuse, RejectSeed,
         EnterTry, PinImage, TestState, MakeState, WriteImage, WriteMode,
         WriteName, PickPort, WritePort, WriteWrapper, WriteVmid, WriteConf,
         AddUndo, RegisterStop, StartGuest, Fail, RunCleanup, Reraise, AfterPort,
         AfterConf
  <1> QED BY <1>1, AdoptAssumption, StateAssumption, CreateAssumption

LEMMA StepTypedInv == ASSUME TypedInv, [AdoptNext]_all PROVE TypedInv'
  <1>1. CASE Creates
    <2>1. PICK c \in Creator : CreateStep(c)
      BY <1>1 DEF Creates
    <2>2. Core' /\ ModesFiled'
      BY <2>1, CoreStep, StepModesFiled DEF TypedInv, Core, SInv, Step
    <2>3. \A a \in Adopter : (lock' = a) <=> (lock = a)
      BY <2>1, CreatesLock DEF Step
    <2>4. /\ UNCHANGED <<apc, ward, form, number, overtaken, healed>>
          /\ rivals' \subseteq rivals \cup Creator
      BY <1>1 DEF Creates, adoption
    <2>5. AdoptTypeOK'
      BY <2>2, <2>3, <2>4 DEF TypedInv, AdoptTypeOK, Core, SInv, TInv
    <2> QED BY <2>2, <2>4, <2>5 DEF TypedInv, Warded
  <1>2. CASE Adopts
    <2>1. PICK a \in Adopter : AdoptStep(a)
      BY <1>2 DEF Adopts
    <2>2. Beside /\ Core'
      BY <1>2, AdoptsBeside, CoreBeside DEF TypedInv
    <2>3. ModesFiled'
      BY <2>2 DEF TypedInv, ModesFiled, Beside
    <2>4. /\ rivals' = rivals /\ overtaken' \subseteq overtaken \cup Adopter
          /\ healed' = [b \in Adopter |-> healed[b] \cup {p \in Creator : Heals(b, p)}]
      BY <1>2 DEF Adopts
    <2>5. /\ \A b \in Adopter : (lock' = b) <=> apc'[b] \in ALocked
          /\ apc' \in [Adopter -> {"find", "lock"} \cup ALocked \cup AEnd]
          /\ ward' \in [Adopter -> DirKey \cup {None}]
          /\ form' \in [Adopter -> PveMode \cup {None}]
          /\ number' \in [Adopter -> Vmid \cup {None}]
      BY <2>1, AdopterStep
    <2>6. healed' \in [Adopter -> SUBSET Creator]
      BY <2>4 DEF TypedInv, AdoptTypeOK
    <2>7. AdoptTypeOK'
      BY <2>2, <2>4, <2>5, <2>6 DEF TypedInv, AdoptTypeOK, Core, SInv, TInv
    <2>8. Warded'
      <3> SUFFICES ASSUME NEW b \in Adopter, apc'[b] \in {"lock"} \cup ALocked
                   PROVE  /\ ward'[b] \in DirKey /\ form'[b] \in PveMode /\ number'[b] \in Vmid
                          /\ ward'[b].base = BaseOf(form'[b])
                          /\ form'[b] = "pve" => ward'[b].id \in Vmid
        BY DEF Warded
      <3>1. CASE b = a
        BY <2>1, <3>1, AdopterStep
      <3>2. CASE b # a
        <4>1. /\ apc'[b] = apc[b] /\ ward'[b] = ward[b]
              /\ form'[b] = form[b] /\ number'[b] = number[b]
          BY <2>1, <3>2, AdopterStep
        <4> QED BY <4>1 DEF TypedInv, Warded
      <3> QED BY <3>1, <3>2
    <2> QED BY <2>2, <2>3, <2>7, <2>8 DEF TypedInv
  <1>3. CASE ProxmoxRemoves \/ ProxmoxTakes
    <2>1. Beside /\ Core'
      BY <1>3, ProxmoxBeside, CoreBeside DEF TypedInv
    <2>2. ModesFiled' /\ Warded'
      BY <1>3, <2>1 DEF TypedInv, ModesFiled, Warded, Beside, ProxmoxRemoves, ProxmoxTakes, adoption
    <2>3. AdoptTypeOK'
      BY <1>3, <2>1 DEF TypedInv, AdoptTypeOK, Core, SInv, TInv, ProxmoxRemoves, ProxmoxTakes,
         adoption
    <2> QED BY <2>1, <2>2, <2>3 DEF TypedInv
  <1>4. CASE UNCHANGED all
    <2>1. Beside /\ UNCHANGED <<lock, adoption, history>>
      BY <1>4 DEF all, vars, host, Beside, TypedInv, Core, SInv, TInv, TypeOK,
         HostTypeOK
    <2>2. Core'
      BY <2>1, CoreBeside DEF TypedInv
    <2> QED BY <2>1, <2>2 DEF TypedInv, ModesFiled, Warded, AdoptTypeOK, Core, SInv, TInv, Beside,
         adoption, history
  <1> QED BY <1>1, <1>2, <1>3, <1>4 DEF AdoptNext, AllStopped

LEMMA InitTypedInv == AdoptInit => TypedInv
  <1> SUFFICES ASSUME AdoptInit PROVE TypedInv
    OBVIOUS
  <1>1. /\ Init /\ lock = None
        /\ \A p \in Creator : /\ pc[p] = "lock" /\ undos[p] = << >> /\ stuck[p] = {}
                              /\ port[p] = None /\ req[p] \in Asks[p]
    BY DEF AdoptInit, Init, HostInit
  <1>2. Core
    <2>1. SInv /\ Asked /\ Stages
      BY <1>1, InitSafe DEF Asked, Stages, ConfPc
    <2>2. ConfigUndos /\ PortUnset /\ FilesKept
      BY <1>1 DEF ConfigUndos, Registered, PortUnset, FilesKept, InPlay, TryPc, GapPc, PortPc
    <2> QED BY <2>1, <2>2 DEF Core
  <1>3. ModesFiled
    BY ContentAssumption DEF AdoptInit, Init, HostInit, ModesFiled, NoDir, Mode
  <1>4. AdoptTypeOK
    BY <1>1, <1>2, AdoptAssumption, StateAssumption
    DEF AdoptInit, AdoptTypeOK, ALocked, AEnd, Core, SInv, TInv
  <1>5. Warded
    BY DEF AdoptInit, Warded, ALocked
  <1> QED BY <1>2, <1>3, <1>4, <1>5 DEF TypedInv

\* The adopts have values of the right kind, and have the lock exactly from the
\* test to the write (reconcile.py:455-494): no way out of that section keeps it.
THEOREM AdoptersTyped == AdoptSpec => []AdoptTypeOK
  <1>1. TypedInv => AdoptTypeOK
    BY DEF TypedInv
  <1> QED BY <1>1, InitTypedInv, StepTypedInv, PTL DEF AdoptSpec

-------------------------------------------------------------------------------
(* Who has a VMID.  Two creates of Proxmox VMs at once may get the same one *)
(* (CreateVmidRace); whoever has not been through that has it alone.        *)

\* A directory that keeps a VMID from being given again.
Records(d, v) == IF d.base = "lxc" THEN d.id = v ELSE disk[d].vmid = v

\* A directory made by a create that has had to share.
RivalHome(d) == \E p \in rivals : Past(p) /\ d = Home(p)

\* A create that has been given a VMID, until it is undone.
Claims(p) == (pc[p] = "mkdir" \/ Owns(p)) /\ req[p].mode \in PveMode

RivalsKnown == rivals \subseteq Creator /\ \A p \in Creator : Rival(p) => p \in rivals

VmidApart ==
  \A p, q \in Creator :
    p # q /\ Claims(p) /\ Claims(q) /\ vmid[p] = vmid[q] => p \in rivals

RecordedApart ==
  \A p \in Creator : Claims(p) =>
    \A d \in Existing : d # Home(p) /\ Records(d, vmid[p]) => p \in rivals /\ RivalHome(d)

RecordersApart ==
  \A d, e \in Existing : \A v \in Vmid :
    d # e /\ Records(d, v) /\ Records(e, v) => RivalHome(d)

Apart == RivalsKnown /\ VmidApart /\ RecordedApart /\ RecordersApart

\* A VMID that has been given stays with its create.
LEMMA ClaimsKept ==
  ASSUME Core, NEW c \in Creator, Step(c), NEW q \in Creator, Claims(q)'
  PROVE  \/ /\ Claims(q) /\ vmid'[q] = vmid[q] /\ req' = req
            /\ Home(q)' = Home(q) /\ Conf(q)' = Conf(q)
         \/ q = c /\ TakeVmid(c)
  <1> USE DEF Core, SInv
  <1>1. CASE q # c
    <2>1. Claims(q) /\ vmid'[q] = vmid[q] /\ req' = req /\ name'[q] = name[q]
      BY <1>1, OthersKeep DEF Claims, Owns
    <2> QED BY <2>1 DEF Home, Conf
  <1>2. CASE q = c
    <2>1. CASE pc'[c] = "mkdir"
      BY <1>2, <2>1 DEF Claims, PveMode, TInv, TypeOK, LockedPc, TryPc, GapPc, PortPc, EndPc, Step, CreateStep, Interrupt, Crash, Goto, Register, WriteFile, AfterName,
         Acquire, GenerateName, TakeName, TakeVmid, MakeDir, Refuse, RejectSeed,
         EnterTry, PinImage, TestState, MakeState, WriteImage, WriteMode,
         WriteName, PickPort, WritePort, WriteWrapper, WriteVmid, WriteConf,
         AddUndo, RegisterStop, StartGuest, Fail, RunCleanup, Reraise, AfterPort,
         AfterConf
    <2>2. CASE Owns(c)'
      <3>1. Owns(c) \/ pc[c] = "mkdir"
        BY <2>2, OwnsOnlyByMkdir DEF MakeDir
      <3>2. vmid' = vmid /\ req' = req /\ name' = name
        BY <3>1 DEF Owns, TryPc, GapPc, PortPc, LockedPc, Step, CreateStep, Interrupt, Crash, Goto, Register, WriteFile, AfterName,
         Acquire, GenerateName, TakeName, TakeVmid, MakeDir, Refuse, RejectSeed,
         EnterTry, PinImage, TestState, MakeState, WriteImage, WriteMode,
         WriteName, PickPort, WritePort, WriteWrapper, WriteVmid, WriteConf,
         AddUndo, RegisterStop, StartGuest, Fail, RunCleanup, Reraise, AfterPort,
         AfterConf
      <3> QED BY <1>2, <3>1, <3>2 DEF Claims, Home, Conf
    <2> QED BY <1>2, <2>1, <2>2 DEF Claims
  <1> QED BY <1>1, <1>2

LEMMA ClaimsTyped ==
  ASSUME TInv, NEW p \in Creator, Claims(p)
  PROVE  /\ vmid[p] \in Vmid /\ name[p] \in Name /\ Home(p) \in DirKey /\ Conf(p) \in ConfKey
         /\ Conf(p).id = vmid[p]
  <1>1. pc[p] \notin {"lock", "name", "vmid", "refused", "crashed"}
    BY DEF Claims, Owns, TryPc, GapPc, PortPc
  <1>2. vmid[p] \in Vmid /\ name[p] \in Name /\ Home(p) \in DirKey
    BY <1>1, Keys DEF TInv, Resolved, Claims
  <1> QED BY <1>2 DEF Conf, ConfOf, ConfKey

\* Who has finished has its VMID recorded.
LEMMA DoneRecords ==
  ASSUME Core, NEW p \in Creator, pc[p] = "done", req[p].mode \in PveMode
  PROVE  Home(p) \in Existing /\ Records(Home(p), vmid[p])
  <1>1. Owns(p) /\ pc[p] \in InPlay
    BY DEF Owns, InPlay
  <1>2. disk[Home(p)] = Filed(p) /\ Home(p) \in DirKey
    BY <1>1, ClaimsTyped DEF Core, SInv, FilesKept, Claims
  <1>3. /\ Filed(p).dir = TRUE
        /\ req[p].mode = "pve-vm" => Filed(p).vmid = vmid[p]
    BY FiledFields DEF Core, SInv, AfterVmid
  <1> QED BY <1>2, <1>3 DEF Existing, Records, Home, DirOf, BaseOf, PveMode

\* A VMID is free when it is given, but for the creates still on their way.
LEMMA Takes ==
  ASSUME Core, NEW c \in Creator, TakeVmid(c)
  PROVE  /\ vmid'[c] \in Vmid
         /\ UNCHANGED <<disk, conf, req, name>>
         /\ \A q \in Creator \ {c} : vmid'[q] = vmid[q] /\ pc'[q] = pc[q]
         /\ \A d \in Existing : ~Records(d, vmid'[c])
         /\ \A k \in ConfKey : k.id = vmid'[c] => conf[k] = None
         /\ \A q \in Creator \ {c} : Claims(q) /\ vmid[q] = vmid'[c] => Rival(q)' /\ Rival(c)'
  <1> USE DEF Core, SInv, TInv, TypeOK
  <1>1. /\ vmid'[c] \in FreeVmids /\ pc'[c] = "mkdir"
        /\ UNCHANGED <<disk, conf, req, name>>
        /\ \A q \in Creator \ {c} : vmid'[q] = vmid[q] /\ pc'[q] = pc[q]
    BY DEF TakeVmid, Goto, host
  <1>2. vmid'[c] \in Vmid \ UsedVmids
    BY <1>1 DEF FreeVmids
  <1>3. ASSUME NEW d \in Existing PROVE ~Records(d, vmid'[c])
    <2>1. d \in DirKey /\ (d.base = "lxc" \/ d.base = "vm")
      BY DEF Existing, DirKey
    <2>2. vmid'[c] # None
      BY <1>2, StateAssumption
    <2>3. d.base = "lxc" /\ d.id \in Vmid => d.id \in UsedVmids
      BY DEF UsedVmids, KentoRecordedVmids
    <2>4. d.base = "vm" /\ disk[d].vmid # None => disk[d].vmid \in UsedVmids
      BY DEF UsedVmids, KentoRecordedVmids
    <2> QED BY <1>2, <2>1, <2>2, <2>3, <2>4 DEF Records
  <1>4. ASSUME NEW k \in ConfKey, k.id = vmid'[c] PROVE conf[k] = None
    BY <1>2, <1>4 DEF UsedVmids, PveViewVmids
  <1>5. ASSUME NEW q \in Creator \ {c}, Claims(q), vmid[q] = vmid'[c]
        PROVE  Rival(q)' /\ Rival(c)'
    <2>1. pc[q] # "done"
      <3> SUFFICES ASSUME pc[q] = "done" PROVE FALSE
        OBVIOUS
      <3>1. Home(q) \in Existing /\ Records(Home(q), vmid[q])
        BY <1>5, DoneRecords DEF Claims
      <3> QED BY <1>3, <1>5, <3>1
    <2>2. InProgress(q)' /\ InProgress(c)'
      BY <1>1, <1>5, <2>1 DEF InProgress, Claims, Owns, TryPc, GapPc, PortPc, EndPc
    <2>3. name'[q] # None /\ req'[q].mode \in PveMode
      BY <1>1, <1>5, ClaimsTyped, StateAssumption DEF Claims
    <2>4. name'[c] # None /\ req'[c].mode \in PveMode
      <3>1. pc[c] = "vmid" /\ name[c] \in Name
        BY DEF TakeVmid, Resolved
      <3>2. req[c].mode \in PveMode
        BY <3>1 DEF Stages
      <3> QED BY <1>1, <3>1, <3>2, StateAssumption
    <2> QED BY <1>1, <1>5, <2>2, <2>3, <2>4 DEF Rival
  <1> QED BY <1>1, <1>2, <1>3, <1>4, <1>5

\* A directory comes to keep a VMID only by the create that has been given it.
LEMMA RecordsGrow ==
  ASSUME NumbersApart, Core, NEW c \in Creator, Step(c), NEW d \in DirKey, NEW v \in Vmid,
         disk'[d].dir, Records(d, v)'
  PROVE  \/ disk[d].dir /\ Records(d, v)
         \/ d = Home(c) /\ Claims(c) /\ vmid[c] = v /\ Past(c)' /\ Home(c)' = Home(c)
  <1> USE DEF Core, SInv
  <1>1. disk \in [DirKey -> Files] /\ disk[d] \in Files /\ v # None
    BY StateAssumption DEF TInv, TypeOK, HostTypeOK
  <1>2. DiskStep(c)
    BY DiskSteps
  <1>3. disk[d].dir \/ (MakeDir(c) /\ d = Home(c))
    <2>1. CASE MakeDir(c)
      BY <1>1, <2>1, DirMade
    <2>2. CASE Owns(c)
      <3>1. disk[Home(c)].dir
        BY <2>2 DEF DirsDistinct
      <3>2. d # Home(c) => disk'[d] = disk[d] \/ MakeDir(c)
        BY <1>1, <1>2 DEF DiskStep, WritePort
      <3> QED BY <2>1, <3>1, <3>2
    <2>3. CASE ~MakeDir(c) /\ ~Owns(c)
      BY <1>2, <2>3 DEF DiskStep
    <2> QED BY <2>1, <2>2, <2>3
  <1>4. CASE d.base = "lxc"
    <2>1. Records(d, v)
      BY <1>4 DEF Records
    <2>2. CASE MakeDir(c) /\ d = Home(c)
      <3>1. pc[c] = "mkdir" /\ name[c] \in Name /\ d.id = v
        BY <1>4, <2>1, <2>2 DEF MakeDir, TInv, Resolved, Records
      <3>2. req[c].mode = "pve" /\ vmid[c] = v
        BY <1>4, <2>2, <3>1 DEF Home, DirOf, NumbersApart
      <3>3. Past(c)' /\ Home(c)' = Home(c)
        BY <2>2, DirMade DEF MakeDir, Goto, TInv, TypeOK, Past, LockedPc
      <3> QED BY <2>2, <3>1, <3>2, <3>3 DEF Claims, PveMode
    <2> QED BY <1>3, <2>1, <2>2
  <1>5. CASE d.base # "lxc"
    <2>1. disk'[d].vmid = v
      BY <1>5 DEF Records
    <2>2. CASE MakeDir(c)
      <3>1. EmptyDir.vmid = None
        BY DEF EmptyDir
      <3> QED BY <1>1, <1>5, <2>1, <2>2, <3>1, DirMade DEF Records
    <2>3. CASE WriteVmid(c)
      <3>1. Owns(c) /\ req[c].mode \in PveMode
        BY <2>3 DEF WriteVmid, Owns, TryPc, Stages, PveMode
      <3>2. disk[Home(c)].dir /\ Home(c) \in DirKey
        BY <3>1, ClaimsTyped DEF DirsDistinct, Claims
      <3>3. d = Home(c) => vmid[c] = v
        BY <1>1, <2>1, <2>3 DEF WriteVmid, WriteFile, Files
      <3>4. d # Home(c) => disk'[d] = disk[d]
        BY <1>1, <2>3 DEF WriteVmid, WriteFile
      <3>5. Past(c)' /\ Home(c)' = Home(c)
        BY <2>3, PastKept DEF WriteVmid, Past, LockedPc
      <3> QED BY <1>5, <2>1, <3>1, <3>2, <3>3, <3>4, <3>5 DEF Claims, Records
    <2>4. CASE ~MakeDir(c) /\ ~WriteVmid(c)
      <3>1. disk'[d].vmid \in {disk[d].vmid, None}
        <4>1. CASE RejectSeed(c) \/ RunCleanup(c)
          <5>1. disk' = disk \/ disk' = [disk EXCEPT ![Home(c)] = NoDir]
            BY <4>1 DEF RejectSeed, RunCleanup, UndoEffect, host
          <5> QED BY <1>1, <5>1 DEF NoDir
        <4>2. CASE MakeState(c) \/ WriteImage(c) \/ WriteMode(c) \/ WriteName(c) \/ WritePort(c)
          BY <1>1, <4>2 DEF MakeState, WriteImage, WriteMode, WriteName, WritePort,
             WriteFile, Files
        <4>3. CASE ~(\/ RejectSeed(c) \/ RunCleanup(c) \/ MakeState(c) \/ WriteImage(c)
                     \/ WriteMode(c) \/ WriteName(c) \/ WritePort(c))
          BY <2>4, <4>3 DEF host, Step, CreateStep, Interrupt, Crash, Goto, Register, WriteFile, AfterName,
         Acquire, GenerateName, TakeName, TakeVmid, MakeDir, Refuse, RejectSeed,
         EnterTry, PinImage, TestState, MakeState, WriteImage, WriteMode,
         WriteName, PickPort, WritePort, WriteWrapper, WriteVmid, WriteConf,
         AddUndo, RegisterStop, StartGuest, Fail, RunCleanup, Reraise, AfterPort,
         AfterConf
        <4> QED BY <4>1, <4>2, <4>3
      <3> QED BY <1>1, <1>3, <1>5, <2>1, <2>4, <3>1 DEF Records
    <2> QED BY <2>2, <2>3, <2>4
  <1> QED BY <1>4, <1>5

LEMMA RivalHomeKept ==
  ASSUME TInv, NEW c \in Creator, Step(c), rivals \subseteq Creator, rivals \subseteq rivals',
         NEW d, RivalHome(d)
  PROVE  RivalHome(d)'
  <1>1. PICK p \in rivals : Past(p) /\ d = Home(p)
    BY DEF RivalHome
  <1>2. Past(p)' /\ Home(p)' = Home(p)
    BY <1>1, PastKept
  <1> QED BY <1>1, <1>2 DEF RivalHome

\* What a create and its VMID have to do with the rest does not change by others.
LEMMA StepApart ==
  ASSUME NumbersApart, Core, Apart, NEW c \in Creator, Step(c),
         rivals' = rivals \cup {p \in Creator : Rival(p)'}
  PROVE  Apart'
  <1> USE DEF Core, SInv
  <1>1. /\ RivalsKnown' /\ rivals \subseteq rivals' /\ rivals \subseteq Creator
        /\ \A p \in Creator : Rival(p)' => p \in rivals'
    BY DEF Apart, RivalsKnown
  <1>2. \A d : RivalHome(d) => RivalHome(d)'
    BY <1>1, RivalHomeKept
  <1>3. ASSUME NEW d \in Existing', NEW v \in Vmid, Records(d, v)'
        PROVE  \/ d \in Existing /\ Records(d, v)
               \/ d = Home(c) /\ Claims(c) /\ vmid[c] = v /\ Past(c)' /\ Home(c)' = Home(c)
    BY <1>3, RecordsGrow DEF Existing
  <1>4. VmidApart'
    <2> SUFFICES ASSUME NEW p \in Creator, NEW q \in Creator, p # q, Claims(p)', Claims(q)',
                        vmid'[p] = vmid'[q]
                 PROVE  p \in rivals'
      BY DEF VmidApart
    <2>1. CASE p = c /\ TakeVmid(c)
      <3>1. Claims(q) /\ vmid'[q] = vmid[q]
        BY <2>1, ClaimsKept
      <3> QED BY <1>1, <2>1, <3>1, Takes
    <2>2. CASE q = c /\ TakeVmid(c)
      <3>1. Claims(p) /\ vmid'[p] = vmid[p]
        BY <2>2, ClaimsKept
      <3> QED BY <1>1, <2>2, <3>1, Takes
    <2>3. CASE ~(p = c /\ TakeVmid(c)) /\ ~(q = c /\ TakeVmid(c))
      BY <1>1, <2>3, ClaimsKept DEF Apart, VmidApart
    <2> QED BY <2>1, <2>2, <2>3
  <1>5. RecordedApart'
    <2> SUFFICES ASSUME NEW p \in Creator, Claims(p)', NEW d \in Existing', d # Home(p)',
                        Records(d, vmid[p])'
                 PROVE  p \in rivals' /\ RivalHome(d)'
      BY DEF RecordedApart
    <2>1. CASE p = c /\ TakeVmid(c)
      <3>1. d \in Existing /\ Records(d, vmid'[c])
        BY <2>1, Takes DEF Existing, Records
      <3> QED BY <2>1, <3>1, Takes
    <2>2. CASE ~(p = c /\ TakeVmid(c))
      <3>1. Claims(p) /\ vmid'[p] = vmid[p] /\ Home(p)' = Home(p) /\ vmid[p] \in Vmid
        BY <2>2, ClaimsKept, ClaimsTyped
      <3>2. PICK v \in Vmid : v = vmid[p]
        BY <3>1
      <3>3. CASE d \in Existing /\ Records(d, v)
        BY <1>1, <1>2, <3>2, <3>1, <3>3 DEF Apart, RecordedApart
      <3>4. CASE /\ d = Home(c) /\ Claims(c) /\ vmid[c] = v
                 /\ Past(c)' /\ Home(c)' = Home(c)
        <4>1. p # c
          BY <3>1, <3>4
        <4>2. p \in rivals /\ c \in rivals
          BY <3>2, <3>1, <3>4, <4>1 DEF Apart, VmidApart
        <4> QED BY <1>1, <3>4, <4>2 DEF RivalHome
      <3>5. Records(d, v)'
        BY <3>2, <3>1 DEF Records
      <3> QED BY <1>3, <3>1, <3>3, <3>4, <3>5
    <2> QED BY <2>1, <2>2
  <1>6. RecordersApart'
    <2> SUFFICES ASSUME NEW d \in Existing', NEW e \in Existing', NEW v \in Vmid, d # e,
                        Records(d, v)', Records(e, v)'
                 PROVE  RivalHome(d)'
      BY DEF RecordersApart
    <2> DEFINE New(f) == /\ f = Home(c) /\ Claims(c) /\ vmid[c] = v
                         /\ Past(c)' /\ Home(c)' = Home(c)
    <2>1. /\ (d \in Existing /\ Records(d, v)) \/ New(d)
          /\ (e \in Existing /\ Records(e, v)) \/ New(e)
      BY <1>3
    <2>2. CASE ~New(d) /\ ~New(e)
      BY <1>2, <2>1, <2>2 DEF Apart, RecordersApart
    <2>3. CASE New(d) /\ ~New(e)
      <3>1. c \in rivals
        BY <2>1, <2>3 DEF Apart, RecordedApart
      <3> QED BY <1>1, <2>3, <3>1 DEF RivalHome
    <2>4. CASE New(e) /\ ~New(d)
      BY <1>2, <2>1, <2>4 DEF Apart, RecordedApart
    <2>5. ~(New(d) /\ New(e))
      OBVIOUS
    <2> QED BY <2>2, <2>3, <2>4, <2>5
  <1> QED BY <1>1, <1>4, <1>5, <1>6 DEF Apart

-------------------------------------------------------------------------------
(* What the configs at a VMID name. *)

\* The instance that has been given it, or is recorded with it.
ClaimConf ==
  \A p \in Creator : Claims(p) => \A k \in ConfKey : k.id = vmid[p] =>
    conf[k] \in {None, Foreign, Home(p)} \/ RivalHome(conf[k])

RecordConf ==
  \A d \in Existing : \A v \in Vmid : Records(d, v) => \A k \in ConfKey : k.id = v =>
    conf[k] \in {None, Foreign, d} \/ RivalHome(conf[k])

Confs == ClaimConf /\ RecordConf

\* An adopt that is to write its config: nobody else has the VMID, the instance
\* is as it was read, and there is nothing to overwrite.
Aimed ==
  \A a \in Adopter : apc[a] = "conf" =>
    /\ \A p \in Creator : Claims(p) /\ vmid[p] = number[a] /\ Home(p) # ward[a] =>
         p \in rivals /\ RivalHome(ward[a])
    /\ \A d \in Existing : d # ward[a] /\ Records(d, number[a]) => RivalHome(ward[a])
    /\ \A p \in Creator : pc[p] \in InPlay /\ Home(p) = ward[a] =>
         req[p].mode = form[a] /\ vmid[p] = number[a]
    /\ \A k \in ConfKey : k.id = number[a] =>
         \/ conf[k] \in {None, ward[a]}
         \/ conf[k] = Foreign /\ a \in overtaken
         \/ RivalHome(conf[k])

\* Somebody else's config at its VMID came after it had looked.
Seen ==
  \A a \in Adopter : apc[a] \in {"wrapper", "conf"} =>
    \A k \in ConfKey : k.id = number[a] /\ conf[k] = Foreign => a \in overtaken

\* A create writes its own config, or takes one away.
LEMMA ConfSteps ==
  ASSUME Core, NEW c \in Creator, Step(c), NEW k \in ConfKey
  PROVE  \/ conf'[k] \in {conf[k], None}
         \/ /\ Claims(c) /\ Past(c) /\ Owns(c) /\ ~TakeVmid(c)
            /\ k = Conf(c) /\ conf'[k] = Home(c) /\ Home(c)' = Home(c)
  <1> USE DEF Core, SInv
  <1>1. CASE WriteConf(c)
    <2>1. /\ pc[c] = "conf" /\ req[c].mode \in PveMode /\ Owns(c)
          /\ conf' = [conf EXCEPT ![Conf(c)] = Home(c)]
      BY <1>1, RollersOwn DEF WriteConf, Stages, ConfPc
    <2>2. Past(c) /\ Claims(c) /\ ~TakeVmid(c)
      BY <2>1 DEF Past, LockedPc, Claims, TakeVmid
    <2>3. Home(c)' = Home(c)
      BY <2>2, PastKept
    <2> QED BY <2>1, <2>2, <2>3 DEF TInv, TypeOK, HostTypeOK
  <1>2. CASE ~WriteConf(c)
    <2>1. conf' = conf \/ conf' = [conf EXCEPT ![Conf(c)] = None]
      BY <1>2 DEF UndoEffect, host, Step, CreateStep, Interrupt, Crash, Goto, Register, WriteFile, AfterName,
         Acquire, GenerateName, TakeName, TakeVmid, MakeDir, Refuse, RejectSeed,
         EnterTry, PinImage, TestState, MakeState, WriteImage, WriteMode,
         WriteName, PickPort, WritePort, WriteWrapper, WriteVmid, WriteConf,
         AddUndo, RegisterStop, StartGuest, Fail, RunCleanup, Reraise, AfterPort,
         AfterConf
    <2> QED BY <2>1 DEF TInv, TypeOK, HostTypeOK
  <1> QED BY <1>1, <1>2

\* Where kento writes a config there is a directory to name.
LEMMA HomesAreFiles ==
  ASSUME TInv, NEW p \in Creator, Claims(p) PROVE Home(p) \notin {None, Foreign}
  BY ClaimsTyped, ContentAssumption

LEMMA StepConfs ==
  ASSUME NumbersApart, Core, Apart, Confs, NEW c \in Creator, Step(c),
         rivals' = rivals \cup {p \in Creator : Rival(p)'}
  PROVE  Confs'
  <1> USE DEF Core, SInv
  <1>1. rivals \subseteq rivals' /\ rivals \subseteq Creator
    BY DEF Apart, RivalsKnown
  <1>2. \A d : RivalHome(d) => RivalHome(d)'
    BY <1>1, RivalHomeKept
  <1>3. c \in rivals /\ Past(c) => RivalHome(Home(c))'
    <2> SUFFICES ASSUME c \in rivals, Past(c) PROVE RivalHome(Home(c))'
      OBVIOUS
    <2>1. RivalHome(Home(c))
      BY DEF RivalHome
    <2>2. PICK h : h = Home(c)
      OBVIOUS
    <2>3. RivalHome(h)' /\ Home(c)' = h
      BY <1>2, <2>1, <2>2, PastKept
    <2> QED BY <2>3 DEF RivalHome
  <1>4. ClaimConf'
    <2> SUFFICES ASSUME NEW p \in Creator, Claims(p)', NEW k \in ConfKey, k.id = vmid'[p]
                 PROVE  conf'[k] \in {None, Foreign, Home(p)'} \/ RivalHome(conf[k])'
      BY DEF ClaimConf
    <2>1. CASE p = c /\ TakeVmid(c)
      BY <2>1, Takes
    <2>2. CASE ~(p = c /\ TakeVmid(c))
      <3>1. Claims(p) /\ vmid'[p] = vmid[p] /\ Home(p)' = Home(p)
        BY <2>2, ClaimsKept
      <3>2. conf[k] \in {None, Foreign, Home(p)} \/ RivalHome(conf[k])
        BY <3>1 DEF Confs, ClaimConf
      <3>3. CASE conf'[k] \in {conf[k], None}
        <4>1. PICK h : h = conf[k]
          OBVIOUS
        <4>2. RivalHome(h) => RivalHome(h)'
          BY <1>2
        <4> QED BY <3>1, <3>2, <3>3, <4>1, <4>2 DEF RivalHome
      <3>4. CASE /\ Claims(c) /\ Past(c)
                 /\ k = Conf(c) /\ conf'[k] = Home(c) /\ Home(c)' = Home(c)
        <4>1. vmid[c] = vmid[p]
          BY <3>1, <3>4, ClaimsTyped
        <4>2. p # c => c \in rivals
          BY <3>1, <3>4, <4>1 DEF Apart, VmidApart
        <4>3. c \in rivals => RivalHome(conf[k])'
          BY <1>3, <3>4 DEF RivalHome
        <4> QED BY <3>1, <3>4, <4>2, <4>3
      <3> QED BY <3>3, <3>4, ConfSteps
    <2> QED BY <2>1, <2>2
  <1>5. RecordConf'
    <2> SUFFICES ASSUME NEW d \in Existing', NEW v \in Vmid, Records(d, v)',
                        NEW k \in ConfKey, k.id = v
                 PROVE  conf'[k] \in {None, Foreign, d} \/ RivalHome(conf[k])'
      BY DEF RecordConf
    <2>1. \/ d \in Existing /\ Records(d, v)
          \/ d = Home(c) /\ Claims(c) /\ vmid[c] = v
      BY RecordsGrow DEF Existing
    <2>2. conf[k] \in {None, Foreign, d} \/ RivalHome(conf[k])
      BY <2>1 DEF Confs, ClaimConf, RecordConf
    <2>3. CASE conf'[k] \in {conf[k], None}
      <3>1. PICK h : h = conf[k]
        OBVIOUS
      <3>2. RivalHome(h) => RivalHome(h)'
        BY <1>2
      <3> QED BY <2>2, <2>3, <3>1, <3>2 DEF RivalHome
    <2>4. CASE /\ Claims(c) /\ Past(c)
               /\ k = Conf(c) /\ conf'[k] = Home(c) /\ Home(c)' = Home(c)
      <3>1. vmid[c] = v
        BY <2>4, ClaimsTyped
      <3>2. d # Home(c) => c \in rivals
        BY <2>1, <2>4, <3>1 DEF Apart, RecordedApart
      <3>3. c \in rivals => RivalHome(conf[k])'
        BY <1>3, <2>4 DEF RivalHome
      <3> QED BY <2>4, <3>2, <3>3
    <2> QED BY <2>3, <2>4, ConfSteps
  <1> QED BY <1>4, <1>5 DEF Confs

\* A create neither comes by a VMID nor makes a directory while an adopt has the
\* lock: what the adopt is about to write stays right.
LEMMA StepAimed ==
  ASSUME NumbersApart, TypedInv, Apart, Aimed, NEW c \in Creator, Step(c),
         rivals' = rivals \cup {p \in Creator : Rival(p)'},
         UNCHANGED <<apc, ward, form, number, overtaken>>
  PROVE  Aimed'
  <1> USE DEF TypedInv, Core, SInv
  <1> SUFFICES ASSUME NEW a \in Adopter, apc[a] = "conf"
      PROVE  /\ \A p \in Creator : Claims(p)' /\ vmid'[p] = number[a] /\ Home(p)' # ward[a] =>
                  p \in rivals' /\ RivalHome(ward[a])'
             /\ \A d \in Existing' : d # ward[a] /\ Records(d, number[a])' => RivalHome(ward[a])'
             /\ \A p \in Creator : pc'[p] \in InPlay /\ Home(p)' = ward[a] =>
                  req'[p].mode = form[a] /\ vmid'[p] = number[a]
             /\ \A k \in ConfKey : k.id = number[a] =>
                  \/ conf'[k] \in {None, ward[a]}
                  \/ conf'[k] = Foreign /\ a \in overtaken
                  \/ RivalHome(conf[k])'
    BY DEF Aimed, RivalHome, Records
  <1>1. /\ rivals \subseteq rivals' /\ rivals \subseteq Creator
        /\ number[a] \in Vmid /\ ward[a] \in DirKey
    BY DEF Apart, RivalsKnown, Warded, ALocked
  <1>2. \A d : RivalHome(d) => RivalHome(d)'
    BY <1>1, RivalHomeKept
  <1>3. pc[c] \notin LockedPc
    BY AdoptAssumption DEF AdoptTypeOK, ALocked, LockHeld
  <1>4. ~TakeVmid(c) /\ ~MakeDir(c)
    BY <1>3 DEF TakeVmid, MakeDir, LockedPc
  <1>5. PICK w \in DirKey : w = ward[a]
    BY <1>1
  <1>6. PICK v \in Vmid : v = number[a]
    BY <1>1
  <1>7. RivalHome(w) => RivalHome(w)'
    BY <1>2
  <1>8. ASSUME NEW p \in Creator, Claims(p)', vmid'[p] = v, Home(p)' # w
        PROVE  p \in rivals' /\ RivalHome(w)'
    <2>1. Claims(p) /\ vmid'[p] = vmid[p] /\ Home(p)' = Home(p)
      BY <1>4, <1>8, ClaimsKept
    <2> QED BY <1>1, <1>5, <1>6, <1>7, <1>8, <2>1 DEF Aimed
  <1>9. ASSUME NEW d \in Existing', d # w, Records(d, v)' PROVE RivalHome(w)'
    <2>1. \/ d \in Existing /\ Records(d, v)
          \/ d = Home(c) /\ Claims(c) /\ vmid[c] = v
      BY <1>9, RecordsGrow DEF Existing
    <2> QED BY <1>5, <1>6, <1>7, <1>9, <2>1 DEF Aimed
  <1>10. ASSUME NEW p \in Creator, pc'[p] \in InPlay, Home(p)' = w
         PROVE  req'[p].mode = form[a] /\ vmid'[p] = number[a]
    <2>1. pc[p] \in InPlay
      <3>1. CASE p = c
        BY <1>4, <1>10, <3>1, EntersByMkdir
      <3>2. CASE p # c
        BY <1>10, <3>2, OthersKeep
      <3> QED BY <3>1, <3>2
    <2>2. Past(p)
      BY <2>1 DEF InPlay, Past, LockedPc, TryPc, GapPc, PortPc
    <2>3. Home(p)' = Home(p) /\ vmid'[p] = vmid[p] /\ req' = req
      BY <2>2, PastKept
    <2> QED BY <1>5, <1>10, <2>1, <2>3 DEF Aimed
  <1>11. ASSUME NEW k \in ConfKey, k.id = v
         PROVE  \/ conf'[k] \in {None, w}
                \/ conf'[k] = Foreign /\ a \in overtaken
                \/ RivalHome(conf[k])'
    <2>1. \/ conf[k] \in {None, w}
          \/ conf[k] = Foreign /\ a \in overtaken
          \/ RivalHome(conf[k])
      BY <1>5, <1>6, <1>11 DEF Aimed
    <2>2. CASE conf'[k] \in {conf[k], None}
      <3>1. PICK h : h = conf[k]
        OBVIOUS
      <3>2. RivalHome(h) => RivalHome(h)'
        BY <1>2
      <3> QED BY <2>1, <2>2, <3>1, <3>2 DEF RivalHome
    <2>3. CASE /\ Claims(c) /\ Past(c)
               /\ k = Conf(c) /\ conf'[k] = Home(c) /\ Home(c)' = Home(c)
      <3>1. vmid[c] = v
        BY <1>11, <2>3, ClaimsTyped
      <3>2. Home(c) # w => RivalHome(Home(c))
        BY <1>5, <1>6, <2>3, <3>1 DEF Aimed, RivalHome
      <3>3. PICK h : h = Home(c)
        OBVIOUS
      <3>4. RivalHome(h) => RivalHome(h)'
        BY <1>2
      <3> QED BY <2>3, <3>2, <3>3, <3>4 DEF RivalHome
    <2> QED BY <2>2, <2>3, ConfSteps
  <1>12. RivalHome(w)' => RivalHome(ward[a])'
    BY <1>5 DEF RivalHome
  <1>13. \A d : Records(d, number[a])' => Records(d, v)'
    BY <1>6 DEF Records
  <1> QED BY <1>5, <1>6, <1>8, <1>9, <1>10, <1>11, <1>12, <1>13

LEMMA StepSeen ==
  ASSUME TypedInv, Seen, NEW c \in Creator, Step(c), UNCHANGED <<apc, number, overtaken>>
  PROVE  Seen'
  <1>1. ASSUME NEW k \in ConfKey, conf'[k] = Foreign PROVE conf[k] = Foreign
    BY <1>1, ConfSteps, HomesAreFiles, ContentAssumption DEF TypedInv, Core, SInv
  <1> QED BY <1>1 DEF Seen

\* Beside the creates, nothing changes but locks, wrappers and configs.
LEMMA BesideSame ==
  ASSUME Beside, rivals' = rivals
  PROVE  /\ disk' = disk /\ Existing' = Existing /\ req' = req /\ vmid' = vmid /\ pc' = pc
         /\ \A p \in Creator : /\ Home(p)' = Home(p) /\ Conf(p)' = Conf(p)
                               /\ Claims(p)' <=> Claims(p)
                               /\ Owns(p)' <=> Owns(p)
         /\ \A d, v : Records(d, v)' <=> Records(d, v)
         /\ \A d : RivalHome(d)' <=> RivalHome(d)
  <1>1. UNCHANGED <<disk, pc, req, name, vmid, undos>>
    BY DEF Beside, local
  <1>2. \A p \in Creator : Home(p)' = Home(p) /\ Conf(p)' = Conf(p) /\ (Owns(p)' <=> Owns(p))
    BY <1>1 DEF Home, Conf, Owns
  <1>3. \A d : RivalHome(d)' <=> RivalHome(d)
    BY <1>1 DEF RivalHome, Past, Home
  <1> QED BY <1>1, <1>2, <1>3 DEF Existing, Claims, Records

LEMMA BesideApart == ASSUME Apart, Beside, rivals' = rivals PROVE Apart'
  <1>1. RivalsKnown'
    BY DEF Apart, RivalsKnown, Rival, InProgress, Beside, local
  <1>2. VmidApart' /\ RecordedApart'
    BY BesideSame DEF Apart, VmidApart, RecordedApart
  <1>3. RecordersApart'
    BY BesideSame DEF Apart, RecordersApart
  <1> QED BY <1>1, <1>2, <1>3 DEF Apart

LEMMA AdoptsConfs ==
  ASSUME TypedInv, Confs, Aimed, NEW a \in Adopter, AdoptStep(a), Beside, rivals' = rivals
  PROVE  Confs'
  <1>1. \/ conf' = conf
        \/ /\ apc[a] = "conf" /\ number[a] \in Vmid
           /\ conf' = [conf EXCEPT ![ConfOf(form[a], number[a])] = ward[a]]
    BY AdopterWrites DEF TypedInv, Warded, ALocked, EmitConf
  <1>2. ConfOf(form[a], number[a]).id = number[a]
    BY DEF ConfOf
  <1>3. \A k \in ConfKey : conf'[k] = conf[k]
            \/ (apc[a] = "conf" /\ k.id = number[a] /\ conf'[k] = ward[a])
    BY <1>1, <1>2 DEF TypedInv, Core, SInv, TInv, TypeOK, HostTypeOK
  <1>4. ClaimConf'
    <2> SUFFICES ASSUME NEW p \in Creator, Claims(p), NEW k \in ConfKey, k.id = vmid[p]
                 PROVE  conf'[k] \in {None, Foreign, Home(p)} \/ RivalHome(conf'[k])
      BY BesideSame DEF ClaimConf, RivalHome
    <2> QED BY <1>3 DEF Confs, ClaimConf, Aimed
  <1>5. RecordConf'
    <2> SUFFICES ASSUME NEW d \in Existing, NEW v \in Vmid, Records(d, v),
                        NEW k \in ConfKey, k.id = v
                 PROVE  conf'[k] \in {None, Foreign, d} \/ RivalHome(conf'[k])
      BY BesideSame DEF RecordConf, RivalHome
    <2> QED BY <1>3 DEF Confs, RecordConf, Aimed
  <1> QED BY <1>4, <1>5 DEF Confs

\* The VMID an adopt writes at is the one its instance is recorded with, and the
\* create that has made the instance, if it is there, was given it.
LEMMA ReadsWard ==
  ASSUME NumbersApart, TypedInv, NEW a \in Adopter, EmitWrapper(a)
  PROVE  /\ ward[a] \in Existing /\ number'[a] \in Vmid /\ Records(ward[a], number'[a])
         /\ \A p \in Creator : pc[p] \in InPlay /\ Home(p) = ward[a] =>
              req[p].mode = form[a] /\ vmid[p] = number'[a]
  <1> USE DEF TypedInv, Core, SInv
  <1>1. /\ ward[a] \in DirKey /\ form[a] \in PveMode
        /\ ward[a].base = BaseOf(form[a]) /\ disk[ward[a]].dir
    BY DEF EmitWrapper, Warded, ALocked
  <1>2. PICK v \in Vmid : /\ v = VmidOf(ward[a], form[a]) /\ v # None
                          /\ number' = [number EXCEPT ![a] = v]
    <2>1. number'[a] \in Vmid
      BY AdopterStep DEF AdoptStep, EmitWrapper, Advance, ALocked, AdoptTypeOK
    <2> QED BY <2>1 DEF EmitWrapper, AdoptTypeOK
  <1>3. number'[a] = v
    BY <1>2 DEF AdoptTypeOK
  <1>4. Records(ward[a], v)
    BY <1>1, <1>2 DEF Records, VmidOf, PveMode, BaseOf
  <1>5. ASSUME NEW p \in Creator, pc[p] \in InPlay, Home(p) = ward[a]
        PROVE  req[p].mode = form[a] /\ vmid[p] = v
    <2>1. name[p] \in Name
      BY <1>5 DEF TInv, Resolved, InPlay, TryPc, GapPc, PortPc
    <2>2. CASE form[a] = "pve"
      <3>1. ward[a].base = "lxc" /\ ward[a].id = v
        BY <1>1, <1>2, <2>2 DEF VmidOf, BaseOf
      <3>2. req[p].mode \in Mode
        BY DEF TypeOK, TInv, Request
      <3> QED BY <1>5, <2>1, <2>2, <3>1, <3>2 DEF Home, DirOf, BaseOf, NumbersApart, Mode
    <2>3. CASE form[a] # "pve"
      <3>1. form[a] = "pve-vm" /\ disk[ward[a]].vmid = v
        BY <1>1, <1>2, <2>3 DEF VmidOf, PveMode
      <3>2. Filed(p).vmid = v
        BY <1>5, <3>1 DEF FilesKept
      <3> QED BY <1>2, <3>1, <3>2, FiledFields
    <2> QED BY <2>2, <2>3
  <1> QED BY <1>1, <1>3, <1>4, <1>5 DEF Existing

LEMMA AdoptsAimed ==
  ASSUME NumbersApart, TypedInv, Apart, Confs, Aimed, Seen, Adopts, Beside
  PROVE  Aimed'
  <1>1. PICK a \in Adopter : AdoptStep(a)
    BY DEF Adopts
  <1>2. /\ rivals' = rivals /\ overtaken \subseteq overtaken'
        /\ apc'[a] = "conf" /\ number'[a] # number[a] => a \in overtaken'
    BY DEF Adopts
  <1> SUFFICES ASSUME NEW b \in Adopter, apc'[b] = "conf"
      PROVE  /\ \A p \in Creator : Claims(p) /\ vmid[p] = number'[b] /\ Home(p) # ward'[b] =>
                  p \in rivals /\ RivalHome(ward'[b])
             /\ \A d \in Existing : d # ward'[b] /\ Records(d, number'[b]) => RivalHome(ward'[b])
             /\ \A p \in Creator : pc[p] \in InPlay /\ Home(p) = ward'[b] =>
                  req[p].mode = form'[b] /\ vmid[p] = number'[b]
             /\ \A k \in ConfKey : k.id = number'[b] =>
                  \/ conf'[k] \in {None, ward'[b]}
                  \/ conf'[k] = Foreign /\ b \in overtaken'
                  \/ RivalHome(conf'[k])
    <2>1. \A d : RivalHome(d)' <=> RivalHome(d)
      BY <1>2, BesideSame
    <2>2. ASSUME NEW e \in Adopter PROVE RivalHome(ward[e])' <=> RivalHome(ward'[e])
      <3>1. PICK w : w = ward'[e]
        OBVIOUS
      <3>2. RivalHome(w)' <=> RivalHome(w)
        BY <2>1
      <3> QED BY <3>1, <3>2 DEF RivalHome
    <2>3. ASSUME NEW k \in ConfKey PROVE RivalHome(conf[k])' <=> RivalHome(conf'[k])
      <3>1. PICK w : w = conf'[k]
        OBVIOUS
      <3>2. RivalHome(w)' <=> RivalHome(w)
        BY <2>1
      <3> QED BY <3>1, <3>2 DEF RivalHome
    <2>4. ASSUME NEW d, NEW e \in Adopter PROVE Records(d, number[e])' <=> Records(d, number'[e])
      BY <1>2, BesideSame DEF Records
    <2> QED BY <1>2, <2>2, <2>3, <2>4, BesideSame DEF Aimed
  <1>3. lock' = b
    BY <1>1, AdopterStep DEF ALocked
  <1>4. CASE EmitWrapper(a)
    <2>1. b = a
      BY <1>1, <1>3, <1>4, AdopterStep
      DEF EmitWrapper, TypedInv, AdoptTypeOK, ALocked
    <2>2. conf' = conf /\ ward' = ward /\ form' = form /\ apc[a] = "wrapper"
      BY <1>4 DEF EmitWrapper
    <2>3. /\ ward[a] \in Existing /\ number'[a] \in Vmid /\ Records(ward[a], number'[a])
          /\ \A p \in Creator : pc[p] \in InPlay /\ Home(p) = ward[a] =>
               req[p].mode = form[a] /\ vmid[p] = number'[a]
      BY <1>4, ReadsWard
    <2>4. \A p \in Creator : Claims(p) /\ vmid[p] = number'[b] /\ Home(p) # ward'[b] =>
            p \in rivals /\ RivalHome(ward'[b])
      BY <2>1, <2>2, <2>3 DEF Apart, RecordedApart
    <2>5. \A d \in Existing : d # ward'[b] /\ Records(d, number'[b]) => RivalHome(ward'[b])
      BY <2>1, <2>2, <2>3 DEF Apart, RecordersApart
    <2>6. ASSUME NEW k \in ConfKey, k.id = number'[b]
          PROVE  \/ conf'[k] \in {None, ward'[b]}
                 \/ conf'[k] = Foreign /\ b \in overtaken'
                 \/ RivalHome(conf'[k])
      <3>1. conf[k] \in {None, Foreign, ward[a]} \/ RivalHome(conf[k])
        BY <2>1, <2>3, <2>6 DEF Confs, RecordConf
      <3>2. conf[k] = Foreign => a \in overtaken'
        <4>1. CASE number'[a] = number[a]
          BY <1>2, <2>1, <2>2, <2>6, <4>1 DEF Seen
        <4>2. CASE number'[a] # number[a]
          BY <1>2, <2>1, <4>2
        <4> QED BY <4>1, <4>2
      <3> QED BY <2>1, <2>2, <3>1, <3>2
    <2> QED BY <2>1, <2>2, <2>3, <2>4, <2>5, <2>6
  <1>5. CASE ~EmitWrapper(a)
    <2>1. b # a
      BY <1>1, <1>5 DEF AdoptStep, ResolveOrphan, Unadoptable, TakeLock, CheckOrphan,
         EmitConf, AdoptFails, Advance, TypedInv, AdoptTypeOK
    <2>2. /\ apc[b] = "conf" /\ ward'[b] = ward[b] /\ form'[b] = form[b]
          /\ number'[b] = number[b]
      BY <1>1, <2>1, AdopterStep
    <2>3. ~EmitConf(a)
      BY <2>1, <2>2 DEF EmitConf, TypedInv, AdoptTypeOK, ALocked
    <2>4. conf' = conf
      BY <1>1, <2>3, AdopterWrites
    <2> QED BY <1>2, <2>2, <2>4 DEF Aimed
  <1> QED BY <1>4, <1>5

LEMMA AdoptsSeen ==
  ASSUME TypedInv, Seen, Adopts
  PROVE  Seen'
  <1>1. PICK a \in Adopter : AdoptStep(a)
    BY DEF Adopts
  <1>2. /\ overtaken \subseteq overtaken'
        /\ apc'[a] = "conf" /\ number'[a] # number[a] => a \in overtaken'
    BY DEF Adopts
  <1> SUFFICES ASSUME NEW b \in Adopter, apc'[b] \in {"wrapper", "conf"},
                      NEW k \in ConfKey, k.id = number'[b], conf'[k] = Foreign
               PROVE  b \in overtaken'
    BY DEF Seen
  <1>3. conf[k] = Foreign
    <2>1. EmitConf(a) => ward[a] # Foreign
      BY ContentAssumption DEF EmitConf, TypedInv, Warded, ALocked
    <2> QED BY <1>1, <2>1, AdopterWrites DEF TypedInv, Core, SInv, TInv, TypeOK, HostTypeOK
  <1>4. CASE b # a
    BY <1>1, <1>2, <1>3, <1>4, AdopterStep DEF Seen
  <1>5. CASE b = a
    <2>1. CASE CheckOrphan(a)
      <3>1. Free(number[a]) /\ number' = number
        BY <1>5, <2>1 DEF CheckOrphan, Advance, TypedInv, AdoptTypeOK
      <3> QED BY <1>3, <1>5, <3>1, ContentAssumption DEF Free
    <2>2. CASE EmitWrapper(a)
      <3>1. apc[a] = "wrapper" /\ apc'[a] = "conf"
        BY <2>2 DEF EmitWrapper, Advance, TypedInv, AdoptTypeOK
      <3> QED BY <1>2, <1>3, <1>5, <3>1 DEF Seen
    <2> QED BY <1>1, <1>5, <2>1, <2>2 DEF AdoptStep, ResolveOrphan, Unadoptable, TakeLock,
         EmitConf, AdoptFails, Advance, TypedInv, AdoptTypeOK
  <1> QED BY <1>4, <1>5

LEMMA ProxmoxConfs ==
  ASSUME TypedInv, Confs, Aimed, Seen, ProxmoxRemoves \/ ProxmoxTakes, Beside
  PROVE  Confs' /\ Aimed' /\ Seen'
  <1>1. PICK c \in ConfKey :
          \/ /\ conf' = [conf EXCEPT ![c] = None] /\ overtaken' = overtaken
          \/ /\ conf' = [conf EXCEPT ![c] = Foreign]
             /\ overtaken' = overtaken \cup
                  {a \in Adopter : apc[a] \in {"wrapper", "conf"} /\ number[a] = c.id}
    BY DEF ProxmoxRemoves, ProxmoxTakes
  <1>2. /\ UNCHANGED <<apc, ward, form, number, rivals>>
        /\ conf \in [ConfKey -> DirKey \cup {None, Foreign}]
    BY DEF ProxmoxRemoves, ProxmoxTakes, adoption, TypedInv, Core, SInv, TInv, TypeOK, HostTypeOK
  <1>3. /\ overtaken \subseteq overtaken'
        /\ \A k \in ConfKey : \/ conf'[k] \in {conf[k], None}
                              \/ /\ conf'[k] = Foreign
                                 /\ \A a \in Adopter : apc[a] \in {"wrapper", "conf"}
                                      /\ number[a] = k.id => a \in overtaken'
    BY <1>1, <1>2
  <1>4. \A k \in ConfKey : RivalHome(conf[k])' <=> RivalHome(conf'[k])
    <2> SUFFICES ASSUME NEW k \in ConfKey PROVE RivalHome(conf[k])' <=> RivalHome(conf'[k])
      OBVIOUS
    <2>1. PICK w : w = conf'[k]
      OBVIOUS
    <2>2. RivalHome(w)' <=> RivalHome(w)
      BY <1>2, BesideSame
    <2> QED BY <2>1, <2>2 DEF RivalHome
  <1>5. \A a \in Adopter : RivalHome(ward[a])' <=> RivalHome(ward[a])
    <2> SUFFICES ASSUME NEW a \in Adopter PROVE RivalHome(ward[a])' <=> RivalHome(ward[a])
      OBVIOUS
    <2>1. PICK w : w = ward[a]
      OBVIOUS
    <2>2. RivalHome(w)' <=> RivalHome(w)
      BY <1>2, BesideSame
    <2> QED BY <1>2, <2>1, <2>2 DEF RivalHome
  <1>6. \A d : \A a \in Adopter : Records(d, number[a])' <=> Records(d, number[a])
    BY <1>2 DEF Records, Beside
  <1>7. Confs'
    <2>1. ClaimConf'
      BY <1>2, <1>3, <1>4, BesideSame DEF Confs, ClaimConf
    <2>2. RecordConf'
      BY <1>2, <1>3, <1>4, BesideSame DEF Confs, RecordConf
    <2> QED BY <2>1, <2>2 DEF Confs
  <1>8. Aimed'
    BY <1>2, <1>3, <1>4, <1>5, <1>6, BesideSame DEF Aimed
  <1>9. Seen'
    BY <1>2, <1>3, ContentAssumption DEF Seen
  <1> QED BY <1>7, <1>8, <1>9

AInv == TypedInv /\ Apart /\ Confs /\ Aimed /\ Seen

LEMMA InitAInv == AdoptInit => AInv
  <1> SUFFICES ASSUME AdoptInit PROVE AInv
    OBVIOUS
  <1>1. /\ TypedInv /\ Init /\ HostInit
    BY InitTypedInv DEF AdoptInit, Init
  <1>2. \A d \in DirKey : disk[d].dir = FALSE
    BY <1>1 DEF HostInit, NoDir
  <1>3. \A p \in Creator : ~Claims(p)
    BY <1>1 DEF Init, Claims, Owns, TryPc, GapPc, PortPc
  <1>4. Apart
    BY <1>1, <1>2, <1>3
    DEF Apart, RivalsKnown, Rival, InProgress, VmidApart, RecordedApart, RecordersApart,
        Existing, AdoptInit, Init
  <1>5. Confs
    BY <1>2, <1>3 DEF Confs, ClaimConf, RecordConf, Existing
  <1>6. Aimed /\ Seen
    BY DEF AdoptInit, Aimed, Seen
  <1> QED BY <1>1, <1>4, <1>5, <1>6 DEF AInv

LEMMA StepAInv == ASSUME NumbersApart, AInv, [AdoptNext]_all PROVE AInv'
  <1> USE DEF AInv
  <1>1. TypedInv'
    BY StepTypedInv
  <1>2. CASE Creates
    <2>1. PICK c \in Creator : Step(c)
      BY <1>2 DEF Creates, Step
    <2>2. /\ rivals' = rivals \cup {p \in Creator : Rival(p)'}
          /\ UNCHANGED <<apc, ward, form, number, overtaken>>
      BY <1>2 DEF Creates, adoption
    <2>3. Apart' /\ Confs'
      BY <2>1, <2>2, StepApart, StepConfs DEF TypedInv
    <2> QED BY <1>1, <2>1, <2>2, <2>3, StepAimed, StepSeen
  <1>3. CASE Adopts
    <2>1. PICK a \in Adopter : AdoptStep(a)
      BY <1>3 DEF Adopts
    <2>2. Beside /\ rivals' = rivals
      BY <1>3, AdoptsBeside DEF Adopts
    <2> QED BY <1>1, <1>3, <2>1, <2>2, BesideApart, AdoptsConfs, AdoptsAimed, AdoptsSeen
  <1>4. CASE ProxmoxRemoves \/ ProxmoxTakes
    <2>1. Beside /\ rivals' = rivals
      BY <1>4, ProxmoxBeside DEF ProxmoxRemoves, ProxmoxTakes
    <2> QED BY <1>1, <1>4, <2>1, BesideApart, ProxmoxConfs
  <1>5. CASE UNCHANGED all
    <2>1. Beside /\ rivals' = rivals /\ UNCHANGED <<apc, ward, form, number, overtaken, conf>>
      BY <1>5 DEF all, vars, host, adoption, history, Beside, TypedInv, Core, SInv, TInv,
         TypeOK, HostTypeOK
    <2>2. Apart'
      BY <2>1, BesideApart
    <2>3. Confs'
      BY <2>1, BesideSame DEF Confs, ClaimConf, RecordConf, RivalHome
    <2>4. ASSUME NEW d PROVE RivalHome(d)' <=> RivalHome(d)
      BY <2>1, BesideSame
    <2>5. ASSUME NEW a \in Adopter PROVE RivalHome(ward[a])' <=> RivalHome(ward[a])
      <3>1. PICK w : w = ward[a]
        OBVIOUS
      <3> QED BY <2>1, <2>4, <3>1 DEF RivalHome
    <2>6. ASSUME NEW k \in ConfKey PROVE RivalHome(conf[k])' <=> RivalHome(conf[k])
      <3>1. PICK w : w = conf[k]
        OBVIOUS
      <3> QED BY <2>1, <2>4, <3>1 DEF RivalHome
    <2>7. \A d : \A a \in Adopter : Records(d, number[a])' <=> Records(d, number[a])
      BY <2>1 DEF Records, Beside
    <2>8. Aimed' /\ Seen'
      <3>1. Aimed'
        BY <2>1, <2>5, <2>6, <2>7, BesideSame DEF Aimed
      <3>2. Seen'
        BY <2>1 DEF Seen
      <3> QED BY <3>1, <3>2
    <2> QED BY <1>1, <2>2, <2>3, <2>8
  <1> QED BY <1>2, <1>3, <1>4, <1>5 DEF AdoptNext, AllStopped

\* An adopt never writes over, or beside, the config of another kento instance,
\* nor that of a guest Proxmox had made before the adopt looked
\* (reconcile.py:455-494).  Creates write their configs outside the lock the
\* adopt holds, and give back directories outside it: what protects the config
\* is that no create can come by a VMID that a directory records.  Creates that
\* did come by one VMID at once are excepted (CreateVmidRace).
THEOREM AdoptsClobberNothing == ASSUME NumbersApart PROVE AdoptSpec => AdoptClobbersNothing
  <1>1. AInv /\ [AdoptNext]_all =>
          [\A a \in Adopter : apc[a] = "conf" /\ apc'[a] = "done" =>
             \A c \in ConfKey : c.id = number[a] =>
               \/ conf[c] \in {None, ward[a]}
               \/ conf[c] = Foreign /\ a \in overtaken
               \/ \E p \in rivals : conf[c] = Home(p)]_all
    BY DEF AInv, Aimed, RivalHome
  <1>2. AInv /\ [AdoptNext]_all => AInv'
    BY StepAInv
  <1> QED BY <1>1, <1>2, InitAInv, PTL DEF AdoptSpec, AdoptClobbersNothing


-------------------------------------------------------------------------------
(* A healed instance stays whole. *)

\* Names tell layers apart, where they live outside the instance directories.
OutsideNamed == OutsideState => NamedInv

\* What a create has made besides its Proxmox config.
StatesKept == LayersKept /\ \A p \in Creator : UndoInPlace(p, "dir") /\ UndoInPlace(p, "state")

\* Creates that have come by one VMID at once excepted.
GuestsKept == \A p \in Creator \ rivals : req[p].mode \in PveMode =>
                UndoInPlace(p, "wrapper") /\ StopKept(p)

HealedKept == \A a \in Adopter : \A p \in healed[a] :
  pc[p] = "done" /\ p \notin rivals /\ req[p].mode \in PveMode /\ conf[Conf(p)] = Home(p)

WInv == AInv /\ OutsideNamed /\ StatesKept /\ GuestsKept /\ HealedKept

\* Who has shared its VMID with nobody has its guest alone.
LEMMA OutsidersApart ==
  ASSUME NumbersApart, Core, Apart, NEW p \in Creator \ rivals, req[p].mode \in PveMode
  PROVE  GuestApart(p)
  <1> SUFFICES ASSUME NEW q \in Creator, p # q, Owns(p), Owns(q), Guests(p) = Guests(q)
               PROVE  FALSE
    BY DEF GuestApart
  <1>1. Claims(p) /\ vmid[p] \in Vmid /\ Guests(p) = Conf(p) /\ Conf(p).id = vmid[p]
    BY ClaimsTyped DEF Claims, Core, SInv, Guests, GuestOf, Conf
  <1>2. CASE req[q].mode \in PveMode
    <2>1. Claims(q) /\ vmid[q] = vmid[p]
      BY <1>1, <1>2, ClaimsTyped DEF Claims, Core, SInv, Guests, GuestOf, Conf
    <2> QED BY <1>1, <2>1 DEF Apart, VmidApart
  <1>3. CASE req[q].mode \notin PveMode
    <2>1. Guests(q).id = name[q]
      BY <1>3 DEF Guests, GuestOf, DirOf, PveMode
    <2>2. name[q] \in Name
      BY DEF Core, SInv, TInv, Resolved, Owns, TryPc, GapPc, PortPc
    <2> QED BY <1>1, <2>1, <2>2 DEF NumbersApart
  <1> QED BY <1>2, <1>3

LEMMA LayersTellApart == ASSUME NumbersApart, LayersApart, Core, OutsideNamed PROVE StatesApart
  <1>1. IdsApart
    BY DEF NumbersApart, IdsApart
  <1>2. OutsideState => OwnersNamed
    BY NamesTellApart DEF LayersApart, OutsideNamed, NamedInv, NInv, SInv
  <1> QED BY <1>1, <1>2, StatesTellApart DEF Core

\* Who has finished has nothing left to do.
LEMMA DoneStays ==
  ASSUME Core, NEW c \in Creator, Step(c), NEW p \in Creator, pc[p] = "done"
  PROVE  p # c /\ pc'[p] = "done" /\ Owns(p) /\ ~Rival(p)'
  <1>1. p # c
    BY DEF LockedPc, TryPc, GapPc, PortPc, EndPc, Step, CreateStep, Interrupt, Crash, Goto, Register, WriteFile, AfterName,
         Acquire, GenerateName, TakeName, TakeVmid, MakeDir, Refuse, RejectSeed,
         EnterTry, PinImage, TestState, MakeState, WriteImage, WriteMode,
         WriteName, PickPort, WritePort, WriteWrapper, WriteVmid, WriteConf,
         AddUndo, RegisterStop, StartGuest, Fail, RunCleanup, Reraise, AfterPort,
         AfterConf
  <1>2. pc'[p] = "done"
    BY <1>1, OthersKeep DEF Core, SInv
  <1> QED BY <1>1, <1>2 DEF Owns, Rival, InProgress, EndPc

LEMMA CreatesWhole ==
  ASSUME NumbersApart, LayersApart, WInv, Creates
  PROVE  OutsideNamed' /\ StatesKept' /\ GuestsKept' /\ HealedKept'
  <1>1. PICK c \in Creator : Step(c)
    BY DEF Creates, Step
  <1>2. /\ rivals' = rivals \cup {p \in Creator : Rival(p)'}
        /\ healed' = healed
    BY DEF Creates
  <1>3. /\ Core /\ Apart /\ SInv /\ Stages /\ ConfigUndos
        /\ StatesApart
    BY LayersTellApart DEF WInv, AInv, TypedInv, Core
  <1>4. OutsideNamed'
    BY <1>1, StepNamedInv DEF WInv, OutsideNamed, LayersApart, NamesApart
  <1>5. StatesKept'
    <2>1. LayersKept'
      BY <1>1, <1>3, StepLayersKept DEF WInv, StatesKept
    <2>2. {"dir", "state"} \subseteq Label \ {"hold", "stop"}
      BY DEF Label
    <2>3. ASSUME NEW p \in Creator PROVE UndoInPlace(p, "dir")' /\ UndoInPlace(p, "state")'
      BY <1>1, <1>3, <2>2, StepUndoInPlace DEF WInv, StatesKept
    <2> QED BY <2>1, <2>3 DEF StatesKept
  <1>6. GuestsKept'
    <2> SUFFICES ASSUME NEW p \in Creator \ rivals', req'[p].mode \in PveMode
                 PROVE  UndoInPlace(p, "wrapper")' /\ StopKept(p)'
      BY DEF GuestsKept
    <2>1. p \in Creator \ rivals
      BY <1>2
    <2>2. CASE Past(p)
      <3>1. req[p].mode \in PveMode
        BY <1>1, <1>3, <2>2, PastKept DEF SInv
      <3>2. GuestApart(p) /\ UndoInPlace(p, "wrapper") /\ StopKept(p)
        BY <1>3, <2>1, <3>1, OutsidersApart DEF WInv, GuestsKept
      <3>3. "wrapper" \in Label \ {"hold", "stop"}
        BY DEF Label
      <3>4. LayersKept
        BY DEF WInv, StatesKept
      <3> QED BY <1>1, <1>3, <3>2, <3>3, <3>4, StepUndoInPlace, StepStopKept
    <2>3. CASE ~Past(p)
      <3>1. pc[p] \notin InPlay
        BY <2>3 DEF Past, InPlay, LockedPc, TryPc, GapPc, PortPc
      <3>2. CASE pc'[p] \notin InPlay
        BY <3>2 DEF UndoInPlace, StopKept
      <3>3. CASE pc'[p] \in InPlay
        <4>1. p = c /\ MakeDir(c)
          <5>1. p = c
            BY <1>1, <1>3, <3>1, <3>3, OthersKeep DEF SInv
          <5> QED BY <1>1, <1>3, <3>1, <3>3, <5>1, EntersByMkdir DEF SInv
        <4>2. undos'[p] = << >> /\ pc'[p] = "enter"
          BY <1>3, <4>1 DEF MakeDir, Goto, SInv, UndoShape, LockedPc, TInv, TypeOK
        <4> QED BY <4>2 DEF UndoInPlace, StopKept, Registered, Gaps
      <3> QED BY <3>2, <3>3
    <2> QED BY <2>2, <2>3
  <1>7. HealedKept'
    <2> SUFFICES ASSUME NEW a \in Adopter, NEW p \in healed[a]
                 PROVE  /\ pc'[p] = "done" /\ p \notin rivals' /\ req'[p].mode \in PveMode
                        /\ conf'[Conf(p)'] = Home(p)'
      BY <1>2 DEF HealedKept
    <2>1. /\ p \in Creator /\ pc[p] = "done" /\ p \notin rivals
          /\ req[p].mode \in PveMode /\ conf[Conf(p)] = Home(p)
      BY DEF WInv, AInv, TypedInv, AdoptTypeOK, HealedKept
    <2>2. p # c /\ pc'[p] = "done" /\ Owns(p) /\ p \notin rivals'
      BY <1>1, <1>2, <1>3, <2>1, DoneStays
    <2>3. Past(p)
      BY <2>1 DEF Past, LockedPc
    <2>4. Home(p)' = Home(p) /\ Conf(p)' = Conf(p) /\ req' = req
      BY <1>1, <1>3, <2>1, <2>3, PastKept DEF SInv
    <2>5. conf'[Conf(p)] = conf[Conf(p)]
      BY <1>1, <1>3, <2>1, <2>2, OutsidersApart, OthersSpare DEF GuestApart, SInv
    <2> QED BY <2>1, <2>2, <2>4, <2>5
  <1> QED BY <1>4, <1>5, <1>6, <1>7

\* Beside the creates only the wrappers and the configs of instances change.
LEMMA BesideWhole ==
  ASSUME WInv, Beside, rivals' = rivals,
         \A p \in Creator \ rivals : req[p].mode \in PveMode /\ pc[p] \in InPlay =>
           wrapper'[Conf(p)] \in {wrapper[Conf(p)], Home(p)}
  PROVE  OutsideNamed' /\ StatesKept' /\ GuestsKept'
  <1>1. UNCHANGED <<disk, layers, up, local>>
    BY DEF Beside
  <1>2. \A p \in Creator : /\ Home(p)' = Home(p) /\ Conf(p)' = Conf(p)
                           /\ Guests(p)' = Guests(p) /\ StateDir(Home(p))' = StateDir(Home(p))
                           /\ \A l : Registered(p, l)' <=> Registered(p, l)
    BY <1>1 DEF local, Home, Conf, Guests, StateDir, Registered
  <1>3. OutsideNamed'
    <2> SUFFICES ASSUME OutsideState PROVE NamedInv'
      BY DEF OutsideNamed
    <2>1. NamedInv
      BY DEF WInv, OutsideNamed
    <2>2. SInv' /\ Asked'
      BY CoreBeside DEF WInv, AInv, TypedInv, Core
    <2> QED BY <1>1, <2>1, <2>2 DEF local, NamedInv, Named, NInv, NameFresh, NamesDistinct, Owns
  <1>4. StatesKept'
    BY <1>1, <1>2 DEF local, WInv, StatesKept, LayersKept, LayerKept, UndoInPlace, InPlace
  <1>5. GuestsKept'
    <2> SUFFICES ASSUME NEW p \in Creator \ rivals, req[p].mode \in PveMode
                 PROVE  UndoInPlace(p, "wrapper")' /\ StopKept(p)'
      BY <1>1 DEF GuestsKept, local
    <2>1. UndoInPlace(p, "wrapper") /\ StopKept(p)
      BY DEF WInv, GuestsKept
    <2>2. StopKept(p)'
      BY <1>1, <1>2, <2>1 DEF local, StopKept
    <2>3. UndoInPlace(p, "wrapper")'
      BY <1>1, <1>2, <2>1 DEF local, UndoInPlace, InPlace
    <2> QED BY <2>2, <2>3
  <1> QED BY <1>3, <1>4, <1>5

\* An adopt writes where the VMID is recorded: what it overwrites is its own.
LEMMA AdoptsWhole ==
  ASSUME NumbersApart, WInv, Adopts
  PROVE  OutsideNamed' /\ StatesKept' /\ GuestsKept' /\ HealedKept'
  <1> USE DEF WInv, AInv
  <1>1. PICK a \in Adopter : AdoptStep(a)
    BY DEF Adopts
  <1>2. /\ Beside /\ rivals' = rivals
        /\ healed' = [b \in Adopter |-> healed[b] \cup {p \in Creator : Heals(b, p)}]
    BY AdoptsBeside DEF Adopts
  <1>3. \A p \in Creator : pc[p] \in InPlay /\ req[p].mode \in PveMode =>
          Claims(p) /\ Conf(p).id = vmid[p] /\ Conf(p) \in ConfKey /\ vmid[p] \in Vmid
    BY ClaimsTyped DEF Claims, Owns, InPlay, TypedInv, Core, SInv
  <1>4. ASSUME NEW p \in Creator \ rivals, req[p].mode \in PveMode, pc[p] \in InPlay
        PROVE  wrapper'[Conf(p)] \in {wrapper[Conf(p)], Home(p)}
    <2>1. CASE wrapper' = wrapper
      BY <2>1
    <2>2. CASE /\ EmitWrapper(a)
               /\ wrapper' = [wrapper EXCEPT ![ConfOf(form[a], number'[a])] = ward[a]]
      <3>1. ward[a] \in Existing /\ Records(ward[a], number'[a])
        BY <2>2, ReadsWard
      <3>2. Conf(p) = ConfOf(form[a], number'[a]) => vmid[p] = number'[a]
        BY <1>3, <1>4 DEF ConfOf
      <3>3. Conf(p) = ConfOf(form[a], number'[a]) => ward[a] = Home(p)
        BY <1>3, <1>4, <3>1, <3>2 DEF Apart, RecordedApart
      <3> QED BY <1>3, <1>4, <2>2, <3>3 DEF TypedInv, Core, SInv, TInv, TypeOK, HostTypeOK
    <2> QED BY <1>1, <2>1, <2>2, AdopterWrites
  <1>5. HealedKept'
    <2> SUFFICES ASSUME NEW b \in Adopter, NEW p \in healed'[b]
                 PROVE  /\ pc[p] = "done" /\ p \notin rivals /\ req[p].mode \in PveMode
                        /\ conf'[Conf(p)] = Home(p)
      <3>1. \A e \in Adopter : healed'[e] \subseteq Creator
        BY <1>2 DEF TypedInv, AdoptTypeOK
      <3> QED BY <1>2, <3>1, BesideSame DEF HealedKept
    <2>1. p \in Creator /\ (p \in healed[b] \/ Heals(b, p))
      BY <1>2 DEF TypedInv, AdoptTypeOK
    <2>2. CASE p \in healed[b]
      <3>1. /\ pc[p] = "done" /\ p \notin rivals /\ req[p].mode \in PveMode
            /\ conf[Conf(p)] = Home(p)
        BY <2>2 DEF HealedKept
      <3>2. Claims(p) /\ Conf(p).id = vmid[p] /\ Conf(p) \in ConfKey
        BY <1>3, <2>1, <3>1 DEF InPlay
      <3>3. CASE conf' = conf
        BY <3>1, <3>3
      <3>4. CASE EmitConf(a) /\ conf' = [conf EXCEPT ![ConfOf(form[a], number[a])] = ward[a]]
        <4>1. Conf(p) = ConfOf(form[a], number[a]) => vmid[p] = number[a]
          BY <3>2 DEF ConfOf
        <4>2. Conf(p) = ConfOf(form[a], number[a]) => ward[a] = Home(p)
          BY <2>1, <3>1, <3>2, <3>4, <4>1 DEF Aimed, EmitConf
        <4> QED BY <3>1, <3>2, <3>4, <4>2 DEF TypedInv, Core, SInv, TInv, TypeOK, HostTypeOK
      <3> QED BY <1>1, <3>1, <3>3, <3>4, AdopterWrites
    <2>3. CASE Heals(b, p)
      <3>1. /\ apc[b] = "conf" /\ apc'[b] = "done"
            /\ pc[p] = "done" /\ p \notin rivals /\ ward[b] = Home(p)
        BY <2>3 DEF Heals
      <3>2. b = a
        BY <1>1, <3>1, AdopterStep
      <3>3. EmitConf(a)
        BY <1>1, <3>1, <3>2 DEF AdoptStep, ResolveOrphan, Unadoptable, TakeLock, CheckOrphan,
           EmitWrapper, AdoptFails, Advance, TypedInv, AdoptTypeOK
      <3>4. req[p].mode = form[a] /\ vmid[p] = number[a] /\ form[a] \in PveMode
        BY <2>1, <3>1, <3>2 DEF Aimed, InPlay, TypedInv, Warded, ALocked
      <3>5. Conf(p) = ConfOf(form[a], number[a]) /\ Conf(p) \in ConfKey
        BY <1>3, <2>1, <3>1, <3>4 DEF Conf, InPlay
      <3> QED BY <3>1, <3>2, <3>3, <3>4, <3>5
          DEF EmitConf, TypedInv, Core, SInv, TInv, TypeOK, HostTypeOK
    <2> QED BY <2>1, <2>2, <2>3
  <1> QED BY <1>2, <1>4, <1>5, BesideWhole

LEMMA ProxmoxWhole ==
  ASSUME WInv, ProxmoxRemoves \/ ProxmoxTakes
  PROVE  OutsideNamed' /\ StatesKept' /\ GuestsKept' /\ HealedKept'
  <1> USE DEF WInv, AInv
  <1>1. Beside /\ rivals' = rivals /\ wrapper' = wrapper
    BY ProxmoxBeside DEF ProxmoxRemoves, ProxmoxTakes
  <1>2. \A p \in Creator : pc[p] = "done" /\ req[p].mode \in PveMode =>
          Conf(p) \in ConfKey /\ Home(p) \notin {None, Foreign}
    BY ClaimsTyped, HomesAreFiles DEF Claims, Owns, TypedInv, Core, SInv
  <1>3. HealedKept'
    <2> SUFFICES ASSUME NEW a \in Adopter, NEW p \in healed'[a]
                 PROVE  /\ pc[p] = "done" /\ p \notin rivals /\ req[p].mode \in PveMode
                        /\ conf'[Conf(p)] = Home(p)
      <3>1. \A e \in Adopter : healed'[e] \subseteq Creator
        BY DEF ProxmoxRemoves, ProxmoxTakes, TypedInv, AdoptTypeOK
      <3> QED BY <1>1, <3>1, BesideSame DEF HealedKept
    <2>1. /\ p \in healed[a] /\ p \in Creator
          /\ pc[p] = "done" /\ p \notin rivals /\ req[p].mode \in PveMode
          /\ conf[Conf(p)] = Home(p)
      BY DEF ProxmoxRemoves, ProxmoxTakes, TypedInv, AdoptTypeOK, HealedKept
    <2>2. ASSUME ProxmoxRemoves PROVE conf'[Conf(p)] = Home(p)
      <3>1. PICK c \in ConfKey : /\ conf' = [conf EXCEPT ![c] = None]
                                 /\ healed' = [b \in Adopter |-> {q \in healed[b] : conf[c] # Home(q)}]
        BY <2>2 DEF ProxmoxRemoves
      <3>2. c # Conf(p)
        BY <2>1, <3>1
      <3> QED BY <1>2, <2>1, <3>1, <3>2 DEF TypedInv, Core, SInv, TInv, TypeOK, HostTypeOK
    <2>3. ASSUME ProxmoxTakes PROVE conf'[Conf(p)] = Home(p)
      <3>1. PICK c \in ConfKey : Free(c.id) /\ conf' = [conf EXCEPT ![c] = Foreign]
        BY <2>3 DEF ProxmoxTakes
      <3>2. c # Conf(p)
        BY <1>2, <2>1, <3>1 DEF Free
      <3> QED BY <1>2, <2>1, <3>1, <3>2 DEF TypedInv, Core, SInv, TInv, TypeOK, HostTypeOK
    <2> QED BY <2>1, <2>2, <2>3
  <1> QED BY <1>1, <1>3, BesideWhole

LEMMA StepWInv == ASSUME NumbersApart, LayersApart, WInv, [AdoptNext]_all PROVE WInv'
  <1>1. AInv'
    BY StepAInv DEF WInv
  <1>2. CASE UNCHANGED all
    <2>1. Beside /\ rivals' = rivals /\ UNCHANGED <<wrapper, conf, healed>>
      BY <1>2 DEF all, vars, host, history, Beside, WInv, AInv, TypedInv, Core, SInv, TInv,
         TypeOK, HostTypeOK
    <2>2. HealedKept'
      BY <2>1, BesideSame DEF WInv, AInv, TypedInv, AdoptTypeOK, HealedKept
    <2> QED BY <1>1, <2>1, <2>2, BesideWhole DEF WInv
  <1> QED BY <1>1, <1>2, CreatesWhole, AdoptsWhole, ProxmoxWhole DEF WInv, AdoptNext, AllStopped

LEMMA InitWInv == AdoptInit => WInv
  <1> SUFFICES ASSUME AdoptInit PROVE WInv
    OBVIOUS
  <1>1. Init /\ AInv
    BY InitAInv DEF AdoptInit
  <1>2. \A p \in Creator : pc[p] = "lock" /\ pc[p] \notin InPlay
    BY <1>1 DEF Init, InPlay, TryPc, GapPc, PortPc
  <1>3. OutsideNamed /\ StatesKept /\ GuestsKept
    BY <1>1, <1>2, InitNamed DEF OutsideNamed, StatesKept, LayersKept, LayerKept, UndoInPlace, GuestsKept,
       StopKept
  <1>4. HealedKept
    BY DEF AdoptInit, HealedKept
  <1> QED BY <1>1, <1>3, <1>4 DEF WInv

\* An instance that an adopt has made whole stays whole, its files, layers,
\* wrapper, config and running guest (reconcile.py:404-410), whatever creates
\* and other adopts do at the same time, fail at or are killed in, until Proxmox
\* removes its config again.  Creates that came by one VMID at once are excepted
\* (CreateVmidRace), and so are layers outside the instance directories when
\* creates may come by one name.
THEOREM AdoptedStaysWhole ==
  ASSUME NumbersApart, LayersApart
  PROVE  AdoptSpec => []AdoptedWhole
  <1>1. WInv => AdoptedWhole
    <2> SUFFICES ASSUME WInv, NEW a \in Adopter, NEW p \in healed[a] PROVE Intact(p)
      BY DEF AdoptedWhole
    <2> USE DEF WInv, AInv, TypedInv, Core
    <2>1. /\ p \in Creator /\ pc[p] = "done" /\ p \notin rivals
          /\ req[p].mode \in PveMode /\ conf[Conf(p)] = Home(p)
      BY DEF AdoptTypeOK, HealedKept
    <2>2. pc[p] \in InPlay
      BY <2>1 DEF InPlay
    <2>3. disk[Home(p)] = Written(p)
      <3>1. disk[Home(p)] = Filed(p)
        BY <2>1, <2>2 DEF FilesKept
      <3> QED BY <2>1, <3>1 DEF Filed, Written, BeforeName, BeforeMode, BeforeImage, BeforeState,
           AfterVmid
    <2>4. StateDir(Home(p)) \in layers
      BY <2>1, <2>2 DEF StatesKept, LayersKept, LayerKept, BeforeState
    <2>5. ASSUME NEW i \in DOMAIN undos[p], undos[p][i] # "hold"
          PROVE  InPlace(p, undos[p][i])
      <3>1. PICK l \in Label : l = undos[p][i] /\ Registered(p, l) /\ l # "hold"
        <4>1. undos[p] \in Seq(Label)
          BY <2>1 DEF SInv, TInv, TypeOK
        <4> QED BY <2>5, <4>1 DEF Registered
      <3>2. CASE l = "dir"
        BY <2>1, <2>2, <3>1, <3>2 DEF StatesKept, UndoInPlace
      <3>3. CASE l = "state"
        BY <2>1, <2>2, <3>1, <3>3 DEF StatesKept, UndoInPlace
      <3>4. CASE l = "wrapper"
        BY <2>1, <2>2, <3>1, <3>4 DEF GuestsKept, UndoInPlace
      <3>5. CASE l = "conf"
        BY <2>1, <3>1, <3>5 DEF InPlace
      <3>6. CASE l = "stop"
        BY <2>1, <2>2, <3>1, <3>6 DEF GuestsKept, StopKept, InPlace
      <3> QED BY <3>1, <3>2, <3>3, <3>4, <3>5, <3>6 DEF Label
    <2> QED BY <2>3, <2>4, <2>5 DEF Intact
  <1>2. WInv /\ [AdoptNext]_all => WInv'
    BY StepWInv
  <1> QED BY <1>1, <1>2, InitWInv, PTL DEF AdoptSpec
===============================================================================
