---------------------------- MODULE RollbackProofs ----------------------------
(***************************************************************************)
(* What a create leaves behind when it fails and what it keeps when it     *)
(* succeeds, beside any number of other creates.                           *)
(***************************************************************************)
EXTENDS CreateProofs

-------------------------------------------------------------------------------
(* What a failed create leaves behind. *)

\* It has, or once had, what it was allotted: name, VMID and directory.
Past(p) == pc[p] \notin {"lock", "refused"} \cup LockedPc

ConfPc == {"wrapper", "wrapperUndo", "vmidFile", "conf", "confUndo"}

\* Only Proxmox modes get a VMID and a config; what is not registered is not undone.
Stages ==
  \A p \in Creator :
    /\ pc[p] \in {"vmid"} \cup ConfPc => req[p].mode \in PveMode
    /\ pc[p] = "vmidFile" => req[p].mode = "pve-vm"
    /\ pc[p] \notin {"rollback", "failed", "crashed"} => stuck[p] = {}
    /\ pc[p] \in {"hold", "holdUndo", "stateTest"} =>
         \A i \in DOMAIN undos[p] : undos[p][i] # "state"
    /\ pc[p] = "boot" => \E i \in DOMAIN undos[p] : undos[p][i] = "stop"
    /\ pc[p] = "failed" /\ ~Interrupts => undos[p] = << >>

\* Whatever is there was made by a create that has got past its allocation.
Traced ==
  /\ \A n \in holds : \E q \in Creator : Past(q) /\ name[q] = n
  /\ \A s \in layers : \E q \in Creator : Past(q) /\ StateDir(Home(q)) = s
  /\ \A c \in ConfKey : wrapper[c] # None \/ conf[c] \in DirKey =>
       \E q \in Creator : Past(q) /\ req[q].mode \in PveMode /\ Conf(q) = c
  /\ \A g \in up : \E q \in Creator : Past(q) /\ Guests(q) = g

Gaps == {<<"enter", "dir">>, <<"holdUndo", "hold">>, <<"stateUndo", "state">>,
         <<"wrapperUndo", "wrapper">>, <<"confUndo", "conf">>}

\* The effect l of create p is still to be taken back, could not be, or is to stay.
Owed(p, l) ==
  \/ \E i \in DOMAIN undos[p] : undos[p][i] = l
  \/ l \in stuck[p]
  \/ <<pc[p], l>> \in Gaps
  \/ pc[p] = "done"

\* As long as p shares nothing with others, all that is in place of it is owed.
Tracked ==
  \A p \in Creator : Past(p) /\ pc[p] # "crashed" /\ ~Shared(p) =>
    \A l \in Label : InPlace(p, l) => Owed(p, l)

\* A state directory that was there before is another's.
SharedState ==
  \A p \in Creator : pc[p] = "stateShared" /\ StateDir(Home(p)) # Home(p)
    => Shared(p)

\* The history of creates that are past their allocation does not change.
LEMMA PastKept ==
  ASSUME TInv, NEW p \in Creator, Step(p), NEW q \in Creator, Past(q)
  PROVE  /\ Past(q)' /\ name'[q] = name[q] /\ vmid'[q] = vmid[q] /\ req' = req
         /\ Home(q)' = Home(q) /\ Conf(q)' = Conf(q) /\ Guests(q)' = Guests(q)
  <1>1. /\ Past(q)' /\ name'[q] = name[q] /\ vmid'[q] = vmid[q] /\ req' = req
    <2>1. CASE q = p
      BY <2>1 DEF TInv, TypeOK, Past, LockedPc, TryPc, GapPc, PortPc, EndPc,
         Step, CreateStep, Interrupt, Crash, Goto, Register, WriteFile, AfterName,
         Acquire, GenerateName, TakeName, TakeVmid, MakeDir, Refuse, RejectSeed,
         EnterTry, PinImage, TestState, MakeState, WriteImage, WriteMode,
         WriteName, PickPort, WritePort, WriteWrapper, WriteVmid, WriteConf,
         AddUndo, RegisterStop, StartGuest, Fail, RunCleanup, Reraise, AfterPort,
         AfterConf
    <2>2. CASE q # p
      BY <2>2, OthersKeep DEF Past
    <2> QED BY <2>1, <2>2
  <1> QED BY <1>1 DEF Home, Conf, Guests

\* Who has shared something goes on doing so.
LEMMA SharedStays ==
  ASSUME TInv, NEW p \in Creator, Step(p), NEW q \in Creator, Past(q), Shared(q)
  PROVE  Shared(q)'
  <1>1. PICK r \in Creator \ {q} : 
          /\ Past(r)
          /\ name[r] = name[q] \/ Home(r) = Home(q) \/ Guests(r) = Guests(q)
    BY DEF Shared, Past
  <1>2. /\ Past(r)'
        /\ name'[r] = name[r] /\ Home(r)' = Home(r) /\ Guests(r)' = Guests(r)
        /\ name'[q] = name[q] /\ Home(q)' = Home(q) /\ Guests(q)' = Guests(q)
    BY <1>1, PastKept
  <1> QED BY <1>1, <1>2 DEF Shared, Past

\* What a step may add to the host, all of it filed under the create's own keys.
LEMMA Adds ==
  ASSUME TInv, Stages, NEW p \in Creator, Step(p)
  PROVE  /\ \A d \in DirKey : disk'[d].dir => disk[d].dir \/ (Past(p)' /\ d = Home(p)')
         /\ \A n \in holds' : n \in holds \/ (Past(p) /\ n = name[p])
         /\ \A s \in layers' : s \in layers \/ (Past(p) /\ s = StateDir(Home(p)))
         /\ \A c \in ConfKey :
              wrapper'[c] \in {wrapper[c], None}
                \/ (Past(p) /\ c = Conf(p) /\ req[p].mode \in PveMode)
         /\ \A c \in ConfKey :
              conf'[c] \in {conf[c], None}
                \/ (Past(p) /\ c = Conf(p) /\ req[p].mode \in PveMode)
         /\ \A g \in up' : g \in up \/ (Past(p) /\ g = Guests(p))
  <1> USE DEF Past, LockedPc, Goto
  <1>1. CASE MakeDir(p)
    <2>1. Home(p)' = Home(p) /\ Past(p)'
      BY <1>1 DEF MakeDir, Home, TInv, TypeOK
    <2> QED BY <1>1, <2>1, DirMade DEF MakeDir, TInv, TypeOK, HostTypeOK
  <1>2. CASE RunCleanup(p)
    <2>1. PICK l : UndoEffect(p, l) \/ UNCHANGED host
      BY <1>2 DEF RunCleanup
    <2>2. disk' = disk \/ disk' = [disk EXCEPT ![Home(p)] = NoDir]
      BY <2>1 DEF UndoEffect, host
    <2>3. \A d \in DirKey : disk'[d].dir => disk[d].dir
      <3>1. disk \in [DirKey -> Files] /\ NoDir.dir = FALSE
        BY DEF NoDir, TInv, TypeOK, HostTypeOK
      <3> QED BY <2>2, <3>1
    <2>4. holds' \subseteq holds /\ layers' \subseteq layers /\ up' \subseteq up
      BY <2>1 DEF UndoEffect, host
    <2>5. \A c \in ConfKey : /\ wrapper'[c] \in {wrapper[c], None}
                            /\ conf'[c] \in {conf[c], None}
      BY <2>1 DEF UndoEffect, host, TInv, TypeOK, HostTypeOK
    <2> QED BY <2>3, <2>4, <2>5
  <1>3. CASE \/ RejectSeed(p) \/ MakeState(p) \/ WriteImage(p) \/ WriteMode(p)
             \/ WriteName(p) \/ WritePort(p) \/ WriteVmid(p)
    <2>1. /\ Past(p) /\ Past(p)' /\ Home(p)' = Home(p)
          /\ UNCHANGED <<holds, conf, wrapper, up>>
          /\ layers' \subseteq layers \cup {StateDir(Home(p))}
      BY <1>3, PastKept DEF RejectSeed, MakeState, WriteImage, WriteMode, WriteName,
         WritePort, WriteVmid, WriteFile
    <2>2. \A d \in DirKey : d # Home(p) => disk'[d] = disk[d]
      BY <1>3 DEF RejectSeed, MakeState, WriteImage, WriteMode, WriteName,
         WritePort, WriteVmid, WriteFile, TInv, TypeOK, HostTypeOK
    <2> QED BY <2>1, <2>2
  <1>4. CASE PinImage(p) \/ WriteWrapper(p) \/ WriteConf(p) \/ StartGuest(p)
    <2>1. Past(p) /\ disk' = disk /\ layers' = layers
      BY <1>4 DEF PinImage, WriteWrapper, WriteConf, StartGuest
    <2>2. /\ holds' \subseteq holds \cup {name[p]}
          /\ up' \subseteq up \cup {Guests(p)}
      BY <1>4 DEF PinImage, WriteWrapper, WriteConf, StartGuest
    <2>3. /\ \A c \in ConfKey : wrapper'[c] = wrapper[c]
                \/ (c = Conf(p) /\ req[p].mode \in PveMode)
          /\ \A c \in ConfKey : conf'[c] = conf[c]
                \/ (c = Conf(p) /\ req[p].mode \in PveMode)
      BY <1>4 DEF PinImage, WriteWrapper, WriteConf, StartGuest, Stages, ConfPc,
         TInv, TypeOK, HostTypeOK
    <2> QED BY <2>1, <2>2, <2>3
  <1>5. CASE ~(\/ MakeDir(p) \/ RunCleanup(p) \/ RejectSeed(p) \/ MakeState(p)
               \/ WriteImage(p) \/ WriteMode(p) \/ WriteName(p) \/ WritePort(p)
               \/ WriteVmid(p) \/ PinImage(p) \/ WriteWrapper(p) \/ WriteConf(p)
               \/ StartGuest(p))
    BY <1>5 DEF host, Step, CreateStep, Interrupt, Crash, Acquire, GenerateName,
       TakeName, TakeVmid, Refuse, EnterTry, TestState, PickPort, AddUndo,
       RegisterStop, Fail, Reraise
  <1> QED BY <1>1, <1>2, <1>3, <1>4, <1>5

LEMMA StepStages ==
  ASSUME TInv, UndoShape, Stages, NEW p \in Creator, Step(p)
  PROVE  Stages'
  <1> SUFFICES ASSUME NEW q \in Creator
               PROVE  /\ pc'[q] \in {"vmid"} \cup ConfPc => req'[q].mode \in PveMode
                      /\ pc'[q] = "vmidFile" => req'[q].mode = "pve-vm"
                      /\ pc'[q] \notin {"rollback", "failed", "crashed"} => stuck'[q] = {}
                      /\ pc'[q] \in {"hold", "holdUndo", "stateTest"} =>
                           \A i \in DOMAIN undos'[q] : undos'[q][i] # "state"
                      /\ pc'[q] = "boot" =>
                           \E i \in DOMAIN undos'[q] : undos'[q][i] = "stop"
                      /\ pc'[q] = "failed" /\ ~Interrupts => undos'[q] = << >>
    BY DEF Stages
  <1>1. req' = req
    BY OthersKeep DEF Step, CreateStep, Interrupt, Crash, Goto, Register, WriteFile, AfterName,
         Acquire, GenerateName, TakeName, TakeVmid, MakeDir, Refuse, RejectSeed,
         EnterTry, PinImage, TestState, MakeState, WriteImage, WriteMode,
         WriteName, PickPort, WritePort, WriteWrapper, WriteVmid, WriteConf,
         AddUndo, RegisterStop, StartGuest, Fail, RunCleanup, Reraise, AfterPort,
         AfterConf
  <1>2. CASE q # p
    <2>1. pc'[q] = pc[q] /\ undos'[q] = undos[q]
      BY <1>2, OthersKeep
    <2>2. stuck'[q] = stuck[q]
      BY <1>2 DEF TInv, TypeOK, Step, CreateStep, Interrupt, Crash, Goto, Register, WriteFile, AfterName,
         Acquire, GenerateName, TakeName, TakeVmid, MakeDir, Refuse, RejectSeed,
         EnterTry, PinImage, TestState, MakeState, WriteImage, WriteMode,
         WriteName, PickPort, WritePort, WriteWrapper, WriteVmid, WriteConf,
         AddUndo, RegisterStop, StartGuest, Fail, RunCleanup, Reraise, AfterPort,
         AfterConf
    <2> QED BY <1>1, <2>1, <2>2 DEF Stages
  <1>3. CASE q = p
    <2>1. pc'[p] \in {"vmid"} \cup ConfPc => req[p].mode \in PveMode
      BY DEF Stages, ConfPc, PveMode, TInv, TypeOK,
         Step, CreateStep, Interrupt, Crash, Goto, Register, WriteFile, AfterName,
         Acquire, GenerateName, TakeName, TakeVmid, MakeDir, Refuse, RejectSeed,
         EnterTry, PinImage, TestState, MakeState, WriteImage, WriteMode,
         WriteName, PickPort, WritePort, WriteWrapper, WriteVmid, WriteConf,
         AddUndo, RegisterStop, StartGuest, Fail, RunCleanup, Reraise, AfterPort,
         AfterConf
    <2>2. pc'[p] \notin {"rollback", "failed", "crashed"} => stuck'[p] = {}
      BY DEF Stages, TInv, TypeOK, EndPc, LockedPc,
         Step, CreateStep, Interrupt, Crash, Goto, Register, WriteFile, AfterName,
         Acquire, GenerateName, TakeName, TakeVmid, MakeDir, Refuse, RejectSeed,
         EnterTry, PinImage, TestState, MakeState, WriteImage, WriteMode,
         WriteName, PickPort, WritePort, WriteWrapper, WriteVmid, WriteConf,
         AddUndo, RegisterStop, StartGuest, Fail, RunCleanup, Reraise, AfterPort,
         AfterConf
    <2>3. pc'[p] \in {"hold", "holdUndo", "stateTest"} =>
            \A i \in DOMAIN undos'[p] : undos'[p][i] # "state"
      <3>1. CASE EnterTry(p)
        <4>1. undos[p] = << >> /\ undos'[p] = Append(undos[p], "dir")
          BY <3>1 DEF EnterTry, Register, UndoShape, TInv, TypeOK
        <4> QED BY <4>1
      <3>2. CASE pc[p] = "holdUndo" /\ AddUndo(p)
        <4>1. undos[p] \in Seq(Label) /\ undos'[p] = Append(undos[p], "hold")
          BY <3>2 DEF AddUndo, Register, TInv, TypeOK
        <4>2. \A i \in 1 .. Len(undos[p]) : undos[p][i] # "state"
          BY <3>2, <4>1 DEF Stages
        <4> QED BY <4>1, <4>2
      <3>3. CASE PinImage(p)
        BY <3>3 DEF PinImage, Stages
      <3>4. CASE ~EnterTry(p) /\ ~(pc[p] = "holdUndo" /\ AddUndo(p)) /\ ~PinImage(p)
        <4>1. pc'[p] \notin {"hold", "holdUndo", "stateTest"}
          BY <3>4 DEF TInv, TypeOK, LockedPc,
         Step, CreateStep, Interrupt, Crash, Goto, Register, WriteFile, AfterName,
         Acquire, GenerateName, TakeName, TakeVmid, MakeDir, Refuse, RejectSeed,
         EnterTry, PinImage, TestState, MakeState, WriteImage, WriteMode,
         WriteName, PickPort, WritePort, WriteWrapper, WriteVmid, WriteConf,
         AddUndo, RegisterStop, StartGuest, Fail, RunCleanup, Reraise, AfterPort,
         AfterConf
        <4> QED BY <4>1
      <3> QED BY <3>1, <3>2, <3>3, <3>4
    <2>4. pc'[p] = "boot" => \E i \in DOMAIN undos'[p] : undos'[p][i] = "stop"
      <3>1. CASE RegisterStop(p)
        <4>1. undos[p] \in Seq(Label) /\ undos'[p] = Append(undos[p], "stop")
          BY <3>1 DEF RegisterStop, Register, TInv, TypeOK
        <4>2. Len(undos[p]) + 1 \in DOMAIN undos'[p]
          BY <4>1
        <4> QED BY <4>1, <4>2
      <3>2. CASE ~RegisterStop(p)
        <4>1. pc'[p] # "boot"
          BY <3>2 DEF TInv, TypeOK, LockedPc, Step, CreateStep, Interrupt, Crash, Goto, Register, WriteFile, AfterName,
         Acquire, GenerateName, TakeName, TakeVmid, MakeDir, Refuse, RejectSeed,
         EnterTry, PinImage, TestState, MakeState, WriteImage, WriteMode,
         WriteName, PickPort, WritePort, WriteWrapper, WriteVmid, WriteConf,
         AddUndo, RegisterStop, StartGuest, Fail, RunCleanup, Reraise, AfterPort,
         AfterConf
        <4> QED BY <4>1
      <3> QED BY <3>1, <3>2
    <2>5. pc'[p] = "failed" /\ ~Interrupts => undos'[p] = << >>
      BY DEF UndoShape, TInv, TypeOK, EndPc, Step, CreateStep, Interrupt, Crash, Goto, Register, WriteFile, AfterName,
         Acquire, GenerateName, TakeName, TakeVmid, MakeDir, Refuse, RejectSeed,
         EnterTry, PinImage, TestState, MakeState, WriteImage, WriteMode,
         WriteName, PickPort, WritePort, WriteWrapper, WriteVmid, WriteConf,
         AddUndo, RegisterStop, StartGuest, Fail, RunCleanup, Reraise, AfterPort,
         AfterConf
    <2>6. pc'[p] = "vmidFile" => req[p].mode = "pve-vm"
      BY DEF Stages, TInv, TypeOK, LockedPc, Step, CreateStep, Interrupt, Crash, Goto, Register, WriteFile, AfterName,
         Acquire, GenerateName, TakeName, TakeVmid, MakeDir, Refuse, RejectSeed,
         EnterTry, PinImage, TestState, MakeState, WriteImage, WriteMode,
         WriteName, PickPort, WritePort, WriteWrapper, WriteVmid, WriteConf,
         AddUndo, RegisterStop, StartGuest, Fail, RunCleanup, Reraise, AfterPort,
         AfterConf
    <2> QED BY <1>1, <1>3, <2>1, <2>2, <2>3, <2>4, <2>5, <2>6
  <1> QED BY <1>2, <1>3

LEMMA StepTraced ==
  ASSUME TInv, Stages, Traced, NEW p \in Creator, Step(p)
  PROVE  Traced'
  <1>1. Past(p) => /\ Past(p)' /\ name'[p] = name[p] /\ req' = req
                  /\ Home(p)' = Home(p) /\ Conf(p)' = Conf(p) /\ Guests(p)' = Guests(p)
    BY PastKept
  <1>2. \A n \in holds' : \E q \in Creator : Past(q)' /\ name'[q] = n
    BY <1>1, Adds, PastKept DEF Traced
  <1>3. \A s \in layers' : \E q \in Creator : Past(q)' /\ StateDir(Home(q))' = s
    <2>1. \A q \in Creator : Past(q) => Past(q)' /\ StateDir(Home(q))' = StateDir(Home(q))
      BY PastKept DEF StateDir
    <2> QED BY <2>1, Adds DEF Traced
  <1>4. ASSUME NEW c \in ConfKey, wrapper'[c] # None \/ conf'[c] \in DirKey
        PROVE  \E q \in Creator : Past(q)' /\ req'[q].mode \in PveMode /\ Conf(q)' = c
    <2>1. \/ wrapper[c] # None \/ conf[c] \in DirKey \/ conf'[c] = None
          \/ Past(p) /\ c = Conf(p) /\ req[p].mode \in PveMode
      BY <1>4, Adds
    <2>2. CASE conf'[c] = None
      BY <2>2, <1>1, <1>4, PastKept, Adds, ContentAssumption DEF Traced
    <2>3. CASE wrapper[c] # None \/ conf[c] \in DirKey
      BY <2>3, PastKept DEF Traced
    <2> QED BY <1>1, <2>1, <2>2, <2>3
  <1>5. \A g \in up' : \E q \in Creator : Past(q)' /\ Guests(q)' = g
    BY <1>1, Adds, PastKept DEF Traced
  <1> QED BY <1>2, <1>3, <1>4, <1>5 DEF Traced

\* No instance is called by the number of a VMID.
NumbersApart == Name \cap Vmid = {}

\* With the layers outside the directories, names and VMIDs are told apart.
IdsApart == OutsideState => Name \cap Vmid = {}

LEMMA SameState ==
  ASSUME TInv, IdsApart, NEW p \in Creator, NEW q \in Creator,
         pc[p] \notin {"lock", "name", "vmid", "refused", "crashed"},
         StateDir(Home(q)) = StateDir(Home(p))
  PROVE  name[q] = name[p] \/ Home(q) = Home(p)
  <1>1. /\ name[p] \in Name /\ (req[p].mode \in PveMode => vmid[p] \in Vmid)
        /\ name[q] \in Name \cup {None} /\ vmid[q] \in Vmid \cup {None}
    BY DEF TInv, TypeOK, Resolved
  <1>2. CASE ~OutsideState
    BY <1>2 DEF StateDir
  <1>3. CASE OutsideState
    <2>1. Home(q).id = Home(p).id
      BY <1>3 DEF StateDir
    <2>2. Name \cap Vmid = {} /\ None \notin Name \cup Vmid
      BY <1>3, StateAssumption DEF IdsApart
    <2> QED BY <1>1, <2>1, <2>2 DEF Home, DirOf, PveMode, BaseOf
  <1> QED BY <1>2, <1>3

\* No step of another puts in place what is not p's, unless they share.
LEMMA OthersEffects ==
  ASSUME TInv, Stages, IdsApart, NEW p \in Creator, Step(p),
         NEW q \in Creator, q # p, Past(q), pc[q] # "crashed", ~Shared(q)',
         NEW l \in Label, InPlace(q, l)'
  PROVE  InPlace(q, l)
  <1>1. /\ Past(q)' /\ name'[q] = name[q] /\ req' = req
        /\ Home(q)' = Home(q) /\ Conf(q)' = Conf(q) /\ Guests(q)' = Guests(q)
    BY PastKept
  <1>2. /\ Home(q) \in DirKey
        /\ req[q].mode \in PveMode => Conf(q) \in ConfKey /\ Guests(q) = Conf(q)
    BY Keys DEF Past, LockedPc, Conf, Guests, GuestOf, ConfOf, ConfKey, TInv, Resolved
  <1>3. ~(Past(p)' /\ Home(p)' = Home(q))
    BY <1>1 DEF Shared, Past
  <1>4. Past(p) => /\ name[p] # name[q] /\ Home(p) # Home(q) /\ Guests(p) # Guests(q)
    BY <1>1, PastKept DEF Shared, Past
  <1>5. CASE l = "dir"
    BY <1>1, <1>2, <1>3, <1>5, Adds DEF InPlace
  <1>6. CASE l = "hold"
    BY <1>1, <1>4, <1>6, Adds DEF InPlace
  <1>7. CASE l = "state"
    <2>1. Past(p) => StateDir(Home(p)) # StateDir(Home(q))
      BY <1>4, SameState DEF Past, LockedPc
    <2>2. StateDir(Home(q)) \in layers' /\ StateDir(Home(q)) # Home(q)
      BY <1>1, <1>7 DEF InPlace, StateDir
    <2> QED BY <1>7, <2>1, <2>2, Adds DEF InPlace
  <1>8. CASE l = "wrapper" \/ l = "conf"
    <2>1. /\ req[q].mode \in PveMode
          /\ l = "wrapper" => wrapper'[Conf(q)] = Home(q)
          /\ l = "conf" => conf'[Conf(q)] = Home(q)
      BY <1>1, <1>8 DEF InPlace
    <2>2. Home(q) # None
      BY <1>2, ContentAssumption
    <2>3. ~(Past(p) /\ Conf(q) = Conf(p) /\ req[p].mode \in PveMode)
      BY <1>2, <1>4, <2>1 DEF Guests, GuestOf, Conf
    <2> QED BY <1>2, <1>8, <2>1, <2>2, <2>3, Adds DEF InPlace
  <1>9. CASE l = "stop"
    BY <1>1, <1>4, <1>9, Adds DEF InPlace
  <1> QED BY <1>5, <1>6, <1>7, <1>8, <1>9 DEF Label

\* A create that has just made its directory finds nothing of its own in place.
LEMMA StartsClean ==
  ASSUME TInv, Traced, IdsApart, NEW p \in Creator, MakeDir(p), ~Shared(p)',
         NEW l \in Label, InPlace(p, l)'
  PROVE  l = "dir"
  <1>1. /\ Step(p) /\ ~Past(p) /\ Past(p)' /\ pc'[p] # "crashed"
        /\ UNCHANGED <<holds, layers, conf, wrapper, up, name, vmid, req>>
        /\ Home(p)' = Home(p) /\ Conf(p)' = Conf(p) /\ Guests(p)' = Guests(p)
        /\ pc[p] = "mkdir"
    BY DEF Step, CreateStep, MakeDir, Past, LockedPc, Goto, Home, Conf, Guests,
       TInv, TypeOK
  <1>2. \A q \in Creator : Past(q) =>
          name[q] # name[p] /\ Home(q) # Home(p) /\ Guests(q) # Guests(p)
    <2> SUFFICES ASSUME NEW q \in Creator, Past(q)
                 PROVE  name[q] # name[p] /\ Home(q) # Home(p) /\ Guests(q) # Guests(p)
      OBVIOUS
    <2>1. Past(q)' /\ Home(q)' = Home(q) /\ Guests(q)' = Guests(q) /\ q # p
      BY <1>1, PastKept
    <2> QED BY <1>1, <2>1 DEF Shared, Past
  <1>3. Home(p) \in DirKey
    BY <1>1, Keys
  <1>4. CASE l = "hold"
    BY <1>1, <1>2, <1>4 DEF InPlace, Traced
  <1>5. CASE l = "state"
    <2>1. StateDir(Home(p)) \in layers
      BY <1>1, <1>5 DEF InPlace, StateDir
    <2>2. PICK q \in Creator : Past(q) /\ StateDir(Home(q)) = StateDir(Home(p))
      BY <2>1 DEF Traced
    <2>3. name[q] = name[p] \/ Home(q) = Home(p)
      BY <1>1, <2>2, SameState
    <2> QED BY <1>2, <2>2, <2>3
  <1>6. CASE l = "wrapper" \/ l = "conf"
    <2>1. /\ req[p].mode \in PveMode
          /\ wrapper[Conf(p)] # None \/ conf[Conf(p)] \in DirKey
      BY <1>1, <1>3, <1>6, ContentAssumption DEF InPlace
    <2>2. Conf(p) \in ConfKey
      BY <1>1, <2>1 DEF Conf, ConfOf, ConfKey, TInv, Resolved
    <2>3. PICK q \in Creator : Past(q) /\ req[q].mode \in PveMode /\ Conf(q) = Conf(p)
      BY <2>1, <2>2 DEF Traced
    <2> QED BY <1>2, <2>1, <2>3 DEF Guests, GuestOf, Conf
  <1>7. CASE l = "stop"
    BY <1>1, <1>2, <1>7 DEF InPlace, Traced
  <1> QED BY <1>4, <1>5, <1>6, <1>7 DEF Label
\* An undo takes back its own effect and puts nothing in place.
LEMMA UndoTakesBack ==
  ASSUME TInv, NEW p \in Creator, Past(p), pc[p] # "crashed",
         NEW u \in Label, UndoEffect(p, u), UNCHANGED <<name, vmid, req>>,
         NEW l \in Label, InPlace(p, l)'
  PROVE  l # u /\ InPlace(p, l)
  <1>1. /\ Home(p) \in DirKey
        /\ req[p].mode \in PveMode => Conf(p) \in ConfKey
        /\ Home(p)' = Home(p) /\ Conf(p)' = Conf(p) /\ Guests(p)' = Guests(p)
        /\ StateDir(Home(p))' = StateDir(Home(p))
    BY Keys DEF Past, LockedPc, Home, Conf, Guests, ConfOf, ConfKey, TInv, Resolved,
       StateDir
  <1>2. Home(p) # None
    BY <1>1, ContentAssumption
  <1> USE DEF InPlace, UndoEffect, TInv, TypeOK, HostTypeOK
  <1>3. CASE l = "dir"
    BY <1>1, <1>3 DEF NoDir
  <1>4. CASE l = "hold"
    BY <1>1, <1>4
  <1>5. CASE l = "state"
    BY <1>1, <1>5
  <1>6. CASE l = "wrapper"
    BY <1>1, <1>2, <1>6
  <1>7. CASE l = "conf"
    BY <1>1, <1>2, <1>7
  <1>8. CASE l = "stop"
    BY <1>1, <1>8
  <1> QED BY <1>3, <1>4, <1>5, <1>6, <1>7, <1>8 DEF Label

\* A step of a create that is past its allocation puts in place at most one
\* effect, at the step before the registration of its undo.
LEMMA OwnEffects ==
  ASSUME TInv, UndoShape, Stages, SharedState,
         NEW p \in Creator, Step(p), Past(p), ~Shared(p),
         NEW l \in Label, InPlace(p, l)', ~InPlace(p, l)
  PROVE  \/ <<pc'[p], l>> \in Gaps
         \/ pc[p] = "boot" /\ l = "stop" /\ undos' = undos
         \/ pc[p] \in TryPc /\ l = "dir" /\ undos' = undos
  <1>1. /\ pc[p] \notin EndPc
        /\ Home(p) \in DirKey
        /\ req[p].mode \in PveMode => Conf(p) \in ConfKey
        /\ Home(p)' = Home(p) /\ Conf(p)' = Conf(p) /\ Guests(p)' = Guests(p)
        /\ StateDir(Home(p))' = StateDir(Home(p))
        /\ name'[p] = name[p] /\ req' = req
    <2>1. pc[p] \notin EndPc
      BY DEF EndPc, LockedPc, TryPc, GapPc, PortPc, Step, CreateStep, Interrupt, Crash, Goto, Register, WriteFile, AfterName,
         Acquire, GenerateName, TakeName, TakeVmid, MakeDir, Refuse, RejectSeed,
         EnterTry, PinImage, TestState, MakeState, WriteImage, WriteMode,
         WriteName, PickPort, WritePort, WriteWrapper, WriteVmid, WriteConf,
         AddUndo, RegisterStop, StartGuest, Fail, RunCleanup, Reraise, AfterPort,
         AfterConf
    <2> QED BY <2>1, Keys, PastKept DEF Past, LockedPc, Conf, ConfOf, ConfKey, TInv,
         Resolved, StateDir, EndPc
  <1> USE DEF InPlace, TInv, TypeOK, HostTypeOK, Goto
  <1>2. CASE PinImage(p)
    BY <1>1, <1>2 DEF PinImage, Gaps, Label
  <1>3. CASE MakeState(p)
    <2>1. CASE l = "dir"
      BY <1>3, <2>1 DEF MakeState, TryPc
    <2>2. CASE l = "state"
      BY <1>1, <1>3, <2>2 DEF MakeState, Gaps, SharedState
    <2>3. CASE l \notin {"dir", "state"}
      BY <1>1, <1>3, <2>3 DEF MakeState, Label
    <2> QED BY <2>1, <2>2, <2>3
  <1>4. CASE WriteWrapper(p)
    BY <1>1, <1>4 DEF WriteWrapper, Gaps, Label
  <1>5. CASE WriteConf(p)
    BY <1>1, <1>5 DEF WriteConf, Gaps, Label
  <1>6. CASE StartGuest(p)
    BY <1>1, <1>6 DEF StartGuest, Label
  <1>7. CASE RunCleanup(p)
    <2>1. PICK u \in Label : UndoEffect(p, u) \/ UNCHANGED host
      <3>1. undos[p] \in Seq(Label) /\ undos[p] # << >>
        BY <1>7 DEF RunCleanup
      <3> QED BY <1>7, <3>1, Popped DEF RunCleanup
    <2>2. UNCHANGED <<name, vmid, req>>
      BY <1>7 DEF RunCleanup
    <2>3. CASE UNCHANGED host
      BY <1>1, <2>3 DEF host, Label
    <2>4. CASE UndoEffect(p, u)
      <3>1. pc[p] # "crashed"
        BY <1>7 DEF RunCleanup
      <3> QED BY <2>2, <2>4, <3>1, UndoTakesBack
    <2> QED BY <2>1, <2>3, <2>4
  <1>8. CASE RejectSeed(p)
    BY <1>1, <1>8 DEF RejectSeed, NoDir, Label
  <1>9. CASE \/ WriteImage(p) \/ WriteMode(p) \/ WriteName(p) \/ WritePort(p)
             \/ WriteVmid(p)
    <2>1. disk[Home(p)].dir /\ UNCHANGED <<holds, layers, conf, wrapper, up>>
      BY <1>9 DEF WriteImage, WriteMode, WriteName, WritePort, WriteVmid, WriteFile
    <2> QED BY <1>1, <2>1 DEF Label
  <1>10. CASE ~(\/ PinImage(p) \/ MakeState(p) \/ WriteWrapper(p) \/ WriteConf(p)
                \/ StartGuest(p) \/ RunCleanup(p) \/ RejectSeed(p)
                \/ WriteImage(p) \/ WriteMode(p) \/ WriteName(p) \/ WritePort(p)
                \/ WriteVmid(p))
    <2>1. UNCHANGED host
      BY <1>10 DEF Past, LockedPc, host, Step, CreateStep, Interrupt, Crash,
         Acquire, GenerateName, TakeName, TakeVmid, MakeDir, Refuse, EnterTry,
         TestState, PickPort, AddUndo, RegisterStop, Fail, Reraise
    <2> QED BY <1>1, <2>1 DEF host, Label
  <1> QED BY <1>2, <1>3, <1>4, <1>5, <1>6, <1>7, <1>8, <1>9, <1>10

\* What is owed stays owed until it has been taken back: without an interrupt
\* no step leaves an effect behind whose undo is not registered.
LEMMA OwedKept ==
  ASSUME TInv, ~Interrupts, NEW p \in Creator, Step(p), Past(p), pc'[p] # "crashed",
         NEW l \in Label, Owed(p, l), InPlace(p, l)'
  PROVE  Owed(p, l)'
  <1>1. undos[p] \in Seq(Label) /\ Home(p) \in DirKey /\ Home(p)' = Home(p)
    <2>1. pc[p] # "crashed"
      BY DEF EndPc, LockedPc, TryPc, GapPc, PortPc, Step, CreateStep, Interrupt, Crash, Goto, Register, WriteFile, AfterName,
         Acquire, GenerateName, TakeName, TakeVmid, MakeDir, Refuse, RejectSeed,
         EnterTry, PinImage, TestState, MakeState, WriteImage, WriteMode,
         WriteName, PickPort, WritePort, WriteWrapper, WriteVmid, WriteConf,
         AddUndo, RegisterStop, StartGuest, Fail, RunCleanup, Reraise, AfterPort,
         AfterConf
    <2> QED BY <2>1, Keys, PastKept DEF TInv, TypeOK, Past, LockedPc
  <1>2. CASE RunCleanup(p)
    <2> DEFINE n == Len(undos[p])
               u == undos[p][n]
    <2>1. /\ n \in Nat \ {0} /\ u \in Label
          /\ undos'[p] = SubSeq(undos[p], 1, n - 1)
          /\ \A i \in 1 .. n - 1 : i \in DOMAIN undos'[p] /\ undos'[p][i] = undos[p][i]
          /\ DOMAIN undos[p] = 1 .. n
      BY <1>1, <1>2, Popped DEF RunCleanup, TInv, TypeOK
    <2>2. /\ pc[p] = "rollback" /\ pc' = pc /\ UNCHANGED <<name, vmid, req>>
          /\ \/ UndoEffect(p, u) /\ UNCHANGED stuck
             \/ stuck' = [stuck EXCEPT ![p] = @ \cup {u}]
      BY <1>2 DEF RunCleanup
    <2> HIDE DEF n, u
    <2>3. l \in stuck[p] => l \in stuck'[p]
      BY <2>2 DEF TInv, TypeOK
    <2>4. l = u => l \in stuck'[p]
      BY <2>2, UndoTakesBack DEF TInv, TypeOK
    <2>5. ASSUME NEW i \in DOMAIN undos[p], undos[p][i] = l
          PROVE  Owed(p, l)'
      <3>1. CASE i = n
        BY <2>4, <2>5, <3>1 DEF Owed, u
      <3>2. CASE i # n
        <4>1. i \in 1 .. n - 1
          BY <2>1, <3>2
        <4> QED BY <2>1, <2>5, <4>1 DEF Owed
      <3> QED BY <3>1, <3>2
    <2> QED BY <2>2, <2>3, <2>5 DEF Owed, Gaps
  <1>3. CASE \E u \in Label : /\ Register(p, u) /\ stuck' = stuck
                              /\ <<pc[p], l>> \in Gaps => l = u
    <2>1. PICK u \in Label : /\ undos' = [undos EXCEPT ![p] = Append(@, u)]
                              /\ stuck' = stuck /\ (<<pc[p], l>> \in Gaps => l = u)
      BY <1>3 DEF Register
    <2>2. /\ undos'[p] = Append(undos[p], u)
          /\ \A i \in DOMAIN undos[p] : i \in DOMAIN undos'[p] /\ undos'[p][i] = undos[p][i]
          /\ Len(undos[p]) + 1 \in DOMAIN undos'[p]
          /\ undos'[p][Len(undos[p]) + 1] = u
      BY <1>1, <2>1 DEF TInv, TypeOK
    <2>3. pc[p] # "done"
      BY DEF EndPc, LockedPc, TryPc, GapPc, PortPc, Step, CreateStep, Interrupt, Crash, Goto, Register, WriteFile, AfterName,
         Acquire, GenerateName, TakeName, TakeVmid, MakeDir, Refuse, RejectSeed,
         EnterTry, PinImage, TestState, MakeState, WriteImage, WriteMode,
         WriteName, PickPort, WritePort, WriteWrapper, WriteVmid, WriteConf,
         AddUndo, RegisterStop, StartGuest, Fail, RunCleanup, Reraise, AfterPort,
         AfterConf
    <2> QED BY <2>1, <2>2, <2>3 DEF Owed
  <1>4. CASE EnterTry(p)
    BY <1>3, <1>4 DEF EnterTry, Gaps, Label
  <1>5. CASE AddUndo(p)
    <2>1. PICK u \in Label : Register(p, u) /\ <<pc[p], u>> \in Gaps
      BY <1>5 DEF AddUndo, Gaps, Label
    <2>2. stuck' = stuck /\ (<<pc[p], l>> \in Gaps => l = u)
      BY <1>5, <2>1 DEF AddUndo, Gaps
    <2> QED BY <1>3, <2>1, <2>2
  <1>6. CASE RegisterStop(p)
    BY <1>3, <1>6 DEF RegisterStop, Gaps, Label
  <1>7. CASE RejectSeed(p)
    <2>1. l # "dir"
      BY <1>1, <1>7 DEF RejectSeed, NoDir, InPlace, TInv, TypeOK, HostTypeOK
    <2> QED BY <1>7, <2>1 DEF RejectSeed, Owed, Gaps
  <1>8. CASE ~(\/ RunCleanup(p) \/ EnterTry(p) \/ AddUndo(p) \/ RegisterStop(p)
               \/ RejectSeed(p))
    <2>1. /\ undos' = undos /\ stuck' = stuck /\ pc[p] # "done"
          /\ <<pc[p], l>> \notin Gaps
      BY <1>8 DEF Gaps, Past, TInv, TypeOK, EndPc, LockedPc, TryPc, GapPc, PortPc, Step, CreateStep, Interrupt, Crash, Goto, Register, WriteFile, AfterName,
         Acquire, GenerateName, TakeName, TakeVmid, MakeDir, Refuse, RejectSeed,
         EnterTry, PinImage, TestState, MakeState, WriteImage, WriteMode,
         WriteName, PickPort, WritePort, WriteWrapper, WriteVmid, WriteConf,
         AddUndo, RegisterStop, StartGuest, Fail, RunCleanup, Reraise, AfterPort,
         AfterConf
    <2> QED BY <2>1 DEF Owed
  <1> QED BY <1>2, <1>4, <1>5, <1>6, <1>7, <1>8

LEMMA StepTracked ==
  ASSUME ~Interrupts, IdsApart, TInv, UndoShape, Stages, Traced, Tracked, SharedState,
         NEW p \in Creator, Step(p)
  PROVE  Tracked'
  <1> SUFFICES ASSUME NEW q \in Creator, Past(q)', pc'[q] # "crashed", ~Shared(q)',
                      NEW l \in Label, InPlace(q, l)'
               PROVE  Owed(q, l)'
    BY DEF Tracked
  <1>1. Past(q) => ~Shared(q)
    BY SharedStays
  <1>2. CASE q # p
    <2>1. pc'[q] = pc[q] /\ undos'[q] = undos[q] /\ stuck'[q] = stuck[q]
      BY <1>2, OthersKeep DEF TInv, TypeOK, Step, CreateStep, Interrupt, Crash, Goto, Register, WriteFile, AfterName,
         Acquire, GenerateName, TakeName, TakeVmid, MakeDir, Refuse, RejectSeed,
         EnterTry, PinImage, TestState, MakeState, WriteImage, WriteMode,
         WriteName, PickPort, WritePort, WriteWrapper, WriteVmid, WriteConf,
         AddUndo, RegisterStop, StartGuest, Fail, RunCleanup, Reraise, AfterPort,
         AfterConf
    <2>2. Past(q)
      BY <2>1 DEF Past
    <2>3. Owed(q, l)
      BY <1>1, <1>2, <2>1, <2>2, OthersEffects DEF Tracked
    <2> QED BY <2>1, <2>3 DEF Owed
  <1>3. CASE q = p /\ MakeDir(p)
    <2>1. l = "dir" /\ pc'[p] = "enter"
      BY <1>3, StartsClean DEF MakeDir, Goto, TInv, TypeOK
    <2> QED BY <1>3, <2>1 DEF Owed, Gaps
  <1>4. CASE q = p /\ ~MakeDir(p)
    <2>1. Past(p) /\ pc[p] # "crashed"
      BY <1>4 DEF Past, TInv, TypeOK, EndPc, LockedPc, TryPc, GapPc, PortPc, Step, CreateStep, Interrupt, Crash, Goto, Register, WriteFile, AfterName,
         Acquire, GenerateName, TakeName, TakeVmid, MakeDir, Refuse, RejectSeed,
         EnterTry, PinImage, TestState, MakeState, WriteImage, WriteMode,
         WriteName, PickPort, WritePort, WriteWrapper, WriteVmid, WriteConf,
         AddUndo, RegisterStop, StartGuest, Fail, RunCleanup, Reraise, AfterPort,
         AfterConf
    <2>2. CASE InPlace(p, l)
      BY <1>1, <1>4, <2>1, <2>2, OwedKept DEF Tracked
    <2>3. CASE <<pc'[p], l>> \in Gaps
      BY <1>4, <2>3 DEF Owed
    <2>4. CASE pc[p] = "boot" /\ l = "stop" /\ undos' = undos
      BY <1>4, <2>4 DEF Stages, Owed
    <2>5. CASE pc[p] \in TryPc /\ l = "dir" /\ undos' = undos
      <3>1. undos[p] \in Seq(Label) /\ undos[p] # << >> /\ undos[p][1] = "dir"
        BY <2>5 DEF UndoShape, TInv, TypeOK
      <3>2. 1 \in DOMAIN undos[p]
        BY <3>1, EmptySeq
      <3> QED BY <1>4, <2>5, <3>1, <3>2 DEF Owed
    <2> QED BY <1>1, <1>4, <2>1, <2>2, <2>3, <2>4, <2>5, OwnEffects
  <1> QED BY <1>2, <1>3, <1>4

LEMMA StepSharedState ==
  ASSUME TInv, Stages, Tracked, SharedState, NEW p \in Creator, Step(p)
  PROVE  SharedState'
  <1> SUFFICES ASSUME NEW q \in Creator, pc'[q] = "stateShared",
                      StateDir(Home(q))' # Home(q)'
               PROVE  Shared(q)'
    BY DEF SharedState, StateDir
  <1>1. CASE pc[q] = "stateShared"
    <2>1. Past(q) /\ Home(q)' = Home(q)
      BY <1>1, PastKept DEF Past, LockedPc
    <2> QED BY <1>1, <2>1, SharedStays DEF SharedState, StateDir
  <1>2. CASE pc[q] # "stateShared"
    <2>1. q = p
      BY <1>2, OthersKeep
    <2>2. TestState(p)
      BY <1>2, <2>1 DEF TInv, TypeOK, EndPc, LockedPc, Step, CreateStep, Interrupt, Crash, Goto, Register, WriteFile, AfterName,
         Acquire, GenerateName, TakeName, TakeVmid, MakeDir, Refuse, RejectSeed,
         EnterTry, PinImage, TestState, MakeState, WriteImage, WriteMode,
         WriteName, PickPort, WritePort, WriteWrapper, WriteVmid, WriteConf,
         AddUndo, RegisterStop, StartGuest, Fail, RunCleanup, Reraise, AfterPort,
         AfterConf
    <2>3. Past(p) /\ pc[p] = "stateTest" /\ Home(p)' = Home(p)
      BY <2>2, PastKept DEF TestState, Past, LockedPc
    <2>4. StateDir(Home(p)) \in layers /\ StateDir(Home(p)) # Home(p)
      BY <2>1, <2>2, <2>3 DEF TestState, StateDir, Goto, TInv, TypeOK
    <2>5. InPlace(p, "state") /\ ~Owed(p, "state")
      BY <2>3, <2>4 DEF InPlace, Owed, Stages, Gaps
    <2>6. Shared(p)
      BY <2>3, <2>5 DEF Tracked, Label
    <2> QED BY <2>1, <2>3, <2>6, SharedStays
  <1> QED BY <1>1, <1>2

RInv == SInv /\ Stages /\ Traced /\ Tracked /\ SharedState

\* A failed create leaves nothing behind but what an undo could not remove,
\* whatever the others do, unless one of them has taken over its name, its
\* directory or its VMID (create.py:1556-1562): every effect is either not yet
\* registered, in the undos list, or reported as stuck.  This is so without
\* interrupts only: one that hits between an effect and its registration, or
\* during the rollback, leaves the effect behind.  And where the layers live
\* outside the instance directories, names must not be numbers that are VMIDs.
THEOREM RollbackCompletes ==
  ASSUME ~Interrupts, IdsApart
  PROVE  Spec => []RollbackComplete
  <1>1. Init => RInv
    <2> SUFFICES ASSUME Init PROVE RInv
      OBVIOUS
    <2>1. \A p \in Creator : pc[p] = "lock" /\ undos[p] = << >> /\ stuck[p] = {}
      BY DEF Init
    <2>2. \A c \in ConfKey : wrapper[c] = None /\ conf[c] \in {None, Foreign}
      BY DEF Init, HostInit
    <2>3. Traced
      BY <2>2, ContentAssumption DEF Init, HostInit, Traced
    <2> QED BY <2>1, <2>3, InitSafe DEF RInv, Stages, Tracked, SharedState, Past, ConfPc
  <1>2. RInv /\ [Next]_vars => RInv'
    <2>1. ASSUME RInv, NEW p \in Creator, Step(p) PROVE RInv'
      <3>1. SInv'
        BY <2>1, StepSafe DEF RInv, Step, Next
      <3> QED
        BY <2>1, <3>1, StepStages, StepTraced, StepTracked, StepSharedState
        DEF RInv, SInv
    <2>2. ASSUME RInv, UNCHANGED vars PROVE RInv'
      <3>1. SInv'
        BY <2>2, StepSafe DEF RInv
      <3>2. Stages' /\ Traced'
        BY <2>2 DEF vars, local, host, RInv, Stages, Traced, Past, Home, Conf, Guests,
           StateDir
      <3>3. Tracked' /\ SharedState'
        BY <2>2 DEF vars, local, host, RInv, Tracked, SharedState, Past, Home, Conf,
           Guests, StateDir, Shared, InPlace, Owed
      <3> QED BY <3>1, <3>2, <3>3 DEF RInv
    <2> QED BY <2>1, <2>2 DEF Next, Finished, Step
  <1>3. RInv => RollbackComplete
    BY DEF RInv, Stages, Tracked, RollbackComplete, Owed, Gaps, Past, LockedPc
  <1> QED BY <1>1, <1>2, <1>3, PTL DEF Spec

-------------------------------------------------------------------------------
(* What is filed under an instance's name. *)

Generated == {AutoName[i] : i \in DOMAIN AutoName}

MayShareName(r, s) ==
  /\ r.name # Allocate
  /\ s.name = r.name \/ (s.name = Allocate /\ r.name \in Generated)

\* Two creates that may come by one name want it in one namespace, where the
\* name is the directory; and kento names no Proxmox container.
NamesApart ==
  /\ NoAutoPve
  /\ \A p, q \in Creator : p # q =>
       \A r \in Asks[p], s \in Asks[q] : MayShareName(r, s) =>
         BaseOf(r.mode) = BaseOf(s.mode) /\ "pve" \notin {r.mode, s.mode}

\* The name is the one asked for, or a generated one.
Named ==
  \A p \in Creator : pc[p] \in {"vmid", "mkdir"} \/ Owns(p) =>
    IF req[p].name = Allocate THEN name[p] \in Generated ELSE name[p] = req[p].name

LEMMA StepNamed == ASSUME TInv, Named, NEW c \in Creator, Step(c) PROVE Named'
  <1> SUFFICES ASSUME NEW p \in Creator, pc'[p] \in {"vmid", "mkdir"} \/ Owns(p)'
               PROVE  IF req'[p].name = Allocate THEN name'[p] \in Generated
                                                 ELSE name'[p] = req'[p].name
    BY DEF Named
  <1>1. CASE GenerateName(c) /\ p = c
    BY <1>1 DEF GenerateName, FreeAutoName, Generated, TInv, TypeOK
  <1>2. CASE TakeName(c) /\ p = c
    BY <1>2 DEF TakeName, TInv, TypeOK
  <1>3. CASE p = c /\ ~GenerateName(c) /\ ~TakeName(c)
    <2>1. name' = name /\ req' = req
      BY <1>3 DEF Step, CreateStep, Interrupt, Crash, Goto, Register, WriteFile, AfterName,
         Acquire, GenerateName, TakeName, TakeVmid, MakeDir, Refuse, RejectSeed,
         EnterTry, PinImage, TestState, MakeState, WriteImage, WriteMode,
         WriteName, PickPort, WritePort, WriteWrapper, WriteVmid, WriteConf,
         AddUndo, RegisterStop, StartGuest, Fail, RunCleanup, Reraise, AfterPort,
         AfterConf
    <2>2. pc[p] \in {"vmid", "mkdir"} \/ Owns(p)
      BY <1>3, OwnsOnlyByMkdir DEF MakeDir, TInv, TypeOK, LockedPc, Step, CreateStep, Interrupt, Crash, Goto, Register, WriteFile, AfterName,
         Acquire, GenerateName, TakeName, TakeVmid, MakeDir, Refuse, RejectSeed,
         EnterTry, PinImage, TestState, MakeState, WriteImage, WriteMode,
         WriteName, PickPort, WritePort, WriteWrapper, WriteVmid, WriteConf,
         AddUndo, RegisterStop, StartGuest, Fail, RunCleanup, Reraise, AfterPort,
         AfterConf
    <2> QED BY <2>1, <2>2 DEF Named
  <1>4. CASE p # c
    BY <1>4, OthersKeep DEF Named, Owns
  <1> QED BY <1>1, <1>2, <1>3, <1>4

\* No two creates that own a directory have one name.
OwnersNamed == \A p, q \in Creator : p # q /\ Owns(p) /\ Owns(q) => name[p] # name[q]

LEMMA NamesTellApart ==
  ASSUME NamesApart, DirsDistinct, NamesDistinct, Asked, Named
  PROVE  OwnersNamed
  <1> SUFFICES ASSUME NEW p \in Creator, NEW q \in Creator, p # q, Owns(p), Owns(q),
                      name[p] = name[q]
               PROVE  FALSE
    BY DEF OwnersNamed
  <1>1. ~(req[p].name = Allocate /\ req[q].name = Allocate)
    BY DEF NamesDistinct
  <1>2. MayShareName(req[p], req[q]) \/ MayShareName(req[q], req[p])
    BY <1>1 DEF Named, MayShareName
  <1>3. /\ BaseOf(req[p].mode) = BaseOf(req[q].mode)
        /\ req[p].mode # "pve" /\ req[q].mode # "pve"
    BY <1>2 DEF NamesApart, Asked
  <1>4. Home(p) = Home(q)
    BY <1>3 DEF Home, DirOf
  <1> QED BY <1>4 DEF DirsDistinct

NamedInv == NInv /\ Named

LEMMA InitNamed == Init => NamedInv
  BY InitSafe
  DEF Init, NamedInv, Named, NInv, Asked, NameFresh, NamesDistinct, Owns, TryPc,
      GapPc, PortPc

LEMMA StepNamedInv ==
  ASSUME NoAutoPve, NamedInv, NEW c \in Creator, Step(c)
  PROVE  NamedInv'
  <1>1. [Next]_vars
    BY DEF Step, Next
  <1> QED BY <1>1, StepSafe, StepAsked, StepNameFresh, StepNamesDistinct, StepNamed
    DEF NamedInv, NInv, SInv

LEMMA NamedInvariant == ASSUME NamesApart PROVE Spec => []NamedInv
  <1>1. NoAutoPve
    BY DEF NamesApart
  <1>2. NamedInv /\ [Next]_vars => NamedInv'
    <2>1. ASSUME NamedInv, UNCHANGED vars PROVE NamedInv'
      <3>1. SInv' /\ Asked'
        BY <2>1, StepSafe, StepAsked DEF NamedInv, NInv
      <3> QED
        BY <2>1, <3>1
        DEF vars, local, NamedInv, Named, NInv, NameFresh, NamesDistinct, Owns
    <2> QED BY <1>1, <2>1, StepNamedInv DEF Next, Finished, Step
  <1> QED BY <1>2, InitNamed, PTL DEF Spec

\* The hold that pins the image of an instance being made, or made, is removed
\* by its own create alone: the rollback removes a hold by name
\* (layers.py:287-293), and whoever has one to remove owns a directory, hence
\* another name.  (With one explicit name in two namespaces, or a generated name
\* for a Proxmox container, the names do not tell the holds apart.)
THEOREM HoldsPinned == ASSUME NamesApart PROVE Spec => HoldsKept
  <1>1. NamedInv /\ [Next]_vars =>
          [\A p \in Creator :
             /\ Owns(p) /\ pc'[p] = pc[p] /\ undos'[p] = undos[p]
             /\ name[p] \in holds
             => name[p] \in holds']_vars
    <2> SUFFICES ASSUME NamedInv, NEW c \in Creator, Step(c),
                        NEW p \in Creator, Owns(p), pc'[p] = pc[p],
                        undos'[p] = undos[p], name[p] \in holds
                 PROVE  name[p] \in holds'
      BY DEF Next, Finished, Step
    <2>1. CASE RunCleanup(c)
      <3>1. undos[c] \in Seq(Label) /\ undos[c] # << >> /\ Owns(c)
        BY <2>1 DEF RunCleanup, Owns, NamedInv, NInv, SInv, TInv, TypeOK
      <3>2. undos'[c] # undos[c]
        <4>1. undos'[c] = SubSeq(undos[c], 1, Len(undos[c]) - 1)
          BY <2>1 DEF RunCleanup, NamedInv, NInv, SInv, TInv, TypeOK
        <4>2. Len(undos'[c]) = Len(undos[c]) - 1 /\ Len(undos[c]) \in Nat
          BY <3>1, <4>1, Popped
        <4> QED BY <4>2
      <3>3. name[p] # name[c]
        BY <3>1, <3>2, NamesTellApart DEF OwnersNamed, NamedInv, NInv, SInv
      <3>4. PICK l : UndoEffect(c, l) \/ UNCHANGED host
        BY <2>1 DEF RunCleanup
      <3> QED BY <3>3, <3>4 DEF UndoEffect, host
    <2>2. CASE ~RunCleanup(c)
      <3>1. holds \subseteq holds'
        BY <2>2 DEF host, Step, CreateStep, Interrupt, Crash, Goto, Register, WriteFile, AfterName,
         Acquire, GenerateName, TakeName, TakeVmid, MakeDir, Refuse, RejectSeed,
         EnterTry, PinImage, TestState, MakeState, WriteImage, WriteMode,
         WriteName, PickPort, WritePort, WriteWrapper, WriteVmid, WriteConf,
         AddUndo, RegisterStop, StartGuest, Fail, RunCleanup, Reraise, AfterPort,
         AfterConf
      <3> QED BY <3>1
    <2> QED BY <2>1, <2>2
  <1> QED BY NamedInvariant, <1>1, PTL DEF Spec, HoldsKept

-------------------------------------------------------------------------------
(* What a create keeps when it has succeeded. *)

\* The recorded mode goes with the namespace.
ModesFiled ==
  \A d \in DirKey :
    /\ disk[d].mode # None => d.base = BaseOf(disk[d].mode)
    /\ disk[d].mode = "pve" => d.id \in Vmid

LEMMA StepModesFiled == ASSUME TInv, ModesFiled, NEW c \in Creator, Step(c) PROVE ModesFiled'
  <1> SUFFICES ASSUME NEW d \in DirKey
               PROVE  /\ disk'[d].mode # None => d.base = BaseOf(disk'[d].mode)
                      /\ disk'[d].mode = "pve" => d.id \in Vmid
    BY DEF ModesFiled
  <1>1. CASE WriteMode(c)
    <2>1. /\ Home(c).base = BaseOf(req[c].mode)
          /\ req[c].mode = "pve" => Home(c).id \in Vmid
      BY <1>1 DEF WriteMode, Home, DirOf, BaseOf, PveMode, TInv, Resolved
    <2> QED BY <1>1, <2>1 DEF WriteMode, WriteFile, ModesFiled, TInv, TypeOK, HostTypeOK, Files
  <1>2. CASE ~WriteMode(c)
    <2>0. disk \in [DirKey -> Files] /\ disk[d] \in Files
      BY DEF TInv, TypeOK, HostTypeOK
    <2>1. disk'[d].mode \in {disk[d].mode, None}
      <3>1. CASE MakeDir(c) \/ RejectSeed(c) \/ RunCleanup(c)
        <4>1. \/ disk' = disk \/ disk' = [disk EXCEPT ![Home(c)] = NoDir]
              \/ disk' = [disk EXCEPT ![Home(c)] = EmptyDir]
          BY <3>1 DEF MakeDir, RejectSeed, RunCleanup, UndoEffect, host
        <4>2. NoDir.mode = None /\ EmptyDir.mode = None
          BY DEF NoDir, EmptyDir
        <4> QED BY <2>0, <4>1, <4>2
      <3>2. CASE MakeState(c) \/ WriteImage(c) \/ WriteName(c) \/ WritePort(c) \/ WriteVmid(c)
        BY <2>0, <3>2 DEF MakeState, WriteImage, WriteName, WritePort, WriteVmid,
           WriteFile, Files
      <3>3. CASE ~(\/ MakeDir(c) \/ RejectSeed(c) \/ RunCleanup(c) \/ MakeState(c)
                   \/ WriteImage(c) \/ WriteName(c) \/ WritePort(c) \/ WriteVmid(c))
        BY <1>2, <3>3 DEF host, Step, CreateStep, Interrupt, Crash, Goto, Register, WriteFile, AfterName,
         Acquire, GenerateName, TakeName, TakeVmid, MakeDir, Refuse, RejectSeed,
         EnterTry, PinImage, TestState, MakeState, WriteImage, WriteMode,
         WriteName, PickPort, WritePort, WriteWrapper, WriteVmid, WriteConf,
         AddUndo, RegisterStop, StartGuest, Fail, RunCleanup, Reraise, AfterPort,
         AfterConf
      <3> QED BY <3>1, <3>2, <3>3
    <2>2. None # "pve"
      BY ContentAssumption DEF Mode
    <2> QED BY <2>1, <2>2 DEF ModesFiled
  <1> QED BY <1>1, <1>2

\* No two invocations may be asked for a Proxmox VM: its VMID is looked up under
\* the lock but recorded outside it (the run CreateVmidRace).
OneVm == \A p, q \in Creator : p # q =>
           \A r \in Asks[p], s \in Asks[q] : ~(r.mode = "pve-vm" /\ s.mode = "pve-vm")

\* Layers outside the instance directories go by the name or VMID alone.
LayersApart == OutsideState => NamesApart /\ IdsApart

\* The steps between the mkdir and the end, as long as nothing has failed.
InPlay      == {"enter", "done"} \cup TryPc
BeforeState == {"enter", "hold", "holdUndo", "stateTest", "stateFresh", "stateShared"}
BeforeImage == BeforeState \cup {"stateUndo", "image"}
BeforeMode  == BeforeImage \cup {"mode"}
BeforeName  == BeforeMode \cup {"nameFile"}
BeforePort  == BeforeName \cup {"portLock", "portPick"}
AfterVmid   == {"conf", "confUndo", "start", "boot", "done"}

\* The files a create has written so far.
Filed(p) ==
  [dir   |-> TRUE,
   image |-> pc[p] \notin BeforeImage,
   mode  |-> IF pc[p] \in BeforeMode THEN None ELSE req[p].mode,
   name  |-> IF pc[p] \in BeforeName THEN None ELSE name[p],
   port  |-> IF pc[p] = "portWrite" THEN None ELSE port[p],
   vmid  |-> IF pc[p] \in AfterVmid /\ req[p].mode = "pve-vm" THEN vmid[p] ELSE None]

PortUnset == \A p \in Creator :
  pc[p] \in {"lock"} \cup LockedPc \cup BeforePort => port[p] = None

FilesKept == \A p \in Creator : pc[p] \in InPlay => disk[Home(p)] = Filed(p)

LayerKept(p) == pc[p] \in InPlay =>
  /\ pc[p] \notin BeforeState => StateDir(Home(p)) \in layers
  /\ pc[p] \in {"stateFresh", "stateUndo"} => StateDir(Home(p)) # Home(p)

LayersKept == \A p \in Creator : LayerKept(p)

Registered(p, l) == \E i \in DOMAIN undos[p] : undos[p][i] = l

UndoInPlace(p, l) ==
  /\ pc[p] \in InPlay
  /\ Registered(p, l) \/ <<pc[p], l>> \in Gaps
  => InPlace(p, l)

UndosInPlace == \A p \in Creator : \A l \in Label \ {"hold", "stop"} : UndoInPlace(p, l)

ConfigUndos == \A p \in Creator : \A l \in {"wrapper", "conf"} :
  Registered(p, l) => req[p].mode \in PveMode

StopKept(p) == pc[p] \in InPlay /\ Registered(p, "stop") =>
  /\ pc[p] \in {"boot", "done"}
  /\ pc[p] = "done" => Guests(p) \in up

StopsKept == \A p \in Creator : StopKept(p)

\* What tells the owners of two directories apart.
StatesApart ==
  \A p, q \in Creator : p # q /\ Owns(p) /\ Owns(q) => StateDir(Home(p)) # StateDir(Home(q))

GuestApart(p) == \A q \in Creator : p # q /\ Owns(p) /\ Owns(q) => Guests(p) # Guests(q)

LEMMA StatesTellApart ==
  ASSUME IdsApart, SInv, OutsideState => OwnersNamed
  PROVE  StatesApart
  <1> SUFFICES ASSUME NEW p \in Creator, NEW q \in Creator, p # q, Owns(p), Owns(q)
               PROVE  StateDir(Home(p)) # StateDir(Home(q))
    BY DEF StatesApart
  <1>1. Home(p) # Home(q)
    BY DEF SInv, DirsDistinct
  <1>2. pc[p] \notin {"lock", "name", "vmid", "refused", "crashed"}
    BY DEF Owns, TryPc, GapPc, PortPc
  <1>3. CASE OutsideState
    BY <1>1, <1>2, <1>3, SameState DEF SInv, OwnersNamed
  <1>4. CASE ~OutsideState
    BY <1>1, <1>4 DEF StateDir
  <1> QED BY <1>3, <1>4

LEMMA GuestsTellApart == ASSUME OneVm, SInv, Asked PROVE \A p \in Creator : GuestApart(p)
  <1> SUFFICES ASSUME NEW p \in Creator, NEW q \in Creator, p # q, Owns(p), Owns(q)
               PROVE  Guests(p) # Guests(q)
    BY DEF GuestApart
  <1>1. Home(p) # Home(q)
    BY DEF SInv, DirsDistinct
  <1>2. ~(req[p].mode = "pve-vm" /\ req[q].mode = "pve-vm")
    BY DEF OneVm, Asked
  <1> QED BY <1>1, <1>2 DEF Guests, GuestOf, ConfOf, Home, DirOf, BaseOf, PveMode

\* Who has a rollback to run still owns its directory.
LEMMA RollersOwn ==
  ASSUME TInv, NEW p \in Creator,
         RunCleanup(p) \/ WriteWrapper(p) \/ WriteConf(p) \/ RejectSeed(p)
  PROVE  Owns(p)
  BY DEF RunCleanup, WriteWrapper, WriteConf, RejectSeed, Owns, TryPc

\* No step of another takes away the files or the layers an owner has in place.
LEMMA OthersLeave ==
  ASSUME SInv, StatesApart, NEW p \in Creator, Step(p),
         NEW q \in Creator, q # p, Owns(q)
  PROVE  /\ Home(q)' = Home(q) /\ Guests(q)' = Guests(q) /\ Conf(q)' = Conf(q)
         /\ disk'[Home(q)] = disk[Home(q)]
         /\ StateDir(Home(q)) \in layers => StateDir(Home(q)) \in layers'
  <1>1. Home(q)' = Home(q) /\ Guests(q)' = Guests(q) /\ Conf(q)' = Conf(q)
    BY OthersKeep DEF SInv, Home, Guests, Conf
  <1>2. disk'[Home(q)] = disk[Home(q)]
    BY OthersDirs DEF SInv
  <1>3. CASE RunCleanup(p)
    <2>1. Owns(p)
      BY <1>3, RollersOwn DEF SInv
    <2>2. Home(p) # Home(q) /\ StateDir(Home(p)) # StateDir(Home(q))
      BY <2>1 DEF StatesApart, SInv, DirsDistinct
    <2>3. StateDir(Home(q)) # Home(p)
      <3>1. CASE OutsideState
        BY <3>1 DEF StateDir, Home, DirOf, BaseOf
      <3>2. CASE ~OutsideState
        BY <2>2, <3>2 DEF StateDir
      <3> QED BY <3>1, <3>2
    <2> QED BY <1>1, <1>2, <1>3, <2>2, <2>3 DEF RunCleanup, UndoEffect, host
  <1>4. CASE ~RunCleanup(p)
    <2>1. layers \subseteq layers'
      BY <1>4 DEF host, Step, CreateStep, Interrupt, Crash, Goto, Register, WriteFile, AfterName,
         Acquire, GenerateName, TakeName, TakeVmid, MakeDir, Refuse, RejectSeed,
         EnterTry, PinImage, TestState, MakeState, WriteImage, WriteMode,
         WriteName, PickPort, WritePort, WriteWrapper, WriteVmid, WriteConf,
         AddUndo, RegisterStop, StartGuest, Fail, RunCleanup, Reraise, AfterPort,
         AfterConf
    <2> QED BY <1>1, <1>2, <2>1
  <1> QED BY <1>3, <1>4

\* Nor its wrapper, its config or its running guest.
LEMMA OthersSpare ==
  ASSUME TInv, Stages, ConfigUndos, NEW p \in Creator, Step(p),
         NEW q \in Creator, q # p, Owns(q), Owns(p) => Guests(p) # Guests(q)
  PROVE  /\ req[q].mode \in PveMode => /\ wrapper'[Conf(q)] = wrapper[Conf(q)]
                                       /\ conf'[Conf(q)] = conf[Conf(q)]
         /\ Guests(q) \in up => Guests(q) \in up'
  <1>1. req[q].mode \in PveMode => Guests(q) = Conf(q) /\ Conf(q) \in ConfKey
    BY DEF TInv, Resolved, Owns, TryPc, GapPc, PortPc, Guests, GuestOf, Conf,
       ConfOf, ConfKey
  <1>2. CASE RunCleanup(p)
    <2>1. PICK l \in Label : /\ UndoEffect(p, l) \/ UNCHANGED host
                             /\ Registered(p, l)
      <3>1. undos[p] \in Seq(Label) /\ undos[p] # << >>
        BY <1>2 DEF RunCleanup, TInv, TypeOK
      <3>2. undos[p][Len(undos[p])] \in Label /\ Len(undos[p]) \in DOMAIN undos[p]
        BY <3>1, Popped
      <3> QED BY <1>2, <3>2 DEF RunCleanup, Registered
    <2>2. Owns(p)
      BY <1>2, RollersOwn
    <2>3. CASE UNCHANGED host
      BY <2>3 DEF host
    <2>4. CASE UndoEffect(p, l)
      <3>1. Guests(q) \in up => Guests(q) \in up'
        BY <2>2, <2>4 DEF UndoEffect
      <3>2. ASSUME req[q].mode \in PveMode
            PROVE  wrapper'[Conf(q)] = wrapper[Conf(q)] /\ conf'[Conf(q)] = conf[Conf(q)]
        <4>1. l \in {"wrapper", "conf"} => Registered(p, l)
          BY <2>1
        <4>2. l \in {"wrapper", "conf"} => Conf(p) # Conf(q)
          BY <1>1, <2>2, <3>2, <4>1 DEF ConfigUndos, Guests, GuestOf, Conf
        <4> QED BY <2>4, <4>2 DEF UndoEffect, TInv, TypeOK, HostTypeOK
      <3> QED BY <3>1, <3>2
    <2> QED BY <2>1, <2>3, <2>4
  <1>3. CASE WriteWrapper(p) \/ WriteConf(p)
    <2>1. Owns(p) /\ req[p].mode \in PveMode
      BY <1>3, RollersOwn DEF Stages, ConfPc, WriteWrapper, WriteConf
    <2>2. req[q].mode \in PveMode => Conf(p) # Conf(q)
      BY <1>1, <2>1 DEF Guests, GuestOf, Conf
    <2>3. up' = up
      BY <1>3 DEF WriteWrapper, WriteConf
    <2> QED BY <1>1, <2>2, <2>3, <1>3
      DEF WriteWrapper, WriteConf, TInv, TypeOK, HostTypeOK
  <1>4. CASE ~RunCleanup(p) /\ ~WriteWrapper(p) /\ ~WriteConf(p)
    <2>1. up \subseteq up' /\ wrapper' = wrapper /\ conf' = conf
      BY <1>4 DEF host, Step, CreateStep, Interrupt, Crash, Goto, Register, WriteFile, AfterName,
         Acquire, GenerateName, TakeName, TakeVmid, MakeDir, Refuse, RejectSeed,
         EnterTry, PinImage, TestState, MakeState, WriteImage, WriteMode,
         WriteName, PickPort, WritePort, WriteWrapper, WriteVmid, WriteConf,
         AddUndo, RegisterStop, StartGuest, Fail, RunCleanup, Reraise, AfterPort,
         AfterConf
    <2> QED BY <2>1
  <1> QED BY <1>2, <1>3, <1>4

\* What a step of a create that stays in play adds to its own list and effects.
LEMMA OwnGrowth ==
  ASSUME TInv, Stages, NEW p \in Creator, Step(p), pc[p] \in InPlay, pc'[p] \in InPlay
  PROVE  /\ Home(p)' = Home(p) /\ Conf(p)' = Conf(p) /\ Guests(p)' = Guests(p)
         /\ StateDir(Home(p))' = StateDir(Home(p))
         /\ name'[p] = name[p] /\ vmid'[p] = vmid[p] /\ req' = req
         /\ Owns(p) /\ Home(p) \in DirKey
         /\ req[p].mode \in PveMode => Conf(p) \in ConfKey
         /\ layers' \in {layers, layers \cup {StateDir(Home(p))}}
         /\ up \subseteq up'
         /\ wrapper' \in {wrapper, [wrapper EXCEPT ![Conf(p)] = Home(p)]}
         /\ conf' \in {conf, [conf EXCEPT ![Conf(p)] = Home(p)]}
         /\ \A l \in Label : Registered(p, l)' =>
              \/ Registered(p, l) \/ <<pc[p], l>> \in Gaps
              \/ RegisterStop(p) /\ l = "stop"
  <1>1. Past(p) /\ Owns(p) /\ Home(p) \in DirKey /\ ~RunCleanup(p) /\ ~MakeDir(p)
    <2>1. Past(p) /\ Owns(p) /\ ~RunCleanup(p) /\ ~MakeDir(p)
      BY DEF InPlay, Past, LockedPc, Owns, TryPc, GapPc, PortPc, RunCleanup, MakeDir
    <2> QED BY <2>1, Keys DEF Owns, TryPc, GapPc, PortPc
  <1>2. /\ Home(p)' = Home(p) /\ Conf(p)' = Conf(p) /\ Guests(p)' = Guests(p)
        /\ StateDir(Home(p))' = StateDir(Home(p))
        /\ name'[p] = name[p] /\ vmid'[p] = vmid[p] /\ req' = req
    BY <1>1, PastKept DEF StateDir
  <1>3. req[p].mode \in PveMode => Conf(p) \in ConfKey
    BY <1>1 DEF TInv, Resolved, Owns, TryPc, GapPc, PortPc, Conf, ConfOf, ConfKey
  <1>4. /\ layers' \in {layers, layers \cup {StateDir(Home(p))}}
        /\ up \subseteq up'
        /\ wrapper' \in {wrapper, [wrapper EXCEPT ![Conf(p)] = Home(p)]}
        /\ conf' \in {conf, [conf EXCEPT ![Conf(p)] = Home(p)]}
    BY <1>1 DEF host, Step, CreateStep, Interrupt, Crash, Goto, Register, WriteFile, AfterName,
         Acquire, GenerateName, TakeName, TakeVmid, MakeDir, Refuse, RejectSeed,
         EnterTry, PinImage, TestState, MakeState, WriteImage, WriteMode,
         WriteName, PickPort, WritePort, WriteWrapper, WriteVmid, WriteConf,
         AddUndo, RegisterStop, StartGuest, Fail, RunCleanup, Reraise, AfterPort,
         AfterConf
  <1>5. ASSUME NEW l \in Label, Registered(p, l)'
        PROVE  \/ Registered(p, l) \/ <<pc[p], l>> \in Gaps
               \/ RegisterStop(p) /\ l = "stop"
    <2>1. CASE undos' = undos
      BY <1>5, <2>1 DEF Registered
    <2>2. CASE undos' # undos
      <3>1. PICK u \in Label : /\ Register(p, u)
                               /\ <<pc[p], u>> \in Gaps \/ (RegisterStop(p) /\ u = "stop")
        BY <1>1, <2>2 DEF Label, Gaps, Step, CreateStep, Interrupt, Crash, Goto, Register, WriteFile, AfterName,
         Acquire, GenerateName, TakeName, TakeVmid, MakeDir, Refuse, RejectSeed,
         EnterTry, PinImage, TestState, MakeState, WriteImage, WriteMode,
         WriteName, PickPort, WritePort, WriteWrapper, WriteVmid, WriteConf,
         AddUndo, RegisterStop, StartGuest, Fail, RunCleanup, Reraise, AfterPort,
         AfterConf
      <3>2. undos[p] \in Seq(Label) /\ undos'[p] = Append(undos[p], u)
        BY <3>1 DEF Register, TInv, TypeOK
      <3>3. PICK i \in DOMAIN undos'[p] : undos'[p][i] = l
        BY <1>5 DEF Registered
      <3>4. l = u \/ (i \in DOMAIN undos[p] /\ undos[p][i] = l)
        BY <3>2, <3>3
      <3> QED BY <3>1, <3>4 DEF Registered
    <2> QED BY <2>1, <2>2
  <1> QED BY <1>1, <1>2, <1>3, <1>4, <1>5

\* A create comes into play with the mkdir, and leaves it for good.
LEMMA EntersByMkdir ==
  ASSUME TInv, NEW p \in Creator, Step(p), pc'[p] \in InPlay
  PROVE  MakeDir(p) \/ pc[p] \in InPlay \ {"done"}
  BY DEF TInv, TypeOK, InPlay, LockedPc, TryPc, GapPc, PortPc, EndPc, Step, CreateStep, Interrupt, Crash, Goto, Register, WriteFile, AfterName,
         Acquire, GenerateName, TakeName, TakeVmid, MakeDir, Refuse, RejectSeed,
         EnterTry, PinImage, TestState, MakeState, WriteImage, WriteMode,
         WriteName, PickPort, WritePort, WriteWrapper, WriteVmid, WriteConf,
         AddUndo, RegisterStop, StartGuest, Fail, RunCleanup, Reraise, AfterPort,
         AfterConf

LEMMA StepPortUnset == ASSUME TInv, PortUnset, NEW c \in Creator, Step(c) PROVE PortUnset'
  <1> SUFFICES ASSUME NEW p \in Creator, pc'[p] \in {"lock"} \cup LockedPc \cup BeforePort
               PROVE  port'[p] = None
    BY DEF PortUnset
  <1>1. CASE p # c
    BY <1>1, OthersKeep DEF PortUnset
  <1>2. CASE p = c
    <2>1. pc[p] \in {"lock"} \cup LockedPc \cup BeforePort /\ port' = port
      BY <1>2 DEF TInv, TypeOK, LockedPc, BeforePort, BeforeName, BeforeMode, BeforeImage,
         BeforeState, Step, CreateStep, Interrupt, Crash, Goto, Register, WriteFile, AfterName,
         Acquire, GenerateName, TakeName, TakeVmid, MakeDir, Refuse, RejectSeed,
         EnterTry, PinImage, TestState, MakeState, WriteImage, WriteMode,
         WriteName, PickPort, WritePort, WriteWrapper, WriteVmid, WriteConf,
         AddUndo, RegisterStop, StartGuest, Fail, RunCleanup, Reraise, AfterPort,
         AfterConf
    <2> QED BY <2>1 DEF PortUnset
  <1> QED BY <1>1, <1>2

LEMMA StepConfigUndos ==
  ASSUME TInv, Stages, ConfigUndos, NEW c \in Creator, Step(c)
  PROVE  ConfigUndos'
  <1> SUFFICES ASSUME NEW p \in Creator, NEW l \in {"wrapper", "conf"}, Registered(p, l)'
               PROVE  req'[p].mode \in PveMode
    BY DEF ConfigUndos
  <1>0. req' = req /\ undos[c] \in Seq(Label)
    BY DEF TInv, TypeOK, Step, CreateStep, Interrupt, Crash, Goto, Register, WriteFile, AfterName,
         Acquire, GenerateName, TakeName, TakeVmid, MakeDir, Refuse, RejectSeed,
         EnterTry, PinImage, TestState, MakeState, WriteImage, WriteMode,
         WriteName, PickPort, WritePort, WriteWrapper, WriteVmid, WriteConf,
         AddUndo, RegisterStop, StartGuest, Fail, RunCleanup, Reraise, AfterPort,
         AfterConf
  <1>1. CASE undos'[p] = undos[p]
    BY <1>0, <1>1 DEF ConfigUndos, Registered
  <1>2. CASE RunCleanup(c) /\ p = c
    <2>1. undos'[p] = SubSeq(undos[p], 1, Len(undos[p]) - 1) /\ undos[p] # << >>
      BY <1>2 DEF RunCleanup, TInv, TypeOK
    <2>2. Registered(p, l)
      BY <1>0, <1>2, <2>1, Popped DEF Registered
    <2> QED BY <1>0, <2>2 DEF ConfigUndos
  <1>3. CASE undos'[p] # undos[p] /\ ~(RunCleanup(c) /\ p = c)
    <2>1. p = c
      BY <1>3, OthersKeep
    <2>2. PICK u \in Label : Register(p, u) /\ (u \in {"wrapper", "conf"} => pc[p] \in ConfPc)
      BY <1>3, <2>1 DEF Label, ConfPc, TInv, TypeOK, Step, CreateStep, Interrupt, Crash, Goto, Register, WriteFile, AfterName,
         Acquire, GenerateName, TakeName, TakeVmid, MakeDir, Refuse, RejectSeed,
         EnterTry, PinImage, TestState, MakeState, WriteImage, WriteMode,
         WriteName, PickPort, WritePort, WriteWrapper, WriteVmid, WriteConf,
         AddUndo, RegisterStop, StartGuest, Fail, RunCleanup, Reraise, AfterPort,
         AfterConf
    <2>3. undos'[p] = Append(undos[p], u)
      BY <2>2 DEF Register, TInv, TypeOK
    <2>4. PICK i \in DOMAIN undos'[p] : undos'[p][i] = l
      BY DEF Registered
    <2>5. l = u \/ Registered(p, l)
      BY <1>0, <2>1, <2>3, <2>4 DEF Registered
    <2> QED BY <1>0, <2>2, <2>5 DEF ConfigUndos, Stages
  <1> QED BY <1>1, <1>2, <1>3

\* The fields of an instance directory are all there is to it.
LEMMA SameFiles ==
  ASSUME NEW f \in Files, NEW g \in Files, f.dir = g.dir, f.image = g.image,
         f.mode = g.mode, f.name = g.name, f.port = g.port, f.vmid = g.vmid
  PROVE  f = g
  BY DEF Files

LEMMA FiledFields ==
  ASSUME TInv, NEW p \in Creator
  PROVE  /\ Filed(p) \in Files
         /\ Filed(p).dir = TRUE
         /\ Filed(p).image = (pc[p] \notin BeforeImage)
         /\ Filed(p).mode = IF pc[p] \in BeforeMode THEN None ELSE req[p].mode
         /\ Filed(p).name = IF pc[p] \in BeforeName THEN None ELSE name[p]
         /\ Filed(p).port = IF pc[p] = "portWrite" THEN None ELSE port[p]
         /\ Filed(p).vmid = IF pc[p] \in AfterVmid /\ req[p].mode = "pve-vm"
                              THEN vmid[p] ELSE None
  BY DEF Filed, Files, TInv, TypeOK, Request

\* A new directory is empty.
LEMMA FiledByMkdir ==
  ASSUME TInv, PortUnset, NEW p \in Creator, MakeDir(p)
  PROVE  disk'[Home(p)'] = Filed(p)'
  <1>1. pc'[p] = "enter" /\ port'[p] = None
    BY DEF MakeDir, Goto, PortUnset, LockedPc, TInv, TypeOK
  <1>2. Filed(p)' = EmptyDir
    BY <1>1 DEF Filed, EmptyDir, BeforeName, BeforeMode, BeforeImage, BeforeState,
       AfterVmid
  <1> QED BY <1>2, DirMade DEF TInv, TypeOK, HostTypeOK

\* What a create files itself, as long as nobody else has meddled with it.
LEMMA FiledByOwner ==
  ASSUME TInv, Stages, PortUnset, NEW p \in Creator, Step(p), ~MakeDir(p), pc'[p] \in InPlay,
         disk[Home(p)] = Filed(p)
  PROVE  disk'[Home(p)'] = Filed(p)'
  <1>1. pc[p] \in InPlay \ {"done"}
    BY EntersByMkdir
  <1>2. /\ Home(p)' = Home(p) /\ name'[p] = name[p] /\ vmid'[p] = vmid[p]
        /\ req' = req /\ Home(p) \in DirKey
    <2>1. Past(p) /\ Owns(p)
      BY <1>1 DEF InPlay, Past, LockedPc, Owns, TryPc, GapPc, PortPc
    <2> QED BY <2>1, PastKept, Keys DEF Owns, TryPc, GapPc, PortPc
  <1>3. disk[Home(p)] = Filed(p) /\ disk \in [DirKey -> Files]
    BY <1>1 DEF FilesKept, TInv, TypeOK, HostTypeOK
  <1>0. /\ disk' \in [DirKey -> Files]
        /\ Filed(p) \in Files /\ Filed(p)' \in Files
        /\ Filed(p).dir = TRUE
        /\ Filed(p).image = (pc[p] \notin BeforeImage)
        /\ Filed(p).mode = IF pc[p] \in BeforeMode THEN None ELSE req[p].mode
        /\ Filed(p).name = IF pc[p] \in BeforeName THEN None ELSE name[p]
        /\ Filed(p).port = IF pc[p] = "portWrite" THEN None ELSE port[p]
        /\ Filed(p).vmid = IF pc[p] \in AfterVmid /\ req[p].mode = "pve-vm"
                             THEN vmid[p] ELSE None
        /\ Filed(p)'.dir = TRUE
        /\ Filed(p)'.image = (pc'[p] \notin BeforeImage)
        /\ Filed(p)'.mode = IF pc'[p] \in BeforeMode THEN None ELSE req'[p].mode
        /\ Filed(p)'.name = IF pc'[p] \in BeforeName THEN None ELSE name'[p]
        /\ Filed(p)'.port = IF pc'[p] = "portWrite" THEN None ELSE port'[p]
        /\ Filed(p)'.vmid = IF pc'[p] \in AfterVmid /\ req'[p].mode = "pve-vm"
                             THEN vmid'[p] ELSE None
    <2>1. TInv'
      BY StepTyped DEF Step, Next, SInv
    <2> QED BY <2>1, FiledFields DEF Filed, Files, TInv, TypeOK, HostTypeOK, Request
  <1> DEFINE SameAs(f) ==
        /\ disk'[Home(p)].dir = f.dir /\ disk'[Home(p)].image = f.image
        /\ disk'[Home(p)].mode = f.mode /\ disk'[Home(p)].name = f.name
        /\ disk'[Home(p)].port = f.port /\ disk'[Home(p)].vmid = f.vmid
  <1> USE DEF BeforeName, BeforeMode, BeforeImage, BeforeState, AfterVmid
  <1>4. CASE MakeState(p)
    <2>1. /\ pc[p] \in {"stateFresh", "stateShared"} /\ pc'[p] \in {"stateUndo", "image"}
          /\ port'[p] = port[p]
          /\ disk' = disk \/ disk'[Home(p)] = [disk[Home(p)] EXCEPT !.dir = TRUE]
      BY <1>2, <1>3, <1>4 DEF MakeState, Goto, TInv, TypeOK
    <2>2. disk'[Home(p)] \in Files /\ disk[Home(p)] \in Files
      BY <1>2, <1>3, <1>0
    <2>3. SameAs(Filed(p)')
      BY <1>0, <1>2, <1>3, <2>1, <2>2 DEF Files
    <2> QED BY <1>0, <1>2, <2>2, <2>3, SameFiles
  <1>5. CASE WriteImage(p)
    <2>1. /\ pc[p] = "image" /\ pc'[p] = "mode" /\ port'[p] = port[p]
          /\ disk'[Home(p)] = [disk[Home(p)] EXCEPT !.image = TRUE]
      BY <1>1, <1>2, <1>3, <1>5 DEF WriteImage, WriteFile, Goto, TInv, TypeOK
    <2>2. disk'[Home(p)] \in Files /\ disk[Home(p)] \in Files
      BY <1>2, <1>3, <1>0
    <2>3. SameAs(Filed(p)')
      <3>1. disk'[Home(p)].image = TRUE /\ Filed(p)'.image = TRUE
        BY <1>0, <1>3, <2>1 DEF Files
      <3>2. /\ disk'[Home(p)].dir = Filed(p)'.dir
            /\ disk'[Home(p)].mode = Filed(p)'.mode
        BY <1>0, <1>2, <1>3, <2>1 DEF Files
      <3>3. /\ disk'[Home(p)].name = Filed(p)'.name
            /\ disk'[Home(p)].port = Filed(p)'.port
            /\ disk'[Home(p)].vmid = Filed(p)'.vmid
        BY <1>0, <1>2, <1>3, <2>1 DEF Files
      <3> QED BY <3>1, <3>2, <3>3
    <2> QED BY <1>0, <1>2, <2>2, <2>3, SameFiles
  <1>6. CASE WriteMode(p)
    <2>1. /\ pc[p] = "mode" /\ pc'[p] = "nameFile" /\ port'[p] = port[p]
          /\ disk'[Home(p)] = [disk[Home(p)] EXCEPT !.mode = req[p].mode]
      BY <1>1, <1>2, <1>3, <1>6 DEF WriteMode, WriteFile, Goto, TInv, TypeOK
    <2>2. disk'[Home(p)] \in Files /\ disk[Home(p)] \in Files
      BY <1>2, <1>3, <1>0
    <2>3. SameAs(Filed(p)')
      BY <1>0, <1>3, <2>2, <1>2, <2>1 DEF Files
    <2> QED BY <1>0, <1>2, <2>2, <2>3, SameFiles
  <1> DEFINE AfterPorts == {"wrapper", "conf", "start", "done"}
             NoVmidYet == req[p].mode = "pve-vm" => pc'[p] \notin AfterVmid
  <1>7. CASE WriteName(p)
    <2>1. /\ pc[p] = "nameFile" /\ pc'[p] \in {"portLock"} \cup AfterPorts /\ NoVmidYet /\ port'[p] = port[p]
          /\ disk'[Home(p)] = [disk[Home(p)] EXCEPT !.name = name[p]]
      BY <1>1, <1>2, <1>3, <1>7 DEF WriteName, WriteFile, AfterPort, AfterConf, Goto, TInv, TypeOK
    <2>2. disk'[Home(p)] \in Files /\ disk[Home(p)] \in Files
      BY <1>2, <1>3, <1>0
    <2>3. SameAs(Filed(p)')
      BY <1>0, <1>3, <2>2, <1>2, <2>1, <1>1 DEF PortUnset, BeforePort, Files
    <2> QED BY <1>0, <1>2, <2>2, <2>3, SameFiles
  <1>8. CASE WritePort(p)
    <2>1. /\ pc[p] = "portWrite" /\ pc'[p] \in AfterPorts /\ NoVmidYet /\ port'[p] = port[p]
          /\ disk'[Home(p)] = [disk[Home(p)] EXCEPT !.port = port[p]]
      BY <1>1, <1>2, <1>3, <1>8 DEF WritePort, AfterPort, AfterConf, Goto, TInv, TypeOK
    <2>2. disk'[Home(p)] \in Files /\ disk[Home(p)] \in Files
      BY <1>2, <1>3, <1>0
    <2>3. SameAs(Filed(p)')
      BY <1>0, <1>3, <2>2, <1>2, <2>1 DEF Files
    <2> QED BY <1>0, <1>2, <2>2, <2>3, SameFiles
  <1>9. CASE WriteVmid(p)
    <2>1. /\ pc[p] = "vmidFile" /\ pc'[p] = "conf" /\ port'[p] = port[p]
          /\ disk'[Home(p)] = [disk[Home(p)] EXCEPT !.vmid = vmid[p]]
      BY <1>1, <1>2, <1>3, <1>9 DEF WriteVmid, WriteFile, Goto, TInv, TypeOK
    <2>2. disk'[Home(p)] \in Files /\ disk[Home(p)] \in Files
      BY <1>2, <1>3, <1>0
    <2>3. SameAs(Filed(p)')
      BY <1>0, <1>2, <1>3, <2>1, <2>2 DEF Files, Stages
    <2> QED BY <1>0, <1>2, <2>2, <2>3, SameFiles
  <1>10. CASE ~(\/ MakeState(p) \/ WriteImage(p) \/ WriteMode(p) \/ WriteName(p)
                \/ WritePort(p) \/ WriteVmid(p))
    <2>1. disk' = disk
      BY <1>1, <1>10
      DEF InPlay, TryPc, GapPc, PortPc, host, EndPc, TInv, TypeOK, Step, CreateStep, Interrupt, Crash, Goto, Register, WriteFile, AfterName,
       Acquire, GenerateName, TakeName, TakeVmid, MakeDir, Refuse, RejectSeed,
       EnterTry, PinImage, TestState, MakeState, WriteImage, WriteMode,
       WriteName, PickPort, WritePort, WriteWrapper, WriteVmid, WriteConf,
       AddUndo, RegisterStop, StartGuest, Fail, RunCleanup, Reraise, AfterPort,
       AfterConf
    <2>2. /\ pc'[p] \in BeforeImage <=> pc[p] \in BeforeImage
          /\ pc'[p] \in BeforeMode <=> pc[p] \in BeforeMode
          /\ pc'[p] \in BeforeName <=> pc[p] \in BeforeName
          /\ req[p].mode = "pve-vm" => (pc'[p] \in AfterVmid <=> pc[p] \in AfterVmid)
          /\ pc[p] # "portWrite"
          /\ \/ port'[p] = port[p] /\ pc'[p] # "portWrite"
             \/ PickPort(p)
      BY <1>1, <1>10
      DEF InPlay, TryPc, GapPc, PortPc, LockedPc, EndPc, TInv, TypeOK, Step, CreateStep, Interrupt, Crash, Goto, Register, WriteFile, AfterName,
       Acquire, GenerateName, TakeName, TakeVmid, MakeDir, Refuse, RejectSeed,
       EnterTry, PinImage, TestState, MakeState, WriteImage, WriteMode,
       WriteName, PickPort, WritePort, WriteWrapper, WriteVmid, WriteConf,
       AddUndo, RegisterStop, StartGuest, Fail, RunCleanup, Reraise, AfterPort,
       AfterConf
    <2>3. PickPort(p) => port[p] = None /\ pc'[p] = "portWrite"
      BY DEF PickPort, PortUnset, BeforePort, Goto, TInv, TypeOK
    <2>4. Filed(p)' = Filed(p)
      BY <1>2, <2>2, <2>3 DEF Filed
    <2> QED BY <1>2, <1>3, <2>1, <2>4
  <1> QED BY <1>4, <1>5, <1>6, <1>7, <1>8, <1>9, <1>10

LEMMA StepFilesKept ==
  ASSUME SInv, Stages, PortUnset, FilesKept, NEW c \in Creator, Step(c)
  PROVE  FilesKept'
  <1> SUFFICES ASSUME NEW p \in Creator, pc'[p] \in InPlay
               PROVE  disk'[Home(p)'] = Filed(p)'
    BY DEF FilesKept
  <1>1. CASE p # c
    <2>1. pc[p] \in InPlay /\ Owns(p)
      BY <1>1, OthersKeep DEF SInv, InPlay, Owns
    <2>2. Filed(p)' = Filed(p)
      BY <1>1, OthersKeep DEF SInv, Filed
    <2> QED BY <1>1, <2>1, <2>2, OthersDirs DEF SInv, FilesKept
  <1>2. CASE p = c /\ MakeDir(p)
    BY <1>2, FiledByMkdir DEF SInv
  <1>3. CASE p = c /\ ~MakeDir(p)
    <2>1. pc[p] \in InPlay
      BY <1>3, EntersByMkdir DEF SInv
    <2> QED BY <1>3, <2>1, FiledByOwner DEF SInv, FilesKept
  <1> QED BY <1>1, <1>2, <1>3

\* The layers a create has made are there, as long as nobody else takes them.
LEMMA LayersByOwner ==
  ASSUME TInv, Stages, NEW p \in Creator, Step(p), LayerKept(p)
  PROVE  LayerKept(p)'
  <1> SUFFICES ASSUME pc'[p] \in InPlay
               PROVE  /\ pc'[p] \notin BeforeState => StateDir(Home(p))' \in layers'
                      /\ pc'[p] \in {"stateFresh", "stateUndo"} =>
                           StateDir(Home(p))' # Home(p)'
    BY DEF LayerKept, StateDir
  <1>1. CASE MakeDir(p)
    <2>1. pc'[p] = "enter"
      BY <1>1 DEF MakeDir, Goto, TInv, TypeOK
    <2> QED BY <2>1 DEF BeforeState
  <1>2. CASE ~MakeDir(p)
    <2>1. pc[p] \in InPlay \ {"done"}
      BY <1>2, EntersByMkdir
    <2>2. /\ Home(p)' = Home(p) /\ StateDir(Home(p))' = StateDir(Home(p))
          /\ layers \subseteq layers'
      BY <1>2, <2>1, OwnGrowth
    <2>3. \/ pc[p] \notin BeforeState /\ pc'[p] # "stateFresh" /\ pc'[p] # "stateUndo"
          \/ MakeState(p)
          \/ pc'[p] \in BeforeState \ {"stateFresh"}
          \/ TestState(p)
      BY <1>2, <2>1 DEF BeforeState, InPlay, TryPc, GapPc, PortPc, TInv, TypeOK, Step, CreateStep, Interrupt, Crash, Goto, Register, WriteFile, AfterName,
         Acquire, GenerateName, TakeName, TakeVmid, MakeDir, Refuse, RejectSeed,
         EnterTry, PinImage, TestState, MakeState, WriteImage, WriteMode,
         WriteName, PickPort, WritePort, WriteWrapper, WriteVmid, WriteConf,
         AddUndo, RegisterStop, StartGuest, Fail, RunCleanup, Reraise, AfterPort,
         AfterConf
    <2>4. CASE MakeState(p)
      <3>1. StateDir(Home(p)) \in layers' /\ (pc'[p] = "stateUndo" => pc[p] = "stateFresh")
        BY <2>4 DEF MakeState, Goto, TInv, TypeOK
      <3>2. pc'[p] # "stateFresh"
        BY <2>4 DEF MakeState, Goto, TInv, TypeOK
      <3> QED BY <2>1, <2>2, <3>1, <3>2 DEF LayerKept
    <2>5. CASE TestState(p)
      <3>1. pc'[p] \in BeforeState /\ pc'[p] # "stateUndo"
        BY <2>5 DEF TestState, Goto, TInv, TypeOK, BeforeState
      <3>2. pc'[p] = "stateFresh" => StateDir(Home(p)) # Home(p)
        BY <2>5 DEF TestState, Goto, TInv, TypeOK
      <3> QED BY <2>2, <3>1, <3>2
    <2> QED BY <2>1, <2>2, <2>3, <2>4, <2>5 DEF LayerKept, BeforeState
  <1> QED BY <1>1, <1>2

LEMMA StepLayersKept ==
  ASSUME SInv, Stages, StatesApart, LayersKept, NEW c \in Creator, Step(c)
  PROVE  LayersKept'
  <1> SUFFICES ASSUME NEW p \in Creator PROVE LayerKept(p)'
    BY DEF LayersKept
  <1>1. CASE p # c
    <2> SUFFICES ASSUME pc'[p] \in InPlay
                 PROVE  /\ pc'[p] \notin BeforeState => StateDir(Home(p))' \in layers'
                        /\ pc'[p] \in {"stateFresh", "stateUndo"} =>
                             StateDir(Home(p))' # Home(p)'
      BY DEF LayerKept, StateDir
    <2>1. pc'[p] = pc[p] /\ Owns(p)
      BY <1>1, OthersKeep DEF SInv, InPlay, Owns
    <2> QED BY <1>1, <2>1, OthersLeave DEF LayersKept, LayerKept, StateDir
  <1>2. CASE p = c
    BY <1>2, LayersByOwner DEF SInv, LayersKept
  <1> QED BY <1>1, <1>2

\* So is what an undo is registered for.
LEMMA UndosByOwner ==
  ASSUME TInv, UndoShape, Stages, NEW p \in Creator, Step(p), LayerKept(p),
         NEW l \in {"state", "wrapper", "conf"}, UndoInPlace(p, l)
  PROVE  UndoInPlace(p, l)'
  <1> SUFFICES ASSUME pc'[p] \in InPlay, Registered(p, l)' \/ <<pc'[p], l>> \in Gaps
               PROVE  InPlace(p, l)'
    BY DEF UndoInPlace
  <1>0. l \in Label
    BY DEF Label
  <1>1. CASE MakeDir(p)
    <2>1. pc'[p] = "enter" /\ undos'[p] = << >>
      BY <1>1 DEF MakeDir, Goto, TInv, TypeOK, UndoShape, LockedPc
    <2> QED BY <1>1, <2>1 DEF Registered, Gaps
  <1>2. CASE ~MakeDir(p)
    <2>1. pc[p] \in InPlay \ {"done"}
      BY <1>2, EntersByMkdir
    <2>2. /\ Home(p)' = Home(p) /\ Conf(p)' = Conf(p) /\ req' = req
          /\ StateDir(Home(p))' = StateDir(Home(p))
          /\ req[p].mode \in PveMode => Conf(p) \in ConfKey
          /\ layers \subseteq layers'
          /\ wrapper' \in {wrapper, [wrapper EXCEPT ![Conf(p)] = Home(p)]}
          /\ conf' \in {conf, [conf EXCEPT ![Conf(p)] = Home(p)]}
          /\ Registered(p, l)' => Registered(p, l) \/ <<pc[p], l>> \in Gaps
      BY <1>0, <1>2, <2>1, OwnGrowth
    <2>3. InPlace(p, l) => InPlace(p, l)'
      <3>1. CASE l = "state"
        BY <2>2, <3>1 DEF InPlace
      <3>2. CASE l = "wrapper"
        BY <2>2, <3>2 DEF InPlace, TInv, TypeOK, HostTypeOK
      <3>3. CASE l = "conf"
        BY <2>2, <3>3 DEF InPlace, TInv, TypeOK, HostTypeOK
      <3> QED BY <1>0, <1>2, <3>1, <3>2, <3>3
    <2>4. CASE Registered(p, l)'
      BY <2>1, <2>2, <2>3, <2>4 DEF UndoInPlace
    <2>5. CASE <<pc'[p], l>> \in Gaps
      <3>1. \/ pc'[p] = "stateUndo" /\ l = "state" /\ MakeState(p)
            \/ pc'[p] = "wrapperUndo" /\ l = "wrapper" /\ WriteWrapper(p)
            \/ pc'[p] = "confUndo" /\ l = "conf" /\ WriteConf(p)
        BY <1>0, <1>2, <2>1, <2>5
        DEF Gaps, InPlay, TryPc, GapPc, PortPc, TInv, TypeOK, Step, CreateStep, Interrupt, Crash, Goto, Register, WriteFile, AfterName,
         Acquire, GenerateName, TakeName, TakeVmid, MakeDir, Refuse, RejectSeed,
         EnterTry, PinImage, TestState, MakeState, WriteImage, WriteMode,
         WriteName, PickPort, WritePort, WriteWrapper, WriteVmid, WriteConf,
         AddUndo, RegisterStop, StartGuest, Fail, RunCleanup, Reraise, AfterPort,
         AfterConf
      <3>2. CASE MakeState(p) /\ pc'[p] = "stateUndo" /\ l = "state"
        <4>1. pc[p] = "stateFresh" /\ StateDir(Home(p)) \in layers'
          BY <3>2 DEF MakeState, Goto, TInv, TypeOK
        <4> QED BY <2>1, <2>2, <3>2, <4>1 DEF LayerKept, InPlace
      <3>3. CASE WriteWrapper(p) /\ l = "wrapper"
        BY <2>2, <3>3
        DEF WriteWrapper, Stages, ConfPc, InPlace, TInv, TypeOK, HostTypeOK
      <3>4. CASE WriteConf(p) /\ l = "conf"
        BY <2>2, <3>4
        DEF WriteConf, Stages, ConfPc, InPlace, TInv, TypeOK, HostTypeOK
      <3> QED BY <3>1, <3>2, <3>3, <3>4
    <2> QED BY <2>4, <2>5
  <1> QED BY <1>1, <1>2

LEMMA StepUndoInPlace ==
  ASSUME SInv, Stages, ConfigUndos, StatesApart, LayersKept, NEW c \in Creator, Step(c),
         NEW p \in Creator, NEW l \in Label \ {"hold", "stop"}, UndoInPlace(p, l),
         l \in {"wrapper", "conf"} => GuestApart(p)
  PROVE  UndoInPlace(p, l)'
  <1> SUFFICES ASSUME pc'[p] \in InPlay, Registered(p, l)' \/ <<pc'[p], l>> \in Gaps
               PROVE  InPlace(p, l)'
    BY DEF UndoInPlace
  <1>0. l \in {"dir", "state", "wrapper", "conf"}
    BY DEF Label
  <1>1. CASE p # c
    <2>1. /\ pc'[p] = pc[p] /\ undos'[p] = undos[p] /\ name'[p] = name[p]
          /\ req' = req /\ Owns(p)
      BY <1>1, OthersKeep DEF SInv, InPlay, Owns
    <2>2. InPlace(p, l)
      BY <2>1 DEF UndoInPlace, Registered
    <2>3. /\ Home(p)' = Home(p) /\ Conf(p)' = Conf(p)
          /\ StateDir(Home(p))' = StateDir(Home(p))
          /\ disk'[Home(p)] = disk[Home(p)]
          /\ StateDir(Home(p)) \in layers => StateDir(Home(p)) \in layers'
      BY <1>1, <2>1, OthersLeave DEF StateDir
    <2>4. l \in {"wrapper", "conf"} /\ req[p].mode \in PveMode =>
            wrapper'[Conf(p)] = wrapper[Conf(p)] /\ conf'[Conf(p)] = conf[Conf(p)]
      BY <1>1, <2>1, OthersSpare DEF GuestApart, SInv
    <2>5. CASE l = "dir"
      BY <2>2, <2>3, <2>5 DEF InPlace
    <2>6. CASE l = "state"
      BY <2>2, <2>3, <2>6 DEF InPlace
    <2>7. CASE l = "wrapper"
      BY <2>1, <2>2, <2>3, <2>7, <2>4 DEF InPlace
    <2>8. CASE l = "conf"
      BY <2>1, <2>2, <2>3, <2>8, <2>4 DEF InPlace
    <2> QED BY <1>0, <2>5, <2>6, <2>7, <2>8
  <1>2. CASE p = c /\ l = "dir"
    <2>1. Owns(p)'
      BY DEF InPlay, Owns
    <2> QED BY <1>2, <2>1, OwnDirStays DEF InPlace, SInv
  <1>3. CASE p = c /\ l # "dir"
    BY <1>0, <1>3, UndosByOwner DEF UndoInPlace, SInv, LayersKept
  <1> QED BY <1>1, <1>2, <1>3

\* A guest that was started runs, as long as nobody else stops it.
LEMMA StopByOwner ==
  ASSUME TInv, UndoShape, Stages, NEW p \in Creator, Step(p), StopKept(p)
  PROVE  StopKept(p)'
  <1> SUFFICES ASSUME pc'[p] \in InPlay, Registered(p, "stop")'
               PROVE  /\ pc'[p] \in {"boot", "done"}
                      /\ pc'[p] = "done" => Guests(p)' \in up'
    BY DEF StopKept
  <1>1. CASE MakeDir(p)
    <2>1. undos'[p] = << >>
      BY <1>1 DEF MakeDir, UndoShape, LockedPc
    <2> QED BY <2>1 DEF Registered
  <1>2. CASE ~MakeDir(p)
    <2>1. pc[p] \in InPlay \ {"done"}
      BY <1>2, EntersByMkdir
    <2>2. Registered(p, "stop") \/ RegisterStop(p)
      BY <1>2, <2>1, OwnGrowth DEF Label, Gaps
    <2>3. CASE RegisterStop(p)
      BY <2>3 DEF RegisterStop, Goto, TInv, TypeOK
    <2>4. CASE Registered(p, "stop")
      <3>1. pc[p] = "boot"
        BY <2>1, <2>4 DEF StopKept
      <3>2. StartGuest(p)
        BY <1>2, <3>1 DEF InPlay, TryPc, GapPc, PortPc, LockedPc, TInv, TypeOK, Step, CreateStep, Interrupt, Crash, Goto, Register, WriteFile, AfterName,
         Acquire, GenerateName, TakeName, TakeVmid, MakeDir, Refuse, RejectSeed,
         EnterTry, PinImage, TestState, MakeState, WriteImage, WriteMode,
         WriteName, PickPort, WritePort, WriteWrapper, WriteVmid, WriteConf,
         AddUndo, RegisterStop, StartGuest, Fail, RunCleanup, Reraise, AfterPort,
         AfterConf
      <3> QED BY <1>2, <2>1, <3>2, OwnGrowth DEF StartGuest, Goto, InPlay, TryPc, GapPc,
           PortPc, TInv, TypeOK
    <2> QED BY <2>2, <2>3, <2>4
  <1> QED BY <1>1, <1>2

LEMMA StepStopKept ==
  ASSUME SInv, Stages, ConfigUndos, NEW c \in Creator, Step(c),
         NEW p \in Creator, StopKept(p), GuestApart(p)
  PROVE  StopKept(p)'
  <1> SUFFICES ASSUME pc'[p] \in InPlay, Registered(p, "stop")'
               PROVE  /\ pc'[p] \in {"boot", "done"}
                      /\ pc'[p] = "done" => Guests(p)' \in up'
    BY DEF StopKept
  <1>1. CASE p # c
    <2>1. pc'[p] = pc[p] /\ undos'[p] = undos[p] /\ Owns(p)
      BY <1>1, OthersKeep DEF SInv, InPlay, Owns
    <2>2. Guests(p)' = Guests(p)
      BY <1>1, OthersKeep DEF SInv, Guests
    <2>3. Guests(p) \in up => Guests(p) \in up'
      BY <1>1, <2>1, OthersSpare DEF GuestApart, SInv
    <2> QED BY <1>1, <2>1, <2>2, <2>3 DEF StopKept, Registered
  <1>2. CASE p = c
    BY <1>2, StopByOwner DEF SInv, StopKept
  <1> QED BY <1>1, <1>2

KInv == /\ SInv /\ Asked /\ Stages /\ ConfigUndos /\ PortUnset /\ FilesKept
        /\ LayersKept /\ UndosInPlace /\ StopsKept

\* Nothing a create that has succeeded has made is ever taken away or
\* overwritten by the others, whatever fails, is interrupted or is killed
\* (create.py:1006-1562): its files are complete, its layers are there, and so
\* are the wrapper, the Proxmox config and the running guest it has registered
\* an undo for.  Two Proxmox VMs at once are excepted (CreateVmidRace), and
\* where the layers live outside the instance directories, creates that may come
\* by one name in two namespaces: both would work with one state directory.
THEOREM CommittedStays ==
  ASSUME OneVm, LayersApart
  PROVE  Spec => []CommittedIntact
  <1>0. IdsApart
    BY DEF LayersApart, IdsApart
  <1> DEFINE Apart == OutsideState => OwnersNamed
  <1>1. Spec => []Apart
    <2>1. CASE OutsideState
      <3>1. NamesApart
        BY <2>1 DEF LayersApart
      <3>2. NamedInv => Apart
        BY <3>1, NamesTellApart DEF NamedInv, NInv, SInv
      <3>3. Spec => []NamedInv
        BY <3>1, NamedInvariant
      <3> QED BY <3>2, <3>3, PTL
    <2>2. CASE ~OutsideState
      <3>1. Apart
        BY <2>2
      <3> QED BY <3>1, PTL
    <2> QED BY <2>1, <2>2
  <1>2. Init => KInv
    <2> SUFFICES ASSUME Init PROVE KInv
      OBVIOUS
    <2>1. \A p \in Creator : /\ pc[p] = "lock" /\ undos[p] = << >> /\ stuck[p] = {}
                             /\ port[p] = None /\ req[p] \in Asks[p]
      BY DEF Init
    <2>2. "lock" \notin InPlay
      BY DEF InPlay, TryPc, GapPc, PortPc
    <2>3. SInv /\ Asked /\ Stages /\ ConfigUndos
      BY <2>1, InitSafe DEF Asked, Stages, ConfPc, ConfigUndos, Registered
    <2>4. PortUnset /\ FilesKept /\ LayersKept /\ UndosInPlace /\ StopsKept
      BY <2>1, <2>2 DEF PortUnset, FilesKept, LayersKept, LayerKept, UndosInPlace, UndoInPlace,
         StopsKept, StopKept
    <2> QED BY <2>3, <2>4 DEF KInv
  <1>3. KInv /\ Apart /\ [Next]_vars => KInv'
    <2>1. ASSUME KInv, Apart, NEW c \in Creator, Step(c) PROVE KInv'
      <3>1. SInv' /\ Asked'
        BY <2>1, StepSafe, StepAsked DEF KInv, Step, Next
      <3>2. StatesApart /\ \A p \in Creator : GuestApart(p)
        BY <1>0, <2>1, StatesTellApart, GuestsTellApart DEF KInv
      <3>3. Stages' /\ ConfigUndos' /\ PortUnset' /\ FilesKept'
        BY <2>1, StepStages, StepConfigUndos, StepPortUnset, StepFilesKept
        DEF KInv, SInv
      <3>4. LayersKept' /\ UndosInPlace' /\ StopsKept'
        BY <2>1, <3>2, StepLayersKept, StepUndoInPlace, StepStopKept
        DEF KInv, UndosInPlace, StopsKept
      <3> QED BY <3>1, <3>3, <3>4 DEF KInv
    <2>2. ASSUME KInv, UNCHANGED vars PROVE KInv'
      <3>1. SInv' /\ Asked'
        BY <2>2, StepSafe, StepAsked DEF KInv
      <3>2. Stages' /\ ConfigUndos' /\ PortUnset'
        BY <2>2 DEF vars, local, KInv, Stages, ConfigUndos, Registered, PortUnset
      <3>3. FilesKept' /\ LayersKept'
        BY <2>2 DEF vars, local, host, KInv, FilesKept, LayersKept, LayerKept, Filed, Home, StateDir
      <3>4. UndosInPlace' /\ StopsKept'
        BY <2>2 DEF vars, local, host, KInv, UndosInPlace, UndoInPlace, StopsKept,
           StopKept, Registered, InPlace, Home, Conf, Guests, StateDir
      <3> QED BY <3>1, <3>2, <3>3, <3>4 DEF KInv
    <2> QED BY <2>1, <2>2 DEF Next, Finished, Step
  <1>4. KInv => CommittedIntact
    <2> SUFFICES ASSUME KInv, NEW p \in Creator, pc[p] = "done" PROVE Intact(p)
      BY DEF CommittedIntact
    <2>1. pc[p] \in InPlay
      BY DEF InPlay
    <2>2. disk[Home(p)] = Written(p)
      <3>1. disk[Home(p)] = Filed(p)
        BY <2>1 DEF KInv, FilesKept
      <3> QED BY <3>1 DEF Filed, Written, BeforeName, BeforeMode, BeforeImage, BeforeState,
           AfterVmid
    <2>3. StateDir(Home(p)) \in layers
      BY <2>1 DEF KInv, LayersKept, LayerKept, BeforeState
    <2>4. ASSUME NEW i \in DOMAIN undos[p], undos[p][i] # "hold"
          PROVE  InPlace(p, undos[p][i])
      <3>1. undos[p] \in Seq(Label)
        BY DEF KInv, SInv, TInv, TypeOK
      <3>2. undos[p][i] \in Label /\ Registered(p, undos[p][i])
        BY <3>1 DEF Registered
      <3>3. CASE undos[p][i] = "stop"
        BY <2>1, <3>2, <3>3 DEF KInv, StopsKept, StopKept, InPlace
      <3>4. CASE undos[p][i] # "stop"
        BY <2>1, <2>4, <3>2, <3>4 DEF KInv, UndosInPlace, UndoInPlace
      <3> QED BY <3>3, <3>4
    <2> QED BY <2>2, <2>3, <2>4 DEF Intact
  <1> HIDE DEF Apart
  <1> QED BY <1>1, <1>2, <1>3, <1>4, PTL DEF Spec
===============================================================================
