----------------------------- MODULE CreateProofs -----------------------------
(***************************************************************************)
(* What holds of Create for any number of invocations, names, VMIDs and    *)
(* ports, with interrupts, crashes and failing undos all allowed.          *)
(***************************************************************************)
EXTENDS Create, SequenceTheorems, TLAPS

\* Names and VMIDs are resolved before anything is filed under them.
Resolved ==
  \A p \in Creator :
    /\ pc[p] \notin {"lock", "name", "refused", "crashed"} => name[p] \in Name
    /\ /\ pc[p] \notin {"lock", "name", "vmid", "refused", "crashed"}
       /\ req[p].mode \in PveMode
       => vmid[p] \in Vmid

TInv == TypeOK /\ Resolved

\* Everything a create with a resolved name files has a key of the right kind.
LEMMA Keys ==
  ASSUME TInv, NEW p \in Creator,
         pc[p] \notin {"lock", "name", "vmid", "refused", "crashed"}
  PROVE  /\ Home(p) \in DirKey
         /\ StateDir(Home(p)) \in StateKey
         /\ Guests(p) \in Guest
  <1>1. /\ req[p].mode \in Mode
        /\ name[p] \in Name
        /\ req[p].mode \in PveMode => vmid[p] \in Vmid
    BY DEF TInv, TypeOK, Resolved, Request
  <1>2. Home(p) \in DirKey
    BY <1>1 DEF Home, DirOf, BaseOf, DirKey, Mode, PveMode
  <1>3. StateDir(Home(p)) \in StateKey
    BY <1>2 DEF StateDir, StateKey, DirKey
  <1>4. Guests(p) \in Guest
    BY <1>1, <1>2 DEF Guests, GuestOf, Home, Guest, ConfOf, ConfKey
  <1> QED BY <1>2, <1>3, <1>4

\* What _run_cleanup's undos.pop() leaves.
LEMMA Popped ==
  ASSUME NEW u \in Seq(Label), u # << >>
  PROVE  /\ Len(u) \in Nat \ {0}
         /\ u[Len(u)] \in Label
         /\ SubSeq(u, 1, Len(u) - 1) \in Seq(Label)
         /\ Len(SubSeq(u, 1, Len(u) - 1)) = Len(u) - 1
         /\ \A i \in 1 .. Len(u) - 1 : SubSeq(u, 1, Len(u) - 1)[i] = u[i]
  <1>1. Len(u) \in Nat \ {0}
    BY EmptySeq
  <1>2. \A i \in 1 .. Len(u) : u[i] \in Label
    BY ElementOfSeq
  <1> DEFINE n == Len(u) - 1
  <1>3. n \in Nat /\ n < Len(u) /\ \A i \in 1 .. n : u[i] \in Label
    BY <1>1, <1>2
  <1> HIDE DEF n
  <1>4. SubSeq(u, 1, n) \in Seq(Label)
    BY <1>3
  <1>5. Len(SubSeq(u, 1, n)) = n
    BY <1>3
  <1>6. \A i \in 1 .. n : SubSeq(u, 1, n)[i] = u[i]
    BY <1>3
  <1> QED
    BY <1>1, <1>2, <1>4, <1>5, <1>6 DEF n

\* The invocations always start from a request they may have been given.
LEMMA InitTyped == Init => TInv
  <1> SUFFICES ASSUME Init PROVE TInv
    OBVIOUS
  <1> USE CreateAssumption, StateAssumption
  <1>1. HostTypeOK
    BY DEF Init, HostInit, HostTypeOK, Files, NoDir, DirKey, ConfKey
  <1>2. req \in [Creator -> Request]
    BY DEF Init
  <1>3. TypeOK
    BY <1>1, <1>2 DEF Init, TypeOK, Pc
  <1>4. Resolved
    BY DEF Init, Resolved
  <1> QED BY <1>3, <1>4 DEF TInv

\* No step of create() leaves the types.
LEMMA StepTyped == TInv /\ [Next]_vars => TInv'
  <1> SUFFICES ASSUME TInv, [Next]_vars PROVE TInv'
    OBVIOUS
  <1> USE CreateAssumption, StateAssumption
          DEF TInv, TypeOK, HostTypeOK, Resolved, local, host, Goto,
              Pc, LockedPc, TryPc, GapPc, PortPc, EndPc
  <1>1. ASSUME NEW p \in Creator, CreateStep(p) PROVE TInv'
    <2>1. CASE Acquire(p)
      BY <2>1 DEF Acquire
    <2>2. CASE GenerateName(p)
      BY <2>2 DEF GenerateName, AfterName, FreeAutoName
    <2>3. CASE TakeName(p)
      BY <2>3 DEF TakeName, AfterName, Request
    <2>4. CASE TakeVmid(p)
      BY <2>4 DEF TakeVmid, FreeVmids
    <2>5. CASE MakeDir(p)
      BY <2>5 DEF MakeDir, EmptyDir, Files
    <2>6. CASE Refuse(p)
      BY <2>6 DEF Refuse
    <2>7. CASE RejectSeed(p)
      BY <2>7 DEF RejectSeed, NoDir, Files
    <2>8. CASE EnterTry(p)
      BY <2>8 DEF EnterTry, Register, Label
    <2>9. CASE PinImage(p)
      BY <2>9 DEF PinImage
    <2>10. CASE TestState(p)
      BY <2>10 DEF TestState
    <2>11. CASE MakeState(p)
      <3>1. Home(p) \in DirKey /\ disk[Home(p)] \in Files /\ StateDir(Home(p)) \in StateKey
        BY <2>11, Keys DEF MakeState
      <3>2. [disk[Home(p)] EXCEPT !.dir = TRUE] \in Files
        BY <3>1 DEF Files
      <3>3. disk' \in [DirKey -> Files]
        BY <3>1, <3>2, <2>11 DEF MakeState
      <3> QED
        BY <3>1, <3>3, <2>11 DEF MakeState
    <2>12. CASE WriteImage(p)
      <3>1. Home(p) \in DirKey /\ disk[Home(p)] \in Files
        BY <2>12, Keys DEF WriteImage
      <3>2. [disk[Home(p)] EXCEPT !.image = TRUE] \in Files
        BY <3>1, <2>12 DEF Files, WriteImage
      <3>3. disk' \in [DirKey -> Files]
        BY <3>1, <3>2, <2>12 DEF WriteImage, WriteFile
      <3> QED
        BY <3>3, <2>12 DEF WriteImage, WriteFile
    <2>13. CASE WriteMode(p)
      <3>1. Home(p) \in DirKey /\ disk[Home(p)] \in Files
        BY <2>13, Keys DEF WriteMode
      <3>2. [disk[Home(p)] EXCEPT !.mode = req[p].mode] \in Files
        BY <3>1, <2>13 DEF Files, WriteMode, Request
      <3>3. disk' \in [DirKey -> Files]
        BY <3>1, <3>2, <2>13 DEF WriteMode, WriteFile
      <3> QED
        BY <3>3, <2>13 DEF WriteMode, WriteFile
    <2>14. CASE WriteName(p)
      <3>1. Home(p) \in DirKey /\ disk[Home(p)] \in Files
        BY <2>14, Keys DEF WriteName
      <3>2. [disk[Home(p)] EXCEPT !.name = name[p]] \in Files
        BY <3>1, <2>14 DEF Files, WriteName
      <3>3. disk' \in [DirKey -> Files]
        BY <3>1, <3>2, <2>14 DEF WriteName, WriteFile
      <3> QED
        BY <3>3, <2>14 DEF WriteName, WriteFile, AfterPort, AfterConf
    <2>15. CASE PickPort(p)
      BY <2>15 DEF PickPort, Request
    <2>16. CASE WritePort(p)
      <3>1. Home(p) \in DirKey /\ disk[Home(p)] \in Files
        BY <2>16, Keys DEF WritePort
      <3>2. [disk[Home(p)] EXCEPT !.port = port[p]] \in Files
        BY <3>1, <2>16 DEF Files, WritePort
      <3>3. disk' \in [DirKey -> Files]
        BY <3>1, <3>2, <2>16 DEF WritePort, WriteFile
      <3> QED
        BY <3>3, <2>16 DEF WritePort, WriteFile, AfterPort, AfterConf
    <2>17. CASE WriteWrapper(p)
      BY <2>17, Keys DEF WriteWrapper
    <2>18. CASE WriteVmid(p)
      <3>1. Home(p) \in DirKey /\ disk[Home(p)] \in Files
        BY <2>18, Keys DEF WriteVmid
      <3>2. [disk[Home(p)] EXCEPT !.vmid = vmid[p]] \in Files
        BY <3>1, <2>18 DEF Files, WriteVmid
      <3>3. disk' \in [DirKey -> Files]
        BY <3>1, <3>2, <2>18 DEF WriteVmid, WriteFile
      <3> QED
        BY <3>3, <2>18 DEF WriteVmid, WriteFile
    <2>19. CASE WriteConf(p)
      BY <2>19, Keys DEF WriteConf
    <2>20. CASE AddUndo(p)
      <3>1. undos' \in [Creator -> Seq(Label)]
        <4>1. \A l \in Label : Append(undos[p], l) \in Seq(Label)
          OBVIOUS
        <4>2. {"hold", "state", "wrapper", "conf"} \subseteq Label
          BY DEF Label
        <4>3. PICK l \in Label : Register(p, l)
          BY <2>20, <4>2 DEF AddUndo
        <4> QED
          BY <4>1, <4>3 DEF Register
      <3> QED
        BY <3>1, <2>20 DEF AddUndo, AfterConf
    <2>21. CASE RegisterStop(p)
      BY <2>21 DEF RegisterStop, Register, Label
    <2>22. CASE StartGuest(p)
      BY <2>22, Keys DEF StartGuest
    <2>23. CASE Fail(p)
      BY <2>23 DEF Fail
    <2>24. CASE RunCleanup(p)
      <3> DEFINE n == Len(undos[p])
                 l == undos[p][n]
      <3>1. undos[p] \in Seq(Label) /\ undos[p] # << >>
        BY <2>24 DEF RunCleanup
      <3>2. l \in Label /\ SubSeq(undos[p], 1, n - 1) \in Seq(Label)
        BY <3>1, Popped
      <3>3. undos' \in [Creator -> Seq(Label)]
        BY <3>2, <2>24 DEF RunCleanup
      <3>4. stuck' \in [Creator -> SUBSET Label]
        <4>1. stuck' = stuck \/ stuck' = [stuck EXCEPT ![p] = @ \cup {l}]
          BY <2>24 DEF RunCleanup
        <4>2. stuck[p] \cup {l} \in SUBSET Label
          BY <3>2
        <4> QED
          BY <4>1, <4>2
      <3>5. HostTypeOK'
        <4>1. CASE UNCHANGED host
          BY <4>1, <2>24 DEF RunCleanup
        <4>2. CASE UndoEffect(p, l)
          BY <4>2, <2>24 DEF RunCleanup, UndoEffect, NoDir, Files
        <4> QED
          BY <4>1, <4>2, <2>24 DEF RunCleanup
      <3> QED
        BY <3>3, <3>4, <3>5, <2>24 DEF RunCleanup
    <2>25. CASE Reraise(p)
      BY <2>25 DEF Reraise
    <2> QED
      BY <1>1, <2>1, <2>2, <2>3, <2>4, <2>5, <2>6, <2>7, <2>8, <2>9,
         <2>10, <2>11, <2>12, <2>13, <2>14, <2>15, <2>16, <2>17, <2>18,
         <2>19, <2>20, <2>21, <2>22, <2>23, <2>24, <2>25
         DEF CreateStep
  <1>2. ASSUME NEW p \in Creator, Interrupt(p) PROVE TInv'
    BY <1>2 DEF Interrupt
  <1>3. ASSUME NEW p \in Creator, Crash(p) PROVE TInv'
    BY <1>3 DEF Crash
  <1>4. CASE UNCHANGED vars
    BY <1>4 DEF vars
  <1> QED
    BY <1>1, <1>2, <1>3, <1>4 DEF Next, Finished

\* The variables of Create keep their types.
THEOREM Typed == Spec => []TypeOK
  <1>1. TInv => TypeOK
    BY DEF TInv
  <1> QED
    BY InitTyped, StepTyped, <1>1, PTL DEF Spec

-------------------------------------------------------------------------------
(* What one step does to the shared state: the facts every proof below      *)
(* uses instead of the actions themselves.                                  *)

Step(p) == CreateStep(p) \/ Interrupt(p) \/ Crash(p)

\* A process never touches another one's variables.
LEMMA OthersKeep ==
  ASSUME TInv, NEW p \in Creator, Step(p), NEW q \in Creator, q # p
  PROVE  /\ pc'[q] = pc[q]
         /\ name'[q] = name[q]
         /\ vmid'[q] = vmid[q]
         /\ port'[q] = port[q]
         /\ undos'[q] = undos[q]
         /\ req' = req
  BY DEF TInv, TypeOK, Step, CreateStep, Interrupt, Crash, Goto, Register,
         WriteFile, AfterName, Acquire, GenerateName, TakeName, TakeVmid,
         MakeDir, Refuse, RejectSeed, EnterTry, PinImage, TestState,
         MakeState, WriteImage, WriteMode, WriteName, PickPort, WritePort,
         WriteWrapper, WriteVmid, WriteConf, AddUndo, RegisterStop,
         StartGuest, Fail, RunCleanup, Reraise

\* The section of kento_lock() a process is in is the lock's only holder.
LockHeld == \A p \in Creator : pc[p] \in LockedPc \cup PortPc => lock = p

LEMMA InitLockHeld == Init => LockHeld
  BY DEF Init, LockHeld, LockedPc, PortPc

LEMMA StepLockHeld == TInv /\ LockHeld /\ [Next]_vars => LockHeld'
  <1> SUFFICES ASSUME TInv, LockHeld, [Next]_vars PROVE LockHeld'
    OBVIOUS
  <1> USE CreateAssumption, StateAssumption
  <1>1. ASSUME NEW p \in Creator, Step(p) PROVE LockHeld'
    <2>1. \/ /\ lock' = lock
             /\ pc'[p] \in LockedPc \cup PortPc => pc[p] \in LockedPc \cup PortPc
          \/ lock = None /\ lock' = p
          \/ lock = p /\ lock' = None /\ pc'[p] \notin LockedPc \cup PortPc
      BY <1>1 DEF TInv, TypeOK, LockHeld, LockedPc, PortPc, TryPc, GapPc, EndPc,
         Step, CreateStep, Interrupt, Crash, Goto, Register,
         WriteFile, AfterName, Acquire, GenerateName, TakeName, TakeVmid,
         MakeDir, Refuse, RejectSeed, EnterTry, PinImage, TestState,
         MakeState, WriteImage, WriteMode, WriteName, PickPort, WritePort,
         WriteWrapper, WriteVmid, WriteConf, AddUndo, RegisterStop,
         StartGuest, Fail, RunCleanup, Reraise, AfterPort, AfterConf
    <2> QED
      BY <1>1, <2>1, OthersKeep DEF LockHeld, TInv, TypeOK
  <1>2. CASE UNCHANGED vars
    BY <1>2 DEF vars, local, LockHeld
  <1> QED
    BY <1>1, <1>2 DEF Next, Finished, Step

-------------------------------------------------------------------------------
(* The undos list: the rmtree of the directory is its first entry, so it is *)
(* undone last, and only then does the create let go of the directory.      *)

UndoShape ==
  \A p \in Creator :
    /\ pc[p] \in {"lock", "enter"} \cup LockedPc => undos[p] = << >>
    /\ pc[p] \in TryPc => undos[p] # << >>
    /\ undos[p] # << >> => undos[p][1] = "dir"
    /\ \A i \in 2 .. Len(undos[p]) : undos[p][i] # "dir"

LEMMA InitUndoShape == Init => UndoShape
  BY DEF Init, UndoShape, TryPc, GapPc, PortPc, LockedPc

LEMMA StepUndoShape == TInv /\ UndoShape /\ [Next]_vars => UndoShape'
  <1> SUFFICES ASSUME TInv, UndoShape, [Next]_vars PROVE UndoShape'
    OBVIOUS
  <1>1. ASSUME NEW p \in Creator, Step(p) PROVE UndoShape'
    <2> DEFINE u == undos[p]
    <2>1. u \in Seq(Label)
      BY DEF TInv, TypeOK
    <2>2. \/ undos' = undos
          \/ /\ u = << >>
             /\ undos' = [undos EXCEPT ![p] = Append(u, "dir")]
             /\ pc'[p] \in TryPc
          \/ /\ u # << >>
             /\ \E l \in {"hold", "state", "wrapper", "conf", "stop"} :
                  undos' = [undos EXCEPT ![p] = Append(u, l)]
             /\ pc'[p] \in TryPc \cup {"done"}
          \/ /\ u # << >>
             /\ undos' = [undos EXCEPT ![p] = SubSeq(u, 1, Len(u) - 1)]
             /\ pc' = pc /\ pc[p] = "rollback"
      BY <1>1 DEF TInv, TypeOK, UndoShape, TryPc, GapPc, PortPc, AfterConf,
         Step, CreateStep, Interrupt, Crash, Goto, Register,
         WriteFile, AfterName, Acquire, GenerateName, TakeName, TakeVmid,
         MakeDir, Refuse, RejectSeed, EnterTry, PinImage, TestState,
         MakeState, WriteImage, WriteMode, WriteName, PickPort, WritePort,
         WriteWrapper, WriteVmid, WriteConf, AddUndo, RegisterStop,
         StartGuest, Fail, RunCleanup, Reraise
    <2>3. \/ pc'[p] = pc[p]
          \/ /\ pc[p] \in {"lock"} \cup LockedPc
             /\ undos'[p] = u /\ pc'[p] \notin TryPc
          \/ /\ pc'[p] \in TryPc
             /\ pc[p] \in TryPc \/ undos'[p] = Append(u, "dir")
          \/ pc'[p] \in EndPc \cup {"rollback"}
      BY <1>1, <2>1 DEF TInv, TypeOK, TryPc, GapPc, PortPc, LockedPc, EndPc,
         AfterPort, AfterConf,
         Step, CreateStep, Interrupt, Crash, Goto, Register,
         WriteFile, AfterName, Acquire, GenerateName, TakeName, TakeVmid,
         MakeDir, Refuse, RejectSeed, EnterTry, PinImage, TestState,
         MakeState, WriteImage, WriteMode, WriteName, PickPort, WritePort,
         WriteWrapper, WriteVmid, WriteConf, AddUndo, RegisterStop,
         StartGuest, Fail, RunCleanup, Reraise
    <2>4. \A l \in Label : /\ Append(u, l) # << >>
                           /\ Append(u, l)[1] = IF u = << >> THEN l ELSE u[1]
                           /\ Len(Append(u, l)) = Len(u) + 1
                           /\ \A i \in 2 .. Len(u) + 1 :
                                Append(u, l)[i] = IF i = Len(u) + 1 THEN l ELSE u[i]
      BY <2>1
    <2> HIDE DEF u
    <2> DEFINE more == \E l \in Label \ {"dir"} : undos'[p] = Append(u, l)
    <2>5. \/ undos'[p] = u
          \/ u = << >> /\ undos'[p] = Append(u, "dir") /\ pc'[p] \in TryPc
          \/ u # << >> /\ more /\ pc'[p] \in TryPc \cup {"done"}
          \/ /\ u # << >>
             /\ undos'[p] = SubSeq(u, 1, Len(u) - 1)
             /\ pc'[p] = "rollback"
      BY <2>2 DEF TInv, TypeOK, Label, u
    <2>6. /\ pc[p] \in {"lock", "enter"} \cup LockedPc => u = << >>
          /\ pc[p] \in TryPc => u # << >>
          /\ u # << >> => u[1] = "dir"
          /\ \A i \in 2 .. Len(u) : u[i] # "dir"
      BY DEF UndoShape, u
    <2>7. /\ undos'[p] # << >> => undos'[p][1] = "dir"
          /\ \A i \in 2 .. Len(undos'[p]) : undos'[p][i] # "dir"
      <3>1. CASE undos'[p] = u
        BY <3>1, <2>6
      <3>2. CASE u = << >> /\ undos'[p] = Append(u, "dir")
        BY <3>2, <2>1, <2>4 DEF Label
      <3>3. CASE u # << >> /\ more
        <4>1. PICK l \in Label \ {"dir"} : undos'[p] = Append(u, l)
          BY <3>3
        <4> QED
          BY <3>3, <4>1, <2>1, <2>4, <2>6
      <3>4. CASE u # << >> /\ undos'[p] = SubSeq(u, 1, Len(u) - 1)
        BY <3>4, <2>1, <2>6, Popped
      <3> QED
        BY <2>5, <3>1, <3>2, <3>3, <3>4
    <2>8. /\ pc'[p] \in {"lock", "enter"} \cup LockedPc => undos'[p] = << >>
          /\ pc'[p] \in TryPc => undos'[p] # << >>
      <3>1. /\ Append(u, "dir") # << >>
            /\ more => undos'[p] # << >>
        BY <2>4 DEF Label
      <3> HIDE DEF more
      <3> QED
        BY <2>1, <2>3, <2>5, <2>6, <3>1
        DEF TryPc, GapPc, PortPc, LockedPc, EndPc
    <2> QED
      BY <1>1, <2>7, <2>8, OthersKeep DEF UndoShape
  <1>2. CASE UNCHANGED vars
    BY <1>2 DEF vars, local, UndoShape
  <1> QED
    BY <1>1, <1>2 DEF Next, Finished, Step

-------------------------------------------------------------------------------
(* Instance directories. *)

\* Once it has a directory, a create keeps its name and VMID.
LEMMA HomeKept ==
  ASSUME TInv, NEW p \in Creator, Step(p), Owns(p)
  PROVE  Home(p)' = Home(p) /\ name'[p] = name[p] /\ req' = req
  <1>1. name' = name /\ vmid' = vmid /\ req' = req
    BY DEF Owns, TryPc, GapPc, PortPc, LockedPc,
         Step, CreateStep, Interrupt, Crash, Goto, Register,
         WriteFile, AfterName, Acquire, GenerateName, TakeName, TakeVmid,
         MakeDir, Refuse, RejectSeed, EnterTry, PinImage, TestState,
         MakeState, WriteImage, WriteMode, WriteName, PickPort, WritePort,
         WriteWrapper, WriteVmid, WriteConf, AddUndo, RegisterStop,
         StartGuest, Fail, RunCleanup, Reraise
  <1> QED
    BY <1>1 DEF Home

\* The mkdir is the only way to come to own a directory.
LEMMA OwnsOnlyByMkdir ==
  ASSUME TInv, NEW p \in Creator, Step(p), Owns(p)'
  PROVE  Owns(p) \/ MakeDir(p)
  BY DEF TInv, TypeOK, Owns, TryPc, GapPc, PortPc, LockedPc, EndPc, AfterPort,
         AfterConf,
         Step, CreateStep, Interrupt, Crash, Goto, Register,
         WriteFile, AfterName, Acquire, GenerateName, TakeName, TakeVmid,
         MakeDir, Refuse, RejectSeed, EnterTry, PinImage, TestState,
         MakeState, WriteImage, WriteMode, WriteName, PickPort, WritePort,
         WriteWrapper, WriteVmid, WriteConf, AddUndo, RegisterStop,
         StartGuest, Fail, RunCleanup, Reraise

\* Whoever changes the files of a directory owns it, and a directory only
\* goes away with its owner.
DiskStep(p) ==
  \/ disk' = disk
  \/ MakeDir(p)
  \/ Owns(p) /\ WritePort(p)
  \/ /\ Owns(p) /\ ~Owns(p)'
     /\ disk' = [disk EXCEPT ![Home(p)] = NoDir]
  \/ /\ Owns(p)
     /\ \E f \in Files : /\ f.dir /\ f.port = disk[Home(p)].port
                        /\ disk' = [disk EXCEPT ![Home(p)] = f]

LEMMA DiskSteps ==
  ASSUME TInv, UndoShape, NEW p \in Creator, Step(p)
  PROVE  DiskStep(p)
  <1>1. CASE RejectSeed(p)
    BY <1>1 DEF RejectSeed, DiskStep, Owns, Goto, TInv, TypeOK, TryPc, GapPc, PortPc
  <1>2. CASE RunCleanup(p)
    <2> DEFINE u == undos[p]
               l == u[Len(u)]
    <2>1. /\ u \in Seq(Label) /\ u # << >>
          /\ pc[p] = "rollback" /\ pc' = pc
          /\ undos'[p] = SubSeq(u, 1, Len(u) - 1)
      BY <1>2 DEF RunCleanup, TInv, TypeOK
    <2>2. Owns(p)
      BY <2>1 DEF Owns
    <2>3. \/ l = "dir" /\ disk' = [disk EXCEPT ![Home(p)] = NoDir]
          \/ disk' = disk
      BY <1>2 DEF RunCleanup, UndoEffect, host
    <2>4. CASE l = "dir"
      <3>1. Len(u) = 1
        BY <2>1, <2>4, Popped DEF UndoShape
      <3>2. undos'[p] = << >>
        BY <2>1, <3>1, Popped, EmptySeq
      <3> QED
        BY <2>1, <2>2, <2>3, <3>2 DEF DiskStep, Owns, TryPc, GapPc, PortPc
    <2> QED
      BY <2>3, <2>4 DEF DiskStep
  <1>3. CASE MakeState(p) \/ WriteImage(p) \/ WriteMode(p) \/ WriteName(p) \/ WriteVmid(p)
    <2> DEFINE f == disk[Home(p)]
    <2>1. Owns(p) /\ Home(p) \in DirKey
      BY <1>3, Keys DEF Owns, TryPc, PortPc, GapPc, MakeState, WriteImage,
         WriteMode, WriteName, WriteVmid
    <2>2. f \in Files
      BY <2>1 DEF TInv, TypeOK, HostTypeOK
    <2>3. CASE MakeState(p)
      <3>1. [f EXCEPT !.dir = TRUE] \in Files
        BY <2>2 DEF Files
      <3> QED
        BY <2>1, <2>2, <2>3, <3>1 DEF MakeState, DiskStep, Files
    <2>4. CASE WriteImage(p)
      <3>1. [f EXCEPT !.image = TRUE] \in Files
        BY <2>2 DEF Files
      <3> QED
        BY <2>1, <2>2, <2>4, <3>1 DEF WriteImage, WriteFile, DiskStep, Files
    <2>5. CASE WriteMode(p)
      <3>1. [f EXCEPT !.mode = req[p].mode] \in Files
        BY <2>2 DEF Files, TInv, TypeOK, Request
      <3> QED
        BY <2>1, <2>2, <2>5, <3>1 DEF WriteMode, WriteFile, DiskStep, Files
    <2>6. CASE WriteName(p)
      <3>1. [f EXCEPT !.name = name[p]] \in Files
        BY <2>2 DEF Files, TInv, TypeOK
      <3> QED
        BY <2>1, <2>2, <2>6, <3>1 DEF WriteName, WriteFile, DiskStep, Files
    <2>7. CASE WriteVmid(p)
      <3>1. [f EXCEPT !.vmid = vmid[p]] \in Files
        BY <2>2 DEF Files, TInv, TypeOK
      <3> QED
        BY <2>1, <2>2, <2>7, <3>1 DEF WriteVmid, WriteFile, DiskStep, Files
    <2> QED
      BY <1>3, <2>3, <2>4, <2>5, <2>6, <2>7
  <1>4. CASE WritePort(p)
    BY <1>4 DEF WritePort, DiskStep, Owns, TryPc, PortPc
  <1>5. CASE ~(\/ RejectSeed(p) \/ RunCleanup(p) \/ MakeState(p) \/ WriteImage(p)
              \/ WriteMode(p) \/ WriteName(p) \/ WriteVmid(p) \/ WritePort(p)
              \/ MakeDir(p))
    <2>1. disk' = disk
      BY <1>5 DEF host, Step, CreateStep, Interrupt, Crash, Acquire,
         GenerateName, TakeName, TakeVmid, Refuse, EnterTry, PinImage,
         TestState, PickPort, WriteWrapper, WriteConf, AddUndo, RegisterStop,
         StartGuest, Fail, Reraise
    <2> QED
      BY <2>1 DEF DiskStep
  <1> QED
    BY <1>1, <1>2, <1>3, <1>4, <1>5 DEF DiskStep

LEMMA DirMade ==
  ASSUME TInv, NEW p \in Creator, MakeDir(p)
  PROVE  /\ Home(p) \in DirKey
         /\ ~disk[Home(p)].dir
         /\ disk' = [disk EXCEPT ![Home(p)] = EmptyDir]
         /\ Home(p)' = Home(p)
         /\ name' = name /\ req' = req
         /\ ~Owns(p)
  BY Keys DEF MakeDir, Home, Owns, TryPc, GapPc, PortPc

\* The owner's directory after its own step.
LEMMA OwnDirStays ==
  ASSUME TInv, UndoShape, DirsDistinct, NEW p \in Creator, Step(p), Owns(p)'
  PROVE  disk'[Home(p)'].dir
  <1>1. CASE MakeDir(p)
    BY <1>1, DirMade DEF EmptyDir, TInv, TypeOK, HostTypeOK
  <1>2. CASE ~MakeDir(p)
    <2>1. Owns(p) /\ Home(p)' = Home(p) /\ DiskStep(p)
      BY <1>2, OwnsOnlyByMkdir, HomeKept, DiskSteps
    <2>2. disk[Home(p)].dir /\ Home(p) \in DirKey
      BY <2>1, Keys DEF DirsDistinct, Owns, TryPc, GapPc, PortPc
    <2>3. disk'[Home(p)].dir
      BY <2>1, <2>2, <1>2
      DEF DiskStep, WritePort, TInv, TypeOK, HostTypeOK, Files
    <2> QED
      BY <2>1, <2>3
  <1> QED
    BY <1>1, <1>2

\* No step of p reaches the directory another create owns.
LEMMA OthersDirs ==
  ASSUME TInv, UndoShape, DirsDistinct, NEW p \in Creator, Step(p),
         NEW q \in Creator, q # p, Owns(q)
  PROVE  /\ Home(q)' = Home(q)
         /\ disk'[Home(q)] = disk[Home(q)]
         /\ Owns(p)' => Home(p)' # Home(q)
  <1>1. Home(q)' = Home(q)
    BY OthersKeep DEF Home
  <1>2. Home(q) \in DirKey /\ disk[Home(q)].dir
    BY Keys DEF DirsDistinct, Owns, TryPc, GapPc, PortPc
  <1>3. CASE MakeDir(p)
    BY <1>1, <1>2, <1>3, DirMade DEF TInv, TypeOK, HostTypeOK
  <1>4. CASE Owns(p)
    <2>1. Home(p) # Home(q) /\ Home(p)' = Home(p)
      BY <1>4, HomeKept DEF DirsDistinct
    <2>2. disk'[Home(q)] = disk[Home(q)]
      BY <1>2, <1>3, <2>1, DiskSteps
      DEF DiskStep, WritePort, TInv, TypeOK, HostTypeOK
    <2> QED
      BY <1>1, <2>1, <2>2
  <1>5. CASE ~MakeDir(p) /\ ~Owns(p)
    BY <1>1, <1>5, DiskSteps, OwnsOnlyByMkdir DEF DiskStep
  <1> QED
    BY <1>3, <1>4, <1>5

LEMMA StepDirsDistinct ==
  TInv /\ UndoShape /\ DirsDistinct /\ [Next]_vars => DirsDistinct'
  <1> SUFFICES ASSUME TInv, UndoShape, DirsDistinct, [Next]_vars
               PROVE  DirsDistinct'
    OBVIOUS
  <1>1. ASSUME NEW p \in Creator, Step(p) PROVE DirsDistinct'
    <2>1. \A q \in Creator : q # p => (Owns(q)' <=> Owns(q))
      BY <1>1, OthersKeep DEF Owns
    <2>2. \A q \in Creator : Owns(q)' => disk'[Home(q)'].dir
      BY <1>1, <2>1, OwnDirStays, OthersDirs DEF DirsDistinct
    <2>3. ASSUME NEW q \in Creator, NEW r \in Creator, q # r, Owns(q)', Owns(r)'
          PROVE  Home(q)' # Home(r)'
      <3>1. CASE q = p
        BY <1>1, <2>1, <2>3, <3>1, OthersDirs
      <3>2. CASE r = p
        BY <1>1, <2>1, <2>3, <3>2, OthersDirs
      <3>3. CASE q # p /\ r # p
        BY <1>1, <2>1, <2>3, <3>3, OthersDirs DEF DirsDistinct
      <3> QED
        BY <3>1, <3>2, <3>3
    <2> QED
      BY <2>2, <2>3 DEF DirsDistinct
  <1>2. CASE UNCHANGED vars
    BY <1>2 DEF vars, local, host, DirsDistinct, Owns, Home
  <1> QED
    BY <1>1, <1>2 DEF Next, Finished, Step

SInv == TInv /\ LockHeld /\ UndoShape /\ DirsDistinct

LEMMA InitSafe == Init => SInv
  <1>1. Init => DirsDistinct
    BY DEF Init, DirsDistinct, Owns, TryPc, GapPc, PortPc
  <1> QED
    BY <1>1, InitTyped, InitLockHeld, InitUndoShape DEF SInv

LEMMA StepSafe == SInv /\ [Next]_vars => SInv'
  BY StepTyped, StepLockHeld, StepUndoShape, StepDirsDistinct DEF SInv

\* No two creates work in the same instance directory, and none loses its
\* directory to another one's rollback.
THEOREM DirectoriesDistinct == Spec => []DirsDistinct
  <1>1. SInv => DirsDistinct
    BY DEF SInv
  <1> QED
    BY InitSafe, StepSafe, <1>1, PTL DEF Spec

-------------------------------------------------------------------------------
(* Host ports. *)

\* The port picked under the lock is still free when it is written.
PortFresh ==
  \A p \in Creator :
    pc[p] = "portWrite" /\ req[p].port = Allocate
      => port[p] \in Port /\ port[p] \notin UsedPorts

PInv == SInv /\ PortFresh /\ PortsDistinct

\* Only WritePort, under the lock, puts a new port on disk.
LEMMA PortsOnlyByWrite ==
  ASSUME SInv, NEW p \in Creator, Step(p), ~WritePort(p)
  PROVE  UsedPorts' \subseteq UsedPorts \cup {None}
  <1>1. SUFFICES ASSUME NEW d \in DirKey, disk'[d].dir
                 PROVE  disk'[d].port \in UsedPorts \cup {None}
    BY DEF UsedPorts, Existing
  <1>2. disk \in [DirKey -> Files]
    BY DEF SInv, TInv, TypeOK, HostTypeOK
  <1>3. CASE MakeDir(p)
    <2>1. disk'[d] = disk[d] \/ disk'[d].port = None
      BY <1>2, <1>3, DirMade DEF SInv, EmptyDir
    <2> QED
      BY <1>1, <2>1 DEF UsedPorts, Existing
  <1>4. CASE Owns(p)
    <2>1. Home(p) \in DirKey /\ disk[Home(p)].dir
      BY <1>4, Keys DEF SInv, DirsDistinct, Owns, TryPc, GapPc, PortPc
    <2>2. \/ disk' = disk
          \/ disk' = [disk EXCEPT ![Home(p)] = NoDir]
          \/ \E f \in Files : /\ f.port = disk[Home(p)].port
                             /\ disk' = [disk EXCEPT ![Home(p)] = f]
      BY <1>4, DirMade, DiskSteps DEF DiskStep, SInv
    <2>3. CASE disk' = disk
      BY <1>1, <2>3 DEF UsedPorts, Existing
    <2>4. CASE disk' = [disk EXCEPT ![Home(p)] = NoDir]
      <3>1. disk'[d] = disk[d]
        BY <1>1, <1>2, <2>1, <2>4 DEF NoDir
      <3> QED
        BY <1>1, <3>1 DEF UsedPorts, Existing
    <2>5. ASSUME NEW f \in Files, f.port = disk[Home(p)].port,
                 disk' = [disk EXCEPT ![Home(p)] = f]
          PROVE  disk'[d].port \in UsedPorts
      <3>1. CASE d = Home(p)
        BY <1>2, <2>1, <2>5, <3>1 DEF UsedPorts, Existing
      <3>2. CASE d # Home(p)
        <4>1. disk'[d] = disk[d]
          BY <1>2, <2>1, <2>5, <3>2
        <4> QED
          BY <1>1, <4>1 DEF UsedPorts, Existing
      <3> QED
        BY <3>1, <3>2
    <2> QED
      BY <2>2, <2>3, <2>4, <2>5
  <1>5. CASE ~MakeDir(p) /\ ~Owns(p)
    BY <1>1, <1>5, DiskSteps DEF DiskStep, SInv, UsedPorts, Existing
  <1> QED
    BY <1>3, <1>4, <1>5

LEMMA StepPortFresh ==
  ASSUME SInv, PortFresh, NEW p \in Creator, Step(p)
  PROVE  PortFresh'
  <1> SUFFICES ASSUME NEW q \in Creator, pc'[q] = "portWrite", req'[q].port = Allocate
               PROVE  port'[q] \in Port /\ port'[q] \notin UsedPorts'
    BY DEF PortFresh
  <1>1. CASE q = p
    <2>1. PickPort(p)
      BY <1>1 DEF SInv, TInv, TypeOK, LockedPc, TryPc, GapPc, PortPc, EndPc,
         AfterPort, AfterConf,
         Step, CreateStep, Interrupt, Crash, Goto, Register,
         WriteFile, AfterName, Acquire, GenerateName, TakeName, TakeVmid,
         MakeDir, Refuse, RejectSeed, EnterTry, PinImage, TestState,
         MakeState, WriteImage, WriteMode, WriteName, PickPort, WritePort,
         WriteWrapper, WriteVmid, WriteConf, AddUndo, RegisterStop,
         StartGuest, Fail, RunCleanup, Reraise
    <2> QED
      <3>1. disk' = disk /\ req' = req /\ port \in [Creator -> Port \cup {None}]
        BY <2>1 DEF PickPort, host, SInv, TInv, TypeOK
      <3>2. PICK v \in IF req[p].port = Allocate THEN Port \ UsedPorts
                                            ELSE {req[p].port} :
              port' = [port EXCEPT ![p] = v]
        BY <2>1 DEF PickPort
      <3>3. v \in Port \ UsedPorts /\ port'[q] = v
        BY <1>1, <3>1, <3>2
      <3> QED
        BY <3>1, <3>3 DEF UsedPorts, Existing
  <1>2. CASE q # p
    <2>1. pc[q] = "portWrite" /\ port'[q] = port[q] /\ req' = req
      BY <1>2, OthersKeep DEF SInv
    <2>2. pc[p] \notin PortPc
      BY <1>2, <2>1 DEF SInv, LockHeld, PortPc
    <2>3. UsedPorts' \subseteq UsedPorts \cup {None}
      BY <2>2, PortsOnlyByWrite DEF WritePort, PortPc
    <2> QED
      BY <2>1, <2>3, StateAssumption DEF PortFresh
  <1> QED
    BY <1>1, <1>2

\* The port of the directory p owns after its step.
LEMMA OwnPort ==
  ASSUME SInv, NEW p \in Creator, Step(p), Owns(p)'
  PROVE  \/ disk'[Home(p)'].port = None
         \/ /\ Owns(p)
            /\ \/ disk'[Home(p)'].port = disk[Home(p)].port
               \/ pc[p] = "portWrite" /\ disk'[Home(p)'].port = port[p]
  <1>1. disk \in [DirKey -> Files]
    BY DEF SInv, TInv, TypeOK, HostTypeOK
  <1>2. CASE MakeDir(p)
    BY <1>1, <1>2, DirMade DEF SInv, EmptyDir
  <1>3. CASE ~MakeDir(p)
    <2>1. Owns(p) /\ Home(p)' = Home(p) /\ DiskStep(p)
      BY <1>3, OwnsOnlyByMkdir, HomeKept, DiskSteps DEF SInv
    <2>2. Home(p) \in DirKey
      BY <2>1, Keys DEF SInv, Owns, TryPc, GapPc, PortPc
    <2>3. CASE WritePort(p)
      BY <1>1, <2>1, <2>2, <2>3 DEF WritePort, Files
    <2>4. CASE ~WritePort(p)
      BY <1>1, <1>3, <2>1, <2>2, <2>4 DEF DiskStep
    <2> QED
      BY <2>3, <2>4
  <1> QED
    BY <1>2, <1>3

LEMMA StepPortsDistinct ==
  ASSUME PInv, NEW p \in Creator, Step(p)
  PROVE  PortsDistinct'
  <1> USE DEF PInv
  <1>1. \A q \in Creator : q # p => (Owns(q)' <=> Owns(q))
    BY OthersKeep DEF Owns, SInv
  <1>2. req' = req
    BY HomeKept, OthersKeep, DirMade DEF SInv,
       Step, CreateStep, Interrupt, Crash, Goto, Register,
         WriteFile, AfterName, Acquire, GenerateName, TakeName, TakeVmid,
         MakeDir, Refuse, RejectSeed, EnterTry, PinImage, TestState,
         MakeState, WriteImage, WriteMode, WriteName, PickPort, WritePort,
         WriteWrapper, WriteVmid, WriteConf, AddUndo, RegisterStop,
         StartGuest, Fail, RunCleanup, Reraise
  <1>3. \A q \in Creator : q # p /\ Owns(q) =>
          /\ disk'[Home(q)'].port = disk[Home(q)].port
          /\ disk[Home(q)].port \in UsedPorts
    <2> SUFFICES ASSUME NEW q \in Creator, q # p, Owns(q)
                 PROVE  /\ disk'[Home(q)'].port = disk[Home(q)].port
                        /\ disk[Home(q)].port \in UsedPorts
      OBVIOUS
    <2>1. Home(q) \in DirKey
      BY Keys DEF SInv, Owns, TryPc, GapPc, PortPc
    <2> QED
      BY <2>1, OthersDirs DEF SInv, DirsDistinct, UsedPorts, Existing
  <1>4. ASSUME NEW q \in Creator, q # p, Owns(q)', Owns(p)',
               req[p].port = Allocate, req[q].port = Allocate,
               disk'[Home(p)'].port # None
        PROVE  disk'[Home(p)'].port # disk'[Home(q)'].port
    <2>1. /\ Owns(q)
          /\ disk'[Home(q)'].port = disk[Home(q)].port
          /\ disk[Home(q)].port \in UsedPorts
      BY <1>1, <1>3, <1>4
    <2>2. Owns(p)
      BY <1>4, OwnPort DEF SInv
    <2>3. CASE disk'[Home(p)'].port = disk[Home(p)].port
      <3>1. disk[Home(p)].port # None
        BY <1>4, <2>3
      <3>2. disk[Home(p)].port # disk[Home(q)].port
        BY <1>4, <2>1, <2>2, <3>1 DEF PortsDistinct
      <3> QED
        BY <2>1, <2>3, <3>2
    <2>4. CASE pc[p] = "portWrite" /\ disk'[Home(p)'].port = port[p]
      <3>1. port[p] \notin UsedPorts
        BY <1>4, <2>4 DEF PortFresh
      <3> QED
        BY <2>1, <2>4, <3>1
    <2> QED
      BY <1>4, <2>3, <2>4, OwnPort DEF SInv
  <1> SUFFICES ASSUME NEW q \in Creator, NEW r \in Creator, q # r,
                      Owns(q)', Owns(r)', req[q].port = Allocate,
                      req[r].port = Allocate, disk'[Home(q)'].port # None
               PROVE  disk'[Home(q)'].port # disk'[Home(r)'].port
    BY <1>2 DEF PortsDistinct
  <1>5. CASE q = p
    BY <1>4, <1>5
  <1>6. CASE r = p
    BY <1>4, <1>6
  <1>7. CASE q # p /\ r # p
    <2>1. Owns(q) /\ Owns(r)
      BY <1>1, <1>7
    <2>2. /\ disk'[Home(q)'].port = disk[Home(q)].port
          /\ disk'[Home(r)'].port = disk[Home(r)].port
      BY <1>3, <1>7, <2>1
    <2> QED
      BY <2>1, <2>2 DEF PortsDistinct
  <1> QED
    BY <1>5, <1>6, <1>7

\* Two creates that let kento pick the host port never hold the same one.
THEOREM AutoPortsDistinct == Spec => []PortsDistinct
  <1>1. Init => PInv
    <2>1. Init => PortFresh /\ PortsDistinct
      BY DEF Init, PortFresh, PortsDistinct, Owns, TryPc, GapPc, PortPc
    <2> QED
      BY <2>1, InitSafe DEF PInv
  <1>2. PInv /\ [Next]_vars => PInv'
    <2>1. ASSUME PInv, NEW p \in Creator, Step(p) PROVE PInv'
      <3>1. SInv'
        BY <2>1, StepSafe DEF PInv, Step, Next
      <3> QED
        BY <2>1, <3>1, StepPortFresh, StepPortsDistinct DEF PInv
    <2>2. ASSUME PInv, UNCHANGED vars PROVE PInv'
      <3>1. SInv'
        BY <2>2, StepSafe DEF PInv
      <3> QED
        BY <2>2, <3>1 DEF vars, local, host, PInv, PortFresh, PortsDistinct, Owns,
                  Home, UsedPorts, Existing
    <2> QED
      BY <2>1, <2>2 DEF Next, Finished, Step
  <1>3. PInv => PortsDistinct
    BY DEF PInv
  <1> QED
    BY <1>1, <1>2, <1>3, PTL DEF Spec

-------------------------------------------------------------------------------
(* VMIDs. *)

\* A creator works on one of the requests it may have been given.
Asked == \A p \in Creator : req[p] \in Asks[p]

LEMMA StepAsked == ASSUME Asked, [Next]_vars PROVE Asked'
  <1>1. req' = req
    BY DEF Next, Finished, vars, local, CreateStep, Interrupt, Crash, Goto,
       Register, WriteFile, AfterName, Acquire, GenerateName, TakeName,
       TakeVmid, MakeDir, Refuse, RejectSeed, EnterTry, PinImage, TestState,
       MakeState, WriteImage, WriteMode, WriteName, PickPort, WritePort,
       WriteWrapper, WriteVmid, WriteConf, AddUndo, RegisterStop, StartGuest,
       Fail, RunCleanup, Reraise
  <1> QED
    BY <1>1 DEF Asked

\* As long as nobody creates a Proxmox VM, no two creates hold one VMID: the
\* directory of a Proxmox container is the reservation of its VMID.  (With a
\* Proxmox VM in play this is false: the run CreateVmidRace.)
THEOREM PveVmidsDistinct ==
  ASSUME \A p \in Creator : \A r \in Asks[p] : r.mode # "pve-vm"
  PROVE  Spec => []VmidsDistinct
  <1>1. DirsDistinct /\ Asked => VmidsDistinct
    <2> SUFFICES ASSUME DirsDistinct, Asked,
                        NEW p \in Creator, NEW q \in Creator,
                        p # q, Owns(p), Owns(q),
                        req[p].mode \in PveMode, req[q].mode \in PveMode
                 PROVE  vmid[p] # vmid[q]
      BY DEF VmidsDistinct
    <2>1. req[p].mode = "pve" /\ req[q].mode = "pve"
      BY DEF Asked, PveMode
    <2>2. Home(p) # Home(q)
      BY DEF DirsDistinct
    <2> QED
      BY <2>1, <2>2 DEF Home, DirOf, BaseOf
  <1>2. Init => Asked
    BY DEF Init, Asked
  <1> QED
    BY InitSafe, StepSafe, StepAsked, <1>1, <1>2, PTL DEF Spec, SInv

-------------------------------------------------------------------------------
(* Generated names. *)

\* What the lock protects: a name generated but not yet filed is nobody's.
NameFresh ==
  \A p, q \in Creator :
    /\ p # q
    /\ req[p].name = Allocate /\ pc[p] \in {"vmid", "mkdir"}
    /\ req[q].name = Allocate /\ Owns(q)
    => name[p] # name[q]

\* No create leaves the naming of a Proxmox container to kento.
NoAutoPve == \A p \in Creator : \A r \in Asks[p] :
               r.name = Allocate => r.mode # "pve"

NInv == SInv /\ Asked /\ NameFresh /\ NamesDistinct

\* The directory of an instance with a generated name bears that name.
LEMMA OwnedNamesUsed ==
  ASSUME SInv, Asked, NoAutoPve, NEW q \in Creator, Owns(q),
         req[q].name = Allocate
  PROVE  name[q] \in UsedNames
  <1>1. Home(q).id = name[q]
    BY DEF Asked, NoAutoPve, Home, DirOf
  <1>2. Home(q) \in Existing
    BY Keys DEF SInv, DirsDistinct, Existing, Owns, TryPc, GapPc, PortPc
  <1> QED
    BY <1>1, <1>2 DEF UsedNames

\* How a create comes to be between its name and its mkdir.
LEMMA NamedOnlyByGenerate ==
  ASSUME TInv, NEW p \in Creator, Step(p), pc'[p] \in {"vmid", "mkdir"},
         req[p].name = Allocate
  PROVE  GenerateName(p) \/ (pc[p] = "vmid" /\ name' = name /\ req' = req)
  BY DEF TInv, TypeOK, LockedPc, TryPc, GapPc, PortPc, EndPc, AfterPort,
         AfterConf,
         Step, CreateStep, Interrupt, Crash, Goto, Register,
         WriteFile, AfterName, Acquire, GenerateName, TakeName, TakeVmid,
         MakeDir, Refuse, RejectSeed, EnterTry, PinImage, TestState,
         MakeState, WriteImage, WriteMode, WriteName, PickPort, WritePort,
         WriteWrapper, WriteVmid, WriteConf, AddUndo, RegisterStop,
         StartGuest, Fail, RunCleanup, Reraise

\* Who owns a directory after a step without a mkdir had it, and its name,
\* before.
LEMMA OwnerKept ==
  ASSUME TInv, NEW p \in Creator, Step(p), NEW q \in Creator, Owns(q)',
         q = p => ~MakeDir(p)
  PROVE  Owns(q) /\ name'[q] = name[q] /\ req' = req
  <1>1. CASE q = p
    BY <1>1, OwnsOnlyByMkdir, HomeKept
  <1>2. CASE q # p
    BY <1>2, OthersKeep DEF Owns
  <1> QED
    BY <1>1, <1>2

LEMMA StepNameFresh ==
  ASSUME NInv, NoAutoPve, NEW c \in Creator, Step(c)
  PROVE  NameFresh'
  <1> USE DEF NInv
  <1>0. TInv
    BY DEF SInv
  <1> SUFFICES ASSUME NEW p \in Creator, NEW q \in Creator, p # q,
                      req'[p].name = Allocate, pc'[p] \in {"vmid", "mkdir"},
                      req'[q].name = Allocate, Owns(q)'
               PROVE  name'[p] # name'[q]
    BY DEF NameFresh
  <1>1. CASE p = c
    <2>1. Owns(q) /\ name'[q] = name[q] /\ req' = req
      BY <1>0, <1>1, OwnerKept
    <2>2. CASE GenerateName(c)
      <3>1. PICK i \in FreeAutoName : name' = [name EXCEPT ![c] = AutoName[i]]
        BY <2>2 DEF GenerateName
      <3>2. name'[p] \notin UsedNames
        BY <1>0, <1>1, <3>1 DEF FreeAutoName, TInv, TypeOK
      <3>3. name[q] \in UsedNames
        BY <2>1, OwnedNamesUsed
      <3> QED
        BY <2>1, <3>2, <3>3
    <2>3. CASE pc[c] = "vmid" /\ name' = name /\ req' = req
      BY <1>1, <2>1, <2>3 DEF NameFresh
    <2> QED
      BY <1>0, <1>1, <2>1, <2>2, <2>3, NamedOnlyByGenerate
  <1>2. CASE p # c
    <2>1. pc[p] = pc'[p] /\ name'[p] = name[p]
      BY <1>0, <1>2, OthersKeep
    <2>2. ~MakeDir(c)
      BY <1>2, <2>1 DEF SInv, LockHeld, LockedPc, MakeDir
    <2>3. Owns(q) /\ name'[q] = name[q] /\ req' = req
      BY <1>0, <2>2, OwnerKept
    <2> QED
      BY <2>1, <2>3 DEF NameFresh
  <1> QED
    BY <1>1, <1>2

LEMMA StepNamesDistinct ==
  ASSUME NInv, NEW c \in Creator, Step(c)
  PROVE  NamesDistinct'
  <1> USE DEF NInv
  <1>0. TInv
    BY DEF SInv
  <1> SUFFICES ASSUME NEW p \in Creator, NEW q \in Creator, p # q,
                      Owns(p)', Owns(q)',
                      req'[p].name = Allocate, req'[q].name = Allocate
               PROVE  name'[p] # name'[q]
    BY DEF NamesDistinct
  <1>1. CASE ~MakeDir(c)
    BY <1>0, <1>1, OwnerKept DEF NamesDistinct
  <1>2. CASE MakeDir(c)
    <2>1. pc[c] = "mkdir" /\ name' = name /\ req' = req
      BY <1>2 DEF MakeDir
    <2>2. CASE p = c
      BY <1>0, <2>1, <2>2, OwnerKept DEF NameFresh
    <2>3. CASE q = c
      BY <1>0, <2>1, <2>3, OwnerKept DEF NameFresh
    <2>4. CASE p # c /\ q # c
      BY <1>0, <2>4, OwnerKept DEF NamesDistinct
    <2> QED
      BY <2>2, <2>3, <2>4
  <1> QED
    BY <1>1, <1>2

\* As long as kento is not asked to name a Proxmox container, no two creates
\* ever get one generated name: the directory, made under the lock that the
\* name was chosen under, is its reservation.  (With a Proxmox container in
\* play this is false: its name is written outside the lock, create.py:1176.)
THEOREM GeneratedNamesDistinct ==
  ASSUME NoAutoPve
  PROVE  Spec => []NamesDistinct
  <1>1. Init => NInv
    BY InitSafe
    DEF Init, NInv, Asked, NameFresh, NamesDistinct, Owns, TryPc, GapPc, PortPc
  <1>2. NInv /\ [Next]_vars => NInv'
    <2>1. ASSUME NInv, NEW c \in Creator, Step(c) PROVE NInv'
      <3>1. [Next]_vars
        BY <2>1 DEF Step, Next
      <3> QED
        BY <2>1, <3>1, StepSafe, StepAsked, StepNameFresh, StepNamesDistinct
        DEF NInv
    <2>2. ASSUME NInv, UNCHANGED vars PROVE NInv'
      <3>1. SInv' /\ Asked'
        BY <2>2, StepSafe, StepAsked DEF NInv
      <3> QED
        BY <2>2, <3>1 DEF vars, local, NInv, NameFresh, NamesDistinct, Owns
    <2> QED
      BY <2>1, <2>2 DEF Next, Finished, Step
  <1>3. NInv => NamesDistinct
    BY DEF NInv
  <1> QED
    BY <1>1, <1>2, <1>3, PTL DEF Spec

-------------------------------------------------------------------------------
(* Create implements Reservation. *)

\* What the abstract specification sees of a state.
Held == [p \in Creator |-> IF Owns(p) THEN {Home(p)} ELSE {}]
Kept == {p \in Creator : pc[p] = "done"}

LEMMA InitReserves == Init => Directories!RInit
  <1> SUFFICES ASSUME Init PROVE Directories!RInit
    OBVIOUS
  <1>1. Existing = {}
    BY DEF Init, HostInit, Existing, NoDir
  <1>2. \A p \in Creator : ~Owns(p) /\ pc[p] # "done"
    BY DEF Init, Owns, TryPc, GapPc, PortPc
  <1> QED
    BY <1>1, <1>2 DEF Directories!RInit

\* Nobody but p gains or loses a directory, or succeeds, in a step of p.
LEMMA OnlyOwn ==
  ASSUME SInv, NEW p \in Creator, Step(p)
  PROVE  /\ Held' = [Held EXCEPT ![p] = IF Owns(p)' THEN {Home(p)'} ELSE {}]
         /\ Kept' \ {p} = Kept \ {p}
  <1>1. \A q \in Creator \ {p} : /\ Owns(q)' <=> Owns(q)
                                 /\ Home(q)' = Home(q)
                                 /\ pc'[q] = pc[q]
    BY OthersKeep DEF Owns, Home, SInv
  <1> QED
    BY <1>1 DEF Held, Kept

\* A create succeeds while it has its directory, and then takes no step.
LEMMA Succeeds ==
  ASSUME SInv, NEW p \in Creator, Step(p)
  PROVE  pc'[p] = "done" => Owns(p) /\ Owns(p)'
  <1> SUFFICES ASSUME pc'[p] = "done" PROVE Owns(p) /\ Owns(p)'
    OBVIOUS
  <1>1. WriteName(p) \/ WritePort(p) \/ AddUndo(p) \/ StartGuest(p)
    BY DEF SInv, TInv, TypeOK, Pc, TryPc, GapPc, PortPc, LockedPc, EndPc, Step,
           CreateStep, Interrupt, Crash, Goto, WriteFile, AfterName, Acquire,
           GenerateName, TakeName, TakeVmid, MakeDir, Refuse, RejectSeed,
           EnterTry, PinImage, TestState, MakeState, WriteImage, WriteMode,
           PickPort, WriteWrapper, WriteVmid, WriteConf, RegisterStop, Fail,
           RunCleanup, Reraise
  <1> QED
    BY <1>1 DEF WriteName, WritePort, AddUndo, StartGuest, Owns, TryPc, GapPc,
         PortPc

LEMMA Succeeded ==
  ASSUME SInv, NEW p \in Creator, Step(p)
  PROVE  pc[p] # "done"
  BY DEF Step, CreateStep, Interrupt, Crash, Acquire, GenerateName, TakeName,
         TakeVmid, MakeDir, Refuse, RejectSeed, EnterTry, PinImage, TestState,
         MakeState, WriteImage, WriteMode, WriteName, PickPort, WritePort,
         WriteWrapper, WriteVmid, WriteConf, AddUndo, RegisterStop,
         StartGuest, Fail, RunCleanup, Reraise, TryPc, GapPc, PortPc, LockedPc,
         EndPc

\* The directories that exist after a step of p.
LEMMA DirsAfter ==
  ASSUME SInv, NEW p \in Creator, Step(p)
  PROVE  /\ MakeDir(p) => /\ Home(p) \in DirKey \ Existing
                          /\ Existing' = Existing \cup {Home(p)}
         /\ ~MakeDir(p) => \/ Existing' = Existing
                           \/ /\ Owns(p) /\ ~Owns(p)'
                              /\ Existing' = Existing \ {Home(p)}
  <1> USE DEF SInv
  <1>1. disk \in [DirKey -> Files]
    BY DEF TInv, TypeOK, HostTypeOK
  <1>2. CASE MakeDir(p)
    BY <1>1, <1>2, DirMade DEF Existing, EmptyDir
  <1>3. CASE ~MakeDir(p)
    <2>1. DiskStep(p)
      BY DiskSteps
    <2>2. CASE Owns(p)
      <3>1. Home(p) \in DirKey /\ disk[Home(p)].dir
        BY <2>2, Keys DEF DirsDistinct, Owns, TryPc, GapPc, PortPc
      <3>2. CASE disk' = disk
        BY <1>3, <3>2 DEF Existing
      <3>3. CASE WritePort(p)
        BY <1>1, <1>3, <3>1, <3>3 DEF WritePort, Existing, Files
      <3>4. CASE ~Owns(p)' /\ disk' = [disk EXCEPT ![Home(p)] = NoDir]
        BY <1>1, <1>3, <2>2, <3>1, <3>4 DEF Existing, NoDir
      <3>5. ASSUME NEW f \in Files, f.dir, disk' = [disk EXCEPT ![Home(p)] = f]
            PROVE  Existing' = Existing
        BY <1>1, <3>1, <3>5 DEF Existing
      <3> QED
        BY <1>3, <2>1, <2>2, <3>2, <3>3, <3>4, <3>5 DEF DiskStep
    <2>3. CASE ~Owns(p)
      BY <1>3, <2>1, <2>3 DEF DiskStep, Existing
    <2> QED
      BY <1>3, <2>2, <2>3
  <1> QED
    BY <1>2, <1>3

\* Every step of a create is a step of Reservation, or none that it sees.
LEMMA StepReserves ==
  ASSUME SInv, NEW p \in Creator, Step(p)
  PROVE  [Directories!RNext]_(Directories!reservations)
  <1> USE DEF Directories!RNext, Directories!reservations
  <1> DEFINE Mine == IF Owns(p)' THEN {Home(p)'} ELSE {}
  <1>1. /\ Held' = [Held EXCEPT ![p] = Mine]
        /\ Held[p] = IF Owns(p) THEN {Home(p)} ELSE {}
        /\ Kept' \ {p} = Kept \ {p} /\ p \notin Kept
        /\ p \in Kept' => Owns(p) /\ Owns(p)'
    BY OnlyOwn, Succeeded, Succeeds DEF Held, Kept
  <1>2. CASE MakeDir(p)
    <2>1. /\ Held[p] = {} /\ Mine = {Home(p)} /\ Kept' = Kept
          /\ Home(p) \in DirKey \ Existing
          /\ Existing' = Existing \cup {Home(p)}
      <3>1. ~Owns(p) /\ Home(p)' = Home(p)
        BY <1>2, DirMade DEF SInv
      <3>2. Owns(p)'
        BY <1>2 DEF MakeDir, Goto, Owns, SInv, TInv, TypeOK
      <3>3. Home(p) \in DirKey \ Existing /\ Existing' = Existing \cup {Home(p)}
        BY <1>2, DirsAfter
      <3> QED
        BY <1>1, <3>1, <3>2, <3>3
    <2>2. Directories!Reserve(p, Home(p))
      BY <1>1, <2>1 DEF Directories!Reserve, Held, Kept
    <2> QED
      BY <2>1, <2>2
  <1>3. CASE ~MakeDir(p) /\ Owns(p) /\ Owns(p)'
    <2>1. Existing' = Existing /\ Held' = Held /\ Held[p] # {}
      BY <1>1, <1>3, DirsAfter, HomeKept DEF Held, SInv
    <2>2. CASE p \in Kept'
      <3>1. Directories!Keep(p)
        BY <1>1, <2>1, <2>2 DEF Directories!Keep, Held, Kept
      <3> QED
        BY <3>1
    <2>3. CASE p \notin Kept'
      BY <1>1, <2>1, <2>3 DEF Held, Kept
    <2> QED
      BY <2>2, <2>3
  <1>4. CASE ~MakeDir(p) /\ Owns(p) /\ ~Owns(p)'
    <2>1. /\ Held[p] = {Home(p)} /\ Mine = {} /\ Kept' = Kept
      BY <1>1, <1>4
    <2>2. CASE Existing' = Existing
      <3>1. Directories!Abandon(p)
        BY <1>1, <2>1, <2>2 DEF Directories!Abandon, Held, Kept
      <3> QED
        BY <3>1
    <2>3. CASE Existing' = Existing \ {Home(p)}
      <3>1. Directories!Release(p)
        BY <1>1, <2>1, <2>3 DEF Directories!Release, Held, Kept
      <3> QED
        BY <3>1
    <2> QED
      BY <1>4, <2>2, <2>3, DirsAfter
  <1>5. CASE ~MakeDir(p) /\ ~Owns(p)
    <2>1. ~Owns(p)' /\ Existing' = Existing
      BY <1>5, OwnsOnlyByMkdir, DirsAfter DEF SInv
    <2>2. Held' = Held /\ Kept' = Kept
      <3>1. Mine = {} /\ Held[p] = {} /\ p \notin Kept'
        BY <1>1, <1>5, <2>1
      <3>2. Held \in [Creator -> {Held[q] : q \in Creator}]
        BY DEF Held
      <3> QED
        BY <1>1, <3>1, <3>2
    <2> QED
      BY <2>1, <2>2 DEF Held, Kept
  <1> QED
    BY <1>2, <1>3, <1>4, <1>5

\* create shares out the instance directories as Reservation says: one step
\* gives a directory to one create, which is then its only owner until it
\* removes it, is killed, or its clean-up fails, and for good if it succeeds.
THEOREM CreateReserves == Spec => ReservesDirectories
  <1>1. SInv /\ [Next]_vars => [Directories!RNext]_(Directories!reservations)
    <2> SUFFICES ASSUME SInv, [Next]_vars
                 PROVE  [Directories!RNext]_(Directories!reservations)
      OBVIOUS
    <2>1. CASE UNCHANGED vars
      BY <2>1 DEF Directories!reservations, vars, local, host, Existing, Owns,
           Home
    <2> QED
      BY <2>1, StepReserves DEF Next, Finished, Step
  <1> QED
    BY InitReserves, InitSafe, StepSafe, <1>1, PTL
    DEF Spec, ReservesDirectories, Directories!RSpec
===============================================================================
