---------------------------- MODULE VmRuntimeProofs ----------------------------
(***************************************************************************)
(* What holds of one plain VM for any number of commands, in any mix, with *)
(* kills and power-offs at any time: as long as no command runs beside a   *)
(* start, at most one overlay is mounted and one guest runs, every guest   *)
(* is recorded, and what fails or stops cleans up.                         *)
(***************************************************************************)
EXTENDS VmRuntime, SequenceTheorems, FiniteSetTheorems, TLAPS

-------------------------------------------------------------------------------
(* Types. *)

\* What an umount leaves of the stack of overlays.
LEMMA Unstacked ==
  ASSUME NEW s \in Seq(Cmd), s # << >>
  PROVE  SubSeq(s, 1, Len(s) - 1) \in Seq(Cmd)
  <1>1. Len(s) \in Nat \ {0} /\ \A i \in 1 .. Len(s) : s[i] \in Cmd
    BY EmptySeq, ElementOfSeq
  <1> DEFINE n == Len(s) - 1
  <1>2. n \in Nat /\ \A i \in 1 .. n : s[i] \in Cmd
    BY <1>1
  <1> HIDE DEF n
  <1>3. SubSeq(s, 1, n) \in Seq(Cmd)
    BY <1>2
  <1> QED BY <1>3 DEF n

LEMMA InitTyped == Init => TypeOK
  <1> SUFFICES ASSUME Init PROVE TypeOK
    OBVIOUS
  <1>1. << >> \in Seq(Cmd)
    BY EmptySeq
  <1> QED BY <1>1, RuntimeAssumption DEF Init, TypeOK, Pc

LEMMA StepTyped == TypeOK /\ [Next]_vars => TypeOK'
  <1> SUFFICES ASSUME TypeOK, [Next]_vars PROVE TypeOK'
    OBVIOUS
  <1> USE RuntimeAssumption
          DEF TypeOK, Goto, machine, Pc, StartPc, StopPc, SweepPc, EndPc
  <1>0. mounts # << >> => SubSeq(mounts, 1, Len(mounts) - 1) \in Seq(Cmd)
    BY Unstacked
  <1>1. ASSUME NEW c \in Cmd, Step(c) PROVE TypeOK'
    <2>1. CASE \/ Unresolved(c) \/ BeginStart(c) \/ BeginStop(c)
               \/ BeginDestroy(c)
      BY <2>1 DEF Unresolved, BeginStart, BeginStop, BeginDestroy
    <2>2. CASE IsMountpoint(c) \/ MountRootfs(c)
      <3>1. Append(mounts, c) \in Seq(Cmd)
        BY AppendProperties
      <3> QED BY <2>2, <3>1 DEF IsMountpoint, MountRootfs
    <2>3. CASE CheckBootSources(c) \/ InjectConfig(c) \/ FindBinaries(c)
      BY <2>3 DEF CheckBootSources, InjectConfig, FindBinaries
    <2>4. CASE UnmountRootfs(c) \/ Umount(c) \/ LazyUmount(c)
      BY <1>0, <2>4 DEF UnmountRootfs, Umount, LazyUmount
    <2>5. CASE \/ SpawnVirtiofsd(c) \/ WriteVirtiofsdPid(c) \/ LaunchQemu(c)
               \/ WriteQemuPid(c)
      BY <2>5 DEF SpawnVirtiofsd, WriteVirtiofsdPid, LaunchQemu, WriteQemuPid
    <2>6. CASE KillOwnVirtiofsd(c) \/ DropPidFiles(c)
      BY <2>6 DEF KillOwnVirtiofsd, DropPidFiles
    <2>7. CASE \/ KillQemu(c) \/ DropQemuPid(c) \/ KillVirtiofsd(c)
               \/ DropVirtiofsdPid(c)
      BY <2>7 DEF KillQemu, IsVmRunning, DropQemuPid, KillVirtiofsd,
                  DropVirtiofsdPid
    <2>8. CASE AwaitSocket(c)
      <3>1. sock' \in BOOLEAN
        BY <2>8, Zenon DEF AwaitSocket
      <3> QED BY <2>8, <3>1 DEF AwaitSocket
    <2>9. CASE TestMount(c)
      BY <2>9 DEF TestMount
    <2>10. CASE Fuser(c)
      <3>1. stray' \in BOOLEAN
        BY <2>10, Zenon DEF Fuser
      <3> QED BY <2>10, <3>1 DEF Fuser
    <2>11. CASE DropSockets(c)
      <3>1. sock' \in BOOLEAN
        BY <2>11, Zenon DEF DropSockets
      <3> QED BY <2>11, <3>1 DEF DropSockets
    <2>12. CASE RemoveDirectory(c)
      <3>1. sock' \in BOOLEAN /\ gone' \in BOOLEAN
        BY <2>12, Zenon DEF RemoveDirectory
      <3> QED BY <2>12, <3>1 DEF RemoveDirectory
    <2> QED
      BY <1>1, <2>1, <2>2, <2>3, <2>4, <2>5, <2>6, <2>7, <2>8, <2>9, <2>10,
         <2>11, <2>12 DEF Step
  <1>2. ASSUME NEW c \in Cmd, Crash(c) \/ GuestOff(c) \/ VirtiofsdExits(c)
        PROVE  TypeOK'
    BY <1>2 DEF Crash, GuestOff, VirtiofsdExits
  <1>3. CASE UNCHANGED vars
    BY <1>3 DEF vars
  <1> QED
    BY <1>1, <1>2, <1>3 DEF Next, Finished

\* Whatever commands run, fail or are killed, the variables keep their types
\* (vm.py:295-376, 580-606).
THEOREM RuntimeTyped == Spec => []TypeOK
  <1> QED BY InitTyped, StepTyped, PTL DEF Spec

-------------------------------------------------------------------------------
(* The invariant behind the safety properties. *)

\* No command runs beside a start, and the pid of a guest can be written.
Orderly == "start" \in Alone /\ "pid" \notin Faults

\* None of the failures happens that the code answers by leaving the mount.
Tidy == Faults \cap {"unmount", "inject", "binary", "lazy"} = {}

Starting(c) == op[c] = "start" /\ Busy(c)
Removing(c) == op[c] \in {"destroy", "destroyForce"}
Stopping(c) == op[c] \in {"stop", "force"}

Live == {"vfsPid", "socket", "launch", "qemuPid", "killOwn", "done", "crashed"}
DownPc == {"killVfs", "dropVfsPid"} \cup SweepPc
OwingPc == (StartPc \ {"isMount", "mount", "qemuPid"})
           \cup {"dropQemuPid", "killVfs", "dropVfsPid",
                 "test", "umount", "fuser", "lazy"}

\* A start in progress is alone.
Apart == \A c, d \in Cmd : Starting(c) /\ Busy(d) => c = d

\* Where each operation can be.
Stations ==
  \A c \in Cmd : /\ pc[c] \in StartPc => op[c] = "start"
                 /\ pc[c] \in StopPc => op[c] # "start"
                 /\ "rmtree" \in {pc[c], ret[c]} => Removing(c)

\* The processes, and the pid files, are those of starts that may have them.
Guests == \A q \in qemu : op[q] = "start" /\ pc[q] \in {"qemuPid", "done", "crashed"}
Servers == \A v \in vfs : op[v] = "start" /\ pc[v] \in Live
PidFiles ==
  /\ qemuPid # None => op[qemuPid] = "start" /\ pc[qemuPid] = "done"
  /\ vfsPid # None => /\ op[vfsPid] = "start"
                      /\ pc[vfsPid] \in (Live \ {"vfsPid"}) \cup {"dropPids"}

\* While one starts the directory is there, and no other guest that counts.
Sole == \A c \in Cmd : Starting(c) =>
          ~gone /\ \A q \in qemu : q = c \/ pc[q] = "crashed"

\* One overlay at most, none under a start about to mount; if all is tidy, not
\* of a start that failed, and none when a command is through with the unmount.
Overlay ==
  /\ mounts = << >> \/ \E c \in Cmd : mounts = <<c>>
  /\ \A c \in Cmd : mounts = <<c>> =>
       op[c] = "start" /\ pc[c] \notin {"ready", "isMount", "mount"}
  /\ \A c \in Cmd : pc[c] = "mount" => mounts = << >>
  /\ Tidy => \A c \in Cmd :
       /\ mounts = <<c>> => pc[c] # "failed"
       /\ pc[c] \in {"sockets", "rmtree"} => mounts = << >>

\* A command past the kill has left nothing to be found.
Downed ==
  \A c \in Cmd : /\ pc[c] = "dropQemuPid" => qemuPid \notin qemu
                 /\ Removing(c) /\ pc[c] \in DownPc => qemuPid \notin qemu
                 /\ Stopping(c) /\ pc[c] \in DownPc => qemuPid = None

\* An overlay with no guest is some command's to unmount.
Owed ==
  Tidy /\ mounts # << >> /\ ~off /\ (\A c \in Cmd : pc[c] # "crashed")
    => qemu # {} \/ \E c \in Cmd : pc[c] \in OwingPc

VInv == /\ TypeOK /\ Apart /\ Stations /\ Guests /\ Servers /\ PidFiles /\ Sole
        /\ Overlay /\ Downed /\ Owed /\ Recorded /\ DestroyedGone

LEMMA InitOrdered == Init => VInv
  <1> SUFFICES ASSUME Init PROVE VInv
    OBVIOUS
  <1>1. TypeOK
    BY InitTyped
  <1>2. Stations
    BY RuntimeAssumption
    DEF Init, Stations, StartPc, StopPc, Removing
  <1>3. Apart /\ Sole
    BY DEF Init, Apart, Sole, Starting, Busy
  <1>4. Overlay /\ Downed /\ Owed
    BY DEF Init, Overlay, Downed, DownPc, SweepPc, Owed
  <1> QED
    BY <1>1, <1>2, <1>3, <1>4
    DEF Init, VInv, Guests, Servers, PidFiles, Recorded, DestroyedGone

\* The stack with its one overlay.
LEMMA Single ==
  ASSUME NEW c \in Cmd
  PROVE  /\ <<c>> # << >>
         /\ \A d \in Cmd : <<c>> = <<d>> => c = d
         /\ SubSeq(<<c>>, 1, Len(<<c>>) - 1) = << >>
         /\ Append(<< >>, c) = <<c>>
  OBVIOUS

\* An umount takes that one.
LEMMA Emptied ==
  ASSUME Overlay, mounts # << >>
  PROVE  SubSeq(mounts, 1, Len(mounts) - 1) = << >>
  <1>1. PICK c \in Cmd : mounts = <<c>>
    BY DEF Overlay
  <1> QED BY <1>1, Single

LEMMA StepOrdered ==
  ASSUME Orderly, VInv, [Next]_vars
  PROVE  VInv'
  <1> USE RuntimeAssumption
  <1>t. TypeOK'
    BY StepTyped DEF VInv
  <1>e. mounts # << >> => SubSeq(mounts, 1, Len(mounts) - 1) = << >>
    BY Emptied DEF VInv
  <1> DEFINE Rest == /\ Apart /\ Stations /\ Guests /\ Servers /\ PidFiles
                     /\ Sole /\ Downed /\ Recorded /\ DestroyedGone
  <1> USE DEF VInv, TypeOK, Apart, Stations, Guests, Servers, PidFiles, Sole,
        Downed, Recorded, DestroyedGone, Goto, machine, Starting, Removing,
        Stopping, Busy, Live, DownPc, OwingPc, StartPc, StopPc, SweepPc, EndPc,
        Pc, Orderly, Op
  <1>1. ASSUME NEW c \in Cmd, Step(c) PROVE VInv'
    <2>1. CASE Unresolved(c)
      <3>1. Rest'
        BY <2>1 DEF Unresolved, MayBegin
      <3>2. Overlay'
        BY <2>1 DEF Unresolved, MayBegin, Overlay
      <3>3. Owed'
        BY <2>1 DEF Unresolved, MayBegin, Owed
      <3> QED BY <1>t, <3>1, <3>2, <3>3
    <2>2. CASE BeginStart(c)
      <3>1. Rest'
        <4>1. ~IsVmRunning => \A q \in qemu : pc[q] = "crashed"
          BY <2>2 DEF BeginStart, MayBegin, IsVmRunning
        <4>2. Apart' /\ Stations'
          BY <2>2 DEF BeginStart, MayBegin
        <4>3. Guests' /\ Servers' /\ PidFiles' /\ Sole'
          BY <2>2, <4>1 DEF BeginStart, MayBegin
        <4>4. Downed' /\ Recorded' /\ DestroyedGone'
          BY <2>2 DEF BeginStart, MayBegin
        <4> QED BY <4>2, <4>3, <4>4
      <3>2. Overlay'
        BY <2>2 DEF BeginStart, MayBegin, Overlay
      <3>3. Owed'
        BY <2>2 DEF BeginStart, MayBegin, Owed
      <3> QED BY <1>t, <3>1, <3>2, <3>3
    <2>3. CASE BeginStop(c)
      <3>1. Rest'
        BY <2>3 DEF BeginStop, MayBegin, IsVmRunning
      <3>2. Overlay'
        BY <2>3 DEF BeginStop, MayBegin, Overlay
      <3>3. Owed'
        BY <2>3 DEF BeginStop, MayBegin, Owed
      <3> QED BY <1>t, <3>1, <3>2, <3>3
    <2>4. CASE BeginDestroy(c)
      <3>1. Rest'
        BY <2>4 DEF BeginDestroy, MayBegin, IsVmRunning, Forced
      <3>2. Overlay'
        BY <2>4 DEF BeginDestroy, MayBegin, Overlay
      <3>3. Owed'
        BY <2>4 DEF BeginDestroy, MayBegin, Owed
      <3> QED BY <1>t, <3>1, <3>2, <3>3
    <2>5. CASE IsMountpoint(c)
      <3>1. Rest'
        BY <2>5 DEF IsMountpoint
      <3>2. Overlay'
        BY <2>5 DEF IsMountpoint, Overlay
      <3>3. Owed'
        BY <2>5 DEF IsMountpoint, Owed
      <3> QED BY <1>t, <3>1, <3>2, <3>3
    <2>6. CASE MountRootfs(c)
      <3>1. Rest'
        BY <2>6 DEF MountRootfs
      <3>2. Overlay'
        <4>1. mounts = << >>
          BY <2>6 DEF MountRootfs, Overlay
        <4>2. CASE mounts' = Append(mounts, c) /\ pc'[c] = "boot"
          <5>1. mounts' = <<c>>
            BY <4>1, <4>2, Single
          <5>2. \A d \in Cmd : mounts' = <<d>> => d = c
            BY <5>1, Single
          <5>3. \A d \in Cmd : pc'[d] \notin {"mount", "sockets", "rmtree"}
            BY <2>6, <4>2 DEF MountRootfs
          <5> QED BY <2>6, <4>2, <5>1, <5>2, <5>3 DEF MountRootfs, Overlay
        <4>3. CASE UNCHANGED mounts
          BY <2>6, <4>1, <4>3 DEF MountRootfs, Overlay
        <4> QED BY <2>6, <4>2, <4>3 DEF MountRootfs
      <3>3. Owed'
        BY <2>6 DEF MountRootfs, Owed
      <3> QED BY <1>t, <3>1, <3>2, <3>3
    <2>7. CASE CheckBootSources(c)
      <3>1. Rest'
        BY <2>7 DEF CheckBootSources
      <3>2. Overlay'
        BY <2>7 DEF CheckBootSources, Overlay
      <3>3. Owed'
        BY <2>7 DEF CheckBootSources, Owed
      <3> QED BY <1>t, <3>1, <3>2, <3>3
    <2>8. CASE UnmountRootfs(c)
      <3>1. /\ mounts' \in {<< >>, mounts}
            /\ Tidy => mounts' = << >>
        <4>1. CASE mounts # << >>
          BY <2>8, <4>1, <1>e DEF UnmountRootfs, Tidy
        <4>2. CASE mounts = << >>
          BY <2>8, <4>2 DEF UnmountRootfs
        <4> QED BY <4>1, <4>2
      <3>2. Rest'
        BY <2>8 DEF UnmountRootfs
      <3>3. Overlay'
        BY <2>8, <3>1 DEF UnmountRootfs, Overlay
      <3>4. Owed'
        BY <2>8, <3>1 DEF UnmountRootfs, Owed
      <3> QED BY <1>t, <3>2, <3>3, <3>4
    <2>9. CASE InjectConfig(c)
      <3>1. Rest'
        BY <2>9 DEF InjectConfig
      <3>2. Overlay'
        BY <2>9 DEF InjectConfig, Overlay, Tidy
      <3>3. Owed'
        BY <2>9 DEF InjectConfig, Owed, Tidy
      <3> QED BY <1>t, <3>1, <3>2, <3>3
    <2>10. CASE FindBinaries(c)
      <3>1. Rest'
        BY <2>10 DEF FindBinaries
      <3>2. Overlay'
        BY <2>10 DEF FindBinaries, Overlay, Tidy
      <3>3. Owed'
        BY <2>10 DEF FindBinaries, Owed, Tidy
      <3> QED BY <1>t, <3>1, <3>2, <3>3
    <2>11. CASE SpawnVirtiofsd(c)
      <3>1. Rest'
        BY <2>11 DEF SpawnVirtiofsd
      <3>2. Overlay'
        BY <2>11 DEF SpawnVirtiofsd, Overlay
      <3>3. Owed'
        BY <2>11 DEF SpawnVirtiofsd, Owed
      <3> QED BY <1>t, <3>1, <3>2, <3>3
    <2>12. CASE WriteVirtiofsdPid(c)
      <3>1. Rest'
        BY <2>12 DEF WriteVirtiofsdPid
      <3>2. Overlay'
        BY <2>12 DEF WriteVirtiofsdPid, Overlay
      <3>3. Owed'
        BY <2>12 DEF WriteVirtiofsdPid, Owed
      <3> QED BY <1>t, <3>1, <3>2, <3>3
    <2>13. CASE AwaitSocket(c)
      <3>1. Rest'
        BY <2>13 DEF AwaitSocket
      <3>2. Overlay'
        BY <2>13 DEF AwaitSocket, Overlay
      <3>3. Owed'
        BY <2>13 DEF AwaitSocket, Owed
      <3> QED BY <1>t, <3>1, <3>2, <3>3
    <2>14. CASE LaunchQemu(c)
      <3>1. Rest'
        BY <2>14 DEF LaunchQemu
      <3>2. Overlay'
        BY <2>14 DEF LaunchQemu, Overlay
      <3>3. Owed'
        BY <2>14 DEF LaunchQemu, Owed
      <3> QED BY <1>t, <3>1, <3>2, <3>3
    <2>15. CASE WriteQemuPid(c)
      <3>1. Rest'
        BY <2>15 DEF WriteQemuPid
      <3>2. Overlay'
        BY <2>15 DEF WriteQemuPid, Overlay
      <3>3. Owed'
        BY <2>15 DEF WriteQemuPid, Owed
      <3> QED BY <1>t, <3>1, <3>2, <3>3
    <2>16. CASE KillOwnVirtiofsd(c)
      <3>1. Rest'
        BY <2>16 DEF KillOwnVirtiofsd
      <3>2. Overlay'
        BY <2>16 DEF KillOwnVirtiofsd, Overlay
      <3>3. Owed'
        BY <2>16 DEF KillOwnVirtiofsd, Owed
      <3> QED BY <1>t, <3>1, <3>2, <3>3
    <2>17. CASE DropPidFiles(c)
      <3>1. Rest'
        BY <2>17 DEF DropPidFiles
      <3>2. Overlay'
        BY <2>17 DEF DropPidFiles, Overlay
      <3>3. Owed'
        BY <2>17 DEF DropPidFiles, Owed
      <3> QED BY <1>t, <3>1, <3>2, <3>3
    <2>18. CASE KillQemu(c)
      <3>1. Rest'
        BY <2>18 DEF KillQemu, IsVmRunning, NoKill
      <3>2. Overlay'
        BY <2>18 DEF KillQemu, IsVmRunning, NoKill, Overlay
      <3>3. Owed'
        BY <2>18 DEF KillQemu, IsVmRunning, NoKill, Owed
      <3> QED BY <1>t, <3>1, <3>2, <3>3
    <2>19. CASE DropQemuPid(c)
      <3>1. Rest'
        BY <2>19 DEF DropQemuPid
      <3>2. Overlay'
        BY <2>19 DEF DropQemuPid, Overlay
      <3>3. Owed'
        BY <2>19 DEF DropQemuPid, Owed
      <3> QED BY <1>t, <3>1, <3>2, <3>3
    <2>20. CASE KillVirtiofsd(c)
      <3>1. Rest'
        BY <2>20 DEF KillVirtiofsd, NoKill
      <3>2. Overlay'
        BY <2>20 DEF KillVirtiofsd, NoKill, Overlay
      <3>3. Owed'
        BY <2>20 DEF KillVirtiofsd, NoKill, Owed
      <3> QED BY <1>t, <3>1, <3>2, <3>3
    <2>21. CASE DropVirtiofsdPid(c)
      <3>1. Rest'
        BY <2>21 DEF DropVirtiofsdPid
      <3>2. Overlay'
        BY <2>21 DEF DropVirtiofsdPid, Overlay
      <3>3. Owed'
        BY <2>21 DEF DropVirtiofsdPid, Owed
      <3> QED BY <1>t, <3>1, <3>2, <3>3
    <2>22. CASE TestMount(c)
      <3>1. Rest'
        BY <2>22 DEF TestMount
      <3>2. Overlay'
        BY <2>22 DEF TestMount, Overlay
      <3>3. Owed'
        BY <2>22 DEF TestMount, Owed
      <3> QED BY <1>t, <3>1, <3>2, <3>3
    <2>23. CASE Umount(c)
      <3>1. \/ mounts' = << >>
            \/ UNCHANGED mounts /\ pc'[c] = "fuser"
        <4>1. CASE mounts # << >>
          <5>1. \/ mounts' = SubSeq(mounts, 1, Len(mounts) - 1)
                \/ UNCHANGED mounts /\ pc'[c] = "fuser"
            BY <2>23, <4>1 DEF Umount
          <5> QED BY <1>e, <4>1, <5>1, Zenon
        <4>2. CASE mounts = << >>
          BY <2>23, <4>2 DEF Umount
        <4> QED BY <4>1, <4>2
      <3>2. Rest'
        BY <2>23 DEF Umount
      <3>3. Overlay'
        BY <2>23, <3>1 DEF Umount, Overlay
      <3>4. Owed'
        BY <2>23, <3>1 DEF Umount, Owed
      <3> QED BY <1>t, <3>2, <3>3, <3>4
    <2>24. CASE Fuser(c)
      <3>1. Rest'
        BY <2>24 DEF Fuser
      <3>2. Overlay'
        BY <2>24 DEF Fuser, Overlay
      <3>3. Owed'
        BY <2>24 DEF Fuser, Owed
      <3> QED BY <1>t, <3>1, <3>2, <3>3
    <2>25. CASE LazyUmount(c)
      <3>1. /\ mounts' \in {<< >>, mounts}
            /\ Tidy => mounts' = << >>
        <4>1. CASE mounts # << >>
          BY <2>25, <4>1, <1>e DEF LazyUmount, Tidy
        <4>2. CASE mounts = << >>
          BY <2>25, <4>2 DEF LazyUmount
        <4> QED BY <4>1, <4>2
      <3>2. Rest'
        BY <2>25 DEF LazyUmount, Forced
      <3>3. Overlay'
        BY <2>25, <3>1 DEF LazyUmount, Forced, Overlay
      <3>4. Owed'
        BY <2>25, <3>1 DEF LazyUmount, Forced, Owed
      <3> QED BY <1>t, <3>2, <3>3, <3>4
    <2>26. CASE DropSockets(c)
      <3>1. Rest'
        BY <2>26 DEF DropSockets
      <3>2. Overlay'
        BY <2>26 DEF DropSockets, Overlay
      <3>3. Owed'
        BY <2>26 DEF DropSockets, Owed
      <3> QED BY <1>t, <3>1, <3>2, <3>3
    <2>27. CASE RemoveDirectory(c)
      <3>1. Rest'
        BY <2>27 DEF RemoveDirectory
      <3>2. Overlay'
        BY <2>27 DEF RemoveDirectory, Overlay
      <3>3. Owed'
        BY <2>27 DEF RemoveDirectory, Overlay, Owed
      <3> QED BY <1>t, <3>1, <3>2, <3>3
    <2> QED
      BY <1>1, <2>1, <2>2, <2>3, <2>4, <2>5, <2>6, <2>7, <2>8, <2>9, <2>10, <2>11, <2>12, <2>13, <2>14, <2>15, <2>16, <2>17, <2>18, <2>19, <2>20, <2>21, <2>22, <2>23, <2>24, <2>25, <2>26, <2>27 DEF Step
  <1>2. ASSUME NEW c \in Cmd, Crash(c) \/ GuestOff(c) \/ VirtiofsdExits(c)
        PROVE  VInv'
    <2>1. CASE Crash(c)
      <3>1. Rest'
        BY <2>1 DEF Crash
      <3>2. Overlay'
        BY <2>1 DEF Crash, Overlay
      <3>3. Owed'
        BY <2>1 DEF Crash, Owed
      <3> QED BY <1>t, <3>1, <3>2, <3>3
    <2>2. CASE GuestOff(c)
      <3>1. Rest'
        BY <2>2 DEF GuestOff
      <3>2. Overlay'
        BY <2>2 DEF GuestOff, Overlay
      <3>3. Owed'
        BY <2>2 DEF GuestOff, Owed
      <3> QED BY <1>t, <3>1, <3>2, <3>3
    <2>3. CASE VirtiofsdExits(c)
      <3>1. Rest'
        BY <2>3 DEF VirtiofsdExits
      <3>2. Overlay'
        BY <2>3 DEF VirtiofsdExits, Overlay
      <3>3. Owed'
        BY <2>3 DEF VirtiofsdExits, Owed
      <3> QED BY <1>t, <3>1, <3>2, <3>3
    <2> QED BY <1>2, <2>1, <2>2, <2>3
  <1>3. CASE UNCHANGED vars
    BY <1>t, <1>3
    DEF vars, machine, VInv, Apart, Stations, Guests, Servers, PidFiles, Sole,
        Overlay, Downed, Owed, Recorded, DestroyedGone, Starting, Removing,
        Stopping, Busy
  <1> QED
    BY <1>1, <1>2, <1>3 DEF Next, Finished

LEMMA Ordered == ASSUME Orderly PROVE Spec => []VInv
  <1>1. VInv /\ [Next]_vars => VInv'
    BY StepOrdered
  <1> QED BY <1>1, InitOrdered, PTL DEF Spec

-------------------------------------------------------------------------------
(* The safety properties, if no command runs beside a start. *)

\* One overlay and one guest at most, however starts, stops and power-offs
\* follow each other (vm.py:264-269).
THEOREM OneRun == ASSUME Orderly PROVE Spec => []SingleRun
  <1>1. VInv => SingleRun
    <2> SUFFICES ASSUME VInv PROVE SingleRun
      OBVIOUS
    <2>1. Len(mounts) <= 1
      <3>1. CASE mounts = << >>
        BY <3>1
      <3>2. ASSUME NEW c \in Cmd, mounts = <<c>> PROVE Len(mounts) <= 1
        BY <3>2
      <3> QED BY <3>1, <3>2 DEF VInv, Overlay
    <2> DEFINE Running == {q \in qemu : pc[q] # "crashed"}
    <2>2. \A q, r \in Running : q = r
      BY RuntimeAssumption
      DEF VInv, TypeOK, Guests, Sole, Recorded, Starting, Busy, EndPc
    <2>3. Running = {} \/ \E q \in Running : Running = {q}
      BY <2>2
    <2>4. Cardinality(Running) <= 1
      BY <2>3, FS_EmptySet, FS_Singleton
    <2> QED BY <2>1, <2>4 DEF SingleRun
  <1> QED BY <1>1, Ordered, PTL

\* A guest whose start has returned is named by its pid file (vm.py:178-187).
THEOREM GuestsRecorded == ASSUME Orderly PROVE Spec => []Recorded
  <1>1. VInv => Recorded
    BY DEF VInv
  <1> QED BY <1>1, Ordered, PTL

\* Where the directory has gone nothing is mounted and nothing runs, but what a
\* killed start had not yet recorded (destroy.py:38-71).
THEOREM DestroyedLeavesNothing == ASSUME Orderly PROVE Spec => []DestroyedGone
  <1>1. VInv => DestroyedGone
    BY DEF VInv
  <1> QED BY <1>1, Ordered, PTL

\* A start that fails cleans up, unless it fails at one of the steps that its
\* clean-up does not cover (vm.py:334-348).
THEOREM FailedStartsClean == ASSUME Orderly, Tidy PROVE Spec => []FailedStartClean
  <1>1. VInv => FailedStartClean
    <2> SUFFICES ASSUME VInv, NEW c \in Cmd, op[c] = "start", pc[c] = "failed"
                 PROVE  c \notin vfs \cup qemu \cup Stacked \cup {qemuPid, vfsPid}
      BY DEF FailedStartClean
    <2>1. c \notin vfs \cup qemu
      BY DEF VInv, Servers, Guests, Live
    <2>2. c \notin {qemuPid, vfsPid}
      BY RuntimeAssumption DEF VInv, PidFiles, Live
    <2>3. c \notin Stacked
      <3>1. CASE mounts = << >>
        BY <3>1 DEF Stacked
      <3>2. ASSUME NEW d \in Cmd, mounts = <<d>> PROVE c \notin Stacked
        <4>1. Stacked = {d}
          BY <3>2 DEF Stacked
        <4>2. c # d
          BY <3>2 DEF VInv, Overlay
        <4> QED BY <4>1, <4>2
      <3> QED BY <3>1, <3>2 DEF VInv, Overlay
    <2> QED BY <2>1, <2>2, <2>3
  <1> QED BY <1>1, Ordered, PTL

\* With nothing going on and no guest, an overlay that is still there is that of
\* a guest that went down by itself or of a command that was killed.
THEOREM IdleLeavesNoMount == ASSUME Orderly, Tidy PROVE Spec => []IdleUnmounted
  <1>1. VInv => IdleUnmounted
    BY DEF VInv, Owed, IdleUnmounted, OwingPc, StartPc, Busy, EndPc
  <1> QED BY <1>1, Ordered, PTL

\* A stop that returns has brought the VM down and unmounted it
\* (vm.py:580-606).
THEOREM StopsComplete == ASSUME Orderly, Tidy PROVE Spec => StopComplete
  <1>1. ASSUME VInv, [Next]_vars, NEW c \in Cmd,
               op[c] \in {"stop", "force"}, pc[c] = "sockets", pc'[c] = "done"
        PROVE  /\ mounts' = << >> /\ qemuPid' = None
               /\ \A q \in qemu' : pc[q] = "crashed"
    <2>1. mounts = << >> /\ qemuPid = None
      BY <1>1 DEF VInv, Overlay, Downed, Stopping, DownPc, SweepPc
    <2>2. \A q \in qemu : pc[q] = "crashed"
      BY <1>1, <2>1, RuntimeAssumption
      DEF VInv, TypeOK, Guests, Recorded, Apart, Starting, Busy, EndPc
    <2>3. DropSockets(c)
      <3>1. PICK d \in Cmd : Step(d) \/ Crash(d) \/ GuestOff(d) \/ VirtiofsdExits(d)
        BY <1>1 DEF Next, Finished, vars
      <3>2. Step(d) /\ d = c
        <4>1. CASE Step(d)
          <5>1. PICK l : pc' = [pc EXCEPT ![d] = l]
            BY <4>1
            DEF Step, Unresolved, BeginStart, BeginStop, BeginDestroy,
                IsMountpoint, MountRootfs, CheckBootSources, UnmountRootfs,
                InjectConfig, FindBinaries, SpawnVirtiofsd, WriteVirtiofsdPid,
                AwaitSocket, LaunchQemu, WriteQemuPid, KillOwnVirtiofsd,
                DropPidFiles, KillQemu, DropQemuPid, KillVirtiofsd,
                DropVirtiofsdPid, TestMount, Umount, Fuser, LazyUmount,
                DropSockets, RemoveDirectory, Goto
          <5> QED BY <1>1, <4>1, <5>1 DEF VInv, TypeOK
        <4>2. CASE Crash(d)
          BY <1>1, <4>2 DEF Crash, Goto, VInv, TypeOK
        <4>3. CASE GuestOff(d) \/ VirtiofsdExits(d)
          BY <1>1, <4>3 DEF GuestOff, VirtiofsdExits
        <4> QED BY <3>1, <4>1, <4>2, <4>3
      <3> QED BY <1>1, <3>2
          DEF Step, Unresolved, BeginStart, BeginStop, BeginDestroy, MayBegin,
              IsMountpoint, MountRootfs, CheckBootSources, UnmountRootfs,
              InjectConfig, FindBinaries, SpawnVirtiofsd, WriteVirtiofsdPid,
              AwaitSocket, LaunchQemu, WriteQemuPid, KillOwnVirtiofsd,
              DropPidFiles, KillQemu, DropQemuPid, KillVirtiofsd,
              DropVirtiofsdPid, TestMount, Umount, Fuser, LazyUmount,
              RemoveDirectory
    <2> QED BY <2>1, <2>2, <2>3 DEF DropSockets
  <1>2. VInv /\ [Next]_vars =>
        [\A c \in Cmd :
           /\ op[c] \in {"stop", "force"}
           /\ pc[c] = "sockets" /\ pc'[c] = "done"
           => /\ mounts' = << >> /\ qemuPid' = None
              /\ \A q \in qemu' : pc[q] = "crashed"]_vars
    BY <1>1
  <1> QED BY <1>2, Ordered, PTL DEF Spec, StopComplete
===============================================================================
