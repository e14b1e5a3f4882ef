------------------------------ MODULE VmRuntime ------------------------------
(***************************************************************************)
(* One plain VM (mode "vm") while commands start, stop and destroy it.     *)
(* kento has no daemon: what is running is known only from the pid files,  *)
(* the mount table and the socket in the instance directory, and no lock   *)
(* covers them.  The QEMU and the virtiofsd that a start command launches  *)
(* carry that command's name.  Each command is one invocation; the guest   *)
(* may power itself off at any time.                                       *)
(***************************************************************************)
EXTENDS Naturals, Sequences, FiniteSets

CONSTANTS
  Cmd,      \* the invocations
  Plans,    \* the assignments of operations to them
  Alone,    \* the operations that nobody runs while another one is going on
  Faults,   \* the steps that may fail
  Crashes,  \* an invocation may be killed outright
  None

Op == {"start", "stop", "force", "graceful", "destroy", "destroyForce"}

ASSUME RuntimeAssumption ==
  /\ Plans \subseteq [Cmd -> Op]
  /\ Alone \subseteq Op
  /\ Faults \subseteq {"mount", "boot", "unmount", "inject", "binary", "spawn",
                       "socket", "launch", "pid", "umount", "lazy"}
  /\ Crashes \in BOOLEAN
  /\ None \notin Cmd

VARIABLES
  op,       \* what each invocation runs
  pc,       \* its next step
  ret,      \* where it goes on once the rootfs is unmounted
  target,   \* the QEMU it has signalled
  mounts,   \* the overlays stacked on rootfs/, by the start that mounted them
  qemu,     \* the QEMU processes alive
  vfs,      \* the virtiofsd processes alive
  qemuPid,  \* kento-qemu-pid
  vfsPid,   \* kento-virtiofsd-pid
  sock,     \* virtiofsd.sock exists
  gone,     \* the instance directory has been removed
  off,      \* the guest has gone down by itself
  stray     \* fuser -km has been run on a directory that is not a mount

machine == <<mounts, qemu, vfs, qemuPid, vfsPid, sock, gone, off, stray>>
vars    == <<op, pc, ret, target, machine>>

EndPc   == {"done", "failed", "crashed"}
StartPc == {"isMount", "mount", "boot", "bootUnmount", "inject", "binary",
            "spawn", "vfsPid", "socket", "launch", "qemuPid", "killOwn",
            "dropPids"}
StopPc  == {"killQemu", "dropQemuPid", "killVfs", "dropVfsPid"}
SweepPc == {"test", "umount", "fuser", "lazy", "sockets", "rmtree"}
Pc      == {"ready"} \cup StartPc \cup StopPc \cup SweepPc \cup EndPc

Init ==
  /\ op \in Plans
  /\ pc = [c \in Cmd |-> "ready"]
  /\ ret = [c \in Cmd |-> "sockets"]
  /\ target = [c \in Cmd |-> None]
  /\ mounts = << >>
  /\ qemu = {}
  /\ vfs = {}
  /\ qemuPid = None
  /\ vfsPid = None
  /\ sock = FALSE
  /\ gone = FALSE
  /\ off = FALSE
  /\ stray = FALSE

Goto(c, l) == pc' = [pc EXCEPT ![c] = l]

Busy(c) == pc[c] \notin {"ready"} \cup EndPc

\* The typed layer's LOCKED graceful stop passes no_kill.
NoKill(c) == op[c] = "graceful"
\* Whether a failed unmount is only a warning; _cleanup_failed_start forces.
Forced(c)  == op[c] \in {"start", "force", "destroyForce"}

\* is_vm_running: the pid file names a process that exists.
IsVmRunning == qemuPid \in qemu

-------------------------------------------------------------------------------
(* The entry of start(), shutdown() and destroy(): is it running? *)

\* A command that is not run alone may overlap any other that is not either.
MayBegin(c) ==
  /\ pc[c] = "ready"
  /\ \A d \in Cmd : Busy(d) => {op[c], op[d]} \cap Alone = {}

\* resolve_container finds nothing to act on.
Unresolved(c) ==
  /\ MayBegin(c)
  /\ gone
  /\ Goto(c, "failed")
  /\ UNCHANGED <<op, ret, target, machine>>

BeginStart(c) ==
  /\ MayBegin(c)
  /\ ~gone
  /\ op[c] = "start"
  /\ Goto(c, IF IsVmRunning THEN "done" ELSE "isMount")
  /\ UNCHANGED <<op, ret, target, machine>>

\* shutdown() returns "Already stopped" without looking at the mount.
BeginStop(c) ==
  /\ MayBegin(c)
  /\ ~gone
  /\ op[c] \in {"stop", "force", "graceful"}
  /\ Goto(c, IF IsVmRunning THEN "killQemu" ELSE "done")
  /\ UNCHANGED <<op, ret, target, machine>>

\* Mutant: destroy -f removes the instance without stopping it.
BeginDestroyNoStop(c) ==
  /\ MayBegin(c)
  /\ ~gone
  /\ op[c] \in {"destroy", "destroyForce"}
  /\ Goto(c, IF IsVmRunning /\ ~Forced(c) THEN "failed" ELSE "test")
  /\ ret' = [ret EXCEPT ![c] = "rmtree"]
  /\ UNCHANGED <<op, target, machine>>

\* Mutant: destroying a stopped instance ends before the directory is removed.
BeginDestroyKeepDir(c) ==
  /\ MayBegin(c)
  /\ ~gone
  /\ op[c] \in {"destroy", "destroyForce"}
  /\ Goto(c, CASE IsVmRunning /\ Forced(c)  -> "killQemu"
               [] IsVmRunning /\ ~Forced(c) -> "failed"
               [] OTHER                    -> "test")
  /\ ret' = [ret EXCEPT ![c] = IF IsVmRunning THEN "sockets" ELSE "done"]
  /\ UNCHANGED <<op, target, machine>>

\* Without -f a running instance is refused.
BeginDestroy(c) ==
  /\ MayBegin(c)
  /\ ~gone
  /\ op[c] \in {"destroy", "destroyForce"}
  /\ Goto(c, CASE IsVmRunning /\ Forced(c)  -> "killQemu"
               [] IsVmRunning /\ ~Forced(c) -> "failed"
               [] OTHER                    -> "test")
  /\ ret' = [ret EXCEPT ![c] = IF IsVmRunning THEN "sockets" ELSE "rmtree"]
  /\ UNCHANGED <<op, target, machine>>

-------------------------------------------------------------------------------
(* start_vm. *)

\* Mutant: mount_rootfs mounts over whatever is there.
IsMountpointSkip(c) ==
  /\ pc[c] = "isMount"
  /\ Goto(c, "mount")
  /\ UNCHANGED <<op, ret, target, machine>>

\* mount_rootfs refuses a rootfs that is a mountpoint already.
IsMountpoint(c) ==
  /\ pc[c] = "isMount"
  /\ Goto(c, IF mounts = << >> THEN "mount" ELSE "failed")
  /\ UNCHANGED <<op, ret, target, machine>>

\* A second overlay may stack on the first, or mount(2) may refuse it.
MountRootfs(c) ==
  /\ pc[c] = "mount"
  /\ \/ /\ mounts' = Append(mounts, c)
        /\ Goto(c, "boot")
     \/ /\ "mount" \in Faults \/ mounts # << >> \/ gone
        /\ Goto(c, "failed")
        /\ UNCHANGED mounts
  /\ UNCHANGED <<op, ret, target, qemu, vfs, qemuPid, vfsPid, sock, gone, off,
                 stray>>

\* Kernel, initramfs and inject script must be there.
CheckBootSources(c) ==
  /\ pc[c] = "boot"
  /\ \/ Goto(c, "inject")
     \/ "boot" \in Faults /\ Goto(c, "bootUnmount")
  /\ UNCHANGED <<op, ret, target, machine>>

\* Mutant: the missing kernel is reported with the rootfs still mounted.
UnmountRootfsNot(c) ==
  /\ pc[c] = "bootUnmount"
  /\ Goto(c, "failed")
  /\ UNCHANGED <<op, ret, target, machine>>

\* unmount_rootfs, then the StateError; or run_or_die's own error.
UnmountRootfs(c) ==
  /\ pc[c] = "bootUnmount"
  /\ \/ mounts # << >> /\ mounts' = SubSeq(mounts, 1, Len(mounts) - 1)
     \/ (mounts = << >> \/ "unmount" \in Faults) /\ UNCHANGED mounts
  /\ Goto(c, "failed")
  /\ UNCHANGED <<op, ret, target, qemu, vfs, qemuPid, vfsPid, sock, gone, off,
                 stray>>

\* run_or_die raises past start_vm: nothing has been armed to unmount.
InjectConfig(c) ==
  /\ pc[c] = "inject"
  /\ \/ Goto(c, "binary")
     \/ "inject" \in Faults /\ Goto(c, "failed")
  /\ UNCHANGED <<op, ret, target, machine>>

\* _find_virtiofsd, _find_qemu.
FindBinaries(c) ==
  /\ pc[c] = "binary"
  /\ \/ Goto(c, "spawn")
     \/ "binary" \in Faults /\ Goto(c, "failed")
  /\ UNCHANGED <<op, ret, target, machine>>

SpawnVirtiofsd(c) ==
  /\ pc[c] = "spawn"
  /\ \/ vfs' = vfs \cup {c} /\ Goto(c, "vfsPid")
     \/ "spawn" \in Faults /\ Goto(c, "dropPids") /\ UNCHANGED vfs
  /\ UNCHANGED <<op, ret, target, mounts, qemu, qemuPid, vfsPid, sock, gone,
                 off, stray>>

WriteVirtiofsdPid(c) ==
  /\ pc[c] = "vfsPid"
  /\ \/ ~gone /\ vfsPid' = c /\ Goto(c, "socket")
     \/ gone /\ Goto(c, "killOwn") /\ UNCHANGED vfsPid
  /\ UNCHANGED <<op, ret, target, mounts, qemu, vfs, qemuPid, sock, gone, off,
                 stray>>

\* At most 50 looks, then poll(): the socket must be there and its server too.
AwaitSocket(c) ==
  /\ pc[c] = "socket"
  /\ \/ c \in vfs /\ ~gone /\ sock' = TRUE /\ Goto(c, "launch")
     \/ /\ "socket" \in Faults \/ c \notin vfs \/ gone
        /\ Goto(c, "killOwn")
        /\ UNCHANGED sock
  /\ UNCHANGED <<op, ret, target, mounts, qemu, vfs, qemuPid, vfsPid, gone,
                 off, stray>>

LaunchQemu(c) ==
  /\ pc[c] = "launch"
  /\ \/ qemu' = qemu \cup {c} /\ Goto(c, "qemuPid")
     \/ "launch" \in Faults /\ Goto(c, "killOwn") /\ UNCHANGED qemu
  /\ UNCHANGED <<op, ret, target, mounts, vfs, qemuPid, vfsPid, sock, gone,
                 off, stray>>

\* The write comes after the try block: its failure undoes nothing.
WriteQemuPid(c) ==
  /\ pc[c] = "qemuPid"
  /\ \/ ~gone /\ qemuPid' = c /\ Goto(c, "done")
     \/ /\ "pid" \in Faults \/ gone
        /\ Goto(c, "failed")
        /\ UNCHANGED qemuPid
  /\ UNCHANGED <<op, ret, target, mounts, qemu, vfs, vfsPid, sock, gone, off,
                 stray>>

\* Mutant: the virtiofsd of a failed start is left alone.
KillOwnNot(c) ==
  /\ pc[c] = "killOwn"
  /\ Goto(c, "dropPids")
  /\ UNCHANGED <<op, ret, target, machine>>

\* _cleanup_failed_start: terminate, wait, kill.
KillOwnVirtiofsd(c) ==
  /\ pc[c] = "killOwn"
  /\ vfs' = vfs \ {c}
  /\ Goto(c, "dropPids")
  /\ UNCHANGED <<op, ret, target, mounts, qemu, qemuPid, vfsPid, sock, gone,
                 off, stray>>

DropPidFiles(c) ==
  /\ pc[c] = "dropPids"
  /\ vfsPid' = None
  /\ qemuPid' = None
  /\ Goto(c, "test")
  /\ UNCHANGED <<op, ret, target, mounts, qemu, vfs, sock, gone, off, stray>>

-------------------------------------------------------------------------------
(* stop_vm: _kill_and_wait for QEMU, then for virtiofsd. *)

\* Mutant: nobody escalates to SIGKILL at the deadline.
KillQemuNever(c) ==
  /\ pc[c] = "killQemu"
  /\ \/ /\ IsVmRunning
        /\ target' = [target EXCEPT ![c] = qemuPid]
        /\ \/ qemu' = qemu \ {qemuPid} /\ Goto(c, "dropQemuPid")
           \/ qemu' = qemu /\ Goto(c, "killVfs")
     \/ /\ ~IsVmRunning
        /\ Goto(c, IF qemuPid = None THEN "killVfs" ELSE "dropQemuPid")
        /\ UNCHANGED <<target, qemu>>
  /\ UNCHANGED <<op, ret, mounts, vfs, qemuPid, vfsPid, sock, gone, off, stray>>

\* Mutant: the pid file goes although the process was left alive.
KillQemuForget(c) ==
  /\ pc[c] = "killQemu"
  /\ \/ /\ IsVmRunning
        /\ target' = [target EXCEPT ![c] = qemuPid]
        /\ \/ qemu' = qemu \ {qemuPid}
           \/ NoKill(c) /\ qemu' = qemu
        /\ Goto(c, "dropQemuPid")
     \/ /\ ~IsVmRunning
        /\ Goto(c, IF qemuPid = None THEN "killVfs" ELSE "dropQemuPid")
        /\ UNCHANGED <<target, qemu>>
  /\ UNCHANGED <<op, ret, mounts, vfs, qemuPid, vfsPid, sock, gone, off, stray>>

\* With no_kill a process still alive at the deadline keeps its pid file.
KillQemu(c) ==
  /\ pc[c] = "killQemu"
  /\ \/ /\ IsVmRunning
        /\ target' = [target EXCEPT ![c] = qemuPid]
        /\ \/ qemu' = qemu \ {qemuPid} /\ Goto(c, "dropQemuPid")
           \/ NoKill(c) /\ qemu' = qemu /\ Goto(c, "killVfs")
     \/ /\ ~IsVmRunning
        /\ Goto(c, IF qemuPid = None THEN "killVfs" ELSE "dropQemuPid")
        /\ UNCHANGED <<target, qemu>>
  /\ UNCHANGED <<op, ret, mounts, vfs, qemuPid, vfsPid, sock, gone, off, stray>>

DropQemuPid(c) ==
  /\ pc[c] = "dropQemuPid"
  /\ qemuPid' = None
  /\ Goto(c, "killVfs")
  /\ UNCHANGED <<op, ret, target, mounts, qemu, vfs, vfsPid, sock, gone, off,
                 stray>>

\* The same for virtiofsd, whether or not QEMU has gone.
KillVirtiofsd(c) ==
  /\ pc[c] = "killVfs"
  /\ \/ vfsPid # None /\ vfs' = vfs \ {vfsPid} /\ Goto(c, "dropVfsPid")
     \/ vfsPid \in vfs /\ NoKill(c) /\ vfs' = vfs /\ Goto(c, "test")
     \/ vfsPid = None /\ vfs' = vfs /\ Goto(c, "test")
  /\ UNCHANGED <<op, ret, target, mounts, qemu, qemuPid, vfsPid, sock, gone,
                 off, stray>>

DropVirtiofsdPid(c) ==
  /\ pc[c] = "dropVfsPid"
  /\ vfsPid' = None
  /\ Goto(c, "test")
  /\ UNCHANGED <<op, ret, target, mounts, qemu, vfs, qemuPid, sock, gone, off,
                 stray>>

-------------------------------------------------------------------------------
(* The unmount that stop_vm, destroy and a failed start share. *)

TestMount(c) ==
  /\ pc[c] = "test"
  /\ Goto(c, IF mounts = << >> THEN ret[c] ELSE "umount")
  /\ UNCHANGED <<op, ret, target, machine>>

\* _umount_with_retry.  umount is refused while a virtiofsd serves the tree,
\* or when the mount has gone since the test.
Umount(c) ==
  /\ pc[c] = "umount"
  /\ \/ /\ mounts # << >> /\ vfs = {}
        /\ mounts' = SubSeq(mounts, 1, Len(mounts) - 1)
        /\ Goto(c, ret[c])
     \/ /\ mounts = << >> \/ vfs # {} \/ "umount" \in Faults
        /\ Goto(c, "fuser")
        /\ UNCHANGED mounts
  /\ UNCHANGED <<op, ret, target, qemu, vfs, qemuPid, vfsPid, sock, gone, off,
                 stray>>

\* fuser -km, if it is installed: -m takes the file system that contains the
\* path, which is the overlay only as long as it is mounted.
Fuser(c) ==
  /\ pc[c] = "fuser"
  /\ \/ mounts # << >> /\ vfs' = {} /\ stray' = stray
     \/ mounts = << >> /\ vfs' = vfs /\ stray' = TRUE
     \/ UNCHANGED <<vfs, stray>>
  /\ Goto(c, "lazy")
  /\ UNCHANGED <<op, ret, target, mounts, qemu, qemuPid, vfsPid, sock, gone,
                 off>>

\* umount -l; a failure is an error unless forced.
LazyUmount(c) ==
  /\ pc[c] = "lazy"
  /\ \/ /\ mounts # << >>
        /\ mounts' = SubSeq(mounts, 1, Len(mounts) - 1)
        /\ Goto(c, ret[c])
     \/ /\ mounts = << >> \/ "lazy" \in Faults
        /\ Goto(c, IF Forced(c) THEN ret[c] ELSE "failed")
        /\ UNCHANGED mounts
  /\ UNCHANGED <<op, ret, target, qemu, vfs, qemuPid, vfsPid, sock, gone, off,
                 stray>>

\* The sockets go last; destroy then goes on to its own unmount.
DropSockets(c) ==
  /\ pc[c] = "sockets"
  /\ sock' = FALSE
  /\ Goto(c, CASE op[c] = "start"        -> "failed"
               [] op[c] = "destroyForce" -> "test"
               [] OTHER                  -> "done")
  /\ ret' = [ret EXCEPT ![c] = IF op[c] = "destroyForce" THEN "rmtree" ELSE @]
  /\ UNCHANGED <<op, target, mounts, qemu, vfs, qemuPid, vfsPid, gone, off,
                 stray>>

\* rmtree cannot remove a mountpoint.
RemoveDirectory(c) ==
  /\ pc[c] = "rmtree"
  /\ \/ /\ mounts = << >>
        /\ gone' = TRUE
        /\ sock' = FALSE
        /\ qemuPid' = None
        /\ vfsPid' = None
        /\ Goto(c, "done")
     \/ /\ mounts # << >> \/ gone
        /\ Goto(c, "failed")
        /\ UNCHANGED <<gone, sock, qemuPid, vfsPid>>
  /\ UNCHANGED <<op, ret, target, mounts, qemu, vfs, off, stray>>

-------------------------------------------------------------------------------
(* What nobody commands. *)

\* The guest powers off, or QEMU dies.
GuestOff(q) ==
  /\ q \in qemu
  /\ qemu' = qemu \ {q}
  /\ off' = TRUE
  /\ UNCHANGED <<op, pc, ret, target, mounts, vfs, qemuPid, vfsPid, sock, gone,
                 stray>>

\* virtiofsd serves one client and exits with it.
VirtiofsdExits(v) ==
  /\ v \in vfs \ qemu
  /\ pc[v] \notin {"vfsPid", "socket", "launch", "killOwn"}
  /\ vfs' = vfs \ {v}
  /\ UNCHANGED <<op, pc, ret, target, mounts, qemu, qemuPid, vfsPid, sock,
                 gone, off, stray>>

Crash(c) ==
  /\ Crashes
  /\ Busy(c)
  /\ Goto(c, "crashed")
  /\ UNCHANGED <<op, ret, target, machine>>

-------------------------------------------------------------------------------
Step(c) ==
  \/ Unresolved(c)        \/ BeginStart(c)       \/ BeginStop(c)
  \/ BeginDestroy(c)      \/ IsMountpoint(c)     \/ MountRootfs(c)
  \/ CheckBootSources(c)  \/ UnmountRootfs(c)    \/ InjectConfig(c)
  \/ FindBinaries(c)      \/ SpawnVirtiofsd(c)   \/ WriteVirtiofsdPid(c)
  \/ AwaitSocket(c)       \/ LaunchQemu(c)       \/ WriteQemuPid(c)
  \/ KillOwnVirtiofsd(c)  \/ DropPidFiles(c)     \/ KillQemu(c)
  \/ DropQemuPid(c)       \/ KillVirtiofsd(c)    \/ DropVirtiofsdPid(c)
  \/ TestMount(c)         \/ Umount(c)           \/ Fuser(c)
  \/ LazyUmount(c)        \/ DropSockets(c)      \/ RemoveDirectory(c)

Finished == /\ \A c \in Cmd : pc[c] \in EndPc
            /\ UNCHANGED vars

Next ==
  \/ \E c \in Cmd : Step(c) \/ Crash(c) \/ GuestOff(c) \/ VirtiofsdExits(c)
  \/ Finished

Spec == Init /\ [][Next]_vars

-------------------------------------------------------------------------------
(* Properties. *)

\* The types of the variables.
TypeOK ==
  /\ op \in Plans
  /\ pc \in [Cmd -> Pc]
  /\ ret \in [Cmd -> {"sockets", "rmtree"}]
  /\ target \in [Cmd -> Cmd \cup {None}]
  /\ mounts \in Seq(Cmd)
  /\ qemu \subseteq Cmd
  /\ vfs \subseteq Cmd
  /\ {qemuPid, vfsPid} \subseteq Cmd \cup {None}
  /\ sock \in BOOLEAN /\ gone \in BOOLEAN
  /\ off \in BOOLEAN /\ stray \in BOOLEAN

Stacked == {mounts[i] : i \in DOMAIN mounts}

\* A start that reports failure leaves nothing of its own behind: no process,
\* no mount, no pid file (vm.py:334-348).
FailedStartClean ==
  \A c \in Cmd : op[c] = "start" /\ pc[c] = "failed" =>
    c \notin vfs \cup qemu \cup Stacked \cup {qemuPid, vfsPid}

\* A guest that runs can be found: its pid file names it from the moment its
\* start has returned, whatever the other commands did (vm.py:178-187).
Recorded == \A q \in qemu : pc[q] = "done" => qemuPid = q

\* However starts, stops and power-offs follow each other, one overlay at most
\* is on rootfs/ and one guest at most runs on it, those aside whose start was
\* killed: two writers on one upper directory would corrupt it (vm.py:264-269).
SingleRun == /\ Len(mounts) <= 1
             /\ Cardinality({q \in qemu : pc[q] # "crashed"}) <= 1

\* A stop that does its work leaves the VM fully down and restartable
\* (vm.py:580-606); only the graceful-only stop may leave it up.
StopComplete ==
  [][\A c \in Cmd :
       /\ op[c] \in {"stop", "force"}
       /\ pc[c] = "sockets" /\ pc'[c] = "done"
       => /\ mounts' = << >> /\ qemuPid' = None
          /\ \A q \in qemu' : pc[q] = "crashed"]_vars

\* With nothing in progress and no guest, the rootfs stays mounted only
\* because the guest went down by itself or a command was killed: every
\* command that ran to its end has cleaned up.
IdleUnmounted ==
  /\ \A c \in Cmd : ~Busy(c)
  /\ qemu = {}
  /\ mounts # << >>
  => off \/ \E c \in Cmd : pc[c] = "crashed"

\* A destroyed instance has no mount and no guest, but one whose start was
\* killed before it could record it (destroy.py:38-71).
DestroyedGone == gone => mounts = << >> /\ \A q \in qemu : pc[q] = "crashed"

\* The graceful-only stop never takes a guest down that did not go by itself:
\* it "is left up" with its root file system (_instances.py:1380-1383).
GracefulKeepsGuest ==
  \A c \in Cmd : op[c] = "graceful" /\ pc[c] = "done" /\ target[c] \in qemu =>
    target[c] \in vfs /\ target[c] \in Stacked
===============================================================================
