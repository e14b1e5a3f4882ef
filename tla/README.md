# Kento in TLA+

Kento turns OCI images into LXC containers and QEMU virtual machines, plain
(`lxc`, `vm`) or under Proxmox VE (`pve`, `pve-vm`).  It has no daemon and no
database.  Every command is a process of its own that scans files in the
instance directories, decides, and changes files, mounts, processes, podman
containers and Proxmox configs one after the other.  What can go wrong in such a
program lies between the steps: two commands at once, a step that fails after
three that have succeeded, a file that names what is no longer there.  These
modules model the steps, TLC looks through their interleavings on small
instances, and TLAPS proves the core invariants for instances of any size.

Paths below are relative to `src/kento/`.

## 1. The system

| Part | State it keeps | Operations | What is hard | What makes it correct |
|---|---|---|---|---|
| lock (`locking.py`) | flock on `/run/kento.lock` | `kento_lock()` | released on every way out; several commands never take it | mutual exclusion; nobody waits for ever |
| host state (`__init__.py`, `pve.py`, `vm.py`) | `LXC_BASE/<id>`, `VM_BASE/<id>` with `kento-*` files; state directories; `/etc/pve/.../<vmid>.conf`; hookscript wrappers | scans: `next_instance_name`, `next_vmid`, `validate_vmid`, `allocate_port`, `_scan_namespace`, `resolve_any` | a scan is a snapshot; what reserves a name or a number is a file that may not be there yet | names, VMIDs, ports given out once |
| create (`create.py`, `layers.py`, `lxc_hook.py`, `vm_hook.py`) | an undo list in memory | allocate, a dozen side effects, start; `_run_cleanup` | a failure, an interrupt or a kill between any two; others allocate meanwhile | distinct directories, names, ports, VMIDs; a failed create leaves nothing; a finished one stays whole |
| VM runtime (`vm.py`, `start.py`, `stop.py`) | mount on `rootfs/`, pid files, sockets, QEMU, virtiofsd | `start_vm`, `stop_vm`, `_cleanup_failed_start`, `_umount_with_retry` | no lock at all; the guest goes down by itself; pid files go stale | one overlay and one guest; every guest recorded; failed starts and stops clean up |
| destroy (`destroy.py`) | none | resolve, probe, stop, delete config, wrapper, hold, state, directory | no lock; by name and VMID as much as by directory; force goes past failures | nothing of the victim is left, nothing of a neighbour is taken |
| orphans and adopt (`reconcile.py`) | none | `find_orphans`, `reap_orphans`, `adopt` | acts on a snapshot; `adopt` locks, `create` writes its config unlocked | never a healthy instance; an adopted one is whole |
| image holds, scrub, image pruning (`layers.py`, `reset.py`, `images.py`, `_images.py`) | podman's images and the containers `kento-hold.<name>`; `kento-image`, `kento-image-id`, `kento-layers`, `kento-hook`; `upper/`, `work/` | hold, repin, remove; scrub; `images prune`, `OciImage.prune`, `remove`; the ledger | no lock anywhere; a prune plans from three reads; a repin removes before it creates; tags move | an image in use stays; a scrub is whole or not at all; the ledger is true |
| set (`set_cmd.py`) | the `kento-*` files, the LXC or Proxmox config, its args line | validate everything, then write file after file | each setting is kept two or three times; a write may fail half-way | the copies agree; the guest boots with what is on file |
| typed handles (`_instances.py`, `_network.py`, `_result.py`) | a resolved directory, the settings last read, a status | create, load, refresh, setters (stopped and live, with rollback), start, stop, suspend, resume, scrub, destroy | the handle remembers; the command line does not ask it | what it remembers is so; a refused set is undone; every call returns |
| port forwards (`portfwd.py`, `hook.sh`) | nft or iptables rules, QEMU's hostfwds, `kento-portfwd-*` markers | install at start-host or from a detached worker, tear down at post-stop, live set | the worker outlives the hook; post-stop races with it; hosts crash | the rules in force are this boot's and are gone after the stop |
| hooks (`hook.sh`, `inject.sh`, `vm_hook.py`) | mounts, rules, processes | pre-start, start-host, post-stop | post-stop may be late or missing | as VM runtime and forwards |
| suspend (`suspend.py`) | QEMU monitor, `lxc-freeze` | suspend, resume | a paused guest is stopped, destroyed or set | the status tells of it |
| references (`_references.py`) | none | parse and classify | ambiguous text | one reading per text |
| fetch, extract | cache, temporary files | download, unpack | retries, limits | a partial file is never used |
| reading commands | none | list, info, logs, diagnose, attach, exec | - | they change nothing |

Interactions: commands meet only in the files, the process table, the mount
table, podman's list and Proxmox's directory of configs.  `create` calls the
start routines, `destroy` calls `stop_vm`, `reap_orphans` calls `destroy`; Proxmox
and LXC call the hooks; a guest may stop by itself and `pct destroy` or `qm destroy`
may delete a config behind kento's back.

## 2. The modules

```
KentoState --+-- Create --+-- Kento ------------ MCKento      (TLC)
             |            +-- Adopt ------------ MCAdopt      (TLC)
             |            +-- (implements) Reservation
             |            +-- MCCreate                        (TLC)
             |            +-- CreateProofs -- RollbackProofs --+-- AdoptProofs
             |                                                +-- KentoProofs
             +-- Destroy -----> Kento
VmRuntime --+-- MCVmRuntime                                   (TLC)
            +-- VmRuntimeProofs
Images -----+-- MCImages                                      (TLC)
            +-- ImagesProofs
Forwards ---+-- MCForwards                                    (TLC)
            +-- ForwardsProofs
Settings -- Typed -- Library --+-- MCLibrary                  (TLC)
                               +-- LibraryProofs
```

**KentoState** - the host: `lock`, `disk` (directory to the `kento-*` files that
some decision reads), `holds`, `layers`, `conf`, `wrapper`, `up`, and the scans
over them as operators named after their functions.  A Proxmox config is
modelled by the directory its rootfs line names: enough to tell whose it is and
to see it overwritten.  Several keys are easy to confuse and are kept apart as in
the code: the directory of a `pve` container is its VMID, that of a `pve-vm` its
name; a state directory under `KENTO_STATE_DIR` loses the base
(`OutsideState`); podman's hold goes by the name alone; LXC and QEMU configs of
one VMID are different files.

**Create** - one process per `create()`.  Each action is one side effect or one
registration of an undo: in several places the code appends the undo only after
the effect, and these gaps are program points of their own (`GapPc`).
`Acquire` to `MakeDir` run under the lock; the lock goes with the mkdir and is
taken once more around the choice and the write of the port (`PickPort`,
`WritePort`).  `Fail` is an exception of a step before its effect, `Interrupt` a
KeyboardInterrupt (or a failure half-way) anywhere, `RunCleanup` one undo in
reverse order, which may raise if its label is in `Stubborn`, `Reraise` the end of
the rollback and `Crash` a SIGKILL.

**VmRuntime** - one plain VM and several commands.  `mounts` is the stack of
overlays on `rootfs/`, `qemu` and `vfs` the live processes, each under the name of
the start that launched it, `qemuPid` and `vfsPid` the pid files.  The program
points follow `start_vm` (isMount to qemuPid, with its two ways of cleaning up),
`stop_vm` (killQemu to dropVfsPid) and `_umount_with_retry` (test, umount, fuser,
lazy), which three callers share: `ret` says where it returns to.

**Destroy** - one process per `destroy()` or `prune --orphans`.  What the code
holds in local variables is local here: the directory, the mode, the state
directory and the VMID are read once and used later.

**Kento** - creates, removers and Proxmox on one host.  Its history
variables (`exposed`, `rivals`, `prey`) change nothing; they say which
creates a property is about.

**Adopt** - creates and adopters on one host.  An adopter resolves its instance and
reads mode and VMID outside the lock, tests under it that nobody has the VMID, and
then, as `emit_pve_config` does (`reconcile.py:314`), reads the VMID of the directory
once more and writes wrapper and config at that.  Proxmox deletes configs and gives
VMIDs to guests of its own at any time, and does not know of the lock.  `overtaken`
is history: the adopters that write at a VMID they have not seen free, because Proxmox
has given it away since or because their directory has got another one.

**Reservation** - what `kento_lock` and the directories promise together, with no
code in it: a client reserves what nobody has, in one step, and keeps it, gives it
back or abandons it.  `Create` implements it (`Directories` in Create is the
refinement mapping: `taken` is the set of existing directories, `held` the one
that a create may write in, `kept` those that have succeeded).

**Images** - podman's store, the files by which a guest names its image, and the
commands that write both.  An image is a content id; a tag names one and moves
with `Pull`; a hold is `[for, pin, label, image]`, that is, the guest, what podman
really pins, the label kento reads and the image string.  `known` is FALSE for a
podman so old that `resolve_image_id` answers nothing: holds then pin the tag and
bear no label, and the ledger is empty, for `OciImage.resolve_id` raises on the empty
id and `ImageRecord._list` skips the guests and holds that it cannot resolve
(`_images.py:511-521`, `536-544`, `1009-1014`).  `Upgrade` makes podman a new one at any
time; what an old one left behind stays as it was.  `scrub` is
taken apart into the steps of `_safe_clear_dir` (sweep, rename, mkdir, rmtree) and
of `repin_image_hold`; `images.prune` into its reads, its plan and its removals.
`shaken` is history: the guests whose last create or scrub met a moved tag, a
fault, or a prune that had the guest on its list.

**Forwards** - one guest, container or VM, from boot to stop.  `rules` are the
rules in force, added in `Parts` steps each; `mark` the marker files; `hook` and
`post` the start-host and post-stop runs of `hook.sh`, `worker` the DHCP pollers
it detached (one per boot); `setter` a live or offline set of the forwards with
its rollback, which holds the lock.  A host crash takes rules and processes and leaves files.

**Settings** - what `kento set` does to the files of a stopped instance, as
operators: which requests are refused before anything is written (`Valid`), and the
sequence of writes that the others become (`Writes`, `Done`), one file or one
Proxmox call each; `Booted` is what a guest gets of the files.  Memory, cores, network type and forwards stand for all
settings.  A network is `kento-net-type` and `kento-bridge` as one value: `bridge` has a
named bridge, `unnamed` is the type bridge without one.  A request for a bridge without
a name keeps the one that there is (`KeepsNet`, `set_cmd.py:531-535`), which may be none;
the configuration then gets no interface (`ConfNet`; 743, 832, 934).

**Typed** - `SystemContainer.create` and `VirtualMachine.create` and the way back:
the typed request becomes the arguments of `create` (`CreateKwargs`), these
with the mode's defaults and what the host has become files (`Creatable`,
`ResolveNetwork`, `CreatePort`, `CreateDisk`), and files become the terms of the
library again.

**Library** - a handle on an instance made from such a request.  Each call
(setter, start, stop, suspend, resume, scrub, destroy, refresh) is a sequence
of steps: probe, writes of Settings one by one, live changes, rollback, update of
what the handle remembers.  Between them the command line starts, stops, sets and
suspends the same instance.  `synced`, `plain`, `told` and `asked` are history.

## 3. The runs

| Run | Config | Expected | What it asks |
|---|---|---|---|
| create_plain | CreatePlain | pass | two creates of `lxc`, `vm`, `pve-vm`; generated and explicit names, automatic ports, start; an error before every effect, an undo that raises, kills; layers outside the directory.  `DirsDistinct`, `PortsDistinct`, `NamesDistinct`, `RollbackComplete`, `HoldsKept`; `Ends` under fairness; that Create implements Reservation (`ReservesDirectories`) |
| create_pve | CreatePve | pass | `pve` creates, automatic and explicit VMIDs, one beside a plain container; interrupts and kills.  `VmidsDistinct`, `CommittedIntact` |
| create_vmid_race | CreateVmidRace | violation | two `pve-vm` creates: `CommittedVmidsDistinct` |
| vm_life | VmLife | pass | up to two starts, three stops, a destroy, power-offs, kills, six kinds of failing step.  `SingleRun`, `Recorded`, `FailedStartClean`, `IdleUnmounted`, `StopComplete`, `DestroyedGone` |
| vm_graceful | VmGraceful | violation | `GracefulKeepsGuest` |
| host_prune | HostPrune | pass | two creates beside a forced destroy or a prune, with out-of-band removals.  `SurvivorsIntact`, `DestroyComplete` |
| host_reap_race | HostReapRace | violation | `ReapSparesHealthy`: a prune that scans in the middle of a create |
| host_adopt | HostAdopt | pass | two `pve` or `pve-vm` creates and two adopts, while Proxmox removes guests and reuses VMIDs.  `AdoptedWhole`, `AdoptClobbersNothing` |
| images | Images | pass | two guests that share a tag, created, started, scrubbed, destroyed, killed, beside pulls, both prunes and removals, with a podman that tells ids from the start or from an upgrade on.  `GuestBacked`, `ClearWhole`, `LedgerTrue` |
| images_prune_race | ImagesPruneRace | violation | `PruneSparesGuests`: a prune of images whose plan was made during a create |
| forwards | Forwards | pass | two boots of a container or VM, static address or DHCP, nft or no backend, live and offline sets, kills, a host crash.  `BootTrue`, `TeardownComplete`, `NoLateWorker`, and `ForwardsComeUp` under fairness |
| library | Library | pass | one instance of each mode created from typed requests, two sets, one failing step, the command line beside the handle.  `CopiesAgree`, `RunsAsRecorded`, `CacheTrue`, `StatusTrue`, `AsAsked`, `RolledBack`, and `CallReturns` under fairness |

What the four violations show is told in PROJECT.json, with the lines that promise
otherwise.  In short: a VMID of a Proxmox VM is reserved by nothing until long
after the lock that chose it was released; the graceful-only stop takes virtiofsd
and the root file system from the guest it spares; a prune of orphans takes a
create that has not written its config yet for an orphan and destroys it when it
has; a prune of images does the same to its hold.

### Behaviour the passing runs step around

The code does these things, the models have the steps for most of them, and no property
is claimed of them; a reader who changes the code should know them.

- The name generated for a `pve` container is written outside the lock that chose
  it (`create.py:1176`; the directory bears the VMID), so two such creates may get
  one name.  Hence `NoAutoPve` in the theorem on names.
- `create` registers several undos after their effects (`GapPc` in Create): an
  interrupt in between leaks a directory or a hold.  Hence `Interrupts = FALSE` where
  `RollbackComplete` is checked.
- `start_vm` fails with its rootfs still mounted when the inject script or the
  search for QEMU and virtiofsd fails (`vm.py:327`, `340`): the try that would undo it
  comes later.  Hence no `inject` or `binary` in `Faults`, and `Tidy` in the theorems.
- The second of two stops may run `fuser -km` on a rootfs that is no longer a mount
  (`vm.py:229`), which means the file system of the host.  The variable `stray` of
  VmRuntime says so.
- After a host crash the file `kento-portfwd-active` is still there, and the next
  start-host skips the rules (`hook.sh:42-43`, `138`).  `BootTrue` and
  `ForwardsComeUp` speak of boots with no such leftover (`plain`).
- `portfwd.py` takes any text from `hostfwd_remove` for a failure (`313`).  QEMU's own
  sources are not part of this repository, but as far as we know its monitor prints a line
  after a removal that succeeded as well ("host forwarding rule for ... removed").  With such
  a QEMU every live removal or change of a forward on a running VM raises after the rule has
  gone, and nothing puts it back, as the inverse is noted only after a removal that returned
  (`_instances.py:785-788`); `kento-port` goes on listing it.  In `SetRemove` this is the
  branch of a fault on a VM that removes the rule.  There it is the normal case, and not the
  exception that `MaxFaults` makes of it; it clears `plain`, so `BootTrue` says nothing of the
  rest of that boot, and what it says of live removals on a VM is about a silent monitor.
- `portfwd.py` does not unwind a forward whose second rule fails (`205-206`) and never removes
  `kento-portfwd-error`.  A setter that polls for DHCP, crosses a start or races a
  stop may leave rules behind: these, too, are not `plain`.
- A setter that is refused sets the handle's remembered values back to those it read
  before, over what another has written since (`_instances.py:694`, `998`); a live
  set skips the keys that equal the remembered ones (`934`).  `CacheTrue` therefore
  requires `synced`.
- `set --network bridge` without a name, of an instance that has no bridge, succeeds: it records
  `kento-net-type=bridge` (`set_cmd.py:597`), no bridge, and a configuration without an interface
  (535, 743, 832, 934).  `create` with the same arguments looks for a bridge and attaches
  the instance to it, or refuses (`__init__.py:186-195`), and `docs/container-lifecycle.md:192-194`
  says that `set` "re-emits the config exactly as `create` would".  This is a state of its own here
  (`unnamed`), which the command line and the handle of the run both reach, and for which
  `CopiesAgree` asks for no interface.  A handle that has read such a network remembers a bridge without a name;
  to set that again, as a rollback does, keeps whatever bridge is there by then
  (`set_cmd.py:535`), so a setter that is to leave it and fails is not put back, and
  `RolledBack` leaves it out (`Covers`).  `CacheTrue` and `AsAsked` read "bridge" without a
  name as the code does: whatever named bridge was there, or none (`NewNet`).
- The network setter on a VM unlinks `kento-port` and its rollback does not write it
  again.  A setter of the sizes that fails half way on an instance without sizes leaves what
  it has written: the handle has no old value, `set_cmd()` without arguments raises "nothing
  to set" (`set_cmd.py:396`), which is only logged, and `_persist_resources({})` writes
  nothing (`_instances.py:998`, `968`; against 941-943, "the persist rollback below still
  restores the on-disk state").  Both are excluded in `RolledBack` (`Covers`).
- The live path of the resource setter bypasses the validation of `set`, and changes
  the outer cgroup only, not the inner limit that `hook.sh:507-544` sets.
- `create` accepts what `set` refuses: usermode for a container, host networking
  for a VM, sizes of 0.  A setter of such an instance that fails half way cannot be rolled
  back, as the old value is itself refused; the instance is no longer `plain` then, and
  the properties at rest say nothing of it.  Setters that fail before they write, and all
  that succeed, are covered: the creations of the run have a container with usermode
  and no memory.  A forward given to a VM without usermode networking is dropped silently.
- On a podman that does not tell ids a scrub leaves the old hold, and the ledger lists
  nothing: `LedgerTrue` is about a podman that does, and about holds left by one that did
  not.  The ledger calls an image orphaned while a guest runs on it once its tag has moved (`_images.py:387-389`).
- An adopt beside a destroy of the same instance may write a config for a directory that
  has gone; a prune's old list of orphans may destroy an instance that has just been adopted.
  The run has no removers.
- Two destroys of one instance at once: the slower one goes on, by VMID and name, after the
  faster one has removed the directory that reserved them (`destroy.py:92-127` look at it no
  more), and deletes config, wrapper, hold or state directory of an instance that has been
  given the VMID or name meanwhile.  `Stranded` says when, and sets those creates apart.
- `--force` lets one name be an instance of either namespace (`create.py:1030`).  Under
  `KENTO_STATE_DIR` the two then share one state directory, and destroying one takes
  the layers of the other.  Hence the second hypothesis of `SurvivorsStay`.

### Bounds, and why they are enough

- Two creates.  Each hazard of allocation and rollback involves a pair; what a
  third could add is one more neighbour.  The invariants that are proved hold for
  any number.
- Names `n0 n1 n2` (generated), `web`, `db`; two or three VMIDs, one taken by a
  foreign guest (`Others`), so that each scan has something to skip and something
  to pick; two ports for two creates.  One forward per instance: the code loops
  over the forwards inside one locked section.
- `Asks`, `Removals` and `Plans` list what each invocation may have been given;
  `Stubborn`, `Interrupts`, `Crashes`, `Faults`, `Flaky`, `OutOfBand` switch kinds of
  failure on and off, because all together leave TLC's reach.
- In create_plain `OutsideState` is TRUE (the layers have a life of their own), in
  create_pve FALSE.  It is constant in a run: two commands under different
  `KENTO_STATE_DIR` are not modelled.
- `Crews` in host_prune lets one remover run beside two creates, a destroy or a
  prune.  Both at once have more than eleven million states.
- vm_life: starts are `Alone`, that is, no other command runs with them; stops and
  destroys overlap freely.  Nothing in the code enforces the former: with two
  starts at once both pass `is_vm_running`, which is listed as a hazard.
  Of the kinds of failure, `inject`, `binary`, `pid`, `unmount` and `lazy` are switched
  off because the code's answer to them is to leave the mount or the process.
- images: two guests, since each race is between one guest's command and a prune or
  pull, and the second shares the image; one tag and two ids, so that the tag can
  move away from the content a guest runs on; `MaxBusy = 1`, one guest's command at work at a time
  beside the collector (the theorems have no such bound); one kill or failure.  `Known` is what
  podman may be at first, old or new.  6.2 million states.  `ImagesPruneRace` has no fault.
- forwards: two bindings and two targets, so that a set can add, remove and
  retarget; two rules per forward, so that an addition can stop in the middle; two boots,
  so that a leftover of the first can meet the second.  An iptables host is modelled
  and left out of the run: `TeardownComplete` excludes it, because after a live addition
  without the backend's marker post-stop looks for the rules with nft.
- library: two values of each setting, of which one is more cores than the host has (`HostCpus = 1`,
  for the clamp of `pve-vm`); two sets and one fault, so that a rollback can meet another
  set or fail itself; five requests to create on two hosts (plain without a bridge, Proxmox with one) give all four
  modes, among them a container that `set` would refuse (usermode, a size of 0) and one that
  asks for a bridge without naming it.  The handle sets no network, usermode, a bridge by name and one
  without; the command line sets memory and a bridge without a name at once, which a plain VM
  refuses.  The bags have one key, both, and a
  value that `set` and the live change refuse.  1.4 million states; a plain host with a
  bridge would allow no instance that the other two do not.
- host_adopt: two adopters, so that both can find the same orphan.
- No state constraint and no view: the runs are exhaustive within these constants.
  Images alone uses symmetry, of the two guests, and checks no liveness.

`SurvivorsIntact` is about every create that succeeded but those (1) that a
destroy aimed at, (2) that a prune's scan met half made, which host_reap_race
shows to be lost, (3) whose config was deleted out of band, (4) that shared
an explicit name or a pve-vm VMID with another create in progress (`rivals`; the
explicit `--vmid` and the race of create_vmid_race), (5) that were in progress
while a remover went on with a directory that another command had already emptied or
removed (`Stranded`).  `DestroyComplete` is about instances whose directory this remover
was the first to take.

### Fairness

`Create!Spec` has weak fairness on the steps of each create: the processes are
scheduled, and the external commands they wait for (podman, pct, qm, umount)
return.  Neither failing nor being killed is fair: a failure is one of the
outcomes of a step, `Interrupt` and `Crash` are outside.  Waiting for the lock
needs no strong fairness with two creates, since each releases it after a few
steps and takes it at most twice.  VmRuntime, Kento, Adopt and Images state safety only and have no fairness.

`Forwards!Spec` has weak fairness on the hook, the post-stop hook, the setter and each worker:
they are processes that run, and whose waits have deadlines.  Booting, stopping, leases,
kills and crashes are not fair.  `ForwardsComeUp` does not need a lease to
come: a worker that gives up waiting for one says so, and the boot is no longer `plain`.  `Library!Spec` has weak fairness on `Step`, the next step of the
call under way: the process of the handle runs, and the tools it waits for
end, if only by a timeout.  The command line and the guest are not fair.

Deadlock is checked where a stop would be a defect: in Create, VmRuntime, Kento and
Adopt the only steps of a state where everyone has ended are the named stutters
`Finished`, `Stopped` and `AllStopped`.  In Images, Forwards and Library the counters of their
bounds run out and the system may really stop, so `CHECK_DEADLOCK FALSE`.

## 4. The proofs

For all values of the constants under the named assumptions of the modules (which say
what kind of values the constants are, not that anything is finite), and
with every failure, interrupt and kill the modules have, TLAPS checks these theorems.

**CreateProofs**, of Create:

- `Typed`: `TypeOK` is invariant.  It is not inductive: which steps are reached
  with a name and a VMID resolved has to be known, so `TInv` adds `Resolved`.
- `DirectoriesDistinct`: `DirsDistinct`.  The inductive invariant `SInv` adds
  `LockHeld` (whoever is between acquiring and releasing holds the lock) and
  `UndoShape` (the removal of the directory is the first undo registered, so the last one
  run; nobody touches a directory after letting go of it).  A directory is made
  only where none is and removed only by its owner.
- `AutoPortsDistinct`: `PortsDistinct`.  `PInv` adds `PortFresh`: between the scan
  and the write the port a create is about to write is on no other's disk.  It is
  the lock that keeps it so.
- `PveVmidsDistinct`: `VmidsDistinct`, if no create asks for a `pve-vm`.  There the
  directory is the VMID, so this is a corollary of `DirectoriesDistinct`.  With a
  `pve-vm` it is false, as create_vmid_race shows.
- `GeneratedNamesDistinct`: `NamesDistinct`, if kento is not asked to name a `pve`
  container.  `NInv` adds `NameFresh`: a name generated but not yet filed is no
  other's.  With a `pve` container it is false (section 3).
- `CreateReserves`: `ReservesDirectories`, that Create implements Reservation.  From
  `SInv`: of two creates at most one may write in a directory, and only a mkdir
  makes one and only its owner's rollback removes it.  Each step is sorted by what
  it does to the directories and to `Owns`: a mkdir is a `Reserve`, the end of a
  create is a `Keep`, the rmtree of a rollback a `Release`, a crash or a failing undo
  an `Abandon`, and all others change nothing that Reservation sees.

**RollbackProofs**, of Create, for any number of creates at once:

- `RollbackCompletes`: `RollbackComplete`, without interrupts.  The invariant `RInv`
  says of every effect in place of a create that shares nothing that it is *owed*:
  registered in the undo list, reported as stuck, about to be registered, or to stay
  (`Tracked`); that whatever is there was made by somebody past the lock (`Traced`);
  and that a state directory found there before was another's (`SharedState`).  With
  interrupts it is false at every program point of `GapPc`, which the code admits.
- `HoldsPinned`: the action property `HoldsKept`, where two creates that may come by
  one name want it in one namespace (`NamesApart`).  podman's hold goes by the name
  alone, so one explicit name given for an `lxc` and a `vm` at once refutes it.
- `CommittedStays`: `CommittedIntact`, with interrupts, kills and failing undos, if at
  most one `pve-vm` is being asked for (`OneVm`; create_vmid_race is what happens
  else) and, where the layers live outside the directories, names tell the creates
  apart (`LayersApart`).  The invariant `KInv` says exactly which files a create
  at each program point has written (`Filed`), and that what it has registered an undo
  for is in place (`UndosInPlace`): whoever rolls back takes away its own only.

`IdsApart` in these theorems is that no name is a VMID where both name state
directories in one place (`OutsideState`): an `lxc` called "101" and a `pve-vm` 101 would
share one.  The names themselves may be anything.

**AdoptProofs**, of Adopt, for any number of creates and adopters beside Proxmox:

- `AdoptersTyped`: `AdoptTypeOK`; no way out of the locked section keeps the lock.
- `AdoptsClobberNothing`: the action property `AdoptClobbersNothing`.  Since create
  writes its config outside the lock, the adopter's test under the lock is not enough;
  what saves it is that the orphan's own directory keeps its VMID from being given
  again.  `AInv` says so: a VMID is recorded by one directory and claimed by one
  create (`Apart`), configs belong to the recorder of their VMID (`Confs`), the adopter
  aims at the VMID its directory records (`Aimed`), and what is at that VMID was there
  when it looked or is a guest of Proxmox it has been overtaken by (`Seen`).
- `AdoptedStaysWhole`: `AdoptedWhole`, from `WInv`, which joins `AInv` to the parts of
  `KInv` that survive two creates with one VMID.

Both need `NumbersApart`: an `lxc` directory called "101" counts as the record of VMID
101 in the scans, whatever it is, so the records of one VMID would be two.

**KentoProofs**, of Kento, for any number of creates, destroys and prunes, in all modes, with
every failure, interrupt and kill, and any removal behind kento's back:

- `KentoTyped`: `KentoTypeOK`, without hypotheses.  `HostInv` adds to the types how the
  program points, requests and undo lists of creates fit together, which survives whatever
  removers do to the host (`Core`), and what a remover has read of its victim (`Fitted`).
- `SurvivorsStay`: `SurvivorsIntact`, where no name is a VMID (`NumbersApart`) and, if
  layers live outside the directories, nobody forces a name (`Unforced`).

  `KInv`, which keeps finished creates from other creates, is of no use here: it speaks of
  all creates, and a remover falsifies it for its victims.  `SparedInv` says of each create
  that nobody has met, and of it alone, that it is `Safe`, from its first step on: what it
  has made is there (`Whole`); no other directory records its VMID (`RecordedOnce`), nor is
  another resolvable instance called as it is (`ImagesApart`), so that no remover finds its
  config or state directory by way of another one; no create in progress has its directory,
  VMID or name (`OthersApart`); and no remover at work has its directory, its config or
  its state directory in hand (`RemoversApart`).  The last is
  where the order of `destroy()` counts: a remover holds a VMID only while its own directory
  records it.  `Told` ties this to the history: whoever is met is noted as such.
  The proof found an earlier version of the property false, with two destroys of one instance
  (section 3), which the runs, having one remover, had not.
- `DestroyTakesAll`: `DestroyComplete`, where no name is a VMID if layers live outside the
  directories (`IdsApart`), and where stops and `pct destroy` may fail, with one remover at a time
  (`LoneIfFlaky`): a second one may finish the work of the first on what the first was
  spared, and its own warnings would not name that.

  The property speaks of the last step, so `GoneInv` has to say what the others left behind.
  `TrailInv`: a remover's directory, mode and config are those of a create that once had them
  (`Origins`, `Sought`), and where nothing fails nobody skips anything (`Solo`).  `Unmarred`, of
  a create that shares nothing: while it is in the making no remover has found it; its guest
  runs only once it is done, and never without its config while no remover is at it; and its files
  are its own until a remover empties them.  `Hunted`, of a finished instance from when the
  first remover took it: every remover at work on it has read its mode and state directory
  truly and has taken away the parts its program point has passed; and once the directory is
  empty, all of the parts, whoever did it (`Chased`).  The last clause is what a second destroy
  needs that finds the files gone and passes over VMID and hold; that a guest without a
  config is down already (`Hunted`) is what makes a status query that fails harmless.

**ForwardsProofs**, of Forwards, for any bindings, forwards, rules per forward, boots
and faults, every kind of guest and every backend, iptables included:

- `ForwardsTypeOK`: `TypeOK`, from `Typed`: types, and who may be at work (`Shape`).
- `NoWorkerIsLate`: the action property `NoLateWorker`.  `NoLate`: from the moment a
  plain container's hook returns, its worker is the process whose pid is noted, so the
  post-stop hook kills it; before that the guest is starting and the worker has no
  address to go on with.
- `NothingLeftBehind`: `TeardownComplete`.  `Steady`, about boots that nothing has
  disturbed: one worker at most, of this boot (`OneWorker`); the marker files say what
  is so (`MarksTrue`); a live set has found the hook and the worker done, and the handle
  remembers what `kento-port` lists (`SetAlone`).
- `UndoAlwaysTrue`: of a live set, disturbed or not, the undo list takes back what has
  been done, in the order it is taken off (`AddsFirst`): a binding that was moved is
  removed before it is put back.  Taking the list in the order it was written breaks
  this, which is the mutant of `BootTrue`.
- `BootsAreTrue`: `BootTrue`.  `Told` is the invariant: the rules in force are those of the
  forwards listed, less what the hook or its worker has still to install; during a live
  set they are those of `Progress`, and while one is undone those of some forwards
  from which the rest of the list leads back to the remembered ones (`Back`).

**VmRuntimeProofs**, of VmRuntime, in three strengths:

- Of any behaviour: `RuntimeTyped`.
- If nothing runs beside a start and the pid file can be written (`Orderly`): `OneRun`,
  `GuestsRecorded`, `DestroyedLeavesNothing`.  The first condition is nobody's promise
  and nothing in the code enforces it: with two starts at once the properties
  are false, which section 3 and the hazards say.  Stops, destroys and power-offs
  overlap freely.
- If, besides, no unmount, injection, search for binaries or lazy unmount fails (`Tidy`):
  `FailedStartsClean`, `IdleLeavesNoMount` and `StopsComplete`, an action property.
  The code's answer to these failures is to leave the mount where it is.

  The invariant is `VInv`.  `Overlay` says that the stack of mounts has at most one
  element and whose it is; `Sole`, that a start in progress has no other guest beside it;
  `Downed`, what a command that has passed its kill can rely on (no live guest under
  the pid file); `Owed`, that an overlay without a guest is some command's to
  unmount.  `IdleUnmounted` follows from the last when no command is left.

**ImagesProofs**, of Images, for any number of guests, tags and images, commands on all
guests at once and any number of faults:

- `ImagesTyped`: among types, that a tag names an image in the store and no guest has two holds.
- `GuestsBacked`: `GuestBacked`; `ClearsWhole`: `ClearWhole`; `LedgerTells`: `LedgerTrue`,
  for a podman that tells ids, whether it always has or was upgraded with holds around.

  The invariant `IInv` follows the guest's command: what `create` and `scrub` know of
  their image stays so as long as nothing has moved it (`Creating`, `Scrubbing`), so
  that the guest is backed at the end (`Resting`); `HoldsTell`, that a hold pins content
  that is in the store, rests on podman's refusal to remove an image in use; `Spared`,
  that a prune in progress has only guests on its list that did not exist, or that are
  `shaken`; `Clearing`, how far the upper directory is.

**LibraryProofs**, of Library with Settings and Typed, for any sizes, forwards, hosts and
creations, any requests of the handle and of the command line, any number of sets and of faults:

- `LibraryTypeOK`: `TypeOK`, from `Types` and `Shape` (which call has what to do, and that a
  call that changes limits is one on the sizes of a container).
- `LibraryStatusTrue`: `StatusTrue`.
- `LibraryInvariant`: the inductive invariant `InOrder`, from which the following are read
  off at states where no set is under way.
- `LibraryCopiesAgree`, `LibraryRunsAsRecorded`, `LibraryCacheTrue`, `LibraryAsAsked`: the
  properties of these names.
- `LibraryRolledBack`: the action property `RolledBack`.

  These hold for requests of any network, a bridge without a name included: the lemma
  `FitsStays` says that setting what the handle remembers keeps the network that fits it.

  In the middle of a set none of the properties holds: the copies differ, and files,
  guest and handle agree at the end only.  `InOrder` therefore speaks of the disk that
  the writes still to be made lead to.  What a list of writes leads to needs no
  induction over the list: `Reaches` tells it from the last write to each file, with the
  remaking of a Proxmox VM's args at the end of the list, if at all
  (`sync` reads the configuration as it then is).  The first lemmas show that a
  write keeps it (`StillReaches`), that it is equality when nothing is left
  (`NothingLeft`), and that the writes of a request reach exactly `After`
  (`WritesReach`), which says what the request does without saying how.

  The parts of `InOrder`: `Rests` (a set on the command line, or none, leads to a disk in
  order), `Forward` (so does a setter's, and to what was asked for), `Living` (which limits of a
  running container have been changed), `Quiet` (no guest is up while files are written but a
  container whose limits are changed), and `Backward`: a setter at work with nobody else has left
  the files `Within` what it was to change, whichever of its writes it has made, so that
  setting the values the handle remembers leads back (`WayBack`); and it has the limits
  still to be put back on its list (`LiveFrom`).

  The hypotheses of the properties (`plain`, `synced`, `told`, `asked`) are history in the
  model, not assumptions of the theorems.  The invariant showed that an earlier version of the model
  was wrong: with an instance that `create` accepts and `set` refuses, the reversal is itself
  refused and leaves what was written, which the model had called rolled back.

Only model-checked: liveness (`Ends`, `ForwardsComeUp`, `CallReturns`), which is beyond the
prover.  The inductive invariants of Adopt and Forwards were run through TLC on the
constants of host_adopt (2.1 million states) and of forwards (1.1 million) before they were
proved, `SparedInv` on those of host_prune (1.6 million) and, in part, on larger
ones with two removers, `GoneInv` on one create with up to three removers (7.1 million);
`InOrder` quantifies over all disks, which TLC cannot enumerate, and only what
follows from it was.

## 5. What the models leave out

- Parameter validation before the lock, and what the files contain beyond what is
  listed in `Files`.  Wording, logging, colours, the command line.
- In the runs names and VMIDs are disjoint sets: an instance called "101" occurs only in
  the theorems that do not ask for `IdsApart` or `NumbersApart`.
- External commands return.  The kernel drops a flock with its process.
- pids are not reused.
- The rmtree of a rollback is one step, that of a destroy two (the content,
  then the directory).
- In Destroy the unmount of a plain VM's rootfs is left to VmRuntime, which has the
  mount.  Removers are not killed in the runs.
- `start.py` and `start_vm` both test whether the VM runs; the two tests are one.
- Create and Destroy have holds that may fail to be made, but no images; Images has
  images and holds, and of the instance only the files that name an image.
- Images: what scrub injects and rewrites besides hold, layers and hook; layers shared
  by images; `images.prune` compares ids with tag strings where it looks for
  candidates (`images.py:171-173`), which the model keeps.
- Adopt: no remover runs beside it, and no create of a Proxmox VM with the same VMID.  For a
  `pve` container the directory may be one that a destroy is emptying; the hook
  that `adopt` would write there is not modelled.
- Forwards: one instance; addresses, and the text of the rules.  A VM booted without
  forwards has no usermode device to add one to.  Proxmox may run the post-start hook
  after post-stop; the model has the two in order.
- Settings, Typed and Library have memory, cores, network type and forwards only: addresses,
  MAC, host name, search domains and pass-through arguments go the same way to the same
  files.  `DHCP` stands for `STATIC` too.  A file is written whole or not at all.
- Library has one handle, and no lock variable: no other holder of the lock touches
  that instance.  `list` and `get` by kind, transient instances, exec, logs and the algebra of
  `Result` are left out, and so is the fallback of `is_running` that assumes a guest
  runs when it cannot tell.
- The mounts of `hook.sh pre-start` and of the Proxmox hook (`vm_hook.py`), which are the
  steps of VmRuntime in another process.
- References, download and extraction, the reading commands and cloud-init seeds: parsing,
  input and output, with no state of their own to get wrong.

Where documents and code differ in ways no run is about: `_network.py:50-53` says that
the value of a `NetworkMode` is the literal in `kento-net-type`, but the file has `bridge`,
`usermode`, `none` or `host`; `_instances.py:655`, `680` and `757-758` count on the lock to keep a start away
from a set, and no start takes it; `suspend`, `resume` and `exec` go by the handle's name
and the other calls by its directory; a start of an instance whose `kento-image` is missing
raises `FileNotFoundError` out of the `Result`; `set --port` writes the port of a bridged
`pve-vm` and then unlinks it.

## 6. Plan

Written: KentoState, Create, Reservation, VmRuntime, Destroy, Kento, Adopt, Images, Forwards,
Settings, Typed, Library, and the proofs of section 4.  What could still be added:

1. **Names**: explicit names given twice at once (`docs/container-lifecycle.md`: names
   are unique across all modes), composed with Images, where the two share a hold.
2. **Hooks**: pre-start of `hook.sh` and `vm_hook.py` beside the stop of a guest, with
   the mounts of VmRuntime; suspend in VmRuntime.
3. **Adopt beside destroy**, and prunes with a list from before the adoption.
4. Pure operators: references, fetch's retries and limits, the combination of results.
