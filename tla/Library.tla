------------------------------ MODULE Library -------------------------------
(***************************************************************************)
(* A handle of the library on one instance, and everything that happens    *)
(* around it.  The handle remembers what it last read or wrote; its        *)
(* setters write through set (Settings) under the kento lock, and change a *)
(* running container's limits at once; what fails half way they try to put *)
(* back.  Meanwhile the command line starts, stops, sets and suspends the  *)
(* same instance, and none of these takes the lock: a handle's call is a   *)
(* sequence of steps that they fall between.                               *)
(*                                                                         *)
(* One handle, hence no lock variable: no other holder of the lock touches *)
(* this instance.                                                          *)
(***************************************************************************)
EXTENDS Typed

CONSTANTS
  Bags,        \* resource bags [mem, cores] a caller sets; Absent: no key
  Nets,        \* network modes a caller sets
  Requests,    \* requests of `kento set` on the command line
  Creations,   \* what a caller asks of create
  MaxFaults,   \* writes, tools and live changes that fail
  MaxSets      \* sets made, by the handle and on the command line

ASSUME LibraryAssumption ==
  /\ Bags \subseteq [mem : Mems \cup {0, Absent}, cores : Cores \cup {0, Absent}]
  /\ Requests \subseteq [mem : Mems \cup {0, Keep}, cores : Cores \cup {0, Keep},
                         net : NetNames \cup {Keep}, port : Ports \cup {Absent, Keep}]
  /\ Creations \subseteq Asks /\ Nets \subseteq NetworkModes
  /\ MaxFaults \in Nat /\ MaxSets \in Nat

VARIABLES
  mode,    \* "lxc", "pve", "vm" or "pve-vm"
  disk,    \* the files of the instance
  guest,   \* [up, paused, live]
  h,       \* the handle: [res, net, status, dead]
  call,    \* the call of the handle under way
  cli,     \* what is left to write of a set on the command line
  synced,  \* nobody but the handle has written since it last read
  plain,   \* no set was torn, crossed by another or overtaken by a start
  told,    \* the guest has not changed since the handle last looked
  asked,   \* what the owner of the handle asked for and was not refused
  sets, faults

vars == <<mode, disk, guest, h, call, cli, synced, plain, told,
          asked, sets, faults>>

Down == [up |-> FALSE, paused |-> FALSE,
         live |-> [mem |-> Absent, cores |-> Absent, port |-> Absent]]
Up(d) == [up |-> TRUE, paused |-> FALSE, live |-> Booted(mode, d)]
Status(g) == IF g.up THEN "RUNNING" ELSE "STOPPED"
Loaded(d, g) == [res |-> [mem |-> d.mem, cores |-> d.cores], 
                 net |-> ResolveNetMode(d.net),
                 status |-> Status(g), dead |-> FALSE]

(* todo: writes to make; live, undo: limits to change and to change back.  *)
(* alone: nobody else has acted since the call began; sure: what it holds  *)
(* for the old values was true and complete when it began.                 *)
NoCall == [at |-> "idle", op |-> "", want |-> Nothing, todo |-> <<>>,
           live |-> <<>>, undo |-> <<>>, before |-> NoConf,
           alone |-> FALSE, sure |-> FALSE]
Idle == call.at = "idle" /\ ~h.dead
Writing == call.at \in {"write", "rewrite", "keep", "unkeep"}
Setting == Writing \/ call.at \in {"reverse", "live", "unlive"}

TypeOK ==
  /\ mode \in Modes /\ disk \in Disks
  /\ ~guest.up => guest = Down
  /\ guest.live \in [mem : MemValues, cores : CoreValues, port : PortValues]
  /\ guest.paused => IsVm(mode)
  /\ h.res \in [mem : MemValues, cores : CoreValues]
  /\ h.status \in {"RUNNING", "STOPPED", "SUSPENDED"}
  /\ call.todo # <<>> => Writing
  /\ Setting \/ call.at \in {"idle", "probe", "set", "wait"}
  /\ h.dead => call = NoCall /\ ~guest.up

Init ==
  /\ \E host \in Hosts, ask \in Creations : LET kw == CreateKwargs(ask) IN
       /\ Creatable(host, kw)
       /\ mode = Promoted(host, kw) /\ disk = CreateDisk(host, kw)
       /\ asked = [k \in {"network", "mem", "cores", "port"} |-> ask[k]]
  /\ guest = Down /\ h = Loaded(disk, guest)
  /\ call = NoCall /\ cli = <<>>
  /\ synced = TRUE /\ plain = TRUE /\ told = TRUE
  /\ sets = 0 /\ faults = 0

Fault == faults < MaxFaults /\ faults' = faults + 1

(* A call ends; what it leaves is whole if ok holds.                       *)
Returns(ok) == call' = NoCall /\ plain' = (plain /\ ok)
Goes(at) == call' = [call EXCEPT !.at = at, !.todo = <<>>] /\ UNCHANGED plain

(* Somebody else acts: a call under way is no longer alone.                *)
Overlaps == call' = [call EXCEPT !.alone = FALSE]

-----------------------------------------------------------------------------
(* The setters of resources and of network. *)

Named(x) == IF x = Absent THEN Keep ELSE x
BagRequest(b) == [Nothing EXCEPT !.mem = Named(b.mem),
                                 !.cores = Named(b.cores)]
NetRequest(n) == [Nothing EXCEPT !.net = NetworkParam(n)]

(* What a setter takes for the values to go back to: the handle's.         *)
OldParams == IF call.op = "network" THEN NetRequest(h.net)
             ELSE BagRequest(h.res)
Covers(r) == /\ \A k \in {"mem", "cores"} : r[k] # Keep => h.res[k] # Absent
             /\ r.net # Keep => h.net # "UNNAMED"

Begin(op, r) ==
  /\ Idle /\ sets < MaxSets /\ sets' = sets + 1
  /\ call' = [NoCall EXCEPT !.at = "probe", !.op = op, !.want = r,
                !.before = [disk |-> disk, live |-> guest.live],
                !.alone = (cli = <<>>), !.sure = synced /\ plain /\ Covers(r)]
  /\ asked' = [asked EXCEPT !.port = IF op = "network" THEN Absent ELSE @]
  /\ UNCHANGED <<mode, disk, guest, h, cli, synced, plain, told, faults>>

SetResources(b) == Begin("resources", BagRequest(b))
SetNetwork(n) == Begin("network", NetRequest(n))

(* The limits to change: those that differ from what the handle holds.     *)
Changed(k, r) == IF r[k] # Keep /\ r[k] # h.res[k] THEN <<k>> ELSE <<>>
ChangedMemory(r) == Changed("mem", r)
ChangedKeys(r) == Changed("mem", r) \o Changed("cores", r)

SetProbe ==
  /\ call.at = "probe"
  /\ IF ~guest.up THEN Goes("set")
     ELSE IF call.op = "network" \/ IsVm(mode) THEN Returns(TRUE)
     ELSE /\ call' = [call EXCEPT !.at = "live",
                                  !.live = ChangedKeys(call.want)]
          /\ UNCHANGED plain
  /\ UNCHANGED <<mode, disk, guest, h, cli, synced, told, sets, faults, asked>>

(* set refuses a running instance and a bad request, and then the setter   *)
(* sets the old values.                                                    *)
SetCheck ==
  /\ call.at = "set"
  /\ IF ~guest.up /\ Valid(mode, disk, call.want)
     THEN /\ call' = [call EXCEPT !.at = "write",
                                  !.todo = SetCmd(mode, disk, call.want)]
          /\ plain' = (plain /\ cli = <<>>)
     ELSE Goes("reverse")
  /\ UNCHANGED <<mode, disk, guest, h, cli, synced, told, sets, faults, asked>>

SetWrite ==
  /\ Writing /\ call.todo # <<>>
  /\ disk' = Done(disk, Head(call.todo))
  /\ call' = [call EXCEPT !.todo = Tail(@)]
  /\ UNCHANGED <<mode, guest, h, cli, synced, plain, told, sets, faults, asked>>

(* A write that fails in the reverse direction is only logged.             *)
SetWriteFails ==
  /\ Writing /\ call.todo # <<>> /\ Fault
  /\ CASE call.at = "write" -> Goes("reverse")
       [] call.at = "keep"  -> Goes("unlive")
       [] OTHER             -> Returns(FALSE)
  /\ UNCHANGED <<mode, disk, guest, h, cli, synced, told, sets, asked>>

Forgets == UNCHANGED h
Remembers ==
  h' = IF call.op = "network"
       THEN [h EXCEPT !.net = ResolveNetMode(call.want.net)]
       ELSE [h EXCEPT !.res = [k \in {"mem", "cores"} |->
               IF call.want[k] = Keep THEN Absent ELSE call.want[k]]]

(* The wishes of the owner, with those that were just granted.             *)
Granted ==
  asked' = IF call.op = "network"
           THEN [asked EXCEPT !.network = ResolveNetMode(call.want.net)]
           ELSE [k \in DOMAIN asked |->
                   IF k \in {"mem", "cores"} /\ call.want[k] # Keep
                   THEN call.want[k] ELSE asked[k]]

SetDone ==
  /\ call.at = "write" /\ call.todo = <<>>
  /\ Remembers /\ Granted /\ Returns(TRUE)
  /\ UNCHANGED <<mode, disk, guest, cli, synced, told, sets, faults>>

NoReverse(r) == <<>>
Reverse(r) == SetCmd(mode, disk, r)

SetReverse ==
  /\ call.at = "reverse"
  /\ IF ~guest.up /\ Valid(mode, disk, OldParams)
     THEN /\ call' = [call EXCEPT !.at = "rewrite",
                                  !.todo = Reverse(OldParams)]
          /\ plain' = (plain /\ cli = <<>>)
     ELSE Returns(call.sure /\ call.alone /\ disk = call.before.disk)
  /\ UNCHANGED <<mode, disk, guest, h, cli, synced, told, sets, faults, asked>>

SetReversed ==
  /\ call.at \in {"rewrite", "unkeep"} /\ call.todo = <<>>
  /\ Returns(call.sure /\ call.alone)
  /\ UNCHANGED <<mode, disk, guest, h, cli, synced, told, sets, faults, asked>>

-----------------------------------------------------------------------------
(* A running container: the limits one by one, then the files; or back.    *)

(* pct writes the configuration too, even of a container that is down.     *)
(* Neither it nor the kernel takes a limit of zero cores, nor pct one of   *)
(* no memory.                                                              *)
Zero(k, v) == v = 0 /\ (k = "cores" \/ mode = "pve")

LimitDown(k, v) ==
  /\ ~Zero(k, v) /\ (mode = "pve" \/ guest.up)
  /\ guest' = [guest EXCEPT !.live[k] = v]
  /\ disk' = IF mode = "pve" THEN [disk EXCEPT !.conf[k] = v] ELSE disk

Limit(k, v) ==
  /\ ~Zero(k, v) /\ (mode = "pve" \/ guest.up)
  /\ guest' = IF guest.up THEN [guest EXCEPT !.live[k] = v] ELSE guest
  /\ disk' = IF mode = "pve" THEN [disk EXCEPT !.conf[k] = v] ELSE disk

Refused(k, v) == \/ (Zero(k, v) \/ (mode = "lxc" /\ ~guest.up)) /\ UNCHANGED faults
                 \/ Fault

LiveApply ==
  /\ call.at = "live" /\ call.live # <<>>
  /\ LET k == Head(call.live) IN
     /\ Limit(k, call.want[k])
     /\ call' = [call EXCEPT !.live = Tail(@),
                  !.undo = IF h.res[k] = Absent THEN @ ELSE <<k>> \o @]
  /\ UNCHANGED <<mode, h, cli, synced, plain, told, sets, faults, asked>>

LiveFails ==
  /\ call.at = "live" /\ call.live # <<>>
  /\ LET k == Head(call.live) IN Refused(k, call.want[k])
  /\ Goes("unlive")
  /\ UNCHANGED <<mode, disk, guest, h, cli, synced, told, sets, asked>>

Persist(r) == IF r = Nothing /\ mode = "lxc" THEN <<>>
              ELSE Writes(mode, disk, r)

LiveKeep ==
  /\ call.at = "live" /\ call.live = <<>>
  /\ call' = [call EXCEPT !.at = "keep", !.todo = Persist(call.want)]
  /\ plain' = (plain /\ cli = <<>>)
  /\ UNCHANGED <<mode, disk, guest, h, cli, synced, told, sets, faults, asked>>

LiveKept ==
  /\ call.at = "keep" /\ call.todo = <<>>
  /\ Remembers /\ Granted /\ Returns(synced)
  /\ UNCHANGED <<mode, disk, guest, cli, synced, told, sets, faults>>

LiveUndo ==
  /\ call.at = "unlive" /\ call.undo # <<>>
  /\ LET k == Head(call.undo) IN
     \/ Limit(k, h.res[k]) /\ UNCHANGED <<plain, faults>>
     \/ Refused(k, h.res[k]) /\ plain' = FALSE /\ UNCHANGED <<disk, guest>>
  /\ call' = [call EXCEPT !.undo = Tail(@)]
  /\ UNCHANGED <<mode, h, cli, synced, told, sets, asked>>

LiveUnkeepNot ==
  /\ call.at = "unlive" /\ call.undo = <<>> /\ Returns(TRUE)
  /\ UNCHANGED <<mode, disk, guest, h, cli, synced, told, sets, faults, asked>>
LiveUnkeep ==
  /\ call.at = "unlive" /\ call.undo = <<>>
  /\ call' = [call EXCEPT !.at = "unkeep", !.todo = Persist(OldParams)]
  /\ plain' = (plain /\ cli = <<>>)
  /\ UNCHANGED <<mode, disk, guest, h, cli, synced, told, sets, faults, asked>>

-----------------------------------------------------------------------------
(* The other calls.  Those of a single step look once at the guest and act *)
(* on it; how start, stop and destroy go about it is in VmRuntime, Destroy *)
(* and Forwards.  A call that fails and changes nothing is left out.       *)

Seen(g) == h' = [h EXCEPT !.status = Status(g)] /\ told' = TRUE

HandleStart ==
  /\ Idle
  /\ guest.up \/ Boots(mode, disk)
  /\ guest' = IF guest.up THEN guest ELSE Up(disk)
  /\ Seen(guest')
  /\ plain' = (plain /\ cli = <<>>)
  /\ UNCHANGED <<mode, disk, call, cli, synced, sets, faults, asked>>

(* stop(force, timeout): kills at once, or asks the guest and waits.       *)
KillUnseen == guest' = Down /\ told' = TRUE /\ UNCHANGED h
Kill == guest' = Down /\ Seen(guest')

HandleStop(op) ==
  /\ Idle
  /\ IF ~guest.up \/ op = "kill"
     THEN Kill /\ UNCHANGED call
     ELSE /\ call' = [NoCall EXCEPT !.at = "wait", !.op = op]
          /\ UNCHANGED <<guest, h, told>>
  /\ UNCHANGED <<mode, disk, cli, synced, plain, sets, faults, asked>>

StopWaited ==
  /\ call.at = "wait" /\ ~guest.up
  /\ Seen(guest) /\ Returns(TRUE)
  /\ UNCHANGED <<mode, disk, guest, cli, synced, sets, faults, asked>>

(* At the deadline stop kills a guest that is still up, which may fail, or *)
(* raises StopTimeout.                                                     *)
Patient == FALSE
Expires == TRUE

StopExpires ==
  /\ call.at = "wait" /\ guest.up /\ Expires
  /\ \/ call.op = "force" /\ Kill /\ UNCHANGED faults
     \/ call.op = "force" /\ Fault /\ UNCHANGED <<guest, h, told>>
     \/ call.op = "ask" /\ Seen(guest) /\ UNCHANGED <<guest, faults>>
  /\ Returns(TRUE)
  /\ UNCHANGED <<mode, disk, cli, synced, sets, asked>>

(* destroy stops the guest if it may.  When it then fails to remove it, the *)
(* handle is alive, and has not looked.                                    *)
HandleDestroy(force) ==
  /\ Idle /\ (force \/ ~guest.up) /\ cli = <<>>
  /\ guest' = Down
  /\ \/ h' = [h EXCEPT !.dead = TRUE] /\ UNCHANGED <<told, faults>>
     \/ guest.up /\ Fault /\ told' = FALSE /\ UNCHANGED h
  /\ UNCHANGED <<mode, disk, call, cli, synced, plain, sets, asked>>

HandleRefresh ==
  /\ Idle
  /\ h' = Loaded(disk, guest) /\ told' = TRUE /\ synced' = (cli = <<>>)
  /\ UNCHANGED <<mode, disk, guest, call, cli, plain, sets, faults, asked>>

(* scrub makes the args of a Proxmox VM again.                             *)
HandleScrub ==
  /\ Idle /\ ~guest.up /\ Seen(guest)
  /\ disk' = IF mode = "pve-vm" THEN Done(disk, [file |-> "sync"]) ELSE disk
  /\ plain' = (plain /\ cli = <<>>)
  /\ UNCHANGED <<mode, guest, call, cli, synced, sets, faults, asked>>

HandlePause(paused) ==
  /\ Idle /\ IsVm(mode) /\ guest.up
  /\ guest' = [guest EXCEPT !.paused = paused]
  /\ h' = [h EXCEPT !.status = IF paused THEN "SUSPENDED" ELSE "RUNNING"]
  /\ told' = TRUE
  /\ UNCHANGED <<mode, disk, call, cli, synced, plain, sets, faults, asked>>

-----------------------------------------------------------------------------
(* The command line, and the guest itself. *)

CliSet(r) ==
  /\ ~h.dead /\ cli = <<>> /\ sets < MaxSets /\ ~guest.up
  /\ Valid(mode, disk, r)
  /\ cli' = SetCmd(mode, disk, r) /\ sets' = sets + 1
  /\ synced' = FALSE /\ Overlaps
  /\ plain' = (plain /\ ~Setting)
  /\ asked' = [k \in DOMAIN asked |-> Absent]
  /\ UNCHANGED <<mode, disk, guest, h, told, faults>>

CliWrite ==
  /\ cli # <<>>
  /\ disk' = Done(disk, Head(cli)) /\ cli' = Tail(cli)
  /\ synced' = FALSE /\ Overlaps
  /\ UNCHANGED <<mode, guest, h, plain, told, sets, faults, asked>>

(* A write fails or the process is killed: nothing is put back.            *)
CliDies ==
  /\ cli # <<>> /\ Fault
  /\ cli' = <<>> /\ plain' = FALSE /\ Overlaps
  /\ UNCHANGED <<mode, disk, guest, h, synced, told, sets, asked>>

CliStart ==
  /\ ~h.dead /\ ~guest.up /\ Boots(mode, disk)
  /\ guest' = Up(disk) /\ told' = FALSE /\ Overlaps
  /\ plain' = (plain /\ cli = <<>> /\ ~Setting)
  /\ UNCHANGED <<mode, disk, h, cli, synced, sets, faults, asked>>

(* Stopped on the command line, or powered off from within.                *)
GoesDown ==
  /\ guest.up /\ guest' = Down /\ told' = FALSE /\ Overlaps
  /\ UNCHANGED <<mode, disk, h, cli, synced, plain, sets, faults, asked>>

CliPause(paused) ==
  /\ IsVm(mode) /\ guest.up /\ guest.paused # paused
  /\ guest' = [guest EXCEPT !.paused = paused] /\ told' = FALSE /\ Overlaps
  /\ UNCHANGED <<mode, disk, h, cli, synced, plain, sets, faults, asked>>

-----------------------------------------------------------------------------
SetStep == SetProbe \/ SetCheck \/ SetWrite \/ SetWriteFails \/ SetDone
           \/ SetReverse \/ SetReversed
LiveStep == LiveApply \/ LiveFails \/ LiveKeep \/ LiveKept \/ LiveUndo
            \/ LiveUnkeep
Step == SetStep \/ LiveStep \/ StopWaited \/ StopExpires

Handle ==
  \/ \E b \in Bags : SetResources(b)
  \/ \E n \in Nets : SetNetwork(n)
  \/ \E op \in {"ask", "force", "kill"} : HandleStop(op)
  \/ \E b \in BOOLEAN : HandleDestroy(b) \/ HandlePause(b)
  \/ HandleStart \/ HandleRefresh \/ HandleScrub

Others ==
  \/ \E r \in Requests : CliSet(r)
  \/ CliWrite \/ CliDies \/ CliStart \/ GoesDown
  \/ \E b \in BOOLEAN : CliPause(b)

Next == Step \/ Handle \/ Others

(* The process of the handle runs; its waits have a deadline.              *)
Spec == Init /\ [][Next]_vars /\ WF_vars(Step)

-----------------------------------------------------------------------------
AtRest == cli = <<>> /\ ~Setting /\ plain

(* The copies of a setting agree whenever no set is under way, whether the *)
(* last one succeeded, was refused or was put back: what info and the      *)
(* handles show is what LXC or Proxmox reads, and a Proxmox VM is never    *)
(* left with args that its own hook refuses.                               *)
CopiesAgree == AtRest => Agree(mode, disk)

(* A running guest has the limits, and a VM the forwards, that its files   *)
(* record, whether it booted with them or they were changed live, and also *)
(* after a live change that failed half way.                               *)
RunsAsRecorded ==
  AtRest /\ guest.up =>
    /\ \A k \in {"mem", "cores"} :
         disk[k] # Absent => guest.live[k] = disk[k]
    /\ IsVm(mode) => guest.live.port = disk.port

(* As long as nobody else writes, what the handle remembers is what is on  *)
(* disk: after its sets, after those that failed, and after its scrubs.    *)
(* The cores of a VM beyond the host's are clamped on disk and not in the  *)
(* handle, and a bridge that it did not name may be there.                 *)
CacheTrue ==
  AtRest /\ synced =>
    /\ disk.net = NewNet(disk, NetRequest(h.net))
    /\ h.res.mem # Absent => h.res.mem = disk.mem
    /\ h.res.cores # Absent =>
         disk.cores = Clamped(mode, h.res.cores)

(* An instance is what its owner asked for: the network, sizes and forward *)
(* given to create, overlaid with every set that succeeded and with none   *)
(* that was refused or failed half way, as long as nobody else sets any of *)
(* it.  Only the cores are cut to those of the host, a bridge nobody named *)
(* may be one that was there, and a network setter may cost a VM its       *)
(* forward.                                                                *)
AsAsked ==
  AtRest =>
    /\ asked.network # Absent =>
         disk.net = NewNet(disk, NetRequest(asked.network))
    /\ asked.mem # Absent => disk.mem = asked.mem
    /\ asked.cores # Absent =>
         disk.cores = Clamped(mode, asked.cores)
    /\ asked.port # Absent /\ (IsVm(mode) => disk.net = "usermode") =>
         disk.port = asked.port

(* The status of a handle is that of the guest unless somebody else        *)
(* changed it since, through every stop that waits, kills or gives up; a   *)
(* paused VM may show as running, never a running one as paused.           *)
StatusTrue ==
  told /\ ~h.dead => /\ (h.status # "STOPPED") <=> guest.up
                     /\ h.status = "SUSPENDED" => guest.paused

(* A setter that fails, at whichever write or live change, leaves the      *)
(* files and the limits as they were when it began, if nobody else acted   *)
(* meanwhile, the handle knew the old values and putting them back did not *)
(* fail too.  The forwards of a VM that leaves usermode are not put back.  *)
RolledBack ==
  [][ (/\ call.at \in {"probe", "reverse", "rewrite", "unkeep"}
       /\ call'.at = "idle" /\ call.alone /\ call.sure /\ plain')
      => /\ [disk' EXCEPT !.port = Absent, !.conf.args.port = Absent]
            = [call.before.disk EXCEPT !.port = Absent,
                                       !.conf.args.port = Absent]
         /\ guest'.live = call.before.live ]_vars

(* Every call of the handle returns, whatever fails and whatever the guest *)
(* does meanwhile.                                                         *)
CallReturns == call.at # "idle" ~> call.at = "idle"
=============================================================================
