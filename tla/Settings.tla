------------------------------ MODULE Settings ------------------------------
(***************************************************************************)
(* What `kento set` does to the files of a stopped instance: which         *)
(* requests it refuses before it writes anything, and the writes, in their *)
(* order, that it makes otherwise.  A setting is kept twice: in a kento-*  *)
(* file and in the configuration that LXC or Proxmox reads; for a VM under *)
(* Proxmox a third time, in the args line of that configuration.  What the *)
(* guest boots with is also here, for it is what the copies are for.       *)
(*                                                                         *)
(* Memory, cores, the network type and the port forward stand for all the  *)
(* scalars; addresses, MAC and the pass-through arguments are left out.    *)
(***************************************************************************)
EXTENDS Naturals, Sequences

CONSTANTS
  Mems, Cores,   \* sizes and counts an instance is given; 0 is refused
  Ports,         \* port forwards
  HostCpus,      \* the CPUs of the host
  Absent,        \* no such file, or no such line
  Keep           \* this setting is not part of the request

(* A network: its type and, for a bridge, whether a bridge is named.  In   *)
(* the files these are kento-net-type and kento-bridge, here one value.    *)
NetNames == {"usermode", "bridge", "unnamed", "host", "none"}

ASSUME SettingsAssumption ==
  /\ Mems \subseteq Nat /\ Cores \subseteq Nat /\ HostCpus \in Nat \ {0}
  /\ {Absent, Keep} \cap Ports = {} /\ Absent # Keep
  /\ \A none \in {Absent, Keep} : none \notin Nat \cup BOOLEAN \cup NetNames

Modes == {"lxc", "pve", "vm", "pve-vm"}
IsVm(mode) == mode \in {"vm", "pve-vm"}
NetTypes(mode) == CASE mode = "vm"     -> {"usermode", "none"}
                    [] mode = "pve-vm" -> {"usermode", "bridge", "unnamed", "none"}
                    [] OTHER           -> {"bridge", "unnamed", "host", "none"}

(* The files of an instance.  conf.args is the memory and the forwards in  *)
(* the args line.                                                          *)
NoArgs == [mem |-> Absent, port |-> Absent]
NoConf == [mem |-> Absent, cores |-> Absent, net |-> Absent, args |-> NoArgs]

MemValues == Mems \cup {0, Absent}
CoreValues == Cores \cup {0, HostCpus, Absent}
PortValues == Ports \cup {Absent}

Confs == [mem : MemValues, cores : CoreValues, net : NetNames \cup {Absent},
          args : [mem : MemValues, port : PortValues]]
Disks == [mem : MemValues, cores : CoreValues, net : NetNames,
          port : PortValues, conf : Confs]

(* The interface that a network becomes in the configuration: none for a   *)
(* bridge nobody named, and none for usermode, whose NIC is in the args.   *)
ConfNet(net) == IF net \in {"usermode", "unnamed"} THEN "none" ELSE net

(* The files as create leaves them.                                        *)
Created(mode, mem, cores, net, port) ==
  [mem |-> mem, cores |-> cores, net |-> net, port |-> port,
   conf |-> IF mode = "vm" THEN NoConf
            ELSE [mem |-> mem, cores |-> cores, net |-> ConfNet(net),
                  args |-> IF mode = "pve-vm"
                           THEN [mem |-> mem, port |-> port] ELSE NoArgs]]

-----------------------------------------------------------------------------
(* A request gives each of mem, cores, net and port a value or Keep; port  *)
(* Absent clears the forwards.  To ask for a bridge and name none keeps    *)
(* the one that there is.                                                  *)
Nothing == [mem |-> Keep, cores |-> Keep, net |-> Keep, port |-> Keep]
GivesNet(r) == r.net # Keep \/ r.port # Keep
KeepsNet(d, r) == r.net = Keep \/ (r.net = "unnamed" /\ d.net = "bridge")
NewNet(d, r) == IF KeepsNet(d, r) THEN d.net ELSE r.net

Valid(mode, d, r) ==
  /\ r # Nothing
  /\ 0 \notin {r.mem, r.cores}
  /\ GivesNet(r) =>
       /\ NewNet(d, r) \in NetTypes(mode)
       /\ r.port \in Ports => NewNet(d, r) \in {"usermode", "bridge", "unnamed"}

(* QEMU and Proxmox refuse more vCPUs than the host has.                   *)
Clamped(mode, cores) ==
  IF IsVm(mode) /\ cores \in Nat /\ cores > HostCpus THEN HostCpus ELSE cores
ClampVmCapacity(mode, r) == [r EXCEPT !.cores = Clamped(mode, @)]

Write(file, to) == <<[file |-> file, to |-> to]>>
Given(x, writes) == IF x = Keep THEN <<>> ELSE writes
Either(new, old) == IF new = Keep THEN old ELSE new

(* The configuration to write: the one read before the first write, with   *)
(* the requested lines replaced.                                           *)
Content(d, r) ==
  [d.conf EXCEPT !.mem = Either(r.mem, @), !.cores = Either(r.cores, @),
                 !.net = IF GivesNet(r) THEN ConfNet(NewNet(d, r)) ELSE @]

SizeWrites(r) == Given(r.mem, Write("mem", r.mem))
                 \o Given(r.cores, Write("cores", r.cores))

(* The forwards first; a VM that is not on usermode networking has none.   *)
NetWrites(mode, d, r) ==
  IF ~GivesNet(r) THEN <<>>
  ELSE Given(r.port, Write("port", r.port))
       \o (IF IsVm(mode) /\ NewNet(d, r) # "usermode"
           THEN Write("port", Absent) ELSE <<>>)
       \o Write("net", NewNet(d, r))

(* args is made again from the files: with sync, from a configuration read *)
(* anew, and the kento-* files then follow it.                             *)
NoSync(d, r) == <<>>
ArgsWrites(d, r) ==
  IF r.mem # Keep THEN Write("sync", Absent)
  ELSE IF GivesNet(r) THEN Write("args", Content(d, r)) ELSE <<>>

Writes(mode, d, r) ==
  CASE mode = "vm" -> SizeWrites(r) \o NetWrites(mode, d, r)
    [] mode = "pve-vm" -> NetWrites(mode, d, r) \o SizeWrites(r)
                          \o Write("conf", Content(d, r)) \o ArgsWrites(d, r)
    [] OTHER -> SizeWrites(r) \o NetWrites(mode, d, r)
                \o Write("conf", Content(d, r))

SetCmd(mode, d, r) == Writes(mode, d, ClampVmCapacity(mode, r))

Args(d, conf) == [conf EXCEPT !.args = [mem |-> conf.mem, port |-> d.port]]

Done(d, w) ==
  CASE w.file = "sync" -> [d EXCEPT !.conf = Args(d, d.conf),
                             !.mem = d.conf.mem,
                             !.cores = IF d.conf.cores = Absent THEN @
                                       ELSE d.conf.cores]
    [] w.file = "args" -> [d EXCEPT !.conf = Args(d, w.to)]
    [] OTHER           -> [d EXCEPT ![w.file] = w.to]

-----------------------------------------------------------------------------
(* The hook of a Proxmox VM refuses to start it when its memory and the    *)
(* memory of its args differ.                                              *)
Boots(mode, d) == mode = "pve-vm" => d.conf.mem = d.conf.args.mem

(* What the guest runs with.                                               *)
Booted(mode, d) ==
  CASE mode = "vm"     -> [mem |-> d.mem, cores |-> d.cores, port |-> d.port]
    [] mode = "pve-vm" -> [mem |-> d.conf.mem, cores |-> d.conf.cores,
                           port |-> d.conf.args.port]
    [] OTHER           -> [mem |-> d.conf.mem, cores |-> d.conf.cores,
                           port |-> Absent]

(* The copies of every setting agree: the interface of a network is there, *)
(* a network of another type or without a bridge has none.                 *)
Agree(mode, d) ==
  /\ mode # "vm" => /\ d.conf.mem = d.mem /\ d.conf.cores = d.cores
                    /\ d.conf.net = ConfNet(d.net)
  /\ mode = "pve-vm" => d.conf.args = [mem |-> d.mem, port |-> d.port]
  /\ IsVm(mode) /\ d.net # "usermode" => d.port = Absent
=============================================================================
