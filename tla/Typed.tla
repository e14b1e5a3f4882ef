------------------------------- MODULE Typed --------------------------------
(***************************************************************************)
(* SystemContainer.create and VirtualMachine.create: what a caller asks in *)
(* the terms of the library becomes the arguments of create, these become, *)
(* with the defaults of the mode and what the host has, the files of the   *)
(* instance (Settings), and the files become the terms of the library      *)
(* again when a handle is loaded.                                          *)
(*                                                                         *)
(* Static addresses are left out, so that DHCP stands for both modes of a  *)
(* bridge, and UNNAMED for the same with no bridge in its link_config; so  *)
(* are names, MACs and the pass-through arguments, and with them the       *)
(* refusals that are only about those.                                     *)
(***************************************************************************)
EXTENDS Settings

CONSTANTS
  Hosts,        \* [pve, bridge]: is it a Proxmox host, has it a bridge
  DefaultSize,  \* [mem, cores] of a VM that nobody gave a size
  AutoPort      \* the forward to SSH of a VM that nobody gave one

NetworkModes == {"DHCP", "UNNAMED", "USER", "HOST", "DISABLED"}

ASSUME TypedAssumption ==
  /\ Hosts \subseteq [pve : BOOLEAN, bridge : BOOLEAN]
  /\ DefaultSize \in [mem : Mems, cores : Cores]
  /\ AutoPort \in Ports /\ Absent \notin NetworkModes

(* What is asked: Absent where the caller says nothing.                    *)
Asks == [kind : {"lxc", "vm"}, platform : {"STANDARD", "PVE", Absent},
         network : NetworkModes \cup {Absent}, mem : Mems \cup {0, Absent},
         cores : Cores \cup {0, Absent}, port : Ports \cup {Absent}]

NetworkParam(network) ==
  [n \in NetworkModes |-> CASE n = "DHCP" -> "bridge" [] n = "UNNAMED" -> "unnamed"
                            [] n = "USER" -> "usermode" [] n = "HOST" -> "host"
                            [] OTHER -> "none"][network]

(* The same, read back from the files. *)
ResolveNetMode(type) == CHOOSE n \in NetworkModes : NetworkParam(n) = type

(* The arguments of create; pve is Absent where it is to find out itself.  *)
PlatformArg(platform) == IF platform = Absent THEN Absent ELSE platform = "PVE"
CreateKwargs(ask) ==
  [mode |-> ask.kind, pve |-> PlatformArg(ask.platform),
   net |-> IF ask.network = Absent THEN Absent ELSE NetworkParam(ask.network),
   mem |-> ask.mem, cores |-> ask.cores, port |-> ask.port]

Promoted(host, kw) ==
  IF kw.pve = TRUE \/ (kw.pve = Absent /\ host.pve)
  THEN IF kw.mode = "vm" THEN "pve-vm" ELSE "pve" ELSE kw.mode

(* A forward without a network means usermode, for a VM.  A bridge that is *)
(* not named is looked for on the host.                                    *)
ResolveNetwork(host, mode, kw) ==
  CASE kw.net = "unnamed" -> "bridge"
    [] kw.net \notin {Absent, "unnamed"} -> kw.net
    [] kw.net = Absent /\ (mode = "vm" \/ (mode = "pve-vm" /\ kw.port # Absent))
         -> "usermode"
    [] OTHER -> IF host.bridge THEN "bridge"
                ELSE IF mode = "pve-vm" THEN "usermode" ELSE "none"

(* create refuses nothing else of this, and in particular neither usermode *)
(* for a container nor a size of zero, which set refuses.                  *)
Creatable(host, kw) ==
  LET mode == Promoted(host, kw)  net == ResolveNetwork(host, mode, kw) IN
  /\ kw.pve = TRUE => host.pve
  /\ kw.net = "unnamed" => host.bridge
  /\ mode = "vm" => net # "bridge"
  /\ kw.port # Absent => (IsVm(mode) <=> net # "bridge")

(* A container without a size has no limit; a VM has the default size and  *)
(* at most the CPUs of the host.                                           *)
Sizes(mode, kw) ==
  IF ~IsVm(mode) THEN [mem |-> kw.mem, cores |-> kw.cores]
  ELSE [mem |-> IF kw.mem = Absent THEN DefaultSize.mem ELSE kw.mem,
        cores |-> Clamped(mode, IF kw.cores = Absent THEN DefaultSize.cores
                                ELSE kw.cores)]

(* A forward given to a VM without usermode is dropped.                    *)
CreatePort(mode, net, kw) ==
  IF ~IsVm(mode) THEN kw.port
  ELSE IF net # "usermode" THEN Absent
  ELSE IF kw.port = Absent THEN AutoPort ELSE kw.port

CreateDisk(host, kw) ==
  LET mode == Promoted(host, kw)
      net == ResolveNetwork(host, mode, kw)
      size == Sizes(mode, kw)
  IN  Created(mode, size.mem, size.cores, net, CreatePort(mode, net, kw))
=============================================================================
