------------------------------ MODULE Forwards ------------------------------
(***************************************************************************)
(* The port forwards of one guest: what kento-port lists, what is in force *)
(* on the host, and everything that moves the second towards the first:    *)
(*   - hook.sh at start-host, which installs the rules itself when the     *)
(*     address is static and else detaches a worker that polls for it;     *)
(*   - hook.sh at post-stop, which cancels and kills the worker and tears  *)
(*     the rules down;                                                     *)
(*   - QEMU's command line for a VM with usermode networking;              *)
(*   - the library's forwards setter, which changes the rules of a running *)
(*     guest one binding at a time and undoes what it did when one fails.  *)
(* The setter holds the kento lock; start, stop and the hooks hold none.   *)
(***************************************************************************)
EXTENDS Naturals, Sequences, FiniteSets

CONSTANTS
  Port,       \* host bindings
  Target,     \* guest ports
  NoTarget,   \* the binding is not forwarded
  Wants,      \* the sets of forwards a guest is created with or set to
  Hosts,      \* [kind, be, static]: kind of guest, NAT backend of the host,
              \* and whether kento-net gives the guest's address
  Parts,      \* rules per forward, installed in the order 1, 2, ...
  MaxBoots, MaxFaults

ASSUME ForwardsAssumption ==
  /\ NoTarget \notin Target /\ Wants \subseteq [Port -> Target \cup {NoTarget}]
  /\ Hosts \subseteq [kind : {"lxc", "pve", "vm"}, static : BOOLEAN,
                      be : {"nft", "iptables", "none"}]
  /\ Parts \in Nat \ {0} /\ MaxBoots \in Nat /\ MaxFaults \in Nat

VARIABLES
  host,    \* the member of Hosts that this one is
  conf,    \* kento-port
  rules,   \* the rules (or QEMU's hostfwds) of the guest in force
  mark,    \* the files kento-portfwd-*
  guest,   \* [state, boot, lease, netdev]
  hook,    \* the start-host hook
  post,    \* the post-stop hook: the next thing it does, or "none"
  worker,  \* boot -> the DHCP worker that boot's hook detached
  cache,   \* the forwards the library handle remembers
  setter,  \* the forwards setter at work, holder of the lock
  plain,   \* nothing but kento's own undisturbed steps since the boot
  faults

vars == <<host, conf, rules, mark, guest, hook, post, worker, cache, setter,
          plain, faults>>

Empty == [p \in Port |-> NoTarget]
Bindings(f) == {p \in Port : f[p] # NoTarget}
Forward(p, t, n) == {[port |-> p, to |-> t, part |-> k] : k \in 1 .. n}
Full(f) == UNION {Forward(p, f[p], Parts) : p \in Bindings(f)}

Boot == 1 .. MaxBoots
NoMark == [active |-> FALSE, backend |-> "", cancel |-> FALSE, pid |-> 0,
           error |-> FALSE]
NoHook == [step |-> "none", todo |-> Empty]
NoWorker == [step |-> "none", todo |-> Empty]
NoSetter == [step |-> "none", want |-> Empty, remove |-> {},
             add |-> {}, undo |-> <<>>, ip |-> FALSE]

Running == guest.state = "up"
WorkersIdle == \A b \in Boot : worker[b].step = "none"
Quiet == hook.step = "none" /\ WorkersIdle /\ setter.step = "none"
CanForward == host.kind = "vm" \/ host.be # "none"
HasAddress == host.static \/ (guest.lease /\ Running)

(* What disturbs the rules of a boot beyond what kento itself sets right   *)
(* before the next one.                                                    *)
Disturbed == plain' = FALSE

TypeOK ==
  /\ conf \in [Port -> Target \cup {NoTarget}]
  /\ rules \subseteq [port : Port, to : Target, part : 1 .. Parts]
  /\ mark.backend \in {"", host.be} /\ mark.pid \in Boot \cup {0}
  /\ guest.state \in {"down", "starting", "up", "stopping"}
  /\ guest.state = "starting" => hook.step # "none"
  /\ (post # "none") <=> (guest.state = "stopping")
  /\ cache \in [Port -> Target \cup {NoTarget}]
  /\ host.kind = "vm" => hook = NoHook /\ WorkersIdle /\ mark = NoMark

Init ==
  /\ host \in Hosts
  /\ conf \in Wants
  /\ rules = {} /\ mark = NoMark
  /\ guest = [state |-> "down", boot |-> 0, lease |-> FALSE, netdev |-> FALSE]
  /\ hook = NoHook /\ post = "none" /\ worker = [b \in Boot |-> NoWorker]
  /\ cache = conf /\ setter = NoSetter
  /\ plain = TRUE /\ faults = 0

Fault == faults < MaxFaults /\ faults' = faults + 1

-----------------------------------------------------------------------------
(* start, and the start-host phase of hook.sh.  For a plain container the  *)
(* monitor runs it before the guest is up; Proxmox runs it from a snippet  *)
(* after the guest has come up, and beside whatever stops the guest again. *)

Start ==
  /\ guest.state = "down" /\ post = "none" /\ hook.step = "none"
  /\ guest.boot < MaxBoots
  /\ guest' = [state |-> IF host.kind = "lxc" THEN "starting" ELSE "up",
               boot |-> guest.boot + 1, lease |-> FALSE,
               netdev |-> host.kind = "vm" /\ conf # Empty]
  /\ IF host.kind = "vm"
     THEN rules' = Full(conf) /\ UNCHANGED hook
     ELSE hook' = [NoHook EXCEPT !.step = "begin"] /\ UNCHANGED rules
  /\ plain' = (rules = {} /\ [mark EXCEPT !.error = FALSE] = NoMark
                          /\ WorkersIdle /\ setter.step = "none")
  /\ UNCHANGED <<host, conf, mark, post, worker, cache, setter, faults>>

HookHangs == hook' = NoHook /\ UNCHANGED guest

(* The hook of a container returns, and the guest comes up.                *)
HookReturns ==
  /\ hook' = NoHook
  /\ guest' = IF guest.state = "starting"
              THEN [guest EXCEPT !.state = "up"] ELSE guest

HookNothing ==
  /\ hook.step = "begin" /\ conf = Empty
  /\ HookReturns
  /\ UNCHANGED <<host, conf, rules, mark, post, worker, cache, setter, plain,
                 faults>>

HookSkip ==
  /\ hook.step = "begin" /\ conf # Empty /\ mark.active
  /\ HookReturns
  /\ UNCHANGED <<host, conf, rules, mark, post, worker, cache, setter, plain,
                 faults>>

HookNoBackend ==
  /\ hook.step = "begin" /\ conf # Empty /\ ~mark.active /\ host.be = "none"
  /\ mark' = [mark EXCEPT !.error = TRUE]
  /\ HookReturns
  /\ UNCHANGED <<host, conf, rules, post, worker, cache, setter, plain,
                 faults>>

HookStatic ==
  /\ hook.step = "begin" /\ conf # Empty /\ ~mark.active /\ host.be # "none"
  /\ host.static
  /\ mark' = [mark EXCEPT !.active = TRUE]
  /\ hook' = [step |-> "install", todo |-> conf]
  /\ UNCHANGED <<host, conf, rules, guest, post, worker, cache, setter, plain,
                 faults>>

(* The forwards were read when the hook began; they are in its worker's    *)
(* text, or in FORWARDS of the hook itself.                                *)
Unexpanded(f) == Empty
Baked(f) == f

HookDetach ==
  /\ hook.step = "begin" /\ conf # Empty /\ ~mark.active /\ host.be # "none"
  /\ ~host.static
  /\ mark' = [mark EXCEPT !.cancel = FALSE]
  /\ worker' = [worker EXCEPT ![guest.boot] =
                   [step |-> "enter", todo |-> Baked(conf)]]
  /\ hook' = [hook EXCEPT !.step = "pid"]
  /\ UNCHANGED <<host, conf, rules, guest, post, cache, setter, plain, faults>>

HookPid ==
  /\ hook.step = "pid"
  /\ mark' = [mark EXCEPT !.pid = guest.boot]
  /\ HookReturns
  /\ UNCHANGED <<host, conf, rules, post, worker, cache, setter, plain,
                 faults>>

HookInstall(p) ==
  /\ hook.step = "install" /\ p \in Bindings(hook.todo)
  /\ rules' = rules \cup Forward(p, hook.todo[p], Parts)
  /\ hook' = [hook EXCEPT !.todo[p] = NoTarget]
  /\ UNCHANGED <<host, conf, mark, guest, post, worker, cache, setter, plain,
                 faults>>

(* set -e: a rule that fails ends the hook, and with it the start of a     *)
(* plain container; Proxmox only logs the failure of a post-start hook.    *)
HookFails(p) ==
  /\ hook.step = "install" /\ p \in Bindings(hook.todo) /\ Fault
  /\ \E n \in 0 .. Parts - 1 :
       rules' = rules \cup Forward(p, hook.todo[p], n)
  /\ hook' = NoHook /\ Disturbed
  /\ IF guest.state = "starting"
     THEN guest' = [guest EXCEPT !.state = "stopping"] /\ post' = "cancel"
     ELSE UNCHANGED <<guest, post>>
  /\ UNCHANGED <<host, conf, mark, worker, cache, setter>>

HookBackend ==
  /\ hook.step = "install" /\ hook.todo = Empty
  /\ mark' = [mark EXCEPT !.backend = host.be]
  /\ HookReturns
  /\ UNCHANGED <<host, conf, rules, post, worker, cache, setter, plain,
                 faults>>

-----------------------------------------------------------------------------
(* The DHCP worker of boot b. *)

WorkerEnds(b) == worker' = [worker EXCEPT ![b] = NoWorker]
WorkerGoes(b, s) == worker' = [worker EXCEPT ![b].step = s]
CalledOff == mark.active \/ mark.cancel

WorkerEnter(b) ==
  /\ worker[b].step = "enter"
  /\ IF CalledOff THEN WorkerEnds(b) ELSE WorkerGoes(b, "poll")
  /\ UNCHANGED <<host, conf, rules, mark, guest, hook, post, cache, setter,
                 plain, faults>>

(* One round of polling; or the last one, without an address.              *)
WorkerPoll(b) ==
  /\ worker[b].step = "poll"
  /\ \/ /\ mark.cancel /\ WorkerEnds(b) /\ UNCHANGED <<mark, plain>>
     \/ /\ ~mark.cancel /\ HasAddress /\ WorkerGoes(b, "check")
        /\ UNCHANGED <<mark, plain>>
     \/ /\ ~mark.cancel /\ ~HasAddress /\ WorkerEnds(b) /\ Disturbed
        /\ mark' = [mark EXCEPT !.error = TRUE]
  /\ UNCHANGED <<host, conf, rules, guest, hook, post, cache, setter, faults>>

WorkerCheck(b) ==
  /\ worker[b].step = "check"
  /\ IF CalledOff THEN WorkerEnds(b) ELSE WorkerGoes(b, "mark")
  /\ UNCHANGED <<host, conf, rules, mark, guest, hook, post, cache, setter,
                 plain, faults>>

WorkerMark(b) ==
  /\ worker[b].step = "mark"
  /\ mark' = [mark EXCEPT !.active = TRUE] /\ WorkerGoes(b, "install")
  /\ UNCHANGED <<host, conf, rules, guest, hook, post, cache, setter, plain,
                 faults>>

(* No set -e here: a rule that fails is passed over.                       *)
WorkerInstall(b, p) ==
  /\ worker[b].step = "install" /\ p \in Bindings(worker[b].todo)
  /\ worker' = [worker EXCEPT ![b].todo[p] = NoTarget]
  /\ \/ /\ rules' = rules \cup Forward(p, worker[b].todo[p], Parts)
        /\ UNCHANGED <<plain, faults>>
     \/ /\ Fault /\ Disturbed
        /\ \E n \in 0 .. Parts - 1 :
             rules' = rules \cup Forward(p, worker[b].todo[p], n)
  /\ UNCHANGED <<host, conf, mark, guest, hook, post, cache, setter>>

WorkerBackend(b) ==
  /\ worker[b].step = "install" /\ worker[b].todo = Empty
  /\ mark' = [mark EXCEPT !.backend = host.be] /\ WorkerEnds(b)
  /\ UNCHANGED <<host, conf, rules, guest, hook, post, cache, setter, plain,
                 faults>>

-----------------------------------------------------------------------------
(* The guest goes down, of a stop or by itself; the monitor then runs the  *)
(* post-stop phase of hook.sh.  QEMU takes its hostfwds with it.           *)

Stop ==
  /\ guest.state = "up"
  /\ guest' = [guest EXCEPT !.lease = FALSE, !.netdev = FALSE,
                            !.state = IF host.kind = "vm" THEN "down"
                                                          ELSE "stopping"]
  /\ IF host.kind = "vm"
     THEN rules' = {} /\ UNCHANGED post
     ELSE post' = "cancel" /\ UNCHANGED rules
  /\ plain' = (plain /\ hook.step = "none" /\ setter.step = "none")
  /\ UNCHANGED <<host, conf, mark, hook, worker, cache, setter, faults>>

PostCancel ==
  /\ post = "cancel" /\ post' = "kill"
  /\ mark' = [mark EXCEPT !.cancel = TRUE]
  /\ UNCHANGED <<host, conf, rules, guest, hook, worker, cache, setter, plain,
                 faults>>

PostNoKill ==
  /\ post = "kill" /\ post' = "teardown"
  /\ UNCHANGED <<host, conf, rules, mark, guest, hook, worker, cache, setter,
                 plain, faults>>

PostKill ==
  /\ post = "kill" /\ post' = "teardown"
  /\ worker' = IF mark.pid = 0 THEN worker
               ELSE [worker EXCEPT ![mark.pid] = NoWorker]
  /\ UNCHANGED <<host, conf, rules, mark, guest, hook, cache, setter, plain,
                 faults>>

TeardownIfActive == IF mark.active THEN "nft" ELSE "not"
(* The backend that installed the rules, nft where none is recorded.       *)
TeardownBackend == IF mark.backend = "" THEN "nft" ELSE mark.backend

PostTeardown ==
  /\ post = "teardown" /\ post' = "clean"
  /\ rules' = IF TeardownBackend = host.be THEN {} ELSE rules
  /\ UNCHANGED <<host, conf, mark, guest, hook, worker, cache, setter, plain,
                 faults>>

PostClean ==
  /\ post = "clean" /\ post' = "none"
  /\ mark' = [NoMark EXCEPT !.error = mark.error]
  /\ guest' = [guest EXCEPT !.state = "down"]
  /\ UNCHANGED <<host, conf, rules, hook, worker, cache, setter, plain,
                 faults>>

Lease ==
  /\ Running /\ ~host.static /\ ~guest.lease
  /\ guest' = [guest EXCEPT !.lease = TRUE]
  /\ UNCHANGED <<host, conf, rules, mark, hook, post, worker, cache, setter,
                 plain, faults>>

(* The power goes: every process, every rule and every handle is gone, the *)
(* files stay.                                                             *)
HostCrash ==
  /\ guest.state # "down" /\ Fault
  /\ guest' = [guest EXCEPT !.state = "down", !.lease = FALSE,
                            !.netdev = FALSE]
  /\ rules' = {} /\ hook' = NoHook /\ post' = "none"
  /\ worker' = [b \in Boot |-> NoWorker]
  /\ cache' = conf /\ setter' = NoSetter
  /\ Disturbed
  /\ UNCHANGED <<host, conf, mark>>

-----------------------------------------------------------------------------
(* kento set --port, from another process: it takes no lock, refuses a     *)
(* running guest, and tells no handle.                                     *)

SetCli(f) ==
  /\ ~Running /\ f # conf
  /\ conf' = f
  /\ plain' = (plain /\ guest.state # "starting")
  /\ UNCHANGED <<host, rules, mark, guest, hook, post, worker, cache, setter,
                 faults>>

(* The forwards setter of a handle. *)

_load_forwards == conf

Refresh ==
  /\ setter.step = "none" /\ cache # _load_forwards
  /\ cache' = _load_forwards
  /\ UNCHANGED <<host, conf, rules, mark, guest, hook, post, worker, setter,
                 plain, faults>>

SetBegin(f) ==
  /\ setter.step = "none"
  /\ setter' = [NoSetter EXCEPT !.step = "probe", !.want = f]
  /\ UNCHANGED <<host, conf, rules, mark, guest, hook, post, worker, cache,
                 plain, faults>>

SetProbe ==
  /\ setter.step = "probe"
  /\ LET old == cache  want == setter.want
     IN IF Running
        THEN /\ setter' = [setter EXCEPT
                  !.step = "live", !.ip = HasAddress,
                  !.remove = {p \in Bindings(old) : old[p] # want[p]},
                  !.add = {p \in Bindings(want) : old[p] # want[p]}]
             /\ plain' = (plain /\ old = conf /\ hook.step = "none"
                                /\ WorkersIdle)
        ELSE /\ setter' = [setter EXCEPT !.step = "persist"]
             /\ plain' = (plain /\ guest.state \in {"down", "stopping"})
  /\ UNCHANGED <<host, conf, rules, mark, guest, hook, post, worker, cache,
                 faults>>

(* What applying a binding takes before any rule is touched.               *)
Ready == IF host.kind = "vm" THEN Running /\ guest.netdev
                            ELSE setter.ip /\ host.be # "none"

SetFails == setter' = [setter EXCEPT !.step = "undo", !.want = Empty,
                                     !.remove = {}, !.add = {}]

(* Done(u): the operation succeeded and u is its inverse.                  *)
Done(u) == [setter EXCEPT !.undo = <<u>> \o @]

run_remove(p) == rules' = {r \in rules : r.port # p}

(* QEMU knows the binding: it refuses to add it, or has it to remove.      *)
InForce(p) == \E r \in rules : r.port = p

SetNotReady ==
  /\ setter.step = "live" /\ setter.remove \cup setter.add # {}
  /\ ~Ready /\ SetFails
  /\ UNCHANGED <<host, conf, rules, mark, guest, hook, post, worker, cache,
                 plain, faults>>

(* The exit status of the command that deletes a rule is not looked at; a  *)
(* VM's monitor answers, and an answer that is not empty is a failure.     *)
(* What it answers is not in the source.  A QEMU that prints a line after  *)
(* a removal too makes the third case, with the rule gone and no inverse   *)
(* noted, what always happens on a VM; the first is a QEMU that is silent. *)
SetRemove(p) ==
  /\ setter.step = "live" /\ p \in setter.remove /\ Ready
  /\ LET u == [op |-> "add", port |-> p, to |-> cache[p]]
     IN \/ /\ host.kind = "vm" => InForce(p)
           /\ run_remove(p) /\ UNCHANGED <<plain, faults>>
           /\ setter' = [Done(u) EXCEPT !.remove = @ \ {p}]
        \/ /\ Fault /\ Disturbed /\ host.kind # "vm" /\ UNCHANGED rules
           /\ setter' = [Done(u) EXCEPT !.remove = @ \ {p}]
        \/ /\ Fault /\ Disturbed /\ host.kind = "vm"
           /\ run_remove(p) \/ UNCHANGED rules
           /\ SetFails
        \/ /\ host.kind = "vm" /\ ~InForce(p) /\ SetFails
           /\ UNCHANGED <<rules, plain, faults>>
  /\ UNCHANGED <<host, conf, mark, guest, hook, post, worker, cache>>

(* The rules of one forward are installed one command at a time; the       *)
(* inverse is noted when the last has succeeded.                           *)
SetAdd(p) ==
  /\ setter.step = "live" /\ setter.remove = {} /\ p \in setter.add
  /\ Ready
  /\ LET t == setter.want[p]
     IN \/ /\ host.kind = "vm" => ~InForce(p)
           /\ rules' = rules \cup Forward(p, t, Parts)
           /\ setter' = [Done([op |-> "remove", port |-> p, to |-> t])
                           EXCEPT !.add = @ \ {p}]
           /\ UNCHANGED <<plain, faults>>
        \/ /\ Fault /\ SetFails
           /\ \E n \in 0 .. Parts - 1 :
                /\ rules' = rules \cup Forward(p, t, n)
                /\ plain' = (plain /\ n = 0)
        \/ /\ host.kind = "vm" /\ InForce(p) /\ SetFails
           /\ UNCHANGED <<rules, plain, faults>>
  /\ UNCHANGED <<host, conf, mark, guest, hook, post, worker, cache>>

SetPersist ==
  /\ setter.step \in {"live", "persist"} /\ setter.remove \cup setter.add = {}
  /\ \/ /\ conf' = setter.want /\ setter' = NoSetter
        /\ cache' = setter.want
        /\ UNCHANGED faults
     \/ /\ Fault /\ UNCHANGED <<conf, cache>>
        /\ IF setter.step = "live" THEN SetFails ELSE setter' = NoSetter
  /\ UNCHANGED <<host, rules, mark, guest, hook, post, worker, plain>>

InOrder(u) == [next |-> u[Len(u)], rest |-> SubSeq(u, 1, Len(u) - 1)]
InReverse(u) == [next |-> Head(u), rest |-> Tail(u)]

(* Best effort: an inverse that fails is logged and passed over.           *)
SetUndo ==
  /\ setter.step = "undo" /\ setter.undo # <<>>
  /\ LET u == InReverse(setter.undo).next
     IN /\ setter' = [setter EXCEPT !.undo = InReverse(@).rest]
        /\ \/ /\ Ready /\ UNCHANGED <<plain, faults>>
              /\ IF u.op = "add"
                 THEN rules' = rules \cup Forward(u.port, u.to, Parts)
                 ELSE run_remove(u.port)
           \/ ~Ready /\ Disturbed /\ UNCHANGED <<rules, faults>>
           \/ Fault /\ Disturbed /\ UNCHANGED rules
  /\ UNCHANGED <<host, conf, mark, guest, hook, post, worker, cache>>

SetRaise ==
  /\ setter.step = "undo" /\ setter.undo = <<>>
  /\ setter' = NoSetter
  /\ UNCHANGED <<host, conf, rules, mark, guest, hook, post, worker, cache,
                 plain, faults>>

(* The process of the handle is killed; a later one loads the files.       *)
SetKilled ==
  /\ setter.step # "none" /\ Fault /\ Disturbed
  /\ setter' = NoSetter /\ cache' = conf
  /\ UNCHANGED <<host, conf, rules, mark, guest, hook, post, worker>>

-----------------------------------------------------------------------------

HookNext ==
  \/ HookNothing \/ HookSkip \/ HookNoBackend \/ HookStatic \/ HookDetach
  \/ HookPid \/ HookBackend
  \/ \E p \in Port : HookInstall(p)
HookFault == \E p \in Port : HookFails(p)

WorkerNext(b) ==
  \/ WorkerEnter(b) \/ WorkerPoll(b) \/ WorkerCheck(b) \/ WorkerMark(b)
  \/ WorkerBackend(b)
  \/ \E p \in Port : WorkerInstall(b, p)

PostNext == PostCancel \/ PostKill \/ PostTeardown \/ PostClean

SetterNext ==
  \/ SetProbe \/ SetNotReady \/ SetPersist \/ SetUndo \/ SetRaise
  \/ \E p \in Port : SetRemove(p) \/ SetAdd(p)

Next ==
  \/ Start \/ HookNext \/ HookFault \/ Stop \/ PostNext \/ Lease \/ HostCrash
  \/ \E b \in Boot : WorkerNext(b)
  \/ Refresh
  \/ \E f \in Wants : SetCli(f) \/ SetBegin(f)
  \/ SetterNext \/ SetKilled

(* A hook, a worker and a setter that has begun are running processes: the *)
(* kernel schedules them until they end.  Nothing else has to happen.      *)
Fairness ==
  /\ WF_vars(HookNext) /\ WF_vars(PostNext) /\ WF_vars(SetterNext)
  /\ \A b \in Boot : WF_vars(WorkerNext(b))

Spec == Init /\ [][Next]_vars /\ Fairness

-----------------------------------------------------------------------------
(* On a boot nothing has disturbed, the rules in force are the forwards    *)
(* kento-port lists, whatever live sets succeeded or were rolled back: the *)
(* both-or-neither promise of the setter, across hook.sh, the DHCP worker  *)
(* and QEMU's command line.                                                *)
BootTrue ==
  plain /\ Running /\ Quiet /\ CanForward
    => rules = Full(conf)

(* The post-stop hook leaves no rule of the guest behind, and no worker    *)
(* that could still install one (hook.sh, post-stop).  With iptables and   *)
(* no backend recorded it looks with nft, and is not held to this.         *)
TeardownComplete ==
  plain /\ guest.state = "down" /\ post = "none" /\ host.be # "iptables"
    => rules = {} /\ WorkersIdle

(* A worker of a plain container installs nothing once its guest's         *)
(* post-stop hook has torn the rules down (hook.sh, the cancel sentinel).  *)
NoLateWorker ==
  [][\A b \in Boot, p \in Port :
       WorkerInstall(b, p) /\ host.kind = "lxc"
         => Running \/ post \in {"cancel", "kill"}]_vars

(* What start-host sets out to do comes to an end: the forwards of an      *)
(* undisturbed boot come into force, unless the guest goes down first.     *)
ForwardsComeUp ==
  (Running /\ plain /\ CanForward)
    ~> (rules = Full(conf) \/ ~Running \/ ~plain)
=============================================================================
