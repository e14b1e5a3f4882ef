--------------------------- MODULE ForwardsProofs ---------------------------
(***************************************************************************)
(* What holds of the port forwards of a guest for any set of host          *)
(* bindings, any forwards, any number of rules per forward, of boots and   *)
(* of faults, on every host Hosts may name: a boot that nothing has        *)
(* disturbed has its forwards in force, whatever sets were applied or      *)
(* rolled back; and a stop leaves no rule and no worker behind.            *)
(***************************************************************************)
EXTENDS Forwards, SequenceTheorems, TLAPS

-------------------------------------------------------------------------------
(* Types. *)

Fwd == [Port -> Target \cup {NoTarget}]
Rule == [port : Port, to : Target, part : 1 .. Parts]
Op == [op : {"add", "remove"}, port : Port, to : Target]

MarkType == [active : BOOLEAN, backend : {"", "nft", "iptables", "none"},
             cancel : BOOLEAN, pid : Boot \cup {0}, error : BOOLEAN]
GuestType == [state : {"down", "starting", "up", "stopping"},
              boot : Boot \cup {0}, lease : BOOLEAN, netdev : BOOLEAN]
HookType == [step : {"none", "begin", "install", "pid"}, todo : Fwd]
WorkerType == [step : {"none", "enter", "poll", "check", "mark", "install"},
               todo : Fwd]
SetterType == [step : {"none", "probe", "live", "persist", "undo"},
               want : Fwd, remove : SUBSET Port, add : SUBSET Port,
               undo : Seq(Op), ip : BOOLEAN]

Types ==
  /\ host \in Hosts
  /\ conf \in Fwd /\ cache \in Fwd
  /\ rules \subseteq Rule
  /\ mark \in MarkType /\ guest \in GuestType
  /\ hook \in HookType /\ worker \in [Boot -> WorkerType]
  /\ post \in {"none", "cancel", "kill", "teardown", "clean"}
  /\ setter \in SetterType

\* Beyond the types: which actor is at work on which kind of guest and host,
\* and what a set has left to do.
Shape ==
  /\ mark.backend \in {"", host.be}
  /\ guest.state = "starting" => hook.step # "none"
  /\ (post # "none") <=> (guest.state = "stopping")
  /\ guest.state # "down" \/ hook.step # "none" => guest.boot \in Boot
  /\ host.kind = "vm" => hook = NoHook /\ WorkersIdle /\ mark = NoMark
                         /\ post = "none"
  /\ host.kind # "vm" /\ host.be = "none" =>
       rules = {} /\ hook.step \in {"none", "begin"} /\ WorkersIdle
  /\ setter.remove \subseteq Bindings(cache)
  /\ setter.add \subseteq Bindings(setter.want)
  /\ setter.step = "live" \/ setter.remove \cup setter.add = {}

Typed == Types /\ Shape

LEMMA EmptyTyped == Empty \in Fwd
  BY ForwardsAssumption DEF Empty, Fwd

LEMMA FullTyped ==
  ASSUME NEW f \in Fwd
  PROVE  Full(f) \subseteq Rule
  BY ForwardsAssumption DEF Full, Forward, Bindings, Fwd, Rule

LEMMA ForwardTyped ==
  ASSUME NEW p \in Port, NEW t \in Target
  PROVE  /\ Forward(p, t, Parts) \subseteq Rule
         /\ \A n \in 0 .. Parts - 1 : Forward(p, t, n) \subseteq Rule
  BY ForwardsAssumption DEF Forward, Rule

\* What is left of a todo list once a binding is done.
LEMMA TodoTyped ==
  ASSUME NEW f \in Fwd, NEW p \in Port
  PROVE  [f EXCEPT ![p] = NoTarget] \in Fwd
  BY ForwardsAssumption DEF Fwd

\* The undo list: what is noted first comes off last.
LEMMA UndoNoted ==
  ASSUME NEW s \in Seq(Op), NEW u \in Op
  PROVE  /\ <<u>> \o s \in Seq(Op)
         /\ Len(<<u>> \o s) = Len(s) + 1
         /\ (<<u>> \o s)[1] = u
         /\ \A i \in 1 .. Len(s) : (<<u>> \o s)[i + 1] = s[i]
  BY DEF Op

LEMMA UndoTaken ==
  ASSUME NEW s \in Seq(Op), s # <<>>
  PROVE  /\ InReverse(s).next = s[1] /\ s[1] \in Op
         /\ InReverse(s).rest \in Seq(Op) /\ Len(s) \in Nat \ {0}
         /\ Len(InReverse(s).rest) = Len(s) - 1
         /\ \A i \in 1 .. Len(s) - 1 : InReverse(s).rest[i] = s[i + 1]
  <1>1. Head(s) \in Op /\ Tail(s) \in Seq(Op) /\ Len(Tail(s)) = Len(s) - 1
    BY HeadTailProperties
  <1>2. Head(s) = s[1] /\ Len(s) \in Nat \ {0}
    BY EmptySeq
  <1>3. \A i \in 1 .. Len(s) - 1 : Tail(s)[i] = s[i + 1]
    BY <1>1, HeadTailProperties
  <1> QED BY <1>1, <1>2, <1>3 DEF InReverse

LEMMA InitTyped == Init => Typed
  <1> SUFFICES ASSUME Init PROVE Typed
    OBVIOUS
  <1> USE ForwardsAssumption, EmptyTyped DEF Init
  <1>1. conf \in Fwd /\ cache \in Fwd
    BY DEF Fwd
  <1>2. mark \in MarkType /\ guest \in GuestType /\ hook \in HookType
    BY DEF MarkType, GuestType, HookType, NoMark, NoHook
  <1>3. worker \in [Boot -> WorkerType] /\ setter \in SetterType
    BY DEF WorkerType, SetterType, NoWorker, NoSetter
  <1>4. Types
    BY <1>1, <1>2, <1>3 DEF Types
  <1>5. WorkersIdle
    BY DEF WorkersIdle, NoWorker
  <1>6. Shape
    BY <1>5 DEF Shape, NoMark, NoHook, NoSetter, Bindings
  <1> QED BY <1>4, <1>6 DEF Typed


-------------------------------------------------------------------------------
(* Every step keeps the types. *)

LEMMA HostsTyped ==
  ASSUME Types
  PROVE  /\ host.kind \in {"lxc", "pve", "vm"} /\ host.static \in BOOLEAN
         /\ host.be \in {"nft", "iptables", "none"}
  BY ForwardsAssumption DEF Types

LEMMA NoneTyped ==
  /\ NoHook \in HookType /\ NoWorker \in WorkerType /\ NoSetter \in SetterType
  /\ NoHook.step = "none" /\ NoWorker.step = "none" /\ NoSetter.step = "none"
  /\ NoSetter.remove = {} /\ NoSetter.add = {}
  <1>1. NoHook \in HookType /\ NoWorker \in WorkerType
    BY EmptyTyped DEF NoHook, HookType, NoWorker, WorkerType
  <1>2. NoSetter \in SetterType
    BY EmptyTyped, EmptySeq DEF NoSetter, SetterType
  <1> QED BY <1>1, <1>2 DEF NoHook, NoWorker, NoSetter

LEMMA NextBoot == \A n \in Boot \cup {0} : n < MaxBoots => n + 1 \in Boot
  BY ForwardsAssumption DEF Boot

LEMMA NoBootZero == 0 \notin Boot
  BY DEF Boot

\* A worker that ends, one that goes on, and the one a hook detaches.
LEMMA WorkerTyped ==
  ASSUME Types, NEW b \in Boot
  PROVE  /\ [worker EXCEPT ![b] = NoWorker] \in [Boot -> WorkerType]
         /\ \A s \in {"poll", "check", "mark", "install"} :
              [worker EXCEPT ![b].step = s] \in [Boot -> WorkerType]
         /\ \A w \in WorkerType :
              [worker EXCEPT ![b] = w] \in [Boot -> WorkerType]
         /\ worker[b].todo \in Fwd
  <1>1. worker \in [Boot -> WorkerType]
    BY DEF Types
  <1>2. worker[b] \in WorkerType
    BY <1>1
  <1>3. \A s \in {"poll", "check", "mark", "install"} :
          [worker[b] EXCEPT !.step = s] \in WorkerType
    BY <1>2 DEF WorkerType
  <1>4. \A s : [worker EXCEPT ![b].step = s]
                = [worker EXCEPT ![b] = [worker[b] EXCEPT !.step = s]]
    BY <1>1
  <1>5. worker[b].todo \in Fwd
    BY <1>2 DEF WorkerType
  <1> QED BY <1>1, <1>3, <1>4, <1>5, NoneTyped

LEMMA HookTypes ==
  ASSUME Typed, HookNext \/ HookFault
  PROVE  Types'
  <1> USE NoneTyped, HostsTyped DEF Typed, Types
  <1> USE DEF HookType, GuestType, MarkType, HookReturns
  <1>1. CASE HookNothing
    <2>1. hook' \in HookType /\ guest' \in GuestType
      BY <1>1 DEF HookNothing
    <2>2. UNCHANGED <<host, conf, rules, mark, post, worker, cache, setter>>
      BY <1>1 DEF HookNothing
    <2> HIDE DEF HookType, MarkType, GuestType
    <2> QED BY <2>1, <2>2
  <1>2. CASE HookSkip
    <2>1. hook' \in HookType /\ guest' \in GuestType
      BY <1>2 DEF HookSkip
    <2>2. UNCHANGED <<host, conf, rules, mark, post, worker, cache, setter>>
      BY <1>2 DEF HookSkip
    <2> HIDE DEF HookType, MarkType, GuestType
    <2> QED BY <2>1, <2>2
  <1>3. CASE HookNoBackend
    BY <1>3 DEF HookNoBackend
  <1>4. CASE HookStatic
    BY <1>4 DEF HookStatic
  <1>5. CASE HookDetach
    BY <1>5, WorkerTyped DEF HookDetach, Baked, WorkerType, Shape
  <1>6. CASE HookPid
    BY <1>6 DEF HookPid, Shape
  <1>7. CASE HookBackend
    BY <1>7 DEF HookBackend
  <1>8. ASSUME NEW p \in Port, HookInstall(p) PROVE Types'
    <2>1. hook.todo[p] \in Target /\ [hook.todo EXCEPT ![p] = NoTarget] \in Fwd
      BY <1>8, TodoTyped DEF HookInstall, Bindings, Fwd
    <2>2. Forward(p, hook.todo[p], Parts) \subseteq Rule
      BY <2>1, ForwardTyped
    <2>3. hook' \in HookType
      BY <1>8, <2>1 DEF HookInstall
    <2>4. rules' \subseteq Rule
      BY <1>8, <2>2 DEF HookInstall
    <2>5. UNCHANGED <<host, conf, mark, guest, post, worker, cache, setter>>
      BY <1>8 DEF HookInstall
    <2> HIDE DEF HookType, MarkType, GuestType
    <2> QED BY <2>3, <2>4, <2>5
  <1>9. ASSUME NEW p \in Port, HookFails(p) PROVE Types'
    <2>1. hook.todo[p] \in Target
      BY <1>9 DEF HookFails, Bindings, Fwd
    <2>2. \A n \in 0 .. Parts - 1 : Forward(p, hook.todo[p], n) \subseteq Rule
      BY <2>1, ForwardTyped
    <2>3. rules' \subseteq Rule
      BY <1>9, <2>2 DEF HookFails
    <2>4. hook' \in HookType /\ guest' \in GuestType
      BY <1>9 DEF HookFails
    <2>5. post' \in {"none", "cancel", "kill", "teardown", "clean"}
            /\ UNCHANGED <<host, conf, mark, worker, cache, setter>>
      BY <1>9 DEF HookFails
    <2> HIDE DEF HookType, MarkType, GuestType
    <2> QED BY <2>3, <2>4, <2>5
  <1> QED BY <1>1, <1>2, <1>3, <1>4, <1>5, <1>6, <1>7, <1>8, <1>9
          DEF HookNext, HookFault

LEMMA WorkerTypes ==
  ASSUME Typed, NEW b \in Boot, WorkerNext(b)
  PROVE  Types'
  <1> USE WorkerTyped, HostsTyped DEF Typed, Types
  <1> USE DEF MarkType, WorkerEnds, WorkerGoes
  <1>1. CASE WorkerEnter(b)
    <2>1. worker' = [worker EXCEPT ![b] = NoWorker]
            \/ worker' = [worker EXCEPT ![b].step = "poll"]
      BY <1>1 DEF WorkerEnter
    <2>2. UNCHANGED <<host, conf, rules, mark, guest, hook, post, cache, setter>>
      BY <1>1 DEF WorkerEnter
    <2> HIDE DEF MarkType
    <2> QED BY <2>1, <2>2
  <1>2. CASE WorkerPoll(b)
    <2>1. mark' \in MarkType
      BY <1>2 DEF WorkerPoll
    <2>2. worker' \in [Boot -> WorkerType]
      <3>1. worker' = [worker EXCEPT ![b] = NoWorker]
              \/ worker' = [worker EXCEPT ![b].step = "check"]
        BY <1>2 DEF WorkerPoll
      <3> HIDE DEF MarkType
      <3> QED BY <3>1
    <2>3. UNCHANGED <<host, conf, rules, guest, hook, post, cache, setter>>
      BY <1>2 DEF WorkerPoll
    <2> QED BY <2>1, <2>2, <2>3
  <1>3. CASE WorkerCheck(b)
    <2>1. worker' = [worker EXCEPT ![b] = NoWorker]
            \/ worker' = [worker EXCEPT ![b].step = "mark"]
      BY <1>3 DEF WorkerCheck
    <2>2. UNCHANGED <<host, conf, rules, mark, guest, hook, post, cache, setter>>
      BY <1>3 DEF WorkerCheck
    <2> HIDE DEF MarkType
    <2> QED BY <2>1, <2>2
  <1>4. CASE WorkerMark(b)
    BY <1>4 DEF WorkerMark
  <1>5. CASE WorkerBackend(b)
    BY <1>5 DEF WorkerBackend
  <1>6. ASSUME NEW p \in Port, WorkerInstall(b, p) PROVE Types'
    <2>1. worker[b].todo[p] \in Target
      <3>1. worker[b].todo[p] \in Target \cup {NoTarget}
        BY DEF Fwd
      <3> QED BY <1>6, <3>1 DEF WorkerInstall, Bindings
    <2>2. [worker EXCEPT ![b].todo[p] = NoTarget] \in [Boot -> WorkerType]
      <3>1. worker[b] \in WorkerType /\ [worker[b].todo EXCEPT ![p] = NoTarget] \in Fwd
        BY TodoTyped
      <3>2. [worker[b] EXCEPT !.todo[p] = NoTarget] \in WorkerType
        BY <3>1 DEF WorkerType
      <3> QED BY <3>2
    <2>3. /\ Forward(p, worker[b].todo[p], Parts) \subseteq Rule
          /\ \A n \in 0 .. Parts - 1 : Forward(p, worker[b].todo[p], n) \subseteq Rule
      BY <2>1, ForwardTyped
    <2>4. /\ rules' \subseteq Rule
          /\ worker' = [worker EXCEPT ![b].todo[p] = NoTarget]
          /\ UNCHANGED <<host, conf, mark, guest, hook, post, cache, setter>>
      BY <1>6, <2>3 DEF WorkerInstall
    <2> QED BY <2>2, <2>4
  <1> QED BY <1>1, <1>2, <1>3, <1>4, <1>5, <1>6 DEF WorkerNext

LEMMA GuestTypes ==
  ASSUME Typed, Start \/ Stop \/ PostNext \/ Lease \/ HostCrash
  PROVE  Types'
  <1> USE NoneTyped, HostsTyped DEF Typed, Types
  <1> USE DEF GuestType, MarkType
  <1>1. CASE Start
    <2>1. Full(conf) \subseteq Rule
      BY FullTyped
    <2>2. guest.boot < MaxBoots => guest.boot + 1 \in Boot
      BY NextBoot
    <2>3. hook' \in HookType
      BY <1>1 DEF Start, HookType
    <2> QED BY <1>1, <2>1, <2>2, <2>3 DEF Start
  <1>2. CASE Stop
    BY <1>2 DEF Stop
  <1>3. CASE PostCancel
    BY <1>3 DEF PostCancel
  <1>4. CASE PostKill
    <2>1. mark.pid = 0 \/ mark.pid \in Boot
      OBVIOUS
    <2>2. worker' \in [Boot -> WorkerType]
      <3>1. worker' = worker \/ (mark.pid \in Boot
                                 /\ worker' = [worker EXCEPT ![mark.pid] = NoWorker])
        BY <1>4, <2>1 DEF PostKill
      <3> HIDE DEF MarkType, GuestType
      <3> QED BY <3>1, WorkerTyped
    <2>3. post' = "teardown"
            /\ UNCHANGED <<host, conf, rules, mark, guest, hook, cache, setter>>
      BY <1>4 DEF PostKill
    <2> HIDE DEF MarkType, GuestType
    <2> QED BY <2>2, <2>3
  <1>5. CASE PostTeardown
    <2>1. rules' \subseteq rules /\ post' = "clean"
            /\ UNCHANGED <<host, conf, mark, guest, hook, worker, cache, setter>>
      BY <1>5 DEF PostTeardown
    <2> HIDE DEF MarkType, GuestType
    <2> QED BY <2>1
  <1>6. CASE PostClean
    BY <1>6 DEF PostClean, NoMark
  <1>7. CASE Lease
    BY <1>7 DEF Lease
  <1>8. CASE HostCrash
    BY <1>8 DEF HostCrash
  <1> QED BY <1>1, <1>2, <1>3, <1>4, <1>5, <1>6, <1>7, <1>8 DEF PostNext

LEMMA SetterTypes ==
  ASSUME Typed,
         Refresh \/ (\E f \in Wants : SetCli(f) \/ SetBegin(f)) \/ SetterNext
           \/ SetKilled
  PROVE  Types'
  <1>1. /\ setter \in SetterType /\ rules \subseteq Rule /\ cache \in Fwd
        /\ conf \in Fwd
    BY DEF Typed, Types
  <1>2. NoSetter \in SetterType /\ Empty \in Fwd
    BY NoneTyped, EmptyTyped
  <1>3. ASSUME /\ setter' \in SetterType /\ rules' \subseteq Rule
               /\ cache' \in Fwd /\ conf' \in Fwd
               /\ UNCHANGED <<host, mark, guest, hook, post, worker>>
        PROVE  Types'
    BY <1>3 DEF Typed, Types
  <1>4. SetFails => setter' \in SetterType
    BY <1>1, <1>2 DEF SetFails, SetterType
  <1>5. CASE Refresh
    BY <1>1, <1>3, <1>5 DEF Refresh, _load_forwards
  <1>6. ASSUME NEW f \in Wants, SetCli(f) PROVE Types'
    <2>1. f \in Fwd
      BY ForwardsAssumption DEF Fwd
    <2> QED BY <1>1, <1>3, <1>6, <2>1 DEF SetCli
  <1>7. ASSUME NEW f \in Wants, SetBegin(f) PROVE Types'
    <2>1. f \in Fwd
      BY ForwardsAssumption DEF Fwd
    <2>2. setter' \in SetterType
      BY <1>2, <1>7, <2>1 DEF SetBegin, SetterType
    <2> QED BY <1>1, <1>3, <1>7, <2>2 DEF SetBegin
  <1>8. CASE SetProbe
    <2>1. HasAddress \in BOOLEAN
      BY HostsTyped DEF HasAddress, Typed, Types, GuestType, Running
    <2>2. setter' \in SetterType
      <3>1. \A x, y \in SUBSET Port : [setter EXCEPT !.step = "live",
                 !.ip = HasAddress, !.remove = x, !.add = y] \in SetterType
        BY <1>1, <2>1 DEF SetterType
      <3>2. [setter EXCEPT !.step = "persist"] \in SetterType
        BY <1>1 DEF SetterType
      <3> DEFINE x == {p \in Bindings(cache) : cache[p] # setter.want[p]}
                 y == {p \in Bindings(setter.want) : cache[p] # setter.want[p]}
      <3>3. x \in SUBSET Port /\ y \in SUBSET Port
        BY DEF Bindings
      <3>4. \/ setter' = [setter EXCEPT !.step = "live",
                 !.ip = HasAddress, !.remove = x, !.add = y]
            \/ setter' = [setter EXCEPT !.step = "persist"]
        BY <1>8 DEF SetProbe
      <3> HIDE DEF x, y
      <3> QED BY <3>1, <3>2, <3>3, <3>4
    <2> QED BY <1>1, <1>3, <1>8, <2>2 DEF SetProbe
  <1>9. CASE SetNotReady
    BY <1>1, <1>3, <1>4, <1>9 DEF SetNotReady
  <1>10. ASSUME NEW p \in Port, SetRemove(p) PROVE Types'
    <2> DEFINE u == [op |-> "add", port |-> p, to |-> cache[p]]
    <2>1. u \in Op
      BY <1>10 DEF SetRemove, Typed, Types, Shape, Bindings, Op, Fwd
    <2>2. <<u>> \o setter.undo \in Seq(Op)
      BY <1>1, <2>1, UndoNoted DEF SetterType
    <2> HIDE DEF u
    <2>3. [Done(u) EXCEPT !.remove = @ \ {p}] \in SetterType
      BY <1>1, <2>2 DEF Done, SetterType
    <2>4. setter' = [Done(u) EXCEPT !.remove = @ \ {p}] \/ SetFails
      BY <1>10 DEF SetRemove, u
    <2>5. rules' \subseteq rules
      BY <1>1, <1>10 DEF SetRemove, run_remove
    <2> QED BY <1>1, <1>3, <1>4, <1>10, <2>3, <2>4, <2>5 DEF SetRemove
  <1>11. ASSUME NEW p \in Port, SetAdd(p) PROVE Types'
    <2> DEFINE u == [op |-> "remove", port |-> p, to |-> setter.want[p]]
    <2>1. setter.want[p] \in Target
      BY <1>11 DEF SetAdd, Typed, Types, SetterType, Shape, Bindings, Fwd
    <2>2. <<u>> \o setter.undo \in Seq(Op)
      BY <1>1, <2>1, UndoNoted DEF Op, SetterType
    <2> HIDE DEF u
    <2>3. [Done(u) EXCEPT !.add = @ \ {p}] \in SetterType
      BY <1>1, <2>2 DEF Done, SetterType
    <2>4. setter' = [Done(u) EXCEPT !.add = @ \ {p}] \/ SetFails
      BY <1>11 DEF SetAdd, u
    <2>5. \/ UNCHANGED rules
          \/ rules' = rules \cup Forward(p, setter.want[p], Parts)
          \/ \E n \in 0 .. Parts - 1 :
               rules' = rules \cup Forward(p, setter.want[p], n)
      BY <1>11 DEF SetAdd
    <2>6. rules' \subseteq Rule
      BY <1>1, <2>1, <2>5, ForwardTyped
    <2> QED BY <1>1, <1>3, <1>4, <1>11, <2>3, <2>4, <2>6 DEF SetAdd
  <1>12. CASE SetPersist
    <2>1. setter' = NoSetter \/ SetFails
      BY <1>12 DEF SetPersist
    <2>2. setter.want \in Fwd
      BY <1>1 DEF SetterType
    <2> QED BY <1>1, <1>2, <1>3, <1>4, <1>12, <2>1, <2>2 DEF SetPersist
  <1>13. CASE SetUndo
    <2> DEFINE u == InReverse(setter.undo).next
    <2>1. u \in Op /\ InReverse(setter.undo).rest \in Seq(Op)
      BY <1>1, <1>13, UndoTaken DEF SetUndo, SetterType
    <2>2. u.port \in Port /\ u.to \in Target
      BY <2>1 DEF Op
    <2>3. Forward(u.port, u.to, Parts) \subseteq Rule
      BY <2>2, ForwardTyped
    <2>4. setter' \in SetterType
      BY <1>1, <1>13, <2>1 DEF SetUndo, SetterType
    <2>5. \/ rules' \subseteq rules
          \/ rules' = rules \cup Forward(u.port, u.to, Parts)
      BY <1>13 DEF SetUndo, run_remove
    <2>7. UNCHANGED <<host, conf, mark, guest, hook, post, worker, cache>>
      BY <1>13 DEF SetUndo
    <2> HIDE DEF u
    <2> QED BY <1>1, <1>3, <2>3, <2>4, <2>5, <2>7
  <1>14. CASE SetRaise
    BY <1>1, <1>2, <1>3, <1>14 DEF SetRaise
  <1>15. CASE SetKilled
    BY <1>1, <1>2, <1>3, <1>15 DEF SetKilled
  <1> QED BY <1>5, <1>6, <1>7, <1>8, <1>9, <1>10, <1>11, <1>12, <1>13, <1>14,
             <1>15 DEF SetterNext

LEMMA StepTypes ==
  ASSUME Typed, [Next]_vars
  PROVE  Types'
  <1>1. CASE UNCHANGED vars
    BY <1>1 DEF Typed, Types, vars
  <1> QED BY <1>1, HookTypes, WorkerTypes, GuestTypes, SetterTypes DEF Next


-------------------------------------------------------------------------------
(* Every step keeps who may be at work. *)

\* What a step of the hook, of a worker or of the guest leaves alone.
LEMMA SetterShape ==
  ASSUME Shape, UNCHANGED <<cache, setter>>
  PROVE  /\ setter'.remove \subseteq Bindings(cache)'
         /\ setter'.add \subseteq Bindings(setter'.want)
         /\ setter'.step = "live" \/ setter'.remove \cup setter'.add = {}
  BY DEF Shape, Bindings

LEMMA HookShape ==
  ASSUME Typed, HookNext \/ HookFault
  PROVE  Shape'
  <1> USE NoneTyped, HostsTyped DEF Typed, Shape, WorkersIdle
  <1>0. /\ guest \in GuestType /\ mark \in MarkType /\ hook \in HookType
        /\ worker \in [Boot -> WorkerType]
    BY DEF Types
  <1>1. CASE HookNothing
    BY <1>0, <1>1, SetterShape DEF HookNothing, HookReturns, GuestType
  <1>2. CASE HookSkip
    BY <1>0, <1>2, SetterShape DEF HookSkip, HookReturns, GuestType
  <1>3. CASE HookNoBackend
    BY <1>0, <1>3, SetterShape DEF HookNoBackend, HookReturns, GuestType, MarkType
  <1>4. CASE HookStatic
    BY <1>0, <1>4, SetterShape DEF HookStatic, MarkType
  <1>5. CASE HookDetach
    BY <1>0, <1>5, SetterShape DEF HookDetach, MarkType, HookType
  <1>6. CASE HookPid
    BY <1>0, <1>6, SetterShape DEF HookPid, HookReturns, GuestType, MarkType
  <1>7. CASE HookBackend
    BY <1>0, <1>7, SetterShape DEF HookBackend, HookReturns, GuestType, MarkType
  <1>8. ASSUME NEW p \in Port, HookInstall(p) PROVE Shape'
    BY <1>0, <1>8, SetterShape DEF HookInstall, HookType
  <1>9. ASSUME NEW p \in Port, HookFails(p) PROVE Shape'
    BY <1>0, <1>9, SetterShape DEF HookFails, GuestType
  <1> QED BY <1>1, <1>2, <1>3, <1>4, <1>5, <1>6, <1>7, <1>8, <1>9
          DEF HookNext, HookFault

LEMMA WorkerShape ==
  ASSUME Typed, NEW b \in Boot, WorkerNext(b)
  PROVE  Shape'
  <1> USE NoneTyped, HostsTyped DEF Typed, Shape, WorkersIdle
  <1>0. mark \in MarkType /\ worker \in [Boot -> WorkerType]
    BY DEF Types
  <1>1. worker[b].step # "none"
    BY DEF WorkerNext, WorkerEnter, WorkerPoll, WorkerCheck, WorkerMark,
           WorkerBackend, WorkerInstall
  <1>2. host.kind # "vm" /\ host.be # "none"
    BY <1>1
  <1>3. /\ UNCHANGED <<host, guest, hook, post, cache, setter>>
        /\ mark'.backend \in {"", host.be}
    BY <1>0 DEF WorkerNext, WorkerEnter, WorkerPoll, WorkerCheck, WorkerMark,
           WorkerBackend, WorkerInstall, MarkType
  <1> QED BY <1>2, <1>3, SetterShape

LEMMA GuestShape ==
  ASSUME Typed, Start \/ Stop \/ PostNext \/ Lease \/ HostCrash
  PROVE  Shape'
  <1> USE NoneTyped, HostsTyped DEF Typed, Shape, WorkersIdle
  <1>0. /\ guest \in GuestType /\ mark \in MarkType /\ hook \in HookType
        /\ worker \in [Boot -> WorkerType]
    BY DEF Types
  <1>1. CASE Start
    BY <1>0, <1>1, SetterShape, NextBoot DEF Start, GuestType, HookType
  <1>2. CASE Stop
    BY <1>0, <1>2, SetterShape DEF Stop, GuestType
  <1>3. CASE PostCancel
    BY <1>0, <1>3, SetterShape DEF PostCancel, MarkType
  <1>4. CASE PostKill
    BY <1>0, <1>4, SetterShape DEF PostKill
  <1>5. CASE PostTeardown
    BY <1>0, <1>5, SetterShape DEF PostTeardown
  <1>6. CASE PostClean
    BY <1>0, <1>6, SetterShape DEF PostClean, NoMark, GuestType
  <1>7. CASE Lease
    BY <1>0, <1>7, SetterShape DEF Lease, GuestType, Running
  <1>8. CASE HostCrash
    BY <1>0, <1>8 DEF HostCrash, GuestType, Bindings
  <1> QED BY <1>1, <1>2, <1>3, <1>4, <1>5, <1>6, <1>7, <1>8 DEF PostNext

LEMMA SetterStepShape ==
  ASSUME Typed,
         Refresh \/ (\E f \in Wants : SetCli(f) \/ SetBegin(f)) \/ SetterNext
           \/ SetKilled
  PROVE  Shape'
  <1>1. setter \in SetterType
    BY DEF Typed, Types
  <1>2. ASSUME UNCHANGED <<host, rules, mark, guest, hook, post, worker>>,
               setter'.remove \subseteq Bindings(cache)',
               setter'.add \subseteq Bindings(setter'.want),
               setter'.step = "live" \/ setter'.remove \cup setter'.add = {}
        PROVE  Shape'
    BY <1>2 DEF Typed, Shape, WorkersIdle
  <1>3. ASSUME UNCHANGED <<host, mark, guest, hook, post, worker, cache>>,
               setter'.remove \subseteq setter.remove,
               setter'.add \subseteq setter.add,
               setter'.add # {} => setter'.want = setter.want,
               setter'.step = "live" \/ setter'.remove \cup setter'.add = {},
               (host.kind # "vm" /\ host.be = "none") => rules' = {}
        PROVE  Shape'
    BY <1>3 DEF Typed, Shape, WorkersIdle, Bindings
  <1>4. CASE Refresh
    BY <1>1, <1>2, <1>4 DEF Refresh, SetterType, Typed, Shape
  <1>5. ASSUME NEW f \in Wants, SetCli(f) PROVE Shape'
    BY <1>2, <1>5, SetterShape DEF SetCli, Typed
  <1>6. ASSUME NEW f \in Wants, SetBegin(f) PROVE Shape'
    BY <1>2, <1>6, NoneTyped DEF SetBegin, NoSetter
  <1>7. CASE SetProbe
    <2>1. setter'.remove \subseteq Bindings(cache)
            /\ setter'.add \subseteq Bindings(setter'.want)
      <3>1. CASE Running
        <4> DEFINE x == {p \in Bindings(cache) : cache[p] # setter.want[p]}
                   y == {p \in Bindings(setter.want) : cache[p] # setter.want[p]}
        <4>1. setter' = [setter EXCEPT !.step = "live", !.ip = HasAddress,
                                       !.remove = x, !.add = y]
          BY <1>7, <3>1 DEF SetProbe
        <4>2. x \subseteq Bindings(cache) /\ y \subseteq Bindings(setter.want)
          OBVIOUS
        <4> HIDE DEF x, y
        <4> QED BY <1>1, <4>1, <4>2 DEF SetterType
      <3>2. CASE ~Running
        BY <1>1, <1>7, <3>2 DEF SetProbe, SetterType, Typed, Shape
      <3> QED BY <3>1, <3>2
    <2>2. setter'.step = "live" \/ setter'.remove \cup setter'.add = {}
      BY <1>1, <1>7 DEF SetProbe, SetterType, Typed, Shape
    <2> QED BY <1>2, <1>7, <2>1, <2>2 DEF SetProbe, Bindings
  <1>8. ASSUME SetFails
        PROVE  /\ setter'.remove = {} /\ setter'.add = {}
    BY <1>1, <1>8 DEF SetFails, SetterType
  <1>9. Ready => host.kind = "vm" \/ host.be # "none"
    BY DEF Ready
  <1>10. CASE SetNotReady
    BY <1>3, <1>8, <1>10 DEF SetNotReady, Typed, Shape
  <1>11. ASSUME NEW p \in Port, SetRemove(p) PROVE Shape'
    <2>1. \/ SetFails
          \/ /\ setter'.step = "live" /\ setter'.want = setter.want
             /\ setter'.remove \subseteq setter.remove
             /\ setter'.add = setter.add
      <3>1. \A u : LET s == [Done(u) EXCEPT !.remove = @ \ {p}]
                   IN /\ s.step = setter.step /\ s.want = setter.want
                      /\ s.remove \subseteq setter.remove /\ s.add = setter.add
        BY <1>1 DEF Done, SetterType
      <3> QED BY <1>11, <3>1 DEF SetRemove
    <2> QED BY <1>3, <1>8, <1>9, <1>11, <2>1 DEF SetRemove
  <1>12. ASSUME NEW p \in Port, SetAdd(p) PROVE Shape'
    <2>1. \/ SetFails
          \/ /\ setter'.step = "live" /\ setter'.want = setter.want
             /\ setter'.remove = setter.remove
             /\ setter'.add \subseteq setter.add
      <3>1. \A u : LET s == [Done(u) EXCEPT !.add = @ \ {p}]
                   IN /\ s.step = setter.step /\ s.want = setter.want
                      /\ s.remove = setter.remove /\ s.add \subseteq setter.add
        BY <1>1 DEF Done, SetterType
      <3> QED BY <1>12, <3>1 DEF SetAdd
    <2> QED BY <1>3, <1>8, <1>9, <1>12, <2>1 DEF SetAdd
  <1>13. CASE SetPersist
    <2>1. setter'.remove = {} /\ setter'.add = {}
      BY <1>8, <1>13, NoneTyped DEF SetPersist
    <2> QED BY <1>2, <1>13, <2>1 DEF SetPersist
  <1>14. CASE SetUndo
    <2>1. setter'.remove = {} /\ setter'.add = {} /\ setter'.step = "undo"
      BY <1>1, <1>14 DEF SetUndo, SetterType, Typed, Shape
    <2>2. (host.kind # "vm" /\ host.be = "none") => rules' = {}
      BY <1>9, <1>14 DEF SetUndo, Typed, Shape
    <2> QED BY <1>3, <1>14, <2>1, <2>2 DEF SetUndo
  <1>15. CASE SetRaise
    BY <1>2, <1>15, NoneTyped DEF SetRaise
  <1>16. CASE SetKilled
    BY <1>2, <1>16, NoneTyped DEF SetKilled
  <1> QED BY <1>4, <1>5, <1>6, <1>7, <1>10, <1>11, <1>12, <1>13, <1>14, <1>15,
             <1>16 DEF SetterNext

\* The types, and who is at work, in every state.
THEOREM ForwardsTyped == Spec => []Typed
  <1>1. Typed /\ [Next]_vars => Typed'
    <2> SUFFICES ASSUME Typed, [Next]_vars PROVE Typed'
      OBVIOUS
    <2>1. Types'
      BY StepTypes
    <2>2. Shape'
      <3>1. CASE UNCHANGED vars
        BY <3>1 DEF Typed, Shape, vars, WorkersIdle, Bindings
      <3> QED BY <3>1, HookShape, WorkerShape, GuestShape, SetterStepShape DEF Next
    <2> QED BY <2>1, <2>2 DEF Typed
  <1> QED BY InitTyped, <1>1, PTL DEF Spec

THEOREM ForwardsTypeOK == Spec => []TypeOK
  <1>1. Typed => TypeOK
    <2> SUFFICES ASSUME Typed PROVE TypeOK
      OBVIOUS
    <2>1. mark.pid \in Boot \cup {0}
      BY DEF Typed, Types, MarkType
    <2>2. guest.state \in {"down", "starting", "up", "stopping"}
      BY DEF Typed, Types, GuestType
    <2> QED BY <2>1, <2>2 DEF Typed, Types, Shape, TypeOK, Fwd, Rule
  <1> QED BY <1>1, ForwardsTyped, PTL


-------------------------------------------------------------------------------
(* A late worker.  A plain container's hook runs while its guest is        *)
(* starting; a worker it detaches is known by its pid from the moment the  *)
(* hook returns, so the post-stop hook kills it.                           *)

NoLate ==
  /\ host.static => WorkersIdle
  /\ host.kind = "lxc" =>
       /\ (hook.step # "none") <=> (guest.state = "starting")
       /\ \A b \in Boot : worker[b].step # "none" =>
            /\ b = guest.boot
            /\ \/ /\ guest.state = "starting" /\ hook.step = "pid"
                  /\ worker[b].step \in {"enter", "poll"}
               \/ mark.pid = b /\ (Running \/ post \in {"cancel", "kill"})

\* What one step of a worker does to it.
LEMMA WorkerMoves ==
  ASSUME Typed, NEW b \in Boot, WorkerNext(b)
  PROVE  /\ \A c \in Boot \ {b} : worker'[c] = worker[c]
         /\ worker[b].step # "none"
         /\ worker[b].step \in {"enter", "poll"} =>
              \/ worker'[b].step \in {"none", "poll"}
              \/ worker[b].step = "poll" /\ HasAddress
         /\ mark'.pid = mark.pid
         /\ UNCHANGED <<host, guest, hook, post>>
  <1> USE NoneTyped DEF WorkerEnds, WorkerGoes
  <1>0. mark \in MarkType /\ worker \in [Boot -> WorkerType]
    BY DEF Typed, Types
  <1>1. CASE WorkerEnter(b)
    BY <1>0, <1>1 DEF WorkerEnter, WorkerType
  <1>2. CASE WorkerPoll(b)
    BY <1>0, <1>2 DEF WorkerPoll, WorkerType, MarkType
  <1>3. CASE WorkerCheck(b)
    BY <1>0, <1>3 DEF WorkerCheck
  <1>4. CASE WorkerMark(b)
    BY <1>0, <1>4 DEF WorkerMark, MarkType
  <1>5. CASE WorkerBackend(b)
    BY <1>0, <1>5 DEF WorkerBackend, MarkType
  <1>6. ASSUME NEW p \in Port, WorkerInstall(b, p)
        PROVE  /\ \A c \in Boot \ {b} : worker'[c] = worker[c]
               /\ worker[b].step = "install"
               /\ UNCHANGED <<host, guest, hook, post, mark>>
    BY <1>0, <1>6 DEF WorkerInstall
  <1> QED BY <1>1, <1>2, <1>3, <1>4, <1>5, <1>6 DEF WorkerNext

LEMMA NoLateStep == Typed /\ NoLate /\ [Next]_vars => NoLate'
  <1> SUFFICES ASSUME Typed, NoLate, [Next]_vars PROVE NoLate'
    OBVIOUS
  <1> USE DEF NoLate, WorkersIdle, Running
  <1>0. /\ guest \in GuestType /\ mark \in MarkType /\ hook \in HookType
        /\ worker \in [Boot -> WorkerType]
        /\ guest.state = "starting" => hook.step # "none"
        /\ (post # "none") <=> (guest.state = "stopping")
    BY DEF Typed, Types, Shape
  <1> USE NoneTyped
  <1>1. CASE UNCHANGED vars
    BY <1>1 DEF vars
  <1>2. CASE HookNext \/ HookFault
    <2> USE DEF HookReturns, GuestType, MarkType, HookType
    <2>1. CASE HookNothing
      BY <1>0, <2>1 DEF HookNothing
    <2>2. CASE HookSkip
      BY <1>0, <2>2 DEF HookSkip
    <2>3. CASE HookNoBackend
      BY <1>0, <2>3 DEF HookNoBackend
    <2>4. CASE HookStatic
      BY <1>0, <2>4 DEF HookStatic
    <2>5. CASE HookDetach
      BY <1>0, <2>5 DEF HookDetach
    <2>6. CASE HookPid
      BY <1>0, <2>6 DEF HookPid
    <2>7. CASE HookBackend
      BY <1>0, <2>7 DEF HookBackend
    <2>8. ASSUME NEW p \in Port, HookInstall(p) PROVE NoLate'
      BY <1>0, <2>8 DEF HookInstall
    <2>9. ASSUME NEW p \in Port, HookFails(p) PROVE NoLate'
      BY <1>0, <2>9 DEF HookFails
    <2> QED BY <1>2, <2>1, <2>2, <2>3, <2>4, <2>5, <2>6, <2>7, <2>8, <2>9
            DEF HookNext, HookFault
  <1>3. ASSUME NEW b \in Boot, WorkerNext(b) PROVE NoLate'
    BY <1>3, WorkerMoves DEF HasAddress
  <1>4. CASE Start
    BY <1>0, <1>4 DEF Start, GuestType, HookType
  <1>5. CASE Stop
    BY <1>0, <1>5 DEF Stop, GuestType
  <1>6. CASE PostNext
    <2>1. CASE PostCancel
      BY <1>0, <2>1 DEF PostCancel, MarkType
    <2>2. CASE PostKill
      <3>1. guest.state = "stopping" /\ UNCHANGED <<host, guest, hook, mark>>
        BY <1>0, <2>2 DEF PostKill
      <3>2. \A b \in Boot : worker'[b].step # "none" =>
              worker[b].step # "none" /\ mark.pid # b
        <4>1. mark.pid \in Boot \cup {0}
          BY <1>0 DEF MarkType
        <4>2. CASE mark.pid = 0
          BY <2>2, <4>2, NoBootZero DEF PostKill
        <4>3. CASE mark.pid \in Boot
          BY <1>0, <2>2, <4>3, NoBootZero DEF PostKill
        <4> QED BY <4>1, <4>2, <4>3
      <3> QED BY <1>0, <3>1, <3>2
    <2>3. CASE PostTeardown
      BY <1>0, <2>3 DEF PostTeardown
    <2>4. CASE PostClean
      BY <1>0, <2>4 DEF PostClean, GuestType
    <2> QED BY <1>6, <2>1, <2>2, <2>3, <2>4 DEF PostNext
  <1>7. CASE Lease
    BY <1>0, <1>7 DEF Lease, GuestType
  <1>8. CASE HostCrash
    BY <1>0, <1>8 DEF HostCrash, GuestType
  <1>9. CASE Refresh \/ (\E f \in Wants : SetCli(f) \/ SetBegin(f))
             \/ SetterNext \/ SetKilled
    <2>1. UNCHANGED <<host, guest, hook, post, worker, mark>>
      BY <1>9 DEF Refresh, SetCli, SetBegin, SetterNext, SetProbe, SetNotReady,
                  SetRemove, SetAdd, SetPersist, SetUndo, SetRaise, SetKilled
    <2> QED BY <2>1
  <1> QED BY <1>1, <1>2, <1>3, <1>4, <1>5, <1>6, <1>7, <1>8, <1>9 DEF Next

\* A worker of a plain container installs nothing once its guest's post-stop
\* hook has gone past the kill: NoLateWorker, for every step of every run.
THEOREM NoWorkerIsLate == Spec => NoLateWorker
  <1>1. Init => NoLate
    BY NoneTyped DEF Init, NoLate, WorkersIdle
  <1>2. Spec => []NoLate
    BY <1>1, NoLateStep, ForwardsTyped, PTL DEF Spec
  <1>3. Typed /\ NoLate /\ [Next]_vars =>
          [\A b \in Boot, p \in Port :
             WorkerInstall(b, p) /\ host.kind = "lxc"
               => Running \/ post \in {"cancel", "kill"}]_vars
    BY DEF NoLate, WorkerInstall
  <1> QED BY <1>2, <1>3, ForwardsTyped, PTL DEF Spec, NoLateWorker


-------------------------------------------------------------------------------
(* What a stop leaves behind.  On a boot that nothing has disturbed one    *)
(* worker is at work at most, the one whose pid the hook has noted; a live *)
(* set finds it done, and what it remembers is what kento-port lists.      *)

Awake == guest.state \in {"starting", "up"}

OneWorker ==
  /\ \A b \in Boot : worker[b].step # "none" =>
       b = guest.boot /\ (hook.step = "none" => mark.pid = b)
  /\ hook.step \in {"begin", "install"} => WorkersIdle
  /\ post \in {"teardown", "clean"} \/ guest.state = "down" => WorkersIdle
  /\ Awake \/ hook.step = "none"

MarksTrue ==
  /\ Awake => ~mark.cancel
  /\ hook.step = "begin" => ~mark.active
  /\ Awake => \A b \in Boot :
       worker[b].step \in {"enter", "poll", "check", "mark"} => ~mark.active

SetAlone ==
  /\ setter.step \in {"live", "undo"} =>
       Running /\ cache = conf /\ hook.step = "none" /\ WorkersIdle
  /\ setter.step = "persist" => guest.state \in {"down", "stopping"}

LeftBehind ==
  post = "clean" \/ guest.state = "down" => host.be = "iptables" \/ rules = {}

Steady == plain => OneWorker /\ MarksTrue /\ SetAlone /\ LeftBehind

LEMMA HookSteady ==
  ASSUME Typed, Steady, HookNext
  PROVE  Steady'
  <1> SUFFICES ASSUME plain'
               PROVE  (OneWorker /\ MarksTrue /\ SetAlone /\ LeftBehind)'
    BY DEF Steady
  <1>0. /\ guest \in GuestType /\ mark \in MarkType /\ hook \in HookType
        /\ worker \in [Boot -> WorkerType]
        /\ guest.state # "down" \/ hook.step # "none" => guest.boot \in Boot
        /\ (post # "none") <=> (guest.state = "stopping")
    BY DEF Typed, Types, Shape
  <1>1. UNCHANGED <<host, conf, post, cache, setter, plain>> /\ plain
    BY DEF HookNext, HookNothing, HookSkip, HookNoBackend, HookStatic, HookDetach,
           HookPid, HookBackend, HookInstall
  <1>2. OneWorker /\ MarksTrue /\ SetAlone /\ LeftBehind
    BY <1>1 DEF Steady
  <1>3. hook.step # "none" /\ Awake /\ guest.state # "down" /\ post = "none"
    BY <1>0, <1>2 DEF HookNext, HookNothing, HookSkip, HookNoBackend, HookStatic,
                HookDetach, HookPid, HookBackend, HookInstall, OneWorker, Awake
  <1>4. /\ guest'.state \in {"starting", "up"} /\ guest'.boot = guest.boot
        /\ guest.state = "up" => guest'.state = "up"
    BY <1>0, <1>3 DEF HookNext, HookNothing, HookSkip, HookNoBackend, HookStatic,
                HookDetach, HookPid, HookBackend, HookInstall, HookReturns,
                GuestType, Awake
  <1>5. SetAlone'
    BY <1>1, <1>2, <1>3, <1>4 DEF SetAlone, Awake
  <1>6. LeftBehind'
    BY <1>1, <1>3, <1>4 DEF LeftBehind
  <1> USE NoneTyped DEF OneWorker, MarksTrue, WorkersIdle, HookReturns, Awake
  <1>7. CASE HookNothing
    BY <1>0, <1>1, <1>2, <1>3, <1>4, <1>5, <1>6, <1>7 DEF HookNothing
  <1>8. CASE HookSkip
    BY <1>0, <1>1, <1>2, <1>3, <1>4, <1>5, <1>6, <1>8 DEF HookSkip
  <1>9. CASE HookNoBackend
    BY <1>0, <1>1, <1>2, <1>3, <1>4, <1>5, <1>6, <1>9 DEF HookNoBackend, MarkType
  <1>10. CASE HookStatic
    BY <1>0, <1>1, <1>2, <1>3, <1>4, <1>5, <1>6, <1>10 DEF HookStatic, MarkType
  <1>11. CASE HookDetach
    BY <1>0, <1>1, <1>2, <1>3, <1>4, <1>5, <1>6, <1>11
    DEF HookDetach, MarkType, HookType
  <1>12. CASE HookPid
    BY <1>0, <1>1, <1>2, <1>3, <1>4, <1>5, <1>6, <1>12 DEF HookPid, MarkType
  <1>13. CASE HookBackend
    BY <1>0, <1>1, <1>2, <1>3, <1>4, <1>5, <1>6, <1>13 DEF HookBackend, MarkType
  <1>14. ASSUME NEW p \in Port, HookInstall(p)
         PROVE  OneWorker' /\ MarksTrue'
    BY <1>0, <1>1, <1>2, <1>3, <1>4, <1>14 DEF HookInstall, HookType
  <1> QED BY <1>5, <1>6, <1>7, <1>8, <1>9, <1>10, <1>11, <1>12, <1>13, <1>14
          DEF HookNext

LEMMA WorkerSteady ==
  ASSUME Typed, Steady, NEW b \in Boot, WorkerNext(b)
  PROVE  Steady'
  <1> SUFFICES ASSUME plain'
               PROVE  (OneWorker /\ MarksTrue /\ SetAlone /\ LeftBehind)'
    BY DEF Steady
  <1>0. mark \in MarkType /\ worker \in [Boot -> WorkerType]
    BY DEF Typed, Types
  <1>1. plain /\ UNCHANGED <<conf, cache, setter>>
    BY DEF WorkerNext, WorkerEnter, WorkerPoll, WorkerCheck, WorkerMark,
           WorkerBackend, WorkerInstall, Disturbed
  <1>2. OneWorker /\ MarksTrue /\ SetAlone /\ LeftBehind
    BY <1>1 DEF Steady
  <1>3. /\ \A c \in Boot \ {b} : worker'[c] = worker[c]
        /\ worker[b].step # "none" /\ mark'.pid = mark.pid
        /\ UNCHANGED <<host, guest, hook, post>>
    BY WorkerMoves
  <1>4. OneWorker'
    BY <1>2, <1>3 DEF OneWorker, WorkersIdle, Awake
  <1>5. SetAlone' /\ LeftBehind'
    BY <1>1, <1>2, <1>3 DEF SetAlone, LeftBehind, OneWorker, WorkersIdle, Running
  <1>6. /\ mark'.cancel = mark.cancel
        /\ \/ mark'.active = mark.active
           \/ worker'[b].step = "install" /\ worker[b].step = "mark"
        /\ worker'[b].step \in {"enter", "poll", "check", "mark"} =>
             worker[b].step \in {"enter", "poll", "check", "mark"}
    <2> USE NoneTyped DEF WorkerEnds, WorkerGoes
    <2>1. CASE WorkerEnter(b)
      BY <1>0, <2>1 DEF WorkerEnter
    <2>2. CASE WorkerPoll(b)
      BY <1>0, <2>2 DEF WorkerPoll, MarkType
    <2>3. CASE WorkerCheck(b)
      BY <1>0, <2>3 DEF WorkerCheck
    <2>4. CASE WorkerMark(b)
      BY <1>0, <2>4 DEF WorkerMark, MarkType, WorkerType
    <2>5. CASE WorkerBackend(b)
      BY <1>0, <2>5 DEF WorkerBackend, MarkType
    <2>6. ASSUME NEW p \in Port, WorkerInstall(b, p)
          PROVE  worker'[b].step = worker[b].step /\ mark' = mark
                   /\ worker[b].step = "install"
      BY <1>0, <2>6 DEF WorkerInstall, WorkerType
    <2> QED BY <2>1, <2>2, <2>3, <2>4, <2>5, <2>6 DEF WorkerNext
  <1>7. MarksTrue'
    <2>1. \A c \in Boot : worker[c].step # "none" => c = b
      BY <1>2, <1>3 DEF OneWorker
    <2>2. hook.step = "begin" => WorkersIdle
      BY <1>2 DEF OneWorker
    <2> QED BY <1>2, <1>3, <1>6, <2>1, <2>2 DEF MarksTrue, Awake, WorkersIdle
  <1> QED BY <1>4, <1>5, <1>7


LEMMA GuestSteady ==
  ASSUME Typed, Steady, Start \/ Stop \/ PostNext \/ Lease \/ HostCrash
  PROVE  Steady'
  <1> SUFFICES ASSUME plain'
               PROVE  (OneWorker /\ MarksTrue /\ SetAlone /\ LeftBehind)'
    BY DEF Steady
  <1>0. /\ guest \in GuestType /\ mark \in MarkType /\ hook \in HookType
        /\ worker \in [Boot -> WorkerType]
        /\ (post # "none") <=> (guest.state = "stopping")
    BY DEF Typed, Types, Shape
  <1> USE NoneTyped DEF OneWorker, MarksTrue, SetAlone, LeftBehind, WorkersIdle,
                        Awake, Running
  <1>1. CASE Start
    <2>1. /\ rules = {} /\ [mark EXCEPT !.error = FALSE] = NoMark
          /\ WorkersIdle /\ setter.step = "none" /\ UNCHANGED <<mark, worker, setter>>
          /\ guest'.state \in {"starting", "up"} /\ post' = "none"
      BY <1>0, <1>1 DEF Start, GuestType
    <2>2. ~mark.active /\ ~mark.cancel
      <3>1. [mark EXCEPT !.error = FALSE].active = mark.active
              /\ [mark EXCEPT !.error = FALSE].cancel = mark.cancel
        BY <1>0 DEF MarkType
      <3> QED BY <2>1, <3>1 DEF NoMark
    <2> QED BY <2>1, <2>2
  <1>2. CASE Stop
    <2>1. /\ plain /\ hook.step = "none" /\ setter.step = "none"
          /\ UNCHANGED <<host, conf, mark, hook, worker, cache, setter>>
      BY <1>2 DEF Stop
    <2>2. guest'.boot = guest.boot /\ guest'.state \in {"down", "stopping"}
      BY <1>0, <1>2 DEF Stop, GuestType
    <2>3. guest'.state = "down" => WorkersIdle /\ rules' = {}
      BY <1>0, <1>2 DEF Stop, GuestType, Typed, Shape
    <2>4. post' \notin {"teardown", "clean"}
      BY <1>0, <1>2 DEF Stop
    <2> QED BY <2>1, <2>2, <2>3, <2>4 DEF Steady
  <1>3. CASE PostCancel
    BY <1>0, <1>3 DEF PostCancel, MarkType, Steady
  <1>4. CASE PostKill
    <2>1. /\ plain /\ guest.state = "stopping"
          /\ UNCHANGED <<host, rules, conf, mark, guest, hook, cache, setter>>
      BY <1>0, <1>4 DEF PostKill
    <2>2. \A b \in Boot : worker[b].step # "none" => mark.pid = b
      BY <2>1 DEF Steady
    <2>3. \A b \in Boot : worker'[b].step = "none"
      BY <1>0, <1>4, <2>2, NoBootZero DEF PostKill
    <2> QED BY <1>4, <2>1, <2>3 DEF Steady, PostKill
  <1>5. CASE PostTeardown
    <2>1. /\ plain /\ guest.state = "stopping"
          /\ UNCHANGED <<host, conf, mark, guest, hook, worker, cache, setter>>
      BY <1>0, <1>5 DEF PostTeardown
    <2>2. rules' = {} \/ host.be = "iptables"
      <3>1. host.be = "none" => rules = {}
        BY <1>5 DEF Typed, Shape, PostTeardown
      <3>2. TeardownBackend \in {"nft", host.be}
        BY DEF Typed, Shape, TeardownBackend
      <3>3. mark.backend # "" => TeardownBackend = host.be
        BY DEF Typed, Shape, TeardownBackend
      <3>4. mark.backend = "" => TeardownBackend = "nft"
        BY DEF TeardownBackend
      <3> QED BY <1>5, <3>1, <3>3, <3>4, HostsTyped DEF PostTeardown, Typed
    <2> QED BY <1>5, <2>1, <2>2 DEF Steady, PostTeardown
  <1>6. CASE PostClean
    <2>1. plain /\ guest.state = "stopping" /\ post' = "none"
          /\ UNCHANGED <<host, conf, rules, hook, worker, cache, setter>>
      BY <1>0, <1>6 DEF PostClean
    <2>2. guest'.state = "down"
      BY <1>0, <1>6 DEF PostClean, GuestType
    <2>3. WorkersIdle /\ LeftBehind /\ post = "clean" /\ SetAlone /\ OneWorker
      BY <1>6, <2>1 DEF Steady, PostClean
    <2> QED BY <2>1, <2>2, <2>3
  <1>7. CASE Lease
    BY <1>0, <1>7 DEF Lease, GuestType, Steady
  <1>8. CASE HostCrash
    BY <1>8 DEF HostCrash, Disturbed
  <1> QED BY <1>1, <1>2, <1>3, <1>4, <1>5, <1>6, <1>7, <1>8 DEF PostNext

LEMMA SetterSteady ==
  ASSUME Typed, Steady,
         Refresh \/ (\E f \in Wants : SetCli(f) \/ SetBegin(f)) \/ SetterNext
           \/ SetKilled
  PROVE  Steady'
  <1> SUFFICES ASSUME plain'
               PROVE  (OneWorker /\ MarksTrue /\ SetAlone /\ LeftBehind)'
    BY DEF Steady
  <1>0. setter \in SetterType /\ guest \in GuestType
    BY DEF Typed, Types
  <1>1. plain /\ UNCHANGED <<host, mark, guest, hook, post, worker>>
    BY DEF Refresh, SetCli, SetBegin, SetterNext, SetProbe, SetNotReady, SetRemove,
           SetAdd, SetPersist, SetUndo, SetRaise, SetKilled, Disturbed
  <1>2. OneWorker /\ MarksTrue /\ SetAlone /\ LeftBehind
    BY <1>1 DEF Steady
  <1>3. OneWorker' /\ MarksTrue'
    BY <1>1, <1>2 DEF OneWorker, MarksTrue, Awake, WorkersIdle
  <1> USE NoneTyped DEF SetAlone, LeftBehind, WorkersIdle, Running
  <1>4. ASSUME SetFails PROVE setter'.step = "undo"
    BY <1>0, <1>4 DEF SetFails, SetterType
  <1>5. CASE Refresh
    BY <1>1, <1>2, <1>3, <1>5 DEF Refresh
  <1>6. ASSUME NEW f \in Wants, SetCli(f) PROVE (SetAlone /\ LeftBehind)'
    BY <1>1, <1>2, <1>6 DEF SetCli
  <1>7. ASSUME NEW f \in Wants, SetBegin(f) PROVE (SetAlone /\ LeftBehind)'
    <2>1. setter'.step = "probe"
      BY <1>7 DEF SetBegin, NoSetter
    <2> QED BY <1>1, <1>2, <1>7, <2>1 DEF SetBegin
  <1>8. CASE SetProbe
    <2>1. CASE Running
      BY <1>0, <1>1, <1>2, <1>3, <1>8, <2>1 DEF SetProbe, SetterType
    <2>2. CASE ~Running
      BY <1>0, <1>1, <1>2, <1>3, <1>8, <2>2 DEF SetProbe, SetterType
    <2> QED BY <2>1, <2>2
  <1>9. CASE SetNotReady
    BY <1>1, <1>2, <1>3, <1>4, <1>9 DEF SetNotReady
  <1>10. ASSUME NEW p \in Port, SetRemove(p) PROVE (SetAlone /\ LeftBehind)'
    <2>1. setter.step = "live" /\ setter'.step \in {"live", "undo"}
      <3>1. \A u : [Done(u) EXCEPT !.remove = @ \ {p}].step = setter.step
        BY <1>0 DEF Done, SetterType
      <3> QED BY <1>4, <1>10, <3>1 DEF SetRemove
    <2>2. conf' = conf /\ cache' = cache
      BY <1>10 DEF SetRemove
    <2> QED BY <1>0, <1>1, <1>2, <2>1, <2>2 DEF Typed, Shape
  <1>11. ASSUME NEW p \in Port, SetAdd(p) PROVE (SetAlone /\ LeftBehind)'
    <2>1. setter.step = "live" /\ setter'.step \in {"live", "undo"}
      <3>1. \A u : [Done(u) EXCEPT !.add = @ \ {p}].step = setter.step
        BY <1>0 DEF Done, SetterType
      <3> QED BY <1>4, <1>11, <3>1 DEF SetAdd
    <2>2. conf' = conf /\ cache' = cache
      BY <1>11 DEF SetAdd
    <2> QED BY <1>0, <1>1, <1>2, <2>1, <2>2 DEF Typed, Shape
  <1>12. CASE SetPersist
    BY <1>1, <1>2, <1>3, <1>4, <1>12 DEF SetPersist
  <1>13. CASE SetUndo
    <2>1. setter.step = "undo" /\ setter'.step = "undo"
      BY <1>0, <1>13 DEF SetUndo, SetterType
    <2>2. conf' = conf /\ cache' = cache
      BY <1>13 DEF SetUndo
    <2> QED BY <1>0, <1>1, <1>2, <1>3, <2>1, <2>2 DEF Typed, Shape
  <1>14. CASE SetRaise
    BY <1>1, <1>2, <1>3, <1>14 DEF SetRaise
  <1>15. CASE SetKilled
    BY <1>1, <1>2, <1>3, <1>15 DEF SetKilled, Disturbed
  <1> QED BY <1>3, <1>5, <1>6, <1>7, <1>8, <1>9, <1>10, <1>11, <1>12, <1>13,
             <1>14, <1>15 DEF SetterNext

LEMMA SteadyStep == Typed /\ Steady /\ [Next]_vars => Steady'
  <1> SUFFICES ASSUME Typed, Steady, [Next]_vars PROVE Steady'
    OBVIOUS
  <1>1. CASE UNCHANGED vars
    BY <1>1 DEF vars, Steady, OneWorker, MarksTrue, SetAlone, LeftBehind,
                WorkersIdle, Awake, Running
  <1>2. CASE HookFault
    BY <1>2 DEF HookFault, HookFails, Disturbed, Steady
  <1> QED BY <1>1, <1>2, HookSteady, WorkerSteady, GuestSteady, SetterSteady DEF Next

THEOREM AlwaysSteady == Spec => []Steady
  <1>1. Init => Steady
    <2> SUFFICES ASSUME Init PROVE Steady
      OBVIOUS
    <2>1. /\ guest.state = "down" /\ hook.step = "none" /\ setter.step = "none"
          /\ rules = {} /\ post = "none" /\ \A b \in Boot : worker[b].step = "none"
      BY NoneTyped DEF Init
    <2> QED BY <2>1 DEF Steady, OneWorker, MarksTrue, SetAlone, LeftBehind,
                        WorkersIdle, Awake
  <1> QED BY <1>1, SteadyStep, ForwardsTyped, PTL DEF Spec

\* Once an undisturbed boot is over, no rule and no worker of the guest is left.
THEOREM NothingLeftBehind == Spec => []TeardownComplete
  <1>1. Steady => TeardownComplete
    BY DEF Steady, OneWorker, LeftBehind, TeardownComplete
  <1> QED BY <1>1, AlwaysSteady, PTL


-------------------------------------------------------------------------------
(* The rules of a set of forwards, and what one more forward, or one fewer, *)
(* makes of them.                                                          *)

LEMMA ForwardRules ==
  ASSUME NEW p \in Port, NEW t \in Target
  PROVE  /\ Forward(p, t, Parts) = {r \in Rule : r.port = p /\ r.to = t}
         /\ Forward(p, t, 0) = {}
  <1>1. Forward(p, t, Parts) = {r \in Rule : r.port = p /\ r.to = t}
    BY DEF Forward, Rule
  <1>2. Forward(p, t, 0) = {}
    BY DEF Forward
  <1> QED BY <1>1, <1>2

LEMMA FullRules ==
  ASSUME NEW f \in Fwd
  PROVE  Full(f) = {r \in Rule : r.to = f[r.port]}
  <1>1. ASSUME NEW r \in Full(f) PROVE r \in Rule /\ r.to = f[r.port]
    BY <1>1, FullTyped DEF Full, Forward, Bindings
  <1>2. ASSUME NEW r \in Rule, r.to = f[r.port] PROVE r \in Full(f)
    <2>1. r.port \in Port /\ r.to \in Target
      BY DEF Rule
    <2>2. r.port \in Bindings(f)
      BY <1>2, <2>1, ForwardsAssumption DEF Bindings
    <2>3. r \in Forward(r.port, r.to, Parts)
      BY <2>1, ForwardRules
    <2> QED BY <1>2, <2>2, <2>3 DEF Full
  <1> QED BY <1>1, <1>2

LEMMA FullAdd ==
  ASSUME NEW f \in Fwd, NEW p \in Port, NEW t \in Target, f[p] \in {NoTarget, t}
  PROVE  /\ [f EXCEPT ![p] = t] \in Fwd
         /\ Full([f EXCEPT ![p] = t]) = Full(f) \cup Forward(p, t, Parts)
  <1> DEFINE g == [f EXCEPT ![p] = t]
  <1>1. g \in Fwd
    BY DEF Fwd
  <1>2. \A q \in Port : g[q] = IF q = p THEN t ELSE f[q]
    BY DEF Fwd
  <1>3. \A r \in Rule : r.port \in Port /\ r.to # NoTarget
    BY ForwardsAssumption DEF Rule
  <1> HIDE DEF g
  <1>4. Full(g) = Full(f) \cup Forward(p, t, Parts)
    BY <1>1, <1>2, <1>3, FullRules, ForwardRules
  <1> QED BY <1>1, <1>4 DEF g

LEMMA FullRemove ==
  ASSUME NEW f \in Fwd, NEW p \in Port
  PROVE  /\ [f EXCEPT ![p] = NoTarget] \in Fwd
         /\ Full([f EXCEPT ![p] = NoTarget]) = {r \in Full(f) : r.port # p}
  <1> DEFINE g == [f EXCEPT ![p] = NoTarget]
  <1>1. g \in Fwd
    BY DEF Fwd
  <1>2. \A q \in Port : g[q] = IF q = p THEN NoTarget ELSE f[q]
    BY DEF Fwd
  <1>3. \A r \in Rule : r.port \in Port /\ r.to # NoTarget
    BY ForwardsAssumption DEF Rule
  <1> HIDE DEF g
  <1>4. Full(g) = {r \in Full(f) : r.port # p}
    BY <1>1, <1>2, <1>3, FullRules
  <1> QED BY <1>1, <1>4 DEF g

LEMMA FullEmpty == Full(Empty) = {}
  BY DEF Full, Bindings, Empty

\* Two sets of forwards that agree on every binding are the same.
LEMMA SameForwards ==
  ASSUME NEW f \in Fwd, NEW g \in Fwd, \A p \in Port : f[p] = g[p]
  PROVE  f = g
  BY DEF Fwd

-------------------------------------------------------------------------------
(* The undo list of a live set.  Removals come first, so that whatever is  *)
(* noted before an "add" is an "add" too, of another binding.              *)

Noted(s, o) == {p \in Port : \E i \in 1 .. Len(s) : s[i].op = o /\ s[i].port = p}

AddsFirst(s) ==
  \A i, j \in 1 .. Len(s) : i < j /\ s[i].op = "add" =>
    s[j].op = "add" /\ s[j].port # s[i].port

Restores(s, f) == \A i \in 1 .. Len(s) : s[i].op = "add" => s[i].to = f[s[i].port]

LEMMA UndoEmpty ==
  /\ \A o : Noted(<<>>, o) = {}
  /\ AddsFirst(<<>>)
  /\ \A f : Restores(<<>>, f)
  BY DEF Noted, AddsFirst, Restores

\* A list with head u and rest s, however it came about.
LEMMA UndoSplit ==
  ASSUME NEW s \in Seq(Op), NEW u \in Op, NEW l \in Seq(Op), NEW f,
         Len(l) = Len(s) + 1, l[1] = u, \A i \in 1 .. Len(s) : l[i + 1] = s[i]
  PROVE  /\ \A o : Noted(l, o) = Noted(s, o) \cup
                     (IF u.op = o THEN {u.port} ELSE {})
         /\ AddsFirst(l) <=>
              /\ AddsFirst(s)
              /\ u.op = "add" => Noted(s, "remove") = {}
                                 /\ u.port \notin Noted(s, "add")
         /\ Restores(l, f) <=>
              Restores(s, f) /\ (u.op = "add" => u.to = f[u.port])
  <1>0. /\ Len(s) \in Nat /\ Len(l) \in Nat
        /\ u.port \in Port
        /\ \A i \in 1 .. Len(s) : s[i].port \in Port /\ s[i].op \in {"add", "remove"}
    <2>1. \A i \in 1 .. Len(s) : s[i] \in Op
      OBVIOUS
    <2>2. \A x \in Op : x.port \in Port /\ x.op \in {"add", "remove"}
      BY DEF Op
    <2>3. Len(s) \in Nat /\ Len(l) \in Nat
      OBVIOUS
    <2> QED BY <2>1, <2>2, <2>3
  <1>1. \A i \in 1 .. Len(l) : i = 1 \/ (i - 1 \in 1 .. Len(s) /\ l[i] = s[i - 1])
    <2> TAKE i \in 1 .. Len(l)
    <2>1. CASE i # 1
      <3>1. i - 1 \in 1 .. Len(s) /\ (i - 1) + 1 = i
        BY <1>0, <2>1
      <3> QED BY <3>1
    <2> QED BY <2>1
  <1>2. \A i \in 1 .. Len(s) : i + 1 \in 1 .. Len(l) /\ 1 \in 1 .. Len(l)
    BY <1>0
  <1>3. 1 \in 1 .. Len(l)
    BY <1>0
  <1>4. \A o : Noted(l, o) = Noted(s, o) \cup (IF u.op = o THEN {u.port} ELSE {})
    <2> TAKE o
    <2>1. ASSUME NEW p \in Noted(l, o)
          PROVE  p \in Noted(s, o) \/ (u.op = o /\ p = u.port)
      <3>1. PICK i \in 1 .. Len(l) : l[i].op = o /\ l[i].port = p
        BY <2>1 DEF Noted
      <3> QED BY <1>1, <3>1, <2>1 DEF Noted
    <2>2. ASSUME NEW p \in Noted(s, o) PROVE p \in Noted(l, o)
      <3>1. PICK i \in 1 .. Len(s) : s[i].op = o /\ s[i].port = p
        BY <2>2 DEF Noted
      <3> QED BY <1>2, <3>1, <2>2 DEF Noted
    <2>3. u.op = o => u.port \in Noted(l, o)
      BY <1>0, <1>3 DEF Noted
    <2> QED BY <2>1, <2>2, <2>3
  <1>5. AddsFirst(l) =>
              /\ AddsFirst(s)
              /\ u.op = "add" => Noted(s, "remove") = {}
                                 /\ u.port \notin Noted(s, "add")
    <2> SUFFICES ASSUME AddsFirst(l)
                 PROVE  /\ AddsFirst(s)
                        /\ u.op = "add" => Noted(s, "remove") = {}
                                           /\ u.port \notin Noted(s, "add")
      OBVIOUS
    <2>1. ASSUME NEW i \in 1 .. Len(s), NEW j \in 1 .. Len(s), i < j,
                 s[i].op = "add"
          PROVE  s[j].op = "add" /\ s[j].port # s[i].port
      <3>1. i + 1 < j + 1
        BY <1>0, <2>1
      <3> QED BY <1>2, <2>1, <3>1 DEF AddsFirst
    <2>2. ASSUME NEW j \in 1 .. Len(s), u.op = "add"
          PROVE  s[j].op = "add" /\ s[j].port # u.port
      <3>1. 1 < j + 1
        BY <1>0
      <3> QED BY <1>2, <2>2, <3>1 DEF AddsFirst
    <2> QED BY <2>1, <2>2 DEF AddsFirst, Noted
  <1>6. ASSUME AddsFirst(s),
               u.op = "add" => Noted(s, "remove") = {}
                               /\ u.port \notin Noted(s, "add")
        PROVE  AddsFirst(l)
    <2> SUFFICES ASSUME NEW i \in 1 .. Len(l), NEW j \in 1 .. Len(l), i < j,
                        l[i].op = "add"
                 PROVE  l[j].op = "add" /\ l[j].port # l[i].port
      BY DEF AddsFirst
    <2>1. j # 1 /\ j - 1 \in 1 .. Len(s) /\ l[j] = s[j - 1]
      BY <1>1
    <2>2. CASE i = 1
      <3>1. s[j - 1].op \in {"add", "remove"} /\ s[j - 1].port \in Port
        BY <1>0, <2>1
      <3> QED BY <1>6, <2>1, <2>2, <3>1 DEF Noted
    <2>3. CASE i # 1
      <3>1. i - 1 \in 1 .. Len(s) /\ l[i] = s[i - 1] /\ i - 1 < j - 1
        BY <1>1, <2>3
      <3>2. s[i - 1].op = "add"
        BY <3>1
      <3> HIDE DEF AddsFirst
      <3>3. s[j - 1].op = "add" /\ s[j - 1].port # s[i - 1].port
        BY <1>6, <2>1, <3>1, <3>2 DEF AddsFirst
      <3> QED BY <2>1, <3>1, <3>3
    <2> QED BY <2>2, <2>3
  <1>7. Restores(l, f) <=>
          Restores(s, f) /\ (u.op = "add" => u.to = f[u.port])
    <2>1. ASSUME Restores(l, f)
          PROVE  Restores(s, f) /\ (u.op = "add" => u.to = f[u.port])
      BY <1>2, <1>3, <2>1 DEF Restores
    <2>2. ASSUME Restores(s, f), u.op = "add" => u.to = f[u.port]
          PROVE  Restores(l, f)
      BY <1>1, <2>2 DEF Restores
    <2> QED BY <2>1, <2>2
  <1> QED BY <1>4, <1>5, <1>6, <1>7


-------------------------------------------------------------------------------
(* Whatever a live set has done, its undo list takes back: from the        *)
(* forwards it has come to, removing every binding it added and putting    *)
(* back every one it removed gives what the handle remembers.              *)

Added == Noted(setter.undo, "remove")
Removed == Noted(setter.undo, "add")

ListTrue ==
  /\ setter.step \in {"none", "probe", "persist"} => setter.undo = <<>>
  /\ AddsFirst(setter.undo)
  /\ Restores(setter.undo, cache)
  /\ \A p \in Added \ Removed : cache[p] = NoTarget

PlanTrue ==
  setter.step = "live" =>
    /\ setter.remove # {} => Added = {}
    /\ \A p \in setter.remove :
         p \notin Removed /\ (p \in setter.add \/ setter.want[p] = NoTarget)
    /\ \A p \in setter.add :
         p \in setter.remove \/ p \in Removed \/ cache[p] = NoTarget

UndoTrue == ListTrue /\ PlanTrue

\* One operation is done, and its inverse is noted.
LEMMA UndoGrows ==
  ASSUME setter \in SetterType, NEW u \in Op, NEW f
  PROVE  LET l == Done(u).undo
         IN /\ \A o : Noted(l, o) = Noted(setter.undo, o) \cup
                        (IF u.op = o THEN {u.port} ELSE {})
            /\ AddsFirst(l) <=>
                 /\ AddsFirst(setter.undo)
                 /\ u.op = "add" => Added = {} /\ u.port \notin Removed
            /\ Restores(l, f) <=>
                 Restores(setter.undo, f) /\ (u.op = "add" => u.to = f[u.port])
  <1> DEFINE s == setter.undo  l == <<u>> \o s
  <1>1. s \in Seq(Op)
    BY DEF SetterType
  <1>2. /\ l \in Seq(Op) /\ Len(l) = Len(s) + 1 /\ l[1] = u
        /\ \A i \in 1 .. Len(s) : l[i + 1] = s[i]
    BY <1>1, UndoNoted
  <1>3. Done(u).undo = l
    BY DEF Done, SetterType
  <1> HIDE DEF l
  <1>4. /\ \A o : Noted(l, o) = Noted(s, o) \cup
                     (IF u.op = o THEN {u.port} ELSE {})
        /\ AddsFirst(l) <=>
              /\ AddsFirst(s)
              /\ u.op = "add" => Noted(s, "remove") = {}
                                 /\ u.port \notin Noted(s, "add")
        /\ Restores(l, f) <=>
              Restores(s, f) /\ (u.op = "add" => u.to = f[u.port])
    BY <1>1, <1>2, UndoSplit
  <1> QED BY <1>3, <1>4 DEF Added, Removed

\* One inverse is taken off the list.
LEMMA UndoShrinks ==
  ASSUME setter \in SetterType, setter.undo # <<>>, NEW f
  PROVE  LET l == setter.undo
             u == InReverse(l).next
             s == InReverse(l).rest
         IN /\ u \in Op /\ s \in Seq(Op)
            /\ \A o : Noted(l, o) = Noted(s, o) \cup
                        (IF u.op = o THEN {u.port} ELSE {})
            /\ AddsFirst(l) <=>
                 /\ AddsFirst(s)
                 /\ u.op = "add" => Noted(s, "remove") = {}
                                    /\ u.port \notin Noted(s, "add")
            /\ Restores(l, f) <=>
                 Restores(s, f) /\ (u.op = "add" => u.to = f[u.port])
  <1> DEFINE l == setter.undo  u == InReverse(l).next  s == InReverse(l).rest
  <1>1. l \in Seq(Op)
    BY DEF SetterType
  <1>2. /\ u = l[1] /\ u \in Op /\ s \in Seq(Op) /\ Len(l) \in Nat \ {0}
        /\ Len(s) = Len(l) - 1
        /\ \A i \in 1 .. Len(l) - 1 : s[i] = l[i + 1]
    BY <1>1, UndoTaken
  <1> HIDE DEF l, u, s
  <1>3. Len(l) = Len(s) + 1
    BY <1>2
  <1>4. \A i \in 1 .. Len(s) : l[i + 1] = s[i]
    BY <1>2
  <1>5. /\ \A o : Noted(l, o) = Noted(s, o) \cup
                     (IF u.op = o THEN {u.port} ELSE {})
        /\ AddsFirst(l) <=>
              /\ AddsFirst(s)
              /\ u.op = "add" => Noted(s, "remove") = {}
                                 /\ u.port \notin Noted(s, "add")
        /\ Restores(l, f) <=>
              Restores(s, f) /\ (u.op = "add" => u.to = f[u.port])
    BY <1>1, <1>2, <1>3, <1>4, UndoSplit
  <1> QED BY <1>2, <1>5 DEF l, u, s

LEMMA UndoStep == Typed /\ UndoTrue /\ [Next]_vars => UndoTrue'
  <1> SUFFICES ASSUME Typed, UndoTrue, [Next]_vars PROVE UndoTrue'
    OBVIOUS
  <1>0. /\ setter \in SetterType /\ cache \in Fwd /\ Added \subseteq Port
        /\ setter.remove \subseteq Bindings(cache)
        /\ setter.add \subseteq Bindings(setter.want)
    BY DEF Typed, Types, Shape, Added, Noted
  <1> USE DEF UndoTrue, ListTrue, PlanTrue, Added, Removed
  <1>1. ASSUME setter' = NoSetter PROVE UndoTrue'
    <2>1. setter'.undo = <<>> /\ setter'.step = "none"
      BY <1>1 DEF NoSetter
    <2> QED BY <2>1, UndoEmpty
  <1>2. ASSUME UNCHANGED <<setter, cache>> PROVE UndoTrue'
    BY <1>2
  <1>3. ASSUME SetFails, setter.step = "live", cache' = cache PROVE UndoTrue'
    <2>1. setter'.step = "undo" /\ setter'.undo = setter.undo
      BY <1>0, <1>3 DEF SetFails, SetterType
    <2> QED BY <1>3, <2>1
  <1>4. CASE UNCHANGED vars
    BY <1>2, <1>4 DEF vars
  <1>5. CASE HookNext \/ HookFault \/ (\E b \in Boot : WorkerNext(b)) \/ Start
             \/ Stop \/ PostNext \/ Lease \/ \E f \in Wants : SetCli(f)
    <2>1. UNCHANGED <<setter, cache>>
      BY <1>5
      DEF HookNext, HookNothing, HookSkip, HookNoBackend, HookStatic, HookDetach,
          HookPid, HookBackend, HookInstall, HookFault, HookFails, WorkerNext,
          WorkerEnter, WorkerPoll, WorkerCheck, WorkerMark, WorkerBackend,
          WorkerInstall, Start, Stop, PostNext, PostCancel, PostKill,
          PostTeardown, PostClean, Lease, SetCli
    <2> QED BY <1>2, <2>1
  <1>6. CASE HostCrash \/ SetKilled \/ SetRaise
    BY <1>1, <1>6 DEF HostCrash, SetKilled, SetRaise
  <1>7. CASE Refresh
    <2>1. setter.undo = <<>> /\ setter'.undo = <<>> /\ setter'.step = "none"
      BY <1>7 DEF Refresh
    <2> QED BY <2>1, UndoEmpty
  <1>8. ASSUME NEW f \in Wants, SetBegin(f) PROVE UndoTrue'
    <2>1. setter'.undo = <<>> /\ setter'.step = "probe"
      BY <1>8 DEF SetBegin, NoSetter
    <2> QED BY <2>1, UndoEmpty
  <1>9. CASE SetProbe
    <2>1. setter.undo = <<>> /\ setter'.undo = <<>> /\ cache' = cache
            /\ setter'.want = setter.want
      <3>1. setter.undo = <<>> /\ cache' = cache
        BY <1>9 DEF SetProbe
      <3>2. setter'.undo = setter.undo /\ setter'.want = setter.want
        <4>1. CASE Running
          <5> DEFINE x == {p \in Bindings(cache) : cache[p] # setter.want[p]}
                     y == {p \in Bindings(setter.want) : cache[p] # setter.want[p]}
          <5>1. setter' = [setter EXCEPT !.step = "live", !.ip = HasAddress,
                                         !.remove = x, !.add = y]
            BY <1>9, <4>1 DEF SetProbe
          <5> HIDE DEF x, y
          <5> QED BY <1>0, <5>1 DEF SetterType
        <4>2. CASE ~Running
          BY <1>0, <1>9, <4>2 DEF SetProbe, SetterType
        <4> QED BY <4>1, <4>2
      <3> QED BY <3>1, <3>2
    <2>2. setter'.step = "persist"
            \/ /\ setter'.remove = {p \in Bindings(cache) : cache[p] # setter.want[p]}
               /\ setter'.add = {p \in Bindings(setter.want) : cache[p] # setter.want[p]}
      BY <1>0, <1>9 DEF SetProbe, SetterType
    <2> QED BY <1>0, <2>1, <2>2, UndoEmpty DEF Bindings, SetterType
  <1>10. CASE SetNotReady
    BY <1>3, <1>10 DEF SetNotReady
  <1>11. ASSUME NEW p \in Port, SetRemove(p) PROVE UndoTrue'
    <2> DEFINE u == [op |-> "add", port |-> p, to |-> cache[p]]
    <2>1. u \in Op /\ u.op = "add" /\ u.port = p /\ u.to = cache[p]
      BY <1>0, <1>11 DEF SetRemove, Bindings, Op, Fwd
    <2>2. setter.step = "live" /\ p \in setter.remove /\ cache' = cache
      BY <1>11 DEF SetRemove
    <2>3. SetFails \/ setter' = [Done(u) EXCEPT !.remove = @ \ {p}]
      BY <1>11 DEF SetRemove
    <2> HIDE DEF u
    <2>4. CASE setter' = [Done(u) EXCEPT !.remove = @ \ {p}]
      <3>1. /\ setter'.step = setter.step /\ setter'.want = setter.want
            /\ setter'.remove = setter.remove \ {p} /\ setter'.add = setter.add
            /\ setter'.undo = Done(u).undo
        BY <1>0, <2>4 DEF Done, SetterType
      <3>2. Added' = {} /\ Removed' = Removed \cup {p}
        BY <1>0, <2>1, <2>2, <3>1, UndoGrows
      <3>3. AddsFirst(setter'.undo) /\ Restores(setter'.undo, cache)
        BY <1>0, <2>1, <2>2, <3>1, UndoGrows
      <3> QED BY <2>2, <3>1, <3>2, <3>3
    <2> QED BY <1>3, <2>2, <2>3, <2>4
  <1>12. ASSUME NEW p \in Port, SetAdd(p) PROVE UndoTrue'
    <2> DEFINE u == [op |-> "remove", port |-> p, to |-> setter.want[p]]
    <2>1. u \in Op /\ u.op = "remove" /\ u.port = p
      BY <1>0, <1>12 DEF SetAdd, Bindings, Op, SetterType, Fwd
    <2>2. /\ setter.step = "live" /\ p \in setter.add /\ setter.remove = {}
          /\ cache' = cache
      BY <1>12 DEF SetAdd
    <2>3. SetFails \/ setter' = [Done(u) EXCEPT !.add = @ \ {p}]
      BY <1>12 DEF SetAdd
    <2> HIDE DEF u
    <2>4. CASE setter' = [Done(u) EXCEPT !.add = @ \ {p}]
      <3>1. /\ setter'.step = setter.step /\ setter'.want = setter.want
            /\ setter'.remove = setter.remove /\ setter'.add = setter.add \ {p}
            /\ setter'.undo = Done(u).undo
        BY <1>0, <2>4 DEF Done, SetterType
      <3>2. Added' = Added \cup {p} /\ Removed' = Removed
        <4>1. \A o : Noted(Done(u).undo, o) = Noted(setter.undo, o) \cup
                       (IF u.op = o THEN {u.port} ELSE {})
          BY <1>0, <2>1, UndoGrows
        <4>2. Noted(Done(u).undo, "remove") = Added \cup {p}
          BY <2>1, <4>1
        <4>3. Noted(Done(u).undo, "add") = Removed
          BY <2>1, <4>1
        <4> QED BY <3>1, <4>2, <4>3
      <3>3. AddsFirst(setter'.undo) /\ Restores(setter'.undo, cache)
        BY <1>0, <2>1, <2>2, <3>1, UndoGrows
      <3> QED BY <2>2, <3>1, <3>2, <3>3
    <2> QED BY <1>3, <2>2, <2>3, <2>4
  <1>13. CASE SetPersist
    BY <1>1, <1>3, <1>13 DEF SetPersist
  <1>14. CASE SetUndo
    <2> DEFINE u == InReverse(setter.undo).next
    <2>1. /\ setter.step = "undo" /\ setter'.step = "undo" /\ cache' = cache
          /\ setter'.undo = InReverse(setter.undo).rest /\ setter.undo # <<>>
      BY <1>0, <1>14 DEF SetUndo, SetterType
    <2>2. /\ AddsFirst(setter'.undo) /\ Restores(setter'.undo, cache)
          /\ u.op \in {"add", "remove"}
          /\ Added = Added' \cup (IF u.op = "remove" THEN {u.port} ELSE {})
          /\ Removed = Removed' \cup (IF u.op = "add" THEN {u.port} ELSE {})
          /\ u.op = "add" => Added' = {}
      BY <1>0, <2>1, UndoShrinks DEF Op
    <2> HIDE DEF u
    <2>3. \A p \in Added' \ Removed' : cache[p] = NoTarget
      <3>1. CASE u.op = "add"
        BY <2>2, <3>1
      <3>2. CASE u.op = "remove"
        BY <2>2, <3>2
      <3> QED BY <2>2, <3>1, <3>2
    <2> QED BY <2>1, <2>2, <2>3
  <1> QED BY <1>4, <1>5, <1>6, <1>7, <1>8, <1>9, <1>10, <1>11, <1>12, <1>13,
             <1>14 DEF Next, SetterNext

THEOREM UndoAlwaysTrue == Spec => []UndoTrue
  <1>1. Init => UndoTrue
    <2> SUFFICES ASSUME Init PROVE UndoTrue
      OBVIOUS
    <2>1. setter.undo = <<>> /\ setter.step = "none"
      BY DEF Init, NoSetter
    <2> QED BY <2>1, UndoEmpty DEF UndoTrue, ListTrue, PlanTrue, Added, Removed
  <1> QED BY <1>1, UndoStep, ForwardsTyped, PTL DEF Spec


-------------------------------------------------------------------------------
(* What is in force on a boot that nothing has disturbed: of the forwards  *)
(* kento-port lists, those that the hook or its worker has no longer to    *)
(* install; during a live set, what the set has come to.                   *)

Pending ==
  IF hook.step = "begin" THEN conf
  ELSE IF hook.step = "install" THEN hook.todo
  ELSE IF worker[guest.boot].step # "none" THEN worker[guest.boot].todo
  ELSE Empty

Arrival(f, c) == [p \in Port |-> IF f[p] = NoTarget THEN c[p] ELSE NoTarget]

Progress ==
  [p \in Port |-> IF p \in setter.remove THEN cache[p]
                  ELSE IF p \in setter.add THEN NoTarget ELSE setter.want[p]]

\* Undoing what is noted leads from f to what the handle remembers.
Back(f) ==
  \A p \in Port \ Added : f[p] = IF p \in Removed THEN NoTarget ELSE cache[p]

Waiting == {"enter", "poll", "check", "mark"}

Told ==
  plain /\ Awake /\ CanForward =>
    /\ worker[guest.boot].step \in Waiting => worker[guest.boot].todo = conf
    /\ \A p \in Port : Pending[p] \in {conf[p], NoTarget}
    /\ setter.step \notin {"live", "undo"} => rules = Full(Arrival(Pending, conf))
    /\ setter.step = "live" => rules = Full(Progress) /\ Back(Progress)
    /\ setter.step = "undo" => \E f \in Fwd : rules = Full(f) /\ Back(f)

LEMMA ArrivalEnds ==
  ASSUME NEW c \in Fwd
  PROVE  Arrival(Empty, c) = c /\ Arrival(c, c) = Empty
  <1>1. Arrival(Empty, c) \in Fwd /\ Arrival(c, c) \in Fwd
    BY EmptyTyped DEF Arrival, Fwd
  <1>2. \A p \in Port : Arrival(Empty, c)[p] = c[p] /\ Arrival(c, c)[p] = Empty[p]
    BY DEF Arrival, Empty
  <1> QED BY <1>1, <1>2, SameForwards, EmptyTyped

\* The hook or its worker installs one more of them.
LEMMA ArrivalGoesOn ==
  ASSUME NEW f \in Fwd, NEW c \in Fwd, NEW p \in Bindings(f),
         \A q \in Port : f[q] \in {c[q], NoTarget}
  PROVE  LET g == [f EXCEPT ![p] = NoTarget]
         IN /\ \A q \in Port : g[q] \in {c[q], NoTarget}
            /\ Full(Arrival(g, c)) = Full(Arrival(f, c)) \cup Forward(p, f[p], Parts)
  <1> DEFINE g == [f EXCEPT ![p] = NoTarget]  a == Arrival(f, c)
  <1>1. p \in Port /\ f[p] \in Target /\ f[p] = c[p]
    BY DEF Bindings, Fwd
  <1>2. \A q \in Port : g[q] = IF q = p THEN NoTarget ELSE f[q]
    BY DEF Fwd
  <1>3. a \in Fwd /\ Arrival(g, c) \in Fwd
    BY DEF Arrival, Fwd
  <1>4. a[p] = NoTarget
    BY <1>1, ForwardsAssumption DEF Arrival
  <1>5. [a EXCEPT ![p] = f[p]] \in Fwd
          /\ Full([a EXCEPT ![p] = f[p]]) = Full(a) \cup Forward(p, f[p], Parts)
    <2> HIDE DEF a, g
    <2> QED BY <1>1, <1>3, <1>4, FullAdd
  <1>6. \A q \in Port : [a EXCEPT ![p] = f[p]][q] = Arrival(g, c)[q]
    BY <1>1, <1>2, <1>3 DEF Arrival
  <1>7. [a EXCEPT ![p] = f[p]] = Arrival(g, c)
    <2> HIDE DEF a, g
    <2> QED BY <1>3, <1>5, <1>6, SameForwards
  <1> QED BY <1>2, <1>5, <1>7

\* A step that installs nothing, and leaves as much to install as there was.
LEMMA ToldStays ==
  ASSUME Told, plain' => plain, Awake' => Awake,
         UNCHANGED <<host, conf, rules, cache, setter>>, Pending' = Pending,
         worker'[guest'.boot].step \in Waiting => worker'[guest'.boot].todo = conf
  PROVE  Told'
  <1>1. (Awake' => Awake) /\ (CanForward' <=> CanForward)
    BY DEF CanForward
  <1>2. Added' = Added /\ Removed' = Removed /\ Progress' = Progress
    BY DEF Added, Removed, Noted, Progress
  <1>3. \A f : Back(f)' <=> Back(f)
    BY <1>2 DEF Back
  <1> QED BY <1>1, <1>2, <1>3 DEF Told, Back

LEMMA PendingTyped ==
  ASSUME Typed, Awake
  PROVE  Pending \in Fwd /\ guest.boot \in Boot
  <1>1. guest.boot \in Boot
    BY DEF Typed, Shape, Awake
  <1> QED BY <1>1, EmptyTyped, WorkerTyped DEF Pending, Typed, Types, HookType

LEMMA HookTold ==
  ASSUME Typed, Steady, Told, HookNext
  PROVE  Told'
  <1> SUFFICES ASSUME plain', Awake', CanForward' PROVE Told'
    BY DEF Told
  <1>0. /\ guest \in GuestType /\ mark \in MarkType /\ hook \in HookType
        /\ worker \in [Boot -> WorkerType] /\ conf \in Fwd
    BY DEF Typed, Types
  <1>1. /\ UNCHANGED <<host, conf, post, cache, setter, plain>> /\ plain
        /\ hook.step # "none"
    BY DEF HookNext, HookNothing, HookSkip, HookNoBackend, HookStatic, HookDetach,
           HookPid, HookBackend, HookInstall
  <1>2. OneWorker /\ MarksTrue /\ SetAlone
    BY <1>1 DEF Steady
  <1>3. Awake /\ guest.boot \in Boot /\ CanForward /\ Pending \in Fwd
    BY <1>1, <1>2, PendingTyped DEF OneWorker, CanForward
  <1>4. guest'.boot = guest.boot
    BY <1>0 DEF HookNext, HookNothing, HookSkip, HookNoBackend, HookStatic,
                HookDetach, HookPid, HookBackend, HookInstall, HookReturns,
                GuestType
  <1>5. hook.step \in {"begin", "install"} => worker[guest.boot].step = "none"
    BY <1>2, <1>3 DEF OneWorker, WorkersIdle
  <1> USE NoneTyped DEF HookReturns
  <1>6. CASE HookNothing
    <2>1. UNCHANGED <<rules, worker>> /\ Pending' = Pending
      BY <1>1, <1>4, <1>5, <1>6 DEF HookNothing, Pending
    <2> QED BY <1>1, <1>3, <1>4, <1>5, <1>6, <2>1, ToldStays DEF HookNothing, Waiting
  <1>7. CASE HookSkip
    BY <1>2, <1>7 DEF HookSkip, MarksTrue
  <1>8. CASE HookNoBackend
    BY <1>1, <1>3, <1>8 DEF HookNoBackend, CanForward, Typed, Shape
  <1>9. CASE HookStatic
    <2>1. UNCHANGED <<rules, worker>> /\ Pending' = Pending
      BY <1>1, <1>4, <1>9 DEF HookStatic, Pending
    <2> QED BY <1>1, <1>3, <1>4, <1>5, <1>9, <2>1, ToldStays DEF HookStatic, Waiting
  <1>10. CASE HookDetach
    <2>1. /\ rules' = rules /\ worker'[guest.boot].step = "enter"
          /\ worker'[guest.boot].todo = conf
      BY <1>0, <1>3, <1>10 DEF HookDetach, Baked
    <2>2. hook'.step = "pid" /\ Pending' = conf /\ Pending = conf
      BY <1>0, <1>4, <1>10, <2>1 DEF HookDetach, Pending, HookType
    <2> QED BY <1>1, <1>3, <1>4, <2>1, <2>2, ToldStays
  <1>11. CASE HookPid
    <2>1. UNCHANGED <<rules, worker>> /\ Pending' = Pending
      BY <1>4, <1>11 DEF HookPid, Pending
    <2> QED BY <1>1, <1>3, <1>4, <2>1, ToldStays DEF Told
  <1>12. CASE HookBackend
    <2>1. UNCHANGED <<rules, worker>> /\ Pending' = Pending
      BY <1>1, <1>4, <1>5, <1>12 DEF HookBackend, Pending
    <2> QED BY <1>1, <1>3, <1>4, <1>5, <1>12, <2>1, ToldStays DEF HookBackend, Waiting
  <1>13. ASSUME NEW p \in Port, HookInstall(p) PROVE Told'
    <2>1. /\ hook.step = "install" /\ p \in Bindings(hook.todo)
          /\ rules' = rules \cup Forward(p, hook.todo[p], Parts)
          /\ worker' = worker
      BY <1>13 DEF HookInstall
    <2>2. hook'.step = "install" /\ hook'.todo = [hook.todo EXCEPT ![p] = NoTarget]
      BY <1>0, <1>13 DEF HookInstall, HookType
    <2>3. Pending = hook.todo /\ Pending' = [hook.todo EXCEPT ![p] = NoTarget]
      BY <2>1, <2>2 DEF Pending
    <2>4. /\ \A q \in Port : Pending[q] \in {conf[q], NoTarget}
          /\ setter.step \notin {"live", "undo"}
          /\ rules = Full(Arrival(Pending, conf))
      BY <1>1, <1>2, <1>3 DEF Told, SetAlone
    <2>5. /\ \A q \in Port : Pending'[q] \in {conf[q], NoTarget}
          /\ rules' = Full(Arrival(Pending', conf))
      BY <1>0, <1>3, <2>1, <2>3, <2>4, ArrivalGoesOn
    <2> QED BY <1>1, <1>4, <1>5, <2>1, <2>4, <2>5 DEF Told, Waiting
  <1> QED BY <1>6, <1>7, <1>8, <1>9, <1>10, <1>11, <1>12, <1>13 DEF HookNext


LEMMA WorkerTold ==
  ASSUME Typed, Steady, Told, NEW b \in Boot, WorkerNext(b)
  PROVE  Told'
  <1> SUFFICES ASSUME plain', Awake', CanForward' PROVE Told'
    BY DEF Told
  <1>0. mark \in MarkType /\ worker \in [Boot -> WorkerType] /\ conf \in Fwd
    BY DEF Typed, Types
  <1>1. plain /\ UNCHANGED <<host, conf, guest, hook, cache, setter>>
    BY DEF WorkerNext, WorkerEnter, WorkerPoll, WorkerCheck, WorkerMark,
           WorkerBackend, WorkerInstall, Disturbed
  <1>2. OneWorker /\ MarksTrue /\ SetAlone
    BY <1>1 DEF Steady
  <1>3. Awake /\ CanForward
    BY <1>1 DEF Awake, CanForward
  <1>4. worker[b].step # "none" /\ b = guest.boot
    BY <1>2, WorkerMoves DEF OneWorker
  <1>5. hook.step \notin {"begin", "install"} /\ Pending = worker[b].todo
    BY <1>2, <1>4 DEF OneWorker, WorkersIdle, Pending
  <1>6. setter.step \notin {"live", "undo"}
    BY <1>2, <1>4 DEF SetAlone, WorkersIdle
  <1>7. /\ worker[b].step \in Waiting => worker[b].todo = conf
        /\ \A p \in Port : Pending[p] \in {conf[p], NoTarget}
        /\ rules = Full(Arrival(Pending, conf))
    BY <1>1, <1>3, <1>4, <1>6 DEF Told
  <1>8. ASSUME rules' = rules, worker'[b].step # "none",
               worker'[b].todo = worker[b].todo,
               worker'[b].step \in Waiting => worker[b].step \in Waiting
        PROVE  Told'
    <2>1. Pending' = Pending
      BY <1>1, <1>4, <1>5, <1>8 DEF Pending
    <2> QED BY <1>1, <1>3, <1>4, <1>7, <1>8, <2>1, ToldStays
  <1>9. ~mark.cancel /\ (worker[b].step \in Waiting => ~mark.active)
    BY <1>2, <1>3 DEF MarksTrue, Waiting
  <1> USE NoneTyped DEF WorkerEnds, WorkerGoes
  <1>10. CASE WorkerEnter(b)
    BY <1>0, <1>8, <1>9, <1>10 DEF WorkerEnter, CalledOff, Waiting, WorkerType
  <1>11. CASE WorkerPoll(b)
    <2>1. worker' = [worker EXCEPT ![b].step = "check"] /\ rules' = rules
            /\ worker[b].step = "poll"
      BY <1>9, <1>11 DEF WorkerPoll, Disturbed
    <2> QED BY <1>0, <1>8, <2>1 DEF Waiting, WorkerType
  <1>12. CASE WorkerCheck(b)
    BY <1>0, <1>8, <1>9, <1>12 DEF WorkerCheck, CalledOff, Waiting, WorkerType
  <1>13. CASE WorkerMark(b)
    BY <1>0, <1>8, <1>13 DEF WorkerMark, Waiting, WorkerType
  <1>14. CASE WorkerBackend(b)
    <2>1. Pending = Empty /\ rules' = rules /\ worker'[b].step = "none"
      BY <1>0, <1>5, <1>14 DEF WorkerBackend
    <2>2. Pending' = Empty
      BY <1>1, <1>4, <1>5, <2>1 DEF Pending
    <2> QED BY <1>1, <1>3, <1>4, <2>1, <2>2, ToldStays DEF Waiting
  <1>15. ASSUME NEW p \in Port, WorkerInstall(b, p) PROVE Told'
    <2>1. /\ worker[b].step = "install" /\ p \in Bindings(worker[b].todo)
          /\ rules' = rules \cup Forward(p, worker[b].todo[p], Parts)
          /\ worker' = [worker EXCEPT ![b].todo[p] = NoTarget]
      BY <1>15 DEF WorkerInstall, Disturbed
    <2>2. /\ worker'[b].step = "install"
          /\ worker'[b].todo = [worker[b].todo EXCEPT ![p] = NoTarget]
      BY <1>0, <2>1 DEF WorkerType
    <2>3. Pending' = [worker[b].todo EXCEPT ![p] = NoTarget]
      BY <1>1, <1>4, <1>5, <2>2 DEF Pending
    <2>4. worker[b].todo \in Fwd
      BY WorkerTyped DEF Typed
    <2>5. /\ \A q \in Port : Pending'[q] \in {conf[q], NoTarget}
          /\ rules' = Full(Arrival(Pending', conf))
      <3> DEFINE h == worker[b].todo
      <3>1. /\ Pending = h /\ h \in Fwd /\ p \in Bindings(h) /\ conf \in Fwd
            /\ \A q \in Port : h[q] \in {conf[q], NoTarget}
        BY <1>0, <1>5, <1>7, <2>1, <2>4
      <3> HIDE DEF h
      <3>2. /\ \A q \in Port : [h EXCEPT ![p] = NoTarget][q] \in {conf[q], NoTarget}
            /\ Full(Arrival([h EXCEPT ![p] = NoTarget], conf))
                 = Full(Arrival(h, conf)) \cup Forward(p, h[p], Parts)
        BY <3>1, ArrivalGoesOn
      <3> QED BY <1>7, <2>1, <2>3, <3>1, <3>2 DEF h
    <2> QED BY <1>1, <1>4, <1>6, <2>2, <2>5 DEF Told, Waiting
  <1> QED BY <1>10, <1>11, <1>12, <1>13, <1>14, <1>15 DEF WorkerNext

LEMMA GuestTold ==
  ASSUME Typed, Steady, Told, Start \/ Stop \/ PostNext \/ Lease \/ HostCrash
  PROVE  Told'
  <1> SUFFICES ASSUME plain', Awake', CanForward' PROVE Told'
    BY DEF Told
  <1>0. /\ guest \in GuestType /\ hook \in HookType
        /\ worker \in [Boot -> WorkerType] /\ conf \in Fwd
        /\ (post # "none") <=> (guest.state = "stopping")
    BY DEF Typed, Types, Shape
  <1>1. CASE Start
    <2>1. /\ rules = {} /\ WorkersIdle /\ setter.step = "none"
          /\ UNCHANGED <<host, conf, worker, setter>> /\ hook.step = "none"
          /\ guest'.boot = guest.boot + 1 /\ guest'.boot \in Boot
      BY <1>0, <1>1, NextBoot DEF Start, GuestType
    <2>2. worker'[guest'.boot].step = "none"
      BY <2>1 DEF WorkersIdle
    <2>3. CASE host.kind = "vm"
      <3>1. hook'.step = "none" /\ rules' = Full(conf)
        BY <1>1, <2>1, <2>3 DEF Start
      <3>2. Pending' = Empty
        BY <2>2, <3>1 DEF Pending
      <3> QED BY <1>0, <2>1, <2>2, <3>1, <3>2, ArrivalEnds DEF Told, Waiting, Empty
    <2>4. CASE host.kind # "vm"
      <3>1. hook'.step = "begin" /\ rules' = {}
        BY <1>1, <2>1, <2>4, NoneTyped DEF Start, NoHook
      <3>2. Pending' = conf
        BY <2>1, <3>1 DEF Pending
      <3> QED BY <1>0, <2>1, <2>2, <3>1, <3>2, ArrivalEnds, FullEmpty DEF Told, Waiting
    <2> QED BY <2>3, <2>4
  <1>2. CASE Stop
    BY <1>0, <1>2 DEF Stop, GuestType, Awake
  <1>3. CASE PostNext
    <2>1. guest.state = "stopping" /\ guest'.state \in {"stopping", "down"}
      BY <1>0, <1>3 DEF PostNext, PostCancel, PostKill, PostTeardown, PostClean,
                        GuestType
    <2> QED BY <2>1 DEF Awake
  <1>4. CASE Lease
    <2>1. /\ guest'.boot = guest.boot /\ guest'.state = guest.state
          /\ UNCHANGED <<host, conf, rules, cache, setter, plain, worker, hook>>
      BY <1>0, <1>4 DEF Lease, GuestType
    <2>2. Pending' = Pending /\ Awake
      BY <2>1 DEF Pending, Awake
    <2>3. plain /\ CanForward
      BY <2>1 DEF CanForward
    <2> QED BY <2>1, <2>2, <2>3, ToldStays DEF Told
  <1>5. CASE HostCrash
    BY <1>5 DEF HostCrash, Disturbed
  <1> QED BY <1>1, <1>2, <1>3, <1>4, <1>5


LEMMA SetterTold ==
  ASSUME Typed, Steady, UndoTrue, Told,
         Refresh \/ (\E f \in Wants : SetCli(f) \/ SetBegin(f)) \/ SetterNext
           \/ SetKilled
  PROVE  Told'
  <1> SUFFICES ASSUME plain', Awake', CanForward' PROVE Told'
    BY DEF Told
  <1>0. /\ setter \in SetterType /\ conf \in Fwd /\ cache \in Fwd
        /\ setter.remove \subseteq Bindings(cache)
        /\ setter.add \subseteq Bindings(setter.want)
    BY DEF Typed, Types, Shape
  <1>1. plain /\ UNCHANGED <<host, mark, guest, hook, post, worker>>
    BY DEF Refresh, SetCli, SetBegin, SetterNext, SetProbe, SetNotReady, SetRemove,
           SetAdd, SetPersist, SetUndo, SetRaise, SetKilled, Disturbed
  <1>2. OneWorker /\ SetAlone /\ ListTrue /\ PlanTrue
    BY <1>1 DEF Steady, UndoTrue
  <1>3. Awake /\ CanForward
    BY <1>1 DEF Awake, CanForward
  <1>4. /\ worker[guest.boot].step \in Waiting => worker[guest.boot].todo = conf
        /\ \A p \in Port : Pending[p] \in {conf[p], NoTarget}
        /\ setter.step \notin {"live", "undo"} => rules = Full(Arrival(Pending, conf))
        /\ setter.step = "live" => rules = Full(Progress) /\ Back(Progress)
        /\ setter.step = "undo" => \E f \in Fwd : rules = Full(f) /\ Back(f)
    BY <1>1, <1>3 DEF Told
  <1>5. conf' = conf => Pending' = Pending
    BY <1>1 DEF Pending
  <1>6. hook.step = "none" /\ WorkersIdle =>
          Pending = Empty /\ Pending' = Empty /\ worker'[guest'.boot].step = "none"
    BY <1>1, <1>3, PendingTyped DEF Pending, WorkersIdle
  <1>7. Progress \in Fwd
    BY <1>0, ForwardsAssumption DEF Progress, Fwd, SetterType
  \* What the live set has come to is what its failure has to undo.
  <1>8. ASSUME SetFails, setter.step = "live", rules' = rules, conf' = conf,
               cache' = cache
        PROVE  Told'
    <2>1. setter'.step = "undo" /\ setter'.undo = setter.undo
      BY <1>0, <1>8 DEF SetFails, SetterType
    <2>2. Added' = Added /\ Removed' = Removed
      BY <2>1 DEF Added, Removed
    <2>3. \E f \in Fwd : rules' = Full(f) /\ Back(f)
      BY <1>4, <1>7, <1>8
    <2>4. (\E f \in Fwd : rules = Full(f) /\ Back(f))'
      BY <1>8, <2>2, <2>3 DEF Back
    <2> QED BY <1>1, <1>4, <1>5, <1>8, <2>1, <2>4 DEF Told
  <1>9. ASSUME setter.step \notin {"live", "undo"},
               setter'.step \notin {"live", "undo"}, UNCHANGED <<conf, rules>>
        PROVE  Told'
    BY <1>1, <1>4, <1>5, <1>9 DEF Told
  <1>10. CASE Refresh
    BY <1>9, <1>10 DEF Refresh
  <1>11. ASSUME NEW f \in Wants, SetCli(f) PROVE Told'
    BY <1>3, <1>11 DEF SetCli, Awake, Running
  <1>12. ASSUME NEW f \in Wants, SetBegin(f) PROVE Told'
    <2>1. setter'.step = "probe"
      BY <1>12 DEF SetBegin, NoSetter
    <2> QED BY <1>9, <1>12, <2>1 DEF SetBegin
  <1>13. CASE SetProbe
    <2>1. CASE ~Running
      BY <1>3, <1>13, <2>1 DEF SetProbe, Awake, Running
    <2>2. CASE Running
      <3> DEFINE x == {p \in Bindings(cache) : cache[p] # setter.want[p]}
                 y == {p \in Bindings(setter.want) : cache[p] # setter.want[p]}
      <3>1. /\ cache = conf /\ hook.step = "none" /\ WorkersIdle
            /\ UNCHANGED <<conf, cache, rules>> /\ setter.step = "probe"
            /\ setter' = [setter EXCEPT !.step = "live", !.ip = HasAddress,
                                        !.remove = x, !.add = y]
        BY <1>13, <2>2 DEF SetProbe
      <3>2. rules = Full(conf)
        BY <1>0, <1>4, <1>6, <3>1, ArrivalEnds
      <3> HIDE DEF x, y
      <3>3. /\ setter'.step = "live" /\ setter'.remove = x /\ setter'.add = y
            /\ setter'.want = setter.want /\ setter'.undo = setter.undo
        BY <1>0, <3>1 DEF SetterType
      <3>4. setter.undo = <<>>
        BY <1>2, <3>1 DEF ListTrue
      <3>5. Added' = {} /\ Removed' = {}
        BY <3>3, <3>4, UndoEmpty DEF Added, Removed
      <3> DEFINE g == [p \in Port |-> IF p \in x THEN cache[p]
                         ELSE IF p \in y THEN NoTarget ELSE setter.want[p]]
      <3>6. \A p \in Port : g[p] = cache[p]
        BY DEF x, y, Bindings
      <3>7. g = cache
        BY <1>0, <3>6 DEF Fwd
      <3>8. Progress' = g
        BY <3>1, <3>3 DEF Progress
      <3>9. rules' = Full(Progress') /\ Back(Progress)'
        BY <3>1, <3>2, <3>5, <3>7, <3>8 DEF Back
      <3> QED BY <1>1, <1>4, <1>5, <3>1, <3>3, <3>9 DEF Told
    <2> QED BY <2>1, <2>2
  <1>14. CASE SetNotReady
    BY <1>8, <1>14 DEF SetNotReady
  <1>15. ASSUME NEW p \in Port, SetRemove(p) PROVE Told'
    <2> DEFINE u == [op |-> "add", port |-> p, to |-> cache[p]]
    <2>1. u \in Op /\ u.op = "add" /\ u.port = p
      BY <1>0, <1>15 DEF SetRemove, Bindings, Op, Fwd
    <2>2. setter.step = "live" /\ p \in setter.remove /\ UNCHANGED <<conf, cache>>
      BY <1>15 DEF SetRemove
    <2>3. \/ SetFails /\ rules' = rules
          \/ setter' = [Done(u) EXCEPT !.remove = @ \ {p}] /\ run_remove(p)
      BY <1>15 DEF SetRemove, Disturbed
    <2> HIDE DEF u
    <2>4. CASE setter' = [Done(u) EXCEPT !.remove = @ \ {p}] /\ run_remove(p)
      <3>1. /\ setter'.step = "live" /\ setter'.want = setter.want
            /\ setter'.remove = setter.remove \ {p} /\ setter'.add = setter.add
            /\ setter'.undo = Done(u).undo
        BY <1>0, <2>2, <2>4 DEF Done, SetterType
      <3>2. Added' = Added /\ Removed' = Removed \cup {p}
        <4>1. \A o : Noted(Done(u).undo, o) = Noted(setter.undo, o) \cup
                       (IF u.op = o THEN {u.port} ELSE {})
          BY <1>0, <2>1, UndoGrows
        <4>2. /\ Noted(Done(u).undo, "add") = Removed \cup {p}
              /\ Noted(Done(u).undo, "remove") = Added
          BY <2>1, <4>1 DEF Added, Removed
        <4> QED BY <3>1, <4>2 DEF Added, Removed
      <3>3. \A q \in Port : Progress'[q] = IF q = p THEN NoTarget ELSE Progress[q]
        BY <1>2, <2>2, <3>1 DEF Progress, PlanTrue
      <3>4. Progress' = [Progress EXCEPT ![p] = NoTarget]
        BY <3>3 DEF Progress
      <3>5. rules' = Full(Progress')
        <4>1. Full([Progress EXCEPT ![p] = NoTarget])
                = {r \in Full(Progress) : r.port # p}
          BY <1>7, FullRemove
        <4>2. rules = Full(Progress)
          BY <1>4, <2>2
        <4> QED BY <2>4, <3>4, <4>1, <4>2 DEF run_remove
      <3>6. Back(Progress)'
        BY <1>4, <2>2, <3>2, <3>3 DEF Back
      <3> QED BY <1>1, <1>4, <1>5, <2>2, <3>1, <3>5, <3>6 DEF Told
    <2> QED BY <1>8, <2>2, <2>3, <2>4
  <1>16. ASSUME NEW p \in Port, SetAdd(p) PROVE Told'
    <2> DEFINE t == setter.want[p]  u == [op |-> "remove", port |-> p, to |-> t]
    <2>1. u \in Op /\ u.op = "remove" /\ u.port = p /\ t \in Target
      BY <1>0, <1>16 DEF SetAdd, Bindings, Op, SetterType, Fwd
    <2>2. /\ setter.step = "live" /\ p \in setter.add /\ setter.remove = {}
          /\ UNCHANGED <<conf, cache>>
      BY <1>16 DEF SetAdd
    <2>3. \/ SetFails /\ rules' = rules
          \/ SetFails /\ rules' = rules \cup Forward(p, t, 0)
          \/ /\ setter' = [Done(u) EXCEPT !.add = @ \ {p}]
             /\ rules' = rules \cup Forward(p, t, Parts)
      BY <1>16 DEF SetAdd
    <2>4. Forward(p, t, 0) = {}
      BY <2>1, ForwardRules
    <2> HIDE DEF u
    <2>5. CASE /\ setter' = [Done(u) EXCEPT !.add = @ \ {p}]
               /\ rules' = rules \cup Forward(p, t, Parts)
      <3>1. /\ setter'.step = "live" /\ setter'.want = setter.want
            /\ setter'.remove = {} /\ setter'.add = setter.add \ {p}
            /\ setter'.undo = Done(u).undo
        BY <1>0, <2>2, <2>5 DEF Done, SetterType
      <3>2. Added' = Added \cup {p} /\ Removed' = Removed
        <4>1. \A o : Noted(Done(u).undo, o) = Noted(setter.undo, o) \cup
                       (IF u.op = o THEN {u.port} ELSE {})
          BY <1>0, <2>1, UndoGrows
        <4>2. /\ Noted(Done(u).undo, "remove") = Added \cup {p}
              /\ Noted(Done(u).undo, "add") = Removed
          BY <2>1, <4>1 DEF Added, Removed
        <4> QED BY <3>1, <4>2 DEF Added, Removed
      <3>3. Progress[p] = NoTarget
        BY <2>2 DEF Progress
      <3>4. \A q \in Port : Progress'[q] = IF q = p THEN t ELSE Progress[q]
        BY <2>2, <3>1 DEF Progress
      <3>5. Progress' = [Progress EXCEPT ![p] = t]
        BY <3>4 DEF Progress
      <3>6. rules' = Full(Progress')
        <4>1. Full([Progress EXCEPT ![p] = t]) = Full(Progress) \cup Forward(p, t, Parts)
          BY <1>7, <2>1, <3>3, FullAdd
        <4>2. rules = Full(Progress)
          BY <1>4, <2>2
        <4> QED BY <2>5, <3>5, <4>1, <4>2
      <3>7. Back(Progress)'
        BY <1>4, <2>2, <3>2, <3>4 DEF Back
      <3> QED BY <1>1, <1>4, <1>5, <2>2, <3>1, <3>6, <3>7 DEF Told
    <2> QED BY <1>8, <2>2, <2>3, <2>4, <2>5
  <1>17. CASE SetPersist
    <2>1. CASE setter.step = "persist"
      BY <1>2, <1>3, <2>1 DEF SetAlone, Awake
    <2>2. CASE setter.step = "live" /\ SetFails /\ UNCHANGED <<conf, cache>>
      BY <1>8, <1>17, <2>2 DEF SetPersist
    <2>3. CASE /\ setter.step = "live" /\ conf' = setter.want
               /\ setter' = NoSetter
      <3>1. /\ setter.remove = {} /\ setter.add = {} /\ rules' = rules
        BY <1>17, <2>3 DEF SetPersist
      <3>2. setter.want \in Fwd /\ setter'.step = "none"
        BY <1>0, <2>3, NoneTyped DEF SetterType
      <3>3. Progress = setter.want
        BY <3>1, <3>2 DEF Progress, Fwd
      <3>4. Pending' = Empty /\ worker'[guest'.boot].step = "none"
        BY <1>2, <1>6, <2>3 DEF SetAlone
      <3>5. rules' = Full(Arrival(Pending', conf'))
        BY <1>4, <2>3, <3>1, <3>2, <3>3, <3>4, ArrivalEnds
      <3> QED BY <3>2, <3>4, <3>5 DEF Told, Waiting, Empty
    <2> QED BY <1>8, <1>17, <2>1, <2>2, <2>3 DEF SetPersist
  <1>18. CASE SetUndo
    <2> DEFINE u == InReverse(setter.undo).next
    <2>1. /\ setter.step = "undo" /\ setter'.step = "undo"
          /\ UNCHANGED <<conf, cache>>
          /\ setter'.undo = InReverse(setter.undo).rest /\ setter.undo # <<>>
      BY <1>0, <1>18 DEF SetUndo, SetterType
    <2>2. IF u.op = "add" THEN rules' = rules \cup Forward(u.port, u.to, Parts)
                          ELSE run_remove(u.port)
      BY <1>18 DEF SetUndo, Disturbed
    <2>3. /\ u \in Op /\ u.port \in Port /\ u.to \in Target
          /\ u.op \in {"add", "remove"}
      BY <1>0, <2>1, UndoShrinks DEF Op
    <2>4. /\ Added = Added' \cup (IF u.op = "remove" THEN {u.port} ELSE {})
          /\ Removed = Removed' \cup (IF u.op = "add" THEN {u.port} ELSE {})
          /\ u.op = "add" =>
               Added' = {} /\ u.port \notin Removed' /\ u.to = cache[u.port]
      BY <1>0, <1>2, <2>1, UndoShrinks DEF Added, Removed, ListTrue
    <2> HIDE DEF u
    <2>5. PICK f \in Fwd : rules = Full(f) /\ Back(f)
      BY <1>4, <2>1
    <2>6. \E g \in Fwd : rules' = Full(g) /\ \A p \in Port \ Added' :
            g[p] = IF p \in Removed' THEN NoTarget ELSE cache[p]
      <3>1. CASE u.op = "add"
        <4> DEFINE g == [f EXCEPT ![u.port] = u.to]
        <4>1. f[u.port] = NoTarget
          BY <2>3, <2>4, <2>5, <3>1 DEF Back
        <4>2. g \in Fwd /\ rules' = Full(g)
          BY <2>2, <2>3, <2>5, <3>1, <4>1, FullAdd
        <4>3. \A p \in Port : g[p] = IF p = u.port THEN u.to ELSE f[p]
          BY DEF Fwd
        <4> HIDE DEF g
        <4>4. \A p \in Port \ Added' :
                g[p] = IF p \in Removed' THEN NoTarget ELSE cache[p]
          BY <2>4, <2>5, <3>1, <4>3 DEF Back
        <4> QED BY <4>2, <4>4
      <3>2. CASE u.op = "remove"
        <4> DEFINE g == [f EXCEPT ![u.port] = NoTarget]
        <4>1. g \in Fwd /\ rules' = Full(g)
          BY <2>2, <2>3, <2>5, <3>2, FullRemove DEF run_remove
        <4>2. \A p \in Port : g[p] = IF p = u.port THEN NoTarget ELSE f[p]
          BY DEF Fwd
        <4> HIDE DEF g
        <4>3. Added = Added' \cup {u.port} /\ Removed = Removed'
          BY <2>4, <3>2
        <4>4. u.port \in Removed \/ cache[u.port] = NoTarget
          BY <1>2, <4>3 DEF ListTrue
        <4>5. \A p \in Port \ Added' :
                g[p] = IF p \in Removed' THEN NoTarget ELSE cache[p]
          BY <2>5, <4>2, <4>3, <4>4 DEF Back
        <4> QED BY <4>1, <4>5
      <3> QED BY <2>3, <3>1, <3>2
    <2>7. (\E e \in Fwd : rules = Full(e) /\ Back(e))'
      BY <2>1, <2>6 DEF Back
    <2> QED BY <1>1, <1>4, <1>5, <2>1, <2>7 DEF Told
  <1>19. CASE SetRaise
    <2>1. /\ setter.step = "undo" /\ setter.undo = <<>> /\ setter' = NoSetter
          /\ UNCHANGED <<conf, rules>>
      BY <1>19 DEF SetRaise
    <2>2. PICK f \in Fwd : rules = Full(f) /\ Back(f)
      BY <1>4, <2>1
    <2>3. Added = {} /\ Removed = {}
      BY <2>1, UndoEmpty DEF Added, Removed
    <2>4. cache = conf /\ Pending' = Empty /\ worker'[guest'.boot].step = "none"
      BY <1>2, <1>6, <2>1 DEF SetAlone
    <2>5. f = conf
      BY <1>0, <2>2, <2>3, <2>4, SameForwards DEF Back
    <2>6. rules' = Full(Arrival(Pending', conf'))
      BY <1>0, <2>1, <2>2, <2>4, <2>5, ArrivalEnds
    <2> QED BY <2>1, <2>4, <2>6, NoneTyped DEF Told, Waiting, Empty
  <1>20. CASE SetKilled
    BY <1>20 DEF SetKilled, Disturbed
  <1> QED BY <1>10, <1>11, <1>12, <1>13, <1>14, <1>15, <1>16, <1>17, <1>18, <1>19,
             <1>20 DEF SetterNext

LEMMA ToldStep == Typed /\ Steady /\ UndoTrue /\ Told /\ [Next]_vars => Told'
  <1> SUFFICES ASSUME Typed, Steady, UndoTrue, Told, [Next]_vars PROVE Told'
    OBVIOUS
  <1>1. CASE UNCHANGED vars
    <2>1. Pending' = Pending /\ UNCHANGED <<plain, Awake, guest, worker>>
            /\ UNCHANGED <<host, conf, rules, cache, setter>>
      BY <1>1 DEF vars, Pending, Awake
    <2>2. CASE plain /\ Awake /\ CanForward
      BY <2>1, <2>2, ToldStays DEF Told
    <2>3. CASE ~(plain /\ Awake /\ CanForward)
      BY <2>1, <2>3 DEF Told, CanForward
    <2> QED BY <2>2, <2>3
  <1>2. CASE HookFault
    BY <1>2 DEF HookFault, HookFails, Disturbed, Told
  <1> QED BY <1>1, <1>2, HookTold, WorkerTold, GuestTold, SetterTold DEF Next

THEOREM AlwaysTold == Spec => []Told
  <1>1. Init => Told
    BY DEF Init, Told, Awake
  <1> QED BY <1>1, ToldStep, ForwardsTyped, AlwaysSteady, UndoAlwaysTrue, PTL DEF Spec

\* The both-or-neither promise of the forwards setter, together with hook.sh,
\* its worker and QEMU: at rest, an undisturbed boot has in force exactly the
\* forwards that kento-port lists.
THEOREM BootsAreTrue == Spec => []BootTrue
  <1>1. Typed /\ Told => BootTrue
    <2> SUFFICES ASSUME Typed, Told, plain, Running, Quiet, CanForward
                 PROVE  rules = Full(conf)
      BY DEF BootTrue
    <2>1. Awake /\ conf \in Fwd
      BY DEF Awake, Running, Typed, Types
    <2>2. Pending = Empty
      BY <2>1, PendingTyped DEF Pending, Quiet, WorkersIdle
    <2>3. rules = Full(Arrival(Empty, conf))
      BY <2>1, <2>2 DEF Told, Quiet
    <2> QED BY <2>1, <2>3, ArrivalEnds
  <1> QED BY <1>1, AlwaysTold, ForwardsTyped, PTL
===============================================================================
