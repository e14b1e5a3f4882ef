------------------------------ MODULE ImagesProofs ------------------------------
(***************************************************************************)
(* What holds of the image store for any number of guests, tags and        *)
(* images, with commands on all guests at once, and any kills, moves of    *)
(* tags, prunes and removals meanwhile.                                    *)
(***************************************************************************)
EXTENDS Images, TLAPS

-------------------------------------------------------------------------------
(* Types. *)

\* What podman rmi takes: a name of an image, or an image that no container was
\* made from and its last name with it.
LEMMA Removed ==
  ASSUME TypeOK, NEW x \in Id \cup Tag, Rmi(x)
  PROVE  /\ tag' \in [Tag -> Id \cup {NoId}]
         /\ present' \subseteq present
         /\ \A t \in Tag : tag'[t] # NoId => tag'[t] \in present'
         /\ \A i \in present : InUse(i) => i \in present'
  <1> USE ImagesAssumption DEF TypeOK
  <1>1. ASSUME NEW i \in Id \cup {NoId}, RmiId(i)
        PROVE  /\ tag' \in [Tag -> Id \cup {NoId}]
               /\ present' \subseteq present
               /\ \A t \in Tag : tag'[t] # NoId => tag'[t] \in present'
               /\ \A j \in present : InUse(j) => j \in present'
    <2>1. CASE UNCHANGED store
      BY <2>1 DEF store
    <2>2. CASE /\ ~InUse(i) /\ present' = present \ {i}
               /\ tag' = [t \in Tag |-> IF tag[t] = i THEN NoId ELSE tag[t]]
      BY <2>2
    <2> QED BY <1>1, <2>1, <2>2 DEF RmiId
  <1>2. CASE x \in Id
    BY <1>1, <1>2 DEF Rmi
  <1>3. CASE x \in Tag /\ TagsOf(tag[x]) = {x}
    BY <1>1, <1>3 DEF Rmi, RmiTag
  <1>4. CASE x \in Tag /\ TagsOf(tag[x]) # {x}
    BY <1>4 DEF Rmi, RmiTag
  <1> QED BY <1>2, <1>3, <1>4

LEMMA InitTyped == Init => TypeOK
  BY ImagesAssumption
  DEF Init, TypeOK, Open, Idle, Absent, GcIdle, CmdType, FileType,
                          GcType, Steps

\* The hold that create_image_hold adds.
LEMMA HoldMade ==
  ASSUME TypeOK, NEW g \in Guest, NEW t \in Tag, create_image_hold(g, t)
  PROVE  \E h \in HoldType :
           /\ holds' = holds \cup {h}
           /\ h.for = g /\ h.pin = tag[t] /\ tag[t] \in present
           /\ IF known THEN h.label = h.pin /\ h.image = h.pin
                       ELSE h.label = NoId /\ h.image = t
           /\ \A k \in holds : k.for # g
  <1> USE ImagesAssumption DEF TypeOK
  <1> DEFINE h == [for |-> g, pin |-> tag[t],
                   label |-> IF known THEN tag[t] ELSE NoId,
                   image |-> IF known THEN tag[t] ELSE t]
  <1>1. holds' = holds \cup {h} /\ tag[t] # NoId /\ HoldsOf(g) = {}
    BY DEF create_image_hold
  <1>2. h \in HoldType
    BY <1>1 DEF HoldType
  <1>3. tag[t] \in present /\ \A k \in holds : k.for # g
    BY <1>1 DEF HoldsOf
  <1>4. h.for = g /\ h.pin = tag[t]
    OBVIOUS
  <1>5. IF known THEN h.label = h.pin /\ h.image = h.pin
                 ELSE h.label = NoId /\ h.image = t
    OBVIOUS
  <1> QED BY <1>1, <1>2, <1>3, <1>4, <1>5

LEMMA StepTyped == TypeOK /\ [Next]_vars => TypeOK'
  <1> SUFFICES ASSUME TypeOK, [Next]_vars PROVE TypeOK'
    OBVIOUS
  <1> USE ImagesAssumption DEF TypeOK, store
  <1> DEFINE Store == /\ tag \in [Tag -> Id \cup {NoId}] /\ present \subseteq Id
                      /\ \A t \in Tag : tag[t] # NoId => tag[t] \in present
             Holds == /\ holds \subseteq HoldType
                      /\ \A h, k \in holds : h.for = k.for => h = k
             Rest == /\ file \in [Guest -> FileType] /\ cmd \in [Guest -> CmdType]
                     /\ gc \in GcType /\ shaken \subseteq Guest
                     /\ known \in BOOLEAN /\ faults \in 0 .. MaxFaults
  <1>1. ASSUME NEW g \in Guest, GuestNext(g) PROVE TypeOK'
    <2>1. Store'
      BY <1>1
      DEF GuestNext, CreateBegin, CreateHold, CreateFiles, CreateFail, Kill,
         Start, ScrubBegin, ScrubId, ScrubRefuse, ClearSweep, ClearRename,
         ClearMkdir, ClearRmtree, ScrubLayers, RepinLook, RepinRemove,
         RepinCreate, ScrubHook, DestroyHold, DestroyFiles
    <2>2. Holds'
      <3>1. CASE \E t \in Tag : create_image_hold(g, t)
        <4>1. PICK t \in Tag : create_image_hold(g, t)
          BY <3>1
        <4>2. PICK h \in HoldType : /\ holds' = holds \cup {h} /\ h.for = g
                                   /\ \A k \in holds : k.for # g
          BY <4>1, HoldMade
        <4> QED BY <4>2
      <3>2. CASE holds' \subseteq holds
        BY <3>2
      <3>3. holds' \subseteq holds \/ \E t \in Tag : create_image_hold(g, t)
        BY <1>1
        DEF GuestNext, CreateBegin, CreateHold, CreateFiles, CreateFail, Kill,
         Start, ScrubBegin, ScrubId, ScrubRefuse, ClearSweep, ClearRename,
         ClearMkdir, ClearRmtree, ScrubLayers, RepinLook, RepinRemove,
         RepinCreate, ScrubHook, DestroyHold, DestroyFiles, NoHold, At, Exists,
            Open, FileType
      <3> QED BY <3>1, <3>2, <3>3
    <2>3. file' \in [Guest -> FileType]
      <3>1. CASE UNCHANGED file
        BY <3>1
      <3>2. CASE CreateFiles(g)
        BY <3>2 DEF CreateFiles, resolve_image_id, Open, FileType
      <3>3. CASE DestroyFiles(g)
        BY <3>3 DEF DestroyFiles, Absent, FileType
      <3>4. ASSUME NEW f \in FileType, file' = [file EXCEPT ![g] = f]
            PROVE  file' \in [Guest -> FileType]
        BY <3>4
      <3>5. file[g] \in FileType /\ cmd[g] \in CmdType
        OBVIOUS
      <3>6. CASE ScrubId(g)
        <4>1. [file[g] EXCEPT !.id = resolve_image_id(cmd[g].image)] \in FileType
          BY <3>5, <3>6 DEF ScrubId, At, resolve_image_id, Open, FileType
        <4> QED BY <3>1, <3>4, <3>6, <4>1 DEF ScrubId
      <3>7. CASE ClearSweep(g) \/ ClearRename(g) \/ ClearMkdir(g) \/ ClearRmtree(g)
        <4>1. /\ [file[g] EXCEPT !.old = "none"] \in FileType
              /\ [file[g] EXCEPT !.old = "part"] \in FileType
              /\ [file[g] EXCEPT !.upper = "whole"] \in FileType
              /\ [file[g] EXCEPT !.upper = "none", !.old = file[g].upper] \in FileType
          BY <3>5 DEF FileType
        <4> QED BY <3>4, <3>7, <4>1
        DEF ClearSweep, ClearRename, ClearMkdir, ClearRmtree
      <3>8. CASE ScrubLayers(g) \/ ScrubHook(g)
        <4>1. /\ [file[g] EXCEPT !.layers = cmd[g].layers] \in FileType
              /\ [file[g] EXCEPT !.hook = cmd[g].layers] \in FileType
          BY <3>5 DEF FileType, CmdType
        <4> QED BY <3>4, <3>8, <4>1 DEF ScrubLayers, ScrubHook
      <3> QED BY <1>1, <3>1, <3>2, <3>3, <3>6, <3>7, <3>8
          DEF GuestNext, CreateBegin, CreateHold, CreateFail, Kill, Start,
              ScrubBegin, ScrubRefuse, RepinLook, RepinRemove, RepinCreate,
              DestroyHold
    <2>4. cmd' \in [Guest -> CmdType]
      <3>1. ASSUME NEW x \in CmdType, cmd' = [cmd EXCEPT ![g] = x]
            PROVE  cmd' \in [Guest -> CmdType]
        BY <3>1
      <3>2. cmd[g] \in CmdType
        OBVIOUS
      <3>3. CASE \E step \in Steps : cmd' = [cmd EXCEPT ![g].step = step]
        <4>1. \A step \in Steps : [cmd[g] EXCEPT !.step = step] \in CmdType
          BY <3>2 DEF CmdType
        <4> QED BY <3>1, <3>3, <4>1
      <3>4. CASE cmd' = [cmd EXCEPT ![g] = Idle] \/ UNCHANGED cmd
        BY <3>1, <3>4 DEF Idle, CmdType, Steps
      <3>5. CASE DestroyHold(g)
        BY <3>1, <3>5 DEF DestroyHold, Idle, CmdType, Steps
      <3>6. CASE ScrubBegin(g) \/ \E t \in Tag : CreateBegin(g, t)
        BY <3>1, <3>6 DEF ScrubBegin, CreateBegin, resolve_layers, CmdType, Steps,
                          FileType, Exists
      <3> QED BY <1>1, <3>3, <3>4, <3>5, <3>6
          DEF GuestNext, CreateHold, CreateFiles, CreateFail, Kill, Start,
              ScrubId, ScrubRefuse, ClearSweep, ClearRename, ClearMkdir,
              ClearRmtree, ScrubLayers, RepinLook, RepinRemove, RepinCreate,
              ScrubHook, DestroyFiles, Goto, Steps
    <2>5. /\ gc' \in GcType /\ shaken' \subseteq Guest
          /\ known' \in BOOLEAN /\ faults' \in 0 .. MaxFaults
      BY <1>1
      DEF GuestNext, CreateBegin, CreateHold, CreateFiles, CreateFail, Kill,
         Start, ScrubBegin, ScrubId, ScrubRefuse, ClearSweep, ClearRename,
         ClearMkdir, ClearRmtree, ScrubLayers, RepinLook, RepinRemove,
         RepinCreate, ScrubHook, DestroyHold, DestroyFiles, NoHold, Settle
    <2>6. ASSUME NEW q \in Guest, Open(q)'
          PROVE  cmd'[q].image \in Tag /\ cmd'[q].layers \in Id
      <3>1. CASE cmd'[q] = cmd[q]
        BY <2>6, <3>1 DEF Open
      <3>2. CASE q = g /\ ScrubBegin(g)
        BY <2>6, <3>2 DEF ScrubBegin, resolve_layers, Exists, FileType
      <3>3. CASE q = g /\ \E t \in Tag : CreateBegin(g, t)
        BY <2>6, <3>3 DEF CreateBegin, resolve_layers
      <3>4. CASE q = g /\ Open(g) /\ cmd'[g].image = cmd[g].image /\ cmd'[g].layers = cmd[g].layers
        BY <3>4
      <3>5. CASE cmd'[q].op \notin {"create", "scrub"}
        BY <2>6, <3>5 DEF Open
      <3>6. CASE q # g
        BY <1>1, <3>1, <3>6
        DEF GuestNext, CreateBegin, CreateHold, CreateFiles, CreateFail, Kill,
            Start, ScrubBegin, ScrubId, ScrubRefuse, ClearSweep, ClearRename,
            ClearMkdir, ClearRmtree, ScrubLayers, RepinLook, RepinRemove,
            RepinCreate, ScrubHook, DestroyHold, DestroyFiles, Goto
      <3>7. CASE q = g /\ CreateHold(g)
        BY <3>4, <3>7 DEF CreateHold, Open, CmdType
      <3>8. CASE /\ q = g
                 /\ \/ ScrubId(g) \/ ClearSweep(g) \/ ClearRename(g)
                    \/ ClearMkdir(g) \/ ClearRmtree(g) \/ ScrubLayers(g)
                    \/ RepinLook(g) \/ RepinRemove(g) \/ RepinCreate(g)
        <4>1. Open(g)
          BY <3>8 DEF Open, At, ScrubId, ClearSweep, ClearRename, ClearMkdir,
              ClearRmtree, ScrubLayers, RepinLook, RepinRemove, RepinCreate
        <4>2. cmd' = cmd \/ \E step \in Steps : cmd' = [cmd EXCEPT ![g].step = step]
          BY <3>8 DEF Goto, ScrubId, ClearSweep, ClearRename, ClearMkdir,
              ClearRmtree, ScrubLayers, RepinLook, RepinRemove, RepinCreate, Steps
        <4> QED BY <3>4, <3>8, <4>1, <4>2 DEF CmdType
      <3>9. CASE /\ q = g
                 /\ \/ CreateFiles(g) \/ CreateFail(g) \/ Kill(g)
                    \/ ScrubRefuse(g) \/ ScrubHook(g) \/ DestroyHold(g)
                    \/ DestroyFiles(g)
        BY <3>5, <3>9 DEF CreateFiles, CreateFail, Kill, ScrubRefuse, ScrubHook,
                          DestroyHold, DestroyFiles, Idle
      <3>10. CASE Start(g)
        BY <3>1, <3>10 DEF Start
      <3> QED BY <1>1, <3>2, <3>3, <3>6, <3>7, <3>8, <3>9, <3>10 DEF GuestNext
    <2> QED BY <2>1, <2>2, <2>3, <2>4, <2>5, <2>6
  <1>2. ASSUME StoreNext PROVE TypeOK'
    <2>1. Store'
      <3>1. CASE \E t \in Tag, i \in Id : Pull(t, i)
        BY <3>1 DEF Pull
      <3>2. CASE \E x \in Id \cup Tag : PruneImage(x)
        BY <3>2, Removed DEF PruneImage
      <3>3. CASE RemoveRmi
        <4>1. ASSUME NEW t \in Tag, RmiTag(t) PROVE Store'
          BY <4>1, Removed DEF Rmi
        <4> QED BY <3>3, <4>1 DEF RemoveRmi, GcType
      <3>4. CASE \E t \in Tag : RemoveForced(t)
        BY <3>4 DEF RemoveForced, TagsOf
      <3> QED BY <1>2, <3>1, <3>2, <3>3, <3>4
          DEF StoreNext, PruneNames, PruneRefs, PrunePlan, PruneDone, PruneHold,
              DanglingList, DanglingHeld, RemoveResolve, RemoveHeld
    <2>2. Holds'
      <3>1. holds' \subseteq holds
        BY <1>2 DEF StoreNext, Pull, PruneNames, PruneRefs, PrunePlan,
              PruneDone, PruneHold, PruneImage, DanglingList, DanglingHeld,
              RemoveResolve, RemoveHeld, RemoveRmi, RemoveForced
      <3> QED BY <3>1
    <2>3. gc' \in GcType
      <3>1. /\ gc.op \in {"none", "names", "refs", "prune", "list", "dangling",
                          "remove", "rmi"}
            /\ gc.names \subseteq Guest /\ gc.refs \subseteq Tag
            /\ gc.rm \subseteq Guest /\ gc.rmi \subseteq Id \cup Tag
        BY DEF GcType
      <3>2. guest_names \subseteq Guest /\ guest_image_refs \subseteq Tag
        BY DEF guest_names, guest_image_refs, Exists, FileType
      <3>3. /\ {h.for : h \in Orphaned} \subseteq Guest
            /\ Candidates \subseteq Id \cup Tag
        BY DEF Orphaned, Candidates, HoldType
      <3>4. CASE PruneNames
        BY <3>1, <3>2, <3>4 DEF PruneNames, GcType
      <3>5. CASE PruneRefs
        BY <3>1, <3>2, <3>5 DEF PruneRefs, GcType
      <3>6. CASE PrunePlan
        BY <3>1, <3>3, <3>6 DEF PrunePlan, GcType
      <3>7. CASE \E g \in Guest : PruneHold(g)
        BY <3>1, <3>7 DEF PruneHold, GcType
      <3>8. CASE \E x \in Id \cup Tag : PruneImage(x)
        BY <3>1, <3>8 DEF PruneImage, GcType
      <3>9. CASE gc' = GcIdle \/ UNCHANGED gc
        BY <3>9 DEF GcIdle, GcType
      <3>10. CASE DanglingList
        BY <3>1, <3>10 DEF DanglingList, GcType
      <3>11. CASE DanglingHeld
        BY <3>1, <3>11 DEF DanglingHeld, GcType
      <3>12. CASE \E t \in Tag : RemoveResolve(t)
        <4>1. PICK t \in Tag : RemoveResolve(t)
          BY <3>12
        <4>2. {t} \subseteq Tag /\ {tag[t]} \subseteq Id \cup Tag
          BY <4>1 DEF RemoveResolve
        <4> QED BY <3>1, <4>1, <4>2 DEF RemoveResolve, GcType
      <3>13. CASE RemoveHeld
        BY <3>1, <3>9, <3>13 DEF RemoveHeld, GcType
      <3> QED BY <1>2, <3>4, <3>5, <3>6, <3>7, <3>8, <3>9, <3>10, <3>11, <3>12,
                 <3>13 DEF StoreNext, Pull, PruneDone, RemoveRmi, RemoveForced
    <2>4. shaken' \subseteq Guest
      <3>1. Shaken \subseteq Guest /\ \A h \in holds : h.for \in Guest
        BY DEF Shaken, HoldType
      <3>2. CASE PrunePlan
        BY <3>1, <3>2 DEF PrunePlan, Orphaned
      <3>3. CASE \E t \in Tag : RemoveForced(t)
        BY <3>1, <3>3 DEF RemoveForced
      <3> QED BY <1>2, <3>1, <3>2, <3>3
          DEF StoreNext, Pull, PruneNames, PruneRefs, PruneDone, PruneHold,
              PruneImage, DanglingList, DanglingHeld, RemoveResolve,
              RemoveHeld, RemoveRmi
    <2>5. UNCHANGED <<file, cmd, known, faults>>
      BY <1>2 DEF StoreNext, Pull, PruneNames, PruneRefs, PrunePlan,
            PruneDone, PruneHold, PruneImage, DanglingList, DanglingHeld,
            RemoveResolve, RemoveHeld, RemoveRmi, RemoveForced
    <2> QED BY <2>1, <2>2, <2>3, <2>4, <2>5 DEF Open
  <1>3. CASE UNCHANGED vars \/ Upgrade
    BY <1>3 DEF vars, Upgrade, Open
  <1> QED BY <1>1, <1>2, <1>3 DEF Next

-------------------------------------------------------------------------------
(* The invariant behind the safety properties. *)

\* A hold pins content that is in the store, and says so unless it was made by a
\* podman that told no ids.
HoldsTell ==
  \A h \in holds :
    /\ h.pin \in present
    /\ \/ h.label = h.pin /\ h.image = h.pin
       \/ h.label = NoId /\ h.image \in Tag

\* Guest g has a hold on content i, made under the reference t.
Backed(g, i, t) ==
  \E h \in holds : /\ h.for = g /\ h.pin = i
                   /\ h.label = NoId => h.image = t

\* A prune in progress spares the guests that its plan did not meet half made.
Spared ==
  /\ gc.op # "prune" => gc.rm = {}
  /\ \A g \in gc.rm : Exists(g) \/ cmd[g].op = "create" => g \in shaken

\* What a create and a scrub know of their image as long as nothing moved it.
Resolving(g) ==
  /\ cmd[g].image \in Tag /\ cmd[g].layers \in Id
  /\ tag[cmd[g].image] = cmd[g].layers

Creating ==
  \A g \in Guest : cmd[g].op = "create" =>
    /\ ~Exists(g) /\ cmd[g].step \in {"hold", "files"}
    /\ g \notin shaken =>
         /\ Resolving(g)
         /\ cmd[g].step = "files" => Backed(g, cmd[g].layers, cmd[g].image)

Scrubbing ==
  \A g \in Guest : cmd[g].op = "scrub" =>
    /\ Exists(g) /\ file[g].image = cmd[g].image
    /\ cmd[g].step \in Steps \ {"none", "hold", "files"}
    /\ g \notin shaken =>
         /\ Resolving(g)
         /\ cmd[g].step # "id" => known /\ file[g].id = cmd[g].layers
         /\ cmd[g].step \in {"repin", "unpin", "pin", "hook"}
              => file[g].layers = cmd[g].layers
         /\ cmd[g].step = "hook" => Backed(g, cmd[g].layers, cmd[g].image)

\* A guest at rest that nothing has shaken runs on what its hold pins.
Resting ==
  \A g \in Guest : Settled(g) =>
    /\ file[g].layers \in Id /\ file[g].hook = file[g].layers
    /\ file[g].id \in {NoId, file[g].layers}
    /\ Backed(g, file[g].layers, file[g].image)

\* How far the clearing of the upper directory is.
Clearing ==
  \A g \in Guest :
    /\ file[g].upper \in {"none", "whole"}
    /\ Settled(g) => file[g].upper = "whole" /\ file[g].old = "none"
    /\ cmd[g].op = "scrub" =>
         /\ cmd[g].step = "rename" => file[g].old = "none"
         /\ cmd[g].step \in {"rmtree", "layers", "repin", "unpin", "pin", "hook"}
              => file[g].upper = "whole"
         /\ cmd[g].step \in {"layers", "repin", "unpin", "pin", "hook"}
              => file[g].old = "none"

IInv == /\ TypeOK /\ HoldsTell /\ Spared /\ Creating /\ Scrubbing /\ Resting
        /\ Clearing

LEMMA StepInv == IInv /\ [Next]_vars => IInv'
  <1> SUFFICES ASSUME IInv, [Next]_vars PROVE IInv'
    OBVIOUS
  <1>t. TypeOK /\ TypeOK'
    BY StepTyped DEF IInv
  <1> USE ImagesAssumption
      DEF IInv, store, At, Goto, Idle, Absent, GcIdle, Exists, Settled, Open,
          Resolving, Backed, HoldsOf, CmdType, FileType, HoldType, GcType, Steps
  <1>1. ASSUME NEW g \in Guest, GuestNext(g) PROVE IInv'
    <2>1. CASE \E t \in Tag : CreateBegin(g, t)
      BY <1>t, <2>1
      DEF CreateBegin, Settle, resolve_layers, TypeOK, HoldsTell, Spared,
          Creating, Scrubbing, Resting, Clearing
    <2>2. CASE CreateHold(g)
      <3>1. /\ UNCHANGED <<store, file, gc, known>> /\ shaken \subseteq shaken'
            /\ cmd[g].op = "create" /\ cmd[g].step = "hold"
            /\ cmd' = [cmd EXCEPT ![g].step = "files"] /\ holds \subseteq holds'
        BY <2>2 DEF CreateHold, create_image_hold, NoHold
      <3>2. /\ \A q \in Guest \ {g} : cmd'[q] = cmd[q]
            /\ cmd'[g].op = "create" /\ cmd'[g].step = "files"
            /\ cmd'[g].image = cmd[g].image /\ cmd'[g].layers = cmd[g].layers
        BY <1>t, <3>1 DEF TypeOK
      <3>3. cmd[g].image \in Tag
        BY <1>t, <3>1 DEF TypeOK
      <3>4. \/ UNCHANGED holds /\ g \in shaken'
            \/ \E h \in HoldType :
                 /\ holds' = holds \cup {h}
                 /\ h.for = g /\ h.pin = tag[cmd[g].image]
                 /\ tag[cmd[g].image] \in present
                 /\ \/ h.label = h.pin /\ h.image = h.pin
                    \/ h.label = NoId /\ h.image = cmd[g].image
        BY <1>t, <2>2, <3>3, HoldMade DEF CreateHold, NoHold
      <3>5. HoldsTell'
        BY <3>1, <3>3, <3>4 DEF HoldsTell
      <3>6. Spared'
        BY <3>1, <3>2 DEF Spared, TypeOK
      <3>7. g \notin shaken' => cmd[g].layers \in Id /\ tag[cmd[g].image] = cmd[g].layers
        BY <3>1 DEF Creating
      <3>8. g \notin shaken' => Backed(g, cmd[g].layers, cmd[g].image)'
        <4> SUFFICES ASSUME g \notin shaken' PROVE Backed(g, cmd[g].layers, cmd[g].image)'
          OBVIOUS
        <4>1. PICK h \in holds' : /\ h.for = g /\ h.pin = cmd[g].layers
                                  /\ h.label = h.pin \/ h.image = cmd[g].image
          BY <3>4, <3>7
        <4>2. cmd'[g] = [cmd[g] EXCEPT !.step = "files"] /\ cmd[g].layers # NoId
          BY <1>t, <3>1, <3>7, ImagesAssumption DEF TypeOK
        <4>3. cmd'[g].image = cmd[g].image /\ cmd'[g].layers = cmd[g].layers
          BY <3>2
        <4> QED BY <4>1, <4>2, <4>3
      <3>9. \A q \in Guest : \A i, t : Backed(q, i, t) => Backed(q, i, t)'
        BY <3>1
      <3> HIDE DEF Backed
      <3>10. Creating' /\ Scrubbing'
        BY <3>1, <3>2, <3>7, <3>8, <3>9 DEF Creating, Scrubbing
      <3>11. Resting' /\ Clearing'
        BY <3>1, <3>2, <3>9 DEF Resting, Clearing
      <3> QED BY <1>t, <3>5, <3>6, <3>10, <3>11
    <2>3. CASE CreateFiles(g)
      BY <1>t, <2>3
      DEF CreateFiles, resolve_image_id, TypeOK, HoldsTell, Spared, Creating,
          Scrubbing, Resting, Clearing
    <2>4. CASE CreateFail(g)
      BY <1>t, <2>4
      DEF CreateFail, TypeOK, HoldsTell, Spared, Creating, Scrubbing, Resting,
          Clearing
    <2>5. CASE Kill(g)
      BY <1>t, <2>5
      DEF Kill, TypeOK, HoldsTell, Spared, Creating, Scrubbing, Resting, Clearing
    <2>6. CASE Start(g)
      BY <1>t, <2>6, HoldMade
      DEF Start, create_image_hold, TypeOK, HoldsTell, Spared, Creating,
          Scrubbing, Resting, Clearing
    <2>7. CASE ScrubBegin(g)
      BY <1>t, <2>7
      DEF ScrubBegin, Settle, resolve_layers, TypeOK, HoldsTell, Spared, Creating,
          Scrubbing, Resting, Clearing
    <2>8. CASE ScrubId(g)
      BY <1>t, <2>8
      DEF ScrubId, resolve_image_id, TypeOK, HoldsTell, Spared, Creating,
          Scrubbing, Resting, Clearing
    <2>9. CASE ScrubRefuse(g)
      BY <1>t, <2>9
      DEF ScrubRefuse, TypeOK, HoldsTell, Spared, Creating, Scrubbing, Resting,
          Clearing
    <2>10. CASE ClearSweep(g)
      BY <1>t, <2>10
      DEF ClearSweep, TypeOK, HoldsTell, Spared, Creating, Scrubbing, Resting,
          Clearing
    <2>11. CASE ClearRename(g)
      BY <1>t, <2>11
      DEF ClearRename, TypeOK, HoldsTell, Spared, Creating, Scrubbing, Resting,
          Clearing
    <2>12. CASE ClearMkdir(g)
      BY <1>t, <2>12
      DEF ClearMkdir, TypeOK, HoldsTell, Spared, Creating, Scrubbing, Resting,
          Clearing
    <2>13. CASE ClearRmtree(g)
      <3>0. /\ UNCHANGED <<store, holds, gc, shaken, known>>
            /\ cmd[g].op = "scrub" /\ cmd'[g].op = "scrub"
            /\ \A q \in Guest \ {g} : cmd'[q] = cmd[q] /\ file'[q] = file[q]
        BY <1>t, <2>13 DEF ClearRmtree, TypeOK
      <3>1. HoldsTell'
        BY <1>t, <2>13 DEF ClearRmtree, TypeOK, HoldsTell
      <3>2. Spared'
        BY <3>0 DEF Spared, Scrubbing, TypeOK
      <3>3. Creating'
        BY <3>0 DEF Creating
      <3>4. Scrubbing'
        BY <1>t, <2>13 DEF ClearRmtree, TypeOK, HoldsTell, Spared, Scrubbing
      <3>5. Resting'
        BY <3>0 DEF Resting
      <3>6. Clearing'
        BY <1>t, <2>13 DEF ClearRmtree, TypeOK, Spared, Clearing, Scrubbing
      <3> QED BY <1>t, <3>1, <3>2, <3>3, <3>4, <3>5, <3>6
    <2>14. CASE ScrubLayers(g)
      BY <1>t, <2>14
      DEF ScrubLayers, TypeOK, HoldsTell, Spared, Creating, Scrubbing, Resting,
          Clearing
    <2>15. CASE RepinLook(g)
      <3>1. HoldsTell'
        BY <1>t, <2>15
        DEF RepinLook, resolve_image_id, hold_pinned_id, TypeOK, HoldsTell
      <3>2. Spared'
        <4>1. UNCHANGED <<gc, file>> /\ shaken \subseteq shaken'
          BY <2>15 DEF RepinLook
        <4>2. \E step \in Steps : cmd' = [cmd EXCEPT ![g].step = step]
          BY <2>15 DEF RepinLook
        <4>3. \A q \in Guest : cmd'[q].op = cmd[q].op
          BY <1>t, <4>2 DEF TypeOK
        <4> QED BY <1>t, <4>1, <4>3 DEF Spared, TypeOK
      <3>3. Creating'
        BY <1>t, <2>15
        DEF RepinLook, resolve_image_id, hold_pinned_id, TypeOK, HoldsTell,
            Spared, Creating
      <3>4. Scrubbing'
        BY <1>t, <2>15
        DEF RepinLook, resolve_image_id, hold_pinned_id, TypeOK, HoldsTell,
            Spared, Scrubbing
      <3>5. Resting'
        BY <1>t, <2>15
        DEF RepinLook, resolve_image_id, hold_pinned_id, TypeOK, HoldsTell,
            Spared, Resting, Creating, Scrubbing
      <3>6. Clearing'
        BY <1>t, <2>15
        DEF RepinLook, resolve_image_id, hold_pinned_id, TypeOK, Spared, Clearing,
            Scrubbing
      <3> QED BY <1>t, <3>1, <3>2, <3>3, <3>4, <3>5, <3>6
    <2>16. CASE RepinRemove(g)
      BY <1>t, <2>16
      DEF RepinRemove, TypeOK, HoldsTell, Spared, Creating, Scrubbing, Resting,
          Clearing
    <2>17. CASE RepinCreate(g)
      BY <1>t, <2>17, HoldMade
      DEF RepinCreate, create_image_hold, NoHold, TypeOK, HoldsTell, Spared,
          Creating, Scrubbing, Resting, Clearing
    <2>18. CASE ScrubHook(g)
      BY <1>t, <2>18
      DEF ScrubHook, TypeOK, HoldsTell, Spared, Creating, Scrubbing, Resting,
          Clearing
    <2>19. CASE DestroyHold(g)
      BY <1>t, <2>19
      DEF DestroyHold, TypeOK, HoldsTell, Spared, Creating, Scrubbing, Resting,
          Clearing
    <2>20. CASE DestroyFiles(g)
      BY <1>t, <2>20
      DEF DestroyFiles, TypeOK, HoldsTell, Spared, Creating, Scrubbing, Resting,
          Clearing
    <2> QED BY <1>1, <2>1, <2>2, <2>3, <2>4, <2>5, <2>6, <2>7, <2>8, <2>9, <2>10,
       <2>11, <2>12, <2>13, <2>14, <2>15, <2>16, <2>17, <2>18, <2>19, <2>20
    DEF GuestNext
  <1>2. ASSUME StoreNext PROVE IInv'
    <2> HIDE DEF Idle, Absent, Exists, Settled, Open, Resolving, Backed, HoldsOf,
             CmdType, FileType, Steps
    <2>1. /\ UNCHANGED <<file, cmd, known, faults>> /\ shaken \subseteq shaken'
          /\ \A g \in Guest : (Exists(g) <=> Exists(g)') /\ (Open(g) <=> Open(g)')
      BY <1>2 DEF StoreNext, Pull, PruneNames, PruneRefs, PrunePlan, PruneDone,
            PruneHold, PruneImage, DanglingList, DanglingHeld, RemoveResolve,
            RemoveHeld, RemoveRmi, RemoveForced, Exists, Open
    <2>2. HoldsTell'
      <3>1. CASE UNCHANGED <<tag, present, holds>>
        BY <2>1, <3>1 DEF HoldsTell
      <3>2. CASE \E t \in Tag, i \in Id : Pull(t, i)
        BY <3>2 DEF Pull, HoldsTell
      <3>3. CASE \E g \in Guest : PruneHold(g)
        BY <3>3 DEF PruneHold, HoldsTell
      <3>4. CASE UNCHANGED holds /\ \E x \in Id \cup Tag : Rmi(x)
        BY <1>t, <2>1, <3>4, Removed DEF HoldsTell, InUse
      <3>5. CASE \E t \in Tag : RemoveForced(t)
        BY <2>1, <3>5 DEF RemoveForced, HoldsTell
      <3>6. CASE RemoveRmi
        <4>1. CASE UNCHANGED store
          BY <3>1, <3>6, <4>1 DEF RemoveRmi
        <4>2. CASE \E t \in Tag : RmiTag(t)
          <5>1. \E t \in Id \cup Tag : Rmi(t)
            BY <4>2 DEF Rmi
          <5> QED BY <3>4, <3>6, <5>1 DEF RemoveRmi
        <4> QED BY <1>t, <3>6, <4>1, <4>2 DEF RemoveRmi, TypeOK
      <3>7. CASE \E x \in Id \cup Tag : PruneImage(x)
        BY <3>4, <3>7 DEF PruneImage
      <3> QED BY <1>2, <3>1, <3>2, <3>3, <3>5, <3>6, <3>7
          DEF StoreNext, PruneNames, PruneRefs, PrunePlan, PruneDone,
              DanglingList, DanglingHeld, RemoveResolve, RemoveHeld
    <2>3. Spared'
      <3>1. CASE gc'.rm \subseteq gc.rm /\ gc.op = "prune" /\ gc'.op = "prune"
        BY <1>t, <2>1, <3>1 DEF Spared, TypeOK
      <3>2. CASE gc'.rm = {}
        BY <3>2 DEF Spared
      <3>3. CASE PrunePlan
        <4>1. gc'.op = "prune" /\ gc'.rm = {h.for : h \in Orphaned}
          BY <1>t, <3>3 DEF PrunePlan, TypeOK
        <4>2. \A h \in Orphaned : Exists(h.for) \/ cmd[h.for].op = "create"
                => h.for \in shaken'
          BY <3>3 DEF PrunePlan
        <4>3. {h.for : h \in Orphaned} \subseteq Guest
          BY <1>t DEF Orphaned, TypeOK
        <4> QED BY <2>1, <4>1, <4>2, <4>3 DEF Spared
      <3>4. CASE UNCHANGED gc
        BY <1>t, <2>1, <3>4 DEF Spared, TypeOK
      <3>5. CASE \E g \in Guest : PruneHold(g)
        BY <1>t, <3>1, <3>5 DEF PruneHold, TypeOK
      <3>6. CASE \E x \in Id \cup Tag : PruneImage(x)
        BY <1>t, <3>2, <3>6 DEF PruneImage, TypeOK
      <3>7. CASE PruneDone \/ RemoveRmi
        BY <3>2, <3>7 DEF PruneDone, RemoveRmi
      <3>8. CASE PruneNames \/ DanglingList \/ \E t \in Tag : RemoveResolve(t)
        <4>1. gc = GcIdle /\ gc'.rm = gc.rm
          BY <3>8 DEF PruneNames, DanglingList, RemoveResolve
        <4> QED BY <3>2, <4>1
      <3>9. CASE PruneRefs \/ DanglingHeld \/ RemoveHeld
        <4>1. gc.op # "prune" /\ (gc' = GcIdle \/ gc'.rm = gc.rm)
          <5>1. gc \in GcType
            BY <1>t DEF TypeOK
          <5> QED BY <3>9, <5>1 DEF PruneRefs, DanglingHeld, RemoveHeld
        <4> QED BY <3>2, <4>1 DEF Spared
      <3> QED BY <1>2, <3>3, <3>4, <3>5, <3>6, <3>7, <3>8, <3>9
          DEF StoreNext, Pull, RemoveForced
    <2>4. ASSUME NEW g \in Guest, g \notin shaken', Open(g)
          PROVE  tag'[cmd[g].image] = tag[cmd[g].image]
      BY <1>2, <2>4
      DEF StoreNext, Pull, PruneNames, PruneRefs, PrunePlan, PruneDone,
          PruneHold, PruneImage, DanglingList, DanglingHeld, RemoveResolve,
          RemoveHeld, RemoveRmi, RemoveForced, Shaken
    <2>5. ASSUME NEW g \in Guest, g \notin shaken',
                 Exists(g) \/ cmd[g].op = "create"
          PROVE  \A h \in holds : h.for = g => h \in holds'
      <3>1. CASE UNCHANGED holds
        BY <3>1
      <3>2. CASE \E q \in Guest : PruneHold(q)
        BY <2>1, <2>5, <3>2 DEF PruneHold, Spared, HoldsOf
      <3>3. CASE \E t \in Tag : RemoveForced(t)
        BY <2>5, <3>3 DEF RemoveForced
      <3> QED BY <1>2, <3>1, <3>2, <3>3
          DEF StoreNext, Pull, PruneNames, PruneRefs, PrunePlan, PruneDone,
              PruneImage, DanglingList, DanglingHeld, RemoveResolve,
              RemoveHeld, RemoveRmi
    <2>6. ASSUME NEW g \in Guest, g \notin shaken',
                 Exists(g) \/ cmd[g].op = "create", NEW i, NEW t, Backed(g, i, t)
          PROVE  Backed(g, i, t)'
      BY <2>1, <2>5, <2>6 DEF Backed
    <2>7. Creating'
      BY <2>1, <2>4, <2>6 DEF Creating, Resolving, Open
    <2>8. Scrubbing'
      BY <2>1, <2>4, <2>6 DEF Scrubbing, Resolving, Open
    <2>9. Resting'
      BY <2>1, <2>6 DEF Resting, Settled
    <2>10. Clearing'
      BY <2>1 DEF Clearing, Settled
    <2> QED BY <1>t, <2>2, <2>3, <2>7, <2>8, <2>9, <2>10
  <1>3. CASE UNCHANGED vars \/ Upgrade
    BY <1>t, <1>3
    DEF vars, Upgrade, HoldsTell, Spared, Creating, Scrubbing, Resting, Clearing
  <1> QED BY <1>1, <1>2, <1>3 DEF Next

LEMMA InitInv == Init => IInv
  BY ImagesAssumption, InitTyped
  DEF Init, IInv, TypeOK, HoldsTell, Spared, Creating, Scrubbing, Resting,
     Clearing,
      Settled, Exists, Idle, Absent, GcIdle

LEMMA Invariance == Spec => []IInv
  <1> QED BY InitInv, StepInv, PTL DEF Spec

-------------------------------------------------------------------------------
(* The theorems. *)

\* A tag names an image that is there, and a guest has at most one hold: the
\* deterministic name kento-hold.<guest> (layers.py:197-215) and podman's own rule
\* that a container name is used once.
THEOREM ImagesTyped == Spec => []TypeOK
  <1>1. IInv => TypeOK
    BY DEF IInv
  <1> QED BY Invariance, <1>1, PTL

\* Whatever is pulled, pruned, removed or killed meanwhile, a guest whose last
\* create or scrub met no moved tag and no fault has its layers in the store,
\* pinned by its own hold; its hook and its kento-image-id tell of the same content
\* (create.py:1115-1180, layers.py:197-271, reset.py:50-60, 172-205).
THEOREM GuestsBacked == Spec => []GuestBacked
  <1>1. IInv => GuestBacked
    <2> SUFFICES ASSUME IInv, NEW g \in Guest, Settled(g)
                 PROVE  /\ file[g].layers \in present
                        /\ file[g].hook = file[g].layers
                        /\ file[g].id \in {NoId, file[g].layers}
                        /\ \E h \in HoldsOf(g) : /\ h.pin = file[g].layers
                                                /\ h.label \in {NoId, h.pin}
      BY DEF GuestBacked
    <2>1. PICK h \in holds : h.for = g /\ h.pin = file[g].layers
      BY DEF IInv, Resting, Backed
    <2>2. h.pin \in present /\ h.label \in {NoId, h.pin}
      BY DEF IInv, HoldsTell
    <2>3. h \in HoldsOf(g)
      BY <2>1 DEF HoldsOf
    <2> QED BY <2>1, <2>2, <2>3 DEF IInv, Resting
  <1> QED BY Invariance, <1>1, PTL

\* _safe_clear_dir (reset.py:17-30): the directory a guest boots from is never a
\* half removed one, and a scrub that ended leaves no copy set aside.
THEOREM ClearsWhole == Spec => []ClearWhole
  <1>1. IInv => ClearWhole
    BY DEF IInv, Clearing, ClearWhole
  <1> QED BY Invariance, <1>1, PTL

\* The ledger (_images.py:195-655): once podman tells ids, a backed guest's hold stands
\* in the record of the content the guest runs on, which resolves, and which is called
\* orphaned only when the guest's tag has moved away; also the hold of a podman that
\* told none, as long as its tag has not moved.
THEOREM LedgerTells == Spec => []LedgerTrue
  <1>1. IInv => LedgerTrue
    <2> SUFFICES ASSUME IInv, NEW g \in Guest, Settled(g),
                        known, GuestId(g) = file[g].layers \/ NoId \notin hold_pinned_id(g)
                 PROVE  \E r \in RecordGet(file[g].layers) :
                          /\ RecordResolves(r)
                          /\ \E h \in r.holds : h.for = g
                          /\ Status(r) = "orphaned" => GuestId(g) # file[g].layers
      BY DEF LedgerTrue
    <2> DEFINE i == file[g].layers
               r == RecordFor(i)
    <2>1. i \in Id /\ i # NoId
      BY ImagesAssumption DEF IInv, Resting
    <2>2. PICK h \in holds : /\ h.for = g /\ h.pin = i
                             /\ h.label = NoId => h.image = file[g].image
      BY DEF IInv, Resting, Backed
    <2>3. HoldId(h) = i
      <3>1. CASE h.label = h.pin
        BY <2>1, <2>2, <3>1 DEF HoldId, Pinned, CoerceToId
      <3>2. CASE h.label = NoId /\ h.image \in Tag
        <4>1. NoId \in hold_pinned_id(g)
          BY <2>2, <3>2 DEF hold_pinned_id, HoldsOf
        <4>2. resolve_image_id(file[g].image) = i
          BY <4>1 DEF GuestId
        <4>3. h.image \notin Id
          BY <3>2, ImagesAssumption
        <4> QED BY <2>2, <3>2, <4>2, <4>3 DEF HoldId, Pinned, CoerceToId
      <3> QED BY <3>1, <3>2 DEF IInv, HoldsTell
    <2>4. r \in RecordGet(i)
      <3>1. i \in ({GuestId(q) : q \in guest_names}
                    \cup {HoldId(k) : k \in holds}) \ {NoId}
        BY <2>1, <2>3
      <3>2. r \in ImageRecords
        BY <3>1 DEF ImageRecords
      <3>3. r.id = i /\ CoerceToId(i) = i
        BY <2>1 DEF RecordFor, CoerceToId
      <3> QED BY <3>2, <3>3 DEF RecordGet
    <2>5. RecordResolves(r)
      BY <2>2 DEF IInv, HoldsTell, RecordResolves, RecordFor
    <2>6. \E k \in r.holds : k.for = g
      BY <2>2, <2>3 DEF RecordFor
    <2>7. Status(r) = "orphaned" => GuestId(g) # i
      <3> SUFFICES ASSUME GuestId(g) = i PROVE r.guests # {}
        BY DEF Status
      <3>1. g \in guest_names
        BY DEF Settled, guest_names
      <3> QED BY <3>1 DEF RecordFor
    <2> QED BY <2>4, <2>5, <2>6, <2>7
  <1> QED BY Invariance, <1>1, PTL
===============================================================================
