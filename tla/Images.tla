------------------------------- MODULE Images -------------------------------
(***************************************************************************)
(* The image store of podman and what kento keeps about it: the files      *)
(* kento-image, kento-image-id, kento-layers and kento-hook of each guest, *)
(* the hold containers that pin an image for it, the commands that write   *)
(* them (create, scrub, destroy) and those that free images (prune, the    *)
(* dangling prune, remove).  None of them takes a lock, so the collector's *)
(* reads and removals interleave with the guests' commands.                *)
(*                                                                         *)
(* podman itself is external: a tag names one content id, an image that a  *)
(* container was made from is not removed, a container name is used once.  *)
(***************************************************************************)
EXTENDS Naturals, FiniteSets

CONSTANTS
  Guest,     \* instances; the hold of g is the container kento-hold.g
  Tag,       \* image references, what kento-image holds
  Id,        \* content ids
  NoTag,     \* no kento-image file: there is no such guest
  NoId,      \* the reference resolves to nothing, or the file is absent
  Known,     \* does podman tell ids at first: TRUE, or FALSE for one so old
             \* that resolve_image_id answers "", which may be upgraded
  Moves,     \* pairs of ids: what the registry replaces by what under a tag
  MaxBusy,   \* bound on guests with a command at work
  MaxFaults  \* bound on kills of kento and failures of podman create

ASSUME ImagesAssumption ==
  /\ NoId \notin Id /\ NoTag \notin Tag /\ Id \cap Tag = {}
  /\ Known \subseteq BOOLEAN /\ Moves \subseteq Id \X Id
  /\ MaxBusy \in Nat /\ MaxFaults \in Nat

VARIABLES
  tag,      \* tag -> content id in the local store
  present,  \* content ids in the local store
  holds,    \* the hold containers
  file,     \* guest -> its files
  cmd,      \* guest -> the command at work on it
  gc,       \* the one command that frees images
  shaken,   \* guests whose last create or scrub met a moved tag or a fault
  known,    \* the podman of this host tells ids by now
  faults

store == <<tag, present>>
vars == <<tag, present, holds, file, cmd, gc, shaken, known, faults>>

Idle == [op |-> "none", step |-> "none", image |-> NoTag, layers |-> NoId]
Absent == [image |-> NoTag, id |-> NoId, layers |-> NoId, hook |-> NoId,
           upper |-> "none", old |-> "none"]
GcIdle == [op |-> "none", names |-> {}, refs |-> {}, rm |-> {}, rmi |-> {}]

Exists(g) == file[g].image # NoTag
HoldsOf(g) == {h \in holds : h.for = g}
TagsOf(i) == {t \in Tag : tag[t] = i}
InUse(i) == \E h \in holds : h.pin = i

Open(g) == cmd[g].op \in {"create", "scrub"}
Settled(g) == Exists(g) /\ cmd[g] = Idle /\ g \notin shaken

Free == Cardinality({g \in Guest : cmd[g] # Idle}) < MaxBusy

(* The guests under whose command the tag it resolved moves in this step.  *)
Shaken == {g \in Guest : Open(g) /\ tag'[cmd[g].image] # tag[cmd[g].image]}

(* A new create or scrub makes good what an earlier one met, unless a      *)
(* prune still has the guest's hold on its list.                           *)
Settle(g) == IF g \in gc.rm THEN shaken \cup {g} ELSE shaken \ {g}

Steps == {"none", "hold", "files",
          "id", "sweep", "rename", "mkdir", "rmtree", "layers",
          "repin", "unpin", "pin", "hook"}
CmdType == [op : {"none", "create", "scrub", "destroy"}, step : Steps,
            image : Tag \cup {NoTag}, layers : Id \cup {NoId}]
FileType == [image : Tag \cup {NoTag}, id : Id \cup {NoId},
             layers : Id \cup {NoId}, hook : Id \cup {NoId},
             upper : {"none", "part", "whole"}, old : {"none", "part", "whole"}]
HoldType == [for : Guest, pin : Id, label : Id \cup {NoId}, image : Id \cup Tag]
GcType == [op : {"none", "names", "refs", "prune", "list", "dangling",
                 "remove", "rmi"},
           names : SUBSET Guest, refs : SUBSET Tag, rm : SUBSET Guest,
           rmi : SUBSET (Id \cup Tag)]

(* No image is lost while a tag names it, no guest has two holds.          *)
TypeOK ==
  /\ tag \in [Tag -> Id \cup {NoId}] /\ present \subseteq Id
  /\ \A t \in Tag : tag[t] # NoId => tag[t] \in present
  /\ holds \subseteq HoldType
  /\ \A h, k \in holds : h.for = k.for => h = k
  /\ file \in [Guest -> FileType] /\ cmd \in [Guest -> CmdType]
  /\ \A g \in Guest : Open(g) => cmd[g].image \in Tag /\ cmd[g].layers \in Id
  /\ gc \in GcType
  /\ shaken \subseteq Guest /\ known \in BOOLEAN /\ faults \in 0 .. MaxFaults

Init ==
  /\ tag \in [Tag -> Id] /\ present = {tag[t] : t \in Tag}
  /\ holds = {} /\ file = [g \in Guest |-> Absent]
  /\ cmd = [g \in Guest |-> Idle] /\ gc = GcIdle
  /\ shaken = {} /\ known \in Known /\ faults = 0

-----------------------------------------------------------------------------
(* podman *)

Pull(t, i) ==
  /\ tag[t] = NoId \/ <<tag[t], i>> \in Moves
  /\ tag' = [tag EXCEPT ![t] = i] /\ present' = present \cup {i}
  /\ shaken' = shaken \cup Shaken
  /\ UNCHANGED <<holds, file, cmd, gc, known, faults>>

(* Its own upgrade: holds that were made by tag stay as they are.          *)
Upgrade ==
  /\ ~known /\ known' = TRUE
  /\ UNCHANGED <<store, holds, file, cmd, gc, shaken, faults>>

(* podman rmi of an id, or of a tag: the image goes with its last name,    *)
(* unless a container was made from it.                                    *)
RmiId(i) ==
  IF ~InUse(i) /\ Cardinality(TagsOf(i)) <= 1
  THEN /\ present' = present \ {i}
       /\ tag' = [t \in Tag |-> IF tag[t] = i THEN NoId ELSE tag[t]]
  ELSE UNCHANGED store

RmiTag(t) ==
  IF TagsOf(tag[t]) = {t}
  THEN RmiId(tag[t])
  ELSE tag' = [tag EXCEPT ![t] = NoId] /\ UNCHANGED present

Rmi(x) == IF x \in Id THEN RmiId(x) ELSE RmiTag(x)

-----------------------------------------------------------------------------
(* layers.py: the hold of a guest.  The exit status of podman is not looked *)
(* at, so a hold that could not be made goes unnoticed.                     *)

create_image_hold(g, t) ==
  /\ HoldsOf(g) = {} /\ tag[t] # NoId
  /\ holds' = holds \cup
       {[for |-> g, pin |-> tag[t], label |-> IF known THEN tag[t] ELSE NoId,
         image |-> IF known THEN tag[t] ELSE t]}

(* podman create fails: of a fault, or because the name is taken or the    *)
(* image is gone.                                                          *)
NoHold(g, t) ==
  /\ \/ HoldsOf(g) # {} \/ tag[t] = NoId
     \/ faults < MaxFaults
  /\ faults' = IF HoldsOf(g) # {} \/ tag[t] = NoId THEN faults ELSE faults + 1
  /\ UNCHANGED holds

resolve_layers(t) == tag[t]

ResolveToRef(t) == t
resolve_image_id(t) == IF known THEN tag[t] ELSE NoId

hold_pinned_id(g) == {h.label : h \in HoldsOf(g)}

-----------------------------------------------------------------------------
(* create.py, as far as images are concerned *)

CreateBegin(g, t) ==
  /\ ~Exists(g) /\ cmd[g] = Idle /\ Free /\ tag[t] # NoId
  /\ cmd' = [cmd EXCEPT ![g] = [op |-> "create", step |-> "hold",
                                image |-> t, layers |-> resolve_layers(t)]]
  /\ shaken' = Settle(g)
  /\ UNCHANGED <<store, holds, file, gc, known, faults>>

CreateHold(g) ==
  /\ cmd[g].op = "create" /\ cmd[g].step = "hold"
  /\ cmd' = [cmd EXCEPT ![g].step = "files"]
  /\ \/ /\ create_image_hold(g, cmd[g].image)
        /\ UNCHANGED <<shaken, known, faults>>
     \/ NoHold(g, cmd[g].image) /\ shaken' = shaken \cup {g}
  /\ UNCHANGED <<store, file, gc, known>>

CreateFiles(g) ==
  /\ cmd[g].op = "create" /\ cmd[g].step = "files"
  /\ file' = [file EXCEPT ![g] =
                  [image |-> cmd[g].image,
                   id |-> resolve_image_id(cmd[g].image),
                   layers |-> cmd[g].layers, hook |-> cmd[g].layers,
                   upper |-> "whole", old |-> "none"]]
  /\ cmd' = [cmd EXCEPT ![g] = Idle]
  /\ UNCHANGED <<store, holds, gc, shaken, known, faults>>

(* A later step fails, or the process dies at once: only the first undoes. *)
CreateFail(g) ==
  /\ cmd[g].op = "create"
  /\ cmd[g].step = "files" /\ faults < MaxFaults
  /\ faults' = faults + 1
  /\ holds' = holds \ HoldsOf(g)
  /\ cmd' = [cmd EXCEPT ![g] = Idle]
  /\ UNCHANGED <<store, file, gc, shaken, known>>

Kill(g) ==
  /\ cmd[g].op # "none" /\ faults < MaxFaults
  /\ faults' = faults + 1
  /\ cmd' = [cmd EXCEPT ![g] = Idle]
  /\ shaken' = shaken \cup {g}
  /\ UNCHANGED <<store, holds, file, gc, known>>

(* start.py: ensure_image_hold pins what the tag names now, whatever the   *)
(* guest's layers are.                                                     *)
Start(g) ==
  /\ Exists(g) /\ cmd[g] = Idle /\ HoldsOf(g) = {}
  /\ create_image_hold(g, file[g].image)
  /\ UNCHANGED <<store, file, cmd, gc, shaken, known, faults>>

-----------------------------------------------------------------------------
(* reset.py: scrub *)

At(g, step) == cmd[g].op = "scrub" /\ cmd[g].step = step
Goto(g, step) == cmd' = [cmd EXCEPT ![g].step = step]

ScrubBegin(g) ==
  /\ Exists(g) /\ cmd[g] = Idle /\ Free /\ tag[file[g].image] # NoId
  /\ cmd' = [cmd EXCEPT ![g] =
               [op |-> "scrub", step |-> "id", image |-> file[g].image,
                layers |-> resolve_layers(file[g].image)]]
  /\ shaken' = Settle(g)
  /\ UNCHANGED <<store, holds, file, gc, known, faults>>

ScrubId(g) ==
  /\ At(g, "id") /\ Goto(g, "sweep")
  /\ LET i == resolve_image_id(cmd[g].image) IN
       IF i # NoId
       THEN file' = [file EXCEPT ![g].id = i] /\ UNCHANGED shaken
       ELSE shaken' = shaken \cup {g} /\ UNCHANGED file
  /\ UNCHANGED <<store, holds, gc, known, faults>>

(* rootfs cannot be unmounted: StateError, and nothing else was touched.   *)
ScrubRefuse(g) ==
  /\ At(g, "sweep") /\ faults < MaxFaults
  /\ faults' = faults + 1 /\ shaken' = shaken \cup {g}
  /\ cmd' = [cmd EXCEPT ![g] = Idle]
  /\ UNCHANGED <<store, holds, file, gc, known>>

(* _safe_clear_dir: sweep what an earlier crash left, move the directory   *)
(* aside, make it anew, remove the old one entry by entry.                 *)
ClearSweep(g) ==
  /\ At(g, "sweep") /\ Goto(g, "rename")
  /\ file' = [file EXCEPT ![g].old = "none"]
  /\ UNCHANGED <<store, holds, gc, shaken, known, faults>>

ClearInPlace(g) ==
  /\ At(g, "rename") /\ Goto(g, "mkdir")
  /\ file' = [file EXCEPT ![g].upper = "part"]
  /\ UNCHANGED <<store, holds, gc, shaken, known, faults>>

ClearRename(g) ==
  /\ At(g, "rename") /\ Goto(g, "mkdir")
  /\ file' = [file EXCEPT ![g].upper = "none", ![g].old = file[g].upper]
  /\ UNCHANGED <<store, holds, gc, shaken, known, faults>>

ClearMkdir(g) ==
  /\ At(g, "mkdir") /\ Goto(g, "rmtree")
  /\ file' = [file EXCEPT ![g].upper = "whole"]
  /\ UNCHANGED <<store, holds, gc, shaken, known, faults>>

ClearRmtree(g) ==
  /\ At(g, "rmtree")
  /\ IF file[g].old = "whole"
     THEN file' = [file EXCEPT ![g].old = "part"] /\ UNCHANGED cmd
     ELSE file' = [file EXCEPT ![g].old = "none"] /\ Goto(g, "layers")
  /\ UNCHANGED <<store, holds, gc, shaken, known, faults>>

(* Settings are injected into the fresh directory, then the layers written. *)
ScrubLayers(g) ==
  /\ At(g, "layers") /\ Goto(g, "repin")
  /\ file' = [file EXCEPT ![g].layers = cmd[g].layers]
  /\ UNCHANGED <<store, holds, gc, shaken, known, faults>>

RepinEnsure(g) ==
  /\ At(g, "repin")
  /\ IF HoldsOf(g) # {} THEN Goto(g, "hook") ELSE Goto(g, "pin")
  /\ UNCHANGED <<store, holds, file, gc, shaken, known, faults>>

(* repin_image_hold: nothing to do, make the missing one, or remove and    *)
(* make again, in two calls of podman.                                     *)
RepinLook(g) ==
  /\ At(g, "repin")
  /\ LET target == resolve_image_id(cmd[g].image) IN
       IF target # NoId
       THEN /\ IF target \in hold_pinned_id(g) THEN Goto(g, "hook")
                                               ELSE Goto(g, "unpin")
            /\ UNCHANGED shaken
       ELSE /\ IF HoldsOf(g) # {} THEN Goto(g, "hook") ELSE Goto(g, "pin")
            /\ shaken' = shaken \cup {g}
  /\ UNCHANGED <<store, holds, file, gc, known, faults>>

RepinRemove(g) ==
  /\ At(g, "unpin") /\ Goto(g, "pin")
  /\ holds' = holds \ HoldsOf(g)
  /\ UNCHANGED <<store, file, gc, shaken, known, faults>>

RepinCreate(g) ==
  /\ At(g, "pin") /\ Goto(g, "hook")
  /\ \/ /\ create_image_hold(g, cmd[g].image)
        /\ UNCHANGED <<shaken, known, faults>>
     \/ NoHold(g, cmd[g].image) /\ shaken' = shaken \cup {g}
  /\ UNCHANGED <<store, file, gc, known>>

ScrubHook(g) ==
  /\ At(g, "hook")
  /\ file' = [file EXCEPT ![g].hook = cmd[g].layers]
  /\ cmd' = [cmd EXCEPT ![g] = Idle]
  /\ UNCHANGED <<store, holds, gc, shaken, known, faults>>

-----------------------------------------------------------------------------
(* destroy.py: the hold goes first; whether podman removed it is not asked. *)

DestroyHold(g) ==
  /\ Exists(g) /\ cmd[g] = Idle /\ Free
  /\ cmd' = [cmd EXCEPT ![g] = [Idle EXCEPT !.op = "destroy"]]
  /\ \/ holds' = holds \ HoldsOf(g) /\ UNCHANGED faults
     \/ faults < MaxFaults /\ faults' = faults + 1 /\ UNCHANGED holds
  /\ UNCHANGED <<store, file, gc, shaken, known>>

DestroyFiles(g) ==
  /\ cmd[g].op = "destroy"
  /\ file' = [file EXCEPT ![g] = Absent]
  /\ cmd' = [cmd EXCEPT ![g] = Idle]
  /\ UNCHANGED <<store, holds, gc, shaken, known, faults>>

-----------------------------------------------------------------------------
(* images.py: prune(yes=True).  Three reads, a plan, then the removals.    *)

guest_names == {g \in Guest : Exists(g)}
guest_image_refs == {file[g].image : g \in guest_names}

PruneNames ==
  /\ gc = GcIdle
  /\ gc' = [gc EXCEPT !.op = "names", !.names = guest_names]
  /\ UNCHANGED <<store, holds, file, cmd, shaken, known, faults>>

PruneRefs ==
  /\ gc.op = "names"
  /\ gc' = [gc EXCEPT !.op = "refs", !.refs = guest_image_refs]
  /\ UNCHANGED <<store, holds, file, cmd, shaken, known, faults>>

Orphaned == {h \in holds : h.for \notin gc.names}
Surviving == holds \ Orphaned
Candidates ==
  {h.image : h \in Orphaned} \ (gc.refs \cup {h.image : h \in Surviving})

(* A guest whose hold is there but whose kento-image was not yet.          *)
PrunePlan ==
  /\ gc.op = "refs"
  /\ gc' = [gc EXCEPT !.op = "prune", !.rm = {h.for : h \in Orphaned},
                      !.rmi = Candidates]
  /\ shaken' = shaken \cup {h.for : h \in {x \in Orphaned :
                              Exists(x.for) \/ cmd[x.for].op = "create"}}
  /\ UNCHANGED <<store, holds, file, cmd, known, faults>>

PruneHold(g) ==
  /\ gc.op = "prune" /\ g \in gc.rm
  /\ gc' = [gc EXCEPT !.rm = @ \ {g}]
  /\ holds' = holds \ HoldsOf(g)
  /\ UNCHANGED <<store, file, cmd, shaken, known, faults>>

(* One image; its refusal is counted and the next one tried.               *)
PruneImage(x) ==
  /\ gc.op \in {"prune", "dangling"} /\ gc.rm = {} /\ x \in gc.rmi
  /\ Rmi(x)
  /\ gc' = [gc EXCEPT !.rmi = @ \ {x}]
  /\ shaken' = shaken \cup Shaken
  /\ UNCHANGED <<holds, file, cmd, known, faults>>

PruneDone ==
  /\ gc.op \in {"prune", "dangling"} /\ gc.rm = {} /\ gc.rmi = {}
  /\ gc' = GcIdle
  /\ UNCHANGED <<store, holds, file, cmd, shaken, known, faults>>

-----------------------------------------------------------------------------
(* OciImage.prune: the untagged images, less those a hold names.           *)

DanglingList ==
  /\ gc = GcIdle
  /\ gc' = [gc EXCEPT !.op = "list", !.rmi = {i \in present : TagsOf(i) = {}}]
  /\ UNCHANGED <<store, holds, file, cmd, shaken, known, faults>>

held_ids == {h.label : h \in holds} \cup {h.image : h \in holds}

DanglingHeld ==
  /\ gc.op = "list"
  /\ gc' = [gc EXCEPT !.op = "dangling", !.rmi = @ \ held_ids]
  /\ UNCHANGED <<store, holds, file, cmd, shaken, known, faults>>

(* OciImage.remove on a handle resolved before: refused when a hold names  *)
(* the id it carries, or, made by an old podman, its tag.                  *)
is_held(i, t) == \E h \in holds : h.label = i \/ h.image = i \/ h.image = t

RemoveResolve(t) ==
  /\ gc = GcIdle /\ tag[t] # NoId
  /\ gc' = [gc EXCEPT !.op = "remove", !.refs = {t}, !.rmi = {tag[t]}]
  /\ UNCHANGED <<store, holds, file, cmd, shaken, known, faults>>

RemoveHeld ==
  /\ gc.op = "remove"
  /\ gc' = IF \E t \in gc.refs, i \in gc.rmi : is_held(i, t)
           THEN GcIdle ELSE [gc EXCEPT !.op = "rmi"]
  /\ UNCHANGED <<store, holds, file, cmd, shaken, known, faults>>

RemoveRmi ==
  /\ gc.op = "rmi"
  /\ \E t \in gc.refs : IF tag[t] # NoId THEN RmiTag(t) ELSE UNCHANGED store
  /\ gc' = GcIdle
  /\ shaken' = shaken \cup Shaken
  /\ UNCHANGED <<holds, file, cmd, known, faults>>

(* remove(force=True): podman takes the containers of the image with it.   *)
RemoveForced(t) ==
  /\ gc = GcIdle /\ tag[t] # NoId
  /\ LET gone == IF TagsOf(tag[t]) = {t} THEN {h \in holds : h.pin = tag[t]} ELSE {}
     IN /\ holds' = holds \ gone
        /\ present' = IF TagsOf(tag[t]) = {t} THEN present \ {tag[t]} ELSE present
        /\ tag' = [tag EXCEPT ![t] = NoId]
        /\ shaken' = shaken \cup Shaken \cup {h.for : h \in gone}
  /\ UNCHANGED <<file, cmd, gc, known, faults>>

-----------------------------------------------------------------------------
(* _images.py: the ledger, read from the markers.                          *)

(* The id that a reference has in the ledger: NoId stands for the          *)
(* ImageNotFoundError of OciImage.resolve_id, for which it skips a guest   *)
(* and a hold; so it lists nothing at all while podman tells no ids.       *)
Pinned(h) == IF h.label # NoId THEN h.label ELSE h.image
CoerceToId(x) == IF x \in Id THEN x ELSE resolve_image_id(x)
HoldIdByTag(h) == CoerceToId(file[h.for].image)
HoldId(h) == CoerceToId(Pinned(h))
GuestId(g) == resolve_image_id(file[g].image)

RecordFor(i) ==
  LET guests == {g \in guest_names : GuestId(g) = i} IN
  [id |-> i, guests |-> guests, refs |-> {file[g].image : g \in guests},
   holds |-> {h \in holds : HoldId(h) = i}]

ImageRecords ==
  {RecordFor(i) : i \in ({GuestId(g) : g \in guest_names}
                           \cup {HoldId(h) : h \in holds}) \ {NoId}}

Status(r) == IF r.guests # {} THEN "in-use" ELSE "orphaned"
RecordGet(x) == {r \in ImageRecords : r.id = CoerceToId(x)}
RecordResolves(r) == known /\ r.id \in present

-----------------------------------------------------------------------------
(* Properties *)

(* Whatever tags move and whatever is pruned meanwhile, a guest whose last *)
(* create or scrub met no race still has its layers in the store, pinned   *)
(* by its own hold, and its hook and kento-image-id tell of the same       *)
(* content.                                                                *)
GuestBacked ==
  \A g \in Guest : Settled(g) =>
    /\ file[g].layers \in present /\ file[g].hook = file[g].layers
    /\ file[g].id \in {NoId, file[g].layers}
    /\ \E h \in HoldsOf(g) : h.pin = file[g].layers /\ h.label \in {NoId, h.pin}

(* A scrub killed anywhere leaves the upper directory whole, empty or      *)
(* absent: what is removed entry by entry is the copy set aside, never the *)
(* directory a guest boots from; and the next scrub sweeps it.             *)
ClearWhole ==
  \A g \in Guest :
    /\ file[g].upper \in {"none", "whole"}
    /\ Settled(g) => file[g].upper # "none" /\ file[g].old = "none"

(* Once podman tells ids, the ledger accounts for every guest that is      *)
(* backed: its hold stands in the one record of the content it runs on,    *)
(* that record resolves, and it is called orphaned only when the guest's   *)
(* tag has moved away.  A hold left by an old podman names its tag, and    *)
(* once that has moved, other content.                                     *)
LedgerTrue ==
  \A g \in Guest :
    known /\ Settled(g)
    /\ (GuestId(g) = file[g].layers \/ NoId \notin hold_pinned_id(g)) =>
    \E r \in RecordGet(file[g].layers) :
      /\ RecordResolves(r)
      /\ \E h \in r.holds : h.for = g
      /\ Status(r) = "orphaned" => GuestId(g) # file[g].layers

(* images.prune removes only holds whose guest no longer exists.           *)
PruneSparesGuests ==
  [][\A g \in Guest : PruneHold(g) => ~Exists(g)]_vars

-----------------------------------------------------------------------------
GuestNext(g) ==
  \/ \E t \in Tag : CreateBegin(g, t)
  \/ CreateHold(g) \/ CreateFiles(g) \/ CreateFail(g) \/ Kill(g) \/ Start(g)
  \/ ScrubBegin(g) \/ ScrubId(g) \/ ScrubRefuse(g)
  \/ ClearSweep(g) \/ ClearRename(g) \/ ClearMkdir(g) \/ ClearRmtree(g)
  \/ ScrubLayers(g) \/ RepinLook(g) \/ RepinRemove(g) \/ RepinCreate(g)
  \/ ScrubHook(g) \/ DestroyHold(g) \/ DestroyFiles(g)

StoreNext ==
  \/ \E t \in Tag, i \in Id : Pull(t, i)
  \/ PruneNames \/ PruneRefs \/ PrunePlan \/ PruneDone
  \/ \E g \in Guest : PruneHold(g)
  \/ \E x \in Id \cup Tag : PruneImage(x)
  \/ DanglingList \/ DanglingHeld
  \/ \E t \in Tag : RemoveResolve(t) \/ RemoveForced(t)
  \/ RemoveHeld \/ RemoveRmi

Next == Upgrade \/ StoreNext \/ \E g \in Guest : GuestNext(g)

Spec == Init /\ [][Next]_vars
=============================================================================
