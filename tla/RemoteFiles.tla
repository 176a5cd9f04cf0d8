---------------------------- MODULE RemoteFiles ----------------------------
(***************************************************************************)
(* The files of a remote as a backend keeps them (local_backend.rs,        *)
(* memory_backend.rs, opendal_backend.rs), and a device that pushes to it  *)
(* file by file.  A local folder truncates a file and then writes it; the  *)
(* other backends replace it in one call.  Some list a directory with all  *)
(* that is under it, some one level only.  Leases, intents and the journal *)
(* of a push are those of Publisher and UploadResume.                      *)
(***************************************************************************)
EXTENDS Integers, FiniteSets, SequencesExt, TLC

CONSTANTS Branches,
          History,       \* the first snapshots: the parent of each, 0 for none
          Heads,         \* the head of every branch on the remote at first
          PackedAtFirst, \* snapshots whose objects are in a pack
          Settings       \* what an instance does, with its bounds: kind of backend,
                         \* pushes, layouts, rotations, crashes, and those of RemoteFetch

ASSUME FilesAssumption ==
  /\ History \in Seq(Nat) /\ \A s \in DOMAIN History : History[s] \in 0..s - 1
  /\ Heads \in [Branches -> DOMAIN History]
  /\ PackedAtFirst \subseteq DOMAIN History

VARIABLES setup,
          parent, \* of each snapshot
          files,  \* what the remote keeps at each path
          pusher, \* the push another device is doing
          used    \* counters of the bounds

fileVars == <<setup, parent, files, pusher, used>>

\* A function with the value v put at x.
With(f, x, v) == [y \in DOMAIN f \cup {x} |-> IF y = x THEN v ELSE f[y]]

\* A file holds what was put, or is cut short.
File(version, value) == [torn |-> FALSE, version |-> version, value |-> value]
TornFile == [torn |-> TRUE, version |-> 0, value |-> 0]
Decodes(path) == ~files[path].torn

(***************************************************************************)
(* Snapshots and their objects: a manifest each, which names the parent,   *)
(* and a chunk.                                                            *)
(***************************************************************************)
Reach(h) == LET anc[s \in 0..Len(parent)] ==
                  IF s = 0 THEN {} ELSE {s} \cup anc[parent[s]]
            IN anc[h]

ManifestsOf(h) == {<<"manifest", s>> : s \in Reach(h)}
Graph(h) == ManifestsOf(h) \cup {<<"chunk", s>> : s \in Reach(h)}

Packed == {<<k, s>> : k \in {"manifest", "chunk"}, s \in PackedAtFirst}

(***************************************************************************)
(* Paths.  The keyring pointer is a ref one directory deeper.              *)
(***************************************************************************)
ObjectPath(o) == <<"objects", o>>
RefPath(b) == <<"refs", b>>
PointerPath == <<"refs", "keyring", "repository">>
LayoutPath == <<"layout">>

(***************************************************************************)
(* Backends                                                                *)
(***************************************************************************)
LocalFolder == [inPlace |-> TRUE, recursive |-> TRUE]
Memory == [inPlace |-> FALSE, recursive |-> TRUE]
OpendalMemory == [inPlace |-> FALSE, recursive |-> FALSE]
S3 == [inPlace |-> FALSE, recursive |-> FALSE]
Webdav == [inPlace |-> FALSE, recursive |-> FALSE]

Backend == CASE setup.kind = "folder" -> LocalFolder
             [] setup.kind = "memory" -> Memory
             [] setup.kind = "opendal" -> OpendalMemory
             [] setup.kind = "s3" -> S3
             [] setup.kind = "webdav" -> Webdav

Under(dir) == {p \in DOMAIN files : IsStrictPrefix(dir, p)}

\* list_one_level: the entries of a directory, and whether they are directories.
Entries(dir) == {[path |-> SubSeq(p, 1, Len(dir) + 1), isDir |-> Len(p) > Len(dir) + 1] :
                    p \in Under(dir)}

FilesIn(dir) == {e.path : e \in {x \in Entries(dir) : ~x.isDir}}

\* list_paths_via_shallow_walk: the directory and, in turn, those found in it.
Walk(dir) ==
  LET level[n \in 0..3] == IF n = 0 THEN {dir}
                           ELSE UNION {{e.path : e \in {x \in Entries(d) : x.isDir}} :
                                         d \in level[n - 1]}
  IN UNION {FilesIn(d) : d \in UNION {level[n] : n \in 0..3}}

\* list_physical.
Listed(dir) == IF Backend.recursive THEN Under(dir) ELSE FilesIn(dir)

\* list_refs asks for all levels; one ref that does not decode fails it.
ListedRefs == IF setup.kind = "webdav" THEN Walk(<<"refs">>) ELSE Under(<<"refs">>)
RefsDecode == \A p \in ListedRefs : Decodes(p)

LooseIds == {p[2] : p \in Listed(<<"objects">>)}

\* A packed copy is taken before a loose one.
Good == "good"
Bad == "bad"
RemoteBytes(o) == IF o \in Packed \/ Decodes(ObjectPath(o)) THEN Good ELSE Bad

OnRemote(o) == o \in Packed \cup LooseIds

(***************************************************************************)
(* The other device                                                        *)
(***************************************************************************)
NoPush == [pc |-> "idle", branch |-> "none", head |-> 0, todo |-> {}, seen |-> 0, open |-> << >>]

FilesInit ==
  /\ setup \in Settings
  /\ parent = History
  /\ files = LET objs == {ObjectPath(o) : o \in UNION {Graph(Heads[b]) : b \in Branches} \ Packed}
                 refs == {RefPath(b) : b \in Branches}
             IN [p \in objs \cup refs \cup {PointerPath, LayoutPath} |->
                   IF p \in objs THEN File(1, 0) ELSE IF p \in refs THEN File(1, Heads[p[2]])
                   ELSE File(1, 1)]
  /\ pusher = NoPush
  /\ used = [pushes |-> 0, layouts |-> 0, rotations |-> 0, crashes |-> 0, damage |-> 0, rot |-> 0, runs |-> 0]

\* put_physical.  An open file is what a local folder has truncated and not written yet.
Put(path, file, then) ==
  IF Backend.inPlace
  THEN files' = With(files, path, TornFile) /\ pusher' = [then EXCEPT !.open = <<path, file>>]
  ELSE files' = With(files, path, file) /\ pusher' = then

FinishPut ==
  /\ pusher.open # << >>
  /\ files' = With(files, pusher.open[1], pusher.open[2])
  /\ pusher' = [pusher EXCEPT !.open = << >>]
  /\ UNCHANGED <<setup, parent, used>>

PushAt(pc) == pusher.pc = pc /\ pusher.open = << >>

\* It commits on the head of a branch, or pushes again what it could not publish.
PushStart(b) ==
  /\ PushAt("idle") /\ Decodes(RefPath(b))
  /\ IF pusher.head = 0
     THEN /\ used.pushes < setup.pushes
          /\ parent' = Append(parent, files[RefPath(b)].value)
          /\ pusher' = [NoPush EXCEPT !.pc = "list", !.branch = b, !.head = Len(parent'),
                                      !.seen = files[RefPath(b)].version]
          /\ used' = [used EXCEPT !.pushes = @ + 1]
     ELSE /\ b = pusher.branch
          /\ pusher' = [pusher EXCEPT !.pc = "list", !.seen = files[RefPath(b)].version]
          /\ UNCHANGED <<parent, used>>
  /\ UNCHANGED <<setup, files>>

\* The graphs of the ancestors must authenticate.
AncestorsAuthenticate(h) == \A o \in Graph(parent[h]) : OnRemote(o) /\ RemoteBytes(o) = Good

\* What is listed counts as being there (inventory_has_object), whole or torn.
PushList ==
  /\ PushAt("list") /\ AncestorsAuthenticate(pusher.head)
  /\ pusher' = [pusher EXCEPT !.pc = "upload", !.todo = {o \in Graph(pusher.head) : ~OnRemote(o)}]
  /\ UNCHANGED <<setup, parent, files, used>>

PushObject(o) ==
  /\ PushAt("upload") /\ o \in pusher.todo
  /\ Put(ObjectPath(o), File(1, 0), [pusher EXCEPT !.todo = @ \ {o}])
  /\ UNCHANGED <<setup, parent, used>>

\* compare_and_swap_layout_root: a read and a put.
SwapLayoutRoot ==
  /\ PushAt("upload") /\ pusher.todo = {}
  /\ used.layouts < setup.layouts
  /\ Decodes(LayoutPath)
  /\ Put(LayoutPath, File(1, files[LayoutPath].value + 1), pusher)
  /\ used' = [used EXCEPT !.layouts = @ + 1]
  /\ UNCHANGED <<setup, parent>>

\* compare_and_swap_ref: no other push is under way.
SwapRef ==
  /\ PushAt("upload") /\ pusher.todo = {}
  /\ Decodes(RefPath(pusher.branch))
  /\ files[RefPath(pusher.branch)].version = pusher.seen
  /\ Put(RefPath(pusher.branch), File(pusher.seen + 1, pusher.head),
         [pusher EXCEPT !.pc = "end"])
  /\ UNCHANGED <<setup, parent, used>>

PushEnd ==
  /\ PushAt("end")
  /\ pusher' = NoPush
  /\ UNCHANGED <<setup, parent, files, used>>

\* A keyring update of the other device (its files are those of ControlPlane).
RotatePointer ==
  /\ PushAt("idle") /\ pusher.head = 0
  /\ used.rotations < setup.rotations
  /\ Decodes(PointerPath)
  /\ LET next == files[PointerPath].version + 1
     IN Put(PointerPath, File(next, next), [NoPush EXCEPT !.pc = "end"])
  /\ used' = [used EXCEPT !.rotations = @ + 1]
  /\ UNCHANGED <<setup, parent>>

PusherCrash ==
  /\ pusher.pc \notin {"idle", "end"} \/ pusher.open # << >>
  /\ used.crashes < setup.crashes
  /\ pusher' = [pusher EXCEPT !.pc = "idle", !.open = << >>]
  /\ used' = [used EXCEPT !.crashes = @ + 1]
  /\ UNCHANGED <<setup, parent, files>>

RemoteStep ==
  \/ \E b \in Branches : PushStart(b)
  \/ \E o \in pusher.todo : PushObject(o)
  \/ PushList \/ FinishPut \/ SwapLayoutRoot \/ SwapRef \/ PushEnd
  \/ RotatePointer \/ PusherCrash
=============================================================================
