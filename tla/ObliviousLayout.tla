-------------------------- MODULE ObliviousLayout --------------------------
(***************************************************************************)
(* Enabling and reshuffling the oblivious layout (oram.rs): every object a *)
(* branch reaches goes into new segments, oblivious/root.json names them,  *)
(* the layout root is swapped on its generation, and readers find objects  *)
(* through the oblivious root from then on.                                *)
(***************************************************************************)
EXTENDS HistoricalRewrite

LayoutAt(pc) == work.kind \in {"enable", "reshuffle"} /\ work.pc = pc

NextLayout == [generation |-> layout.generation + 1, mode |-> "oblivious",
               oblivious |-> layout.oblivious + 1]

\* The ref and the layout root are read before the objects are collected.
StartLayout(kind) ==
  /\ work = NoWork
  /\ used.layouts < setup.layouts
  /\ (kind = "reshuffle") = (layout.mode = "oblivious")
  /\ keyring' = Reconciled
  /\ used' = [used EXCEPT !.layouts = @ + 1]
  /\ work' = [NoWork EXCEPT !.kind = kind, !.pc = "collect", !.version = ref[Main].version,
                          !.layout = NextLayout, !.generation = layout.generation]
  /\ UNCHANGED <<setup, parent, remoteVars, copies, default, mirror, local, other, checkpoint>>

\* The layout is enabled already: its root is kept here.
AlreadyEnabled ==
  /\ work = NoWork /\ layout.mode = "oblivious" /\ local # layout
  /\ local' = layout
  /\ UNCHANGED <<setup, parent, remoteVars, copies, keyring, default, mirror, other, used, work,
                 checkpoint>>

\* Mutant: only the current branch is collected.
Collected_current == Reach(ref[Main].head)

Collected == UNION {Reach(ref[b].head) : b \in Branches}

Opened == \A b \in Branches : Readable(b, keyring.keys)

\* collect_and_hydrate_remote_reachable_object_ids_for_oram_publish.
Collect ==
  /\ LayoutAt("collect") /\ Opened
  /\ copies' = Also(copies, [o \in Collected \ DOMAIN copies |-> EpochOf(o)])
  /\ work' = [work EXCEPT !.pc = "upload", !.ids = SetToSeq(Collected)]
  /\ UNCHANGED <<setup, parent, remoteVars, keyring, default, mirror, local, other, used, checkpoint>>

\* The operation identifier is made of the next generation.
UploadCollected ==
  LayoutAt("upload") /\ UploadBatch(<<work.kind, work.layout.generation, work.next>>)

PutOblivious ==
  /\ LayoutAt("upload") /\ work.next = Batches(work.ids)
  /\ oblivious' = [epoch |-> Active, paths |-> work.paths]
  /\ Proceed("layout")
  /\ UNCHANGED <<setup, parent, ref, loose, segments, index, layout, published,
                 device, other, used, checkpoint>>

PublishLayout ==
  /\ LayoutAt("layout") /\ layout.generation = work.generation
  /\ layout' = work.layout
  /\ Proceed("root")
  /\ UNCHANGED <<setup, parent, ref, loose, segments, index, oblivious, published,
                 device, other, used, checkpoint>>

PutLayoutIndex == LayoutAt("root") /\ PutRoot("verify")

\* The ref is written as it was.
PublishSameRef ==
  /\ LayoutAt("ref") /\ VersionHolds
  /\ WriteRef(Main, ref[Main].head, ref[Main].epoch)
  /\ Proceed("keep")
  /\ UNCHANGED <<setup, parent, loose, segments, index, oblivious, layout, published,
                 device, other, used, checkpoint>>

FinishLayout ==
  /\ LayoutAt("keep")
  /\ local' = work.layout
  /\ work' = NoWork
  /\ UNCHANGED <<setup, parent, remoteVars, copies, keyring, default, mirror, other, used, checkpoint>>

StopLayout ==
  /\ \/ LayoutAt("collect") /\ ~Opened
     \/ LayoutAt("layout") /\ layout.generation # work.generation
     \/ LayoutAt("ref") /\ ~VersionHolds
  /\ work' = NoWork
  /\ UNCHANGED <<copyVars, checkpoint>>

LayoutStep ==
  \/ Collect \/ UploadCollected \/ PutOblivious \/ PublishLayout
  \/ PutLayoutIndex \/ PublishSameRef \/ FinishLayout \/ StopLayout
=============================================================================
