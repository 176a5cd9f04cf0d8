----------------------------- MODULE MCTransfer -----------------------------
EXTENDS Transfer

CONSTANTS main, dev

\* 1 is packed; main is at 2, dev at 1.
MCHistory == <<0, 1>>
MCHeads == main :> 2 @@ dev :> 1
MCPacked == {1}

Nothing == [kind |-> "s3", cloned |-> {}, pushes |-> 0, layouts |-> 0, rotations |-> 0,
            crashes |-> 1, damage |-> 0, rot |-> 0, runs |-> 1, ops |-> {"fetch"}]

\* An empty directory, and a push meanwhile.
Cloning == {[Nothing EXCEPT !.kind = k, !.pushes = 1, !.runs = r, !.ops = {"clone", "fetch"}] :
              <<k, r>> \in {<<"folder", 2>>, <<"webdav", 1>>, <<"opendal", 1>>}}

\* A push, with a layout change.
Following == {[Nothing EXCEPT !.kind = "memory", !.cloned = {dev}, !.pushes = 1, !.layouts = 1]}

\* A push that leaves a torn file, and what the device does with it.
TornFiles == {[Nothing EXCEPT !.kind = "folder", !.cloned = {main}, !.pushes = 1, !.runs = r,
                              !.ops = o] :
                <<r, o>> \in {<<2, {"fetch"}>>, <<1, {"verify", "repair", "accept"}>>}}

\* Failing objects on either side, and keyring updates.
Repairing == {[Nothing EXCEPT !.cloned = {main}, !.rotations = 1, !.damage = 1, !.rot = 1,
                              !.runs = 2, !.ops = {"fetch", "verify", "repair", "accept"}]}

InTurn == Cloning \cup Following \cup TornFiles \cup Repairing
=============================================================================
