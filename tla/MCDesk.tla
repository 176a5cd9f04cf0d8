------------------------------- MODULE MCDesk -------------------------------
(***************************************************************************)
(* One desk: what commands do in one repository directory.  The parts share *)
(* no state that the properties tell apart, so that every behaviour is one *)
(* of a part: the working directory and the search index, the refs under   *)
(* branch commands and pulls, the secrets, the objects of snapshots, and a *)
(* file that is read while it is saved.                                    *)
(***************************************************************************)
EXTENDS WorkingTree, StableRead, Unlocking

CONSTANTS RefTokens  \* the branches of the refs part

VARIABLES part,
          here, head, up, published, there, fetched, committed

filesVars == <<repoVars, indexVars, workVars>>
graphVars == <<here, head, up, published, there, fetched, committed>>
deskVars  == <<part, filesVars, unlockVars, graphVars, readVars>>

\* A directory with a file and a file beside it; their temporary files differ.
MCPaths == {<<"d", "a">>, <<"b">>}
Temp(p) == IF p = <<"b">> THEN <<"b.e2v-tmp">>
           ELSE <<"d", "a.e2v-tmp">>
MCTempOf == [p \in MCPaths \cup {Temp(q) : q \in MCPaths} |->
               IF p \in MCPaths THEN Temp(p) ELSE p]

\* A tree per snapshot, each with a file of its own.
Refs == INSTANCE Branches WITH
          MaxSnapshots <- 4, Tokens <- RefTokens, Paths <- {<<"a">>},
          TreeAt <- [n \in 1..5 |-> (<<"a">> :> n)]

InTurn == [overlap |-> FALSE, clone |-> FALSE, updates |-> 3, fetches |-> 0, crashes |-> 1,
           cmds |-> {"unlock", "commit", "change", "revoke", "accept", "retire"}]
WithFetch == [InTurn EXCEPT !.updates = 2, !.fetches = 1, !.crashes = 0, !.cmds = @ \cup {"fetch"}]
Cloned == [InTurn EXCEPT !.clone = TRUE, !.updates = 2, !.fetches = 1, !.crashes = 0,
                         !.cmds = {"clone", "unlock", "commit", "change", "fetch"}]
Overlap == [InTurn EXCEPT !.overlap = TRUE, !.updates = 2, !.cmds = {"unlock", "commit", "change"}]

DeskSessions == {InTurn, WithFetch, Cloned, Overlap}

\* Directories at the limit of a tree object, over it and with equal parts;
\* files at the limit of a file object and over it.
F(chunks) == [kind |-> "file", chunks |-> chunks]
T(d) == [kind |-> "tree", dir |-> d]
One  == <<F(<<"x">>)>>
Full == <<F(<<"x", "y">>), F(<<"x", "x">>)>>
Wide == <<F(<<"x">>), F(<<"y", "x", "y">>), F(<< >>)>>
Deep == LET f == F(<<"z", "x", "y", "x", "y">>)
        IN <<T(Wide), f, T(<<T(One), f, F(<<"x">>)>>), F(<<"z">>), T(<< >>)>>

Graph == INSTANCE ObjectGraph WITH
           remote <- up, MaxEntries <- 2, MaxChunks <- 2, MaxCommits <- 3,
           Directories <- {<< >>, One, Full, Wide, <<T(One), T(One), F(<<"x">>)>>, <<T(Wide)>>, Deep}

----------------------------------------------------------------------------
NoKeys  == UnlockInit /\ session = InTurn
NoGraph == here = 0 /\ head = 0 /\ up = 0 /\ published = 0 /\ there = 0 /\ fetched = 0 /\ committed = 0
NoRead  == ReadingInit /\ granularity = 1

DeskInit ==
  \/ part = "files" /\ Init /\ NoKeys /\ NoGraph /\ NoRead
  \/ /\ part = "refs" /\ Refs!BranchesInit /\ NoKeys /\ NoGraph /\ NoRead
     /\ IndexInit /\ wd = << >> /\ mapping = {} /\ chk = NoCheckout /\ edits = 0
  \/ part = "keys" /\ Init /\ UnlockInit /\ NoGraph /\ NoRead
  \/ part = "objects" /\ Init /\ NoKeys /\ Graph!Init /\ NoRead
  \/ part = "reading" /\ Init /\ NoKeys /\ NoGraph /\ ReadingInit

FilesPart == part = "files" /\ Next /\ UNCHANGED <<part, unlockVars, graphVars, readVars>>

RefsPart == part = "refs" /\ Refs!BranchesNext /\ UNCHANGED <<part, indexVars, workVars, unlockVars, graphVars, readVars>>

KeysPart == part = "keys" /\ UnlockNext /\ UNCHANGED <<part, filesVars, graphVars, readVars>>

ObjectsPart == part = "objects" /\ Graph!Next /\ UNCHANGED <<part, filesVars, unlockVars, readVars>>

ReadingPart == part = "reading" /\ ReadingNext /\ UNCHANGED <<part, filesVars, unlockVars, graphVars>>

DeskNext == FilesPart \/ RefsPart \/ KeysPart \/ ObjectsPart \/ ReadingPart

DeskSpec == DeskInit /\ [][DeskNext]_deskVars

----------------------------------------------------------------------------
(* See ObjectGraph: what was fetched verifies and reads back as committed   *)
(* (manifest_store.rs, fetch.rs 1562-1682).                                 *)
FetchedReadsBack == part = "objects" => Graph!FetchedReadsBack

(* See ObjectGraph: a push and a garbage collection leave what a fetch of   *)
(* the published head reaches (manifest_store.rs 149-163, 423-491).         *)
PublishedIsFetchable == part = "objects" => Graph!PublishedIsFetchable
=============================================================================
