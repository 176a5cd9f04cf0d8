----------------------------- MODULE LocalIndex -----------------------------
(***************************************************************************)
(* The search index of a repository (local_index.rs): a search reads the   *)
(* head, brings the index to that head and queries it, while commands go   *)
(* on moving the head.                                                     *)
(***************************************************************************)
EXTENDS Repository

VARIABLES index,  \* the search index
          search  \* the search under way

indexVars == <<index, search>>

\* rows: current_files and filename_fts; key: the branch and head in index_meta.
EmptyIndex == [key |-> << >>, rows |-> << >>, damaged |-> FALSE]
NoSearch   == [step |-> "none", key |-> << >>, found |-> << >>]

IndexInit == index = EmptyIndex /\ search = NoSearch

(***************************************************************************)
(* search_metadata and search_filenames                                    *)
(***************************************************************************)
StartSearch ==
  /\ search.step = "none"
  /\ search' = [NoSearch EXCEPT !.step = "asked", !.key = <<default.token, default.head>>]
  /\ UNCHANGED <<repoVars, index>>

\* Mutant: rows of files that are gone stay in the index.
Synced_keeps(rows, files) == files @@ rows

\* sync_index_rows: what is gone is deleted, what differs is written.
Synced(rows, files) ==
  [p \in DOMAIN files |->
     IF p \in DOMAIN rows /\ rows[p] = files[p] THEN rows[p] ELSE files[p]]

\* with_local_index_connection up to the query: a damaged database is removed
\* and built again; a database of another key is synchronised in one
\* transaction.
Rebuild ==
  /\ search.step = "asked"
  /\ LET rows == IF index.damaged THEN << >> ELSE index.rows
     IN index' = IF ~index.damaged /\ index.key = search.key THEN index
                 ELSE [key |-> search.key, damaged |-> FALSE,
                       rows |-> Synced(rows, FilesOf(Tree(search.key[2])))]
  /\ search' = [search EXCEPT !.step = "built"]
  /\ UNCHANGED repoVars

\* A database damaged after its rebuild is removed once and built again.
Query ==
  /\ search.step = "built" /\ ~index.damaged
  /\ search' = [search EXCEPT !.step = "answered", !.found = index.rows]
  /\ UNCHANGED <<repoVars, index>>

EndSearch ==
  /\ search.step # "none"
  /\ search' = NoSearch
  /\ UNCHANGED <<repoVars, index>>

DamageIndex ==
  /\ search.step = "none" /\ ~index.damaged /\ index # EmptyIndex
  /\ index' = [index EXCEPT !.damaged = TRUE]
  /\ UNCHANGED <<repoVars, search>>

SearchStep == StartSearch \/ Rebuild \/ Query \/ EndSearch \/ DamageIndex

\* A search answers with the files of the head it read, whatever index the
\* searches before it left and whatever commits overtake it.
SearchShowsItsHead ==
  search.step = "answered" => search.found = FilesOf(Tree(search.key[2]))
=============================================================================
