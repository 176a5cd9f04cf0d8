------------------------------ MODULE Transfer ------------------------------
(***************************************************************************)
(* A device that clones, fetches, verifies, repairs and accepts, against a *)
(* remote to which another device pushes meanwhile.                        *)
(***************************************************************************)
EXTENDS RemoteCheck

vars == <<fileVars, deviceVars>>

Init == FilesInit /\ DeviceInit

Stop == UNCHANGED vars

Next ==
  \/ RemoteStep /\ UNCHANGED deviceVars
  \/ FetchStep
  \/ CheckStep

Spec == Init /\ [][Next]_vars

----------------------------------------------------------------------------
(* When clone_remote, fetch_remote or force_accept_remote_rollback reports  *)
(* success, the checked out head opens with its whole graph, whatever the   *)
(* pushes, crashes and failing objects left on either side before           *)
(* (fetch.rs 1294-1366, 1368-1426; remote_maintenance.rs 1079-1081).        *)
DoneIsWhole == done \in {"clone", "fetch", "accept"} => DefaultIsWhole

(* A clone or fetch never takes an object from the device that it could     *)
(* read, not even by a crash between two writes (fetch.rs 430-545 asks for  *)
(* the health of an object before it writes over it).                       *)
FetchKeepsObjects ==
  [][work.op \in {"clone", "fetch"} => GoodObjects \subseteq GoodObjects']_vars

(* A head that opens with its whole graph still does after any step of a    *)
(* clone or fetch, a crash included: the refs come after the objects        *)
(* (fetch.rs 381-572).                                                      *)
HeadStaysWhole ==
  [][work.op \in {"clone", "fetch"} /\ DefaultIsWhole => DefaultIsWhole']_vars

(* A verify that ends, with success or not, leaves every object it found    *)
(* readable so (remote_maintenance.rs 1169-1206).                           *)
VerifyOnlyHeals ==
  [][work.op = "verify" /\ work' = Idle /\ used' = used
       => work.before \subseteq GoodObjects']_vars
=============================================================================
