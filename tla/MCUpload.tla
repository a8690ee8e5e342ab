------------------------------ MODULE MCUpload ------------------------------
(* The sessions of the writer pool and, with a session reduced to what the *)
(* route sees of it, the upload route.  A behaviour is one of one of them. *)
EXTENDS MCUploadWriter, MCUploadRoute

VARIABLE scene

MCInit ==
  /\ scene \in {"pool", "route"} /\ Init /\ RouteInit
  /\ scene = "pool" => raw /\ session = "open"

MCNext ==
  \/ scene = "pool" /\ Next /\ UNCHANGED <<scene, routeVars>>
  \/ scene = "route" /\ RouteNext /\ UNCHANGED <<scene, vars>>

MCSpec == MCInit /\ [][MCNext]_<<scene, vars, routeVars>> /\ Fairness
=============================================================================
