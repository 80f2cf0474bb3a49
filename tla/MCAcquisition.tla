---------------------------- MODULE MCAcquisition ----------------------------
(* Gzip intake, and image preservation with the inventory of its copy, for *)
(* TLC.  The two ways to a working image share no state: a behaviour takes *)
(* one of them.                                                            *)
EXTENDS GzipIntake, ImageInventory, TLC

VARIABLE route

vars == <<route, gzVars, pvVars, ivVars>>

Init ==
    /\ route \in {"gzip", "copy"}
    /\ GzInit /\ InventoryInit
    /\ route = "copy" => gzSource = Raw
Next ==
    /\ UNCHANGED route
    /\ \/ route = "gzip" /\ GzNext /\ UNCHANGED <<pvVars, ivVars>>
       \/ route = "copy" /\ InventoryNext /\ UNCHANGED gzVars

Spec == Init /\ [][Next]_vars

\* Shapes of all three components' states
TypeOK == GzTypeOK /\ PvTypeOK /\ IvTypeOK

Interchangeable == Permutations(GzProcs) \cup Permutations(PvProcs)
=============================================================================
