----------------------------- MODULE MCRecovery -----------------------------
(* Export of cataloged streams, carving, and the probe of what they give,  *)
(* for TLC.  They share no state; a behaviour is of one of them.           *)
EXTENDS CatalogRecovery, PhotorecSupervisor, MediaProbe, TLC

VARIABLE route

vars == <<route, crVars, phVars, mpVars>>

\* Three rows of two streams: they agree on size and flags or not, in any order
RowKinds == [stream : CrStreams, size : 1 .. 2, flag : {"deleted", "allocated", "unsure"}]
Catalogs == {<<a, b, c>> : a \in {r \in RowKinds : r.stream = 1 /\ r.flag # "allocated"}, b \in RowKinds,
             c \in {r \in RowKinds : r.size = 1 /\ r.flag # "allocated"}}

\* Tools are trusted with every export, or not with the second.
Unknowns == {{}, {2}}

Init ==
    /\ route \in {"catalog", "carve", "probe"}
    /\ CrInit /\ PhInit /\ MpInit
    /\ route # "catalog" => crCatalog = (CHOOSE c \in CrCatalogs : TRUE) /\ crMode = "all"
Next ==
    /\ UNCHANGED route
    /\ \/ route = "catalog" /\ CrNext /\ UNCHANGED <<phVars, mpVars>>
       \/ route = "carve" /\ PhNext /\ UNCHANGED <<crVars, mpVars>>
       \/ route = "probe" /\ MpNext /\ UNCHANGED <<crVars, phVars>>

\* The supervisor goes on with its steps; nothing else has to.
Supervises == route = "carve" /\ PhStep /\ UNCHANGED <<route, crVars, mpVars>>

Spec == Init /\ [][Next]_vars /\ WF_vars(Supervises)

\* Shapes of all three components' states
TypeOK == CrTypeOK /\ PhTypeOK /\ MpTypeOK
=============================================================================
