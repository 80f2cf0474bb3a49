------------------------------ MODULE MCOutputs ------------------------------
(* The commands that derive outputs from a working image and publish them, *)
(* and the two helpers below them (writing a state file, comparing         *)
(* sectors), for TLC.  They share no state; a behaviour is of one of them. *)
EXTENDS PatternAnalysis, SuperTimeline, ForensicVm, DerivedTree, DerivedFile,
        AtomicWrite, ChangedSectors

CONSTANT Routes

VARIABLE route

vars == <<route, paVars, stVars, vmVars, dtVars, dfVars, awVars, csVars>>

\* Two tools: one writes more than a chunk to its first pipe, one to both pipes.
ToolOutputs ==
    {[stdout |-> <<0, 1, 0>>, stderr |-> <<>>], [stdout |-> <<1, 0, 1>>, stderr |-> <<1>>]}

\* Two timelines of two rows, with equal times and bad rows; one that is longer;
\* and one of which nothing is left.
Rows == {<<a, b>> : a, b \in {1, 2, StBad}}
Manifests ==
    {<<[label |-> 2, rows |-> p], [label |-> 1, rows |-> q]>> : p \in Rows, q \in {r \in Rows : r[1] # StBad}}
        \cup {<<[label |-> 1, rows |-> <<2, 1, 2>>]>>, <<[label |-> 1, rows |-> <<StBad>>]>>}

\* Two outputs of one size, one of another
Sizes == <<1, 1, 2>>

Init ==
    /\ route \in Routes
    /\ PaInit /\ StInit /\ VmInit /\ DtInit /\ DfInit /\ AwInit /\ CsInit
    /\ route # "tree" => dtTree["recovered"] = DtNil
    /\ route # "sectors" => original = <<>> /\ repaired = <<CHOOSE b \in Bytes : TRUE>>

Pattern  == PaNext /\ UNCHANGED <<stVars, vmVars, dtVars, dfVars, awVars, csVars>>
Timeline == StNext /\ UNCHANGED <<paVars, vmVars, dtVars, dfVars, awVars, csVars>>
Machine  == VmNext /\ UNCHANGED <<paVars, stVars, dtVars, dfVars, awVars, csVars>>
Tree     == DtNext /\ UNCHANGED <<paVars, stVars, vmVars, dfVars, awVars, csVars>>
File     == DfNext /\ UNCHANGED <<paVars, stVars, vmVars, dtVars, awVars, csVars>>
StateFile == AwNext /\ UNCHANGED <<paVars, stVars, vmVars, dtVars, dfVars, csVars>>
Sectors  == CsNext /\ UNCHANGED <<paVars, stVars, vmVars, dtVars, dfVars, awVars>>

Next ==
    /\ UNCHANGED route
    /\ \/ route = "pattern" /\ Pattern
       \/ route = "timeline" /\ Timeline
       \/ route = "machine" /\ Machine
       \/ route = "tree" /\ Tree
       \/ route = "file" /\ File
       \/ route = "state_file" /\ StateFile
       \/ route = "sectors" /\ Sectors

Spec == Init /\ [][Next]_vars

\* Shapes of all components' states
TypeOK == PaTypeOK /\ StTypeOK /\ VmTypeOK /\ DtTypeOK /\ AwTypeOK
=============================================================================
