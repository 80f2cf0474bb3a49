--------------------------- MODULE AtomicRegister ---------------------------
(* A state file as its readers see it: a text that is replaced as a whole. *)
CONSTANTS Texts, None

VARIABLE value

Init == value = None
Next == value' \in Texts
Spec == Init /\ [][Next]_value
=============================================================================
