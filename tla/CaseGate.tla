------------------------------ MODULE CaseGate ------------------------------
(***************************************************************************)
(* What the completion gate of a case promises, docs/paired-vm-workflow.md *)
(* "Completion and final-report gate", without files, processes or crashes:*)
(* a ledger is amended until it is frozen with a report for review, a      *)
(* reviewer approves pairs, and only an approved pair that is still frozen *)
(* is released, once.                                                      *)
(***************************************************************************)
CONSTANTS Reports, Ledgers, None

VARIABLES ledger,      \* the work ledger
          phase,       \* in_progress, review_ready or finalized
          frozen,      \* the report and ledger under review
          approvals,   \* every pair a reviewer approved
          released     \* the report and ledger of the finalized case

vars == <<ledger, phase, frozen, approvals, released>>

Pair == [report : Reports, coverage : Ledgers]

Init ==
    /\ ledger \in Ledgers
    /\ phase = "in_progress"
    /\ frozen = None
    /\ approvals = {}
    /\ released = None

\* Work is recorded: whatever was under review no longer is.
Amend ==
    /\ phase # "finalized"
    /\ ledger' \in Ledgers
    /\ ledger' # ledger
    /\ phase' = "in_progress"
    /\ frozen' = None
    /\ UNCHANGED <<approvals, released>>

\* A report goes to review with the ledger as it is.
Freeze ==
    /\ phase # "finalized"
    /\ frozen' \in Pair
    /\ frozen'.coverage = ledger
    /\ phase' = "review_ready"
    /\ UNCHANGED <<ledger, approvals, released>>

\* The reviewer may also answer late, of a pair no longer under review.
Approve ==
    /\ approvals \subseteq approvals'
    /\ approvals' \subseteq Pair
    /\ UNCHANGED <<ledger, phase, frozen, released>>

Release ==
    /\ phase = "review_ready"
    /\ frozen \in approvals
    /\ phase' = "finalized"
    /\ released' = frozen
    /\ UNCHANGED <<ledger, frozen, approvals>>

Next == Amend \/ Freeze \/ Approve \/ Release

Spec == Init /\ [][Next]_vars
=============================================================================
