--------------------------- MODULE RepairAttempt ---------------------------
(***************************************************************************)
(* What disk-repair-testdisk promises of one repair copy, whatever crashes *)
(* and whoever else runs: the copy is announced once, one attempt is marked*)
(* before the tool is let at it, the tool is let at it at most once, and   *)
(* what is recorded of the attempt stays.                                  *)
(***************************************************************************)
EXTENDS Naturals

VARIABLES stage,      \* none, copied, marked, or settled with a verdict
          verdict,    \* what a settled attempt is recorded to have done
          attempts    \* how often the tool was started on the copy

vars == <<stage, verdict, attempts>>

Verdicts == {"tool_completed_with_changes", "tool_completed_no_change",
             "tool_failed"}

Init == stage = "none" /\ verdict = "open" /\ attempts = 0

Announce ==
    /\ stage = "none"
    /\ stage' = "copied"
    /\ UNCHANGED <<verdict, attempts>>

Mark ==
    /\ stage = "copied"
    /\ stage' = "marked"
    /\ UNCHANGED <<verdict, attempts>>

Try ==
    /\ stage = "marked"
    /\ attempts = 0
    /\ attempts' = 1
    /\ UNCHANGED <<stage, verdict>>

Settle ==
    /\ stage = "marked"
    /\ attempts = 1
    /\ stage' = "settled"
    /\ verdict' \in Verdicts
    /\ UNCHANGED attempts

Next == Announce \/ Mark \/ Try \/ Settle

Spec == Init /\ [][Next]_vars
=============================================================================
