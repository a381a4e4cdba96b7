---------------------------- MODULE SystemChange ----------------------------
(***************************************************************************)
(* What the backends of ClearGuard Desktop that change the system promise  *)
(* to the main window (apply() and restore() of SystemDnsConfigurator and  *)
(* FirewallBypassBlocker, desktop/src/system_dns), without files, rules or *)
(* commands: a handler may leave the change half done at any time, by      *)
(* dying above all, but when it says that the change is made, or unmade,   *)
(* it is, unless something failed in that run that the code does not look  *)
(* at, or, for the unmaking, what was there before cannot be had back.     *)
(***************************************************************************)
VARIABLES
    change,     \* how much of it is in the system: "none", "part", "whole"
    alive,      \* the window exists
    shown,      \* ... and its flag says that the change is made
    busy,       \* the handler that runs: "none", "apply", "restore"
    faults,     \* the worst that has failed: "none", "noticed", "unnoticed"
    held,       \* the backend takes itself to be applied
    spoilt      \* what was there before cannot be had back

vars == <<change, alive, shown, busy, faults, held, spoilt>>

Amounts == {"none", "part", "whole"}

Init ==
    /\ change = "none" /\ ~alive /\ ~shown /\ busy = "none"
    /\ faults = "none" /\ ~held /\ ~spoilt

Worse ==
    /\ faults' \in {"none", "noticed", "unnoticed"}
    /\ faults \in {"noticed", "unnoticed"} => faults' \in {faults, "unnoticed"}

\* A run of a handler may start afresh.
Better ==
    /\ faults' \in {"none", "noticed", "unnoticed"}
    /\ faults' \in {"noticed", "unnoticed"} => faults \in {faults', "unnoticed"}

Changes == change' \in Amounts /\ Worse

Launched == ~alive /\ alive' = TRUE /\ UNCHANGED <<change, shown, busy, faults, held, spoilt>>

\* At any time, whatever is done by then.  What was to be kept may be lost by it.
Died ==
    /\ alive /\ alive' = FALSE /\ shown' = FALSE /\ busy' = "none" /\ held' = FALSE
    /\ spoilt' \in {spoilt, TRUE}
    /\ UNCHANGED <<change, faults>>

Begins(handler) ==
    /\ alive /\ busy = "none" /\ busy' = handler
    /\ Better
    /\ UNCHANGED <<change, alive, shown, held, spoilt>>

Works == busy # "none" /\ Changes /\ UNCHANGED <<alive, shown, busy, held, spoilt>>

Ends(handler) == busy = handler /\ busy' = "none" /\ Changes /\ UNCHANGED alive

Applied ==
    /\ Ends("apply") /\ shown' = TRUE /\ held' = TRUE
    /\ faults' # "unnoticed" => change' = "whole"
    /\ UNCHANGED spoilt

\* apply() does not give up for nothing.
GivenUp ==
    /\ Ends("apply") /\ shown' = FALSE
    /\ faults' # "none" \/ held
    /\ spoilt' \in {spoilt, TRUE}
    /\ UNCHANGED held

Restored ==
    /\ Ends("restore") /\ shown' = FALSE /\ held' = FALSE
    /\ faults' # "unnoticed" /\ ~spoilt => change' = "none"
    /\ UNCHANGED spoilt

\* Nor does restore(); the window drops its flag all the same.
RestoreGivenUp ==
    /\ Ends("restore") /\ shown' = FALSE
    /\ faults' # "none"
    /\ UNCHANGED <<held, spoilt>>

\* Others change the same settings: behind what was kept, or with nothing kept, so
\* that theirs is what was there before.  Or the system takes up what was left half
\* done.
Disturbed ==
    /\ Changes
    /\ \/ faults' = "unnoticed" /\ UNCHANGED spoilt
       \/ spoilt' = TRUE
       \/ spoilt /\ spoilt' = FALSE /\ change' = "none"
       \/ change = "part" /\ ~shown /\ UNCHANGED spoilt
    /\ UNCHANGED <<alive, shown, busy, held>>

Next ==
    \/ Launched \/ Died \/ Disturbed
    \/ ~shown /\ Begins("apply")
    \/ shown /\ Begins("restore")
    \/ Works \/ Applied \/ GivenUp \/ Restored \/ RestoreGivenUp

Spec == Init /\ [][Next]_vars

=============================================================================
