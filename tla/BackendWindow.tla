--------------------------- MODULE BackendWindow ---------------------------
(***************************************************************************)
(* The main window (desktop/src/mainwindow.cpp) around a backend that      *)
(* changes the system, for the backends of few steps: PfBypassBlocker and  *)
(* WindowsFirewallBypassBlocker (OtherFirewalls), and                      *)
(* SystemdResolvedConfigurator (SystemdResolved).  What the backend has    *)
(* changed outlives the process; the variables here do not, but for the    *)
(* history.                                                                *)
(***************************************************************************)
EXTENDS Naturals

CONSTANTS
    BackendFailures,    \* how many operations may fail: bound of the model
    BackendLaunches     \* bound of the model

VARIABLES
    opened,     \* the window exists
    holds,      \* the backend's applied_
    flag,       \* the window's firewallBypassApplied or systemDnsApplied
    at,         \* the next operation of the running handler
    failed,     \* history: how many operations failed
    unnoticed,  \* history: one of them failed since apply() last began, and nobody
                \* looked at its result
    launched

window == <<opened, holds, flag>>
past == <<failed, unnoticed, launched>>

WindowInit ==
    /\ opened = FALSE /\ holds = FALSE /\ flag = FALSE /\ at = "idle"
    /\ failed = 0 /\ unnoticed = FALSE /\ launched = 0

Open ==
    /\ ~opened /\ launched < BackendLaunches
    /\ opened' = TRUE /\ launched' = launched + 1
    /\ UNCHANGED <<holds, flag, at, failed, unnoticed>>

\* The program ends: killed at any time, or closed with the protection off.
Leave ==
    /\ opened' = FALSE /\ holds' = FALSE /\ flag' = FALSE /\ at' = "idle"
    /\ UNCHANGED past
Kill == opened /\ Leave
Close == opened /\ at = "idle" /\ ~flag /\ Leave

\* apply() does nothing if it has been applied before.
BeginApply(first) ==
    /\ opened /\ at = "idle" /\ ~flag
    /\ at' = (IF holds THEN "idle" ELSE first)
    /\ unnoticed' = (holds /\ unnoticed)
    /\ UNCHANGED <<window, failed, launched>>

BeginRestore(first) ==
    /\ opened /\ at = "idle" /\ flag
    /\ at' = first
    /\ UNCHANGED <<window, past>>

Works == UNCHANGED past
FailsNoticed == failed < BackendFailures /\ failed' = failed + 1 /\ UNCHANGED <<unnoticed, launched>>
FailsUnnoticed ==
    /\ failed < BackendFailures /\ failed' = failed + 1
    /\ unnoticed' = TRUE /\ UNCHANGED launched

Goto(next) == at' = next /\ UNCHANGED window

ApplySucceeds == holds' = TRUE /\ flag' = TRUE /\ at' = "idle" /\ UNCHANGED opened
ApplyGivesUp == at' = "idle" /\ UNCHANGED window
RestoreSucceeds == holds' = FALSE /\ flag' = FALSE /\ at' = "idle" /\ UNCHANGED opened

\* The window drops its flag whatever restore() answers.
RestoreGivesUp == flag' = FALSE /\ at' = "idle" /\ UNCHANGED <<opened, holds>>

Faults == IF unnoticed THEN "unnoticed" ELSE IF failed > 0 THEN "noticed" ELSE "none"

=============================================================================
