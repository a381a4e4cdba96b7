------------------------- MODULE SystemDnsBackends -------------------------
(***************************************************************************)
(* The main window with whichever configurator createSystemDnsConfigurator *)
(* (desktop/src/system_dns/system_dns_configurator.cpp) returns: that of   *)
(* SystemDnsRedirect, or that of SystemdResolved where the resolver file   *)
(* is a link that systemd manages.  The state of the one that was not      *)
(* returned never changes.                                                 *)
(***************************************************************************)
EXTENDS SystemDnsRedirect

CONSTANTS BackendFailures, BackendLaunches

VARIABLES
    opened, holds, flag, at, failed, unnoticed, launched,
    dropIn, daemon,
    linked      \* the resolver file is a link into systemd/resolve: isSupported()

Resolved == INSTANCE SystemdResolved
resolvedVars == <<opened, holds, flag, at, failed, unnoticed, launched, dropIn, daemon>>
backendVars == <<vars, resolvedVars, linked>>

BackendsInit == Init /\ Resolved!Init /\ linked \in BOOLEAN

BackendsNext ==
    /\ UNCHANGED linked
    /\ \/ linked /\ Resolved!Next /\ UNCHANGED vars
       \/ ~linked /\ Next /\ UNCHANGED resolvedVars

BackendsSpec == BackendsInit /\ [][BackendsNext]_backendVars

-----------------------------------------------------------------------------
(* How each configurator shows what SystemChange speaks of.                *)

FilesChange ==
    IF resolv = Loopback THEN "whole" ELSE IF IsWanted(resolv) THEN "none" ELSE "part"

Change == IF linked THEN Resolved!Change ELSE FilesChange

Handler(stages, resolvedStages) == IF linked THEN at \in resolvedStages ELSE stage \in stages

Busy == IF Handler(ApplyStages, Resolved!ApplyStages) THEN "apply"
        ELSE IF Handler(RestoreStages, Resolved!RestoreStages) THEN "restore"
        ELSE "none"

\* apply() looks at every step of its own but the write of the resolver file;
\* restore() at every one that matters.
FilesFaults ==
    IF "write" \in trouble THEN "unnoticed" ELSE IF "step" \in trouble THEN "noticed" ELSE "none"

FaultsOf == IF linked THEN Resolved!Faults ELSE FilesFaults

Promise == INSTANCE SystemChange
    WITH change <- Change, busy <- Busy, faults <- FaultsOf,
         alive <- IF linked THEN opened ELSE up,
         shown <- IF linked THEN flag ELSE systemDnsApplied,
         held <- IF linked THEN holds ELSE applied,
         spoilt <- ~linked /\ ~BackupGood

\* Either configurator keeps the promise, wherever the programs before died.  When
\* apply() has said yes, the machine asks 127.0.0.1, unless in that run the write of
\* the file failed, which apply() does not look at.  When restore() has, the machine
\* asks whom it asked before, unless the backup was cut short or somebody wrote the
\* file behind it (resolv.conf) or, since apply() began, a write or a restart failed
\* unseen or somebody removed the file (systemd-resolved).  Neither says no for
\* nothing: a step failed, or for apply() an earlier restore() (both configurators,
\* stopProtection).
KeepsPromise == Promise!Spec

=============================================================================
