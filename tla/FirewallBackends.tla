-------------------------- MODULE FirewallBackends --------------------------
(***************************************************************************)
(* The main window with whichever blocker createFirewallBypassBlocker      *)
(* (desktop/src/system_dns/firewall_bypass_blocker.cpp) returns: that of   *)
(* FirewallBypass on Linux, else one of OtherFirewalls.  The state of the  *)
(* one that was not returned never changes.                                *)
(***************************************************************************)
EXTENDS FirewallBypass

CONSTANTS BackendFailures, BackendLaunches

VARIABLES
    opened, holds, flag, at, failed, unnoticed, launched,
    blocker,    \* "iptables", or one of OtherFirewalls
    rulesFile, anchor, named, left

Other == INSTANCE OtherFirewalls
otherVars == <<opened, holds, flag, at, failed, unnoticed, launched,
               blocker, rulesFile, anchor, named, left>>
backendVars == <<vars, otherVars>>

BackendsInit ==
    /\ Init
    /\ \/ Other!Init
       \/ /\ blocker = "iptables"
          /\ Other!WindowInit
          /\ rulesFile = {} /\ anchor = {} /\ left = {}
          /\ named = [ip \in ResolverIps |-> 0]

BackendsNext ==
    \/ blocker = "iptables" /\ Next /\ UNCHANGED otherVars
    \/ blocker # "iptables" /\ Other!Next /\ UNCHANGED vars

BackendsSpec == BackendsInit /\ [][BackendsNext]_backendVars

-----------------------------------------------------------------------------
(* How each blocker shows what SystemChange speaks of.                     *)

Iptables == blocker = "iptables"

Amount(blocked, trace) ==
    IF blocked = ResolverIps THEN "whole"
    ELSE IF blocked = {} /\ ~trace THEN "none" ELSE "part"

Change ==
    IF Iptables
      THEN Amount(IF chain /\ jumps > 0 THEN rules ELSE {}, chain \/ jumps > 0)
      ELSE Amount(Other!Blocked, FALSE)

Handler(stages, otherStages) == IF Iptables THEN stage \in stages ELSE at \in otherStages

Busy == IF Handler(ApplyStages, Other!ApplyStages) THEN "apply"
        ELSE IF Handler(RestoreStages, Other!RestoreStages) THEN "restore"
        ELSE "none"

\* IptablesBypassBlocker looks at no result.
Faults == IF Iptables THEN (IF failures > 0 THEN "unnoticed" ELSE "none") ELSE Other!Faults

Promise == INSTANCE SystemChange
    WITH change <- Change, busy <- Busy, faults <- Faults,
         alive <- IF Iptables THEN up ELSE opened,
         shown <- IF Iptables THEN firewallBypassApplied ELSE flag,
         held <- IF Iptables THEN applied ELSE holds,
         spoilt <- FALSE

\* Each blocker keeps the promise: when apply() has said yes every resolver is
\* blocked, after restore() nothing is left, and neither says otherwise without a
\* reason, wherever the programs before died; only a failure that the code does
\* not look at excuses it, one since apply() began for pf and netsh, any before for
\* iptables (iptables, pf and netsh blockers, stopProtection).
KeepsPromise == Promise!Spec

=============================================================================
