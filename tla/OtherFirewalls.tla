--------------------------- MODULE OtherFirewalls ---------------------------
(***************************************************************************)
(* The firewall bypass blockers of the other systems: PfBypassBlocker, for *)
(* macOS and FreeBSD, and WindowsFirewallBypassBlocker (desktop/src/       *)
(* system_dns), with the main window around them.                          *)
(*                                                                         *)
(* pf reads its rules from a file, all or none; netsh adds them one by one *)
(* under one name, and deletes all of that name.  A missing rules file and *)
(* an empty one are alike.                                                 *)
(***************************************************************************)
EXTENDS BackendWindow

CONSTANT ResolverIps    \* bypassResolverIps(); the three rules of one are one here

VARIABLES
    blocker,    \* the one createFirewallBypassBlocker returned: "pf", "netsh", "null"
    rulesFile,  \* the resolvers in pf's rules file
    anchor,     \* ... and in the kernel, under the program's anchor
    named,      \* how often each resolver has rules of the program's name (netsh)
    left        \* the resolvers netsh has yet to add

pf == <<rulesFile, anchor>>
netsh == <<named, left>>
vars == <<window, at, past, blocker, pf, netsh>>

ApplyStages == {"open", "write", "load", "add"}
RestoreStages == {"flush", "remove", "delete"}

Init ==
    /\ WindowInit
    /\ blocker \in {"pf", "netsh", "null"}
    /\ rulesFile = {} /\ anchor = {}
    /\ named = [ip \in ResolverIps |-> 0] /\ left = {}

\* NullFirewallBypassBlocker never starts anything.
Starts ==
    \/ blocker = "pf" /\ BeginApply("open") /\ UNCHANGED left
    \/ blocker = "netsh" /\ BeginApply("add") /\ left' = ResolverIps

Stops ==
    \/ blocker = "pf" /\ BeginRestore("flush")
    \/ blocker = "netsh" /\ BeginRestore("delete")

\* Kernel and file stay as they are when the program ends.
Window ==
    /\ Starts \/ ((Stops \/ Open \/ Kill \/ Close) /\ UNCHANGED left)
    /\ UNCHANGED <<blocker, pf, named>>

-----------------------------------------------------------------------------
(* pf.                                                                     *)

OpenRulesFile ==
    /\ at = "open"
    /\ \/ rulesFile' = {} /\ Goto("write") /\ Works
       \/ UNCHANGED rulesFile /\ ApplyGivesUp /\ FailsNoticed
    /\ UNCHANGED <<blocker, anchor, netsh>>

\* A full disk cuts the file short.
WriteRules ==
    /\ at = "write"
    /\ \/ rulesFile' = ResolverIps /\ Works
       \/ rulesFile' \in SUBSET ResolverIps /\ FailsUnnoticed
    /\ Goto("load")
    /\ UNCHANGED <<blocker, anchor, netsh>>

\* Broken variant, for the runs to reject: the result of pfctl is not looked at.
LoadRulesUnchecked ==
    /\ at = "load"
    /\ \/ anchor' = rulesFile /\ Works
       \/ UNCHANGED anchor /\ FailsNoticed
    /\ ApplySucceeds
    /\ UNCHANGED <<blocker, rulesFile, netsh>>

LoadRules ==
    /\ at = "load"
    /\ \/ anchor' = rulesFile /\ ApplySucceeds /\ Works
       \/ UNCHANGED anchor /\ ApplyGivesUp /\ FailsNoticed
    /\ UNCHANGED <<blocker, rulesFile, netsh>>

FlushAnchor ==
    /\ at = "flush"
    /\ \/ anchor' = {} /\ Works
       \/ UNCHANGED anchor /\ FailsUnnoticed
    /\ Goto("remove")
    /\ UNCHANGED <<blocker, rulesFile, netsh>>

RemoveRulesFile ==
    /\ at = "remove"
    /\ \/ rulesFile' = {} /\ Works
       \/ UNCHANGED rulesFile /\ FailsUnnoticed
    /\ RestoreSucceeds
    /\ UNCHANGED <<blocker, anchor, netsh>>

-----------------------------------------------------------------------------
(* netsh.  Rules of one name pile up; none is ever looked for.             *)

AddRule(ip) ==
    /\ at = "add" /\ ip \in left
    /\ \/ named' = [named EXCEPT ![ip] = @ + 1] /\ Works
       \/ UNCHANGED named /\ FailsUnnoticed
    /\ left' = left \ {ip} /\ Goto("add")
    /\ UNCHANGED <<blocker, pf>>

AllAdded ==
    /\ at = "add" /\ left = {}
    /\ ApplySucceeds /\ Works
    /\ UNCHANGED <<blocker, pf, netsh>>

DeleteRules ==
    /\ at = "delete"
    /\ \/ named' = [ip \in ResolverIps |-> 0] /\ Works
       \/ UNCHANGED named /\ FailsUnnoticed
    /\ RestoreSucceeds
    /\ UNCHANGED <<blocker, pf, left>>

-----------------------------------------------------------------------------
Next ==
    \/ Window
    \/ OpenRulesFile \/ WriteRules \/ LoadRules \/ FlushAnchor \/ RemoveRulesFile
    \/ (\E ip \in left : AddRule(ip)) \/ AllAdded \/ DeleteRules

\* The resolvers that are blocked.
Blocked == IF blocker = "pf" THEN anchor ELSE {ip \in ResolverIps : named[ip] > 0}

=============================================================================
