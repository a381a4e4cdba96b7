--------------------------- MODULE FirewallBypass ---------------------------
(***************************************************************************)
(* The firewall rules that keep programs from bypassing the filter: the    *)
(* main window (desktop/src/mainwindow.cpp) over IptablesBypassBlocker     *)
(* (desktop/src/system_dns/iptables_bypass_blocker.cpp).                   *)
(*                                                                         *)
(* apply() and restore() run one iptables command after another and look   *)
(* at no result.  Each command is a step; the process may die between any  *)
(* two, and the rules stay in the kernel.  What a command does, and when   *)
(* it fails of itself, is what iptables does.                              *)
(***************************************************************************)
EXTENDS Naturals

CONSTANTS
    ResolverIps,        \* bypassResolverIps(); the three rules of one are one here
    MayCrash,           \* the process may die
    MaxFailures,        \* how many commands may fail that could have worked, for
                        \* want of privileges or of the xtables lock: bound of the model
    MaxLaunches         \* bound of the model

ASSUME BoundsAssumption == MayCrash \in BOOLEAN /\ MaxFailures \in Nat /\ MaxLaunches \in Nat
ASSUME ResolversAssumption == ResolverIps # {}

VARIABLES
    chain,      \* the chain exists in the kernel
    rules,      \* the resolvers it drops
    jumps,      \* how often OUTPUT jumps to it
    up,         \* the window exists
    applied,    \* IptablesBypassBlocker::applied_
    firewallBypassApplied,  \* MainWindow::firewallBypassApplied
    stage,      \* the next command of the running handler
    todo,       \* the resolvers apply() has not come to
    failures,   \* history: how many commands failed that could have worked
    launches

kernel == <<chain, rules, jumps>>
window == <<up, applied, firewallBypassApplied>>
vars == <<kernel, window, stage, todo, failures, launches>>

ApplyStages == {"new", "flush", "check", "insert", "rules"}
RestoreStages == {"unjump", "empty", "delete"}

Init ==
    /\ chain = FALSE /\ rules = {} /\ jumps = 0
    /\ up = FALSE /\ applied = FALSE /\ firewallBypassApplied = FALSE
    /\ stage = "idle" /\ todo = {}
    /\ failures = 0
    /\ launches = 0

Launch ==
    /\ ~up /\ launches < MaxLaunches
    /\ up' = TRUE /\ launches' = launches + 1
    /\ UNCHANGED <<kernel, applied, firewallBypassApplied, stage, todo, failures>>

\* The process is gone; the kernel keeps the rules.
Gone ==
    /\ up' = FALSE /\ applied' = FALSE /\ firewallBypassApplied' = FALSE
    /\ stage' = "idle" /\ todo' = {}
    /\ UNCHANGED <<kernel, failures, launches>>

Crash == MayCrash /\ up /\ Gone

-----------------------------------------------------------------------------
(* One command: what it does to the kernel if it can do it, or nothing.    *)

Fails == failures < MaxFailures /\ failures' = failures + 1

Command(possible, newChain, newRules, newJumps) ==
    \/ /\ possible
       /\ chain' = newChain /\ rules' = newRules /\ jumps' = newJumps
       /\ UNCHANGED failures
    \/ ~possible /\ UNCHANGED <<kernel, failures>>
    \/ possible /\ Fails /\ UNCHANGED kernel

-----------------------------------------------------------------------------
(* onToggleClicked starts the protection with the check box set; apply().  *)

\* apply() does nothing if it has been applied before.
StartProtection ==
    /\ up /\ stage = "idle" /\ ~firewallBypassApplied
    /\ IF applied
         THEN UNCHANGED <<stage, todo>>
         ELSE stage' = "new" /\ todo' = ResolverIps
    /\ UNCHANGED <<kernel, window, failures, launches>>

Goto(next) == stage' = next /\ UNCHANGED <<window, todo, launches>>

NewChain ==
    /\ stage = "new"
    /\ Command(~chain, TRUE, {}, jumps)
    /\ Goto("flush")

FlushChain ==
    /\ stage = "flush"
    /\ Command(chain, chain, {}, jumps)
    /\ Goto("check")

\* Broken variant, for the runs to reject: the answer of -C is not looked at.
CheckJumpIgnored ==
    /\ stage = "check"
    /\ UNCHANGED <<kernel, failures>>
    /\ Goto("insert")

\* -C OUTPUT -j chain || -I OUTPUT -j chain: a -C that fails of itself reads as
\* a jump that is not there.
CheckJump ==
    /\ stage = "check"
    /\ \/ Goto(IF jumps > 0 THEN "rules" ELSE "insert") /\ UNCHANGED failures
       \/ jumps > 0 /\ Goto("insert") /\ Fails
    /\ UNCHANGED kernel

InsertJump ==
    /\ stage = "insert"
    /\ Command(chain, chain, rules, jumps + 1)
    /\ Goto("rules")

\* Broken variant, for the runs to reject: the next rule replaces the last.
AddRuleReplacing(ip) ==
    /\ stage = "rules" /\ ip \in todo
    /\ Command(chain, chain, {ip}, jumps)
    /\ todo' = todo \ {ip}
    /\ UNCHANGED <<window, stage, launches>>

AddRule(ip) ==
    /\ stage = "rules" /\ ip \in todo
    /\ Command(chain, chain, rules \cup {ip}, jumps)
    /\ todo' = todo \ {ip}
    /\ UNCHANGED <<window, stage, launches>>

ApplyReturns ==
    /\ stage = "rules" /\ todo = {}
    /\ applied' = TRUE /\ firewallBypassApplied' = TRUE
    /\ stage' = "idle"
    /\ UNCHANGED <<kernel, up, todo, failures, launches>>

-----------------------------------------------------------------------------
(* stopProtection: restore(), when the window's flag is set.               *)

StopProtection ==
    /\ up /\ stage = "idle" /\ firewallBypassApplied
    /\ IF applied
         THEN stage' = "unjump" /\ UNCHANGED firewallBypassApplied
         ELSE firewallBypassApplied' = FALSE /\ UNCHANGED stage
    /\ UNCHANGED <<kernel, up, applied, todo, failures, launches>>

DeleteJump ==
    /\ stage = "unjump"
    /\ Command(jumps > 0, chain, rules, jumps - 1)
    /\ Goto("empty")

EmptyChain ==
    /\ stage = "empty"
    /\ Command(chain, chain, {}, jumps)
    /\ Goto("delete")

\* Broken variant, for the runs to reject: the chain is left in the kernel.
DeleteChainForgotten ==
    /\ stage = "delete"
    /\ UNCHANGED <<kernel, failures>>
    /\ applied' = FALSE /\ firewallBypassApplied' = FALSE
    /\ stage' = "idle"
    /\ UNCHANGED <<up, todo, launches>>

\* A chain is deleted only when it is empty and nothing jumps to it.
DeleteChain ==
    /\ stage = "delete"
    /\ Command(chain /\ rules = {} /\ jumps = 0, FALSE, {}, jumps)
    /\ applied' = FALSE /\ firewallBypassApplied' = FALSE
    /\ stage' = "idle"
    /\ UNCHANGED <<up, todo, launches>>

\* The window is closed with the protection off.
Exit == up /\ stage = "idle" /\ ~firewallBypassApplied /\ Gone

-----------------------------------------------------------------------------
ApplyStep ==
    \/ NewChain \/ FlushChain \/ CheckJump \/ InsertJump \/ ApplyReturns
    \/ \E ip \in todo : AddRule(ip)
RestoreStep == DeleteJump \/ EmptyChain \/ DeleteChain

Next ==
    \/ Launch \/ Exit \/ Crash
    \/ StartProtection \/ StopProtection
    \/ ApplyStep \/ RestoreStep

Spec == Init /\ [][Next]_vars

-----------------------------------------------------------------------------
(* Properties.                                                             *)

\* The type invariant.
TypeOK ==
    /\ chain \in BOOLEAN /\ up \in BOOLEAN
    /\ applied \in BOOLEAN /\ firewallBypassApplied \in BOOLEAN
    /\ rules \subseteq ResolverIps /\ todo \subseteq ResolverIps
    /\ jumps \in Nat /\ failures \in Nat /\ launches \in Nat
    /\ stage \in {"idle"} \cup ApplyStages \cup RestoreStages

Blocks == chain /\ jumps > 0 /\ rules = ResolverIps

\* The jump is inserted once, however often the program died halfway and
\* applied the rules again; one more takes a command that failed of itself (the
\* -C before the -I), and each failure can add only one.  restore() deletes one.
OneJump == jumps <= 1 + failures

\* While no command has failed, the window's flag is true only when every
\* resolver is dropped, also after a launch that died halfway through apply()
\* or restore().
FlagMeansBlocked ==
    failures = 0 /\ up /\ firewallBypassApplied /\ stage = "idle" => Blocks

\* While no command has failed, a restore takes everything out of the kernel,
\* what a launch that died has left there included.
RestoreLeavesNothing ==
    [][up' /\ stage = "delete" /\ failures' = 0 => ~chain' /\ jumps' = 0]_vars

=============================================================================
