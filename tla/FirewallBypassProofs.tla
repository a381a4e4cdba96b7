------------------------ MODULE FirewallBypassProofs ------------------------
(***************************************************************************)
(* Theorems of FirewallBypass, for any set of resolvers and any number of  *)
(* launches and failing commands, and of FirewallBackends, which puts the  *)
(* blockers of the other systems beside it.                                *)
(***************************************************************************)
EXTENDS FirewallBackends, TLAPS

\* TypeOK is inductive.
LEMMA TypeStep == ASSUME TypeOK, [Next]_vars PROVE TypeOK'
<1> USE BoundsAssumption DEF TypeOK, ApplyStages, RestoreStages
<1>1. CASE Launch
  BY <1>1 DEF Launch, kernel
<1>2. CASE Exit \/ Crash
  BY <1>2 DEF Exit, Crash, Gone, kernel
<1>3. CASE StartProtection
  BY <1>3 DEF StartProtection, kernel, window
<1>4. CASE StopProtection
  BY <1>4 DEF StopProtection, kernel
<1>5. CASE NewChain
  <2>1. chain' \in BOOLEAN
    BY <1>5 DEF NewChain, Command, kernel
  <2>2. QED
    BY <2>1, <1>5 DEF NewChain, Command, Fails, Goto, kernel, window
<1>6. CASE FlushChain
  BY <1>6 DEF FlushChain, Command, Fails, Goto, kernel, window
<1>7. CASE CheckJump
  BY <1>7 DEF CheckJump, Fails, Goto, kernel, window
<1>8. CASE InsertJump
  BY <1>8 DEF InsertJump, Command, Fails, Goto, kernel, window
<1>9. CASE \E ip \in todo : AddRule(ip)
  BY <1>9 DEF AddRule, Command, Fails, kernel, window
<1>10. CASE ApplyReturns
  BY <1>10 DEF ApplyReturns, kernel
<1>11. CASE DeleteJump
  BY <1>11 DEF DeleteJump, Command, Fails, Goto, kernel, window
<1>12. CASE EmptyChain
  BY <1>12 DEF EmptyChain, Command, Fails, Goto, kernel, window
<1>13. CASE DeleteChain
  <2>1. chain' \in BOOLEAN
    BY <1>13 DEF DeleteChain, Command, kernel
  <2>2. rules' \subseteq ResolverIps /\ jumps' \in Nat
    BY <1>13 DEF DeleteChain, Command, kernel
  <2>3. failures' \in Nat
    BY <1>13 DEF DeleteChain, Command, Fails
  <2>4. QED
    BY <2>1, <2>2, <2>3, <1>13 DEF DeleteChain
<1>14. CASE UNCHANGED vars
  BY <1>14 DEF vars, kernel, window
<1>15. QED
  BY <1>1, <1>2, <1>3, <1>4, <1>5, <1>6, <1>7, <1>8, <1>9, <1>10, <1>11, <1>12, <1>13, <1>14
  DEF Next, ApplyStep, RestoreStep

\* Every variable of the model keeps its type (the members of MainWindow and
\* IptablesBypassBlocker, the chain, the rules and the jumps).
THEOREM TypeCorrect == Spec => []TypeOK
<1>1. Init => TypeOK
  <2> SUFFICES ASSUME Init
               PROVE  TypeOK
    OBVIOUS
  <2>1. chain \in BOOLEAN /\ up \in BOOLEAN /\ applied \in BOOLEAN
        /\ firewallBypassApplied \in BOOLEAN
    BY DEF Init
  <2>2. QED
    BY <2>1 DEF Init, TypeOK
<1>2. TypeOK /\ [Next]_vars => TypeOK'
  BY TypeStep
<1>3. QED
  BY <1>1, <1>2, PTL DEF Spec

-----------------------------------------------------------------------------
\* OneJump is not inductive: when the insertion is next, there must be room.
JumpInv == OneJump /\ (stage = "insert" => jumps <= failures)

LEMMA JumpStep == ASSUME TypeOK, JumpInv, [Next]_vars PROVE JumpInv'
<1> USE BoundsAssumption DEF TypeOK, JumpInv, OneJump
<1>1. CASE Launch
  BY <1>1 DEF Launch, kernel
<1>2. CASE Exit \/ Crash
  BY <1>2 DEF Exit, Crash, Gone, kernel
<1>3. CASE StartProtection
  BY <1>3 DEF StartProtection, kernel, window
<1>4. CASE StopProtection
  BY <1>4 DEF StopProtection, kernel
<1>5. CASE NewChain \/ FlushChain \/ EmptyChain
  BY <1>5 DEF NewChain, FlushChain, EmptyChain, Command, Fails, Goto, kernel
<1>6. CASE CheckJump
  BY <1>6 DEF CheckJump, Fails, Goto, kernel
<1>7. CASE InsertJump
  BY <1>7 DEF InsertJump, Command, Fails, Goto, kernel
<1>8. CASE \E ip \in todo : AddRule(ip)
  BY <1>8 DEF AddRule, Command, Fails, kernel
<1>9. CASE ApplyReturns
  BY <1>9 DEF ApplyReturns, kernel
<1>10. CASE DeleteJump
  BY <1>10 DEF DeleteJump, Command, Fails, Goto, kernel
<1>11. CASE DeleteChain
  BY <1>11 DEF DeleteChain, Command, Fails, kernel
<1>12. CASE UNCHANGED vars
  BY <1>12 DEF vars, kernel
<1>13. QED
  BY <1>1, <1>2, <1>3, <1>4, <1>5, <1>6, <1>7, <1>8, <1>9, <1>10, <1>11, <1>12
  DEF Next, ApplyStep, RestoreStep

\* However often the program dies between two commands and starts again, OUTPUT
\* jumps to the chain once, and once more for a command that failed of itself
\* (the -C before the -I in apply).
THEOREM JumpIsInsertedOnce == Spec => []OneJump
<1>1. Init => JumpInv
  BY DEF Init, JumpInv, OneJump
<1>2. TypeOK /\ JumpInv /\ [Next]_vars => JumpInv'
  BY JumpStep
<1>3. JumpInv => OneJump
  BY DEF JumpInv
<1>4. QED
  BY <1>1, <1>2, <1>3, TypeCorrect, PTL DEF Spec

-----------------------------------------------------------------------------
\* How far apply() and restore() have come, if no command failed: what each
\* stage knows of the kernel.
Progress ==
    /\ stage \in {"flush", "check", "insert", "rules"} \cup RestoreStages => chain
    /\ stage \in {"check", "insert"} => rules = {}
    /\ stage = "insert" => jumps = 0
    /\ stage = "rules" => jumps = 1 /\ rules = ResolverIps \ todo
    /\ stage \in {"empty", "delete"} => jumps = 0
    /\ stage = "delete" => rules = {}
    /\ (stage = "idle" \/ stage = "unjump") /\ applied => Blocks /\ jumps = 1

Flags ==
    /\ applied = firewallBypassApplied
    /\ stage \in ApplyStages => ~applied
    /\ stage \in {"new", "flush", "check", "insert"} => todo = ResolverIps
    /\ stage \in RestoreStages => applied
    /\ stage # "idle" => up

KernelInv == Flags /\ (failures = 0 => Progress)

\* No step loses track of the flags.
LEMMA FlagsStep == ASSUME TypeOK, Flags, [Next]_vars PROVE Flags'
<1> USE DEF TypeOK, Flags, ApplyStages, RestoreStages
<1>1. CASE Launch
  BY <1>1 DEF Launch
<1>2. CASE Exit \/ Crash
  BY <1>2 DEF Exit, Crash, Gone
<1>3. CASE StartProtection
  BY <1>3 DEF StartProtection, window
<1>4. CASE StopProtection
  BY <1>4 DEF StopProtection
<1>5. CASE NewChain \/ FlushChain \/ CheckJump \/ InsertJump
  <2>1. stage \in {"new", "flush", "check", "insert"}
    BY <1>5 DEF NewChain, FlushChain, CheckJump, InsertJump
  <2>2. \E next \in {"flush", "check", "insert", "rules"} : Goto(next)
    BY <1>5, Zenon DEF NewChain, FlushChain, CheckJump, InsertJump
  <2>3. QED
    BY <2>1, <2>2 DEF Goto, window
<1>6. CASE \E ip \in todo : AddRule(ip)
  BY <1>6 DEF AddRule, window
<1>7. CASE ApplyReturns
  BY <1>7 DEF ApplyReturns
<1>8. CASE RestoreStep
  BY <1>8 DEF RestoreStep, DeleteJump, EmptyChain, DeleteChain, Goto, window
<1>9. CASE UNCHANGED vars
  BY <1>9 DEF vars, window
<1>10. QED
  BY <1>1, <1>2, <1>3, <1>4, <1>5, <1>6, <1>7, <1>8, <1>9 DEF Next, ApplyStep

\* No step that fails no command loses what the stages know.
LEMMA ProgressStep ==
    ASSUME TypeOK, OneJump, KernelInv, [Next]_vars, failures' = 0
    PROVE  Progress'
<1> USE BoundsAssumption
    DEF TypeOK, OneJump, KernelInv, Flags, Progress, Blocks, ApplyStages, RestoreStages
<1>0. failures = 0
  BY DEF Next, ApplyStep, RestoreStep, Launch, Exit, Crash, Gone, StartProtection, StopProtection,
     NewChain, FlushChain, CheckJump, InsertJump, AddRule, ApplyReturns, DeleteJump, EmptyChain,
     DeleteChain, Command, Fails, vars
<1>1. CASE Launch \/ Exit \/ Crash
  BY <1>0, <1>1 DEF Launch, Exit, Crash, Gone, kernel
<1>2. CASE StartProtection
  BY <1>0, <1>2 DEF StartProtection, kernel, window
<1>3. CASE StopProtection
  BY <1>0, <1>3 DEF StopProtection, kernel
<1>4. CASE NewChain
  BY <1>0, <1>4 DEF NewChain, Command, Fails, Goto, kernel, window
<1>5. CASE FlushChain
  BY <1>0, <1>5 DEF FlushChain, Command, Fails, Goto, kernel, window
<1>6. CASE CheckJump
  BY <1>0, <1>6 DEF CheckJump, Fails, Goto, kernel, window
<1>7. CASE InsertJump
  BY <1>0, <1>7 DEF InsertJump, Command, Fails, Goto, kernel, window
<1>8. CASE \E ip \in todo : AddRule(ip)
  BY <1>0, <1>8 DEF AddRule, Command, Fails, kernel, window
<1>9. CASE ApplyReturns
  BY <1>0, <1>9 DEF ApplyReturns, kernel
<1>10. CASE DeleteJump
  BY <1>0, <1>10 DEF DeleteJump, Command, Fails, Goto, kernel, window
<1>11. CASE EmptyChain
  BY <1>0, <1>11 DEF EmptyChain, Command, Fails, Goto, kernel, window
<1>12. CASE DeleteChain
  BY <1>0, <1>12 DEF DeleteChain, Command, Fails, kernel
<1>13. CASE UNCHANGED vars
  BY <1>0, <1>13 DEF vars, kernel, window
<1>14. QED
  BY <1>1, <1>2, <1>3, <1>4, <1>5, <1>6, <1>7, <1>8, <1>9, <1>10, <1>11, <1>12, <1>13
  DEF Next, ApplyStep, RestoreStep

\* While no command has failed, each stage of apply() and restore() finds the
\* kernel as the commands before it leave it, whatever died before.
THEOREM KernelIsKnown == Spec => []KernelInv
<1>1. Init => KernelInv
  BY DEF Init, KernelInv, Flags, Progress, Blocks, ApplyStages, RestoreStages
<1>2. TypeOK /\ OneJump /\ KernelInv /\ [Next]_vars => KernelInv'
  BY FlagsStep, ProgressStep DEF KernelInv
<1>3. QED
  BY <1>1, <1>2, TypeCorrect, JumpIsInsertedOnce, PTL DEF Spec

\* MainWindow::firewallBypassApplied tells the truth as long as no command
\* fails: when no handler runs, every resolver is dropped.
THEOREM FlagIsTrue == Spec => []FlagMeansBlocked
<1>1. KernelInv => FlagMeansBlocked
  BY DEF KernelInv, Flags, Progress, FlagMeansBlocked, Blocks
<1>2. QED
  BY <1>1, KernelIsKnown, PTL

\* A restore() of which no command fails, in any launch, leaves neither chain
\* nor jump in the kernel.
THEOREM RestoreCleans == Spec => RestoreLeavesNothing
<1> DEFINE Cleans == up' /\ stage = "delete" /\ failures' = 0 => ~chain' /\ jumps' = 0
<1>1. TypeOK /\ KernelInv /\ [Next]_vars => [Cleans]_vars
  <2> SUFFICES ASSUME TypeOK, KernelInv, Next, up', stage = "delete", failures' = 0
               PROVE  ~chain' /\ jumps' = 0
    OBVIOUS
  <2>1. DeleteChain
    <3>1. ~(Launch \/ StartProtection \/ StopProtection)
      BY DEF Launch, StartProtection, StopProtection, KernelInv, Flags
    <3>2. ~(Exit \/ Crash)
      BY DEF Exit, Crash, Gone
    <3>3. ~ApplyStep
      BY DEF ApplyStep, NewChain, FlushChain, CheckJump, InsertJump, AddRule, ApplyReturns
    <3>4. ~(DeleteJump \/ EmptyChain)
      BY DEF DeleteJump, EmptyChain
    <3>5. QED
      BY <3>1, <3>2, <3>3, <3>4, Zenon DEF Next, RestoreStep
  <2>2. failures = 0
    BY <2>1, BoundsAssumption DEF DeleteChain, Command, Fails, TypeOK
  <2>3. chain /\ rules = {} /\ jumps = 0
    BY <2>2 DEF KernelInv, Progress, RestoreStages
  <2>4. QED
    BY <2>1, <2>2, <2>3 DEF DeleteChain, Command, Fails, kernel
<1>2. QED
  BY <1>1, TypeCorrect, KernelIsKnown, PTL DEF Spec, RestoreLeavesNothing

-----------------------------------------------------------------------------
(* Every blocker keeps the promise of SystemChange.                        *)

KernelChange ==
    Amount(IF chain /\ jumps > 0 THEN rules ELSE {}, chain \/ jumps > 0)

KernelBusy ==
    IF stage \in ApplyStages THEN "apply"
    ELSE IF stage \in RestoreStages THEN "restore" ELSE "none"

KernelFaults == IF failures > 0 THEN "unnoticed" ELSE "none"

\* No action forgets a failure.
LEMMA FailuresGrow ==
    ASSUME TypeOK, [Next]_vars
    PROVE  failures' \in Nat /\ failures' >= failures
  BY DEF TypeOK, Next, ApplyStep, RestoreStep, Launch, Exit, Crash, Gone, StartProtection,
         StopProtection, NewChain, FlushChain, CheckJump, InsertJump, AddRule, ApplyReturns,
         DeleteJump, EmptyChain, DeleteChain, Command, Fails, vars

\* On Linux, what the window shows is read off the kernel.
LEMMA KernelSeen ==
    ASSUME TypeOK, TypeOK', Iptables, blocker' = blocker, [Next]_vars
    PROVE  /\ Change = KernelChange /\ Change' = KernelChange'
           /\ Busy = KernelBusy /\ Busy' = KernelBusy'
           /\ Faults = KernelFaults /\ Faults' = KernelFaults'
           /\ Iptables'
           /\ KernelChange' \in Promise!Amounts
           /\ Promise!Worse
           /\ Faults' # "unnoticed" => failures' = 0 /\ failures = 0
<1>1. /\ Change = KernelChange /\ Change' = KernelChange'
      /\ Busy = KernelBusy /\ Busy' = KernelBusy'
      /\ Faults = KernelFaults /\ Faults' = KernelFaults' /\ Iptables'
  BY DEF Iptables, Change, Busy, Faults, Handler, KernelChange, KernelBusy, KernelFaults
<1>2. KernelChange' \in Promise!Amounts
  BY DEF KernelChange, Amount, Promise!Amounts
<1>3. failures \in Nat /\ failures' \in Nat /\ failures' >= failures
  BY FailuresGrow DEF TypeOK
<1>4. /\ KernelFaults \in {"none", "unnoticed"} /\ KernelFaults' \in {"none", "unnoticed"}
      /\ KernelFaults = "unnoticed" => KernelFaults' = "unnoticed"
      /\ KernelFaults' # "unnoticed" => failures' = 0 /\ failures = 0
  BY <1>3 DEF KernelFaults
<1>5. QED
  BY <1>1, <1>2, <1>4 DEF Promise!Worse

LEMMA KernelMaps ==
    ASSUME TypeOK, TypeOK', KernelInv, Iptables, blocker' = blocker, [Next]_vars
    PROVE  Promise!Next \/ UNCHANGED Promise!vars
<1>. USE DEF window
<1>1. /\ Change = KernelChange /\ Change' = KernelChange'
      /\ Busy = KernelBusy /\ Busy' = KernelBusy'
      /\ Faults = KernelFaults /\ Faults' = KernelFaults'
      /\ Iptables /\ Iptables'
      /\ KernelChange' \in Promise!Amounts
      /\ Promise!Worse
      /\ Faults' # "unnoticed" => failures' = 0 /\ failures = 0
  BY KernelSeen
<1>2. /\ stage = "idle" => KernelBusy = "none"
      /\ stage' = "idle" => KernelBusy' = "none"
      /\ stage \in ApplyStages => KernelBusy = "apply"
      /\ stage' \in ApplyStages => KernelBusy' = "apply"
      /\ stage \in RestoreStages => KernelBusy = "restore"
      /\ stage' \in RestoreStages => KernelBusy' = "restore"
  BY DEF KernelBusy, ApplyStages, RestoreStages
<1>3. UNCHANGED kernel => KernelChange' = KernelChange
  BY DEF kernel, KernelChange, Amount
<1>4. UNCHANGED failures => KernelFaults' = KernelFaults /\ Promise!Better
  BY <1>1 DEF KernelFaults, Promise!Better
<1>5. ASSUME UNCHANGED <<up, applied, firewallBypassApplied>>, stage \in ApplyStages,
             stage' \in ApplyStages
      PROVE  Promise!Next
  BY <1>1, <1>2, <1>5 DEF Promise!Works, Promise!Changes, Promise!Next
<1>6. ASSUME UNCHANGED <<up, applied, firewallBypassApplied>>, stage \in RestoreStages,
             stage' \in RestoreStages
      PROVE  Promise!Next
  BY <1>1, <1>2, <1>6 DEF Promise!Works, Promise!Changes, Promise!Next
<1>7. CASE Launch
  <2>1. Promise!Launched
    BY <1>1, <1>3, <1>4, <1>7 DEF Launch, KernelBusy, Promise!Launched
  <2>2. QED
    BY <2>1 DEF Promise!Next
<1>8. CASE Exit \/ Crash
  <2>1. up /\ Gone
    BY <1>8 DEF Exit, Crash
  <2>2. Promise!Died
    BY <1>1, <1>2, <1>3, <1>4, <2>1 DEF Gone, Promise!Died
  <2>3. QED
    BY <2>2 DEF Promise!Next
<1>9. CASE StartProtection
  <2>1. stage' = "new"
    BY <1>9 DEF StartProtection, KernelInv, Flags, TypeOK
  <2>2. Promise!Begins("apply") /\ ~firewallBypassApplied
    BY <1>1, <1>2, <1>3, <1>4, <1>9, <2>1 DEF StartProtection, ApplyStages, Promise!Begins
  <2>3. QED
    BY <1>1, <2>2 DEF Promise!Next
<1>10. CASE StopProtection
  <2>1. stage' = "unjump" /\ UNCHANGED firewallBypassApplied
    BY <1>10 DEF StopProtection, KernelInv, Flags, TypeOK
  <2>2. Promise!Begins("restore") /\ firewallBypassApplied
    BY <1>1, <1>2, <1>3, <1>4, <1>10, <2>1
       DEF StopProtection, RestoreStages, Promise!Begins
  <2>3. QED
    BY <1>1, <2>2 DEF Promise!Next
<1>11. CASE NewChain \/ FlushChain \/ InsertJump \/ \E ip \in todo : AddRule(ip)
  BY <1>5, <1>11 DEF NewChain, FlushChain, InsertJump, AddRule, Goto, ApplyStages
<1>12. CASE CheckJump
  BY <1>5, <1>12 DEF CheckJump, Goto, ApplyStages
<1>13. CASE ApplyReturns
  <2>1. failures = 0 => KernelChange' = "whole"
    <3>1. failures = 0 => chain' /\ jumps' = 1 /\ rules' = ResolverIps
      BY <1>13 DEF ApplyReturns, KernelInv, Progress, ApplyStages, RestoreStages, kernel
    <3>2. QED
      BY <3>1 DEF KernelChange, Amount
  <2>2. Promise!Applied
    BY <1>1, <1>2, <1>13, <2>1
       DEF ApplyReturns, ApplyStages, Promise!Applied, Promise!Ends, Promise!Changes
  <2>3. QED
    BY <2>2 DEF Promise!Next
<1>14. CASE DeleteJump \/ EmptyChain
  BY <1>6, <1>14 DEF DeleteJump, EmptyChain, Goto, RestoreStages
<1>15. CASE DeleteChain
  <2>1. failures' = 0 /\ failures = 0 => KernelChange' = "none"
    <3>1. failures' = 0 /\ failures = 0 => ~chain' /\ jumps' = 0
      BY <1>15 DEF DeleteChain, Command, Fails, KernelInv, Progress, RestoreStages, TypeOK
    <3>2. ~chain' /\ jumps' = 0 => KernelChange' = "none"
      BY ResolversAssumption DEF KernelChange, Amount
    <3>3. QED
      BY <3>1, <3>2
  <2>2. Promise!Restored
    BY <1>1, <1>2, <1>15, <2>1
       DEF DeleteChain, RestoreStages, Promise!Restored, Promise!Ends, Promise!Changes
  <2>3. QED
    BY <2>2 DEF Promise!Next
<1>16. CASE UNCHANGED vars
  BY <1>1, <1>3, <1>4, <1>16 DEF vars, KernelBusy, Promise!vars
<1>17. QED
  BY <1>7, <1>8, <1>9, <1>10, <1>11, <1>12, <1>13, <1>14, <1>15, <1>16
     DEF Next, ApplyStep, RestoreStep

PfStages == {"open", "write", "load", "flush", "remove"}
NetshStages == {"add", "delete"}

Counted == named \in [ResolverIps -> Nat] /\ left \subseteq ResolverIps
Added == \A ip \in ResolverIps \ left : named[ip] > 0

\* What pf and netsh hold, and what the rules file says, at each operation.
OtherInv ==
    /\ {opened, holds, flag, unnoticed} \subseteq BOOLEAN
    /\ at \in {"idle"} \cup Other!ApplyStages \cup Other!RestoreStages
    /\ failed \in Nat
    /\ Counted
    /\ at \in PfStages => blocker = "pf"
    /\ at \in NetshStages => blocker # "pf"
    /\ at \in Other!ApplyStages => ~flag
    /\ at \in Other!RestoreStages => flag
    /\ ~unnoticed =>
          /\ at = "load" => rulesFile = ResolverIps
          /\ at = "remove" => anchor = {}
          /\ at = "add" => Added

\* What the outcomes of an operation leave in the history.
LEMMA OtherOutcomes ==
    ASSUME failed \in Nat
    PROVE  /\ Other!Works => failed' = failed /\ unnoticed' = unnoticed
           /\ Other!FailsNoticed => failed' \in Nat /\ failed' > 0 /\ unnoticed' = unnoticed
           /\ Other!FailsUnnoticed => failed' \in Nat /\ failed' > 0 /\ unnoticed' = TRUE
  BY DEF Other!Works, Other!FailsNoticed, Other!FailsUnnoticed, Other!past

LEMMA OtherStep ==
    ASSUME OtherInv, [Other!Next]_otherVars
    PROVE  OtherInv'
<1>. USE OtherOutcomes
     DEF OtherInv, PfStages, NetshStages, Other!ApplyStages, Other!RestoreStages,
         Other!window, Other!past, Other!pf, Other!netsh, Other!Goto, Other!ApplySucceeds,
         Other!ApplyGivesUp, Other!RestoreSucceeds
<1>0. UNCHANGED <<named, left>> => (Counted' <=> Counted) /\ (Added' <=> Added)
  BY DEF Counted, Added
<1>1. CASE Other!Window
  <2>. USE <1>0 DEF Other!Window
  <2>1. CASE Other!Starts
    <3>1. CASE blocker = "pf" /\ Other!BeginApply("open") /\ UNCHANGED left
      BY <1>1, <2>1, <3>1 DEF Other!BeginApply
    <3>2. CASE blocker = "netsh" /\ Other!BeginApply("add") /\ left' = ResolverIps
      <4>1. Counted' /\ Added'
        BY <1>1, <3>2 DEF Counted, Added
      <4>2. QED
        BY <1>1, <2>1, <3>2, <4>1 DEF Other!BeginApply
    <3>3. QED
      BY <2>1, <3>1, <3>2 DEF Other!Starts
  <2>2. ASSUME UNCHANGED left, Other!Stops \/ Other!Open \/ Other!Kill \/ Other!Close
        PROVE  OtherInv'
    <3>1. UNCHANGED <<rulesFile, anchor, named, left, blocker, unnoticed, failed>>
      BY <1>1, <2>2 DEF Other!Stops, Other!Open, Other!Kill, Other!Close, Other!Leave,
                        Other!BeginRestore
    <3>2. CASE Other!Stops
      BY <3>1, <3>2 DEF Other!Stops, Other!BeginRestore
    <3>3. CASE Other!Open
      <4>1. opened' = TRUE /\ UNCHANGED <<holds, flag, at>>
        BY <3>3 DEF Other!Open
      <4>2. QED
        BY <3>1, <4>1
    <3>4. CASE Other!Kill \/ Other!Close
      BY <3>1, <3>4 DEF Other!Kill, Other!Close, Other!Leave
    <3>5. QED
      BY <2>2, <3>2, <3>3, <3>4
  <2>3. QED
    BY <1>1, <2>1, <2>2
<1>2. CASE Other!OpenRulesFile
  BY <1>0, <1>2 DEF Other!OpenRulesFile
<1>3. CASE Other!WriteRules
  BY <1>0, <1>3 DEF Other!WriteRules
<1>4. CASE Other!LoadRules
  BY <1>0, <1>4 DEF Other!LoadRules
<1>5. CASE Other!FlushAnchor
  BY <1>0, <1>5 DEF Other!FlushAnchor
<1>6. CASE Other!RemoveRulesFile
  BY <1>0, <1>6 DEF Other!RemoveRulesFile
<1>7. ASSUME NEW ip \in left, Other!AddRule(ip)
      PROVE  OtherInv'
  <2>1. Counted' /\ (Added => Added' \/ Other!FailsUnnoticed)
    <3>1. Counted /\ ip \in ResolverIps /\ named[ip] \in Nat
      BY DEF Counted
    <3>2. CASE named' = [named EXCEPT ![ip] = @ + 1]
      BY <1>7, <3>1, <3>2 DEF Other!AddRule, Counted, Added
    <3>3. CASE UNCHANGED named /\ Other!FailsUnnoticed
      BY <1>7, <3>1, <3>3 DEF Other!AddRule, Counted
    <3>4. QED
      BY <1>7, <3>2, <3>3 DEF Other!AddRule
  <2>2. QED
    BY <1>7, <2>1 DEF Other!AddRule
<1>8. CASE Other!AllAdded
  BY <1>0, <1>8 DEF Other!AllAdded
<1>9. CASE Other!DeleteRules
  <2>1. Counted'
    BY <1>0, <1>9 DEF Other!DeleteRules, Counted
  <2>2. QED
    BY <1>9, <2>1 DEF Other!DeleteRules
<1>10. CASE UNCHANGED otherVars
  BY <1>0, <1>10 DEF otherVars
<1>11. QED
  BY <1>1, <1>2, <1>3, <1>4, <1>5, <1>6, <1>7, <1>8, <1>9, <1>10 DEF Other!Next

OtherChange == Amount(Other!Blocked, FALSE)

OtherBusy ==
    IF at \in Other!ApplyStages THEN "apply"
    ELSE IF at \in Other!RestoreStages THEN "restore" ELSE "none"

\* On the other systems, what the window shows is read off the anchor or the rules.
LEMMA OtherSeen ==
    ASSUME OtherInv, OtherInv', ~Iptables, blocker' = blocker
    PROVE  /\ Change = OtherChange /\ Change' = OtherChange'
           /\ Busy = OtherBusy /\ Busy' = OtherBusy'
           /\ ~Iptables'
           /\ Change' \in Promise!Amounts
           /\ UNCHANGED <<failed, unnoticed>> => Faults' = Faults /\ Promise!Worse
           /\ Other!FailsNoticed => Faults' = "noticed" \/ Faults' = "unnoticed"
           /\ Other!FailsUnnoticed => Faults' = "unnoticed"
           /\ Other!FailsNoticed \/ Other!FailsUnnoticed => Promise!Worse
           /\ Faults # "unnoticed" => ~unnoticed
<1>1. /\ Change = OtherChange /\ Change' = OtherChange'
      /\ Busy = OtherBusy /\ Busy' = OtherBusy'
      /\ Faults = Other!Faults /\ Faults' = Other!Faults' /\ ~Iptables'
  BY DEF Iptables, Change, Busy, Faults, Handler, OtherChange, OtherBusy
<1>2. Change' \in Promise!Amounts
  BY <1>1 DEF OtherChange, Amount, Promise!Amounts
<1>3. /\ Other!FailsNoticed => failed' > 0 /\ unnoticed' = unnoticed
      /\ Other!FailsUnnoticed => unnoticed' = TRUE
  BY OtherOutcomes DEF OtherInv
<1>4. Other!FailsNoticed => Faults' = IF unnoticed THEN "unnoticed" ELSE "noticed"
  BY <1>1, <1>3 DEF Other!Faults
<1>5. Other!FailsUnnoticed => Faults' = "unnoticed"
  BY <1>1, <1>3 DEF Other!Faults
<1>6. UNCHANGED <<failed, unnoticed>> => Faults' = Faults
  BY <1>1 DEF Other!Faults
<1>7. /\ Faults \in {"none", "noticed", "unnoticed"}
      /\ Faults = "unnoticed" <=> unnoticed
  BY <1>1 DEF Other!Faults
<1>8. QED
  BY <1>1, <1>2, <1>4, <1>5, <1>6, <1>7 DEF Promise!Worse

LEMMA OtherMaps ==
    ASSUME OtherInv, OtherInv', ~Iptables, blocker' = blocker, Other!Next
    PROVE  Promise!Next \/ UNCHANGED Promise!vars
<1>. USE DEF Other!window, Other!past, Other!pf, Other!netsh
<1>1. /\ Change = OtherChange /\ Change' = OtherChange'
      /\ Busy = OtherBusy /\ Busy' = OtherBusy'
      /\ ~Iptables /\ ~Iptables'
      /\ Change' \in Promise!Amounts
      /\ UNCHANGED <<failed, unnoticed>> => Faults' = Faults /\ Promise!Worse
      /\ Other!FailsNoticed => Faults' = "noticed" \/ Faults' = "unnoticed"
      /\ Other!FailsUnnoticed => Faults' = "unnoticed"
      /\ Other!FailsNoticed \/ Other!FailsUnnoticed => Promise!Worse
      /\ Faults # "unnoticed" => ~unnoticed
  BY OtherSeen
<1>2. /\ at = "idle" => Busy = "none"
      /\ at' = "idle" => Busy' = "none"
      /\ at \in Other!ApplyStages => Busy = "apply"
      /\ at' \in Other!ApplyStages => Busy' = "apply"
      /\ at \in Other!RestoreStages => Busy = "restore"
      /\ at' \in Other!RestoreStages => Busy' = "restore"
      /\ UNCHANGED at => Busy' = Busy
  BY <1>1 DEF OtherBusy, Other!ApplyStages, Other!RestoreStages
<1>3. UNCHANGED <<anchor, named>> => Change' = Change
  BY <1>1 DEF OtherChange, Amount, Other!Blocked
<1>. USE DEF Other!Goto, Other!Works
<1>4. ASSUME Promise!Worse, UNCHANGED <<opened, holds, flag>>, at \in Other!ApplyStages,
             at' \in Other!ApplyStages
      PROVE  Promise!Next
  BY <1>1, <1>2, <1>4 DEF Promise!Works, Promise!Changes, Promise!Next
<1>5. ASSUME Promise!Worse, UNCHANGED <<opened, holds, flag>>, at \in Other!RestoreStages,
             at' \in Other!RestoreStages
      PROVE  Promise!Next
  BY <1>1, <1>2, <1>5 DEF Promise!Works, Promise!Changes, Promise!Next
<1>6. ASSUME Other!FailsNoticed, UNCHANGED <<opened, holds, flag>>, at \in Other!ApplyStages,
             at' = "idle"
      PROVE  Promise!Next
  <2>1. flag' = FALSE
    BY <1>6 DEF OtherInv
  <2>2. QED
    BY <1>1, <1>2, <1>6, <2>1
       DEF Promise!GivenUp, Promise!Ends, Promise!Changes, Promise!Next
<1>7. ASSUME Promise!Worse, at \in Other!ApplyStages, Other!ApplySucceeds,
             Faults' # "unnoticed" => Change' = "whole"
      PROVE  Promise!Next
  BY <1>1, <1>2, <1>7
     DEF Other!ApplySucceeds, Promise!Applied, Promise!Ends, Promise!Changes, Promise!Next
<1>8. ASSUME Promise!Worse, at \in Other!RestoreStages, Other!RestoreSucceeds,
             Faults' # "unnoticed" => Change' = "none"
      PROVE  Promise!Next
  BY <1>1, <1>2, <1>8
     DEF Other!RestoreSucceeds, Promise!Restored, Promise!Ends, Promise!Changes,
         Promise!Next
<1>9. CASE Other!Window
  <2>1. Change' = Change
    BY <1>3, <1>9 DEF Other!Window, Other!Starts, Other!Stops, Other!Open, Other!Kill,
                      Other!Close, Other!Leave, Other!BeginApply, Other!BeginRestore
  <2>2. CASE Other!Starts
    <3>1. ~flag /\ UNCHANGED <<opened, holds, flag, failed>>
      BY <2>2 DEF Other!Starts, Other!BeginApply
    <3>2. CASE holds
      <4>1. at = "idle" /\ at' = "idle" /\ UNCHANGED unnoticed
        BY <2>2, <3>2 DEF Other!Starts, Other!BeginApply, OtherInv
      <4>2. QED
        BY <1>1, <1>2, <2>1, <3>1, <4>1 DEF Promise!vars
    <3>3. CASE ~holds
      <4>1. /\ opened /\ at = "idle" /\ at' \in {"open", "add"}
            /\ unnoticed' = FALSE /\ failed' = failed
        BY <2>2, <3>3 DEF Other!Starts, Other!BeginApply
      <4>2. Faults = Other!Faults /\ Faults' = Other!Faults'
        BY <1>1 DEF Faults
      <4>3. Promise!Better
        BY <4>1, <4>2 DEF Other!Faults, Promise!Better
      <4>4. Promise!Begins("apply")
        BY <1>1, <1>2, <2>1, <3>1, <4>1, <4>3 DEF Other!ApplyStages, Promise!Begins
      <4>5. QED
        BY <1>1, <3>1, <4>4 DEF Promise!Next
    <3>4. QED
      BY <3>2, <3>3
  <2>3. CASE Other!Stops
    <3>1. /\ opened /\ flag /\ at = "idle" /\ at' \in {"flush", "delete"}
          /\ UNCHANGED <<opened, holds, flag, failed, unnoticed>>
      BY <2>3 DEF Other!Stops, Other!BeginRestore
    <3>2. Promise!Better
      BY <1>1, <3>1 DEF Faults, Other!Faults, Promise!Better
    <3>3. Promise!Begins("restore")
      BY <1>1, <1>2, <2>1, <3>1, <3>2 DEF Other!RestoreStages, Promise!Begins
    <3>4. QED
      BY <1>1, <3>1, <3>3 DEF Promise!Next
  <2>4. CASE Other!Open
    BY <1>1, <1>2, <2>1, <2>4 DEF Other!Open, Promise!Launched, Promise!Next
  <2>5. CASE Other!Kill \/ Other!Close
    BY <1>1, <1>2, <2>1, <2>5
       DEF Other!Kill, Other!Close, Other!Leave, Promise!Died, Promise!Next
  <2>6. QED
    BY <1>9, <2>2, <2>3, <2>4, <2>5 DEF Other!Window
<1>10. CASE Other!OpenRulesFile
  BY <1>1, <1>4, <1>6, <1>10
     DEF Other!OpenRulesFile, Other!ApplyGivesUp, Other!ApplyStages
<1>11. CASE Other!WriteRules
  BY <1>1, <1>4, <1>11 DEF Other!WriteRules, Other!ApplyStages
<1>12. CASE Other!LoadRules
  <2>1. CASE anchor' = rulesFile /\ Other!ApplySucceeds /\ Other!Works
    <3>1. Faults' # "unnoticed" => rulesFile = ResolverIps /\ blocker = "pf"
      BY <1>1, <1>12, <2>1 DEF Other!LoadRules, OtherInv, PfStages
    <3>2. Faults' # "unnoticed" => Change' = "whole"
      BY <1>1, <1>12, <2>1, <3>1 DEF OtherChange, Amount, Other!Blocked
    <3>3. QED
      BY <1>1, <1>7, <1>12, <2>1, <3>2 DEF Other!LoadRules, Other!ApplyStages
  <2>2. CASE Other!ApplyGivesUp /\ Other!FailsNoticed
    BY <1>6, <1>12, <2>2 DEF Other!LoadRules, Other!ApplyGivesUp, Other!ApplyStages
  <2>3. QED
    BY <1>12, <2>1, <2>2 DEF Other!LoadRules
<1>13. CASE Other!FlushAnchor
  BY <1>1, <1>5, <1>13 DEF Other!FlushAnchor, Other!RestoreStages
<1>14. CASE Other!RemoveRulesFile
  <2>1. Promise!Worse /\ (Faults' # "unnoticed" => ~unnoticed)
    BY <1>1, <1>14 DEF Other!RemoveRulesFile
  <2>2. ~unnoticed => anchor' = {} /\ blocker = "pf"
    BY <1>14 DEF Other!RemoveRulesFile, OtherInv, PfStages
  <2>3. Faults' # "unnoticed" => Change' = "none"
    BY <1>1, <2>1, <2>2, ResolversAssumption DEF OtherChange, Amount, Other!Blocked
  <2>4. QED
    BY <1>8, <1>14, <2>1, <2>3 DEF Other!RemoveRulesFile, Other!RestoreStages
<1>15. ASSUME NEW ip \in left, Other!AddRule(ip)
       PROVE  Promise!Next
  BY <1>1, <1>4, <1>15 DEF Other!AddRule, Other!ApplyStages
<1>16. CASE Other!AllAdded
  <2>1. Promise!Worse /\ Faults' = Faults
    BY <1>1, <1>16 DEF Other!AllAdded
  <2>2. ~unnoticed => \A ip \in ResolverIps : named'[ip] > 0
    BY <1>16 DEF Other!AllAdded, OtherInv, Added
  <2>3. blocker # "pf"
    BY <1>16 DEF Other!AllAdded, OtherInv, NetshStages
  <2>4. Faults' # "unnoticed" => Change' = "whole"
    <3>1. ~unnoticed => Other!Blocked' = ResolverIps
      BY <2>2, <2>3 DEF Other!Blocked
    <3>2. QED
      BY <1>1, <2>1, <3>1 DEF OtherChange, Amount
  <2>5. QED
    BY <1>7, <1>16, <2>1, <2>4 DEF Other!AllAdded, Other!ApplyStages
<1>17. CASE Other!DeleteRules
  <2>1. Promise!Worse
    BY <1>1, <1>17 DEF Other!DeleteRules
  <2>2. CASE named' = [ip \in ResolverIps |-> 0]
    <3>1. blocker # "pf"
      BY <1>17 DEF Other!DeleteRules, OtherInv, NetshStages
    <3>2. Other!Blocked' = {}
      BY <2>2, <3>1 DEF Other!Blocked
    <3>3. Change' = "none"
      BY <1>1, <3>2, ResolversAssumption DEF OtherChange, Amount
    <3>4. QED
      BY <1>8, <1>17, <2>1, <3>3 DEF Other!DeleteRules, Other!RestoreStages
  <2>3. CASE Other!FailsUnnoticed
    BY <1>1, <1>8, <1>17, <2>1, <2>3 DEF Other!DeleteRules, Other!RestoreStages
  <2>4. QED
    BY <1>17, <2>2, <2>3 DEF Other!DeleteRules
<1>18. QED
  BY <1>9, <1>10, <1>11, <1>12, <1>13, <1>14, <1>15, <1>16, <1>17 DEF Other!Next

\* The window with any blocker starts and steps as that blocker does.
LEMMA BackendsRunIptables == BackendsSpec => Spec
<1>1. [BackendsNext]_backendVars => [Next]_vars
  BY DEF BackendsNext, backendVars
<1>2. QED
  BY <1>1, PTL DEF BackendsSpec, BackendsInit, Spec

LEMMA OtherInvariant == BackendsSpec => []OtherInv
<1>1. BackendsInit => OtherInv
  <2> SUFFICES ASSUME BackendsInit
               PROVE  OtherInv
    OBVIOUS
  <2>0. Other!WindowInit
    BY DEF BackendsInit, Other!Init
  <2>1. /\ at = "idle" /\ failed \in Nat
        /\ {opened, holds, flag, unnoticed} \subseteq BOOLEAN
    <3>1. /\ at = "idle" /\ failed = 0
          /\ {opened, holds, flag, unnoticed} \subseteq BOOLEAN
      BY <2>0 DEF Other!WindowInit
    <3>2. QED
      BY <3>1, SMT
  <2>2. Counted
    BY DEF BackendsInit, Other!Init, Counted
  <2>3. QED
    BY ONLY <2>1, <2>2
       DEF OtherInv, PfStages, NetshStages, Other!ApplyStages, Other!RestoreStages
<1>2. OtherInv /\ [BackendsNext]_backendVars => OtherInv'
  <2>1. [BackendsNext]_backendVars => [Other!Next]_otherVars
    BY DEF BackendsNext, backendVars
  <2>2. QED
    BY <2>1, OtherStep
<1>3. QED
  BY <1>1, <1>2, PTL DEF BackendsSpec

\* Whichever blocker the system gets, with any failures and deaths: when apply() says yes
\* every resolver is blocked, after restore() nothing is left, unless a command failed
\* whose result the code does not look at, since apply() began (pf, netsh) or ever
\* (iptables; firewall_bypass_blocker.cpp and its classes).
THEOREM PromiseIsKept == BackendsSpec => KeepsPromise
<1>1. BackendsInit => Promise!Init
  <2> SUFFICES ASSUME BackendsInit
               PROVE  Promise!Init
    OBVIOUS
  <2>. USE DEF BackendsInit, Promise!Init
  <2>1. CASE Iptables
    <3>1. Change = "none"
      BY <2>1, ResolversAssumption DEF Init, Change, Amount
    <3>2. Busy = "none" /\ Faults = "none"
      BY <2>1 DEF Init, Busy, Handler, ApplyStages, RestoreStages, Faults
    <3>3. QED
      BY <2>1, <3>1, <3>2 DEF Init
  <2>2. CASE ~Iptables
    <3>1. Other!Init /\ Other!WindowInit
      BY <2>2 DEF Iptables, Other!Init
    <3>2. Other!Blocked = {}
      BY <3>1 DEF Other!Init, Other!Blocked
    <3>3. Change = "none"
      BY <2>2, <3>2, ResolversAssumption DEF Change, Amount
    <3>4. Busy = "none"
      BY <2>2, <3>1 DEF Other!WindowInit, Busy, Handler, Other!ApplyStages,
                        Other!RestoreStages
    <3>5. Faults = "none"
      BY <2>2, <3>1 DEF Other!WindowInit, Faults, Other!Faults
    <3>6. QED
      BY <2>2, <3>1, <3>3, <3>4, <3>5 DEF Other!WindowInit
  <2>3. QED
    BY <2>1, <2>2
<1>2. TypeOK /\ TypeOK' /\ KernelInv /\ OtherInv /\ OtherInv' /\
        [BackendsNext]_backendVars => [Promise!Next]_(Promise!vars)
  <2> SUFFICES ASSUME TypeOK, TypeOK', KernelInv, OtherInv, OtherInv',
                      [BackendsNext]_backendVars
               PROVE  Promise!Next \/ UNCHANGED Promise!vars
    OBVIOUS
  <2>1. CASE Iptables /\ BackendsNext
    <3>1. blocker' = blocker /\ [Next]_vars
      BY <2>1 DEF BackendsNext, Iptables, otherVars
    <3>2. QED
      BY <2>1, <3>1, KernelMaps
  <2>2. CASE ~Iptables /\ BackendsNext
    <3>1. Other!Next
      BY <2>2 DEF BackendsNext, Iptables
    <3>2. blocker' = blocker
      BY <3>1 DEF Other!Next, Other!Window, Other!OpenRulesFile, Other!WriteRules,
                  Other!LoadRules, Other!FlushAnchor, Other!RemoveRulesFile,
                  Other!AddRule, Other!AllAdded, Other!DeleteRules
    <3>3. QED
      BY <2>2, <3>1, <3>2, OtherMaps
  <2>3. CASE UNCHANGED backendVars
    BY <2>3 DEF backendVars, vars, kernel, window, otherVars, Promise!vars, Iptables, Change,
                Busy, Faults, Handler, Amount, Other!Blocked, Other!Faults
  <2>4. QED
    BY <2>1, <2>2, <2>3
<1>3. QED
  BY <1>1, <1>2, BackendsRunIptables, TypeCorrect, KernelIsKnown, OtherInvariant, PTL
     DEF BackendsSpec, KeepsPromise, Promise!Spec

=============================================================================
