---------------------- MODULE SystemDnsRedirectProofs ----------------------
(***************************************************************************)
(* Proofs about SystemDnsRedirect, and about SystemDnsBackends, which puts *)
(* SystemdResolved beside it, for every choice of their constants.         *)
(***************************************************************************)
EXTENDS SystemDnsBackends, TLAPS

-----------------------------------------------------------------------------
(* Types.                                                                  *)

\* What is copied into the backup is a file's content.
LEMMA AsBackedUpType ==
    ASSUME NEW f \in Files
    PROVE  AsBackedUp(f) \in Files
  BY DEF AsBackedUp, Files

\* The type invariant holds in every behaviour.
THEOREM TypeCorrect == Spec => []TypeOK
<1>. USE DEF Files, ApplyStages, RestoreStages, Troubles, files, window, counters
<1>1. Init => TypeOK
  <2> SUFFICES ASSUME Init
               PROVE  TypeOK
    OBVIOUS
  <2>1. {up, closing, applied, systemDnsApplied} \subseteq BOOLEAN
    BY DEF Init
  <2>2. QED
    BY <2>1 DEF Init, TypeOK
<1>2. TypeOK /\ [Next]_vars => TypeOK'
  <2> SUFFICES ASSUME TypeOK, [Next]_vars
               PROVE  TypeOK'
    OBVIOUS
  <2>. USE DEF TypeOK, Fails, Works, RunsAnew
  <2>1. CASE Launch
    BY <2>1 DEF Launch
  <2>2. CASE Exit \/ Crash
    BY <2>2 DEF Exit, Crash, Gone
  <2>3. CASE OtherWrites
    BY <2>3 DEF OtherWrites
  <2>4. ASSUME NEW redirect \in BOOLEAN, StartProtection(redirect)
        PROVE  TypeOK'
    BY <2>4 DEF StartProtection
  <2>5. ASSUME NEW destroyed \in BOOLEAN, StopServer(destroyed)
        PROVE  TypeOK'
    BY <2>5 DEF StopServer
  <2>6. CASE ApplyStep
    <3>. USE DEF ApplyReturns
    <3>1. CASE ApplyRefused
      BY <3>1 DEF ApplyRefused
    <3>2. CASE BeginBackup
      BY <3>2 DEF BeginBackup
    <3>3. CASE CopyBackup
      BY <3>3, AsBackedUpType DEF CopyBackup
    <3>4. CASE TruncateResolvConf
      BY <3>4 DEF TruncateResolvConf
    <3>5. CASE WriteLoopback
      BY <3>5 DEF WriteLoopback
    <3>6. QED
      BY <2>6, <3>1, <3>2, <3>3, <3>4, <3>5 DEF ApplyStep
  <2>7. CASE RestoreStep
    BY <2>7 DEF RestoreStep, BeginRestore, CopyBack, RemoveBackup, RestoreReturns
  <2>8. CASE UNCHANGED vars
    BY <2>8 DEF vars
  <2>9. QED
    BY <2>1, <2>2, <2>3, <2>4, <2>5, <2>6, <2>7, <2>8 DEF Next
<1>3. QED
  BY <1>1, <1>2, PTL DEF Spec

-----------------------------------------------------------------------------
(* The user's resolver settings are not lost.                              *)

HasWanted == backup = AsBackedUp(wanted)

\* The stages at which there is a backup.
BackedStages == {"copy", "truncate", "write", "copyback", "remove"}

\* OriginalKept made inductive: which of the two files is the good one at each
\* stage of apply() and restore().
KeptInv ==
    /\ stage \in BackedStages => backup # Absent
    /\ BackupGood =>
          /\ backup = Absent \/ stage = "copy" => IsWanted(resolv)
          /\ backup # Absent /\ stage # "copy" => HasWanted
          /\ stage = "remove" => resolv = backup

\* Missing and empty are the same to a resolver, and no backup is missing.
LEMMA AsBackedUpFacts ==
    ASSUME NEW f
    PROVE  /\ AsBackedUp(f) # Absent
           /\ AsBackedUp(AsBackedUp(f)) = AsBackedUp(f)
  BY FilesAssumption DEF AsBackedUp

\* A backup turns good only where somebody writes the file with no backup there.
LEMMA GoodBefore ==
    ASSUME TypeOK, [Next]_vars, BackupGood', ~OtherWrites
    PROVE  BackupGood
  BY DEF BackupGood, TypeOK, Next, Launch, Exit, Crash, Gone, StartProtection,
         StopServer, ApplyStep, ApplyRefused, BeginBackup, CopyBackup,
         TruncateResolvConf, WriteLoopback, RestoreStep, BeginRestore, CopyBack,
         RemoveBackup, Fails, Works, RunsAnew, vars

LEMMA BackedStep ==
    ASSUME KeptInv, [Next]_vars
    PROVE  stage' \in BackedStages => backup' # Absent
<1>. USE FilesAssumption, AsBackedUpFacts DEF KeptInv, BackedStages, files, window, counters
<1>1. CASE Launch \/ Exit \/ Crash \/ OtherWrites
  BY <1>1 DEF Launch, Exit, Crash, Gone, OtherWrites
<1>2. ASSUME NEW redirect \in BOOLEAN, StartProtection(redirect)
      PROVE  stage' \in BackedStages => backup' # Absent
  BY <1>2 DEF StartProtection
<1>3. ASSUME NEW destroyed \in BOOLEAN, StopServer(destroyed)
      PROVE  stage' \in BackedStages => backup' # Absent
  BY <1>3 DEF StopServer
<1>4. CASE ApplyStep
  BY <1>4 DEF ApplyStep, ApplyRefused, BeginBackup, CopyBackup, TruncateResolvConf,
              WriteLoopback, ApplyReturns
<1>5. CASE RestoreStep
  BY <1>5 DEF RestoreStep, BeginRestore, CopyBack, RemoveBackup, RestoreReturns
<1>6. CASE UNCHANGED vars
  BY <1>6 DEF vars
<1>7. QED
  BY <1>1, <1>2, <1>3, <1>4, <1>5, <1>6 DEF Next

LEMMA KeptInvStep ==
    ASSUME TypeOK, KeptInv, [Next]_vars
    PROVE  KeptInv'
<1> SUFFICES ASSUME BackupGood'
             PROVE  KeptInv'
  BY BackedStep DEF KeptInv
<1>. USE BackedStep DEF files, window, counters, IsWanted, HasWanted, BackedStages
<1>1. CASE OtherWrites
  <2>1. backup = Absent
    BY <1>1 DEF OtherWrites, BackupGood
  <2>2. resolv' = wanted' /\ backup' = backup /\ stage' = stage
    BY <1>1 DEF OtherWrites
  <2>3. QED
    BY <2>1, <2>2 DEF KeptInv
<1>2. CASE ~OtherWrites
  <2>0. BackupGood
    BY <1>2, GoodBefore
  <2>1. CASE Launch
    BY <2>0, <2>1 DEF Launch, KeptInv
  <2>2. CASE Exit
    BY <2>0, <2>2 DEF Exit, Gone, KeptInv
  <2>3. CASE Crash
    <3>1. stage # "copy"
      BY <2>3 DEF Crash, BackupGood
    <3>2. QED
      BY <2>0, <2>3, <3>1 DEF Crash, Gone, KeptInv
  <2>4. ASSUME NEW redirect \in BOOLEAN, StartProtection(redirect)
        PROVE  KeptInv'
    BY <2>0, <2>4 DEF StartProtection, KeptInv
  <2>5. ASSUME NEW destroyed \in BOOLEAN, StopServer(destroyed)
        PROVE  KeptInv'
    BY <2>0, <2>5 DEF StopServer, KeptInv
  <2>6. CASE ApplyStep
    <3>. USE DEF ApplyReturns
    <3>1. CASE ApplyRefused
      BY <2>0, <3>1 DEF ApplyRefused, KeptInv
    <3>2. CASE BeginBackup
      BY <2>0, <3>2, FilesAssumption DEF BeginBackup, KeptInv, AsBackedUp
    <3>3. CASE CopyBackup
      <4>1. backup' = AsBackedUp(resolv) /\ stage' = "truncate" /\ wanted' = wanted
        BY <3>3 DEF CopyBackup, BackupGood, Fails
      <4>2. QED
        BY <2>0, <3>3, <4>1, AsBackedUpFacts DEF CopyBackup, KeptInv
    <3>4. CASE TruncateResolvConf
      BY <2>0, <3>4 DEF TruncateResolvConf, KeptInv
    <3>5. CASE WriteLoopback
      BY <2>0, <3>5 DEF WriteLoopback, KeptInv
    <3>6. QED
      BY <2>6, <3>1, <3>2, <3>3, <3>4, <3>5 DEF ApplyStep
  <2>7. CASE RestoreStep
    <3>. USE DEF RestoreReturns
    <3>1. CASE BeginRestore
      BY <2>0, <3>1 DEF BeginRestore, KeptInv
    <3>2. CASE CopyBack
      BY <2>0, <3>2 DEF CopyBack, KeptInv
    <3>3. CASE RemoveBackup
      <4>1. IsWanted(resolv)
        BY <2>0, <3>3, AsBackedUpFacts DEF RemoveBackup, KeptInv
      <4>2. QED
        BY <2>0, <3>3, <4>1 DEF RemoveBackup, KeptInv
    <3>4. QED
      BY <2>7, <3>1, <3>2, <3>3 DEF RestoreStep
  <2>8. CASE UNCHANGED vars
    BY <2>0, <2>8 DEF vars, KeptInv
  <2>9. QED
    BY <1>2, <2>1, <2>2, <2>3, <2>4, <2>5, <2>6, <2>7, <2>8 DEF Next
<1>3. QED
  BY <1>1, <1>2

\* The strengthening is an invariant.
THEOREM KeptInvariant == Spec => []KeptInv
<1>1. Init => KeptInv
  BY DEF Init, KeptInv, IsWanted, BackedStages
<1>2. TypeOK /\ KeptInv /\ [Next]_vars => KeptInv'
  BY KeptInvStep
<1>3. QED
  BY <1>1, <1>2, TypeCorrect, PTL DEF Spec

\* Wherever apply() or restore() fails or dies, the user's resolver settings are
\* in one of the two files.
THEOREM OriginalIsKept == Spec => []OriginalKept
<1>1. KeptInv => OriginalKept
  BY DEF KeptInv, OriginalKept, HasWanted
<1>2. QED
  BY <1>1, KeptInvariant, PTL

\* A restore that runs to its end brings back what the user had.
THEOREM RestoreIsExact == Spec => RestoreExact
<1>1. TypeOK /\ KeptInv /\ [Next]_vars
         => [CopiedBack /\ BackupGood => IsWanted(resolv')]_vars
  <2> SUFFICES ASSUME TypeOK, KeptInv, [Next]_vars, CopiedBack, BackupGood
               PROVE  IsWanted(resolv')
    OBVIOUS
  <2>1. CopyBack
    BY DEF CopiedBack, Next, Launch, Exit, Crash, Gone, OtherWrites, StartProtection,
           StopServer, ApplyStep, ApplyRefused, BeginBackup, CopyBackup, ApplyReturns,
           TruncateResolvConf, WriteLoopback, RestoreStep, BeginRestore, RemoveBackup,
           RestoreReturns, vars
  <2>2. resolv' = backup /\ HasWanted
    BY <2>1 DEF CopyBack, CopiedBack, RestoreReturns, KeptInv, BackedStages
  <2>3. QED
    BY <2>2, AsBackedUpFacts DEF HasWanted, IsWanted
<1>2. QED
  BY <1>1, TypeCorrect, KeptInvariant, PTL DEF Spec, RestoreExact

-----------------------------------------------------------------------------
(* The machine is not left pointing at a port where nobody listens.        *)

Undisturbed == trouble \cap {"crash", "restore"} = {}

\* NoDeadRedirect made inductive.  Whatever fails: a file that names 127.0.0.1 has a
\* backup, which does not.  Since the last death or failed restore that is not made
\* good yet: the file names it only where the filter listens or a restore is about to
\* begin.
AliveInv ==
    /\ resolv = Loopback => backup # Absent
    /\ backup # Loopback
    /\ closing => port = "none"
    /\ stage \in {"copy", "remove"} => resolv # Loopback
    /\ Undisturbed =>
          /\ resolv = Loopback =>
                \/ stage = "idle" /\ up /\ port = "53" /\ systemDnsApplied
                \/ stage = "restore"
          /\ stage \in ApplyStages => up /\ port = "53" /\ resolv # Loopback

LEMMA AliveStep ==
    ASSUME TypeOK, KeptInv, AliveInv, [Next]_vars
    PROVE  AliveInv'
<1>. USE FilesAssumption
     DEF files, window, counters, ApplyStages, Fails, Works, RunsAnew, AliveInv, Undisturbed
<1>1. CASE Launch \/ Exit \/ Crash
  BY <1>1 DEF Launch, Exit, Crash, Gone
<1>2. CASE OtherWrites
  BY <1>2 DEF OtherWrites
<1>3. ASSUME NEW redirect \in BOOLEAN, StartProtection(redirect)
      PROVE  AliveInv'
  BY <1>3 DEF StartProtection
<1>4. ASSUME NEW destroyed \in BOOLEAN, StopServer(destroyed)
      PROVE  AliveInv'
  BY <1>4 DEF StopServer
<1>. USE DEF KeptInv, BackedStages, AsBackedUp
<1>5. CASE ApplyStep
  <2>. USE DEF ApplyReturns
  <2>1. CASE ApplyRefused
    BY <2>1 DEF ApplyRefused
  <2>2. CASE BeginBackup
    BY <2>2 DEF BeginBackup
  <2>3. CASE CopyBackup
    BY <2>3 DEF CopyBackup
  <2>4. CASE TruncateResolvConf
    BY <2>4 DEF TruncateResolvConf
  <2>5. CASE WriteLoopback
    BY <2>5 DEF WriteLoopback
  <2>6. QED
    BY <1>5, <2>1, <2>2, <2>3, <2>4, <2>5 DEF ApplyStep
<1>6. CASE RestoreStep
  BY <1>6
     DEF RestoreStep, BeginRestore, CopyBack, RemoveBackup, RestoreReturns
<1>7. CASE UNCHANGED vars
  BY <1>7 DEF vars
<1>8. QED
  BY <1>1, <1>2, <1>3, <1>4, <1>5, <1>6, <1>7 DEF Next

\* However often the protection is started and stopped, whichever step of a start
\* fails and whoever else writes the file: outside a handler the machine asks
\* 127.0.0.1 only while the filter listens there, but after a death or a failed
\* restore, until a restore runs to its end (StartProtection, stopProtection).
THEOREM RedirectIsAlive == Spec => []NoDeadRedirect
<1>1. Init => AliveInv
  BY FilesAssumption DEF Init, AliveInv, ApplyStages
<1>2. TypeOK /\ KeptInv /\ AliveInv /\ [Next]_vars => AliveInv'
  BY AliveStep
<1>3. AliveInv => NoDeadRedirect
  BY DEF AliveInv, NoDeadRedirect, Undisturbed
<1>4. QED
  BY <1>1, <1>2, <1>3, TypeCorrect, KeptInvariant, PTL DEF Spec

-----------------------------------------------------------------------------
(* Both configurators keep the promise of SystemChange.                    *)

\* The window's flags and the configurator's own, whatever has failed.
FlagInv ==
    /\ stage # "idle" \/ closing => up
    /\ port = "none" /\ stage = "idle" => ~systemDnsApplied
    /\ stage \in ApplyStages => port # "none" /\ ~systemDnsApplied
    /\ stage \in RestoreStages => systemDnsApplied
    /\ systemDnsApplied => applied
    /\ applied => backup # Absent

LEMMA FlagStep ==
    ASSUME TypeOK, KeptInv, FlagInv, [Next]_vars
    PROVE  FlagInv'
<1>. USE FilesAssumption
     DEF files, window, counters, ApplyStages, RestoreStages, FlagInv, TypeOK, KeptInv,
         BackedStages
<1>1. CASE Launch \/ Exit \/ Crash
  BY <1>1 DEF Launch, Exit, Crash, Gone
<1>2. CASE OtherWrites
  BY <1>2 DEF OtherWrites
<1>3. ASSUME NEW redirect \in BOOLEAN, StartProtection(redirect)
      PROVE  FlagInv'
  BY <1>3 DEF StartProtection
<1>4. ASSUME NEW destroyed \in BOOLEAN, StopServer(destroyed)
      PROVE  FlagInv'
  BY <1>4 DEF StopServer
<1>5. CASE ApplyStep
  BY <1>5
     DEF ApplyStep, ApplyRefused, BeginBackup, CopyBackup, TruncateResolvConf,
         WriteLoopback, ApplyReturns, AsBackedUp
<1>6. CASE RestoreStep
  BY <1>6
     DEF RestoreStep, BeginRestore, CopyBack, RemoveBackup, RestoreReturns
<1>7. CASE UNCHANGED vars
  BY <1>7 DEF vars
<1>8. QED
  BY <1>1, <1>2, <1>3, <1>4, <1>5, <1>6, <1>7 DEF Next

LEMMA FlagInvariant == Spec => []FlagInv
<1>1. Init => FlagInv
  BY DEF Init, FlagInv, ApplyStages, RestoreStages
<1>2. TypeOK /\ KeptInv /\ FlagInv /\ [Next]_vars => FlagInv'
  BY FlagStep
<1>3. QED
  BY <1>1, <1>2, TypeCorrect, KeptInvariant, PTL DEF Spec

\* What systemd-resolved is told, and has been told, at each operation.
ResolvedInv ==
    /\ {opened, holds, flag, unnoticed} \subseteq BOOLEAN
    /\ at \in {"idle"} \cup Resolved!ApplyStages \cup Resolved!RestoreStages
    /\ failed \in Nat
    /\ dropIn \in {"absent", "short", "whole"}
    /\ daemon \in {"absent", "short", "whole", "dead"}
    /\ at \in Resolved!ApplyStages => ~flag
    /\ at \in Resolved!RestoreStages => flag
    /\ at = "undo" => failed > 0
    /\ ~unnoticed =>
          /\ at = "restart" => dropIn = "whole"
          /\ at \in {"idle", "remove"} /\ flag => dropIn = "whole" /\ daemon = "whole"
          /\ at = "reload" => dropIn = "absent"

\* What the outcomes of an operation leave in the history.
LEMMA ResolvedOutcomes ==
    ASSUME failed \in Nat
    PROVE  /\ Resolved!Works => failed' = failed /\ unnoticed' = unnoticed
           /\ Resolved!FailsNoticed => failed' \in Nat /\ failed' > 0 /\ unnoticed' = unnoticed
           /\ Resolved!FailsUnnoticed => failed' \in Nat /\ failed' > 0 /\ unnoticed' = TRUE
  BY DEF Resolved!Works, Resolved!FailsNoticed, Resolved!FailsUnnoticed, Resolved!past

LEMMA ResolvedStep ==
    ASSUME ResolvedInv, [Resolved!Next]_resolvedVars
    PROVE  ResolvedInv'
<1>. USE DEF ResolvedInv, Resolved!ApplyStages, Resolved!RestoreStages, Resolved!window,
             Resolved!past
<1>1. CASE Resolved!Window
  <2>1. CASE Resolved!Open
    BY <1>1, <2>1 DEF Resolved!Window, Resolved!Open
  <2>2. CASE Resolved!Kill \/ Resolved!Close
    BY <1>1, <2>2 DEF Resolved!Window, Resolved!Kill, Resolved!Close, Resolved!Leave
  <2>3. CASE Resolved!BeginApply("create")
    BY <1>1, <2>3 DEF Resolved!Window, Resolved!BeginApply
  <2>4. CASE Resolved!BeginRestore("remove")
    BY <1>1, <2>4 DEF Resolved!Window, Resolved!BeginRestore
  <2>5. QED
    BY <1>1, <2>1, <2>2, <2>3, <2>4 DEF Resolved!Window
<1>2. CASE Resolved!DaemonStarts
  BY <1>2 DEF Resolved!DaemonStarts
<1>. USE ResolvedOutcomes
     DEF Resolved!Goto, Resolved!ApplySucceeds, Resolved!ApplyGivesUp,
         Resolved!RestoreSucceeds, Resolved!RestoreGivesUp, Resolved!RestartRefused
<1>3. CASE Resolved!OtherRemoves
  BY <1>3 DEF Resolved!OtherRemoves
<1>4. CASE Resolved!CreateDropIn
  BY <1>4 DEF Resolved!CreateDropIn
<1>5. CASE Resolved!WriteDropIn
  BY <1>5 DEF Resolved!WriteDropIn
<1>6. CASE Resolved!Restart
  <2>1. CASE daemon' = dropIn /\ Resolved!ApplySucceeds /\ Resolved!Works
    BY <1>6, <2>1 DEF Resolved!Restart
  <2>2. CASE daemon' \in {daemon, "dead"} /\ Resolved!Goto("undo") /\ Resolved!FailsNoticed
    BY <1>6, <2>2 DEF Resolved!Restart
  <2>3. QED
    BY <1>6, <2>1, <2>2 DEF Resolved!Restart
<1>7. CASE Resolved!Undo
  BY <1>7 DEF Resolved!Undo
<1>8. CASE Resolved!RemoveDropIn
  BY <1>8 DEF Resolved!RemoveDropIn
<1>9. CASE Resolved!Reload
  BY <1>9 DEF Resolved!Reload
<1>10. CASE UNCHANGED resolvedVars
  BY <1>10 DEF resolvedVars
<1>11. QED
  BY <1>1, <1>2, <1>3, <1>4, <1>5, <1>6, <1>7, <1>8, <1>9, <1>10 DEF Resolved!Next

\* How the resolver file shows the change.
FilesAmount ==
    /\ FilesChange \in {"none", "part", "whole"}
    /\ IsWanted(resolv) => FilesChange = "none"
    /\ resolv = Loopback => FilesChange = "whole"

LEMMA FilesAmountHolds == TypeOK => FilesAmount
  BY FilesAssumption DEF TypeOK, FilesAmount, FilesChange, IsWanted, AsBackedUp

FilesBusy ==
    IF stage \in ApplyStages THEN "apply"
    ELSE IF stage \in RestoreStages THEN "restore" ELSE "none"

\* Without a link, what the window shows is read off the resolver file.
LEMMA FilesSeen ==
    ASSUME TypeOK, TypeOK', ~linked, linked' = linked
    PROVE  /\ Change = FilesChange /\ Change' = FilesChange'
           /\ Busy = FilesBusy /\ Busy' = FilesBusy'
           /\ FaultsOf = FilesFaults /\ FaultsOf' = FilesFaults'
           /\ FilesAmount /\ FilesAmount'
           /\ UNCHANGED trouble => FilesFaults' = FilesFaults /\ BackupGood' = BackupGood
<1>1. /\ Change = FilesChange /\ Change' = FilesChange'
      /\ Busy = FilesBusy /\ Busy' = FilesBusy'
      /\ FaultsOf = FilesFaults /\ FaultsOf' = FilesFaults'
  BY DEF Change, Busy, FaultsOf, Handler, FilesBusy
<1>2. FilesAmount /\ FilesAmount'
  BY FilesAmountHolds, PTL
<1>3. UNCHANGED trouble => FilesFaults' = FilesFaults /\ BackupGood' = BackupGood
  BY DEF FilesFaults, BackupGood
<1>4. QED
  BY <1>1, <1>2, <1>3

\* What each kind of trouble is to the promise.
LEMMA FilesTrouble ==
    ASSUME TypeOK, NEW kinds \in SUBSET {"step", "write", "restore", "copy"}, Fails(kinds)
    PROVE  /\ FilesFaults \in {"none", "noticed", "unnoticed"}
           /\ FilesFaults' \in {"none", "noticed", "unnoticed"}
           /\ FilesFaults \in {"noticed", "unnoticed"} =>
                 FilesFaults' \in {FilesFaults, "unnoticed"}
           /\ "step" \in kinds => FilesFaults' # "none"
           /\ "write" \in kinds => FilesFaults' = "unnoticed"
           /\ BackupGood' \in {BackupGood, FALSE}
           /\ "copy" \notin kinds => BackupGood' = BackupGood
<1>1. trouble' = trouble \cup kinds
  BY DEF Fails
<1>2. "copy" \notin kinds => BackupGood' = BackupGood
  BY <1>1 DEF BackupGood
<1>3. "copy" \in kinds => BackupGood' = FALSE
  BY <1>1 DEF BackupGood
<1>4. /\ "step" \in kinds => FilesFaults' # "none"
      /\ "write" \in kinds => FilesFaults' = "unnoticed"
      /\ FilesFaults = "unnoticed" => FilesFaults' = "unnoticed"
      /\ FilesFaults = "noticed" => FilesFaults' # "none"
      /\ FilesFaults' \in {"none", "noticed", "unnoticed"}
  BY <1>1 DEF FilesFaults
<1>5. FilesFaults \in {"none", "noticed", "unnoticed"}
  BY DEF FilesFaults
<1>6. QED
  BY <1>2, <1>3, <1>4, <1>5

\* apply() on the resolver file.
LEMMA FilesApplyMaps ==
    ASSUME TypeOK, TypeOK', KeptInv, FlagInv, ~linked, linked' = linked, ApplyStep
    PROVE  Promise!Next
<1>. USE DEF files, window, counters, ApplyReturns, ApplyStages, RestoreStages
<1>1. /\ Change = FilesChange /\ Change' = FilesChange'
      /\ Busy = FilesBusy /\ Busy' = FilesBusy'
      /\ FaultsOf = FilesFaults /\ FaultsOf' = FilesFaults'
      /\ FilesAmount /\ FilesAmount'
      /\ UNCHANGED trouble => FilesFaults' = FilesFaults /\ BackupGood' = BackupGood
  BY FilesSeen
<1>2. Change' \in Promise!Amounts
  BY <1>1 DEF Promise!Amounts, FilesAmount
<1>3. stage \in ApplyStages /\ Busy = "apply" /\ systemDnsApplied = FALSE
  BY <1>1 DEF FilesBusy, FlagInv, TypeOK, ApplyStep, ApplyRefused, BeginBackup, CopyBackup,
              TruncateResolvConf, WriteLoopback
<1>4. ASSUME Works
      PROVE  Promise!Worse /\ UNCHANGED FilesFaults /\ BackupGood' = BackupGood
  BY <1>1, <1>4 DEF Works, Promise!Worse, FilesFaults
<1>5. ASSUME NEW kinds \in SUBSET {"step", "write", "restore", "copy"}, Fails(kinds)
      PROVE  /\ Promise!Worse
             /\ BackupGood' \in {BackupGood, FALSE}
             /\ "step" \in kinds => FilesFaults' # "none"
             /\ "write" \in kinds => FilesFaults' = "unnoticed"
             /\ "copy" \notin kinds => BackupGood' = BackupGood
  BY <1>1, <1>5, FilesTrouble DEF Promise!Worse
<1>6. ASSUME Promise!Worse, stage' = "idle", systemDnsApplied' = FALSE,
             UNCHANGED <<up, applied>>, FilesFaults' # "none" \/ applied,
             BackupGood' \in {BackupGood, FALSE}
      PROVE  Promise!GivenUp
  <2>1. Promise!Ends("apply")
    BY <1>1, <1>2, <1>3, <1>6 DEF FilesBusy, Promise!Changes, Promise!Ends
  <2>2. (~linked /\ ~BackupGood)' \in {~linked /\ ~BackupGood, TRUE}
    BY <1>6
  <2>3. QED
    BY <1>1, <1>6, <2>1, <2>2 DEF Promise!GivenUp
<1>7. ASSUME Works, stage' \in ApplyStages, UNCHANGED <<systemDnsApplied, up, applied>>
      PROVE  Promise!Works
  BY <1>1, <1>2, <1>3, <1>4, <1>7 DEF FilesBusy, Promise!Changes, Promise!Works
<1>8. CASE ApplyRefused
  BY <1>4, <1>6, <1>8 DEF ApplyRefused, Promise!Next
<1>9. CASE BeginBackup
  <2>1. CASE Fails({"step"}) /\ ApplyReturns(FALSE)
    BY <1>5, <1>6, <1>9, <2>1 DEF BeginBackup, Promise!Next
  <2>2. CASE Works /\ stage' \in ApplyStages /\ UNCHANGED systemDnsApplied
    BY <1>7, <1>9, <2>2 DEF BeginBackup, Promise!Next
  <2>3. QED
    BY <1>9, <2>1, <2>2 DEF BeginBackup
<1>10. CASE CopyBackup
  <2>1. CASE Fails({"step", "copy"}) /\ ApplyReturns(FALSE)
    BY <1>5, <1>6, <1>10, <2>1 DEF CopyBackup, Promise!Next
  <2>2. CASE Works /\ stage' = "truncate" /\ UNCHANGED systemDnsApplied
    BY <1>7, <1>10, <2>2 DEF CopyBackup, Promise!Next
  <2>3. QED
    BY <1>10, <2>1, <2>2 DEF CopyBackup
<1>11. CASE TruncateResolvConf
  <2>1. CASE Fails({"step"}) /\ ApplyReturns(FALSE)
    BY <1>5, <1>6, <1>11, <2>1 DEF TruncateResolvConf, Promise!Next
  <2>2. CASE Works /\ stage' = "write" /\ UNCHANGED systemDnsApplied
    BY <1>7, <1>11, <2>2 DEF TruncateResolvConf, Promise!Next
  <2>3. QED
    BY <1>11, <2>1, <2>2 DEF TruncateResolvConf
<1>12. CASE WriteLoopback
  <2>1. CASE resolv' = Loopback /\ Works
    <3>1. Promise!Worse /\ BackupGood' = BackupGood /\ Change' = "whole"
      BY <1>1, <1>4, <2>1 DEF FilesAmount
    <3>2. Promise!Applied
      BY <1>1, <1>2, <1>3, <1>12, <3>1
         DEF WriteLoopback, FilesBusy, Promise!Applied, Promise!Ends, Promise!Changes
    <3>3. QED
      BY <3>2 DEF Promise!Next
  <2>2. CASE Fails({"write"})
    <3>1. Promise!Worse /\ BackupGood' = BackupGood /\ FilesFaults' = "unnoticed"
      <4>1. {"write"} \in SUBSET {"step", "write", "restore", "copy"}
        OBVIOUS
      <4>2. "write" \in {"write"} /\ "copy" \notin {"write"}
        OBVIOUS
      <4>3. QED
        BY ONLY <1>5, <2>2, <4>1, <4>2
    <3>2. Promise!Applied
      BY <1>1, <1>2, <1>3, <1>12, <3>1
         DEF WriteLoopback, FilesBusy, Promise!Applied, Promise!Ends, Promise!Changes
    <3>3. QED
      BY <3>2 DEF Promise!Next
  <2>3. QED
    BY <1>12, <2>1, <2>2 DEF WriteLoopback
<1>13. QED
  BY <1>8, <1>9, <1>10, <1>11, <1>12 DEF ApplyStep

\* restore() on it.
LEMMA FilesRestoreMaps ==
    ASSUME TypeOK, TypeOK', KeptInv, FlagInv, ~linked, linked' = linked, RestoreStep
    PROVE  Promise!Next
<1>. USE DEF files, window, counters, RestoreReturns, ApplyStages, RestoreStages
<1>1. /\ Change = FilesChange /\ Change' = FilesChange'
      /\ Busy = FilesBusy /\ Busy' = FilesBusy'
      /\ FaultsOf = FilesFaults /\ FaultsOf' = FilesFaults'
      /\ FilesAmount /\ FilesAmount'
      /\ UNCHANGED trouble => FilesFaults' = FilesFaults /\ BackupGood' = BackupGood
  BY FilesSeen
<1>2. Change' \in Promise!Amounts
  BY <1>1 DEF Promise!Amounts, FilesAmount
<1>3. stage \in RestoreStages /\ Busy = "restore" /\ backup # Absent
  BY <1>1 DEF FilesBusy, FlagInv, RestoreStep, BeginRestore, CopyBack, RemoveBackup
<1>4. ASSUME Works, stage' \in RestoreStages, UNCHANGED <<systemDnsApplied, up, applied>>
      PROVE  Promise!Works
  BY <1>1, <1>2, <1>3, <1>4
     DEF Works, FilesFaults, FilesBusy, Promise!Worse, Promise!Changes, Promise!Works
<1>5. ASSUME Fails({"step", "restore"}), RestoreReturns, UNCHANGED <<up, applied>>
      PROVE  Promise!RestoreGivenUp
  <2>1. /\ FilesFaults' \in {"none", "noticed", "unnoticed"}
        /\ FilesFaults \in {"noticed", "unnoticed"} =>
              FilesFaults' \in {FilesFaults, "unnoticed"}
        /\ FilesFaults' # "none" /\ BackupGood' = BackupGood
    <3>1. {"step", "restore"} \in SUBSET {"step", "write", "restore", "copy"}
      OBVIOUS
    <3>2. "step" \in {"step", "restore"} /\ "copy" \notin {"step", "restore"}
      OBVIOUS
    <3>3. QED
      BY ONLY <1>5, <3>1, <3>2, TypeOK, FilesTrouble
  <2>2. QED
    BY <1>1, <1>2, <1>3, <1>5, <2>1
       DEF FilesBusy, Promise!Worse, Promise!Changes, Promise!Ends, Promise!RestoreGivenUp
<1>6. CASE BeginRestore
  BY <1>3, <1>4, <1>5, <1>6 DEF BeginRestore, Promise!Next
<1>7. CASE CopyBack
  BY <1>4, <1>5, <1>7 DEF CopyBack, Promise!Next
<1>8. CASE RemoveBackup
  <2>1. FilesFaults' = FilesFaults /\ BackupGood' = BackupGood
    BY <1>8 DEF RemoveBackup, FilesFaults, BackupGood
  <2>2. BackupGood => IsWanted(resolv)
    BY <1>3, <1>8, AsBackedUpFacts DEF RemoveBackup, KeptInv, HasWanted, IsWanted
  <2>3. BackupGood => Change' = "none"
    BY <1>1, <1>8, <2>2 DEF RemoveBackup, FilesAmount, IsWanted
  <2>4. Promise!Restored
    BY <1>1, <1>2, <1>3, <1>8, <2>1, <2>3
       DEF RemoveBackup, FilesFaults, FilesBusy, Promise!Worse, Promise!Changes,
           Promise!Ends, Promise!Restored
  <2>5. QED
    BY <2>4 DEF Promise!Next
<1>9. QED
  BY <1>6, <1>7, <1>8 DEF RestoreStep

\* Everything else, without a link.
LEMMA FilesRestMaps ==
    ASSUME TypeOK, TypeOK', KeptInv, FlagInv, ~linked, linked' = linked, [Next]_vars,
           ~ApplyStep, ~RestoreStep
    PROVE  Promise!Next \/ UNCHANGED Promise!vars
<1>. USE DEF files, window, counters
<1>1. /\ Change = FilesChange /\ Change' = FilesChange'
      /\ Busy = FilesBusy /\ Busy' = FilesBusy'
      /\ FaultsOf = FilesFaults /\ FaultsOf' = FilesFaults'
      /\ FilesAmount /\ FilesAmount'
      /\ UNCHANGED trouble => FilesFaults' = FilesFaults /\ BackupGood' = BackupGood
  BY FilesSeen
<1>2. UNCHANGED <<resolv, wanted>> => FilesChange' = FilesChange
  BY DEF FilesChange, IsWanted, AsBackedUp
<1>3. /\ stage = "idle" => FilesBusy = "none"
      /\ stage' = "idle" => FilesBusy' = "none"
      /\ stage' = "apply" => FilesBusy' = "apply"
      /\ stage' = "restore" => FilesBusy' = "restore"
      /\ UNCHANGED stage => FilesBusy' = FilesBusy
  BY DEF FilesBusy, ApplyStages, RestoreStages
<1>4. ASSUME UNCHANGED <<resolv, wanted, trouble, stage, up, systemDnsApplied, applied>>
      PROVE  UNCHANGED Promise!vars
  BY <1>1, <1>2, <1>3, <1>4 DEF Promise!vars
<1>5. ASSUME NEW handler \in {"apply", "restore"}, stage = "idle", stage' = handler, up,
             RunsAnew, UNCHANGED <<resolv, wanted, up, systemDnsApplied, applied>>
      PROVE  Promise!Begins(handler)
  <2>1. trouble' = trouble \ {"step", "write"}
    BY <1>5 DEF RunsAnew
  <2>2. FilesFaults' = "none" /\ BackupGood' = BackupGood
    BY <2>1 DEF FilesFaults, BackupGood
  <2>3. QED
    BY <1>1, <1>2, <1>3, <1>5, <2>2 DEF Promise!Begins, Promise!Better
<1>6. CASE Launch
  <2>1. Promise!Launched
    BY <1>1, <1>2, <1>3, <1>6 DEF Launch, Promise!Launched
  <2>2. QED
    BY <2>1 DEF Promise!Next
<1>7. CASE Exit \/ Crash
  <2>1. up /\ Gone
    BY <1>7 DEF Exit, Crash, FlagInv
  <2>2. FilesFaults' = FilesFaults /\ BackupGood' \in {BackupGood, FALSE}
    BY <1>7 DEF Exit, Crash, FilesFaults, BackupGood
  <2>3. (~linked /\ ~BackupGood)' \in {~linked /\ ~BackupGood, TRUE}
    BY <2>2
  <2>4. Promise!Died
    BY <1>1, <1>2, <1>3, <2>1, <2>2, <2>3 DEF Gone, Promise!Died
  <2>5. QED
    BY <2>4 DEF Promise!Next
<1>8. CASE OtherWrites
  <2>1. UNCHANGED <<up, applied, systemDnsApplied, stage, backup>>
    BY <1>8 DEF OtherWrites
  <2>2. FilesFaults' = FilesFaults /\ Promise!Worse
    BY <1>1, <1>8 DEF OtherWrites, FilesFaults, Promise!Worse
  <2>3. FilesChange' = "none"
    <3>1. IsWanted(resolv)'
      BY <1>8 DEF OtherWrites, IsWanted
    <3>2. QED
      BY <1>1, <3>1 DEF FilesAmount
  <2>4. Promise!Changes
    BY <1>1, <2>2, <2>3 DEF Promise!Changes, Promise!Amounts
  <2>5. CASE backup # Absent
    <3>1. BackupGood' = FALSE
      BY <1>8, <2>5 DEF OtherWrites, BackupGood
    <3>2. Promise!Disturbed
      BY <1>1, <1>3, <2>1, <2>4, <3>1 DEF Promise!Disturbed
    <3>3. QED
      BY <3>2 DEF Promise!Next
  <2>6. CASE backup = Absent
    <3>1. BackupGood' = TRUE
      BY <1>8, <2>6 DEF OtherWrites, BackupGood
    <3>2. CASE BackupGood
      <4>1. FilesChange = "none"
        BY <1>1, <2>6, <3>2 DEF KeptInv, FilesAmount
      <4>2. QED
        BY <1>1, <1>3, <2>1, <2>2, <2>3, <3>1, <3>2, <4>1 DEF Promise!vars
    <3>3. CASE ~BackupGood
      <4>1. Promise!Disturbed
        BY <1>1, <1>3, <2>1, <2>3, <2>4, <3>1, <3>3 DEF Promise!Disturbed
      <4>2. QED
        BY <4>1 DEF Promise!Next
    <3>4. QED
      BY <3>2, <3>3
  <2>7. QED
    BY <2>5, <2>6
<1>9. ASSUME NEW redirect \in BOOLEAN, StartProtection(redirect)
      PROVE  Promise!Next \/ UNCHANGED Promise!vars
  <2>1. /\ UNCHANGED <<resolv, wanted, up, applied, systemDnsApplied>>
        /\ up /\ stage = "idle" /\ ~systemDnsApplied
    BY <1>9 DEF StartProtection, FlagInv
  <2>2. CASE UNCHANGED <<trouble, stage>>
    BY <1>4, <2>1, <2>2
  <2>3. CASE RunsAnew /\ stage' = "apply"
    BY <1>5, <2>1, <2>3 DEF Promise!Next
  <2>4. QED
    BY <1>9, <2>1, <2>2, <2>3 DEF StartProtection, RunsAnew
<1>10. ASSUME NEW destroyed \in BOOLEAN, StopServer(destroyed)
       PROVE  Promise!Next \/ UNCHANGED Promise!vars
  <2>1. /\ UNCHANGED <<resolv, wanted, up, applied, systemDnsApplied>>
        /\ up /\ stage = "idle"
    BY <1>10 DEF StopServer
  <2>2. CASE systemDnsApplied
    <3>1. Promise!Begins("restore")
      BY <1>5, <1>10, <2>1, <2>2 DEF StopServer
    <3>2. QED
      BY <2>2, <3>1 DEF Promise!Next
  <2>3. CASE ~systemDnsApplied
    BY <1>4, <1>10, <2>1, <2>3 DEF StopServer, RunsAnew
  <2>4. QED
    BY <2>2, <2>3
<1>11. CASE UNCHANGED vars
  BY <1>4, <1>11 DEF vars
<1>12. QED
  BY <1>6, <1>7, <1>8, <1>9, <1>10, <1>11 DEF Next

ResolvedBusy ==
    IF at \in Resolved!ApplyStages THEN "apply"
    ELSE IF at \in Resolved!RestoreStages THEN "restore" ELSE "none"

\* With a link, what the window shows is read off the drop-in file and the daemon.
LEMMA ResolvedSeen ==
    ASSUME ResolvedInv, ResolvedInv', linked, linked' = linked
    PROVE  /\ Change = Resolved!Change /\ Change' = Resolved!Change'
           /\ Busy = ResolvedBusy /\ Busy' = ResolvedBusy'
           /\ FaultsOf = Resolved!Faults /\ FaultsOf' = Resolved!Faults'
           /\ Change' \in Promise!Amounts
           /\ UNCHANGED <<failed, unnoticed>> => FaultsOf' = FaultsOf /\ Promise!Worse
           /\ Resolved!FailsNoticed => FaultsOf' = "noticed" \/ FaultsOf' = "unnoticed"
           /\ Resolved!FailsUnnoticed => FaultsOf' = "unnoticed"
           /\ Resolved!FailsNoticed \/ Resolved!FailsUnnoticed => Promise!Worse
           /\ FaultsOf # "unnoticed" => ~unnoticed
           /\ UNCHANGED (~linked /\ ~BackupGood)
<1>. USE DEF Change, Busy, FaultsOf, Handler, ResolvedBusy
<1>1. /\ Change = Resolved!Change /\ Change' = Resolved!Change'
      /\ Busy = ResolvedBusy /\ Busy' = ResolvedBusy'
      /\ FaultsOf = Resolved!Faults /\ FaultsOf' = Resolved!Faults'
  OBVIOUS
<1>2. Change' \in Promise!Amounts
  BY <1>1 DEF Resolved!Change, Promise!Amounts
<1>3. /\ Resolved!FailsNoticed => failed' > 0 /\ unnoticed' = unnoticed
      /\ Resolved!FailsUnnoticed => unnoticed' = TRUE
  BY ResolvedOutcomes DEF ResolvedInv
<1>4. Resolved!FailsNoticed => FaultsOf' = IF unnoticed THEN "unnoticed" ELSE "noticed"
  BY <1>1, <1>3 DEF Resolved!Faults
<1>5. Resolved!FailsUnnoticed => FaultsOf' = "unnoticed"
  BY <1>1, <1>3 DEF Resolved!Faults
<1>6. UNCHANGED <<failed, unnoticed>> => FaultsOf' = FaultsOf
  BY <1>1 DEF Resolved!Faults
<1>7. /\ FaultsOf \in {"none", "noticed", "unnoticed"}
      /\ FaultsOf = "unnoticed" <=> unnoticed
  BY <1>1 DEF Resolved!Faults
<1>8. QED
  BY <1>1, <1>2, <1>4, <1>5, <1>6, <1>7 DEF Promise!Worse

LEMMA ResolvedMaps ==
    ASSUME ResolvedInv, ResolvedInv', linked, linked' = linked, Resolved!Next
    PROVE  Promise!Next \/ UNCHANGED Promise!vars
<1>. USE DEF Resolved!window, Resolved!past
<1>1. /\ Change = Resolved!Change /\ Change' = Resolved!Change'
      /\ Busy = ResolvedBusy /\ Busy' = ResolvedBusy'
      /\ Change' \in Promise!Amounts
      /\ UNCHANGED <<failed, unnoticed>> => FaultsOf' = FaultsOf /\ Promise!Worse
      /\ Resolved!FailsNoticed => FaultsOf' = "noticed" \/ FaultsOf' = "unnoticed"
      /\ Resolved!FailsUnnoticed => FaultsOf' = "unnoticed"
      /\ Resolved!FailsNoticed \/ Resolved!FailsUnnoticed => Promise!Worse
      /\ FaultsOf # "unnoticed" => ~unnoticed
      /\ UNCHANGED (~linked /\ ~BackupGood)
  BY ResolvedSeen
<1>2. /\ at = "idle" => Busy = "none"
      /\ at' = "idle" => Busy' = "none"
      /\ at \in Resolved!ApplyStages => Busy = "apply"
      /\ at' \in Resolved!ApplyStages => Busy' = "apply"
      /\ at \in Resolved!RestoreStages => Busy = "restore"
      /\ at' \in Resolved!RestoreStages => Busy' = "restore"
      /\ UNCHANGED at => Busy' = Busy
  BY <1>1 DEF ResolvedBusy, Resolved!ApplyStages, Resolved!RestoreStages
<1>3. UNCHANGED <<dropIn, daemon>> => Change' = Change
  BY <1>1 DEF Resolved!Change
<1>. USE DEF Resolved!Goto, Resolved!Works
<1>4. ASSUME Promise!Worse, UNCHANGED <<opened, holds, flag>>,
             at \in Resolved!ApplyStages, at' \in Resolved!ApplyStages
      PROVE  Promise!Works
  BY <1>1, <1>2, <1>4 DEF Promise!Works, Promise!Changes
<1>5. ASSUME Promise!Worse, UNCHANGED <<opened, holds, flag>>,
             at \in Resolved!RestoreStages, at' \in Resolved!RestoreStages
      PROVE  Promise!Works
  BY <1>1, <1>2, <1>5 DEF Promise!Works, Promise!Changes
<1>6. ASSUME Promise!Worse, UNCHANGED <<opened, holds, flag>>,
             at \in Resolved!ApplyStages, at' = "idle", FaultsOf' # "none"
      PROVE  Promise!GivenUp
  <2>1. flag' = FALSE
    BY <1>6 DEF ResolvedInv
  <2>2. QED
    BY <1>1, <1>2, <1>6, <2>1 DEF Promise!GivenUp, Promise!Ends, Promise!Changes
<1>7. ASSUME Promise!Worse, UNCHANGED <<opened, holds>>, flag' = FALSE,
             at \in Resolved!RestoreStages, at' = "idle", FaultsOf' # "none"
      PROVE  Promise!RestoreGivenUp
  BY <1>1, <1>2, <1>7 DEF Promise!RestoreGivenUp, Promise!Ends, Promise!Changes
<1>8. CASE Resolved!Window
  <2>. USE DEF Resolved!Window
  <2>1. Change' = Change
    BY <1>3, <1>8
  <2>2. ~Resolved!BeginApply("create") => UNCHANGED <<failed, unnoticed>>
    BY <1>8 DEF Resolved!Open, Resolved!Kill, Resolved!Close, Resolved!Leave,
                Resolved!BeginRestore
  <2>3. CASE Resolved!Open
    BY <1>1, <1>2, <2>1, <2>3 DEF Resolved!Open, Promise!Launched, Promise!Next
  <2>4. CASE Resolved!Kill \/ Resolved!Close
    BY <1>1, <1>2, <2>1, <2>4
       DEF Resolved!Kill, Resolved!Close, Resolved!Leave, Promise!Died, Promise!Next
  <2>5. CASE Resolved!BeginApply("create") /\ ~holds
    <3>1. failed' = failed /\ unnoticed' = FALSE /\ at' = "create"
      BY <2>5 DEF Resolved!BeginApply
    <3>2. Promise!Better
      BY <1>1, <3>1, ResolvedSeen DEF FaultsOf, Resolved!Faults, Promise!Better
    <3>3. Promise!Begins("apply")
      BY <1>1, <1>2, <2>1, <2>5, <3>1, <3>2
         DEF Resolved!BeginApply, Resolved!ApplyStages, Promise!Begins
    <3>4. QED
      BY <2>5, <3>3 DEF Resolved!BeginApply, Promise!Next
  <2>6. CASE Resolved!BeginApply("create") /\ holds
    <3>1. UNCHANGED <<failed, unnoticed>> /\ at' = "idle"
      BY <2>6 DEF Resolved!BeginApply, ResolvedInv
    <3>2. QED
      BY <1>1, <1>2, <2>1, <2>6, <3>1 DEF Resolved!BeginApply, Promise!vars
  <2>7. CASE Resolved!BeginRestore("remove")
    <3>1. UNCHANGED <<failed, unnoticed>> /\ at' = "remove"
      BY <2>7 DEF Resolved!BeginRestore
    <3>2. Promise!Better
      BY <1>1, <3>1 DEF FaultsOf, Resolved!Faults, Promise!Better
    <3>3. Promise!Begins("restore")
      BY <1>1, <1>2, <2>1, <2>7, <3>1, <3>2
         DEF Resolved!BeginRestore, Resolved!RestoreStages, Promise!Begins
    <3>4. QED
      BY <2>7, <3>3 DEF Resolved!BeginRestore, Promise!Next
  <2>8. QED
    BY <1>8, <2>3, <2>4, <2>5, <2>6, <2>7 DEF ResolvedInv
<1>9. CASE Resolved!DaemonStarts
  <2>1. Resolved!Works /\ UNCHANGED <<opened, holds, flag, at>>
    BY <1>9 DEF Resolved!DaemonStarts, Resolved!Works
  <2>2. Change = "part"
    BY <1>1, <1>9 DEF Resolved!DaemonStarts, Resolved!Change
  <2>3. CASE at = "idle" /\ flag /\ FaultsOf # "unnoticed"
    BY <1>1, <1>9, <2>3 DEF Resolved!DaemonStarts, ResolvedInv
  <2>4. CASE at = "idle" /\ ~(flag /\ FaultsOf # "unnoticed")
    BY <1>1, <1>2, <2>1, <2>2, <2>4 DEF Promise!Disturbed, Promise!Changes, Promise!Next
  <2>5. CASE at # "idle"
    BY <1>1, <1>4, <1>5, <2>1, <2>5 DEF ResolvedInv, Promise!Next
  <2>6. QED
    BY <2>3, <2>4, <2>5
<1>10. CASE Resolved!OtherRemoves
  BY <1>1, <1>2, <1>10
     DEF Resolved!OtherRemoves, Promise!Disturbed, Promise!Changes, Promise!Next
<1>11. CASE Resolved!CreateDropIn
  BY <1>1, <1>4, <1>6, <1>11
     DEF Resolved!CreateDropIn, Resolved!ApplyGivesUp, Resolved!ApplyStages, Promise!Next
<1>12. CASE Resolved!WriteDropIn
  BY <1>1, <1>4, <1>12 DEF Resolved!WriteDropIn, Resolved!ApplyStages, Promise!Next
<1>13. CASE Resolved!Restart
  <2>1. CASE daemon' = dropIn /\ Resolved!ApplySucceeds /\ Resolved!Works
    <3>1. FaultsOf' # "unnoticed" => Change' = "whole"
      BY <1>1, <1>13, <2>1 DEF Resolved!Restart, Resolved!Change, ResolvedInv
    <3>2. Promise!Applied
      BY <1>1, <1>2, <1>13, <2>1, <3>1
         DEF Resolved!Restart, Resolved!ApplySucceeds, Resolved!ApplyStages,
             Promise!Applied, Promise!Ends, Promise!Changes
    <3>3. QED
      BY <3>2 DEF Promise!Next
  <2>2. CASE Resolved!Goto("undo") /\ Resolved!FailsNoticed
    BY <1>1, <1>4, <1>13, <2>2 DEF Resolved!Restart, Resolved!ApplyStages, Promise!Next
  <2>3. QED
    BY <1>13, <2>1, <2>2 DEF Resolved!Restart
<1>14. CASE Resolved!Undo
  <2>1. FaultsOf' # "none"
    <3>1. failed > 0
      BY <1>14 DEF Resolved!Undo, ResolvedInv
    <3>2. Resolved!Works => FaultsOf' # "none"
      BY <3>1, ResolvedOutcomes DEF ResolvedInv, FaultsOf, Resolved!Faults
    <3>3. QED
      BY <1>1, <1>14, <3>2 DEF Resolved!Undo
  <2>2. QED
    BY <1>1, <1>6, <1>14, <2>1
       DEF Resolved!Undo, Resolved!ApplyGivesUp, Resolved!ApplyStages, Promise!Next
<1>15. CASE Resolved!RemoveDropIn
  <2>1. CASE Resolved!Goto("reload") /\ Resolved!Works
    BY <1>1, <1>5, <1>15, <2>1
       DEF Resolved!RemoveDropIn, Resolved!RestoreStages, Promise!Next
  <2>2. CASE Resolved!RestoreGivesUp /\ Resolved!FailsNoticed
    BY <1>1, <1>7, <1>15, <2>2
       DEF Resolved!RemoveDropIn, Resolved!RestoreGivesUp, Resolved!RestoreStages,
           Promise!Next
  <2>3. CASE dropIn = "absent" /\ Resolved!RestoreGivesUp /\ Resolved!Works
    <3>1. FaultsOf' = "unnoticed"
      BY <1>1, <1>15, <2>3 DEF Resolved!RemoveDropIn, Resolved!RestoreStages, ResolvedInv
    <3>2. QED
      BY <1>1, <1>7, <1>15, <2>3, <3>1
         DEF Resolved!RemoveDropIn, Resolved!RestoreGivesUp, Resolved!RestoreStages,
             Promise!Next
  <2>4. QED
    BY <1>15, <2>1, <2>2, <2>3 DEF Resolved!RemoveDropIn
<1>16. CASE Resolved!Reload
  <2>1. FaultsOf' # "unnoticed" => Change' = "none"
    BY <1>1, <1>16 DEF Resolved!Reload, Resolved!Change, ResolvedInv
  <2>2. QED
    BY <1>1, <1>2, <1>16, <2>1
       DEF Resolved!Reload, Resolved!RestoreSucceeds, Resolved!RestoreStages,
           Promise!Restored, Promise!Ends, Promise!Changes, Promise!Next
<1>17. QED
  BY <1>8, <1>9, <1>10, <1>11, <1>12, <1>13, <1>14, <1>15, <1>16 DEF Resolved!Next

\* The window with either configurator starts and steps as that configurator does.
LEMMA BackendsRunFiles == BackendsSpec => Spec
<1>1. [BackendsNext]_backendVars => [Next]_vars
  BY DEF BackendsNext, backendVars
<1>2. QED
  BY <1>1, PTL DEF BackendsSpec, BackendsInit, Spec

LEMMA ResolvedInvariant == BackendsSpec => []ResolvedInv
<1>1. BackendsInit => ResolvedInv
  <2> SUFFICES ASSUME BackendsInit
               PROVE  ResolvedInv
    OBVIOUS
  <2>. USE DEF BackendsInit, Resolved!Init, Resolved!WindowInit
  <2>1. failed \in Nat /\ {opened, holds, flag, unnoticed} \subseteq BOOLEAN
    OBVIOUS
  <2>2. at = "idle" /\ flag = FALSE /\ dropIn = "absent" /\ daemon = "absent"
    OBVIOUS
  <2>3. QED
    BY ONLY <2>1, <2>2 DEF ResolvedInv, Resolved!ApplyStages, Resolved!RestoreStages
<1>2. ResolvedInv /\ [BackendsNext]_backendVars => ResolvedInv'
  <2>1. [BackendsNext]_backendVars => [Resolved!Next]_resolvedVars
    BY DEF BackendsNext, backendVars
  <2>2. QED
    BY <2>1, ResolvedStep
<1>3. QED
  BY <1>1, <1>2, PTL DEF BackendsSpec

\* Either configurator, with any failures and deaths: when apply() says yes the machine
\* asks 127.0.0.1, unless in that run a write failed, which apply() does not look at;
\* when restore() does, it asks whom it asked before, unless the backup was cut short or
\* somebody wrote the file behind it (resolv.conf), or since apply() began something
\* failed that nobody looked at (systemd-resolved).  A failure that the code notices,
\* and a death, excuse neither (system_dns_configurator.cpp and both of its classes).
THEOREM PromiseIsKept == BackendsSpec => KeepsPromise
<1>1. BackendsInit => Promise!Init
  <2> SUFFICES ASSUME BackendsInit
               PROVE  Promise!Init
    OBVIOUS
  <2>1. CASE linked
    BY <2>1 DEF BackendsInit, Resolved!Init, Resolved!WindowInit, Promise!Init, Change, Busy,
                FaultsOf, Handler, Resolved!Change, Resolved!Faults, Resolved!ApplyStages,
                Resolved!RestoreStages
  <2>2. CASE ~linked
    <3>1. FilesChange = "none"
      BY FilesAssumption DEF BackendsInit, Init, FilesChange, IsWanted
    <3>2. QED
      BY <2>2, <3>1 DEF BackendsInit, Init, Promise!Init, Change, Busy, FaultsOf, Handler,
                        FilesFaults, BackupGood, ApplyStages, RestoreStages
  <2>3. QED
    BY <2>1, <2>2
<1>2. TypeOK /\ TypeOK' /\ KeptInv /\ FlagInv /\ ResolvedInv /\ ResolvedInv' /\
        [BackendsNext]_backendVars => [Promise!Next]_(Promise!vars)
  <2> SUFFICES ASSUME TypeOK, TypeOK', KeptInv, FlagInv, ResolvedInv, ResolvedInv',
                      [BackendsNext]_backendVars
               PROVE  Promise!Next \/ UNCHANGED Promise!vars
    OBVIOUS
  <2>1. linked' = linked /\ [Next]_vars
    BY DEF BackendsNext, backendVars
  <2>2. CASE ~linked
    BY <2>1, <2>2, FilesApplyMaps, FilesRestoreMaps, FilesRestMaps
  <2>3. CASE linked /\ Resolved!Next
    BY <2>1, <2>3, ResolvedMaps
  <2>4. CASE linked /\ UNCHANGED resolvedVars
    <3>1. ResolvedInv' /\ Change' = Resolved!Change' /\ Busy' = ResolvedBusy'
      BY <2>1, <2>4, ResolvedSeen
    <3>2. QED
      BY <2>1, <2>4 DEF resolvedVars, Promise!vars, Change, Busy, FaultsOf, Handler,
                        Resolved!Change, Resolved!Faults
  <2>5. QED
    BY <2>2, <2>3, <2>4 DEF BackendsNext, backendVars
<1>3. QED
  BY <1>1, <1>2, BackendsRunFiles, TypeCorrect, KeptInvariant, FlagInvariant,
     ResolvedInvariant, PTL
     DEF BackendsSpec, KeepsPromise, Promise!Spec

=============================================================================
