------------------------- MODULE SystemDnsRedirect -------------------------
(***************************************************************************)
(* The system DNS redirect of ClearGuard Desktop: the main window starts   *)
(* and stops the protection (desktop/src/mainwindow.cpp), and              *)
(* ResolvConfConfigurator swaps the resolver file for one that names       *)
(* 127.0.0.1 and back (desktop/src/system_dns/resolv_conf_configurator).   *)
(*                                                                         *)
(* apply() and restore() are several file operations.  Each is a step, so  *)
(* that the process may die, or the operation fail, between any two; the   *)
(* files outlive the process, the window's flags do not.  A file is one of *)
(* a few contents; one that was truncated and not yet written is Empty.    *)
(***************************************************************************)
EXTENDS Naturals

CONSTANTS
    Contents,       \* what people and network managers write in the file
    Absent,         \* there is no such file
    Empty,          \* an empty file, or one cut short
    Loopback,       \* the file that names 127.0.0.1
    StepsMayFail,   \* a file operation, or the server's bind, may fail
    MayCrash,       \* the process may die
    CopyMayTear,    \* ... also while the backup is being copied
    OthersWrite,    \* when others write the file: "quiet", while it is theirs and
                    \* no handler runs, or "busy"
    MaxWrites, MaxLaunches      \* bounds of the model

ASSUME FilesAssumption ==
    /\ Absent \notin Contents \cup {Empty, Loopback}
    /\ Empty \notin Contents \cup {Loopback}
    /\ Loopback \notin Contents
ASSUME FaultsAssumption ==
    /\ {StepsMayFail, MayCrash, CopyMayTear} \subseteq BOOLEAN
    /\ OthersWrite \subseteq {"quiet", "busy"}

VARIABLES
    resolv,             \* the resolver file
    backup,             \* <resolver file>.clearguard-backup
    up,                 \* the window exists
    closing,            \* ... and is being destroyed
    port,               \* where the filter server listens: "none", "53", "other"
    applied,            \* ResolvConfConfigurator::applied_
    systemDnsApplied,   \* MainWindow::systemDnsApplied
    stage,              \* the next file operation of the running handler
    wanted,             \* history: what others wrote last
    trouble,            \* history: what has gone wrong and is not made good yet
    writes, launches    \* how often others wrote, and the program was started

files == <<resolv, backup>>
window == <<up, closing, port, applied, systemDnsApplied>>
counters == <<writes, launches>>
vars == <<files, window, stage, wanted, trouble, counters>>

Files == Contents \cup {Absent, Empty, Loopback}
ApplyStages == {"apply", "copy", "truncate", "write"}
RestoreStages == {"restore", "copyback", "remove"}

\* A step that failed in this run of the handler and was noticed, a write that was
\* not; a restore that failed or a death, until a restore runs to its end; a backup
\* cut short, and contents written while an older backup is there, until somebody
\* writes the file with no backup there.
Troubles == {"step", "write", "restore", "crash", "copy", "overtaken"}

-----------------------------------------------------------------------------
Init ==
    /\ resolv \in Contents \cup {Absent} /\ backup = Absent
    /\ up = FALSE /\ closing = FALSE /\ port = "none"
    /\ applied = FALSE /\ systemDnsApplied = FALSE
    /\ stage = "idle"
    /\ wanted = resolv /\ trouble = {}
    /\ writes = 0 /\ launches = 0

Launch ==
    /\ ~up /\ launches < MaxLaunches
    /\ up' = TRUE /\ launches' = launches + 1
    /\ UNCHANGED <<files, closing, port, applied, systemDnsApplied, stage, wanted,
                   trouble, writes>>

\* The process is gone; the files stay as they are.
Gone ==
    /\ up' = FALSE /\ closing' = FALSE /\ port' = "none"
    /\ applied' = FALSE /\ systemDnsApplied' = FALSE
    /\ stage' = "idle"
    /\ UNCHANGED <<files, wanted, counters>>

Fails(kinds) == StepsMayFail /\ trouble' = trouble \cup kinds
Works == trouble' = trouble
RunsAnew == trouble' = IF stage' = "idle" THEN trouble ELSE trouble \ {"step", "write"}

\* A missing file is backed up as an empty one; both mean the same to a resolver.
AsBackedUp(file) == IF file = Absent THEN Empty ELSE file

-----------------------------------------------------------------------------
(* onToggleClicked with protection off, and apply().                       *)

StartProtection(redirect) ==
    /\ up /\ ~closing /\ stage = "idle" /\ port = "none"
    /\ \/ port' = (IF redirect THEN "53" ELSE "other")
          /\ stage' = (IF redirect THEN "apply" ELSE "idle") /\ RunsAnew
       \/ StepsMayFail /\ UNCHANGED <<port, stage, trouble>>
    /\ UNCHANGED <<files, up, closing, applied, systemDnsApplied, wanted, counters>>

\* apply() returns and the window takes its result for its flag.
ApplyReturns(ok) == systemDnsApplied' = ok /\ stage' = "idle"

ApplyRefused ==
    /\ stage = "apply" /\ applied
    /\ ApplyReturns(FALSE) /\ Works
    /\ UNCHANGED <<files, up, closing, port, applied, wanted, counters>>

\* Broken variant, for the runs to reject: a backup that is there is replaced.
BeginBackupAlways ==
    /\ stage = "apply" /\ ~applied
    /\ \/ backup' = Empty /\ Works
          /\ stage' = (IF resolv = Absent THEN "truncate" ELSE "copy")
          /\ UNCHANGED systemDnsApplied
       \/ Fails({"step"}) /\ ApplyReturns(FALSE) /\ UNCHANGED backup
    /\ UNCHANGED <<resolv, up, closing, port, applied, wanted, counters>>

\* The backup file is opened; with no resolver file it stays empty.  A backup
\* that is there is kept.
BeginBackup ==
    /\ stage = "apply" /\ ~applied
    /\ \/ backup # Absent /\ stage' = "truncate" /\ Works
          /\ UNCHANGED <<backup, systemDnsApplied>>
       \/ backup = Absent /\ backup' = Empty /\ Works
          /\ stage' = (IF resolv = Absent THEN "truncate" ELSE "copy")
          /\ UNCHANGED systemDnsApplied
       \/ backup = Absent /\ Fails({"step"}) /\ ApplyReturns(FALSE) /\ UNCHANGED backup
    /\ UNCHANGED <<resolv, up, closing, port, applied, wanted, counters>>

\* The contents are copied; a copy that fails leaves the backup cut short.
CopyBackup ==
    /\ stage = "copy"
    /\ \/ backup' = AsBackedUp(resolv) /\ stage' = "truncate" /\ Works
          /\ UNCHANGED systemDnsApplied
       \/ CopyMayTear /\ Fails({"step", "copy"}) /\ ApplyReturns(FALSE) /\ UNCHANGED backup
    /\ UNCHANGED <<resolv, up, closing, port, applied, wanted, counters>>

TruncateResolvConf ==
    /\ stage = "truncate"
    /\ \/ resolv' = Empty /\ stage' = "write" /\ Works /\ UNCHANGED systemDnsApplied
       \/ Fails({"step"}) /\ ApplyReturns(FALSE) /\ UNCHANGED resolv
    /\ UNCHANGED <<backup, up, closing, port, applied, wanted, counters>>

\* A write that fails is not noticed.
WriteLoopback ==
    /\ stage = "write"
    /\ \/ resolv' = Loopback /\ Works
       \/ Fails({"write"}) /\ UNCHANGED resolv
    /\ applied' = TRUE /\ ApplyReturns(TRUE)
    /\ UNCHANGED <<backup, up, closing, port, wanted, counters>>

-----------------------------------------------------------------------------
(* stopProtection, from checkPendingActions or from the destructor, and    *)
(* restore().  Whatever restore() answers, the window drops its flag.      *)

\* Broken variant, for the runs to reject: the destructor only stops the server.
StopServerWithoutRestore(destroyed) ==
    /\ up /\ ~closing /\ stage = "idle"
    /\ port' = "none" /\ closing' = destroyed
    /\ stage' = IF systemDnsApplied /\ ~destroyed THEN "restore" ELSE "idle"
    /\ RunsAnew
    /\ UNCHANGED <<files, up, applied, systemDnsApplied, wanted, counters>>

StopServer(destroyed) ==
    /\ up /\ ~closing /\ stage = "idle"
    /\ port' = "none" /\ closing' = destroyed
    /\ stage' = IF systemDnsApplied THEN "restore" ELSE "idle"
    /\ RunsAnew
    /\ UNCHANGED <<files, up, applied, systemDnsApplied, wanted, counters>>

RestoreReturns == systemDnsApplied' = FALSE /\ stage' = "idle"

\* Copying back truncates the resolver file first.
BeginRestore ==
    /\ stage = "restore"
    /\ \/ backup # Absent /\ resolv' = Empty /\ stage' = "copyback" /\ Works
          /\ UNCHANGED systemDnsApplied
       \/ backup # Absent /\ Fails({"step", "restore"}) /\ RestoreReturns /\ UNCHANGED resolv
       \/ backup = Absent /\ RestoreReturns /\ Works /\ UNCHANGED resolv
    /\ UNCHANGED <<backup, up, closing, port, applied, wanted, counters>>

CopyBack ==
    /\ stage = "copyback"
    /\ \/ resolv' = backup /\ stage' = "remove" /\ Works /\ UNCHANGED systemDnsApplied
       \/ Fails({"step", "restore"}) /\ RestoreReturns /\ UNCHANGED resolv
    /\ UNCHANGED <<backup, up, closing, port, applied, wanted, counters>>

\* A backup that cannot be removed is not noticed.
RemoveBackup ==
    /\ stage = "remove"
    /\ backup' = Absent \/ (StepsMayFail /\ UNCHANGED backup)
    /\ applied' = FALSE /\ RestoreReturns
    /\ trouble' = trouble \ {"restore", "crash"}
    /\ UNCHANGED <<resolv, up, closing, port, wanted, counters>>

Exit == closing /\ stage = "idle" /\ Gone /\ UNCHANGED trouble

-----------------------------------------------------------------------------
(* The world outside.                                                      *)

Crash ==
    /\ MayCrash /\ up
    /\ stage = "copy" => CopyMayTear
    /\ Gone
    /\ trouble' = trouble \cup {"crash"} \cup (IF stage = "copy" THEN {"copy"} ELSE {})

\* Somebody else writes the resolver file.
OtherWrites ==
    /\ (IF resolv # Loopback /\ stage = "idle" THEN "quiet" ELSE "busy") \in OthersWrite
    /\ writes < MaxWrites /\ writes' = writes + 1
    /\ \E c \in Contents : resolv' = c /\ wanted' = c
    /\ trouble' = IF backup = Absent THEN trouble \ {"copy", "overtaken"}
                  ELSE trouble \cup {"overtaken"}
    /\ UNCHANGED <<backup, window, stage, launches>>

-----------------------------------------------------------------------------
ApplyStep ==
    ApplyRefused \/ BeginBackup \/ CopyBackup \/ TruncateResolvConf \/ WriteLoopback
RestoreStep == BeginRestore \/ CopyBack \/ RemoveBackup

Next ==
    \/ Launch \/ Exit \/ Crash \/ OtherWrites
    \/ \E redirect \in BOOLEAN : StartProtection(redirect)
    \/ \E destroyed \in BOOLEAN : StopServer(destroyed)
    \/ ApplyStep \/ RestoreStep

Spec == Init /\ [][Next]_vars

-----------------------------------------------------------------------------
(* Properties.                                                             *)

\* The type invariant.
TypeOK ==
    /\ resolv \in Files /\ backup \in Files
    /\ {up, closing, applied, systemDnsApplied} \subseteq BOOLEAN
    /\ port \in {"none", "53", "other"}
    /\ stage \in {"idle"} \cup ApplyStages \cup RestoreStages
    /\ wanted \in Contents \cup {Absent}
    /\ trouble \subseteq Troubles
    /\ writes \in Nat /\ launches \in Nat

\* No copy of the backup was cut short, and nobody wrote the file behind it, since
\* somebody last wrote it with no backup there.
BackupGood == trouble \cap {"copy", "overtaken"} = {}

IsWanted(file) == AsBackedUp(file) = AsBackedUp(wanted)

\* Whatever step fails and wherever the process dies, across restarts: the
\* user's resolver settings are in the file or in the backup.  The only ways to
\* lose them are the two that BackupGood excludes (apply, restore).
OriginalKept == BackupGood => IsWanted(resolv) \/ backup = AsBackedUp(wanted)

CopiedBack == stage = "copyback" /\ stage' = "remove"

\* A restore that runs to its end brings back exactly what apply() replaced, in
\* this launch or in one that died before it could restore.
RestoreExact == [][CopiedBack /\ BackupGood => IsWanted(resolv')]_vars

\* Outside a running handler, the machine's name resolution is left pointing at a
\* port where no filter listens only by a death or a restore that failed, and no
\* longer than until a restore, of whichever launch, runs to its end; a start that
\* fails or is cut short and what others write never do it (apply, stopProtection).
NoDeadRedirect ==
    trouble \cap {"crash", "restore"} = {} /\ stage = "idle" /\ resolv = Loopback =>
        up /\ port = "53" /\ systemDnsApplied

=============================================================================
