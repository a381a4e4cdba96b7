-------------------------- MODULE SystemdResolved --------------------------
(***************************************************************************)
(* The system DNS redirect where systemd-resolved manages the resolver     *)
(* file: SystemdResolvedConfigurator (desktop/src/system_dns) with the     *)
(* main window around it.  A drop-in file tells the daemon to ask          *)
(* 127.0.0.1; the daemon reads it when it is started.                      *)
(***************************************************************************)
EXTENDS BackendWindow

VARIABLES
    dropIn,     \* the file: "absent", "short" (not all is written), "whole"
    daemon      \* the file as the running daemon has read it, or "dead"

vars == <<window, at, past, dropIn, daemon>>

ApplyStages == {"create", "write", "restart", "undo"}
RestoreStages == {"remove", "reload"}

Init == WindowInit /\ dropIn = "absent" /\ daemon = "absent"

Window ==
    /\ Open \/ Kill \/ Close \/ BeginApply("create") \/ BeginRestore("remove")
    /\ UNCHANGED <<dropIn, daemon>>

-----------------------------------------------------------------------------
(* apply().                                                                *)

\* The directory is made and the file truncated.
CreateDropIn ==
    /\ at = "create"
    /\ \/ dropIn' = "short" /\ Goto("write") /\ Works
       \/ UNCHANGED dropIn /\ ApplyGivesUp /\ FailsNoticed
    /\ UNCHANGED daemon

WriteDropIn ==
    /\ at = "write"
    /\ \/ dropIn' = "whole" /\ Works
       \/ UNCHANGED dropIn /\ FailsUnnoticed
    /\ Goto("restart")
    /\ UNCHANGED daemon

\* systemctl is refused, or the daemon does not come up again.
RestartRefused == daemon' \in {daemon, "dead"}

Restart ==
    /\ at = "restart"
    /\ \/ daemon' = dropIn /\ ApplySucceeds /\ Works
       \/ RestartRefused /\ Goto("undo") /\ FailsNoticed
    /\ UNCHANGED dropIn

Undo ==
    /\ at = "undo"
    /\ \/ dropIn' = "absent" /\ Works
       \/ UNCHANGED dropIn /\ FailsUnnoticed
    /\ ApplyGivesUp
    /\ UNCHANGED daemon

-----------------------------------------------------------------------------
(* restore().                                                              *)

RemoveDropIn ==
    /\ at = "remove"
    /\ \/ dropIn # "absent" /\ dropIn' = "absent" /\ Goto("reload") /\ Works
       \/ dropIn # "absent" /\ UNCHANGED dropIn /\ RestoreGivesUp /\ FailsNoticed
       \/ dropIn = "absent" /\ UNCHANGED dropIn /\ RestoreGivesUp /\ Works
    /\ UNCHANGED daemon

\* Broken variant, for the runs to reject: the daemon is not told.
ReloadForgotten == at = "reload" /\ RestoreSucceeds /\ Works /\ UNCHANGED <<dropIn, daemon>>

\* The result of the restart is not looked at.
Reload ==
    /\ at = "reload"
    /\ \/ daemon' = dropIn /\ Works
       \/ RestartRefused /\ FailsUnnoticed
    /\ RestoreSucceeds
    /\ UNCHANGED dropIn

-----------------------------------------------------------------------------
(* The world outside: the daemon is started anew, after an update or at a  *)
(* boot, and people remove the file.                                       *)

DaemonStarts ==
    /\ daemon' = dropIn /\ daemon # dropIn
    /\ UNCHANGED <<window, at, past, dropIn>>

OtherRemoves ==
    /\ dropIn' = "absent" /\ dropIn # "absent"
    /\ FailsUnnoticed
    /\ UNCHANGED <<window, at, daemon>>

Next ==
    \/ Window \/ DaemonStarts \/ OtherRemoves
    \/ CreateDropIn \/ WriteDropIn \/ Restart \/ Undo \/ RemoveDropIn \/ Reload

Change == IF dropIn = daemon /\ dropIn # "short"
            THEN (IF dropIn = "whole" THEN "whole" ELSE "none") ELSE "part"

=============================================================================
