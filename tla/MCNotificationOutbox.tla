------------------------ MODULE MCNotificationOutbox ------------------------
(***************************************************************************)
(* Finite instances of NotificationOutbox.                                 *)
(***************************************************************************)
EXTENDS NotificationOutbox

CONSTANTS f1, f2

TwoFlushes == {f1, f2}
AllUsable == {}
SecondUnusable == {2}
=============================================================================
