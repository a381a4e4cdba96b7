--------------------------- MODULE MCDesktopGuard ---------------------------
(***************************************************************************)
(* Finite instances of DesktopGuard.                                       *)
(***************************************************************************)
EXTENDS DesktopGuard

CONSTANTS w1, w2

TwoWebhooks == {w1, w2}
OneWebhook == {w1}
TwoDelays == {1, 2}
EvenDelays == {2, 4}
OnlyNoWebhook == {NoWebhook}
CleanCrash == {"clean"}
AllCrashes == {"clean", "torn"}
NoSaveFaults == {}
AllSaveFaults == {"unopened", "cut"}

=============================================================================
