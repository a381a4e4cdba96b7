--------------------------- MODULE MCMobileGuard ---------------------------
(***************************************************************************)
(* Finite instances of MobileGuard.                                        *)
(***************************************************************************)
EXTENDS MobileGuard, TLC

CONSTANTS w1, w2, d1, r1, t1, t2

AllKinds == {DisableType, RemovalType, WebhookType, RemoteType, DelayType}
ListChaining == {DelayType, RemovalType, RemoteType}
AllJobs == {"enable", "update"}
OnlyUpdate == {"update"}
OneWebhook == {w1}
TwoWebhooks == {w1, w2}
NoDomain == {}
OneDomain == {d1}
NoRemote == {}
OneRemote == {r1}
ShortDelay == {1}
TwoDelays == {1, 2}
OneTick == {t1}
TwoTicks == {t1, t2}
TickSymmetry == Permutations(TwoTicks)

=============================================================================
