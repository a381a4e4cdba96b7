------------------------- MODULE AccountabilityGate -------------------------
(***************************************************************************)
(* What the accountability gate promises, without windows, files, PIN      *)
(* dialogs, timers or crashes: a change is asked for, waits out the delay  *)
(* agreed at that moment, and then takes effect, unless it is withdrawn    *)
(* first.  DesktopGuard is the detailed specification of the desktop       *)
(* program (desktop/src/mainwindow.cpp and desktop/src/accountability).    *)
(***************************************************************************)
EXTENDS Naturals

CONSTANTS
    Requests,       \* the requests that may be made
    Delays,         \* the delays that may be agreed
    NoAgreement,    \* nothing is set up
    UnitsPerSecond  \* a deadline is kept in whole seconds

VARIABLES
    clock,
    delay,   \* the delay agreed, or NoAgreement
    phase,   \* of each request: "unasked", "waiting", "withdrawn", "effective"
    due      \* when each request may take effect at the earliest

vars == <<clock, delay, phase, due>>

Init ==
    /\ clock = 0
    /\ delay = NoAgreement
    /\ phase = [r \in Requests |-> "unasked"]
    /\ due = [r \in Requests |-> 0]

In(r, p) == phase[r] = p
Ripe(r) == phase[r] \in {"waiting", "effective"} /\ clock >= due[r]

TimePasses == clock' = clock + 1 /\ UNCHANGED <<delay, phase, due>>

Agree ==
    /\ delay = NoAgreement
    /\ delay' \in Delays
    /\ UNCHANGED <<clock, phase, due>>

Waiting == {r \in Requests : In(r, "waiting")}

Withdrawn(R) == [r \in Requests |-> IF r \in R THEN "withdrawn" ELSE phase[r]]

\* A request that cannot be recorded is withdrawn at once; the record that
\* fails may be the end of all that wait.
AskFor(r) ==
    /\ delay # NoAgreement /\ In(r, "unasked")
    /\ \/ phase' = [phase EXCEPT ![r] = "waiting"]
       \/ \E R \in {{}, Waiting} : phase' = Withdrawn(R \cup {r})
    /\ due' = [due EXCEPT ![r] =
                  ((clock + delay) \div UnitsPerSecond) * UnitsPerSecond]
    /\ UNCHANGED <<clock, delay>>

Withdraw ==
    /\ \E R \in SUBSET Waiting : phase' = Withdrawn(R)
    /\ UNCHANGED <<clock, delay, due>>

\* A request takes effect; it may be the one that changes the delay, and the
\* change may lose the agreement.  An effect whose record is lost is repeated.
TakeEffect(r) ==
    /\ Ripe(r)
    /\ phase' = [phase EXCEPT ![r] = "effective"]
    /\ delay # NoAgreement => delay' \in Delays \cup {NoAgreement}
    /\ delay = NoAgreement => delay' = delay
    /\ UNCHANGED <<clock, due>>

\* The agreement is lost outside an effect, and what waits perhaps with it, but
\* never before some request was ripe.
Forget ==
    /\ \E r \in Requests : Ripe(r)
    /\ delay' = NoAgreement
    /\ \E R \in SUBSET Waiting : phase' = Withdrawn(R)
    /\ UNCHANGED <<clock, due>>

Next ==
    \/ TimePasses \/ Agree \/ Withdraw \/ Forget
    \/ \E r \in Requests : AskFor(r) \/ TakeEffect(r)

Spec == Init /\ [][Next]_vars

=============================================================================
