----------------------- MODULE DnsFilterServerProofs -----------------------
(***************************************************************************)
(* Proofs about DnsFilterServer, for any number of starts, any queries and *)
(* any clients: types, one worker at a time, and a status that is true.    *)
(***************************************************************************)
EXTENDS DnsFilterServer, TLAPS

\* The type invariant holds in every reachable state (start, stop, run).
THEOREM TypeCorrect == Spec => []TypeOK
<1>1. Init => TypeOK
  <2> SUFFICES ASSUME Init PROVE TypeOK
    OBVIOUS
  <2>1. starts \in 0..MaxStarts
    BY StartsAssumption DEF Init
  <2> QED
    BY <2>1 DEF Init, TypeOK, Statuses, Steps, Fates
<1>2. TypeOK /\ [Next]_vars => TypeOK'
  <2> SUFFICES ASSUME TypeOK, [Next]_vars PROVE TypeOK'
    OBVIOUS
  <2> USE DEF TypeOK, Statuses, Steps, Fates
  <2>1. ASSUME NEW port \in {FixedPort, AnyPort}, start(port) PROVE TypeOK'
    <3>1. starts' \in 0..MaxStarts
        BY <2>1, StartsAssumption DEF start, Starts
    <3>2. step' \in [Workers -> Steps] /\ portOf' \in [Workers -> {FixedPort, AnyPort, NoPort}]
        BY <2>1 DEF start, Starts
    <3> QED
        BY <2>1, <3>1, <3>2 DEF start, Starts, sockets
  <2>2. ASSUME NEW port \in {FixedPort, AnyPort}, startFails(port) PROVE TypeOK'
    BY <2>2 DEF startFails, sockets
  <2>3. CASE stop
    BY <2>3 DEF stop, sockets
  <2>4. CASE stopReturns
    BY <2>4 DEF stopReturns, sockets
  <2>5. ASSUME NEW w \in Workers, LoopAgain(w) PROVE TypeOK'
    BY <2>5 DEF LoopAgain, Goto, server, sockets
  <2>6. ASSUME NEW w \in Workers, LeaveLoop(w) PROVE TypeOK'
    BY <2>6 DEF LeaveLoop, Goto, server
  <2>7. ASSUME NEW w \in Workers, ReceiveTimesOut(w) PROVE TypeOK'
    BY <2>7 DEF ReceiveTimesOut, Goto, server, sockets
  <2>8. ASSUME NEW w \in Workers, NEW q \in inbox[w], Receive(w, q) PROVE TypeOK'
    <3>1. q \in Queries
        OBVIOUS
    <3> QED
        BY <2>8, <3>1 DEF Receive, Goto, server
  <2>9. ASSUME NEW w \in Workers, UpstreamAnswers(w) PROVE TypeOK'
    BY <2>9 DEF UpstreamAnswers, Goto, server, sockets
  <2>10. ASSUME NEW w \in Workers, UpstreamSilent(w) PROVE TypeOK'
    BY <2>10 DEF UpstreamSilent, Drops, Goto, server, sockets
  <2>11. ASSUME NEW w \in Workers, Answer(w) PROVE TypeOK'
    BY <2>11 DEF Answer, AnswerTo, Goto, server, sockets
  <2>12. ASSUME NEW q \in Queries, Send(q) PROVE TypeOK'
    BY <2>12 DEF Send, server
  <2>13. CASE OtherProgram
    BY <2>13 DEF OtherProgram, server, sockets
  <2>14. CASE UNCHANGED vars
    BY <2>14 DEF vars, server, sockets
  <2> QED
    BY <2>1, <2>2, <2>3, <2>4, <2>5, <2>6, <2>7, <2>8, <2>9, <2>10, <2>11, <2>12, <2>13, <2>14
       DEF Next, Gui, Worker
<1> QED
    BY <1>1, <1>2, PTL DEF Spec

-----------------------------------------------------------------------------
(* Only the last worker may be alive, and while the GUI thread is free the *)
(* flag, the status and the port speak of it.                              *)

Before == \A w \in Workers : w < starts => step[w] = "gone"
Ahead == \A w \in Workers : w > starts <=> step[w] = "unborn"

\* The last worker is there, and alive.
Last == starts \in Workers /\ Alive(starts)

Shown ==
    /\ running => gui = "idle" /\ status = "Running" /\ Last /\ portOf[starts] = boundPort
    /\ ~running /\ gui = "idle" => status # "Running" /\ ~Last /\ boundPort = NoPort

OneAtATime == TypeOK /\ Before /\ Ahead /\ Shown

LEMMA OnlyTheLast ==
    ASSUME OneAtATime, NEW w \in Workers, Alive(w)
    PROVE  w = starts /\ Last
<1>1. ~(w < starts) /\ ~(w > starts)
    BY DEF OneAtATime, Before, Ahead, Alive
<1>2. w \in Nat /\ starts \in Nat
    BY StartsAssumption DEF OneAtATime, TypeOK, Workers
<1> QED
    BY <1>1, <1>2 DEF Last

LEMMA OneAtATimeMeans == OneAtATime => OneWorker /\ StatusIsTrue
<1> SUFFICES ASSUME OneAtATime PROVE OneWorker /\ StatusIsTrue
    OBVIOUS
<1>1. OneWorker
    BY OnlyTheLast DEF OneWorker
<1>2. StatusIsTrue
  <2>1. \A w \in Workers : Alive(w) => w = starts /\ Last
    BY OnlyTheLast
  <2> QED
    BY <2>1 DEF OneAtATime, Shown, Last, StatusIsTrue, TypeOK
<1> QED
    BY <1>1, <1>2

\* A worker that goes on with its loop leaves the relation alone.
LEMMA WorkerGoesOn ==
    ASSUME OneAtATime, TypeOK', NEW w \in Workers, Alive(w), UNCHANGED <<server, portOf>>,
           NEW next \in Steps \ {"unborn", "gone"}, Goto(w, next)
    PROVE  OneAtATime'
<1>1. w = starts /\ Last
    BY OnlyTheLast
<1>2. step'[w] = next /\ \A v \in Workers : v # w => step'[v] = step[v]
    BY DEF OneAtATime, TypeOK, Goto
<1>3. starts' = starts
    BY DEF server
<1>4. Before' /\ Ahead'
    BY <1>1, <1>2, <1>3 DEF OneAtATime, Before, Ahead, Alive
<1>5. Last'
    BY <1>1, <1>2, <1>3 DEF Last, Alive
<1> QED
    BY <1>1, <1>4, <1>5 DEF OneAtATime, Shown, server

LEMMA OneAtATimeStep ==
    ASSUME OneAtATime, TypeOK', [Next]_vars
    PROVE  OneAtATime'
<1>0. starts \in Nat /\ Workers \subseteq Nat
    BY StartsAssumption DEF OneAtATime, TypeOK, Workers
<1>1. ASSUME NEW port \in {FixedPort, AnyPort}, start(port) PROVE OneAtATime'
  <2>1. ~Last /\ starts' = starts + 1 /\ starts' \in Workers
    BY <1>0, <1>1, StartsAssumption DEF OneAtATime, Shown, start, Starts, Workers
  <2>2. /\ step'[starts'] = "loop" /\ portOf'[starts'] = port
        /\ \A w \in Workers : w # starts' => step'[w] = step[w]
    BY <1>1, <2>1 DEF start, Starts, OneAtATime, TypeOK
  <2>3. ASSUME NEW w \in Workers, w < starts' PROVE step[w] = "gone"
    <3>1. CASE w < starts
        BY <3>1 DEF OneAtATime, Before
    <3>2. CASE w = starts
        BY <1>0, <2>1, <3>2 DEF OneAtATime, Last, Alive, Ahead
    <3> QED
        BY <1>0, <2>1, <2>3, <3>1, <3>2
  <2>4. Before'
    BY <1>0, <2>1, <2>2, <2>3 DEF Before
  <2>5. Ahead'
    <3> SUFFICES ASSUME NEW w \in Workers PROVE w > starts' <=> step'[w] = "unborn"
        BY DEF Ahead
    <3>1. CASE w = starts'
        BY <1>0, <2>2, <3>1
    <3>2. CASE w # starts'
        BY <1>0, <2>1, <2>2, <3>2 DEF OneAtATime, Ahead
    <3> QED
        BY <3>1, <3>2
  <2>6. Shown'
    BY <1>1, <2>1, <2>2 DEF start, Starts, Shown, Last, Alive
  <2> QED
    BY <2>4, <2>5, <2>6 DEF OneAtATime
<1>2. ASSUME NEW port \in {FixedPort, AnyPort}, startFails(port) PROVE OneAtATime'
    BY <1>2 DEF startFails, sockets, OneAtATime, Before, Ahead, Shown, Last, Alive
<1>3. CASE stop
    BY <1>3 DEF stop, sockets, OneAtATime, Before, Ahead, Shown, Last, Alive
<1>4. CASE stopReturns
    BY <1>4 DEF stopReturns, sockets, OneAtATime, Before, Ahead, Shown, Last, Alive
<1>5. ASSUME NEW w \in Workers, LoopAgain(w) PROVE OneAtATime'
    BY <1>5, WorkerGoesOn DEF LoopAgain, Alive, Steps, sockets
<1>6. ASSUME NEW w \in Workers, LeaveLoop(w) PROVE OneAtATime'
  <2>1. w = starts /\ ~running
    BY <1>6, OnlyTheLast DEF LeaveLoop, Alive
  <2>2. step'[w] = "gone" /\ \A v \in Workers : v # w => step'[v] = step[v]
    BY <1>6 DEF LeaveLoop, Goto, OneAtATime, TypeOK
  <2>3. Before' /\ Ahead'
    BY <1>6, <2>1, <2>2 DEF LeaveLoop, server, OneAtATime, Before, Ahead
  <2>4. Shown'
    BY <1>6, <2>1, <2>2 DEF LeaveLoop, server, OneAtATime, Shown, Last, Alive
  <2> QED
    BY <2>3, <2>4 DEF OneAtATime
<1>7. ASSUME NEW w \in Workers, ReceiveTimesOut(w) PROVE OneAtATime'
    BY <1>7, WorkerGoesOn DEF ReceiveTimesOut, Alive, Steps, sockets
<1>8. ASSUME NEW w \in Workers, NEW q \in inbox[w], Receive(w, q) PROVE OneAtATime'
    BY <1>8, WorkerGoesOn DEF Receive, Alive, Steps
<1>9. ASSUME NEW w \in Workers, UpstreamAnswers(w) PROVE OneAtATime'
    BY <1>9, WorkerGoesOn DEF UpstreamAnswers, Alive, Steps, sockets
<1>10. ASSUME NEW w \in Workers, UpstreamSilent(w) PROVE OneAtATime'
    BY <1>10, WorkerGoesOn DEF UpstreamSilent, Drops, Alive, Steps, sockets
<1>11. ASSUME NEW w \in Workers, Answer(w) PROVE OneAtATime'
    BY <1>11, WorkerGoesOn DEF Answer, Alive, Steps, sockets
<1>12. ASSUME NEW q \in Queries, Send(q) PROVE OneAtATime'
    BY <1>12 DEF Send, server, OneAtATime, Before, Ahead, Shown, Last, Alive
<1>13. CASE OtherProgram
    BY <1>13 DEF OtherProgram, server, sockets, OneAtATime, Before, Ahead, Shown, Last, Alive
<1>14. CASE UNCHANGED vars
    BY <1>14 DEF vars, server, sockets, OneAtATime, Before, Ahead, Shown, Last, Alive
<1> QED
    BY <1>1, <1>2, <1>3, <1>4, <1>5, <1>6, <1>7, <1>8, <1>9, <1>10, <1>11, <1>12, <1>13, <1>14
       DEF Next, Gui, Worker

LEMMA OneAtATimeInvariant == Spec => []OneAtATime
<1>1. Init /\ TypeOK => OneAtATime
    BY StartsAssumption DEF Init, OneAtATime, Before, Ahead, Shown, Last, Alive, TypeOK, Workers
<1>2. OneAtATime /\ TypeOK' /\ [Next]_vars => OneAtATime'
    BY OneAtATimeStep
<1> QED
    BY <1>1, <1>2, TypeCorrect, PTL DEF Spec

\* However often the server is started and stopped, whatever fails in between and
\* however long a worker takes to end, no two workers live (start, stop).
THEOREM NeverTwoWorkers == Spec => []OneWorker
<1>1. OneAtATime => OneWorker
    BY OneAtATimeMeans
<1> QED
    BY <1>1, OneAtATimeInvariant, PTL

\* The status and the port that the window shows are those of a worker that is
\* alive, or it shows that there is none (status, boundPort, start, stop).
THEOREM StatusShowsTheWorker == Spec => []StatusIsTrue
<1>1. OneAtATime => StatusIsTrue
    BY OneAtATimeMeans
<1> QED
    BY <1>1, OneAtATimeInvariant, PTL

=============================================================================
