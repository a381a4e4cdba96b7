--------------------------- MODULE DnsFilterServer ---------------------------
(***************************************************************************)
(* The DNS filter server of ClearGuard Desktop                             *)
(* (desktop/src/dns/dns_filter_server.cpp): the GUI thread starts and      *)
(* stops it, a worker thread answers queries on a loopback UDP socket.     *)
(*                                                                         *)
(* stop() clears a flag and joins the worker, so the GUI thread waits for  *)
(* whatever the worker is at: a receive that times out after half a second *)
(* or an upstream server that stays silent for three.  A query is one of a *)
(* few that differ in what the filter does with them; datagrams may be     *)
(* received in any order.  Each start makes a worker of its own.           *)
(***************************************************************************)
EXTENDS Naturals, FiniteSets

CONSTANTS
    Queries,        \* the queries clients may send, each once
    Malformed,      \* those parseQuery rejects
    SafeSearch,     \* those enforcedSafeSearchHostFor names a host for
    Blocked,        \* those isBlockedIncludingProxies says yes to
    FixedPort,      \* the port of the system DNS redirect, 53
    AnyPort,        \* a port the system picks
    NoPort,         \* not bound
    NoQuery,
    SocketsMayFail, \* a socket may not be had, whatever the port
    MaxStarts       \* bound of the model

ASSUME QueriesAssumption == Malformed \cup SafeSearch \cup Blocked \subseteq Queries
ASSUME PortsAssumption == Cardinality({FixedPort, AnyPort, NoPort}) = 3
ASSUME StartsAssumption == MaxStarts \in Nat

VARIABLES
    running,    \* running_
    status,     \* status_
    boundPort,  \* boundPort_
    gui,        \* the GUI thread: "idle", "joining" in stop()
    step,       \* of each worker: where it is in run()
    job,        \* of each worker: the query it works on
    inbox,      \* of each worker: the datagrams its socket holds
    portOf,     \* of each worker: the port of its socket
    taken,      \* another program holds the fixed port
    starts,     \* workers started so far
    fate        \* history: what became of each query

server == <<running, status, boundPort, gui, starts>>
sockets == <<inbox, portOf>>
vars == <<server, step, job, sockets, taken, fate>>

Workers == 1..MaxStarts
Statuses == {"Stopped", "Running", "Error"}
Steps == {"unborn", "loop", "receiving", "asking", "answering", "gone"}
Fates == {"unsent", "queued", "working", "lost", "sinkholed", "enforced", "resolved"}

Alive(w) == step[w] \notin {"unborn", "gone"}

Init ==
    /\ running = FALSE /\ status = "Stopped" /\ boundPort = NoPort /\ gui = "idle"
    /\ step = [w \in Workers |-> "unborn"]
    /\ job = [w \in Workers |-> NoQuery]
    /\ inbox = [w \in Workers |-> {}]
    /\ portOf = [w \in Workers |-> NoPort]
    /\ taken \in BOOLEAN
    /\ starts = 0
    /\ fate = [q \in Queries |-> "unsent"]

-----------------------------------------------------------------------------
(* The GUI thread.                                                         *)

bindLoopback(port) ==
    port = FixedPort => ~taken /\ \A w \in Workers : Alive(w) => portOf[w] # FixedPort

\* The window calls start() only while it shows the protection as stopped.
Starts(port, shown) ==
    /\ gui = "idle" /\ status # "Running" /\ ~running
    /\ starts < MaxStarts
    /\ bindLoopback(port)
    /\ starts' = starts + 1
    /\ running' = TRUE /\ status' = "Running" /\ boundPort' = shown
    /\ step' = [step EXCEPT ![starts'] = "loop"]
    /\ portOf' = [portOf EXCEPT ![starts'] = port]
    /\ UNCHANGED <<gui, job, inbox, taken, fate>>

start(port) == Starts(port, port)

startFails(port) ==
    /\ gui = "idle" /\ status # "Running" /\ ~running
    /\ ~bindLoopback(port) \/ SocketsMayFail
    /\ status' = "Error"
    /\ UNCHANGED <<running, boundPort, gui, starts, step, job, sockets, taken, fate>>

stop ==
    /\ gui = "idle" /\ running
    /\ running' = FALSE /\ gui' = "joining"
    /\ UNCHANGED <<status, boundPort, starts, step, job, sockets, taken, fate>>

\* Broken variant, for the runs to reject: the worker is left to itself.
stopReturnsAtOnce ==
    /\ gui = "joining"
    /\ status' = "Stopped" /\ boundPort' = NoPort /\ gui' = "idle"
    /\ UNCHANGED <<running, starts, step, job, sockets, taken, fate>>

stopReturns ==
    /\ gui = "joining"
    /\ step[starts] = "gone"
    /\ status' = "Stopped" /\ boundPort' = NoPort /\ gui' = "idle"
    /\ UNCHANGED <<running, starts, step, job, sockets, taken, fate>>

-----------------------------------------------------------------------------
(* run(), the worker.                                                      *)

Goto(w, next) == step' = [step EXCEPT ![w] = next]

LoopAgain(w) ==
    /\ step[w] = "loop" /\ running
    /\ Goto(w, "receiving")
    /\ UNCHANGED <<server, job, sockets, taken, fate>>

\* The socket is closed, and with it goes what it holds.
LeaveLoop(w) ==
    /\ step[w] = "loop" /\ ~running
    /\ Goto(w, "gone")
    /\ inbox' = [inbox EXCEPT ![w] = {}]
    /\ fate' = [q \in Queries |-> IF q \in inbox[w] THEN "lost" ELSE fate[q]]
    /\ UNCHANGED <<server, job, portOf, taken>>

\* Broken variant, for the runs to reject: an idle receive ends only while the
\* server runs.
ReceiveTimesOutWhileRunning(w) ==
    /\ step[w] = "receiving" /\ inbox[w] = {} /\ running
    /\ Goto(w, "loop")
    /\ UNCHANGED <<server, job, sockets, taken, fate>>

ReceiveTimesOut(w) ==
    /\ step[w] = "receiving" /\ inbox[w] = {}
    /\ Goto(w, "loop")
    /\ UNCHANGED <<server, job, sockets, taken, fate>>

\* A query is taken and sorted: safe search comes before the block list.
Receive(w, q) ==
    /\ step[w] = "receiving" /\ q \in inbox[w]
    /\ inbox' = [inbox EXCEPT ![w] = @ \ {q}]
    /\ \/ q \in Malformed /\ Goto(w, "loop")
          /\ fate' = [fate EXCEPT ![q] = "lost"] /\ UNCHANGED job
       \/ q \notin Malformed
          /\ Goto(w, IF q \in Blocked \ SafeSearch THEN "answering" ELSE "asking")
          /\ fate' = [fate EXCEPT ![q] = "working"] /\ job' = [job EXCEPT ![w] = q]
    /\ UNCHANGED <<server, portOf, taken>>

UpstreamAnswers(w) ==
    /\ step[w] = "asking"
    /\ Goto(w, "answering")
    /\ UNCHANGED <<server, job, sockets, taken, fate>>

Drops(w) ==
    /\ Goto(w, "loop")
    /\ fate' = [fate EXCEPT ![job[w]] = "lost"]
    /\ job' = [job EXCEPT ![w] = NoQuery]
    /\ UNCHANGED <<server, sockets, taken>>

\* Broken variant, for the runs to reject: the wait ends only with the server.
UpstreamSilentForever(w) == step[w] = "asking" /\ ~running /\ Drops(w)

\* No answer within three seconds, or one too short to carry the name back.
UpstreamSilent(w) == step[w] = "asking" /\ Drops(w)

AnswerTo(q) ==
    IF q \in SafeSearch THEN "enforced" ELSE IF q \in Blocked THEN "sinkholed" ELSE "resolved"

Answer(w) ==
    /\ step[w] = "answering"
    /\ Goto(w, "loop")
    /\ fate' = [fate EXCEPT ![job[w]] = AnswerTo(job[w])]
    /\ job' = [job EXCEPT ![w] = NoQuery]
    /\ UNCHANGED <<server, sockets, taken>>

\* What the worker does of itself; whether its upstream server answers is not its
\* own doing.
Worker(w) ==
    \/ LoopAgain(w) \/ LeaveLoop(w) \/ ReceiveTimesOut(w)
    \/ \E q \in inbox[w] : Receive(w, q)
    \/ UpstreamSilent(w) \/ Answer(w)

-----------------------------------------------------------------------------
(* The world outside.                                                      *)

\* A client sends a query to a socket that is open, or to nobody.
Send(q) ==
    /\ fate[q] = "unsent"
    /\ \/ \E w \in Workers :
             /\ Alive(w)
             /\ inbox' = [inbox EXCEPT ![w] = @ \cup {q}]
             /\ fate' = [fate EXCEPT ![q] = "queued"]
       \/ (\A w \in Workers : ~Alive(w))
          /\ fate' = [fate EXCEPT ![q] = "lost"] /\ UNCHANGED inbox
    /\ UNCHANGED <<server, step, job, portOf, taken>>

\* Another program takes or releases the fixed port.
OtherProgram ==
    /\ bindLoopback(FixedPort) \/ taken
    /\ taken' = ~taken
    /\ UNCHANGED <<server, step, job, sockets, fate>>

-----------------------------------------------------------------------------
Gui ==
    \/ \E port \in {FixedPort, AnyPort} : start(port) \/ startFails(port)
    \/ stop \/ stopReturns

Next ==
    \/ Gui \/ OtherProgram
    \/ \E w \in Workers : Worker(w) \/ UpstreamAnswers(w)
    \/ \E q \in Queries : Send(q)

Spec == Init /\ [][Next]_vars

\* The system runs the worker, whose receives all have a timeout, and lets the
\* GUI thread go on once the worker it joins has ended.  No server has to answer.
Fairness == WF_vars(stopReturns) /\ \A w \in Workers : WF_vars(Worker(w))

FairSpec == Spec /\ Fairness

-----------------------------------------------------------------------------
(* Properties.                                                             *)

\* The type invariant.
TypeOK ==
    /\ running \in BOOLEAN /\ status \in Statuses
    /\ boundPort \in {FixedPort, AnyPort, NoPort}
    /\ gui \in {"idle", "joining"}
    /\ step \in [Workers -> Steps]
    /\ job \in [Workers -> Queries \cup {NoQuery}]
    /\ inbox \in [Workers -> SUBSET Queries]
    /\ portOf \in [Workers -> {FixedPort, AnyPort, NoPort}]
    /\ taken \in BOOLEAN
    /\ starts \in 0..MaxStarts
    /\ fate \in [Queries -> Fates]

\* There is never a second worker: start() makes a thread only after stop() has
\* joined the last one, so worker_ is never overwritten while joinable.
OneWorker == \A v, w \in Workers : Alive(v) /\ Alive(w) => v = w

\* Whenever the GUI thread is free, the status it shows tells whether a worker
\* holds the socket, on the port it shows; a failed start changes nothing.
StatusIsTrue ==
    gui = "idle" =>
        /\ running <=> status = "Running"
        /\ running <=> \E w \in Workers : Alive(w) /\ portOf[w] = boundPort
        /\ ~running => boundPort = NoPort /\ \A w \in Workers : ~Alive(w)

\* stop() returns, whatever the clients send and however silent the upstream
\* server is: the worker always comes back to look at the flag.
StopReturns == gui = "joining" ~> gui = "idle"

\* Every query that reaches the socket is settled: answered, dropped with its
\* upstream, or lost with the socket; one silent upstream does not hold up the
\* queries behind it for ever.
QueriesAreSettled ==
    \A q \in Queries : fate[q] \in {"queued", "working"} ~> fate[q] \notin {"queued", "working"}

=============================================================================
