-------------------------- MODULE BlockerVpnService --------------------------
(***************************************************************************)
(* The VPN service of the Android app (BlockerVpnService.kt), the boot     *)
(* receiver, and the part of Android that starts, restarts, kills and      *)
(* destroys the service.                                                   *)
(*                                                                         *)
(* The main thread handles one message after another: the intents of       *)
(* MainActivity and BootReceiver, and the destruction that stopSelf asks   *)
(* for.  Two threads run beside it: the packet thread, which reads the     *)
(* flag and the block list, and a binder thread on which Android calls     *)
(* onRevoke.  Every handler is a few steps, so that the threads interleave *)
(* and the process may die anywhere.  What is saved outlives the process.  *)
(*                                                                         *)
(* The fields of the service are taken to be read as last written.  What   *)
(* persistState saves is on the disk when onStartCommand ends, because     *)
(* Android waits for it there.                                             *)
(***************************************************************************)
EXTENDS Naturals, Sequences, FiniteSets

CONSTANTS
    Domains,        \* the names that queries are for, and lists hold
    Queries,        \* the queries: what isBlocked looks up for each, one after the
                    \* other, the name and its parents, then those of a proxied host
    SafeSearch,     \* the names SafeSearchPolicy.enforcedHostFor names a host for
    Lists,          \* the block lists that are handed over
    EstablishFails, \* establish() may return null with the permission granted
    JoinsTimeOut,   \* the packet thread may take longer than join(1000) waits
    MaxCommands, MaxKills, MaxReboots, MaxRevokes   \* bounds of the model

ASSUME ListsAssumption == Lists \subseteq SUBSET Domains /\ SafeSearch \subseteq Domains
ASSUME QueriesAssumption == Queries \subseteq Seq(Domains) \ {<<>>}
ASSUME SwitchAssumption == {EstablishFails, JoinsTimeOut} \subseteq BOOLEAN
ASSUME BoundsAssumption ==
    {MaxCommands, MaxKills, MaxReboots, MaxRevokes} \subseteq Nat

VARIABLES
    alive,          \* the app's process runs
    booting,        \* the device is up, BOOT_COMPLETED is still to come
    queue,          \* the messages of the main thread
    main,           \* where the main thread is
    binder,         \* where the thread in onRevoke is
    service,        \* an instance of the service exists
    running,        \* running
    blockedDomains, \* blockedDomains
    tunInterface,   \* tunInterface, by the number of the thread that reads it
    workerThread,   \* workerThread
    open,           \* the interfaces that are open
    ours,           \* the packet threads this instance has started
    worker,         \* of each packet thread: where it is, its query, how many of
                    \* its names it has looked up and missed and, as history, whether
                    \* the list was being replaced since it looked for the first
    currentStatus,  \* currentStatus
    saved,          \* the preferences "clearguard_vpn_state"
    granted,        \* establish() is permitted
    sticky,         \* Android will restart the service
    starts,         \* interfaces established so far
    commands, kills, reboots, revokes,  \* how often the world acted
    wanted,         \* history: what MainActivity last asked for
    handed,         \* history: the last list that was filled in whole
    disturbed,      \* history: what has come between
    late            \* history: a join gave up on a thread that was alive

fields == <<running, tunInterface, workerThread, open, ours>>
android == <<alive, booting, granted, sticky>>
world == <<commands, kills, reboots, revokes>>
history == <<wanted, handed, disturbed, late>>
vars == <<android, queue, main, binder, service, fields, blockedDomains, worker,
          currentStatus, saved, starts, world, history>>

-----------------------------------------------------------------------------
(* Data.                                                                   *)

NoTun == 0
\* Every interface needs a start that was asked for, or that a boot asks for.
Workers == 1..(MaxCommands + MaxReboots)

Message(kind, domains) == [kind |-> kind, domains |-> domains]
Messages == [kind : {"START", "UPDATE", "STOP", "NULL", "DESTROY"},
             domains : SUBSET Domains]

\* The main thread at a stage of a handler; list is that of the intent, todo what
\* addAll has still to add of it, joins the thread that stopVpn waits for.
At(stage, kind, list) ==
    [at |-> stage, kind |-> kind, list |-> list, todo |-> list, joins |-> NoTun]
MainIdle == At("idle", "NULL", {})
\* The binder thread; current while its instance is not destroyed.
BinderIdle == [at |-> "idle", current |-> TRUE, joins |-> NoTun]

Thread(stage, query) == [at |-> stage, query |-> query, seen |-> 0, met |-> FALSE]
Unborn == Thread("unborn", <<>>)
Loops(w) == worker[w].at \in {"loop", "handling"}

\* A packet thread reads the flag of the instance that started it.
SeesRunning(w) == running /\ w \in ours

\* stopSelf has been called for this instance.
Doomed == main.kind = "DESTROY" \/ \E i \in DOMAIN queue : queue[i].kind = "DESTROY"

Quiet == alive /\ ~booting /\ queue = <<>> /\ main = MainIdle /\ binder = BinderIdle

Init ==
    /\ alive = TRUE /\ booting = FALSE /\ queue = <<>>
    /\ main = MainIdle /\ binder = BinderIdle
    /\ service = FALSE /\ running = FALSE /\ blockedDomains = {}
    /\ tunInterface = NoTun /\ workerThread = NoTun /\ open = {} /\ ours = {}
    /\ worker = [w \in Workers |-> Unborn]
    /\ currentStatus = "DISABLED"
    /\ saved = [active |-> FALSE, domains |-> {}]
    /\ granted = TRUE /\ sticky = FALSE
    /\ starts = 0 /\ commands = 0 /\ kills = 0 /\ reboots = 0 /\ revokes = 0
    /\ wanted = [on |-> FALSE, domains |-> {}] /\ handed = {}
    /\ disturbed = {} /\ late = FALSE

-----------------------------------------------------------------------------
(* The methods of MainActivity's channel: each posts an intent and returns. *)

Command(message, want) ==
    /\ alive /\ ~booting /\ commands < MaxCommands
    /\ commands' = commands + 1
    /\ queue' = Append(queue, message)
    /\ sticky' = FALSE
    /\ wanted' = want
    /\ UNCHANGED <<alive, booting, granted, main, binder, service, fields,
                   blockedDomains, worker, currentStatus, saved, starts, kills, reboots,
                   revokes, handed, disturbed, late>>

start(domains) == Command(Message("START", domains), [on |-> TRUE, domains |-> domains])
stop == Command(Message("STOP", {}), [wanted EXCEPT !.on = FALSE])
updateBlocklist(domains) ==
    Command(Message("UPDATE", domains), [wanted EXCEPT !.domains = domains])

\* requestVpnPermission: the user agrees, or has agreed before.
requestPermission ==
    /\ alive /\ ~granted
    /\ granted' = TRUE
    /\ UNCHANGED <<alive, booting, sticky, queue, main, binder, service, fields,
                   blockedDomains, worker, currentStatus, saved, starts, world, history>>

-----------------------------------------------------------------------------
(* onStartCommand, on the main thread.                                     *)

MainUnchanged ==
    UNCHANGED <<android, binder, worker, saved, world, wanted, disturbed>>

Take(kind) == alive /\ main = MainIdle /\ queue # <<>> /\ Head(queue).kind = kind

LookedMeanwhile(w) == worker[w].at = "handling" /\ worker[w].seen > 0

\* The first intent creates the instance.  The list is cleared, taken to be one
\* step, and then filled name by name.
ReplaceList(kind) ==
    /\ Take(kind)
    /\ queue' = Tail(queue) /\ service' = TRUE
    /\ blockedDomains' = {}
    /\ main' = At("fill", kind, Head(queue).domains)
    /\ worker' = [w \in Workers |-> [worker[w] EXCEPT !.met = @ \/ LookedMeanwhile(w)]]
    /\ UNCHANGED <<android, binder, fields, currentStatus, saved, starts, world, history>>

AddDomain ==
    /\ alive /\ main.at = "fill"
    /\ \E d \in main.todo :
          /\ blockedDomains' = blockedDomains \cup {d}
          /\ main' = [main EXCEPT !.todo = @ \ {d}]
    /\ MainUnchanged
    /\ UNCHANGED <<queue, service, fields, currentStatus, starts, handed, late>>

ListFilled ==
    /\ alive /\ main.at = "fill" /\ main.todo = {}
    /\ main' = At(IF main.kind = "START" THEN "establish" ELSE "persist", main.kind, {})
    /\ handed' = main.list
    /\ MainUnchanged
    /\ UNCHANGED <<queue, service, fields, blockedDomains, currentStatus, starts, late>>

BeginStart == ReplaceList("START")
BeginUpdate == ReplaceList("UPDATE")

\* ACTION_STOP, or the destruction of the instance: on to stopVpn.
BeginStop ==
    /\ Take("STOP")
    /\ queue' = Tail(queue) /\ service' = TRUE
    /\ main' = At("halt", "STOP", {})
    /\ MainUnchanged
    /\ UNCHANGED <<fields, blockedDomains, currentStatus, starts, handed, late>>

\* A sticky restart has no intent, and nothing is done but to save.
RestartedWithoutIntent ==
    /\ Take("NULL")
    /\ queue' = Tail(queue) /\ service' = TRUE
    /\ main' = At("persist", "NULL", {})
    /\ MainUnchanged
    /\ UNCHANGED <<fields, blockedDomains, currentStatus, starts, handed, late>>

\* Broken variant, for the runs to reject: only a start is saved as active.
persistStateOfStart ==
    /\ alive /\ main.at = "persist"
    /\ main' = MainIdle
    /\ saved' = [active |-> main.kind = "START", domains |-> blockedDomains]
    /\ UNCHANGED <<android, queue, binder, service, fields, blockedDomains, worker,
                   currentStatus, starts, world, history>>

persistState ==
    /\ alive /\ main.at = "persist"
    /\ main' = MainIdle
    /\ saved' = [active |-> running, domains |-> blockedDomains]
    /\ UNCHANGED <<android, queue, binder, service, fields, blockedDomains, worker,
                   currentStatus, starts, world, history>>

-----------------------------------------------------------------------------
(* startVpn.                                                               *)

AlreadyRunning ==
    /\ alive /\ main.at = "establish" /\ running
    /\ main' = At("persist", main.kind, {})
    /\ MainUnchanged
    /\ UNCHANGED <<queue, service, fields, blockedDomains, currentStatus, starts, handed,
                   late>>

NotEstablished ==
    /\ alive /\ main.at = "establish" /\ ~running
    /\ ~granted \/ EstablishFails
    /\ currentStatus' = "ERROR"
    /\ main' = At("persist", main.kind, {})
    /\ disturbed' = disturbed \cup {"establish"}
    /\ UNCHANGED <<android, queue, binder, service, fields, blockedDomains, worker, saved,
                   starts, world, wanted, handed, late>>

Establish ==
    /\ alive /\ main.at = "establish" /\ ~running
    /\ granted
    /\ starts' = starts + 1
    /\ tunInterface' = starts' /\ open' = open \cup {starts'}
    /\ main' = At("launch", main.kind, {})
    /\ MainUnchanged
    /\ UNCHANGED <<queue, service, running, workerThread, ours, blockedDomains,
                   currentStatus, handed, late>>

\* An onRevoke that is at work while the start is.
Races == IF binder = BinderIdle THEN disturbed ELSE disturbed \cup {"raced"}

SetRunning ==
    /\ alive /\ main.at = "launch"
    /\ running' = TRUE
    /\ main' = [main EXCEPT !.at = "announce"]
    /\ disturbed' = Races
    /\ UNCHANGED <<android, queue, binder, service, tunInterface, workerThread, open, ours,
                   blockedDomains, worker, currentStatus, saved, starts, world, wanted,
                   handed, late>>

AnnounceActive ==
    /\ alive /\ main.at = "announce"
    /\ currentStatus' = "ACTIVE"
    /\ main' = [main EXCEPT !.at = "thread"]
    /\ disturbed' = Races
    /\ UNCHANGED <<android, queue, binder, service, fields, blockedDomains, worker, saved,
                   starts, world, wanted, handed, late>>

\* The packet thread keeps the interface that was established here.
LaunchWorker ==
    /\ alive /\ main.at = "thread"
    /\ workerThread' = starts /\ ours' = ours \cup {starts}
    /\ worker' = [worker EXCEPT ![starts].at = "loop"]
    /\ main' = At("persist", main.kind, {})
    /\ disturbed' = Races
    /\ UNCHANGED <<android, queue, binder, service, running, tunInterface, open,
                   blockedDomains, currentStatus, saved, starts, world, wanted, handed,
                   late>>

-----------------------------------------------------------------------------
(* stopVpn, on the main thread or on the binder thread, and what follows.  *)

stopSelf == queue' = IF Doomed THEN queue ELSE Append(queue, Message("DESTROY", {}))

Halt == /\ running' = FALSE
        /\ UNCHANGED <<tunInterface, workerThread, open, ours, late>>

\* Broken variant, for the runs to reject: nobody waits for the packet thread.
ForgetWorker(joins) ==
    /\ workerThread' = NoTun
    /\ UNCHANGED <<running, tunInterface, open, ours, late>>

JoinWorker(joins) ==
    /\ joins # NoTun /\ Loops(joins) => JoinsTimeOut
    /\ late' = (late \/ (joins # NoTun /\ Loops(joins)))
    /\ workerThread' = NoTun
    /\ UNCHANGED <<running, tunInterface, open, ours>>

Close == /\ open' = open \ {tunInterface} /\ tunInterface' = NoTun
         /\ UNCHANGED <<running, workerThread, ours, late>>

\* From one stage to the next, on the fields of the instance.
StopStep(at, joins, next) ==
    \/ at = "halt" /\ next = "join" /\ Halt
    \/ at = "join" /\ next = "close" /\ JoinWorker(joins)
    \/ at = "close" /\ next = "settle" /\ Close

StopOnMain ==
    /\ alive
    /\ \E next \in {"join", "close", "settle"} :
          /\ StopStep(main.at, main.joins, next)
          /\ main' = [main EXCEPT !.at = next, !.joins = workerThread]
    /\ UNCHANGED <<android, queue, binder, service, blockedDomains, worker,
                   currentStatus, saved, starts, world, wanted, handed, disturbed>>

StopSettles ==
    /\ alive /\ main.at = "settle" /\ main.kind = "STOP"
    /\ currentStatus' = "DISABLED" /\ stopSelf
    /\ main' = At("persist", "STOP", {})
    /\ MainUnchanged
    /\ UNCHANGED <<service, fields, blockedDomains, starts, handed, late>>

\* onDestroy.  A start that this instance has handled since stopSelf is undone.
BeginDestroy ==
    /\ Take("DESTROY")
    /\ queue' = Tail(queue)
    /\ main' = At("halt", "DESTROY", {})
    /\ disturbed' = IF running THEN disturbed \cup {"overtaken"} ELSE disturbed
    /\ UNCHANGED <<android, binder, service, fields, blockedDomains, worker,
                   currentStatus, saved, starts, world, wanted, handed, late>>

\* Broken variant, for the runs to reject: the destruction is not told.
DestroyedSilently ==
    /\ alive /\ main.at = "settle" /\ main.kind = "DESTROY"
    /\ service' = FALSE /\ ours' = {} /\ blockedDomains' = {}
    /\ main' = MainIdle
    /\ binder' = IF binder = BinderIdle THEN binder ELSE [binder EXCEPT !.current = FALSE]
    /\ UNCHANGED <<android, queue, running, tunInterface, workerThread, open, worker,
                   currentStatus, saved, starts, world, history>>

\* The next intent finds no instance.  Threads of this one keep its fields.
Destroyed ==
    /\ alive /\ main.at = "settle" /\ main.kind = "DESTROY"
    /\ currentStatus' = "DISABLED"
    /\ service' = FALSE /\ ours' = {} /\ blockedDomains' = {}
    /\ main' = MainIdle
    /\ binder' = IF binder = BinderIdle THEN binder ELSE [binder EXCEPT !.current = FALSE]
    /\ UNCHANGED <<android, queue, running, tunInterface, workerThread, open, worker,
                   saved, starts, world, history>>

\* Somebody withdraws the permission, or another VPN takes over.  Android calls
\* onRevoke while the interface of an instance is there.
Revoke ==
    /\ granted /\ revokes < MaxRevokes
    /\ revokes' = revokes + 1
    /\ granted' = FALSE
    /\ disturbed' = disturbed \cup {"revoke"} \cup
                      (IF main.at \in {"launch", "announce", "thread"} THEN {"raced"} ELSE {})
    /\ binder' = IF alive /\ tunInterface # NoTun /\ binder = BinderIdle
                   THEN [binder EXCEPT !.at = "halt"] ELSE binder
    /\ UNCHANGED <<alive, booting, sticky, queue, main, service, fields, blockedDomains,
                   worker, currentStatus, saved, starts, commands, kills, reboots, wanted,
                   handed, late>>

StopOnBinder ==
    /\ alive
    /\ \E next \in {"join", "close", "settle"} :
          /\ binder' = [binder EXCEPT !.at = next, !.joins = workerThread]
          /\ binder.current => StopStep(binder.at, binder.joins, next)
          /\ ~binder.current =>
                /\ <<binder.at, next>> \in {<<"halt", "join">>, <<"join", "close">>,
                                            <<"close", "settle">>}
                /\ UNCHANGED <<fields, late>>
    /\ UNCHANGED <<android, queue, main, service, blockedDomains, worker, currentStatus,
                   saved, starts, world, wanted, handed, disturbed>>

\* The end of onRevoke.  Nothing is saved.
RevokeSettles ==
    /\ alive /\ binder.at = "settle"
    /\ currentStatus' = "DISABLED"
    /\ binder' = BinderIdle
    /\ binder.current => stopSelf
    /\ ~binder.current => UNCHANGED queue
    /\ UNCHANGED <<android, main, service, fields, blockedDomains, worker, saved, starts,
                   world, history>>

-----------------------------------------------------------------------------
(* runPacketLoop.  With nothing to read, or with its interface closed, it  *)
(* looks at the flag again and again.                                      *)

Goto(w, stage, query) == worker' = [worker EXCEPT ![w] = Thread(stage, query)]

WorkerUnchanged ==
    UNCHANGED <<android, queue, main, binder, service, fields, blockedDomains,
                currentStatus, saved, starts, world, history>>

ReadPacket(w, q) ==
    /\ alive /\ worker[w].at = "loop" /\ SeesRunning(w) /\ w \in open
    /\ Goto(w, "handling", q)
    /\ WorkerUnchanged

EndLoop(w) ==
    /\ alive /\ worker[w].at = "loop" /\ ~SeesRunning(w)
    /\ Goto(w, "gone", <<>>)
    /\ WorkerUnchanged

\* handlePacket: safe search is enforced before the list is looked at.
Rewrite(w) ==
    /\ alive /\ worker[w].at = "handling" /\ Head(worker[w].query) \in SafeSearch
    /\ Goto(w, "loop", <<>>)
    /\ WorkerUnchanged

\* isBlocked looks for one name at a time in the list, which the main thread may
\* clear and fill meanwhile.  A thread whose instance is gone looks into the list
\* of that instance, of which nothing is known here.
LooksFor(w, name) ==
    /\ alive /\ worker[w].at = "handling" /\ Head(worker[w].query) \notin SafeSearch
    /\ name = worker[w].query[worker[w].seen + 1]

Sinkhole(w) ==
    /\ \E name \in Domains : LooksFor(w, name) /\ (w \in ours => name \in blockedDomains)
    /\ Goto(w, "loop", <<>>)
    /\ WorkerUnchanged

Misses(w) ==
    \E name \in Domains : LooksFor(w, name) /\ (w \in ours => name \notin blockedDomains)

AtLastName(w) == worker[w].seen + 1 = Len(worker[w].query)

\* The list was being replaced since the first name was looked for.
MetReplacing(w) == IF worker[w].seen = 0 THEN main.at = "fill" ELSE worker[w].met

\* On to the parent, or from the name to the host that it is a proxy's name of.
LookFurther(w) ==
    /\ Misses(w) /\ ~AtLastName(w)
    /\ worker' = [worker EXCEPT ![w].seen = @ + 1, ![w].met = MetReplacing(w)]
    /\ WorkerUnchanged

\* Broken variant, for the runs to reject: the parents are not looked for.
ForwardAtOnce(w) ==
    /\ Misses(w)
    /\ Goto(w, "loop", <<>>)
    /\ WorkerUnchanged

Forward(w) ==
    /\ Misses(w) /\ AtLastName(w)
    /\ Goto(w, "loop", <<>>)
    /\ WorkerUnchanged

-----------------------------------------------------------------------------
(* Android: processes that die, and devices that restart.                  *)

\* Nothing of the process is left.
Gone ==
    /\ alive' = FALSE /\ queue' = <<>> /\ main' = MainIdle /\ binder' = BinderIdle
    /\ service' = FALSE /\ running' = FALSE /\ blockedDomains' = {}
    /\ tunInterface' = NoTun /\ workerThread' = NoTun /\ open' = {} /\ ours' = {}
    /\ worker' = [w \in Workers |-> IF Loops(w) THEN Thread("gone", <<>>) ELSE worker[w]]
    /\ currentStatus' = "DISABLED"
    /\ UNCHANGED <<granted, saved, starts, commands, revokes, wanted, handed, late>>

Kill ==
    /\ alive /\ kills < MaxKills
    /\ kills' = kills + 1
    /\ Gone
    /\ sticky' = (service /\ ~Doomed)
    /\ disturbed' = disturbed \cup {"kill"}
    /\ UNCHANGED <<booting, reboots>>

\* A restart of the device loses what the main thread has not handled.
Reboot ==
    /\ ~booting /\ reboots < MaxReboots
    /\ reboots' = reboots + 1
    /\ Gone
    /\ booting' = TRUE /\ sticky' = FALSE
    /\ disturbed' = IF Quiet \/ ~alive THEN disturbed ELSE disturbed \cup {"cut"}
    /\ UNCHANGED kills

\* START_STICKY: the service comes back, with no intent.
StickyRestart ==
    /\ sticky
    /\ alive' = TRUE /\ sticky' = FALSE
    /\ queue' = Append(queue, Message("NULL", {}))
    /\ UNCHANGED <<booting, granted, main, binder, service, fields, blockedDomains, worker,
                   currentStatus, saved, starts, world, history>>

OpenApp ==
    /\ ~alive /\ ~booting
    /\ alive' = TRUE
    /\ UNCHANGED <<booting, granted, sticky, queue, main, binder, service, fields,
                   blockedDomains, worker, currentStatus, saved, starts, world, history>>

\* Broken variant, for the runs to reject: the domains are not read back.
BootCompletedWithoutList ==
    /\ booting
    /\ booting' = FALSE /\ alive' = TRUE
    /\ queue' = IF saved.active THEN <<Message("START", {})>> ELSE <<>>
    /\ UNCHANGED <<granted, sticky, main, binder, service, fields, blockedDomains, worker,
                   currentStatus, saved, starts, world, history>>

\* BootReceiver.onReceive.
BootCompleted ==
    /\ booting
    /\ booting' = FALSE /\ alive' = TRUE
    /\ queue' = IF saved.active THEN <<Message("START", saved.domains)>> ELSE <<>>
    /\ UNCHANGED <<granted, sticky, main, binder, service, fields, blockedDomains, worker,
                   currentStatus, saved, starts, world, history>>

-----------------------------------------------------------------------------
MainStep ==
    \/ BeginStart \/ BeginUpdate \/ BeginStop \/ BeginDestroy \/ RestartedWithoutIntent
    \/ AddDomain \/ ListFilled \/ AlreadyRunning \/ NotEstablished \/ Establish
    \/ SetRunning \/ AnnounceActive \/ LaunchWorker \/ StopOnMain \/ StopSettles \/ Destroyed \/ persistState

BinderStep == StopOnBinder \/ RevokeSettles

WorkerStep(w) ==
    EndLoop(w) \/ Rewrite(w) \/ Sinkhole(w) \/ LookFurther(w) \/ Forward(w)

Next ==
    \/ \E list \in Lists : start(list) \/ updateBlocklist(list)
    \/ stop \/ requestPermission
    \/ MainStep \/ BinderStep
    \/ \E w \in Workers : WorkerStep(w) \/ \E q \in Queries : ReadPacket(w, q)
    \/ Revoke \/ Kill \/ Reboot \/ StickyRestart \/ OpenApp \/ BootCompleted

Spec == Init /\ [][Next]_vars

\* The threads go on, and a device that restarts comes up.  Nobody has to open
\* the app, to send queries or to grant anything.
Fairness ==
    /\ WF_vars(MainStep) /\ WF_vars(BinderStep) /\ WF_vars(BootCompleted)
    /\ \A w \in Workers : WF_vars(WorkerStep(w))

FairSpec == Spec /\ Fairness

-----------------------------------------------------------------------------
(* Properties.                                                             *)

Stages == {"idle", "fill", "establish", "launch", "announce", "thread", "persist",
           "halt", "join", "close", "settle"}

\* The type invariant.
TypeOK ==
    /\ {alive, booting, service, running, granted, sticky, late} \subseteq BOOLEAN
    /\ queue \in Seq(Messages)
    /\ main \in [at : Stages, kind : {"START", "UPDATE", "STOP", "NULL", "DESTROY"},
                 list : SUBSET Domains, todo : SUBSET Domains, joins : Nat]
    /\ binder \in [at : {"idle", "halt", "join", "close", "settle"}, current : BOOLEAN,
                   joins : Nat]
    /\ blockedDomains \subseteq Domains /\ handed \subseteq Domains
    /\ {tunInterface, workerThread} \cup open \cup ours \subseteq Nat
    /\ worker \in [Workers -> [at : {"unborn", "loop", "handling", "gone"},
                               query : Queries \cup {<<>>}, seen : Nat, met : BOOLEAN]]
    /\ currentStatus \in {"ACTIVE", "DISABLED", "ERROR"}
    /\ saved \in [active : BOOLEAN, domains : SUBSET Domains]
    /\ {starts, commands, kills, reboots, revokes} \subseteq Nat
    /\ wanted \in [on : BOOLEAN, domains : SUBSET Domains]
    /\ disturbed \subseteq {"kill", "cut", "revoke", "establish", "overtaken", "raced"}

\* When the threads have come to rest, the service runs as MainActivity last asked,
\* with the list it last handed over, through any number of restarts of the device.
\* Only what "disturbed" names can make a difference: the process was killed, a
\* restart cut off a message, the permission was withdrawn, the interface could not
\* be had, or a start came between a stop and the destruction it asked for.
LastWordHolds ==
    Quiet /\ disturbed = {} =>
        /\ running = wanted.on
        /\ running => blockedDomains = wanted.domains

\* And the threads do come to rest on it.
LastWordArrives ==
    \A on \in BOOLEAN :
        wanted.on = on /\ disturbed = {} ~> running = on \/ wanted.on # on \/ disturbed # {}

\* At rest, the status that MainActivity is told is the truth: after a withdrawal, a
\* restart, a kill or a stop that overtakes a start too, and unless the service was
\* started while onRevoke was still at work.
StatusIsTrue ==
    Quiet /\ "raced" \notin disturbed => (currentStatus = "ACTIVE" <=> running)

\* As long as no join gave up early, and no start met onRevoke, there is never more
\* than one packet thread, and at rest there is one, on an open interface, exactly
\* when the service runs.
OneReader ==
    ~late /\ "raced" \notin disturbed =>
        /\ \A v, w \in Workers : Loops(v) /\ Loops(w) => v = w
        /\ Quiet => (running <=> \E w \in Workers : Loops(w) /\ w \in open)

\* A query goes through although the last list handed over blocks it, the name, a
\* parent or a proxied host, only if the list was being replaced between its first
\* look into it and its last (onStartCommand clears it before it fills it, and
\* isBlocked looks for one name after the other).
LeaksOnlyWhileReplaced ==
    [][\A w \in Workers : Forward(w) /\ w \in ours =>
          \/ MetReplacing(w)
          \/ \A i \in 1..Len(worker[w].query) : worker[w].query[i] \notin handed]_vars

=============================================================================
