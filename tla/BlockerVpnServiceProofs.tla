----------------------- MODULE BlockerVpnServiceProofs -----------------------
(***************************************************************************)
(* Proofs about BlockerVpnService, for any domains, lists and queries and  *)
(* any number of commands, kills, restarts and withdrawals: types, that a  *)
(* query that the list blocks goes through only if the list was being      *)
(* replaced while it was looked at, that no two packet threads run at a    *)
(* time, and that at rest the status is the truth and the last command has *)
(* been obeyed.                                                            *)
(***************************************************************************)
EXTENDS BlockerVpnService, FiniteSetTheorems, TLAPS

Kinds == {"START", "UPDATE", "STOP", "NULL", "DESTROY"}
MainRecord ==
    [at : Stages, kind : Kinds, list : SUBSET Domains, todo : SUBSET Domains, joins : Nat]
BinderRecord == [at : {"idle", "halt", "join", "close", "settle"}, current : BOOLEAN, joins : Nat]
WorkerRecord ==
    [at : {"unborn", "loop", "handling", "gone"}, query : Queries \cup {<<>>}, seen : Nat,
     met : BOOLEAN]

-----------------------------------------------------------------------------
(* Types.                                                                  *)

LEMMA AtFacts ==
    ASSUME NEW at \in Stages, NEW kind \in Kinds, NEW list \in SUBSET Domains
    PROVE  /\ At(at, kind, list) \in MainRecord /\ At(at, kind, list).at = at
           /\ MainIdle \in MainRecord /\ MainIdle.at = "idle"
    BY DEF At, MainIdle, MainRecord, Kinds, Stages, NoTun

LEMMA QueueFacts ==
    ASSUME TypeOK
    PROVE  /\ queue # <<>> => Head(queue) \in Messages /\ Tail(queue) \in Seq(Messages)
           /\ \A m \in Messages : Append(queue, m) \in Seq(Messages)
    BY DEF TypeOK

LEMMA MessageFacts ==
    ASSUME NEW kind \in Kinds, NEW domains \in SUBSET Domains
    PROVE  Message(kind, domains) \in Messages
    BY DEF Message, Messages, Kinds

LEMMA TypedParts ==
    ASSUME TypeOK
    PROVE  main \in MainRecord /\ binder \in BinderRecord /\ worker \in [Workers -> WorkerRecord]
    BY DEF TypeOK, MainRecord, BinderRecord, WorkerRecord, Kinds

LEMMA InitiallyTyped ==
    ASSUME Init
    PROVE  TypeOK
<1>1. MainIdle \in MainRecord /\ BinderIdle \in BinderRecord /\ Unborn \in WorkerRecord
    BY DEF MainIdle, At, BinderIdle, Unborn, Thread, MainRecord, BinderRecord, WorkerRecord,
           Kinds, Stages, NoTun
<1>2. worker \in [Workers -> WorkerRecord]
    BY <1>1 DEF Init
<1>3. {alive, booting, service, running, granted, sticky, late} \subseteq BOOLEAN
    BY DEF Init
<1>4. /\ {tunInterface, workerThread} \cup open \cup ours \subseteq Nat
      /\ {starts, commands, kills, reboots, revokes} \subseteq Nat
    BY DEF Init, NoTun
<1>5. /\ saved \in [active : BOOLEAN, domains : SUBSET Domains]
      /\ wanted \in [on : BOOLEAN, domains : SUBSET Domains]
      /\ queue \in Seq(Messages)
    BY DEF Init
<1> QED
    BY <1>1, <1>2, <1>3, <1>4, <1>5
    DEF Init, TypeOK, MainRecord, BinderRecord, WorkerRecord, Kinds

\* stopVpn, wherever it runs.
LEMMA StopStepTyped ==
    ASSUME TypeOK, NEW at, NEW joins, NEW next, StopStep(at, joins, next)
    PROVE  /\ running' \in BOOLEAN /\ late' \in BOOLEAN
           /\ {tunInterface', workerThread'} \cup open' \cup ours' \subseteq Nat
           /\ ours' = ours
<1>1. NoTun \in Nat
    BY DEF NoTun
<1>2. running' \in BOOLEAN /\ late' \in BOOLEAN
    BY DEF StopStep, Halt, JoinWorker, Close, TypeOK
<1> QED
    BY <1>1, <1>2 DEF StopStep, Halt, JoinWorker, Close, TypeOK

LEMMA CommandTyped ==
    ASSUME TypeOK, NEW message \in Messages,
           NEW want \in [on : BOOLEAN, domains : SUBSET Domains], Command(message, want)
    PROVE  TypeOK'
<1>1. queue' \in Seq(Messages) /\ commands' \in Nat
    BY QueueFacts DEF Command, TypeOK
<1>2. wanted' \in [on : BOOLEAN, domains : SUBSET Domains] /\ sticky' \in BOOLEAN
    BY DEF Command
<1>3. UNCHANGED <<alive, booting, granted, main, binder, service, fields,
                  blockedDomains, worker, currentStatus, saved, starts, kills, reboots,
                  revokes, handed, disturbed, late>>
    BY DEF Command
<1> QED
    BY <1>1, <1>2, <1>3 DEF TypeOK, fields

\* The lookups that a replacement meets go on where they are.
LEMMA ReplaceTyped ==
    ASSUME TypeOK, NEW kind, ReplaceList(kind)
    PROVE  /\ worker' \in [Workers -> WorkerRecord]
           /\ \A w \in Workers :
                 /\ worker'[w].at = worker[w].at /\ worker'[w].query = worker[w].query
                 /\ worker'[w].seen = worker[w].seen
                 /\ worker'[w].met = (worker[w].met \/ LookedMeanwhile(w))
<1>1. /\ worker \in [Workers -> WorkerRecord]
      /\ worker' = [w \in Workers |-> [worker[w] EXCEPT !.met = @ \/ LookedMeanwhile(w)]]
    BY TypedParts DEF ReplaceList
<1>2. ASSUME NEW w \in Workers
      PROVE  /\ worker'[w] = [worker[w] EXCEPT !.met = worker[w].met \/ LookedMeanwhile(w)]
             /\ worker[w] \in WorkerRecord /\ LookedMeanwhile(w) \in BOOLEAN
    BY <1>1 DEF LookedMeanwhile
<1>3. ASSUME NEW w \in Workers
      PROVE  /\ worker'[w].at = worker[w].at /\ worker'[w].query = worker[w].query
             /\ worker'[w].seen = worker[w].seen
             /\ worker'[w].met = (worker[w].met \/ LookedMeanwhile(w))
             /\ worker'[w] \in WorkerRecord
    BY <1>2 DEF WorkerRecord
<1> QED
    BY <1>1, <1>3

\* A lookup goes on to the next name of its query.
LEMMA FurtherTyped ==
    ASSUME TypeOK, NEW w \in Workers, LookFurther(w)
    PROVE  /\ worker' \in [Workers -> WorkerRecord]
           /\ \A v \in Workers :
                 worker'[v].at = worker[v].at /\ worker'[v].query = worker[v].query
           /\ \A v \in Workers \ {w} : worker'[v] = worker[v]
           /\ worker'[w].seen = worker[w].seen + 1 /\ worker'[w].met = MetReplacing(w)
<1>1. /\ worker \in [Workers -> WorkerRecord] /\ MetReplacing(w) \in BOOLEAN
      /\ worker' = [worker EXCEPT ![w].seen = @ + 1, ![w].met = MetReplacing(w)]
    BY TypedParts DEF LookFurther, MetReplacing, WorkerRecord
<1>2. /\ \A v \in Workers \ {w} : worker'[v] = worker[v]
      /\ worker'[w] = [worker[w] EXCEPT !.seen = @ + 1, !.met = MetReplacing(w)]
      /\ worker' = [v \in Workers |-> worker'[v]]
    BY <1>1
<1>3. /\ worker'[w] \in WorkerRecord
      /\ worker'[w].at = worker[w].at /\ worker'[w].query = worker[w].query
      /\ worker'[w].seen = worker[w].seen + 1 /\ worker'[w].met = MetReplacing(w)
    BY <1>1, <1>2 DEF WorkerRecord
<1> QED
    BY <1>1, <1>2, <1>3

LEMMA MainStepTyped ==
    ASSUME TypeOK, MainStep
    PROVE  TypeOK'
<1>0. main \in MainRecord /\ MainIdle \in MainRecord
    BY TypedParts, AtFacts DEF TypeOK, MainRecord
<1>1. ASSUME NEW kind \in {"START", "UPDATE"}, ReplaceList(kind) PROVE TypeOK'
  <2>1. /\ queue' \in Seq(Messages) /\ Head(queue).domains \in SUBSET Domains
        /\ kind \in Kinds /\ "fill" \in Stages
    BY <1>1, QueueFacts DEF ReplaceList, Take, Messages, Kinds, Stages
  <2>2. main' \in MainRecord
    BY <1>1, <2>1, AtFacts DEF ReplaceList
  <2>3. worker' \in [Workers -> WorkerRecord]
    BY <1>1, ReplaceTyped
  <2> QED
    BY <1>1, <2>1, <2>2, <2>3
    DEF ReplaceList, TypeOK, MainRecord, WorkerRecord, Kinds, android, world, fields, history
<1>2. CASE BeginStop
  <2>1. queue' \in Seq(Messages) /\ main' \in MainRecord
    BY <1>2, QueueFacts, AtFacts DEF BeginStop, Take, Kinds, Stages
  <2> QED
    BY <1>2, <2>1
    DEF BeginStop, MainUnchanged, TypeOK, MainRecord, Kinds, android, world, fields
<1>3. CASE BeginDestroy
  <2>1. queue' \in Seq(Messages) /\ main' \in MainRecord
    BY <1>3, QueueFacts, AtFacts DEF BeginDestroy, Take, Kinds, Stages
  <2> QED
    BY <1>3, <2>1
    DEF BeginDestroy, TypeOK, MainRecord, Kinds, android, world, fields
<1>4. CASE RestartedWithoutIntent
  <2>1. queue' \in Seq(Messages) /\ main' \in MainRecord
    BY <1>4, QueueFacts, AtFacts DEF RestartedWithoutIntent, Take, Kinds, Stages
  <2> QED
    BY <1>4, <2>1
    DEF RestartedWithoutIntent, MainUnchanged, TypeOK, MainRecord, Kinds, android, world, fields
<1>5. CASE AddDomain
  <2> PICK d \in main.todo : /\ blockedDomains' = blockedDomains \cup {d}
                             /\ main' = [main EXCEPT !.todo = @ \ {d}]
    BY <1>5 DEF AddDomain
  <2>1. main' \in MainRecord /\ blockedDomains' \subseteq Domains
    BY <1>0 DEF MainRecord, TypeOK
  <2> QED
    BY <1>5, <2>1
    DEF AddDomain, MainUnchanged, TypeOK, MainRecord, Kinds, android, world, fields
<1>6. CASE ListFilled
  <2>1. main' \in MainRecord
    BY <1>0, <1>6, AtFacts DEF ListFilled, MainRecord, Stages
  <2> QED
    BY <1>6, <2>1
    DEF ListFilled, MainUnchanged, TypeOK, MainRecord, Kinds, android, world, fields
<1>7. CASE AlreadyRunning
  <2>1. main' \in MainRecord
    BY <1>0, <1>7, AtFacts DEF AlreadyRunning, MainRecord, Stages
  <2> QED
    BY <1>7, <2>1
    DEF AlreadyRunning, MainUnchanged, TypeOK, MainRecord, Kinds, android, world, fields
<1>8. CASE NotEstablished
  <2>1. main' \in MainRecord
    BY <1>0, <1>8, AtFacts DEF NotEstablished, MainRecord, Stages
  <2> QED
    BY <1>8, <2>1 DEF NotEstablished, TypeOK, MainRecord, Kinds, android, world, fields
<1>9. CASE Establish
  <2>1. main' \in MainRecord /\ starts' \in Nat
    BY <1>0, <1>9, AtFacts DEF Establish, MainRecord, Stages, TypeOK
  <2> QED
    BY <1>9, <2>1
    DEF Establish, MainUnchanged, TypeOK, MainRecord, Kinds, android, world
<1>10. CASE SetRunning
  <2>1. main' \in MainRecord /\ disturbed' \subseteq disturbed \cup {"raced"}
    BY <1>0, <1>10 DEF SetRunning, MainRecord, Stages, Races
  <2> QED
    BY <1>10, <2>1 DEF SetRunning, TypeOK, MainRecord, Kinds, android, world
<1>11. CASE AnnounceActive
  <2>1. main' \in MainRecord /\ disturbed' \subseteq disturbed \cup {"raced"}
    BY <1>0, <1>11 DEF AnnounceActive, MainRecord, Stages, Races
  <2> QED
    BY <1>11, <2>1 DEF AnnounceActive, TypeOK, MainRecord, Kinds, android, world, fields
<1>12. CASE LaunchWorker
  <2>1. main' \in MainRecord /\ disturbed' \subseteq disturbed \cup {"raced"}
    BY <1>0, <1>12, AtFacts DEF LaunchWorker, MainRecord, Stages, Races
  <2>2. worker' \in [Workers -> WorkerRecord]
    BY <1>12, TypedParts DEF LaunchWorker, WorkerRecord
  <2> QED
    BY <1>12, <2>1, <2>2
    DEF LaunchWorker, TypeOK, MainRecord, WorkerRecord, Kinds, android, world
<1>13. CASE StopOnMain
  <2> PICK next \in {"join", "close", "settle"} :
          /\ StopStep(main.at, main.joins, next)
          /\ main' = [main EXCEPT !.at = next, !.joins = workerThread]
    BY <1>13 DEF StopOnMain
  <2>1. main' \in MainRecord
    BY <1>0 DEF MainRecord, Stages, TypeOK
  <2> QED
    BY <1>13, <2>1, StopStepTyped DEF StopOnMain, TypeOK, MainRecord, Kinds, android, world
<1>14. CASE StopSettles
  <2>1. main' \in MainRecord /\ queue' \in Seq(Messages)
    BY <1>0, <1>14, AtFacts, QueueFacts, MessageFacts
    DEF StopSettles, stopSelf, Stages, Kinds, TypeOK
  <2> QED
    BY <1>14, <2>1
    DEF StopSettles, MainUnchanged, TypeOK, MainRecord, Kinds, android, world, fields
<1>15. CASE Destroyed
  <2>1. binder' \in BinderRecord
    BY <1>15, TypedParts DEF Destroyed, BinderRecord
  <2> QED
    BY <1>0, <1>15, <2>1
    DEF Destroyed, TypeOK, MainRecord, BinderRecord, Kinds, android, world, history
<1>16. CASE persistState
    BY <1>0, <1>16
    DEF persistState, TypeOK, MainRecord, Kinds, android, world, fields, history
<1> QED
    BY <1>1, <1>2, <1>3, <1>4, <1>5, <1>6, <1>7, <1>8, <1>9, <1>10, <1>11, <1>12, <1>13, <1>14,
       <1>15, <1>16
    DEF MainStep, BeginStart, BeginUpdate

LEMMA GotoTyped ==
    ASSUME TypeOK, NEW w \in Workers, NEW stage \in {"loop", "handling", "gone"},
           NEW query \in Queries \cup {<<>>}, Goto(w, stage, query), WorkerUnchanged
    PROVE  TypeOK'
<1>1. worker' \in [Workers -> WorkerRecord]
    BY TypedParts DEF Goto, Thread, WorkerRecord
<1> QED
    BY <1>1 DEF WorkerUnchanged, TypeOK, WorkerRecord, android, fields, world, history

LEMMA GoneTyped ==
    ASSUME TypeOK, Gone
    PROVE  /\ {alive', service', running'} \subseteq BOOLEAN /\ queue' \in Seq(Messages)
           /\ main' \in MainRecord /\ binder' \in BinderRecord /\ blockedDomains' = {}
           /\ {tunInterface', workerThread'} \cup open' \cup ours' \subseteq Nat
           /\ worker' \in [Workers -> WorkerRecord] /\ currentStatus' = "DISABLED"
           /\ UNCHANGED <<granted, saved, starts, commands, revokes, wanted, handed, late>>
<1>1. main' \in MainRecord /\ binder' \in BinderRecord
    BY DEF Gone, MainIdle, At, BinderIdle, MainRecord, BinderRecord, Kinds, Stages, NoTun
<1>2. worker' \in [Workers -> WorkerRecord]
    BY TypedParts DEF Gone, Thread, WorkerRecord
<1>3. {alive', service', running'} \subseteq BOOLEAN
    BY DEF Gone
<1>4. {tunInterface', workerThread'} \cup open' \cup ours' \subseteq Nat
    BY DEF Gone, NoTun
<1> QED
    BY <1>1, <1>2, <1>3, <1>4 DEF Gone

LEMMA TypeStep ==
    ASSUME TypeOK, [Next]_vars
    PROVE  TypeOK'
<1>0. /\ binder \in BinderRecord /\ BinderIdle \in BinderRecord
      /\ wanted \in [on : BOOLEAN, domains : SUBSET Domains]
    BY TypedParts DEF BinderIdle, BinderRecord, NoTun, TypeOK
<1>1. ASSUME NEW list \in Lists, start(list) \/ updateBlocklist(list) PROVE TypeOK'
  <2>1. list \in SUBSET Domains
    BY ListsAssumption
  <2>2. /\ [on |-> TRUE, domains |-> list] \in [on : BOOLEAN, domains : SUBSET Domains]
        /\ [wanted EXCEPT !.domains = list] \in [on : BOOLEAN, domains : SUBSET Domains]
    BY <1>0, <2>1
  <2> QED
    <3>1. Message("START", list) \in Messages /\ Message("UPDATE", list) \in Messages
        BY <2>1, MessageFacts DEF Kinds
    <3>2. CASE start(list)
        BY <2>2, <3>1, <3>2, CommandTyped DEF start
    <3>3. CASE updateBlocklist(list)
        BY <2>2, <3>1, <3>3, CommandTyped DEF updateBlocklist
    <3> QED
        BY <1>1, <3>2, <3>3
<1>2. CASE stop
  <2>1. [wanted EXCEPT !.on = FALSE] \in [on : BOOLEAN, domains : SUBSET Domains]
    BY <1>0
  <2> QED
    BY <1>2, <2>1, MessageFacts, CommandTyped DEF stop, Kinds
<1>3. CASE requestPermission
    BY <1>3 DEF requestPermission, TypeOK, fields, world, history
<1>4. CASE MainStep
    BY <1>4, MainStepTyped
<1>5. CASE StopOnBinder
  <2> PICK next \in {"join", "close", "settle"} :
          /\ binder' = [binder EXCEPT !.at = next, !.joins = workerThread]
          /\ binder.current => StopStep(binder.at, binder.joins, next)
          /\ ~binder.current => UNCHANGED <<fields, late>>
    BY <1>5 DEF StopOnBinder
  <2>1. binder' \in BinderRecord
    BY <1>0 DEF BinderRecord, TypeOK
  <2>2. /\ running' \in BOOLEAN /\ late' \in BOOLEAN
        /\ {tunInterface', workerThread'} \cup open' \cup ours' \subseteq Nat
    BY StopStepTyped DEF fields, TypeOK
  <2> QED
    BY <1>5, <2>1, <2>2 DEF StopOnBinder, TypeOK, BinderRecord, android, world
<1>6. CASE RevokeSettles
  <2>1. queue' \in Seq(Messages)
    <3>1. queue' = queue \/ queue' = Append(queue, Message("DESTROY", {}))
        BY <1>6 DEF RevokeSettles, stopSelf
    <3>2. queue \in Seq(Messages) /\ Message("DESTROY", {}) \in Messages
        BY MessageFacts DEF TypeOK, Kinds
    <3> QED
        BY <3>1, <3>2
  <2> QED
    BY <1>0, <1>6, <2>1
    DEF RevokeSettles, TypeOK, BinderRecord, android, fields, world, history
<1>7. ASSUME NEW w \in Workers, WorkerStep(w) PROVE TypeOK'
  <2>1. CASE LookFurther(w)
    <3>1. worker' \in [Workers -> WorkerRecord]
        BY <2>1, FurtherTyped
    <3> QED
        BY <2>1, <3>1 DEF LookFurther, WorkerUnchanged, TypeOK, WorkerRecord, android, fields,
               world, history
  <2>2. CASE ~LookFurther(w)
    BY <1>7, <2>2, GotoTyped DEF WorkerStep, EndLoop, Rewrite, Sinkhole, Forward
  <2> QED
    BY <2>1, <2>2
<1>8. ASSUME NEW w \in Workers, NEW q \in Queries, ReadPacket(w, q) PROVE TypeOK'
    BY <1>8, GotoTyped DEF ReadPacket
<1>9. CASE Revoke
  <2>1. binder' \in BinderRecord
    BY <1>0, <1>9 DEF Revoke, BinderRecord
  <2>2. disturbed' \subseteq disturbed \cup {"revoke", "raced"} /\ revokes' \in Nat
    BY <1>9 DEF Revoke, TypeOK
  <2>3. UNCHANGED <<alive, booting, sticky, queue, main, service, fields, blockedDomains,
                    worker, currentStatus, saved, starts, commands, kills, reboots, wanted,
                    handed, late>>
    BY <1>9 DEF Revoke
  <2> QED
    <3>1. {alive', booting', service', running', sticky', late'} \subseteq BOOLEAN
        BY <2>3 DEF TypeOK, fields
    <3>2. granted' \in BOOLEAN
        BY <1>9 DEF Revoke
    <3> QED
        BY <2>1, <2>2, <2>3, <3>1, <3>2 DEF TypeOK, BinderRecord, fields
<1>10. CASE Kill
  <2>1. kills' \in Nat /\ sticky' \in BOOLEAN /\ disturbed' = disturbed \cup {"kill"}
        /\ UNCHANGED <<booting, reboots>> /\ Gone
    BY <1>10 DEF Kill, TypeOK
  <2> QED
    BY <2>1, GoneTyped DEF TypeOK, MainRecord, BinderRecord, WorkerRecord, Kinds
<1>11. CASE Reboot
  <2>1. reboots' \in Nat /\ UNCHANGED kills /\ Gone
    BY <1>11 DEF Reboot, TypeOK
  <2>2. booting' \in BOOLEAN /\ sticky' \in BOOLEAN
    BY <1>11 DEF Reboot
  <2>3. disturbed' \subseteq disturbed \cup {"cut"}
    BY <1>11 DEF Reboot
  <2> QED
    BY <2>1, <2>2, <2>3, GoneTyped DEF TypeOK, MainRecord, BinderRecord, WorkerRecord, Kinds
<1>12. CASE StickyRestart
  <2>1. queue' \in Seq(Messages)
    BY <1>12, QueueFacts, MessageFacts DEF StickyRestart, Kinds
  <2>2. {alive', booting', service', running', granted', sticky', late'} \subseteq BOOLEAN
    BY <1>12 DEF StickyRestart, TypeOK, fields, history
  <2> QED
    BY <1>12, <2>1, <2>2 DEF StickyRestart, TypeOK, fields, world, history
<1>13. CASE OpenApp
    BY <1>13 DEF OpenApp, TypeOK, fields, world, history
<1>14. CASE BootCompleted
  <2>1. queue' \in Seq(Messages)
    BY <1>14, MessageFacts DEF BootCompleted, Kinds, TypeOK
  <2>2. {alive', booting', service', running', granted', sticky', late'} \subseteq BOOLEAN
    BY <1>14 DEF BootCompleted, TypeOK, fields, history
  <2> QED
    BY <1>14, <2>1, <2>2 DEF BootCompleted, TypeOK, fields, world, history
<1>15. CASE UNCHANGED vars
    BY <1>15 DEF vars, TypeOK, android, fields, world, history
<1> QED
    BY <1>1, <1>2, <1>3, <1>4, <1>5, <1>6, <1>7, <1>8, <1>9, <1>10, <1>11, <1>12, <1>13, <1>14,
       <1>15
    DEF Next, BinderStep

\* The fields of the service, the threads and what is saved are of their kinds
\* (BlockerVpnService.kt).
THEOREM TypeCorrect == Spec => []TypeOK
<1>1. Init => TypeOK
    BY InitiallyTyped
<1>2. TypeOK /\ [Next]_vars => TypeOK'
    BY TypeStep
<1> QED
    BY <1>1, <1>2, PTL DEF Spec

-----------------------------------------------------------------------------
(* Leaks.  While an instance has a packet thread, or is about to start     *)
(* one, its list holds what was handed over last, unless it is being       *)
(* filled.  A lookup that has met no replacement so far has looked into    *)
(* this list alone.                                                        *)

Listed == main.at = "fill" \/ handed \subseteq blockedDomains

\* What is still to be added makes the list that is handed over.
Filling == main.at = "fill" => main.list \subseteq blockedDomains \cup main.todo

ListHeld ==
    /\ TypeOK /\ Filling
    /\ ours # {} \/ main.at \in {"establish", "launch", "announce", "thread"} => Listed

\* A lookup has names left to look for.
Inside(w) ==
    worker[w].at = "handling" =>
        worker[w].query \in Queries /\ worker[w].seen < Len(worker[w].query)

\* One that has begun, and has met no replacement, has missed every name so far in
\* the list as it is.
Walked(w) ==
    worker[w].at = "handling" /\ worker[w].seen > 0 /\ ~worker[w].met =>
        /\ main.at # "fill"
        /\ \A i \in 1 .. worker[w].seen : worker[w].query[i] \notin blockedDomains

WalksHeld == \A w \in Workers : Inside(w) /\ (w \in ours => Walked(w))

\* A step that leaves the list alone and brings nothing closer to a packet thread.
LEMMA ListAlone ==
    ASSUME ListHeld, TypeOK', UNCHANGED <<ours, handed, blockedDomains>>,
           main' = main \/ main'.at # "fill",
           \/ main'.at = main.at
           \/ main.at # "fill" /\ main'.at \notin {"establish", "launch", "announce", "thread"}
           \/ /\ main.at \in {"establish", "launch", "announce", "thread"}
              /\ main'.at \in {"establish", "launch", "announce", "thread"}
    PROVE  ListHeld'
    BY DEF ListHeld, Listed, Filling

LEMMA MainStepListHeld ==
    ASSUME ListHeld, TypeOK', MainStep
    PROVE  ListHeld'
<1>0. /\ main \in MainRecord /\ TypeOK
      /\ \A at, kind, list : At(at, kind, list).at = at /\ At(at, kind, list).kind = kind
      /\ MainIdle.at = "idle"
    BY TypedParts DEF At, MainIdle, ListHeld
<1>1. ASSUME NEW kind \in {"START", "UPDATE"}, ReplaceList(kind) PROVE ListHeld'
  <2>1. main'.at = "fill" /\ main'.list = main'.todo
    BY <1>1 DEF ReplaceList, At
  <2> QED
    BY <2>1 DEF ListHeld, Listed, Filling
<1>2. CASE BeginStop
    BY <1>0, <1>2, ListAlone DEF BeginStop, Take, fields
<1>3. CASE BeginDestroy
    BY <1>0, <1>3, ListAlone DEF BeginDestroy, Take, fields
<1>4. CASE RestartedWithoutIntent
    BY <1>0, <1>4, ListAlone DEF RestartedWithoutIntent, Take, fields
<1>5. CASE AddDomain
  <2> PICK d \in main.todo : /\ blockedDomains' = blockedDomains \cup {d}
                             /\ main' = [main EXCEPT !.todo = @ \ {d}]
    BY <1>5 DEF AddDomain
  <2>1. main'.at = "fill" /\ main'.list = main.list /\ main'.todo = main.todo \ {d}
    BY <1>0, <1>5 DEF AddDomain, MainRecord
  <2>2. main.list \subseteq blockedDomains \cup main.todo
    BY <1>5 DEF AddDomain, ListHeld, Filling
  <2> QED
    BY <2>1, <2>2 DEF ListHeld, Listed, Filling
<1>6. CASE ListFilled
  <2>1. /\ handed' = main.list /\ UNCHANGED blockedDomains /\ main'.at # "fill"
        /\ main.list \subseteq blockedDomains
    BY <1>0, <1>6 DEF ListFilled, ListHeld, Filling
  <2> QED
    BY <2>1 DEF ListHeld, Listed, Filling
<1>7. CASE AlreadyRunning
    BY <1>0, <1>7, ListAlone DEF AlreadyRunning, fields
<1>8. CASE NotEstablished
    BY <1>0, <1>8, ListAlone DEF NotEstablished, fields
<1>9. CASE Establish
    BY <1>0, <1>9, ListAlone DEF Establish
<1>10. CASE SetRunning
  <2>1. main'.at = "announce"
    BY <1>0, <1>10 DEF SetRunning, MainRecord
  <2> QED
    BY <1>10, <2>1, ListAlone DEF SetRunning
<1>11. CASE AnnounceActive
  <2>1. main'.at = "thread"
    BY <1>0, <1>11 DEF AnnounceActive, MainRecord
  <2> QED
    BY <1>11, <2>1, ListAlone DEF AnnounceActive, fields
<1>12. CASE LaunchWorker
  <2>1. /\ handed \subseteq blockedDomains /\ UNCHANGED <<handed, blockedDomains>>
        /\ main'.at # "fill"
    BY <1>0, <1>12 DEF LaunchWorker, ListHeld, Listed
  <2> QED
    BY <2>1 DEF ListHeld, Listed, Filling
<1>13. CASE StopOnMain
  <2> PICK next \in {"join", "close", "settle"} :
          /\ StopStep(main.at, main.joins, next)
          /\ main' = [main EXCEPT !.at = next, !.joins = workerThread]
    BY <1>13 DEF StopOnMain
  <2>1. main'.at = next /\ main.at \in {"halt", "join", "close"} /\ UNCHANGED ours
    BY <1>0, StopStepTyped DEF MainRecord, StopStep
  <2> QED
    BY <1>13, <2>1, ListAlone DEF StopOnMain
<1>14. CASE StopSettles
    BY <1>0, <1>14, ListAlone DEF StopSettles, fields
<1>15. CASE Destroyed
    BY <1>0, <1>15 DEF Destroyed, ListHeld, Filling
<1>16. CASE persistState
    BY <1>0, <1>16, ListAlone DEF persistState, fields, history
<1> QED
    BY <1>1, <1>2, <1>3, <1>4, <1>5, <1>6, <1>7, <1>8, <1>9, <1>10, <1>11, <1>12, <1>13, <1>14,
       <1>15, <1>16
    DEF MainStep, BeginStart, BeginUpdate

LEMMA ListHeldStep ==
    ASSUME ListHeld, [Next]_vars
    PROVE  ListHeld'
<1>0. TypeOK /\ TypeOK'
    BY TypeStep DEF ListHeld
<1>1. CASE MainStep
    BY <1>0, <1>1, MainStepListHeld
<1>2. CASE StopOnBinder
  <2>1. UNCHANGED ours
    BY <1>0, <1>2, StopStepTyped DEF StopOnBinder, fields
  <2> QED
    BY <1>0, <1>2, <2>1, ListAlone DEF StopOnBinder
<1>3. CASE Kill \/ Reboot
  <2>1. ours' = {} /\ main' = MainIdle /\ MainIdle.at = "idle"
    BY <1>3 DEF Kill, Reboot, Gone, MainIdle, At
  <2> QED
    BY <1>0, <2>1 DEF ListHeld, Filling
<1>4. CASE ~(MainStep \/ StopOnBinder \/ Kill \/ Reboot)
  <2>1. UNCHANGED <<ours, handed, blockedDomains, main>>
    BY <1>4 DEF Next, vars, start, updateBlocklist, stop, Command, requestPermission,
           BinderStep, RevokeSettles, WorkerStep, EndLoop, Rewrite, Sinkhole, LookFurther,
           Forward, ReadPacket, WorkerUnchanged, Revoke, StickyRestart, OpenApp, BootCompleted,
           fields, history
  <2> QED
    BY <1>0, <2>1, ListAlone
<1> QED
    BY <1>1, <1>2, <1>3, <1>4

\* A step that neither replaces the list nor looks into it, for one of the threads.
LEMMA WalkAlone ==
    ASSUME TypeOK, NEW w \in Workers, Inside(w), w \in ours => Walked(w),
           worker'[w] = worker[w] \/ worker'[w].at # "handling",
           w \in ours' => w \in ours \/ worker'[w].at # "handling",
           \/ blockedDomains' = blockedDomains /\ (main'.at = "fill" => main.at = "fill")
           \/ main.at = "fill"
           \/ ours' = {}
    PROVE  Inside(w)' /\ (w \in ours' => Walked(w)')
    BY DEF Inside, Walked

LEMMA LookFurtherWalked ==
    ASSUME ListHeld, WalksHeld, NEW w \in Workers, LookFurther(w)
    PROVE  WalksHeld'
<1>1. /\ TypeOK /\ worker[w] \in WorkerRecord
      /\ UNCHANGED <<blockedDomains, main, ours>>
    BY TypedParts DEF ListHeld, LookFurther, WorkerUnchanged, fields
<1>2. ASSUME NEW v \in Workers \ {w}
      PROVE  Inside(v)' /\ (v \in ours' => Walked(v)')
    BY <1>1, <1>2, FurtherTyped, WalkAlone DEF WalksHeld
<1> DEFINE q == worker[w].query
           n == worker[w].seen
<1>3. /\ worker[w].at = "handling" /\ q \in Queries /\ n < Len(q) /\ n \in Nat /\ n + 1 # Len(q)
      /\ w \in ours => q[n + 1] \notin blockedDomains
    BY <1>1 DEF LookFurther, Misses, LooksFor, AtLastName, WalksHeld, Inside, WorkerRecord
<1>4. /\ worker'[w].at = "handling" /\ worker'[w].query = q /\ worker'[w].seen = n + 1
      /\ worker'[w].met = MetReplacing(w)
    BY <1>1, <1>3, FurtherTyped
<1>5. Inside(w)'
  <2>1. Len(q) \in Nat
    BY <1>3, QueriesAssumption
  <2> QED
    BY <1>3, <1>4, <2>1 DEF Inside
<1>6. ASSUME w \in ours, ~MetReplacing(w)
      PROVE  main.at # "fill" /\ \A i \in 1 .. n : q[i] \notin blockedDomains
  <2>1. CASE n = 0
    BY <1>6, <2>1 DEF MetReplacing
  <2>2. CASE n > 0
    BY <1>3, <1>6, <2>2 DEF MetReplacing, WalksHeld, Walked
  <2> QED
    BY <1>3, <2>1, <2>2
<1>7. w \in ours' => Walked(w)'
  <2> SUFFICES ASSUME w \in ours, ~MetReplacing(w)
               PROVE  main.at # "fill" /\ \A i \in 1 .. n + 1 : q[i] \notin blockedDomains
    BY <1>1, <1>4 DEF Walked
  <2>1. \A i \in 1 .. n + 1 : i \in 1 .. n \/ i = n + 1
    BY <1>3
  <2> QED
    BY <1>3, <1>6, <2>1
<1> QED
    BY <1>2, <1>5, <1>7 DEF WalksHeld

LEMMA WalksHeldStep ==
    ASSUME ListHeld, WalksHeld, [Next]_vars
    PROVE  WalksHeld'
<1>0. /\ TypeOK /\ main \in MainRecord /\ worker \in [Workers -> WorkerRecord]
      /\ \A at, kind, list : At(at, kind, list).at = at
      /\ MainIdle.at = "idle"
    BY TypedParts DEF At, MainIdle, ListHeld
<1>1. ASSUME NEW kind \in {"START", "UPDATE"}, ReplaceList(kind) PROVE WalksHeld'
  <2> SUFFICES ASSUME NEW w \in Workers PROVE Inside(w)' /\ (w \in ours' => Walked(w)')
    BY DEF WalksHeld
  <2>1. /\ worker'[w].at = worker[w].at /\ worker'[w].query = worker[w].query
        /\ worker'[w].seen = worker[w].seen
        /\ worker'[w].met = (worker[w].met \/ LookedMeanwhile(w))
    BY <1>0, <1>1, ReplaceTyped
  <2> QED
    BY <2>1 DEF WalksHeld, Inside, Walked, LookedMeanwhile
<1>2. CASE LaunchWorker
  <2>1. /\ blockedDomains' = blockedDomains /\ main'.at # "fill" /\ ours' = ours \cup {starts}
        /\ worker' = [worker EXCEPT ![starts].at = "loop"]
    BY <1>0, <1>2 DEF LaunchWorker
  <2>2. ASSUME NEW w \in Workers
        PROVE  /\ worker'[w] = worker[w] \/ worker'[w].at = "loop"
               /\ w \in ours' => w \in ours \/ worker'[w].at = "loop"
    BY <1>0, <2>1 DEF WorkerRecord
  <2> QED
    BY <1>0, <2>1, <2>2, WalkAlone DEF WalksHeld
<1>3. CASE AddDomain
  <2>1. main.at = "fill" /\ UNCHANGED <<worker, ours>>
    BY <1>3 DEF AddDomain, MainUnchanged, fields
  <2> QED
    BY <1>0, <2>1, WalkAlone DEF WalksHeld
<1>4. CASE Destroyed
  <2>1. ours' = {} /\ worker' = worker
    BY <1>4 DEF Destroyed
  <2> QED
    BY <1>0, <2>1, WalkAlone DEF WalksHeld
<1>5. CASE MainStep /\ ~(BeginStart \/ BeginUpdate \/ LaunchWorker \/ AddDomain \/ Destroyed)
  <2>1. CASE StopOnMain
    <3>1. /\ UNCHANGED <<worker, blockedDomains, ours>> /\ main'.at # "fill"
        BY <1>0, <2>1, StopStepTyped DEF StopOnMain, MainRecord
    <3> QED
        BY <1>0, <3>1, WalkAlone DEF WalksHeld
  <2>2. CASE SetRunning \/ AnnounceActive
    <3>1. UNCHANGED <<worker, blockedDomains, ours>> /\ main'.at # "fill"
        BY <1>0, <2>2 DEF SetRunning, AnnounceActive, MainRecord, fields
    <3> QED
        BY <1>0, <3>1, WalkAlone DEF WalksHeld
  <2>3. CASE ~(StopOnMain \/ SetRunning \/ AnnounceActive)
    <3>1. UNCHANGED <<worker, blockedDomains, ours>> /\ main'.at # "fill"
        BY <1>0, <1>5, <2>3 DEF MainStep, BeginStop, BeginDestroy, RestartedWithoutIntent,
               ListFilled, AlreadyRunning, NotEstablished, Establish, StopSettles,
               persistState, MainUnchanged, fields
    <3> QED
        BY <1>0, <3>1, WalkAlone DEF WalksHeld
  <2> QED
    BY <2>1, <2>2, <2>3
<1>6. CASE StopOnBinder
  <2>1. UNCHANGED <<worker, blockedDomains, ours, main>>
    BY <1>0, <1>6, StopStepTyped DEF StopOnBinder, fields
  <2> QED
    BY <1>0, <2>1, WalkAlone DEF WalksHeld
<1>7. CASE Kill \/ Reboot
  <2>1. /\ ours' = {}
        /\ worker' = [w \in Workers |-> IF Loops(w) THEN Thread("gone", <<>>) ELSE worker[w]]
    BY <1>7 DEF Kill, Reboot, Gone
  <2>2. \A w \in Workers : worker'[w] = worker[w] \/ worker'[w].at # "handling"
    BY <2>1 DEF Thread
  <2> QED
    BY <1>0, <2>1, <2>2, WalkAlone DEF WalksHeld
<1>8. ASSUME NEW w \in Workers, LookFurther(w) PROVE WalksHeld'
    BY <1>8, LookFurtherWalked
<1>9. ASSUME NEW w \in Workers,
             (WorkerStep(w) /\ ~LookFurther(w)) \/ \E q \in Queries : ReadPacket(w, q)
      PROVE  WalksHeld'
  <2>1. /\ UNCHANGED <<blockedDomains, main, ours>>
        /\ \/ \E stage \in {"loop", "gone"} : worker' = [worker EXCEPT ![w] = Thread(stage, <<>>)]
           \/ \E q \in Queries : worker' = [worker EXCEPT ![w] = Thread("handling", q)]
    BY <1>9 DEF WorkerStep, EndLoop, Rewrite, Sinkhole, Forward, ReadPacket, Goto,
           WorkerUnchanged, fields
  <2>2. \A v \in Workers \ {w} : worker'[v] = worker[v]
    BY <1>0, <2>1
  <2>3. CASE \E stage \in {"loop", "gone"} : worker' = [worker EXCEPT ![w] = Thread(stage, <<>>)]
    <3>1. worker'[w].at # "handling"
        BY <1>0, <2>3 DEF Thread
    <3> QED
        BY <1>0, <2>1, <2>2, <3>1, WalkAlone DEF WalksHeld
  <2>4. ASSUME NEW q \in Queries, worker' = [worker EXCEPT ![w] = Thread("handling", q)]
        PROVE  WalksHeld'
    <3>1. worker'[w].query = q /\ worker'[w].seen = 0
        BY <1>0, <2>4 DEF Thread
    <3>2. 0 < Len(q)
        BY QueriesAssumption
    <3>3. Inside(w)' /\ Walked(w)'
        BY <3>1, <3>2 DEF Inside, Walked
    <3>4. \A v \in Workers \ {w} : Inside(v)' /\ (v \in ours' => Walked(v)')
        BY <1>0, <2>1, <2>2, WalkAlone DEF WalksHeld
    <3> QED
        BY <3>3, <3>4 DEF WalksHeld
  <2> QED
    BY <2>1, <2>3, <2>4
<1>10. CASE ~(\/ MainStep \/ StopOnBinder \/ Kill \/ Reboot
              \/ \E w \in Workers : WorkerStep(w) \/ \E q \in Queries : ReadPacket(w, q))
  <2>1. UNCHANGED <<ours, blockedDomains, main, worker>>
    BY <1>10 DEF Next, vars, start, updateBlocklist, stop, Command, requestPermission,
           BinderStep, RevokeSettles, Revoke, StickyRestart, OpenApp, BootCompleted, fields
  <2> QED
    BY <1>0, <2>1, WalkAlone DEF WalksHeld
<1> QED
    BY <1>1, <1>2, <1>3, <1>4, <1>5, <1>6, <1>7, <1>8, <1>9, <1>10 DEF BeginStart, BeginUpdate

\* A query that the list last handed over blocks goes through only if the list was
\* being replaced between the first look that was taken for it and the last, for any
\* lists and queries and however the threads interleave (onStartCommand, handlePacket,
\* isBlocked).
THEOREM OnlyTheReplacingLeaks == Spec => LeaksOnlyWhileReplaced
<1>1. Init => ListHeld /\ WalksHeld
  <2> SUFFICES ASSUME Init PROVE ListHeld /\ WalksHeld
    OBVIOUS
  <2>1. ours = {} /\ main.at = "idle" /\ \A w \in Workers : worker[w].at = "unborn"
    BY DEF Init, MainIdle, At, Unborn, Thread
  <2> QED
    BY <2>1, InitiallyTyped DEF ListHeld, Filling, WalksHeld, Inside
<1>2. ListHeld /\ WalksHeld /\ [Next]_vars => ListHeld' /\ WalksHeld'
    BY ListHeldStep, WalksHeldStep
<1>3. ListHeld /\ WalksHeld /\ [Next]_vars =>
          [\A w \in Workers : Forward(w) /\ w \in ours =>
              \/ MetReplacing(w)
              \/ \A i \in 1..Len(worker[w].query) : worker[w].query[i] \notin handed]_vars
  <2> SUFFICES ASSUME ListHeld, WalksHeld, NEW w \in Workers, Forward(w), w \in ours,
                      ~MetReplacing(w), NEW i \in 1..Len(worker[w].query)
               PROVE  worker[w].query[i] \notin handed
    OBVIOUS
  <2> DEFINE q == worker[w].query
             n == worker[w].seen
  <2>1. /\ worker[w].at = "handling" /\ n \in Nat /\ n + 1 = Len(q)
        /\ q[n + 1] \notin blockedDomains
    BY TypedParts DEF Forward, Misses, LooksFor, AtLastName, WorkerRecord, ListHeld
  <2>2. main.at # "fill" /\ (i \in 1 .. n => q[i] \notin blockedDomains)
    <3>1. CASE n = 0
        BY <3>1 DEF MetReplacing
    <3>2. CASE n > 0
        BY <2>1, <3>2 DEF MetReplacing, WalksHeld, Walked
    <3> QED
        BY <2>1, <3>1, <3>2
  <2>3. i \in 1 .. n \/ i = n + 1
    BY <2>1
  <2>4. handed \subseteq blockedDomains
    BY <2>2 DEF ListHeld, Listed
  <2> QED
    BY <2>1, <2>2, <2>3, <2>4
<1> QED
    BY <1>1, <1>2, <1>3, PTL DEF Spec, LeaksOnlyWhileReplaced

-----------------------------------------------------------------------------
(* Status.  A status that is not the truth is being put right: by a start  *)
(* that has still to announce itself, or by a stop on one of the threads   *)
(* that has still to settle, and until it has nothing runs.                *)

Ending == {"join", "close", "settle"}
Truth == currentStatus = "ACTIVE" <=> running

StatusHeld ==
    /\ TypeOK
    /\ binder.at = "idle" => binder = BinderIdle
    /\ "raced" \notin disturbed =>
          /\ main.at = "announce" => running /\ binder = BinderIdle
          /\ main.at \in Ending => ~running
          /\ binder.at \in Ending \/ ~binder.current => ~running
          /\ main.at = "announce" \/ main.at \in Ending \/ binder.at \in Ending \/ Truth

\* A step that changes neither what runs nor what is told.
LEMMA StatusAlone ==
    ASSUME StatusHeld, TypeOK', UNCHANGED <<running, currentStatus, binder>>,
           disturbed \subseteq disturbed',
           main'.at \notin Ending \cup {"announce"} \/ main'.at = main.at,
           main.at \notin Ending \cup {"announce"} \/ main'.at = main.at
    PROVE  StatusHeld'
    BY DEF StatusHeld, Truth

LEMMA StopStepStages ==
    ASSUME NEW at, NEW joins, NEW next, StopStep(at, joins, next)
    PROVE  /\ next \in Ending
           /\ (at = "halt" /\ ~running') \/ (at \in Ending /\ UNCHANGED running)
<1>1. CASE at = "halt" /\ next = "join" /\ Halt
    BY <1>1 DEF Halt, Ending
<1>2. CASE at = "join" /\ next = "close" /\ JoinWorker(joins)
    BY <1>2 DEF JoinWorker, Ending
<1>3. CASE at = "close" /\ next = "settle" /\ Close
    BY <1>3 DEF Close, Ending
<1> QED
    BY <1>1, <1>2, <1>3 DEF StopStep

LEMMA MainStepStatusHeld ==
    ASSUME StatusHeld, TypeOK', MainStep
    PROVE  StatusHeld'
<1>0. /\ main \in MainRecord /\ TypeOK
      /\ \A at, kind, list : At(at, kind, list).at = at
      /\ MainIdle.at = "idle" /\ BinderIdle.at = "idle" /\ BinderIdle.current
    BY TypedParts DEF At, MainIdle, BinderIdle, StatusHeld
<1>1. ASSUME NEW kind \in {"START", "UPDATE"}, ReplaceList(kind) PROVE StatusHeld'
    BY <1>0, <1>1, StatusAlone DEF ReplaceList, Take, fields, history, Ending
<1>2. CASE BeginStop
    BY <1>0, <1>2, StatusAlone DEF BeginStop, Take, MainUnchanged, fields, Ending
<1>3. CASE BeginDestroy
    BY <1>0, <1>3, StatusAlone DEF BeginDestroy, Take, fields, Ending
<1>4. CASE RestartedWithoutIntent
    BY <1>0, <1>4, StatusAlone DEF RestartedWithoutIntent, Take, MainUnchanged, fields, Ending
<1>5. CASE AddDomain
  <2>1. main'.at = main.at
    BY <1>0, <1>5 DEF AddDomain, MainRecord
  <2> QED
    BY <1>5, <2>1, StatusAlone DEF AddDomain, MainUnchanged, fields
<1>6. CASE ListFilled
  <2>1. main'.at \in {"establish", "persist"} /\ main.at = "fill"
    BY <1>0, <1>6 DEF ListFilled
  <2> QED
    BY <1>6, <2>1, StatusAlone DEF ListFilled, MainUnchanged, fields, Ending
<1>7. CASE AlreadyRunning
    BY <1>0, <1>7, StatusAlone DEF AlreadyRunning, MainUnchanged, fields, Ending
<1>8. CASE NotEstablished
    BY <1>0, <1>8 DEF NotEstablished, StatusHeld, Truth, fields, Ending
<1>9. CASE Establish
    BY <1>0, <1>9, StatusAlone DEF Establish, MainUnchanged, Ending
<1>10. CASE SetRunning
  <2>1. main'.at = "announce" /\ running' = TRUE /\ UNCHANGED <<binder, currentStatus>>
    BY <1>0, <1>10 DEF SetRunning, MainRecord
  <2>2. "raced" \notin disturbed' => binder = BinderIdle /\ "raced" \notin disturbed
    BY <1>10 DEF SetRunning, Races
  <2> QED
    BY <1>0, <2>1, <2>2 DEF StatusHeld, Ending
<1>11. CASE AnnounceActive
  <2>1. /\ main'.at = "thread" /\ main.at = "announce" /\ currentStatus' = "ACTIVE"
        /\ UNCHANGED <<binder, running>>
    BY <1>0, <1>11 DEF AnnounceActive, MainRecord, fields
  <2>2. "raced" \notin disturbed' => "raced" \notin disturbed
    BY <1>11 DEF AnnounceActive, Races
  <2> QED
    BY <1>0, <2>1, <2>2 DEF StatusHeld, Ending, Truth
<1>12. CASE LaunchWorker
  <2>1. disturbed \subseteq disturbed'
    BY <1>12 DEF LaunchWorker, Races
  <2> QED
    BY <1>0, <1>12, <2>1, StatusAlone DEF LaunchWorker, Ending
<1>13. CASE StopOnMain
  <2> PICK next \in {"join", "close", "settle"} :
          /\ StopStep(main.at, main.joins, next)
          /\ main' = [main EXCEPT !.at = next, !.joins = workerThread]
    BY <1>13 DEF StopOnMain
  <2>1. main'.at \in Ending /\ UNCHANGED <<binder, currentStatus, disturbed>>
    BY <1>0, <1>13, StopStepStages DEF MainRecord, StopOnMain
  <2>2. ~running' \/ (main.at \in Ending /\ UNCHANGED running)
    BY StopStepStages
  <2> QED
    BY <2>1, <2>2 DEF StatusHeld, Ending
<1>14. CASE StopSettles
  <2>1. /\ main'.at = "persist" /\ main.at \in Ending /\ currentStatus' = "DISABLED"
        /\ UNCHANGED <<binder, running, disturbed>>
    BY <1>0, <1>14 DEF StopSettles, MainUnchanged, fields, Ending
  <2> QED
    BY <2>1 DEF StatusHeld, Truth, Ending
<1>15. CASE Destroyed
  <2>1. /\ main'.at = "idle" /\ main.at \in Ending /\ currentStatus' = "DISABLED"
        /\ UNCHANGED <<running, disturbed>> /\ binder \in BinderRecord
        /\ binder' = IF binder = BinderIdle THEN binder ELSE [binder EXCEPT !.current = FALSE]
    BY <1>0, <1>15, TypedParts DEF Destroyed, Ending, history
  <2>2. binder'.at = binder.at
    BY <2>1 DEF BinderRecord
  <2> QED
    BY <2>1, <2>2 DEF StatusHeld, Truth, Ending
<1>16. CASE persistState
    BY <1>0, <1>16, StatusAlone DEF persistState, fields, history, Ending
<1> QED
    BY <1>1, <1>2, <1>3, <1>4, <1>5, <1>6, <1>7, <1>8, <1>9, <1>10, <1>11, <1>12, <1>13, <1>14,
       <1>15, <1>16
    DEF MainStep, BeginStart, BeginUpdate

LEMMA StatusHeldStep ==
    ASSUME StatusHeld, [Next]_vars
    PROVE  StatusHeld'
<1>0. /\ TypeOK /\ TypeOK' /\ binder \in BinderRecord
      /\ MainIdle.at = "idle" /\ BinderIdle.at = "idle" /\ BinderIdle.current
    BY TypeStep, TypedParts DEF StatusHeld, MainIdle, At, BinderIdle
<1>1. CASE MainStep
    BY <1>0, <1>1, MainStepStatusHeld
<1>2. CASE StopOnBinder
  <2> PICK next \in {"join", "close", "settle"} :
          /\ binder' = [binder EXCEPT !.at = next, !.joins = workerThread]
          /\ binder.current => StopStep(binder.at, binder.joins, next)
          /\ ~binder.current => UNCHANGED <<fields, late>>
    BY <1>2 DEF StopOnBinder
  <2>1. binder'.at = next /\ next \in Ending /\ binder'.current = binder.current
    BY <1>0 DEF BinderRecord, Ending
  <2>2. UNCHANGED <<main, currentStatus, disturbed>>
    BY <1>2 DEF StopOnBinder
  <2>3. "raced" \notin disturbed => ~running'
    <3>1. CASE binder.current
        BY <3>1, StopStepStages DEF StatusHeld
    <3>2. CASE ~binder.current
        BY <3>2 DEF StatusHeld, fields
    <3> QED
        BY <3>1, <3>2
  <2>4. binder.at # "idle"
    BY <1>0, <1>2 DEF StopOnBinder, StopStep, StatusHeld
  <2> QED
    BY <1>0, <2>1, <2>2, <2>3, <2>4 DEF StatusHeld, Ending
<1>3. CASE RevokeSettles
  <2>1. /\ binder' = BinderIdle /\ currentStatus' = "DISABLED" /\ binder.at \in Ending
        /\ UNCHANGED <<main, running, disturbed>>
    BY <1>3 DEF RevokeSettles, fields, history, Ending
  <2> QED
    BY <1>0, <2>1 DEF StatusHeld, Truth, Ending
<1>4. CASE Revoke
  <2>1. /\ UNCHANGED <<main, running, currentStatus>> /\ disturbed \subseteq disturbed'
        /\ "raced" \notin disturbed' => main.at # "announce"
        /\ binder' = binder \/ (binder' = [binder EXCEPT !.at = "halt"] /\ binder = BinderIdle)
    BY <1>4 DEF Revoke, fields
  <2>2. binder' = binder \/ (binder'.at = "halt" /\ binder'.current /\ binder.at \notin Ending)
    BY <1>0, <2>1 DEF BinderRecord, Ending
  <2> QED
    BY <1>0, <2>1, <2>2 DEF StatusHeld, Truth, Ending
<1>5. CASE Kill \/ Reboot
  <2>1. /\ main' = MainIdle /\ binder' = BinderIdle /\ running' = FALSE
        /\ currentStatus' = "DISABLED"
    BY <1>5 DEF Kill, Reboot, Gone
  <2> QED
    BY <1>0, <2>1 DEF StatusHeld, Truth, Ending
<1>6. CASE ~(MainStep \/ StopOnBinder \/ RevokeSettles \/ Revoke \/ Kill \/ Reboot)
  <2>1. UNCHANGED <<running, currentStatus, binder, main, disturbed>>
    BY <1>6 DEF Next, vars, start, updateBlocklist, stop, Command, requestPermission,
           BinderStep, WorkerStep, EndLoop, Rewrite, Sinkhole, LookFurther, Forward, ReadPacket,
           WorkerUnchanged, StickyRestart, OpenApp, BootCompleted, fields, history
  <2> QED
    BY <1>0, <2>1, StatusAlone
<1> QED
    BY <1>1, <1>2, <1>3, <1>4, <1>5, <1>6

\* When the threads have come to rest, the status that MainActivity is told is the
\* truth, through any number of kills, restarts and withdrawals, unless a start met
\* onRevoke (startVpn, stopVpn, onRevoke, onDestroy).
THEOREM StatusComesTrue == Spec => []StatusIsTrue
<1>1. Init => StatusHeld
  <2> SUFFICES ASSUME Init PROVE StatusHeld
    OBVIOUS
  <2>1. /\ binder = BinderIdle /\ binder.current /\ binder.at = "idle" /\ main.at = "idle"
        /\ Truth
    BY DEF Init, MainIdle, At, BinderIdle, Truth
  <2> QED
    BY <2>1, InitiallyTyped DEF StatusHeld, Ending
<1>2. StatusHeld /\ [Next]_vars => StatusHeld'
    BY StatusHeldStep
<1>3. StatusHeld => StatusIsTrue
    BY DEF StatusHeld, StatusIsTrue, Quiet, Truth, MainIdle, At, BinderIdle, Ending
<1> QED
    BY <1>1, <1>2, <1>3, PTL DEF Spec

-----------------------------------------------------------------------------
(* Interfaces.  Each one that was established answers a start that was     *)
(* asked for, or that a boot asked for; so Workers has a place for each.   *)

StartsIn(q) == {i \in DOMAIN q : q[i].kind = "START"}
One(p) == IF p THEN 1 ELSE 0
BeingStarted == main.kind = "START" /\ main.at \in {"fill", "establish"}
Due == starts + Cardinality(StartsIn(queue)) + One(BeingStarted) + One(booting)

Counted ==
    /\ Due <= commands + reboots /\ commands <= MaxCommands /\ reboots <= MaxReboots
    /\ main.at = "establish" => main.kind = "START"
    /\ main.at \in {"launch", "announce", "thread"} => starts > 0

LEMMA StartsAreFinite ==
    ASSUME NEW q \in Seq(Messages)
    PROVE  IsFiniteSet(StartsIn(q)) /\ Cardinality(StartsIn(q)) \in Nat
<1>1. StartsIn(q) \subseteq 1 .. Len(q) /\ IsFiniteSet(1 .. Len(q))
    BY FS_Interval DEF StartsIn
<1> QED
    BY <1>1, FS_Subset, FS_CardinalityType

LEMMA StartsAppended ==
    ASSUME NEW q \in Seq(Messages), NEW m \in Messages
    PROVE  Cardinality(StartsIn(Append(q, m))) = Cardinality(StartsIn(q)) + One(m.kind = "START")
<1>1. CASE m.kind = "START"
  <2>1. StartsIn(Append(q, m)) = StartsIn(q) \cup {Len(q) + 1} /\ Len(q) + 1 \notin StartsIn(q)
    BY <1>1 DEF StartsIn
  <2> QED
    BY <1>1, <2>1, StartsAreFinite, FS_AddElement DEF One
<1>2. CASE m.kind # "START"
  <2>1. StartsIn(Append(q, m)) = StartsIn(q)
    BY <1>2 DEF StartsIn
  <2> QED
    BY <1>2, <2>1, StartsAreFinite DEF One
<1> QED
    BY <1>1, <1>2

LEMMA StartsTaken ==
    ASSUME NEW q \in Seq(Messages), q # <<>>
    PROVE  /\ Tail(q) \in Seq(Messages)
           /\ Cardinality(StartsIn(Tail(q))) + One(Head(q).kind = "START")
                  <= Cardinality(StartsIn(q))
<1> DEFINE S == StartsIn(q) \ {1}
           T == StartsIn(Tail(q))
           f == [i \in S |-> i - 1]
<1>1. f \in Surjection(S, T)
  <2>1. \A i \in S : i - 1 \in T
    BY DEF StartsIn
  <2>2. \A j \in T : j + 1 \in S /\ j = (j + 1) - 1
    BY DEF StartsIn
  <2> QED
    BY <2>1, <2>2 DEF Surjection
<1>2. IsFiniteSet(S) /\ Cardinality(T) <= Cardinality(S)
    BY <1>1, StartsAreFinite, FS_RemoveElement, FS_Surjection
<1>3. Cardinality(S) + One(Head(q).kind = "START") = Cardinality(StartsIn(q))
  <2>1. 1 \in StartsIn(q) <=> Head(q).kind = "START"
    BY DEF StartsIn
  <2>2. Cardinality(S) = IF 1 \in StartsIn(q) THEN Cardinality(StartsIn(q)) - 1
                                              ELSE Cardinality(StartsIn(q))
    BY StartsAreFinite, FS_RemoveElement
  <2> QED
    BY <2>1, <2>2, StartsAreFinite DEF One
<1>4. Cardinality(T) \in Nat /\ Cardinality(S) \in Nat /\ Tail(q) \in Seq(Messages)
  <2>1. Tail(q) \in Seq(Messages)
    OBVIOUS
  <2> QED
    BY <1>2, <2>1, StartsAreFinite, FS_CardinalityType
<1>5. Cardinality(StartsIn(Tail(q))) <= Cardinality(S)
    BY <1>2
<1>6. One(Head(q).kind = "START") \in Nat
    BY DEF One
<1>7. QED
  <2> HIDE DEF S, T, f
  <2> QED
    BY <1>3, <1>4, <1>5, <1>6 DEF T

LEMMA NoStarts == Cardinality(StartsIn(<<>>)) = 0
<1>1. StartsIn(<<>>) = {}
    BY DEF StartsIn
<1> QED
    BY <1>1, FS_EmptySet

\* The parts of Due are numbers, before a step and after it.
LEMMA DueParts ==
    ASSUME TypeOK, TypeOK'
    PROVE  /\ {Cardinality(StartsIn(queue)), Cardinality(StartsIn(queue')), starts, starts',
               commands, reboots, MaxCommands, MaxReboots} \subseteq Nat
           /\ {One(BeingStarted), One(BeingStarted'), One(booting), One(booting')} \subseteq 0 .. 1
<1>1. {One(BeingStarted), One(BeingStarted'), One(booting), One(booting')} \subseteq 0 .. 1
    BY DEF One
<1>2. queue \in Seq(Messages) /\ queue' \in Seq(Messages)
    BY DEF TypeOK
<1>3. Cardinality(StartsIn(queue)) \in Nat /\ Cardinality(StartsIn(queue')) \in Nat
    BY <1>2, StartsAreFinite
<1> QED
    BY <1>1, <1>3, BoundsAssumption DEF TypeOK

\* A step that takes up no start, and posts none.
LEMMA CountAlone ==
    ASSUME Counted, TypeOK, TypeOK', UNCHANGED <<starts, commands, reboots, booting>>,
           Cardinality(StartsIn(queue')) <= Cardinality(StartsIn(queue)),
           BeingStarted' => BeingStarted,
           main'.at = "establish" => main'.kind = "START",
           main'.at \in {"launch", "announce", "thread"} =>
               main.at \in {"launch", "announce", "thread"}
    PROVE  Counted'
<1>1. One(BeingStarted') <= One(BeingStarted) /\ One(booting') = One(booting)
    BY DEF One
<1>2. Due' <= Due
    BY <1>1, DueParts DEF Due
<1>3. Due' \in Nat /\ Due \in Nat
    BY DueParts DEF Due
<1> QED
    BY <1>2, <1>3, DueParts DEF Counted

\* What the main thread takes from its queue, and what stopSelf and Android add.
LEMMA QueueOfStarts ==
    ASSUME TypeOK
    PROVE  /\ queue # <<>> => Cardinality(StartsIn(Tail(queue))) <= Cardinality(StartsIn(queue))
           /\ \A kind \in Kinds \ {"START"} :
                 Cardinality(StartsIn(Append(queue, Message(kind, {})))) = Cardinality(StartsIn(queue))
           /\ stopSelf => Cardinality(StartsIn(queue')) = Cardinality(StartsIn(queue))
<1>0. queue \in Seq(Messages)
    BY DEF TypeOK
<1>1. ASSUME queue # <<>>
      PROVE  Cardinality(StartsIn(Tail(queue))) <= Cardinality(StartsIn(queue))
  <2>1. /\ Tail(queue) \in Seq(Messages) /\ One(Head(queue).kind = "START") \in 0 .. 1
        /\ Cardinality(StartsIn(Tail(queue))) + One(Head(queue).kind = "START")
              <= Cardinality(StartsIn(queue))
    BY <1>0, <1>1, StartsTaken DEF One
  <2>2. Cardinality(StartsIn(Tail(queue))) \in Nat /\ Cardinality(StartsIn(queue)) \in Nat
    BY <1>0, <2>1, StartsAreFinite
  <2> QED
    BY <2>1, <2>2
<1>2. ASSUME NEW kind \in Kinds \ {"START"}
      PROVE  Cardinality(StartsIn(Append(queue, Message(kind, {})))) = Cardinality(StartsIn(queue))
  <2>1. Message(kind, {}) \in Messages /\ Message(kind, {}).kind # "START"
    BY MessageFacts DEF Message
  <2>2. One(Message(kind, {}).kind = "START") = 0
    BY <2>1 DEF One
  <2> QED
    BY <1>0, <2>1, <2>2, StartsAppended, StartsAreFinite
<1>3. ASSUME stopSelf
      PROVE  Cardinality(StartsIn(queue')) = Cardinality(StartsIn(queue))
  <2>1. queue' = queue \/ queue' = Append(queue, Message("DESTROY", {}))
    BY <1>3 DEF stopSelf
  <2>2. Cardinality(StartsIn(Append(queue, Message("DESTROY", {}))))
            = Cardinality(StartsIn(queue))
    BY <1>2 DEF Kinds
  <2> QED
    BY <2>1, <2>2
<1> QED
    BY <1>1, <1>2, <1>3

LEMMA MainStepCounted ==
    ASSUME Counted, TypeOK, TypeOK', MainStep
    PROVE  Counted'
<1>0. /\ main \in MainRecord /\ queue \in Seq(Messages)
      /\ \A at, kind, list : At(at, kind, list).at = at /\ At(at, kind, list).kind = kind
      /\ MainIdle.at = "idle"
    BY TypedParts DEF At, MainIdle, TypeOK
<1>1. CASE BeginStart
  <2>1. /\ main'.at = "fill" /\ queue' = Tail(queue) /\ queue # <<>> /\ main.at = "idle"
        /\ Head(queue).kind = "START" /\ UNCHANGED <<starts, commands, reboots, booting>>
    BY <1>0, <1>1 DEF BeginStart, ReplaceList, Take, MainUnchanged, android, world
  <2>2. Cardinality(StartsIn(queue')) + 1 <= Cardinality(StartsIn(queue))
    BY <1>0, <2>1, StartsTaken DEF One
  <2>3. One(BeingStarted) = 0 /\ One(booting') = One(booting)
    BY <2>1 DEF BeingStarted, One
  <2>4. Due' <= Due /\ Due' \in Nat /\ Due \in Nat
    BY <2>1, <2>2, <2>3, DueParts DEF Due
  <2> QED
    BY <2>1, <2>4, DueParts DEF Counted
<1>2. CASE BeginUpdate
  <2>1. main'.at = "fill" /\ main'.kind = "UPDATE"
    BY <1>0, <1>2 DEF BeginUpdate, ReplaceList
  <2> QED
    BY <1>2, <2>1, QueueOfStarts, CountAlone
    DEF BeginUpdate, ReplaceList, Take, MainUnchanged, android, world, BeingStarted
<1>3. CASE BeginStop
  <2>1. main'.at = "halt"
    BY <1>0, <1>3 DEF BeginStop
  <2> QED
    BY <1>3, <2>1, QueueOfStarts, CountAlone
    DEF BeginStop, Take, MainUnchanged, android, world, BeingStarted
<1>4. CASE BeginDestroy
  <2>1. main'.at = "halt"
    BY <1>0, <1>4 DEF BeginDestroy
  <2> QED
    BY <1>4, <2>1, QueueOfStarts, CountAlone
    DEF BeginDestroy, Take, android, world, BeingStarted
<1>5. CASE RestartedWithoutIntent
  <2>1. main'.at = "persist"
    BY <1>0, <1>5 DEF RestartedWithoutIntent
  <2> QED
    BY <1>5, <2>1, QueueOfStarts, CountAlone
    DEF RestartedWithoutIntent, Take, MainUnchanged, android, world, BeingStarted
<1>6. CASE AddDomain
  <2>1. main'.at = "fill" /\ main'.kind = main.kind /\ main.at = "fill" /\ queue' = queue
    BY <1>0, <1>6 DEF AddDomain, MainRecord
  <2> QED
    BY <1>0, <1>6, <2>1, StartsAreFinite, CountAlone
    DEF AddDomain, MainUnchanged, android, world, BeingStarted
<1>7. CASE ListFilled
  <2>1. /\ main'.kind = main.kind /\ main.at = "fill" /\ queue' = queue
        /\ main'.at \in {"establish", "persist"} /\ (main'.at = "establish" => main.kind = "START")
    BY <1>0, <1>7 DEF ListFilled
  <2> QED
    BY <1>0, <1>7, <2>1, StartsAreFinite, CountAlone
    DEF ListFilled, MainUnchanged, android, world, BeingStarted
<1>8. CASE AlreadyRunning \/ NotEstablished
  <2>1. main'.at = "persist" /\ queue' = queue
    BY <1>0, <1>8 DEF AlreadyRunning, NotEstablished
  <2> QED
    BY <1>0, <1>8, <2>1, StartsAreFinite, CountAlone
    DEF AlreadyRunning, NotEstablished, MainUnchanged, android, world, BeingStarted
<1>9. CASE Establish
  <2>1. /\ main'.at = "launch" /\ queue' = queue /\ main.at = "establish"
        /\ starts' = starts + 1 /\ UNCHANGED <<commands, reboots, booting>>
    BY <1>0, <1>9 DEF Establish, MainUnchanged, android, world
  <2>2. One(BeingStarted) = 1 /\ One(BeingStarted') = 0 /\ One(booting') = One(booting)
    BY <2>1 DEF One, BeingStarted, Counted
  <2>3. Due' = Due /\ Due \in Nat /\ starts' > 0
    BY <2>1, <2>2, DueParts DEF Due
  <2> QED
    BY <2>1, <2>3, DueParts DEF Counted
<1>10. CASE SetRunning \/ AnnounceActive
  <2>1. /\ main'.at \in {"announce", "thread"} /\ queue' = queue
        /\ main.at \in {"launch", "announce"}
    BY <1>0, <1>10 DEF SetRunning, AnnounceActive, MainRecord
  <2> QED
    BY <1>0, <1>10, <2>1, StartsAreFinite, CountAlone
    DEF SetRunning, AnnounceActive, android, world, BeingStarted
<1>11. CASE LaunchWorker \/ persistState
  <2>1. main'.at \in {"persist", "idle"} /\ queue' = queue
    BY <1>0, <1>11 DEF LaunchWorker, persistState
  <2> QED
    BY <1>0, <1>11, <2>1, StartsAreFinite, CountAlone
    DEF LaunchWorker, persistState, android, world, BeingStarted
<1>12. CASE StopOnMain
  <2>1. main'.at \in {"join", "close", "settle"} /\ queue' = queue
    BY <1>0, <1>12 DEF StopOnMain, MainRecord
  <2> QED
    BY <1>0, <1>12, <2>1, StartsAreFinite, CountAlone
    DEF StopOnMain, android, world, BeingStarted
<1>13. CASE StopSettles
  <2>1. main'.at = "persist"
    BY <1>0, <1>13 DEF StopSettles
  <2>2. Cardinality(StartsIn(queue')) = Cardinality(StartsIn(queue))
    BY <1>13, QueueOfStarts DEF StopSettles
  <2> QED
    BY <1>0, <1>13, <2>1, <2>2, StartsAreFinite, CountAlone
    DEF StopSettles, MainUnchanged, android, world, BeingStarted
<1>14. CASE Destroyed
  <2>1. main'.at = "idle" /\ queue' = queue
    BY <1>0, <1>14 DEF Destroyed
  <2> QED
    BY <1>0, <1>14, <2>1, StartsAreFinite, CountAlone
    DEF Destroyed, android, world, history, BeingStarted
<1> QED
    BY <1>1, <1>2, <1>3, <1>4, <1>5, <1>6, <1>7, <1>8, <1>9, <1>10, <1>11, <1>12, <1>13, <1>14
    DEF MainStep

LEMMA CountedStep ==
    ASSUME Counted, TypeOK, TypeOK', [Next]_vars
    PROVE  Counted'
<1>0. /\ queue \in Seq(Messages) /\ MainIdle.at = "idle" /\ \A p : One(p) \in 0 .. 1
      /\ Cardinality(StartsIn(<<>>)) = 0
    BY NoStarts DEF MainIdle, At, TypeOK, One
<1>1. ASSUME NEW message \in Messages, NEW want, Command(message, want) PROVE Counted'
  <2>1. /\ commands < MaxCommands /\ commands' = commands + 1
        /\ UNCHANGED <<starts, reboots, booting, main>>
    BY <1>1 DEF Command
  <2>2. Cardinality(StartsIn(queue')) <= Cardinality(StartsIn(queue)) + 1
    <3>1. queue' = Append(queue, message)
        BY <1>1 DEF Command
    <3> QED
        BY <1>0, <3>1, StartsAppended, StartsAreFinite DEF One
  <2>3. One(BeingStarted') = One(BeingStarted) /\ One(booting') = One(booting)
    BY <2>1 DEF BeingStarted
  <2>4. Due' <= Due + 1 /\ Due' \in Nat /\ Due \in Nat
    BY <2>1, <2>2, <2>3, DueParts DEF Due
  <2>5. commands' <= MaxCommands /\ commands' + reboots' = commands + reboots + 1
    BY <2>1, DueParts
  <2> QED
    BY <2>1, <2>4, <2>5, DueParts DEF Counted
<1>2. ASSUME NEW list \in Lists, start(list) \/ updateBlocklist(list) PROVE Counted'
  <2>1. Message("START", list) \in Messages /\ Message("UPDATE", list) \in Messages
    BY ListsAssumption, MessageFacts DEF Kinds
  <2> QED
    BY <1>1, <1>2, <2>1 DEF start, updateBlocklist
<1>3. CASE stop
  <2>1. Message("STOP", {}) \in Messages
    BY MessageFacts DEF Kinds
  <2> QED
    BY <1>1, <1>3, <2>1 DEF stop
<1>4. CASE MainStep
    BY <1>4, MainStepCounted
<1>5. CASE RevokeSettles
  <2>1. Cardinality(StartsIn(queue')) = Cardinality(StartsIn(queue))
    BY <1>5, QueueOfStarts DEF RevokeSettles
  <2>2. Cardinality(StartsIn(queue')) <= Cardinality(StartsIn(queue))
    BY <2>1, DueParts
  <2> QED
    BY <1>5, <2>2, CountAlone DEF RevokeSettles, android, world, BeingStarted, Counted
<1>6. CASE Kill \/ Reboot
  <2>1. queue' = <<>> /\ main' = MainIdle /\ UNCHANGED <<starts, commands>>
    BY <1>6 DEF Kill, Reboot, Gone
  <2>2. Cardinality(StartsIn(queue')) = 0 /\ One(BeingStarted') = 0
    BY <1>0, <2>1 DEF BeingStarted, One
  <2>3. CASE UNCHANGED <<booting, reboots>>
    <3>1. One(booting') = One(booting)
        BY <2>3
    <3>2. Due' <= Due /\ Due' \in Nat /\ Due \in Nat
        BY <2>1, <2>2, <2>3, <3>1, DueParts DEF Due
    <3> QED
        BY <1>0, <2>1, <2>3, <3>2, DueParts DEF Counted
  <2>4. CASE booting = FALSE /\ booting' = TRUE /\ reboots < MaxReboots /\ reboots' = reboots + 1
    <3>1. One(booting) = 0 /\ One(booting') = 1
        BY <2>4 DEF One
    <3>2. Due' <= Due + 1 /\ Due' \in Nat /\ Due \in Nat
        BY <2>1, <2>2, <3>1, DueParts DEF Due
    <3>3. reboots' <= MaxReboots /\ commands' + reboots' = commands + reboots + 1
        BY <2>1, <2>4, DueParts
    <3> QED
        BY <1>0, <2>1, <3>2, <3>3, DueParts DEF Counted
  <2>5. booting \in BOOLEAN
    BY DEF TypeOK
  <2> QED
    BY <1>6, <2>3, <2>4, <2>5 DEF Kill, Reboot
<1>7. CASE BootCompleted
  <2>1. /\ booting = TRUE /\ booting' = FALSE /\ UNCHANGED <<starts, commands, reboots, main>>
        /\ saved.domains \subseteq Domains
        /\ queue' = <<>> \/ queue' = <<Message("START", saved.domains)>>
    BY <1>7 DEF BootCompleted, world, TypeOK
  <2>2. Cardinality(StartsIn(queue')) <= 1
    <3>1. CASE queue' = <<>>
        BY <1>0, <3>1
    <3>2. CASE queue' = <<Message("START", saved.domains)>>
      <4>1. StartsIn(queue') = {1}
        BY <3>2 DEF StartsIn, Message
      <4>2. Cardinality({1}) = 1
        BY FS_Singleton
      <4> QED
        BY <4>1, <4>2
    <3> QED
        BY <2>1, <3>1, <3>2
  <2>3. One(booting) = 1 /\ One(booting') = 0 /\ One(BeingStarted') = One(BeingStarted)
    BY <2>1 DEF One, BeingStarted
  <2>4. Due' <= Due /\ Due' \in Nat /\ Due \in Nat
    BY <2>1, <2>2, <2>3, DueParts DEF Due
  <2> QED
    BY <2>1, <2>4, DueParts DEF Counted
<1>8. CASE StickyRestart
  <2>1. queue' = Append(queue, Message("NULL", {}))
    BY <1>8 DEF StickyRestart
  <2>2. Cardinality(StartsIn(queue')) = Cardinality(StartsIn(queue))
    BY <2>1, QueueOfStarts DEF Kinds
  <2>3. Cardinality(StartsIn(queue')) <= Cardinality(StartsIn(queue))
    BY <2>2, DueParts
  <2> QED
    BY <1>8, <2>3, CountAlone DEF StickyRestart, world, BeingStarted, Counted
<1>9. CASE ~(\/ \E list \in Lists : start(list) \/ updateBlocklist(list)
             \/ stop \/ MainStep \/ RevokeSettles \/ Kill \/ Reboot \/ BootCompleted
             \/ StickyRestart)
  <2>1. UNCHANGED <<queue, main, starts, commands, reboots, booting>>
    BY <1>9 DEF Next, vars, requestPermission, BinderStep, StopOnBinder, WorkerStep, EndLoop,
           Rewrite, Sinkhole, LookFurther, Forward, ReadPacket, WorkerUnchanged, Revoke,
           OpenApp, android, world
  <2>2. Cardinality(StartsIn(queue')) <= Cardinality(StartsIn(queue))
    BY <2>1, DueParts
  <2> QED
    BY <2>1, <2>2, CountAlone DEF BeingStarted, Counted
<1> QED
    BY <1>2, <1>3, <1>4, <1>5, <1>6, <1>7, <1>8, <1>9

LEMMA InitiallyCounted ==
    ASSUME Init
    PROVE  Counted
<1>1. /\ queue = <<>> /\ main.at = "idle" /\ booting = FALSE
      /\ starts = 0 /\ commands = 0 /\ reboots = 0
    BY DEF Init, MainIdle, At
<1>2. One(BeingStarted) = 0 /\ One(booting) = 0 /\ Cardinality(StartsIn(queue)) = 0
    BY <1>1, NoStarts DEF One, BeingStarted
<1>3. Due = 0 /\ MaxCommands \in Nat /\ MaxReboots \in Nat
    BY <1>1, <1>2, BoundsAssumption DEF Due
<1> QED
    BY <1>1, <1>3 DEF Counted

\* A thread that is about to be launched has its place among Workers.
LEMMA PlaceForWorker ==
    ASSUME Counted, TypeOK, main.at \in {"launch", "announce", "thread"}
    PROVE  starts \in Workers
<1>1. /\ {starts, Cardinality(StartsIn(queue)), commands, reboots, MaxCommands, MaxReboots}
              \subseteq Nat
      /\ One(BeingStarted) \in 0 .. 1 /\ One(booting) \in 0 .. 1
    BY StartsAreFinite, BoundsAssumption DEF TypeOK, One
<1>2. starts > 0 /\ starts <= MaxCommands + MaxReboots
    BY <1>1 DEF Counted, Due
<1> QED
    BY <1>1, <1>2 DEF Workers

-----------------------------------------------------------------------------
(* Readers.  Unless a join gave up early or a start met onRevoke: the      *)
(* packet thread that is alive is the one the service knows, and a stop    *)
(* that has begun waits for that one; while the service runs there is one, *)
(* and its interface is open or the destruction of the instance is posted. *)

Staged ==
    /\ main.kind = "DESTROY" => main.at \in {"halt"} \cup Ending
    /\ booting => ~alive /\ ~sticky
    /\ ~alive => ~running /\ main = MainIdle

BinderEnds(stage) == binder.at = stage /\ binder.current

\* An onRevoke may close the interface under the start that has just opened it.
Opened ==
    main.at = "launch" => ~running /\ (starts \in open \/ Doomed \/ BinderEnds("settle"))

OneKnown ==
    \A w \in Workers : Loops(w) =>
        /\ w = workerThread /\ w \in ours
        /\ running \/ main.at = "join" \/ BinderEnds("join")
        /\ main.at = "join" => main.joins = w
        /\ BinderEnds("join") => binder.joins = w
        /\ main.at \notin {"close", "settle", "announce", "thread"}

BeingLaunched ==
    main.at \in {"announce", "thread"} =>
        running /\ binder = BinderIdle /\ (starts \in open \/ Doomed)

Served ==
    running /\ main.at \notin {"announce", "thread"} =>
        /\ workerThread \in Workers /\ Loops(workerThread)
        /\ workerThread \in open \/ Doomed

Undisturbed == ~late /\ "raced" \notin disturbed
ReadersHeld ==
    /\ StatusHeld /\ Counted /\ Staged /\ Opened
    /\ Undisturbed => OneKnown /\ BeingLaunched /\ Served

LEMMA StagedStep ==
    ASSUME StatusHeld, Staged, TypeOK', [Next]_vars
    PROVE  Staged'
<1>0. /\ main \in MainRecord
      /\ \A at, kind, list : At(at, kind, list).at = at /\ At(at, kind, list).kind = kind
      /\ MainIdle.at = "idle" /\ MainIdle.kind = "NULL"
    BY TypedParts DEF At, MainIdle, StatusHeld
<1>1. CASE MainStep
  <2>1. alive /\ UNCHANGED <<alive, booting, sticky>>
    BY <1>1 DEF MainStep, BeginStart, BeginUpdate, ReplaceList, BeginStop, BeginDestroy,
           RestartedWithoutIntent, AddDomain, ListFilled, AlreadyRunning, NotEstablished,
           Establish, SetRunning, AnnounceActive, LaunchWorker, StopOnMain, StopSettles,
           Destroyed, persistState, Take, MainUnchanged, android
  <2>2. main'.kind = "DESTROY" => main'.at \in {"halt"} \cup Ending
    <3>1. CASE BeginStart \/ BeginUpdate \/ BeginStop \/ BeginDestroy \/ RestartedWithoutIntent
               \/ StopSettles \/ Destroyed \/ persistState
        BY <1>0, <3>1 DEF BeginStart, BeginUpdate, ReplaceList, BeginStop, BeginDestroy,
               RestartedWithoutIntent, StopSettles, Destroyed, persistState
    <3>2. CASE AddDomain \/ ListFilled \/ AlreadyRunning \/ NotEstablished \/ Establish
               \/ LaunchWorker
        BY <1>0, <3>2 DEF Staged, Ending, AddDomain, ListFilled, AlreadyRunning, NotEstablished,
               Establish, LaunchWorker, MainRecord
    <3>3. CASE SetRunning \/ AnnounceActive
        BY <1>0, <3>3 DEF Staged, Ending, SetRunning, AnnounceActive, MainRecord
    <3>4. CASE StopOnMain
        BY <1>0, <3>4 DEF StopOnMain, Ending, MainRecord
    <3> QED
        BY <1>1, <3>1, <3>2, <3>3, <3>4 DEF MainStep
  <2> QED
    BY <2>1, <2>2 DEF Staged
<1>2. CASE StopOnBinder
  <2>1. alive /\ UNCHANGED <<main, alive, booting, sticky>>
    BY <1>2 DEF StopOnBinder, android
  <2> QED
    BY <2>1 DEF Staged
<1>3. CASE Kill
  <2>1. main' = MainIdle /\ running' = FALSE /\ alive' = FALSE /\ alive /\ booting' = booting
    BY <1>3 DEF Kill, Gone
  <2> QED
    BY <1>0, <2>1 DEF Staged
<1>4. CASE Reboot
  <2>1. main' = MainIdle /\ running' = FALSE /\ alive' = FALSE /\ sticky' = FALSE
    BY <1>4 DEF Reboot, Gone
  <2> QED
    BY <1>0, <2>1 DEF Staged
<1>5. CASE StickyRestart \/ OpenApp \/ BootCompleted
  <2>1. booting' = FALSE /\ alive' = TRUE /\ main' = main
    BY <1>5 DEF StickyRestart, OpenApp, BootCompleted, Staged, TypeOK
  <2> QED
    BY <2>1 DEF Staged
<1>6. CASE ~(MainStep \/ StopOnBinder \/ Kill \/ Reboot \/ StickyRestart \/ OpenApp
             \/ BootCompleted)
  <2>1. /\ UNCHANGED <<running, alive, booting, main>>
        /\ sticky' = sticky \/ sticky' = FALSE
    BY <1>6 DEF Next, vars, start, updateBlocklist, stop, Command, requestPermission,
           BinderStep, RevokeSettles, WorkerStep, EndLoop, Rewrite, Sinkhole, LookFurther,
           Forward, ReadPacket, WorkerUnchanged, Revoke, fields, android
  <2> QED
    BY <2>1 DEF Staged
<1> QED
    BY <1>1, <1>2, <1>3, <1>4, <1>5, <1>6

\* Messages stay in the queue until they are taken.
LEMMA PostedStays ==
    ASSUME NEW q \in Seq(Messages), \E i \in DOMAIN q : q[i].kind = "DESTROY"
    PROVE  /\ \A m \in Messages :
                 \E i \in DOMAIN Append(q, m) : Append(q, m)[i].kind = "DESTROY"
           /\ q # <<>> /\ Head(q).kind # "DESTROY" =>
                 \E i \in DOMAIN Tail(q) : Tail(q)[i].kind = "DESTROY"
<1> PICK i \in DOMAIN q : q[i].kind = "DESTROY"
    OBVIOUS
<1>1. i \in 1 .. Len(q) /\ Len(q) \in Nat
    OBVIOUS
<1>2. ASSUME NEW m \in Messages
      PROVE  \E j \in DOMAIN Append(q, m) : Append(q, m)[j].kind = "DESTROY"
  <2>1. i \in DOMAIN Append(q, m) /\ Append(q, m)[i] = q[i]
    BY <1>1
  <2> QED
    BY <2>1
<1>3. ASSUME q # <<>>, Head(q).kind # "DESTROY"
      PROVE  \E j \in DOMAIN Tail(q) : Tail(q)[j].kind = "DESTROY"
  <2>1. i # 1
    BY <1>3
  <2>2. i - 1 \in DOMAIN Tail(q) /\ Tail(q)[i - 1] = q[i]
    BY <1>1, <1>3, <2>1
  <2> QED
    BY <2>2
<1> QED
    BY <1>2, <1>3

\* Only its own destruction, or the end of the process, ends what stopSelf began.
LEMMA DoomStays ==
    ASSUME TypeOK, Staged, [Next]_vars, Doomed,
           ~Destroyed, ~Kill, ~Reboot, ~BootCompleted
    PROVE  Doomed'
<1> DEFINE Posted == \E i \in DOMAIN queue : queue[i].kind = "DESTROY"
<1>0. /\ queue \in Seq(Messages) /\ Message("DESTROY", {}) \in Messages
      /\ Message("NULL", {}) \in Messages /\ Message("STOP", {}) \in Messages
      /\ Message("DESTROY", {}).kind = "DESTROY" /\ main \in MainRecord
      /\ \A at, kind, list : At(at, kind, list).at = at /\ At(at, kind, list).kind = kind
      /\ MainIdle.at = "idle" /\ MainIdle.kind = "NULL"
    BY MessageFacts, TypedParts DEF Kinds, TypeOK, Message, At, MainIdle
<1>1. \/ queue' = queue
      \/ \E m \in Messages : queue' = Append(queue, m)
      \/ queue # <<>> /\ queue' = Tail(queue) /\ Head(queue).kind # "DESTROY"
      \/ BeginDestroy
  <2>1. ASSUME NEW list \in Lists, start(list) \/ updateBlocklist(list)
        PROVE  \E m \in Messages : queue' = Append(queue, m)
    <3>1. Message("START", list) \in Messages /\ Message("UPDATE", list) \in Messages
        BY ListsAssumption, MessageFacts DEF Kinds
    <3> QED
        BY <2>1, <3>1 DEF start, updateBlocklist, Command
  <2>2. CASE stop \/ StickyRestart
    BY <1>0, <2>2 DEF stop, Command, StickyRestart
  <2>3. CASE StopSettles \/ RevokeSettles
    BY <1>0, <2>3 DEF StopSettles, RevokeSettles, stopSelf
  <2>4. CASE BeginStart \/ BeginUpdate \/ BeginStop \/ RestartedWithoutIntent
    BY <2>4 DEF BeginStart, BeginUpdate, ReplaceList, BeginStop, RestartedWithoutIntent, Take
  <2>5. CASE ~(\/ \E list \in Lists : start(list) \/ updateBlocklist(list)
               \/ stop \/ StickyRestart \/ StopSettles \/ RevokeSettles \/ BeginStart
               \/ BeginUpdate \/ BeginStop \/ RestartedWithoutIntent \/ BeginDestroy)
    <3>1. queue' = queue
        BY <2>5 DEF Next, MainStep, BinderStep, vars, requestPermission, AddDomain, ListFilled,
               AlreadyRunning, NotEstablished, Establish, SetRunning, AnnounceActive,
               LaunchWorker, StopOnMain, persistState, StopOnBinder, WorkerStep, EndLoop,
               Rewrite, Sinkhole, LookFurther, Forward, ReadPacket, WorkerUnchanged, Revoke,
               OpenApp
    <3> QED
        BY <3>1
  <2> QED
    BY <2>1, <2>2, <2>3, <2>4, <2>5
<1>2. CASE BeginDestroy
    BY <1>0, <1>2 DEF BeginDestroy, Doomed
<1>3. CASE Posted /\ ~BeginDestroy
  <2>1. /\ \A m \in Messages :
               \E i \in DOMAIN Append(queue, m) : Append(queue, m)[i].kind = "DESTROY"
        /\ queue # <<>> /\ Head(queue).kind # "DESTROY" =>
               \E i \in DOMAIN Tail(queue) : Tail(queue)[i].kind = "DESTROY"
    <3>1. queue \in Seq(Messages) /\ \E i \in DOMAIN queue : queue[i].kind = "DESTROY"
        BY <1>0, <1>3
    <3> HIDE DEF Posted
    <3> QED
        BY ONLY <3>1, PostedStays
  <2>2. ASSUME NEW m \in Messages, queue' = Append(queue, m)
        PROVE  \E i \in DOMAIN queue' : queue'[i].kind = "DESTROY"
    BY <2>1, <2>2, Zenon
  <2>3. CASE queue # <<>> /\ queue' = Tail(queue) /\ Head(queue).kind # "DESTROY"
    BY <2>1, <2>3, Zenon DEF Doomed
  <2>4. CASE queue' = queue
    BY <1>3, <2>4, Zenon DEF Doomed
  <2>5. \A m \in Messages : queue' = Append(queue, m) => Doomed'
    BY <2>2, Zenon DEF Doomed
  <2> QED
    BY ONLY <1>1, <1>3, <2>3, <2>4, <2>5
<1>4. CASE main.kind = "DESTROY"
  <2>1. main.at \in {"halt"} \cup Ending
    BY <1>4 DEF Staged
  <2>2. main'.kind = main.kind
    <3>1. CASE StopOnMain
        BY <1>0, <3>1 DEF StopOnMain, MainRecord
    <3>2. ~(MainStep /\ ~StopOnMain)
        BY <1>0, <1>4, <2>1 DEF MainStep, BeginStart, BeginUpdate, ReplaceList, BeginStop,
               BeginDestroy, RestartedWithoutIntent, Take, AddDomain, ListFilled,
               AlreadyRunning, NotEstablished, Establish, SetRunning, AnnounceActive,
               LaunchWorker, StopSettles, persistState, Ending
    <3>3. CASE ~MainStep
        BY <3>3 DEF Next, vars, start, updateBlocklist, stop, Command, requestPermission,
               BinderStep, StopOnBinder, RevokeSettles, WorkerStep, EndLoop, Rewrite,
               Sinkhole, LookFurther, Forward, ReadPacket, WorkerUnchanged, Revoke,
               StickyRestart, OpenApp
    <3> QED
        BY <3>1, <3>2, <3>3
  <2> QED
    BY <1>4, <2>2 DEF Doomed
<1> QED
    BY <1>2, <1>3, <1>4 DEF Doomed

LEMMA OpenedStep ==
    ASSUME StatusHeld, Staged, Opened, TypeOK', Staged', [Next]_vars
    PROVE  Opened'
<1>0. /\ TypeOK /\ main \in MainRecord /\ binder \in BinderRecord
      /\ \A at, kind, list : At(at, kind, list).at = at
      /\ MainIdle.at = "idle" /\ BinderIdle.at = "idle"
    BY TypedParts DEF At, MainIdle, BinderIdle, StatusHeld
<1>1. CASE Establish
  <2>1. running = FALSE /\ running' = running /\ starts' \in open'
    BY <1>1 DEF Establish, MainUnchanged, StatusHeld, TypeOK
  <2> QED
    BY <2>1 DEF Opened
<1>2. CASE MainStep /\ ~Establish
  <2>1. main'.at # "launch"
    <3>1. CASE AddDomain \/ SetRunning \/ AnnounceActive \/ StopOnMain
        BY <1>0, <3>1 DEF AddDomain, SetRunning, AnnounceActive, StopOnMain, MainRecord
    <3>2. CASE ~(AddDomain \/ SetRunning \/ AnnounceActive \/ StopOnMain)
        BY <1>0, <1>2, <3>2 DEF MainStep, BeginStart, BeginUpdate, ReplaceList, BeginStop,
               BeginDestroy, RestartedWithoutIntent, ListFilled, AlreadyRunning,
               NotEstablished, LaunchWorker, StopSettles, Destroyed, persistState
    <3> QED
        BY <3>1, <3>2
  <2> QED
    BY <2>1 DEF Opened
<1>3. CASE StopOnBinder
  <2> PICK next \in {"join", "close", "settle"} :
          /\ binder' = [binder EXCEPT !.at = next, !.joins = workerThread]
          /\ binder.current => StopStep(binder.at, binder.joins, next)
          /\ ~binder.current =>
                /\ <<binder.at, next>> \in {<<"halt", "join">>, <<"join", "close">>,
                                            <<"close", "settle">>}
                /\ UNCHANGED <<fields, late>>
    BY <1>3 DEF StopOnBinder
  <2>1. UNCHANGED <<main, starts, queue>> /\ (Doomed => Doomed')
    BY <1>3 DEF StopOnBinder, Doomed
  <2>2. binder'.current = binder.current /\ binder'.at = next /\ binder.at # "settle"
    <3>1. binder.at # "settle"
        BY DEF StopStep
    <3> QED
        BY <1>0, <3>1 DEF BinderRecord
  <2>3. \/ UNCHANGED <<running, open>> \/ (running' = FALSE /\ open' = open)
        \/ (next = "settle" /\ running' = running /\ binder.current)
    BY DEF StopStep, Halt, JoinWorker, Close, fields
  <2> QED
    BY <2>1, <2>2, <2>3 DEF Opened, BinderEnds
<1>4. CASE RevokeSettles
  <2>1. UNCHANGED <<main, starts, open, running>> /\ binder.at = "settle" /\ (Doomed => Doomed')
    BY <1>4 DEF RevokeSettles, stopSelf, fields, Doomed
  <2>2. binder.current => Doomed'
    <3>1. ASSUME binder.current, ~Doomed
          PROVE  Doomed'
      <4>1. queue \in Seq(Messages) /\ queue' = Append(queue, Message("DESTROY", {}))
        BY <1>4, <3>1 DEF RevokeSettles, stopSelf, TypeOK, StatusHeld
      <4>2. Len(queue) + 1 \in DOMAIN queue' /\ queue'[Len(queue) + 1] = Message("DESTROY", {})
        BY <4>1
      <4> QED
        BY <4>2 DEF Doomed, Message
    <3> QED
        BY <2>1, <3>1
  <2> QED
    BY <2>1, <2>2 DEF Opened, BinderEnds
<1>5. CASE Kill \/ Reboot
  <2>1. main' = MainIdle
    BY <1>5 DEF Kill, Reboot, Gone
  <2> QED
    BY <1>0, <2>1 DEF Opened
<1>6. CASE BootCompleted
  <2>1. main' = MainIdle
    BY <1>6 DEF BootCompleted, Staged
  <2> QED
    BY <1>0, <2>1 DEF Opened
<1>7. CASE ~(MainStep \/ StopOnBinder \/ RevokeSettles \/ Kill \/ Reboot \/ BootCompleted)
  <2>1. Doomed => Doomed'
    BY <1>0, <1>7, DoomStays DEF MainStep
  <2>2. UNCHANGED <<main, starts, open, running>>
    BY <1>7 DEF Next, vars, start, updateBlocklist, stop, Command, requestPermission,
           BinderStep, WorkerStep, EndLoop, Rewrite, Sinkhole, LookFurther, Forward,
           ReadPacket, WorkerUnchanged, Revoke, StickyRestart, OpenApp, fields
  <2>3. BinderEnds("settle") => BinderEnds("settle")'
    <3>1. binder' = binder \/ binder.at = "idle"
        BY <1>0, <1>7 DEF Next, vars, start, updateBlocklist, stop, Command, requestPermission,
               BinderStep, WorkerStep, EndLoop, Rewrite, Sinkhole, LookFurther, Forward,
               ReadPacket, WorkerUnchanged, Revoke, StickyRestart, OpenApp
    <3> QED
        BY <3>1 DEF BinderEnds
  <2> QED
    BY <2>1, <2>2, <2>3 DEF Opened
<1> QED
    BY <1>1, <1>2, <1>3, <1>4, <1>5, <1>6, <1>7

\* What the history tells is never taken back.
LEMMA DisturbedGrows ==
    ASSUME [Next]_vars
    PROVE  disturbed \subseteq disturbed'
    BY DEF Next, MainStep, BinderStep, vars, start, updateBlocklist, stop, Command,
           requestPermission, BeginStart, BeginUpdate, ReplaceList, BeginStop,
           BeginDestroy, RestartedWithoutIntent, AddDomain, ListFilled, AlreadyRunning,
           NotEstablished, Establish, SetRunning, AnnounceActive, LaunchWorker, Races,
           StopOnMain, StopSettles, Destroyed, persistState, StopOnBinder, RevokeSettles,
           WorkerStep, EndLoop, Rewrite, Sinkhole, LookFurther, Forward, ReadPacket,
           WorkerUnchanged, Revoke, Kill, Reboot, Gone, StickyRestart, OpenApp, BootCompleted,
           history, MainUnchanged

LEMMA HistoryGrows ==
    ASSUME TypeOK, [Next]_vars, Undisturbed'
    PROVE  Undisturbed
<1>1. late => late'
  <2>1. \A at, joins, next : StopStep(at, joins, next) => (late => late')
    BY DEF StopStep, Halt, JoinWorker, Close, TypeOK
  <2>2. CASE StopOnMain
    BY <2>1, <2>2 DEF StopOnMain
  <2>3. CASE StopOnBinder
    BY <2>1, <2>3 DEF StopOnBinder
  <2>4. CASE ~(StopOnMain \/ StopOnBinder)
    <3>1. late' = late
        BY <2>4 DEF Next, MainStep, BinderStep, vars, start, updateBlocklist, stop, Command,
               requestPermission, BeginStart, BeginUpdate, ReplaceList, BeginStop,
               BeginDestroy, RestartedWithoutIntent, AddDomain, ListFilled, AlreadyRunning,
               NotEstablished, Establish, SetRunning, AnnounceActive, LaunchWorker,
               StopSettles, Destroyed, persistState, RevokeSettles, WorkerStep, EndLoop,
               Rewrite, Sinkhole, LookFurther, Forward, ReadPacket, WorkerUnchanged, Revoke,
               Kill, Reboot, Gone, StickyRestart, OpenApp, BootCompleted, history
    <3> QED
        BY <3>1
  <2> QED
    BY <2>2, <2>3, <2>4
<1>2. disturbed \subseteq disturbed'
    BY DisturbedGrows
<1> QED
    BY <1>1, <1>2 DEF Undisturbed

Known == OneKnown /\ BeingLaunched /\ Served
Stopping == {"join", "close", "settle", "announce", "thread"}

\* A step that concerns no thread and no stop.
LEMMA ReadersAlone ==
    ASSUME Known, UNCHANGED <<running, workerThread, ours, binder>>,
           \A w \in Workers : Loops(w)' = Loops(w),
           open \subseteq open', Doomed => Doomed',
           \/ UNCHANGED <<main, starts>>
           \/ main.at \notin Stopping /\ main'.at \notin Stopping
    PROVE  Known'
<1>2. BinderEnds("join")' = BinderEnds("join")
    BY DEF BinderEnds
<1>3. OneKnown'
    BY <1>2 DEF Known, OneKnown, Stopping
<1>4. BeingLaunched'
    BY DEF Known, BeingLaunched, Stopping
<1>5. Served'
    BY DEF Known, Served, Stopping
<1> QED
    BY <1>3, <1>4, <1>5 DEF Known

\* stopVpn, on either thread, when it has waited as long as it takes.
LEMMA MainStopKnown ==
    ASSUME ReadersHeld, Known, Undisturbed, TypeOK', StopOnMain, Undisturbed'
    PROVE  Known'
<1> PICK next \in {"join", "close", "settle"} :
        /\ StopStep(main.at, main.joins, next)
        /\ main' = [main EXCEPT !.at = next, !.joins = workerThread]
    BY DEF StopOnMain
<1>0. /\ main'.at = next /\ main'.joins = workerThread
      /\ UNCHANGED <<binder, worker>> /\ main.at \in {"halt", "join", "close"}
    BY TypedParts DEF ReadersHeld, StatusHeld, MainRecord, StopStep, StopOnMain
<1>1. (\A w \in Workers : Loops(w)' = Loops(w)) /\ BinderEnds("join")' = BinderEnds("join")
    BY <1>0 DEF Loops, BinderEnds
<1>2. running' = FALSE
  <2>1. main.at = "halt" \/ ~running
    BY <1>0 DEF ReadersHeld, StatusHeld, Undisturbed, Ending
  <2> QED
    BY <2>1 DEF StopStep, Halt, JoinWorker, Close, ReadersHeld, StatusHeld, TypeOK
<1>3. BeingLaunched' /\ Served'
    BY <1>0, <1>2 DEF BeingLaunched, Served
<1>4. OneKnown'
  <2>1. CASE next = "join"
    <3>1. UNCHANGED <<workerThread, ours>>
        BY <2>1 DEF StopStep, Halt
    <3> QED
        BY <1>0, <1>1, <2>1, <3>1 DEF Known, OneKnown
  <2>2. CASE next = "close"
    <3>1. main.at = "join" /\ late' = (late \/ (main.joins # NoTun /\ Loops(main.joins)))
        BY <2>2 DEF StopStep, JoinWorker
    <3>2. \A w \in Workers : w # NoTun
        BY DEF Workers, NoTun
    <3>3. \A w \in Workers : ~Loops(w)
        BY <3>1, <3>2 DEF Known, OneKnown, Undisturbed
    <3> QED
        BY <1>1, <3>3 DEF OneKnown
  <2>3. CASE next = "settle"
    <3>1. main.at = "close"
        BY <2>3 DEF StopStep
    <3>2. \A w \in Workers : ~Loops(w)
        BY <3>1 DEF Known, OneKnown
    <3> QED
        BY <1>1, <3>2 DEF OneKnown
  <2> QED
    BY <2>1, <2>2, <2>3
<1> QED
    BY <1>3, <1>4 DEF Known

LEMMA BinderStopKnown ==
    ASSUME ReadersHeld, Known, Undisturbed, TypeOK', StopOnBinder, Undisturbed', Doomed => Doomed'
    PROVE  Known'
<1> PICK next \in {"join", "close", "settle"} :
        /\ binder' = [binder EXCEPT !.at = next, !.joins = workerThread]
        /\ binder.current => StopStep(binder.at, binder.joins, next)
        /\ ~binder.current => UNCHANGED <<fields, late>>
    BY DEF StopOnBinder
<1>0. /\ binder'.at = next /\ binder'.joins = workerThread /\ binder'.current = binder.current
      /\ UNCHANGED <<main, worker, starts>> /\ binder \in BinderRecord
    BY TypedParts DEF ReadersHeld, StatusHeld, BinderRecord, StopOnBinder
<1>1. \A w \in Workers : Loops(w)' = Loops(w)
    BY <1>0 DEF Loops
<1>2. binder # BinderIdle
    BY DEF StopOnBinder, StopStep, BinderIdle
<1>3. main.at \notin {"announce", "thread"}
    BY <1>2 DEF Known, BeingLaunched
<1>4. running' = FALSE
  <2>1. CASE binder.current
    <3>1. binder.at = "halt" \/ ~running
        BY <2>1 DEF StopStep, ReadersHeld, StatusHeld, Undisturbed, Ending
    <3> QED
        BY <2>1, <3>1 DEF StopStep, Halt, JoinWorker, Close, ReadersHeld, StatusHeld, TypeOK
  <2>2. CASE ~binder.current
    BY <2>2 DEF ReadersHeld, StatusHeld, Undisturbed, fields, TypeOK
  <2> QED
    BY <2>1, <2>2
<1>5. BeingLaunched' /\ Served'
    BY <1>0, <1>3, <1>4 DEF BeingLaunched, Served
<1>6. OneKnown'
  <2>1. CASE ~binder.current
    BY <1>0, <1>1, <2>1 DEF Known, OneKnown, BinderEnds, fields, ReadersHeld, StatusHeld,
           Undisturbed
  <2>2. CASE binder.current /\ next = "join"
    <3>1. UNCHANGED <<workerThread, ours>>
        BY <2>2 DEF StopStep, Halt
    <3> QED
        BY <1>0, <1>1, <2>2, <3>1 DEF Known, OneKnown, BinderEnds
  <2>3. CASE binder.current /\ next = "close"
    <3>1. BinderEnds("join") /\ late' = (late \/ (binder.joins # NoTun /\ Loops(binder.joins)))
        BY <2>3 DEF StopStep, JoinWorker, BinderEnds
    <3>2. \A w \in Workers : w # NoTun
        BY DEF Workers, NoTun
    <3>3. \A w \in Workers : ~Loops(w)
        BY <3>1, <3>2 DEF Known, OneKnown, Undisturbed
    <3> QED
        BY <1>1, <3>3 DEF OneKnown
  <2>4. CASE binder.current /\ next = "settle"
    <3>1. binder.at = "close" /\ ~running /\ UNCHANGED <<workerThread, ours>>
        BY <2>4 DEF StopStep, Close, ReadersHeld, StatusHeld, Undisturbed, Ending
    <3> QED
        BY <1>0, <1>1, <2>4, <3>1 DEF Known, OneKnown, BinderEnds
  <2> QED
    BY <2>1, <2>2, <2>3, <2>4
<1> QED
    BY <1>5, <1>6 DEF Known

LEMMA MainStepKnown ==
    ASSUME ReadersHeld, Known, Undisturbed, TypeOK', MainStep, Undisturbed',
           Destroyed \/ (Doomed => Doomed')
    PROVE  Known'
<1>0. /\ main \in MainRecord /\ TypeOK
      /\ \A at, kind, list : At(at, kind, list).at = at
      /\ MainIdle.at = "idle" /\ BinderIdle.at = "idle"
    BY TypedParts DEF At, MainIdle, BinderIdle, ReadersHeld, StatusHeld
<1>1. CASE BeginStart \/ BeginUpdate \/ BeginStop \/ RestartedWithoutIntent
  <2>1. main.at \notin Stopping /\ main'.at \notin Stopping /\ ~Destroyed
    BY <1>0, <1>1 DEF BeginStart, BeginUpdate, ReplaceList, BeginStop, RestartedWithoutIntent,
           Take, Stopping, Destroyed
  <2>2. \A w \in Workers : Loops(w)' = Loops(w)
    <3>1. CASE BeginStart \/ BeginUpdate
        BY <1>0, <3>1, ReplaceTyped DEF BeginStart, BeginUpdate, Loops
    <3>2. CASE BeginStop \/ RestartedWithoutIntent
        BY <3>2 DEF BeginStop, RestartedWithoutIntent, MainUnchanged, Loops
    <3> QED
        BY <1>1, <3>1, <3>2
  <2> QED
    BY <1>1, <2>1, <2>2, ReadersAlone DEF BeginStart, BeginUpdate, ReplaceList, BeginStop,
           RestartedWithoutIntent, MainUnchanged, fields
<1>2. CASE BeginDestroy
  <2>1. main.at \notin Stopping /\ main'.at \notin Stopping /\ ~Destroyed
    BY <1>0, <1>2 DEF BeginDestroy, Take, Stopping, Destroyed
  <2> QED
    BY <1>2, <2>1, ReadersAlone DEF BeginDestroy, fields, Loops
<1>3. CASE AddDomain
  <2>1. main.at \notin Stopping /\ main'.at \notin Stopping /\ ~Destroyed
    BY <1>0, <1>3 DEF AddDomain, Stopping, MainRecord, Destroyed
  <2> QED
    BY <1>3, <2>1, ReadersAlone DEF AddDomain, MainUnchanged, fields, Loops
<1>4. CASE ListFilled \/ AlreadyRunning \/ NotEstablished \/ persistState
  <2>1. main.at \notin Stopping /\ main'.at \notin Stopping /\ ~Destroyed
    BY <1>0, <1>4 DEF ListFilled, AlreadyRunning, NotEstablished, persistState, Stopping,
           Destroyed
  <2> QED
    BY <1>4, <2>1, ReadersAlone DEF ListFilled, AlreadyRunning, NotEstablished, persistState,
           MainUnchanged, fields, Loops
<1>5. CASE Establish
  <2>1. main.at \notin Stopping /\ main'.at \notin Stopping /\ ~Destroyed
    BY <1>0, <1>5 DEF Establish, Stopping, Destroyed
  <2> QED
    BY <1>5, <2>1, ReadersAlone DEF Establish, MainUnchanged, Loops
<1>6. CASE SetRunning
  <2>1. /\ main.at = "launch" /\ main'.at = "announce" /\ running' = TRUE
        /\ UNCHANGED <<binder, worker, workerThread, ours, open, starts>>
    BY <1>0, <1>6 DEF SetRunning, MainRecord
  <2>2. binder = BinderIdle
    BY <1>6 DEF SetRunning, Races, Undisturbed
  <2>3. ~running /\ (starts \in open \/ Doomed)
    BY <1>0, <2>1, <2>2 DEF ReadersHeld, Opened, BinderEnds
  <2>4. \A w \in Workers : ~Loops(w)
    BY <1>0, <2>1, <2>2, <2>3 DEF Known, OneKnown, BinderEnds
  <2>5. OneKnown'
    BY <2>1, <2>4 DEF OneKnown, Loops
  <2>6. Doomed => Doomed'
    BY <2>1 DEF Destroyed
  <2> QED
    BY <2>1, <2>2, <2>3, <2>5, <2>6 DEF Known, BeingLaunched, Served
<1>7. CASE AnnounceActive
  <2>1. /\ main.at = "announce" /\ main'.at = "thread"
        /\ UNCHANGED <<binder, worker, running, workerThread, ours, open, starts>>
    BY <1>0, <1>7 DEF AnnounceActive, MainRecord, fields
  <2>2. \A w \in Workers : ~Loops(w)
    BY <2>1 DEF Known, OneKnown
  <2>3. OneKnown'
    BY <2>1, <2>2 DEF OneKnown, Loops
  <2>4. Doomed => Doomed'
    BY <2>1 DEF Destroyed
  <2> QED
    BY <2>1, <2>3, <2>4 DEF Known, BeingLaunched, Served
<1>8. CASE LaunchWorker
  <2>1. /\ main.at = "thread" /\ main'.at = "persist"
        /\ workerThread' = starts /\ ours' = ours \cup {starts}
        /\ worker' = [worker EXCEPT ![starts].at = "loop"]
        /\ UNCHANGED <<binder, running, open, starts>>
    BY <1>0, <1>8 DEF LaunchWorker
  <2>2. /\ \A w \in Workers : ~Loops(w)
        /\ running /\ binder = BinderIdle /\ (starts \in open \/ Doomed)
    BY <2>1 DEF Known, OneKnown, BeingLaunched
  <2>3. starts \in Workers /\ worker \in [Workers -> WorkerRecord]
    BY <1>0, <2>1, PlaceForWorker, TypedParts DEF ReadersHeld
  <2>4. \A w \in Workers : Loops(w)' <=> w = starts
    BY <2>1, <2>2, <2>3 DEF Loops, WorkerRecord
  <2>5. ~BinderEnds("join")'
    BY <1>0, <2>1, <2>2 DEF BinderEnds
  <2>6. OneKnown'
    BY <2>1, <2>2, <2>4, <2>5 DEF OneKnown
  <2>7. Doomed => Doomed'
    BY <2>1 DEF Destroyed
  <2> QED
    BY <2>1, <2>2, <2>3, <2>4, <2>6, <2>7 DEF Known, BeingLaunched, Served
<1>9. CASE StopOnMain
    BY <1>9, MainStopKnown
<1>10. CASE StopSettles \/ Destroyed
  <2>1. /\ main.at = "settle" /\ main'.at \in {"persist", "idle"}
        /\ running' = running /\ worker' = worker
    BY <1>0, <1>10 DEF StopSettles, Destroyed, MainUnchanged, fields
  <2>2. ~running /\ \A w \in Workers : ~Loops(w)
    BY <2>1 DEF Known, OneKnown, ReadersHeld, StatusHeld, Undisturbed, Ending
  <2> QED
    BY <2>1, <2>2 DEF Known, OneKnown, BeingLaunched, Served, Loops
<1> QED
    BY <1>1, <1>2, <1>3, <1>4, <1>5, <1>6, <1>7, <1>8, <1>9, <1>10 DEF MainStep

\* A packet thread ends only when it is told to.
LEMMA WorkerStepKnown ==
    ASSUME Known, TypeOK, NEW w \in Workers,
           WorkerStep(w) \/ \E q \in Queries : ReadPacket(w, q)
    PROVE  Known'
<1>0. /\ UNCHANGED <<running, workerThread, ours, open, binder, main, starts, queue>>
      /\ worker \in [Workers -> WorkerRecord]
    BY TypedParts DEF WorkerStep, EndLoop, Rewrite, Sinkhole, LookFurther, Forward,
           ReadPacket, WorkerUnchanged, fields
<1>1. (Doomed <=> Doomed') /\ BinderEnds("join")' = BinderEnds("join")
    BY <1>0 DEF Doomed, BinderEnds
<1>2. CASE ~EndLoop(w)
  <2>1. \A v \in Workers : Loops(v)' <=> Loops(v)
    <3>1. CASE LookFurther(w)
        BY <3>1, FurtherTyped DEF Loops
    <3>2. CASE ~LookFurther(w)
        BY <1>0, <1>2, <3>2 DEF WorkerStep, Rewrite, Sinkhole, LooksFor, Misses, Forward,
               ReadPacket, Goto, Thread, Loops
    <3> QED
        BY <3>1, <3>2
  <2>2. OneKnown'
    BY <1>0, <1>1, <2>1 DEF Known, OneKnown
  <2>3. BeingLaunched'
    BY <1>0, <1>1 DEF Known, BeingLaunched
  <2>4. Served'
    BY <1>0, <1>1, <2>1 DEF Known, Served
  <2> QED
    BY <2>2, <2>3, <2>4 DEF Known
<1>3. CASE EndLoop(w)
  <2>1. Loops(w) /\ ~SeesRunning(w)
    BY <1>3 DEF EndLoop, Loops
  <2>2. ~running
    BY <2>1 DEF Known, OneKnown, SeesRunning
  <2>3. \A v \in Workers : Loops(v)' => Loops(v)
    BY <1>0, <1>3 DEF EndLoop, Goto, Thread, Loops
  <2>4. OneKnown'
    BY <1>0, <1>1, <2>3 DEF Known, OneKnown
  <2> QED
    BY <1>0, <1>1, <2>2, <2>4 DEF Known, BeingLaunched, Served
<1> QED
    BY <1>2, <1>3

LEMMA ReadersHeldStep ==
    ASSUME ReadersHeld, [Next]_vars
    PROVE  ReadersHeld'
<1>0. /\ TypeOK /\ TypeOK' /\ StatusHeld /\ StatusHeld' /\ Staged
      /\ MainIdle.at = "idle" /\ BinderIdle.at = "idle"
    BY TypeStep, StatusHeldStep DEF ReadersHeld, StatusHeld, MainIdle, At, BinderIdle
<1>1. Counted' /\ Staged'
    BY <1>0, CountedStep, StagedStep DEF ReadersHeld
<1>2. Opened'
    BY <1>0, <1>1, OpenedStep DEF ReadersHeld
<1>3. ASSUME Undisturbed'
      PROVE  Known'
  <2>0. Undisturbed /\ Known
    BY <1>0, <1>3, HistoryGrows DEF ReadersHeld, Known
  <2>1. CASE MainStep
    <3>1. Destroyed \/ (Doomed => Doomed')
        <4>1. alive /\ alive' = alive /\ ~booting
            BY <1>0, <2>1 DEF Staged, MainStep, BeginStart, BeginUpdate, ReplaceList, BeginStop,
                   BeginDestroy, RestartedWithoutIntent, AddDomain, ListFilled, AlreadyRunning,
                   NotEstablished, Establish, SetRunning, AnnounceActive, LaunchWorker,
                   StopOnMain, StopSettles, Destroyed, persistState, Take, MainUnchanged, android
        <4>2. ~Kill /\ ~Reboot /\ ~BootCompleted
            BY <4>1 DEF Kill, Reboot, Gone, BootCompleted
        <4> QED
            BY <1>0, <4>2, DoomStays
    <3> QED
        BY <1>0, <1>3, <2>0, <2>1, <3>1, MainStepKnown
  <2>2. CASE StopOnBinder
    <3>1. Doomed => Doomed'
        BY <2>2 DEF StopOnBinder, Doomed
    <3> QED
        BY <1>0, <1>3, <2>0, <2>2, <3>1, BinderStopKnown
  <2>3. CASE RevokeSettles
    <3>1. /\ UNCHANGED <<running, workerThread, ours, open, worker, main, starts>>
          /\ binder.at = "settle" /\ binder' = BinderIdle /\ (Doomed => Doomed')
        BY <2>3 DEF RevokeSettles, fields, stopSelf, Doomed
    <3>2. ~BinderEnds("join") /\ ~BinderEnds("join")' /\ \A w \in Workers : Loops(w)' = Loops(w)
        BY <1>0, <3>1 DEF BinderEnds, Loops
    <3>3. OneKnown'
        BY <2>0, <3>1, <3>2 DEF OneKnown, Known
    <3> QED
        BY <2>0, <3>1, <3>2, <3>3 DEF Known, BeingLaunched, Served
  <2>4. CASE Revoke
    <3>1. /\ UNCHANGED <<running, workerThread, ours, open, worker, main, starts, queue>>
          /\ main.at \notin {"announce", "thread"}
          /\ binder' = binder \/ (binder = BinderIdle /\ binder' = [binder EXCEPT !.at = "halt"])
        BY <1>3, <2>4 DEF Revoke, fields, Undisturbed
    <3>2. binder \in BinderRecord
        BY <1>0, TypedParts
    <3>3. BinderEnds("join")' = BinderEnds("join") /\ (BinderEnds("join") => binder' = binder)
        BY <1>0, <3>1, <3>2 DEF BinderEnds, BinderRecord
    <3>4. (\A w \in Workers : Loops(w)' = Loops(w)) /\ Doomed' = Doomed
        BY <3>1 DEF Loops, Doomed
    <3>5. OneKnown'
        BY <2>0, <3>1, <3>3, <3>4 DEF OneKnown, Known
    <3> QED
        BY <2>0, <3>1, <3>4, <3>5 DEF Known, BeingLaunched, Served
  <2>5. CASE Kill \/ Reboot
    <3>1. /\ main' = MainIdle /\ running' = FALSE
          /\ worker' = [w \in Workers |-> IF Loops(w) THEN Thread("gone", <<>>)
                                                     ELSE worker[w]]
        BY <2>5 DEF Kill, Reboot, Gone
    <3>2. \A w \in Workers : ~Loops(w)'
        BY <3>1 DEF Loops, Thread
    <3> QED
        BY <1>0, <3>1, <3>2 DEF Known, OneKnown, BeingLaunched, Served
  <2>6. CASE BootCompleted
    <3>1. /\ UNCHANGED <<running, workerThread, ours, open, worker, main, binder>>
          /\ ~running /\ main = MainIdle
        BY <1>0, <2>6 DEF BootCompleted, fields, Staged
    <3>2. BinderEnds("join")' = BinderEnds("join") /\ \A w \in Workers : Loops(w)' = Loops(w)
        BY <3>1 DEF BinderEnds, Loops
    <3>3. OneKnown'
        BY <2>0, <3>1, <3>2 DEF OneKnown, Known
    <3> QED
        BY <1>0, <3>1, <3>3 DEF Known, BeingLaunched, Served
  <2>7. CASE \E w \in Workers : WorkerStep(w) \/ \E q \in Queries : ReadPacket(w, q)
    BY <1>0, <2>0, <2>7, WorkerStepKnown
  <2>8. CASE ~(\/ MainStep \/ StopOnBinder \/ RevokeSettles \/ Revoke \/ Kill \/ Reboot
               \/ BootCompleted
               \/ \E w \in Workers : WorkerStep(w) \/ \E q \in Queries : ReadPacket(w, q))
    <3>1. Doomed => Doomed'
        BY <1>0, <2>8, DoomStays DEF MainStep
    <3>2. UNCHANGED <<running, workerThread, ours, open, worker, main, binder, starts>>
        BY <2>8 DEF Next, vars, start, updateBlocklist, stop, Command, requestPermission,
               BinderStep, StickyRestart, OpenApp, fields
    <3> QED
        BY <2>0, <3>1, <3>2, ReadersAlone DEF Loops
  <2> QED
    BY <2>1, <2>2, <2>3, <2>4, <2>5, <2>6, <2>7, <2>8
<1> QED
    BY <1>0, <1>1, <1>2, <1>3 DEF ReadersHeld, Known

LEMMA InitiallyReadersHeld ==
    ASSUME Init
    PROVE  ReadersHeld
<1>1. /\ binder = BinderIdle /\ binder.current /\ binder.at = "idle" /\ main = MainIdle
      /\ main.at = "idle" /\ main.kind = "NULL" /\ running = FALSE /\ booting = FALSE
      /\ alive = TRUE /\ currentStatus = "DISABLED"
    BY DEF Init, MainIdle, At, BinderIdle
<1>2. \A w \in Workers : ~Loops(w)
    BY DEF Init, Loops, Unborn, Thread
<1>3. StatusHeld
    BY <1>1, InitiallyTyped DEF StatusHeld, Truth, Ending
<1> QED
    BY <1>1, <1>2, <1>3, InitiallyCounted
    DEF ReadersHeld, Staged, Opened, OneKnown, BeingLaunched, Served

\* There is never more than one packet thread, and at rest there is one, on an open
\* interface, exactly when the service runs, through any number of starts, stops,
\* withdrawals, kills and restarts, unless a join gave up early or a start met onRevoke
\* (startVpn, stopVpn, onRevoke, runPacketLoop).
THEOREM NeverTwoReaders == Spec => []OneReader
<1>1. Init => ReadersHeld
    BY InitiallyReadersHeld
<1>2. ReadersHeld /\ [Next]_vars => ReadersHeld'
    BY ReadersHeldStep
<1>3. ReadersHeld => OneReader
  <2> SUFFICES ASSUME ReadersHeld, ~late, "raced" \notin disturbed
               PROVE  /\ \A v, w \in Workers : Loops(v) /\ Loops(w) => v = w
                      /\ Quiet => (running <=> \E w \in Workers : Loops(w) /\ w \in open)
    BY DEF OneReader
  <2>0. OneKnown /\ Served
    BY DEF ReadersHeld, Undisturbed
  <2>1. \A v, w \in Workers : Loops(v) /\ Loops(w) => v = w
    BY <2>0 DEF OneKnown
  <2>2. ASSUME Quiet
        PROVE  running <=> \E w \in Workers : Loops(w) /\ w \in open
    <3>1. main.at = "idle" /\ ~Doomed /\ ~BinderEnds("join")
        BY <2>2 DEF Quiet, MainIdle, At, BinderIdle, Doomed, BinderEnds
    <3>2. running => \E w \in Workers : Loops(w) /\ w \in open
        BY <2>0, <3>1 DEF Served
    <3>3. \A w \in Workers : Loops(w) => running
        BY <2>0, <3>1 DEF OneKnown
    <3> QED
        BY <3>2, <3>3
  <2> QED
    BY <2>1, <2>2
<1> QED
    BY <1>1, <1>2, <1>3, PTL DEF Spec

-----------------------------------------------------------------------------
(* The last word.  While nothing has come between, the last message that   *)
(* starts or stops says what was asked for, or, with none in the queue,    *)
(* the main thread is on its way there; the same for the lists.            *)

Switches == {"START", "STOP"}
Fills == {"START", "UPDATE"}

\* The last message of these kinds, if there is one, is one of these messages.
LastIn(q, kinds, messages) ==
    \A i \in DOMAIN q :
        q[i].kind \in kinds /\ (\A j \in DOMAIN q : j > i => q[j].kind \notin kinds) =>
            q[i] \in messages
NoneIn(q, kinds) == \A i \in DOMAIN q : q[i].kind \notin kinds

SaysOn == {m \in Messages : m.kind = "START" <=> wanted.on}
SaysList == {m \in Messages : m.domains = wanted.domains}

WillRun ==
    \/ main.at \in {"launch", "announce", "thread"}
    \/ BeingStarted
    \/ running /\ main.at \notin {"halt"} \cup Ending

Coming == IF main.at = "fill" THEN blockedDomains \cup main.todo ELSE blockedDomains

Calm ==
    /\ binder = BinderIdle /\ ~sticky /\ (alive \/ booting)
    /\ main.at \in {"announce", "thread"} => running
    /\ main.kind = "DESTROY" => ~running /\ ~saved.active

OnSaid ==
    /\ LastIn(queue, Switches, SaysOn)
    /\ alive /\ NoneIn(queue, Switches) => (WillRun <=> wanted.on)

ListSaid ==
    /\ LastIn(queue, Fills, SaysList)
    /\ alive /\ NoneIn(queue, Fills) /\ (main.at = "fill" \/ WillRun) =>
           Coming = wanted.domains

BootSaid ==
    booting => /\ queue = <<>> /\ (saved.active <=> wanted.on)
               /\ saved.active => saved.domains = wanted.domains

\* What was saved is true when a handler has ended, or a boot is about to make it true.
SavedSaid ==
    alive /\ main.at = "idle" =>
        \/ queue # <<>> /\ Head(queue).kind = "START"
        \/ (saved.active <=> running) /\ (running => saved.domains = blockedDomains)

Word == Calm /\ OnSaid /\ ListSaid /\ BootSaid /\ SavedSaid
WordHeld == StatusHeld /\ Counted /\ Staged /\ (disturbed = {} => Word)

LEMMA LastAppended ==
    ASSUME NEW q \in Seq(Messages), NEW m \in Messages, NEW kinds, NEW messages
    PROVE  /\ m.kind \in kinds => ~NoneIn(Append(q, m), kinds)
           /\ m.kind \in kinds /\ m \in messages => LastIn(Append(q, m), kinds, messages)
           /\ m.kind \notin kinds /\ LastIn(q, kinds, messages) =>
                  LastIn(Append(q, m), kinds, messages)
           /\ NoneIn(Append(q, m), kinds) => NoneIn(q, kinds)
<1> DEFINE p == Append(q, m)
<1>1. /\ DOMAIN p = 1 .. Len(q) + 1 /\ DOMAIN q = 1 .. Len(q) /\ Len(q) \in Nat
      /\ \A i \in DOMAIN q : p[i] = q[i] /\ i \in DOMAIN p /\ Len(q) + 1 > i
      /\ p[Len(q) + 1] = m /\ Len(q) + 1 \in DOMAIN p
      /\ \A i \in DOMAIN p : i \in DOMAIN q \/ i = Len(q) + 1
    OBVIOUS
<1> HIDE DEF p
<1>2. m.kind \in kinds => ~NoneIn(p, kinds)
    BY <1>1 DEF NoneIn
<1>3. NoneIn(p, kinds) => NoneIn(q, kinds)
    BY <1>1 DEF NoneIn
<1>4. ASSUME m.kind \in kinds, m \in messages
      PROVE  LastIn(p, kinds, messages)
    BY <1>1, <1>4, Zenon DEF LastIn
<1>5. ASSUME m.kind \notin kinds, LastIn(q, kinds, messages), NEW i \in DOMAIN p,
             p[i].kind \in kinds, \A j \in DOMAIN p : j > i => p[j].kind \notin kinds
      PROVE  p[i] \in messages
  <2>1. i \in DOMAIN q /\ p[i] = q[i]
    BY <1>1, <1>5, Zenon
  <2>2. \A j \in DOMAIN q : j > i => q[j].kind \notin kinds
    BY <1>1, <1>5, Zenon
  <2> QED
    BY <1>5, <2>1, <2>2 DEF LastIn
<1>6. m.kind \notin kinds /\ LastIn(q, kinds, messages) => LastIn(p, kinds, messages)
    BY <1>5, Zenon DEF LastIn
<1> QED
    BY <1>2, <1>3, <1>4, <1>6 DEF p

LEMMA LastTaken ==
    ASSUME NEW q \in Seq(Messages), q # <<>>, NEW kinds, NEW messages,
           LastIn(q, kinds, messages)
    PROVE  /\ LastIn(Tail(q), kinds, messages)
           /\ NoneIn(Tail(q), kinds) /\ Head(q).kind \in kinds => Head(q) \in messages
           /\ NoneIn(Tail(q), kinds) /\ Head(q).kind \notin kinds => NoneIn(q, kinds)
<1> DEFINE t == Tail(q)
<1>1. /\ DOMAIN t = 1 .. Len(q) - 1 /\ DOMAIN q = 1 .. Len(q) /\ Len(q) \in Nat \ {0}
      /\ \A i \in DOMAIN t : t[i] = q[i + 1] /\ i + 1 \in DOMAIN q
      /\ Head(q) = q[1] /\ 1 \in DOMAIN q
      /\ \A i \in DOMAIN q : i = 1 \/ (i - 1 \in DOMAIN t /\ q[i] = t[i - 1] /\ i > 1)
    OBVIOUS
<1> HIDE DEF t
<1>2. ASSUME NEW i \in DOMAIN t, t[i].kind \in kinds,
             \A j \in DOMAIN t : j > i => t[j].kind \notin kinds
      PROVE  t[i] \in messages
  <2>1. ASSUME NEW j \in DOMAIN q, j > i + 1
        PROVE  q[j].kind \notin kinds
    <3>1. i \in Nat /\ j \in Nat /\ i >= 1
        BY <1>1
    <3>2. j - 1 \in DOMAIN t /\ q[j] = t[j - 1] /\ j - 1 > i
        BY <1>1, <2>1, <3>1
    <3> QED
        BY <1>2, <3>2
  <2> QED
    BY <1>1, <1>2, <2>1 DEF LastIn
<1>3. LastIn(t, kinds, messages)
    BY <1>2, Zenon DEF LastIn
<1>4. ASSUME NoneIn(t, kinds)
      PROVE  \A j \in DOMAIN q : j > 1 => q[j].kind \notin kinds
    BY <1>1, <1>4 DEF NoneIn
<1>5. NoneIn(t, kinds) /\ Head(q).kind \in kinds => Head(q) \in messages
    BY <1>1, <1>4, Zenon DEF LastIn
<1>6. NoneIn(t, kinds) /\ Head(q).kind \notin kinds => NoneIn(q, kinds)
    BY <1>1, <1>4, Zenon DEF NoneIn
<1> QED
    BY <1>3, <1>5, <1>6 DEF t

LEMMA EmptyQueue ==
    ASSUME NEW kinds, NEW messages
    PROVE  LastIn(<<>>, kinds, messages) /\ NoneIn(<<>>, kinds)
    BY DEF LastIn, NoneIn

\* What MainActivity asks for with a message.
Asks(message, want) ==
    /\ message.kind \in Switches => (message.kind = "START" <=> want.on)
    /\ message.kind \notin Switches => want.on = wanted.on
    /\ message.kind \in Fills => message.domains = want.domains
    /\ message.kind \notin Fills => want.domains = wanted.domains

\* A command is the last word.
LEMMA CommandSaid ==
    ASSUME Word, TypeOK, Staged, NEW message \in Messages, NEW want,
           Command(message, want), Asks(message, want)
    PROVE  Word'
<1>1. /\ queue' = Append(queue, message) /\ wanted' = want /\ alive /\ ~booting
      /\ sticky' = FALSE /\ queue \in Seq(Messages)
      /\ UNCHANGED <<alive, booting, main, binder, running, blockedDomains, saved>>
    BY DEF Command, fields, Staged, TypeOK
<1>2. WillRun' = WillRun /\ Coming' = Coming
    BY <1>1 DEF WillRun, Coming, BeingStarted
<1>3. OnSaid'
  <2>1. CASE message.kind \in Switches
    <3>1. message \in SaysOn'
        BY <1>1, <2>1 DEF SaysOn, Asks
    <3> QED
        BY <1>1, <2>1, <3>1, LastAppended DEF OnSaid
  <2>2. CASE message.kind \notin Switches
    <3>1. SaysOn' = SaysOn /\ wanted'.on = wanted.on
        BY <1>1, <2>2 DEF SaysOn, Asks
    <3> QED
        BY <1>1, <1>2, <2>2, <3>1, LastAppended DEF OnSaid, Word
  <2> QED
    BY <2>1, <2>2
<1>4. ListSaid'
  <2>1. CASE message.kind \in Fills
    <3>1. message \in SaysList'
        BY <1>1, <2>1 DEF SaysList, Asks
    <3> QED
        BY <1>1, <2>1, <3>1, LastAppended DEF ListSaid
  <2>2. CASE message.kind \notin Fills
    <3>1. SaysList' = SaysList /\ wanted'.domains = wanted.domains
        BY <1>1, <2>2 DEF SaysList, Asks
    <3> QED
        BY <1>1, <1>2, <2>2, <3>1, LastAppended DEF ListSaid, Word
  <2> QED
    BY <2>1, <2>2
<1>5. SavedSaid'
  <2>1. queue # <<>> => queue' # <<>> /\ Head(queue') = Head(queue)
    BY <1>1
  <2> QED
    BY <1>1, <2>1 DEF Word, SavedSaid
<1> QED
    BY <1>1, <1>3, <1>4, <1>5 DEF Word, Calm, BootSaid

LEMMA CommandsSaid ==
    ASSUME Word, TypeOK, Staged,
           stop \/ \E list \in Lists : start(list) \/ updateBlocklist(list)
    PROVE  Word'
<1>0. /\ wanted \in [on : BOOLEAN, domains : SUBSET Domains]
      /\ \A kind, domains : Message(kind, domains).kind = kind
                           /\ Message(kind, domains).domains = domains
    BY DEF TypeOK, Message
<1>1. ASSUME NEW list \in Lists, start(list)
      PROVE  Word'
  <2> DEFINE want == [on |-> TRUE, domains |-> list]
  <2>1. Message("START", list) \in Messages /\ Asks(Message("START", list), want)
    BY <1>0, ListsAssumption, MessageFacts DEF Kinds, Asks, Switches, Fills
  <2>2. Command(Message("START", list), want)
    BY <1>1 DEF start
  <2> QED
    BY <2>1, <2>2, CommandSaid
<1>2. ASSUME NEW list \in Lists, updateBlocklist(list)
      PROVE  Word'
  <2> DEFINE want == [wanted EXCEPT !.domains = list]
  <2>1. want.domains = list /\ want.on = wanted.on
    BY <1>0
  <2>2. Message("UPDATE", list) \in Messages /\ Asks(Message("UPDATE", list), want)
    BY <1>0, <2>1, ListsAssumption, MessageFacts DEF Kinds, Asks, Switches, Fills
  <2>3. Command(Message("UPDATE", list), want)
    BY <1>2 DEF updateBlocklist
  <2> QED
    BY <2>2, <2>3, CommandSaid
<1>3. ASSUME stop
      PROVE  Word'
  <2> DEFINE want == [wanted EXCEPT !.on = FALSE]
  <2>1. want.domains = wanted.domains /\ ~want.on
    BY <1>0
  <2>2. Message("STOP", {}) \in Messages /\ Asks(Message("STOP", {}), want)
    <3>1. Message("STOP", {}) \in Messages
        BY MessageFacts DEF Kinds
    <3> HIDE DEF want
    <3> QED
        BY <1>0, <2>1, <3>1 DEF Asks, Switches, Fills
  <2>3. Command(Message("STOP", {}), want)
    BY <1>3 DEF stop
  <2> QED
    BY <2>2, <2>3, CommandSaid
<1> QED
    BY <1>1, <1>2, <1>3

\* A step of the main thread that keeps what is under way.
LEMMA Onward ==
    ASSUME Word, alive, ~booting,
           UNCHANGED <<wanted, alive, booting, sticky, binder>>,
           LastIn(queue', Switches, SaysOn), LastIn(queue', Fills, SaysList),
           NoneIn(queue', Switches) => NoneIn(queue, Switches) /\ (WillRun' <=> WillRun),
           NoneIn(queue', Fills) /\ (main'.at = "fill" \/ WillRun') =>
               NoneIn(queue, Fills) /\ (main.at = "fill" \/ WillRun) /\ Coming' = Coming,
           main'.at \in {"announce", "thread"} => running',
           main'.kind = "DESTROY" => ~running' /\ ~saved'.active,
           SavedSaid'
    PROVE  Word'
<1>1. SaysOn' = SaysOn /\ SaysList' = SaysList
    BY DEF SaysOn, SaysList
<1>2. OnSaid'
    BY <1>1 DEF Word, OnSaid
<1>3. ListSaid'
    BY <1>1 DEF Word, ListSaid
<1> QED
    BY <1>2, <1>3 DEF Word, Calm, BootSaid

\* What the main thread takes.
LEMMA TakenSaid ==
    ASSUME Word, TypeOK, alive, queue # <<>>, queue' = Tail(queue)
    PROVE  /\ LastIn(queue', Switches, SaysOn) /\ LastIn(queue', Fills, SaysList)
           /\ NoneIn(queue', Switches) /\ Head(queue).kind \in Switches =>
                  (Head(queue).kind = "START" <=> wanted.on)
           /\ NoneIn(queue', Switches) /\ Head(queue).kind \notin Switches =>
                  NoneIn(queue, Switches) /\ (WillRun <=> wanted.on)
           /\ NoneIn(queue', Fills) /\ Head(queue).kind \in Fills =>
                  Head(queue).domains = wanted.domains
           /\ NoneIn(queue', Fills) /\ Head(queue).kind \notin Fills =>
                  NoneIn(queue, Fills)
<1>1. queue \in Seq(Messages) /\ LastIn(queue, Switches, SaysOn) /\ LastIn(queue, Fills, SaysList)
    BY DEF Word, OnSaid, ListSaid, TypeOK
<1>2. /\ LastIn(queue', Switches, SaysOn)
      /\ NoneIn(queue', Switches) /\ Head(queue).kind \in Switches => Head(queue) \in SaysOn
      /\ NoneIn(queue', Switches) /\ Head(queue).kind \notin Switches => NoneIn(queue, Switches)
    BY <1>1, LastTaken
<1>3. /\ LastIn(queue', Fills, SaysList)
      /\ NoneIn(queue', Fills) /\ Head(queue).kind \in Fills => Head(queue) \in SaysList
      /\ NoneIn(queue', Fills) /\ Head(queue).kind \notin Fills => NoneIn(queue, Fills)
    BY <1>1, LastTaken
<1> QED
    BY <1>2, <1>3 DEF SaysOn, SaysList, Word, OnSaid

LEMMA BeginsSaid ==
    ASSUME Word, TypeOK, TypeOK', Staged, disturbed' = {},
           BeginStart \/ BeginUpdate \/ BeginStop \/ BeginDestroy \/ RestartedWithoutIntent
    PROVE  Word'
<1>0. /\ alive /\ ~booting /\ main.at = "idle" /\ queue # <<>> /\ queue' = Tail(queue)
      /\ UNCHANGED <<wanted, alive, booting, sticky, binder, running, saved>>
      /\ ~BeingStarted
    BY DEF BeginStart, BeginUpdate, ReplaceList, BeginStop, BeginDestroy, RestartedWithoutIntent,
           Take, MainUnchanged, fields, android, history, Staged, MainIdle, At, BeingStarted
<1>1. \A at, kind, list : /\ At(at, kind, list).at = at /\ At(at, kind, list).kind = kind
                          /\ At(at, kind, list).todo = list
    BY DEF At
<1>2. SavedSaid'
  <2>1. main'.at # "idle"
    BY <1>1 DEF BeginStart, BeginUpdate, ReplaceList, BeginStop, BeginDestroy,
           RestartedWithoutIntent
  <2> QED
    BY <2>1 DEF SavedSaid
<1>3. WillRun <=> running
    BY <1>0 DEF WillRun, Ending
<1>4. CASE BeginStart
  <2>1. /\ main'.at = "fill" /\ main'.kind = "START" /\ main'.todo = Head(queue).domains
        /\ blockedDomains' = {} /\ Head(queue).kind = "START"
    BY <1>1, <1>4 DEF BeginStart, ReplaceList, Take
  <2>2. WillRun' /\ Coming' = Head(queue).domains
    BY <2>1 DEF WillRun, BeingStarted, Coming
  <2>3. SaysOn' = SaysOn /\ SaysList' = SaysList
    BY <1>0 DEF SaysOn, SaysList
  <2>4. OnSaid'
    BY <1>0, <2>1, <2>2, <2>3, TakenSaid DEF OnSaid, Switches
  <2>5. ListSaid'
    BY <1>0, <2>1, <2>2, <2>3, TakenSaid DEF ListSaid, Fills
  <2> QED
    BY <1>0, <1>2, <2>1, <2>4, <2>5 DEF Word, Calm, BootSaid
<1>5. CASE BeginUpdate
  <2>1. /\ main'.at = "fill" /\ main'.kind = "UPDATE" /\ main'.todo = Head(queue).domains
        /\ blockedDomains' = {} /\ Head(queue).kind = "UPDATE"
    BY <1>1, <1>5 DEF BeginUpdate, ReplaceList, Take
  <2>2. (WillRun' <=> running) /\ Coming' = Head(queue).domains
    BY <1>0, <2>1 DEF WillRun, BeingStarted, Coming, Ending
  <2>3. SaysOn' = SaysOn /\ SaysList' = SaysList
    BY <1>0 DEF SaysOn, SaysList
  <2>4. OnSaid'
    BY <1>0, <1>3, <2>1, <2>2, <2>3, TakenSaid DEF OnSaid, Switches
  <2>5. ListSaid'
    BY <1>0, <2>1, <2>2, <2>3, TakenSaid DEF ListSaid, Fills
  <2> QED
    BY <1>0, <1>2, <2>1, <2>4, <2>5 DEF Word, Calm, BootSaid
<1>6. CASE BeginStop
  <2>1. main'.at = "halt" /\ main'.kind = "STOP" /\ Head(queue).kind = "STOP"
    BY <1>1, <1>6 DEF BeginStop, Take
  <2>2. ~WillRun'
    BY <2>1 DEF WillRun, BeingStarted
  <2>3. SaysOn' = SaysOn /\ SaysList' = SaysList
    BY <1>0 DEF SaysOn, SaysList
  <2>4. OnSaid'
    BY <1>0, <2>1, <2>2, <2>3, TakenSaid DEF OnSaid, Switches
  <2>5. ListSaid'
    BY <1>0, <2>1, <2>2, <2>3, TakenSaid DEF ListSaid
  <2> QED
    BY <1>0, <1>2, <2>1, <2>4, <2>5 DEF Word, Calm, BootSaid
<1>7. CASE BeginDestroy
  <2>1. main'.at = "halt" /\ main'.kind = "DESTROY" /\ Head(queue).kind = "DESTROY" /\ ~running
    <3>1. main'.at = "halt" /\ main'.kind = "DESTROY" /\ Head(queue).kind = "DESTROY"
        BY <1>1, <1>7 DEF BeginDestroy, Take
    <3>2. disturbed' = IF running THEN disturbed \cup {"overtaken"} ELSE disturbed
        BY <1>7 DEF BeginDestroy
    <3> QED
        BY <3>1, <3>2
  <2>2. ~WillRun' /\ ~WillRun
    BY <1>3, <2>1 DEF WillRun, BeingStarted
  <2>3. ~saved.active
    BY <1>0, <2>1 DEF Word, SavedSaid
  <2>4. /\ LastIn(queue', Switches, SaysOn) /\ LastIn(queue', Fills, SaysList)
        /\ NoneIn(queue', Switches) => NoneIn(queue, Switches)
    BY <1>0, <2>1, TakenSaid DEF Switches
  <2> QED
    BY <1>0, <1>2, <2>1, <2>2, <2>3, <2>4, Onward
<1>8. CASE RestartedWithoutIntent
  <2>1. main'.at = "persist" /\ main'.kind = "NULL" /\ Head(queue).kind = "NULL"
        /\ blockedDomains' = blockedDomains
    BY <1>1, <1>8 DEF RestartedWithoutIntent, Take
  <2>2. (WillRun' <=> WillRun) /\ Coming' = Coming
    BY <1>0, <1>3, <2>1 DEF WillRun, BeingStarted, Coming, Ending
  <2>3. /\ LastIn(queue', Switches, SaysOn) /\ LastIn(queue', Fills, SaysList)
        /\ NoneIn(queue', Switches) => NoneIn(queue, Switches)
        /\ NoneIn(queue', Fills) => NoneIn(queue, Fills)
    BY <1>0, <2>1, TakenSaid DEF Switches, Fills
  <2> QED
    BY <1>0, <1>2, <2>1, <2>2, <2>3, Onward
<1> QED
    BY <1>4, <1>5, <1>6, <1>7, <1>8

LEMMA MainStepSaid ==
    ASSUME WordHeld, Word, disturbed = {}, disturbed' = {}, TypeOK', MainStep
    PROVE  Word'
<1>0. /\ main \in MainRecord /\ TypeOK /\ Staged /\ Counted /\ running \in BOOLEAN
      /\ \A at, kind, list : At(at, kind, list).at = at /\ At(at, kind, list).kind = kind
      /\ MainIdle.at = "idle" /\ MainIdle.kind = "NULL"
      /\ main.at \in Ending => ~running
    BY TypedParts DEF At, MainIdle, WordHeld, StatusHeld, TypeOK
<1>1. /\ alive /\ ~booting /\ UNCHANGED <<wanted, alive, booting, sticky>>
      /\ ~Destroyed => binder' = binder
    BY <1>0 DEF Staged, MainStep, BeginStart, BeginUpdate, ReplaceList, BeginStop, BeginDestroy,
           RestartedWithoutIntent, AddDomain, ListFilled, AlreadyRunning, NotEstablished,
           Establish, SetRunning, AnnounceActive, LaunchWorker, StopOnMain, StopSettles,
           Destroyed, persistState, Take, MainUnchanged, android, history
<1>2. CASE BeginStart \/ BeginUpdate \/ BeginStop \/ BeginDestroy \/ RestartedWithoutIntent
    BY <1>0, <1>2, BeginsSaid
<1>3. LastIn(queue, Switches, SaysOn) /\ LastIn(queue, Fills, SaysList)
    BY DEF Word, OnSaid, ListSaid
<1>4. CASE AddDomain
  <2>1. /\ main.at = "fill" /\ main'.at = "fill" /\ main'.kind = main.kind
        /\ main.kind # "DESTROY" /\ UNCHANGED <<queue, running>> /\ Coming' = Coming
    BY <1>0, <1>4 DEF AddDomain, MainUnchanged, MainRecord, fields, Staged, Ending, Coming
  <2>2. WillRun' <=> WillRun
    BY <2>1 DEF WillRun, BeingStarted
  <2> QED
    BY <1>1, <1>3, <2>1, <2>2, Onward DEF SavedSaid, Destroyed
<1>5. CASE ListFilled
  <2>1. /\ main.at = "fill" /\ main'.kind = main.kind /\ main.kind # "DESTROY"
        /\ main'.at = (IF main.kind = "START" THEN "establish" ELSE "persist")
        /\ main.todo = {} /\ UNCHANGED <<queue, running, blockedDomains>>
    BY <1>0, <1>5 DEF ListFilled, MainUnchanged, fields, Staged, Ending
  <2>2. (WillRun' <=> WillRun) /\ Coming' = Coming
    BY <2>1 DEF WillRun, BeingStarted, Coming, Ending
  <2> QED
    BY <1>1, <1>3, <2>1, <2>2, Onward DEF SavedSaid, Destroyed
<1>6. CASE AlreadyRunning
  <2>1. /\ main.at = "establish" /\ main.kind = "START" /\ main'.at = "persist"
        /\ main'.kind = "START" /\ running /\ UNCHANGED <<queue, running, blockedDomains>>
    BY <1>0, <1>6 DEF AlreadyRunning, MainUnchanged, fields, Counted
  <2>2. WillRun' /\ WillRun /\ Coming' = Coming
    BY <2>1 DEF WillRun, BeingStarted, Coming, Ending
  <2> QED
    BY <1>1, <1>3, <2>1, <2>2, Onward DEF SavedSaid, Destroyed
<1>7. CASE NotEstablished
    BY <1>7 DEF NotEstablished
<1>8. CASE Establish
  <2>1. /\ main.at = "establish" /\ main.kind = "START" /\ main'.at = "launch"
        /\ main'.kind = "START" /\ UNCHANGED <<queue, running, blockedDomains>>
    BY <1>0, <1>8 DEF Establish, MainUnchanged, Counted
  <2>2. WillRun' /\ WillRun /\ Coming' = Coming
    BY <2>1 DEF WillRun, BeingStarted, Coming
  <2> QED
    BY <1>1, <1>3, <2>1, <2>2, Onward DEF SavedSaid, Destroyed
<1>9. CASE SetRunning \/ AnnounceActive
  <2>1. /\ main.at \in {"launch", "announce"} /\ main'.at \in {"announce", "thread"}
        /\ main'.kind = main.kind /\ main.kind # "DESTROY" /\ running'
        /\ UNCHANGED <<queue, blockedDomains>>
    BY <1>0, <1>9 DEF SetRunning, AnnounceActive, fields, Staged, Ending, MainRecord, Word, Calm
  <2>2. WillRun' /\ WillRun /\ Coming' = Coming
    BY <2>1 DEF WillRun, Coming
  <2> QED
    BY <1>1, <1>3, <2>1, <2>2, Onward DEF SavedSaid, Destroyed
<1>10. CASE LaunchWorker
  <2>1. /\ main.at = "thread" /\ main'.at = "persist" /\ main'.kind = main.kind
        /\ main.kind # "DESTROY" /\ running /\ UNCHANGED <<queue, running, blockedDomains>>
    BY <1>0, <1>10 DEF LaunchWorker, Staged, Ending, Word, Calm
  <2>2. WillRun' /\ WillRun /\ Coming' = Coming
    BY <2>1 DEF WillRun, Coming, Ending
  <2> QED
    BY <1>1, <1>3, <2>1, <2>2, Onward DEF SavedSaid, Destroyed
<1>11. CASE StopOnMain
  <2> PICK next \in {"join", "close", "settle"} :
          /\ StopStep(main.at, main.joins, next)
          /\ main' = [main EXCEPT !.at = next, !.joins = workerThread]
    BY <1>11 DEF StopOnMain
  <2>1. running' => running
    BY StopStepStages
  <2>2. /\ main'.at \in Ending /\ main.at \in {"halt"} \cup Ending /\ main'.kind = main.kind
        /\ UNCHANGED <<queue, blockedDomains, saved, binder>>
    BY <1>0, <1>11, StopStepStages DEF StopOnMain, MainRecord
  <2>3. ~WillRun' /\ ~WillRun
    BY <2>2 DEF WillRun, BeingStarted, Ending
  <2>4. main.kind = "DESTROY" => ~running /\ ~saved.active
    BY DEF Word, Calm
  <2> QED
    BY <1>1, <1>3, <2>1, <2>2, <2>3, <2>4, Onward DEF SavedSaid, Ending
<1>12. CASE StopSettles
  <2>1. /\ main.at = "settle" /\ main'.at = "persist" /\ main'.kind = "STOP" /\ ~running
        /\ UNCHANGED <<running, binder>>
    BY <1>0, <1>12 DEF StopSettles, MainUnchanged, fields, Ending
  <2>2. ~WillRun' /\ ~WillRun
    BY <2>1 DEF WillRun, BeingStarted
  <2>3. /\ LastIn(queue', Switches, SaysOn) /\ LastIn(queue', Fills, SaysList)
        /\ NoneIn(queue', Switches) => NoneIn(queue, Switches)
    <3>1. queue' = queue \/ queue' = Append(queue, Message("DESTROY", {}))
        BY <1>12 DEF StopSettles, stopSelf
    <3>2. /\ Message("DESTROY", {}) \in Messages /\ queue \in Seq(Messages)
          /\ Message("DESTROY", {}).kind \notin Switches \cup Fills
        BY <1>0, MessageFacts DEF Kinds, Message, Switches, Fills, TypeOK
    <3>3. CASE queue' = queue
        BY <1>3, <3>3
    <3>4. CASE queue' = Append(queue, Message("DESTROY", {}))
        BY <1>3, <3>2, <3>4, LastAppended
    <3> QED
        BY <3>1, <3>3, <3>4
  <2> QED
    BY <1>1, <2>1, <2>2, <2>3, Onward DEF SavedSaid
<1>13. CASE Destroyed
  <2>1. /\ main.at = "settle" /\ main'.at = "idle" /\ main'.kind = "NULL" /\ ~running
        /\ ~saved.active /\ UNCHANGED <<running, queue, saved, binder>>
    BY <1>0, <1>13 DEF Destroyed, Word, Calm, history
  <2>2. ~WillRun' /\ ~WillRun
    BY <2>1 DEF WillRun, BeingStarted, Ending
  <2>3. SavedSaid'
    BY <2>1 DEF SavedSaid
  <2> QED
    BY <1>1, <1>3, <2>1, <2>2, <2>3, Onward
<1>14. CASE persistState
  <2>1. /\ main.at = "persist" /\ main'.at = "idle" /\ main'.kind = "NULL"
        /\ saved' = [active |-> running, domains |-> blockedDomains]
        /\ UNCHANGED <<running, queue, binder, blockedDomains>>
    BY <1>0, <1>14 DEF persistState, fields
  <2>2. (WillRun' <=> WillRun) /\ Coming' = Coming
    BY <2>1 DEF WillRun, BeingStarted, Ending, Coming
  <2>3. SavedSaid'
    BY <2>1 DEF SavedSaid
  <2> QED
    BY <1>1, <1>3, <2>1, <2>2, <2>3, Onward
<1> QED
    BY <1>2, <1>4, <1>5, <1>6, <1>7, <1>8, <1>9, <1>10, <1>11, <1>12, <1>13, <1>14 DEF MainStep

LEMMA WordHeldStep ==
    ASSUME WordHeld, [Next]_vars
    PROVE  WordHeld'
<1>0. /\ TypeOK /\ TypeOK' /\ StatusHeld' /\ Counted' /\ Staged'
      /\ Staged /\ MainIdle.at = "idle" /\ MainIdle.kind = "NULL"
    BY TypeStep, StatusHeldStep, CountedStep, StagedStep
    DEF WordHeld, StatusHeld, MainIdle, At
<1>1. ASSUME disturbed' = {}
      PROVE  Word'
  <2>0. disturbed = {} /\ Word
    BY <1>1, DisturbedGrows DEF WordHeld
  <2>1. CASE stop \/ \E list \in Lists : start(list) \/ updateBlocklist(list)
    BY <1>0, <2>0, <2>1, CommandsSaid
  <2>2. CASE MainStep
    BY <1>0, <1>1, <2>0, <2>2, MainStepSaid
  <2>3. ~BinderStep /\ ~Revoke /\ ~Kill /\ ~StickyRestart
    <3>1. binder.at = "idle" /\ binder.current /\ ~sticky
        BY <2>0 DEF Word, Calm, BinderIdle
    <3> QED
        BY <1>1, <3>1 DEF BinderStep, StopOnBinder, StopStep, RevokeSettles, Revoke, Kill,
               StickyRestart
  <2>4. CASE Reboot
    <3>1. alive /\ Quiet
        <4>1. alive
            BY <2>0, <2>4 DEF Reboot, Word, Calm
        <4>2. disturbed' = IF Quiet \/ ~alive THEN disturbed ELSE disturbed \cup {"cut"}
            BY <2>4 DEF Reboot
        <4> QED
            BY <1>1, <4>1, <4>2
    <3>2. queue = <<>> /\ main = MainIdle
        BY <3>1 DEF Quiet
    <3>3. WillRun <=> running
        BY <1>0, <3>2 DEF WillRun, BeingStarted, Ending
    <3>4. (saved.active <=> wanted.on) /\ (saved.active => saved.domains = wanted.domains)
        <4>1. NoneIn(queue, Switches) /\ NoneIn(queue, Fills)
            BY <3>2, EmptyQueue
        <4>2. (running <=> wanted.on) /\ (running => blockedDomains = wanted.domains)
            BY <1>0, <2>0, <3>1, <3>2, <3>3, <4>1 DEF Word, OnSaid, ListSaid, Coming
        <4>3. (saved.active <=> running) /\ (running => saved.domains = blockedDomains)
            BY <1>0, <2>0, <3>1, <3>2 DEF Word, SavedSaid
        <4> QED
            BY <4>2, <4>3
    <3>5. /\ alive' = FALSE /\ booting' = TRUE /\ sticky' = FALSE /\ binder' = BinderIdle
          /\ main' = MainIdle /\ queue' = <<>> /\ UNCHANGED <<saved, wanted>>
        BY <2>4 DEF Reboot, Gone
    <3>6. OnSaid' /\ ListSaid'
        BY <3>5, EmptyQueue DEF OnSaid, ListSaid
    <3> QED
        BY <1>0, <3>4, <3>5, <3>6 DEF Word, Calm, BootSaid, SavedSaid
  <2>5. CASE BootCompleted
    <3>1. /\ booting /\ booting' = FALSE /\ alive' = TRUE /\ ~running /\ main = MainIdle
          /\ UNCHANGED <<sticky, main, binder, running, blockedDomains, saved, wanted>>
          /\ queue' = IF saved.active THEN <<Message("START", saved.domains)>> ELSE <<>>
          /\ saved.domains \in SUBSET Domains
        BY <1>0, <2>5 DEF BootCompleted, fields, history, Staged, TypeOK
    <3>2. (saved.active <=> wanted.on) /\ (saved.active => saved.domains = wanted.domains)
        BY <2>0, <3>1 DEF Word, BootSaid
    <3>3. ~WillRun' /\ main'.at = "idle" /\ main'.kind = "NULL"
        BY <1>0, <3>1 DEF WillRun, BeingStarted
    <3>4. CASE saved.active
        <4> DEFINE m == Message("START", saved.domains)
        <4>1. /\ m \in Messages /\ m.kind = "START" /\ m.domains = wanted'.domains
              /\ wanted'.on
            BY <3>1, <3>2, <3>4, MessageFacts DEF Kinds, Message
        <4>2. queue' = Append(<<>>, m) /\ <<>> \in Seq(Messages)
            BY <3>1, <3>4
        <4>3. m \in SaysOn' /\ m \in SaysList' /\ m.kind \in Switches /\ m.kind \in Fills
            BY <4>1 DEF SaysOn, SaysList, Switches, Fills
        <4>4. OnSaid' /\ ListSaid'
            <5> HIDE DEF m
            <5> QED
                BY <4>1, <4>2, <4>3, LastAppended DEF OnSaid, ListSaid
        <4>5. queue' # <<>> /\ Head(queue').kind = "START"
            BY <3>1, <3>4, <4>1
        <4> QED
            BY <1>0, <2>0, <3>1, <3>3, <4>4, <4>5 DEF Word, Calm, BootSaid, SavedSaid
    <3>5. CASE ~saved.active
        <4>1. queue' = <<>> /\ ~wanted'.on
            BY <3>1, <3>2, <3>5
        <4>2. OnSaid' /\ ListSaid'
            BY <3>3, <4>1, EmptyQueue DEF OnSaid, ListSaid
        <4> QED
            BY <1>0, <2>0, <3>1, <3>3, <3>5, <4>2 DEF Word, Calm, BootSaid, SavedSaid
    <3> QED
        BY <3>4, <3>5
  <2>6. ~OpenApp
    BY <2>0 DEF OpenApp, Word, Calm
  <2>7. CASE ~(\/ stop \/ \E list \in Lists : start(list) \/ updateBlocklist(list)
               \/ MainStep \/ Reboot \/ BootCompleted)
    <3>1. UNCHANGED <<queue, main, binder, running, blockedDomains, saved, wanted, alive, booting,
                      sticky>>
        BY <2>3, <2>6, <2>7 DEF Next, vars, requestPermission, WorkerStep, EndLoop, Rewrite,
               Sinkhole, LookFurther, Forward, ReadPacket, WorkerUnchanged, fields, android,
               history
    <3>2. WillRun' = WillRun /\ Coming' = Coming /\ SaysOn' = SaysOn /\ SaysList' = SaysList
        BY <3>1 DEF WillRun, BeingStarted, Coming, SaysOn, SaysList
    <3> QED
        BY <2>0, <3>1, <3>2 DEF Word, Calm, OnSaid, ListSaid, BootSaid, SavedSaid
  <2> QED
    BY <2>1, <2>2, <2>4, <2>5, <2>7
<1> QED
    BY <1>0, <1>1 DEF WordHeld

\* When the threads have come to rest, the service runs as MainActivity last asked, with
\* the list it last handed over, through any number of commands and restarts of the
\* device, as long as no message was lost with the process, no permission withdrawn,
\* no interface refused and no start undone by the destruction that an earlier stop
\* had asked for (onStartCommand, persistState, BootReceiver).
THEOREM TheLastWordHolds == Spec => []LastWordHolds
<1>1. Init => WordHeld
  <2> SUFFICES ASSUME Init PROVE WordHeld
    OBVIOUS
  <2>1. StatusHeld /\ Counted /\ Staged
    BY InitiallyReadersHeld DEF ReadersHeld
  <2>2. /\ queue = <<>> /\ main.at = "idle" /\ main.kind = "NULL" /\ running = FALSE
        /\ binder = BinderIdle /\ sticky = FALSE /\ alive = TRUE /\ booting = FALSE
        /\ saved.active = FALSE /\ wanted.on = FALSE
    BY DEF Init, MainIdle, At
  <2>3. ~WillRun
    BY <2>2 DEF WillRun, BeingStarted
  <2>4. OnSaid /\ ListSaid
    BY <2>2, <2>3, EmptyQueue DEF OnSaid, ListSaid
  <2> QED
    BY <2>1, <2>2, <2>4 DEF WordHeld, Word, Calm, BootSaid, SavedSaid
<1>2. WordHeld /\ [Next]_vars => WordHeld'
    BY WordHeldStep
<1>3. WordHeld => LastWordHolds
  <2> SUFFICES ASSUME WordHeld, Quiet, disturbed = {}
               PROVE  running = wanted.on /\ (running => blockedDomains = wanted.domains)
    BY DEF LastWordHolds
  <2>1. /\ queue = <<>> /\ main.at = "idle" /\ main.kind = "NULL" /\ alive
        /\ OnSaid /\ ListSaid
    BY DEF Quiet, MainIdle, At, WordHeld, Word
  <2>2. NoneIn(queue, Switches) /\ NoneIn(queue, Fills)
    BY <2>1, EmptyQueue
  <2>3. (WillRun <=> running) /\ Coming = blockedDomains
    BY <2>1 DEF WillRun, BeingStarted, Ending, Coming
  <2>4. running \in BOOLEAN /\ wanted.on \in BOOLEAN
    BY DEF WordHeld, StatusHeld, TypeOK
  <2>5. (running <=> wanted.on) /\ (running => blockedDomains = wanted.domains)
    BY <2>1, <2>2, <2>3 DEF OnSaid, ListSaid
  <2> QED
    BY <2>4, <2>5
<1> QED
    BY <1>1, <1>2, <1>3, PTL DEF Spec

=============================================================================
