-------------------------- MODULE MobileGuardProofs --------------------------
(***************************************************************************)
(* Proofs about MobileGuard, for any delays, addresses, domains, requests, *)
(* ticks, failures and crashes: types, that no chain of requests is a      *)
(* shortcut, that removals stay, and that what is marked applied took      *)
(* effect.                                                                 *)
(***************************************************************************)
EXTENDS MobileGuard, TLAPS

-----------------------------------------------------------------------------
(* Requests.                                                               *)

LEMMA ActionFacts ==
    ASSUME NEW a \in Action
    PROVE  /\ a.id \in RequestIds /\ a.readyAt \in Nat /\ a.state \in {"pending", "applied"}
           /\ a.type = WebhookType => a.payload \in Webhooks
           /\ a.type = DelayType => a.payload \in Delays
           /\ a.type = RemovalType => a.payload \in Domains
           /\ a.type = RemoteType => a.payload \in RemoteUrls
    BY DEF Action, ActionOf, DisableType, RemovalType, WebhookType, RemoteType, DelayType

LEMMA MarkedOne ==
    ASSUME NEW a \in Action
    PROVE  LET b == [a EXCEPT !.state = "applied"] IN
           /\ b \in Action /\ b.state = "applied"
           /\ b.id = a.id /\ b.readyAt = a.readyAt
    BY DEF Action, ActionOf

\* Marking changes one state, of what there is.
LEMMA MarkedFacts ==
    ASSUME actions \subseteq Action, NEW id
    PROVE  /\ Marked(id) \subseteq Action
           /\ Pending(Marked(id)) \subseteq Pending(actions)
           /\ \A b \in Marked(id) : b \in actions \/ b.id = id
<1>1. ASSUME NEW b \in Marked(id)
      PROVE  /\ b \in Action /\ (b.state = "pending" => b \in actions)
             /\ b \in actions \/ b.id = id
  <2> PICK a \in actions : b = IF a.id = id THEN [a EXCEPT !.state = "applied"] ELSE a
    BY DEF Marked
  <2> QED
    BY MarkedOne
<1> QED
    BY <1>1 DEF Pending

LEMMA DelayInForceIsANumber ==
    ASSUME delay \in Delays \cup {NoDelay}
    PROVE  DelayInForce \in Nat
    BY DelaysAssumption DEF DelayInForce

LEMMA NewActionIsAnAction ==
    ASSUME DelayInForce \in Nat, now \in Nat, nextId \in RequestIds,
           NEW type, NEW payload,
           \/ type = DisableType /\ payload = NoPayload
           \/ type = RemovalType /\ payload \in Domains
           \/ type = WebhookType /\ payload \in Webhooks
           \/ type = RemoteType /\ payload \in RemoteUrls
           \/ type = DelayType /\ payload \in Delays
    PROVE  /\ NewAction(type, payload) \in Action
           /\ NewAction(type, payload).readyAt = now + DelayInForce
           /\ NewAction(type, payload).state = "pending"
<1>1. now + DelayInForce \in Nat
    OBVIOUS
<1> QED
    BY <1>1 DEF NewAction, Action, ActionOf

-----------------------------------------------------------------------------
(* Types.  A tick at work has a request it works on, the first of what it  *)
(* has left.                                                               *)

TickRecord == [stage : Stages, queue : SUBSET Action, remote : RemoteUrls \cup {NoRemoteUrl}]
ErrandRecord == [note : Notes, adds : SUBSET Action, at : {"enqueue", "flush"}]

\* What First is of each queue, Current is of each tick.
First(queue) == CHOOSE a \in queue : IsFirst(a, queue)

Typed ==
    /\ TypeOK
    /\ \A t \in Ticks :
          /\ ticks[t].stage = "idle" => ticks[t] = NoTick
          /\ ticks[t].stage # "idle" => \E a : IsFirst(a, ticks[t].queue)

LEMMA CurrentFacts ==
    ASSUME Typed, NEW t \in Ticks, ticks[t].stage # "idle"
    PROVE  /\ Current(t) = First(ticks[t].queue)
           /\ Current(t) \in ticks[t].queue /\ Current(t) \in Action
<1>1. \E a \in ticks[t].queue : IsFirst(a, ticks[t].queue)
    BY DEF Typed, IsFirst
<1>2. Current(t) = First(ticks[t].queue)
    BY DEF Current, First
<1>3. Current(t) \in ticks[t].queue
    BY <1>1 DEF Current
<1> QED
    BY <1>2, <1>3 DEF Typed, TypeOK

LEMMA NoTickIsIdle == NoTick \in TickRecord /\ NoTick.stage = "idle" /\ NoTick.queue = {}
    BY DEF NoTick, TickRecord, Stages

LEMMA TicksTyped ==
    ASSUME Typed
    PROVE  ticks \in [Ticks -> TickRecord] /\ NoTick \in TickRecord
    BY NoTickIsIdle DEF Typed, TypeOK, TickRecord

LEMMA InitiallyTyped ==
    ASSUME Init
    PROVE  Typed
<1>1. ticks \in [Ticks -> TickRecord] /\ \A t \in Ticks : ticks[t] = NoTick
    BY NoTickIsIdle DEF Init
<1>2. stopped \in [RequestIds -> 0..2]
    BY DEF Init
<1>3. nextId \in 1..(MaxRequests + 1)
    BY RequestsAssumption DEF Init
<1>4. TypeOK
    BY <1>1, <1>2, <1>3 DEF Init, TypeOK, TickRecord, Lists, NoListJob
<1> QED
    BY <1>1, <1>4, NoTickIsIdle DEF Typed

\* A step that takes one tick from a stage of its work to another.
LEMMA GotoTyped ==
    ASSUME Typed, NEW t \in Ticks, ticks[t].stage # "idle", NEW stage \in Stages \ {"idle"},
           ticks' = [ticks EXCEPT ![t].stage = stage]
    PROVE  /\ ticks' \in [Ticks -> TickRecord]
           /\ \A u \in Ticks : /\ ticks'[u].queue = ticks[u].queue
                               /\ ticks'[u].stage = IF u = t THEN stage ELSE ticks[u].stage
           /\ \A u \in Ticks :
                 /\ ticks'[u].stage = "idle" => ticks'[u] = NoTick
                 /\ ticks'[u].stage # "idle" => \E a : IsFirst(a, ticks'[u].queue)
<1>1. ticks \in [Ticks -> TickRecord]
    BY TicksTyped
<1>2. /\ ticks' \in [Ticks -> TickRecord]
      /\ \A u \in Ticks : u # t => ticks'[u] = ticks[u]
      /\ ticks'[t].stage = stage /\ ticks'[t].queue = ticks[t].queue
    BY <1>1 DEF TickRecord
<1> QED
    BY <1>2 DEF Typed

\* A step that ends a tick, and one that ends them all.
LEMMA EndTyped ==
    ASSUME Typed, NEW t \in Ticks, ticks' = [ticks EXCEPT ![t] = NoTick]
    PROVE  /\ ticks' \in [Ticks -> TickRecord]
           /\ \A u \in Ticks : ticks'[u] = IF u = t THEN NoTick ELSE ticks[u]
           /\ \A u \in Ticks :
                 /\ ticks'[u].stage = "idle" => ticks'[u] = NoTick
                 /\ ticks'[u].stage # "idle" => \E a : IsFirst(a, ticks'[u].queue)
<1>1. ticks \in [Ticks -> TickRecord] /\ NoTick \in TickRecord
    BY TicksTyped
<1>2. /\ ticks' \in [Ticks -> TickRecord]
      /\ \A u \in Ticks : ticks'[u] = IF u = t THEN NoTick ELSE ticks[u]
    BY <1>1
<1> QED
    BY <1>2, NoTickIsIdle DEF Typed

\* The loop comes to the first of a queue, or to its end.
LEMMA ReachTyped ==
    ASSUME Typed, NEW t \in Ticks, NEW queue \in SUBSET Action, Reach(t, queue)
    PROVE  /\ ticks' \in [Ticks -> TickRecord]
           /\ \A u \in Ticks : u # t => ticks'[u] = ticks[u]
           /\ ticks'[t].queue = queue
           /\ ticks'[t].stage \in {"idle", "stopping", "note"}
           /\ \A u \in Ticks :
                 /\ ticks'[u].stage = "idle" => ticks'[u] = NoTick
                 /\ ticks'[u].stage # "idle" => \E a : IsFirst(a, ticks'[u].queue)
           /\ actions' \subseteq Action /\ shown' \subseteq Action
<1>1. ticks \in [Ticks -> TickRecord] /\ actions \subseteq Action /\ shown \subseteq Action
    BY TicksTyped DEF Typed, TypeOK
<1>2. CASE queue = {} /\ ticks' = [ticks EXCEPT ![t] = NoTick]
           /\ shown' = Pending(actions) /\ UNCHANGED actions
    BY <1>1, <1>2, EndTyped, NoTickIsIdle DEF Pending
<1>3. CASE \E a \in queue : /\ IsFirst(a, queue) /\ UNCHANGED shown
                            /\ \/ /\ UNCHANGED actions
                                  /\ ticks' = [ticks EXCEPT ![t].stage = "stopping", ![t].queue = queue]
                               \/ /\ actions' = Marked(a.id)
                                  /\ ticks' = [ticks EXCEPT ![t].stage = "note", ![t].queue = queue]
  <2> PICK a \in queue : /\ IsFirst(a, queue) /\ UNCHANGED shown /\ actions' \in {actions, Marked(a.id)}
                         /\ \/ ticks' = [ticks EXCEPT ![t].stage = "stopping", ![t].queue = queue]
                            \/ ticks' = [ticks EXCEPT ![t].stage = "note", ![t].queue = queue]
    BY <1>3
  <2>1. actions' \subseteq Action
    BY <1>1, MarkedFacts
  <2>2. /\ ticks' \in [Ticks -> TickRecord] /\ \A u \in Ticks : u # t => ticks'[u] = ticks[u]
        /\ ticks'[t].queue = queue /\ ticks'[t].stage \in {"stopping", "note"}
    BY <1>1 DEF TickRecord, Stages
  <2> QED
    BY <1>1, <2>1, <2>2 DEF Typed
<1> QED
    BY <1>2, <1>3 DEF Reach

\* A tick either takes its request to the next stage or throws.
LEMMA TickTyped ==
    ASSUME Typed, NEW t \in Ticks, Tick(t)
    PROVE  Typed'
<1>0. TypeOK /\ ticks \in [Ticks -> TickRecord]
    BY TicksTyped DEF Typed
<1>1. ASSUME NEW queue \in SUBSET Action, Reach(t, queue) PROVE Typed'
  <2>1. /\ ticks' \in [Ticks -> TickRecord]
        /\ \A u \in Ticks :
              /\ ticks'[u].stage = "idle" => ticks'[u] = NoTick
              /\ ticks'[u].stage # "idle" => \E a : IsFirst(a, ticks'[u].queue)
        /\ actions' \subseteq Action /\ shown' \subseteq Action
    BY <1>1, ReachTyped
  <2>2. UNCHANGED <<now, prefs, setup, service, up, broken, listJob, notes, history>>
    BY <1>1 DEF Reach
  <2> QED
    BY <1>0, <2>1, <2>2 DEF Typed, TypeOK, TickRecord, prefs, service, notes, history
<1>2. TimerFires(t) \/ NextAction(t) => Typed'
  <2>1. {a \in actions : isReadyToApply(a)} \in SUBSET Action
        /\ ticks[t].queue \ {Current(t)} \in SUBSET Action
    BY <1>0 DEF TypeOK
  <2> QED
    BY <1>1, <2>1 DEF TimerFires, NextAction
<1> SUFFICES ASSUME ~TimerFires(t), ~NextAction(t)
             PROVE  Typed'
    BY <1>2
<1>3. ticks[t].stage # "idle"
    BY DEF Tick, VpnStops, MarkStopped, EnqueueApplied, Commit, FlushThrows, FetchList,
           SyncList, At
<1>4. Current(t) \in Action /\ Current(t).id \in RequestIds
    BY <1>3, CurrentFacts, ActionFacts
<1> DEFINE TicksFine ==
      /\ ticks' \in [Ticks -> TickRecord] /\ broken' \in BOOLEAN
      /\ \A u \in Ticks :
            /\ ticks'[u].stage = "idle" => ticks'[u] = NoTick
            /\ ticks'[u].stage # "idle" => \E a : IsFirst(a, ticks'[u].queue)
<1>5. ASSUME Throws(t) PROVE TicksFine
    BY <1>5, EndTyped DEF Throws
<1>6. ASSUME NEW stage \in Stages \ {"idle"}, Goto(t, stage) PROVE TicksFine
    BY <1>0, <1>3, <1>6, GotoTyped DEF Goto, TypeOK
<1>7. {"stopped", "note", "flush", "fetch", "next"} \subseteq Stages \ {"idle"}
    BY DEF Stages
<1>8. CASE VpnStops(t)
  <2>1. TicksFine
    BY <1>5, <1>6, <1>7, <1>8 DEF VpnStops
  <2>2. stopped' \in [RequestIds -> 0..2] /\ took' \subseteq RequestIds /\ vpn' \in BOOLEAN
    <3>1. [stopped EXCEPT ![Current(t).id] = @ + 1] \in [RequestIds -> 0..2]
          \/ ~(stopped[Current(t).id] < 2)
        BY <1>0, <1>4 DEF TypeOK
    <3> QED
        BY <1>0, <1>4, <1>8, <3>1 DEF VpnStops, TypeOK
  <2> QED
    BY <1>0, <1>8, <2>1, <2>2 DEF VpnStops, Typed, TypeOK, TickRecord, prefs, notes
<1>9. CASE MarkStopped(t)
  <2>1. TicksFine
    BY <1>5, <1>6, <1>7, <1>9 DEF MarkStopped
  <2>2. actions' \subseteq Action
    BY <1>0, <1>9, MarkedFacts DEF MarkStopped, TypeOK
  <2> QED
    BY <1>0, <1>9, <2>1, <2>2
    DEF MarkStopped, Typed, TypeOK, TickRecord, prefs, service, notes, history
<1>10. CASE EnqueueApplied(t)
  <2>1. TicksFine
    BY <1>5, <1>6, <1>7, <1>10 DEF EnqueueApplied
  <2>2. Note("applied", Current(t).id, webhook) \in Notes
    BY <1>0, <1>4, RequestsAssumption DEF Note, Notes, TypeOK, RequestIds
  <2> QED
    BY <1>0, <1>10, <2>1, <2>2
    DEF EnqueueApplied, Typed, TypeOK, TickRecord, prefs, service, history
<1>11. CASE Commit(t)
  <2>1. TicksFine
    BY <1>6, <1>7, <1>11 DEF Commit
  <2>2. /\ webhook' \in Webhooks \cup {NoWebhook} /\ delay' \in Delays \cup {NoDelay}
        /\ removed' \subseteq Domains /\ remote' \in RemoteUrls \cup {NoRemoteUrl}
        /\ took' \subseteq RequestIds
    BY <1>0, <1>4, <1>11, ActionFacts DEF Commit, TypeOK
  <2> QED
    BY <1>0, <1>11, <2>1, <2>2 DEF Commit, Typed, TypeOK, TickRecord, service, notes
<1>12. CASE FlushThrows(t)
  <2>1. TicksFine
    BY <1>5, <1>12 DEF FlushThrows
  <2> QED
    BY <1>0, <1>12, <2>1
    DEF FlushThrows, Typed, TypeOK, TickRecord, prefs, service, notes, history
<1>13. CASE FetchList(t)
  <2>1. TicksFine
    <3>1. ticks' = [ticks EXCEPT ![t].stage = "sync", ![t].remote = remote] /\ UNCHANGED broken
        BY <1>13 DEF FetchList
    <3>2. /\ ticks' \in [Ticks -> TickRecord] /\ \A u \in Ticks : u # t => ticks'[u] = ticks[u]
          /\ ticks'[t].stage = "sync" /\ ticks'[t].queue = ticks[t].queue
        BY <1>0, <3>1 DEF TickRecord, Stages, TypeOK
    <3> QED
        BY <1>0, <1>3, <3>1, <3>2 DEF Typed, TypeOK
  <2> QED
    BY <1>0, <1>13, <2>1
    DEF FetchList, Typed, TypeOK, TickRecord, prefs, service, notes, history
<1>14. CASE SyncList(t)
  <2>1. TicksFine
    BY <1>5, <1>6, <1>7, <1>14 DEF SyncList
  <2>2. synced' \in Lists
    BY <1>0, <1>14 DEF SyncList, Computed, Lists, TypeOK, TickRecord
  <2> QED
    BY <1>0, <1>14, <2>1, <2>2
    DEF SyncList, Typed, TypeOK, TickRecord, prefs, notes, history
<1> QED
    BY <1>8, <1>9, <1>10, <1>11, <1>12, <1>13, <1>14 DEF Tick

LEMMA TypeStep ==
    ASSUME Typed, [Next]_vars
    PROVE  Typed'
<1>0. /\ TypeOK /\ ticks \in [Ticks -> TickRecord] /\ NoTick \in TickRecord
      /\ DelayInForce \in Nat
    BY TicksTyped, DelayInForceIsANumber DEF Typed, TypeOK
<1>1. ASSUME NEW type, NEW payload, Request(type, payload),
             \/ type = DisableType /\ payload = NoPayload
             \/ type = RemovalType /\ payload \in Domains
             \/ type = WebhookType /\ payload \in Webhooks
             \/ type = RemoteType /\ payload \in RemoteUrls
             \/ type = DelayType /\ payload \in Delays
      PROVE  Typed'
  <2>1. NewAction(type, payload) \in Action /\ nextId \in RequestIds
    BY <1>0, <1>1, NewActionIsAnAction DEF Request, TypeOK
  <2>2. Errand("requested", nextId, webhook,
               IF type = DisableType THEN {NewAction(type, payload)} ELSE {}) \in ErrandRecord
    BY <1>0, <2>1, RequestsAssumption DEF Errand, Note, ErrandRecord, Notes, TypeOK, RequestIds
  <2>3. nextId + 1 \in 1..(MaxRequests + 1)
    BY <2>1, RequestsAssumption DEF RequestIds
  <2>4. /\ actions' \subseteq Action /\ errands' \subseteq ErrandRecord
        /\ nextId' \in 1..(MaxRequests + 1) /\ base' \in [at : Nat, delay : Nat]
    BY <1>0, <1>1, <2>1, <2>2, <2>3 DEF Request, TypeOK, ErrandRecord
  <2> QED
    BY <1>1, <2>4 DEF Request, Typed, TypeOK, ErrandRecord, prefs, service, work
<1>2. ASSUME NEW id \in RequestIds, Cancel(id) PROVE Typed'
  <2>1. Errand("cancelled", id, NoWebhook, {}) \in ErrandRecord
    BY RequestsAssumption DEF Errand, Note, ErrandRecord, Notes, RequestIds
  <2> QED
    BY <1>2, <2>1 DEF Cancel, Typed, TypeOK, ErrandRecord, prefs, service, work, history
<1>3. ASSUME NEW e \in errands, Enqueue(e) PROVE Typed'
  <2>1. e \in ErrandRecord /\ webhook \in Webhooks \cup {NoWebhook}
    BY <1>0 DEF TypeOK, ErrandRecord
  <2>2. /\ [e EXCEPT !.at = "flush"] \in ErrandRecord
        /\ Note(e.note.kind, e.note.id,
                IF e.note.kind = "cancelled" THEN webhook ELSE e.note.url) \in Notes
    BY <2>1 DEF ErrandRecord, Notes, Note
  <2> QED
    BY <1>3, <2>2 DEF Enqueue, Typed, TypeOK, ErrandRecord, prefs, service, work, history
<1>4. ASSUME NEW e \in errands, ErrandEnds(e) PROVE Typed'
  <2>1. e.adds \subseteq Action
    BY <1>0 DEF TypeOK
  <2> QED
    BY <1>4, <2>1 DEF ErrandEnds, Typed, TypeOK, Pending, prefs, service, work, history
<1>5. CASE SetPin
    BY <1>5 DEF SetPin, Typed, TypeOK, prefs, service, work, notes, history
<1>6. CASE SaveWebhook
    BY <1>6 DEF SaveWebhook, Typed, TypeOK, service, work, notes, history
<1>7. CASE SaveDelay
  <2>1. Errand("configured", 0, webhook, {}) \in ErrandRecord
    BY <1>0, RequestsAssumption DEF Errand, Note, ErrandRecord, Notes, TypeOK
  <2> QED
    BY <1>7, <2>1 DEF SaveDelay, Typed, TypeOK, ErrandRecord, service, work, history
<1>8. CASE Crash
  <2>1. ticks' \in [Ticks -> TickRecord] /\ \A t \in Ticks : ticks'[t] = NoTick
    BY <1>0, <1>8 DEF Crash
  <2>2. TypeOK'
    BY <1>0, <1>8, <2>1 DEF Crash, TypeOK, TickRecord, NoListJob, prefs, service, history
  <2> QED
    BY <2>1, <2>2, NoTickIsIdle DEF Typed
<1>9. CASE Launch
    BY <1>9 DEF Launch, Typed, TypeOK, prefs, service, work, notes
<1>10. ASSUME NEW for \in ListJobs, BeginListJob(for) PROVE Typed'
    BY <1>10 DEF BeginListJob, Typed, TypeOK, prefs, service, work, notes, history
<1>11. CASE EndListJob
  <2>1. Computed(listJob.remote) \subseteq Lists
    BY <1>0 DEF TypeOK, Computed, Lists
  <2> QED
    BY <1>11, <2>1 DEF EndListJob, Typed, TypeOK, NoListJob, prefs, service, work, notes, history
<1>12. CASE ClockAdvances
    BY <1>12 DEF ClockAdvances, Typed, TypeOK, prefs, service, work, notes, history
<1>13. ASSUME NEW t \in Ticks, Tick(t) PROVE Typed'
    BY <1>13, TickTyped
<1>14. CASE UNCHANGED vars
    BY <1>14 DEF Typed, TypeOK, vars, prefs, service, work, notes, history
<1> QED
    BY <1>1, <1>2, <1>3, <1>4, <1>5, <1>6, <1>7, <1>8, <1>9, <1>10, <1>11, <1>12, <1>13, <1>14
    DEF Next, Ask

\* Requests, ticks, notes and preferences are of their kinds
\* (pending_action.dart, accountability_repository.dart).
THEOREM TypeCorrect == Spec => []TypeOK
<1>1. Init => Typed
    BY InitiallyTyped
<1>2. Typed /\ [Next]_vars => Typed'
    BY TypeStep
<1>3. Typed => TypeOK
    BY DEF Typed
<1> QED
    BY <1>1, <1>2, <1>3, PTL DEF Spec

-----------------------------------------------------------------------------
(* No shortcut.  What waits is due no earlier than the base terms, a tick  *)
(* at work means that they have run out, and until they have the delay in  *)
(* force cannot have become shorter.  Before the setup has ended nothing   *)
(* has been asked for, and the delay is the default one.                   *)

Due == base.at + base.delay

Chain ==
    /\ Typed
    /\ base.at <= now
    /\ setup # "done" => delay = NoDelay /\ Open = {} /\ base.delay = 0
    /\ \A a \in Pending(actions) : a.readyAt >= Due
    /\ \A t \in Ticks : ticks[t].queue # {} => now > Due
    /\ now <= Due => DelayInForce >= base.delay

LEMMA OpenFacts ==
    Open = {} <=> Pending(actions) = {} /\ \A t \in Ticks : ticks[t].queue = {}
    BY DEF Open

\* A step that adds no request and gives no tick work keeps the chain.
LEMMA NothingNew ==
    ASSUME Chain, Typed', UNCHANGED <<now, base, delay>>,
           setup' # "done" => setup # "done",
           Pending(actions)' \subseteq Pending(actions),
           \A t \in Ticks : ticks'[t].queue \subseteq ticks[t].queue
    PROVE  Chain'
<1>1. \A t \in Ticks : ticks'[t].queue # {} => ticks[t].queue # {}
    OBVIOUS
<1>2. setup' # "done" => Open' = {}
    BY OpenFacts DEF Chain, Open
<1> QED
    BY <1>1, <1>2 DEF Chain, Due, DelayInForce

LEMMA TimesAreNumbers ==
    ASSUME TypeOK
    PROVE  /\ now \in Nat /\ base.at \in Nat /\ base.delay \in Nat /\ Due \in Nat
           /\ DelayInForce \in Nat
    BY DelayInForceIsANumber DEF TypeOK, Due

LEMMA PendingIsReady ==
    ASSUME NEW a \in actions, isReadyToApply(a)
    PROVE  a \in Pending(actions) /\ now > a.readyAt
    BY DEF isReadyToApply, Pending

LEMMA ReachChain ==
    ASSUME Chain, Typed', NEW t \in Ticks, NEW queue \in SUBSET Action, Reach(t, queue),
           queue # {} => now > Due /\ setup = "done"
    PROVE  Chain'
<1>1. /\ \A u \in Ticks : u # t => ticks'[u] = ticks[u]
      /\ ticks'[t].queue = queue
    BY ReachTyped DEF Chain
<1>2. UNCHANGED <<now, base, delay, setup>>
    BY DEF Reach, prefs, history
<1>3. Pending(actions)' \subseteq Pending(actions)
    BY MarkedFacts DEF Reach, Chain, Typed, TypeOK, Pending
<1>4. \A u \in Ticks : ticks'[u].queue # {} => now > Due
    BY <1>1 DEF Chain
<1>5. setup # "done" => Open' = {}
    BY <1>1, <1>3, OpenFacts DEF Chain, Open
<1> QED
    BY <1>2, <1>3, <1>4, <1>5 DEF Chain, Due, DelayInForce

LEMMA TickChain ==
    ASSUME Chain, Typed', NEW t \in Ticks, Tick(t)
    PROVE  Chain'
<1>0. Typed /\ TypeOK
    BY DEF Chain, Typed
<1>1. CASE TimerFires(t)
  <2> DEFINE queue == {a \in actions : isReadyToApply(a)}
  <2>1. queue \in SUBSET Action /\ Reach(t, queue) /\ setup = "done"
    BY <1>0, <1>1 DEF TimerFires, TypeOK, Dashboard
  <2>2. queue # {} => now > Due
    <3> SUFFICES ASSUME NEW a \in queue PROVE now > Due
        OBVIOUS
    <3>1. a \in Pending(actions) /\ now > a.readyAt /\ a.readyAt \in Nat
        BY <2>1, PendingIsReady, ActionFacts
    <3> QED
        BY <1>0, <3>1, TimesAreNumbers DEF Chain
  <2> HIDE DEF queue
  <2> QED
    BY <2>1, <2>2, ReachChain
<1>2. CASE NextAction(t)
  <2> DEFINE queue == ticks[t].queue \ {Current(t)}
  <2>1. queue \in SUBSET Action /\ Reach(t, queue) /\ ticks[t].queue # {}
    BY <1>0, <1>2, CurrentFacts DEF NextAction, TypeOK, At
  <2>2. now > Due /\ setup = "done"
    BY <2>1, OpenFacts DEF Chain
  <2> HIDE DEF queue
  <2> QED
    BY <2>1, <2>2, ReachChain
<1> SUFFICES ASSUME ~TimerFires(t), ~NextAction(t)
             PROVE  Chain'
    BY <1>1, <1>2
<1>3. ticks[t].stage # "idle"
    BY DEF Tick, VpnStops, MarkStopped, EnqueueApplied, Commit, FlushThrows, FetchList,
           SyncList, At
<1>4. now > Due /\ setup = "done"
    BY <1>3, CurrentFacts, OpenFacts DEF Chain
<1>5. \A u \in Ticks : ticks'[u].queue \subseteq ticks[u].queue
    BY <1>0, TicksTyped, NoTickIsIdle
    DEF Tick, VpnStops, MarkStopped, EnqueueApplied, Commit, FlushThrows, FetchList,
        SyncList, Goto, Throws, TickRecord
<1>6. UNCHANGED <<now, base, setup>>
    BY DEF Tick, VpnStops, MarkStopped, EnqueueApplied, Commit, FlushThrows, FetchList,
           SyncList, history
<1>7. Pending(actions)' \subseteq Pending(actions)
    BY <1>0, MarkedFacts
    DEF Tick, VpnStops, MarkStopped, EnqueueApplied, Commit, FlushThrows, FetchList,
        SyncList, TypeOK, Pending
<1> QED
    BY <1>4, <1>5, <1>6, <1>7, TimesAreNumbers, <1>0 DEF Chain, Due

LEMMA ChainStep ==
    ASSUME Chain, [Next]_vars
    PROVE  Chain'
<1>0. Typed /\ Typed' /\ TypeOK
    BY TypeStep DEF Chain, Typed
<1>1. ASSUME NEW type, NEW payload, Request(type, payload)
      PROVE  Chain'
  <2> DEFINE a == NewAction(type, payload)
  <2>1. /\ a.readyAt = now + DelayInForce /\ a.state = "pending"
        /\ Pending(actions)' = Pending(actions) \cup {a}
        /\ UNCHANGED <<now, delay, setup, ticks>> /\ setup = "done"
    BY <1>1 DEF Request, NewAction, Pending, prefs, work, Dashboard
  <2>2. CASE Open = {}
    <3>1. base'.at = now /\ base'.delay = DelayInForce
        BY <1>1, <2>2 DEF Request
    <3>2. Pending(actions) = {} /\ \A t \in Ticks : ticks[t].queue = {}
        BY <2>2, OpenFacts
    <3> QED
        BY <1>0, <2>1, <3>1, <3>2, TimesAreNumbers DEF Chain, Due, DelayInForce
  <2>3. CASE Open # {}
    <3>1. UNCHANGED base
        BY <1>1, <2>3 DEF Request
    <3>2. a.readyAt >= Due
        BY <1>0, <2>1, TimesAreNumbers DEF Chain, Due
    <3> QED
        BY <1>0, <2>1, <3>1, <3>2 DEF Chain, Due, DelayInForce
  <2> QED
    BY <2>2, <2>3
<1>2. ASSUME NEW id \in RequestIds, Cancel(id) PROVE Chain'
    BY <1>0, <1>2, NothingNew DEF Cancel, Pending, prefs, work, history
<1>3. ASSUME NEW e \in errands, Enqueue(e) PROVE Chain'
    BY <1>0, <1>3, NothingNew DEF Enqueue, Pending, prefs, work, history
<1>4. ASSUME NEW e \in errands, ErrandEnds(e) PROVE Chain'
    BY <1>0, <1>4, NothingNew DEF ErrandEnds, Pending, prefs, work, history
<1>5. CASE SetPin
    BY <1>0, <1>5, NothingNew DEF SetPin, Pending, prefs, work, history
<1>6. CASE SaveWebhook
    BY <1>0, <1>6, NothingNew DEF SaveWebhook, Pending, work, history
<1>7. CASE SaveDelay
  <2>1. /\ delay' \in Delays /\ DelayInForce' \in Nat /\ base.delay = 0
        /\ UNCHANGED <<now, base, actions, ticks>> /\ setup' = "done" /\ Open = {}
    BY <1>7, DelaysAssumption DEF SaveDelay, Chain, DelayInForce, work, history
  <2> QED
    BY <1>0, <2>1, OpenFacts DEF Chain, Due, Pending
<1>8. CASE Crash
  <2>1. \A t \in Ticks : ticks'[t].queue = {}
    BY <1>8, NoTickIsIdle DEF Crash
  <2> QED
    BY <1>0, <1>8, <2>1, NothingNew DEF Crash, Pending, prefs, history
<1>9. CASE Launch
    BY <1>0, <1>9, NothingNew DEF Launch, Pending, prefs, work
<1>10. ASSUME NEW for \in ListJobs, BeginListJob(for) PROVE Chain'
    BY <1>0, <1>10, NothingNew DEF BeginListJob, Pending, prefs, work, history
<1>11. CASE EndListJob
    BY <1>0, <1>11, NothingNew DEF EndListJob, Pending, prefs, work, history
<1>12. CASE ClockAdvances
  <2>1. now' = now + 1 /\ UNCHANGED <<base, delay, setup, actions, ticks>>
    BY <1>12 DEF ClockAdvances, prefs, work, history
  <2> QED
    BY <1>0, <2>1, TimesAreNumbers DEF Chain, Due, DelayInForce, Open, Pending
<1>13. ASSUME NEW t \in Ticks, Tick(t) PROVE Chain'
    BY <1>0, <1>13, TickChain
<1>14. CASE UNCHANGED vars
    BY <1>0, <1>14, NothingNew DEF vars, prefs, work, history, Pending
<1> QED
    BY <1>1, <1>2, <1>3, <1>4, <1>5, <1>6, <1>7, <1>8, <1>9, <1>10, <1>11, <1>12, <1>13, <1>14
    DEF Next, Ask

\* However requests are chained, cancelled and overlapped, and whatever throws or
\* dies: nothing is weakened before the delay in force at the oldest connected
\* request has gone by (createPendingAction, call).
THEOREM ChainsGainNothing == Spec => NoShortcut
<1>1. Init => Chain
  <2> SUFFICES ASSUME Init PROVE Chain
    OBVIOUS
  <2>1. /\ now = 0 /\ base.at = 0 /\ base.delay = 0 /\ Pending(actions) = {} /\ delay = NoDelay
        /\ \A t \in Ticks : ticks[t].queue = {}
    BY NoTickIsIdle DEF Init, Pending
  <2>2. Open = {}
    BY <2>1, OpenFacts
  <2>3. DelayInForce \in Nat
    BY <2>1, DelayInForceIsANumber
  <2> QED
    BY <2>1, <2>2, <2>3, InitiallyTyped DEF Chain
<1>2. Chain /\ [Next]_vars => Chain'
    BY ChainStep
<1>3. Chain /\ [Next]_vars => [Weakens => now > base.at + base.delay]_vars
  <2> SUFFICES ASSUME Chain, Next, Weakens
               PROVE  now > Due
    BY DEF Due
  <2>1. CASE \E t \in Ticks : Tick(t)
    <3> PICK t \in Ticks : Tick(t)
        BY <2>1
    <3>1. VpnStops(t) \/ Commit(t)
        BY DEF Weakens, Tick, TimerFires, NextAction, Reach, MarkStopped, EnqueueApplied,
               FlushThrows, FetchList, SyncList, prefs, service
    <3>2. ticks[t].stage # "idle"
        BY <3>1 DEF VpnStops, Commit, At
    <3> QED
        BY <3>2, CurrentFacts DEF Chain
  <2>2. CASE ~\E t \in Ticks : Tick(t)
    <3>1. UNCHANGED prefs \/ setup # "done"
        BY <2>2 DEF Next, Ask, SetPin, SaveWebhook, SaveDelay, Crash, Launch, Request, Cancel,
                    Enqueue, ErrandEnds, BeginListJob, EndListJob, ClockAdvances
    <3>2. vpn => vpn'
        BY <2>2 DEF Next, Ask, SetPin, SaveWebhook, SaveDelay, Crash, Launch, Request, Cancel,
                    Enqueue, ErrandEnds, BeginListJob, EndListJob, ClockAdvances, service
    <3> QED
        BY <3>1, <3>2 DEF Weakens, prefs
  <2> QED
    BY <2>1, <2>2
<1> QED
    BY <1>1, <1>2, <1>3, PTL DEF Spec, NoShortcut

-----------------------------------------------------------------------------
(* Removals.  No list that is in the service lets more through than what   *)
(* has been approved, and what is approved stays.                          *)

Approved == synced.removed \subseteq removed

LEMMA ApprovedStep ==
    ASSUME Approved, [Next]_vars
    PROVE  /\ Approved'
           /\ synced' = synced \/ synced.removed \subseteq synced'.removed
<1>1. removed \subseteq removed'
    BY DEF Next, vars, Ask, SetPin, SaveWebhook, SaveDelay, Crash, Launch, Request, Cancel,
           Enqueue, ErrandEnds, BeginListJob, EndListJob, ClockAdvances, Tick, TimerFires,
           NextAction, Reach, VpnStops, MarkStopped, EnqueueApplied, Commit, FlushThrows,
           FetchList, SyncList, prefs
<1>2. \A address : \A list \in Computed(address) : list.removed = removed
    BY DEF Computed
<1>3. synced' = synced \/ synced'.removed = removed
  <2>1. CASE EndListJob
    BY <1>2, <2>1 DEF EndListJob, service
  <2>2. ASSUME NEW t \in Ticks, Tick(t) PROVE synced' = synced \/ synced'.removed = removed
    BY <1>2, <2>2 DEF Tick, TimerFires, NextAction, Reach, VpnStops, MarkStopped,
           EnqueueApplied, Commit, FlushThrows, FetchList, SyncList, service
  <2>3. CASE ~EndListJob /\ ~\E t \in Ticks : Tick(t)
    BY <2>3 DEF Next, vars, Ask, SetPin, SaveWebhook, SaveDelay, Crash, Launch, Request,
           Cancel, Enqueue, ErrandEnds, BeginListJob, ClockAdvances, service
  <2> QED
    BY <2>1, <2>2, <2>3
<1> QED
    BY <1>1, <1>3 DEF Approved

\* However lists overtake each other on their way to the VPN service, a domain that
\* it lets through is not blocked again by an older list (effectiveBlockedDomains).
THEOREM RemovalsNeverRevert == Spec => RemovalsStay
<1>1. Init => Approved
    BY DEF Init, Approved
<1>2. Approved /\ [Next]_vars => Approved'
    BY ApprovedStep
<1>3. Approved /\ [Next]_vars => [synced.removed \subseteq synced'.removed]_vars
    BY ApprovedStep
<1> QED
    BY <1>1, <1>2, <1>3, PTL DEF Spec, RemovalsStay

-----------------------------------------------------------------------------
(* Effects.  Past its commit a tick's request has taken effect, so that    *)
(* what it lets go of has.                                                 *)

PastEffect == {"stopped", "fetch", "sync", "next"}

Effective ==
    /\ Typed
    /\ \A t \in Ticks : ticks[t].stage \in PastEffect => First(ticks[t].queue).id \in took
    /\ AppliedTookEffect

\* A step that marks nothing and takes no request from a tick.
LEMMA NothingLetGo ==
    ASSUME Effective, Typed', broken => broken', took \subseteq took',
           broken' \/ \A a \in actions' : a.state = "applied" => a \in actions,
           \A t \in Ticks : \/ /\ ticks'[t].queue = ticks[t].queue
                               /\ ticks'[t].stage \in PastEffect =>
                                     ticks[t].stage \in PastEffect
                            \/ ticks'[t] = NoTick /\ broken'
    PROVE  Effective'
<1>1. \A t \in Ticks : ticks'[t].stage \in PastEffect => First(ticks'[t].queue).id \in took'
    BY NoTickIsIdle DEF Effective, PastEffect
<1>2. ~broken' => \A id : Held(id) => Held(id)'
    BY DEF Held
<1>3. AppliedTookEffect'
    BY <1>2 DEF Effective, AppliedTookEffect
<1> QED
    BY <1>1, <1>3 DEF Effective

\* A step in which a tick goes on with its request, and only took grows.
LEMMA GoesOn ==
    ASSUME Effective, Typed', NEW t \in Ticks, ticks[t].stage # "idle",
           NEW stage \in Stages \ {"idle"}, Goto(t, stage),
           took \subseteq took', stage \in PastEffect => First(ticks[t].queue).id \in took',
           \A b \in actions' : b.state = "applied" => b \in actions \/ b.id \in took'
    PROVE  Effective'
<1>1. /\ \A u \in Ticks : /\ ticks'[u].queue = ticks[u].queue
                          /\ ticks'[u].stage = IF u = t THEN stage ELSE ticks[u].stage
      /\ UNCHANGED broken
    BY GotoTyped DEF Effective, Goto
<1>2. \A u \in Ticks : ticks'[u].stage \in PastEffect => First(ticks'[u].queue).id \in took'
    BY <1>1 DEF Effective
<1>3. \A id : Held(id) => Held(id)'
    BY <1>1 DEF Held
<1>4. AppliedTookEffect'
    BY <1>1, <1>3 DEF Effective, AppliedTookEffect
<1> QED
    BY <1>2, <1>4 DEF Effective

LEMMA ReachEffective ==
    ASSUME Effective, Typed', NEW t \in Ticks, NEW queue \in SUBSET Action, Reach(t, queue),
           \A id \in IdsOf(ticks[t].queue) : id \in took \/ id \in IdsOf(queue)
    PROVE  Effective'
<1>1. /\ \A u \in Ticks : u # t => ticks'[u] = ticks[u]
      /\ ticks'[t].queue = queue /\ ticks'[t].stage \in {"idle", "stopping", "note"}
    BY ReachTyped DEF Effective
<1>2. UNCHANGED <<broken, took>>
    BY DEF Reach, history
<1>3. \A u \in Ticks : ticks'[u].stage \in PastEffect => First(ticks'[u].queue).id \in took'
    BY <1>1, <1>2 DEF Effective, PastEffect
<1>4. \A id : Held(id) => Held(id)' \/ id \in took
    BY <1>1 DEF Held
<1>5. ASSUME NEW b \in actions', b.state = "applied"
      PROVE  b \in actions \/ Held(b.id)'
  <2>1. b \in actions \/ \E a \in queue : b.id = a.id
    BY <1>5, MarkedFacts DEF Reach, IsFirst, Effective, Typed, TypeOK
  <2> QED
    BY <1>1, <2>1 DEF Held, IdsOf
<1>6. AppliedTookEffect'
    BY <1>2, <1>4, <1>5 DEF Effective, AppliedTookEffect
<1> QED
    BY <1>3, <1>6 DEF Effective

LEMMA ThrowsEffective ==
    ASSUME Effective, Typed', NEW t \in Ticks, Throws(t), UNCHANGED <<actions, took>>
    PROVE  Effective'
<1>1. \A u \in Ticks : ticks'[u] = IF u = t THEN NoTick ELSE ticks[u]
    BY EndTyped DEF Effective, Throws
<1> QED
    BY <1>1, NothingLetGo DEF Throws

LEMMA TickEffective ==
    ASSUME Effective, Typed', NEW t \in Ticks, Tick(t)
    PROVE  Effective'
<1>0. Typed /\ TypeOK
    BY DEF Effective, Typed
<1>1. CASE TimerFires(t)
  <2> DEFINE queue == {a \in actions : isReadyToApply(a)}
  <2>1. queue \in SUBSET Action /\ Reach(t, queue) /\ ticks[t].queue = {}
    BY <1>0, <1>1, NoTickIsIdle DEF TimerFires, Typed, TypeOK
  <2> HIDE DEF queue
  <2> QED
    BY <2>1, ReachEffective DEF IdsOf
<1>2. CASE NextAction(t)
  <2> DEFINE queue == ticks[t].queue \ {Current(t)}
  <2>1. queue \in SUBSET Action /\ Reach(t, queue) /\ ticks[t].stage = "next"
    BY <1>0, <1>2 DEF NextAction, TypeOK, At
  <2>2. Current(t).id \in took
    BY <1>0, <2>1, CurrentFacts DEF Effective, PastEffect
  <2>3. \A id \in IdsOf(ticks[t].queue) : id \in took \/ id \in IdsOf(queue)
    BY <2>2 DEF IdsOf
  <2> HIDE DEF queue
  <2> QED
    BY <2>1, <2>3, ReachEffective
<1> SUFFICES ASSUME ~TimerFires(t), ~NextAction(t)
             PROVE  Effective'
    BY <1>1, <1>2
<1>3. ticks[t].stage # "idle"
    BY DEF Tick, VpnStops, MarkStopped, EnqueueApplied, Commit, FlushThrows, FetchList,
           SyncList, At
<1>4. Current(t) = First(ticks[t].queue)
    BY <1>0, <1>3, CurrentFacts
<1>5. {"stopped", "note", "flush", "fetch", "next"} \subseteq Stages \ {"idle"}
    BY DEF Stages
<1>6. CASE VpnStops(t)
  <2>1. CASE Throws(t) /\ UNCHANGED <<vpn, took, stopped>>
    BY <1>6, <2>1, ThrowsEffective DEF VpnStops
  <2>2. CASE Goto(t, "stopped") /\ took' = took \cup {Current(t).id}
    BY <1>3, <1>4, <1>5, <1>6, <2>2, GoesOn DEF VpnStops
  <2> QED
    BY <1>6, <2>1, <2>2 DEF VpnStops
<1>7. CASE MarkStopped(t)
  <2>1. CASE Throws(t) /\ UNCHANGED actions
    BY <1>7, <2>1, ThrowsEffective DEF MarkStopped, history
  <2>2. CASE actions' = Marked(Current(t).id) /\ Goto(t, "note")
    <3>1. Current(t).id \in took /\ UNCHANGED took
        BY <1>4, <1>7 DEF MarkStopped, At, Effective, PastEffect, history
    <3>2. \A b \in actions' : b \in actions \/ b.id \in took'
        BY <1>0, <2>2, <3>1, MarkedFacts DEF TypeOK
    <3> QED
        BY <1>3, <1>5, <2>2, <3>1, <3>2, GoesOn DEF PastEffect
  <2> QED
    BY <1>7, <2>1, <2>2 DEF MarkStopped
<1>8. CASE EnqueueApplied(t)
  <2>1. CASE Throws(t)
    BY <1>8, <2>1, ThrowsEffective DEF EnqueueApplied, history
  <2>2. CASE Goto(t, "flush")
    BY <1>3, <1>5, <1>8, <2>2, GoesOn DEF EnqueueApplied, PastEffect, history
  <2> QED
    BY <1>8, <2>1, <2>2 DEF EnqueueApplied
<1>9. CASE Commit(t)
  <2>1. \E stage \in {"fetch", "next"} : Goto(t, stage)
    BY <1>9 DEF Commit
  <2> QED
    BY <1>3, <1>4, <1>5, <1>9, <2>1, GoesOn DEF Commit
<1>10. CASE FlushThrows(t)
    BY <1>10, ThrowsEffective DEF FlushThrows, history
<1>11. CASE FetchList(t)
  <2>1. \A u \in Ticks : /\ ticks'[u].queue = ticks[u].queue
                         /\ ticks'[u].stage = IF u = t THEN "sync" ELSE ticks[u].stage
    BY <1>0, <1>11, TicksTyped DEF FetchList, TickRecord
  <2>2. UNCHANGED <<actions, took, broken>>
    BY <1>11 DEF FetchList, history
  <2>3. ticks[t].stage \in PastEffect
    BY <1>11 DEF FetchList, At, PastEffect
  <2> QED
    BY <2>1, <2>2, <2>3, NothingLetGo
<1>12. CASE SyncList(t)
  <2>1. CASE Throws(t)
    BY <1>12, <2>1, ThrowsEffective DEF SyncList, history
  <2>2. CASE Goto(t, "next")
    <3>1. /\ \A u \in Ticks : ticks'[u].queue = ticks[u].queue
          /\ \A u \in Ticks : ticks'[u].stage = IF u = t THEN "next" ELSE ticks[u].stage
          /\ UNCHANGED <<actions, took, broken>>
        BY <1>0, <1>3, <1>5, <1>12, <2>2, GotoTyped DEF SyncList, Goto, history
    <3>2. ticks[t].stage \in PastEffect
        BY <1>12 DEF SyncList, At, PastEffect
    <3> QED
        BY <3>1, <3>2, NothingLetGo
  <2> QED
    BY <1>12, <2>1, <2>2 DEF SyncList
<1> QED
    BY <1>6, <1>7, <1>8, <1>9, <1>10, <1>11, <1>12 DEF Tick

\* However ticks overlap and whatever is cancelled meanwhile: what is marked applied
\* and let go of took effect, unless a tick threw or died (call, markApplied, _commit).
THEOREM WhatIsAppliedTookEffect == Spec => []AppliedTookEffect
<1>1. Init => Effective
  <2> SUFFICES ASSUME Init PROVE Effective
    OBVIOUS
  <2>1. \A t \in Ticks : ticks[t].stage = "idle"
    BY NoTickIsIdle DEF Init
  <2>2. AppliedTookEffect
    BY DEF Init, AppliedTookEffect
  <2> QED
    BY <2>1, <2>2, InitiallyTyped DEF Effective, PastEffect
<1>2. ASSUME Effective, [Next]_vars PROVE Effective'
  <2>0. Typed'
    BY <1>2, TypeStep DEF Effective
  <2>1. ASSUME NEW t \in Ticks, Tick(t) PROVE Effective'
    BY <1>2, <2>0, <2>1, TickEffective
  <2>2. CASE Crash
    <3>1. \A t \in Ticks : ticks'[t] = NoTick
        BY <2>2 DEF Crash
    <3>2. broken' \/ \A t \in Ticks : ticks[t] = NoTick
        BY <2>2 DEF Crash
    <3>3. UNCHANGED <<actions, took>> /\ (broken => broken')
        BY <2>2 DEF Crash, history
    <3> QED
        BY <1>2, <2>0, <3>1, <3>2, <3>3, NothingLetGo
  <2>3. CASE ~Crash /\ ~\E t \in Ticks : Tick(t)
    <3>1. UNCHANGED <<ticks, broken, took>>
        BY <1>2, <2>3 DEF Next, vars, Ask, SetPin, SaveWebhook, SaveDelay, Launch, Request,
               Cancel, Enqueue, ErrandEnds, BeginListJob, EndListJob, ClockAdvances, work,
               history
    <3>2. \A a \in actions' : a.state = "applied" => a \in actions
      <4>1. ASSUME NEW type, NEW payload, Request(type, payload),
                   NEW a \in actions', a.state = "applied"
            PROVE  a \in actions
          BY <4>1 DEF Request, NewAction
      <4>2. Ask \/ actions' \subseteq actions
          BY <1>2, <2>3 DEF Next, vars, SetPin, SaveWebhook, SaveDelay, Launch, Cancel,
                 Enqueue, ErrandEnds, BeginListJob, EndListJob, ClockAdvances
      <4> QED
          BY <4>1, <4>2 DEF Ask
    <3>3. /\ broken => broken'
          /\ \A t \in Ticks : ticks'[t].queue = ticks[t].queue /\ ticks'[t].stage = ticks[t].stage
        BY <3>1
    <3> QED
        BY <1>2, <2>0, <3>1, <3>2, <3>3, NothingLetGo
  <2> QED
    BY <2>1, <2>2, <2>3
<1>3. Effective => AppliedTookEffect
    BY DEF Effective
<1> QED
    BY <1>1, <1>2, <1>3, PTL DEF Spec

=============================================================================
