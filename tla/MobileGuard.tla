---------------------------- MODULE MobileGuard ----------------------------
(***************************************************************************)
(* The accountability gate of the Android app, Dart side: the pending      *)
(* requests and the agreement in the preferences                           *)
(* (lib/data/repositories/accountability_repository.dart), the use case    *)
(* that applies what is due (lib/domain/use_cases), and the dashboard that *)
(* runs it every five seconds                                              *)
(* (lib/ui/features/dashboard/view_models/dashboard_view_model.dart).      *)
(*                                                                         *)
(* Everything runs on one isolate, but every await of the platform or of   *)
(* the network lets other handlers in.  A step here is what runs between   *)
(* two such awaits; reading and writing the cached preferences waits for   *)
(* nothing.  The ticker does not wait for the tick before, so ticks        *)
(* overlap, and each works on the list it has read.                        *)
(*                                                                         *)
(* Requests are numbered in the order of the list.  A change of the delay  *)
(* is one type: the two of the code differ in a label only.                *)
(***************************************************************************)
EXTENDS Naturals, FiniteSets

CONSTANTS
    Delays,             \* the delays, in clock units, that can be chosen
    DefaultDelay,       \* AccountabilityConfig.defaultDelay
    NoDelay,            \* the preferences hold no delay
    Webhooks,           \* the webhook addresses that can be entered
    NoWebhook,          \* the preferences hold none
    Domains,            \* the domains whose removal can be asked for
    RemoteUrls,         \* the addresses of remote block lists
    NoRemoteUrl,        \* none, or one that cannot be fetched
    NoPayload,          \* the payload of a request to disable protection
    Kinds,              \* the types of the requests that are made
    ListJobs,           \* why lists are computed outside ticks: "enable", "update"
    Ticks,              \* ticks that may be under way at the same time
    CallsMayFail,       \* a call of the platform or the outbox may throw
    MayCrash,           \* the app may die
    MaxTime, MaxRequests, MaxLaunches   \* bounds of the model

ASSUME DelaysAssumption == Delays \subseteq Nat /\ DefaultDelay \in Nat /\ NoDelay \notin Nat
ASSUME AddressAssumption == NoWebhook \notin Webhooks /\ NoRemoteUrl \notin RemoteUrls
ASSUME SwitchAssumption == {CallsMayFail, MayCrash} \subseteq BOOLEAN
ASSUME RequestsAssumption == MaxRequests \in Nat

VARIABLES
    now,        \* the wall clock
    webhook, delay, removed, remote,    \* the preferences: the agreement, the
                                        \* approved removals, the remote list's address
    actions,    \* pending_actions_v1
    setup,      \* how far submitAccountabilitySetup has come
    vpn,        \* the VPN service filters
    synced,     \* the list it filters with: what it was computed from
    up,         \* the app runs, past the onboarding's first page
    shown,      \* DashboardViewModel._pendingActions: the waiting ones
    ticks,      \* of each tick: where it is, and the requests it has left
    broken,     \* history: a tick threw, or died at work
    listJob,    \* a block list being fetched outside a tick
    errands,    \* notes to the partner that a handler has still to enqueue
    outbox,     \* the notes handed to the outbox (NotificationOutbox)
    launches, nextId,
    base,       \* history: the terms when the oldest chain of requests began
    took,       \* history: the requests that took effect
    stopped     \* history: how often each request turned the protection off;
                \*   2 stands for twice or more

prefs == <<webhook, delay, removed, remote>>
service == <<vpn, synced>>
notes == <<errands, outbox>>
work == <<ticks, broken>>
history == <<launches, nextId, base, took, stopped>>
vars == <<now, prefs, actions, setup, service, up, shown, work, listJob, notes, history>>

-----------------------------------------------------------------------------
(* Data.                                                                   *)

DisableType == "disableProtection"
RemovalType == "removeBlocklistDomain"
WebhookType == "changeWebhookUrl"
RemoteType == "changeRemoteBlocklistUrl"
DelayType == "changeSensitiveActionDelay"

RequestIds == 1..MaxRequests

ActionOf(type, payloads) ==
    [id : RequestIds, type : {type}, payload : payloads, readyAt : Nat,
     state : {"pending", "applied"}]
Action ==
    ActionOf(DisableType, {NoPayload}) \cup ActionOf(RemovalType, Domains)
      \cup ActionOf(WebhookType, Webhooks) \cup ActionOf(RemoteType, RemoteUrls)
      \cup ActionOf(DelayType, Delays)

Lists == [remote : RemoteUrls \cup {NoRemoteUrl}, removed : SUBSET Domains]

IdsOf(S) == {a.id : a \in S}
Pending(S) == {a \in S : a.state = "pending"}
\* Broken variant, for the runs to reject: due at the very moment, not after it.
isReadyAtOnce(a) == a.state = "pending" /\ now >= a.readyAt
isReadyToApply(a) == a.state = "pending" /\ now > a.readyAt

\* The list is worked through from its front.
IsFirst(a, S) == a \in S /\ \A b \in S : a.id <= b.id

\* loadConfig: what is missing in the preferences has a default.
DelayInForce == IF delay = NoDelay THEN DefaultDelay ELSE delay

NoTick == [stage |-> "idle", queue |-> {}, remote |-> NoRemoteUrl]
NoListJob == [for |-> "none", remote |-> NoRemoteUrl]

Note(kind, id, url) == [kind |-> kind, id |-> id, url |-> url]

\* A note that a handler has to enqueue, and what it will add to the dashboard
\* when the flush has ended.
Errand(kind, id, url, adds) ==
    [note |-> Note(kind, id, url), adds |-> adds, at |-> "enqueue"]

\* The requests that wait, or that a tick still works on.
Open == Pending(actions) \cup UNION {ticks[t].queue : t \in Ticks}

-----------------------------------------------------------------------------
(* The process and the onboarding.                                         *)

Init ==
    /\ now = 0
    /\ webhook = NoWebhook /\ delay = NoDelay /\ removed = {} /\ remote = NoRemoteUrl
    /\ actions = {}
    /\ setup = "form"
    /\ vpn = FALSE /\ synced = [remote |-> NoRemoteUrl, removed |-> {}]
    /\ up = TRUE /\ shown = {}
    /\ ticks = [t \in Ticks |-> NoTick] /\ broken = FALSE /\ listJob = NoListJob
    /\ errands = {} /\ outbox = {}
    /\ launches = 1 /\ nextId = 1
    /\ base = [at |-> 0, delay |-> 0]
    /\ took = {} /\ stopped = [i \in RequestIds |-> 0]

\* setUpAccountability: the PIN is stored first.  From then on the app counts
\* as configured.
SetPin ==
    /\ up /\ setup = "form"
    /\ setup' = "webhook"
    /\ UNCHANGED <<now, prefs, actions, service, up, shown, work, listJob, notes, history>>

SaveWebhook ==
    /\ up /\ setup = "webhook"
    /\ webhook' \in Webhooks
    /\ setup' = "delay"
    /\ UNCHANGED <<now, delay, removed, remote, actions, service, up, shown, work,
                   listJob, notes, history>>

SaveDelay ==
    /\ up /\ setup = "delay"
    /\ delay' \in Delays
    /\ setup' = "done"
    /\ errands' = errands \cup {Errand("configured", 0, webhook, {})}
    /\ UNCHANGED <<now, webhook, removed, remote, actions, service, up, shown, work,
                   listJob, outbox, history>>

\* The app dies; the preferences stay, and so does the VPN service.
Crash ==
    /\ MayCrash /\ up
    /\ up' = FALSE /\ shown' = {}
    /\ ticks' = [t \in Ticks |-> NoTick] /\ listJob' = NoListJob
    /\ broken' = (broken \/ \E t \in Ticks : ticks[t] # NoTick)
    /\ errands' = {}
    /\ UNCHANGED <<now, prefs, actions, setup, service, outbox, history>>

Launch ==
    /\ ~up /\ launches < MaxLaunches
    /\ up' = TRUE /\ launches' = launches + 1
    /\ setup' = IF setup = "form" THEN "form" ELSE "done"     \* isConfigured: a PIN
    /\ UNCHANGED <<now, prefs, actions, service, shown, work, listJob, notes, nextId,
                   base, took, stopped>>

Dashboard == up /\ setup = "done"

-----------------------------------------------------------------------------
(* Requests and cancellations.                                             *)

\* Broken variant, for the runs to reject: a delay that is missing in the preferences is none.
NewActionNoDefault(type, payload) ==
    [id |-> nextId, type |-> type, payload |-> payload, state |-> "pending",
     readyAt |-> now + IF delay = NoDelay THEN 0 ELSE delay]

NewAction(type, payload) ==
    [id |-> nextId, type |-> type, payload |-> payload, readyAt |-> now + DelayInForce,
     state |-> "pending"]

\* createPendingAction, once the PIN is accepted: the request is stored before
\* the note is enqueued.  Only the disable button looks for one that waits.
Request(type, payload) ==
    /\ Dashboard /\ type \in Kinds
    /\ nextId \in RequestIds /\ now + DelayInForce <= MaxTime
    /\ type = DisableType => \A a \in shown : a.type # DisableType
    /\ actions' = actions \cup {NewAction(type, payload)}
    /\ errands' = errands \cup
          {Errand("requested", nextId, webhook,
                  IF type = DisableType THEN {NewAction(type, payload)} ELSE {})}
    /\ nextId' = nextId + 1
    /\ base' = IF Open = {} THEN [at |-> now, delay |-> DelayInForce] ELSE base
    /\ UNCHANGED <<now, prefs, setup, service, up, shown, work, listJob, outbox,
                   launches, took, stopped>>

\* A card of the dashboard is cancelled: whatever state the request has by now.
Cancel(id) ==
    /\ Dashboard /\ id \in IdsOf(shown)
    /\ actions' = {a \in actions : a.id # id}
    /\ errands' = IF id \in IdsOf(actions)
                     THEN errands \cup {Errand("cancelled", id, NoWebhook, {})}
                     ELSE errands
    /\ UNCHANGED <<now, prefs, setup, service, up, shown, work, listJob, outbox, history>>

\* A cancellation and an effect are told to whoever is the partner by then.
Enqueue(e) ==
    /\ e \in errands /\ e.at = "enqueue"
    /\ LET url == IF e.note.kind = "cancelled" THEN webhook ELSE e.note.url
       IN  outbox' = outbox \cup {Note(e.note.kind, e.note.id, url)}
    /\ errands' = (errands \ {e}) \cup {[e EXCEPT !.at = "flush"]}
    /\ UNCHANGED <<now, prefs, actions, setup, service, up, shown, work, listJob, history>>

\* The flush that every enqueue waits for has ended, or has thrown.
ErrandEnds(e) ==
    /\ e \in errands /\ e.at = "flush"
    /\ errands' = errands \ {e}
    /\ \/ shown' = IF e.note.kind = "cancelled" THEN Pending(actions) ELSE shown \cup e.adds
       \/ CallsMayFail /\ UNCHANGED shown
    /\ UNCHANGED <<now, prefs, actions, setup, service, up, work, listJob, outbox, history>>

-----------------------------------------------------------------------------
(* A tick: ApplyReadyPendingActionsUseCase over the list it has read.      *)

At(t, stage) == up /\ ticks[t].stage = stage
Goto(t, stage) == ticks' = [ticks EXCEPT ![t].stage = stage] /\ UNCHANGED broken
Throws(t) == CallsMayFail /\ ticks' = [ticks EXCEPT ![t] = NoTick] /\ broken' = TRUE

Current(t) == CHOOSE a \in ticks[t].queue : IsFirst(a, ticks[t].queue)

\* markApplied: an entry that is gone is not missed.
Marked(id) ==
    {IF a.id = id THEN [a EXCEPT !.state = "applied"] ELSE a : a \in actions}

\* The loop comes to the first of queue: the service is asked to stop, or the
\* request is marked at once.  At the end the dashboard reads the list again.
Reach(t, queue) ==
    /\ UNCHANGED <<now, prefs, setup, service, up, broken, listJob, notes, history>>
    /\ \/ queue = {}
          /\ ticks' = [ticks EXCEPT ![t] = NoTick]
          /\ shown' = Pending(actions) /\ UNCHANGED actions
       \/ \E a \in queue :
             /\ IsFirst(a, queue) /\ UNCHANGED shown
             /\ \/ a.type = DisableType /\ UNCHANGED actions
                   /\ ticks' = [ticks EXCEPT ![t].stage = "stopping", ![t].queue = queue]
                \/ a.type # DisableType /\ actions' = Marked(a.id)
                   /\ ticks' = [ticks EXCEPT ![t].stage = "note", ![t].queue = queue]

TimerFires(t) ==
    /\ Dashboard /\ ticks[t].stage = "idle"
    /\ Reach(t, {a \in actions : isReadyToApply(a)})

VpnStops(t) ==
    /\ At(t, "stopping")
    /\ \/ vpn' = FALSE /\ Goto(t, "stopped")
          /\ took' = took \cup {Current(t).id}
          /\ stopped' = IF vpn /\ stopped[Current(t).id] < 2
                            THEN [stopped EXCEPT ![Current(t).id] = @ + 1] ELSE stopped
       \/ Throws(t) /\ UNCHANGED <<vpn, took, stopped>>
    /\ UNCHANGED <<now, prefs, actions, setup, synced, up, shown, listJob, notes,
                   launches, nextId, base>>

MarkStopped(t) ==
    /\ At(t, "stopped")
    /\ \/ actions' = Marked(Current(t).id) /\ Goto(t, "note")
       \/ Throws(t) /\ UNCHANGED actions
    /\ UNCHANGED <<now, prefs, setup, service, up, shown, listJob, notes, history>>

\* Broken variant, for the runs to reject: the loop goes on without _commit once
\* the partner is told.
EnqueueAppliedOnly(t) ==
    /\ At(t, "note")
    /\ outbox' = outbox \cup {Note("applied", Current(t).id, webhook)} /\ Goto(t, "next")
    /\ UNCHANGED <<now, prefs, actions, setup, service, up, shown, listJob, errands, history>>

\* markApplied tells the partner, and waits for the outbox to be flushed.
EnqueueApplied(t) ==
    /\ At(t, "note")
    /\ \/ outbox' = outbox \cup {Note("applied", Current(t).id, webhook)} /\ Goto(t, "flush")
       \/ Throws(t) /\ UNCHANGED outbox
    /\ UNCHANGED <<now, prefs, actions, setup, service, up, shown, listJob, errands, history>>

\* _commit: the preferences change after the request is marked and told.
Commit(t) ==
    LET a == Current(t) IN
    /\ At(t, "flush")
    /\ webhook' = IF a.type = WebhookType THEN a.payload ELSE webhook
    /\ delay' = IF a.type = DelayType THEN a.payload ELSE delay
    /\ removed' = IF a.type = RemovalType THEN removed \cup {a.payload} ELSE removed
    /\ remote' = IF a.type = RemoteType THEN a.payload ELSE remote
    /\ took' = took \cup {a.id}
    /\ Goto(t, IF a.type \in {RemovalType, RemoteType} THEN "fetch" ELSE "next")
    /\ UNCHANGED <<now, actions, setup, service, up, shown, listJob, notes, launches,
                   nextId, base, stopped>>

FlushThrows(t) ==
    /\ At(t, "flush") /\ Throws(t)
    /\ UNCHANGED <<now, prefs, actions, setup, service, up, shown, listJob, notes, history>>

\* effectiveBlockedDomains reads the address before it fetches the remote list
\* and the approved removals after.
FetchList(t) ==
    /\ At(t, "fetch")
    /\ ticks' = [ticks EXCEPT ![t].stage = "sync", ![t].remote = remote]
    /\ UNCHANGED <<now, prefs, actions, setup, service, up, shown, broken, listJob, notes, history>>

\* Broken variant, for the runs to reject: what is bundled is returned as it is when
\* the fetch throws.
ComputedBundled(address) ==
    {[remote |-> address, removed |-> removed], [remote |-> NoRemoteUrl, removed |-> {}]}

\* A remote list that cannot be fetched is left out.
Computed(address) == {[remote |-> r, removed |-> removed] : r \in {address, NoRemoteUrl}}

SyncList(t) ==
    /\ At(t, "sync")
    /\ \/ synced' \in Computed(ticks[t].remote) /\ Goto(t, "next")
       \/ Throws(t) /\ UNCHANGED synced
    /\ UNCHANGED <<now, prefs, actions, setup, vpn, up, shown, listJob, notes, history>>

NextAction(t) ==
    /\ At(t, "next")
    /\ Reach(t, ticks[t].queue \ {Current(t)})

Tick(t) ==
    \/ TimerFires(t) \/ VpnStops(t) \/ MarkStopped(t) \/ EnqueueApplied(t)
    \/ Commit(t) \/ FlushThrows(t) \/ FetchList(t) \/ SyncList(t) \/ NextAction(t)

-----------------------------------------------------------------------------
(* Lists computed outside a tick: reEnableProtection, and the refresh of   *)
(* the dashboard (UpdateBlocklistUseCase).                                 *)

BeginListJob(for) ==
    /\ Dashboard /\ listJob = NoListJob
    /\ for = "enable" => ~vpn
    /\ listJob' = [for |-> for, remote |-> remote]
    /\ UNCHANGED <<now, prefs, actions, setup, service, up, shown, work, notes, history>>

EndListJob ==
    /\ up /\ listJob # NoListJob
    /\ listJob' = NoListJob
    /\ \/ synced' \in Computed(listJob.remote)
          /\ vpn' = (vpn \/ listJob.for = "enable")
       \/ CallsMayFail /\ UNCHANGED service
    /\ UNCHANGED <<now, prefs, actions, setup, up, shown, work, notes, history>>

ClockAdvances ==
    /\ now < MaxTime
    /\ now' = now + 1
    /\ UNCHANGED <<prefs, actions, setup, service, up, shown, work, listJob, notes, history>>

-----------------------------------------------------------------------------
Ask ==
    \/ Request(DisableType, NoPayload)
    \/ \E d \in Domains : Request(RemovalType, d)
    \/ \E url \in Webhooks : Request(WebhookType, url)
    \/ \E url \in RemoteUrls : Request(RemoteType, url)
    \/ \E d \in Delays : Request(DelayType, d)

Next ==
    \/ SetPin \/ SaveWebhook \/ SaveDelay \/ Crash \/ Launch
    \/ Ask \/ \E id \in RequestIds : Cancel(id)
    \/ \E e \in errands : Enqueue(e) \/ ErrandEnds(e)
    \/ \E t \in Ticks : Tick(t)
    \/ \E for \in ListJobs : BeginListJob(for)
    \/ EndListJob \/ ClockAdvances

Spec == Init /\ [][Next]_vars

-----------------------------------------------------------------------------
(* Properties.                                                             *)

Notes == [kind : {"configured", "requested", "cancelled", "applied"},
          id : 0..MaxRequests, url : Webhooks \cup {NoWebhook}]

Stages == {"idle", "stopping", "stopped", "note", "flush", "fetch", "sync", "next"}

\* The type invariant.
TypeOK ==
    /\ now \in Nat
    /\ webhook \in Webhooks \cup {NoWebhook} /\ delay \in Delays \cup {NoDelay}
    /\ removed \subseteq Domains /\ remote \in RemoteUrls \cup {NoRemoteUrl}
    /\ actions \subseteq Action /\ shown \subseteq Action
    /\ setup \in {"form", "webhook", "delay", "done"}
    /\ vpn \in BOOLEAN /\ synced \in Lists
    /\ up \in BOOLEAN
    /\ ticks \in [Ticks -> [stage : Stages, queue : SUBSET Action,
                            remote : RemoteUrls \cup {NoRemoteUrl}]]
    /\ broken \in BOOLEAN
    /\ listJob \in [for : ListJobs \cup {"none"}, remote : RemoteUrls \cup {NoRemoteUrl}]
    /\ errands \subseteq [note : Notes, adds : SUBSET Action, at : {"enqueue", "flush"}]
    /\ outbox \subseteq Notes
    /\ launches \in Nat /\ nextId \in 1..(MaxRequests + 1)
    /\ base \in [at : Nat, delay : Nat]
    /\ took \subseteq RequestIds
    /\ stopped \in [RequestIds -> 0..2]

\* The protection goes off, or what was agreed at the setup is replaced, or a
\* domain is let through, or the remote list is another one.
Weakens ==
    \/ vpn /\ ~vpn'
    \/ setup = "done" /\ <<webhook, delay, removed, remote>>' # <<webhook, delay, removed, remote>>

\* Chaining requests gains nothing, whatever ticks overlap, throw or die: nothing
\* is weakened before the delay that was in force when the oldest still connected
\* request was made has gone by since then (createPendingAction, call).
NoShortcut == [][Weakens => now > base.at + base.delay]_vars

\* A removal that the partner has waited out stays in force: however lists
\* computed by ticks, by the refresh and by re-enabling overtake each other, a
\* domain that the VPN service lets through is not blocked again by an older
\* list (effectiveBlockedDomains reads the removals after the fetch).
RemovalsStay == [][synced.removed \subseteq synced'.removed]_vars

\* However ticks overlap, and whatever is cancelled and asked meanwhile: a request
\* that is marked applied, and that no tick works on any more, took effect, as
\* long as no tick threw or died (call, markApplied, _commit).
Held(id) == \E t \in Ticks : id \in IdsOf(ticks[t].queue)
AppliedTookEffect ==
    ~broken => \A a \in actions : a.state = "applied" => a.id \in took \/ Held(a.id)

Told(kind, id) == \E n \in outbox : n.kind = kind /\ n.id = id

\* "Request to ... was cancelled before it took effect." (app_en.arb:161): the
\* partner gets this note only of a request that never takes effect.
CancelledIsTrue == \A id \in RequestIds : Told("cancelled", id) => id \notin took

\* "disabling protection is never instant: every request to weaken protection
\* goes through a waiting period" (README.md:5): a request turns the protection
\* off once, and after it is re-enabled takes a new one.
OneStopPerRequest == \A id \in RequestIds : stopped[id] <= 1

=============================================================================
