---------------------------- MODULE DesktopGuard ----------------------------
(***************************************************************************)
(* The accountability gate of ClearGuard Desktop: the main window's        *)
(* handlers (desktop/src/mainwindow.cpp) over the repository that keeps    *)
(* the configuration and the pending requests on disk                      *)
(* (desktop/src/accountability/accountability_repository.cpp).             *)
(*                                                                         *)
(* Every handler runs on the GUI thread.  Two things interleave with it:   *)
(*   - the modal PIN dialog runs a nested event loop, so the two-second    *)
(*     timer fires between a handler's guard and the rest of it;           *)
(*   - the process may be closed or may die, leaving what is on disk.      *)
(* checkPendingActions is therefore several steps here: only a crash and   *)
(* the clock can come between them, and a crash does.                      *)
(*                                                                         *)
(* Request identifiers (UUIDs in the code) are numbers in creation order,  *)
(* so the list's order is the order of the identifiers and the list is a   *)
(* set.  The clock counts fractions of a second; it never goes back.       *)
(***************************************************************************)
EXTENDS Naturals, FiniteSets

CONSTANTS
    Delays,             \* the delays, in clock units, the two combo boxes offer
    DefaultDelay,       \* AccountabilityConfig::defaultDelay
    Webhooks,           \* webhook addresses a partner can be reached at
    NoWebhook,          \* the empty webhook field
    NoConfig,           \* no configuration file, or one that does not parse
    NoPayload,          \* the payload of a request to disable protection
    UnitsPerSecond,     \* clock units in a second, what readyAt is truncated to
    SetupWebhooks,      \* what the webhook field of the setup page may hold
    SystemDnsSupported, \* the "system DNS" check box is enabled
    FirewallSupported,  \* the "bypass resolvers" check box is enabled
    SaveFaults,         \* how a save may fail: "unopened", "cut" (once truncated)
    Crashes,            \* how the process may die: "clean", "torn" (inside a save)
    MaxTime, MaxRequests, MaxLaunches   \* bounds of the model

ASSUME DelaysAssumption == Delays \subseteq Nat /\ DefaultDelay \in Nat
ASSUME UnitsAssumption == UnitsPerSecond \in Nat \ {0}
ASSUME WebhooksAssumption ==
    /\ NoWebhook \notin Webhooks
    /\ SetupWebhooks \subseteq Webhooks \cup {NoWebhook}
ASSUME SwitchAssumption ==
    /\ {SystemDnsSupported, FirewallSupported} \subseteq BOOLEAN
    /\ SaveFaults \subseteq {"unopened", "cut"}
    /\ Crashes \subseteq {"clean", "torn"}
ASSUME RequestsAssumption == MaxRequests \in Nat

VARIABLES
    now,        \* the wall clock
    config,     \* accountability_config.json
    actions,    \* pending_actions.json
    up,         \* a MainWindow exists
    page,       \* the page the window shows
    prompt,     \* the handler that waits in promptForPin, and its argument
    tick,       \* how far checkPendingActions has come
    shown,      \* pendingDisableActionId, pendingWebhookActionId, pendingDelayActionId
    running,    \* server.status() = Running
    systemDnsApplied, firewallBypassApplied,
    launches,   \* windows opened so far
    nextId,     \* the identifier of the next request
    ledger,     \* history: every request made, and under which terms
    base,       \* history: the terms when the oldest chain of requests began
    effects     \* history: <<launch, request>> for every effect

disk == <<config, actions>>
protection == <<running, systemDnsApplied, firewallBypassApplied>>
process == <<up, page, prompt, tick, shown, protection>>
history == <<nextId, ledger, base>>
vars == <<now, disk, process, launches, history, effects>>

-----------------------------------------------------------------------------
(* Data.                                                                   *)

DisableType == "disableProtection"
WebhookType == "changeWebhookUrl"
IncreaseType == "increaseSensitiveActionDelay"
DecreaseType == "decreaseSensitiveActionDelay"
DelayTypes == {IncreaseType, DecreaseType}
ActionTypes == {DisableType, WebhookType} \cup DelayTypes

Config == [webhookUrl : Webhooks \cup {NoWebhook}, delay : Delays]

ASSUME NoConfigAssumption == NoConfig \notin Config /\ NoConfig \notin Delays

ActionOf(types, payloads) ==
    [id : Nat, type : types, state : {"pending", "applied"}, readyAt : Nat,
     payload : payloads]
Action == ActionOf({DisableType}, {NoPayload}) \cup ActionOf({WebhookType}, Webhooks)
            \cup ActionOf(DelayTypes, Delays)

NoId == 0

\* Broken variant, for the runs to reject: half the precision.
WholeSecondsCoarse(t) == (t \div (2 * UnitsPerSecond)) * (2 * UnitsPerSecond)

\* toEpochSeconds: a stored time loses its fraction of a second.
WholeSeconds(t) == (t \div UnitsPerSecond) * UnitsPerSecond

Pending(S, types) == {a \in S : a.state = "pending" /\ a.type \in types}

IdsOf(S) == {a.id : a \in S}

\* std::find_if over the list, which is in the order of the identifiers.
IsFirst(a, S) == a \in S /\ \A b \in S : a.id <= b.id
FirstId(S) ==
    IF \E a \in S : IsFirst(a, S) THEN (CHOOSE a \in S : IsFirst(a, S)).id ELSE NoId

\* Broken variants, for the runs to reject: one of the two conditions is lost.
ReadyIgnoringDeadline(a) == a.state = "pending"
ReadyIgnoringState(a) == now >= a.readyAt

isReadyToApply(a) == a.state = "pending" /\ now >= a.readyAt

DelayInForce == IF config = NoConfig THEN DefaultDelay ELSE config.delay

\* saveConfig and savePendingActions: open truncates the file, and neither its
\* failure nor that of the write is reported.  A file cut short does not parse
\* and reads as the absent one does.
Saved(old, new, absent) ==
    {new} \cup (IF "unopened" \in SaveFaults THEN {old} ELSE {})
          \cup (IF "cut" \in SaveFaults THEN {absent} ELSE {})

\* Who a notice is posted to; notify returns at once if there is no address.
PostedTo == IF config = NoConfig THEN NoWebhook ELSE config.webhookUrl

NoPrompt == [handler |-> "none", arg |-> NoPayload]
NoTick == [stage |-> "idle", queue |-> {}]
NothingShown == [disable |-> NoId, webhook |-> NoId, delay |-> NoId]

-----------------------------------------------------------------------------
(* The process.                                                            *)

Init ==
    /\ now = 0
    /\ config = NoConfig /\ actions = {}
    /\ up = FALSE /\ page = "setup"
    /\ prompt = NoPrompt /\ tick = NoTick /\ shown = NothingShown
    /\ running = FALSE /\ systemDnsApplied = FALSE /\ firewallBypassApplied = FALSE
    /\ launches = 0
    /\ nextId = 1 /\ ledger = {} /\ base = [at |-> 0, delay |-> 0]
    /\ effects = {}

\* What is left of the process once it is gone: nothing.
Gone ==
    /\ up' = FALSE /\ page' = "setup"
    /\ prompt' = NoPrompt /\ tick' = NoTick /\ shown' = NothingShown
    /\ running' = FALSE /\ systemDnsApplied' = FALSE /\ firewallBypassApplied' = FALSE
    /\ UNCHANGED <<now, launches, history, effects>>

\* The constructor: protection is off, and the requests on disk are not
\* looked at before the timer fires for the first time.
Launch ==
    /\ ~up
    /\ launches < MaxLaunches
    /\ launches' = launches + 1
    /\ up' = TRUE
    /\ page' = IF config = NoConfig THEN "setup" ELSE "main"
    /\ UNCHANGED <<now, disk, prompt, tick, shown, protection, history, effects>>

\* The event loop runs no handler: a new click or a close can be dispatched.
Idle == up /\ prompt = NoPrompt /\ tick = NoTick

stopProtection ==
    running' = FALSE /\ systemDnsApplied' = FALSE /\ firewallBypassApplied' = FALSE

\* Closing the window destroys it, and the destructor stops the protection.
Close == Idle /\ Gone /\ UNCHANGED disk

Crash == "clean" \in Crashes /\ up /\ Gone /\ UNCHANGED disk

-----------------------------------------------------------------------------
(* AccountabilityRepository.                                               *)

onSetupSubmitted ==
    /\ Idle /\ page = "setup"
    /\ \E url \in SetupWebhooks, delay \in Delays :
          config' \in Saved(config, [webhookUrl |-> url, delay |-> delay], NoConfig)
    /\ page' = "main"
    /\ UNCHANGED <<now, actions, up, prompt, tick, shown, protection, launches,
                   history, effects>>

\* Broken variant, for the runs to reject: a delay change waits the new delay.
NewActionWaitsNewDelay(type, payload) ==
    [id |-> nextId, type |-> type, state |-> "pending",
     readyAt |-> WholeSeconds(now + IF payload \in Delays THEN payload ELSE DelayInForce),
     payload |-> payload]

\* The request as it is in memory; readyAt is written in whole seconds.
NewAction(type, payload) ==
    [id |-> nextId, type |-> type, state |-> "pending",
     readyAt |-> WholeSeconds(now + DelayInForce), payload |-> payload]

createPendingAction(type, payload) ==
    /\ nextId <= MaxRequests
    /\ now + DelayInForce <= MaxTime
    /\ actions' \in Saved(actions, actions \cup {NewAction(type, payload)}, {})
    /\ nextId' = nextId + 1
    /\ ledger' = ledger \cup
          {[id |-> nextId, at |-> now, delay |-> DelayInForce, told |-> PostedTo]}
    /\ base' = IF Pending(actions, ActionTypes) = {}
                 THEN [at |-> now, delay |-> DelayInForce]
                 ELSE base

\* An identifier that is not in the list changes nothing, and nothing is saved.
Rewritten(id, new) ==
    actions' \in IF id \in IdsOf(actions) THEN Saved(actions, new, {}) ELSE {actions}

cancelPendingAction(id) == Rewritten(id, {a \in actions : a.id # id})

markApplied(id) ==
    Rewritten(id, {IF a.id = id THEN [a EXCEPT !.state = "applied"] ELSE a : a \in actions})

applyWebhookUrlChange(newUrl) ==
    config' \in IF config = NoConfig THEN {config}
                ELSE Saved(config, [config EXCEPT !.webhookUrl = newUrl], NoConfig)

applyDelayChange(newDelay) ==
    config' \in IF config = NoConfig THEN {config}
                ELSE Saved(config, [config EXCEPT !.delay = newDelay], NoConfig)

-----------------------------------------------------------------------------
(* Clicks.                                                                 *)

\* refreshMainPage: while the request it knows of is in the list, the main
\* page disables the toggle button and shows the cancel button.
StopRequestShown == shown.disable # NoId /\ shown.disable \in IdsOf(actions)

\* refreshSettingsPage reads both identifiers back from the disk.
SettingsShown(S, disable) ==
    [disable |-> disable,
     webhook |-> FirstId(Pending(S, {WebhookType})),
     delay |-> FirstId(Pending(S, DelayTypes))]

\* onToggleClicked with protection off.  A server that does not start leaves
\* everything as it was; the two redirections may fail one by one.
StartProtection ==
    /\ Idle /\ page = "main" /\ ~running /\ ~StopRequestShown
    /\ running' = TRUE
    /\ systemDnsApplied' \in IF SystemDnsSupported THEN BOOLEAN ELSE {FALSE}
    /\ firewallBypassApplied' \in IF FirewallSupported THEN BOOLEAN ELSE {FALSE}
    /\ UNCHANGED <<now, disk, up, page, prompt, tick, shown, launches, history,
                   effects>>

Ask(handler, arg) ==
    /\ prompt' = [handler |-> handler, arg |-> arg]
    /\ UNCHANGED <<now, disk, up, page, tick, shown, protection, launches, history,
                   effects>>

\* onToggleClicked with protection on, up to the PIN dialog.
RequestStop ==
    /\ Idle /\ page = "main" /\ running /\ ~StopRequestShown
    /\ shown.disable = NoId
    /\ Ask("onToggleClicked", NoPayload)

\* Broken variant, for the runs to reject: the button is never disabled.
RequestWebhookChangeUnguarded ==
    /\ Idle /\ page = "settings"
    /\ \E url \in Webhooks : Ask("onRequestWebhookChangeClicked", url)

RequestWebhookChange ==
    /\ Idle /\ page = "settings"
    /\ shown.webhook = NoId
    /\ \E url \in Webhooks : Ask("onRequestWebhookChangeClicked", url)

\* Broken variant, for the runs to reject: the button is never disabled.
RequestDelayChangeUnguarded ==
    /\ Idle /\ page = "settings"
    /\ \E delay \in Delays : Ask("onRequestDelayChangeClicked", delay)

RequestDelayChange ==
    /\ Idle /\ page = "settings"
    /\ shown.delay = NoId
    /\ \E delay \in Delays : Ask("onRequestDelayChangeClicked", delay)

\* The dialog is cancelled, left empty, or holds a wrong PIN.
PinRefused ==
    /\ up /\ tick = NoTick /\ prompt # NoPrompt
    /\ prompt' = NoPrompt
    /\ UNCHANGED <<now, disk, up, page, tick, shown, protection, launches, history,
                   effects>>

\* Broken variant, for the runs to reject: a delay change is filed as a webhook
\* change.
RequestedTypeMixedUp ==
    IF prompt.handler = "onToggleClicked" THEN DisableType ELSE WebhookType

\* Which request the waiting handler makes; a delay change is classified by
\* the delay in force when the dialog closes.
RequestedType ==
    CASE prompt.handler = "onToggleClicked" -> DisableType
      [] prompt.handler = "onRequestWebhookChangeClicked" -> WebhookType
      [] prompt.handler = "onRequestDelayChangeClicked" ->
            IF prompt.arg >= DelayInForce THEN IncreaseType ELSE DecreaseType

\* What the handler leaves in the window once the request is created.
ShownAfterRequest ==
    IF prompt.handler = "onToggleClicked"
      THEN [shown EXCEPT !.disable = nextId]
      ELSE SettingsShown(actions', shown.disable)

PinAccepted ==
    /\ up /\ tick = NoTick /\ prompt # NoPrompt
    /\ config # NoConfig
    /\ createPendingAction(RequestedType, prompt.arg)
    /\ shown' = ShownAfterRequest
    /\ prompt' = NoPrompt
    /\ UNCHANGED <<now, config, up, page, tick, protection, launches, effects>>

\* onCancelPendingClicked: the button is there while the request is shown.
CancelStop ==
    /\ Idle /\ page = "main" /\ StopRequestShown
    /\ cancelPendingAction(shown.disable)
    /\ shown' = [shown EXCEPT !.disable = NoId]
    /\ UNCHANGED <<now, config, up, page, prompt, tick, protection, launches, history,
                   effects>>

CancelChange(id) ==
    /\ Idle /\ page = "settings" /\ id # NoId
    /\ cancelPendingAction(id)
    /\ shown' = SettingsShown(actions', shown.disable)
    /\ UNCHANGED <<now, config, up, page, prompt, tick, protection, launches, history,
                   effects>>

CancelWebhookChange == CancelChange(shown.webhook)
CancelDelayChange == CancelChange(shown.delay)

\* Broken variant, for the runs to reject: the page is not refreshed.
OpenSettingsStale ==
    /\ Idle /\ page = "main"
    /\ page' = "settings"
    /\ UNCHANGED <<now, disk, up, prompt, tick, shown, protection, launches, history,
                   effects>>

OpenSettings ==
    /\ Idle /\ page = "main"
    /\ page' = "settings"
    /\ shown' = SettingsShown(actions, shown.disable)
    /\ UNCHANGED <<now, disk, up, prompt, tick, protection, launches, history, effects>>

BackFromSettings ==
    /\ Idle /\ page = "settings"
    /\ page' = "main"
    /\ UNCHANGED <<now, disk, up, prompt, tick, shown, protection, launches, history,
                   effects>>

-----------------------------------------------------------------------------
(* checkPendingActions, on the two-second timer.  It runs inside the PIN   *)
(* dialog's event loop too, and it needs a configuration.                  *)

\* Broken variant, for the runs to reject: the dialog blocks the event loop.
TimerFiresOutsideDialog ==
    /\ Idle /\ config # NoConfig
    /\ tick' = [stage |-> "scan", queue |-> actions]
    /\ UNCHANGED <<now, disk, up, page, prompt, shown, protection, launches, history,
                   effects>>

TimerFires ==
    /\ up /\ tick = NoTick /\ config # NoConfig
    /\ tick' = [stage |-> "scan", queue |-> actions]
    /\ UNCHANGED <<now, disk, up, page, prompt, shown, protection, launches, history,
                   effects>>

\* The loop has reached a.
Reached(a) == up /\ tick.stage = "scan" /\ IsFirst(a, tick.queue)

SkipAction(a) ==
    /\ Reached(a) /\ ~isReadyToApply(a)
    /\ tick' = [tick EXCEPT !.queue = @ \ {a}]
    /\ UNCHANGED <<now, disk, up, page, prompt, shown, protection, launches, history,
                   effects>>

\* A request takes effect: the protection stops or the configuration changes.
TakeEffect(a) ==
    /\ Reached(a) /\ isReadyToApply(a)
    /\ \/ a.type = DisableType /\ stopProtection /\ UNCHANGED config
       \/ a.type = WebhookType /\ applyWebhookUrlChange(a.payload) /\ UNCHANGED protection
       \/ a.type \in DelayTypes /\ applyDelayChange(a.payload) /\ UNCHANGED protection
    /\ effects' = effects \cup {<<launches, a.id>>}
    /\ tick' = [tick EXCEPT !.stage = "mark"]
    /\ UNCHANGED <<now, actions, up, page, prompt, shown, launches, history>>

\* The request is marked applied on disk, after it took effect.
MarkEffect(a) ==
    /\ up /\ tick.stage = "mark" /\ IsFirst(a, tick.queue)
    /\ markApplied(a.id)
    /\ tick' = [stage |-> "scan", queue |-> tick.queue \ {a}]
    /\ UNCHANGED <<now, config, up, page, prompt, shown, protection, launches, history,
                   effects>>

\* Broken variant, for the runs to reject: the main page keeps the request that
\* has taken effect.
FinishTickKeepsStop ==
    /\ up /\ tick.stage = "scan" /\ tick.queue = {}
    /\ tick' = NoTick
    /\ shown' = SettingsShown(actions, shown.disable)
    /\ UNCHANGED <<now, disk, up, page, prompt, protection, launches, history, effects>>

\* The window is brought up to date with what the disk holds now.
FinishTick ==
    /\ up /\ tick.stage = "scan" /\ tick.queue = {}
    /\ tick' = NoTick
    /\ shown' = SettingsShown(actions, FirstId(Pending(actions, {DisableType})))
    /\ UNCHANGED <<now, disk, up, page, prompt, protection, launches, history, effects>>

TickStep ==
    \/ \E a \in tick.queue : SkipAction(a) \/ TakeEffect(a) \/ MarkEffect(a)
    \/ FinishTick

-----------------------------------------------------------------------------
(* Death in the middle of a save: both files are truncated before they are *)
(* written, and a truncated file reads as if it were absent.               *)

SavingActions ==
    \/ tick.stage = "mark"
    \/ tick = NoTick /\ prompt # NoPrompt /\ config # NoConfig
    \/ Idle /\ page = "main" /\ StopRequestShown
    \/ Idle /\ page = "settings" /\ {shown.webhook, shown.delay} # {NoId}

CrashSavingActions ==
    /\ "torn" \in Crashes /\ up /\ SavingActions
    /\ actions' = {}
    /\ Gone /\ UNCHANGED config

SavingConfig ==
    /\ config # NoConfig
    /\ \E a \in tick.queue : Reached(a) /\ isReadyToApply(a) /\ a.type # DisableType

CrashSavingConfig ==
    /\ "torn" \in Crashes /\ up /\ SavingConfig
    /\ config' = NoConfig
    /\ Gone /\ UNCHANGED actions

ClockAdvances ==
    /\ now < MaxTime
    /\ now' = now + 1
    /\ UNCHANGED <<disk, process, launches, history, effects>>

-----------------------------------------------------------------------------
Click ==
    \/ onSetupSubmitted \/ StartProtection \/ RequestStop
    \/ RequestWebhookChange \/ RequestDelayChange
    \/ PinRefused \/ PinAccepted
    \/ CancelStop \/ CancelWebhookChange \/ CancelDelayChange
    \/ OpenSettings \/ BackFromSettings

Death == Close \/ Crash \/ CrashSavingActions \/ CrashSavingConfig

Next == Launch \/ Click \/ TimerFires \/ TickStep \/ Death \/ ClockAdvances

Spec == Init /\ [][Next]_vars

\* The event loop keeps running the timer and the loop it starts, a modal
\* dialog included, and the clock runs.  Nothing makes the user click.
Fairness == WF_vars(TimerFires) /\ WF_vars(TickStep) /\ WF_vars(ClockAdvances)

FairSpec == Spec /\ Fairness

-----------------------------------------------------------------------------
(* Properties.                                                             *)

PromptOf(handler, args) == [handler : {handler}, arg : args]

\* The type invariant.
TypeOK ==
    /\ now \in Nat
    /\ config \in Config \cup {NoConfig}
    /\ actions \in SUBSET Action
    /\ up \in BOOLEAN
    /\ page \in {"setup", "main", "settings"}
    /\ prompt \in PromptOf("none", {NoPayload})
                    \cup PromptOf("onToggleClicked", {NoPayload})
                    \cup PromptOf("onRequestWebhookChangeClicked", Webhooks)
                    \cup PromptOf("onRequestDelayChangeClicked", Delays)
    /\ tick \in [stage : {"idle", "scan", "mark"}, queue : SUBSET Action]
    /\ shown \in [disable : Nat, webhook : Nat, delay : Nat]
    /\ running \in BOOLEAN
    /\ systemDnsApplied \in BOOLEAN /\ firewallBypassApplied \in BOOLEAN
    /\ launches \in Nat /\ nextId \in Nat
    /\ ledger \in SUBSET [id : Nat, at : Nat, delay : Nat,
                          told : Webhooks \cup {NoWebhook}]
    /\ base \in [at : Nat, delay : Nat]
    /\ effects \in SUBSET (Nat \X Nat)

\* The step in which request a takes effect.
EffectOf(a) ==
    /\ tick.stage = "scan" /\ IsFirst(a, tick.queue)
    /\ tick'.stage = "mark"

\* While the window is open: the protection goes off, or what was agreed at
\* the setup is replaced.
Weakens ==
    /\ up'
    /\ \/ running /\ ~running'
       \/ config # NoConfig /\ config' # config

\* Chaining requests gains nothing.  Whatever is requested, in whatever order,
\* cancelled, asked again, interrupted by crashes: nothing is weakened before
\* the delay that was in force when the oldest still connected request was made
\* has gone by since then (checkPendingActions, createPendingAction).
NoShortcut ==
    [][Weakens => now >= WholeSeconds(base.at + base.delay)]_vars

\* What makes NoShortcut inductive: every waiting request, on disk or in the
\* timer's snapshot, is due no earlier than the base terms; and until those have
\* run out the agreed delay cannot have become shorter.
ShortcutInv ==
    /\ tick.stage = "idle" => tick.queue = {}
    /\ up /\ page = "setup" => config = NoConfig
    /\ base.at <= now
    /\ \A a \in Pending(actions \cup tick.queue, ActionTypes) :
          a.readyAt >= WholeSeconds(base.at + base.delay)
    /\ now < WholeSeconds(base.at + base.delay) =>
          config # NoConfig /\ config.delay >= base.delay

\* In real time the gate may open early, by less than the second that is cut
\* off when readyAt is written.
LessThanASecondEarly ==
    [][Weakens => now + UnitsPerSecond > base.at + base.delay]_vars

\* One launch lets a request take effect at most once (markApplied).
OncePerLaunch ==
    [][\A a \in tick.queue : EffectOf(a) => <<launches, a.id>> \notin effects]_vars

\* A request that was entered as an increase of the delay never lowers it when
\* it takes effect, however long after the classification that is, and one
\* entered as a decrease never raises it (onRequestDelayChangeClicked).
LabelHolds ==
    [][\A a \in tick.queue : EffectOf(a) =>
          /\ a.type = IncreaseType => config'.delay >= config.delay
          /\ a.type = DecreaseType => config'.delay <= config.delay]_vars

\* The notice of the request that replaces a partner's address was posted to that
\* very address (createPendingAction, applyWebhookUrlChange).
OldPartnerWasTold ==
    [][\A a \in tick.queue :
          EffectOf(a) /\ config'.webhookUrl # config.webhookUrl =>
             \E l \in ledger : l.id = a.id /\ l.told = config.webhookUrl]_vars

\* The guards of the settings page keep at most one webhook change and one
\* change of the delay open, across restarts and PIN dialogs.
OneChangeOpen ==
    \A types \in {{WebhookType}, DelayTypes} :
        \A a, b \in Pending(actions, types) : a = b

\* Between events, the request the main page offers to cancel is one that is
\* still waiting on disk.
WindowTracksDisk ==
    Idle /\ shown.disable # NoId =>
        shown.disable \in IdsOf(Pending(actions, {DisableType}))

Due(i) ==
    /\ up /\ config # NoConfig
    /\ \E a \in actions : a.id = i /\ isReadyToApply(a)

\* A request that is due does not stay pending while the window is open, not
\* even while a PIN dialog stays open (the timer runs in the nested loop).
DueIsSettled ==
    \A i \in 1..MaxRequests : Due(i) ~> ~Due(i)

-----------------------------------------------------------------------------
(* Refinement: what became of each request, read off the disk, the running *)
(* tick and the history.                                                   *)

TookEffect(i) == \E e \in effects : e[2] = i

\* What the program still knows of: a tick goes on with the list it has read,
\* even when a mark has lost that list.
Known == actions \cup tick.queue

PhaseOf(i) ==
    CASE i >= nextId -> "unasked"
      [] TookEffect(i) -> "effective"
      [] i < nextId /\ ~TookEffect(i) ->
            IF i \in IdsOf(Pending(Known, ActionTypes)) THEN "waiting" ELSE "withdrawn"

DueOf(i) ==
    IF \E l \in ledger : l.id = i
      THEN LET l == CHOOSE l \in ledger : l.id = i IN WholeSeconds(l.at + l.delay)
      ELSE 0

Gate == INSTANCE AccountabilityGate WITH
            Requests <- 1..MaxRequests, NoAgreement <- NoConfig,
            clock <- now,
            delay <- IF config = NoConfig THEN NoConfig ELSE config.delay,
            phase <- [i \in 1..MaxRequests |-> PhaseOf(i)],
            due <- [i \in 1..MaxRequests |-> DueOf(i)]

\* Every behaviour of the desktop program keeps the promise of the gate:
\* waiting first, effect after, never after a withdrawal, and no change of the
\* delay outside an effect.  A save that fails may withdraw what waits, and
\* what an effect may lose is the agreement.
KeepsGate == Gate!Spec

=============================================================================
