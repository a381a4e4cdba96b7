------------------------- MODULE DesktopGuardProofs -------------------------
(***************************************************************************)
(* Proofs about DesktopGuard, for every choice of its constants: that it   *)
(* never opens early, that what the window shows and says of requests is   *)
(* true, and that it implements AccountabilityGate.                        *)
(***************************************************************************)
EXTENDS DesktopGuard, TLAPS

-----------------------------------------------------------------------------
(* Whole seconds.                                                          *)

\* Truncation to seconds loses less than a second.
LEMMA WholeSecondsRange ==
    ASSUME NEW t \in Nat
    PROVE  /\ WholeSeconds(t) \in Nat
           /\ WholeSeconds(t) <= t
           /\ t < WholeSeconds(t) + UnitsPerSecond
  BY UnitsAssumption DEF WholeSeconds

\* Truncation to seconds keeps the order of times.
LEMMA WholeSecondsMonotone ==
    ASSUME NEW s \in Nat, NEW t \in Nat, s <= t
    PROVE  WholeSeconds(s) <= WholeSeconds(t)
<1>1. s \div UnitsPerSecond \in Nat /\ t \div UnitsPerSecond \in Nat
  BY UnitsAssumption
<1>2. s \div UnitsPerSecond <= t \div UnitsPerSecond
  BY UnitsAssumption, <1>1
<1>3. QED
  BY <1>1, <1>2, UnitsAssumption DEF WholeSeconds

\* A time in whole seconds is not truncated any further.
LEMMA WholeSecondsIdempotent ==
    ASSUME NEW t \in Nat
    PROVE  WholeSeconds(WholeSeconds(t)) = WholeSeconds(t)
  BY UnitsAssumption DEF WholeSeconds

-----------------------------------------------------------------------------
(* Types.                                                                  *)

\* The delay in force is a time span, set up or not.
LEMMA DelayInForceType ==
    ASSUME TypeOK
    PROVE  DelayInForce \in Nat
  BY DelaysAssumption DEF TypeOK, DelayInForce, Config

\* std::find_if yields an identifier or none.
LEMMA FirstIdType ==
    ASSUME NEW S \in SUBSET Action
    PROVE  FirstId(S) \in Nat
<1>1. CASE \E a \in S : IsFirst(a, S)
  <2>1. PICK a \in S : IsFirst(a, S)
    BY <1>1
  <2>2. (CHOOSE b \in S : IsFirst(b, S)) \in S
    BY <2>1
  <2>3. \A b \in Action : b.id \in Nat
    BY DEF Action, ActionOf
  <2>4. QED
    BY <1>1, <2>2, <2>3 DEF FirstId
<1>2. CASE ~ \E a \in S : IsFirst(a, S)
  BY <1>2 DEF FirstId, NoId
<1>3. QED
  BY <1>1, <1>2

\* What the settings page shows has the window's type.
LEMMA SettingsShownType ==
    ASSUME NEW S \in SUBSET Action, NEW d \in Nat
    PROVE  SettingsShown(S, d) \in [disable : Nat, webhook : Nat, delay : Nat]
<1>1. \A T : Pending(S, T) \in SUBSET Action
  BY DEF Pending
<1>2. QED
  BY <1>1, FirstIdType DEF SettingsShown

\* A new request is a well-formed list entry whatever handler makes it.
LEMMA NewActionType ==
    ASSUME TypeOK, prompt # NoPrompt
    PROVE  NewAction(RequestedType, prompt.arg) \in Action
<1>1. DelayInForce \in Nat /\ WholeSeconds(now + DelayInForce) \in Nat
  BY DelayInForceType, WholeSecondsRange DEF TypeOK
<1>2. CASE prompt \in PromptOf("onToggleClicked", {NoPayload})
  <2>1. RequestedType = DisableType /\ prompt.arg = NoPayload
    BY <1>2 DEF RequestedType, PromptOf
  <2>2. QED
    BY <1>1, <2>1 DEF NewAction, Action, ActionOf, TypeOK
<1>3. CASE prompt \in PromptOf("onRequestWebhookChangeClicked", Webhooks)
  <2>1. RequestedType = WebhookType /\ prompt.arg \in Webhooks
    BY <1>3 DEF RequestedType, PromptOf
  <2>2. QED
    BY <1>1, <2>1 DEF NewAction, Action, ActionOf, TypeOK
<1>4. CASE prompt \in PromptOf("onRequestDelayChangeClicked", Delays)
  <2>1. RequestedType \in DelayTypes /\ prompt.arg \in Delays
    BY <1>4 DEF RequestedType, PromptOf, DelayTypes
  <2>2. QED
    BY <1>1, <2>1 DEF NewAction, Action, ActionOf, TypeOK
<1>5. CASE prompt \in PromptOf("none", {NoPayload})
  BY <1>5 DEF PromptOf, NoPrompt
<1>6. QED
  BY <1>2, <1>3, <1>4, <1>5 DEF TypeOK

\* The parts of a step that appear in several actions keep their types.
LEMMA GoneType ==
    ASSUME TypeOK, Gone, config' \in Config \cup {NoConfig}, actions' \in SUBSET Action
    PROVE  TypeOK'
  BY DEF TypeOK, Gone, history, NoPrompt, NoTick, NothingShown, NoId, PromptOf

LEMMA SavedActionsType ==
    ASSUME TypeOK, NEW S \in SUBSET Action,
           actions' \in Saved(actions, S, {}) \cup {actions}
    PROVE  actions' \in SUBSET Action
  BY DEF TypeOK, Saved

LEMMA MarkedType ==
    ASSUME NEW a \in Action
    PROVE  [a EXCEPT !.state = "applied"] \in Action
  BY DEF Action, ActionOf

LEMMA ShownAfterRequestType ==
    ASSUME TypeOK, actions' \in SUBSET Action
    PROVE  ShownAfterRequest \in [disable : Nat, webhook : Nat, delay : Nat]
<1>1. shown.disable \in Nat /\ [shown EXCEPT !.disable = nextId]
         \in [disable : Nat, webhook : Nat, delay : Nat]
  BY DEF TypeOK
<1>2. SettingsShown(actions', shown.disable)
         \in [disable : Nat, webhook : Nat, delay : Nat]
  BY <1>1, SettingsShownType
<1>3. QED
  BY <1>1, <1>2 DEF ShownAfterRequest

LEMMA PinAcceptedType ==
    ASSUME TypeOK, PinAccepted
    PROVE  TypeOK'
<1>. USE DEF PinAccepted, createPendingAction
<1>1. DelayInForce \in Nat
  BY DelayInForceType
<1>2. actions' \in SUBSET Action
  <2>1. NewAction(RequestedType, prompt.arg) \in Action
    BY NewActionType
  <2>2. actions \cup {NewAction(RequestedType, prompt.arg)} \in SUBSET Action
    BY <2>1 DEF TypeOK
  <2>3. QED
    BY <2>2, SavedActionsType
<1>3. shown' \in [disable : Nat, webhook : Nat, delay : Nat]
  BY <1>2, ShownAfterRequestType
<1>4. ledger' \in SUBSET [id : Nat, at : Nat, delay : Nat,
                          told : Webhooks \cup {NoWebhook}]
  <2>1. PostedTo \in Webhooks \cup {NoWebhook}
    BY DEF PostedTo, TypeOK, Config
  <2>2. QED
    BY <1>1, <2>1 DEF TypeOK
<1>5. base' \in [at : Nat, delay : Nat]
  BY <1>1 DEF TypeOK
<1>6. QED
  BY <1>2, <1>3, <1>4, <1>5 DEF TypeOK, protection, NoPrompt, PromptOf

LEMMA CancelType ==
    ASSUME TypeOK, NEW id, cancelPendingAction(id)
    PROVE  actions' \in SUBSET Action
<1>1. {a \in actions : a.id # id} \in SUBSET Action
  BY DEF TypeOK
<1>2. QED
  BY <1>1, SavedActionsType DEF cancelPendingAction, Rewritten

LEMMA TakeEffectType ==
    ASSUME TypeOK, NEW a \in tick.queue, TakeEffect(a)
    PROVE  TypeOK'
<1>. USE DEF TakeEffect
<1>1. a \in Action
  BY DEF TypeOK
<1>2. config' \in Config \cup {NoConfig}
  <2>1. CASE a.type = DisableType /\ UNCHANGED config
    BY <2>1 DEF TypeOK
  <2>2. CASE a.type = WebhookType /\ applyWebhookUrlChange(a.payload)
    <3>1. a.payload \in Webhooks
      BY <1>1, <2>2 DEF Action, ActionOf, DisableType, WebhookType, DelayTypes,
                        IncreaseType, DecreaseType
    <3>2. QED
      BY <2>2, <3>1 DEF applyWebhookUrlChange, Saved, TypeOK, Config
  <2>3. CASE a.type \in DelayTypes /\ applyDelayChange(a.payload)
    <3>1. a.payload \in Delays
      BY <1>1, <2>3 DEF Action, ActionOf, DisableType, WebhookType, DelayTypes,
                        IncreaseType, DecreaseType
    <3>2. QED
      BY <2>3, <3>1 DEF applyDelayChange, Saved, TypeOK, Config
  <2>4. QED
    BY <2>1, <2>2, <2>3
<1>3. running' \in BOOLEAN /\ systemDnsApplied' \in BOOLEAN
        /\ firewallBypassApplied' \in BOOLEAN
  BY DEF TypeOK, stopProtection, protection
<1>4. effects' \in SUBSET (Nat \X Nat)
  BY <1>1 DEF TypeOK, Action, ActionOf
<1>5. tick' \in [stage : {"idle", "scan", "mark"}, queue : SUBSET Action]
  BY DEF TypeOK
<1>6. QED
  BY <1>2, <1>3, <1>4, <1>5 DEF TypeOK, history

LEMMA ClickType ==
    ASSUME TypeOK, Click
    PROVE  TypeOK'
<1>. USE DEF disk, protection, history, PromptOf
<1>1. CASE onSetupSubmitted
  BY <1>1, WebhooksAssumption DEF onSetupSubmitted, Saved, TypeOK, Config
<1>2. CASE StartProtection
  BY <1>2 DEF StartProtection, TypeOK
<1>3. CASE RequestStop
  BY <1>3 DEF RequestStop, Ask, TypeOK
<1>4. CASE RequestWebhookChange
  BY <1>4 DEF RequestWebhookChange, Ask, TypeOK
<1>5. CASE RequestDelayChange
  BY <1>5 DEF RequestDelayChange, Ask, TypeOK
<1>6. CASE PinRefused
  BY <1>6 DEF PinRefused, NoPrompt, TypeOK
<1>7. CASE PinAccepted
  BY <1>7, PinAcceptedType
<1>8. CASE CancelStop
  <2>1. actions' \in SUBSET Action
    BY <1>8, CancelType DEF CancelStop
  <2>2. QED
    BY <1>8, <2>1 DEF CancelStop, NoId, TypeOK
<1>9. ASSUME NEW id, CancelChange(id)
      PROVE  TypeOK'
  <2>1. actions' \in SUBSET Action
    BY <1>9, CancelType DEF CancelChange
  <2>2. shown' \in [disable : Nat, webhook : Nat, delay : Nat]
    BY <1>9, <2>1, SettingsShownType DEF CancelChange, TypeOK
  <2>3. QED
    BY <1>9, <2>1, <2>2 DEF CancelChange, TypeOK
<1>10. CASE OpenSettings
  BY <1>10, SettingsShownType DEF OpenSettings, TypeOK
<1>11. CASE BackFromSettings
  BY <1>11 DEF BackFromSettings, TypeOK
<1>12. QED
  BY <1>1, <1>2, <1>3, <1>4, <1>5, <1>6, <1>7, <1>8, <1>9, <1>10, <1>11
     DEF Click, CancelWebhookChange, CancelDelayChange

LEMMA TickStepType ==
    ASSUME TypeOK, TickStep
    PROVE  TypeOK'
<1>. USE DEF disk, protection, history
<1>1. ASSUME NEW a \in tick.queue, SkipAction(a)
      PROVE  TypeOK'
  BY <1>1 DEF SkipAction, TypeOK
<1>2. ASSUME NEW a \in tick.queue, TakeEffect(a)
      PROVE  TypeOK'
  BY <1>2, TakeEffectType
<1>3. ASSUME NEW a \in tick.queue, MarkEffect(a)
      PROVE  TypeOK'
  <2> DEFINE marked ==
        {IF b.id = a.id THEN [b EXCEPT !.state = "applied"] ELSE b : b \in actions}
  <2>1. marked \in SUBSET Action
    <3>1. \A b \in actions : b \in Action /\ [b EXCEPT !.state = "applied"] \in Action
      BY MarkedType DEF TypeOK
    <3>2. QED
      BY <3>1
  <2>2. actions' \in Saved(actions, marked, {}) \cup {actions}
    BY <1>3 DEF MarkEffect, markApplied, Rewritten
  <2> HIDE DEF marked
  <2>3. actions' \in SUBSET Action
    BY <2>1, <2>2, SavedActionsType
  <2>4. QED
    BY <1>3, <2>3 DEF MarkEffect, TypeOK
<1>4. CASE FinishTick
  <2>1. FirstId(Pending(actions, {DisableType})) \in Nat
    BY FirstIdType DEF TypeOK, Pending
  <2>2. shown' \in [disable : Nat, webhook : Nat, delay : Nat]
    BY <1>4, <2>1, SettingsShownType DEF FinishTick, TypeOK
  <2>3. QED
    BY <1>4, <2>2 DEF FinishTick, NoTick, TypeOK
<1>5. QED
  BY <1>1, <1>2, <1>3, <1>4 DEF TickStep

\* The type invariant holds in every behaviour of the desktop program.
THEOREM TypeCorrect == Spec => []TypeOK
<1>1. Init => TypeOK
  <2> SUFFICES ASSUME Init
               PROVE  TypeOK
    OBVIOUS
  <2> USE DEF Init
  <2>1. prompt \in PromptOf("none", {NoPayload})
    BY DEF NoPrompt, PromptOf
  <2>2. tick \in [stage : {"idle", "scan", "mark"}, queue : SUBSET Action]
    BY DEF NoTick
  <2>3. shown \in [disable : Nat, webhook : Nat, delay : Nat]
    BY DEF NothingShown, NoId
  <2>4. base \in [at : Nat, delay : Nat]
    OBVIOUS
  <2>5. QED
    BY <2>1, <2>2, <2>3, <2>4 DEF TypeOK
<1>2. TypeOK /\ [Next]_vars => TypeOK'
  <2> SUFFICES ASSUME TypeOK, [Next]_vars
               PROVE  TypeOK'
    OBVIOUS
  <2>1. CASE Launch
    BY <2>1 DEF Launch, TypeOK, disk, protection, history
  <2>2. CASE Click
    BY <2>2, ClickType
  <2>3. CASE TimerFires
    BY <2>3 DEF TimerFires, TypeOK, disk, protection, history
  <2>4. CASE TickStep
    BY <2>4, TickStepType
  <2>5. CASE Death
    <3>1. config' \in Config \cup {NoConfig} /\ actions' \in SUBSET Action
      BY <2>5 DEF Death, Close, Crash, CrashSavingActions, CrashSavingConfig, disk,
                  TypeOK
    <3>2. Gone
      BY <2>5 DEF Death, Close, Crash, CrashSavingActions, CrashSavingConfig
    <3>3. QED
      BY <3>1, <3>2, GoneType
  <2>6. CASE ClockAdvances
    BY <2>6 DEF ClockAdvances, TypeOK, process, disk, protection, history
  <2>7. CASE UNCHANGED vars
    BY <2>7 DEF vars, TypeOK, process, disk, protection, history
  <2>8. QED
    BY <2>1, <2>2, <2>3, <2>4, <2>5, <2>6, <2>7 DEF Next
<1>3. QED
  BY <1>1, <1>2, PTL DEF Spec

-----------------------------------------------------------------------------
(* No shortcut.                                                            *)

Terms == WholeSeconds(base.at + base.delay)

LEMMA TermsType ==
    ASSUME TypeOK
    PROVE  /\ base.at \in Nat /\ base.delay \in Nat
           /\ base.at + base.delay \in Nat /\ Terms \in Nat
<1>1. base.at \in Nat /\ base.delay \in Nat
  BY DEF TypeOK
<1>2. QED
  BY <1>1, WholeSecondsRange DEF Terms

\* A request that is ready when the loop reaches it shows that the base terms
\* have run out.
LEMMA ReadyMeansRunOut ==
    ASSUME TypeOK, ShortcutInv, NEW a \in tick.queue, isReadyToApply(a)
    PROVE  now >= Terms
<1>1. a \in Action /\ a \in Pending(actions \cup tick.queue, ActionTypes)
  BY DEF TypeOK, isReadyToApply, Pending, Action, ActionOf, ActionTypes
<1>2. a.readyAt >= Terms /\ a.readyAt \in Nat
  BY <1>1 DEF ShortcutInv, Terms, Action, ActionOf
<1>3. QED
  BY <1>2, TermsType DEF isReadyToApply, TypeOK

\* A weakening step is the effect of a request that is ready.
LEMMA WeakeningIsEffect ==
    ASSUME TypeOK, ShortcutInv, [Next]_vars, Weakens
    PROVE  \E a \in tick.queue : TakeEffect(a)
<1>. USE DEF Weakens, disk, protection
<1>1. CASE Click
  <2>1. ASSUME NEW id, CancelChange(id)
        PROVE  FALSE
    BY <1>1, <2>1 DEF CancelChange
  <2>2. CASE onSetupSubmitted
    BY <2>2 DEF onSetupSubmitted, ShortcutInv, Idle
  <2>3. QED
    BY <1>1, <2>1, <2>2
       DEF Click, StartProtection, RequestStop, RequestWebhookChange,
           RequestDelayChange, Ask, PinRefused, PinAccepted, CancelStop,
           CancelWebhookChange, CancelDelayChange, OpenSettings, BackFromSettings,
           TypeOK
<1>2. CASE TickStep
  BY <1>2 DEF TickStep, SkipAction, MarkEffect, FinishTick
<1>3. CASE Death
  BY <1>3 DEF Death, Close, Crash, CrashSavingActions, CrashSavingConfig, Gone
<1>4. CASE Launch \/ TimerFires \/ ClockAdvances \/ UNCHANGED vars
  BY <1>4 DEF Launch, TimerFires, ClockAdvances, vars, process
<1>5. QED
  BY <1>1, <1>2, <1>3, <1>4 DEF Next

\* A new request is due no earlier than the base terms, whichever they are.
LEMMA PinAcceptedKeepsShortcutInv ==
    ASSUME TypeOK, ShortcutInv, PinAccepted
    PROVE  ShortcutInv'
<1> DEFINE new == NewAction(RequestedType, prompt.arg)
<1>. USE DEF PinAccepted, createPendingAction
<1>1. DelayInForce \in Nat /\ now \in Nat
  BY DelayInForceType DEF TypeOK
<1>2. tick.queue = {} /\ tick' = tick /\ now' = now /\ config' = config
  BY DEF NoTick
<1>3. \A a \in Pending(actions', ActionTypes) :
         a \in Pending(actions, ActionTypes) \/ a.readyAt = WholeSeconds(now + DelayInForce)
  BY DEF Saved, Pending, NewAction
<1>4. CASE Pending(actions, ActionTypes) = {}
  <2>1. base' = [at |-> now, delay |-> DelayInForce]
    BY <1>4
  <2>2. base'.at = now /\ base'.delay = DelayInForce
    BY <2>1
  <2>3. WholeSeconds(now + DelayInForce) \in Nat
    BY <1>1, WholeSecondsRange
  <2>4. \A a \in Pending(actions', ActionTypes) :
           a.readyAt >= WholeSeconds(base'.at + base'.delay)
    BY <1>3, <1>4, <2>2, <2>3
  <2>5. config # NoConfig /\ config.delay = DelayInForce
    BY DEF DelayInForce
  <2>6. QED
    BY <1>1, <1>2, <2>2, <2>4, <2>5 DEF ShortcutInv, Pending, WholeSeconds
<1>5. CASE Pending(actions, ActionTypes) # {}
  <2>1. base' = base
    BY <1>5
  <2>2. WholeSeconds(now + DelayInForce) >= Terms
    <3>1. CASE now < Terms
      <4>1. base.at + base.delay <= now + DelayInForce
        BY <1>1, <3>1, TermsType DEF ShortcutInv, DelayInForce, Terms
      <4>2. QED
        BY <1>1, <4>1, TermsType, WholeSecondsMonotone DEF Terms
    <3>2. CASE now >= Terms
      <4>1. Terms <= now + DelayInForce
        BY <1>1, <3>2, TermsType
      <4>2. WholeSeconds(Terms) <= WholeSeconds(now + DelayInForce)
        BY <1>1, <4>1, TermsType, WholeSecondsMonotone
      <4>3. QED
        BY <4>2, TermsType, WholeSecondsIdempotent DEF Terms
    <3>3. QED
      BY <1>1, <3>1, <3>2, TermsType
  <2>3. \A a \in Pending(actions', ActionTypes) : a.readyAt >= Terms
    BY <1>3, <2>2 DEF ShortcutInv, Pending, Terms
  <2>4. QED
    BY <1>1, <1>2, <2>1, <2>3 DEF ShortcutInv, Pending, Terms, WholeSeconds
<1>6. QED
  BY <1>4, <1>5

\* Marking an entry makes it no longer waiting and moves no deadline.
LEMMA MarkKeepsShortcutInv ==
    ASSUME TypeOK, ShortcutInv, NEW a \in tick.queue, MarkEffect(a)
    PROVE  ShortcutInv'
<1>. USE DEF MarkEffect, history
<1> DEFINE marked(c) == IF c.id = a.id THEN [c EXCEPT !.state = "applied"] ELSE c
<1>1. \A b \in Pending(actions', ActionTypes) : b \in Pending(actions, ActionTypes)
  <2> SUFFICES ASSUME NEW b \in actions', b.state = "pending"
               PROVE  b \in actions
    BY DEF Pending
  <2>1. CASE actions' = actions
    BY <2>1
  <2>2. CASE actions' = {marked(c) : c \in actions}
    <3>1. PICK c \in actions : b = marked(c)
      BY <2>2
    <3>2. [c EXCEPT !.state = "applied"].state = "applied"
      BY DEF TypeOK, Action, ActionOf
    <3>3. c.id # a.id
      BY <3>1, <3>2
    <3>4. QED
      BY <3>1, <3>3
  <2>3. QED
    BY <2>1, <2>2 DEF markApplied, Rewritten, Saved
<1>2. tick'.queue \subseteq tick.queue /\ tick'.stage = "scan"
  OBVIOUS
<1>3. \A b \in Pending(actions' \cup tick'.queue, ActionTypes) :
         b \in Pending(actions \cup tick.queue, ActionTypes)
  BY <1>1, <1>2 DEF Pending
<1>4. QED
  BY <1>2, <1>3 DEF ShortcutInv, WholeSeconds

\* Nothing else touches the terms of a waiting request.
LEMMA ClickKeepsShortcutInv ==
    ASSUME TypeOK, ShortcutInv, Click
    PROVE  ShortcutInv'
<1>. USE DEF disk, protection, history, ShortcutInv, WholeSeconds
<1>1. CASE onSetupSubmitted
  <2>1. config = NoConfig /\ ~(now < Terms)
    BY <1>1 DEF onSetupSubmitted, Idle, Terms
  <2>2. /\ tick' = tick /\ base' = base /\ now' = now /\ actions' = actions
        /\ page' = "main"
    BY <1>1 DEF onSetupSubmitted
  <2>3. QED
    BY <2>1, <2>2 DEF Pending, Terms
<1>2. CASE PinAccepted
  BY <1>2, PinAcceptedKeepsShortcutInv
<1>3. ASSUME NEW id, cancelPendingAction(id), tick' = tick
      PROVE  \A a \in Pending(actions' \cup tick'.queue, ActionTypes) :
                a \in Pending(actions \cup tick.queue, ActionTypes)
  BY <1>3 DEF cancelPendingAction, Rewritten, Saved, Pending
<1>4. CASE CancelStop
  BY <1>3, <1>4 DEF CancelStop
<1>5. ASSUME NEW id, CancelChange(id)
      PROVE  ShortcutInv'
  BY <1>3, <1>5 DEF CancelChange
<1>6. CASE StartProtection
  BY <1>6 DEF StartProtection
<1>7. CASE RequestStop \/ RequestWebhookChange \/ RequestDelayChange
  BY <1>7 DEF RequestStop, RequestWebhookChange, RequestDelayChange, Ask
<1>8. CASE PinRefused
  BY <1>8 DEF PinRefused
<1>9. CASE OpenSettings \/ BackFromSettings
  BY <1>9 DEF OpenSettings, BackFromSettings
<1>10. QED
  BY <1>1, <1>2, <1>4, <1>5, <1>6, <1>7, <1>8, <1>9
     DEF Click, CancelWebhookChange, CancelDelayChange

LEMMA TickStepKeepsShortcutInv ==
    ASSUME TypeOK, ShortcutInv, TickStep
    PROVE  ShortcutInv'
<1>. USE DEF disk, protection, history
<1>1. ASSUME NEW a \in tick.queue, SkipAction(a)
      PROVE  ShortcutInv'
  <2>1. tick'.queue \subseteq tick.queue /\ tick'.stage = "scan"
    BY <1>1 DEF SkipAction, Reached, TypeOK
  <2>2. QED
    BY <1>1, <2>1 DEF SkipAction, ShortcutInv, Pending, WholeSeconds
<1>2. ASSUME NEW a \in tick.queue, TakeEffect(a)
      PROVE  ShortcutInv'
  <2>1. now >= Terms
    BY <1>2, ReadyMeansRunOut DEF TakeEffect
  <2>2. ~(now < Terms)
    BY <2>1, TermsType DEF TypeOK
  <2>3. tick'.queue = tick.queue /\ tick'.stage = "mark"
    BY <1>2 DEF TakeEffect, TypeOK
  <2>4. config = NoConfig => config' = NoConfig
    BY <1>2 DEF TakeEffect, applyWebhookUrlChange, applyDelayChange
  <2>5. QED
    BY <1>2, <2>2, <2>3, <2>4
       DEF TakeEffect, ShortcutInv, Pending, Terms, WholeSeconds
<1>3. ASSUME NEW a \in tick.queue, MarkEffect(a)
      PROVE  ShortcutInv'
  BY <1>3, MarkKeepsShortcutInv
<1>4. CASE FinishTick
  BY <1>4 DEF FinishTick, NoTick, ShortcutInv, Pending, WholeSeconds
<1>5. QED
  BY <1>1, <1>2, <1>3, <1>4 DEF TickStep

LEMMA DeathKeepsShortcutInv ==
    ASSUME TypeOK, ShortcutInv, Death
    PROVE  ShortcutInv'
<1>1. up' = FALSE /\ tick' = NoTick /\ base' = base /\ now' = now
        /\ actions' \subseteq actions
  BY DEF Death, Close, Crash, CrashSavingActions, CrashSavingConfig, Gone, disk, history
<1>2. now < Terms => config' = config
  <2>1. CASE CrashSavingConfig
    <3>1. PICK a \in tick.queue : isReadyToApply(a)
      BY <2>1 DEF CrashSavingConfig, SavingConfig
    <3>2. now >= Terms
      BY <3>1, ReadyMeansRunOut
    <3>3. QED
      BY <3>2, TermsType DEF TypeOK
  <2>2. CASE Close \/ Crash \/ CrashSavingActions
    BY <2>2 DEF Close, Crash, CrashSavingActions, disk
  <2>3. QED
    BY <2>1, <2>2 DEF Death
<1>3. QED
  BY <1>1, <1>2 DEF ShortcutInv, Pending, NoTick, Terms, WholeSeconds

\* The strengthening is an invariant of the program.
THEOREM ShortcutInvariant == Spec => []ShortcutInv
<1>1. Init => ShortcutInv
  <2> SUFFICES ASSUME Init
               PROVE  ShortcutInv
    OBVIOUS
  <2>1. WholeSeconds(base.at + base.delay) <= 0
    BY WholeSecondsRange DEF Init
  <2>2. WholeSeconds(base.at + base.delay) \in Nat
    BY WholeSecondsRange DEF Init
  <2>3. QED
    BY <2>1, <2>2 DEF Init, ShortcutInv, NoTick, Pending
<1>2. TypeOK /\ ShortcutInv /\ [Next]_vars => ShortcutInv'
  <2> SUFFICES ASSUME TypeOK, ShortcutInv, [Next]_vars
               PROVE  ShortcutInv'
    OBVIOUS
  <2>1. CASE Launch
    BY <2>1 DEF Launch, ShortcutInv, Pending, WholeSeconds, disk, history
  <2>2. CASE Click
    BY <2>2, ClickKeepsShortcutInv
  <2>3. CASE TimerFires
    BY <2>3 DEF TimerFires, NoTick, ShortcutInv, Pending, WholeSeconds, disk, history
  <2>4. CASE TickStep
    BY <2>4, TickStepKeepsShortcutInv
  <2>5. CASE Death
    BY <2>5, DeathKeepsShortcutInv
  <2>6. CASE ClockAdvances
    BY <2>6, TermsType
       DEF ClockAdvances, TypeOK, ShortcutInv, Pending, Terms, WholeSeconds, disk,
           process, history
  <2>7. CASE UNCHANGED vars
    BY <2>7 DEF vars, ShortcutInv, Pending, WholeSeconds, disk, process, history
  <2>8. QED
    BY <2>1, <2>2, <2>3, <2>4, <2>5, <2>6, <2>7 DEF Next
<1>3. QED
  BY <1>1, <1>2, TypeCorrect, PTL DEF Spec

\* Whatever is requested, cancelled and asked again, across crashes, nothing is
\* weakened before the delay in force at the oldest connected request has passed.
THEOREM NoShortcutHolds == Spec => NoShortcut
<1>1. TypeOK /\ ShortcutInv /\ [Next]_vars
        => [Weakens => now >= WholeSeconds(base.at + base.delay)]_vars
  <2> SUFFICES ASSUME TypeOK, ShortcutInv, [Next]_vars, Weakens
               PROVE  now >= WholeSeconds(base.at + base.delay)
    OBVIOUS
  <2>1. PICK a \in tick.queue : TakeEffect(a)
    BY WeakeningIsEffect
  <2>2. QED
    BY <2>1, ReadyMeansRunOut DEF TakeEffect, Terms
<1>2. QED
  BY <1>1, TypeCorrect, ShortcutInvariant, PTL DEF Spec, NoShortcut

\* In real time the gate opens less than a second early.
THEOREM LessThanASecondEarlyHolds == Spec => LessThanASecondEarly
<1>1. TypeOK /\ ShortcutInv /\ [Next]_vars
        => [Weakens => now + UnitsPerSecond > base.at + base.delay]_vars
  <2> SUFFICES ASSUME TypeOK, ShortcutInv, [Next]_vars, Weakens
               PROVE  now + UnitsPerSecond > base.at + base.delay
    OBVIOUS
  <2>1. PICK a \in tick.queue : TakeEffect(a)
    BY WeakeningIsEffect
  <2>2. now >= Terms
    BY <2>1, ReadyMeansRunOut DEF TakeEffect
  <2>3. base.at + base.delay < Terms + UnitsPerSecond
    BY TermsType, WholeSecondsRange DEF Terms
  <2>4. QED
    BY <2>2, <2>3, TermsType, UnitsAssumption DEF TypeOK
<1>2. QED
  BY <1>1, TypeCorrect, ShortcutInvariant, PTL DEF Spec, LessThanASecondEarly

-----------------------------------------------------------------------------
(* The books: what the list on disk, the loop's snapshot and the history   *)
(* say of each other.  They hold however saves fail and whatever dies.     *)

TermsOf(l) == WholeSeconds(l.at + l.delay)

Listing ==
    /\ \A a \in Known : a.id \in 1..MaxRequests /\ a.id < nextId
    /\ \A a, b \in Known : a.id = b.id => a = b
    /\ "cut" \notin SaveFaults => tick.queue \subseteq actions
    /\ tick.stage = "idle" => tick.queue = {}

Recorded ==
    /\ nextId # NoId
    /\ \A l \in ledger : l.id < nextId
    /\ \A l, m \in ledger : l.id = m.id => l = m
    /\ \A a \in Known : \E l \in ledger : l.id = a.id /\ a.readyAt = TermsOf(l)
    /\ \A e \in effects : e[2] < nextId /\ e[1] <= launches

Books == Listing /\ Recorded

\* A step that makes no request and lets none take effect, and at most forgets some.
LEMMA BooksKept ==
    ASSUME TypeOK, Books, UNCHANGED <<nextId, ledger, effects>>,
           launches' = launches \/ launches' = launches + 1,
           actions' \subseteq actions, tick'.queue \subseteq Known,
           "cut" \notin SaveFaults => tick'.queue \subseteq actions',
           tick'.stage = "idle" => tick'.queue = {}
    PROVE  Books'
<1>0. Known' \subseteq Known
  BY DEF Known
<1>1. Listing'
  BY <1>0 DEF Books, Listing
<1>2. \A e \in effects' : e[2] < nextId' /\ e[1] <= launches'
  <2>1. \A e \in effects : e[1] \in Nat
    BY DEF TypeOK
  <2>2. QED
    BY <2>1 DEF Books, Recorded, TypeOK
<1>3. Recorded'
  BY <1>0, <1>2 DEF Books, Recorded, TermsOf, WholeSeconds, NoId
<1>4. QED
  BY <1>1, <1>3 DEF Books

LEMMA PinAcceptedKeepsBooks ==
    ASSUME TypeOK, Books, PinAccepted
    PROVE  Books'
<1> DEFINE new == NewAction(RequestedType, prompt.arg)
           entry == [id |-> nextId, at |-> now, delay |-> DelayInForce, told |-> PostedTo]
<1>. USE DEF PinAccepted, createPendingAction
<1>1. nextId \in 1..MaxRequests /\ nextId' = nextId + 1 /\ nextId \in Nat
  BY RequestsAssumption DEF TypeOK, Books, Recorded, NoId
<1>2. Known' \subseteq Known \cup {new} /\ tick'.queue = {} /\ tick.queue = {}
  BY DEF Saved, NoTick, Known
<1>3. new.id = nextId /\ new.readyAt = TermsOf(entry)
  BY DEF NewAction, TermsOf
<1>4. \A a \in Known : a.id \in Nat
  BY DEF TypeOK, Action, ActionOf, Known
<1> HIDE DEF new
<1>5. Listing'
  BY <1>1, <1>2, <1>3, <1>4 DEF Books, Listing
<1>6. ledger' = ledger \cup {entry} /\ entry.id = nextId
  OBVIOUS
<1>7. \A l \in ledger : l.id \in Nat
  BY DEF TypeOK
<1>8. \A a \in Known' : \E l \in ledger' : l.id = a.id /\ a.readyAt = TermsOf(l)
  BY <1>2, <1>3, <1>6 DEF Books, Recorded
<1> HIDE DEF entry
<1>9. \A l, m \in ledger' : l.id < nextId' /\ (l.id = m.id => l = m)
  BY <1>1, <1>6, <1>7 DEF Books, Recorded
<1>10. \A e \in effects' : e[2] < nextId' /\ e[1] <= launches'
  <2>1. \A e \in effects : e[2] \in Nat
    BY DEF TypeOK
  <2>2. QED
    BY <1>1, <2>1 DEF Books, Recorded
<1>11. Recorded'
  BY <1>1, <1>8, <1>9, <1>10 DEF Recorded, TermsOf, WholeSeconds, NoId
<1>12. QED
  BY <1>5, <1>11 DEF Books

LEMMA TakeEffectKeepsBooks ==
    ASSUME TypeOK, Books, NEW a \in tick.queue, TakeEffect(a)
    PROVE  Books'
<1>. USE DEF TakeEffect, history
<1>1. tick'.queue = tick.queue /\ tick'.stage = "mark"
  BY DEF TypeOK
<1>2. a \in Known /\ Known' = Known
  BY <1>1 DEF Known
<1>3. \A e \in effects' : e[2] < nextId' /\ e[1] <= launches'
  BY <1>2 DEF Books, Listing, Recorded, TypeOK
<1>4. Listing'
  BY <1>1, <1>2 DEF Books, Listing
<1>5. Recorded'
  BY <1>2, <1>3 DEF Books, Recorded, TermsOf, WholeSeconds, NoId
<1>6. QED
  BY <1>4, <1>5 DEF Books

\* What a marked list holds.
marked(i, S) == {IF c.id = i THEN [c EXCEPT !.state = "applied"] ELSE c : c \in S}

\* Marking changes the state of one entry, nothing else.
LEMMA MarkingKeepsEntries ==
    ASSUME NEW S \in SUBSET Action, NEW i
    PROVE  /\ \A b \in marked(i, S) : \E c \in S :
                 b.id = c.id /\ b.readyAt = c.readyAt /\ b.type = c.type
                    /\ b.payload = c.payload
                    /\ (c.id # i => b = c)
                    /\ (c.id = i => b = [c EXCEPT !.state = "applied"] /\ b.state = "applied")
           /\ \A c \in S : c.id # i => c \in marked(i, S)
<1>1. \A c \in S : /\ [c EXCEPT !.state = "applied"].id = c.id
                   /\ [c EXCEPT !.state = "applied"].readyAt = c.readyAt
                   /\ [c EXCEPT !.state = "applied"].type = c.type
                   /\ [c EXCEPT !.state = "applied"].payload = c.payload
                   /\ [c EXCEPT !.state = "applied"].state = "applied"
  BY DEF Action, ActionOf
<1>2. QED
  BY <1>1 DEF marked

LEMMA MarkKeepsBooks ==
    ASSUME TypeOK, Books, NEW a \in tick.queue, MarkEffect(a)
    PROVE  Books'
<1>. USE DEF MarkEffect, history
<1>1. \/ actions' = actions
      \/ "cut" \in SaveFaults /\ actions' = {}
      \/ actions' = marked(a.id, actions)
  BY DEF markApplied, Rewritten, Saved, marked
<1>2. CASE actions' = actions \/ ("cut" \in SaveFaults /\ actions' = {})
  BY <1>2, BooksKept DEF Books, Listing, Known
<1>3. CASE actions' = marked(a.id, actions)
  <2>0. actions \in SUBSET Action
    BY DEF TypeOK
  <2>1. \A b \in actions' : \E c \in actions :
           b.id = c.id /\ b.readyAt = c.readyAt /\ (c.id # a.id => b = c)
              /\ (c.id = a.id => b = [c EXCEPT !.state = "applied"])
    BY <1>3, <2>0, MarkingKeepsEntries
  <2>2. \A b \in tick'.queue : b \in tick.queue /\ b.id # a.id
    BY DEF Books, Listing, Known
  <2>3. "cut" \notin SaveFaults => tick'.queue \subseteq actions'
    <3>1. \A c \in actions : c.id # a.id => c \in actions'
      BY <1>3, <2>0, MarkingKeepsEntries
    <3>2. QED
      BY <2>2, <3>1 DEF Books, Listing
  <2>4. \A b \in Known' : \E c \in Known :
           b.id = c.id /\ b.readyAt = c.readyAt /\ (c.id # a.id => b = c)
    BY <2>1, <2>2 DEF Known
  <2>5. \A b, c \in Known' : b.id = c.id => b = c
    <3> SUFFICES ASSUME NEW b \in Known', NEW c \in Known', b.id = c.id
                 PROVE  b = c
      OBVIOUS
    <3>1. CASE b.id # a.id
      BY <2>4, <3>1 DEF Books, Listing
    <3>2. CASE b.id = a.id
      <4>1. b \in actions' /\ c \in actions'
        BY <2>2, <3>2 DEF Known
      <4>2. PICK d \in actions : d.id = a.id /\ b = [d EXCEPT !.state = "applied"]
        BY <2>1, <3>2, <4>1
      <4>3. PICK e \in actions : e.id = a.id /\ c = [e EXCEPT !.state = "applied"]
        BY <2>1, <3>2, <4>1
      <4>4. d = e
        BY <4>2, <4>3 DEF Books, Listing, Known
      <4>5. QED
        BY <4>2, <4>3, <4>4
    <3>3. QED
      BY <3>1, <3>2
  <2>6. Listing'
    BY <2>3, <2>4, <2>5 DEF Books, Listing
  <2>7. Recorded'
    BY <2>4 DEF Books, Recorded, TermsOf, WholeSeconds, NoId
  <2>8. QED
    BY <2>6, <2>7 DEF Books
<1>4. QED
  BY <1>1, <1>2, <1>3

\* The books are kept by every step of the program.
THEOREM BooksInvariant == Spec => []Books
<1>1. Init => Books
  BY DEF Init, Books, Listing, Recorded, NoTick, NoId, Known
<1>2. TypeOK /\ Books /\ [Next]_vars => Books'
  <2> SUFFICES ASSUME TypeOK, Books, [Next]_vars
               PROVE  Books'
    OBVIOUS
  <2>. USE DEF disk, protection, process, history
  <2>1. CASE Launch
    BY <2>1, BooksKept DEF Launch, Books, Listing, Known
  <2>2. CASE Click
    <3>1. CASE PinAccepted
      BY <3>1, PinAcceptedKeepsBooks
    <3>2. ASSUME NEW id, cancelPendingAction(id), tick = NoTick, tick' = tick,
                 UNCHANGED <<nextId, ledger, effects, launches>>
          PROVE  Books'
      BY <3>2, BooksKept DEF cancelPendingAction, Rewritten, Saved, NoTick
    <3>3. CASE CancelStop
      BY <3>2, <3>3 DEF CancelStop, Idle
    <3>4. ASSUME NEW id, CancelChange(id)
          PROVE  Books'
      BY <3>2, <3>4 DEF CancelChange, Idle
    <3>5. CASE /\ UNCHANGED <<nextId, ledger, effects, launches, actions, tick>>
      BY <3>5, BooksKept DEF Books, Listing, Known
    <3>6. QED
      BY <2>2, <3>1, <3>3, <3>4, <3>5
         DEF Click, onSetupSubmitted, StartProtection, RequestStop,
             RequestWebhookChange, RequestDelayChange, Ask, PinRefused,
             CancelWebhookChange, CancelDelayChange, OpenSettings, BackFromSettings
  <2>3. CASE TimerFires
    BY <2>3, BooksKept DEF TimerFires, Known
  <2>4. CASE TickStep
    <3>1. ASSUME NEW a \in tick.queue, SkipAction(a)
          PROVE  Books'
      <4>1. tick'.queue \subseteq tick.queue /\ tick'.stage = "scan"
        BY <3>1 DEF SkipAction, Reached, TypeOK
      <4>2. QED
        BY <3>1, <4>1, BooksKept DEF SkipAction, Books, Listing, Known
    <3>2. CASE FinishTick
      BY <3>2, BooksKept DEF FinishTick, NoTick
    <3>3. QED
      BY <2>4, <3>1, <3>2, TakeEffectKeepsBooks, MarkKeepsBooks DEF TickStep
  <2>5. CASE Death
    BY <2>5, BooksKept
       DEF Death, Close, Crash, CrashSavingActions, CrashSavingConfig, Gone, NoTick
  <2>6. CASE ClockAdvances \/ UNCHANGED vars
    BY <2>6, BooksKept DEF ClockAdvances, vars, Books, Listing, Known
  <2>7. QED
    BY <2>1, <2>2, <2>3, <2>4, <2>5, <2>6 DEF Next
<1>3. QED
  BY <1>1, <1>2, TypeCorrect, PTL DEF Spec

\* What the settings page shows is on disk whenever no tick is under way, and the
\* handler that waits in the PIN dialog has no rival.
Offered(types) == FirstId(Pending(actions, types))

Handlers == {"onRequestWebhookChangeClicked", "onRequestDelayChangeClicked"}
Asks(handler) == IF handler = "onRequestWebhookChangeClicked" THEN {WebhookType} ELSE DelayTypes

Offers ==
    /\ OneChangeOpen
    /\ page = "settings" /\ tick.stage = "idle" =>
          shown.webhook = Offered({WebhookType}) /\ shown.delay = Offered(DelayTypes)
    /\ prompt.handler \in Handlers =>
          page = "settings" /\ Pending(actions, Asks(prompt.handler)) = {}
    /\ prompt.handler = "onToggleClicked" => page = "main"
    /\ ~up => prompt = NoPrompt /\ page = "setup"

\* The only entry of a list is the first.
LEMMA OnlyIsFirst ==
    ASSUME NEW S \in SUBSET Action, \A a, b \in S : a = b
    PROVE  /\ S = {} => FirstId(S) = NoId
           /\ \A a \in S : FirstId(S) = a.id
<1>1. ASSUME NEW a \in S
      PROVE  FirstId(S) = a.id
  <2>1. a.id \in Nat
    BY DEF Action, ActionOf
  <2>2. IsFirst(a, S)
    BY <2>1 DEF IsFirst
  <2>3. (CHOOSE b \in S : IsFirst(b, S)) = a
    BY <2>2
  <2>4. QED
    BY <2>2, <2>3 DEF FirstId
<1>2. S = {} => FirstId(S) = NoId
  BY DEF FirstId
<1>3. QED
  BY <1>1, <1>2

\* What is shown says whether anything waits, and what.
LEMMA OfferedTells ==
    ASSUME TypeOK, Books, OneChangeOpen, NEW types \in {{WebhookType}, DelayTypes}
    PROVE  /\ Offered(types) = NoId => Pending(actions, types) = {}
           /\ \A a \in Pending(actions, types) : Offered(types) = a.id
<1>1. Pending(actions, types) \in SUBSET Action
  BY DEF TypeOK, Pending
<1>2. \A a \in Pending(actions, types) : a.id # NoId
  BY DEF Books, Listing, Pending, NoId, Known
<1>3. \A a, b \in Pending(actions, types) : a = b
  BY DEF OneChangeOpen
<1>4. QED
  BY <1>1, <1>2, <1>3, OnlyIsFirst DEF Offered

\* A step after which no more waits than before.
Fewer == Pending(actions', ActionTypes) \subseteq Pending(actions, ActionTypes)

LEMMA FewerOpen ==
    ASSUME Fewer, OneChangeOpen
    PROVE  /\ OneChangeOpen'
           /\ \A T \in {{WebhookType}, DelayTypes, {DisableType}} :
                 Pending(actions', T) \subseteq Pending(actions, T)
  BY DEF Fewer, OneChangeOpen, Pending, ActionTypes

\* Cancelling, marking and losing the list leave no more waiting than before.
LEMMA CancelIsFewer ==
    ASSUME NEW id, cancelPendingAction(id)
    PROVE  Fewer
  BY DEF cancelPendingAction, Rewritten, Saved, Fewer, Pending

LEMMA MarkIsFewer ==
    ASSUME TypeOK, NEW id, markApplied(id)
    PROVE  Fewer
<1>1. CASE actions' = actions \/ actions' = {}
  BY <1>1 DEF Fewer, Pending
<1>2. CASE actions' = marked(id, actions)
  <2>1. actions \in SUBSET Action
    BY DEF TypeOK
  <2>2. \A b \in actions' : \E c \in actions :
           (c.id # id => b = c) /\ (c.id = id => b.state = "applied")
    BY <1>2, <2>1, MarkingKeepsEntries
  <2>3. QED
    BY <2>2 DEF Fewer, Pending
<1>3. QED
  BY <1>1, <1>2 DEF markApplied, Rewritten, Saved, marked

\* A step inside a tick, or that moves nothing which Offers speaks of.
LEMMA OffersKept ==
    ASSUME TypeOK, Offers, Fewer, UNCHANGED <<up, page, prompt>>,
           \/ tick'.stage # "idle"
           \/ UNCHANGED <<actions, tick>> /\ shown'.webhook = shown.webhook
                 /\ shown'.delay = shown.delay
           \/ shown'.webhook = Offered({WebhookType})' /\ shown'.delay = Offered(DelayTypes)'
    PROVE  Offers'
<1>1. OneChangeOpen'
  BY FewerOpen DEF Offers
<1>2. prompt'.handler \in Handlers =>
          page' = "settings" /\ Pending(actions', Asks(prompt'.handler)) = {}
  BY FewerOpen DEF Offers, Asks
<1>3. page' = "settings" /\ tick'.stage = "idle" =>
          shown'.webhook = Offered({WebhookType})' /\ shown'.delay = Offered(DelayTypes)'
  <2>1. UNCHANGED actions =>
           Offered({WebhookType})' = Offered({WebhookType})
              /\ Offered(DelayTypes)' = Offered(DelayTypes)
    BY DEF Offered, FirstId, IsFirst, Pending
  <2>2. QED
    BY <2>1 DEF Offers
<1>4. QED
  BY <1>1, <1>2, <1>3 DEF Offers, Asks, Pending

\* A new request had no rival.
LEMMA PinAcceptedKeepsOffers ==
    ASSUME TypeOK, Books, Offers, PinAccepted
    PROVE  Offers'
<1> DEFINE new == NewAction(RequestedType, prompt.arg)
<1>. USE DEF PinAccepted, createPendingAction
<1>1. actions' \subseteq actions \cup {new} /\ new.type = RequestedType
  BY DEF Saved, NewAction
<1>2. prompt' = NoPrompt /\ page' = page /\ up' = up /\ up /\ prompt # NoPrompt
  OBVIOUS
<1>3. CASE prompt.handler = "onToggleClicked"
  <2>1. new.type = DisableType /\ page = "main"
    BY <1>1, <1>3 DEF RequestedType, Offers
  <2> HIDE DEF new
  <2>2. \A T \in {{WebhookType}, DelayTypes} : Pending(actions', T) \subseteq Pending(actions, T)
    BY <1>1, <2>1 DEF Pending, DisableType, WebhookType, DelayTypes, IncreaseType, DecreaseType
  <2>3. OneChangeOpen'
    BY <2>2 DEF Offers, OneChangeOpen
  <2>4. QED
    BY <1>2, <2>1, <2>3 DEF Offers, Handlers, NoPrompt
<1>4. CASE prompt.handler \in Handlers
  <2>1. new.type \in Asks(prompt.handler)
    BY <1>1, <1>4 DEF RequestedType, Handlers, Asks, DelayTypes
  <2>2. Pending(actions, Asks(prompt.handler)) = {}
    BY <1>4 DEF Offers
  <2> HIDE DEF new
  <2>3. \A a, b \in Pending(actions', Asks(prompt.handler)) : a = b
    BY <1>1, <2>2 DEF Pending
  <2>4. \A T \in {{WebhookType}, DelayTypes} :
           T # Asks(prompt.handler) => Pending(actions', T) \subseteq Pending(actions, T)
    BY <1>1, <2>1, <1>4
       DEF Pending, Handlers, Asks, WebhookType, DelayTypes, IncreaseType, DecreaseType
  <2>5. OneChangeOpen'
    BY <2>3, <2>4 DEF Offers, OneChangeOpen
  <2>6. shown' = SettingsShown(actions', shown.disable)
    BY <1>4 DEF ShownAfterRequest, Handlers
  <2>7. shown'.webhook = Offered({WebhookType})' /\ shown'.delay = Offered(DelayTypes)'
    BY <2>6 DEF SettingsShown, Offered, FirstId, IsFirst, Pending
  <2>8. QED
    BY <1>2, <2>5, <2>7 DEF Offers, Handlers, NoPrompt
<1>5. QED
  BY <1>2, <1>3, <1>4 DEF TypeOK, PromptOf, NoPrompt, Handlers

LEMMA ClickKeepsOffers ==
    ASSUME TypeOK, Books, Offers, Click
    PROVE  Offers'
<1>. USE DEF disk, protection, process
<1>1. UNCHANGED actions => Fewer
  BY DEF Fewer
<1>2. CASE onSetupSubmitted
  <2>1. OneChangeOpen'
    BY <1>1, <1>2, FewerOpen DEF onSetupSubmitted, Offers
  <2>2. QED
    BY <1>2, <2>1 DEF onSetupSubmitted, Idle, Offers, NoPrompt, Handlers
<1>3. CASE StartProtection
  BY <1>1, <1>3, OffersKept DEF StartProtection
<1>4. CASE RequestStop
  <2>1. OneChangeOpen'
    BY <1>1, <1>4, FewerOpen DEF RequestStop, Ask, Offers
  <2>2. QED
    BY <1>4, <2>1 DEF RequestStop, Ask, Idle, Offers, Handlers
<1>5. ASSUME NEW arg, NEW handler \in Handlers, Ask(handler, arg), Idle, page = "settings",
             Pending(actions, Asks(handler)) = {}
      PROVE  Offers'
  <2>1. OneChangeOpen'
    BY <1>1, <1>5, FewerOpen DEF Ask, Offers
  <2>2. prompt'.handler = handler
    BY <1>5 DEF Ask
  <2>3. Offered({WebhookType})' = Offered({WebhookType})
           /\ Offered(DelayTypes)' = Offered(DelayTypes)
    BY <1>5 DEF Ask, Offered, FirstId, IsFirst, Pending
  <2>4. QED
    BY <1>5, <2>1, <2>2, <2>3 DEF Ask, Idle, Offers, Handlers, Asks, Pending
<1>6. CASE RequestWebhookChange
  <2>1. Pending(actions, {WebhookType}) = {}
    BY <1>6, OfferedTells DEF RequestWebhookChange, Idle, NoTick, Offers
  <2>2. QED
    BY <1>5, <1>6, <2>1 DEF RequestWebhookChange, Handlers, Asks
<1>7. CASE RequestDelayChange
  <2>1. Pending(actions, DelayTypes) = {}
    BY <1>7, OfferedTells DEF RequestDelayChange, Idle, NoTick, Offers
  <2>2. QED
    BY <1>5, <1>7, <2>1 DEF RequestDelayChange, Handlers, Asks
<1>8. CASE PinRefused
  <2>1. OneChangeOpen'
    BY <1>1, <1>8, FewerOpen DEF PinRefused, Offers
  <2>2. Offered({WebhookType})' = Offered({WebhookType})
           /\ Offered(DelayTypes)' = Offered(DelayTypes)
    BY <1>8 DEF PinRefused, Offered, FirstId, IsFirst, Pending
  <2>3. QED
    BY <1>8, <2>1, <2>2 DEF PinRefused, Offers, NoPrompt, Handlers
<1>9. CASE PinAccepted
  BY <1>9, PinAcceptedKeepsOffers
<1>10. CASE CancelStop
  <2>1. OneChangeOpen'
    BY <1>10, CancelIsFewer, FewerOpen DEF CancelStop, Offers
  <2>2. QED
    BY <1>10, <2>1 DEF CancelStop, Idle, Offers, NoPrompt, Handlers
<1>11. ASSUME NEW id, CancelChange(id)
       PROVE  Offers'
  <2>1. Fewer
    BY <1>11, CancelIsFewer DEF CancelChange
  <2>2. shown'.webhook = Offered({WebhookType})' /\ shown'.delay = Offered(DelayTypes)'
    BY <1>11 DEF CancelChange, SettingsShown, Offered, FirstId, IsFirst, Pending
  <2>3. QED
    BY <1>11, <2>1, <2>2, OffersKept DEF CancelChange
<1>12. CASE OpenSettings
  <2>1. OneChangeOpen'
    BY <1>1, <1>12, FewerOpen DEF OpenSettings, Offers
  <2>2. shown'.webhook = Offered({WebhookType})' /\ shown'.delay = Offered(DelayTypes)'
    BY <1>12 DEF OpenSettings, SettingsShown, Offered, FirstId, IsFirst, Pending
  <2>3. QED
    BY <1>12, <2>1, <2>2 DEF OpenSettings, Idle, Offers, NoPrompt, Handlers
<1>13. CASE BackFromSettings
  <2>1. OneChangeOpen'
    BY <1>1, <1>13, FewerOpen DEF BackFromSettings, Offers
  <2>2. QED
    BY <1>13, <2>1 DEF BackFromSettings, Idle, Offers, NoPrompt, Handlers
<1>14. QED
  BY <1>2, <1>3, <1>4, <1>6, <1>7, <1>8, <1>9, <1>10, <1>11, <1>12, <1>13
     DEF Click, CancelWebhookChange, CancelDelayChange

\* What the settings page offers is what waits, through restarts, dialogs and failing
\* saves.
THEOREM OffersInvariant == Spec => []Offers
<1>1. Init => Offers
  BY DEF Init, Offers, OneChangeOpen, Pending, NoPrompt, Handlers
<1>2. TypeOK /\ Books /\ Offers /\ [Next]_vars => Offers'
  <2> SUFFICES ASSUME TypeOK, Books, Offers, [Next]_vars
               PROVE  Offers'
    OBVIOUS
  <2>. USE DEF disk, protection, process
  <2>1. UNCHANGED actions => Fewer
    BY DEF Fewer
  <2>2. CASE Launch
    <3>1. OneChangeOpen'
      BY <2>1, <2>2, FewerOpen DEF Launch, Offers
    <3>2. QED
      BY <2>2, <3>1 DEF Launch, Offers, NoPrompt, Handlers
  <2>3. CASE Click
    BY <2>3, ClickKeepsOffers
  <2>4. CASE TimerFires
    BY <2>1, <2>4, OffersKept DEF TimerFires
  <2>5. CASE TickStep
    <3>1. ASSUME NEW a \in tick.queue, SkipAction(a) \/ TakeEffect(a) \/ MarkEffect(a)
          PROVE  tick'.stage # "idle"
      BY <3>1 DEF SkipAction, TakeEffect, MarkEffect, Reached, TypeOK
    <3>2. ASSUME NEW a \in tick.queue, SkipAction(a) \/ TakeEffect(a) \/ MarkEffect(a)
          PROVE  Offers'
      BY <2>1, <3>1, <3>2, MarkIsFewer, OffersKept DEF SkipAction, TakeEffect, MarkEffect
    <3>3. CASE FinishTick
      <4>1. shown'.webhook = Offered({WebhookType})' /\ shown'.delay = Offered(DelayTypes)'
        BY <3>3 DEF FinishTick, SettingsShown, Offered, FirstId, IsFirst, Pending
      <4>2. QED
        BY <2>1, <3>3, <4>1, OffersKept DEF FinishTick
    <3>4. QED
      BY <2>5, <3>2, <3>3 DEF TickStep
  <2>6. CASE Death
    <3>1. Fewer /\ Gone
      BY <2>6 DEF Death, Close, Crash, CrashSavingActions, CrashSavingConfig, Fewer, Pending
    <3>2. OneChangeOpen'
      BY <3>1, FewerOpen DEF Offers
    <3>3. QED
      BY <3>1, <3>2 DEF Gone, Offers, NoPrompt, Handlers
  <2>7. CASE ClockAdvances \/ UNCHANGED vars
    BY <2>1, <2>7, OffersKept DEF ClockAdvances, vars
  <2>8. QED
    BY <2>2, <2>3, <2>4, <2>5, <2>6, <2>7 DEF Next
<1>3. QED
  BY <1>1, <1>2, TypeCorrect, BooksInvariant, PTL DEF Spec

\* However clicks, dialogs, ticks, restarts and failing saves interleave, at most one
\* change of the webhook and one of the delay wait at a time (the settings page).
THEOREM OneChangeIsOpen == Spec => []OneChangeOpen
<1>1. Offers => OneChangeOpen
  BY DEF Offers
<1>2. QED
  BY <1>1, OffersInvariant, PTL

\* While saves do not fail: what the window offers to cancel is on disk, and what
\* took effect in this launch is marked, or about to be.
StopShown ==
    tick.stage = "idle" /\ shown.disable # NoId =>
        shown.disable \in IdsOf(Pending(actions, {DisableType}))

Marked ==
    up => \A a \in Pending(actions, ActionTypes) :
              <<launches, a.id>> \in effects => tick.stage = "mark" /\ IsFirst(a, tick.queue)

\* std::find_if yields the identifier of an entry, or none.
LEMMA FirstIdIsIn ==
    ASSUME NEW S, FirstId(S) # NoId
    PROVE  FirstId(S) \in IdsOf(S)
<1>1. PICK a \in S : IsFirst(a, S)
  BY DEF FirstId
<1>2. (CHOOSE b \in S : IsFirst(b, S)) \in S
  BY <1>1
<1>3. QED
  BY <1>1, <1>2 DEF FirstId, IdsOf

\* The cancel buttons of the settings page take back no request to stop.
LEMMA CancelChangeSparesStop ==
    ASSUME SaveFaults = {}, TypeOK, Books, Offers, StopShown, NEW types \in {{WebhookType}, DelayTypes},
           Idle, page = "settings", NEW id, id = Offered(types), CancelChange(id)
    PROVE  StopShown'
<1>. USE DEF CancelChange
<1>1. PICK a \in Pending(actions, types) : a.id = id
  <2>1. Offered(types) # NoId
    OBVIOUS
  <2>2. Offered(types) \in IdsOf(Pending(actions, types))
    BY <2>1, FirstIdIsIn DEF Offered
  <2>3. QED
    BY <2>2 DEF IdsOf
<1>2. shown'.disable = shown.disable /\ tick' = tick /\ tick.stage = "idle"
  BY DEF SettingsShown, Idle, NoTick
<1>3. SUFFICES ASSUME shown.disable # NoId
               PROVE  shown.disable \in IdsOf(Pending(actions', {DisableType}))
  BY <1>2 DEF StopShown, IdsOf, Pending
<1>4. PICK b \in Pending(actions, {DisableType}) : b.id = shown.disable
  BY <1>2, <1>3 DEF StopShown, IdsOf
<1>5. b.id # id
  BY <1>1, <1>4 DEF Books, Listing, Known, Pending, DisableType, WebhookType, DelayTypes,
                    IncreaseType, DecreaseType
<1>6. b \in Pending(actions', {DisableType})
  BY <1>4, <1>5 DEF cancelPendingAction, Rewritten, Saved, Pending
<1>7. QED
  BY <1>4, <1>6 DEF IdsOf

LEMMA StopShownStep ==
    ASSUME SaveFaults = {}, TypeOK, Books, Offers, StopShown, [Next]_vars
    PROVE  StopShown'
<1>. USE DEF disk, protection, process
<1>1. ASSUME UNCHANGED <<actions, tick>>, shown'.disable = shown.disable
      PROVE  StopShown'
  BY <1>1 DEF StopShown, IdsOf, Pending
<1>2. ASSUME tick'.stage # "idle" \/ shown'.disable = NoId
      PROVE  StopShown'
  BY <1>2 DEF StopShown
<1>3. CASE PinAccepted
  <2> DEFINE new == NewAction(RequestedType, prompt.arg)
  <2>1. actions' = actions \cup {new} /\ tick' = tick /\ tick.stage = "idle"
    BY <1>3 DEF PinAccepted, createPendingAction, Saved, NoTick
  <2>2. new.id = nextId /\ new.state = "pending" /\ new.type = RequestedType
    BY DEF NewAction
  <2>3. CASE prompt.handler = "onToggleClicked"
    <3>1. shown'.disable = nextId /\ new.type = DisableType
      BY <1>3, <2>2, <2>3 DEF PinAccepted, ShownAfterRequest, RequestedType, TypeOK
    <3>2. new \in Pending(actions', {DisableType})
      BY <2>1, <2>2, <3>1 DEF Pending
    <3>3. QED
      BY <2>2, <3>1, <3>2 DEF StopShown, IdsOf, Pending
  <2>4. CASE prompt.handler # "onToggleClicked"
    <3>1. shown'.disable = shown.disable
      BY <1>3, <2>4 DEF PinAccepted, ShownAfterRequest, SettingsShown
    <3>2. QED
      BY <2>1, <3>1 DEF StopShown, IdsOf, Pending
  <2>5. QED
    BY <2>3, <2>4
<1>4. CASE CancelStop
  <2>1. shown'.disable = NoId
    BY <1>4 DEF CancelStop, TypeOK
  <2>2. QED
    BY <1>2, <2>1
<1>5. CASE CancelWebhookChange
  BY <1>5, CancelChangeSparesStop DEF CancelWebhookChange, CancelChange, Offers, Idle, NoTick
<1>6. CASE CancelDelayChange
  BY <1>6, CancelChangeSparesStop DEF CancelDelayChange, CancelChange, Offers, Idle, NoTick
<1>7. CASE OpenSettings
  BY <1>1, <1>7 DEF OpenSettings, SettingsShown
<1>8. CASE Click
  BY <1>1, <1>3, <1>4, <1>5, <1>6, <1>7, <1>8
     DEF Click, onSetupSubmitted, StartProtection, RequestStop, RequestWebhookChange,
         RequestDelayChange, Ask, PinRefused, BackFromSettings
<1>9. CASE TickStep
  <2>1. ASSUME NEW a \in tick.queue, SkipAction(a) \/ TakeEffect(a) \/ MarkEffect(a)
        PROVE  tick'.stage # "idle"
    BY <2>1 DEF SkipAction, TakeEffect, MarkEffect, Reached, TypeOK
  <2>2. CASE FinishTick
    <3>1. shown'.disable = FirstId(Pending(actions, {DisableType})) /\ actions' = actions
      BY <2>2 DEF FinishTick, SettingsShown
    <3>2. QED
      BY <3>1, FirstIdIsIn DEF StopShown, IdsOf, Pending
  <2>3. QED
    BY <1>2, <1>9, <2>1, <2>2 DEF TickStep
<1>10. CASE TimerFires
  BY <1>2, <1>10 DEF TimerFires
<1>11. CASE Death
  BY <1>2, <1>11 DEF Death, Close, Crash, CrashSavingActions, CrashSavingConfig, Gone,
                     NothingShown
<1>12. CASE Launch \/ ClockAdvances \/ UNCHANGED vars
  BY <1>1, <1>12 DEF Launch, ClockAdvances, vars
<1>13. QED
  BY <1>8, <1>9, <1>10, <1>11, <1>12 DEF Next

\* While saves do not fail, the request that the main page offers to cancel is one
\* that waits on disk, whatever ticks, dialogs and restarts came between
\* (refreshMainPage, onCancelPendingClicked).
THEOREM WindowShowsTheDisk ==
    ASSUME SaveFaults = {}
    PROVE  Spec => []WindowTracksDisk
<1>1. Init => StopShown
  BY DEF Init, StopShown, NothingShown
<1>2. TypeOK /\ Books /\ Offers /\ StopShown /\ [Next]_vars => StopShown'
  BY StopShownStep
<1>3. StopShown => WindowTracksDisk
  BY DEF StopShown, WindowTracksDisk, Idle, NoTick
<1>4. QED
  BY <1>1, <1>2, <1>3, TypeCorrect, BooksInvariant, OffersInvariant, PTL DEF Spec

-----------------------------------------------------------------------------
(* Once per launch.                                                        *)

\* Between two effects nothing that waits has taken effect in this launch.
LEMMA NoneUnmarked ==
    ASSUME Marked, tick.stage # "mark", up, Fewer,
           UNCHANGED <<launches, effects>>
    PROVE  Marked'
  BY DEF Marked, Fewer

LEMMA MarkedStep ==
    ASSUME SaveFaults = {}, TypeOK, Books, Marked, [Next]_vars
    PROVE  Marked'
<1>. USE DEF disk, protection, process, history
<1>1. UNCHANGED actions => Fewer
  BY DEF Fewer
<1>2. CASE Launch
  <2>1. launches' = launches + 1 /\ launches \in Nat
    BY <1>2 DEF Launch, TypeOK
  <2>2. \A e \in effects : e[1] \in Nat /\ e[1] # launches'
    BY <2>1 DEF Books, Recorded, TypeOK
  <2>3. effects' = effects
    BY <1>2 DEF Launch
  <2>4. \A i : <<launches', i>> \notin effects'
    BY <2>2, <2>3
  <2>5. QED
    BY <2>4 DEF Marked
<1>3. CASE PinAccepted
  <2> DEFINE new == NewAction(RequestedType, prompt.arg)
  <2>1. actions' \subseteq actions \cup {new} /\ new.id = nextId /\ up /\ tick.stage = "idle"
    BY <1>3 DEF PinAccepted, createPendingAction, Saved, NewAction, NoTick
  <2>2. <<launches, nextId>> \notin effects
    BY DEF Books, Recorded, TypeOK
  <2> HIDE DEF new
  <2>3. UNCHANGED <<launches, effects>>
    BY <1>3 DEF PinAccepted
  <2>4. QED
    BY <2>1, <2>2, <2>3 DEF Marked, Pending
<1>4. CASE Click
  <2>1. ASSUME NEW id, CancelChange(id)
        PROVE  Marked'
    BY <2>1, CancelIsFewer, NoneUnmarked DEF CancelChange, Idle, NoTick
  <2>2. CASE CancelStop
    BY <2>2, CancelIsFewer, NoneUnmarked DEF CancelStop, Idle, NoTick
  <2>3. CASE UNCHANGED <<actions, launches, effects>> /\ up /\ tick = NoTick
    BY <1>1, <2>3, NoneUnmarked DEF NoTick
  <2>4. QED
    BY <1>3, <1>4, <2>1, <2>2, <2>3
       DEF Click, onSetupSubmitted, StartProtection, RequestStop, RequestWebhookChange,
           RequestDelayChange, Ask, PinRefused, CancelWebhookChange, CancelDelayChange,
           OpenSettings, BackFromSettings, Idle
<1>5. CASE TimerFires
  BY <1>1, <1>5, NoneUnmarked DEF TimerFires, NoTick
<1>6. CASE TickStep
  <2>1. ASSUME NEW a \in tick.queue, SkipAction(a)
        PROVE  Marked'
    BY <1>1, <2>1, NoneUnmarked DEF SkipAction, Reached
  <2>2. ASSUME NEW a \in tick.queue, TakeEffect(a)
        PROVE  Marked'
    <3>1. tick.stage = "scan" /\ up /\ IsFirst(a, tick.queue) /\ a \in actions
      BY <2>2 DEF TakeEffect, Reached, Books, Listing, Known
    <3>2. tick'.stage = "mark" /\ tick'.queue = tick.queue
      BY <2>2 DEF TakeEffect, TypeOK
    <3>3. \A b \in Pending(actions, ActionTypes) : <<launches, b.id>> \notin effects
      BY <3>1 DEF Marked
    <3>4. \A b \in Pending(actions, ActionTypes) : <<launches, b.id>> \in effects' => b = a
      BY <2>2, <3>1, <3>3 DEF TakeEffect, Books, Listing, Pending, Known
    <3>5. IsFirst(a, tick'.queue)
      BY <3>1, <3>2
    <3>6. QED
      BY <2>2, <3>2, <3>4, <3>5 DEF TakeEffect, Marked, Pending, IsFirst
  <2>3. ASSUME NEW a \in tick.queue, MarkEffect(a)
        PROVE  Marked'
    <3>1. actions' = marked(a.id, actions) /\ actions \in SUBSET Action
      BY <2>3 DEF MarkEffect, markApplied, Rewritten, Saved, marked, IdsOf, Books, Listing,
                  TypeOK
    <3>2. \A b \in actions' : \E c \in actions :
             (c.id # a.id => b = c) /\ (c.id = a.id => b.state = "applied")
      BY <3>1, MarkingKeepsEntries
    <3>3. \A b \in Pending(actions', ActionTypes) :
             b \in Pending(actions, ActionTypes) /\ b.id # a.id
      BY <3>2 DEF Pending
    <3>4. \A b \in tick.queue : b.id \in Nat
      BY DEF TypeOK, Action, ActionOf
    <3>5. \A b \in tick.queue : IsFirst(b, tick.queue) => b.id = a.id
      BY <2>3, <3>4 DEF MarkEffect, IsFirst
    <3>6. \A b \in Pending(actions', ActionTypes) : <<launches, b.id>> \notin effects
      BY <2>3, <3>3, <3>5 DEF Marked, MarkEffect, IsFirst
    <3>7. QED
      BY <2>3, <3>6 DEF Marked, MarkEffect
  <2>4. CASE FinishTick
    BY <1>1, <2>4, NoneUnmarked DEF FinishTick
  <2>5. QED
    BY <1>6, <2>1, <2>2, <2>3, <2>4 DEF TickStep
<1>7. CASE Death
  BY <1>7 DEF Death, Close, Crash, CrashSavingActions, CrashSavingConfig, Gone, Marked
<1>8. CASE ClockAdvances \/ UNCHANGED vars
  BY <1>8 DEF ClockAdvances, vars, Marked, Pending, IsFirst
<1>9. QED
  BY <1>2, <1>4, <1>5, <1>6, <1>7, <1>8 DEF Next

\* The step in which a request takes effect is TakeEffect of that request.
LEMMA EffectIsTaken ==
    ASSUME TypeOK, Books, [Next]_vars, NEW a \in tick.queue, EffectOf(a)
    PROVE  TakeEffect(a)
<1>. USE DEF EffectOf, disk, process
<1>1. tick' # tick
  OBVIOUS
<1>2. TickStep
  <2>1. ~Click
    BY <1>1
       DEF Click, onSetupSubmitted, StartProtection, RequestStop, RequestWebhookChange,
           RequestDelayChange, Ask, PinRefused, PinAccepted, CancelStop,
           CancelWebhookChange, CancelDelayChange, CancelChange, OpenSettings,
           BackFromSettings
  <2>2. ~Launch /\ ~TimerFires /\ ~ClockAdvances /\ ~UNCHANGED vars
    BY <1>1 DEF Launch, TimerFires, ClockAdvances, NoTick, vars
  <2>3. ~Death
    BY <1>1 DEF Death, Close, Crash, CrashSavingActions, CrashSavingConfig, Gone, NoTick
  <2>4. QED
    BY <2>1, <2>2, <2>3 DEF Next
<1>3. PICK b \in tick.queue : TakeEffect(b)
  BY <1>2 DEF TickStep, SkipAction, MarkEffect, FinishTick, NoTick, TypeOK
<1>4. b.id = a.id
  <2>1. a.id \in Nat /\ b.id \in Nat
    BY DEF TypeOK, Action, ActionOf
  <2>2. QED
    BY <1>3, <2>1 DEF TakeEffect, Reached, IsFirst
<1>5. b = a
  BY <1>4 DEF Books, Listing, Known
<1>6. QED
  BY <1>3, <1>5

\* While saves do not fail, no launch lets a request take effect twice, however many
\* requests and ticks there are (checkPendingActions, markApplied).
THEOREM EffectsComeOnce ==
    ASSUME SaveFaults = {}
    PROVE  Spec => OncePerLaunch
<1>1. Init => Marked
  BY DEF Init, Marked
<1>2. TypeOK /\ Books /\ Marked /\ [Next]_vars => Marked'
  BY MarkedStep
<1>3. TypeOK /\ Books /\ Marked /\ [Next]_vars
        => [\A a \in tick.queue : EffectOf(a) => <<launches, a.id>> \notin effects]_vars
  <2> SUFFICES ASSUME TypeOK, Books, Marked, [Next]_vars, NEW a \in tick.queue, EffectOf(a)
               PROVE  <<launches, a.id>> \notin effects
    OBVIOUS
  <2>1. TakeEffect(a)
    BY EffectIsTaken
  <2>2. a \in Pending(actions, ActionTypes) /\ up /\ tick.stage = "scan"
    BY <2>1 DEF TakeEffect, Reached, isReadyToApply, Pending, Books, Listing, ActionTypes,
                TypeOK, Action, ActionOf
  <2>3. QED
    BY <2>2 DEF Marked
<1>4. QED
  BY <1>1, <1>2, <1>3, TypeCorrect, BooksInvariant, PTL DEF Spec, OncePerLaunch

-----------------------------------------------------------------------------
(* What was agreed.                                                        *)

\* While no file is cut short, by a crash or by a failing write: nothing waits before the setup, a waiting change of the
\* delay is labelled rightly or made, and a waiting change of the webhook was told
\* to the partner in force or is made.
Labelled ==
    \A a \in Pending(actions, DelayTypes) :
        IF a.type = IncreaseType THEN a.payload >= config.delay ELSE a.payload <= config.delay

Told ==
    \A a \in Pending(actions, {WebhookType}) :
        \/ config.webhookUrl = a.payload
        \/ \E l \in ledger : l.id = a.id /\ l.told = config.webhookUrl

Agreed ==
    /\ config = NoConfig => actions = {}
    /\ tick.stage # "idle" => config # NoConfig
    /\ Labelled /\ Told

\* A step that leaves the configuration alone and adds no request.
LEMMA AgreedKept ==
    ASSUME Agreed, Fewer, UNCHANGED <<config, ledger>>,
           config = NoConfig => actions' = {} /\ tick'.stage = "idle"
    PROVE  Agreed'
<1>1. \A T \in {{WebhookType}, DelayTypes} : Pending(actions', T) \subseteq Pending(actions, T)
  BY DEF Fewer, Pending, ActionTypes
<1>2. Labelled' /\ Told'
  BY <1>1 DEF Agreed, Labelled, Told, Pending
<1>3. QED
  BY <1>2 DEF Agreed

\* A new request is labelled by the delay in force, and told to the partner in force.
LEMMA PinAcceptedKeepsAgreed ==
    ASSUME "cut" \notin SaveFaults, TypeOK, Agreed, PinAccepted
    PROVE  Agreed'
<1> DEFINE new == NewAction(RequestedType, prompt.arg)
           entry == [id |-> nextId, at |-> now, delay |-> DelayInForce, told |-> PostedTo]
<1>. USE DEF PinAccepted, createPendingAction
<1>1. actions' \subseteq actions \cup {new} /\ config' = config /\ config # NoConfig
        /\ ledger' = ledger \cup {entry} /\ tick' = tick /\ tick.stage = "idle"
  BY DEF Saved, NoTick
<1>2. new.id = nextId /\ new.type = RequestedType /\ new.payload = prompt.arg
  BY DEF NewAction
<1>3. entry.id = nextId /\ entry.told = config.webhookUrl
  BY <1>1 DEF PostedTo
<1>4. config \in Config /\ config.delay \in Nat
  BY <1>1, DelaysAssumption DEF TypeOK, Config
<1>5. new.type \in DelayTypes =>
        IF new.type = IncreaseType THEN new.payload >= config.delay
                                   ELSE new.payload <= config.delay
  <2>1. CASE prompt.handler = "onRequestDelayChangeClicked"
    <3>1. prompt.arg \in Nat
      BY <2>1, DelaysAssumption DEF TypeOK, PromptOf
    <3>2. QED
      BY <1>1, <1>2, <1>4, <2>1, <3>1
         DEF RequestedType, DelayInForce, IncreaseType, DecreaseType
  <2>2. CASE prompt.handler # "onRequestDelayChangeClicked"
    BY <1>2, <2>2
       DEF TypeOK, PromptOf, NoPrompt, RequestedType, DisableType, WebhookType, DelayTypes,
           IncreaseType, DecreaseType
  <2>3. QED
    BY <2>1, <2>2
<1> HIDE DEF new, entry
<1>6. Labelled'
  BY <1>1, <1>5 DEF Agreed, Labelled, Pending
<1>7. Told'
  BY <1>1, <1>2, <1>3 DEF Agreed, Told, Pending
<1>8. QED
  BY <1>1, <1>6, <1>7 DEF Agreed

\* What a request does to the configuration when it takes effect.
LEMMA WhatTakesEffect ==
    ASSUME "cut" \notin SaveFaults, TypeOK, Books, Offers, Agreed,
           NEW a \in tick.queue, TakeEffect(a)
    PROVE  /\ config \in Config /\ config' \in Config
           /\ a \in actions /\ a.state = "pending"
           /\ \/ config' = config
              \/ /\ a.type = WebhookType /\ config'.delay = config.delay
                 /\ config'.webhookUrl = a.payload
                 /\ \A b \in Pending(actions, {WebhookType}) : b = a
              \/ /\ a.type \in DelayTypes /\ config'.webhookUrl = config.webhookUrl
                 /\ config'.delay = a.payload
                 /\ \A b \in Pending(actions, DelayTypes) : b = a
<1>. USE DEF TakeEffect
<1>1. a \in actions /\ a \in Action /\ a.state = "pending" /\ tick.stage # "idle"
  BY DEF Books, Listing, TypeOK, isReadyToApply, Reached
<1>2. config # NoConfig /\ config \in Config
  BY <1>1 DEF Agreed, TypeOK
<1>3. CASE a.type = DisableType /\ UNCHANGED config
  BY <1>1, <1>2, <1>3
<1>4. CASE a.type = WebhookType /\ applyWebhookUrlChange(a.payload)
  <2>1. a.payload \in Webhooks
    BY <1>1, <1>4 DEF Action, ActionOf, DisableType, WebhookType, DelayTypes,
                      IncreaseType, DecreaseType
  <2>2. \A b \in Pending(actions, {WebhookType}) : b = a
    BY <1>1, <1>4 DEF Offers, OneChangeOpen, Pending
  <2>3. config' = config \/ config' = [config EXCEPT !.webhookUrl = a.payload]
    BY <1>2, <1>4 DEF applyWebhookUrlChange, Saved
  <2>4. QED
    BY <1>1, <1>2, <1>4, <2>1, <2>2, <2>3 DEF Config
<1>5. CASE a.type \in DelayTypes /\ applyDelayChange(a.payload)
  <2>1. a.payload \in Delays
    BY <1>1, <1>5 DEF Action, ActionOf, DisableType, WebhookType, DelayTypes,
                      IncreaseType, DecreaseType
  <2>2. \A b \in Pending(actions, DelayTypes) : b = a
    BY <1>1, <1>5 DEF Offers, OneChangeOpen, Pending
  <2>3. config' = config \/ config' = [config EXCEPT !.delay = a.payload]
    BY <1>2, <1>5 DEF applyDelayChange, Saved
  <2>4. QED
    BY <1>1, <1>2, <1>5, <2>1, <2>2, <2>3 DEF Config
<1>6. QED
  BY <1>3, <1>4, <1>5

LEMMA TakeEffectKeepsAgreed ==
    ASSUME "cut" \notin SaveFaults, TypeOK, Books, Offers, Agreed,
           NEW a \in tick.queue, TakeEffect(a)
    PROVE  Agreed'
<1>1. UNCHANGED <<actions, ledger>>
  BY DEF TakeEffect, history
<1>2. config \in Config /\ config' \in Config /\ config.delay \in Nat /\ config'.delay \in Nat
  BY WhatTakesEffect, DelaysAssumption DEF Config
<1>3. config # NoConfig /\ config' # NoConfig
  BY <1>2, NoConfigAssumption
<1>4. Labelled'
  <2>1. CASE config'.delay = config.delay
    BY <1>1, <2>1 DEF Agreed, Labelled, Pending
  <2>2. CASE config'.delay = a.payload /\ \A b \in Pending(actions, DelayTypes) : b = a
    BY <1>1, <1>2, <2>2 DEF Labelled, Pending
  <2>3. QED
    BY <2>1, <2>2, WhatTakesEffect
<1>5. Told'
  <2>1. CASE config'.webhookUrl = config.webhookUrl
    BY <1>1, <2>1 DEF Agreed, Told, Pending
  <2>2. CASE config'.webhookUrl = a.payload /\ \A b \in Pending(actions, {WebhookType}) : b = a
    BY <1>1, <2>2 DEF Told, Pending
  <2>3. QED
    BY <2>1, <2>2, WhatTakesEffect
<1>6. QED
  BY <1>3, <1>4, <1>5 DEF Agreed

LEMMA AgreedStep ==
    ASSUME "torn" \notin Crashes, "cut" \notin SaveFaults,
           TypeOK, ShortcutInv, Books, Offers, Agreed, [Next]_vars
    PROVE  Agreed'
<1>. USE DEF disk, protection, process, history
<1>1. UNCHANGED actions => Fewer
  BY DEF Fewer
<1>2. CASE Click
  <2>1. ASSUME NEW id, cancelPendingAction(id), tick = NoTick, tick' = tick,
               UNCHANGED <<config, ledger>>
        PROVE  Agreed'
    <3>1. actions' \subseteq actions /\ tick.stage = "idle"
      BY <2>1 DEF cancelPendingAction, Rewritten, Saved, NoTick
    <3>2. QED
      BY <2>1, <3>1, CancelIsFewer, AgreedKept DEF Agreed
  <2>2. CASE onSetupSubmitted
    <3>1. actions = {} /\ actions' = {} /\ tick'.stage = "idle"
      BY <2>2 DEF onSetupSubmitted, Idle, NoTick, ShortcutInv, Agreed
    <3>2. QED
      BY <3>1 DEF Agreed, Labelled, Told, Pending
  <2>3. CASE UNCHANGED <<actions, tick, config, ledger>>
    BY <1>1, <2>3, AgreedKept DEF Agreed
  <2>4. QED
    BY <1>2, <2>1, <2>2, <2>3, PinAcceptedKeepsAgreed
       DEF Click, StartProtection, RequestStop, RequestWebhookChange, RequestDelayChange,
           Ask, PinRefused, CancelStop, CancelChange, CancelWebhookChange,
           CancelDelayChange, OpenSettings, BackFromSettings, Idle
<1>3. CASE TimerFires
  BY <1>1, <1>3, AgreedKept DEF TimerFires, Agreed
<1>4. CASE TickStep
  <2>1. ASSUME NEW a \in tick.queue, SkipAction(a)
        PROVE  Agreed'
    BY <1>1, <2>1, AgreedKept DEF SkipAction, Reached, Agreed
  <2>2. ASSUME NEW a \in tick.queue, MarkEffect(a)
        PROVE  Agreed'
    BY <2>2, MarkIsFewer, AgreedKept DEF MarkEffect, Agreed
  <2>3. CASE FinishTick
    BY <1>1, <2>3, AgreedKept DEF FinishTick, Agreed
  <2>4. QED
    BY <1>4, <2>1, <2>2, <2>3, TakeEffectKeepsAgreed DEF TickStep
<1>5. CASE Death
  BY <1>1, <1>5, AgreedKept
     DEF Death, Close, Crash, CrashSavingActions, CrashSavingConfig, Gone, NoTick, Agreed
<1>6. CASE Launch \/ ClockAdvances \/ UNCHANGED vars
  BY <1>1, <1>6, AgreedKept DEF Launch, ClockAdvances, vars, Agreed
<1>7. QED
  BY <1>2, <1>3, <1>4, <1>5, <1>6 DEF Next

LEMMA AgreedInvariant ==
    ASSUME "torn" \notin Crashes, "cut" \notin SaveFaults
    PROVE  Spec => []Agreed
<1>1. Init => Agreed
  BY DEF Init, Agreed, Labelled, Told, Pending, NoTick
<1>2. TypeOK /\ ShortcutInv /\ Books /\ Offers /\ Agreed /\ [Next]_vars => Agreed'
  BY AgreedStep
<1>3. QED
  BY <1>1, <1>2, TypeCorrect, ShortcutInvariant, BooksInvariant, OffersInvariant, PTL
     DEF Spec

\* As long as no file is cut short, neither by a crash inside a save nor by a write that
\* fails: what was entered as an increase of the delay never lowers it, however long after
\* the classification it takes effect, files that do not open for a save included
\* (onRequestDelayChangeClicked).
THEOREM LabelsHold ==
    ASSUME "torn" \notin Crashes, "cut" \notin SaveFaults
    PROVE  Spec => LabelHolds
<1>1. TypeOK /\ Books /\ Offers /\ Agreed /\ [Next]_vars
        => [\A a \in tick.queue : EffectOf(a) =>
              /\ a.type = IncreaseType => config'.delay >= config.delay
              /\ a.type = DecreaseType => config'.delay <= config.delay]_vars
  <2> SUFFICES ASSUME TypeOK, Books, Offers, Agreed, [Next]_vars,
                      NEW a \in tick.queue, EffectOf(a)
               PROVE  /\ a.type = IncreaseType => config'.delay >= config.delay
                      /\ a.type = DecreaseType => config'.delay <= config.delay
    OBVIOUS
  <2>1. TakeEffect(a)
    BY EffectIsTaken
  <2>2. config.delay \in Nat /\ config'.delay \in Nat
    BY <2>1, WhatTakesEffect, DelaysAssumption DEF Config
  <2>3. CASE config'.delay = config.delay
    BY <2>2, <2>3
  <2>4. CASE a.type \in DelayTypes /\ config'.delay = a.payload
    <3>1. a \in Pending(actions, DelayTypes)
      BY <2>1, <2>4, WhatTakesEffect DEF Pending
    <3>2. IF a.type = IncreaseType THEN a.payload >= config.delay ELSE a.payload <= config.delay
      BY <3>1 DEF Agreed, Labelled
    <3>3. QED
      BY <2>4, <3>2 DEF IncreaseType, DecreaseType
  <2>5. QED
    BY <2>1, <2>3, <2>4, WhatTakesEffect
<1>2. QED
  BY <1>1, TypeCorrect, BooksInvariant, OffersInvariant, AgreedInvariant, PTL
     DEF Spec, LabelHolds

\* As long as no file is cut short, neither by a crash inside a save nor by a write that
\* fails: the notice of the request that replaces a partner's address was posted to that
\* address, for any number of partners and however the requests were cancelled and made
\* again, files that do not open for a save included (createPendingAction).
THEOREM TheReplacedPartnerKnew ==
    ASSUME "torn" \notin Crashes, "cut" \notin SaveFaults
    PROVE  Spec => OldPartnerWasTold
<1>1. TypeOK /\ Books /\ Offers /\ Agreed /\ [Next]_vars
        => [\A a \in tick.queue :
              EffectOf(a) /\ config'.webhookUrl # config.webhookUrl =>
                 \E l \in ledger : l.id = a.id /\ l.told = config.webhookUrl]_vars
  <2> SUFFICES ASSUME TypeOK, Books, Offers, Agreed, [Next]_vars,
                      NEW a \in tick.queue, EffectOf(a),
                      config'.webhookUrl # config.webhookUrl
               PROVE  \E l \in ledger : l.id = a.id /\ l.told = config.webhookUrl
    OBVIOUS
  <2>1. TakeEffect(a)
    BY EffectIsTaken
  <2>2. a \in Pending(actions, {WebhookType}) /\ config'.webhookUrl = a.payload
    BY <2>1, WhatTakesEffect DEF Pending
  <2>3. QED
    BY <2>2 DEF Agreed, Told
<1>2. QED
  BY <1>1, TypeCorrect, BooksInvariant, OffersInvariant, AgreedInvariant, PTL
     DEF Spec, OldPartnerWasTold

-----------------------------------------------------------------------------
(* The refinement of AccountabilityGate.                                   *)

Asked == 1..MaxRequests

\* The cases of PhaseOf, which exclude each other.
ByPhase ==
    \A i \in Asked :
        /\ i >= nextId => PhaseOf(i) = "unasked"
        /\ i < nextId =>
             PhaseOf(i) = IF TookEffect(i) THEN "effective"
                          ELSE IF i \in IdsOf(Pending(Known, ActionTypes))
                                 THEN "waiting" ELSE "withdrawn"

\* When the ledger says that a request is due.
ByLedger ==
    \A i \in Asked :
        /\ \A l \in ledger : l.id = i => DueOf(i) = TermsOf(l)
        /\ (\A l \in ledger : l.id # i) => DueOf(i) = 0

LEMMA DueIsRecorded == Books => ByLedger
<1> SUFFICES ASSUME Books, NEW i \in Asked
             PROVE  /\ \A l \in ledger : l.id = i => DueOf(i) = TermsOf(l)
                    /\ (\A l \in ledger : l.id # i) => DueOf(i) = 0
  BY DEF ByLedger
<1>1. ASSUME NEW l \in ledger, l.id = i
      PROVE  DueOf(i) = TermsOf(l)
  <2> DEFINE m == CHOOSE k \in ledger : k.id = i
  <2>1. m \in ledger /\ m.id = i
    BY <1>1
  <2>2. m = l
    BY <1>1, <2>1 DEF Books, Recorded
  <2>3. QED
    BY <1>1, <2>2 DEF DueOf, TermsOf
<1>2. QED
  BY <1>1 DEF DueOf

LEMMA PhaseByCases == TypeOK /\ Books => ByPhase
<1> SUFFICES ASSUME TypeOK, Books, NEW i \in Asked
             PROVE  /\ i >= nextId => PhaseOf(i) = "unasked"
                    /\ i < nextId =>
                         PhaseOf(i) = IF TookEffect(i) THEN "effective"
                                      ELSE IF i \in IdsOf(Pending(Known, ActionTypes))
                                             THEN "waiting" ELSE "withdrawn"
  BY DEF ByPhase
<1>1. nextId \in Nat /\ i \in Nat
  BY DEF TypeOK, Asked
<1>2. i >= nextId => ~TookEffect(i)
  BY <1>1 DEF TookEffect, Books, Recorded
<1>3. CASE i >= nextId
  BY <1>1, <1>2, <1>3 DEF PhaseOf
<1>4. CASE i < nextId /\ TookEffect(i)
  BY <1>1, <1>4 DEF PhaseOf
<1>5. CASE i < nextId /\ ~TookEffect(i)
  BY <1>1, <1>5 DEF PhaseOf
<1>6. QED
  BY <1>1, <1>3, <1>4, <1>5

\* Both hold after a step, too.
LEMMA MapNext ==
    ASSUME TypeOK', Books'
    PROVE  ByPhase' /\ ByLedger'
  BY PhaseByCases, DueIsRecorded, PTL

\* A request the loop finds ready is ripe.
LEMMA ReadyIsRipe ==
    ASSUME TypeOK, Books, NEW a \in tick.queue, isReadyToApply(a)
    PROVE  a.id \in Asked /\ Gate!Ripe(a.id)
<1>1. a \in Known /\ a \in Action /\ a.id \in Asked /\ a.id < nextId
  BY DEF Books, Listing, TypeOK, Asked, Known
<1>2. a.id \in IdsOf(Pending(Known, ActionTypes))
  BY <1>1 DEF IdsOf, Pending, isReadyToApply, Action, ActionOf, ActionTypes
<1>3. PhaseOf(a.id) \in {"waiting", "effective"}
  BY <1>1, <1>2, PhaseByCases DEF ByPhase
<1>4. PICK l \in ledger : l.id = a.id /\ a.readyAt = TermsOf(l)
  BY <1>1 DEF Books, Recorded
<1>5. now >= DueOf(a.id)
  BY <1>1, <1>4, DueIsRecorded DEF ByLedger, isReadyToApply
<1>6. QED
  BY <1>1, <1>3, <1>5 DEF Gate!Ripe, Asked

\* A step that asks for nothing, lets nothing take effect and leaves the clock alone
\* withdraws requests, or none.
LEMMA FewerWithdraws ==
    ASSUME TypeOK, Books, TypeOK', Books', Fewer, tick'.queue \subseteq Known,
           UNCHANGED <<now, nextId, ledger, effects>>
    PROVE  /\ \A i \in Asked : DueOf(i)' = DueOf(i)
           /\ \E R \in SUBSET {i \in Asked : PhaseOf(i) = "waiting"} :
                 \A i \in Asked : PhaseOf(i)' = IF i \in R THEN "withdrawn" ELSE PhaseOf(i)
<1> DEFINE R == {i \in Asked : PhaseOf(i) = "waiting" /\ PhaseOf(i)' # "waiting"}
<1>1. \A i \in Asked : DueOf(i)' = DueOf(i)
  BY DEF DueOf, WholeSeconds
<1>2. \A i \in Asked : PhaseOf(i)' = IF i \in R THEN "withdrawn" ELSE PhaseOf(i)
  <2> SUFFICES ASSUME NEW i \in Asked
               PROVE  PhaseOf(i)' = IF i \in R THEN "withdrawn" ELSE PhaseOf(i)
    OBVIOUS
  <2>1. TookEffect(i)' <=> TookEffect(i)
    BY DEF TookEffect
  <2>2. i \in IdsOf(Pending(Known', ActionTypes)) => i \in IdsOf(Pending(Known, ActionTypes))
    BY DEF Fewer, IdsOf, Known, Pending
  <2>3. /\ i >= nextId => PhaseOf(i)' = "unasked"
        /\ i < nextId =>
             PhaseOf(i)' = IF TookEffect(i) THEN "effective"
                           ELSE IF i \in IdsOf(Pending(Known', ActionTypes))
                                  THEN "waiting" ELSE "withdrawn"
    BY <2>1, MapNext DEF ByPhase
  <2>4. nextId \in Nat /\ i \in Nat
    BY DEF TypeOK, Asked
  <2>5. QED
    BY <2>2, <2>3, <2>4, PhaseByCases DEF ByPhase
<1>3. R \in SUBSET {i \in Asked : PhaseOf(i) = "waiting"}
  OBVIOUS
<1> HIDE DEF R
<1>4. QED
  BY <1>1, <1>2, <1>3

\* With the configuration left alone, too, it is a withdrawal.
LEMMA FewerIsWithdraw ==
    ASSUME TypeOK, Books, TypeOK', Books', Fewer, tick'.queue \subseteq Known,
           UNCHANGED <<now, config, nextId, ledger, effects>>
    PROVE  Gate!Withdraw
<1>1. PICK R \in SUBSET {i \in Asked : PhaseOf(i) = "waiting"} :
         \A i \in Asked : PhaseOf(i)' = IF i \in R THEN "withdrawn" ELSE PhaseOf(i)
  BY FewerWithdraws
<1>2. \A i \in Asked : DueOf(i)' = DueOf(i)
  BY FewerWithdraws
<1>3. QED
  BY <1>1, <1>2 DEF Gate!Withdraw, Gate!Withdrawn, Gate!Waiting, Gate!In, Asked

\* A request that takes effect changes the configuration, or loses it.
LEMMA EffectKeepsConfig ==
    ASSUME TypeOK, NEW a \in tick.queue, TakeEffect(a), config # NoConfig
    PROVE  config' \in Config \cup {NoConfig}
<1>1. a \in Action /\ config \in Config
  BY DEF TypeOK
<1>2. CASE a.type = WebhookType /\ applyWebhookUrlChange(a.payload)
  <2>1. a.payload \in Webhooks
    BY <1>1, <1>2 DEF Action, ActionOf, DisableType, WebhookType, DelayTypes,
                      IncreaseType, DecreaseType
  <2>2. QED
    BY <1>1, <1>2, <2>1 DEF applyWebhookUrlChange, Saved, Config
<1>3. CASE a.type \in DelayTypes /\ applyDelayChange(a.payload)
  <2>1. a.payload \in Delays
    BY <1>1, <1>3 DEF Action, ActionOf, DisableType, WebhookType, DelayTypes,
                      IncreaseType, DecreaseType
  <2>2. QED
    BY <1>1, <1>3, <2>1 DEF applyDelayChange, Saved, Config
<1>4. QED
  BY <1>1, <1>2, <1>3 DEF TakeEffect

LEMMA EffectIsEffect ==
    ASSUME TypeOK, Books, TypeOK', Books', NEW a \in tick.queue, TakeEffect(a)
    PROVE  a.id \in Asked /\ Gate!TakeEffect(a.id)
<1>. USE DEF TakeEffect, history
<1>1. a.id \in Asked /\ Gate!Ripe(a.id)
  BY ReadyIsRipe
<1>2. \A i \in Asked : DueOf(i)' = DueOf(i)
  BY DEF DueOf, WholeSeconds
<1>3. \A i \in Asked : PhaseOf(i)' = IF i = a.id THEN "effective" ELSE PhaseOf(i)
  <2> SUFFICES ASSUME NEW i \in Asked
               PROVE  PhaseOf(i)' = IF i = a.id THEN "effective" ELSE PhaseOf(i)
    OBVIOUS
  <2>1. TookEffect(i)' <=> TookEffect(i) \/ i = a.id
    <3>1. <<launches, a.id>>[2] = a.id /\ <<launches, a.id>> \in effects'
      OBVIOUS
    <3>2. \A e \in effects' : e \in effects \/ e[2] = a.id
      BY <3>1
    <3>3. \A e \in effects : e \in effects'
      OBVIOUS
    <3>4. QED
      BY ONLY <3>1, <3>2, <3>3 DEF TookEffect
  <2>2. a.id < nextId /\ Known' = Known
    BY DEF Books, Listing, Known, TypeOK
  <2>3. /\ i >= nextId => PhaseOf(i)' = "unasked"
        /\ i < nextId =>
             PhaseOf(i)' = IF TookEffect(i) \/ i = a.id THEN "effective"
                           ELSE IF i \in IdsOf(Pending(Known, ActionTypes))
                                  THEN "waiting" ELSE "withdrawn"
    BY <2>1, <2>2, MapNext DEF ByPhase
  <2>4. nextId \in Nat /\ i \in Nat
    BY DEF TypeOK, Asked
  <2>5. QED
    BY <2>2, <2>3, <2>4, PhaseByCases DEF ByPhase
<1>4. config # NoConfig => config' = NoConfig \/ config'.delay \in Delays
  BY EffectKeepsConfig, NoConfigAssumption DEF Config
<1>5. config = NoConfig => config' = NoConfig
  BY DEF applyWebhookUrlChange, applyDelayChange
<1>6. config # NoConfig => config.delay # NoConfig
  BY NoConfigAssumption DEF TypeOK, Config
<1>7. now' = now
  OBVIOUS
<1>8. QED
  BY <1>1, <1>2, <1>3, <1>4, <1>5, <1>6, <1>7 DEF Gate!TakeEffect, Asked

\* A request that is made.
LEMMA PinAcceptedAsks ==
    ASSUME TypeOK, Books, TypeOK', Books', PinAccepted
    PROVE  nextId \in Asked /\ Gate!AskFor(nextId)
<1> DEFINE new == NewAction(RequestedType, prompt.arg)
           entry == [id |-> nextId, at |-> now, delay |-> DelayInForce, told |-> PostedTo]
<1>. USE DEF PinAccepted, createPendingAction
<1>1. nextId \in Asked /\ nextId \in Nat /\ nextId' = nextId + 1
  BY RequestsAssumption DEF TypeOK, Books, Recorded, NoId, Asked
<1>2. config # NoConfig /\ config.delay # NoConfig /\ config' = config /\ now' = now
  BY NoConfigAssumption DEF TypeOK, Config
<1>3. new.id = nextId /\ entry.id = nextId /\ TermsOf(entry) = WholeSeconds(now + config.delay)
  BY <1>2 DEF NewAction, TermsOf, DelayInForce
<1>4. ledger' = ledger \cup {entry} /\ effects' = effects
  OBVIOUS
<1>5. Known = actions /\ Known' = actions' /\ actions' \in {actions \cup {new}, actions, {}}
  BY DEF Saved, Known, NoTick
<1> HIDE DEF new, entry
<1>6. \A i \in Asked : DueOf(i)' = IF i = nextId THEN WholeSeconds(now + config.delay)
                                   ELSE DueOf(i)
  <2> SUFFICES ASSUME NEW i \in Asked
               PROVE  DueOf(i)' = IF i = nextId THEN WholeSeconds(now + config.delay)
                                  ELSE DueOf(i)
    OBVIOUS
  <2>1. /\ \A l \in ledger' : l.id = i => DueOf(i)' = TermsOf(l)
        /\ (\A l \in ledger' : l.id # i) => DueOf(i)' = 0
    BY MapNext DEF ByLedger, TermsOf, WholeSeconds
  <2>2. QED
    BY <1>3, <1>4, <2>1, DueIsRecorded DEF ByLedger
<1>7. \A i \in Asked : i # nextId =>
         PhaseOf(i)' = IF PhaseOf(i) = "waiting" /\ actions' = {} THEN "withdrawn"
                       ELSE PhaseOf(i)
  <2> SUFFICES ASSUME NEW i \in Asked, i # nextId
               PROVE  PhaseOf(i)' = IF PhaseOf(i) = "waiting" /\ actions' = {}
                                      THEN "withdrawn" ELSE PhaseOf(i)
    OBVIOUS
  <2>1. TookEffect(i)' <=> TookEffect(i)
    BY <1>4 DEF TookEffect
  <2>2. i \in IdsOf(Pending(Known', ActionTypes))
          <=> i \in IdsOf(Pending(Known, ActionTypes)) /\ actions' # {}
    <3>1. CASE actions' = {}
      BY <1>5, <3>1 DEF IdsOf, Pending
    <3>2. CASE actions' # {}
      <4>1. CASE actions' = actions
        BY <1>5, <3>2, <4>1
      <4>2. CASE actions' = actions \cup {new}
        BY <1>3, <1>5, <3>2, <4>2 DEF IdsOf, Pending
      <4>3. QED
        BY <1>5, <3>2, <4>1, <4>2
    <3>3. QED
      BY <3>1, <3>2
  <2>3. i \in Nat /\ (i >= nextId <=> i >= nextId') /\ (i < nextId <=> i < nextId')
    BY <1>1 DEF Asked
  <2>4. i >= nextId \/ i < nextId
    BY <1>1, <2>3
  <2>5. QED
    BY <2>1, <2>2, <2>3, <2>4, MapNext, PhaseByCases DEF ByPhase
<1>8. \A i \in Asked : i = nextId =>
         /\ PhaseOf(i)' \in {"waiting", "withdrawn"}
         /\ actions' = {} => PhaseOf(i)' = "withdrawn"
  <2> SUFFICES ASSUME NEW i \in Asked, i = nextId
               PROVE  /\ PhaseOf(i)' \in {"waiting", "withdrawn"}
                      /\ actions' = {} => PhaseOf(i)' = "withdrawn"
    OBVIOUS
  <2>1. ~TookEffect(i)' /\ i < nextId'
    BY <1>1, <1>4 DEF TookEffect, Books, Recorded
  <2>2. PhaseOf(i)' = IF i \in IdsOf(Pending(Known', ActionTypes))
                        THEN "waiting" ELSE "withdrawn"
    BY <2>1, MapNext DEF ByPhase
  <2>3. QED
    BY <1>5, <2>2 DEF IdsOf, Pending
<1>9. PhaseOf(nextId) = "unasked"
  BY <1>1, PhaseByCases DEF ByPhase
<1>10. CASE actions' = {}
  <2>1. \A i \in Asked : PhaseOf(i)' = IF PhaseOf(i) = "waiting" \/ i = nextId
                                         THEN "withdrawn" ELSE PhaseOf(i)
    BY <1>7, <1>8, <1>10
  <2>2. QED
    BY <1>1, <1>2, <1>6, <1>9, <2>1
       DEF Gate!AskFor, Gate!Withdrawn, Gate!Waiting, Gate!In, Asked, WholeSeconds
<1>11. CASE actions' # {}
  <2>1. \A i \in Asked : i # nextId => PhaseOf(i)' = PhaseOf(i)
    BY <1>7, <1>11
  <2>2. CASE \A i \in Asked : i = nextId => PhaseOf(i)' = "waiting"
    BY <1>1, <1>2, <1>6, <1>9, <2>1, <2>2
       DEF Gate!AskFor, Gate!In, Asked, WholeSeconds
  <2>3. CASE \A i \in Asked : i = nextId => PhaseOf(i)' = "withdrawn"
    BY <1>1, <1>2, <1>6, <1>9, <2>1, <2>3
       DEF Gate!AskFor, Gate!Withdrawn, Gate!In, Asked, WholeSeconds
  <2>4. QED
    BY <1>8, <2>2, <2>3
<1>12. QED
  BY <1>10, <1>11

\* Clicks, and the deaths of the process.
LEMMA ClickMaps ==
    ASSUME TypeOK, ShortcutInv, Books, TypeOK', Books', Click
    PROVE  Gate!Next
<1>. USE DEF disk, protection, history
<1>1. UNCHANGED <<now, config, actions, tick, history, effects>> => Gate!Withdraw
  BY FewerIsWithdraw DEF Fewer, Known
<1>2. CASE onSetupSubmitted
  <2>1. config = NoConfig
    BY <1>2 DEF onSetupSubmitted, Idle, ShortcutInv
  <2>2. CASE config' = config
    BY <1>1, <1>2, <2>2 DEF onSetupSubmitted, Gate!Next
  <2>3. CASE config' # config
    <3>1. config' \in Config
      BY <2>1, <2>3 DEF TypeOK
    <3>2. config' # NoConfig /\ config'.delay \in Delays
      BY <3>1, NoConfigAssumption DEF Config
    <3>3. \A i \in Asked : PhaseOf(i)' = PhaseOf(i) /\ DueOf(i)' = DueOf(i)
      BY <1>2 DEF onSetupSubmitted, PhaseOf, DueOf, TookEffect, Known, WholeSeconds
    <3>4. now' = now
      BY <1>2 DEF onSetupSubmitted
    <3>5. Gate!Agree
      BY <2>1, <3>2, <3>3, <3>4 DEF Gate!Agree, Asked
    <3>6. QED
      BY <3>5 DEF Gate!Next
  <2>4. QED
    BY <2>2, <2>3
<1>3. ASSUME NEW id, cancelPendingAction(id),
             UNCHANGED <<now, config, tick, history, effects>>
      PROVE  Gate!Withdraw
  BY <1>3, CancelIsFewer, FewerIsWithdraw DEF Known
<1>4. CASE PinAccepted
  BY <1>4, PinAcceptedAsks DEF Gate!Next, Asked
<1>5. QED
  BY <1>1, <1>2, <1>3, <1>4
     DEF Click, StartProtection, RequestStop, RequestWebhookChange, RequestDelayChange,
         Ask, PinRefused, CancelStop, CancelChange, CancelWebhookChange,
         CancelDelayChange, OpenSettings, BackFromSettings, Gate!Next

LEMMA DeathMaps ==
    ASSUME TypeOK, Books, TypeOK', Books', Death
    PROVE  Gate!Next
<1>. USE DEF disk, history
<1>1. CASE Close \/ Crash \/ CrashSavingActions
  <2>1. Fewer
    BY <1>1 DEF Close, Crash, CrashSavingActions, Fewer, Pending
  <2>2. QED
    BY <1>1, <2>1, FewerIsWithdraw
       DEF Close, Crash, CrashSavingActions, Gone, NoTick, Gate!Next
<1>2. CASE CrashSavingConfig
  <2>1. PICK a \in tick.queue : isReadyToApply(a)
    BY <1>2 DEF CrashSavingConfig, SavingConfig
  <2>2. a.id \in Asked /\ Gate!Ripe(a.id)
    BY <2>1, ReadyIsRipe
  <2>3. Fewer /\ tick'.queue = {}
    BY <1>2 DEF CrashSavingConfig, Gone, NoTick, Fewer
  <2>4. now' = now /\ config' = NoConfig /\ UNCHANGED <<nextId, ledger, effects>>
    BY <1>2 DEF CrashSavingConfig, Gone
  <2>5. Gate!Forget
    <3>1. PICK R \in SUBSET {i \in Asked : PhaseOf(i) = "waiting"} :
             \A i \in Asked : PhaseOf(i)' = IF i \in R THEN "withdrawn" ELSE PhaseOf(i)
      BY <2>3, <2>4, FewerWithdraws
    <3>2. \A i \in Asked : DueOf(i)' = DueOf(i)
      BY <2>3, <2>4, FewerWithdraws
    <3>3. QED
      BY <2>2, <2>4, <3>1, <3>2
         DEF Gate!Forget, Gate!Withdrawn, Gate!Waiting, Gate!In, Asked
  <2>6. QED
    BY <2>5 DEF Gate!Next
<1>3. QED
  BY <1>1, <1>2 DEF Death

LEMMA ClockMaps ==
    ASSUME ClockAdvances
    PROVE  Gate!TimePasses
<1>1. UNCHANGED <<config, actions, tick, nextId, ledger, effects>> /\ now' = now + 1
  BY DEF ClockAdvances, disk, process, history
<1>2. \A i \in Asked : PhaseOf(i)' = PhaseOf(i) /\ DueOf(i)' = DueOf(i)
  BY <1>1 DEF PhaseOf, DueOf, TookEffect, Known, WholeSeconds
<1>3. QED
  BY <1>1, <1>2 DEF Gate!TimePasses, Asked

\* Every behaviour of the desktop program keeps what the gate promises, whatever dies and
\* however saves fail, before or after they have truncated a file: a request waits out
\* the delay agreed when it was made, never takes effect once it is withdrawn, and nothing
\* else changes the delay, though a failure may lose it once a request was ripe
\* (mainwindow.cpp, accountability_repository.cpp).
THEOREM GateIsKept == Spec => KeepsGate
<1>1. Init => Gate!Init
  <2> SUFFICES ASSUME Init
               PROVE  Gate!Init
    OBVIOUS
  <2>1. now = 0 /\ config = NoConfig /\ nextId = 1 /\ ledger = {}
    BY DEF Init
  <2>2. \A i \in Asked : PhaseOf(i) = "unasked" /\ DueOf(i) = 0
    <3> SUFFICES ASSUME NEW i \in Asked
                 PROVE  PhaseOf(i) = "unasked" /\ DueOf(i) = 0
      OBVIOUS
    <3>1. i >= nextId /\ ~(i < nextId)
      BY <2>1, RequestsAssumption DEF Asked
    <3>2. ~TookEffect(i)
      BY DEF Init, TookEffect
    <3>3. QED
      BY <2>1, <3>1, <3>2 DEF PhaseOf, DueOf
  <2>3. QED
    BY <2>1, <2>2 DEF Gate!Init, Asked
<1>2. TypeOK /\ ShortcutInv /\ Books /\ TypeOK' /\ Books' /\ [Next]_vars
        => [Gate!Next]_(Gate!vars)
  <2> SUFFICES ASSUME TypeOK, ShortcutInv, Books, TypeOK', Books', [Next]_vars
               PROVE  Gate!Next \/ UNCHANGED Gate!vars
    OBVIOUS
  <2>. USE DEF disk, protection, process, history
  <2>1. UNCHANGED <<now, config, actions, history, effects>> /\ tick'.queue \subseteq Known
          => Gate!Next
    BY FewerIsWithdraw DEF Fewer, Gate!Next
  <2>2. CASE Launch \/ TimerFires \/ UNCHANGED vars
    BY <2>1, <2>2 DEF Launch, TimerFires, vars, Known
  <2>3. CASE Click
    BY <2>3, ClickMaps
  <2>4. CASE TickStep
    <3>1. ASSUME NEW a \in tick.queue, TakeEffect(a)
          PROVE  Gate!Next
      BY <3>1, EffectIsEffect DEF Gate!Next, Asked
    <3>2. ASSUME NEW a \in tick.queue, MarkEffect(a)
          PROVE  Gate!Next
      BY <3>2, MarkIsFewer, FewerIsWithdraw DEF MarkEffect, Known, Gate!Next
    <3>3. ASSUME NEW a \in tick.queue, SkipAction(a)
          PROVE  Gate!Next
      <4>1. tick'.queue \subseteq Known
        BY <3>3 DEF SkipAction, Reached, TypeOK, Known
      <4>2. QED
        BY <2>1, <3>3, <4>1 DEF SkipAction
    <3>4. QED
      BY <2>1, <2>4, <3>1, <3>2, <3>3 DEF TickStep, FinishTick, NoTick
  <2>5. CASE Death
    BY <2>5, DeathMaps
  <2>6. CASE ClockAdvances
    BY <2>6, ClockMaps DEF Gate!Next
  <2>7. QED
    BY <2>2, <2>3, <2>4, <2>5, <2>6 DEF Next
<1>3. QED
  BY <1>1, <1>2, TypeCorrect, ShortcutInvariant, BooksInvariant, PTL
     DEF Spec, KeepsGate, Gate!Spec

=============================================================================
