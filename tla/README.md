# ClearGuard: specifications, model checks and proofs

ClearGuard blocks adult content on the user's own devices and makes it slow,
and visible to an accountability partner, to turn the blocking off.  It is two
programs: a Qt desktop application in C++ (`desktop/`) and an Android app, in
Dart (`lib/`) with native services in Kotlin (`android/`).  This directory
holds TLA+ specifications of the parts whose correctness depends on the order
of events, the TLC configurations that check them on small instances, and
theorems that TLAPS checks for every value of the constants.  File names below
are relative to the root of the repository.

Contents: 1 parts of the system, 2 modules and how they correspond to the code,
3 runs, 4 proofs, 5 deviations from what the documents say, 6 bounds and
abstractions, 7 plan, 8 how to run.

## 1. The parts of the system

### Desktop

| part | state | operations | talks to |
|---|---|---|---|
| main window, `mainwindow.cpp` | page, three identifiers of shown requests, two flags of what was applied | clicks, a two-second timer, a modal PIN prompt, the destructor | everything below, by direct calls on the GUI thread |
| accountability repository, `accountability/` | `accountability_config.json`, `pending_actions.json` | load, save, create, cancel, mark applied, apply a change | webhook notifier |
| webhook notifier | none; one POST in flight | `notify` | the partner |
| DNS filter server, `dns/dns_filter_server.cpp` | flag `running_`, status, port, a worker thread with a UDP socket | `start`, `stop`, the worker's loop | upstream DNS servers, clients |
| DNS message, block list, safe search | the set of domains | pure functions, run by the worker on every datagram | filter server |
| system DNS redirect, `system_dns/`: resolv.conf or systemd-resolved | the resolver file and its backup, or a drop-in file; `applied_` | `apply`, `restore` | the operating system |
| firewall bypass blocker, `system_dns/`: iptables, pf or netsh | rules in the kernel, pf's rules file; `applied_` | `apply`, `restore` | the operating system |
| PIN credentials, SHA-256 | none | hash, verify | repository |

Everything but the worker runs on the GUI thread.  What is hard nevertheless:

- The PIN prompt runs a nested event loop (`promptForPin`, mainwindow.cpp:285).
  The timer goes on firing in it and applies requests, moves identifiers and
  changes the configuration between a handler's guard and the rest of it.
- The process can be closed, which stops the protection, or die, between the
  effect of a request and its record, between two file operations of a
  redirect, between two `iptables` commands, or inside a save, which truncates
  the file in place.
- Saves, file copies and commands may fail, and most results are ignored.  A
  save opens its file with `Truncate` and does not look at what `write` returns
  (accountability_repository.cpp:74-75, 151-152), so that one that fails may
  leave the file as it was, or empty, in a process that lives on.
- `stop()` joins a worker that may be waiting for an upstream server.
- A datagram holds any bytes: lengths that lie, names without an end, pointers.
  Its question is rewritten on the way up (safe search) and back on the way down.

### Android

| part | state | operations | talks to |
|---|---|---|---|
| accountability repository, `lib/data/repositories/accountability_repository.dart` | preferences: PIN, webhook, delay, pending requests | set up, create, cancel, mark applied | stores, outbox |
| apply use case, `lib/domain/use_cases/apply_ready_pending_actions_use_case.dart` | none between calls | apply what is due | VPN service, block list, repository |
| dashboard view model | list of waiting requests, protection flag | a five-second ticker, disable, re-enable, cancel | use cases, outbox |
| notification outbox | the queue in the preferences | `enqueue`, `flush` | the partner |
| block list repository | bundled list, approved removals, remote address | compute the effective list, over the network | VPN service |
| VPN service, boot receiver (Kotlin) | a packet thread, the list, persisted state | start, stop, revoke, restart, boot | the Dart side, by a platform channel |
| guard and monitor services (Kotlin) | a cooldown, a last package | accessibility events | overlay activity |

The VPN service runs on three threads: the main thread, which handles intents
and the destruction of the service one after another; the packet thread; and a
binder thread, on which Android calls `onRevoke`.  Android may kill the process
between any two steps, restarts a sticky service with no intent, and drops what
the main thread has not handled.

The Dart code runs on one isolate; what is hard is that every `await` of the
platform or the network lets other handlers in, and that the ticker does not
wait for the tick before: ticks, flushes, list computations, requests and
cancellations overlap, each holding what it read before its `await`.

### What makes each part correct

- **Gate (both programs).** A change that weakens the protection takes effect
  only after the delay agreed when it was asked for, and asking for a shorter
  delay first gains nothing.  A request takes effect once, and not after it
  was cancelled.  What is recorded as applied took effect.  Something due is
  settled.  The partner who is replaced is told.
- **Redirect.** The user's resolver settings are never lost and come back
  exactly; the machine never points at a port where nobody listens.
- **Firewall.** The rules block when the window says so and leave no trace
  when restored, whatever died half-way.
- **Every backend of the two.** When it says that the change is made, or
  unmade, it is, and it does not say otherwise without a reason.  Only a failure
  in the same run that the code does not look at excuses the first, and for the
  unmaking a backup that is not what was there before.
- **Filter server.** One worker, a truthful status, a `stop()` that returns,
  queries that are settled.
- **Query handling.** No read past the end of the datagram; sinkholed exactly
  when the name, or what it stands for at the translation proxy, is on the list
  or has a parent there; an answer carries the client's own question; every
  datagram is done with.
- **Outbox.** Notes keep their order, none is lost, all arrive.
- **VPN service.** It runs as it was last told to, with the list it was last
  handed, after restarts of the device too; one packet thread at a time reads
  the interface; the status is true; a query that the list blocks gets through
  only if the list was being replaced while it was looked at.

## 2. The modules

| module | what it is |
|---|---|
| `AccountabilityGate` | abstract: ask, wait out the agreed delay, take effect unless withdrawn |
| `DesktopGuard`, `DesktopGuardProofs` | main window and repository; refines `AccountabilityGate` |
| `SystemDnsRedirect`, `SystemDnsRedirectProofs` | main window and `ResolvConfConfigurator` |
| `FirewallBypass`, `FirewallBypassProofs` | main window and `IptablesBypassBlocker` |
| `SystemChange` | abstract: what any backend promises of `apply` and `restore` |
| `BackendWindow` | the main window around a backend of few steps |
| `SystemdResolved` | `SystemdResolvedConfigurator`, in `BackendWindow` |
| `OtherFirewalls` | `PfBypassBlocker` and `WindowsFirewallBypassBlocker`, in `BackendWindow` |
| `SystemDnsBackends`, `FirewallBackends` | the choice of a backend; each refines `SystemChange` |
| `DnsFilterServer`, `DnsFilterServerProofs` | GUI thread and worker thread |
| `DnsMessage` | messages, safe search and block list as operators |
| `QueryHandling`, `QueryHandlingProofs` | what the worker does with one datagram after another |
| `MobileGuard`, `MobileGuardProofs` | Dart repository, use cases, dashboard |
| `NotificationOutbox`, `NotificationOutboxProofs` | Dart outbox |
| `BlockerVpnService`, `BlockerVpnServiceProofs` | Kotlin VPN service, boot receiver, and Android's side of their life |
| `MC...` | the small sets the configurations use |

Operators and actions carry the names of the functions they stand for; the
correspondence, line by line, is `map` in `PROJECT.json`.  A definition that
begins with "Broken variant" in its comment is not part of the specification:
it is what a plausible mistake would make of the definition after it, and the
runs must reject it.

**DesktopGuard.** `config` and `actions` are the two files; `page`, `shown`
and the protection flags are members of `MainWindow`; `prompt` is the handler
that waits inside `promptForPin` with the argument it has read before; `tick`
is how far `checkPendingActions` has come.  A click that needs no PIN is one
action.  A click that does is two, the part before the dialog (`RequestStop`,
`RequestWebhookChange`, `RequestDelayChange`) and the part after
(`PinAccepted`, `PinRefused`), with the timer free to fire between.
`checkPendingActions` is one step per request to skip, two per request to
apply (effect, then record), and one to refresh the window, because the
process may die between any two.  `Saved` says what is on disk after a save:
the new contents, or, by `SaveFaults`, the old ones when the file did not open
(`"unopened"`), or nothing when it was opened, and so truncated, and the write
failed or was cut short (`"cut"`); what is left of the JSON text then is read as
no text at all.  `CrashSavingActions` and `CrashSavingConfig` are a death after a
file was truncated and before it was written.  `ledger`,
`base` and `effects` are history: no action reads them to decide anything.
`base` is what `NoShortcut` measures against, the time and the delay in force
when the oldest request of the current, uninterrupted chain of waiting
requests was made.

**SystemDnsRedirect.** `resolv` and `backup` are the two files; each `stage`
is the next file operation of `apply()` or `restore()`.  Others (network
managers, people) may write the resolver file.  `wanted` is what they wrote
last, `trouble` what has gone wrong and is not made good yet: a step that failed
and was noticed, or a write that was not, until the next run of a handler; a
restore that failed or a death, until a restore runs to its end; a backup cut
short, or contents that others wrote behind a backup, until somebody writes the
file with no backup there.  The server matters only in whether it listens on
port 53; a bind that fails is no trouble, since nothing is touched.

**FirewallBypass.** `chain`, `rules` and `jumps` are the kernel's; each stage
is a command.  A command fails of itself when iptables would refuse it (no
such chain, chain in use) and may fail at any other time for want of
privileges or of the lock, at most `MaxFailures` times.

**The other backends.** `SystemChange` has no files and no commands: how much
of the change is in the system (`"none"`, `"part"`, `"whole"`), the handler that
runs, the window and its flag, the backend's own `applied_` (`held`), the worst
failure of the run (`faults`: one that the code looks at is `"noticed"`), and
whether what was there before cannot be had back (`spoilt`).  `Applied` and
`Restored` are the promise; `GivenUp` and `RestoreGivenUp` say that nobody gives
up for nothing, that is without a failure, or for `apply()` without holding the
change already.  `Disturbed` is the rest of the world, which may undo half-done
work (a daemon that starts anew) but a finished one only as a failure, or change
what there is behind what was kept.  A failure that `apply()` of resolv.conf
returns on (no backup, a target that does not open) is `"noticed"` and excuses
nothing but the giving up; a write of its that fails is the only `"unnoticed"`
one.  `BackendWindow` is
what the window does around `apply()` and `restore()`, and what is lost with
the process.  In `SystemdResolved` the drop-in file and the daemon's reading of
it are apart; the daemon may start anew by itself, and people may remove the
file.  In `OtherFirewalls`, pf loads the rules file whole or not at all; netsh
adds rules one by one under one name, where they pile up.  `SystemDnsBackends`
and `FirewallBackends` put each next to the module of the Linux backend, as the
factory functions do: one is chosen for good, and the state of the others never
changes.  The backends that do nothing have no state.

**DnsFilterServer.** Each `start()` makes a worker, numbered; `step` is where
each worker is in `run()`, `inbox` the datagrams in its socket, `fate` what
became of every query.  The classification of a query is a constant here.

**DnsMessage, QueryHandling.** A message is the number and the question count of
its header, and the bytes behind it, so that the code's offset 12 is the first.
`QueryHandling` takes the two loops, over labels and over parents, and the
decoding of a translation proxy's host, one iteration at a time: `offset`,
`hops` and `name` are the parser's, `subject` and `from` those of the walk.
`asked` is what goes upstream, `fate` and `response` what comes back.  The block
list may be replaced by a file's before the first datagram.  Upstream servers
are external: each repeats the question it is asked, adds a record or none, or
sends a bare header, or is silent.

**MobileGuard.** A step is what runs between two awaits of the platform or the
network.  `ticks` holds every tick under way with the requests it has left of
the list it read; `listJob` a list being computed by the refresh (`"update"`)
or by re-enabling (`"enable"`); `errands` the notes a handler has yet to
enqueue after an `await`; `setup` how far `setUpAccountability` has come with
its three writes.  `vpn` and `synced` are the service: does it filter, and with
a list computed from what.  `broken` becomes true when a call throws or the app
dies inside a tick.

**NotificationOutbox.** `queue` is the preference, `flushes` every flush under
way with the three lists it works on.  `raced` remembers that the queue
changed under a flush.

**BlockerVpnService.** `queue` is what waits for the main thread: the intents
of the platform channel and of the boot receiver, the intent-less restart
(`"NULL"`), and the destruction that `stopSelf` asks for.  `main` is where the
handler under way is: clearing and filling the list are steps, and so are
`establish`, the flag, the status and the packet thread of `startVpn`, and the
flag, the join and the close of `stopVpn`, which the binder thread goes through
as well (`StopStep`).  Interfaces and packet threads are numbered alike, since
each interface is read by the thread that was started with it.  `ours` tells
which threads belong to the instance that exists, whose flag and list they read.
`isBlocked` is a walk: a query is the sequence of names that it looks for (the
name and its parents, then those of a translation proxy's host), and each look
into the list is a step (`LookFurther`, and for the last `Sinkhole` or
`Forward`), between any two of which the main thread may clear the list or add
to it.  `seen` counts the names missed so far.  `wanted`, `handed` (the list of
the last intent that was filled in whole), `disturbed`, `late` and each thread's
`met` are history.

The modules meet at narrow interfaces: `DesktopGuard` sees of the redirect and
the firewall whether `apply()` returned true; `SystemDnsRedirect` sees of the
server the port; `DnsFilterServer` of a query its kind, which `QueryHandling`
computes; `MobileGuard` hands notes to the outbox and does not look at
what becomes of them, as the code does not.

## 3. The runs

| run | instance | states | shows |
|---|---|---|---|
| `DesktopGuard_safety` | 2 requests, delays 1 and 2, 2 webhooks, 2 launches, time 0..3, clean crashes | 0.8 M | types; the settings page's guards (`OneChangeOpen`); window and disk agree between events (`WindowTracksDisk`); no shortcut by chaining (`NoShortcut`); once per launch; an increase never lowers (`LabelHolds`); the replaced partner was told; a due request is settled even while a PIN prompt stays open (`DueIsSettled`, fair) |
| `DesktopGuard_torn` | half-second clock, delays 2 and 4, empty webhook at setup, saves that do not open or are cut short, torn files | 2.2 M | less than a second early, refinement of `AccountabilityGate` (`KeepsGate`) |
| `SystemDnsRedirect_faults` | 2 contents, 2 foreign writes, 3 launches, every fault; systemd-resolved with 2 failures, 3 launches | 23 k | `OriginalKept`, `NoDeadRedirect`, `RestoreExact`; both configurators refine `SystemChange` (`KeepsPromise`) |
| `FirewallBypass_faults` | 3 resolvers, 2 failures, 3 launches, for iptables, pf and netsh | 10 k | `OneJump`, `FlagMeansBlocked`, `RestoreLeavesNothing`; all three blockers refine `SystemChange` (`KeepsPromise`) |
| `DnsFilterServer` | 4 kinds of query, 3 starts, sockets may fail | 31 k | `OneWorker`, `StatusIsTrue`; fair: `StopReturns`, `QueriesAreSettled` |
| `QueryHandling` | every name of up to 4 characters and chosen longer ones, plain, prefixed and as the proxy writes them; garbage of up to 4 bytes; 5 label hops; a file of lines | 50 k | `InBounds`, `ParsesWhatItEncodes`, `SinkholedIffListed`, `ProxySeenThrough`, `AnswersTheQuestion`; fair: `EveryQueryEnds`; no deadlock |
| `MobileGuard_chain` | 2 requests among delay, removal, remote list; 1 tick, refresh, time 0..3 | 2.9 M | `NoShortcut`, `RemovalsStay` |
| `MobileGuard_faults` | 1 request of any type, 2 overlapping ticks, all jobs, throws, crashes, symmetry of ticks | 0.5 M | `NoShortcut`, `AppliedTookEffect` |
| `MobileGuard_cancel` | 1 request, cancelled under a tick | stops | **violated**: `CancelledIsTrue` |
| `MobileGuard_twice` | 1 request, 2 ticks, re-enabling | stops | **violated**: `OneStopPerRequest` |
| `NotificationOutbox` | 4 notes, queue of 2, 2 flushes, 2 launches, note 2 unusable | 41 k | `QueueInOrder`, `KeptUnlessRaced`; fair: `ArrivesUnlessRaced` |
| `BlockerVpnService` | 3 domains, one the parent of another, 2 lists, 2 queries, 2 intents, 1 each of kill, reboot and withdrawal, late joins, failing interfaces | 0.5 M | `LastWordHolds`, `StatusIsTrue`, `OneReader`, `LeaksOnlyWhileReplaced`; fair: `LastWordArrives` |

Deadlock is checked in `QueryHandling`, whose bytes must never leave the worker
without a next step.  The other models stop by themselves once their bounds are
used up, and their programs may be left alone for ever.  Each `TypeOK` is
proved (section 4), so that the runs spend no time on it but one.

### Fairness

- `DesktopGuard`: weak fairness of the timer, of the loop it starts and of the
  clock.  Qt delivers the timer in the main and in nested event loops, and the
  loop has no waits.  Nothing makes the user click, close a dialog or relaunch.
- `DnsFilterServer`: weak fairness of the worker, all of whose waits have a
  timeout (half a second for a receive, three for an upstream server), and of
  the return from `join` once the worker has ended.  No client has to send and
  no upstream server to answer: `UpstreamAnswers` is outside the fair part.
- `QueryHandling`: weak fairness of the worker's own steps, of a receive timeout
  at an upstream server (`SO_RCVTIMEO`, three seconds) and of the return to the
  loop.  No client has to send and no upstream server to answer.
- `NotificationOutbox`: weak fairness of a launch after a crash and of each
  flush, since the ticker starts one every five seconds and the HTTP client
  ends each post; strong fairness, per note, of a successful post, which says
  that a partner tried for ever is reached at last.  Without that, nothing
  could arrive.
- `BlockerVpnService`: weak fairness of the main thread, the binder thread,
  each packet thread and the broadcast after a boot.  The packet thread polls a
  non-blocking descriptor and looks at the flag each time round; `join` has a
  timeout.  Nobody has to open the app, grant the permission or send queries,
  and Android does not have to restart what it killed.

### Are the bounds enough?

Two requests are what chaining needs: one to shorten the delay, one to use it.
The proof of `NoShortcut` (section 4) has no bound, and confirms it.  Two
delays are enough to increase and decrease; two webhooks to replace a partner;
two launches to have something left over from one; three for a restore that
has to undo what two launches left.  Two concurrent ticks or flushes race in
every way that matters for the properties stated, which speak of one request
or note at a time; three would add symmetric cases.  Time runs far
enough for two requests whose waits overlap to take effect, the later of them
with the short delay.  A queue of two with four notes overflows
twice.  Two intents and the one a boot sends give three starts in a row, a stop
between two starts, and a start that the destruction overtakes.  The first list
has a page and the second its site, so that a lookup of the page which begins in
one list and ends in the other misses both: it is forwarded after the filling is
done, and `LeaksOnlyWhileReplaced` allows that for what the lookup met.  Two
names are enough for a walk to have a beginning and an end.

The code's limit of label hops is 128, that is 127 labels and the end, which a
name of 255 bytes cannot exceed; the run's limit of 5 makes names on both sides
of it short enough to list.  `QueryHandlingProofs` has no such limit.  The
garbage is made of the bytes that the parser tells apart: 0, lengths that fit
and that do not, a pointer, a capital letter, the dot.  Two failures are one in
`apply` and one in what undoes it; three launches let what the second finds be
left over from one that died, and the third find what the second made of it.

## 4. The proofs

Every safety property of the passing runs, invariant, action property or
refinement, is stated by a theorem, for every value of the constants that the
`ASSUME`s of its module admit; no bound is assumed.  The assumptions give the
types of the constants and keep special values apart.  Those that say more:
`NamesAssumption` (no label of a name has 192 bytes or more; DNS allows 63),
`TypesAndClassesAssumption` (four bytes at least follow a name),
`UpstreamAssumption` (a server's records begin with a pointer to the question),
`HostsAssumption` and `SuffixAssumption` (the fixed host names are bytes) and
`ResolversAssumption` (there is a resolver to block).

Four theorems about the desktop gate have a hypothesis, which their run
makes, because without it the property is false: TLC refutes each of the four with the
constants of `DesktopGuard_torn`.  `WindowShowsTheDisk` and
`EffectsComeOnce` are about saves that do not fail (`SaveFaults = {}`): if the
mark of an effect is not saved, the next tick lets it take effect again, and the
window offers to cancel a stop whose request was never saved (section 5).
`LabelsHold` and `TheReplacedPartnerKnew` are about files that are not lost,
neither to a crash nor to a save cut short (`"torn" \notin Crashes`,
`"cut" \notin SaveFaults`; saves that do not open are admitted): what a waiting
request was compared with is gone with the configuration, and after a new setup
an old increase may lower the delay.  `NoShortcutHolds`,
`LessThanASecondEarlyHolds` and `GateIsKept` have no hypothesis.

**DesktopGuardProofs.** `TypeCorrect` is inductive alone, action by action.
`NoShortcutHolds` needs `ShortcutInvariant`, since at the moment of an effect
only the effect's own `readyAt` is compared with the clock: the invariant adds
that every waiting request, on disk or in the loop's snapshot, is due no earlier
than the base terms, and that until the base terms have run out the delay on
disk cannot be shorter than the base delay, because only an effect changes it.
That is the chain argument: to have a short deadline one must first have had a
short delay, which had to wait a full one.  It holds with saves that fail
either way, lost files (`DefaultDelay` in force again after the configuration is
lost: only at an effect or after one), and any crash.  `LessThanASecondEarlyHolds`
is the same statement in real time, with the truncation to seconds as a lemma.

Everything else rests on `Books`: identifiers are not used twice, the tick's
snapshot is a part of what is on disk (`Listing`), and every request on disk has
its entry in the ledger, with its terms (`Recorded`).  `OneChangeIsOpen` needs
`Offers`: the settings page offers to ask only for what does not wait already,
and while its dialog is open nothing of that kind comes to wait.
`WindowShowsTheDisk` follows from `StopShown`, `EffectsComeOnce` from `Marked`:
what has taken effect in this launch and still waits is the one request that the
tick is about to mark.  `LabelsHold` and `TheReplacedPartnerKnew` follow from
`Agreed`, which compares every waiting request with the configuration it would
change: by `Offers` no second one can change it meanwhile.
`GateIsKept` is the refinement, with no hypothesis: `PhaseOf` and `DueOf` map
identifiers to the phases and times of `AccountabilityGate` (`ByPhase` and
`ByLedger` say what the map yields), and then each action is the gate's action of
the same purpose or leaves the mapped state alone.  The gate is worded for saves
that lose a file: asking may fail to be recorded and may then end the wait of
all others (`AskFor`), so may cancelling (`Withdraw`), and an effect may forget
the agreement that it changes (`TakeEffect`).  What no failing save does is let
a request take effect before its time, or after it was withdrawn, or lose the
agreement before some request was ripe.

**SystemDnsRedirectProofs.** `KeptInvariant` states, per stage of `apply()` and
`restore()`, which of the two files is the good one, as long as the backup was
not cut short and nobody wrote behind it (`BackupGood`); `OriginalIsKept` and
`RestoreIsExact` follow.  `RedirectIsAlive` says that only a death or a failed
restore leaves the file naming 127.0.0.1 where no filter listens, and no longer
than until some restore runs to its end.  It needs `AliveInv`: whatever fails, a
file that names 127.0.0.1 has a backup beside it and the backup never does so
itself; and since the last death or failed restore that is not made good, the
file names it only where the filter listens or a restore is about to begin.
`PromiseIsKept` is the refinement of `SystemChange` by `SystemDnsBackends`: the
invariants of the Linux backend are lifted to the choice of a backend
(`BackendsRunFiles`), `FlagInv` ties the window's flag to `applied_` and that to
the backup, in every stage and whatever has failed, and `ResolvedInv` says what
systemd-resolved has read at each of its stages.  For resolv.conf the two halves
of the promise are excused apart: an `apply()` that says yes by a write of that
run which it did not look at, a `restore()` by a backup that is not good.

**FirewallBypassProofs.** `JumpIsInsertedOnce` rests on an invariant that
relates the number of jumps to the stage and the failures so far.
`KernelIsKnown` states what each stage knows of the kernel as long as no
command failed; `FlagIsTrue` and `RestoreCleans` follow.  `PromiseIsKept` is the
refinement of `SystemChange` by `FirewallBackends`, with `OtherInv` for what the
rules file, the anchor of pf and the rules of netsh hold at each operation.

**QueryHandlingProofs.** `Bounded` bounds the positions in every stage: in
the label loop the offset is at most the length of the body and the hops at most
the limit; behind it, four bytes follow the name; walk and decoding stay within
one past the end of their name.  `ReadsInBounds` follows, for messages of any
length and any bytes, and `SinkholedExactly` (`SinkholedIffListed`) from a
second one, `LookedUp`: of all parents of the name that begin before `from`, none
is on the list.  `AnswersFit` needs `Replied`, which says of what goes upstream
that it is the client's message or the same query for the host of the safe
search.

The other two are about what the encoder and the translation proxy write, which
are folds, for names of any length, and so need induction.  The library's
induction theorems take a predicate as a parameter, which the provers cannot
instantiate; here a set of numbers stands for the predicate, and
`SmallestExists` (from `NatLessThanWellFounded` and `WFMin`) gives
`CountingUp` and `CountingDown` for sets.  `EncodedFrom` says what the encoder
writes from a position on, `StartsWithLabel` that this is a label and what is
written behind it; `Joined` is what the proxy writes of the first characters.
`ParserReadsTheEncoder` then rests on `Spelled` (the name read so far encodes to
the bytes read so far, unless a label has a dot in it) and on `Served` (before a
proper query, the parser has the encoding of the rest of its name before it, with
hops enough left for the labels of it).  `ProxyIsSeenThrough` rests on
`SeenThrough`: the decoder has undone the proxy's writing of some first part of
the name.

**DnsFilterServerProofs.** Every worker before the last has ended, those after it
are unborn, and while the GUI thread is idle the flag says whether the last one
lives; `NeverTwoWorkers` and `StatusShowsTheWorker` follow for any number of
starts.

**NotificationOutboxProofs.** `QueueStaysInOrder` needs that what each flush
still has to try and what it has put back are in order too, and together within
the limit, since their concatenation becomes the queue.  `NothingElseLosesANote`
(`KeptUnlessRaced`) needs that, as long as no flush was raced, every note that
the queue holds has been received or is in the hands of each flush under way.

**MobileGuardProofs.** `ChainsGainNothing` (`NoShortcut`) rests on `Chain`: no
waiting request is ready before the base terms have run out, no tick has a
request in hand before then, and until then the delay in force is not below the
base delay.  A tick's list may hold what has been cancelled since; what counts
is when it was read.  `RemovalsNeverRevert` needs that the service's list was
computed from removals that are approved.  `WhatIsAppliedTookEffect` needs that
a tick which is past a request's effect has that request in `took`, until it
lets go of it.

**BlockerVpnServiceProofs.** `OnlyTheReplacingLeaks` rests on `ListHeld`: while a
packet thread exists or is about to be started, everything handed over last is
on the list, unless the list is being filled (and then what is there and what is
still to be added make the list of the intent), and on `WalksHeld`: a lookup that
has met no replacement has missed each of the names it has passed in the list as
it is now.  `StatusComesTrue` rests on
`StatusHeld`, which says in which stages of the main and the binder thread flag
and status may differ, unless a start met `onRevoke`.  `NeverTwoReaders` adds
`Counted` (the starts still due are paid for by commands and restarts, so that an
unborn thread is left for each) and `ReadersHeld`: while nothing raced and no join
gave up, a thread that loops is the one the service knows, on the interface it
was started with, and whoever has taken the flag down joins that very thread.
`TheLastWordHolds` rests on `WordHeld`: while nothing disturbed, what was asked
last is said by the last message that waits; if none waits, by what the main
thread is doing or has done; and before a restart's broadcast, by what is saved.

Checked by TLC only: liveness under fairness (`DueIsSettled`, `StopReturns`,
`QueriesAreSettled`, `EveryQueryEnds`, `ArrivesUnlessRaced`, `LastWordArrives`),
which is out of the prover's reach, and the two properties that the code does not
have (section 5).

## 5. Where the code departs from what is said of it

Two are shown by runs, with the lines they contradict in `findings`: a
request cancelled during a tick takes effect although the partner was told it
would not (`MobileGuard_cancel`); two overlapping ticks turn the protection off
twice for one request (`MobileGuard_twice`).

Others were met while modelling, and are built into the models as the code has
them.  No run is spent on them, because each follows from reading the lines:

- Closing the desktop window stops the protection with no PIN, no delay and no
  notice (mainwindow.cpp:54-56), while the setup page speaks of "any attempt to
  weaken protection later" (mainwindow.cpp:78-80).  `NoShortcut` therefore
  speaks of what happens while the window is open, `Close` and `Gone` are not
  effects.
- After a restart `pendingDisableActionId` is not read before the first tick
  (mainwindow.cpp:46-51).  A stop request made in these two seconds is a second
  one, and the cancel button then removes only one of the two.  Once the timer
  has run, the window disables the toggle while a request waits
  (mainwindow.cpp:513-514), with the protection off as well.
- The setup page accepts an empty webhook (mainwindow.cpp:310); then nobody is
  told of anything (webhook_notifier.cpp:15).
- When `restore()` fails the window forgets the redirect while `applied_` stays
  true; the next `apply()` refuses and the window says the redirect failed
  (mainwindow.cpp:338-339) though it is in place.
- Nobody learns whether a save succeeded (`saveConfig` and `savePendingActions`
  return nothing, accountability_repository.cpp:74 and 151).  A stop whose request was
  not saved is announced, shown and offered for cancelling, and never comes due;
  a request whose mark was not saved takes effect with every tick.
- A save whose write fails once the file is open, on a full disk, leaves the file
  empty, with no crash (lines 74-75, 151-152): one more request ends the wait
  of all others, a cancellation too; an effect that changes the webhook or the
  delay may lose the whole configuration, PIN included, and the next launch
  begins with the setup page.
- A backup that an earlier launch left behind is kept by the next `apply()`
  (resolv_conf_configurator.cpp:22), so `restore()` brings back what the file
  held before that launch and overwrites what others have written since.
- A backup is copied to its final name; cut short by a crash, it is taken for
  complete by the next launch (resolv_conf_configurator.cpp:22-24).
- `IptablesBypassBlocker::apply` looks at no result and returns true
  (iptables_bypass_blocker.cpp:27-38): the window's message about missing
  privileges (mainwindow.cpp:348-349) cannot appear because of a rule that
  could not be added.
- The records of an upstream answer are moved when the safe search name is put
  back (safe_search.cpp:47); names in them that point anywhere but at the
  question then point beside what they mean.
- The parser looks at the first question only, and takes length bytes from 64 to
  191 for lengths (dns_message.cpp:51); a sinkhole answer is an A record whatever
  type was asked for (dns_message.cpp:111).
- `Blocklist::setDomains` keeps the case of what it is given, while names are
  looked up in lower case; `loadFromFile` is called by no part of the program.
- After a failed load the pf blocker leaves its rules file behind, and it loads
  a file whose write failed (pf_bypass_blocker.cpp:28-41): `apply()` then says
  yes with some resolvers open.
- The rules of netsh pile up when a launch dies and the next one applies; one
  `restore()` deletes them all (windows_firewall_bypass_blocker.cpp).
- A drop-in file left by a crash keeps systemd-resolved at 127.0.0.1, where
  nobody listens, from boot to boot until the program runs again
  (systemd_resolved_configurator.cpp:37).
- A note enqueued during a flush is overwritten when the flush saves what it has
  left (notification_outbox.dart:39), where android/README.md:43 speaks of
  "queued/retried notifications".  `KeptUnlessRaced` says that a note is lost in
  no other way.
- The streak takes 24 hours from the date of today to get yesterday
  (protection_streak_repository.dart:43): on the day after one of 23 hours that
  is the day before yesterday, and the streak breaks.
- On the phone, a request is marked applied and reported as "now in effect"
  (app_en.arb:165) before `_commit` changes anything; a crash or a throw in
  between loses the change for good.
- On the phone the clock alone decides: the waiting period may run out before
  the warning has been delivered, where the welcome page has the webhook warned
  "before it takes effect" (app_en.arb:7).
- On the phone a longer delay waits like a shorter one
  (settings_view_model.dart:141), where README.md:9 says that strengthening is
  always immediate.
- The packet thread sees the list empty, and then half-filled, while an intent
  replaces it (BlockerVpnService.kt:35-36, 41-42): what is on both lists gets
  through for that moment.  A lookup takes several looks (lines 163-177); one
  that misses a name before it is added, and has its other names to look for
  when the filling is done, lets the query through after it.
  `LeaksOnlyWhileReplaced` says that a query gets through in these two ways only.
- After Android kills the process it restarts the service with no intent.  The
  `when` of `onStartCommand` does nothing then, and `persistState` saves an
  inactive service with an empty list over what was saved (line 46): the
  protection stays off, and the next boot does not bring it back.
- A start handled between `stopSelf` and the destruction it asks for is undone
  by `onDestroy`, which saves nothing: the service is off and saved as active.
  `LastWordHolds` calls this "overtaken".
- `onRevoke` stops the service and saves nothing either, so the next boot tries
  to start it, without permission.
- The lasting notification is shown before `establish` is called
  (lines 37-38) and stays when it returns null.
- A note to an address with no host, or with a scheme other than http, makes
  the HTTP client throw an `ArgumentError`, which `_tryDeliver` does not catch
  (notification_outbox.dart:48): every flush ends there, and saves nothing.

## 6. What is abstracted, and what is left out

- *Identifiers* are numbers in creation order; the list of requests is
  therefore a set, and its order is that of the numbers.
- *PIN*: accepted or refused; hashing, salts and comparison are data.
- *Time*: one wall clock that never goes back, and no bound on how long it
  stands still.  A clock set by hand is a hazard that no property covers: the
  code takes no precaution.  `requestedAt` is stored and never read.
- *Types that no handler makes*: the desktop can parse
  `removeBlocklistDomain` and `changeRemoteBlocklistUrl`, and never creates
  them; the loop passes over one that is due and leaves it pending.
- *Desktop server*: a failed start leaves the state as it was and is a stutter
  in `DesktopGuard`; `DnsFilterServer` has it in full.
- *Desktop POST*: counted at the click.  Nothing awaits it or looks at its
  outcome, so no property of the program can depend on it.
- *Firewall*: the three rules of a resolver are added as one, and the tool is
  installed (`which iptables`, `which pfctl`, `where netsh` succeeded).  pf's
  main rules are taken to refer to the program's anchor, which the program does
  not see to.
- *Files of the backends*: a rules file that is missing and one that is empty
  are alike; a drop-in file cut short is one that says nothing of use.
- *Messages*: of the header, flags and the counts behind the first are left out;
  a sinkhole answer's sizes are those of the code.  A label's length is the byte
  that is there, whatever it says.
- *Mobile*: the two types for a longer and a shorter delay are one, since the
  use case treats them alike; preference writes take effect at once, being
  cached in memory; of the pages, only the dashboard's list of cancel buttons
  is modelled, which offers every waiting request; the VPN service is a flag
  and a list.
- *VPN service*: the plain fields are read as last written; what was saved is
  on the disk when `onStartCommand` ends, because Android waits for it there;
  an intent that a killed process had not handled is lost (Android may deliver
  it again, which can only help; `LastWordHolds` does not count on it);
  `blockedDomains.clear()` is one step.  Which names a query has, by its dots and
  by the translation proxy's rule, is given with the query: the walk goes through
  them as the code does, but does not compute them.  Packet formats and the
  forwarding to upstream servers on threads of their own are left out: the
  properties tell a query that is sinkholed from one that is handed on, and not
  what is answered to it.
- *Outbox*: loading, adding and saving in `enqueue` is one step, since nothing
  else can run between.

Not modelled at all, and why, is in the components of `PROJECT.json`: screens
and localisation (layout), the Android receivers and guard services (one
reaction per event, next to no state), the streak and the block window (one
comparison of dates each, for which the documents name no rule).  SHA-256 is
data: no order of events depends on it, and its test vectors say more of it
than a bounded model could.

## 7. Plan

Order of the modules so far: the gate, because it is the promise of the
product; the two system changes that outlive the process; the worker thread;
the mobile gate; the outbox; the VPN service; the handling of a query; the
other backends, against one abstract promise.  What is next:

1. Composition of `MobileGuard` with `BlockerVpnService`: a stop that the gate
   lets through against the intents that the list jobs send.
2. Composition of `MobileGuard` with `NotificationOutbox`: which of the notes a
   gate hands over the partner has in hand when a request takes effect.
3. The packet path of the VPN service: how the names of a query are computed in
   Kotlin, and the executor that forwards on threads of its own.
4. Pure operators with reference definitions: the block window across midnight,
   the streak's days.
5. Proofs: no safety property is left to TLC alone; those of the modules above
   are to be stated with theirs.

## 8. How to run

In this directory, `tlc -config <run>.cfg <module>` for each run, with the
module named in `PROJECT.json`, and `tlapm <module>` for the eight `...Proofs`
modules.  The longest run and the longest proof (`QueryHandlingProofs`) take
three to four minutes each on two cores.
