# sip_flutter in TLA+

`sip_flutter` is a Flutter plugin that makes and answers SIP calls.  On Android
its core is `SipManager.kt`, a singleton that keeps the account and the calls
and drives the C library baresip through `baresip.c` (JNI); on iOS it is
`SipManager.swift` with `SipClient.mm`; a small Dart module forwards methods and
hands events on.  This directory models these parts, checks them with TLC on
small instances and proves invariants and refinements of them with TLAPS.  `K`
below stands for `src/android/src/main/kotlin/com/catelt/sip_flutter`.

## Inventory

| Component | Source | State | Operations | Model |
|---|---|---|---|---|
| Account registration | `K/sip_manager/SipManager.kt`, `baresip.c` | `ua`, `cacheStateAccount`; in baresip the list of UAs and their transactions | `initSipModule`, `refreshSipAccount`, `unregisterSipAccount`, `uaEvent` (account), `sendAccountEvent` | `Registration` |
| Calls | the same, `K/model/Call.kt` | `calls`, `currentCall`; in baresip the calls | `call`, `answer`, `hangup`, `reject`, `pause`, `resume`, `uaEvent` (calls) | `Calls`, `CallStatus` |
| Call sounds | `SipManager.kt` 698-835 | `rt`, `rtTimer`, `vbTimer`, `mediaPlayer`, `origVolume` | `startRinging`, `stopRinging`, `playRingBack`, `playBusy`, `stopMediaPlayer`, `setCallVolume`, `resetCallVolume` | `Media` (in `Calls`) |
| Plugin lifecycle | `K/SipFlutterPlugin.kt`, `start`, `stopped`, `baresipStart`, `baresipStop` | `INSTANCE`, `isRunning`, the receiver, what baresip has open, `mq` | attach, detach, start part by part, main loop, stop, closing; the death of the process | `Lifecycle` |
| Configuration file | `K/model/Config.kt` | the file | `initialize`, `save` | `ConfigFile` (in `Lifecycle`) |
| Network monitor | `SipManager.kt` 92-209, 582-661, `baresip.c` | `allNetworks`, `linkAddresses`, `activeNetwork`, hot-spot fields; in baresip addresses and transports | callbacks, receiver, timers, `updateNetwork`, WiFi lock | `Network` |
| DNS servers | `updateDnsServers`, `Config.kt` 183-198, `net_use_nameserver` | `dnsServers`, baresip's name servers | update | `Network` |
| JNI bridge and lock | `baresip.c` | the re thread lock | every wrapper, the event loop, upcalls | `Bridge`, `Mutex` |
| Event texts | `ua_event_handler`, `message_handler`, `send_resp_handler`, `uaEvent` | none | what an event is written as and read as | `EventTexts` (in `Bridge`) |
| Account settings and codecs | `baresip.c` 655-1450 | baresip's accounts | setters, getters, codec lists | `Accounts`, `Settings` (partly) |
| Event delivery, Dart call module | `sendEvent`, `SipFlutterPlugin.kt`, `call_module.dart` | main looper, `eventSink`, subscriptions and streams | attach, detach, listen, send, `initSipModule`, `_listener` | `Delivery` |
| iOS client | `SipManager.swift`, `SipClient.mm` | `ua`, `currentCall`, the calls, the main queue | the methods, the delegate, `ua_event_handler` | `IosClient` (partly) |
| SIP messages | `baresip.c` | none | `message_handler`, `send_resp_handler` | their upcalls and texts only (`Bridge`) |
| Method replies | `SipFlutterPlugin.kt` 38-120 | pending results | every method | no |
| Microphone, speaker | `SipManager.kt` 400-418, `Utils.kt` | mute state, audio route | `toggleMic`, `setSpeaker`, `toggleSpeaker` | no |
| baresip, re, OpenSSL | `src/distribution` | | | external |

**How the parts interact.**  Method calls arrive on Android's main thread and
call baresip through JNI.  baresip has a thread of its own (`re`) for what
comes from the network.  Events go the other way: `ua_event_handler` calls
`SipManager.uaEvent` on the thread that caused the event: on `re` for what the
peer or the registrar does, on main (or on a network callback's thread) when a
method causes it.  It leaves baresip's lock first and takes it again afterwards.
`SipManager` has no lock of its own, so all of its fields are shared by these
threads without exclusion.  Events for Dart are posted to the main looper, and
go to the static `eventSink` of the engine that listens, when there is one.
On iOS everything of baresip runs on one thread, and events are blocks on the
main queue that run later than what they are about.

**What is hard.**  Two threads in `uaEvent` at the same time; an event that
arrives between a call into baresip and the assignment after it; events of an
account or a call that was given up; local failures after an event was already
raised; a thread that reads a handle the other one destroys; networks that
change in the middle of an update; a stop before the loop runs, or a process
killed while it writes its file; engines that come and go under a singleton
that stays; blocks that run after what they are about has ended.
`PROJECT.json` lists these hazards by line.

**What makes each component correct.**  Registration: the shown state is the
state of the account in use, it does not stay in progress, events and cache
agree.  Calls, on both systems: the events of a call come in order and its end
is always told; a live call can be acted on.  Sounds: nothing plays without a
call.  Bridge: one thread at a time in baresip, no lock held in Kotlin, events
read as they were meant.  Lifecycle: baresip is started once and closed
completely, a stop is heard, what the user set stays.  Network: at rest baresip
uses the addresses, transports and servers the phone has.  Accounts: what was
set is what is read, and what is offered.  Delivery: every event is heard, once
and in order.

## Modules

- `Scripts`: the idiom of most specifications here.  `todo[t]` is the call stack
  of thread `t` as a sequence of operations; a step executes the first and may
  push what it calls.  Thus every action is one access to shared state, and the
  interleavings are those of the code.
- `Registration`: accounts.  An upcall is a step of its own on the thread that
  causes it.  `uag` (baresip's list), `pending`, `wanted` and `outcome` model the
  registrar: `pending` are transactions without an answer, `wanted[u]` and
  `outcome[u]` the last one sent for a UA and how it was answered.
- `Media`: sounds.  Two threads run the media section without exclusion, so each
  access to `rtTimer`, `vbTimer` or `mediaPlayer` is a step.  `lost` has the timers
  and tones that go on after a thread overwrote the field that held them, `thrown`
  says that one used a timer or player that the other had taken away.
- `Calls`: calls, composed with `Media`.  `phase`, `held` and `peerHolds` are
  baresip's, `told` and `holdTold` record what Dart was told, `late` that `call()`
  made a call the current one that was over by then.
- `CallStatus`: the abstract specification of what the events of a call
  promise (Ring, then perhaps Up, then Hangup, each once).  `Calls` and
  `IosClient` implement it.
- `EventTexts`: the strings that `baresip.c` makes of events and what `uaEvent`
  takes apart again, as sequences of fields.
- `Mutex`: the abstract specification of a lock: nobody or one thread has it.
- `Bridge`: threads that call functions of the bridge, which take the lock (or
  do not: kind `bare`), and the event loop, which has it except while it waits.
  Any of them may raise an event, whose upcall releases and takes the lock in
  the middle.  `OneAtATime` says that it implements `Mutex`.
- `ConfigFile`: `Config.initialize` as a function from the previous file, a
  sequence of lines, to the next.
- `Lifecycle`: engines, the singleton, the start and the end of baresip as a
  script on its thread, and processes in a row over one file (with
  `ConfigFile`).  `Die` is an exception nobody catches or a second signal, `Kill`
  the system.  A save empties the file and then writes it, and each may fail, which
  `initialize` does not look at; `torn` records that the file was left empty.
  All UAs are told to stop in one step (`stopping`) and the loop ends in a later one.
- `Network`: the phone's networks, callbacks in the order in which they were
  posted, `start()` and the opening of baresip on its thread, and `updateNetwork` as
  a script whose steps are the calls of baresip.  It begins when `SipManager`
  registers its callback, so callbacks may come at any step of `start()`, and do
  nothing but add or remove their network until `isRunning`.  What an update reads
  of the `ConnectivityManager`, network by network, is one step, in which each
  network with a callback to come is seen as before or after its change (`Sights`).
  `updated` says that there was an update, `found` has the addresses which
  baresip found itself when `start()` had none to give it.
- `Settings`: the abstract specification of settings: a value set is the value
  read, until another is set.
- `Accounts`: the setters and getters of an account with the conversions that
  JNI makes (null pointers, casts, uris encoded and decoded), and the codec
  lists with their buffers.  `SettingsAreKept` says that it implements
  `Settings`.
- `IosClient`: accounts and calls on iOS; `queue` is the main queue.  `Modes`
  restricts an instance to what happens at a time: accounts, calls together or
  calls in turn.
- `Delivery`: engines, the Dart application in each, the main looper and the
  event channel.  `due` records what an application must hear, the events sent
  since it listens, and `unheard` how many calls of `initSipModule` found nobody
  listening to calls.
- `ScriptParts`: what a script contains, in the words that the proofs share.
- `RegistrationProofs`, `CallsProofs`, `BridgeProofs`, `AccountsProofs`,
  `IosProofs`, `DeliveryProofs`, `LifecycleProofs`, `NetworkProofs`: theorems about the
  modules they are named for.
- `MC...`: the constants of the runs.

Definitions named `Faulty...` are variants of the definition that follows them,
each with a plausible mistake (see Mutants).

## Runs

All runs but `Accounts` have `CHECK_DEADLOCK FALSE`: an application that makes no
more calls and peers that do nothing leave the system at rest.

| Run | Instance | States | Shows |
|---|---|---|---|
| `RegistrationThreads` | 1 account, a network thread, all methods | 1119525 | `TypeOK`, `NoStuckProgress`, `AppAgreesWithCache`, `OnlyOkIsHonest` |
| `RegistrationAccounts` | 2 accounts, the second replacing the first; the codecs may fail | 3326929 | `AppAgreesWithCache` |
| `RegistrationLive` | 1 account, all methods, a REGISTER may fail on the spot, fair | 33150 | `ProgressResolves`: a Progress that Dart was shown is replaced |
| `CallsEverything` | 1 call, all methods, events and faults, all sounds | 2052193 | `TypeOK`; `UpAfterRing` |
| `CallsTogether` | 2 calls at a time, ended by either side, detach | 255245 | `EndIsTold` |
| `CallsInTurn` | 2 calls in turn, ended by the peer, holds of both sides, all sounds | 1602967 | `LiveIsReachable`, `SilentWhenOver`, `PeerHoldIsTold`; `EventsInOrder`: `Calls` implements `CallStatus` |
| `Bridge` | a thread and the event loop, every event, 2 upcalls in a call | 19200 | `KotlinIsUnlocked`, `HeardAsMeant`; `OneAtATime`: implements `Mutex`; `CallsReturn` eventually |
| `Lifecycle` | 3 processes, 2 engines each, 4 parts that fail, saves that fail, 2 files | 31047 | `NothingLeftOpen`, `StartsOnce`, `SettingsStay`; `StopIsHeard` eventually |
| `Network` | 2 networks, a hot spot, from the start on; 2 changes in the middle of `start()` and updates, or 4 between updates | 2218307 | `TypeOK`, `AddressesFollow`, `TransportsFollow`, `ActiveServersFirst`, `WifiLockFollows` |
| `IosClient` | 2 calls, 2 UAs, every method and fault | 100344 | `CurrentIsLiveOrFailed`, `LiveIsReachable`; `CallsAsPromised`: implements `CallStatus`; `EndComesThrough`, `ProgressResolves` eventually |
| `Accounts` | integers of 8 and 4 bits, codec lists around the buffers' sizes | 240842 | `AskedIsOffered`; `SettingsAreKept`: implements `Settings` |
| `Delivery` | 2 engines in turn, 3 events, 2 calls of `initSipModule` in each, listening in any order | 102636 | `HeardOnceInOrder`; `DueArrives` eventually |

Each restriction of an instance is a value of a constant in its `.cfg`.  What
the same models show under others is the next section.

### What does not hold

- Another account (`Uas = {u1, u2}`, `Methods <- JustInit`): `OkIsHonest` of
  `Registration` fails.  `uaEvent` ignores the UA of an event (`SipManager.kt`
  544), so the answer for a replaced account makes the new one Ok, although
  `src/lib/src/model/sip_account_event.dart:11` says "Registration is
  successful."  It also fails when the answer arrives before `unregister` clears
  `ua`.
- `Faults` with `register`: `OnlyOkIsHonest` fails with a single account, too.  A
  REGISTER that cannot be sent reports so on the thread that sends it; the answer
  to an earlier one, reported on the baresip thread, may overtake it.
- The same with `Methods` init and unregister and a network thread:
  `NoneIsHonest` fails.  `uag_reset_transp` (613) registers every UA of baresip
  again, those given up included.
- `Faults` with `unregister`: `NoStuckProgress` fails.  An un-REGISTER that
  cannot be sent leaves Progress; with `register`, `AppAgreesWithCache` fails on
  a network thread, whose report and the baresip thread's may swap.  So it does
  with `codecs` and two accounts, when an account is given up that has sent
  nothing: its un-REGISTER comes to nothing, and no later answer puts right what
  the main thread and baresip's told in the wrong order.
- `Methods` with hangup in `CallsInTurn`: `EventsInOrder` fails.  A call that both
  sides end at once is told to end twice, or to be up after it ended.
- `Faults` with `connect` in `CallsTogether`: `EndIsTold` fails.  A call that
  cannot be connected rang and is never told to have ended.  It fails too when
  the account is given up during a call.
- `Overlap = TRUE` in `CallsInTurn`: `LiveIsReachable` fails.  The end of one of
  two calls sets `currentCall` to null, and the other can neither be answered nor
  hung up.
- `late` in `Calls`: `call()` sets `currentCall` after `call_connect` returned
  (`SipManager.kt` 336).  Where the peer has ended the call by then, the dead call is
  current, and stays so beside a later live one until an event of that comes.
  `LiveIsReachable` says nothing from then on.
- `lost` and `thrown` in `Media`: a second `startRinging` (with `Overlap = TRUE`)
  overwrites the timers of the first, which nobody can cancel any more; a field that
  one thread sets to null between two accesses of another throws an exception there.
  `SilentWhenOver` is about what `SipManager` still holds, in behaviours without
  such an exception.  It fails when a ring-back event waits while its call is hung
  up (hangup among the `Methods`).
- The directions inactive and recvonly of a peer: `PeerHoldIsTold` fails with either
  among what peers do, as `uaEvent` (499) has no case for them.  A pause
  by the application is not told at all.  `RegisterSipState.Cleared` is never
  sent: `ReportedState` has no way to it.
- `Wrappers` with `bare` (functions without the lock), or `GetEnvFails = TRUE` (the
  upcall returns without the lock): `OneAtATime` of `Bridge` fails.
- `updated` in `Network`: callbacks that come while `start()` runs update nothing
  (`if (isRunning)`, 104 to 136), and `start()` sets `isRunning` last (267).  A network
  that came by then is not given to baresip before the next callback, account or
  hot-spot change has an update made; its name servers and the WiFi lock wait for
  that in any case.  Without `updated`, `AddressesFollow`, `ActiveServersFirst` and
  `WifiLockFollows` fail.
- `misused` in `Network`: `isRunning` is true before baresip is open on its thread.  A
  callback in between calls its network functions too early; the model stops there.
- Two updaters at once in `Network` (a mode of its own would be needed):
  `AddressesFollow` fails, one overwrites what the other remembered.  A hot-spot
  address that is also a link address, or a hot spot that changes before its timers
  have fired, lead to the same.  This is why `Modes`
  has `alone` (the network callback is the only updater, in the middle of changes)
  and `calm` (every updater, one at a time and between changes).
- `Rejected` in `Network`: an address that baresip refused is remembered as given once
  another one was taken, and never tried again.
- `allNetworks` is iterated without a lock while a callback may change it: a
  `ConcurrentModificationException`, which the model does not have.
- `torn` in `Lifecycle`: `SettingsStay` excepts saves that were cut short or failed
  half way.  `writeBytes` empties the file first (`Utils.kt` 54), and a process that
  dies there, or a write that fails, loses what the user set.
- A stop before `mqueue_alloc` is lost, and a second `stopped()` throws and ends the
  process: `StopIsHeard` is about stops that are in the queue of a process that lives.
- `failed` in `IosClient`: a call whose INVITE cannot be sent (`SipClient.mm` 362) is
  destroyed without "call closed".  Its block of "call outgoing" tells Dart Ring and
  makes it the current call for good (`SipManager.swift` 232); it is never told to have
  ended.  `CurrentIsLiveOrFailed` and `EndComesThrough` leave it out.
- `NoHandle` in `IosClient`: where `makeCall` fails at once, the current call is a
  `SipCall` without a handle.  `LiveIsReachable` admits it: hangup then ends the call of
  the account, while pause, resume and mute do nothing.
- `misused` in `IosClient`: methods on the handle of a call that is gone end the
  behaviour there, since what baresip does with one is undefined.
- `unheard` in `Delivery`: `initSipModule` listens to the event channel only if
  nobody listens to calls yet (`call_module.dart` 33).  An application that does
  what `src/README.md:80` ("7. Listen for call event:") shows before it calls
  `initSipModule` never hears an event, so `DueArrives` is about applications that
  called it once, at least, while they did not listen.  But with two such calls, before the
  first listener or after the last has cancelled, every event comes twice:
  `HeardOnceInOrder` excepts just that.
- `Together = TRUE` in `Delivery`: `DueArrives` fails.  An engine that detaches
  after another one has attached resets the static `eventSink` that is by then
  the other one's.
- An index of an outbound proxy of 2^16 or more wraps (`baresip.c` 699); `Accounts`
  has all indexes below.

### Bounds

- `Uas`, `CallIds`: every account or call of a behaviour is a fresh one.  One
  shows the races of a single object, two what one does to another.  With one
  account, `initSipModule` can be called once.
- `RegistrationAccounts` uses symmetry in the accounts: it checks an invariant
  only, and nothing tells two accounts apart but the order of `uag`.
- `NetThreads`: one network thread; the hot-spot timers run on it too.
- `QueueBound`: no new handler starts while more than this many events (on iOS:
  blocks) wait.  Handlers under way still post, so several do wait.
- A `PeriodicRefresh` also needs an idle baresip thread, as it runs there.
- In `Calls` events reach Dart when they are posted (they stay in order).
- `UpcallBound`: two upcalls in a call of the bridge, so that the lock is
  released and taken more than once in it.  The other fields of an event are at
  rest except in the events of `AllEvents` that look at them.
- `Processes`, `Attachments`: a second process finds the file of the first, a
  third what the second made of it; a second engine finds the singleton.
  `Faults`: a part without a name, one of the middle, the last one, the loop, and the
  writing of the file.
- `Changes`: between updates four changes make a network come, change, go and another
  take over; two are enough for one in the middle of `start()` or of an update, and
  one after it.  `NetMaxNs = 2` and `TextLimit = 3` put lists on both sides of the
  limits.
- `Word`, `Half`, `Slots` stand for 2^32, 2^16 and the number of outbound proxies,
  `MCJints` are the extreme values; the codec lists have 0, 14, 17, 18 and 23
  characters for buffers of 18.
- `MaxEvents`, `MaxInits`: three events can be in the looper, in the channel and
  heard at once; a second `initSipModule` meets the first one's subscription.

### Fairness

- `Registration`: each thread goes on with the handler it is in (`WF`): Kotlin
  code here never blocks for ever and baresip's lock is released around upcalls.
  A transaction is answered or times out (`SF(Answer)`: its timers cannot be
  postponed by other events of the same thread for ever), and the main looper, a
  queue, runs what is posted to it (`SF(Deliver)`).
- `Bridge`: each thread goes on (`WF`), and a thread that waits for the lock gets
  it if it is free again and again (`SF(Enter)`): re's lock is a mutex of the
  system, and the event loop leaves it whenever it polls.
- `Lifecycle`: the main thread and baresip's go on while the process lives (`WF`);
  baresip takes a stop out of its queue, and reports the UAs stopped once they were
  told to.
- `IosClient`: the main queue runs its blocks (`SF`, a method may come first), a
  method goes on and a transaction is answered (`WF`).
- `Delivery`: the main looper and the Dart code of an engine take what waits for
  them (`WF`).

No fairness is assumed of applications, networks, peers and engines.

### Mutants

Each property of a passing run is also checked against a mistake that breaks it.

| Variant | Mistake | Breaks |
|---|---|---|
| `FaultyUaRegister` | the REGISTER goes out before registering is reported | `NoStuckProgress` |
| `FaultyUncachedEvent` | Failed is posted, not cached | `OnlyOkIsHonest` |
| `FaultyUnpostedEvent` | Failed is cached, not posted | `ProgressResolves` |
| `FaultyReportedState` | names of baresip are used as states | `TypeOK` |
| `FaultyClearUa` | the cache is reset without an event | `AppAgreesWithCache` |
| `FaultyCall` | the INVITE goes out before outgoing is reported | `UpAfterRing`, `EventsInOrder` |
| `FaultyEnding` | a busy call is not told to have ended | `EndIsTold` |
| `FaultySipCall` | only listed calls become current | `LiveIsReachable` |
| `FaultyStopRinging` | the vibration is not stopped | `SilentWhenOver` |
| `FaultyUpdateTold` | the direction is told as it is | `PeerHoldIsTold`, `TypeOK` |
| `FaultyUnboundedUpcall` | a text longer than its buffer is passed on | `TypeOK` (`Bridge`) |
| `FaultyLockedUpcall` | the upcall keeps the lock | `KotlinIsUnlocked` |
| `FaultyTranslateErrorcode` | a declined call (603) is taken for an error | `HeardAsMeant` |
| `FaultyUpcall` | the upcall does not take the lock again | `OneAtATime` |
| `FaultyLocked` | a function returns with the lock | `CallsReturn` |
| `FaultyBaresipStop` | a push to a queue that is not there counts | `TypeOK` (`Lifecycle`) |
| `FaultyClosing` | the event handler and the thread are forgotten | `NothingLeftOpen` |
| `FaultyAttach` | each engine makes a `SipManager` | `StartsOnce` |
| `FaultyInitialize` | the file is emptied before it is read | `SettingsStay` |
| `FaultyMqueueHandler` | the stop is taken and no UA is told | `StopIsHeard` |
| `FaultyFirst` | one name server too many | `TypeOK` (`Network`) |
| `FaultyCallback` | a network that is known already has no update made | `AddressesFollow` |
| `FaultyRemoveAddress` | a removal does not reset the transports | `TransportsFollow` |
| `FaultyUpdateDnsServers` | servers are passed on only while there are none | `ActiveServersFirst` |
| `FaultyLockWifi` | the WiFi lock is taken and never given back | `WifiLockFollows` |
| `FaultyState` | names of baresip are used as states | `TypeOK` (`IosClient`) |
| `FaultyUnheardState` | a failure is not told | `ProgressResolves` (`IosClient`) |
| `FaultyCurrentAfter` | an ended call stays current | `CurrentIsLiveOrFailed` |
| `FaultyListedAfter` | an incoming call does not become current | `LiveIsReachable` (`IosClient`) |
| `FaultyTold` | an end is told of the current call only | `EndComesThrough` (`IosClient`) |
| `FaultyHandleBlock` | the queue is a concurrent one | `CallsAsPromised` |
| `FaultyPointer` | an empty text is stored as a text | `TypeOK` (`Accounts`) |
| `FaultyAudioCodecs` | as much as fits is returned | `AskedIsOffered` |
| `FaultyGet` | a number is not cast back | `SettingsAreKept` |
| `FaultyOnDetachedFromEngine` | `eventSink` is not reset | `TypeOK` (`Delivery`) |
| `FaultyInitSipModule` | each call listens | `HeardOnceInOrder` |
| `FaultySendEvent` | the sink is read when the event is sent | `DueArrives` |

## Proofs

Each theorem holds for every value of the constants that the assumptions of the
modules allow.  Further assumptions are named.

`RegistrationProofs`, for any accounts, network threads, methods and queue bound:

- `TypeCorrect`: `Spec => []TypeOK`, inductive as it stands.  The lemmas before
  it say what pushing a script keeps, one per operator that builds one.
- `NeverStuck`: `Spec => []NoStuckProgress`, assuming that `"codecs"` and
  `"unregister"` are not among the faults ("What does not hold" says why the
  latter is needed).  `NoStuckProgress` is not inductive: it looks at a
  state at rest only.  The strengthening says that whenever the cache shows
  Progress, something that will replace it is under way: a transaction in
  `pending`, or an operation in some thread's script that sends one or that
  writes another state.  A step that consumes such a reason leaves another
  behind; scripts that report registering or unregistering always send
  afterwards, and an account in `ua` has registered or is about to.
- `DartAgrees`: `Spec => []AppAgreesWithCache`, assuming that neither `"codecs"`
  nor `"unregister"` nor `"register"` is among the faults.  `sendAccountEvent`
  caches a state and posts it in two steps, on several threads, so cache and Dart
  differ for a while, and two posts may come in another order than their writes.
  `AgreeInv` says that Dart was told, or is about to be told by the baresip thread,
  what the cache says, unless something is under way that ends in a report of the
  baresip thread (`Resolving`): a transaction, a REGISTER in some script, an event.
  What other threads tell is always followed by a REGISTER (`Followed`), and only
  the baresip thread reports how one went, so its report is the last.
- `OnlyAccountIsHonest`: `Spec => []OnlyOkIsHonest`, assuming that `"register"` is not
  among the faults.  `HonestInv` says of baresip's only UA, if it is the one in use,
  that its last REGISTER succeeded, or that an answer is still due, or that the
  report of its failure is on the baresip thread, wherever the cache shows Ok or a
  report of Ok waits there.  `ListInv` ties the scripts to baresip's list, which
  changes on the main thread only.

`CallsProofs`, for any calls, methods, peers, faults and sounds, and for calls
that overlap as well as for calls in turn, unless a theorem says otherwise.  What
some of them assume is what "What does not hold" shows to be needed: that the
account stays (`AccountStays`: neither unregister nor init among the methods), that
the application ends no call (`OnlyPeersEnd`: neither hangup nor init among them),
or that a call begins when the others are over (`~Overlap`).

- `TypeCorrect`: `Spec => []TypeOK`, inductive as it stands.
- `UpComesAfterRing`: `Spec => []UpAfterRing`.  What Dart was told says nothing
  of what the threads are about to tell, so the invariant `RingInv` adds what
  is under way.  A call that can be established was told to ring, or the
  baresip thread, which alone can report it established, is still about to
  tell it.  Our own call: `call_connect` raises "outgoing" first, and the rest
  of the script on the platform thread stays in one of four shapes until the
  INVITE is sent; `ua` and `isRunning`, without which the event would be
  dropped, change on that thread only.  The peer's call: it must be answered,
  hence have become the current call, and the step that made it so put its Ring
  on the baresip thread.  The lemmas go from scripts (`MildScripts`) over any
  one step (`StepKeepsRing`, `MildStepKeepsRing`) and any handler
  (`StartKeepsRing`) to the actions.
- `EndsAreTold`: `Spec => []EndIsTold`, assuming `AccountStays` and that `"connect"`
  is not among the faults.  `EndInv`: a call that is destroyed, or about to be, was
  told to have ended, or some thread still brings that.  Whoever destroys a call
  reports its end in the same script before, and `uaEvent` drops the report only
  without an account (`AccountInv`: `ua` is there and no script sets it) or once
  the plugin is detached.  Calls overlap, and either thread may end any of them.
- `PeerHoldsAreTold`: `Spec => []PeerHoldIsTold`, assuming `AccountStays` and that
  neither `"inactive"` nor `"recvonly"` is among what peers do.  `HoldInv`: what the baresip thread brings
  of a call's hold is what the peer did last, and with nothing on its way Dart was
  told so last; the main thread brings nothing of it.
- `EventsComeInOrder`: `Spec => EventsInOrder`, that `Calls` implements `CallStatus`,
  assuming `OnlyPeersEnd`.  The mapping reads what Dart was told, so the invariant
  `OrderInv` relates that to how far baresip is with the call and to what the two
  threads have still to tell (`InOrder`), and no script has more than one
  operation that tells (`Once`).  A call that did not ring for Dart is one
  whose Ring is under way, or nobody listens any more (`Deaf`), and then its end
  is not told either.  Calls may overlap, and the account be given up.
- `LiveCallsAreReachable` and `NoSoundOutlivesItsCall`: `Spec => []LiveIsReachable`
  and `Spec => []SilentWhenOver`, assuming `AccountStays`, `OnlyPeersEnd` and
  `~Overlap`.  The first says that the live call is the current one at rest, unless
  `call()` made a call current that was over by then (`late`).  `TurnInv` adds to
  `OrderInv` that one call at a time is with baresip and what its peer causes is on
  the baresip thread only, whose script destroys a call last (`TurnScripts`); which
  calls what is under way can be about (`TurnTargets`); that a live call is the
  current one, or is about to become it, or a method is about to act on one that is
  over (`TurnCurrent`); that what `SipManager` holds sounds for a call that has begun,
  and that a script which destroys the call stops it before (`TurnSounds`).  Each
  access to a field of the sounds is a step, and `answer` on the main thread comes in
  between at any place: what stops a sound is therefore a set of operations
  (`Hushing`, `Stilling`, `Muting`), any of which may have run already.

All of them rest on the same lemmas: which scripts a method or an event of baresip
starts (`MethodScripts`, `CallStepsStart`), what a step leaves of a script and puts
before it (`BringingStep`, `StepWeighs`, `StepReplaces`), and, first in the module, what
`Has`, `Once` and `Final` say of a script after such a step.

`BridgeProofs`, for any callers, events and number of upcalls (an event's fields are
strings, `RaisedAssumption`):

- `TypeCorrect`: `Spec => []TypeOK`, functions without the lock and environments
  that are not found included.
- `LockWorks`: `Spec => OneAtATime`, that `Bridge` implements `Mutex`, assuming that
  every function takes the lock and that `GetEnv` does not fail.  `LockInv` says that
  the holder of the lock is the thread inside baresip.  That is inductive only
  because scripts are paired: what follows an operation that takes the lock is
  inside, and what follows one that releases it is outside.
- `KotlinRunsUnlocked`: `Spec => []KotlinIsUnlocked`, without these assumptions.
  `UnlockInv` needs less of the scripts: Kotlin only follows an operation that
  releases the lock (`Released`), in functions without the lock, too.
- `KotlinHearsWhatIsMeant`: `Spec => []HeardAsMeant`.  Each script carries with an
  event the text that `baresip.c` makes of it; the proof goes through the events
  and the branches of `uaEvent`, one by one, and shows that the fields it takes
  out of the text are those that went in.

`AccountsProofs`, for any settings, texts, widths and codec lists:

- `TypeCorrect`: `Spec => []TypeOK`, from an invariant on what each setting stores.
- `SettersAndGettersAgree`: `Spec => SettingsAreKept`, that `Accounts` implements
  `Settings`.  Its heart is that a getter undoes what its setter did to a value;
  for numbers this is the lemma `SignedUnsigned`.
- `AskedCodecsAreOffered`: `Spec => []AskedIsOffered`.

`IosProofs`, for any calls, accounts, methods, faults and length of the queue:

- `TypeCorrect`: `Spec => []TypeOK`.
- `EventsAsPromised`: `Spec => CallsAsPromised`, that `IosClient` implements
  `CallStatus`.  A block is handled long after it was posted, so `EventsInOrder`
  says what waits for a call: its blocks are in order, its beginning first,
  established at most once and closed at most once and last, and what waits
  continues what Dart was told and ends at what the call is now.
- `NoBlockRevivesAClosedCall`: `Spec => []CurrentIsLiveOrFailed`, from the same
  invariant, whose second part says that a current call that was closed still has
  its end in the queue.  A call that failed to connect has none, and stays current.
- `LiveCallIsReachable`: `Spec => []LiveIsReachable`, where calls come in turn.  The
  invariant `InTurn` says that at most one call lives, and that what waits on the
  main queue leads to it (`Heading`): no event of another call waits any more and
  none is current, or an event of the live call waits and after it none of another.

`DeliveryProofs`, for any engines, together or not, any number of events, and
applications that listen and call `initSipModule` in any order:

- `TypeCorrect`: `Spec => []TypeOK`.
- `HeardAsSent`: `Spec => []HeardOnceInOrder`.  The invariant says that the numbers of
  events grow from what an application heard over its channel to the looper, and
  that `CallModule` subscribes as often as `initSipModule` found nobody listening to
  calls (`unheard`): what is heard next is new, and heard that often.

`LifecycleProofs`, for any file of the installation, any processes, engines, faults
and signals:

- `TypeCorrect`: `Spec => []TypeOK`, among it that the loop's queue never holds more
  stops than engines detached.
- `AllIsClosed`: `Spec => []NothingLeftOpen`.  The script of the baresip thread is
  always the rest, from some operation on, of `baresipStart`, of what follows its
  label `out`, or of `stopped()`, and the place bounds what is open: what comes
  before it in the first, what is still to be closed in the second, nothing in
  the third (`ReInv`).  It comes down to each part having an operation that
  closes it (`PartsAround`).
- `BaresipStartsOnce`: `Spec => []StartsOnce`.  Until the constructor of `SipManager` has
  started the thread, and only then, there is no such thread and nothing open
  (`OnceInv`); the constructor runs only where there is no manager yet.
- `RewriteKeeps`: whatever text `Config.initialize` finds, the one it writes has the
  same settings: the listed modules, each variable or its default, the variables that
  are optional, the name servers.  `config.static` must set none of them
  (`StaticAssumption`, true of the asset, and evaluated by TLC on a part of it), and
  keys and values are from any set that has what it writes (`WordsAssumption`).  Texts
  have any length, and the variables are found by a recursion over their lines
  (`Among`), so this needs induction; see below.  From `AmongConcat`, that what is
  taken of two texts in a row is what is taken of each, follows what is taken of the
  fifteen parts of the new text (`PartsJoined`), of which one sets each variable
  (`PartsSet`).
- `ChosenSettingsStay`: `Spec => []SettingsStay`, for any file of the installation.
  `FileInv` says that what the file says, or what is about to be written to it, are the
  settings of the installation: `RewriteKeeps` gives the step of `Initialize`, and the
  rest is that no kill, no uncaught exception and no number of restarts comes between
  a start and the settings, unless a save was cut short or failed half way (a file
  that cannot be opened for writing stays as it is): the exception of
  `unregister` on baresip's thread can not, since that thread does not run during a
  save.

`NetworkProofs`, for any networks, finitely many, anything that they may be (a network
that is there differs from one that is not, `OffersAssumption`), any hot spots,
families, refusals and limits, any number of changes, in the modes `alone` and `calm`
(`ModesAssumption`; "What does not hold" says why not two updaters at once):

- `TypeCorrect`: `Spec => []TypeOK`, and `ActiveServersComeFirst`:
  `Spec => []ActiveServersFirst`, without further hypotheses.  The invariant is `Basis`.
  Its `Control` says that one update at a time is under way and which rest of
  `updateNetwork` it has still to do; `StartInv` that none begins before `start()` is
  over; `KnownInv` that every network that is there is in `allNetworks`, or a callback
  that brings it is still to come, with none after it that takes it out; `DnsState`
  that baresip has the first of the servers remembered, and that these are those of
  the networks, or were refused, once there was an update (`updated`), no callback
  waits and the update under way has passed its servers on.  That the servers of the
  active network begin the list, however many networks follow (`ServersBegin`), is an
  induction over `allNetworks`.
- `WifiLockIsFollowed`: `Spec => []WifiLockFollows`.  `LockInv`: once nothing waits, an
  update decides for the network that is active, and what it decided stays until the
  next one.
- `AddressesAreFollowed`: `Spec => []AddressesFollow`, and `TransportsAreFollowed`:
  `Spec => []TransportsFollow`, assuming that a hot spot has none of the addresses a
  network may have (`HotSpotApart`; with a common one they fail, see "What does not
  hold").  At rest these say that baresip has what the phone has, once there was an
  update, and transports for what it has.  That is not inductive, since an update
  reads the addresses once and acts on them step by step, while networks go on
  changing.  `AddrInv` says for each moment what baresip lacks, or has too much, and
  who will see to it: an update that is in the middle of adding (`Adding`), of removing
  (`Removing`) or about to decide (`Deciding`) with what is left in its script, or one
  that is due because a callback, a receiver or a timer is still to come (`Due`,
  `Settling`); and `Opening` what baresip has while `start()` and its thread open it.
  `Settled` draws the conclusion: where no update is due, nothing is missing and
  nothing too much.

*Induction.*  The library's induction theorems take an operator, which these provers
cannot instantiate.  What they take is a set: by `LeastNat` (the library's
well-foundedness of the natural numbers, for one relation) a set of natural numbers
has a least one, so that a set with 0 and with every successor is all of them
(`Induct`).  `Recursion` gives by it the functions which `Add`, `ServersOf` and `Among`
define recursively, and the lemmas after it go through them step by step.  This
takes recursive functions over sequences, in place of the library's `SelectSeq`, which
stays opaque to the prover.

**Only model-checked.**  The liveness properties (`ProgressResolves`, `EndComesThrough` of iOS,
`CallsReturn`, `StopIsHeard`, `DueArrives`): the prover has no rule for fairness and
`ENABLED`.  Every other property of the runs is proved, under the hypotheses named.

## Not modelled

- *Speaker.*  `setSpeaker` waits for Android's communication device, whose timing
  is not in this code.  The source shows that each toggle adds a listener, which may
  reply twice, and that a toggle with another device never replies.
- *`toggleMic`* and the *method replies*: each method returns its result at once,
  but `refreshSipAccount`, and `call` without an account, never do.
- *The call volume*, in part: `Media` has its saving and restoring, but no property
  is about it, since it is not restored after a busy tone without a player, and a
  second answer saves the raised volume.
- *The Java sets* `calls` and `allNetworks`, iterated on one thread and changed on
  another: an iteration is one step here.
- *`sprintf` of the STUN uri* (`baresip.c`): the length of an uri is within its
  buffer here.
- *Bridge functions before the start and after the close* of baresip: what they do
  to null pointers is undefined.
- *Message upcalls* call methods that `SipManager` does not have (`messageEvent`,
  `messageResponse`); `Bridge` has their texts, nobody hears them.
- *iOS*: start and stop of baresip's thread, microphone and speaker.  The account and
  calls are in `IosClient`.
- *Account settings* that have only a setter or only a getter.
- *A hot restart of Dart*, which keeps the native side's subscription.
- *`src/distribution`* holds the headers and the binaries of baresip, re and
  OpenSSL: declarations without code.  What they do is modelled where it is used,
  and marked external.  These headers are most of the lines of the repository, so
  the share of lines that the modules cover stays small.
- *Generated code, the example application, resources.*

## Plan

What is left, in order:

1. The speaker, on the model of Android's audio mode that it needs, and the method
   replies with it: each call of a method answered exactly once, and which are not.
2. `Network` composed with `Registration`: a reset of the transports registers
   every account again.
