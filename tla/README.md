# claude-dial, specified

TLA+ models, TLC runs and TLAPS proofs of claude-dial: a knob with a round
screen that shows what the Claude Code sessions of a machine are doing and lets
their user allow or reject tool calls. Paths below are relative to `src/`.

Contents: [the system](#the-system) · [components](#components) ·
[modules and code](#modules-and-code) · [runs](#runs) · [fairness](#fairness) ·
[proofs](#proofs) · [disagreements](#where-code-and-words-disagree) ·
[not modelled](#not-modelled) · [plan](#plan)

## The system

    Claude Code ── hooks (HTTP) ──▶ daemon ── BLE ──▶ dial (ESP32 firmware)
        ▲                          │  ▲                  │
        └──── allow/deny/ask ──────┘  └──── decision ────┘

Two programs. The **bridge** (`bridge/`, Go) is a daemon that receives Claude
Code's hooks over local HTTP, keeps a roster of sessions, and sends it to every
attached device. A `PreToolUse` hook that needs a permission is held open until
the user answers on a device, until the request times out (90 s), or until there
is no device to ask; in the last two cases the answer is "ask" and the terminal
takes over (the *golden rule*: the dial never blocks anyone). The **dial**
(`firmware/claude-dial/src/main.cpp`, C++) is one loop over a table of sessions,
a FIFO of prompts and a screen; the BLE stack calls into it from another task.

## Components

| component | state it keeps | operations | what makes it hard | what makes it correct |
|---|---|---|---|---|
| session store, `session/store.go` | sessions by id, insertion order, last update | Upsert, Touch, TouchLiveness, SetState, Remove, Sweep, List | hooks of several sessions and a ticker; hooks stop without notice; map and list kept apart | both agree; rows keep their order; a cue goes out in time and only for a reason; silent sessions are forgotten |
| rules, `rules/rules.go` | grants in memory; a JSON file | IsAllowed, Allow, Forget, save, load | crashes and failures inside save | what was saved is never lost; matching does what the user was told |
| approval loop, `daemon/hooks.go`, `router.go` | one goroutine per request, the router's waiters, the channels | handlePreToolUse, handleEvent, register/deliver/cancel, dispatch | everything between two locks: other requests of the session, SessionEnd, timeouts, disconnects | every call gets one answer, from its own session's user or the terminal; grants only from "always allow"; no prompt without its request |
| daemon loop, `daemon/daemon.go` | none of its own | sweep ticker, broadcast | a snapshot handed over without a lock | the last view wins in the end |
| BLE transport, `ble/ble.go` | pending view, the view the dial confirmed, the link, the status and request channels | Update, run, setup, flush, setConnected, onNotify, onOtaStatus | reconnects between write and record, acknowledgements that are lost | what was recorded is on the dial; the dial converges to the roster |
| firmware update, `daemon/hooks.go`, `ota/ota.go`, `firmware/firmware.go` | the guard, the manifest, the progress of an image | runFirmwareUpdate, Flash, Refresh, DownloadLatest, Newer | two callers, statuses of earlier attempts, a manifest that moves, a dial that reboots | one update at a time; success means installed; nothing newer than the bridge; every update ends |
| dial firmware, `main.cpp` | session table, prompt FIFO, slot, screen, grace window, receive queue, update flags | handleRxMessage, loop, gestures, timers, callbacks | stale entries in the FIFO, timers against messages, another task writing `appState` | no prompt lost, each gets its turn, only what was picked is sent, a prompt keeps the screen |
| update offers, `daemon/hooks.go`, `ble/ble.go` | the offer recorded as made, the offer the dial holds, a confirmation in a channel | advertiseUpdate, SetUpdateAvailable, consumeOTARequests | a write that is lost, restarts of either end, releases published at any time | an offer that stands reaches the dial; what a confirmation installs has passed the checks |
| roster order and labels, `daemon/daemon.go`, `main.cpp` | the store's order, the dial's slots | prioritize, disambiguate, the dial's insertion sort | two sorts on two sides, and a map ranged over between them | rows stay put; both sides list the same tiers; labels tell sessions apart |
| version comparison, `firmware.go` | none (pure) | Newer, compare, bridgeCanFlash | missing fields, "v" prefixes | a strict order |
| usage meter, `usage/usage.go` | the last Stats | Refresh, collect, peak5h | files that are appended to while they are read, the skip by mtime, window edges | what was there is counted, once; what is old is not; the peak is the peak |
| hook installer, `hooks/install.go` | settings file, backup | Install, Uninstall | runs that end half-way, edits in between, modes, pasted and old hooks | the user's hooks are never lost; only the last run counts |
| fan-out and simulator, `daemon/fanout.go`, `web/web.go` | the clients' channels, the last frame, the merged channel of answers | Update, serveEvents, serveDecision, Decisions | clients that fall behind, come and go; one goroutine per device into one channel | who stays catches up; the answers of a device stay in order |
| text of commands, `daemon/hooks.go`, `ble/ble.go`, `main.cpp` | grants and messages made of it | extractCommand, truncate, the receive buffer | three limits, applied in turn, to different encodings | a grant covers what was granted; a prompt fits |
| command line, service units, USB flashing | files | parsing, launchd, esptool | outside programs | not modelled |

Interactions: hooks reach the store, the rules and the router through the
handlers of `daemon/hooks.go`, each of which takes and releases one lock after
another; the store's snapshot goes to the devices through `broadcast`; a device
answers through a channel read by `dispatch`, which looks the waiter up in the
router and sends without its lock; the sweeper shares only the store. On the
dial, the BLE task shares the receive queue (safely) and the screen and update
flags (not safely) with the loop.

## Modules and code

| module | models | extends or uses |
|---|---|---|
| `Protocol` | states, answers, `mapDecision` | |
| `Roster` | abstract: a cell per session, with decay for time | `Protocol` |
| `SessionStore` | `session.Store` and its clock | implements `Roster` |
| `SessionSweep` | the loop of `Sweep`, entry by entry | implements `SessionStore`'s one-step `Sweep` |
| `Grants` | what a grant covers | `Protocol` |
| `Rules` | grants in memory and file | `Grants` |
| `CommandText` | the text of a command: cuts, grants, size on the wire | |
| `Approval` | abstract: what is promised about approvals | `Grants` |
| `Bridge` | requests ∥ router ∥ hooks ∥ sweeper ∥ dispatch ∥ device | `Roster`, `Grants`; implements `Approval` |
| `Dial` | the firmware's loop ∥ BLE task | |
| `BleLink` | broadcasts ∥ writer ∥ connection ∥ the dial's queue and table | |
| `Versions` | `Newer`, `bridgeCanFlash` | |
| `Ota` | two updaters ∥ checker ∥ link ∥ the dial's update half | `Versions` |
| `UpdateOffer` | sweep ∥ link ∥ dial and user: how an update comes to be offered | `Versions` |
| `Journey` | handler ∥ router ∥ writer ∥ dial ∥ user, one session end to end | |
| `RosterView` | the order and the labels of the roster, on both screens | |
| `AnswerStream` | abstract: what is promised about the answers of several devices | |
| `Fanout` | the hub and its browsers ∥ ticker and handlers ∥ a goroutine per device | implements `AnswerStream` |
| `HookSettings` | runs of `hooks install` and `uninstall` ∥ the user's editor | |
| `Usage` | the scanner ∥ the programs that write the transcripts | |
| `MC…` | instances for TLC | |
| `…Proofs` | theorems: `RecordsProofs` about `Rules` and `BleLink`, `UpdateOfferProofs` about `Journey` too, `FanoutProofs` about `RosterView` and `CommandText` too, `OtaProofs` about `Versions` too, `ClaudeFilesProofs` about `HookSettings` and `Usage`, each other one about the module it is named for | their modules, `TLAPS` |

**SessionStore.** `byID` and `order` are the fields of the same names. A
timestamp is kept as an age, since only differences are compared; `Tick` ages
everything. Every operation holds the mutex throughout, so it is one action.
`Hook(s)` is any operation a handler performs on session `s`. `SessionSweep`
opens up the one operation that is a loop over the slice it shrinks: `at` is the
loop index, and while it is not 0 the mutex is held, so nothing else moves. The
run explores `SessionSweep` beside all hooks and the clock, and checks every
property of the store there. Its refinement mapping says what the loop will leave:
`Outcome` of the map, `Survivors` of the list.

**Rules.** A command is the sequence of its words, which is what `tokenPrefix`
compares. `save` is two steps, the temporary file and the rename, either of
which may fail; `Crash` is possible anywhere, and in the middle of a write
leaves it torn. `word`, `kept` and `stale` are history: what the user granted,
what of it a save has put on disk, and whether the last save failed.

**Bridge.** `pc[r]` is where the goroutine of request `r` stands in
`handlePreToolUse`, cut at every lock: rule lookup, prompt, connectivity probe,
router registration, select, grant, settle, deferred cancel. `chan[r]` is its
channel of capacity 1. The router's `deliver` is two steps, since it sends after
unlocking. A store operation is taken with the broadcast that follows it; the
device shows it at some later `Render`, or never. `SessionEnd` is two steps
(store, then grants). `shown` is what the device displays and the user answers;
`about` in a decision is history: the call that was on the screen.

**Dial.** A round of `loop()` is the phases `drain` (messages), `finish` (a
completed image), `link` (the connection check), `input`, `timers`, `draw`.
Between any two, and between two messages, the BLE task's callbacks run. A round
takes at most one gesture; gestures that come together are consecutive rounds
with empty drains. `currentPermSid` and `permQueue` are the slot and the FIFO;
`picked` is history: the choice pressed on the prompt in the slot and not
undone. A list press may hit any entry, as the user may have turned to it.
`CheckLink` reads `bleConnected` once; the loop reads it again at `:1754`, and
what a drop between the two reads does is in `BleLink`, which has them apart.

**BleLink.** `pending` is the channel of capacity 1 whose content a newer
snapshot replaces; `todo`, `cur` and `landed` are the flush in progress, cut
between each write and its record; `last` is the field of the same name; `conn`
is `hasRX` and `connected` together. Its specification is `LinkSpec`, of
`LinkInit` and `LinkNext`. A round of the dial's loop is the phases `drain`
(the queue), `check` (the first look at the link, which may clear the table) and
`note` (the second, which is remembered), and the link may change at any point
between. At the end of a round the dial may change a row by itself: `Settle` is
what `commitDecision` and the prompt's timeout do to it, while `last` stays what
it was. `prompted` are the sessions whose prompt the dial has, on the screen or
waiting; a choice in its grace window belongs to one of them. `OnWrite` drops a
message that finds the queue full or that outgrew the buffer (`TooLong`), and
the write is acknowledged in both cases. Two history variables say what the two
sides may disagree about: `settled` has the sessions whose row the dial has
changed by itself since it last heard of them, where `last` stands for the view
it was changed from; `mislaid` has those about which the two may rightly
disagree until the next write, each for a reason the comment above
`LastIsOnTheDial` names.

**Ota.** `at[u]` is where caller `u` (the command line, or the dial's own prompt)
stands in `runFirmwareUpdate` and `Flash`; every write is a step, and the
firmware's callback runs within it, since a write waits for its response. A
write that fails may have run the callback. Notifications travel in `air`, are
lost with the link, and are dropped by a full `status`. `slot` remembers for each
part which image it is from: an image verifies if it is whole and of one piece.
The manifest may change at any time, also between the check and the download,
and the drain leaves what is still in `air`. `plain` is history: the update under
way has met with neither.

**UpdateOffer.** `at` is where the sweep is in `advertiseUpdate`: it works out
what to offer, then records it (`otaAdvertised`), then writes it, and anything
may happen in between. `capable` and `firmware` are the bridge's view of the
link and of the dial's version; `link` and `running` are the truth. `rx` is the
one offer that may be on its way into the dial's loop. A confirmation is consumed
in four steps: `Check` (or `Refuse`), `DownloadLatest`, which reads the manifest
again, `Install`, the transfer, which `Ota` has write by write, and `Fail` at any
point; `checked` and `image` are the versions of the first two. `steady` is
history: neither the manifest nor the link has changed since the check.

**Journey.** `Bridge`, `BleLink` and `Dial` each take one part to pieces; here
the parts are put together with steps as large as each allows, to ask whether
they fit. A call takes any exit of `handlePreToolUse`: it is allowed already
(`Pass`), finds no dial (`NoDevice`), is answered (`Deliver`), times out
(`TimeOut`) or its client gives up (`GiveUp`), the last two whenever they like,
since the three limits are equal (`main.cpp:152`, `daemon.go:108`,
`install.go:45`). Its command is carried all the way: from the store through
`pending`, `last` and `rxQueue` to the dial's `row`, and back as history
(`about`) with the answer. `DisplayEqual` is the comparison by which the writer
leaves a view out. The sweeper's snapshot is taken and handed over in two steps
(`Take`, `HandOver`), so that it may be stale; a link that is lost takes along
what both sides had of each other. `serial` is history: the calls of the session
come one at a time, each after the answer to the one before. A series is broken
by a timeout, a client that gives up, a call that comes while another waits, a
drop while one waits, and a stale snapshot handed over; it begins again with the
first call that finds nothing of an earlier one on its way (`WayIsClear`).
`AnswersWhatWasShown` is about the calls of a series. The other hooks of a session
(`PostToolUse`, `Stop`) are left out here; `Bridge` has them.

**RosterView.** `SortedRows` is an insertion sort, written as the dial has it: each
row goes where the inner loop stops (`Place`). `DialRows` are the slots in use so
sorted, and `Prioritize` the store's list, since the daemon's sort is stable and
any two stable sorts agree. `Slot` is where a session gets its place. `Send` may
take any session that differs, because `flush` ranges over a map; `Drop` takes the
session out of the list where it stands, as `Remove` and `Sweep` do. `Label` is
`disambiguate`, an id being known by its first three characters.

**Fanout.** The snapshots go from `store` through `held` (a handler between
`store.Snapshot` and the hub's lock) and `frames` (a channel per browser) to
`page`; `greet` is the copy of `last` a new browser is sent first. The answers go from
`posted` (a device's channel) through `inHand` (the goroutine of `NewFanout`)
and `merged` to `heard`. The two halves share no state; `Next` is `FrameNext` or
`AnswerNext`, and the run shows one at a time.

**HookSettings.** An event's content is a bag of groups, a group a set of hooks.
A run reads (`Start`), copies (`Backup`) and writes (`Write`); each may be cut,
and the run killed between them. `mine` is history, what the user last had;
`astray` marks the two cases no run that reads, copies and writes in place can
avoid, which the comment above `UsersHooksSurvive` names. Reading and computing
are one step: an edit in between changes nothing a run sees.

**Usage.** A transcript is a sequence of lines with ages, and perhaps a line
that is on disk in part. A scan takes file after file while the programs that
write them go on; `scan.new` is history, how many lines are newer than the scan.
`Peak5h` is the two-pointer loop as a recursive function, `Keeping` the filter of
`collect`. `Sorted` is some order by time: `sort.Slice` is not stable, and nothing
shown depends on which.

**CommandText.** A text is the sequence of its bytes, and the limits are those of
the code (180, 140, 480): the instance has texts about each limit, of one word
or with a blank before the cut, and of characters that JSON writes in six bytes.

Operators with a comment *With a bug* or *Variants … with a bug* stand beside
the definition they vary. No specification uses them: putting one in its
definition's place makes the named property fail, which shows that the property
depends on that line of the code. `PROJECT.json` lists each pair.

## Runs

`tlc -config X.cfg M` in this directory; each takes less than four minutes with
two workers.

| run (`.cfg`, module) | question | bounds, and why they are enough |
|---|---|---|
| `SessionStore`, `MCSessionStore` | is the loop that deletes under its own feet one sweep? does the store stay consistent, expire what it must and only that, and implement `Roster`? | 2 sessions (the properties relate two at most); limits 1 < 2 < 3 < 4 with a sweep every 2, so that each limit can be crossed without the next and a sweep can come late by one; two entries suffice for a loop that skips the one after a deleted one |
| `Records`, `MCRecords` | grants: do they survive failures and crashes, and match what they say? the link: is what the writer recorded what the dial shows, or has made of it? | 2 sessions (no leak across); 3 calls: a Bash command, its empty case and another tool; every state of both files. 2 sessions on the link, one that asks and one that asks with a message too long, so that a flush has writes that fail beside others that land; a queue of 1, so that it drops; any number of reconnects; no handler beside the sweeper, since the property asks nothing of the store |
| `Bridge`, `MCBridge` | what can two racing requests of one session do to the router, what can leave a prompt without its request, and is every settlement one `Approval` allows? | 2 requests whose clients may give up, 1 session, `always_allow` and `reject` (the answers with different effects), SessionEnd, one decision in flight beside one in the dispatcher's hand and one per channel |
| `BridgeLive`, `MCBridge` | does every call get its answer, whatever else happens to its session? | all kinds of session events and clients that give up, one kind of answer (which one does not matter to liveness) |
| `Dial`, `MCDial` | are prompts kept, does each get its turn, is what is sent what was picked? | 3 sessions for 2 places: a full table, a full queue and a prompt refused; a receive queue of 1, so that it drops |
| `DialScreens`, `MCDial` | do queue and slot stay sound through every screen, offers and images, and what can take the screen from a prompt? | 1 session, every screen held, so menus, offers and updates cross a prompt |
| `Ota`, `MCOta` | can updates overlap, end well without being installed, install something newer than the bridge, or never end? | 2 callers; a release equal to the bridge in other words (0.5.0 for 0.5), which is an upgrade for the dial, and one ahead of it, between which the manifest changes at any time; images of 2 parts, which can be cut or mixed; one status in the air and one received, so that they come late and are dropped |
| `BleLink`, `MCBleLink` | does the dial catch up? | 1 session (`flush` treats each by itself), which works and asks; the sweeper and a handler it overtakes; a queue of 1 |
| `ClaudeFiles`, `MCClaudeFiles` | settings: do the user's hooks survive runs that end anywhere, and is each event left with one group of ours or none? transcripts: is what was spent in the gauge, once, and the peak the heaviest window? | an event that depends on the mode and one that does not; groups of ours, of the user, and of an old installation, each at most once; edits at any time. 2 transcripts of 2 lines, a window of 1 and a history of 2 scans: a line crosses both limits, and a file can be skipped while another is read |
| `Devices`, `MCDevices` | frames: does who watches follow the hub? answers: do the channels keep `AnswerStream`? rows: do they stay put? texts: do short calls pass only as meant? | 2 browsers, 2 views, a handler beside the ticker, 2 frames of room; 2 devices with 4 answers each for channels of 2, so that each overflows while another answer is under way; 3 sessions, 3 states of 2 tiers, 3 slots, since an insertion sort goes wrong with 3 rows at the latest; commands about each limit of the code, 2 grants |
| `UpdateOffer`, `MCUpdateOffer` | offers: are they flashable, do they reach the dial, and is what a confirmation installs what passed the checks? calls: is each of a series answered as it was shown, and does each come to the screen or have its answer? | 3 releases (older than the bridge, equal to it, ahead of it) over an older factory firmware, published and withdrawn at any time. 1 request at a time, which leaves when it likes, 2 commands in turn, so that a dropped snapshot has a predecessor and a successor; one message in flight each way, beside those in the writer's, the sweeper's and the dial's hands |
| `BridgeLateAnswer`, `MCBridge` | the first disagreement below | one request, two commands |

`Records`, `ClaudeFiles`, `Devices` and `UpdateOffer` each check modules that share no state.
Their `MC` module extends or instantiates each of them, a variable `view`
says which of them a behaviour shows, and the fairness is of the view shown; so
nothing is multiplied, and what is checked is what a run of each module by
itself would check. In the view of the answers the hub's ticker goes on: the
answers of the instance end, and nothing else would be left to do.

What the bounds leave out. `Dial` explores holds anywhere but on prompts
(`NotOnPrompts`), because a prompt that was left by holding blocks those behind
it, which `PromptsGetTheirTurn` then never sees shown (see below);
`DialScreens` has them everywhere. `UpdateOffer` has `Lossy = FALSE` (a write
lands while the link is up) and `Repeats = FALSE` (no call wants just what the one
before it wanted): each of these constants stands for a disagreement below.
Parallel calls and more messages in flight make `Journey` too large for its
liveness to be checked; the theorem `AnswersMeetTheirCall` has any number of
both, and calls that repeat each other. The runs of `Bridge` have one session;
that answers do not cross from one session to another is a theorem
(`AnswersReachTheirSession`).
Symmetry is used only for safety, over sets of ids that no constant singles
out. Deadlock is checked in every run.

The properties, by hazard: consistency of two structures (`OrderListsStore`,
`QueueIsSound`, `WaitersAreLive`); memory against disk (`FileTracksMemory`,
`KeptGrantsAreRemembered`, `FileLosesOnlyTheForgotten`, `UsersHooksSurvive`);
answers against requests (`KeepsApprovalPromise`, `OnlyGivingUpOrphans`,
`SendsWhatWasPicked`, `AnswersWhatWasShown`, `AnswersArriveInOrder`); nothing
lost (`NoPromptLost`, `PromptsTakeOver`); matching (`GrantedCallsPass`, over
every join of two commands; `ShortCallsAreMeant`); time (`CuesExpire`,
`CueGoesOutForAReason`, `GaugeCounts`, `PeakIsHeaviest`); what a step may not
disturb (`RowsStayPut`, `OneGroupOfOurs`); progress (`SilentSessionIsForgotten`,
`GoldenRule`, `PromptsGetTheirTurn`, `UpdatesEnd`, `DialCatchesUp`,
`PagesCatchUp`, `OffersReachTheDial`, `CallsComeToTheDial`); two sides of a link
(`LastIsOnTheDial`, `SuccessIsInstalled`, `OneUpdateAtATime`,
`NeverNewerThanBridge`, `OffersAreFlashable`, `InstallsWhatWasChecked`,
`ClientsFollowHub`); refinement
(`KeepsRosterPromise`, `LoopIsOneSweep`, `KeepsApprovalPromise`,
`AnswersArriveInOrder`). Each is stated in words above its definition.

The type invariants of all modules are theorems; those of `Fanout`, `RosterView`
and `CommandText` are in a run, too (`TypesOK`).

Some properties name what they do not hold through, because the code does not
ensure it and [below](#where-code-and-words-disagree) is what it does then. Each
says that nothing else does this: `OnlyGivingUpOrphans` (a client that gives
up), `PromptsTakeOver` (a hold, an offer, an update), `SendsWhatWasPicked` (an
update that fails), `NeverNewerThanBridge` (a second read of the manifest that
finds another version). Others have a history variable that says of which
behaviours they speak: `SuccessIsInstalled` (`plain`), `InstallsWhatWasChecked`
(`steady`), `AnswersWhatWasShown` (`serial`), `LastIsOnTheDial` (`mislaid`,
`settled`), `UsersHooksSurvive` (`astray`).

`Approval` is what a user is told: a call that asks is settled once, by a
standing grant, by an answer given for its session and used for nothing else, or
by falling back to the terminal. `Bridge` maps to it by counting the answers in
flight, in the dispatcher's hand and in channels as given and not yet used.
`AnswerStream` is what the daemon may expect of its devices together: each answer
once or never, those of a device in order. `Fanout` maps to it by taking an
answer as waiting wherever it is, in a channel or in a goroutine's hand.

## Fairness

* `SessionStore` (in `LoopFairSpec`): the clock goes on and a sweep that has
  begun comes to its end (weak fairness of `Between(Tick)` and `SweepStep`);
  hooks have none, and `SilentSessionIsForgotten` is about them stopping. `Tick`
  waits for a due sweep: the ticker's delay is negligible beside limits of
  minutes.
* `Bridge`: each request's goroutine goes on (weak fairness of `Step(r)`), its
  timeout included, since the context is cancelled by a timer. Nothing is
  assumed of the device, the user, the dispatcher or other sessions, which is
  the point of the golden rule.
* `Dial`: the loop goes round (weak fairness of `Round`). `Drained` is strongly
  fair: a round handles messages faster than a link at its interval delivers
  them, so the drain comes to an end. `CommitDecision` and `PermTimeOut` are
  strongly fair: `millis()` passes their deadline while the screen that waits
  for it keeps coming back; each comparison is made once in every round. Nothing
  is assumed of the user or of the link.
* `Ota`: each caller's goroutine goes on (weak fairness of `Step(u)`, deadlines
  included). Nothing is assumed of the dial or the link.
* `BleLink`: the ticker, the handlers, the writer, `run` and the dial's loop go on.
  `Write` is strongly fair: on a link that stays up, a write that is tried again
  at every tick is acknowledged at last. `DialCatchesUp` asks for a link that
  stays up and a store that stays as it is, and promises nothing otherwise; of a row the
  dial has changed by itself it asks that the store's view was delivered.
* `Fanout`: the ticker ticks, a handler that holds a snapshot hands it over, and a
  browser that stays reads on (weak fairness of `Tick`, `HandOver`, `Greet`,
  `Push`). `PagesCatchUp` asks for a browser that stays and a store that stays as
  it is.
* `UpdateOffer`: the sweep goes on, the dial's loop handles what it has received,
  and a dial that has subscribed says who it is (weak fairness of `Sweep`,
  `HandleOffer`, `Hello`). `OffersReachTheDial` asks for a link that stays up.
* `Journey`: the sweeper takes its snapshots and hands them over, the writer, the
  dial's drain and the dispatcher go on (weak fairness of `Take`, `HandOver`,
  `Flush`, `Handle`, `Deliver`), and the dial's two deadlines pass as in `Dial`
  (strong fairness of `CommitDecision` and `PermTimeOut`). `CallsComeToTheDial`
  asks for a link that stays up. Neither timeout of the daemon nor of the client
  is relied upon.
* `HookSettings`, `Usage`, `RosterView`, `CommandText`: none, and no liveness.

## Proofs

`tlapm M.tla` for the eight proof modules. The theorems hold for every value of
the constants that meets the modules' named assumptions: `StoreAssumption`
(limits positive, as `daemon.New` makes them; finitely many ids),
`RosterAssumption`, `BridgeAssumption` (finitely many
requests, so that the answers given and not yet used can be counted),
`DialAssumption`, `BleAssumption`, `OtaAssumption` (sizes at least 1, reserved
values not ids, versions sequences of numbers), `OfferAssumption`,
`CallsAssumption`, `HookAssumption` (the groups of ours are groups, their hooks
ours), `GaugeAssumption` (finitely many transcripts, so that their tokens can be
added up; a window no longer than the history, as the constants of `usage.go`
are), `FanoutAssumption`, `RowsAssumption`, `TextsAssumption`. TLC evaluates
these assumptions in the runs.

| theorem | says | argument |
|---|---|---|
| `StoreTypeOK`, `OrderAgreesWithMap` | types; list and map agree | `Shape`, inductive by itself; `RetainKeeps` and `PutKeeps` say what the two ways of changing the list preserve |
| `CuesDoExpire` | no cue outlives limit + period | not inductive: needs that an age never exceeds limit + time since the sweep (`CueAge`), which a sweep restores and a tick keeps |
| `RowsDoKeepTheirOrder` | rows never change places | action property from `Shape`: every operation appends or retains |
| `StoreIsARoster` | `SessionStore` implements `Roster` | each operation by the cell it leaves (`View`): an upsert puts one, a sweep decays some, a tick changes none |
| `LoopOrderAgrees`, `LoopCuesExpire`, `CuesGoOutForAReason`, `LoopIsARoster` | the same with the sweep entry by entry; a cue goes out for a reason | `LoopShape` adds where the index may stand, and that what it has passed is neither dead nor stale, from which `CueAge` follows anew when the sweep ends |
| `LoopHasOneEffect` | the loop is one sweep | every step before the last leaves `Outcome` and `Survivors` as they are, the first step sets them to what the sweep leaves. A list is known by what it holds and what precedes what (`SameRows`), and any of its ids can be picked out in order (`PicksExist`) |
| `RulesTypeOK`, `FileFollowsMemory`, `KeptGrantsSurvive`, `FileKeepsTheRest` | the rules file | `IInv` adds what the temporary file holds between the two halves of save, and that what was kept is in the file |
| `GrantsMatchAsTold` | a granted call passes with any words added to it, and no other | `CoversRepeats`: the comparison word by word, over every join of two commands |
| `LinkTypesOK`, `DeliveredIsOnTheDial` | types; what was recorded is on the dial, or what the dial has made of it | `Truth` needs `Clear`: while the dial has a link and the writer not yet, the dial shows nothing that is not mislaid, and setup starts from there. `Own` says what rows the dial has changed by itself look like; a row it changes again stands for the same view (`SettleStands`). `WriteStands` and its like say how a queue changes what will be shown |
| `BridgeTypeOK` | types | `Shape` adds that a request past "idle" has a job |
| `WaitersStayLive`, `AnswersReachTheirSession` | the router | `Routed`: both together with where a request may stand while it is known to the router, a channel or the dispatcher |
| `PromptsKeepTheirAskers` | only a client that gives up leaves a prompt without its request | the types and where each goroutine stands; every other exit of a request takes the prompt down in the step in which it leaves |
| `BridgeKeepsPromise` | `Bridge` implements `Approval` | `Progress` adds which verdict a request has at each place. An answer is counted where it is (`Unused`): it moves from flight to hand to channel without being counted twice, and leaves when it is taken or lost |
| `DialTypeOK`, `QueueStaysSound`, `PromptsAreKept` | FIFO, slot and table | `Sound` joins the three: that no prompt is lost when the queue is full follows only because its entries are distinct members of a table of the same size (`QueueFits`, a pigeonhole argument), and distinctness only because entries leave with their session |
| `SentAsPicked` | what is sent is what was picked, as long as the grace screen is the prompt's own | one step at a time: every input that changes slot, screen or choice keeps them together, but for an update that fails, which brings back a screen of before; `SentIsSpent` says when there is something to send |
| `PromptsHaveTheScreen` | prompts take the screen, and only a hold, an offer or an update takes it from them | off the prompt's screens the slot and the queue are empty, and then no session asks (`NoPromptLost`); each of the loop's steps keeps that or is one of those named |
| `OtaTypeOK`, `UpdatesDoNotOverlap` | types; one update at a time | `OtaInv` adds that how far a caller is tells how much it has sent, and that it has an image once it sends; whoever leaves was the only one, so the guard is right to fall |
| `FlashedIsNeverNewer` | nothing newer than the bridge is installed, but through a second read of the manifest | `GatesPass`: what was checked may be flashed; downloaded, sent and written is what was checked as long as no download has read something else |
| `WellEndedIsInstalled` | success means installed, for plain updates | `Owned`, while `plain`: what is queued or on its way when the one caller that flashes comes to a wait. No "ready" is there when it begins, no "done" after a "ready" or while it streams; so every part in the slot is of its image, and a "done" says that this image starts next |
| `NewerIsAStrictOrder` | `Newer` is irreflexive, asymmetric, transitive | the first fields that differ, compared by their places |
| `OfferTypeOK`, `OfferedIsFlashable` | types; the dial offers nothing newer than the bridge | `OnlyFlashable`: an offer is flashable from the moment it is worked out, on its way, and on the dial, whatever is published in between, since the bridge's own version does not change |
| `InstallsAreUpgrades` | whatever confirmation is consumed, and however late, what is installed is newer than what runs and no newer than the bridge, if neither manifest nor link change after the checks | `ChecksStand`: while `steady`, what was downloaded is what was checked, and the comparison still holds of the version that runs, because the version announced is that one while its link is up (`AnnouncedRuns`) |
| `AskTypesOK`, `AnswersMeetTheirCall` | types; a call of a series is answered as it was shown, for any number of requests | `Course`, while `serial`: either nobody waits and no prompt is anywhere on its way (`Rests`), or the call that waits is not sent yet, on its way, on the screen, or answered, and in each case no other prompt and no other answer is anywhere. `WayIsClear` is what a new series finds |
| `HookTypeOK`, `HooksSurvive` | types; the user's hooks are in file or backup | `IInv` adds that only a whole file has groups, that what a run will write is the result of some content (of nothing, if it found no text), and that a copy that was made is one of the user's version |
| `OnlyLastRunCounts`, `RunsLeaveOneGroup` | runs compose to the last; one group of ours or none | what `Installed` and `Uninstalled` do to one group of one event, for all of them |
| `FilesTypesOK` | types of settings and gauge | `FilesInv`, which is `IInv` and the invariant of the next row together |
| `GaugeIsTrue` | what was there when a scan began is in the gauge, and counted once | `GaugeInv`: there are numbers `got`, one of lines per transcript, such that the events found weigh what the first `got[f]` lines of each `f` do (`CountedOnce`): none of a file still to read, and all but the new ones of a file that was read. That needs that no line is younger than its file (`LinesOlder`), or the skip by mtime would lose some, and that a clock that drops a line drops none that still counts (`Timed`) |
| `PeakIsTrue` | the two pointers of `peak5h` find the heaviest window | over events in the order of time, the left pointer never has to go back, and the sum it carries is that of the events between the pointers, by induction on the right one; a window that ends at no event is no heavier than one that does; and sorting is a permutation, which changes no window's sum |
| `FanoutTypeOK`, `BrowsersFollowTheHub` | types; who has missed nothing will show what the hub was last told | `ScreenInv` adds that a browser that is not registered has nothing on its way |
| `FanoutKeepsPromise` | `Fanout` implements `AnswerStream` | `AnswerInv`: the answers of a device are in ascending order along channel, hand and merged channel, and the last heard is below them; each step is then a step of `AnswerStream` or changes nothing there |
| `ShortCallsPassAsMeant` | short calls pass only if a call that was granted begins them | a text that was cut is longer than any that was not (`CutLengths`), and what begins a text is no longer than it (`PrefixesAreShorter`): so a long grant, kept cut, begins no short call |
| `DevicesTypesOK` | types of frames, answers, rows and texts | `RowsInv` adds that the list has no id twice, which keeps its length that of its set when one is appended or taken out (`Longer`, `Shorter`); a session gets a slot only if it has none (`GivesSlot`) |
| `RowsAreSorted`, `RowsDoStayPut` | the insertion sort is one, and stable; rows stay put | each round keeps what is above sorted (`InsertSorts`), so that who is above whom follows from tiers and places alone (`ListedAbove`), and two lists that have their common ids in one order (`KeepsOrder`) differ only by tiers (`OrderIsKept`). The store's list is only appended to or shortened (`LongerKeeps`, `ShorterKeeps`), and no session leaves its slot for another (`SlotsKeep`) |

No theorem has a hypothesis beyond the named assumptions on constants. Where the
code does not keep what a reader would wish, the property says so itself: see
the list of exceptions under [runs](#runs).

Only model-checked: the liveness properties, which need fairness and `ENABLED`
(`SilentSessionIsForgotten`, `GoldenRule`, `PromptsGetTheirTurn`, `UpdatesEnd`,
`DialCatchesUp`, `PagesCatchUp`, `OffersReachTheDial`, `CallsComeToTheDial`). All
other properties of the passing runs are theorems.

How recursion is proved about. The library's induction theorems take an operator
as a parameter, which the provers cannot instantiate. A set of numbers has a
least element, though, and that is enough: a set with 0 and with every successor
holds all numbers (`LeastOf`, `InductionOn`, `CountsUp`), and finite sets follow
by their cardinality (`InductionOnSubsets`). A recursive function is
first shown to exist, up to each number in turn (`RowsToExists`), and then to be
what it should, round by round (`RowsAreSorted`); a fold is taken apart one
element at a time. For the same end `Survivors` is stated by the places
of the survivors rather than with `SelectSeq`, and the filter and the sorts of
`Usage` and `RosterView` without the library's.

## Where code and words disagree

The first is a run that ends in a counterexample. Each of the others can be
seen by a change to a run: the constants to set, and the property to check
alone. Where the property is in an instance of the `MC` module, add a
definition such as `P == Rows!SameOrder` there.

1. **An answer reaches a call it was not given for** (`BridgeLateAnswer`). The
   router knows a session, not a call (`router.go:39`); an answer delayed past
   its call's end goes to the session's next call, and `hooks.go:158` then
   remembers that one. A parallel call of the session takes an answer still in
   its grace window the same way (`router.go:29`). So may a call that comes alone,
   after the one before it timed out or its client gave up (the dial's 90 s begin
   after the daemon's and curl's, so that its answer is the last), or after the
   sweeper has handed over a stale snapshot that shows the prompt once more:
   `UpdateOffer.cfg`, `AnswersWhatWasShown`, where `Deliver` records `met` for every
   answer (without `~serial`).
2. **A failed update sends an old choice for a new prompt.** An image that starts
   during the grace window saves that screen as the one to return to
   (`main.cpp:561`). If its session closes and another prompt takes the slot
   before the image fails (`main.cpp:582`, `:1732`), the grace screen comes back
   and its timer sends the old choice for the new session. `Dial.cfg`,
   `Kinds = {"session", "image"}`, the invariant `GraceIsPicked`.
3. **Firmware is flashed that was never checked.** `runFirmwareUpdate` compares
   the version of the manifest it reads at `hooks.go:249`; `DownloadLatest` reads
   the manifest again (`firmware.go:119`). A refresh in between, from the
   checker's own ticker, has an image flashed that may be newer than the bridge,
   which `hooks.go:253` rules out "not even with --force"; it is announced to
   dial and user as the old version. `Ota.cfg`, the property
   `[][boot' # boot => CanFlash(BridgeVersion, boot')]_vars`.
4. **The user's hooks can be lost.** `install.go:4` is "deliberately
   non-destructive". A write that is cut (`install.go:294`) leaves an empty file,
   which the next install takes for no settings; the one after that copies its
   result over the backup, the only place the user's hooks were left.
   `ClaudeFiles.cfg`, `NonDestructive`.
5. **A user's hook in a group of ours goes with it** (`install.go:161`), where
   `install.go:5` says "uninstall removes only ours". `ClaudeFiles.cfg`,
   `Group <- SharedGroups`, `UserGroup <- Shared`, `TakesOnlyOurs`.
6. **The dial lists a tier in an order of its own.** `flush` ranges over a map
   (`ble.go:478`), where `daemon.go:185` says "every device shows the same
   order". `Devices.cfg`, `Rows!SameOrder`.
7. **Labels may be equal**: three characters of the id tell them apart
   (`daemon.go:209`), where `daemon.go:195` says "unique". `Devices.cfg`,
   `Rows!LabelsAreUnique`.
8. **An offer whose write fails is not made again** on that connection: it is
   recorded before it is written (`ble.go:323`). `UpdateOffer.cfg`,
   `Lossy = TRUE`, `OffersReachTheDial`.
9. **An offer that lapsed may stay on the dial**: a reconnect clears the bridge's
   record of it and not the dial's (`ble.go:601`), where `hooks.go:296` says
   "don't dangle a tactile prompt the bridge would refuse". `UpdateOffer.cfg`,
   `OffersAreWithdrawn`.
10. **A client that closes its request leaves its session asking**
   (`hooks.go:168`), and the sweeper never takes such a cue down (`store.go:137`
   counts on the request's own timeout), short of MaxAge. `Bridge.cfg`,
   the invariant `PromptHasAsker`. The hook's curl gives up after the daemon's own
   timeout, to the second (`install.go:45`, `daemon.go:108`).
11. **A grant may be given to a session that is over**: `hooks.go:115` forgets
   grants at SessionEnd; a request still open then may settle with "always allow"
   afterwards (`hooks.go:158`), on disk for good. `Bridge.cfg`,
   `GrantsDieWithSession`.
12. **Two long commands share a grant**: commands are cut to 180 bytes before they
   are matched (`hooks.go:404`), where `hooks.go:157` says "this exact call".
   `Devices.cfg`, `Texts!GrantsAreExact`.
13. **A prompt may outgrow the wire**: the ceiling of `ble.go:50` is on the command
   before JSON writes each `<`, `>` and `&` in six bytes, and the dial drops a
   message longer than its buffer after its write was acknowledged
   (`main.cpp:392`). `Devices.cfg`, `Texts!PromptsFit`.
14. **A status of an attempt before may be believed by the next.** `ota.go:51`
   says "Drain any stale status from a previous attempt so waitFor sees only
   ours"; what is drained is what has arrived (`ota.go:124`). A "done" that was
   still on its way ends the next update well without an image of it being
   installed. `Ota.cfg`, `SuccessIsInstalled` without `plain`.
15. **A call repeated at once is not shown**: the dial changes its row by itself
   when it answers (`main.cpp:1620`), so that the repeated prompt, if the state
   in between was never sent, equals the last view delivered (`ble.go:479`).
   `UpdateOffer.cfg`, `Repeats = TRUE`, `CallsComeToTheDial`. The same holds of any
   row the dial has changed by itself, by an answer or a timeout: it keeps its own
   state until the view changes. `BleLink` has these sessions in `settled`.

Noticed on the way, without a property of their own:

* A held button buries a prompt: from a prompt the menu opens, and from there
  the monitor; the slot stays taken (`main.cpp:1788`), so the prompt is not shown
  and no later one can be (`main.cpp:482`), although "permission requests take
  over the screen on their own" (`main.cpp:1464`). It ends when its session
  changes state or the link drops.
* The dial may stay on an old view while the bridge believes it delivered the new
  one: a full receive queue drops what the link has acknowledged
  (`main.cpp:397`); a write that fails after it has landed is not recorded, and if
  the session returns to what is recorded nothing is sent (`ble.go:479`); a link
  that drops and returns within one round of the dial's loop, or drops between its
  two looks at it (`main.cpp:1741`, `:1754`), leaves rows of sessions the bridge
  has forgotten; a message that outgrew the buffer is dropped (`:392`). `mislaid` names these cases, and each lasts
  until the session's next change.
* A session the dial's full table refuses (`main.cpp:472`) is recorded as
  delivered, and is not sent again when there is room.
* A version may be transferred twice: a second confirmation is checked against the
  version announced on the old link, if it is consumed before the bridge has
  noticed that the dial restarts (`hooks.go:259`, `ble.go:175`).
* `otaStatus` drops what it has no room for; `ble.go:303` says terminal states are
  read again, but nothing sends them twice.
* An offer of an update replaces the grace screen (`main.cpp:446`; the comment
  above spares "active permissions"): the choice is neither sent nor shown again.
* A Forget whose save fails comes back with the next start (`rules.go:119`),
  where `rules.go:7-9` says that a failure means the grant is not remembered.
* A message received between the drain and the look at the link is handled after
  the table was cleared for a drop (`main.cpp:1714`, `:1741`).
* Two open requests of one session share one row: the first to settle takes the
  cue of the other down (`hooks.go:161`).
* An error while sending an image leaves the dial in its update screen until the
  link drops (`ota.go:80`): the bridge sends no abort, and the next update's
  `Update.begin` is refused.
* `claude-dial firmware update` fails only if a line of the progress says error
  (`main.go:462`): a daemon that dies in the middle ends the stream, and the
  command exits 0.
* `os.Exit` skips the removal of a temporary image when flashing fails
  (`main.go:305`).
* `service.go:119` boots the running job out before it loads the new one: a load
  that fails leaves none.

## Not modelled

Within modelled components: text (titles, labels' wording, colours, sounds), the
clock and usage messages of the link, which `flush` repeats by the rule it has
for sessions, the full-screen reader of a long command, which swallows one
press, brightness and sound values; HTTP, and of JSON all but the bytes it adds
to a command; the wall clock, of which only comparisons are kept. `ota_abort` is
accepted by the firmware and never sent by the bridge: not an action. Rules'
file errors at start are an empty store, as in the code. Saving grants is atomic
in `Bridge` and detailed in `Rules`: one holds its own mutex while it saves, so
nothing else observes it. Lines of a transcript that do not parse are left out
with the JSON.

Whole components: the command line (but for `hooks install` and `uninstall`, in
`HookSettings`), the service units and USB flashing are sequential programs that
parse arguments, write a file and start another program; they keep no state
between two runs, and what can go wrong in them is in the programs they start
(launchctl, systemctl, esptool), of which the repository holds nothing to
translate.

## Plan

In this order, most important behaviour first; all are done.

1. `Roster`, `SessionStore`, `SessionSweep`: the store, its sweep, its promise.
2. `Grants`, `Rules`: matching, file, crashes.
3. `Approval`, `Bridge`: the approval loop. Composes `Roster` and `Grants`.
4. `Dial`: the firmware's loop and callbacks.
5. `SessionStoreProofs`, `RecordsProofs`, `BridgeProofs`, `DialProofs`.
6. `Versions`, `Ota`, `OtaProofs`: the update of the dial, both ends.
7. `BleLink`: how the dial follows the store.
8. `UpdateOffer`, `Journey`: offers of an update; a call through all parts.
9. `HookSettings`, `Usage`, `RosterView`, `CommandText`, `Fanout` over
   `AnswerStream`: the other files, rows, texts and devices.
10. `UpdateOfferProofs`, `ClaudeFilesProofs`, `FanoutProofs`, with the refinement
    of `AnswerStream`.
11. The refinements of `Roster`, of the one-step sweep and of `Approval`, step by
    step; `PromptsTakeOver`; `SuccessIsInstalled`,
    `LastIsOnTheDial`, `AnswersWhatWasShown`, `GrantedCallsPass`,
    `ShortCallsAreMeant`, the types of `RosterView` and `CommandText`.
12. What the recursive functions compute: the scan and the peak of `Usage`, the
    sorts of `RosterView`, and with them the last safety properties.
