# PicoSwitch2 in TLA+

PicoSwitch2 turns a Raspberry Pi Pico W / Pico 2 W into a wireless adapter: Bluetooth
controllers, keyboards and mice on one side, a console's USB port on the other. Its two
cores share memory without an operating system. **Core 0** runs the USB loop
(`app/usb.c`): the console personality, the configuration parser, the BOOTSEL sampler.
**Core 1** runs BTstack from timers and callbacks: HID links, the GATT management service,
the input path, and every flash write. Where the cores meet, correctness rests on the
order of single loads and stores; where they keep something, on what a power loss leaves
in flash; on the radio, on events that come late, twice or never. The host tests, which are
single-threaded, hardly reach any of this. That is what these modules model. Paths below are
relative to `firmware/src/` unless they start with `docs/` or `tests/`.

## 1. Inventory

| Component | State | Operations and partners | What is hard | What makes it correct | Module |
|---|---|---|---|---|---|
| Input arbiter, `input/ns2_input_arbiter.c` | registry of sources, owner, policy, awaiting-fresh flag, `pending_id`/`pending_request`/`applied_request` | register, submit, disconnect on core 1; queue, status on core 0 | a two-word mailbox without a lock; a source leaving while it is selected | owner is registered; a choice is final and never lost; ids not reused | `InputArbiter` |
| Active-input adapter, report seam, slot 0, `input/ns2_active_input.c`, `input/ns2_seam.c`, `app/report.c` | the published report of slot 0 | arbitrate, then publish, in two critical sections; select, then neutralize | a report accepted under the old owner published under the new | the slot is neutral or shows the owner | `InputRouting` |
| Management bridge, `management/config_wireless_bridge.c` | one command slot, one response slot, receive line, session token | receive, peek, consume, reset on core 1; take, publish on core 0 | resets while core 0 is inside a call | one command, one reply, inside one session | `WirelessBridge`, `Exchange` |
| Command task and deferred replies, `settings/config.c` | `wireless_bonds`, `wireless_peers`, `wireless_pairing` | take, run, defer, time out, publish | an operation that outlives its session | a result never crosses sessions | `WirelessBridge` |
| Management GATT service and marshalled operations, `hid_host/bt/btstack/btstack_host.c` | `config_ble`, `*_op_pending`, `*_op_done` | service tick, ATT writes, can-send, run-loop hop from core 0 | refused notifications, completion flags of two operations | every accepted command is answered | `WirelessBridge` |
| BOOTSEL park, `app/bootsel.c` | four shared flags, core 1's spin count | sample on core 0, park on core 1, from the 3 ms timer | Dekker handshake under a lock the other core blocks on | flash is never pulled under core 1; the park ends | `BootselPark` |
| Settings persistence, `settings/config_persist.c`, `config_save_tracker.c`, save service in `config.c` | record, `requested`/`completed`, `save_not_before_ms`, companion table, install marker | requests on both cores, write on core 1, boot | power loss in a one-copy record, wrapping counters, a delay overwritten | `completed` reaches a request only when its data is in flash; one reset per install | `ConfigSave` |
| Keyboard and mouse runtime, `input/ns2_kbm*.c`, driver binding in `hid_host/bt/bthid/bthid.c` | configuration, roles, peer records, mode request, held input | mode set on core 0, applied on core 1, which resets the arbiter; ready, report, disconnect, re-bind | request claimed before its work; a driver replaced under a role | roles name live peers that qualify; no held input without a holder | `KeyboardMouse` |
| Companion input link, `management/ns2_companion_link.c` and `btstack_host.c` | session, 16-bit sequence, watchdog | start, re-arm, stop, frame, tick | start and stop from core 0 and core 1; wrap | a dead client never blocks the next; silence ends in neutral | not modelled (its registration is in `InputRouting`) |
| Pairing, bonds, peers, access, `management/mgmt_*.c` | pairing snapshot, page cursors | start, status, cancel, list, remove | a start or cancel of a client racing the end of the window | management bonds follow the local gesture; an operation is concluded | `PairingWindow` (start, cancel, admission) |
| Bluetooth host and lifecycle, `bluetooth/ns2_bt_host.c`, `ns2_bt_lifecycle.c`, `ns2_ble_reconnect.c`, state machine in `btstack_host.c` | window, scan, attempt, links, bonds, lockout | gestures, control tick, controller and peer events, wipe, boot | late and missing completions, deferred close, two reasons to scan | `docs/bluetooth/lifecycle-edge-case-matrix.md` I1-I13 | `PairingWindow` (Low Energy) |
| Health and recovery, `bluetooth/ns2_bt_health.c`, `ns2_bt_recovery_runtime.c` | phase, reboot count in watchdog scratch | probe, power cycle, reboot | escalation racing a late event, reboot loops | bounded escalation, bounded reboots | not modelled |
| Console wake, `bluetooth/ns2_wake.c` | learned identity | learn, advertise | radio timing | - | not modelled |
| Switch 2 Pro personality, `console/pro2/*` | command reassembly, staged reply, NFC dispatch | feed, dispatch, pump | split and oversized commands, a write committed against a changed store | a console write lands on the image it read | `NfcSession` (NFC commands) |
| Other personalities, `console/{pro,gamecube,joycon2,common}` | report state | USB callbacks, one core | layout | - | not modelled |
| Virtual amiibo store and journal, `nfc/virtual_amiibo*.c` | two flash banks, generation, dirty flags | upload, clear, select, save, boot | power loss at every flash step, format switch, a change during a save | a verified generation survives; a cleared tag stays cleared | `AmiiboStore` |
| NFC and amiibo v3 sessions, `nfc/ns2_*` | session, staged write, waiting eject | console commands, user eject | store changed under a staged write | the write is durable before the tag is reported gone | `NfcSession` |
| Motion, `motion/*` | fused samples under a seqlock | publish, snapshot | arithmetic | - | not modelled |
| Audio, `audio/*`; diagnostics, `diagnostics/*` | rings, counters | streaming, tracing | data | - | not modelled |
| USB task, gestures, mode cycle, `app/*` | personality, gesture state | loop of core 0 | small sequential functions with tests | - | environment of the models |
| HID host drivers, `hid_host/bt/bthid/*` | per-device records and parsers | connect, descriptor, identity, report, disconnect | identity after the driver was chosen | - | `KeyboardMouse` (binding, keyboard and mouse) |
| Companion applications, web configurator | - | write lines, read replies | - | - | environment of `WirelessBridge` |

How they interact: a Bluetooth report enters the seam, asks the arbiter, and is published to
slot 0, which the USB personality of core 0 reads. A management line enters the bridge on
core 1, is taken and run by core 0, and its reply drained by core 1; commands that touch
BTstack are marshalled from core 0 to core 1 through the run loop, **blocking on the lock
that core 1 holds during its callbacks** - the link between the bridge and the BOOTSEL park.
A selection command enters the arbiter through the mailbox. Settings changes end in the save
tracker, and core 1 parks core 0 to write them; the amiibo journal is written from the same
point of core 1's control tick, which also runs the pairing window.

## 2. Modules

### InputArbiter

State: `arb` is `ns2_input_arbiter_t` as core 1 sees it (slots, id counter, `active_id`,
`explicit`, `awaiting_fresh`, `applied_request`); `pend` the two shared words; `core0` and
`core1` where each core is inside an operation; `chosen`, `issued`, `resets` are history.
`chosen` forgets a selection whose loss is section 3's: one that crosses core 1's withdrawal of
an earlier one (`Crossed`) or one answered beside an outstanding "none" (`Undercut`).
The C file's static functions are operators on one `arb` record (`Enrolled` is
`register_source`, `AutoPolicy` is `apply_auto_policy`, `Removed` the body of
`ns2_input_arbiter_disconnect`, ...), and the actions are the accesses of shared words:

| Action | Code |
|---|---|
| `Validate`, `AnswerRepeated` | `ns2_active_input_request`: status snapshot, checks, early "already active" |
| `StoreId`, `BumpRequest` | `ns2_input_arbiter_queue_active` |
| `SubmitBegin`, `SubmitCommit` | `submit_group`: load of `pending_request`; load of `pending_id` and the rest |
| `DisconnectBegin`, `DisconnectCommit`, `ClearPending`, `SettlePending` | `ns2_input_arbiter_disconnect` |
| `Reset` | `ns2_active_input_reset` |

The status seqlock is not a step: core 0 validates only outside core 1's write window, as
its retry loop does (`InWindow`). A reset clears the id counter, so ids do restart after a
keyboard/mouse mode change (`ns2_active_input.c:155`); `IdNeverReused` is therefore checked
with `MaxReset = 0`, the boot it speaks of otherwise.

### InputRouting

Composes the arbiter with its callers and slot 0. Each of its actions is an arbiter action
conjoined with what the caller does around it. `todo` is what core 1 still owes the slot
after the arbiter returned (a neutral boundary, then a publish), `owes0` the neutralization
core 0 owes after queueing, `console` the id whose held input slot 0 shows, `overtaken`
(history) that it was put there after a selection had neutralized the slot. Nothing keeps
core 0 out of a core-1 callback. A report is "held" or neutral: nothing in the properties tells
two held reports apart. The keys are standalone: the halves of a composite publish past the
slot's gate, on the path `KeyboardMouse` has.
`btstack_host_companion_link_stop` is modelled on core 1 (disconnect path); its second
caller, the `clink stop` command on core 0, is a listed hazard. A companion
frame is submitted twice in the code (`clink_publish`, then the router); without a selection
in between the second decision equals the first, and the model has one.

### WirelessBridge and Exchange

`WirelessBridge` joins four C files: the slots and session of the bridge, the command task
of core 0, the deferred operation, and the GATT link. Core 1's reset is its three stores
in order (`BeginReset`, `ResetCommand`, `ResetResponse`, `ResetSession`); core 0's take and
publish are broken where a reset can slip in. A command is the number of its line; the
copied text is a pair of halves so that a copy taken during a rewrite is visible. A reset may
come in the middle of every call of core 0 and a request between core 1's two completion flags;
`race` (history) remembers that one did (`Meets`), until a later reset that meets no call has
ended (`Watched`), so that the properties can say what such a race may break and that it
heals. Bonds,
peers and pairing share one deferred operation `op`, since their code is the same shape and
one client runs one command at a time. Deadlines are a nondeterministic choice: a deferred
reply may time out whenever the operation is not done.

`Exchange` is what `config_wireless_bridge.h` promises: one line at a time, answered at most
once, inside one session. `WirelessBridge!X` maps the session and the slots to it (`Stage`),
a reset counting from its first store.

### BootselPark

One step per access of `g_sample_requested`, `g_core1_parked`, `g_core0_sampling`,
`g_park_abandoned`, in program order (each store is followed by `__dmb`). Around the two
functions: core 0's other work, which may block on the run-loop lock, and core 1's callback,
which holds it. `Request` assumes one piece of timing: 30 ms pass between two rounds, while
core 1 leaves a closed round in a few cycles, so a round is not requested before core 1 has
left the previous park. Interrupts are off inside the park, so nothing else of core 1 runs
there.

### AmiiboStore and NfcSession

`AmiiboStore` is the store of `nfc/virtual_amiibo_store.c` with its journal. `tag` and `v3`
are the two formats' slots, `bank` the two flash banks, `ask` the two requests core 0 leaves
for core 1, `core0` and `core1` where each core is inside a store call. A tag's bytes are an
edition number, one for every upload and console write. Each command of core 0 is an action
ending in `AskPersist`, because the request is a store of its own, after the tag's lock is
released (`CommitV2`, `FinishV2`; `CommitV3`, `FinishV3`; `RequestClear`, `ClearFlags`,
`ClearAsk`). Core 1's `virtual_amiibo_store_service_save` is `Save1`: which format, the
snapshot, the wipe on a change of format, erase, program, verification, settlement. The
lockout parks core 0 inside the flash operations (`Locked`), not between them. `Crash`
rebuilds RAM from the banks as `virtual_amiibo_store_init` does; a program operation may fail.

`NfcSession` extends it with the two console readers (`n540`, `n2k`) and the dispatch of
`switch_pro2.c`. A reader command is an operator on the session's record; `Commit540` and
`Commit2k` write the store on the generation the operation took. `due` says that the
`ns2_task` which follows a management command has not run yet: the USB loop runs it before
the next console command. Response bytes, pages and the report-event counter are left out;
time is the end of the cooldown and of the extended sequence's deadline.

### ConfigSave

The settings of `settings/config.c`, `config_persist.c` and `config_save_tracker.c`: `live`
and `kbm` the record in RAM, `flash` the one sector, `saves` the wrapping counters, `notBefore`
the delay of the wake identity, `marker` the install marker. `config_service_save` is nine
steps of core 1 (`Write1`); the sector is erased, then its first page is programmed, then the
rest, and power may go between any two. The boot is `Boot`: the one-time erase, the marker,
the load (of a record with a torn tail too). `Save` is the explicit command, answered at once
over the bridge and after the write over USB (`SaveAnswer`). `wanted` is
history. The window between erase and program, in which a power loss leaves no settings, is
acknowledged by the design (`docs/architecture/kbm-profile-system-hld.md:155, 578-581`) and
is no property here.

### KeyboardMouse

`input/ns2_kbm_runtime.c` over the rules of `ns2_kbm.c`, fed by the driver binding of
`bthid.c`. Everything core 1 writes is one record `h`; what a callback does is a function of
it, in the order of the code (`Noted`, `ModeApplied`, `Described`, `Identified`,
`RoleReleased`, `Gone`, ...). Core 0's `ns2_kbm_runtime_set_mode` is three stores (`SetMode`,
`SetModeNeutral`, `SetModeRequest`), and a report is two steps, admission and publication.
The arbiter appears as it behaves while nobody chooses: `sources` gives each connection its
class, whether it is a half of the composite and its place in the order of registration, from
which `Best` picks the owner (`Submitted`, `Departed`); `InputArbiter` has it in full. A mode
change withdraws every source and looks at the connections again in slot order (`Rebuilt`).
In Controller mode every pointer report is forwarded as an ordinary source's, also one that the
keyboard driver decoded (`Forwarded`, `OrdinaryReport`); in any other mode the report of a pad
is dropped. `down` is what is physically held, `lost` (history) what was let go of in a report
that nobody published: one the mode, the roles or the source gate turned away, or one the bound
driver cannot decode (`UndecodedRelease`). An input is held or not: bindings, macros and pointer
arithmetic are data. A peer is described by what its descriptor and class of device say.

### PairingWindow

The window, discovery, admission and wipe for **Low Energy** peers. A step is one handler on
core 1's run loop, a composition of functions on the host's record `h`; `Ticks` is
`control_timer_handler` followed by `btstack_host_process`, stage by stage. `hci` is the
connection the controller is creating, which outlives the host's interest in it:
`CompletionNeverComes` is the cancel that is never answered, `AttemptFails` and
`AttemptSucceeds` its late answers. What abstracts:

- no Classic inquiry and paging, no resolvable addresses, no Switch 2 custom pairing;
- deadlines fire as actions (`WindowExpires`, `CompletionExpires`, `AttemptExpires`); the
  12 s bound of the deferred close lies behind the 10 s watchdog and is never reached;
- a client's operation is `active`, with its two requests to the tick; its reason codes and
  the status answers are not kept;
- `gap_connect` is refused while another connection is being created, and the host books a
  completed link under the address it asked for last, as the code does;
- a link is "up", "pairing" or "reencrypting", "secured", "ready". The security manager's and
  HID handlers run on a link whose disconnection was requested and under the lock as on any
  other, since the code does not look: only the connection's `fresh_pairing_admitted` latch
  (`adm`), which a wipe leaves, decides a new pairing. `spared` (history) is the set of peers
  whose admitted pairing the last wipe found unfinished;
- at boot the last connected peer is any bonded one or nobody;
- the gestures are steps of their own, between two ticks.

## 3. Runs

| Run | Instance | Shows |
|---|---|---|
| `arbiter_ownership` | 2 controllers, keyboard + mouse composite, 3 slots, 3 ids, 2 selections, 1 reset, "none" included, cores interleaved freely (1,493,152 states) | `TypeOK`, `RegistrySound`, `AutoOwnerIsBest`, `ExplicitIsFinal`, `ClassKnowledgeKept` |
| `routing_console` | 1 controller + companion link, 2 slots, 3 ids, 2 selections, "none" included, cores interleaved freely, fair (57,243 states) | `ConsoleShowsOwner`, `PadsReleased`, `SelectionHonoured`, `IdNeverReused`, `SelectionDrives` (liveness) |
| `bridge_exchange` | 2 lines, 6 sessions, replies of 2 notifications, cores interleaved freely, fair (102,695 states) | `NotWedged`, `LinesWhole`, `NoReplyCrosses`, refinement `ImplementsExchange`, `Answered` (liveness) |
| `bootsel_park` | deadline of 4 turns, fair | `KTypeOK`, `FlashNeverPulled`, `DeadlineEndsWait`, `RoundsClose` |
| `amiibo_store` | 3 editions, a clear, a change, one failed program, one power loss | `PriorSurvives`, `SavedSurvives`, `ClearedStays`, `SavesComplete` (liveness) |
| `amiibo_console` | 3 editions, a clear, both readers (622,785 states) | `NoBlindWrite`, `DurableEject`, `EjectFollows` (liveness) |
| `settings_save` | 2 changes, 2 companions over a table of 1, counters modulo 6, a power loss, an install | `SavedIsWritten`, `InstallResetOnce`, `SavesComplete` (liveness) |
| `keyboard` | a Low Energy keyboard, a gaming mouse that the keyboard driver decodes, a controller, 2 connections of 3 in all, a change to keyboard mode or of the configuration (423,030 states) | `RolesSound`, `NoGhost`, `ModeObeyed`, `ConsoleOwned` |
| `pairing_window` | a controller and a keyboard, 1 retry, 3 gestures, requests or power cycles (257,979 states) | `LockHolds`, `GrantAttended`, `LockEndsByHand`, `DeferralEnds`, `WindowSearches`, `OperationConcludes` (the last three liveness) |

Three runs end in a violation, each a disagreement between the code and what its own
comments or documents state, quoted in `PROJECT.json`:

| Run | What happens |
|---|---|
| `bootsel_freeze` | both cores back off; core 1 waits without a deadline, core 0 blocks on the lock core 1 holds |
| `amiibo_stale_tag` | a 540-byte image replaces a 2 KB one that is not saved yet; an old 540-byte record with a higher generation outlives the save, and a reboot brings back a tag the user replaced |
| `pairing_wipe` | the wipe gesture inside a window clears the window's time without closing it: `hid_pairing_window_open` and `mgmt_bond_window_open` stay up with nobody to take them down; while the wipe's lock stands it still rejects new controllers |

Every module has a type invariant (`RTypeOK`, `BTypeOK`, `CTypeOK`, `NTypeOK` over
`AmTypeOK`, `PTypeOK`, ...); only those of the arbiter and of the park are kept in a run.

**Races the properties name.** Where the code has a window that loses something and later
recovers, the model keeps the window open and the property says exactly what the race excuses
and what it does not:

| Race | What it costs, and when it is over |
|---|---|
| a selection crosses core 1's withdrawal of an earlier one (`ns2_input_arbiter.c:430-435`) | the clear of `pending_id`, or `pending_request` read as applied, loses the newer selection (`Crossed`). `SelectionHonoured` resumes with the next selection |
| "none" is outstanding and its `pending_id` of 0 reads as "nothing outstanding" (`ns2_active_input.c:217-221`) | re-selecting the settled owner is answered as a repeat, then "none" is applied (`Undercut`) |
| a report that has passed the arbiter is published after core 0 queued a selection and neutralized the slot (`ns2_active_input.c:222-230`, `ns2_seam.c:421`) | the slot shows that report (`overtaken`), the old source's held input, until the next publication or neutralization. The comment at `ns2_active_input.c:225-227` says the source "cannot remain" |
| a session reset meets `take_command` or `publish_response` (`config_wireless_bridge.c:50-60, 115-157`) | a slot is left occupied by a dead session, or a line is torn. The next reset that finds core 0 between two commands frees it (`race` "mending", then "none") |
| core 1 clears `pending` before it sets `done` (`btstack_host.c:8466-8468`), and core 0 requests in between | the request takes the previous completion for its own. The same reset ends it |
| the wipe gesture finds an admitted pairing in progress (`btstack_host.c:7231-7270`; the wipe, 14059-14139, clears no latch) | the peer may still be bonded while its link goes down (`spared`); `LockHolds` says that nobody else can |

**Switches.** Where a failure does not heal, a Boolean constant separates the two questions:
with the window closed, the run shows that everything else keeps the property; with it open, TLC
finds the failure. A window is closed by restricting when an action may come, never what it
does.

| Switch, with the value that opens the window | What then fails |
|---|---|
| `CommitInsideSave = TRUE` (`AmiiboStore`) | an upload committed between core 1's look at the format and its snapshot (`virtual_amiibo_store.c:893-905`), or over a change of format, saves the wrong slot (`SavedSurvives`) |
| `ReplaceUnsaved = TRUE` | the run `amiibo_stale_tag` |
| `ClearDuringOp = TRUE` (`NfcSession`) | `amiibo clear` inside a 2 KB operation restarts its generations, and a later upload may carry the number the operation took (`NoBlindWrite`, from `MaxEdits = 4` on) |
| `ClearBeforeStop = TRUE` (`NfcSession`; the value of `amiibo_console`, where 3 editions are too few) | `amiibo clear` between a 2 KB console write and its stop restarts the generations; two later uploads reach the number the reader observed, the change of media goes unseen (`ns2_amiibo_v3_runtime.c:315-320`), and the stop ejects an image that is not saved (`DurableEject`, from `MaxEdits = 5` on) |
| `Native = TRUE` (`KeyboardMouse`) | in auto mode the keyboard leaves while the mouse holds its role and a button: `role_policy` (`ns2_kbm_runtime.c:218-220`) refuses the mouse's further reports, the mode stays keyboard and mouse, the button stays on the console, and the mouse is registered again as an ordinary source (`ConsoleOwned`, against the comment at `:196-202`, by which a mouse alone keeps the native pointer path) |
| `WipeInWindow = TRUE` (`PairingWindow`) | the run `pairing_wipe`; a remote start accepted just before a wipe is taken after it and ends the lock without a gesture (`LockEndsByHand`, against `bt_transport_cyw43.c:217-219`) |

**Other disagreements** met while reading and modelling, without a run:

- A wake identity stored while a settings write runs sets a delay, and the write that ends
  clears it (`config.c:383`), so the next write begins inside the console's pairing exchange,
  against the comment at `config.c:281-283`. The steps are in `ConfigSave`; no property is kept
  about them, since what holds is the guard of the service and no more.
- After a wipe, a pairing admitted before it can complete (last row of the first table), and the
  end of its link starts a reconnection attempt to the peer just bonded, lock or no lock
  (`btstack_host.c:2466-2503`), against `docs/bluetooth/LIFECYCLE.md:128-129` and the comment at
  `btstack_host.c:14063-14064`. Classic links are checked (`ns2_bt_lifecycle.c:149-170`), so the
  code considers the case possible. The connection the attempt makes is dropped by the lock.
- A keyboard that arrives while a pad owns the console, or in keyboard mode a gaming mouse that
  plays as an ordinary source, mutes the owner's reports without taking the console, against
  `docs/bluetooth/keyboard-mouse-input.md:37-39`. A button the muted owner then lets go of stays
  held on the console: the release is turned away by the mode. `NoGhost` excuses exactly the
  inputs let go of unheard (`lost`) and says that nothing else leaves a held input behind.
- A Classic combo device whose descriptor has no keys is re-bound under its role; with such a
  peer `ConsoleOwned` fails.
- Stopping the companion link looks up a key it was not registered with, so the source stays
  registered (`OnlyLiveSources` of `InputRouting`, in no run).
- A peer of combined class is never offered both roles (`ns2_kbm_runtime.c:467-471` against
  `docs/bluetooth/keyboard-mouse-input.md:108`); the comment at `ns2_active_input.c:176-178`
  disagrees with what `gates_connection` answers.
- A failed 2 KB command clears `write_committed` but not the waiting eject.
- The comment of `pairing_op_run` says a gesture's window counts as active, and only the
  operation's state is checked, so a remote start re-arms a gesture's window and takes its grant
  away; the end of a scan at HID-ready, or a new scan, overwrites CONNECTING and disarms the
  watchdog of the attempt in flight.

**Bounds.** Two selections suffice for one to overtake another; three slots hold a composite
and a rival, and four keys over three slots fill the registry; three ids let a source leave and
return with a new one. Six sessions let two lines each be cut off by a session change, a race
happen and heal, and another line follow; two notifications per
reply give a reply a beginning and an end. The deadline of the park is 4 turns rather than
40000: every value from 0 on reaches the same places, and the theorem covers all. Three
editions of a tag are the one in flash, one being written and one that overtakes it; one
failure and one power loss fall on every step of the journal. The store of a 2 KB upload,
an upload that overtakes the console's operation and the console's own write need a fourth
edition, which is beyond `amiibo_console`; there `NoBlindWriteAlways` and `DurableEjectAlways`
cover what the run does not (the 540-byte half reaches it from a version-1 tag). Counters modulo 6 wrap within
the run, with a difference of at most 2 outstanding. Two connections and three peers make
connection indices be reused by another peer, each arrival with a generation of its own; the one
change is of the mode, to keyboard mode, which admits a keyboard and turns a mouse away, or of
the configuration. Two peers and three inputs cover a window
opened, closed and opened again around a wipe, a start or a power cycle; one retry shows the
limit. Deadlock is not checked because the bounds stop each system.

**Fairness.** Both cores run endless loops, so their steps are weakly fair: core 1's service
point and the ends of core 0's commands in the store and the settings, `Boot`, `ns2_task`, the
control tick. Clocks run: `Elapse`, `AttemptExpires`, and for `OperationConcludes`, as a
premise in the formula, the window's end. Of the controller, the peers, the clients and the
user nothing is assumed. A controller with a
held button keeps reporting and BTstack serves every link in turn (`SF` on `Report`).
`SF_vars(CanSend(TRUE))`: a notification offered again and again is at some point accepted.
In `BootselPark`, callbacks end and the lock is free between callbacks (3 ms apart) for much
longer than an acquisition takes: `SF` on `Acquire` and `EnterCallback`; with it core 0 can
starve only if core 1 never returns, which is what `bootsel_freeze` shows.

## 4. Proofs

Checked by TLAPS for every value of the constants, from the assumptions named in the modules:

- `InputArbiterProofs`: `TypeCorrect`, `RegistryAlwaysSound`, `ClassNeverForgotten`,
  `ExplicitChoiceFinal`. Inductive invariant `ArbiterInv`: types, a sound registry, and that
  a core-1 operation in progress still has what it saw - the request number it loaded is not
  newer than the shared one, and the key it is about to remove is still registered. Without
  the last part a disconnect could remove a slot that was never found. Over it:
  - `AutoOwnerAlwaysBest`, no hypothesis. `BestInv` says of the owner only its class: when the
    owner of a composite leaves, the surviving half keeps the console although the policy
    might have chosen another source of that class. The report under way keeps its class in
    hand, so that a registration never lowers the owner.
  - `SelectionAlwaysHonoured`, over the module's composition with its callers. `SelectionInv`:
    the request core 1 carries is the one it loaded and not older than the applied one
    (`Loaded`), a withdrawal is only of an explicit choice (`Withdrawn`), and the choice that
    counts is outstanding under its own number, in core 0's hands, or in force (`Carried`), at
    every point where core 0 may bump the counter inside a core-1 operation.
  - over the adapter and the console slot (`InputRouting`), no hypothesis: `PadsAlwaysReleased`,
    `IdsNeverReused` and `ConsoleAlwaysOwners`. `SlotInv` says what core 1 still owes the slot
    (`Owed`) and whose held input it shows (`Shown`) between any two stores of the two cores. A
    registration may drop the neutral boundary it owes; that is harmless only because a
    newcomer that has not reported never outranks the owner, which is `BestInv`.
- `ExchangeProofs`: `RepliesStayInSession`. The strengthening: whenever something is
  outstanding, the last line belongs to the current session.
- `BootselParkProofs`: `FlagsTellPlace` and `FlashIsSafe`. `FlashNeverPulled` says nothing of
  the moment between core 0's second look and the chip select; the strengthening is that a
  round core 0 reads in is still open and core 1 is held in it (`ReadInPark`), and that core 1
  leaves only closed rounds (`LeavesClosedRound`).
- `WirelessBridgeProofs`, no hypothesis: `NeverWedged`, `LinesAlwaysWhole`, `RepliesNeverCross`
  and `ExchangeImplemented`. `BridgeInv` has three parts. `Base` holds through every race: types,
  what is private to a core, and that what was delivered reached its author. `Clear` holds while
  `race` is "none": what each of the two flags means to each core, whose line is in which slot.
  `Mending` says how much of `Clear` a reset that meets no call has restored at each of its
  stores, so that it is whole again when the reset ends: this is the proof that a wedged bridge
  heals. The last theorem is the refinement of `Exchange`: Init maps to Init, and every step
  outside a race to a step or a stutter.
- `AmiiboProofs`, over the store:
  `SavedTagSurvives` and `PriorTagSurvives`, if no upload commits inside a journal write and
  no 540 image replaces a 2 KB one not saved yet; `ClearedTagStays`, no hypothesis. `StoreInv`
  splits at whether a clear is pending (`Pending`). Always: the store's calls are where they
  can be (`Shape`, `Turns`) and each record has one format (`Formats`). Only while no clear is
  pending: the bank a boot would take holds what was promised (`Standing`), generations are
  ordered (`Ordered`), and what RAM calls persisted is what a boot returns (`SavedNow`, `Kept`).
  Over the readers:
  - `NoBlindWriteAlways`, if no clear comes inside a 2 KB operation. A generation names an
    image only until the tag is emptied, when numbers restart; `BlindInv` therefore says that
    an operation read the image its generation names *or* the tag is gone and `ns2_task`,
    which comes first, forgets the operation (`Honest540`), and that a 2 KB operation whose
    media changed is dropped at the entry of the next command (`Honest2k`, `EntryGood`).
  - `DurableEjectAlways`, if besides both of the store's conditions no clear comes inside a
    2 KB operation or between its write and its stop. `EjectInv` joins `StoreInv` and
    `BlindInv` with two debts: a tag that is not on flash is about to be saved (`Owed`), and a
    write its reader calls durable, on media the reader has not seen change, is on flash
    (`Done540`, `Done`).
- `ConfigSaveProofs`: `ResetOnceAlways`. `InstallInv` adds where the boot is when the marker
  stands, that core 1 is off until then, and that the record it composes is this firmware's.
  `SavedIsWrittenAlways`, no hypothesis: for every width of the counters. They are
  compared modulo `Wrap`, so `SaveInv` bounds what is outstanding by half of it (`Numbered`)
  and says that what a save was asked for still waits in a write that took its number after,
  or is in flash or about to be again (`Carried`).
- `KeyboardMouseProofs`: `KBaseAlways`, `RolesAlwaysSound`, `ModeAlwaysObeyed`, no hypothesis:
  types, roles that name live connections of the right kind, and roles that the mode allows,
  whatever core 0 does between two steps of core 1. What core 1 does is a function of one record,
  built from about twenty others, so each lemma says what one of them preserves. `KBase` has the
  types, the records that belong to no connection before its own, and an order of registration
  without ties.
- `PairingWindowProofs`: `LockAlwaysHolds`, no hypothesis; `GrantsAttended`
  and `LockEndsAttended` if no wipe comes inside a window. A tick is nine functions, so each
  proof carries a relation through them: `Locks` (under the lock no scan, every link being torn
  down, and whoever is bonded *or may still be* among the peers the wipe found unfinished) and
  `Keeps` (after the remote start a tick only takes a grant away). The strengthening
  of the grant is that a deferred close and a grant exclude each other: the next window is
  ignored while a close waits, and would otherwise inherit the grant.

The hypotheses that remain are the values the passing runs use (`ClearBeforeStop` is the
exception, TRUE in the run and FALSE in the theorem); section 3 shows what the other value of
each of them breaks. TLC checked the strengthenings on the runs' instances before their proofs.

Only model-checked: the liveness properties, since liveness under fairness is outside TLAPS's
reach, and `NoGhost` and `ConsoleOwned` of `KeyboardMouse`, for personalities without a pointer
of their own and for the peers of the run. Every other safety property of a passing run is a
theorem, under the hypotheses above.

## 5. What is left

Worth modelling next: the companion link's session (both callers of its stop, the 16-bit
sequence filter), Bluetooth recovery (escalation and its reboot bound), the reassembly of
vendor commands on the bulk pipe, Classic inquiry and paging beside the Low Energy scan, the
listing and removal of bonds and peers, and an abstract console owner that `InputRouting`
implements. Worth proving next: that abstract owner
as a refinement, `NoGhost` and `ConsoleOwned` for every peer that describes itself truly, and what
each switch of section 3 can be weakened to.

Not modelled, and why: report layouts, encodings and the HID parsers (data, with host
tests); the schema migrations and sanitizing of the settings record (pure functions of a
large record); sensor fusion and audio (arithmetic out of TLC's reach); diagnostics
(observers); the single-core USB personalities; the companion applications. Together with
the vendored BTstack glue of other controllers these are most of the repository's lines.
`PROJECT.json` lists every component with its reason, and the hazards no property covers.
