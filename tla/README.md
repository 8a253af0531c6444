# Verification of Tobii_Linux

TLA+ models of the parts of Tobii_Linux in which several threads, processes or
machines have to agree, TLC configurations that check them on small instances,
and TLAPS proofs of what has to hold on every instance.  The sources are the
Rust crates under `src/crates` and `src/bridge`; every definition that models
code is listed with its lines in `PROJECT.json` under `map`.

## The system

Tobii_Linux drives a Tobii Eye Tracker 5 from user space.  The tracker is a
USB device that one process at a time can claim, and it reboots whenever a
session on it is closed: whoever opens it has to send it the display area and
the calibration again.  One program, the hub (`tobii-gtk`), normally owns it and
serves everybody else; `tobii`, the command line, talks to the hub over a Unix
socket or borrows the tracker from it.

| part | state it keeps | operations | how it meets the others |
|---|---|---|---|
| demand (`device.rs`) | a count per reason to keep the tracker on | hold, drop, active, wants_exclusive | guards held by windows, latches and socket clients; read by the device thread |
| device lease (`device.rs`, `outputs.rs`) | Free, Requested(client), Held(client) | acquire, refuse, announce, release, take back | asked for by the socket thread, answered by the device thread letting go |
| device thread (`device.rs`) | the USB connection, the commands it has popped, the linger clock | stand_by, device_session, device_tick, apply_command | a command channel from the UI, `DeviceState` behind a mutex towards it |
| pitch measurement (`head_model.rs`, `device.rs`) | `PitchCal`: a token, active, a result | start, poll, stop; measure, save, finish, fail | dialog and device thread through `DeviceState` |
| calibration flow (`calibrate_flow.rs`, `device.rs`) | the flow's phase; `CalPhase`; the tracker's realm and samples | launch, tick, re-show, deadline, close; begin, collect, discard, compute, finish, abort | commands one way, counters and a token the other |
| hub socket (`tobii-ipc`, `outputs.rs`) | client list, inbox, per-client queues, `awaiting` | accept, read, poll, reap, reply | one thread per direction and client, and the socket thread that decides |
| command line (`tobii-cli/src/main.rs`) | one lease, one USB connection | lease_from, open, drop | the hub's socket, the USB device |
| USB connection and wire protocol (`tobii-usb`, `tobii-protocol`) | sequence number, reassembly buffer, gaze queue, handshake state | connect, request_until, read_notifications | below every user of the tracker |
| settings on disk (`tobii-config`) | one file per setting, the calibration and its metadata, a profile per game | write_atomic, load; the profile commands | the hub, the command line and a text editor write the same files |
| updater (`tobii-update`, `tobii-gtk/src/update.rs`) | the release on offer, a worker's job, staged copies, backups | look, download, install; sweep, stage, probe, swap, roll back | the banner of the hub and `tobii update`, on one directory |
| uninstaller (`tobii-cli/src/uninstall.rs`) | a plan | plan, ask, stop, remove | package managers, other installs, desktop entries |
| game output (`tobii-output`, `tobii-headpose/src/filter.rs`) | filters, neutral pose, recentring, virtual joystick, UDP sinks | compose, hold, decay, recentre | fed by the device thread |
| game side (`device.rs`, `outputs.rs`, `games.rs`) | `games.toml` as last read, the joystick, the session's output, a listener on the port | poll, open, close | a row of the window, `tobii games set`, other programs on the port |
| head pose (`tobii-headpose`, `head_model.rs`) | the crop and its misses; the model's file | estimate, publish; fetch, install, remove | a worker thread that outlives sessions |
| Wine side (`bridge/`, `tobii-cli/src/bridge.rs`) | the UDP port, the shared mapping; registry keys and a directory in the prefix | bind, publish, cede; install, undo, launch | inside the game's process, and around its wineserver |
| readers (`tobii-steam`, `tobii-gameconf`, `userreg.rs`) | nothing | read other programs' files | files their owners go on changing |
| hub window (`tobii-gtk/src`) | windows, claims on the tracker, the page of a game, settings, tray icon | tick, open, close, hide, quit | the main loop, one thread, and what it polls |
| what is shown (`accuracy.rs`, `eyeview.rs`, `tobii-diagnostics`) | samples, offsets between eyes; a log and a salt | sweep, frame, report | frames of sessions that come and go |
| captures (`tobii-usb/src/capture.rs`, `tobii-recap`) | a text file; a usbmon file | record, replay, decode | files people edit and other tools write |

### What is hard in it

- **Two threads and a third program decide on one device.**  The device thread
  re-reads the demand and the lease on its own schedule; the socket thread
  decides on leases in another; a borrower acts on a reply that was true when
  it was sent.  Nothing is locked across any of this.
- **Whatever waits must be answered by someone else.**  A dialog polls a field
  another thread resets when it goes idle; a calibration window waits for
  acknowledgements that carry no name; a client waits for a device that may
  never be let go.
- **Requests do not cancel.**  A command in flight to the tracker is answered
  when it is answered; the window that sent it may have moved on, and so may
  the next window.
- **Things stop half way.**  The tracker is unplugged, a request is not
  answered, a program is killed with the lease, an update is killed between two
  renames, a settings file is renamed before its bytes are on the disk.
- **Others write what is read.**  Wine keeps a registry in memory that its file
  lags behind, games and Steam rewrite their files in the middle of a read,
  people edit a profile between a command's read and its write.
- **Guards lock up.**  What is rejected as an outlier keeps being one, a crop
  that lost the head keeps looking there, a listener counts its own socket.

### What makes each part correct

| part | correct when |
|---|---|
| demand | the count of a reason is the number of live guards for it; a client that changes its subscriptions never lets the tracker go dark in between |
| lease | a program told yes has the device's lease and the hub's hands off it until it is done; every request is settled; a dead holder's lease comes back |
| device thread | commands run once, in order, or are failed; the tracker is on while it is wanted and off when it is not |
| pitch measurement | a cancelled run never overwrites the good zero; what the dialog shows is its own run's result; it shows one |
| calibration | a complete run was fitted to all of its points; success means it is on disk; no realm is left open, no old calibration lost; the flow ends |
| USB connection | transfers are parsed where they begin; no gaze sample is lost; an answer is the answer of its request |
| updater | what is installed always starts; a run replaces everything or nothing, and a killed one leaves the old binaries within reach |
| settings on disk | a file is whole under its name and what was saved is what is read, whoever is killed, and after a power loss as far as the directory's sync got; a profile's comments and other settings survive an edit |
| uninstaller | takes what the program put there and nothing else, can be run again, and takes nothing an install that stays needs |
| hub socket | one hub has the path; a slow client costs only itself; a subscriber gets what it asked for, whole and in order |
| game output | a stale head is held, then decayed; a head that has moved is believed; who comes back comes back at the middle; a recentring takes a held posture and is answered |
| game side | the joystick that is reported is there; a tracker nobody wants goes dark |
| head pose | a head that is lost is looked for again; a held rotation is not called fresh; the model's file is never half there |
| Wine side | one process owns the port; a reader of the mapping never sees half a sample; no key points at nothing and nobody else's is taken |
| readers | an answer was so at some moment of the read |
| hub window | a claim has an owner; a page is about its own game; a choice stands, but for what an edit overtaken by another undoes |
| what is shown | a verdict names the fault there is; the picture settles on the head; a report names nobody |
| captures | what was sent is what is decoded |

## Modules

**Who has the tracker.**

| module | models | state and actions against the code |
|---|---|---|
| `Demand` | `Demand`, `DemandGuard`, `Latch`, `Holds` (`device.rs`, `outputs.rs`) | `demand` is the `HashMap<reason, usize>`, a step per critical section: a re-hello holds the new guards before it drops the old |
| `HubThreads` | what the hub's two threads share and the pure decisions of the lease; `spawn`, `stand_by`, `device_session`; `tobii-ipc`'s accept and reader threads and `Serving::tick` | `lease_decision`, `announce_release`, `must_wait` keep their names; an action per stretch of the device thread between two locks, or between two calls that change who has the device; `Accept`, `Register`, `ReadMsg`, `MarkDead`; then one action per part of a pass of the socket thread: poll, handle, reap, take back, retain, answer |
| `TrackerOwner` | nothing: the promise | one owner; the hub's word is given with its hands off the device and not broken |
| `LeaseHub` | the two threads, the window, `tobii headpose` (`lease_from`, `HubLease`) and `tobii game` | composes `HubThreads` with the programs; refines `TrackerOwner` (`Promise`) |
| `PitchZero` | the pitch dialog and the device thread's share of it | the dialog's handlers and its timeout are actions; the measurement is start, save, finish |
| `Calibration` | the calibration window and `begin_calibration` … `abort_calibration` | `Tick` is one pass of the window's timer; the device thread pops one command and each request to the tracker is a choice of outcomes |
| `IpcChannel` | `bind_at`, the path, framing, queues and the two threads of a connection (`tobii-ipc`) | the path is an inode's owner; a message is a header and a payload on a pipe of a few units |
| `HubWindow` | the hub's process (`lib.rs`): hide, minimise, quit, the tick; the flows; the display-setup wizard (`setup_flow.rs`, `align.rs`, `screen_pick.rs`) | `wins` and `claim` are the windows and their guards; the wizard's pages and dragged lines are part of its window |
| `Tray` | the icon, the panel's watcher and the session bus (`tray.rs`) | three processes; the bus answers in order, what it tells arrives later |

**What the tracker says.**

| module | models | state and actions against the code |
|---|---|---|
| `Connection` | `connection.rs`, `transport.rs`, `parser.rs`, `handshake.rs` | a transfer is the tail of a frame, whole frames, and the head of another |
| `Wire` | TLV fields, gaze, camera and display payloads | decoders are operators; what was sent is damaged, cut, or of a newer device |
| `Capture`, `Recap` | the recorded session and its replay; the usbmon decoder | a file is a sequence of lines, a capture one of records, both changed on the way |
| `Commands` | the subcommands of `tobii` that talk to the tracker | a command is its list of steps; each may be answered, silent, refused, or the last |
| `HeadTracker` | `find_glints`, `seed_roi`, `Tracker`, `preprocess`, the worker's hold | tiny pictures; the network's answers are a set |
| `FramePath` | fusion, neutral, filter, router and sinks | a step per frame offered; time is counted in frames |
| `Recentre` | the request, the countdown, the measurement, the late worker | half seconds; a rotation is who held it |
| `Accuracy`, `EyeView` | the sweep and its diagnosis; the eye picture and its words | a step per tick or frame; the tracker has one true fault, the head one of a few places |

**The game side.**

| module | models | state and actions against the code |
|---|---|---|
| `GameSide` | `games.toml` and its editors, the joystick, the session's output, the port watch | a step per poll of the device thread and of the socket thread |
| `WineFeed` | feeder threads, provider, mapping and mutex in a wineserver session | the page is copied in two pieces; a process may die with the mutex |
| `Bridge` | `tobii bridge`, `tobii game` on one prefix | the registry as wine answers and as the file says; a command is its steps |
| `GameSetup`, `GameFiles` | the set-up window; the game's settings as its page reads them | what the page shows is what `refresh` put there; the game writes between two reads |
| `SteamFiles`, `RegFile` | Steam's libraries; `user.reg` against what wine reads | a reading is a walk and then reads; a file is a sequence of lines |

**What is on disk.**

| module | models | state and actions against the code |
|---|---|---|
| `Store` | `write_atomic` and every loader, the calibration in two files | what is seen and what a power loss leaves, apart; `acked` and `lasting`: what was reported saved, and what of it lasts |
| `Profiles` | game profiles and the commands that change them | a file is a sequence of lines with comments; somebody saves it in between |
| `SettingsMenu`, `Autostart` | the cogwheel; the login entry and its quoting | switches and the files they are about, which others change; an edit of `games.toml` is a read, and later a write of the whole |
| `Install` | `install.rs` from the sweep to the swap and its rollback | a program counter per updater; files are inodes, names are a function onto them |
| `UpdateFlow` | what release is offered and where it may go (`version.rs`, `release.rs`, `net.rs`, `install.rs`); the banner and its workers (`update.rs`) | decisions are operators; a worker is a job and a mailbox |
| `Uninstall` | `uninstall.rs` | a plan made of answers about directories; then one removal after another, binaries first |
| `ModelFile` | the model's file, its installers, the card, the device thread's reload | a file is the kind of bytes it holds |
| `Diagnostics` | the log, the report, its names and advice | a line is its number, a path's prefix a word |

| proofs | of |
|---|---|
| `HubProofs` | `Demand`, `HubWindow`, `ModelFile`, `SettingsMenu`, `Autostart`, `EyeView` |
| `LeaseHubProofs` | `HubThreads` and `LeaseHub`, with `TrackerOwner` |
| `CalibrationProofs`, `ConnectionProofs` | `Calibration`; `Connection`, `IpcChannel` and `Commands` |
| `PitchProofs` | `PitchZero`, `Recentre`, `HeadTracker` |
| `InstallProofs` | `Install`, `Uninstall`, `UpdateFlow` |
| `DesktopProofs` | `Store`, `Tray`, `GameSide`, `FramePath`, `WineFeed`, `Bridge`, `GameSetup` |

`MCCalibration` names the sets and sequences of its configurations; `MCHub`,
`MCFiles` and `MCLive` are explained under Runs.

The definitions whose names begin with `Mut` are faults: what the code would be
with a guard dropped, an order swapped or a reset forgotten.  No specification
uses them; each property is known to notice the ones that `PROJECT.json` lists
for it (`mutants`).

### What the models leave out, and why it may

**Demand, lease, device thread, socket.**
`DeviceState`'s displayed fields are written by the device thread and read by
the window; no decision of the lease depends on them, and the status broadcast
only reads them.  A leaser's empty hello subscribes to nothing, so it is left
out.  `LINGER` and the two-second watchdog are nondeterministic: they may end at
any pass after they start.  A reply queue is never full here, because a client
has at most as many answers on their way as it asked questions; full queues are
in `IpcChannel`.  `claims` in `HubThreads` is a set of owners; that the map of
counts behaves as that set is what `Demand` checks and proves.

**PitchZero.**  Time is reduced to three facts, stated in the module: `LINGER`
and the pause after a failed open outlast a poll when the result is there as
they start, and a measurement outlasts `LINGER`.  The averaging is a choice of
success or failure.

**Calibration.**  `Tick` reads the device's snapshot and acts on it without a
window in between, as the code does (one clone under one lock).  Dwell,
debounce and timeouts are nondeterministic waits.  Which points an improvement
run seeds as done is `\E seeded`.  Closing a session reboots the tracker,
connecting re-applies the stored blob; the tracker keeps its samples across the
computes between groups.  A reply's status is not checked by the code, so a
refused request is the same as an answered one and the only failure is no
answer.  `Unanswered` says which requests may fail that way, `"group"` and
`"compute"` being the same request at two places.  `Prompt` says that the
tracker answers or fails a collect within the tick that would give up on it.
The watchdog does not act while `cal.active`.  The flow's `Interrupted` arm for
a foreign token is unreachable, which `OwnSession` shows, and is left out.

**Connection.**  The tracker is external: it answers requests at most once and
in order, or ignores them.  A chunk that does not continue the frame in
progress is a framing error at once, which the code would notice some bytes
later.  The handshake's step cap and all deadlines are nondeterministic.  A
program makes no more requests than there are sequence numbers, give or take the
handshake's: an answer that is 2^32 requests late is not considered.

**Wire, Recap, Capture.**  Numbers are multiples of a field's own resolution,
bytes come in cells of eight.  Payloads of the capture do not put a split of a
fragment on a zero payload (see below).

**Commands.**  What a command prints is only whether it printed; the trackers'
values are a handful.  Subcommands that do not talk to the tracker are in the
modules of their subject.

**HeadTracker, FramePath, Recentre.**  One axis of each kind, integers, a linear
curve.  Contrast equalisation and quaternions are left out.  `Reseed` is 3 (10
in the code), `MinPoses` 4 (10 in the code, which a second of gaze frames
passes as easily), one camera frame is in flight.

**Accuracy, EyeView.**  Two of the three rows of dots; windows of 2, 2, 3 and 4
frames for 11, 3, 11 and 49.  Tilt and drawing are left out.

**GameSide, Profiles.**  Editing `games.toml` is one step (a read, a change, a
rename).  A check's fields are two keys.

**SettingsMenu.**  Editing `games.toml` is two steps, as in the code: the file is
read and one setting changed (`Reads`), and later the whole is written
(`Writes`) or nothing is (`WriteFails`, which stands for a kill too).  Nothing
locks the file in between (`lib.rs:3569-3573`, `edit_config`, `tobii games set`
in `main.rs:2031`), so an edit of one program undoes what the other set after
it was read.  `chosen` is what each setting was last set to, `undone` those that
were undone like this and not set since.  The hub edits on its one thread, and
does nothing else until it has written; of commands there is one at a time.
The file's settings are keep-awake and one other.

**WineFeed.**  Yaw stands for the six axes, and a receive's timeout for nothing
happening.  **Bridge.**  Nobody registers a client between a command's read of a
key and its write, which the code states as its limitation (`bridge.rs:1197`,
`1229`); one command at a time; TrackIR's own dll is left out.

**GameSetup, GameFiles, SteamFiles, RegFile.**  Texts are the cases their
readers tell apart: a construct, a character of each kind of escape, an entry
that leads nowhere.

**Store, ModelFile.**  One writer of each file at a time (see below).  A power
loss may keep any of the renames and of the contents that were not synced; a
rename is kept or not, never half.  The sync of the directory is best effort
(`store.rs:105-109`): where it is refused the save is reported done all the same,
and a power loss may then undo it.  All settings files are in one directory, so a
sync that is taken makes every rename before it durable.

**Install, UpdateFlow, Uninstall.**  Removals in a row are one step of an
updater; a kill can fall before and after every other step.  The scratch name
used while a staged copy is probed is left out.  Contents are: from which run,
and complete or not.  JSON, HTTP and wording are left out.

## Runs

| run | bounds | shows |
|---|---|---|
| `lease_safety` | two borrowers (symmetric), one window | nobody is told yes too early, twice, or instead of somebody else; the promise of `TrackerOwner` is kept |
| `lease_live` | one borrower that may ask twice, one exclusive flow | requests settle, `awaiting` drains, a dead borrower's lease is freed for good |
| `play_live` | one game, one flow, two commands, one unplugging | commands settle in order; the tracker lights and goes dark as wanted |
| `cal` | three trackers, below | the flow acts on its own session; the realm is known; success is on disk; acks are charged once; a complete run was fitted to every point; sessions end |
| `hub` | twenty-one parts, below | what the hub and the commands hold, show, save and decode |
| `files` | eleven parts, below | files others have a hand in |
| `live` | twelve parts, below | what must come about |
| `early_hello` | one game | **violation**, see Findings |
| `pitch_linger` | one press of Start | **violation** |
| `cal_short` | one session, one pair of points, a slow tracker | **violation** |
| `port_frees_up` | one game, one other session | **violation** |
| `one_flow` | one monitor, the part `flows` of `hub` | **violation** |

**Parts.**  `hub`, `files` and `live` each check modules that share no state.  A
behaviour is one part's, named by the variable `which`, and each property is the
conjunction of what is asked of the parts it is about.  The modules theorems are
about are extended, and checked under the names the theorems use (`Demand`,
`Connection`, `HubWindow`, `PitchZero`, `Recentre`, `HeadTracker`,
`SettingsMenu`, `Commands` by `MCHub`; `Install`, `Uninstall`, `Store`,
`Bridge`, `GameSetup` by `MCFiles`); the others, and a second instance of any, are
instances whose variables are kept in a pool (`v1`, `v2`, …) that they take turns
to use.  So a part's states
are exactly those of its module with the constants given there, and nothing is
composed that the program does not compose.  In `live` a part's fairness is its
module's, asked while that part is the one.

| run | part | module and instance |
|---|---|---|
| `hub` | flows, wizard | `HubWindow` with one monitor; with two and drags |
| | demand, usb | `Demand` (a latch, two windows of one exclusive reason, two clients); `Connection` (handshake and the requests after it, five in all, two samples, numbers modulo four) |
| | pitch, recentre, frames, head | `PitchZero` (two runs, a lease, an unplugging); `Recentre` (one turn of the head); `FramePath` (five frames); `HeadTracker` (eight frames) |
| | wire, recap, capture | `Wire`, `Recap`, `Capture` |
| | commands, recordings | `Commands` (one command, two readings; two commands, none) |
| | menu, autostart, profiles | `SettingsMenu`, `Autostart`, `Profiles` (two commands, one save by hand) |
| | accuracy, blinks, eyes | `Accuracy` (every fault, no event; one fault, one blink or glance); `EyeView` |
| | report, calendar | `Diagnostics` (threads and reports; the days around the epoch, leap days and centuries) |
| `files` | install, uninstall | `Install` (two updaters, two binaries, two runs, one kill); `Uninstall` (an install directory of each kind; a second one that is empty, or has the window's program, listed or not) |
| | store, model | `Store` (two saves of one writer, of the calibration, a clamped value or a switch; a new file takes the least free inode, which are alike); `ModelFile` (the command line, one crash) |
| | bridge, setup | `Bridge` (two commands, one visitor; with a launch, one command); `GameSetup` (two jobs; one job, and one change from outside) |
| | gamefiles, steam, registry | `GameFiles`, `SteamFiles` (four changes by Steam or the user), `RegFile` |
| `live` | pitch | `PitchZero` (two runs, another consumer, an unplugging) |
| | game, wine, launch | `GameSide`, `WineFeed`, `Bridge` (a launch behind a running bridge) |
| | eyes | `HubWindow` without flows |
| | update, model | `UpdateFlow`, `ModelFile` (the hub, one crash) |
| | socket, hubs, race | `IpcChannel` with one hub and a client that stopped reading; with three hubs one after another; with two that start together |
| | tray, login | `Tray` with a window; in background mode |

**Calibration's three trackers** (`MCCalibration`).  `slow`: one session over a
pair of points, every request that can go unanswered, one lost connection.
`again`: two sessions over one point with the same.  `prompt`: two sessions over
two groups, four collects each, with a tracker that answers or fails a collect
within the tick that would give up on it, and fairness.

**Why the bounds are enough to meet the interesting cases.**  Every hazard of the
lease needs at most two parties: a holder and a rival, or a holder and the
hub.  Two runs of a dialog or window are what a stale token, command or ack
needs: one that sent it and one that would mistake it.  Two points in a group
are the least at which an ack can be charged to the wrong one, two groups the
least at which a compute happens between them.  Two binaries are the least that
can be torn apart and two updaters the least that can meet; one kill, because a
second one stops a run that only repeats the first.  Sequence numbers modulo
four wrap within a run's requests, past the zero that is stepped over.  A
rejecting filter's hold, a tracker's reseed and a hint's hysteresis are each
reached and passed within the frames given.  One visitor is enough to change
each key after it was read, one save by hand to come between a profile's two
reads.  A queue of one is full as soon as one message waits, which is what the
code does at 64; three hubs are one that dies, one that takes its path, and a
diagnostic one that may not.

Deadlock is checked in the runs of `LeaseHub`, in `cal`, `cal_short`,
`pitch_linger` and `port_frees_up`.  In `hub`, `one_flow`, `files` and `live` parts
really end: a command, an uninstall, a capture that was read.

**Fairness.**  The hub's two threads are loops that never wait for one another
with a lock held: weak fairness of each thread's step.  Readers, the accept
thread and the linger clock progress on their own; a program acts on what it
was told and the kernel closes what a dead one held: weak fairness per client.
Nothing makes a user start or end a program, open or close a window, send a
command or plug the tracker in.  In `PitchZero` the GTK main loop runs its
timeouts, and a borrower gives the tracker back.  In `Calibration` the window's
tick and the device thread are weakly fair.  The window's three time limits are
strongly fair: each counts ticks while its phase lasts, and so passes if it can
pass again and again.  The watchdog and `LINGER` are not fair there.  In
`GameSide` both threads poll and `LINGER` ends.  In `WineFeed` every thread runs,
a feeder retries once a second and binds if the port is free again and again, the
game polls as often as it draws, the hub has a head to report and no other
program keeps the port for ever (the premise of the sentence that is
checked).  In `HubWindow` the 33 ms tick fires and the device thread takes its
commands; in `UpdateFlow` and `ModelFile` workers run and transfers are bounded
in time; in `IpcChannel` the writer and reader threads run and a client that has
not stopped reads; in `Tray` the bus delivers; in `Bridge` a child that was asked
to stop is stopped.

## Findings

- **`early_hello`** (`tobii-ipc/src/server.rs:129`).  A reader thread starts
  before its client is on the list.  A hello drained in between is reaped in the
  same pass; the client stays connected for ever and the tracker dark.
  `play_live`'s `SubscriberLights` shows it is the only way.
- **`pitch_linger`** (`device.rs:1160`).  The dialog takes the focus and the
  hub's claim goes.  A measurement outlasts `LINGER`, so its session closes as
  soon as it is done, and the idle reset wipes the saved result before the
  dialog's next poll.
- **`cal_short`** (`calibrate_flow.rs:1525`).  A discard queued behind the
  collect it means to cancel: the ack is read as a capture, the sample is then
  thrown away, and the run is reported complete on one point fewer.  It takes
  an ack slower than the gaze gap the flow tolerates.
- **`port_frees_up`** (`bridge/core/src/feeder.rs:256`).  `published_frame` keeps
  the outcome of its first look at the mapping.  A game that asks while another
  session holds the port finds none, and reads nothing for the rest of its life,
  though its own feeder binds later and publishes.
- **`one_flow`** (`tobii-gtk/src/lib.rs:2437`).  Only `launch_forced` sets the flag
  the tick looks at.  A flow opened by a button before the tracker connects gets
  a forced one over it, which the comments at 1355 and 1561 say must not be.

Met on the way.  Each has a formula or a premise in its module that says so; the
formulas that name a property here fail on the code and are in no run.

- `fail_queued_command` (`device.rs:1512`) assigns the whole `PitchCal` without
  looking at its token, so it can overwrite a later run's claim: `DialogAnswered`
  is of a dialog that does not meet one.
- When the last compute goes unanswered and the stop after it is acknowledged,
  the abort skips the restore until the next connect: `Restored` is checked with
  computes that are answered.
- Two updaters at once can leave binaries of two releases side by side, each
  reporting success, and the sweep of one removes the scratch files of the
  other, although the comment above it means to prevent that
  (`install.rs:1487-1490`): `AllOrNothing` is of a run that was alone.
- Staged copies are not synced to disk before they are renamed over the old
  ones.  The model's kill is of the process; a power cut could leave less.
- An install that runs is ended with the application when the last window is
  closed by Quit (`update.rs:594-599`, `lib.rs:2817`): `InstallOutlivesQuit`.
- Two writers of one settings file, or two fetches of the model, share one
  temporary name (`store.rs:74-76`, `model_store.rs:228-230`): a reader can then
  find half a file, which the comments rule out.  The runs have one writer of
  each.
- `write_atomic` returns `Ok` whether or not the directory was synced, as its
  comment says (`store.rs:100-104`): a save reported done can be gone after a power
  loss.  `SavedIsLoaded` is of what was reported by the last sync that was taken.
- `games.toml` is read, changed and written with no lock (`lib.rs:3569-3573`), so
  the switch and `tobii games set` at the same moment lose one of the two
  choices.  `ChoiceStands` is of settings to which that did not happen since they
  were last set.
- Two hubs that start in the same instant can both remove the other's socket
  (`path.rs:163-168`): `LiveKept` is of hubs that do not.  The loser stays deaf,
  and a status dropped by a full queue is not said again.
- The handshake takes any answer for its step's.  That is right while the
  tracker answers in order and at most once, which `OwnAnswer` checks.
- Gaze queued while a request waits is delivered by `next_gaze`, but never by
  `read_notifications`: `GazeKept` is of programs that read by the first.
- A fragment of a capture whose split falls on a zero payload takes it for an
  envelope (`out_parser.rs:73-82`), and the two directions do not agree on what
  a split may look like (`parser.rs:84-98`).
- `tobii probe-streams` with the gaze stream among its ids leaves the tracker
  without it (`main.rs:845-850`).  A command that is killed leaves the device
  open; `record` writes its file in place.
- The view of the eyes is that of the session before until the first frame of
  the new one (`widget.rs:49-50`; only the idle reset clears it): `NeverStale`.
  The words count frames that are not centred whichever hint they carry, and a
  hint may be shown that has not been steady (`eyeview.rs:502-505`):
  `SteadyBeforeShown`.
- The accuracy sweep reads which eye is enabled, and how far away the user sits,
  when it is launched (`accuracy.rs:625`), which may be before the tracker has
  said either.  A run with one eye is then not announced as one
  (`accuracy.rs:819-823`): `LoudWhenMonocular`; and the band it marks as
  calibrated is that of the default distance (`accuracy.rs:386-389`):
  `BandIsReal`.
- A log grows one line past its cap (`log.rs:134-146`, `>`): `NeverOverCap`.  Two
  reporters that make the first salt in one instant carry two identities.
- `tobii games set` of one axis to a preset's angle makes the next refresh of the
  row select that preset, whose handler then saves both axes
  (`games.rs:484-494`; the comment at 618 says a refresh saves nothing):
  `RefreshKeeps`.
- A folder whose name begins with `#` is added and read back as a comment
  (`custom_games.rs:222-241`): `AddedIsListed` is of the other folders.
- When two checks of a profile have one name and the first goes, the comment of
  the first may come back at the second (`profiles.rs:595-596`):
  `NoteKeepsItsCheck`.
- A panel that comes or goes between the hub's question and its subscription
  (`tray.rs:388-397`) is not noticed: `IconIsThere` is checked with panels that do
  not (`EarlyPanel`).
- A reconnection while the window is hidden is not seen by the eye radios
  (`lib.rs:1046-1047`, `2502-2510`): `EyesAgree` has it as a premise.
- A registration between a command's read of a key and its write is lost
  ("LIMITATION", `bridge.rs:1197`).

## Proofs

The theorems hold for every value of the constants that the modules' assumptions
allow: any sets of windows, clients, reasons, updaters, requests and points
(finite where something is counted), any bounds.

**Demand** (assumes finite sets of owners, disjoint by kind).  `HeldCounts` is
inductive with `TypeOK`: the count of a reason is the cardinality of the set of
its live guards.  The lemmas are about what one hold and one drop do to that
cardinality.  `SubscribedKeepsLit` and `ExclusiveExact` follow from it.

**The lease** (assumes that clients, the hub, windows and `NoOne` are different
things).  Neither `HeldMeansReleased` nor `GrantHolds` is inductive.
A borrower keeps the lease only because no message of its own can still release
it, because it is on the client list, and because the pass of the socket thread
under way has seen it there; a hub stays off only because a session cannot begin
while the lease is not free.  So
`LeaseInv` adds: who has the USB interface where (`Owners`), that a connection
nobody closed is alive (`Connections`), that a release is the last thing a
program says (`ReleaseIsLast`), and that whoever was told yes, read or not, is
the holder, on the list, and in the pass's view of it (`HolderIsKept`).  It is
proved action by action, and gives `GrantHolds`, `YesIsForTheHolder` and, step
by step, the refinement of `TrackerOwner` (`LeaseKeepsPromise`).
`CommandsInOrder` is an action property and has an invariant of its own,
`QueuesInv`: the two queues of commands hold consecutive numbers, those of the
channel after those the thread has taken, and a session starts with none taken.

**Connection** (assumes fewer requests than sequence numbers, the handshake's
apart).  What is on its way is the concatenation of what the transfers hold, so
the lemmas come first: what `FlattenSeq` yields of an appended and of a
concatenated sequence, and what it keeps of a homomorphism.  The library states
induction with an operator as its parameter; they go around it through sets,
taking the least element of what would be a counterexample (`SetInduction`).
`ConnInv` then adds to `StreamIsKept`: the transfers still to be read continue
one another and end with a whole frame (`Unbroken`); which request the handshake
is at, and that one of its requests or answers exists at a time (`StepAt`,
`OneAsked`); and that what was asked is numbered in order around the wrap
(`Numbered`), so that two requests of one kind differ.

**Calibration** (assumes groups that are not empty, of finitely many points).
`CalInv` is `TypeOK`, `RequestedIsFocused`, `RealmKnown` and `RealmInSession`:
a realm is open only in a session, and then `cal_session_open` says so.  It
gives that the flow's `expect` on the focused point cannot fail and that an open
realm is never forgotten, whichever requests fail.  `SessionInv` follows the
tokens: a flow that waits has its `begin` in the queue behind every other
session's commands, or the device thread has taken it up and nothing is queued
that would replace its `CalPhase`; what the tick looks at is not ahead of what
is there.  It gives `OwnSession`, `AcksAccounted` and `OkIsSaved`.

Two more theorems are about a tracker that answers a collect before the flow
gives up on it (`Prompt`, as the third instance of `MCCalibration` has it), with
anything refused and any number of sessions dropped.  `CompleteInv` says where a
run is: nothing comes between `begin` and the first group (`Starting`); what the
flow captured the tracker holds, and an ack the flow has not seen is of the
point in focus, because a collect is the last thing queued and a discard is of
a point not captured (`Tracked`); a group that could not be computed ends the
run (`Doomed`); and when all are captured only the finish is left
(`FinishComes`, `FinishIsDone`).  So a run shown as complete was fitted to every
point (`CalCompleteRun`).  `RestoredInv` says that a closed flow's abort is the
last thing queued or has been run, and that outside a known session the tracker
is on the saved calibration.  That needs the requests which put it back to be
answered (`Answered`: stop, apply, compute, retrieve, save), and then gives
`CalRestored`.  The code has no second attempt at any of the five: with one of
them unanswered, whichever it is, TLC finds a closed flow that left the tracker
elsewhere.

**HubWindow** (assumes nothing of its constants).  A window takes the least of
four numbers that is free, so `ClaimsOwned` needs that one is: there are three
families of windows, the preview, the flow of a button and the one that is
forced, and at most one of each (`WindowsApart`).  `ForcedOnce` is an action
property: what was forced since the tracker connected is not due again, because
setting up comes before calibrating and what it wrote stays on disk
(`ForcedInOrder`), and the hub asks again only when what it asked for is there
(`ForcedIsDone`).

**PitchZero** (assumes a natural number of runs).  `PitchInv` follows a token: it
sits in one place of one queue, is not the one being sent, run or saved
(`OneQueue`), and once dropped never owns an active state again (`OwnRun`).

**Install** (assumes natural numbers).  `AlwaysRunnable` holds because only a
staged copy that was run, or a backup of what was in place, is ever renamed over
a binary: `StagedWereRun`, `LinksWereInPlace`, `AtStaged` and `NoneStagedYet`
say where those are at each point of each updater, whatever the others remove.
`WholeInv` says of an updater that nobody interfered with what it has done so
far: no other was alive since it began (`AloneIsOne`), what it changed is its
own and the rest is as before (`ChangedIsDone`), its links are to what was
there, and its place in the loop is its place among the binaries (`Passed`,
`Ends`).  `UpdateIsWhole` follows at its end.

**Uninstall** (assumes that directories, entries and this program's own place
are of their types).  `UninstallInv` relates the disk to the plan and the plan
to the judgement it was made by.  What is planned was judged to be ours, and
this program is not in the list (`PlanIsJudged`), so what has gone was judged
(`GoneIsJudged`): `OnlyOurs`.  Nothing goes before the copies that are to be
stopped have stopped (`StoppedFirst`), and from then on each binary that was
judged has gone, has failed, or is still to come (`AllIsDone`): an uninstall that
reports success has removed whatever the entries it removed could run, which is
`SwitchesNothingOff`.  This program goes when all else has and nothing failed
(`SelfLast`), which with the manifest's lines (`LinesStay`) is `Retryable`.

**UpdateFlow** (assumes that no release lists more than two files for one package
manager, which is how many names a folder has in the model).  `SavedOrNothing` is
of what the banner says long after the worker that earned it has gone.  There is
one worker at a time and its button is grey until its word is taken (`OneWorker`),
so nothing starts between the word and the banner.  A worker past its second look
at the folder has the folder to itself, has taken each file in turn, and of the
one it is at there is nothing before the transfer (`InTurn`): whoever may make or
write such a folder is shut out by that look (`PrivateFolder`), which is why a
file may be counted as written before its digest is compared, and why what a
failure discards is all there is.  `OutcomeIsSo` carries what the worker found to
its word and from there to the banner; a digest that matched stays matched because
nobody else may write there.  `Sums` is read once and kept, so what is compared
is what was fetched.

**Recentre** (assumes that a window and a loss are over before the status line
is, and that a measurement asks for more than three poses).  A pose that was
published before the request may still be counted.  `RecentreInv` says how
often: there is one rotation published and not yet counted, one being worked on,
and one of an earlier session's worker, so at most three are to come
(`StaleLeft`), and a measurement that has seen one posture only, and that one of
before, has fewer poses than it needs (`RunIsOfNow`).  `RefIsHeld` follows, with
`MinPoses > 3` as what it rests on.  `AnsweredInTime` is a matter of ages: while
poses come a measurement is no older than its window, without them it ages with
the loss, and a head that is lost ends it at the next frame, which the watchdog
puts at most a unit away (`RunEnds`).

**IpcChannel** (`WholeInOrder` of any hubs and clients and any queue, buffer and
read; `LiveKept` assumes that hubs do not start together, as the session bus
sees to but for the diagnostic).  What a client was handed, the units on
their way to it (reader's buffer, pipe, writer) and what is queued for it are
one line of numbers that rises (`Line`); what is on its way are whole frames but
for the last of a connection that was cut (`Framed`); and the units are twice
the messages still missing (`ChannelOK`).  There is one lemma per thing that can
happen to a line: a message said, taken, written, read, cut off.  A read takes
any number of units, so the work is in what `Decoded` returns of a beginning of
the line (`DecodedFrames`, `ReadOfLine`).  A hub that serves keeps the path
because one hub starts at a time and unlinks only while none serves
(`PathInv`).

**Store** (assumes that one process saves at a time, that the metadata of a
calibration are saved after its blob, that a switch is saved as on or off, and
that values are not the marks for no file, junk and truncated).
`NeverHalfWritten` says only that nothing half written is under a file's name.
For that to survive a power loss, what is under a name must be whole four times
over (`AllWhole`): the names as seen and as kept, each with the bytes as seen
and as kept, because either may reach the disk before the other.  A `create`
cuts a file, so the temporary's inode must be under no other name, seen or kept,
and what is seen of one file must not be kept of another, because their renames
may reach the disk one by one (`NamesApart`); a rename publishes what the writer
has put there, so its steps are followed (`AtWork`).  `SavedIsLoaded` adds what
may be there: as seen, what was last reported saved or put there since
(`acked`); after a power loss, the same as of the last time the directory took
its sync (`lasting`), of which the former is a part.  Everything in either was
saved whole (`AckedThere`), the blob before the metadata (`InOrder`).  So a save
that was reported done may be gone after a power loss, and the theorem says
when: where the directory was not synced since, and then what is found is what
was there, whole.  The assumption of one process is what the code needs and does
not see to (see Findings): two share a temporary, and then a reader finds half a
file.

**ModelFile** (assumes one installer, for the same reason).  `NeverHalf`: an
installer past its digest has bytes that passed it, the temporary is its own
until the rename, and nothing else writes the final name (`Pinned`), whatever
the card, the command line, the device thread and a crash do in between.

**Tray** (assumes that no panel comes or goes between the hub's question and its
subscription, see Findings).  The bus answers in order and tells later, so
`IconIsThere` of a quiet bus needs what is true of a busy one: how far `install`
is (`AsFar`), that the name is granted once and before anything else is heard
(`NameFirst`), that the last word on its way about a panel, or the last one heard,
is how it is (`LastWord`), and that a panel without the icon is about to be told
(`IconComing`).

**GameSide** (assumes nothing).  `JoystickGone`: what the hub says of the
controller is how it is, a claim for it is made only when it is there
(`ControllerKnown`), and an output of a session that has it was opened with it
(`Held`).

**WineFeed** (assumes that the writers of the page are different programs and
that the numbers of frames wrap after at least two).  The
page is copied in two pieces, so `Whole` is of who reads it with the mutex.  Only
who has the port goes on to write, and there is one (`PortIsOnes`); who copies has
the mutex and a whole frame in hand (`Copying`); with the mutex free and nobody
ended while holding it the page is the empty one or whole (`PageIsWhole`), and
what a game keeps was read so (`ToldWhole`).

**Bridge** (assumes nothing).  A command reads the registry, decides, copies,
writes and takes back, and may be stopped after any of it while others register.
`BridgeInv` says what a command under way relies on: without a wineserver the
file is the registry (`FileIsTrue`); what is noted as replaced was there
(`NotedIsGiven`); from its decision to its write an install's key is as it was
judged (`Decided`); the client is in the directory before a key names it, and
no key does when the directory goes (`FilesFirst`); the stamp stands beside a
provider of its version (`Launchable`); and a report knows what it says nothing
of (`Reported`).  It gives that no key dangles, no launch hangs and the advice of
`status` goes through (`PrefixIsSound`), and, as an action property, that no
command takes out a value somebody else's tool has put there (`TheirsStay`).
`Decided` rests on the limitation the code states: nobody registers between a
read and its write.

**GameSetup** (assumes that no game is the mark for none selected).  `SetupInv`:
there is one child and the slot for what runs holds its game and verb
(`OneJob`); the answer kept is the last job's (`AnswerIsLast`); what the page
shows is what the slots hold now (`PageIsNow`); a row is right unless others, or
the job under way, have changed its prefix (`RowsAreRight`).  `AddedIsListed` is
of folders whose names do not begin with `#` (see Findings), and needs no more
than that the file's list is shown.

**HeadTracker** (assumes that pictures have pixels, that `Reseed` is not zero, and
that a face the network is sure of gives a region `plausible` keeps).
`LostIsFound` counts the frames in a row in which a fresh seed would reach the
face and nobody is found.  While a region is held each of them is a miss as well
(`HeadInv`), and the last of `Reseed` misses drops the region; the next frame is
then looked at from a fresh seed.  The drop is in `Missed`, which every way out of
a frame without an answer passes, the runtime's failure among them.
`CropInFrame` is a fact of the operators: whatever two glints are found and
however the box is padded and squared, a cell of the crop is of pixels of the
frame, clamped at its edges.

**SettingsMenu** (assumes that a hint stays for a natural time).  `ChoiceStands`
needs that the tick only reads, that an edit in hand carries, for every setting
but its own, what that was last set to, or has it down as missed (`EditInv`):
writing it then leaves each setting as chosen, or `undone`.  The theorem says
nothing of the value of a setting that is `undone`, which is the edit the code
loses, and all of every other.  It also needs that a button moves the step that is
saved and the one on the screen alike and is not there at an end (`TextInv`), and
that no time passes over a timer that is due: then the timers are of different
ages, the hint is the newest one's, and an older one that fires finds another's
(`HintInv`).

**Commands** (assumes that streams are a sequence of names and that nobody names
one of the two replayed recordings as the file to record to, which is recorded
over as asked).  A command is its list of steps, so most lemmas say of one list
that it is `Balanced`: what it starts or subscribes to, a later step stops or
unsubscribes.  `LookInv` then says of a command that looks and has had its
answers: whatever of the tracker is not as it was found is still to be undone in
the steps that are left.  `SaveInv`: only a recording saves, and one of a
calibration has retrieved it by then.  It gives `LeavesAsFound` and
`FixturesCover`, whichever requests are silent or refused.

**FramePath** (assumes whole numbers, and a natural number of frames to hold
back).  The gate holds what it accepted last, and the frames it has not believed
since are the newest there were (`HeldSince`): so after `MaxHeld` and one more
frames in one place the accepted one is among them, which is `GateOpens`.
`Returns` needs that whoever was forgotten has left neither a neutral nor a view
(`NobodyKept`), and that a filter without poses is a new one.

**Autostart** (assumes that each path a program may be installed at is read back
from its quoting as it was; the run is what shows that of paths with each kind of
character).  A copy that was not removed is where it was started from
(`StillThere`), what is about to become the entry is its path (`AboutToBe`), and
nothing takes a program away between the two steps of a save.

**EyeView** (assumes a window of at least a frame, and that admitting the loss of
the eyes takes at least two frames and no fewer than a hint).  What the words
display is always what was let through last, and as long as they differ from
the verdict each frame of it has counted (`DamperCounts`): the count ends below
`HYST_TO_NO_EYES`, though a hint and a loss share it.  The offset is as old as
the eye that has been away longest (`OffsetAges`), so past that age nothing
stands in for the eye, and the frames since are the newest of its window and
blank (`WindowsEmpty`); a window of them leaves nothing to extrapolate from.

**Only model-checked.**  All liveness: fairness and ENABLED are beyond the
prover.  What the decoders, readers, profiles and the capture compute of every
input (`SentIsDecoded`, `ReadsAreTrue`, `ProfileKept` of `NoRelapse`): recursive
definitions over data, which the prover cannot expand.  `RunIsComplete` asks of one
of the run's three trackers what `CalCompleteRun` and `CalRestored` prove of every
tracker that meets their premises.  Likewise `PartsAgree` asks of its instances
what `GameJoystickGone`, `WineWhole`, `TrayIconIsThere`, `UpdateSaved` and the
theorems of `IpcChannel` prove, and `ShownIsSo` and `NoRelapse` what
`FrameGateOpens`, `LoginAsTold`, `EyesSettle` and `FrameReturns` do.  The rest of
`ShownIsSo` (`Accuracy`) is arithmetic over lists of readings, and `ReportIsSound`
(`Diagnostics`) is about texts and the calendar: modules without a theorem.

## Not modelled

- Scripts and packaging: straight-line shell, nothing reads what they write
  while they run.
- Hashes, JSON, paths, `.setpm` and gaze signatures, the realm's challenge: pure
  functions of bytes with known answers, which the tests hold them to.
- Drawing and layout: the help window, the overlay, particles, the eye preview,
  styles and wording.
- The network's inference and its quaternions, contrast equalisation, the
  averaging of the pitch, the curve of a joystick's axis beyond a line.
- `quiet_since`, which a command of a minute does not refresh (`device.rs:1662`):
  the watchdog of `HubThreads` may end a session at any pass, which covers it
  and says nothing about the time.

## Plan

Of the proofs, the sweep of `Accuracy` is next (`VerdictIsTrue`: which samples a
dot is measured by), as far as it does not rest on sums of lists.

Of the models, what would add most is a second writer of one file (`Store`,
`ModelFile`) once the code gives each its own temporary name, and the flows of
`HubWindow` over the whole of `HubThreads` in place of a connection that comes
and goes.
