# Vayume in TLA+

Vayume is a NixOS flake with the tools that run on the finished machine: a command line that edits the flake's
host file, a settings panel on top of it, proxies that let containers talk to the display server, an update
service, scripts that theme the Zen browser from inside, scripts around Tor, power saving, storage and state, and
the QML of the desktop. Most of the repository
is declarative configuration, which has no behaviour to check. This directory models the rest: programs that
change shared state, overlap, fail half-way and come back.

Every definition is translated from the code; `PROJECT.json` names the lines. Words in monospace are names of the
modules or of the code.

## Parts of the system

| Part | State it keeps | Operations | Talks to |
|---|---|---|---|
| `vayume config`, editing (`modules/vayume/Config.nix`) | `_config.nix`, one `.bak`, a `mktemp` file per command | some twenty subcommands that rewrite one block with awk, rename, evaluate, keep or revert | the owner's editor, every other `vayume config` (no lock), `nix eval` |
| `vayume config`, reads (`with_cache`) | `~/.cache` entries named by a stamp of all times under `modules/` | listings for the panel | the editing half, whose temporary files change the stamp |
| `vayume config repo`, rebuild (`desktop/dms/_rebuild.nix`) | the time of `/run/current-system` | rebuild, `rebuildPending` | the host file, boots |
| Settings panel (`desktop/settings/qml/VayumeModel.qml`) | what each page shows, a debounce timer, one `Process` per kind of write and per page | clicks, writes, listings, failures | `vayume config` |
| `wl-focus-proxy` (`distrobox/wl-focus-proxy/src/proxy.c`) | per connection: two id maps, two byte buffers, two descriptor queues | relay, withhold, rewrite, hang up | a client in a container, the compositor |
| `x11-focus-proxy` (`distrobox/x11-focus-proxy/src/proxy.c`) | per connection two threads over two sockets, and the client's byte order, which one thread learns and the other uses | relay, drop two kinds of event, pass descriptors on, end | a client in a container, the X server |
| Automatic updates (`core/AutoUpdate.nix`) | the checkout, saved copies in a directory of the run, `status.json`, a lock | update inputs, bump pins, build, restore | git, the network, `nixos-rebuild`, the owner, the timer |
| Plugin update checker (`core/PluginUpdateCheck.nix`) | pins in module files, a JSON cache | report, resolve hashes, apply | marketplaces, the updater |
| Tor switch (`system/network/Network.nix`) | iptables chains and rules, a state file | start, stop, reload with the firewall | systemd, the firewall |
| Ultra saver, power profiles, widget toggle, pet | files that remember what to put back | saver on and off, hide and show | compositor, DMS, systemd |
| Session links, backup, storage cleaning | links from home into a state directory, archives | activation, backup, restore, clean | the owner's files |
| Zen's theme scripts (`zenBrowser/fx-autoconfig/chrome/JS`) | per window what the script read last (palette, stylesheets with their times, known domains); eight prefs; one store of boosts; per content process the last stylesheet and a timer | poll files, write prefs, broadcast to pages, create and tint boosts | matugen and the shell, who write the files; the pages' actors; the user, who edits boosts |
| fx-autoconfig's loader (`zenBrowser/fx-autoconfig/chrome/utils`) | the pref that lists what is off; per script whether it runs and whether it failed; the windows | inject classic scripts, import modules, toggle | every browser window, the menu |
| The rest | none at run time | module options, drawing, packages | |

The hard behaviour is in five places. Commands share files **without a lock** (`Config.nix`, the cache, the
checkout). Operations are **several steps that can stop in the middle** (the backup and revert of `apply_edit`,
an update run). **Answers arrive late** (a listing that was taken before a write, a read stamp taken before an
answer). The proxies must stay in step with **two peers they cannot see into** (object ids that are used again,
descriptors that travel apart from their bytes). And in the browser **several windows run the same script** over
shared prefs and boosts, each with its own timers and its own idea of what is new.

What makes each part correct:

- editing: each command replaces the stored configuration by its own edit or leaves it as it was; the file that
  stays evaluates; somebody can still `sudo`; the account that runs the command stays, whatever comes back.
- reads: a cached answer is the answer for the files as they are; half an answer is never read.
- rebuilds: a file that says something else than the running system is reported.
- panel: a page at rest shows what is stored, and what the user asked for is stored or was reported as failed.
- proxies: a FIFO channel in each direction, except for what is withheld on purpose; it is known what each message
  is; each message has its own descriptors; nothing stays inside; the process or thread ends when a peer leaves.
- updates: a failed run leaves the checkout as it was; what is installed is the checkout; the owner's edits survive; the
  schedule really keeps the machine current.
- Zen: windows, pages and boosts end up with the palette and styles that were written last; a page has one palette;
  no site gets a second boost or loses the user's own CSS.
- loader: what the user left on runs in every window, what was turned off or failed does not, `@onlyonce` is once.

## Modules

| Module | What it is |
|---|---|
| `ConfigFile` | the host file as data: users, attributes, apps, theme fields, settings; the awk editors as functions on it; what evaluates |
| `ConfigEdit` | any number of processes that run the editing commands, step by step |
| `ConfigStore` | abstract: one stored configuration and atomic edits |
| `ConfigRefinesStore` | the refinement mapping from `ConfigEdit` to `ConfigStore` |
| `ConfigEdit_proofs` | theorems about `ConfigEdit` and its refinement |
| `ConfigCache` | `with_cache` beside `ConfigEdit` |
| `ConfigRebuild` | rebuilds and boots beside `ConfigEdit` |
| `ConfigSystem` | the two together: one file, its writers, readers and the rebuild |
| `ConfigSystem_proofs` | theorems about readers and rebuilds |
| `SettingsPanel`, `SettingsPanel_proofs` | the panel's view model, and theorems about it |
| `WlProtocol` | the part of Wayland the proxy has to tell apart, and its tables and filters |
| `FocusChannel` | abstract: two FIFO channels with a focus filter and hang-ups |
| `WlRelay`, `WlRelay_proofs` | one connection of `wl-focus-proxy` with its two peers, and theorems about it |
| `X11Relay`, `X11Relay_proofs` | one connection of `x11-focus-proxy`, its two threads and its two peers, and theorems about it |
| `AutoUpdate` | update runs, the owner, upstream and the machine |
| `AutoUpdate_proofs` | theorems about `AutoUpdate` |
| `ZenFiles` | the files the theme scripts poll, and those who write them |
| `ZenBoosts` | Zen's store of boosts, and what the scripts do to it |
| `ZenPages` | prefs, pages, content processes and the messages to them |
| `ZenBridge` | the two theme scripts in each window: init, timers, observers |
| `ScriptLoader` | which scripts run in which window |
| `ZenSystem`, `ZenSystem_proofs` | all of these together over several sessions, and theorems about it |
| `SequenceFacts` | lemmas about lists, for the proofs about the relays, the loader and the pages |
| `MCConfig`, `MCSystem`, `MCPanel`, `MCRelay`, `MCX11`, `MCUpdate`, `MCZen` | values for TLC |

### Editing: `ConfigFile`, `ConfigEdit`

A file is a content and a modification time. Content keeps only what the commands and the properties tell apart:
which users have a block (and which have two, after two overlapping `users add`), a set per user and attribute, a
state per app, a value per field, the set of settings. `Finds` says when an editor finds its block, `Apply` what
it writes; an editor that finds nothing ends the command.

A process's command goes `evaluate` (the `nix eval` of the list it merges into) → `admins` (`refuse_last_admin`) →
`write` (`new_tmp` and awk) → `backup` (`cp -p`) → `swap` (`mv`) → `validate` → `keep` (`rm`) or `revert` (`mv`),
as its kind requires; each arrow is a point at which another process, the owner's editor or a signal may come
in. `errexit` is off inside `apply_edit` (it is the condition of an `if`), so a failed `cp` or `mv` goes on; the
trap removes only the temporary file. `guarded` commands carry the time their caller read; `check_since` compares
whole seconds, once. `settings` commands are not validated, as in the code.

Abstracted: `cp` is one step; a user can be there twice at most; validity of arguments is folded into `Edits`; the
package list's `off` key is not kept; a signal that cannot be trapped leaves a temporary file that nobody reads.

### Reads and rebuilds: `ConfigCache`, `ConfigRebuild`, `ConfigSystem`

`RepoStamp` is the times of the file, the backup and the temporary files; names only matter as "there or not", and
sizes, which only distinguish more, are left out. An answer is the content it was computed from. The reader's
steps are those of `with_cache`, with the shell's opening of `$file.tmp` (which empties it) apart from the write,
so that two readers and a kill can come between.

`vayume-rebuild` asks nobody: `StartRebuild` may come at any moment at which the file evaluates, beside commands and
other rebuilds (`builds` is what each has copied). `Activate` links `/run/current-system` to what was copied when the
rebuild started, `AbandonRebuild` is one that fails or is closed. `Reboot` may come at any moment too: it ends the
commands and rebuilds that are on their way and makes the link anew, to the same system. `gen` is the link, and `had`,
a history variable, the files (`_config.nix`, the backup, temporary files) that were there when it was made. A second
has `TicksPerSecond` writes, so a write and a link, or two writes, may have equal times to `repo` and `check_since`.

### Panel: `SettingsPanel`

One write `Process` per slot (`themeSetProc`, `setAppProc`, ...), one read `Process` per page, one timer for the
theme. Setting `running` on a process that runs makes it run once more with the command it has by then, which is how
Quickshell's `Process` behaves and why a third click replaces a second. `Enabled` is what the controls allow: a page
that is being read turns off those whose binding looks at `loading`, and the switches of the application and search
pages and the *Add package* rows, which do not, stay on. `vayume config` is one step here; `ConfigEdit` is where its
steps are. `wanted` is a history variable: the last value asked for of each control that was not reported as failed.
`user` is chosen at the start from `Users`: which controls he touches, whether he waits for the page to settle before
the next click, and whether listings may fail.

### Proxy: `WlProtocol`, `WlRelay`, `FocusChannel`

A message has an object, an operation, and, where it matters, the id it makes, a type and descriptors. One interface
stands for each kind the proxy treats differently: one in its tables, a global that carries no descriptor, one that
carries some and is withheld, one the tables lack. `LegRead` takes any number of messages from a socket and their
descriptors, which may come earlier than their bytes; `Pump` handles one message of the leg's buffer; `Poll` picks the
readable legs as `poll` does. Both peers follow the protocol: ids are used again only after `delete_id`, the
compositor uses its own ids again freely, and events may be on their way to an object the client has destroyed.
Sockets hold `Capacity` messages. `plan`, chosen at the start from `Plans`, is what the two peers may still do: how
many messages, which globals there are, who may hang up. Left out: the listener with `fork`, and messages split over
reads (the buffer keeps the tail, so the split is not seen by what follows).

### X11 proxy: `X11Relay`

`up` is `client_to_server`: `read` (`recv_fds` takes any number of messages, but stops after one with descriptors)
→ `store` (`conn.big`, once) → `send` (`send_all`, descriptors with the first byte of the batch), until an end.
`down` is `server_to_client`: it reads one message at a time, loads `conn.big` with the setup reply and never again,
drops or forwards. `forward` closes the descriptors of what it drops. A descriptor is attached to the first byte of
whatever it was written with, which for a peer that flushes several messages at once is not the message it belongs
to; a reader takes the oldest descriptors it has. `Join` is the end of `serve`. Sockets hold `Capacity` messages and
writes to a full one block. Left out: the listener, the bound of 32 descriptors, failed allocations, partial reads
within a message (nothing else looks at the stream in between).

### Updates: `AutoUpdate`

One action per command of `vayume-update-run` that something else can come between. Contents of `flake.lock` are
release numbers or `Mine`, an edit of the owner's; a plugin's module has a pinned release and a flag for any other
edit. `restore` is one step, and so is the read and write of a pin; the build copies the checkout in one step. The
service's lock keeps other runs out and nobody else: `RebuildBegins` and `RebuildEnds` are a `vayume-rebuild` by hand
that copies the checkout at any moment, in the middle of an update too, and installs the copy later (`hand`). A new
system whose units fail to start is running and next by the time the run learns of it: the run is then at `recall`,
where it puts the checkout back, as after any other failure, and not the system. History variables: `job[r].began` is
the checkout as the run found it and the two systems as others have left them since; `hand.alone`, that no run has
worked beside the rebuild; `cut`, that what is installed since was cut short by a kill, a checker that died, an
activation that failed or a rebuild that overlapped a run. A run that installs, or a rebuild alone, sets `cut` back.
With `Meanwhile` FALSE the owner edits files only between runs; rebuilds are not bound by it.

### Zen's theme: `ZenFiles`, `ZenBoosts`, `ZenPages`, `ZenBridge`

A file has a text, named by the time it was completed at, and a modification time; a write empties it first, so a
reader may meet half a file, which as JSON reads as null. `loadUserstylesFor`, `readWebThemeState` at start and both
`init`s ask for the time *after* the text was read, so a writer may finish in between ("late", `Overtakes`): the
window then has the old text under the new time, for a stylesheet, for the switch and for init's palette alike. The
poll records the palette's time *before* it reads. Two writes within one millisecond are not told apart and are left
out.

`bridge[w]` holds the script variables of window `w`: the palette's and the switch's recorded times, the cache of
styles, the known domains, the accent synced last. `InitBridge`, `Poll` and `UniversalRound` are the three entry
points (load, the short timer, the slow timer); each is one action, since the scripts read files synchronously and
wait for nothing but the boosts manager, whose arrival is `Imports`. In the middle of `applyJson` the prefs are
written one at a time while every other window's observer runs: `WritePrefs`, `Prefixed` and `ObserverCasts` fold
exactly those intermediate values into the messages that leave. Pages live in processes; `Home` says which ones a site
may get, and two sites may share one. `_lastInjectedCss`, `_observer` and `_observerTimer` of `MatugenChild` are
variables of the process, not of the page. Messages to one process arrive in order. The prefs reach a process one
after the other, apart from the messages: `trail[q]` is what process `q` has and what is still on its way to it, and a
page that loads (`Fresh`) reads what has arrived by then. `settled` is history: all had arrived, or the page was told
of them since.

`Close(w)` closes a window, with some of the tabs, while another one stays open: its timers and observers are gone, the
actor stays registered with the browser. If it was the first window, nobody broadcasts from then on. A process
lives on when its last tab goes.

Facts of the code worth knowing when reading the modules: only the first window's `registerActor` succeeds and only
it broadcasts, and it ignores its own observer, so open pages hear of a palette only when another window's poll sees
the file first; a stylesheet that is removed or renamed to `.disabled` stays in the cache; turning the switch off with
an empty global stylesheet sends nothing; `syncWorkspaceTheme` also tints boosts the user made; the parent's answer to
a new page does not look at the switch; `matugen-boosts` stops for good in a window without boosts manager.

Abstracted: a palette is its version (so colours, HSL conversion and the eight values are the version they came from),
one themed site (`github`) and the others, boosts as owner, hue, CSS there or not.

### Loader: `ScriptLoader`

`OnDOMContent` injects all classic scripts of a window in order (`FoldLeft` over `Inject`): a disabled script, one that
failed, and `@onlyonce` when it runs already are skipped; the second script that declares a name at top level throws
and is failed for the session. Matugen's bridge and boosts share such names, so with both on the one sorted first runs.
`ExecuteModules` is the module loader of the window, later; `Imported` the end of one import, good or bad, after which
`.finally` marks it as running either way. `Toggled` is `toggleScript`'s edit of the pref as a text, with its `indexOf`
that finds a name inside another one (`Within`). `LoaderRestart` is the restart from the menu: the pref stays.

## Runs

| Run | Question | Bounds |
|---|---|---|
| `serial_store` | does a command that runs alone do what the manual says? | one process, guarded or not, 3 users, 20 commands of every kind, two initial files; 3 writes, two to a second |
| `overlap` | does the caller's account survive two commands at a time? | two interchangeable processes, users added and removed (oneself too), an edit that fails to validate, a hand edit that mends it, interrupts, failing copies, in chains of any length; no clock |
| `system_reads` | do readers and the pending flag ever see something else than the file? | one writer with interrupts, one reader that may be killed, 2 readings, any number of rebuilds and boots at any moment; 3 writes and links, two to a second |
| `panel` | does a page end right, and does hurrying break a setting? | 7 controls over 5 slots, 2 values; a user who waits on 5 of them, or a hasty one on 2 settings with failing listings; fairness |
| `relay` | is `wl-focus-proxy` transparent, and does it end? | 2 client ids, 1 server id, 2 messages per socket; 4 requests and 3 events with a seat, the same with a data device, 3 and 3 with a toplevel, a global the tables lack and hang-ups, 2 and 4 with a toplevel, a client that waits for room and hang-ups; fairness |
| `x11` | is `x11-focus-proxy`? | 3 requests and 4 messages of the server, 2 messages per socket, either peer may hang up; a server that writes two at once, or a thread that cannot be had; fairness |
| `update_runs` | do update runs leave the checkout right? | the timer (plugins only) and a manual run, 1 plugin, 1 release each, apply = switch, failing network, build, checker and activation, kills, edits of lock and module between runs, rebuilds by hand at any moment |
| `update_committed` | does the schedule keep the machine current? | 1 plugin, 2 releases each, rebuilds by hand, no faults; fairness |
| `zen_system` | does everything end in the newest colours, once? | 2 windows, 2 pages of 2 sites, 2 processes of which the sites may share one, 19 scenarios that each say which files are there at the start and allow a few outside events of some kinds in every order; fairness |
| `broken_overlap`, `panel_two_fields`, `update_uncommitted` | see below | the smallest that shows it |

Why the bounds are enough. The commands do not count anything: two processes give every pair of steps that can disturb
each other, and with `MaxTime` 0 `overlap` explores chains of commands of any length, since only `guarded` and the
cache look at times and neither is in it. Where there is a clock, three writes give an edit, another's edit or a link,
and a revert that brings an older time back; two to a second make the second and the third indistinguishable to what
compares seconds. A second reading is needed to meet an entry of the first. In the relay, two ids allow one to be
destroyed and used again while events for the other are on their way, and a buffer of two messages is full with one
left over. In the browser two windows give a first one, which has the actor, and another one, which does not; two
pages give one that is open when something changes and one that comes after; a scenario allows a palette to be written
twice, or the user to act twice, where one event can be followed by another that undoes it, and names only kinds of
event that meet in the same variables. Of two processes `github` gets one and `other` either, so that they share one
or do not. One release is enough for a run to have something to do; the schedule needs a second to show that it goes
on. Bounds on counters (`MaxTime`, `MaxReads`, `MaxRev`, the messages left in `plan`, the events in `left`) are in the
guards; where they stop the system, the run does not check deadlock. `overlap` uses symmetry: processes appear only in
sets and as arguments of functions, no `CHOOSE` ranges over them, and its properties quantify over all of them.

What the properties say:

- `StoreSpec`: `ConfigEdit` with one process implements `ConfigStore`: the stored configuration is the file, or the
  backup while the command validates; a failed command leaves content *and* time.
- `OkIsTrue`, `SomeAdmin`, `BackupOwned`: a printed ok is true; wheel is not empty; backups go with their command.
- `SelfStays`: one check of `id -un` in one command is enough for the account to keep its block when others add and
  remove users (one may get a second block), a file that does not validate goes back to whatever backup there is, and
  half of it is interrupted.
- `NeverStale`, `NeverTorn`: an entry that would be taken for the files as they are holds the answer for them, and
  never half of one.
- `PendingIsTold`: whatever overlaps, a file that differs from the running system is reported, unless this very file
  was there (as file, backup or temporary file) when the link was made, or has the time of that second. The two
  exceptions are what a comparison of two times cannot see; both happen (next section).
- `ShownIsStored`, `NothingLost`, `LoadingEnds`: the panel at rest shows what is stored, every wish is stored or was
  reported, and controls that are off come back.
- `ChannelSpec`, `Identified`, `FdsFollow`: `wl-focus-proxy` against `FocusChannel`.
- `Relayed`, `Reaped`: nothing stays inside it and its process ends after either peer is gone, except while it is
  `Stuck`: blocked in `sendmsg` to a client that itself waits for room to write. That happens (next section), and with
  a compositor that has gone nobody ends it.
- `Framed`, `Untouched`, `Reaped`: `x11-focus-proxy` reads lengths in the client's byte order, though another thread
  learns it; what arrives is what was sent, in order, whole before the end of the stream, each message with its
  descriptors; both threads end whoever goes first.
- `ChromeFollows`: every window ends in the newest palette, unless a writer finished between init's reading it and its
  asking for the time (`Missed`).
- `CssFollows`: every page ends with the newest global styles and its own site's and no other's. Exceptions: the
  window that broadcasts was closed (`Heard`), a writer finished between reading and time (`Overtaken`), and, for the
  site's styles, another site's page has been in the process (`Apart`).
- `OursTinted`: the sites a window boosted itself end in the newest accent.
- `PageWhole`: a page no message is on its way to does not mix two palettes, unless it read the prefs between two of
  their arrivals and was not told since. `OneBoost`, `UserCssKept`: no second boost for a site, no lost CSS.
- `OnlyWished`, `ClassicOnce`, `ModulesStart`: the loader starts what the user left on, `@onlyonce` in one window, and
  nothing that failed or is off.
- `TypeOK`, `SystemTypeOK`: the types, one per run of a component; they also bound the buffers.
- `FailureChangesNothing`: a failed run puts back the checkout it found and, unless the failure was the activation's,
  has changed neither system; those are as they were or as a rebuild by hand has made them since.
- `InstalledIsRepo`, `YourLockStays`: what a run installs is the checkout; the owner's unsaved lock is not touched.
- `HalfOnlyIfCut`: checkout and next system differ by half an update only after a kill, a checker that died, an
  activation that failed or a rebuild that overlapped a run, and only until the next install.
- `KeepsCurrent`: the schedule brings the checkout to the newest releases, unless a rebuild by hand ever overlaps a
  run.

Fairness. `SettingsPanel!FairSpec`: the timer triggers, commands end and their exits are handled; Qt's event
loop does that, and every command has an end. `WlRelay!FairSpec`: the relay's process is scheduled and both
peers' event loops read; a peer that stops reading for good stops its own connection, which is why that is
assumed. `AutoUpdate!FairSpec`: the timer comes round (`Persistent`), a run works on, and the machine is restarted
now and then (strong fairness, since a run can always be in the way); `CommittingSpec` adds that the owner
commits what an update changed. `X11Relay!FairSpec`: both threads are scheduled, and a peer reads and takes an end
for an end. `ZenSystem!FairSpec`: writers finish, timers fire, imports are answered one way or the other and messages
arrive; windows, tabs, edits, restarts and changes of a document need not come. Where one condition covers several
actions, each of them has only finitely many steps to take in a behaviour, so that none can starve another.

## Where code and words differ

Three runs end in a violation on purpose, each against a sentence of the documentation (`findings`):

- `broken_overlap`: two overlapping commands, one bad, share the one `.bak`. The good one copies the bad file as
  its backup or removes the other's, and a file that does not evaluate stays.
- `panel_two_fields`: the debounce holds one field and one value for the whole theme; changing the font and then the
  size within 400 ms shows both and writes one.
- `update_uncommitted`: an update changes `flake.lock`; the next run takes the change for the owner's edit and
  never updates the inputs again until somebody commits. It records "current" ("everything was up to date")
  without having looked.

The others were met with the same modules. To see one, change the configuration named here:

| What | Configuration and change |
|---|---|
| a command stopped between rename and validation leaves an unvalidated file | `ConfigBrokenOverlap`: `Proc = {p1}`, `Faults = {"interrupt"}` |
| two commands together leave nobody in wheel | `ConfigBrokenOverlap`: `Edits <- BothAdmins`, `InitialContents <- TwoAdmins`, `SomeAdmin` |
| a guarded command overwrites a manual edit made after the check | `ConfigOverlap`: `Guards = {TRUE}`, `MaxTime = 2`, property `GuardedSwap` |
| a reverted edit's answer is cached under the old file's stamp (listings that read text) | `SystemReads`: `ReadsText = TRUE` |
| "the status card always reads "Rebuild pending" once something has changed" (`docs/desktop-settings.md:144`), "restart-safe" (`docs/core-vayume-config.md:158`): an edit made during a rebuild, before a boot, or in the second of the link is not reported | `SystemReads`: the invariant `config.c # gen.c => RebuildPending` |
| a listing taken during a toggle shows the old value and stays | `PanelTwoFields`: `Users` = `{[Hasty({"wheel"}) EXCEPT !.fails = FALSE]}`, `ShownIsStored` |
| a server id used again by an object the tables lack keeps the old object's entry | `Relay`: `Spec`, a third client id, `Capacity = 1`, `Plans` = one with 5 requests, 4 events, no hang-ups, `globals` `{"data", "tablets"}`, `polls` FALSE; `Identified` with `i = None` in its last line |
| relay and client wait for each other to read; a compositor that goes then does not end the connection | `Relay`: `Relayed`, or `Reaped`, without its `\/ Stuck` |
| an X event that is dropped takes along the descriptor of a reply written with it (attached, then, to the event's first byte) | `X11`: `Untouched` without its `plan.batches` |
| "this picks up the HSL path for any domains we now know about (whether just created or pre-existing in Zen's storage)" (`matugen-bridge.uc.js:455`): a site boosted in an earlier session becomes known after the palette was synced and keeps the old hue | `ZenSystem`: `Window = {1}`, `Page = {1}`, `Scenarios <- TintScenarios`, `KnownTinted` |
| a killed run, or a checker that dies, leaves half an update | `UpdateRuns`: `NeverHalfUpdated` |
| the owner's lock, edited during a run, is overwritten | `UpdateRuns`: `Meanwhile = TRUE` |
| `switch` with a unit that fails: the checkout goes back, the system does not | `UpdateRuns`: `FailureChangesNothing` with `job[r].at = "undo"` left out of `Restored` |
| a rebuild by hand that began before or during a run and ends after it puts the older system back; later runs look for that system's plugin versions in the checkout, do not find them and never update the plugins again, until something installs the checkout | `UpdateCommitted`: `KeepsCurrent` without its premise |
| a writer that finishes between init's reading the palette and its asking for the time: the window keeps the old colours until the next write | `ZenSystem`: `Scenarios <- PaletteScenarios`, `ChromeFollows` without `Missed` |
| the first window is closed: open pages get no new styles for the rest of the session | `ZenSystem`: `Scenarios <- CloseScenarios`, `CssFollows` with `Heard(f) == ~Overtaken(f)` |
| the timer of a process puts one site's styles into another site's page | `ZenSystem`: `Scenarios <- StyleScenarios`, `CssFollows` without `Apart` |
| a page that reads the prefs between two of their arrivals in its process mixes two palettes, and with one window nothing tells it | `ZenSystem`: `PageWhole` without `settled` |

The old entry of a server id stays because no destructor ends one: `pump` looks for a `~` in a signature
(`proxy.c:548`, `proxy.c:631`), and wayland-scanner writes none. `Identified` therefore says of an object the tables
lack that its id has no entry, or, if it is a server id, that of a data offer. That does no harm: what a tablet tool
sends or is sent is never taken for a message with descriptors (its `destroy`, which has the number of the offer's
`receive`, is too short for one and is "forwarded blind", `proxy.c:594`). Client ids are not affected: `delete_id`
ends theirs.

A manual edit that is overwritten by a revert also makes `NeverStale` fail, which is why `SystemReads` has no hand
edits; listings that fail leave a rejected theme value on the page, which is why the `Patient` user has none.

Two sentences about Zen do not match what the scripts do, without any property failing. `matugen-bridge.uc.js:3` has
the actor put the colours on every page; `docs/apps-utils-zenbrowser.md:168` says that there is no route into pages
like `about:preferences`, and a page that is open hears of a palette only if a window other than the first sees it
first. The menu (`boot.sys.mjs:571`) says "Toggling scripts requires restart"; a script that is turned off is gone
from the next window already.

## Proofs

`ConfigEdit_proofs` proves, for every set of users, apps, commands and processes and every bound:

| Theorem | States | Assumes, besides `EditAssumption` |
|---|---|---|
| `TypeCorrect` | `TypeOK` | nothing |
| `SelfAlwaysStays` | `SelfStays` | no hand edit removes the account |
| `BackupAlwaysOwned` | `BackupOwned` | no interrupts |
| `SoundEditsNeverBreak` | `NeverLeftBroken` | every command of the workload keeps a good file good |
| `SerialAdminAlways` | `SomeAdmin` | one process, no hand edits |

Each has an inductive invariant of its own:

- `SelfStays` is about the file; what can come back are the backup and each command's temporary file, so the
  invariant says it of all of them, and that no running command is a removal of oneself.
- `BackupOwned` is inductive once one knows which steps a process can be at: a backup appears at a step that
  leads to the validating ones, and the steps out of those remove it.
- `NeverLeftBroken` says it of the file, the backup and all temporary files: overlapping commands may exchange
  them, but none is bad.
- `SomeAdmin` says what each step of the one command knows: after `CheckAdmins` the admins other than the
  command's user are still those of the file, and a backup has an admin too.

`AutoUpdate_proofs` proves, for every set of starters and plugins, every `Parts` and `Apply` and every bound:

| Theorem | States | Assumes, besides `UpdateAssumption` |
|---|---|---|
| `UpdateTypeCorrect` | `TypeOK` | nothing |
| `LockAlwaysStays` | `YourLockStays` | the owner edits between runs (`Meanwhile = FALSE`) |
| `InstalledAlwaysRepo` | `InstalledIsRepo` | the same |
| `FailureAlwaysUndone` | `FailureChangesNothing` | the same |
| `HalfOnlyEverIfCut` | `HalfOnlyIfCut` | nothing; the owner may edit at any time |

None of them restricts the faults, and rebuilds by hand may come at any moment. The assumption is needed: with
`Meanwhile` TRUE TLC finds counterexamples to the three. The argument has five parts:

- `OneRun`: the file lock lets one run in, so what a run does nobody else undoes.
- `Knows(r)`, per step of a run: the saved files are the checkout it began with and hold the owner's lock if there is
  one; before `nix flake update` the lock is the one in git; what the build copied is still the checkout.
- `Untouched`: until its own system is built, a run has changed neither system: they are as it found them, or as a
  rebuild by hand has made them since (`began` is told).
- `CopyInv`: what a rebuild with no run beside it copied, and what a run's build copied, still pins what the checkout
  does.
- `Traced(r)`, while nothing is `cut`: the saved files pin what the next system was built from, and a part the summary
  does not name is as it was saved, or the owner's; so a run that records "current" changed nothing, and one that
  undoes goes back to that level. A run that installs, or a rebuild alone, makes it true again by `CopyInv`, so `cut`
  may be set back there (`HalfInv`).

`ConfigEdit_proofs` proves besides, for one process without hand edits and faults (`Serial`), `SerialImplementsStore`
(`StoreSpec`, the refinement that `serial_store` checks) and `SerialOkIsTrue` (`OkIsTrue`). `SerialInv` says what is
established at each step of the command: how the temporary file, the backup and the file follow from one another, and
that no time is ahead of the clock. From it every step is a stutter of the store except the one that decides.
`SerialOkIsTrue` adds, per command, that its edit of any content it was granted for `Holds`. With two
processes both fail (`broken_overlap`).

`ConfigSystem_proofs` proves about the file with its readers and the rebuild:

| Theorem | States | Assumes |
|---|---|---|
| `SystemTypeCorrect` | `SystemTypeOK` | nothing more |
| `PendingAlwaysTold` | `PendingIsTold` | nothing: any clock, any number of writers, rebuilds and boots, any faults |
| `SerialNeverStale` | `NeverStale` | a clock that ticks with each write (`MaxTime` not 0), one writer without hand edits and failing copies, listings that evaluate |
| `LoneReaderNeverTorn` | `NeverTorn` | one reader at a time |

`PendingInv` says of every version that may come back (temporary files, backups) what `PendingIsTold` says of the
file: it was there when the link was made, or is not older than the link. `WritesLater` is why it is inductive: each
step of a command leaves only files that were there before, with their times, and files with a time of now. For
`NeverStale`, `WriterInv` follows the one command; `FiledInv` says that stamps name only times up to now, older than
an edit on its way, and that the answer under a stamp is right for every version that can still return with its time:
the file, and the backup while the file does not evaluate. Since a listing that evaluates has no answer for such a
file, no answer for it can be filed under a time that stays. `FilledInv` says that what a lone reader renames is what
it has filled. The table above shows most exceptions; two readers tear an answer when one empties what the other is
about to rename.

`SettingsPanel_proofs` proves, for any controls, values and users:

| Theorem | States | Assumes, besides `PanelAssumption` |
|---|---|---|
| `PanelTypeCorrect` | `TypeOK` | nothing |
| `NothingEverLost` | `NothingLost` | every user waits, or touches settings only |
| `ShownAlwaysStored` | `ShownIsStored` | every user waits and has no failing listings, or leaves the optimistic controls alone |

`Kept` follows each wish through the debounce, the process and its exit: under the assumption `Run` never finds its
process running, so nothing is replaced. `Followed` says of a control that is not optimistic that it shows what is
stored, or that a reading is still due; `Orderly`, of an optimistic one, that one thing at a time happens on its page
and that it shows what was asked for until its write fails. `panel_two_fields` is `NothingLost` without the
assumption.

`WlRelay_proofs` proves, for any ids, capacities and plans of the peers:

| Theorem | States | Assumes, besides `RelayAssumption` |
|---|---|---|
| `RelayTypeCorrect` | `TypeOK` | nothing |
| `MessagesIdentified` | `Identified` | nothing |
| `DescriptorsFollow` | `FdsFollow` | nothing |
| `RelayIsChannel` | `ChannelSpec`, the refinement of `FocusChannel` | nothing |

`Typed` adds what is on its way: every message that makes or announces something names an interface, whatever the legs
split off, drop or rewrite. The heart is `Lives`. An id is known in six places that change at different times: the
client's objects, the compositor's, the two maps, and the messages in the queue up and the queue down, each of which
is a socket, a leg's buffer and the other socket end to end. `Lives` says which combinations can be: a client id is
`Unborn`, `Asked` (the request that makes it is on its way), `Living`, `Freed` (the client has let go of it, and the
compositor may still be sending to it) or `Told` (`delete_id` is on its way); a server id is `Free`, `Offered` or
`Used`. Each life says which messages about the id the two queues may hold, in which order, and so what the maps hold
when the relay comes to them; `Identified` is its consequence at the head of a leg. Every action is shown to lead from
one life to the same or the next one. `Covered` says that a peer wrote no more descriptors than the messages behind
them need, so that a leg which has read ahead has those of its own messages first; with the lives, which say how many
descriptors the relay expects of each message, `FdsFollow` is inductive. The refinement maps each direction's queue,
without what is withheld and with its rewritten messages, to a channel: reading, pumping and writing are stutters, and
only what a peer sends or receives, or an end, is a step.

`X11Relay_proofs` proves, for sockets of any capacity and any plan, `AlwaysFramed` (`Framed`) and `AlwaysUntouched`
(`Untouched`). The first: nothing goes to the server before the order is stored, and a server that has read nothing
writes nothing, so the order is there when the first byte of the setup reply is. Its second half is a fact about X, not
about the proxy. The second: `Carried` says of a peer's line (what he has read, his socket, the thread's
buffer and the other's socket, end to end) that it spells what the other peer wrote less the dropped events. A line is
cut when a peer stops, and then `Prefixed` keeps what he read; `Complete`, that who read to the end has read all of
it, needs that a thread that stopped by itself was drained (`Stopped`). `Followed` does the same for descriptors, where
a server does not write several messages at once: those a thread or a reader already has are due or early.

`ZenSystem_proofs` proves, for any domains, windows, pages, scripts and scenarios:

| Theorem | States | Inductive invariant |
|---|---|---|
| `TypeAlwaysOK` | `TypeOK` | `Typed`, with `Inv` and `LoaderInv` |
| `OneBoostAlways` | `OneBoost` | `Inv` |
| `UserCssAlwaysKept` | `UserCssKept` | `Inv` |
| `ClassicOnceAlways` | `ClassicOnce` | `LoaderInv` |
| `OnlyWishedAlways` | `OnlyWished` | `LoaderInv` |
| `PageAlwaysWhole` | `PageWhole` | `Coherent`, with the above |

`Inv` is small (`FilesOK`: texts and times are numbers; `boost \in Store`: no site ever had more than one boost); the
work is that every operator on boosts leads from a store to one that `Follows` it, whatever the caller's known domains,
accent and force. `Kept`, the part about CSS, is transitive. `LoaderInv` says that each window runs scripts of the list
(`Listed`) and that what runs or failed is recorded as such (`Recorded`); a window's scripts are a fold over the
list, so the same is said of every beginning of the list (`ListInduction`).

For `PageWhole`, `Told(p, box)` is the list of colours which a process's messages hold for the page. `Coherent` says
that between two steps the prefs are of one palette, though they are written one at a time while the observers of other
windows broadcast; that what is on its way to a process ends with the prefs (`Trailing`); that a page lives in a process
(`Housed`), and only that process is told of it (`Addressed`); and that what it still has to be told ends with a whole
palette, or, when that is nothing, the page has one if it is `settled` (`Awaits`). The messages between two prefs are of
mixed palettes, and so are the prefs of a process between two arrivals; the proof is that a whole one always follows
in the same box, and that a page that has read the last of its process's `trail` has read what the parent has.

`SequenceFacts` has what these proofs share: how the ends of a queue that is seen in parts move, and what `FlattenSeq`
and `FlatMap` do to a list that grows or is cut. Induction over data cannot be cited in operator form here;
`SetInduction` and `ListInduction` state it for sets, and follow from `WFMin`.

No theorem assumes more than its table or text says and the modules' named `ASSUME`s, which give the constants' types,
keep the special values apart (`None` is no id, no interface and no byte order) and number the tabs from 1
(`PageAssumption`, the order in which the message manager visits them).

Model-checked only: liveness (`LoadingEnds`, `Relayed`, both `Reaped`, `ChromeFollows`, `CssFollows`, `OursTinted`,
`ModulesStart`, `KeepsCurrent`), which needs fairness and so `ENABLED`.

## What is not modelled

`PROJECT.json` lists every part with the reason. Declarative modules, drawing and package lists have no state of
their own that changes at run time. Of the modelled parts the following is left out:

- Zen: the colour conversions, the per-site boosts of `BOOST_SITES`, which is empty, and `window.__matugenBridge`.
- loader: stylesheets, `SharedStorage` (a value set during a listener's report is never reported,
  `utils.sys.mjs:63-78`), hotkeys, prefs and notifications for scripts, manifests, `fs.sys.mjs` and `uc_api.sys.mjs`.
- proxies: the listeners with `fork`, `flock` and threads per connection; the limits of 256 and 32 descriptors;
  failed allocations.
- panel: power, storage, package search and the command log.
- `vayume config`: the cache of font lists; plugin checker: its report and background hashes.

## Plan

1. `TorControl`: chains and rules under start, stop, failure and firewall reload; traffic never leaves in the clear
   while the switch says on.
2. `UltraSaver`: saver on and off, pet and widget toggle; what was running comes back, once.
3. `SessionLinks`: activation and restore, stopped anywhere; no file is lost and a second run completes the first.
4. `PluginCache`: report, background hashes and apply over one JSON file.
5. The pet's states, theme reload; the settings list and the awk editors as pure functions against a reference
   definition.
6. Proofs: every invariant and action property of the passing runs is stated by a theorem. Next are the safety
   parts of the liveness properties: what a window's cache of styles and a page's stylesheet may be while a message
   is on its way (`CssFollows`), that a script which is wanted is waiting or running (`ModulesStart`), and that a relay
   with nothing left to forward has nothing inside (`Relayed`); and the same for each component above as it is modelled.
