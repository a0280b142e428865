# ObMultiplayerServer: specification and proofs

TLA+ models of ObMultiplayerServer: a relay (Python, asyncio) that keeps one room of
Oblivion players in step, a plugin (C++) inside each player's game, and two
launchers.  The reference is the code: every definition below is translated from it,
and `PROJECT.json` gives the lines of each.

## 1. Inventory

| part | code | state it keeps | operations | modelled |
| --- | --- | --- | --- | --- |
| relay | `server/relay_server.py` | `rooms` (room -> ordered dict of sessions), `room_states` (host, player/quest/loot dicts) | connect/hello, read loop, broadcast, replay, unregister and handover, save | `Relay`, `SharedRoom`, `DurableRoom` |
| room files | `server/relay_server.py` | one JSON file per room in `state_root` | save, load at start, stop on a signal | `RoomStore` |
| plugin session | `plugin/PseudoOnBlivionPlugin.cpp` | running, welcome and mismatch flags, bounded queues from the receive thread to the game thread | Start, Stop, Tick, HandleIncomingMessage, PumpGameThreadWork, ResetSessionState, OnProtocolMismatch | `Plugin` |
| network client | `plugin/network/NetworkClient.cpp` | socket handle, receive buffer | Connect, SendJson, ReceiveLine, Disconnect | in `Plugin`, without the handle |
| game adapter | `plugin/game/GameAdapter.cpp` | proxies of remote players, last applied quest/loot update per entry, local snapshots | Apply*/Remove/Reset/Update, spawn and park, change detection | `GameAdapter` |
| entry point | `plugin/obse/PluginEntrypoint.cpp` | one plugin object, the recurring task | Bootstrap, Shutdown, Pump, resets on game messages | in `Plugin` |
| host launcher | `launcher/host_gui.py` | relay process, busy flag, outcome queue, worker thread, game folder, settings file, its own build | check, install, firewall, launch, start, host, save settings, stop, poll, close, update | `Launcher` |
| joiner launcher | `launcher/joiner_gui.py` | the same without a relay | check, install, join, poll, close, update | `Launcher` |
| config, logging | `plugin/config`, `plugin/logging`, `load_config` | none after start | read an ini / JSON, write a log | no: values are CONSTANTS |
| packaging | `installer/`, `bundles/`, `*.ps1` | none | build, copy | no: outside the running system |
| tests | `server/*_test.py` | none | one scripted session each | no: read as expectations |

How the parts interact.  The plugin's game thread connects, sends `hello`, and then
sends newline-delimited JSON: `player_state`, `combat_event`, and, on the host,
`quest_state` and `loot_state`.  The relay answers `welcome`, replays the room, tells
the others `peer_joined`, stores and saves what it relays, and tells them `peer_left`
when a connection ends.  The plugin's receive thread turns lines into queue entries;
the recurring task of the game thread applies them to the game.  The host's launcher
starts and stops the relay as a child process; both launchers put the plugin and its ini into
the game's folder, launch the game, and leave a script behind that replaces them.

Where it is hard.

- Relay handlers share the room's dict and give the processor up only inside awaits that
  suspend.  `_broadcast` and the replay iterate live dicts across such awaits; sessions
  are removed by id and not by object; a dead peer found by a broadcast takes another
  path out of the room than one whose own handler ends.
- The host role is kept twice (`room_state.host_session_id` and `ClientSession.is_host`),
  is claimed, forced by configuration, handed over, and survives a restart.
- The plugin has two threads with queues that drop, and a reset that forgets what the
  relay sends only once.
- The game adapter keeps actors alive across cells it cannot see and gates updates by
  clocks of different machines.
- A room's file is cut before it is written, and two room names may share one.
- The host launcher starts the relay from a worker thread while the window may close, stop
  it or save other settings; its jobs have many steps that can fail between two that belong
  together, and some wait without a limit.
- An update ends the launcher, and with it its relay, from outside, and more than one may be
  about.

What makes each part correct.  *Relay*: the room is bounded and led by somebody present,
one writer, nothing relayed is lost by a restart, late joiners and early joiners hold the
same world, peers learn of departures.  *Plugin*: what is applied follows the order it
was sent in, nothing replayed is lost, the queues are bounded.  *Network client*: a
handle is closed once and not used after.  *Game adapter*: one proxy per remote player,
none for a player that left, no report is carried out twice, and none takes a quest behind an
earlier one.  *Room files*: what comes back after a restart is what the room was last, and
names its own players.  *Launchers*: a relay process is lost from sight by no other way than a
start that crosses a stop; a game is launched only with what was asked for; the buttons come
back; an update that has begun to wipe comes up.

## 2. Modules

| module | what it is |
| --- | --- |
| `SharedRoom` | the abstract room: who is present, who leads, one copy of the world that only the leader advances |
| `SharedRoomProofs` | its invariant, proved |
| `DurableRoom` | the abstract room when links break, peers stall and the relay restarts: who is served, present, host or marked as such, and a world that only goes forward |
| `DurableRoomProofs` | its invariant and its three action properties, proved |
| `Relay` | the relay's handlers at the granularity of suspending awaits, links that break, and restarts |
| `MCRelay` | TLC instances: symmetry, a view, arrival order |
| `RelayProofs` | eight theorems that hold of `Relay` under every fault and configuration (one needs that no host is configured): types, five invariants, the refinement of `DurableRoom` and what it carries over |
| `RelayOrderlyProofs` | what holds of `Relay` while peers keep up and no link breaks: four theorems, two of them with any number of restarts, two with none, the refinement of `SharedRoom` and what it carries over |
| `GameAdapter` | the stand-ins of remote players, and the gates on quest and loot updates |
| `MCGameAdapter` | TLC instances |
| `GameAdapterProofs` | five theorems: types, stand-ins and gates |
| `Plugin` | the plugin's two threads, queues, resets and shutdown; extends `GameAdapter`, whose actions its pump takes |
| `MCPlugin` | TLC instances |
| `PluginProofs` | the plugin takes the adapter's steps only; types, the rejected version, how a quest update can be lost |
| `Launcher` | both launchers: window, worker, relay processes, game folder and update scripts |
| `MCLauncher` | TLC instance |
| `LauncherProofs` | four theorems: types, the busy flag, relays, what a game is launched with |
| `RoomStore` | several rooms and their files through crashes and orderly stops |
| `MCRoomStore` | TLC instance: two of three room names share a file |
| `RoomStoreProofs` | four theorems: types, restarts, whom a room names and who leads it |

### Relay and the code

One module stands for one room of the process: all handlers, the room's dict, its
`RoomState` and its file.  A handler is `pc[c]`:

    hello -> welcome -> players -> quests -> loots -> cast -> reap -> reading -> ... -> closing -> cast -> reap -> done

| code | Relay |
| --- | --- |
| `handle_connection` up to the read loop | `Reject`, `Register`, `Welcomed` |
| `_sync_room_state_to_client` | `ReplayNext`, `ReplayEnd`, `ReplayFails` (phases players, quests, loots) |
| `_broadcast` | `StartCast`, `CastNext`, `CastEnd`, `CastFails`, `Reap`, `ReapFails`, `ReapEnd` |
| read loop, `_validate_client_message`, `_process_client_message` | `PlayerState`, `WorldState`, `CombatEvent`, `ReadFails` |
| finally clause, `_unregister_client`, `_choose_next_host` | `Unregister`, `UnregisterNobody`, `NextHost`, `HandOver` |
| `_save_room_state`, `_load_existing_room_states` | `Save` in each step that calls it, `Crash` |

*Scheduling.*  `cpu` names the handler between two suspending awaits; nobody else moves
while it is set.  Every send is `write` and `await drain()`.  `drain` returns without
suspending while the transport's buffer is below the high-water mark, so a loop of sends
to peers that keep up is one uninterrupted run of the handler; it suspends for a peer
whose buffer is full (`Slow`) and yields once for a transport that is closing.  This
decides whether the live dicts of `_broadcast` and of the replay can change under an
iterator.

*The dict.*  `slot[c]` is the insertion position of c's session, `epoch` tells one dict
object from the next (`self.rooms.pop` makes an empty room's dict an orphan).  An iterator
knows the size it started with (`size`) and how many entries it has yet to yield (`left`).
Asked for an entry, it raises when the size has changed, and when an entry remains after it
has yielded as many as there were at the start, which is how a removal followed by an
insertion shows (`Iterates`, `Intact`).  A player state that is taken out and stored anew is a
new entry (`Reopened`).  Left out: what CPython does when the key table of a dict is full and
is compacted, and the order of the entries of a replay, for which `ReplayFails` may raise in
states in which an iterator has passed the removed entry already.

*Failures of a send.*  `DrainOutcome` gives what a broken link can raise: only subclasses
of `ConnectionError` are caught by `_broadcast`, another `OSError` (a link that timed out)
is not.  The same holds of the `wait_closed` of line 420, which raises what ended the
transport: `ReapFails` ends the handler that broadcasts, and leaves the rest of its list.

*History.*  `cut` says that a broadcast has been ended by an exception, or has removed
somebody, since the relay came up.

*Data.*  A player state is present or absent.  A quest or loot entry is a version number
that its writer advances.  `view` and `avatars` are what a client that applies what it is
sent would hold; they exist to state what peers end up with.

*External.*  asyncio's event loop, streams and TCP are modelled from how the relay uses
them and are marked external in the map.

### GameAdapter and the code

Everything in `game/GameAdapter.cpp` that outlives a call runs on the game's thread, so
each method is one action of the same name.  `proxies` is `remote_proxies_` (a missing
entry is `NoProxy`, a null reference is 0); `actors[p]` lists every actor that
`PlaceAtMe` ever placed for p with its cell, whether it is enabled and whether the search for
its reference found it (lines 702-707; one that was not found is nobody's), and a reference
is an index into that list.  `ParkRemoteProxy` is `Parked` (the actor) with `ParkedRef`
(the reference).  Cells are told apart by pointer, as lines 329 and 565 do (`NeedsActor`);
reports name them, and lines 324 and 560 compare the names that `DescribeCell` gives them
(`NameOf`, `IsHere`), which two cells may share.  `questStage`, `questTime`
and `lootTime` are the three `applied_*` maps; `stage` and `items` are the engine's: the stage
of a quest, which the player advances, too (`PlayerAdvances`), and how often an inventory was
changed for a loot id and timestamp.  `drawn` says that `Update` ran last: it is read by no
action.

The stage gate (line 410) compares a report with the last stage applied, not with the
game's.  A player who got ahead alone is therefore set back by the next report, in the model
as in the code; README.md:122 names monotonic stages as a goal and
docs/GAME_INTEGRATION.md:88 recommends them.  What the gate does promise is
`StageGoesForward`: the game is not taken behind what a report brought it to.

The engine may refuse `PlaceAtMe`, `SetStage`, `AddItem` and `RemoveItem`, each with the
consequence the code gives it; `Disable` is taken to succeed.  Timestamps of reports are
any numbers of the clock's range, so reports come from the past and the future, in any
order and repeatedly.  A save that is loaded may have any stages.  Left out: looks,
vitals, equipment, smoothing, animation and combat of a stand-in (a null reference is
all they look at), world loot objects, a build without the xOBSE console.

### Plugin and the code

| code | Plugin |
| --- | --- |
| the loop of `Start` | `Loop`: reading -> handling -> looping, or exited |
| `NetworkClient::ReceiveLine` | `ReceiveLine` |
| `HandleIncomingMessage`, `OnProtocolMismatch` | `Handle`, `Queued`, `OnProtocolMismatch` |
| `BootstrapPlugin`, `Initialize`, `Connect` | `Bootstrap` |
| `PumpGameThreadWork` | `Tick`, `TakeQueues`, one `ApplyNext` per message, `EndPump` (with `Update`) |
| `OnObseMessage` | `ResetSessionState` |
| `ShutdownPlugin`, `Stop`, join | `Stop`, `Destroy` |

The game's thread is `game` (loading, idle, ticked, applying, joining, gone), the receive
thread `receiver`.  The receive thread takes steps between any two of the pump's; the
queues change hands in one step because of `inbound_mutex_`.  xOBSE delivers its messages on
the game's thread, so a reset falls between pumps and never into one.  The player moves
and the clock ticks between pumps: within one, the player is where it was.

The relay is what a plugin sees of it: `welcome`, the replay of what is stored (every
subset of the quests, in any order), then what is broadcast.  A broadcast between two
replayed messages is left out.  Reports of peers carry the plugin's clock, those of the
host any time: its clock may be another's, and lag behind that of the host before it.  Between
pumps the player may advance a quest.

`lost` is a history: the quests whose last stored update was pushed out of a full queue
(`Dropped`), was applied and refused (`Refused`: no player, the timestamp gate of
`GameAdapter.cpp:405`, a `SetStage` that fails), or was on no way to the game when a reset
forgot what had been applied.  The relay storing a later one takes the quest out of it.

Closing a socket is one step; the handle between the two threads is left out.  A line cut by a closing socket is nothing or its message.  The animation
and combat queues are like the others and lead to no state kept here.

### Launcher and the code

One module stands for both launchers; `app` says which one it is, and `JobsOf` which
buttons it has.

| code | Launcher |
| --- | --- |
| the buttons, `run_background` and its runner | `Press`, `Raises`, `Report` |
| `ensure_xobse`, `build_preflight_report`, `install_xobse`, `open_firewall` | `Ensure`, `Preflight`, `RunScript` |
| `deploy_plugin`, `write_runtime_files`, `ini_text` | `CopyFiles`, `WriteIni` |
| `save_settings` at the end of a job, `launch_game` | `SavesLast`, `LaunchGame` |
| `save_settings_only` of the host | `SaveSettings`, `SaveIni` |
| `start_relay_process` | `CheckRelay`, `PollRelay`, then the copy and the ini again, `Spawn`, `Assign` |
| `load_config` of a relay that comes up | `ReadConfig` |
| `poll_queue` | `Poll` |
| `stop_relay`, `on_close` | `StopRelay`, `OnClose`, then `Terminate`, `BeginWait`, `WaitReturns`, `WaitTimesOut`, `Finish` |
| `update_app` | `Download`, `Compare`, `Apply`, `Destroy` |
| `write_update_script`, `launch_update_script` | `Answer`, `KillByName`, `Wipe`, `Copy`, `Relaunch` |
| `main` returns (the worker is a daemon thread), or is run again | `Exit`, `Open` |

*Relays.*  `relay` is `self.relay_process`, `proc` what the operating system knows of each
process ever started; `spawned` is the one the worker's job has started.  The handle has no
lock: `start_relay_process` reads it twice (line 836), and what it found may be gone in between
(`Vanished`, an exception); `Terminate` and `BeginWait` read it anew, as the code does, so that
two uses may find two processes.  A packed relay is two processes, the one-file bundle's
bootloader, which `Popen` holds, and its child: told to end, the bootloader goes and the child
stays (`packed`, `leaving`, `orphan`).  Where no packed relay is shipped, the launcher runs
`relay_server.py` with an interpreter, which is one process.  `Packed` says which starts find a
packed one.  A process may end by itself at any time, and one that was told to end may take
longer than both waits; the exception of the second one returns to Tk, which reports it and
goes on.

*The game's folder and the settings.*  `ini` is "none" from the moment it is cut until it is
written; two threads may do both at once, and `Written` then lets the two texts lie over each
other, which is no ini of anybody's.  What the user has typed is any of `Values` at any time:
`asked` is what the job took when its button was pressed.  `SaveSettings` of the host's window
rewrites `relay_config.json` and the ini from the form whatever the worker is doing.  A relay
reads its configuration once, when it comes up.  Copying over a plugin that a game has
loaded raises, as any other step in `MayRaise` may.  The contents of the launcher's own settings
file, and with it the joiner's Save Settings, which writes nothing else, are left out.

*Updates.*  A build is a number in order of time, and 0 a folder that is not whole.  Some
builds have no stamp that can be read (`Unstamped`), and are then not compared; some were
bundled without the launcher's executable (`Bare`), and are copied but not started.  A script
waits for the launcher to end, at most 30 seconds, ends by name what is left, wipes, copies,
and starts the new build; where the folder cannot be written it is elevated, and the user may
decline, or answer later.  The launcher may be opened again meanwhile and start another script;
two that copy at the same time leave a folder that is not whole.  `Killed` is the end by
name: a relay run by an interpreter has another name than the packed one and is reached only if
it is the packed launcher itself that was run as its interpreter.  Bound: one launcher window at
a time.

*History.*  `served` is what the relay of the present job has read, `saved` what the window
has written since the job began, and `loose` the processes that were started or assigned while
the window was stopping one, or by a launcher that is over.  Nothing in the code keeps a start
from crossing a stop, and without `loose` TLC finds how stop forgets the process that the
worker has just assigned.  `RelayIsKnown` says that there is no other way to lose one.  It speaks
of the processes `Popen` returned: of the child that a bootloader leaves the launcher knows
nothing.

### RoomStore and the code

| code | RoomStore |
| --- | --- |
| `_register_client` | `Refuse`, `Register` |
| `_process_client_message` | `Message` |
| `_unregister_client`, `_choose_next_host` | `Unregister`, `UnregisterOther`, `UnregisterNone`, by `Remove`; `Successors` |
| the eviction of `_broadcast` | `Evict` |
| `_save_room_state`, `_state_path` | `Store` (the change and the cut), `Written` |
| `_load_existing_room_states` | `Start`, `Loads` |
| `run_server`, signals, `asyncio.run` | `Start`, `Stop`, `Exit`, `Crash` |

`Relay` has one room at the granularity of awaits; `RoomStore` has several rooms at that of
whole handler steps, and what `Relay` has no room for: a save is `write_text`, which
truncates and then writes, so that a crash in between leaves a file that does not load
(`Torn`).  No await lies between a change and its save, hence the change and the truncation
are one step.  A connection is heard whether or not its session is still in the dict
(`Heard`): `adrift` counts, by id, those whose session an eviction or the end of an older
connection of the same id took out.  Such a one is stored like a member, and when it ends it
removes the session that has its id by then (`UnregisterOther`).  `FileOf` is `sanitize_room_name`, which two names may share; a file names
its room inside, which is what the load goes by.  `Crash` is also how the host's launcher
ends a relay: its `terminate()` is no signal on Windows.  An orderly stop lets every
handler run through its finally clause, so that rooms are saved without players.  From
Python 3.12 on `wait_closed` waits for the clients to leave first; nothing in the model says that they do.

What the code does lose, and the properties leave to it: the room whose file was cut, and
of two rooms that share a file the one that was saved first.  README.md:79 has the relay
persist quest and loot state per room; on a file system that ignores case two names that
differ in case share a file, too.  A write that fails (`OSError`) is left out: it escapes from the
handler, at line 274 after the session has entered the room.

## 3. Runs

| run | instance | properties | shows |
| --- | --- | --- | --- |
| `relay_orderly` | 3 connections, 3 ids, 3 places, 1 quest, 1 loot entry, 2 versions, all kinds, no faults | `TypeOK`, `RelayedByHost`, `Converged`, `KeepsPromise` | while peers keep up, the relay implements `SharedRoom`; no update is relayed for anyone but the present host; replay and broadcasts leave early and late joiners with the same world |
| `relay_faults` | 3 connections, 3 ids, 2 places, 1 quest, world updates only, two connections slow, 1 broken link, 1 restart | `RoomBounded`, `HostFlag`, `CurrentUnlessCut`, `DiskCurrent`, `NoOrphans`, `SurvivesFaults` | what is left of correctness under every fault modelled, reconnections under the same id included: whoever lags behind does so because a broadcast was cut, the relay implements `DurableRoom`, and no session outlives its handler |
| `relay_live` | 3 connections accepted in order, 2 ids, one of them the configured host, 1 broken link, fairness | `Delivered`, `BrokenLinkLeaves`, `HostMarked`, `SurvivesFaults` | stored updates reach every member as long as no link broke; a broken link leaves the room; with a configured host, too, the relay implements `DurableRoom` and its host is never refused as a writer |
| `relay_two_writers` | a configured host | `OneWriter` violated | see the findings |
| `relay_ghost_peer` | one broken link | `NoGhostAvatars` violated | see the findings |
| `game_adapter` | 1 peer, 3 cells, two of them of one name, 1 quest, 1 loot id, 3 stages, 2 times, 2 actors | `AdapterTypeOK`, `ReferenceIsLive`, `CarriedOutOnce`, `StandsHere`, `StageGoesForward` | in any order of reports, moves, loads, resets, progress of the player's own and failures of the engine, stand-ins are where they should be and the gates hold |
| `adapter_stray` | 1 peer, 2 cells with names of their own, 3 times | `NoStrayActors` violated | see the findings |
| `plugin_session` | 1 peer, 1 quest of 3 stages, 1 loot id, 1 cell, queues of 1, 1 message after the replay, 1 reset, fairness | `PluginTypeOK`, `MismatchRejected`, `AppliedUnlessLost`, `StopReturns` | both threads against each other and against a relay that may close or speak another version |
| `plugin_late_joiner` | queues of 2, 1 message after the replay, 1 reset | `LateJoinerInherits` violated | see the findings |
| `plugin_departed` | queues of 2, 2 messages, 1 reset | `DepartedHasNoProxy` violated | see the findings |
| `launchers` | both launchers: join, install and update of the joiner's, host of the host's; 2 values, 2 relay processes, the first of them packed, 2 scripts, 2 builds, one without a stamp, the other without an executable; fairness | `LauncherTypeOK`, `RelayIsKnown`, `LaunchesAsAsked`, `BusyForAJob`, `ButtonsComeBack`, `UpdateFinishes` | a relay process is lost from sight only where a start and a stop cross; a game gets what was asked or what was saved meanwhile; the buttons are locked exactly for a job and come back after it; an update that wipes comes to its end |
| `room_store` | 3 rooms, two of which share a file, 3 players, 2 places, 3 joins, 1 update per room, 1 crash | `StoreTypeOK`, `SurvivesRestart`, `RemembersItsOwn`, `LedByItsOwn` | a room is lost only to its own file; what comes back names and is led by its own players |

Bounds of the launchers' run.  Two relay processes are one that was stopped, ended by itself
or was lost, and its successor; the first is packed, so that a bootloader leaves its child,
and the second is run by an interpreter.  Two values are what was asked and what is typed by
now.  Two builds are one and a newer one; with the older one unstamped, one update is compared
with nothing, and with the newer one bare, one is copied and not started.  Two scripts are
one that waits for its prompt and one that overtakes it.  The jobs left out add no place of
their own: "launch" and "start" are parts of "host", "check" is a part of "join" that saves, and
"firewall" runs a script as "install" does.  The host's own updates are left out, too: they
would multiply its relays with the scripts.  The proofs have all jobs.  There is one worker at a
time because `busy` allows no more: `BusyForAJob` says that it is set as long as a job runs or
its outcome waits, and `LauncherTypeOK` that no second outcome is ever in the queue.

Bounds of the room store's run.  Two rooms that share a file and one that does not are
the least that tells a loss to the own file from one to another's; three players in three
joins are a leader, a successor and one more, or one who comes back; stops and starts are
not bounded.

Bounds of the adapter's and the plugin's runs.  Peers, quests and loot ids do not meet in the
code: every map is indexed by its own key, so one of each shows what there is to show (the
proofs have any number).  Three cells of which two have one name are the player's, another
that reports cannot tell from it, and one that they can; two actors per peer are the one left
behind and its successor.  Two times with a limit of 0 are a report of the moment, one that
has just become stale, and one of a clock ahead; `adapter_stray` has three and a limit of 1.
A queue of one overflows with the second message, as one of 128 with the 129th; with one quest
the message pushed out is never the last one stored, and the theorem `NoQuestLost` has the
general case.

Bounds of the relay's runs.  Three connections are the least with a broadcaster, a peer it waits for and a
third that joins or leaves meanwhile, and the least with a leaver, a successor and a
witness; a room with one place less than there are connections makes the capacity bind, and with two ids for three connections (`relay_live`) one player must be coming back.  One quest
and one loot entry fill each replay loop; two versions let a joiner meet an old version
in the replay and a new one in a broadcast.  A connection is accepted once: a
reconnection is another connection with the same id.  `relay_orderly` has no restart because
`SharedRoom` knows none; what else it checks is proved for any number of them.  In
`relay_faults` two of the three connections are slow, so that a replay and a broadcast can be
suspended at once and the third joins, leaves or writes in between; its version has no
loot entry and no player states, since joins and departures already broadcast and one replay
loop shows what a suspended one does.  `relay_live` has a configured host, so that one who leads
until it comes, both of them marked, and its return are there.  `MaxVersion`, `MaxLosses` and
`MaxCrashes` cap what is otherwise unbounded; the theorems have all kinds of messages.
Slots and epochs are not capped: both are bounded by the
connections and the view of `relay_faults` abstracts from their absolute values
(`RelevantState`), which no step looks at.

Deadlock is not checked: when every connection has come and gone the model has nothing
left to do.

Symmetry is used in the runs that check only safety.  Liveness runs use none; there
`ArriveInOrder` makes connections numbers that are accepted in order, which loses no
behaviour up to renaming since connections do not differ before their hello.

Fairness (`FairSpec`).  The event loop's ready queue is first in, first out, so a handler
that can go on again and again does go on: strong fairness of `HandlerStep`, since other
handlers hold the processor in between.  A transport that broke or was closed feeds its
reader the end of file or the error: strong fairness of `ReadFails` on such a link.
Clients owe nothing, links need not break, and the relay need not restart.  The run has
no slow peer, because nothing in the code bounds how long a drain may take.

`Plugin!FairSpec` asks for less: the receive thread runs while it can, and the game's
thread returns from a join that is over.  Both are Windows' scheduler.  Neither the relay
nor the player owes anything, and the game need not shut down.

`Launcher!FairSpec`: the worker runs except in a download or an external script, for which the
code sets no limit (`Unlimited`; `urlretrieve` and `subprocess.run` without a timeout), the
window finishes writing the settings (weak fairness of `SaveIni`), each of its waits ends,
with the process or by its timeout (weak fairness of `StoppingStep`), and Tk serves the
poll timer however often clicks keep the window busy in between (strong fairness of
`Poll`).  An update script that runs does go on (weak fairness of `ScriptStep(s)`).  Nobody has
to click or to answer a prompt, and no relay has to end.  `ButtonsComeBack` accordingly starts
behind what is unlimited.

### What fails under faults, and why the passing runs do not ask for it

TLC shows that with a single broken link `RelayedByHost`, `Converged` and
`NoGhostAvatars` no longer hold, all from line 416: a peer that a broadcast finds dead is
popped without `_unregister_client`.  With slow peers and no broken link they fail too:
another handler changes the dict that is being iterated (lines 381-390 and 407), or a
list of dead ids is acted on after the id has been registered anew (line 416).  After a
restart `host_session_id` and the player states name players who are not connected.

One of these needs a slow peer only: the `peer_left` broadcast of line 297 waits for it,
somebody joins or leaves, the iterator of line 407 raises `RuntimeError`, and the peers
after the slow one never hear of the departure.  `CurrentUnlessCut` (in `relay_faults`) is
what can be said all the same: a registered client misses a world update in no other way
than that a broadcast was cut like this or removed somebody.

What does hold throughout is in `relay_faults` and `relay_live`, and is proved.  `DurableRoom`
puts together what a room is under faults: its `Drop`, which takes a player out of the
room and nothing else, is line 416, and it may still be `served` and heard, while the
connection that found it gone may end; its `HangUp` is a connection that ends without taking
anybody out; its `Restart` leaves host, player states and world
as they were.

### Findings

* `relay_two_writers`: a player with role host registers, then the configured
  `host_player_id` registers; line 260 moves the role but the first session keeps
  `is_host`, and both may write (README.md:121 and 180 promise one writer).
* `relay_ghost_peer`: a broken link noticed by a broadcast removes the session without
  announcing it (line 416); the peers keep its avatar.
* `adapter_stray`: the player enters the next cell and a peer is reported there;
  `GameAdapter.cpp:330` (and 566) replaces the reference by a newly placed actor and
  never disables the one in the cell left behind, which no removal or reset can reach
  (docs/GAME_INTEGRATION.md:48 and 59).
* `plugin_late_joiner`: the plugin connects when it is loaded, the replay arrives at the
  main menu, and loading the save clears it (`PseudoOnBlivionPlugin.cpp:420`); the relay
  replays once per connection, so the joiner plays without the room's quests
  (shared/protocol.md:141 and 145).  `AppliedUnlessLost` (in `plugin_session`) shows what
  the ways to lose an update are: a reset, the drop without a player (`GameAdapter.cpp:400`), the
  timestamp gate (line 405), a `SetStage` that fails (line 467) and a full queue.
* `plugin_departed`: departures are applied before the reports that preceded them in the
  stream (`PseudoOnBlivionPlugin.cpp:359`), so a peer that reported and left within one
  pump gets its stand-in back until it is stale (docs/GAME_INTEGRATION.md:60).

## 4. Proofs

For all values of the constants that satisfy `RelayAssumption` (finite sets of
connections, ids and entries; nobody and nothing are not among them),
`GameAdapterAssumption` (the bounds are natural numbers, every cell has a name; a missing
player, cell or proxy is not one), `PluginAssumption` (finitely many quests, at least one stage after the first,
a queue holds at least one entry, no message is not a message), `LauncherAssumption` (the
launchers and jobs are those of `JobsOf`, "none" is no value of the form, the bounds are
natural numbers) or `StoreAssumption` (finitely many ids; no room is not a room or an id):

| theorem | says |
| --- | --- |
| `RelayProofs!TypeCorrect` | `Spec => []TypeOK` |
| `RelayProofs!DiskIsCurrent` | `Spec => []DiskCurrent` |
| `RelayProofs!RoomIsBounded` | `Spec => []RoomBounded` |
| `RelayProofs!FlagNamesTheHost` | `HostPlayerId = NoId => (Spec => []HostFlag)` |
| `RelayProofs!NoSessionIsOrphaned` | `Spec => []NoOrphans` |
| `RelayProofs!HostIsMarked` | `Spec => []HostMarked` |
| `RelayProofs!RelaySurvivesFaults` | `Spec => SurvivesFaults` |
| `RelayProofs!FaultsTakeNothingBack` | `Spec =>` `NeverBack`, `HostStays` and `OnlyHostsWrite` of `DurableRoom` |
| `DurableRoomProofs!OrderIsKept` | `DurableRoom` is bounded, and a host who is present may write |
| `DurableRoomProofs!WorldGoesForward` | its world goes forward version by version |
| `DurableRoomProofs!HostIsKept` | its host loses the role only by leaving or to the configured player |
| `DurableRoomProofs!WritersWereHosts` | nobody in it gets the right to write but who is named host |
| `RelayOrderlyProofs!RelayedByTheHost` | `Orderly /\ RequireHost /\ HostPlayerId = NoId => (Spec => []RelayedByHost)` |
| `RelayOrderlyProofs!CopiesConverge` | `Orderly => (Spec => []Converged)` |
| `RelayOrderlyProofs!RelayKeepsPromise` | `Orderly /\ MaxCrashes = 0 /\ RequireHost /\ HostPlayerId = NoId => (Spec => KeepsPromise)` |
| `RelayOrderlyProofs!RelayIsLed` | the same premisses as `RelayKeepsPromise`: `Spec => []` (the host is a claimant in the room, and a claimant has a host) |
| `SharedRoomProofs!RoomIsLed` | the abstract room is bounded and led exactly while someone claims it |
| `GameAdapterProofs!AdapterTypes` | `AdapterSpec => []AdapterTypeOK` |
| `GameAdapterProofs!ReferencesAreLive` | `AdapterSpec => []ReferenceIsLive` |
| `GameAdapterProofs!StageIsHere` | `AdapterSpec => []StandsHere` |
| `GameAdapterProofs!LootIsCarriedOutOnce` | `AdapterSpec => []CarriedOutOnce` |
| `GameAdapterProofs!StagesGoForward` | `AdapterSpec => StageGoesForward` |
| `PluginProofs!PluginTypes` | `Spec => []PluginTypeOK` |
| `PluginProofs!OtherVersionRejected` | `Spec => []MismatchRejected` |
| `PluginProofs!NoQuestLost` | `Spec => []AppliedUnlessLost` |
| `PluginProofs!PluginIsAdapter` | `Spec => AdapterSpec` |
| `LauncherProofs!LauncherTypes` | `Spec => []LauncherTypeOK` |
| `LauncherProofs!BusyOnlyForAJob` | `Spec => []BusyForAJob` |
| `LauncherProofs!NoRelayIsLost` | `Spec => []RelayIsKnown` |
| `LauncherProofs!GameGetsWhatWasAsked` | `Spec => []LaunchesAsAsked` |
| `RoomStoreProofs!StoreTypes` | `Spec => []StoreTypeOK` |
| `RoomStoreProofs!RoomsSurvive` | `Spec => []SurvivesRestart` |
| `RoomStoreProofs!NoStrangersRemembered` | `Spec => []RemembersItsOwn` |
| `RoomStoreProofs!ClaimantsAreLed` | `Spec => []LedByItsOwn` |

The argument for `Relay`.  `TypeOK` is inductive by itself; the work is in showing that what `First`
picks is a session and that what a handler builds is a message.  `RoomBounded` is not
inductive: a registration must know that a connection that has not said hello is not a
member, so that it adds exactly one session, whose id nobody else has.  `RoomInv` adds
that, and finiteness.  All steps but `Register` and `Unregister` are `Undisturbed`: they
change no flag, no host and no id and at most remove sessions (this is where `Reap`, the
eviction by id, is harmless); lemmas `UndisturbedClient` and `UndisturbedHandler` prove it once and
every later invariant uses it.  `HostFlag` then needs only the two remaining cases, with
`RoomBounded` to know that an id names one session; a restart needs `DiskCurrent` for
the host it restores.  `HostFlag` needs that no host is configured: the finding of
`relay_two_writers` is why.

The argument for `DurableRoom`.  Sessions are removed by id (line 280), and a handler that
was evicted removes whoever holds its id by then.  `NoOrphans` says that this leaves no
session without a handler.  It is not inductive: a handler that announces the departure of
its session ends when the broadcast does, so its session must not be in the room any more
(`HandlersInv`).  That can be relied on because a registration takes only a connection that
has not said hello, and `RoomBounded` makes the session that an id removes the only one of
its id, the handler's own if it is still there.  `HostMarked` is what remains of `HostFlag`
when a host is configured: the one who leads is marked, others may be, too.  `FaultsInv` is
all of these, and enough for the refinement: the ids of the handlers that run map to
`served`, those of the sessions to `present`.  A step that is not a hello, a message, a departure or a
restart changes neither `room` nor any flag, and is a `Drop` (`Reap`), a `HangUp` or a
stutter; `Wanes` says what such a step may do to sessions and handlers, and is shown
together with `HandlersInv`, one case per action.  `FaultsTakeNothingBack` then cites the
theorems of `DurableRoomProofs` through an instance with the same mapping (`SameRoom`).

The argument for orderly rooms.  `Orderly` says of the constants that nobody is slow and no
link breaks; section 3 shows what fails without it.  No handler is interrupted in such a
room between its message and the end of its broadcast, which is the first thing to prove
and not an assumption: `Control` says of a handler wherever it is that it keeps the processor
until it reads again, that it is registered from its hello to its departure, and that what it
iterates is as it was when it began, with as many entries left to yield as there are behind
its place (`InCast`, `InReplay`); `OneHandler` reduces every step to its own handler, since the
others are not under way.  A restart finds no handler that could still break it: all are gone.
From that no send fails, no iterator raises and nobody is found dead (`CastsProceed`,
`NoFailures`), which leaves `Next` without its failures (`OnlyRestarts`), and `RelayedByHost` and
the refinement follow; both use `HostFlag` to know that who may write is the host.
`SharedRoom` knows no restart, after which the host is not present, so the refinement and
`RelayIsLed`, which takes `RoomIsLed` over to the relay, have `MaxCrashes = 0`.  For
`Converged`, `JoinerCopy` says what a client in the middle of its replay holds, and
`MemberCopy` that any other registered client is current, or that the message of the one
broadcast under way will make it so (`Awaits`); that `First` picks the foremost of the
remaining targets and positions are given out once makes the targets that remain exactly
those still waiting.

The argument for `GameAdapter`.  The inductive invariant `AdapterInv` is the properties
themselves, the types, and two facts about the gates.  `StagesReached`: where a stage is
recorded the engine has reached it, or a stage accepted by the gate could still be a step
back in the game.  `CarriedBefore`: nothing was carried out for a time later than the one
recorded, so what passes the gate of line 478 was not carried out before.
For the stand-ins, `ProxyStep` lists the five things any action may do to one peer
(`Kept`, `Retold`, `Emptied`, `Laid`, `Placed`); one lemma per action shows that it does
one of them to each peer, and `ProxiesStepKeeps` proves from the list alone that
references stay live.  For the gates, `GateStep` plays the same part.

The argument for `Plugin`.  First, `PluginIsAdapter`: each step of the pump, a reset or the
player is a step of `GameAdapter`, and all others leave it alone (`AdapterTaken`).  It needs
to know that a queue holds lines of its kind only, which is part of the types; in return
`AdapterInv` and every theorem about the adapter hold inside the plugin.  For the other
version, `Rejected` says where the welcome is: at the head of the stream, in the hand of
the receive thread, or behind a closed connection that nobody reads again.  For the quests,
`InFlight` says that a line is in the stream, in the hand, in the queue or in the pump's
copy of it; one lemma per action says what it does to that, and `NothingLost` that the last
stored update of a quest outside `lost` is on its way or was applied (`OnItsWay`).  This is not
inductive: the stage gate could refuse an update that comes after a higher stage.  `NotAhead`
excludes it, as no report is ahead of what the relay has stored.  With nothing in flight,
applied is what remains, and `StagesReached` of the adapter takes it from the adapter's maps to
the game.

The argument for `Launcher`.  `OneJob` ties `busy`, the worker and the queue together:
it is `BusyForAJob` and that the queue is empty while the worker works, which makes it
inductive and bounds the queue.  For the relays, `NoneYet` is the heart: the worker's check that
no relay runs stays true until it assigns its own, because the window's thread only ever
clears the handle or ends what it names.  `WaitsForRelay` says that what the window forgets
is what it waited for, unless the worker has assigned another in between, which is then in
`loose`; `Numbered` that a process just started was not there before.  For the game's folder,
`InPlace` says at each place of a job what the ini may hold: nothing or what the window has
saved while it is cut (`IniIsCut`), then the job's own values, saved ones or a mixture
(`IniFits`), and the same of the relay's configuration (`ConfigFits`), from which the relay of
the job reads.  `SaveCounts` makes a save that began before the job and ends within it count;
`Idle`, `InHand` and `HostStarts` say where a job has a relay of its own.

The argument for `RoomStore`.  Memory holds a room's last state, an empty one, or nothing
(`Known`), and the last state while somebody is heard in the room, with a session or without
(`InUse`); a file holds the last state of the room it names (`OnFile`), which is why a load
cannot bring back an older one; a write under way will write the last one (`InWriting`).
`Adrift` says that whoever is heard without a session was left behind, which makes what it
sends the doing of no stranger, and `Own` says of the last state what the last two theorems
say of memory.

Only model-checked: `Delivered`, `BrokenLinkLeaves`, `StopReturns`, `ButtonsComeBack` and
`UpdateFinishes` are liveness under fairness, which the prover cannot do.  `CurrentUnlessCut`
is a safety property without a proof: what several suspended replays and broadcasts owe a
client at once needs a stronger invariant than the one of orderly rooms.

## 5. Plan

Done: all modules of section 2 and the proofs of section 4.  What could come next:

1. `RoomStore` and `Relay`: writes that fail, line 274 above all, where one leaves a session
   that no handler takes out (`NoOrphans` holds while saves succeed).  `Relay`: entries
   that carry their writer, to tell two writers' versions apart with
   `require_host_for_world_state` off.
2. The socket handle of `NetworkClient`, with closing in two steps.
3. An abstract specification of `RoomStore`: a room that outlives the relay unless its file
   is lost.
4. `GameAdapter`: world loot objects, and the vitals of a stand-in across parking.
5. `Relay`: a proof of `CurrentUnlessCut`.

## 6. Not modelled

* The configuration readers of the relay and of the plugin: they are read once, and their
  values are CONSTANTS.  Logging.
* The change detection of `Tick`, the parsers and the JSON of either side: a message is
  what was sent or, where a line may be cut, nothing.
* The animation and combat queues of the plugin, and what a stand-in looks like: no state
  that another step depends on.
* The compaction of a Python dict whose key table is full, and what it does to an iterator.
* The handle of the socket between two threads, and the loader lock that
  `PluginEntrypoint.cpp:232` joins the receive thread under: both belong to Windows.
* The launchers' settings file, and with it the joiner's `save_settings_only`; the files of the
  plugin other than its ini; detection of the game's folder, widgets and texts; the mapping of character names to player ids.
* Installers, bundles (`bundles/out` holds a copy of the relay) and build scripts: outside
  the running system.  Tests: read as expectations of the relay, with peers that keep up
  and leave one at a time.
