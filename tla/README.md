# A verification of Manic Room's own logic

Manic Room adds a LAN-play "Room" and a local update importer for the
Nintendo 3DS core (Azahar) to ManicEMU, an iOS frontend around RetroArch.
These TLA+ modules model the parts the project wrote or changed itself, TLC
checks them on small instances, and TLAPS proves every safety property that a
passing run checks for every value of the constants.

Source paths below are relative to `src/`; `AZ/` is
`changes/azahar-experimental/src/`.

## 1. Inventory

| part | state | operations | talks to |
|---|---|---|---|
| **RoomMember** `AZ/network/room_member.cpp,.h` | connection state, ENet host and peer, loop thread, `send_list`, member list, callbacks | Join, Leave, MemberLoop and its packet handlers, Disconnect, Send... | the room server over ENet; callbacks into the bridge; NWM through SendWifiPacket |
| **Room session bridge** `AZ/citra_libretro/room_session.cpp`, `room_api.h` | `az_room_snapshot`, worker thread, `cancel`, `finished`, `ready`, `api_mutex`, `snapshot_mutex` | Initialize, GameReady, GameStopped, Shutdown, `retro_azahar_room_join`, `_leave`, `_snapshot`, Run, three callbacks | core life cycle above, RoomMember below, polled by the room screen |
| **Local wireless service** `AZ/core/hle/service/nwm/nwm_uds.cpp` | connection status, `node_map`, `node_info`, bit mask, beacon event chain | Initialize, Shutdown, BeginHosting, Connect, Disconnect, Destroy, Eject, frame handlers, beacons, timeouts | game thread (IPC), loop thread (frames), RoomMember (send) |
| **CIA update importer** `AZ/citra_libretro/cia_update.cpp`, `cia_update_policy.h` | private directory, FileUtil's user directory, compression setting, one mutex, title directory | one call: validate, copy, inspect, install, verify, publish | file system, AM::CIAFile, cancel callback |
| **Import dialogs** `changes/Libretro/pkg/apple/ManicEMU/ManicCIAUI.inc` | busy flag, cancel flag, dialogs, picker, worker | present, confirm, pick, progress, cancel, background, report | importer call; LibretroCore's load entries |
| **LibretroCore bridge** `changes/Libretro/ui/drivers/LibretroCore.m` | running flag, loaded core, keyboard request generation, room function pointers | start, stop, load, reload, save state, room entry points, keyboard, netplay pump | run loop, core symbols, Swift views |
| **Libretro core** `AZ/citra_libretro/citra_libretro.cpp` | `emu_instance`, `system_loaded`, graphics context, options | retro_init, load, run, reset, unload, deinit, serialize | room bridge, emulator |
| **Software keyboard** `AZ/citra_libretro/applets/swkbd_apple.cpp`, `manic_compat.cpp`, LibretroCore.m | the keyboard object and the pointer to it, one answer, callback of the frontend, generation, dialogs | register, Execute, show, answer, Finalize, ReceiveData, unregister | titles, core, main queue |
| **Cheats** `AZ/core/cheats/cheats.cpp` | list under a lock, frame event | Connect, RunCallback (switched off in the experiment) | core timing |
| **Core options** `changes/Libretro/runloop.c`, `AZ/citra_libretro/core_settings.cpp` | option manager, four files, path and flags of an override, what the core has made of them | register (two versions), read, change, create and remove overrides, reset, flush, unload; parse | files, core, layout pushed by the app |
| **Directories** `AZ/common/file_util.cpp` | the map of user directories | SetUserPath, GetUserPath | options, importer, core |
| **RetroArch settings** `changes/Libretro/configuration.c` | every setting, its tables, main, append, override and remap files | defaults, load, save, overrides, remaps, comparison | files, core start and end |
| **RetroArch run loop** `changes/Libretro/runloop.c` | run-loop flags, static key states, speed override, frame limit | core life cycle, `runloop_iterate`, `runloop_check_state` | cores, drivers |
| **Swift views** `.../OnlinePlay/Views/AzaharRoomView.swift`, `.../Play/VIewControllers/PlayViewController.swift` | what is on the screen | start, pause, leave; a poll every 250 ms | LibretroCore |
| **Build and tests** `ci/`, `changes/azahar-experimental/tests/` | none at run time | patching, packaging, bridge test | - |

What is hard in them, and what makes them correct:

* *RoomMember* has three threads (caller, loop, console) on one ENet host and
  one atomic state; callbacks run on two of them. Correct: one thread uses the
  host at a time, none after it is destroyed, Leave ends disconnected.
* *Bridge*: a worker outlives the call that started it, is joined by lifecycle
  calls that hold a mutex, and shows its progress through a snapshot other
  threads write too. Correct: IDLE means cleaned up, JOINED means somebody will
  clean up, every end of an attempt is explained, a cancel is final.
* *NWM*: two threads per console, several consoles, answers that are broadcast
  although they are meant for one, handlers that lock twice. Correct: the
  host's four records agree, nobody who left keeps a place, a client knows its
  network, ids are unique, a full network refuses.
* *Importer*: a long sequence of failing steps on process-wide settings, killed
  or cancelled anywhere, beside another writer. Correct: games never see a
  half-written title, nothing that exists is replaced, the answer is true, the
  settings come back. Its format checks compute with sizes from the file.
* *Dialogs*: conditions tested before a dialog and used after it. Correct:
  no game beside an import, a cancel is not lost, the library is given back.
* *Core, run loop, frontend bridge and room screen*: all on the main thread,
  beside the room's worker; loads fail early or, once the graphics context
  comes, late; the screen sees the session through a poll. Correct: the library
  outlives the worker, no frame enters a system that is off, no frame of a
  session runs under a time control, no attempt goes on unseen.

* *Keyboard*: a dialog answers seconds later, when title, core and keyboard
  object may be others. Correct: a text reaches the request it was typed for; a
  title that waits has somebody to ask.
* *Options and directories*: four files, two registrations at each start, changes
  from menu, app and core, flushes and kills in between. Correct: a game gets back
  what it ran with, touches only its own file, the core sees every change, and
  its storage lies in one root, the isolated one.
* *Settings*: one structure is read from up to five files and saved to any of
  them. Correct: what overrides and remaps bring ends with the core and does not
  reach the main file; what is saved is read back.
* *Run loop*: a pass of some thirty checks with early returns, each with static
  variables of the pass before. Correct: a paused core rests, and nothing of a
  speed (mute, blocking mode, frame limit) outlives it.

`PROJECT.json` lists the forty hazards that weigh most at their lines, with the
properties that would catch them; three have none, and their notes say why. Section 4
names further ones that no property is about.

## 2. Modules

```
RoomMember <- RoomSession <- RoomSessionProof
                  |  refines
               RoomApi <- CoreLife <- Keyboard <- CoreLifeProof
NwmUds <- MCNwmUds
       <- NwmUdsProof
CiaInstall <- CiaImport <- CiaInstallProof
CiaLayout <- CiaLayoutProof
CoreOptions <- UserDirs <- OptionsProof
Configuration <- ConfigurationProof
RunLoop <- RunLoopProof
```

**RoomMember** (room_member.cpp). `call` is where the caller is inside Join or
Leave, `loop` where MemberLoop is, `job[t]` which callbacks thread `t` has still
to make (SetState stores the atomic, reads it back and only then invokes, which
is three steps here), `client`/`server` the two ENet pointers, `sendList` the
kinds of packet queued. One action per access to state that another thread can
see; Join is cut at each of its early returns (no client, unresolved address,
no peer, cancelled or timed out poll). `peer` records how far the server, which
is not in the repository, has let the client in and so what it may still send.

**RoomSession** (room_session.cpp, room_api.h) extends it: `worker` is where Run
is, `api` the call that holds `api_mutex`, `snapshot`, `cancel`, `finished`,
`ready`, `member` the variables of the code. StopWorker is two steps, the store
of `cancel` and the thread's join, which waits for Run's return (`BeginStop`,
`JoinWorker`). The three callbacks are the actions `OnStateChanged`, `OnError`
and `OnRoomInformationChanged`, taken by whichever thread owes them.

**RoomApi** is what the screen is promised, stated over the snapshot's state and
three flags without threads: which state may follow which and when. RoomSession
instantiates it (`Api`, `shown <- snapshot.state`, `busy <- ~finished`, ...) and
`ImplementsApi` is the refinement.

**CoreLife** (runloop.c, citra_libretro.cpp, LibretroCore.m,
AzaharRoomView.swift) is composed with RoomApi, which stands for the worker:
what holds here with the interface holds with the bridge that implements it.
The main thread executes blocks; a block is cut into steps (`todo`) where it
waits for the worker or reads what the worker writes, so that the worker may
move in between. `handle`, `inited` and `gameFlag` are the run loop's view of
the core, `instance`, `gameLoaded`, `powered` and `bridge` the core's own,
`screen` what the room view saw last. Each failure of a load (library, file,
renderer, OpenGL symbols, the emulator's Load) is an alternative of its step.

**NwmUds** (nwm_uds.cpp). `uds[c]` is the service object of console `c`, `link`
the frames between two consoles, `task[c]` what the loop thread of `c` has begun
(a frame it dispatches, or an answer it sends after releasing
`connection_status_mutex`). Each locked region is one step, so handlers that
lock twice are two. `advertised` are the hosts whose beacons can be seen,
`crashed` the consoles that failed an assertion, `dropped` those that vanished
without a farewell (all, when one that may host is among them, since the farewells
of the others may be lost). `mixed` are the consoles that two networks have had a
part in: one that opens a network with a node map it has heard, asks another host
before the first has answered, or takes the logoff frame of a host not its own.

**CiaInstall** (cia_update.cpp). `place[w]` is where the call of `w` is; each
place is one stage of Install with all its failures (a choice of the statuses
the stage can end with), cancel checks and the destructors of `Paths`, `Temporary`
and the lock as the stages `restore`, `remove` and `return`. `userPath` and
`compress` are process-wide. The file system is `staging[w]` and `live`; a
rename of the staged directory is the only writer of `live` among the callers.
`Killed` ends the process at any point; `DirectoryAppears` is another writer.

**CiaImport** (ManicCIAUI.inc and LibretroCore's entry guards) extends it with
the dialogs. Blocks on the main queue are actions; `job` is how far the two
dispatched blocks and the call have come.

**CiaLayout** (cia_update_policy.h and the checks of Install). The state is the
byte range of the last file read and the last raw-pointer use, with uint64
arithmetic that wraps at `Word`.

**Keyboard** (swkbd_apple.cpp, manic_compat.cpp, citra_libretro.cpp,
LibretroCore.m) extends CoreLife: every start, reset, failure and end of the
core there is an action here with what it does to the keyboard. A request is a
block of the main queue and then a dialog (`dialogs`), which knows whether its
generation is still current; `adapter`, `keyboard`, `registered` and `current`
are the four pointers between frontend and title. LibretroCore's stop takes the
callback away and counts the generation up; a game that is loaded over another has no
stop, and there retro_unload_game and retro_deinit call
`retro_set_keyboard_callback(nullptr)` (`DropKeyboard` in `TitleUnloaded`): the old
dialog stays on the screen and of the current generation, but finds no keyboard to
answer. Only retro_reset takes nothing back (`TitleReset`). The applet is external.

**CoreOptions** (runloop.c, core_settings.cpp) follows one key through the option
manager; keys do not depend on one another there. `manager` is the record of
`core_option_manager_t` for it, `file` what each of the four files says,
`optPath` and `active` the override in effect. `kind` is what the core makes of
the key, one kind for each way it is read, in the groups of core_settings.cpp.
LoadGame registers once or twice, as the version of the interface decides.

**UserDirs** (file_util.cpp, the storage options, the guard of retro_load_game)
extends it with the map of directories, of which it follows UserDir and one
other, since all others are set alike, and with what the frontend answers.

**Configuration** (configuration.c) likewise follows one setting. An entry of a
table is told by what is done with it (reset, read, saved, compared, and how it
is converted), and Init chooses the entry. Values carry their origin, so a
property can ask where a value came from. Remap files hold the per-user pad settings
and seven entries of the tables, `input_turbo_*` (`TurboKeys`), which are also in the
main file and in overrides. The functions that keep the global values and put them back
are not in src/; what they do is taken from the comments at runloop.c:4915 and
configuration.c:6141, and whether they put a value back when no remap was in effect is
left open.

**RunLoop** (runloop.c). A pass is one action: a composition of operators, one
per check, in the code's order, from a state to a state with `out` as the early
return. The inputs of a pass are the hotkeys that are down and one circumstance
(no focus, no time skipping, an empty rewind buffer, a limiter that sleeps, a
late quit, the dummy core). Commands of the app and the core come in between. An
override by the core is any combination of fast forward, a ratio of its own and the
hotkeys off. `runloop_get_fastforward_ratio` puts the app's ratio before it (`Ratio`),
`runloop_apply_fastmotion_override` does not ask for that one (`OverrideRatio`): the two
disagree in the code, and so they do here.

Every definition that models code is in the `map` of `PROJECT.json` with its
lines. Operators whose comment begins with "Faulty" are the plausible bugs each
property is measured against; nothing else uses them.

## 3. Runs

| run | module / cfg | shows | instance |
|---|---|---|---|
| `session` | RoomSession / MCRoomSession | types; `SnapshotIsTrue` (IDLE is clean, JOINED is running); failures explained; `ThreadsAreOwned` (no orphans, callbacks bound, finished is stopped); `SocketIsSafe` (loop has its socket, one user, Leave disconnects); RoomApi is implemented; under fairness a cancelled session ends and JOINING resolves | a room larger than the snapshot's capacity, one error of each kind, about 253,000 states |
| `leaving_stuck` | / MCLeavingEndsWithCleanup | finding 1 | |
| `leave_hang` | / MCLeaveFreesThread | finding 2 | |
| `nwm_uds` | MCNwmUds / MCNwmUds | host's books agree (with types); every slot has an owner; clients know all nodes | 3 consoles, 2 of which may host, 3 nodes, 4 calls or departures, symmetric consoles, about 614,000 states |
| `nwm_full` | / MCFullNetworkRefuses | finding 3 | 2 nodes |
| `cia_import` | CiaImport / MCCiaImport | live title whole; result true; settings restored; prior kept; import excludes games (with types); cancel sticks; under fairness the import ends | 2 callers, 2 open confirmations, about 1,447,000 states |
| `cia_layout` | CiaLayout / MCCiaLayout | `AccessesInside` (reads inside the file, uses inside the section); sections in order; contents fill | boundary values of each field, about 463,000 states |
| `core_life` | Keyboard / MCCoreLife | the worker needs its library; frames need a system that is on; frames of a session keep time; joining is watched; a request has its dialog (with types); an answer is for its request | both build modes, three renderers, 2 dialogs, about 1,856,000 states |
| `overrides` | Configuration / MCConfiguration | `OverridesEnd` (overrides and remaps, with types); the main file keeps its value; `SavedReturns` (overrides and settings); saving leaves the settings | 2 games, files of one layer from the start, 2 edits, about 965,000 states |
| `options` | UserDirs / MCCoreOptions | types of options and directories; `CoreSeesOption` (options seen, swaps explained); a flush guarantees; storage isolated; `OptionReturns` (saved options return, two registrations act as one); own file only | 2 games, 3 changes, about 770,000 states |
| `layout_option` | CoreOptions / MCLayoutOptionCounts | finding 4 | 1 game, 1 change |
| `run_loop` | RunLoop / MCRunLoop | `SpeedEnds` (rewind pauses again, fast means nonblocking, mute ends, audio blocks again, limit ends, with types); `CoreRests` (paused, unfocused); shutdown is taken | 15 sets of keys, 3 events, about 150,000 states |

### Bounds and why they are enough

* *Sessions* are not bounded: attempts, cancels, games and late packets follow
  each other without a counter, because every variable is finite. `MaxMembers`
  is 254 in the code; 1 with a room of 2 makes the counter clip, and the proof of
  `TypeOK` covers every other pair.
  The errors are grouped by how the code treats them, one value per group.
* *NwmUds* needs a bound because service calls create frames: `MaxCalls = 4`
  covers host, connect, connect and one of leave, eject, destroy or drop-out,
  in every order. A network of three fits everybody; `nwm_full` takes two,
  so that two clients compete for the last place. The consoles that may host are
  interchangeable, and so are the others (symmetry); no temporal property is checked
  with symmetry. With two hosts a stale node map, a request to another host and a
  foreign frame all occur.
* *Importer*: two callers suffice for every conflict over one mutex and one pair
  of settings, and calls may be repeated without bound.
* *Dialogs*: two confirmations can be open at once, one more than the code means
  to allow.
* *Core life cycle*: not bounded; games, resets, context losses and attempts
  follow each other without a counter. Two dialogs are an old and a new one,
  which is what an answer can be confused about.
* *Settings*: two games show what passes from one to the next, while core and
  directory files are shared by both; two edits from outside are a file and a
  value, or a file placed and lost. One game's file may exist from the start;
  the others come from saves and edits.
* *Options*: two games for the same reason; three changes set an option, create
  or remove an override and change again. Faults of directories are looked at
  beside the storage option only, since no other kind depends on them.
* *Run loop*: three events are passes with a key or circumstance or steps in
  between, so that a pause, a lost focus and a rewind, or an override, a key and a
  replaced core, come together; passes without either are not counted, so counters run out. The key
  sets are each key alone and the pairs whose checks meet (pause and fast forward
  hold, rewind and fast forward). The settings are fixed to pausing without
  focus, muting in fast forward and rewind, vsync and a throttled menu, those
  with the most to undo. The slots end at 1 instead of 999.
* *Layout*: TLC's integers are 32 bits wide, so `Word` is 2^26 instead of 2^64
  and `MaxInput` 20,000 bytes instead of the code's limit; the values of each
  field lie just below, at and above a boundary of the checks. The proofs
  assume only `Word > 2 * MaxInput + 8 * MaxSection`, which 2^64 fulfils.

`CHECK_DEADLOCK FALSE` is set where the system really stops: a NWM instance
whose calls are used up, an accepted or rejected file, and a run loop that has
quit.

### Environment

* The room server delivers reliably and in order between two members while both
  are in the room. Frames to a member that left are lost, and those it had sent
  may or may not have been relayed.
* Titles call Initialize first, host or connect only while not connected (a
  connect may be repeated after its timeout), as the service's callers do.
* AM::CIAFile may lose or corrupt bytes and may fail; a rename with
  RENAME_EXCL is atomic; the process may be killed between any two steps.

### Fairness

`session` and `leave_hang`: the threads of the process keep being
scheduled (weak fairness of the lifecycle call under way, the worker and
MemberLoop) and the two deadlines pass (`JoinServiceFail` for the five seconds
of `enet_host_service` and `WorkerExpire` for Run's ten seconds). The first is
strong fairness, because the polling loop leaves and re-enters that place.
Nothing is assumed of the server, the player or the console. `cia_import`: the
main queue runs its blocks, the background queue its worker, and the core's call
has no wait in it; the user need never touch a dialog. NwmUds, CiaLayout,
Keyboard with CoreLife, Configuration, UserDirs and RunLoop check safety only;
`ShutdownIsTaken` and `RewindPausesAgain` (in `SpeedEnds`) say within how many passes something
happens instead of assuming that passes go on.

## 4. Findings

1. `leaving_stuck`: `retro_azahar_room_leave` tests `finished` between Run's
   IDLE (room_session.cpp:83) and its `finished = true` (:86), and the snapshot
   then shows LEAVING although nothing is left to clean up, until the next join
   or game change. The room screen then offers neither button: it joins
   only from IDLE and disconnects only outside LEAVING. room_api.h:20 says state 4 lasts until cleanup completes.
2. `leave_hang`: MemberLoop stores Joined after Leave has stored Idle, its loop
   goes on, and `loop_thread->join()` waits as long as the room stays up; a
   lifecycle call that waits for the worker waits too. ARCHITECTURE.md:87 says
   that leaving frees socket and thread. `CancelEndsSession` shows it is the
   only way a cancelled session can last.
3. `nwm_full`: HandleAuthenticationFrame reserves nothing, so with one place left
   two consoles are let in and the second EAPoL-Start meets the assertion.
4. `layout_option`: ParseLayoutOptions chooses the custom layout whenever
   `citra_custom_layout_config` is not empty, and its default is a list of eight
   numbers, so that the option Screen Layout does nothing until the app pushes a
   layout. core_settings.cpp:567 says the list is used for Custom only.

The properties that hold exclude these cases as narrowly as possible and say so:
`LateWelcome` for 2; the books of a host that failed the assertion of 3 are not
judged after that; the properties of the local wireless service leave out the
consoles in `mixed`: the second and third behaviour below put a console there, and so
does asking a second host before the first has answered.

Further behaviours that the models reach and no run is about. The first breaks
an assertion, in the same way as finding 2 (a state tested, then changed by
another thread); of the others the repository says nothing:

* SendPacket tests the room state (nwm_uds.cpp:86) and then calls GetMacAddress,
  which asserts that the member is connected (room_member.cpp:543); another
  thread may have set Idle in between.
* The broadcast EAPoL-Logoff for one client is taken by another that is
  connecting as well; both bear one id (nwm_uds.cpp:271). A client's list of
  nodes is still right (`ClientsKnowAllNodes`), as long as the frame is its own
  host's: a client takes the list of nodes of any host in the room. Nothing that is
  checked here excludes the shared id.
* A handler tests `initialized` before it takes its lock (nwm_uds.cpp:554), and what
  it adds after ShutdownHLE has cleared node_map is there at the next Initialize;
  `SlotHasOwner` does not judge hosts that have shut down.
* node_map is filled from any host's broadcast and BeginHostingNetwork does not
  clear it (nwm_uds.cpp:133, :968).
* The isolated root is tested at the load only: a game let in while the
  isolation was rejected and CreateDir failed moves when a later reading of the
  options succeeds (see `StorageIsolated`).
* A setting that the main file does not name keeps the value of an override after
  it is unloaded (see `OverrideEnds`), and removing an override that does not
  exist writes it.
* retro_reset leaves a keyboard dialog open that then answers the next request
  (`crossed`; a game loaded over another is not excused, see Keyboard in section 2), and
  a text that Finalize refuses leaves the title without a
  dialog (`refused`).
* In pause, a fast-forward key while netplay forbids time skipping leaves the
  drivers nonblocking (`skewed`).

## 5. Proofs

| theorem (module) | property |
|---|---|
| TypeCorrect, SnapshotAgrees, ThreadsHaveOwner, SocketAlwaysSafe, FailuresAreExplained (RoomSessionProof) | TypeOK, SnapshotIsTrue, ThreadsAreOwned, SocketIsSafe, EveryFailureExplained |
| NoJoinAfterCancel (RoomSessionProof) | CancelIsFinal, which the refinement of RoomApi contains in the run |
| BridgeImplementsApi (RoomSessionProof) | ImplementsApi |
| LibraryOutlivesWorker, EmulatorIsPowered, SessionsKeepTime, HiddenScreenCancels (CoreLifeProof) | RoomNeedsCore, FrameNeedsSystem, FramesKeepTime, JoiningIsWatched |
| WaitingTitleHasDialog, TextIsForRequest (CoreLifeProof) | RequestHasDialog, AnswerIsForRequest |
| InstallTypes, TitleAlwaysWhole, AnswerIsTrue, SettingsComeBack, PriorIsKept (CiaInstallProof) | InstallTypeOK (a part of ImportExcludesGame), LiveTitleWhole, ResultIsTrue, SettingsRestored, PriorKept |
| GameIsExcluded, CancelIsKept, ImporterKeepsPromises (CiaInstallProof) | ImportExcludesGame, CancelSticks, and the importer's invariants behind the dialogs |
| AccessesAreInside, SectionsAreInOrder, ContentsFillSection (CiaLayoutProof) | AccessesInside, SectionsInOrder, ContentsFill |
| GamesAreIsolated, OptionsAreTyped, FilesAreOwn (OptionsProof) | StorageIsolated, StorageTypeOK, OwnFileOnly |
| CoreKnowsOptions, FlushIsGuaranteed, OptionsReturn (OptionsProof) | CoreSeesOption, FlushGuarantees, OptionReturns |
| OverridesAreTemporary, MainIsKept, SavingIsHarmless, SavedSettingsReturn (ConfigurationProof) | OverridesEnd, MainKeepsItsValue, SavingLeavesSettings, SavedReturns |
| BooksAgree, SlotsHaveOwners, NodesAreKnown (NwmUdsProof) | HostBooksAgree, SlotHasOwner, ClientsKnowAllNodes |
| SpeedIsOver, CoreIsAtRest, ShutdownIsServed (RunLoopProof) | SpeedEnds, CoreRests, ShutdownIsTaken |

They hold under the named assumptions of the modules only: room sizes are
positive, the error groups avoid the three reserved names, `MaxMembers` is a
natural number; `NoCaller` is no caller; the word is large enough; games are named
unlike the four reserved files, and in Configuration unlike the words the module
itself uses for origins of a value (`Words`); the sets of keys of the run loop
consist of hotkeys, with the empty one among them; who may host is a console, and
`MaxNodes` is a u8 of at least 2 (a host and somebody else); bounds are natural
numbers.

*Session.* None of the properties is inductive: IDLE is clean because of where
the worker is, which depends on what the caller still owes, which depends on
where MemberLoop is. `Inv` is the conjunction that says so, one part per
relation: `CallerInv` (worker and call), `CallerJobInv` (call and owed
callbacks), `LoopInv` (caller and MemberLoop), `SocketInv`, `WorkerInv`
(a worker that has not begun or has left owns nothing), `ApiInv` (lifecycle
call and worker) and `SnapshotInv`. A lemma per thread (JoinInv, LeaveInv, ...)
goes through its actions. The refinement adds `GuardInv`, which carries `cancel`
and `ready` through the waits of a lifecycle call, and maps each action to a
step of RoomApi or a stutter.

*Local wireless.* `NwmInv` has two halves. The first is about one console:
`Counts` (numbers held, and how many) and, for a host of one network, `Books`: each
number but the host's own has its member. `ShutdownHLE` empties node_map and nothing
else, so the last needs a service that is initialised. The second is about two
consoles and the frames between them, for links of any length: `FarewellOf` says that
each authentication request on its way from a console that does not belong to the
host any more has a deauthentication behind it, so a place given to it late is
taken back; `KnownOf` says that the last logoff frame on its way, or else the one
being handled, or else what the client holds, covers the host's nodes; and
`NamedOf`, that whatever a host has ever told names the host, which is why a client of
its earlier network is right about a new one that has just begun. Each action has a
lemma for its own console (`...Step`) and one for its pairs with the others
(`...Pairs`); most change nothing that a promise is about (`QuietPairs`). A console
that is not the actor keeps its promises to third ones (`OthersPairs`).
`RoomInv` says that whoever is in none of the histories is in the room, so that what
is sent between two such consoles arrives.

*Importer.* `Inv`: a call inside the guarded stages owns the mutex (`LockInv`),
only a call that wrote through the redirected directory and read it back has
something `verified` to publish (`StagingInv`), settings differ from the user's
only within those stages and every `Paths` object remembers the user's
(`SettingsInv`), and the answer is SUCCESS only from the rename on
(`AnswerInv`). It is inductive for any number of callers, of which only the
owner of the mutex can be inside. For the dialogs, `BusyInv` says
that the picker and an import exclude each other, that whichever is there holds the
busy flag, and that the worker is inside the core only while its call is under
way; a confirmation left open finds the flag set, so their number does not matter.

*Core and keyboard.* A block of the main thread is a sequence of steps, blocks nest
(a load may begin with an unload), and the invariant has to hold between any two
steps. `LifeInv` does not list what `todo` can be: `Chained` says which step may
follow which (`After`), and `ObjectInv`, `SessionInv`, `NowInv` and `FrameInv` say
what holds when a step comes first; a step that is done hands its knowledge to the
one that follows. RoomApi is all it takes of the worker. `KeyboardInv` adds that a
keyboard which a title has called is registered and is taken back before the core's
object goes (`HeldInv`); that while a keyboard is registered one dialog at most is fresh
and it is the request's (`FreshInv`; after an unload a fresh dialog may be left, with
nobody to answer); that a text which is ready is the right one (`ReadyInv`); and that a
title that waits has a dialog or is about to be ended by the block under way
(`WaitInv`).

*Layout.* The sums of bounded sections stay below the word (`AddPlain`,
`AlignUp`, `Follow`, `SectionsPlain`), hence wrap-around, which the model has,
never happens behind a passed check; `Inv` carries these bounds through the walk.

*Directories.* `StorageInv`: the directories lie in one root or are not set at all
(`DirsAgree`), and a loaded game for which the frontend names the isolated root
is in it. The second part is kept by each reading of the options, because it
either fails and leaves the map, or makes it anew from the same answer
(`ReadingAgrees`).

*Options.* That no foreign file is written depends on which path the manager and
the override hold, so `OptionsInv` adds to the types that both belong to the
game that is loaded (`HeldFor`) and that nothing is held without a game. Lemmas
on the operators say that a registration chooses among the game's own files
(`RegistersOwn`, `LoadsOwn`) and that saving writes no other than the two it is
given (`SavesOwn`); then one lemma per action.

That the core sees each change is a matter of `updated` between a change and the
next reading (`SeenInv`). That a flush guarantees and options return needs
that the override in use is the first one a start looks for, that there is none when
none is in use, and that the configuration in memory is that of its file
(`SettledInv`).

*Settings.* `ConfigInv` follows origins. A value of an override outlasts it only where
the main file does not say otherwise (`OverrideEnds`), and needs a key that is read
(`ReadBrings`); a value of a remap is in effect only while a core runs whose global
value is kept, and is in no other file unless a save has spread it (`RemapKnown`,
`RemapFiles`). The lemmas below it say what a load can bring (`LoadBrings`), that the
comparison finds what differs (`ComparisonFinds`, which needs that only keys that are
read are compared, checked table by table), and that what is written is read back
(`WrittenReturns`).

*Run loop.* A pass is a composition of some fifteen operators, so the proof has
two levels. Below, lemmas on the primitives (pausing, `driver_set_nonblock_state`,
the override, a remembered key, a returned result) say what each keeps of the state
(`StateOK`); above, one lemma per check carries a relation between the start of a
pass and what it has come to (`Since`, `PassOK`, `Early`, `Expected`, `Ready`)
through the early returns, and `PassedOver` ends it with the count of frames.
`LoopInv` needs two facts that the code does not state: no frames of a rewind are
left in a pause or under a menu that pauses, and while the keys of such a menu are
flushed a pause by the hotkey is made good in each pass, so that a rewind does not
get beyond its first frame (`Restored`). Without the second a rewind could
end without its pause. `BurstOK` relates the frames that have run, the pass that starts
a rewind among them, to those that are left: together three at most, and a pause when
none is left.

Only model-checked: the liveness properties and everything under fairness (the
prover has no rules for ENABLED; `ImportEnds`, `CancelEndsSession` and
`JoiningResolves`). No module declares a recursive operator.

## 6. Not modelled, and why

* RoomMember's chat, status, moderation and ban-list messages and the nickname
  check: they forward data or reject before anything starts.
* NWM's data plane (SendTo, PullPacket, Bind, Unbind), beacon contents and
  encryption: planned; beacons are present as the chain of events that
  announces a host.
* AM::CIAFile, decryption and hashing: what they decide is a choice.
* LibretroCore.m beyond its start, stop and load guards, time controls, room
  entries and keyboard; save states and serialization; a core that is loaded
  without content; the body of a frame in retro_run; audio, video, memory maps.
* The run loop's hotkeys for replay slots (runloop.c:6909-6968, the code of the save
  states' slots with another counter), run-ahead, netplay, achievements, recording, cheevos hardcore
  mode and the environment calls that hand data through.
* configuration.c: playlist history, names of drivers, input autoconfiguration;
  the tables themselves are classes of entries, not each of their lines.
* file_util.cpp: reading, writing, listing and path strings are I/O without
  state of the system; what the others take from them is a choice.
* The cheat engine: RunCallback executes nothing in the experiment.
* The play screen: its calls of the bridge are inputs of CoreLife and Keyboard; its
  own state is menus and layout.
* Build scripts and the rest of manic_compat.cpp: no state at run time.

## 7. Plan

Done, in this order: RoomMember and RoomSession with their proofs; NwmUds;
RoomApi and the refinement; CiaInstall, CiaImport, CiaLayout and their proofs;
CoreLife over RoomApi; Configuration; CoreOptions and UserDirs with their proofs;
RunLoop; Keyboard over CoreLife.

Theorems since: the import dialogs, CoreLife with Keyboard, the rest of the options,
Configuration, RunLoop, NwmUds.

Next:
1. `NwmData`: binds, channels and queues of the data plane beside the connection
   protocol.
2. `Play`: the play screen's start, pause, leave and quit flow over CoreLife, and
   save states with their refusal during a session.
