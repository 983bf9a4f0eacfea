------------------------------- MODULE CoreLife -------------------------------
(***************************************************************************)
(* The life of the 3DS core around a room: the run loop that loads and     *)
(* unloads it (runloop.c), the core's entry points (citra_libretro.cpp),   *)
(* the frontend bridge (LibretroCore.m) and the room screen                *)
(* (AzaharRoomView.swift).                                                 *)
(*                                                                         *)
(* All of them run on the main thread, one block at a time.  A block is    *)
(* cut where it waits for the room's worker or reads what the worker       *)
(* writes: `todo` is what the current block has still to do.  The worker   *)
(* and its snapshot are the interface RoomApi, which RoomSession           *)
(* implements.  A frame may be run whenever no block is under way.         *)
(***************************************************************************)
EXTENDS RoomApi, Sequences

CONSTANTS
    Experiments,  \* ManicRoomBuildMode = "experimental": a set of Booleans
    Renderers     \* the graphics interfaces a title may be started with

ASSUME ExperimentsAssumption == Experiments \subseteq BOOLEAN
ASSUME RenderersAssumption == Renderers \subseteq {"OpenGL", "Vulkan", "Software"}

Controls == {"fastForward", "slowmotion", "rewind"}

ShownStates == {"OFFLINE", "IDLE", "JOINING", "JOINED", "LEAVING"}

Steps == {"core_unload_game", "unloaded", "retro_deinit", "powerOff", "delete",
          "uninit_symbols", "init_symbols", "retro_init", "retro_load_game",
          "context_reset", "System::Load", "loaded", "retro_reset",
          "cancelClosing", "close", "cancelReady", "open",
          "cancelLeaving", "showLeaving", "accept", "showJoining", "start",
          "resetControls", "stopped"}

VARIABLES
    experiment,  \* the build mode
    renderer,    \* Settings::values.graphics_api
    todo,        \* the rest of the block that the main thread is in
    running,     \* LibretroCore.isRunning
    handle,      \* runloop_st->lib_handle
    inited,      \* RETRO_CORE_FLAG_INITED
    gameFlag,    \* RETRO_CORE_FLAG_GAME_LOADED
    instance,    \* emu_instance # nullptr
    gameLoaded,  \* emu_instance->game_loaded
    powered,     \* Core::System::IsPoweredOn
    bridge,      \* RoomSession::Initialize has succeeded
    controls,    \* time controls in use
    screen       \* "hidden", or what AzaharRoomView::refresh saw last

build == <<experiment, renderer>>
loopVars == <<running, handle, inited, gameFlag>>
coreVars == <<instance, gameLoaded, powered, bridge>>
viewVars == <<controls, screen>>
lifeVars == <<apiVars, build, todo, loopVars, coreVars, viewVars>>

LifeInit ==
    /\ ApiInit
    /\ experiment \in Experiments /\ renderer \in Renderers
    /\ todo = << >>
    /\ running = FALSE /\ handle = FALSE /\ inited = FALSE /\ gameFlag = FALSE
    /\ instance = FALSE /\ gameLoaded = FALSE /\ powered = FALSE /\ bridge = FALSE
    /\ controls = {}
    /\ screen = "hidden"

Idle == todo = << >>

\* The next step of the block, and what the block goes on with.
Step(name) == ~Idle /\ Head(todo) = name
Continue(steps) == todo' = steps \o Tail(todo)

\* A block that begins.
Block(steps) == Idle /\ todo' = steps

-------------------------------------------------------------------------------
(* Calls of the bridge that the core makes, and of the frontend. *)

\* Faulty: the worker is told to end and not waited for.
GameStoppedAtOnce == <<"cancelClosing">>

\* RoomSession::GameStopped, and Shutdown: cancel, wait for Run, go OFFLINE.
GameStopped == <<"cancelClosing", "close">>

GameReady == IF bridge THEN <<"cancelReady", "open">> ELSE << >>

leaveAzaharRoom == IF handle THEN <<"cancelLeaving", "showLeaving">> ELSE << >>

RoomCancel ==
    /\ \/ Step("cancelClosing") /\ Cancel /\ open' = FALSE
       \/ (Step("cancelReady") \/ Step("cancelLeaving")) /\ Cancel /\ open' = open
    /\ Continue(<< >>)
    /\ UNCHANGED <<build, loopVars, coreVars, viewVars>>

\* GameStopped and GameReady return once the worker has been joined.
RoomWaited ==
    /\ \/ Step("close") /\ Close
       \/ Step("open") /\ Open
    /\ Continue(<< >>)
    /\ UNCHANGED <<build, loopVars, coreVars, viewVars>>

RoomShowLeaving ==
    /\ Step("showLeaving")
    /\ IF busy THEN ShowLeaving ELSE UNCHANGED apiVars
    /\ Continue(<< >>)
    /\ UNCHANGED <<build, loopVars, coreVars, viewVars>>

\* retro_azahar_room_join: refused, or accepted and its worker started; the
\* frontend then takes back the time controls.
RoomAccept ==
    /\ Step("accept")
    /\ IF open /\ ~busy
         THEN Accept /\ Continue(<< >>)
         ELSE UNCHANGED apiVars /\ todo' = << >>
    /\ UNCHANGED <<build, loopVars, coreVars, viewVars>>

RoomStart ==
    /\ \/ Step("showJoining") /\ ShowJoining /\ Continue(<< >>)
       \/ Step("start") /\ Start
            /\ IF busy' THEN Continue(<< >>) ELSE todo' = << >>
    /\ UNCHANGED <<build, loopVars, coreVars, viewVars>>

ResetControls ==
    /\ Step("resetControls")
    /\ controls' = {}
    /\ Continue(<< >>)
    /\ UNCHANGED <<apiVars, build, loopVars, coreVars, screen>>

\* The worker and MemberLoop.
RoomStep ==
    /\ ShowJoined \/ ShowIdle \/ End
    /\ UNCHANGED <<build, todo, loopVars, coreVars, viewVars>>

-------------------------------------------------------------------------------
(* Loading and unloading. *)

runloop_event_deinit_core == <<"core_unload_game", "retro_deinit", "uninit_symbols">>

runloop_event_init_core == <<"init_symbols", "retro_init", "retro_load_game">>

\* context_destroy releases the renderer; a loaded game is then stopped.
core_unload_game ==
    /\ Step("core_unload_game")
    /\ Continue(IF gameFlag THEN GameStopped \o <<"unloaded">> ELSE << >>)
    /\ UNCHANGED <<apiVars, build, loopVars, coreVars, viewVars>>

retro_unload_game ==
    /\ Step("unloaded")
    /\ powered' = FALSE
    /\ gameFlag' = FALSE
    /\ Continue(<< >>)
    /\ UNCHANGED <<apiVars, build, running, handle, inited, instance, gameLoaded,
                   bridge, viewVars>>

retro_deinit ==
    /\ Step("retro_deinit")
    /\ Continue(IF inited
                  THEN GameStopped \o <<"powerOff">> \o GameStopped \o <<"delete">>
                  ELSE << >>)
    /\ UNCHANGED <<apiVars, build, loopVars, coreVars, viewVars>>

PowerOff ==
    /\ Step("powerOff")
    /\ powered' = FALSE
    /\ Continue(<< >>)
    /\ UNCHANGED <<apiVars, build, loopVars, instance, gameLoaded, bridge, viewVars>>

DeleteInstance ==
    /\ Step("delete")
    /\ instance' = FALSE /\ gameLoaded' = FALSE /\ bridge' = FALSE
    /\ Continue(<< >>)
    /\ UNCHANGED <<apiVars, build, loopVars, powered, viewVars>>

uninit_libretro_symbols ==
    /\ Step("uninit_symbols")
    /\ handle' = FALSE /\ inited' = FALSE /\ gameFlag' = FALSE
    /\ Continue(<< >>)
    /\ UNCHANGED <<apiVars, build, running, coreVars, viewVars>>

runloop_init_libretro_symbols ==
    /\ Step("init_symbols")
    /\ \/ handle' = TRUE /\ Continue(<< >>)
       \/ todo' = << >> /\ UNCHANGED handle
    /\ UNCHANGED <<apiVars, build, running, inited, gameFlag, coreVars, viewVars>>

\* The bridge's Initialize may fail without the core noticing.
retro_init ==
    /\ Step("retro_init")
    /\ instance' = TRUE /\ gameLoaded' = FALSE
    /\ bridge' \in BOOLEAN
    /\ inited' = TRUE
    /\ Continue(<< >>)
    /\ UNCHANGED <<apiVars, build, running, handle, gameFlag, powered, viewVars>>

\* The file or the renderer is refused, or loading goes on: at once for the
\* software renderer, else when the graphics context is there.
retro_load_game ==
    /\ Step("retro_load_game")
    /\ \/ todo' = runloop_event_deinit_core /\ UNCHANGED gameFlag
       \/ IF renderer = "Software"
            THEN Continue(<<"System::Load">>) /\ UNCHANGED gameFlag
            ELSE Continue(<<"context_reset">>) /\ gameFlag' = TRUE
    /\ UNCHANGED <<apiVars, build, running, handle, inited, coreVars, viewVars>>

\* Without OpenGL symbols nothing is loaded; a loaded game gets a renderer.
context_reset ==
    /\ Step("context_reset")
    /\ \/ Continue(IF gameLoaded THEN << >> ELSE <<"System::Load">>)
       \/ renderer = "OpenGL" /\ Continue(<< >>)
    /\ UNCHANGED <<apiVars, build, loopVars, coreVars, viewVars>>

\* Faulty: a failed load does not clear game_loaded.
LoadFailsSilently ==
    /\ Step("System::Load")
    /\ \/ powered' = TRUE /\ Continue(GameReady \o <<"loaded">>)
       \/ /\ powered' = FALSE
          /\ Continue(IF gameFlag THEN << >> ELSE runloop_event_deinit_core)
    /\ UNCHANGED <<apiVars, build, loopVars, instance, gameLoaded, bridge, viewVars>>

\* do_load_game.  When it fails inside retro_load_game the frontend gives up.
do_load_game ==
    /\ Step("System::Load")
    /\ \/ /\ powered' = TRUE
          /\ Continue(GameReady \o <<"loaded">>)
          /\ UNCHANGED gameLoaded
       \/ /\ powered' = FALSE
          /\ gameLoaded' = FALSE
          /\ Continue(IF gameFlag THEN << >> ELSE runloop_event_deinit_core)
    /\ UNCHANGED <<apiVars, build, loopVars, instance, bridge, viewVars>>

GameLoaded ==
    /\ Step("loaded")
    /\ gameLoaded' = TRUE
    /\ gameFlag' = TRUE
    /\ Continue(<< >>)
    /\ UNCHANGED <<apiVars, build, running, handle, inited, instance, powered,
                   bridge, viewVars>>

\* The core looks at its worker again, after the frontend looked at the
\* snapshot.
retro_reset ==
    /\ Step("retro_reset")
    /\ IF busy
         THEN Continue(<< >>) /\ UNCHANGED powered
         ELSE powered' = FALSE /\ Continue(<<"System::Load">>)
    /\ UNCHANGED <<apiVars, build, loopVars, instance, gameLoaded, bridge, viewVars>>

Stopped ==
    /\ Step("stopped")
    /\ running' = FALSE
    /\ Continue(<< >>)
    /\ UNCHANGED <<apiVars, build, handle, inited, gameFlag, coreVars, viewVars>>

-------------------------------------------------------------------------------
(* Blocks of the main thread. *)

azaharRoomActive == handle /\ shown \in {"JOINING", "JOINED", "LEAVING"}

startWithCustomSaveDir ==
    /\ Idle /\ ~running
    /\ running' = TRUE
    /\ UNCHANGED <<apiVars, build, todo, handle, inited, gameFlag, coreVars, viewVars>>

\* A core that is still there is unloaded first.
loadGame ==
    /\ running
    /\ Block((IF handle THEN runloop_event_deinit_core ELSE << >>)
                \o runloop_event_init_core)
    /\ UNCHANGED <<apiVars, build, loopVars, coreVars, viewVars>>

stop ==
    /\ running
    /\ Block(leaveAzaharRoom \o <<"stopped">> \o runloop_event_deinit_core)
    /\ UNCHANGED <<apiVars, build, loopVars, coreVars, viewVars>>

reload ==
    /\ gameFlag /\ ~azaharRoomActive
    /\ Block(<<"retro_reset">>)
    /\ UNCHANGED <<apiVars, build, loopVars, coreVars, viewVars>>

\* The video driver is restarted: context_destroy, then context_reset.
ContextLost ==
    /\ gameFlag /\ renderer # "Software"
    /\ Block(<<"context_reset">>)
    /\ UNCHANGED <<apiVars, build, loopVars, coreVars, viewVars>>

\* fastForward, setSlowmotionEnable and setRewind: off always, on only outside
\* a session and never in the experiment.
SetControl(c) ==
    /\ Idle
    /\ \/ controls' = controls \ {c}
       \/ ~experiment /\ ~azaharRoomActive /\ controls' = controls \cup {c}
    /\ UNCHANGED <<apiVars, build, todo, loopVars, coreVars, screen>>

azaharRoomDidEnterBackground ==
    /\ handle
    /\ Block(leaveAzaharRoom)
    /\ UNCHANGED <<apiVars, build, loopVars, coreVars, viewVars>>

\* What azaharRoomStatus tells the screen.
azaharRoomStatus == IF handle THEN shown ELSE "unsupported"

showRoom ==
    /\ Idle /\ running /\ screen = "hidden"
    /\ screen' = azaharRoomStatus
    /\ UNCHANGED <<apiVars, build, todo, loopVars, coreVars, controls>>

refresh ==
    /\ Idle /\ screen # "hidden"
    /\ screen' = azaharRoomStatus
    /\ UNCHANGED <<apiVars, build, todo, loopVars, coreVars, controls>>

\* Faulty: a player who was in fast forward stays in it.
JoinKeepingControls == <<"accept", "showJoining", "start">>

joinAzaharRoom == <<"accept", "showJoining", "start", "resetControls">>

connect ==
    /\ screen = "IDLE" /\ handle
    /\ Block(joinAzaharRoom)
    /\ UNCHANGED <<apiVars, build, loopVars, coreVars, viewVars>>

disconnect ==
    /\ screen \in {"JOINING", "JOINED"} /\ handle
    /\ Block(leaveAzaharRoom)
    /\ UNCHANGED <<apiVars, build, loopVars, coreVars, viewVars>>

\* Faulty: the screen trusts what it saw last.
HideByLastPoll ==
    /\ screen # "hidden"
    /\ Block(IF screen = "JOINING" THEN leaveAzaharRoom ELSE << >>)
    /\ screen' = "hidden"
    /\ UNCHANGED <<apiVars, build, loopVars, coreVars, controls>>

\* Closing the screen while joining cancels.
didHide ==
    /\ screen # "hidden"
    /\ Block(IF azaharRoomStatus = "JOINING" THEN leaveAzaharRoom ELSE << >>)
    /\ screen' = "hidden"
    /\ UNCHANGED <<apiVars, build, loopVars, coreVars, controls>>

-------------------------------------------------------------------------------

\* The steps that the keyboard takes part in (Keyboard.tla), and the others.
TitleEnds == retro_unload_game \/ PowerOff \/ retro_reset

OtherBlocks ==
    \/ startWithCustomSaveDir \/ loadGame \/ reload \/ ContextLost
    \/ \E c \in Controls : SetControl(c)
    \/ azaharRoomDidEnterBackground
    \/ showRoom \/ refresh \/ connect \/ disconnect \/ didHide

OtherSteps ==
    \/ RoomCancel \/ RoomWaited \/ RoomShowLeaving \/ RoomAccept \/ RoomStart
    \/ ResetControls
    \/ core_unload_game \/ retro_deinit \/ DeleteInstance
    \/ runloop_init_libretro_symbols \/ retro_load_game
    \/ context_reset \/ do_load_game \/ GameLoaded \/ Stopped

LifeNext ==
    \/ stop \/ TitleEnds \/ uninit_libretro_symbols \/ retro_init
    \/ OtherBlocks \/ OtherSteps \/ RoomStep

LifeSpec == LifeInit /\ [][LifeNext]_lifeVars

-------------------------------------------------------------------------------
(* Properties *)

\* Every variable is in its range, and the flags of current_core belong to a
\* library that is loaded.
LifeTypeOK ==
    /\ shown \in ShownStates
    /\ {open, busy, cancelled, experiment, running, handle, inited, gameFlag,
        instance, gameLoaded, powered, bridge} \subseteq BOOLEAN
    /\ renderer \in Renderers
    /\ todo \in Seq(Steps)
    /\ controls \subseteq Controls
    /\ screen \in ShownStates \cup {"hidden", "unsupported"}
    /\ inited \/ gameFlag => handle

\* "Calls must not overlap dlclose" (room_api.h): the library, whose code the
\* worker runs, and the core's object stay until the worker has ended, and a
\* core that is gone offers no room.
RoomNeedsCore ==
    /\ busy => handle /\ instance
    /\ ~instance => shown = "OFFLINE" /\ ~open

\* core_run calls retro_run between blocks; retro_run enters the emulator when
\* game_loaded is set.
MayRun == Idle /\ running /\ inited
Emulates == MayRun /\ gameLoaded

\* Whatever load, reset, context loss or failure came before, the emulator is
\* only entered while it is powered on and its core exists.
FrameNeedsSystem == Emulates => powered /\ instance

\* The room screen promises that states, fast forward, rewind and slow motion
\* are restricted during a session: no frame of a session runs under a time
\* control, whenever that was switched on.  (LEAVING is left out: a leave
\* that follows IDLE before Run has stored `finished` shows it once more.)
FramesKeepTime ==
    MayRun /\ shown \in {"JOINING", "JOINED"} => controls = {}

\* "Closing while joining cancels" (AzaharRoomView.swift): an attempt never
\* goes on joining behind the player's back.
JoiningIsWatched == Idle /\ screen = "hidden" => shown # "JOINING"

===============================================================================
