----------------------------- MODULE CoreOptions -----------------------------
(***************************************************************************)
(* The options of a core: the option manager of the run loop (runloop.c)   *)
(* with the files it keeps them in (for all cores, for a core, for a       *)
(* content directory, for a game), and the Azahar core that registers the  *)
(* options, reads them and applies them (core_settings.cpp, retro_run).    *)
(*                                                                         *)
(* Options do not depend on one another in the manager, so the module      *)
(* follows ONE key and says of the others only whether one has changed.    *)
(***************************************************************************)
EXTENDS Naturals

CONSTANTS
    Games,      \* contents; all of them in one directory
    MaxChanges  \* bound: what the user changes

ASSUME OptionGames == Games \cap {"global", "core", "dir", "none"} = {}
ASSUME OptionBound == MaxChanges \in Nat

Files == {"global", "core", "dir"} \cup Games

\* An option has a default and another value.
Choices == {"default", "other"}

\* What a file says of the key.
Contents == Choices \cup {"nofile", "absent"}

\* The layouts that the app may push, and the first one of the option's list.
Pushes == {"none", "push1", "push2"}
Rectangles == {"unset", "listed", "push1", "push2"}

-------------------------------------------------------------------------------
(* The kinds of keys, by what the core makes of them. *)

CpuKeys == {"jit"}
SystemKeys == {"plain"}
AudioKeys == {"plain"}
GraphicsKeys == {"plain", "jit"}

\* "swap" is citra_swap_screen, with citra_swap_screen_mode in `mode`; "layout" is
\* citra_layout_option beside citra_custom_layout_config.
LayoutKeys == {"plain", "swap", "layout"}

\* "storage" is citra_use_libretro_save_path.
StorageKeys == {"plain", "storage"}
InputKeys == {"plain"}

Kinds == CpuKeys \cup SystemKeys \cup AudioKeys \cup GraphicsKeys
           \cup LayoutKeys \cup StorageKeys \cup InputKeys

VARIABLES
    kind,         \* the kind of the key that is followed
    file,         \* what each file says of it
    perGame,      \* settings->bools.game_specific_options
    perCore,      \* ~settings->bools.global_core_options
    game,         \* RARCH_PATH_BASENAME while a core is loaded, or "none"
    manager,      \* runloop_st->core_options
    optPath,      \* RARCH_PATH_CORE_OPTIONS
    active,       \* the FOLDER_ and GAME_OPTIONS_ACTIVE flags
    updated,      \* core_options->updated
    pushed,       \* g_azahar_custom_layout
    canJit,       \* CanUseJIT; once allowed it stays so
    loaded,       \* emu_instance->game_loaded
    seen,         \* the core's setting
    rects,        \* custom_top_x .. custom_bottom_height
    mode,         \* the option's swap mode and the one the core has read
    button,       \* screen_swap_button_state
    swapped,      \* screens_swapped
    changes,      \* bound: counts up to MaxChanges
    steady        \* history: perGame and perCore are what they were at the registration

frontend == <<kind, file, perGame, perCore, game, manager, optPath, active>>
core == <<loaded, seen, rects, mode, button, swapped>>
optionVars == <<frontend, updated, pushed, canJit, core, changes, steady>>

\* The manager: the value, and the configuration it was made from.  `dirty`: the
\* configuration differs from its file, or will once another key is flushed.
NoManager == [index |-> "none", conf |-> "absent", path |-> "none", dirty |-> FALSE]
Managers == [index : Choices, conf : Choices \cup {"absent"}, path : Files, dirty : BOOLEAN]

OptionsTypeOK ==
    /\ kind \in Kinds
    /\ file \in [Files -> Contents]
    /\ perGame \in BOOLEAN /\ perCore \in BOOLEAN
    /\ game \in Games \cup {"none"}
    /\ manager \in Managers \cup {NoManager} /\ (manager = NoManager <=> game = "none")
    /\ optPath \in {"none", "dir"} \cup Games
    /\ active \in SUBSET {"game", "folder"}
    /\ (optPath = "none" <=> active = {}) /\ (optPath = "dir" <=> active = {"folder"})
    /\ updated \in BOOLEAN /\ canJit \in BOOLEAN /\ loaded \in BOOLEAN
    /\ pushed \in Pushes /\ rects \in Rectangles
    /\ seen \in Choices \cup {"custom"}
    /\ mode \in [option : {"Toggle", "Hold"}, read : {"Toggle", "Hold"}]
    /\ button \in BOOLEAN /\ swapped \in BOOLEAN
    /\ changes \in 0 .. MaxChanges /\ steady \in BOOLEAN

Exists(f, x) == f[x] # "nofile"

-------------------------------------------------------------------------------
(* Choosing, reading and writing the files. *)

validate_per_core_options(f, g) == perGame /\ Exists(f, g)

validate_folder_options(f) == perGame /\ Exists(f, "dir")

\* The file of the options, the one to take the first values from, and the path
\* and the flags, which only a game's or a folder's file sets.
runloop_init_core_options_path(f, g, path) ==
    CASE validate_per_core_options(f, g) ->
           [path |-> g, src |-> "none", opt |-> g, active |-> {"game"}]
      [] ~validate_per_core_options(f, g) /\ validate_folder_options(f) ->
           [path |-> "dir", src |-> "none", opt |-> "dir", active |-> {"folder"}]
      [] OTHER ->
           [path |-> IF perCore THEN "core" ELSE "global",
            src |-> IF perCore /\ ~Exists(f, "core") THEN "global" ELSE "none",
            opt |-> path, active |-> {}]

\* External: a configuration from the file or an empty one; the first values from
\* the source file, if there is one.
core_option_manager_new(f, path, src) ==
    LET conf == IF Exists(f, path) THEN f[path] ELSE "absent"
        from == IF src # "none" /\ Exists(f, src) THEN f[src] ELSE conf
    IN  [index |-> IF from \in Choices THEN from ELSE "default",
         conf |-> conf, path |-> path, dirty |-> FALSE]

runloop_init_core_options(f, c) == core_option_manager_new(f, c.path, c.src)

\* External: core_option_manager_flush sets the entry, config_file_write writes a
\* configuration that differs from its file.
Flushed(m) == [m EXCEPT !.dirty = @ \/ m.conf # m.index, !.conf = m.index]

Write(f, path, m) == IF m.dirty THEN [f EXCEPT ![path] = m.conf] ELSE f

\* The override file is read again, or made.
WriteOverride(f, path, m) == [f EXCEPT ![path] = m.index]

\* Faulty: saved to the file the options came from, not to the override.
SaveAtSource(f, m, path) == Write(f, m.path, Flushed(m))

\* Saves the options.
runloop_deinit_core_options(f, m, path) ==
    IF path # "none" THEN WriteOverride(f, path, m) ELSE Write(f, m.path, Flushed(m))

\* Faulty: the path outlives the options it belongs to.
PathKept(path) == path

\* path_clear(RARCH_PATH_CORE_OPTIONS).
PathAfterDeinit(path) == "none"

-------------------------------------------------------------------------------
(* Registering.  RETRO_ENVIRONMENT_SET_CORE_OPTIONS and its variants save the *)
(* options there are and make new ones.                                       *)

Registered(f, g, path) ==
    LET c == runloop_init_core_options_path(f, g, path)
    IN  [file |-> f, manager |-> runloop_init_core_options(f, c),
         optPath |-> c.opt, active |-> c.active]

SET_CORE_OPTIONS(r, g) ==
    Registered(runloop_deinit_core_options(r.file, r.manager, r.optPath), g,
               PathAfterDeinit(r.optPath))

SET_CORE_OPTIONS_V2(f, g, path) == Registered(f, g, path)

\* The answer to V2 says whether there are categories, not whether it worked: the
\* core takes it for a refusal and registers once more.
RegisterCoreOptions(g, categories_enabled) ==
    LET v2 == SET_CORE_OPTIONS_V2(file, g, optPath)
    IN  IF categories_enabled THEN v2 ELSE SET_CORE_OPTIONS(v2, g)

-------------------------------------------------------------------------------
(* The core reads its options. *)

\* GET_VARIABLE for citra_custom_layout_config: the app's layout before the option,
\* which is a member of a list and never empty.
CustomLayoutConfig == IF pushed # "none" THEN pushed ELSE "listed"

ParseCpuOptions(value) == IF kind = "jit" /\ ~canJit THEN "other" ELSE value

\* use_shader_jit falls as use_cpu_jit does.
ParseGraphicsOptions(value) == IF kind = "jit" /\ ~canJit THEN "other" ELSE value

ParseCustomLayoutConfig == CustomLayoutConfig

\* A layout that is not empty enables the custom mode.
ParseLayoutOptions(value) == IF kind = "layout" THEN "custom" ELSE value

\* The experiment does not look at the option for the save path.
ParseStorageOptions(value) == IF kind = "storage" THEN "default" ELSE value

\* Every option is read, whichever has changed.
ParseCoreOptions(value) ==
    /\ seen' = ParseStorageOptions(
                 ParseLayoutOptions(ParseGraphicsOptions(ParseCpuOptions(value))))
    /\ rects' = IF kind = "layout" THEN ParseCustomLayoutConfig ELSE rects
    /\ mode' = [mode EXCEPT !.read = mode.option]

\* The core is loaded for a game; do_load_game may fail, and retro_run then shows
\* empty frames.
LoadGame(g, categories_enabled, success) ==
    LET r == RegisterCoreOptions(g, categories_enabled)
    IN  /\ game = "none" /\ game' = g
        /\ file' = r.file /\ manager' = r.manager
        /\ optPath' = r.optPath /\ active' = r.active
        /\ ParseCoreOptions(r.manager.index)
        /\ updated' = FALSE /\ loaded' = success /\ steady' = TRUE
        /\ UNCHANGED <<kind, perGame, perCore, pushed, canJit, button, swapped, changes>>

\* uninit_libretro_symbols, after retro_unload_game.
uninit_libretro_symbols ==
    /\ game # "none" /\ game' = "none"
    /\ file' = runloop_deinit_core_options(file, manager, optPath)
    /\ manager' = NoManager /\ optPath' = PathAfterDeinit(optPath) /\ active' = {}
    /\ updated' = FALSE /\ loaded' = FALSE
    /\ UNCHANGED <<kind, perGame, perCore, pushed, canJit, seen, rects, mode, button,
                   swapped, changes, steady>>

\* The app is killed; the core's statics and the pushed layout are gone too.
Killed ==
    /\ game' = "none" /\ manager' = NoManager /\ optPath' = "none" /\ active' = {}
    /\ updated' = FALSE /\ loaded' = FALSE /\ pushed' = "none"
    /\ seen' = "default" /\ rects' = "unset"
    /\ mode' = [mode EXCEPT !.read = "Toggle"] /\ button' = FALSE /\ swapped' = FALSE
    /\ UNCHANGED <<kind, file, perGame, perCore, canJit, changes, steady>>

Flip(value) == IF value = "default" THEN "other" ELSE "default"

\* retro_run when options have changed and the button has not.
FrameUpdated(pressed) ==
    /\ loaded /\ updated
    /\ pressed = button
    /\ ParseCoreOptions(manager.index) /\ updated' = FALSE
    /\ UNCHANGED <<frontend, pushed, canJit, loaded, button, swapped, changes, steady>>

\* retro_run when the button has changed: GET_VARIABLE clears the flag as well, but
\* the options have been read before.  The mode is the one just read.
FrameSwapped(pressed) ==
    LET now == IF updated THEN mode.option ELSE mode.read
    IN  /\ loaded /\ kind = "swap" /\ pressed # button
        /\ mode' = [mode EXCEPT !.read = now]
        /\ swapped' = IF now = "Toggle" /\ pressed THEN ~swapped ELSE swapped
        /\ LET other == IF now = "Toggle" THEN swapped' ELSE pressed
           IN  seen' = IF other THEN Flip(manager.index) ELSE manager.index
        /\ button' = pressed /\ updated' = FALSE
        /\ UNCHANGED <<frontend, pushed, canJit, loaded, rects, changes, steady>>

retro_run == \E pressed \in BOOLEAN : FrameUpdated(pressed) \/ FrameSwapped(pressed)

-------------------------------------------------------------------------------
(* The menu and the app. *)

Change == changes < MaxChanges /\ changes' = changes + 1

\* Also SET_VARIABLE, by which a core sets its own option.
SetOption(value) ==
    /\ Change /\ game # "none" /\ value # manager.index
    /\ manager' = [manager EXCEPT !.index = value] /\ updated' = TRUE
    /\ UNCHANGED <<kind, file, perGame, perCore, game, optPath, active, pushed, canJit,
                   core, steady>>

SetOtherOption ==
    /\ Change /\ game # "none"
    /\ manager' = [manager EXCEPT !.dirty = TRUE] /\ updated' = TRUE
    /\ UNCHANGED <<kind, file, perGame, perCore, game, optPath, active, pushed, canJit,
                   core, steady>>

SetMode ==
    /\ Change /\ game # "none" /\ kind = "swap"
    /\ mode' = [mode EXCEPT !.option = IF @ = "Hold" THEN "Toggle" ELSE "Hold"]
    /\ manager' = [manager EXCEPT !.dirty = TRUE] /\ updated' = TRUE
    /\ UNCHANGED <<kind, file, perGame, perCore, game, optPath, active, pushed, canJit,
                   loaded, seen, rects, button, swapped, steady>>

\* Faulty: the core is not told.
ResetSilently ==
    /\ Change /\ game # "none"
    /\ manager' = [manager EXCEPT !.index = "default", !.dirty = TRUE]
    /\ UNCHANGED <<kind, file, perGame, perCore, game, optPath, active, updated, pushed,
                   canJit, core, steady>>

\* core_options_reset without a label, while options are loaded.
core_options_reset ==
    /\ Change /\ game # "none"
    /\ manager' = [manager EXCEPT !.index = "default", !.dirty = TRUE] /\ updated' = TRUE
    /\ UNCHANGED <<kind, file, perGame, perCore, game, optPath, active, pushed, canJit,
                   core, steady>>

\* core_options_reset for a core named by the menu, or while none is loaded.
ColdReset ==
    /\ Change /\ perCore /\ Exists(file, "core")
    /\ file' = [file EXCEPT !["core"] = "nofile"]
    /\ UNCHANGED <<kind, perGame, perCore, game, manager, optPath, active, updated, pushed,
                   canJit, core, steady>>

\* Faulty: a file that is gone is written only when something has changed.
FlushOnlyChanges(m) == Flushed(m)

\* A file that is gone is written in any case.
FlushGuaranteed(m) == [Flushed(m) EXCEPT !.dirty = @ \/ ~Exists(file, m.path)]

FlushedFiles ==
    IF optPath # "none" THEN WriteOverride(file, optPath, manager)
    ELSE Write(file, manager.path, FlushGuaranteed(manager))

core_options_flush ==
    /\ game # "none"
    /\ file' = FlushedFiles
    /\ manager' = IF optPath # "none" THEN manager
                  ELSE [Flushed(manager) EXCEPT !.dirty = FALSE]
    /\ UNCHANGED <<kind, perGame, perCore, game, optPath, active, updated, pushed, canJit,
                   core, changes, steady>>

\* A folder's file is refused while a game's file is active.
core_options_create_override(game_specific) ==
    LET path == IF game_specific THEN game ELSE "dir"
    IN  /\ Change /\ game # "none"
        /\ game_specific \/ "game" \notin active
        /\ file' = WriteOverride(file, path, manager)
        /\ optPath' = path
        /\ active' = IF game_specific THEN {"game"} ELSE {"folder"}
        /\ UNCHANGED <<kind, perGame, perCore, game, manager, updated, pushed, canJit, core,
                       steady>>

\* External: the menu offers the removal of the kind of file that is active.
MenuOffers(game_specific) == game_specific <=> "game" \in active

\* Only the removal of a game's file is checked against the flags.  The parent's
\* values are loaded if there is a parent.
core_options_remove_override(game_specific) ==
    LET left == [file EXCEPT ![optPath] = "nofile"]
        folder == game_specific /\ Exists(left, "dir")
        parent == IF folder THEN "dir" ELSE IF perCore THEN "core" ELSE "global"
        found == Exists(left, parent)
        value == IF found /\ left[parent] \in Choices THEN left[parent] ELSE manager.index
        conf == IF found THEN [conf |-> left[parent], dirty |-> FALSE]
                ELSE [conf |-> manager.conf, dirty |-> manager.dirty]
    IN  /\ Change /\ game # "none" /\ active # {}
        /\ game_specific => "game" \in active
        /\ MenuOffers(game_specific)
        /\ file' = left
        /\ updated' = (updated \/ found)
        /\ optPath' = IF folder THEN "dir" ELSE "none"
        /\ active' = IF folder THEN {"folder"} ELSE {}
        /\ manager' = IF folder THEN [manager EXCEPT !.index = value]
                      ELSE [index |-> value, path |-> parent, conf |-> conf.conf,
                            dirty |-> conf.dirty]
        /\ UNCHANGED <<kind, perGame, perCore, game, pushed, canJit, core, steady>>

\* The settings game_specific_options and global_core_options.
SetScope ==
    /\ Change
    /\ \/ perGame' = ~perGame /\ UNCHANGED perCore
       \/ perCore' = ~perCore /\ UNCHANGED perGame
    /\ steady' = FALSE
    /\ UNCHANGED <<kind, file, game, manager, optPath, active, updated, pushed, canJit, core>>

\* set3DSCustomLayout, also when no core is loaded.
set3DSCustomLayout(layout) ==
    /\ kind = "layout" /\ pushed # layout /\ pushed' = layout
    /\ updated' = (game # "none")
    /\ UNCHANGED <<frontend, canJit, core, changes, steady>>

JitAllowed ==
    /\ kind = "jit" /\ ~canJit /\ canJit' = TRUE
    /\ UNCHANGED <<frontend, updated, pushed, core, changes, steady>>

OptionsInit ==
    /\ kind \in Kinds
    /\ file \in [Files -> {"nofile", "other"}]
    /\ kind # "plain" => \A x \in Files : ~Exists(file, x)  \* the files treat all keys alike
    /\ perGame \in BOOLEAN /\ perCore \in BOOLEAN
    /\ game = "none" /\ manager = NoManager /\ optPath = "none" /\ active = {}
    /\ updated = FALSE /\ pushed = "none" /\ canJit = FALSE /\ loaded = FALSE
    /\ seen = "default" /\ rects = "unset"
    /\ mode = [option |-> "Toggle", read |-> "Toggle"]
    /\ button = FALSE /\ swapped = FALSE
    /\ changes = 0 /\ steady = TRUE

\* The steps that touch the core's directories (UserDirs.tla), and the others.
OptionEdits ==
    \/ \E v \in Choices : SetOption(v)
    \/ SetOtherOption \/ SetMode
    \/ core_options_reset \/ ColdReset \/ core_options_flush
    \/ \E t \in BOOLEAN : core_options_create_override(t) \/ core_options_remove_override(t)
    \/ SetScope
    \/ \E l \in Pushes : set3DSCustomLayout(l)
    \/ JitAllowed

OptionsNext ==
    \/ \E g \in Games, c \in BOOLEAN, s \in BOOLEAN : LoadGame(g, c, s)
    \/ uninit_libretro_symbols \/ Killed \/ retro_run \/ OptionEdits

OptionsSpec == OptionsInit /\ [][OptionsNext]_optionVars

-------------------------------------------------------------------------------
(* Properties. *)

\* What the next registration for game g would start with.
Effective(f, g) ==
    runloop_init_core_options(f, runloop_init_core_options_path(f, g, "none")).index

\* The override that the options came from has been removed, or their file deleted,
\* and nothing changed since: what is in memory has no file and gets none.
Orphan == optPath = "none" /\ ~Exists(file, manager.path) /\ ~Flushed(manager).dirty

\* An option that a game runs with is the one it starts with next time, through the
\* saving at the unload, the two registrations of the core and the choice among four
\* files, for as long as the scope of the options is not changed.
SavedOptionReturns ==
    [][uninit_libretro_symbols /\ steady /\ ~Orphan /\ (optPath # "none" => perGame)
         => Effective(file', game) = manager.index]_optionVars

\* Wherever core_options_flush is called it holds without exception ("We must
\* *guarantee* that a file gets written"), also when the app is killed next.
FlushGuarantees ==
    game # "none" /\ steady /\ (optPath # "none" => perGame)
      => Effective(FlushedFiles, game) = manager.index

\* The registration with two versions of the options starts the game with the same
\* value as the one with a single version.
RegistersOnce ==
    [][\A g \in Games, s \in BOOLEAN :
         LoadGame(g, FALSE, s) => manager'.index = Effective(file, g)]_optionVars

\* Both: the value goes from one run of the game to the next.
OptionReturns == SavedOptionReturns /\ RegistersOnce

\* The options file of a game changes only while that game is loaded: no path is
\* left over from the game before.
OwnFileOnly ==
    [][\A g \in Games : file'[g] # file[g] => g \in {game, game'}]_optionVars

\* A running core that is not told of an update works with the options as they are:
\* no reset, removal, push or game change passes it by.
OptionIsSeen ==
    loaded /\ ~updated =>
      CASE kind = "plain" -> seen = manager.index
        [] kind = "jit" -> seen = manager.index \/ seen = "other"
        [] kind = "layout" -> rects = CustomLayoutConfig
        [] OTHER -> mode.read = mode.option

\* The screens are in the order of the option, unless the button is held or the
\* toggle is on; in hold mode only the button swaps them.
SwapIsExplained ==
    kind = "swap" /\ loaded /\ ~updated /\ seen # manager.index
      => IF mode.read = "Toggle" THEN swapped ELSE button

\* Both: what the core does is explained by the options and the player's hands.
CoreSeesOption == OptionIsSeen /\ SwapIsExplained

\* "Only used when Screen Layout is set to Custom": without a pushed layout the core
\* shows the layout that the option names.
LayoutOptionCounts ==
    kind = "layout" /\ loaded /\ ~updated /\ pushed = "none" => seen = manager.index
=============================================================================
