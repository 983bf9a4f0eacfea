---------------------------- MODULE Configuration ----------------------------
(***************************************************************************)
(* The settings of RetroArch and the files they are read from and written  *)
(* to (configuration.c): the main file, the override files of a core, of a *)
(* content directory and of a game, which are appended to the main file    *)
(* while a game runs, and the remap files.                                 *)
(*                                                                         *)
(* No setting looks at another one, so the module follows ONE key; its     *)
(* table in configuration.c decides how it is read, saved and compared.    *)
(* Values carry their origin: an override file that the user placed in     *)
(* layer l holds the value l, a remap file "remap", the user types "user". *)
(***************************************************************************)
EXTENDS FiniteSets, Naturals

CONSTANTS
    Games,    \* contents; all of them in one directory
    Origins,  \* the layers that may have files from the start
    MaxEdits  \* bound: values and files that are changed from outside

\* The words of the module itself: a content is none of them.
Words == {"core", "dir", "none", "bare", "zero", "small", "big", "wild", "limit", "unset",
          "default", "user", "remap", "nofile", "absent", "word"}

ASSUME GamesAssumption ==
    /\ IsFiniteSet(Games)
    /\ Games \cap Words = {}
    /\ Origins \subseteq {"core", "dir"} \cup Games
ASSUME MaxEditsAssumption == MaxEdits \in Nat

\* Each layer is a file; later ones win: core, directory, game.
Layers == {"core", "dir"} \cup Games

\* "zero": what calloc leaves, 0 or ""; "small": a size below 10000, and "big"
\* that size in megabytes; "wild": beyond the range of the setting, and "limit"
\* the end of that range; "unset": a LED that is not mapped.
Values == {"zero", "small", "big", "wild", "limit", "unset", "default", "user", "remap"}
            \cup Layers

\* What a file says of the key: there is no file, or no such key in it, or
\* the word `default`.
FileValues == Values \cup {"nofile", "absent", "word"}

-------------------------------------------------------------------------------
(* How the entries of the tables differ: `def`, reset by config_set_defaults; *)
(* `read`, by config_load_file; `save`, by config_save_file; `cmp`, by        *)
(* config_save_overrides.                                                     *)

Entry == [def |-> TRUE, read |-> TRUE, save |-> TRUE, cmp |-> TRUE, as |-> "value"]

BoolKeys == {Entry, [Entry EXCEPT !.def = FALSE]}

IntKeys == {Entry, [Entry EXCEPT !.def = FALSE]}

\* The command line may have set the key: config_save_file leaves it alone.
UintKeys == {Entry, [Entry EXCEPT !.save = FALSE]}

FloatKeys == {Entry}

\* rewind_buffer_size.
SizeKeys == {[Entry EXCEPT !.as = "size"]}

\* The token and the password of cheevos never go to an override file.
ArrayKeys == {Entry, [Entry EXCEPT !.cmp = FALSE]}

\* Directories are saved as `default` when empty; libretro_directory is not
\* read on iOS.
PathKeys == {[Entry EXCEPT !.as = "path"], [Entry EXCEPT !.read = FALSE, !.cmp = FALSE]}

\* savefile_directory: a global, which config_load_file reads by itself and both
\* sides of a comparison point to.
SaveDirKeys == {[Entry EXCEPT !.as = "savedir", !.cmp = FALSE]}

\* video_swap_interval and its like: brought into range after each load.
LimitedKeys == {[Entry EXCEPT !.as = "limited"]}

\* led_map: forgotten before each load.
LedKeys == {[Entry EXCEPT !.as = "led", !.save = FALSE, !.cmp = FALSE]}

\* input_analog_dpad_mode: remap files hold it too.
PadKeys == {[Entry EXCEPT !.as = "pad"]}

\* The seven entries input_turbo_*: of the tables, and remap files hold them too.
TurboKeys == {[Entry EXCEPT !.as = "turbo"]}

\* input_config_binds: global, not part of settings_t.
BindKeys == {[Entry EXCEPT !.as = "bind"]}

Keys == BoolKeys \cup IntKeys \cup UintKeys \cup FloatKeys \cup SizeKeys
          \cup ArrayKeys \cup PathKeys \cup SaveDirKeys \cup LimitedKeys
          \cup LedKeys \cup PadKeys \cup TurboKeys \cup BindKeys

VARIABLES
    key,       \* the entry that is followed
    setting,   \* its value in config_st
    main,      \* what RARCH_PATH_CONFIG says of it
    over,      \* what each override file says of it
    overPath,  \* RARCH_PATH_CONFIG_OVERRIDE, a set of layers
    active,    \* RUNLOOP_FLAG_OVERRIDES_ACTIVE
    held,      \* RARCH_OVERRIDE_SETTING_SAVE_PATH is set
    game,      \* RARCH_PATH_BASENAME; "none" without a core, "bare" without content
    remap,     \* what each remap file says of it
    remapFile, \* runloop_st->name.remapfile
    cache,     \* the value kept by input_remapping_cache_global_config, while a core is loaded
    cached,    \* INP_FLAG_REMAPPING_CACHE_ACTIVE
    edits,     \* bound: counts up to MaxEdits
    spread     \* history: a save has put a remap value into a settings file

memory == <<setting, overPath, active, held, game, remapFile, cache, cached>>
files == <<main, over, remap>>
configVars == <<key, memory, files, edits, spread>>

ConfigTypeOK ==
    /\ key \in Keys
    /\ setting \in Values /\ cache \in Values
    /\ main \in FileValues
    /\ over \in [Layers -> FileValues] /\ remap \in [Layers -> FileValues]
    /\ overPath \in SUBSET Layers
    /\ game \in Games \cup {"none", "bare"}
    /\ remapFile \in Layers \cup {"none"}
    /\ active \in BOOLEAN /\ held \in BOOLEAN /\ cached \in BOOLEAN /\ spread \in BOOLEAN
    /\ edits \in 0 .. MaxEdits

Says(value) == value \notin {"nofile", "absent"}

\* Remap files load and save the key.
Remapped == key.as \in {"pad", "turbo"}

-------------------------------------------------------------------------------
(* Reading. *)

config_set_defaults == IF key.def THEN "default" ELSE "zero"

\* The size of a low number is taken to be in megabytes, on every load.
Megabytes(value) == IF key.as = "size" /\ value = "small" THEN "big" ELSE value

Directory(value) == IF value # "word" THEN value
                    ELSE IF key.as = "savedir" THEN "default" ELSE "zero"

\* The checks after a load; config_set_runtime_value makes none.
InRange(value) == IF key.as = "limited" /\ value = "wild" THEN "limit" ELSE value

\* What a value becomes on its way through a file.
Sane(value) == InRange(Megabytes(value))

\* config_load_file, once conf holds all files: a key that conf does not have
\* leaves the setting as it is.
config_load_file(current, conf) ==
    LET kept == IF key.as = "led" THEN "unset" ELSE current
        got == IF key.read /\ Says(conf) THEN conf ELSE kept
    IN  Sane(Directory(got))

\* config_append_file, for the layers of RARCH_PATH_CONFIG_OVERRIDE in order.
Appended(conf, path) ==
    LET speaks == {l \in path : Says(over[l])}
        top == IF speaks \cap Games # {} THEN CHOOSE g \in speaks \cap Games : TRUE
               ELSE IF "dir" \in speaks THEN "dir" ELSE "core"
    IN  IF speaks = {} THEN conf ELSE over[top]

\* config_load_file(RARCH_PATH_CONFIG): nothing is read without a main file.
Reloaded(current, path) ==
    IF main = "nofile" THEN current ELSE config_load_file(current, Appended(main, path))

\* The save path is free during a reload by an override, and held when it is over,
\* if it could be made.
Held == key.as = "savedir" /\ main # "nofile"

\* The files that config_load_override and config_load_remap look for.
Visible(g) == CASE g = "none" -> {}
                [] g = "bare" -> {"core"}
                [] OTHER -> {"core", "dir", g}

Existing(file, g) == {l \in Visible(g) : file[l] # "nofile"}

-------------------------------------------------------------------------------
(* Start. *)

ConfigInit ==
    /\ key \in Keys
    /\ main \in {"nofile", "absent", "user"}
    /\ over \in {f \in [Layers -> {"nofile"} \cup Origins] :
                   \A l \in Layers : f[l] \in {"nofile", l}}
    /\ remap \in {f \in [Layers -> {"nofile", "remap"}] :
                    \A l \in Layers : f[l] = "remap" => Remapped /\ l \in Origins}
    /\ setting = IF main = "nofile" THEN config_set_defaults
                 ELSE config_load_file(config_set_defaults, main)
    /\ overPath = {} /\ active = FALSE /\ held = FALSE
    /\ game = "none"
    /\ remapFile = "none" /\ cache = "zero" /\ cached = FALSE
    /\ edits = 0 /\ spread = FALSE

\* The app ends at any moment and starts again: config_load.  Where no path is
\* set, open_default_config_file makes a file with config_save_on_exit only.
Restart ==
    /\ setting' = IF main = "nofile" THEN config_set_defaults
                  ELSE config_load_file(config_set_defaults, main)
    /\ \/ main' = main
       \/ main = "nofile" /\ main' = "absent"
    /\ overPath' = {} /\ active' = FALSE /\ held' = FALSE
    /\ game' = "none"
    /\ remapFile' = "none" /\ cache' = "zero" /\ cached' = FALSE
    /\ UNCHANGED <<key, over, remap, edits, spread>>

\* The menu, or config_set_runtime_value.
config_set_runtime_value(value) ==
    /\ edits < MaxEdits /\ edits' = edits + 1
    /\ value = "small" => key.as = "size"
    /\ value = "wild" => key.as = "limited"
    /\ setting' = value
    /\ UNCHANGED <<key, overPath, active, held, game, remapFile, cache, cached, files, spread>>

\* The file is lost (the loader copes with that: `Config not found`).
MainLost ==
    /\ edits < MaxEdits /\ edits' = edits + 1
    /\ main # "nofile" /\ main' = "nofile"
    /\ UNCHANGED <<key, memory, over, remap, spread>>

-------------------------------------------------------------------------------
(* Remap files.  They speak of the keys that are Remapped. *)

\* External: input_remapping_set_defaults puts the cached values back, those of
\* every setting that a remap file may have changed.
input_remapping_set_defaults(value) ==
    IF cached THEN cache ELSE value

input_remapping_load_file(value, layer) ==
    IF Says(remap[layer]) THEN remap[layer] ELSE value

\* The first file that exists, taken whole.
config_load_remap(g) ==
    LET found == Existing(remap, g)
    IN  IF g \in found THEN g ELSE IF "dir" \in found THEN "dir"
        ELSE IF "core" \in found THEN "core" ELSE "none"

\* The menu loads a remap file.
LoadRemap(layer) ==
    /\ Remapped /\ game # "none"
    /\ layer \in Existing(remap, game)
    /\ setting' = input_remapping_load_file(input_remapping_set_defaults(setting), layer)
    /\ remapFile' = layer /\ cached' = TRUE
    /\ UNCHANGED <<key, overPath, active, held, game, cache, files, edits, spread>>

\* The menu saves one.
input_remapping_save_file(layer) ==
    /\ Remapped /\ game # "none"
    /\ edits < MaxEdits /\ edits' = edits + 1
    /\ layer \in Visible(game)
    /\ remap' = [remap EXCEPT ![layer] = setting]
    /\ remapFile' = layer
    /\ UNCHANGED <<key, setting, overPath, active, held, game, cache, cached, main, over,
                   spread>>

-------------------------------------------------------------------------------
(* Loading and unloading a core. *)

\* External: input_remapping_cache_global_config, before config_load_remap.
input_remapping_cache_global_config(before, after) == before

\* runloop_event_init_core, as far as it loads settings: config_load_override
\* when auto_overrides_enable, config_load_remap when auto_remaps_enable.  The
\* cache is in use from then on, with or without a remap file (core_load_game).
runloop_event_init_core(g, auto_overrides_enable, auto_remaps_enable) ==
    LET path == IF auto_overrides_enable THEN Existing(over, g) ELSE overPath
        reload == auto_overrides_enable /\ path # {}
        loaded == IF reload THEN Reloaded(setting, path) ELSE setting
        file == IF auto_remaps_enable /\ Remapped THEN config_load_remap(g)
                ELSE "none"
    IN  /\ game = "none" /\ game' = g
        /\ overPath' = path
        /\ active' = (active \/ (reload /\ main # "nofile"))
        /\ held' = IF reload THEN Held ELSE held
        /\ setting' = IF file = "none" THEN loaded
                      ELSE input_remapping_load_file(loaded, file)
        /\ cache' = IF Remapped
                    THEN input_remapping_cache_global_config(loaded, setting') ELSE cache
        /\ remapFile' = file
        /\ cached' = Remapped
        /\ UNCHANGED <<key, files, edits, spread>>

\* Faulty: the original file is not read again.
ForgetOverride(value) ==
    /\ active' = FALSE /\ overPath' = {} /\ held' = Held
    /\ setting' = value

\* The flag and the path go first; the file may then fail to load.
config_unload_override(value) ==
    /\ active' = FALSE /\ overPath' = {} /\ held' = Held
    /\ setting' = Reloaded(value, {})

\* External: which of the cached values come back when no remap file was in
\* effect cannot be seen here.
input_remapping_restore_global_config(value) == IF cached THEN {value, cache} ELSE {value}

\* runloop_event_deinit_core: remaps first (and saved, when remap_save_on_exit),
\* then the overrides.
runloop_event_deinit_core(remap_save_on_exit) ==
    LET mapped == remapFile # "none"
        globals == IF mapped THEN {input_remapping_set_defaults(setting)}
                   ELSE input_remapping_restore_global_config(setting)
    IN  /\ game # "none" /\ game' = "none"
        /\ remap_save_on_exit => mapped /\ edits < MaxEdits
        /\ remap' = IF remap_save_on_exit
                    THEN [remap EXCEPT ![remapFile] = setting] ELSE remap
        /\ edits' = IF remap_save_on_exit THEN edits + 1 ELSE edits
        /\ remapFile' = "none" /\ cached' = FALSE /\ cache' = "zero"
        /\ \E restored \in globals :
             IF active THEN config_unload_override(restored)
                       ELSE setting' = restored /\ UNCHANGED <<overPath, active, held>>
        /\ UNCHANGED <<key, main, over, spread>>

\* The menu unloads the overrides.
MenuUnload ==
    /\ active
    /\ config_unload_override(setting)
    /\ UNCHANGED <<key, game, remapFile, cache, cached, files, edits, spread>>

\* The menu loads an override file: the path is cleared before it is looked for.
config_load_override_file(layer) ==
    /\ \/ over[layer] = "nofile" /\ overPath' = {} /\ UNCHANGED <<setting, active, held>>
       \/ /\ over[layer] # "nofile" /\ overPath' = {layer}
          /\ setting' = Reloaded(setting, {layer})
          /\ active' = (active \/ main # "nofile") /\ held' = Held
    /\ UNCHANGED <<key, game, remapFile, cache, cached, files, edits, spread>>

-------------------------------------------------------------------------------
(* Saving. *)

\* Faulty: saved whatever is active.
MaySaveAlways == TRUE

\* config_save_file is refused while overrides are active.
MaySave == ~active

\* What is written: an empty directory as `default`.
Written(value) == IF key.as = "path" /\ value = "zero" THEN "word" ELSE value

config_save_file ==
    /\ MaySave
    /\ main' = IF key.save THEN Written(setting)
               ELSE IF main = "nofile" THEN "absent" ELSE main
    /\ spread' = (spread \/ main' = "remap")
    /\ UNCHANGED <<key, memory, over, remap, edits>>

\* Faulty: compared with the configuration that the overrides are part of.
OriginalWithOverrides ==
    LET clear == IF key.as = "bind" THEN setting ELSE "zero"
    IN  Reloaded(clear, overPath)

\* The settings that config_save_overrides compares with: a cleared settings_t
\* into which the main file is read "without-overrides".
Original ==
    LET clear == IF key.as = "bind" THEN setting ELSE "zero"
    IN  Reloaded(clear, {})

\* The tables, the settings of each user, and the binds, which are written from the
\* copy made before the main file was read over them.
TableDiffers == key.as \notin {"pad", "bind"} /\ key.cmp /\ setting # Original
UserDiffers == key.as = "pad" /\ setting # Original
BindDiffers == key.as = "bind" /\ setting # Original

Differs == TableDiffers \/ UserDiffers \/ BindDiffers

\* `others`: some other key differs from the main file.
Modified(others) == Differs \/ others

\* Faulty: the binds that the comparison has read stay.
BindsOfMain ==
    IF key.as = "bind" \/ (key.as = "savedir" /\ ~held) THEN Reloaded(setting, {}) ELSE setting

\* The comparison reads the main file: the binds are put back afterwards, the
\* save directory is not.
AfterComparison ==
    IF key.as = "savedir" /\ ~held THEN Reloaded(setting, {}) ELSE setting

\* config_save_overrides with or without `remove`.  An existing file is deleted
\* when nothing differs; a file to be removed that does not exist is written.
\* External: the caller sets the flag when a save has succeeded.
config_save_overrides(layer, remove, others) ==
    LET exists == over[layer] # "nofile"
        delete == exists /\ (remove \/ ~Modified(others))
    IN  /\ edits < MaxEdits /\ edits' = edits + 1
        /\ layer \in Visible(game)
        /\ setting' = AfterComparison
        /\ over' = [over EXCEPT ![layer] = IF delete THEN "nofile"
                                           ELSE IF Differs THEN setting
                                           ELSE IF others THEN "absent" ELSE @]
        /\ overPath' = IF ~delete /\ Modified(others) THEN {layer} ELSE overPath
        /\ active' = (active \/ (~delete /\ Modified(others) /\ ~remove))
        /\ spread' = (spread \/ over'[layer] = "remap")
        /\ UNCHANGED <<key, held, game, remapFile, cache, cached, main, remap>>

ConfigNext ==
    \/ Restart
    \/ MainLost
    \/ \E v \in {"user", "zero", "small", "wild"} : config_set_runtime_value(v)
    \/ \E g \in Games \cup {"bare"}, o \in BOOLEAN, r \in BOOLEAN :
         runloop_event_init_core(g, o, r)
    \/ \E s \in BOOLEAN : runloop_event_deinit_core(s)
    \/ MenuUnload
    \/ \E l \in Layers : config_load_override_file(l)
    \/ \E l \in Layers : LoadRemap(l) \/ input_remapping_save_file(l)
    \/ config_save_file
    \/ \E l \in Layers, r \in BOOLEAN, o \in BOOLEAN : config_save_overrides(l, r, o)

ConfigSpec == ConfigInit /\ [][ConfigNext]_configVars

-------------------------------------------------------------------------------
(* Properties. *)

\* The settings that remap files do not touch.
Global == ~Remapped

\* Once no override is active, a value out of an override file is in effect only
\* where the main file does not say otherwise (config_unload_override reads the
\* main file, which cannot bring back a key it does not hold).
OverrideEnds ==
    Global /\ ~active /\ setting \in Layers
      => main \in {"nofile", "absent", setting} \/ ~key.save

\* Unless a save has spread it, the value of a remap file ends with the core
\* (runloop_event_init_core keeps the global values for that).
RemapEnds == ~spread /\ game = "none" => setting # "remap"

\* What override and remap files bring is gone with them, and every value is one
\* that a file, a default or the user has given.
OverridesEnd == ConfigTypeOK /\ OverrideEnds /\ RemapEnds

\* A key that the main file holds is never replaced there by the value of an
\* override file: config_save_file is refused for exactly as long as needed.
MainKeepsItsValue ==
    [][Global /\ Says(main) /\ main \notin Layers => main' \notin Layers]_configVars

\* An override saved for the running game gives the setting back at the next
\* start of that game, also when other overrides were in effect at the save.
SavedOverrideReturns ==
    [][\A g \in Games, o \in BOOLEAN :
         /\ config_save_overrides(g, FALSE, o)
         /\ key.cmp /\ main # "nofile"
         /\ setting # config_load_file("zero", main)
         /\ (key.as = "bind" => Says(main))
         => config_load_file("zero", over'[g]) = Sane(setting)]_configVars

\* What config_save_file has written is what the next start reads.
SavedSettingReturns ==
    [][/\ config_save_file /\ key.save /\ key.read
       /\ (key.as = "savedir" => setting # "zero")
       => config_load_file(config_set_defaults, main') = Sane(setting)]_configVars

\* Both: a saved setting is not lost on its way through the file, whichever table it
\* is in and whatever was in effect at the save.
SavedReturns == SavedOverrideReturns /\ SavedSettingReturns

\* Saving an override changes no setting that is in effect, although it reads the
\* main file over the binds; the save directory alone may fall back.
SavingLeavesSettings ==
    [][(\E l \in Layers, r \in BOOLEAN, o \in BOOLEAN : config_save_overrides(l, r, o))
         => setting' \in {setting, IF key.as = "savedir" THEN Directory(main) ELSE setting}]_configVars
=============================================================================
