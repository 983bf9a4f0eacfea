------------------------------- MODULE UserDirs -------------------------------
(***************************************************************************)
(* The directories of the emulator (file_util.cpp) over the games of a     *)
(* process: the frontend names a save directory (runloop.c), the core asks *)
(* for it whenever it reads its options (core_settings.cpp) and loads a    *)
(* game only inside the isolated directory of the experiment               *)
(* (citra_libretro.cpp).  Built with MANIC_ROOM_EXPERIMENT.                *)
(*                                                                         *)
(* NAND, SDMC, cheats, states and the others are set in one way, so the    *)
(* module follows one of them beside UserDir.  A directory is told only by *)
(* the root it lies in.                                                    *)
(***************************************************************************)
EXTENDS CoreOptions

\* Documents/RoomExperiment-v1, Documents, RetroArch's system directory, and the
\* place that SetUserPath takes without a path; each with 3DS/ appended.
Roots == {"isolated", "documents", "system", "default"}

VARIABLES
    g_paths,     \* file_util.cpp: the root of UserDir and of NANDDir
    corePath,    \* RARCH_PATH_CORE is the bundled core
    saveDir,     \* runloop_st->savefile_dir
    systemDir    \* settings->paths.directory_system

answers == <<corePath, saveDir, systemDir>>
dirVars == <<g_paths, answers>>
storageVars == <<optionVars, dirVars>>

Cleared == [UserDir |-> "none", NANDDir |-> "none"]

-------------------------------------------------------------------------------
(* file_util.cpp.  Every caller that gives a path has made the directory, so  *)
(* that CreateFullPath finds it.                                              *)

\* Faulty: what is in the map stays, as it did before the experiment.
SetUserPathKeeping(root) ==
    LET user == IF root = "none" THEN "default" ELSE root
    IN  [UserDir |-> user,
         NANDDir |-> IF g_paths.NANDDir = "none" THEN user ELSE g_paths.NANDDir]

\* Faulty: the map is cleared after it was filled.
SetUserPathClearing(root) ==
    [UserDir |-> IF root = "none" THEN "default" ELSE root, NANDDir |-> "none"]

\* The map is cleared for a path; an entry that is there is never replaced.
SetUserPath(root) ==
    LET kept == IF root = "none" THEN g_paths ELSE Cleared
        user == IF root = "none" THEN "default" ELSE root
    IN  [UserDir |-> user, NANDDir |-> IF kept.NANDDir = "none" THEN user ELSE kept.NANDDir]

\* GetUserPath sets the directories on the first use.
AfterGetUserPath == IF g_paths = Cleared THEN SetUserPath("none") ELSE g_paths

-------------------------------------------------------------------------------
(* Frontend and core. *)

GET_SAVE_DIRECTORY == IF corePath' THEN "isolated" ELSE saveDir'

GET_SYSTEM_DIRECTORY == systemDir'

\* `made`: CreateDir has made or found the directory.  If not, the directories stay
\* what they were.
StorageAfter(made) ==
    LET target == IF GET_SAVE_DIRECTORY # "none" THEN GET_SAVE_DIRECTORY
                  ELSE GET_SYSTEM_DIRECTORY
    IN  CASE seen' # "default" /\ kind = "storage" -> g_paths
          [] target = "none" \/ ~made -> AfterGetUserPath
          [] OTHER -> SetUserPath(target)

\* Bound: what goes wrong and what happens to the directories is looked at beside the storage option only.
Faults == IF kind = "storage" THEN BOOLEAN ELSE {TRUE}

\* A directory that is there counts as made; any other error is a failure.
CreateDir == Faults

\* A game for which RetroArch has this core, save and system directory; the ones that
\* are not asked for do not matter.
LoadAnswers ==
    /\ corePath' \in Faults
    /\ saveDir' \in IF corePath' THEN {"documents"} ELSE {"documents", "none"}
    /\ systemDir' \in IF saveDir' # "none" THEN {"system"} ELSE {"system", "none"}

\* "Experimental core requires isolated RoomExperiment-v1/3DS storage."
StorageGuard(dirs) == dirs.UserDir = "isolated"

\* retro_load_game: the options are read before do_load_game.
LoadStored(g, categories_enabled, success, made) ==
    /\ LoadAnswers
    /\ LoadGame(g, categories_enabled, success)
    /\ g_paths' = StorageAfter(made)
    /\ success => StorageGuard(g_paths')

\* retro_reset and context_reset load the game again and read no options.
do_load_game(success) ==
    /\ game # "none" /\ loaded' = success
    /\ success => StorageGuard(g_paths)
    /\ UNCHANGED <<frontend, updated, pushed, canJit, seen, rects, mode, button, swapped,
                   changes, steady, dirVars>>

\* Options that have changed are read while the game runs, all of them.
FrameStored(made) ==
    /\ retro_run
    /\ UNCHANGED answers
    /\ g_paths' = IF updated THEN StorageAfter(made) ELSE g_paths

\* External: some part of the emulator asks for a directory first.
PathAsked ==
    /\ kind = "storage" /\ g_paths = Cleared /\ g_paths' = AfterGetUserPath
    /\ UNCHANGED <<optionVars, answers>>

\* The CIA importer, with no game in the core: Paths leaves its root behind, which is
\* the isolated one.
ImportUpdate ==
    /\ kind = "storage" /\ game = "none" /\ g_paths' = SetUserPath("isolated")
    /\ UNCHANGED <<optionVars, answers>>

\* dlclose may leave a library with its variables in memory.
LibraryClosed ==
    /\ uninit_libretro_symbols
    /\ g_paths' \in IF kind = "storage" THEN {g_paths, Cleared} ELSE {g_paths}
    /\ UNCHANGED answers

AppKilled == Killed /\ g_paths' = Cleared /\ UNCHANGED answers

StorageInit ==
    /\ OptionsInit
    /\ g_paths = Cleared
    /\ corePath = TRUE /\ saveDir = "documents" /\ systemDir = "system"

StorageNext ==
    \/ \E g \in Games, c, s \in BOOLEAN, made \in CreateDir : LoadStored(g, c, s, made)
    \/ \E s \in BOOLEAN : do_load_game(s)
    \/ \E made \in CreateDir : FrameStored(made)
    \/ PathAsked \/ ImportUpdate \/ LibraryClosed \/ AppKilled
    \/ OptionEdits /\ UNCHANGED dirVars

StorageSpec == StorageInit /\ [][StorageNext]_storageVars

-------------------------------------------------------------------------------
(* Properties *)

\* The directories are always told by a root, and an entry is never missing beside
\* another one: GetUserPath would answer an empty path.
DirsTypeOK ==
    /\ g_paths \in [UserDir : Roots \cup {"none"}, NANDDir : Roots \cup {"none"}]
    /\ g_paths.UserDir = "none" <=> g_paths.NANDDir = "none"
    /\ corePath \in BOOLEAN
    /\ saveDir \in {"documents", "none"} /\ systemDir \in {"system", "none"}

\* Options, their files and directories are in range; path and flags of an override
\* agree, and so do the directories.
StorageTypeOK == OptionsTypeOK /\ DirsTypeOK

\* "An explicit path makes the map anew, and the root is checked before the load"
\* (LIFECYCLE_A2.md): whatever asked for a directory before, whichever game, import or
\* failed load was there, and however often the options are read again, a game runs
\* with user directory, NAND and SD card in one root, and in the isolated one if the
\* frontend has answered with it.  (The guard is at the load only: a game for which
\* isolation was rejected, let in because CreateDir failed and the root of the game
\* before was left, moves when a later reading of the options finds the directory.)
StorageIsolated ==
    loaded => /\ g_paths.NANDDir = g_paths.UserDir
              /\ corePath => g_paths.UserDir = "isolated"
===============================================================================
