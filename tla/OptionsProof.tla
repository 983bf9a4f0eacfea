----------------------------- MODULE OptionsProof -----------------------------
(***************************************************************************)
(* The directories of a running game and the files of a core's options,    *)
(* for any set of games and any number of changes by the user: a game runs *)
(* in one root, no game touches the file of another, the core knows its    *)
(* options, and a choice that was flushed returns.                         *)
(***************************************************************************)
EXTENDS UserDirs, TLAPS

-------------------------------------------------------------------------------
(* The directories. *)

\* The part that the directories keep in every state, with or without a game.
DirsAgree ==
    /\ g_paths \in [UserDir : Roots \cup {"none"}, NANDDir : Roots \cup {"none"}]
    /\ g_paths.NANDDir = g_paths.UserDir

\* Inductive: the guard of do_load_game is remembered by `loaded`, and reading the
\* options again cannot undo it.
StorageInv ==
    /\ DirsAgree
    /\ corePath \in BOOLEAN
    /\ saveDir \in {"documents", "none"} /\ systemDir \in {"system", "none"}
    /\ loaded /\ corePath => g_paths.UserDir = "isolated"

\* SetUserPath with a path puts every directory into that root, whatever there was.
LEMMA SetUserPathIsWhole ==
    ASSUME NEW root \in Roots
    PROVE  SetUserPath(root) = [UserDir |-> root, NANDDir |-> root]
  BY DEF SetUserPath, Roots, Cleared

\* Asking for a directory keeps the ones that are set.
LEMMA AskingAgrees ==
    ASSUME DirsAgree
    PROVE  \/ AfterGetUserPath = g_paths
           \/ /\ AfterGetUserPath = [UserDir |-> "default", NANDDir |-> "default"]
              /\ g_paths.UserDir = "none"
  BY DEF DirsAgree, AfterGetUserPath, SetUserPath, Cleared

\* Reading the storage options leaves the directories in one root, which is the
\* isolated one if it was or if the frontend answers with it and it can be made.
LEMMA ReadingAgrees ==
    ASSUME DirsAgree, NEW made \in BOOLEAN, corePath' \in BOOLEAN,
           saveDir' \in {"documents", "none"}, systemDir' \in {"system", "none"}
    PROVE  /\ StorageAfter(made)
                \in [UserDir : Roots \cup {"none"}, NANDDir : Roots \cup {"none"}]
           /\ StorageAfter(made).NANDDir = StorageAfter(made).UserDir
           /\ corePath' /\ g_paths.UserDir = "isolated"
                => StorageAfter(made).UserDir = "isolated"
<1> DEFINE target == IF GET_SAVE_DIRECTORY # "none" THEN GET_SAVE_DIRECTORY
                     ELSE GET_SYSTEM_DIRECTORY
<1>1. target \in Roots \cup {"none"} /\ (corePath' => target = "isolated")
  BY DEF GET_SAVE_DIRECTORY, GET_SYSTEM_DIRECTORY, Roots
<1>2. \/ StorageAfter(made) = g_paths
      \/ StorageAfter(made) = AfterGetUserPath
      \/ target # "none" /\ StorageAfter(made) = SetUserPath(target)
  BY DEF StorageAfter
<1>3. CASE StorageAfter(made) = g_paths
  BY <1>3 DEF DirsAgree
<1>4. CASE StorageAfter(made) = AfterGetUserPath
  BY <1>4, AskingAgrees DEF DirsAgree, Roots
<1>5. CASE target # "none" /\ StorageAfter(made) = SetUserPath(target)
  <2>1. target \in Roots
    BY <1>1, <1>5
  <2>2. StorageAfter(made) = [UserDir |-> target, NANDDir |-> target]
    BY <1>5, <2>1, SetUserPathIsWhole
  <2> QED
    BY <1>1, <2>1, <2>2
<1> QED
  BY <1>2, <1>3, <1>4, <1>5

LEMMA InitStorage == StorageInit => StorageInv
  BY DEF StorageInit, OptionsInit, StorageInv, DirsAgree, Cleared, Roots

LEMMA NextStorage == StorageInv /\ [StorageNext]_storageVars => StorageInv'
<1> SUFFICES ASSUME StorageInv, [StorageNext]_storageVars
             PROVE  StorageInv'
  OBVIOUS
<1> USE DEF StorageInv
<1>1. ASSUME NEW g \in Games, NEW c \in BOOLEAN, NEW s \in BOOLEAN,
             NEW made \in CreateDir, LoadStored(g, c, s, made)
      PROVE  StorageInv'
  <2>1. made \in BOOLEAN /\ loaded' = s /\ g_paths' = StorageAfter(made)
    BY <1>1 DEF LoadStored, LoadGame, CreateDir, Faults
  <2>2. /\ corePath' \in BOOLEAN
        /\ saveDir' \in {"documents", "none"} /\ systemDir' \in {"system", "none"}
    BY <1>1 DEF LoadStored, LoadAnswers, Faults
  <2>3. s => g_paths'.UserDir = "isolated"
    BY <1>1 DEF LoadStored, StorageGuard
  <2> QED
    BY <2>1, <2>2, <2>3, ReadingAgrees DEF DirsAgree
<1>2. ASSUME NEW s \in BOOLEAN, do_load_game(s)
      PROVE  StorageInv'
  BY <1>2 DEF do_load_game, dirVars, answers, StorageGuard, DirsAgree
<1>3. ASSUME NEW made \in CreateDir, FrameStored(made)
      PROVE  StorageInv'
  <2>1. made \in BOOLEAN /\ loaded /\ UNCHANGED <<loaded, answers>>
    BY <1>3 DEF FrameStored, retro_run, FrameUpdated, FrameSwapped, CreateDir, Faults
  <2>2. g_paths' = g_paths \/ g_paths' = StorageAfter(made)
    BY <1>3 DEF FrameStored
  <2> QED
    BY <2>1, <2>2, ReadingAgrees DEF DirsAgree, answers
<1>4. CASE PathAsked
  BY <1>4, AskingAgrees DEF PathAsked, DirsAgree, optionVars, core, answers, Roots, Cleared
<1>5. CASE ImportUpdate
  BY <1>5, SetUserPathIsWhole DEF ImportUpdate, DirsAgree, optionVars, core, answers, Roots
<1>6. CASE LibraryClosed
  BY <1>6 DEF LibraryClosed, uninit_libretro_symbols, DirsAgree, answers, Cleared
<1>7. CASE AppKilled
  BY <1>7 DEF AppKilled, Killed, DirsAgree, answers, Cleared
<1>8. CASE OptionEdits /\ UNCHANGED dirVars
  <2>1. UNCHANGED loaded
    BY <1>8 DEF OptionEdits, SetOption, SetOtherOption, SetMode, core_options_reset,
                ColdReset, core_options_flush, core_options_create_override,
                core_options_remove_override, SetScope, set3DSCustomLayout, JitAllowed, core
  <2> QED
    BY <1>8, <2>1 DEF dirVars, answers, DirsAgree
<1>9. CASE UNCHANGED storageVars
  BY <1>9 DEF storageVars, optionVars, core, dirVars, answers, DirsAgree
<1> QED
  BY <1>1, <1>2, <1>3, <1>4, <1>5, <1>6, <1>7, <1>8, <1>9 DEF StorageNext

LEMMA StorageInvariant == StorageSpec => []StorageInv
  BY InitStorage, NextStorage, PTL DEF StorageSpec

\* However many games, imports, resets and readings of the options there were, a game
\* runs with all directories in one root, the isolated one if the frontend names it.
THEOREM GamesAreIsolated == StorageSpec => []StorageIsolated
<1>1. StorageInv => StorageIsolated
  BY DEF StorageInv, StorageIsolated, DirsAgree
<1> QED
  BY StorageInvariant, <1>1, PTL

\* A directory is never missing beside another one.
THEOREM DirectoriesAreSet == StorageSpec => []DirsTypeOK
<1>1. StorageInv => DirsTypeOK
  BY DEF StorageInv, DirsTypeOK, DirsAgree
<1> QED
  BY StorageInvariant, <1>1, PTL

-------------------------------------------------------------------------------
(* The options and their files. *)

\* The files that belong to game g, or to all.
FilesOf(g) == {g, "dir", "core", "global"}

\* The path of the options, and the flags that go with it.
PathOK(g, opt, flags) ==
    /\ opt \in {"none", "dir", g}
    /\ opt = "none" <=> flags = {}
    /\ opt = "dir" <=> flags = {"folder"}
    /\ flags \in SUBSET {"game", "folder"}

\* What the frontend holds while game g is loaded.
HeldFor(g) ==
    /\ manager \in Managers /\ manager.path \in FilesOf(g)
    /\ PathOK(g, optPath, active)

\* Inductive: the options that are held belong to the game that is loaded.
OptionsInv ==
    /\ OptionsTypeOK
    /\ game = "none" => optPath = "none" /\ ~loaded
    /\ game # "none" => HeldFor(game)

\* A file with contents says a choice or does not name the key.
LEMMA NewManager ==
    ASSUME NEW f \in [Files -> Contents], NEW path \in Files,
           NEW src \in Files \cup {"none"}
    PROVE  /\ core_option_manager_new(f, path, src) \in Managers
           /\ core_option_manager_new(f, path, src).path = path
<1> DEFINE conf == IF Exists(f, path) THEN f[path] ELSE "absent"
           from == IF src # "none" /\ Exists(f, src) THEN f[src] ELSE conf
<1>1. conf \in Choices \cup {"absent"}
  BY DEF Exists, Contents
<1>2. (IF from \in Choices THEN from ELSE "default") \in Choices
  BY DEF Choices
<1> QED
  BY <1>1, <1>2 DEF core_option_manager_new, Managers

\* A registration chooses among the files of its game.
LEMMA RegistersOwn ==
    ASSUME NEW f \in [Files -> Contents], NEW g \in Games
    PROVE  LET r == Registered(f, g, "none")
           IN  /\ r.file = f
               /\ r.manager \in Managers /\ r.manager.path \in FilesOf(g)
               /\ PathOK(g, r.optPath, r.active)
<1> DEFINE c == runloop_init_core_options_path(f, g, "none")
<1>1. /\ c.path \in FilesOf(g) /\ c.src \in Files \cup {"none"}
      /\ PathOK(g, c.opt, c.active)
  BY OptionGames DEF runloop_init_core_options_path, FilesOf, Files, PathOK
<1>2. c.path \in Files
  BY <1>1 DEF FilesOf, Files
<1> QED
  BY <1>1, <1>2, NewManager DEF Registered, runloop_init_core_options

\* Saving writes the override or the file of the manager and no other.
LEMMA SavesOwn ==
    ASSUME NEW f \in [Files -> Contents], NEW m \in Managers,
           NEW path \in Files \cup {"none"}
    PROVE  /\ runloop_deinit_core_options(f, m, path) \in [Files -> Contents]
           /\ \A x \in Files \ {path, m.path} :
                 runloop_deinit_core_options(f, m, path)[x] = f[x]
<1>1. m.index \in Choices /\ m.path \in Files
  BY DEF Managers
<1>2. Flushed(m).conf = m.index
  BY DEF Flushed, Managers
<1>3. Choices \subseteq Contents
  BY DEF Contents
<1>4. "none" \notin Files
  BY OptionGames DEF Files
<1> QED
  BY <1>1, <1>2, <1>3, <1>4 DEF runloop_deinit_core_options, WriteOverride, Write

\* The core registers once or twice; both times among the files of the game.
LEMMA LoadsOwn ==
    ASSUME OptionsInv, game = "none", NEW g \in Games, NEW c \in BOOLEAN
    PROVE  LET r == RegisterCoreOptions(g, c)
           IN  /\ r.file \in [Files -> Contents]
               /\ \A x \in Files \ FilesOf(g) : r.file[x] = file[x]
               /\ r.manager \in Managers /\ r.manager.path \in FilesOf(g)
               /\ PathOK(g, r.optPath, r.active)
<1> DEFINE v2 == Registered(file, g, "none")
           saved == runloop_deinit_core_options(v2.file, v2.manager, v2.optPath)
<1>1. file \in [Files -> Contents] /\ optPath = "none"
  BY OptionGames DEF OptionsInv, OptionsTypeOK
<1>2. /\ v2.file = file /\ v2.manager \in Managers /\ v2.manager.path \in FilesOf(g)
      /\ PathOK(g, v2.optPath, v2.active)
  BY <1>1, RegistersOwn
<1>3. v2.optPath \in Files \cup {"none"} /\ v2.optPath \in FilesOf(g) \cup {"none"}
  BY <1>2 DEF PathOK, Files, FilesOf
<1>4. /\ saved \in [Files -> Contents]
      /\ \A x \in Files \ {v2.optPath, v2.manager.path} : saved[x] = file[x]
  BY <1>1, <1>2, <1>3, SavesOwn
<1>5. "none" \notin Files
  BY OptionGames DEF Files
<1>6. \A x \in Files \ FilesOf(g) : saved[x] = file[x]
  BY <1>2, <1>3, <1>4, <1>5
<1>7. CASE c
  BY <1>1, <1>2, <1>7 DEF RegisterCoreOptions, SET_CORE_OPTIONS_V2
<1>8. CASE ~c
  <2> DEFINE v1 == Registered(saved, g, "none")
  <2>1. RegisterCoreOptions(g, c) = v1
    BY <1>1, <1>8 DEF RegisterCoreOptions, SET_CORE_OPTIONS_V2, SET_CORE_OPTIONS,
                      PathAfterDeinit
  <2>2. /\ v1.file = saved /\ v1.manager \in Managers /\ v1.manager.path \in FilesOf(g)
        /\ PathOK(g, v1.optPath, v1.active)
    BY <1>4, RegistersOwn
  <2> QED
    BY <1>4, <1>6, <2>1, <2>2
<1> QED
  BY <1>7, <1>8

\* What the core makes of its options stays in range.
LEMMA ParseTypes ==
    ASSUME OptionsTypeOK, NEW value \in Choices, ParseCoreOptions(value)
    PROVE  /\ seen' \in Choices \cup {"custom"} /\ rects' \in Rectangles
           /\ mode' \in [option : {"Toggle", "Hold"}, read : {"Toggle", "Hold"}]
  BY DEF OptionsTypeOK, ParseCoreOptions, ParseStorageOptions, ParseLayoutOptions,
         ParseGraphicsOptions, ParseCpuOptions, ParseCustomLayoutConfig,
         CustomLayoutConfig, Choices, Pushes, Rectangles

LEMMA InitOptions == StorageInit => OptionsInv
<1> SUFFICES ASSUME StorageInit
             PROVE  OptionsInv
  OBVIOUS
<1> USE DEF StorageInit, OptionsInit
<1>1. file \in [Files -> Contents]
  <2>1. {"nofile", "other"} \subseteq Contents
    BY DEF Contents, Choices
  <2> QED
    BY <2>1
<1>2. /\ game \in Games \cup {"none"} /\ manager \in Managers \cup {NoManager}
      /\ manager = NoManager <=> game = "none"
  OBVIOUS
<1>3. /\ optPath \in {"none", "dir"} \cup Games /\ active \in SUBSET {"game", "folder"}
      /\ optPath = "none" <=> active = {}
      /\ optPath = "dir" <=> active = {"folder"}
  OBVIOUS
<1>4. /\ pushed \in Pushes /\ rects \in Rectangles /\ seen \in Choices \cup {"custom"}
      /\ mode \in [option : {"Toggle", "Hold"}, read : {"Toggle", "Hold"}]
      /\ changes \in 0 .. MaxChanges
  BY OptionBound DEF Pushes, Rectangles, Choices
<1>5. OptionsTypeOK
  BY <1>1, <1>2, <1>3, <1>4 DEF OptionsTypeOK
<1> QED
  BY <1>5 DEF OptionsInv

\* The game's own files are the only ones of a game that a step writes.
Own == \A x \in Games : file'[x] # file[x] => x \in {game, game'}

LEMMA LoadStep ==
    ASSUME OptionsInv, NEW g \in Games, NEW c \in BOOLEAN, NEW s \in BOOLEAN,
           LoadGame(g, c, s)
    PROVE  OptionsInv' /\ Own
<1> DEFINE r == RegisterCoreOptions(g, c)
<1>1. /\ game = "none" /\ game' = g /\ file' = r.file /\ manager' = r.manager
      /\ optPath' = r.optPath /\ active' = r.active /\ ParseCoreOptions(r.manager.index)
      /\ updated' = FALSE /\ loaded' = s /\ steady' = TRUE
      /\ UNCHANGED <<kind, perGame, perCore, pushed, canJit, button, swapped, changes>>
  BY DEF LoadGame
<1>2. /\ r.file \in [Files -> Contents]
      /\ \A x \in Files \ FilesOf(g) : r.file[x] = file[x]
      /\ r.manager \in Managers /\ r.manager.path \in FilesOf(g)
      /\ PathOK(g, r.optPath, r.active)
  BY <1>1, LoadsOwn
<1>3. r.manager.index \in Choices /\ r.manager # NoManager
  BY <1>2 DEF Managers, NoManager, Choices
<1>4. /\ seen' \in Choices \cup {"custom"} /\ rects' \in Rectangles
      /\ mode' \in [option : {"Toggle", "Hold"}, read : {"Toggle", "Hold"}]
  BY <1>1, <1>3, ParseTypes DEF OptionsInv
<1>5. HeldFor(g)'
  BY <1>1, <1>2 DEF HeldFor
<1>6. Own
  BY <1>1, <1>2, OptionGames DEF Own, FilesOf, Files
<1>7. g # "none"
  BY OptionGames
<1>8. OptionsTypeOK'
  BY <1>1, <1>2, <1>3, <1>4, <1>7 DEF OptionsInv, OptionsTypeOK, PathOK
<1> QED
  BY <1>1, <1>5, <1>6, <1>7, <1>8 DEF OptionsInv, HeldFor

LEMMA UnloadStep ==
    ASSUME OptionsInv, uninit_libretro_symbols \/ Killed
    PROVE  OptionsInv' /\ Own
<1>1. CASE uninit_libretro_symbols
  <2>1. /\ manager \in Managers /\ manager.path \in FilesOf(game)
        /\ optPath \in FilesOf(game) \cup {"none"} /\ game \in Games
        /\ file \in [Files -> Contents]
    BY <1>1 DEF uninit_libretro_symbols, OptionsInv, OptionsTypeOK, HeldFor, PathOK, FilesOf
  <2>2. optPath \in Files \cup {"none"} /\ "none" \notin Files
    BY <2>1, OptionGames DEF FilesOf, Files
  <2>3. /\ file' \in [Files -> Contents]
        /\ \A x \in Files \ {optPath, manager.path} : file'[x] = file[x]
    BY <1>1, <2>1, <2>2, SavesOwn DEF uninit_libretro_symbols
  <2>4. Own
    BY <2>1, <2>2, <2>3, OptionGames DEF Own, FilesOf, Files
  <2>5. OptionsTypeOK' /\ game' = "none" /\ optPath' = "none" /\ ~loaded'
    BY <1>1, <2>3 DEF uninit_libretro_symbols, OptionsInv, OptionsTypeOK, PathAfterDeinit
  <2> QED
    BY <2>4, <2>5 DEF OptionsInv
<1>2. CASE Killed
  <2>1. mode' \in [option : {"Toggle", "Hold"}, read : {"Toggle", "Hold"}]
    BY <1>2 DEF Killed, OptionsInv, OptionsTypeOK
  <2>2. /\ OptionsTypeOK' /\ game' = "none" /\ optPath' = "none" /\ ~loaded'
        /\ UNCHANGED file
    BY <1>2, <2>1 DEF Killed, OptionsInv, OptionsTypeOK, Pushes, Choices, Rectangles
  <2> QED
    BY <2>2 DEF OptionsInv, Own
<1> QED
  BY <1>1, <1>2

\* The types that a frame of the core touches.
LEMMA FrameStep ==
    ASSUME OptionsInv, retro_run
    PROVE  OptionsInv' /\ Own
<1> PICK pressed \in BOOLEAN : FrameUpdated(pressed) \/ FrameSwapped(pressed)
  BY DEF retro_run
<1>1. /\ loaded /\ updated' = FALSE
      /\ UNCHANGED <<frontend, pushed, canJit, loaded, changes, steady>>
  BY DEF FrameUpdated, FrameSwapped
<1>2. game # "none" /\ manager \in Managers /\ manager.index \in Choices
  BY <1>1 DEF OptionsInv, HeldFor, Managers
<1>3. /\ seen' \in Choices \cup {"custom"} /\ rects' \in Rectangles
      /\ mode' \in [option : {"Toggle", "Hold"}, read : {"Toggle", "Hold"}]
      /\ button' \in BOOLEAN /\ swapped' \in BOOLEAN
  <2>1. CASE FrameUpdated(pressed)
    BY <1>2, <2>1, ParseTypes DEF FrameUpdated, OptionsInv, OptionsTypeOK
  <2>2. CASE FrameSwapped(pressed)
    <3>1. mode \in [option : {"Toggle", "Hold"}, read : {"Toggle", "Hold"}]
      BY DEF OptionsInv, OptionsTypeOK
    <3>2. mode' \in [option : {"Toggle", "Hold"}, read : {"Toggle", "Hold"}]
      BY <2>2, <3>1 DEF FrameSwapped
    <3>3. seen' \in Choices
      BY <1>2, <2>2 DEF FrameSwapped, Flip, Choices
    <3>4. button' \in BOOLEAN /\ swapped' \in BOOLEAN /\ UNCHANGED rects
      BY <2>2 DEF FrameSwapped, OptionsInv, OptionsTypeOK
    <3> QED
      BY <3>2, <3>3, <3>4 DEF OptionsInv, OptionsTypeOK
  <2> QED
    BY <2>1, <2>2
<1>4. OptionsTypeOK'
  BY <1>1, <1>3 DEF OptionsInv, OptionsTypeOK, frontend
<1> QED
  BY <1>1, <1>4 DEF OptionsInv, HeldFor, Own, frontend

\* A step that leaves the files and the path alone keeps the manager's place.
LEMMA EditManager ==
    ASSUME OptionsInv, game # "none", NEW m \in Managers, m.path = manager.path,
           manager' = m, changes' \in 0 .. MaxChanges, updated' \in BOOLEAN,
           mode' \in [option : {"Toggle", "Hold"}, read : {"Toggle", "Hold"}],
           UNCHANGED <<kind, file, perGame, perCore, game, optPath, active, pushed, canJit,
                       loaded, seen, rects, button, swapped, steady>>
    PROVE  OptionsInv' /\ Own
<1>1. m # NoManager
  BY DEF Managers, NoManager, Choices
<1>2. OptionsTypeOK'
  BY <1>1 DEF OptionsInv, OptionsTypeOK
<1>3. HeldFor(game)'
  BY DEF OptionsInv, HeldFor
<1> QED
  BY <1>2, <1>3 DEF OptionsInv, Own

\* The bound on the changes.
LEMMA Counted ==
    ASSUME OptionsInv, Change
    PROVE  changes' \in 0 .. MaxChanges
  BY OptionBound DEF OptionsInv, OptionsTypeOK, Change

\* The menu sets an option, the mode of the screen swap, or all options.
LEMMA MenuStep ==
    ASSUME OptionsInv,
           \/ \E v \in Choices : SetOption(v)
           \/ SetOtherOption \/ SetMode \/ core_options_reset
    PROVE  OptionsInv' /\ Own
<1>1. game # "none" /\ Change
  BY DEF SetOption, SetOtherOption, SetMode, core_options_reset
<1>2. manager \in Managers /\ changes' \in 0 .. MaxChanges
  BY <1>1, Counted DEF OptionsInv, HeldFor
<1>3. mode \in [option : {"Toggle", "Hold"}, read : {"Toggle", "Hold"}]
  BY DEF OptionsInv, OptionsTypeOK
<1>4. ASSUME NEW v \in Choices, SetOption(v)
      PROVE  OptionsInv' /\ Own
  <2> DEFINE m == [manager EXCEPT !.index = v]
  <2>1. m \in Managers /\ m.path = manager.path
    BY <1>2 DEF Managers
  <2> QED
    BY <1>1, <1>2, <1>3, <1>4, <2>1, EditManager DEF SetOption, core
<1>5. CASE SetOtherOption
  <2> DEFINE m == [manager EXCEPT !.dirty = TRUE]
  <2>1. m \in Managers /\ m.path = manager.path
    BY <1>2 DEF Managers
  <2> QED
    BY <1>1, <1>2, <1>3, <1>5, <2>1, EditManager DEF SetOtherOption, core
<1>6. CASE SetMode
  <2> DEFINE m == [manager EXCEPT !.dirty = TRUE]
  <2>1. m \in Managers /\ m.path = manager.path
    BY <1>2 DEF Managers
  <2>2. mode' \in [option : {"Toggle", "Hold"}, read : {"Toggle", "Hold"}]
    BY <1>3, <1>6 DEF SetMode
  <2> QED
    BY <1>1, <1>2, <1>6, <2>1, <2>2, EditManager DEF SetMode
<1>7. CASE core_options_reset
  <2> DEFINE m == [manager EXCEPT !.index = "default", !.dirty = TRUE]
  <2>1. m \in Managers /\ m.path = manager.path
    BY <1>2 DEF Managers, Choices
  <2> QED
    BY <1>1, <1>2, <1>3, <1>7, <2>1, EditManager DEF core_options_reset, core
<1> QED
  BY <1>4, <1>5, <1>6, <1>7

\* Settings, layouts and JIT, and the deletion of the core's file.
LEMMA OutsideStep ==
    ASSUME OptionsInv,
           \/ ColdReset \/ SetScope \/ JitAllowed
           \/ \E l \in Pushes : set3DSCustomLayout(l)
    PROVE  OptionsInv' /\ Own
<1>1. CASE ColdReset
  <2>1. changes' \in 0 .. MaxChanges
    BY <1>1, Counted DEF ColdReset
  <2>2. file' \in [Files -> Contents] /\ \A x \in Games : file'[x] = file[x]
    BY <1>1, OptionGames DEF ColdReset, OptionsInv, OptionsTypeOK, Files, Contents
  <2>3. OptionsTypeOK'
    BY <1>1, <2>1, <2>2 DEF ColdReset, OptionsInv, OptionsTypeOK, core
  <2> QED
    BY <1>1, <2>2, <2>3 DEF ColdReset, OptionsInv, HeldFor, Own, core
<1>2. CASE SetScope
  <2>1. changes' \in 0 .. MaxChanges
    BY <1>2, Counted DEF SetScope
  <2>2. perGame' \in BOOLEAN /\ perCore' \in BOOLEAN
    BY <1>2 DEF SetScope, OptionsInv, OptionsTypeOK
  <2>3. OptionsTypeOK'
    BY <1>2, <2>1, <2>2, ZenonT(60) DEF SetScope, OptionsInv, OptionsTypeOK, core
  <2> QED
    BY <1>2, <2>3 DEF SetScope, OptionsInv, HeldFor, Own, core
<1>3. CASE JitAllowed
  BY <1>3 DEF JitAllowed, OptionsInv, OptionsTypeOK, HeldFor, Own, core, frontend
<1>4. ASSUME NEW l \in Pushes, set3DSCustomLayout(l)
      PROVE  OptionsInv' /\ Own
  <2>1. OptionsTypeOK'
    BY <1>4 DEF set3DSCustomLayout, OptionsInv, OptionsTypeOK, core, frontend
  <2> QED
    BY <1>4, <2>1 DEF set3DSCustomLayout, OptionsInv, HeldFor, Own, core, frontend
<1> QED
  BY <1>1, <1>2, <1>3, <1>4

\* A step that writes one file of the game and may move the options to another file.
LEMMA EditFiles ==
    ASSUME OptionsInv, game # "none", file' \in [Files -> Contents],
           \A x \in Games \ {game} : file'[x] = file[x],
           manager' \in Managers, manager'.path \in FilesOf(game),
           PathOK(game, optPath', active'),
           changes' \in 0 .. MaxChanges, updated' \in BOOLEAN,
           UNCHANGED <<kind, perGame, perCore, game, pushed, canJit, core, steady>>
    PROVE  OptionsInv' /\ Own
<1>1. manager' # NoManager /\ game \in Games
  BY DEF Managers, NoManager, Choices, OptionsInv, OptionsTypeOK
<1>2. /\ optPath' \in {"none", "dir"} \cup Games /\ active' \in SUBSET {"game", "folder"}
      /\ optPath' = "none" <=> active' = {}
      /\ optPath' = "dir" <=> active' = {"folder"}
  BY <1>1 DEF PathOK
<1>3. OptionsTypeOK'
  BY <1>1, <1>2 DEF OptionsInv, OptionsTypeOK, core
<1>4. HeldFor(game)'
  BY DEF HeldFor
<1> QED
  BY <1>3, <1>4 DEF OptionsInv, Own

LEMMA FlushStep ==
    ASSUME OptionsInv, core_options_flush
    PROVE  OptionsInv' /\ Own
<1>1. /\ game # "none" /\ game \in Games /\ file \in [Files -> Contents]
      /\ manager \in Managers /\ manager.path \in FilesOf(game)
      /\ PathOK(game, optPath, active)
      /\ changes \in 0 .. MaxChanges /\ updated \in BOOLEAN
  BY DEF core_options_flush, OptionsInv, OptionsTypeOK, HeldFor
<1>2. /\ manager.index \in Choices /\ Choices \subseteq Contents
      /\ manager.path \in Files /\ optPath \in Files \cup {"none"}
  BY <1>1 DEF Managers, Contents, PathOK, Files
<1>3. Flushed(manager) \in Managers /\ Flushed(manager).path = manager.path
      /\ Flushed(manager).conf = manager.index
  BY <1>1 DEF Flushed, Managers
<1>4. FlushGuaranteed(manager) \in Managers /\ FlushGuaranteed(manager).conf = manager.index
  BY <1>3 DEF FlushGuaranteed, Managers
<1>5. /\ file' \in [Files -> Contents]
      /\ \A x \in Files \ {optPath, manager.path} : file'[x] = file[x]
  BY <1>1, <1>2, <1>4 DEF core_options_flush, FlushedFiles, WriteOverride, Write
<1>6. \A x \in Games \ {game} : file'[x] = file[x]
  <2> SUFFICES ASSUME NEW x \in Games \ {game}
               PROVE  x \in Files \ {optPath, manager.path}
    BY <1>5
  <2>1. x \notin {"global", "core", "dir", "none"} /\ x # game /\ x \in Files
    BY OptionGames DEF Files
  <2>2. x # optPath
    BY <1>1, <2>1 DEF PathOK
  <2>3. x # manager.path
    BY <1>1, <2>1 DEF FilesOf
  <2> QED
    BY <2>1, <2>2, <2>3
<1>7. manager' \in Managers /\ manager'.path = manager.path
  <2> DEFINE m == [Flushed(manager) EXCEPT !.dirty = FALSE]
  <2>1. m \in Managers /\ m.path = manager.path
    BY <1>3 DEF Managers
  <2> QED
    BY <1>1, <2>1 DEF core_options_flush
<1> QED
  BY <1>1, <1>5, <1>6, <1>7, EditFiles DEF core_options_flush

LEMMA CreateStep ==
    ASSUME OptionsInv, NEW t \in BOOLEAN, core_options_create_override(t)
    PROVE  OptionsInv' /\ Own
<1> DEFINE path == IF t THEN game ELSE "dir"
<1>1. /\ game # "none" /\ game \in Games /\ file \in [Files -> Contents]
      /\ manager \in Managers /\ manager.path \in FilesOf(game)
      /\ manager.index \in Choices /\ updated \in BOOLEAN
  BY DEF core_options_create_override, OptionsInv, OptionsTypeOK, HeldFor, Managers
<1>2. changes' \in 0 .. MaxChanges
  BY Counted DEF core_options_create_override
<1>3. path \in Files /\ Choices \subseteq Contents
  BY <1>1 DEF Files, Contents
<1>4. /\ file' \in [Files -> Contents]
      /\ \A x \in Files \ {path} : file'[x] = file[x]
  BY <1>1, <1>3 DEF core_options_create_override, WriteOverride
<1>5. \A x \in Games \ {game} : file'[x] = file[x]
  BY <1>4, OptionGames DEF Files
<1>6. PathOK(game, optPath', active')
  BY <1>1, OptionGames DEF core_options_create_override, PathOK
<1> QED
  BY <1>1, <1>2, <1>4, <1>5, <1>6, EditFiles DEF core_options_create_override

LEMMA RemoveStep ==
    ASSUME OptionsInv, NEW t \in BOOLEAN, core_options_remove_override(t)
    PROVE  OptionsInv' /\ Own
<1> DEFINE left == [file EXCEPT ![optPath] = "nofile"]
           folder == t /\ Exists(left, "dir")
           parent == IF folder THEN "dir" ELSE IF perCore THEN "core" ELSE "global"
           found == Exists(left, parent)
           value == IF found /\ left[parent] \in Choices THEN left[parent]
                    ELSE manager.index
           conf == IF found THEN [conf |-> left[parent], dirty |-> FALSE]
                   ELSE [conf |-> manager.conf, dirty |-> manager.dirty]
<1>1. /\ game # "none" /\ game \in Games /\ file \in [Files -> Contents]
      /\ manager \in Managers /\ manager.path \in FilesOf(game)
      /\ PathOK(game, optPath, active) /\ active # {} /\ updated \in BOOLEAN
  BY DEF core_options_remove_override, OptionsInv, OptionsTypeOK, HeldFor
<1>2. changes' \in 0 .. MaxChanges
  BY Counted DEF core_options_remove_override
<1>3. optPath \in Files /\ optPath \in {"dir", game}
  BY <1>1 DEF PathOK, Files
<1>4. /\ left \in [Files -> Contents] /\ \A x \in Files \ {optPath} : left[x] = file[x]
  BY <1>1, <1>3 DEF Contents
<1>5. /\ file' = left /\ updated' = (updated \/ found)
      /\ optPath' = (IF folder THEN "dir" ELSE "none")
      /\ active' = (IF folder THEN {"folder"} ELSE {})
      /\ manager' = (IF folder THEN [manager EXCEPT !.index = value]
                     ELSE [index |-> value, path |-> parent, conf |-> conf.conf,
                           dirty |-> conf.dirty])
      /\ UNCHANGED <<kind, perGame, perCore, game, pushed, canJit, core, steady>>
  BY DEF core_options_remove_override
<1>6. \A x \in Games \ {game} : file'[x] = file[x]
  BY <1>3, <1>4, <1>5, OptionGames DEF Files
<1>7. parent \in Files /\ parent \in FilesOf(game)
  BY DEF Files, FilesOf
<1>8. value \in Choices
  BY <1>1 DEF Managers
<1>9. conf.conf \in Choices \cup {"absent"} /\ conf.dirty \in BOOLEAN
  <2>1. CASE found
    BY <1>4, <1>7, <2>1 DEF Exists, Contents
  <2>2. CASE ~found
    BY <1>1, <2>2 DEF Managers
  <2> QED
    BY <2>1, <2>2
<1>10. manager' \in Managers /\ manager'.path \in FilesOf(game)
  <2>1. CASE folder
    <3> DEFINE m == [manager EXCEPT !.index = value]
    <3>1. m \in Managers /\ m.path = manager.path
      BY <1>1, <1>8 DEF Managers
    <3> QED
      BY <1>1, <1>5, <2>1, <3>1
  <2>2. CASE ~folder
    BY <1>5, <1>7, <1>8, <1>9, <2>2 DEF Managers
  <2> QED
    BY <2>1, <2>2
<1>11. PathOK(game, optPath', active')
  BY <1>5 DEF PathOK
<1>12. updated' \in BOOLEAN
  BY <1>1, <1>5 DEF Exists
<1> QED
  BY <1>1, <1>2, <1>4, <1>5, <1>6, <1>10, <1>11, <1>12, EditFiles

LEMMA NextOptions ==
    OptionsInv /\ [StorageNext]_storageVars
      => OptionsInv' /\ (Own \/ UNCHANGED optionVars)
<1> SUFFICES ASSUME OptionsInv, [StorageNext]_storageVars
             PROVE  OptionsInv' /\ (Own \/ UNCHANGED optionVars)
  OBVIOUS
<1>1. CASE UNCHANGED optionVars
  BY <1>1 DEF OptionsInv, OptionsTypeOK, HeldFor, optionVars, frontend, core
<1>2. ASSUME NEW g \in Games, NEW c \in BOOLEAN, NEW s \in BOOLEAN,
             NEW made \in CreateDir, LoadStored(g, c, s, made)
      PROVE  OptionsInv' /\ Own
  BY <1>2, LoadStep DEF LoadStored
<1>3. ASSUME NEW s \in BOOLEAN, do_load_game(s)
      PROVE  OptionsInv' /\ Own
  <2>1. OptionsTypeOK'
    BY <1>3 DEF do_load_game, OptionsInv, OptionsTypeOK, frontend
  <2> QED
    BY <1>3, <2>1 DEF do_load_game, OptionsInv, HeldFor, Own, frontend
<1>4. ASSUME NEW made \in CreateDir, FrameStored(made)
      PROVE  OptionsInv' /\ Own
  BY <1>4, FrameStep DEF FrameStored
<1>5. CASE LibraryClosed \/ AppKilled
  BY <1>5, UnloadStep DEF LibraryClosed, AppKilled
<1>6. CASE OptionEdits
  BY <1>6, MenuStep, OutsideStep, FlushStep, CreateStep, RemoveStep DEF OptionEdits
<1>7. CASE PathAsked \/ ImportUpdate
  BY <1>1, <1>7 DEF PathAsked, ImportUpdate
<1>8. CASE UNCHANGED storageVars
  BY <1>1, <1>8 DEF storageVars
<1> QED
  BY <1>2, <1>3, <1>4, <1>5, <1>6, <1>7, <1>8 DEF StorageNext

LEMMA OptionsInvariant == StorageSpec => []OptionsInv
  BY InitOptions, NextOptions, PTL DEF StorageSpec

\* The path, the flags, the manager and the files of the options stay in range and
\* agree, and so do the directories, for any set of games and any number of changes.
THEOREM OptionsAreTyped == StorageSpec => []StorageTypeOK
<1>1. OptionsInv /\ DirsTypeOK => StorageTypeOK
  BY DEF OptionsInv, StorageTypeOK
<1> QED
  BY OptionsInvariant, DirectoriesAreSet, <1>1, PTL

\* No registration, save, flush, reset, removal or kill writes the options file of a
\* game that is not loaded.
THEOREM FilesAreOwn == StorageSpec => OwnFileOnly
<1>1. OptionsInv /\ [StorageNext]_storageVars
        => [\A g \in Games : file'[g] # file[g] => g \in {game, game'}]_optionVars
  BY NextOptions DEF Own
<1> QED
  BY OptionsInvariant, <1>1, PTL DEF StorageSpec, OwnFileOnly

-------------------------------------------------------------------------------
(* What the core knows of the options. *)

\* Inductive: also while do_load_game has failed, for retro_reset and context_reset may
\* load the game without reading the options again.
SeenInv ==
    game # "none" /\ ~updated =>
        /\ kind = "plain" => seen = manager.index
        /\ kind = "jit" => seen = manager.index \/ seen = "other"
        /\ kind = "layout" => rects = CustomLayoutConfig
        /\ kind \in {"swap", "storage"} => mode.read = mode.option
        /\ kind = "swap" /\ seen # manager.index
             => IF mode.read = "Toggle" THEN swapped ELSE button

\* The files, the manager and the path of a game's options agree: an override that is in
\* use is the first one, no override is there when none is in use, and the configuration
\* is that of its file.
Settled(f, g, m, opt) ==
    /\ perGame /\ opt # g => ~Exists(f, g)
    /\ opt = "none" =>
         /\ perGame => ~Exists(f, "dir")
         /\ m.path = IF perCore THEN "core" ELSE "global"
         /\ ~m.dirty /\ Exists(f, m.path) => f[m.path] = m.conf

\* Inductive: unless the scope of the options has been changed.
SettledInv == game # "none" /\ steady => Settled(file, game, manager, optPath)

\* Reading all options explains what the core does.
LEMMA ParsedIsSeen ==
    ASSUME OptionsInv, NEW value \in Choices, ParseCoreOptions(value),
           pushed' = pushed, kind' = kind, manager'.index = value
    PROVE  SeenInv'
<1>1. kind \in Kinds
  BY DEF OptionsInv, OptionsTypeOK
<1>2. /\ seen' = ParseStorageOptions(
                   ParseLayoutOptions(ParseGraphicsOptions(ParseCpuOptions(value))))
      /\ rects' = (IF kind = "layout" THEN ParseCustomLayoutConfig ELSE rects)
  BY DEF ParseCoreOptions
<1>3. mode'.read = mode'.option
  BY DEF ParseCoreOptions, OptionsInv, OptionsTypeOK
<1>4. kind = "plain" => seen' = value
  BY <1>2 DEF ParseStorageOptions, ParseLayoutOptions, ParseGraphicsOptions, ParseCpuOptions
<1>5. kind = "jit" => seen' = value \/ seen' = "other"
  BY <1>2 DEF ParseStorageOptions, ParseLayoutOptions, ParseGraphicsOptions, ParseCpuOptions
<1>6. kind = "swap" => seen' = value
  BY <1>2 DEF ParseStorageOptions, ParseLayoutOptions, ParseGraphicsOptions, ParseCpuOptions
<1>7. kind = "layout" => rects' = CustomLayoutConfig'
  BY <1>2 DEF ParseCustomLayoutConfig, CustomLayoutConfig
<1> QED
  BY <1>3, <1>4, <1>5, <1>6, <1>7 DEF SeenInv

\* A game is loaded, or gone.
LEMMA LoadSeen ==
    ASSUME OptionsInv, NEW g \in Games, NEW c \in BOOLEAN, NEW s \in BOOLEAN,
           LoadGame(g, c, s)
    PROVE  SeenInv'
<1> DEFINE r == RegisterCoreOptions(g, c)
<1>1. /\ game = "none" /\ manager' = r.manager /\ ParseCoreOptions(r.manager.index)
      /\ pushed' = pushed /\ kind' = kind
  BY DEF LoadGame
<1>2. r.manager \in Managers
  BY <1>1, LoadsOwn
<1>3. r.manager.index \in Choices
  BY <1>2 DEF Managers
<1> HIDE DEF r
<1> QED
  BY <1>1, <1>3, ParsedIsSeen

\* retro_run reads all options, or swaps the screens by the mode it has just read.
LEMMA FrameSeen == ASSUME OptionsInv, SeenInv, retro_run PROVE SeenInv'
<1> PICK pressed \in BOOLEAN : FrameUpdated(pressed) \/ FrameSwapped(pressed)
  BY DEF retro_run
<1>1. /\ loaded /\ UNCHANGED <<frontend, pushed>>
  BY DEF FrameUpdated, FrameSwapped
<1>2. game # "none" /\ manager \in Managers /\ manager.index \in Choices
      /\ mode \in [option : {"Toggle", "Hold"}, read : {"Toggle", "Hold"}]
  BY <1>1 DEF OptionsInv, OptionsTypeOK, HeldFor, Managers
<1>3. CASE FrameUpdated(pressed)
  <2>1. ParseCoreOptions(manager.index)
    BY <1>3 DEF FrameUpdated
  <2>2. manager'.index = manager.index /\ kind' = kind /\ pushed' = pushed
    BY <1>1 DEF frontend
  <2> QED
    BY <1>2, <2>1, <2>2, ParsedIsSeen
<1>4. CASE FrameSwapped(pressed)
  <2> DEFINE now == IF updated THEN mode.option ELSE mode.read
             other == IF now = "Toggle" THEN swapped' ELSE pressed
  <2>1. /\ kind = "swap" /\ kind' = kind /\ manager' = manager
        /\ mode' = [mode EXCEPT !.read = now]
        /\ seen' = (IF other THEN Flip(manager.index) ELSE manager.index)
        /\ button' = pressed
    BY <1>1, <1>4 DEF FrameSwapped, frontend
  <2>2. mode'.read = now /\ mode'.option = mode.option
    BY <1>2, <2>1
  <2>3. now = mode.option
    BY <1>1, <1>2, <2>1 DEF SeenInv, frontend
  <2>4. seen' # manager.index => other
    BY <2>1
  <2>5. seen' # manager'.index
           => IF mode'.read = "Toggle" THEN swapped' ELSE button'
    BY <2>1, <2>2, <2>4
  <2> QED
    BY <2>1, <2>2, <2>3, <2>5 DEF SeenInv
<1> QED
  BY <1>3, <1>4

\* Whoever changes an option, the mode or the layout tells the core.
LEMMA EditSeen == ASSUME OptionsInv, SeenInv, OptionEdits PROVE SeenInv'
<1>1. CASE (\E v \in Choices : SetOption(v)) \/ SetOtherOption \/ SetMode
           \/ core_options_reset
  <2>1. updated' = TRUE
    BY <1>1 DEF SetOption, SetOtherOption, SetMode, core_options_reset
  <2> QED
    BY <2>1 DEF SeenInv
<1>2. CASE ColdReset \/ SetScope \/ JitAllowed
  <2>1. UNCHANGED <<kind, game, manager, updated, pushed, seen, rects, mode, button, swapped>>
    BY <1>2 DEF ColdReset, SetScope, JitAllowed, frontend, core
  <2> QED
    BY <2>1 DEF SeenInv, CustomLayoutConfig
<1>3. CASE core_options_flush
  <2>1. UNCHANGED <<kind, game, updated, pushed, seen, rects, mode, button, swapped>>
        /\ game # "none"
        /\ manager' = (IF optPath # "none" THEN manager
                       ELSE [Flushed(manager) EXCEPT !.dirty = FALSE])
    BY <1>3 DEF core_options_flush, core
  <2>2. manager \in Managers
    BY <2>1 DEF OptionsInv, HeldFor
  <2>3. Flushed(manager) \in Managers /\ Flushed(manager).index = manager.index
    BY <2>2 DEF Flushed, Managers
  <2>4. [Flushed(manager) EXCEPT !.dirty = FALSE].index = manager.index
    BY <2>3 DEF Managers
  <2>5. manager'.index = manager.index
    BY <2>1, <2>4
  <2> QED
    BY <2>1, <2>5 DEF SeenInv, CustomLayoutConfig
<1>4. ASSUME NEW t \in BOOLEAN, core_options_create_override(t)
      PROVE  SeenInv'
  <2>1. UNCHANGED <<kind, game, manager, updated, pushed, seen, rects, mode, button, swapped>>
    BY <1>4 DEF core_options_create_override, core
  <2> QED
    BY <2>1 DEF SeenInv, CustomLayoutConfig
<1>5. ASSUME NEW t \in BOOLEAN, core_options_remove_override(t)
      PROVE  SeenInv'
  <2> DEFINE left == [file EXCEPT ![optPath] = "nofile"]
             folder == t /\ Exists(left, "dir")
             parent == IF folder THEN "dir" ELSE IF perCore THEN "core" ELSE "global"
             found == Exists(left, parent)
             value == IF found /\ left[parent] \in Choices THEN left[parent]
                      ELSE manager.index
             conf == IF found THEN [conf |-> left[parent], dirty |-> FALSE]
                     ELSE [conf |-> manager.conf, dirty |-> manager.dirty]
  <2>1. /\ game # "none" /\ UNCHANGED <<kind, game, pushed, seen, rects, mode, button, swapped>>
        /\ updated' = (updated \/ found)
        /\ manager' = (IF folder THEN [manager EXCEPT !.index = value]
                       ELSE [index |-> value, path |-> parent, conf |-> conf.conf,
                             dirty |-> conf.dirty])
    BY <1>5 DEF core_options_remove_override, core
  <2>2. CASE found
    BY <2>1, <2>2 DEF SeenInv
  <2>3. CASE ~found
    <3>1. ~folder /\ value = manager.index
      BY <2>3
    <3>2. updated' = updated /\ manager'.index = manager.index
      <4>1. updated \in BOOLEAN
        BY DEF OptionsInv, OptionsTypeOK
      <4> HIDE DEF conf, parent, folder, value, found
      <4>2. manager'.index = manager.index
        BY <2>1, <3>1
      <4> QED
        BY <2>1, <2>3, <4>1, <4>2
    <3> HIDE DEF conf, parent, folder, value, found
    <3> QED
      BY <2>1, <3>2 DEF SeenInv, CustomLayoutConfig
  <2> QED
    BY <2>2, <2>3
<1>6. ASSUME NEW l \in Pushes, set3DSCustomLayout(l)
      PROVE  SeenInv'
  <2>1. updated' = (game # "none") /\ game' = game
    BY <1>6 DEF set3DSCustomLayout, frontend
  <2> QED
    BY <2>1 DEF SeenInv
<1> QED
  BY <1>1, <1>2, <1>3, <1>4, <1>5, <1>6 DEF OptionEdits

LEMMA NextSeen ==
    ASSUME OptionsInv, SeenInv, [StorageNext]_storageVars PROVE SeenInv'
<1>1. CASE UNCHANGED <<frontend, updated, pushed, seen, rects, mode, button, swapped>>
  BY <1>1 DEF SeenInv, CustomLayoutConfig, frontend
<1>2. ASSUME NEW g \in Games, NEW c \in BOOLEAN, NEW s \in BOOLEAN,
             NEW made \in CreateDir, LoadStored(g, c, s, made)
      PROVE  SeenInv'
  BY <1>2, LoadSeen DEF LoadStored
<1>3. ASSUME NEW s \in BOOLEAN, do_load_game(s)
      PROVE  SeenInv'
  BY <1>1, <1>3 DEF do_load_game
<1>4. ASSUME NEW made \in CreateDir, FrameStored(made)
      PROVE  SeenInv'
  BY <1>4, FrameSeen DEF FrameStored
<1>5. CASE LibraryClosed \/ AppKilled
  <2>1. game' = "none"
    BY <1>5 DEF LibraryClosed, AppKilled, uninit_libretro_symbols, Killed
  <2> QED
    BY <2>1 DEF SeenInv
<1>6. CASE OptionEdits
  BY <1>6, EditSeen
<1>7. CASE PathAsked \/ ImportUpdate \/ UNCHANGED storageVars
  <2>1. UNCHANGED optionVars
    BY <1>7 DEF PathAsked, ImportUpdate, storageVars
  <2> QED
    BY <1>1, <2>1 DEF optionVars, core
<1> QED
  BY <1>2, <1>3, <1>4, <1>5, <1>6, <1>7 DEF StorageNext

\* A running core that is not told of an update works with the options as they are, and
\* its screens are where the option, the toggle and the button put them (retro_run,
\* ParseCoreOptions, core_option_manager_set_val and its callers).
THEOREM CoreKnowsOptions == StorageSpec => []CoreSeesOption
<1>1. StorageInit => SeenInv
  BY DEF StorageInit, OptionsInit, SeenInv
<1>2. OptionsInv /\ SeenInv /\ [StorageNext]_storageVars => SeenInv'
  BY NextSeen
<1>3. OptionsInv /\ SeenInv => CoreSeesOption
  <2> SUFFICES ASSUME OptionsInv, SeenInv
               PROVE  OptionIsSeen /\ SwapIsExplained
    BY DEF CoreSeesOption
  <2>1. loaded => game # "none"
    BY DEF OptionsInv
  <2>2. kind \in {"plain", "jit", "layout", "swap", "storage"}
    BY DEF OptionsInv, OptionsTypeOK, Kinds, CpuKeys, SystemKeys, AudioKeys, GraphicsKeys,
           LayoutKeys, StorageKeys, InputKeys
  <2> QED
    BY <2>1, <2>2 DEF SeenInv, OptionIsSeen, SwapIsExplained
<1> QED
  BY <1>1, <1>2, <1>3, OptionsInvariant, PTL DEF StorageSpec

-------------------------------------------------------------------------------
(* What the next registration finds. *)

\* A registration leaves files, manager and path in agreement.
LEMMA RegistersSettled ==
    ASSUME NEW f \in [Files -> Contents], NEW g \in Games
    PROVE  LET r == Registered(f, g, "none")
           IN  /\ Settled(f, g, r.manager, r.optPath)
               /\ r.optPath # "none" => perGame
               /\ ~r.manager.dirty /\ r.manager.index = Effective(f, g)
               /\ r.optPath = "none" /\ ~Exists(f, r.manager.path) => r.manager.conf = "absent"
<1> DEFINE c == runloop_init_core_options_path(f, g, "none")
           r == Registered(f, g, "none")
<1>1. /\ r.manager = core_option_manager_new(f, c.path, c.src) /\ r.optPath = c.opt
  BY DEF Registered, runloop_init_core_options
<1>2. r.manager.index = Effective(f, g)
  BY <1>1 DEF Effective, runloop_init_core_options
<1>3. /\ r.manager.path = c.path /\ ~r.manager.dirty
      /\ r.manager.conf = IF Exists(f, c.path) THEN f[c.path] ELSE "absent"
  BY <1>1 DEF core_option_manager_new
<1>4. g # "none" /\ g # "dir"
  BY OptionGames
<1>5. /\ perGame /\ c.opt # g => ~Exists(f, g)
      /\ c.opt = "none" => (perGame => ~Exists(f, "dir"))
                           /\ c.path = IF perCore THEN "core" ELSE "global"
      /\ c.opt # "none" => perGame
  BY <1>4 DEF runloop_init_core_options_path, validate_per_core_options,
              validate_folder_options
<1> HIDE DEF c, r
<1>6. Settled(f, g, r.manager, r.optPath)
  BY <1>1, <1>3, <1>5 DEF Settled
<1> QED
  BY <1>1, <1>2, <1>3, <1>5, <1>6 DEF r

\* Where files, manager and path agree, saving makes the next registration start with
\* the value that was saved.
LEMMA SavedIsEffective ==
    ASSUME NEW f \in [Files -> Contents], NEW g \in Games, NEW m \in Managers,
           NEW opt \in {"none", "dir", g}, Settled(f, g, m, opt),
           opt # "none" => perGame,
           opt = "none" => Exists(f, m.path) \/ Flushed(m).dirty
    PROVE  Effective(runloop_deinit_core_options(f, m, opt), g) = m.index
<1> DEFINE n == runloop_deinit_core_options(f, m, opt)
<1>1. m.index \in Choices /\ m.path \in Files /\ m.dirty \in BOOLEAN
      /\ g \in Files /\ "dir" \in Files
  BY DEF Managers, Files
<1>2. g # "none" /\ g # "dir" /\ g # "core" /\ g # "global"
  BY OptionGames
<1>3. m.index # "nofile" /\ m.index # "absent"
  BY <1>1 DEF Choices
<1>4. Flushed(m).conf = m.index /\ Flushed(m).dirty = (m.dirty \/ m.conf # m.index)
  BY DEF Flushed, Managers
<1>5. CASE opt = g
  <2>1. n = [f EXCEPT ![g] = m.index]
    BY <1>2, <1>5 DEF runloop_deinit_core_options, WriteOverride
  <2>2. n[g] = m.index
    BY <1>1, <2>1
  <2>3. validate_per_core_options(n, g)
    BY <1>2, <1>3, <1>5, <2>2 DEF validate_per_core_options, Exists
  <2> HIDE DEF n
  <2>4. runloop_init_core_options_path(n, g, "none")
          = [path |-> g, src |-> "none", opt |-> g, active |-> {"game"}]
    BY <2>3 DEF runloop_init_core_options_path
  <2>5. Effective(n, g) = m.index
    BY <1>1, <1>3, <2>2, <2>4
    DEF Effective, runloop_init_core_options, core_option_manager_new, Exists
  <2> QED
    BY <2>5 DEF n
<1>6. CASE opt = "dir"
  <2>1. n = [f EXCEPT !["dir"] = m.index]
    BY <1>6 DEF runloop_deinit_core_options, WriteOverride
  <2>2. n["dir"] = m.index /\ n[g] = f[g]
    BY <1>1, <1>2, <2>1
  <2>3. ~validate_per_core_options(n, g) /\ validate_folder_options(n)
    BY <1>2, <1>3, <1>6, <2>2
    DEF validate_per_core_options, validate_folder_options, Exists, Settled
  <2> HIDE DEF n
  <2>4. runloop_init_core_options_path(n, g, "none")
          = [path |-> "dir", src |-> "none", opt |-> "dir", active |-> {"folder"}]
    BY <2>3 DEF runloop_init_core_options_path
  <2>5. Effective(n, g) = m.index
    BY <1>1, <1>3, <2>2, <2>4
    DEF Effective, runloop_init_core_options, core_option_manager_new, Exists
  <2> QED
    BY <2>5 DEF n
<1>7. CASE opt = "none"
  <2> DEFINE path == IF perCore THEN "core" ELSE "global"
  <2>1. /\ m.path = path /\ (perGame => ~Exists(f, g) /\ ~Exists(f, "dir"))
        /\ (~m.dirty /\ Exists(f, path) => f[path] = m.conf)
    BY <1>2, <1>7 DEF Settled
  <2>2. n = (IF Flushed(m).dirty THEN [f EXCEPT ![path] = m.index] ELSE f)
    BY <1>4, <1>7, <2>1 DEF runloop_deinit_core_options, Write
  <2>3. path \in Files /\ path # g /\ path # "dir"
    BY <1>2 DEF Files
  <2>4. n[path] = m.index /\ n[g] = f[g] /\ n["dir"] = f["dir"]
    <3>1. CASE Flushed(m).dirty
      BY <1>1, <2>2, <2>3, <3>1
    <3>2. CASE ~Flushed(m).dirty
      BY <1>4, <1>7, <2>1, <2>2, <3>2
    <3> QED
      BY <3>1, <3>2
  <2>5. ~validate_per_core_options(n, g) /\ ~validate_folder_options(n)
    BY <2>1, <2>4 DEF validate_per_core_options, validate_folder_options, Exists
  <2>6. Exists(n, path)
    BY <1>3, <2>4 DEF Exists
  <2> HIDE DEF n
  <2>7. runloop_init_core_options_path(n, g, "none")
          = [path |-> path, src |-> "none", opt |-> "none", active |-> {}]
    BY <2>5, <2>6 DEF runloop_init_core_options_path
  <2> HIDE DEF path
  <2>8. Effective(n, g) = m.index
    BY <1>1, <2>4, <2>6, <2>7
    DEF Effective, runloop_init_core_options, core_option_manager_new
  <2> QED
    BY <2>8 DEF n
<1> QED
  BY <1>5, <1>6, <1>7

\* The second registration of a load starts with the value of the first.
LEMMA TwiceIsOnce ==
    ASSUME OptionsInv, game = "none", NEW g \in Games
    PROVE  RegisterCoreOptions(g, FALSE).manager.index = Effective(file, g)
<1> DEFINE v2 == Registered(file, g, "none")
           saved == runloop_deinit_core_options(v2.file, v2.manager, v2.optPath)
           v1 == Registered(saved, g, "none")
<1>1. file \in [Files -> Contents] /\ optPath = "none"
  BY OptionGames DEF OptionsInv, OptionsTypeOK
<1>2. /\ v2.file = file /\ v2.manager \in Managers
      /\ PathOK(g, v2.optPath, v2.active)
  BY <1>1, RegistersOwn
<1>3. /\ Settled(file, g, v2.manager, v2.optPath)
      /\ v2.optPath # "none" => perGame
      /\ ~v2.manager.dirty /\ v2.manager.index = Effective(file, g)
      /\ v2.optPath = "none" /\ ~Exists(file, v2.manager.path) => v2.manager.conf = "absent"
  BY <1>1, RegistersSettled
<1>4. v2.optPath \in {"none", "dir", g} /\ v2.optPath \in Files \cup {"none"}
  BY <1>2 DEF PathOK, Files
<1>5. RegisterCoreOptions(g, FALSE) = v1
  BY <1>1 DEF RegisterCoreOptions, SET_CORE_OPTIONS_V2, SET_CORE_OPTIONS, PathAfterDeinit
<1> HIDE DEF v2
<1>6. v2.optPath = "none" => Exists(file, v2.manager.path) \/ Flushed(v2.manager).dirty
  <2>1. v2.manager.index # "absent"
    BY <1>2 DEF Managers, Choices
  <2>2. v2.manager.conf # v2.manager.index => Flushed(v2.manager).dirty
    BY <1>2 DEF Flushed, Managers
  <2> QED
    BY <1>3, <2>1, <2>2
<1>7. Effective(saved, g) = v2.manager.index
  BY <1>1, <1>2, <1>3, <1>4, <1>6, SavedIsEffective
<1>8. saved \in [Files -> Contents]
  BY <1>1, <1>2, <1>4, SavesOwn
<1> HIDE DEF saved
<1>9. v1.manager.index = Effective(saved, g)
  BY <1>8, RegistersSettled
<1> QED
  BY <1>3, <1>5, <1>7, <1>9

\* Loading a game.
LEMMA LoadSettled ==
    ASSUME OptionsInv, NEW g \in Games, NEW c \in BOOLEAN, NEW s \in BOOLEAN,
           LoadGame(g, c, s)
    PROVE  SettledInv'
<1> DEFINE r == RegisterCoreOptions(g, c)
           v2 == Registered(file, g, "none")
           saved == runloop_deinit_core_options(v2.file, v2.manager, v2.optPath)
<1>1. /\ game = "none" /\ game' = g /\ file' = r.file /\ manager' = r.manager
      /\ optPath' = r.optPath /\ UNCHANGED <<perGame, perCore>>
  BY DEF LoadGame
<1>2. file \in [Files -> Contents] /\ optPath = "none"
  BY <1>1, OptionGames DEF OptionsInv, OptionsTypeOK
<1>3. /\ v2.file = file /\ v2.manager \in Managers /\ PathOK(g, v2.optPath, v2.active)
  BY <1>2, RegistersOwn
<1>4. v2.optPath \in Files \cup {"none"}
  BY <1>3 DEF PathOK, Files
<1>5. saved \in [Files -> Contents]
  BY <1>2, <1>3, <1>4, SavesOwn
<1>6. r = IF c THEN v2 ELSE Registered(saved, g, "none")
  BY <1>2 DEF RegisterCoreOptions, SET_CORE_OPTIONS_V2, SET_CORE_OPTIONS, PathAfterDeinit
<1>7. Settled(r.file, g, r.manager, r.optPath)
  <2>1. CASE c
    BY <1>2, <1>3, <1>6, <2>1, RegistersSettled
  <2>2. CASE ~c
    <3>1. r.file = saved
      BY <1>6, <2>2 DEF Registered
    <3> HIDE DEF saved, r
    <3> QED
      BY <1>5, <1>6, <2>2, <3>1, RegistersSettled
  <2> QED
    BY <2>1, <2>2
<1> HIDE DEF r
<1> QED
  BY <1>1, <1>7 DEF SettledInv, Settled

\* The files and the path stay, and the manager's place; a value that changes in memory
\* leaves what is known of the file.
LEMMA MenuSettled ==
    ASSUME OptionsInv, SettledInv,
           \/ \E v \in Choices : SetOption(v)
           \/ SetOtherOption \/ SetMode \/ core_options_reset
           \/ ColdReset \/ SetScope \/ JitAllowed
           \/ \E l \in Pushes : set3DSCustomLayout(l)
    PROVE  SettledInv'
<1>1. CASE SetScope
  <2>1. steady' = FALSE
    BY <1>1 DEF SetScope
  <2> QED
    BY <2>1 DEF SettledInv
<1>2. CASE ColdReset
  <2>1. /\ file' = [file EXCEPT !["core"] = "nofile"]
        /\ UNCHANGED <<perGame, perCore, game, manager, optPath, steady>>
    BY <1>2 DEF ColdReset
  <2>2. file \in [Files -> Contents] /\ "core" \in Files /\ "dir" \in Files
        /\ game \in Games \cup {"none"}
    BY DEF OptionsInv, OptionsTypeOK, Files
  <2>3. /\ file'["core"] = "nofile"
        /\ \A x \in Files \ {"core"} : file'[x] = file[x]
    BY <2>1, <2>2
  <2>4. game # "none" => game \in Files \ {"core"} /\ manager.path \in Files
    BY <2>2, OptionGames DEF OptionsInv, HeldFor, Managers, Files
  <2> QED
    BY <2>1, <2>2, <2>3, <2>4 DEF SettledInv, Settled, Exists
<1>3. CASE JitAllowed \/ \E l \in Pushes : set3DSCustomLayout(l)
  <2>1. UNCHANGED <<file, perGame, perCore, game, manager, optPath, steady>>
    BY <1>3 DEF JitAllowed, set3DSCustomLayout, frontend
  <2> QED
    BY <2>1 DEF SettledInv, Settled, Exists
<1>4. CASE \/ \E v \in Choices : SetOption(v)
           \/ SetOtherOption \/ SetMode \/ core_options_reset
  <2>1. game # "none" /\ UNCHANGED <<file, perGame, perCore, game, optPath, steady>>
    BY <1>4 DEF SetOption, SetOtherOption, SetMode, core_options_reset
  <2>2. manager \in Managers
    BY <2>1 DEF OptionsInv, HeldFor
  <2>3. /\ manager'.path = manager.path /\ manager'.conf = manager.conf
        /\ manager'.dirty = manager.dirty \/ manager'.dirty = TRUE
    BY <1>4, <2>2 DEF SetOption, SetOtherOption, SetMode, core_options_reset, Managers
  <2> QED
    BY <2>1, <2>3 DEF SettledInv, Settled, Exists
<1> QED
  BY <1>1, <1>2, <1>3, <1>4

LEMMA FlushSettled ==
    ASSUME OptionsInv, SettledInv, core_options_flush PROVE SettledInv'
<1>1. /\ game # "none" /\ game \in Games /\ file \in [Files -> Contents]
      /\ manager \in Managers /\ PathOK(game, optPath, active)
      /\ file' = FlushedFiles
      /\ manager' = (IF optPath # "none" THEN manager
                     ELSE [Flushed(manager) EXCEPT !.dirty = FALSE])
      /\ UNCHANGED <<perGame, perCore, game, optPath, steady>>
  BY DEF core_options_flush, OptionsInv, OptionsTypeOK, HeldFor
<1>2. game \notin {"none", "dir", "core", "global"} /\ game \in Files /\ "dir" \in Files
  BY <1>1, OptionGames DEF Files
<1>3. SUFFICES ASSUME steady PROVE Settled(file', game, manager', optPath)
  BY <1>1 DEF SettledInv, Settled
<1>4. Settled(file, game, manager, optPath)
  BY <1>1, <1>3 DEF SettledInv
<1>5. CASE optPath # "none"
  <2>1. file' = [file EXCEPT ![optPath] = manager.index]
    BY <1>1, <1>5 DEF FlushedFiles, WriteOverride
  <2>2. optPath # game => file'[game] = file[game]
    BY <1>1, <1>2, <2>1
  <2> QED
    BY <1>4, <1>5, <2>2 DEF Settled, Exists
<1>6. CASE optPath = "none"
  <2> DEFINE path == IF perCore THEN "core" ELSE "global"
             m == FlushGuaranteed(manager)
             n == [Flushed(manager) EXCEPT !.dirty = FALSE]
  <2>1. manager.path = path /\ path \in Files /\ path # game /\ path # "dir"
    BY <1>2, <1>4, <1>6 DEF Settled, Files
  <2>2. /\ Flushed(manager) \in Managers /\ Flushed(manager).conf = manager.index
        /\ Flushed(manager).path = manager.path
    BY <1>1 DEF Flushed, Managers
  <2>3. /\ m.conf = manager.index
        /\ m.dirty = (Flushed(manager).dirty \/ ~Exists(file, manager.path))
    BY <2>2 DEF FlushGuaranteed, Managers
  <2>4. n.conf = manager.index /\ n.path = path
    BY <2>1, <2>2 DEF Managers
  <2>5. file' = (IF m.dirty THEN [file EXCEPT ![path] = manager.index] ELSE file)
    BY <1>1, <1>6, <2>1, <2>3 DEF FlushedFiles, Write
  <2>6. Flushed(manager).dirty = (manager.dirty \/ manager.conf # manager.index)
    BY <1>1 DEF Flushed, Managers
  <2>7. file'[path] = manager.index
    <3>1. CASE m.dirty
      BY <1>1, <2>1, <2>5, <3>1
    <3>2. CASE ~m.dirty
      BY <1>4, <1>6, <2>1, <2>3, <2>5, <2>6, <3>2 DEF Settled
    <3> QED
      BY <3>1, <3>2
  <2>8. file'[game] = file[game] /\ file'["dir"] = file["dir"]
    BY <1>1, <1>2, <2>1, <2>5
  <2>9. manager' = n
    BY <1>1, <1>6
  <2> HIDE DEF m, n
  <2>10. Settled(file', game, n, optPath)
    BY <1>2, <1>4, <1>6, <2>4, <2>7, <2>8 DEF Settled, Exists
  <2> QED
    BY <2>9, <2>10
<1> QED
  BY <1>5, <1>6

LEMMA CreateSettled ==
    ASSUME OptionsInv, SettledInv, NEW t \in BOOLEAN, core_options_create_override(t)
    PROVE  SettledInv'
<1> DEFINE path == IF t THEN game ELSE "dir"
<1>1. /\ game # "none" /\ game \in Games /\ file \in [Files -> Contents]
      /\ PathOK(game, optPath, active)
      /\ t \/ "game" \notin active
      /\ file' = [file EXCEPT ![path] = manager.index]
      /\ optPath' = path
      /\ UNCHANGED <<perGame, perCore, game, manager, steady>>
  BY DEF core_options_create_override, OptionsInv, OptionsTypeOK, HeldFor, WriteOverride
<1>2. game \notin {"none", "dir"} /\ game \in Files
  BY <1>1, OptionGames DEF Files
<1>3. SUFFICES ASSUME steady PROVE Settled(file', game, manager, path)
  BY <1>1 DEF SettledInv, Settled
<1>4. Settled(file, game, manager, optPath)
  BY <1>1, <1>3 DEF SettledInv
<1>5. ~t => optPath # game /\ file'[game] = file[game]
  <2>1. ~t => "game" \notin active
    BY <1>1
  <2>2. optPath = game => active # {} /\ active # {"folder"}
    BY <1>1, <1>2 DEF PathOK
  <2>3. active \in SUBSET {"game", "folder"}
    BY <1>1 DEF PathOK
  <2>4. optPath = game => "game" \in active
    BY <2>2, <2>3
  <2> QED
    BY <1>1, <1>2, <2>1, <2>4
<1> QED
  BY <1>2, <1>4, <1>5 DEF Settled, Exists

LEMMA RemoveSettled ==
    ASSUME OptionsInv, SettledInv, NEW t \in BOOLEAN, core_options_remove_override(t)
    PROVE  SettledInv'
<1> DEFINE left == [file EXCEPT ![optPath] = "nofile"]
           folder == t /\ Exists(left, "dir")
           parent == IF folder THEN "dir" ELSE IF perCore THEN "core" ELSE "global"
           found == Exists(left, parent)
           value == IF found /\ left[parent] \in Choices THEN left[parent]
                    ELSE manager.index
           conf == IF found THEN [conf |-> left[parent], dirty |-> FALSE]
                   ELSE [conf |-> manager.conf, dirty |-> manager.dirty]
           new == [index |-> value, path |-> parent, conf |-> conf.conf,
                   dirty |-> conf.dirty]
<1>1. /\ game # "none" /\ game \in Games /\ file \in [Files -> Contents]
      /\ PathOK(game, optPath, active) /\ active # {}
      /\ t => "game" \in active
      /\ MenuOffers(t)
      /\ file' = left
      /\ optPath' = (IF folder THEN "dir" ELSE "none")
      /\ manager' = (IF folder THEN [manager EXCEPT !.index = value] ELSE new)
      /\ UNCHANGED <<perGame, perCore, game, steady>>
  BY DEF core_options_remove_override, OptionsInv, OptionsTypeOK, HeldFor
<1>2. game \notin {"none", "dir", "core", "global"} /\ game \in Files /\ "dir" \in Files
  BY <1>1, OptionGames DEF Files
<1>3. SUFFICES ASSUME steady PROVE Settled(file', game, manager', optPath')
  BY <1>1 DEF SettledInv, Settled
<1>4. Settled(file, game, manager, optPath)
  BY <1>1, <1>3 DEF SettledInv
<1>5. IF t THEN optPath = game ELSE optPath = "dir"
  <2>1. (t <=> "game" \in active) /\ active \in SUBSET {"game", "folder"}
    BY <1>1 DEF MenuOffers, PathOK
  <2>2. t => active # {"folder"}
    BY <2>1
  <2>3. ~t => active = {"folder"}
    BY <1>1, <2>1
  <2> QED
    BY <1>1, <2>2, <2>3 DEF PathOK
<1>6. perGame => ~Exists(left, game)
  <2>1. CASE t
    <3>1. left[game] = "nofile"
      BY <1>1, <1>2, <1>5, <2>1
    <3> QED
      BY <3>1 DEF Exists
  <2>2. CASE ~t
    <3>1. left[game] = file[game] /\ optPath # game
      BY <1>1, <1>2, <1>5, <2>2
    <3> QED
      BY <1>4, <3>1 DEF Settled, Exists
  <2> QED
    BY <2>1, <2>2
<1>7. ~folder => ~Exists(left, "dir")
  <2>1. ~t => left["dir"] = "nofile"
    BY <1>1, <1>2, <1>5
  <2> QED
    BY <2>1 DEF Exists
<1>8. ~folder => parent = IF perCore THEN "core" ELSE "global"
  OBVIOUS
<1>9. new.path = parent /\ (Exists(left, parent) => new.conf = left[parent])
  OBVIOUS
<1> HIDE DEF left, folder, parent, found, value, conf, new
<1>10. CASE folder
  <2>1. optPath' = "dir"
    BY <1>1, <1>10
  <2> QED
    BY <1>1, <1>6, <2>1 DEF Settled
<1>11. CASE ~folder
  <2>1. optPath' = "none" /\ manager' = new
    BY <1>1, <1>11
  <2>2. Settled(left, game, new, "none")
    BY <1>6, <1>7, <1>8, <1>9, <1>11 DEF Settled
  <2> QED
    BY <1>1, <2>1, <2>2
<1> QED
  BY <1>10, <1>11

LEMMA NextSettled ==
    ASSUME OptionsInv, SettledInv, [StorageNext]_storageVars PROVE SettledInv'
<1>1. CASE UNCHANGED <<frontend, steady>>
  BY <1>1 DEF SettledInv, Settled, Exists, frontend
<1>2. ASSUME NEW g \in Games, NEW c \in BOOLEAN, NEW s \in BOOLEAN,
             NEW made \in CreateDir, LoadStored(g, c, s, made)
      PROVE  SettledInv'
  BY <1>2, LoadSettled DEF LoadStored
<1>3. ASSUME NEW s \in BOOLEAN, do_load_game(s)
      PROVE  SettledInv'
  BY <1>1, <1>3 DEF do_load_game
<1>4. ASSUME NEW made \in CreateDir, FrameStored(made)
      PROVE  SettledInv'
  <2>1. UNCHANGED <<frontend, steady>>
    BY <1>4 DEF FrameStored, retro_run, FrameUpdated, FrameSwapped
  <2> QED
    BY <1>1, <2>1
<1>5. CASE LibraryClosed \/ AppKilled
  <2>1. game' = "none"
    BY <1>5 DEF LibraryClosed, AppKilled, uninit_libretro_symbols, Killed
  <2> QED
    BY <2>1 DEF SettledInv
<1>6. CASE OptionEdits
  BY <1>6, MenuSettled, FlushSettled, CreateSettled, RemoveSettled DEF OptionEdits
<1>7. CASE PathAsked \/ ImportUpdate \/ UNCHANGED storageVars
  <2>1. UNCHANGED optionVars
    BY <1>7 DEF PathAsked, ImportUpdate, storageVars
  <2> QED
    BY <1>1, <2>1 DEF optionVars
<1> QED
  BY <1>2, <1>3, <1>4, <1>5, <1>6, <1>7 DEF StorageNext

LEMMA SettledInvariant == StorageSpec => []SettledInv
<1>1. StorageInit => SettledInv
  BY DEF StorageInit, OptionsInit, SettledInv
<1> QED
  BY <1>1, NextSettled, OptionsInvariant, PTL DEF StorageSpec

\* "We must *guarantee* that a file gets written": wherever core_options_flush is called,
\* the next registration of the game starts with the value in memory.
THEOREM FlushIsGuaranteed == StorageSpec => []FlushGuarantees
<1>1. OptionsInv /\ SettledInv => FlushGuarantees
  <2> SUFFICES ASSUME OptionsInv, SettledInv, game # "none", steady,
                      optPath # "none" => perGame
               PROVE  Effective(FlushedFiles, game) = manager.index
    BY DEF FlushGuarantees
  <2> DEFINE m == [manager EXCEPT !.dirty = @ \/ ~Exists(file, manager.path)]
  <2>1. /\ game \in Games /\ file \in [Files -> Contents] /\ manager \in Managers
        /\ optPath \in {"none", "dir", game}
    BY DEF OptionsInv, OptionsTypeOK, HeldFor, PathOK
  <2>2. /\ m \in Managers /\ m.index = manager.index /\ m.path = manager.path
        /\ m.conf = manager.conf
        /\ m.dirty = (manager.dirty \/ ~Exists(file, manager.path))
    BY <2>1 DEF Managers, Exists
  <2>3. Settled(file, game, m, optPath)
    <3>1. Settled(file, game, manager, optPath)
      BY DEF SettledInv
    <3> HIDE DEF m
    <3> QED
      BY <2>2, <3>1 DEF Settled
  <2>4. FlushedFiles = runloop_deinit_core_options(file, m, optPath)
    <3>1. CASE optPath # "none"
      <4> HIDE DEF m
      <4> QED
        BY <2>2, <3>1 DEF FlushedFiles, runloop_deinit_core_options, WriteOverride
    <3>2. CASE optPath = "none"
      <4>1. /\ FlushGuaranteed(manager).conf = manager.index
            /\ FlushGuaranteed(manager).dirty
                 = ((manager.dirty \/ manager.conf # manager.index)
                      \/ ~Exists(file, manager.path))
        BY <2>1 DEF FlushGuaranteed, Flushed, Managers
      <4>2. Flushed(m).conf = m.index /\ Flushed(m).dirty = (m.dirty \/ m.conf # m.index)
        <5> HIDE DEF m
        <5> QED
          BY <2>2 DEF Flushed, Managers
      <4> HIDE DEF m
      <4>3. Flushed(m).dirty <=> FlushGuaranteed(manager).dirty
        BY <2>2, <4>1, <4>2
      <4> QED
        BY <2>2, <3>2, <4>1, <4>2, <4>3
        DEF FlushedFiles, runloop_deinit_core_options, Write
    <3> QED
      BY <3>1, <3>2
  <2>5. Exists(file, m.path) \/ Flushed(m).dirty
    <3> HIDE DEF m
    <3>1. Flushed(m).dirty = (m.dirty \/ m.conf # m.index)
      BY <2>2 DEF Flushed, Managers
    <3> QED
      BY <2>2, <3>1
  <2> HIDE DEF m
  <2>6. Effective(runloop_deinit_core_options(file, m, optPath), game) = m.index
    BY <2>1, <2>2, <2>3, <2>5, SavedIsEffective
  <2> QED
    BY <2>2, <2>4, <2>6
<1> QED
  BY <1>1, OptionsInvariant, SettledInvariant, PTL

\* An option that a game runs with is the one it starts with next time, through the saving
\* at the unload, the choice among four files and both registrations of the core.
THEOREM OptionsReturn == StorageSpec => OptionReturns
<1>1. OptionsInv /\ SettledInv /\ [StorageNext]_storageVars =>
        [uninit_libretro_symbols /\ steady /\ ~Orphan /\ (optPath # "none" => perGame)
           => Effective(file', game) = manager.index]_optionVars
  <2> SUFFICES ASSUME OptionsInv, SettledInv, uninit_libretro_symbols, steady, ~Orphan,
                      optPath # "none" => perGame
               PROVE  Effective(file', game) = manager.index
    OBVIOUS
  <2>1. game # "none" /\ file' = runloop_deinit_core_options(file, manager, optPath)
    BY DEF uninit_libretro_symbols
  <2>2. /\ game \in Games /\ file \in [Files -> Contents] /\ manager \in Managers
        /\ optPath \in {"none", "dir", game}
    BY <2>1 DEF OptionsInv, OptionsTypeOK, HeldFor, PathOK
  <2>3. optPath = "none" => Exists(file, manager.path) \/ Flushed(manager).dirty
    BY DEF Orphan
  <2>4. Settled(file, game, manager, optPath)
    BY <2>1 DEF SettledInv
  <2> QED
    BY <2>1, <2>2, <2>3, <2>4, SavedIsEffective
<1>2. OptionsInv /\ SettledInv /\ [StorageNext]_storageVars =>
        [\A g \in Games, s \in BOOLEAN :
           LoadGame(g, FALSE, s) => manager'.index = Effective(file, g)]_optionVars
  <2> SUFFICES ASSUME OptionsInv, NEW g \in Games, NEW s \in BOOLEAN, LoadGame(g, FALSE, s)
               PROVE  manager'.index = Effective(file, g)
    OBVIOUS
  <2>1. game = "none" /\ manager' = RegisterCoreOptions(g, FALSE).manager
    BY DEF LoadGame
  <2> QED
    BY <2>1, TwiceIsOnce
<1> QED
  BY <1>1, <1>2, OptionsInvariant, SettledInvariant, PTL
  DEF StorageSpec, OptionReturns, SavedOptionReturns, RegistersOnce
===============================================================================
