-------------------------- MODULE ConfigurationProof --------------------------
(***************************************************************************)
(* Proofs about the settings and the files they are read from and written  *)
(* to: for any number of contents and of changes from outside, what        *)
(* override and remap files bring is gone with them, the main file keeps   *)
(* its own values, and a saved setting comes back.                         *)
(***************************************************************************)
EXTENDS Configuration, TLAPS

-------------------------------------------------------------------------------
(* The tables. *)

\* What the proofs need to know of the entries: only a key that is read is
\* compared, and binds and the keys of remap files are read.
KeysOK(k) ==
    /\ k.cmp => k.read
    /\ k.as \in {"bind", "pad", "turbo"} => k.read

\* The tables of configuration.c agree with it.
LEMMA TablesAgree == \A k \in Keys : KeysOK(k)
<1>1. \A k \in BoolKeys : KeysOK(k)
  BY DEF Entry, BoolKeys, KeysOK
<1>2. \A k \in IntKeys : KeysOK(k)
  BY DEF Entry, IntKeys, KeysOK
<1>3. \A k \in UintKeys : KeysOK(k)
  BY DEF Entry, UintKeys, KeysOK
<1>4. \A k \in FloatKeys : KeysOK(k)
  BY DEF Entry, FloatKeys, KeysOK
<1>5. \A k \in SizeKeys : KeysOK(k)
  BY DEF Entry, SizeKeys, KeysOK
<1>6. \A k \in ArrayKeys : KeysOK(k)
  BY DEF Entry, ArrayKeys, KeysOK
<1>7. \A k \in PathKeys : KeysOK(k)
  BY DEF Entry, PathKeys, KeysOK
<1>8. \A k \in SaveDirKeys : KeysOK(k)
  BY DEF Entry, SaveDirKeys, KeysOK
<1>9. \A k \in LimitedKeys : KeysOK(k)
  BY DEF Entry, LimitedKeys, KeysOK
<1>10. \A k \in LedKeys : KeysOK(k)
  BY DEF Entry, LedKeys, KeysOK
<1>11. \A k \in PadKeys : KeysOK(k)
  BY DEF Entry, PadKeys, KeysOK
<1>12. \A k \in TurboKeys : KeysOK(k)
  BY DEF Entry, TurboKeys, KeysOK
<1>13. \A k \in BindKeys : KeysOK(k)
  BY DEF Entry, BindKeys, KeysOK
<1> QED
  BY <1>1, <1>2, <1>3, <1>4, <1>5, <1>6, <1>7, <1>8, <1>9, <1>10, <1>11, <1>12, <1>13
     DEF Keys

-------------------------------------------------------------------------------
(* What loading can bring. *)

\* The values that have to be gone once their file is.
Foreign == Layers \cup {"remap"}

\* The values of files are no words of the module, and what they become on the
\* way through a file is foreign only if they are.
LEMMA ForeignIsKept ==
  ASSUME NEW value \in FileValues
  PROVE  /\ Directory(value) \in FileValues \ {"word"}
         /\ value \in Values => Directory(value) = value
         /\ Says(value) => Says(Directory(value))
         /\ Directory(value) \in Foreign => Directory(value) = value
         /\ Sane(Directory(value)) \in FileValues
         /\ Says(value) => Sane(Directory(value)) \in Values
         /\ Sane(Directory(value)) \in Foreign => Sane(Directory(value)) = value
  BY GamesAssumption
     DEF Directory, Sane, InRange, Megabytes, FileValues, Values, Foreign, Layers, Says, Words

\* config_load_file brings what conf says where the key is read, and what was
\* there before where it is not; nothing else of it is foreign.
LEMMA LoadBrings ==
  ASSUME NEW current \in Values, NEW conf \in FileValues
  PROVE  /\ config_load_file(current, conf) \in Values
         /\ config_load_file(current, conf) \in Foreign =>
              config_load_file(current, conf) = IF key.read /\ Says(conf) THEN conf ELSE current
<1>1. "unset" \in Values /\ Values \subseteq FileValues
  BY DEF Values, FileValues
<1>2. \A v \in Values : Says(v)
  BY GamesAssumption DEF Values, Says, Layers, Words
<1>3. "unset" \notin Foreign
  BY GamesAssumption DEF Foreign, Layers, Words
<1>4. CASE key.read /\ Says(conf)
  BY <1>4, ForeignIsKept DEF config_load_file
<1>5. CASE ~(key.read /\ Says(conf))
  <2> DEFINE kept == IF key.as = "led" THEN "unset" ELSE current
  <2>1. kept \in Values /\ kept \in FileValues /\ Says(kept)
    BY <1>1, <1>2
  <2>2. config_load_file(current, conf) = Sane(Directory(kept))
    BY <1>5 DEF config_load_file
  <2>3. kept \in Foreign => kept = current
    BY <1>3
  <2> HIDE DEF kept
  <2>4. /\ Sane(Directory(kept)) \in Values
        /\ Sane(Directory(kept)) \in Foreign => Sane(Directory(kept)) = kept
    BY <2>1, ForeignIsKept
  <2> QED
    BY <2>2, <2>3, <2>4, <1>5
<1> QED
  BY <1>4, <1>5


\* The files that are appended add what one of them says, or nothing.
LEMMA AppendedBrings ==
  ASSUME NEW conf \in FileValues, NEW path \in SUBSET Layers,
         over \in [Layers -> FileValues]
  PROVE  /\ Appended(conf, path) \in FileValues
         /\ Appended(conf, path) = conf \/ \E l \in Layers : Appended(conf, path) = over[l]
         /\ path = {} => Appended(conf, path) = conf
<1> DEFINE speaks == {l \in path : Says(over[l])}
           chosen == CHOOSE g \in speaks \cap Games : TRUE
           top == IF speaks \cap Games # {} THEN chosen
                  ELSE IF "dir" \in speaks THEN "dir" ELSE "core"
<1>1. speaks \cap Games # {} => chosen \in Games
  OBVIOUS
<1>2. top \in Layers
  BY <1>1 DEF Layers
<1>3. Appended(conf, path) = IF speaks = {} THEN conf ELSE over[top]
  BY DEF Appended
<1>4. path = {} => speaks = {}
  OBVIOUS
<1> HIDE DEF speaks, top
<1> QED
  BY <1>2, <1>3, <1>4

\* A reload brings a value; where no override is left it is the one of the main
\* file, and nothing at all if there is no such file.
LEMMA ReloadBrings ==
  ASSUME NEW current \in Values, NEW path \in SUBSET Layers,
         main \in FileValues, over \in [Layers -> FileValues]
  PROVE  /\ Reloaded(current, path) \in Values
         /\ Reloaded(current, path) \in Foreign =>
              \/ Reloaded(current, path) = current
              \/ /\ key.read /\ main # "nofile"
                 /\ \/ Reloaded(current, path) = main
                    \/ \E l \in Layers : Reloaded(current, path) = over[l]
         /\ Reloaded(current, {}) \in Foreign =>
              Reloaded(current, {}) = IF key.read /\ Says(main) THEN main ELSE current
<1>1. CASE main = "nofile"
  BY <1>1 DEF Reloaded, Says
<1>2. CASE main # "nofile"
  <2>1. \A p \in SUBSET Layers :
          /\ Appended(main, p) \in FileValues
          /\ Appended(main, p) = main \/ \E l \in Layers : Appended(main, p) = over[l]
          /\ p = {} => Appended(main, p) = main
    BY AppendedBrings
  <2>2. \A p \in SUBSET Layers : Reloaded(current, p) = config_load_file(current, Appended(main, p))
    BY <1>2 DEF Reloaded
  <2>3. \A c \in FileValues :
          /\ config_load_file(current, c) \in Values
          /\ config_load_file(current, c) \in Foreign =>
               config_load_file(current, c) = IF key.read /\ Says(c) THEN c ELSE current
    BY LoadBrings
  <2>4. Reloaded(current, path) \in Foreign =>
          Reloaded(current, path) \in {current, Appended(main, path)}
    BY <2>1, <2>2, <2>3
  <2>5. Reloaded(current, path) \in Foreign /\ Reloaded(current, path) # current => key.read
    BY <2>1, <2>2, <2>3
  <2>6. Reloaded(current, {}) = config_load_file(current, main)
    BY <2>1, <2>2
  <2>7. Reloaded(current, path) \in Values
    BY <2>1, <2>2, <2>3
  <2>8. Reloaded(current, {}) \in Foreign =>
          Reloaded(current, {}) = IF key.read /\ Says(main) THEN main ELSE current
    BY <2>6, <2>3
  <2> QED
    BY <1>2, <2>1, <2>4, <2>5, <2>7, <2>8
<1> QED
  BY <1>1, <1>2

\* At the start the main file says what it says, and the rest is not foreign.
LEMMA StartBrings ==
  ASSUME NEW conf \in FileValues
  PROVE  /\ config_set_defaults \in Values \ Foreign
         /\ config_load_file(config_set_defaults, conf) \in Values
         /\ config_load_file(config_set_defaults, conf) \in Foreign =>
              /\ key.read
              /\ config_load_file(config_set_defaults, conf) = conf
<1>1. config_set_defaults \in Values \ Foreign
  BY GamesAssumption DEF config_set_defaults, Values, Foreign, Layers, Words
<1>2. /\ config_load_file(config_set_defaults, conf) \in Values
      /\ config_load_file(config_set_defaults, conf) \in Foreign =>
           config_load_file(config_set_defaults, conf)
             = IF key.read /\ Says(conf) THEN conf ELSE config_set_defaults
  BY <1>1, LoadBrings
<1> QED
  BY <1>1, <1>2

-------------------------------------------------------------------------------
(* The invariant. *)

\* What is not read from a file cannot come from an override.
ReadBrings == ~key.read => setting \notin Layers

\* The values of a remap file are in effect only while its core runs and the
\* global value is kept for the end of it.
RemapKnown ==
    /\ Global => ~cached /\ remapFile = "none"
    /\ ~spread => /\ main # "remap" /\ cache # "remap"
                  /\ \A l \in Layers : over[l] # "remap"
                  /\ setting = "remap" => cached /\ remapFile # "none" /\ game # "none"

\* A remap file holds a value.
RemapFiles == \A l \in Layers : remap[l] \in Values \cup {"nofile"}

ConfigInv == ConfigTypeOK /\ OverrideEnds /\ ReadBrings /\ RemapKnown /\ RemapFiles

-------------------------------------------------------------------------------
(* Its proof. *)

\* How the words and the layers differ.
LEMMA WordsDiffer ==
  /\ Layers \subseteq Values /\ Values \subseteq FileValues
  /\ {"zero", "small", "big", "wild", "limit", "unset", "default", "user"}
       \subseteq Values \ Foreign
  /\ "remap" \in Values \ Layers
  /\ {"nofile", "absent", "word"} \subseteq FileValues \ (Values \cup Foreign)
  /\ {"none", "bare"} \cap Layers = {}
  /\ {"none", "bare"} \cap Games = {}
  /\ "core" \in Layers /\ "dir" \in Layers /\ Games \subseteq Layers
  /\ \A v \in Values : Says(v)
  BY GamesAssumption DEF Values, FileValues, Foreign, Layers, Words, Says

\* The files that are looked for belong to layers.
LEMMA VisibleLayers ==
  ASSUME NEW g \in Games \cup {"none", "bare"}
  PROVE  Visible(g) \subseteq Layers
  BY WordsDiffer DEF Visible, Layers

\* So does the remap file that is chosen; a core without files gets none.
LEMMA RemapChosen ==
  ASSUME NEW g \in Games \cup {"bare"}
  PROVE  config_load_remap(g) \in Layers \cup {"none"}
<1>1. Existing(remap, g) \subseteq Layers
  BY VisibleLayers DEF Existing
<1> QED
  BY <1>1, WordsDiffer DEF config_load_remap

\* What a remap file gives is a value.
LEMMA RemapGives ==
  ASSUME NEW value \in Values, NEW layer \in Layers, RemapFiles
  PROVE  input_remapping_load_file(value, layer) \in Values
  BY DEF input_remapping_load_file, Says, RemapFiles

\* The start satisfies the invariant.
LEMMA ConfigStarts == ConfigInit => ConfigInv
<1> SUFFICES ASSUME ConfigInit PROVE ConfigInv
  OBVIOUS
<1>1. main \in FileValues /\ main # "remap" /\ main \notin Layers
  BY WordsDiffer DEF ConfigInit, Foreign
<1>2. setting \in Values /\ setting \notin Foreign
  BY <1>1, StartBrings DEF ConfigInit, Foreign
<1>3. over \in [Layers -> FileValues] /\ \A l \in Layers : over[l] # "remap"
  <2>1. over \in [Layers -> {"nofile"} \cup Origins] /\ \A l \in Layers : over[l] \in {"nofile", l}
    BY DEF ConfigInit
  <2> QED
    BY <2>1, WordsDiffer
<1>4. remap \in [Layers -> FileValues] /\ RemapFiles
  <2>1. remap \in [Layers -> {"nofile", "remap"}]
    BY DEF ConfigInit
  <2> QED
    BY <2>1, WordsDiffer DEF RemapFiles
<1>5. ConfigTypeOK
  <2>1. edits \in 0 .. MaxEdits
    BY MaxEditsAssumption DEF ConfigInit
  <2>2. cache \in Values /\ overPath \in SUBSET Layers
    BY WordsDiffer DEF ConfigInit
  <2> QED
    BY <1>1, <1>2, <1>3, <1>4, <2>1, <2>2 DEF ConfigInit, ConfigTypeOK
<1>6. OverrideEnds /\ ReadBrings
  BY <1>2 DEF OverrideEnds, ReadBrings, Foreign
<1>7. RemapKnown
  BY <1>1, <1>2, <1>3 DEF RemapKnown, ConfigInit, Foreign
<1> QED
  BY <1>4, <1>5, <1>6, <1>7 DEF ConfigInv

\* A restart keeps the files and forgets the rest.
LEMMA RestartKeeps == ConfigInv /\ Restart => ConfigInv'
<1> SUFFICES ASSUME ConfigInv, Restart PROVE ConfigInv'
  OBVIOUS
<1> USE DEF ConfigInv
<1>1. /\ setting' \in Values
      /\ setting' \in Foreign => key.read /\ setting' = main /\ main # "nofile"
  BY StartBrings DEF Restart, ConfigTypeOK
<1>2. main' = main \/ (main = "nofile" /\ main' = "absent")
  BY DEF Restart
<1>3. ConfigTypeOK'
  BY <1>1, <1>2, WordsDiffer DEF Restart, ConfigTypeOK
<1>4. OverrideEnds' /\ ReadBrings'
  BY <1>1, <1>2 DEF OverrideEnds, ReadBrings, Foreign, Restart
<1>5. RemapKnown' /\ RemapFiles'
  BY <1>1, <1>2 DEF RemapKnown, RemapFiles, Foreign, Restart, Global, Remapped
<1> QED
  BY <1>3, <1>4, <1>5

\* Changes from outside bring nothing foreign.
LEMMA OutsideKeeps ==
  ConfigInv /\ (MainLost \/ \E v \in {"user", "zero", "small", "wild"} : config_set_runtime_value(v))
    => ConfigInv'
<1> USE DEF ConfigInv
<1>1. ASSUME ConfigInv, MainLost PROVE ConfigInv'
  <2>1. ConfigTypeOK'
    BY <1>1, WordsDiffer, MaxEditsAssumption DEF MainLost, ConfigTypeOK, memory
  <2>2. OverrideEnds' /\ ReadBrings'
    BY <1>1 DEF OverrideEnds, ReadBrings, MainLost, memory
  <2>3. RemapKnown' /\ RemapFiles'
    BY <1>1 DEF RemapKnown, RemapFiles, MainLost, memory, Global, Remapped
  <2> QED
    BY <2>1, <2>2, <2>3
<1>2. ASSUME ConfigInv, NEW v \in {"user", "zero", "small", "wild"}, config_set_runtime_value(v)
      PROVE  ConfigInv'
  <2>1. setting' \in Values /\ setting' \notin Foreign
    BY <1>2, WordsDiffer DEF config_set_runtime_value
  <2>2. ConfigTypeOK'
    BY <1>2, <2>1, MaxEditsAssumption DEF config_set_runtime_value, ConfigTypeOK, files
  <2>3. OverrideEnds' /\ ReadBrings'
    BY <1>2, <2>1 DEF OverrideEnds, ReadBrings, config_set_runtime_value, Foreign
  <2>4. RemapKnown' /\ RemapFiles'
    BY <1>2, <2>1 DEF RemapKnown, RemapFiles, config_set_runtime_value, Foreign, files, Global,
               Remapped
  <2> QED
    BY <2>2, <2>3, <2>4
<1> QED
  BY <1>1, <1>2

\* The remap files of the menu: what they bring, the cached value ends.
LEMMA RemapsKeep ==
  ASSUME ConfigInv, NEW l \in Layers, LoadRemap(l) \/ input_remapping_save_file(l)
  PROVE  ConfigInv'
<1> USE DEF ConfigInv
<1>1. Remapped /\ key.read /\ ~Global /\ game # "none" /\ l # "none"
  BY TablesAgree, WordsDiffer
     DEF LoadRemap, input_remapping_save_file, ConfigTypeOK, KeysOK, Global, Remapped
<1>2. CASE LoadRemap(l)
  <2>1. input_remapping_set_defaults(setting) \in Values
    BY DEF input_remapping_set_defaults, ConfigTypeOK
  <2>2. setting' \in Values
    BY <1>2, <2>1, RemapGives DEF LoadRemap
  <2>3. ConfigTypeOK'
    BY <1>2, <2>2 DEF LoadRemap, ConfigTypeOK, files
  <2>4. OverrideEnds' /\ ReadBrings'
    BY <1>1, <1>2 DEF OverrideEnds, ReadBrings, LoadRemap, Global, Remapped
  <2>5. RemapKnown' /\ RemapFiles'
    BY <1>1, <1>2 DEF RemapKnown, RemapFiles, LoadRemap, files, Global, Remapped
  <2> QED
    BY <2>3, <2>4, <2>5
<1>3. CASE input_remapping_save_file(l)
  <2>1. remap' = [remap EXCEPT ![l] = setting]
    BY <1>3 DEF input_remapping_save_file
  <2>2. ConfigTypeOK'
    BY <1>3, <2>1, WordsDiffer, MaxEditsAssumption DEF input_remapping_save_file, ConfigTypeOK
  <2>3. OverrideEnds' /\ ReadBrings'
    BY <1>1, <1>3 DEF OverrideEnds, ReadBrings, input_remapping_save_file, Global, Remapped
  <2>4. RemapKnown'
    BY <1>1, <1>3 DEF RemapKnown, input_remapping_save_file, Global, Remapped
  <2>5. RemapFiles'
    BY <2>1 DEF RemapFiles, ConfigTypeOK
  <2> QED
    BY <2>2, <2>3, <2>4, <2>5
<1> QED
  BY <1>2, <1>3

\* A core is loaded: overrides first, then the remap file of the content.
LEMMA LoadKeeps ==
  ASSUME ConfigInv, NEW g \in Games \cup {"bare"}, NEW o \in BOOLEAN, NEW r \in BOOLEAN,
         runloop_event_init_core(g, o, r)
  PROVE  ConfigInv'
<1> DEFINE path == IF o THEN Existing(over, g) ELSE overPath
           reload == o /\ path # {}
           loaded == IF reload THEN Reloaded(setting, path) ELSE setting
           file == IF r /\ Remapped THEN config_load_remap(g) ELSE "none"
<1> USE DEF ConfigInv
<1>1. /\ game = "none" /\ game' = g
      /\ overPath' = path
      /\ active' = (active \/ (reload /\ main # "nofile"))
      /\ held' = IF reload THEN Held ELSE held
      /\ setting' = IF file = "none" THEN loaded ELSE input_remapping_load_file(loaded, file)
      /\ cache' = IF Remapped THEN loaded ELSE cache
      /\ remapFile' = file
      /\ cached' = Remapped
      /\ UNCHANGED <<key, files, edits, spread>>
  BY DEF runloop_event_init_core, input_remapping_cache_global_config
<1>2. path \in SUBSET Layers
  BY VisibleLayers DEF Existing, ConfigTypeOK
<1>3. file \in Layers \cup {"none"} /\ (Global => file = "none")
  BY RemapChosen DEF Global, Remapped
<1>4. /\ loaded \in Values
      /\ loaded \in Foreign =>
           \/ loaded = setting
           \/ /\ reload /\ key.read /\ main # "nofile"
              /\ loaded = main \/ \E l \in Layers : loaded = over[l]
  BY <1>2, ReloadBrings DEF ConfigTypeOK
<1>5. reload \in BOOLEAN
  OBVIOUS
<1> HIDE DEF path, reload, loaded, file
<1>6. setting' \in Values
  <2>1. CASE file = "none"
    BY <2>1, <1>1, <1>4
  <2>2. CASE file # "none"
    BY <2>2, <1>1, <1>3, <1>4, RemapGives
  <2> QED
    BY <2>1, <2>2
<1>7. held' \in BOOLEAN
  BY <1>1 DEF Held, ConfigTypeOK
<1>8. ConfigTypeOK'
  <2>1. game' \in Games \cup {"none", "bare"}
    BY <1>1
  <2>2. cache' \in Values
    BY <1>1, <1>4 DEF ConfigTypeOK
  <2>3. active' \in BOOLEAN /\ cached' \in BOOLEAN
    BY <1>1 DEF Remapped
  <2>4. remapFile' \in Layers \cup {"none"} /\ overPath' \in SUBSET Layers
    BY <1>1, <1>2, <1>3
  <2> QED
    BY <1>1, <1>6, <1>7, <2>1, <2>2, <2>3, <2>4 DEF ConfigTypeOK, files
<1>9. OverrideEnds'
  <2> SUFFICES ASSUME Global, ~active', setting' \in Layers
               PROVE  main' \in {"nofile", "absent", setting'} \/ ~key'.save
    BY <1>1 DEF OverrideEnds, Global, Remapped
  <2>1. setting' = loaded /\ ~active /\ ~(reload /\ main # "nofile")
    BY <1>1, <1>3
  <2>2. setting' = setting
    BY <2>1, <1>4 DEF Foreign
  <2> QED
    BY <1>1, <2>1, <2>2 DEF OverrideEnds, files
<1>10. ReadBrings'
  <2> SUFFICES ASSUME ~key.read PROVE setting' \notin Layers
    BY <1>1 DEF ReadBrings
  <2>1. file = "none"
    BY <1>3, TablesAgree DEF KeysOK, ConfigTypeOK, Global, Remapped
  <2> QED
    BY <1>1, <1>4, <2>1 DEF ReadBrings, Foreign
<1>11. RemapKnown'
  <2>1. ~spread => loaded # "remap"
    BY <1>1, <1>4 DEF RemapKnown, Foreign
  <2>2. Global' => ~cached' /\ remapFile' = "none"
    BY <1>1, <1>3 DEF Global, Remapped
  <2>3. setting' = "remap" => loaded = "remap" \/ (file # "none" /\ cached')
    BY <1>1, <1>3 DEF Global, Remapped
  <2>4. game' # "none"
    BY <1>1, WordsDiffer
  <2> QED
    BY <1>1, <2>1, <2>2, <2>3, <2>4 DEF RemapKnown, files
<1>12. RemapFiles'
  BY <1>1 DEF RemapFiles, files
<1> QED
  BY <1>8, <1>9, <1>10, <1>11, <1>12

\* Without overrides only the main file speaks.
LEMMA UnloadBrings ==
  ASSUME ConfigInv, NEW value \in Values, config_unload_override(value)
  PROVE  /\ setting' \in Values /\ held' \in BOOLEAN /\ active' = FALSE /\ overPath' = {}
         /\ setting' \in Foreign =>
              setting' = IF key.read /\ Says(main) THEN main ELSE value
<1>1. setting' = Reloaded(value, {}) /\ active' = FALSE /\ overPath' = {} /\ held' = Held
  BY DEF config_unload_override
<1>2. held' \in BOOLEAN
  BY <1>1 DEF Held
<1> QED
  BY <1>1, <1>2, ReloadBrings DEF ConfigInv, ConfigTypeOK

\* So no layer is in effect but the one the main file names.
LEMMA UnloadEnds ==
  ASSUME ConfigInv, NEW value \in Values, config_unload_override(value),
         value \in Layers => key.read,
         UNCHANGED <<key, main>>
  PROVE  OverrideEnds' /\ ReadBrings'
<1>1. setting' \in Layers => key.read /\ (Says(main) => setting' = main)
  BY UnloadBrings DEF Foreign
<1>2. ~Says(main) => main \in {"nofile", "absent"}
  BY DEF Says
<1> QED
  BY <1>1, <1>2 DEF OverrideEnds, ReadBrings

\* The core goes: the value kept for the end of the remap file comes back, then
\* the overrides are unloaded.
LEMMA UnloadKeeps ==
  ASSUME ConfigInv, NEW save \in BOOLEAN, runloop_event_deinit_core(save)
  PROVE  ConfigInv'
<1> DEFINE mapped == remapFile # "none"
           globals == IF mapped THEN {input_remapping_set_defaults(setting)}
                      ELSE input_remapping_restore_global_config(setting)
<1> USE DEF ConfigInv
<1>0. PICK restored \in globals :
        IF active THEN config_unload_override(restored)
                  ELSE setting' = restored /\ UNCHANGED <<overPath, active, held>>
  BY DEF runloop_event_deinit_core
<1>1. /\ game # "none" /\ game' = "none"
      /\ save => mapped /\ edits < MaxEdits
      /\ remap' = IF save THEN [remap EXCEPT ![remapFile] = setting] ELSE remap
      /\ edits' = IF save THEN edits + 1 ELSE edits
      /\ remapFile' = "none" /\ cached' = FALSE /\ cache' = "zero"
      /\ UNCHANGED <<key, main, over, spread>>
  BY DEF runloop_event_deinit_core
<1>2. restored = setting \/ restored = cache
  BY DEF input_remapping_set_defaults, input_remapping_restore_global_config
<1>3. ~cached => restored = setting
  BY DEF input_remapping_set_defaults, input_remapping_restore_global_config
<1>4. cached /\ mapped => restored = cache
  BY DEF input_remapping_set_defaults
<1>5. restored \in Values
  BY <1>2 DEF ConfigTypeOK
<1>6. restored \in Layers => key.read
  <2>1. CASE Global
    BY <2>1, <1>3 DEF RemapKnown, ReadBrings
  <2>2. CASE ~Global
    BY <2>2, TablesAgree DEF Global, Remapped, KeysOK, ConfigTypeOK
  <2> QED
    BY <2>1, <2>2
<1>7. ~spread => restored # "remap"
  BY <1>2, <1>4 DEF RemapKnown
<1>8. Global => restored = setting
  BY <1>3 DEF RemapKnown
<1> HIDE DEF globals
<1>9. /\ setting' \in Values /\ held' \in BOOLEAN /\ active' \in BOOLEAN
      /\ overPath' \in SUBSET Layers
      /\ setting' = "remap" => restored = "remap" \/ main = "remap"
  <2>1. CASE active
    <3>1. config_unload_override(restored)
      BY <1>0, <2>1
    <3> QED
      BY <3>1, <1>5, UnloadBrings DEF Foreign
  <2>2. CASE ~active
    BY <1>0, <1>5, <2>2 DEF ConfigTypeOK
  <2> QED
    BY <2>1, <2>2 DEF ConfigTypeOK
<1>10. ConfigTypeOK' /\ RemapFiles'
  <2>1. CASE save
    <3>1. remapFile \in Layers
      BY <1>1, <2>1 DEF ConfigTypeOK
    <3>2. remap' \in [Layers -> FileValues] /\ RemapFiles'
      BY <1>1, <2>1, <3>1, WordsDiffer DEF RemapFiles, ConfigTypeOK
    <3>3. edits' \in 0 .. MaxEdits
      BY <1>1, <2>1, MaxEditsAssumption DEF ConfigTypeOK
    <3> QED
      BY <1>1, <1>9, <3>2, <3>3, WordsDiffer DEF ConfigTypeOK
  <2>2. CASE ~save
    BY <1>1, <1>9, <2>2, WordsDiffer DEF ConfigTypeOK, RemapFiles
  <2> QED
    BY <2>1, <2>2
<1>11. OverrideEnds' /\ ReadBrings'
  <2>1. CASE active
    <3>1. config_unload_override(restored)
      BY <1>0, <2>1
    <3> QED
      BY <3>1, <1>1, <1>5, <1>6, UnloadEnds
  <2>2. CASE ~active
    BY <2>2, <1>0, <1>1, <1>6, <1>8 DEF OverrideEnds, ReadBrings, Global, Remapped
  <2> QED
    BY <2>1, <2>2 DEF ConfigTypeOK
<1>12. RemapKnown'
  <2>1. ~spread => setting' # "remap"
    BY <1>7, <1>9 DEF RemapKnown
  <2>2. "zero" # "remap"
    BY WordsDiffer DEF Foreign
  <2> QED
    BY <1>1, <2>1, <2>2 DEF RemapKnown, Global, Remapped
<1> QED
  BY <1>10, <1>11, <1>12

\* The menu unloads the overrides, the core stays.
LEMMA MenuUnloadKeeps == ConfigInv /\ MenuUnload => ConfigInv'
<1> SUFFICES ASSUME ConfigInv, MenuUnload PROVE ConfigInv'
  OBVIOUS
<1> USE DEF ConfigInv
<1>1. config_unload_override(setting) /\ setting \in Values
  BY DEF MenuUnload, ConfigTypeOK
<1>2. UNCHANGED <<key, game, remapFile, cache, cached, files, edits, spread>>
  BY DEF MenuUnload
<1>3. /\ setting' \in Values /\ held' \in BOOLEAN /\ active' = FALSE /\ overPath' = {}
      /\ setting' = "remap" => setting = "remap" \/ main = "remap"
  BY <1>1, UnloadBrings DEF Foreign
<1>4. ConfigTypeOK'
  BY <1>2, <1>3 DEF ConfigTypeOK, files
<1>5. OverrideEnds' /\ ReadBrings'
  BY <1>1, <1>2, UnloadEnds DEF ReadBrings, files
<1>6. RemapKnown' /\ RemapFiles'
  BY <1>2, <1>3 DEF RemapKnown, RemapFiles, files, Global, Remapped
<1> QED
  BY <1>4, <1>5, <1>6

\* The menu loads an override file: it is active, or there is no main file.
LEMMA OverrideFileKeeps ==
  ASSUME ConfigInv, NEW l \in Layers, config_load_override_file(l)
  PROVE  ConfigInv'
<1> USE DEF ConfigInv
<1>1. UNCHANGED <<key, game, remapFile, cache, cached, files, edits, spread>>
  BY DEF config_load_override_file
<1>2. CASE over[l] = "nofile" /\ overPath' = {} /\ UNCHANGED <<setting, active, held>>
  <2>1. ConfigTypeOK'
    BY <1>1, <1>2 DEF ConfigTypeOK, files
  <2>2. OverrideEnds' /\ ReadBrings' /\ RemapKnown' /\ RemapFiles'
    BY <1>1, <1>2 DEF OverrideEnds, ReadBrings, RemapKnown, RemapFiles, files, Global, Remapped
  <2> QED
    BY <2>1, <2>2
<1>3. CASE /\ overPath' = {l} /\ setting' = Reloaded(setting, {l})
           /\ active' = (active \/ main # "nofile") /\ held' = Held
  <2>1. /\ setting' \in Values
        /\ setting' \in Foreign =>
             \/ setting' = setting
             \/ key.read /\ (setting' = main \/ \E m \in Layers : setting' = over[m])
    BY <1>3, ReloadBrings, SMTT(30) DEF ConfigTypeOK
  <2>2. held' \in BOOLEAN /\ active' \in BOOLEAN
    BY <1>3 DEF Held, ConfigTypeOK
  <2>3. ConfigTypeOK'
    BY <1>1, <1>3, <2>1, <2>2 DEF ConfigTypeOK, files
  <2>4. OverrideEnds'
    BY <1>1, <1>3 DEF OverrideEnds, files, Global, Remapped
  <2>5. ReadBrings'
    BY <1>1, <2>1 DEF ReadBrings, Foreign
  <2>6. RemapKnown' /\ RemapFiles'
    BY <1>1, <2>1 DEF RemapKnown, RemapFiles, Foreign, files, Global, Remapped
  <2> QED
    BY <2>3, <2>4, <2>5, <2>6
<1> QED
  BY <1>2, <1>3 DEF config_load_override_file

\* The main file is saved: only when no override is active.
LEMMA SaveKeeps == ConfigInv /\ config_save_file => ConfigInv'
<1> SUFFICES ASSUME ConfigInv, config_save_file PROVE ConfigInv'
  OBVIOUS
<1> USE DEF ConfigInv
<1>1. /\ ~active
      /\ main' = IF key.save THEN Written(setting) ELSE IF main = "nofile" THEN "absent" ELSE main
      /\ spread' = (spread \/ main' = "remap")
      /\ UNCHANGED <<key, memory, over, remap, edits>>
  BY DEF config_save_file, MaySave
<1>2. /\ Written(setting) \in FileValues
      /\ setting \in Layers => Written(setting) = setting
  BY WordsDiffer DEF Written, ConfigTypeOK, Foreign
<1>3. ConfigTypeOK'
  BY <1>1, <1>2, WordsDiffer DEF ConfigTypeOK, memory
<1>4. OverrideEnds' /\ ReadBrings'
  BY <1>1, <1>2 DEF OverrideEnds, ReadBrings, memory, Global, Remapped
<1>5. RemapKnown' /\ RemapFiles'
  BY <1>1 DEF RemapKnown, RemapFiles, memory, Global, Remapped
<1> QED
  BY <1>3, <1>4, <1>5

\* The comparison leaves the setting alone, but for the save directory, which
\* may come back from the main file.
LEMMA ComparisonBrings ==
  ASSUME ConfigInv
  PROVE  /\ AfterComparison \in Values
         /\ AfterComparison \in Foreign =>
              \/ AfterComparison = setting
              \/ key.read /\ Says(main) /\ AfterComparison = main
         /\ AfterComparison # setting => key.as = "savedir"
  BY ReloadBrings DEF AfterComparison, ConfigInv, ConfigTypeOK

\* An override file is saved or deleted.
LEMMA SaveOverridesKeeps ==
  ASSUME ConfigInv, NEW l \in Layers, NEW r \in BOOLEAN, NEW o \in BOOLEAN,
         config_save_overrides(l, r, o)
  PROVE  ConfigInv'
<1> DEFINE delete == over[l] # "nofile" /\ (r \/ ~Modified(o))
           content == IF delete THEN "nofile" ELSE IF Differs THEN setting
                      ELSE IF o THEN "absent" ELSE over[l]
<1> USE DEF ConfigInv
<1>1. /\ edits < MaxEdits /\ edits' = edits + 1
      /\ setting' = AfterComparison
      /\ over' = [over EXCEPT ![l] = content]
      /\ overPath' = IF ~delete /\ Modified(o) THEN {l} ELSE overPath
      /\ active' = (active \/ (~delete /\ Modified(o) /\ ~r))
      /\ spread' = (spread \/ over'[l] = "remap")
      /\ UNCHANGED <<key, held, game, remapFile, cache, cached, main, remap>>
  BY DEF config_save_overrides
<1>2. content \in FileValues
  BY WordsDiffer DEF ConfigTypeOK
<1>3. /\ setting' \in Values
      /\ setting' \in Foreign => setting' = setting \/ (key.read /\ Says(main) /\ setting' = main)
  BY <1>1, ComparisonBrings
<1> HIDE DEF delete, content
<1>4. over' \in [Layers -> FileValues] /\ over'[l] = content
  BY <1>1, <1>2 DEF ConfigTypeOK
<1>5. edits' \in 0 .. MaxEdits
  BY <1>1, MaxEditsAssumption DEF ConfigTypeOK
<1>6. active' \in BOOLEAN /\ spread' \in BOOLEAN /\ overPath' \in SUBSET Layers
  BY <1>1 DEF ConfigTypeOK
<1>7. ConfigTypeOK'
  BY <1>1, <1>3, <1>4, <1>5, <1>6 DEF ConfigTypeOK
<1>8. OverrideEnds'
  BY <1>1, <1>3 DEF OverrideEnds, Global, Remapped, Foreign
<1>9. ReadBrings'
  BY <1>1, <1>3 DEF ReadBrings, Foreign
<1>10. RemapKnown'
  <2>1. ~spread' => ~spread /\ \A m \in Layers : over'[m] # "remap"
    BY <1>1, <1>4 DEF RemapKnown, ConfigTypeOK
  <2>2. setting' = "remap" => setting = "remap" \/ main = "remap"
    BY <1>3 DEF Foreign
  <2> QED
    BY <1>1, <2>1, <2>2 DEF RemapKnown, Global, Remapped
<1>11. RemapFiles'
  BY <1>1 DEF RemapFiles
<1> QED
  BY <1>7, <1>8, <1>9, <1>10, <1>11

\* Every step keeps the invariant.
LEMMA ConfigKeeps == ConfigInv /\ [ConfigNext]_configVars => ConfigInv'
<1> SUFFICES ASSUME ConfigInv, [ConfigNext]_configVars PROVE ConfigInv'
  OBVIOUS
<1>1. CASE Restart
  BY <1>1, RestartKeeps
<1>2. CASE MainLost \/ \E v \in {"user", "zero", "small", "wild"} : config_set_runtime_value(v)
  BY <1>2, OutsideKeeps
<1>3. CASE \E g \in Games \cup {"bare"}, o \in BOOLEAN, r \in BOOLEAN :
             runloop_event_init_core(g, o, r)
  BY <1>3, LoadKeeps
<1>4. CASE \E s \in BOOLEAN : runloop_event_deinit_core(s)
  BY <1>4, UnloadKeeps
<1>5. CASE MenuUnload
  BY <1>5, MenuUnloadKeeps
<1>6. CASE \E l \in Layers : config_load_override_file(l)
  BY <1>6, OverrideFileKeeps
<1>7. CASE \E l \in Layers : LoadRemap(l) \/ input_remapping_save_file(l)
  BY <1>7, RemapsKeep
<1>8. CASE config_save_file
  BY <1>8, SaveKeeps
<1>9. CASE \E l \in Layers, r \in BOOLEAN, o \in BOOLEAN : config_save_overrides(l, r, o)
  BY <1>9, SaveOverridesKeeps
<1>10. CASE UNCHANGED configVars
  BY <1>10 DEF configVars, memory, files, ConfigInv, ConfigTypeOK, OverrideEnds, ReadBrings,
               RemapKnown, RemapFiles, Global, Remapped
<1> QED
  BY <1>1, <1>2, <1>3, <1>4, <1>5, <1>6, <1>7, <1>8, <1>9, <1>10 DEF ConfigNext

\* The invariant always holds.
THEOREM ConfigIsKept == ConfigSpec => []ConfigInv
<1>1. ConfigInit => ConfigInv
  BY ConfigStarts
<1>2. ConfigInv /\ [ConfigNext]_configVars => ConfigInv'
  BY ConfigKeeps
<1> QED
  BY <1>1, <1>2, PTL DEF ConfigSpec

-------------------------------------------------------------------------------
(* What follows from it. *)

\* Whatever is loaded, edited, saved or lost in which order: what override and
\* remap files bring is gone once config_unload_override and
\* runloop_event_deinit_core are through.
THEOREM OverridesAreTemporary == ConfigSpec => []OverridesEnd
<1>1. ConfigInv => OverridesEnd
  BY DEF ConfigInv, OverridesEnd, RemapEnds, RemapKnown
<1> QED
  BY <1>1, ConfigIsKept, PTL

\* config_save_file never puts the value of an override file over one that the
\* main file has: overrides are active as long as such a value is in effect.
THEOREM MainIsKept == ConfigSpec => MainKeepsItsValue
<1>1. ASSUME ConfigInv, [ConfigNext]_configVars
      PROVE  [Global /\ Says(main) /\ main \notin Layers => main' \notin Layers]_configVars
  <2> SUFFICES ASSUME Global, Says(main), main \notin Layers, ConfigNext
               PROVE  main' \notin Layers
    BY <1>1 DEF configVars, files
  <2>1. CASE config_save_file
    <3>1. CASE key.save
      <4>1. main' = Written(setting) /\ ~active
        BY <2>1, <3>1 DEF config_save_file, MaySave
      <4>2. setting \notin Layers
        BY <1>1, <3>1, <4>1 DEF ConfigInv, OverrideEnds, Says
      <4> QED
        BY <4>1, <4>2, WordsDiffer DEF Written, Foreign
    <3>2. CASE ~key.save
      BY <2>1, <3>2 DEF config_save_file, Says
    <3> QED
      BY <3>1, <3>2
  <2>2. CASE ~config_save_file
    <3>1. main' = main \/ main' = "absent" \/ main' = "nofile"
      BY <2>2, ZenonT(60) DEF ConfigNext, Restart, MainLost, config_set_runtime_value, runloop_event_init_core,
                  runloop_event_deinit_core, MenuUnload, config_load_override_file, LoadRemap,
                  input_remapping_save_file, config_save_overrides, files
    <3> QED
      BY <3>1, WordsDiffer DEF Foreign
  <2> QED
    BY <2>1, <2>2
<1> QED
  BY <1>1, ConfigIsKept, PTL DEF ConfigSpec, MainKeepsItsValue

\* config_save_overrides reads the main file to compare with it; only the save
\* directory may fall back to what that file says.
THEOREM SavingIsHarmless == ConfigSpec => SavingLeavesSettings
<1> DEFINE Saving == \E l \in Layers, r \in BOOLEAN, o \in BOOLEAN : config_save_overrides(l, r, o)
           Kept == setting' \in {setting, IF key.as = "savedir" THEN Directory(main) ELSE setting}
<1>1. ASSUME ConfigInv, [ConfigNext]_configVars
      PROVE  [Saving => Kept]_configVars
  <2> SUFFICES ASSUME Saving PROVE Kept
    OBVIOUS
  <2>1. setting' = AfterComparison
    BY DEF config_save_overrides
  <2>2. setting \in Values /\ main \in FileValues /\ setting \in FileValues
    BY <1>1, WordsDiffer DEF ConfigInv, ConfigTypeOK
  <2>3. CASE key.as = "savedir" /\ main # "nofile"
    <3>1. \A v : Sane(v) = v
      BY <2>3 DEF Sane, InRange, Megabytes
    <3>2. Reloaded(setting, {}) = config_load_file(setting, main)
      BY <2>3 DEF Reloaded, Appended
    <3>3. config_load_file(setting, main) \in {Directory(main), Directory(setting)}
      BY <2>3, <3>1 DEF config_load_file
    <3>4. Directory(setting) = setting
      BY <2>2, ForeignIsKept
    <3> QED
      BY <2>1, <2>3, <3>2, <3>3, <3>4 DEF AfterComparison
  <2>4. CASE ~(key.as = "savedir" /\ main # "nofile")
    BY <2>1, <2>4 DEF AfterComparison, Reloaded
  <2> QED
    BY <2>3, <2>4
<1> QED
  BY <1>1, ConfigIsKept, PTL DEF ConfigSpec, SavingLeavesSettings

\* What is written comes back: as it is, and an empty directory through the word
\* `default`.
LEMMA WrittenReturns ==
  ASSUME ConfigInv, NEW current \in Values, key.read
  PROVE  /\ config_load_file(current, setting) = Sane(setting)
         /\ (key.as = "savedir" => setting # "zero") =>
              config_load_file(current, Written(setting)) = Sane(setting)
<1>1. setting \in Values /\ Says(setting) /\ Directory(setting) = setting
  BY WordsDiffer, ForeignIsKept DEF ConfigInv, ConfigTypeOK
<1>2. config_load_file(current, setting) = Sane(setting)
  BY <1>1 DEF config_load_file
<1>3. CASE Written(setting) = "word"
  <2>1. key.as = "path" /\ setting = "zero"
    BY <1>1, <1>3, WordsDiffer DEF Written
  <2>2. Directory("word") = "zero" /\ Says("word")
    BY <2>1 DEF Directory, Says
  <2> QED
    BY <1>2, <1>3, <2>1, <2>2 DEF config_load_file
<1>4. CASE Written(setting) = setting
  BY <1>2, <1>4
<1> QED
  BY <1>2, <1>3, <1>4 DEF Written

\* The comparison finds every setting that differs from the main file: it is made
\* with the main file alone, whatever overrides are active.
LEMMA ComparisonFinds ==
  ASSUME ConfigInv, key.cmp, main # "nofile", key.as = "bind" => Says(main),
         setting # config_load_file("zero", main)
  PROVE  Differs /\ key.read
<1>1. key.read /\ (key.as = "bind" => key.read)
  BY TablesAgree DEF ConfigInv, ConfigTypeOK, KeysOK
<1>2. Original = config_load_file(IF key.as = "bind" THEN setting ELSE "zero", main)
  BY DEF Original, Reloaded, Appended
<1>3. key.as = "bind" => config_load_file(setting, main) = config_load_file("zero", main)
  BY <1>1 DEF config_load_file
<1>4. setting # Original
  BY <1>2, <1>3
<1> QED
  BY <1>1, <1>4 DEF Differs, TableDiffers, UserDiffers, BindDiffers

\* What config_save_file and config_save_overrides have written is what the next
\* load reads, whichever table the setting is in and whatever was in effect.
THEOREM SavedSettingsReturn == ConfigSpec => SavedReturns
<1> DEFINE OverrideReturns ==
             \A g \in Games, o \in BOOLEAN :
               /\ config_save_overrides(g, FALSE, o)
               /\ key.cmp /\ main # "nofile"
               /\ setting # config_load_file("zero", main)
               /\ (key.as = "bind" => Says(main))
               => config_load_file("zero", over'[g]) = Sane(setting)
           SettingReturns ==
             /\ config_save_file /\ key.save /\ key.read
             /\ (key.as = "savedir" => setting # "zero")
             => config_load_file(config_set_defaults, main') = Sane(setting)
<1>1. ASSUME ConfigInv, [ConfigNext]_configVars
      PROVE  [OverrideReturns]_configVars
  <2> SUFFICES ASSUME NEW g \in Games, NEW o \in BOOLEAN,
                      config_save_overrides(g, FALSE, o),
                      key.cmp, main # "nofile",
                      setting # config_load_file("zero", main),
                      key.as = "bind" => Says(main)
               PROVE  config_load_file("zero", over'[g]) = Sane(setting)
    OBVIOUS
  <2>1. Differs /\ key.read
    BY <1>1, ComparisonFinds
  <2>2. over' = [over EXCEPT ![g] = setting]
    BY <2>1 DEF config_save_overrides, Modified
  <2>3. over'[g] = setting
    BY <1>1, <2>2, WordsDiffer DEF ConfigInv, ConfigTypeOK
  <2> QED
    BY <1>1, <2>1, <2>3, WrittenReturns, WordsDiffer
<1>2. ASSUME ConfigInv, [ConfigNext]_configVars
      PROVE  [SettingReturns]_configVars
  <2> SUFFICES ASSUME config_save_file, key.save, key.read,
                      key.as = "savedir" => setting # "zero"
               PROVE  config_load_file(config_set_defaults, main') = Sane(setting)
    OBVIOUS
  <2>1. main' = Written(setting)
    BY DEF config_save_file
  <2>2. config_set_defaults \in Values
    BY WordsDiffer DEF config_set_defaults
  <2> QED
    BY <1>2, <2>1, <2>2, WrittenReturns
<1> QED
  BY <1>1, <1>2, ConfigIsKept, PTL
     DEF ConfigSpec, SavedReturns, SavedOverrideReturns, SavedSettingReturns

===============================================================================
