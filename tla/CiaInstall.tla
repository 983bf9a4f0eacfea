------------------------------ MODULE CiaInstall ------------------------------
(***************************************************************************)
(* The update importer of the core, citra_libretro/cia_update.cpp: one     *)
(* call checks a CIA file, installs it into a private directory and then   *)
(* publishes the finished title with an exclusive rename.                  *)
(*                                                                         *)
(* The installer of the emulator writes wherever the process-wide user     *)
(* directory points, so that directory, the compression setting, the       *)
(* mutex and the file system are shared by all callers.  Bytes are left    *)
(* out: a check is a choice of the statuses it can fail with.              *)
(***************************************************************************)
EXTENDS Naturals, FiniteSets

CONSTANTS
    Callers    \* threads that may call retro_manic_install_update_cia_v1

Statuses == {"SUCCESS", "INVALID_FILE", "UNSUPPORTED", "WRONG_ENVIRONMENT",
             "INSTALL_FAILED", "ALREADY_INSTALLED", "BUSY", "CANCELLED", "NO_SPACE"}

NoCaller == "NoCaller"

ASSUME CallersAssumption == NoCaller \notin Callers

\* Where a call is.  From "enter" on, the destructor of Paths is due.
Guarded == {"enter", "redirect", "write", "verify", "precommit", "commit"}
Places == Guarded \cup {"out", "validate", "copy", "inspect", "restore", "remove",
                        "return", "returned"}

\* The title directory in the live SD card: absent, one that was there before
\* or that somebody else made, the verified update, or a half-written one.
Titles == {"absent", "prior", "update", "broken"}

\* What the private directory of a call holds.
Stagings == {"none", "input", "written", "corrupt", "verified"}

VARIABLES
    place,       \* caller -> where its call is
    status,      \* caller -> result->status
    staging,     \* caller -> its .cia-import-XXXXXX directory
    saved,       \* caller -> compression setting its Paths object restores
    owner,       \* the caller that holds the mutex
    userPath,    \* FileUtil's user directory
    compress,    \* Settings::values.compress_cia_installs
    live,        \* the title directory that games see
    frontend,    \* emu_instance # nullptr
    cancel,      \* caller -> what its cancel callback answers
    litter,      \* a private directory was left behind
    preferred,   \* history: compression as the user set it
    published    \* history: caller -> its last call renamed the title into place

files == <<live, litter, published>>
settings == <<userPath, compress>>
installVars == <<place, status, staging, saved, owner, userPath, compress, live,
                 frontend, cancel, litter, preferred, published>>

InstallTypeOK ==
    /\ place \in [Callers -> Places]
    /\ status \in [Callers -> Statuses]
    /\ staging \in [Callers -> Stagings]
    /\ saved \in [Callers -> BOOLEAN]
    /\ owner \in Callers \cup {NoCaller}
    /\ userPath \in {"default", "root", "staged"}
    /\ compress \in BOOLEAN /\ preferred \in BOOLEAN
    /\ live \in Titles
    /\ frontend \in BOOLEAN /\ litter \in BOOLEAN
    /\ cancel \in [Callers -> BOOLEAN]
    /\ published \in [Callers -> BOOLEAN]

InstallInit ==
    /\ place = [w \in Callers |-> "out"]
    /\ status = [w \in Callers |-> "INSTALL_FAILED"]
    /\ staging = [w \in Callers |-> "none"]
    /\ saved = [w \in Callers |-> FALSE]
    /\ owner = NoCaller
    /\ userPath = "default"
    /\ compress \in BOOLEAN /\ preferred = compress
    /\ live \in {"absent", "prior"}
    /\ frontend = FALSE
    /\ cancel = [w \in Callers |-> FALSE]
    /\ litter = FALSE
    /\ published = [w \in Callers |-> FALSE]

-------------------------------------------------------------------------------

Goto(w, p) == place' = [place EXCEPT ![w] = p]

\* Failure is thrown: the objects made so far are destroyed in reverse order.
\* A call that is turned away at the door has published nothing.
Throw(w, s) ==
    /\ status' = [status EXCEPT ![w] = s]
    /\ Goto(w, CASE place[w] \in Guarded -> "restore"
                 [] place[w] \in {"copy", "inspect"} -> "remove"
                 [] OTHER -> "return")
    /\ published' = [published EXCEPT ![w] = @ /\ place[w] # "out"]
    /\ UNCHANGED <<staging, saved, owner, settings, live, litter, frontend, cancel,
                   preferred>>

Fails(w, p, statuses) ==
    /\ place[w] = p
    /\ \E s \in statuses : Throw(w, s)

\* Cancel::Check
Cancelled(w, p) ==
    /\ place[w] = p
    /\ cancel[w]
    /\ Throw(w, "CANCELLED")

\* Faulty: a second call waits for nothing and goes on.
EnterUnlocked(w) ==
    /\ place[w] = "out"
    /\ IF frontend
       THEN Throw(w, "BUSY")
       ELSE /\ owner' = w
            /\ status' = [status EXCEPT ![w] = "INSTALL_FAILED"]
            /\ published' = [published EXCEPT ![w] = FALSE]
            /\ Goto(w, "validate")
            /\ UNCHANGED <<staging, saved, settings, live, litter, frontend, cancel, preferred>>

\* try_lock, and the core must be neither initialised nor powered on.
Enter(w) ==
    /\ place[w] = "out"
    /\ IF owner # NoCaller \/ frontend
       THEN Throw(w, "BUSY")
       ELSE /\ owner' = w
            /\ status' = [status EXCEPT ![w] = "INSTALL_FAILED"]
            /\ published' = [published EXCEPT ![w] = FALSE]
            /\ Goto(w, "validate")
            /\ UNCHANGED <<staging, saved, settings, live, litter, frontend, cancel, preferred>>

\* Root, file type, size and header; a private directory is made last.
Validate(w) ==
    \/ Fails(w, "validate", {"INVALID_FILE", "UNSUPPORTED", "WRONG_ENVIRONMENT",
                             "NO_SPACE", "INSTALL_FAILED"})
    \/ Cancelled(w, "validate")
    \/ /\ place[w] = "validate"
       /\ ~cancel[w]
       /\ staging' = [staging EXCEPT ![w] = "input"]
       /\ Goto(w, "copy")
       /\ UNCHANGED <<status, saved, owner, settings, files, frontend, cancel, preferred>>

\* The copy of the input, then the checks of the copy.
Check(w, p, next, statuses) ==
    \/ Fails(w, p, statuses)
    \/ Cancelled(w, p)
    \/ /\ place[w] = p
       /\ ~cancel[w]
       /\ Goto(w, next)
       /\ UNCHANGED <<status, staging, saved, owner, settings, files, frontend,
                      cancel, preferred>>

Copy(w) == Check(w, "copy", "inspect", {"INVALID_FILE", "INSTALL_FAILED"})

\* Paths remembers the settings when the checks are through.
Inspect(w) ==
    \/ Fails(w, "inspect", {"INVALID_FILE", "UNSUPPORTED", "INSTALL_FAILED"})
    \/ Cancelled(w, "inspect")
    \/ /\ place[w] = "inspect"
       /\ ~cancel[w]
       /\ saved' = [saved EXCEPT ![w] = compress]
       /\ userPath' = "root"
       /\ Goto(w, "enter")
       /\ UNCHANGED <<status, staging, owner, compress, files, frontend, cancel, preferred>>

\* The title must be new.
Examine(w) ==
    \/ Fails(w, "enter", {"UNSUPPORTED", "WRONG_ENVIRONMENT", "INSTALL_FAILED"})
    \/ /\ place[w] = "enter"
       /\ live # "absent"
       /\ Throw(w, "ALREADY_INSTALLED")
    \/ /\ place[w] = "enter"
       /\ live = "absent"
       /\ Goto(w, "redirect")
       /\ UNCHANGED <<status, staging, saved, owner, settings, files, frontend,
                      cancel, preferred>>

\* From here the installer writes into the private directory.
Redirect(w) ==
    /\ place[w] = "redirect"
    /\ userPath' = "staged"
    /\ compress' = FALSE
    /\ Goto(w, "write")
    /\ UNCHANGED <<status, staging, saved, owner, files, frontend, cancel, preferred>>

\* CIAFile::Write and Close: they may fail, or lose bytes without saying so.
Write(w) ==
    \/ Fails(w, "write", {"INVALID_FILE", "WRONG_ENVIRONMENT", "INSTALL_FAILED"})
    \/ Cancelled(w, "write")
    \/ /\ place[w] = "write"
       /\ ~cancel[w]
       /\ IF userPath = "staged"
          THEN \E s \in {"written", "corrupt"} :
                  staging' = [staging EXCEPT ![w] = s] /\ UNCHANGED live
          ELSE live' = "broken" /\ UNCHANGED staging
       /\ Goto(w, "verify")
       /\ UNCHANGED <<status, saved, owner, settings, litter, published, frontend,
                      cancel, preferred>>

\* Faulty: what the installer reports is believed.
VerifyNothing(w) ==
    \/ Cancelled(w, "verify")
    \/ /\ place[w] = "verify"
       /\ ~cancel[w]
       /\ Goto(w, "precommit")
       /\ UNCHANGED <<status, staging, saved, owner, settings, files, frontend,
                      cancel, preferred>>

\* Sizes, hashes and metadata of what was written are read back.
Verify(w) ==
    \/ Fails(w, "verify", {"INSTALL_FAILED"})
    \/ Cancelled(w, "verify")
    \/ /\ place[w] = "verify"
       /\ ~cancel[w]
       /\ staging[w] = "written"
       /\ staging' = [staging EXCEPT ![w] = "verified"]
       /\ Goto(w, "precommit")
       /\ UNCHANGED <<status, saved, owner, settings, files, frontend, cancel, preferred>>

\* The last look at the cancel flag and at the destination.
Precommit(w) ==
    \/ Fails(w, "precommit", {"WRONG_ENVIRONMENT", "INSTALL_FAILED"})
    \/ Cancelled(w, "precommit")
    \/ /\ place[w] = "precommit"
       /\ ~cancel[w] /\ live # "absent"
       /\ Throw(w, "ALREADY_INSTALLED")
    \/ /\ place[w] = "precommit"
       /\ ~cancel[w] /\ live = "absent"
       /\ userPath' = "root"
       /\ Goto(w, "commit")
       /\ UNCHANGED <<status, staging, saved, owner, compress, files, frontend,
                      cancel, preferred>>

\* Faulty: a rename that replaces what is there.
CommitOver(w) ==
    /\ place[w] = "commit"
    /\ live' = IF staging[w] = "verified" THEN "update" ELSE "broken"
    /\ published' = [published EXCEPT ![w] = TRUE]
    /\ status' = [status EXCEPT ![w] = "SUCCESS"]
    /\ Goto(w, "restore")
    /\ UNCHANGED <<staging, saved, owner, settings, litter, frontend, cancel, preferred>>

\* Faulty: one more look at the cancel flag after the rename.
CommitThenCheck(w) ==
    /\ place[w] = "commit"
    /\ live = "absent"
    /\ live' = IF staging[w] = "verified" THEN "update" ELSE "broken"
    /\ published' = [published EXCEPT ![w] = TRUE]
    /\ status' = [status EXCEPT ![w] = IF cancel[w] THEN "CANCELLED" ELSE "SUCCESS"]
    /\ Goto(w, "restore")
    /\ UNCHANGED <<staging, saved, owner, settings, litter, frontend, cancel, preferred>>

\* RENAME_EXCL: the title appears whole, or nothing happens.
Commit(w) ==
    \/ Fails(w, "commit", {"WRONG_ENVIRONMENT", "INSTALL_FAILED"})
    \/ /\ place[w] = "commit"
       /\ live = "absent"
       /\ live' = IF staging[w] = "verified" THEN "update" ELSE "broken"
       /\ published' = [published EXCEPT ![w] = TRUE]
       /\ status' = [status EXCEPT ![w] = "SUCCESS"]
       /\ Goto(w, "restore")
       /\ UNCHANGED <<staging, saved, owner, settings, litter, frontend, cancel, preferred>>

\* ~Paths
Restore(w) ==
    /\ place[w] = "restore"
    /\ userPath' = "root"
    /\ compress' = saved[w]
    /\ Goto(w, "remove")
    /\ UNCHANGED <<status, staging, saved, owner, files, frontend, cancel, preferred>>

\* ~Temporary: an error of remove_all is ignored.
Remove(w) ==
    /\ place[w] = "remove"
    /\ staging' = [staging EXCEPT ![w] = "none"]
    /\ litter' \in {litter, TRUE}
    /\ Goto(w, "return")
    /\ UNCHANGED <<status, saved, owner, settings, live, published, frontend, cancel, preferred>>

\* ~unique_lock, if it owns the mutex.
Return(w) ==
    /\ place[w] = "return"
    /\ owner' = IF owner = w THEN NoCaller ELSE owner
    /\ Goto(w, "returned")
    /\ UNCHANGED <<status, staging, saved, settings, files, frontend, cancel, preferred>>

\* A call under way goes on.
InstallStep(w) ==
    \/ Validate(w) \/ Copy(w) \/ Inspect(w) \/ Examine(w) \/ Redirect(w)
    \/ Write(w) \/ Verify(w) \/ Precommit(w) \/ Commit(w)
    \/ Restore(w) \/ Remove(w) \/ Return(w)

-------------------------------------------------------------------------------

(* The world around the call. *)

\* The caller has its answer and may call again.
Again(w) ==
    /\ place[w] = "returned"
    /\ Goto(w, "out")
    /\ cancel' = [cancel EXCEPT ![w] = FALSE]
    /\ UNCHANGED <<status, staging, saved, owner, settings, files, frontend, preferred>>

RequestCancel(w) ==
    /\ cancel' = [cancel EXCEPT ![w] = TRUE]
    /\ UNCHANGED <<place, status, staging, saved, owner, settings, files, frontend, preferred>>

\* retro_init and retro_deinit.
FrontendChanges ==
    /\ frontend' = ~frontend
    /\ UNCHANGED <<place, status, staging, saved, owner, settings, files, cancel, preferred>>

\* Somebody else, the Files app say, puts a directory where the title goes.
DirectoryAppears ==
    /\ live = "absent"
    /\ live' = "prior"
    /\ UNCHANGED <<place, status, staging, saved, owner, settings, litter, published,
                   frontend, cancel, preferred>>

\* The system ends the process: memory is lost, files stay.
Killed ==
    /\ place' = [w \in Callers |-> "out"]
    /\ status' = [w \in Callers |-> "INSTALL_FAILED"]
    /\ staging' = [w \in Callers |-> "none"]
    /\ saved' = [w \in Callers |-> FALSE]
    /\ owner' = NoCaller
    /\ userPath' = "default"
    /\ compress' = preferred
    /\ litter' = (litter \/ \E w \in Callers : staging[w] # "none")
    /\ frontend' = FALSE
    /\ cancel' = [w \in Callers |-> FALSE]
    /\ published' = [w \in Callers |-> FALSE]
    /\ UNCHANGED <<live, preferred>>

InstallNext ==
    \/ \E w \in Callers : Enter(w) \/ InstallStep(w) \/ Again(w) \/ RequestCancel(w)
    \/ FrontendChanges \/ DirectoryAppears \/ Killed

InstallSpec == InstallInit /\ [][InstallNext]_installVars

-------------------------------------------------------------------------------
(* Properties                                                               *)

\* Games never see an update that is not complete and verified, whichever
\* step the call fails, is cancelled or is killed at.
LiveTitleWhole == live # "broken"

\* "Never replace a prior install/save": a title directory that exists, from
\* whatever source and since whatever moment, is not touched.
PriorKept == [][live # "absent" => live' = live]_installVars

\* The status tells the truth: SUCCESS exactly when this call published the
\* title, so that a late cancel does not hide it and a failure has left no
\* update behind.
ResultIsTrue ==
    \A w \in Callers :
        place[w] = "returned" => (status[w] = "SUCCESS" <=> published[w])

\* Between calls the emulator's user directory is never a private one and the
\* compression setting is the user's, although every call changes both.
SettingsRestored ==
    owner = NoCaller => userPath # "staged" /\ compress = preferred

===============================================================================
