---------------------------- MODULE CiaInstallProof ----------------------------
(***************************************************************************)
(* The update importer for any number of callers.  The mutex is the heart  *)
(* of the argument: the one call inside owns the user directory and the    *)
(* compression setting, so that what it verified is what it publishes.     *)
(* The last part carries the argument over to the importer as the app runs *)
(* it: one caller is the worker of the dialogs, and the busy flag keeps    *)
(* pickers, imports and games apart.                                       *)
(***************************************************************************)
EXTENDS CiaImport, TLAPS

\* Places of a call that holds the mutex; "return" may be a refused call's.
Inside == Guarded \cup {"validate", "copy", "inspect", "restore", "remove"}

\* The mutex admits one call.
LockInv == \A w \in Callers : place[w] \in Inside => owner = w

\* Where the emulator writes, and what was read back.
StagingInv ==
    \A w \in Callers :
        /\ place[w] = "write" => userPath = "staged"
        /\ place[w] \in {"precommit", "commit"} => staging[w] = "verified"

\* The settings while a call is inside, and what it will restore.
Altered == {"write", "verify", "precommit", "commit", "restore"}

SettingsInv ==
    /\ \A w \in Callers : place[w] \in Guarded \cup {"restore"} => saved[w] = preferred
    /\ (\A w \in Callers : place[w] \notin Altered) => compress = preferred
    /\ (\A w \in Callers : place[w] \notin Altered) => userPath # "staged"

\* What a call will answer.
AnswerInv ==
    \A w \in Callers :
        /\ place[w] \in Inside \ {"restore", "remove"} =>
             ~published[w] /\ status[w] = "INSTALL_FAILED"
        /\ place[w] \in {"restore", "remove", "return", "returned"} =>
             (status[w] = "SUCCESS" <=> published[w])

Inv == InstallTypeOK /\ LockInv /\ StagingInv /\ SettingsInv /\ AnswerInv /\ LiveTitleWhole

\* A failure leaves files and settings alone and is never reported as success.
LEMMA ThrowInv ==
    ASSUME Inv, NEW w \in Callers, NEW s \in Statuses \ {"SUCCESS"}, Throw(w, s),
           place[w] \in (Inside \ {"restore", "remove"}) \cup {"out"}
    PROVE  Inv' /\ live' = live
<1> USE DEF Inside, Guarded, Altered, Throw, Goto, files, settings
<1>t. InstallTypeOK BY DEF Inv
<1>0. /\ \A u \in Callers \ {w} : place'[u] = place[u] /\ status'[u] = status[u]
                                   /\ published'[u] = published[u]
      /\ place[w] \in Guarded => place'[w] = "restore"
      /\ place[w] \in {"copy", "inspect"} => place'[w] = "remove"
      /\ place[w] \in {"out", "validate"} => place'[w] = "return"
      /\ status'[w] = s
      /\ ~published'[w]
  BY <1>t DEF InstallTypeOK, Inv, AnswerInv
<1>1. InstallTypeOK' BY <1>t DEF InstallTypeOK, Places
<1>2. LockInv' BY <1>0 DEF Inv, LockInv
<1>3. StagingInv' BY <1>0 DEF Inv, StagingInv
<1>4. SettingsInv' BY <1>0 DEF Inv, SettingsInv
<1>5. AnswerInv' BY <1>0 DEF Inv, AnswerInv
<1>6. live' = live OBVIOUS
<1> QED BY <1>1, <1>2, <1>3, <1>4, <1>5, <1>6 DEF Inv, LiveTitleWhole

\* The invariant holds at the start.
LEMMA InitInv == InstallInit => Inv
<1> SUFFICES ASSUME InstallInit PROVE Inv OBVIOUS
<1> USE DEF InstallInit, Inside, Guarded, Altered
<1>1. InstallTypeOK BY DEF InstallTypeOK, Places, Statuses, Stagings, Titles
<1>2. LockInv /\ StagingInv BY DEF LockInv, StagingInv
<1>3. SettingsInv BY DEF SettingsInv
<1>4. AnswerInv BY DEF AnswerInv
<1>5. LiveTitleWhole BY DEF LiveTitleWhole
<1> QED BY <1>1, <1>2, <1>3, <1>4, <1>5 DEF Inv

\* A call that goes on changes one thing at a time.
LEMMA StepInv ==
    ASSUME Inv, NEW w \in Callers, Enter(w) \/ InstallStep(w) \/ Again(w)
    PROVE  Inv' /\ (live # "absent" => live' = live)
<1> USE DEF Inside, Guarded, Altered, Goto, files, settings
<1> DEFINE Goal == Inv' /\ (live # "absent" => live' = live)
<1>t. InstallTypeOK /\ LockInv /\ StagingInv /\ SettingsInv /\ AnswerInv /\ LiveTitleWhole
  BY DEF Inv
<1>f. ASSUME NEW p \in (Inside \ {"restore", "remove"}), NEW S \in SUBSET (Statuses \ {"SUCCESS"}),
             Fails(w, p, S) \/ Cancelled(w, p)
      PROVE  Goal
  BY <1>f, ThrowInv DEF Fails, Cancelled, Statuses
<1>m. ASSUME NEW p \in Places, place' = [place EXCEPT ![w] = p]
      PROVE  place'[w] = p /\ \A u \in Callers \ {w} : place'[u] = place[u]
  BY <1>m, <1>t DEF InstallTypeOK
<1> DEFINE Work == Inside \ {"restore", "remove"}
           Moves(p, q) == /\ place[w] = p /\ place' = [place EXCEPT ![w] = q]
                          /\ UNCHANGED <<status, published, owner, preferred>>
<1>g. ASSUME NEW p \in Work, NEW q \in Work, Moves(p, q)
      PROVE  /\ place'[w] = q /\ LockInv' /\ AnswerInv'
             /\ \A u \in Callers \ {w} : place'[u] = place[u] /\ place[u] \notin Inside
  <2>1. place'[w] = q /\ \A u \in Callers \ {w} : place'[u] = place[u]
    BY <1>g, <1>m DEF Places
  <2>2. \A u \in Callers \ {w} : place[u] \notin Inside
    BY <1>g, <1>t DEF LockInv
  <2>3. LockInv' BY <1>g, <1>t, <2>1 DEF LockInv
  <2>4. AnswerInv' BY <1>g, <1>t, <2>1 DEF AnswerInv
  <2> QED BY <2>1, <2>2, <2>3, <2>4
<1> USE DEF InstallTypeOK, LockInv, StagingInv, SettingsInv, AnswerInv, LiveTitleWhole
<1>1. CASE Enter(w)
  <2>1. CASE owner # NoCaller \/ frontend
    <3>1. Throw(w, "BUSY") /\ place[w] = "out" BY <1>1, <2>1 DEF Enter
    <3> QED BY <3>1, ThrowInv DEF Statuses
  <2>2. CASE ~(owner # NoCaller \/ frontend)
    <3>1. place' = [place EXCEPT ![w] = "validate"] BY <1>1, <2>2 DEF Enter
    <3>2. place'[w] = "validate" /\ \A u \in Callers \ {w} : place'[u] = place[u]
      BY <3>1, <1>m DEF Places
    <3>3. InstallTypeOK' BY <1>1, <1>t, <2>2, ZenonT(60) DEF Enter, Places, Statuses
    <3>4. LockInv' BY <1>1, <1>t, <2>2, <3>2, CallersAssumption DEF Enter
    <3>5. StagingInv' /\ SettingsInv' /\ LiveTitleWhole'
      BY <1>1, <1>t, <2>2, <3>2 DEF Enter
    <3>6. AnswerInv' BY <1>1, <1>t, <2>2, <3>2 DEF Enter
    <3> QED BY <1>1, <2>2, <3>3, <3>4, <3>5, <3>6 DEF Enter, Inv
  <2> QED BY <2>1, <2>2
<1>2. CASE Validate(w)
  <2>1. CASE \/ Fails(w, "validate", {"INVALID_FILE", "UNSUPPORTED", "WRONG_ENVIRONMENT",
                                    "NO_SPACE", "INSTALL_FAILED"})
             \/ Cancelled(w, "validate")
    BY <2>1, <1>f DEF Statuses
  <2>3. CASE /\ place[w] = "validate" /\ ~cancel[w]
             /\ staging' = [staging EXCEPT ![w] = "input"]
             /\ Goto(w, "copy")
             /\ UNCHANGED <<status, saved, owner, settings, files, frontend, cancel,
                            preferred>>
    <3>1. Moves("validate", "copy") BY <2>3
    <3>2. /\ place'[w] = "copy" /\ LockInv' /\ AnswerInv'
          /\ \A u \in Callers \ {w} : place'[u] = place[u] /\ place[u] \notin Inside
      BY <3>1, <1>g
    <3>3. InstallTypeOK' BY <2>3, <1>t DEF Places, Stagings, Titles
    <3>4. StagingInv' BY <2>3, <1>t, <3>1, <3>2
    <3>5. SettingsInv' BY <2>3, <1>t, <3>1, <3>2
    <3>6. live' = live BY <2>3, <1>t
    <3> QED BY <1>t, <3>2, <3>3, <3>4, <3>5, <3>6 DEF Inv
  <2> QED BY <1>2, <2>1, <2>3 DEF Validate
<1>3. CASE Copy(w)
  <2>1. CASE \/ Fails(w, "copy", {"INVALID_FILE", "INSTALL_FAILED"})
             \/ Cancelled(w, "copy")
    BY <2>1, <1>f DEF Statuses
  <2>3. CASE /\ place[w] = "copy" /\ ~cancel[w]
             /\ Goto(w, "inspect")
             /\ UNCHANGED <<status, staging, saved, owner, settings, files, frontend,
                            cancel, preferred>>
    <3>1. Moves("copy", "inspect") BY <2>3
    <3>2. /\ place'[w] = "inspect" /\ LockInv' /\ AnswerInv'
          /\ \A u \in Callers \ {w} : place'[u] = place[u] /\ place[u] \notin Inside
      BY <3>1, <1>g
    <3>3. InstallTypeOK' BY <2>3, <1>t DEF Places, Stagings, Titles
    <3>4. StagingInv' BY <2>3, <1>t, <3>1, <3>2
    <3>5. SettingsInv' BY <2>3, <1>t, <3>1, <3>2
    <3>6. live' = live BY <2>3, <1>t
    <3> QED BY <1>t, <3>2, <3>3, <3>4, <3>5, <3>6 DEF Inv
  <2> QED BY <1>3, <2>1, <2>3 DEF Copy, Check
<1>4. CASE Inspect(w)
  <2>1. CASE \/ Fails(w, "inspect", {"INVALID_FILE", "UNSUPPORTED", "INSTALL_FAILED"})
             \/ Cancelled(w, "inspect")
    BY <2>1, <1>f DEF Statuses
  <2>3. CASE /\ place[w] = "inspect" /\ ~cancel[w]
             /\ saved' = [saved EXCEPT ![w] = compress]
             /\ userPath' = "root"
             /\ Goto(w, "enter")
             /\ UNCHANGED <<status, staging, owner, compress, files, frontend, cancel,
                            preferred>>
    <3>1. Moves("inspect", "enter") BY <2>3
    <3>2. /\ place'[w] = "enter" /\ LockInv' /\ AnswerInv'
          /\ \A u \in Callers \ {w} : place'[u] = place[u] /\ place[u] \notin Inside
      BY <3>1, <1>g
    <3>3. InstallTypeOK' BY <2>3, <1>t DEF Places, Stagings, Titles
    <3>4. StagingInv' BY <2>3, <1>t, <3>1, <3>2
    <3>5. SettingsInv' BY <2>3, <1>t, <3>1, <3>2
    <3>6. live' = live BY <2>3, <1>t
    <3> QED BY <1>t, <3>2, <3>3, <3>4, <3>5, <3>6 DEF Inv
  <2> QED BY <1>4, <2>1, <2>3 DEF Inspect
<1>5. CASE Examine(w)
  <2>1. CASE \/ Fails(w, "enter", {"UNSUPPORTED", "WRONG_ENVIRONMENT", "INSTALL_FAILED"})
    BY <2>1, <1>f DEF Statuses
  <2>2. CASE place[w] = "enter" /\ Throw(w, "ALREADY_INSTALLED")
    BY <2>2, ThrowInv DEF Statuses
  <2>3. CASE /\ place[w] = "enter" /\ live = "absent"
             /\ Goto(w, "redirect")
             /\ UNCHANGED <<status, staging, saved, owner, settings, files, frontend,
                            cancel, preferred>>
    <3>1. Moves("enter", "redirect") BY <2>3
    <3>2. /\ place'[w] = "redirect" /\ LockInv' /\ AnswerInv'
          /\ \A u \in Callers \ {w} : place'[u] = place[u] /\ place[u] \notin Inside
      BY <3>1, <1>g
    <3>3. InstallTypeOK' BY <2>3, <1>t DEF Places, Stagings, Titles
    <3>4. StagingInv' BY <2>3, <1>t, <3>1, <3>2
    <3>5. SettingsInv' BY <2>3, <1>t, <3>1, <3>2
    <3>6. live' = live BY <2>3, <1>t
    <3> QED BY <1>t, <3>2, <3>3, <3>4, <3>5, <3>6 DEF Inv
  <2> QED BY <1>5, <2>1, <2>2, <2>3 DEF Examine
<1>6. CASE Redirect(w)
  <2>3. CASE Redirect(w)
    <3>1. Moves("redirect", "write") BY <2>3 DEF Redirect
    <3>2. /\ place'[w] = "write" /\ LockInv' /\ AnswerInv'
          /\ \A u \in Callers \ {w} : place'[u] = place[u] /\ place[u] \notin Inside
      BY <3>1, <1>g
    <3>3. InstallTypeOK' BY <2>3, <1>t DEF Redirect, Places, Stagings, Titles
    <3>4. StagingInv' BY <2>3, <1>t, <3>1, <3>2 DEF Redirect
    <3>5. SettingsInv' BY <2>3, <1>t, <3>1, <3>2 DEF Redirect
    <3>6. live' = live BY <2>3, <1>t DEF Redirect
    <3> QED BY <1>t, <3>2, <3>3, <3>4, <3>5, <3>6 DEF Inv
  <2> QED BY <1>6, <2>3 DEF Redirect
<1>7. CASE Write(w)
  <2>1. CASE \/ Fails(w, "write", {"INVALID_FILE", "WRONG_ENVIRONMENT", "INSTALL_FAILED"})
             \/ Cancelled(w, "write")
    BY <2>1, <1>f DEF Statuses
  <2>3. CASE /\ place[w] = "write" /\ ~cancel[w]
             /\ \E s \in {"written", "corrupt"} : staging' = [staging EXCEPT ![w] = s]
             /\ Goto(w, "verify")
             /\ UNCHANGED <<live, status, saved, owner, settings, litter, published,
                            frontend, cancel, preferred>>
    <3>1. Moves("write", "verify") BY <2>3
    <3>2. /\ place'[w] = "verify" /\ LockInv' /\ AnswerInv'
          /\ \A u \in Callers \ {w} : place'[u] = place[u] /\ place[u] \notin Inside
      BY <3>1, <1>g
    <3>3. InstallTypeOK' BY <2>3, <1>t DEF Places, Stagings, Titles
    <3>4. StagingInv' BY <2>3, <1>t, <3>1, <3>2
    <3>5. SettingsInv' BY <2>3, <1>t, <3>1, <3>2
    <3>6. live' = live BY <2>3, <1>t
    <3> QED BY <1>t, <3>2, <3>3, <3>4, <3>5, <3>6 DEF Inv
  <2> QED BY <1>7, <1>t, <2>1, <2>3 DEF Write
<1>8. CASE Verify(w)
  <2>1. CASE \/ Fails(w, "verify", {"INSTALL_FAILED"})
             \/ Cancelled(w, "verify")
    BY <2>1, <1>f DEF Statuses
  <2>3. CASE /\ place[w] = "verify" /\ ~cancel[w]
             /\ staging' = [staging EXCEPT ![w] = "verified"]
             /\ Goto(w, "precommit")
             /\ UNCHANGED <<status, saved, owner, settings, files, frontend, cancel,
                            preferred>>
    <3>1. Moves("verify", "precommit") BY <2>3
    <3>2. /\ place'[w] = "precommit" /\ LockInv' /\ AnswerInv'
          /\ \A u \in Callers \ {w} : place'[u] = place[u] /\ place[u] \notin Inside
      BY <3>1, <1>g
    <3>3. InstallTypeOK' BY <2>3, <1>t DEF Places, Stagings, Titles
    <3>4. StagingInv' BY <2>3, <1>t, <3>1, <3>2
    <3>5. SettingsInv' BY <2>3, <1>t, <3>1, <3>2
    <3>6. live' = live BY <2>3, <1>t
    <3> QED BY <1>t, <3>2, <3>3, <3>4, <3>5, <3>6 DEF Inv
  <2> QED BY <1>8, <2>1, <2>3 DEF Verify
<1>9. CASE Precommit(w)
  <2>1. CASE \/ Fails(w, "precommit", {"WRONG_ENVIRONMENT", "INSTALL_FAILED"})
             \/ Cancelled(w, "precommit")
    BY <2>1, <1>f DEF Statuses
  <2>2. CASE place[w] = "precommit" /\ Throw(w, "ALREADY_INSTALLED")
    BY <2>2, ThrowInv DEF Statuses
  <2>3. CASE /\ place[w] = "precommit" /\ ~cancel[w]
             /\ userPath' = "root"
             /\ Goto(w, "commit")
             /\ UNCHANGED <<status, staging, saved, owner, compress, files, frontend,
                            cancel, preferred>>
    <3>1. Moves("precommit", "commit") BY <2>3
    <3>2. /\ place'[w] = "commit" /\ LockInv' /\ AnswerInv'
          /\ \A u \in Callers \ {w} : place'[u] = place[u] /\ place[u] \notin Inside
      BY <3>1, <1>g
    <3>3. InstallTypeOK' BY <2>3, <1>t DEF Places, Stagings, Titles
    <3>4. StagingInv' BY <2>3, <1>t, <3>1, <3>2
    <3>5. SettingsInv' BY <2>3, <1>t, <3>1, <3>2
    <3>6. live' = live BY <2>3, <1>t
    <3> QED BY <1>t, <3>2, <3>3, <3>4, <3>5, <3>6 DEF Inv
  <2> QED BY <1>9, <2>1, <2>2, <2>3 DEF Precommit
<1>10. CASE Commit(w)
  <2>1. CASE Fails(w, "commit", {"WRONG_ENVIRONMENT", "INSTALL_FAILED"})
    BY <2>1, <1>f DEF Statuses
  <2>2. CASE /\ place[w] = "commit" /\ live = "absent"
             /\ live' = IF staging[w] = "verified" THEN "update" ELSE "broken"
             /\ published' = [published EXCEPT ![w] = TRUE]
             /\ status' = [status EXCEPT ![w] = "SUCCESS"]
             /\ Goto(w, "restore")
             /\ UNCHANGED <<staging, saved, owner, settings, litter, frontend, cancel,
                            preferred>>
    <3>1. place'[w] = "restore" /\ \A u \in Callers \ {w} : place'[u] = place[u]
      BY <2>2, <1>m DEF Places
    <3>2. live' = "update" BY <2>2, <1>t
    <3>3. InstallTypeOK' BY <2>2, <1>t, <3>2 DEF Places, Statuses, Titles
    <3>4. LockInv' /\ StagingInv' BY <2>2, <1>t, <3>1
    <3>5. SettingsInv' BY <2>2, <1>t, <3>1
    <3>6. AnswerInv' BY <2>2, <1>t, <3>1
    <3> QED BY <2>2, <3>2, <3>3, <3>4, <3>5, <3>6 DEF Inv
  <2> QED BY <1>10, <2>1, <2>2 DEF Commit
<1>11. CASE Restore(w)
  <2>1. place'[w] = "remove" /\ \A u \in Callers \ {w} : place'[u] = place[u]
    BY <1>11, <1>m DEF Restore, Places
  <2>2. \A u \in Callers \ {w} : place[u] \notin Inside BY <1>11, <1>t DEF Restore
  <2>3. InstallTypeOK' BY <1>11, <1>t DEF Restore, Places
  <2>4. LockInv' /\ StagingInv' BY <1>11, <1>t, <2>1, <2>2 DEF Restore
  <2>5. SettingsInv' BY <1>11, <1>t, <2>1, <2>2 DEF Restore
  <2>6. AnswerInv' BY <1>11, <1>t, <2>1 DEF Restore
  <2> QED BY <1>11, <1>t, <2>3, <2>4, <2>5, <2>6 DEF Restore, Inv
<1>12. CASE Remove(w)
  <2>1. place'[w] = "return" /\ \A u \in Callers \ {w} : place'[u] = place[u]
    BY <1>12, <1>m DEF Remove, Places
  <2>2. \A u \in Callers \ {w} : place[u] \notin Inside BY <1>12, <1>t DEF Remove
  <2>3. InstallTypeOK' BY <1>12, <1>t DEF Remove, Places, Stagings
  <2>4. LockInv' /\ StagingInv' BY <1>12, <1>t, <2>1, <2>2 DEF Remove
  <2>5. SettingsInv' BY <1>12, <1>t, <2>1, <2>2 DEF Remove
  <2>6. AnswerInv' BY <1>12, <1>t, <2>1 DEF Remove
  <2> QED BY <1>12, <1>t, <2>3, <2>4, <2>5, <2>6 DEF Remove, Inv
<1>13. CASE Return(w)
  <2>1. place'[w] = "returned" /\ \A u \in Callers \ {w} : place'[u] = place[u]
    BY <1>13, <1>m DEF Return, Places
  <2>3. InstallTypeOK' BY <1>13, <1>t DEF Return, Places
  <2>4. LockInv' /\ StagingInv' BY <1>13, <1>t, <2>1 DEF Return
  <2>5. SettingsInv' BY <1>13, <1>t, <2>1 DEF Return
  <2>6. AnswerInv' BY <1>13, <1>t, <2>1 DEF Return
  <2> QED BY <1>13, <1>t, <2>3, <2>4, <2>5, <2>6 DEF Return, Inv
<1>14. CASE Again(w)
  <2>1. place'[w] = "out" /\ \A u \in Callers \ {w} : place'[u] = place[u]
    BY <1>14, <1>m DEF Again, Places
  <2>3. InstallTypeOK' BY <1>14, <1>t DEF Again, Places
  <2>4. LockInv' /\ StagingInv' BY <1>14, <1>t, <2>1 DEF Again
  <2>5. SettingsInv' BY <1>14, <1>t, <2>1 DEF Again
  <2>6. AnswerInv' BY <1>14, <1>t, <2>1 DEF Again
  <2> QED BY <1>14, <1>t, <2>3, <2>4, <2>5, <2>6 DEF Again, Inv
<1> QED
  BY <1>1, <1>2, <1>3, <1>4, <1>5, <1>6, <1>7, <1>8, <1>9, <1>10, <1>11, <1>12, <1>13, <1>14
  DEF InstallStep

\* Cancel requests, the frontend, other writers and the end of the process.
LEMMA WorldInv ==
    ASSUME Inv,
           (\E w \in Callers : RequestCancel(w)) \/ FrontendChanges \/ DirectoryAppears \/ Killed
    PROVE  Inv' /\ (live # "absent" => live' = live)
<1> USE DEF Inside, Guarded, Altered, files, settings, Inv, InstallTypeOK, LockInv,
            StagingInv, SettingsInv, AnswerInv, LiveTitleWhole
<1>1. ASSUME NEW w \in Callers, RequestCancel(w)
      PROVE  Inv' /\ live' = live
  BY <1>1 DEF RequestCancel
<1>2. CASE FrontendChanges BY <1>2 DEF FrontendChanges
<1>3. CASE DirectoryAppears BY <1>3 DEF DirectoryAppears, Titles
<1>4. CASE Killed BY <1>4 DEF Killed, Places, Statuses, Stagings
<1> QED BY <1>1, <1>2, <1>3, <1>4

\* Every step keeps the invariant and an existing title.
LEMMA NextInv ==
    ASSUME Inv, [InstallNext]_installVars
    PROVE  Inv' /\ (live # "absent" => live' = live)
<1>1. CASE UNCHANGED installVars
  BY <1>1 DEF installVars, Inv, InstallTypeOK, LockInv, StagingInv, SettingsInv, AnswerInv,
              LiveTitleWhole
<1>2. CASE InstallNext
  BY <1>2, StepInv, WorldInv DEF InstallNext
<1> QED BY <1>1, <1>2

\* The inductive invariant of the importer.
THEOREM InstallInvariance == InstallSpec => []Inv
BY InitInv, NextInv, PTL DEF InstallSpec

\* Types of the importer's state, for any number of callers.
THEOREM InstallTypes == InstallSpec => []InstallTypeOK
<1>1. Inv => InstallTypeOK BY DEF Inv
<1> QED BY <1>1, InstallInvariance, PTL

\* However many calls race, fail, are cancelled or killed, games never see a
\* title that was not verified.
THEOREM TitleAlwaysWhole == InstallSpec => []LiveTitleWhole
<1>1. Inv => LiveTitleWhole BY DEF Inv
<1> QED BY <1>1, InstallInvariance, PTL

\* A SUCCESS that cia_update.cpp returns is a published title and conversely.
THEOREM AnswerIsTrue == InstallSpec => []ResultIsTrue
<1>1. Inv => ResultIsTrue BY DEF Inv, AnswerInv, ResultIsTrue
<1> QED BY <1>1, InstallInvariance, PTL

\* Whoever holds no mutex sees the user's own directory and setting.
THEOREM SettingsComeBack == InstallSpec => []SettingsRestored
<1>1. Inv => SettingsRestored
  BY CallersAssumption DEF Inv, InstallTypeOK, LockInv, SettingsInv, SettingsRestored,
                           Inside, Guarded, Altered
<1> QED BY <1>1, InstallInvariance, PTL

\* The exclusive rename never replaces a directory that is there.
THEOREM PriorIsKept == InstallSpec => PriorKept
<1>1. Inv /\ [InstallNext]_installVars => [live # "absent" => live' = live]_installVars
  BY NextInv
<1> QED BY <1>1, InstallInvariance, PTL DEF InstallSpec, PriorKept

-------------------------------------------------------------------------------

(* The importer behind its dialogs. *)

\* A picker and an import exclude each other, whoever has one holds the busy
\* flag, and the worker is in the core only while the job says so.
BusyInv ==
    /\ ~(picker /\ job # "none")
    /\ picker \/ job # "none" => busy /\ ~running
    /\ job # "calling" => place[Worker] \in {"out", "returned"}

ImportInv == Inv /\ ImportTypeOK /\ BusyInv

\* No step of a call touches a cancel flag.
LEMMA CallsKeepCancel ==
    ASSUME NEW w \in Callers, Enter(w) \/ InstallStep(w)
    PROVE  cancel' = cancel
<1> USE DEF Throw, Fails, Cancelled, Goto, files, settings
<1>1. CASE Enter(w) BY <1>1 DEF Enter
<1>2. CASE Validate(w) BY <1>2 DEF Validate
<1>3. CASE Copy(w) \/ Inspect(w) BY <1>3 DEF Copy, Check, Inspect
<1>4. CASE Examine(w) \/ Redirect(w) \/ Write(w) BY <1>4 DEF Examine, Redirect, Write
<1>5. CASE Verify(w) \/ Precommit(w) \/ Commit(w) BY <1>5 DEF Verify, Precommit, Commit
<1>6. CASE Restore(w) \/ Remove(w) \/ Return(w) BY <1>6 DEF Restore, Remove, Return
<1> QED BY <1>1, <1>2, <1>3, <1>4, <1>5, <1>6 DEF InstallStep

\* A step of one call leaves the place of every other call.
LEMMA CallsKeepPlaces ==
    ASSUME InstallTypeOK, NEW w \in Callers, NEW u \in Callers \ {w}, Enter(w) \/ InstallStep(w)
    PROVE  place'[u] = place[u]
<1> USE DEF Throw, Fails, Cancelled, Goto, InstallTypeOK
<1>1. CASE Enter(w) BY <1>1 DEF Enter
<1>2. CASE Validate(w) BY <1>2 DEF Validate
<1>3. CASE Copy(w) \/ Inspect(w) BY <1>3 DEF Copy, Check, Inspect
<1>4. CASE Examine(w) \/ Redirect(w) \/ Write(w) BY <1>4 DEF Examine, Redirect, Write
<1>5. CASE Verify(w) \/ Precommit(w) \/ Commit(w) BY <1>5 DEF Verify, Precommit, Commit
<1>6. CASE Restore(w) \/ Remove(w) \/ Return(w) BY <1>6 DEF Restore, Remove, Return
<1> QED BY <1>1, <1>2, <1>3, <1>4, <1>5, <1>6 DEF InstallStep

\* Cancel flags and the frontend's instance are no part of the call's own invariant.
LEMMA FlagsInv ==
    ASSUME Inv, UNCHANGED callVars, cancel' \in [Callers -> BOOLEAN], frontend' \in BOOLEAN
    PROVE  Inv'
BY DEF Inv, callVars, files, settings, InstallTypeOK, LockInv, StagingInv, SettingsInv,
       AnswerInv, LiveTitleWhole

\* The invariant holds at the start.
LEMMA InitImport == ImportInit => ImportInv
<1> SUFFICES ASSUME ImportInit PROVE ImportInv OBVIOUS
<1>1. Inv BY InitInv DEF ImportInit
<1>2. ImportTypeOK
  <2>1. confirms \in 0..MaxConfirms BY MaxConfirmsAssumption DEF ImportInit
  <2> QED BY <1>1, <2>1 DEF ImportInit, Inv, ImportTypeOK, Jobs
<1>3. BusyInv BY WorkerAssumption DEF ImportInit, InstallInit, BusyInv
<1> QED BY <1>1, <1>2, <1>3 DEF ImportInv

\* What a step keeps besides the invariant: an existing title, and a cancel
\* until the import has reported.
Kept ==
    /\ live # "absent" => live' = live
    /\ job # "none" /\ cancel[Worker] /\ job' # "none" => cancel'[Worker]

\* Dialogs: only an idle importer confirms, and only without a game.
LEMMA DialogImport ==
    ASSUME ImportInv,
           \/ presentExperimentalCIAImporter \/ ConfirmDismissed \/ Confirm
           \/ documentPickerWasCancelled \/ PickRejected \/ PickAccepted
           \/ ShowProgress \/ CancelButton \/ manicCIADidEnterBackground
    PROVE  ImportInv' /\ Kept
<1> USE WorkerAssumption DEF uiVars, installVars, callVars, files, settings, SetCancel
<1>t. Inv /\ ImportTypeOK /\ BusyInv BY DEF ImportInv
<1>c. cancel \in [Callers -> BOOLEAN] /\ frontend \in BOOLEAN
  BY <1>t DEF ImportTypeOK, InstallTypeOK
<1>1. /\ UNCHANGED callVars
      /\ cancel' \in [Callers -> BOOLEAN] /\ frontend' \in BOOLEAN
      /\ Kept
  BY <1>t, <1>c DEF BusyInv, Kept, presentExperimentalCIAImporter, ConfirmDismissed, Confirm, Refused,
     documentPickerWasCancelled, PickRejected, PickAccepted, ShowProgress, CancelButton,
     manicCIADidEnterBackground
<1>2. Inv' BY <1>1, <1>t, FlagsInv
<1>3. ImportTypeOK'
  <2>1. InstallTypeOK' BY <1>2 DEF Inv
  <2>2. confirms \in 0..MaxConfirms BY <1>t DEF ImportTypeOK
  <2>3. confirms' \in 0..MaxConfirms
    BY <2>2, MaxConfirmsAssumption DEF presentExperimentalCIAImporter, ConfirmDismissed, Confirm,
       documentPickerWasCancelled, PickRejected, PickAccepted, ShowProgress, CancelButton,
       manicCIADidEnterBackground
  <2>4. /\ busy' \in BOOLEAN /\ picker' \in BOOLEAN /\ progress' \in BOOLEAN
        /\ running' \in BOOLEAN /\ loaded' \in BOOLEAN /\ job' \in Jobs
    BY <1>t DEF ImportTypeOK, Jobs, presentExperimentalCIAImporter, ConfirmDismissed, Confirm,
       documentPickerWasCancelled, PickRejected, PickAccepted, ShowProgress, CancelButton,
       manicCIADidEnterBackground
  <2> QED BY <2>1, <2>3, <2>4 DEF ImportTypeOK
<1>4. BusyInv'
  BY <1>t DEF BusyInv, presentExperimentalCIAImporter, ConfirmDismissed, Confirm, Refused,
     documentPickerWasCancelled, PickRejected, PickAccepted, ShowProgress, CancelButton,
     manicCIADidEnterBackground
<1> QED BY <1>1, <1>2, <1>3, <1>4 DEF ImportInv

\* The worker: it enters the core anew for every import.
LEMMA WorkerImport ==
    ASSUME ImportInv, WorkerOpens \/ WorkerCalls \/ WorkerReturns \/ Report
    PROVE  ImportInv' /\ Kept
<1> USE WorkerAssumption
<1>t. Inv /\ ImportTypeOK /\ InstallTypeOK /\ BusyInv BY DEF ImportInv, Inv
<1>1. CASE WorkerOpens
  <2>1. place[Worker] \in {"out", "returned"} BY <1>1, <1>t DEF WorkerOpens, BusyInv
  <2>2. /\ \A u \in Callers \ {Worker} : place'[u] = place[u]
        /\ place'[Worker] \in {"out", "returned"} /\ place' \in [Callers -> Places]
        /\ UNCHANGED <<status, staging, saved, owner, userPath, compress, live, frontend,
                       cancel, litter, preferred, published>>
    BY <1>1, <1>t, <2>1 DEF WorkerOpens, Goto, InstallTypeOK, Places, files, settings
  <2>3. place'[Worker] = "returned" => place[Worker] = "returned"
    BY <1>1, <1>t, <2>1 DEF WorkerOpens, Goto, InstallTypeOK
  <2>4. InstallTypeOK' BY <2>2, <1>t DEF InstallTypeOK
  <2>5. LockInv' /\ StagingInv' /\ LiveTitleWhole'
    BY <2>2, <2>3, <1>t DEF Inv, LockInv, StagingInv, LiveTitleWhole, Inside, Guarded
  <2>6. SettingsInv' BY <2>1, <2>2, <1>t DEF Inv, SettingsInv, Altered, Guarded
  <2>7. AnswerInv' BY <2>2, <2>3, <1>t DEF Inv, AnswerInv, Inside, Guarded
  <2>8. ImportTypeOK' BY <2>4, <1>1, <1>t DEF ImportTypeOK, WorkerOpens, Jobs
  <2>9. BusyInv' BY <1>1, <1>t, <2>2 DEF BusyInv, WorkerOpens
  <2> QED BY <2>2, <2>4, <2>5, <2>6, <2>7, <2>8, <2>9 DEF ImportInv, Inv, Kept
<1>2. CASE WorkerCalls
  <2>1. Inv' /\ (live # "absent" => live' = live) BY <1>2, <1>t, StepInv DEF WorkerCalls
  <2>2. cancel' = cancel BY <1>2, CallsKeepCancel DEF WorkerCalls
  <2>3. ImportTypeOK' BY <1>2, <2>1, <1>t DEF ImportTypeOK, Inv, WorkerCalls, uiVars
  <2>4. BusyInv' BY <1>2, <1>t DEF BusyInv, WorkerCalls, uiVars
  <2> QED BY <2>1, <2>2, <2>3, <2>4 DEF ImportInv, Kept
<1>3. CASE WorkerReturns \/ Report
  <2>1. UNCHANGED installVars BY <1>3 DEF WorkerReturns, Report
  <2>2. Inv' /\ (live # "absent" => live' = live) BY <2>1, <1>t, NextInv
  <2>3. ImportTypeOK' BY <1>3, <2>2, <1>t DEF ImportTypeOK, Inv, WorkerReturns, Report, Jobs
  <2>4. BusyInv' BY <1>3, <2>1, <1>t DEF BusyInv, WorkerReturns, Report, installVars
  <2> QED BY <2>1, <2>2, <2>3, <2>4 DEF ImportInv, Kept, installVars
<1> QED BY <1>1, <1>2, <1>3

\* The frontend: a game starts and a core is unloaded only when nothing is busy.
LEMMA FrontendImport ==
    ASSUME ImportInv,
           \/ startWithCustomSaveDir \/ stop \/ loadGame \/ loadCoreWithoutContent
           \/ reload \/ loadCoreWithoutRunning
    PROVE  ImportInv' /\ Kept
<1> USE WorkerAssumption DEF uiVars, installVars, callVars, files, settings, SetCancel,
        CoreLoads, loadGame, loadCoreWithoutContent, reload, loadCoreWithoutRunning
<1>t. Inv /\ ImportTypeOK /\ BusyInv BY DEF ImportInv
<1>c. cancel \in [Callers -> BOOLEAN] /\ frontend \in BOOLEAN
  BY <1>t DEF ImportTypeOK, InstallTypeOK
<1>1. /\ UNCHANGED callVars
      /\ cancel' \in [Callers -> BOOLEAN] /\ frontend' \in BOOLEAN
      /\ Kept
  BY <1>t, <1>c DEF BusyInv, Kept, startWithCustomSaveDir, stop
<1>2. Inv' BY <1>1, <1>t, FlagsInv
<1>3. ImportTypeOK'
  BY <1>2, <1>t DEF Inv, ImportTypeOK, startWithCustomSaveDir, stop
<1>4. BusyInv' BY <1>t DEF BusyInv, startWithCustomSaveDir, stop
<1> QED BY <1>1, <1>2, <1>3, <1>4 DEF ImportInv

\* Other writers, other callers and the end of the app.
LEMMA OthersImport ==
    ASSUME ImportInv,
           \/ DirectoryAppears /\ UNCHANGED <<uiVars, running, loaded>>
           \/ OtherCall \/ AppKilled
    PROVE  ImportInv' /\ Kept
<1> USE WorkerAssumption DEF uiVars
<1>t. Inv /\ ImportTypeOK /\ InstallTypeOK /\ BusyInv BY DEF ImportInv, Inv
<1>1. CASE DirectoryAppears /\ UNCHANGED <<uiVars, running, loaded>>
  <2>1. Inv' /\ (live # "absent" => live' = live) BY <1>1, <1>t, WorldInv
  <2>2. ImportTypeOK' BY <1>1, <2>1, <1>t DEF ImportTypeOK, Inv
  <2>3. BusyInv' /\ cancel' = cancel BY <1>1, <1>t DEF BusyInv, DirectoryAppears
  <2> QED BY <1>1, <2>1, <2>2, <2>3 DEF ImportInv, Kept
<1>2. CASE OtherCall
  <2>1. PICK c \in Callers \ {Worker} : Enter(c) \/ InstallStep(c) BY <1>2 DEF OtherCall
  <2>2. Inv' /\ (live # "absent" => live' = live) BY <2>1, <1>t, StepInv
  <2>3. cancel' = cancel BY <2>1, CallsKeepCancel
  <2>4. place'[Worker] = place[Worker] BY <2>1, <1>t, CallsKeepPlaces
  <2>5. ImportTypeOK' BY <1>2, <2>2, <1>t DEF ImportTypeOK, Inv, OtherCall
  <2>6. BusyInv' BY <1>2, <2>4, <1>t DEF BusyInv, OtherCall
  <2> QED BY <2>2, <2>3, <2>5, <2>6 DEF ImportInv, Kept
<1>3. CASE AppKilled
  <2>1. Inv' /\ (live # "absent" => live' = live) BY <1>3, <1>t, WorldInv DEF AppKilled
  <2>2. ImportTypeOK'
    <3>1. confirms' \in 0..MaxConfirms BY <1>3, MaxConfirmsAssumption DEF AppKilled
    <3> QED BY <1>3, <2>1, <3>1 DEF ImportTypeOK, Inv, AppKilled, Jobs
  <2>3. BusyInv' BY <1>3 DEF BusyInv, AppKilled, Killed
  <2> QED BY <1>3, <2>1, <2>2, <2>3 DEF ImportInv, Kept, AppKilled
<1> QED BY <1>1, <1>2, <1>3

\* Every step of the app keeps the invariant, titles and cancel requests.
LEMMA NextImport ==
    ASSUME ImportInv, [ImportNext]_importVars
    PROVE  ImportInv' /\ Kept
<1>1. CASE UNCHANGED importVars
  <2>1. UNCHANGED installVars BY <1>1 DEF importVars
  <2>2. Inv' /\ (live # "absent" => live' = live) BY <2>1, NextInv DEF ImportInv
  <2>3. ImportTypeOK' /\ BusyInv' /\ Kept
    BY <1>1, <2>2 DEF importVars, uiVars, installVars, ImportInv, Inv, ImportTypeOK, BusyInv, Kept
  <2> QED BY <2>2, <2>3 DEF ImportInv
<1>2. CASE ImportNext
  BY <1>2, DialogImport, WorkerImport, FrontendImport, OthersImport DEF ImportNext
<1> QED BY <1>1, <1>2

\* The inductive invariant of the importer behind its dialogs.
LEMMA ImportInvariance == ImportSpec => []ImportInv
BY InitImport, NextImport, PTL DEF ImportSpec

\* No game runs and none can be started from the moment the picker opens until
\* the import has reported, however many confirmation dialogs are left open.
THEOREM GameIsExcluded == ImportSpec => []ImportExcludesGame
<1>1. ImportInv => ImportExcludesGame BY DEF ImportInv, BusyInv, ImportExcludesGame
<1> QED BY <1>1, ImportInvariance, PTL

\* The cancel flag of an import is not reset by a later dialog.
THEOREM CancelIsKept == ImportSpec => CancelSticks
<1>1. ImportInv /\ [ImportNext]_importVars =>
        [job # "none" /\ cancel[Worker] /\ job' # "none" => cancel'[Worker]]_importVars
  BY NextImport DEF Kept
<1> QED BY <1>1, ImportInvariance, PTL DEF ImportSpec, CancelSticks

\* Behind the dialogs, too, a title is whole, a status true, and settings come back.
THEOREM ImporterKeepsPromises ==
    ImportSpec => [](LiveTitleWhole /\ ResultIsTrue /\ SettingsRestored)
<1>1. Inv => LiveTitleWhole BY DEF Inv
<1>2. Inv => ResultIsTrue BY DEF Inv, AnswerInv, ResultIsTrue
<1>3. Inv => SettingsRestored
  BY CallersAssumption DEF Inv, InstallTypeOK, LockInv, SettingsInv, SettingsRestored,
                           Inside, Guarded, Altered
<1>4. ImportInv => Inv BY DEF ImportInv
<1> QED BY <1>1, <1>2, <1>3, <1>4, ImportInvariance, PTL

================================================================================
