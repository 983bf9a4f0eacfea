------------------------------- MODULE CiaImport -------------------------------
(***************************************************************************)
(* The importer's user interface, ManicCIAUI.inc, and the entry points of  *)
(* LibretroCore.m that start, stop and load.  Everything here runs on the  *)
(* main queue, one block at a time; the call of the core runs on a worker  *)
(* and is the one of CiaInstall, which asks this module's cancel flag.     *)
(***************************************************************************)
EXTENDS CiaInstall

CONSTANTS
    Worker,       \* the caller that the background queue runs
    MaxConfirms   \* bound: confirmation dialogs open at a time

ASSUME WorkerAssumption == Worker \in Callers
ASSUME MaxConfirmsAssumption == MaxConfirms \in Nat \ {0}

\* "posted": the picker is done and the progress block waits in the main queue;
\* "queued": the worker block waits; "calling": the worker is in the core;
\* "done": the library is closed and the report waits in the main queue.
Jobs == {"none", "posted", "queued", "calling", "done"}

VARIABLES
    busy,       \* ciaImportBusy; ciaImportCancelled is cancel[Worker]
    confirms,   \* confirmation dialogs on the screen
    picker,     \* the document picker is on the screen
    progress,   \* the progress dialog is on the screen
    job,
    running,    \* isRunning
    loaded      \* the run loop's lib_handle is set

uiVars == <<busy, confirms, picker, progress, job>>
importVars == <<installVars, uiVars, running, loaded>>
callVars == <<place, status, staging, saved, owner, settings, files, preferred>>

\* Every variable of dialogs, worker and call is in its range.
ImportTypeOK ==
    /\ InstallTypeOK
    /\ busy \in BOOLEAN /\ picker \in BOOLEAN /\ progress \in BOOLEAN
    /\ running \in BOOLEAN /\ loaded \in BOOLEAN
    /\ confirms \in 0..MaxConfirms
    /\ job \in Jobs

ImportInit ==
    /\ InstallInit
    /\ busy = FALSE /\ picker = FALSE /\ progress = FALSE
    /\ confirms = 0
    /\ job = "none"
    /\ running = FALSE /\ loaded = FALSE

Refused == busy \/ running \/ loaded

SetCancel(b) == cancel' = [cancel EXCEPT ![Worker] = b]

-------------------------------------------------------------------------------

(* Dialogs. *)

presentExperimentalCIAImporter ==
    /\ ~Refused
    /\ confirms < MaxConfirms
    /\ confirms' = confirms + 1
    /\ UNCHANGED <<installVars, busy, picker, progress, job, running, loaded>>

\* Cancelled, or the file type is unknown.
ConfirmDismissed ==
    /\ confirms > 0
    /\ confirms' = confirms - 1
    /\ UNCHANGED <<installVars, busy, picker, progress, job, running, loaded>>

\* Faulty: what was checked before the dialog is believed.
ConfirmUnchecked ==
    /\ confirms > 0
    /\ confirms' = confirms - 1
    /\ busy' = TRUE
    /\ SetCancel(FALSE)
    /\ picker' \in BOOLEAN
    /\ UNCHANGED <<callVars, frontend, progress, job, running, loaded>>

\* Faulty: only the game is looked at again.
ConfirmTwice ==
    /\ confirms > 0 /\ ~running /\ ~loaded
    /\ confirms' = confirms - 1
    /\ busy' = TRUE
    /\ SetCancel(FALSE)
    /\ picker' \in BOOLEAN
    /\ UNCHANGED <<callVars, frontend, progress, job, running, loaded>>

\* Everything is looked at again; without a window the picker does not appear.
Confirm ==
    /\ confirms > 0
    /\ ~Refused
    /\ confirms' = confirms - 1
    /\ busy' = TRUE
    /\ SetCancel(FALSE)
    /\ picker' \in BOOLEAN
    /\ UNCHANGED <<callVars, frontend, progress, job, running, loaded>>

documentPickerWasCancelled ==
    /\ picker
    /\ picker' = FALSE
    /\ busy' = FALSE
    /\ UNCHANGED <<installVars, confirms, progress, job, running, loaded>>

\* No CIA file, or a game or a core has come up meanwhile.
PickRejected ==
    /\ picker
    /\ picker' = FALSE
    /\ busy' = FALSE
    /\ UNCHANGED <<installVars, confirms, progress, job, running, loaded>>

PickAccepted ==
    /\ picker /\ ~running /\ ~loaded
    /\ picker' = FALSE
    /\ job' = "posted"
    /\ UNCHANGED <<installVars, busy, confirms, progress, running, loaded>>

ShowProgress ==
    /\ job = "posted"
    /\ job' = "queued"
    /\ progress' \in BOOLEAN
    /\ UNCHANGED <<installVars, busy, confirms, picker, running, loaded>>

CancelButton ==
    /\ progress
    /\ progress' = FALSE
    /\ SetCancel(TRUE)
    /\ UNCHANGED <<callVars, frontend, busy, confirms, picker, job, running, loaded>>

\* Also the end of the background task's time.
manicCIADidEnterBackground ==
    /\ SetCancel(TRUE)
    /\ UNCHANGED <<callVars, frontend, uiVars, running, loaded>>

-------------------------------------------------------------------------------

(* The worker. *)

\* The library and its entry are there, or the answer is UNSUPPORTED.
WorkerOpens ==
    /\ job = "queued"
    /\ \/ job' = "calling" /\ Goto(Worker, "out")
       \/ job' = "done" /\ UNCHANGED place
    /\ UNCHANGED <<status, staging, saved, owner, settings, files, frontend, cancel,
                   preferred, busy, confirms, picker, progress, running, loaded>>

WorkerCalls ==
    /\ job = "calling"
    /\ Enter(Worker) \/ InstallStep(Worker)
    /\ UNCHANGED <<uiVars, running, loaded>>

WorkerReturns ==
    /\ job = "calling" /\ place[Worker] = "returned"
    /\ job' = "done"
    /\ UNCHANGED <<installVars, busy, confirms, picker, progress, running, loaded>>

\* Faulty: the report of a missing library stays away.
ReportIfCalled ==
    /\ job = "done" /\ place[Worker] = "returned"
    /\ job' = "none"
    /\ busy' = FALSE /\ progress' = FALSE
    /\ UNCHANGED <<installVars, confirms, picker, running, loaded>>

Report ==
    /\ job = "done"
    /\ job' = "none"
    /\ busy' = FALSE /\ progress' = FALSE
    /\ UNCHANGED <<installVars, confirms, picker, running, loaded>>

-------------------------------------------------------------------------------

(* The frontend.  RetroArch itself loads and initialises a core, which may   *)
(* be another one than Azahar.                                               *)

CoreLoads ==
    /\ loaded' = TRUE
    /\ frontend' \in BOOLEAN
    /\ UNCHANGED <<callVars, cancel, uiVars, running>>

startWithCustomSaveDir ==
    /\ ~busy
    /\ running' = TRUE
    /\ UNCHANGED <<installVars, uiVars, loaded>>

stop ==
    IF busy
    THEN /\ SetCancel(TRUE)
         /\ UNCHANGED <<callVars, frontend, uiVars, running, loaded>>
    ELSE /\ running' = FALSE /\ loaded' = FALSE
         /\ frontend' = FALSE
         /\ UNCHANGED <<callVars, cancel, uiVars>>

loadGame == ~busy /\ CoreLoads

loadCoreWithoutContent == ~busy /\ CoreLoads

reload == ~busy /\ loaded /\ CoreLoads

loadCoreWithoutRunning == CoreLoads

\* Another caller of the exported function, without a cancel callback; the mutex keeps one
\* of the two out.  Bound: it calls once.
OtherCall ==
    /\ \E c \in Callers \ {Worker} : Enter(c) \/ InstallStep(c)
    /\ UNCHANGED <<uiVars, running, loaded>>

\* The system ends the app.
AppKilled ==
    /\ Killed
    /\ busy' = FALSE /\ picker' = FALSE /\ progress' = FALSE
    /\ confirms' = 0 /\ job' = "none"
    /\ running' = FALSE /\ loaded' = FALSE

ImportNext ==
    \/ presentExperimentalCIAImporter \/ ConfirmDismissed \/ Confirm
    \/ documentPickerWasCancelled \/ PickRejected \/ PickAccepted
    \/ ShowProgress \/ CancelButton \/ manicCIADidEnterBackground
    \/ WorkerOpens \/ WorkerCalls \/ WorkerReturns \/ Report
    \/ startWithCustomSaveDir \/ stop \/ loadGame \/ loadCoreWithoutContent
    \/ reload \/ loadCoreWithoutRunning
    \/ DirectoryAppears /\ UNCHANGED <<uiVars, running, loaded>>
    \/ OtherCall \/ AppKilled

\* The main queue runs its blocks and the background queue its worker; the core
\* has no wait in it.  Nothing is asked of the user.
ImportFairness ==
    /\ WF_importVars(ShowProgress) /\ WF_importVars(Report)
    /\ WF_importVars(WorkerOpens) /\ WF_importVars(WorkerCalls)
    /\ WF_importVars(WorkerReturns)

ImportSpec == ImportInit /\ [][ImportNext]_importVars /\ ImportFairness

-------------------------------------------------------------------------------
(* Properties                                                               *)

\* "From start to end start/load/reload are refused": while the picker is up
\* or an import is under way the busy flag is set and no game runs, although
\* the flag is set in one dialog's handler and cleared in another's.
ImportExcludesGame ==
    /\ ImportTypeOK
    /\ picker \/ job # "none" => busy /\ ~running

\* A cancel, a stop or a background notification during an import is not
\* forgotten before that import has reported, whatever dialogs are still open.
CancelSticks ==
    [][job # "none" /\ cancel[Worker] /\ job' # "none" => cancel'[Worker]]_importVars

\* An import that was accepted gives the library back to the user: the busy
\* flag, which blocks every game, is cleared whichever way the call ends.
ImportEnds == job # "none" ~> ~busy

===============================================================================
