------------------------------ MODULE RoomSession ------------------------------
(***************************************************************************)
(* The room bridge of the libretro core: citra_libretro/room_session.cpp,   *)
(* on top of the RoomMember it drives.                                      *)
(*                                                                         *)
(* api_mutex serialises the lifecycle calls and the exported join and       *)
(* leave, so one of them is under way at a time: `api` is where it is.  An  *)
(* accepted join starts a worker thread, Run, and the worker is the caller  *)
(* of RoomMember's Join and Leave.  The callbacks that RoomMember invokes,  *)
(* from the worker or from MemberLoop, and the worker itself write the      *)
(* snapshot that the user interface polls.                                  *)
(***************************************************************************)
EXTENDS RoomMember

CONSTANT MaxMembers   \* names a snapshot can hold: 254 in az_room_snapshot

ASSUME MaxMembersAssumption == MaxMembers \in Nat

VARIABLES
    member,    \* "null", "unbound" (callbacks missing) or "bound"
    ready,     \* a game is running
    cancel,    \* std::atomic<bool> cancel
    finished,  \* std::atomic<bool> finished
    snapshot,  \* az_room_snapshot: state, error and member_count
    worker,    \* the worker thread and where Run is
    api        \* the call that holds api_mutex and where it is

sessionVars == <<member, ready, cancel, finished, snapshot, worker, api>>
vars == <<memberVars, sessionVars>>

SnapshotStates == {"OFFLINE", "IDLE", "JOINING", "JOINED", "LEAVING"}

Snapshots == [state : SnapshotStates,
              error : Errors \cup {None, "internal", "timeout"},
              members : 0 .. MaxMembers]

\* "none" is a thread object that is not joinable, "exited" one whose Run has
\* returned and that nobody has joined yet.
WorkerRunning == {"start", "inJoin", "check", "expired", "caught", "leave",
                  "inLeave", "idle", "finish"}
WorkerPlaces == WorkerRunning \cup {"none", "exited"}

Waits == {"readyWait", "stopWait", "shutdownWait", "joinWait"}
ApiPlaces == Waits \cup {"free", "unbind", "joinCancel", "joinSnapshot",
                         "joinStart", "leaveSnapshot"}

TypeOK ==
    /\ MemberTypeOK
    /\ member \in {"null", "unbound", "bound"}
    /\ ready \in BOOLEAN
    /\ cancel \in BOOLEAN
    /\ finished \in BOOLEAN
    /\ snapshot \in Snapshots
    /\ worker \in WorkerPlaces
    /\ api \in ApiPlaces

Init ==
    /\ MemberInit
    /\ member = "null"
    /\ ready = FALSE
    /\ cancel = FALSE
    /\ finished = TRUE
    /\ snapshot = [state |-> "OFFLINE", error |-> None, members |-> 0]
    /\ worker = "none"
    /\ api = "free"

ClearMembers(s) == [s EXCEPT !.members = 0]

------------------------------------------------------------------------------
(* The callbacks bound by Initialize.  Each holds snapshot_mutex.           *)

\* Faulty: the callback does not look at cancel.
OnStateChangedAfterCancel(t, s) ==
    /\ InvokeState(t, s)
    /\ snapshot' = IF member = "bound" /\ s \in {"Joined", "Moderator"}
                     THEN [snapshot EXCEPT !.state = "JOINED"]
                     ELSE snapshot
    /\ UNCHANGED <<member, ready, cancel, finished, worker, api>>

OnStateChanged(t, s) ==
    /\ InvokeState(t, s)
    /\ snapshot' = IF member = "bound" /\ ~cancel /\ s \in {"Joined", "Moderator"}
                     THEN [snapshot EXCEPT !.state = "JOINED"]
                     ELSE snapshot
    /\ UNCHANGED <<member, ready, cancel, finished, worker, api>>

OnError(t, e) ==
    /\ InvokeError(t, e)
    /\ snapshot' = IF member = "bound" /\ ~cancel
                     THEN [snapshot EXCEPT !.error = e]
                     ELSE snapshot
    /\ UNCHANGED <<member, ready, cancel, finished, worker, api>>

\* Faulty: copies every member, past the end of snapshot.members.
OnRoomInformationUnbounded(t) ==
    /\ InvokeRoom(t)
    /\ snapshot' = IF member = "bound" /\ ~cancel
                     THEN [snapshot EXCEPT !.members = info]
                     ELSE snapshot
    /\ UNCHANGED <<member, ready, cancel, finished, worker, api>>

OnRoomInformationChanged(t) ==
    /\ InvokeRoom(t)
    /\ snapshot' = IF member = "bound" /\ ~cancel
                     THEN [snapshot EXCEPT !.members =
                             IF info > MaxMembers THEN MaxMembers ELSE info]
                     ELSE snapshot
    /\ UNCHANGED <<member, ready, cancel, finished, worker, api>>

SessionCallback(t) ==
    \/ (StoreState(t) \/ LoadState(t)) /\ UNCHANGED sessionVars
    \/ \E s \in States : OnStateChanged(t, s)
    \/ \E e \in Errors : OnError(t, e)
    \/ OnRoomInformationChanged(t)

------------------------------------------------------------------------------
(* Run, the worker thread.                                                  *)

WorkerJoin ==
    /\ worker = "start"
    /\ Join
    /\ worker' = "inJoin"
    /\ UNCHANGED <<member, ready, cancel, finished, snapshot, api>>

WorkerJoinReturned ==
    /\ worker = "inJoin"
    /\ Return
    /\ worker' = IF call = "threw" THEN "caught" ELSE "check"
    /\ UNCHANGED <<member, ready, cancel, finished, snapshot, api>>

\* Faulty: the polling loop ends only when the connection does.
WorkerPollIgnoringCancel ==
    /\ worker = "check"
    /\ ~IsConnected
    /\ worker' = "leave"
    /\ UNCHANGED <<memberVars, member, ready, cancel, finished, snapshot, api>>

\* The while condition turned false.
WorkerStopPolling ==
    /\ worker = "check"
    /\ cancel \/ ~IsConnected
    /\ worker' = "leave"
    /\ UNCHANGED <<memberVars, member, ready, cancel, finished, snapshot, api>>

\* Faulty: the deadline is tested in the wrong state.
WorkerExpireJoined ==
    /\ worker = "check"
    /\ ~cancel
    /\ state = "Joined"
    /\ worker' = "expired"
    /\ UNCHANGED <<memberVars, member, ready, cancel, finished, snapshot, api>>

\* Still Joining when the 10 s deadline has passed.
WorkerExpire ==
    /\ worker = "check"
    /\ ~cancel
    /\ state = "Joining"
    /\ worker' = "expired"
    /\ UNCHANGED <<memberVars, member, ready, cancel, finished, snapshot, api>>

WorkerReport(place, error) ==
    /\ worker = place
    /\ snapshot' = [snapshot EXCEPT !.error = error]
    /\ worker' = "leave"
    /\ UNCHANGED <<memberVars, member, ready, cancel, finished, api>>

\* Faulty: a Run whose Join failed does not call Leave.
WorkerLeaveSkipped ==
    /\ worker = "leave"
    /\ IF IsConnected
         THEN Leave(TRUE) /\ worker' = "inLeave"
         ELSE UNCHANGED memberVars /\ worker' = "idle"
    /\ UNCHANGED <<member, ready, cancel, finished, snapshot, api>>

WorkerLeave ==
    /\ worker = "leave"
    /\ Leave(TRUE)
    /\ worker' = "inLeave"
    /\ UNCHANGED <<member, ready, cancel, finished, snapshot, api>>

WorkerLeft ==
    /\ worker = "inLeave"
    /\ Return
    /\ worker' = "idle"
    /\ UNCHANGED <<member, ready, cancel, finished, snapshot, api>>

WorkerSetIdle ==
    /\ worker = "idle"
    /\ snapshot' = ClearMembers([snapshot EXCEPT !.state = "IDLE"])
    /\ worker' = "finish"
    /\ UNCHANGED <<memberVars, member, ready, cancel, finished, api>>

WorkerFinish ==
    /\ worker = "finish"
    /\ finished' = TRUE
    /\ worker' = "exited"
    /\ UNCHANGED <<memberVars, member, ready, cancel, snapshot, api>>

WorkerStep ==
    \/ WorkerJoin
    \/ WorkerJoinReturned
    \/ WorkerStopPolling
    \/ WorkerExpire
    \/ WorkerReport("expired", "timeout")
    \/ WorkerReport("caught", "internal")
    \/ WorkerLeave
    \/ WorkerLeft
    \/ WorkerSetIdle
    \/ WorkerFinish
    \/ JoinStep(cancel) /\ UNCHANGED sessionVars
    \/ LeaveStep /\ UNCHANGED sessionVars

------------------------------------------------------------------------------
(* The calls that hold api_mutex.                                           *)

\* Network::Init may fail, and binding may throw after `member` is set.
Initialize(outcome) ==
    /\ api = "free"
    /\ member = "null"
    /\ member' = CASE outcome = "ok" -> "bound"
                   [] outcome = "noNetwork" -> "null"
                   [] outcome = "threw" -> "unbound"
    /\ snapshot' = IF outcome = "ok" THEN snapshot
                   ELSE [snapshot EXCEPT !.error = "internal"]
    /\ UNCHANGED <<memberVars, ready, cancel, finished, worker, api>>

\* The first half of StopWorker, by the call that waits at place `w`.
BeginStop(w) ==
    /\ api = "free"
    /\ cancel' = TRUE
    /\ api' = w
    /\ UNCHANGED <<memberVars, member, finished, snapshot, worker>>

\* Faulty: the thread object is replaced without a join.
DetachWorker(w) ==
    /\ api = w
    /\ worker' = "none"
    /\ UNCHANGED <<memberVars, cancel, finished>>

\* worker.join() returns, or there was nothing to join.
JoinWorker(w) ==
    /\ api = w
    /\ worker \in {"none", "exited"}
    /\ worker' = "none"
    /\ UNCHANGED <<memberVars, cancel, finished>>

GameReady ==
    /\ member = "bound"
    /\ BeginStop("readyWait")
    /\ UNCHANGED ready

GameReadyDone ==
    /\ JoinWorker("readyWait")
    /\ ready' = TRUE
    /\ snapshot' = [snapshot EXCEPT !.state = "IDLE", !.error = None]
    /\ api' = "free"
    /\ UNCHANGED member

GameStopped ==
    /\ BeginStop("stopWait")
    /\ ready' = FALSE

GameStoppedDone ==
    /\ JoinWorker("stopWait")
    /\ snapshot' = ClearMembers([snapshot EXCEPT !.state = "OFFLINE"])
    /\ api' = "free"
    /\ UNCHANGED <<member, ready>>

Shutdown ==
    /\ BeginStop("shutdownWait")
    /\ ready' = FALSE

ShutdownOffline ==
    /\ JoinWorker("shutdownWait")
    /\ snapshot' = ClearMembers([snapshot EXCEPT !.state = "OFFLINE"])
    /\ api' = "unbind"
    /\ UNCHANGED <<member, ready>>

\* Unbinds the callbacks and drops the RoomMember.
ShutdownUnbind ==
    /\ api = "unbind"
    /\ member' = "null"
    /\ api' = "free"
    /\ UNCHANGED <<memberVars, ready, cancel, finished, snapshot, worker>>

\* retro_azahar_room_join, once its input has been found valid.  Without a
\* game it returns 2, with a session under way 3, and changes nothing.
RoomJoin ==
    /\ api = "free"
    /\ ready
    /\ finished
    /\ api' = "joinWait"
    /\ UNCHANGED <<memberVars, member, ready, cancel, finished, snapshot, worker>>

RoomJoinWorker ==
    /\ JoinWorker("joinWait")
    /\ api' = "joinCancel"
    /\ UNCHANGED <<member, ready, snapshot>>

RoomJoinCancel ==
    /\ api = "joinCancel"
    /\ cancel' = FALSE
    /\ api' = "joinSnapshot"
    /\ UNCHANGED <<memberVars, member, ready, finished, snapshot, worker>>

RoomJoinSnapshot ==
    /\ api = "joinSnapshot"
    /\ snapshot' = [state |-> "JOINING", error |-> None, members |-> 0]
    /\ api' = "joinStart"
    /\ UNCHANGED <<memberVars, member, ready, cancel, finished, worker>>

\* finished = false, then the thread; when it cannot be created the session
\* is taken back under snapshot_mutex.
RoomJoinStart(ok) ==
    /\ api = "joinStart"
    /\ IF ok
         THEN /\ finished' = FALSE
              /\ worker' = "start"
              /\ UNCHANGED snapshot
         ELSE /\ snapshot' = [snapshot EXCEPT !.state = "IDLE", !.error = "internal"]
              /\ UNCHANGED <<finished, worker>>
    /\ api' = "free"
    /\ UNCHANGED <<memberVars, member, ready, cancel>>

RoomLeave ==
    /\ BeginStop("leaveSnapshot")
    /\ UNCHANGED ready

RoomLeaveSnapshot ==
    /\ api = "leaveSnapshot"
    /\ snapshot' = IF finished THEN snapshot
                   ELSE [snapshot EXCEPT !.state = "LEAVING"]
    /\ api' = "free"
    /\ UNCHANGED <<memberVars, member, ready, cancel, finished, worker>>

\* A call begins.
ApiCall ==
    \/ \E o \in {"ok", "noNetwork", "threw"} : Initialize(o)
    \/ GameReady
    \/ GameStopped
    \/ Shutdown
    \/ RoomJoin
    \/ RoomLeave

\* A call under way goes on.
ApiStep ==
    \/ GameReadyDone
    \/ GameStoppedDone
    \/ ShutdownOffline
    \/ ShutdownUnbind
    \/ RoomJoinWorker
    \/ RoomJoinCancel
    \/ RoomJoinSnapshot
    \/ \E ok \in BOOLEAN : RoomJoinStart(ok)
    \/ RoomLeaveSnapshot

------------------------------------------------------------------------------

WorkerThread == WorkerStep \/ SessionCallback("caller")
LoopThread == (LoopStep /\ UNCHANGED sessionVars) \/ SessionCallback("loop")
EmuThread == EmuStep /\ UNCHANGED sessionVars

Next == ApiCall \/ ApiStep \/ WorkerThread \/ LoopThread \/ EmuThread

Spec == Init /\ [][Next]_vars

\* Threads keep running; Join's 5 s and Run's 10 s deadlines pass; nothing is
\* assumed of the server, of the player or of the console.
Fairness ==
    /\ WF_vars(ApiStep)
    /\ WF_vars(WorkerThread)
    /\ WF_vars(LoopThread)
    /\ SF_vars(JoinServiceFail /\ UNCHANGED sessionVars)
    /\ WF_vars(WorkerExpire)

FairSpec == Spec /\ Fairness

------------------------------------------------------------------------------
(* Properties                                                               *)

\* IDLE is shown only when nothing of the last session is left: no loop
\* thread, no ENet host, no callback owed ("Idle is exposed only after Run
\* has cleaned up the transport", room_session.cpp).
IdleMeansCleanedUp ==
    snapshot.state \in {"IDLE", "OFFLINE"} =>
        /\ loop = "none"
        /\ ~client
        /\ state = "Idle"
        /\ \A t \in Threads : Quiet(t)

\* JOINED is shown only while a worker is running that has still to show
\* IDLE: the room screen can never be left claiming a membership whose
\* transport nobody is going to clean up.
JoinedMeansRunning ==
    snapshot.state = "JOINED" =>
        /\ ~finished
        /\ worker \in WorkerRunning \ {"start", "finish"}

\* The two together: what the snapshot shows agrees with the threads and the
\* sockets behind it, although several threads write it.
SnapshotIsTrue == IdleMeansCleanedUp /\ JoinedMeansRunning

\* Whatever ended a session that nobody cancelled is on show when the session
\* is: a refusal, an eviction, a failed connection or a timeout never
\* disappears between MemberLoop's callback and Run's cleanup.
EveryFailureExplained ==
    /\ snapshot.state = "IDLE"
    /\ ~cancel
    /\ api # "joinSnapshot"
    => snapshot.error # None

\* A new session starts from nothing: when join resets the snapshot, no
\* thread of an earlier session can still write to it.
NoOrphan ==
    api \in {"joinCancel", "joinSnapshot", "joinStart", "unbind"} =>
        /\ worker = "none"
        /\ loop = "none"
        /\ finished
        /\ \A t \in Threads : Quiet(t)

\* MemberLoop and the worker's callbacks only run while the callbacks are
\* bound, and the RoomMember is never dropped while connected
\* (~RoomMember asserts !IsConnected).
BoundWhileRunning ==
    (worker \in WorkerRunning \/ loop # "none" \/ IsConnected) => member = "bound"

\* The error of a finished session is never one that a later callback could
\* still change: a session that is over has a stopped worker.
FinishedMeansStopped ==
    finished => worker \in {"none", "exited"} /\ call = "out" /\ ~IsConnected

\* The three together: every thread belongs to the attempt that is under way, and
\* what it uses outlives it (StopWorker, Shutdown, retro_azahar_room_join).
ThreadsAreOwned == NoOrphan /\ BoundWhileRunning /\ FinishedMeansStopped

\* The bridge implements RoomApi: through all its threads and locks, what the
\* screen sees changes only the way the interface allows.  A session counts as
\* busy until Run stores `finished`.
Api == INSTANCE RoomApi
         WITH shown <- snapshot.state, open <- ready, busy <- ~finished,
              cancelled <- cancel
ImplementsApi == Api!ApiSpec

\* Once a session is cancelled, JOINED is not announced any more, whatever
\* the server answers, until a new join has been accepted.
CancelIsFinal ==
    [][cancel /\ snapshot'.state = "JOINED" => snapshot.state = "JOINED"]_vars

\* A cancelled session is over in the end, unless MemberLoop announced the
\* room's welcome after Leave had already set the state to Idle.
LateWelcome == call = "joinLoop" /\ InRoom
CancelEndsSession == (cancel /\ ~finished) ~> (finished \/ LateWelcome)

\* Joining never lasts: the player sees an outcome, or the room has let the
\* member in.
JoiningResolves == (snapshot.state = "JOINING") ~> (snapshot.state # "JOINING" \/ InRoom)

\* What room_api.h says of state 4: "lasts until socket cleanup completes".
LeavingEndsWithCleanup == finished => snapshot.state # "LEAVING"

\* What ARCHITECTURE.md says of leaving: the worker frees socket and thread.
LeaveFreesThread == (cancel /\ ~finished) ~> finished
==============================================================================
