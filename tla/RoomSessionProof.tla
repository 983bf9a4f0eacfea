--------------------------- MODULE RoomSessionProof ---------------------------
(***************************************************************************)
(* Machine-checked proofs about RoomSession and the RoomMember it drives.   *)
(***************************************************************************)
EXTENDS RoomSession, TLAPS

USE DEF None

\* The jobs that the code hands to a thread are well-formed.
LEMMA JobTypes ==
    /\ NoJob \in Jobs
    /\ SetState("Joining") \in Jobs
    /\ SetState("Idle") \in Jobs
    /\ SetState("Joined") \in Jobs
    /\ SetState("Moderator") \in Jobs
    /\ \A e \in Errors : SetStateAndError("Idle", e) \in Jobs
    /\ SetStateAndError("Idle", "UnknownError") \in Jobs
    /\ SetStateAndError("Idle", "CouldNotConnect") \in Jobs
    /\ SetStateAndError("Idle", "LostConnection") \in Jobs
    /\ \A e \in Errors : [NoJob EXCEPT !.err = e] \in Jobs
    /\ [NoJob EXCEPT !.room = TRUE] \in Jobs
BY DEF NoJob, Jobs, SetState, SetStateAndError, States, Errors

\* So are the frames of the calls of Leave.
LEMMA FrameTypes ==
    \A i \in BOOLEAN, a \in {"return", "create", "fail"} :
        [imm |-> i, after |-> a] \in Frames
BY DEF Frames

\* Callbacks, in RoomMember: a thread works off the job it owes.
LEMMA CallbackType ==
    ASSUME MemberTypeOK, NEW t \in Threads, CallbackStep(t)
    PROVE  MemberTypeOK'
<1>0. job[t] \in Jobs BY DEF MemberTypeOK
<1>1. CASE StoreState(t)
  <2> DEFINE c == IF state = job[t].set THEN None ELSE "load"
  <2>1. [job[t] EXCEPT !.set = None, !.call = c] \in Jobs
    BY <1>0 DEF Jobs
  <2>2. job' = [job EXCEPT ![t] = [job[t] EXCEPT !.set = None, !.call = c]]
    BY <1>1 DEF StoreState, MemberTypeOK
  <2>3. job' \in [Threads -> Jobs]
    BY <2>1, <2>2 DEF MemberTypeOK
  <2>4. state' \in States
    BY <1>0, <1>1 DEF StoreState, Jobs
  <2> QED BY <1>1, <2>3, <2>4 DEF MemberTypeOK, StoreState
<1>2. CASE LoadState(t)
  BY <1>2 DEF MemberTypeOK, LoadState, Jobs
<1>3. CASE \E s \in States : InvokeState(t, s)
  BY <1>3 DEF MemberTypeOK, InvokeState, Jobs
<1>4. CASE \E e \in Errors : InvokeError(t, e)
  BY <1>4 DEF MemberTypeOK, InvokeError, Jobs
<1>5. CASE InvokeRoom(t)
  BY <1>5 DEF MemberTypeOK, InvokeRoom, Jobs
<1> QED BY <1>1, <1>2, <1>3, <1>4, <1>5 DEF CallbackStep

\* The steps of Join.
LEMMA JoinType ==
    ASSUME MemberTypeOK, NEW c \in BOOLEAN, JoinStep(c)
    PROVE  MemberTypeOK'
<1> USE DEF MemberTypeOK, CallPlaces, JoinPlaces, LeavePlaces,
        Packets, Threads, LoopPlaces, LoopRunning, Peers
<1>1. CASE JoinBegin BY <1>1, FrameTypes DEF JoinBegin
<1>2. CASE \E ok \in BOOLEAN : JoinCreate(ok) BY <1>2, JobTypes DEF JoinCreate, Owe
<1>3. CASE JoinSetJoining BY <1>3, JobTypes DEF JoinSetJoining, Owe
<1>4. CASE \E ok \in BOOLEAN : JoinResolve(ok)
  <2>1. job' \in [Threads -> Jobs] BY <1>4, JobTypes DEF JoinResolve, Owe
  <2>2. frame' \in Frames BY <1>4, FrameTypes DEF JoinResolve
  <2>3. call' \in CallPlaces BY <1>4 DEF JoinResolve
  <2> QED BY <1>4, <2>1, <2>2, <2>3 DEF JoinResolve
<1>5. CASE \E ok \in BOOLEAN : JoinConnect(ok) BY <1>5, JobTypes DEF JoinConnect, Owe
<1>6. CASE JoinPoll(c) BY <1>6, FrameTypes DEF JoinPoll
<1>7. CASE JoinServiceNothing BY <1>7 DEF JoinServiceNothing
<1>8. CASE JoinServiceConnect BY <1>8 DEF JoinServiceConnect
<1>9. CASE JoinServiceFail BY <1>9, FrameTypes DEF JoinServiceFail
<1>10. CASE \E ok \in BOOLEAN : JoinStartLoop(ok) BY <1>10 DEF JoinStartLoop
<1>11. CASE JoinSendRequest BY <1>11 DEF JoinSendRequest
<1>12. CASE JoinSendGameInfo BY <1>12 DEF JoinSendGameInfo
<1> QED BY <1>1, <1>2, <1>3, <1>4, <1>5, <1>6, <1>7, <1>8, <1>9, <1>10, <1>11,
           <1>12 DEF JoinStep

\* The entries and exits of Join and Leave, and the steps of Leave.
LEMMA LeaveType ==
    ASSUME MemberTypeOK, Join \/ Leave(TRUE) \/ LeaveStep \/ Return
    PROVE  MemberTypeOK'
<1> USE DEF MemberTypeOK, CallPlaces, JoinPlaces, LeavePlaces,
        Threads, LoopPlaces, LoopRunning, Peers
<1>1. CASE Join BY <1>1 DEF Join
<1>2. CASE Leave(TRUE) BY <1>2, FrameTypes DEF Leave
<1>3. CASE LeaveSetIdle
  <2>1. frame.imm \in BOOLEAN BY DEF Frames
  <2>2. job' \in [Threads -> Jobs] BY <1>3, JobTypes DEF LeaveSetIdle, Owe
  <2> QED BY <1>3, <2>1, <2>2 DEF LeaveSetIdle
<1>4. CASE LeaveJoinLoop BY <1>4 DEF LeaveJoinLoop
<1>5. CASE LeaveDestroy
  <2>1. frame.after \in {"return", "create", "fail"} BY DEF Frames
  <2>2. job' \in [Threads -> Jobs]
    BY <1>5, <2>1, JobTypes DEF LeaveDestroy, Owe
  <2>3. call' \in CallPlaces BY <1>5, <2>1 DEF LeaveDestroy
  <2> QED BY <1>5, <2>2, <2>3 DEF LeaveDestroy
<1>6. CASE Return BY <1>6 DEF Return
<1> QED BY <1>1, <1>2, <1>3, <1>4, <1>5, <1>6 DEF LeaveStep

\* The steps of MemberLoop.
LEMMA LoopType ==
    ASSUME MemberTypeOK, LoopStep
    PROVE  MemberTypeOK'
<1> USE DEF MemberTypeOK, Threads, LoopPlaces,
        LoopRunning, Peers
<1>1. CASE LoopTop BY <1>1 DEF LoopTop
<1>2. CASE LoopNothing BY <1>2 DEF LoopNothing
<1>3. CASE \E n \in RoomSizes : LoopRoomInformation(n)
  BY <1>3, RoomSizesAssumption, JobTypes DEF LoopRoomInformation, Owe
<1>4. CASE \E s \in {"Joined", "Moderator"} : LoopJoinSuccess(s)
  BY <1>4, JobTypes DEF LoopJoinSuccess, Owe
<1>5. CASE \E e \in Refusals : LoopRefused(e) BY <1>5, JobTypes DEF LoopRefused, Owe, Errors
<1>6. CASE \E e \in Evictions : LoopEvicted(e) BY <1>6, JobTypes DEF LoopEvicted, Owe, Errors
<1>7. CASE \E e \in Denials : LoopDenied(e) BY <1>7, JobTypes DEF LoopDenied, Owe, Errors
<1>8. CASE LoopDisconnected BY <1>8, JobTypes DEF LoopDisconnected, Owe, Errors
<1>9. CASE LoopSend BY <1>9 DEF LoopSend
<1>10. CASE LoopDisconnect BY <1>10 DEF LoopDisconnect
<1>11. CASE LoopDrain BY <1>11 DEF LoopDrain
<1> QED BY <1>1, <1>2, <1>3, <1>4, <1>5, <1>6, <1>7, <1>8, <1>9, <1>10, <1>11
        DEF LoopStep

\* The console's SendPacket.
LEMMA EmuType ==
    ASSUME MemberTypeOK, EmuStep
    PROVE  MemberTypeOK'
BY DEF MemberTypeOK, EmuStep, EmuCheck, EmuGetMacAddress, EmuSendWifiPacket,
       Packets

------------------------------------------------------------------------------
(* The session around it.                                                   *)

SessionTypeOK ==
    /\ member \in {"null", "unbound", "bound"}
    /\ ready \in BOOLEAN
    /\ cancel \in BOOLEAN
    /\ finished \in BOOLEAN
    /\ snapshot \in Snapshots
    /\ worker \in WorkerPlaces
    /\ api \in ApiPlaces

\* The edits of the snapshot keep its shape.
LEMMA SnapshotEdits ==
    /\ \A s \in Snapshots : ClearMembers(s) \in Snapshots
    /\ \A s \in Snapshots, v \in SnapshotStates : [s EXCEPT !.state = v] \in Snapshots
    /\ \A s \in Snapshots : [s EXCEPT !.error = "internal"] \in Snapshots
    /\ \A s \in Snapshots, v \in SnapshotStates :
         /\ [s EXCEPT !.state = v, !.error = None] \in Snapshots
         /\ [s EXCEPT !.state = v, !.error = "internal"] \in Snapshots
    /\ [state |-> "JOINING", error |-> None, members |-> 0] \in Snapshots
<1> USE MaxMembersAssumption
<1>1. \A s \in Snapshots : ClearMembers(s) \in Snapshots
  BY DEF Snapshots, ClearMembers
<1>2. \A s \in Snapshots, v \in SnapshotStates : [s EXCEPT !.state = v] \in Snapshots
  BY DEF Snapshots
<1>3. \A s \in Snapshots : [s EXCEPT !.error = "internal"] \in Snapshots
  BY DEF Snapshots
<1>4. \A s \in Snapshots, v \in SnapshotStates :
        [s EXCEPT !.state = v, !.error = None] \in Snapshots
  BY DEF Snapshots
<1>5. \A s \in Snapshots, v \in SnapshotStates :
        [s EXCEPT !.state = v, !.error = "internal"] \in Snapshots
  BY DEF Snapshots
<1>6. [state |-> "JOINING", error |-> None, members |-> 0] \in Snapshots
  BY DEF Snapshots, SnapshotStates
<1> QED BY <1>1, <1>2, <1>3, <1>4, <1>5, <1>6

\* What the bridge's callbacks and Run write to the snapshot fits its type:
\* the member count never exceeds the array that holds the names.
LEMMA CallbackSessionType ==
    ASSUME TypeOK, NEW t \in Threads, SessionCallback(t)
    PROVE  SessionTypeOK'
<1>1. CASE (StoreState(t) \/ LoadState(t)) /\ UNCHANGED sessionVars
  BY <1>1 DEF TypeOK, SessionTypeOK, sessionVars
<1>2. CASE \E s \in States : OnStateChanged(t, s)
  BY <1>2 DEF OnStateChanged, TypeOK, SessionTypeOK, Snapshots, SnapshotStates
<1>3. CASE \E e \in Errors : OnError(t, e)
  BY <1>3 DEF OnError, TypeOK, SessionTypeOK, Snapshots
<1>4. CASE OnRoomInformationChanged(t)
  BY <1>4, MaxMembersAssumption
  DEF OnRoomInformationChanged, TypeOK, SessionTypeOK, Snapshots, MemberTypeOK
<1> QED BY <1>1, <1>2, <1>3, <1>4 DEF SessionCallback

\* The steps of Run.
LEMMA WorkerSessionType ==
    ASSUME TypeOK, WorkerStep
    PROVE  SessionTypeOK'
<1> USE DEF TypeOK, SessionTypeOK, WorkerPlaces, WorkerRunning
<1>1. CASE WorkerJoin BY <1>1 DEF WorkerJoin
<1>2. CASE WorkerJoinReturned BY <1>2 DEF WorkerJoinReturned
<1>3. CASE WorkerStopPolling BY <1>3 DEF WorkerStopPolling
<1>4. CASE WorkerExpire BY <1>4 DEF WorkerExpire
<1>5. CASE WorkerReport("expired", "timeout")
  BY <1>5 DEF WorkerReport, Snapshots
<1>6. CASE WorkerReport("caught", "internal")
  BY <1>6 DEF WorkerReport, Snapshots
<1>7. CASE WorkerLeave BY <1>7 DEF WorkerLeave
<1>8. CASE WorkerLeft BY <1>8 DEF WorkerLeft
<1>9. CASE WorkerSetIdle
  BY <1>9, SnapshotEdits DEF WorkerSetIdle, SnapshotStates
<1>10. CASE WorkerFinish BY <1>10 DEF WorkerFinish
<1>11. CASE (JoinStep(cancel) \/ LeaveStep) /\ UNCHANGED sessionVars
  BY <1>11 DEF sessionVars
<1> QED BY <1>1, <1>2, <1>3, <1>4, <1>5, <1>6, <1>7, <1>8, <1>9, <1>10, <1>11
        DEF WorkerStep

\* The calls that hold api_mutex.
LEMMA ApiSessionType ==
    ASSUME TypeOK, ApiCall \/ ApiStep
    PROVE  SessionTypeOK' /\ UNCHANGED memberVars
<1> USE SnapshotEdits DEF TypeOK, SessionTypeOK, ApiPlaces, Waits, SnapshotStates,
        WorkerPlaces, WorkerRunning, BeginStop, JoinWorker
<1>1. CASE \E o \in {"ok", "noNetwork", "threw"} : Initialize(o)
  BY <1>1 DEF Initialize
<1>2. CASE GameReady BY <1>2 DEF GameReady
<1>3. CASE GameStopped BY <1>3 DEF GameStopped
<1>4. CASE Shutdown BY <1>4 DEF Shutdown
<1>5. CASE RoomJoin BY <1>5 DEF RoomJoin
<1>6. CASE RoomLeave BY <1>6 DEF RoomLeave
<1>7. CASE GameReadyDone BY <1>7 DEF GameReadyDone
<1>8. CASE GameStoppedDone BY <1>8 DEF GameStoppedDone
<1>9. CASE ShutdownOffline BY <1>9 DEF ShutdownOffline
<1>10. CASE ShutdownUnbind BY <1>10 DEF ShutdownUnbind
<1>11. CASE RoomJoinWorker BY <1>11 DEF RoomJoinWorker
<1>12. CASE RoomJoinCancel BY <1>12 DEF RoomJoinCancel
<1>13. CASE RoomJoinSnapshot BY <1>13 DEF RoomJoinSnapshot
<1>14. CASE \E ok \in BOOLEAN : RoomJoinStart(ok) BY <1>14 DEF RoomJoinStart
<1>15. CASE RoomLeaveSnapshot BY <1>15 DEF RoomLeaveSnapshot
<1> QED BY <1>1, <1>2, <1>3, <1>4, <1>5, <1>6, <1>7, <1>8, <1>9, <1>10, <1>11,
           <1>12, <1>13, <1>14, <1>15 DEF ApiCall, ApiStep

\* Every step of every thread keeps the types.
LEMMA NextType ==
    ASSUME TypeOK, [Next]_vars
    PROVE  TypeOK'
<1>0. TypeOK' <=> MemberTypeOK' /\ SessionTypeOK'
  BY DEF TypeOK, SessionTypeOK
<1>m. MemberTypeOK /\ cancel \in BOOLEAN
  BY DEF TypeOK
<1>1. CASE ApiCall \/ ApiStep
  <2>1. UNCHANGED memberVars /\ SessionTypeOK' BY <1>1, ApiSessionType
  <2>2. MemberTypeOK' BY <1>m, <2>1 DEF MemberTypeOK, memberVars
  <2> QED BY <1>0, <2>1, <2>2
<1>2. CASE WorkerStep
  <2>1. SessionTypeOK' BY <1>2, WorkerSessionType
  <2>2. \/ JoinStep(cancel)
        \/ Join \/ Leave(TRUE) \/ LeaveStep \/ Return
        \/ UNCHANGED memberVars
    BY <1>2 DEF WorkerStep, WorkerJoin, WorkerJoinReturned, WorkerStopPolling,
       WorkerExpire, WorkerReport, WorkerLeave, WorkerLeft, WorkerSetIdle,
       WorkerFinish
  <2>3. CASE JoinStep(cancel) BY <1>0, <1>m, <2>1, <2>3, JoinType
  <2>4. CASE Join \/ Leave(TRUE) \/ LeaveStep \/ Return
    BY <1>0, <1>m, <2>1, <2>4, LeaveType
  <2>5. CASE UNCHANGED memberVars
    BY <1>0, <1>m, <2>1, <2>5 DEF MemberTypeOK, memberVars
  <2> QED BY <2>2, <2>3, <2>4, <2>5
<1>3. ASSUME NEW t \in Threads, SessionCallback(t) PROVE TypeOK'
  <2>1. CallbackStep(t)
    BY <1>3 DEF SessionCallback, CallbackStep, OnStateChanged, OnError,
       OnRoomInformationChanged
  <2> QED BY <1>0, <1>m, <1>3, <2>1, CallbackType, CallbackSessionType
<1>4. CASE (LoopStep \/ EmuStep) /\ UNCHANGED sessionVars
  <2>1. MemberTypeOK' BY <1>m, <1>4, LoopType, EmuType
  <2>2. SessionTypeOK' BY <1>4 DEF TypeOK, SessionTypeOK, sessionVars
  <2> QED BY <1>0, <2>1, <2>2
<1>5. CASE UNCHANGED vars
  BY <1>5 DEF TypeOK, MemberTypeOK, vars, memberVars, sessionVars
<1>6. "caller" \in Threads /\ "loop" \in Threads
  BY DEF Threads
<1> QED BY <1>1, <1>2, <1>3, <1>4, <1>5, <1>6
        DEF Next, WorkerThread, LoopThread, EmuThread

\* The session starts well-typed.
LEMMA InitType == Init => TypeOK
<1> SUFFICES ASSUME Init PROVE TypeOK OBVIOUS
<1>1. MemberTypeOK
  <2>1. frame \in Frames BY FrameTypes DEF Init, MemberInit
  <2>2. job \in [Threads -> Jobs] BY JobTypes DEF Init, MemberInit
  <2> QED BY <2>1, <2>2
          DEF Init, MemberInit, MemberTypeOK, States, CallPlaces, LoopPlaces, Peers
<1>2. snapshot \in Snapshots
  BY MaxMembersAssumption DEF Init, Snapshots, SnapshotStates
<1> QED BY <1>1, <1>2 DEF Init, TypeOK, WorkerPlaces, ApiPlaces

\* Type correctness of the whole bridge, for every set of errors, every room
\* size and every capacity of the snapshot: in particular the member count
\* never exceeds the array that the room callback copies the names into.
THEOREM TypeCorrect == Spec => []TypeOK
<1>1. Init => TypeOK BY InitType
<1>2. TypeOK /\ [Next]_vars => TypeOK' BY NextType
<1> QED BY <1>1, <1>2, PTL DEF Spec

------------------------------------------------------------------------------
(* The inductive invariant.  The properties of the snapshot hold because of  *)
(* where the threads can be relative to one another, which is what its parts *)
(* say; none of them is inductive without the others.                        *)

\* Nothing of a session is left in the RoomMember.
Clean ==
    /\ loop = "none"
    /\ ~client
    /\ state = "Idle"
    /\ Quiet("caller")
    /\ Quiet("loop")

\* Where the caller of RoomMember is, given where Run is.
CallerInv ==
    /\ worker \notin {"inJoin", "inLeave"} => call = "out"
    /\ worker = "inJoin" => call # "out"
    /\ worker = "inLeave" => call \in LeavePlaces \cup {"return"}
                              /\ frame.after = "return"

\* What the caller can still owe, given where it is.
CallerJobInv ==
    /\ call \notin {"resolve", "return", "leave", "joinLoop"} => Quiet("caller")
    /\ job["caller"].set \in {"Joining", "Idle", None}
    /\ job["caller"].set = "Joining" => call = "resolve"
    /\ job["caller"].set = "Idle" => call # "resolve"
    /\ worker = "inLeave" /\ call = "return" => Quiet("caller")

\* Where MemberLoop is, given where the caller is.
LoopInv ==
    /\ call \in (JoinPlaces \ {"request", "info"}) \cup {"threw"} => loop = "none"
    /\ call = "destroy" => loop = "none" /\ state = "Idle"
    /\ call = "joinLoop" /\ job["caller"].set = None /\ loop = "none" => state = "Idle"
    /\ loop \in {"disconnect", "drain", "exited"} => state = "Idle"
    /\ loop \notin {"send"} => Quiet("loop")
    /\ loop \in LoopRunning => server
    /\ loop # "none" => client

\* The sockets that Join has opened by the time it is at each place.
SocketInv ==
    /\ call \in {"joining", "resolve", "connect", "poll", "service", "start"} => client
    /\ call \in {"poll", "service", "start"} => server

\* A worker that has not begun, or that has left, has left nothing behind.
WorkerInv ==
    /\ finished <=> worker \in {"none", "exited"}
    /\ worker \in {"none", "exited", "start", "idle", "finish"} => Clean
    /\ worker = "inLeave" /\ call = "return" => Clean

\* The lifecycle call that holds api_mutex.
ApiInv ==
    /\ ready => member = "bound"
    /\ worker \in WorkerRunning => member = "bound"
    /\ api \in {"readyWait", "joinWait", "joinCancel", "joinSnapshot", "joinStart"} =>
         member = "bound"
    /\ api \in {"joinWait", "joinCancel", "joinSnapshot", "joinStart"} =>
         worker \in {"none", "exited"}
    /\ api \in {"joinCancel", "joinSnapshot", "joinStart", "unbind"} => worker = "none"
    /\ api \in {"stopWait", "shutdownWait", "unbind"} => ~ready

\* What the snapshot shows, given where Run is.
SnapshotInv ==
    /\ snapshot.state \in {"IDLE", "OFFLINE"} => worker \in {"none", "exited", "finish"}
    /\ snapshot.state = "JOINED" => worker \in WorkerRunning \ {"start", "finish"}
    /\ api = "joinStart" => snapshot.state = "JOINING"

Inv ==
    /\ TypeOK
    /\ CallerInv
    /\ CallerJobInv
    /\ LoopInv
    /\ SocketInv
    /\ WorkerInv
    /\ ApiInv
    /\ SnapshotInv

\* What the jobs that the code hands out contain.
LEMMA JobFields ==
    /\ NoJob.set = None /\ NoJob.call = None /\ NoJob.err = None /\ ~NoJob.room
    /\ SetState("Idle").set = "Idle"
    /\ SetState("Joining").set = "Joining"
    /\ \A e \in Errors : SetStateAndError("Idle", e).set = "Idle"
BY DEF NoJob, SetState, SetStateAndError, Errors

\* The invariant holds when the library is loaded.
LEMMA InitInv == Init => Inv
<1> SUFFICES ASSUME Init PROVE Inv OBVIOUS
<1>1. TypeOK BY InitType
<1>2. job["caller"] = NoJob /\ job["loop"] = NoJob
  BY DEF Init, MemberInit, Threads
<1> QED BY <1>1, <1>2, JobFields
        DEF Init, MemberInit, Inv, CallerInv, CallerJobInv, LoopInv, SocketInv,
            WorkerInv, ApiInv, SnapshotInv, Clean, Quiet, LeavePlaces, JoinPlaces,
            LoopRunning, WorkerRunning

\* The steps of Join preserve the invariant.
LEMMA JoinInv ==
    ASSUME Inv, JoinStep(cancel), UNCHANGED sessionVars, TypeOK'
    PROVE  Inv'
<1> USE JobFields DEF Inv, CallerInv, CallerJobInv, LoopInv, SocketInv,
        WorkerInv, ApiInv, SnapshotInv, Clean, Quiet, LeavePlaces, JoinPlaces,
        LoopRunning, WorkerRunning, sessionVars
<1>t. job \in [Threads -> Jobs] /\ "caller" \in Threads /\ "loop" \in Threads
  BY DEF TypeOK, MemberTypeOK, Threads
<1>1. CASE JoinBegin BY <1>1 DEF JoinBegin
<1>2. CASE \E ok \in BOOLEAN : JoinCreate(ok) BY <1>2, <1>t DEF JoinCreate, Owe, Errors
<1>3. CASE JoinSetJoining BY <1>3, <1>t DEF JoinSetJoining, Owe
<1>4. CASE \E ok \in BOOLEAN : JoinResolve(ok) BY <1>4, <1>t DEF JoinResolve, Owe, Errors
<1>5. CASE \E ok \in BOOLEAN : JoinConnect(ok) BY <1>5, <1>t DEF JoinConnect, Owe, Errors
<1>6. CASE JoinPoll(cancel) BY <1>6 DEF JoinPoll
<1>7. CASE JoinServiceNothing BY <1>7 DEF JoinServiceNothing
<1>8. CASE JoinServiceConnect BY <1>8 DEF JoinServiceConnect
<1>9. CASE JoinServiceFail BY <1>9 DEF JoinServiceFail
<1>10. CASE \E ok \in BOOLEAN : JoinStartLoop(ok) BY <1>10 DEF JoinStartLoop
<1>11. CASE JoinSendRequest BY <1>11 DEF JoinSendRequest
<1>12. CASE JoinSendGameInfo BY <1>12 DEF JoinSendGameInfo
<1> QED BY <1>1, <1>2, <1>3, <1>4, <1>5, <1>6, <1>7, <1>8, <1>9, <1>10, <1>11,
           <1>12 DEF JoinStep

\* So do the steps of Leave.
LEMMA LeaveInv ==
    ASSUME Inv, LeaveStep, UNCHANGED sessionVars, TypeOK'
    PROVE  Inv'
<1> USE JobFields DEF Inv, CallerInv, CallerJobInv, LoopInv, SocketInv,
        WorkerInv, ApiInv, SnapshotInv, Clean, Quiet, LeavePlaces, JoinPlaces,
        LoopRunning, WorkerRunning, sessionVars
<1>t. job \in [Threads -> Jobs] /\ "caller" \in Threads /\ "loop" \in Threads
  BY DEF TypeOK, MemberTypeOK, Threads
<1>1. CASE LeaveSetIdle BY <1>1, <1>t DEF LeaveSetIdle, Owe
<1>2. CASE LeaveJoinLoop BY <1>2 DEF LeaveJoinLoop
<1>3. CASE LeaveDestroy
  <2>1. frame.after \in {"return", "create", "fail"} BY DEF TypeOK, MemberTypeOK, Frames
  <2>2. CASE frame.after = "fail"
    <3>1. worker = "inJoin" BY <1>3, <2>2 DEF LeaveDestroy
    <3>2. /\ call' = "return"
          /\ job' = [job EXCEPT !["caller"] = SetStateAndError("Idle", "CouldNotConnect")]
      BY <1>3, <2>2 DEF LeaveDestroy, Owe
    <3>3. job'["caller"].set = "Idle" /\ job'["loop"] = job["loop"]
      BY <3>2, <1>t DEF Errors
    <3> QED BY <1>3, <3>1, <3>2, <3>3 DEF LeaveDestroy
  <2>3. CASE frame.after # "fail"
    BY <1>3, <2>1, <2>3 DEF LeaveDestroy
  <2> QED BY <2>2, <2>3
<1> QED BY <1>1, <1>2, <1>3 DEF LeaveStep

\* MemberLoop takes on callbacks only at "send", and ends only when Idle.
LEMMA LoopStepInv ==
    ASSUME Inv, LoopStep, UNCHANGED sessionVars, TypeOK'
    PROVE  Inv'
<1> USE JobFields DEF Inv, CallerInv, CallerJobInv, LoopInv, SocketInv,
        WorkerInv, ApiInv, SnapshotInv, Clean, Quiet, LeavePlaces, JoinPlaces,
        LoopRunning, WorkerRunning, sessionVars
<1>t. job \in [Threads -> Jobs] /\ "caller" \in Threads /\ "loop" \in Threads
  BY DEF TypeOK, MemberTypeOK, Threads
<1>1. CASE LoopTop BY <1>1 DEF LoopTop, IsConnected, TypeOK, MemberTypeOK, States
<1>2. CASE LoopNothing BY <1>2 DEF LoopNothing
<1>3. CASE \E n \in RoomSizes : LoopRoomInformation(n)
  BY <1>3, <1>t DEF LoopRoomInformation, Owe
<1>4. CASE \E s \in {"Joined", "Moderator"} : LoopJoinSuccess(s)
  BY <1>4, <1>t DEF LoopJoinSuccess, Owe
<1>5. CASE \E e \in Refusals : LoopRefused(e) BY <1>5, <1>t DEF LoopRefused, Owe
<1>6. CASE \E e \in Evictions : LoopEvicted(e) BY <1>6, <1>t DEF LoopEvicted, Owe
<1>7. CASE \E e \in Denials : LoopDenied(e) BY <1>7, <1>t DEF LoopDenied, Owe
<1>8. CASE LoopDisconnected BY <1>8, <1>t DEF LoopDisconnected, Owe
<1>9. CASE LoopSend BY <1>9 DEF LoopSend
<1>10. CASE LoopDisconnect BY <1>10 DEF LoopDisconnect
<1>11. CASE LoopDrain BY <1>11 DEF LoopDrain
<1> QED BY <1>1, <1>2, <1>3, <1>4, <1>5, <1>6, <1>7, <1>8, <1>9, <1>10, <1>11
        DEF LoopStep

\* The console only touches the send list.
LEMMA EmuInv ==
    ASSUME Inv, EmuStep, UNCHANGED sessionVars, TypeOK'
    PROVE  Inv'
BY DEF Inv, CallerInv, CallerJobInv, LoopInv, SocketInv, WorkerInv, ApiInv,
       SnapshotInv, Clean, Quiet, sessionVars, EmuStep, EmuCheck,
       EmuGetMacAddress, EmuSendWifiPacket

\* A callback is owed only inside a session, so it cannot disturb one that
\* has been cleaned up.
LEMMA CallbackInv ==
    ASSUME Inv, NEW t \in Threads, SessionCallback(t), TypeOK'
    PROVE  Inv'
<1> USE JobFields DEF Inv, CallerInv, CallerJobInv, LoopInv, SocketInv,
        WorkerInv, ApiInv, SnapshotInv, Clean, Quiet, LeavePlaces, JoinPlaces,
        LoopRunning, WorkerRunning, sessionVars
<1>t. job \in [Threads -> Jobs] /\ "caller" \in Threads /\ "loop" \in Threads
  BY DEF TypeOK, MemberTypeOK, Threads
<1>j. job[t] \in Jobs /\ t \in {"caller", "loop"} BY <1>t DEF Threads
<1>1. CASE StoreState(t) /\ UNCHANGED sessionVars
  BY <1>1, <1>t, <1>j DEF StoreState
<1>2. CASE LoadState(t) /\ UNCHANGED sessionVars
  BY <1>2, <1>t, <1>j DEF LoadState
<1>3. CASE \E s \in States : OnStateChanged(t, s)
  <2>1. job[t].call # None /\ UNCHANGED <<member, ready, cancel, finished, worker, api>>
    BY <1>3 DEF OnStateChanged, InvokeState, States
  <2>2. worker \in WorkerRunning \ {"start", "idle", "finish"} /\ api # "joinStart"
    BY <2>1, <1>j DEF TypeOK, WorkerPlaces
  <2>3. snapshot'.state \in {"JOINED", snapshot.state}
    BY <1>3 DEF OnStateChanged, TypeOK, Snapshots
  <2>4. SnapshotInv'
    BY <2>1, <2>2, <2>3
  <2>5. /\ job' = [job EXCEPT ![t].call = None]
        /\ UNCHANGED <<state, client, server, call, frame, loop>>
    BY <1>3 DEF OnStateChanged, InvokeState
  <2>6. CallerJobInv' /\ LoopInv' BY <2>1, <2>5, <1>t, <1>j
  <2>7. WorkerInv' BY <2>1, <2>2, <2>5
  <2> QED BY <2>1, <2>4, <2>5, <2>6, <2>7
<1>4. CASE \E e \in Errors : OnError(t, e)
  BY <1>4, <1>t, <1>j DEF OnError, InvokeError
<1>5. CASE OnRoomInformationChanged(t)
  BY <1>5, <1>t, <1>j DEF OnRoomInformationChanged, InvokeRoom
<1> QED BY <1>1, <1>2, <1>3, <1>4, <1>5 DEF SessionCallback

\* The steps of Run.
LEMMA WorkerStepInv ==
    ASSUME Inv, WorkerStep, TypeOK'
    PROVE  Inv'
<1> USE JobFields DEF Inv, CallerInv, CallerJobInv, LoopInv, SocketInv,
        WorkerInv, ApiInv, SnapshotInv, Clean, Quiet, LeavePlaces, JoinPlaces,
        LoopRunning, WorkerRunning, sessionVars
<1>t. job \in [Threads -> Jobs] /\ "caller" \in Threads /\ "loop" \in Threads
  BY DEF TypeOK, MemberTypeOK, Threads
<1> USE DEF memberVars
<1>1. CASE WorkerJoin BY <1>1 DEF WorkerJoin, Join
<1>2. CASE WorkerJoinReturned BY <1>2 DEF WorkerJoinReturned, Return
<1>3. CASE WorkerStopPolling BY <1>3 DEF WorkerStopPolling
<1>4. CASE WorkerExpire BY <1>4 DEF WorkerExpire
<1>5. CASE WorkerReport("expired", "timeout")
  BY <1>5 DEF WorkerReport, TypeOK, Snapshots
<1>6. CASE WorkerReport("caught", "internal")
  BY <1>6 DEF WorkerReport, TypeOK, Snapshots
<1>7. CASE WorkerLeave BY <1>7 DEF WorkerLeave, Leave
<1>8. CASE WorkerLeft BY <1>8 DEF WorkerLeft, Return
<1>9. CASE WorkerSetIdle
  BY <1>9 DEF WorkerSetIdle, TypeOK, Snapshots, ClearMembers
<1>10. CASE WorkerFinish BY <1>10 DEF WorkerFinish
<1>11. CASE (JoinStep(cancel) \/ LeaveStep) /\ UNCHANGED sessionVars
  BY <1>11, JoinInv, LeaveInv
<1> QED BY <1>1, <1>2, <1>3, <1>4, <1>5, <1>6, <1>7, <1>8, <1>9, <1>10, <1>11
        DEF WorkerStep

\* The calls that hold api_mutex.
LEMMA ApiStepInv ==
    ASSUME Inv, ApiCall \/ ApiStep, TypeOK'
    PROVE  Inv'
<1> USE JobFields DEF Inv, CallerInv, CallerJobInv, LoopInv, SocketInv,
        WorkerInv, ApiInv, SnapshotInv, Clean, Quiet, LeavePlaces, JoinPlaces,
        LoopRunning, WorkerRunning, sessionVars
<1>t. job \in [Threads -> Jobs] /\ "caller" \in Threads /\ "loop" \in Threads
  BY DEF TypeOK, MemberTypeOK, Threads
<1> USE DEF memberVars, BeginStop, JoinWorker
<1>s. snapshot \in Snapshots BY DEF TypeOK
<1>1. CASE \E o \in {"ok", "noNetwork", "threw"} : Initialize(o)
  BY <1>1, <1>s DEF Initialize, Snapshots
<1>2. CASE GameReady BY <1>2 DEF GameReady
<1>3. CASE GameStopped BY <1>3 DEF GameStopped
<1>4. CASE Shutdown BY <1>4 DEF Shutdown
<1>5. CASE RoomJoin BY <1>5 DEF RoomJoin
<1>6. CASE RoomLeave BY <1>6 DEF RoomLeave
<1>7. CASE GameReadyDone BY <1>7, <1>s DEF GameReadyDone, Snapshots
<1>8. CASE GameStoppedDone BY <1>8, <1>s DEF GameStoppedDone, Snapshots, ClearMembers
<1>9. CASE ShutdownOffline BY <1>9, <1>s DEF ShutdownOffline, Snapshots, ClearMembers
<1>10. CASE ShutdownUnbind BY <1>10 DEF ShutdownUnbind
<1>11. CASE RoomJoinWorker BY <1>11 DEF RoomJoinWorker
<1>12. CASE RoomJoinCancel BY <1>12 DEF RoomJoinCancel
<1>13. CASE RoomJoinSnapshot BY <1>13 DEF RoomJoinSnapshot
<1>14. CASE \E ok \in BOOLEAN : RoomJoinStart(ok)
  <2>1. CASE RoomJoinStart(TRUE) BY <2>1 DEF RoomJoinStart
  <2>2. CASE RoomJoinStart(FALSE) BY <2>2, <1>s DEF RoomJoinStart, Snapshots
  <2> QED BY <1>14, <2>1, <2>2
<1>15. CASE RoomLeaveSnapshot BY <1>15, <1>s DEF RoomLeaveSnapshot, Snapshots
<1> QED BY <1>1, <1>2, <1>3, <1>4, <1>5, <1>6, <1>7, <1>8, <1>9, <1>10, <1>11,
           <1>12, <1>13, <1>14, <1>15 DEF ApiCall, ApiStep

\* Every step of every thread preserves the invariant.
LEMMA NextInv ==
    ASSUME Inv, [Next]_vars
    PROVE  Inv'
<1>0. TypeOK' BY NextType DEF Inv
<1>1. CASE ApiCall \/ ApiStep BY <1>0, <1>1, ApiStepInv
<1>2. CASE WorkerStep BY <1>0, <1>2, WorkerStepInv
<1>3. ASSUME NEW t \in Threads, SessionCallback(t) PROVE Inv'
  BY <1>0, <1>3, CallbackInv
<1>4. CASE (LoopStep \/ EmuStep) /\ UNCHANGED sessionVars
  BY <1>0, <1>4, LoopStepInv, EmuInv
<1>5. CASE UNCHANGED vars
  BY <1>0, <1>5 DEF Inv, CallerInv, CallerJobInv, LoopInv, SocketInv, WorkerInv,
     ApiInv, SnapshotInv, Clean, Quiet, vars, memberVars, sessionVars
<1>6. "caller" \in Threads /\ "loop" \in Threads
  BY DEF Threads
<1> QED BY <1>1, <1>2, <1>3, <1>4, <1>5, <1>6
        DEF Next, WorkerThread, LoopThread, EmuThread

\* The invariant holds in every reachable state.
THEOREM Invariance == Spec => []Inv
<1>1. Init => Inv BY InitInv
<1>2. Inv /\ [Next]_vars => Inv' BY NextInv
<1> QED BY <1>1, <1>2, PTL DEF Spec

\* IDLE and OFFLINE are shown only after Run has cleaned up the transport:
\* no loop thread, no ENet host, no callback still to come.
THEOREM IdleIsClean == Spec => []IdleMeansCleanedUp
<1>1. Inv => IdleMeansCleanedUp
  BY DEF Inv, IdleMeansCleanedUp, SnapshotInv, WorkerInv, Clean, Threads
<1> QED BY <1>1, Invariance, PTL

\* JOINED is shown only while a worker runs that has still to clean up.
THEOREM JoinedIsRunning == Spec => []JoinedMeansRunning
<1>1. Inv => JoinedMeansRunning
  BY DEF Inv, JoinedMeansRunning, SnapshotInv, WorkerInv, WorkerRunning
<1> QED BY <1>1, Invariance, PTL

\* A join, and the unbinding of the callbacks, find no thread of an earlier
\* session.
THEOREM JoinStartsAlone == Spec => []NoOrphan
<1>1. Inv => NoOrphan
  BY DEF Inv, NoOrphan, ApiInv, WorkerInv, Clean, Threads
<1> QED BY <1>1, Invariance, PTL

\* No callback runs unbound, and the RoomMember is dropped disconnected.
THEOREM CallbacksAreBound == Spec => []BoundWhileRunning
<1>1. Inv => BoundWhileRunning
  BY DEF Inv, BoundWhileRunning, TypeOK, ApiInv, WorkerInv, Clean, IsConnected,
     WorkerPlaces
<1> QED BY <1>1, Invariance, PTL

\* A session that counts as finished has no worker left and is disconnected.
THEOREM FinishedIsStopped == Spec => []FinishedMeansStopped
<1>1. Inv => FinishedMeansStopped
  BY DEF Inv, FinishedMeansStopped, CallerInv, WorkerInv, Clean, IsConnected
<1> QED BY <1>1, Invariance, PTL

\* MemberLoop never uses a freed ENet host or peer.
THEOREM LoopSocketSafe == Spec => []LoopHasSocket
<1>1. Inv => LoopHasSocket
  BY DEF Inv, LoopHasSocket, LoopInv, LoopRunning
<1> QED BY <1>1, Invariance, PTL

\* Caller and MemberLoop never use the ENet host at the same time, and Leave ends
\* disconnected: the room's late answer is handled before its thread is joined.
THEOREM SocketAlwaysSafe == Spec => []SocketIsSafe
<1>1. Inv => OneSocketUser
  BY DEF Inv, OneSocketUser, LoopInv, JoinPlaces
<1>2. Inv => LeaveDisconnects
  BY DEF Inv, LeaveDisconnects, LoopInv, IsConnected
<1>3. LoopHasSocket /\ OneSocketUser /\ LeaveDisconnects => SocketIsSafe
  BY DEF SocketIsSafe
<1> QED BY <1>1, <1>2, <1>3, LoopSocketSafe, Invariance, PTL

\* IDLE and JOINED on the screen agree with the threads and sockets behind them.
THEOREM SnapshotAgrees == Spec => []SnapshotIsTrue
<1>1. IdleMeansCleanedUp /\ JoinedMeansRunning => SnapshotIsTrue
  BY DEF SnapshotIsTrue
<1> QED BY <1>1, IdleIsClean, JoinedIsRunning, PTL

\* No thread of an attempt is left to the next one or to the end of the core.
THEOREM ThreadsHaveOwner == Spec => []ThreadsAreOwned
<1>1. NoOrphan /\ BoundWhileRunning /\ FinishedMeansStopped => ThreadsAreOwned
  BY DEF ThreadsAreOwned
<1> QED BY <1>1, JoinStartsAlone, CallbacksAreBound, FinishedIsStopped, PTL

\* Once cancelled, a session is not announced as joined any more.
THEOREM NoJoinAfterCancel == Spec => CancelIsFinal
<1> DEFINE A == cancel /\ snapshot'.state = "JOINED" => snapshot.state = "JOINED"
<1>1. ASSUME TypeOK, Next PROVE A
  <2>0. snapshot \in Snapshots BY <1>1 DEF TypeOK
  <2>1. CASE ApiCall
    BY <2>0, <2>1 DEF ApiCall, Initialize, GameReady, GameStopped, Shutdown,
       RoomJoin, RoomLeave, BeginStop, Snapshots
  <2>2. CASE ApiStep
    <3>1. CASE GameReadyDone BY <2>0, <3>1 DEF GameReadyDone, Snapshots
    <3>2. CASE GameStoppedDone \/ ShutdownOffline
      BY <2>0, <3>2 DEF GameStoppedDone, ShutdownOffline, ClearMembers, Snapshots
    <3>3. CASE RoomJoinSnapshot BY <3>3 DEF RoomJoinSnapshot
    <3>4. CASE \E ok \in BOOLEAN : RoomJoinStart(ok)
      BY <2>0, <3>4 DEF RoomJoinStart, Snapshots
    <3>5. CASE RoomLeaveSnapshot BY <2>0, <3>5 DEF RoomLeaveSnapshot, Snapshots
    <3> QED BY <2>2, <3>1, <3>2, <3>3, <3>4, <3>5
            DEF ApiStep, ShutdownUnbind, RoomJoinWorker, RoomJoinCancel
  <2>3. CASE WorkerStep
    <3>1. CASE WorkerSetIdle
      BY <2>0, <3>1 DEF WorkerSetIdle, ClearMembers, Snapshots
    <3>2. ASSUME NEW p, NEW e, WorkerReport(p, e) PROVE A
      BY <2>0, <3>2 DEF WorkerReport, Snapshots
    <3>3. CASE UNCHANGED snapshot BY <3>3
    <3> QED BY <2>3, <3>1, <3>2, <3>3 DEF WorkerStep, WorkerJoin,
            WorkerJoinReturned, WorkerStopPolling, WorkerExpire, WorkerLeave,
            WorkerLeft, WorkerFinish, sessionVars
  <2>4. ASSUME NEW t \in Threads, SessionCallback(t) PROVE A
    <3>1. CASE \E s \in States : OnStateChanged(t, s)
      BY <3>1 DEF OnStateChanged
    <3>2. CASE \E e \in Errors : OnError(t, e)
      BY <2>0, <3>2 DEF OnError, Snapshots
    <3>3. CASE OnRoomInformationChanged(t)
      BY <2>0, <3>3 DEF OnRoomInformationChanged, Snapshots
    <3> QED BY <2>4, <3>1, <3>2, <3>3 DEF SessionCallback, sessionVars
  <2>5. CASE (LoopStep \/ EmuStep) /\ UNCHANGED sessionVars
    BY <2>5 DEF sessionVars
  <2>6. "caller" \in Threads /\ "loop" \in Threads BY DEF Threads
  <2> QED BY <1>1, <2>1, <2>2, <2>3, <2>4, <2>5, <2>6
          DEF Next, WorkerThread, LoopThread, EmuThread
<1>2. TypeOK /\ [Next]_vars => [A]_vars BY <1>1
<1> QED BY <1>2, TypeCorrect, PTL DEF Spec, CancelIsFinal

------------------------------------------------------------------------------
(* Why no failure goes unexplained.  An error reaches the snapshot through a *)
(* callback that another thread still owes, so the claim about IDLE needs    *)
(* the error to be on its way whenever the session is on its way to IDLE.    *)

\* The error is on show, or a callback that will show it is owed.
Explained ==
    \/ snapshot.error # None
    \/ job["loop"].err # None
    \/ job["caller"].err # None

\* The member is Idle, or is about to be.
Ending == state = "Idle" \/ job["loop"].set = "Idle" \/ job["caller"].set = "Idle"

FailureInv ==
    /\ api \in {"readyWait", "stopWait", "shutdownWait", "leaveSnapshot"} => cancel
    /\ ~cancel =>
         /\ worker \in {"leave", "inLeave", "idle", "finish"} => Explained
         /\ worker = "inJoin" =>
              /\ call = "resolve" => state = "Joining" \/ job["caller"].set = "Joining"
              /\ call \in {"connect", "poll", "service", "start"} => state = "Joining"
              /\ call \in LeavePlaces => frame.after = "fail" \/ Explained
              /\ call \in {"request", "info", "return"} /\ Ending => Explained
         /\ worker = "check" /\ Ending => Explained
         /\ snapshot.state = "IDLE" /\ api # "joinSnapshot" => snapshot.error # None

\* The error fields of the jobs, and that no reported error is None.
LEMMA ErrFields ==
    /\ None \notin Errors
    /\ SetState("Idle").err = None /\ SetState("Joining").err = None
    /\ \A s \in {"Joined", "Moderator"} :
          SetState(s).err = None /\ SetState(s).set = s
    /\ \A e \in Errors :
          /\ SetStateAndError("Idle", e).err = e
          /\ [NoJob EXCEPT !.err = e].set = None
    /\ [NoJob EXCEPT !.room = TRUE].set = None
    /\ [NoJob EXCEPT !.room = TRUE].err = None
BY ErrorsAssumption DEF NoJob, SetState, SetStateAndError, Errors

\* Join either goes on with a member that is Joining or owes an error.
LEMMA JoinFailure ==
    ASSUME Inv, FailureInv, JoinStep(cancel), UNCHANGED sessionVars
    PROVE  FailureInv'
<1> USE JobFields, ErrFields DEF FailureInv, Explained, Ending, LeavePlaces, sessionVars
<1>t. job \in [Threads -> Jobs] /\ "caller" \in Threads /\ "loop" \in Threads
  BY DEF Inv, TypeOK, MemberTypeOK, Threads
<1>q. /\ loop # "send" => job["loop"] = NoJob
      /\ call \notin {"resolve", "return", "leave", "joinLoop"} => job["caller"] = NoJob
  BY DEF Inv, LoopInv, CallerJobInv, Quiet
<1>1. CASE JoinBegin BY <1>1 DEF JoinBegin, Inv, LoopInv, JoinPlaces
<1>2. CASE \E ok \in BOOLEAN : JoinCreate(ok) BY <1>2, <1>t DEF JoinCreate, Owe, Errors
<1>3. CASE JoinSetJoining BY <1>3, <1>t, <1>q DEF JoinSetJoining, Owe
<1>4. CASE \E ok \in BOOLEAN : JoinResolve(ok)
  BY <1>4, <1>t, <1>q DEF JoinResolve, Owe, Errors, Quiet
<1>5. CASE \E ok \in BOOLEAN : JoinConnect(ok) BY <1>5, <1>t DEF JoinConnect, Owe, Errors
<1>6. CASE JoinPoll(cancel) BY <1>6 DEF JoinPoll
<1>7. CASE JoinServiceNothing BY <1>7 DEF JoinServiceNothing
<1>8. CASE JoinServiceConnect BY <1>8 DEF JoinServiceConnect
<1>9. CASE JoinServiceFail BY <1>9 DEF JoinServiceFail
<1>10. CASE \E ok \in BOOLEAN : JoinStartLoop(ok)
  BY <1>10, <1>q DEF JoinStartLoop, Inv, LoopInv, JoinPlaces
<1>11. CASE JoinSendRequest BY <1>11 DEF JoinSendRequest
<1>12. CASE JoinSendGameInfo BY <1>12 DEF JoinSendGameInfo
<1> QED BY <1>1, <1>2, <1>3, <1>4, <1>5, <1>6, <1>7, <1>8, <1>9, <1>10, <1>11,
           <1>12 DEF JoinStep

\* Leave loses no error, and adds CouldNotConnect when Join had failed.
LEMMA LeaveFailure ==
    ASSUME Inv, FailureInv, LeaveStep, UNCHANGED sessionVars
    PROVE  FailureInv'
<1> USE JobFields, ErrFields DEF FailureInv, Explained, Ending, LeavePlaces, sessionVars
<1>t. job \in [Threads -> Jobs] /\ "caller" \in Threads /\ "loop" \in Threads
  BY DEF Inv, TypeOK, MemberTypeOK, Threads
<1>q. /\ loop # "send" => job["loop"] = NoJob
      /\ call \notin {"resolve", "return", "leave", "joinLoop"} => job["caller"] = NoJob
  BY DEF Inv, LoopInv, CallerJobInv, Quiet
<1>1. CASE LeaveSetIdle
  <2>1. job["caller"] = NoJob BY <1>1 DEF LeaveSetIdle, Quiet
  <2>2. /\ job'["caller"].err = None
        /\ job'["loop"] = job["loop"]
    BY <1>1, <1>t DEF LeaveSetIdle, Owe
  <2> QED BY <1>1, <2>1, <2>2 DEF LeaveSetIdle, Inv, CallerInv
<1>2. CASE LeaveJoinLoop BY <1>2 DEF LeaveJoinLoop
<1>3. CASE LeaveDestroy
  <2>1. frame.after \in {"return", "create", "fail"}
    BY DEF Inv, TypeOK, MemberTypeOK, Frames
  <2>2. CASE frame.after = "fail"
    <3>1. worker = "inJoin" BY <1>3, <2>2 DEF LeaveDestroy, Inv, CallerInv
    <3>2. /\ call' = "return"
          /\ job' = [job EXCEPT !["caller"] = SetStateAndError("Idle", "CouldNotConnect")]
      BY <1>3, <2>2 DEF LeaveDestroy, Owe
    <3>3. job'["caller"].err = "CouldNotConnect" /\ job'["loop"] = job["loop"]
      BY <3>2, <1>t DEF Errors
    <3> QED BY <1>3, <3>1, <3>2, <3>3 DEF LeaveDestroy
  <2>3. CASE frame.after # "fail"
    BY <1>3, <2>1, <2>3 DEF LeaveDestroy
  <2> QED BY <2>2, <2>3
<1> QED BY <1>1, <1>2, <1>3 DEF LeaveStep

\* MemberLoop never becomes Idle without owing an error.
LEMMA LoopFailure ==
    ASSUME Inv, FailureInv, LoopStep, UNCHANGED sessionVars
    PROVE  FailureInv'
<1> USE JobFields, ErrFields DEF FailureInv, Explained, Ending, LeavePlaces, sessionVars
<1>t. job \in [Threads -> Jobs] /\ "caller" \in Threads /\ "loop" \in Threads
  BY DEF Inv, TypeOK, MemberTypeOK, Threads
<1>q. /\ loop # "send" => job["loop"] = NoJob
      /\ call \notin {"resolve", "return", "leave", "joinLoop"} => job["caller"] = NoJob
  BY DEF Inv, LoopInv, CallerJobInv, Quiet
<1>1. CASE LoopTop BY <1>1 DEF LoopTop
<1>2. CASE LoopNothing BY <1>2 DEF LoopNothing
<1>3. CASE \E n \in RoomSizes : LoopRoomInformation(n)
  BY <1>3, <1>t, <1>q DEF LoopRoomInformation, Owe
<1>4. CASE \E s \in {"Joined", "Moderator"} : LoopJoinSuccess(s)
  BY <1>4, <1>t, <1>q DEF LoopJoinSuccess, Owe
<1>5. CASE \E e \in Refusals : LoopRefused(e)
  BY <1>5, <1>t, <1>q DEF LoopRefused, Owe, Errors
<1>6. CASE \E e \in Evictions : LoopEvicted(e)
  BY <1>6, <1>t, <1>q DEF LoopEvicted, Owe, Errors
<1>7. CASE \E e \in Denials : LoopDenied(e)
  <2> SUFFICES ASSUME NEW e \in Denials, LoopDenied(e) PROVE FailureInv'
    BY <1>7
  <2>1. /\ job'["loop"] = [NoJob EXCEPT !.err = e]
        /\ job'["caller"] = job["caller"]
    BY <1>t DEF LoopDenied, Owe
  <2>2. job'["loop"].set = None BY <2>1 DEF Errors
  <2>3. job["loop"] = NoJob BY <1>q DEF LoopDenied
  <2> QED BY <2>1, <2>2, <2>3 DEF LoopDenied
<1>8. CASE LoopDisconnected
  BY <1>8, <1>t, <1>q DEF LoopDisconnected, Owe, Errors
<1>9. CASE LoopSend BY <1>9 DEF LoopSend
<1>10. CASE LoopDisconnect BY <1>10 DEF LoopDisconnect
<1>11. CASE LoopDrain BY <1>11 DEF LoopDrain
<1> QED BY <1>1, <1>2, <1>3, <1>4, <1>5, <1>6, <1>7, <1>8, <1>9, <1>10, <1>11
        DEF LoopStep

\* A callback that is run moves its error to the snapshot.
LEMMA CallbackFailure ==
    ASSUME Inv, FailureInv, NEW t \in Threads, SessionCallback(t)
    PROVE  FailureInv'
<1> USE JobFields, ErrFields DEF FailureInv, Explained, Ending, LeavePlaces, sessionVars
<1>t. job \in [Threads -> Jobs] /\ "caller" \in Threads /\ "loop" \in Threads
  BY DEF Inv, TypeOK, MemberTypeOK, Threads
<1>q. /\ loop # "send" => job["loop"] = NoJob
      /\ call \notin {"resolve", "return", "leave", "joinLoop"} => job["caller"] = NoJob
  BY DEF Inv, LoopInv, CallerJobInv, Quiet
<1>j. job[t] \in Jobs /\ t \in {"caller", "loop"} /\ snapshot \in Snapshots
  BY <1>t DEF Threads, Inv, TypeOK
<1>1. CASE StoreState(t) /\ UNCHANGED sessionVars
  <2>1. /\ \A u \in Threads : job'[u].err = job[u].err
        /\ job'[t].set = None
        /\ \A u \in Threads \ {t} : job'[u] = job[u]
        /\ state' = job[t].set
        /\ job[t].set # None
    BY <1>1, <1>t, <1>j DEF StoreState, Jobs
  <2>2. Explained' <=> Explained
    BY <1>1, <1>t, <2>1
  <2>3. Ending' => Ending
    BY <1>t, <1>j, <2>1
  <2>4. call \notin {"connect", "poll", "service", "start"}
    BY <1>j, <1>q, <2>1 DEF Inv, LoopInv, JoinPlaces
  <2>5. call = "resolve" => t = "caller"
    BY <1>j, <1>q, <2>1 DEF Inv, LoopInv, JoinPlaces
  <2>6. call = "resolve" => state' = "Joining"
    BY <1>j, <2>1, <2>5 DEF Inv, CallerJobInv
  <2> HIDE DEF Explained, Ending
  <2> QED BY <1>1, <2>2, <2>3, <2>4, <2>6 DEF StoreState
<1>2. CASE LoadState(t) /\ UNCHANGED sessionVars
  BY <1>2, <1>t, <1>j DEF LoadState
<1>3. CASE \E s \in States : OnStateChanged(t, s)
  BY <1>3, <1>t, <1>j DEF OnStateChanged, InvokeState, Snapshots
<1>4. CASE \E e \in Errors : OnError(t, e)
  BY <1>4, <1>t, <1>j DEF OnError, InvokeError, Snapshots, Inv, ApiInv, WorkerRunning
<1>5. CASE OnRoomInformationChanged(t)
  BY <1>5, <1>t, <1>j DEF OnRoomInformationChanged, InvokeRoom, Snapshots
<1> QED BY <1>1, <1>2, <1>3, <1>4, <1>5 DEF SessionCallback

\* Run stops polling only when cancelled or when the member is Idle.
LEMMA WorkerFailure ==
    ASSUME Inv, FailureInv, WorkerStep
    PROVE  FailureInv'
<1> USE JobFields, ErrFields DEF FailureInv, Explained, Ending, LeavePlaces, sessionVars
<1>t. job \in [Threads -> Jobs] /\ "caller" \in Threads /\ "loop" \in Threads
  BY DEF Inv, TypeOK, MemberTypeOK, Threads
<1>q. /\ loop # "send" => job["loop"] = NoJob
      /\ call \notin {"resolve", "return", "leave", "joinLoop"} => job["caller"] = NoJob
  BY DEF Inv, LoopInv, CallerJobInv, Quiet
<1> USE DEF memberVars
<1>s. snapshot \in Snapshots /\ state \in States BY DEF Inv, TypeOK, MemberTypeOK
<1>1. CASE WorkerJoin BY <1>1 DEF WorkerJoin, Join
<1>2. CASE WorkerJoinReturned
  BY <1>2 DEF WorkerJoinReturned, Return, Inv, CallerInv
<1>3. CASE WorkerStopPolling BY <1>3, <1>s DEF WorkerStopPolling, IsConnected, States
<1>4. CASE WorkerExpire BY <1>4 DEF WorkerExpire
<1>5. CASE WorkerReport("expired", "timeout")
  BY <1>5, <1>s DEF WorkerReport, Snapshots
<1>6. CASE WorkerReport("caught", "internal")
  BY <1>6, <1>s DEF WorkerReport, Snapshots
<1>7. CASE WorkerLeave BY <1>7 DEF WorkerLeave, Leave
<1>8. CASE WorkerLeft BY <1>8 DEF WorkerLeft, Return
<1>9. CASE WorkerSetIdle
  BY <1>9, <1>s DEF WorkerSetIdle, Snapshots, ClearMembers, Inv, WorkerInv, Clean, Quiet
<1>10. CASE WorkerFinish BY <1>10 DEF WorkerFinish
<1>11. CASE (JoinStep(cancel) \/ LeaveStep) /\ UNCHANGED sessionVars
  BY <1>11, JoinFailure, LeaveFailure
<1> QED BY <1>1, <1>2, <1>3, <1>4, <1>5, <1>6, <1>7, <1>8, <1>9, <1>10, <1>11
        DEF WorkerStep

\* The calls that hold api_mutex.
LEMMA ApiFailure ==
    ASSUME Inv, FailureInv, ApiCall \/ ApiStep
    PROVE  FailureInv'
<1> USE JobFields, ErrFields DEF FailureInv, Explained, Ending, LeavePlaces, sessionVars
<1>t. job \in [Threads -> Jobs] /\ "caller" \in Threads /\ "loop" \in Threads
  BY DEF Inv, TypeOK, MemberTypeOK, Threads
<1>q. /\ loop # "send" => job["loop"] = NoJob
      /\ call \notin {"resolve", "return", "leave", "joinLoop"} => job["caller"] = NoJob
  BY DEF Inv, LoopInv, CallerJobInv, Quiet
<1> USE DEF memberVars, BeginStop, JoinWorker
<1>s. snapshot \in Snapshots BY DEF Inv, TypeOK
<1>1. CASE \E o \in {"ok", "noNetwork", "threw"} : Initialize(o)
  BY <1>1, <1>s DEF Initialize, Snapshots
<1>2. CASE GameReady \/ GameStopped \/ Shutdown \/ RoomLeave
  BY <1>2 DEF GameReady, GameStopped, Shutdown, RoomLeave
<1>3. CASE RoomJoin BY <1>3 DEF RoomJoin
<1>4. CASE GameReadyDone BY <1>4, <1>s DEF GameReadyDone, Snapshots
<1>5. CASE GameStoppedDone BY <1>5, <1>s DEF GameStoppedDone, Snapshots, ClearMembers
<1>6. CASE ShutdownOffline BY <1>6, <1>s DEF ShutdownOffline, Snapshots, ClearMembers
<1>7. CASE ShutdownUnbind BY <1>7 DEF ShutdownUnbind
<1>8. CASE RoomJoinWorker BY <1>8 DEF RoomJoinWorker
<1>9. CASE RoomJoinCancel BY <1>9 DEF RoomJoinCancel, Inv, ApiInv
<1>10. CASE RoomJoinSnapshot BY <1>10 DEF RoomJoinSnapshot, Inv, ApiInv
<1>11. CASE \E ok \in BOOLEAN : RoomJoinStart(ok)
  BY <1>11, <1>s DEF RoomJoinStart, Snapshots, Inv, ApiInv, SnapshotInv
<1>12. CASE RoomLeaveSnapshot BY <1>12, <1>s DEF RoomLeaveSnapshot, Snapshots
<1> QED BY <1>1, <1>2, <1>3, <1>4, <1>5, <1>6, <1>7, <1>8, <1>9, <1>10, <1>11,
           <1>12 DEF ApiCall, ApiStep

\* A session that nobody cancelled never reaches IDLE without its reason.
THEOREM FailuresAreExplained == Spec => []EveryFailureExplained
<1>1. Init => FailureInv
  BY DEF Init, FailureInv
<1>2. Inv /\ FailureInv /\ [Next]_vars => FailureInv'
  <2> SUFFICES ASSUME Inv, FailureInv, [Next]_vars PROVE FailureInv' OBVIOUS
  <2>1. ASSUME NEW t \in Threads, SessionCallback(t) PROVE FailureInv'
    BY <2>1, CallbackFailure
  <2>2. CASE ApiCall \/ ApiStep BY <2>2, ApiFailure
  <2>3. CASE WorkerStep BY <2>3, WorkerFailure
  <2>4. CASE LoopStep /\ UNCHANGED sessionVars BY <2>4, LoopFailure
  <2>5. CASE EmuStep /\ UNCHANGED sessionVars
    BY <2>5 DEF EmuStep, EmuCheck, EmuGetMacAddress, EmuSendWifiPacket,
       sessionVars, FailureInv, Explained, Ending
  <2>6. CASE UNCHANGED vars
    BY <2>6 DEF vars, memberVars, sessionVars, FailureInv, Explained, Ending
  <2>7. "caller" \in Threads /\ "loop" \in Threads BY DEF Threads
  <2> QED BY <2>1, <2>2, <2>3, <2>4, <2>5, <2>6, <2>7
          DEF Next, WorkerThread, LoopThread, EmuThread
<1>3. FailureInv => EveryFailureExplained
  BY DEF FailureInv, EveryFailureExplained
<1> QED BY <1>1, <1>2, <1>3, Invariance, PTL DEF Spec

------------------------------------------------------------------------------
(* The Room bridge implements RoomApi, for every set of errors and every size *)
(* of a room.  Each step of a thread is matched with the one change of the    *)
(* snapshot it makes, or with none.                                           *)

\* What the abstract guards need: `cancel` and `ready` as the call that holds
\* api_mutex left them, and the snapshot as Run's place allows it.
GuardInv ==
    /\ api \in {"readyWait", "stopWait", "shutdownWait", "leaveSnapshot"} => cancel
    /\ api \in {"joinSnapshot", "joinStart"} => ~cancel
    /\ api \in {"joinWait", "joinCancel", "joinSnapshot", "joinStart"} => ready
    /\ ~cancel /\ worker \in WorkerRunning \ {"finish"} =>
         snapshot.state \in {"JOINING", "JOINED"}
    /\ worker = "finish" => snapshot.state \in {"IDLE", "LEAVING"}

\* No call holds the mutex and no session runs when the library is loaded.
LEMMA InitGuard == Init => GuardInv
BY DEF Init, GuardInv, WorkerRunning

\* A step of a RoomMember leaves all that RoomApi and GuardInv speak of alone.
LEMMA MemberGuard ==
    ASSUME GuardInv, UNCHANGED sessionVars
    PROVE  GuardInv' /\ UNCHANGED Api!apiVars
BY DEF GuardInv, sessionVars, Api!apiVars

\* A callback shows JOINED, or an error, or members.
LEMMA CallbackGuard ==
    ASSUME Inv, GuardInv, NEW t \in Threads, SessionCallback(t)
    PROVE  GuardInv' /\ [Api!ApiNext]_(Api!apiVars)
<1> USE DEF GuardInv, Api!apiVars
<1>s. snapshot \in Snapshots BY DEF Inv, TypeOK
<1>1. CASE (StoreState(t) \/ LoadState(t)) /\ UNCHANGED sessionVars
  BY <1>1, MemberGuard
<1>2. CASE \E s \in States : OnStateChanged(t, s)
  <2> SUFFICES ASSUME NEW s \in States, OnStateChanged(t, s)
               PROVE  GuardInv' /\ [Api!ApiNext]_(Api!apiVars)
    BY <1>2
  <2>1. CASE snapshot' = snapshot
    BY <2>1 DEF OnStateChanged
  <2>2. CASE snapshot' # snapshot
    <3>1. /\ snapshot' = [snapshot EXCEPT !.state = "JOINED"]
          /\ ~cancel /\ s \in {"Joined", "Moderator"}
      BY <2>2 DEF OnStateChanged
    <3>2. snapshot'.state = "JOINED" BY <3>1, <1>s DEF Snapshots
    <3>3. SnapshotInv'
      <4>1. Next BY DEF Next, WorkerThread, LoopThread, Threads
      <4> QED BY <4>1, NextInv DEF Inv
    <3>4. worker \in WorkerRunning \ {"start", "finish"}
      BY <3>2, <3>3 DEF SnapshotInv, OnStateChanged
    <3>5. ~finished BY <3>4 DEF Inv, WorkerInv, WorkerRunning
    <3>6. Api!ShowJoined
      BY <3>1, <3>2, <3>4, <3>5 DEF Api!ShowJoined, OnStateChanged
    <3> QED BY <3>2, <3>4, <3>6 DEF OnStateChanged, Api!ApiNext
  <2> QED BY <2>1, <2>2
<1>3. CASE \E e \in Errors : OnError(t, e)
  BY <1>3, <1>s DEF OnError, Snapshots
<1>4. CASE OnRoomInformationChanged(t)
  BY <1>4, <1>s DEF OnRoomInformationChanged, Snapshots
<1> QED BY <1>1, <1>2, <1>3, <1>4 DEF SessionCallback

\* Run shows IDLE, then ends; the rest of it is invisible.
LEMMA WorkerGuard ==
    ASSUME Inv, GuardInv, WorkerStep
    PROVE  GuardInv' /\ [Api!ApiNext]_(Api!apiVars)
<1> USE DEF GuardInv, Api!apiVars, WorkerRunning
<1>s. snapshot \in Snapshots BY DEF Inv, TypeOK
<1>f. finished <=> worker \in {"none", "exited"} BY DEF Inv, WorkerInv
<1>1. CASE WorkerJoin BY <1>1 DEF WorkerJoin
<1>2. CASE WorkerJoinReturned BY <1>2 DEF WorkerJoinReturned
<1>3. CASE WorkerStopPolling BY <1>3 DEF WorkerStopPolling
<1>4. CASE WorkerExpire BY <1>4 DEF WorkerExpire
<1>5. CASE WorkerReport("expired", "timeout") BY <1>5, <1>s DEF WorkerReport, Snapshots
<1>6. CASE WorkerReport("caught", "internal") BY <1>6, <1>s DEF WorkerReport, Snapshots
<1>7. CASE WorkerLeave BY <1>7 DEF WorkerLeave
<1>8. CASE WorkerLeft BY <1>8 DEF WorkerLeft
<1>9. CASE WorkerSetIdle
  <2>1. snapshot'.state = "IDLE"
    BY <1>9, <1>s DEF WorkerSetIdle, ClearMembers, Snapshots
  <2>2. Api!ShowIdle BY <1>9, <2>1, <1>f DEF WorkerSetIdle, Api!ShowIdle
  <2> QED BY <1>9, <2>1, <2>2 DEF WorkerSetIdle, Api!ApiNext
<1>10. CASE WorkerFinish
  <2>1. Api!End BY <1>10, <1>f DEF WorkerFinish, Api!End
  <2> QED BY <1>10, <2>1 DEF WorkerFinish, Api!ApiNext
<1>11. CASE (JoinStep(cancel) \/ LeaveStep) /\ UNCHANGED sessionVars
  BY <1>11, MemberGuard
<1> QED BY <1>1, <1>2, <1>3, <1>4, <1>5, <1>6, <1>7, <1>8, <1>9, <1>10, <1>11
        DEF WorkerStep

\* The calls that hold api_mutex.
LEMMA ApiGuard ==
    ASSUME Inv, GuardInv, ApiCall \/ ApiStep
    PROVE  GuardInv' /\ [Api!ApiNext]_(Api!apiVars)
<1> USE DEF GuardInv, Api!apiVars, BeginStop, JoinWorker
<1>s. snapshot \in Snapshots BY DEF Inv, TypeOK
<1>b. ready \in BOOLEAN /\ cancel \in BOOLEAN /\ finished \in BOOLEAN
  BY DEF Inv, TypeOK
<1>f. finished <=> worker \in {"none", "exited"} BY DEF Inv, WorkerInv
<1>1. CASE \E o \in {"ok", "noNetwork", "threw"} : Initialize(o)
  BY <1>1, <1>s DEF Initialize, Snapshots
<1>2. CASE GameReady \/ GameStopped \/ Shutdown \/ RoomLeave
  <2>1. Api!Cancel
    BY <1>2, <1>b DEF GameReady, GameStopped, Shutdown, RoomLeave, Api!Cancel
  <2> QED BY <1>2, <2>1 DEF GameReady, GameStopped, Shutdown, RoomLeave, Api!ApiNext
<1>3. CASE RoomJoin BY <1>3 DEF RoomJoin
<1>4. CASE GameReadyDone
  <2>1. snapshot'.state = "IDLE" BY <1>4, <1>s DEF GameReadyDone, Snapshots
  <2>2. Api!Open BY <1>4, <2>1, <1>f DEF GameReadyDone, Api!Open
  <2> QED BY <1>4, <2>2 DEF GameReadyDone, Api!ApiNext, WorkerRunning
<1>5. CASE GameStoppedDone
  <2>1. snapshot'.state = "OFFLINE"
    BY <1>5, <1>s DEF GameStoppedDone, Snapshots, ClearMembers
  <2>2. Api!Close BY <1>5, <2>1, <1>f DEF GameStoppedDone, Api!Close, Inv, ApiInv
  <2> QED BY <1>5, <2>2 DEF GameStoppedDone, Api!ApiNext, WorkerRunning
<1>6. CASE ShutdownOffline
  <2>1. snapshot'.state = "OFFLINE"
    BY <1>6, <1>s DEF ShutdownOffline, Snapshots, ClearMembers
  <2>2. Api!Close BY <1>6, <2>1, <1>f DEF ShutdownOffline, Api!Close, Inv, ApiInv
  <2> QED BY <1>6, <2>2 DEF ShutdownOffline, Api!ApiNext, WorkerRunning
<1>7. CASE ShutdownUnbind BY <1>7 DEF ShutdownUnbind
<1>8. CASE RoomJoinWorker BY <1>8 DEF RoomJoinWorker, WorkerRunning
<1>9. CASE RoomJoinCancel
  <2>1. worker = "none" BY <1>9 DEF RoomJoinCancel, Inv, ApiInv
  <2>2. Api!Accept BY <1>9, <2>1, <1>f DEF RoomJoinCancel, Api!Accept
  <2> QED BY <1>9, <2>1, <2>2 DEF RoomJoinCancel, Api!ApiNext, WorkerRunning
<1>10. CASE RoomJoinSnapshot
  <2>1. worker = "none" BY <1>10 DEF RoomJoinSnapshot, Inv, ApiInv
  <2>2. Api!ShowJoining BY <1>10, <2>1, <1>f DEF RoomJoinSnapshot, Api!ShowJoining
  <2> QED BY <1>10, <2>1, <2>2 DEF RoomJoinSnapshot, Api!ApiNext, WorkerRunning
<1>11. CASE \E ok \in BOOLEAN : RoomJoinStart(ok)
  <2> SUFFICES ASSUME NEW ok \in BOOLEAN, RoomJoinStart(ok)
               PROVE  GuardInv' /\ [Api!ApiNext]_(Api!apiVars)
    BY <1>11
  <2>1. worker = "none" /\ finished /\ snapshot.state = "JOINING"
    BY <1>f DEF RoomJoinStart, Inv, ApiInv, SnapshotInv
  <2>2. ~ok => snapshot'.state = "IDLE" BY <1>s DEF RoomJoinStart, Snapshots
  <2>3. Api!Start BY <2>1, <2>2 DEF RoomJoinStart, Api!Start
  <2> QED BY <2>1, <2>2, <2>3 DEF RoomJoinStart, Api!ApiNext, WorkerRunning
<1>12. CASE RoomLeaveSnapshot
  <2>1. CASE finished BY <1>12, <2>1 DEF RoomLeaveSnapshot
  <2>2. CASE ~finished
    <3>1. snapshot'.state = "LEAVING" BY <1>12, <2>2, <1>s DEF RoomLeaveSnapshot, Snapshots
    <3>2. Api!ShowLeaving BY <1>12, <2>2, <3>1 DEF RoomLeaveSnapshot, Api!ShowLeaving
    <3> QED BY <1>12, <3>1, <3>2 DEF RoomLeaveSnapshot, Api!ApiNext
  <2> QED BY <2>1, <2>2
<1> QED BY <1>1, <1>2, <1>3, <1>4, <1>5, <1>6, <1>7, <1>8, <1>9, <1>10, <1>11,
           <1>12 DEF ApiCall, ApiStep

\* RoomSession implements RoomApi: every behaviour of the bridge, whatever the
\* interleaving of the screen, the game, the worker and MemberLoop, looks to
\* the screen like a behaviour of the interface.
THEOREM BridgeImplementsApi == Spec => ImplementsApi
<1>1. Init => GuardInv /\ Api!ApiInit
  BY InitGuard DEF Init, Api!ApiInit
<1>2. Inv /\ GuardInv /\ [Next]_vars => GuardInv' /\ [Api!ApiNext]_(Api!apiVars)
  <2> SUFFICES ASSUME Inv, GuardInv, [Next]_vars
               PROVE  GuardInv' /\ [Api!ApiNext]_(Api!apiVars)
    OBVIOUS
  <2>1. ASSUME NEW t \in Threads, SessionCallback(t)
        PROVE  GuardInv' /\ [Api!ApiNext]_(Api!apiVars)
    BY <2>1, CallbackGuard
  <2>2. CASE ApiCall \/ ApiStep BY <2>2, ApiGuard
  <2>3. CASE WorkerStep BY <2>3, WorkerGuard
  <2>4. CASE UNCHANGED sessionVars BY <2>4, MemberGuard
  <2>5. CASE UNCHANGED vars BY <2>5, MemberGuard DEF vars, sessionVars
  <2>6. "caller" \in Threads /\ "loop" \in Threads BY DEF Threads
  <2> QED BY <2>1, <2>2, <2>3, <2>4, <2>5, <2>6
          DEF Next, WorkerThread, LoopThread, EmuThread
<1> QED BY <1>1, <1>2, Invariance, PTL DEF Spec, ImplementsApi, Api!ApiSpec

==============================================================================
