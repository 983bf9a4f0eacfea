------------------------------ MODULE RoomMember ------------------------------
(***************************************************************************)
(* The ENet client of a room: network/room_member.cpp.                     *)
(*                                                                         *)
(* Three threads touch a RoomMember.  The caller runs Join and Leave, the  *)
(* loop thread that Join starts runs MemberLoop, and the emulated console  *)
(* sends its wireless frames through it.  Every step below is one access   *)
(* to state that another of these threads can see; what a thread does      *)
(* between two such accesses is folded into the step before it.            *)
(*                                                                         *)
(* The room server is not part of the repository.  `peer` records how far  *)
(* it has let this client in, which decides the events it can still send.  *)
(***************************************************************************)
EXTENDS Integers, FiniteSets

CONSTANTS
    Refusals,    \* the errors by which a room turns a join request down
    Evictions,   \* the errors by which a room ends a membership
    Denials,     \* the errors that answer a moderation request
    RoomSizes    \* the member counts a RoomInformation message may carry

ASSUME RoomSizesAssumption == RoomSizes \subseteq Nat \ {0}

ASSUME ErrorsAssumption ==
    {"None", "internal", "timeout"} \cap (Refusals \cup Evictions \cup Denials) = {}

None == "None"

States == {"Idle", "Joining", "Joined", "Moderator"}

\* RoomMember::Error, by the groups the code treats alike.
Errors == Refusals \cup Evictions \cup Denials
            \cup {"LostConnection", "UnknownError", "CouldNotConnect"}

Packets == {"JoinRequest", "GameInfo", "Wifi"}

Threads == {"caller", "loop"}

\* What a thread still owes of SetState (set, then call) and of SetError or
\* the room callback.  call = "load" is the re-read of `state` that SetState
\* makes to build the argument of Invoke.
Jobs == [set : States \cup {None}, call : States \cup {"load", None},
         err : Errors \cup {None}, room : BOOLEAN]

NoJob == [set |-> None, call |-> None, err |-> None, room |-> FALSE]

SetState(s) == [NoJob EXCEPT !.set = s]
SetStateAndError(s, e) == [NoJob EXCEPT !.set = s, !.err = e]

\* Places of the caller: outside any call, inside Join, inside Leave.
JoinPlaces == {"begin", "create", "joining", "resolve", "connect", "poll",
               "service", "start", "request", "info"}
LeavePlaces == {"leave", "joinLoop", "destroy"}
CallPlaces == {"out", "return", "threw"} \cup JoinPlaces \cup LeavePlaces

\* Places of the loop thread; "none" is a null loop_thread.
LoopRunning == {"top", "recv", "send", "disconnect", "drain"}
LoopPlaces == LoopRunning \cup {"none", "exited"}

VARIABLES
    state,      \* std::atomic<State> state
    client,     \* client # nullptr: the ENet host exists
    server,     \* server # nullptr
    immediate,  \* immediate_disconnect
    sendList,   \* the kinds of packet in send_list
    info,       \* member_information.size()
    call,       \* where the caller is
    frame,      \* Leave's argument, and what follows it in its caller
    loop,       \* loop_thread and where it is
    job,        \* per thread, the callbacks it has still to invoke
    peer,       \* how far the server has let this client in
    emu         \* where the console's SendPacket is

memberVars == <<state, client, server, immediate, sendList, info, call, frame,
                loop, job, peer, emu>>

Frames == [imm : BOOLEAN, after : {"return", "create", "fail"}]
Peers == {"none", "transport", "requested", "informed", "member", "over"}

MemberTypeOK ==
    /\ state \in States
    /\ client \in BOOLEAN
    /\ server \in BOOLEAN
    /\ immediate \in BOOLEAN
    /\ sendList \subseteq Packets
    /\ info \in Nat
    /\ call \in CallPlaces
    /\ frame \in Frames
    /\ loop \in LoopPlaces
    /\ job \in [Threads -> Jobs]
    /\ peer \in Peers
    /\ emu \in {"idle", "mac", "push"}

MemberInit ==
    /\ state = "Idle"
    /\ client = FALSE
    /\ server = FALSE
    /\ immediate = FALSE
    /\ sendList = {}
    /\ info = 0
    /\ call = "out"
    /\ frame = [imm |-> FALSE, after |-> "return"]
    /\ loop = "none"
    /\ job = [t \in Threads |-> NoJob]
    /\ peer = "none"
    /\ emu = "idle"

IsConnected == state \in {"Joining", "Joined", "Moderator"}
InRoom == state \in {"Joined", "Moderator"}

Quiet(t) == job[t] = NoJob
Owe(t, j) == job' = [job EXCEPT ![t] = j]

------------------------------------------------------------------------------
(* SetState, SetError and Invoke.  The load, the comparison and the store   *)
(* of SetState are one step: whichever value a racing store leaves between   *)
(* them, the stored value and the callbacks are those of one of the orders.  *)

StoreState(t) ==
    /\ job[t].set # None
    /\ state' = job[t].set
    /\ job' = [job EXCEPT ![t].set = None,
                          ![t].call = IF state = job[t].set THEN None ELSE "load"]
    /\ UNCHANGED <<client, server, immediate, sendList, info, call, frame, loop,
                   peer, emu>>

LoadState(t) ==
    /\ job[t].set = None
    /\ job[t].call = "load"
    /\ job' = [job EXCEPT ![t].call = state]
    /\ UNCHANGED <<state, client, server, immediate, sendList, info, call, frame,
                   loop, peer, emu>>

\* Invoke runs every bound callback under callback_mutex: one step.
InvokeState(t, s) ==
    /\ job[t].set = None
    /\ job[t].call = s
    /\ s \in States
    /\ job' = [job EXCEPT ![t].call = None]
    /\ UNCHANGED <<state, client, server, immediate, sendList, info, call, frame,
                   loop, peer, emu>>

InvokeError(t, e) ==
    /\ job[t].set = None
    /\ job[t].call = None
    /\ job[t].err = e
    /\ e # None
    /\ job' = [job EXCEPT ![t].err = None]
    /\ UNCHANGED <<state, client, server, immediate, sendList, info, call, frame,
                   loop, peer, emu>>

InvokeRoom(t) ==
    /\ job[t].set = None
    /\ job[t].room
    /\ job' = [job EXCEPT ![t].room = FALSE]
    /\ UNCHANGED <<state, client, server, immediate, sendList, info, call, frame,
                   loop, peer, emu>>

------------------------------------------------------------------------------
(* Join                                                                     *)

\* The caller enters Join.
Join ==
    /\ call = "out"
    /\ call' = "begin"
    /\ UNCHANGED <<state, client, server, immediate, sendList, info, frame, loop,
                   job, peer, emu>>

\* A loop thread that was never joined is left first, gracefully.
JoinBegin ==
    /\ call = "begin"
    /\ IF loop # "none"
         THEN /\ call' = "leave"
              /\ frame' = [imm |-> FALSE, after |-> "create"]
         ELSE /\ call' = "create"
              /\ UNCHANGED frame
    /\ UNCHANGED <<state, client, server, immediate, sendList, info, loop, job,
                   peer, emu>>

JoinCreate(ok) ==
    /\ call = "create"
    /\ Quiet("caller")
    /\ IF client \/ ok
         THEN /\ client' = TRUE
              /\ call' = "joining"
              /\ UNCHANGED job
         ELSE /\ UNCHANGED client
              /\ call' = "return"
              /\ Owe("caller", SetStateAndError("Idle", "UnknownError"))
    /\ UNCHANGED <<state, server, immediate, sendList, info, frame, loop, peer,
                   emu>>

JoinSetJoining ==
    /\ call = "joining"
    /\ immediate' = FALSE
    /\ Owe("caller", SetState("Joining"))
    /\ call' = "resolve"
    /\ UNCHANGED <<state, client, server, sendList, info, frame, loop, peer, emu>>

JoinResolve(ok) ==
    /\ call = "resolve"
    /\ Quiet("caller")
    /\ IF ok
         THEN /\ call' = "connect"
              /\ UNCHANGED <<job, frame>>
         ELSE /\ Owe("caller", SetStateAndError("Idle", "CouldNotConnect"))
              /\ call' = "leave"
              /\ frame' = [imm |-> TRUE, after |-> "return"]
    /\ UNCHANGED <<state, client, server, immediate, sendList, info, loop, peer,
                   emu>>

JoinConnect(ok) ==
    /\ call = "connect"
    /\ server' = ok
    /\ IF ok
         THEN /\ call' = "poll"
              /\ UNCHANGED job
         ELSE /\ Owe("caller", SetStateAndError("Idle", "UnknownError"))
              /\ call' = "return"
    /\ UNCHANGED <<state, client, immediate, sendList, info, frame, loop, peer,
                   emu>>

\* One turn of the 25 ms wait: `cancelled` is what the predicate returned.
JoinPoll(cancelled) ==
    /\ call = "poll"
    /\ IF cancelled
         THEN /\ call' = "leave"
              /\ frame' = [imm |-> TRUE, after |-> "return"]
         ELSE /\ call' = "service"
              /\ UNCHANGED frame
    /\ UNCHANGED <<state, client, server, immediate, sendList, info, loop, job,
                   peer, emu>>

\* enet_host_service returned nothing and the deadline has not passed.
JoinServiceNothing ==
    /\ call = "service"
    /\ call' = "poll"
    /\ UNCHANGED <<state, client, server, immediate, sendList, info, frame, loop,
                   job, peer, emu>>

JoinServiceConnect ==
    /\ call = "service"
    /\ peer' = "transport"
    /\ call' = "start"
    /\ UNCHANGED <<state, client, server, immediate, sendList, info, frame, loop,
                   job, emu>>

\* The deadline, a service error, or an event other than CONNECT.
JoinServiceFail ==
    /\ call = "service"
    /\ call' = "leave"
    /\ frame' = [imm |-> TRUE, after |-> "fail"]
    /\ UNCHANGED <<state, client, server, immediate, sendList, info, loop, job,
                   peer, emu>>

\* StartLoop; std::thread may throw, and the exception leaves Join.
JoinStartLoop(ok) ==
    /\ call = "start"
    /\ IF ok
         THEN /\ loop' = "top"
              /\ call' = "request"
         ELSE /\ call' = "threw"
              /\ UNCHANGED loop
    /\ UNCHANGED <<state, client, server, immediate, sendList, info, frame, job,
                   peer, emu>>

JoinSendRequest ==
    /\ call = "request"
    /\ sendList' = sendList \cup {"JoinRequest"}
    /\ call' = "info"
    /\ UNCHANGED <<state, client, server, immediate, info, frame, loop, job, peer,
                   emu>>

\* SendGameInfo drops the packet when the member is no longer connected.
JoinSendGameInfo ==
    /\ call = "info"
    /\ sendList' = IF IsConnected THEN sendList \cup {"GameInfo"} ELSE sendList
    /\ call' = "return"
    /\ UNCHANGED <<state, client, server, immediate, info, frame, loop, job, peer,
                   emu>>

------------------------------------------------------------------------------
(* Leave                                                                    *)

Leave(imm) ==
    /\ call = "out"
    /\ call' = "leave"
    /\ frame' = [imm |-> imm, after |-> "return"]
    /\ UNCHANGED <<state, client, server, immediate, sendList, info, loop, job,
                   peer, emu>>

LeaveSetIdle ==
    /\ call = "leave"
    /\ Quiet("caller")
    /\ immediate' = frame.imm
    /\ Owe("caller", SetState("Idle"))
    /\ call' = "joinLoop"
    /\ UNCHANGED <<state, client, server, sendList, info, frame, loop, peer, emu>>

\* Faulty: the host is destroyed without waiting for the loop thread.
LeaveDetachLoop ==
    /\ call = "joinLoop"
    /\ Quiet("caller")
    /\ call' = "destroy"
    /\ UNCHANGED <<state, client, server, immediate, sendList, info, frame, loop,
                   job, peer, emu>>

\* loop_thread->join() returns once MemberLoop has returned.
LeaveJoinLoop ==
    /\ call = "joinLoop"
    /\ Quiet("caller")
    /\ loop \in {"none", "exited"}
    /\ loop' = "none"
    /\ call' = "destroy"
    /\ UNCHANGED <<state, client, server, immediate, sendList, info, frame, job,
                   peer, emu>>

\* Destroys the ENet host, clears send_list, and goes on where Leave was called.
LeaveDestroy ==
    /\ call = "destroy"
    /\ client' = FALSE
    /\ server' = FALSE
    /\ sendList' = {}
    /\ peer' = "none"
    /\ CASE frame.after = "create" -> call' = "create" /\ UNCHANGED job
         [] frame.after = "return" -> call' = "return" /\ UNCHANGED job
         [] frame.after = "fail" ->
              /\ call' = "return"
              /\ Owe("caller", SetStateAndError("Idle", "CouldNotConnect"))
    /\ UNCHANGED <<state, immediate, info, frame, loop, emu>>

\* Join or Leave returns to, or throws into, the code that called it.
Return ==
    /\ call \in {"return", "threw"}
    /\ Quiet("caller")
    /\ call' = "out"
    /\ UNCHANGED <<state, client, server, immediate, sendList, info, frame, loop,
                   job, peer, emu>>

------------------------------------------------------------------------------
(* MemberLoop                                                               *)

LoopTop ==
    /\ loop = "top"
    /\ loop' = IF IsConnected THEN "recv" ELSE "disconnect"
    /\ UNCHANGED <<state, client, server, immediate, sendList, info, call, frame,
                   job, peer, emu>>

\* No event within 16 ms, or one that changes nothing here (wifi, chat, status,
\* ban list).
LoopNothing ==
    /\ loop = "recv"
    /\ loop' = "send"
    /\ UNCHANGED <<state, client, server, immediate, sendList, info, call, frame,
                   job, peer, emu>>

\* The server shows a newcomer the member list before it admits it.
LoopRoomInformation(n) ==
    /\ loop = "recv"
    /\ peer \in {"requested", "informed", "member"}
    /\ info' = n
    /\ peer' = IF peer = "requested" THEN "informed" ELSE peer
    /\ Owe("loop", [NoJob EXCEPT !.room = TRUE])
    /\ loop' = "send"
    /\ UNCHANGED <<state, client, server, immediate, sendList, call, frame, emu>>

LoopJoinSuccess(s) ==
    /\ loop = "recv"
    /\ peer = "informed"
    /\ peer' = "member"
    /\ Owe("loop", SetState(s))
    /\ loop' = "send"
    /\ UNCHANGED <<state, client, server, immediate, sendList, info, call, frame,
                   emu>>

LoopRefused(e) ==
    /\ loop = "recv"
    /\ peer = "requested"
    /\ peer' = "over"
    /\ Owe("loop", SetStateAndError("Idle", e))
    /\ loop' = "send"
    /\ UNCHANGED <<state, client, server, immediate, sendList, info, call, frame,
                   emu>>

\* Faulty: the state is reset and the reason is not reported.
LoopEvictedSilently(e) ==
    /\ loop = "recv"
    /\ peer \in {"informed", "member"}
    /\ peer' = "over"
    /\ Owe("loop", SetState("Idle"))
    /\ loop' = "send"
    /\ UNCHANGED <<state, client, server, immediate, sendList, info, call, frame,
                   emu>>

LoopEvicted(e) ==
    /\ loop = "recv"
    /\ peer \in {"informed", "member"}
    /\ peer' = "over"
    /\ Owe("loop", SetStateAndError("Idle", e))
    /\ loop' = "send"
    /\ UNCHANGED <<state, client, server, immediate, sendList, info, call, frame,
                   emu>>

LoopDenied(e) ==
    /\ loop = "recv"
    /\ peer = "member"
    /\ Owe("loop", [NoJob EXCEPT !.err = e])
    /\ loop' = "send"
    /\ UNCHANGED <<state, client, server, immediate, sendList, info, call, frame,
                   peer, emu>>

\* A DISCONNECT event counts only once the room has been entered.
LoopDisconnected ==
    /\ loop = "recv"
    /\ peer # "none"
    /\ peer' = "none"
    /\ IF InRoom
         THEN Owe("loop", SetStateAndError("Idle", "LostConnection"))
         ELSE UNCHANGED job
    /\ loop' = "send"
    /\ UNCHANGED <<state, client, server, immediate, sendList, info, call, frame,
                   emu>>

\* Sends what was queued; the join request reaches the server with it.
LoopSend ==
    /\ loop = "send"
    /\ Quiet("loop")
    /\ sendList' = {}
    /\ peer' = IF "JoinRequest" \in sendList /\ peer = "transport"
                 THEN "requested" ELSE peer
    /\ loop' = "top"
    /\ UNCHANGED <<state, client, server, immediate, info, call, frame, job, emu>>

\* Disconnect: at once when immediate_disconnect is set, else gracefully.
LoopDisconnect ==
    /\ loop = "disconnect"
    /\ info' = 0
    /\ IF ~server \/ immediate
         THEN server' = FALSE /\ peer' = "none" /\ loop' = "exited"
         ELSE loop' = "drain" /\ UNCHANGED <<server, peer>>
    /\ UNCHANGED <<state, client, immediate, sendList, call, frame, job, emu>>

\* The graceful wait ends by the peer's answer, by an immediate Leave, by an
\* error or by its deadline.
LoopDrain ==
    /\ loop = "drain"
    /\ server' = FALSE
    /\ peer' = "none"
    /\ loop' = "exited"
    /\ UNCHANGED <<state, client, immediate, sendList, info, call, frame, job,
                   emu>>

------------------------------------------------------------------------------
(* nwm_uds.cpp SendPacket, on the emulated console's thread                 *)

EmuCheck ==
    /\ emu = "idle"
    /\ InRoom
    /\ emu' = "mac"
    /\ UNCHANGED <<state, client, server, immediate, sendList, info, call, frame,
                   loop, job, peer>>

EmuGetMacAddress ==
    /\ emu = "mac"
    /\ emu' = "push"
    /\ UNCHANGED <<state, client, server, immediate, sendList, info, call, frame,
                   loop, job, peer>>

EmuSendWifiPacket ==
    /\ emu = "push"
    /\ sendList' = sendList \cup {"Wifi"}
    /\ emu' = "idle"
    /\ UNCHANGED <<state, client, server, immediate, info, call, frame, loop, job,
                   peer>>

------------------------------------------------------------------------------
(* What each thread can do once a Join or a Leave has been called.          *)

CallbackStep(t) ==
    \/ StoreState(t)
    \/ LoadState(t)
    \/ \E s \in States : InvokeState(t, s)
    \/ \E e \in Errors : InvokeError(t, e)
    \/ InvokeRoom(t)

JoinStep(cancelled) ==
    \/ JoinBegin
    \/ \E ok \in BOOLEAN : JoinCreate(ok)
    \/ JoinSetJoining
    \/ \E ok \in BOOLEAN : JoinResolve(ok)
    \/ \E ok \in BOOLEAN : JoinConnect(ok)
    \/ JoinPoll(cancelled)
    \/ JoinServiceNothing
    \/ JoinServiceConnect
    \/ JoinServiceFail
    \/ \E ok \in BOOLEAN : JoinStartLoop(ok)
    \/ JoinSendRequest
    \/ JoinSendGameInfo

LeaveStep ==
    \/ LeaveSetIdle
    \/ LeaveJoinLoop
    \/ LeaveDestroy

LoopStep ==
    \/ LoopTop
    \/ LoopNothing
    \/ \E n \in RoomSizes : LoopRoomInformation(n)
    \/ \E s \in {"Joined", "Moderator"} : LoopJoinSuccess(s)
    \/ \E e \in Refusals : LoopRefused(e)
    \/ \E e \in Evictions : LoopEvicted(e)
    \/ \E e \in Denials : LoopDenied(e)
    \/ LoopDisconnected
    \/ LoopSend
    \/ LoopDisconnect
    \/ LoopDrain

EmuStep ==
    \/ EmuCheck
    \/ EmuGetMacAddress
    \/ EmuSendWifiPacket

------------------------------------------------------------------------------
(* Properties                                                               *)

\* MemberLoop never uses an ENet host or peer that Leave has freed: as long
\* as the thread runs, its host and its peer exist.
LoopHasSocket == loop \in LoopRunning => client /\ server

\* An ENet host is serviced by one thread at a time: while Join connects or
\* Leave destroys, which both do without network_mutex, no loop thread is
\* using the host.
OneSocketUser ==
    call \in {"resolve", "connect", "poll", "service", "start", "destroy"} =>
        loop = "none"

\* When Leave has joined the loop thread the member is disconnected, even if
\* the room's answer came in while Leave was waiting: the assertion of
\* ~RoomMember holds after it.
LeaveDisconnects == call = "destroy" => ~IsConnected /\ Quiet("loop")

\* The three together: the ENet host, which is not thread safe, is used by one
\* thread at a time, from its creation to its end, and left disconnected.
SocketIsSafe == LoopHasSocket /\ OneSocketUser /\ LeaveDisconnects
==============================================================================
