-------------------------------- MODULE NwmUds --------------------------------
(***************************************************************************)
(* The connection protocol of the emulated 3DS local wireless service,     *)
(* core/hle/service/nwm/nwm_uds.cpp: how a console opens a network, how    *)
(* others are authenticated, associated, numbered and let go.              *)
(*                                                                         *)
(* uds[c] is the NWM_UDS object of console c.  Two threads of each console *)
(* use it: the game's, whose service calls are the actions of GameCall,    *)
(* and the room member's loop, which hands over the frames it receives     *)
(* (NetworkStep).  connection_status_mutex makes a handler's locked region *)
(* one step; what a handler does before or after that region is a step of  *)
(* its own, remembered in task[c].                                         *)
(*                                                                         *)
(* A frame travels through the room server, which is not part of the       *)
(* repository: reliable and in order between two consoles of the room.     *)
(* A console's name stands for its MAC address.                            *)
(***************************************************************************)
EXTENDS Naturals, Sequences, FiniteSets, Functions

CONSTANTS
    Consoles,    \* the consoles in the room
    Hosts,       \* those whose title may open a network
    MaxNodes,    \* network_info.max_nodes of the title
    MaxCalls     \* bound: service calls after Initialize and departures from the
                 \* room, of all consoles

ASSUME HostsAssumption == Hosts \subseteq Consoles
ASSUME MaxNodesAssumption == MaxNodes \in 2 .. 255  \* a u8
ASSUME BoundsAssumption == MaxCalls \in Nat

NoConsole == "NoConsole"

Ids == 1 .. MaxNodes

Statuses == {"NotConnected", "Host", "Connecting", "Client", "Spectator"}

ConnTypes == {"Client", "Spectator"}

\* The statuses of a console that has asked to be let into a network.
InNetwork == {"Connecting"} \cup ConnTypes

\* An entry of node_map; an entry made by authentication holds zeros.
Nodes == [id : {0} \cup Ids, connected : BOOLEAN, spec : BOOLEAN]
Authenticated == [id |-> 0, connected |-> FALSE, spec |-> FALSE]

EmptyMap == [m \in {} |-> NoConsole]

\* The function f with x mapped to y.
With(f, x, y) == [z \in DOMAIN f \cup {x} |-> IF z = x THEN y ELSE f[z]]

Partial(S, T) == UNION {[D -> T] : D \in SUBSET S}

Frames == [type : {"auth", "assoc", "deauth"}]
    \cup [type : {"start"}, conn : ConnTypes, node : {0, 1}]
    \cup [type : {"logoff"}, id : {0} \cup Ids, max : {MaxNodes},
          total : 0 .. MaxNodes, nodes : Partial(Ids, Consoles)]
    \cup [type : {"nodeMap"}, map : Partial(Consoles, Ids)]

\* What the loop thread of a console has begun: a frame it passed to
\* OnWifiPacketReceived, or an answer to send after the lock is released.
NoTask == [do |-> "none"]

VARIABLES
    uds,         \* console -> its NWM_UDS object
    task,        \* console -> what its loop thread is in the middle of
    link,        \* <<from, to>> -> frames on the way
    joined,      \* consoles whose room member is Joined
    advertised,  \* consoles whose beacon has been broadcast
    crashed,     \* consoles that failed an ASSERT
    calls,       \* number of calls and departures counted by MaxCalls
    dropped,     \* history: consoles that went away without a farewell
    mixed        \* history: consoles that two networks have had a part in

vars == <<uds, task, link, joined, advertised, crashed, calls, dropped, mixed>>

-------------------------------------------------------------------------------

(* The object. *)

\* connection_status = {} with the two fields that survive it.
ClearedStatus(u, s) ==
    [u EXCEPT !.status = s, !.max = 0, !.total = 0, !.bits = {}]

NewUds ==
    [init |-> FALSE, status |-> "NotConnected", id |-> 0, max |-> 0,
     total |-> 0, bits |-> {}, host |-> NoConsole, conn |-> "Client",
     self |-> 0, map |-> EmptyMap, info |-> EmptyMap, beacons |-> 0,
     waiting |-> FALSE]

Init ==
    /\ uds = [c \in Consoles |-> NewUds]
    /\ task = [c \in Consoles |-> NoTask]
    /\ link = [p \in Consoles \X Consoles |-> << >>]
    /\ joined = Consoles
    /\ advertised = {}
    /\ crashed = {}
    /\ calls = 0
    /\ dropped = {}
    /\ mixed = {}

IsHost(c) == uds[c].status = "Host"

\* The nodes BroadcastNodeMap announces: connected and not spectating.
Members(map) == {m \in DOMAIN map : map[m].connected /\ ~map[m].spec}

\* SendPacket: nothing leaves a console that is not in the room.  The server
\* relays a unicast to its destination, a broadcast to everyone else.
Sent(from, to, frames) ==
    [p \in DOMAIN link |->
        IF p[1] = from /\ p[2] \in to \ {from} /\ {from, p[2]} \subseteq joined
        THEN link[p] \o frames ELSE link[p]]

SendPacket(from, to, frames) == link' = Sent(from, to, frames)

Update(c, u) == uds' = [uds EXCEPT ![c] = u]

Done(c) == task' = [task EXCEPT ![c] = NoTask]

\* A console that goes away silently keeps its place at the host; a host that
\* does so misses the farewells of the others.
Vanish(c) == dropped' = dropped \cup (IF c \in Hosts THEN Consoles ELSE {c})

\* A second network has a part in what a console holds: it hosts with a node map it
\* has heard, asks another host before the first has answered, or takes the frame of
\* a host that is not its own.
Mix(c, mixes) == mixed' = IF mixes THEN mixed \cup {c} ELSE mixed

-------------------------------------------------------------------------------

(* Service calls of the title.  A title initialises the service before it *)
(* uses it and opens or joins a network only while it is in none; a call   *)
(* that timed out may be repeated.                                         *)

Calling(c) ==
    /\ c \notin crashed
    /\ ~uds[c].waiting
    /\ uds[c].init
    /\ calls < MaxCalls
    /\ calls' = calls + 1

\* Initialize leaves node_map, network_info and a scheduled beacon alone.
Initialize(c) ==
    /\ c \notin crashed /\ ~uds[c].init
    /\ Update(c, [ClearedStatus(uds[c], "NotConnected")
                    EXCEPT !.init = TRUE, !.id = 0, !.self = 0, !.info = EmptyMap])
    /\ UNCHANGED <<task, link, joined, advertised, crashed, calls, dropped, mixed>>

\* ShutdownHLE leaves connection_status alone and says goodbye to nobody.
ShutdownHLE(c) ==
    /\ Calling(c)
    /\ Update(c, [uds[c] EXCEPT !.init = FALSE, !.map = EmptyMap])
    /\ Vanish(c)
    /\ UNCHANGED <<task, link, joined, advertised, crashed, mixed>>

\* node_map and the other bits of node_bitmask are left as they were.
BeginHostingNetwork(c) ==
    /\ Calling(c) /\ c \in Hosts
    /\ uds[c].status = "NotConnected"
    /\ Update(c, [uds[c] EXCEPT !.status = "Host", !.max = MaxNodes, !.total = 1,
                                !.id = 1, !.self = 1, !.host = c,
                                !.bits = @ \cup {1}, !.info = [i \in {1} |-> c],
                                !.beacons = @ + 1])
    /\ Mix(c, uds[c].map # EmptyMap)
    /\ UNCHANGED <<task, link, joined, advertised, crashed, dropped>>

\* The deauthentication reaches a client's handler, which only a host obeys.
EjectClientHLE(c) ==
    /\ Calling(c) /\ IsHost(c)
    /\ LET deauth == [type |-> "deauth"]
       IN \/ \E m \in Members(uds[c].map) : SendPacket(c, {m}, <<deauth>>)
          \/ SendPacket(c, Consoles, <<deauth, deauth, deauth>>)
    /\ UNCHANGED <<uds, task, joined, advertised, crashed, dropped, mixed>>

\* UnscheduleEvent comes before the test for a host.
DestroyNetworkHLE(c) ==
    /\ Calling(c)
    /\ Update(c, IF IsHost(c)
                 THEN [ClearedStatus(uds[c], "NotConnected")
                         EXCEPT !.map = EmptyMap, !.beacons = 0]
                 ELSE [uds[c] EXCEPT !.beacons = 0])
    /\ UNCHANGED <<task, link, joined, advertised, crashed, dropped, mixed>>

\* The title picks a network it has seen a beacon of; the beacon may be old.
ConnectToNetworkHLE(c, host, conn) ==
    /\ Calling(c)
    /\ uds[c].status \in {"NotConnected", "Connecting"}
    /\ host \in advertised \ {c}
    /\ Update(c, [uds[c] EXCEPT !.host = host, !.conn = conn, !.waiting = TRUE,
                                !.status = "Connecting"])
    /\ SendPacket(c, {host}, <<[type |-> "auth"]>>)
    /\ Mix(c, uds[c].status = "Connecting" /\ uds[c].host # host)
    /\ UNCHANGED <<task, joined, advertised, crashed, dropped>>

\* ThreadCallback::WakeUp after five seconds: the call fails, the status stays.
ConnectTimeout(c) ==
    /\ c \notin crashed /\ uds[c].waiting
    /\ Update(c, [uds[c] EXCEPT !.waiting = FALSE])
    /\ UNCHANGED <<task, link, joined, advertised, crashed, calls, dropped, mixed>>

\* Faulty: the host is not told.
SilentDisconnect(c) ==
    /\ Calling(c)
    /\ Update(c, [ClearedStatus(uds[c], IF IsHost(c) THEN "Host" ELSE "NotConnected")
                    EXCEPT !.map = EmptyMap])
    /\ UNCHANGED <<task, link, joined, advertised, crashed, dropped, mixed>>

\* As a host the call fails and leaves a network of no nodes behind.
DisconnectNetworkHLE(c) ==
    /\ Calling(c)
    /\ Update(c, [ClearedStatus(uds[c], IF IsHost(c) THEN "Host" ELSE "NotConnected")
                    EXCEPT !.map = EmptyMap])
    /\ SendPacket(c, IF IsHost(c) THEN {} ELSE {uds[c].host}, <<[type |-> "deauth"]>>)
    /\ UNCHANGED <<task, joined, advertised, crashed, dropped, mixed>>

\* The scheduled event: a host announces its network and schedules the next.
BeaconBroadcastCallback(c) ==
    /\ c \notin crashed /\ uds[c].beacons > 0
    /\ \/ /\ IsHost(c)
          /\ c \in joined
          /\ advertised' = advertised \cup {c}
          /\ UNCHANGED uds
       \/ /\ ~IsHost(c)
          /\ Update(c, [uds[c] EXCEPT !.beacons = @ - 1])
          /\ UNCHANGED advertised
    /\ UNCHANGED <<task, link, joined, crashed, calls, dropped, mixed>>

GameCall(c) ==
    \/ Initialize(c)
    \/ ShutdownHLE(c)
    \/ BeginHostingNetwork(c)
    \/ EjectClientHLE(c)
    \/ DestroyNetworkHLE(c)
    \/ \E h \in Hosts, t \in ConnTypes : ConnectToNetworkHLE(c, h, t)
    \/ ConnectTimeout(c)
    \/ DisconnectNetworkHLE(c)

-------------------------------------------------------------------------------

(* Frames, on the loop thread. *)

\* OnWifiPacketReceived drops a frame of a service that is not initialised;
\* the handler it chooses has yet to take the lock.
OnWifiPacketReceived(c, from) ==
    /\ c \notin crashed /\ c \in joined
    /\ task[c] = NoTask
    /\ link[<<from, c>>] # << >>
    /\ link' = [link EXCEPT ![<<from, c>>] = Tail(@)]
    /\ task' = IF uds[c].init
               THEN [task EXCEPT ![c] = [do |-> "handle", from |-> from,
                                         frame |-> Head(link[<<from, c>>])]]
               ELSE task
    /\ UNCHANGED <<uds, joined, advertised, crashed, calls, dropped, mixed>>

Handling(c, type) ==
    /\ c \notin crashed
    /\ task[c].do = "handle" /\ task[c].frame.type = type

\* A host takes the MAC address down and will answer; the place it checks
\* for is not reserved.
MayAuthenticate(c, from) ==
    /\ IsHost(c)
    /\ from \notin DOMAIN uds[c].map
    /\ uds[c].max # uds[c].total

HandleAuthenticationFrame(c) ==
    /\ Handling(c, "auth")
    /\ LET from == task[c].from
       IN IF MayAuthenticate(c, from)
          THEN /\ Update(c, [uds[c] EXCEPT !.map = With(@, from, Authenticated)])
               /\ task' = [task EXCEPT ![c] = [do |-> "assoc", to |-> from]]
          ELSE /\ Done(c)
               /\ UNCHANGED uds
    /\ UNCHANGED <<link, joined, advertised, crashed, calls, dropped, mixed>>

SendAssociationResponseFrame(c) ==
    /\ c \notin crashed
    /\ task[c].do = "assoc"
    /\ IF IsHost(c) THEN SendPacket(c, {task[c].to}, <<[type |-> "assoc"]>>)
                    ELSE UNCHANGED link
    /\ Done(c)
    /\ UNCHANGED <<uds, joined, advertised, crashed, calls, dropped, mixed>>

HandleAssociationResponseFrame(c) ==
    /\ Handling(c, "assoc")
    /\ IF uds[c].status = "Connecting"
       THEN task' = [task EXCEPT ![c] = [do |-> "start", to |-> task[c].from]]
       ELSE Done(c)
    /\ UNCHANGED <<uds, link, joined, advertised, crashed, calls, dropped, mixed>>

\* conn_type and current_node are read after the lock is released.
SendEAPoLStart(c) ==
    /\ c \notin crashed
    /\ task[c].do = "start"
    /\ SendPacket(c, {task[c].to},
                  <<[type |-> "start", conn |-> uds[c].conn, node |-> uds[c].self]>>)
    /\ Done(c)
    /\ UNCHANGED <<uds, joined, advertised, crashed, calls, dropped, mixed>>

FreeIds(u) == (1 .. u.max) \ u.bits

GetNextAvailableNodeId(u) == CHOOSE i \in FreeIds(u) : \A j \in FreeIds(u) : i <= j

AdmitClient(u, m) ==
    LET id == GetNextAvailableNodeId(u)
    IN [u EXCEPT !.bits = @ \cup {id}, !.total = @ + 1,
                 !.info = With(@, id, m),
                 !.map = With(@, m, [id |-> id, connected |-> TRUE, spec |-> FALSE])]

AdmitSpectator(u, m) ==
    [u EXCEPT !.map = With(@, m, [id |-> 0, connected |-> TRUE, spec |-> TRUE])]

NodeMapFrame(u) ==
    [type |-> "nodeMap", map |-> [m \in Members(u.map) |-> u.map[m].id]]

LogoffFrame(u, id) ==
    [type |-> "logoff", id |-> id, max |-> u.max, total |-> u.total, nodes |-> u.info]

\* The two frames a host broadcasts once it has let a console in.
Announcement(u, conn, m, node) ==
    IF conn = "Client" THEN <<NodeMapFrame(u), LogoffFrame(u, u.map[m].id)>>
                       ELSE <<LogoffFrame(u, node)>>

\* Only a host that authenticated the sender and has not let it in yet goes on.
Awaits(c, m) ==
    IsHost(c) /\ m \in DOMAIN uds[c].map /\ ~uds[c].map[m].connected

HandleEAPoLStart(c) ==
    /\ Handling(c, "start")
    /\ LET from == task[c].from
           f == task[c].frame
           u == uds[c]
           admitted == IF f.conn = "Client" THEN AdmitClient(u, from)
                                            ELSE AdmitSpectator(u, from)
       IN IF ~Awaits(c, from)
          THEN UNCHANGED <<uds, link, crashed>>
          ELSE IF u.max = u.total \/ (f.conn = "Client" /\ FreeIds(u) = {})
          THEN crashed' = crashed \cup {c} /\ UNCHANGED <<uds, link>>
          ELSE /\ Update(c, admitted)
               /\ SendPacket(c, Consoles, Announcement(admitted, f.conn, from, f.node))
               /\ UNCHANGED crashed
    /\ Done(c)
    /\ UNCHANGED <<joined, advertised, calls, dropped, mixed>>

\* Faulty: a console that is already connected ignores the frame, as on a 3DS.
TakeOwnLogoffOnly(u, from, f) ==
    IF u.status = "Connecting"
    THEN [u EXCEPT !.host = from, !.id = f.id, !.total = f.total, !.max = f.max,
                   !.bits = @ \cup DOMAIN f.nodes, !.info = f.nodes,
                   !.status = u.conn, !.waiting = FALSE]
    ELSE u

\* What a client learns from a logoff frame of any host.  A client that is
\* connecting takes the frame for the answer to its own request.
TakeLogoff(u, from, f) ==
    IF u.status = "Connecting"
    THEN [u EXCEPT !.host = from, !.id = f.id, !.total = f.total, !.max = f.max,
                   !.bits = @ \cup DOMAIN f.nodes, !.info = f.nodes,
                   !.status = u.conn, !.waiting = FALSE]
    ELSE IF u.status \in ConnTypes
    THEN [u EXCEPT !.total = f.total, !.bits = DOMAIN f.nodes, !.info = f.nodes]
    ELSE u

HandleEAPoLLogoff(c) ==
    /\ Handling(c, "logoff")
    /\ Update(c, TakeLogoff(uds[c], task[c].from, task[c].frame))
    /\ Mix(c, uds[c].status \in InNetwork /\ uds[c].host # task[c].from)
    /\ Done(c)
    /\ UNCHANGED <<link, joined, advertised, crashed, calls, dropped>>

\* Whoever is not a host believes the node map of any host it hears.
HandleNodeMapPacket(c) ==
    /\ Handling(c, "nodeMap")
    /\ LET heard == task[c].frame.map
       IN Update(c, IF IsHost(c) THEN uds[c]
                    ELSE [uds[c] EXCEPT !.map =
                            [m \in DOMAIN heard |->
                                [id |-> heard[m], connected |-> TRUE, spec |-> FALSE]]])
    /\ Done(c)
    /\ UNCHANGED <<link, joined, advertised, crashed, calls, dropped, mixed>>

\* Faulty: the number is freed and total_nodes is not.
ReleasedButCounted(u, m) ==
    LET node == u.map[m]
        rest == [u EXCEPT !.map = Restrict(u.map, DOMAIN u.map \ {m})]
    IN IF node.connected /\ ~node.spec /\ node.id \in DOMAIN u.info
       THEN [rest EXCEPT !.bits = @ \ {node.id},
                         !.info = Restrict(@, DOMAIN @ \ {node.id})]
       ELSE rest

\* A host strikes the sender out and, if it held a number, frees the number.
Released(u, m) ==
    LET node == u.map[m]
        rest == [u EXCEPT !.map = Restrict(u.map, DOMAIN u.map \ {m})]
    IN IF node.connected /\ ~node.spec /\ node.id \in DOMAIN u.info
       THEN [rest EXCEPT !.bits = @ \ {node.id}, !.total = (@ + 255) % 256,
                         !.info = Restrict(@, DOMAIN @ \ {node.id})]
       ELSE rest

HandleDeauthenticationFrame(c) ==
    /\ Handling(c, "deauth")
    /\ LET from == task[c].from
       IN Update(c, IF IsHost(c) /\ from \in DOMAIN uds[c].map
                    THEN Released(uds[c], from) ELSE uds[c])
    /\ Done(c)
    /\ UNCHANGED <<link, joined, advertised, crashed, calls, dropped, mixed>>

NetworkStep(c) ==
    \/ \E from \in Consoles \ {c} : OnWifiPacketReceived(c, from)
    \/ HandleAuthenticationFrame(c)
    \/ SendAssociationResponseFrame(c)
    \/ HandleAssociationResponseFrame(c)
    \/ SendEAPoLStart(c)
    \/ HandleEAPoLStart(c)
    \/ HandleEAPoLLogoff(c)
    \/ HandleNodeMapPacket(c)
    \/ HandleDeauthenticationFrame(c)

-------------------------------------------------------------------------------

(* The room: a console may leave it and come back; frames still addressed *)
(* to it are gone, frames it had sent may or may not have been relayed.    *)

LeaveRoom(c) ==
    /\ c \in joined /\ calls < MaxCalls
    /\ joined' = joined \ {c}
    /\ calls' = calls + 1
    /\ \E relayed \in BOOLEAN :
            link' = [p \in DOMAIN link |->
                        IF p[2] = c \/ (p[1] = c /\ ~relayed) THEN << >> ELSE link[p]]
    /\ Vanish(c)
    /\ UNCHANGED <<uds, task, advertised, crashed, mixed>>

JoinRoom(c) ==
    /\ c \notin joined /\ c \notin crashed
    /\ joined' = joined \cup {c}
    /\ UNCHANGED <<uds, task, link, advertised, crashed, calls, dropped, mixed>>

Next ==
    \E c \in Consoles :
        \/ GameCall(c)
        \/ BeaconBroadcastCallback(c)
        \/ NetworkStep(c)
        \/ LeaveRoom(c)
        \/ JoinRoom(c)

Spec == Init /\ [][Next]_vars

-------------------------------------------------------------------------------
(* Properties                                                               *)

Tasks == {NoTask}
    \cup [do : {"handle"}, from : Consoles, frame : Frames]
    \cup [do : {"assoc", "start"}, to : Consoles]

\* Every field of every NWM_UDS object, and every frame, is in its range; the
\* u8 total_nodes counts at most max_nodes although no place is reserved.
TypeOK ==
    /\ \A c \in Consoles :
        LET u == uds[c]
        IN /\ {u.init, u.waiting} \subseteq BOOLEAN
           /\ u.status \in Statuses /\ u.conn \in ConnTypes
           /\ u.id \in {0} \cup Ids /\ u.self \in {0, 1}
           /\ u.max \in {0, MaxNodes} /\ u.total \in 0 .. u.max
           /\ u.bits \subseteq Ids
           /\ u.host \in Consoles \cup {NoConsole}
           /\ DOMAIN u.map \subseteq Consoles /\ Range(u.map) \subseteq Nodes
           /\ DOMAIN u.info \subseteq Ids /\ Range(u.info) \subseteq Consoles
           /\ u.beacons \in Nat
           /\ task[c] \in Tasks
    /\ \A p \in Consoles \X Consoles : Range(link[p]) \subseteq Frames
    /\ \A S \in {joined, advertised, crashed, dropped, mixed} : S \subseteq Consoles

Running(c) == uds[c].init /\ c \notin crashed

\* A host's four records of its members agree, whatever order consoles join,
\* spectate, leave and come back in: the numbers in node_map are distinct,
\* together with the host's own they are exactly node_bitmask, node_info holds
\* the console each belongs to, and total_nodes counts them, unless it began with
\* the node map of another network.  (On every console the fields are in their ranges.)
HostBooksAgree ==
    /\ TypeOK
    /\ \A h \in Consoles :
          LET u == uds[h]
              ids == {u.map[m].id : m \in Members(u.map)}
          IN Running(h) /\ IsHost(h) /\ u.max > 0 /\ h \notin mixed =>
              /\ u.bits = {1} \cup ids /\ 1 \notin ids
              /\ u.total = Cardinality(u.bits)
              /\ \A m \in Members(u.map) : u.info[u.map[m].id] = m
              /\ DOMAIN u.info = u.bits

Farewell(c, h) ==
    \/ [type |-> "deauth"] \in Range(link[<<c, h>>])
    \/ Handling(h, "deauth") /\ task[h].from = c

\* A host remembers no console that has left by DisconnectNetwork: for every
\* entry of node_map the console is still connecting or connected to this
\* host, or its deauthentication is on the way, or it or the host vanished
\* (shut the service down, lost the room, crashed), or another network is involved.
SlotHasOwner ==
    \A h \in Consoles : Running(h) /\ IsHost(h) /\ h \notin mixed =>
        \A c \in DOMAIN uds[h].map :
            \/ uds[c].status \in InNetwork /\ uds[c].host = h
            \/ Farewell(c, h)
            \/ c \in dropped \cup crashed \cup mixed

\* Nothing is on its way from the host to the client.
Settled(h, c) == link[<<h, c>>] = << >> /\ task[c] = NoTask

\* A connected console knows every node of its network as soon as the host's
\* frames have arrived, although it is told only when somebody joins.
ClientsKnowAllNodes ==
    \A h, c \in Consoles :
        /\ Running(h) /\ IsHost(h) /\ Running(c) /\ {h, c} \cap (dropped \cup mixed) = {}
        /\ c \in DOMAIN uds[h].map /\ uds[h].map[c].connected
        /\ uds[c].status \in ConnTypes /\ uds[c].host = h
        /\ Settled(h, c)
        => /\ uds[h].bits \subseteq uds[c].bits
           /\ \A i \in uds[h].bits : uds[c].info[i] = uds[h].info[i]

\* "Any connection attempts to an already full network should have been
\* refused": no host fails the assertion in HandleEAPoLPacket or runs out of
\* numbers in GetNextAvailableNodeId.
FullNetworkRefuses == crashed = {}

===============================================================================
