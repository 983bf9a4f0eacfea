------------------------------ MODULE NwmUdsProof ------------------------------
(***************************************************************************)
(* The connection protocol for every set of consoles, every set of hosts,  *)
(* every size of a network and any number of calls: a host's books agree,  *)
(* no place is kept for a console that has said goodbye, and clients know  *)
(* all nodes.  Frames stay symbolic: what counts is which frame is the     *)
(* last of its kind on its way between two consoles.                       *)
(***************************************************************************)
EXTENDS NwmUds, FiniteSetTheorems, SequenceTheorems, WellFoundedInduction, TLAPS

-------------------------------------------------------------------------------
(* The invariant.                                                           *)

\* Every object has the fields of NWM_UDS, in their ranges.
Objects ==
    [init : BOOLEAN, status : Statuses, id : {0} \cup Ids, max : {0, MaxNodes},
     total : Nat, bits : SUBSET Ids, host : Consoles \cup {NoConsole},
     conn : ConnTypes, self : {0, 1}, map : Partial(Consoles, Nodes),
     info : Partial(Ids, Consoles), beacons : Nat, waiting : BOOLEAN]

TypeInv ==
    /\ uds \in [Consoles -> Objects]
    /\ task \in [Consoles -> Tasks]
    /\ link \in [Consoles \X Consoles -> Seq(Frames)]
    /\ joined \subseteq Consoles /\ advertised \subseteq Hosts
    /\ crashed \subseteq Consoles /\ dropped \subseteq Consoles
    /\ mixed \subseteq Consoles

\* A console counts the numbers it holds; one in no network holds none, and a
\* host that has called DisconnectNetwork keeps an empty network.
Counts(c) ==
    LET u == uds[c]
    IN /\ u.status \in {"NotConnected", "Connecting"} =>
            u.max = 0 /\ u.total = 0 /\ u.bits = {}
       /\ u.status \in ConnTypes => u.max = MaxNodes /\ u.total \in 0 .. MaxNodes
       /\ u.status = "Host" =>
            IF u.max = 0 THEN u.total = 0 /\ u.bits = {} /\ DOMAIN u.map = {}
            ELSE u.bits = DOMAIN u.info /\ u.total = Cardinality(u.bits)
       /\ \A m \in Members(u.map) : u.map[m].id \in Ids
       /\ task[c].do = "handle" => task[c].from # c

\* The books of a host of one network.  ShutdownHLE empties node_map alone, so
\* that every number has its member only while the service is initialised.
Books(h) ==
    LET u == uds[h]
    IN /\ 1 \in u.bits /\ u.info[1] = h /\ h \notin DOMAIN u.map
       /\ \A m \in Members(u.map) :
            u.map[m].id # 1 /\ u.map[m].id \in u.bits /\ u.info[u.map[m].id] = m
       /\ u.init => \A i \in u.bits \ {1} : \E m \in Members(u.map) : u.map[m].id = i

HostOK(c) ==
    /\ IsHost(c) /\ uds[c].max > 0 /\ c \notin mixed => Books(c)
    /\ IsHost(c) => c \in Hosts
    /\ ~uds[c].init /\ c \notin dropped => uds[c].status = "NotConnected"

ConsoleInv == \A c \in Consoles : Counts(c) /\ HostOK(c)

\* Who is gone without a farewell; when a host is, all farewells to it may be lost.
RoomInv ==
    /\ Consoles \ joined \subseteq dropped
    /\ dropped \cap Hosts # {} => dropped = Consoles

Belongs(c, h) == uds[c].status \in InNetwork /\ uds[c].host = h

Handled(c, from, type) == Handling(c, type) /\ task[c].from = from

\* A deauthentication after the i-th frame of s.
Leaves(s, i) == \E j \in DOMAIN s : j > i /\ s[j] = [type |-> "deauth"]

\* Every request to be let in is followed by one.
Answered(s) == \A i \in DOMAIN s : s[i].type = "auth" => Leaves(s, i)

\* A console that does not belong to a host any more has sent its
\* deauthentication after every request.
FarewellOf(h, c) ==
    {h, c} \cap (dropped \cup crashed \cup mixed) = {} /\ ~Belongs(c, h) =>
        /\ Answered(link[<<c, h>>])
        /\ Handled(h, c, "auth") => Leaves(link[<<c, h>>], 0)
        /\ IsHost(h) /\ c \in DOMAIN uds[h].map =>
                Leaves(link[<<c, h>>], 0) \/ Handled(h, c, "deauth")

\* A logoff frame of a host of one network names the host itself, and so
\* does what a client has learnt from it.
Names(nodes, h) == 1 \in DOMAIN nodes /\ nodes[1] = h

NamedOf(h, c) ==
    {h, c} \cap (dropped \cup mixed) = {} =>
        /\ \A i \in DOMAIN link[<<h, c>>] :
                link[<<h, c>>][i].type = "logoff" => Names(link[<<h, c>>][i].nodes, h)
        /\ Handled(c, h, "logoff") => Names(task[c].frame.nodes, h)
        /\ uds[c].status \in ConnTypes /\ uds[c].host = h =>
                1 \in uds[c].bits /\ Names(uds[c].info, h)

\* A list of nodes has every node of the host's.
Covers(nodes, h) ==
    \A i \in uds[h].bits : i \in DOMAIN nodes /\ nodes[i] = uds[h].info[i]

\* No logoff frame of s after the i-th.
LastLogoff(s, i) == \A j \in DOMAIN s : j > i => s[j].type # "logoff"

\* The last logoff frame on its way from a host, or else what the client has
\* taken from those before it, has all nodes.
KnownOf(h, c) ==
    IsHost(h) /\ {h, c} \cap (dropped \cup crashed \cup mixed) = {} =>
        /\ \A i \in DOMAIN link[<<h, c>>] :
                link[<<h, c>>][i].type = "logoff" /\ LastLogoff(link[<<h, c>>], i) =>
                    Covers(link[<<h, c>>][i].nodes, h)
        /\ LastLogoff(link[<<h, c>>], 0) =>
             /\ Handled(c, h, "logoff") => Covers(task[c].frame.nodes, h)
             /\ ~Handled(c, h, "logoff")
                   /\ uds[c].status \in ConnTypes /\ uds[c].host = h =>
                uds[h].bits \subseteq uds[c].bits /\ Covers(uds[c].info, h)

FarewellInv == \A h \in Hosts, c \in Consoles : c # h => FarewellOf(h, c)
NamedInv    == \A h, c \in Consoles : c # h => NamedOf(h, c)
KnownInv    == \A h, c \in Consoles : c # h => KnownOf(h, c)

NwmInv ==
    TypeInv /\ ConsoleInv /\ RoomInv /\ FarewellInv /\ NamedInv /\ KnownInv

-------------------------------------------------------------------------------
(* Functions, sequences and frames.                                         *)

LEMMA PartialIs ==
    ASSUME NEW S, NEW T, NEW f
    PROVE  f \in Partial(S, T) <=>
             DOMAIN f \subseteq S /\ f \in [DOMAIN f -> T]
BY DEF Partial

LEMMA EmptyIs ==
    ASSUME NEW S, NEW T
    PROVE  EmptyMap \in Partial(S, T) /\ DOMAIN EmptyMap = {}
<1>1. EmptyMap \in [{} -> T] /\ DOMAIN EmptyMap = {} BY DEF EmptyMap
<1> QED BY <1>1, PartialIs

LEMMA ConcatIs ==
    ASSUME NEW S, NEW s \in Seq(S), NEW t \in Seq(S)
    PROVE  /\ s \o t \in Seq(S)
           /\ DOMAIN (s \o t) = 1 .. Len(s) + Len(t)
           /\ \A i \in DOMAIN s : (s \o t)[i] = s[i]
           /\ \A i \in DOMAIN t : (s \o t)[Len(s) + i] = t[i]
           /\ \A i \in DOMAIN (s \o t) \ DOMAIN s :
                i - Len(s) \in DOMAIN t /\ (s \o t)[i] = t[i - Len(s)]
           /\ DOMAIN s = 1 .. Len(s) /\ DOMAIN t = 1 .. Len(t)
           /\ Len(s) \in Nat /\ Len(t) \in Nat
OBVIOUS

LEMMA TailIs ==
    ASSUME NEW S, NEW s \in Seq(S), s # << >>
    PROVE  /\ Tail(s) \in Seq(S) /\ Head(s) \in S /\ Head(s) = s[1]
           /\ Len(s) \in Nat \ {0} /\ DOMAIN s = 1 .. Len(s)
           /\ DOMAIN Tail(s) = 1 .. (Len(s) - 1)
           /\ \A i \in DOMAIN Tail(s) : Tail(s)[i] = s[i + 1]
OBVIOUS

FrameTypes == {"auth", "assoc", "deauth", "start", "logoff", "nodeMap"}

\* What a frame of each type carries.
LEMMA FrameIs ==
    ASSUME NEW f \in Frames
    PROVE  /\ f.type \in FrameTypes
           /\ f.type = "deauth" => f = [type |-> "deauth"]
           /\ f.type = "start" => f.conn \in ConnTypes /\ f.node \in {0, 1}
           /\ f.type = "logoff" =>
                /\ f.id \in {0} \cup Ids /\ f.max = MaxNodes
                /\ f.total \in 0 .. MaxNodes /\ f.nodes \in Partial(Ids, Consoles)
           /\ f.type = "nodeMap" => f.map \in Partial(Consoles, Ids)
BY DEF Frames, FrameTypes

LEMMA TaskIs ==
    ASSUME NEW t \in Tasks
    PROVE  /\ t.do \in {"none", "handle", "assoc", "start"}
           /\ t.do = "none" => t = NoTask
           /\ t.do = "handle" => t.from \in Consoles /\ t.frame \in Frames
           /\ t.do \in {"assoc", "start"} => t.to \in Consoles
BY DEF Tasks, NoTask

\* What leaves a console is appended for whoever is in the room.
LEMMA SentIs ==
    ASSUME NEW from, NEW to, NEW frames \in Seq(Frames),
           link \in [Consoles \X Consoles -> Seq(Frames)],
           SendPacket(from, to, frames)
    PROVE  /\ link' \in [Consoles \X Consoles -> Seq(Frames)]
           /\ \A a, b \in Consoles :
                link'[<<a, b>>] = IF a = from /\ b \in to \ {from} /\ {a, b} \subseteq joined
                                  THEN link[<<a, b>>] \o frames ELSE link[<<a, b>>]
<1> USE DEF SendPacket, Sent
<1>0. DOMAIN link = Consoles \X Consoles OBVIOUS
<1>1. \A a, b \in Consoles :
        link'[<<a, b>>] = IF a = from /\ b \in to \ {from} /\ {a, b} \subseteq joined
                      THEN link[<<a, b>>] \o frames ELSE link[<<a, b>>]
  <2> SUFFICES ASSUME NEW a \in Consoles, NEW b \in Consoles
               PROVE  link'[<<a, b>>] = IF a = from /\ b \in to \ {from} /\ {a, b} \subseteq joined
                                    THEN link[<<a, b>>] \o frames ELSE link[<<a, b>>]
    OBVIOUS
  <2>1. <<a, b>> \in DOMAIN link BY <1>0
  <2>2. link'[<<a, b>>] = IF a = from /\ b \in to \ {from} /\ {from, b} \subseteq joined
                      THEN link[<<a, b>>] \o frames ELSE link[<<a, b>>]
    BY <2>1
  <2> QED BY <2>2
<1>2. \A p \in Consoles \X Consoles : link[p] \o frames \in Seq(Frames)
  BY ConcatIs
<1>3. link' \in [Consoles \X Consoles -> Seq(Frames)] BY <1>2
<1> QED BY <1>1, <1>3

-------------------------------------------------------------------------------
(* Each console by itself.                                                  *)

\* A step of console c changes its own object and task, frames from or to it, and
\* adds to the histories.
Local(c) ==
    /\ \A d \in Consoles \ {c} : uds'[d] = uds[d] /\ task'[d] = task[d]
    /\ \A a, b \in Consoles \ {c} : link'[<<a, b>>] = link[<<a, b>>]
    /\ dropped \subseteq dropped' /\ crashed \subseteq crashed' /\ mixed \subseteq mixed'

\* What is shown of each action.
Step(c) == TypeInv' /\ Local(c) /\ Counts(c)' /\ HostOK(c)'

LEMMA UpdateIs ==
    ASSUME TypeInv, NEW c \in Consoles, NEW u \in Objects, Update(c, u)
    PROVE  /\ uds' \in [Consoles -> Objects]
           /\ uds'[c] = u /\ \A d \in Consoles \ {c} : uds'[d] = uds[d]
BY DEF TypeInv, Update

LEMMA TaskChanges ==
    ASSUME TypeInv, NEW c \in Consoles, NEW t \in Tasks, task' = [task EXCEPT ![c] = t]
    PROVE  /\ task' \in [Consoles -> Tasks]
           /\ task'[c] = t /\ \A d \in Consoles \ {c} : task'[d] = task[d]
BY DEF TypeInv

\* The ranges of an object's fields.
LEMMA ObjectIs ==
    ASSUME TypeInv, NEW c \in Consoles
    PROVE  /\ uds[c] \in Objects /\ task[c] \in Tasks
           /\ uds[c].init \in BOOLEAN /\ uds[c].status \in Statuses
           /\ uds[c].id \in {0} \cup Ids /\ uds[c].max \in {0, MaxNodes}
           /\ uds[c].total \in Nat /\ uds[c].bits \subseteq Ids
           /\ uds[c].host \in Consoles \cup {NoConsole} /\ uds[c].conn \in ConnTypes
           /\ uds[c].self \in {0, 1} /\ uds[c].beacons \in Nat
           /\ uds[c].map \in Partial(Consoles, Nodes)
           /\ uds[c].info \in Partial(Ids, Consoles) /\ uds[c].waiting \in BOOLEAN
BY DEF TypeInv, Objects

\* The part of a step that does not concern the object.
LEMMA Elsewhere ==
    ASSUME TypeInv, NEW c \in Consoles,
           UNCHANGED <<task, link, joined, advertised, crashed, dropped>>,
           uds' \in [Consoles -> Objects],
           \A d \in Consoles \ {c} : uds'[d] = uds[d],
           mixed \subseteq mixed', mixed' \subseteq Consoles
    PROVE  TypeInv' /\ Local(c)
BY DEF TypeInv, Local

LEMMA ClearedIs ==
    ASSUME TypeInv, NEW c \in Consoles, NEW s \in Statuses
    PROVE  ClearedStatus(uds[c], s) \in Objects
<1>1. uds[c] \in Objects BY ObjectIs
<1>2. 0 \in {0, MaxNodes} /\ 0 \in Nat /\ {} \in SUBSET Ids OBVIOUS
<1> QED BY <1>1, <1>2 DEF Objects, ClearedStatus

LEMMA InitializeStep ==
    ASSUME TypeInv, NEW c \in Consoles, Counts(c), Initialize(c)
    PROVE  Step(c)
<1> USE DEF Initialize, ClearedStatus
<1> DEFINE u == [ClearedStatus(uds[c], "NotConnected")
                    EXCEPT !.init = TRUE, !.id = 0, !.self = 0, !.info = EmptyMap]
<1>0. ClearedStatus(uds[c], "NotConnected") \in Objects BY ClearedIs DEF Statuses
<1>1. u \in Objects
  <2>1. EmptyMap \in Partial(Ids, Consoles) /\ 0 \in {0} \cup Ids /\ 0 \in {0, 1}
    BY EmptyIs
  <2> HIDE DEF ClearedStatus
  <2> QED BY <1>0, <2>1 DEF Objects
<1>2. uds' \in [Consoles -> Objects] /\ uds'[c] = u
        /\ \A d \in Consoles \ {c} : uds'[d] = uds[d]
  BY <1>1, UpdateIs
<1>3. TypeInv' /\ Local(c) BY <1>2, Elsewhere DEF TypeInv
<1>4. u.status = "NotConnected" /\ u.max = 0 /\ u.total = 0 /\ u.bits = {} /\ u.init
        /\ u.map = uds[c].map
  BY ObjectIs DEF Objects
<1>5. Counts(c)' BY <1>2, <1>4 DEF Counts, ConnTypes, Members
<1>6. HostOK(c)' BY <1>2, <1>4 DEF HostOK, IsHost
<1> QED BY <1>3, <1>5, <1>6 DEF Step

LEMMA ShutdownStep ==
    ASSUME TypeInv, NEW c \in Consoles, Counts(c), HostOK(c), ShutdownHLE(c)
    PROVE  Step(c)
<1> USE DEF ShutdownHLE, Vanish
<1> DEFINE u == [uds[c] EXCEPT !.init = FALSE, !.map = EmptyMap]
<1>1. u \in Objects BY ObjectIs, EmptyIs DEF Objects
<1>2. uds' \in [Consoles -> Objects] /\ uds'[c] = u
        /\ \A d \in Consoles \ {c} : uds'[d] = uds[d]
  BY <1>1, UpdateIs
<1>3. TypeInv' /\ Local(c) BY <1>2 DEF TypeInv, Local
<1>4. u.status = uds[c].status /\ u.max = uds[c].max /\ u.total = uds[c].total
        /\ u.bits = uds[c].bits /\ u.info = uds[c].info /\ u.init = FALSE
        /\ u.map = EmptyMap /\ DOMAIN u.map = {}
  BY ObjectIs, EmptyIs DEF Objects
<1>5. Counts(c)' BY <1>2, <1>4 DEF Counts, Members
<1>6. HostOK(c)' BY <1>2, <1>3, <1>4 DEF HostOK, IsHost, Books, Members
<1> QED BY <1>3, <1>5, <1>6 DEF Step

LEMMA BeginHostingStep ==
    ASSUME TypeInv, NEW c \in Consoles, Counts(c), HostOK(c), BeginHostingNetwork(c)
    PROVE  Step(c)
<1> USE DEF BeginHostingNetwork, Mix, Calling
<1> DEFINE u == [uds[c] EXCEPT !.status = "Host", !.max = MaxNodes, !.total = 1,
                               !.id = 1, !.self = 1, !.host = c,
                               !.bits = @ \cup {1}, !.info = [i \in {1} |-> c],
                               !.beacons = @ + 1]
<1>0. [i \in {1} |-> c] \in Partial(Ids, Consoles) /\ 1 \in Ids /\ MaxNodes \in Nat \ {0}
  <2>1. MaxNodes \in Nat \ {0} /\ 1 \in Ids BY MaxNodesAssumption DEF Ids
  <2>2. [i \in {1} |-> c] \in [{1} -> Consoles] OBVIOUS
  <2>3. [i \in {1} |-> c] \in Partial(Ids, Consoles) BY <2>1, <2>2, PartialIs
  <2> QED BY <2>1, <2>3
<1>1. u \in Objects
  <2>1. uds[c] \in Objects BY ObjectIs
  <2>2. /\ "Host" \in Statuses /\ MaxNodes \in {0, MaxNodes} /\ 1 \in Nat
        /\ 1 \in {0} \cup Ids /\ 1 \in {0, 1} /\ c \in Consoles \cup {NoConsole}
        /\ uds[c].bits \cup {1} \in SUBSET Ids /\ uds[c].beacons + 1 \in Nat
    BY <1>0, ObjectIs DEF Statuses
  <2> QED BY <1>0, <2>1, <2>2 DEF Objects
<1>2. uds' \in [Consoles -> Objects] /\ uds'[c] = u
        /\ \A d \in Consoles \ {c} : uds'[d] = uds[d]
  BY <1>1, UpdateIs
<1>3. TypeInv' /\ Local(c) BY <1>2, Elsewhere DEF TypeInv
<1>4. u.status = "Host" /\ u.max = MaxNodes /\ u.total = 1 /\ u.bits = {1}
        /\ u.info = [i \in {1} |-> c] /\ u.map = uds[c].map /\ u.init
  BY ObjectIs DEF Objects, Counts
<1>5. Counts(c)'
  <2>1. Cardinality({1}) = 1 BY FS_Singleton
  <2> QED BY <1>0, <1>2, <1>4, <2>1 DEF Counts, ConnTypes, Members
<1>6. c \notin mixed' => DOMAIN u.map = {} BY <1>4, EmptyIs
<1>7. HostOK(c)' BY <1>2, <1>4, <1>6 DEF HostOK, IsHost, Books, Members
<1> QED BY <1>3, <1>5, <1>7 DEF Step

\* Sending leaves the other consoles' frames alone.
LEMMA SendIs ==
    ASSUME TypeInv, NEW c \in Consoles, NEW to, NEW frames \in Seq(Frames),
           SendPacket(c, to, frames)
    PROVE  /\ link' \in [Consoles \X Consoles -> Seq(Frames)]
           /\ \A a, b \in Consoles \ {c} : link'[<<a, b>>] = link[<<a, b>>]
<1>1. link \in [Consoles \X Consoles -> Seq(Frames)] BY DEF TypeInv
<1>2. /\ link' \in [Consoles \X Consoles -> Seq(Frames)]
      /\ \A a, b \in Consoles :
           link'[<<a, b>>] = IF a = c /\ b \in to \ {c} /\ {a, b} \subseteq joined
                             THEN link[<<a, b>>] \o frames ELSE link[<<a, b>>]
  BY <1>1, SentIs
<1> QED BY <1>2

\* The object stays; what is sent is a frame.
LEMMA EjectStep ==
    ASSUME TypeInv, NEW c \in Consoles, Counts(c), HostOK(c), EjectClientHLE(c)
    PROVE  Step(c)
<1> DEFINE deauth == [type |-> "deauth"]
<1>1. deauth \in Frames BY DEF Frames
<1>2. <<deauth>> \in Seq(Frames) /\ <<deauth, deauth, deauth>> \in Seq(Frames)
  BY <1>1
<1>4. /\ link' \in [Consoles \X Consoles -> Seq(Frames)]
      /\ \A a, b \in Consoles \ {c} : link'[<<a, b>>] = link[<<a, b>>]
  <2>1. CASE \E m \in Members(uds[c].map) : SendPacket(c, {m}, <<deauth>>)
    BY <1>2, <2>1, SendIs
  <2>2. CASE SendPacket(c, Consoles, <<deauth, deauth, deauth>>)
    BY <1>2, <2>2, SendIs
  <2> QED BY <2>1, <2>2 DEF EjectClientHLE
<1>5. TypeInv' /\ Local(c) BY <1>4 DEF EjectClientHLE, TypeInv, Local
<1> QED BY <1>5 DEF EjectClientHLE, Step, Counts, HostOK, Books, IsHost

LEMMA DestroyStep ==
    ASSUME TypeInv, NEW c \in Consoles, Counts(c), HostOK(c), DestroyNetworkHLE(c)
    PROVE  Step(c)
<1> USE DEF DestroyNetworkHLE
<1> DEFINE u == IF IsHost(c)
                THEN [ClearedStatus(uds[c], "NotConnected")
                        EXCEPT !.map = EmptyMap, !.beacons = 0]
                ELSE [uds[c] EXCEPT !.beacons = 0]
<1>0. uds[c] \in Objects /\ ClearedStatus(uds[c], "NotConnected") \in Objects
        /\ EmptyMap \in Partial(Consoles, Nodes) /\ 0 \in Nat
  BY ClearedIs, ObjectIs, EmptyIs DEF Statuses
<1>1. u \in Objects
  <2>1. CASE IsHost(c) BY <1>0, <2>1 DEF Objects
  <2>2. CASE ~IsHost(c) BY <1>0, <2>2 DEF Objects
  <2> QED BY <2>1, <2>2
<1>2. uds' \in [Consoles -> Objects] /\ uds'[c] = u
        /\ \A d \in Consoles \ {c} : uds'[d] = uds[d]
  BY <1>1, UpdateIs
<1>3. TypeInv' /\ Local(c) BY <1>2, Elsewhere DEF TypeInv
<1>4. CASE IsHost(c)
  <2>1. u.status = "NotConnected" /\ u.max = 0 /\ u.total = 0 /\ u.bits = {}
          /\ u.init = uds[c].init /\ u.map = EmptyMap /\ DOMAIN u.map = {}
    BY <1>4, ObjectIs, EmptyIs DEF Objects, ClearedStatus
  <2>2. Counts(c)' BY <1>2, <2>1 DEF Counts, ConnTypes, Members
  <2>3. HostOK(c)' BY <1>2, <2>1 DEF HostOK, IsHost
  <2> QED BY <1>3, <2>2, <2>3 DEF Step
<1>5. CASE ~IsHost(c)
  <2>1. u.status = uds[c].status /\ u.max = uds[c].max /\ u.total = uds[c].total
          /\ u.bits = uds[c].bits /\ u.init = uds[c].init /\ u.map = uds[c].map
    BY <1>5, ObjectIs DEF Objects
  <2>2. Counts(c)' BY <1>2, <1>5, <2>1 DEF Counts, IsHost, Members
  <2>3. HostOK(c)' BY <1>2, <1>5, <2>1 DEF HostOK, IsHost
  <2> QED BY <1>3, <2>2, <2>3 DEF Step
<1> QED BY <1>4, <1>5

LEMMA ConnectStep ==
    ASSUME TypeInv, NEW c \in Consoles, Counts(c), HostOK(c),
           NEW host \in Hosts, NEW conn \in ConnTypes, ConnectToNetworkHLE(c, host, conn)
    PROVE  Step(c)
<1> USE DEF ConnectToNetworkHLE, Calling
<1> DEFINE u == [uds[c] EXCEPT !.host = host, !.conn = conn, !.waiting = TRUE,
                               !.status = "Connecting"]
<1>1. u \in Objects
  <2>1. host \in Consoles \cup {NoConsole} /\ "Connecting" \in Statuses
    BY HostsAssumption DEF Statuses
  <2> QED BY <2>1, ObjectIs, ZenonT(60) DEF Objects
<1>2. uds' \in [Consoles -> Objects] /\ uds'[c] = u
        /\ \A d \in Consoles \ {c} : uds'[d] = uds[d]
  BY <1>1, UpdateIs
<1>3. <<[type |-> "auth"]>> \in Seq(Frames)
  <2>1. [type |-> "auth"] \in Frames BY DEF Frames
  <2> QED BY <2>1
<1>4. /\ link' \in [Consoles \X Consoles -> Seq(Frames)]
      /\ \A a, b \in Consoles \ {c} : link'[<<a, b>>] = link[<<a, b>>]
  BY <1>3, SendIs
<1>5. TypeInv' /\ Local(c) BY <1>2, <1>4 DEF TypeInv, Local, Mix
<1>6. u.status = "Connecting" /\ u.max = uds[c].max /\ u.total = uds[c].total
        /\ u.bits = uds[c].bits /\ u.init /\ u.map = uds[c].map
  BY ObjectIs DEF Objects
<1>7. Counts(c)' BY <1>2, <1>6 DEF Counts, ConnTypes, Members
<1>8. HostOK(c)' BY <1>2, <1>6 DEF HostOK, IsHost
<1> QED BY <1>5, <1>7, <1>8 DEF Step

LEMMA TimeoutStep ==
    ASSUME TypeInv, NEW c \in Consoles, Counts(c), HostOK(c), ConnectTimeout(c)
    PROVE  Step(c)
<1> USE DEF ConnectTimeout
<1> DEFINE u == [uds[c] EXCEPT !.waiting = FALSE]
<1>1. u \in Objects BY ObjectIs, ZenonT(60) DEF Objects
<1>2. uds' \in [Consoles -> Objects] /\ uds'[c] = u
        /\ \A d \in Consoles \ {c} : uds'[d] = uds[d]
  BY <1>1, UpdateIs
<1>3. TypeInv' /\ Local(c) BY <1>2, Elsewhere DEF TypeInv
<1>4. u.status = uds[c].status /\ u.max = uds[c].max /\ u.total = uds[c].total
        /\ u.bits = uds[c].bits /\ u.init = uds[c].init /\ u.map = uds[c].map
        /\ u.info = uds[c].info
  BY ObjectIs DEF Objects
<1>5. Counts(c)' BY <1>2, <1>4 DEF Counts, Members
<1>6. HostOK(c)' BY <1>2, <1>4 DEF HostOK, IsHost, Books, Members
<1> QED BY <1>3, <1>5, <1>6 DEF Step

LEMMA DisconnectStep ==
    ASSUME TypeInv, NEW c \in Consoles, Counts(c), HostOK(c), DisconnectNetworkHLE(c)
    PROVE  Step(c)
<1> USE DEF DisconnectNetworkHLE, Calling
<1> DEFINE s == IF IsHost(c) THEN "Host" ELSE "NotConnected"
           u == [ClearedStatus(uds[c], s) EXCEPT !.map = EmptyMap]
<1>0. ClearedStatus(uds[c], s) \in Objects /\ EmptyMap \in Partial(Consoles, Nodes)
  BY ClearedIs, EmptyIs DEF Statuses
<1>1. u \in Objects BY <1>0 DEF Objects
<1>2. uds' \in [Consoles -> Objects] /\ uds'[c] = u
        /\ \A d \in Consoles \ {c} : uds'[d] = uds[d]
  BY <1>1, UpdateIs
<1>3. <<[type |-> "deauth"]>> \in Seq(Frames)
  <2>1. [type |-> "deauth"] \in Frames BY DEF Frames
  <2> QED BY <2>1
<1>4. /\ link' \in [Consoles \X Consoles -> Seq(Frames)]
      /\ \A a, b \in Consoles \ {c} : link'[<<a, b>>] = link[<<a, b>>]
  BY <1>3, SendIs
<1>5. TypeInv' /\ Local(c) BY <1>2, <1>4 DEF TypeInv, Local
<1>6. u.status = s /\ u.max = 0 /\ u.total = 0 /\ u.bits = {} /\ u.init
        /\ u.map = EmptyMap /\ DOMAIN u.map = {}
  BY ObjectIs, EmptyIs DEF Objects, ClearedStatus
<1>7. Counts(c)' BY <1>2, <1>6 DEF Counts, ConnTypes, Members
<1>8. HostOK(c)' BY <1>2, <1>6 DEF HostOK, IsHost
<1> QED BY <1>5, <1>7, <1>8 DEF Step

LEMMA BeaconStep ==
    ASSUME TypeInv, NEW c \in Consoles, Counts(c), HostOK(c), BeaconBroadcastCallback(c)
    PROVE  Step(c)
<1> USE DEF BeaconBroadcastCallback
<1>1. CASE IsHost(c) /\ advertised' = advertised \cup {c} /\ UNCHANGED uds
  <2>1. TypeInv' /\ Local(c) BY <1>1 DEF TypeInv, Local, HostOK
  <2> QED BY <1>1, <2>1 DEF Step, Counts, HostOK, Books, IsHost
<1>2. CASE /\ ~IsHost(c) /\ UNCHANGED advertised
           /\ Update(c, [uds[c] EXCEPT !.beacons = @ - 1])
  <2> DEFINE u == [uds[c] EXCEPT !.beacons = @ - 1]
  <2>1. u \in Objects
    <3>1. uds[c].beacons - 1 \in Nat BY ObjectIs
    <3> QED BY <3>1, ObjectIs DEF Objects
  <2>2. uds' \in [Consoles -> Objects] /\ uds'[c] = u
          /\ \A d \in Consoles \ {c} : uds'[d] = uds[d]
    BY <1>2, <2>1, UpdateIs
  <2>3. TypeInv' /\ Local(c) BY <1>2, <2>2, Elsewhere DEF TypeInv
  <2>4. u.status = uds[c].status /\ u.max = uds[c].max /\ u.total = uds[c].total
          /\ u.bits = uds[c].bits /\ u.init = uds[c].init /\ u.map = uds[c].map
    BY ObjectIs DEF Objects
  <2>5. Counts(c)' BY <1>2, <2>2, <2>4 DEF Counts, IsHost, Members
  <2>6. HostOK(c)' BY <1>2, <2>2, <2>4 DEF HostOK, IsHost
  <2> QED BY <2>3, <2>5, <2>6 DEF Step
<1> QED BY <1>1, <1>2

\* The loop thread takes a frame from a link, or finds the service not initialised.
LEMMA ReceiveStep ==
    ASSUME TypeInv, NEW c \in Consoles, Counts(c), HostOK(c),
           NEW from \in Consoles \ {c}, OnWifiPacketReceived(c, from)
    PROVE  Step(c)
<1> USE DEF OnWifiPacketReceived
<1> DEFINE s == link[<<from, c>>]
           t == [do |-> "handle", from |-> from, frame |-> Head(s)]
<1>1. s \in Seq(Frames) /\ s # << >> BY DEF TypeInv
<1>2. Tail(s) \in Seq(Frames) /\ Head(s) \in Frames BY <1>1, TailIs
<1>3. t \in Tasks BY <1>2 DEF Tasks
<1>4. /\ link' \in [Consoles \X Consoles -> Seq(Frames)]
      /\ \A a, b \in Consoles \ {c} : link'[<<a, b>>] = link[<<a, b>>]
  BY <1>2 DEF TypeInv
<1>5. /\ task' \in [Consoles -> Tasks]
      /\ \A d \in Consoles \ {c} : task'[d] = task[d]
      /\ task'[c] \in {task[c], t}
  BY <1>3, TaskChanges DEF TypeInv
<1>6. TypeInv' /\ Local(c) BY <1>4, <1>5 DEF TypeInv, Local
<1>7. Counts(c)' BY <1>5 DEF Counts
<1> QED BY <1>6, <1>7 DEF Step, HostOK, Books, IsHost

\* The part of a handler's step that does not concern the object.
LEMMA HandledIs ==
    ASSUME TypeInv, NEW c \in Consoles, NEW t \in Tasks, t.do # "handle",
           task' = [task EXCEPT ![c] = t],
           UNCHANGED <<joined, advertised, dropped>>,
           uds' \in [Consoles -> Objects],
           \A d \in Consoles \ {c} : uds'[d] = uds[d],
           link' \in [Consoles \X Consoles -> Seq(Frames)],
           \A a, b \in Consoles \ {c} : link'[<<a, b>>] = link[<<a, b>>],
           crashed \subseteq crashed', crashed' \subseteq Consoles,
           mixed \subseteq mixed', mixed' \subseteq Consoles
    PROVE  TypeInv' /\ Local(c) /\ task'[c].do # "handle"
BY TaskChanges DEF TypeInv, Local

LEMMA Idle == NoTask \in Tasks /\ NoTask.do = "none"
BY DEF NoTask, Tasks

\* A handler that changes neither object nor frames.
LEMMA SilentStep ==
    ASSUME TypeInv, NEW c \in Consoles, Counts(c), HostOK(c),
           NEW t \in Tasks, t.do # "handle", task' = [task EXCEPT ![c] = t],
           UNCHANGED <<uds, joined, advertised, crashed, dropped, mixed>>,
           link' \in [Consoles \X Consoles -> Seq(Frames)],
           \A a, b \in Consoles \ {c} : link'[<<a, b>>] = link[<<a, b>>]
    PROVE  Step(c)
<1>1. TypeInv' /\ Local(c) /\ task'[c].do # "handle" BY HandledIs DEF TypeInv
<1>2. Counts(c)' BY <1>1 DEF Counts
<1> QED BY <1>1, <1>2 DEF Step, HostOK, Books, IsHost

LEMMA AuthenticationStep ==
    ASSUME TypeInv, NEW c \in Consoles, Counts(c), HostOK(c), HandleAuthenticationFrame(c)
    PROVE  Step(c)
<1> USE DEF HandleAuthenticationFrame, Handling
<1> DEFINE from == task[c].from
           u == [uds[c] EXCEPT !.map = With(@, from, Authenticated)]
           t == [do |-> "assoc", to |-> from]
<1>0. from \in Consoles /\ from # c BY ObjectIs, TaskIs DEF Counts
<1>1. CASE MayAuthenticate(c, from)
  <2>1. Authenticated \in Nodes BY DEF Authenticated, Nodes
  <2>2. /\ With(uds[c].map, from, Authenticated) \in Partial(Consoles, Nodes)
        /\ DOMAIN With(uds[c].map, from, Authenticated) = DOMAIN uds[c].map \cup {from}
        /\ With(uds[c].map, from, Authenticated)[from] = Authenticated
        /\ \A z \in DOMAIN uds[c].map : z # from =>
             With(uds[c].map, from, Authenticated)[z] = uds[c].map[z]
    <3>1. uds[c].map \in Partial(Consoles, Nodes) BY ObjectIs
    <3> QED BY <1>0, <2>1, <3>1, PartialIs DEF With
  <2>3. u \in Objects BY <2>2, ObjectIs DEF Objects
  <2>4. uds' \in [Consoles -> Objects] /\ uds'[c] = u
          /\ \A d \in Consoles \ {c} : uds'[d] = uds[d]
    BY <1>1, <2>3, UpdateIs
  <2>5. t \in Tasks /\ t.do # "handle" BY <1>0 DEF Tasks
  <2>6. TypeInv' /\ Local(c) /\ task'[c].do # "handle"
    <3>1. task' = [task EXCEPT ![c] = t] BY <1>1
    <3> QED BY <2>4, <2>5, <3>1, HandledIs DEF TypeInv
  <2>7. u.status = uds[c].status /\ u.max = uds[c].max /\ u.total = uds[c].total
          /\ u.bits = uds[c].bits /\ u.info = uds[c].info /\ u.init = uds[c].init
          /\ u.map = With(uds[c].map, from, Authenticated)
    BY ObjectIs DEF Objects
  <2>8. /\ Members(u.map) = Members(uds[c].map)
        /\ \A m \in Members(u.map) : u.map[m] = uds[c].map[m]
        /\ DOMAIN u.map = DOMAIN uds[c].map \cup {from}
    BY <1>1, <2>2, <2>7 DEF Members, Authenticated, MayAuthenticate
  <2>9. Counts(c)' BY <1>1, <2>4, <2>6, <2>7, <2>8 DEF Counts, MayAuthenticate, IsHost
  <2>10. HostOK(c)'
    <3>1. ASSUME Books(c) PROVE Books(c)'
      <4> HIDE DEF u
      <4>1. 1 \in u.bits /\ u.info[1] = c /\ c \notin DOMAIN u.map
        BY <1>0, <2>7, <2>8, <3>1 DEF Books
      <4>2. \A m \in Members(u.map) :
              u.map[m].id # 1 /\ u.map[m].id \in u.bits /\ u.info[u.map[m].id] = m
        BY <2>7, <2>8, <3>1 DEF Books
      <4>3. u.init => \A i \in u.bits \ {1} : \E m \in Members(u.map) : u.map[m].id = i
        BY <2>7, <2>8, <3>1 DEF Books
      <4> QED BY <2>4, <4>1, <4>2, <4>3 DEF Books
    <3>2. uds'[c].status = uds[c].status /\ uds'[c].max = uds[c].max
            /\ uds'[c].init = uds[c].init
      BY <2>4, <2>7
    <3> QED BY <3>1, <3>2 DEF HostOK, IsHost
  <2> QED BY <2>6, <2>9, <2>10 DEF Step
<1>2. CASE ~MayAuthenticate(c, from)
  BY <1>2, Idle, SilentStep DEF Done, TypeInv
<1> QED BY <1>1, <1>2

LEMMA AssociationStep ==
    ASSUME TypeInv, NEW c \in Consoles, Counts(c), HostOK(c),
           SendAssociationResponseFrame(c)
    PROVE  Step(c)
<1> USE DEF SendAssociationResponseFrame
<1>1. <<[type |-> "assoc"]>> \in Seq(Frames)
  <2>1. [type |-> "assoc"] \in Frames BY DEF Frames
  <2> QED BY <2>1
<1>2. /\ link' \in [Consoles \X Consoles -> Seq(Frames)]
      /\ \A a, b \in Consoles \ {c} : link'[<<a, b>>] = link[<<a, b>>]
  <2>1. CASE IsHost(c) BY <1>1, <2>1, SendIs
  <2>2. CASE ~IsHost(c) BY <2>2 DEF TypeInv
  <2> QED BY <2>1, <2>2
<1> QED BY <1>2, Idle, SilentStep DEF Done

LEMMA ResponseStep ==
    ASSUME TypeInv, NEW c \in Consoles, Counts(c), HostOK(c),
           HandleAssociationResponseFrame(c)
    PROVE  Step(c)
<1> USE DEF HandleAssociationResponseFrame, Handling
<1> DEFINE t == [do |-> "start", to |-> task[c].from]
<1>1. t \in Tasks /\ t.do # "handle"
  <2>1. task[c].from \in Consoles BY ObjectIs, TaskIs
  <2> QED BY <2>1 DEF Tasks
<1>2. PICK s \in {t, NoTask} : task' = [task EXCEPT ![c] = s]
  BY DEF Done
<1>3. s \in Tasks /\ s.do # "handle" BY <1>1, <1>2, Idle
<1> QED BY <1>2, <1>3, SilentStep DEF TypeInv

LEMMA StartStep ==
    ASSUME TypeInv, NEW c \in Consoles, Counts(c), HostOK(c), SendEAPoLStart(c)
    PROVE  Step(c)
<1> USE DEF SendEAPoLStart
<1> DEFINE f == [type |-> "start", conn |-> uds[c].conn, node |-> uds[c].self]
<1>1. <<f>> \in Seq(Frames)
  <2>1. f \in Frames BY ObjectIs DEF Frames
  <2> QED BY <2>1
<1>2. SendPacket(c, {task[c].to}, <<f>>) OBVIOUS
<1>3. /\ link' \in [Consoles \X Consoles -> Seq(Frames)]
      /\ \A a, b \in Consoles \ {c} : link'[<<a, b>>] = link[<<a, b>>]
  BY <1>1, <1>2, SendIs
<1> QED BY <1>3, Idle, SilentStep DEF Done

\* GetNextAvailableNodeId answers with a number of its network that is free.
LEMMA NextIsFree ==
    ASSUME TypeInv, NEW c \in Consoles, FreeIds(uds[c]) # {}
    PROVE  /\ GetNextAvailableNodeId(uds[c]) \in Ids
           /\ GetNextAvailableNodeId(uds[c]) \notin uds[c].bits
<1> DEFINE F == FreeIds(uds[c])
<1>1. F \subseteq Ids /\ F \in SUBSET Nat /\ F \cap uds[c].bits = {}
  BY ObjectIs, MaxNodesAssumption DEF FreeIds, Ids
<1>2. \E i \in F : \A j \in F : <<j, i>> \notin OpToRel(<, Nat)
  BY <1>1, WFMin, NatLessThanWellFounded, Zenon
<1>3. \A i, j \in F : <<j, i>> \notin OpToRel(<, Nat) => i <= j
  BY <1>1 DEF OpToRel
<1>4. \E i \in F : \A j \in F : i <= j BY <1>2, <1>3
<1>5. GetNextAvailableNodeId(uds[c]) \in F
  <2> HIDE DEF F
  <2>1. (CHOOSE i \in F : \A j \in F : i <= j) \in F BY <1>4
  <2> QED BY <2>1 DEF GetNextAvailableNodeId, F
<1> QED BY <1>1, <1>5

\* A host's numbers are finitely many, no more than the network has.
LEMMA FewNumbers ==
    ASSUME NEW S \in SUBSET Ids
    PROVE  /\ IsFiniteSet(S) /\ Cardinality(S) \in 0 .. MaxNodes
<1>1. MaxNodes \in Int /\ 1 \in Int /\ MaxNodes >= 1 BY MaxNodesAssumption
<1>2. IsFiniteSet(Ids) /\ Cardinality(Ids) = MaxNodes
  BY <1>1, FS_Interval DEF Ids
<1>3. IsFiniteSet(S) /\ Cardinality(S) <= Cardinality(Ids) BY <1>2, FS_Subset
<1>4. Cardinality(S) \in Nat BY <1>3, FS_CardinalityType
<1> QED BY <1>1, <1>2, <1>3, <1>4

\* The host's object once it has let the sender of the frame at hand in.
Admitted(c) ==
    IF task[c].frame.conn = "Client" THEN AdmitClient(uds[c], task[c].from)
                                     ELSE AdmitSpectator(uds[c], task[c].from)

LEMMA AdmittedIs ==
    ASSUME TypeInv, NEW c \in Consoles, Counts(c),
           Handling(c, "start"), Awaits(c, task[c].from), uds[c].max # uds[c].total,
           task[c].frame.conn = "Client" => FreeIds(uds[c]) # {},
           NEW u, u = Admitted(c)
    PROVE  /\ u \in Objects /\ u.status = "Host" /\ u.max = MaxNodes
           /\ u.init = uds[c].init /\ u.bits = DOMAIN u.info
           /\ u.total = Cardinality(u.bits) /\ u.total \in 0 .. MaxNodes
           /\ DOMAIN u.map = DOMAIN uds[c].map /\ uds[c].bits \subseteq u.bits
           /\ \A i \in uds[c].bits : u.info[i] = uds[c].info[i]
           /\ \A x \in DOMAIN u.map : x # task[c].from => u.map[x] = uds[c].map[x]
           /\ task[c].frame.conn = "Client" =>
                /\ task[c].from \in Members(u.map)
                /\ u.map[task[c].from].id \in Ids \ uds[c].bits
                /\ u.bits = uds[c].bits \cup {u.map[task[c].from].id}
                /\ u.info[u.map[task[c].from].id] = task[c].from
           /\ task[c].frame.conn # "Client" =>
                task[c].from \notin Members(u.map) /\ u.bits = uds[c].bits
<1> DEFINE v == uds[c]
           m == task[c].from
           conn == task[c].frame.conn
<1>0. m \in Consoles /\ conn \in ConnTypes BY ObjectIs, TaskIs, FrameIs DEF Handling
<1>1. /\ v \in Objects /\ v.map \in Partial(Consoles, Nodes)
      /\ v.info \in Partial(Ids, Consoles) /\ v.max \in {0, MaxNodes}
      /\ v.status = "Host" /\ v.bits \subseteq Ids /\ m \in DOMAIN v.map
  BY ObjectIs DEF Awaits, IsHost
<1>2. v.max = MaxNodes /\ v.bits = DOMAIN v.info /\ v.total = Cardinality(v.bits)
  BY <1>1 DEF Counts, ConnTypes
<1>3. CASE conn = "Client"
  <2> DEFINE id == GetNextAvailableNodeId(v)
             e == [id |-> id, connected |-> TRUE, spec |-> FALSE]
  <2>1. id \in Ids /\ id \notin v.bits BY <1>3, NextIsFree
  <2>2. e \in Nodes /\ e.id = id /\ e.connected /\ ~e.spec BY <2>1 DEF Nodes
  <2>3. /\ With(v.info, id, m) \in Partial(Ids, Consoles)
        /\ DOMAIN With(v.info, id, m) = DOMAIN v.info \cup {id}
        /\ With(v.info, id, m)[id] = m
        /\ \A z \in DOMAIN v.info : z # id => With(v.info, id, m)[z] = v.info[z]
    BY <1>0, <1>1, <2>1, PartialIs DEF With
  <2>4. /\ With(v.map, m, e) \in Partial(Consoles, Nodes)
        /\ DOMAIN With(v.map, m, e) = DOMAIN v.map \cup {m}
        /\ With(v.map, m, e)[m] = e
        /\ \A z \in DOMAIN v.map : z # m => With(v.map, m, e)[z] = v.map[z]
    <3>1. DOMAIN v.map \subseteq Consoles /\ v.map \in [DOMAIN v.map -> Nodes]
      BY <1>1, PartialIs
    <3>2. With(v.map, m, e) \in [DOMAIN v.map \cup {m} -> Nodes]
      BY <1>0, <2>2, <3>1 DEF With
    <3>3. With(v.map, m, e) \in Partial(Consoles, Nodes)
      <4>1. DOMAIN v.map \cup {m} \subseteq Consoles BY <1>0, <3>1
      <4>2. DOMAIN With(v.map, m, e) = DOMAIN v.map \cup {m} BY DEF With
      <4> QED BY <3>2, <4>1, <4>2, PartialIs
    <3>4. /\ DOMAIN With(v.map, m, e) = DOMAIN v.map \cup {m}
          /\ With(v.map, m, e)[m] = e
          /\ \A z \in DOMAIN v.map : z # m => With(v.map, m, e)[z] = v.map[z]
      BY DEF With
    <3> QED BY <3>3, <3>4
  <2>5. v.bits \cup {id} \in SUBSET Ids /\ v.total + 1 \in Nat
    BY <1>1, <2>1, ObjectIs
  <2>6. u = [v EXCEPT !.bits = v.bits \cup {id}, !.total = v.total + 1,
                      !.info = With(v.info, id, m), !.map = With(v.map, m, e)]
    BY <1>3 DEF Admitted, AdmitClient
  <2> HIDE DEF id, e
  <2>7. u \in Objects BY <1>1, <2>3, <2>4, <2>5, <2>6, ZenonT(60) DEF Objects
  <2>8. /\ u.status = v.status /\ u.max = v.max /\ u.init = v.init
        /\ u.bits = v.bits \cup {id} /\ u.total = v.total + 1
        /\ u.info = With(v.info, id, m) /\ u.map = With(v.map, m, e)
    BY <1>1, <2>6 DEF Objects
  <2>9. Cardinality(v.bits \cup {id}) = Cardinality(v.bits) + 1
    BY <1>1, <2>1, FewNumbers, FS_AddElement
  <2>10. u.total = Cardinality(u.bits) /\ u.total \in 0 .. MaxNodes
    <3>1. u.total = Cardinality(u.bits) BY <1>2, <2>8, <2>9
    <3>2. u.bits \in SUBSET Ids BY <2>5, <2>8
    <3> QED BY <3>1, <3>2, FewNumbers
  <2>11. m \in Members(u.map) /\ u.map[m].id = id BY <2>2, <2>4, <2>8 DEF Members
  <2>12. /\ u.bits = DOMAIN u.info /\ v.bits \subseteq u.bits
         /\ \A i \in v.bits : u.info[i] = v.info[i]
         /\ u.info[id] = m
    BY <1>2, <2>1, <2>3, <2>8
  <2>13. /\ DOMAIN u.map = DOMAIN v.map
         /\ \A x \in DOMAIN u.map : x # m => u.map[x] = v.map[x]
    BY <1>1, <2>4, <2>8
  <2> HIDE DEF v
  <2> QED BY <1>1, <1>2, <1>3, <2>1, <2>7, <2>8, <2>10, <2>11, <2>12, <2>13 DEF v
<1>4. CASE conn # "Client"
  <2> DEFINE e == [id |-> 0, connected |-> TRUE, spec |-> TRUE]
  <2>1. e \in Nodes /\ e.spec BY DEF Nodes
  <2>2. /\ With(v.map, m, e) \in Partial(Consoles, Nodes)
        /\ DOMAIN With(v.map, m, e) = DOMAIN v.map \cup {m}
        /\ With(v.map, m, e)[m] = e
        /\ \A z \in DOMAIN v.map : z # m => With(v.map, m, e)[z] = v.map[z]
    <3>1. DOMAIN v.map \subseteq Consoles /\ v.map \in [DOMAIN v.map -> Nodes]
      BY <1>1, PartialIs
    <3>2. With(v.map, m, e) \in [DOMAIN v.map \cup {m} -> Nodes]
      BY <2>1, <3>1 DEF With
    <3>3. With(v.map, m, e) \in Partial(Consoles, Nodes)
      BY <1>0, <3>1, <3>2, PartialIs
    <3>4. /\ DOMAIN With(v.map, m, e) = DOMAIN v.map \cup {m}
          /\ With(v.map, m, e)[m] = e
          /\ \A z \in DOMAIN v.map : z # m => With(v.map, m, e)[z] = v.map[z]
      BY DEF With
    <3> QED BY <3>3, <3>4
  <2>3. u = [v EXCEPT !.map = With(v.map, m, e)]
    BY <1>4 DEF Admitted, AdmitSpectator
  <2> HIDE DEF e
  <2>4. u \in Objects BY <1>1, <2>2, <2>3 DEF Objects
  <2>5. /\ u.status = v.status /\ u.max = v.max /\ u.init = v.init /\ u.bits = v.bits
        /\ u.total = v.total /\ u.info = v.info /\ u.map = With(v.map, m, e)
    BY <1>1, <2>3 DEF Objects
  <2>6. u.total \in 0 .. MaxNodes BY <1>1, <1>2, <2>5, FewNumbers
  <2>7. m \notin Members(u.map) BY <2>1, <2>2, <2>5 DEF Members
  <2> QED BY <1>1, <1>2, <1>4, <2>2, <2>4, <2>5, <2>6, <2>7
<1> QED BY <1>3, <1>4


\* The frames a host announces a new member with.
LEMMA AnnouncedIs ==
    ASSUME TypeInv, NEW c \in Consoles, Counts(c),
           Handling(c, "start"), Awaits(c, task[c].from), uds[c].max # uds[c].total,
           task[c].frame.conn = "Client" => FreeIds(uds[c]) # {}
    PROVE  \E L \in Frames, N \in Frames :
             /\ L.type = "logoff" /\ L.nodes = Admitted(c).info /\ N.type = "nodeMap"
             /\ Announcement(Admitted(c), task[c].frame.conn, task[c].from,
                             task[c].frame.node)
                  = IF task[c].frame.conn = "Client" THEN <<N, L>> ELSE <<L>>
<1> DEFINE f == task[c].frame
           m == task[c].from
           u == Admitted(c)
<1>0. f.node \in {0, 1} /\ f.conn \in ConnTypes BY ObjectIs, TaskIs, FrameIs DEF Handling
<1>1. /\ u \in Objects /\ u.max = MaxNodes /\ u.total \in 0 .. MaxNodes
      /\ DOMAIN u.map = DOMAIN uds[c].map
      /\ \A x \in DOMAIN u.map : x # m => u.map[x] = uds[c].map[x]
      /\ f.conn = "Client" => u.map[m].id \in Ids
      /\ f.conn # "Client" => m \notin Members(u.map)
  BY AdmittedIs
<1>2. u.info \in Partial(Ids, Consoles) /\ u.map \in Partial(Consoles, Nodes)
  BY <1>1 DEF Objects
<1>3. Members(u.map) \subseteq Consoles BY <1>2, PartialIs DEF Members
<1>4. \A x \in Members(u.map) : u.map[x].id \in Ids
  BY <1>1 DEF Members, Counts
<1>5. [x \in Members(u.map) |-> u.map[x].id] \in Partial(Consoles, Ids)
  <2>1. [x \in Members(u.map) |-> u.map[x].id] \in [Members(u.map) -> Ids] BY <1>4
  <2> QED BY <1>3, <2>1, PartialIs
<1>6. NodeMapFrame(u) \in Frames /\ NodeMapFrame(u).type = "nodeMap"
  BY <1>5 DEF NodeMapFrame, Frames
<1>7. \A i \in {0} \cup Ids : /\ LogoffFrame(u, i) \in Frames
                              /\ LogoffFrame(u, i).type = "logoff"
                              /\ LogoffFrame(u, i).nodes = u.info
  BY <1>1, <1>2 DEF LogoffFrame, Frames
<1>8. CASE f.conn = "Client"
  <2>1. LogoffFrame(u, u.map[m].id) \in Frames BY <1>1, <1>7, <1>8
  <2> QED BY <1>1, <1>6, <1>7, <1>8 DEF Announcement
<1>9. CASE f.conn # "Client"
  <2>1. f.node \in {0} \cup Ids BY <1>0, MaxNodesAssumption DEF Ids
  <2> QED BY <1>6, <1>7, <1>9, <2>1 DEF Announcement
<1> QED BY <1>8, <1>9

\* A host lets a console in, or fails the assertion, or ignores the frame.
LEMMA HandleStartStep ==
    ASSUME TypeInv, NEW c \in Consoles, Counts(c), HostOK(c), HandleEAPoLStart(c)
    PROVE  Step(c)
<1> DEFINE from == task[c].from
           f == task[c].frame
           full == uds[c].max = uds[c].total
                     \/ (f.conn = "Client" /\ FreeIds(uds[c]) = {})
<1>0. Handling(c, "start") /\ task' = [task EXCEPT ![c] = NoTask]
        /\ UNCHANGED <<joined, advertised, dropped, mixed>>
  BY DEF HandleEAPoLStart, Done
<1>1. CASE ~Awaits(c, from)
  <2>1. UNCHANGED <<uds, link, crashed>> BY <1>1 DEF HandleEAPoLStart
  <2> QED BY <1>0, <2>1, Idle, SilentStep DEF TypeInv
<1>2. CASE Awaits(c, from) /\ full
  <2>1. crashed' = crashed \cup {c} /\ UNCHANGED <<uds, link>>
    BY <1>2 DEF HandleEAPoLStart
  <2>2. TypeInv' /\ Local(c) /\ task'[c].do # "handle"
    BY <1>0, <2>1, Idle, HandledIs DEF TypeInv
  <2>3. Counts(c)' BY <2>1, <2>2 DEF Counts
  <2> QED BY <1>0, <2>1, <2>2, <2>3 DEF Step, HostOK, Books, IsHost
<1>3. CASE Awaits(c, from) /\ ~full
  <2> DEFINE u == Admitted(c)
             frames == Announcement(u, f.conn, from, f.node)
  <2>1. Update(c, u) /\ SendPacket(c, Consoles, frames) /\ UNCHANGED crashed
    BY <1>3 DEF HandleEAPoLStart, Admitted
  <2>2. /\ u \in Objects /\ u.status = "Host" /\ u.max = MaxNodes
        /\ u.init = uds[c].init /\ u.bits = DOMAIN u.info
        /\ u.total = Cardinality(u.bits)
        /\ DOMAIN u.map = DOMAIN uds[c].map /\ uds[c].bits \subseteq u.bits
        /\ \A i \in uds[c].bits : u.info[i] = uds[c].info[i]
        /\ \A x \in DOMAIN u.map : x # from => u.map[x] = uds[c].map[x]
        /\ f.conn = "Client" =>
             /\ from \in Members(u.map) /\ u.map[from].id \in Ids \ uds[c].bits
             /\ u.bits = uds[c].bits \cup {u.map[from].id}
             /\ u.info[u.map[from].id] = from
        /\ f.conn # "Client" => from \notin Members(u.map) /\ u.bits = uds[c].bits
    <3>1. PICK w : w = Admitted(c) OBVIOUS
    <3>2. /\ Handling(c, "start") /\ Awaits(c, task[c].from)
          /\ uds[c].max # uds[c].total
          /\ task[c].frame.conn = "Client" => FreeIds(uds[c]) # {}
      BY <1>0, <1>3
    <3> HIDE DEF u
    <3>3. u = w BY <3>1 DEF u
    <3> QED BY <3>1, <3>2, <3>3, AdmittedIs
  <2>3. \E L \in Frames, N \in Frames : frames \in {<<N, L>>, <<L>>}
    BY <1>0, <1>3, AnnouncedIs
  <2> HIDE DEF u, frames
  <2>4. frames \in Seq(Frames)
    <3>1. PICK L \in Frames, N \in Frames : frames \in {<<N, L>>, <<L>>} BY <2>3
    <3>2. <<N, L>> \in Seq(Frames) /\ <<L>> \in Seq(Frames) OBVIOUS
    <3> QED BY <3>1, <3>2
  <2>5. /\ link' \in [Consoles \X Consoles -> Seq(Frames)]
        /\ \A a, b \in Consoles \ {c} : link'[<<a, b>>] = link[<<a, b>>]
    BY <2>1, <2>4, SendIs
  <2>6. uds' \in [Consoles -> Objects] /\ uds'[c] = u
          /\ \A d \in Consoles \ {c} : uds'[d] = uds[d]
    BY <2>1, <2>2, UpdateIs
  <2>7. TypeInv' /\ Local(c) /\ task'[c].do # "handle"
    BY <1>0, <2>1, <2>5, <2>6, Idle, HandledIs DEF TypeInv
  <2>8. /\ from \in DOMAIN uds[c].map /\ from \notin Members(uds[c].map)
        /\ IsHost(c) /\ uds[c].max > 0 /\ from \in Consoles
    <3>1. uds[c].max \in {0, MaxNodes} /\ from \in Consoles
      BY <1>0, ObjectIs, TaskIs DEF Handling
    <3>2. IsHost(c) /\ uds[c].max # 0
      BY <1>3 DEF Awaits, Counts, IsHost
    <3> QED BY <1>3, <3>1, <3>2, MaxNodesAssumption DEF Awaits, Members
  <2>9. /\ \A x \in Members(u.map) : x # from => x \in Members(uds[c].map)
        /\ \A x \in Members(uds[c].map) : x \in Members(u.map) /\ x # from
        /\ \A x \in Members(uds[c].map) : u.map[x] = uds[c].map[x]
    BY <2>2, <2>8 DEF Members
  <2>10. Counts(c)'
    <3>1. \A x \in Members(u.map) : u.map[x].id \in Ids
      BY <2>2, <2>9 DEF Counts
    <3>2. MaxNodes # 0 BY MaxNodesAssumption
    <3> QED BY <2>2, <2>6, <2>7, <3>1, <3>2 DEF Counts, ConnTypes
  <2>11. ASSUME c \notin mixed PROVE Books(c)'
    <3>1. Books(c) BY <1>0, <2>8, <2>11 DEF HostOK
    <3>2. 1 \in u.bits /\ u.info[1] = c /\ c \notin DOMAIN u.map
      BY <2>2, <3>1 DEF Books
    <3>3. \A x \in Members(u.map) :
            u.map[x].id # 1 /\ u.map[x].id \in u.bits /\ u.info[u.map[x].id] = x
      <4> SUFFICES ASSUME NEW x \in Members(u.map)
                   PROVE  /\ u.map[x].id # 1 /\ u.map[x].id \in u.bits
                          /\ u.info[u.map[x].id] = x
        OBVIOUS
      <4>1. CASE x = from BY <2>2, <3>1, <4>1 DEF Books
      <4>2. CASE x # from BY <2>2, <2>9, <3>1, <4>2 DEF Books
      <4> QED BY <4>1, <4>2
    <3>4. u.init => \A i \in u.bits \ {1} : \E x \in Members(u.map) : u.map[x].id = i
      <4> SUFFICES ASSUME u.init, NEW i \in u.bits \ {1}
                   PROVE  \E x \in Members(u.map) : u.map[x].id = i
        OBVIOUS
      <4>1. CASE i \in uds[c].bits BY <2>2, <2>9, <3>1, <4>1 DEF Books
      <4>2. CASE i \notin uds[c].bits BY <2>2, <4>2
      <4> QED BY <4>1, <4>2
    <3> QED BY <2>6, <3>2, <3>3, <3>4 DEF Books
  <2>12. HostOK(c)' BY <1>0, <2>2, <2>6, <2>8, <2>11 DEF HostOK, IsHost
  <2> QED BY <2>7, <2>10, <2>12 DEF Step
<1> QED BY <1>1, <1>2, <1>3

\* A client takes what a logoff frame says.
LEMMA LogoffStep ==
    ASSUME TypeInv, NEW c \in Consoles, Counts(c), HostOK(c), HandleEAPoLLogoff(c)
    PROVE  Step(c)
<1> USE DEF HandleEAPoLLogoff
<1> DEFINE v == uds[c]
           from == task[c].from
           f == task[c].frame
           u == TakeLogoff(v, from, f)
<1>0. /\ from \in Consoles /\ f.id \in {0} \cup Ids /\ f.max = MaxNodes
      /\ f.total \in Nat /\ f.total \in 0 .. MaxNodes
      /\ f.nodes \in Partial(Ids, Consoles) /\ DOMAIN f.nodes \subseteq Ids
  BY ObjectIs, TaskIs, FrameIs, PartialIs, MaxNodesAssumption DEF Handling
<1>1. v \in Objects /\ v.bits \subseteq Ids /\ v.conn \in ConnTypes BY ObjectIs
<1>2. u \in Objects /\ u.map = v.map /\ u.init = v.init
        /\ (u.status = v.status \/ u.status \in ConnTypes)
        /\ (u.status \in ConnTypes /\ v.status = "Connecting" => u.max = MaxNodes)
        /\ (v.status # "Connecting" => u.max = v.max)
        /\ (u.status \in ConnTypes => u.total \in 0 .. MaxNodes)
        /\ (u.status \notin ConnTypes => u = v)
        /\ (u.status \in ConnTypes => v.status \in InNetwork)
  <2> USE DEF TakeLogoff
  <2>1. CASE v.status = "Connecting"
    <3>1. u = [v EXCEPT !.host = from, !.id = f.id, !.total = f.total, !.max = f.max,
                        !.bits = v.bits \cup DOMAIN f.nodes, !.info = f.nodes,
                        !.status = v.conn, !.waiting = FALSE]
      BY <2>1
    <3>2. from \in Consoles \cup {NoConsole} /\ f.max \in {0, MaxNodes}
            /\ v.bits \cup DOMAIN f.nodes \in SUBSET Ids /\ v.conn \in Statuses
      BY <1>0, <1>1 DEF Statuses, ConnTypes
    <3>3. u \in Objects BY <1>0, <1>1, <3>1, <3>2, ZenonT(60) DEF Objects
    <3>4. u.map = v.map /\ u.init = v.init /\ u.status = v.conn /\ u.max = f.max
            /\ u.total = f.total
      BY <1>1, <3>1 DEF Objects
    <3> QED BY <1>0, <1>1, <2>1, <3>3, <3>4 DEF InNetwork
  <2>2. CASE v.status \in ConnTypes
    <3>1. u = [v EXCEPT !.total = f.total, !.bits = DOMAIN f.nodes, !.info = f.nodes]
      BY <2>2 DEF ConnTypes
    <3>2. u \in Objects BY <1>0, <1>1, <3>1, ZenonT(60) DEF Objects
    <3>3. u.map = v.map /\ u.init = v.init /\ u.status = v.status /\ u.max = v.max
            /\ u.total = f.total
      BY <1>1, <3>1 DEF Objects
    <3> QED BY <1>0, <2>2, <3>2, <3>3 DEF InNetwork, ConnTypes
  <2>3. CASE v.status \notin InNetwork
    <3>1. u = v BY <2>3 DEF InNetwork
    <3> QED BY <1>1, <2>3, <3>1 DEF InNetwork
  <2> QED BY <2>1, <2>2, <2>3 DEF InNetwork
<1> HIDE DEF u
<1>3. uds' \in [Consoles -> Objects] /\ uds'[c] = u
        /\ \A d \in Consoles \ {c} : uds'[d] = uds[d]
  BY <1>2, UpdateIs DEF u
<1>4. TypeInv' /\ Local(c) /\ task'[c].do # "handle"
  BY <1>3, Idle, HandledIs DEF TypeInv, Done, Mix
<1>5. Counts(c)'
  <2>1. CASE u.status \in ConnTypes
    BY <1>2, <1>3, <1>4, <2>1 DEF Counts, Members, ConnTypes, InNetwork
  <2>2. CASE u.status \notin ConnTypes BY <1>2, <1>3, <1>4, <2>2 DEF Counts
  <2> QED BY <2>1, <2>2
<1>6. HostOK(c)'
  <2>1. mixed \subseteq mixed' BY <1>4 DEF Local
  <2>2. CASE u.status \in ConnTypes
    BY <1>2, <1>3, <2>2 DEF HostOK, IsHost, ConnTypes, InNetwork
  <2>3. CASE u.status \notin ConnTypes
    BY <1>2, <1>3, <2>1, <2>3 DEF HostOK, IsHost, Books
  <2> QED BY <2>2, <2>3
<1> QED BY <1>4, <1>5, <1>6 DEF Step

\* Whoever is no host takes a node map as it is.
LEMMA NodeMapStep ==
    ASSUME TypeInv, NEW c \in Consoles, Counts(c), HostOK(c), HandleNodeMapPacket(c)
    PROVE  Step(c)
<1> USE DEF HandleNodeMapPacket
<1> DEFINE heard == task[c].frame.map
           map == [m \in DOMAIN heard |->
                      [id |-> heard[m], connected |-> TRUE, spec |-> FALSE]]
           u == [uds[c] EXCEPT !.map = map]
<1>0. heard \in Partial(Consoles, Ids) BY ObjectIs, TaskIs, FrameIs DEF Handling
<1>1. DOMAIN heard \subseteq Consoles /\ \A m \in DOMAIN heard : heard[m] \in Ids
  BY <1>0, PartialIs
<1>2. CASE IsHost(c)
  <2>1. UNCHANGED uds BY <1>2 DEF Update, TypeInv
  <2> QED BY <2>1, Idle, SilentStep DEF Done, TypeInv
<1>3. CASE ~IsHost(c)
  <2>1. map \in [DOMAIN heard -> Nodes] BY <1>1 DEF Nodes
  <2>2. map \in Partial(Consoles, Nodes) BY <1>1, <2>1, PartialIs
  <2> HIDE DEF map
  <2>3. u \in Objects BY <2>2, ObjectIs DEF Objects
  <2>4. uds' \in [Consoles -> Objects] /\ uds'[c] = u
          /\ \A d \in Consoles \ {c} : uds'[d] = uds[d]
    BY <1>3, <2>3, UpdateIs DEF map
  <2>5. TypeInv' /\ Local(c) /\ task'[c].do # "handle"
    BY <2>4, Idle, HandledIs DEF TypeInv, Done
  <2>6. u.status = uds[c].status /\ u.max = uds[c].max /\ u.total = uds[c].total
          /\ u.bits = uds[c].bits /\ u.init = uds[c].init /\ u.map = map
    BY ObjectIs DEF Objects
  <2>7. \A m \in Members(u.map) : u.map[m].id \in Ids
    BY <1>1, <2>6 DEF Members, map
  <2>8. Counts(c)' BY <1>3, <2>4, <2>5, <2>6, <2>7 DEF Counts, IsHost
  <2>9. HostOK(c)' BY <1>3, <2>4, <2>6 DEF HostOK, IsHost
  <2> QED BY <2>5, <2>8, <2>9 DEF Step
<1> QED BY <1>2, <1>3

\* A host's object once it has struck the sender of the frame at hand out.
LEMMA ReleasedIs ==
    ASSUME TypeInv, NEW c \in Consoles, Counts(c), IsHost(c),
           task[c].from \in DOMAIN uds[c].map,
           NEW u, u = Released(uds[c], task[c].from)
    PROVE  /\ u \in Objects /\ u.status = "Host" /\ u.max = MaxNodes
           /\ u.init = uds[c].init /\ u.bits = DOMAIN u.info
           /\ u.total = Cardinality(u.bits) /\ u.bits \subseteq uds[c].bits
           /\ \A i \in u.bits : u.info[i] = uds[c].info[i]
           /\ DOMAIN u.map = DOMAIN uds[c].map \ {task[c].from}
           /\ \A x \in DOMAIN u.map : u.map[x] = uds[c].map[x]
           /\ task[c].from \in Members(uds[c].map)
                /\ uds[c].map[task[c].from].id \in uds[c].bits =>
                u.bits = uds[c].bits \ {uds[c].map[task[c].from].id}
           /\ task[c].from \notin Members(uds[c].map) => u.bits = uds[c].bits
<1> DEFINE v == uds[c]
           m == task[c].from
           rest == Restrict(v.map, DOMAIN v.map \ {m})
           freed == v.map[m].connected /\ ~v.map[m].spec /\ v.map[m].id \in DOMAIN v.info
<1>1. /\ v \in Objects /\ v.map \in Partial(Consoles, Nodes)
      /\ v.info \in Partial(Ids, Consoles) /\ v.max \in {0, MaxNodes}
      /\ v.status = "Host" /\ v.bits \subseteq Ids /\ m \in DOMAIN v.map
  BY ObjectIs DEF IsHost
<1>2. v.max = MaxNodes /\ v.bits = DOMAIN v.info /\ v.total = Cardinality(v.bits)
  BY <1>1 DEF Counts, ConnTypes
<1>3. /\ DOMAIN v.map \subseteq Consoles /\ v.map \in [DOMAIN v.map -> Nodes]
      /\ DOMAIN v.info \subseteq Ids /\ v.info \in [DOMAIN v.info -> Consoles]
  BY <1>1, PartialIs
<1>4. rest \in Partial(Consoles, Nodes)
  <2>1. rest \in [DOMAIN v.map \ {m} -> Nodes] BY <1>3 DEF Restrict
  <2>2. DOMAIN v.map \ {m} \subseteq Consoles BY <1>3
  <2>3. DOMAIN rest = DOMAIN v.map \ {m} BY DEF Restrict
  <2> QED BY <2>1, <2>2, <2>3, PartialIs
<1>5. /\ DOMAIN rest = DOMAIN v.map \ {m}
      /\ \A x \in DOMAIN rest : rest[x] = v.map[x]
  BY DEF Restrict
<1>6. CASE freed
  <2> DEFINE id == v.map[m].id
             info == Restrict(v.info, DOMAIN v.info \ {id})
             total == (v.total + 255) % 256
             bits == v.bits \ {id}
  <2>1. info \in Partial(Ids, Consoles)
    <3>1. info \in [DOMAIN v.info \ {id} -> Consoles] BY <1>3 DEF Restrict
    <3>2. DOMAIN v.info \ {id} \subseteq Ids BY <1>3
    <3>3. DOMAIN info = DOMAIN v.info \ {id} BY DEF Restrict
    <3> QED BY <3>1, <3>2, <3>3, PartialIs
  <2>2. DOMAIN info = DOMAIN v.info \ {id} /\ \A i \in DOMAIN info : info[i] = v.info[i]
    BY DEF Restrict
  <2>3. u = [v EXCEPT !.map = rest, !.bits = bits, !.total = total, !.info = info]
    BY <1>1, <1>6 DEF Released, Objects
  <2>4. Cardinality(v.bits \ {id}) = Cardinality(v.bits) - 1
          /\ Cardinality(v.bits) \in 0 .. MaxNodes
          /\ Cardinality(v.bits \ {id}) \in 0 .. MaxNodes
    <3>1. v.bits \ {id} \in SUBSET Ids /\ v.bits \in SUBSET Ids /\ id \in v.bits
      BY <1>1, <1>2, <1>6
    <3> QED BY <3>1, FewNumbers, FS_RemoveElement
  <2>5. total = Cardinality(v.bits \ {id})
    BY <1>2, <2>4, MaxNodesAssumption
  <2> HIDE DEF id, info, rest, total
  <2>6. u \in Objects
    <3>1. total \in Nat /\ bits \in SUBSET Ids
      BY <1>1, <2>4, <2>5
    <3> HIDE DEF bits
    <3> QED BY <1>1, <1>4, <2>1, <2>3, <3>1 DEF Objects
  <2>7. /\ u.status = v.status /\ u.max = v.max /\ u.init = v.init
        /\ u.bits = bits /\ u.total = total
        /\ u.info = info /\ u.map = rest
    BY <1>1, <2>3 DEF Objects
  <2>8. u.total = Cardinality(u.bits) BY <2>5, <2>7
  <2>9. m \in Members(v.map) BY <1>1, <1>6 DEF Members
  <2> QED BY <1>1, <1>2, <1>5, <2>2, <2>6, <2>7, <2>8, <2>9 DEF id
<1>7. CASE ~freed
  <2>1. u = [v EXCEPT !.map = rest] BY <1>1, <1>7 DEF Released, Objects
  <2> HIDE DEF rest
  <2>2. u \in Objects BY <1>1, <1>4, <2>1 DEF Objects
  <2>3. /\ u.status = v.status /\ u.max = v.max /\ u.init = v.init
        /\ u.bits = v.bits /\ u.total = v.total /\ u.info = v.info /\ u.map = rest
    BY <1>1, <2>1 DEF Objects
  <2>4. ~(m \in Members(v.map) /\ v.map[m].id \in v.bits)
    BY <1>2, <1>7 DEF Members
  <2> QED BY <1>1, <1>2, <1>5, <2>2, <2>3, <2>4
<1> QED BY <1>6, <1>7

LEMMA DeauthenticationStep ==
    ASSUME TypeInv, NEW c \in Consoles, Counts(c), HostOK(c), HandleDeauthenticationFrame(c)
    PROVE  Step(c)
<1> USE DEF HandleDeauthenticationFrame
<1> DEFINE from == task[c].from
           u == Released(uds[c], from)
<1>1. CASE IsHost(c) /\ from \in DOMAIN uds[c].map
  <2>1. /\ u \in Objects /\ u.status = "Host" /\ u.max = MaxNodes
        /\ u.init = uds[c].init /\ u.bits = DOMAIN u.info
        /\ u.total = Cardinality(u.bits) /\ u.bits \subseteq uds[c].bits
        /\ \A i \in u.bits : u.info[i] = uds[c].info[i]
        /\ DOMAIN u.map = DOMAIN uds[c].map \ {from}
        /\ \A x \in DOMAIN u.map : u.map[x] = uds[c].map[x]
        /\ from \in Members(uds[c].map) /\ uds[c].map[from].id \in uds[c].bits =>
             u.bits = uds[c].bits \ {uds[c].map[from].id}
        /\ from \notin Members(uds[c].map) => u.bits = uds[c].bits
    BY <1>1, ReleasedIs
  <2> HIDE DEF u
  <2>2. uds' \in [Consoles -> Objects] /\ uds'[c] = u
          /\ \A d \in Consoles \ {c} : uds'[d] = uds[d]
    BY <1>1, <2>1, UpdateIs DEF u
  <2>3. TypeInv' /\ Local(c) /\ task'[c].do # "handle"
    BY <2>2, Idle, HandledIs DEF TypeInv, Done
  <2>4. Members(u.map) = Members(uds[c].map) \ {from}
          /\ \A x \in Members(u.map) : u.map[x] = uds[c].map[x]
    BY <2>1 DEF Members
  <2>5. Counts(c)'
    <3>1. MaxNodes # 0 BY MaxNodesAssumption
    <3>2. \A x \in Members(u.map) : u.map[x].id \in Ids BY <2>4 DEF Counts
    <3> QED BY <2>1, <2>2, <2>3, <3>1, <3>2 DEF Counts, ConnTypes
  <2>6. uds[c].max > 0
    BY <1>1, ObjectIs, MaxNodesAssumption DEF Counts, IsHost
  <2>7. ASSUME c \notin mixed PROVE Books(c)'
    <3>1. Books(c) BY <1>1, <2>6, <2>7 DEF HostOK
    <3>2. 1 \in u.bits /\ u.info[1] = c /\ c \notin DOMAIN u.map
      BY <2>1, <3>1 DEF Books
    <3>3. \A x \in Members(u.map) :
            u.map[x].id # 1 /\ u.map[x].id \in u.bits /\ u.info[u.map[x].id] = x
      BY <2>1, <2>4, <3>1 DEF Books
    <3>4. u.init => \A i \in u.bits \ {1} : \E x \in Members(u.map) : u.map[x].id = i
      BY <2>1, <2>4, <3>1 DEF Books
    <3> QED BY <2>2, <3>2, <3>3, <3>4 DEF Books
  <2>8. HostOK(c)' BY <1>1, <2>1, <2>2, <2>6, <2>7 DEF HostOK, IsHost
  <2> QED BY <2>3, <2>5, <2>8 DEF Step
<1>2. CASE ~(IsHost(c) /\ from \in DOMAIN uds[c].map)
  <2>1. UNCHANGED uds BY <1>2 DEF Update, TypeInv
  <2> QED BY <2>1, Idle, SilentStep DEF Done, TypeInv
<1> QED BY <1>1, <1>2

LEMMA LeaveStep ==
    ASSUME TypeInv, NEW c \in Consoles, Counts(c), HostOK(c), LeaveRoom(c)
    PROVE  Step(c)
<1> USE DEF LeaveRoom
<1>1. PICK relayed \in BOOLEAN :
        link' = [p \in DOMAIN link |->
                    IF p[2] = c \/ (p[1] = c /\ ~relayed) THEN << >> ELSE link[p]]
  OBVIOUS
<1>2. link' \in [Consoles \X Consoles -> Seq(Frames)]
  <2>1. << >> \in Seq(Frames) OBVIOUS
  <2> QED BY <1>1, <2>1 DEF TypeInv
<1>3. \A a, b \in Consoles \ {c} : link'[<<a, b>>] = link[<<a, b>>]
  BY <1>1 DEF TypeInv
<1>4. TypeInv' /\ Local(c) BY <1>2, <1>3 DEF TypeInv, Local, Vanish
<1> QED BY <1>4 DEF Step, Counts, HostOK, Books, IsHost, Vanish

LEMMA JoinStep ==
    ASSUME TypeInv, NEW c \in Consoles, Counts(c), HostOK(c), JoinRoom(c)
    PROVE  Step(c)
<1> USE DEF JoinRoom
<1>1. TypeInv' /\ Local(c) BY DEF TypeInv, Local
<1> QED BY <1>1 DEF Step, Counts, HostOK, Books, IsHost

\* What console c does.
Action(c) ==
    GameCall(c) \/ BeaconBroadcastCallback(c) \/ NetworkStep(c) \/ LeaveRoom(c) \/ JoinRoom(c)

LEMMA ActionStep ==
    ASSUME TypeInv, NEW c \in Consoles, Counts(c), HostOK(c), Action(c)
    PROVE  Step(c)
<1>1. CASE GameCall(c)
  BY <1>1, InitializeStep, ShutdownStep, BeginHostingStep, EjectStep, DestroyStep,
     ConnectStep, TimeoutStep, DisconnectStep DEF GameCall
<1>2. CASE NetworkStep(c)
  BY <1>2, ReceiveStep, AuthenticationStep, AssociationStep, ResponseStep, StartStep,
     HandleStartStep, LogoffStep, NodeMapStep, DeauthenticationStep DEF NetworkStep
<1> QED BY <1>1, <1>2, BeaconStep, LeaveStep, JoinStep DEF Action

\* A step of one console leaves the others as they are.
LEMMA ConsolesKept ==
    ASSUME TypeInv, ConsoleInv, NEW c \in Consoles, Action(c)
    PROVE  TypeInv' /\ ConsoleInv' /\ Local(c)
<1>1. Step(c) BY ActionStep DEF ConsoleInv
<1>2. ASSUME NEW d \in Consoles \ {c} PROVE Counts(d)' /\ HostOK(d)'
  <2>1. uds'[d] = uds[d] /\ task'[d] = task[d] BY <1>1 DEF Step, Local
  <2>2. dropped \subseteq dropped' /\ mixed \subseteq mixed' BY <1>1 DEF Step, Local
  <2>3. Counts(d) /\ HostOK(d) BY DEF ConsoleInv
  <2>4. Counts(d)' BY <2>1, <2>3 DEF Counts
  <2>5. HostOK(d)' BY <2>1, <2>2, <2>3 DEF HostOK, Books, IsHost
  <2> QED BY <2>4, <2>5
<1> QED BY <1>1, <1>2 DEF ConsoleInv, Step

\* Who is in the room changes by leaving and joining only, and a service that is
\* shut down is no farewell.
LEMMA RoomKept ==
    ASSUME TypeInv, RoomInv, NEW c \in Consoles, Action(c)
    PROVE  RoomInv'
<1>1. CASE ShutdownHLE(c) BY <1>1 DEF ShutdownHLE, Vanish, RoomInv, TypeInv
<1>2. CASE LeaveRoom(c) BY <1>2 DEF LeaveRoom, Vanish, RoomInv, TypeInv
<1>3. CASE JoinRoom(c) BY <1>3 DEF JoinRoom, RoomInv, TypeInv
<1>4. CASE UNCHANGED <<joined, dropped>> BY <1>4 DEF RoomInv
<1>5. CASE GameCall(c)
  BY <1>1, <1>4, <1>5 DEF GameCall, Initialize, BeginHostingNetwork, EjectClientHLE,
     DestroyNetworkHLE, ConnectToNetworkHLE, ConnectTimeout, DisconnectNetworkHLE
<1>6. CASE NetworkStep(c)
  BY <1>4, <1>6 DEF NetworkStep, OnWifiPacketReceived, HandleAuthenticationFrame,
     SendAssociationResponseFrame, HandleAssociationResponseFrame, SendEAPoLStart,
     HandleEAPoLStart, HandleEAPoLLogoff, HandleNodeMapPacket, HandleDeauthenticationFrame
<1>7. CASE BeaconBroadcastCallback(c) BY <1>4, <1>7 DEF BeaconBroadcastCallback
<1> QED BY <1>2, <1>3, <1>5, <1>6, <1>7 DEF Action

-------------------------------------------------------------------------------
(* Two consoles and the frames between them.                                *)

\* What is appended to a link, or taken from it, does to the promises about it.
LEMMA Appended ==
    ASSUME NEW s \in Seq(Frames), NEW t \in Seq(Frames)
    PROVE  /\ \A k \in Nat : Leaves(s, k) => Leaves(s \o t, k)
           /\ (\A i \in DOMAIN t : t[i].type # "auth") /\ Answered(s) => Answered(s \o t)
           /\ (\A i \in DOMAIN t : t[i].type # "logoff") =>
                /\ \A i \in DOMAIN (s \o t) : (s \o t)[i].type = "logoff" =>
                        i \in DOMAIN s /\ (s \o t)[i] = s[i]
                /\ \A k \in Nat : LastLogoff(s \o t, k) => LastLogoff(s, k)
<1>1. /\ DOMAIN (s \o t) = 1 .. Len(s) + Len(t)
      /\ \A i \in DOMAIN s : (s \o t)[i] = s[i]
      /\ \A i \in DOMAIN (s \o t) \ DOMAIN s :
           i - Len(s) \in DOMAIN t /\ (s \o t)[i] = t[i - Len(s)]
      /\ DOMAIN s = 1 .. Len(s) /\ Len(s) \in Nat /\ Len(t) \in Nat
  BY ConcatIs
<1>2. DOMAIN s \subseteq DOMAIN (s \o t) /\ DOMAIN s \subseteq Nat BY <1>1
<1>3. \A k \in Nat : Leaves(s, k) => Leaves(s \o t, k)
  BY <1>1, <1>2 DEF Leaves
<1>4. ASSUME \A i \in DOMAIN t : t[i].type # "auth", Answered(s)
      PROVE  Answered(s \o t)
  <2> SUFFICES ASSUME NEW i \in DOMAIN (s \o t), (s \o t)[i].type = "auth"
               PROVE  Leaves(s \o t, i)
    BY DEF Answered
  <2>1. i \in DOMAIN s BY <1>1, <1>4
  <2> QED BY <1>1, <1>2, <1>3, <1>4, <2>1 DEF Answered
<1>5. ASSUME \A i \in DOMAIN t : t[i].type # "logoff"
      PROVE  /\ \A i \in DOMAIN (s \o t) : (s \o t)[i].type = "logoff" =>
                    i \in DOMAIN s /\ (s \o t)[i] = s[i]
             /\ \A k \in Nat : LastLogoff(s \o t, k) => LastLogoff(s, k)
  BY <1>1, <1>2, <1>5 DEF LastLogoff
<1> QED BY <1>3, <1>4, <1>5

LEMMA Taken ==
    ASSUME NEW s \in Seq(Frames), s # << >>
    PROVE  /\ Answered(s) => Answered(Tail(s))
           /\ Answered(s) /\ Head(s).type = "auth" => Leaves(Tail(s), 0)
           /\ Leaves(s, 0) => Head(s) = [type |-> "deauth"] \/ Leaves(Tail(s), 0)
           /\ \A i \in DOMAIN Tail(s) :
                /\ i + 1 \in DOMAIN s /\ Tail(s)[i] = s[i + 1]
                /\ LastLogoff(Tail(s), i) => LastLogoff(s, i + 1)
           /\ LastLogoff(Tail(s), 0) => LastLogoff(s, 1)
           /\ 1 \in DOMAIN s /\ Head(s) = s[1]
           /\ LastLogoff(Tail(s), 0) /\ Head(s).type # "logoff" => LastLogoff(s, 0)
<1>1. /\ Head(s) = s[1] /\ Len(s) \in Nat \ {0} /\ DOMAIN s = 1 .. Len(s)
      /\ DOMAIN Tail(s) = 1 .. (Len(s) - 1)
      /\ \A i \in DOMAIN Tail(s) : Tail(s)[i] = s[i + 1]
  BY TailIs
<1>2. \A j \in DOMAIN s : j = 1 \/ (j - 1 \in DOMAIN Tail(s) /\ Tail(s)[j - 1] = s[j])
  BY <1>1
<1>3. \A k \in Nat : Leaves(s, k + 1) => Leaves(Tail(s), k)
  BY <1>1, <1>2 DEF Leaves
<1>4. Answered(s) => Answered(Tail(s)) BY <1>1, <1>3 DEF Answered
<1>5. Answered(s) /\ Head(s).type = "auth" => Leaves(Tail(s), 0)
  BY <1>1, <1>3 DEF Answered
<1>6. Leaves(s, 0) => Head(s) = [type |-> "deauth"] \/ Leaves(Tail(s), 0)
  <2> SUFFICES ASSUME Leaves(s, 0), Head(s) # [type |-> "deauth"]
               PROVE  Leaves(Tail(s), 0)
    OBVIOUS
  <2>1. PICK j \in DOMAIN s : j > 0 /\ s[j] = [type |-> "deauth"] BY DEF Leaves
  <2>2. j # 1 BY <1>1, <2>1
  <2>3. j - 1 \in DOMAIN Tail(s) /\ Tail(s)[j - 1] = [type |-> "deauth"] /\ j - 1 > 0
    BY <1>1, <1>2, <2>1, <2>2
  <2> QED BY <2>3 DEF Leaves
<1>7. ASSUME NEW k \in Nat, LastLogoff(Tail(s), k) PROVE LastLogoff(s, k + 1)
  <2> SUFFICES ASSUME NEW j \in DOMAIN s, j > k + 1 PROVE s[j].type # "logoff"
    BY DEF LastLogoff
  <2>1. j - 1 \in DOMAIN Tail(s) /\ Tail(s)[j - 1] = s[j] /\ j - 1 > k BY <1>1, <1>2
  <2>2. Tail(s)[j - 1].type # "logoff" BY <1>7, <2>1 DEF LastLogoff
  <2> QED BY <2>1, <2>2
<1>8. ASSUME LastLogoff(Tail(s), 0), Head(s).type # "logoff" PROVE LastLogoff(s, 0)
  <2> SUFFICES ASSUME NEW j \in DOMAIN s, j > 0 PROVE s[j].type # "logoff"
    BY DEF LastLogoff
  <2>1. CASE j = 1 BY <1>1, <1>8, <2>1
  <2>2. CASE j # 1
    <3>1. j - 1 \in DOMAIN Tail(s) /\ Tail(s)[j - 1] = s[j] /\ j - 1 > 0
      BY <1>1, <1>2, <2>2
    <3>2. Tail(s)[j - 1].type # "logoff" BY <1>8, <3>1 DEF LastLogoff
    <3> QED BY <3>1, <3>2
  <2> QED BY <2>1, <2>2
<1> QED BY <1>1, <1>4, <1>5, <1>6, <1>7, <1>8

\* What a step of c may do without touching the promises.  It sends d nothing but
\* frames of the given types.
Quiet(c, d, types) ==
    \E t \in Seq(Frames) :
        /\ link'[<<c, d>>] = link[<<c, d>>] \/ link'[<<c, d>>] = link[<<c, d>>] \o t
        /\ \A i \in DOMAIN t : t[i].type \in types

\* It takes no frame of d, and finishes none of the given types.
Busy(c, d, types) ==
    \/ task'[c] = task[c]
    \/ /\ \A type \in {"auth", "deauth", "logoff"} : ~Handled(c, d, type)'
       /\ \A type \in types : ~Handled(c, d, type)

\* It does not let d in.
KeepsGuests(c, d) ==
    IsHost(c)' /\ c \notin mixed' /\ d \in DOMAIN uds'[c].map =>
        IsHost(c) /\ d \in DOMAIN uds[c].map

\* It gives out no number.
KeepsNumbers(c) ==
    IsHost(c)' =>
        /\ IsHost(c) /\ uds'[c].bits \subseteq uds[c].bits
        /\ \A i \in uds'[c].bits : uds'[c].info[i] = uds[c].info[i]

\* It stays with its host.
KeepsHost(c) ==
    {c} \cap (dropped' \cup mixed') = {} /\ uds[c].status \in InNetwork =>
        uds'[c].status \in InNetwork /\ uds'[c].host = uds[c].host

\* It learns of no node and forgets none.
KeepsList(c) ==
    uds'[c].status \in ConnTypes =>
        /\ uds[c].status \in ConnTypes /\ uds'[c].host = uds[c].host
        /\ uds'[c].bits = uds[c].bits /\ uds'[c].info = uds[c].info

LEMMA HostFarewell ==
    ASSUME TypeInv, NEW h \in Consoles, NEW c \in Consoles \ {h}, FarewellOf(h, c),
           Local(h), link'[<<c, h>>] = link[<<c, h>>],
           Busy(h, c, {"deauth"}), KeepsGuests(h, c)
    PROVE  FarewellOf(h, c)'
<1>1. uds'[c] = uds[c] BY DEF Local
<1>2. {h, c} \cap (dropped' \cup crashed' \cup mixed') = {} =>
        {h, c} \cap (dropped \cup crashed \cup mixed) = {}
  BY DEF Local
<1>3. Handled(h, c, "auth")' => Handled(h, c, "auth")
  BY DEF Local, Handled, Handling, Busy
<1>4. Handled(h, c, "deauth") /\ h \notin crashed' => Handled(h, c, "deauth")'
  BY DEF Handled, Handling, Busy
<1> QED BY <1>1, <1>2, <1>3, <1>4 DEF FarewellOf, Belongs, KeepsGuests, IsHost, Answered, Leaves

LEMMA ClientFarewell ==
    ASSUME TypeInv, NEW h \in Consoles, NEW c \in Consoles \ {h}, FarewellOf(h, c),
           Local(c), Quiet(c, h, {"assoc", "deauth", "start", "logoff", "nodeMap"}),
           {c} \cap (dropped' \cup mixed') = {} /\ Belongs(c, h) => Belongs(c, h)'
    PROVE  FarewellOf(h, c)'
<1> DEFINE s == link[<<c, h>>]
<1>1. s \in Seq(Frames) BY DEF TypeInv
<1>2. PICK r \in Seq(Frames) : r = s BY <1>1
<1>3. PICK t \in Seq(Frames) :
        /\ link'[<<c, h>>] = r \/ link'[<<c, h>>] = r \o t
        /\ \A i \in DOMAIN t : t[i].type # "auth"
  BY <1>2 DEF Quiet
<1>4. PICK q : q = link'[<<c, h>>] OBVIOUS
<1>5. (Answered(r) => Answered(q)) /\ (Leaves(r, 0) => Leaves(q, 0))
  BY <1>3, <1>4, Appended
<1>6. (Answered(s) => Answered(link'[<<c, h>>])) /\ (Leaves(s, 0) => Leaves(link'[<<c, h>>], 0))
  <2> HIDE DEF s
  <2> QED BY <1>2, <1>4, <1>5 DEF Answered, Leaves
<1>7. {h, c} \cap (dropped' \cup crashed' \cup mixed') = {} =>
        {h, c} \cap (dropped \cup crashed \cup mixed) = {}
  BY DEF Local
<1>8. uds'[h] = uds[h] /\ task'[h] = task[h] BY DEF Local
<1>9. \A type \in {"auth", "deauth"} : h \notin crashed' =>
        (Handled(h, c, type)' <=> Handled(h, c, type))
  BY <1>8 DEF Handled, Handling, Local
<1>10. SUFFICES ASSUME {h, c} \cap (dropped' \cup crashed' \cup mixed') = {},
                       ~Belongs(c, h)'
                PROVE  /\ Answered(link'[<<c, h>>])
                       /\ Handled(h, c, "auth")' => Leaves(link'[<<c, h>>], 0)
                       /\ IsHost(h)' /\ c \in DOMAIN uds'[h].map =>
                            Leaves(link'[<<c, h>>], 0) \/ Handled(h, c, "deauth")'
  BY DEF FarewellOf
<1>11. ~Belongs(c, h) BY <1>10
<1>12. h \notin crashed' BY <1>10
<1> QED BY <1>6, <1>7, <1>8, <1>9, <1>10, <1>11, <1>12 DEF FarewellOf, IsHost

LEMMA HostNamed ==
    ASSUME TypeInv, NEW h \in Consoles, NEW c \in Consoles \ {h}, NamedOf(h, c),
           Local(h), Quiet(h, c, FrameTypes \ {"logoff"})
    PROVE  NamedOf(h, c)'
<1>1. link[<<h, c>>] \in Seq(Frames) BY DEF TypeInv
<1>2. PICK r \in Seq(Frames) : r = link[<<h, c>>] BY <1>1
<1>3. PICK t \in Seq(Frames) :
        /\ link'[<<h, c>>] = r \/ link'[<<h, c>>] = r \o t
        /\ \A i \in DOMAIN t : t[i].type # "logoff"
  BY <1>2 DEF Quiet
<1>4. \A i \in DOMAIN link'[<<h, c>>] : link'[<<h, c>>][i].type = "logoff" =>
        i \in DOMAIN link[<<h, c>>] /\ link'[<<h, c>>][i] = link[<<h, c>>][i]
  <2>1. CASE link'[<<h, c>>] = r BY <1>2, <2>1
  <2>2. CASE link'[<<h, c>>] = r \o t
    <3>1. \A i \in DOMAIN (r \o t) : (r \o t)[i].type = "logoff" =>
            i \in DOMAIN r /\ (r \o t)[i] = r[i]
      BY <1>3, Appended
    <3> QED BY <1>2, <2>2, <3>1
  <2> QED BY <1>3, <2>1, <2>2
<1>5. uds'[c] = uds[c] /\ task'[c] = task[c] BY DEF Local
<1>6. Handled(c, h, "logoff")' => Handled(c, h, "logoff")
  BY <1>5 DEF Handled, Handling, Local
<1> QED BY <1>4, <1>5, <1>6 DEF NamedOf, Local, Names

LEMMA ClientNamed ==
    ASSUME TypeInv, NEW h \in Consoles, NEW c \in Consoles \ {h}, NamedOf(h, c),
           Local(c), link'[<<h, c>>] = link[<<h, c>>], Busy(c, h, {"logoff"}), KeepsList(c)
    PROVE  NamedOf(h, c)'
<1>1. Handled(c, h, "logoff")' => Handled(c, h, "logoff") /\ task'[c] = task[c]
  BY DEF Handled, Handling, Busy, Local
<1> QED BY <1>1 DEF NamedOf, Local, Names, KeepsList

LEMMA HostKnown ==
    ASSUME TypeInv, NEW h \in Consoles, NEW c \in Consoles \ {h}, KnownOf(h, c),
           Local(h), Quiet(h, c, FrameTypes \ {"logoff"}), KeepsNumbers(h)
    PROVE  KnownOf(h, c)'
<1>1. link[<<h, c>>] \in Seq(Frames) BY DEF TypeInv
<1>2. PICK r \in Seq(Frames) : r = link[<<h, c>>] BY <1>1
<1>3. PICK t \in Seq(Frames) :
        /\ link'[<<h, c>>] = r \/ link'[<<h, c>>] = r \o t
        /\ \A i \in DOMAIN t : t[i].type # "logoff"
  BY <1>2 DEF Quiet
<1>4. PICK q : q = link'[<<h, c>>] OBVIOUS
<1>5. /\ \A i \in DOMAIN q : q[i].type = "logoff" => i \in DOMAIN r /\ q[i] = r[i]
      /\ \A k \in Nat : LastLogoff(q, k) => LastLogoff(r, k)
  <2>1. CASE q = r BY <2>1
  <2>2. CASE q = r \o t BY <1>3, <2>2, Appended
  <2> QED BY <1>3, <1>4, <2>1, <2>2
<1>6. uds'[c] = uds[c] /\ task'[c] = task[c] BY DEF Local
<1>7. SUFFICES ASSUME IsHost(h)', {h, c} \cap (dropped' \cup crashed' \cup mixed') = {}
               PROVE  KnownOf(h, c)'
  BY DEF KnownOf
<1>8. IsHost(h) /\ {h, c} \cap (dropped \cup crashed \cup mixed) = {}
  BY <1>7 DEF Local, KeepsNumbers
<1>9. /\ \A i \in DOMAIN r : r[i].type = "logoff" /\ LastLogoff(r, i) => Covers(r[i].nodes, h)
      /\ LastLogoff(r, 0) =>
           /\ Handled(c, h, "logoff") => Covers(task[c].frame.nodes, h)
           /\ ~Handled(c, h, "logoff")
                 /\ uds[c].status \in ConnTypes /\ uds[c].host = h =>
              uds[h].bits \subseteq uds[c].bits /\ Covers(uds[c].info, h)
  BY <1>2, <1>8 DEF KnownOf, LastLogoff, Covers
<1>10. ASSUME NEW nodes, Covers(nodes, h) PROVE Covers(nodes, h)'
  BY <1>7, <1>10 DEF Covers, KeepsNumbers
<1>11. Handled(c, h, "logoff")' <=> Handled(c, h, "logoff")
  BY <1>6, <1>7, <1>8 DEF Handled, Handling
<1>12. DOMAIN r \subseteq Nat BY ConcatIs
<1>13. \A i \in DOMAIN q : q[i].type = "logoff" /\ LastLogoff(q, i) => Covers(q[i].nodes, h)'
  BY <1>5, <1>9, <1>10, <1>12 DEF Covers
<1>14. LastLogoff(q, 0) =>
         /\ Handled(c, h, "logoff")' => Covers(task[c].frame.nodes, h)'
         /\ ~Handled(c, h, "logoff")'
               /\ uds'[c].status \in ConnTypes /\ uds'[c].host = h =>
            uds'[h].bits \subseteq uds'[c].bits /\ Covers(uds[c].info, h)'
  <2> SUFFICES ASSUME LastLogoff(q, 0)
               PROVE  /\ Handled(c, h, "logoff")' => Covers(task[c].frame.nodes, h)'
                      /\ ~Handled(c, h, "logoff")'
                            /\ uds'[c].status \in ConnTypes /\ uds'[c].host = h =>
                         uds'[h].bits \subseteq uds'[c].bits /\ Covers(uds[c].info, h)'
    OBVIOUS
  <2>1. LastLogoff(r, 0) BY <1>5
  <2>2. uds'[h].bits \subseteq uds[h].bits BY <1>7 DEF KeepsNumbers
  <2>3. Covers(task[c].frame.nodes, h) => Covers(task[c].frame.nodes, h)'
    BY <1>6, <1>7 DEF Covers, KeepsNumbers
  <2>4. Covers(uds[c].info, h) => Covers(uds[c].info, h)'
    BY <1>6, <1>7 DEF Covers, KeepsNumbers
  <2> QED BY <1>6, <1>9, <1>11, <2>1, <2>2, <2>3, <2>4
<1> QED BY <1>4, <1>13, <1>14, ZenonT(60) DEF KnownOf, LastLogoff, Covers

LEMMA ClientKnown ==
    ASSUME TypeInv, NEW h \in Consoles, NEW c \in Consoles \ {h}, KnownOf(h, c),
           Local(c), link'[<<h, c>>] = link[<<h, c>>], Busy(c, h, {"logoff"}), KeepsList(c)
    PROVE  KnownOf(h, c)'
<1>1. SUFFICES ASSUME IsHost(h)', {h, c} \cap (dropped' \cup crashed' \cup mixed') = {}
               PROVE  KnownOf(h, c)'
  BY DEF KnownOf
<1>2. uds'[h] = uds[h] /\ task'[h] = task[h] BY DEF Local
<1>3. IsHost(h) /\ {h, c} \cap (dropped \cup crashed \cup mixed) = {}
  BY <1>1, <1>2 DEF Local, IsHost
<1>4. (Handled(c, h, "logoff")' <=> Handled(c, h, "logoff"))
        /\ (Handled(c, h, "logoff")' => task'[c] = task[c])
  BY <1>1, <1>3 DEF Handled, Handling, Busy
<1> QED BY <1>1, <1>2, <1>3, <1>4 DEF KnownOf, LastLogoff, Covers, KeepsList

\* The promises between an actor and another console.
Pairs(c, d) ==
    /\ c \in Hosts => FarewellOf(c, d)
    /\ d \in Hosts => FarewellOf(d, c)
    /\ NamedOf(c, d) /\ NamedOf(d, c)
    /\ KnownOf(c, d) /\ KnownOf(d, c)

QuietTypes == {"assoc", "deauth", "start", "nodeMap"}

LEMMA QuietTypesIs ==
    ASSUME NEW c, NEW d, Quiet(c, d, QuietTypes)
    PROVE  /\ Quiet(c, d, {"assoc", "deauth", "start", "logoff", "nodeMap"})
           /\ Quiet(c, d, FrameTypes \ {"logoff"})
BY DEF Quiet, QuietTypes, FrameTypes

LEMMA QuietPairs ==
    ASSUME TypeInv, NEW c \in Consoles, NEW d \in Consoles \ {c}, Pairs(c, d), Local(c),
           link'[<<d, c>>] = link[<<d, c>>], Quiet(c, d, QuietTypes),
           Busy(c, d, {"deauth", "logoff"}),
           KeepsGuests(c, d), KeepsNumbers(c), KeepsHost(c), KeepsList(c)
    PROVE  Pairs(c, d)'
<1>1. Busy(c, d, {"deauth"}) /\ Busy(c, d, {"logoff"}) BY DEF Busy
<1>2. c \in Consoles \ {d} /\ d \in Consoles OBVIOUS
<1>3. c \in Hosts => FarewellOf(c, d)' BY <1>1, HostFarewell DEF Pairs
<1>4. d \in Hosts => FarewellOf(d, c)'
  BY <1>2, QuietTypesIs, ClientFarewell DEF Pairs, KeepsHost, Belongs
<1>5. NamedOf(c, d)' BY QuietTypesIs, HostNamed DEF Pairs
<1>6. NamedOf(d, c)' BY <1>1, <1>2, ClientNamed DEF Pairs
<1>7. KnownOf(c, d)' BY QuietTypesIs, HostKnown DEF Pairs
<1>8. KnownOf(d, c)' BY <1>1, <1>2, ClientKnown DEF Pairs
<1> QED BY <1>3, <1>4, <1>5, <1>6, <1>7, <1>8 DEF Pairs

\* To a console that has gone away nothing is promised.
LEMMA GonePairs ==
    ASSUME NEW c, NEW d, c \in dropped'
    PROVE  Pairs(c, d)'
BY DEF Pairs, FarewellOf, NamedOf, KnownOf

LEMMA SilentIs ==
    ASSUME NEW c, NEW d, NEW types, link'[<<c, d>>] = link[<<c, d>>]
    PROVE  Quiet(c, d, types)
<1>1. << >> \in Seq(Frames) /\ \A i \in DOMAIN << >> : << >>[i].type \in types
  OBVIOUS
<1> QED BY <1>1 DEF Quiet

\* What is sent reaches the addressees that are in the room.
LEMMA SendsIs ==
    ASSUME TypeInv, NEW c \in Consoles, NEW d \in Consoles \ {c}, NEW to,
           NEW frames \in Seq(Frames), SendPacket(c, to, frames)
    PROVE  /\ link'[<<d, c>>] = link[<<d, c>>]
           /\ link'[<<c, d>>] = IF d \in to /\ {c, d} \subseteq joined
                                THEN link[<<c, d>>] \o frames ELSE link[<<c, d>>]
           /\ \A types : (\A i \in DOMAIN frames : frames[i].type \in types) =>
                            Quiet(c, d, types)
<1>1. link \in [Consoles \X Consoles -> Seq(Frames)] BY DEF TypeInv
<1>2. /\ link'[<<d, c>>] = link[<<d, c>>]
      /\ link'[<<c, d>>] = IF d \in to \ {c} /\ {c, d} \subseteq joined
                           THEN link[<<c, d>>] \o frames ELSE link[<<c, d>>]
  BY <1>1, SentIs
<1> QED BY <1>2 DEF Quiet

\* An action that leaves frames and tasks alone.
LEMMA StillPairs ==
    ASSUME TypeInv, NEW c \in Consoles, NEW d \in Consoles \ {c}, Pairs(c, d), Local(c),
           UNCHANGED <<link, task>>,
           KeepsGuests(c, d), KeepsNumbers(c), KeepsHost(c), KeepsList(c)
    PROVE  Pairs(c, d)'
BY SilentIs, QuietPairs DEF Busy

\* An object that stays keeps everything.
LEMMA KeepsAll ==
    ASSUME NEW c, NEW d, uds'[c] = uds[c]
    PROVE  KeepsGuests(c, d) /\ KeepsNumbers(c) /\ KeepsHost(c) /\ KeepsList(c)
BY DEF KeepsGuests, KeepsNumbers, KeepsHost, KeepsList, IsHost

LEMMA InitializePairs ==
    ASSUME TypeInv, NEW c \in Consoles, HostOK(c), NEW d \in Consoles \ {c}, Pairs(c, d),
           Local(c), Initialize(c)
    PROVE  Pairs(c, d)'
<1> USE DEF Initialize
<1>1. uds'[c].status = "NotConnected"
  BY ObjectIs DEF Objects, ClearedStatus, Update, TypeInv
<1>2. c \notin dropped' => uds[c].status = "NotConnected" BY DEF HostOK
<1>3. KeepsGuests(c, d) /\ KeepsNumbers(c) /\ KeepsHost(c) /\ KeepsList(c)
  BY <1>1, <1>2 DEF KeepsGuests, KeepsNumbers, KeepsHost, KeepsList, IsHost, InNetwork,
     ConnTypes
<1> QED BY <1>3, StillPairs

LEMMA DestroyPairs ==
    ASSUME TypeInv, NEW c \in Consoles, NEW d \in Consoles \ {c}, Pairs(c, d), Local(c),
           DestroyNetworkHLE(c)
    PROVE  Pairs(c, d)'
<1> USE DEF DestroyNetworkHLE
<1>1. IF IsHost(c) THEN uds'[c].status = "NotConnected"
      ELSE /\ uds'[c].status = uds[c].status /\ uds'[c].host = uds[c].host
           /\ uds'[c].bits = uds[c].bits /\ uds'[c].info = uds[c].info
  BY ObjectIs DEF Objects, ClearedStatus, Update, TypeInv
<1>2. KeepsGuests(c, d) /\ KeepsNumbers(c) /\ KeepsHost(c) /\ KeepsList(c)
  BY <1>1 DEF KeepsGuests, KeepsNumbers, KeepsHost, KeepsList, IsHost, InNetwork, ConnTypes
<1> QED BY <1>2, StillPairs

LEMMA TimeoutPairs ==
    ASSUME TypeInv, NEW c \in Consoles, NEW d \in Consoles \ {c}, Pairs(c, d), Local(c),
           ConnectTimeout(c) \/ BeaconBroadcastCallback(c)
    PROVE  Pairs(c, d)'
<1> USE DEF ConnectTimeout, BeaconBroadcastCallback
<1>1. /\ uds'[c].status = uds[c].status /\ uds'[c].host = uds[c].host
      /\ uds'[c].bits = uds[c].bits /\ uds'[c].info = uds[c].info
      /\ uds'[c].map = uds[c].map
  BY ObjectIs DEF Objects, Update, TypeInv
<1>2. KeepsGuests(c, d) /\ KeepsNumbers(c) /\ KeepsHost(c) /\ KeepsList(c)
  BY <1>1 DEF KeepsGuests, KeepsNumbers, KeepsHost, KeepsList, IsHost
<1> QED BY <1>2, StillPairs

LEMMA EjectPairs ==
    ASSUME TypeInv, NEW c \in Consoles, NEW d \in Consoles \ {c}, Pairs(c, d), Local(c),
           EjectClientHLE(c)
    PROVE  Pairs(c, d)'
<1> DEFINE deauth == [type |-> "deauth"]
<1>1. <<deauth>> \in Seq(Frames) /\ <<deauth, deauth, deauth>> \in Seq(Frames)
  <2>1. deauth \in Frames BY DEF Frames
  <2> QED BY <2>1
<1>2. link'[<<d, c>>] = link[<<d, c>>] /\ Quiet(c, d, QuietTypes)
  <2>1. /\ \A i \in DOMAIN <<deauth>> : <<deauth>>[i].type \in QuietTypes
        /\ \A i \in DOMAIN <<deauth, deauth, deauth>> :
             <<deauth, deauth, deauth>>[i].type \in QuietTypes
    BY DEF QuietTypes
  <2>2. CASE \E m \in Members(uds[c].map) : SendPacket(c, {m}, <<deauth>>)
    BY <1>1, <2>1, <2>2, SendsIs
  <2>3. CASE SendPacket(c, Consoles, <<deauth, deauth, deauth>>)
    BY <1>1, <2>1, <2>3, SendsIs
  <2> QED BY <2>2, <2>3 DEF EjectClientHLE
<1>3. UNCHANGED <<uds, task>> BY DEF EjectClientHLE
<1> QED BY <1>2, <1>3, KeepsAll, QuietPairs DEF Busy

\* A step of the loop thread that finishes what it was doing without touching the
\* object.
LEMMA DonePairs ==
    ASSUME TypeInv, NEW c \in Consoles, NEW d \in Consoles \ {c}, Pairs(c, d), Local(c),
           UNCHANGED uds, task'[c].do # "handle",
           ~Handling(c, "deauth"), ~Handling(c, "logoff"),
           link'[<<d, c>>] = link[<<d, c>>], Quiet(c, d, QuietTypes)
    PROVE  Pairs(c, d)'
<1>1. Busy(c, d, {"deauth", "logoff"}) BY DEF Busy, Handled, Handling
<1>2. KeepsGuests(c, d) /\ KeepsNumbers(c) /\ KeepsHost(c) /\ KeepsList(c) BY KeepsAll
<1> QED BY <1>1, <1>2, QuietPairs

LEMMA AssociationPairs ==
    ASSUME TypeInv, NEW c \in Consoles, NEW d \in Consoles \ {c}, Pairs(c, d), Local(c),
           SendAssociationResponseFrame(c)
    PROVE  Pairs(c, d)'
<1> USE DEF SendAssociationResponseFrame
<1> DEFINE frames == <<[type |-> "assoc"]>>
<1>1. frames \in Seq(Frames) /\ \A i \in DOMAIN frames : frames[i].type \in QuietTypes
  <2>1. [type |-> "assoc"] \in Frames BY DEF Frames
  <2> QED BY <2>1 DEF QuietTypes
<1>2. link'[<<d, c>>] = link[<<d, c>>] /\ Quiet(c, d, QuietTypes)
  <2>1. CASE IsHost(c)
    <3>1. SendPacket(c, {task[c].to}, frames) BY <2>1
    <3> QED BY <1>1, <3>1, SendsIs
  <2>2. CASE ~IsHost(c) BY <2>2, SilentIs
  <2> QED BY <2>1, <2>2
<1>3. task'[c].do # "handle" BY DEF Done, TypeInv, NoTask
<1>4. ~Handling(c, "deauth") /\ ~Handling(c, "logoff") BY DEF Handling
<1> QED BY <1>2, <1>3, <1>4, DonePairs

LEMMA ResponsePairs ==
    ASSUME TypeInv, NEW c \in Consoles, NEW d \in Consoles \ {c}, Pairs(c, d), Local(c),
           HandleAssociationResponseFrame(c)
    PROVE  Pairs(c, d)'
<1> USE DEF HandleAssociationResponseFrame
<1>1. task'[c].do # "handle" BY DEF Done, TypeInv, NoTask
<1>2. ~Handling(c, "deauth") /\ ~Handling(c, "logoff") BY DEF Handling
<1> QED BY <1>1, <1>2, SilentIs, DonePairs

LEMMA StartPairs ==
    ASSUME TypeInv, NEW c \in Consoles, NEW d \in Consoles \ {c}, Pairs(c, d), Local(c),
           SendEAPoLStart(c)
    PROVE  Pairs(c, d)'
<1> USE DEF SendEAPoLStart
<1> DEFINE f == [type |-> "start", conn |-> uds[c].conn, node |-> uds[c].self]
<1>1. <<f>> \in Seq(Frames) /\ \A i \in DOMAIN <<f>> : <<f>>[i].type \in QuietTypes
  <2>1. f \in Frames BY ObjectIs DEF Frames
  <2> QED BY <2>1 DEF QuietTypes
<1>2. SendPacket(c, {task[c].to}, <<f>>) OBVIOUS
<1>3. link'[<<d, c>>] = link[<<d, c>>] /\ Quiet(c, d, QuietTypes)
  <2> HIDE DEF f
  <2> QED BY <1>1, <1>2, SendsIs
<1>4. task'[c].do # "handle" BY DEF Done, TypeInv, NoTask
<1>5. ~Handling(c, "deauth") /\ ~Handling(c, "logoff") BY DEF Handling
<1> QED BY <1>3, <1>4, <1>5, DonePairs

LEMMA NodeMapPairs ==
    ASSUME TypeInv, NEW c \in Consoles, NEW d \in Consoles \ {c}, Pairs(c, d), Local(c),
           HandleNodeMapPacket(c)
    PROVE  Pairs(c, d)'
<1> USE DEF HandleNodeMapPacket
<1>1. task'[c].do # "handle" BY DEF Done, TypeInv, NoTask
<1>2. Busy(c, d, {"deauth", "logoff"}) BY <1>1 DEF Busy, Handled, Handling
<1>3. /\ uds'[c].status = uds[c].status /\ uds'[c].host = uds[c].host
      /\ uds'[c].bits = uds[c].bits /\ uds'[c].info = uds[c].info
      /\ IsHost(c) => uds'[c].map = uds[c].map
  BY ObjectIs DEF Objects, Update, TypeInv
<1>4. KeepsGuests(c, d) /\ KeepsNumbers(c) /\ KeepsHost(c) /\ KeepsList(c)
  BY <1>3 DEF KeepsGuests, KeepsNumbers, KeepsHost, KeepsList, IsHost
<1> QED BY <1>2, <1>4, SilentIs, QuietPairs

LEMMA JoinPairs ==
    ASSUME TypeInv, NEW c \in Consoles, NEW d \in Consoles \ {c}, Pairs(c, d), Local(c),
           JoinRoom(c)
    PROVE  Pairs(c, d)'
BY KeepsAll, StillPairs DEF JoinRoom

\* Who begins to host knows all nodes of a network of one, and so does whoever has
\* heard of an earlier network of this host.
LEMMA BeginHostingPairs ==
    ASSUME TypeInv, NEW c \in Consoles, Counts(c), NEW d \in Consoles \ {c}, Pairs(c, d),
           Local(c), BeginHostingNetwork(c)
    PROVE  Pairs(c, d)'
<1> USE DEF BeginHostingNetwork
<1>0. UNCHANGED <<link, task, dropped, crashed>> OBVIOUS
<1>1. /\ uds'[c].status = "Host" /\ uds'[c].bits = {1} /\ uds'[c].info = [i \in {1} |-> c]
      /\ uds'[c].map = uds[c].map /\ uds[c].status = "NotConnected"
  BY ObjectIs DEF Objects, Update, TypeInv, Counts
<1>2. c \notin mixed' => DOMAIN uds[c].map = {} BY EmptyIs DEF Mix
<1>3. KeepsGuests(c, d) /\ KeepsHost(c) /\ KeepsList(c)
  BY <1>1, <1>2 DEF KeepsGuests, KeepsHost, KeepsList, InNetwork, ConnTypes
<1>4. Busy(c, d, {"deauth"}) /\ Busy(c, d, {"logoff"}) BY DEF Busy
<1>5. c \in Hosts => FarewellOf(c, d)' BY <1>3, <1>4, HostFarewell DEF Pairs
<1>6. d \in Hosts => FarewellOf(d, c)'
  BY <1>3, SilentIs, ClientFarewell DEF Pairs, KeepsHost, Belongs
<1>7. NamedOf(c, d)' BY SilentIs, HostNamed DEF Pairs
<1>8. NamedOf(d, c)' /\ KnownOf(d, c)' BY <1>3, <1>4, ClientNamed, ClientKnown DEF Pairs
<1>9. KnownOf(c, d)'
  <2>1. SUFFICES ASSUME {c, d} \cap (dropped' \cup crashed' \cup mixed') = {}
                 PROVE  KnownOf(c, d)'
    BY DEF KnownOf
  <2>2. {c, d} \cap (dropped \cup mixed) = {} BY <2>1 DEF Local
  <2>3. ASSUME NEW nodes, Names(nodes, c) PROVE Covers(nodes, c)'
    BY <1>1, <2>3 DEF Names, Covers
  <2>4. uds'[d] = uds[d] /\ task'[d] = task[d] BY DEF Local
  <2> QED BY <1>0, <1>1, <2>2, <2>3, <2>4 DEF Pairs, NamedOf, KnownOf, Names, Covers, Handled, Handling
<1> QED BY <1>5, <1>6, <1>7, <1>8, <1>9 DEF Pairs

\* Who asks to be let in belongs to the host it asks.
LEMMA ConnectPairs ==
    ASSUME TypeInv, NEW c \in Consoles, NEW d \in Consoles \ {c}, Pairs(c, d), Local(c),
           NEW host \in Hosts, NEW conn \in ConnTypes, ConnectToNetworkHLE(c, host, conn)
    PROVE  Pairs(c, d)'
<1> USE DEF ConnectToNetworkHLE
<1> DEFINE frames == <<[type |-> "auth"]>>
<1>1. frames \in Seq(Frames) /\ \A i \in DOMAIN frames : frames[i].type = "auth"
  <2>1. [type |-> "auth"] \in Frames BY DEF Frames
  <2> QED BY <2>1
<1>2. /\ link'[<<d, c>>] = link[<<d, c>>]
      /\ d # host => link'[<<c, d>>] = link[<<c, d>>]
      /\ Quiet(c, d, FrameTypes \ {"logoff"})
  <2>1. SendPacket(c, {host}, frames) OBVIOUS
  <2>2. \A i \in DOMAIN frames : frames[i].type \in FrameTypes \ {"logoff"}
    BY <1>1 DEF FrameTypes
  <2> HIDE DEF frames
  <2> QED BY <1>1, <2>1, <2>2, SendsIs
<1>3. uds'[c].status = "Connecting" /\ uds'[c].host = host
  BY ObjectIs DEF Objects, Update, TypeInv
<1>4. KeepsGuests(c, d) /\ KeepsNumbers(c) /\ KeepsHost(c) /\ KeepsList(c)
  BY <1>3 DEF KeepsGuests, KeepsNumbers, KeepsHost, KeepsList, IsHost, InNetwork, ConnTypes,
     Mix
<1>5. Busy(c, d, {"deauth"}) /\ Busy(c, d, {"logoff"}) BY DEF Busy
<1>6. c \in Hosts => FarewellOf(c, d)' BY <1>2, <1>4, <1>5, HostFarewell DEF Pairs
<1>7. d \in Hosts => FarewellOf(d, c)'
  <2>1. CASE d = host
    <3>1. Belongs(c, d)' BY <1>3, <2>1 DEF Belongs, InNetwork
    <3> QED BY <3>1 DEF FarewellOf
  <2>2. CASE d # host
    BY <1>2, <1>4, <2>2, SilentIs, ClientFarewell DEF Pairs, KeepsHost, Belongs
  <2> QED BY <2>1, <2>2
<1>8. NamedOf(c, d)' /\ KnownOf(c, d)' BY <1>2, <1>4, HostNamed, HostKnown DEF Pairs
<1>9. NamedOf(d, c)' /\ KnownOf(d, c)'
  BY <1>2, <1>4, <1>5, ClientNamed, ClientKnown DEF Pairs
<1> QED BY <1>6, <1>7, <1>8, <1>9 DEF Pairs

\* A link that ends with a deauthentication keeps every promise.
LEMMA Ended ==
    ASSUME NEW s \in Seq(Frames)
    PROVE  /\ Answered(s \o <<[type |-> "deauth"]>>)
           /\ Leaves(s \o <<[type |-> "deauth"]>>, 0)
<1> DEFINE deauth == [type |-> "deauth"]
           t == <<deauth>>
           q == s \o t
<1>1. deauth \in Frames BY DEF Frames
<1>2. t \in Seq(Frames) /\ Len(t) = 1 /\ t[1] = deauth /\ DOMAIN t = {1} BY <1>1
<1> HIDE DEF t
<1>3. DOMAIN q = 1 .. Len(s) + 1 /\ Len(s) \in Nat /\ q[Len(s) + 1] = deauth
  <2>1. /\ DOMAIN (s \o t) = 1 .. Len(s) + Len(t) /\ Len(s) \in Nat
        /\ \A i \in DOMAIN t : (s \o t)[Len(s) + i] = t[i]
    BY <1>2, ConcatIs
  <2>2. 1 \in DOMAIN t /\ (s \o t)[Len(s) + 1] = t[1] BY <1>2, <2>1
  <2> QED BY <1>2, <2>1, <2>2
<1> HIDE DEF q
<1>4. \A k \in Nat : k <= Len(s) => Leaves(q, k) BY <1>3 DEF Leaves
<1>5. Answered(q)
  <2> SUFFICES ASSUME NEW i \in DOMAIN q, q[i].type = "auth" PROVE Leaves(q, i)
    BY DEF Answered
  <2>1. deauth.type # "auth" OBVIOUS
  <2>2. i # Len(s) + 1 BY <1>3, <2>1
  <2>3. i \in Nat /\ i <= Len(s) BY <1>3, <2>2
  <2> QED BY <1>4, <2>3
<1> QED BY <1>3, <1>4, <1>5 DEF q, t

\* Who leaves a network says so to its host.
LEMMA DisconnectPairs ==
    ASSUME TypeInv, RoomInv, NEW c \in Consoles, NEW d \in Consoles \ {c}, Pairs(c, d),
           Local(c), DisconnectNetworkHLE(c)
    PROVE  Pairs(c, d)'
<1> USE DEF DisconnectNetworkHLE
<1> DEFINE frames == <<[type |-> "deauth"]>>
           to == IF IsHost(c) THEN {} ELSE {uds[c].host}
<1>1. frames \in Seq(Frames) /\ \A i \in DOMAIN frames : frames[i].type \in QuietTypes
  <2>1. [type |-> "deauth"] \in Frames BY DEF Frames
  <2> QED BY <2>1 DEF QuietTypes
<1>2. /\ link'[<<d, c>>] = link[<<d, c>>]
      /\ link'[<<c, d>>] = IF d \in to /\ {c, d} \subseteq joined
                           THEN link[<<c, d>>] \o frames ELSE link[<<c, d>>]
      /\ Quiet(c, d, QuietTypes)
  <2>1. SendPacket(c, to, frames) OBVIOUS
  <2> HIDE DEF frames, to
  <2> QED BY <1>1, <2>1, SendsIs
<1>3. /\ uds'[c].status = IF IsHost(c) THEN "Host" ELSE "NotConnected"
      /\ uds'[c].bits = {} /\ DOMAIN uds'[c].map = {}
  BY ObjectIs, EmptyIs DEF Objects, Update, TypeInv, ClearedStatus
<1>4. KeepsGuests(c, d) /\ KeepsNumbers(c) /\ KeepsList(c)
  BY <1>3 DEF KeepsGuests, KeepsNumbers, KeepsList, IsHost, ConnTypes
<1>5. Busy(c, d, {"deauth"}) /\ Busy(c, d, {"logoff"}) BY DEF Busy
<1>6. c \in Hosts => FarewellOf(c, d)' BY <1>2, <1>4, <1>5, HostFarewell DEF Pairs
<1>7. ASSUME d \in Hosts PROVE FarewellOf(d, c)'
  <2>1. CASE ~Belongs(c, d)
    BY <1>2, <1>7, <2>1, QuietTypesIs, ClientFarewell DEF Pairs
  <2>2. CASE Belongs(c, d)
    <3>1. SUFFICES ASSUME {c, d} \cap dropped' = {} PROVE FarewellOf(d, c)'
      BY DEF FarewellOf
    <3>2. {c, d} \subseteq joined BY <3>1 DEF RoomInv, Local
    <3>3. d \in to BY <2>2 DEF Belongs, InNetwork, ConnTypes, IsHost
    <3>4. PICK r \in Seq(Frames) : r = link[<<c, d>>] BY DEF TypeInv
    <3>5. link'[<<c, d>>] = r \o frames BY <1>2, <3>2, <3>3, <3>4
    <3>6. Answered(r \o frames) /\ Leaves(r \o frames, 0) BY Ended
    <3>7. Answered(link'[<<c, d>>]) /\ Leaves(link'[<<c, d>>], 0)
      <4> HIDE DEF frames
      <4> QED BY <3>5, <3>6 DEF Answered, Leaves
    <3> QED BY <3>7 DEF FarewellOf
  <2> QED BY <2>1, <2>2
<1>8. NamedOf(c, d)' /\ KnownOf(c, d)'
  BY <1>2, <1>4, QuietTypesIs, HostNamed, HostKnown DEF Pairs
<1>9. NamedOf(d, c)' /\ KnownOf(d, c)'
  BY <1>2, <1>4, <1>5, ClientNamed, ClientKnown DEF Pairs
<1> QED BY <1>6, <1>7, <1>8, <1>9 DEF Pairs

\* A frame that is taken from a link is handled next, unless the service is not
\* initialised, and then nothing is promised.
LEMMA ReceivePairs ==
    ASSUME TypeInv, NEW c \in Consoles, HostOK(c), NEW d \in Consoles \ {c}, Pairs(c, d),
           Local(c), NEW from \in Consoles \ {c}, OnWifiPacketReceived(c, from)
    PROVE  Pairs(c, d)'
<1> DEFINE s == link[<<from, c>>]
           t == [do |-> "handle", from |-> from, frame |-> Head(s)]
<1>1. /\ s \in Seq(Frames) /\ s # << >> /\ c \notin crashed /\ task[c] = NoTask
      /\ UNCHANGED <<uds, joined, crashed, dropped, mixed>>
      /\ link' = [link EXCEPT ![<<from, c>>] = Tail(s)]
      /\ task' = IF uds[c].init THEN [task EXCEPT ![c] = t] ELSE task
  BY DEF OnWifiPacketReceived, TypeInv
<1>2. /\ link'[<<c, d>>] = link[<<c, d>>]
      /\ link'[<<d, c>>] = IF d = from THEN Tail(s) ELSE link[<<d, c>>]
      /\ task'[c] = IF uds[c].init THEN t ELSE task[c]
  BY <1>1 DEF TypeInv
<1>3. \A type : ~Handled(c, d, type) BY <1>1 DEF Handled, Handling, NoTask
<1>4. \A type : Handled(c, d, type)' <=>
        uds[c].init /\ d = from /\ Head(s).type = type
  BY <1>1, <1>2 DEF Handled, Handling, NoTask
<1>5. KeepsGuests(c, d) /\ KeepsNumbers(c) /\ KeepsHost(c) /\ KeepsList(c)
  BY <1>1, KeepsAll
<1>6. CASE d # from
  <2>1. Busy(c, d, {"deauth", "logoff"}) BY <1>3, <1>4, <1>6 DEF Busy
  <2> QED BY <1>2, <1>5, <1>6, <2>1, SilentIs, QuietPairs
<1>7. CASE d = from
  <2> PICK r \in Seq(Frames) : r = s BY <1>1
  <2>0. Head(r) = Head(s) OBVIOUS
  <2>1. link[<<d, c>>] = r /\ link'[<<d, c>>] = Tail(r) /\ r # << >>
    BY <1>1, <1>2, <1>7
  <2>2. uds[c].init => task'[c].frame = Head(r) BY <1>2
  <2>3. PICK q : q = Tail(r) OBVIOUS
  <2>4. /\ Answered(r) => Answered(q)
        /\ Answered(r) /\ Head(r).type = "auth" => Leaves(q, 0)
        /\ Leaves(r, 0) => Head(r) = [type |-> "deauth"] \/ Leaves(q, 0)
        /\ \A i \in DOMAIN q :
             /\ i + 1 \in DOMAIN r /\ q[i] = r[i + 1]
             /\ LastLogoff(q, i) => LastLogoff(r, i + 1)
        /\ LastLogoff(q, 0) => LastLogoff(r, 1)
        /\ 1 \in DOMAIN r /\ Head(r) = r[1]
        /\ LastLogoff(q, 0) /\ Head(r).type # "logoff" => LastLogoff(r, 0)
    BY <2>1, <2>3, Taken
  <2>5. ~uds[c].init /\ c \notin dropped => uds[c].status = "NotConnected"
    BY DEF HostOK
  <2>6. uds'[d] = uds[d] /\ task'[d] = task[d] BY DEF Local
  <2>7. c \in Hosts => FarewellOf(c, d)'
    <3>1. FarewellOf(c, d) /\ {c, d} \cap (dropped \cup crashed \cup mixed) = {}
            /\ ~Belongs(d, c) =>
            /\ Answered(r)
            /\ (IsHost(c) /\ d \in DOMAIN uds[c].map => Leaves(r, 0))
      BY <1>3, <2>1 DEF FarewellOf, Answered, Leaves
    <3>2. ASSUME Answered(q), Head(r).type = "auth" => Leaves(q, 0),
                 IsHost(c) /\ d \in DOMAIN uds[c].map =>
                    uds[c].init /\ (Head(r).type = "deauth" \/ Leaves(q, 0))
          PROVE  FarewellOf(c, d)'
      <4>0. link'[<<d, c>>] = q /\ Answered(q) BY <2>1, <2>3, <3>2
      <4>1. Answered(link'[<<d, c>>]) BY ONLY <4>0 DEF Answered, Leaves
      <4>2. Leaves(q, 0) => Leaves(link'[<<d, c>>], 0) BY ONLY <4>0 DEF Leaves
      <4>3. Handled(c, d, "auth")' => Leaves(link'[<<d, c>>], 0)
        BY <1>4, <2>0, <3>2, <4>2
      <4>4. IsHost(c)' /\ d \in DOMAIN uds'[c].map =>
              Leaves(link'[<<d, c>>], 0) \/ Handled(c, d, "deauth")'
        <5> SUFFICES ASSUME IsHost(c), d \in DOMAIN uds[c].map
                     PROVE  Leaves(link'[<<d, c>>], 0) \/ Handled(c, d, "deauth")'
          BY <1>1 DEF IsHost
        <5>1. uds[c].init /\ (Head(s).type = "deauth" \/ Leaves(q, 0)) BY <2>0, <3>2
        <5>2. Head(s).type = "deauth" /\ uds[c].init => Handled(c, d, "deauth")'
          BY <1>4, <1>7
        <5> QED BY <4>2, <5>1, <5>2
      <4> QED BY <4>1, <4>3, <4>4 DEF FarewellOf
    <3>3. {c, d} \cap (dropped \cup crashed \cup mixed) # {} \/ Belongs(d, c) =>
            FarewellOf(c, d)'
      BY <1>1, <2>6 DEF FarewellOf, Belongs
    <3> QED BY <2>4, <2>5, <3>1, <3>2, <3>3 DEF Pairs, IsHost
  <2>8. d \in Hosts => FarewellOf(d, c)'
    BY <1>2, <1>5, SilentIs, ClientFarewell DEF Pairs, KeepsHost, Belongs
  <2>9. NamedOf(c, d)' /\ KnownOf(c, d)'
    BY <1>2, <1>5, SilentIs, HostNamed, HostKnown DEF Pairs
  <2>10. NamedOf(d, c)'
    <3>1. {c, d} \cap (dropped \cup mixed) = {} =>
            \A i \in DOMAIN r : r[i].type = "logoff" => Names(r[i].nodes, d)
      BY <2>1 DEF Pairs, NamedOf, Names
    <3>2. {c, d} \cap (dropped \cup mixed) = {} =>
            /\ \A i \in DOMAIN q : q[i].type = "logoff" => Names(q[i].nodes, d)
            /\ Head(r).type = "logoff" => Names(Head(r).nodes, d)
      BY <2>4, <3>1
    <3>3. Handled(c, d, "logoff")' => Head(r).type = "logoff" /\ task'[c].frame = Head(r)
      BY <1>4, <2>2, <1>2
    <3> QED BY <1>1, <2>1, <2>3, <3>2, <3>3 DEF Pairs, NamedOf, Names
  <2>11. KnownOf(d, c)'
    <3>1. SUFFICES ASSUME IsHost(d), {c, d} \cap (dropped \cup crashed \cup mixed) = {}
                   PROVE  KnownOf(d, c)'
      BY <1>1 DEF KnownOf, IsHost
    <3> DEFINE learnt == uds[c].status \in ConnTypes /\ uds[c].host = d
               knows == uds[d].bits \subseteq uds[c].bits /\ Covers(uds[c].info, d)
    <3>2. \A i \in DOMAIN r :
            r[i].type = "logoff" /\ LastLogoff(r, i) => Covers(r[i].nodes, d)
      <4>1. link[<<d, c>>] = r /\ KnownOf(d, c) BY <2>1 DEF Pairs
      <4> QED BY ONLY <3>1, <4>1 DEF KnownOf, LastLogoff, Covers
    <3>3. LastLogoff(r, 0) /\ learnt => knows
      BY <1>3, <2>1, <3>1 DEF Pairs, KnownOf, LastLogoff
    <3>4. uds'[c] = uds[c] /\ uds'[d] = uds[d] BY <1>1
    <3>5. \A i \in DOMAIN q :
            q[i].type = "logoff" /\ LastLogoff(q, i) => Covers(q[i].nodes, d)
      BY <2>4, <3>2
    <3>6. ASSUME LastLogoff(q, 0)
          PROVE  /\ Handled(c, d, "logoff")' => Covers(task'[c].frame.nodes, d)
                 /\ ~Handled(c, d, "logoff")' /\ learnt => knows
      <4>1. LastLogoff(r, 1) /\ 1 \in DOMAIN r /\ Head(r) = r[1] BY <2>4, <3>6
      <4>2. CASE Handled(c, d, "logoff")'
        <5>1. uds[c].init /\ Head(r).type = "logoff" BY <1>4, <2>0, <4>2
        <5>2. Covers(r[1].nodes, d) BY <3>2, <4>1, <5>1
        <5>3. task'[c].frame = r[1] BY <2>2, <4>1, <5>1
        <5> QED BY <4>2, <5>2, <5>3 DEF Covers
      <4>3. CASE ~Handled(c, d, "logoff")'
        <5> SUFFICES ASSUME learnt PROVE knows BY <4>3
        <5>1. uds[c].init BY <2>5, <3>1 DEF ConnTypes
        <5>2. Head(r).type # "logoff" BY <1>4, <1>7, <2>0, <4>3, <5>1
        <5>3. LastLogoff(r, 0) BY <2>4, <3>6, <5>2
        <5> HIDE DEF learnt, knows
        <5> QED BY <3>3, <5>3
      <4> QED BY <4>2, <4>3
    <3>7. link'[<<d, c>>] = q BY <2>1, <2>3
    <3>8. \A i \in DOMAIN link'[<<d, c>>] :
            link'[<<d, c>>][i].type = "logoff" /\ LastLogoff(link'[<<d, c>>], i) =>
                Covers(link'[<<d, c>>][i].nodes, d)
      BY ONLY <3>5, <3>7 DEF LastLogoff, Covers
    <3>9. LastLogoff(link'[<<d, c>>], 0) =>
            /\ Handled(c, d, "logoff")' => Covers(task'[c].frame.nodes, d)
            /\ ~Handled(c, d, "logoff")' /\ learnt => knows
      <4> HIDE DEF learnt, knows
      <4>1. LastLogoff(link'[<<d, c>>], 0) => LastLogoff(q, 0)
        BY ONLY <3>7 DEF LastLogoff
      <4> QED BY <3>6, <4>1
    <3> QED BY ONLY <3>4, <3>8, <3>9, ZenonT(60) DEF KnownOf, LastLogoff, Covers
  <2> QED BY <2>7, <2>8, <2>9, <2>10, <2>11 DEF Pairs
<1> QED BY <1>6, <1>7

\* As QuietPairs, for a host that may let d in or finish with d.
LEMMA OtherPairs ==
    ASSUME TypeInv, NEW c \in Consoles, NEW d \in Consoles \ {c}, Pairs(c, d), Local(c),
           link'[<<d, c>>] = link[<<d, c>>], Quiet(c, d, QuietTypes),
           c \in Hosts => FarewellOf(c, d)',
           Busy(c, d, {"logoff"}), KeepsNumbers(c), KeepsHost(c), KeepsList(c)
    PROVE  Pairs(c, d)'
<1>1. c \in Consoles \ {d} /\ d \in Consoles OBVIOUS
<1>2. d \in Hosts => FarewellOf(d, c)'
  BY <1>1, QuietTypesIs, ClientFarewell DEF Pairs, KeepsHost, Belongs
<1>3. NamedOf(c, d)' /\ KnownOf(c, d)'
  BY QuietTypesIs, HostNamed, HostKnown DEF Pairs
<1>4. NamedOf(d, c)' /\ KnownOf(d, c)' BY <1>1, ClientNamed, ClientKnown DEF Pairs
<1> QED BY <1>2, <1>3, <1>4 DEF Pairs

\* A console that is authenticated belongs to the host or has said goodbye after
\* it asked.
LEMMA AuthenticationPairs ==
    ASSUME TypeInv, NEW c \in Consoles, NEW d \in Consoles \ {c}, Pairs(c, d), Local(c),
           HandleAuthenticationFrame(c)
    PROVE  Pairs(c, d)'
<1> USE DEF HandleAuthenticationFrame
<1> DEFINE from == task[c].from
           map == With(uds[c].map, from, Authenticated)
<1>1. Handling(c, "auth") /\ UNCHANGED <<link, crashed, dropped, mixed>> OBVIOUS
<1>2. Quiet(c, d, QuietTypes) /\ link'[<<d, c>>] = link[<<d, c>>] BY SilentIs
<1>3. ~Handling(c, "deauth") /\ ~Handling(c, "logoff") BY DEF Handling
<1>4. CASE ~MayAuthenticate(c, from)
  <2>1. task'[c].do # "handle" /\ UNCHANGED uds BY <1>4 DEF Done, TypeInv, NoTask
  <2> QED BY <1>2, <1>3, <2>1, DonePairs
<1>5. CASE MayAuthenticate(c, from)
  <2>1. task'[c].do # "handle" BY <1>5 DEF TypeInv
  <2>2. Busy(c, d, {"deauth", "logoff"}) /\ Busy(c, d, {"logoff"})
    BY <1>3, <2>1 DEF Busy, Handled, Handling
  <2>3. uds' = [uds EXCEPT ![c] = [uds[c] EXCEPT !.map = map]] BY <1>5 DEF Update
  <2> HIDE DEF map
  <2>4. /\ uds'[c].status = uds[c].status /\ uds'[c].host = uds[c].host
        /\ uds'[c].bits = uds[c].bits /\ uds'[c].info = uds[c].info
        /\ uds'[c].map = map
    BY <2>3, ObjectIs DEF Objects, TypeInv
  <2>5. KeepsNumbers(c) /\ KeepsHost(c) /\ KeepsList(c)
    BY <2>4 DEF KeepsNumbers, KeepsHost, KeepsList, IsHost
  <2>6. CASE d # from
    <3>1. KeepsGuests(c, d)
      BY <2>4, <2>6 DEF KeepsGuests, IsHost, map, With
    <3> QED BY <1>2, <2>2, <2>5, <3>1, QuietPairs
  <2>7. CASE d = from
    <3>1. SUFFICES ASSUME c \in Hosts,
                          {c, d} \cap (dropped' \cup crashed' \cup mixed') = {},
                          ~Belongs(d, c)'
                   PROVE  FarewellOf(c, d)'
      BY <1>2, <2>2, <2>5, OtherPairs DEF FarewellOf
    <3>2. ~Belongs(d, c) BY <3>1 DEF Local, Belongs
    <3>3. Handled(c, d, "auth") BY <1>1, <2>7 DEF Handled
    <3>4. Answered(link[<<d, c>>]) /\ Leaves(link[<<d, c>>], 0)
      BY <1>1, <3>1, <3>2, <3>3 DEF Pairs, FarewellOf
    <3>5. ~Handled(c, d, "auth")' BY <2>1 DEF Handled, Handling
    <3>6. link'[<<d, c>>] = link[<<d, c>>] BY <1>1
    <3>7. Answered(link'[<<d, c>>]) /\ Leaves(link'[<<d, c>>], 0)
      BY ONLY <3>4, <3>6 DEF Answered, Leaves
    <3> QED BY <3>5, <3>7 DEF FarewellOf
  <2> QED BY <2>6, <2>7
<1> QED BY <1>4, <1>5

\* A host strikes out the console whose deauthentication it has taken.
LEMMA DeauthenticationPairs ==
    ASSUME TypeInv, NEW c \in Consoles, Counts(c), NEW d \in Consoles \ {c}, Pairs(c, d),
           Local(c), HandleDeauthenticationFrame(c)
    PROVE  Pairs(c, d)'
<1> USE DEF HandleDeauthenticationFrame
<1> DEFINE from == task[c].from
           released == IsHost(c) /\ from \in DOMAIN uds[c].map
<1>1. Handling(c, "deauth") /\ UNCHANGED <<link, crashed, dropped, mixed>> OBVIOUS
<1>2. Quiet(c, d, QuietTypes) /\ link'[<<d, c>>] = link[<<d, c>>] BY SilentIs
<1>3. task'[c].do # "handle" BY DEF Done, TypeInv, NoTask
<1>4. /\ KeepsGuests(c, d) /\ KeepsNumbers(c) /\ KeepsHost(c) /\ KeepsList(c)
      /\ IsHost(c)' => from \notin DOMAIN uds'[c].map
  <2>1. CASE released
    <3>1. PICK u : u = Released(uds[c], from) OBVIOUS
    <3>2. /\ u.status = "Host" /\ u.bits \subseteq uds[c].bits
          /\ \A i \in u.bits : u.info[i] = uds[c].info[i]
          /\ DOMAIN u.map = DOMAIN uds[c].map \ {from}
      BY <2>1, <3>1, ReleasedIs
    <3>3. uds'[c] = u BY <2>1, <3>1 DEF Update, TypeInv
    <3> QED BY <2>1, <3>2, <3>3 DEF KeepsGuests, KeepsNumbers, KeepsHost, KeepsList, IsHost,
               InNetwork, ConnTypes
  <2>2. CASE ~released
    <3>1. uds'[c] = uds[c] BY <2>2 DEF Update, TypeInv
    <3> QED BY <2>2, <3>1, KeepsAll DEF IsHost
  <2> QED BY <2>1, <2>2
<1>5. Busy(c, d, {"logoff"}) BY <1>1, <1>3 DEF Busy, Handled, Handling
<1>6. CASE d # from
  <2>1. Busy(c, d, {"deauth", "logoff"}) BY <1>1, <1>3, <1>6 DEF Busy, Handled, Handling
  <2> QED BY <1>2, <1>4, <2>1, QuietPairs
<1>7. CASE d = from
  <2>1. SUFFICES ASSUME c \in Hosts,
                        {c, d} \cap (dropped' \cup crashed' \cup mixed') = {},
                        ~Belongs(d, c)'
                 PROVE  FarewellOf(c, d)'
    BY <1>2, <1>4, <1>5, OtherPairs DEF FarewellOf
  <2>2. ~Belongs(d, c) BY <2>1 DEF Local, Belongs
  <2>3. Answered(link[<<d, c>>]) BY <1>1, <2>1, <2>2 DEF Pairs, FarewellOf
  <2>4. link'[<<d, c>>] = link[<<d, c>>] BY <1>1
  <2>5. Answered(link'[<<d, c>>]) BY ONLY <2>3, <2>4 DEF Answered, Leaves
  <2>6. ~Handled(c, d, "auth")' BY <1>3 DEF Handled, Handling
  <2> QED BY <1>4, <1>7, <2>5, <2>6 DEF FarewellOf
<1> QED BY <1>6, <1>7

\* What a client holds once it has taken a logoff frame.
LEMMA TakenIs ==
    ASSUME TypeInv, NEW c \in Consoles, HandleEAPoLLogoff(c)
    PROVE  /\ uds'[c].map = uds[c].map
           /\ uds[c].status \notin InNetwork => uds'[c] = uds[c]
           /\ uds[c].status \in InNetwork =>
                /\ uds'[c].status \in ConnTypes
                /\ uds'[c].host \in {uds[c].host, task[c].from}
                /\ uds'[c].info = task[c].frame.nodes
                /\ DOMAIN task[c].frame.nodes \subseteq uds'[c].bits
<1> DEFINE v == uds[c]
           f == task[c].frame
           u == TakeLogoff(v, task[c].from, f)
<1>1. v \in Objects /\ v.conn \in ConnTypes BY ObjectIs
<1>2. uds'[c] = u BY DEF HandleEAPoLLogoff, Update, TypeInv
<1>3. CASE v.status = "Connecting"
  BY <1>1, <1>2, <1>3 DEF TakeLogoff, Objects, InNetwork
<1>4. CASE v.status \in ConnTypes
  BY <1>1, <1>2, <1>4 DEF TakeLogoff, Objects, InNetwork, ConnTypes
<1>5. CASE v.status \notin InNetwork
  BY <1>1, <1>2, <1>5 DEF TakeLogoff, InNetwork
<1> QED BY <1>3, <1>4, <1>5 DEF InNetwork

\* A client that has to do with one host takes what this host says.
LEMMA LogoffPairs ==
    ASSUME TypeInv, NEW c \in Consoles, NEW d \in Consoles \ {c}, Pairs(c, d), Local(c),
           HandleEAPoLLogoff(c)
    PROVE  Pairs(c, d)'
<1> USE DEF HandleEAPoLLogoff
<1> DEFINE v == uds[c]
           f == task[c].frame
           from == task[c].from
<1>1. Handling(c, "logoff") /\ UNCHANGED <<link, crashed, dropped>> OBVIOUS
<1>2. task'[c].do # "handle" BY DEF Done, TypeInv, NoTask
<1>3. c \notin mixed' /\ v.status \in InNetwork => v.host = from BY DEF Mix
<1>4. KeepsGuests(c, d) /\ KeepsNumbers(c) /\ KeepsHost(c)
  <2>1. CASE v.status \in InNetwork
    BY <1>3, <2>1, TakenIs DEF KeepsGuests, KeepsNumbers, KeepsHost, IsHost, InNetwork,
       ConnTypes
  <2>2. CASE v.status \notin InNetwork BY <2>2, TakenIs, KeepsAll
  <2> QED BY <2>1, <2>2
<1>5. Busy(c, d, {"deauth"}) BY <1>1, <1>2 DEF Busy, Handled, Handling
<1>6. c \in Hosts => FarewellOf(c, d)' BY <1>4, <1>5, HostFarewell DEF Pairs
<1>7. d \in Hosts => FarewellOf(d, c)'
  BY <1>4, SilentIs, ClientFarewell DEF Pairs, KeepsHost, Belongs
<1>8. NamedOf(c, d)' /\ KnownOf(c, d)' BY <1>4, SilentIs, HostNamed, HostKnown DEF Pairs
<1>9. ~Handled(c, d, "logoff")' BY <1>2 DEF Handled, Handling
<1>10. link'[<<d, c>>] = link[<<d, c>>] /\ uds'[d] = uds[d] BY DEF Local
<1>11. c \notin mixed' /\ uds'[c].status \in ConnTypes /\ uds'[c].host = d =>
         /\ Handled(c, d, "logoff")
         /\ uds'[c].info = f.nodes /\ DOMAIN f.nodes \subseteq uds'[c].bits
  <2>1. uds'[c].status \in ConnTypes => v.status \in InNetwork
    BY TakenIs DEF InNetwork
  <2> QED BY <1>1, <1>3, <2>1, TakenIs DEF Handled
<1>12. mixed \subseteq mixed' BY DEF Local
<1>13. NamedOf(d, c)'
  <2>1. SUFFICES ASSUME {d, c} \cap (dropped' \cup mixed') = {} PROVE NamedOf(d, c)'
    BY DEF NamedOf
  <2>2. NamedOf(d, c) /\ {d, c} \cap (dropped \cup mixed) = {} BY <1>1, <1>12, <2>1 DEF Pairs
  <2>3. uds'[c].status \in ConnTypes /\ uds'[c].host = d =>
          1 \in uds'[c].bits /\ Names(uds'[c].info, d)
    BY <1>11, <2>1, <2>2 DEF NamedOf, Names
  <2> QED BY <1>9, <1>10, <2>2, <2>3 DEF NamedOf, Names
<1>14. KnownOf(d, c)'
  <2>1. SUFFICES ASSUME IsHost(d)', {d, c} \cap (dropped' \cup crashed' \cup mixed') = {}
                 PROVE  KnownOf(d, c)'
    BY DEF KnownOf
  <2>2. KnownOf(d, c) /\ {d, c} \cap (dropped \cup crashed \cup mixed) = {} /\ IsHost(d)
    BY <1>1, <1>10, <1>12, <2>1 DEF Pairs, IsHost
  <2>3. LastLogoff(link[<<d, c>>], 0)
          /\ uds'[c].status \in ConnTypes /\ uds'[c].host = d =>
          uds[d].bits \subseteq uds'[c].bits /\ Covers(uds'[c].info, d)
    BY <1>11, <2>1, <2>2 DEF KnownOf, Covers
  <2> QED BY <1>9, <1>10, <2>2, <2>3 DEF KnownOf, LastLogoff, Covers
<1> QED BY <1>6, <1>7, <1>8, <1>13, <1>14 DEF Pairs

\* A link that ends with the announcement of a new member ends with a logoff frame.
LEMMA Announced ==
    ASSUME NEW s \in Seq(Frames), NEW L \in Frames, NEW N \in Frames,
           L.type = "logoff", N.type = "nodeMap",
           NEW t \in Seq(Frames), t \in {<<N, L>>, <<L>>}
    PROVE  /\ \A i \in DOMAIN (s \o t) : (s \o t)[i].type = "logoff" =>
                (i \in DOMAIN s /\ (s \o t)[i] = s[i]) \/ (s \o t)[i] = L
           /\ \A i \in DOMAIN (s \o t) : LastLogoff(s \o t, i)
                /\ (s \o t)[i].type = "logoff" => (s \o t)[i] = L
           /\ ~LastLogoff(s \o t, 0)
<1> DEFINE q == s \o t
           k == Len(s) + Len(t)
<1>1. /\ Len(t) \in {1, 2} /\ DOMAIN t = 1 .. Len(t) /\ t[Len(t)] = L
      /\ \A i \in DOMAIN t : t[i].type = "logoff" => t[i] = L
  <2>1. CASE t = <<L>> BY <2>1
  <2>2. CASE t = <<N, L>> BY <2>2
  <2> QED BY <2>1, <2>2
<1>2. /\ DOMAIN q = 1 .. k /\ Len(s) \in Nat /\ DOMAIN s = 1 .. Len(s)
      /\ \A i \in DOMAIN s : q[i] = s[i]
      /\ \A i \in DOMAIN t : q[Len(s) + i] = t[i]
      /\ \A i \in DOMAIN q \ DOMAIN s : i - Len(s) \in DOMAIN t /\ q[i] = t[i - Len(s)]
  BY ConcatIs
<1>3. Len(t) \in DOMAIN t /\ k \in DOMAIN q /\ k \in Nat /\ k > 0 BY <1>1, <1>2
<1>4. q[k] = L BY <1>1, <1>2, <1>3
<1> HIDE DEF q, k
<1>5. \A i \in DOMAIN q : q[i].type = "logoff" => (i \in DOMAIN s /\ q[i] = s[i]) \/ q[i] = L
  BY <1>1, <1>2
<1>6. \A i \in DOMAIN q : LastLogoff(q, i) => i = k
  <2> SUFFICES ASSUME NEW i \in DOMAIN q, LastLogoff(q, i), i # k PROVE FALSE
    OBVIOUS
  <2>1. k > i BY <1>2, <1>3
  <2> QED BY <1>3, <1>4, <2>1 DEF LastLogoff
<1>7. ~LastLogoff(q, 0) BY <1>3, <1>4 DEF LastLogoff
<1> QED BY <1>4, <1>5, <1>6, <1>7 DEF q

\* Who lets a console in tells everybody all nodes.
LEMMA HandleStartPairs ==
    ASSUME TypeInv, RoomInv, NEW c \in Consoles, Counts(c), HostOK(c),
           NEW d \in Consoles \ {c}, Pairs(c, d), Local(c), HandleEAPoLStart(c)
    PROVE  Pairs(c, d)'
<1> DEFINE from == task[c].from
           f == task[c].frame
           full == uds[c].max = uds[c].total
                     \/ (f.conn = "Client" /\ FreeIds(uds[c]) = {})
<1>1. Handling(c, "start") /\ task' = [task EXCEPT ![c] = NoTask]
        /\ UNCHANGED <<joined, dropped, mixed>>
  BY DEF HandleEAPoLStart, Done
<1>2. ~Handling(c, "deauth") /\ ~Handling(c, "logoff") BY <1>1 DEF Handling
<1>3. task'[c].do # "handle" BY <1>1 DEF TypeInv, NoTask
<1>4. CASE ~Awaits(c, from) \/ full
  <2>1. UNCHANGED <<uds, link>> BY <1>4 DEF HandleEAPoLStart
  <2> QED BY <1>2, <1>3, <2>1, SilentIs, DonePairs
<1>5. CASE Awaits(c, from) /\ ~full
  <2> DEFINE u == Admitted(c)
             frames == Announcement(u, f.conn, from, f.node)
  <2>1. Update(c, u) /\ SendPacket(c, Consoles, frames) /\ UNCHANGED crashed
    BY <1>5 DEF HandleEAPoLStart, Admitted
  <2>2. PICK L \in Frames, N \in Frames :
          /\ L.type = "logoff" /\ L.nodes = u.info /\ N.type = "nodeMap"
          /\ frames \in {<<N, L>>, <<L>>}
    BY <1>1, <1>5, AnnouncedIs
  <2>3. /\ u.status = "Host" /\ u.max = MaxNodes /\ u.bits = DOMAIN u.info
        /\ DOMAIN u.map = DOMAIN uds[c].map
    <3>1. PICK w : w = Admitted(c) OBVIOUS
    <3>2. /\ Handling(c, "start") /\ Awaits(c, task[c].from)
          /\ uds[c].max # uds[c].total
          /\ task[c].frame.conn = "Client" => FreeIds(uds[c]) # {}
      BY <1>1, <1>5
    <3>3. /\ w.status = "Host" /\ w.max = MaxNodes /\ w.bits = DOMAIN w.info
          /\ DOMAIN w.map = DOMAIN uds[c].map
      BY <3>1, <3>2, AdmittedIs
    <3> QED BY ONLY <3>1, <3>3
  <2>4. uds'[c] = u BY <2>1 DEF Update, TypeInv
  <2> HIDE DEF u, frames
  <2>5. frames \in Seq(Frames)
          /\ \A i \in DOMAIN frames : frames[i].type \in {"nodeMap", "logoff"}
    <3>1. CASE frames = <<N, L>> BY <2>2, <3>1
    <3>2. CASE frames = <<L>> BY <2>2, <3>2
    <3> QED BY <2>2, <3>1, <3>2
  <2>6. /\ link'[<<d, c>>] = link[<<d, c>>]
        /\ link'[<<c, d>>] = IF {c, d} \subseteq joined
                             THEN link[<<c, d>>] \o frames ELSE link[<<c, d>>]
        /\ Quiet(c, d, {"assoc", "deauth", "start", "logoff", "nodeMap"})
    BY <2>1, <2>5, SendsIs
  <2>7. IsHost(c) BY <1>5 DEF Awaits
  <2>8. KeepsGuests(c, d) /\ KeepsHost(c) /\ KeepsList(c)
    BY <2>3, <2>4, <2>7 DEF KeepsGuests, KeepsHost, KeepsList, IsHost, InNetwork, ConnTypes
  <2>9. Busy(c, d, {"deauth"}) /\ Busy(c, d, {"logoff"})
    BY <1>2, <1>3 DEF Busy, Handled, Handling
  <2>10. c \in Hosts => FarewellOf(c, d)' BY <2>6, <2>8, <2>9, HostFarewell DEF Pairs
  <2>11. d \in Hosts => FarewellOf(d, c)'
    BY <2>6, <2>8, ClientFarewell DEF Pairs, KeepsHost, Belongs
  <2>12. NamedOf(d, c)' /\ KnownOf(d, c)'
    BY <2>6, <2>8, <2>9, ClientNamed, ClientKnown DEF Pairs
  <2>13. ASSUME {c, d} \cap (dropped' \cup mixed') = {}
         PROVE  /\ link'[<<c, d>>] = link[<<c, d>>] \o frames
                /\ Names(L.nodes, c) /\ Covers(L.nodes, c)'
    <3>1. {c, d} \subseteq joined BY <1>1, <2>13 DEF RoomInv
    <3>2. Books(c)'
      <4>1. Step(c) BY HandleStartStep
      <4>2. IsHost(c)' /\ uds'[c].max > 0
        BY <2>3, <2>4, MaxNodesAssumption DEF IsHost
      <4> QED BY <2>13, <4>1, <4>2 DEF Step, HostOK
    <3>3. 1 \in u.bits /\ u.info[1] = c BY <2>4, <3>2 DEF Books
    <3> QED BY <2>2, <2>3, <2>4, <2>6, <3>1, <3>3 DEF Names, Covers
  <2>14. uds'[d] = uds[d] /\ task'[d] = task[d] /\ mixed \subseteq mixed' BY DEF Local
  <2>15. PICK r \in Seq(Frames) : r = link[<<c, d>>] BY DEF TypeInv
  <2>16. /\ \A i \in DOMAIN (r \o frames) : (r \o frames)[i].type = "logoff" =>
              (i \in DOMAIN r /\ (r \o frames)[i] = r[i]) \/ (r \o frames)[i] = L
         /\ \A i \in DOMAIN (r \o frames) : LastLogoff(r \o frames, i)
              /\ (r \o frames)[i].type = "logoff" => (r \o frames)[i] = L
         /\ ~LastLogoff(r \o frames, 0)
    BY <2>2, <2>5, Announced
  <2>17. PICK q : q = r \o frames OBVIOUS
  <2>18. NamedOf(c, d)'
    <3>1. SUFFICES ASSUME {c, d} \cap (dropped' \cup mixed') = {} PROVE NamedOf(c, d)'
      BY DEF NamedOf
    <3>2. NamedOf(c, d) /\ {c, d} \cap (dropped \cup mixed) = {}
      BY <1>1, <3>1 DEF Pairs
    <3>3. link'[<<c, d>>] = q /\ Names(L.nodes, c) BY <2>13, <2>15, <2>17, <3>1
    <3>4. \A i \in DOMAIN r : r[i].type = "logoff" => Names(r[i].nodes, c)
      BY ONLY <2>15, <3>2 DEF NamedOf, Names
    <3>5. \A i \in DOMAIN q : q[i].type = "logoff" => Names(q[i].nodes, c)
      BY <2>16, <2>17, <3>3, <3>4
    <3>6. Handled(d, c, "logoff")' => Handled(d, c, "logoff")
      BY <2>14 DEF Handled, Handling, Local
    <3> QED BY <2>14, <3>2, <3>3, <3>5, <3>6 DEF NamedOf, Names
  <2>19. KnownOf(c, d)'
    <3>1. SUFFICES ASSUME {c, d} \cap (dropped' \cup crashed' \cup mixed') = {}
                   PROVE  KnownOf(c, d)'
      BY DEF KnownOf
    <3>2. link'[<<c, d>>] = q /\ Covers(L.nodes, c)' BY <2>13, <2>15, <2>17, <3>1
    <3>3. /\ \A i \in DOMAIN q : LastLogoff(q, i) /\ q[i].type = "logoff" => q[i] = L
          /\ ~LastLogoff(q, 0)
      BY <2>16, <2>17
    <3> QED BY ONLY <3>2, <3>3 DEF KnownOf, LastLogoff, Covers
  <2> QED BY <2>10, <2>11, <2>12, <2>18, <2>19 DEF Pairs
<1> QED BY <1>4, <1>5

\* Who goes away is promised nothing any more.
LEMMA VanishPairs ==
    ASSUME TypeInv, NEW c \in Consoles, NEW d \in Consoles \ {c},
           ShutdownHLE(c) \/ LeaveRoom(c)
    PROVE  Pairs(c, d)'
<1>1. c \in dropped' BY DEF ShutdownHLE, LeaveRoom, Vanish
<1> QED BY <1>1, GonePairs

\* The promises between whoever acts and everybody else.
LEMMA ActionPairs ==
    ASSUME TypeInv, RoomInv, NEW c \in Consoles, Counts(c), HostOK(c),
           NEW d \in Consoles \ {c}, Pairs(c, d), Local(c), Action(c)
    PROVE  Pairs(c, d)'
<1>1. CASE GameCall(c)
  BY <1>1, InitializePairs, VanishPairs, BeginHostingPairs, EjectPairs, DestroyPairs,
     ConnectPairs, TimeoutPairs, DisconnectPairs DEF GameCall
<1>2. CASE NetworkStep(c)
  BY <1>2, ReceivePairs, AuthenticationPairs, AssociationPairs, ResponsePairs, StartPairs,
     HandleStartPairs, LogoffPairs, NodeMapPairs, DeauthenticationPairs DEF NetworkStep
<1> QED BY <1>1, <1>2, TimeoutPairs, VanishPairs, JoinPairs DEF Action

\* The promises between two others.
LEMMA OthersPairs ==
    ASSUME TypeInv, NEW c \in Consoles, NEW a \in Consoles \ {c}, NEW b \in Consoles \ {c},
           Pairs(a, b), Local(c)
    PROVE  Pairs(a, b)'
<1>1. /\ uds'[a] = uds[a] /\ task'[a] = task[a] /\ uds'[b] = uds[b] /\ task'[b] = task[b]
      /\ link'[<<a, b>>] = link[<<a, b>>] /\ link'[<<b, a>>] = link[<<b, a>>]
      /\ dropped \subseteq dropped' /\ crashed \subseteq crashed' /\ mixed \subseteq mixed'
  BY DEF Local
<1>2. \A x, y \in {a, b}, type \in {"auth", "deauth", "logoff"} :
        /\ Handled(x, y, type)' => Handled(x, y, type)
        /\ x \notin crashed' => (Handled(x, y, type)' <=> Handled(x, y, type))
  BY <1>1 DEF Handled, Handling
<1>3. FarewellOf(a, b) => FarewellOf(a, b)'
  BY <1>1, <1>2 DEF FarewellOf, Answered, Leaves, Belongs, IsHost
<1>4. FarewellOf(b, a) => FarewellOf(b, a)'
  BY <1>1, <1>2 DEF FarewellOf, Answered, Leaves, Belongs, IsHost
<1>5. NamedOf(a, b) => NamedOf(a, b)' BY <1>1, <1>2 DEF NamedOf, Names
<1>6. NamedOf(b, a) => NamedOf(b, a)' BY <1>1, <1>2 DEF NamedOf, Names
<1>7. KnownOf(a, b) => KnownOf(a, b)'
  BY <1>1, <1>2 DEF KnownOf, LastLogoff, Covers, IsHost
<1>8. KnownOf(b, a) => KnownOf(b, a)'
  BY <1>1, <1>2 DEF KnownOf, LastLogoff, Covers, IsHost
<1> QED BY <1>3, <1>4, <1>5, <1>6, <1>7, <1>8 DEF Pairs

\* The promises of any two consoles, from the one that acts.
LEMMA PromisesKept ==
    ASSUME TypeInv, ConsoleInv, RoomInv, FarewellInv, NamedInv, KnownInv,
           NEW c \in Consoles, Action(c), Local(c)
    PROVE  FarewellInv' /\ NamedInv' /\ KnownInv'
<1>1. \A a \in Consoles : \A b \in Consoles \ {a} : Pairs(a, b)
  BY DEF Pairs, FarewellInv, NamedInv, KnownInv
<1>2. ASSUME NEW d \in Consoles \ {c} PROVE Pairs(c, d)'
  <2>1. Counts(c) /\ HostOK(c) BY DEF ConsoleInv
  <2> QED BY <1>1, <2>1, ActionPairs
<1>3. ASSUME NEW a \in Consoles, NEW b \in Consoles \ {a} PROVE Pairs(a, b)'
  <2>1. CASE a = c BY <1>2, <2>1
  <2>2. CASE b = c
    <3>1. Pairs(b, a)' BY <1>2, <2>2
    <3> QED BY <3>1 DEF Pairs
  <2>3. CASE a # c /\ b # c BY <1>1, <2>3, OthersPairs
  <2> QED BY <2>1, <2>2, <2>3
<1>4. \A a \in Consoles : \A b \in Consoles \ {a} : Pairs(a, b)' BY <1>3
<1>5. Hosts \subseteq Consoles BY HostsAssumption
<1>6. FarewellInv' BY <1>4, <1>5 DEF Pairs, FarewellInv
<1>7. NamedInv' BY <1>4 DEF Pairs, NamedInv
<1>8. KnownInv' BY <1>4 DEF Pairs, KnownInv
<1> QED BY <1>6, <1>7, <1>8

-------------------------------------------------------------------------------
(* The theorems.                                                            *)

\* At the beginning nobody is in a network and nothing is on its way.
LEMMA NwmInit == Init => NwmInv
<1> SUFFICES ASSUME Init PROVE NwmInv OBVIOUS
<1>0. EmptyMap \in Partial(Consoles, Nodes) /\ EmptyMap \in Partial(Ids, Consoles)
        /\ DOMAIN EmptyMap = {}
  BY EmptyIs
<1>1. NewUds \in Objects
  <2>1. /\ "NotConnected" \in Statuses /\ "Client" \in ConnTypes
        /\ 0 \in {0} \cup Ids /\ 0 \in {0, MaxNodes} /\ 0 \in Nat /\ {} \in SUBSET Ids
        /\ NoConsole \in Consoles \cup {NoConsole} /\ FALSE \in BOOLEAN /\ 0 \in {0, 1}
    BY DEF Statuses, ConnTypes
  <2> HIDE DEF NoConsole
  <2> QED BY <1>0, <2>1 DEF Objects, NewUds
<1>2. /\ NewUds.status = "NotConnected" /\ NewUds.max = 0 /\ NewUds.total = 0
      /\ NewUds.bits = {} /\ NewUds.map = EmptyMap
  BY DEF NewUds
<1>3. \A c \in Consoles : uds[c] = NewUds /\ task[c] = NoTask BY DEF Init
<1>4. \A a, b \in Consoles : link[<<a, b>>] = << >> BY DEF Init
<1>5. TypeInv
  <2>1. uds \in [Consoles -> Objects] BY <1>1 DEF Init
  <2>2. task \in [Consoles -> Tasks] BY Idle DEF Init
  <2>3. link \in [Consoles \X Consoles -> Seq(Frames)] BY DEF Init
  <2> QED BY <2>1, <2>2, <2>3 DEF Init, TypeInv
<1>6. ConsoleInv
  <2>1. ASSUME NEW c \in Consoles PROVE Counts(c) /\ HostOK(c)
    <3>1. Members(uds[c].map) = {} BY <1>0, <1>2, <1>3 DEF Members
    <3> QED BY <1>2, <1>3, <3>1, Idle DEF Counts, HostOK, IsHost, ConnTypes
  <2> QED BY <2>1 DEF ConsoleInv
<1>7. RoomInv BY DEF Init, RoomInv
<1>8. \A h \in Consoles, c \in Consoles : FarewellOf(h, c) /\ NamedOf(h, c) /\ KnownOf(h, c)
  <2>1. ASSUME NEW h \in Consoles, NEW c \in Consoles
        PROVE  FarewellOf(h, c) /\ NamedOf(h, c) /\ KnownOf(h, c)
    <3>1. DOMAIN link[<<h, c>>] = {} /\ DOMAIN link[<<c, h>>] = {} BY <1>4
    <3>2. ~IsHost(h) /\ uds[c].status \notin ConnTypes
      BY <1>2, <1>3 DEF IsHost, ConnTypes
    <3>3. \A x, y \in Consoles, type \in {"auth", "logoff"} : ~Handled(x, y, type)
      BY <1>3, Idle DEF Handled, Handling
    <3>4. FarewellOf(h, c) BY <3>1, <3>2, <3>3 DEF FarewellOf, Answered
    <3>5. NamedOf(h, c) BY <3>1, <3>2, <3>3 DEF NamedOf
    <3>6. KnownOf(h, c) BY <3>2 DEF KnownOf
    <3> QED BY <3>4, <3>5, <3>6
  <2> QED BY <2>1
<1>9. Hosts \subseteq Consoles BY HostsAssumption
<1> QED BY <1>5, <1>6, <1>7, <1>8, <1>9 DEF NwmInv, FarewellInv, NamedInv, KnownInv

LEMMA NwmStep == NwmInv /\ [Next]_vars => NwmInv'
<1> SUFFICES ASSUME NwmInv, [Next]_vars PROVE NwmInv'
  OBVIOUS
<1>1. CASE Next
  <2>1. PICK c \in Consoles : Action(c) BY <1>1 DEF Next, Action
  <2>2. TypeInv' /\ ConsoleInv' /\ Local(c) BY <2>1, ConsolesKept DEF NwmInv
  <2>3. RoomInv' BY <2>1, RoomKept DEF NwmInv
  <2>4. FarewellInv' /\ NamedInv' /\ KnownInv' BY <2>1, <2>2, PromisesKept DEF NwmInv
  <2> QED BY <2>2, <2>3, <2>4 DEF NwmInv
<1>2. CASE UNCHANGED vars
  <2> USE <1>2 DEF vars
  <2>1. TypeInv' BY DEF NwmInv, TypeInv
  <2>2. ConsoleInv' BY DEF NwmInv, ConsoleInv, Counts, HostOK, Books, IsHost
  <2>3. RoomInv' BY DEF NwmInv, RoomInv
  <2>4. FarewellInv'
    BY DEF NwmInv, FarewellInv, FarewellOf, Answered, Leaves, Belongs, Handled, Handling,
       IsHost
  <2>5. NamedInv' BY DEF NwmInv, NamedInv, NamedOf, Names, Handled, Handling
  <2>6. KnownInv'
    BY DEF NwmInv, KnownInv, KnownOf, Covers, LastLogoff, Handled, Handling, IsHost
  <2> QED BY <2>1, <2>2, <2>3, <2>4, <2>5, <2>6 DEF NwmInv
<1> QED BY <1>1, <1>2

\* What the invariant says of the ranges.
LEMMA TypesHold == NwmInv => TypeOK
<1> SUFFICES ASSUME NwmInv PROVE TypeOK OBVIOUS
<1>1. TypeInv BY DEF NwmInv
<1>2. ASSUME NEW c \in Consoles
      PROVE  LET u == uds[c]
             IN /\ {u.init, u.waiting} \subseteq BOOLEAN
                /\ u.status \in Statuses /\ u.conn \in ConnTypes
                /\ u.id \in {0} \cup Ids /\ u.self \in {0, 1}
                /\ u.max \in {0, MaxNodes} /\ u.total \in 0 .. u.max
                /\ u.bits \subseteq Ids
                /\ u.host \in Consoles \cup {NoConsole}
                /\ DOMAIN u.map \subseteq Consoles /\ Range(u.map) \subseteq Nodes
                /\ DOMAIN u.info \subseteq Ids /\ Range(u.info) \subseteq Consoles
                /\ u.beacons \in Nat
                /\ task[c] \in Tasks
  <2>1. /\ uds[c].init \in BOOLEAN /\ uds[c].status \in Statuses
        /\ uds[c].id \in {0} \cup Ids /\ uds[c].max \in {0, MaxNodes}
        /\ uds[c].bits \subseteq Ids /\ uds[c].conn \in ConnTypes
        /\ uds[c].host \in Consoles \cup {NoConsole} /\ uds[c].waiting \in BOOLEAN
        /\ uds[c].self \in {0, 1} /\ uds[c].beacons \in Nat /\ task[c] \in Tasks
        /\ uds[c].map \in Partial(Consoles, Nodes) /\ uds[c].info \in Partial(Ids, Consoles)
    BY <1>1, ObjectIs
  <2>2. Counts(c) BY DEF NwmInv, ConsoleInv
  <2>3. uds[c].total \in 0 .. uds[c].max
    <3>1. CASE uds[c].status \in ConnTypes BY <2>2, <3>1 DEF Counts
    <3>2. CASE uds[c].status = "Host"
      BY <2>1, <2>2, <3>2, FewNumbers DEF Counts
    <3>3. CASE uds[c].status \in {"NotConnected", "Connecting"}
      BY <2>2, <3>3 DEF Counts
    <3> QED BY <2>1, <3>1, <3>2, <3>3 DEF Statuses, ConnTypes
  <2>4. DOMAIN uds[c].map \subseteq Consoles /\ Range(uds[c].map) \subseteq Nodes
    BY <2>1, PartialIs DEF Range
  <2>5. DOMAIN uds[c].info \subseteq Ids /\ Range(uds[c].info) \subseteq Consoles
    BY <2>1, PartialIs DEF Range
  <2> QED BY <2>1, <2>3, <2>4, <2>5
<1>3. ASSUME NEW p \in Consoles \X Consoles PROVE Range(link[p]) \subseteq Frames
  <2>1. link[p] \in Seq(Frames) BY <1>1 DEF TypeInv
  <2> QED BY <2>1 DEF Range
<1>4. \A S \in {joined, advertised, crashed, dropped, mixed} : S \subseteq Consoles
  BY <1>1, HostsAssumption DEF TypeInv
<1> QED BY <1>2, <1>3, <1>4 DEF TypeOK

\* What the invariant says of a host's books.
LEMMA BooksHold == NwmInv => HostBooksAgree
<1> SUFFICES ASSUME NwmInv PROVE HostBooksAgree OBVIOUS
<1>1. ASSUME NEW h \in Consoles, Running(h), IsHost(h), uds[h].max > 0, h \notin mixed
      PROVE  LET u == uds[h]
                 ids == {u.map[m].id : m \in Members(u.map)}
             IN /\ u.bits = {1} \cup ids /\ 1 \notin ids
                /\ u.total = Cardinality(u.bits)
                /\ \A m \in Members(u.map) : u.info[u.map[m].id] = m
                /\ DOMAIN u.info = u.bits
  <2>1. Counts(h) /\ HostOK(h) BY DEF NwmInv, ConsoleInv
  <2>2. Books(h) BY <1>1, <2>1 DEF HostOK
  <2>3. uds[h].max # 0 BY <1>1
  <2>4. uds[h].bits = DOMAIN uds[h].info /\ uds[h].total = Cardinality(uds[h].bits)
    BY <1>1, <2>1, <2>3 DEF Counts, IsHost
  <2>5. uds[h].init BY <1>1 DEF Running
  <2> QED BY <2>2, <2>4, <2>5 DEF Books
<1> QED BY <1>1, TypesHold DEF HostBooksAgree

\* What the invariant says of the places of consoles that have left.
LEMMA OwnersHold == NwmInv => SlotHasOwner
<1> SUFFICES ASSUME NwmInv, NEW h \in Consoles, Running(h), IsHost(h), h \notin mixed,
                    NEW c \in DOMAIN uds[h].map,
                    ~Belongs(c, h), c \notin dropped \cup crashed \cup mixed
             PROVE  Farewell(c, h)
  BY DEF SlotHasOwner, Belongs
<1>1. Counts(h) /\ HostOK(h) /\ TypeInv BY DEF NwmInv, ConsoleInv
<1>2. c \in Consoles
  <2>1. uds[h].map \in Partial(Consoles, Nodes) BY <1>1, ObjectIs
  <2> QED BY <2>1, PartialIs
<1>3. uds[h].max > 0 /\ h \in Hosts
  BY <1>1, ObjectIs, MaxNodesAssumption DEF Counts, HostOK, IsHost
<1>4. c # h BY <1>1, <1>3 DEF HostOK, Books
<1>5. FarewellOf(h, c) BY <1>2, <1>3, <1>4 DEF NwmInv, FarewellInv
<1>6. h \notin dropped
  <2>1. dropped \cap Hosts # {} => dropped = Consoles BY DEF NwmInv, RoomInv
  <2> QED BY <1>2, <1>3, <2>1
<1>7. Leaves(link[<<c, h>>], 0) \/ Handled(h, c, "deauth")
  BY <1>5, <1>6 DEF FarewellOf, Running
<1>8. Leaves(link[<<c, h>>], 0) => [type |-> "deauth"] \in Range(link[<<c, h>>])
  BY DEF Leaves, Range
<1> QED BY <1>7, <1>8 DEF Farewell, Handled

\* What the invariant says of the lists of the clients.
LEMMA ListsHold == NwmInv => ClientsKnowAllNodes
<1> SUFFICES ASSUME NwmInv, NEW h \in Consoles, NEW c \in Consoles,
                    Running(h), IsHost(h), Running(c), {h, c} \cap (dropped \cup mixed) = {},
                    uds[c].status \in ConnTypes, uds[c].host = h, Settled(h, c)
             PROVE  /\ uds[h].bits \subseteq uds[c].bits
                    /\ \A i \in uds[h].bits : uds[c].info[i] = uds[h].info[i]
  BY DEF ClientsKnowAllNodes
<1>1. c # h BY DEF IsHost, ConnTypes
<1>2. KnownOf(h, c) BY <1>1 DEF NwmInv, KnownInv
<1>3. LastLogoff(link[<<h, c>>], 0) BY DEF Settled, LastLogoff
<1>4. ~Handled(c, h, "logoff") BY Idle DEF Settled, Handled, Handling
<1>5. uds[h].bits \subseteq uds[c].bits /\ Covers(uds[c].info, h)
  BY <1>2, <1>3, <1>4 DEF KnownOf, Running
<1> QED BY <1>5 DEF Covers

LEMMA NwmInvariant == Spec => []NwmInv
BY NwmInit, NwmStep, PTL DEF Spec

\* On every host of one network node_map, node_bitmask, node_info and total_nodes
\* agree, and every field of every NWM_UDS object and every frame is in its range:
\* BeginHosting, HandleEAPoLPacket and HandleDeauthenticationFrame, whatever order
\* consoles join, spectate, leave and come back in.
THEOREM BooksAgree == Spec => []HostBooksAgree
BY NwmInvariant, BooksHold, PTL

\* A host keeps no place for a console that has left by DisconnectNetwork: its
\* deauthentication is on the way or being handled, however often it asked to be let in.
THEOREM SlotsHaveOwners == Spec => []SlotHasOwner
BY NwmInvariant, OwnersHold, PTL

\* A client that has taken everything its host has sent knows every node the host
\* does, although HandleEAPoLPacket tells it only when somebody joins and nobody
\* tells it when somebody leaves.
THEOREM NodesAreKnown == Spec => []ClientsKnowAllNodes
BY NwmInvariant, ListsHold, PTL

===============================================================================
