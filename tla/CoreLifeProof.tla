----------------------------- MODULE CoreLifeProof -----------------------------
(***************************************************************************)
(* The life of the core and the keyboard, for any bound on the dialogs.    *)
(*                                                                         *)
(* Blocks nest: a load may begin with an unload, which stops a game twice. *)
(* The argument does not list what `todo` can be.  It says which step may  *)
(* follow which (After), and what holds when a step comes first (NowInv):  *)
(* a step that is done hands its knowledge to the one that follows.        *)
(***************************************************************************)
EXTENDS Keyboard, SequenceTheorems, FiniteSetTheorems, TLAPS

\* The step that the main thread is at.
Now(s) == IF s = << >> THEN "idle" ELSE s[1]

\* What may follow a step in its block; "idle", the block is over.
After(name) ==
    CASE name = "core_unload_game" -> {"retro_deinit"}
      [] name = "cancelClosing" -> {"close"}
      [] name = "close" -> {"unloaded", "powerOff", "delete"}
      [] name = "unloaded" -> {"retro_deinit"}
      [] name = "retro_deinit" -> {"uninit_symbols"}
      [] name = "powerOff" -> {"cancelClosing"}
      [] name = "delete" -> {"uninit_symbols"}
      [] name = "uninit_symbols" -> {"init_symbols", "idle"}
      [] name = "init_symbols" -> {"retro_init"}
      [] name = "retro_init" -> {"retro_load_game"}
      [] name = "cancelReady" -> {"open"}
      [] name = "open" -> {"loaded"}
      [] name = "cancelLeaving" -> {"showLeaving"}
      [] name = "showLeaving" -> {"stopped", "idle"}
      [] name = "stopped" -> {"core_unload_game"}
      [] name = "accept" -> {"showJoining"}
      [] name = "showJoining" -> {"start"}
      [] name = "start" -> {"resetControls"}
      [] OTHER -> {"idle"}

\* Steps that may follow each other, and a block, which may end where it does.
Linked(s) ==
    /\ s \in Seq(Steps) /\ s # << >>
    /\ \A i \in 1..Len(s) - 1 : s[i + 1] \in After(s[i])

Chained(s) == s = << >> \/ (Linked(s) /\ "idle" \in After(s[Len(s)]))

\* The steps that make up a load, from the library on.
Loading == {"retro_load_game", "context_reset", "System::Load", "cancelReady", "open", "loaded"}

\* The library, the core's object and what the room needs of them.
ObjectInv ==
    /\ inited \/ gameFlag => handle
    /\ instance => inited
    /\ gameFlag => inited
    /\ inited => instance \/ Now(todo) = "uninit_symbols"
    /\ ~instance => ~busy /\ ~open /\ shown = "OFFLINE" /\ ~gameLoaded

\* The room: JOINING is a worker's or the one of a join under way.
SessionInv ==
    /\ shown = "JOINING" => busy \/ Now(todo) = "start"
    /\ shown \in {"JOINING", "JOINED"} =>
         controls = {} \/ Now(todo) \in {"start", "resetControls"}
    /\ shown = "JOINING" /\ screen = "hidden" =>
         Now(todo) \in {"cancelLeaving", "showLeaving"}

\* What holds when a step is next.
NowInv ==
    /\ Now(todo) = "delete" => ~busy /\ ~open /\ shown = "OFFLINE"
    /\ Now(todo) = "uninit_symbols" => ~instance
    /\ Now(todo) = "retro_init" => handle /\ ~instance
    /\ Now(todo) \in Loading => instance
    /\ Now(todo) = "retro_load_game" => ~gameLoaded
    /\ Now(todo) = "System::Load" => ~(gameLoaded /\ powered)
    /\ Now(todo) \in {"cancelReady", "open", "loaded"} => powered
    /\ Now(todo) = "retro_reset" => gameFlag
    /\ Now(todo) \in {"accept", "showJoining", "start", "resetControls"} => screen # "hidden"
    /\ Now(todo) = "init_symbols" => ~instance

\* A frame may follow.
FrameInv ==
    gameLoaded => powered \/ Now(todo) \in
        {"unloaded", "retro_deinit", "cancelClosing", "close", "powerOff", "delete",
         "System::Load"}

LifeInv ==
    /\ LifeTypeOK /\ Chained(todo)
    /\ ObjectInv /\ SessionInv /\ NowInv /\ FrameInv

-------------------------------------------------------------------------------
(* Blocks. *)

\* A block is a sequence of steps.
LEMMA ChainedSeq == ASSUME NEW s, Chained(s) PROVE s \in Seq(Steps)
BY EmptySeq DEF Chained, Linked

\* The rest of a block is a block, and begins with what may follow.
LEMMA Pops ==
    ASSUME NEW s, Chained(s), s # << >>
    PROVE  /\ Head(s) = Now(s) /\ Now(s) \in Steps
           /\ Chained(Tail(s)) /\ Now(Tail(s)) \in After(Now(s))
           /\ Len(Tail(s)) = Len(s) - 1
           /\ \A i \in 1..Len(Tail(s)) : Tail(s)[i] = s[i + 1]
<1>1. s \in Seq(Steps) /\ Linked(s) BY DEF Chained, Linked
<1>2. /\ Head(s) \in Steps /\ Tail(s) \in Seq(Steps)
      /\ Len(Tail(s)) = Len(s) - 1
      /\ \A i \in 1..Len(Tail(s)) : Tail(s)[i] = s[i + 1]
  BY <1>1, HeadTailProperties
<1>3. Len(s) \in Nat \ {0} BY <1>1, EmptySeq
<1>4. Head(s) = s[1] BY <1>1
<1>5. Len(Tail(s)) \in Nat /\ (Tail(s) # << >> => Len(s) > 1) BY <1>2, <1>3, EmptySeq
<1>6. ASSUME NEW i \in 1..Len(Tail(s)) - 1 PROVE Tail(s)[i + 1] \in After(Tail(s)[i])
  <2>1. Tail(s)[i] = s[i + 1] /\ Tail(s)[i + 1] = s[(i + 1) + 1] BY <1>2, <1>5
  <2>2. i + 1 \in 1..Len(s) - 1 BY <1>2, <1>3, <1>5
  <2> QED BY <1>1, <2>1, <2>2 DEF Linked
<1>7. Tail(s) # << >> => "idle" \in After(Tail(s)[Len(Tail(s))])
  <2>1. Tail(s) # << >> => Tail(s)[Len(Tail(s))] = s[Len(s)] BY <1>2, <1>3, <1>5
  <2> QED BY <2>1 DEF Chained
<1>8. Now(Tail(s)) \in After(s[1])
  <2>1. CASE Tail(s) = << >>
    <3>1. Len(Tail(s)) = 0 BY <2>1, EmptySeq
    <3>2. Len(s) = 1 BY <3>1, <1>2, <1>3
    <3> QED BY <2>1, <3>2 DEF Chained, Now
  <2>2. CASE Tail(s) # << >>
    <3>1. 1 \in 1..Len(s) - 1 /\ Tail(s)[1] = s[1 + 1] BY <2>2, <1>2, <1>3, <1>5
    <3> QED BY <1>1, <2>2, <3>1 DEF Linked, Now
  <2> QED BY <2>1, <2>2
<1>9. Chained(Tail(s)) BY <1>2, <1>6, <1>7 DEF Linked, Chained
<1> QED BY <1>2, <1>4, <1>8, <1>9 DEF Now

\* Steps put before steps.
LEMMA Joined ==
    ASSUME NEW p, Linked(p), NEW s, Linked(s), s[1] \in After(p[Len(p)])
    PROVE  /\ Linked(p \o s) /\ (p \o s)[1] = p[1]
           /\ (p \o s)[Len(p \o s)] = s[Len(s)]
<1>1. p \in Seq(Steps) /\ s \in Seq(Steps) /\ p # << >> /\ s # << >> BY DEF Linked
<1>2. /\ p \o s \in Seq(Steps) /\ Len(p \o s) = Len(p) + Len(s)
      /\ \A i \in 1..Len(p) + Len(s) :
           (p \o s)[i] = IF i <= Len(p) THEN p[i] ELSE s[i - Len(p)]
  BY <1>1, ConcatProperties
<1>3. Len(p) \in Nat \ {0} /\ Len(s) \in Nat \ {0} BY <1>1, EmptySeq
<1>4. p \o s # << >> BY <1>2, <1>3, EmptySeq
<1>5. (p \o s)[1] = p[1] /\ (p \o s)[Len(p \o s)] = s[Len(s)] BY <1>2, <1>3
<1>6. ASSUME NEW i \in 1..Len(p \o s) - 1 PROVE (p \o s)[i + 1] \in After((p \o s)[i])
  <2>1. CASE i < Len(p)
    <3>1. (p \o s)[i] = p[i] /\ (p \o s)[i + 1] = p[i + 1] BY <2>1, <1>2, <1>3, <1>6
    <3>2. p[i + 1] \in After(p[i]) BY <2>1, <1>3, <1>6 DEF Linked
    <3> QED BY <3>1, <3>2
  <2>2. CASE i = Len(p)
    <3>1. (p \o s)[i] = p[Len(p)] /\ (p \o s)[i + 1] = s[1] BY <2>2, <1>2, <1>3, <1>6
    <3> QED BY <3>1
  <2>3. CASE i > Len(p)
    <3>0. i - Len(p) \in 1..Len(s) - 1 /\ i = Len(p) + (i - Len(p)) BY <2>3, <1>2, <1>3, <1>6
    <3>1. PICK j \in 1..Len(s) - 1 : i = Len(p) + j BY <3>0
    <3>2. (p \o s)[i] = s[j] BY <3>1, <1>2, <1>3
    <3>3. (p \o s)[i + 1] = s[j + 1] BY <3>1, <1>2, <1>3
    <3>4. s[j + 1] \in After(s[j]) BY <3>1 DEF Linked
    <3> QED BY <3>2, <3>3, <3>4
  <2> QED BY <2>1, <2>2, <2>3, <1>2, <1>3, <1>6
<1> QED BY <1>2, <1>4, <1>5, <1>6 DEF Linked

\* Steps put before a block.
LEMMA Prefixed ==
    ASSUME NEW p, Linked(p), NEW s, Chained(s), Now(s) \in After(p[Len(p)])
    PROVE  Chained(p \o s) /\ Now(p \o s) = p[1]
<1>1. CASE s = << >>
  <2>1. p \o s = p BY <1>1, ConcatEmptySeq DEF Linked
  <2> QED BY <1>1, <2>1 DEF Linked, Chained, Now
<1>2. CASE s # << >>
  <2>1. Linked(s) /\ "idle" \in After(s[Len(s)]) /\ Now(s) = s[1] BY <1>2 DEF Chained, Now
  <2>2. /\ Linked(p \o s) /\ (p \o s)[1] = p[1]
        /\ (p \o s)[Len(p \o s)] = s[Len(s)]
    BY <2>1, Joined
  <2> QED BY <2>1, <2>2 DEF Linked, Chained, Now
<1> QED BY <1>1, <1>2

\* Short pieces.
LEMMA One ==
    ASSUME NEW a \in Steps
    PROVE  Linked(<<a>>) /\ <<a>>[1] = a /\ <<a>>[Len(<<a>>)] = a
<1>1. <<a>> \in Seq(Steps) /\ <<a>> # << >> /\ Len(<<a>>) = 1 /\ <<a>>[1] = a OBVIOUS
<1>2. \A i \in 1..Len(<<a>>) - 1 : FALSE BY <1>1
<1> QED BY <1>1, <1>2 DEF Linked

LEMMA Two ==
    ASSUME NEW a \in Steps, NEW b \in Steps, b \in After(a)
    PROVE  Linked(<<a, b>>) /\ <<a, b>>[1] = a /\ <<a, b>>[Len(<<a, b>>)] = b
<1> DEFINE p == <<a, b>>
<1>1. p \in Seq(Steps) /\ p # << >> /\ Len(p) = 2 /\ p[1] = a /\ p[2] = b OBVIOUS
<1> HIDE DEF p
<1>2. \A i \in 1..Len(p) - 1 : i = 1 /\ i + 1 = 2 BY <1>1
<1>3. Linked(p) /\ p[1] = a /\ p[Len(p)] = b BY <1>1, <1>2 DEF Linked
<1> QED BY <1>3 DEF p

LEMMA Three ==
    ASSUME NEW a \in Steps, NEW b \in Steps, NEW c \in Steps, b \in After(a), c \in After(b)
    PROVE  Linked(<<a, b, c>>) /\ <<a, b, c>>[1] = a /\ <<a, b, c>>[Len(<<a, b, c>>)] = c
<1> DEFINE p == <<a, b, c>>
<1>1. p \in Seq(Steps) /\ p # << >> /\ Len(p) = 3 /\ p[1] = a /\ p[2] = b /\ p[3] = c OBVIOUS
<1> HIDE DEF p
<1>2. \A i \in 1..Len(p) - 1 : (i = 1 /\ i + 1 = 2) \/ (i = 2 /\ i + 1 = 3) BY <1>1
<1>3. Linked(p) /\ p[1] = a /\ p[Len(p)] = c BY <1>1, <1>2 DEF Linked
<1> QED BY <1>3 DEF p

LEMMA Four ==
    ASSUME NEW a \in Steps, NEW b \in Steps, NEW c \in Steps, NEW d \in Steps,
           b \in After(a), c \in After(b), d \in After(c)
    PROVE  /\ Linked(<<a, b, c, d>>) /\ <<a, b, c, d>>[1] = a
           /\ <<a, b, c, d>>[Len(<<a, b, c, d>>)] = d
<1> DEFINE p == <<a, b, c, d>>
<1>1. /\ p \in Seq(Steps) /\ p # << >> /\ Len(p) = 4
      /\ p[1] = a /\ p[2] = b /\ p[3] = c /\ p[4] = d
  OBVIOUS
<1> HIDE DEF p
<1>2. \A i \in 1..Len(p) - 1 :
        (i = 1 /\ i + 1 = 2) \/ (i = 2 /\ i + 1 = 3) \/ (i = 3 /\ i + 1 = 4)
  BY <1>1
<1>3. Linked(p) /\ p[1] = a /\ p[Len(p)] = d BY <1>1, <1>2 DEF Linked
<1> QED BY <1>3 DEF p

\* The empty block, and a block that ends with these steps.
LEMMA Over == Chained(<< >>) /\ Now(<< >>) = "idle"
BY DEF Chained, Now

LEMMA Whole ==
    ASSUME NEW p, Linked(p), "idle" \in After(p[Len(p)])
    PROVE  Chained(p) /\ Now(p) = p[1]
BY DEF Chained, Now, Linked

\* What follows what, as the blocks need it.
LEMMA AfterFacts ==
    /\ "close" \in After("cancelClosing") /\ "unloaded" \in After("close")
    /\ "delete" \in After("close") /\ "powerOff" \in After("close")
    /\ "retro_deinit" \in After("unloaded") /\ "retro_deinit" \in After("core_unload_game")
    /\ "uninit_symbols" \in After("retro_deinit") /\ "uninit_symbols" \in After("delete")
    /\ "cancelClosing" \in After("powerOff")
    /\ "init_symbols" \in After("uninit_symbols") /\ "idle" \in After("uninit_symbols")
    /\ "retro_init" \in After("init_symbols") /\ "retro_load_game" \in After("retro_init")
    /\ "idle" \in After("retro_load_game") /\ "idle" \in After("System::Load")
    /\ "idle" \in After("context_reset") /\ "idle" \in After("loaded")
    /\ "idle" \in After("retro_reset")
    /\ "open" \in After("cancelReady") /\ "loaded" \in After("open")
    /\ "showLeaving" \in After("cancelLeaving") /\ "stopped" \in After("showLeaving")
    /\ "idle" \in After("showLeaving") /\ "core_unload_game" \in After("stopped")
    /\ "showJoining" \in After("accept") /\ "start" \in After("showJoining")
    /\ "resetControls" \in After("start") /\ "idle" \in After("resetControls")
BY DEF After

\* The pieces that the code puts together.
LEMMA Pieces ==
    /\ Linked(GameStopped) /\ GameStopped[1] = "cancelClosing"
    /\ GameStopped[Len(GameStopped)] = "close"
    /\ Linked(GameStopped \o <<"unloaded">>)
    /\ (GameStopped \o <<"unloaded">>)[1] = "cancelClosing"
    /\ (GameStopped \o <<"unloaded">>)[Len(GameStopped \o <<"unloaded">>)] = "unloaded"
    /\ Linked(runloop_event_deinit_core) /\ runloop_event_deinit_core[1] = "core_unload_game"
    /\ runloop_event_deinit_core[Len(runloop_event_deinit_core)] = "uninit_symbols"
    /\ Linked(runloop_event_init_core) /\ runloop_event_init_core[1] = "init_symbols"
    /\ runloop_event_init_core[Len(runloop_event_init_core)] = "retro_load_game"
    /\ Linked(joinAzaharRoom) /\ joinAzaharRoom[1] = "accept"
    /\ joinAzaharRoom[Len(joinAzaharRoom)] = "resetControls"
<1>s. \A a \in {"cancelClosing", "close", "unloaded", "core_unload_game", "retro_deinit",
                "uninit_symbols", "init_symbols", "retro_init", "retro_load_game",
                "accept", "showJoining", "start", "resetControls"} : a \in Steps
  BY DEF Steps
<1>1. /\ Linked(GameStopped) /\ GameStopped[1] = "cancelClosing"
      /\ GameStopped[Len(GameStopped)] = "close"
  BY <1>s, Two, AfterFacts DEF GameStopped
<1>2. /\ Linked(GameStopped \o <<"unloaded">>)
      /\ (GameStopped \o <<"unloaded">>)[1] = "cancelClosing"
      /\ (GameStopped \o <<"unloaded">>)[Len(GameStopped \o <<"unloaded">>)] = "unloaded"
  <2> DEFINE q == <<"unloaded">>
  <2>1. Linked(q) /\ q[1] = "unloaded" /\ q[Len(q)] = "unloaded" BY <1>s, One
  <2> HIDE DEF q
  <2>2. q[1] \in After(GameStopped[Len(GameStopped)]) BY <1>1, <2>1, AfterFacts
  <2>3. /\ Linked(GameStopped \o q) /\ (GameStopped \o q)[1] = "cancelClosing"
        /\ (GameStopped \o q)[Len(GameStopped \o q)] = "unloaded"
    BY <1>1, <2>1, <2>2, Joined
  <2> QED BY <2>3 DEF q
<1>3. /\ Linked(runloop_event_deinit_core) /\ runloop_event_deinit_core[1] = "core_unload_game"
      /\ runloop_event_deinit_core[Len(runloop_event_deinit_core)] = "uninit_symbols"
  BY <1>s, Three, AfterFacts DEF runloop_event_deinit_core
<1>4. /\ Linked(runloop_event_init_core) /\ runloop_event_init_core[1] = "init_symbols"
      /\ runloop_event_init_core[Len(runloop_event_init_core)] = "retro_load_game"
  BY <1>s, Three, AfterFacts DEF runloop_event_init_core
<1>5. /\ Linked(joinAzaharRoom) /\ joinAzaharRoom[1] = "accept"
      /\ joinAzaharRoom[Len(joinAzaharRoom)] = "resetControls"
  BY <1>s, Four, AfterFacts DEF joinAzaharRoom
<1> QED BY <1>1, <1>2, <1>3, <1>4, <1>5

\* retro_deinit stops the game twice.
Deinit == GameStopped \o <<"powerOff">> \o GameStopped \o <<"delete">>

LEMMA Twice ==
    Linked(Deinit) /\ Deinit[1] = "cancelClosing" /\ Deinit[Len(Deinit)] = "delete"
<1> DEFINE g == GameStopped
           a == <<"powerOff">>
           b == <<"delete">>
           ga == g \o a
           gag == ga \o g
           d == gag \o b
<1>1. Linked(g) /\ g[1] = "cancelClosing" /\ g[Len(g)] = "close" BY Pieces
<1>2. Linked(a) /\ a[1] = "powerOff" /\ a[Len(a)] = "powerOff" BY One DEF Steps
<1>3. Linked(b) /\ b[1] = "delete" /\ b[Len(b)] = "delete" BY One DEF Steps
<1> HIDE DEF g, a, b
<1>4. Linked(ga) /\ ga[1] = "cancelClosing" /\ ga[Len(ga)] = "powerOff"
  BY <1>1, <1>2, AfterFacts, Joined
<1> HIDE DEF ga
<1>5. Linked(gag) /\ gag[1] = "cancelClosing" /\ gag[Len(gag)] = "close"
  BY <1>1, <1>4, AfterFacts, Joined
<1> HIDE DEF gag
<1>6. Linked(d) /\ d[1] = "cancelClosing" /\ d[Len(d)] = "delete"
  BY <1>3, <1>5, AfterFacts, Joined
<1> QED BY <1>6 DEF d, gag, ga, g, a, b, Deinit

\* GameReady before the rest of a load.
LEMMA Readying ==
    /\ Linked(GameReady \o <<"loaded">>)
    /\ (GameReady \o <<"loaded">>)[1] \in {"cancelReady", "loaded"}
    /\ (GameReady \o <<"loaded">>)[Len(GameReady \o <<"loaded">>)] = "loaded"
<1> DEFINE q == <<"loaded">>
           r == <<"cancelReady", "open">>
<1>1. Linked(q) /\ q[1] = "loaded" /\ q[Len(q)] = "loaded" BY One DEF Steps
<1>2. "cancelReady" \in Steps /\ "open" \in Steps BY DEF Steps
<1>3. Linked(r) /\ r[1] = "cancelReady" /\ r[Len(r)] = "open" BY <1>2, Two, AfterFacts
<1>4. CASE bridge
  <2>1. GameReady = r BY <1>4 DEF GameReady
  <2> HIDE DEF q, r
  <2>2. q[1] \in After(r[Len(r)]) BY <1>1, <1>3, AfterFacts
  <2>3. /\ Linked(r \o q) /\ (r \o q)[1] = "cancelReady"
        /\ (r \o q)[Len(r \o q)] = "loaded"
    BY <1>1, <1>3, <2>2, Joined
  <2> QED BY <2>1, <2>3 DEF q
<1>5. CASE ~bridge
  <2>1. GameReady = << >> BY <1>5 DEF GameReady
  <2>2. q \in Seq(Steps) BY <1>1 DEF Linked
  <2> HIDE DEF q
  <2>3. << >> \o q = q BY <2>2, ConcatEmptySeq
  <2>4. /\ Linked(<< >> \o q) /\ (<< >> \o q)[1] = "loaded"
        /\ (<< >> \o q)[Len(<< >> \o q)] = "loaded"
    BY <1>1, <2>3
  <2> QED BY <2>1, <2>4 DEF q
<1> QED BY <1>4, <1>5

\* The blocks that the code goes on with.
LEMMA Blocks ==
    ASSUME NEW s, Chained(s)
    PROVE  /\ Chained(<< >> \o s) /\ Now(<< >> \o s) = Now(s)
           /\ Now(s) = "retro_deinit" =>
                /\ Chained((GameStopped \o <<"unloaded">>) \o s)
                /\ Now((GameStopped \o <<"unloaded">>) \o s) = "cancelClosing"
           /\ Now(s) = "uninit_symbols" =>
                Chained(Deinit \o s) /\ Now(Deinit \o s) = "cancelClosing"
           /\ Now(s) \in {"init_symbols", "idle"} =>
                /\ Chained(runloop_event_deinit_core \o s)
                /\ Now(runloop_event_deinit_core \o s) = "core_unload_game"
           /\ Now(s) = "idle" =>
                /\ Chained(<<"System::Load">> \o s)
                /\ Now(<<"System::Load">> \o s) = "System::Load"
                /\ Chained(<<"context_reset">> \o s)
                /\ Now(<<"context_reset">> \o s) = "context_reset"
                /\ Chained((GameReady \o <<"loaded">>) \o s)
                /\ Now((GameReady \o <<"loaded">>) \o s) \in {"cancelReady", "loaded"}
<1>0. s \in Seq(Steps) BY ChainedSeq
<1>1. << >> \o s = s BY <1>0, ConcatEmptySeq
<1>2. ASSUME Now(s) = "retro_deinit"
      PROVE  /\ Chained((GameStopped \o <<"unloaded">>) \o s)
             /\ Now((GameStopped \o <<"unloaded">>) \o s) = "cancelClosing"
  <2> DEFINE p == GameStopped \o <<"unloaded">>
  <2>1. Linked(p) /\ p[1] = "cancelClosing" /\ p[Len(p)] = "unloaded" BY Pieces
  <2> HIDE DEF p
  <2>2. Chained(p \o s) /\ Now(p \o s) = "cancelClosing" BY <1>2, <2>1, AfterFacts, Prefixed
  <2> QED BY <2>2 DEF p
<1>3. ASSUME Now(s) = "uninit_symbols"
      PROVE  Chained(Deinit \o s) /\ Now(Deinit \o s) = "cancelClosing"
  BY <1>3, Twice, AfterFacts, Prefixed
<1>4. ASSUME Now(s) \in {"init_symbols", "idle"}
      PROVE  /\ Chained(runloop_event_deinit_core \o s)
             /\ Now(runloop_event_deinit_core \o s) = "core_unload_game"
  <2>1. Now(s) \in After("uninit_symbols") BY <1>4, AfterFacts
  <2> QED BY <2>1, Pieces, Prefixed
<1>5. ASSUME Now(s) = "idle"
      PROVE  /\ Chained(<<"System::Load">> \o s)
             /\ Now(<<"System::Load">> \o s) = "System::Load"
             /\ Chained(<<"context_reset">> \o s)
             /\ Now(<<"context_reset">> \o s) = "context_reset"
             /\ Chained((GameReady \o <<"loaded">>) \o s)
             /\ Now((GameReady \o <<"loaded">>) \o s) \in {"cancelReady", "loaded"}
  <2> DEFINE l == <<"System::Load">>
             c == <<"context_reset">>
             r == GameReady \o <<"loaded">>
  <2>1. Linked(l) /\ l[1] = "System::Load" /\ l[Len(l)] = "System::Load" BY One DEF Steps
  <2>2. Linked(c) /\ c[1] = "context_reset" /\ c[Len(c)] = "context_reset" BY One DEF Steps
  <2>3. Linked(r) /\ r[1] \in {"cancelReady", "loaded"} /\ r[Len(r)] = "loaded" BY Readying
  <2> HIDE DEF l, c, r
  <2>4. Chained(l \o s) /\ Now(l \o s) = "System::Load" BY <1>5, <2>1, AfterFacts, Prefixed
  <2>5. Chained(c \o s) /\ Now(c \o s) = "context_reset" BY <1>5, <2>2, AfterFacts, Prefixed
  <2>6. Chained(r \o s) /\ Now(r \o s) \in {"cancelReady", "loaded"}
    BY <1>5, <2>3, AfterFacts, Prefixed
  <2> QED BY <2>4, <2>5, <2>6 DEF l, c, r
<1> QED BY <1>1, <1>2, <1>3, <1>4, <1>5

\* The blocks that the code begins.
LEMMA Beginnings ==
    /\ Chained((IF handle THEN runloop_event_deinit_core ELSE << >>) \o runloop_event_init_core)
    /\ Now((IF handle THEN runloop_event_deinit_core ELSE << >>) \o runloop_event_init_core)
         = IF handle THEN "core_unload_game" ELSE "init_symbols"
    /\ Chained(leaveAzaharRoom \o <<"stopped">> \o runloop_event_deinit_core)
    /\ Now(leaveAzaharRoom \o <<"stopped">> \o runloop_event_deinit_core)
         = IF handle THEN "cancelLeaving" ELSE "stopped"
    /\ Chained(leaveAzaharRoom)
    /\ Now(leaveAzaharRoom) = IF handle THEN "cancelLeaving" ELSE "idle"
    /\ Chained(<<"retro_reset">>) /\ Now(<<"retro_reset">>) = "retro_reset"
    /\ Chained(<<"context_reset">>) /\ Now(<<"context_reset">>) = "context_reset"
    /\ Chained(joinAzaharRoom) /\ Now(joinAzaharRoom) = "accept"
    /\ Chained(runloop_event_deinit_core)
    /\ Now(runloop_event_deinit_core) = "core_unload_game"
<1> DEFINE D == runloop_event_deinit_core
           I == runloop_event_init_core
           L == <<"cancelLeaving", "showLeaving">>
           S == <<"stopped">>
           R == <<"retro_reset">>
           C == <<"context_reset">>
<1>1. Linked(R) /\ R[1] = "retro_reset" /\ R[Len(R)] = "retro_reset" BY One DEF Steps
<1>2. Linked(C) /\ C[1] = "context_reset" /\ C[Len(C)] = "context_reset" BY One DEF Steps
<1>3. Linked(S) /\ S[1] = "stopped" /\ S[Len(S)] = "stopped" BY One DEF Steps
<1>4. "cancelLeaving" \in Steps /\ "showLeaving" \in Steps BY DEF Steps
<1>5. Linked(L) /\ L[1] = "cancelLeaving" /\ L[Len(L)] = "showLeaving"
  BY <1>4, Two, AfterFacts
<1>6. leaveAzaharRoom = IF handle THEN L ELSE << >> BY DEF leaveAzaharRoom
<1> HIDE DEF L, S, R, C
<1>7. Chained(R) /\ Now(R) = "retro_reset" BY <1>1, AfterFacts, Whole
<1>8. Chained(C) /\ Now(C) = "context_reset" BY <1>2, AfterFacts, Whole
<1>9. Chained(L) /\ Now(L) = "cancelLeaving" BY <1>5, AfterFacts, Whole
<1>10. Chained(D) /\ Now(D) = "core_unload_game" BY Pieces, AfterFacts, Whole
<1>11. Chained(I) /\ Now(I) = "init_symbols" BY Pieces, AfterFacts, Whole
<1>12. Chained(joinAzaharRoom) /\ Now(joinAzaharRoom) = "accept" BY Pieces, AfterFacts, Whole
<1>13. Chained(D \o I) /\ Now(D \o I) = "core_unload_game" BY <1>11, Blocks
<1>14. Chained(S \o D) /\ Now(S \o D) = "stopped" BY <1>3, <1>10, AfterFacts, Prefixed
<1>15. Linked(L \o S) /\ (L \o S)[1] = "cancelLeaving" /\ (L \o S)[Len(L \o S)] = "stopped"
  BY <1>3, <1>5, AfterFacts, Joined
<1>16. Chained((L \o S) \o D) /\ Now((L \o S) \o D) = "cancelLeaving"
  <2> DEFINE p == L \o S
  <2>1. Linked(p) /\ p[1] = "cancelLeaving" /\ p[Len(p)] = "stopped" BY <1>15
  <2> HIDE DEF p
  <2>2. Chained(p \o D) /\ Now(p \o D) = "cancelLeaving" BY <1>10, <2>1, AfterFacts, Prefixed
  <2> QED BY <2>2 DEF p
<1>17. << >> \o S = S /\ << >> \o I = I
  BY <1>3, <1>11, ChainedSeq, ConcatEmptySeq DEF Linked
<1> HIDE DEF D, I
<1>a. CASE handle
  BY <1>a, <1>6, <1>7, <1>8, <1>9, <1>10, <1>12, <1>13, <1>16 DEF D, I, R, C, S
<1>b. CASE ~handle
  BY <1>b, <1>6, <1>7, <1>8, <1>10, <1>11, <1>12, <1>14, <1>17, Over DEF D, I, R, C, S
<1> QED BY <1>a, <1>b

-------------------------------------------------------------------------------
(* The life of the core. *)

\* The flags, one by one.
Flags ==
    /\ open \in BOOLEAN /\ busy \in BOOLEAN /\ cancelled \in BOOLEAN
    /\ experiment \in BOOLEAN /\ running \in BOOLEAN /\ handle \in BOOLEAN
    /\ inited \in BOOLEAN /\ gameFlag \in BOOLEAN /\ instance \in BOOLEAN
    /\ gameLoaded \in BOOLEAN /\ powered \in BOOLEAN /\ bridge \in BOOLEAN

LEMMA Types ==
    LifeTypeOK <=>
        /\ shown \in ShownStates /\ Flags
        /\ renderer \in Renderers /\ todo \in Seq(Steps) /\ controls \subseteq Controls
        /\ screen \in ShownStates \cup {"hidden", "unsupported"}
        /\ inited \/ gameFlag => handle
BY DEF LifeTypeOK, Flags

\* A step is done: the next one is at hand.
LEMMA Advance ==
    ASSUME Chained(todo), NEW name, Step(name)
    PROVE  /\ Now(todo) = name /\ Chained(Tail(todo)) /\ Now(Tail(todo)) \in After(name)
           /\ << >> \o Tail(todo) = Tail(todo)
<1>1. todo # << >> /\ Head(todo) = name BY DEF Step, Idle
<1>2. /\ Now(todo) = name /\ Chained(Tail(todo)) /\ Now(Tail(todo)) \in After(name)
  BY <1>1, Pops
<1>3. << >> \o Tail(todo) = Tail(todo) BY <1>2, ChainedSeq, ConcatEmptySeq
<1> QED BY <1>2, <1>3

\* The type of `todo` is part of being a block.
LEMMA Assembled ==
    ASSUME Chained(todo)', (shown \in ShownStates /\ Flags)', (renderer \in Renderers)',
           (controls \subseteq Controls)', (screen \in ShownStates \cup {"hidden", "unsupported"})',
           ObjectInv', SessionInv', NowInv', FrameInv'
    PROVE  LifeInv'
<1>1. todo' \in Seq(Steps) BY ChainedSeq
<1>2. LifeTypeOK' BY <1>1 DEF LifeTypeOK, Flags, ObjectInv
<1> QED BY <1>2 DEF LifeInv

\* No block is under way when the app starts.
LEMMA InitLife == LifeInit => LifeInv
<1> SUFFICES ASSUME LifeInit PROVE LifeInv OBVIOUS
<1> USE DEF LifeInit, ApiInit
<1>1. Chained(todo) /\ Now(todo) = "idle" /\ todo \in Seq(Steps) BY Over, EmptySeq
<1>2. Flags BY ExperimentsAssumption DEF Flags
<1>3. LifeTypeOK BY <1>1, <1>2, Types DEF ShownStates, Controls
<1> QED BY <1>1, <1>3 DEF LifeInv, ObjectInv, SessionInv, NowInv, FrameInv, Loading

\* The worker may not end a session that has no object, and shows no joining.
LEMMA RoomStepLife == ASSUME LifeInv, RoomStep PROVE LifeInv'
<1> USE DEF RoomStep, ShowJoined, ShowIdle, End, build, loopVars, coreVars, viewVars
<1>t. shown \in ShownStates /\ Flags /\ LifeTypeOK BY Types DEF LifeInv
<1>0. Chained(todo)' /\ Now(todo)' = Now(todo) BY DEF LifeInv
<1>1. (shown \in ShownStates /\ Flags)'
  <2>1. busy' \in BOOLEAN BY <1>t DEF Flags
  <2>2. shown' \in ShownStates BY <1>t DEF ShownStates
  <2> QED BY <1>t, <2>1, <2>2 DEF Flags
<1>2. ObjectInv' BY <1>0 DEF LifeInv, ObjectInv
<1>3. SessionInv' BY <1>0 DEF LifeInv, SessionInv
<1>4. NowInv' BY <1>0 DEF LifeInv, NowInv, ObjectInv
<1>5. FrameInv' BY <1>0 DEF LifeInv, FrameInv
<1> QED BY <1>t, <1>0, <1>1, <1>2, <1>3, <1>4, <1>5, Assembled, Types

\* What the core and the frontend ask of the bridge.
LEMMA RoomCallsLife ==
    ASSUME LifeInv, RoomCancel \/ RoomWaited \/ RoomShowLeaving
    PROVE  LifeInv'
<1> USE DEF Continue, build, loopVars, coreVars, viewVars, apiVars
<1>t. shown \in ShownStates /\ Flags /\ LifeTypeOK /\ Chained(todo) BY Types DEF LifeInv
<1>1. CASE RoomCancel
  <2>1. PICK name \in {"cancelClosing", "cancelReady", "cancelLeaving"} : Step(name)
    BY <1>1 DEF RoomCancel
  <2>2. /\ Now(todo) = name /\ Chained(todo)' /\ Now(todo)' \in After(name)
    BY <1>1, <1>t, <2>1, Advance DEF RoomCancel
  <2>3. /\ UNCHANGED <<shown, busy, build, loopVars, coreVars, viewVars>>
        /\ cancelled' = TRUE /\ (open' = open \/ open' = FALSE)
    BY <1>1 DEF RoomCancel, Cancel
  <2>4. (shown \in ShownStates /\ Flags)'
    <3>1. open' \in BOOLEAN BY <1>t, <2>3 DEF Flags
    <3> QED BY <1>t, <2>3, <3>1 DEF Flags
  <2>5. ObjectInv' BY <2>2, <2>3, <2>1 DEF LifeInv, ObjectInv, After
  <2>6. SessionInv' BY <2>2, <2>3, <2>1 DEF LifeInv, SessionInv, After
  <2>7. NowInv' BY <2>2, <2>3, <2>1 DEF LifeInv, NowInv, After, Loading
  <2>8. FrameInv' BY <2>2, <2>3, <2>1 DEF LifeInv, FrameInv, NowInv, After
  <2> QED BY <1>t, <2>2, <2>3, <2>4, <2>5, <2>6, <2>7, <2>8, Assembled, Types
<1>2. CASE RoomWaited
  <2>1. PICK name \in {"close", "open"} :
          /\ Step(name) /\ ~busy /\ UNCHANGED <<busy, cancelled>>
          /\ name = "close" => ~open /\ shown' = "OFFLINE" /\ ~open'
          /\ name = "open" => shown' = "IDLE" /\ open' = TRUE
    BY <1>2 DEF RoomWaited, Close, Open
  <2>2. /\ Now(todo) = name /\ Chained(todo)' /\ Now(todo)' \in After(name)
    BY <1>2, <1>t, <2>1, Advance DEF RoomWaited
  <2>3. UNCHANGED <<build, loopVars, coreVars, viewVars>> BY <1>2 DEF RoomWaited
  <2>4. (shown \in ShownStates /\ Flags)'
    BY <1>2, <1>t, <2>3 DEF Flags, ShownStates, RoomWaited, Close, Open
  <2>5. ObjectInv' BY <2>1, <2>2, <2>3 DEF LifeInv, ObjectInv, NowInv, After, Loading
  <2>6. SessionInv' BY <2>2, <2>3, <2>1 DEF LifeInv, SessionInv, After
  <2>7. NowInv' BY <2>2, <2>3, <2>1 DEF LifeInv, NowInv, After, Loading
  <2>8. FrameInv' BY <2>2, <2>3, <2>1 DEF LifeInv, FrameInv, NowInv, After
  <2> QED BY <1>t, <2>2, <2>3, <2>4, <2>5, <2>6, <2>7, <2>8, Assembled, Types
<1>3. CASE RoomShowLeaving
  <2>1. Step("showLeaving") BY <1>3 DEF RoomShowLeaving
  <2>2. /\ Now(todo) = "showLeaving" /\ Chained(todo)' /\ Now(todo)' \in After("showLeaving")
    BY <1>3, <1>t, <2>1, Advance DEF RoomShowLeaving
  <2>3. /\ UNCHANGED <<open, busy, cancelled, build, loopVars, coreVars, viewVars>>
        /\ shown' = IF busy THEN "LEAVING" ELSE shown
    BY <1>3 DEF RoomShowLeaving, ShowLeaving
  <2>4. (shown \in ShownStates /\ Flags)' BY <1>t, <2>3 DEF Flags, ShownStates
  <2>5. ObjectInv' BY <2>2, <2>3 DEF LifeInv, ObjectInv, After
  <2>6. SessionInv' BY <2>2, <2>3 DEF LifeInv, SessionInv, After
  <2>7. NowInv' BY <2>2, <2>3 DEF LifeInv, NowInv, After, Loading
  <2>8. FrameInv' BY <2>2, <2>3 DEF LifeInv, FrameInv, After
  <2> QED BY <1>t, <2>2, <2>3, <2>4, <2>5, <2>6, <2>7, <2>8, Assembled, Types
<1> QED BY <1>1, <1>2, <1>3

\* A join that is accepted, started and gives the time controls back.
LEMMA JoinLife ==
    ASSUME LifeInv, RoomAccept \/ RoomStart \/ ResetControls
    PROVE  LifeInv'
<1> USE DEF Continue, build, loopVars, coreVars, viewVars, apiVars
<1>t. shown \in ShownStates /\ Flags /\ LifeTypeOK /\ Chained(todo) BY Types DEF LifeInv
<1>o. Chained(<< >>) /\ Now(<< >>) = "idle" BY Over
<1>1. CASE RoomAccept
  <2>1. Step("accept") BY <1>1 DEF RoomAccept
  <2>2. /\ Now(todo) = "accept" /\ Chained(todo)' /\ Now(todo)' \in {"showJoining", "idle"}
    <3>1. todo' = << >> \o Tail(todo) \/ todo' = << >> BY <1>1 DEF RoomAccept
    <3>2. Now(Tail(todo)) \in After("accept") /\ After("accept") = {"showJoining"}
      BY <1>t, <2>1, Advance DEF After
    <3> QED BY <1>t, <1>o, <2>1, <3>1, <3>2, Advance
  <2>3. /\ UNCHANGED <<shown, open, busy, build, loopVars, coreVars, viewVars>>
        /\ cancelled' = cancelled \/ cancelled' = FALSE
    BY <1>1 DEF RoomAccept, Accept
  <2>4. (shown \in ShownStates /\ Flags)'
    <3>1. cancelled' \in BOOLEAN BY <1>t, <2>3 DEF Flags
    <3> QED BY <1>t, <2>3, <3>1 DEF Flags
  <2>5. ObjectInv' BY <2>2, <2>3 DEF LifeInv, ObjectInv
  <2>6. SessionInv' BY <2>2, <2>3 DEF LifeInv, SessionInv
  <2>7. NowInv' BY <2>2, <2>3 DEF LifeInv, NowInv, Loading
  <2>8. FrameInv' BY <2>2, <2>3 DEF LifeInv, FrameInv
  <2> QED BY <1>t, <2>2, <2>3, <2>4, <2>5, <2>6, <2>7, <2>8, Assembled, Types
<1>2. CASE RoomStart /\ Step("showJoining")
  <2>1. ~Step("start") BY <1>2 DEF Step
  <2>2. /\ Now(todo) = "showJoining" /\ Chained(todo)' /\ Now(todo)' = "start"
    <3>1. todo' = << >> \o Tail(todo) BY <1>2, <2>1 DEF RoomStart
    <3>2. Now(Tail(todo)) \in After("showJoining") /\ After("showJoining") = {"start"}
      BY <1>t, <1>2, Advance DEF After
    <3> QED BY <1>t, <1>2, <3>1, <3>2, Advance
  <2>3. /\ UNCHANGED <<open, busy, cancelled, build, loopVars, coreVars, viewVars>>
        /\ shown' = "JOINING" /\ open
    BY <1>2, <2>1 DEF RoomStart, ShowJoining
  <2>4. (shown \in ShownStates /\ Flags)' BY <1>t, <2>3 DEF Flags, ShownStates
  <2>5. ObjectInv' BY <2>2, <2>3 DEF LifeInv, ObjectInv
  <2>6. SessionInv' BY <2>2, <2>3 DEF LifeInv, SessionInv, NowInv
  <2>7. NowInv' BY <2>2, <2>3 DEF LifeInv, NowInv, Loading
  <2>8. FrameInv' BY <2>2, <2>3 DEF LifeInv, FrameInv
  <2> QED BY <1>t, <2>2, <2>3, <2>4, <2>5, <2>6, <2>7, <2>8, Assembled, Types
<1>3. CASE RoomStart /\ Step("start")
  <2>1. ~Step("showJoining") BY <1>3 DEF Step
  <2>2. /\ Now(todo) = "start" /\ Chained(todo)' /\ Now(todo)' \in {"resetControls", "idle"}
        /\ busy' => Now(todo)' = "resetControls"
    <3>1. \/ todo' = << >> \o Tail(todo)
          \/ ~busy' /\ todo' = << >>
      BY <1>3, <2>1 DEF RoomStart
    <3>2. Now(Tail(todo)) \in After("start") /\ After("start") = {"resetControls"}
      BY <1>t, <1>3, Advance DEF After
    <3> QED BY <1>t, <1>o, <1>3, <3>1, <3>2, Advance
  <2>3. /\ UNCHANGED <<open, cancelled, build, loopVars, coreVars, viewVars>>
        /\ shown = "JOINING" /\ ~busy
        /\ \/ busy' = TRUE /\ shown' = shown
           \/ busy' = busy /\ shown' = "IDLE"
    BY <1>3, <2>1 DEF RoomStart, Start
  <2>4. (shown \in ShownStates /\ Flags)'
    <3>1. busy' \in BOOLEAN BY <1>t, <2>3 DEF Flags
    <3>2. shown' \in ShownStates BY <1>t, <2>3 DEF ShownStates
    <3> QED BY <1>t, <2>3, <3>1, <3>2 DEF Flags
  <2>5. ObjectInv' BY <2>2, <2>3 DEF LifeInv, ObjectInv
  <2>6. SessionInv' BY <2>2, <2>3 DEF LifeInv, SessionInv, NowInv
  <2>7. NowInv' BY <2>2, <2>3 DEF LifeInv, NowInv, Loading
  <2>8. FrameInv' BY <2>2, <2>3 DEF LifeInv, FrameInv
  <2> QED BY <1>t, <2>2, <2>3, <2>4, <2>5, <2>6, <2>7, <2>8, Assembled, Types
<1>4. CASE ResetControls
  <2>1. Step("resetControls") BY <1>4 DEF ResetControls
  <2>2. /\ Now(todo) = "resetControls" /\ Chained(todo)' /\ Now(todo)' = "idle"
    BY <1>4, <1>t, <2>1, Advance DEF ResetControls, After
  <2>3. /\ UNCHANGED <<apiVars, build, loopVars, coreVars, screen>>
        /\ controls' = {}
    BY <1>4 DEF ResetControls
  <2>4. (shown \in ShownStates /\ Flags)' BY <1>t, <2>3 DEF Flags
  <2>5. ObjectInv' BY <2>2, <2>3 DEF LifeInv, ObjectInv
  <2>6. SessionInv' BY <2>2, <2>3 DEF LifeInv, SessionInv, NowInv
  <2>7. NowInv' BY <2>2, <2>3 DEF LifeInv, NowInv, Loading
  <2>8. FrameInv' BY <2>2, <2>3 DEF LifeInv, FrameInv
  <2> QED BY <1>t, <2>2, <2>3, <2>4, <2>5, <2>6, <2>7, <2>8, Assembled, Types
<1> QED BY <1>1, <1>2, <1>3, <1>4 DEF RoomStart

\* Unloading: a game is stopped before its object goes, and the object before the library.
LEMMA UnloadLife ==
    ASSUME LifeInv,
           \/ core_unload_game \/ retro_unload_game \/ retro_deinit \/ PowerOff
           \/ DeleteInstance \/ uninit_libretro_symbols
    PROVE  LifeInv'
<1> USE DEF Continue, build, loopVars, coreVars, viewVars, apiVars
<1>t. shown \in ShownStates /\ Flags /\ LifeTypeOK /\ Chained(todo) BY Types DEF LifeInv
<1>1. CASE core_unload_game
  <2>1. Step("core_unload_game") BY <1>1 DEF core_unload_game
  <2>2. /\ Now(todo) = "core_unload_game" /\ Chained(todo)'
        /\ Now(todo)' \in {"retro_deinit", "cancelClosing"}
    <3>1. \/ todo' = (GameStopped \o <<"unloaded">>) \o Tail(todo)
          \/ todo' = << >> \o Tail(todo)
      BY <1>1 DEF core_unload_game
    <3>2. Now(Tail(todo)) \in After("core_unload_game")
          /\ After("core_unload_game") = {"retro_deinit"}
      BY <1>t, <2>1, Advance DEF After
    <3>3. Now(todo) = "core_unload_game" /\ Chained(Tail(todo)) /\ Now(Tail(todo)) = "retro_deinit"
      BY <1>t, <2>1, <3>2, Advance
    <3>4. CASE todo' = (GameStopped \o <<"unloaded">>) \o Tail(todo) BY <3>3, <3>4, Blocks
    <3>5. CASE todo' = << >> \o Tail(todo) BY <3>3, <3>5, Blocks
    <3> QED BY <3>1, <3>4, <3>5
  <2>3. UNCHANGED <<apiVars, build, loopVars, coreVars, viewVars>>
    BY <1>1 DEF core_unload_game
  <2>4. (shown \in ShownStates /\ Flags)' BY <1>t, <2>3 DEF Flags
  <2>5. ObjectInv' BY <2>2, <2>3 DEF LifeInv, ObjectInv
  <2>6. SessionInv' BY <2>2, <2>3 DEF LifeInv, SessionInv
  <2>7. NowInv' BY <2>2, <2>3 DEF LifeInv, NowInv, Loading
  <2>8. FrameInv' BY <2>2, <2>3 DEF LifeInv, FrameInv
  <2> QED BY <1>t, <2>2, <2>3, <2>4, <2>5, <2>6, <2>7, <2>8, Assembled, Types
<1>2. CASE retro_unload_game \/ PowerOff
  <2>1. PICK name \in {"unloaded", "powerOff"} : Step(name)
    BY <1>2 DEF retro_unload_game, PowerOff
  <2>2. /\ Now(todo) = name /\ Chained(todo)'
        /\ Now(todo)' \in {"retro_deinit", "cancelClosing"}
    BY <1>2, <1>t, <2>1, Advance DEF retro_unload_game, PowerOff, After
  <2>3. /\ UNCHANGED <<apiVars, build, running, handle, inited, instance, gameLoaded,
                       bridge, viewVars>>
        /\ powered' = FALSE /\ (gameFlag' = gameFlag \/ gameFlag' = FALSE)
    BY <1>2 DEF retro_unload_game, PowerOff
  <2>4. (shown \in ShownStates /\ Flags)'
    <3>1. gameFlag' \in BOOLEAN BY <1>t, <2>3 DEF Flags
    <3> QED BY <1>t, <2>3, <3>1 DEF Flags
  <2>5. ObjectInv' BY <2>1, <2>2, <2>3 DEF LifeInv, ObjectInv
  <2>6. SessionInv' BY <2>1, <2>2, <2>3 DEF LifeInv, SessionInv
  <2>7. NowInv' BY <2>1, <2>2, <2>3 DEF LifeInv, NowInv, Loading
  <2>8. FrameInv' BY <2>1, <2>2, <2>3 DEF LifeInv, FrameInv
  <2> QED BY <1>t, <2>2, <2>3, <2>4, <2>5, <2>6, <2>7, <2>8, Assembled, Types
<1>3. CASE retro_deinit
  <2>1. Step("retro_deinit") BY <1>3 DEF retro_deinit
  <2>2. /\ Now(todo) = "retro_deinit" /\ Chained(todo)'
        /\ Now(todo)' = IF inited THEN "cancelClosing" ELSE "uninit_symbols"
    <3>1. todo' = IF inited THEN Deinit \o Tail(todo) ELSE << >> \o Tail(todo)
      BY <1>3 DEF retro_deinit, Deinit
    <3>2. Now(Tail(todo)) \in After("retro_deinit")
          /\ After("retro_deinit") = {"uninit_symbols"}
      BY <1>t, <2>1, Advance DEF After
    <3> QED BY <1>t, <2>1, <3>1, <3>2, Advance, Blocks
  <2>3. UNCHANGED <<apiVars, build, loopVars, coreVars, viewVars>>
    BY <1>3 DEF retro_deinit
  <2>4. (shown \in ShownStates /\ Flags)' BY <1>t, <2>3 DEF Flags
  <2>5. ObjectInv' BY <2>2, <2>3 DEF LifeInv, ObjectInv
  <2>6. SessionInv' BY <2>2, <2>3 DEF LifeInv, SessionInv
  <2>7. NowInv' BY <2>2, <2>3 DEF LifeInv, NowInv, Loading, ObjectInv
  <2>8. FrameInv' BY <2>2, <2>3 DEF LifeInv, FrameInv, ObjectInv
  <2> QED BY <1>t, <2>2, <2>3, <2>4, <2>5, <2>6, <2>7, <2>8, Assembled, Types
<1>4. CASE DeleteInstance
  <2>1. Step("delete") BY <1>4 DEF DeleteInstance
  <2>2. /\ Now(todo) = "delete" /\ Chained(todo)' /\ Now(todo)' = "uninit_symbols"
    BY <1>4, <1>t, <2>1, Advance DEF DeleteInstance, After
  <2>3. /\ UNCHANGED <<apiVars, build, loopVars, powered, viewVars>>
        /\ instance' = FALSE /\ gameLoaded' = FALSE /\ bridge' = FALSE
    BY <1>4 DEF DeleteInstance
  <2>4. (shown \in ShownStates /\ Flags)' BY <1>t, <2>3 DEF Flags
  <2>5. ObjectInv' BY <2>2, <2>3 DEF LifeInv, ObjectInv, NowInv
  <2>6. SessionInv' BY <2>2, <2>3 DEF LifeInv, SessionInv
  <2>7. NowInv' BY <2>2, <2>3 DEF LifeInv, NowInv, Loading
  <2>8. FrameInv' BY <2>2, <2>3 DEF LifeInv, FrameInv
  <2> QED BY <1>t, <2>2, <2>3, <2>4, <2>5, <2>6, <2>7, <2>8, Assembled, Types
<1>5. CASE uninit_libretro_symbols
  <2>1. Step("uninit_symbols") BY <1>5 DEF uninit_libretro_symbols
  <2>2. /\ Now(todo) = "uninit_symbols" /\ Chained(todo)'
        /\ Now(todo)' \in {"init_symbols", "idle"}
    BY <1>5, <1>t, <2>1, Advance DEF uninit_libretro_symbols, After
  <2>3. /\ UNCHANGED <<apiVars, build, running, coreVars, viewVars>>
        /\ handle' = FALSE /\ inited' = FALSE /\ gameFlag' = FALSE
    BY <1>5 DEF uninit_libretro_symbols
  <2>4. (shown \in ShownStates /\ Flags)' BY <1>t, <2>3 DEF Flags
  <2>5. ObjectInv' BY <2>2, <2>3 DEF LifeInv, ObjectInv, NowInv
  <2>6. SessionInv' BY <2>2, <2>3 DEF LifeInv, SessionInv
  <2>7. NowInv' BY <2>2, <2>3 DEF LifeInv, NowInv, Loading
  <2>8. FrameInv' BY <2>2, <2>3 DEF LifeInv, FrameInv, ObjectInv, NowInv
  <2> QED BY <1>t, <2>2, <2>3, <2>4, <2>5, <2>6, <2>7, <2>8, Assembled, Types
<1> QED BY <1>1, <1>2, <1>3, <1>4, <1>5

\* Loading: an object comes with the library, a title with the object.
LEMMA LoadLife ==
    ASSUME LifeInv,
           \/ runloop_init_libretro_symbols \/ retro_init \/ retro_load_game \/ context_reset
    PROVE  LifeInv'
<1> USE DEF Continue, build, loopVars, coreVars, viewVars, apiVars
<1>t. shown \in ShownStates /\ Flags /\ LifeTypeOK /\ Chained(todo) BY Types DEF LifeInv
<1>o. Chained(<< >>) /\ Now(<< >>) = "idle" BY Over
<1>1. CASE runloop_init_libretro_symbols
  <2>1. Step("init_symbols") BY <1>1 DEF runloop_init_libretro_symbols
  <2>2. /\ Now(todo) = "init_symbols" /\ Chained(todo)'
        /\ \/ Now(todo)' = "retro_init" /\ handle' = TRUE
           \/ Now(todo)' = "idle" /\ handle' = handle
    <3>1. \/ todo' = << >> \o Tail(todo) /\ handle' = TRUE
          \/ todo' = << >> /\ handle' = handle
      BY <1>1 DEF runloop_init_libretro_symbols
    <3>2. Now(Tail(todo)) \in After("init_symbols") /\ After("init_symbols") = {"retro_init"}
      BY <1>t, <2>1, Advance DEF After
    <3> QED BY <1>t, <1>o, <2>1, <3>1, <3>2, Advance
  <2>3. UNCHANGED <<apiVars, build, running, inited, gameFlag, coreVars, viewVars>>
    BY <1>1 DEF runloop_init_libretro_symbols
  <2>4. (shown \in ShownStates /\ Flags)'
    <3>1. handle' \in BOOLEAN BY <1>t, <2>2 DEF Flags
    <3> QED BY <1>t, <2>3, <3>1 DEF Flags
  <2>5. ObjectInv' BY <2>2, <2>3 DEF LifeInv, ObjectInv
  <2>6. SessionInv' BY <2>2, <2>3 DEF LifeInv, SessionInv
  <2>7. NowInv' BY <2>2, <2>3 DEF LifeInv, NowInv, Loading
  <2>8. FrameInv' BY <2>2, <2>3 DEF LifeInv, FrameInv
  <2> QED BY <1>t, <2>2, <2>3, <2>4, <2>5, <2>6, <2>7, <2>8, Assembled, Types
<1>2. CASE retro_init
  <2>1. Step("retro_init") BY <1>2 DEF retro_init
  <2>2. /\ Now(todo) = "retro_init" /\ Chained(todo)' /\ Now(todo)' = "retro_load_game"
    <3>1. todo' = << >> \o Tail(todo) BY <1>2 DEF retro_init
    <3>2. Now(Tail(todo)) \in After("retro_init") /\ After("retro_init") = {"retro_load_game"}
      BY <1>t, <2>1, Advance DEF After
    <3> QED BY <1>t, <2>1, <3>1, <3>2, Advance
  <2>3. /\ UNCHANGED <<apiVars, build, running, handle, gameFlag, powered, viewVars>>
        /\ instance' = TRUE /\ gameLoaded' = FALSE /\ inited' = TRUE /\ bridge' \in BOOLEAN
    BY <1>2 DEF retro_init
  <2>4. (shown \in ShownStates /\ Flags)' BY <1>t, <2>3 DEF Flags
  <2>5. ObjectInv' BY <2>2, <2>3 DEF LifeInv, ObjectInv, NowInv
  <2>6. SessionInv' BY <2>2, <2>3 DEF LifeInv, SessionInv
  <2>7. NowInv' BY <2>2, <2>3 DEF LifeInv, NowInv, Loading
  <2>8. FrameInv' BY <2>2, <2>3 DEF LifeInv, FrameInv
  <2> QED BY <1>t, <2>2, <2>3, <2>4, <2>5, <2>6, <2>7, <2>8, Assembled, Types
<1>3. CASE retro_load_game
  <2>1. Step("retro_load_game") BY <1>3 DEF retro_load_game
  <2>2. /\ Now(todo) = "retro_load_game" /\ Chained(todo)'
        /\ Now(todo)' \in {"core_unload_game", "System::Load", "context_reset"}
    <3>1. \/ todo' = runloop_event_deinit_core
          \/ todo' = <<"System::Load">> \o Tail(todo)
          \/ todo' = <<"context_reset">> \o Tail(todo)
      BY <1>3 DEF retro_load_game
    <3>2. Now(Tail(todo)) \in After("retro_load_game") /\ After("retro_load_game") = {"idle"}
      BY <1>t, <2>1, Advance DEF After
    <3>3. /\ Now(todo) = "retro_load_game" /\ Chained(Tail(todo)) /\ Now(Tail(todo)) = "idle"
      BY <1>t, <2>1, <3>2, Advance
    <3>4. CASE todo' = runloop_event_deinit_core BY <3>3, <3>4, Beginnings
    <3>5. CASE todo' = <<"System::Load">> \o Tail(todo) BY <3>3, <3>5, Blocks
    <3>6. CASE todo' = <<"context_reset">> \o Tail(todo) BY <3>3, <3>6, Blocks
    <3> QED BY <3>1, <3>4, <3>5, <3>6
  <2>3. /\ UNCHANGED <<apiVars, build, running, handle, inited, coreVars, viewVars>>
        /\ gameFlag' = gameFlag \/ gameFlag' = TRUE
    BY <1>3 DEF retro_load_game
  <2>4. (shown \in ShownStates /\ Flags)'
    <3>1. gameFlag' \in BOOLEAN BY <1>t, <2>3 DEF Flags
    <3> QED BY <1>t, <2>3, <3>1 DEF Flags
  <2>5. ObjectInv' BY <2>2, <2>3 DEF LifeInv, ObjectInv, NowInv, Loading
  <2>6. SessionInv' BY <2>2, <2>3 DEF LifeInv, SessionInv
  <2>7. NowInv' BY <2>2, <2>3 DEF LifeInv, NowInv, Loading
  <2>8. FrameInv' BY <2>2, <2>3 DEF LifeInv, FrameInv
  <2> QED BY <1>t, <2>2, <2>3, <2>4, <2>5, <2>6, <2>7, <2>8, Assembled, Types
<1>4. CASE context_reset
  <2>1. Step("context_reset") BY <1>4 DEF context_reset
  <2>2. /\ Now(todo) = "context_reset" /\ Chained(todo)'
        /\ \/ Now(todo)' = "idle"
           \/ Now(todo)' = "System::Load" /\ ~gameLoaded
    <3>1. \/ todo' = << >> \o Tail(todo)
          \/ todo' = <<"System::Load">> \o Tail(todo) /\ ~gameLoaded
      BY <1>4 DEF context_reset
    <3>2. Now(Tail(todo)) \in After("context_reset") /\ After("context_reset") = {"idle"}
      BY <1>t, <2>1, Advance DEF After
    <3>3. /\ Now(todo) = "context_reset" /\ Chained(Tail(todo)) /\ Now(Tail(todo)) = "idle"
      BY <1>t, <2>1, <3>2, Advance
    <3>4. CASE todo' = << >> \o Tail(todo) BY <3>3, <3>4, Blocks
    <3>5. CASE todo' = <<"System::Load">> \o Tail(todo) /\ ~gameLoaded BY <3>3, <3>5, Blocks
    <3> QED BY <3>1, <3>4, <3>5
  <2>3. UNCHANGED <<apiVars, build, loopVars, coreVars, viewVars>>
    BY <1>4 DEF context_reset
  <2>4. (shown \in ShownStates /\ Flags)' BY <1>t, <2>3 DEF Flags
  <2>5. ObjectInv' BY <2>2, <2>3 DEF LifeInv, ObjectInv
  <2>6. SessionInv' BY <2>2, <2>3 DEF LifeInv, SessionInv
  <2>7. NowInv' BY <2>2, <2>3 DEF LifeInv, NowInv, Loading
  <2>8. FrameInv' BY <2>2, <2>3 DEF LifeInv, FrameInv
  <2> QED BY <1>t, <2>2, <2>3, <2>4, <2>5, <2>6, <2>7, <2>8, Assembled, Types
<1> QED BY <1>1, <1>2, <1>3, <1>4

\* The title is loaded, loaded again, or given up; the game has stopped.
LEMMA TitleLife ==
    ASSUME LifeInv, do_load_game \/ GameLoaded \/ retro_reset \/ Stopped
    PROVE  LifeInv'
<1> USE DEF Continue, build, loopVars, coreVars, viewVars, apiVars
<1>t. shown \in ShownStates /\ Flags /\ LifeTypeOK /\ Chained(todo) BY Types DEF LifeInv
<1>1. CASE do_load_game
  <2>1. Step("System::Load") BY <1>1 DEF do_load_game
  <2>2. /\ Now(todo) = "System::Load" /\ Chained(todo)'
        /\ \/ /\ Now(todo)' \in {"cancelReady", "loaded"}
              /\ powered' = TRUE /\ gameLoaded' = gameLoaded
           \/ /\ Now(todo)' \in {"idle", "core_unload_game"}
              /\ powered' = FALSE /\ gameLoaded' = FALSE
    <3>1. \/ /\ todo' = (GameReady \o <<"loaded">>) \o Tail(todo)
             /\ powered' = TRUE /\ gameLoaded' = gameLoaded
          \/ /\ todo' = << >> \o Tail(todo)
             /\ powered' = FALSE /\ gameLoaded' = FALSE
          \/ /\ todo' = runloop_event_deinit_core \o Tail(todo)
             /\ powered' = FALSE /\ gameLoaded' = FALSE
      BY <1>1 DEF do_load_game
    <3>2. Now(Tail(todo)) \in After("System::Load") /\ After("System::Load") = {"idle"}
      BY <1>t, <2>1, Advance DEF After
    <3>3. /\ Now(todo) = "System::Load" /\ Chained(Tail(todo)) /\ Now(Tail(todo)) = "idle"
      BY <1>t, <2>1, <3>2, Advance
    <3>4. CASE todo' = (GameReady \o <<"loaded">>) \o Tail(todo)
      <4>1. Chained(todo)' /\ Now(todo)' \in {"cancelReady", "loaded"} BY <3>3, <3>4, Blocks
      <4>2. todo' # << >> \o Tail(todo) /\ todo' # runloop_event_deinit_core \o Tail(todo)
        BY <3>3, <4>1, Blocks, ZenonT(60)
      <4> QED BY <3>1, <3>3, <4>1, <4>2
    <3>5. CASE /\ todo' = << >> \o Tail(todo)
               /\ powered' = FALSE /\ gameLoaded' = FALSE
      BY <3>3, <3>5, Blocks
    <3>6. CASE /\ todo' = runloop_event_deinit_core \o Tail(todo)
               /\ powered' = FALSE /\ gameLoaded' = FALSE
      BY <3>3, <3>6, Blocks
    <3> QED BY <3>1, <3>4, <3>5, <3>6
  <2>3. UNCHANGED <<apiVars, build, loopVars, instance, bridge, viewVars>>
    BY <1>1 DEF do_load_game
  <2>4. (shown \in ShownStates /\ Flags)'
    <3>1. powered' \in BOOLEAN /\ gameLoaded' \in BOOLEAN BY <1>t, <2>2 DEF Flags
    <3> QED BY <1>t, <2>3, <3>1 DEF Flags
  <2>5. ObjectInv' BY <2>2, <2>3 DEF LifeInv, ObjectInv, NowInv, Loading
  <2>6. SessionInv' BY <2>2, <2>3 DEF LifeInv, SessionInv
  <2>7. NowInv' BY <2>2, <2>3 DEF LifeInv, NowInv, Loading
  <2>8. FrameInv' BY <2>2, <2>3 DEF LifeInv, FrameInv
  <2> QED BY <1>t, <2>2, <2>3, <2>4, <2>5, <2>6, <2>7, <2>8, Assembled, Types
<1>2. CASE GameLoaded
  <2>1. Step("loaded") BY <1>2 DEF GameLoaded
  <2>2. /\ Now(todo) = "loaded" /\ Chained(todo)' /\ Now(todo)' = "idle"
    <3>1. todo' = << >> \o Tail(todo) BY <1>2 DEF GameLoaded
    <3>2. Now(Tail(todo)) \in After("loaded") /\ After("loaded") = {"idle"}
      BY <1>t, <2>1, Advance DEF After
    <3> QED BY <1>t, <2>1, <3>1, <3>2, Advance
  <2>3. /\ UNCHANGED <<apiVars, build, running, handle, inited, instance, powered,
                       bridge, viewVars>>
        /\ gameLoaded' = TRUE /\ gameFlag' = TRUE
    BY <1>2 DEF GameLoaded
  <2>4. (shown \in ShownStates /\ Flags)' BY <1>t, <2>3 DEF Flags
  <2>5. ObjectInv' BY <2>2, <2>3 DEF LifeInv, ObjectInv, NowInv, Loading
  <2>6. SessionInv' BY <2>2, <2>3 DEF LifeInv, SessionInv
  <2>7. NowInv' BY <2>2, <2>3 DEF LifeInv, NowInv, Loading
  <2>8. FrameInv' BY <2>2, <2>3 DEF LifeInv, FrameInv, NowInv
  <2> QED BY <1>t, <2>2, <2>3, <2>4, <2>5, <2>6, <2>7, <2>8, Assembled, Types
<1>3. CASE retro_reset
  <2>1. Step("retro_reset") BY <1>3 DEF retro_reset
  <2>2. /\ Now(todo) = "retro_reset" /\ Chained(todo)'
        /\ \/ Now(todo)' = "idle" /\ powered' = powered
           \/ Now(todo)' = "System::Load" /\ powered' = FALSE
    <3>1. \/ todo' = << >> \o Tail(todo) /\ powered' = powered
          \/ todo' = <<"System::Load">> \o Tail(todo) /\ powered' = FALSE
      BY <1>3 DEF retro_reset
    <3>2. Now(Tail(todo)) \in After("retro_reset") /\ After("retro_reset") = {"idle"}
      BY <1>t, <2>1, Advance DEF After
    <3>3. /\ Now(todo) = "retro_reset" /\ Chained(Tail(todo)) /\ Now(Tail(todo)) = "idle"
      BY <1>t, <2>1, <3>2, Advance
    <3>4. CASE todo' = << >> \o Tail(todo) /\ powered' = powered BY <3>3, <3>4, Blocks
    <3>5. CASE todo' = <<"System::Load">> \o Tail(todo) /\ powered' = FALSE
      BY <3>3, <3>5, Blocks
    <3> QED BY <3>1, <3>4, <3>5
  <2>3. UNCHANGED <<apiVars, build, loopVars, instance, gameLoaded, bridge, viewVars>>
    BY <1>3 DEF retro_reset
  <2>4. (shown \in ShownStates /\ Flags)'
    <3>1. powered' \in BOOLEAN BY <1>t, <2>2 DEF Flags
    <3> QED BY <1>t, <2>3, <3>1 DEF Flags
  <2>5. ObjectInv' BY <2>2, <2>3 DEF LifeInv, ObjectInv
  <2>6. SessionInv' BY <2>2, <2>3 DEF LifeInv, SessionInv
  <2>7. NowInv'
    <3>1. instance BY <2>2 DEF LifeInv, NowInv, ObjectInv
    <3>2. CASE Now(todo)' = "idle" BY <3>2 DEF NowInv, Loading
    <3>3. CASE Now(todo)' = "System::Load" /\ powered' = FALSE
      <4>1. instance' /\ ~powered' BY <2>3, <3>1, <3>3
      <4> QED BY <3>3, <4>1 DEF NowInv, Loading
    <3>4. Now(todo)' = "idle" \/ (Now(todo)' = "System::Load" /\ powered' = FALSE) BY <2>2
    <3> QED BY <3>2, <3>3, <3>4
  <2>8. FrameInv'
    <3>1. gameLoaded => powered BY <2>2 DEF LifeInv, FrameInv
    <3>2. powered' = powered \/ Now(todo)' = "System::Load" BY <2>2
    <3> QED BY <2>3, <3>1, <3>2 DEF FrameInv
  <2> QED BY <1>t, <2>2, <2>3, <2>4, <2>5, <2>6, <2>7, <2>8, Assembled, Types
<1>4. CASE Stopped
  <2>1. Step("stopped") BY <1>4 DEF Stopped
  <2>2. /\ Now(todo) = "stopped" /\ Chained(todo)' /\ Now(todo)' = "core_unload_game"
    <3>1. todo' = << >> \o Tail(todo) BY <1>4 DEF Stopped
    <3>2. Now(Tail(todo)) \in After("stopped") /\ After("stopped") = {"core_unload_game"}
      BY <1>t, <2>1, Advance DEF After
    <3> QED BY <1>t, <2>1, <3>1, <3>2, Advance
  <2>3. /\ UNCHANGED <<apiVars, build, handle, inited, gameFlag, coreVars, viewVars>>
        /\ running' = FALSE
    BY <1>4 DEF Stopped
  <2>4. (shown \in ShownStates /\ Flags)' BY <1>t, <2>3 DEF Flags
  <2>5. ObjectInv' BY <2>2, <2>3 DEF LifeInv, ObjectInv
  <2>6. SessionInv' BY <2>2, <2>3 DEF LifeInv, SessionInv
  <2>7. NowInv' BY <2>2, <2>3 DEF LifeInv, NowInv, Loading
  <2>8. FrameInv' BY <2>2, <2>3 DEF LifeInv, FrameInv
  <2> QED BY <1>t, <2>2, <2>3, <2>4, <2>5, <2>6, <2>7, <2>8, Assembled, Types
<1> QED BY <1>1, <1>2, <1>3, <1>4

\* The main thread begins a block.
LEMMA BlocksLife ==
    ASSUME LifeInv,
           \/ loadGame \/ stop \/ reload \/ ContextLost
           \/ azaharRoomDidEnterBackground \/ connect \/ disconnect
    PROVE  LifeInv'
<1> USE DEF Block, build, loopVars, coreVars, viewVars, apiVars
<1>t. shown \in ShownStates /\ Flags /\ LifeTypeOK /\ Chained(todo) BY Types DEF LifeInv
<1>0. /\ Now(todo) = "idle"
      /\ UNCHANGED <<apiVars, build, loopVars, coreVars, viewVars>>
  BY DEF loadGame, stop, reload, ContextLost, azaharRoomDidEnterBackground, connect,
         disconnect, Idle, Now
<1>1. /\ Chained(todo)'
      /\ \/ handle /\ Now(todo)' \in {"core_unload_game", "cancelLeaving"}
         \/ ~handle /\ Now(todo)' \in {"init_symbols", "stopped"}
         \/ gameFlag /\ Now(todo)' \in {"retro_reset", "context_reset"}
         \/ screen # "hidden" /\ Now(todo)' = "accept"
  <2>1. CASE loadGame BY <2>1, Beginnings DEF loadGame
  <2>2. CASE stop
    <3>1. todo' = leaveAzaharRoom \o <<"stopped">> \o runloop_event_deinit_core
      BY <2>2 DEF stop
    <3> QED BY <3>1, Beginnings
  <2>3. CASE reload
    <3>1. todo' = <<"retro_reset">> /\ gameFlag BY <2>3 DEF reload
    <3> QED BY <3>1, Beginnings
  <2>4. CASE ContextLost
    <3>1. todo' = <<"context_reset">> /\ gameFlag BY <2>4 DEF ContextLost
    <3> QED BY <3>1, Beginnings
  <2>5. CASE azaharRoomDidEnterBackground \/ disconnect
    <3>1. todo' = leaveAzaharRoom /\ handle
      BY <2>5 DEF azaharRoomDidEnterBackground, disconnect
    <3> QED BY <3>1, Beginnings
  <2>6. CASE connect
    <3>1. todo' = joinAzaharRoom /\ screen # "hidden" BY <2>6 DEF connect
    <3> QED BY <3>1, Beginnings
  <2> QED BY <2>1, <2>2, <2>3, <2>4, <2>5, <2>6
<1>2. (shown \in ShownStates /\ Flags)' BY <1>t, <1>0 DEF Flags
<1>3. ObjectInv' BY <1>0, <1>1 DEF LifeInv, ObjectInv
<1>4. SessionInv' BY <1>0, <1>1 DEF LifeInv, SessionInv
<1>5. NowInv'
  <2>1. inited => instance BY <1>0 DEF LifeInv, ObjectInv
  <2>2. (~handle => ~instance) /\ (gameFlag => instance) BY <1>0, <2>1 DEF LifeInv, ObjectInv
  <2> QED BY <1>0, <1>1, <2>2 DEF NowInv, Loading
<1>6. FrameInv' BY <1>0, <1>1 DEF LifeInv, FrameInv
<1> QED BY <1>t, <1>0, <1>1, <1>2, <1>3, <1>4, <1>5, <1>6, Assembled, Types

\* Blocks that are one step long, and the screen that goes away.
LEMMA ShortLife ==
    ASSUME LifeInv,
           \/ startWithCustomSaveDir \/ \E c \in Controls : SetControl(c)
           \/ showRoom \/ refresh \/ didHide
    PROVE  LifeInv'
<1> USE DEF Block, build, loopVars, coreVars, viewVars, apiVars, azaharRoomStatus
<1>t. shown \in ShownStates /\ Flags /\ LifeTypeOK /\ Chained(todo) BY Types DEF LifeInv
<1>y. controls \subseteq Controls /\ screen \in ShownStates \cup {"hidden", "unsupported"}
      /\ renderer \in Renderers
  BY <1>t, Types
<1>i. /\ Now(todo) = "idle" /\ (shown # "OFFLINE" => handle)
  BY DEF startWithCustomSaveDir, SetControl, showRoom, refresh, didHide, Idle, Now, LifeInv,
         ObjectInv
<1>1. CASE startWithCustomSaveDir
  <2>0. /\ UNCHANGED <<apiVars, build, todo, handle, inited, gameFlag, coreVars, viewVars>>
        /\ running' = TRUE
    BY <1>1 DEF startWithCustomSaveDir
  <2>1. Chained(todo)' /\ Now(todo)' = "idle" BY <1>t, <1>i, <2>0
  <2>2. (shown \in ShownStates /\ Flags)' BY <1>t, <2>0 DEF Flags
  <2>3. ObjectInv' BY <1>i, <2>0, <2>1 DEF LifeInv, ObjectInv
  <2>4. SessionInv' BY <1>i, <2>0, <2>1 DEF LifeInv, SessionInv
  <2>5. NowInv' BY <2>1 DEF NowInv, Loading
  <2>6. FrameInv' BY <1>i, <2>0, <2>1 DEF LifeInv, FrameInv
  <2> QED BY <1>y, <2>0, <2>1, <2>2, <2>3, <2>4, <2>5, <2>6, Assembled
<1>2. ASSUME NEW c \in Controls, SetControl(c) PROVE LifeInv'
  <2>0. /\ UNCHANGED <<apiVars, build, todo, loopVars, coreVars, screen>>
        /\ \/ controls' = controls \ {c}
           \/ ~azaharRoomActive /\ controls' = controls \cup {c}
    BY <1>2 DEF SetControl
  <2>1. Chained(todo)' /\ Now(todo)' = "idle" BY <1>t, <1>i, <2>0
  <2>2. (shown \in ShownStates /\ Flags)' BY <1>t, <2>0 DEF Flags
  <2>3. ObjectInv' BY <1>i, <2>0, <2>1 DEF LifeInv, ObjectInv
  <2>4. SessionInv' BY <1>i, <2>0, <2>1 DEF LifeInv, SessionInv, azaharRoomActive
  <2>5. NowInv' BY <2>1 DEF NowInv, Loading
  <2>6. FrameInv' BY <1>i, <2>0, <2>1 DEF LifeInv, FrameInv
  <2>7. controls' \subseteq Controls BY <1>y, <2>0
  <2> QED BY <1>y, <2>0, <2>1, <2>2, <2>3, <2>4, <2>5, <2>6, <2>7, Assembled
<1>3. CASE showRoom \/ refresh
  <2>0. /\ UNCHANGED <<apiVars, build, todo, loopVars, coreVars, controls>>
        /\ screen' = IF handle THEN shown ELSE "unsupported"
    BY <1>3 DEF showRoom, refresh
  <2>1. Chained(todo)' /\ Now(todo)' = "idle" BY <1>t, <1>i, <2>0
  <2>2. (shown \in ShownStates /\ Flags)' BY <1>t, <2>0 DEF Flags
  <2>3. ObjectInv' BY <1>i, <2>0, <2>1 DEF LifeInv, ObjectInv
  <2>4. screen' \in (ShownStates \cup {"unsupported"}) /\ screen' # "hidden"
    BY <1>t, <2>0 DEF ShownStates
  <2>5. SessionInv' BY <1>i, <2>0, <2>1, <2>4 DEF LifeInv, SessionInv
  <2>6. NowInv' BY <2>1 DEF NowInv, Loading
  <2>7. FrameInv' BY <1>i, <2>0, <2>1 DEF LifeInv, FrameInv
  <2> QED BY <1>y, <2>0, <2>1, <2>2, <2>3, <2>4, <2>5, <2>6, <2>7, Assembled
<1>4. CASE didHide
  <2>0. /\ UNCHANGED <<apiVars, build, loopVars, coreVars, controls>>
        /\ screen' = "hidden"
        /\ todo' = IF azaharRoomStatus = "JOINING" THEN leaveAzaharRoom ELSE << >>
    BY <1>4 DEF didHide
  <2>1. /\ Chained(todo)'
        /\ \/ Now(todo)' = "cancelLeaving"
           \/ Now(todo)' = "idle" /\ shown # "JOINING"
    <3>1. CASE handle /\ shown = "JOINING"
      <4>1. todo' = leaveAzaharRoom BY <2>0, <3>1
      <4> QED BY <3>1, <4>1, Beginnings
    <3>2. CASE ~(handle /\ shown = "JOINING")
      <4>1. todo' = << >> BY <2>0, <3>2
      <4>2. shown # "JOINING" BY <1>i, <3>2
      <4> QED BY <4>1, <4>2, Over
    <3> QED BY <3>1, <3>2
  <2>2. (shown \in ShownStates /\ Flags)' BY <1>t, <2>0 DEF Flags
  <2>3. ObjectInv' BY <1>i, <2>0, <2>1 DEF LifeInv, ObjectInv
  <2>4. SessionInv' BY <1>i, <2>0, <2>1 DEF LifeInv, SessionInv
  <2>5. NowInv' BY <2>1 DEF NowInv, Loading
  <2>6. FrameInv' BY <1>i, <2>0, <2>1 DEF LifeInv, FrameInv
  <2> QED BY <1>y, <2>0, <2>1, <2>2, <2>3, <2>4, <2>5, <2>6, Assembled
<1> QED BY <1>1, <1>2, <1>3, <1>4

\* Every step of the life keeps the invariant.
LEMMA NextLife == ASSUME LifeInv, [LifeNext]_lifeVars PROVE LifeInv'
<1>1. CASE UNCHANGED lifeVars
  BY <1>1 DEF LifeInv, LifeTypeOK, Chained, ObjectInv, SessionInv, NowInv, FrameInv, Now,
              lifeVars, apiVars, build, loopVars, coreVars, viewVars
<1>2. CASE LifeNext
  BY <1>2, RoomStepLife, RoomCallsLife, JoinLife, UnloadLife, LoadLife, TitleLife, BlocksLife,
     ShortLife
  DEF LifeNext, TitleEnds, OtherBlocks, OtherSteps
<1> QED BY <1>1, <1>2

-------------------------------------------------------------------------------
(* What the life of the core promises, whatever the keyboard does. *)

\* A step of the keyboard is a step of the life or none.
LEMMA KeyboardSteps == KeyboardNext => [LifeNext]_lifeVars
<1> SUFFICES ASSUME KeyboardNext PROVE [LifeNext]_lifeVars OBVIOUS
<1>1. CASE StopUnregisters BY <1>1 DEF StopUnregisters, LifeNext
<1>2. CASE InitDefault BY <1>2 DEF InitDefault, LifeNext
<1>3. CASE LibraryClosed BY <1>3 DEF LibraryClosed, LifeNext
<1>4. CASE TitleUnloaded \/ TitleReset
  BY <1>4 DEF TitleUnloaded, TitleReset, TitleEnds, LifeNext
<1>5. CASE OtherBlocks \/ OtherSteps \/ RoomStep BY <1>5 DEF LifeNext
<1>6. CASE RegisterAfterLoad BY <1>6 DEF RegisterAfterLoad
<1>7. ASSUME NEW config \in ButtonConfigs, Execute(config) PROVE UNCHANGED lifeVars
  BY <1>7 DEF Execute
<1>8. CASE ReceiveData BY <1>8 DEF ReceiveData
<1>9. ASSUME NEW d \in dialogs, ShowDialog(d) PROVE UNCHANGED lifeVars
  BY <1>9 DEF ShowDialog
<1>10. ASSUME NEW d \in dialogs, NEW valid \in BOOLEAN, Tap(d, valid)
       PROVE UNCHANGED lifeVars
  BY <1>10 DEF Tap
<1> QED BY <1>1, <1>2, <1>3, <1>4, <1>5, <1>6, <1>7, <1>8, <1>9, <1>10 DEF KeyboardNext

\* The invariant of the life, over the whole specification.
LEMMA LifeInvariance == KeyboardSpec => []LifeInv
<1>1. KeyboardInit => LifeInv BY InitLife DEF KeyboardInit
<1>2. LifeInv /\ [KeyboardNext]_allVars => LifeInv'
  <2> SUFFICES ASSUME LifeInv, [KeyboardNext]_allVars PROVE LifeInv' OBVIOUS
  <2>1. [LifeNext]_lifeVars BY KeyboardSteps DEF allVars
  <2> QED BY <2>1, NextLife
<1> QED BY <1>1, <1>2, PTL DEF KeyboardSpec

\* At the end of a block nothing is at hand.
LEMMA AtRest == ASSUME Idle PROVE Now(todo) = "idle"
BY DEF Idle, Now

\* The library and the core's object outlive the worker, through every order of loading,
\* failing, resetting, stopping and losing the context (runloop_event_deinit_core,
\* retro_deinit, RoomSession::GameStopped).
THEOREM LibraryOutlivesWorker == KeyboardSpec => []RoomNeedsCore
<1>1. LifeInv => RoomNeedsCore BY DEF LifeInv, ObjectInv, RoomNeedsCore
<1> QED BY <1>1, LifeInvariance, PTL

\* retro_run enters the emulator only while it is powered on and its core exists
\* (game_loaded of citra_libretro.cpp).
THEOREM EmulatorIsPowered == KeyboardSpec => []FrameNeedsSystem
<1>1. LifeInv => FrameNeedsSystem
  <2> SUFFICES ASSUME LifeInv, Emulates PROVE powered /\ instance
    BY DEF FrameNeedsSystem
  <2>1. Now(todo) = "idle" /\ inited /\ gameLoaded BY AtRest DEF Emulates, MayRun
  <2> QED BY <2>1 DEF LifeInv, FrameInv, ObjectInv
<1> QED BY <1>1, LifeInvariance, PTL

\* No frame of a session runs under fast forward, slow motion or rewind, whenever it was
\* switched on (joinAzaharRoom and the guards of LibretroCore.m).
THEOREM SessionsKeepTime == KeyboardSpec => []FramesKeepTime
<1>1. LifeInv => FramesKeepTime
  <2> SUFFICES ASSUME LifeInv, MayRun, shown \in {"JOINING", "JOINED"} PROVE controls = {}
    BY DEF FramesKeepTime
  <2>1. Now(todo) = "idle" BY AtRest DEF MayRun
  <2> QED BY <2>1 DEF LifeInv, SessionInv
<1> QED BY <1>1, LifeInvariance, PTL

\* Between blocks nobody joins behind a closed screen (AzaharRoomView.didHide).
THEOREM HiddenScreenCancels == KeyboardSpec => []JoiningIsWatched
<1>1. LifeInv => JoiningIsWatched
  <2> SUFFICES ASSUME LifeInv, Idle, screen = "hidden" PROVE shown # "JOINING"
    BY DEF JoiningIsWatched
  <2>1. Now(todo) = "idle" BY AtRest
  <2> QED BY <2>1 DEF LifeInv, SessionInv
<1> QED BY <1>1, LifeInvariance, PTL

-------------------------------------------------------------------------------

(* The keyboard: what its life depends on. *)

\* In a block the title goes before the object goes.
Guarded(s) ==
    \A i \in 1..Len(s) : s[i] = "delete" => \E j \in 1..i : s[j] = "powerOff"

Off(s) == \E i \in 1..Len(s) : s[i] = "powerOff"

\* The block will end the title.
Ends(s) == \E i \in 1..Len(s) : s[i] \in {"retro_deinit", "powerOff"}

TitleInv == ~powered \/ Guarded(todo)

\* What a title that waits for text needs.
Playing == gameLoaded /\ powered /\ inited

\* The adapter exists in the experimental core only, and what is registered
\* with a core that is up was registered by the frontend.
AdapterInv ==
    /\ keyboard => adapter /\ experiment
    /\ registered => keyboard
    /\ registered /\ inited => callback

\* A keyboard that a title has called is registered and goes before the object goes.
HeldInv ==
    current \/ ready => registered /\ instance /\ Guarded(todo)

\* A request belongs to a running title, and a dialog to a request.
RequestInv ==
    /\ request # "none" => Playing
    /\ \A d \in dialogs : d.mine => d.config = request
    /\ ~callback => \A d \in dialogs : ~d.fresh

\* While the keyboard is registered one dialog counts, it is the request's, and so is
\* the text.  The dialog of a title that was unloaded finds nobody.
FreshInv ==
    registered =>
        /\ \A d \in dialogs : d.fresh => d.mine
        /\ \A d, e \in dialogs : d.fresh /\ e.fresh => d = e
        /\ \A d \in dialogs : d.fresh /\ d.at = "shown" => lastConfig = d.config

ReadyInv ==
    ready => /\ request # "none" /\ registered
             /\ answer.mine /\ answer.right
             /\ \A d \in dialogs : ~d.fresh

WaitInv ==
    request # "none" /\ ~ready /\ ~refused =>
        \/ adapter /\ current /\ \E d \in dialogs : d.fresh
        \/ Ends(todo)

\* The last three hold unless the title was reset with a dialog open.
KeyboardInv ==
    /\ LifeInv /\ KeyboardTypeOK /\ IsFiniteSet(dialogs)
    /\ TitleInv /\ AdapterInv /\ HeldInv /\ RequestInv
    /\ ~crossed => FreshInv /\ ReadyInv /\ WaitInv


\* What is left of a block.
LEMMA Popped ==
    ASSUME NEW s, Chained(s), s # << >>
    PROVE  /\ Guarded(s) /\ Now(s) # "powerOff" => Guarded(Tail(s))
           /\ Ends(s) /\ Now(s) \notin {"retro_deinit", "powerOff"} => Ends(Tail(s))
<1>1. /\ Len(Tail(s)) = Len(s) - 1 /\ \A i \in 1..Len(Tail(s)) : Tail(s)[i] = s[i + 1]
      /\ s \in Seq(Steps) /\ Now(s) = s[1]
  BY Pops, ChainedSeq DEF Now
<1>2. Len(s) \in Nat \ {0} BY <1>1, EmptySeq
<1>3. ASSUME Guarded(s), Now(s) # "powerOff", NEW i \in 1..Len(Tail(s)), Tail(s)[i] = "delete"
      PROVE  \E j \in 1..i : Tail(s)[j] = "powerOff"
  <2>1. i + 1 \in 1..Len(s) /\ s[i + 1] = "delete" BY <1>1, <1>2, <1>3
  <2>2. PICK k \in 1..i + 1 : s[k] = "powerOff" BY <1>3, <2>1 DEF Guarded
  <2>3. k # 1 BY <1>1, <1>3, <2>2
  <2>4. k - 1 \in 1..i /\ k - 1 \in 1..Len(Tail(s)) /\ (k - 1) + 1 = k
    BY <1>1, <1>2, <1>3, <2>2, <2>3
  <2>5. Tail(s)[k - 1] = "powerOff" BY <1>1, <2>2, <2>4
  <2> QED BY <2>4, <2>5
<1>4. ASSUME Ends(s), Now(s) \notin {"retro_deinit", "powerOff"} PROVE Ends(Tail(s))
  <2>1. PICK k \in 1..Len(s) : s[k] \in {"retro_deinit", "powerOff"} BY <1>4 DEF Ends
  <2>2. k # 1 BY <1>1, <1>4, <2>1
  <2>3. k - 1 \in 1..Len(Tail(s)) /\ (k - 1) + 1 = k BY <1>1, <1>2, <2>1, <2>2
  <2>4. Tail(s)[k - 1] = s[k] BY <1>1, <2>3
  <2> QED BY <2>1, <2>3, <2>4 DEF Ends
<1> QED BY <1>3, <1>4 DEF Guarded

\* What is put before a block.
LEMMA Grown ==
    ASSUME NEW p \in Seq(Steps), NEW s \in Seq(Steps)
    PROVE  /\ Guarded(p) /\ (Off(p) \/ Guarded(s)) => Guarded(p \o s)
           /\ Ends(p) \/ Ends(s) => Ends(p \o s)
           /\ Off(p) => Off(p \o s)
<1>1. /\ Len(p \o s) = Len(p) + Len(s) /\ Len(p) \in Nat /\ Len(s) \in Nat
      /\ \A i \in 1..Len(p) + Len(s) :
           (p \o s)[i] = IF i <= Len(p) THEN p[i] ELSE s[i - Len(p)]
  BY ConcatProperties
<1>2. \A i \in 1..Len(p) : i \in 1..Len(p \o s) /\ (p \o s)[i] = p[i] BY <1>1
<1>3. \A i \in 1..Len(s) :
        Len(p) + i \in 1..Len(p \o s) /\ (p \o s)[Len(p) + i] = s[i]
  <2> TAKE i \in 1..Len(s)
  <2>1. Len(p) + i \in 1..Len(p) + Len(s) /\ ~(Len(p) + i <= Len(p))
        /\ (Len(p) + i) - Len(p) = i
    BY <1>1
  <2> QED BY <1>1, <2>1
<1>4. ASSUME Guarded(p), Off(p) \/ Guarded(s),
             NEW i \in 1..Len(p \o s), (p \o s)[i] = "delete"
      PROVE  \E j \in 1..i : (p \o s)[j] = "powerOff"
  <2>1. CASE i <= Len(p)
    <3>1. i \in 1..Len(p) /\ p[i] = "delete" BY <1>1, <1>2, <1>4, <2>1
    <3>2. PICK j \in 1..i : p[j] = "powerOff" BY <1>4, <3>1 DEF Guarded
    <3>3. j \in 1..Len(p) BY <1>1, <3>1, <3>2
    <3> QED BY <1>2, <3>2, <3>3
  <2>2. CASE i > Len(p)
    <3>1. CASE Off(p)
      <4>1. PICK j \in 1..Len(p) : p[j] = "powerOff" BY <3>1 DEF Off
      <4>2. j \in 1..i BY <1>1, <2>2, <4>1
      <4> QED BY <1>2, <4>1, <4>2
    <3>2. CASE Guarded(s)
      <4>0. i - Len(p) \in 1..Len(s) /\ i = Len(p) + (i - Len(p)) BY <1>1, <1>4, <2>2
      <4>1. PICK k \in 1..Len(s) : i = Len(p) + k BY <4>0
      <4>2. s[k] = "delete" BY <1>3, <1>4, <4>1
      <4>3. PICK j \in 1..k : s[j] = "powerOff" BY <3>2, <4>1, <4>2 DEF Guarded
      <4>4. j \in 1..Len(s) /\ Len(p) + j \in 1..i BY <1>1, <4>1, <4>3
      <4> QED BY <1>3, <4>3, <4>4
    <3> QED BY <1>4, <3>1, <3>2
  <2> QED BY <1>1, <1>4, <2>1, <2>2
<1>5. Ends(p) => Ends(p \o s) BY <1>2 DEF Ends
<1>6. Ends(s) => Ends(p \o s) BY <1>3 DEF Ends
<1>7. Off(p) => Off(p \o s) BY <1>2 DEF Off
<1> QED BY <1>4, <1>5, <1>6, <1>7 DEF Guarded

\* The pieces: only retro_deinit's has the object go, after the title.
LEMMA PieceContents ==
    /\ Guarded(<< >>) /\ ~Ends(<< >>)
    /\ Guarded(GameStopped \o <<"unloaded">>)
    /\ Guarded(Deinit) /\ Ends(Deinit)
    /\ Guarded(runloop_event_deinit_core) /\ Ends(runloop_event_deinit_core)
    /\ Guarded(runloop_event_init_core) /\ Guarded(joinAzaharRoom)
    /\ Guarded(leaveAzaharRoom) /\ Guarded(<<"stopped">>)
    /\ Guarded(<<"System::Load">>) /\ Guarded(<<"context_reset">>)
    /\ Guarded(<<"retro_reset">>)
    /\ Guarded(GameReady \o <<"loaded">>)
<1>0. Guarded(<< >>) /\ ~Ends(<< >>)
  <2>1. \A i \in 1..Len(<< >>) : FALSE BY EmptySeq
  <2> QED BY <2>1 DEF Guarded, Ends
<1>1. ASSUME NEW a \in Steps, a # "delete" PROVE Guarded(<<a>>)
  <2>1. \A i \in 1..Len(<<a>>) : <<a>>[i] # "delete" BY <1>1
  <2> QED BY <2>1 DEF Guarded
<1>2. ASSUME NEW a \in Steps, a # "delete", NEW b \in Steps, b # "delete"
      PROVE  Guarded(<<a, b>>)
  <2>1. \A i \in 1..Len(<<a, b>>) : <<a, b>>[i] # "delete" BY <1>2
  <2> QED BY <2>1 DEF Guarded
<1>3. ASSUME NEW a \in Steps, a # "delete", NEW b \in Steps, b # "delete",
             NEW c \in Steps, c # "delete"
      PROVE  Guarded(<<a, b, c>>)
  <2>1. \A i \in 1..Len(<<a, b, c>>) : <<a, b, c>>[i] # "delete" BY <1>3
  <2> QED BY <2>1 DEF Guarded
<1>4. ASSUME NEW a \in Steps, a # "delete", NEW b \in Steps, b # "delete",
             NEW c \in Steps, c # "delete", NEW d \in Steps, d # "delete"
      PROVE  Guarded(<<a, b, c, d>>)
  <2>1. \A i \in 1..Len(<<a, b, c, d>>) : <<a, b, c, d>>[i] # "delete" BY <1>4
  <2> QED BY <2>1 DEF Guarded
<1>5. Guarded(GameStopped) BY <1>2 DEF GameStopped, Steps
<1>6. GameStopped \in Seq(Steps) BY Pieces DEF Linked
<1>7. /\ <<"unloaded">> \in Seq(Steps) /\ Guarded(<<"unloaded">>)
      /\ <<"powerOff">> \in Seq(Steps) /\ Guarded(<<"powerOff">>)
      /\ <<"loaded">> \in Seq(Steps) /\ Guarded(<<"loaded">>)
      /\ <<"delete">> \in Seq(Steps)
  BY <1>1 DEF Steps
<1>8. Off(<<"powerOff">>) /\ Ends(<<"powerOff">>)
  <2>1. 1 \in 1..Len(<<"powerOff">>) /\ <<"powerOff">>[1] = "powerOff" OBVIOUS
  <2> QED BY <2>1 DEF Off, Ends
<1>9. Guarded(GameStopped \o <<"unloaded">>) BY <1>5, <1>6, <1>7, Grown
<1>10. Guarded(Deinit) /\ Ends(Deinit)
  <2> DEFINE g == GameStopped
             a == <<"powerOff">>
             b == <<"delete">>
             ga == g \o a
             gag == ga \o g
  <2>1. g \in Seq(Steps) /\ a \in Seq(Steps) /\ b \in Seq(Steps) BY <1>6, <1>7
  <2>2. Guarded(g) /\ Guarded(a) /\ Off(a) /\ Ends(a) BY <1>5, <1>7, <1>8
  <2> HIDE DEF g, a, b
  <2>3. ga \in Seq(Steps) BY <2>1, ConcatProperties
  <2>4. Guarded(ga) /\ Ends(ga) BY <2>1, <2>2, Grown
  <2>5. Off(ga)
    <3>1. /\ Len(g \o a) = Len(g) + Len(a) /\ Len(g) \in Nat /\ Len(a) \in Nat
          /\ \A i \in 1..Len(g) + Len(a) :
               (g \o a)[i] = IF i <= Len(g) THEN g[i] ELSE a[i - Len(g)]
      BY <2>1, ConcatProperties
    <3>2. PICK k \in 1..Len(a) : a[k] = "powerOff" BY <2>2 DEF Off
    <3>3. /\ Len(g) + k \in 1..Len(g) + Len(a) /\ ~(Len(g) + k <= Len(g))
          /\ (Len(g) + k) - Len(g) = k
      BY <3>1, <3>2
    <3>4. (g \o a)[Len(g) + k] = "powerOff" BY <3>1, <3>2, <3>3
    <3> QED BY <3>1, <3>3, <3>4 DEF Off
  <2> HIDE DEF ga
  <2>6. gag \in Seq(Steps) /\ Guarded(gag) /\ Ends(gag) /\ Off(gag)
    BY <2>1, <2>2, <2>3, <2>4, <2>5, Grown, ConcatProperties
  <2> HIDE DEF gag
  <2>7. Guarded(gag \o b) /\ Ends(gag \o b) BY <2>1, <2>6, Grown
  <2> QED BY <2>7 DEF gag, ga, g, a, b, Deinit
<1>11. Guarded(runloop_event_deinit_core) /\ Ends(runloop_event_deinit_core)
  <2>1. Guarded(runloop_event_deinit_core) BY <1>3, ZenonT(60) DEF runloop_event_deinit_core, Steps
  <2>2. /\ 2 \in 1..Len(runloop_event_deinit_core)
        /\ runloop_event_deinit_core[2] \in {"retro_deinit", "powerOff"}
    BY DEF runloop_event_deinit_core
  <2>3. Ends(runloop_event_deinit_core) BY <2>2 DEF Ends
  <2> QED BY <2>1, <2>3
<1>12. Guarded(runloop_event_init_core) BY <1>3 DEF runloop_event_init_core, Steps
<1>13. Guarded(joinAzaharRoom)
  <2>1. /\ "accept" \in Steps /\ "showJoining" \in Steps /\ "start" \in Steps
        /\ "resetControls" \in Steps
    BY DEF Steps
  <2>2. Guarded(<<"accept", "showJoining", "start", "resetControls">>) BY <1>4, <2>1
  <2> QED BY <2>2 DEF joinAzaharRoom
<1>14. Guarded(leaveAzaharRoom) BY <1>0, <1>2 DEF leaveAzaharRoom, Steps
<1>15. /\ Guarded(<<"stopped">>) /\ Guarded(<<"System::Load">>)
       /\ Guarded(<<"context_reset">>) /\ Guarded(<<"retro_reset">>)
  BY <1>1 DEF Steps
<1>16. Guarded(GameReady \o <<"loaded">>)
  <2>1. Guarded(GameReady) BY <1>0, <1>2 DEF GameReady, Steps
  <2>2. GameReady \in Seq(Steps)
    <3>1. <<"cancelReady", "open">> \in Seq(Steps) /\ << >> \in Seq(Steps)
      BY EmptySeq DEF Steps
    <3> QED BY <3>1 DEF GameReady
  <2> QED BY <1>7, <2>1, <2>2, Grown
<1> QED BY <1>0, <1>9, <1>10, <1>11, <1>12, <1>13, <1>14, <1>15, <1>16

\* What a step of a block leaves to do.
LEMMA StepContents ==
    ASSUME LifeInv, TitleInv,
           OtherSteps \/ TitleEnds \/ uninit_libretro_symbols \/ retro_init
    PROVE  /\ TitleInv'
           /\ Playing /\ Ends(todo) => ~powered' \/ Ends(todo)'
           /\ Guarded(todo) => Guarded(todo)' \/ PowerOff
<1> DEFINE t == Tail(todo)
           Claim ==
             /\ TitleInv'
             /\ Playing /\ Ends(todo) => ~powered' \/ Ends(todo)'
             /\ Guarded(todo) => Guarded(todo)' \/ PowerOff
<1>1. todo # << >> /\ Chained(todo) /\ Chained(t) /\ t \in Seq(Steps)
      /\ Now(todo) = Head(todo) /\ << >> \o t = t
  <2>1. todo # << >>
    BY DEF Step, Idle, OtherSteps, TitleEnds, uninit_libretro_symbols, retro_init,
           RoomCancel, RoomWaited, RoomShowLeaving, RoomAccept, RoomStart, ResetControls,
           core_unload_game, retro_deinit, DeleteInstance, runloop_init_libretro_symbols,
           retro_load_game, context_reset, do_load_game, GameLoaded, Stopped,
           retro_unload_game, PowerOff, retro_reset
  <2>2. Chained(todo) BY DEF LifeInv
  <2> QED BY <2>1, <2>2, Pops, ChainedSeq, ConcatEmptySeq
<1>2. /\ Guarded(todo) /\ Now(todo) # "powerOff" => Guarded(t)
      /\ Ends(todo) /\ Now(todo) \notin {"retro_deinit", "powerOff"} => Ends(t)
  BY <1>1, Popped
<1> HIDE DEF t
<1>3. ASSUME NEW p \in Seq(Steps), todo' = p \o t, Guarded(p), powered' = powered,
             Now(todo) # "powerOff", Now(todo) # "retro_deinit" \/ ~inited \/ Ends(p)
      PROVE  Claim
  <2>1. Guarded(t) => Guarded(p \o t) BY <1>1, <1>3, Grown
  <2>2. Ends(p) \/ Ends(t) => Ends(p \o t) BY <1>1, <1>3, Grown
  <2> QED BY <1>2, <1>3, <2>1, <2>2 DEF TitleInv, Playing
<1>4. ASSUME todo' = t, powered' = powered, Now(todo) # "powerOff",
             Now(todo) # "retro_deinit" \/ ~inited
      PROVE  Claim
  BY <1>2, <1>4 DEF TitleInv, Playing
<1>5. ASSUME powered' = FALSE, Guarded(todo)' \/ PowerOff
      PROVE  Claim
  BY <1>5 DEF TitleInv
<1>6. /\ << >> \in Seq(Steps) /\ GameStopped \o <<"unloaded">> \in Seq(Steps)
      /\ Deinit \in Seq(Steps) /\ <<"System::Load">> \in Seq(Steps)
      /\ <<"context_reset">> \in Seq(Steps)
  <2>1. <<"System::Load">> \in Seq(Steps) /\ <<"context_reset">> \in Seq(Steps) BY DEF Steps
  <2> QED BY <2>1, EmptySeq, Pieces, Twice DEF Linked
<1>7. CASE RoomCancel \/ RoomWaited \/ RoomShowLeaving \/ ResetControls \/ DeleteInstance
           \/ GameLoaded \/ Stopped \/ uninit_libretro_symbols \/ retro_init
  <2>1. todo' = << >> \o t /\ powered' = powered
        /\ Head(todo) \notin {"powerOff", "retro_deinit"}
    BY <1>7
    DEF RoomCancel, RoomWaited, RoomShowLeaving, ResetControls, DeleteInstance, GameLoaded,
        Stopped, uninit_libretro_symbols, retro_init, Continue, Step, coreVars, t
  <2> QED BY <1>1, <1>4, <2>1
<1>8. CASE RoomAccept \/ RoomStart
  <2>1. /\ todo' = << >> \o t \/ todo' = << >>
        /\ powered' = powered
        /\ Head(todo) \in {"accept", "showJoining", "start"}
    BY <1>8 DEF RoomAccept, RoomStart, Continue, Step, coreVars, t
  <2>2. CASE todo' = << >> \o t BY <1>1, <1>4, <2>1, <2>2
  <2>3. CASE todo' = << >>
    <3>1. Guarded(todo)' BY <2>3, PieceContents
    <3>2. ~Ends(todo)
      <4> DEFINE u == Tail(t)
                 v == Tail(u)
      <4>1. ASSUME NEW s, Chained(s), Now(s) = "idle" PROVE ~Ends(s)
        <5>1. s = << >>
          <6>1. CASE s # << >>
            <7>1. Now(s) \in Steps BY <4>1, <6>1, Pops
            <7> QED BY <4>1, <7>1 DEF Steps
          <6> QED BY <6>1
        <5> QED BY <5>1, PieceContents
      <4>2. ASSUME NEW s, Chained(s), Now(s) = "resetControls" PROVE ~Ends(s)
        <5>1. s # << >> BY <4>2 DEF Now
        <5>2. Chained(Tail(s)) /\ Now(Tail(s)) = "idle" BY <4>2, <5>1, Pops DEF After
        <5>3. ~Ends(Tail(s)) BY <4>1, <5>2
        <5> QED BY <4>2, <5>1, <5>3, Popped
      <4>3. ASSUME NEW s, Chained(s), Now(s) = "start" PROVE ~Ends(s)
        <5>1. s # << >> BY <4>3 DEF Now
        <5>2. Chained(Tail(s)) /\ Now(Tail(s)) = "resetControls" BY <4>3, <5>1, Pops DEF After
        <5>3. ~Ends(Tail(s)) BY <4>2, <5>2
        <5> QED BY <4>3, <5>1, <5>3, Popped
      <4>4. ASSUME NEW s, Chained(s), Now(s) = "showJoining" PROVE ~Ends(s)
        <5>1. s # << >> BY <4>4 DEF Now
        <5>2. Chained(Tail(s)) /\ Now(Tail(s)) = "start" BY <4>4, <5>1, Pops DEF After
        <5>3. ~Ends(Tail(s)) BY <4>3, <5>2
        <5> QED BY <4>4, <5>1, <5>3, Popped
      <4>5. ASSUME NEW s, Chained(s), Now(s) = "accept" PROVE ~Ends(s)
        <5>1. s # << >> BY <4>5 DEF Now
        <5>2. Chained(Tail(s)) /\ Now(Tail(s)) = "showJoining" BY <4>5, <5>1, Pops DEF After
        <5>3. ~Ends(Tail(s)) BY <4>4, <5>2
        <5> QED BY <4>5, <5>1, <5>3, Popped
      <4> QED BY <1>1, <2>1, <4>3, <4>4, <4>5
    <3> QED BY <3>1, <3>2 DEF TitleInv
  <2> QED BY <2>1, <2>2, <2>3
<1>9. CASE core_unload_game
  <2>1. /\ todo' = (GameStopped \o <<"unloaded">>) \o t \/ todo' = << >> \o t
        /\ powered' = powered /\ Head(todo) = "core_unload_game"
    BY <1>9 DEF core_unload_game, Continue, Step, coreVars, t
  <2>2. CASE todo' = << >> \o t BY <1>1, <1>4, <2>1, <2>2
  <2>3. CASE todo' = (GameStopped \o <<"unloaded">>) \o t
    BY <1>1, <1>3, <1>6, <2>1, <2>3, PieceContents
  <2> QED BY <2>1, <2>2, <2>3
<1>10. CASE retro_deinit
  <2>1. /\ (inited /\ todo' = Deinit \o t) \/ (~inited /\ todo' = << >> \o t)
        /\ powered' = powered /\ Head(todo) = "retro_deinit"
    BY <1>10 DEF retro_deinit, Continue, Step, coreVars, t, Deinit
  <2>2. CASE ~inited /\ todo' = << >> \o t BY <1>1, <1>4, <2>1, <2>2
  <2>3. CASE todo' = Deinit \o t BY <1>1, <1>3, <1>6, <2>1, <2>3, PieceContents
  <2> QED BY <2>1, <2>2, <2>3
<1>11. CASE runloop_init_libretro_symbols
  <2>1. /\ todo' = << >> \o t \/ todo' = << >>
        /\ powered' = powered /\ Head(todo) = "init_symbols"
    BY <1>11 DEF runloop_init_libretro_symbols, Continue, Step, coreVars, t
  <2>2. ~Playing
    <3>1. ~instance BY <1>1, <2>1 DEF LifeInv, NowInv
    <3> QED BY <3>1 DEF LifeInv, ObjectInv, Playing
  <2>3. CASE todo' = << >> \o t BY <1>1, <1>4, <2>1, <2>3
  <2>4. CASE todo' = << >>
    <3>1. Guarded(todo)' BY <2>4, PieceContents
    <3> QED BY <2>2, <3>1 DEF TitleInv
  <2> QED BY <2>1, <2>3, <2>4
<1>12. CASE retro_load_game
  <2>1. /\ \/ todo' = runloop_event_deinit_core
           \/ todo' = <<"System::Load">> \o t \/ todo' = <<"context_reset">> \o t
        /\ powered' = powered /\ Head(todo) = "retro_load_game"
    BY <1>12 DEF retro_load_game, Continue, Step, coreVars, t
  <2>2. CASE todo' = runloop_event_deinit_core
    <3>1. Guarded(todo)' /\ Ends(todo)' BY <2>2, PieceContents
    <3> QED BY <3>1 DEF TitleInv
  <2>3. CASE todo' = <<"System::Load">> \o t BY <1>1, <1>3, <1>6, <2>1, <2>3, PieceContents
  <2>4. CASE todo' = <<"context_reset">> \o t BY <1>1, <1>3, <1>6, <2>1, <2>4, PieceContents
  <2> QED BY <2>1, <2>2, <2>3, <2>4
<1>13. CASE context_reset
  <2>1. /\ todo' = << >> \o t \/ todo' = <<"System::Load">> \o t
        /\ powered' = powered /\ Head(todo) = "context_reset"
    BY <1>13 DEF context_reset, Continue, Step, coreVars, t
  <2>2. CASE todo' = << >> \o t BY <1>1, <1>4, <2>1, <2>2
  <2>3. CASE todo' = <<"System::Load">> \o t BY <1>1, <1>3, <1>6, <2>1, <2>3, PieceContents
  <2> QED BY <2>1, <2>2, <2>3
<1>14. CASE do_load_game
  <2>1. /\ \/ todo' = (GameReady \o <<"loaded">>) \o t
           \/ powered' = FALSE /\ (todo' = << >> \o t \/ todo' = runloop_event_deinit_core \o t)
        /\ Head(todo) = "System::Load"
    BY <1>14 DEF do_load_game, Continue, Step, t
  <2>2. CASE powered' = FALSE /\ (todo' = << >> \o t \/ todo' = runloop_event_deinit_core \o t)
    <3>1. Guarded(todo) => Guarded(t) BY <1>1, <1>2, <2>1
    <3>2. runloop_event_deinit_core \in Seq(Steps) BY Pieces DEF Linked
    <3>3. Guarded(t) => Guarded(runloop_event_deinit_core \o t)
      BY <1>1, <3>2, PieceContents, Grown
    <3>4. Guarded(todo) => Guarded(todo)' BY <1>1, <2>2, <3>1, <3>3
    <3> QED BY <2>2, <3>4 DEF TitleInv
  <2>3. CASE todo' = (GameReady \o <<"loaded">>) \o t
    <3>1. t = << >>
      <4>1. Now(t) = "idle" BY <1>1, <2>1, Pops DEF After, t
      <4>2. t # << >> => Now(t) \in Steps BY <1>1, Pops
      <4> QED BY <4>1, <4>2 DEF Steps
    <3>2. GameReady \o <<"loaded">> \in Seq(Steps) BY Readying DEF Linked
    <3>3. Guarded(GameReady \o <<"loaded">>) /\ Guarded(t) BY <3>1, PieceContents
    <3>4. Guarded((GameReady \o <<"loaded">>) \o t) BY <1>1, <3>2, <3>3, Grown
    <3>5. ~Playing BY <1>1, <2>1 DEF LifeInv, NowInv, Playing
    <3>6. Guarded(todo)' BY <2>3, <3>4
    <3> QED BY <3>5, <3>6 DEF TitleInv
  <2> QED BY <2>1, <2>2, <2>3
<1>15. CASE TitleEnds
  <2>1. CASE PowerOff
    <3>1. powered' = FALSE BY <2>1 DEF PowerOff
    <3> QED BY <2>1, <3>1 DEF TitleInv
  <2>2. CASE retro_unload_game
    <3>1. todo' = << >> \o t /\ powered' = FALSE /\ Head(todo) = "unloaded"
      BY <2>2 DEF retro_unload_game, Continue, Step, t
    <3>2. Guarded(todo) => Guarded(todo)' BY <1>1, <1>2, <3>1
    <3> QED BY <3>1, <3>2 DEF TitleInv
  <2>3. CASE retro_reset
    <3>1. /\ \/ todo' = << >> \o t /\ powered' = powered
             \/ todo' = <<"System::Load">> \o t /\ powered' = FALSE
          /\ Head(todo) = "retro_reset"
      BY <2>3 DEF retro_reset, Continue, Step, t
    <3>2. Guarded(todo) => Guarded(t) BY <1>1, <1>2, <3>1
    <3>3. Guarded(t) => Guarded(<<"System::Load">> \o t) BY <1>1, <1>6, PieceContents, Grown
    <3>4. CASE todo' = << >> \o t /\ powered' = powered BY <1>1, <1>4, <3>1, <3>4
    <3>5. CASE todo' = <<"System::Load">> \o t /\ powered' = FALSE
      BY <3>2, <3>3, <3>5 DEF TitleInv
    <3> QED BY <3>1, <3>4, <3>5
  <2> QED BY <1>15, <2>1, <2>2, <2>3 DEF TitleEnds
<1> QED
  BY <1>7, <1>8, <1>9, <1>10, <1>11, <1>12, <1>13, <1>14, <1>15 DEF OtherSteps

\* A block that begins has the object go only through retro_deinit.
LEMMA BlockContents ==
    ASSUME LifeInv, TitleInv, OtherBlocks
    PROVE  TitleInv' /\ ~Ends(todo) /\ Guarded(todo)'
<1> DEFINE D == runloop_event_deinit_core
           I == runloop_event_init_core
<1>1. todo = << >>
  BY DEF OtherBlocks, startWithCustomSaveDir, loadGame, reload, ContextLost, SetControl,
         azaharRoomDidEnterBackground, showRoom, refresh, connect, disconnect, didHide, Block,
         Idle
<1>2. ~Ends(todo) /\ Guarded(todo) BY <1>1, PieceContents
<1>3. CASE loadGame
  <2>1. todo' = D \o I \/ todo' = << >> \o I BY <1>3 DEF loadGame, Block
  <2>2. D \in Seq(Steps) /\ I \in Seq(Steps) /\ << >> \in Seq(Steps)
    BY Pieces, EmptySeq DEF Linked
  <2>3. Guarded(D) /\ Guarded(I) /\ Guarded(<< >>) BY PieceContents
  <2> HIDE DEF D, I
  <2>4. Guarded(D \o I) /\ Guarded(<< >> \o I) BY <2>2, <2>3, Grown
  <2>5. Guarded(todo)' BY <2>1, <2>4
  <2> QED BY <1>2, <2>5 DEF TitleInv
<1>4. CASE ~loadGame
  <2>1. todo' \in {todo, << >>, <<"retro_reset">>, <<"context_reset">>, leaveAzaharRoom,
                   joinAzaharRoom}
    BY <1>1, <1>4
    DEF OtherBlocks, startWithCustomSaveDir, reload, ContextLost, SetControl,
        azaharRoomDidEnterBackground, showRoom, refresh, connect, disconnect, didHide, Block
  <2>2. Guarded(todo)' BY <1>2, <2>1, PieceContents
  <2> QED BY <1>2, <2>2 DEF TitleInv
<1> QED BY <1>3, <1>4

\* LibretroCore.stop ends the title of a library that is there.
LEMMA StopContents ==
    ASSUME LifeInv, TitleInv, stop
    PROVE  TitleInv' /\ ~Ends(todo) /\ (handle => Ends(todo)') /\ Guarded(todo)'
<1> DEFINE D == runloop_event_deinit_core
           S == <<"stopped">>
           L == leaveAzaharRoom
<1>1. todo = << >> /\ todo' = (L \o S) \o D BY DEF stop, Block, Idle
<1>2. ~Ends(todo) BY <1>1, PieceContents
<1>3. D \in Seq(Steps) /\ S \in Seq(Steps) /\ L \in Seq(Steps)
  <2>1. S \in Seq(Steps) BY DEF Steps
  <2> QED BY <2>1, Pieces, Beginnings, ChainedSeq DEF Linked
<1>4. Guarded(D) /\ Ends(D) /\ Guarded(S) /\ Guarded(L) BY PieceContents
<1> HIDE DEF D, S, L
<1>5. L \o S \in Seq(Steps) /\ Guarded(L \o S) BY <1>3, <1>4, Grown, ConcatProperties
<1>6. Guarded((L \o S) \o D) /\ Ends((L \o S) \o D) BY <1>3, <1>4, <1>5, Grown
<1>7. Guarded(todo)' /\ Ends(todo)' BY <1>1, <1>6
<1> QED BY <1>2, <1>7 DEF TitleInv

\* What is at hand for the keyboard while the core and the room go on.
LEMMA OthersKeep ==
    ASSUME LifeInv, TitleInv, OtherBlocks \/ OtherSteps \/ RoomStep
    PROVE  /\ TitleInv' /\ experiment' = experiment /\ inited' = inited
           /\ Playing => Playing'
           /\ Playing /\ Ends(todo) => Ends(todo)'
           /\ instance /\ Guarded(todo) => instance' /\ Guarded(todo)'
<1>1. CASE OtherBlocks
  <2>1. TitleInv' /\ ~Ends(todo) /\ Guarded(todo)' BY <1>1, BlockContents
  <2>2. UNCHANGED <<experiment, inited, gameLoaded, powered, instance>>
    BY <1>1
    DEF OtherBlocks, startWithCustomSaveDir, loadGame, reload, ContextLost, SetControl,
        azaharRoomDidEnterBackground, showRoom, refresh, connect, disconnect, didHide, build,
        loopVars, coreVars
  <2> QED BY <2>1, <2>2 DEF Playing
<1>2. CASE OtherSteps
  <2>1. /\ TitleInv' /\ (Playing /\ Ends(todo) => ~powered' \/ Ends(todo)')
        /\ Guarded(todo) => Guarded(todo)' \/ PowerOff
    BY <1>2, StepContents
  <2>0. ~PowerOff
    <3>1. SUFFICES ASSUME PowerOff PROVE FALSE OBVIOUS
    <3>2. Head(todo) = "powerOff" BY <3>1 DEF PowerOff, Step
    <3> QED BY <1>2, <3>2
    DEF OtherSteps, RoomCancel, RoomWaited, RoomShowLeaving, RoomAccept, RoomStart,
        ResetControls, core_unload_game, retro_deinit, DeleteInstance,
        runloop_init_libretro_symbols, retro_load_game, context_reset, do_load_game,
        GameLoaded, Stopped, Step
  <2>2. experiment' = experiment /\ inited' = inited
    BY <1>2
    DEF OtherSteps, RoomCancel, RoomWaited, RoomShowLeaving, RoomAccept, RoomStart,
        ResetControls, core_unload_game, retro_deinit, DeleteInstance,
        runloop_init_libretro_symbols, retro_load_game, context_reset, do_load_game,
        GameLoaded, Stopped, build, loopVars
  <2>4. DeleteInstance => ~Guarded(todo)
    <3>1. SUFFICES ASSUME DeleteInstance, Guarded(todo) PROVE FALSE OBVIOUS
    <3>2. todo # << >> /\ Head(todo) = "delete" BY <3>1 DEF DeleteInstance, Step, Idle
    <3>3. Chained(todo) /\ todo \in Seq(Steps) BY ChainedSeq DEF LifeInv
    <3>4. todo[1] = "delete" /\ 1 \in 1..Len(todo) BY <3>2, <3>3, EmptySeq
    <3>5. PICK j \in 1..1 : todo[j] = "powerOff" BY <3>1, <3>4 DEF Guarded
    <3>6. j = 1 BY <3>5
    <3> QED BY <3>4, <3>5, <3>6
  <2>3. Playing => Playing'
    <3>1. CASE do_load_game
      <4>1. Now(todo) = "System::Load"
        BY <3>1 DEF do_load_game, Step, Idle, LifeInv, Advance, Now, Chained, Linked
      <4> QED BY <4>1 DEF LifeInv, NowInv, Playing
    <3>2. CASE DeleteInstance BY <2>4, <3>2 DEF TitleInv, Playing
    <3>3. CASE ~do_load_game /\ ~DeleteInstance
      <4>1. powered' = powered /\ (gameLoaded' = gameLoaded \/ gameLoaded' = TRUE)
        BY <1>2, <3>3
        DEF OtherSteps, RoomCancel, RoomWaited, RoomShowLeaving, RoomAccept, RoomStart,
            ResetControls, core_unload_game, retro_deinit, runloop_init_libretro_symbols,
            retro_load_game, context_reset, GameLoaded, Stopped, coreVars
      <4> QED BY <2>2, <4>1 DEF Playing
    <3> QED BY <3>1, <3>2, <3>3
  <2>5. instance /\ ~DeleteInstance => instance'
    BY <1>2
    DEF OtherSteps, RoomCancel, RoomWaited, RoomShowLeaving, RoomAccept, RoomStart,
        ResetControls, core_unload_game, retro_deinit, runloop_init_libretro_symbols,
        retro_load_game, context_reset, do_load_game, GameLoaded, Stopped, coreVars
  <2> QED BY <2>0, <2>1, <2>2, <2>3, <2>4, <2>5 DEF Playing
<1>3. CASE RoomStep
  <2>1. UNCHANGED <<experiment, inited, gameLoaded, powered, instance, todo>>
    BY <1>3 DEF RoomStep, build, loopVars, coreVars
  <2> QED BY <2>1 DEF TitleInv, Playing, Guarded, Ends
<1> QED BY <1>1, <1>2, <1>3

-------------------------------------------------------------------------------
(* The keyboard: its operations. *)

\* The flags, one by one.
KeyFlags ==
    /\ callback \in BOOLEAN /\ adapter \in BOOLEAN /\ keyboard \in BOOLEAN
    /\ registered \in BOOLEAN /\ current \in BOOLEAN /\ ready \in BOOLEAN
    /\ refused \in BOOLEAN /\ crossed \in BOOLEAN

Fields ==
    /\ KeyFlags /\ lastConfig \in ButtonConfigs
    /\ request \in ButtonConfigs \cup {"none"} /\ answer \in Answers

Few(D) == D \subseteq Dialogs /\ IsFiniteSet(D) /\ Cardinality(D) <= MaxDialogs

LEMMA KeyTypes ==
    KeyboardTypeOK /\ IsFiniteSet(dialogs) <=>
        LifeTypeOK /\ Fields /\ Few(dialogs) /\ (current => keyboard)
BY DEF KeyboardTypeOK, Fields, KeyFlags, Few

LEMMA KeyAssembled ==
    ASSUME LifeInv', Fields', Few(dialogs)', TitleInv', AdapterInv', HeldInv', RequestInv',
           crossed' \/ (FreshInv' /\ ReadyInv' /\ WaitInv')
    PROVE  KeyboardInv'
<1>1. LifeTypeOK' BY DEF LifeInv
<1>2. (current => keyboard)' BY DEF AdapterInv, HeldInv
<1>3. KeyboardTypeOK' /\ IsFiniteSet(dialogs)'
  BY <1>1, <1>2 DEF KeyboardTypeOK, Fields, KeyFlags, Few
<1> QED BY <1>3 DEF KeyboardInv

\* A field is set in every dialog.
LEMMA AllSet ==
    ASSUME Few(dialogs)
    PROVE  /\ Few({[d EXCEPT !.mine = FALSE] : d \in dialogs})
           /\ \A e \in {[d EXCEPT !.mine = FALSE] : d \in dialogs} :
                ~e.mine /\ \E d \in dialogs : e.fresh = d.fresh
           /\ Few({[d EXCEPT !.fresh = FALSE] : d \in dialogs})
           /\ \A e \in {[d EXCEPT !.fresh = FALSE] : d \in dialogs} :
                ~e.fresh /\ \E d \in dialogs : e.mine = d.mine /\ e.config = d.config
<1> DEFINE f == [d \in dialogs |-> [d EXCEPT !.mine = FALSE]]
           g == [d \in dialogs |-> [d EXCEPT !.fresh = FALSE]]
           M == {[d EXCEPT !.mine = FALSE] : d \in dialogs}
           F == {[d EXCEPT !.fresh = FALSE] : d \in dialogs}
<1>1. \A d \in Dialogs :
        /\ [d EXCEPT !.mine = FALSE] \in Dialogs
        /\ [d EXCEPT !.mine = FALSE].mine = FALSE
        /\ [d EXCEPT !.mine = FALSE].fresh = d.fresh
        /\ [d EXCEPT !.fresh = FALSE] \in Dialogs
        /\ [d EXCEPT !.fresh = FALSE].fresh = FALSE
        /\ [d EXCEPT !.fresh = FALSE].mine = d.mine
        /\ [d EXCEPT !.fresh = FALSE].config = d.config
  BY DEF Dialogs
<1>2. dialogs \subseteq Dialogs /\ IsFiniteSet(dialogs) /\ Cardinality(dialogs) <= MaxDialogs
  BY DEF Few
<1>3. M \subseteq Dialogs /\ F \subseteq Dialogs BY <1>1, <1>2
<1>4. f \in Surjection(dialogs, M) /\ g \in Surjection(dialogs, F) BY DEF Surjection
<1>5. Cardinality(dialogs) \in Nat BY <1>2, FS_CardinalityType
<1>6. IsFiniteSet(M) /\ Cardinality(M) <= Cardinality(dialogs) BY <1>2, <1>4, FS_Surjection
<1>7. IsFiniteSet(F) /\ Cardinality(F) <= Cardinality(dialogs) BY <1>2, <1>4, FS_Surjection
<1>8. Cardinality(M) \in Nat /\ Cardinality(F) \in Nat BY <1>6, <1>7, FS_CardinalityType
<1>9. Few(M) /\ Few(F) BY <1>2, <1>3, <1>5, <1>6, <1>7, <1>8, MaxDialogsAssumption DEF Few
<1>10. ASSUME NEW e \in M PROVE ~e.mine /\ \E d \in dialogs : e.fresh = d.fresh
  <2>1. PICK d \in dialogs : e = [d EXCEPT !.mine = FALSE] BY <1>10
  <2>2. d \in Dialogs BY <1>2
  <2>3. e.mine = FALSE /\ e.fresh = d.fresh BY <1>1, <2>1, <2>2
  <2> QED BY <2>3
<1>11. ASSUME NEW e \in F
       PROVE  ~e.fresh /\ \E d \in dialogs : e.mine = d.mine /\ e.config = d.config
  <2>1. PICK d \in dialogs : e = [d EXCEPT !.fresh = FALSE] BY <1>11
  <2>2. d \in Dialogs BY <1>2
  <2>3. e.fresh = FALSE /\ e.mine = d.mine /\ e.config = d.config BY <1>1, <2>1, <2>2
  <2> QED BY <2>3
<1> QED BY <1>9, <1>10, <1>11

\* A step of the keyboard alone leaves the block and the title as they are.
LEMMA Still ==
    ASSUME LifeInv, TitleInv, UNCHANGED lifeVars
    PROVE  /\ LifeInv' /\ TitleInv' /\ (Playing' <=> Playing)
           /\ (Ends(todo)' <=> Ends(todo)) /\ experiment' = experiment /\ inited' = inited
           /\ instance' = instance /\ (Guarded(todo)' <=> Guarded(todo))
<1>1. LifeInv' BY NextLife
<1>2. UNCHANGED <<todo, gameLoaded, powered, inited, experiment, instance>>
  BY DEF lifeVars, build, loopVars, coreVars
<1> QED BY <1>1, <1>2 DEF TitleInv, Playing, Guarded, Ends

\* Between blocks nothing ends the title.
LEMMA Quiet == ASSUME Idle PROVE ~Ends(todo)
BY PieceContents DEF Idle

\* No title, no request, no dialog of one, and unless one was left no text.
LEMMA Nobody ==
    ASSUME KeyboardInv, ~Playing
    PROVE  /\ request = "none" /\ \A d \in dialogs : ~d.mine
           /\ ~crossed => ~ready /\ (registered => \A d \in dialogs : ~d.fresh)
<1>1. request = "none" BY DEF KeyboardInv, RequestInv
<1>2. \A d \in dialogs : ~d.mine
  <2> TAKE d \in dialogs
  <2>1. d \in Dialogs BY KeyTypes DEF KeyboardInv, Few
  <2>2. d.config # "none" BY <2>1 DEF Dialogs, ButtonConfigs
  <2> QED BY <1>1, <2>2 DEF KeyboardInv, RequestInv
<1> QED BY <1>1, <1>2 DEF KeyboardInv, FreshInv, ReadyInv

\* No dialog is there when the app starts.
LEMMA InitKeyboard == KeyboardInit => KeyboardInv
<1> SUFFICES ASSUME KeyboardInit PROVE KeyboardInv OBVIOUS
<1>1. LifeInv BY InitLife DEF KeyboardInit
<1>2. IsFiniteSet(dialogs) /\ Cardinality(dialogs) = 0 /\ dialogs = {}
  BY FS_EmptySet DEF KeyboardInit
<1>3. Few(dialogs) BY <1>2, MaxDialogsAssumption DEF Few
<1>4. Fields BY DEF KeyboardInit, Fields, KeyFlags, ButtonConfigs, Answers, NoAnswer
<1>5. current => keyboard BY DEF KeyboardInit
<1>6. KeyboardTypeOK /\ IsFiniteSet(dialogs) BY <1>1, <1>3, <1>4, <1>5, KeyTypes DEF LifeInv
<1>7. TitleInv BY DEF KeyboardInit, LifeInit, TitleInv
<1>8. AdapterInv /\ HeldInv BY DEF KeyboardInit, AdapterInv, HeldInv
<1>9. RequestInv BY <1>2 DEF KeyboardInit, RequestInv
<1>10. FreshInv /\ ReadyInv /\ WaitInv BY <1>2 DEF KeyboardInit, FreshInv, ReadyInv, WaitInv
<1> QED BY <1>1, <1>6, <1>7, <1>8, <1>9, <1>10 DEF KeyboardInv

\* The core and the room go on without the keyboard.
LEMMA OthersKeyboard ==
    ASSUME KeyboardInv, OtherBlocks \/ OtherSteps \/ RoomStep, UNCHANGED keyboardVars
    PROVE  KeyboardInv'
<1> USE DEF keyboardVars, bridgeVars, adapterVars
<1>1. LifeInv' BY NextLife DEF KeyboardInv, LifeNext
<1>2. /\ TitleInv' /\ experiment' = experiment /\ inited' = inited
      /\ Playing => Playing'
      /\ Playing /\ Ends(todo) => Ends(todo)'
      /\ instance /\ Guarded(todo) => instance' /\ Guarded(todo)'
  BY OthersKeep DEF KeyboardInv
<1>3. Fields' /\ Few(dialogs)'
  <2>1. Fields /\ Few(dialogs) BY KeyTypes DEF KeyboardInv
  <2> QED BY <2>1 DEF Fields, KeyFlags, Few
<1>4. AdapterInv' /\ HeldInv' BY <1>2 DEF KeyboardInv, AdapterInv, HeldInv
<1>5. RequestInv' BY <1>2 DEF KeyboardInv, RequestInv
<1>6. crossed' \/ (FreshInv' /\ ReadyInv' /\ WaitInv')
  <2>1. CASE crossed BY <2>1
  <2>2. CASE ~crossed
    <3>1. FreshInv' BY <2>2 DEF KeyboardInv, FreshInv
    <3>2. ReadyInv' BY <2>2 DEF KeyboardInv, ReadyInv
    <3>3. WaitInv' BY <1>2, <2>2 DEF KeyboardInv, WaitInv, RequestInv
    <3> QED BY <3>1, <3>2, <3>3
  <2> QED BY <2>1, <2>2
<1> QED BY <1>1, <1>2, <1>3, <1>4, <1>5, <1>6, KeyAssembled

\* A new object has the default keyboard; a library that is closed had no title.
LEMMA LibraryKeyboard ==
    ASSUME KeyboardInv, InitDefault \/ LibraryClosed
    PROVE  KeyboardInv'
<1> USE DEF bridgeVars, adapterVars
<1>0. retro_init \/ uninit_libretro_symbols BY DEF InitDefault, LibraryClosed
<1>1. LifeInv' BY <1>0, NextLife DEF KeyboardInv, LifeNext
<1>2. TitleInv' BY <1>0, StepContents DEF KeyboardInv
<1>3. experiment' = experiment /\ (inited' = FALSE \/ registered' = FALSE)
  BY DEF InitDefault, LibraryClosed, retro_init, uninit_libretro_symbols, build
<1>4. ~Playing /\ ~current /\ ~ready
  <2>1. todo # << >> /\ Head(todo) \in {"retro_init", "uninit_symbols"}
    BY <1>0 DEF retro_init, uninit_libretro_symbols, Step, Idle
  <2>2. Now(todo) \in {"retro_init", "uninit_symbols"} BY <2>1, Pops DEF KeyboardInv, LifeInv
  <2>3. ~instance BY <2>2 DEF KeyboardInv, LifeInv, NowInv
  <2> QED BY <2>3 DEF KeyboardInv, LifeInv, ObjectInv, Playing, HeldInv
<1>5. /\ request = "none" /\ (\A d \in dialogs : ~d.mine)
      /\ (~crossed => ~ready /\ (registered => \A d \in dialogs : ~d.fresh))
  BY <1>4, Nobody
<1>6. UNCHANGED <<callback, lastConfig, dialogs, request, refused, crossed>>
  BY DEF InitDefault, LibraryClosed
<1>7. \/ UNCHANGED <<adapter, keyboard, current, ready, answer>> /\ registered' = FALSE
      \/ UNCHANGED <<adapter, keyboard, current, ready, answer, registered>>
      \/ adapter' = FALSE /\ DropKeyboard
  BY DEF InitDefault, LibraryClosed
<1>8. Fields' /\ Few(dialogs)'
  <2>1. Fields /\ Few(dialogs) BY KeyTypes DEF KeyboardInv
  <2>2. (callback \in BOOLEAN /\ refused \in BOOLEAN /\ crossed \in BOOLEAN)'
    BY <1>6, <2>1 DEF Fields, KeyFlags
  <2>3. ASSUME adapter' = FALSE, DropKeyboard PROVE Fields'
    <3>1. KeyFlags' BY <2>2, <2>3 DEF DropKeyboard, KeyFlags
    <3>2. answer' \in Answers BY <2>3 DEF DropKeyboard, Answers, NoAnswer
    <3> QED BY <1>6, <2>1, <3>1, <3>2 DEF Fields
  <2>4. ASSUME UNCHANGED <<adapter, keyboard, current, ready, answer>>,
               registered' = registered \/ registered' = FALSE
        PROVE  Fields'
    <3>1. registered' \in BOOLEAN BY <2>1, <2>4 DEF Fields, KeyFlags
    <3>2. KeyFlags' BY <2>1, <2>2, <2>4, <3>1 DEF Fields, KeyFlags
    <3> QED BY <1>6, <2>1, <2>4, <3>2 DEF Fields
  <2>5. Fields' BY <1>7, <2>3, <2>4
  <2>6. Few(dialogs)' BY <1>6, <2>1
  <2> QED BY <2>5, <2>6
<1>9. AdapterInv'
  <2>1. ASSUME adapter' = FALSE, DropKeyboard PROVE AdapterInv'
    <3>1. ~current' /\ ~registered' /\ ~ready' /\ keyboard' = FALSE
      BY <2>1 DEF DropKeyboard
    <3> QED BY <2>1, <3>1 DEF AdapterInv
  <2>2. ASSUME UNCHANGED <<adapter, keyboard, current, ready, answer>>,
               registered' = registered \/ registered' = FALSE
        PROVE  AdapterInv'
    <3>1. AdapterInv BY DEF KeyboardInv
    <3>2. (registered' => registered) /\ (registered' /\ inited' => FALSE) BY <1>3, <2>2
    <3> QED BY <1>3, <2>2, <3>1, <3>2 DEF AdapterInv
  <2> QED BY <1>7, <2>1, <2>2
<1>h. HeldInv'
  <2>1. ~current' /\ ~ready' BY <1>4, <1>7 DEF DropKeyboard
  <2> QED BY <2>1 DEF HeldInv
<1>10. RequestInv' BY <1>5, <1>6 DEF KeyboardInv, RequestInv
<1>11. crossed' \/ (FreshInv' /\ ReadyInv' /\ WaitInv')
  <2>1. ~ready' /\ (registered' => registered) BY <1>4, <1>7 DEF DropKeyboard
  <2> QED BY <1>5, <1>6, <2>1 DEF FreshInv, ReadyInv, WaitInv
<1> QED BY <1>1, <1>2, <1>8, <1>9, <1>h, <1>10, <1>11, KeyAssembled

\* The title's end ends its request, and no keyboard is left for its dialog.
LEMMA UnloadKeyboard == ASSUME KeyboardInv, TitleUnloaded PROVE KeyboardInv'
<1>1. /\ retro_unload_game \/ PowerOff
      /\ request' = "none" /\ refused' = FALSE
      /\ dialogs' = {[d EXCEPT !.mine = FALSE] : d \in dialogs}
      /\ keyboard' = FALSE /\ registered' = FALSE /\ current' = FALSE
      /\ ready' = FALSE /\ answer' = NoAnswer
      /\ crossed' = FALSE /\ UNCHANGED <<callback, lastConfig, adapter>>
  BY DEF TitleUnloaded, WaitEnds, DropKeyboard
<1>2. LifeInv' /\ TitleInv'
  BY <1>1, NextLife, StepContents DEF KeyboardInv, LifeNext, TitleEnds
<1>t. Fields /\ Few(dialogs) BY KeyTypes DEF KeyboardInv
<1>3. Few(dialogs') /\ \A e \in dialogs' : ~e.mine /\ \E d \in dialogs : e.fresh = d.fresh
  BY <1>t, <1>1, AllSet
<1>4. Fields'
  <2>1. answer' \in Answers BY <1>1 DEF Answers, NoAnswer
  <2>2. KeyFlags' BY <1>t, <1>1 DEF Fields, KeyFlags
  <2> QED BY <1>t, <1>1, <2>1, <2>2 DEF Fields
<1>5. AdapterInv' /\ HeldInv' BY <1>1 DEF AdapterInv, HeldInv
<1>6. RequestInv' BY <1>1, <1>3 DEF KeyboardInv, RequestInv
<1>7. FreshInv' /\ ReadyInv' /\ WaitInv' BY <1>1 DEF FreshInv, ReadyInv, WaitInv
<1> QED BY <1>2, <1>3, <1>4, <1>5, <1>6, <1>7, KeyAssembled DEF Few

\* So it does when the title is started anew, but its dialog stays.
LEMMA ResetKeyboard == ASSUME KeyboardInv, TitleReset PROVE KeyboardInv'
<1>0. retro_reset BY DEF TitleReset
<1>1. LifeInv' BY <1>0, NextLife DEF KeyboardInv, LifeNext, TitleEnds
<1>a. Head(todo) = "retro_reset" BY <1>0 DEF retro_reset, Step
<1>b. ~PowerOff BY <1>a DEF PowerOff, Step
<1>2. /\ TitleInv' /\ (Playing /\ Ends(todo) => ~powered' \/ Ends(todo)')
      /\ Guarded(todo) => Guarded(todo)'
  BY <1>0, <1>b, StepContents DEF KeyboardInv, TitleEnds
<1>3. UNCHANGED <<experiment, inited, instance, gameLoaded>>
  BY <1>0 DEF retro_reset, build, loopVars
<1>t. Fields /\ Few(dialogs) BY KeyTypes DEF KeyboardInv
<1>5. CASE busy
  <2>1. UNCHANGED <<callback, lastConfig, dialogs, adapter, keyboard, registered, current,
                    ready, answer, request, refused, crossed>>
    BY <1>5 DEF TitleReset, keyboardVars, bridgeVars, adapterVars
  <2>2. Fields' /\ Few(dialogs)' BY <1>t, <2>1 DEF Fields, KeyFlags, Few
  <2>3. AdapterInv' /\ HeldInv' BY <1>2, <1>3, <2>1 DEF KeyboardInv, AdapterInv, HeldInv
  <2>0. powered' = powered BY <1>0, <1>5 DEF retro_reset
  <2>4. Playing => Playing' BY <1>3, <2>0 DEF Playing
  <2>5. RequestInv' BY <2>1, <2>4 DEF KeyboardInv, RequestInv
  <2>6. ASSUME ~crossed' PROVE FreshInv' /\ ReadyInv' /\ WaitInv'
    <3>1. FreshInv' BY <2>1, <2>6 DEF KeyboardInv, FreshInv
    <3>2. ReadyInv' BY <2>1, <2>6 DEF KeyboardInv, ReadyInv
    <3>3. Ends(todo) /\ request # "none" => Ends(todo)'
      BY <1>2, <2>0 DEF KeyboardInv, RequestInv, Playing
    <3>4. WaitInv' BY <2>1, <2>6, <3>3 DEF KeyboardInv, WaitInv
    <3> QED BY <3>1, <3>2, <3>4
  <2> QED BY <1>1, <1>2, <2>2, <2>3, <2>5, <2>6, KeyAssembled
<1>6. CASE ~busy
  <2>1. /\ request' = "none" /\ refused' = FALSE
        /\ dialogs' = {[d EXCEPT !.mine = FALSE] : d \in dialogs}
        /\ answer' = [answer EXCEPT !.mine = FALSE]
        /\ UNCHANGED <<callback, lastConfig, adapter, keyboard, registered, current, ready>>
    BY <1>6 DEF TitleReset, WaitEnds
  <2>2. crossed' = (crossed \/ ready \/ \E d \in dialogs : d.mine)
    BY <1>6 DEF TitleReset
  <2>3. Few(dialogs') /\ \A e \in dialogs' : ~e.mine /\ \E d \in dialogs : e.fresh = d.fresh
    BY <1>t, <2>1, AllSet
  <2>4. Fields'
    <3>1. answer' \in Answers BY <1>t, <2>1 DEF Fields, Answers
    <3>2. crossed' \in BOOLEAN BY <1>t, <2>2 DEF Fields, KeyFlags
    <3> QED BY <1>t, <2>1, <3>1, <3>2 DEF Fields, KeyFlags
  <2>5. AdapterInv' /\ HeldInv' BY <1>2, <1>3, <2>1 DEF KeyboardInv, AdapterInv, HeldInv
  <2>6. RequestInv' BY <2>1, <2>3 DEF KeyboardInv, RequestInv
  <2>7. ASSUME ~crossed' PROVE FreshInv' /\ ReadyInv' /\ WaitInv'
    <3>1. ~crossed /\ ~ready /\ \A d \in dialogs : ~d.mine BY <2>2, <2>7
    <3>2. registered => \A d \in dialogs : ~d.fresh BY <3>1 DEF KeyboardInv, FreshInv
    <3>3. registered => \A e \in dialogs' : ~e.fresh BY <2>3, <3>2
    <3> QED BY <2>1, <3>1, <3>3 DEF FreshInv, ReadyInv, WaitInv
  <2> QED BY <1>1, <1>2, <2>3, <2>4, <2>5, <2>6, <2>7, KeyAssembled DEF Few
<1> QED BY <1>5, <1>6

\* A title asks for text: its dialog is the only one that counts.
LEMMA ExecuteKeyboard ==
    ASSUME KeyboardInv, NEW config \in ButtonConfigs, Execute(config)
    PROVE  KeyboardInv'
<1>1. UNCHANGED lifeVars /\ Emulates /\ request = "none" /\ registered
      /\ Cardinality(dialogs) < MaxDialogs
  BY DEF Execute
<1>2. LifeInv' /\ TitleInv' /\ (Playing' <=> Playing) /\ (Ends(todo)' <=> Ends(todo))
      /\ experiment' = experiment /\ inited' = inited
      /\ instance' = instance /\ (Guarded(todo)' <=> Guarded(todo))
  BY <1>1, Still DEF KeyboardInv
<1>t. Fields /\ Few(dialogs) BY KeyTypes DEF KeyboardInv
<1>3. Playing /\ instance /\ Guarded(todo)
  <2>1. Now(todo) = "idle" /\ todo = << >> BY <1>1, AtRest DEF Emulates, MayRun, Idle
  <2>2. Playing
    BY <1>1, <2>1 DEF KeyboardInv, LifeInv, FrameInv, Emulates, MayRun, Playing
  <2>3. instance BY <2>2 DEF KeyboardInv, LifeInv, ObjectInv, Playing
  <2> QED BY <2>1, <2>2, <2>3, PieceContents
<1>4. adapter /\ callback /\ keyboard
  BY <1>1, <1>3 DEF KeyboardInv, AdapterInv, Playing
<1> DEFINE e == [at |-> "queued", config |-> config, fresh |-> TRUE, mine |-> TRUE]
<1>5. /\ request' = config /\ current' = TRUE /\ refused' = FALSE
      /\ (ready' = ready \/ ready' = FALSE)
      /\ dialogs' = dialogs \cup {e}
      /\ UNCHANGED <<callback, lastConfig, adapter, keyboard, registered, answer, crossed>>
  BY <1>4 DEF Execute
<1>6. /\ e \in Dialogs /\ e.config = config /\ e.at = "queued" /\ e.fresh = TRUE
      /\ e.mine = TRUE
  BY DEF Dialogs
<1> HIDE DEF e
<1>7. /\ \A d \in dialogs : ~d.mine
      /\ ~crossed => ~ready /\ \A d \in dialogs : ~d.fresh
  <2>1. \A d \in dialogs : ~d.mine
    <3> TAKE d \in dialogs
    <3>1. d \in Dialogs BY <1>t DEF Few
    <3>2. d.config # "none" BY <3>1 DEF Dialogs, ButtonConfigs
    <3> QED BY <1>1, <3>2 DEF KeyboardInv, RequestInv
  <2> QED BY <1>1, <2>1 DEF KeyboardInv, FreshInv, ReadyInv
<1>8. Few(dialogs')
  <2>1. /\ IsFiniteSet(dialogs \cup {e})
        /\ Cardinality(dialogs \cup {e}) =
             IF e \in dialogs THEN Cardinality(dialogs) ELSE Cardinality(dialogs) + 1
    BY <1>t, FS_AddElement DEF Few
  <2>2. Cardinality(dialogs) \in Nat BY <1>t, FS_CardinalityType DEF Few
  <2>3. Cardinality(dialogs \cup {e}) <= MaxDialogs
    BY <1>1, <2>1, <2>2, MaxDialogsAssumption
  <2> QED BY <1>t, <1>5, <1>6, <2>1, <2>3 DEF Few
<1>9. Fields'
  <2>1. ready' \in BOOLEAN BY <1>t, <1>5 DEF Fields, KeyFlags
  <2>2. KeyFlags' BY <1>t, <1>5, <2>1 DEF Fields, KeyFlags
  <2> QED BY <1>t, <1>5, <2>2 DEF Fields
<1>10. AdapterInv' /\ HeldInv'
  <2>1. AdapterInv' BY <1>2, <1>4, <1>5 DEF KeyboardInv, AdapterInv
  <2>2. HeldInv' BY <1>1, <1>2, <1>3, <1>5 DEF HeldInv
  <2> QED BY <2>1, <2>2
<1>11. RequestInv' BY <1>2, <1>3, <1>4, <1>5, <1>6, <1>7 DEF RequestInv
<1>12. ASSUME ~crossed' PROVE FreshInv' /\ ReadyInv' /\ WaitInv'
  <2>1. ~crossed /\ ~ready' /\ \A d \in dialogs : ~d.fresh BY <1>5, <1>7, <1>12
  <2>2. registered' /\ adapter' /\ current' BY <1>1, <1>4, <1>5
  <2>3. \A d \in dialogs' : d.fresh => d = e BY <1>5, <2>1
  <2>4. FreshInv' BY <1>6, <2>2, <2>3 DEF FreshInv
  <2>5. e \in dialogs' /\ e.fresh BY <1>5, <1>6
  <2> QED BY <2>1, <2>2, <2>4, <2>5 DEF ReadyInv, WaitInv
<1> QED BY <1>2, <1>8, <1>9, <1>10, <1>11, <1>12, KeyAssembled DEF Few

\* The title takes the text: its dialog is not waited for any more.
LEMMA ReceiveKeyboard == ASSUME KeyboardInv, ReceiveData PROVE KeyboardInv'
<1>1. UNCHANGED lifeVars BY DEF ReceiveData
<1>2. LifeInv' /\ TitleInv' /\ (Playing' <=> Playing) /\ (Ends(todo)' <=> Ends(todo))
      /\ experiment' = experiment /\ inited' = inited
      /\ instance' = instance /\ (Guarded(todo)' <=> Guarded(todo))
  BY <1>1, Still DEF KeyboardInv
<1>t. Fields /\ Few(dialogs) BY KeyTypes DEF KeyboardInv
<1>3. /\ request' = "none" /\ ready' = FALSE /\ answer' = NoAnswer /\ refused' = FALSE
      /\ dialogs' = {[d EXCEPT !.mine = FALSE] : d \in dialogs}
      /\ UNCHANGED <<callback, lastConfig, adapter, keyboard, registered, current, crossed>>
      /\ ready
  BY DEF ReceiveData
<1>4. Few(dialogs') /\ \A e \in dialogs' : ~e.mine /\ \E d \in dialogs : e.fresh = d.fresh
  BY <1>t, <1>3, AllSet
<1>5. Fields'
  <2>1. answer' \in Answers BY <1>3 DEF Answers, NoAnswer
  <2>2. KeyFlags' BY <1>t, <1>3 DEF Fields, KeyFlags
  <2> QED BY <1>t, <1>3, <2>1, <2>2 DEF Fields
<1>6. AdapterInv' /\ HeldInv' BY <1>2, <1>3 DEF KeyboardInv, AdapterInv, HeldInv
<1>7. RequestInv' BY <1>3, <1>4 DEF KeyboardInv, RequestInv
<1>8. ASSUME ~crossed' PROVE FreshInv' /\ ReadyInv' /\ WaitInv'
  <2>1. \A d \in dialogs : ~d.fresh BY <1>3, <1>8 DEF KeyboardInv, ReadyInv
  <2>2. \A e \in dialogs' : ~e.fresh BY <1>4, <2>1
  <2> QED BY <1>3, <2>2 DEF FreshInv, ReadyInv, WaitInv
<1> QED BY <1>2, <1>4, <1>5, <1>6, <1>7, <1>8, KeyAssembled DEF Few

\* The frontend registers itself, or takes itself back: no dialog counts any more.
LEMMA RegisterKeyboard ==
    ASSUME KeyboardInv, NEW on \in BOOLEAN, registerAzaharKeyboard(on),
           experiment' = experiment, inited' = inited
    PROVE  /\ Few(dialogs') /\ \A e \in dialogs' : ~e.fresh
           /\ \A e \in dialogs' : e.mine => e.config = request
           /\ lastConfig' \in ButtonConfigs /\ answer' \in Answers
           /\ (callback \in BOOLEAN /\ adapter \in BOOLEAN /\ keyboard \in BOOLEAN)'
           /\ (registered \in BOOLEAN /\ current \in BOOLEAN /\ ready \in BOOLEAN)'
           /\ callback' = on
           /\ on \/ (~handle /\ ~inited) \/ (~ready' /\ ~registered') => AdapterInv'
           /\ on => (ready' => ready)
           /\ current' \/ ready' => (current \/ ready) /\ registered'
           /\ handle /\ ~on => ~ready' /\ ~registered' /\ AdapterInv'
<1>t. Fields /\ Few(dialogs) BY KeyTypes DEF KeyboardInv
<1>1. /\ callback' = on
      /\ dialogs' = {[d EXCEPT !.fresh = FALSE] : d \in dialogs}
      /\ lastConfig' = IF handle /\ ~on THEN "Single" ELSE lastConfig
  BY DEF registerAzaharKeyboard
<1>2. \/ /\ handle /\ experiment /\ on
         /\ adapter' = TRUE /\ keyboard' = TRUE /\ registered' = TRUE
         /\ UNCHANGED <<current, ready, answer>>
      \/ /\ handle /\ experiment /\ ~on
         /\ adapter' = FALSE /\ DropKeyboard
      \/ ~(handle /\ experiment) /\ UNCHANGED adapterVars
  BY DEF registerAzaharKeyboard, retro_azahar_set_keyboard_callback
<1>3. Few(dialogs') /\ \A e \in dialogs' :
        ~e.fresh /\ \E d \in dialogs : e.mine = d.mine /\ e.config = d.config
  BY <1>t, <1>1, AllSet
<1>4. \A e \in dialogs' : e.mine => e.config = request
  BY <1>3 DEF KeyboardInv, RequestInv
<1>5. lastConfig' \in ButtonConfigs BY <1>t, <1>1 DEF Fields, ButtonConfigs
<1>a. AdapterInv /\ HeldInv BY DEF KeyboardInv
<1>b. handle \in BOOLEAN /\ experiment \in BOOLEAN BY Types DEF KeyboardInv, LifeInv, Flags
<1>6. CASE handle /\ experiment /\ on
  <2>1. /\ adapter' = TRUE /\ keyboard' = TRUE /\ registered' = TRUE
        /\ UNCHANGED <<current, ready, answer>>
    BY <1>2, <1>6
  <2>2. AdapterInv' BY <1>1, <1>6, <2>1 DEF AdapterInv
  <2>3. answer' \in Answers BY <1>t, <2>1 DEF Fields
  <2>4. (registered \in BOOLEAN /\ current \in BOOLEAN /\ ready \in BOOLEAN)'
        /\ (adapter \in BOOLEAN /\ keyboard \in BOOLEAN)'
    BY <1>t, <2>1 DEF Fields, KeyFlags
  <2>5. callback' \in BOOLEAN BY <1>1
  <2> QED BY <1>1, <1>3, <1>4, <1>5, <1>6, <2>1, <2>2, <2>3, <2>4, <2>5
<1>7. CASE handle /\ experiment /\ ~on
  <2>1. adapter' = FALSE /\ DropKeyboard BY <1>2, <1>7
  <2>2. AdapterInv' BY <2>1 DEF AdapterInv, DropKeyboard
  <2>3. answer' \in Answers BY <2>1 DEF DropKeyboard, Answers, NoAnswer
  <2>4. (registered \in BOOLEAN /\ current \in BOOLEAN /\ ready \in BOOLEAN)'
        /\ (adapter \in BOOLEAN /\ keyboard \in BOOLEAN)'
        /\ ~ready' /\ ~registered' /\ ~current'
    BY <2>1 DEF DropKeyboard
  <2>5. callback' \in BOOLEAN BY <1>1
  <2> QED BY <1>1, <1>3, <1>4, <1>5, <1>7, <2>2, <2>3, <2>4, <2>5
<1>8. CASE ~(handle /\ experiment)
  <2>1. UNCHANGED <<adapter, keyboard, registered, current, ready, answer>>
    BY <1>2, <1>8 DEF adapterVars
  <2>2. answer' \in Answers BY <1>t, <2>1 DEF Fields
  <2>3. (registered \in BOOLEAN /\ current \in BOOLEAN /\ ready \in BOOLEAN)'
        /\ (adapter \in BOOLEAN /\ keyboard \in BOOLEAN)'
    BY <1>t, <2>1 DEF Fields, KeyFlags
  <2>4. callback' \in BOOLEAN BY <1>1
  <2>5. /\ handle => ~registered' /\ ~ready'
        /\ current' \/ ready' => (current \/ ready) /\ registered'
    BY <1>8, <1>a, <2>1 DEF AdapterInv, HeldInv
  <2>6. inited' => handle BY DEF KeyboardInv, LifeInv, ObjectInv
  <2>7. AdapterInv' BY <1>1, <1>a, <2>1, <2>5, <2>6 DEF AdapterInv
  <2> QED BY <1>1, <1>3, <1>4, <1>5, <2>1, <2>2, <2>3, <2>4, <2>5, <2>7
<1> QED BY <1>b, <1>6, <1>7, <1>8

\* When the game has been loaded.
LEMMA RegisterAfterLoadKeyboard ==
    ASSUME KeyboardInv, RegisterAfterLoad PROVE KeyboardInv'
<1>1. /\ UNCHANGED lifeVars /\ request = "none" /\ ~registered
      /\ registerAzaharKeyboard(TRUE)
      /\ UNCHANGED <<request, refused, crossed>>
  BY DEF RegisterAfterLoad
<1>2. LifeInv' /\ TitleInv' /\ (Playing' <=> Playing) /\ (Ends(todo)' <=> Ends(todo))
      /\ experiment' = experiment /\ inited' = inited
      /\ instance' = instance /\ (Guarded(todo)' <=> Guarded(todo))
  BY <1>1, Still DEF KeyboardInv
<1>t. Fields /\ Few(dialogs) BY KeyTypes DEF KeyboardInv
<1>3. /\ Few(dialogs') /\ \A e \in dialogs' : ~e.fresh
      /\ \A e \in dialogs' : e.mine => e.config = request
      /\ lastConfig' \in ButtonConfigs /\ answer' \in Answers
      /\ (callback \in BOOLEAN /\ adapter \in BOOLEAN /\ keyboard \in BOOLEAN)'
      /\ (registered \in BOOLEAN /\ current \in BOOLEAN /\ ready \in BOOLEAN)'
      /\ AdapterInv' /\ (ready' => ready)
      /\ current' \/ ready' => (current \/ ready) /\ registered'
  BY <1>1, <1>2, RegisterKeyboard
<1>4. Fields'
  <2>1. (refused \in BOOLEAN /\ crossed \in BOOLEAN)' BY <1>t, <1>1 DEF Fields, KeyFlags
  <2>2. KeyFlags' BY <1>3, <2>1 DEF KeyFlags
  <2> QED BY <1>t, <1>1, <1>3, <2>2 DEF Fields
<1>5. RequestInv' BY <1>1, <1>3 DEF RequestInv
<1>h. HeldInv' BY <1>2, <1>3 DEF KeyboardInv, HeldInv
<1>6. ASSUME ~crossed' PROVE FreshInv' /\ ReadyInv' /\ WaitInv'
  <2>1. ~ready' BY <1>1, <1>3, <1>6 DEF KeyboardInv, ReadyInv
  <2> QED BY <1>1, <1>3, <2>1 DEF FreshInv, ReadyInv, WaitInv
<1> QED BY <1>2, <1>3, <1>4, <1>5, <1>h, <1>6, KeyAssembled DEF Few

\* Before the core goes.
LEMMA StopKeyboard == ASSUME KeyboardInv, StopUnregisters PROVE KeyboardInv'
<1>1. /\ stop /\ registerAzaharKeyboard(FALSE)
      /\ UNCHANGED <<request, refused, crossed>>
  BY DEF StopUnregisters
<1>2. LifeInv' BY <1>1, NextLife DEF KeyboardInv, LifeNext
<1>3. TitleInv' /\ (handle => Ends(todo)') /\ Guarded(todo)'
  BY <1>1, StopContents DEF KeyboardInv
<1>4. UNCHANGED <<experiment, inited, instance, gameLoaded, powered>>
  BY <1>1 DEF stop, build, loopVars, coreVars
<1>t. Fields /\ Few(dialogs) BY KeyTypes DEF KeyboardInv
<1>5. /\ Few(dialogs') /\ \A e \in dialogs' : ~e.fresh
      /\ \A e \in dialogs' : e.mine => e.config = request
      /\ lastConfig' \in ButtonConfigs /\ answer' \in Answers
      /\ (callback \in BOOLEAN /\ adapter \in BOOLEAN /\ keyboard \in BOOLEAN)'
      /\ (registered \in BOOLEAN /\ current \in BOOLEAN /\ ready \in BOOLEAN)'
      /\ handle => ~ready' /\ ~registered' /\ AdapterInv'
      /\ ~handle /\ ~inited => AdapterInv'
      /\ current' \/ ready' => (current \/ ready) /\ registered'
  BY <1>1, <1>4, RegisterKeyboard
<1>6. ~handle => ~inited /\ ~Playing
  BY DEF KeyboardInv, LifeInv, ObjectInv, Playing
<1>7. AdapterInv' BY <1>5, <1>6
<1>h. HeldInv' BY <1>3, <1>4, <1>5 DEF KeyboardInv, HeldInv
<1>8. Fields'
  <2>1. (refused \in BOOLEAN /\ crossed \in BOOLEAN)' BY <1>t, <1>1 DEF Fields, KeyFlags
  <2>2. KeyFlags' BY <1>5, <2>1 DEF KeyFlags
  <2> QED BY <1>t, <1>1, <1>5, <2>2 DEF Fields
<1>9. RequestInv'
  <2>1. request' # "none" => Playing' BY <1>1, <1>4 DEF KeyboardInv, RequestInv, Playing
  <2> QED BY <1>1, <1>5, <2>1 DEF RequestInv
<1>10. ASSUME ~crossed' PROVE FreshInv' /\ ReadyInv' /\ WaitInv'
  <2>1. CASE handle BY <1>3, <1>5, <2>1 DEF FreshInv, ReadyInv, WaitInv
  <2>2. CASE ~handle
    <3>1. request = "none" /\ ~ready BY <1>1, <1>6, <1>10, <2>2, Nobody
    <3>2. ready' = ready
      BY <1>1, <2>2 DEF registerAzaharKeyboard, adapterVars
    <3> QED BY <1>1, <1>5, <3>1, <3>2 DEF FreshInv, ReadyInv, WaitInv
  <2> QED BY <2>1, <2>2
<1> QED BY <1>2, <1>3, <1>5, <1>7, <1>h, <1>8, <1>9, <1>10, KeyAssembled DEF Few

\* A block of the main queue opens its dialog, or not.
LEMMA ShowKeyboard ==
    ASSUME KeyboardInv, NEW d \in dialogs, ShowDialog(d)
    PROVE  KeyboardInv'
<1> DEFINE x == [d EXCEPT !.at = "shown"]
           rest == dialogs \ {d}
<1>1. /\ Idle /\ UNCHANGED <<lifeVars, callback, adapterVars, request, refused, crossed>>
      /\ \/ d.fresh /\ dialogs' = rest \cup {x} /\ lastConfig' = d.config
         \/ ~d.fresh /\ dialogs' = rest /\ lastConfig' = lastConfig
  BY DEF ShowDialog
<1>2. UNCHANGED <<adapter, keyboard, registered, current, ready, answer>>
  BY <1>1 DEF adapterVars
<1>3. LifeInv' /\ TitleInv' /\ (Playing' <=> Playing) /\ (Ends(todo)' <=> Ends(todo))
      /\ experiment' = experiment /\ inited' = inited
      /\ instance' = instance /\ (Guarded(todo)' <=> Guarded(todo))
  BY <1>1, Still DEF KeyboardInv
<1>t. Fields /\ Few(dialogs) BY KeyTypes DEF KeyboardInv
<1>4. d \in Dialogs BY <1>t DEF Few
<1>5. /\ x \in Dialogs /\ x.config = d.config /\ x.fresh = d.fresh /\ x.mine = d.mine
      /\ d.config \in ButtonConfigs
  BY <1>4 DEF Dialogs
<1> HIDE DEF x
<1>6. Few(dialogs')
  <2>1. /\ IsFiniteSet(rest) /\ Cardinality(rest) = Cardinality(dialogs) - 1
    BY <1>t, FS_RemoveElement DEF Few
  <2>2. /\ IsFiniteSet(rest \cup {x})
        /\ Cardinality(rest \cup {x}) = IF x \in rest THEN Cardinality(rest)
                                                      ELSE Cardinality(rest) + 1
    BY <2>1, FS_AddElement
  <2>3. Cardinality(dialogs) \in Nat BY <1>t, FS_CardinalityType DEF Few
  <2>4. Cardinality(dialogs) <= MaxDialogs /\ dialogs \subseteq Dialogs BY <1>t DEF Few
  <2>5. Cardinality(rest) <= MaxDialogs /\ Cardinality(rest \cup {x}) <= MaxDialogs
    BY <2>1, <2>2, <2>3, <2>4, MaxDialogsAssumption
  <2> HIDE DEF rest
  <2>6. Few(rest) BY <2>1, <2>4, <2>5 DEF Few, rest
  <2>7. Few(rest \cup {x}) BY <1>5, <2>2, <2>4, <2>5 DEF Few, rest
  <2> QED BY <1>1, <2>6, <2>7
<1>7. Fields'
  <2>1. lastConfig' \in ButtonConfigs BY <1>t, <1>1, <1>5 DEF Fields
  <2>2. KeyFlags' BY <1>t, <1>1, <1>2 DEF Fields, KeyFlags
  <2> QED BY <1>t, <1>1, <1>2, <2>1, <2>2 DEF Fields
<1>8. AdapterInv' /\ HeldInv' BY <1>1, <1>2, <1>3 DEF KeyboardInv, AdapterInv, HeldInv
<1>9. RequestInv' BY <1>1, <1>3, <1>5 DEF KeyboardInv, RequestInv
<1>10. ASSUME ~crossed' PROVE FreshInv' /\ ReadyInv' /\ WaitInv'
  <2>0. ~crossed /\ FreshInv /\ ReadyInv /\ WaitInv BY <1>1, <1>10 DEF KeyboardInv
  <2>1. CASE d.fresh /\ dialogs' = rest \cup {x} /\ lastConfig' = d.config
    <3>1. registered => \A e \in dialogs' : e.fresh => e = x BY <2>0, <2>1 DEF FreshInv
    <3>2. x.fresh /\ (registered => x.mine) BY <1>5, <2>0, <2>1 DEF FreshInv
    <3>3. FreshInv' BY <1>2, <1>5, <2>1, <3>1, <3>2 DEF FreshInv
    <3>4. ~ready BY <2>0, <2>1 DEF ReadyInv
    <3>5. ReadyInv' BY <1>2, <3>4 DEF ReadyInv
    <3>6. x \in dialogs' BY <2>1
    <3>7. WaitInv' BY <1>1, <1>2, <1>3, <2>0, <3>2, <3>6 DEF WaitInv
    <3> QED BY <3>3, <3>5, <3>7
  <2>2. CASE ~d.fresh /\ dialogs' = rest /\ lastConfig' = lastConfig
    <3>1. FreshInv' BY <1>2, <2>0, <2>2 DEF FreshInv
    <3>2. ReadyInv' BY <1>1, <1>2, <2>0, <2>2 DEF ReadyInv
    <3>3. (\E e \in dialogs : e.fresh) => \E e \in dialogs' : e.fresh BY <2>2
    <3>4. WaitInv' BY <1>1, <1>2, <1>3, <2>0, <3>3 DEF WaitInv
    <3> QED BY <3>1, <3>2, <3>4
  <2> QED BY <1>1, <2>1, <2>2
<1> QED BY <1>3, <1>6, <1>7, <1>8, <1>9, <1>10, KeyAssembled DEF Few

\* The player taps: what is stored is for the request that waits, or nobody is told.
LEMMA TapKeyboard ==
    ASSUME KeyboardInv, NEW d \in dialogs, NEW valid \in BOOLEAN, Tap(d, valid)
    PROVE  KeyboardInv'
<1>1. /\ Idle /\ d.at = "shown" /\ dialogs' = dialogs \ {d}
      /\ UNCHANGED <<lifeVars, callback, lastConfig, adapter, keyboard, registered, request,
                     crossed>>
  BY DEF Tap
<1>2. \/ /\ d.fresh /\ handle /\ adapter /\ current
         /\ valid /\ ~(lastConfig = "Dual" /\ request = "Single")
         /\ current' = FALSE /\ ready' = TRUE
         /\ answer' = [mine |-> d.mine, right |-> lastConfig = d.config]
         /\ refused' = refused
      \/ /\ d.fresh /\ handle /\ adapter /\ current
         /\ ~(valid /\ ~(lastConfig = "Dual" /\ request = "Single"))
         /\ refused' = (refused \/ d.mine)
         /\ UNCHANGED <<current, ready, answer>>
      \/ /\ ~(d.fresh /\ handle /\ adapter /\ current)
         /\ UNCHANGED <<current, ready, answer, refused>>
  BY DEF Tap, SubmitInput
<1>3. LifeInv' /\ TitleInv' /\ (Playing' <=> Playing) /\ (Ends(todo)' <=> Ends(todo))
      /\ experiment' = experiment /\ inited' = inited
      /\ instance' = instance /\ (Guarded(todo)' <=> Guarded(todo))
  BY <1>1, Still DEF KeyboardInv
<1>t. Fields /\ Few(dialogs) BY KeyTypes DEF KeyboardInv
<1>4. d \in Dialogs /\ d.config \in ButtonConfigs /\ d.mine \in BOOLEAN
  BY <1>t DEF Few, Dialogs
<1>5. Few(dialogs')
  <2>1. IsFiniteSet(dialogs \ {d}) /\ Cardinality(dialogs \ {d}) = Cardinality(dialogs) - 1
    BY <1>t, FS_RemoveElement DEF Few
  <2>2. Cardinality(dialogs) \in Nat BY <1>t, FS_CardinalityType DEF Few
  <2>3. Cardinality(dialogs \ {d}) <= MaxDialogs
    BY <1>t, <2>1, <2>2, MaxDialogsAssumption DEF Few
  <2> QED BY <1>t, <1>1, <2>1, <2>3 DEF Few
<1>6. Fields'
  <2>1. answer' \in Answers
    <3>1. [mine |-> d.mine, right |-> lastConfig = d.config] \in Answers
      BY <1>4 DEF Answers
    <3>2. answer \in Answers BY <1>t DEF Fields
    <3> QED BY <1>2, <3>1, <3>2
  <2>2. (current' = current \/ current' = FALSE) /\ (ready' = ready \/ ready' = TRUE)
    BY <1>2
  <2>3. current' \in BOOLEAN /\ ready' \in BOOLEAN BY <1>t, <2>2 DEF Fields, KeyFlags
  <2>4. refused' \in BOOLEAN
    <3>1. refused' = refused \/ refused' = (refused \/ d.mine) BY <1>2
    <3>2. refused \in BOOLEAN BY <1>t DEF Fields, KeyFlags
    <3> QED BY <3>1, <3>2
  <2>5. KeyFlags' BY <1>t, <1>1, <2>3, <2>4 DEF Fields, KeyFlags
  <2> QED BY <1>t, <1>1, <2>1, <2>5 DEF Fields
<1>7. AdapterInv' /\ HeldInv'
  <2>1. (current' => current) /\ (ready' => ready \/ current) BY <1>2
  <2> QED BY <1>1, <1>3, <2>1 DEF KeyboardInv, AdapterInv, HeldInv
<1>8. RequestInv' BY <1>1, <1>3 DEF KeyboardInv, RequestInv
<1>9. ASSUME ~crossed' PROVE FreshInv' /\ ReadyInv' /\ WaitInv'
  <2>0. ~crossed /\ FreshInv /\ ReadyInv /\ WaitInv BY <1>1, <1>9 DEF KeyboardInv
  <2>1. FreshInv' BY <1>1, <2>0 DEF FreshInv
  <2>2. CASE d.fresh /\ registered
    <3>1. /\ d.mine /\ lastConfig = d.config /\ d.config = request
          /\ \A e \in dialogs' : ~e.fresh
      BY <1>1, <2>0, <2>2 DEF FreshInv, KeyboardInv, RequestInv
    <3>2. request # "none" /\ ~(lastConfig = "Dual" /\ request = "Single")
      BY <1>4, <3>1 DEF ButtonConfigs
    <3>3. ~ready BY <2>0, <2>2 DEF ReadyInv
    <3>4. ReadyInv'
      <4>1. ready' => answer' = [mine |-> d.mine, right |-> lastConfig = d.config]
        BY <1>2, <3>3
      <4>a. [mine |-> d.mine, right |-> lastConfig = d.config].mine
            /\ [mine |-> d.mine, right |-> lastConfig = d.config].right
        BY <3>1
      <4>2. ready' => answer'.mine /\ answer'.right BY <4>a, <4>1
      <4> QED BY <1>1, <2>2, <3>1, <3>2, <4>2 DEF ReadyInv
    <3>5. WaitInv'
      <4>1. handle BY <3>2 DEF KeyboardInv, RequestInv, Playing, LifeInv, ObjectInv
      <4>2. ~Ends(todo) BY <1>1, Quiet
      <4>3. refused \/ (adapter /\ current) BY <2>0, <3>2, <3>3, <4>2 DEF WaitInv
      <4>4. refused' \/ ready'
        <5>1. CASE refused BY <1>2, <5>1
        <5>2. CASE adapter /\ current
          <6>1. \/ ready' = TRUE
                \/ refused' = (refused \/ d.mine)
            BY <1>2, <2>2, <4>1, <5>2
          <6> QED BY <3>1, <6>1
        <5> QED BY <4>3, <5>1, <5>2
      <4> QED BY <4>4 DEF WaitInv
    <3> QED BY <2>1, <3>4, <3>5
  <2>4. CASE ~registered
    <3>1. ~current /\ ~ready BY <2>4 DEF KeyboardInv, HeldInv
    <3>2. ~current' /\ ~ready' /\ refused' = refused BY <1>2, <3>1
    <3>3. ReadyInv' BY <3>2 DEF ReadyInv
    <3>4. ~Ends(todo) BY <1>1, Quiet
    <3>5. WaitInv' BY <1>1, <2>0, <3>1, <3>2, <3>4 DEF WaitInv
    <3> QED BY <2>1, <3>3, <3>5
  <2>3. CASE ~d.fresh
    <3>1. UNCHANGED <<current, ready, answer, refused>> BY <1>2, <2>3
    <3>2. ReadyInv' BY <1>1, <2>0, <3>1 DEF ReadyInv
    <3>3. (\E e \in dialogs : e.fresh) => \E e \in dialogs' : e.fresh BY <1>1, <2>3
    <3>4. WaitInv' BY <1>1, <1>3, <2>0, <3>1, <3>3 DEF WaitInv
    <3> QED BY <2>1, <3>2, <3>4
  <2> QED BY <2>2, <2>3, <2>4
<1> QED BY <1>3, <1>5, <1>6, <1>7, <1>8, <1>9, KeyAssembled DEF Few

\* Every step keeps the invariant.
LEMMA NextKeyboard == ASSUME KeyboardInv, [KeyboardNext]_allVars PROVE KeyboardInv'
<1>1. CASE UNCHANGED allVars
  <2>1. UNCHANGED lifeVars /\ UNCHANGED keyboardVars BY <1>1 DEF allVars
  <2>2. LifeInv' /\ TitleInv' /\ (Playing' <=> Playing) /\ (Ends(todo)' <=> Ends(todo))
        /\ experiment' = experiment /\ inited' = inited
        /\ instance' = instance /\ (Guarded(todo)' <=> Guarded(todo))
    BY <2>1, Still DEF KeyboardInv
  <2>3. UNCHANGED <<callback, lastConfig, dialogs, adapter, keyboard, registered, current,
                    ready, answer, request, refused, crossed>>
    BY <2>1 DEF keyboardVars, bridgeVars, adapterVars
  <2>4. Fields' /\ Few(dialogs)'
    <3>1. Fields /\ Few(dialogs) BY KeyTypes DEF KeyboardInv
    <3> QED BY <2>3, <3>1 DEF Fields, KeyFlags, Few
  <2>5. AdapterInv' /\ HeldInv' BY <2>2, <2>3 DEF KeyboardInv, AdapterInv, HeldInv
  <2>6. RequestInv' BY <2>2, <2>3 DEF KeyboardInv, RequestInv
  <2>7. ASSUME ~crossed' PROVE FreshInv' /\ ReadyInv' /\ WaitInv'
    <3>1. FreshInv' BY <2>3, <2>7 DEF KeyboardInv, FreshInv
    <3>2. ReadyInv' BY <2>3, <2>7 DEF KeyboardInv, ReadyInv
    <3>3. WaitInv' BY <2>2, <2>3, <2>7 DEF KeyboardInv, WaitInv
    <3> QED BY <3>1, <3>2, <3>3
  <2> QED BY <2>2, <2>4, <2>5, <2>6, <2>7, KeyAssembled
<1>2. CASE KeyboardNext
  BY <1>2, OthersKeyboard, LibraryKeyboard, UnloadKeyboard, ResetKeyboard,
     ExecuteKeyboard, ReceiveKeyboard,
     RegisterAfterLoadKeyboard, StopKeyboard, ShowKeyboard, TapKeyboard
  DEF KeyboardNext
<1> QED BY <1>1, <1>2

LEMMA KeyboardInvariance == KeyboardSpec => []KeyboardInv
<1>1. KeyboardInv /\ [KeyboardNext]_allVars => KeyboardInv' BY NextKeyboard
<1> QED BY <1>1, InitKeyboard, PTL DEF KeyboardSpec

\* A title that waits for text has a dialog on its way or open, and the way back is open,
\* whatever was loaded, failed, reset or stopped before; no pointer is left to a keyboard
\* that is gone (swkbd_apple.cpp, manic_compat.cpp, LibretroCore.m).
THEOREM WaitingTitleHasDialog == KeyboardSpec => []RequestHasDialog
<1>1. KeyboardInv => RequestHasDialog
  <2> SUFFICES ASSUME KeyboardInv, Emulates, request # "none", ~ready, ~refused, ~crossed
               PROVE  adapter /\ current /\ \E d \in dialogs : d.mine /\ d.fresh
    BY DEF RequestHasDialog, KeyboardInv
  <2>1. ~Ends(todo) BY Quiet DEF Emulates, MayRun
  <2>2. FreshInv /\ WaitInv /\ HeldInv BY DEF KeyboardInv
  <2> QED BY <2>1, <2>2 DEF FreshInv, WaitInv, HeldInv
<1> QED BY <1>1, KeyboardInvariance, PTL

\* "Answers of an old game are excluded by the generation": the text a title takes was
\* typed for the very request it has made, with the button that was tapped
\* (azahar_keyboard_request_callback, inputAzaharKeyboard).
THEOREM TextIsForRequest == KeyboardSpec => AnswerIsForRequest
<1>1. KeyboardInv /\ [KeyboardNext]_allVars =>
        [ReceiveData => crossed \/ (answer.mine /\ answer.right)]_allVars
  <2> SUFFICES ASSUME KeyboardInv, ReceiveData, ~crossed PROVE answer.mine /\ answer.right
    OBVIOUS
  <2>1. ready /\ ReadyInv BY DEF KeyboardInv, ReceiveData
  <2> QED BY <2>1 DEF ReadyInv
<1> QED BY <1>1, KeyboardInvariance, PTL DEF KeyboardSpec, AnswerIsForRequest

================================================================================
