----------------------------- MODULE RunLoopProof -----------------------------
(***************************************************************************)
(* Proofs about the passes of the run loop, for any sets of keys, any      *)
(* number of slots and any number of events: no state of a speed, of a     *)
(* rewind or of a pause stays behind, the core rests when it should, and a *)
(* shutdown is taken up by the next pass.                                  *)
(***************************************************************************)
EXTENDS RunLoop, TLAPS

-------------------------------------------------------------------------------
(* The invariant, of one state of the loop and of the history. *)

\* Fast forward, the drivers' mode, the mute and the delay of the audio agree.
SpeedOK(x) ==
    /\ Has(x, "fast") => Has(x, "nonblock")
    /\ Has(x, "muted") => Has(x, "fast") \/ "rewind" \in x.old
    /\ x.afterFrames = 0 /\ ~Has(x, "fast") => x.audioBlocks

\* The core has set a ratio of its own.
OwnRatio(override) == {"fast", "own"} \subseteq override

\* So do the limit of the frames and who has set it.
LimitOK(x) ==
    /\ x.limit = "refresh" => Has(x, "paused") \/ x.runFrames > 0
    /\ x.limit = "override" => OwnRatio(x.current)

\* A rewind from pause does not run frames in a pause, nor under a menu that pauses.
FramesOK(x) ==
    /\ Has(x, "paused") => x.runFrames <= 0
    /\ x.menuPauses /\ x.menu => x.runFrames = -1

\* While the keys of such a menu are flushed, a pause of the hotkey is made good in
\* every pass, and a rewind does not get beyond its first frame.
Restored(x) == x.menuPauses /\ x.flushing > 0 /\ x.hotkey

StateOK(x) == x \in LoopStates /\ SpeedOK(x) /\ LimitOK(x) /\ FramesOK(x)

\* The frames are counted while some are left; those that ran and those that are left
\* make three at most.
BurstOK ==
    /\ loop.runFrames = -1 => burst = -1
    /\ loop.runFrames > 0 => burst >= 0
    /\ burst >= 0 => burst + loop.runFrames <= 3
    /\ burst >= 0 /\ loop.runFrames = 0 => Has(loop, "paused")

LoopInv ==
    /\ LoopTypeOK /\ StateOK(loop)
    /\ Restored(loop) => loop.runFrames \notin {0, 1}
    /\ Has(loop, "nonblock") => Has(loop, "fast") \/ skewed
    /\ BurstOK

-------------------------------------------------------------------------------
(* The parts the checks are built from.  Each leaves alone what the others    *)
(* look at.                                                                   *)

\* Neither y nor x differs in what the menu, the app and the outcome are.
Beside(x, y) ==
    /\ y.hold = x.hold /\ y.menu = x.menu /\ y.flushing = x.flushing
    /\ y.menuPauses = x.menuPauses /\ y.out = x.out /\ y.ran = x.ran

\* Nor in the pause, and y does not ask for a shutdown.
PauseSame(x, y) ==
    /\ y.runFrames = x.runFrames /\ y.hotkey = x.hotkey
    /\ Has(y, "paused") <=> Has(x, "paused")
    /\ Has(y, "shutdown") => Has(x, "shutdown")

\* Nor in the speed.
SpeedSame(x, y) ==
    /\ Has(y, "fast") <=> Has(x, "fast")
    /\ Has(y, "nonblock") <=> Has(x, "nonblock")

\* The state of a key changes that only; the mute looks at the rewind key.
LEMMA RememberKeeps ==
  ASSUME NEW x, StateOK(x), NEW name \in (HotKeys \cup {"menupause"}) \ {"rewind"}, NEW down \in BOOLEAN
  PROVE  /\ StateOK(Remember(x, name, down))
         /\ Beside(x, Remember(x, name, down)) /\ PauseSame(x, Remember(x, name, down))
         /\ SpeedSame(x, Remember(x, name, down))
         /\ Remember(x, name, down).current = x.current
<1> DEFINE y == Remember(x, name, down)
           old == IF down THEN x.old \cup {name} ELSE x.old \ {name}
<1>1. x \in LoopStates
  BY DEF StateOK
<1>2. y = [x EXCEPT !.old = old]
  BY DEF Remember
<1>3. old \in SUBSET (HotKeys \cup {"menupause"}) /\ ("rewind" \in old <=> "rewind" \in x.old)
  BY <1>1 DEF LoopStates
<1> HIDE DEF old, y
<1>4. y \in LoopStates /\ y.old = old
  BY <1>1, <1>2, <1>3 DEF LoopStates
<1>5. Beside(x, y) /\ y.flags = x.flags /\ y.runFrames = x.runFrames /\ y.hotkey = x.hotkey
      /\ y.current = x.current /\ y.limit = x.limit /\ y.afterFrames = x.afterFrames
      /\ y.audioBlocks = x.audioBlocks
  BY <1>1, <1>2 DEF Beside, LoopStates
<1>6. StateOK(y)
  BY <1>3, <1>4, <1>5 DEF StateOK, SpeedOK, LimitOK, FramesOK, Has, Beside
<1>7. PauseSame(x, y) /\ SpeedSame(x, y)
  BY <1>5 DEF PauseSame, SpeedSame, Has
<1> QED
  BY <1>5, <1>6, <1>7 DEF y

\* Pausing and unpausing end a rewind from pause; the limit of the frames follows.
Toggled(x, y) ==
    /\ StateOK(y) /\ Beside(x, y) /\ SpeedSame(x, y)
    /\ Has(y, "shutdown") <=> Has(x, "shutdown")
    /\ y.runFrames = -1

\* runloop_pause_checks.
LEMMA PauseKeeps ==
  ASSUME NEW x, StateOK(x)
  PROVE  /\ Toggled(x, Pause(x)) /\ Has(Pause(x), "paused") /\ Pause(x).hotkey = x.hotkey
         /\ Toggled(x, Unpause(x)) /\ ~Has(Unpause(x), "paused") /\ Unpause(x).hotkey = x.hotkey
<1>1. x \in LoopStates
  BY DEF StateOK
<1>2. ASSUME NEW flags \in SUBSET Flags, flags \ {"paused"} = x.flags \ {"paused"}
      PROVE  LET z == [x EXCEPT !.flags = flags]
                 y == runloop_pause_checks(z)
             IN  Toggled(x, y) /\ y.flags = flags /\ y.hotkey = x.hotkey
  <2> DEFINE z == [x EXCEPT !.flags = flags]
             limit == IF "paused" \in flags THEN "refresh" ELSE "ratio"
             y == runloop_pause_checks(z)
  <2>1. z \in LoopStates /\ z.flags = flags
    BY <1>1 DEF LoopStates
  <2>2. y = [z EXCEPT !.limit = limit, !.runFrames = -1]
    BY <2>1 DEF runloop_pause_checks, Has
  <2>3. limit \in Limits \ {"override"} /\ (limit = "refresh" => "paused" \in flags)
    BY DEF Limits
  <2> HIDE DEF limit, y
  <2>4. y \in LoopStates
    <3>1. -1 \in -1 .. 3
      OBVIOUS
    <3> HIDE DEF z
    <3> QED
      BY <2>1, <2>2, <2>3, <3>1 DEF LoopStates
  <2>5. /\ y.flags = flags /\ y.limit = limit /\ y.runFrames = -1
        /\ y.hotkey = x.hotkey /\ y.old = x.old /\ y.afterFrames = x.afterFrames
        /\ y.audioBlocks = x.audioBlocks /\ Beside(x, y)
    BY <1>1, <2>1, <2>2 DEF LoopStates, Beside
  <2>6. \A f \in Flags \ {"paused"} : Has(y, f) <=> Has(x, f)
    BY <1>2, <2>5 DEF Has
  <2>7. /\ Has(y, "fast") <=> Has(x, "fast")
        /\ Has(y, "nonblock") <=> Has(x, "nonblock")
        /\ Has(y, "muted") <=> Has(x, "muted")
        /\ Has(y, "shutdown") <=> Has(x, "shutdown")
    BY <2>6 DEF Flags
  <2>8. SpeedOK(y)
    BY <2>5, <2>7 DEF StateOK, SpeedOK
  <2>9. LimitOK(y) /\ FramesOK(y)
    BY <2>3, <2>5 DEF LimitOK, FramesOK, Has
  <2> QED
    BY <2>4, <2>5, <2>7, <2>8, <2>9 DEF Toggled, StateOK, SpeedSame, y
<1>3. x.flags \in SUBSET Flags /\ "paused" \in Flags
  BY <1>1 DEF LoopStates, Flags
<1>4. /\ Toggled(x, Pause(x)) /\ Pause(x).flags = x.flags \cup {"paused"}
      /\ Pause(x).hotkey = x.hotkey
  BY <1>2, <1>3 DEF Pause, Set
<1>5. /\ Toggled(x, Unpause(x)) /\ Unpause(x).flags = x.flags \ {"paused"}
      /\ Unpause(x).hotkey = x.hotkey
  BY <1>2, <1>3 DEF Unpause, Clear
<1> QED
  BY <1>4, <1>5 DEF Has

\* The toggle of the pause changes nothing, or it changes the pause.
LEMMA ToggleKeeps ==
  ASSUME NEW x, StateOK(x), NEW pressed \in BOOLEAN, NEW old_pressed \in BOOLEAN,
         NEW focused \in BOOLEAN
  PROVE  LET y == runloop_pause_toggle(x, pressed, old_pressed, focused)
         IN  y = x \/ Toggled(x, y)
<1> DEFINE z == [x EXCEPT !.hotkey = ~Has(x, "paused")]
<1>1. x \in LoopStates
  BY DEF StateOK
<1>2. z \in LoopStates
  BY <1>1 DEF LoopStates, Has
<1>3. /\ z.flags = x.flags /\ z.runFrames = x.runFrames /\ z.old = x.old
      /\ z.limit = x.limit /\ z.current = x.current /\ z.afterFrames = x.afterFrames
      /\ z.audioBlocks = x.audioBlocks /\ Beside(x, z)
  BY <1>1 DEF LoopStates, Beside
<1> HIDE DEF z
<1>4. StateOK(z)
  BY <1>2, <1>3 DEF StateOK, SpeedOK, LimitOK, FramesOK, Has, Beside
<1>5. Toggled(z, PauseToggle(z))
  BY <1>4, PauseKeeps DEF PauseToggle
<1>6. Toggled(x, PauseToggle(z))
  BY <1>3, <1>5 DEF Toggled, Beside, SpeedSame, Has
<1>7. Toggled(x, Pause(x)) /\ Toggled(x, Unpause(x))
  BY PauseKeeps
<1> QED
  BY <1>6, <1>7 DEF runloop_pause_toggle, z

\* Flags that no other state goes with.
LoneFlags == {"slow", "idle", "running", "shutdown", "coreShutdown"}

\* A change of such flags.
LEMMA LoneFlagsKeep ==
  ASSUME NEW x, StateOK(x), NEW flags \in SUBSET Flags, flags \ LoneFlags = x.flags \ LoneFlags
  PROVE  LET y == [x EXCEPT !.flags = flags]
         IN  /\ StateOK(y) /\ Beside(x, y) /\ SpeedSame(x, y) /\ y.flags = flags
             /\ y.runFrames = x.runFrames /\ y.hotkey = x.hotkey /\ y.current = x.current
             /\ y.old = x.old
             /\ Has(y, "paused") <=> Has(x, "paused")
<1> DEFINE y == [x EXCEPT !.flags = flags]
<1>1. x \in LoopStates
  BY DEF StateOK
<1>2. y \in LoopStates /\ y.flags = flags
  BY <1>1 DEF LoopStates
<1>3. /\ y.runFrames = x.runFrames /\ y.hotkey = x.hotkey /\ y.old = x.old
      /\ y.limit = x.limit /\ y.current = x.current /\ y.afterFrames = x.afterFrames
      /\ y.audioBlocks = x.audioBlocks /\ Beside(x, y)
  BY <1>1 DEF LoopStates, Beside
<1> HIDE DEF y
<1>4. \A f \in Flags \ LoneFlags : Has(y, f) <=> Has(x, f)
  BY <1>2 DEF Has
<1>5. /\ Has(y, "fast") <=> Has(x, "fast")
      /\ Has(y, "nonblock") <=> Has(x, "nonblock")
      /\ Has(y, "muted") <=> Has(x, "muted")
      /\ Has(y, "paused") <=> Has(x, "paused")
  BY <1>4 DEF Flags, LoneFlags
<1>6. SpeedOK(y)
  BY <1>3, <1>5 DEF StateOK, SpeedOK
<1>7. LimitOK(y) /\ FramesOK(y)
  BY <1>3, <1>5 DEF StateOK, LimitOK, FramesOK, Beside
<1> QED
  BY <1>2, <1>3, <1>5, <1>6, <1>7 DEF StateOK, SpeedSame, y

\* A mode that is nonblocking without fast forward is none of y's making.
NoSkew(x, y) ==
    Has(y, "nonblock") /\ ~Has(y, "fast") => Has(x, "nonblock") /\ ~Has(x, "fast")

\* driver_set_nonblock_state: the flags change together.
LEMMA FastKeeps ==
  ASSUME NEW x, StateOK(x), NEW fast \in BOOLEAN
  PROVE  LET y == SetFast(x, fast)
         IN  /\ StateOK(y) /\ Beside(x, y) /\ PauseSame(x, y) /\ NoSkew(x, y)
             /\ y.current = x.current /\ y.limit = x.limit /\ y.next = x.next
             /\ y.custom = x.custom
             /\ Has(y, "fast") <=> fast
             /\ Has(y, "nonblock") <=> fast
<1> DEFINE three == {"fast", "nonblock", "muted"}
           flags == IF fast THEN x.flags \cup three ELSE x.flags \ three
           after == IF fast THEN x.afterFrames ELSE 1
           y == SetFast(x, fast)
<1>1. x \in LoopStates
  BY DEF StateOK
<1>2. y = [x EXCEPT !.flags = flags, !.audioBlocks = ~fast, !.afterFrames = after]
  <2>1. CASE fast
    <3>1. (x.flags \cup {"fast"} \cup {"nonblock"}) \cup {"muted"} = flags
      BY <2>1
    <3> QED
      BY <1>1, <2>1, <3>1 DEF SetFast, Put, Set, LoopStates
  <2>2. CASE ~fast
    <3>1. ((x.flags \ {"fast"}) \ {"nonblock"}) \ {"muted"} = flags
      BY <2>2
    <3> QED
      BY <1>1, <2>2, <3>1 DEF SetFast, Put, Clear, LoopStates
  <2> QED
    BY <2>1, <2>2
<1>3. flags \in SUBSET Flags /\ after \in 0 .. 5 /\ (~fast => after # 0)
  BY <1>1 DEF LoopStates, Flags
<1>4. /\ "fast" \in flags <=> fast
      /\ "nonblock" \in flags <=> fast
      /\ "muted" \in flags <=> fast
      /\ "paused" \in flags <=> "paused" \in x.flags
      /\ "shutdown" \in flags <=> "shutdown" \in x.flags
  OBVIOUS
<1> HIDE DEF flags, after, y
<1>5. y \in LoopStates
  BY <1>1, <1>2, <1>3 DEF LoopStates
<1>6. /\ y.flags = flags /\ y.audioBlocks = ~fast /\ y.afterFrames = after
      /\ y.runFrames = x.runFrames /\ y.hotkey = x.hotkey /\ y.old = x.old
      /\ y.limit = x.limit /\ y.current = x.current /\ y.next = x.next
      /\ y.custom = x.custom /\ Beside(x, y)
  BY <1>1, <1>2 DEF LoopStates, Beside
<1>7. SpeedOK(y)
  BY <1>3, <1>4, <1>6 DEF SpeedOK, Has
<1>8. LimitOK(y) /\ FramesOK(y)
  BY <1>4, <1>6 DEF StateOK, LimitOK, FramesOK, Has, Beside
<1> QED
  BY <1>4, <1>5, <1>6, <1>7, <1>8 DEF StateOK, PauseSame, NoSkew, Has, y

\* What a check may do to the speed of a pass.
SpeedStep(x, y) == StateOK(y) /\ Beside(x, y) /\ PauseSame(x, y) /\ NoSkew(x, y)

\* Steps of the speed follow each other.
LEMMA SpeedSteps ==
  ASSUME NEW x, NEW y, NEW z, SpeedStep(x, y), SpeedStep(y, z)
  PROVE  SpeedStep(x, z)
BY DEF SpeedStep, Beside, PauseSame, NoSkew

\* The override of the core changes who sets the limit, together with the limit.
LEMMA OverrideKeeps ==
  ASSUME NEW x, StateOK(x), NEW current \in Overrides, NEW next \in Overrides, NEW pending \in BOOLEAN,
         NEW limit \in Limits,
         limit = "refresh" => x.limit = "refresh",
         limit = "override" => OwnRatio(current),
         NEW y, y = [x EXCEPT !.current = current, !.next = next, !.pending = pending, !.limit = limit]
  PROVE  SpeedStep(x, y)
<1>1. x \in LoopStates
  BY DEF StateOK
<1>2. y \in LoopStates
  BY <1>1 DEF LoopStates
<1>3. /\ y.flags = x.flags /\ y.audioBlocks = x.audioBlocks /\ y.afterFrames = x.afterFrames
      /\ y.runFrames = x.runFrames /\ y.hotkey = x.hotkey /\ y.old = x.old
      /\ y.limit = limit /\ y.current = current /\ Beside(x, y)
  BY <1>1 DEF LoopStates, Beside
<1>4. SpeedOK(y) /\ LimitOK(y) /\ FramesOK(y)
  BY <1>3 DEF StateOK, SpeedOK, LimitOK, FramesOK, Has, Beside
<1> QED
  BY <1>2, <1>3, <1>4 DEF SpeedStep, StateOK, PauseSame, NoSkew, Has

\* runloop_apply_fastmotion_override, where one is pending.
LEMMA PendingKeeps ==
  ASSUME NEW x, StateOK(x)
  PROVE  SpeedStep(x, ApplyPending(x))
<1> DEFINE y == IF Has(x, "fast") # Forced(x.next) THEN SetFast(x, Forced(x.next)) ELSE x
           limit == IF OverrideRatio(x.next) # OverrideRatio(x.current)
                    THEN OverrideRatio(x.next) ELSE y.limit
<1>1. x.next \in Overrides /\ x.current \in Overrides /\ x.limit \in Limits
  BY DEF StateOK, LoopStates
<1>2. SpeedStep(x, x)
  BY DEF SpeedStep, Beside, PauseSame, NoSkew
<1>3. SpeedStep(x, y) /\ y.limit = x.limit /\ y.current = x.current
  <2>1. Forced(x.next) \in BOOLEAN
    BY DEF Forced
  <2> QED
    BY <2>1, <1>2, FastKeeps DEF SpeedStep
<1>4. runloop_apply_fastmotion_override(x)
        = [y EXCEPT !.current = x.next, !.pending = FALSE, !.limit = limit]
  BY DEF runloop_apply_fastmotion_override
<1>5. [y EXCEPT !.current = x.next, !.pending = FALSE, !.limit = limit]
        = [y EXCEPT !.current = x.next, !.next = y.next, !.pending = FALSE, !.limit = limit]
  BY <1>3 DEF SpeedStep, StateOK, LoopStates
<1>6. /\ limit \in Limits
      /\ limit = "refresh" => y.limit = "refresh"
      /\ limit = "override" => OwnRatio(x.next)
  BY <1>1, <1>3 DEF OverrideRatio, OwnRatio, StateOK, LimitOK, Limits
<1>7. StateOK(y) /\ y.next \in Overrides
  BY <1>3 DEF SpeedStep, StateOK, LoopStates
<1> HIDE DEF y, limit
<1>8. SpeedStep(y, runloop_apply_fastmotion_override(x))
  <2>1. runloop_apply_fastmotion_override(x)
          = [y EXCEPT !.current = x.next, !.next = y.next, !.pending = FALSE, !.limit = limit]
    BY <1>4, <1>5
  <2> QED
    BY ONLY <1>1, <1>6, <1>7, <2>1, OverrideKeeps, ZenonT(60)
<1> QED
  BY <1>2, <1>3, <1>8, SpeedSteps DEF ApplyPending

\* What unloading a core leaves of its override.
LEMMA UnloadedKeeps ==
  ASSUME NEW x, StateOK(x)
  PROVE  SpeedStep(x, Unloaded(x))
<1> DEFINE y == ApplyPending(x)
           limit == IF OverrideRatio(y.current) = "override" THEN "ratio" ELSE y.limit
<1>1. SpeedStep(x, y)
  BY PendingKeeps
<1> HIDE DEF y
<1>2. StateOK(y) /\ y.limit \in Limits
  BY <1>1 DEF SpeedStep, StateOK, LoopStates
<1>3. /\ limit \in Limits
      /\ limit = "refresh" => y.limit = "refresh"
      /\ limit # "override"
  BY <1>2 DEF StateOK, LimitOK, OwnRatio, OverrideRatio, Limits
<1>4. {} \in Overrides
  BY DEF Overrides
<1>5. Unloaded(x) = [y EXCEPT !.current = {}, !.next = {}, !.pending = FALSE, !.limit = limit]
  BY DEF Unloaded, runloop_fastmotion_override_free, y
<1> HIDE DEF limit
<1>6. SpeedStep(y, Unloaded(x))
  BY <1>2, <1>3, <1>4, <1>5, OverrideKeeps
<1> QED
  BY <1>1, <1>6, SpeedSteps

\* Who sets the limit, by runloop_get_fastforward_ratio.
LEMMA RatioKeeps ==
  ASSUME NEW x, StateOK(x), NEW y, y = [x EXCEPT !.limit = Ratio(x)]
  PROVE  SpeedStep(x, y) /\ y.flags = x.flags
<1>1. x \in LoopStates
  BY DEF StateOK
<1>2. x.current \in Overrides /\ x.next \in Overrides /\ x.pending \in BOOLEAN
  BY <1>1 DEF LoopStates
<1>3. /\ Ratio(x) \in Limits /\ Ratio(x) # "refresh"
      /\ Ratio(x) = "override" => OwnRatio(x.current)
  BY DEF Ratio, OverrideRatio, OwnRatio, Limits
<1>4. y = [x EXCEPT !.current = x.current, !.next = x.next, !.pending = x.pending, !.limit = Ratio(x)]
      /\ y.flags = x.flags
  BY <1>1 DEF LoopStates
<1> QED
  BY ONLY StateOK(x), <1>2, <1>3, <1>4, OverrideKeeps, ZenonT(60)

\* What the core that follows finds.
LEMMA ReplacedKeeps ==
  ASSUME NEW x, StateOK(x)
  PROVE  SpeedStep(x, Replaced(x))
<1>1. SpeedStep(x, Unloaded(x)) /\ StateOK(Unloaded(x))
  BY UnloadedKeeps DEF SpeedStep
<1>2. SpeedStep(Unloaded(x), Replaced(x))
  BY <1>1, RatioKeeps DEF Replaced
<1> QED
  BY <1>1, <1>2, SpeedSteps

-------------------------------------------------------------------------------
(* One pass.  s is the loop at its start, k the keys and how the circumstance. *)

Passes == [x : LoopStates, k : SUBSET HotKeys, how : Circumstances,
           paused : BOOLEAN, focused : BOOLEAN, menuWas : BOOLEAN]

\* What the state x that a pass has come to has to do with its start.
Since(x, s, how) ==
    /\ StateOK(x) /\ x.hold = s.hold
    /\ Has(x, "nonblock") /\ ~Has(x, "fast") =>
         (Has(s, "nonblock") /\ ~Has(s, "fast")) \/ (Has(s, "paused") /\ how = "notimeskip")
    /\ \/ x.runFrames \in {s.runFrames, -1}
       \/ x.runFrames = 3 /\ s.runFrames = -1
    /\ x.runFrames = 0 /\ Has(s, "paused") => Has(x, "paused")
    /\ Restored(x) => x.runFrames \in {-1, 3}

PassOK(p, s, k, how) ==
    /\ p \in Passes /\ p.how = how /\ Since(p.x, s, how)
    /\ p.k \subseteq k \cup {"pause"}
    /\ p.paused => Has(s, "paused")
    /\ p.x.ran => p.x.menu /\ ~Has(s, "paused") /\ p.x.out # "QUIT"

\* Before the rewind key is looked at nothing has ended a pause, and the menu alone
\* has stopped a rewind from it.
Early(p, s) ==
    /\ p.paused <=> Has(s, "paused")
    /\ p.paused => Has(p.x, "paused")
    /\ p.paused /\ ~p.x.menu /\ p.x.runFrames = -1 => s.runFrames = -1

BeforeMenu(p, s) ==
    /\ Early(p, s)
    /\ p.paused /\ p.x.runFrames = -1 => s.runFrames = -1
    /\ p.x.out \in {"go", "QUIT"} /\ ~p.x.ran

\* A request to shut down is taken up.
Taken(p) == p.x.out = "QUIT" \/ ~Has(p.x, "shutdown")

\* The core runs as the player would expect it.
Asked(s, k) == k \cap {"advance", "rewind"} # {} \/ s.hold

Expected(p, s, k, how) ==
    p.x.out = "ITERATE" =>
      /\ Has(s, "paused") => Asked(s, k)
      /\ how = "unfocused" => Has(s, "paused") /\ "rewind" \in p.x.old

\* After the focus and the pause keys.
Ready(p, s, k, how) ==
    p.x.out = "go" => /\ how = "unfocused" => p.paused
                      /\ Has(s, "paused") /\ ~p.paused => Asked(s, k)

\* A change of the state of a pass leaves the rest of it.
LEMMA PassPut ==
  ASSUME NEW p \in Passes, NEW y \in LoopStates
  PROVE  LET q == [p EXCEPT !.x = y]
         IN  /\ q \in Passes /\ q.x = y /\ q.k = p.k /\ q.how = p.how
             /\ q.paused = p.paused /\ q.focused = p.focused /\ q.menuWas = p.menuWas
BY DEF Passes

\* A step of either kind.
PassStep(x, y) ==
    /\ StateOK(y) /\ Beside(x, y) /\ NoSkew(x, y)
    /\ Has(y, "shutdown") => Has(x, "shutdown")
    /\ \/ y.runFrames = -1
       \/ /\ y.runFrames = x.runFrames /\ y.hotkey = x.hotkey
          /\ Has(y, "paused") <=> Has(x, "paused")

\* What is one, and that such steps follow each other.
LEMMA PassSteps ==
  ASSUME NEW x, NEW y
  PROVE  /\ StateOK(x) => PassStep(x, x)
         /\ SpeedStep(x, y) => PassStep(x, y)
         /\ Toggled(x, y) => PassStep(x, y)
         /\ \A z : PassStep(x, y) /\ PassStep(y, z) => PassStep(x, z)
<1>1. StateOK(x) => PassStep(x, x)
  BY DEF PassStep, Beside, NoSkew
<1>2. SpeedStep(x, y) => PassStep(x, y)
  BY DEF PassStep, SpeedStep, PauseSame
<1>3. Toggled(x, y) => PassStep(x, y)
  BY DEF PassStep, Toggled, SpeedSame, NoSkew
<1>4. ASSUME NEW z, PassStep(x, y), PassStep(y, z) PROVE PassStep(x, z)
  BY <1>4 DEF PassStep, Beside, NoSkew
<1> QED
  BY <1>1, <1>2, <1>3, <1>4

\* They keep the relation to the start.
LEMMA SinceKept ==
  ASSUME NEW x, NEW y, NEW s, NEW how, Since(x, s, how), PassStep(x, y)
  PROVE  Since(y, s, how)
BY DEF Since, PassStep, Beside, NoSkew, Restored

\* The same of a whole pass.
LEMMA PassKept ==
  ASSUME NEW p, NEW y, NEW s, NEW k, NEW how, PassOK(p, s, k, how), PassStep(p.x, y)
  PROVE  /\ PassOK([p EXCEPT !.x = y], s, k, how) /\ StateOK(y) /\ Beside(p.x, y)
         /\ Has(y, "shutdown") => Has(p.x, "shutdown")
<1>1. StateOK(y) /\ y \in LoopStates /\ Beside(p.x, y)
      /\ (Has(y, "shutdown") => Has(p.x, "shutdown"))
  BY DEF PassStep, StateOK
<1>2. Since(y, s, how)
  BY SinceKept DEF PassOK
<1> QED
  BY <1>1, <1>2, PassPut DEF PassOK, Beside

\* What a check returns ends the pass.
LEMMA ReturnKeeps ==
  ASSUME NEW x, StateOK(x), NEW result \in Results
  PROVE  LET y == Return(x, result)
         IN  /\ StateOK(y) /\ y.out = result /\ y.flags = x.flags /\ y.old = x.old
             /\ y.hold = x.hold /\ y.menu = x.menu /\ y.flushing = x.flushing
             /\ y.menuPauses = x.menuPauses /\ y.ran = x.ran /\ y.hotkey = x.hotkey
             /\ y.runFrames = x.runFrames
<1> DEFINE y == Return(x, result)
<1>1. x \in LoopStates
  BY DEF StateOK
<1>2. y \in LoopStates
  BY <1>1 DEF LoopStates, Return
<1>3. /\ y.flags = x.flags /\ y.audioBlocks = x.audioBlocks /\ y.afterFrames = x.afterFrames
      /\ y.runFrames = x.runFrames /\ y.hotkey = x.hotkey /\ y.old = x.old
      /\ y.limit = x.limit /\ y.current = x.current /\ y.menu = x.menu
      /\ y.menuPauses = x.menuPauses /\ y.hold = x.hold /\ y.flushing = x.flushing
      /\ y.ran = x.ran /\ y.out = result
  BY <1>1 DEF LoopStates, Return
<1> HIDE DEF y
<1>4. SpeedOK(y) /\ LimitOK(y) /\ FramesOK(y)
  BY <1>3 DEF StateOK, SpeedOK, LimitOK, FramesOK, Has
<1> QED
  BY <1>2, <1>3, <1>4 DEF StateOK, y

\* It changes nothing else of the pass.
LEMMA PassReturns ==
  ASSUME NEW p, NEW x, NEW s, NEW k, NEW how, PassOK([p EXCEPT !.x = x], s, k, how),
         p \in Passes, StateOK(x),
         NEW result \in Results \ {"QUIT"}
  PROVE  LET q == [p EXCEPT !.x = Return(x, result)]
         IN  /\ PassOK(q, s, k, how) /\ q.x.out = result /\ q.paused = p.paused
             /\ q.x.runFrames = x.runFrames /\ q.x.flags = x.flags /\ q.x.old = x.old
<1> DEFINE y == Return(x, result)
<1>1. /\ StateOK(y) /\ y.out = result /\ y.flags = x.flags /\ y.old = x.old /\ y.hold = x.hold
      /\ y.menu = x.menu /\ y.flushing = x.flushing /\ y.menuPauses = x.menuPauses
      /\ y.ran = x.ran /\ y.hotkey = x.hotkey /\ y.runFrames = x.runFrames
  BY ReturnKeeps
<1> HIDE DEF y
<1>2. y \in LoopStates /\ x \in LoopStates
  BY <1>1 DEF StateOK
<1>3. LET r == [p EXCEPT !.x = x]
          q == [p EXCEPT !.x = y]
      IN  /\ r.x = x /\ r.k = p.k /\ r.how = p.how /\ r.paused = p.paused
          /\ q.x = y /\ q.k = p.k /\ q.how = p.how /\ q.paused = p.paused /\ q \in Passes
  BY <1>2, PassPut
<1>4. Since(x, s, how) /\ (x.ran => x.menu /\ ~Has(s, "paused"))
  BY <1>3 DEF PassOK
<1>5. Since(y, s, how)
  BY <1>1, <1>4 DEF Since, Has, Restored
<1> QED
  BY <1>1, <1>3, <1>4, <1>5 DEF PassOK, y

-------------------------------------------------------------------------------
(* The checks, one after the other. *)

\* A loop between two passes, and what a pass starts with.
Starts(s, k, how) ==
    /\ StateOK(s) /\ (Restored(s) => s.runFrames \notin {0, 1})
    /\ k \in SUBSET HotKeys /\ how \in Circumstances

Start(s, k, how) ==
    [x |-> [s EXCEPT !.out = "go", !.ran = FALSE], k |-> k, how |-> how,
     paused |-> Has(s, "paused"), focused |-> TRUE, menuWas |-> s.menu]

\* The keys are flushed after the menu: either that is over, or a pause of the hotkey
\* is made good.
LEMMA FlushOK ==
  ASSUME NEW s, NEW k, NEW how, Starts(s, k, how)
  PROVE  LET p == CheckFlush(Start(s, k, how))
         IN  /\ PassOK(p, s, k, how) /\ BeforeMenu(p, s) /\ p.x.out = "go"
<1> DEFINE p0 == Start(s, k, how)
           x0 == [s EXCEPT !.out = "go", !.ran = FALSE]
           left == IF k # {} THEN s.flushing ELSE s.flushing - 1
           x1 == [x0 EXCEPT !.flushing = left]
           byMenu == Has(s, "paused") /\ ~s.hotkey /\ s.menuPauses
           restore == ~byMenu /\ s.hotkey /\ s.menuPauses
           k2 == IF byMenu THEN {"pause"} ELSE {}
           x2 == IF restore THEN Pause(x1) ELSE x1
<1>1. s \in LoopStates /\ StateOK(s)
  BY DEF Starts, StateOK
<1>2. /\ x0 \in LoopStates /\ x0.flags = s.flags /\ x0.flushing = s.flushing /\ x0.out = "go" /\ ~x0.ran
      /\ x0.runFrames = s.runFrames /\ x0.hotkey = s.hotkey /\ x0.old = s.old /\ x0.limit = s.limit
      /\ x0.current = s.current /\ x0.menu = s.menu /\ x0.menuPauses = s.menuPauses
      /\ x0.hold = s.hold /\ x0.afterFrames = s.afterFrames /\ x0.audioBlocks = s.audioBlocks
  BY <1>1 DEF LoopStates, Results
<1>3. p0 \in Passes /\ p0.x = x0 /\ p0.k = k /\ p0.how = how /\ (p0.paused <=> Has(s, "paused"))
  <2>1. p0 = [x |-> x0, k |-> k, how |-> how, paused |-> Has(s, "paused"), focused |-> TRUE,
              menuWas |-> s.menu]
    BY DEF Start
  <2>2. s.menu \in BOOLEAN /\ Has(s, "paused") \in BOOLEAN
    BY <1>1 DEF LoopStates, Has
  <2> HIDE DEF x0, p0
  <2> QED
    BY <1>2, <2>1, <2>2 DEF Starts, Passes
<1> HIDE DEF x0, p0
<1>4. StateOK(x0)
  BY <1>1, <1>2 DEF StateOK, SpeedOK, LimitOK, FramesOK, Has
<1>5. s.flushing \in 0 .. 2
  BY <1>1 DEF LoopStates
<1>6. CASE s.flushing = 0
  <2>1. CheckFlush(p0) = p0
    BY <1>2, <1>3, <1>6 DEF CheckFlush
  <2>2. Since(x0, s, how)
    BY <1>2, <1>4, <1>6 DEF Since, Has, Restored
  <2> QED
    BY <1>2, <1>3, <2>1, <2>2 DEF PassOK, BeforeMenu, Early, Has, p0
<1>7. CASE s.flushing # 0
  <2>1. left \in 0 .. 2
    BY <1>5, <1>7
  <2>2. /\ x1 \in LoopStates /\ x1.flags = s.flags /\ x1.flushing = left /\ x1.out = "go" /\ ~x1.ran
        /\ x1.runFrames = s.runFrames /\ x1.hotkey = s.hotkey /\ x1.old = s.old /\ x1.limit = s.limit
        /\ x1.current = s.current /\ x1.menu = s.menu /\ x1.menuPauses = s.menuPauses
        /\ x1.hold = s.hold /\ x1.afterFrames = s.afterFrames /\ x1.audioBlocks = s.audioBlocks
    BY <1>2, <2>1 DEF LoopStates
  <2>3. CheckFlush(p0) = IF left = 0 THEN [p0 EXCEPT !.x = x1] ELSE [p0 EXCEPT !.k = k2, !.x = x2]
    BY <1>2, <1>3, <1>7, <2>2, ZenonT(60) DEF CheckFlush
  <2> HIDE DEF x1, left
  <2>4. StateOK(x1)
    BY <1>1, <2>2 DEF StateOK, SpeedOK, LimitOK, FramesOK, Has
  <2>5. CASE left = 0
    <3>1. LET q == [p0 EXCEPT !.x = x1]
          IN  q \in Passes /\ q.x = x1 /\ q.k = k /\ q.how = how /\ (q.paused <=> Has(s, "paused"))
      BY <1>3, <2>2, PassPut
    <3>2. Since(x1, s, how)
      BY <2>2, <2>4, <2>5 DEF Since, Has, Restored
    <3> QED
      BY <2>2, <2>3, <2>5, <3>1, <3>2 DEF PassOK, BeforeMenu, Early, Has, p0
  <2>6. CASE left # 0
    <3>1. Toggled(x1, Pause(x1)) /\ Has(Pause(x1), "paused") /\ Pause(x1).hotkey = x1.hotkey
      BY <2>4, PauseKeeps
    <3>2. /\ StateOK(x2) /\ x2.out = "go" /\ ~x2.ran /\ x2.hold = s.hold /\ x2.menu = s.menu
          /\ SpeedSame(s, x2) /\ x2.menuPauses = s.menuPauses /\ x2.hotkey = s.hotkey
      BY <2>2, <2>4, <3>1 DEF Toggled, Beside, SpeedSame, Has
    <3>3. x2.runFrames = IF restore THEN -1 ELSE s.runFrames
      BY <2>2, <3>1 DEF Toggled
    <3>4. Has(s, "paused") => Has(x2, "paused")
      BY <2>2, <3>1 DEF Has
    <3>5. Restored(x2) => restore \/ Has(s, "paused")
      BY <3>2 DEF Restored
    <3>6. Restored(x2) => x2.runFrames = -1
      BY <3>2, <3>3 DEF Restored
    <3>7. Has(s, "paused") /\ restore => s.runFrames = -1
      <4>1. Has(s, "paused") => s.runFrames \in {-1, 0}
        BY <1>1 DEF StateOK, FramesOK, LoopStates
      <4>2. restore => Restored(s)
        BY <1>5, <1>7 DEF Restored
      <4> QED
        BY <4>1, <4>2 DEF Starts
    <3> HIDE DEF x2, restore
    <3>8. Since(x2, s, how)
      BY <3>2, <3>3, <3>4, <3>6 DEF Since, SpeedSame
    <3>9. LET q == [p0 EXCEPT !.k = k2, !.x = x2]
          IN  /\ q \in Passes /\ q.x = x2 /\ q.k = k2 /\ q.how = how
              /\ q.paused <=> Has(s, "paused")
      BY <1>3, <3>2 DEF Passes, StateOK, HotKeys
    <3> QED
      BY <2>3, <2>6, <3>2, <3>3, <3>4, <3>7, <3>8, <3>9 DEF PassOK, BeforeMenu, Early, p0
  <2> QED
    BY <2>5, <2>6
<1> QED
  BY <1>6, <1>7

\* Fields that nothing else of the proofs looks at.
LEMMA OtherFieldsKeep ==
  ASSUME NEW x, StateOK(x), NEW dummy \in BOOLEAN, NEW slot \in -1 .. LastSlot,
         NEW stepping \in BOOLEAN, NEW oldFocus \in BOOLEAN,
         NEW y, y = [x EXCEPT !.dummy = dummy, !.slot = slot, !.stepping = stepping,
                              !.oldFocus = oldFocus]
  PROVE  SpeedStep(x, y) /\ SpeedSame(x, y)
<1>1. x \in LoopStates
  BY DEF StateOK
<1>2. y \in LoopStates
  BY <1>1, ZenonT(60) DEF LoopStates
<1>3. /\ y.flags = x.flags /\ y.audioBlocks = x.audioBlocks /\ y.afterFrames = x.afterFrames
      /\ y.runFrames = x.runFrames /\ y.hotkey = x.hotkey /\ y.old = x.old
      /\ y.limit = x.limit /\ y.current = x.current /\ Beside(x, y)
  BY <1>1 DEF LoopStates, Beside
<1>4. SpeedOK(y) /\ LimitOK(y) /\ FramesOK(y)
  BY <1>3 DEF StateOK, SpeedOK, LimitOK, FramesOK, Has, Beside
<1> QED
  BY <1>2, <1>3, <1>4 DEF SpeedStep, StateOK, PauseSame, NoSkew, Has, SpeedSame

\* A key other than the rewind key is remembered.
LEMMA RememberStep ==
  ASSUME NEW x, StateOK(x), NEW name \in (HotKeys \cup {"menupause"}) \ {"rewind"}, NEW down \in BOOLEAN
  PROVE  SpeedStep(x, Remember(x, name, down))
BY RememberKeeps DEF SpeedStep, SpeedSame, NoSkew

\* The end is asked for by a key or by the core: a request is taken up.
LEMMA QuitOK ==
  ASSUME NEW s, NEW k, NEW how, NEW p, PassOK(p, s, k, how), BeforeMenu(p, s), p.x.out = "go"
  PROVE  /\ PassOK(CheckQuit(p), s, k, how) /\ BeforeMenu(CheckQuit(p), s) /\ Taken(CheckQuit(p))
<1> DEFINE wanted == (Pressed(p.x, p.k, "quit") /\ p.how # "late") \/ Has(p.x, "shutdown")
           x == Remember(p.x, "quit", "quit" \in p.k)
           dummy == Has(x, "coreShutdown") /\ p.how = "dummy"
           z == IF dummy THEN Replaced(x) ELSE IF Has(x, "coreShutdown") THEN Unloaded(x) ELSE x
           gone == {"coreShutdown", "running"} \cup IF dummy THEN {"shutdown"} ELSE {}
           z1 == [z EXCEPT !.flags = z.flags \ gone]
           y == [z1 EXCEPT !.dummy = z1.dummy \/ dummy]
<1>1. p \in Passes /\ StateOK(p.x)
  BY DEF PassOK, Since
<1>2. SpeedStep(p.x, x)
  <2>1. "quit" \in (HotKeys \cup {"menupause"}) \ {"rewind"} /\ ("quit" \in p.k) \in BOOLEAN
    BY DEF HotKeys
  <2> QED
    BY <1>1, <2>1, RememberStep
<1> HIDE DEF x
<1>3. SpeedStep(p.x, z)
  <2>1. SpeedStep(x, Unloaded(x)) /\ SpeedStep(x, Replaced(x))
    BY <1>2, UnloadedKeeps, ReplacedKeeps DEF SpeedStep
  <2> HIDE DEF dummy
  <2> QED
    BY <1>2, <2>1, SpeedSteps
<1>4. CheckQuit(p) = [p EXCEPT !.x = IF ~wanted THEN x ELSE IF dummy THEN y ELSE Return(y, "QUIT")]
  <2>1. y = [z EXCEPT !.flags = z.flags \ gone, !.dummy = z.dummy \/ dummy]
    <3> HIDE DEF z, gone, dummy
    <3> QED
      BY <1>3 DEF SpeedStep, StateOK, LoopStates
  <2> HIDE DEF y
  <2> QED
    BY <2>1 DEF CheckQuit, Going, x
<1> HIDE DEF z
<1>5. SpeedStep(z, z1) /\ z1.flags = z.flags \ gone
  <2>1. z.flags \in SUBSET Flags
    BY <1>3 DEF SpeedStep, StateOK, LoopStates
  <2>2. gone \subseteq LoneFlags
    BY DEF LoneFlags
  <2> HIDE DEF gone
  <2>3. z.flags \ gone \in SUBSET Flags /\ (z.flags \ gone) \ LoneFlags = z.flags \ LoneFlags
    BY <2>1, <2>2
  <2>4. LET v == [z EXCEPT !.flags = z.flags \ gone]
        IN  /\ StateOK(v) /\ Beside(z, v) /\ SpeedSame(z, v) /\ v.flags = z.flags \ gone
            /\ v.runFrames = z.runFrames /\ v.hotkey = z.hotkey /\ v.current = z.current
            /\ Has(v, "paused") <=> Has(z, "paused")
    <3>1. StateOK(z)
      BY <1>3 DEF SpeedStep
    <3> QED
      BY ONLY <2>3, <3>1, LoneFlagsKeep, ZenonT(60)
  <2> QED
    BY <2>4 DEF SpeedStep, PauseSame, NoSkew, SpeedSame, Has
<1> HIDE DEF z1
<1>6. SpeedStep(z1, y) /\ y.flags = z1.flags
  <2>1. z1 \in LoopStates
    BY <1>5 DEF SpeedStep, StateOK
  <2>2. z1.slot \in -1 .. LastSlot /\ z1.stepping \in BOOLEAN /\ z1.oldFocus \in BOOLEAN
        /\ (z1.dummy \/ dummy) \in BOOLEAN
    BY <2>1 DEF LoopStates
  <2> HIDE DEF dummy
  <2>3. y = [z1 EXCEPT !.dummy = z1.dummy \/ dummy, !.slot = z1.slot, !.stepping = z1.stepping,
                       !.oldFocus = z1.oldFocus] /\ y.flags = z1.flags
    BY <2>1 DEF LoopStates
  <2> HIDE DEF y
  <2> QED
    BY <1>5, <2>2, <2>3, OtherFieldsKeep DEF SpeedStep
<1> HIDE DEF y
<1>7. SpeedStep(p.x, y) /\ y.flags = z.flags \ gone
  BY <1>3, <1>5, <1>6, SpeedSteps
<1>8. ASSUME NEW v, SpeedStep(p.x, v)
      PROVE  LET q == [p EXCEPT !.x = v]
             IN  /\ PassOK(q, s, k, how) /\ BeforeMenu(q, s) /\ q.x = v
                 /\ Has(v, "shutdown") => Has(p.x, "shutdown")
  <2>1. PassOK([p EXCEPT !.x = v], s, k, how) /\ StateOK(v)
        /\ (Has(v, "shutdown") => Has(p.x, "shutdown"))
    BY <1>8, PassKept, PassSteps
  <2>2. LET q == [p EXCEPT !.x = v] IN q.x = v /\ q.paused = p.paused
    BY <1>1, <2>1, PassPut DEF StateOK
  <2> QED
    BY <1>8, <2>1, <2>2 DEF BeforeMenu, Early, SpeedStep, PauseSame, Beside
<1>9. CASE ~wanted
  BY <1>2, <1>4, <1>8, <1>9 DEF Taken
<1>10. CASE wanted /\ dummy
  <2>1. ~Has(y, "shutdown")
    BY <1>7, <1>10 DEF Has
  <2> QED
    BY <1>4, <1>7, <1>8, <1>10, <2>1 DEF Taken
<1>11. CASE wanted /\ ~dummy
  <2> DEFINE w == Return(y, "QUIT")
  <2>1. /\ StateOK(w) /\ w.out = "QUIT" /\ w.flags = y.flags /\ w.hold = y.hold
        /\ w.menu = y.menu /\ w.flushing = y.flushing /\ w.menuPauses = y.menuPauses
        /\ w.ran = y.ran /\ w.hotkey = y.hotkey /\ w.runFrames = y.runFrames
    BY <1>7, ReturnKeeps DEF SpeedStep, Results
  <2> HIDE DEF w
  <2>2. LET q == [p EXCEPT !.x = w]
        IN  /\ q.x = w /\ q.k = p.k /\ q.how = p.how /\ q.paused = p.paused /\ q \in Passes
    BY <1>1, <2>1, PassPut DEF StateOK
  <2>3. Since(y, s, how) /\ ~y.ran
    BY <1>7, SinceKept, PassSteps DEF PassOK, BeforeMenu, SpeedStep, Beside
  <2>4. Since(w, s, how)
    BY <2>1, <2>3 DEF Since, Has, Restored
  <2>5. /\ w.runFrames = p.x.runFrames /\ w.menu = p.x.menu
        /\ Has(w, "paused") <=> Has(p.x, "paused")
    BY <1>7, <2>1 DEF SpeedStep, Beside, PauseSame, Has
  <2> QED
    BY <1>4, <1>11, <2>1, <2>2, <2>3, <2>4, <2>5 DEF PassOK, BeforeMenu, Early, Taken, w
<1> QED
  BY <1>9, <1>10, <1>11

\* The menu: one that pauses ends a rewind when it opens, and has none to end when it
\* closes.
LEMMA MenuChanges ==
  ASSUME NEW x, StateOK(x), NEW y, y = MenuOpens(x) \/ (x.menu /\ y = MenuCloses(x))
  PROVE  /\ StateOK(y) /\ SpeedSame(x, y) /\ y.hold = x.hold /\ y.out = x.out /\ y.ran = x.ran
         /\ Has(y, "shutdown") => Has(x, "shutdown")
         /\ Has(x, "paused") => Has(y, "paused")
         /\ (y.runFrames = x.runFrames /\ (Has(y, "paused") => Has(x, "paused"))) \/ y.runFrames = -1
         /\ y.runFrames = -1 => x.runFrames = -1 \/ y.menu
         /\ Restored(y) => y.runFrames = -1 \/ (Restored(x) /\ y.runFrames = x.runFrames)
<1>1. x \in LoopStates
  BY DEF StateOK
<1>2. CASE y = MenuOpens(x)
  <2> DEFINE z == IF x.menuPauses THEN Pause(x) ELSE x
  <2>1. Toggled(x, Pause(x)) /\ Has(Pause(x), "paused")
    BY PauseKeeps
  <2>2. /\ StateOK(z) /\ Beside(x, z) /\ SpeedSame(x, z)
        /\ Has(z, "shutdown") => Has(x, "shutdown")
        /\ Has(x, "paused") => Has(z, "paused")
        /\ z = x \/ z.runFrames = -1
        /\ x.menuPauses => z.runFrames = -1
    BY <2>1 DEF Toggled, Beside, SpeedSame
  <2>3. y = [z EXCEPT !.menu = TRUE]
    BY <1>2 DEF MenuOpens
  <2> HIDE DEF z
  <2>4. z \in LoopStates
    BY <2>2 DEF StateOK
  <2>5. /\ y \in LoopStates /\ y.flags = z.flags /\ y.audioBlocks = z.audioBlocks
        /\ y.afterFrames = z.afterFrames /\ y.runFrames = z.runFrames /\ y.hotkey = z.hotkey
        /\ y.old = z.old /\ y.limit = z.limit /\ y.current = z.current /\ y.menu
        /\ y.hold = z.hold /\ y.flushing = z.flushing /\ y.menuPauses = z.menuPauses
        /\ y.out = z.out /\ y.ran = z.ran
    BY <2>3, <2>4 DEF LoopStates
  <2>6. SpeedOK(y) /\ LimitOK(y) /\ FramesOK(y)
    BY <2>2, <2>5 DEF StateOK, SpeedOK, LimitOK, FramesOK, Has, Beside
  <2>7. Restored(y) => y.runFrames = -1
    BY <2>2, <2>5 DEF Restored, Beside
  <2> QED
    BY <2>2, <2>5, <2>6, <2>7 DEF StateOK, SpeedSame, Has, Beside
<1>3. CASE y = MenuCloses(x) /\ x.menu
  <2>1. /\ y \in LoopStates /\ y.flags = x.flags /\ y.audioBlocks = x.audioBlocks
        /\ y.afterFrames = x.afterFrames /\ y.runFrames = x.runFrames /\ y.hotkey = x.hotkey
        /\ y.old = x.old /\ y.limit = x.limit /\ y.current = x.current /\ ~y.menu
        /\ y.hold = x.hold /\ y.menuPauses = x.menuPauses /\ y.out = x.out /\ y.ran = x.ran
    <3>1. 2 \in 0 .. 2 /\ y = [x EXCEPT !.menu = FALSE, !.flushing = 2]
      BY <1>3 DEF MenuCloses
    <3> QED
      BY <1>1, <3>1 DEF LoopStates
  <2>2. SpeedOK(y) /\ LimitOK(y) /\ FramesOK(y)
    BY <2>1 DEF StateOK, SpeedOK, LimitOK, FramesOK, Has
  <2>3. Restored(y) => y.runFrames = -1
    BY <1>3, <2>1 DEF Restored, StateOK, FramesOK
  <2> QED
    BY <2>1, <2>2, <2>3 DEF StateOK, SpeedSame, Has
<1> QED
  BY <1>2, <1>3

LEMMA MenuOK ==
  ASSUME NEW s, NEW k, NEW how, NEW p, PassOK(p, s, k, how), BeforeMenu(p, s), Taken(p)
  PROVE  LET q == CheckMenuToggle(p)
         IN  /\ PassOK(q, s, k, how) /\ Early(q, s) /\ Taken(q)
             /\ q.x.out \in {"go", "QUIT"} /\ ~q.x.ran
<1> DEFINE x == Remember(p.x, "menu", "menu" \in p.k)
           y == IF Pressed(p.x, p.k, "menu")
                THEN IF ~x.menu THEN MenuOpens(x)
                     ELSE IF ~x.dummy /\ Has(x, "running") THEN MenuCloses(x) ELSE x
                ELSE IF x.dummy /\ ~x.menu THEN MenuOpens(x) ELSE x
<1>1. p \in Passes /\ StateOK(p.x) /\ Since(p.x, s, how)
  BY DEF PassOK, Since
<1>2. SpeedStep(p.x, x)
  <2>1. "menu" \in (HotKeys \cup {"menupause"}) \ {"rewind"} /\ ("menu" \in p.k) \in BOOLEAN
    BY DEF HotKeys
  <2> QED
    BY <1>1, <2>1, RememberStep
<1>3. CheckMenuToggle(p) = IF p.x.out = "go" THEN [p EXCEPT !.x = y] ELSE p
  BY DEF CheckMenuToggle, Going
<1> HIDE DEF x
<1>4. y = x \/ y = MenuOpens(x) \/ (x.menu /\ y = MenuCloses(x))
  OBVIOUS
<1> HIDE DEF y
<1>5. Since(x, s, how) /\ StateOK(x)
  BY <1>1, <1>2, SinceKept, PassSteps DEF SpeedStep
<1>6. /\ StateOK(y) /\ SpeedSame(x, y) /\ y.hold = x.hold /\ y.out = x.out /\ y.ran = x.ran
      /\ Has(y, "shutdown") => Has(x, "shutdown")
      /\ Has(x, "paused") => Has(y, "paused")
      /\ (y.runFrames = x.runFrames /\ (Has(y, "paused") => Has(x, "paused"))) \/ y.runFrames = -1
      /\ y.runFrames = -1 => x.runFrames = -1 \/ y.menu
      /\ Restored(y) => y.runFrames = -1 \/ (Restored(x) /\ y.runFrames = x.runFrames)
  <2>1. CASE y = x
    BY <1>5, <2>1 DEF SpeedSame
  <2>2. CASE y = MenuOpens(x) \/ (x.menu /\ y = MenuCloses(x))
    BY <1>5, <2>2, MenuChanges
  <2> QED
    BY <1>4, <2>1, <2>2
<1>7. Since(y, s, how)
  BY <1>5, <1>6 DEF Since, SpeedSame
<1>8. LET q == [p EXCEPT !.x = y]
      IN  /\ q.x = y /\ q.k = p.k /\ q.how = p.how /\ q.paused = p.paused /\ q \in Passes
  BY <1>1, <1>6, PassPut DEF StateOK
<1>9. /\ x.runFrames = p.x.runFrames /\ x.out = p.x.out /\ x.ran = p.x.ran
      /\ Has(x, "paused") <=> Has(p.x, "paused")
      /\ Has(x, "shutdown") => Has(p.x, "shutdown")
  BY <1>2 DEF SpeedStep, Beside, PauseSame
<1>10. CASE p.x.out = "go"
  BY <1>3, <1>6, <1>7, <1>8, <1>9, <1>10 DEF PassOK, BeforeMenu, Early, Taken
<1>11. CASE p.x.out # "go"
  BY <1>3, <1>11 DEF BeforeMenu
<1> QED
  BY <1>10, <1>11

\* Behind the menu a frame runs only without a pause; an idle loop sleeps.
LEMMA IdleOK ==
  ASSUME NEW s, NEW k, NEW how, NEW p, PassOK(p, s, k, how), Early(p, s), Taken(p),
         p.x.out \in {"go", "QUIT"}, ~p.x.ran
  PROVE  LET q == CheckIdle(p)
         IN  /\ PassOK(q, s, k, how) /\ Early(q, s) /\ Taken(q)
             /\ q.x.out \in {"go", "QUIT", "SLEEP"}
<1> DEFINE runs == p.x.menu /\ ~Has(p.x, "idle") /\ LibretroRunning(p.x)
           x == [p.x EXCEPT !.ran = p.x.ran \/ runs]
           ends == Has(x, "idle") \/ (x.menu /\ p.how = "unfocused")
<1>1. p \in Passes /\ StateOK(p.x) /\ Since(p.x, s, how) /\ p.x \in LoopStates
  BY DEF PassOK, Since, StateOK
<1>2. CheckIdle(p) = IF p.x.out = "go" THEN [p EXCEPT !.x = IF ends THEN Return(x, "SLEEP") ELSE x]
                     ELSE p
  BY DEF CheckIdle, Going
<1>3. runs => p.x.menu /\ ~Has(s, "paused")
  BY DEF LibretroRunning, Early
<1> HIDE DEF runs
<1>4. /\ x \in LoopStates /\ x.flags = p.x.flags /\ x.audioBlocks = p.x.audioBlocks
      /\ x.afterFrames = p.x.afterFrames /\ x.runFrames = p.x.runFrames /\ x.hotkey = p.x.hotkey
      /\ x.old = p.x.old /\ x.limit = p.x.limit /\ x.current = p.x.current /\ x.menu = p.x.menu
      /\ x.hold = p.x.hold /\ x.flushing = p.x.flushing /\ x.menuPauses = p.x.menuPauses
      /\ x.out = p.x.out /\ (x.ran => runs)
  BY <1>1 DEF LoopStates
<1> HIDE DEF x, ends
<1>5. StateOK(x)
  BY <1>1, <1>4 DEF StateOK, SpeedOK, LimitOK, FramesOK, Has
<1>6. Since(x, s, how)
  BY <1>1, <1>4, <1>5 DEF Since, Has, Restored
<1>7. LET q == [p EXCEPT !.x = x]
      IN  /\ q.x = x /\ q.k = p.k /\ q.how = p.how /\ q.paused = p.paused /\ q \in Passes
  BY <1>1, <1>4, PassPut
<1>8. CASE p.x.out # "go"
  BY <1>2, <1>8
<1>9. CASE p.x.out = "go"
  <2>1. PassOK([p EXCEPT !.x = x], s, k, how)
    BY <1>3, <1>4, <1>6, <1>7, <1>9 DEF PassOK
  <2>2. ~Has(x, "shutdown") /\ (Has(x, "paused") <=> Has(p.x, "paused"))
    BY <1>4, <1>9 DEF Taken, Has
  <2>3. CASE ~ends
    BY <1>2, <1>4, <1>7, <1>9, <2>1, <2>2, <2>3 DEF Early, Taken
  <2>4. CASE ends
    <3> DEFINE w == Return(x, "SLEEP")
               q == [p EXCEPT !.x = w]
    <3>1. /\ PassOK(q, s, k, how) /\ q.x.out = "SLEEP" /\ q.paused = p.paused
          /\ q.x.runFrames = x.runFrames /\ q.x.flags = x.flags
      BY <1>1, <1>5, <2>1, PassReturns DEF Results
    <3>2. q.x.menu = x.menu
      <4>1. StateOK(w) /\ w.menu = x.menu
        BY <1>5, ReturnKeeps DEF Results
      <4> QED
        BY <1>1, <4>1, PassPut DEF StateOK
    <3> HIDE DEF q
    <3>3. CheckIdle(p) = q
      BY <1>2, <1>9, <2>4 DEF q
    <3> QED
      BY <1>4, <2>2, <3>1, <3>2, <3>3 DEF Early, Taken, Has
  <2> QED
    BY <2>3, <2>4
<1> QED
  BY <1>8, <1>9

\* The rewind key mutes, as long as it is down.
LEMMA RewindKeyKeeps ==
  ASSUME NEW x, StateOK(x), NEW pressed \in BOOLEAN
  PROVE  LET was == "rewind" \in x.old
             y == Remember(IF pressed # was THEN Put(x, "muted", pressed) ELSE x, "rewind", pressed)
         IN  SpeedStep(x, y) /\ ("rewind" \in y.old <=> pressed)
<1> DEFINE was == "rewind" \in x.old
           flags == IF pressed = was THEN x.flags
                    ELSE IF pressed THEN x.flags \cup {"muted"} ELSE x.flags \ {"muted"}
           old == IF pressed THEN x.old \cup {"rewind"} ELSE x.old \ {"rewind"}
           y == Remember(IF pressed # was THEN Put(x, "muted", pressed) ELSE x, "rewind", pressed)
<1>1. x \in LoopStates
  BY DEF StateOK
<1>2. x.flags \in SUBSET Flags /\ x.old \in SUBSET (HotKeys \cup {"menupause"}) /\ was \in BOOLEAN
  BY <1>1 DEF LoopStates
<1>3. y = [x EXCEPT !.flags = flags, !.old = old]
  <2>1. CASE pressed = was
    BY <1>1, <2>1 DEF Remember, LoopStates
  <2>2. CASE pressed # was /\ pressed
    BY <1>1, <2>2 DEF Remember, Put, Set, LoopStates
  <2>3. CASE pressed # was /\ ~pressed
    BY <1>1, <2>3 DEF Remember, Put, Clear, LoopStates
  <2> QED
    BY <2>1, <2>2, <2>3
<1>4. flags \in SUBSET Flags /\ old \in SUBSET (HotKeys \cup {"menupause"})
  BY <1>2 DEF Flags, HotKeys
<1>5. /\ "fast" \in flags <=> "fast" \in x.flags
      /\ "nonblock" \in flags <=> "nonblock" \in x.flags
      /\ "paused" \in flags <=> "paused" \in x.flags
      /\ "shutdown" \in flags <=> "shutdown" \in x.flags
      /\ "rewind" \in old <=> pressed
      /\ "muted" \in flags => pressed \/ ("muted" \in x.flags /\ ~was)
  BY <1>2
<1> HIDE DEF flags, old, y
<1>6. y \in LoopStates
  BY <1>1, <1>3, <1>4 DEF LoopStates
<1>7. /\ y.flags = flags /\ y.old = old /\ y.audioBlocks = x.audioBlocks
      /\ y.afterFrames = x.afterFrames /\ y.runFrames = x.runFrames /\ y.hotkey = x.hotkey
      /\ y.limit = x.limit /\ y.current = x.current /\ Beside(x, y)
  BY <1>1, <1>3 DEF LoopStates, Beside
<1>8. SpeedOK(y)
  BY <1>5, <1>7 DEF StateOK, SpeedOK, Has
<1>9. LimitOK(y) /\ FramesOK(y)
  BY <1>5, <1>7 DEF StateOK, LimitOK, FramesOK, Has, Beside
<1> QED
  BY <1>5, <1>6, <1>7, <1>8, <1>9 DEF SpeedStep, StateOK, PauseSame, NoSkew, Has, y

\* A rewind from pause: the core runs because it was asked to, for the frames that
\* are left or for three.
LEMMA RewindOK ==
  ASSUME NEW s, NEW k, NEW how, NEW p, PassOK(p, s, k, how), Early(p, s), Taken(p),
         p.x.out \in {"go", "QUIT", "SLEEP"}
  PROVE  LET q == CheckRewind(p)
         IN  /\ PassOK(q, s, k, how) /\ Taken(q) /\ Expected(q, s, k, how)
             /\ q.paused <=> Has(s, "paused")
<1> DEFINE pressed == ("rewind" \in p.k \/ p.x.hold) /\ ~p.x.menu
           was == "rewind" \in p.x.old
           x == Remember(IF pressed # was THEN Put(p.x, "muted", pressed) ELSE p.x, "rewind", pressed)
           y == IF x.runFrames = -1 THEN [Clear(x, "paused") EXCEPT !.runFrames = 3] ELSE x
           rests == p.paused /\ pressed /\ was /\ p.x.runFrames = 0
           rewinds == pressed /\ p.how # "norewind" /\ p.paused /\ ~p.x.menu
<1>1. p \in Passes /\ StateOK(p.x) /\ Since(p.x, s, how) /\ p.x \in LoopStates
  BY DEF PassOK, Since, StateOK
<1>2. pressed \in BOOLEAN /\ (pressed => ~p.x.menu /\ ("rewind" \in p.k \/ p.x.hold))
  BY <1>1 DEF LoopStates, Passes
<1>3. CheckRewind(p) =
        IF p.x.out # "go" THEN p
        ELSE [p EXCEPT !.x = IF rests THEN Return(p.x, "PAUSE")
                             ELSE IF rewinds THEN Return(y, "ITERATE") ELSE x]
  BY DEF CheckRewind, Going
<1>4. pressed /\ p.paused => Asked(s, k)
  BY <1>1, <1>2 DEF Asked, PassOK, Since
<1> HIDE DEF pressed
<1>5. SpeedStep(p.x, x) /\ ("rewind" \in x.old <=> pressed)
  BY <1>1, <1>2, RewindKeyKeeps
<1> HIDE DEF x
<1>6. PassOK([p EXCEPT !.x = x], s, k, how) /\ StateOK(x) /\ Since(x, s, how)
  BY <1>1, <1>5, PassKept, SinceKept, PassSteps
<1>7. LET q == [p EXCEPT !.x = x]
      IN  /\ q.x = x /\ q.k = p.k /\ q.how = p.how /\ q.paused = p.paused /\ q \in Passes
  BY <1>1, <1>6, PassPut DEF StateOK
<1>8. CASE p.x.out # "go"
  BY <1>3, <1>8 DEF Expected, Early
<1>9. CASE p.x.out = "go" /\ rests
  <2>1. [p EXCEPT !.x = p.x] = p
    BY <1>1 DEF Passes
  <2>2. LET q == [p EXCEPT !.x = Return(p.x, "PAUSE")]
        IN  /\ PassOK(q, s, k, how) /\ q.x.out = "PAUSE" /\ q.paused = p.paused
            /\ q.x.runFrames = p.x.runFrames /\ q.x.flags = p.x.flags
    BY <1>1, <2>1, PassReturns DEF Results
  <2> QED
    BY <1>3, <1>9, <2>2 DEF Taken, Has, Expected, Early
<1>10. CASE p.x.out = "go" /\ ~rests /\ rewinds
  <2>1. x.runFrames = p.x.runFrames /\ x.menu = p.x.menu /\ x.out = p.x.out /\ x.ran = p.x.ran
        /\ (Has(x, "shutdown") => Has(p.x, "shutdown"))
    BY <1>5 DEF SpeedStep, Beside, PauseSame
  <2>2. x \in LoopStates
    BY <1>6 DEF StateOK
  <2>3. /\ StateOK(y) /\ Since(y, s, how) /\ y.old = x.old /\ y.menu = x.menu /\ y.out = x.out
        /\ y.ran = x.ran /\ (Has(y, "shutdown") => Has(x, "shutdown"))
    <3>1. CASE x.runFrames # -1
      BY <1>6, <3>1
    <3>2. CASE x.runFrames = -1
      <4>0. x.flags \ {"paused"} \in SUBSET Flags /\ 3 \in -1 .. 3
        BY <2>2 DEF LoopStates
      <4>1. /\ y \in LoopStates /\ y.flags = x.flags \ {"paused"} /\ y.runFrames = 3
            /\ y.audioBlocks = x.audioBlocks /\ y.afterFrames = x.afterFrames
            /\ y.hotkey = x.hotkey /\ y.old = x.old /\ y.limit = x.limit
            /\ y.current = x.current /\ y.menu = x.menu /\ y.hold = x.hold
            /\ y.flushing = x.flushing /\ y.menuPauses = x.menuPauses
            /\ y.out = x.out /\ y.ran = x.ran
        BY <2>2, <3>2, <4>0 DEF Clear, LoopStates
      <4>2. SpeedOK(y)
        BY <1>6, <4>1 DEF StateOK, SpeedOK, Has
      <4>3. LimitOK(y) /\ FramesOK(y)
        BY <1>6, <1>10, <2>1, <4>1 DEF StateOK, LimitOK, FramesOK, Has
      <4>4. s.runFrames = -1
        BY <1>10, <2>1, <3>2 DEF Early
      <4>5. Since(y, s, how)
        BY <1>6, <4>1, <4>2, <4>3, <4>4 DEF Since, StateOK, Has
      <4> QED
        BY <4>1, <4>2, <4>3, <4>5 DEF StateOK, Has
    <3> QED
      BY <3>1, <3>2
  <2> HIDE DEF y
  <2>4. LET r == [p EXCEPT !.x = y]
        IN  /\ r.x = y /\ r.k = p.k /\ r.how = p.how /\ r.paused = p.paused /\ r \in Passes
    BY <1>1, <2>3, PassPut DEF StateOK
  <2>5. PassOK([p EXCEPT !.x = y], s, k, how)
    BY <1>10, <2>1, <2>3, <2>4 DEF PassOK
  <2>6. LET q == [p EXCEPT !.x = Return(y, "ITERATE")]
        IN  /\ PassOK(q, s, k, how) /\ q.x.out = "ITERATE" /\ q.paused = p.paused
            /\ q.x.old = y.old /\ q.x.flags = y.flags
    BY <1>1, <2>3, <2>5, PassReturns DEF Results
  <2>7. Has(s, "paused") /\ "rewind" \in y.old
    BY <1>5, <1>10, <2>3 DEF Early
  <2>8. ~Has(y, "shutdown")
    BY <1>10, <2>1, <2>3 DEF Taken
  <2>9. Asked(s, k)
    BY <1>4, <1>10
  <2> HIDE DEF rests, rewinds
  <2> QED
    BY <1>3, <1>10, <2>6, <2>7, <2>8, <2>9 DEF Taken, Has, Expected, Early
<1>11. CASE p.x.out = "go" /\ ~rests /\ ~rewinds
  <2>1. x.out = "go" /\ (Has(x, "shutdown") => Has(p.x, "shutdown"))
    BY <1>5, <1>11 DEF SpeedStep, Beside, PauseSame
  <2> HIDE DEF rests, rewinds
  <2> QED
    BY <1>3, <1>6, <1>7, <1>11, <2>1 DEF Taken, Expected, Early
<1> QED
  BY <1>8, <1>9, <1>10, <1>11

\* A toggle of the pause with the static variables that go with it.
LEMMA PauseStep ==
  ASSUME NEW x, StateOK(x), NEW pressed \in BOOLEAN, NEW old_pressed \in BOOLEAN,
         NEW focused \in BOOLEAN, NEW stepping \in BOOLEAN, NEW oldFocus \in BOOLEAN,
         NEW z, z = [runloop_pause_toggle(x, pressed, old_pressed, focused)
                       EXCEPT !.oldFocus = oldFocus, !.stepping = stepping]
  PROVE  PassStep(x, z)
<1> DEFINE y == runloop_pause_toggle(x, pressed, old_pressed, focused)
<1>1. PassStep(x, y)
  BY ToggleKeeps, PassSteps
<1> HIDE DEF y
<1>2. StateOK(y) /\ y \in LoopStates
  BY <1>1 DEF PassStep, StateOK
<1>3. y.dummy \in BOOLEAN /\ y.slot \in -1 .. LastSlot
  BY <1>2 DEF LoopStates
<1>4. z = [y EXCEPT !.oldFocus = oldFocus, !.stepping = stepping]
  BY DEF y
<1>5. z = [y EXCEPT !.dummy = y.dummy, !.slot = y.slot, !.stepping = stepping, !.oldFocus = oldFocus]
  BY <1>2, <1>4 DEF LoopStates
<1>6. SpeedStep(y, z)
  BY <1>2, <1>3, <1>5, OtherFieldsKeep
<1> QED
  BY <1>1, <1>6, PassSteps

\* With the menu open the pass ends, and no frame of the game follows.
LEMMA MenuPauseOK ==
  ASSUME NEW s, NEW k, NEW how, NEW p, PassOK(p, s, k, how), Taken(p), Expected(p, s, k, how),
         p.paused <=> Has(s, "paused")
  PROVE  LET q == CheckMenuPause(p)
         IN  /\ PassOK(q, s, k, how) /\ Taken(q) /\ Expected(q, s, k, how)
             /\ q.paused <=> Has(s, "paused")
<1> DEFINE down == "pause" \in p.k
           was == "menupause" \in p.x.old
           x == runloop_pause_toggle(p.x, down, was, TRUE)
           y == [x EXCEPT !.oldFocus = TRUE]
           z == Remember(y, "menupause", down)
<1>1. p \in Passes /\ StateOK(p.x) /\ Since(p.x, s, how)
  BY DEF PassOK, Since
<1>2. CheckMenuPause(p) = IF p.x.menu /\ p.x.out = "go" THEN [p EXCEPT !.x = Return(z, "MENU")] ELSE p
  BY DEF CheckMenuPause, Going
<1> HIDE DEF z
<1>0. down \in BOOLEAN /\ was \in BOOLEAN
  OBVIOUS
<1> HIDE DEF was
<1>3. PassStep(p.x, y)
  <2>1. PassStep(p.x, x) /\ StateOK(x) /\ x \in LoopStates
    <3>1. x = p.x \/ Toggled(p.x, x)
      BY <1>0, <1>1, ToggleKeeps
    <3> HIDE DEF x
    <3> QED
      BY <1>1, <3>1, PassSteps DEF PassStep, StateOK
  <2> HIDE DEF x
  <2>2. y = [x EXCEPT !.dummy = x.dummy, !.slot = x.slot, !.stepping = x.stepping, !.oldFocus = TRUE]
        /\ x.dummy \in BOOLEAN /\ x.slot \in -1 .. LastSlot /\ x.stepping \in BOOLEAN
    BY <2>1 DEF LoopStates
  <2> HIDE DEF y
  <2>3. SpeedStep(x, y)
    BY <2>1, <2>2, OtherFieldsKeep
  <2> QED
    BY <2>1, <2>3, PassSteps
<1> HIDE DEF y
<1>4. PassStep(p.x, z)
  <2>1. StateOK(y)
    BY <1>3 DEF PassStep
  <2>2. "menupause" \in (HotKeys \cup {"menupause"}) \ {"rewind"}
    BY DEF HotKeys
  <2>3. SpeedStep(y, z)
    BY <1>0, <2>1, <2>2, RememberStep DEF z
  <2> QED
    BY <1>3, <2>3, PassSteps
<1> HIDE DEF z
<1>5. /\ PassOK([p EXCEPT !.x = z], s, k, how) /\ StateOK(z) /\ Beside(p.x, z)
      /\ Has(z, "shutdown") => Has(p.x, "shutdown")
  BY <1>1, <1>4, PassKept
<1>6. LET q == [p EXCEPT !.x = Return(z, "MENU")]
      IN  /\ PassOK(q, s, k, how) /\ q.x.out = "MENU" /\ q.paused = p.paused
          /\ q.x.runFrames = z.runFrames /\ q.x.flags = z.flags
  BY <1>1, <1>5, PassReturns DEF Results
<1>7. CASE p.x.menu /\ p.x.out = "go"
  BY <1>2, <1>5, <1>6, <1>7 DEF Taken, Has, Expected
<1>8. CASE ~(p.x.menu /\ p.x.out = "go")
  BY <1>2, <1>8
<1> QED
  BY <1>7, <1>8

\* The focus, the pause and the frame advance: a core without the focus sleeps, and
\* a paused one goes on when the keys ask for that.
LEMMA PauseOK ==
  ASSUME NEW s, NEW k, NEW how, NEW p, PassOK(p, s, k, how), Taken(p), Expected(p, s, k, how),
         p.paused <=> Has(s, "paused")
  PROVE  LET q == CheckPause(p)
         IN  PassOK(q, s, k, how) /\ Taken(q) /\ Expected(q, s, k, how) /\ Ready(q, s, k, how)
<1> DEFINE trigger == Pressed(p.x, p.k, "advance")
           focused == p.how # "unfocused"
           pressed == \/ "pause" \in p.k \/ ("start" \in p.k /\ p.paused)
                      \/ trigger /\ ~Has(p.x, "paused")
           stepping == trigger \/ (p.x.stepping /\ "pause" \notin p.k)
           was == "pause" \in p.x.old
           held == "advance" \in p.k
           toggled == runloop_pause_toggle(p.x, pressed, was, focused)
           z == [toggled EXCEPT !.oldFocus = focused, !.stepping = stepping]
           z1 == Remember(z, "pause", pressed)
           y == Remember(z1, "advance", held)
           oneshot == trigger \/ "rewind" \in p.k
           now == Has(y, "paused")
           seen == focused /\ (now => oneshot)
           halted == p.paused /\ ~(now /\ (oneshot \/ stepping))
           q == [p EXCEPT !.x = y, !.focused = seen, !.paused = halted]
<1>1. p \in Passes /\ StateOK(p.x) /\ Since(p.x, s, how) /\ p.x \in LoopStates
  BY DEF PassOK, Since, StateOK
<1>2. CheckPause(p) = IF p.x.out # "go" THEN p
                      ELSE IF SleepsUnfocused(q) THEN [q EXCEPT !.x = Return(y, "SLEEP")] ELSE q
  BY DEF CheckPause, Going
<1>3. trigger \in BOOLEAN /\ focused \in BOOLEAN /\ pressed \in BOOLEAN /\ stepping \in BOOLEAN
      /\ (oneshot => "advance" \in p.k \/ "rewind" \in p.k)
      /\ was \in BOOLEAN /\ held \in BOOLEAN
  BY <1>1 DEF Pressed, LoopStates
<1>4. oneshot => Asked(s, k)
  BY <1>3 DEF Asked, PassOK
<1> HIDE DEF trigger, pressed, stepping, was, held, focused
<1>5. PassStep(p.x, z)
  BY <1>1, <1>3, PauseStep
<1> HIDE DEF z
<1>6. PassStep(p.x, y)
  <2>1. {"pause", "advance"} \subseteq (HotKeys \cup {"menupause"}) \ {"rewind"}
    BY DEF HotKeys
  <2>2. PassStep(z, z1) /\ StateOK(z1)
    BY <1>3, <1>5, <2>1, RememberStep, PassSteps DEF PassStep
  <2> HIDE DEF z1
  <2>3. PassStep(z1, y)
    BY <1>3, <2>1, <2>2, RememberStep, PassSteps
  <2> HIDE DEF y
  <2> QED
    BY <1>5, <2>2, <2>3, PassSteps
<1> HIDE DEF y
<1>7. /\ StateOK(y) /\ Beside(p.x, y) /\ Since(y, s, how)
      /\ Has(y, "shutdown") => Has(p.x, "shutdown")
  BY <1>1, <1>6, SinceKept DEF PassStep
<1>8. now \in BOOLEAN /\ seen \in BOOLEAN /\ halted \in BOOLEAN /\ (halted => p.paused)
  BY <1>1, <1>3 DEF Has, Passes
<1> HIDE DEF now
<1>9. CASE p.x.out # "go"
  BY <1>2, <1>9 DEF Ready
<1>10. CASE p.x.out = "go"
  <2>1. /\ q \in Passes /\ q.x = y /\ q.k = p.k /\ q.how = p.how /\ (q.paused <=> halted)
        /\ (q.focused <=> seen)
    <3> HIDE DEF seen, halted
    <3> QED
      BY <1>1, <1>7, <1>8 DEF Passes, StateOK
  <2>2. (~halted /\ p.paused /\ seen => oneshot) /\ (how = "unfocused" => ~seen)
    BY DEF PassOK, focused
  <2> HIDE DEF q, seen, halted, oneshot
  <2>3. PassOK(q, s, k, how) /\ q.x.out = "go" /\ ~Has(q.x, "shutdown")
    BY <1>7, <1>8, <1>10, <2>1 DEF PassOK, Beside, Taken
  <2>4. CASE ~SleepsUnfocused(q)
    <3>1. CheckPause(p) = q
      BY <1>2, <1>10, <2>4
    <3>2. Ready(q, s, k, how)
      BY <1>4, <2>1, <2>2, <2>4 DEF Ready, SleepsUnfocused
    <3> QED
      BY <2>3, <3>1, <3>2 DEF Taken, Expected
  <2>5. CASE SleepsUnfocused(q)
    <3>1. [q EXCEPT !.x = y] = q
      BY <2>1 DEF Passes
    <3>2. LET r == [q EXCEPT !.x = Return(y, "SLEEP")]
          IN  /\ PassOK(r, s, k, how) /\ r.x.out = "SLEEP" /\ r.paused = q.paused
              /\ r.x.runFrames = y.runFrames /\ r.x.flags = y.flags
      BY <1>7, <2>1, <2>3, <3>1, PassReturns DEF Results
    <3> QED
      BY <1>2, <1>10, <2>1, <2>3, <2>5, <3>2 DEF Taken, Expected, Ready, Has
  <2> QED
    BY <2>4, <2>5
<1> QED
  BY <1>9, <1>10

\* What the checks of the speed start from and keep.
Late(p, s, k, how) ==
    PassOK(p, s, k, how) /\ Taken(p) /\ Expected(p, s, k, how) /\ Ready(p, s, k, how)

LEMMA LateKept ==
  ASSUME NEW p, NEW y, NEW s, NEW k, NEW how, Late(p, s, k, how), p.x.out = "go", PassStep(p.x, y)
  PROVE  Late([p EXCEPT !.x = y], s, k, how)
<1>1. /\ PassOK([p EXCEPT !.x = y], s, k, how) /\ StateOK(y) /\ Beside(p.x, y)
      /\ Has(y, "shutdown") => Has(p.x, "shutdown")
  BY PassKept DEF Late
<1>2. LET q == [p EXCEPT !.x = y] IN q.x = y /\ q.paused = p.paused
  BY <1>1, PassPut DEF Late, PassOK, StateOK
<1> QED
  BY <1>1, <1>2 DEF Late, Taken, Expected, Ready, Beside

\* The override of the core.
LEMMA OverrideOK ==
  ASSUME NEW s, NEW k, NEW how, NEW p, Late(p, s, k, how)
  PROVE  Late(CheckOverride(p), s, k, how)
<1>1. PassStep(p.x, ApplyPending(p.x))
  BY PendingKeeps, PassSteps DEF Late, PassOK, Since
<1>2. CheckOverride(p) = IF p.x.out = "go" THEN [p EXCEPT !.x = ApplyPending(p.x)] ELSE p
  BY DEF CheckOverride, Going
<1> QED
  BY <1>1, <1>2, LateKept

\* The mode is marked nonblocking so that fast forward ends.
LEMMA NonblockKeeps ==
  ASSUME NEW x, StateOK(x)
  PROVE  LET y == Set(x, "nonblock")
         IN  StateOK(y) /\ Beside(x, y) /\ PauseSame(x, y) /\ y.current = x.current
<1> DEFINE y == Set(x, "nonblock")
           flags == x.flags \cup {"nonblock"}
<1>1. x \in LoopStates
  BY DEF StateOK
<1>2. flags \in SUBSET Flags
  BY <1>1 DEF LoopStates, Flags
<1>3. /\ y \in LoopStates /\ y.flags = flags /\ y.audioBlocks = x.audioBlocks
      /\ y.afterFrames = x.afterFrames /\ y.runFrames = x.runFrames /\ y.hotkey = x.hotkey
      /\ y.old = x.old /\ y.limit = x.limit /\ y.current = x.current /\ Beside(x, y)
  BY <1>1, <1>2 DEF LoopStates, Set, Beside
<1>4. SpeedOK(y) /\ LimitOK(y) /\ FramesOK(y)
  BY <1>3 DEF StateOK, SpeedOK, LimitOK, FramesOK, Has, Beside
<1> QED
  BY <1>3, <1>4 DEF StateOK, PauseSame, Has

\* Fast forward: both modes change together, but for a key in a pause while netplay
\* forbids to skip time.
LEMMA FastmotionOK ==
  ASSUME NEW s, NEW k, NEW how, NEW p, Late(p, s, k, how)
  PROVE  Late(CheckFastmotion(p), s, k, how)
<1> DEFINE check == Pressed(p.x, p.k, "ff") \/ ("ffhold" \in p.k) # ("ffhold" \in p.x.old)
           halt == check /\ p.paused
           x == IF halt THEN Set(p.x, "nonblock") ELSE p.x
           toggled == IF ~check \/ p.how = "notimeskip" THEN x
                      ELSE IF Has(x, "nonblock") THEN SetFast(x, FALSE)
                      ELSE [SetFast(x, TRUE) EXCEPT !.limit = Ratio(x)]
           ff == "ff" \in p.k /\ ~halt
           ffhold == "ffhold" \in p.k /\ ~halt
           z == Remember(toggled, "ff", ff)
           y == Remember(z, "ffhold", ffhold)
<1>1. p \in Passes /\ StateOK(p.x) /\ Since(p.x, s, how) /\ PassOK(p, s, k, how) /\ p.how = how
  BY DEF Late, PassOK, Since
<1>2. CheckFastmotion(p) = IF p.x.out = "go" /\ "inhibit" \notin p.x.current THEN [p EXCEPT !.x = y] ELSE p
  <2>1. [p EXCEPT !.x = y] = [p EXCEPT !.x = Remember(Remember(toggled, "ff", "ff" \in p.k /\ ~halt),
                                                     "ffhold", "ffhold" \in p.k /\ ~halt)]
    OBVIOUS
  <2> HIDE DEF y
  <2> QED
    BY <2>1 DEF CheckFastmotion, Going
<1>3. halt \in BOOLEAN /\ ff \in BOOLEAN /\ ffhold \in BOOLEAN
  BY <1>1 DEF Passes, Pressed
<1>4. halt => check /\ Has(s, "paused")
  BY <1>1 DEF PassOK
<1> HIDE DEF check, halt, ff, ffhold
<1>5. StateOK(x) /\ Beside(p.x, x) /\ PauseSame(p.x, x) /\ x.current = p.x.current /\ (~halt => x = p.x)
  BY <1>1, NonblockKeeps DEF Beside, PauseSame
<1> HIDE DEF x
<1>6. ASSUME p.x.out = "go" PROVE Late([p EXCEPT !.x = y], s, k, how)
  <2>1. ASSUME NEW w, StateOK(w), Beside(p.x, w), PauseSame(p.x, w),
               NoSkew(p.x, w) \/ (Has(s, "paused") /\ how = "notimeskip")
        PROVE  Since(w, s, how)
    BY <1>1, <2>1 DEF Since, Beside, PauseSame, NoSkew, Restored
  <2>2. /\ StateOK(toggled) /\ Beside(p.x, toggled) /\ PauseSame(p.x, toggled)
        /\ NoSkew(p.x, toggled) \/ (Has(s, "paused") /\ how = "notimeskip")
    <3>1. CASE ~check \/ p.how = "notimeskip"
      BY <1>1, <1>4, <1>5, <3>1 DEF NoSkew
    <3>2. CASE check /\ p.how # "notimeskip" /\ Has(x, "nonblock")
      <4>1. toggled = SetFast(x, FALSE)
        BY <3>2
      <4>2. /\ StateOK(toggled) /\ Beside(x, toggled) /\ PauseSame(x, toggled)
            /\ ~Has(toggled, "nonblock")
        BY <1>5, <4>1, FastKeeps
      <4> QED
        BY <1>5, <4>2 DEF Beside, PauseSame, NoSkew
    <3>3. CASE check /\ p.how # "notimeskip" /\ ~Has(x, "nonblock")
      <4> DEFINE v == SetFast(x, TRUE)
      <4>1. /\ StateOK(v) /\ Beside(x, v) /\ PauseSame(x, v) /\ Has(v, "fast")
            /\ v.current = x.current /\ v.custom = x.custom
        BY <1>5, FastKeeps
      <4> HIDE DEF v
      <4>2. toggled = [v EXCEPT !.limit = Ratio(v)]
        BY <3>3, <4>1 DEF Ratio, v
      <4> HIDE DEF toggled
      <4>3. SpeedStep(v, toggled) /\ toggled.flags = v.flags
        BY <4>1, <4>2, RatioKeeps
      <4> QED
        BY <1>5, <4>1, <4>3 DEF SpeedStep, Beside, PauseSame, NoSkew, Has
    <3> QED
      BY <3>1, <3>2, <3>3
  <2> HIDE DEF toggled
  <2>3. {"ff", "ffhold"} \subseteq (HotKeys \cup {"menupause"}) \ {"rewind"}
    BY DEF HotKeys
  <2>4. SpeedStep(toggled, z) /\ StateOK(z)
    BY <1>3, <2>2, <2>3, RememberStep DEF SpeedStep
  <2> HIDE DEF z
  <2>5. SpeedStep(z, y)
    BY <1>3, <2>3, <2>4, RememberStep
  <2> HIDE DEF y
  <2>6. SpeedStep(toggled, y)
    BY <2>4, <2>5, SpeedSteps
  <2>7. StateOK(y) /\ Beside(p.x, y) /\ PauseSame(p.x, y)
        /\ (NoSkew(p.x, y) \/ (Has(s, "paused") /\ how = "notimeskip"))
    BY <2>2, <2>6 DEF SpeedStep, Beside, PauseSame, NoSkew
  <2>8. Since(y, s, how)
    BY <2>1, <2>7
  <2>9. LET q == [p EXCEPT !.x = y]
        IN  /\ q \in Passes /\ q.x = y /\ q.k = p.k /\ q.how = p.how /\ q.paused = p.paused
    BY <1>1, <2>7, PassPut DEF StateOK
  <2> QED
    BY <1>1, <1>6, <2>7, <2>8, <2>9 DEF Late, PassOK, Taken, Expected, Ready, Beside, PauseSame
<1> QED
  BY <1>2, <1>6

\* Slow motion is a flag of its own, with the states of its keys.
LEMMA SlowmotionOK ==
  ASSUME NEW s, NEW k, NEW how, NEW p, Late(p, s, k, how)
  PROVE  Late(CheckSlowmotion(p), s, k, how)
<1> DEFINE key == "slow" \in p.k /\ ~p.paused
           hold == "slowhold" \in p.k /\ ~p.paused
           slow == IF key /\ "slow" \notin p.x.old THEN ~Has(p.x, "slow")
                   ELSE IF hold # ("slowhold" \in p.x.old) THEN hold ELSE Has(p.x, "slow")
           on == slow /\ p.how # "notimeskip"
           x == Put(p.x, "slow", on)
           z == Remember(x, "slow", key)
           y == Remember(z, "slowhold", hold)
<1>1. p \in Passes /\ StateOK(p.x) /\ p.x \in LoopStates
  BY DEF Late, PassOK, Since, StateOK
<1>2. key \in BOOLEAN /\ hold \in BOOLEAN /\ on \in BOOLEAN
  BY <1>1 DEF Passes, Has
<1>3. CheckSlowmotion(p) = IF p.x.out = "go" THEN [p EXCEPT !.x = y] ELSE p
  BY DEF CheckSlowmotion, Going
<1> HIDE DEF key, hold, on
<1>4. SpeedStep(p.x, x)
  <2> DEFINE flags == IF on THEN p.x.flags \cup {"slow"} ELSE p.x.flags \ {"slow"}
  <2>1. x = [p.x EXCEPT !.flags = flags]
    BY DEF Put, Set, Clear
  <2>2. flags \in SUBSET Flags /\ flags \ LoneFlags = p.x.flags \ LoneFlags
    BY <1>1 DEF LoopStates, Flags, LoneFlags
  <2>3. "shutdown" \in flags => "shutdown" \in p.x.flags
    OBVIOUS
  <2> HIDE DEF x, flags
  <2>4. /\ StateOK(x) /\ Beside(p.x, x) /\ SpeedSame(p.x, x) /\ x.flags = flags
        /\ x.runFrames = p.x.runFrames /\ x.hotkey = p.x.hotkey
        /\ Has(x, "paused") <=> Has(p.x, "paused")
    BY <1>1, <2>1, <2>2, LoneFlagsKeep
  <2> QED
    BY <2>3, <2>4 DEF SpeedStep, PauseSame, SpeedSame, NoSkew, Has
<1> HIDE DEF x
<1>5. {"slow", "slowhold"} \subseteq (HotKeys \cup {"menupause"}) \ {"rewind"}
  BY DEF HotKeys
<1>6. SpeedStep(x, z) /\ StateOK(z)
  BY <1>2, <1>4, <1>5, RememberStep DEF SpeedStep
<1> HIDE DEF z
<1>7. SpeedStep(z, y)
  BY <1>2, <1>5, <1>6, RememberStep
<1> HIDE DEF y
<1>8. PassStep(p.x, y)
  BY <1>4, <1>6, <1>7, SpeedSteps, PassSteps
<1> QED
  BY <1>3, <1>8, LateKept

\* The slot of the save states stays in its range, whatever its last one is.
LEMMA SlotsOK ==
  ASSUME NEW s, NEW k, NEW how, NEW p, Late(p, s, k, how)
  PROVE  Late(CheckSlots(p), s, k, how)
<1> DEFINE slot == IF Pressed(p.x, p.k, "plus") THEN Up(p.x.slot)
                   ELSE IF Pressed(p.x, p.k, "minus") THEN Down(p.x.slot) ELSE p.x.slot
           plus == "plus" \in p.k
           minus == "minus" \in p.k
           x == [p.x EXCEPT !.slot = slot]
           z == Remember(x, "plus", plus)
           y == Remember(z, "minus", minus)
<1>1. p \in Passes /\ StateOK(p.x) /\ p.x \in LoopStates
  BY DEF Late, PassOK, Since, StateOK
<1>2. CheckSlots(p) = IF p.x.out = "go" THEN [p EXCEPT !.x = y] ELSE p
  BY DEF CheckSlots, Going
<1>3. slot \in -1 .. LastSlot
  <2>1. p.x.slot \in -1 .. LastSlot
    BY <1>1 DEF LoopStates
  <2>2. Up(p.x.slot) \in -1 .. LastSlot /\ Down(p.x.slot) \in -1 .. LastSlot
    BY <2>1, LastSlotAssumption DEF Up, Down
  <2> QED
    BY <2>1, <2>2
<1>4. plus \in BOOLEAN /\ minus \in BOOLEAN
  OBVIOUS
<1> HIDE DEF slot, plus, minus
<1>5. SpeedStep(p.x, x)
  <2>1. /\ x = [p.x EXCEPT !.dummy = p.x.dummy, !.slot = slot, !.stepping = p.x.stepping,
                            !.oldFocus = p.x.oldFocus]
        /\ p.x.dummy \in BOOLEAN /\ p.x.stepping \in BOOLEAN /\ p.x.oldFocus \in BOOLEAN
    BY <1>1 DEF LoopStates
  <2> HIDE DEF x
  <2> QED
    BY <1>1, <1>3, <2>1, OtherFieldsKeep
<1> HIDE DEF x
<1>6. {"plus", "minus"} \subseteq (HotKeys \cup {"menupause"}) \ {"rewind"}
  BY DEF HotKeys
<1>7. SpeedStep(x, z) /\ StateOK(z)
  BY <1>4, <1>5, <1>6, RememberStep DEF SpeedStep
<1> HIDE DEF z
<1>8. SpeedStep(z, y)
  BY <1>4, <1>6, <1>7, RememberStep
<1> HIDE DEF y
<1>9. PassStep(p.x, y)
  BY <1>5, <1>7, <1>8, SpeedSteps, PassSteps
<1> QED
  BY <1>2, <1>9, LateKept

\* The result of the pass: frames run when it is not paused.
LEMMA ResultOK ==
  ASSUME NEW s, NEW k, NEW how, NEW p, Late(p, s, k, how)
  PROVE  LET q == CheckResult(p)
         IN  PassOK(q, s, k, how) /\ Taken(q) /\ Expected(q, s, k, how) /\ q.x.out # "go"
<1> DEFINE result == IF p.paused THEN "PAUSE" ELSE IF p.menuWas THEN "MENU" ELSE "ITERATE"
           q == [p EXCEPT !.x = Return(p.x, result)]
<1>1. p \in Passes /\ StateOK(p.x) /\ PassOK(p, s, k, how)
  BY DEF Late, PassOK, Since
<1>2. CheckResult(p) = IF p.x.out = "go" THEN q ELSE p
  BY DEF CheckResult, Going
<1>3. result \in Results \ {"QUIT", "go"} /\ (result = "ITERATE" => ~p.paused)
  BY DEF Results
<1> HIDE DEF result
<1>4. [p EXCEPT !.x = p.x] = p
  BY <1>1 DEF Passes
<1>5. /\ PassOK(q, s, k, how) /\ q.x.out = result /\ q.paused = p.paused
      /\ q.x.runFrames = p.x.runFrames /\ q.x.flags = p.x.flags
  BY <1>1, <1>3, <1>4, PassReturns
<1> HIDE DEF q
<1>6. CASE p.x.out = "go"
  BY <1>2, <1>3, <1>5, <1>6 DEF Late, Taken, Ready, Expected, Has
<1>7. CASE p.x.out # "go"
  BY <1>2, <1>7 DEF Late
<1> QED
  BY <1>6, <1>7

\* All checks together.
LEMMA ChecksOK ==
  ASSUME NEW s, NEW k, NEW how, Starts(s, k, how)
  PROVE  LET x == runloop_check_state(s, k, how)
         IN  /\ Since(x, s, how)
             /\ x.ran => x.menu /\ ~Has(s, "paused") /\ x.out # "QUIT"
             /\ x.out = "QUIT" \/ ~Has(x, "shutdown")
             /\ x.out # "go"
             /\ x.out = "ITERATE" => /\ Has(s, "paused") => Asked(s, k)
                                     /\ how = "unfocused" => Has(s, "paused") /\ "rewind" \in x.old
<1> DEFINE p1 == CheckFlush(Start(s, k, how))
           p2 == CheckQuit(p1)
           p3 == CheckMenuToggle(p2)
           p4 == CheckIdle(p3)
           p5 == CheckRewind(p4)
           p6 == CheckMenuPause(p5)
           p7 == CheckPause(p6)
           p8 == CheckOverride(p7)
           p9 == CheckFastmotion(p8)
           p10 == CheckSlowmotion(p9)
           p11 == CheckSlots(p10)
           p12 == CheckResult(p11)
<1>1. runloop_check_state(s, k, how) = p12.x
  BY DEF runloop_check_state, Start
<1>2. PassOK(p1, s, k, how) /\ BeforeMenu(p1, s) /\ p1.x.out = "go"
  BY FlushOK
<1> HIDE DEF p1
<1>3. PassOK(p2, s, k, how) /\ BeforeMenu(p2, s) /\ Taken(p2)
  BY <1>2, QuitOK
<1> HIDE DEF p2
<1>4. /\ PassOK(p3, s, k, how) /\ Early(p3, s) /\ Taken(p3)
      /\ p3.x.out \in {"go", "QUIT"} /\ ~p3.x.ran
  BY <1>3, MenuOK
<1> HIDE DEF p3
<1>5. /\ PassOK(p4, s, k, how) /\ Early(p4, s) /\ Taken(p4)
      /\ p4.x.out \in {"go", "QUIT", "SLEEP"}
  BY <1>4, IdleOK
<1> HIDE DEF p4
<1>6. /\ PassOK(p5, s, k, how) /\ Taken(p5) /\ Expected(p5, s, k, how)
      /\ p5.paused <=> Has(s, "paused")
  BY <1>5, RewindOK
<1> HIDE DEF p5
<1>7. /\ PassOK(p6, s, k, how) /\ Taken(p6) /\ Expected(p6, s, k, how)
      /\ p6.paused <=> Has(s, "paused")
  BY <1>6, MenuPauseOK
<1> HIDE DEF p6
<1>8. Late(p7, s, k, how)
  BY <1>7, PauseOK DEF Late
<1> HIDE DEF p7
<1>9. Late(p8, s, k, how)
  BY <1>8, OverrideOK
<1> HIDE DEF p8
<1>10. Late(p9, s, k, how)
  BY <1>9, FastmotionOK
<1> HIDE DEF p9
<1>11. Late(p10, s, k, how)
  BY <1>10, SlowmotionOK
<1> HIDE DEF p10
<1>12. Late(p11, s, k, how)
  BY <1>11, SlotsOK
<1> HIDE DEF p11
<1>13. PassOK(p12, s, k, how) /\ Taken(p12) /\ Expected(p12, s, k, how) /\ p12.x.out # "go"
  BY <1>12, ResultOK
<1> HIDE DEF p12
<1> QED
  BY <1>1, <1>13 DEF PassOK, Taken, Expected

-------------------------------------------------------------------------------
(* The end of a pass. *)

\* y ends a pass that the checks have brought to x: the frame is counted, and the
\* last one of a rewind pauses again.
EndStep(x, y) ==
    /\ StateOK(y) /\ Beside(x, y) /\ SpeedSame(x, y) /\ y.hotkey = x.hotkey /\ y.old = x.old
    /\ Has(y, "shutdown") <=> Has(x, "shutdown")
    /\ y.runFrames = x.runFrames \/ (x.runFrames > 0 /\ y.runFrames = x.runFrames - 1)
    /\ Has(x, "paused") => Has(y, "paused")
    /\ x.runFrames = 1 /\ y.runFrames = 0 => Has(y, "paused")

\* The audio blocks again a few frames after fast forward.
LEMMA EndAudioKeeps ==
  ASSUME NEW x, StateOK(x)
  PROVE  LET y == EndAudio(x)
         IN  /\ StateOK(y) /\ Beside(x, y) /\ y.flags = x.flags /\ y.runFrames = x.runFrames
             /\ y.hotkey = x.hotkey /\ y.old = x.old
<1> DEFINE y == EndAudio(x)
           n == x.afterFrames
           blocks == IF n = 5 THEN TRUE ELSE IF n = 1 THEN FALSE ELSE x.audioBlocks
           after == IF n = 5 THEN 0 ELSE n + 1
<1>1. x \in LoopStates
  BY DEF StateOK
<1>2. n \in 0 .. 5 /\ x.audioBlocks \in BOOLEAN
  BY <1>1 DEF LoopStates
<1>3. CASE ~x.vrr \/ n = 0
  BY <1>3 DEF EndAudio, Beside
<1>4. CASE x.vrr /\ n # 0
  <2>1. y = [x EXCEPT !.audioBlocks = blocks, !.afterFrames = after]
    BY <1>1, <1>4 DEF EndAudio, LoopStates
  <2>2. blocks \in BOOLEAN /\ after \in 0 .. 5 /\ (after = 0 => blocks)
    <3>1. CASE n = 5
      BY <3>1
    <3>2. CASE n # 5
      <4>1. after = n + 1 /\ blocks \in BOOLEAN
        BY <1>2, <3>2
      <4> HIDE DEF blocks, after, n
      <4> QED
        BY <1>2, <3>2, <4>1
    <3> QED
      BY <3>1, <3>2
  <2> HIDE DEF y, blocks, after
  <2>3. /\ y \in LoopStates /\ y.flags = x.flags /\ y.audioBlocks = blocks /\ y.afterFrames = after
        /\ y.runFrames = x.runFrames /\ y.hotkey = x.hotkey /\ y.old = x.old
        /\ y.limit = x.limit /\ y.current = x.current /\ Beside(x, y)
    BY <1>1, <2>1, <2>2 DEF LoopStates, Beside
  <2>4. SpeedOK(y) /\ LimitOK(y) /\ FramesOK(y)
    BY <2>2, <2>3 DEF StateOK, SpeedOK, LimitOK, FramesOK, Has, Beside
  <2> QED
    BY <2>3, <2>4 DEF StateOK, y
<1> QED
  BY <1>3, <1>4

\* With vrr_runloop_enable the limit is set in every pass.
LEMMA EndLimitKeeps ==
  ASSUME NEW x, StateOK(x)
  PROVE  LET y == EndLimit(x)
         IN  /\ StateOK(y) /\ Beside(x, y) /\ y.flags = x.flags /\ y.runFrames = x.runFrames
             /\ y.hotkey = x.hotkey /\ y.old = x.old
<1> DEFINE y == EndLimit(x)
           limit == IF Has(x, "fast") THEN Ratio(x) ELSE "ratio"
<1>1. x \in LoopStates
  BY DEF StateOK
<1>2. CASE ~x.vrr
  BY <1>2 DEF EndLimit, Beside
<1>3. CASE x.vrr
  <2>1. y = [x EXCEPT !.limit = limit]
    BY <1>3 DEF EndLimit
  <2>2. limit \in Limits \ {"refresh"} /\ (limit = "override" => OwnRatio(x.current))
    BY DEF Ratio, OverrideRatio, OwnRatio, Limits
  <2> HIDE DEF y, limit
  <2>3. /\ y \in LoopStates /\ y.flags = x.flags /\ y.audioBlocks = x.audioBlocks
        /\ y.afterFrames = x.afterFrames /\ y.runFrames = x.runFrames /\ y.hotkey = x.hotkey
        /\ y.old = x.old /\ y.limit = limit /\ y.current = x.current /\ Beside(x, y)
    BY <1>1, <2>1, <2>2 DEF LoopStates, Beside
  <2>4. SpeedOK(y) /\ LimitOK(y) /\ FramesOK(y)
    BY <2>2, <2>3 DEF StateOK, SpeedOK, LimitOK, FramesOK, Has, Beside
  <2> QED
    BY <2>3, <2>4 DEF StateOK, y
<1> QED
  BY <1>2, <1>3

\* The count.
LEMMA CountKeeps ==
  ASSUME NEW x, StateOK(x)
  PROVE  LET y == CountFrames(x)
         IN  EndStep(x, y) /\ (x.runFrames > 0 => y.runFrames = x.runFrames - 1)
<1> DEFINE y == CountFrames(x)
           flags == IF x.runFrames = 1 THEN x.flags \cup {"paused"} ELSE x.flags
<1>1. x \in LoopStates
  BY DEF StateOK
<1>2. x.runFrames \in -1 .. 3 /\ flags \in SUBSET Flags
  BY <1>1 DEF LoopStates, Flags
<1>3. CASE x.runFrames <= 0
  <2>1. y = x
    BY <1>3 DEF CountFrames
  <2> QED
    BY <1>2, <1>3, <2>1 DEF EndStep, Beside, SpeedSame
<1>4. CASE x.runFrames > 0
  <2>1. y = [x EXCEPT !.flags = flags, !.runFrames = x.runFrames - 1]
    <3> DEFINE z == IF x.runFrames = 1 THEN Set(x, "paused") ELSE x
    <3>1. ~(x.runFrames <= 0)
      BY <1>2, <1>4
    <3>2. y = [z EXCEPT !.runFrames = z.runFrames - 1]
      BY <3>1 DEF CountFrames
    <3>3. z = [x EXCEPT !.flags = flags] /\ z.runFrames = x.runFrames
      BY <1>1 DEF Set, LoopStates
    <3> HIDE DEF y, z, flags
    <3> QED
      BY <1>1, <3>2, <3>3 DEF LoopStates
  <2>2. x.runFrames - 1 \in -1 .. 3 /\ x.runFrames - 1 >= 0
    BY <1>2, <1>4
  <2>3. /\ "fast" \in flags <=> "fast" \in x.flags
        /\ "nonblock" \in flags <=> "nonblock" \in x.flags
        /\ "muted" \in flags <=> "muted" \in x.flags
        /\ "shutdown" \in flags <=> "shutdown" \in x.flags
        /\ "paused" \in flags <=> "paused" \in x.flags \/ x.runFrames = 1
    OBVIOUS
  <2> HIDE DEF y, flags
  <2>4. /\ y \in LoopStates /\ y.flags = flags /\ y.audioBlocks = x.audioBlocks
        /\ y.afterFrames = x.afterFrames /\ y.runFrames = x.runFrames - 1 /\ y.hotkey = x.hotkey
        /\ y.old = x.old /\ y.limit = x.limit /\ y.current = x.current /\ Beside(x, y)
    BY <1>1, <1>2, <2>1, <2>2 DEF LoopStates, Beside
  <2>5. SpeedOK(y)
    BY <2>3, <2>4 DEF StateOK, SpeedOK, Has
  <2>6. LimitOK(y) /\ FramesOK(y)
    BY <1>2, <1>4, <2>3, <2>4 DEF StateOK, LimitOK, FramesOK, Has, Beside
  <2> QED
    BY <1>4, <2>3, <2>4, <2>5, <2>6 DEF StateOK, EndStep, SpeedSame, Has, y
<1> QED
  BY <1>2, <1>3, <1>4

LEMMA EndOK ==
  ASSUME NEW x, StateOK(x), NEW how
  PROVE  LET y == End(x, how)
         IN  EndStep(x, y) /\ (how # "sleeps" /\ x.runFrames > 0 => y.runFrames = x.runFrames - 1)
<1> DEFINE a == EndAudio(x)
           b == EndLimit(a)
           y == IF Sleeps(b, how) THEN b ELSE CountFrames(b)
<1>1. End(x, how) = y
  BY DEF End
<1>2. /\ StateOK(a) /\ Beside(x, a) /\ a.flags = x.flags /\ a.runFrames = x.runFrames
      /\ a.hotkey = x.hotkey /\ a.old = x.old
  BY EndAudioKeeps
<1> HIDE DEF a
<1>3. /\ StateOK(b) /\ Beside(a, b) /\ b.flags = a.flags /\ b.runFrames = a.runFrames
      /\ b.hotkey = a.hotkey /\ b.old = a.old
  BY <1>2, EndLimitKeeps
<1> HIDE DEF b
<1>4. /\ Beside(x, b) /\ b.flags = x.flags /\ b.runFrames = x.runFrames /\ b.hotkey = x.hotkey
      /\ b.old = x.old
  BY <1>2, <1>3 DEF Beside
<1>5. CASE Sleeps(b, how)
  <2>1. how = "sleeps" /\ y = b
    BY <1>5 DEF Sleeps
  <2> QED
    BY <1>1, <1>3, <1>4, <2>1 DEF EndStep, SpeedSame, Has
<1>6. CASE ~Sleeps(b, how)
  <2>1. y = CountFrames(b)
    BY <1>6
  <2> HIDE DEF y
  <2>2. EndStep(b, y) /\ (b.runFrames > 0 => y.runFrames = b.runFrames - 1)
    BY <1>3, <2>1, CountKeeps
  <2> QED
    BY <1>1, <1>4, <2>2 DEF EndStep, SpeedSame, Has, Beside
<1> QED
  BY <1>5, <1>6

\* What the pass of x that began with s and the keys k has come to with y.
Over(y, s, k, how) ==
    /\ StateOK(y)
    /\ Restored(y) => y.runFrames \notin {0, 1}
    /\ Has(y, "nonblock") /\ ~Has(y, "fast") =>
         (Has(s, "nonblock") /\ ~Has(s, "fast")) \/ (Has(s, "paused") /\ how = "notimeskip")
    /\ \/ y.runFrames = -1
       \/ s.runFrames = -1 /\ y.runFrames \in {2, 3}
       \/ y.runFrames = s.runFrames
       \/ s.runFrames > 0 /\ y.runFrames = s.runFrames - 1
    /\ y.runFrames = 0 /\ (Has(s, "paused") \/ s.runFrames = 1) => Has(y, "paused")
    /\ y.ran /\ y.out # "SLEEP" /\ how # "sleeps" /\ s.runFrames > 0 /\ y.runFrames >= 0 =>
         y.runFrames = s.runFrames - 1
    /\ y.ran /\ y.out # "SLEEP" /\ how # "sleeps" /\ s.runFrames = -1 /\ y.runFrames >= 0 =>
         y.runFrames = 2
    /\ Has(s, "paused") /\ y.ran => Asked(s, k)
    /\ y.ran /\ how = "unfocused" => (Has(s, "paused") /\ "rewind" \in y.old) \/ y.menu
    /\ y.out = "QUIT" \/ ~Has(y, "shutdown")

\* What the checks have come to, as ChecksOK says it.
Checked(x, s, k, how) ==
    /\ Since(x, s, how)
    /\ x.ran => x.menu /\ ~Has(s, "paused") /\ x.out # "QUIT"
    /\ x.out = "QUIT" \/ ~Has(x, "shutdown")
    /\ x.out # "go"
    /\ x.out = "ITERATE" => /\ Has(s, "paused") => Asked(s, k)
                            /\ how = "unfocused" => Has(s, "paused") /\ "rewind" \in x.old

\* A pass that goes on to its end counts a frame, if it runs one.
LEMMA EndOver ==
  ASSUME NEW s, NEW k, NEW how, NEW x, NEW z, NEW y, Starts(s, k, how), Checked(x, s, k, how),
         x.out # "QUIT",
         StateOK(z), SpeedSame(x, z), z.runFrames = x.runFrames, z.hotkey = x.hotkey,
         z.menu = x.menu, z.menuPauses = x.menuPauses, z.flushing = x.flushing, z.old = x.old,
         Has(z, "paused") <=> Has(x, "paused"), ~Has(z, "shutdown"),
         z.out = x.out, z.ran => x.ran \/ x.out = "ITERATE",
         EndStep(z, y), how # "sleeps" /\ z.runFrames > 0 => y.runFrames = z.runFrames - 1
  PROVE  Over(y, s, k, how)
<1>1. /\ s.runFrames \in -1 .. 3 /\ x.runFrames \in -1 .. 3 /\ y.runFrames \in -1 .. 3
      /\ StateOK(y)
  BY DEF Starts, Checked, Since, EndStep, StateOK, LoopStates
<1>2. \/ y.runFrames = x.runFrames
      \/ x.runFrames > 0 /\ y.runFrames = x.runFrames - 1
  BY DEF EndStep
<1>3. /\ x.runFrames \in {s.runFrames, -1} \/ (x.runFrames = 3 /\ s.runFrames = -1)
      /\ x.runFrames = 0 /\ Has(s, "paused") => Has(x, "paused")
      /\ Restored(x) => x.runFrames \in {-1, 3}
  BY DEF Checked, Since
<1>4. Restored(y) => Restored(x)
  BY DEF EndStep, Beside, Restored
<1>5. Restored(y) => y.runFrames \notin {0, 1}
  BY <1>1, <1>2, <1>3, <1>4
<1>6. Has(y, "nonblock") /\ ~Has(y, "fast") =>
         (Has(s, "nonblock") /\ ~Has(s, "fast")) \/ (Has(s, "paused") /\ how = "notimeskip")
  BY DEF EndStep, SpeedSame, Checked, Since
<1>7. \/ y.runFrames = -1
      \/ s.runFrames = -1 /\ y.runFrames \in {2, 3}
      \/ y.runFrames = s.runFrames
      \/ s.runFrames > 0 /\ y.runFrames = s.runFrames - 1
  BY <1>1, <1>2, <1>3
<1>8. Has(s, "paused") => s.runFrames <= 0
  BY DEF Starts, StateOK, FramesOK
<1>9. y.runFrames = 0 /\ (Has(s, "paused") \/ s.runFrames = 1) => Has(y, "paused")
  <2>1. /\ Has(x, "paused") => Has(y, "paused")
        /\ x.runFrames = 1 /\ y.runFrames = 0 => Has(y, "paused")
    BY DEF EndStep
  <2> QED
    BY <1>1, <1>2, <1>3, <1>8, <2>1
<1>10. /\ y.ran => x.ran \/ x.out = "ITERATE"
       /\ y.out = x.out /\ y.menu = x.menu /\ y.old = x.old
  BY DEF EndStep, Beside
<1>11. /\ how # "sleeps" /\ s.runFrames > 0 /\ y.runFrames >= 0 => y.runFrames = s.runFrames - 1
       /\ how # "sleeps" /\ s.runFrames = -1 /\ y.runFrames >= 0 => y.runFrames = 2
  BY <1>1, <1>2, <1>3
<1>12. Has(s, "paused") /\ y.ran => Asked(s, k)
  BY <1>10 DEF Checked
<1>13. y.ran /\ how = "unfocused" => (Has(s, "paused") /\ "rewind" \in y.old) \/ y.menu
  BY <1>10 DEF Checked
<1>14. ~Has(y, "shutdown")
  BY DEF EndStep
<1> QED
  BY <1>1, <1>5, <1>6, <1>7, <1>9, <1>11, <1>12, <1>13, <1>14 DEF Over

\* A whole pass.
LEMMA PassedOver ==
  ASSUME NEW k, NEW how, Starts(loop, k, how)
  PROVE  Over(Passed(k, how), loop, k, how)
<1> DEFINE x == runloop_check_state(loop, k, how)
           y == Passed(k, how)
<1>1. Checked(x, loop, k, how)
  BY ChecksOK DEF Checked
<1>2. y = CASE x.out = "QUIT" -> Clear(x, "running")
            [] x.out = "SLEEP" -> x
            [] x.out \in {"PAUSE", "MENU"} -> End(x, how)
            [] OTHER -> End([Set(x, "running") EXCEPT !.ran = TRUE], how)
  BY DEF Passed
<1> SUFFICES Over(y, loop, k, how)
  OBVIOUS
<1> HIDE DEF x, y
<1>3. /\ StateOK(x) /\ x \in LoopStates /\ x.flags \in SUBSET Flags /\ x.out \in Results
      /\ x.runFrames \in -1 .. 3 /\ loop.runFrames \in -1 .. 3
  BY <1>1 DEF Checked, Since, StateOK, LoopStates, Starts
<1>4. "running" \in Flags /\ "running" \in LoneFlags
  BY DEF Flags, LoneFlags
<1>5. CASE x.out = "QUIT"
  <2>1. y = [x EXCEPT !.flags = x.flags \ {"running"}]
    BY <1>2, <1>5 DEF Clear
  <2>2. /\ StateOK(y) /\ Beside(x, y) /\ SpeedSame(x, y) /\ y.runFrames = x.runFrames
        /\ y.hotkey = x.hotkey
        /\ Has(y, "paused") <=> Has(x, "paused")
    <3> DEFINE flags == x.flags \ {"running"}
    <3>1. flags \in SUBSET Flags /\ flags \ LoneFlags = x.flags \ LoneFlags
      BY <1>3, <1>4
    <3> HIDE DEF flags
    <3>2. y = [x EXCEPT !.flags = flags]
      BY <2>1 DEF flags
    <3> QED
      BY <1>3, <3>1, <3>2, LoneFlagsKeep
  <2>3. y.out = "QUIT" /\ ~y.ran
    BY <1>1, <1>5, <2>2 DEF Beside, Checked
  <2>4. Since(y, loop, how)
    BY <1>1, <2>2 DEF Checked, Since, SpeedSame, Beside, Restored
  <2>5. Has(loop, "paused") => loop.runFrames <= 0
    BY DEF Starts, StateOK, FramesOK
  <2> QED
    BY <1>3, <2>2, <2>3, <2>4, <2>5 DEF Over, Since
<1>6. CASE x.out = "SLEEP"
  <2>1. y = x
    BY <1>2, <1>6
  <2>2. Has(loop, "paused") => loop.runFrames <= 0
    BY DEF Starts, StateOK, FramesOK
  <2>3. Since(x, loop, how) /\ (x.ran => x.menu /\ ~Has(loop, "paused")) /\ ~Has(x, "shutdown")
    BY <1>1, <1>6 DEF Checked
  <2> QED
    BY <1>3, <1>6, <2>1, <2>2, <2>3 DEF Over, Since
<1>7. CASE x.out \in {"PAUSE", "MENU"}
  <2>1. y = End(x, how)
    BY <1>2, <1>7
  <2>2. EndStep(x, y) /\ (how # "sleeps" /\ x.runFrames > 0 => y.runFrames = x.runFrames - 1)
    BY <1>3, <2>1, EndOK
  <2>3. ~Has(x, "shutdown") /\ SpeedSame(x, x) /\ x.out # "QUIT"
    BY <1>1, <1>7 DEF Checked, SpeedSame
  <2> QED
    BY <1>1, <1>3, <2>2, <2>3, EndOver
<1>8. CASE x.out = "ITERATE"
  <2> DEFINE flags == x.flags \cup {"running"}
             w == [x EXCEPT !.flags = flags]
             z == [w EXCEPT !.ran = TRUE]
  <2>1. y = End(z, how)
    BY <1>2, <1>8 DEF Set
  <2>2. flags \in SUBSET Flags /\ flags \ LoneFlags = x.flags \ LoneFlags
        /\ ("shutdown" \in flags <=> "shutdown" \in x.flags)
    BY <1>3, <1>4
  <2> HIDE DEF flags
  <2>3. /\ StateOK(w) /\ Beside(x, w) /\ SpeedSame(x, w) /\ w.runFrames = x.runFrames
        /\ w.hotkey = x.hotkey /\ w.flags = flags /\ w.old = x.old
        /\ Has(w, "paused") <=> Has(x, "paused")
    BY <1>3, <2>2, LoneFlagsKeep
  <2> HIDE DEF w
  <2>4. /\ z \in LoopStates /\ z.flags = w.flags /\ z.audioBlocks = w.audioBlocks
        /\ z.afterFrames = w.afterFrames /\ z.runFrames = w.runFrames /\ z.hotkey = w.hotkey
        /\ z.old = w.old /\ z.limit = w.limit /\ z.current = w.current /\ z.menu = w.menu
        /\ z.flushing = w.flushing /\ z.menuPauses = w.menuPauses /\ z.out = w.out
    BY <2>3 DEF StateOK, LoopStates
  <2> HIDE DEF z
  <2>5. StateOK(z)
    BY <2>3, <2>4 DEF StateOK, SpeedOK, LimitOK, FramesOK, Has
  <2>6. EndStep(z, y) /\ (how # "sleeps" /\ z.runFrames > 0 => y.runFrames = z.runFrames - 1)
    BY <2>1, <2>5, EndOK
  <2>7. /\ SpeedSame(x, z) /\ z.runFrames = x.runFrames /\ z.hotkey = x.hotkey
        /\ z.menu = x.menu /\ z.menuPauses = x.menuPauses /\ z.flushing = x.flushing
        /\ Has(z, "paused") <=> Has(x, "paused")
        /\ ~Has(z, "shutdown") /\ z.out = x.out /\ x.out # "QUIT" /\ z.old = x.old
    BY <1>1, <1>8, <2>2, <2>3, <2>4, SMTT(30) DEF SpeedSame, Has, Beside, Checked
  <2> QED
    BY <1>1, <1>8, <2>5, <2>6, <2>7, EndOver
<1>9. x.out \in {"QUIT", "SLEEP", "PAUSE", "MENU", "ITERATE"}
  BY <1>1, <1>3 DEF Checked, Results
<1> QED
  BY <1>5, <1>6, <1>7, <1>8, <1>9

-------------------------------------------------------------------------------
(* The invariant is kept. *)

\* The loop as it is initialised.
LEMMA LoopStarts == LoopInit => LoopInv
<1> SUFFICES ASSUME LoopInit PROVE LoopInv
  OBVIOUS
<1>1. PICK v \in BOOLEAN, m \in BOOLEAN :
        loop = [flags |-> {}, old |-> {}, hotkey |-> FALSE, stepping |-> FALSE,
                oldFocus |-> TRUE, hold |-> FALSE, runFrames |-> 0, afterFrames |-> 0,
                audioBlocks |-> TRUE, current |-> {}, next |-> {},
                pending |-> FALSE, limit |-> "ratio", custom |-> FALSE, slot |-> 0,
                menu |-> FALSE, flushing |-> 0, dummy |-> FALSE, out |-> "go", ran |-> FALSE,
                vrr |-> v, menuPauses |-> m]
  BY DEF LoopInit
<1>2. /\ 0 \in -1 .. 3 /\ 0 \in 0 .. 5 /\ 0 \in -1 .. LastSlot /\ 0 \in 0 .. 2 /\ {} \in Overrides
      /\ "go" \in Results /\ {} \in SUBSET Flags /\ {} \in SUBSET (HotKeys \cup {"menupause"})
      /\ "ratio" \in Limits
  BY LastSlotAssumption DEF Overrides, Results, Limits
<1>3. loop \in LoopStates
  BY <1>1, <1>2 DEF LoopStates
<1>4. /\ loop.flags = {} /\ loop.audioBlocks /\ loop.limit = "ratio" /\ ~loop.menu
      /\ loop.runFrames = 0 /\ ~loop.hotkey
  BY <1>1
<1>5. cause = {} /\ skewed = FALSE /\ burst = -1 /\ events = 0
  BY DEF LoopInit
<1>6. StateOK(loop)
  BY <1>3, <1>4 DEF StateOK, SpeedOK, LimitOK, FramesOK, Has
<1>7. LoopTypeOK
  <2>1. cause \in SUBSET {"pass", "asked", "away"}
    BY <1>5
  <2>2. skewed \in BOOLEAN
    BY <1>5, Zenon
  <2>3. burst \in -1 .. 4 /\ events \in 0 .. MaxEvents
    BY <1>5, MaxEventsAssumption
  <2> QED
    BY <1>3, <2>1, <2>2, <2>3 DEF LoopTypeOK
<1> QED
  BY <1>4, <1>5, <1>6, <1>7 DEF LoopInv, Restored, Has, BurstOK

\* A pass.
LEMMA PassKeepsLoop ==
  ASSUME LoopInv, NEW k \in KeySets, NEW how \in Circumstances, runloop_iterate(k, how)
  PROVE  LoopInv' /\ Over(loop', loop, k, how)
<1>1. Starts(loop, k, how)
  BY KeySetsAssumption DEF LoopInv, Starts
<1>2. Over(loop', loop, k, how)
  BY <1>1, PassedOver DEF runloop_iterate
<1>3. /\ StateOK(loop') /\ loop' \in LoopStates /\ loop'.runFrames \in -1 .. 3
      /\ loop.runFrames \in -1 .. 3 /\ burst \in -1 .. 4
  BY <1>2 DEF Over, StateOK, LoopStates, LoopInv, LoopTypeOK
<1>4. skewed' \in BOOLEAN /\ (Has(loop', "nonblock") => Has(loop', "fast") \/ skewed')
  <2>1. skewed' = (/\ Has(loop', "nonblock") /\ ~Has(loop', "fast")
                   /\ (skewed \/ (Has(loop, "paused") /\ how = "notimeskip")))
    BY DEF runloop_iterate
  <2>2. Has(loop, "nonblock") /\ ~Has(loop, "fast") => skewed
    BY DEF LoopInv
  <2>3. Has(loop', "nonblock") /\ ~Has(loop', "fast") =>
          (Has(loop, "nonblock") /\ ~Has(loop, "fast")) \/ (Has(loop, "paused") /\ how = "notimeskip")
    BY <1>2 DEF Over
  <2> QED
    BY <2>1, <2>2, <2>3 DEF Has
<1>5. cause' \in SUBSET {"pass", "asked", "away"}
  BY DEF runloop_iterate
<1>6. events' \in 0 .. MaxEvents
  BY MaxEventsAssumption DEF runloop_iterate, Event, LoopInv, LoopTypeOK
<1>7. burst' \in -1 .. 4 /\ BurstOK'
  <2> DEFINE began == loop.runFrames <= 0 /\ loop'.runFrames > 0
             before == IF began THEN 0 ELSE burst
             counts == /\ began \/ loop.runFrames > 0
                       /\ loop'.ran /\ loop'.out # "SLEEP" /\ how # "sleeps" /\ before \in 0 .. 3
  <2>1. burst' = IF loop'.runFrames < 0 THEN -1 ELSE IF counts THEN before + 1 ELSE before
    BY DEF runloop_iterate, Counted, EndsEarly
  <2>2. /\ loop.runFrames = -1 => burst = -1
        /\ loop.runFrames > 0 => burst >= 0
        /\ burst >= 0 => burst + loop.runFrames <= 3
        /\ burst >= 0 /\ loop.runFrames = 0 => Has(loop, "paused")
    BY DEF LoopInv, BurstOK
  <2>3. /\ \/ loop'.runFrames = -1
           \/ loop.runFrames = -1 /\ loop'.runFrames \in {2, 3}
           \/ loop'.runFrames = loop.runFrames
           \/ loop.runFrames > 0 /\ loop'.runFrames = loop.runFrames - 1
        /\ loop'.runFrames = 0 /\ (Has(loop, "paused") \/ loop.runFrames = 1) => Has(loop', "paused")
        /\ loop'.ran /\ loop'.out # "SLEEP" /\ how # "sleeps" /\ loop.runFrames > 0
             /\ loop'.runFrames >= 0 => loop'.runFrames = loop.runFrames - 1
        /\ loop'.ran /\ loop'.out # "SLEEP" /\ how # "sleeps" /\ loop.runFrames = -1
             /\ loop'.runFrames >= 0 => loop'.runFrames = 2
    BY <1>2 DEF Over
  <2>4. CASE loop'.runFrames = -1
    BY <2>1, <2>4 DEF BurstOK
  <2>5. CASE loop.runFrames = -1 /\ loop'.runFrames \in {2, 3}
    BY <2>1, <2>2, <2>3, <2>5 DEF BurstOK
  <2>6. CASE loop'.runFrames = loop.runFrames /\ loop.runFrames # -1
    <3>1. burst' = burst
      BY <1>3, <2>1, <2>3, <2>6
    <3> QED
      BY <1>3, <2>2, <2>3, <2>6, <3>1 DEF BurstOK
  <2>7. CASE loop.runFrames > 0 /\ loop'.runFrames = loop.runFrames - 1
    <3>1. burst' \in {burst, burst + 1}
      BY <1>3, <2>1, <2>7
    <3> QED
      BY <1>3, <2>2, <2>3, <2>7, <3>1 DEF BurstOK
  <2> QED
    BY <1>3, <2>3, <2>4, <2>5, <2>6, <2>7
<1>8. Restored(loop') => loop'.runFrames \notin {0, 1}
  BY <1>2 DEF Over
<1>9. LoopTypeOK'
  BY <1>3, <1>4, <1>5, <1>6, <1>7 DEF LoopTypeOK
<1> QED
  BY <1>2, <1>3, <1>4, <1>7, <1>8, <1>9 DEF LoopInv

\* What happens to the loop between two passes.
BetweenStep(y) ==
    /\ StateOK(y) /\ NoSkew(loop, y)
    /\ \/ y.runFrames = -1
       \/ /\ y.runFrames = loop.runFrames /\ y.hotkey = loop.hotkey
          /\ y.flushing = loop.flushing /\ y.menuPauses = loop.menuPauses
          /\ Has(y, "paused") <=> Has(loop, "paused")

LEMMA BetweenKeepsLoop ==
  ASSUME LoopInv, NEW y, BetweenStep(y), Between(y)
  PROVE  LoopInv' /\ cause' = {}
<1>1. /\ loop' = y /\ burst' = (IF y.runFrames < 0 THEN -1 ELSE burst) /\ cause' = {}
      /\ skewed' = skewed /\ events' \in 0 .. MaxEvents
  BY MaxEventsAssumption DEF Between, Event, LoopInv, LoopTypeOK
<1>2. y \in LoopStates /\ y.runFrames \in -1 .. 3 /\ burst \in -1 .. 4 /\ skewed \in BOOLEAN
  BY DEF BetweenStep, StateOK, LoopStates, LoopInv, LoopTypeOK
<1>3. LoopTypeOK'
  BY <1>1, <1>2 DEF LoopTypeOK
<1>4. Restored(y) => y.runFrames \notin {0, 1}
  <2>1. CASE y.runFrames = -1
    BY <2>1
  <2>2. CASE /\ y.runFrames = loop.runFrames /\ y.hotkey = loop.hotkey
             /\ y.flushing = loop.flushing /\ y.menuPauses = loop.menuPauses
    BY <2>2 DEF LoopInv, Restored
  <2> QED
    BY <2>1, <2>2 DEF BetweenStep
<1>5. Has(y, "nonblock") => Has(y, "fast") \/ skewed
  BY DEF BetweenStep, LoopInv, NoSkew
<1>6. BurstOK'
  BY <1>1, <1>2 DEF BetweenStep, LoopInv, BurstOK
<1> QED
  BY <1>1, <1>3, <1>4, <1>5, <1>6 DEF LoopInv, BetweenStep

\* Every such step is one of those.
LEMMA BetweenSteps ==
  ASSUME LoopInv,
         \/ AppPause \/ AppIdle \/ SHUTDOWN \/ runloop_event_deinit_core
         \/ \E on \in BOOLEAN : runloop_set_rewind_hold(on) \/ AppFastForward(on)
         \/ \E override \in Overrides : SET_FASTFORWARDING_OVERRIDE(override)
  PROVE  LoopInv' /\ cause' = {}
<1>1. StateOK(loop) /\ loop \in LoopStates
  BY DEF LoopInv, StateOK
<1>2. ASSUME NEW flags \in SUBSET Flags, flags \ LoneFlags = loop.flags \ LoneFlags
      PROVE  BetweenStep([loop EXCEPT !.flags = flags])
  BY <1>1, <1>2, LoneFlagsKeep DEF BetweenStep, NoSkew, SpeedSame, Beside
<1>3. CASE AppPause
  <2>1. BetweenStep(Pause(loop)) /\ BetweenStep(Unpause(loop))
    BY <1>1, PauseKeeps DEF BetweenStep, Toggled, NoSkew, SpeedSame
  <2> QED
    BY <1>3, <2>1, BetweenKeepsLoop DEF AppPause
<1>4. CASE AppIdle
  <2> DEFINE flags == IF Has(loop, "idle") THEN loop.flags \ {"idle"} ELSE loop.flags \cup {"idle"}
  <2>1. Put(loop, "idle", ~Has(loop, "idle")) = [loop EXCEPT !.flags = flags]
    BY DEF Put, Set, Clear
  <2>2. flags \in SUBSET Flags /\ flags \ LoneFlags = loop.flags \ LoneFlags
    BY <1>1 DEF LoopStates, Flags, LoneFlags
  <2> HIDE DEF flags
  <2>3. BetweenStep(Put(loop, "idle", ~Has(loop, "idle")))
    BY <1>2, <2>1, <2>2
  <2> QED
    BY <1>4, <2>3, BetweenKeepsLoop DEF AppIdle
<1>5. CASE SHUTDOWN
  <2> DEFINE flags == (loop.flags \cup {"shutdown"}) \cup {"coreShutdown"}
             y == Set(Set(loop, "shutdown"), "coreShutdown")
  <2>1. y = [loop EXCEPT !.flags = flags]
    BY <1>1 DEF Set, LoopStates
  <2>2. flags \in SUBSET Flags /\ flags \ LoneFlags = loop.flags \ LoneFlags
    BY <1>1 DEF LoopStates, Flags, LoneFlags
  <2> HIDE DEF flags
  <2>3. BetweenStep(y)
    BY <1>2, <2>1, <2>2
  <2> QED
    BY <1>5, <2>3, BetweenKeepsLoop DEF SHUTDOWN
<1>6. CASE runloop_event_deinit_core
  <2>1. BetweenStep(Replaced(loop))
    BY <1>1, ReplacedKeeps DEF BetweenStep, SpeedStep, PauseSame, Beside
  <2> QED
    BY <1>6, <2>1, BetweenKeepsLoop DEF runloop_event_deinit_core
<1>7. ASSUME NEW hold \in BOOLEAN, runloop_set_rewind_hold(hold)
      PROVE  LoopInv' /\ cause' = {}
  <2> DEFINE y == [loop EXCEPT !.hold = hold]
  <2>1. /\ y \in LoopStates /\ y.flags = loop.flags /\ y.audioBlocks = loop.audioBlocks
        /\ y.afterFrames = loop.afterFrames /\ y.runFrames = loop.runFrames
        /\ y.hotkey = loop.hotkey /\ y.old = loop.old /\ y.limit = loop.limit
        /\ y.current = loop.current /\ y.menu = loop.menu /\ y.flushing = loop.flushing
        /\ y.menuPauses = loop.menuPauses
    BY <1>1 DEF LoopStates
  <2> HIDE DEF y
  <2>2. BetweenStep(y)
    BY <1>1, <2>1 DEF BetweenStep, StateOK, SpeedOK, LimitOK, FramesOK, NoSkew, Has
  <2> QED
    BY <1>7, <2>2, BetweenKeepsLoop DEF runloop_set_rewind_hold, y
<1>8. ASSUME NEW override \in Overrides, SET_FASTFORWARDING_OVERRIDE(override)
      PROVE  LoopInv' /\ cause' = {}
  <2> DEFINE y == [loop EXCEPT !.next = override, !.pending = TRUE]
  <2>1. y = [loop EXCEPT !.current = loop.current, !.next = override, !.pending = TRUE,
                         !.limit = loop.limit]
    BY <1>1 DEF LoopStates
  <2>2. /\ loop.current \in Overrides /\ loop.limit \in Limits
        /\ loop.limit = "override" => OwnRatio(loop.current)
    BY <1>1 DEF LoopStates, StateOK, LimitOK
  <2> HIDE DEF y
  <2>3. SpeedStep(loop, y)
    BY <1>1, <2>1, <2>2, OverrideKeeps
  <2>4. BetweenStep(y)
    BY <2>3 DEF BetweenStep, SpeedStep, PauseSame, Beside
  <2> QED
    BY <1>8, <2>4, BetweenKeepsLoop DEF SET_FASTFORWARDING_OVERRIDE, y
<1>9. ASSUME NEW on \in BOOLEAN, AppFastForward(on)
      PROVE  LoopInv' /\ cause' = {}
  <2> DEFINE v == SetFast(loop, on)
             x == [v EXCEPT !.custom = on]
             y == [x EXCEPT !.limit = Ratio(x)]
  <2>1. StateOK(v) /\ Beside(loop, v) /\ PauseSame(loop, v) /\ NoSkew(loop, v) /\ v \in LoopStates
    BY <1>1, FastKeeps DEF StateOK
  <2>2. Between(x) \/ Between(y)
    BY <1>9 DEF AppFastForward
  <2> HIDE DEF v
  <2>3. /\ x \in LoopStates /\ x.flags = v.flags /\ x.audioBlocks = v.audioBlocks
        /\ x.afterFrames = v.afterFrames /\ x.runFrames = v.runFrames
        /\ x.hotkey = v.hotkey /\ x.old = v.old /\ x.limit = v.limit
        /\ x.current = v.current /\ Beside(v, x)
    BY <2>1 DEF LoopStates, Beside
  <2> HIDE DEF x
  <2>4. StateOK(x)
    BY <2>1, <2>3 DEF StateOK, SpeedOK, LimitOK, FramesOK, Has, Beside
  <2>5. SpeedStep(loop, x)
    BY <2>1, <2>3, <2>4 DEF SpeedStep, Beside, PauseSame, NoSkew, Has
  <2>6. SpeedStep(loop, y)
    BY <2>4, <2>5, RatioKeeps, SpeedSteps
  <2> HIDE DEF y
  <2>7. BetweenStep(x) /\ BetweenStep(y)
    BY <2>5, <2>6 DEF BetweenStep, SpeedStep, PauseSame, Beside
  <2> QED
    BY <2>2, <2>7, BetweenKeepsLoop
<1> QED
  BY <1>3, <1>4, <1>5, <1>6, <1>7, <1>8, <1>9

\* Every step of the loop keeps the invariant, and is one of a pass or between passes.
LEMMA LoopKeeps ==
  ASSUME LoopInv, [LoopNext]_loopVars
  PROVE  /\ LoopInv'
         /\ \/ cause' = {} \/ UNCHANGED loopVars
            \/ \E k \in KeySets, how \in Circumstances :
                 runloop_iterate(k, how) /\ Over(loop', loop, k, how)
<1>1. ASSUME NEW k \in KeySets, NEW how \in Circumstances, runloop_iterate(k, how)
      PROVE  LoopInv' /\ Over(loop', loop, k, how)
  BY <1>1, PassKeepsLoop
<1>2. CASE \/ AppPause \/ AppIdle \/ SHUTDOWN \/ runloop_event_deinit_core
           \/ \E on \in BOOLEAN : runloop_set_rewind_hold(on) \/ AppFastForward(on)
           \/ \E override \in Overrides : SET_FASTFORWARDING_OVERRIDE(override)
  BY <1>2, BetweenSteps
<1>3. CASE UNCHANGED loopVars
  BY <1>3 DEF loopVars, LoopInv, LoopTypeOK, BurstOK
<1> QED
  BY <1>1, <1>2, <1>3 DEF LoopNext

\* The inductive invariant holds, for any keys, slots and number of events.
THEOREM LoopIsKept == LoopSpec => []LoopInv
<1>1. LoopInit => LoopInv
  BY LoopStarts
<1>2. LoopInv /\ [LoopNext]_loopVars => LoopInv'
  BY LoopKeeps
<1> QED
  BY <1>1, <1>2, PTL DEF LoopSpec

\* No state of a speed, of a rewind or of a pause stays behind, whichever key, early
\* return of a check or override of the core has ended it.
THEOREM SpeedIsOver == LoopSpec => []SpeedEnds
<1>1. LoopInv => SpeedEnds
  <2> SUFFICES ASSUME LoopInv PROVE SpeedEnds
    OBVIOUS
  <2>1. loop.runFrames \in -1 .. 3 /\ burst \in -1 .. 4
    BY DEF LoopInv, LoopTypeOK, LoopStates
  <2>2. RewindPausesAgain
    BY <2>1 DEF LoopInv, BurstOK, RewindPausesAgain
  <2>3. FastMeansNonblocking /\ MuteEnds /\ AudioBlocksAgain
    BY DEF LoopInv, StateOK, SpeedOK, FastMeansNonblocking, MuteEnds, AudioBlocksAgain
  <2>4. LimitEnds
    BY DEF LoopInv, StateOK, LimitOK, LimitEnds, OwnRatio
  <2> QED
    BY <2>2, <2>3, <2>4 DEF LoopInv, SpeedEnds
<1> QED
  BY <1>1, LoopIsKept, PTL

\* A paused core runs only when the player asks for a frame, and one without the focus
\* only to rewind from pause or behind a menu that does not pause.
THEOREM CoreIsAtRest == LoopSpec => CoreRests
<1>1. LoopInv /\ [LoopNext]_loopVars
        => [Has(loop, "paused") /\ loop'.ran /\ "pass" \in cause'
              => "asked" \in cause']_loopVars
  <2> SUFFICES ASSUME LoopInv, [LoopNext]_loopVars, ~UNCHANGED loopVars,
                      Has(loop, "paused"), loop'.ran, "pass" \in cause'
               PROVE  "asked" \in cause'
    OBVIOUS
  <2>1. PICK k \in KeySets, how \in Circumstances :
          runloop_iterate(k, how) /\ Over(loop', loop, k, how)
    BY LoopKeeps
  <2>2. Asked(loop, k)
    BY <2>1 DEF Over
  <2> QED
    BY <2>1, <2>2 DEF runloop_iterate, Asked
<1>2. LoopInv /\ [LoopNext]_loopVars
        => [loop'.ran /\ "away" \in cause'
              => (Has(loop, "paused") /\ "rewind" \in loop'.old) \/ loop'.menu]_loopVars
  <2> SUFFICES ASSUME LoopInv, [LoopNext]_loopVars, ~UNCHANGED loopVars,
                      loop'.ran, "away" \in cause'
               PROVE  (Has(loop, "paused") /\ "rewind" \in loop'.old) \/ loop'.menu
    OBVIOUS
  <2>1. PICK k \in KeySets, how \in Circumstances :
          runloop_iterate(k, how) /\ Over(loop', loop, k, how)
    BY LoopKeeps
  <2>2. how = "unfocused"
    BY <2>1 DEF runloop_iterate
  <2> QED
    BY <2>1, <2>2 DEF Over
<1> QED
  BY <1>1, <1>2, LoopIsKept, PTL DEF LoopSpec, CoreRests, PausedCoreRests, UnfocusedCoreRests

\* A shutdown that the core has asked for is taken up by the next pass.
THEOREM ShutdownIsServed == LoopSpec => ShutdownIsTaken
<1>1. LoopInv /\ [LoopNext]_loopVars
        => [Has(loop, "shutdown") /\ "pass" \in cause'
              => loop'.out = "QUIT" \/ ~Has(loop', "shutdown")]_loopVars
  <2> SUFFICES ASSUME LoopInv, [LoopNext]_loopVars, ~UNCHANGED loopVars, "pass" \in cause'
               PROVE  loop'.out = "QUIT" \/ ~Has(loop', "shutdown")
    OBVIOUS
  <2>1. PICK k \in KeySets, how \in Circumstances :
          runloop_iterate(k, how) /\ Over(loop', loop, k, how)
    BY LoopKeeps
  <2> QED
    BY <2>1 DEF Over
<1> QED
  BY <1>1, LoopIsKept, PTL DEF LoopSpec, ShutdownIsTaken

===============================================================================
