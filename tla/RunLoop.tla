------------------------------- MODULE RunLoop -------------------------------
(***************************************************************************)
(* One pass of RetroArch's run loop after the other: runloop_iterate with  *)
(* runloop_check_state, which turns the hotkeys, the focus and what the    *)
(* core and the app have asked for into pausing, frame advance, rewinding, *)
(* fast forward, slow motion, the slot of the save states and the end.     *)
(*                                                                         *)
(* A pass is sequential C with early returns.  Each check is an operator   *)
(* from a pass to a pass; `out` is "go" until a check returns.  The checks *)
(* keep static variables of the keys' former state, which an early return  *)
(* leaves as they are.                                                     *)
(***************************************************************************)
EXTENDS Integers

CONSTANTS
    KeySets,  \* the hotkeys that may be down in a pass, a set of sets
    LastSlot, \* bound: 999 in the code
    MaxEvents \* bound: passes with a key or a circumstance, and steps between passes

\* "start" is the joypad's, which ends a pause too (pause_on_disconnect).
HotKeys == {"pause", "start", "advance", "rewind", "ff", "ffhold", "slow", "slowhold",
            "plus", "minus", "menu", "quit"}

ASSUME KeySetsAssumption == {} \in KeySets /\ KeySets \subseteq SUBSET HotKeys
ASSUME LastSlotAssumption == LastSlot \in Nat
ASSUME MaxEventsAssumption == MaxEvents \in Nat

\* What may be special about a pass: no focus; netplay forbids skipping time; the
\* rewind buffer is empty; the frame limiter sleeps; a quit key comes too late to be
\* the second press, or quitting loads the dummy core.
Circumstances == {"usual", "unfocused", "notimeskip", "norewind", "sleeps", "late", "dummy"}

Flags == {"paused", "fast", "nonblock", "muted", "slow", "idle", "running", "shutdown",
          "coreShutdown"}

\* Override of the fast forward by the core: fast forward, at a ratio of its own or at
\* the usual one, and whether the hotkeys are off.  A ratio without fast forward is
\* ignored wherever it is looked at.
Overrides == {o \in SUBSET {"fast", "own", "inhibit"} : "own" \in o => "fast" \in o}

\* Who has set the limit of the frames: the settings, the refresh rate of a pause, the
\* core's override, the app.
Limits == {"ratio", "refresh", "override", "custom"}

Results == {"go", "QUIT", "SLEEP", "PAUSE", "MENU", "ITERATE"}

VARIABLES
    loop,    \* runloop_state and the static variables of the checks
    cause,   \* history: what the last step was, a pass, asked to run in pause, out of focus
    skewed,  \* history: a pass has left nonblocking mode on by itself
    burst,   \* history: frames run since a rewind from pause began; -1 without one
    events   \* how many events there have been, for the bound

loopVars == <<loop, cause, skewed, burst, events>>

LoopStates ==
    [flags : SUBSET Flags, old : SUBSET (HotKeys \cup {"menupause"}),
     hotkey : BOOLEAN, stepping : BOOLEAN, oldFocus : BOOLEAN, hold : BOOLEAN,
     runFrames : -1 .. 3, afterFrames : 0 .. 5, audioBlocks : BOOLEAN,
     current : Overrides, next : Overrides, pending : BOOLEAN,
     limit : Limits, custom : BOOLEAN, slot : -1 .. LastSlot,
     menu : BOOLEAN, flushing : 0 .. 2, dummy : BOOLEAN,
     out : Results, ran : BOOLEAN, vrr : BOOLEAN, menuPauses : BOOLEAN]

LoopTypeOK ==
    /\ loop \in LoopStates
    /\ cause \in SUBSET {"pass", "asked", "away"}
    /\ skewed \in BOOLEAN /\ burst \in -1 .. 4 /\ events \in 0 .. MaxEvents

Has(x, flag) == flag \in x.flags
Set(x, flag) == [x EXCEPT !.flags = @ \cup {flag}]
Clear(x, flag) == [x EXCEPT !.flags = @ \ {flag}]
Put(x, flag, on) == IF on THEN Set(x, flag) ELSE Clear(x, flag)

\* A static variable takes the state of its key.
Remember(x, name, down) == [x EXCEPT !.old = IF down THEN @ \cup {name} ELSE @ \ {name}]

Pressed(x, k, name) == name \in k /\ name \notin x.old

-------------------------------------------------------------------------------
(* Pausing. *)

runloop_pause_checks(x) ==
    [x EXCEPT !.limit = IF Has(x, "paused") THEN "refresh" ELSE "ratio", !.runFrames = -1]

\* External: CMD_EVENT_PAUSE, CMD_EVENT_UNPAUSE and CMD_EVENT_PAUSE_TOGGLE.
Pause(x) == runloop_pause_checks(Set(x, "paused"))
Unpause(x) == runloop_pause_checks(Clear(x, "paused"))
PauseToggle(x) == IF Has(x, "paused") THEN Unpause(x) ELSE Pause(x)

runloop_pause_toggle(x, pressed, old_pressed, focused) ==
    IF focused
    THEN IF pressed /\ ~old_pressed
         THEN PauseToggle([x EXCEPT !.hotkey = ~Has(x, "paused")])
         ELSE IF ~x.oldFocus THEN Unpause(x) ELSE x
    ELSE IF x.oldFocus THEN Pause(x) ELSE x

-------------------------------------------------------------------------------
(* The core may set the speed. *)

Forced(override) == "fast" \in override

\* What runloop_apply_fastmotion_override takes for the ratio.
OverrideRatio(override) == IF {"fast", "own"} \subseteq override THEN "override" ELSE "ratio"

\* runloop_get_fastforward_ratio, for the frame limit: first of all comes the ratio of
\* the app (get_custom_fastforward_ratio).
Ratio(x) == IF x.custom THEN "custom" ELSE OverrideRatio(x.current)

\* External: driver_set_nonblock_state.
SetFast(x, fast) ==
    [Put(Put(Put(x, "fast", fast), "nonblock", fast), "muted", fast)
       EXCEPT !.audioBlocks = ~fast, !.afterFrames = IF fast THEN @ ELSE 1]

runloop_apply_fastmotion_override(x) ==
    LET y == IF Has(x, "fast") # Forced(x.next) THEN SetFast(x, Forced(x.next)) ELSE x
    IN  [y EXCEPT !.current = x.next, !.pending = FALSE,
                  !.limit = IF OverrideRatio(x.next) # OverrideRatio(x.current)
                            THEN OverrideRatio(x.next) ELSE @]

ApplyPending(x) == IF x.pending THEN runloop_apply_fastmotion_override(x) ELSE x

runloop_fastmotion_override_free(x) ==
    [x EXCEPT !.current = {}, !.next = {}, !.pending = FALSE,
              !.limit = IF OverrideRatio(x.current) = "override" THEN "ratio" ELSE @]

\* runloop_event_deinit_core applies what is pending, runloop_state_free drops it.
Unloaded(x) == runloop_fastmotion_override_free(ApplyPending(x))

\* runloop_event_init_core sets the limit for the core that follows.
Replaced(x) == [Unloaded(x) EXCEPT !.limit = Ratio(Unloaded(x))]

-------------------------------------------------------------------------------
(* The checks of runloop_check_state.  A pass p has the state x, the keys k   *)
(* and the circumstance how, and two local variables of the C function:       *)
(* paused, the flag at the start, and focused.                                *)

Going(p, y) == IF p.x.out = "go" THEN y ELSE p

Return(x, result) == [x EXCEPT !.out = result]

\* After the menu, keys are ignored until they are released and one pass more; a
\* pause by the menu is ended, a pause by the hotkey made good.
CheckFlush(p) ==
    LET down == p.k # {}
        left == IF down THEN p.x.flushing ELSE p.x.flushing - 1
        x == [p.x EXCEPT !.flushing = left]
        byMenu == p.paused /\ ~x.hotkey /\ x.menuPauses
        restore == ~byMenu /\ x.hotkey /\ x.menuPauses
    IN  IF p.x.flushing = 0 THEN p
        ELSE IF left = 0 THEN [p EXCEPT !.x = x]
        ELSE [p EXCEPT !.k = IF byMenu THEN {"pause"} ELSE {},
                       !.x = IF restore THEN Pause(x) ELSE x]

\* Faulty: looked at only while the core runs.
QuitUnlessPaused(p) ==
    IF p.paused \/ ~Has(p.x, "shutdown") THEN p ELSE [p EXCEPT !.x = Return(p.x, "QUIT")]

\* A shutdown by the core unloads it, and goes on with the dummy core if set so.
CheckQuit(p) ==
    LET wanted == (Pressed(p.x, p.k, "quit") /\ p.how # "late") \/ Has(p.x, "shutdown")
        x == Remember(p.x, "quit", "quit" \in p.k)
        dummy == Has(x, "coreShutdown") /\ p.how = "dummy"
        y == [(IF dummy THEN Replaced(x)
               ELSE IF Has(x, "coreShutdown") THEN Unloaded(x) ELSE x) EXCEPT
                !.flags = @ \ ({"coreShutdown", "running"}
                                 \cup IF dummy THEN {"shutdown"} ELSE {}),
                !.dummy = @ \/ dummy]
    IN  Going(p, [p EXCEPT !.x = IF ~wanted THEN x
                                 ELSE IF dummy THEN y ELSE Return(y, "QUIT")])

\* External: retroarch_menu_running may pause, retroarch_menu_running_finished flushes.
MenuOpens(x) == [(IF x.menuPauses THEN Pause(x) ELSE x) EXCEPT !.menu = TRUE]
MenuCloses(x) == [x EXCEPT !.menu = FALSE, !.flushing = 2]

CheckMenuToggle(p) ==
    LET x == Remember(p.x, "menu", "menu" \in p.k)
        y == IF Pressed(p.x, p.k, "menu")
             THEN IF ~x.menu THEN MenuOpens(x)
                  ELSE IF ~x.dummy /\ Has(x, "running") THEN MenuCloses(x) ELSE x
             ELSE IF x.dummy /\ ~x.menu THEN MenuOpens(x) ELSE x
    IN  Going(p, [p EXCEPT !.x = y])

\* runloop_is_libretro_running: under the menu the core runs unless paused.
LibretroRunning(x) == ~Has(x, "paused") /\ ~x.menuPauses /\ Has(x, "running")

\* An idle loop sleeps; display_menu_libretro runs a frame behind the menu.
CheckIdle(p) ==
    LET away == p.how = "unfocused"
        x == [p.x EXCEPT !.ran = @ \/ (p.x.menu /\ ~Has(p.x, "idle") /\ LibretroRunning(p.x))]
    IN  Going(p, [p EXCEPT !.x = IF Has(x, "idle") \/ (x.menu /\ away)
                                 THEN Return(x, "SLEEP") ELSE x])

\* Rewinding from pause runs frames so that the first ones go backwards.
\* External: state_manager_check_rewind.
CheckRewind(p) ==
    LET pressed == ("rewind" \in p.k \/ p.x.hold) /\ ~p.x.menu
        was == "rewind" \in p.x.old
        rewinding == pressed /\ p.how # "norewind"
        x == Remember(IF pressed # was THEN Put(p.x, "muted", pressed) ELSE p.x,
                      "rewind", pressed)
        y == IF x.runFrames = -1
             THEN [Clear(x, "paused") EXCEPT !.runFrames = 3] ELSE x
    IN  Going(p, [p EXCEPT !.x =
                    IF p.paused /\ pressed /\ was /\ p.x.runFrames = 0
                    THEN Return(p.x, "PAUSE")
                    ELSE IF rewinding /\ p.paused /\ ~p.x.menu
                    THEN Return(y, "ITERATE") ELSE x])

\* With the menu open the checks end here.
CheckMenuPause(p) ==
    LET down == "pause" \in p.k
        x == runloop_pause_toggle(p.x, down, "menupause" \in p.x.old, TRUE)
    IN  IF ~p.x.menu THEN p
        ELSE Going(p, [p EXCEPT !.x = Return(
               Remember([x EXCEPT !.oldFocus = TRUE], "menupause", down), "MENU")])

SleepsUnfocused(q) == ~q.focused /\ ~q.paused

\* Frame advance pauses, and lets one frame pass.
CheckPause(p) ==
    LET trigger == Pressed(p.x, p.k, "advance")
        focused == p.how # "unfocused"
        pressed == \/ "pause" \in p.k \/ ("start" \in p.k /\ p.paused)
                   \/ trigger /\ ~Has(p.x, "paused")
        stepping == trigger \/ (p.x.stepping /\ "pause" \notin p.k)
        toggled == runloop_pause_toggle(p.x, pressed, "pause" \in p.x.old, focused)
        y == Remember(Remember([toggled EXCEPT !.oldFocus = focused, !.stepping = stepping],
                               "pause", pressed), "advance", "advance" \in p.k)
        oneshot == trigger \/ "rewind" \in p.k
        now == Has(y, "paused")
        q == [p EXCEPT !.x = y,
                       !.focused = focused /\ (now => oneshot),
                       !.paused = @ /\ ~(now /\ (oneshot \/ stepping))]
    IN  Going(p, IF SleepsUnfocused(q) THEN [q EXCEPT !.x = Return(y, "SLEEP")] ELSE q)

-------------------------------------------------------------------------------
(* Fast forward, slow motion, slots. *)

\* Faulty: entering fast forward leaves the drivers blocking.
FastmotionBlocking(p) ==
    IF Pressed(p.x, p.k, "ff") /\ "inhibit" \notin p.x.current
    THEN [p EXCEPT !.x = Remember(Put(p.x, "fast", ~Has(p.x, "fast")), "ff", TRUE)]
    ELSE [p EXCEPT !.x = Remember(p.x, "ff", "ff" \in p.k)]

\* In a pause the keys count as released and fast forward ends; the mode is marked
\* nonblocking to that end before netplay may forbid the change.
CheckFastmotion(p) ==
    LET check == Pressed(p.x, p.k, "ff") \/ ("ffhold" \in p.k) # ("ffhold" \in p.x.old)
        halt == check /\ p.paused
        x == IF halt THEN Set(p.x, "nonblock") ELSE p.x
        toggled == IF ~check \/ p.how = "notimeskip" THEN x
                   ELSE IF Has(x, "nonblock") THEN SetFast(x, FALSE)
                   ELSE [SetFast(x, TRUE) EXCEPT !.limit = Ratio(x)]
        y == Remember(Remember(toggled, "ff", "ff" \in p.k /\ ~halt),
                      "ffhold", "ffhold" \in p.k /\ ~halt)
    IN  Going(p, IF "inhibit" \in p.x.current THEN p ELSE [p EXCEPT !.x = y])

CheckOverride(p) == Going(p, [p EXCEPT !.x = ApplyPending(p.x)])

CheckSlowmotion(p) ==
    LET key == "slow" \in p.k /\ ~p.paused
        hold == "slowhold" \in p.k /\ ~p.paused
        slow == IF key /\ "slow" \notin p.x.old THEN ~Has(p.x, "slow")
                ELSE IF hold # ("slowhold" \in p.x.old) THEN hold ELSE Has(p.x, "slow")
    IN  Going(p, [p EXCEPT !.x =
          Remember(Remember(Put(p.x, "slow", slow /\ p.how # "notimeskip"), "slow", key),
                   "slowhold", hold)])

\* The slot goes from -1, chosen automatically, to the last and around.
Up(slot) == IF slot + 1 > LastSlot THEN -2 + 1 ELSE slot + 1

Down(slot) == IF slot <= -1 THEN LastSlot + 1 - 1 ELSE slot - 1

CheckSlots(p) ==
    LET slot == IF Pressed(p.x, p.k, "plus") THEN Up(p.x.slot)
                ELSE IF Pressed(p.x, p.k, "minus") THEN Down(p.x.slot) ELSE p.x.slot
    IN  Going(p, [p EXCEPT !.x = Remember(Remember([p.x EXCEPT !.slot = slot],
                    "plus", "plus" \in p.k), "minus", "minus" \in p.k)])

\* Faulty: the pause is forgotten.
ResultUnpaused(p) ==
    Going(p, [p EXCEPT !.x = Return(p.x, IF p.menuWas THEN "MENU" ELSE "ITERATE")])

CheckResult(p) ==
    Going(p, [p EXCEPT !.x = Return(p.x, IF p.paused THEN "PAUSE"
                                         ELSE IF p.menuWas THEN "MENU" ELSE "ITERATE")])

runloop_check_state(x, k, how) ==
    LET start == [x |-> [x EXCEPT !.out = "go", !.ran = FALSE], k |-> k, how |-> how,
                  paused |-> Has(x, "paused"), focused |-> TRUE, menuWas |-> x.menu]
        first == CheckIdle(CheckMenuToggle(CheckQuit(CheckFlush(start))))
        pauses == CheckPause(CheckMenuPause(CheckRewind(first)))
    IN  CheckResult(CheckSlots(CheckSlowmotion(CheckFastmotion(CheckOverride(pauses))))).x

-------------------------------------------------------------------------------
(* The pass. *)

\* With vrr_runloop_enable the audio follows a few frames after a fast forward.
EndAudio(x) ==
    LET n == x.afterFrames
    IN  IF ~x.vrr \/ n = 0 THEN x
        ELSE IF n = 5 THEN [x EXCEPT !.audioBlocks = TRUE, !.afterFrames = 0]
        ELSE [x EXCEPT !.audioBlocks = IF n = 1 THEN FALSE ELSE @, !.afterFrames = n + 1]

EndLimit(x) ==
    IF x.vrr THEN [x EXCEPT !.limit = IF Has(x, "fast") THEN Ratio(x) ELSE "ratio"]
    ELSE x

\* A pass that sleeps for the frame limit returns before the count.
Sleeps(x, how) == how = "sleeps" /\ (x.vrr \/ Has(x, "fast") \/ Has(x, "paused"))

CountFrames(x) ==
    IF x.runFrames <= 0 THEN x
    ELSE [(IF x.runFrames = 1 THEN Set(x, "paused") ELSE x) EXCEPT !.runFrames = @ - 1]

End(x, how) ==
    LET y == EndLimit(EndAudio(x))
    IN  IF Sleeps(y, how) THEN y ELSE CountFrames(y)

Passed(k, how) ==
    LET x == runloop_check_state(loop, k, how)
    IN  CASE x.out = "QUIT" -> Clear(x, "running")
          [] x.out = "SLEEP" -> x
          [] x.out \in {"PAUSE", "MENU"} -> End(x, how)
          [] OTHER -> End([Set(x, "running") EXCEPT !.ran = TRUE], how)

\* A circumstance that makes no difference to the pass need not be looked at.
Matters(k, how) ==
    CASE how = "late" -> "quit" \in k
      [] how = "dummy" -> Has(loop, "coreShutdown")
      [] how = "norewind" -> "rewind" \in k \/ loop.hold
      [] how = "notimeskip" -> k \cap {"ff", "ffhold", "slow", "slowhold"} # {} \/ Has(loop, "slow")
      [] OTHER -> TRUE

\* A pass that sleeps is over before the frames are counted.
EndsEarly(how) == loop'.out = "SLEEP" \/ how = "sleeps"

\* The frames of a rewind from pause: runFrames counts them down from three.
Counted(how) ==
    LET began == loop.runFrames <= 0 /\ loop'.runFrames > 0
        before == IF began THEN 0 ELSE burst
    IN  IF loop'.runFrames < 0 THEN -1
        ELSE IF (began \/ loop.runFrames > 0) /\ loop'.ran /\ ~EndsEarly(how) /\ before \in 0 .. 3
        THEN before + 1 ELSE before

Event == events < MaxEvents /\ events' = events + 1

runloop_iterate(k, how) ==
    /\ loop.out # "QUIT" /\ Matters(k, how)
    /\ IF k = {} /\ how = "usual" THEN UNCHANGED events ELSE Event
    /\ loop' = Passed(k, how)
    /\ cause' = {"pass"} \cup (IF how = "unfocused" THEN {"away"} ELSE {})
          \cup IF k \cap {"advance", "rewind"} # {} \/ loop.hold THEN {"asked"} ELSE {}
    /\ skewed' = (/\ Has(loop', "nonblock") /\ ~Has(loop', "fast")
                  /\ (skewed \/ (Has(loop, "paused") /\ how = "notimeskip")))
    /\ burst' = Counted(how)

\* Between two passes, all on the main thread.
Between(x) ==
    /\ loop.out # "QUIT" /\ Event
    /\ loop' = x /\ loop' # loop
    /\ burst' = IF x.runFrames < 0 THEN -1 ELSE burst
    /\ cause' = {} /\ UNCHANGED skewed

\* External: the app pauses and resumes the game.
AppPause == \/ Between(Pause(loop))
            \/ Between(Unpause(loop))

\* runloop_set_rewind_hold: the app's rewind button.
runloop_set_rewind_hold(hold) == Between([loop EXCEPT !.hold = hold])

\* External: the app goes to the background and returns.
AppIdle == Between(Put(loop, "idle", ~Has(loop, "idle")))

\* External: the app's fast forward, with a ratio of its own; whether the limit
\* changes at once cannot be seen here.
AppFastForward(on) ==
    LET x == [SetFast(loop, on) EXCEPT !.custom = on]
    IN  Between(x) \/ Between([x EXCEPT !.limit = Ratio(x)])

SET_FASTFORWARDING_OVERRIDE(override) ==
    ~loop.dummy /\ Between([loop EXCEPT !.next = override, !.pending = TRUE])

\* RETRO_ENVIRONMENT_SHUTDOWN, called by the core while it runs a frame.
SHUTDOWN == loop.ran /\ ~loop.dummy
            /\ Between(Set(Set(loop, "shutdown"), "coreShutdown"))

\* The core is closed, and the dummy core or another one follows.
runloop_event_deinit_core == Between(Replaced(loop))

LoopInit ==
    /\ loop \in {[flags |-> {}, old |-> {}, hotkey |-> FALSE, stepping |-> FALSE,
                  oldFocus |-> TRUE, hold |-> FALSE, runFrames |-> 0, afterFrames |-> 0,
                  audioBlocks |-> TRUE, current |-> {}, next |-> {},
                  pending |-> FALSE, limit |-> "ratio", custom |-> FALSE, slot |-> 0,
                  menu |-> FALSE, flushing |-> 0, dummy |-> FALSE, out |-> "go", ran |-> FALSE,
                  vrr |-> v, menuPauses |-> m] : v \in BOOLEAN, m \in BOOLEAN}
    /\ cause = {}
    /\ skewed = FALSE /\ burst = -1 /\ events = 0

LoopNext ==
    \/ \E k \in KeySets, how \in Circumstances : runloop_iterate(k, how)
    \/ AppPause \/ AppIdle \/ SHUTDOWN \/ runloop_event_deinit_core
    \/ \E on \in BOOLEAN : runloop_set_rewind_hold(on) \/ AppFastForward(on)
    \/ \E override \in Overrides : SET_FASTFORWARDING_OVERRIDE(override)

LoopSpec == LoopInit /\ [][LoopNext]_loopVars

-------------------------------------------------------------------------------
(* Properties. *)

\* A paused core runs a frame only in the pass of a frame advance or of a rewind,
\* by its key or by the app's button.
PausedCoreRests ==
    [][Has(loop, "paused") /\ loop'.ran /\ "pass" \in cause'
         => "asked" \in cause']_loopVars

\* Without the focus a core runs only to rewind from pause, or behind a menu that
\* does not pause.
UnfocusedCoreRests ==
    [][loop'.ran /\ "away" \in cause'
         => (Has(loop, "paused") /\ "rewind" \in loop'.old) \/ loop'.menu]_loopVars

\* Both: the core runs only when the player would expect it.
CoreRests == PausedCoreRests /\ UnfocusedCoreRests

\* A rewind from pause runs three frames at most, not counting the passes that the
\* frame limiter ends early, and is paused again after the last of them.
RewindPausesAgain ==
    /\ burst <= 3
    /\ burst >= 0 /\ loop.runFrames = 0 => Has(loop, "paused")
    /\ burst = 3 => loop.runFrames = 0

\* Fast forward and nonblocking drivers go together; the one way out is a key in a
\* pause while netplay forbids to skip time.
FastMeansNonblocking ==
    /\ Has(loop, "fast") => Has(loop, "nonblock")
    /\ Has(loop, "nonblock") => Has(loop, "fast") \/ skewed

\* No silence stays behind: the audio is muted in fast forward or rewind only.
MuteEnds == Has(loop, "muted") => Has(loop, "fast") \/ "rewind" \in loop.old

\* Once the delay is over the audio blocks again, however fast forward has ended.
AudioBlocksAgain == loop.afterFrames = 0 /\ ~Has(loop, "fast") => loop.audioBlocks

\* The frame limit of the pause does not outlast it, nor that of an override the core
\* that has set it.
LimitEnds ==
    /\ loop.limit = "refresh" => Has(loop, "paused") \/ loop.runFrames > 0
    /\ loop.limit = "override" => {"fast", "own"} \subseteq loop.current

\* No state of a speed, of a rewind or of a pause stays behind, whichever key, early
\* return or override of the core has ended it; and the loop's fields are in range.
SpeedEnds ==
    LoopTypeOK /\ RewindPausesAgain /\ FastMeansNonblocking /\ MuteEnds /\ AudioBlocksAgain
      /\ LimitEnds

\* A shutdown that the core asks for is taken up by the next pass, paused or idle or
\* with the menu open.
ShutdownIsTaken ==
    [][Has(loop, "shutdown") /\ "pass" \in cause'
         => loop'.out = "QUIT" \/ ~Has(loop', "shutdown")]_loopVars
=============================================================================
