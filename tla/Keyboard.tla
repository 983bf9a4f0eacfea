------------------------------- MODULE Keyboard -------------------------------
(***************************************************************************)
(* The 3DS software keyboard over the life of the core: a title asks for   *)
(* text (swkbd_apple.cpp), the request goes through the core's adapter     *)
(* (manic_compat.cpp, citra_libretro.cpp) and the frontend bridge          *)
(* (LibretroCore.m) to a dialog on the main queue, and the answer comes    *)
(* back whenever the player taps, when the title may be another one.       *)
(*                                                                         *)
(* Of s_azahar_keyboard_generation only equality is asked, so a block or a *)
(* dialog says whether its generation is still the current one.            *)
(***************************************************************************)
EXTENDS CoreLife, FiniteSets, Naturals

CONSTANT MaxDialogs  \* bound: dialogs queued or open

ASSUME MaxDialogsAssumption == MaxDialogs \in Nat \ {0}

\* AzaharButtonConfig: it decides the number of the OK button.
ButtonConfigs == {"Single", "Dual"}

\* A request on its way to the screen: its block is queued or its dialog shown;
\* `fresh`, the generation is the current one; `mine`, the title still waits for it.
Dialogs == [at : {"queued", "shown"}, config : ButtonConfigs, fresh : BOOLEAN,
            mine : BOOLEAN]

\* The text that Finalize has stored: for the request that waits, and with the
\* button that was tapped.
Answers == [mine : BOOLEAN, right : BOOLEAN]
NoAnswer == [mine |-> FALSE, right |-> FALSE]

VARIABLES
    callback,    \* s_azahar_keyboard_callback
    lastConfig,  \* s_azahar_last_button_config
    dialogs,     \* blocks of the main queue and dialogs on the screen
    adapter,     \* `callback` of manic_compat.cpp
    keyboard,    \* s_apple_keyboard
    registered,  \* it is the keyboard of Core::System; s_keyboard_request_callback is set
    current,     \* s_current_instance
    request,     \* the title waits for text, or "none"
    ready,       \* data_ready of s_apple_keyboard
    answer,      \* its data
    refused,     \* history: an answer for the request has failed the validation
    crossed      \* history: this title has been reset with a dialog open or text ready

bridgeVars == <<callback, lastConfig, dialogs>>
adapterVars == <<adapter, keyboard, registered, current, ready, answer>>
keyboardVars == <<bridgeVars, adapterVars, request, refused, crossed>>
allVars == <<lifeVars, keyboardVars>>

\* Every variable is in its range, and no pointer is left to a keyboard that is gone.
KeyboardTypeOK ==
    /\ LifeTypeOK
    /\ {callback, adapter, keyboard, registered, current, ready, refused, crossed}
         \subseteq BOOLEAN
    /\ lastConfig \in ButtonConfigs
    /\ dialogs \subseteq Dialogs /\ Cardinality(dialogs) <= MaxDialogs
    /\ request \in ButtonConfigs \cup {"none"}
    /\ answer \in Answers
    /\ current => keyboard

KeyboardInit ==
    /\ LifeInit
    /\ callback = FALSE /\ lastConfig = "Single" /\ dialogs = {}
    /\ adapter = FALSE /\ keyboard = FALSE /\ registered = FALSE /\ current = FALSE
    /\ request = "none" /\ ready = FALSE /\ answer = NoAnswer
    /\ refused = FALSE /\ crossed = FALSE

-------------------------------------------------------------------------------
(* The core. *)

\* retro_set_keyboard_callback(nullptr): ~AppleKeyboard clears its pointer, and the
\* default keyboard is registered.
DropKeyboard ==
    /\ keyboard' = FALSE /\ registered' = FALSE /\ current' = FALSE
    /\ ready' = FALSE /\ answer' = NoAnswer

\* By the frontend: the adapter keeps its callback, then retro_set_keyboard_callback.
retro_azahar_set_keyboard_callback(on) ==
    /\ adapter' = on
    /\ IF on THEN /\ keyboard' = TRUE /\ registered' = TRUE
                  /\ UNCHANGED <<current, ready, answer>>
             ELSE DropKeyboard

\* Frontend::RegisterDefaultApplets, in retro_init.
InitDefault ==
    /\ retro_init
    /\ registered' = FALSE
    /\ UNCHANGED <<bridgeVars, adapter, keyboard, current, ready, answer, request, refused,
                   crossed>>

\* dlclose may leave a library with its variables in memory.
LibraryClosed ==
    /\ uninit_libretro_symbols
    /\ \/ UNCHANGED adapterVars
       \/ adapter' = FALSE /\ DropKeyboard
    /\ UNCHANGED <<bridgeVars, request, refused, crossed>>

\* With the title its wait is over, not so the dialog.
WaitEnds ==
    /\ request' = "none" /\ refused' = FALSE
    /\ dialogs' = {[d EXCEPT !.mine = FALSE] : d \in dialogs}

\* Faulty: the core goes without taking its keyboard back.
KeepKeyboard ==
    /\ retro_unload_game \/ PowerOff
    /\ WaitEnds
    /\ answer' = [answer EXCEPT !.mine = FALSE]
    /\ crossed' = FALSE
    /\ UNCHANGED <<callback, lastConfig, adapter, keyboard, registered, current, ready>>

\* retro_unload_game and retro_deinit take the keyboard back before the system goes; the
\* adapter and the frontend keep their callbacks, and the generation stays.
TitleUnloaded ==
    /\ retro_unload_game \/ PowerOff
    /\ WaitEnds
    /\ DropKeyboard
    /\ crossed' = FALSE
    /\ UNCHANGED <<callback, lastConfig, adapter>>

\* retro_reset takes nothing back.
TitleReset ==
    /\ retro_reset
    /\ IF busy THEN UNCHANGED keyboardVars
       ELSE /\ WaitEnds
            /\ answer' = [answer EXCEPT !.mine = FALSE]
            /\ crossed' = (crossed \/ ready \/ \E d \in dialogs : d.mine)
            /\ UNCHANGED <<callback, lastConfig, adapter, keyboard, registered, current,
                           ready>>

\* AppleKeyboard::Execute and azahar_keyboard_request_callback, within retro_run.  The
\* default keyboard answers at once.  External: SoftwareKeyboard::Execute may or may
\* not clear data_ready.
Execute(config) ==
    /\ Emulates /\ request = "none" /\ registered
    /\ Cardinality(dialogs) < MaxDialogs
    /\ request' = config
    /\ current' = TRUE /\ refused' = FALSE
    /\ ready' \in {ready, FALSE}
    /\ dialogs' = IF adapter /\ callback
                  THEN dialogs \cup {[at |-> "queued", config |-> config, fresh |-> TRUE,
                                      mine |-> TRUE]}
                  ELSE dialogs
    /\ UNCHANGED <<lifeVars, callback, lastConfig, adapter, keyboard, registered, answer,
                   crossed>>

\* External: the title's applet polls DataReady in a frame and takes the text.
ReceiveData ==
    /\ Emulates /\ request # "none" /\ registered /\ ready
    /\ request' = "none" /\ ready' = FALSE /\ answer' = NoAnswer
    /\ dialogs' = {[d EXCEPT !.mine = FALSE] : d \in dialogs}
    /\ refused' = FALSE
    /\ UNCHANGED <<lifeVars, callback, lastConfig, adapter, keyboard, registered, current,
                   crossed>>

-------------------------------------------------------------------------------
(* The frontend. *)

\* Without a library only the callback and the generation change; only the experimental
\* core has the adapter.
registerAzaharKeyboard(on) ==
    /\ callback' = on
    /\ dialogs' = {[d EXCEPT !.fresh = FALSE] : d \in dialogs}
    /\ lastConfig' = IF handle /\ ~on THEN "Single" ELSE lastConfig
    /\ IF handle /\ experiment THEN retro_azahar_set_keyboard_callback(on)
       ELSE UNCHANGED adapterVars

\* PlayViewController, once the game has been loaded: its title has not asked yet.
RegisterAfterLoad ==
    /\ Idle /\ running /\ request = "none" /\ ~registered
    /\ registerAzaharKeyboard(TRUE)
    /\ UNCHANGED <<lifeVars, request, refused, crossed>>

\* LibretroCore.stop unregisters before RetroArch unloads the core.
StopUnregisters ==
    /\ stop /\ registerAzaharKeyboard(FALSE)
    /\ UNCHANGED <<request, refused, crossed>>

\* Faulty: the comparison of the generations is turned round.
ShowOld(d) ==
    /\ Idle /\ d.at = "queued"
    /\ IF ~d.fresh
       THEN /\ dialogs' = (dialogs \ {d}) \cup {[d EXCEPT !.at = "shown"]}
            /\ lastConfig' = d.config
       ELSE dialogs' = dialogs \ {d} /\ UNCHANGED lastConfig
    /\ UNCHANGED <<lifeVars, callback, adapterVars, request, refused, crossed>>

\* The block of azahar_keyboard_request_callback.
ShowDialog(d) ==
    /\ Idle /\ d.at = "queued"
    /\ IF d.fresh
       THEN /\ dialogs' = (dialogs \ {d}) \cup {[d EXCEPT !.at = "shown"]}
            /\ lastConfig' = d.config
       ELSE dialogs' = dialogs \ {d} /\ UNCHANGED lastConfig
    /\ UNCHANGED <<lifeVars, callback, adapterVars, request, refused, crossed>>

\* AppleKeyboard::SubmitInput.  External: Finalize takes a valid text and a button that
\* the request has.
SubmitInput(d, valid) ==
    LET right == lastConfig = d.config
        accepted == valid /\ ~(lastConfig = "Dual" /\ request = "Single")
    IN  IF accepted
        THEN /\ current' = FALSE /\ ready' = TRUE
             /\ answer' = [mine |-> d.mine, right |-> right]
             /\ UNCHANGED refused
        ELSE /\ refused' = (refused \/ d.mine)
             /\ UNCHANGED <<current, ready, answer>>

\* The player taps: the dialog goes.  inputAzaharKeyboard, retro_azahar_keyboard_input
\* and retro_keyboard_input each look whether there is somebody to tell.
Tap(d, valid) ==
    /\ Idle /\ d.at = "shown"
    /\ dialogs' = dialogs \ {d}
    /\ IF d.fresh /\ handle /\ adapter /\ current THEN SubmitInput(d, valid)
       ELSE UNCHANGED <<current, ready, answer, refused>>
    /\ UNCHANGED <<lifeVars, callback, lastConfig, adapter, keyboard, registered, request,
                   crossed>>

KeyboardNext ==
    \/ StopUnregisters \/ InitDefault \/ LibraryClosed \/ TitleUnloaded \/ TitleReset
    \/ (OtherBlocks \/ OtherSteps \/ RoomStep) /\ UNCHANGED keyboardVars
    \/ RegisterAfterLoad
    \/ \E config \in ButtonConfigs : Execute(config)
    \/ ReceiveData
    \/ \E d \in dialogs : ShowDialog(d)
    \/ \E d \in dialogs, valid \in BOOLEAN : Tap(d, valid)

KeyboardSpec == KeyboardInit /\ [][KeyboardNext]_allVars

-------------------------------------------------------------------------------
(* Properties *)

\* "Answers of an old game are excluded by the generation": the text that a title takes
\* was typed for the very request it has made, however late the dialogs and the taps
\* come and however its core came to go, with the button that was tapped.  Left out is
\* the title that retro_reset has started anew behind an open dialog, for nobody
\* unregisters there.
AnswerIsForRequest ==
    [][ReceiveData => crossed \/ (answer.mine /\ answer.right)]_allVars

\* A title that waits for text will get it: there is a block or a dialog for its request
\* and the way back is open, unless the text was there already or was not valid, or the
\* title was reset behind a dialog.  No answer meets a keyboard that is gone
\* (KeyboardTypeOK).
RequestHasDialog ==
    /\ KeyboardTypeOK
    /\ Emulates /\ request # "none" /\ ~ready /\ ~refused /\ ~crossed
         => adapter /\ current /\ \E d \in dialogs : d.mine /\ d.fresh
===============================================================================
