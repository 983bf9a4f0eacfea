-------------------------------- MODULE RoomApi --------------------------------
(***************************************************************************)
(* What the Room bridge promises the screen that polls it                  *)
(* (citra_libretro/room_api.h): which of its five states may follow which, *)
(* seen through az_room_snapshot alone, without threads, sockets or locks. *)
(***************************************************************************)

VARIABLES
    shown,      \* az_room_snapshot.state
    open,       \* a game is running: joining is accepted
    busy,       \* a session has been started and has not ended
    cancelled   \* the session, if any, has been asked to end

apiVars == <<shown, open, busy, cancelled>>

ApiInit ==
    /\ shown = "OFFLINE"
    /\ open = FALSE
    /\ busy = FALSE
    /\ cancelled = FALSE

\* Leaving, and a game that starts or stops, asks a session to end; a game
\* that stops also closes the door.
Cancel ==
    /\ cancelled' = TRUE
    /\ open' \in {open, FALSE}
    /\ UNCHANGED <<shown, busy>>

\* A game is ready.
Open ==
    /\ ~busy /\ cancelled
    /\ shown' = "IDLE"
    /\ open' = TRUE
    /\ UNCHANGED <<busy, cancelled>>

\* The game is gone, and with it every session.
Close ==
    /\ ~busy /\ ~open /\ cancelled
    /\ shown' = "OFFLINE"
    /\ UNCHANGED <<open, busy, cancelled>>

\* A join is accepted, one session at a time.
Accept ==
    /\ open /\ ~busy
    /\ cancelled' = FALSE
    /\ UNCHANGED <<shown, open, busy>>

ShowJoining ==
    /\ open /\ ~busy /\ ~cancelled
    /\ shown' = "JOINING"
    /\ UNCHANGED <<open, busy, cancelled>>

Start ==
    /\ shown = "JOINING" /\ ~busy
    /\ \/ busy' = TRUE /\ UNCHANGED shown
       \/ shown' = "IDLE" /\ UNCHANGED busy
    /\ UNCHANGED <<open, cancelled>>

\* The room let the player in; never once leaving was asked for.
ShowJoined ==
    /\ busy /\ ~cancelled
    /\ shown \in {"JOINING", "JOINED"}
    /\ shown' = "JOINED"
    /\ UNCHANGED <<open, busy, cancelled>>

ShowLeaving ==
    /\ busy /\ cancelled
    /\ shown' = "LEAVING"
    /\ UNCHANGED <<open, busy, cancelled>>

\* The session is over: first to be seen, then for the next join.
ShowIdle ==
    /\ busy
    /\ shown' = "IDLE"
    /\ UNCHANGED <<open, busy, cancelled>>

End ==
    /\ busy
    /\ shown \in {"IDLE", "LEAVING"}
    /\ busy' = FALSE
    /\ UNCHANGED <<shown, open, cancelled>>

ApiNext ==
    \/ Cancel \/ Open \/ Close
    \/ Accept \/ ShowJoining \/ Start
    \/ ShowJoined \/ ShowLeaving \/ ShowIdle \/ End

ApiSpec == ApiInit /\ [][ApiNext]_apiVars

================================================================================
