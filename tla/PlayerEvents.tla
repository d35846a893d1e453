------------------------------ MODULE PlayerEvents ------------------------------
(***************************************************************************)
(* MPD's player, the events that mpdcron makes of its changes              *)
(* (cron-event.c, and the part of loop_idle that runs them), the trackers  *)
(* of the three modules and the environment of the hooks.                  *)
(*                                                                         *)
(* An event asks MPD for its state when it is handled, and so may stand    *)
(* for several changes.  It is handled within the second; while there is   *)
(* no connection changes go unnoticed, and none is made up for later.      *)
(***************************************************************************)
EXTENDS PlayerTracker, HookEnv, Integers

CONSTANTS MaxTime, OthersUntil      \* bounds: the other events, which touch
                                    \* only the environment, come early

VARIABLES
    mpd,        \* the player: its state, its song, the position in it
    conn,       \* "up" or "down"
    pending,    \* 1 when the player has changed and the event is to come
    trackers,   \* [Kinds -> the tracker of a module]
    env,        \* mpdcron's environment
    time,
    heard,      \* history: [Kinds -> the seconds MPD has played since the
                \* module saw a song start]
    spare,      \* history: [Counting -> [Songs -> the seconds MPD has played
                \* of a song, less those that its counted plays took]]
    missed      \* history: "no", "now" since a change was not noticed, and
                \* "once" when the trackers know again what is played

vars == <<mpd, conn, pending, trackers, env, time, heard, spare, missed>>
history == <<heard, spare>>

Stopped == [state |-> "stop", song |-> None, position |-> 0]

Init ==
    /\ mpd \in {Stopped} \union [state : {"play", "pause"}, song : Songs, position : {0}]
    /\ conn = "up" /\ pending = 0
    /\ trackers = [kind \in Kinds |-> NewTracker]
    /\ env = EmptyEnv
    /\ time = 0
    /\ heard = [kind \in Kinds |-> 0]
    /\ spare = [kind \in Counting |-> [s \in Songs |-> 0]]
    /\ missed = "no"

-----------------------------------------------------------------------------
(* A change that no event will tell of; from then on the plays are not     *)
(* compared with what was heard. *)
Misses ==
    /\ missed' = "now"
    /\ spare' = [kind \in Counting |-> [s \in Songs |-> 0]]

(* Environment: MPD. *)
Changes(player) ==
    /\ mpd' = player
    /\ IF conn = "up" THEN pending' = 1 /\ UNCHANGED <<missed, spare>>
                      ELSE Misses /\ UNCHANGED pending
    /\ UNCHANGED <<conn, trackers, env, time, heard>>

(* A song is chosen, or follows another, or itself. *)
PlaySong == \E s \in Songs : Changes([state |-> "play", song |-> s, position |-> 0])

Stop == mpd.state # "stop" /\ Changes(Stopped)

Pause == mpd.state = "play" /\ Changes([mpd EXCEPT !.state = "pause"])

Resume == mpd.state = "pause" /\ Changes([mpd EXCEPT !.state = "play"])

Seek ==
    /\ mpd.state # "stop" /\ mpd.song \notin Remote
    /\ \E p \in 0 .. Duration[mpd.song] : Changes([mpd EXCEPT !.position = p])

TitleChanges == mpd.state = "play" /\ mpd.song \in Remote \cap Titled /\ Changes(mpd)

(* A second passes: unless it is paused, a song gets on until its end.     *)
Tick ==
    /\ time < MaxTime /\ time' = time + 1
    /\ conn = "up" => pending = 0
    /\ mpd.state = "play" =>
         mpd.song \in Remote \/ mpd.position < Duration[mpd.song]
    /\ LET one == IF mpd.state = "play" THEN 1 ELSE 0
       IN  /\ mpd' = [mpd EXCEPT !.position = @ + one]
           /\ heard' = [kind \in Kinds |-> heard[kind] + one]
           /\ spare' = [kind \in Counting |-> [s \in Songs |->
                          spare[kind][s] + IF missed = "no" /\ s = mpd.song THEN one ELSE 0]]
    /\ trackers' = [kind \in Kinds |->
                      [trackers[kind] EXCEPT !.elapsed = @ + trackers[kind].running]]
    /\ UNCHANGED <<conn, pending, env, missed>>

(* Environment: the connection.  loop_reconnect asks for nothing but the   *)
(* changes to come.  A query that fails loses its event in the same way.   *)
Disconnect ==
    /\ conn = "up" /\ conn' = "down"
    /\ pending' = 0
    /\ IF pending = 1 THEN Misses ELSE UNCHANGED <<missed, spare>>
    /\ UNCHANGED <<mpd, trackers, env, time, heard>>

Reconnect ==
    /\ conn = "down" /\ conn' = "up"
    /\ UNCHANGED <<mpd, pending, trackers, env, time, history, missed>>

-----------------------------------------------------------------------------
(* currentsong is read only while MPD plays or pauses. *)
CurrentSong == IF mpd.state = "stop" THEN None ELSE mpd.song

(* The events after which a tracker knows what is played. *)
Finds(t) == mpd.state = "stop" \/ (mpd.state = "play" /\ t.last_id # mpd.song)

(* The least time after which a song counts. *)
Need(s) ==
    IF Duration[s] >= MinLength /\ Duration[s] \div 2 < LongPlay
    THEN Duration[s] \div 2 + 1 ELSE LongPlay + 1

(* event_player of cron-event.c: the modules, the environment, the hook. *)
Event ==
    /\ conn = "up" /\ pending = 1 /\ pending' = 0
    /\ LET s == CurrentSong
           In(kind) == Event_player(kind, trackers[kind], mpd.state, s, mpd.position)
           New(kind) == Starts(Told(trackers[kind], mpd.state, s), s)
                          \/ Repeats(kind, Told(trackers[kind], mpd.state, s), s, mpd.position)
       IN  /\ trackers' = [kind \in Kinds |-> In(kind)]
           /\ heard' = [kind \in Kinds |->
                          IF mpd.state = "play" /\ New(kind) THEN 0 ELSE heard[kind]]
           /\ spare' = [kind \in Counting |-> [e \in Songs |-> spare[kind][e] -
                IF missed = "no"
                   /\ e \in Counted(kind, trackers[kind], mpd.state, s, mpd.position)
                THEN Need(e) ELSE 0]]
           /\ env' = For_player(env, mpd.state # "stop", s # None, s \in Tagged)
    /\ missed' = IF missed = "now" /\ \A kind \in Kinds : Finds(trackers[kind])
                 THEN "once" ELSE missed
    /\ UNCHANGED <<mpd, conn, time>>

EventDatabase ==
    /\ conn = "up" /\ time < OthersUntil
    /\ env' = For_database(env)
    /\ UNCHANGED <<mpd, conn, pending, trackers, time, history, missed>>

EventOther ==
    /\ conn = "up" /\ time < OthersUntil
    /\ \E hook \in Hooks \ {"player", "database"} :
         env' = For_other(env, hook, mpd.state # "stop")
    /\ UNCHANGED <<mpd, conn, pending, trackers, time, history, missed>>

-----------------------------------------------------------------------------
Next ==
    \/ PlaySong \/ Stop \/ Pause \/ Resume \/ Seek \/ TitleChanges \/ Tick
    \/ Disconnect \/ Reconnect
    \/ Event \/ EventDatabase \/ EventOther

Spec == Init /\ [][Next]_vars

-----------------------------------------------------------------------------
TypeOK ==
    /\ mpd \in [state : {"stop", "play", "pause"}, song : Songs \union {None}, position : Nat]
    /\ conn \in {"up", "down"} /\ pending \in {0, 1} /\ (pending = 1 => conn = "up")
    /\ \A kind \in Kinds :
         /\ trackers[kind].last_id \in Songs \union {None} /\ trackers[kind].prev \in Songs \union {None}
         /\ trackers[kind].elapsed \in 0 .. time
         /\ trackers[kind].was_paused = 1 => trackers[kind].running = 0
    /\ env.fresh \subseteq env.set

(* A module's timer shows how long its song has been heard, and runs just  *)
(* while MPD plays: through any pauses, in whatever order and however soon *)
(* the changes follow each other, as long as none goes unnoticed.          *)
TimerIsHeard ==
    missed # "now" /\ pending = 0 =>
        \A kind \in Kinds :
            LET t == trackers[kind]
            IN  mpd.state # "stop" /\ t.last_id = mpd.song =>
                  /\ t.elapsed = heard[kind]
                  /\ t.running = 1 <=> mpd.state = "play"

(* A song that a module knows of and that MPD has left is counted, once,   *)
(* if it was heard long enough since it started, and not if it was not;    *)
(* and all the plays of a song together were heard.  Both as long as no    *)
(* change has gone unnoticed. *)
PlaysAreCounted ==
    [][missed = "no" /\ pending = 1 /\ pending' = 0 /\ conn' = "up" =>
        \A kind \in Counting :
            LET s == trackers[kind].prev
            IN  /\ s # None /\ (mpd.state = "stop" \/ (mpd.state = "play" /\ mpd.song # s)) =>
                     spare'[kind][s] = spare[kind][s] -
                       IF s \in Tagged /\ heard[kind] >= Need(s) THEN Need(s) ELSE 0
                /\ \A e \in Songs : spare'[kind][e] >= 0]_vars

(* What a hook sees was set for its event, but for two variables: of these *)
(* it may see the values of an earlier event. *)
HooksSeeTheirEvent == env.set \ env.fresh \subseteq {"MPD_STATUS_RANDOM", "MPD_SONG_DURATION"}

=============================================================================
