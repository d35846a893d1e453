--------------------------- MODULE PlayerEventsProofs ---------------------------
(***************************************************************************)
(* What holds of the trackers and of the hooks' environment for any songs, *)
(* durations and thresholds, and for any number of seconds.                *)
(***************************************************************************)
EXTENDS PlayerEvents, TLAPS

States == {"stop", "play", "pause"}
Players == [state : States, song : Songs \union {None}, position : Nat]
Trackers == [last_id : Songs \union {None}, was_paused : {0, 1}, is_remote : {0, 1},
             prev : Songs \union {None}, elapsed : Nat, running : {0, 1}]

AllNames == StatusNames \union FormatNames \union {TagName} \union SongNames \union StatsNames
Stale == {"MPD_STATUS_RANDOM", "MPD_SONG_DURATION"}
Envs == [set : SUBSET AllNames, fresh : SUBSET AllNames]

(* The timer stands still after a pause, and only then. *)
Steady(t) ==
    /\ t.was_paused = 1 => t.running = 0
    /\ t.was_paused = 0 /\ t.last_id # None => t.running = 1

PlayerInv ==
    /\ mpd \in Players /\ (mpd.state # "stop" => mpd.song \in Songs)
    /\ conn \in {"up", "down"} /\ pending \in {0, 1} /\ (pending = 1 => conn = "up")
    /\ time \in Nat
    /\ missed \in {"no", "now", "once"}

TrackerInv ==
    /\ trackers \in [Kinds -> Trackers]
    /\ \A kind \in Kinds : trackers[kind].elapsed <= time /\ Steady(trackers[kind])
    /\ \A kind \in Counting : trackers[kind].prev = trackers[kind].last_id

(* Unless a change has gone unnoticed, the timer of a song that a module   *)
(* knows of shows what was heard of it, and when no event is to come, the  *)
(* song is the one that MPD plays or has paused. *)
HeardInv ==
    /\ heard \in [Kinds -> Nat]
    /\ missed # "now" => \A kind \in Kinds : trackers[kind].last_id # None =>
         /\ heard[kind] = trackers[kind].elapsed
         /\ pending = 0 =>
              /\ mpd.state # "stop"
              /\ trackers[kind].running = 1 <=> mpd.state = "play"
              /\ mpd.state = "play" => mpd.song = trackers[kind].last_id

(* What was heard of the song a module knows of, no play has used up. *)
SpareInv ==
    /\ spare \in [Counting -> [Songs -> Int]]
    /\ missed = "no" => \A kind \in Counting, e \in Songs :
         /\ spare[kind][e] >= 0
         /\ trackers[kind].last_id = e => spare[kind][e] >= heard[kind]

EnvInv == env \in Envs /\ env.fresh \subseteq env.set /\ env.set \ env.fresh \subseteq Stale

EventsInv == PlayerInv /\ TrackerInv /\ HeardInv /\ SpareInv /\ EnvInv

-----------------------------------------------------------------------------
(* The environment. *)
LEMMA Cleared ==
    ASSUME NEW e \in Envs
    PROVE  /\ Env_clearenv(e) \in Envs
           /\ Env_clearenv(e).fresh = {}
           /\ Env_clearenv(e).set \subseteq Stale
<1>1. AllNames \ Unset \subseteq Stale
  BY ZenonT(60) DEF AllNames, Unset, Stale, StatusNames, FormatNames, SongNames, StatsNames
<1>2. e.set \subseteq AllNames
  BY DEF Envs
<1> HIDE DEF AllNames
<1>3. /\ Env_clearenv(e) \in [set : SUBSET AllNames, fresh : SUBSET AllNames]
      /\ Env_clearenv(e).set = e.set \ Unset
      /\ Env_clearenv(e).fresh = {}
  <2> HIDE DEF Unset
  <2> QED
    BY <1>2 DEF Env_clearenv, Envs
<1> QED
  BY <1>1, <1>2, <1>3 DEF Envs

LEMMA Exported ==
    ASSUME NEW e \in Envs, e.fresh \subseteq e.set, e.set \ e.fresh \subseteq Stale,
           NEW names \in SUBSET AllNames
    PROVE  /\ Export(e, names) \in Envs
           /\ Export(e, names).fresh \subseteq Export(e, names).set
           /\ Export(e, names).set \ Export(e, names).fresh \subseteq Stale
<1> HIDE DEF AllNames
<1>1. /\ Export(e, names) \in [set : SUBSET AllNames, fresh : SUBSET AllNames]
      /\ Export(e, names).set = e.set \union names
      /\ Export(e, names).fresh = e.fresh \union names
  BY DEF Export, Envs
<1> QED
  BY <1>1 DEF Envs

EnvGood(e) == e \in Envs /\ e.fresh \subseteq e.set /\ e.set \ e.fresh \subseteq Stale

(* Whatever the event, what a hook sees is of its event but for two names. *)
LEMMA EnvOfEvent ==
    ASSUME NEW e \in Envs, NEW format \in BOOLEAN, NEW song \in BOOLEAN, NEW tags \in BOOLEAN,
           NEW hook
    PROVE  /\ EnvGood(For_database(e))
           /\ EnvGood(For_player(e, format, song, tags))
           /\ EnvGood(For_other(e, hook, format))
<1> DEFINE c == Env_clearenv(e)
<1>1. EnvGood(c)
  BY Cleared DEF EnvGood
<1>2. ASSUME NEW d, EnvGood(d), NEW names \in SUBSET AllNames
      PROVE  EnvGood(Export(d, names))
  BY <1>2, Exported DEF EnvGood
<1> HIDE DEF c
<1>3. EnvGood(Env_stats(c))
  <2>1. StatsNames \in SUBSET AllNames
    BY DEF AllNames
  <2> QED
    BY <1>1, <1>2, <2>1 DEF Env_stats
<1>4. EnvGood(Env_export_status(c, format))
  <2>1. (StatusNames \union (IF format THEN FormatNames ELSE {})) \in SUBSET AllNames
    BY DEF AllNames
  <2> QED
    BY <1>1, <1>2, <2>1 DEF Env_export_status
<1>5. ASSUME NEW d, EnvGood(d) PROVE EnvGood(Env_export_song(d, tags))
  <2>1. (SongNames \union (IF tags THEN {TagName} ELSE {})) \in SUBSET AllNames
    BY DEF AllNames
  <2> QED
    BY <1>5, <1>2, <2>1 DEF Env_export_song
<1>6. EnvGood(For_database(e))
  BY <1>3 DEF For_database, c
<1>7. EnvGood(For_player(e, format, song, tags))
  BY <1>4, <1>5 DEF For_player, c
<1>8. EnvGood(For_other(e, hook, format))
  BY <1>1, <1>4 DEF For_other, c
<1> QED
  BY <1>6, <1>7, <1>8

-----------------------------------------------------------------------------
(* The trackers. *)

(* Whether the module takes the song for one that starts now. *)
New(kind, t, state, s, position) ==
    Starts(Told(t, state, s), s) \/ Repeats(kind, Told(t, state, s), s, position)

(* What a tracker goes by once the pause is dealt with. *)
LEMMA WhatIsTold ==
    ASSUME NEW t \in Trackers, Steady(t), NEW state \in {"play", "stop"},
           NEW s \in Songs \union {None}, state = "stop" <=> s = None
    PROVE  LET told == Told(t, state, s)
           IN  /\ told \in Trackers
               /\ told.was_paused = 0
               /\ told.prev = t.prev /\ told.elapsed = t.elapsed
               /\ told.is_remote = t.is_remote
               /\ told.last_id = IF state = "play" THEN t.last_id ELSE None
               /\ state = "play" /\ t.last_id = s => told.running = 1
<1>1. CASE state = "stop"
  <2>1. Song_stopped(t) \in Trackers /\ Song_stopped(t).was_paused = 0
        /\ Song_stopped(t).last_id = None /\ Song_stopped(t).prev = t.prev
        /\ Song_stopped(t).elapsed = t.elapsed /\ Song_stopped(t).is_remote = t.is_remote
    BY DEF Song_stopped, Trackers
  <2>2. Told(t, state, s) = Song_stopped(t)
    BY <1>1, <2>1 DEF Told, Resumed
  <2> QED
    BY <1>1, <2>1, <2>2
<1>2. CASE state = "play"
  <2>1. Told(t, state, s) = Resumed(t, s) /\ s # None
    BY <1>2 DEF Told
  <2>2. t.was_paused \in {0, 1}
    BY DEF Trackers
  <2>3. CASE t.was_paused = 0
    <3>1. Resumed(t, s) = t
      BY <2>3 DEF Resumed
    <3> QED
      BY <1>2, <2>1, <2>3, <3>1 DEF Steady
  <2>4. CASE t.was_paused = 1 /\ s = t.last_id
    <3>1. Resumed(t, s) = [Song_continued(t) EXCEPT !.was_paused = 0]
      BY <2>1, <2>4 DEF Resumed
    <3>2. Song_continued(t) \in Trackers /\ Song_continued(t).running = 1
          /\ Song_continued(t).prev = t.prev /\ Song_continued(t).elapsed = t.elapsed
          /\ Song_continued(t).is_remote = t.is_remote /\ Song_continued(t).last_id = t.last_id
      BY DEF Song_continued, Trackers
    <3> DEFINE c == Song_continued(t)
    <3> HIDE DEF c
    <3>3. c \in Trackers /\ c.running = 1 /\ c.prev = t.prev /\ c.elapsed = t.elapsed
          /\ c.is_remote = t.is_remote /\ c.last_id = t.last_id
      BY <3>2 DEF c
    <3>4. Told(t, state, s) = [c EXCEPT !.was_paused = 0]
      BY <2>1, <3>1 DEF c
    <3> QED
      BY <1>2, <3>3, <3>4 DEF Trackers
  <2>5. CASE t.was_paused = 1 /\ s # t.last_id
    <3>1. Told(t, state, s) = [t EXCEPT !.was_paused = 0]
      BY <2>1, <2>5 DEF Resumed
    <3> QED
      BY <1>2, <2>5, <3>1 DEF Trackers
  <2> QED
    BY <2>2, <2>3, <2>4, <2>5
<1> QED
  BY <1>1, <1>2

LEMMA Restarted ==
    ASSUME NEW t \in Trackers, NEW s \in Songs
    PROVE  /\ Song_started(t, s) \in Trackers
           /\ Song_started(t, s).last_id = s /\ Song_started(t, s).running = 1
           /\ Song_started(t, s).elapsed = 0 /\ Song_started(t, s).prev = t.prev
           /\ Song_started(t, s).was_paused = t.was_paused
BY DEF Song_started, Trackers

LEMMA Paused ==
    ASSUME NEW t \in Trackers, Steady(t)
    PROVE  /\ Song_paused(t) \in Trackers
           /\ Song_paused(t).was_paused = 1 /\ Song_paused(t).running = 0
           /\ Song_paused(t).last_id = t.last_id /\ Song_paused(t).prev = t.prev
           /\ Song_paused(t).elapsed = t.elapsed
<1>1. t.was_paused \in {0, 1} /\ t.running \in {0, 1}
  BY DEF Trackers
<1>2. CASE t.was_paused = 0
  <2>1. Song_paused(t) = [t EXCEPT !.running = 0, !.was_paused = 1]
    BY <1>2 DEF Song_paused
  <2> QED
    BY <2>1 DEF Trackers
<1>3. CASE t.was_paused = 1
  <2>1. t.running = 0
    BY <1>3 DEF Steady
  <2>2. Song_paused(t) = [t EXCEPT !.running = t.running, !.was_paused = 1]
    BY <1>3 DEF Song_paused
  <2> QED
    BY <2>1, <2>2 DEF Trackers
<1> QED
  BY <1>1, <1>2, <1>3

(* What event_player makes of a tracker. *)
LEMMA TrackerAfterPlay ==
    ASSUME NEW kind \in Kinds, NEW t \in Trackers, Steady(t), NEW s \in Songs,
           NEW position \in Nat
    PROVE  LET u == Event_player(kind, t, "play", s, position)
               new == New(kind, t, "play", s, position)
           IN  /\ u \in Trackers /\ Steady(u)
               /\ u.last_id = s /\ u.running = 1
               /\ u.elapsed = (IF new THEN 0 ELSE t.elapsed)
               /\ ~ new => t.last_id = s
               /\ u.prev = (IF kind = "notification" THEN t.prev ELSE s)
<1> DEFINE told == Told(t, "play", s)
           new == New(kind, t, "play", s, position)
           v == IF new THEN Song_started(told, s) ELSE told
<1>1. s # None
  BY SongsAssumption
<1>2. told \in Trackers /\ told.was_paused = 0 /\ told.prev = t.prev
      /\ told.elapsed = t.elapsed /\ told.last_id = t.last_id
      /\ (t.last_id = s => told.running = 1)
  BY <1>1, WhatIsTold
<1>3. ~ new => t.last_id = s
  BY <1>1, <1>2 DEF New, Starts
<1>4. Event_player(kind, t, "play", s, position)
        = IF kind = "notification" THEN v ELSE [v EXCEPT !.prev = s]
  BY DEF Event_player, New
<1>5. v \in Trackers /\ v.was_paused = 0 /\ v.last_id = s /\ v.running = 1
      /\ v.prev = t.prev /\ v.elapsed = IF new THEN 0 ELSE t.elapsed
  <2> HIDE DEF told, new
  <2>1. CASE new
    BY <2>1, <1>2, Restarted
  <2>2. CASE ~ new
    BY <2>2, <1>2, <1>3
  <2> QED
    BY <2>1, <2>2
<1> HIDE DEF v, new, told
<1>6. CASE kind = "notification"
  BY <1>3, <1>4, <1>5, <1>6 DEF Steady, new
<1>7. CASE kind # "notification"
  <2>1. Event_player(kind, t, "play", s, position) = [v EXCEPT !.prev = s]
    BY <1>4, <1>7
  <2> QED
    BY <1>3, <1>5, <1>7, <2>1 DEF Steady, Trackers, new
<1> QED
  BY <1>6, <1>7

LEMMA TrackerAfterStop ==
    ASSUME NEW kind \in Kinds, NEW t \in Trackers, Steady(t), NEW position \in Nat
    PROVE  LET u == Event_player(kind, t, "stop", None, position)
           IN  /\ u \in Trackers /\ Steady(u)
               /\ u.last_id = None /\ u.elapsed = t.elapsed
               /\ u.prev = (IF kind = "notification" THEN t.prev ELSE None)
<1> DEFINE c == Song_stopped(t)
<1>1. c \in Trackers /\ c.was_paused = 0 /\ c.last_id = None /\ c.prev = t.prev
      /\ c.elapsed = t.elapsed
  BY DEF Song_stopped, Trackers
<1>2. Told(t, "stop", None) = c
  BY <1>1 DEF Told, Resumed
<1> HIDE DEF c
<1>3. CASE kind = "notification"
  <2>1. Event_player(kind, t, "stop", None, position) = c
    BY <1>3 DEF Event_player, c
  <2> QED
    BY <1>1, <1>3, <2>1 DEF Steady
<1>4. CASE kind # "notification"
  <2>1. Event_player(kind, t, "stop", None, position) = [c EXCEPT !.prev = None]
    BY <1>2, <1>4 DEF Event_player, Starts, Repeats
  <2> QED
    BY <1>1, <1>4, <2>1 DEF Steady, Trackers
<1> QED
  BY <1>3, <1>4

LEMMA TrackerAfterPause ==
    ASSUME NEW kind \in Kinds, NEW t \in Trackers, Steady(t),
           NEW s \in Songs, NEW position \in Nat
    PROVE  LET u == Event_player(kind, t, "pause", s, position)
           IN  /\ u \in Trackers /\ Steady(u)
               /\ u.last_id = t.last_id /\ u.elapsed = t.elapsed /\ u.prev = t.prev
               /\ u.running = 0
<1>1. Event_player(kind, t, "pause", s, position) = Song_paused(t)
  BY DEF Event_player
<1> QED
  BY <1>1, Paused DEF Steady

(* A song that ends for a module is the one it knows of; when MPD plays, a *)
(* new one starts. *)
LEMMA WhatEnds ==
    ASSUME NEW kind \in Counting, NEW t \in Trackers, Steady(t), t.prev = t.last_id,
           NEW state \in States, NEW s \in Songs \union {None}, state = "stop" <=> s = None,
           NEW position \in Nat
    PROVE  /\ \A e \in Ended(kind, t, state, s, position) :
                /\ e = t.last_id /\ e # None
                /\ state = "play" => New(kind, t, state, s, position)
           /\ state # "pause" /\ t.prev # None /\ s # t.prev =>
                t.prev \in Ended(kind, t, state, s, position)
<1> DEFINE told == Told(t, state, s)
<1>1. CASE state = "pause"
  BY <1>1 DEF Ended
<1>2. CASE state # "pause"
  <2>1. told.prev = t.prev /\ told.last_id = IF state = "play" THEN t.last_id ELSE None
    BY <1>2, WhatIsTold DEF States
  <2>2. Ended(kind, t, state, s, position)
          = (IF Ends(told, s) THEN {told.prev} ELSE {})
              \union (IF Repeats(kind, told, s, position) THEN {s} ELSE {})
    BY <1>2 DEF Ended
  <2>3. New(kind, t, state, s, position)
          = (Starts(told, s) \/ Repeats(kind, told, s, position))
    BY DEF New
  <2> HIDE DEF told
  <2>4. Ends(told, s) => t.prev # None /\ (state = "play" => Starts(told, s))
    BY <2>1 DEF Ends, Starts
  <2>5. Repeats(kind, told, s, position) => state = "play" /\ s # None /\ s = t.last_id
    BY <2>1, <1>2 DEF Repeats, Starts, States
  <2>6. t.prev # None /\ s # t.prev => Ends(told, s)
    BY <2>1 DEF Ends
  <2> QED
    BY <2>1, <2>2, <2>3, <2>4, <2>5, <2>6
<1> QED
  BY <1>1, <1>2

LEMMA LongEnough ==
    ASSUME NEW s \in Songs, NEW n \in Nat
    PROVE  Need(s) \in Nat /\ (Played_long_enough(n, Duration[s]) <=> n >= Need(s))
<1>1. Duration[s] \in Nat
  BY SongsAssumption
<1>2. Duration[s] \div 2 \in Nat
  BY <1>1
<1> QED
  BY <1>1, <1>2, SongsAssumption DEF Need, Played_long_enough

-----------------------------------------------------------------------------
(* The invariant. *)
LEMMA EventsInit == Init => EventsInv
<1> SUFFICES ASSUME Init PROVE EventsInv
  OBVIOUS
<1> USE DEF Init
<1>1. PlayerInv
  <2>1. mpd = Stopped \/ mpd \in [state : {"play", "pause"}, song : Songs, position : {0}]
    OBVIOUS
  <2> QED
    BY <2>1 DEF PlayerInv, Players, States, Stopped
<1>2. NewTracker \in Trackers /\ NewTracker.elapsed = 0 /\ Steady(NewTracker)
      /\ NewTracker.last_id = None /\ NewTracker.prev = None
  BY DEF NewTracker, Trackers, Steady
<1>3. \A kind \in Kinds : trackers[kind] = NewTracker
  OBVIOUS
<1>4. TrackerInv
  <2>1. trackers \in [Kinds -> Trackers]
    BY <1>2
  <2>2. Counting \subseteq Kinds
    BY DEF Counting, Kinds
  <2> QED
    BY <1>2, <1>3, <2>1, <2>2 DEF TrackerInv
<1>5. HeardInv
  BY <1>2, <1>3 DEF HeardInv
<1>6. SpareInv
  <2>1. \A kind \in Counting : trackers[kind].last_id = None
    BY <1>2, <1>3 DEF Counting, Kinds
  <2> QED
    BY <2>1, SongsAssumption DEF SpareInv
<1>7. EnvInv
  BY DEF EnvInv, Envs, EmptyEnv
<1> QED
  BY <1>1, <1>4, <1>5, <1>6, <1>7 DEF EventsInv

(* A change of the player. *)
LEMMA ChangesInv ==
    ASSUME EventsInv, NEW player \in Players, player.state # "stop" => player.song \in Songs,
           Changes(player)
    PROVE  EventsInv'
<1> USE DEF EventsInv, Changes
<1>1. PlayerInv'
  BY DEF PlayerInv, Misses
<1>2. TrackerInv'
  BY DEF TrackerInv, PlayerInv
<1>3. HeardInv'
  BY DEF HeardInv, Misses
<1>4. SpareInv'
  <2>1. CASE conn = "up"
    BY <2>1 DEF SpareInv
  <2>2. CASE conn # "up"
    BY <2>2 DEF SpareInv, Misses
  <2> QED
    BY <2>1, <2>2
<1>5. EnvInv'
  BY DEF EnvInv
<1> QED
  BY <1>1, <1>2, <1>3, <1>4, <1>5

LEMMA PlayerChanges ==
    ASSUME EventsInv, PlaySong \/ Stop \/ Pause \/ Resume \/ Seek \/ TitleChanges
    PROVE  EventsInv'
<1>1. mpd \in Players /\ (mpd.state # "stop" => mpd.song \in Songs)
  BY DEF EventsInv, PlayerInv
<1>2. CASE PlaySong
  <2>1. PICK s \in Songs : Changes([state |-> "play", song |-> s, position |-> 0])
    BY <1>2 DEF PlaySong
  <2>2. [state |-> "play", song |-> s, position |-> 0] \in Players
    BY DEF Players, States
  <2> QED
    BY <2>1, <2>2, ChangesInv
<1>3. CASE Stop
  <2>1. Stopped \in Players /\ Stopped.state = "stop"
    BY DEF Stopped, Players, States
  <2> QED
    BY <1>3, <2>1, ChangesInv DEF Stop
<1>4. CASE Pause
  <2> DEFINE p == [mpd EXCEPT !.state = "pause"]
  <2>1. p \in Players /\ p.song = mpd.song /\ mpd.state # "stop"
    BY <1>1, <1>4 DEF Pause, Players, States
  <2>2. Changes(p)
    BY <1>4 DEF Pause
  <2> QED
    BY <1>1, <2>1, <2>2, ChangesInv
<1>5. CASE Resume
  <2> DEFINE p == [mpd EXCEPT !.state = "play"]
  <2>1. p \in Players /\ p.song = mpd.song /\ mpd.state # "stop"
    BY <1>1, <1>5 DEF Resume, Players, States
  <2>2. Changes(p)
    BY <1>5 DEF Resume
  <2> QED
    BY <1>1, <2>1, <2>2, ChangesInv
<1>6. CASE Seek
  <2>1. PICK n \in 0 .. Duration[mpd.song] : Changes([mpd EXCEPT !.position = n])
    BY <1>6 DEF Seek
  <2> DEFINE p == [mpd EXCEPT !.position = n]
  <2>2. p \in Players /\ p.song = mpd.song /\ p.state = mpd.state
    BY <1>1 DEF Players
  <2> QED
    BY <1>1, <2>1, <2>2, ChangesInv
<1>7. CASE TitleChanges
  BY <1>1, <1>7, ChangesInv DEF TitleChanges
<1> QED
  BY <1>2, <1>3, <1>4, <1>5, <1>6, <1>7

LEMMA TickInv == ASSUME EventsInv, Tick PROVE EventsInv'
<1> DEFINE one == IF mpd.state = "play" THEN 1 ELSE 0
<1>1. /\ mpd' = [mpd EXCEPT !.position = @ + one]
      /\ heard' = [kind \in Kinds |-> heard[kind] + one]
      /\ spare' = [kind \in Counting |-> [s \in Songs |->
                     spare[kind][s] + IF missed = "no" /\ s = mpd.song THEN one ELSE 0]]
      /\ trackers' = [kind \in Kinds |->
                        [trackers[kind] EXCEPT !.elapsed = @ + trackers[kind].running]]
      /\ time' = time + 1
      /\ UNCHANGED <<conn, pending, env, missed>>
  BY DEF Tick
<1>2. one \in {0, 1} /\ (one = 1 <=> mpd.state = "play")
  OBVIOUS
<1>3. pending = 0
  BY DEF Tick, EventsInv, PlayerInv
<1> HIDE DEF one
<1>4. mpd' \in Players /\ mpd'.state = mpd.state /\ mpd'.song = mpd.song
  BY <1>1, <1>2 DEF EventsInv, PlayerInv, Players
<1>5. PlayerInv'
  BY <1>1, <1>4 DEF EventsInv, PlayerInv
<1>6. ASSUME NEW kind \in Kinds
      PROVE  /\ trackers'[kind] \in Trackers
             /\ trackers'[kind].elapsed = trackers[kind].elapsed + trackers[kind].running
             /\ trackers'[kind].last_id = trackers[kind].last_id
             /\ trackers'[kind].prev = trackers[kind].prev
             /\ trackers'[kind].running = trackers[kind].running
             /\ trackers'[kind].was_paused = trackers[kind].was_paused
             /\ trackers[kind].running \in {0, 1} /\ trackers[kind].elapsed \in Nat
  BY <1>1 DEF EventsInv, TrackerInv, Trackers
<1>7. Counting \subseteq Kinds
  BY DEF Counting, Kinds
<1>8. TrackerInv'
  <2>1. trackers' \in [Kinds -> Trackers]
    BY <1>1, <1>6
  <2>2. \A kind \in Kinds : trackers'[kind].elapsed <= time' /\ Steady(trackers'[kind])
    <3>1. ASSUME NEW kind \in Kinds
          PROVE  trackers[kind].elapsed <= time /\ Steady(trackers[kind])
      BY DEF EventsInv, TrackerInv
    <3>2. ASSUME NEW kind \in Kinds PROVE trackers'[kind].elapsed <= time'
      BY <1>1, <1>6, <3>1 DEF EventsInv, PlayerInv
    <3>3. ASSUME NEW kind \in Kinds PROVE Steady(trackers'[kind])
      BY <1>6, <3>1 DEF Steady
    <3> QED
      BY <3>2, <3>3
  <2> QED
    BY <1>6, <1>7, <2>1, <2>2 DEF EventsInv, TrackerInv
<1>9. HeardInv'
  <2>1. heard' \in [Kinds -> Nat]
    BY <1>1, <1>2 DEF EventsInv, HeardInv
  <2>2. ASSUME missed # "now", NEW kind \in Kinds, trackers[kind].last_id # None
        PROVE  /\ heard'[kind] = trackers'[kind].elapsed
               /\ mpd'.state # "stop"
               /\ trackers'[kind].running = 1 <=> mpd'.state = "play"
               /\ mpd'.state = "play" => mpd'.song = trackers'[kind].last_id
    BY <1>1, <1>2, <1>3, <1>4, <1>6, <2>2 DEF EventsInv, HeardInv
  <2> QED
    BY <1>1, <1>6, <2>1, <2>2 DEF HeardInv
<1>10. SpareInv'
  <2>1. ASSUME NEW kind \in Counting, NEW e \in Songs
        PROVE  /\ spare[kind][e] \in Int
               /\ spare'[kind][e] \in Int
               /\ spare'[kind][e] = IF missed = "no" /\ e = mpd.song
                                    THEN spare[kind][e] + one ELSE spare[kind][e]
    BY <1>1, <1>2 DEF EventsInv, SpareInv
  <2>2. spare' \in [Counting -> [Songs -> Int]]
    <3>1. ASSUME NEW kind \in Counting, NEW e \in Songs
          PROVE  spare[kind][e] + (IF missed = "no" /\ e = mpd.song THEN one ELSE 0) \in Int
      BY <1>2, <2>1
    <3> QED
      BY <1>1, <3>1
  <2>3. ASSUME missed = "no", NEW kind \in Counting, NEW e \in Songs
        PROVE  /\ spare'[kind][e] >= 0
               /\ trackers'[kind].last_id = e => spare'[kind][e] >= heard'[kind]
    <3>1. spare[kind][e] >= 0 /\ (trackers[kind].last_id = e => spare[kind][e] >= heard[kind])
      BY <2>3 DEF EventsInv, SpareInv
    <3>2. heard[kind] \in Nat /\ heard'[kind] = heard[kind] + one
      BY <1>1, <1>7 DEF EventsInv, HeardInv
    <3>3. trackers[kind].last_id = e /\ one = 1 => mpd.song = e
      BY <1>2, <1>3, <1>7, <2>3, SongsAssumption DEF EventsInv, HeardInv
    <3>4. trackers'[kind].last_id = trackers[kind].last_id
      BY <1>6, <1>7
    <3> QED
      BY <1>2, <2>1, <2>3, <3>1, <3>2, <3>3, <3>4
  <2> QED
    BY <1>1, <2>2, <2>3 DEF SpareInv
<1>11. EnvInv'
  BY <1>1 DEF EventsInv, EnvInv
<1> QED
  BY <1>5, <1>8, <1>9, <1>10, <1>11 DEF EventsInv

LEMMA ConnectionInv ==
    ASSUME EventsInv, Disconnect \/ Reconnect
    PROVE  EventsInv'
<1> USE DEF EventsInv
<1>1. /\ UNCHANGED <<mpd, trackers, env, time, heard>>
      /\ \/ UNCHANGED <<missed, spare>> /\ pending' = pending /\ pending = 0
         \/ Misses /\ pending' = 0
      /\ conn' \in {"up", "down"}
  BY DEF Disconnect, Reconnect, history, PlayerInv
<1>2. PlayerInv'
  BY <1>1 DEF PlayerInv, Misses
<1>3. TrackerInv'
  BY <1>1 DEF TrackerInv
<1>4. HeardInv'
  BY <1>1 DEF HeardInv, Misses
<1>5. SpareInv'
  <2>1. CASE Misses
    BY <1>1, <2>1 DEF SpareInv, Misses
  <2>2. CASE UNCHANGED <<missed, spare>>
    BY <1>1, <2>2 DEF SpareInv
  <2> QED
    BY <1>1, <2>1, <2>2
<1>6. EnvInv'
  BY <1>1 DEF EnvInv
<1> QED
  BY <1>2, <1>3, <1>4, <1>5, <1>6

LEMMA OtherEventsInv ==
    ASSUME EventsInv, EventDatabase \/ EventOther
    PROVE  EventsInv'
<1>1. UNCHANGED <<mpd, conn, pending, trackers, time, heard, spare, missed>>
  BY DEF EventDatabase, EventOther, history
<1>2. env \in Envs
  BY DEF EventsInv, EnvInv
<1>3. EnvGood(env')
  <2>1. CASE EventDatabase
    BY <1>2, <2>1, EnvOfEvent DEF EventDatabase
  <2>2. CASE EventOther
    <3>1. PICK hook \in Hooks : env' = For_other(env, hook, mpd.state # "stop")
      BY <2>2 DEF EventOther
    <3> QED
      BY <1>2, <3>1, EnvOfEvent
  <2> QED
    BY <2>1, <2>2
<1>4. PlayerInv' /\ TrackerInv' /\ HeardInv' /\ SpareInv'
  BY <1>1 DEF EventsInv, PlayerInv, TrackerInv, HeardInv, SpareInv
<1> QED
  BY <1>3, <1>4 DEF EventsInv, EnvInv, EnvGood

(* What an event of the player leaves behind for a module. *)
Started(kind) == New(kind, trackers[kind], mpd.state, CurrentSong, mpd.position)

LEMMA SongOfEvent ==
    ASSUME PlayerInv
    PROVE  /\ CurrentSong \in Songs \union {None}
           /\ mpd.state = "stop" <=> CurrentSong = None
           /\ mpd.state # "stop" => CurrentSong = mpd.song /\ CurrentSong \in Songs
           /\ mpd.state \in States /\ mpd.position \in Nat
BY SongsAssumption DEF PlayerInv, CurrentSong, Players

LEMMA TrackersAfterEvent ==
    ASSUME EventsInv, Event, NEW kind \in Kinds
    PROVE  /\ trackers'[kind] \in Trackers /\ Steady(trackers'[kind])
           /\ trackers'[kind].elapsed =
                IF mpd.state = "play" /\ Started(kind) THEN 0 ELSE trackers[kind].elapsed
           /\ heard'[kind] =
                IF mpd.state = "play" /\ Started(kind) THEN 0 ELSE heard[kind]
           /\ mpd.state = "stop" => trackers'[kind].last_id = None
           /\ mpd.state = "pause" => /\ trackers'[kind].last_id = trackers[kind].last_id
                                     /\ trackers'[kind].running = 0
           /\ mpd.state = "play" => /\ trackers'[kind].last_id = mpd.song
                                    /\ trackers'[kind].running = 1
                                    /\ trackers[kind].last_id # mpd.song => Started(kind)
           /\ kind \in Counting => trackers'[kind].prev = trackers'[kind].last_id
<1> DEFINE t == trackers[kind]
           s == CurrentSong
<1>1. t \in Trackers /\ Steady(t) /\ (kind \in Counting => t.prev = t.last_id)
  BY DEF EventsInv, TrackerInv
<1>2. /\ s \in Songs \union {None} /\ (mpd.state = "stop" <=> s = None)
      /\ mpd.state # "stop" => s = mpd.song /\ s \in Songs
      /\ mpd.state \in States /\ mpd.position \in Nat
  BY SongOfEvent DEF EventsInv
<1>3. /\ trackers'[kind] = Event_player(kind, t, mpd.state, s, mpd.position)
      /\ heard'[kind] = IF mpd.state = "play" /\ Started(kind) THEN 0 ELSE heard[kind]
  BY DEF Event, Started, New
<1>4. Started(kind) = New(kind, t, mpd.state, s, mpd.position)
  BY DEF Started
<1>5. kind \in Counting => kind # "notification"
  BY DEF Counting
<1> HIDE DEF t, s
<1>6. CASE mpd.state = "play"
  <2>1. s \in Songs /\ s = mpd.song
    BY <1>2, <1>6
  <2> DEFINE u == Event_player(kind, t, "play", s, mpd.position)
             new == New(kind, t, "play", s, mpd.position)
  <2>2. /\ u \in Trackers /\ Steady(u)
        /\ u.last_id = s /\ u.running = 1
        /\ u.elapsed = (IF new THEN 0 ELSE t.elapsed)
        /\ ~ new => t.last_id = s
        /\ u.prev = (IF kind = "notification" THEN t.prev ELSE s)
    BY <1>1, <1>2, <2>1, TrackerAfterPlay
  <2>3. trackers'[kind] = u /\ Started(kind) = new
    BY <1>3, <1>4, <1>6
  <2> HIDE DEF u, new
  <2> QED
    BY <1>3, <1>5, <1>6, <2>1, <2>2, <2>3 DEF t
<1>7. CASE mpd.state = "stop"
  <2> DEFINE u == Event_player(kind, t, "stop", None, mpd.position)
  <2>1. /\ u \in Trackers /\ Steady(u)
        /\ u.last_id = None /\ u.elapsed = t.elapsed
        /\ u.prev = (IF kind = "notification" THEN t.prev ELSE None)
    BY <1>1, <1>2, TrackerAfterStop
  <2>2. trackers'[kind] = u
    BY <1>2, <1>3, <1>7
  <2> HIDE DEF u
  <2> QED
    BY <1>3, <1>5, <1>7, <2>1, <2>2 DEF t
<1>8. CASE mpd.state = "pause"
  <2>1. s \in Songs
    BY <1>2, <1>8
  <2> DEFINE u == Event_player(kind, t, "pause", s, mpd.position)
  <2>2. /\ u \in Trackers /\ Steady(u)
        /\ u.last_id = t.last_id /\ u.elapsed = t.elapsed /\ u.prev = t.prev
        /\ u.running = 0
    BY <1>1, <1>2, <2>1, TrackerAfterPause
  <2>3. trackers'[kind] = u
    BY <1>3, <1>8
  <2> HIDE DEF u
  <2> QED
    BY <1>1, <1>3, <1>8, <2>2, <2>3 DEF t
<1> QED
  BY <1>2, <1>6, <1>7, <1>8 DEF States

(* Which plays an event counts, and from what. *)
LEMMA PlaysOfEvent ==
    ASSUME EventsInv, Event, NEW kind \in Counting
    PROVE  LET counted == Counted(kind, trackers[kind], mpd.state, CurrentSong, mpd.position)
           IN  /\ \A e \in Songs : spare'[kind][e] =
                    spare[kind][e] - (IF missed = "no" /\ e \in counted THEN Need(e) ELSE 0)
               /\ \A e \in counted :
                    /\ e = trackers[kind].last_id /\ e \in Songs
                    /\ trackers[kind].elapsed >= Need(e)
                    /\ mpd.state # "pause" /\ (mpd.state = "play" => Started(kind))
               /\ \A e \in Songs :
                    /\ e = trackers[kind].prev
                    /\ mpd.state = "stop" \/ (mpd.state = "play" /\ mpd.song # e)
                    => (e \in counted <=> e \in Tagged /\ trackers[kind].elapsed >= Need(e))
<1> DEFINE t == trackers[kind]
           s == CurrentSong
           ended == Ended(kind, t, mpd.state, s, mpd.position)
           counted == Counted(kind, t, mpd.state, s, mpd.position)
<1>1. kind \in Kinds
  BY DEF Counting, Kinds
<1>2. t \in Trackers /\ Steady(t) /\ t.prev = t.last_id
  BY <1>1 DEF EventsInv, TrackerInv
<1>3. /\ s \in Songs \union {None} /\ (mpd.state = "stop" <=> s = None)
      /\ mpd.state # "stop" => s = mpd.song /\ s \in Songs
      /\ mpd.state \in States /\ mpd.position \in Nat
  BY SongOfEvent DEF EventsInv
<1>4. /\ \A e \in ended : e = t.last_id /\ e # None
                          /\ (mpd.state = "play" => Started(kind))
      /\ mpd.state # "pause" /\ t.prev # None /\ s # t.prev => t.prev \in ended
  BY <1>2, <1>3, WhatEnds DEF Started
<1>5. mpd.state = "pause" => ended = {}
  BY DEF Ended
<1>6. \A e \in Songs : spare'[kind][e] =
        spare[kind][e] - (IF missed = "no" /\ e \in counted THEN Need(e) ELSE 0)
  BY DEF Event
<1>7. \A e \in Songs : e \in counted <=> e \in ended /\ e \in Tagged /\ t.elapsed >= Need(e)
  <2>1. t.elapsed \in Nat
    BY <1>2 DEF Trackers
  <2> QED
    BY <2>1, LongEnough DEF Counted, Counts
<1>8. \A e \in counted : e \in ended /\ e \in Songs
  <2>1. t.last_id \in Songs \union {None}
    BY <1>2 DEF Trackers
  <2> QED
    BY <1>4, <2>1 DEF Counted
<1> HIDE DEF ended, counted, s
<1>9. \A e \in Songs : e = t.prev
        /\ (mpd.state = "stop" \/ (mpd.state = "play" /\ mpd.song # e)) => e \in ended
  <2> SUFFICES ASSUME NEW e \in Songs, e = t.prev,
                      mpd.state = "stop" \/ (mpd.state = "play" /\ mpd.song # e)
               PROVE  e \in ended
    OBVIOUS
  <2>1. mpd.state # "pause" /\ e # None /\ s # e
    BY <1>3, SongsAssumption
  <2> QED
    BY <1>4, <2>1
<1>10. \A e \in counted :
         /\ e = t.last_id /\ e \in Songs /\ t.elapsed >= Need(e)
         /\ mpd.state # "pause" /\ (mpd.state = "play" => Started(kind))
  BY <1>4, <1>5, <1>7, <1>8
<1> QED
  BY <1>6, <1>7, <1>9, <1>10 DEF counted, s

LEMMA EventInv == ASSUME EventsInv, Event PROVE EventsInv'
<1>1. /\ UNCHANGED <<mpd, conn, time>>
      /\ pending = 1 /\ pending' = 0
      /\ \/ missed' = missed
         \/ /\ missed = "now" /\ missed' = "once"
            /\ \A kind \in Kinds : Finds(trackers[kind])
  BY DEF Event
<1>2. mpd \in Players /\ mpd.state \in States
  BY DEF EventsInv, PlayerInv, Players
<1>3. PlayerInv'
  BY <1>1 DEF EventsInv, PlayerInv
<1>4. Counting \subseteq Kinds
  BY DEF Counting, Kinds
<1>5. ASSUME NEW kind \in Kinds
      PROVE  trackers[kind] \in Trackers /\ trackers[kind].elapsed \in Nat
             /\ trackers[kind].elapsed <= time
  BY DEF EventsInv, TrackerInv, Trackers
<1>6. TrackerInv'
  <2>1. trackers' \in [Kinds -> Trackers]
    <3>1. trackers' = [kind \in Kinds |-> trackers'[kind]]
      BY DEF Event
    <3>2. \A kind \in Kinds : trackers'[kind] \in Trackers
      BY TrackersAfterEvent
    <3> QED
      BY <3>1, <3>2
  <2>2. ASSUME NEW kind \in Kinds
        PROVE  trackers'[kind].elapsed <= time' /\ Steady(trackers'[kind])
    <3>1. /\ Steady(trackers'[kind])
          /\ trackers'[kind].elapsed \in {0, trackers[kind].elapsed}
      BY TrackersAfterEvent
    <3> QED
      BY <1>1, <1>5, <3>1 DEF EventsInv, PlayerInv
  <2>3. ASSUME NEW kind \in Counting
        PROVE  trackers'[kind].prev = trackers'[kind].last_id
    BY <1>4, TrackersAfterEvent
  <2> QED
    BY <2>1, <2>2, <2>3 DEF TrackerInv
<1>7. HeardInv'
  <2>1. heard' \in [Kinds -> Nat]
    <3>1. heard' = [kind \in Kinds |-> heard'[kind]]
      BY DEF Event
    <3>2. ASSUME NEW kind \in Kinds PROVE heard'[kind] \in Nat
      <4>1. heard[kind] \in Nat /\ heard'[kind] \in {0, heard[kind]}
        BY TrackersAfterEvent DEF EventsInv, HeardInv
      <4> QED
        BY <4>1
    <3> QED
      BY <3>1, <3>2
  <2>2. ASSUME missed' # "now", NEW kind \in Kinds, trackers'[kind].last_id # None
        PROVE  /\ heard'[kind] = trackers'[kind].elapsed
               /\ mpd'.state # "stop"
               /\ trackers'[kind].running = 1 <=> mpd'.state = "play"
               /\ mpd'.state = "play" => mpd'.song = trackers'[kind].last_id
    <3>1. mpd.state # "stop"
      BY <2>2, TrackersAfterEvent
    <3>2. CASE mpd.state = "pause"
      <4>1. missed' = missed
        BY <1>1, <3>2 DEF Finds
      <4>2. trackers[kind].last_id # None
        BY <2>2, <3>2, TrackersAfterEvent
      <4>3. heard[kind] = trackers[kind].elapsed
        BY <2>2, <4>1, <4>2 DEF EventsInv, HeardInv
      <4> QED
        BY <1>1, <3>2, <4>3, TrackersAfterEvent
    <3>3. CASE mpd.state = "play"
      <4>1. Started(kind) \/ heard[kind] = trackers[kind].elapsed
        <5> SUFFICES ASSUME ~ Started(kind) PROVE heard[kind] = trackers[kind].elapsed
          OBVIOUS
        <5>1. trackers[kind].last_id = mpd.song
          BY <3>3, TrackersAfterEvent
        <5>2. missed' = missed
          BY <1>1, <3>3, <5>1 DEF Finds
        <5>3. mpd.song # None
          BY <3>3, SongsAssumption DEF EventsInv, PlayerInv
        <5> QED
          BY <2>2, <5>1, <5>2, <5>3 DEF EventsInv, HeardInv
      <4> QED
        BY <1>1, <3>3, <4>1, TrackersAfterEvent
    <3> QED
      BY <1>2, <3>1, <3>2, <3>3 DEF States
  <2> QED
    BY <2>1, <2>2 DEF HeardInv
<1>8. SpareInv'
  <2>1. ASSUME NEW kind \in Counting, NEW e \in Songs PROVE spare'[kind][e] \in Int
    <3>1. spare[kind][e] \in Int /\ Need(e) \in Nat
      BY LongEnough DEF EventsInv, SpareInv
    <3> QED
      BY <3>1, PlaysOfEvent
  <2>2. spare' \in [Counting -> [Songs -> Int]]
    <3>1. spare' = [kind \in Counting |-> [e \in Songs |-> spare'[kind][e]]]
      BY DEF Event
    <3> QED
      BY <2>1, <3>1
  <2>3. ASSUME missed' = "no", NEW kind \in Counting, NEW e \in Songs
        PROVE  /\ spare'[kind][e] >= 0
               /\ trackers'[kind].last_id = e => spare'[kind][e] >= heard'[kind]
    <3> DEFINE counted == Counted(kind, trackers[kind], mpd.state, CurrentSong, mpd.position)
               t == trackers[kind]
    <3>1. missed = "no" /\ kind \in Kinds
      BY <1>1, <1>4, <2>3
    <3>2. /\ spare[kind][e] \in Int /\ spare[kind][e] >= 0
          /\ t.last_id = e => spare[kind][e] >= heard[kind]
      BY <3>1 DEF EventsInv, SpareInv
    <3>3. heard[kind] \in Nat /\ (t.last_id # None => heard[kind] = t.elapsed)
      BY <3>1 DEF EventsInv, HeardInv
    <3>4. Need(e) \in Nat
      BY LongEnough
    <3>5. spare'[kind][e] = spare[kind][e] - (IF e \in counted THEN Need(e) ELSE 0)
      BY <3>1, PlaysOfEvent
    <3>6. e # None
      BY SongsAssumption
    <3>7. CASE e \in counted
      <4>1. /\ e = t.last_id /\ t.elapsed >= Need(e)
            /\ mpd.state # "pause" /\ (mpd.state = "play" => Started(kind))
        BY <3>7, PlaysOfEvent
      <4>2. spare'[kind][e] >= 0
        BY <3>2, <3>3, <3>4, <3>5, <3>6, <3>7, <4>1
      <4>3. trackers'[kind].last_id = e => heard'[kind] = 0
        BY <1>2, <3>1, <3>6, <4>1, TrackersAfterEvent DEF States
      <4> QED
        BY <4>2, <4>3
    <3>8. CASE e \notin counted
      <4>1. spare'[kind][e] = spare[kind][e]
        BY <3>2, <3>5, <3>8
      <4>2. trackers'[kind].last_id = e =>
              heard'[kind] = 0 \/ (t.last_id = e /\ heard'[kind] = heard[kind])
        BY <1>2, <3>1, <3>6, TrackersAfterEvent DEF States
      <4> QED
        BY <3>2, <3>3, <4>1, <4>2
    <3> QED
      BY <3>7, <3>8
  <2> QED
    BY <2>2, <2>3 DEF SpareInv
<1>9. EnvInv'
  <2>1. env' = For_player(env, mpd.state # "stop", CurrentSong # None, CurrentSong \in Tagged)
    BY DEF Event
  <2>2. env \in Envs
    BY DEF EventsInv, EnvInv
  <2>3. EnvGood(env')
    <3> DEFINE format == mpd.state # "stop"
               song == CurrentSong # None
               tags == CurrentSong \in Tagged
    <3>1. format \in BOOLEAN /\ song \in BOOLEAN /\ tags \in BOOLEAN
      OBVIOUS
    <3>2. env' = For_player(env, format, song, tags)
      BY <2>1
    <3> HIDE DEF format, song, tags
    <3> QED
      BY <2>2, <3>1, <3>2, EnvOfEvent
  <2> QED
    BY <2>3 DEF EnvInv, EnvGood
<1> QED
  BY <1>3, <1>6, <1>7, <1>8, <1>9 DEF EventsInv

-----------------------------------------------------------------------------
(* event_player of the three modules and the handlers of cron-event.c: in  *)
(* every state timers, trackers, plays and the environment are in step     *)
(* with what MPD has played and with the events that are still to come.    *)
THEOREM EventsInvHolds == Spec => []EventsInv
<1>1. Init => EventsInv
  BY EventsInit
<1>2. EventsInv /\ [Next]_vars => EventsInv'
  <2> SUFFICES ASSUME EventsInv, [Next]_vars PROVE EventsInv'
    OBVIOUS
  <2>1. CASE PlaySong \/ Stop \/ Pause \/ Resume \/ Seek \/ TitleChanges
    BY <2>1, PlayerChanges
  <2>2. CASE Tick
    BY <2>2, TickInv
  <2>3. CASE Disconnect \/ Reconnect
    BY <2>3, ConnectionInv
  <2>4. CASE Event
    BY <2>4, EventInv
  <2>5. CASE EventDatabase \/ EventOther
    BY <2>5, OtherEventsInv
  <2>6. CASE UNCHANGED vars
    BY <2>6 DEF vars, EventsInv, PlayerInv, TrackerInv, HeardInv, SpareInv, EnvInv
  <2> QED
    BY <2>1, <2>2, <2>3, <2>4, <2>5, <2>6 DEF Next
<1> QED
  BY <1>1, <1>2, PTL DEF Spec

(* The types, a timer that runs no longer than mpdcron, and one that        *)
(* stands still after a pause. *)
THEOREM PlayerTypes == Spec => []TypeOK
<1>1. EventsInv => TypeOK
  <2> SUFFICES ASSUME EventsInv PROVE TypeOK
    OBVIOUS
  <2>1. mpd \in [state : {"stop", "play", "pause"}, song : Songs \union {None}, position : Nat]
        /\ conn \in {"up", "down"} /\ pending \in {0, 1} /\ (pending = 1 => conn = "up")
    BY DEF EventsInv, PlayerInv, Players, States
  <2>2. ASSUME NEW kind \in Kinds
        PROVE  /\ trackers[kind].last_id \in Songs \union {None}
               /\ trackers[kind].prev \in Songs \union {None}
               /\ trackers[kind].elapsed \in 0 .. time
               /\ trackers[kind].was_paused = 1 => trackers[kind].running = 0
    BY DEF EventsInv, PlayerInv, TrackerInv, Trackers, Steady
  <2>3. env.fresh \subseteq env.set
    BY DEF EventsInv, EnvInv
  <2> QED
    BY <2>1, <2>2, <2>3 DEF TypeOK
<1> QED
  BY <1>1, EventsInvHolds, PTL

(* The timers are right for any number of songs and seconds, as long as no *)
(* change has gone unnoticed since the tracker last knew what is played.   *)
THEOREM TimersAreRight == Spec => []TimerIsHeard
<1>1. EventsInv => TimerIsHeard
  <2> SUFFICES ASSUME EventsInv, missed # "now", pending = 0, NEW kind \in Kinds,
                      mpd.state # "stop", trackers[kind].last_id = mpd.song
               PROVE  /\ trackers[kind].elapsed = heard[kind]
                      /\ trackers[kind].running = 1 <=> mpd.state = "play"
    BY DEF TimerIsHeard
  <2>1. trackers[kind].last_id # None
    BY SongsAssumption DEF EventsInv, PlayerInv
  <2> QED
    BY <2>1 DEF EventsInv, HeardInv
<1> QED
  BY <1>1, EventsInvHolds, PTL

(* Plays are counted when, and only when, enough was heard, whatever the   *)
(* thresholds and the lengths of the songs are. *)
THEOREM PlaysCounted == Spec => PlaysAreCounted
<1> DEFINE A == missed = "no" /\ pending = 1 /\ pending' = 0 /\ conn' = "up" =>
        \A kind \in Counting :
            LET s == trackers[kind].prev
            IN  /\ s # None /\ (mpd.state = "stop" \/ (mpd.state = "play" /\ mpd.song # s)) =>
                     spare'[kind][s] = spare[kind][s] -
                       IF s \in Tagged /\ heard[kind] >= Need(s) THEN Need(s) ELSE 0
                /\ \A e \in Songs : spare'[kind][e] >= 0
<1>1. EventsInv /\ EventsInv' /\ [Next]_vars => A
  <2> SUFFICES ASSUME EventsInv, EventsInv', [Next]_vars, missed = "no", pending = 1,
                      pending' = 0, conn' = "up", NEW kind \in Counting
               PROVE  LET s == trackers[kind].prev
                      IN  /\ s # None
                             /\ (mpd.state = "stop" \/ (mpd.state = "play" /\ mpd.song # s)) =>
                               spare'[kind][s] = spare[kind][s] -
                                 IF s \in Tagged /\ heard[kind] >= Need(s) THEN Need(s) ELSE 0
                          /\ \A e \in Songs : spare'[kind][e] >= 0
    OBVIOUS
  <2>1. Event
    BY DEF Next, PlaySong, Stop, Pause, Resume, Seek, TitleChanges, Changes, Tick,
           Disconnect, Reconnect, EventDatabase, EventOther, vars
  <2>2. missed' = "no"
    BY <2>1 DEF Event
  <2>3. \A e \in Songs : spare'[kind][e] >= 0
    BY <2>2 DEF EventsInv, SpareInv
  <2> DEFINE s == trackers[kind].prev
             counted == Counted(kind, trackers[kind], mpd.state, CurrentSong, mpd.position)
  <2>4. ASSUME s # None, mpd.state = "stop" \/ (mpd.state = "play" /\ mpd.song # s)
        PROVE  spare'[kind][s] = spare[kind][s] -
                 IF s \in Tagged /\ heard[kind] >= Need(s) THEN Need(s) ELSE 0
    <3>1. kind \in Kinds
      BY DEF Counting, Kinds
    <3>2. s \in Songs /\ s = trackers[kind].last_id
      BY <2>4, <3>1 DEF EventsInv, TrackerInv, Trackers
    <3>3. heard[kind] = trackers[kind].elapsed
      BY <2>4, <3>1, <3>2 DEF EventsInv, HeardInv
    <3>4. s \in counted <=> s \in Tagged /\ trackers[kind].elapsed >= Need(s)
      BY <2>1, <2>4, <3>2, PlaysOfEvent
    <3>5. spare'[kind][s] = spare[kind][s] - (IF missed = "no" /\ s \in counted THEN Need(s) ELSE 0)
      BY <2>1, <3>2, PlaysOfEvent
    <3> HIDE DEF s, counted
    <3> QED
      BY <3>3, <3>4, <3>5
  <2> QED
    BY <2>3, <2>4
<1> HIDE DEF A
<1>2. Spec => [][A]_vars
  BY <1>1, EventsInvHolds, PTL DEF Spec
<1> QED
  BY <1>2 DEF A, PlaysAreCounted

(* Two variables only can keep the value of an earlier event. *)
THEOREM HooksSeeTheirs == Spec => []HooksSeeTheirEvent
<1>1. EventsInv => HooksSeeTheirEvent
  BY DEF EventsInv, EnvInv, HooksSeeTheirEvent, Stale
<1> QED
  BY <1>1, EventsInvHolds, PTL

=============================================================================
