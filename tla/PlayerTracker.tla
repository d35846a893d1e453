----------------------------- MODULE PlayerTracker -----------------------------
(***************************************************************************)
(* How a module follows MPD's player to find out what was played and for   *)
(* how long: event_player of scrobbler-module.c, stats-module.c and        *)
(* notification-module.c, which differ in what they do about it.           *)
(*                                                                         *)
(* A song is an entry of MPD's queue and stands for its id.  Time is in    *)
(* seconds.  A tracker is a record of a module's static variables and of   *)
(* its timer: what that shows, and whether it runs.                        *)
(***************************************************************************)
EXTENDS Naturals

CONSTANTS
    Songs,          \* the entries of the queue
    None,           \* no song
    Duration,       \* [Songs -> Nat], 0 for a stream
    Remote,         \* the songs whose uri is a URL
    Titled,         \* the songs that have a title
    Tagged,         \* the songs with the tags that are needed to count them
    LongPlay,       \* 240: a song heard for longer counts
    MinLength,      \* 30: a shorter song does not count
    RepeatWindow    \* 60: a repeated song is noticed this early

ASSUME SongsAssumption ==
    /\ None \notin Songs
    /\ Duration \in [Songs -> Nat]
    /\ LongPlay \in Nat /\ MinLength \in Nat /\ RepeatWindow \in Nat

Kinds == {"scrobbler", "stats", "notification"}
Counting == {"scrobbler", "stats"}

NewTracker == [last_id |-> None, was_paused |-> 0, is_remote |-> 0, prev |-> None,
               elapsed |-> 0, running |-> 1]

Played_long_enough(elapsed, length) ==
    elapsed > LongPlay \/ (length >= MinLength /\ elapsed > length \div 2)

Song_repeated(s, elapsed, prev_elapsed) ==
    /\ elapsed < RepeatWindow /\ prev_elapsed > elapsed
    /\ Played_long_enough(prev_elapsed - elapsed, Duration[s])

(* The timer starts again from 0. *)
Song_started(t, s) ==
    [t EXCEPT !.is_remote = IF s \in Remote THEN 1 ELSE 0, !.elapsed = 0, !.running = 1,
              !.last_id = s]

Song_continued(t) == [t EXCEPT !.running = 1]

Song_paused_Bug(t) ==
    [t EXCEPT !.running = IF t.was_paused = 1 THEN 0 ELSE @, !.was_paused = 1]
(* The timer stops at the first of several pauses. *)
Song_paused(t) ==
    [t EXCEPT !.running = IF t.was_paused = 0 THEN 0 ELSE @, !.was_paused = 1]

Song_stopped(t) == [t EXCEPT !.last_id = None, !.was_paused = 0]

Resumed_Bug(t, s) ==
    IF t.was_paused = 1 /\ s = t.last_id THEN Song_continued(t) ELSE t
(* The first event after a pause. *)
Resumed(t, s) ==
    IF t.was_paused = 0 THEN t
    ELSE [(IF s # None /\ s = t.last_id THEN Song_continued(t) ELSE t) EXCEPT !.was_paused = 0]

(* Two copies of a title are never the same pointer: a stream that has one *)
(* is a new song at each event. *)
NewTitle(t, s) == t.is_remote = 1 /\ t.prev # None /\ {t.prev, s} \cap Titled # {}

Ends(t, s) == t.prev # None /\ (s = None \/ t.prev # s \/ NewTitle(t, s))

Starts(t, s) == s # None /\ (s # t.last_id \/ NewTitle(t, s))

Repeats(kind, t, s, position) ==
    /\ s # None /\ ~ Starts(t, s)
    /\ IF kind = "scrobbler" THEN Song_repeated(s, position, t.elapsed) ELSE t.elapsed > position

(* What event_player goes by once the state of the player is dealt with. *)
Told(t, state, s) == Resumed(IF state = "play" THEN t ELSE Song_stopped(t), s)

(* event_player: song is None unless MPD plays or pauses one. *)
Event_player(kind, t, state, s, position) ==
    LET told == Told(t, state, s)
        new == IF Starts(told, s) \/ Repeats(kind, told, s, position)
               THEN Song_started(told, s) ELSE told
    IN  IF state = "pause" THEN Song_paused(t)
        ELSE IF kind = "notification"
        THEN IF state = "play" THEN new ELSE Song_stopped(t)
        ELSE [new EXCEPT !.prev = s]

(* song_ended: as_songchange is called, and db_process told to count the   *)
(* play. *)
Counts(t, s) == s \in Tagged /\ Played_long_enough(t.elapsed, Duration[s])

Ended_Bug(kind, t, state, s, position) ==
    LET told == Told(t, state, s)
    IN  IF state # "play" THEN {}
        ELSE (IF Ends(told, s) THEN {told.prev} ELSE {})
               \union (IF Repeats(kind, told, s, position) THEN {s} ELSE {})
(* The song that has ended for the module, if any. *)
Ended(kind, t, state, s, position) ==
    LET told == Told(t, state, s)
    IN  IF state = "pause" THEN {}
        ELSE (IF Ends(told, s) THEN {told.prev} ELSE {})
               \union (IF Repeats(kind, told, s, position) THEN {s} ELSE {})

Counted(kind, t, state, s, position) == {e \in Ended(kind, t, state, s, position) : Counts(t, e)}

=============================================================================
