-------------------------------- MODULE HookEnv --------------------------------
(***************************************************************************)
(* The environment that cron-env.c and cron-hooker.c set up for a hook.    *)
(* An environment is a record of the names that are set, and of those      *)
(* among them that were set for the event at hand.  The tags of a song are *)
(* taken as one name; what a variable's text looks like, and the counts of *)
(* calls in the MC_CALLS_ variables, are left out.                         *)
(***************************************************************************)
Hooks == {"database", "stored_playlist", "queue", "player", "mixer", "output", "options", "update"}

(* The hooks for which MPD is asked for its status. *)
StatusHooks == {"mixer", "options", "update"}

StatusNames ==
    {"MPD_STATUS_VOLUME", "MPD_STATUS_REPEAT", "MPD_STATUS_RANDOM", "MPD_STATUS_SINGLE",
     "MPD_STATUS_CONSUME", "MPD_STATUS_QUEUE_LENGTH", "MPD_STATUS_QUEUE_VERSION",
     "MPD_STATUS_CROSSFADE", "MPD_STATUS_SONG_POS", "MPD_STATUS_SONG_ID",
     "MPD_STATUS_ELAPSED_TIME", "MPD_STATUS_ELAPSED_MS", "MPD_STATUS_TOTAL_TIME",
     "MPD_STATUS_KBIT_RATE", "MPD_STATUS_UPDATE_ID", "MPD_STATUS_STATE",
     "MPD_STATUS_AUDIO_FORMAT"}
FormatNames ==
    {"MPD_STATUS_AUDIO_FORMAT_SAMPLE_RATE", "MPD_STATUS_AUDIO_FORMAT_BITS",
     "MPD_STATUS_AUDIO_FORMAT_CHANNELS"}
TagName == "MPD_SONG_TAG_"
SongNames ==
    {"MPD_SONG_URI", "MPD_SONG_LAST_MODIFIED", "MPD_SONG_DURATION", "MPD_SONG_POS", "MPD_SONG_ID"}
StatsNames ==
    {"MPD_DATABASE_UPDATE_TIME", "MPD_DATABASE_ARTISTS", "MPD_DATABASE_ALBUMS",
     "MPD_DATABASE_SONGS", "MPD_DATABASE_PLAY_TIME", "MPD_DATABASE_UPTIME",
     "MPD_DATABASE_DB_PLAY_TIME"}

EmptyEnv == [set |-> {}, fresh |-> {}]

Export(env, names) == [env EXCEPT !.set = @ \union names, !.fresh = @ \union names]

(* format: MPD knows the audio format, as it does while it plays. *)
Env_export_status(env, format) ==
    Export(env, StatusNames \union (IF format THEN FormatNames ELSE {}))

Env_export_song(env, tags) == Export(env, SongNames \union (IF tags THEN {TagName} ELSE {}))

Env_stats(env) == Export(env, StatsNames)

(* What env_clearenv unsets: MPD_STATUS_RENDOM stands for                  *)
(* MPD_STATUS_RANDOM, and MPD_SONG_DURATION is missing. *)
Unset_Bug ==
    (StatusNames \ {"MPD_STATUS_RANDOM"}) \union {"MPD_STATUS_RENDOM"} \union FormatNames
      \union (SongNames \ {"MPD_SONG_DURATION"}) \union StatsNames
Unset ==
    (StatusNames \ {"MPD_STATUS_RANDOM"}) \union {"MPD_STATUS_RENDOM"} \union FormatNames
      \union (SongNames \ {"MPD_SONG_DURATION"}) \union {TagName} \union StatsNames

Env_clearenv(env) == [env EXCEPT !.set = @ \ Unset, !.fresh = {}]

(* What a hook is given for an event, in the environment env. *)
For_database(env) == Env_stats(Env_clearenv(env))

For_player(env, format, song, tags) ==
    LET status == Env_export_status(Env_clearenv(env), format)
    IN  IF song THEN Env_export_song(status, tags) ELSE status

For_other(env, hook, format) ==
    IF hook \in StatusHooks THEN Env_export_status(Env_clearenv(env), format)
    ELSE Env_clearenv(env)

=============================================================================
