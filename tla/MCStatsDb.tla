------------------------------ MODULE MCStatsDb ------------------------------
EXTENDS StatsDb, TLC

CONSTANTS s1, s2, s3, u1, u2, a1, a2, b, g, d, t1, t2, x, y

(* Two artists with an album of the same name.  The third song is the      *)
(* first one after it got another artist; that of the second one is taken  *)
(* from its title. *)
MCUriOf       == s1 :> u1 @@ s2 :> u2 @@ s3 :> u1
MCArtistTagOf == s1 :> a1 @@ s2 :> None @@ s3 :> a2
MCArtistOf    == s1 :> a1 @@ s2 :> a2 @@ s3 :> a2
MCAlbumOf     == s1 :> b @@ s2 :> b @@ s3 :> b
MCGenreOf     == s1 :> None @@ s2 :> g @@ s3 :> None

MCLibrary  == t1 :> <<s3, s2>> @@ t2 :> <<s1>>
MCHearings == {<<1, 100>>}
MCPrograms == t1 :> {"walrus", "eugene"} @@ t2 :> {"walrus"}

Ask(op, kind, arg) == [op |-> op, kind |-> kind, arg |-> arg]
MCAsks == {Ask("love", "genre", None), Ask("addtag", "album", x), Ask("listtags", "album", None),
           Ask("listinfo", "song", None), Ask("hate", "genre", None)}

All(kind) == Named(Names(kind))
MCCommands ==
    {Count_expr("artist", All("artist"), 1), Karma_expr(All("song"), 99), Karma_expr(All("song"), 101),
     Rate_expr("artist", All("artist"), 1), Rmtag_expr("song", All("song"), x),
     Rmtag_expr("album", All("album"), x), Rmtag_expr("genre", All("genre"), None),
     Listtags_expr("song", All("song")),
     List_expr("artist", All("artist")), Love_expr(TRUE, "song", None)}

(* A file with the first song played once, by an older mpdcron or by this. *)
Played(version, columns) ==
    [version |-> version, tables |-> Kinds, columns |-> columns,
     rows |-> [song   |-> u1 :> [Insert_song(1, -1) EXCEPT !.tags = <<x, y, x>>],
               artist |-> a1 :> Insert_entry("artist", s1, 1),
               album  |-> b :> [Insert_entry("album", s1, 1) EXCEPT !.tags = <<x, y, x>>],
               genre  |-> <<>>,
               heard  |-> s1 :> [count |-> 1]]]
MCInitialFiles == {NoFile, Played(10, {}), Played(11, Columns)}

==============================================================================
