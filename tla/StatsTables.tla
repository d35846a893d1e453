------------------------------ MODULE StatsTables ------------------------------
(***************************************************************************)
(* The tables of the statistics database and what the functions of         *)
(* stats-sqlite.c do to their rows.                                        *)
(*                                                                         *)
(* A song is what MPD says of a file or a stream at one time: its uri and  *)
(* its tags.  When these change, it is another song with the same uri.     *)
(*                                                                         *)
(* A table is a function from the names of its rows (the uri of a song) to *)
(* the rows; the number SQLite gives a row stands for its name.  An        *)
(* expression is the set of names it selects and, as an album's artist can *)
(* change, the set of artists it accepts.  The copies of a song's tags in  *)
(* its row, which nothing reads, are left out, and so are times: a song    *)
(* was played or not.                                                      *)
(***************************************************************************)
EXTENDS Integers, Sequences, FiniteSets, SequencesExt

CONSTANTS
    Songs,      \* the songs that MPD tells of
    None,       \* no such tag
    Tags,       \* the tags that users give
    UriOf,      \* [Songs -> the uri]
    ArtistTagOf,\* [Songs -> the tag artist or None]
    ArtistOf,   \* [Songs -> the artist that song_check_tags finds, which it
                \*           takes from the title of a stream without the
                \*           tag; None when a required tag is missing]
    AlbumOf,    \* [Songs -> the album or None]
    GenreOf     \* [Songs -> the genre or None]

ASSUME SongsAssumption ==
    IsFiniteSet(Songs) /\ None \notin Songs /\ \A s \in Songs : UriOf[s] # None
ASSUME ArtistAssumption == \A s \in Songs : ArtistTagOf[s] \in {None, ArtistOf[s]}

Kinds == {"song", "artist", "album", "genre"}

(* The name of the row of each table that a song has, or None. *)
NameOf(kind, s) ==
    CASE kind = "song"   -> UriOf[s]
      [] kind = "artist" -> ArtistOf[s]
      [] kind = "album"  -> AlbumOf[s]
      [] kind = "genre"  -> GenreOf[s]

Names(kind) == {NameOf(kind, s) : s \in Songs} \ {None}

(* The columns.  Only songs have karma and a time they were last played,   *)
(* only albums an artist; elsewhere the three keep their first value.      *)
Rows == [count : Int, love : Int, kill : Int, rating : Int, tags : Seq(Tags),
         karma : Int, last_played : {0, 1},
         artist : {ArtistTagOf[s] : s \in Songs} \union {None}]

(* Kept with the tables, and undone with them: how often each song has been*)
(* counted, under the tags that it had then.  No row has this.             *)
History == "heard"

NoTables == [kind \in Kinds \union {History} |-> <<>>]

TablesOK(tables) ==
    /\ DOMAIN tables = Kinds \union {History}
    /\ DOMAIN tables[History] \subseteq Songs
    /\ \A s \in DOMAIN tables[History] : tables[History][s].count \in Int
    /\ \A kind \in Kinds : \A n \in DOMAIN tables[kind] :
         /\ n \in Names(kind)
         /\ tables[kind][n] \in Rows /\ tables[kind][n].karma \in 0 .. 100

(* love and kill are counted from 0; 50 is DB_KARMA_DEFAULT. *)
NewRow(count) == [count |-> count, love |-> 0, kill |-> 0, rating |-> 0, tags |-> <<>>,
                  karma |-> 50, last_played |-> 0, artist |-> None]

-----------------------------------------------------------------------------
(* What a play does to the tables: increment is 1 or 0, and the percentage *)
(* is not one when the song was not played at all, or played longer than   *)
(* it lasts.                                                               *)
IsPercentage(p) == p \in 0 .. 100

Karma_Bug(karma, p) == karma + p + 1
(* "Round up to be able to reach 100%" *)
Karma(karma, p) == (karma + p + 1) \div 2

Heard(row, p) ==
    IF IsPercentage(p) THEN [row EXCEPT !.karma = Karma(@, p), !.last_played = 1] ELSE row

Insert_song(increment, p) == Heard(NewRow(increment), p)

Insert_entry(kind, s, increment) ==
    [NewRow(increment) EXCEPT !.artist = IF kind = "album" THEN ArtistTagOf[s] ELSE None]

Update_song(row, increment, p) == Heard([row EXCEPT !.count = @ + increment], p)

Update_entry_Bug(kind, row, s, increment) == [row EXCEPT !.count = @ + increment]
(* The album's name decides which row is updated, and the row takes the    *)
(* artist tag of the song, and none when it has none. *)
Update_entry(kind, row, s, increment) ==
    [row EXCEPT !.count = @ + increment,
                !.artist = IF kind = "album" THEN ArtistTagOf[s] ELSE @]

(* The row of one kind that db_process writes for a song.  That of a song  *)
(* is its uri's: the counts of its former tags stay where they were.       *)
Written(table, kind, s, increment, p) ==
    LET n == NameOf(kind, s)
        row == IF n \in DOMAIN table
               THEN IF kind = "song" THEN Update_song(table[n], increment, p)
                                     ELSE Update_entry(kind, table[n], s, increment)
               ELSE IF kind = "song" THEN Insert_song(increment, p)
                                     ELSE Insert_entry(kind, s, increment)
    IN  [m \in DOMAIN table \union {n} |-> IF m = n THEN row ELSE table[m]]

Counted(heard, s, increment) ==
    [x \in DOMAIN heard \union {s} |->
        [count |-> (IF x \in DOMAIN heard THEN heard[x].count ELSE 0)
                       + (IF x = s THEN increment ELSE 0)]]

Processed(tables, kind, s, increment, p) ==
    [k \in DOMAIN tables |->
        IF k = kind THEN Written(tables[k], kind, s, increment, p)
        ELSE IF k = History /\ kind = "song" THEN Counted(tables[k], s, increment)
        ELSE tables[k]]

-----------------------------------------------------------------------------
(* What some rows have been counted together. *)
Total(table, rows) == MapThenSumSet(LAMBDA n : table[n].count, rows)

PlayCount(tables) == Total(tables["song"], DOMAIN tables["song"])

(* Each song has its row and those of its artist, album and genre, and     *)
(* each row has been counted as often as the songs that had its name when  *)
(* they were played.                                                       *)
Agree(tables) ==
    LET songs == tables[History]
        Of(kind, n) == {s \in DOMAIN songs : NameOf(kind, s) = n}
    IN  \A kind \in Kinds :
          /\ DOMAIN tables[kind] = {NameOf(kind, s) : s \in DOMAIN songs} \ {None}
          /\ \A n \in DOMAIN tables[kind] :
               tables[kind][n].count = Total(songs, Of(kind, n))

-----------------------------------------------------------------------------
(* Expressions, and the rows they select. *)
Named(names) == [names |-> names, artists |-> {ArtistTagOf[s] : s \in Songs} \union {None}]

Selected(table, where) ==
    {n \in DOMAIN table : n \in where.names /\ table[n].artist \in where.artists}

(* "update ... set ... where ...": set is a function of the row. *)
Sql_update_entry(table, where, set(_)) ==
    [n \in DOMAIN table |-> IF n \in Selected(table, where) THEN set(table[n]) ELSE table[n]]

Count(row, n) == [row EXCEPT !.count = @ + n]

Love(row, love) == [row EXCEPT !.love = IF love THEN @ + 1 ELSE @ - 1]

Kill(row, kkill) == [row EXCEPT !.kill = IF kkill THEN @ + 1 ELSE 0]

Rate(row, n) == [row EXCEPT !.rating = @ + n]

Rate_absolute(row, n) == [row EXCEPT !.rating = n]

Set_karma(row, n) == [row EXCEPT !.karma = n]

Add_tag(row, tag) == [row EXCEPT !.tags = Append(@, tag)]

Remove_tag_Bug(tags, tag) ==
    LET first == CHOOSE i \in DOMAIN tags : tags[i] = tag /\ \A j \in 1 .. i - 1 : tags[j] # tag
    IN  IF tag \in ToSet(tags) THEN RemoveAt(tags, first) ELSE tags
(* remove_tag: every occurrence goes, and the others stay in order. *)
Remove_tag(tags, tag) ==
    LET new[i \in 0 .. Len(tags)] ==
          IF i = 0 THEN <<>>
          ELSE IF tags[i] = tag THEN new[i - 1] ELSE Append(new[i - 1], tags[i])
    IN  new[Len(tags)]

Set_tags(row, tags) == [row EXCEPT !.tags = tags]

=============================================================================
