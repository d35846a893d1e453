----------------------------- MODULE StatsCommands -----------------------------
(***************************************************************************)
(* The commands of the statistics server (stats-command.c), the commands   *)
(* that eugene makes of its options and of the song MPD plays              *)
(* (eugene-*.c), and how it reads the answers (eugene-connection.c).       *)
(*                                                                         *)
(* A command is a record of what it does (op), to which table (kind),      *)
(* where, and its last argument, a number or a tag.  None is an expression *)
(* that SQLite rejects, or a number that strtol does.  A line of an answer *)
(* is a key and a value.                                                   *)
(***************************************************************************)
EXTENDS StatsTables

Command(op, kind, where, arg) == [op |-> op, kind |-> kind, where |-> where, arg |-> arg]

(* The last arguments there are for an op. *)
Args(op) ==
    CASE op \in {"count", "rate", "rate_absolute", "karma"} -> Int \union {None}
      [] op \in {"addtag", "rmtag"}                         -> Tags \union {None}
      [] op \in {"kill", "unkill", "love", "hate", "list", "listinfo", "listtags"} -> {None}

Ops == {"count", "rate", "rate_absolute", "karma", "addtag", "rmtag", "kill", "unkill",
        "love", "hate", "list", "listinfo", "listtags"}

CommandOK(c) ==
    /\ c.op \in Ops /\ c.kind \in Kinds /\ c.arg \in Args(c.op)
    /\ c.op = "karma" => c.kind = "song"

OK == [key |-> "OK", value |-> None]
ACK == <<[key |-> "ACK", value |-> None]>>
Pair(key, value) == [key |-> key, value |-> value]

(* The binary search of the table of commands misses three of its entries. *)
Known(c) == c.op # "rate" \/ c.kind = "song"

-----------------------------------------------------------------------------
(* Handlers that change rows: the tables afterwards and the answer. *)
Failed(tables) == [tables |-> tables, answer |-> ACK]

Changed(tables, c, set(_)) ==
    [tables |-> [tables EXCEPT ![c.kind] = Sql_update_entry(@, c.where, set)],
     answer |-> <<Pair("changes", Cardinality(Selected(tables[c.kind], c.where))), OK>>]

Handle_kill(tables, c) == Changed(tables, c, LAMBDA row : Kill(row, c.op = "kill"))

Handle_love(tables, c) == Changed(tables, c, LAMBDA row : Love(row, c.op = "love"))

Handle_rate(tables, c) ==
    IF c.arg = None THEN Failed(tables) ELSE Changed(tables, c, LAMBDA row : Rate(row, c.arg))

Handle_rate_absolute(tables, c) ==
    IF c.arg = None THEN Failed(tables)
    ELSE Changed(tables, c, LAMBDA row : Rate_absolute(row, c.arg))

Handle_count(tables, c) ==
    IF c.arg = None THEN Failed(tables) ELSE Changed(tables, c, LAMBDA row : Count(row, c.arg))

(* A percentage, but neither 0 nor 100. *)
Handle_karma(tables, c) ==
    IF c.arg = None \/ c.arg \notin 1 .. 99 THEN Failed(tables)
    ELSE Changed(tables, c, LAMBDA row : Set_karma(row, c.arg))

(* The empty tag, and one with a colon, are None. *)
Handle_addtag(tables, c) ==
    IF c.arg = None THEN Failed(tables) ELSE Changed(tables, c, LAMBDA row : Add_tag(row, c.arg))

Changing(tables, c) ==
    IF c.where = None THEN Failed(tables)
    ELSE CASE c.op \in {"kill", "unkill"}  -> Handle_kill(tables, c)
           [] c.op \in {"love", "hate"}    -> Handle_love(tables, c)
           [] c.op = "rate"                -> Handle_rate(tables, c)
           [] c.op = "rate_absolute"       -> Handle_rate_absolute(tables, c)
           [] c.op = "count"               -> Handle_count(tables, c)
           [] c.op = "karma"               -> Handle_karma(tables, c)
           [] c.op = "addtag"              -> Handle_addtag(tables, c)

-----------------------------------------------------------------------------
(* Handlers that only look: the lines about one row. *)
NameKey == [song |-> "file", artist |-> "Artist", album |-> "Album", genre |-> "Genre"]

Listed_Bug(kind, n, row) == <<Pair(NameKey[kind], n), Pair("id", n)>>
Listed(kind, n, row) ==
    <<Pair("id", n), Pair(NameKey[kind], n)>> \o
        (IF kind = "album" THEN <<Pair("Artist", row.artist)>> ELSE <<>>)

Infos(kind, n, row) ==
    Listed(kind, n, row) \o
    <<Pair("Play Count", row.count), Pair("Love", row.love), Pair("Kill", row.kill),
      Pair("Rating", row.rating)>> \o
    (IF kind = "song"
     THEN <<Pair("Karma", row.karma)>> \o
          (IF row.last_played = 1 THEN <<Pair("Last Played", 1)>> ELSE <<>>)
     ELSE <<>>)

TagsListed(kind, n, row) ==
    Listed(kind, n, row) \o [i \in DOMAIN row.tags |-> Pair("Tag", row.tags[i])]

Lines(table, c, about(_, _, _)) ==
    LET names == SetToSeq(Selected(table, c.where))
    IN  FlattenSeq([i \in DOMAIN names |-> about(c.kind, names[i], table[names[i]])]) \o <<OK>>

Handle_list(table, c)     == Lines(table, c, Listed)
Handle_listinfo(table, c) == Lines(table, c, Infos)
Handle_listtags(table, c) == Lines(table, c, TagsListed)

Looking(tables, c) ==
    IF c.where = None THEN ACK
    ELSE CASE c.op = "list"     -> Handle_list(tables[c.kind], c)
           [] c.op = "listinfo" -> Handle_listinfo(tables[c.kind], c)
           [] c.op = "listtags" -> Handle_listtags(tables[c.kind], c)

IsLook(c) == c.op \in {"list", "listinfo", "listtags"}

-----------------------------------------------------------------------------
(* The commands that eugene's side of the connection can send. *)
List_expr(kind, where)             == Command("list", kind, where, None)
Listinfo_expr(kind, where)         == Command("listinfo", kind, where, None)
Listtags_expr(kind, where)         == Command("listtags", kind, where, None)
Love_expr(love, kind, where)       == Command(IF love THEN "love" ELSE "hate", kind, where, None)
Kill_expr(kkill, kind, where)      == Command(IF kkill THEN "kill" ELSE "unkill", kind, where, None)
Rate_expr(kind, where, n)          == Command("rate", kind, where, n)
Rate_absolute_expr(kind, where, n) == Command("rate_absolute", kind, where, n)
Count_expr(kind, where, n)         == Command("count", kind, where, n)
Karma_expr(where, n)               == Command("karma", "song", where, n)
Addtag_expr(kind, where, tag)      == Command("addtag", kind, where, tag)
Rmtag_expr(kind, where, tag)       == Command("rmtag", kind, where, tag)

-----------------------------------------------------------------------------
(* What eugene asks about the song MPD plays: an expression with its uri   *)
(* or one of its tags, and none is made up here when the artist is missing;*)
(* for the tags of an album, with the artist as well.  None when the song  *)
(* has no such tag.                                                        *)
Tag_of(kind, s) == IF kind = "artist" THEN ArtistTagOf[s] ELSE NameOf(kind, s)

By_name(kind, s) ==
    IF Tag_of(kind, s) = None THEN None ELSE Named({Tag_of(kind, s)})

By_name_and_artist(kind, s) ==
    IF Tag_of(kind, s) = None \/ (kind = "album" /\ ArtistTagOf[s] = None) THEN None
    ELSE IF kind = "album" THEN [names |-> {AlbumOf[s]}, artists |-> {ArtistTagOf[s]}]
    ELSE Named({Tag_of(kind, s)})

(* The option --genre of hate sets the flag of --album. *)
Hates(kind) == IF kind = "genre" THEN "album" ELSE kind

Cmd_love(kind, s)             == Love_expr(TRUE, kind, By_name(kind, s))
Cmd_hate(kind, s)             == Love_expr(FALSE, Hates(kind), By_name(Hates(kind), s))
Cmd_kill(kind, s)             == Kill_expr(TRUE, kind, By_name(kind, s))
Cmd_unkill(kind, s)           == Kill_expr(FALSE, kind, By_name(kind, s))
Cmd_rate(kind, s, n)          == Rate_expr(kind, By_name(kind, s), n)
Cmd_rate_absolute(kind, s, n) == Rate_absolute_expr(kind, By_name(kind, s), n)
Cmd_count(kind, s, n)         == Count_expr(kind, By_name(kind, s), n)
Cmd_karma(s, n)               == Karma_expr(By_name("song", s), n)
Cmd_addtag(kind, s, tag)      == Addtag_expr(kind, By_name_and_artist(kind, s), tag)
Cmd_rmtag(kind, s, tag)       == Rmtag_expr(kind, By_name_and_artist(kind, s), tag)
Cmd_listinfo(kind, s)         == Listinfo_expr(kind, By_name(kind, s))
Cmd_listtags(kind, s)         == Listtags_expr(kind, By_name_and_artist(kind, s))

(* The command of an option on the command line, for the song s. *)
Run_cmd(op, kind, arg, s) ==
    CASE op = "love"          -> Cmd_love(kind, s)
      [] op = "hate"          -> Cmd_hate(kind, s)
      [] op = "kill"          -> Cmd_kill(kind, s)
      [] op = "unkill"        -> Cmd_unkill(kind, s)
      [] op = "rate"          -> Cmd_rate(kind, s, arg)
      [] op = "rate_absolute" -> Cmd_rate_absolute(kind, s, arg)
      [] op = "count"         -> Cmd_count(kind, s, arg)
      [] op = "karma"         -> Cmd_karma(s, arg)
      [] op = "addtag"        -> Cmd_addtag(kind, s, arg)
      [] op = "rmtag"         -> Cmd_rmtag(kind, s, arg)
      [] op = "listinfo"      -> Cmd_listinfo(kind, s)
      [] op = "listtags"      -> Cmd_listtags(kind, s)

-----------------------------------------------------------------------------
(* How eugene reads an answer: the entities it gets, and whether it fails  *)
(* (of ACK, a line that is none, a key it does not expect; a pair before   *)
(* the first id is a failed assertion).                                    *)
Entity(n) == [id |-> n, name |-> None, artist |-> None, count |-> 0, love |-> 0, kill |-> 0,
              rating |-> 0, karma |-> 0, last_played |-> 0, tags |-> <<>>]

Fill(e, nameKey, line) ==
    CASE line.key = nameKey       -> [e EXCEPT !.name = line.value]
      [] line.key = "Tag"         -> [e EXCEPT !.tags = <<line.value>> \o @]
      [] line.key = "Play Count"  -> [e EXCEPT !.count = line.value]
      [] line.key = "Love"        -> [e EXCEPT !.love = line.value]
      [] line.key = "Kill"        -> [e EXCEPT !.kill = line.value]
      [] line.key = "Rating"      -> [e EXCEPT !.rating = line.value]
      [] line.key = "Karma"       -> [e EXCEPT !.karma = line.value]
      [] line.key = "Last Played" -> [e EXCEPT !.last_played = line.value]
      [] OTHER                    -> [e EXCEPT !.artist = line.value]

Unread == [failed |-> 0, values |-> <<>>]

(* One line: of an entity it is about the last. *)
Parse_line(read, nameKey, keys, line) ==
    IF read.failed = 1 \/ line.key = "OK" THEN read
    ELSE IF line.key = "id" THEN [read EXCEPT !.values = Append(@, Entity(line.value))]
    ELSE IF line.key \in keys /\ read.values # <<>>
    THEN [read EXCEPT !.values = Append(Front(@), Fill(Last(@), nameKey, line))]
    ELSE [read EXCEPT !.failed = 1]

Parsed(answer, nameKey, keys) ==
    LET read[i \in 0 .. Len(answer)] ==
          IF i = 0 THEN Unread ELSE Parse_line(read[i - 1], nameKey, keys, answer[i])
    IN  read[Len(answer)]

Counters == {"Love", "Kill", "Rating", "Play Count", "Tag"}

Parse_albums(answer)  == Parsed(answer, "Album", Counters \union {"Album", "Artist"})
Parse_artists(answer) == Parsed(answer, "Artist", Counters \union {"Artist"})
Parse_genres(answer)  == Parsed(answer, "Genre", Counters \union {"Genre"})
Parse_songs(answer)   == Parsed(answer, "file", Counters \union {"file", "Karma", "Last Played"})

Parse_changes(answer) ==
    IF \A i \in DOMAIN answer : answer[i].key \in {"changes", "OK"}
    THEN answer[1].value ELSE None

Parse(c, answer) ==
    IF ~ IsLook(c) THEN Parse_changes(answer)
    ELSE CASE c.kind = "album"  -> Parse_albums(answer)
           [] c.kind = "artist" -> Parse_artists(answer)
           [] c.kind = "genre"  -> Parse_genres(answer)
           [] c.kind = "song"   -> Parse_songs(answer)

(* What eugene should have learnt of a row. *)
Learnt_name(c, n, row) ==
    [Entity(n) EXCEPT !.name = n, !.artist = IF c.kind = "album" THEN row.artist ELSE None]

Learnt(c, n, row) ==
    LET e == Learnt_name(c, n, row)
        song == c.kind = "song"
    IN  CASE c.op = "list"     -> e
          [] c.op = "listinfo" -> [e EXCEPT !.count = row.count, !.love = row.love, !.kill = row.kill,
                                            !.rating = row.rating,
                                            !.karma = IF song THEN row.karma ELSE 0,
                                            !.last_played = IF song THEN row.last_played ELSE 0]
          [] c.op = "listtags" -> [e EXCEPT !.tags = Reverse(row.tags)]

=============================================================================
