# A TLA+ development of mpdcron

mpdcron is a daemon that waits on an MPD server with the `idle` command and, for each subsystem that
changed, calls the modules it has loaded and a hook script. Its modules submit songs to
Audioscrobbler servers (scrobbler), keep statistics in SQLite and serve them over TCP (stats), and
show notifications (notification). This directory holds models of its state machines, the TLC runs
that check them on small instances, and TLAPS proofs for instances of any size. `PROJECT.json` ties
each definition to the lines it models, each property to the runs that check it and to a mutation of
the code that breaks it, and lists the hazards the properties are for.

Paths below are relative to the repository; `scrobbler/`, `stats/` and `notification/` are short for
directories of `src/gmodule/`.

## The system

mpdcron is one process with one GLib main loop. Whatever happens is a callback of that loop and runs
to completion; the exceptions are signals (handlers run anywhere, and run the modules' `destroy`),
sudden death, and the processes of `walrus` and `eugene`, which open the same database. Most of what
is hard here is therefore not preemption but *order*: which callback is outstanding, what state it
will find, and which path out of a callback forgot to arm the next one.

| component | state | operations | models |
|---|---|---|---|
| connection loop, `cron-loop.c` | `conn`, `idle_sid`, `reconnect_sid` | connect, idle, reconnect timer | `CronLoop` |
| event dispatch, `cron-event.c` | none | query MPD, run the modules, run the hook | `IdleEvents`, `Mpdcron` |
| module list, `cron-gmodule.c` | `modules` | load, walk, unload during a walk | `ModuleList` |
| hooks, `cron-hooker.c`, `cron-env.c` | `ncalls`, the environment | clear and export the environment, spawn | `HookEnv`, `PlayerEvents` |
| main, `cron-main.c`, `cron-conf.c`, `cron-keyfile.c`, `cron-log.c` | configuration, loop | start, signals | signals during a save only |
| scrobbler sessions, `scrobbler-submit.c` | `struct scrobbler`: session, two timers, back-off, queue, now-playing record | handshake, submit, answers and failures | `ScrobblerSubmit` |
| scrobbler journals, `scrobbler-journal.c` | one file each, one shared flag | read at start, save by timer and at the end | `ScrobblerJournal` |
| http client, `scrobbler-curl.c` | list of requests | start, complete, abort all | how one scrobbler's request ends and is reported: `ScrobblerSubmit` |
| player tracking, `event_player` of the three modules | last id, timer, paused, previous position | state changes to songs started and ended | `PlayerTracker`, `PlayerEvents` |
| stats server, `stats-server.c` | table of clients | accept, read, write, flush | `StatsServer` |
| stats commands, `stats-command.c`, `tokenizer.c` | table of commands, permissions | look up, authorize, answer | `CommandTable`, `StatsServer`; what a command looks up and changes: `StatsCommands` |
| stats database, `stats-sqlite.c` | four tables, version | create, migrate, record a song, rate, tag, list | `StatsTables`, `StatsDb` |
| walrus, `walrus-*.c` | none | import all songs in one transaction | a process of `StatsDb` |
| eugene, `eugene-*.c` | none | add the current song, send a command, read the answer | a process of `StatsDb`, with `StatsCommands`; a peer of `StatsServer` |
| notification, `notification/` | last id, timer | spawn `notify-send` | its tracker only |

How they interact: the loop calls `event_run`, which calls the walk, which calls the modules'
handlers and returns whether the connection may stay. The scrobbler's handler calls `as_now_playing`
and `as_songchange`, which arm timers; the timers start HTTP requests; the client calls back from
the main loop, or at once when a request cannot be started. The stats handler writes to the database
that the server's commands read and write, each command inside the callback of the read that brought
it. `walrus` and `eugene` write to the same file by themselves; `eugene` then sends mpdcron a
command about the song it has just written.

What makes each correct:

- *loop*: whatever fails, exactly one source is left that will go on; a lost connection comes back;
  a change that was told is run.
- *module list*: an unloaded module is never called again, nobody is skipped when nothing is
  unloaded, a request to reconnect is honoured.
- *sessions*: no play lost, none out of order, no wake-up lost, no back-off left behind, no assert
  fails but by a report that comes twice, every play reaches the server in the end.
- *journals*: no play lost between a save and a restart, none submitted twice.
- *server*: each client in the table is heard, permissions stay with who got them, a client that
  left is forgotten.
- *player tracking*: a module's timer shows what was heard of its song, and a song counts exactly
  when it was heard long enough.
- *hooks*: a hook sees the state its event found, and nothing of an earlier one.
- *database*: version and tables agree after any crash, a song's four records agree even when its
  tags change, two processes do not wait for each other for ever.
- *commands*: a statement finds just the rows that were meant, and the client understands the
  answer.

## The modules

**ScrobbleDelivery** is the promise of a scrobbler: plays are numbered, the server gets them in
order, in batches of at most `MaxSubmit`, maybe more than once, and a play is forgotten only when
the server has it. Every play is forgotten so in the end.

**ScrobblerSubmit** is one `struct scrobbler`. Its variables are the fields of the struct, the two
GLib sources as the delay they were armed with (0 for none), and the requests under way. Its actions
are the callbacks: `SongChange` and `NowPlaying` from the player, `HandshakeTimer`, `SubmitTimer`,
and the answers and failures `HandshakeOK/Failed`, `SubmitOK/Failed/BadSession`.
`http_client_request` may fail at once, inside the caller: `Post` has both outcomes. When it was
`curl_multi_perform` that failed, the request's error handler is called twice and its assert fails
(`RequestFails`); the history variable `toldTwice` remembers it. A failing `assert` sets `aborted`.
Records are constants: `Songs` have artist and title, `Untitled` only an artist.

**CronLoop** has the loop's three variables, the GLib sources that are really there (`watches`,
`timers`, which need not agree with the ids), the flags MPD has ready and the events still to run
(`todo`), from the lowest bit up as `IdleEvents` orders them. `failed` names the assert that ended
the process; all six of `cron-loop.c` are there, those on `conn` and those before the error branches
of `loop_idle` included. **ModuleList** is the walk: `modules`, the link it stands on, its result
`ret`, and the history `calls` of one event. **Mpdcron** composes them: an event's query fails or
the modules are walked, one handler a step, and `ret` decides between `EventDone` and `EventFailed`.

**ScrobblerJournal** has `Count` scrobblers, each with a queue and a file, and their one
`journal_file_empty`. A save is split where a kill makes a difference: truncation, each record, the
close. `Terminate` may interrupt a save, since a handled signal runs `destroy` at any moment.
`Crash` is what no handler sees. `Start` reads the journals, except any that are there and cannot be
opened: their queues are empty then, and the history variable `unread` has the plays that were in
them.

**CommandTable** is `commands[]` with names as their places in the order of `strcmp`, and
`command_lookup`, the binary search. **StatsServer** is the server over it: the table from ids to
clients, and for each connection its outstanding read, its flush (`running`, or `done` with the
callback still to come) and the flushes GIO refused. Callbacks carry ids only, and an id is the
number of clients at the time, so ids are reused, even of clients still there. GIO's part is taken
from its interface: one operation at a time on a stream, a callback for each, an operation finished
on another stream's result yields nothing.

**PlayerTracker** is what `event_player` of the three modules makes of the player's state: a record
of the static variables and the timer, and the pure operators that say which song has ended, which
has started and whether a play counts. The three differ only in what is a repetition and in what
they do on a stop. **HookEnv** is the environment as the set of names that are set and those among
them set for the event at hand. **PlayerEvents** puts both under MPD's player: `PlaySong`, `Pause`,
`Resume`, `Stop`, `Seek`, `TitleChanges` and `Tick` are MPD's and the clock's, `Disconnect` and
`Reconnect` the connection's, and `Event`, `EventDatabase` and `EventOther` the handlers of
`cron-event.c`. MPD changes first and the event asks for the state later, so that one event may
stand for several changes. `heard` and `spare` are history: what MPD really played since a module
saw a song start, and the seconds of a song that no counted play has used up.

**StatsTables** has the rows of the four tables and what each statement does to one: the inserts and
updates of `db_process`, karma with its bounds, counts, love and kill, ratings and tags. A song is a
uri with the tags MPD gives it at one time: the same file with other tags is another song with the
same uri, and a stream has one artist for `song_check_tags` (`ArtistOf`) and another, or none, as
its tag (`ArtistTagOf`). With the tables goes `heard`, a history of how often each song was counted
under the tags it had then. **StatsCommands** has the handlers of `stats-command.c` as operators on
the tables (`Looking` gives the lines of an answer, `Changing` the tables and the answer), and
eugene's side: the expression it makes of the current song (`Hates` is what becomes of `eugene hate
--genre`), and `Parse`, what it understands of the answer's lines: `Parse_line` takes the entities
read so far (`values`) through one line, and `failed` is a line that none of the loops of
`mpdcron_parse_...` accepts. **StatsDb** is the file and its processes. Its variables are what is in
the file, what a transaction has made of it so far, the SQLite lock each process keeps, and for each
process where it is: opening and testing (`db_init`), creating table by table, checking the version,
migrating column by column, preparing, one `Has` and one `WriteRow` for each table of `db_process`,
`End` and `Vacuum`. Each statement is a step of its own wherever another process may come between; a
statement that is told BUSY waits, as `db_step` does. `Serve...` and `RemoveRow` are mpdcron's
commands, `Send` and `Receive` eugene's ends of them, `Crash` and `Fail` the environment. A
statement that fails may take its transaction with it, as SQLite does on a full disk: a migration
goes on without (`FailBegin`, `FailMigrate`), and so does a walrus (`TransactionLost`). A prepared
statement that failed once is refused the next time too, by its `sqlite3_reset` (`unreset`,
`Refused`). SQLite is taken from its documentation of locks: shared, reserved, pending, and a commit
that waits for readers. Three variables are history, which the code has not: `saved`, the plays that
`db_process` has recorded; `moved`, the tools that have seen an album become another artist's since
they wrote that of their own song; and `history`, what has happened that lets the file disagree with
itself: a song given up half-way (`"torn"`), tables not all made (`"half_made"`), a migration
without its transaction (`"bare"`), a count set by command (`"counted"`). A file may come with rows
that disagree already: `"torn"` is there from the start then.

`MC...` modules give the instances. Definitions named `..._Bug` (and `SeekFrom_NoEnd`,
`SeekFrom_NoFilter`) belong to no model: each is a plausible slip in the definition of that name,
and TLC finds the property it is paired with violated once the slip is in.

## The runs

| run | question | bounds | result, distinct states |
|---|---|---|---|
| `scrobbler_submit` | all properties of a session, and that it implements `ScrobbleDelivery` | 2 songs, 3 plays, batches of 2, up to 3 journal entries | passes, 11,968 |
| `scrobbler_untitled` | do the asserts hold when a song has no title? | as above, one untitled record | violated |
| `mpdcron` | the loop and the walk together | 3 modules, 2 events | passes, 17,680 |
| `mpdcron_assert` | does `g_assert(reconnect_sid == 0)` hold? | same | violated |
| `mpdcron_reconnect` | is a request to reconnect honoured? | same | violated |
| `scrobbler_journal` | saves, kills, signals and restarts | 2 scrobblers, 2 plays | passes, 84,068 |
| `journal_stale` | is a saved journal free of submitted songs? | 1 scrobbler, 1 play | violated |
| `stats_server` | reads, flushes and reused ids | 3 connections, 2 at a time, 2 and 1 lines | passes, 163,197 |
| `stats_unsorted` | does the lookup find each of the 50 commands? | the table of the source | violated |
| `stats_write` | does a write never fail? | 1 client that waits for its answers | violated |
| `trackers` | do timers, plays and the hooks' environment follow MPD's player? | 2 songs and a stream, 5 seconds, thresholds of 2, 2 and 1 seconds | passes, about 821,000 |
| `stats_db` | creation, migration, songs, commands and locks of one file | mpdcron and 2 tools, 3 songs of which two have one uri, 3 initial files, 1 play, 1 start, 1 mishap | passes, 303,079 |

Why the bounds are enough for the interesting cases. A queue of three with batches of two has a
batch that leaves something behind and a song queued while one is under way. Three modules have a
head, a middle and a tail, so that an unload can rewind the walk over a module that was called and
past one that was not; of two events one is heard by all and queried. Two scrobblers are needed for
the shared flag, two plays for a song that is on disk and one that is not; each scrobbler submits
them, or not, by itself. Three connections with two places give an id that a connected client has
(two come, the first leaves, the third gets id 1), an id reused after a client left with its flush
outstanding, and one connection too many. The first peer sends two lines: a password and a command
that needs it. Of the songs of `trackers` one counts, one lacks the tags and one is a stream with
titles; the thresholds 240, 30 and 60 are scaled to 2, 2 and 1, so that in five seconds a song of
two seconds counts after two, is repeated, is interrupted by a pause and by an outage. The other
hooks' events come in the first second only: they touch nothing but the environment, on which
nothing else depends. In `stats_db` two runs of walrus are what it takes to wait for each other, and
walrus and eugene what it takes to have the same row inserted twice. Two of the songs are one file
before and after its artist was corrected, of which a tool may still have the old tags; the third is
a stream whose artist is in its title. All are on albums of the same name, so that an album can be
moved between the song being added and the command about it. The initial files are none, one of
version 10 and one of version 11. Queues, plays and connections are the only unbounded things cut
off, each by the constant that names the bound.

`CHECK_DEADLOCK FALSE` stands where the system may stop: a failed assert ends mpdcron, and so does a
refused authentication; peers of the server stop talking; a tool that is done has ended; and the
player's clock and the plays of a session are bounded. The journals' runs do check it.

### What the runs found

1. *(`mpdcron_assert`)* On a reconnection, `loop_reconnect` runs from its own timer with
   `reconnect_sid` still set; if sending `idle` fails then, `loop_schedule_reconnect`'s
   `g_assert(reconnect_sid == 0)` fails.
2. *(`mpdcron_reconnect`)* `MPDCRON_EVENT_RECONNECT` from a module is overwritten by the result of
   the next one.
3. *(`scrobbler_untitled`)* A song with artist and without title aborts mpdcron by an assert of
   `scrobbler_schedule_submit`.
4. *(`journal_stale`)* `journal_file_empty` is not cleared when records are written, so the journal
   of a drained queue is not rewritten and its songs are submitted again after a restart.
5. *(`stats_unsorted`)* `rate_album`, `rate_artist` and `rate_genre` are out of order in a table
   that "has to be sorted", and cannot be called.
6. *(`stats_write`)* A line can be answered before the last flush was reported; the write fails,
   unlike what the comment says, and the client is dropped.
7. *(`stats_db`)* The statement that takes a tag off an album has a quote too many, so `eugene
   rmtag` fails for every album it finds, though its help says "song/artist/album/genre".
   `TagsGoAsAsked` has albums as its exception.
8. *(`trackers`)* `env_clearenv` unsets a misspelt `MPD_STATUS_RENDOM` and forgets
   `MPD_SONG_DURATION`. `HooksSeeTheirEvent` states that a hook can see an earlier event's value of
   these two names, and of no other.
9. *(`scrobbler_submit`)* When `curl_multi_perform` fails for a new request,
   `http_client_abort_all_requests` reports and frees it, against its comment, and
   `http_client_request` frees and reports it again: the handler's assert fails. `AssertionsHold`
   says that no assert fails but in this case.
10. *(`scrobbler_journal`)* A journal that is there and cannot be opened is taken for an empty one:
    the first save that writes to it truncates songs that were never read. `NoPlayLost`,
    `SavedSurvives` and `SoonOnDisk` hold for all songs but those in `unread`.
11. *(`stats_db`)* `db_check_ver` goes on after a step has failed, also when SQLite has ended the
    transaction or never begun it: the version is then set by itself, and a file of version 11
    without its columns is left, against the comment "If any step fails the DB should remain
    unmodified". `VersionMeansSchema` holds as long as that (`"bare"`) has not happened.
12. *(`stats_db`)* The option `--genre` of `eugene hate` sets the flag of `--album`: the album of
    the current song is hated. `CurrentIsFound` says that no other command is about another kind of
    row than was asked for.

The models also hold what no document speaks of and no property is stated about. eugene frees the
path of the database twice when it cannot open it (`load_current_song`; `InitFails` has both
outcomes). A stream's title is compared by pointer, so a titled stream starts anew at each event
(`NewTitle`). A module's timer runs on while the connection is down, so a song can be counted that
was not heard (`missed`). `rmtag` tries a transaction that its own authorizer refuses, and writes
row by row. A song whose tags are changed keeps one row, which goes on counting, while the plays
before stay with the old artist, album and genre: `CountsAddUp` is about the tags at the time of
each play. After a failed statement the next use of it fails as well, so that one song more is lost
(`Refused`).

Where a passing run shares its model with a finding, the properties it checks hold *in spite of* the
flaw, and one that the flaw would break names it: `toldTwice`, `unread`, `"bare"`, the albums of
`TagsGoAsAsked` and the genres of `CurrentIsFound` are each the whole exception, which is what the
run shows. `OtherAssertsHold` is about the asserts other than the first finding's, and after that
assert, or after a stale flush on a reused id (`process = "crashed"`), the model stops, as the
program does.

### Fairness

- *ScrobblerSubmit*: strong fairness of starting and of succeeding, for the handshake and for a
  submission. The code retries for ever with a back-off, so these are asked infinitely often; that
  one of infinitely many attempts succeeds is an assumption about the network. That a request is
  answered at all is part of it: the client sets no time limit.
- *Mpdcron*: weak fairness of a due watch and of the steps of an event, as the main loop serves what
  is ready and handlers return; strong fairness of a successful reconnection, as MPD is assumed to
  be there again and again.
- *ScrobblerJournal*: weak fairness of the periodic timer and of the steps of a save.
- *StatsDb* (`FairSpec`): weak fairness of the steps of each process that runs and of the steps of a
  `rmtag` under way: a process is scheduled, and a statement that can go on does. Nothing is assumed
  of songs, tools and mishaps. `PlaysEnd` then says that mpdcron gets done with a song, unless two
  runs of walrus wait for each other.
- *PlayerEvents* states no liveness and assumes no fairness: a player may be left alone.
- *StatsServer*: weak fairness, per connection, of a read that has something to report and of the
  steps of a flush. Nothing is assumed of the peers.

## The proofs

**ScrobblerSubmitProofs**, for every `Songs`, `Untitled`, `MaxSubmit`, `MaxPlays` and `MaxJournal`,
from the assumptions of `ScrobblerSubmit` only. The inductive invariant is in two layers. `Safe` is
`TypeOK`, `OneThingUnderWay`, `PendingIsPosted` and `Ordered` (the queue is the last plays, in
order); it holds whatever is announced. `OneThingUnderWay` alone is what makes the step from one
callback to the next possible: a callback's guard is a source or a request, and that it is the only
one says in which state it will find the session. `Ordered` turns "the first `pending` of the queue"
into play numbers, and is what the refinement needs. `Awake` adds `NoLostWakeup`, `IdleIsHealthy`,
`AssertionsHold` and `StillAnnounced` (a notification under way still has a record to clear), and is
inductive only when no record is untitled; the theorems about it say so. That a failure may be
reported twice costs nothing here: the second report ends the process, and `AssertionsHold` is that
nothing else does. `ImplementsDelivery` shows each step a step of `ScrobbleDelivery`, or a stutter;
its fairness is left to TLC.

**MpdcronProofs**, for every set of events and every finite set of modules, whatever they handle.
`LoopInv` is `OneSource` and `OtherAssertsHold` (of the six asserts, five hold) with `SidHasTimer`
(a recorded timer is there; the converse is false, since the first connection can leave a timer
without an id) and `StartsClean`. `ListInv` is `UnloadedStaysOut` and `RerunsBounded` with
`AheadIsOwed` and `NowEnds`: `RerunsBounded` is not inductive, because a rewind lets the walk pass
modules again, so `AheadIsOwed` says of each module still ahead that its calls are fewer than the
unloads allow. `NowMeansNow` follows from `NowEnds`: a walk in which someone asked for an immediate
reconnection has nowhere left to go. The walk's search for the next link needs the least element of
a set of places, `LeastExists`, from the well-foundedness of the naturals. `EveryHandlerOnce` needs
to know what the walk has done so far, not only where it stands: `CallsFollowList` says that an
undisturbed walk has called just the modules it has passed that handle the event, in the order of
the list.

**StatsServerProofs**, for any number of connections and places, any table of commands and any
passwords. `EveryClientIsRead` and `ChangesAreGranted` become inductive with `NewIsNowhere` (a
connection that has not come is in no place of the table and has changed nothing) and
`PermissionsAreOwn` (what a client may do, it was granted itself). The point of interest is that a
late callback may remove, and a new connection may replace, a client under the same id: since a
client in the table has that id, and its read is its own, the one removed is in no other place and
nobody else is left without a read. What `command_lookup` finds does not matter to it, so nothing is
needed of the recursive search.

**PlayerEventsProofs**, for any songs, durations, thresholds and time, from `SongsAssumption`.
`EventsInv` is `PlayerInv`, `TrackerInv`, `HeardInv`, `SpareInv` and `EnvInv`. `TimerIsHeard` is not
inductive because an event that is still to come finds a tracker that is behind; `HeardInv` says
what holds in between: the timer still shows what was heard since the song started, whichever song
MPD has moved on to. `TrackerInv` adds that a timer stands still just after a pause (`Steady`) and
that `prev` and `last_id` are the same song between events, on which `song_ended` relies. `SpareInv`
ties the plays to the seconds: what was heard of the song at hand has not been used up by an earlier
play of it. `PlaysAreCounted`, an action property, follows from these and from `Need`, the least
time after which a song counts.

**ScrobblerJournalProofs**, for any number of scrobblers and plays. `JournalInv` says of a save
under way that the file and the records still to be written make up the queue (`Copy`); that what is
on disk is in the queue, was submitted or is in `unread`, as long as mpdcron runs (`FileIsKept`),
which is why truncating a file loses nothing else by itself; that no other play is lost without a
mishap (`NoneLost`); and that the journals a stopping mpdcron is done with hold their queues
(`Written`). The flag `journal_file_empty` needs no clause: a save is skipped only for an empty
queue, whatever the flag says, which is also why finding 4 loses nothing.

**StatsDbProofs**, for any number of tools, any library, hearings, commands and bounds, from
`DaemonAssumption` (mpdcron is no tool) and `InitialFilesAssumption` (the file is not there, or
whole and of version 10 or 11). `DbInv` is `FileOK`, `OneWriter`, `Leader` and, for each process,
`ProcOK`. The three properties are about different things and need one another. That an upgrade is
whole needs that one process at a time has written (`OneWriter`) and what its transaction has made
of the file so far (`MigrateOK`, `WorkOK`): a second upgrade that started from version 10 finds the
columns there, fails and rolls back. An upgrade that goes on without its transaction is known to
have failed, and to be in the history (`TxOK`); it still adds the columns in their order. That an
unusable file is a mishap needs `Leader`: of the processes that create tables at once, all but one
find the next table there and give up, and the one that is furthest goes on. That only walrus and
walrus deadlock needs that a lock is kept only in a transaction, that only walrus and a migration
have one, and that a migration writes before it reads (`TxOK`), so that it never holds the shared
lock another writer waits for.

**StatsRowsProofs** is about the rows themselves, for any finite set of songs, any artists, albums,
genres and tags, any number of tools and any plays. It assumes what the constants are:
`SongsAssumption` (the songs are finitely many), `LibraryAssumption`, `HearingsAssumption`,
`AsksAssumption` and `SentAssumption` (lists of songs, pairs of numbers, commands of the table with
an argument of its type), `KarmaAssumption` (only songs have it) and `ArtistAssumption` (a song that
has an artist tag has that artist). That every row has its type in every initial file is part of
`InitialFilesAssumption`. `RowsInv` is `DbInv` with three more layers: what each process carries
about (`RunInv`), the type of the rows in the file and in an open transaction, and what eugene has
asked and mpdcron is about (`TalkInv`). One lemma, `AllSteps`, then sorts the steps of `Next` by
what they do to the rows: a step is quiet, and keeps or commits them; or it is one `WriteRow`; or a
command of mpdcron's outside every transaction. The results rest on that split, all but the first
with an invariant of their own on top of `RowsInv`:

- `TypesHold`: types, `karma` between 0 and 100 among them. It needs the process's record, since a
  row is written from it several steps after it was filled in.
- `TagsOnlyGoAsAsked`, an action property. A commit replaces the whole file by what a transaction
  made of it, so `WorkTags` says that an open transaction's rows have the tags of the file: the
  reserved lock keeps `addtag` and `rmtag` out in between. rmtag writes its rows one by one, and
  between two of them anybody may write: `RemovalOf` says that the rows done lack the tag, and that
  what is kept for the others is still what they have, without it.
- `CountsAlwaysAddUp`. `CountsAddUp` is about states in which nobody is in the middle of a song. In
  between, a process has written the song's row and owes the tables the rest (`Debt`). `Balanced`
  says that the rows are there except for debts, and that the counts agree with the songs as they
  were tagged when they were played, when what mpdcron owes (`Due`), the only one that counts, is
  added. `CountInv` keeps two such accounts: of the file, with the debts of those outside
  transactions, and of an open transaction, with everybody's.
- `CurrentIsAlwaysFound`. From when eugene has written a row to when the command is served, the row
  is in the file and in any transaction's copy (`FoundInv`), which is why a commit of walrus cannot
  take it away; the command is of the kind that was asked for, unless a genre was to be hated
  (`KindAsked`); an album keeps its artist unless the tool is in `moved`.
- `AnswersAreAlwaysUnderstood`. An answer that has been given is what `Parse` makes the rows of it
  (`AnswerInv`). It was right for the tables it was made from, by `LookIsUnderstood`, and the rows
  it is compared with were taken in the same step; rmtag's answer comes many steps later and tells
  of the rows found at its start.

**StatsTablesProofs** has the lemmas about the pure operators that these rest on. Play counts are
summed over a set with a fold, and answers are flattened and parsed by recursion, and the library's
induction theorems cannot be used here. Two devices take their place. What is claimed of all numbers
is claimed of the least at which it fails (`FirstOne`, from the well-foundedness of the naturals):
so a sum changes by as much as one of its terms does (`TotalWritten`). And a parser is composed:
`Reads(kind, lines, before, after)` says that the lines take the parser from one list of entities to
another, wherever they stand in an answer, and two such facts make one about the lines put together
(`ReadsBoth`). From one line it goes to the lines about one row (`ListedIsRead`, `InfosAreRead`,
`TagsAreRead`) and to the answer (`LookIsUnderstood`): eugene gets an entity for every row that was
selected, once, with all its values, and tags in the opposite order.

Model-checked only: liveness (`EveryPlayScrobbled`, `ConnectionComesBack`, `ChangeIsRun`,
`SoonOnDisk`, `GoneIsForgotten`, `LinesAreHandled`, `PlaysEnd`), since fairness and ENABLED are out
of the prover's reach. Every safety and action property of a passing run has a theorem. What the
binary search `command_lookup` finds in a table of any length is not proved either; the run
`stats_unsorted` looks up each command of the table there is.

## Abstractions

- *Player*: an event is handled in the second in which it occurs, so what whole seconds do to a
  timer that is a little ahead of MPD is not seen. A queue entry stands for its id; the tags are
  there or not. A stream's "Artist - Title" is taken for its tags.
- *Hooks*: the tags are one name, values are left out, and so are the `MC_CALLS_` counters.
- *Database*: a row's name is the uri, artist, album or genre itself; row ids and times are left
  out, last played is whether, and the copies of a song's tags in its row, which only an expression
  of the user's can read, are not kept. An expression is the set of names it selects. Ratings and
  karma are numbers with the code's bounds.
- *Locks*: the rollback journal of SQLite, not its write-ahead log, as the code sets none.

## Not modelled

- *http client* beyond one scrobbler's requests: its one list, in which a `curl_multi_perform` that
  fails aborts the requests of all scrobblers, its descriptors, and the limit on the size of an
  answer. In `ScrobblerSubmit` these are failures of a request like any other.
- *The lifecycle of the process* under nested signals; `ScrobblerJournal` has the signal that
  interrupts a save once.
- *notification* beyond its tracker: its other handlers keep no state, and finding covers and
  spawning `notify-send` is I/O. (Its mask test `(events | X) == 0` can never be true, so no event
  is ever left out.)
- *Text*: the Audioscrobbler protocol, SQL, the journal's lines, tokenizing, output formats.
- *I/O around the state machines*: option parsing, key files, logging, daemonizing, loading shared
  objects, name resolution. `loop_disconnect` has no caller. The example module is documentation.

## Plan

The modules were written in the order of what they protect: sessions, the loop and the module walk,
journals, the server, player tracking, the database. What would come next:

1. `HttpClient`: the one list of requests of several scrobblers, and the requests that one failure
   aborts with it.
2. The lifecycle under nested signals: `module_close` run again over modules that are closing.
3. A clock of its own for the module's timer, so that whole seconds can be compared wrongly.
