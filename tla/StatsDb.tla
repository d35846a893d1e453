-------------------------------- MODULE StatsDb --------------------------------
(***************************************************************************)
(* The file of the statistics database and the processes that open it: the *)
(* stats module of mpdcron, walrus, which reads MPD's library into it, and *)
(* eugene, which adds the song MPD plays before it sends mpdcron a command *)
(* about it (stats-sqlite.c, stats-module.c, walrus-main.c, eugene-utils.c,*)
(* with the tables of StatsTables and the commands of StatsCommands).      *)
(*                                                                         *)
(* SQLite is modelled by its locks.  A statement outside a transaction is  *)
(* one step, for which no other process may hold a lock that forbids it.   *)
(* In a transaction the first read takes a shared lock, the first write    *)
(* the reserved one, and the end needs the shared locks of all others      *)
(* gone; until then it is pending, which keeps new readers out.  db_step   *)
(* repeats a statement for as long as it is told SQLITE_BUSY.              *)
(***************************************************************************)
EXTENDS StatsCommands

CONSTANTS
    Daemon,         \* mpdcron
    Tools,          \* the runs of walrus and eugene, one process each
    Programs,       \* [Tools -> SUBSET {"walrus", "eugene"}]
    Library,        \* [Tools -> the songs in the order in which MPD lists
                    \*  them to a run of walrus]
    Playing,        \* the songs MPD may play
    Hearings,       \* the pairs of increment and percentage of a play
    Asks,           \* eugene about the current song: its op, kind and arg
    Commands,       \* eugene with an expression: the command it sends
    InitialFiles,
    MaxPlays, MaxStarts, MaxMishaps     \* bounds

ASSUME DaemonAssumption == Daemon \notin Tools /\ None \notin Tools
ASSUME LibraryAssumption == Library \in [Tools -> Seq(Songs)] /\ Playing \subseteq Songs
ASSUME HearingsAssumption == Hearings \subseteq Int \X Int
ASSUME AsksAssumption ==
    \A a \in Asks : a.op \in Ops \ {"list"} /\ a.kind \in Kinds /\ a.arg \in Args(a.op)
ASSUME KarmaAssumption == \A a \in Asks : a.op = "karma" => a.kind = "song"
ASSUME SentAssumption == \A c \in Commands : CommandOK(c)

Procs == Tools \union {Daemon}

Columns == {"last_played", "karma"}     \* those a song has since version 11

NoFile == [version |-> -1, tables |-> {}, columns |-> {}, rows |-> NoTables]

(* The file is not there yet, or was made by an older mpdcron or by this.  *)
ASSUME InitialFilesAssumption ==
    \A f \in InitialFiles :
        \/ f = NoFile
        \/ /\ DOMAIN f = DOMAIN NoFile /\ f.tables = Kinds /\ TablesOK(f.rows)
           /\ \/ f.version = 10 /\ f.columns = {}
              \/ f.version = 11 /\ f.columns = Columns

VARIABLES
    file,       \* what is in the file
    work,       \* what the process with the reserved or pending lock has
                \* made of it so far
    lock,       \* [Procs -> the lock a transaction keeps]
    tx,         \* [Procs -> 1 between BEGIN and END, else 0]
    proc,       \* [Procs -> where each is in its program]
    talk,       \* [Tools -> eugene's connection to mpdcron]
    removing,   \* the rows rmtag still has to write: their new tags
    serving,    \* the tool whose rmtag that is, or None
    plays, starts, mishaps,
    saved,      \* history: the plays db_process was to count and did
    moved,      \* history: the tools that have seen an album get another
                \* artist since they wrote that of their song
    history     \* history: "torn" when a song's rows are not all written,
                \* "half_made" when the tables are not, "bare" when a
                \* migration went on without its transaction, "counted"
                \* when a command changed a play count

vars == <<file, work, lock, tx, proc, talk, removing, serving, plays, starts, mishaps,
          saved, moved, history>>
database == <<file, work, lock, tx>>
serves == <<talk, removing, serving>>
bounds == <<plays, starts, mishaps>>

Idle(pc) == [pc |-> pc, program |-> "none", new |-> 0, found |-> 0, ok |-> 0, song |-> None,
             increment |-> 0, percent |-> -1, at |-> "none", todo |-> <<>>, unreset |-> {}]
NoTalk == [link |-> "none", asked |-> None, command |-> None, answer |-> None, rows |-> <<>>]

Init ==
    /\ file \in InitialFiles /\ work = NoFile
    /\ lock = [p \in Procs |-> "none"] /\ tx = [p \in Procs |-> 0]
    /\ proc = [p \in Procs |-> Idle("off")]
    /\ talk = [q \in Tools |-> NoTalk]
    /\ removing = <<>> /\ serving = None
    /\ plays = 0 /\ starts = 0 /\ mishaps = 0
    /\ saved = PlayCount(file.rows) /\ moved = {}
    /\ history = IF Agree(file.rows) THEN {} ELSE {"torn"}

-----------------------------------------------------------------------------
(* SQLite. *)
Wrote(p) == lock[p] \in {"reserved", "pending"}

Seen(p) == IF Wrote(p) THEN work ELSE file

CanRead(p) == \A q \in Procs \ {p} : lock[q] # "pending"

CanWrite(p) == \A q \in Procs \ {p} :
    lock[q] \in IF tx[p] = 1 THEN {"none", "shared"} ELSE {"none"}

Kept_Bug(p, found) == IF tx[p] = 1 \/ found = 1 THEN "shared" ELSE "none"
(* The lock that is left of a read.  Outside a transaction there is none:  *)
(* the statements are run to their end even when they have found a row.    *)
Kept(p, found) == IF tx[p] = 1 THEN "shared" ELSE "none"

Read(p, found) ==
    /\ CanRead(p)
    /\ lock' = IF lock[p] = "none" THEN [lock EXCEPT ![p] = Kept(p, found)] ELSE lock
    /\ UNCHANGED <<file, work, tx>>

Write(p, content) ==
    /\ CanWrite(p)
    /\ IF tx[p] = 1
       THEN work' = content /\ lock' = [lock EXCEPT ![p] = "reserved"] /\ UNCHANGED file
       ELSE file' = content /\ lock' = [lock EXCEPT ![p] = "none"] /\ UNCHANGED work
    /\ UNCHANGED tx

(* END TRANSACTION: commit, or be told BUSY with the pending lock kept. *)
Commit(p) ==
    /\ Wrote(p) => \A q \in Procs \ {p} : lock[q] = "none"
    /\ file' = Seen(p) /\ work' = IF Wrote(p) THEN NoFile ELSE work
    /\ lock' = [lock EXCEPT ![p] = "none"] /\ tx' = [tx EXCEPT ![p] = 0]

Pend(p) ==
    /\ lock[p] = "reserved"
    /\ \E q \in Procs \ {p} : lock[q] # "none"
    /\ lock' = [lock EXCEPT ![p] = "pending"]
    /\ UNCHANGED <<file, work, tx>>

(* ROLLBACK, db_close, and the death of a process. *)
Rollback(p) ==
    /\ work' = IF Wrote(p) THEN NoFile ELSE work
    /\ lock' = [lock EXCEPT ![p] = "none"] /\ tx' = [tx EXCEPT ![p] = 0]
    /\ UNCHANGED file

-----------------------------------------------------------------------------
(* Processes. *)
Goto(p, pc) == proc' = [proc EXCEPT ![p].pc = pc]
At(p, pc, at) == proc' = [proc EXCEPT ![p].pc = pc, ![p].at = at]

(* stats-module.c, walrus and eugene go on without a database each in its  *)
(* own way.  eugene would send its command still, but has freed the path   *)
(* twice by then, of which the C library may have died.                    *)
InitFails(p) ==
    CASE proc[p].program = "daemon" -> proc' = [proc EXCEPT ![p] = Idle("off")]
      [] proc[p].program = "walrus" -> proc' = [proc EXCEPT ![p] = Idle("done")]
      [] proc[p].program = "eugene" ->
            \/ proc' = [proc EXCEPT ![p].pc = "ask", ![p].ok = 0]
            \/ proc' = [proc EXCEPT ![p] = Idle("done")]

(* db_process has the tables in this order, and skips those for which the  *)
(* song has no tag. *)
NextKind(kind, s) ==
    IF kind = "song" THEN "artist"
    ELSE IF kind = "artist" /\ AlbumOf[s] # None THEN "album"
    ELSE IF kind # "genre" /\ GenreOf[s] # None THEN "genre"
    ELSE "none"

Processing(r) == [r EXCEPT !.pc = "has", !.at = "song"]

NextSong_Bug(r) ==
    LET tagged == {i \in DOMAIN r.todo : ArtistOf[r.todo[i]] # None}
        next == Min(tagged)
    IN  IF tagged = {} THEN [r EXCEPT !.pc = "vacuum", !.song = None, !.at = "none", !.todo = <<>>]
        ELSE Processing([r EXCEPT !.song = r.todo[next], !.todo = SubSeq(@, next + 1, Len(@))])
(* db_process begins with the next song of those to do; a song without the *)
(* required tags is skipped. *)
NextSong(r) ==
    LET tagged == {i \in DOMAIN r.todo : ArtistOf[r.todo[i]] # None}
        next == Min(tagged)
    IN  IF tagged = {} THEN [r EXCEPT !.pc = "end", !.song = None, !.at = "none", !.todo = <<>>]
        ELSE Processing([r EXCEPT !.song = r.todo[next], !.todo = SubSeq(@, next + 1, Len(@))])

Ready(r) == [Idle("ready") EXCEPT !.program = "daemon", !.unreset = r.unreset]

Processed_well(p) ==
    proc' = [proc EXCEPT ![p] =
        CASE @.program = "daemon" -> Ready(@)
          [] @.program = "walrus" -> NextSong(@)
          [] @.program = "eugene" -> [@ EXCEPT !.pc = "ask", !.at = "none", !.ok = 1]]

(* The prepared statement that db_process has come to. *)
Statement(r) ==
    IF r.pc = "has" THEN <<"has", r.at>>
    ELSE IF r.found = 0 THEN <<"insert", r.at>>
    ELSE IF r.at = "song" /\ IsPercentage(r.percent) THEN <<"update_played", r.at>>
    ELSE <<"update", r.at>>

(* Whether a step of it failed the last time: each use of a statement      *)
(* begins with sqlite3_reset, which then returns that error once more.     *)
Unreset(r) == Statement(r) \in r.unreset

(* The song is given up; walrus goes on only with its option -k. *)
NotProcessed(r) ==
    CASE r.program = "daemon" -> Ready(r)
      [] r.program = "walrus" -> NextSong(r)
      [] r.program = "eugene" -> [r EXCEPT !.pc = "ask", !.at = "none"]

Unfinished(p) == IF proc[p].at = "song" THEN {} ELSE {"torn"}

Abandon_Bug(p) == Commit(p)
(* walrus closes the database before it exits: what it wrote is undone. *)
Abandon(p) == Rollback(p)

(* db_process fails; unreset are the statements to be reset then. *)
ProcessFails(p, unreset) ==
    \/ /\ proc' = [proc EXCEPT ![p] = NotProcessed([@ EXCEPT !.unreset = unreset])]
       /\ history' = history \union Unfinished(p)
       /\ UNCHANGED database
    \/ /\ proc[p].program = "walrus"
       /\ proc' = [proc EXCEPT ![p] = Idle("done")]
       /\ history' = IF tx[p] = 1 THEN history ELSE history \union Unfinished(p)
       /\ Abandon(p)

Failing(r) == r.unreset \union {Statement(r)}

(* SQLite may end the transaction of a statement that fails for want of    *)
(* space or memory, or of a disk that works: walrus -k does not notice.    *)
TransactionLost(p) ==
    /\ tx[p] = 1
    /\ proc' = [proc EXCEPT ![p] = NotProcessed([@ EXCEPT !.unreset = Failing(proc[p])])]
    /\ Rollback(p)
    /\ UNCHANGED history

-----------------------------------------------------------------------------
(* db_init: whether the file is there is asked before it is opened. *)
Tested(program) == [Idle("open") EXCEPT !.program = program,
                                        !.new = IF file.version = -1 THEN 1 ELSE 0]

StartDaemon ==
    /\ proc[Daemon].pc = "off" /\ starts < MaxStarts
    /\ starts' = starts + 1
    /\ proc' = [proc EXCEPT ![Daemon] = Tested("daemon")]
    /\ UNCHANGED <<database, serves, plays, mishaps, saved, moved, history>>

StartWalrus(p) ==
    /\ proc[p].pc = "off" /\ "walrus" \in Programs[p]
    /\ proc' = [proc EXCEPT ![p] = Tested("walrus")]
    /\ UNCHANGED <<database, serves, bounds, saved, moved, history>>

Serves == proc[Daemon].pc \in {"ready", "has", "write", "removing"}

(* eugene connects to mpdcron first. *)
Connect(p) ==
    /\ proc[p].pc = "off" /\ "eugene" \in Programs[p] /\ Serves
    /\ talk' = [talk EXCEPT ![p].link = "up"]

StartWithExpression(p) ==
    /\ Connect(p)
    /\ proc' = [proc EXCEPT ![p] = [Idle("ask") EXCEPT !.program = "eugene"]]
    /\ UNCHANGED <<database, removing, serving, bounds, saved, moved, history>>

(* load_current_song; with EUGENE_NODB in the environment the database is  *)
(* left alone. *)
StartWithCurrent(p) ==
    /\ Connect(p)
    /\ \E s \in Playing, nodb \in BOOLEAN :
         proc' = [proc EXCEPT ![p] =
                    IF nodb THEN [Idle("ask") EXCEPT !.program = "eugene", !.song = s]
                    ELSE [Tested("eugene") EXCEPT !.song = s]]
    /\ UNCHANGED <<database, removing, serving, bounds, saved, moved, history>>

Open(p) ==
    /\ proc[p].pc = "open"
    /\ file' = IF file.version = -1 THEN [file EXCEPT !.version = 0] ELSE file
    /\ IF proc[p].new = 1 THEN At(p, "create", "song") ELSE Goto(p, "check")
    /\ UNCHANGED <<work, lock, tx, serves, bounds, saved, moved, history>>

NextTable_Bug(at) == CASE at = "song" -> "artist" [] at = "artist" -> "album"
                       [] at = "album" -> "genre" [] at = "genre" -> "none"
(* The steps of db_create: the tables, and at last the version. *)
NextTable(at) == CASE at = "song" -> "artist" [] at = "artist" -> "album"
                   [] at = "album" -> "genre" [] at = "genre" -> "version"
                   [] at = "version" -> "none"

Create(p) ==
    /\ proc[p].pc = "create" /\ CanWrite(p)
    /\ LET at == proc[p].at
           next == NextTable(at)
       IN  IF at \in file.tables
           THEN InitFails(p) /\ UNCHANGED database
           ELSE /\ Write(p, IF at = "version" THEN [file EXCEPT !.version = 11]
                            ELSE [file EXCEPT !.tables = @ \union {at},
                                     !.columns = IF at = "song" THEN Columns ELSE @])
                /\ IF next = "none" THEN At(p, "prepare", "none") ELSE At(p, "create", next)
    /\ UNCHANGED <<serves, bounds, saved, moved, history>>

(* db_check_ver *)
Check(p) ==
    /\ proc[p].pc = "check" /\ CanRead(p)
    /\ CASE file.version \notin {10, 11} -> InitFails(p) /\ UNCHANGED tx
         [] file.version = 11 -> Goto(p, "prepare") /\ UNCHANGED tx
         [] file.version = 10 ->
              /\ proc' = [proc EXCEPT ![p].pc = "migrate", ![p].at = "last_played", ![p].ok = 1]
              /\ tx' = [tx EXCEPT ![p] = 1]
    /\ UNCHANGED <<file, work, lock, serves, bounds, saved, moved, history>>

(* db_migrate: it fails when another process was faster. *)
Migrate(p) ==
    /\ proc[p].pc = "migrate"
    /\ LET at == proc[p].at
       IN  IF at \in Seen(p).columns
           THEN /\ proc' = [proc EXCEPT ![p].pc = "set_version", ![p].ok = 0]
                /\ UNCHANGED database
           ELSE /\ Write(p, [Seen(p) EXCEPT !.columns = @ \union {at}])
                /\ IF at = "last_played" THEN At(p, "migrate", "karma")
                                         ELSE Goto(p, "set_version")
    /\ UNCHANGED <<serves, bounds, saved, moved, history>>

(* The version is set even after a failure, for what is to be rolled back  *)
(* then: but there may be no transaction any more. *)
SetVersion(p) ==
    /\ proc[p].pc = "set_version"
    /\ Write(p, [Seen(p) EXCEPT !.version = 11])
    /\ At(p, "end_migration", "none")
    /\ UNCHANGED <<serves, bounds, saved, moved, history>>

Success_Bug(p) == TRUE
Success(p) == proc[p].ok = 1

EndMigration(p) ==
    /\ proc[p].pc = "end_migration"
    /\ \/ Success(p) /\ Commit(p) /\ proc' = [proc EXCEPT ![p].pc = "prepare", ![p].ok = 0]
       \/ Success(p) /\ Pend(p) /\ UNCHANGED proc
       \/ ~ Success(p) /\ Rollback(p) /\ InitFails(p)
    /\ UNCHANGED <<serves, bounds, saved, moved, history>>

(* Only walrus begins a transaction. *)
Begins(program) == program = "walrus"

(* The common statements are prepared, which needs the schema to be read,  *)
(* and all that they speak of to be there; and db_init is over. *)
Prepared(p) == CanRead(p) /\ file.tables = Kinds /\ file.columns = Columns

Prepare(p) ==
    /\ proc[p].pc = "prepare"
    /\ IF ~ Prepared(p) THEN InitFails(p) /\ UNCHANGED tx
       ELSE /\ CASE proc[p].program = "daemon" -> Goto(p, "ready")
                 [] proc[p].program = "eugene" ->
                      IF ArtistOf[proc[p].song] = None THEN Goto(p, "ask")
                      ELSE proc' = [proc EXCEPT ![p] = Processing(@)]
                 [] proc[p].program = "walrus" ->
                      proc' = [proc EXCEPT ![p] = NextSong([@ EXCEPT !.todo = Library[p]])]
            /\ tx' = [tx EXCEPT ![p] = IF Begins(proc[p].program) THEN 1 ELSE 0]
    /\ UNCHANGED <<file, work, lock, serves, bounds, saved, moved, history>>

(* The connection to MPD ends before the list does: run_update takes that  *)
(* for the end of the list. *)
CutShort(p) ==
    /\ proc[p].pc = "has" /\ proc[p].at = "song" /\ proc[p].program = "walrus"
    /\ mishaps < MaxMishaps /\ mishaps' = mishaps + 1
    /\ proc' = [proc EXCEPT ![p] = NextSong([@ EXCEPT !.todo = <<>>])]
    /\ UNCHANGED <<database, serves, plays, starts, saved, moved, history>>

-----------------------------------------------------------------------------
(* db_process, one statement at a time. *)
Has(p) ==
    /\ proc[p].pc = "has" /\ ~ Unreset(proc[p])
    /\ LET r == proc[p]
           found == IF NameOf(r.at, r.song) \in DOMAIN Seen(p).rows[r.at] THEN 1 ELSE 0
       IN  /\ Read(p, found)
           /\ proc' = [proc EXCEPT ![p].pc = "write", ![p].found = found]
    /\ UNCHANGED <<serves, bounds, saved, moved, history>>

(* Whether the row of an album becomes that of another artist. *)
Moved(rows, r) ==
    /\ r.at = "album" /\ NameOf(r.at, r.song) \in DOMAIN rows["album"]
    /\ LET old == rows["album"][NameOf(r.at, r.song)]
       IN  Update_entry("album", old, r.song, 0).artist # old.artist

(* An insert fails when the row is there by now: its name is UNIQUE. *)
WriteRow(p) ==
    /\ proc[p].pc = "write" /\ ~ Unreset(proc[p]) /\ CanWrite(p)
    /\ LET r == proc[p]
           rows == Seen(p).rows
           next == NextKind(r.at, r.song)
       IN  IF r.found = 0 /\ NameOf(r.at, r.song) \in DOMAIN rows[r.at]
           THEN ProcessFails(p, Failing(r)) /\ UNCHANGED <<saved, moved>>
           ELSE /\ Write(p, [Seen(p) EXCEPT !.rows =
                               Processed(@, r.at, r.song, r.increment, r.percent)])
                /\ IF next = "none" THEN Processed_well(p)
                   ELSE proc' = [proc EXCEPT ![p].pc = "has", ![p].at = next, ![p].found = 0]
                /\ saved' = IF next = "none" THEN saved + r.increment ELSE saved
                /\ moved' = (IF Moved(rows, r) THEN Tools ELSE moved)
                               \ (IF r.at = "album" THEN {p} ELSE {})
                /\ UNCHANGED history
    /\ UNCHANGED <<serves, bounds>>

(* sqlite3_reset returns the error of the statement's last step. *)
Refused(p) ==
    /\ proc[p].pc \in {"has", "write"} /\ Unreset(proc[p])
    /\ ProcessFails(p, proc[p].unreset \ {Statement(proc[p])})
    /\ UNCHANGED <<serves, bounds, saved, moved>>

(* song_ended of the stats module. *)
Play ==
    /\ proc[Daemon].pc = "ready" /\ plays < MaxPlays
    /\ plays' = plays + 1
    /\ \E s \in Playing, h \in Hearings :
         /\ ArtistOf[s] # None
         /\ proc' = [proc EXCEPT ![Daemon] =
              Processing([@ EXCEPT !.song = s, !.increment = h[1], !.percent = h[2]])]
    /\ UNCHANGED <<database, serves, starts, mishaps, saved, moved, history>>

(* walrus: END, VACUUM and the end. *)
End(p) ==
    /\ proc[p].pc = "end"
    /\ \/ Commit(p) /\ Goto(p, "vacuum")
       \/ Pend(p) /\ UNCHANGED proc
    /\ UNCHANGED <<serves, bounds, saved, moved, history>>

Vacuum(p) ==
    /\ proc[p].pc = "vacuum"
    /\ Write(p, file)
    /\ proc' = [proc EXCEPT ![p] = Idle("done")]
    /\ UNCHANGED <<serves, bounds, saved, moved, history>>

-----------------------------------------------------------------------------
(* eugene and mpdcron. *)
(* The command of its command line, which eugene makes use of only now. *)
CommandLine(s) ==
    IF s = None THEN {[asked |-> c.kind, command |-> c] : c \in Commands}
    ELSE {[asked |-> a.kind, command |-> Run_cmd(a.op, a.kind, a.arg, s)] : a \in Asks}

Send(q) ==
    /\ proc[q].pc = "ask" /\ talk[q].link = "up"
    /\ \E c \in CommandLine(proc[q].song) :
         /\ c.command.where # None \/ proc[q].song = None
         /\ talk' = [talk EXCEPT ![q].asked = c.asked, ![q].command = c.command]
         /\ proc' = [proc EXCEPT ![q] = [Idle("asked") EXCEPT !.program = "eugene",
                                                             !.ok = proc[q].ok]]
    /\ UNCHANGED <<database, removing, serving, bounds, saved, moved, history>>

(* The song has no such tag, or mpdcron has gone. *)
GiveUp(q) ==
    /\ proc[q].pc = "ask"
    /\ \/ talk[q].link = "cut"
       \/ \E c \in CommandLine(proc[q].song) : c.command.where = None /\ proc[q].song # None
    /\ proc' = [proc EXCEPT ![q] = Idle("done")]
    /\ talk' = [talk EXCEPT ![q] = NoTalk]
    /\ UNCHANGED <<database, removing, serving, bounds, saved, moved, history>>

Answered(q, answer, rows) == talk' = [talk EXCEPT ![q].answer = answer, ![q].rows = rows]

(* The rows a command is about, as they are then. *)
About(c) ==
    IF c.where = None THEN <<>>
    ELSE LET table == file.rows[c.kind] IN [n \in Selected(table, c.where) |-> table[n]]

Asked(q) ==
    /\ proc[Daemon].pc = "ready"
    /\ talk[q].command # None /\ talk[q].answer = None

ServeUnknown(q) ==
    /\ Asked(q) /\ ~ Known(talk[q].command)
    /\ Answered(q, ACK, <<>>)
    /\ UNCHANGED <<database, proc, removing, serving, bounds, saved, moved, history>>

ServeLook(q) ==
    /\ Asked(q) /\ IsLook(talk[q].command)
    /\ CanRead(Daemon)
    /\ LET c == talk[q].command IN Answered(q, Looking(file.rows, c), About(c))
    /\ UNCHANGED <<database, proc, removing, serving, bounds, saved, moved, history>>

ServeChange(q) ==
    /\ Asked(q)
    /\ LET c == talk[q].command
           done == Changing(file.rows, c)
       IN  /\ Known(c) /\ ~ IsLook(c) /\ c.op # "rmtag"
           /\ Answered(q, done.answer, About(c))
           /\ IF done.answer = ACK THEN UNCHANGED <<database, history>>
              ELSE /\ Write(Daemon, [file EXCEPT !.rows = done.tables])
                   /\ history' = IF c.op = "count" THEN history \union {"counted"} ELSE history
    /\ UNCHANGED <<proc, removing, serving, bounds, saved, moved>>

(* rmtag reads the rows, and then writes them one by one: the transaction  *)
(* it begins is refused by command_authorizer, which goes unnoticed.       *)
ServeRmtag(q) ==
    /\ Asked(q) /\ talk[q].command.op = "rmtag"
    /\ LET c == talk[q].command
       IN  IF c.where = None \/ c.arg = None
           THEN Answered(q, ACK, About(c)) /\ UNCHANGED <<database, proc, removing, serving>>
           ELSE /\ Read(Daemon, 0)
                /\ removing' = [n \in DOMAIN About(c) |-> Remove_tag(About(c)[n].tags, c.arg)]
                /\ serving' = q
                /\ Goto(Daemon, "removing")
                /\ talk' = [talk EXCEPT ![q].rows = About(c)]
    /\ UNCHANGED <<bounds, saved, moved, history>>

Removed(answer) ==
    /\ Goto(Daemon, "ready")
    /\ removing' = <<>> /\ serving' = None
    /\ talk' = [talk EXCEPT ![serving].answer = answer]

(* The statement that sets the tags of an album has a quote too many, and  *)
(* SQLite does not accept it. *)
Quoted(kind) == kind # "album"

RemoveRow ==
    /\ proc[Daemon].pc = "removing" /\ DOMAIN removing # {}
    /\ LET kind == talk[serving].command.kind
       IN  IF ~ Quoted(kind) THEN Removed(ACK) /\ UNCHANGED database
           ELSE \E n \in DOMAIN removing :
                /\ Write(Daemon, [file EXCEPT !.rows[kind][n] = Set_tags(@, removing[n])])
                /\ removing' = [m \in DOMAIN removing \ {n} |-> removing[m]]
                /\ UNCHANGED <<proc, serving, talk>>
    /\ UNCHANGED <<bounds, saved, moved, history>>

RemovedAll ==
    /\ proc[Daemon].pc = "removing" /\ DOMAIN removing = {}
    /\ Removed(<<Pair("changes", Cardinality(DOMAIN talk[serving].rows)), OK>>)
    /\ UNCHANGED <<database, bounds, saved, moved, history>>

(* eugene has its answer, or finds the connection closed. *)
Receive(q) ==
    /\ proc[q].pc = "asked" /\ (talk[q].answer # None \/ talk[q].link = "cut")
    /\ proc' = [proc EXCEPT ![q] = Idle("done")]
    /\ talk' = [talk EXCEPT ![q] = NoTalk]
    /\ UNCHANGED <<database, removing, serving, bounds, saved, moved, history>>

-----------------------------------------------------------------------------
(* Environment: a process dies.  What it had asked mpdcron may still be    *)
(* done; what it had asked of a dead mpdcron is not.                       *)
Midway(p) == proc[p].pc \in {"has", "write"} /\ proc[p].at # "song"
Creating(p) == proc[p].pc = "create"

Losses(p) ==
    (IF Midway(p) /\ tx[p] = 0 THEN {"torn"} ELSE {})
      \union (IF Creating(p) THEN {"half_made"} ELSE {})

Crash(p) ==
    /\ proc[p].pc \notin {"off", "done"} /\ mishaps < MaxMishaps
    /\ mishaps' = mishaps + 1
    /\ Rollback(p)
    /\ proc' = [proc EXCEPT ![p] = Idle(IF p = Daemon THEN "off" ELSE "done")]
    /\ history' = history \union Losses(p)
    /\ IF p = Daemon
       THEN /\ talk' = [q \in Tools |-> IF talk[q].link = "up" /\ talk[q].answer = None
                                        THEN [NoTalk EXCEPT !.link = "cut"] ELSE talk[q]]
            /\ removing' = <<>> /\ serving' = None
       ELSE UNCHANGED serves
    /\ UNCHANGED <<plays, starts, saved, moved>>

(* Environment: a statement fails, for want of space, or, while the        *)
(* database is opened, because it is locked just then. *)
FailOpening(p) ==
    /\ proc[p].pc \in {"open", "create", "check", "prepare"}
    /\ InitFails(p) /\ history' = history \union Losses(p)
    /\ UNCHANGED database

(* db_check_ver goes on even without its transaction: when BEGIN fails, or *)
(* SQLite has ended the transaction of a statement that failed. *)
FailBegin(p) ==
    /\ proc[p].pc = "check" /\ file.version = 10
    /\ At(p, "migrate", "last_played")
    /\ history' = history \union {"bare"}
    /\ UNCHANGED database

FailMigrate(p) ==
    /\ proc[p].pc = "migrate"
    /\ proc' = [proc EXCEPT ![p].pc = "set_version", ![p].ok = 0]
    /\ \/ UNCHANGED <<database, history>>
       \/ Rollback(p) /\ history' = history \union {"bare"}

FailMigrated(p) ==
    /\ proc[p].pc \in {"set_version", "end_migration"}
    /\ InitFails(p) /\ Rollback(p) /\ UNCHANGED history

FailProcess(p) ==
    /\ proc[p].pc \in {"has", "write"} /\ ~ Unreset(proc[p])
    /\ ProcessFails(p, Failing(proc[p])) \/ TransactionLost(p)

FailEnd(p) ==
    /\ proc[p].pc \in {"end", "vacuum"}
    /\ proc' = [proc EXCEPT ![p] = Idle("done")] /\ Rollback(p) /\ UNCHANGED history

Fail(p) ==
    /\ mishaps < MaxMishaps /\ mishaps' = mishaps + 1
    /\ FailOpening(p) \/ FailBegin(p) \/ FailMigrate(p) \/ FailMigrated(p)
         \/ FailProcess(p) \/ FailEnd(p)
    /\ UNCHANGED <<serves, plays, starts, saved, moved>>

FailRemove ==
    /\ proc[Daemon].pc = "removing" /\ DOMAIN removing # {}
    /\ mishaps < MaxMishaps /\ mishaps' = mishaps + 1
    /\ Removed(ACK)
    /\ UNCHANGED <<database, plays, starts, saved, moved, history>>

-----------------------------------------------------------------------------
Opens(p) == Open(p) \/ Create(p) \/ Check(p) \/ Migrate(p) \/ SetVersion(p)
              \/ EndMigration(p) \/ Prepare(p)

Works(p) == Opens(p) \/ Has(p) \/ WriteRow(p) \/ Refused(p) \/ End(p) \/ Vacuum(p)

Serve(q) == ServeUnknown(q) \/ ServeLook(q) \/ ServeChange(q) \/ ServeRmtag(q)

Next ==
    \/ StartDaemon \/ Play \/ RemoveRow \/ RemovedAll \/ FailRemove
    \/ \E p \in Procs : Works(p) \/ CutShort(p) \/ Crash(p) \/ Fail(p)
    \/ \E q \in Tools : \/ StartWalrus(q) \/ StartWithExpression(q) \/ StartWithCurrent(q)
                        \/ Send(q) \/ GiveUp(q) \/ Serve(q) \/ Receive(q)

Spec == Init /\ [][Next]_vars

(* A process that runs goes on; which songs end, which tools are started   *)
(* and what fails is up to the environment.                                *)
FairSpec == Spec /\ WF_vars(RemoveRow \/ RemovedAll)
                 /\ \A p \in Procs : WF_vars(Works(p))

-----------------------------------------------------------------------------
TypeOK ==
    /\ \A f \in {file, work} :
         /\ f.version \in {-1, 0, 10, 11}
         /\ f.tables \subseteq Kinds /\ f.columns \subseteq Columns
         /\ TablesOK(f.rows)
    /\ lock \in [Procs -> {"none", "shared", "reserved", "pending"}]
    /\ tx \in [Procs -> {0, 1}]
    /\ \A p, q \in Procs : Wrote(p) /\ Wrote(q) => p = q
    /\ serving \in Tools \union {None}
    /\ moved \subseteq Tools /\ history \subseteq {"torn", "half_made", "bare", "counted"}

(* A file of version 11 has all that the statements of version 11 need,    *)
(* and one of version 10 is as it was: an upgrade happens as a whole or    *)
(* not at all, whoever dies, and however many start at once; whatever else *)
(* fails, as long as no migration has lost its transaction ("bare").       *)
VersionMeansSchema ==
    "bare" \notin history =>
        /\ file.version = 11 => file.tables = Kinds /\ file.columns = Columns
        /\ file.version = 10 => file.tables = Kinds /\ file.columns = {}

(* A file that no later start accepts is left behind only by a process     *)
(* that died, or could not write, while it created the tables.             *)
UnusableOnlyAfterMishap ==
    file.version = 0 /\ (\A p \in Procs : ~ Creating(p)) => "half_made" \in history

(* Once nobody is in the middle of a song, each song has its row and those *)
(* of its artist, album and genre, each row was counted as often as the    *)
(* songs of its name were, by the tags that they had then, and every play  *)
(* that was saved is counted once: whatever walrus and eugene do meanwhile.*)
CountsAddUp ==
    history \intersect {"torn", "counted"} = {} /\ (\A p \in Procs : Midway(p) => tx[p] = 1) =>
        PlayCount(file.rows) = saved /\ Agree(file.rows)

(* p waits for a lock of q. *)
WaitsFor(p, q) ==
    \/ /\ proc[p].pc \in {"create", "migrate", "set_version", "write", "vacuum"}
       /\ lock[q] \notin IF tx[p] = 1 THEN {"none", "shared"} ELSE {"none"}
    \/ proc[p].pc \in {"check", "has"} /\ lock[q] = "pending"
    \/ /\ proc[p].pc = "end" \/ (proc[p].pc = "end_migration" /\ Success(p))
       /\ Wrote(p) /\ lock[q] # "none"

(* Two processes never wait for each other, except for two runs of walrus, *)
(* each in its transaction.                                                *)
OnlyWalrusesDeadlock ==
    \A p, q \in Procs : p # q /\ WaitsFor(p, q) /\ WaitsFor(q, p) =>
        proc[p].program = "walrus" /\ proc[q].program = "walrus"

(* A command about the song that eugene has just added finds just the row  *)
(* of the kind that was asked for; only an album that is asked for together*)
(* with its artist can have been given another one meanwhile, and who is   *)
(* to hate a genre hates an album.                                         *)
CurrentIsFound ==
    \A q \in Tools :
        LET c == talk[q].command
        IN  proc[q].ok = 1 /\ talk[q].answer # None /\ Known(c) =>
              /\ \/ c.kind = talk[q].asked
                 \/ c.op = "hate" /\ talk[q].asked = "genre" /\ c.kind = "album"
              /\ \/ Cardinality(DOMAIN talk[q].rows) = 1
                 \/ /\ c.kind = "album" /\ c.op \in {"addtag", "rmtag", "listtags"}
                    /\ q \in moved

(* Whatever mpdcron answers but an error, eugene understands, and as it    *)
(* was meant: no more and no fewer rows, and all their values.             *)
AnswersAreUnderstood ==
    \A q \in Tools :
        LET c == talk[q].command
            rows == talk[q].rows
            got == Parse(c, talk[q].answer)
        IN  talk[q].answer \notin {None, ACK} =>
              IF IsLook(c)
              THEN /\ got.failed = 0 /\ Len(got.values) = Cardinality(DOMAIN rows)
                   /\ ToSet(got.values) = {Learnt(c, n, rows[n]) : n \in DOMAIN rows}
              ELSE got = Cardinality(DOMAIN rows)

(* A row loses a tag only when mpdcron is asked to take that tag from it,  *)
(* in particular not by the commit of who read it before the tag was given.*)
(* When mpdcron answers that the tag was taken from some rows, it is gone  *)
(* from them all; and it does so unless a statement fails, as the one for  *)
(* albums always does.                                                     *)
TagsGoAsAsked ==
    [][/\ \A kind \in Kinds : \A n \in DOMAIN file.rows[kind] :
            \A tag \in ToSet(file.rows[kind][n].tags) \ ToSet(file'.rows[kind][n].tags) :
                /\ serving # None /\ n \in DOMAIN removing
                /\ talk[serving].command.kind = kind /\ talk[serving].command.arg = tag
       /\ \A q \in Tools :
            LET c == talk[q].command
                answer == talk'[q].answer
            IN  c # None /\ c.op = "rmtag" /\ answer # None /\ talk[q].answer = None =>
                  IF answer = ACK
                  THEN None \in {c.where, c.arg} \/ mishaps' > mishaps \/ c.kind = "album"
                  ELSE \A n \in DOMAIN talk'[q].rows :
                          c.arg \notin ToSet(file'.rows[c.kind][n].tags)]_vars

(* However slow the others are, mpdcron gets done with a song that has     *)
(* ended, unless two runs of walrus wait for each other.                   *)
PlaysEnd ==
    proc[Daemon].pc \in {"has", "write"} ~>
        \/ proc[Daemon].pc \in {"ready", "off"}
        \/ \E p, q \in Tools : p # q /\ WaitsFor(p, q) /\ WaitsFor(q, p)

=============================================================================
