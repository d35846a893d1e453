----------------------------- MODULE StatsDbProofs -----------------------------
(***************************************************************************)
(* What holds of the database file and of its locks for any number of      *)
(* tools, any library and any commands, whoever dies and whatever fails.   *)
(***************************************************************************)
EXTENDS StatsDb, TLAPS

Fields == {"pc", "program", "new", "found", "ok", "song", "increment", "percent", "at", "todo",
           "unreset"}
FileFields == {"version", "tables", "columns", "rows"}
Migrating == {"migrate", "set_version", "end_migration"}

(* The tables that are there when db_create comes to a step. *)
Before == [song |-> {}, artist |-> {"song"}, album |-> {"song", "artist"},
           genre |-> {"song", "artist", "album"}, version |-> Kinds]

Shape ==
    /\ lock \in [Procs -> {"none", "shared", "reserved", "pending"}]
    /\ tx \in [Procs -> {0, 1}]
    /\ proc = [p \in Procs |-> proc[p]]
    /\ \A p \in Procs : DOMAIN proc[p] = Fields
    /\ DOMAIN file = FileFields /\ DOMAIN work = FileFields

FileOK ==
    /\ file.version \in {-1, 0, 10, 11}
    /\ file.tables \subseteq Kinds /\ file.columns \subseteq Columns
    /\ file.version = -1 => file.tables = {}
    /\ file.version \in {10, 11} => file.tables = Kinds
    /\ "karma" \in file.columns => "last_played" \in file.columns
    /\ VersionMeansSchema

OneWriter == \A p, q \in Procs : Wrote(p) /\ Wrote(q) => p = q

(* A process that runs is one of the three programs. *)
ProgramOK(p) ==
    proc[p].pc \notin {"off", "done"} => proc[p].program \in {"daemon", "walrus", "eugene"}

(* What is known of the file before it is opened and while it is made. *)
OpenOK(p) ==
    /\ proc[p].pc = "open" => (proc[p].new = 1 \/ file.version # -1)
    /\ proc[p].pc = "create" =>
         /\ file.version # -1
         /\ proc[p].at \in DOMAIN Before /\ Before[proc[p].at] \subseteq file.tables
         /\ proc[p].at # "song" => file.columns = Columns
    /\ proc[p].pc \in {"open", "check"} => proc[p].ok = 0
    /\ proc[p].pc = "prepare" => file.version = 11

(* A lock is kept only in a transaction, and only walrus and a migration   *)
(* have one; a migration reads nothing before it writes.  One that has lost*)
(* its transaction has been remembered. *)
TxOK(p) ==
    /\ lock[p] # "none" => tx[p] = 1
    /\ tx[p] = 1 =>
         \/ proc[p].pc \in Migrating
         \/ proc[p].pc \in {"has", "write", "end"} /\ proc[p].program = "walrus"
              /\ file.version = 11 /\ file.columns = Columns
    /\ proc[p].pc \in Migrating =>
         /\ lock[p] # "shared"
         /\ tx[p] = 0 => "bare" \in history /\ proc[p].ok = 0

MigrateOK(p) ==
    /\ proc[p].pc \in Migrating => file.version \in {10, 11} /\ proc[p].ok \in {0, 1}
    /\ proc[p].pc = "migrate" =>
         /\ proc[p].at \in {"last_played", "karma"}
         /\ tx[p] = 1 => proc[p].ok = 1
         /\ proc[p].at = "last_played" => lock[p] = "none"
         /\ proc[p].at = "karma" =>
              IF tx[p] = 0 THEN "last_played" \in file.columns
              ELSE Wrote(p) /\ file.columns = {} /\ work.columns = {"last_played"}
    /\ proc[p].pc = "set_version" /\ proc[p].ok = 1 =>
         Wrote(p) /\ file.columns = {} /\ work.columns = Columns
    /\ proc[p].pc = "end_migration" =>
         /\ tx[p] = 1 => Wrote(p)
         /\ proc[p].ok = 1 => file.columns = {} /\ work.version = 11 /\ work.columns = Columns

(* What a transaction has made of the file. *)
WorkOK(p) ==
    Wrote(p) =>
      /\ work.tables = file.tables
      /\ file.columns \subseteq work.columns /\ work.columns \subseteq Columns
      /\ proc[p].pc \notin Migrating => work.version = file.version

ProcOK(p) == ProgramOK(p) /\ OpenOK(p) /\ TxOK(p) /\ MigrateOK(p) /\ WorkOK(p)

(* Of the processes that make the tables, one will get done, unless there  *)
(* was a mishap. *)
Leader ==
    file.version = 0 /\ "half_made" \notin history =>
        \E p \in Procs : proc[p].pc = "create" /\ proc[p].at \in DOMAIN Before
                           /\ file.tables = Before[proc[p].at]

DbInv == Shape /\ FileOK /\ OneWriter /\ (\A p \in Procs : ProcOK(p)) /\ Leader

-----------------------------------------------------------------------------
SameSchema(f, g) == f.version = g.version /\ f.tables = g.tables /\ f.columns = g.columns

(* How the file may change under a process that has not written.           *)
Grows(f, g) ==
    /\ f.tables \subseteq g.tables
    /\ f.columns \subseteq g.columns /\ (f.columns = Columns => g.columns = Columns)
    /\ f.version # -1 => g.version # -1
    /\ f.version = 10 => g.version \in {10, 11}
    /\ f.version = 11 => g.version = 11

LEMMA OthersKeep ==
    ASSUME DbInv, NEW q \in Procs,
           proc'[q] = proc[q], lock'[q] = lock[q], tx'[q] = tx[q],
           Grows(file, file'), history \subseteq history',
           Wrote(q) => SameSchema(file', file) /\ SameSchema(work', work)
    PROVE  ProcOK(q)'
<1> USE DEF DbInv
<1>1. ProcOK(q) /\ (Wrote(q)' <=> Wrote(q))
  BY DEF Wrote
<1>2. ProgramOK(q)'
  BY <1>1 DEF ProcOK, ProgramOK
<1>3. OpenOK(q)'
  BY <1>1 DEF ProcOK, OpenOK, Grows
<1>4. TxOK(q)'
  BY <1>1 DEF ProcOK, TxOK, Grows
<1>5. MigrateOK(q)'
  <2>1. MigrateOK(q) /\ tx[q] \in {0, 1} /\ (tx[q] = 0 => lock[q] = "none")
        /\ (proc[q].pc \in Migrating /\ proc[q].ok = 1 => tx[q] = 1)
    BY <1>1 DEF ProcOK, TxOK, Shape
  <2>2. CASE Wrote(q)
    BY <1>1, <2>1, <2>2 DEF MigrateOK, SameSchema
  <2>3. CASE ~ Wrote(q)
    BY <1>1, <2>1, <2>3 DEF MigrateOK, Grows, Migrating
  <2> QED
    BY <2>2, <2>3
<1>6. WorkOK(q)'
  BY <1>1 DEF ProcOK, WorkOK, SameSchema
<1> QED
  BY <1>2, <1>3, <1>4, <1>5, <1>6 DEF ProcOK

(* A step of one process keeps the invariant if it keeps its own part.     *)
LEMMA StepOK ==
    ASSUME DbInv, NEW p \in Procs, Shape', FileOK', Leader', ProcOK(p)',
           \A q \in Procs \ {p} : proc'[q] = proc[q] /\ lock'[q] = lock[q] /\ tx'[q] = tx[q],
           Grows(file, file'), history \subseteq history',
           (\E q \in Procs \ {p} : Wrote(q)) =>
               SameSchema(file', file) /\ SameSchema(work', work) /\ ~ Wrote(p)'
    PROVE  DbInv'
<1>1. \A q \in Procs : ProcOK(q)'
  <2> SUFFICES ASSUME NEW q \in Procs, q # p PROVE ProcOK(q)'
    OBVIOUS
  <2> QED
    BY OthersKeep
<1>2. \A q \in Procs \ {p} : Wrote(q)' <=> Wrote(q)
  BY DEF Wrote
<1>3. OneWriter'
  BY <1>2 DEF DbInv, OneWriter
<1> QED
  BY <1>1, <1>3 DEF DbInv

LEMMA SameGrows == ASSUME NEW f, NEW g, SameSchema(g, f) PROVE Grows(f, g)
BY DEF SameSchema, Grows

(* The same where the tables stay as they are. *)
LEMMA SameOK ==
    ASSUME DbInv, NEW p \in Procs, Shape', ProcOK(p)',
           \A q \in Procs \ {p} : proc'[q] = proc[q] /\ lock'[q] = lock[q] /\ tx'[q] = tx[q],
           SameSchema(file', file),
           (\E q \in Procs \ {p} : Wrote(q)) => SameSchema(work', work) /\ ~ Wrote(p)',
           proc[p].pc = "create" => "half_made" \in history' \/ proc[p].at \in file.tables,
           history \subseteq history'
    PROVE  DbInv'
<1>1. FileOK'
  BY DEF DbInv, FileOK, SameSchema, VersionMeansSchema
<1>2. Leader'
  <2> SUFFICES ASSUME file.version = 0, "half_made" \notin history'
               PROVE  \E q \in Procs : proc'[q].pc = "create" /\ proc'[q].at \in DOMAIN Before
                                         /\ file'.tables = Before[proc'[q].at]
    BY DEF Leader, SameSchema
  <2>1. PICK q \in Procs : proc[q].pc = "create" /\ proc[q].at \in DOMAIN Before
                             /\ file.tables = Before[proc[q].at]
    BY DEF DbInv, Leader
  <2>2. proc[q].at \notin Before[proc[q].at]
    BY <2>1 DEF Before, Kinds
  <2>3. q # p
    BY <2>1, <2>2
  <2> QED
    BY <2>1, <2>3 DEF SameSchema
<1>3. Grows(file, file')
  BY SameGrows
<1> QED
  BY <1>1, <1>2, <1>3, StepOK

(* The same where the database is left alone.                              *)
LEMMA QuietOK ==
    ASSUME DbInv, NEW p \in Procs, NEW r, proc' = [proc EXCEPT ![p] = r], DOMAIN r = Fields,
           ProcOK(p)', UNCHANGED database,
           proc[p].pc = "create" => "half_made" \in history' \/ proc[p].at \in file.tables,
           history \subseteq history'
    PROVE  DbInv'
<1>1. /\ \A q \in Procs \ {p} : proc'[q] = proc[q] /\ lock'[q] = lock[q] /\ tx'[q] = tx[q]
      /\ file' = file /\ work' = work /\ lock' = lock /\ tx' = tx
      /\ proc'[p] = r
  BY DEF database, DbInv, Shape
<1>2. Shape'
  BY <1>1 DEF DbInv, Shape
<1>3. SameSchema(file', file) /\ SameSchema(work', work)
  BY <1>1 DEF SameSchema
<1>4. (\E q \in Procs \ {p} : Wrote(q)) => ~ Wrote(p)'
  BY <1>1 DEF DbInv, OneWriter, Wrote
<1> QED
  BY <1>1, <1>2, <1>3, <1>4, SameOK

-----------------------------------------------------------------------------
(* Processes that do nothing with the database. *)
LEMMA NoTx ==
    ASSUME DbInv, NEW p \in Procs, proc[p].pc \notin Migrating \union {"has", "write", "end"}
    PROVE  tx[p] = 0 /\ lock[p] = "none" /\ ~ Wrote(p)
<1>1. tx[p] \in {0, 1} /\ TxOK(p)
  BY DEF DbInv, Shape, ProcOK
<1> QED
  BY <1>1 DEF TxOK, Wrote

LEMMA RestOK ==
    ASSUME NEW p \in Procs, tx'[p] = 0, lock'[p] = "none",
           proc'[p].pc \notin Migrating \union {"open", "create", "prepare", "check"},
           proc'[p].pc \notin {"off", "done"} => proc'[p].program \in {"daemon", "walrus", "eugene"}
    PROVE  ProcOK(p)'
<1>1. ProgramOK(p)' /\ OpenOK(p)'
  BY DEF ProgramOK, OpenOK
<1>2. TxOK(p)' /\ MigrateOK(p)' /\ WorkOK(p)'
  BY DEF TxOK, MigrateOK, WorkOK, Wrote, Migrating
<1> QED
  BY <1>1, <1>2 DEF ProcOK

LEMMA IdleIs ==
    ASSUME NEW pc
    PROVE  DOMAIN Idle(pc) = Fields /\ Idle(pc).pc = pc /\ Idle(pc).ok = 0
BY DEF Idle, Fields

LEMMA InitFailsIs ==
    ASSUME DbInv, NEW p \in Procs, InitFails(p), proc[p].pc \notin {"off", "done"}
    PROVE  \E r : /\ proc' = [proc EXCEPT ![p] = r] /\ DOMAIN r = Fields
                  /\ r.pc \in {"off", "done", "ask"}
                  /\ r.pc = "ask" => r.program = "eugene"
<1>1. DOMAIN proc[p] = Fields /\ proc[p].program \in {"daemon", "walrus", "eugene"}
  BY DEF DbInv, Shape, ProcOK, ProgramOK
<1>2. \/ proc' = [proc EXCEPT ![p] = Idle("off")]
      \/ proc' = [proc EXCEPT ![p] = Idle("done")]
      \/ /\ proc' = [proc EXCEPT ![p] = [proc[p] EXCEPT !.pc = "ask", !.ok = 0]]
         /\ proc[p].program = "eugene"
  BY <1>1 DEF InitFails, DbInv, Shape
<1>3. CASE /\ proc' = [proc EXCEPT ![p] = [proc[p] EXCEPT !.pc = "ask", !.ok = 0]]
           /\ proc[p].program = "eugene"
  <2> DEFINE r == [proc[p] EXCEPT !.pc = "ask", !.ok = 0]
  <2>1. DOMAIN r = Fields /\ r.pc = "ask" /\ r.program = "eugene"
    BY <1>1, <1>3 DEF Fields
  <2> QED
    BY <1>3, <2>1
<1>4. CASE proc' = [proc EXCEPT ![p] = Idle("off")]
  BY <1>4, IdleIs
<1>5. CASE proc' = [proc EXCEPT ![p] = Idle("done")]
  BY <1>5, IdleIs
<1> QED
  BY <1>2, <1>3, <1>4, <1>5

LEMMA NextSongIs ==
    ASSUME NEW r, DOMAIN r = Fields
    PROVE  /\ DOMAIN NextSong(r) = Fields /\ NextSong(r).program = r.program
           /\ NextSong(r).pc \in {"has", "end"}
<1> DEFINE tagged == {i \in DOMAIN r.todo : ArtistOf[r.todo[i]] # None}
           song == r.todo[Min(tagged)]
           todo == SubSeq(r.todo, Min(tagged) + 1, Len(r.todo))
           e == [r EXCEPT !.pc = "end", !.song = None, !.at = "none", !.todo = <<>>]
           h == [[r EXCEPT !.song = song, !.todo = todo] EXCEPT !.pc = "has", !.at = "song"]
<1>1. NextSong(r) = IF tagged = {} THEN e ELSE h
  BY DEF NextSong, Processing
<1> HIDE DEF tagged, song, todo
<1>2. DOMAIN e = Fields /\ e.program = r.program /\ e.pc = "end"
  BY DEF Fields
<1>3. DOMAIN h = Fields /\ h.program = r.program /\ h.pc = "has"
  BY DEF Fields
<1> QED
  BY <1>1, <1>2, <1>3

(* A process begins, ends, or talks. *)
LEMMA RestStepOK ==
    ASSUME DbInv, NEW p \in Procs, NEW r, proc' = [proc EXCEPT ![p] = r], DOMAIN r = Fields,
           UNCHANGED <<database, history>>,
           proc[p].pc \notin Migrating \union {"has", "write", "end", "create"},
           r.pc \notin Migrating \union {"open", "create", "prepare", "check"},
           r.pc \notin {"off", "done"} => r.program \in {"daemon", "walrus", "eugene"}
    PROVE  DbInv'
<1>1. tx'[p] = 0 /\ lock'[p] = "none"
  BY NoTx DEF database
<1>2. proc'[p] = r
  BY DEF DbInv, Shape
<1>3. ProcOK(p)'
  BY <1>1, <1>2, RestOK
<1> QED
  BY <1>3, QuietOK

LEMMA TestedOK ==
    ASSUME DbInv, NEW p \in Procs, NEW r, proc' = [proc EXCEPT ![p] = r], DOMAIN r = Fields,
           UNCHANGED <<database, history>>,
           proc[p].pc = "off", r.pc = "open", r.ok = 0, r.program \in {"daemon", "walrus", "eugene"},
           r.new = IF file.version = -1 THEN 1 ELSE 0
    PROVE  DbInv'
<1>1. tx'[p] = 0 /\ lock'[p] = "none" /\ file' = file
  BY NoTx DEF database, Migrating
<1>2. proc'[p] = r
  BY DEF DbInv, Shape
<1>3. ProgramOK(p)' /\ OpenOK(p)'
  BY <1>1, <1>2 DEF ProgramOK, OpenOK
<1>4. TxOK(p)' /\ MigrateOK(p)' /\ WorkOK(p)'
  BY <1>1, <1>2 DEF TxOK, MigrateOK, WorkOK, Wrote, Migrating
<1>5. ProcOK(p)'
  BY <1>3, <1>4 DEF ProcOK
<1> QED
  BY <1>5, QuietOK

LEMMA TestedIs ==
    ASSUME NEW program
    PROVE  /\ DOMAIN Tested(program) = Fields /\ Tested(program).pc = "open"
           /\ Tested(program).program = program /\ Tested(program).ok = 0
           /\ Tested(program).new = IF file.version = -1 THEN 1 ELSE 0
BY DEF Tested, Idle, Fields

LEMMA StartDaemonOK == ASSUME DbInv, StartDaemon PROVE DbInv'
<1>1. /\ Daemon \in Procs /\ proc[Daemon].pc = "off"
      /\ proc' = [proc EXCEPT ![Daemon] = Tested("daemon")]
      /\ UNCHANGED <<database, history>>
  BY DEF StartDaemon, Procs
<1> QED
  BY <1>1, TestedIs, TestedOK

LEMMA StartToolOK ==
    ASSUME DbInv, NEW p \in Tools, StartWalrus(p) \/ StartWithExpression(p) \/ StartWithCurrent(p)
    PROVE  DbInv'
<1>1. p \in Procs /\ proc[p].pc = "off" /\ UNCHANGED <<database, history>>
  BY DEF Procs, StartWalrus, StartWithExpression, StartWithCurrent, Connect
<1>2. CASE StartWalrus(p)
  BY <1>1, <1>2, TestedIs, TestedOK DEF StartWalrus
<1>3. CASE StartWithExpression(p)
  <2> DEFINE r == [Idle("ask") EXCEPT !.program = "eugene"]
  <2>1. DOMAIN r = Fields /\ r.pc = "ask" /\ r.program = "eugene"
    BY DEF Idle, Fields
  <2>2. proc' = [proc EXCEPT ![p] = r]
    BY <1>3 DEF StartWithExpression
  <2> HIDE DEF r
  <2> QED
    BY <1>1, <2>1, <2>2, RestStepOK DEF Migrating
<1>4. CASE StartWithCurrent(p)
  <2>1. PICK s \in Playing, nodb \in BOOLEAN :
          proc' = [proc EXCEPT ![p] =
                     IF nodb THEN [Idle("ask") EXCEPT !.program = "eugene", !.song = s]
                     ELSE [Tested("eugene") EXCEPT !.song = s]]
    BY <1>4 DEF StartWithCurrent
  <2> DEFINE r == [Idle("ask") EXCEPT !.program = "eugene", !.song = s]
             o == [Tested("eugene") EXCEPT !.song = s]
  <2>2. DOMAIN r = Fields /\ r.pc = "ask" /\ r.program = "eugene"
    BY DEF Idle, Fields
  <2>3. DOMAIN o = Fields /\ o.pc = "open" /\ o.program = "eugene" /\ o.ok = 0
        /\ o.new = IF file.version = -1 THEN 1 ELSE 0
    BY TestedIs DEF Fields
  <2>4. proc' = [proc EXCEPT ![p] = r] \/ proc' = [proc EXCEPT ![p] = o]
    BY <2>1
  <2> HIDE DEF r, o
  <2>5. CASE proc' = [proc EXCEPT ![p] = r]
    BY <1>1, <2>2, <2>5, RestStepOK DEF Migrating
  <2>6. CASE proc' = [proc EXCEPT ![p] = o]
    BY <1>1, <2>3, <2>6, TestedOK
  <2> QED
    BY <2>4, <2>5, <2>6
<1> QED
  BY <1>2, <1>3, <1>4

LEMMA AnsweringOK ==
    ASSUME DbInv, NEW q \in Tools, Send(q) \/ GiveUp(q) \/ Receive(q)
    PROVE  DbInv'
<1>1. q \in Procs /\ proc[q].pc \in {"ask", "asked"} /\ UNCHANGED <<database, history>>
  BY DEF Procs, Send, GiveUp, Receive
<1>2. CASE Send(q)
  <2> DEFINE r == [Idle("asked") EXCEPT !.program = "eugene", !.ok = proc[q].ok]
  <2>1. DOMAIN r = Fields /\ r.pc = "asked" /\ r.program = "eugene"
    BY DEF Idle, Fields
  <2>2. proc' = [proc EXCEPT ![q] = r]
    BY <1>2 DEF Send
  <2> HIDE DEF r
  <2> QED
    BY <1>1, <2>1, <2>2, RestStepOK DEF Migrating
<1>3. CASE GiveUp(q) \/ Receive(q)
  BY <1>1, <1>3, IdleIs, RestStepOK DEF Migrating, GiveUp, Receive
<1> QED
  BY <1>2, <1>3

LEMMA PlayOK == ASSUME DbInv, Play PROVE DbInv'
<1>1. /\ Daemon \in Procs /\ proc[Daemon].pc = "ready" /\ UNCHANGED <<database, history>>
      /\ DOMAIN proc[Daemon] = Fields /\ proc[Daemon].program \in {"daemon", "walrus", "eugene"}
  BY DEF Play, Procs, DbInv, Shape, ProcOK, ProgramOK
<1>2. PICK s \in Playing, h \in Hearings :
        proc' = [proc EXCEPT ![Daemon] =
              Processing([proc[Daemon] EXCEPT !.song = s, !.increment = h[1], !.percent = h[2]])]
  BY DEF Play
<1> DEFINE r == Processing([proc[Daemon] EXCEPT !.song = s, !.increment = h[1], !.percent = h[2]])
<1>3. DOMAIN r = Fields /\ r.pc = "has" /\ r.program = proc[Daemon].program
  BY <1>1 DEF Processing, Fields
<1> HIDE DEF r
<1>4. proc' = [proc EXCEPT ![Daemon] = r]
  BY <1>2 DEF r
<1> QED
  BY <1>1, <1>3, <1>4, RestStepOK DEF Migrating

-----------------------------------------------------------------------------
(* The file is opened, made and checked. *)
LEMMA WriterIsLate ==
    ASSUME DbInv, NEW q \in Procs, tx[q] = 1
    PROVE  file.version \in {10, 11}
BY DEF DbInv, ProcOK, TxOK, MigrateOK

LEMMA AtIs ==
    ASSUME DbInv, NEW p \in Procs, NEW pc, NEW at, At(p, pc, at)
    PROVE  \E r : /\ proc' = [proc EXCEPT ![p] = r] /\ DOMAIN r = Fields
                  /\ r.pc = pc /\ r.at = at /\ r.program = proc[p].program
                  /\ r.ok = proc[p].ok /\ r.new = proc[p].new
<1> DEFINE r == [proc[p] EXCEPT !.pc = pc, !.at = at]
<1>1. DOMAIN proc[p] = Fields
  BY DEF DbInv, Shape
<1>2. DOMAIN r = Fields /\ r.pc = pc /\ r.at = at /\ r.program = proc[p].program
      /\ r.ok = proc[p].ok /\ r.new = proc[p].new
  BY <1>1 DEF Fields
<1>3. proc' = [proc EXCEPT ![p] = r]
  BY DEF At
<1> QED
  BY <1>2, <1>3

LEMMA GotoIs ==
    ASSUME DbInv, NEW p \in Procs, NEW pc, Goto(p, pc)
    PROVE  \E r : /\ proc' = [proc EXCEPT ![p] = r] /\ DOMAIN r = Fields
                  /\ r.pc = pc /\ r.at = proc[p].at /\ r.program = proc[p].program
                  /\ r.ok = proc[p].ok /\ r.new = proc[p].new
<1> DEFINE r == [proc[p] EXCEPT !.pc = pc]
<1>1. DOMAIN proc[p] = Fields
  BY DEF DbInv, Shape
<1>2. DOMAIN r = Fields /\ r.pc = pc /\ r.at = proc[p].at /\ r.program = proc[p].program
      /\ r.ok = proc[p].ok /\ r.new = proc[p].new
  BY <1>1 DEF Fields
<1>3. proc' = [proc EXCEPT ![p] = r]
  BY DEF Goto
<1> QED
  BY <1>2, <1>3

(* A process comes to create or check the tables. *)
LEMMA OpenedIs ==
    ASSUME NEW p \in Procs, tx'[p] = 0, lock'[p] = "none", file'.version # -1,
           \/ proc'[p].pc = "check" /\ proc'[p].ok = 0
           \/ proc'[p].pc = "create" /\ proc'[p].at = "song",
           proc'[p].program \in {"daemon", "walrus", "eugene"}
    PROVE  ProcOK(p)'
<1>1. ProgramOK(p)'
  BY DEF ProgramOK
<1>2. OpenOK(p)'
  BY DEF OpenOK, Before
<1>3. TxOK(p)' /\ MigrateOK(p)' /\ WorkOK(p)'
  BY DEF TxOK, MigrateOK, WorkOK, Wrote, Migrating
<1> QED
  BY <1>1, <1>2, <1>3 DEF ProcOK

LEMMA OpenStepOK == ASSUME DbInv, NEW p \in Procs, Open(p) PROVE DbInv'
<1>1. /\ proc[p].pc = "open" /\ UNCHANGED <<work, lock, tx, history>>
      /\ file' = IF file.version = -1 THEN [file EXCEPT !.version = 0] ELSE file
  BY DEF Open
<1>2. tx'[p] = 0 /\ lock'[p] = "none" /\ ~ Wrote(p) /\ ~ Wrote(p)'
  BY <1>1, NoTx DEF Migrating, Wrote
<1>3. /\ proc[p].new = 1 \/ file.version # -1
      /\ proc[p].program \in {"daemon", "walrus", "eugene"} /\ proc[p].ok = 0
  BY <1>1 DEF DbInv, ProcOK, OpenOK, ProgramOK
<1>4. PICK r : /\ proc' = [proc EXCEPT ![p] = r] /\ DOMAIN r = Fields
               /\ r.program = proc[p].program /\ r.ok = 0
               /\ \/ r.pc = "create" /\ r.at = "song"
                  \/ r.pc = "check" /\ file.version # -1
  <2>1. CASE proc[p].new = 1
    BY <1>3, <2>1, AtIs DEF Open
  <2>2. CASE proc[p].new # 1
    BY <1>3, <2>2, GotoIs DEF Open
  <2> QED
    BY <2>1, <2>2
<1>5. proc'[p] = r /\ \A q \in Procs \ {p} : proc'[q] = proc[q]
  BY <1>4 DEF DbInv, Shape
<1>6. DOMAIN file = FileFields
  BY DEF DbInv, Shape
<1>7. file'.version # -1 /\ file'.tables = file.tables /\ file'.columns = file.columns
      /\ DOMAIN file' = FileFields
  BY <1>1, <1>6 DEF FileFields
<1>8. ProcOK(p)'
  BY <1>2, <1>3, <1>4, <1>5, <1>7, OpenedIs
<1>9. CASE file.version = -1
  <2>1. file'.version = 0 /\ file.tables = {}
    BY <1>1, <1>6, <1>9 DEF DbInv, FileOK, FileFields
  <2>2. Shape'
    BY <1>1, <1>4, <1>5, <1>7 DEF DbInv, Shape
  <2>3. FileOK'
    BY <1>7, <2>1 DEF DbInv, FileOK, VersionMeansSchema
  <2>4. Leader'
    <3>1. proc'[p].pc = "create" /\ proc'[p].at = "song"
      BY <1>4, <1>5, <1>9
    <3>2. file'.tables = Before["song"] /\ "song" \in DOMAIN Before
      BY <1>7, <2>1 DEF Before
    <3> QED
      BY <3>1, <3>2 DEF Leader
  <2>5. Grows(file, file')
    BY <1>7, <1>9 DEF Grows
  <2>6. \A q \in Procs : ~ Wrote(q)
    <3> SUFFICES ASSUME NEW q \in Procs, Wrote(q) PROVE FALSE
      OBVIOUS
    <3>1. tx[q] = 1
      BY DEF DbInv, ProcOK, TxOK, Wrote
    <3> QED
      BY <1>9, <3>1, WriterIsLate
  <2> QED
    BY <1>1, <1>5, <1>8, <2>2, <2>3, <2>4, <2>5, <2>6, StepOK
<1>10. CASE file.version # -1
  <2>1. UNCHANGED database
    BY <1>1, <1>10 DEF database
  <2> QED
    BY <1>1, <1>4, <1>8, <2>1, QuietOK
<1> QED
  BY <1>9, <1>10

(* A process goes on without the database. *)
LEMMA InitFailsOK ==
    ASSUME DbInv, NEW p \in Procs, proc[p].pc \in {"open", "create", "check", "prepare"},
           InitFails(p), UNCHANGED database,
           proc[p].pc = "create" => "half_made" \in history' \/ proc[p].at \in file.tables,
           history \subseteq history'
    PROVE  DbInv'
<1>1. PICK r : /\ proc' = [proc EXCEPT ![p] = r] /\ DOMAIN r = Fields
               /\ r.pc \in {"off", "done", "ask"}
               /\ r.pc = "ask" => r.program = "eugene"
  BY InitFailsIs
<1>2. proc'[p] = r
  BY <1>1 DEF DbInv, Shape
<1>3. tx'[p] = 0 /\ lock'[p] = "none"
  BY NoTx DEF database, Migrating
<1>4. ProcOK(p)'
  BY <1>1, <1>2, <1>3, RestOK DEF Migrating
<1> QED
  BY <1>1, <1>4, QuietOK

(* The order of the steps of db_create. *)
LEMMA StepsAreInOrder ==
    ASSUME NEW a \in DOMAIN Before, NEW b \in DOMAIN Before,
           Before[a] \subseteq Before[b], a \notin Before[b]
    PROVE  a = b
<1>1. DOMAIN Before = {"song", "artist", "album", "genre", "version"}
  BY DEF Before
<1>2. /\ Before["song"] = {} /\ Before["artist"] = {"song"} /\ Before["album"] = {"song", "artist"}
      /\ Before["genre"] = {"song", "artist", "album"}
      /\ Before["version"] = {"song", "artist", "album", "genre"}
  BY DEF Before, Kinds
<1>3. CASE a = "song"
  BY <1>1, <1>2, <1>3
<1>4. CASE a = "artist"
  BY <1>1, <1>2, <1>4
<1>5. CASE a = "album"
  BY <1>1, <1>2, <1>5
<1>6. CASE a = "genre"
  BY <1>1, <1>2, <1>6
<1>7. CASE a = "version"
  BY <1>1, <1>2, <1>7
<1> QED
  BY <1>1, <1>3, <1>4, <1>5, <1>6, <1>7

LEMMA NextTableIs ==
    ASSUME NEW a \in DOMAIN Before
    PROVE  \/ a = "version" /\ NextTable(a) = "none" /\ Before[a] = Kinds
           \/ /\ a # "version" /\ a \in Kinds /\ NextTable(a) \in DOMAIN Before
              /\ NextTable(a) \notin {"none", "song"}
              /\ Before[NextTable(a)] = Before[a] \union {a}
<1>1. DOMAIN Before = {"song", "artist", "album", "genre", "version"}
  BY DEF Before
<1>2. /\ Before["song"] = {} /\ Before["artist"] = {"song"} /\ Before["album"] = {"song", "artist"}
      /\ Before["genre"] = {"song", "artist", "album"}
      /\ Before["version"] = {"song", "artist", "album", "genre"}
  BY DEF Before, Kinds
<1>3. CASE a = "song"
  BY <1>1, <1>2, <1>3 DEF NextTable, Kinds
<1>4. CASE a = "artist"
  BY <1>1, <1>2, <1>4 DEF NextTable, Kinds
<1>5. CASE a = "album"
  BY <1>1, <1>2, <1>5 DEF NextTable, Kinds
<1>6. CASE a = "genre"
  BY <1>1, <1>2, <1>6 DEF NextTable, Kinds
<1>7. CASE a = "version"
  BY <1>1, <1>2, <1>7 DEF NextTable, Kinds
<1> QED
  BY <1>1, <1>3, <1>4, <1>5, <1>6, <1>7

-----------------------------------------------------------------------------
(* Writing, alone or in a transaction. *)
LEMMA WriteAlone ==
    ASSUME DbInv, NEW p \in Procs, NEW c, tx[p] = 0, Write(p, c)
    PROVE  /\ file' = c /\ work' = work /\ tx' = tx
           /\ lock' \in [Procs -> {"none", "shared", "reserved", "pending"}]
           /\ \A q \in Procs : lock'[q] = "none" /\ lock[q] = "none" /\ ~ Wrote(q) /\ ~ Wrote(q)'
<1>1. lock[p] = "none"
  BY DEF DbInv, ProcOK, TxOK
<1>2. \A q \in Procs \ {p} : lock[q] = "none"
  BY DEF Write, CanWrite
<1>3. file' = c /\ work' = work /\ tx' = tx /\ lock' = [lock EXCEPT ![p] = "none"]
  BY DEF Write
<1>4. lock \in [Procs -> {"none", "shared", "reserved", "pending"}]
  BY DEF DbInv, Shape
<1> QED
  BY <1>1, <1>2, <1>3, <1>4 DEF Wrote

LEMMA WriteInside ==
    ASSUME DbInv, NEW p \in Procs, NEW c, tx[p] = 1, Write(p, c)
    PROVE  /\ work' = c /\ file' = file /\ tx' = tx
           /\ lock' \in [Procs -> {"none", "shared", "reserved", "pending"}]
           /\ Wrote(p)'
           /\ \A q \in Procs \ {p} : lock'[q] = lock[q] /\ ~ Wrote(q)
<1>1. \A q \in Procs \ {p} : lock[q] \in {"none", "shared"}
  BY DEF Write, CanWrite
<1>2. work' = c /\ file' = file /\ tx' = tx /\ lock' = [lock EXCEPT ![p] = "reserved"]
  BY DEF Write
<1>3. lock \in [Procs -> {"none", "shared", "reserved", "pending"}]
  BY DEF DbInv, Shape
<1> QED
  BY <1>1, <1>2, <1>3 DEF Wrote

LEMMA CreateStepOK == ASSUME DbInv, NEW p \in Procs, Create(p) PROVE DbInv'
<1> DEFINE at == proc[p].at
           c == IF at = "version" THEN [file EXCEPT !.version = 11]
                ELSE [file EXCEPT !.tables = @ \union {at},
                                  !.columns = IF at = "song" THEN Columns ELSE @]
<1>1. /\ proc[p].pc = "create" /\ UNCHANGED history
      /\ at \in DOMAIN Before /\ Before[at] \subseteq file.tables /\ file.version # -1
      /\ at # "song" => file.columns = Columns
      /\ proc[p].program \in {"daemon", "walrus", "eugene"}
  BY DEF Create, DbInv, ProcOK, OpenOK, ProgramOK
<1>2. tx[p] = 0 /\ lock[p] = "none" /\ ~ Wrote(p)
  BY <1>1, NoTx DEF Migrating
<1>3. CASE at \in file.tables
  <2>1. InitFails(p) /\ UNCHANGED database
    BY <1>3 DEF Create
  <2> QED
    BY <1>1, <1>3, <2>1, InitFailsOK
<1>4. CASE at \notin file.tables
  <2>1. Write(p, c)
    BY <1>4 DEF Create
  <2>2. /\ file' = c /\ work' = work /\ tx' = tx
        /\ lock' \in [Procs -> {"none", "shared", "reserved", "pending"}]
        /\ \A q \in Procs : lock'[q] = "none" /\ lock[q] = "none" /\ ~ Wrote(q) /\ ~ Wrote(q)'
    BY <1>2, <2>1, WriteAlone
  <2>3. DOMAIN file = FileFields /\ file.tables \subseteq Kinds /\ file.columns \subseteq Columns
        /\ file.version \in {0, 10, 11}
        /\ (file.version \in {10, 11} => file.tables = Kinds)
    BY <1>1 DEF DbInv, Shape, FileOK
  <2>4. PICK r : /\ proc' = [proc EXCEPT ![p] = r] /\ DOMAIN r = Fields
                 /\ r.program = proc[p].program
                 /\ IF at = "version" THEN r.pc = "prepare"
                                      ELSE r.pc = "create" /\ r.at = NextTable(at)
    <3>1. CASE at = "version"
      <4>1. At(p, "prepare", "none")
        BY <1>1, <1>4, <3>1, NextTableIs DEF Create
      <4> QED
        BY <3>1, <4>1, AtIs
    <3>2. CASE at # "version"
      <4>1. At(p, "create", NextTable(at))
        BY <1>1, <1>4, <3>2, NextTableIs DEF Create
      <4> QED
        BY <3>2, <4>1, AtIs
    <3> QED
      BY <3>1, <3>2
  <2>5. proc'[p] = r /\ \A q \in Procs \ {p} : proc'[q] = proc[q]
    BY <2>4 DEF DbInv, Shape
  <2>6. Shape'
    BY <2>2, <2>3, <2>4, <2>5 DEF DbInv, Shape, FileFields
  <2>7. CASE at = "version"
    <3>1. file'.version = 11 /\ file'.tables = Kinds /\ file'.columns = Columns
      <4>1. file.tables = Kinds /\ file.columns = Columns
        BY <1>1, <2>3, <2>7, NextTableIs
      <4>2. file' = [file EXCEPT !.version = 11]
        BY <2>2, <2>7
      <4> QED
        BY <2>3, <4>1, <4>2 DEF FileFields
    <3>2. FileOK' /\ Leader' /\ Grows(file, file')
      BY <2>3, <3>1 DEF FileOK, VersionMeansSchema, Leader, Grows, Columns
    <3>3. ProgramOK(p)' /\ OpenOK(p)'
      BY <1>1, <2>4, <2>5, <2>7, <3>1 DEF ProgramOK, OpenOK
    <3>4. TxOK(p)' /\ MigrateOK(p)' /\ WorkOK(p)'
      BY <1>2, <2>2, <2>4, <2>5, <2>7 DEF TxOK, MigrateOK, WorkOK, Migrating
    <3>5. ProcOK(p)'
      BY <3>3, <3>4 DEF ProcOK
    <3> QED
      BY <1>1, <2>2, <2>5, <2>6, <3>2, <3>5, StepOK
  <2>8. CASE at # "version"
    <3>1. file'.version = file.version /\ file'.tables = file.tables \union {at}
          /\ file'.columns = Columns
      BY <1>1, <2>2, <2>3, <2>8 DEF FileFields
    <3>2. /\ at \in Kinds /\ NextTable(at) \in DOMAIN Before /\ NextTable(at) \notin {"none", "song"}
          /\ Before[NextTable(at)] = Before[at] \union {at}
      BY <1>1, <2>8, NextTableIs
    <3>3. file.version = 0
      BY <1>4, <2>3, <3>2
    <3>4. FileOK'
      BY <2>3, <3>1, <3>2, <3>3 DEF FileOK, VersionMeansSchema, Columns
    <3>9. Grows(file, file')
      BY <2>3, <3>1, <3>3 DEF Grows
    <3>5. Leader'
      <4> SUFFICES ASSUME "half_made" \notin history
                   PROVE  file'.tables = Before[NextTable(at)]
        BY <1>1, <2>4, <2>5, <2>8, <3>2 DEF Leader
      <4>1. PICK q \in Procs : proc[q].pc = "create" /\ proc[q].at \in DOMAIN Before
                                 /\ file.tables = Before[proc[q].at]
        BY <3>3 DEF DbInv, Leader
      <4>2. at = proc[q].at
        BY <1>1, <1>4, <4>1, StepsAreInOrder
      <4> QED
        BY <3>1, <3>2, <4>1, <4>2
    <3>6. ProgramOK(p)' /\ OpenOK(p)'
      BY <1>1, <2>4, <2>5, <2>8, <3>1, <3>2 DEF ProgramOK, OpenOK
    <3>7. TxOK(p)' /\ MigrateOK(p)' /\ WorkOK(p)'
      BY <1>2, <2>2, <2>4, <2>5, <2>8 DEF TxOK, MigrateOK, WorkOK, Migrating
    <3>8. ProcOK(p)'
      BY <3>6, <3>7 DEF ProcOK
    <3> QED
      BY <1>1, <2>2, <2>5, <2>6, <3>4, <3>5, <3>8, <3>9, StepOK
  <2> QED
    BY <2>7, <2>8
<1> QED
  BY <1>3, <1>4

LEMMA CheckStepOK == ASSUME DbInv, NEW p \in Procs, Check(p) PROVE DbInv'
<1>1. /\ proc[p].pc = "check" /\ UNCHANGED <<file, work, lock, history>>
      /\ proc[p].program \in {"daemon", "walrus", "eugene"} /\ DOMAIN proc[p] = Fields
  BY DEF Check, DbInv, Shape, ProcOK, ProgramOK
<1>2. tx[p] = 0 /\ lock[p] = "none" /\ ~ Wrote(p)
  BY <1>1, NoTx DEF Migrating
<1>3. CASE file.version \notin {10, 11}
  <2>1. InitFails(p) /\ UNCHANGED database
    BY <1>1, <1>3 DEF Check, database
  <2> QED
    BY <1>1, <2>1, InitFailsOK
<1>4. CASE file.version = 11
  <2>1. Goto(p, "prepare") /\ UNCHANGED database
    BY <1>1, <1>4 DEF Check, database
  <2>2. PICK r : proc' = [proc EXCEPT ![p] = r] /\ DOMAIN r = Fields /\ r.pc = "prepare"
                   /\ r.program = proc[p].program
    BY <2>1, GotoIs
  <2>3. proc'[p] = r
    BY <2>2 DEF DbInv, Shape
  <2>4. ProgramOK(p)' /\ OpenOK(p)'
    BY <1>1, <1>4, <2>2, <2>3 DEF ProgramOK, OpenOK
  <2>5. TxOK(p)' /\ MigrateOK(p)' /\ WorkOK(p)'
    BY <1>2, <2>1, <2>2, <2>3 DEF TxOK, MigrateOK, WorkOK, Wrote, Migrating, database
  <2>6. ProcOK(p)'
    BY <2>4, <2>5 DEF ProcOK
  <2> QED
    BY <1>1, <2>1, <2>2, <2>6, QuietOK
<1>5. CASE file.version = 10
  <2> DEFINE r == [proc[p] EXCEPT !.pc = "migrate", !.at = "last_played", !.ok = 1]
  <2>1. proc' = [proc EXCEPT ![p] = r] /\ tx' = [tx EXCEPT ![p] = 1]
    <3>1. /\ proc' = [proc EXCEPT ![p].pc = "migrate", ![p].at = "last_played", ![p].ok = 1]
          /\ tx' = [tx EXCEPT ![p] = 1]
      BY <1>5 DEF Check
    <3>2. [proc EXCEPT ![p].pc = "migrate", ![p].at = "last_played", ![p].ok = 1]
            = [proc EXCEPT ![p] = r]
      BY DEF DbInv, Shape
    <3> QED
      BY <3>1, <3>2
  <2>2. DOMAIN r = Fields /\ r.pc = "migrate" /\ r.at = "last_played" /\ r.ok = 1
        /\ r.program = proc[p].program
    BY <1>1 DEF Fields
  <2> HIDE DEF r
  <2>3. proc'[p] = r /\ \A q \in Procs \ {p} : proc'[q] = proc[q]
    BY <2>1 DEF DbInv, Shape
  <2>4. tx'[p] = 1 /\ tx' \in [Procs -> {0, 1}] /\ \A q \in Procs \ {p} : tx'[q] = tx[q]
    BY <2>1 DEF DbInv, Shape
  <2>5. Shape'
    BY <1>1, <2>1, <2>2, <2>3, <2>4 DEF DbInv, Shape
  <2>6. ProgramOK(p)' /\ OpenOK(p)'
    BY <1>1, <2>2, <2>3 DEF ProgramOK, OpenOK
  <2>7. TxOK(p)' /\ MigrateOK(p)' /\ WorkOK(p)'
    BY <1>1, <1>2, <1>5, <2>2, <2>3, <2>4 DEF TxOK, MigrateOK, WorkOK, Wrote, Migrating
  <2>8. ProcOK(p)'
    BY <2>6, <2>7 DEF ProcOK
  <2>9. SameSchema(file', file) /\ SameSchema(work', work) /\ ~ Wrote(p)'
    BY <1>1, <1>2 DEF SameSchema, Wrote
  <2> QED
    BY <1>1, <2>3, <2>4, <2>5, <2>8, <2>9, SameOK
<1> QED
  BY <1>3, <1>4, <1>5

-----------------------------------------------------------------------------
(* Transactions. *)
LEMMA InsideOK ==
    ASSUME DbInv, NEW p \in Procs, NEW c, tx[p] = 1, Write(p, c), DOMAIN c = FileFields,
           NEW r, proc' = [proc EXCEPT ![p] = r], DOMAIN r = Fields, ProcOK(p)',
           history \subseteq history'
    PROVE  DbInv'
<1>1. /\ work' = c /\ file' = file /\ tx' = tx
      /\ lock' \in [Procs -> {"none", "shared", "reserved", "pending"}]
      /\ \A q \in Procs \ {p} : lock'[q] = lock[q] /\ ~ Wrote(q)
  BY WriteInside
<1>2. proc'[p] = r /\ \A q \in Procs \ {p} : proc'[q] = proc[q]
  BY DEF DbInv, Shape
<1>3. Shape'
  BY <1>1, <1>2 DEF DbInv, Shape
<1>4. proc[p].pc # "create"
  BY DEF DbInv, ProcOK, TxOK, Migrating
<1>5. SameSchema(file', file)
  BY <1>1 DEF SameSchema
<1> QED
  BY <1>1, <1>2, <1>3, <1>4, <1>5, SameOK

LEMMA RolledBackOK ==
    ASSUME DbInv, NEW p \in Procs, Rollback(p),
           NEW r, proc' = [proc EXCEPT ![p] = r], DOMAIN r = Fields, ProcOK(p)',
           proc[p].pc = "create" => "half_made" \in history',
           history \subseteq history'
    PROVE  DbInv'
<1>1. /\ file' = file /\ work' = IF Wrote(p) THEN NoFile ELSE work
      /\ lock' = [lock EXCEPT ![p] = "none"] /\ tx' = [tx EXCEPT ![p] = 0]
  BY DEF Rollback
<1>2. /\ proc'[p] = r /\ lock'[p] = "none" /\ tx'[p] = 0
      /\ \A q \in Procs \ {p} : proc'[q] = proc[q] /\ lock'[q] = lock[q] /\ tx'[q] = tx[q]
      /\ lock' \in [Procs -> {"none", "shared", "reserved", "pending"}]
      /\ tx' \in [Procs -> {0, 1}]
  BY <1>1 DEF DbInv, Shape
<1>3. DOMAIN work' = FileFields
  BY <1>1 DEF DbInv, Shape, NoFile, FileFields
<1>4. Shape'
  BY <1>1, <1>2, <1>3 DEF DbInv, Shape
<1>5. (\E q \in Procs \ {p} : Wrote(q)) => SameSchema(work', work)
  BY <1>1 DEF DbInv, OneWriter, SameSchema
<1>6. SameSchema(file', file) /\ ~ Wrote(p)'
  BY <1>1, <1>2 DEF SameSchema, Wrote
<1> QED
  BY <1>2, <1>4, <1>5, <1>6, SameOK

LEMMA RollbackOK ==
    ASSUME DbInv, NEW p \in Procs, Rollback(p),
           NEW r, proc' = [proc EXCEPT ![p] = r], DOMAIN r = Fields,
           r.pc \notin Migrating \union {"open", "create", "prepare", "check"},
           r.pc \notin {"off", "done"} => r.program \in {"daemon", "walrus", "eugene"},
           proc[p].pc = "create" => "half_made" \in history',
           history \subseteq history'
    PROVE  DbInv'
<1>1. proc'[p] = r /\ lock'[p] = "none" /\ tx'[p] = 0
  BY DEF DbInv, Shape, Rollback
<1>2. ProcOK(p)'
  BY <1>1, RestOK
<1> QED
  BY <1>2, RolledBackOK

LEMMA CommitOK ==
    ASSUME DbInv, NEW p \in Procs, tx[p] = 1, Commit(p),
           Seen(p).version = 11, Seen(p).tables = Kinds, Seen(p).columns = Columns,
           NEW r, proc' = [proc EXCEPT ![p] = r], DOMAIN r = Fields,
           r.pc \in {"prepare", "vacuum"}, r.program \in {"daemon", "walrus", "eugene"},
           history' = history
    PROVE  DbInv'
<1>1. /\ file' = Seen(p) /\ work' = IF Wrote(p) THEN NoFile ELSE work
      /\ lock' = [lock EXCEPT ![p] = "none"] /\ tx' = [tx EXCEPT ![p] = 0]
      /\ Wrote(p) => \A q \in Procs \ {p} : ~ Wrote(q)
  BY DEF Commit, Wrote
<1>2. /\ proc'[p] = r /\ lock'[p] = "none" /\ tx'[p] = 0
      /\ \A q \in Procs \ {p} : proc'[q] = proc[q] /\ lock'[q] = lock[q] /\ tx'[q] = tx[q]
      /\ lock' \in [Procs -> {"none", "shared", "reserved", "pending"}]
      /\ tx' \in [Procs -> {0, 1}]
  BY <1>1 DEF DbInv, Shape
<1>3. DOMAIN work' = FileFields /\ DOMAIN file' = FileFields
  BY <1>1 DEF DbInv, Shape, NoFile, FileFields, Seen
<1>4. Shape'
  BY <1>2, <1>3 DEF DbInv, Shape
<1>5. FileOK' /\ Leader' /\ Grows(file, file')
  BY <1>1 DEF DbInv, FileOK, VersionMeansSchema, Leader, Grows, Columns
<1>6. ProgramOK(p)' /\ OpenOK(p)'
  BY <1>1, <1>2 DEF ProgramOK, OpenOK
<1>7. TxOK(p)' /\ MigrateOK(p)' /\ WorkOK(p)'
  BY <1>2 DEF TxOK, MigrateOK, WorkOK, Wrote, Migrating
<1>8. ProcOK(p)'
  BY <1>6, <1>7 DEF ProcOK
<1>9. ASSUME NEW q \in Procs \ {p}, Wrote(q)
      PROVE  SameSchema(file', file) /\ SameSchema(work', work) /\ ~ Wrote(p)'
  <2>1. ~ Wrote(p)
    BY <1>1, <1>9
  <2>2. file' = file /\ work' = work
    BY <1>1, <2>1 DEF Seen
  <2> QED
    BY <1>2, <2>2 DEF SameSchema, Wrote
<1> QED
  BY <1>2, <1>4, <1>5, <1>8, <1>9, StepOK

LEMMA PendOK ==
    ASSUME DbInv, NEW p \in Procs, Pend(p), UNCHANGED <<proc, history>>
    PROVE  DbInv'
<1>1. lock[p] = "reserved" /\ lock' = [lock EXCEPT ![p] = "pending"]
      /\ UNCHANGED <<file, work, tx>>
  BY DEF Pend
<1>2. /\ lock'[p] = "pending" /\ \A q \in Procs \ {p} : lock'[q] = lock[q]
      /\ lock' \in [Procs -> {"none", "shared", "reserved", "pending"}]
  BY <1>1 DEF DbInv, Shape
<1>3. Shape'
  BY <1>1, <1>2 DEF DbInv, Shape
<1>4. \A q \in Procs : Wrote(q)' <=> Wrote(q)
  BY <1>1, <1>2 DEF Wrote
<1>5. OneWriter'
  BY <1>4 DEF DbInv, OneWriter
<1>6. \A q \in Procs : /\ (lock'[q] = "none") <=> (lock[q] = "none")
                      /\ (lock'[q] = "shared") <=> (lock[q] = "shared")
  BY <1>1, <1>2
<1>7. ASSUME NEW q \in Procs PROVE ProcOK(q)'
  <2>1. ProcOK(q)
    BY DEF DbInv
  <2>2. ProgramOK(q)' /\ OpenOK(q)'
    BY <1>1, <2>1 DEF ProcOK, ProgramOK, OpenOK
  <2>3. TxOK(q)' /\ MigrateOK(q)' /\ WorkOK(q)'
    BY <1>1, <1>4, <1>6, <2>1 DEF ProcOK, TxOK, MigrateOK, WorkOK
  <2> QED
    BY <2>2, <2>3 DEF ProcOK
<1>8. FileOK' /\ Leader'
  BY <1>1 DEF DbInv, FileOK, VersionMeansSchema, Leader
<1> QED
  BY <1>3, <1>5, <1>7, <1>8 DEF DbInv

-----------------------------------------------------------------------------
(* A migration. *)
SetOk(p, pc, ok) == proc' = [proc EXCEPT ![p].pc = pc, ![p].ok = ok]

LEMMA SetOkIs ==
    ASSUME DbInv, NEW p \in Procs, NEW pc, NEW ok, SetOk(p, pc, ok)
    PROVE  \E r : /\ proc' = [proc EXCEPT ![p] = r] /\ DOMAIN r = Fields
                  /\ r.pc = pc /\ r.ok = ok /\ r.program = proc[p].program /\ r.at = proc[p].at
<1> DEFINE r == [proc[p] EXCEPT !.pc = pc, !.ok = ok]
<1>1. DOMAIN proc[p] = Fields
  BY DEF DbInv, Shape
<1>2. DOMAIN r = Fields /\ r.pc = pc /\ r.ok = ok /\ r.program = proc[p].program
      /\ r.at = proc[p].at
  BY <1>1 DEF Fields
<1>3. proc' = [proc EXCEPT ![p] = r]
  BY DEF DbInv, Shape, SetOk
<1> QED
  BY <1>2, <1>3

LEMMA SeenIs ==
    ASSUME DbInv, NEW p \in Procs
    PROVE  /\ DOMAIN Seen(p) = FileFields
           /\ Seen(p).tables = file.tables
           /\ file.columns \subseteq Seen(p).columns /\ Seen(p).columns \subseteq Columns
<1>1. CASE Wrote(p)
  BY <1>1 DEF Seen, DbInv, Shape, ProcOK, WorkOK
<1>2. CASE ~ Wrote(p)
  BY <1>2 DEF Seen, DbInv, Shape, FileOK
<1> QED
  BY <1>1, <1>2

LEMMA MigrationFailsOK ==
    ASSUME DbInv, NEW p \in Procs, proc[p].pc = "migrate", UNCHANGED <<database, history>>,
           SetOk(p, "set_version", 0)
    PROVE  DbInv'
<1>1. PICK r : /\ proc' = [proc EXCEPT ![p] = r] /\ DOMAIN r = Fields
               /\ r.pc = "set_version" /\ r.ok = 0 /\ r.program = proc[p].program
  BY SetOkIs
<1>2. proc'[p] = r
  BY <1>1 DEF DbInv, Shape
<1>3. ProcOK(p)
  BY DEF DbInv
<1>4. UNCHANGED <<file, work, lock, tx, history>>
  BY DEF database
<1>5. ProgramOK(p)' /\ OpenOK(p)'
  BY <1>1, <1>2, <1>3 DEF ProcOK, ProgramOK, OpenOK
<1>6. TxOK(p)' /\ MigrateOK(p)' /\ WorkOK(p)'
  BY <1>1, <1>2, <1>3, <1>4 DEF ProcOK, TxOK, MigrateOK, WorkOK, Wrote, Migrating
<1>7. ProcOK(p)'
  BY <1>5, <1>6 DEF ProcOK
<1> QED
  BY <1>1, <1>7, QuietOK

(* A migration that has lost its transaction. *)
LEMMA BareOK ==
    ASSUME NEW p \in Procs, tx'[p] = 0, lock'[p] = "none", "bare" \in history',
           proc'[p].pc \in Migrating, proc'[p].ok = 0,
           proc'[p].program \in {"daemon", "walrus", "eugene"},
           file'.version \in {10, 11},
           proc'[p].pc = "migrate" =>
               \/ proc'[p].at = "last_played"
               \/ proc'[p].at = "karma" /\ "last_played" \in file'.columns
    PROVE  ProcOK(p)'
<1>1. ProgramOK(p)' /\ OpenOK(p)'
  BY DEF ProgramOK, OpenOK, Migrating
<1>2. TxOK(p)' /\ MigrateOK(p)' /\ WorkOK(p)'
  BY DEF TxOK, MigrateOK, WorkOK, Wrote
<1> QED
  BY <1>1, <1>2 DEF ProcOK

LEMMA MigrationLostOK ==
    ASSUME DbInv, NEW p \in Procs, proc[p].pc = "migrate", Rollback(p),
           history' = history \union {"bare"}, SetOk(p, "set_version", 0)
    PROVE  DbInv'
<1>1. PICK r : /\ proc' = [proc EXCEPT ![p] = r] /\ DOMAIN r = Fields
               /\ r.pc = "set_version" /\ r.ok = 0 /\ r.program = proc[p].program
  BY SetOkIs
<1>2. proc'[p] = r /\ tx'[p] = 0 /\ lock'[p] = "none" /\ file' = file
  BY <1>1 DEF DbInv, Shape, Rollback
<1>3. file.version \in {10, 11} /\ proc[p].program \in {"daemon", "walrus", "eugene"}
  BY DEF DbInv, ProcOK, ProgramOK, MigrateOK, Migrating
<1>4. ProcOK(p)'
  BY <1>1, <1>2, <1>3, BareOK DEF Migrating
<1> QED
  BY <1>1, <1>4, RolledBackOK

LEMMA BareWriteOK ==
    ASSUME DbInv, NEW p \in Procs, tx[p] = 0, proc[p].pc \in Migrating,
           NEW c, Write(p, c), DOMAIN c = FileFields, c.tables = file.tables,
           file.columns \subseteq c.columns, c.columns \subseteq Columns,
           "karma" \in c.columns => "last_played" \in c.columns,
           c.version \in {file.version, 11},
           NEW r, proc' = [proc EXCEPT ![p] = r], DOMAIN r = Fields,
           r.pc \in Migrating, r.ok = proc[p].ok, r.program = proc[p].program,
           r.pc = "migrate" =>
               \/ r.at = "last_played"
               \/ r.at = "karma" /\ "last_played" \in c.columns,
           history' = history
    PROVE  DbInv'
<1>1. /\ file' = c /\ work' = work /\ tx' = tx
      /\ lock' \in [Procs -> {"none", "shared", "reserved", "pending"}]
      /\ \A q \in Procs : lock'[q] = "none" /\ lock[q] = "none" /\ ~ Wrote(q) /\ ~ Wrote(q)'
  BY WriteAlone
<1>2. proc'[p] = r /\ \A q \in Procs \ {p} : proc'[q] = proc[q]
  BY DEF DbInv, Shape
<1>3. Shape'
  BY <1>1, <1>2 DEF DbInv, Shape
<1>4. /\ file.version \in {10, 11} /\ proc[p].program \in {"daemon", "walrus", "eugene"}
      /\ "bare" \in history /\ proc[p].ok = 0 /\ file.tables = Kinds
  BY DEF DbInv, FileOK, ProcOK, ProgramOK, TxOK, MigrateOK, Migrating
<1>5. ProcOK(p)'
  BY <1>1, <1>2, <1>4, BareOK
<1>6. FileOK' /\ Leader'
  BY <1>1, <1>4 DEF FileOK, VersionMeansSchema, Leader
<1>7. Grows(file, file')
  BY <1>1, <1>4 DEF Grows, Columns
<1> QED
  BY <1>1, <1>2, <1>3, <1>5, <1>6, <1>7, StepOK

LEMMA MigrateStepOK == ASSUME DbInv, NEW p \in Procs, Migrate(p) PROVE DbInv'
<1> DEFINE at == proc[p].at
           c == [Seen(p) EXCEPT !.columns = @ \union {at}]
<1>1. proc[p].pc = "migrate" /\ history' = history /\ ProcOK(p)
  BY DEF Migrate, DbInv
<1>2. /\ at \in {"last_played", "karma"} /\ tx[p] \in {0, 1}
      /\ file.version \in {10, 11} /\ proc[p].program \in {"daemon", "walrus", "eugene"}
      /\ tx[p] = 1 => proc[p].ok = 1
      /\ at = "karma" => IF tx[p] = 0 THEN "last_played" \in file.columns
                         ELSE Wrote(p) /\ file.columns = {} /\ work.columns = {"last_played"}
      /\ at = "last_played" => lock[p] = "none"
      /\ tx[p] = 0 => lock[p] = "none"
  BY <1>1 DEF DbInv, Shape, ProcOK, ProgramOK, TxOK, MigrateOK, Migrating
<1>3. CASE at \in Seen(p).columns
  <2>1. SetOk(p, "set_version", 0) /\ UNCHANGED database
    BY <1>3 DEF Migrate, SetOk
  <2> QED
    BY <1>1, <2>1, MigrationFailsOK
<1>4. CASE at \notin Seen(p).columns
  <2>1. /\ Write(p, c)
        /\ IF at = "last_played" THEN At(p, "migrate", "karma") ELSE Goto(p, "set_version")
    BY <1>4 DEF Migrate
  <2>2. /\ DOMAIN Seen(p) = FileFields /\ Seen(p).tables = file.tables
        /\ file.columns \subseteq Seen(p).columns /\ Seen(p).columns \subseteq Columns
    BY SeenIs
  <2>3. DOMAIN c = FileFields /\ c.tables = file.tables /\ c.columns = Seen(p).columns \union {at}
        /\ c.version = Seen(p).version
    BY <2>2 DEF FileFields
  <2> HIDE DEF c
  <2>4. PICK r : /\ proc' = [proc EXCEPT ![p] = r] /\ DOMAIN r = Fields
                 /\ r.ok = proc[p].ok /\ r.program = proc[p].program
                 /\ IF at = "last_played" THEN r.pc = "migrate" /\ r.at = "karma"
                                          ELSE r.pc = "set_version"
    BY <2>1, AtIs, GotoIs
  <2>5. proc'[p] = r
    BY <2>4 DEF DbInv, Shape
  <2>6. CASE tx[p] = 0
    <3>1. Seen(p) = file
      BY <1>2, <2>6 DEF Seen, Wrote
    <3>2. "karma" \in file.columns => "last_played" \in file.columns
      BY DEF DbInv, FileOK
    <3>3. /\ file.columns \subseteq c.columns /\ c.columns \subseteq Columns
          /\ "last_played" \in c.columns /\ c.version = file.version
      BY <1>2, <2>2, <2>3, <2>6, <3>1, <3>2 DEF Columns
    <3>4. r.pc \in Migrating /\ (r.pc = "migrate" => r.at = "karma")
      BY <1>2, <2>4 DEF Migrating
    <3>5. proc[p].pc \in Migrating
      BY <1>1 DEF Migrating
    <3> QED
      BY <1>1, <2>1, <2>3, <2>4, <2>6, <3>3, <3>4, <3>5, BareWriteOK
  <2>7. CASE tx[p] = 1
    <3>1. work' = c /\ file' = file /\ tx' = tx /\ Wrote(p)'
      BY <2>1, <2>7, WriteInside
    <3>2. file.columns = {} /\ work'.tables = file.tables
          /\ work'.columns = IF at = "last_played" THEN {"last_played"} ELSE Columns
      <4>1. CASE at = "last_played"
        <5>1. Seen(p) = file
          BY <1>2, <4>1 DEF Seen, Wrote
        <5>2. file.columns = {}
          BY <1>4, <4>1, <5>1 DEF DbInv, FileOK, Columns
        <5> QED
          BY <2>3, <3>1, <4>1, <5>1, <5>2
      <4>2. CASE at = "karma"
        <5>1. file.columns = {} /\ work.columns = {"last_played"} /\ Seen(p) = work
          BY <1>2, <2>7, <4>2 DEF Seen
        <5> QED
          BY <2>3, <3>1, <4>2, <5>1 DEF Columns
      <4> QED
        BY <1>2, <4>1, <4>2
    <3>3. r.pc = IF at = "last_played" THEN "migrate" ELSE "set_version"
      BY <2>4
    <3>4. ProgramOK(p)' /\ OpenOK(p)'
      BY <1>2, <2>4, <2>5, <3>3 DEF ProgramOK, OpenOK
    <3>5. TxOK(p)' /\ MigrateOK(p)'
      BY <1>2, <2>4, <2>5, <2>7, <3>1, <3>2, <3>3 DEF TxOK, MigrateOK, Migrating, Wrote
    <3>6. WorkOK(p)'
      BY <2>5, <3>1, <3>2, <3>3 DEF WorkOK, Migrating, Columns
    <3>7. ProcOK(p)'
      BY <3>4, <3>5, <3>6 DEF ProcOK
    <3> QED
      BY <1>1, <2>1, <2>3, <2>4, <2>7, <3>7, InsideOK
  <2> QED
    BY <1>2, <2>6, <2>7
<1> QED
  BY <1>3, <1>4

LEMMA SetVersionStepOK == ASSUME DbInv, NEW p \in Procs, SetVersion(p) PROVE DbInv'
<1> DEFINE c == [Seen(p) EXCEPT !.version = 11]
<1>1. /\ proc[p].pc = "set_version" /\ history' = history /\ ProcOK(p)
      /\ Write(p, c) /\ At(p, "end_migration", "none")
  BY DEF SetVersion, DbInv
<1>2. /\ proc[p].ok \in {0, 1} /\ tx[p] \in {0, 1}
      /\ file.version \in {10, 11} /\ proc[p].program \in {"daemon", "walrus", "eugene"}
      /\ proc[p].ok = 1 => Wrote(p) /\ file.columns = {} /\ work.columns = Columns
      /\ lock[p] # "none" => tx[p] = 1
  BY <1>1 DEF DbInv, Shape, ProcOK, ProgramOK, TxOK, MigrateOK, Migrating
<1>3. /\ DOMAIN Seen(p) = FileFields /\ Seen(p).tables = file.tables
      /\ file.columns \subseteq Seen(p).columns /\ Seen(p).columns \subseteq Columns
  BY SeenIs
<1>4. DOMAIN c = FileFields /\ c.tables = file.tables /\ c.columns = Seen(p).columns
      /\ c.version = 11
  BY <1>3 DEF FileFields
<1> HIDE DEF c
<1>5. PICK r : /\ proc' = [proc EXCEPT ![p] = r] /\ DOMAIN r = Fields
               /\ r.pc = "end_migration" /\ r.ok = proc[p].ok /\ r.program = proc[p].program
  BY <1>1, AtIs
<1>6. proc'[p] = r
  BY <1>5 DEF DbInv, Shape
<1>7. CASE tx[p] = 0
  <2>1. Seen(p) = file
    BY <1>2, <1>7 DEF Seen, Wrote
  <2>2. "karma" \in file.columns => "last_played" \in file.columns
    BY DEF DbInv, FileOK
  <2>3. proc[p].pc \in Migrating /\ r.pc \in Migrating
    BY <1>1, <1>5 DEF Migrating
  <2> QED
    BY <1>1, <1>3, <1>4, <1>5, <1>7, <2>1, <2>2, <2>3, BareWriteOK
<1>8. CASE tx[p] = 1
  <2>1. work' = c /\ file' = file /\ tx' = tx /\ Wrote(p)'
    BY <1>1, <1>8, WriteInside
  <2>2. proc[p].ok = 1 => work'.columns = Columns
    BY <1>2, <1>4, <2>1 DEF Seen
  <2>3. ProgramOK(p)' /\ OpenOK(p)'
    BY <1>2, <1>5, <1>6 DEF ProgramOK, OpenOK
  <2>4. TxOK(p)' /\ MigrateOK(p)'
    BY <1>2, <1>4, <1>5, <1>6, <1>8, <2>1, <2>2 DEF TxOK, MigrateOK, Migrating, Wrote
  <2>5. WorkOK(p)'
    BY <1>3, <1>4, <1>5, <1>6, <2>1 DEF WorkOK, Migrating
  <2>6. ProcOK(p)'
    BY <2>3, <2>4, <2>5 DEF ProcOK
  <2> QED
    BY <1>1, <1>4, <1>5, <1>8, <2>6, InsideOK
<1> QED
  BY <1>2, <1>7, <1>8

LEMMA EndMigrationStepOK == ASSUME DbInv, NEW p \in Procs, EndMigration(p) PROVE DbInv'
<1>1. proc[p].pc = "end_migration" /\ UNCHANGED history /\ ProcOK(p)
  BY DEF EndMigration, DbInv
<1>2. /\ tx[p] \in {0, 1} /\ file.version \in {10, 11}
      /\ proc[p].program \in {"daemon", "walrus", "eugene"}
      /\ proc[p].ok = 1 => tx[p] = 1 /\ Wrote(p) /\ work.version = 11 /\ work.columns = Columns
  BY <1>1 DEF DbInv, Shape, ProcOK, ProgramOK, TxOK, MigrateOK, Migrating
<1>3. CASE Success(p) /\ Commit(p) /\ proc' = [proc EXCEPT ![p].pc = "prepare", ![p].ok = 0]
  <2>1. Seen(p).version = 11 /\ Seen(p).columns = Columns
    BY <1>2, <1>3 DEF Success, Seen
  <2>2. Seen(p).tables = Kinds
    BY <1>2, SeenIs DEF DbInv, FileOK
  <2>3. PICK r : /\ proc' = [proc EXCEPT ![p] = r] /\ DOMAIN r = Fields
                 /\ r.pc = "prepare" /\ r.program = proc[p].program
    <3>1. SetOk(p, "prepare", 0)
      BY <1>3 DEF SetOk
    <3> QED
      BY <3>1, SetOkIs
  <2> QED
    BY <1>1, <1>2, <1>3, <2>1, <2>2, <2>3, CommitOK DEF Success
<1>4. CASE Pend(p) /\ UNCHANGED proc
  BY <1>1, <1>4, PendOK
<1>5. CASE Rollback(p) /\ InitFails(p)
  <2>1. PICK r : /\ proc' = [proc EXCEPT ![p] = r] /\ DOMAIN r = Fields
                 /\ r.pc \in {"off", "done", "ask"}
                 /\ r.pc = "ask" => r.program = "eugene"
    BY <1>1, <1>5, InitFailsIs
  <2> QED
    BY <1>1, <1>5, <2>1, RollbackOK DEF Migrating
<1> QED
  BY <1>3, <1>4, <1>5 DEF EndMigration

-----------------------------------------------------------------------------
(* db_process. *)
LEMMA WorkingIs ==
    ASSUME DbInv, NEW p \in Procs, proc[p].pc \in {"has", "write", "end"}
    PROVE  /\ proc[p].program \in {"daemon", "walrus", "eugene"} /\ DOMAIN proc[p] = Fields
           /\ tx[p] \in {0, 1} /\ (lock[p] # "none" => tx[p] = 1)
           /\ tx[p] = 1 => proc[p].program = "walrus" /\ file.version = 11 /\ file.columns = Columns
           /\ Wrote(p) => SameSchema(work, file)
<1>1. ProcOK(p) /\ proc[p].pc \notin Migrating
  BY DEF DbInv, Migrating
<1>2. /\ tx[p] = 1 => proc[p].program = "walrus" /\ file.version = 11 /\ file.columns = Columns
      /\ lock[p] # "none" => tx[p] = 1
  BY <1>1 DEF ProcOK, TxOK
<1>3. ASSUME Wrote(p) PROVE SameSchema(work, file)
  <2>1. /\ work.tables = file.tables /\ work.version = file.version
        /\ file.columns \subseteq work.columns /\ work.columns \subseteq Columns
    BY <1>1, <1>3 DEF ProcOK, WorkOK
  <2>2. file.columns = Columns
    BY <1>2, <1>3 DEF Wrote
  <2> QED
    BY <2>1, <2>2 DEF SameSchema
<1>4. proc[p].program \in {"daemon", "walrus", "eugene"}
  BY <1>1 DEF ProcOK, ProgramOK
<1>5. DOMAIN proc[p] = Fields /\ tx[p] \in {0, 1}
  BY DEF DbInv, Shape
<1> QED
  BY <1>2, <1>3, <1>4, <1>5

LEMMA WorkingOK ==
    ASSUME NEW p \in Procs, proc'[p].pc \in {"has", "write", "end"},
           proc'[p].program \in {"daemon", "walrus", "eugene"},
           lock'[p] # "none" => tx'[p] = 1,
           tx'[p] = 1 => proc'[p].program = "walrus" /\ file'.version = 11 /\ file'.columns = Columns,
           Wrote(p)' => SameSchema(work', file') /\ file'.columns \subseteq Columns
    PROVE  ProcOK(p)'
<1>1. ProgramOK(p)' /\ OpenOK(p)'
  BY DEF ProgramOK, OpenOK
<1>2. TxOK(p)' /\ MigrateOK(p)'
  BY DEF TxOK, MigrateOK, Migrating
<1>3. WorkOK(p)'
  BY DEF WorkOK, SameSchema
<1> QED
  BY <1>1, <1>2, <1>3 DEF ProcOK

LEMMA AloneOK ==
    ASSUME DbInv, NEW p \in Procs, tx[p] = 0, proc[p].pc # "create",
           NEW c, Write(p, c), DOMAIN c = FileFields, SameSchema(c, file),
           NEW r, proc' = [proc EXCEPT ![p] = r], DOMAIN r = Fields,
           r.pc \notin Migrating \union {"open", "create", "prepare", "check"},
           r.pc \notin {"off", "done"} => r.program \in {"daemon", "walrus", "eugene"},
           history \subseteq history'
    PROVE  DbInv'
<1>1. /\ file' = c /\ work' = work /\ tx' = tx
      /\ lock' \in [Procs -> {"none", "shared", "reserved", "pending"}]
      /\ \A q \in Procs : lock'[q] = "none" /\ lock[q] = "none" /\ ~ Wrote(q) /\ ~ Wrote(q)'
  BY WriteAlone
<1>2. proc'[p] = r /\ \A q \in Procs \ {p} : proc'[q] = proc[q]
  BY DEF DbInv, Shape
<1>3. Shape'
  BY <1>1, <1>2 DEF DbInv, Shape
<1>4. ProcOK(p)'
  BY <1>1, <1>2, RestOK
<1> QED
  BY <1>1, <1>2, <1>3, <1>4, SameOK

LEMMA WorkedOK ==
    ASSUME DbInv, NEW p \in Procs, proc[p].pc \in {"has", "write", "end"},
           NEW c, Write(p, c), DOMAIN c = FileFields, SameSchema(c, Seen(p)),
           NEW r, proc' = [proc EXCEPT ![p] = r], DOMAIN r = Fields,
           r.pc \notin Migrating \union {"open", "create", "prepare", "check"},
           r.program \in {"daemon", "walrus", "eugene"},
           tx[p] = 1 => r.pc \in {"has", "end"} /\ r.program = "walrus",
           history \subseteq history'
    PROVE  DbInv'
<1>1. /\ tx[p] \in {0, 1} /\ (lock[p] # "none" => tx[p] = 1)
      /\ tx[p] = 1 => file.version = 11 /\ file.columns = Columns
      /\ Wrote(p) => SameSchema(work, file)
  BY WorkingIs
<1>2. SameSchema(c, file)
  BY <1>1 DEF Seen, SameSchema
<1>3. CASE tx[p] = 0
  BY <1>2, <1>3, AloneOK
<1>4. CASE tx[p] = 1
  <2>1. work' = c /\ file' = file /\ tx' = tx
    BY <1>4, WriteInside
  <2>2. proc'[p] = r
    BY DEF DbInv, Shape
  <2>3. file.columns \subseteq Columns
    BY DEF DbInv, FileOK
  <2>4. ProcOK(p)'
    BY <1>1, <1>2, <1>4, <2>1, <2>2, <2>3, WorkingOK
  <2> QED
    BY <1>4, <2>4, InsideOK
<1> QED
  BY <1>1, <1>3, <1>4

(* Nothing is written, and a transaction goes on. *)
LEMMA WorkGoesOn ==
    ASSUME DbInv, NEW p \in Procs, proc[p].pc \in {"has", "write", "end"}, UNCHANGED database,
           NEW r, proc' = [proc EXCEPT ![p] = r], DOMAIN r = Fields,
           r.pc \in {"has", "write", "end"}, r.program = proc[p].program,
           history \subseteq history'
    PROVE  DbInv'
<1>1. /\ proc[p].program \in {"daemon", "walrus", "eugene"}
      /\ lock[p] # "none" => tx[p] = 1
      /\ tx[p] = 1 => proc[p].program = "walrus" /\ file.version = 11 /\ file.columns = Columns
      /\ Wrote(p) => SameSchema(work, file)
  BY WorkingIs
<1>2. proc'[p] = r /\ UNCHANGED <<file, work, lock, tx>> /\ file.columns \subseteq Columns
  BY DEF DbInv, Shape, FileOK, database
<1>3. ProcOK(p)'
  BY <1>1, <1>2, WorkingOK DEF Wrote
<1> QED
  BY <1>3, QuietOK

LEMMA PrepareStepOK == ASSUME DbInv, NEW p \in Procs, Prepare(p) PROVE DbInv'
<1>1. /\ proc[p].pc = "prepare" /\ UNCHANGED <<file, work, lock, history>>
      /\ proc[p].program \in {"daemon", "walrus", "eugene"} /\ DOMAIN proc[p] = Fields
      /\ file.version = 11
  BY DEF Prepare, DbInv, Shape, ProcOK, ProgramOK, OpenOK
<1>2. tx[p] = 0 /\ lock[p] = "none" /\ ~ Wrote(p)
  BY <1>1, NoTx DEF Migrating
<1>3. CASE ~ Prepared(p)
  <2>1. InitFails(p) /\ UNCHANGED database
    BY <1>1, <1>3 DEF Prepare, database
  <2> QED
    BY <1>1, <2>1, InitFailsOK
<1>4. CASE Prepared(p)
  <2>1. PICK r : /\ proc' = [proc EXCEPT ![p] = r] /\ DOMAIN r = Fields
                 /\ r.program = proc[p].program
                 /\ \/ r.pc \in {"ready", "ask", "has"} /\ r.program # "walrus"
                    \/ r.pc \in {"has", "end"} /\ r.program = "walrus"
    <3>1. CASE proc[p].program = "daemon"
      <4>1. Goto(p, "ready")
        BY <1>4, <3>1 DEF Prepare
      <4> QED
        BY <3>1, <4>1, GotoIs
    <3>2. CASE proc[p].program = "eugene"
      <4> DEFINE r == Processing(proc[p])
      <4>1. DOMAIN r = Fields /\ r.pc = "has" /\ r.program = proc[p].program
        BY <1>1 DEF Processing, Fields
      <4>2. Goto(p, "ask") \/ proc' = [proc EXCEPT ![p] = r]
        BY <1>4, <3>2 DEF Prepare
      <4> HIDE DEF r
      <4>3. CASE Goto(p, "ask")
        BY <3>2, <4>3, GotoIs
      <4>4. CASE proc' = [proc EXCEPT ![p] = r]
        BY <3>2, <4>1, <4>4
      <4> QED
        BY <4>2, <4>3, <4>4
    <3>3. CASE proc[p].program = "walrus"
      <4> DEFINE a == [proc[p] EXCEPT !.todo = Library[p]]
      <4>1. DOMAIN a = Fields /\ a.program = "walrus"
        BY <1>1, <3>3 DEF Fields
      <4>2. proc' = [proc EXCEPT ![p] = NextSong(a)]
        BY <1>4, <3>3 DEF Prepare
      <4> HIDE DEF a
      <4> QED
        BY <3>3, <4>1, <4>2, NextSongIs
    <3> QED
      BY <1>1, <3>1, <3>2, <3>3
  <2>2. tx' = [tx EXCEPT ![p] = IF proc[p].program = "walrus" THEN 1 ELSE 0]
    BY <1>4 DEF Prepare, Begins
  <2>3. /\ proc'[p] = r /\ tx' \in [Procs -> {0, 1}]
        /\ tx'[p] = IF r.program = "walrus" THEN 1 ELSE 0
        /\ \A q \in Procs \ {p} : proc'[q] = proc[q] /\ tx'[q] = tx[q]
    BY <2>1, <2>2 DEF DbInv, Shape
  <2>4. Shape'
    BY <1>1, <2>1, <2>3 DEF DbInv, Shape
  <2>5. ~ Wrote(p)' /\ SameSchema(file', file) /\ SameSchema(work', work)
    BY <1>1, <1>2 DEF Wrote, SameSchema
  <2>6. ProcOK(p)'
    <3>1. CASE r.program = "walrus"
      BY <1>1, <1>2, <1>4, <2>1, <2>3, <2>5, <3>1, WorkingOK DEF Prepared
    <3>2. CASE r.program # "walrus"
      BY <1>1, <1>2, <2>1, <2>3, <3>2, RestOK DEF Migrating
    <3> QED
      BY <3>1, <3>2
  <2> QED
    BY <1>1, <2>3, <2>4, <2>5, <2>6, SameOK
<1> QED
  BY <1>3, <1>4

LEMMA CutShortOK == ASSUME DbInv, NEW p \in Procs, CutShort(p) PROVE DbInv'
<1> DEFINE a == [proc[p] EXCEPT !.todo = <<>>]
<1>1. /\ proc[p].pc = "has" /\ proc' = [proc EXCEPT ![p] = NextSong(a)]
      /\ UNCHANGED <<database, history>> /\ DOMAIN proc[p] = Fields
  BY DEF CutShort, DbInv, Shape
<1>2. DOMAIN a = Fields /\ a.program = proc[p].program
  BY <1>1 DEF Fields
<1> HIDE DEF a
<1> QED
  BY <1>1, <1>2, NextSongIs, WorkGoesOn

LEMMA HasStepOK == ASSUME DbInv, NEW p \in Procs, Has(p) PROVE DbInv'
<1> DEFINE found == IF NameOf(proc[p].at, proc[p].song) \in DOMAIN Seen(p).rows[proc[p].at] THEN 1 ELSE 0
           r == [proc[p] EXCEPT !.pc = "write", !.found = found]
<1>1. /\ proc[p].pc = "has" /\ Read(p, found) /\ history' = history
      /\ proc' = [proc EXCEPT ![p].pc = "write", ![p].found = found]
  BY DEF Has
<1> HIDE DEF found
<1>2. DOMAIN proc[p] = Fields /\ proc = [q \in Procs |-> proc[q]]
  BY DEF DbInv, Shape
<1>3. proc' = [proc EXCEPT ![p] = r]
  BY <1>1, <1>2
<1>4. DOMAIN r = Fields /\ r.pc = "write" /\ r.program = proc[p].program
  BY <1>2 DEF Fields
<1> HIDE DEF r
<1>5. /\ proc[p].program \in {"daemon", "walrus", "eugene"}
      /\ tx[p] \in {0, 1} /\ (lock[p] # "none" => tx[p] = 1)
      /\ tx[p] = 1 => proc[p].program = "walrus" /\ file.version = 11 /\ file.columns = Columns
      /\ Wrote(p) => SameSchema(work, file)
  BY <1>1, WorkingIs
<1>6. /\ UNCHANGED <<file, work, tx>>
      /\ lock' = IF lock[p] = "none" THEN [lock EXCEPT ![p] = IF tx[p] = 1 THEN "shared" ELSE "none"]
                                     ELSE lock
  BY <1>1 DEF Read, Kept
<1>7. /\ \A q \in Procs \ {p} : lock'[q] = lock[q]
      /\ lock' \in [Procs -> {"none", "shared", "reserved", "pending"}]
      /\ lock'[p] # "none" => tx[p] = 1
      /\ Wrote(p)' <=> Wrote(p)
  BY <1>5, <1>6 DEF DbInv, Shape, Wrote
<1>8. proc'[p] = r /\ \A q \in Procs \ {p} : proc'[q] = proc[q]
  BY <1>2, <1>3
<1>9. Shape'
  BY <1>4, <1>3, <1>6, <1>7, <1>8 DEF DbInv, Shape
<1>10. file.columns \subseteq Columns
  BY DEF DbInv, FileOK
<1>11. ProcOK(p)'
  BY <1>4, <1>5, <1>6, <1>7, <1>8, <1>10, WorkingOK
<1>12. (\E q \in Procs \ {p} : Wrote(q)) => ~ Wrote(p)'
  BY <1>7 DEF DbInv, OneWriter
<1>13. SameSchema(file', file) /\ SameSchema(work', work)
  BY <1>6 DEF SameSchema
<1> QED
  BY <1>1, <1>6, <1>7, <1>8, <1>9, <1>11, <1>12, <1>13, SameOK

LEMMA ReadyIs ==
    ASSUME NEW r
    PROVE  DOMAIN Ready(r) = Fields /\ Ready(r).pc = "ready" /\ Ready(r).program = "daemon"
BY DEF Ready, Idle, Fields

LEMMA NotProcessedIs ==
    ASSUME NEW r, DOMAIN r = Fields, r.program \in {"daemon", "walrus", "eugene"}
    PROVE  /\ DOMAIN NotProcessed(r) = Fields /\ NotProcessed(r).program = r.program
           /\ IF r.program = "walrus" THEN NotProcessed(r).pc \in {"has", "end"}
              ELSE NotProcessed(r).pc \in {"ready", "ask"}
<1>1. CASE r.program = "daemon"
  BY <1>1, ReadyIs DEF NotProcessed
<1>2. CASE r.program = "walrus"
  BY <1>2, NextSongIs DEF NotProcessed
<1>3. CASE r.program = "eugene"
  <2> DEFINE e == [r EXCEPT !.pc = "ask", !.at = "none"]
  <2>1. DOMAIN e = Fields /\ e.pc = "ask" /\ e.program = r.program
    BY DEF Fields
  <2>2. NotProcessed(r) = e
    BY <1>3 DEF NotProcessed
  <2> HIDE DEF e
  <2> QED
    BY <1>3, <2>1, <2>2
<1> QED
  BY <1>1, <1>2, <1>3

(* A process gives a song up, whatever it is to reset then. *)
LEMMA GivenUpIs ==
    ASSUME DbInv, NEW p \in Procs, proc[p].pc \in {"has", "write"}, NEW unreset,
           proc' = [proc EXCEPT ![p] = NotProcessed([proc[p] EXCEPT !.unreset = unreset])]
    PROVE  \E r : /\ proc' = [proc EXCEPT ![p] = r] /\ DOMAIN r = Fields
                  /\ r.program = proc[p].program
                  /\ r.program \in {"daemon", "walrus", "eugene"}
                  /\ IF r.program = "walrus" THEN r.pc \in {"has", "end"}
                     ELSE r.pc \in {"ready", "ask"}
<1> DEFINE u == [proc[p] EXCEPT !.unreset = unreset]
<1>1. proc[p].program \in {"daemon", "walrus", "eugene"} /\ DOMAIN proc[p] = Fields
  BY WorkingIs
<1>2. DOMAIN u = Fields /\ u.program = proc[p].program
  BY <1>1 DEF Fields
<1>3. proc' = [proc EXCEPT ![p] = NotProcessed(u)]
  OBVIOUS
<1> HIDE DEF u
<1> DEFINE r == NotProcessed(u)
<1>4. /\ DOMAIN r = Fields /\ r.program = u.program
      /\ IF u.program = "walrus" THEN r.pc \in {"has", "end"} ELSE r.pc \in {"ready", "ask"}
  BY <1>1, <1>2, NotProcessedIs
<1>5. proc' = [proc EXCEPT ![p] = r]
  BY <1>3
<1> HIDE DEF r
<1> QED
  BY <1>1, <1>2, <1>4, <1>5

LEMMA ProcessFailsOK ==
    ASSUME DbInv, NEW p \in Procs, proc[p].pc \in {"has", "write"},
           NEW unreset, ProcessFails(p, unreset)
    PROVE  DbInv'
<1>1. /\ proc[p].program \in {"daemon", "walrus", "eugene"} /\ DOMAIN proc[p] = Fields
      /\ tx[p] \in {0, 1} /\ (lock[p] # "none" => tx[p] = 1)
      /\ tx[p] = 1 => proc[p].program = "walrus"
  BY WorkingIs
<1>2. history \subseteq history'
  BY DEF ProcessFails
<1>3. CASE /\ proc' = [proc EXCEPT ![p] = NotProcessed([proc[p] EXCEPT !.unreset = unreset])]
           /\ UNCHANGED database
  <2>1. PICK r : /\ proc' = [proc EXCEPT ![p] = r] /\ DOMAIN r = Fields
                 /\ r.program = proc[p].program
                 /\ IF r.program = "walrus" THEN r.pc \in {"has", "end"}
                    ELSE r.pc \in {"ready", "ask"}
    BY <1>3, GivenUpIs
  <2>2. CASE r.program = "walrus"
    BY <1>2, <1>3, <2>1, <2>2, WorkGoesOn
  <2>3. CASE r.program # "walrus"
    <3>1. tx'[p] = 0 /\ lock'[p] = "none"
      BY <1>1, <1>3, <2>1, <2>3 DEF database
    <3>2. proc'[p] = r
      BY <2>1 DEF DbInv, Shape
    <3>3. ProcOK(p)'
      BY <1>1, <2>1, <2>3, <3>1, <3>2, RestOK DEF Migrating
    <3> QED
      BY <1>2, <1>3, <2>1, <3>3, QuietOK
  <2> QED
    BY <2>2, <2>3
<1>4. CASE proc' = [proc EXCEPT ![p] = Idle("done")] /\ Rollback(p)
  BY <1>2, <1>4, IdleIs, RollbackOK DEF Migrating
<1> QED
  BY <1>3, <1>4 DEF ProcessFails, Abandon

LEMMA TransactionLostOK ==
    ASSUME DbInv, NEW p \in Procs, proc[p].pc \in {"has", "write"}, TransactionLost(p)
    PROVE  DbInv'
<1>1. /\ Rollback(p) /\ history' = history
      /\ proc' = [proc EXCEPT ![p] = NotProcessed([proc[p] EXCEPT !.unreset = Failing(proc[p])])]
  BY DEF TransactionLost
<1>2. PICK r : /\ proc' = [proc EXCEPT ![p] = r] /\ DOMAIN r = Fields
               /\ r.program \in {"daemon", "walrus", "eugene"}
               /\ r.pc \in {"has", "end", "ready", "ask"}
  BY <1>1, GivenUpIs
<1> QED
  BY <1>1, <1>2, RollbackOK DEF Migrating

LEMMA RefusedOK == ASSUME DbInv, NEW p \in Procs, Refused(p) PROVE DbInv'
BY ProcessFailsOK DEF Refused

LEMMA WriteRowStepOK == ASSUME DbInv, NEW p \in Procs, WriteRow(p) PROVE DbInv'
<1> DEFINE next == NextKind(proc[p].at, proc[p].song)
           fails == proc[p].found = 0
                      /\ NameOf(proc[p].at, proc[p].song) \in DOMAIN Seen(p).rows[proc[p].at]
           c == [Seen(p) EXCEPT !.rows =
                   Processed(@, proc[p].at, proc[p].song, proc[p].increment, proc[p].percent)]
<1>1. proc[p].pc = "write"
  BY DEF WriteRow
<1>2. /\ proc[p].program \in {"daemon", "walrus", "eugene"} /\ DOMAIN proc[p] = Fields
      /\ tx[p] \in {0, 1}
      /\ tx[p] = 1 => proc[p].program = "walrus"
  BY <1>1, WorkingIs
<1>3. CASE fails
  <2>1. ProcessFails(p, Failing(proc[p]))
    BY <1>3 DEF WriteRow
  <2> QED
    BY <1>1, <2>1, ProcessFailsOK
<1>4. CASE ~ fails
  <2>1. /\ Write(p, c)
        /\ IF next = "none" THEN Processed_well(p)
           ELSE proc' = [proc EXCEPT ![p].pc = "has", ![p].at = next, ![p].found = 0]
    BY <1>4 DEF WriteRow
  <2>2. history \subseteq history'
    BY <1>4 DEF WriteRow
  <2>3. DOMAIN Seen(p) = FileFields
    BY SeenIs
  <2>4. DOMAIN c = FileFields /\ SameSchema(c, Seen(p))
    BY <2>3 DEF FileFields, SameSchema
  <2> HIDE DEF c
  <2>5. PICK r : /\ proc' = [proc EXCEPT ![p] = r] /\ DOMAIN r = Fields
                 /\ r.program \in {"daemon", "walrus", "eugene"}
                 /\ r.pc \in {"has", "end", "ready", "ask"}
                 /\ proc[p].program = "walrus" => r.pc \in {"has", "end"} /\ r.program = "walrus"
    <3>1. CASE next # "none"
      <4> DEFINE r == [proc[p] EXCEPT !.pc = "has", !.at = next, !.found = 0]
      <4>1. DOMAIN r = Fields /\ r.pc = "has" /\ r.program = proc[p].program
        BY <1>2 DEF Fields
      <4>2. proc' = [proc EXCEPT ![p] = r]
        BY <2>1, <3>1 DEF DbInv, Shape
      <4> HIDE DEF r
      <4> QED
        BY <1>2, <4>1, <4>2
    <3>2. CASE next = "none" /\ proc[p].program = "daemon"
      <4> DEFINE r == Ready(proc[p])
      <4>1. DOMAIN r = Fields /\ r.pc = "ready" /\ r.program = "daemon"
        BY ReadyIs
      <4>2. proc' = [proc EXCEPT ![p] = r]
        BY <2>1, <3>2 DEF Processed_well
      <4> HIDE DEF r
      <4> QED
        BY <3>2, <4>1, <4>2
    <3>3. CASE next = "none" /\ proc[p].program = "walrus"
      <4>1. proc' = [proc EXCEPT ![p] = NextSong(proc[p])]
        BY <2>1, <3>3 DEF Processed_well
      <4> QED
        BY <1>2, <3>3, <4>1, NextSongIs
    <3>4. CASE next = "none" /\ proc[p].program = "eugene"
      <4> DEFINE r == [proc[p] EXCEPT !.pc = "ask", !.at = "none", !.ok = 1]
      <4>1. DOMAIN r = Fields /\ r.pc = "ask" /\ r.program = proc[p].program
        BY <1>2 DEF Fields
      <4>2. proc' = [proc EXCEPT ![p] = r]
        BY <2>1, <3>4 DEF Processed_well
      <4> HIDE DEF r
      <4> QED
        BY <1>2, <3>4, <4>1, <4>2
    <3> QED
      BY <1>2, <3>1, <3>2, <3>3, <3>4
  <2> QED
    BY <1>1, <1>2, <2>1, <2>2, <2>4, <2>5, WorkedOK DEF Migrating
<1> QED
  BY <1>3, <1>4

LEMMA EndStepOK == ASSUME DbInv, NEW p \in Procs, End(p) PROVE DbInv'
<1>1. proc[p].pc = "end" /\ UNCHANGED history
  BY DEF End
<1>2. /\ proc[p].program \in {"daemon", "walrus", "eugene"} /\ DOMAIN proc[p] = Fields
      /\ lock[p] # "none" => tx[p] = 1
      /\ tx[p] = 1 => file.version = 11 /\ file.columns = Columns
      /\ Wrote(p) => SameSchema(work, file)
  BY <1>1, WorkingIs
<1>3. CASE Pend(p) /\ UNCHANGED proc
  BY <1>1, <1>3, PendOK
<1>4. CASE Commit(p) /\ Goto(p, "vacuum")
  <2>1. PICK r : /\ proc' = [proc EXCEPT ![p] = r] /\ DOMAIN r = Fields
                 /\ r.pc = "vacuum" /\ r.program = proc[p].program
    BY <1>4, GotoIs
  <2>2. CASE Wrote(p)
    <3>1. tx[p] = 1 /\ file.version = 11 /\ file.columns = Columns
      BY <1>2, <2>2 DEF Wrote
    <3>2. Seen(p).version = 11 /\ Seen(p).tables = Kinds /\ Seen(p).columns = Columns
      BY <1>2, <2>2, <3>1 DEF Seen, SameSchema, DbInv, FileOK
    <3> QED
      BY <1>1, <1>2, <1>4, <2>1, <3>1, <3>2, CommitOK
  <2>3. CASE ~ Wrote(p)
    <3>1. Rollback(p)
      BY <1>4, <2>3 DEF Commit, Rollback, Seen
    <3> QED
      BY <1>1, <1>2, <2>1, <3>1, RollbackOK DEF Migrating
  <2> QED
    BY <2>2, <2>3
<1> QED
  BY <1>3, <1>4 DEF End

LEMMA VacuumStepOK == ASSUME DbInv, NEW p \in Procs, Vacuum(p) PROVE DbInv'
<1>1. /\ proc[p].pc = "vacuum" /\ UNCHANGED history /\ Write(p, file)
      /\ proc' = [proc EXCEPT ![p] = Idle("done")]
  BY DEF Vacuum
<1>2. tx[p] = 0
  BY <1>1, NoTx DEF Migrating
<1>3. DOMAIN file = FileFields /\ SameSchema(file, file)
  BY DEF DbInv, Shape, SameSchema
<1> QED
  BY <1>1, <1>2, <1>3, IdleIs, AloneOK DEF Migrating

-----------------------------------------------------------------------------
(* The commands that mpdcron serves. *)
LEMMA ServeOK == ASSUME DbInv, NEW q \in Tools, Serve(q) PROVE DbInv'
<1>1. /\ Daemon \in Procs /\ proc[Daemon].pc = "ready" /\ DOMAIN proc[Daemon] = Fields
      /\ proc[Daemon].program \in {"daemon", "walrus", "eugene"}
      /\ proc = [p \in Procs |-> proc[p]]
      /\ history \subseteq history'
  BY DEF Procs, Serve, ServeUnknown, ServeLook, ServeChange, ServeRmtag, Asked, DbInv, Shape,
         ProcOK, ProgramOK
<1>2. tx[Daemon] = 0 /\ lock[Daemon] = "none"
  BY <1>1, NoTx DEF Migrating
<1>3. ASSUME UNCHANGED <<database, proc, history>> PROVE DbInv'
  <2>1. proc' = [proc EXCEPT ![Daemon] = proc[Daemon]]
    BY <1>1, <1>3
  <2> QED
    BY <1>1, <1>3, <2>1, RestStepOK DEF Migrating
<1>4. CASE ServeUnknown(q) \/ ServeLook(q)
  BY <1>3, <1>4 DEF ServeUnknown, ServeLook
<1>5. CASE ServeChange(q)
  <2> DEFINE done == Changing(file.rows, talk[q].command)
             c == [file EXCEPT !.rows = done.tables]
  <2>1. CASE done.answer = ACK
    BY <1>3, <1>5, <2>1 DEF ServeChange
  <2>2. CASE done.answer # ACK
    <3>1. Write(Daemon, c) /\ UNCHANGED proc
      BY <1>5, <2>2 DEF ServeChange
    <3>2. DOMAIN c = FileFields /\ SameSchema(c, file)
      BY DEF DbInv, Shape, FileFields, SameSchema
    <3> HIDE DEF c
    <3>3. proc' = [proc EXCEPT ![Daemon] = proc[Daemon]]
      BY <1>1, <3>1
    <3> QED
      BY <1>1, <1>2, <3>1, <3>2, <3>3, AloneOK DEF Migrating
  <2> QED
    BY <2>1, <2>2
<1>6. CASE ServeRmtag(q)
  <2>1. UNCHANGED history
    BY <1>6 DEF ServeRmtag
  <2>2. \/ UNCHANGED <<database, proc>>
        \/ Read(Daemon, 0) /\ Goto(Daemon, "removing")
    BY <1>6 DEF ServeRmtag
  <2>3. CASE UNCHANGED <<database, proc>>
    BY <1>3, <2>1, <2>3
  <2>4. CASE Read(Daemon, 0) /\ Goto(Daemon, "removing")
    <3>1. UNCHANGED <<file, work, tx>> /\ lock' = [lock EXCEPT ![Daemon] = "none"]
      BY <1>2, <2>4 DEF Read, Kept
    <3>2. UNCHANGED database
      BY <1>2, <3>1 DEF database, DbInv, Shape
    <3>3. PICK r : /\ proc' = [proc EXCEPT ![Daemon] = r] /\ DOMAIN r = Fields
                   /\ r.pc = "removing" /\ r.program = proc[Daemon].program
      BY <1>1, <2>4, GotoIs
    <3> QED
      BY <1>1, <2>1, <3>2, <3>3, RestStepOK DEF Migrating
  <2> QED
    BY <2>2, <2>3, <2>4
<1> QED
  BY <1>4, <1>5, <1>6 DEF Serve

LEMMA RemovingOK == ASSUME DbInv, RemoveRow \/ RemovedAll \/ FailRemove PROVE DbInv'
<1>1. /\ Daemon \in Procs /\ proc[Daemon].pc = "removing" /\ DOMAIN proc[Daemon] = Fields
      /\ proc[Daemon].program \in {"daemon", "walrus", "eugene"}
      /\ proc = [p \in Procs |-> proc[p]]
      /\ UNCHANGED history
  BY DEF Procs, RemoveRow, RemovedAll, FailRemove, DbInv, Shape, ProcOK, ProgramOK
<1>2. tx[Daemon] = 0
  BY <1>1, NoTx DEF Migrating
<1>3. ASSUME Goto(Daemon, "ready"), UNCHANGED database PROVE DbInv'
  <2>1. PICK r : /\ proc' = [proc EXCEPT ![Daemon] = r] /\ DOMAIN r = Fields
                 /\ r.pc = "ready" /\ r.program = proc[Daemon].program
    BY <1>1, <1>3, GotoIs
  <2> QED
    BY <1>1, <1>3, <2>1, RestStepOK DEF Migrating
<1>4. CASE RemovedAll \/ FailRemove
  BY <1>3, <1>4 DEF RemovedAll, FailRemove, Removed
<1>5. CASE RemoveRow
  <2> DEFINE kind == talk[serving].command.kind
  <2>1. CASE ~ Quoted(kind)
    BY <1>3, <1>5, <2>1 DEF RemoveRow, Removed
  <2>2. CASE Quoted(kind)
    <3>1. PICK n \in DOMAIN removing :
            /\ Write(Daemon, [file EXCEPT !.rows[kind][n] = Set_tags(@, removing[n])])
            /\ UNCHANGED proc
      BY <1>5, <2>2 DEF RemoveRow
    <3> DEFINE c == [file EXCEPT !.rows[kind][n] = Set_tags(@, removing[n])]
    <3>2. DOMAIN c = FileFields /\ SameSchema(c, file)
      BY DEF DbInv, Shape, FileFields, SameSchema
    <3>3. Write(Daemon, c)
      BY <3>1
    <3> HIDE DEF c
    <3>4. proc' = [proc EXCEPT ![Daemon] = proc[Daemon]]
      BY <1>1, <3>1
    <3> QED
      BY <1>1, <1>2, <3>2, <3>3, <3>4, AloneOK DEF Migrating
  <2> QED
    BY <2>1, <2>2
<1> QED
  BY <1>4, <1>5

-----------------------------------------------------------------------------
(* Deaths and failures. *)
LEMMA CrashOK == ASSUME DbInv, NEW p \in Procs, Crash(p) PROVE DbInv'
<1> DEFINE r == Idle(IF p = Daemon THEN "off" ELSE "done")
<1>1. Rollback(p) /\ proc' = [proc EXCEPT ![p] = r] /\ history' = history \union Losses(p)
  BY DEF Crash
<1>2. DOMAIN r = Fields /\ r.pc \in {"off", "done"}
  BY IdleIs
<1> HIDE DEF r
<1>3. proc[p].pc = "create" => "half_made" \in history'
  BY <1>1 DEF Losses, Creating
<1> QED
  BY <1>1, <1>2, <1>3, RollbackOK DEF Migrating

(* A migration begins, though BEGIN fails. *)
LEMMA FailBeginOK == ASSUME DbInv, NEW p \in Procs, FailBegin(p) PROVE DbInv'
<1>1. /\ proc[p].pc = "check" /\ file.version = 10 /\ history' = history \union {"bare"}
      /\ At(p, "migrate", "last_played") /\ UNCHANGED database
      /\ proc[p].program \in {"daemon", "walrus", "eugene"} /\ proc[p].ok = 0
  BY DEF FailBegin, DbInv, ProcOK, ProgramOK, OpenOK
<1>2. PICK r : /\ proc' = [proc EXCEPT ![p] = r] /\ DOMAIN r = Fields
               /\ r.pc = "migrate" /\ r.at = "last_played" /\ r.ok = 0
               /\ r.program = proc[p].program
  BY <1>1, AtIs
<1>3. proc'[p] = r /\ tx'[p] = 0 /\ lock'[p] = "none" /\ file' = file
  BY <1>1, <1>2, NoTx DEF DbInv, Shape, database, Migrating
<1>4. ProcOK(p)'
  BY <1>1, <1>2, <1>3, BareOK DEF Migrating
<1> QED
  BY <1>1, <1>2, <1>4, QuietOK

LEMMA FailOK == ASSUME DbInv, NEW p \in Procs, Fail(p) PROVE DbInv'
<1>1. CASE FailOpening(p)
  <2>1. /\ InitFails(p) /\ history' = history \union Losses(p) /\ UNCHANGED database
        /\ proc[p].pc \in {"open", "create", "check", "prepare"}
    BY <1>1 DEF FailOpening
  <2>2. proc[p].pc = "create" => "half_made" \in history'
    BY <2>1 DEF Losses, Creating
  <2> QED
    BY <2>1, <2>2, InitFailsOK
<1>2. CASE FailMigrate(p)
  <2>1. proc[p].pc = "migrate" /\ SetOk(p, "set_version", 0)
    BY <1>2 DEF FailMigrate, SetOk
  <2>2. UNCHANGED <<database, history>> \/ (Rollback(p) /\ history' = history \union {"bare"})
    BY <1>2 DEF FailMigrate
  <2> QED
    BY <2>1, <2>2, MigrationFailsOK, MigrationLostOK
<1>3. CASE FailMigrated(p)
  <2>1. /\ InitFails(p) /\ Rollback(p) /\ UNCHANGED history
        /\ proc[p].pc \in {"set_version", "end_migration"}
    BY <1>3 DEF FailMigrated
  <2>2. PICK r : /\ proc' = [proc EXCEPT ![p] = r] /\ DOMAIN r = Fields
                 /\ r.pc \in {"off", "done", "ask"}
                 /\ r.pc = "ask" => r.program = "eugene"
    BY <2>1, InitFailsIs
  <2> QED
    BY <2>1, <2>2, RollbackOK DEF Migrating
<1>4. CASE FailProcess(p)
  BY <1>4, ProcessFailsOK, TransactionLostOK DEF FailProcess
<1>5. CASE FailEnd(p)
  <2>1. /\ proc' = [proc EXCEPT ![p] = Idle("done")] /\ Rollback(p) /\ UNCHANGED history
        /\ proc[p].pc \in {"end", "vacuum"}
    BY <1>5 DEF FailEnd
  <2> QED
    BY <2>1, IdleIs, RollbackOK DEF Migrating
<1> QED
  BY <1>1, <1>2, <1>3, <1>4, <1>5, FailBeginOK DEF Fail

-----------------------------------------------------------------------------
LEMMA DbInit == Init => DbInv
<1> SUFFICES ASSUME Init PROVE DbInv
  OBVIOUS
<1>1. /\ file \in InitialFiles /\ work = NoFile
      /\ lock = [p \in Procs |-> "none"] /\ tx = [p \in Procs |-> 0]
      /\ proc = [p \in Procs |-> Idle("off")]
  BY DEF Init
<1>2. DOMAIN NoFile = FileFields
  BY DEF NoFile, FileFields
<1>3. /\ DOMAIN file = FileFields
      /\ \/ file.version = -1 /\ file.tables = {} /\ file.columns = {}
         \/ file.tables = Kinds /\ file.version = 10 /\ file.columns = {}
         \/ file.tables = Kinds /\ file.version = 11 /\ file.columns = Columns
  <2>1. CASE file = NoFile
    BY <1>2, <2>1 DEF NoFile
  <2>2. CASE file # NoFile
    BY <1>1, <1>2, <2>2, InitialFilesAssumption
  <2> QED
    BY <2>1, <2>2
<1>4. \A p \in Procs : proc[p] = Idle("off") /\ DOMAIN proc[p] = Fields /\ proc[p].pc = "off"
  BY <1>1, IdleIs
<1>5. Shape
  BY <1>1, <1>2, <1>3, <1>4 DEF Shape
<1>6. FileOK
  BY <1>3 DEF FileOK, VersionMeansSchema, Columns
<1>7. OneWriter
  BY <1>1 DEF OneWriter, Wrote
<1>8. ASSUME NEW p \in Procs PROVE ProcOK(p)
  BY <1>1, <1>4 DEF ProcOK, ProgramOK, OpenOK, TxOK, MigrateOK, WorkOK, Wrote, Migrating
<1>9. Leader
  BY <1>3 DEF Leader
<1> QED
  BY <1>5, <1>6, <1>7, <1>8, <1>9 DEF DbInv

(* The invariant holds in every state of every behaviour: of the file, of  *)
(* the locks, and of what each process has seen and made of the file.      *)
THEOREM DbInvHolds == Spec => []DbInv
<1>1. Init => DbInv
  BY DbInit
<1>2. DbInv /\ [Next]_vars => DbInv'
  <2> SUFFICES ASSUME DbInv, [Next]_vars PROVE DbInv'
    OBVIOUS
  <2>1. CASE StartDaemon
    BY <2>1, StartDaemonOK
  <2>2. CASE Play
    BY <2>2, PlayOK
  <2>3. CASE RemoveRow \/ RemovedAll \/ FailRemove
    BY <2>3, RemovingOK
  <2>4. ASSUME NEW p \in Procs, Works(p) PROVE DbInv'
    BY <2>4, OpenStepOK, CreateStepOK, CheckStepOK, MigrateStepOK, SetVersionStepOK,
       EndMigrationStepOK, PrepareStepOK, HasStepOK, WriteRowStepOK, RefusedOK, EndStepOK,
       VacuumStepOK
       DEF Works, Opens
  <2>5. ASSUME NEW p \in Procs, CutShort(p) \/ Crash(p) \/ Fail(p) PROVE DbInv'
    BY <2>5, CutShortOK, CrashOK, FailOK
  <2>6. ASSUME NEW q \in Tools,
               \/ StartWalrus(q) \/ StartWithExpression(q) \/ StartWithCurrent(q)
               \/ Send(q) \/ GiveUp(q) \/ Serve(q) \/ Receive(q)
        PROVE  DbInv'
    BY <2>6, StartToolOK, AnsweringOK, ServeOK
  <2>7. CASE UNCHANGED vars
    BY <2>7 DEF vars, DbInv, Shape, FileOK, VersionMeansSchema, OneWriter, ProcOK, ProgramOK,
                OpenOK, TxOK, MigrateOK, WorkOK, Wrote, Leader
  <2> QED
    BY <2>1, <2>2, <2>3, <2>4, <2>5, <2>6, <2>7 DEF Next
<1> QED
  BY <1>1, <1>2, PTL DEF Spec

(* A file of version 11 has all the columns of version 11, and one of      *)
(* version 10 none of them, whoever dies in the middle of an upgrade, and  *)
(* however many processes upgrade at once; and whatever else fails, as long*)
(* as no upgrade has lost its transaction and gone on without.             *)
THEOREM SchemaIsWhole == Spec => []VersionMeansSchema
<1>1. DbInv => VersionMeansSchema
  BY DEF DbInv, FileOK
<1> QED
  BY <1>1, DbInvHolds, PTL

(* A file that no later start accepts is left behind only by a process     *)
(* that died, or could not write, while it created the tables.             *)
THEOREM UnusableIsAMishap == Spec => []UnusableOnlyAfterMishap
<1>1. DbInv => UnusableOnlyAfterMishap
  BY DEF DbInv, Leader, UnusableOnlyAfterMishap, Creating
<1> QED
  BY <1>1, DbInvHolds, PTL

(* Who waits for a migration, and is waited for by it, would have read the *)
(* columns that the migration is to write. *)
LEMMA NoneMigrates ==
    ASSUME DbInv, NEW a \in Procs, NEW b \in Procs, a # b, WaitsFor(a, b), WaitsFor(b, a)
    PROVE  proc[a].program = "walrus"
<1>1. /\ TxOK(a) /\ TxOK(b) /\ MigrateOK(a)
      /\ lock[a] \in {"none", "shared", "reserved", "pending"}
      /\ lock[b] \in {"none", "shared", "reserved", "pending"}
  BY DEF DbInv, Shape, ProcOK
<1>2. lock[a] # "none" /\ lock[b] # "none"
  BY DEF WaitsFor
<1>3. tx[a] = 1 /\ tx[b] = 1
  BY <1>1, <1>2 DEF TxOK
<1> SUFFICES ASSUME proc[a].pc \in Migrating PROVE FALSE
  BY <1>1, <1>3 DEF TxOK
<1>4. Wrote(a)
  BY <1>1, <1>2 DEF TxOK, Wrote
<1>5. lock[b] = "shared"
  BY <1>1, <1>2, <1>4 DEF DbInv, OneWriter, Wrote
<1>6. file.columns = Columns
  BY <1>1, <1>3, <1>5 DEF TxOK
<1>7. proc[a].pc = "end_migration" /\ proc[a].ok = 1
  BY <1>3, <1>5 DEF WaitsFor, Migrating, Success
<1> QED
  BY <1>1, <1>6, <1>7 DEF MigrateOK, Columns

(* Two processes never wait for each other's locks, except for two runs of *)
(* walrus, each in its transaction.                                        *)
THEOREM NoOtherDeadlock == Spec => []OnlyWalrusesDeadlock
<1>1. DbInv => OnlyWalrusesDeadlock
  BY NoneMigrates DEF OnlyWalrusesDeadlock
<1> QED
  BY <1>1, DbInvHolds, PTL

=============================================================================
