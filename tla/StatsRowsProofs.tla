----------------------------- MODULE StatsRowsProofs -----------------------------
(***************************************************************************)
(* What holds of the rows of the statistics database for any number of     *)
(* tools, any library, any plays and any commands: their types, the tags   *)
(* of albums, the play counts, the rows a command finds and what eugene    *)
(* understands of the answer.  StatsDbProofs has the invariant of the      *)
(* locks and versions that all of it rests on, StatsTablesProofs what is   *)
(* done to single rows and read of them.                                   *)
(***************************************************************************)
EXTENDS StatsDbProofs, StatsTablesProofs

(***************************************************************************)
(* What a step does to the rows: it keeps them, in the file as in what a   *)
(* transaction has made of it; it commits them; or it writes them, either  *)
(* outside of transactions, when there are no others, or in one.           *)
(***************************************************************************)
WorkTyped ==
    /\ work.version \in {-1, 0, 10, 11}
    /\ work.tables \subseteq Kinds /\ work.columns \subseteq Columns
    /\ TablesOK(work.rows)

RowsKept ==
    /\ file'.rows = file.rows
    /\ \A q \in Procs : Wrote(q)' => work'.rows = Seen(q).rows
    /\ TablesOK(file.rows) /\ WorkTyped => WorkTyped'

RowsCommitted ==
    /\ \E p \in Procs : Wrote(p)
    /\ file'.rows = work.rows
    /\ \A q \in Procs : ~ Wrote(q)'
    /\ WorkTyped'

RowsWritten(p, rows) ==
    /\ IF tx[p] = 1
       THEN /\ file'.rows = file.rows /\ work'.rows = rows
            /\ \A q \in Procs \ {p} : ~ Wrote(q) /\ ~ Wrote(q)'
       ELSE /\ file'.rows = rows
            /\ \A q \in Procs : ~ Wrote(q) /\ ~ Wrote(q)'
    /\ TablesOK(rows) /\ WorkTyped => WorkTyped'

LEMMA NoTablesOK == TablesOK(NoTables)
BY DEF TablesOK, NoTables

LEMMA NoFileTyped == ASSUME work' = NoFile PROVE WorkTyped'
BY NoTablesOK DEF WorkTyped, NoFile

LEMMA TypedSame == ASSUME work' = work, WorkTyped PROVE WorkTyped'
BY DEF WorkTyped

LEMMA KeptByNone == ASSUME UNCHANGED <<file, work, lock>> PROVE RowsKept
BY TypedSame DEF RowsKept, Seen, Wrote

LEMMA KeptByDatabase == ASSUME UNCHANGED database PROVE RowsKept
BY KeptByNone DEF database

LEMMA KeptByRead ==
    ASSUME DbInv, NEW p \in Procs, NEW found, Read(p, found)
    PROVE  RowsKept /\ \A q \in Procs : (Wrote(q)' <=> Wrote(q)) /\ (q # p => lock'[q] = lock[q])
<1>1. lock \in [Procs -> {"none", "shared", "reserved", "pending"}]
  BY DEF DbInv, Shape
<1>2. /\ UNCHANGED <<file, work, tx>>
      /\ lock' = IF lock[p] = "none" THEN [lock EXCEPT ![p] = Kept(p, found)] ELSE lock
      /\ Kept(p, found) \in {"none", "shared"}
  BY DEF Read, Kept
<1>3. \A q \in Procs : (Wrote(q)' <=> Wrote(q)) /\ (q # p => lock'[q] = lock[q])
  BY <1>1, <1>2 DEF Wrote
<1> QED
  BY <1>2, <1>3, TypedSame DEF RowsKept, Seen

LEMMA KeptByRollback ==
    ASSUME DbInv, NEW p \in Procs, Rollback(p)
    PROVE  /\ RowsKept /\ ~ Wrote(p)' /\ tx'[p] = 0
           /\ \A q \in Procs \ {p} : lock'[q] = lock[q] /\ tx'[q] = tx[q]
<1>1. lock \in [Procs -> {"none", "shared", "reserved", "pending"}] /\ tx \in [Procs -> {0, 1}]
  BY DEF DbInv, Shape
<1>2. /\ file' = file /\ work' = IF Wrote(p) THEN NoFile ELSE work
      /\ lock' = [lock EXCEPT ![p] = "none"] /\ tx' = [tx EXCEPT ![p] = 0]
  BY DEF Rollback
<1>3. ~ Wrote(p)' /\ \A q \in Procs \ {p} : Wrote(q)' <=> Wrote(q)
  BY <1>1, <1>2 DEF Wrote
<1>4. WorkTyped => WorkTyped'
  BY <1>2, NoFileTyped, TypedSame
<1>5. \A q \in Procs : Wrote(q)' => work'.rows = Seen(q).rows
  BY <1>2, <1>3 DEF DbInv, OneWriter, Seen
<1> QED
  BY <1>1, <1>2, <1>3, <1>4, <1>5 DEF RowsKept

LEMMA KeptByPend ==
    ASSUME DbInv, NEW p \in Procs, Pend(p)
    PROVE  /\ RowsKept /\ Wrote(p) /\ Wrote(p)' /\ tx' = tx
           /\ \A q \in Procs \ {p} : lock'[q] = lock[q]
<1>1. lock \in [Procs -> {"none", "shared", "reserved", "pending"}]
  BY DEF DbInv, Shape
<1>2. /\ lock[p] = "reserved" /\ lock' = [lock EXCEPT ![p] = "pending"]
      /\ UNCHANGED <<file, work, tx>>
  BY DEF Pend
<1>3. Wrote(p) /\ Wrote(p)' /\ \A q \in Procs \ {p} : lock'[q] = lock[q] /\ (Wrote(q)' <=> Wrote(q))
  BY <1>1, <1>2 DEF Wrote
<1>4. \A q \in Procs : Wrote(q)' => work'.rows = Seen(q).rows
  BY <1>2, <1>3 DEF Seen
<1> QED
  BY <1>2, <1>3, <1>4, TypedSame DEF RowsKept

LEMMA CommitIs ==
    ASSUME DbInv, NEW p \in Procs, Commit(p)
    PROVE  /\ RowsKept \/ RowsCommitted
           /\ ~ Wrote(p)' /\ tx'[p] = 0
           /\ \A q \in Procs \ {p} : lock'[q] = lock[q] /\ tx'[q] = tx[q]
<1>1. lock \in [Procs -> {"none", "shared", "reserved", "pending"}] /\ tx \in [Procs -> {0, 1}]
  BY DEF DbInv, Shape
<1>2. /\ Wrote(p) => \A q \in Procs \ {p} : lock[q] = "none"
      /\ file' = Seen(p) /\ work' = IF Wrote(p) THEN NoFile ELSE work
      /\ lock' = [lock EXCEPT ![p] = "none"] /\ tx' = [tx EXCEPT ![p] = 0]
  BY DEF Commit
<1>3. ~ Wrote(p)' /\ \A q \in Procs \ {p} : Wrote(q)' <=> Wrote(q)
  BY <1>1, <1>2 DEF Wrote
<1>4. CASE Wrote(p)
  <2>1. \A q \in Procs : ~ Wrote(q)'
    BY <1>2, <1>3, <1>4 DEF Wrote
  <2>2. RowsCommitted
    BY <1>2, <1>4, <2>1, NoFileTyped DEF RowsCommitted, Seen
  <2> QED
    BY <1>1, <1>2, <1>3, <2>2
<1>5. CASE ~ Wrote(p)
  <2>1. file' = file /\ work' = work
    BY <1>2, <1>5 DEF Seen
  <2>2. RowsKept
    BY <1>3, <1>5, <2>1, TypedSame DEF RowsKept, Seen
  <2> QED
    BY <1>1, <1>2, <1>3, <2>2
<1> QED
  BY <1>4, <1>5

LEMMA WriteIs ==
    ASSUME DbInv, NEW p \in Procs, NEW c, Write(p, c),
           c.version \in {-1, 0, 10, 11}, c.tables \subseteq Kinds, c.columns \subseteq Columns
    PROVE  /\ RowsWritten(p, c.rows) /\ (tx[p] = 1 => Wrote(p)') /\ tx' = tx
           /\ \A q \in Procs \ {p} : lock'[q] = lock[q]
<1>1. CASE tx[p] = 0
  <2>1. /\ file' = c /\ work' = work /\ tx' = tx
        /\ \A q \in Procs : lock'[q] = "none" /\ lock[q] = "none" /\ ~ Wrote(q) /\ ~ Wrote(q)'
    BY <1>1, WriteAlone
  <2> QED
    BY <1>1, <2>1, TypedSame DEF RowsWritten
<1>2. CASE tx[p] = 1
  <2>1. /\ work' = c /\ file' = file /\ tx' = tx /\ Wrote(p)'
        /\ \A q \in Procs \ {p} : lock'[q] = lock[q] /\ ~ Wrote(q)
    BY <1>2, WriteInside
  <2>2. \A q \in Procs \ {p} : ~ Wrote(q)'
    BY <2>1 DEF Wrote
  <2>3. TablesOK(c.rows) => WorkTyped'
    BY <2>1 DEF WorkTyped
  <2> QED
    BY <1>2, <2>1, <2>2, <2>3 DEF RowsWritten
<1>3. tx[p] \in {0, 1}
  BY DEF DbInv, Shape
<1> QED
  BY <1>1, <1>2, <1>3

LEMMA KeptByWrite ==
    ASSUME DbInv, NEW p \in Procs, NEW c, Write(p, c), c.rows = Seen(p).rows,
           c.version \in {-1, 0, 10, 11}, c.tables \subseteq Kinds, c.columns \subseteq Columns
    PROVE  RowsKept
<1>1. RowsWritten(p, c.rows) /\ tx[p] \in {0, 1}
  BY WriteIs DEF DbInv, Shape
<1>2. CASE tx[p] = 1
  <2>1. TablesOK(file.rows) /\ WorkTyped => TablesOK(Seen(p).rows)
    BY DEF Seen, WorkTyped
  <2> QED
    BY <1>1, <1>2, <2>1 DEF RowsWritten, RowsKept
<1>3. CASE tx[p] = 0
  <2>1. Seen(p) = file
    BY <1>1, <1>3 DEF RowsWritten, Seen
  <2> QED
    BY <1>1, <1>3, <2>1 DEF RowsWritten, RowsKept
<1> QED
  BY <1>1, <1>2, <1>3

-----------------------------------------------------------------------------
(***************************************************************************)
(* What the processes carry about: songs of the library, numbers, and, for *)
(* all but mpdcron, increments of 0.                                       *)
(***************************************************************************)
Opening == {"open", "create", "check", "prepare"} \union Migrating
Working == {"has", "write"}

(* A song that db_process has accepted, and one of the rows it has. *)
SongAt(r) ==
    /\ r.song \in Songs /\ ArtistOf[r.song] # None
    /\ r.at \in Kinds /\ NameOf(r.at, r.song) # None

RecordOK(p, r) ==
    /\ r.song \in Songs \union {None} /\ r.todo \in Seq(Songs)
    /\ r.increment \in Int /\ r.percent \in Int /\ (p # Daemon => r.increment = 0)
    /\ r.pc \in Working => SongAt(r)
    /\ r.program = "eugene" /\ r.pc \in Opening => r.song \in Songs
    /\ r.pc \notin {"off", "done"} => (r.program = "daemon" <=> p = Daemon)
    /\ r.ok \in {0, 1}
    /\ r.ok = 1 => r.pc \in Migrating \/ (r.pc \in {"ask", "asked"} /\ r.program = "eugene")

(* Whoever is in the middle of a song in a transaction has written in it.  *)
InTx(p) == Midway(p) /\ tx[p] = 1 => Wrote(p)

RunOK(p) == RecordOK(p, proc[p]) /\ InTx(p)

RunInv == \A p \in Procs : RunOK(p)

(* A step that moves one process, and leaves what it carries in order. *)
Frame(p) ==
    \A q \in Procs \ {p} : proc'[q] = proc[q] /\ lock'[q] = lock[q] /\ tx'[q] = tx[q]

LEMMA FrameRun ==
    ASSUME RunInv, NEW p \in Procs, Frame(p), RunOK(p)' PROVE RunInv'
<1>1. ASSUME NEW q \in Procs \ {p} PROVE RunOK(q)'
  <2>1. RunOK(q) /\ proc'[q] = proc[q] /\ lock'[q] = lock[q] /\ tx'[q] = tx[q]
    BY DEF RunInv, Frame
  <2> QED
    BY <2>1 DEF RunOK, RecordOK, InTx, Midway, Wrote, SongAt
<1> QED
  BY <1>1 DEF RunInv

LEMMA ProcIs ==
    ASSUME DbInv, NEW p \in Procs, NEW r, proc' = [proc EXCEPT ![p] = r]
    PROVE  proc'[p] = r /\ \A q \in Procs \ {p} : proc'[q] = proc[q]
BY DEF DbInv, Shape

(* The fields that a process takes along when it goes on. *)
Carried(r, s) ==
    /\ r.song = s.song /\ r.todo = s.todo /\ r.increment = s.increment
    /\ r.percent = s.percent /\ r.program = s.program

LEMMA AtSets ==
    ASSUME DbInv, NEW p \in Procs, NEW pc, NEW at, At(p, pc, at)
    PROVE  /\ proc'[p].pc = pc /\ proc'[p].at = at /\ proc'[p].ok = proc[p].ok
           /\ Carried(proc'[p], proc[p]) /\ \A q \in Procs \ {p} : proc'[q] = proc[q]
<1> DEFINE r == [proc[p] EXCEPT !.pc = pc, !.at = at]
<1>1. DOMAIN proc[p] = Fields
  BY DEF DbInv, Shape
<1>2. /\ r.pc = pc /\ r.at = at /\ r.ok = proc[p].ok
      /\ r.song = proc[p].song /\ r.todo = proc[p].todo /\ r.increment = proc[p].increment
      /\ r.percent = proc[p].percent /\ r.program = proc[p].program
  BY <1>1 DEF Fields
<1>3. proc' = [proc EXCEPT ![p] = r]
  BY DEF At
<1> HIDE DEF r
<1>4. proc'[p] = r /\ \A q \in Procs \ {p} : proc'[q] = proc[q]
  BY <1>3, ProcIs
<1> QED
  BY <1>2, <1>4 DEF Carried

LEMMA GotoSets ==
    ASSUME DbInv, NEW p \in Procs, NEW pc, Goto(p, pc)
    PROVE  /\ proc'[p].pc = pc /\ proc'[p].at = proc[p].at /\ proc'[p].ok = proc[p].ok
           /\ Carried(proc'[p], proc[p]) /\ \A q \in Procs \ {p} : proc'[q] = proc[q]
<1> DEFINE r == [proc[p] EXCEPT !.pc = pc]
<1>1. DOMAIN proc[p] = Fields
  BY DEF DbInv, Shape
<1>2. /\ r.pc = pc /\ r.at = proc[p].at /\ r.ok = proc[p].ok
      /\ r.song = proc[p].song /\ r.todo = proc[p].todo /\ r.increment = proc[p].increment
      /\ r.percent = proc[p].percent /\ r.program = proc[p].program
  BY <1>1 DEF Fields
<1>3. proc' = [proc EXCEPT ![p] = r]
  BY DEF Goto
<1> HIDE DEF r
<1>4. proc'[p] = r /\ \A q \in Procs \ {p} : proc'[q] = proc[q]
  BY <1>3, ProcIs
<1> QED
  BY <1>2, <1>4 DEF Carried

LEMMA OkSets ==
    ASSUME DbInv, NEW p \in Procs, NEW pc, NEW ok, SetOk(p, pc, ok)
    PROVE  /\ proc'[p].pc = pc /\ proc'[p].at = proc[p].at /\ proc'[p].ok = ok
           /\ Carried(proc'[p], proc[p]) /\ \A q \in Procs \ {p} : proc'[q] = proc[q]
<1> DEFINE r == [proc[p] EXCEPT !.pc = pc, !.ok = ok]
<1>1. DOMAIN proc[p] = Fields /\ proc = [q \in Procs |-> proc[q]]
  BY DEF DbInv, Shape
<1>2. /\ r.pc = pc /\ r.at = proc[p].at /\ r.ok = ok
      /\ r.song = proc[p].song /\ r.todo = proc[p].todo /\ r.increment = proc[p].increment
      /\ r.percent = proc[p].percent /\ r.program = proc[p].program
  BY <1>1 DEF Fields
<1>3. proc' = [proc EXCEPT ![p] = r]
  BY <1>1 DEF SetOk
<1> HIDE DEF r
<1>4. proc'[p] = r /\ \A q \in Procs \ {p} : proc'[q] = proc[q]
  BY <1>3, ProcIs
<1> QED
  BY <1>2, <1>4 DEF Carried

(* Who is in the middle of a song stays where it is, or leaves it torn, or *)
(* loses all of it with its transaction. *)
MidwayKept(p) ==
    /\ Midway(p)' =>
         /\ Midway(p) /\ proc'[p].at = proc[p].at /\ Carried(proc'[p], proc[p])
         /\ tx'[p] = tx[p]
    /\ Midway(p) /\ ~ Midway(p)' =>
         "torn" \in history' \/ (Wrote(p) /\ ~ Wrote(p)' /\ RowsKept)

(* A step that writes no row. *)
QuietStep(p) ==
    /\ Frame(p) /\ RunOK(p)'
    /\ RowsKept \/ RowsCommitted
    /\ MidwayKept(p)
    /\ proc'[p].pc = "ask" => proc'[p].ok = 0
    /\ UNCHANGED <<saved, moved>> /\ history \subseteq history'

LEMMA RestStep ==
    ASSUME DbInv, RunInv, NEW p \in Procs, Frame(p), RecordOK(p, proc'[p]),
           proc[p].pc \notin Working, proc'[p].pc \notin Working \union {"end"},
           proc'[p].pc = "ask" => proc'[p].ok = 0,
           RowsKept \/ RowsCommitted,
           UNCHANGED <<saved, moved>>, history \subseteq history'
    PROVE  QuietStep(p)
<1>1. RunOK(p)'
  BY DEF RunOK, InTx, Midway, Working, RecordOK, SongAt
<1>2. MidwayKept(p)
  BY DEF MidwayKept, Midway, Working
<1> QED
  BY <1>1, <1>2 DEF QuietStep

(* A process begins with a song, has none left, or is done with one.       *)
LEMMA BeginStep ==
    ASSUME DbInv, RunInv, NEW p \in Procs, Frame(p), RecordOK(p, proc'[p]),
           ~ Midway(p) \/ "torn" \in history' \/ (Wrote(p) /\ ~ Wrote(p)'),
           \/ proc'[p].pc = "end" \/ (proc'[p].pc \in Working /\ proc'[p].at = "song")
           \/ proc'[p].pc \in {"ready", "ask"} /\ proc'[p].ok = 0,
           RowsKept,
           UNCHANGED <<saved, moved>>, history \subseteq history'
    PROVE  QuietStep(p)
<1>1. RunOK(p)'
  BY DEF RunOK, InTx, Midway, Working, RecordOK, SongAt
<1>2. MidwayKept(p)
  BY DEF MidwayKept, Midway, Working
<1> QED
  BY <1>1, <1>2 DEF QuietStep, Working

LEMMA IdleOK ==
    ASSUME NEW p, NEW pc
    PROVE  /\ Idle(pc).pc = pc /\ (pc \in {"off", "done"} => RecordOK(p, Idle(pc)))
           /\ pc \in {"ready", "ask", "asked"} =>
                /\ p = Daemon => RecordOK(p, [Idle(pc) EXCEPT !.program = "daemon"])
                /\ [Idle(pc) EXCEPT !.program = "daemon"].pc = pc
<1>1. <<>> \in Seq(Songs)
  BY EmptySeq
<1> QED
  BY <1>1 DEF RecordOK, Idle, Working, Opening, Migrating

LEMMA CarriedOK ==
    ASSUME NEW p, NEW r, NEW s, RecordOK(p, s), Carried(r, s), s.pc \notin {"off", "done"},
           r.pc \in Working => SongAt(r),
           r.program = "eugene" /\ r.pc \in Opening => s.pc \in Opening,
           r.ok \in {0, 1},
           r.ok = 1 => r.pc \in Migrating \/ (r.pc \in {"ask", "asked"} /\ r.program = "eugene")
    PROVE  RecordOK(p, r)
BY DEF RecordOK, Carried

LEMMA TestedRecord ==
    ASSUME NEW p, NEW program \in {"daemon", "walrus"}, program = "daemon" <=> p = Daemon
    PROVE  RecordOK(p, Tested(program)) /\ Tested(program).pc = "open"
<1>1. <<>> \in Seq(Songs)
  BY EmptySeq
<1> QED
  BY <1>1 DEF RecordOK, Tested, Idle, Working, Opening, Migrating

LEMMA StartDaemonQuiet == ASSUME DbInv, RunInv, StartDaemon PROVE QuietStep(Daemon)
<1>1. /\ Daemon \in Procs /\ proc[Daemon].pc = "off"
      /\ proc' = [proc EXCEPT ![Daemon] = Tested("daemon")]
      /\ UNCHANGED <<file, work, lock, tx, saved, moved, history>>
  BY DEF StartDaemon, Procs, database
<1>2. proc'[Daemon] = Tested("daemon") /\ \A q \in Procs \ {Daemon} : proc'[q] = proc[q]
  BY <1>1, ProcIs
<1>3. RecordOK(Daemon, proc'[Daemon]) /\ proc'[Daemon].pc = "open"
  BY <1>2, TestedRecord
<1> QED
  BY <1>1, <1>2, <1>3, KeptByNone, RestStep DEF Frame, Working

LEMMA StartToolQuiet ==
    ASSUME DbInv, RunInv, NEW p \in Tools,
           StartWalrus(p) \/ StartWithExpression(p) \/ StartWithCurrent(p)
    PROVE  QuietStep(p)
<1>1. /\ p \in Procs /\ p # Daemon /\ proc[p].pc = "off"
      /\ UNCHANGED <<file, work, lock, tx, saved, moved, history>>
  BY DaemonAssumption DEF Procs, StartWalrus, StartWithExpression, StartWithCurrent, Connect, database
<1>2. ASSUME NEW r, proc' = [proc EXCEPT ![p] = r], RecordOK(p, r), r.pc \in {"open", "ask"}, r.ok = 0
      PROVE  QuietStep(p)
  <2>1. proc'[p] = r /\ \A q \in Procs \ {p} : proc'[q] = proc[q]
    BY <1>1, <1>2, ProcIs
  <2> QED
    BY <1>1, <1>2, <2>1, KeptByNone, RestStep DEF Frame, Working
<1>3. <<>> \in Seq(Songs)
  BY EmptySeq
<1>4. CASE StartWalrus(p)
  <2>1. proc' = [proc EXCEPT ![p] = Tested("walrus")] /\ Tested("walrus").ok = 0
    BY <1>4 DEF StartWalrus, Tested, Idle
  <2>2. RecordOK(p, Tested("walrus")) /\ Tested("walrus").pc = "open"
    BY <1>1, TestedRecord
  <2> QED
    BY <1>2, <2>1, <2>2
<1>5. CASE StartWithExpression(p)
  <2> DEFINE r == [Idle("ask") EXCEPT !.program = "eugene"]
  <2>1. RecordOK(p, r) /\ r.pc = "ask" /\ r.ok = 0
    BY <1>1, <1>3 DEF RecordOK, Idle, Working, Opening, Migrating
  <2>2. proc' = [proc EXCEPT ![p] = r]
    BY <1>5 DEF StartWithExpression
  <2> HIDE DEF r
  <2> QED
    BY <1>2, <2>1, <2>2
<1>6. CASE StartWithCurrent(p)
  <2>1. PICK s \in Playing, nodb \in BOOLEAN :
          proc' = [proc EXCEPT ![p] =
                    IF nodb THEN [Idle("ask") EXCEPT !.program = "eugene", !.song = s]
                    ELSE [Tested("eugene") EXCEPT !.song = s]]
    BY <1>6 DEF StartWithCurrent
  <2>2. s \in Songs
    BY LibraryAssumption
  <2> DEFINE a == [Idle("ask") EXCEPT !.program = "eugene", !.song = s]
             b == [Tested("eugene") EXCEPT !.song = s]
  <2>3. RecordOK(p, a) /\ a.pc = "ask" /\ a.ok = 0
    BY <1>1, <1>3, <2>2 DEF RecordOK, Idle, Working, Opening, Migrating
  <2>4. RecordOK(p, b) /\ b.pc = "open" /\ b.ok = 0
    BY <1>1, <1>3, <2>2 DEF RecordOK, Tested, Idle, Working, Opening, Migrating
  <2>5. proc' = [proc EXCEPT ![p] = a] \/ proc' = [proc EXCEPT ![p] = b]
    BY <2>1
  <2> HIDE DEF a, b
  <2> QED
    BY <1>2, <2>3, <2>4, <2>5
<1> QED
  BY <1>4, <1>5, <1>6

LEMMA TalkQuiet ==
    ASSUME DbInv, RunInv, NEW q \in Tools, Send(q) \/ GiveUp(q) \/ Receive(q)
    PROVE  QuietStep(q)
<1>1. /\ q \in Procs /\ q # Daemon /\ proc[q].pc \in {"ask", "asked"}
      /\ UNCHANGED <<file, work, lock, tx, saved, moved, history>>
  BY DaemonAssumption DEF Procs, Send, GiveUp, Receive, database
<1>2. ASSUME NEW r, proc' = [proc EXCEPT ![q] = r], RecordOK(q, r), r.pc \in {"done", "asked"}
      PROVE  QuietStep(q)
  <2>1. proc'[q] = r /\ \A p \in Procs \ {q} : proc'[p] = proc[p]
    BY <1>1, <1>2, ProcIs
  <2> QED
    BY <1>1, <1>2, <2>1, KeptByNone, RestStep DEF Frame, Working
<1>3. CASE GiveUp(q) \/ Receive(q)
  BY <1>2, <1>3, IdleOK DEF GiveUp, Receive
<1>4. CASE Send(q)
  <2> DEFINE ok == proc[q].ok
             r == [Idle("asked") EXCEPT !.program = "eugene", !.ok = ok]
  <2>1. ok \in {0, 1} /\ <<>> \in Seq(Songs)
    BY <1>1, EmptySeq DEF RunInv, RunOK, RecordOK
  <2>2. proc' = [proc EXCEPT ![q] = r]
    BY <1>4 DEF Send
  <2> HIDE DEF ok
  <2>3. RecordOK(q, r) /\ r.pc = "asked"
    BY <1>1, <2>1 DEF RecordOK, Idle, Working, Opening, Migrating
  <2> HIDE DEF r
  <2> QED
    BY <1>2, <2>2, <2>3
<1> QED
  BY <1>3, <1>4

LEMMA PlayQuiet == ASSUME DbInv, RunInv, Play PROVE QuietStep(Daemon)
<1>1. /\ Daemon \in Procs /\ proc[Daemon].pc = "ready" /\ DOMAIN proc[Daemon] = Fields
      /\ UNCHANGED <<file, work, lock, tx, saved, moved, history>>
      /\ RecordOK(Daemon, proc[Daemon])
  BY DEF Play, Procs, database, DbInv, Shape, RunInv, RunOK
<1>2. PICK s \in Playing, h \in Hearings :
        /\ ArtistOf[s] # None
        /\ proc' = [proc EXCEPT ![Daemon] =
             Processing([proc[Daemon] EXCEPT !.song = s, !.increment = h[1], !.percent = h[2]])]
  BY DEF Play
<1>3. h[1] \in Int /\ h[2] \in Int /\ s \in Songs
  BY HearingsAssumption, LibraryAssumption
<1> DEFINE i == h[1]
           c == h[2]
           a == [proc[Daemon] EXCEPT !.song = s, !.increment = i, !.percent = c]
           r == [a EXCEPT !.pc = "has", !.at = "song"]
<1>4. proc' = [proc EXCEPT ![Daemon] = r] /\ i \in Int /\ c \in Int
  BY <1>2, <1>3 DEF Processing
<1> HIDE DEF i, c
<1>5. /\ a.song = s /\ a.increment = i /\ a.percent = c /\ a.program = proc[Daemon].program
      /\ a.ok = proc[Daemon].ok /\ a.todo = proc[Daemon].todo /\ DOMAIN a = Fields
  BY <1>1 DEF Fields
<1> HIDE DEF a
<1>6. /\ r.pc = "has" /\ r.at = "song" /\ r.song = s /\ r.increment = i /\ r.percent = c
      /\ r.program = proc[Daemon].program /\ r.ok = proc[Daemon].ok /\ r.todo = proc[Daemon].todo
  BY <1>5 DEF Fields
<1> HIDE DEF r
<1>7. proc'[Daemon] = r /\ \A q \in Procs \ {Daemon} : proc'[q] = proc[q]
  BY <1>1, <1>4, ProcIs
<1>8. /\ proc[Daemon].ok = 0 /\ proc[Daemon].program = "daemon"
      /\ proc[Daemon].todo \in Seq(Songs)
  BY <1>1 DEF RecordOK, Migrating
<1>9. SongAt(r)
  BY <1>2, <1>3, <1>6, SongsAssumption DEF SongAt, Kinds, NameOf
<1>10. RecordOK(Daemon, r)
  BY <1>3, <1>4, <1>6, <1>8, <1>9 DEF RecordOK, SongAt, Opening, Migrating
<1> QED
  BY <1>1, <1>6, <1>7, <1>8, <1>10, KeptByNone, BeginStep DEF Frame, Working, Midway

-----------------------------------------------------------------------------
(* db_init. *)
LEMMA OpeningIs ==
    ASSUME RunInv, NEW p \in Procs, proc[p].pc \in Opening
    PROVE  /\ RecordOK(p, proc[p]) /\ proc[p].pc \notin Working
           /\ proc[p].pc \notin {"off", "done"} /\ proc[p].ok \in {0, 1}
           /\ proc[p].pc \notin Migrating => proc[p].ok = 0
BY DEF RunInv, RunOK, RecordOK, Opening, Migrating, Working

LEMMA InitFailsIdle ==
    ASSUME DbInv, RunInv, NEW p \in Procs, proc[p].pc \in Opening, InitFails(p)
    PROVE  /\ proc'[p].pc \in {"off", "done", "ask"} /\ RecordOK(p, proc'[p])
           /\ proc'[p].ok = 0 /\ \A q \in Procs \ {p} : proc'[q] = proc[q]
<1>1. proc[p].program \in {"daemon", "walrus", "eugene"} /\ proc = [q \in Procs |-> proc[q]]
  BY OpeningIs DEF DbInv, Shape, ProcOK, ProgramOK
<1>2. \/ proc' = [proc EXCEPT ![p] = Idle("off")]
      \/ proc' = [proc EXCEPT ![p] = Idle("done")]
      \/ SetOk(p, "ask", 0) /\ proc[p].program = "eugene"
  BY <1>1 DEF InitFails, SetOk
<1>3. CASE proc' = [proc EXCEPT ![p] = Idle("off")]
  <2>1. proc'[p] = Idle("off") /\ \A q \in Procs \ {p} : proc'[q] = proc[q]
    BY <1>3, ProcIs
  <2>2. RecordOK(p, Idle("off")) /\ Idle("off").pc = "off" /\ Idle("off").ok = 0
    BY IdleOK, IdleIs
  <2> QED
    BY <2>1, <2>2
<1>4. CASE proc' = [proc EXCEPT ![p] = Idle("done")]
  <2>1. proc'[p] = Idle("done") /\ \A q \in Procs \ {p} : proc'[q] = proc[q]
    BY <1>4, ProcIs
  <2>2. RecordOK(p, Idle("done")) /\ Idle("done").pc = "done" /\ Idle("done").ok = 0
    BY IdleOK, IdleIs
  <2> QED
    BY <2>1, <2>2
<1>5. CASE SetOk(p, "ask", 0) /\ proc[p].program = "eugene"
  <2>1. /\ proc'[p].pc = "ask" /\ proc'[p].ok = 0 /\ Carried(proc'[p], proc[p])
        /\ \A q \in Procs \ {p} : proc'[q] = proc[q]
    BY <1>5, OkSets
  <2>2. RecordOK(p, proc'[p])
    BY <2>1, OpeningIs, CarriedOK DEF Working, Opening, Migrating
  <2> QED
    BY <2>1, <2>2
<1> QED
  BY <1>2, <1>3, <1>4, <1>5

LEMMA InitFailsQuiet ==
    ASSUME DbInv, RunInv, NEW p \in Procs, proc[p].pc \in Opening, InitFails(p), RowsKept,
           \A q \in Procs \ {p} : lock'[q] = lock[q] /\ tx'[q] = tx[q],
           UNCHANGED <<saved, moved>>, history \subseteq history'
    PROVE  QuietStep(p)
BY OpeningIs, InitFailsIdle, RestStep DEF Frame, Working

(* One step of db_init to the next. *)
LEMMA OpeningQuiet ==
    ASSUME DbInv, RunInv, NEW p \in Procs, proc[p].pc \in Opening,
           \A q \in Procs \ {p} : proc'[q] = proc[q] /\ lock'[q] = lock[q] /\ tx'[q] = tx[q],
           Carried(proc'[p], proc[p]),
           proc'[p].pc \in Opening \union {"ready", "ask"},
           proc'[p].ok \in {0, 1}, proc'[p].ok = 1 => proc'[p].pc \in Migrating,
           RowsKept \/ RowsCommitted,
           UNCHANGED <<saved, moved>>, history \subseteq history'
    PROVE  QuietStep(p)
<1>1. RecordOK(p, proc'[p])
  BY OpeningIs, CarriedOK DEF Working, Opening, Migrating
<1> QED
  BY <1>1, OpeningIs, RestStep DEF Frame, Working, Opening, Migrating

LEMMA OpenQuiet == ASSUME DbInv, RunInv, NEW p \in Procs, Open(p) PROVE QuietStep(p)
<1>1. /\ proc[p].pc = "open" /\ UNCHANGED <<work, lock, tx, saved, moved, history>>
      /\ file' = IF file.version = -1 THEN [file EXCEPT !.version = 0] ELSE file
      /\ At(p, "create", "song") \/ Goto(p, "check")
  BY DEF Open
<1>2. proc[p].pc \in Opening /\ proc[p].ok = 0
  BY <1>1, OpeningIs DEF Opening, Migrating
<1>3. /\ proc'[p].pc \in {"create", "check"} /\ proc'[p].ok = 0 /\ Carried(proc'[p], proc[p])
      /\ \A q \in Procs \ {p} : proc'[q] = proc[q]
  BY <1>1, <1>2, AtSets, GotoSets
<1>4. file'.rows = file.rows
  BY <1>1 DEF DbInv, Shape, FileFields
<1>5. RowsKept
  BY <1>1, <1>4, TypedSame DEF RowsKept, Seen, Wrote
<1> QED
  BY <1>1, <1>2, <1>3, <1>5, OpeningQuiet DEF Opening

LEMMA CreateQuiet == ASSUME DbInv, RunInv, NEW p \in Procs, Create(p) PROVE QuietStep(p)
<1> DEFINE at == proc[p].at
           c == IF at = "version" THEN [file EXCEPT !.version = 11]
                ELSE [file EXCEPT !.tables = @ \union {at},
                                  !.columns = IF at = "song" THEN Columns ELSE @]
<1>1. /\ proc[p].pc = "create" /\ UNCHANGED <<saved, moved, history>>
      /\ at \in DOMAIN Before
  BY DEF Create, DbInv, ProcOK, OpenOK
<1>2. proc[p].pc \in Opening /\ proc[p].ok = 0
  BY <1>1, OpeningIs DEF Opening, Migrating
<1>3. CASE at \in file.tables
  <2>1. InitFails(p) /\ UNCHANGED <<file, work, lock, tx>>
    BY <1>3 DEF Create, database
  <2> QED
    BY <1>1, <1>2, <2>1, KeptByNone, InitFailsQuiet
<1>4. CASE at \notin file.tables
  <2>1. Write(p, c) /\ (At(p, "prepare", "none") \/ At(p, "create", NextTable(at)))
    BY <1>4 DEF Create
  <2>2. /\ DOMAIN file = FileFields /\ file.version \in {-1, 0, 10, 11}
        /\ file.tables \subseteq Kinds /\ file.columns \subseteq Columns
    BY DEF DbInv, Shape, FileOK
  <2>3. at = "version" \/ at \in Kinds
    BY <1>1, NextTableIs
  <2>4. /\ c.rows = file.rows /\ c.version \in {-1, 0, 10, 11}
        /\ c.tables \subseteq Kinds /\ c.columns \subseteq Columns
    BY <2>2, <2>3 DEF FileFields
  <2>5. ~ Wrote(p) /\ Seen(p) = file
    BY <1>1, NoTx DEF Migrating, Seen
  <2> HIDE DEF c, at
  <2>6. RowsKept /\ tx' = tx /\ \A q \in Procs \ {p} : lock'[q] = lock[q]
    BY <2>1, <2>4, <2>5, WriteIs, KeptByWrite
  <2>7. /\ proc'[p].pc \in {"prepare", "create"} /\ proc'[p].ok = 0 /\ Carried(proc'[p], proc[p])
        /\ \A q \in Procs \ {p} : proc'[q] = proc[q]
    BY <1>2, <2>1, AtSets
  <2> QED
    BY <1>1, <1>2, <2>6, <2>7, OpeningQuiet DEF Opening
<1> QED
  BY <1>3, <1>4

LEMMA CheckQuiet == ASSUME DbInv, RunInv, NEW p \in Procs, Check(p) PROVE QuietStep(p)
<1>1. /\ proc[p].pc = "check" /\ UNCHANGED <<file, work, lock, saved, moved, history>>
      /\ RowsKept
  BY KeptByNone DEF Check
<1>2. proc[p].pc \in Opening /\ proc[p].ok = 0 /\ tx \in [Procs -> {0, 1}]
  BY <1>1, OpeningIs DEF Opening, Migrating, DbInv, Shape
<1>3. CASE InitFails(p) /\ UNCHANGED tx
  BY <1>1, <1>2, <1>3, InitFailsQuiet
<1>4. CASE Goto(p, "prepare") /\ UNCHANGED tx
  <2>1. /\ proc'[p].pc = "prepare" /\ proc'[p].ok = 0 /\ Carried(proc'[p], proc[p])
        /\ \A q \in Procs \ {p} : proc'[q] = proc[q]
    BY <1>2, <1>4, GotoSets
  <2> QED
    BY <1>1, <1>2, <1>4, <2>1, OpeningQuiet DEF Opening
<1>5. CASE /\ proc' = [proc EXCEPT ![p].pc = "migrate", ![p].at = "last_played", ![p].ok = 1]
           /\ tx' = [tx EXCEPT ![p] = 1]
  <2> DEFINE r == [proc[p] EXCEPT !.pc = "migrate", !.at = "last_played", !.ok = 1]
  <2>1. DOMAIN proc[p] = Fields /\ proc = [q \in Procs |-> proc[q]]
    BY DEF DbInv, Shape
  <2>2. proc' = [proc EXCEPT ![p] = r]
    BY <1>5, <2>1
  <2>3. r.pc = "migrate" /\ r.ok = 1 /\ Carried(r, proc[p])
    BY <2>1 DEF Fields, Carried
  <2> HIDE DEF r
  <2>4. proc'[p] = r /\ \A q \in Procs \ {p} : proc'[q] = proc[q]
    BY <2>2, ProcIs
  <2>5. \A q \in Procs \ {p} : tx'[q] = tx[q]
    BY <1>2, <1>5
  <2> QED
    BY <1>1, <1>2, <2>3, <2>4, <2>5, OpeningQuiet DEF Opening, Migrating
<1>6. file.version \in {-1, 0, 10, 11}
  BY DEF DbInv, FileOK
<1> QED
  BY <1>3, <1>4, <1>5, <1>6 DEF Check

LEMMA SeenTyped ==
    ASSUME DbInv, WorkTyped, NEW p \in Procs
    PROVE  /\ DOMAIN Seen(p) = FileFields
           /\ Seen(p).version \in {-1, 0, 10, 11}
           /\ Seen(p).tables \subseteq Kinds /\ Seen(p).columns \subseteq Columns
BY DEF DbInv, Shape, FileOK, Seen, WorkTyped

LEMMA MigrateQuiet == ASSUME DbInv, RunInv, WorkTyped, NEW p \in Procs, Migrate(p) PROVE QuietStep(p)
<1> DEFINE at == proc[p].at
           c == [Seen(p) EXCEPT !.columns = @ \union {at}]
<1>1. /\ proc[p].pc = "migrate" /\ UNCHANGED <<saved, moved, history>>
      /\ at \in {"last_played", "karma"} /\ proc[p].ok \in {0, 1}
  BY DEF Migrate, DbInv, ProcOK, MigrateOK, Migrating
<1>2. proc[p].pc \in Opening
  BY <1>1 DEF Opening, Migrating
<1>3. CASE at \in Seen(p).columns
  <2>1. SetOk(p, "set_version", 0) /\ UNCHANGED <<file, work, lock, tx>>
    BY <1>3 DEF Migrate, SetOk, database
  <2>2. /\ proc'[p].pc = "set_version" /\ proc'[p].ok = 0 /\ Carried(proc'[p], proc[p])
        /\ \A q \in Procs \ {p} : proc'[q] = proc[q]
    BY <2>1, OkSets
  <2> QED
    BY <1>1, <1>2, <2>1, <2>2, KeptByNone, OpeningQuiet DEF Opening, Migrating
<1>4. CASE at \notin Seen(p).columns
  <2>1. Write(p, c) /\ (At(p, "migrate", "karma") \/ Goto(p, "set_version"))
    BY <1>4 DEF Migrate
  <2>2. /\ c.rows = Seen(p).rows /\ c.version \in {-1, 0, 10, 11}
        /\ c.tables \subseteq Kinds /\ c.columns \subseteq Columns
    BY <1>1, SeenTyped DEF FileFields, Columns
  <2> HIDE DEF c
  <2>3. RowsKept /\ tx' = tx /\ \A q \in Procs \ {p} : lock'[q] = lock[q]
    BY <2>1, <2>2, WriteIs, KeptByWrite
  <2>4. /\ proc'[p].pc \in {"migrate", "set_version"} /\ proc'[p].ok = proc[p].ok
        /\ Carried(proc'[p], proc[p])
        /\ \A q \in Procs \ {p} : proc'[q] = proc[q]
    BY <1>1, <2>1, AtSets, GotoSets
  <2> QED
    BY <1>1, <1>2, <2>3, <2>4, OpeningQuiet DEF Opening, Migrating
<1> QED
  BY <1>3, <1>4

LEMMA SetVersionQuiet ==
    ASSUME DbInv, RunInv, WorkTyped, NEW p \in Procs, SetVersion(p) PROVE QuietStep(p)
<1> DEFINE c == [Seen(p) EXCEPT !.version = 11]
<1>1. /\ proc[p].pc = "set_version" /\ UNCHANGED <<saved, moved, history>>
      /\ Write(p, c) /\ At(p, "end_migration", "none")
  BY DEF SetVersion
<1>2. proc[p].pc \in Opening /\ proc[p].ok \in {0, 1}
  BY <1>1, OpeningIs DEF Opening, Migrating
<1>3. /\ c.rows = Seen(p).rows /\ c.version \in {-1, 0, 10, 11}
      /\ c.tables \subseteq Kinds /\ c.columns \subseteq Columns
  BY SeenTyped DEF FileFields
<1> HIDE DEF c
<1>4. RowsKept /\ tx' = tx /\ \A q \in Procs \ {p} : lock'[q] = lock[q]
  BY <1>1, <1>3, WriteIs, KeptByWrite
<1>5. /\ proc'[p].pc = "end_migration" /\ proc'[p].ok = proc[p].ok /\ Carried(proc'[p], proc[p])
      /\ \A q \in Procs \ {p} : proc'[q] = proc[q]
  BY <1>1, AtSets
<1> QED
  BY <1>1, <1>2, <1>4, <1>5, OpeningQuiet DEF Opening, Migrating

LEMMA EndMigrationQuiet ==
    ASSUME DbInv, RunInv, NEW p \in Procs, EndMigration(p) PROVE QuietStep(p)
<1>1. proc[p].pc = "end_migration" /\ UNCHANGED <<saved, moved, history>>
  BY DEF EndMigration
<1>2. proc[p].pc \in Opening /\ proc[p].ok \in {0, 1}
  BY <1>1, OpeningIs DEF Opening, Migrating
<1>3. CASE Commit(p) /\ proc' = [proc EXCEPT ![p].pc = "prepare", ![p].ok = 0]
  <2>1. SetOk(p, "prepare", 0)
    BY <1>3 DEF SetOk
  <2>2. /\ proc'[p].pc = "prepare" /\ proc'[p].ok = 0 /\ Carried(proc'[p], proc[p])
        /\ \A q \in Procs \ {p} : proc'[q] = proc[q]
    BY <2>1, OkSets
  <2>3. /\ RowsKept \/ RowsCommitted
        /\ \A q \in Procs \ {p} : lock'[q] = lock[q] /\ tx'[q] = tx[q]
    BY <1>3, CommitIs
  <2> QED
    BY <1>1, <1>2, <2>2, <2>3, OpeningQuiet DEF Opening
<1>4. CASE Pend(p) /\ UNCHANGED proc
  <2>1. RowsKept /\ tx' = tx /\ \A q \in Procs \ {p} : lock'[q] = lock[q]
    BY <1>4, KeptByPend
  <2> QED
    BY <1>1, <1>2, <1>4, <2>1, OpeningQuiet DEF Opening, Migrating, Carried
<1>5. CASE Rollback(p) /\ InitFails(p)
  BY <1>1, <1>2, <1>5, KeptByRollback, InitFailsQuiet
<1> QED
  BY <1>3, <1>4, <1>5 DEF EndMigration

LEMMA MinInside == ASSUME NEW S \in SUBSET Nat, S # {} PROVE Min(S) \in S
<1> DEFINE less == OpToRel(<, Nat)
<1>1. PICK n \in S : \A j \in S : ~ (<<j, n>> \in less)
  <2> HIDE DEF less
  <2> QED
    BY NatLessThanWellFounded, WFMin DEF less
<1>2. \A j \in S : n <= j
  <2> SUFFICES ASSUME NEW j \in S, ~ (n <= j) PROVE FALSE
    OBVIOUS
  <2>1. j \in Nat /\ n \in Nat /\ j < n
    OBVIOUS
  <2> QED
    BY <1>1, <2>1 DEF OpToRel
<1>3. \E m \in S : \A j \in S : m <= j
  BY <1>2
<1> QED
  BY <1>3 DEF Min

LEMMA NextSongOK ==
    ASSUME NEW p \in Procs, p # Daemon, NEW r, DOMAIN r = Fields, r.todo \in Seq(Songs),
           r.program = "walrus", r.increment = 0, r.percent \in Int, r.ok = 0
    PROVE  /\ RecordOK(p, NextSong(r)) /\ NextSong(r).program = "walrus"
           /\ \/ NextSong(r).pc = "end"
              \/ NextSong(r).pc \in Working /\ NextSong(r).at = "song"
<1> DEFINE tagged == {i \in DOMAIN r.todo : ArtistOf[r.todo[i]] # None}
           next == Min(tagged)
           song == r.todo[next]
           todo == SubSeq(r.todo, next + 1, Len(r.todo))
           e == [r EXCEPT !.pc = "end", !.song = None, !.at = "none", !.todo = <<>>]
           a == [r EXCEPT !.song = song, !.todo = todo]
           h == [a EXCEPT !.pc = "has", !.at = "song"]
<1>1. NextSong(r) = IF tagged = {} THEN e ELSE h
  BY DEF NextSong, Processing
<1>2. <<>> \in Seq(Songs)
  BY EmptySeq
<1>3. ASSUME tagged # {} PROVE song \in Songs /\ ArtistOf[song] # None /\ todo \in Seq(Songs)
  <2>1. tagged \in SUBSET Nat /\ Len(r.todo) \in Nat /\ DOMAIN r.todo = 1 .. Len(r.todo)
    OBVIOUS
  <2>2. next \in tagged
    <3> HIDE DEF tagged
    <3> QED
      BY <1>3, <2>1, MinInside
  <2>3. next \in 1 .. Len(r.todo) /\ ArtistOf[song] # None
    BY <2>1, <2>2
  <2> HIDE DEF next
  <2>4. song \in Songs
    BY <2>3, ElementOfSeq
  <2>5. \A i \in next + 1 .. Len(r.todo) : r.todo[i] \in Songs
    BY <2>3, ElementOfSeq
  <2>6. todo \in Seq(Songs)
    BY <2>1, <2>3, <2>5, SubSeqProperties
  <2> QED
    BY <2>3, <2>4, <2>6
<1> HIDE DEF tagged, next, song, todo
<1>4. CASE tagged = {}
  <2>1. e.pc = "end" /\ e.program = "walrus" /\ RecordOK(p, e)
    BY <1>2 DEF Fields, RecordOK, Working, Opening, Migrating
  <2> HIDE DEF e
  <2> QED
    BY <1>1, <1>4, <2>1
<1>5. CASE tagged # {}
  <2>1. /\ a.song = song /\ a.todo = todo /\ a.program = "walrus" /\ a.increment = 0
        /\ a.percent = r.percent /\ a.ok = 0 /\ DOMAIN a = Fields
    BY DEF Fields
  <2> HIDE DEF a
  <2>2. /\ h.song = song /\ h.todo = todo /\ h.program = "walrus" /\ h.increment = 0
        /\ h.percent = r.percent /\ h.ok = 0 /\ h.pc = "has" /\ h.at = "song"
    BY <2>1 DEF Fields
  <2> HIDE DEF h
  <2>3. SongAt(h)
    BY <1>3, <1>5, <2>2, SongsAssumption DEF SongAt, Kinds, NameOf
  <2>4. RecordOK(p, h)
    BY <1>3, <1>5, <2>2, <2>3 DEF RecordOK, SongAt, Opening, Migrating
  <2> QED
    BY <1>1, <1>5, <2>2, <2>4 DEF Working
<1> QED
  BY <1>4, <1>5

LEMMA PrepareQuiet == ASSUME DbInv, RunInv, NEW p \in Procs, Prepare(p) PROVE QuietStep(p)
<1>1. /\ proc[p].pc = "prepare" /\ UNCHANGED <<file, work, lock, saved, moved, history>>
      /\ RowsKept /\ ~ Midway(p)
  BY KeptByNone DEF Prepare, Midway
<1>2. /\ proc[p].pc \in Opening /\ proc[p].ok = 0 /\ tx \in [Procs -> {0, 1}] /\ DOMAIN proc[p] = Fields
      /\ RecordOK(p, proc[p])
      /\ proc[p].program \in {"daemon", "walrus", "eugene"}
  BY <1>1, OpeningIs DEF Opening, Migrating, DbInv, Shape, ProcOK, ProgramOK
<1>3. CASE InitFails(p) /\ UNCHANGED tx
  BY <1>1, <1>2, <1>3, InitFailsQuiet
<1>4. CASE ~ (InitFails(p) /\ UNCHANGED tx)
  <2>1. /\ tx' = [tx EXCEPT ![p] = IF Begins(proc[p].program) THEN 1 ELSE 0]
        /\ CASE proc[p].program = "daemon" -> Goto(p, "ready")
             [] proc[p].program = "eugene" ->
                  IF ArtistOf[proc[p].song] = None THEN Goto(p, "ask")
                  ELSE proc' = [proc EXCEPT ![p] = Processing(proc[p])]
             [] proc[p].program = "walrus" ->
                  proc' = [proc EXCEPT ![p] = NextSong([proc[p] EXCEPT !.todo = Library[p]])]
    BY <1>4 DEF Prepare
  <2>2. \A q \in Procs \ {p} : tx'[q] = tx[q]
    BY <1>2, <2>1
  <2>3. CASE Goto(p, "ready") \/ Goto(p, "ask")
    <3>1. /\ proc'[p].pc \in {"ready", "ask"} /\ proc'[p].ok = 0 /\ Carried(proc'[p], proc[p])
          /\ \A q \in Procs \ {p} : proc'[q] = proc[q]
      BY <1>2, <2>3, GotoSets
    <3> QED
      BY <1>1, <1>2, <2>2, <3>1, OpeningQuiet
  <2>4. CASE /\ proc[p].program = "eugene" /\ ArtistOf[proc[p].song] # None
             /\ proc' = [proc EXCEPT ![p] = Processing(proc[p])]
    <3> DEFINE r == [proc[p] EXCEPT !.pc = "has", !.at = "song"]
    <3>1. r.pc = "has" /\ r.at = "song" /\ r.ok = 0 /\ Carried(r, proc[p])
      BY <1>2 DEF Fields, Carried
    <3>2. proc' = [proc EXCEPT ![p] = r]
      BY <2>4 DEF Processing
    <3> HIDE DEF r
    <3>3. proc'[p] = r /\ \A q \in Procs \ {p} : proc'[q] = proc[q]
      BY <3>2, ProcIs
    <3>4. SongAt(r)
      BY <1>2, <2>4, <3>1, SongsAssumption DEF SongAt, Carried, Kinds, NameOf, RecordOK
    <3>5. RecordOK(p, r)
      BY <1>1, <1>2, <3>1, <3>4, CarriedOK DEF Opening, Migrating
    <3> QED
      BY <1>1, <2>2, <2>4, <3>1, <3>3, <3>5, BeginStep DEF Frame, Working, Carried
  <2>5. CASE /\ proc[p].program = "walrus"
             /\ proc' = [proc EXCEPT ![p] = NextSong([proc[p] EXCEPT !.todo = Library[p]])]
    <3> DEFINE r == [proc[p] EXCEPT !.todo = Library[p]]
    <3>1. /\ DOMAIN r = Fields /\ r.todo = Library[p] /\ r.program = "walrus"
          /\ r.increment = proc[p].increment /\ r.percent = proc[p].percent /\ r.ok = 0
      BY <1>2, <2>5 DEF Fields
    <3>2. p # Daemon /\ proc[p].increment = 0 /\ proc[p].percent \in Int
      BY <1>1, <1>2, <2>5 DEF RecordOK
    <3>3. proc' = [proc EXCEPT ![p] = NextSong(r)]
      BY <2>5
    <3> HIDE DEF r
    <3>4. /\ RecordOK(p, NextSong(r)) /\ NextSong(r).program = "walrus"
          /\ \/ NextSong(r).pc = "end"
             \/ NextSong(r).pc \in Working /\ NextSong(r).at = "song"
      <4>1. p \in Tools
        BY <3>2 DEF Procs
      <4>2. Library[p] \in Seq(Songs)
        BY <4>1, LibraryAssumption
      <4> QED
        BY <3>1, <3>2, <4>2, NextSongOK
    <3>5. proc'[p] = NextSong(r) /\ \A q \in Procs \ {p} : proc'[q] = proc[q]
      BY <3>3, ProcIs
    <3> QED
      BY <1>1, <2>2, <3>4, <3>5, BeginStep DEF Frame
  <2> QED
    BY <1>2, <2>1, <2>3, <2>4, <2>5
<1> QED
  BY <1>3, <1>4

-----------------------------------------------------------------------------
(* db_process and the end of walrus. *)
LEMMA WorkingRuns ==
    ASSUME DbInv, RunInv, NEW p \in Procs, proc[p].pc \in Working
    PROVE  /\ RecordOK(p, proc[p]) /\ SongAt(proc[p]) /\ DOMAIN proc[p] = Fields
           /\ proc[p].ok = 0 /\ tx[p] \in {0, 1}
           /\ proc[p].program \in {"daemon", "walrus", "eugene"}
           /\ proc[p].program = "daemon" <=> p = Daemon
           /\ tx[p] = 1 => proc[p].program = "walrus"
<1>1. RecordOK(p, proc[p]) /\ SongAt(proc[p]) /\ InTx(p)
  BY DEF RunInv, RunOK, RecordOK
<1>2. /\ proc[p].program \in {"daemon", "walrus", "eugene"} /\ tx[p] \in {0, 1}
      /\ DOMAIN proc[p] = Fields
      /\ tx[p] = 1 => proc[p].program = "walrus"
  BY WorkingIs DEF Working
<1>3. proc[p].ok = 0
  BY <1>1 DEF RecordOK, Working, Migrating
<1>4. proc[p].program = "daemon" <=> p = Daemon
  BY <1>1 DEF RecordOK, Working
<1> QED
  BY <1>1, <1>2, <1>3, <1>4 DEF InTx

LEMMA WalrusGoesOn ==
    ASSUME DbInv, RunInv, NEW p \in Procs, proc[p].pc \in Working, proc[p].program = "walrus",
           NEW r, DOMAIN r = Fields, r.todo \in Seq(Songs),
           r.program = proc[p].program, r.increment = proc[p].increment,
           r.percent = proc[p].percent, r.ok = proc[p].ok,
           proc' = [proc EXCEPT ![p] = NextSong(r)]
    PROVE  /\ RecordOK(p, proc'[p]) /\ \A q \in Procs \ {p} : proc'[q] = proc[q]
           /\ proc'[p].program = "walrus"
           /\ \/ proc'[p].pc = "end"
              \/ proc'[p].pc \in Working /\ proc'[p].at = "song"
<1>1. RecordOK(p, proc[p]) /\ proc[p].ok = 0 /\ p # Daemon
  BY WorkingRuns
<1>3. r.program = "walrus" /\ r.increment = 0 /\ r.percent \in Int /\ r.ok = 0
  BY <1>1 DEF RecordOK
<1>4. proc'[p] = NextSong(r) /\ \A q \in Procs \ {p} : proc'[q] = proc[q]
  BY ProcIs
<1> QED
  BY <1>1, <1>3, <1>4, NextSongOK

LEMMA CutShortQuiet == ASSUME DbInv, RunInv, NEW p \in Procs, CutShort(p) PROVE QuietStep(p)
<1> DEFINE r == [proc[p] EXCEPT !.todo = <<>>]
<1>1. /\ proc[p].pc \in Working /\ proc[p].program = "walrus" /\ ~ Midway(p)
      /\ proc' = [proc EXCEPT ![p] = NextSong(r)]
      /\ UNCHANGED <<file, work, lock, tx, saved, moved, history>>
  BY DEF CutShort, Working, Midway, database
<1>2. DOMAIN proc[p] = Fields /\ <<>> \in Seq(Songs)
  BY EmptySeq DEF DbInv, Shape
<1>3. /\ DOMAIN r = Fields /\ r.todo \in Seq(Songs)
      /\ r.program = proc[p].program /\ r.increment = proc[p].increment
      /\ r.percent = proc[p].percent /\ r.ok = proc[p].ok
  BY <1>2 DEF Fields
<1> HIDE DEF r
<1>4. /\ RecordOK(p, proc'[p]) /\ \A q \in Procs \ {p} : proc'[q] = proc[q]
      /\ proc'[p].program = "walrus"
      /\ \/ proc'[p].pc = "end"
         \/ proc'[p].pc \in Working /\ proc'[p].at = "song"
  BY <1>1, <1>3, WalrusGoesOn
<1> QED
  BY <1>1, <1>4, KeptByNone, BeginStep DEF Frame

LEMMA HasQuiet == ASSUME DbInv, RunInv, NEW p \in Procs, Has(p) PROVE QuietStep(p)
<1> DEFINE found == IF NameOf(proc[p].at, proc[p].song) \in DOMAIN Seen(p).rows[proc[p].at] THEN 1 ELSE 0
           r == [proc[p] EXCEPT !.pc = "write", !.found = found]
<1>1. /\ proc[p].pc = "has" /\ Read(p, found) /\ UNCHANGED <<tx, saved, moved, history>>
      /\ proc' = [proc EXCEPT ![p].pc = "write", ![p].found = found]
  BY DEF Has, Read
<1> HIDE DEF found
<1>2. /\ RecordOK(p, proc[p]) /\ SongAt(proc[p]) /\ DOMAIN proc[p] = Fields /\ InTx(p)
      /\ proc = [q \in Procs |-> proc[q]]
  BY <1>1, WorkingRuns DEF Working, DbInv, Shape, RunInv, RunOK
<1>3. proc' = [proc EXCEPT ![p] = r]
  BY <1>1, <1>2
<1>4. r.pc = "write" /\ r.at = proc[p].at /\ r.ok = proc[p].ok /\ Carried(r, proc[p])
  BY <1>2 DEF Fields, Carried
<1> HIDE DEF r
<1>5. proc'[p] = r /\ \A q \in Procs \ {p} : proc'[q] = proc[q]
  BY <1>3, ProcIs
<1>6. RowsKept /\ \A q \in Procs : (Wrote(q)' <=> Wrote(q)) /\ (q # p => lock'[q] = lock[q])
  BY <1>1, KeptByRead
<1>7. SongAt(r)
  BY <1>2, <1>4 DEF SongAt, Carried
<1>8. RecordOK(p, r)
  BY <1>1, <1>2, <1>4, <1>7 DEF RecordOK, Carried, Working, Opening, Migrating
<1>9. InTx(p)'
  BY <1>1, <1>2, <1>4, <1>5, <1>6 DEF InTx, Midway, Working, Carried
<1>10. MidwayKept(p)
  BY <1>1, <1>4, <1>5 DEF MidwayKept, Midway
<1> QED
  BY <1>1, <1>4, <1>5, <1>6, <1>8, <1>9, <1>10 DEF QuietStep, Frame, RunOK

LEMMA ReadyOK ==
    ASSUME NEW r PROVE RecordOK(Daemon, Ready(r)) /\ Ready(r).pc = "ready" /\ Ready(r).ok = 0
<1>1. <<>> \in Seq(Songs)
  BY EmptySeq
<1> QED
  BY <1>1 DEF Ready, RecordOK, Idle, Working, Opening, Migrating

(* A song is given up. *)
LEMMA GivenUpSets ==
    ASSUME DbInv, RunInv, NEW p \in Procs, proc[p].pc \in Working, NEW unreset,
           proc' = [proc EXCEPT ![p] = NotProcessed([proc[p] EXCEPT !.unreset = unreset])]
    PROVE  /\ RecordOK(p, proc'[p]) /\ \A q \in Procs \ {p} : proc'[q] = proc[q]
           /\ \/ proc'[p].pc = "end" \/ (proc'[p].pc \in Working /\ proc'[p].at = "song")
              \/ proc'[p].pc \in {"ready", "ask"} /\ proc'[p].ok = 0
<1> DEFINE u == [proc[p] EXCEPT !.unreset = unreset]
<1>1. /\ RecordOK(p, proc[p]) /\ proc[p].ok = 0 /\ DOMAIN proc[p] = Fields
      /\ proc[p].program \in {"daemon", "walrus", "eugene"}
      /\ proc[p].program = "daemon" <=> p = Daemon
  BY WorkingRuns
<1>2. DOMAIN u = Fields /\ u.ok = 0 /\ Carried(u, proc[p])
  BY <1>1 DEF Fields, Carried
<1>3. proc' = [proc EXCEPT ![p] = NotProcessed(u)]
  OBVIOUS
<1> HIDE DEF u
<1>4. proc'[p] = NotProcessed(u) /\ \A q \in Procs \ {p} : proc'[q] = proc[q]
  BY <1>3, ProcIs
<1>5. CASE proc[p].program = "daemon"
  <2>1. NotProcessed(u) = Ready(u)
    BY <1>2, <1>5 DEF NotProcessed, Carried
  <2> QED
    BY <1>1, <1>4, <1>5, <2>1, ReadyOK
<1>6. CASE proc[p].program = "eugene"
  <2> DEFINE r == [u EXCEPT !.pc = "ask", !.at = "none"]
  <2>1. r.pc = "ask" /\ r.ok = 0 /\ Carried(r, proc[p])
    BY <1>2 DEF Fields, Carried
  <2>2. NotProcessed(u) = r
    BY <1>2, <1>6 DEF NotProcessed, Carried
  <2> HIDE DEF r
  <2>3. RecordOK(p, r)
    BY <1>1, <2>1, CarriedOK DEF Working, Opening, Migrating
  <2> QED
    BY <1>4, <2>1, <2>2, <2>3
<1>7. CASE proc[p].program = "walrus"
  <2>1. proc' = [proc EXCEPT ![p] = NextSong(u)]
    BY <1>2, <1>3, <1>7 DEF NotProcessed, Carried
  <2>2. /\ u.todo \in Seq(Songs) /\ u.program = proc[p].program
        /\ u.increment = proc[p].increment /\ u.percent = proc[p].percent /\ u.ok = proc[p].ok
    BY <1>1, <1>2 DEF Carried, RecordOK
  <2> QED
    BY <1>2, <1>7, <2>1, <2>2, WalrusGoesOn
<1> QED
  BY <1>1, <1>5, <1>6, <1>7

(* A process comes to its end. *)
LEMMA GoneStep ==
    ASSUME DbInv, RunInv, NEW p \in Procs, NEW pc \in {"off", "done"},
           proc' = [proc EXCEPT ![p] = Idle(pc)],
           RowsKept, \A q \in Procs \ {p} : lock'[q] = lock[q] /\ tx'[q] = tx[q],
           Midway(p) => "torn" \in history' \/ (Wrote(p) /\ ~ Wrote(p)'),
           UNCHANGED <<saved, moved>>, history \subseteq history'
    PROVE  QuietStep(p)
<1>1. proc'[p] = Idle(pc) /\ \A q \in Procs \ {p} : proc'[q] = proc[q]
  BY ProcIs
<1>2. RecordOK(p, Idle(pc)) /\ Idle(pc).pc = pc
  BY IdleOK
<1>3. RunOK(p)' /\ MidwayKept(p)
  BY <1>1, <1>2 DEF RunOK, InTx, Midway, MidwayKept, Working, RecordOK, SongAt
<1> QED
  BY <1>1, <1>2, <1>3 DEF QuietStep, Frame

LEMMA ProcessFailsQuiet ==
    ASSUME DbInv, RunInv, NEW p \in Procs, proc[p].pc \in Working,
           NEW unreset, ProcessFails(p, unreset), UNCHANGED <<saved, moved>>
    PROVE  QuietStep(p)
<1>1. history \subseteq history' /\ InTx(p) /\ tx[p] \in {0, 1}
  BY WorkingRuns DEF ProcessFails, RunInv, RunOK
<1>2. CASE /\ proc' = [proc EXCEPT ![p] = NotProcessed([proc[p] EXCEPT !.unreset = unreset])]
           /\ history' = history \union Unfinished(p)
           /\ UNCHANGED <<file, work, lock, tx>>
  <2>1. ~ Midway(p) \/ "torn" \in history'
    BY <1>2 DEF Midway, Unfinished
  <2> QED
    BY <1>1, <1>2, <2>1, GivenUpSets, KeptByNone, BeginStep DEF Frame
<1>3. CASE /\ proc' = [proc EXCEPT ![p] = Idle("done")] /\ Rollback(p)
           /\ history' = IF tx[p] = 1 THEN history ELSE history \union Unfinished(p)
  <2>1. RowsKept /\ ~ Wrote(p)' /\ \A q \in Procs \ {p} : lock'[q] = lock[q] /\ tx'[q] = tx[q]
    BY <1>3, KeptByRollback
  <2>2. Midway(p) => "torn" \in history' \/ (Wrote(p) /\ ~ Wrote(p)')
    BY <1>1, <1>3, <2>1 DEF InTx, Midway, Unfinished
  <2> QED
    BY <1>1, <1>3, <2>1, <2>2, GoneStep
<1> QED
  BY <1>2, <1>3 DEF ProcessFails, Abandon, database

LEMMA TransactionLostQuiet ==
    ASSUME DbInv, RunInv, NEW p \in Procs, proc[p].pc \in Working, TransactionLost(p),
           UNCHANGED <<saved, moved>>
    PROVE  QuietStep(p)
<1>1. /\ Rollback(p) /\ history' = history /\ tx[p] = 1 /\ InTx(p)
      /\ proc' = [proc EXCEPT ![p] = NotProcessed([proc[p] EXCEPT !.unreset = Failing(proc[p])])]
  BY DEF TransactionLost, RunInv, RunOK
<1>2. RowsKept /\ ~ Wrote(p)' /\ \A q \in Procs \ {p} : lock'[q] = lock[q] /\ tx'[q] = tx[q]
  BY <1>1, KeptByRollback
<1>3. ~ Midway(p) \/ (Wrote(p) /\ ~ Wrote(p)')
  BY <1>1, <1>2 DEF InTx
<1> QED
  BY <1>1, <1>2, <1>3, GivenUpSets, BeginStep DEF Frame

LEMMA RefusedQuiet == ASSUME DbInv, RunInv, NEW p \in Procs, Refused(p) PROVE QuietStep(p)
BY ProcessFailsQuiet DEF Refused, Working

LEMMA EndQuiet == ASSUME DbInv, RunInv, NEW p \in Procs, End(p) PROVE QuietStep(p)
<1>1. /\ proc[p].pc = "end" /\ UNCHANGED <<saved, moved, history>>
      /\ RecordOK(p, proc[p]) /\ InTx(p)
  BY DEF End, RunInv, RunOK
<1>2. proc[p].ok = 0
  BY <1>1 DEF RecordOK, Migrating
<1>3. CASE Pend(p) /\ UNCHANGED proc
  <2>1. RowsKept /\ tx' = tx /\ \A q \in Procs \ {p} : lock'[q] = lock[q]
    BY <1>3, KeptByPend
  <2>2. InTx(p)' /\ MidwayKept(p)
    BY <1>1, <1>3, <2>1 DEF InTx, Midway, MidwayKept
  <2> QED
    BY <1>1, <1>3, <2>1, <2>2 DEF QuietStep, Frame, RunOK
<1>4. CASE Commit(p) /\ Goto(p, "vacuum")
  <2>1. /\ proc'[p].pc = "vacuum" /\ proc'[p].ok = 0 /\ Carried(proc'[p], proc[p])
        /\ \A q \in Procs \ {p} : proc'[q] = proc[q]
    BY <1>2, <1>4, GotoSets
  <2>2. RecordOK(p, proc'[p])
    BY <1>1, <2>1, CarriedOK DEF Working, Opening, Migrating
  <2>3. /\ RowsKept \/ RowsCommitted
        /\ \A q \in Procs \ {p} : lock'[q] = lock[q] /\ tx'[q] = tx[q]
    BY <1>4, CommitIs
  <2> QED
    BY <1>1, <2>1, <2>2, <2>3, RestStep DEF Frame, Working
<1> QED
  BY <1>3, <1>4 DEF End

LEMMA VacuumQuiet == ASSUME DbInv, RunInv, NEW p \in Procs, Vacuum(p) PROVE QuietStep(p)
<1>1. /\ proc[p].pc = "vacuum" /\ Write(p, file)
      /\ proc' = [proc EXCEPT ![p] = Idle("done")]
      /\ UNCHANGED <<saved, moved, history>>
  BY DEF Vacuum
<1>2. Seen(p) = file
  BY <1>1, NoTx DEF Migrating, Seen
<1>3. /\ file.version \in {-1, 0, 10, 11} /\ file.tables \subseteq Kinds
      /\ file.columns \subseteq Columns
  BY DEF DbInv, FileOK
<1>4. RowsKept /\ tx' = tx /\ \A q \in Procs \ {p} : lock'[q] = lock[q]
  BY <1>1, <1>2, <1>3, WriteIs, KeptByWrite
<1>5. ~ Midway(p)
  BY <1>1 DEF Midway
<1> QED
  BY <1>1, <1>4, <1>5, GoneStep

LEMMA CrashQuiet == ASSUME DbInv, RunInv, NEW p \in Procs, Crash(p) PROVE QuietStep(p)
<1> DEFINE pc == IF p = Daemon THEN "off" ELSE "done"
<1>1. /\ Rollback(p) /\ proc' = [proc EXCEPT ![p] = Idle(pc)]
      /\ history' = history \union Losses(p) /\ UNCHANGED <<saved, moved>>
      /\ pc \in {"off", "done"}
  BY DEF Crash
<1> HIDE DEF pc
<1>2. /\ RowsKept /\ ~ Wrote(p)' /\ tx'[p] = 0
      /\ \A q \in Procs \ {p} : lock'[q] = lock[q] /\ tx'[q] = tx[q]
  BY <1>1, KeptByRollback
<1>3. (Midway(p) /\ tx[p] = 1 => Wrote(p)) /\ tx[p] \in {0, 1}
  BY DEF RunInv, RunOK, InTx, DbInv, Shape
<1>4. Midway(p) => "torn" \in history' \/ (Wrote(p) /\ ~ Wrote(p)')
  BY <1>1, <1>2, <1>3 DEF Losses
<1> QED
  BY <1>1, <1>2, <1>4, GoneStep

LEMMA FailMigrateQuiet ==
    ASSUME DbInv, RunInv, NEW p \in Procs, FailBegin(p) \/ FailMigrate(p), UNCHANGED <<saved, moved>>
    PROVE  QuietStep(p)
<1>1. CASE FailBegin(p)
  <2>1. /\ proc[p].pc \in Opening /\ proc[p].ok = 0 /\ history \subseteq history'
        /\ At(p, "migrate", "last_played") /\ UNCHANGED <<file, work, lock, tx>>
    BY <1>1, OpeningIs DEF FailBegin, Opening, Migrating, database
  <2>2. /\ proc'[p].pc = "migrate" /\ proc'[p].ok = 0 /\ Carried(proc'[p], proc[p])
        /\ \A q \in Procs \ {p} : proc'[q] = proc[q]
    BY <2>1, AtSets
  <2> QED
    BY <2>1, <2>2, KeptByNone, OpeningQuiet DEF Opening, Migrating
<1>2. CASE FailMigrate(p)
  <2>1. proc[p].pc = "migrate" /\ SetOk(p, "set_version", 0) /\ history \subseteq history'
    BY <1>2 DEF FailMigrate, SetOk
  <2>2. /\ proc'[p].pc = "set_version" /\ proc'[p].ok = 0 /\ Carried(proc'[p], proc[p])
        /\ \A q \in Procs \ {p} : proc'[q] = proc[q]
    BY <2>1, OkSets
  <2>3. RowsKept /\ \A q \in Procs \ {p} : lock'[q] = lock[q] /\ tx'[q] = tx[q]
    BY <1>2, KeptByNone, KeptByRollback DEF FailMigrate, database
  <2> QED
    BY <2>1, <2>2, <2>3, OpeningQuiet DEF Opening, Migrating
<1> QED
  BY <1>1, <1>2

LEMMA FailQuiet == ASSUME DbInv, RunInv, NEW p \in Procs, Fail(p) PROVE QuietStep(p)
<1>1. UNCHANGED <<saved, moved>>
  BY DEF Fail
<1>2. CASE FailOpening(p)
  <2>1. /\ InitFails(p) /\ history' = history \union Losses(p)
        /\ UNCHANGED <<file, work, lock, tx>>
        /\ proc[p].pc \in {"open", "create", "check", "prepare"}
    BY <1>2 DEF FailOpening, database
  <2> QED
    BY <1>1, <2>1, KeptByNone, InitFailsQuiet DEF Opening
<1>3. CASE FailBegin(p) \/ FailMigrate(p)
  BY <1>1, <1>3, FailMigrateQuiet
<1>4. CASE FailMigrated(p)
  <2>1. /\ InitFails(p) /\ Rollback(p) /\ UNCHANGED history
        /\ proc[p].pc \in {"set_version", "end_migration"}
    BY <1>4 DEF FailMigrated
  <2> QED
    BY <1>1, <2>1, KeptByRollback, InitFailsQuiet DEF Opening, Migrating
<1>5. CASE FailProcess(p)
  BY <1>1, <1>5, ProcessFailsQuiet, TransactionLostQuiet DEF FailProcess, Working
<1>6. CASE FailEnd(p)
  <2>1. /\ proc' = [proc EXCEPT ![p] = Idle("done")] /\ Rollback(p) /\ UNCHANGED history
        /\ proc[p].pc \in {"end", "vacuum"}
    BY <1>6 DEF FailEnd
  <2>2. ~ Midway(p)
    BY <2>1 DEF Midway
  <2>3. RowsKept /\ \A q \in Procs \ {p} : lock'[q] = lock[q] /\ tx'[q] = tx[q]
    BY <2>1, KeptByRollback
  <2> QED
    BY <1>1, <2>1, <2>2, <2>3, GoneStep
<1> QED
  BY <1>2, <1>3, <1>4, <1>5, <1>6 DEF Fail

-----------------------------------------------------------------------------
(* mpdcron serves commands. *)
LEMMA DaemonRests ==
    ASSUME DbInv, RunInv, proc[Daemon].pc \in {"ready", "removing"}
    PROVE  /\ Daemon \in Procs /\ RecordOK(Daemon, proc[Daemon]) /\ proc[Daemon].ok = 0
           /\ tx[Daemon] = 0 /\ lock[Daemon] = "none" /\ Seen(Daemon) = file
           /\ ~ Midway(Daemon)
<1>1. Daemon \in Procs
  BY DEF Procs
<1>2. RecordOK(Daemon, proc[Daemon])
  BY <1>1 DEF RunInv, RunOK
<1>3. proc[Daemon].ok = 0 /\ ~ Midway(Daemon)
  BY <1>2 DEF RecordOK, Migrating, Midway
<1> QED
  BY <1>1, <1>2, <1>3, NoTx DEF Migrating, Seen

LEMMA DaemonQuiet ==
    ASSUME DbInv, RunInv, proc[Daemon].pc \in {"ready", "removing"}, UNCHANGED <<saved, moved, history>>,
           \/ UNCHANGED proc \/ Goto(Daemon, "ready") \/ Goto(Daemon, "removing"),
           UNCHANGED database \/ Read(Daemon, 0)
    PROVE  QuietStep(Daemon)
<1>1. /\ Daemon \in Procs /\ RecordOK(Daemon, proc[Daemon]) /\ proc[Daemon].ok = 0
  BY DaemonRests
<1>2. /\ proc'[Daemon].pc \in {"ready", "removing"} /\ proc'[Daemon].ok = 0
      /\ Carried(proc'[Daemon], proc[Daemon]) /\ \A q \in Procs \ {Daemon} : proc'[q] = proc[q]
  BY <1>1, GotoSets DEF Carried
<1>3. RecordOK(Daemon, proc'[Daemon])
  BY <1>1, <1>2, CarriedOK DEF Working, Opening, Migrating
<1>4. RowsKept /\ tx' = tx /\ \A q \in Procs \ {Daemon} : lock'[q] = lock[q]
  BY <1>1, KeptByDatabase, KeptByRead DEF database, Read
<1> QED
  BY <1>1, <1>2, <1>3, <1>4, RestStep DEF Frame, Working

(* mpdcron changes rows for a command. *)
ServedStep(rows) ==
    /\ RowsWritten(Daemon, rows) /\ tx[Daemon] = 0
    /\ UNCHANGED <<proc, tx, saved, moved>> /\ history \subseteq history'
    /\ \A q \in Procs \ {Daemon} : lock'[q] = lock[q]

LEMMA ServedIs ==
    ASSUME DbInv, RunInv, proc[Daemon].pc \in {"ready", "removing"}, NEW rows,
           Write(Daemon, [file EXCEPT !.rows = rows]),
           UNCHANGED <<proc, saved, moved>>, history \subseteq history'
    PROVE  ServedStep(rows)
<1> DEFINE c == [file EXCEPT !.rows = rows]
<1>1. Daemon \in Procs /\ tx[Daemon] = 0
  BY DaemonRests
<1>2. /\ c.rows = rows /\ c.version \in {-1, 0, 10, 11}
      /\ c.tables \subseteq Kinds /\ c.columns \subseteq Columns
  BY DEF DbInv, Shape, FileOK, FileFields
<1> HIDE DEF c
<1>3. /\ RowsWritten(Daemon, c.rows) /\ tx' = tx
      /\ \A q \in Procs \ {Daemon} : lock'[q] = lock[q]
  BY <1>1, <1>2, WriteIs DEF c
<1> QED
  BY <1>1, <1>2, <1>3 DEF ServedStep

LEMMA ServedRun ==
    ASSUME DbInv, RunInv, NEW rows, ServedStep(rows) PROVE RunInv'
<1>1. /\ tx[Daemon] = 0 /\ UNCHANGED <<proc, tx>> /\ Daemon \in Procs
      /\ \A q \in Procs \ {Daemon} : lock'[q] = lock[q]
  BY DEF ServedStep, Procs
<1>2. RunOK(Daemon)'
  BY <1>1 DEF RunInv, RunOK, InTx, Midway, RecordOK, SongAt
<1> QED
  BY <1>1, <1>2, FrameRun DEF Frame

ChangeMade(q) ==
    LET c == talk[q].command
    IN  /\ ~ IsLook(c) /\ c.op # "rmtag" /\ Changing(file.rows, c).answer # ACK
        /\ ServedStep(Changing(file.rows, c).tables)
        /\ c.op = "count" => "counted" \in history'

LEMMA ServeSteps ==
    ASSUME DbInv, RunInv, NEW q \in Tools, Serve(q)
    PROVE  QuietStep(Daemon) \/ (ServeChange(q) /\ ChangeMade(q))
<1>1. proc[Daemon].pc = "ready"
  BY DEF Serve, ServeUnknown, ServeLook, ServeChange, ServeRmtag, Asked
<1>2. CASE ServeUnknown(q) \/ ServeLook(q)
  BY <1>1, <1>2, DaemonQuiet DEF ServeUnknown, ServeLook
<1>3. CASE ServeRmtag(q)
  BY <1>1, <1>3, DaemonQuiet DEF ServeRmtag
<1>4. CASE ServeChange(q)
  <2> DEFINE c == talk[q].command
             done == Changing(file.rows, c)
  <2>1. /\ ~ IsLook(c) /\ c.op # "rmtag" /\ UNCHANGED <<proc, saved, moved>>
        /\ IF done.answer = ACK THEN UNCHANGED <<database, history>>
           ELSE /\ Write(Daemon, [file EXCEPT !.rows = done.tables])
                /\ history' = IF c.op = "count" THEN history \union {"counted"} ELSE history
    BY <1>4 DEF ServeChange
  <2> HIDE DEF done
  <2>2. CASE done.answer = ACK
    BY <1>1, <2>1, <2>2, DaemonQuiet
  <2>3. CASE done.answer # ACK
    <3>1. ServedStep(done.tables)
      BY <1>1, <2>1, <2>3, ServedIs
    <3> QED
      BY <1>4, <2>1, <2>3, <3>1 DEF ChangeMade, done
  <2> QED
    BY <2>2, <2>3
<1> QED
  BY <1>2, <1>3, <1>4 DEF Serve

TagsRemoved ==
    LET kind == talk[serving].command.kind
    IN  /\ proc[Daemon].pc = "removing" /\ Quoted(kind)
        /\ \E n \in DOMAIN removing :
             ServedStep([file.rows EXCEPT ![kind][n] = Set_tags(@, removing[n])])

LEMMA RemovingSteps ==
    ASSUME DbInv, RunInv, RemoveRow \/ RemovedAll \/ FailRemove
    PROVE  QuietStep(Daemon) \/ (RemoveRow /\ TagsRemoved)
<1>1. /\ proc[Daemon].pc = "removing" /\ UNCHANGED <<saved, moved, history>>
  BY DEF RemoveRow, RemovedAll, FailRemove
<1>2. CASE RemovedAll \/ FailRemove
  BY <1>1, <1>2, DaemonQuiet DEF RemovedAll, FailRemove, Removed
<1>3. CASE RemoveRow
  <2> DEFINE kind == talk[serving].command.kind
  <2>1. CASE ~ Quoted(kind)
    BY <1>1, <1>3, <2>1, DaemonQuiet DEF RemoveRow, Removed
  <2>2. CASE Quoted(kind)
    <3>1. PICK n \in DOMAIN removing :
            /\ Write(Daemon, [file EXCEPT !.rows[kind][n] = Set_tags(@, removing[n])])
            /\ UNCHANGED proc
      BY <1>3, <2>2 DEF RemoveRow
    <3> DEFINE rows == [file.rows EXCEPT ![kind][n] = Set_tags(@, removing[n])]
    <3>2. Write(Daemon, [file EXCEPT !.rows = rows])
      BY <3>1
    <3> HIDE DEF rows
    <3>3. ServedStep(rows)
      BY <1>1, <3>1, <3>2, ServedIs
    <3> QED
      BY <1>1, <1>3, <2>2, <3>3 DEF TagsRemoved, rows
  <2> QED
    BY <2>1, <2>2
<1> QED
  BY <1>2, <1>3

-----------------------------------------------------------------------------
(* db_process writes a row. *)
NewRows(p) ==
    Processed(Seen(p).rows, proc[p].at, proc[p].song, proc[p].increment, proc[p].percent)

Next_at(p) == NextKind(proc[p].at, proc[p].song)

(* The song is done, or its next row is to come. *)
WentOn(p) ==
    IF Next_at(p) = "none"
    THEN /\ ~ Midway(p)' /\ saved' = saved + proc[p].increment
         /\ proc'[p].pc = "ask" =>
              proc[p].program = "eugene" /\ proc'[p].program = "eugene" /\ proc'[p].song = proc[p].song
    ELSE /\ proc'[p].pc = "has" /\ proc'[p].at = Next_at(p) /\ Carried(proc'[p], proc[p])
         /\ saved' = saved

RowStep(p) ==
    /\ proc[p].pc = "write" /\ Frame(p) /\ RunOK(p)'
    /\ RowsWritten(p, NewRows(p)) /\ tx'[p] = tx[p] /\ (tx[p] = 1 => Wrote(p)')
    /\ WentOn(p)
    /\ moved' = (IF Moved(Seen(p).rows, proc[p]) THEN Tools ELSE moved)
                  \ (IF proc[p].at = "album" THEN {p} ELSE {})
    /\ history' = history

LEMMA NextKindIs ==
    ASSUME NEW p, NEW s \in Songs, NEW kind \in Kinds, ArtistOf[s] # None
    PROVE  \/ NextKind(kind, s) = "none"
           \/ /\ NextKind(kind, s) \in Kinds \ {"song"}
              /\ NameOf(NextKind(kind, s), s) # None
BY DEF NextKind, Kinds, NameOf

LEMMA RowGoesOn ==
    ASSUME DbInv, RunInv, NEW p \in Procs, proc[p].pc = "write", Next_at(p) # "none",
           proc' = [proc EXCEPT ![p].pc = "has", ![p].at = Next_at(p), ![p].found = 0],
           tx' = tx, tx[p] = 1 => Wrote(p)', saved' = saved
    PROVE  RunOK(p)' /\ WentOn(p) /\ \A q \in Procs \ {p} : proc'[q] = proc[q]
<1> DEFINE at == Next_at(p)
           r == [proc[p] EXCEPT !.pc = "has", !.at = at, !.found = 0]
<1>1. /\ RecordOK(p, proc[p]) /\ SongAt(proc[p]) /\ DOMAIN proc[p] = Fields
      /\ proc[p].ok = 0 /\ proc = [q \in Procs |-> proc[q]]
  BY WorkingRuns DEF Working, DbInv, Shape
<1>2. at \in Kinds /\ NameOf(at, proc[p].song) # None
  BY <1>1, NextKindIs DEF SongAt, Next_at
<1>3. proc' = [proc EXCEPT ![p] = r]
  BY <1>1
<1> HIDE DEF at
<1>4. r.pc = "has" /\ r.at = at /\ r.ok = 0 /\ Carried(r, proc[p])
  BY <1>1 DEF Fields, Carried
<1> HIDE DEF r
<1>5. proc'[p] = r /\ \A q \in Procs \ {p} : proc'[q] = proc[q]
  BY <1>3, ProcIs
<1>6. SongAt(r)
  BY <1>1, <1>2, <1>4 DEF SongAt, Carried
<1>7. RecordOK(p, r)
  BY <1>1, <1>4, <1>6 DEF RecordOK, Carried, Working, Opening, Migrating
<1>8. InTx(p)'
  BY <1>1, <1>4, <1>5 DEF InTx, Carried
<1> QED
  BY <1>4, <1>5, <1>7, <1>8 DEF RunOK, WentOn, at

LEMMA SongIsDone ==
    ASSUME DbInv, RunInv, NEW p \in Procs, proc[p].pc = "write", Next_at(p) = "none",
           Processed_well(p), tx' = tx, saved' = saved + proc[p].increment
    PROVE  RunOK(p)' /\ WentOn(p) /\ \A q \in Procs \ {p} : proc'[q] = proc[q]
<1>1. /\ RecordOK(p, proc[p]) /\ DOMAIN proc[p] = Fields /\ proc[p].ok = 0
      /\ proc[p].program \in {"daemon", "walrus", "eugene"}
      /\ proc[p].program = "daemon" <=> p = Daemon
      /\ proc = [q \in Procs |-> proc[q]]
  BY WorkingRuns DEF Working, DbInv, Shape
<1>2. CASE proc[p].program = "daemon"
  <2> DEFINE r == Ready(proc[p])
  <2>1. proc' = [proc EXCEPT ![p] = r]
    BY <1>1, <1>2 DEF Processed_well
  <2>2. RecordOK(p, r) /\ r.pc = "ready"
    BY <1>1, <1>2, ReadyOK
  <2> HIDE DEF r
  <2>3. proc'[p] = r /\ \A q \in Procs \ {p} : proc'[q] = proc[q]
    BY <2>1, ProcIs
  <2> QED
    BY <2>2, <2>3 DEF RunOK, InTx, Midway, Working, WentOn
<1>3. CASE proc[p].program = "eugene"
  <2> DEFINE r == [proc[p] EXCEPT !.pc = "ask", !.at = "none", !.ok = 1]
  <2>1. proc' = [proc EXCEPT ![p] = r]
    BY <1>1, <1>3 DEF Processed_well
  <2>2. r.pc = "ask" /\ r.ok = 1 /\ Carried(r, proc[p])
    BY <1>1 DEF Fields, Carried
  <2> HIDE DEF r
  <2>3. proc'[p] = r /\ \A q \in Procs \ {p} : proc'[q] = proc[q]
    BY <2>1, ProcIs
  <2>4. RecordOK(p, r)
    BY <1>1, <1>3, <2>2 DEF RecordOK, Carried, Working, Opening, Migrating
  <2> QED
    BY <1>3, <2>2, <2>3, <2>4 DEF RunOK, InTx, Midway, Working, WentOn, Carried
<1>4. CASE proc[p].program = "walrus"
  <2>1. proc' = [proc EXCEPT ![p] = NextSong(proc[p])]
    BY <1>1, <1>4 DEF Processed_well
  <2>2. /\ RecordOK(p, proc'[p]) /\ \A q \in Procs \ {p} : proc'[q] = proc[q]
        /\ \/ proc'[p].pc = "end"
           \/ proc'[p].pc \in Working /\ proc'[p].at = "song"
    BY <1>1, <1>4, <2>1, WalrusGoesOn DEF Working, RecordOK
  <2> QED
    BY <1>1, <1>4, <2>2 DEF RunOK, InTx, Midway, Working, WentOn
<1> QED
  BY <1>1, <1>2, <1>3, <1>4

LEMMA WriteRowSteps ==
    ASSUME DbInv, RunInv, WorkTyped, NEW p \in Procs, WriteRow(p)
    PROVE  QuietStep(p) \/ RowStep(p)
<1> DEFINE r == proc[p]
           rows == Seen(p).rows
           c == [Seen(p) EXCEPT !.rows = Processed(@, r.at, r.song, r.increment, r.percent)]
           Fails == r.found = 0 /\ NameOf(r.at, r.song) \in DOMAIN rows[r.at]
<1>1. CASE Fails
  <2>1. r.pc = "write" /\ ProcessFails(p, Failing(r)) /\ UNCHANGED <<saved, moved>>
    BY <1>1 DEF WriteRow
  <2> QED
    BY <2>1, ProcessFailsQuiet DEF Working
<1>2. CASE ~ Fails
  <2>1. /\ r.pc = "write" /\ Write(p, c)
        /\ IF Next_at(p) = "none" THEN Processed_well(p)
           ELSE proc' = [proc EXCEPT ![p].pc = "has", ![p].at = Next_at(p), ![p].found = 0]
        /\ saved' = IF Next_at(p) = "none" THEN saved + r.increment ELSE saved
        /\ moved' = (IF Moved(rows, r) THEN Tools ELSE moved)
                       \ (IF r.at = "album" THEN {p} ELSE {})
        /\ UNCHANGED history
    BY <1>2 DEF WriteRow, Next_at
  <2>2. /\ c.rows = NewRows(p) /\ c.version \in {-1, 0, 10, 11}
        /\ c.tables \subseteq Kinds /\ c.columns \subseteq Columns
    BY SeenTyped DEF FileFields, NewRows
  <2> HIDE DEF c, Fails
  <2>3. /\ RowsWritten(p, NewRows(p)) /\ (tx[p] = 1 => Wrote(p)') /\ tx' = tx
        /\ \A q \in Procs \ {p} : lock'[q] = lock[q]
    BY <2>1, <2>2, WriteIs
  <2>4. RunOK(p)' /\ WentOn(p) /\ \A q \in Procs \ {p} : proc'[q] = proc[q]
    <3>1. CASE Next_at(p) = "none"
      BY <2>1, <2>3, <3>1, SongIsDone
    <3>2. CASE Next_at(p) # "none"
      BY <2>1, <2>3, <3>2, RowGoesOn
    <3> QED
      BY <3>1, <3>2
  <2> QED
    BY <2>1, <2>3, <2>4 DEF RowStep, Frame
<1> QED
  BY <1>1, <1>2

-----------------------------------------------------------------------------
(* All steps: those that write no row, and the three that write one.       *)
RowsChange ==
    \/ \E p \in Procs : QuietStep(p) \/ (WriteRow(p) /\ RowStep(p))
    \/ \E q \in Tools : ServeChange(q) /\ ChangeMade(q)
    \/ RemoveRow /\ TagsRemoved

LEMMA WorkSteps ==
    ASSUME DbInv, RunInv, WorkTyped, NEW p \in Procs, Works(p) \/ CutShort(p) \/ Crash(p) \/ Fail(p)
    PROVE  QuietStep(p) \/ (WriteRow(p) /\ RowStep(p))
<1>1. CASE Opens(p)
  BY <1>1, OpenQuiet, CreateQuiet, CheckQuiet, MigrateQuiet, SetVersionQuiet, EndMigrationQuiet,
     PrepareQuiet DEF Opens
<1>2. CASE Has(p) \/ WriteRow(p) \/ Refused(p) \/ End(p) \/ Vacuum(p)
  BY <1>2, HasQuiet, WriteRowSteps, RefusedQuiet, EndQuiet, VacuumQuiet
<1>3. CASE CutShort(p) \/ Crash(p) \/ Fail(p)
  BY <1>3, CutShortQuiet, CrashQuiet, FailQuiet
<1> QED
  BY <1>1, <1>2, <1>3 DEF Works

LEMMA ToolSteps ==
    ASSUME DbInv, RunInv, NEW q \in Tools,
           \/ StartWalrus(q) \/ StartWithExpression(q) \/ StartWithCurrent(q)
           \/ Send(q) \/ GiveUp(q) \/ Receive(q)
    PROVE  q \in Procs /\ QuietStep(q)
BY StartToolQuiet, TalkQuiet DEF Procs

LEMMA AllSteps == ASSUME DbInv, RunInv, WorkTyped, Next PROVE RowsChange
<1>1. Daemon \in Procs
  BY DEF Procs
<1>2. CASE StartDaemon \/ Play
  BY <1>1, <1>2, StartDaemonQuiet, PlayQuiet DEF RowsChange
<1>3. CASE RemoveRow \/ RemovedAll \/ FailRemove
  BY <1>1, <1>3, RemovingSteps DEF RowsChange
<1>4. ASSUME NEW p \in Procs, Works(p) \/ CutShort(p) \/ Crash(p) \/ Fail(p) PROVE RowsChange
  BY <1>4, WorkSteps DEF RowsChange
<1>5. ASSUME NEW q \in Tools,
             \/ StartWalrus(q) \/ StartWithExpression(q) \/ StartWithCurrent(q)
             \/ Send(q) \/ GiveUp(q) \/ Receive(q)
      PROVE  RowsChange
  BY <1>5, ToolSteps DEF RowsChange
<1>6. ASSUME NEW q \in Tools, Serve(q) PROVE RowsChange
  BY <1>1, <1>6, ServeSteps DEF RowsChange
<1> QED
  BY <1>2, <1>3, <1>4, <1>5, <1>6 DEF Next

LEMMA RunStep == ASSUME DbInv, RunInv, RowsChange PROVE RunInv'
<1>1. ASSUME NEW p \in Procs, QuietStep(p) \/ RowStep(p) PROVE RunInv'
  BY <1>1, FrameRun DEF QuietStep, RowStep
<1>2. ASSUME NEW q \in Tools, ChangeMade(q) PROVE RunInv'
  BY <1>2, ServedRun DEF ChangeMade
<1>3. CASE TagsRemoved
  BY <1>3, ServedRun DEF TagsRemoved
<1> QED
  BY <1>1, <1>2, <1>3 DEF RowsChange

LEMMA RunInit == Init => RunInv
<1> SUFFICES ASSUME Init, NEW p \in Procs PROVE RunOK(p)
  BY DEF RunInv
<1>1. proc[p] = Idle("off")
  BY DEF Init
<1>2. RecordOK(p, Idle("off")) /\ Idle("off").pc = "off"
  BY IdleOK
<1> QED
  BY <1>1, <1>2 DEF RunOK, InTx, Midway, Working

-----------------------------------------------------------------------------
(***************************************************************************)
(* What eugene has asked of mpdcron, and what mpdcron is about.            *)
(***************************************************************************)
TalkFields == {"link", "asked", "command", "answer", "rows"}

TalkOK(q) ==
    /\ DOMAIN talk[q] = TalkFields
    /\ talk[q].command # None => CommandOK(talk[q].command) /\ proc[q].pc \in {"asked", "done"}
    /\ talk[q].command # None /\ talk[q].answer = None => talk[q].link = "up"
    /\ talk[q].answer # None => talk[q].command # None

ServingOK ==
    /\ serving # None =>
         /\ proc[Daemon].pc = "removing" /\ serving \in Tools
         /\ talk[serving].command # None /\ talk[serving].answer = None
         /\ talk[serving].command.op = "rmtag"
    /\ \A n \in DOMAIN removing : serving # None /\ removing[n] \in Seq(Tags)

TalkInv == talk = [q \in Tools |-> talk[q]] /\ (\A q \in Tools : TalkOK(q)) /\ ServingOK

LEMMA Run_cmdOK ==
    ASSUME NEW op \in Ops \ {"list"}, NEW kind \in Kinds, NEW arg \in Args(op), NEW s
    PROVE  CommandOK(Run_cmd(op, kind, arg, s)) /\ Run_cmd(op, kind, arg, s).op = op
<1>1. CASE op \in {"love", "hate", "kill", "unkill"}
  BY <1>1 DEF CommandOK, Run_cmd, Cmd_love, Cmd_hate, Cmd_kill, Cmd_unkill, Love_expr, Kill_expr,
              Hates, Command, Ops, Args, Kinds
<1>2. CASE op \in {"rate", "rate_absolute", "count", "karma"}
  BY <1>2 DEF CommandOK, Run_cmd, Cmd_rate, Cmd_rate_absolute, Cmd_count, Cmd_karma, Rate_expr,
              Rate_absolute_expr, Count_expr, Karma_expr, Command, Ops, Args, Kinds
<1>3. CASE op \in {"addtag", "rmtag", "listinfo", "listtags"}
  BY <1>3 DEF CommandOK, Run_cmd, Cmd_addtag, Cmd_rmtag, Cmd_listinfo, Cmd_listtags, Addtag_expr,
              Rmtag_expr, Listinfo_expr, Listtags_expr, Command, Ops, Args
<1> QED
  BY <1>1, <1>2, <1>3 DEF Ops

LEMMA CommandLineOK ==
    ASSUME NEW s, NEW c \in CommandLine(s)
    PROVE  CommandOK(c.command)
<1>1. CASE s = None
  BY <1>1, SentAssumption DEF CommandLine
<1>2. CASE s # None
  <2>1. PICK a \in Asks : c.command = Run_cmd(a.op, a.kind, a.arg, s)
    BY <1>2 DEF CommandLine
  <2> DEFINE op == a.op
             kind == a.kind
             arg == a.arg
  <2>2. op \in Ops \ {"list"} /\ kind \in Kinds /\ arg \in Args(op)
    BY AsksAssumption
  <2> HIDE DEF op, kind, arg
  <2>3. CommandOK(Run_cmd(op, kind, arg, s))
    BY <2>2, Run_cmdOK
  <2> QED
    BY <2>1, <2>3 DEF op, kind, arg
<1> QED
  BY <1>1, <1>2

LEMMA TalkInit == Init => TalkInv
BY DEF Init, TalkInv, TalkOK, ServingOK, NoTalk, TalkFields

(* A process works, and mpdcron serves nobody. *)
LEMMA TalkStays ==
    ASSUME TalkInv, NEW p \in Procs, UNCHANGED serves,
           \A q \in Procs \ {p} : proc'[q] = proc[q],
           proc[p].pc \notin {"asked", "done", "removing"} \/ (p # Daemon /\ proc'[p].pc = "done")
    PROVE  TalkInv'
<1>1. UNCHANGED <<talk, removing, serving>>
  BY DEF serves
<1>2. ASSUME NEW q \in Tools PROVE TalkOK(q)'
  <2>1. TalkOK(q) /\ talk'[q] = talk[q] /\ q \in Procs
    BY <1>1 DEF TalkInv, Procs
  <2>2. CASE q # p
    BY <2>1, <2>2 DEF TalkOK
  <2>3. CASE q = p
    BY <2>1, <2>3, DaemonAssumption DEF TalkOK
  <2> QED
    BY <2>2, <2>3
<1>3. ServingOK'
  BY <1>1 DEF TalkInv, ServingOK, Procs
<1> QED
  BY <1>1, <1>2, <1>3 DEF TalkInv

LEMMA TalkStep ==
    ASSUME TalkInv, NEW q \in Tools, NEW r,
           talk' = [talk EXCEPT ![q] = r], TalkOK(q)', UNCHANGED <<removing, serving>>,
           q # serving, \A p \in Procs \ {q} : proc'[p] = proc[p]
    PROVE  TalkInv'
<1>1. talk = [u \in Tools |-> talk[u]] /\ talk' = [u \in Tools |-> IF u = q THEN r ELSE talk[u]]
  BY DEF TalkInv
<1>2. ASSUME NEW u \in Tools, u # q PROVE TalkOK(u)'
  BY <1>1, <1>2 DEF TalkInv, TalkOK, Procs
<1>3. ServingOK'
  BY <1>1, DaemonAssumption DEF TalkInv, ServingOK, Procs
<1> QED
  BY <1>1, <1>2, <1>3 DEF TalkInv

LEMMA WorkTalk ==
    ASSUME DbInv, RunInv, WorkTyped, TalkInv, NEW p \in Procs,
           Works(p) \/ CutShort(p) \/ Fail(p) \/ (p # Daemon /\ Crash(p))
    PROVE  TalkInv'
<1>1. Frame(p)
  BY WorkSteps DEF QuietStep, RowStep
<1>2. \A q \in Procs \ {p} : proc'[q] = proc[q]
  BY <1>1 DEF Frame
<1>3. CASE Opens(p)
  <2>1. UNCHANGED serves /\ proc[p].pc \notin {"asked", "done", "removing"}
    BY <1>3 DEF Opens, Open, Create, Check, Migrate, SetVersion, EndMigration, Prepare
  <2> QED
    BY <1>2, <2>1, TalkStays
<1>4. CASE Has(p) \/ WriteRow(p) \/ Refused(p) \/ End(p) \/ Vacuum(p) \/ CutShort(p)
  <2>1. UNCHANGED serves /\ proc[p].pc \notin {"asked", "done", "removing"}
    BY <1>4 DEF Has, WriteRow, Refused, End, Vacuum, CutShort
  <2> QED
    BY <1>2, <2>1, TalkStays
<1>5. CASE Fail(p)
  <2>1. UNCHANGED serves /\ proc[p].pc \notin {"asked", "done", "removing"}
    BY <1>5 DEF Fail, FailOpening, FailBegin, FailMigrate, FailMigrated, FailProcess, FailEnd
  <2> QED
    BY <1>2, <2>1, TalkStays
<1>6. CASE p # Daemon /\ Crash(p)
  <2>1. UNCHANGED serves /\ proc' = [proc EXCEPT ![p] = Idle("done")]
    BY <1>6 DEF Crash
  <2>2. proc'[p] = Idle("done")
    BY <2>1, ProcIs
  <2> QED
    BY <1>2, <1>6, <2>1, <2>2, IdleOK, TalkStays
<1> QED
  BY <1>3, <1>4, <1>5, <1>6 DEF Works

LEMMA DaemonTalk ==
    ASSUME DbInv, RunInv, TalkInv, StartDaemon \/ Play \/ Crash(Daemon)
    PROVE  TalkInv'
<1>1. Daemon \in Procs
  BY DEF Procs
<1>2. CASE StartDaemon \/ Play
  <2>1. UNCHANGED serves /\ proc[Daemon].pc \notin {"asked", "done", "removing"}
    BY <1>2 DEF StartDaemon, Play
  <2>2. \A q \in Procs \ {Daemon} : proc'[q] = proc[q]
    BY <1>2, StartDaemonQuiet, PlayQuiet DEF QuietStep, Frame
  <2> QED
    BY <1>1, <2>1, <2>2, TalkStays
<1>3. CASE Crash(Daemon)
  <2>1. /\ talk' = [q \in Tools |-> IF talk[q].link = "up" /\ talk[q].answer = None
                                    THEN [NoTalk EXCEPT !.link = "cut"] ELSE talk[q]]
        /\ removing' = <<>> /\ serving' = None
    BY <1>3 DEF Crash
  <2>2. \A q \in Procs \ {Daemon} : proc'[q] = proc[q]
    BY <1>1, <1>3, CrashQuiet DEF QuietStep, Frame
  <2>3. ASSUME NEW q \in Tools PROVE TalkOK(q)'
    <3>1. TalkOK(q) /\ proc'[q] = proc[q]
      BY <2>2, DaemonAssumption DEF TalkInv, Procs
    <3>2. CASE talk[q].link = "up" /\ talk[q].answer = None
      BY <2>1, <3>2 DEF TalkOK, NoTalk, TalkFields
    <3>3. CASE ~ (talk[q].link = "up" /\ talk[q].answer = None)
      BY <2>1, <3>1, <3>3 DEF TalkOK
    <3> QED
      BY <3>2, <3>3
  <2> QED
    BY <2>1, <2>3 DEF TalkInv, ServingOK
<1> QED
  BY <1>2, <1>3

(* mpdcron is about none of those that do not wait for it. *)
LEMMA NotServed ==
    ASSUME TalkInv, NEW q \in Tools,
           \/ proc[q].pc \notin {"asked", "done"} \/ talk[q].command = None
           \/ talk[q].answer # None \/ talk[q].link = "cut" \/ proc[Daemon].pc # "removing"
    PROVE  q # serving \/ serving = None
BY DEF TalkInv, TalkOK, ServingOK

LEMMA ToolTalk ==
    ASSUME DbInv, RunInv, TalkInv, NEW q \in Tools,
           \/ StartWalrus(q) \/ StartWithExpression(q) \/ StartWithCurrent(q)
           \/ Send(q) \/ GiveUp(q) \/ Receive(q)
    PROVE  TalkInv'
<1>1. q \in Procs /\ \A p \in Procs \ {q} : proc'[p] = proc[p]
  BY ToolSteps DEF QuietStep, Frame
<1>2. TalkOK(q) /\ talk = [u \in Tools |-> talk[u]]
  BY DEF TalkInv
<1>3. CASE StartWalrus(q)
  BY <1>1, <1>3, TalkStays DEF StartWalrus
<1>4. CASE StartWithExpression(q) \/ StartWithCurrent(q)
  <2> DEFINE r == [talk[q] EXCEPT !.link = "up"]
  <2>1. /\ talk' = [talk EXCEPT ![q] = r] /\ UNCHANGED <<removing, serving>>
        /\ proc[q].pc = "off"
    BY <1>2, <1>4 DEF StartWithExpression, StartWithCurrent, Connect
  <2>2. /\ DOMAIN r = TalkFields /\ r.command = talk[q].command /\ r.answer = talk[q].answer
        /\ talk[q].command = None
    BY <1>2, <2>1 DEF TalkOK, TalkFields
  <2> HIDE DEF r
  <2>3. talk'[q] = r
    BY <1>2, <2>1
  <2>4. TalkOK(q)' /\ q # serving
    BY <1>2, <2>1, <2>2, <2>3, NotServed, DaemonAssumption DEF TalkOK
  <2> QED
    BY <1>1, <2>1, <2>4, TalkStep
<1>5. CASE Send(q)
  <2>1. PICK c \in CommandLine(proc[q].song) :
          /\ talk' = [talk EXCEPT ![q].asked = c.asked, ![q].command = c.command]
          /\ proc' = [proc EXCEPT ![q] = [Idle("asked") EXCEPT !.program = "eugene",
                                                               !.ok = proc[q].ok]]
    BY <1>5 DEF Send
  <2>2. /\ proc[q].pc = "ask" /\ talk[q].link = "up" /\ UNCHANGED <<removing, serving>>
    BY <1>5 DEF Send
  <2> DEFINE r == [talk[q] EXCEPT !.asked = c.asked, !.command = c.command]
             ok == proc[q].ok
             s == [Idle("asked") EXCEPT !.program = "eugene", !.ok = ok]
  <2>3. /\ DOMAIN r = TalkFields /\ r.command = c.command /\ r.answer = talk[q].answer /\ r.link = "up"
        /\ talk[q].answer = None
    BY <1>2, <2>2 DEF TalkOK, TalkFields
  <2>4. talk' = [talk EXCEPT ![q] = r]
    BY <1>2, <2>1
  <2> HIDE DEF ok, r
  <2>5. s.pc = "asked"
    BY DEF Idle
  <2>6. proc' = [proc EXCEPT ![q] = s]
    BY <2>1 DEF ok
  <2> HIDE DEF s
  <2>7. talk'[q] = r /\ proc'[q] = s
    BY <1>1, <1>2, <2>4, <2>6, ProcIs
  <2>8. TalkOK(q)' /\ q # serving
    BY <2>2, <2>3, <2>5, <2>7, CommandLineOK, NotServed, DaemonAssumption DEF TalkOK
  <2> QED
    BY <1>1, <2>2, <2>4, <2>8, TalkStep
<1>6. CASE GiveUp(q) \/ Receive(q)
  <2>1. talk' = [talk EXCEPT ![q] = NoTalk] /\ UNCHANGED <<removing, serving>>
    BY <1>6 DEF GiveUp, Receive
  <2>2. talk'[q] = NoTalk
    BY <1>2, <2>1
  <2>3. TalkOK(q)'
    BY <2>2 DEF TalkOK, NoTalk, TalkFields
  <2>4. q # serving
    BY <1>2, <1>6, NotServed, DaemonAssumption DEF GiveUp, Receive, TalkInv, TalkOK, ServingOK
  <2> QED
    BY <1>1, <2>1, <2>3, <2>4, TalkStep
<1> QED
  BY <1>3, <1>4, <1>5, <1>6

LEMMA AnsweredTalk ==
    ASSUME TalkInv, NEW q \in Tools, Asked(q), NEW answer, NEW rows,
           Answered(q, answer, rows), UNCHANGED <<proc, removing, serving>>
    PROVE  TalkInv'
<1> DEFINE r == [talk[q] EXCEPT !.answer = answer, !.rows = rows]
<1>1. /\ TalkOK(q) /\ talk = [u \in Tools |-> talk[u]] /\ q # serving
      /\ talk[q].command # None /\ talk[q].answer = None
  BY DaemonAssumption DEF Asked, TalkInv, ServingOK
<1>2. talk' = [talk EXCEPT ![q] = r]
  BY <1>1 DEF Answered
<1>3. /\ DOMAIN r = TalkFields /\ r.command = talk[q].command /\ r.link = talk[q].link
  BY <1>1 DEF TalkOK, TalkFields
<1> HIDE DEF r
<1>4. talk'[q] = r
  BY <1>1, <1>2
<1>5. TalkOK(q)'
  BY <1>1, <1>3, <1>4 DEF TalkOK
<1> QED
  BY <1>1, <1>2, <1>5, TalkStep

LEMMA AboutOK ==
    ASSUME TablesOK(file.rows), NEW c, CommandOK(c), NEW n \in DOMAIN About(c)
    PROVE  About(c)[n].tags \in Seq(Tags)
<1> DEFINE table == file.rows[c.kind]
<1>1. c.where # None /\ n \in Selected(table, c.where) /\ About(c)[n] = table[n]
  BY DEF About
<1>2. n \in DOMAIN table /\ c.kind \in Kinds
  BY <1>1 DEF Selected, CommandOK
<1>3. table[n] \in Rows
  BY <1>2 DEF TablesOK
<1> QED
  BY <1>1, <1>3 DEF Rows

LEMMA ServeTalk ==
    ASSUME DbInv, RunInv, TalkInv, TablesOK(file.rows), NEW q \in Tools, Serve(q)
    PROVE  TalkInv'
<1> DEFINE c == talk[q].command
<1>1. Asked(q) /\ proc[Daemon].pc = "ready" /\ talk[q].command # None /\ talk[q].answer = None
  BY DEF Serve, ServeUnknown, ServeLook, ServeChange, ServeRmtag, Asked
<1>2. CASE ServeUnknown(q) \/ ServeLook(q) \/ ServeChange(q)
  BY <1>1, <1>2, AnsweredTalk DEF ServeUnknown, ServeLook, ServeChange
<1>3. CASE ServeRmtag(q)
  <2>1. CASE Answered(q, ACK, About(c)) /\ UNCHANGED <<database, proc, removing, serving>>
    BY <1>1, <2>1, AnsweredTalk
  <2>2. CASE /\ removing' = [n \in DOMAIN About(c) |-> Remove_tag(About(c)[n].tags, c.arg)]
             /\ serving' = q /\ Goto(Daemon, "removing")
             /\ talk' = [talk EXCEPT ![q].rows = About(c)]
    <3>1. /\ talk = [u \in Tools |-> talk[u]] /\ TalkOK(q) /\ CommandOK(c)
          /\ c.op = "rmtag" /\ Daemon \in Procs
      BY <1>1, <1>3 DEF TalkInv, TalkOK, ServeRmtag, Procs
    <3>2. /\ proc'[Daemon].pc = "removing"
          /\ \A u \in Procs \ {Daemon} : proc'[u] = proc[u]
      BY <2>2, <3>1, GotoSets
    <3> DEFINE rows == About(c)
               r == [talk[q] EXCEPT !.rows = rows]
    <3>3. \A n \in DOMAIN removing' : removing'[n] \in Seq(Tags)
      BY <2>2, <3>1, AboutOK, Remove_tagIs
    <3>4. talk' = [talk EXCEPT ![q] = r]
      BY <2>2, <3>1
    <3> HIDE DEF rows
    <3>5. /\ DOMAIN r = TalkFields /\ r.command = c /\ r.link = talk[q].link
          /\ r.answer = talk[q].answer
      BY <3>1 DEF TalkOK, TalkFields
    <3> HIDE DEF r
    <3>6. talk'[q] = r /\ \A u \in Tools \ {q} : talk'[u] = talk[u]
      BY <3>1, <3>4
    <3>7. ASSUME NEW u \in Tools PROVE TalkOK(u)'
      BY <3>1, <3>2, <3>5, <3>6, DaemonAssumption DEF TalkInv, TalkOK, Procs
    <3>8. ServingOK'
      BY <1>1, <2>2, <3>1, <3>2, <3>3, <3>5, <3>6, DaemonAssumption DEF ServingOK
    <3>9. talk' = [u \in Tools |-> talk'[u]]
      BY <3>1, <3>4
    <3> QED
      BY <3>7, <3>8, <3>9 DEF TalkInv
  <2> QED
    BY <1>3, <2>1, <2>2 DEF ServeRmtag
<1> QED
  BY <1>2, <1>3 DEF Serve

LEMMA RemovedTalk ==
    ASSUME DbInv, RunInv, TalkInv, NEW answer, Removed(answer)
    PROVE  TalkInv'
<1>1. /\ talk = [u \in Tools |-> talk[u]] /\ removing' = <<>> /\ serving' = None
      /\ Goto(Daemon, "ready") /\ talk' = [talk EXCEPT ![serving].answer = answer]
      /\ Daemon \in Procs
  BY DEF Removed, TalkInv, Procs
<1>2. \A u \in Procs \ {Daemon} : proc'[u] = proc[u]
  BY <1>1, GotoSets
<1>3. ServingOK'
  BY <1>1 DEF ServingOK
<1>4. ASSUME NEW u \in Tools PROVE TalkOK(u)'
  <2>1. TalkOK(u) /\ proc'[u] = proc[u]
    BY <1>2, DaemonAssumption DEF TalkInv, Procs
  <2>2. CASE u # serving
    BY <1>1, <2>1, <2>2 DEF TalkOK
  <2>3. CASE u = serving
    <3> DEFINE r == [talk[u] EXCEPT !.answer = answer]
    <3>1. /\ talk[u].command # None /\ talk[u].answer = None
      BY <2>3, DaemonAssumption DEF TalkInv, ServingOK
    <3>2. talk'[u] = r
      BY <1>1, <2>3
    <3>3. DOMAIN r = TalkFields /\ r.command = talk[u].command /\ r.link = talk[u].link
      BY <2>1 DEF TalkOK, TalkFields
    <3> HIDE DEF r
    <3> QED
      BY <2>1, <3>1, <3>2, <3>3 DEF TalkOK
  <2> QED
    BY <2>2, <2>3
<1>5. talk' = [u \in Tools |-> talk'[u]]
  BY <1>1
<1> QED
  BY <1>3, <1>4, <1>5 DEF TalkInv

LEMMA RemovingTalk ==
    ASSUME DbInv, RunInv, TalkInv, RemoveRow \/ RemovedAll \/ FailRemove
    PROVE  TalkInv'
<1>1. ASSUME NEW answer, Removed(answer) PROVE TalkInv'
  BY <1>1, RemovedTalk
<1>2. CASE RemovedAll \/ FailRemove
  BY <1>1, <1>2 DEF RemovedAll, FailRemove
<1>3. CASE RemoveRow
  <2>1. CASE Removed(ACK)
    BY <1>1, <2>1
  <2>2. ASSUME NEW n \in DOMAIN removing,
               removing' = [m \in DOMAIN removing \ {n} |-> removing[m]],
               UNCHANGED <<proc, serving, talk>>
        PROVE  TalkInv'
    BY <2>2 DEF TalkInv, TalkOK, ServingOK
  <2> QED
    BY <1>3, <2>1, <2>2 DEF RemoveRow
<1> QED
  BY <1>2, <1>3

LEMMA TalkNext ==
    ASSUME DbInv, RunInv, WorkTyped, TalkInv, TablesOK(file.rows), Next
    PROVE  TalkInv'
<1>1. CASE StartDaemon \/ Play
  BY <1>1, DaemonTalk
<1>2. CASE RemoveRow \/ RemovedAll \/ FailRemove
  BY <1>2, RemovingTalk
<1>3. ASSUME NEW p \in Procs, Works(p) \/ CutShort(p) \/ Crash(p) \/ Fail(p) PROVE TalkInv'
  BY <1>3, WorkTalk, DaemonTalk
<1>4. ASSUME NEW q \in Tools,
             \/ StartWalrus(q) \/ StartWithExpression(q) \/ StartWithCurrent(q)
             \/ Send(q) \/ GiveUp(q) \/ Receive(q)
      PROVE  TalkInv'
  BY <1>4, ToolTalk
<1>5. ASSUME NEW q \in Tools, Serve(q) PROVE TalkInv'
  BY <1>5, ServeTalk
<1> QED
  BY <1>1, <1>2, <1>3, <1>4, <1>5 DEF Next

-----------------------------------------------------------------------------
(***************************************************************************)
(* The types of the rows.                                                  *)
(***************************************************************************)
(* What commands leave of the tables: no row comes or goes, no album gets  *)
(* another artist, only count changes play counts, and only rmtag takes    *)
(* tags away. *)
RemovedFrom(kind, n) ==
    serving # None /\ kind = talk[serving].command.kind /\ n \in DOMAIN removing

RowsServed(tables, new) ==
    /\ TablesOK(new) /\ new[History] = tables[History]
    /\ \A kind \in Kinds :
         /\ DOMAIN new[kind] = DOMAIN tables[kind]
         /\ \A n \in DOMAIN tables[kind] :
              /\ new[kind][n].artist = tables[kind][n].artist
              /\ \/ IsPrefix(tables[kind][n].tags, new[kind][n].tags)
                 \/ RemovedFrom(kind, n) /\ new[kind][n].tags = removing[n]
              /\ "counted" \in history' \/ new[kind][n].count = tables[kind][n].count

Served == \E rows : ServedStep(rows) /\ RowsServed(file.rows, rows)

LEMMA ChangeServed ==
    ASSUME TalkInv, TablesOK(file.rows), NEW q \in Tools, ServeChange(q), ChangeMade(q)
    PROVE  Served
<1> DEFINE c == talk[q].command
           new == Changing(file.rows, c).tables
<1>1. /\ ~ IsLook(c) /\ c.op # "rmtag" /\ Changing(file.rows, c).answer # ACK
      /\ ServedStep(new) /\ (c.op = "count" => "counted" \in history')
  BY DEF ChangeMade
<1>2. CommandOK(c)
  BY DEF ServeChange, Asked, TalkInv, TalkOK
<1>3. TablesChange(file.rows, new, c.op)
  BY <1>1, <1>2, ChangingOK DEF Changes
<1> HIDE DEF c, new
<1>4. RowsServed(file.rows, new)
  BY <1>1, <1>3 DEF RowsServed, TablesChange, RowChange
<1> QED
  BY <1>1, <1>4 DEF Served

LEMMA SetTagsOK ==
    ASSUME NEW tables, TablesOK(tables), NEW kind \in Kinds, NEW n, NEW tags \in Seq(Tags),
           RemovedFrom(kind, n), removing[n] = tags
    PROVE  RowsServed(tables, [tables EXCEPT ![kind][n] = Set_tags(@, tags)])
<1> DEFINE row == Set_tags(tables[kind][n], tags)
           t == [tables[kind] EXCEPT ![n] = row]
           new == [tables EXCEPT ![kind] = t]
<1>1. /\ DOMAIN tables = Kinds \union {History} /\ DOMAIN tables[History] \subseteq Songs
      /\ \A s \in DOMAIN tables[History] : tables[History][s].count \in Int
      /\ \A k \in Kinds : \A m \in DOMAIN tables[k] : m \in Names(k) /\ RowOK(tables[k][m])
      /\ History \notin Kinds
  BY TablesAre
<1>2. n \in DOMAIN tables[kind] =>
        /\ RowOK(row) /\ row.artist = tables[kind][n].artist
        /\ row.count = tables[kind][n].count /\ row.tags = tags
  <2> DEFINE old == tables[kind][n]
  <2>1. n \in DOMAIN tables[kind] => RowOK(old)
    BY <1>1
  <2> HIDE DEF old
  <2>2. RowOK(old) => /\ RowOK(Set_tags(old, tags)) /\ Set_tags(old, tags).artist = old.artist
                      /\ Set_tags(old, tags).count = old.count /\ Set_tags(old, tags).tags = tags
    BY DEF RowOK, Rows, Set_tags
  <2> QED
    BY <2>1, <2>2 DEF old
<1>3. new = [tables EXCEPT ![kind][n] = Set_tags(@, tags)]
  OBVIOUS
<1> HIDE DEF row
<1>4. DOMAIN t = DOMAIN tables[kind] /\ \A m \in DOMAIN t : t[m] = IF m = n THEN row ELSE tables[kind][m]
  OBVIOUS
<1> HIDE DEF t
<1>5. /\ DOMAIN new = DOMAIN tables
      /\ \A k \in DOMAIN tables : new[k] = IF k = kind THEN t ELSE tables[k]
  OBVIOUS
<1> HIDE DEF new
<1>6. \A k \in Kinds : \A m \in DOMAIN tables[k] : IsPrefix(tables[k][m].tags, tables[k][m].tags)
  BY <1>1, PrefixSelf DEF RowOK, Rows
<1>7. \A k \in Kinds :
        /\ DOMAIN new[k] = DOMAIN tables[k]
        /\ \A m \in DOMAIN tables[k] :
             /\ RowOK(new[k][m])
             /\ new[k][m].artist = tables[k][m].artist /\ new[k][m].count = tables[k][m].count
             /\ \/ IsPrefix(tables[k][m].tags, new[k][m].tags)
                \/ RemovedFrom(k, m) /\ new[k][m].tags = removing[m]
  BY <1>1, <1>2, <1>4, <1>5, <1>6
<1>8. new[History] = tables[History]
  BY <1>1, <1>5
<1>9. TablesOK(new)
  BY <1>1, <1>5, <1>7, <1>8, TablesAre
<1> QED
  BY <1>3, <1>7, <1>8, <1>9 DEF RowsServed

LEMMA RemovalServed ==
    ASSUME TalkInv, TablesOK(file.rows), TagsRemoved
    PROVE  Served
<1> DEFINE kind == talk[serving].command.kind
<1>1. PICK n \in DOMAIN removing :
        ServedStep([file.rows EXCEPT ![kind][n] = Set_tags(@, removing[n])])
  BY DEF TagsRemoved
<1>2. kind \in Kinds /\ removing[n] \in Seq(Tags) /\ RemovedFrom(kind, n)
  BY DEF RemovedFrom, TalkInv, TalkOK, ServingOK, CommandOK
<1> DEFINE tags == removing[n]
<1>3. tags \in Seq(Tags)
  BY <1>2
<1> HIDE DEF kind, tags
<1>4. RowsServed(file.rows, [file.rows EXCEPT ![kind][n] = Set_tags(@, tags)])
  BY <1>2, <1>3, SetTagsOK DEF tags
<1> QED
  BY <1>1, <1>4 DEF Served, kind, tags

(* What a step does to the rows, once their types are known.               *)
TypedSteps == (\E p \in Procs : QuietStep(p) \/ (WriteRow(p) /\ RowStep(p))) \/ Served

LEMMA TypedRows == ASSUME TalkInv, TablesOK(file.rows), RowsChange PROVE TypedSteps
BY ChangeServed, RemovalServed DEF RowsChange, TypedSteps

LEMMA NewRowsOK ==
    ASSUME DbInv, RunInv, TablesOK(file.rows), WorkTyped, NEW p \in Procs, RowStep(p)
    PROVE  /\ TablesOK(Seen(p).rows) /\ TablesOK(NewRows(p)) /\ SongAt(proc[p])
           /\ RecordOK(p, proc[p])
<1>1. RecordOK(p, proc[p]) /\ SongAt(proc[p])
  BY WorkingRuns DEF RowStep, Working
<1>2. TablesOK(Seen(p).rows)
  BY DEF Seen, WorkTyped
<1> DEFINE kind == proc[p].at
           s == proc[p].song
           i == proc[p].increment
           c == proc[p].percent
<1>3. kind \in Kinds /\ s \in Songs /\ NameOf(kind, s) # None /\ i \in Int /\ c \in Int
  BY <1>1 DEF RecordOK, SongAt
<1> HIDE DEF kind, s, i, c
<1>4. TablesOK(Processed(Seen(p).rows, kind, s, i, c))
  BY <1>2, <1>3, ProcessedOK
<1> QED
  BY <1>1, <1>2, <1>4 DEF NewRows, kind, s, i, c

LEMMA TypedStep ==
    ASSUME DbInv, RunInv, TablesOK(file.rows), WorkTyped, TypedSteps
    PROVE  TablesOK(file.rows)' /\ WorkTyped'
<1>1. ASSUME NEW p \in Procs, QuietStep(p) PROVE TablesOK(file.rows)' /\ WorkTyped'
  <2>1. CASE RowsKept
    BY <2>1 DEF RowsKept
  <2>2. CASE RowsCommitted
    BY <2>2 DEF RowsCommitted, WorkTyped
  <2> QED
    BY <1>1, <2>1, <2>2 DEF QuietStep
<1>2. ASSUME NEW p \in Procs, RowStep(p) PROVE TablesOK(file.rows)' /\ WorkTyped'
  BY <1>2, NewRowsOK DEF RowStep, RowsWritten
<1>3. ASSUME NEW rows, ServedStep(rows), RowsServed(file.rows, rows)
      PROVE  TablesOK(file.rows)' /\ WorkTyped'
  BY <1>3 DEF ServedStep, RowsServed, RowsWritten
<1> QED
  BY <1>1, <1>2, <1>3 DEF TypedSteps, Served

Known_losses == {"torn", "half_made", "bare", "counted"}

RecordsOK == moved \subseteq Tools /\ history \subseteq Known_losses

LEMMA LossesOK == ASSUME NEW p PROVE Losses(p) \subseteq Known_losses
BY DEF Losses, Known_losses

LEMMA ProcessFailsLoses ==
    ASSUME NEW p, NEW unreset, ProcessFails(p, unreset)
    PROVE  history' \subseteq history \union Known_losses
BY DEF ProcessFails, Unfinished, Known_losses

LEMMA HistoryOK == ASSUME Next PROVE history' \subseteq history \union Known_losses
<1>1. CASE StartDaemon \/ Play \/ RemoveRow \/ RemovedAll \/ FailRemove
  BY <1>1 DEF StartDaemon, Play, RemoveRow, RemovedAll, FailRemove
<1>2. ASSUME NEW p \in Procs, Works(p) \/ CutShort(p)
      PROVE  history' \subseteq history \union Known_losses
  <2>1. UNCHANGED history \/ \E unreset : ProcessFails(p, unreset)
    BY <1>2 DEF Works, Opens, Open, Create, Check, Migrate, SetVersion, EndMigration, Prepare,
                Has, WriteRow, Refused, End, Vacuum, CutShort
  <2> QED
    BY <2>1, ProcessFailsLoses
<1>3. ASSUME NEW p \in Procs, Crash(p) PROVE history' \subseteq history \union Known_losses
  BY <1>3, LossesOK DEF Crash
<1>4. ASSUME NEW p \in Procs, Fail(p) PROVE history' \subseteq history \union Known_losses
  <2>1. \/ UNCHANGED history \/ history' = history \union Losses(p)
        \/ history' = history \union {"bare"} \/ \E unreset : ProcessFails(p, unreset)
    BY <1>4 DEF Fail, FailOpening, FailBegin, FailMigrate, FailMigrated, FailProcess, FailEnd,
                TransactionLost
  <2> QED
    BY <2>1, LossesOK, ProcessFailsLoses DEF Known_losses
<1>5. ASSUME NEW q \in Tools,
             \/ StartWalrus(q) \/ StartWithExpression(q) \/ StartWithCurrent(q)
             \/ Send(q) \/ GiveUp(q) \/ Receive(q)
      PROVE  history' \subseteq history \union Known_losses
  BY <1>5 DEF StartWalrus, StartWithExpression, StartWithCurrent, Send, GiveUp, Receive
<1>6. ASSUME NEW q \in Tools, Serve(q) PROVE history' \subseteq history \union Known_losses
  <2>1. UNCHANGED history \/ history' = history \union {"counted"}
    BY <1>6 DEF Serve, ServeUnknown, ServeLook, ServeChange, ServeRmtag
  <2> QED
    BY <2>1 DEF Known_losses
<1> QED
  BY <1>1, <1>2, <1>3, <1>4, <1>5, <1>6 DEF Next

LEMMA MovedOK == ASSUME RecordsOK, TypedSteps PROVE moved' \subseteq Tools
BY DEF RecordsOK, TypedSteps, QuietStep, RowStep, Served, ServedStep

(* The invariant behind all that follows. *)
RowsInv ==
    DbInv /\ RunInv /\ TablesOK(file.rows) /\ WorkTyped /\ TalkInv /\ RecordsOK

LEMMA RowsInit == Init => RowsInv
<1> SUFFICES ASSUME Init PROVE RowsInv
  OBVIOUS
<1>1. file \in InitialFiles /\ work = NoFile /\ moved = {}
      /\ history = IF Agree(file.rows) THEN {} ELSE {"torn"}
  BY DEF Init
<1>2. TablesOK(file.rows)
  BY <1>1, InitialFilesAssumption, NoTablesOK DEF NoFile
<1>3. WorkTyped
  BY <1>1, NoTablesOK DEF WorkTyped, NoFile
<1> QED
  BY <1>1, <1>2, <1>3, DbInit, RunInit, TalkInit DEF RowsInv, RecordsOK, Known_losses

LEMMA RowsStep == ASSUME RowsInv, DbInv', Next PROVE RowsInv' /\ TypedSteps
<1>1. RowsChange
  BY AllSteps DEF RowsInv
<1>2. TypedSteps
  BY <1>1, TypedRows DEF RowsInv
<1>3. RunInv' /\ TablesOK(file.rows)' /\ WorkTyped' /\ TalkInv'
  BY <1>1, <1>2, RunStep, TypedStep, TalkNext DEF RowsInv
<1>4. RecordsOK'
  BY <1>2, HistoryOK, MovedOK DEF RowsInv, RecordsOK
<1> QED
  BY <1>2, <1>3, <1>4 DEF RowsInv

LEMMA RowsUnchanged == ASSUME RowsInv, DbInv', UNCHANGED vars PROVE RowsInv'
<1>1. RunInv' /\ TablesOK(file.rows)' /\ WorkTyped' /\ RecordsOK'
  BY DEF vars, RowsInv, RunInv, RunOK, RecordOK, SongAt, InTx, Midway, Wrote, WorkTyped, RecordsOK
<1>2. TalkInv'
  BY DEF vars, RowsInv, TalkInv, TalkOK, ServingOK
<1> QED
  BY <1>1, <1>2 DEF RowsInv

(* What the processes carry about, what eugene asks and what there is in   *)
(* the rows has its type, in every state of every behaviour. *)
THEOREM RowsInvHolds == Spec => []RowsInv
<1>1. Init => RowsInv
  BY RowsInit
<1>2. RowsInv /\ DbInv' /\ [Next]_vars => RowsInv'
  BY RowsStep, RowsUnchanged
<1> QED
  BY <1>1, <1>2, DbInvHolds, PTL DEF Spec

(* Whatever songs are played, whatever commands come and whoever fails or  *)
(* dies, the rows in the file, and in what a transaction has made of it,   *)
(* have the names and values that they can have, karma a percentage among  *)
(* them; and no two processes ever write at once. *)
THEOREM TypesHold == Spec => []TypeOK
<1>1. RowsInv => TypeOK
  <2> SUFFICES ASSUME RowsInv PROVE TypeOK
    OBVIOUS
  <2>1. /\ file.version \in {-1, 0, 10, 11} /\ file.tables \subseteq Kinds
        /\ file.columns \subseteq Columns /\ TablesOK(file.rows) /\ OneWriter
        /\ lock \in [Procs -> {"none", "shared", "reserved", "pending"}]
        /\ tx \in [Procs -> {0, 1}]
    BY DEF RowsInv, DbInv, Shape, FileOK
  <2>2. serving \in Tools \union {None}
    BY DEF RowsInv, TalkInv, ServingOK
  <2> QED
    BY <2>1, <2>2 DEF RowsInv, WorkTyped, RecordsOK, Known_losses, OneWriter, TypeOK
<1> QED
  BY <1>1, RowsInvHolds, PTL

-----------------------------------------------------------------------------
(***************************************************************************)
(* The tags of the rows.                                                   *)
(***************************************************************************)
TagsSame(old, new) ==
    \A k \in Kinds : \A n \in DOMAIN old[k] :
        n \in DOMAIN new[k] /\ new[k][n].tags = old[k][n].tags

(* What an open transaction has made of the rows has their tags.           *)
WorkTags == \A w \in Procs : Wrote(w) => TagsSame(file.rows, work.rows)

(* The rows that the command c, an rmtag, is about: left has the new tags  *)
(* of those that are still to be written. *)
RemovalOf(c, about, left, tables) ==
    /\ DOMAIN left \subseteq DOMAIN about
    /\ \A n \in DOMAIN about :
         /\ n \in DOMAIN tables[c.kind]
         /\ IF n \in DOMAIN left THEN left[n] = Remove_tag(tables[c.kind][n].tags, c.arg)
            ELSE c.arg \notin ToSet(tables[c.kind][n].tags)

RemovalOK ==
    serving # None => RemovalOf(talk[serving].command, talk[serving].rows, removing, file.rows)

TagsInv == WorkTags /\ RemovalOK /\ mishaps \in Nat

(* The row that db_process writes, in the words of the table's old rows.   *)
LEMMA NewRowIs ==
    ASSUME RowsInv, NEW p \in Procs, RowStep(p)
    PROVE  TableProcessed(NewRows(p), Seen(p).rows, proc[p].at, proc[p].song, proc[p].increment)
<1>1. RecordOK(p, proc[p]) /\ SongAt(proc[p]) /\ TablesOK(Seen(p).rows)
  BY NewRowsOK DEF RowsInv
<1> DEFINE kind == proc[p].at
           s == proc[p].song
           i == proc[p].increment
           c == proc[p].percent
           tables == Seen(p).rows
<1>2. kind \in Kinds /\ s \in Songs /\ NameOf(kind, s) # None /\ i \in Int /\ c \in Int
  BY <1>1 DEF RecordOK, SongAt
<1>3. NewRows(p) = Processed(tables, kind, s, i, c)
  BY DEF NewRows
<1> HIDE DEF kind, s, i, c, tables
<1>4. TableProcessed(Processed(tables, kind, s, i, c), tables, kind, s, i)
  BY <1>1, <1>2, ProcessedOK DEF tables
<1> QED
  BY <1>3, <1>4 DEF kind, s, i, tables

LEMMA ProcessedTags ==
    ASSUME NEW new, NEW tables, NEW kind, NEW s, NEW i, TableProcessed(new, tables, kind, s, i)
    PROVE  TagsSame(tables, new)
<1> SUFFICES ASSUME NEW k \in Kinds, NEW n \in DOMAIN tables[k]
             PROVE  n \in DOMAIN new[k] /\ new[k][n].tags = tables[k][n].tags
  BY DEF TagsSame
<1>1. CASE k # kind
  BY <1>1 DEF TableProcessed
<1>2. CASE k = kind
  <2> DEFINE name == NameOf(kind, s)
  <2>1. OneRowWritten(new[k], tables[k], kind, name, s, i)
    BY <1>2 DEF TableProcessed
  <2> HIDE DEF name
  <2> QED
    BY <2>1 DEF OneRowWritten
<1> QED
  BY <1>1, <1>2

LEMMA SameTagsStep ==
    ASSUME RowsInv, WorkTags, NEW p \in Procs, QuietStep(p) \/ RowStep(p)
    PROVE  WorkTags' /\ TagsSame(file.rows, file'.rows)
<1>1. TagsSame(file.rows, file.rows) /\ \A q \in Procs : TagsSame(file.rows, Seen(q).rows)
  BY DEF TagsSame, WorkTags, Seen
<1>2. CASE RowsKept
  BY <1>1, <1>2 DEF RowsKept, WorkTags
<1>3. CASE RowsCommitted
  BY <1>3 DEF RowsCommitted, WorkTags
<1>4. CASE RowStep(p)
  <2>1. TagsSame(Seen(p).rows, NewRows(p)) /\ RowsWritten(p, NewRows(p))
    BY <1>4, NewRowIs, ProcessedTags DEF RowStep
  <2>2. TagsSame(file.rows, NewRows(p))
    BY <1>1, <2>1 DEF TagsSame
  <2> QED
    BY <1>1, <2>1, <2>2 DEF RowsWritten, WorkTags
<1> QED
  BY <1>2, <1>3, <1>4 DEF QuietStep

LEMMA TagsStep ==
    ASSUME RowsInv, WorkTags, TypedSteps
    PROVE  WorkTags' /\ (TagsSame(file.rows, file'.rows) \/ RowsServed(file.rows, file'.rows))
<1>1. CASE \E p \in Procs : QuietStep(p) \/ RowStep(p)
  BY <1>1, SameTagsStep
<1>2. ASSUME NEW rows, ServedStep(rows), RowsServed(file.rows, rows)
      PROVE  WorkTags' /\ RowsServed(file.rows, file'.rows)
  <2>1. RowsWritten(Daemon, rows) /\ tx[Daemon] = 0
    BY <1>2 DEF ServedStep
  <2> QED
    BY <1>2, <2>1 DEF RowsWritten, WorkTags
<1> QED
  BY <1>1, <1>2 DEF TypedSteps, Served

(* What TagsGoAsAsked says of a step.                                      *)
LosesAsAsked ==
    \A kind \in Kinds : \A n \in DOMAIN file.rows[kind] :
      \A tag \in ToSet(file.rows[kind][n].tags) \ ToSet(file'.rows[kind][n].tags) :
        /\ serving # None /\ n \in DOMAIN removing
        /\ talk[serving].command.kind = kind /\ talk[serving].command.arg = tag

Told(q) ==
    LET c == talk[q].command
        answer == talk'[q].answer
    IN  c # None /\ c.op = "rmtag" /\ answer # None /\ talk[q].answer = None =>
          IF answer = ACK
          THEN None \in {c.where, c.arg} \/ mishaps' > mishaps \/ c.kind = "album"
          ELSE \A n \in DOMAIN talk'[q].rows : c.arg \notin ToSet(file'.rows[c.kind][n].tags)

LEMMA LosesStep ==
    ASSUME RowsInv, RowsInv', WorkTags, RemovalOK, TypedSteps PROVE LosesAsAsked
<1>1. CASE TagsSame(file.rows, file'.rows)
  BY <1>1 DEF TagsSame, LosesAsAsked
<1>2. CASE RowsServed(file.rows, file'.rows)
  <2> SUFFICES ASSUME NEW kind \in Kinds, NEW n \in DOMAIN file.rows[kind],
                      NEW tag \in ToSet(file.rows[kind][n].tags) \ ToSet(file'.rows[kind][n].tags)
               PROVE  RemovedFrom(kind, n) /\ talk[serving].command.arg = tag
    BY DEF LosesAsAsked, RemovedFrom
  <2> DEFINE old == file.rows[kind][n].tags
             new == file'.rows[kind][n].tags
  <2>1. /\ IsPrefix(old, new) \/ (RemovedFrom(kind, n) /\ new = removing[n])
        /\ n \in DOMAIN file'.rows[kind]
    BY <1>2 DEF RowsServed
  <2>2. old \in Seq(Tags) /\ new \in Seq(Tags)
    BY <2>1 DEF RowsInv, TablesOK, Rows
  <2>3. ~ IsPrefix(old, new)
    <3> HIDE DEF old, new
    <3>1. tag \in ToSet(old) /\ tag \notin ToSet(new)
      BY DEF old, new
    <3> QED
      BY <2>2, <3>1, PrefixSet
  <2>4. RemovedFrom(kind, n) /\ new = removing[n]
    BY <2>1, <2>3
  <2> DEFINE arg == talk[serving].command.arg
  <2>5. new = Remove_tag(old, arg)
    BY <2>4 DEF RemovedFrom, RemovalOK, RemovalOf
  <2>6. tag \in ToSet(old) /\ tag \notin ToSet(new)
    OBVIOUS
  <2> HIDE DEF old, new, arg
  <2>7. ToSet(new) = ToSet(old) \ {arg}
    BY <2>2, <2>5, Remove_tagIs
  <2> QED
    BY <2>4, <2>6, <2>7 DEF arg
<1> QED
  BY <1>1, <1>2, TagsStep

(* mpdcron goes on with what it was asked, and nobody has an answer.       *)
LEMMA RemovalStays ==
    ASSUME TagsInv, UNCHANGED <<removing, serving>>, TagsSame(file.rows, file'.rows),
           TalkInv, serving # None => talk'[serving] = talk[serving]
    PROVE  RemovalOK'
<1> SUFFICES ASSUME serving # None
             PROVE  RemovalOf(talk[serving].command, talk[serving].rows, removing, file'.rows)
  BY DEF RemovalOK
<1>1. RemovalOf(talk[serving].command, talk[serving].rows, removing, file.rows)
  BY DEF TagsInv, RemovalOK
<1>2. talk[serving].command.kind \in Kinds
  BY DEF TalkInv, TalkOK, ServingOK, CommandOK
<1> DEFINE c == talk[serving].command
           rows == talk[serving].rows
<1> HIDE DEF c, rows
<1>3. RemovalOf(c, rows, removing, file.rows) /\ c.kind \in Kinds
  BY <1>1, <1>2 DEF c, rows
<1>4. RemovalOf(c, rows, removing, file'.rows)
  BY <1>3 DEF RemovalOf, TagsSame
<1> QED
  BY <1>4 DEF c, rows

LEMMA NoneTold ==
    ASSUME NEW q, talk'[q].answer = talk[q].answer \/ talk'[q].answer = None PROVE Told(q)
BY DEF Told

LEMMA WorkRemoval ==
    ASSUME RowsInv, TagsInv, NEW p \in Procs,
           Works(p) \/ CutShort(p) \/ Fail(p) \/ (p # Daemon /\ Crash(p))
    PROVE  RemovalOK' /\ \A q \in Tools : Told(q)
<1>1. UNCHANGED <<talk, removing, serving>>
  <2>1. CASE Opens(p)
    BY <2>1 DEF Opens, Open, Create, Check, Migrate, SetVersion, EndMigration, Prepare, serves
  <2>2. CASE Has(p) \/ WriteRow(p) \/ Refused(p) \/ End(p) \/ Vacuum(p) \/ CutShort(p)
    BY <2>2 DEF Has, WriteRow, Refused, End, Vacuum, CutShort, serves
  <2>3. CASE Fail(p) \/ (p # Daemon /\ Crash(p))
    BY <2>3 DEF Fail, Crash, serves
  <2> QED
    BY <2>1, <2>2, <2>3 DEF Works
<1>2. TagsSame(file.rows, file'.rows)
  BY WorkSteps, SameTagsStep DEF RowsInv, TagsInv
<1> QED
  BY <1>1, <1>2, RemovalStays, NoneTold DEF RowsInv

LEMMA DaemonRemoval ==
    ASSUME RowsInv, TagsInv, StartDaemon \/ Play \/ Crash(Daemon)
    PROVE  RemovalOK' /\ \A q \in Tools : Told(q)
<1>1. CASE StartDaemon \/ Play
  <2>1. UNCHANGED <<talk, removing, serving>> /\ UNCHANGED file
    BY <1>1 DEF StartDaemon, Play, serves, database
  <2>2. TagsSame(file.rows, file'.rows)
    BY <2>1 DEF TagsSame
  <2> QED
    BY <2>1, <2>2, RemovalStays, NoneTold DEF RowsInv
<1>2. CASE Crash(Daemon)
  <2>1. /\ talk' = [q \in Tools |-> IF talk[q].link = "up" /\ talk[q].answer = None
                                    THEN [NoTalk EXCEPT !.link = "cut"] ELSE talk[q]]
        /\ serving' = None
    BY <1>2 DEF Crash
  <2>2. ASSUME NEW q \in Tools PROVE talk'[q].answer = talk[q].answer
    BY <2>1 DEF NoTalk
  <2> QED
    BY <2>1, <2>2, NoneTold DEF RemovalOK
<1> QED
  BY <1>1, <1>2

LEMMA ToolRemoval ==
    ASSUME RowsInv, TagsInv, NEW q \in Tools,
           \/ StartWalrus(q) \/ StartWithExpression(q) \/ StartWithCurrent(q)
           \/ Send(q) \/ GiveUp(q) \/ Receive(q)
    PROVE  RemovalOK' /\ \A u \in Tools : Told(u)
<1>1. /\ TagsSame(file.rows, file'.rows) /\ TalkOK(q) /\ ServingOK
      /\ talk = [u \in Tools |-> talk[u]]
  BY ToolSteps, SameTagsStep DEF RowsInv, TagsInv, TalkInv
<1>2. UNCHANGED <<removing, serving>>
  BY DEF StartWalrus, StartWithExpression, StartWithCurrent, Send, GiveUp, Receive, serves
<1>3. /\ \A u \in Tools \ {q} : talk'[u] = talk[u]
      /\ talk'[q].answer = talk[q].answer \/ talk'[q].answer = None
  <2>1. CASE StartWalrus(q)
    BY <2>1 DEF StartWalrus, serves
  <2>2. CASE StartWithExpression(q) \/ StartWithCurrent(q)
    <3>1. talk' = [talk EXCEPT ![q].link = "up"]
      BY <2>2 DEF StartWithExpression, StartWithCurrent, Connect
    <3>2. talk' = [talk EXCEPT ![q] = [talk[q] EXCEPT !.link = "up"]]
      BY <1>1, <3>1
    <3> QED
      BY <1>1, <3>2 DEF TalkOK, TalkFields
  <2>3. CASE Send(q)
    <3>1. PICK c : talk' = [talk EXCEPT ![q].asked = c.asked, ![q].command = c.command]
      BY <2>3 DEF Send
    <3>2. talk' = [talk EXCEPT ![q] = [talk[q] EXCEPT !.asked = c.asked, !.command = c.command]]
      BY <1>1, <3>1
    <3> QED
      BY <1>1, <3>2 DEF TalkOK, TalkFields
  <2>4. CASE GiveUp(q) \/ Receive(q)
    <3>1. talk' = [talk EXCEPT ![q] = NoTalk]
      BY <2>4 DEF GiveUp, Receive
    <3> QED
      BY <1>1, <3>1 DEF NoTalk
  <2> QED
    BY <2>1, <2>2, <2>3, <2>4
<1>4. serving # None => serving \in Tools /\ talk'[serving] = talk[serving]
  <2>1. CASE StartWalrus(q)
    BY <1>1, <2>1 DEF StartWalrus, serves, ServingOK
  <2>2. CASE ~ StartWalrus(q)
    <3>1. \/ proc[q].pc \in {"off", "ask"} \/ talk[q].answer # None \/ talk[q].link = "cut"
      BY <2>2 DEF StartWithExpression, StartWithCurrent, Connect, Send, GiveUp, Receive
    <3>2. serving # None => serving # q /\ serving \in Tools
      BY <1>1, <3>1 DEF TalkOK, ServingOK
    <3> QED
      BY <1>3, <3>2
  <2> QED
    BY <2>1, <2>2
<1> QED
  BY <1>1, <1>2, <1>3, <1>4, RemovalStays, NoneTold DEF RowsInv

LEMMA ServeRemoval ==
    ASSUME RowsInv, TagsInv, NEW q \in Tools, Serve(q)
    PROVE  RemovalOK' /\ \A u \in Tools : Told(u)
<1> DEFINE c == talk[q].command
<1>1. /\ Asked(q) /\ proc[Daemon].pc = "ready" /\ serving = None
      /\ talk = [u \in Tools |-> talk[u]] /\ CommandOK(c)
  BY DEF Serve, ServeUnknown, ServeLook, ServeChange, ServeRmtag, Asked, RowsInv, TalkInv, TalkOK,
         ServingOK
<1>2. CASE ServeUnknown(q) \/ ServeLook(q) \/ ServeChange(q)
  <2>1. serving' = None /\ c.op # "rmtag"
    BY <1>1, <1>2 DEF ServeUnknown, ServeLook, ServeChange, Known, IsLook
  <2>2. \A u \in Tools \ {q} : talk'[u] = talk[u]
    BY <1>1, <1>2 DEF ServeUnknown, ServeLook, ServeChange, Answered
  <2>3. Told(q)
    BY <2>1 DEF Told
  <2> QED
    BY <2>1, <2>2, <2>3, NoneTold DEF RemovalOK
<1>3. CASE ServeRmtag(q)
  <2>1. CASE c.where = None \/ c.arg = None
    <3>1. Answered(q, ACK, About(c)) /\ serving' = None
      BY <1>1, <1>3, <2>1 DEF ServeRmtag
    <3>2. \A u \in Tools \ {q} : talk'[u] = talk[u]
      BY <1>1, <3>1 DEF Answered
    <3>3. talk'[q].answer = ACK
      <4> DEFINE about == About(c)
                 ack == ACK
      <4>1. Answered(q, ack, about)
        BY <3>1
      <4> HIDE DEF about, ack
      <4>2. talk' = [talk EXCEPT ![q].answer = ack, ![q].rows = about]
        BY <4>1 DEF Answered
      <4>3. DOMAIN talk[q] = TalkFields
        BY DEF RowsInv, TalkInv, TalkOK
      <4> QED
        BY <1>1, <4>2, <4>3 DEF TalkFields, ack
    <3>4. Told(q)
      BY <2>1, <3>3 DEF Told
    <3> QED
      BY <3>1, <3>2, <3>4, NoneTold DEF RemovalOK
  <2>2. CASE c.where # None /\ c.arg # None
    <3> DEFINE about == About(c)
               left == [n \in DOMAIN about |-> Remove_tag(about[n].tags, c.arg)]
    <3>1. /\ Read(Daemon, 0) /\ removing' = left /\ serving' = q
          /\ talk' = [talk EXCEPT ![q].rows = about]
      BY <1>3, <2>2 DEF ServeRmtag
    <3>2. file' = file
      BY <3>1 DEF Read
    <3>3. \A n \in DOMAIN about : n \in DOMAIN file.rows[c.kind] /\ about[n] = file.rows[c.kind][n]
      BY <2>2 DEF About, Selected
    <3> HIDE DEF about
    <3>4. RemovalOf(c, about, left, file.rows)
      BY <3>3 DEF RemovalOf
    <3>5. /\ talk'[q].command = c /\ talk'[q].rows = about /\ talk'[q].answer = talk[q].answer
          /\ \A u \in Tools \ {q} : talk'[u] = talk[u]
      <4>1. DOMAIN talk[q] = TalkFields
        BY DEF RowsInv, TalkInv, TalkOK
      <4> QED
        BY <1>1, <3>1, <4>1 DEF TalkFields
    <3> HIDE DEF left
    <3>6. RemovalOK'
      BY <3>1, <3>2, <3>4, <3>5 DEF RemovalOK
    <3> QED
      BY <3>5, <3>6, NoneTold
  <2> QED
    BY <2>1, <2>2
<1> QED
  BY <1>2, <1>3 DEF Serve

LEMMA RemovedTold ==
    ASSUME RowsInv, NEW answer, Removed(answer), serving \in Tools => Told(serving)
    PROVE  RemovalOK' /\ \A u \in Tools : Told(u)
<1>1. /\ serving' = None /\ talk = [u \in Tools |-> talk[u]]
      /\ talk' = [talk EXCEPT ![serving].answer = answer]
  BY DEF Removed, RowsInv, TalkInv
<1>2. \A u \in Tools : u # serving => talk'[u] = talk[u]
  BY <1>1
<1> QED
  BY <1>1, <1>2, NoneTold DEF RemovalOK

LEMMA AnswerIs ==
    ASSUME RowsInv, NEW answer, Removed(answer), serving \in Tools
    PROVE  talk'[serving].answer = answer /\ talk'[serving].rows = talk[serving].rows
<1>1. DOMAIN talk[serving] = TalkFields /\ talk = [u \in Tools |-> talk[u]]
  BY DEF RowsInv, TalkInv, TalkOK
<1>2. talk' = [talk EXCEPT ![serving].answer = answer]
  BY DEF Removed
<1> QED
  BY <1>1, <1>2 DEF TalkFields

TagsSet(tables, kind, n, tags) == [tables EXCEPT ![kind][n] = Set_tags(@, tags)]

LeftBut(left, n) == [m \in DOMAIN left \ {n} |-> left[m]]

LEMMA OneRemoved ==
    ASSUME NEW tables, TablesOK(tables), NEW c, c.kind \in Kinds, NEW about, NEW left,
           RemovalOf(c, about, left, tables), NEW n \in DOMAIN left,
           NEW new, new = TagsSet(tables, c.kind, n, left[n]), NEW less, less = LeftBut(left, n)
    PROVE  RemovalOf(c, about, less, new)
<1> DEFINE kind == c.kind
           table == tables[kind]
           tags == left[n]
           row == Set_tags(table[n], tags)
           after == [table EXCEPT ![n] = row]
<1>1. n \in DOMAIN about /\ n \in DOMAIN table /\ tags = Remove_tag(table[n].tags, c.arg)
  BY DEF RemovalOf
<1>2. table[n] \in Rows
  BY <1>1 DEF TablesOK
<1>3. table[n].tags \in Seq(Tags) /\ row.tags = tags
  BY <1>2 DEF Rows, Set_tags
<1>4. c.arg \notin ToSet(tags)
  <2> DEFINE old == table[n].tags
             arg == c.arg
  <2>1. old \in Seq(Tags) /\ tags = Remove_tag(old, arg)
    BY <1>1, <1>3
  <2> HIDE DEF old, arg, tags
  <2>2. arg \notin ToSet(tags)
    BY <2>1, Remove_tagIs
  <2> QED
    BY <2>2 DEF arg
<1>5. kind \in DOMAIN tables
  BY DEF TablesOK
<1> HIDE DEF row, tags
<1>6. new = [tables EXCEPT ![kind] = after]
  BY DEF row, tags, TagsSet
<1>7. new[kind] = after /\ DOMAIN after = DOMAIN table
  BY <1>5, <1>6
<1>8. \A m \in DOMAIN table : after[m] = IF m = n THEN row ELSE table[m]
  OBVIOUS
<1> HIDE DEF after
<1>9. \A m \in DOMAIN about :
        /\ m \in DOMAIN new[kind]
        /\ IF m \in DOMAIN less THEN less[m] = Remove_tag(new[kind][m].tags, c.arg)
           ELSE c.arg \notin ToSet(new[kind][m].tags)
  <2> SUFFICES ASSUME NEW m \in DOMAIN about
               PROVE  /\ m \in DOMAIN new[kind]
                      /\ IF m \in DOMAIN less THEN less[m] = Remove_tag(new[kind][m].tags, c.arg)
                         ELSE c.arg \notin ToSet(new[kind][m].tags)
    OBVIOUS
  <2>1. /\ m \in DOMAIN table
        /\ IF m \in DOMAIN left THEN left[m] = Remove_tag(table[m].tags, c.arg)
           ELSE c.arg \notin ToSet(table[m].tags)
    BY DEF RemovalOf
  <2>2. CASE m = n
    <3>1. new[kind][m].tags = tags /\ m \notin DOMAIN less
      BY <1>3, <1>7, <1>8, <2>1, <2>2 DEF LeftBut
    <3> QED
      BY <1>4, <1>7, <2>1, <3>1
  <2>3. CASE m # n
    <3>1. new[kind][m] = table[m]
      BY <1>7, <1>8, <2>1, <2>3
    <3>2. m \in DOMAIN less <=> m \in DOMAIN left
      BY <2>3 DEF LeftBut
    <3>3. m \in DOMAIN less => less[m] = left[m]
      BY DEF LeftBut
    <3> QED
      BY <1>7, <2>1, <3>1, <3>2, <3>3
  <2> QED
    BY <2>2, <2>3
<1>10. DOMAIN less \subseteq DOMAIN about
  BY DEF RemovalOf, LeftBut
<1> QED
  BY <1>9, <1>10 DEF RemovalOf

LEMMA RemovingRemoval ==
    ASSUME RowsInv, TagsInv, RemoveRow \/ RemovedAll \/ FailRemove
    PROVE  RemovalOK' /\ \A u \in Tools : Told(u)
<1> DEFINE c == talk[serving].command
           rows == talk[serving].rows
<1>1. serving # None => RemovalOf(c, rows, removing, file.rows) /\ CommandOK(c) /\ serving \in Tools
  BY DEF TagsInv, RemovalOK, RowsInv, TalkInv, TalkOK, ServingOK
<1>2. CASE FailRemove
  <2>1. Removed(ACK) /\ mishaps' = mishaps + 1 /\ mishaps \in Nat
    BY <1>2 DEF FailRemove, TagsInv
  <2>2. mishaps' > mishaps
    BY <2>1
  <2>3. serving \in Tools => Told(serving)
    BY <2>1, <2>2, AnswerIs DEF Told
  <2> QED
    BY <2>1, <2>3, RemovedTold
<1>3. CASE RemovedAll
  <2> DEFINE answer == <<Pair("changes", Cardinality(DOMAIN rows)), OK>>
  <2>1. Removed(answer) /\ UNCHANGED file /\ DOMAIN removing = {}
    BY <1>3 DEF RemovedAll, database
  <2> HIDE DEF answer
  <2>2. serving \in Tools => \A n \in DOMAIN rows : c.arg \notin ToSet(file'.rows[c.kind][n].tags)
    BY <1>1, <2>1, DaemonAssumption DEF RemovalOf
  <2>3. answer # ACK
    BY DEF answer, ACK
  <2>4. serving \in Tools => Told(serving)
    BY <2>1, <2>2, <2>3, AnswerIs DEF Told
  <2> QED
    BY <2>1, <2>4, RemovedTold
<1>4. CASE RemoveRow
  <2>1. CASE ~ Quoted(c.kind)
    <3>1. Removed(ACK) /\ c.kind = "album"
      BY <1>4, <2>1 DEF RemoveRow, Quoted
    <3>2. serving \in Tools => Told(serving)
      BY <3>1, AnswerIs DEF Told
    <3> QED
      BY <3>1, <3>2, RemovedTold
  <2>2. CASE Quoted(c.kind)
    <3> DEFINE kind == c.kind
    <3>1. PICK n \in DOMAIN removing :
            /\ Write(Daemon, [file EXCEPT !.rows[kind][n] = Set_tags(@, removing[n])])
            /\ removing' = [m \in DOMAIN removing \ {n} |-> removing[m]]
            /\ UNCHANGED <<proc, serving, talk>>
      BY <1>4, <2>2 DEF RemoveRow
    <3>2. serving # None /\ proc[Daemon].pc = "removing"
      BY <1>4, <3>1 DEF RowsInv, TalkInv, ServingOK, RemoveRow
    <3> DEFINE new == [file.rows EXCEPT ![kind][n] = Set_tags(@, removing[n])]
               content == [file EXCEPT !.rows[kind][n] = Set_tags(@, removing[n])]
    <3>3. content.rows = new
      BY DEF RowsInv, DbInv, Shape, FileFields
    <3>4. tx[Daemon] = 0
      BY <3>2, DaemonRests DEF RowsInv
    <3>5. Write(Daemon, content)
      BY <3>1
    <3> HIDE DEF content
    <3>6. file' = content
      BY <3>4, <3>5 DEF Write
    <3>7. RemovalOf(c, rows, removing, file.rows) /\ kind \in Kinds /\ TablesOK(file.rows)
      BY <1>1, <3>2 DEF CommandOK, RowsInv
    <3> HIDE DEF c, rows
    <3> DEFINE tables == file.rows
               left == removing
               less == LeftBut(left, n)
    <3>8. RemovalOf(c, rows, less, new)
      <4>1. /\ RemovalOf(c, rows, left, tables) /\ c.kind \in Kinds /\ TablesOK(tables)
            /\ n \in DOMAIN left /\ new = TagsSet(tables, c.kind, n, left[n])
        BY <3>7 DEF TagsSet
      <4> HIDE DEF tables, left, new, less
      <4> QED
        BY <4>1, OneRemoved DEF less
    <3> HIDE DEF new
    <3>9. RemovalOf(c, rows, removing', file'.rows)
      BY <3>1, <3>3, <3>6, <3>8 DEF LeftBut
    <3>10. RemovalOK'
      BY <3>1, <3>9 DEF RemovalOK, c, rows
    <3> QED
      BY <3>1, <3>10, NoneTold
  <2> QED
    BY <2>1, <2>2
<1> QED
  BY <1>2, <1>3, <1>4

LEMMA RemovalNext ==
    ASSUME RowsInv, TagsInv, Next PROVE RemovalOK' /\ \A q \in Tools : Told(q)
<1>1. CASE StartDaemon \/ Play
  BY <1>1, DaemonRemoval
<1>2. CASE RemoveRow \/ RemovedAll \/ FailRemove
  BY <1>2, RemovingRemoval
<1>3. ASSUME NEW p \in Procs, Works(p) \/ CutShort(p) \/ Crash(p) \/ Fail(p)
      PROVE  RemovalOK' /\ \A q \in Tools : Told(q)
  BY <1>3, WorkRemoval, DaemonRemoval
<1>4. ASSUME NEW q \in Tools,
             \/ StartWalrus(q) \/ StartWithExpression(q) \/ StartWithCurrent(q)
             \/ Send(q) \/ GiveUp(q) \/ Receive(q)
      PROVE  RemovalOK' /\ \A u \in Tools : Told(u)
  BY <1>4, ToolRemoval
<1>5. ASSUME NEW q \in Tools, Serve(q) PROVE RemovalOK' /\ \A u \in Tools : Told(u)
  BY <1>5, ServeRemoval
<1> QED
  BY <1>1, <1>2, <1>3, <1>4, <1>5 DEF Next

LEMMA MishapsCount == ASSUME Next PROVE UNCHANGED mishaps \/ mishaps' = mishaps + 1
<1>1. CASE StartDaemon \/ Play \/ RemoveRow \/ RemovedAll \/ FailRemove
  BY <1>1 DEF StartDaemon, Play, RemoveRow, RemovedAll, FailRemove, bounds
<1>2. ASSUME NEW p \in Procs, Works(p) \/ CutShort(p) \/ Crash(p) \/ Fail(p)
      PROVE  UNCHANGED mishaps \/ mishaps' = mishaps + 1
  <2>1. CASE Opens(p)
    BY <2>1 DEF Opens, Open, Create, Check, Migrate, SetVersion, EndMigration, Prepare, bounds
  <2>2. CASE ~ Opens(p)
    BY <1>2, <2>2 DEF Works, Has, WriteRow, Refused, End, Vacuum, CutShort, Crash, Fail, bounds
  <2> QED
    BY <2>1, <2>2
<1>3. ASSUME NEW q \in Tools,
             \/ StartWalrus(q) \/ StartWithExpression(q) \/ StartWithCurrent(q)
             \/ Send(q) \/ GiveUp(q) \/ Receive(q)
      PROVE  UNCHANGED mishaps
  BY <1>3 DEF StartWalrus, StartWithExpression, StartWithCurrent, Send, GiveUp, Receive, bounds
<1>4. ASSUME NEW q \in Tools, Serve(q) PROVE UNCHANGED mishaps
  BY <1>4 DEF Serve, ServeUnknown, ServeLook, ServeChange, ServeRmtag, bounds
<1> QED
  BY <1>1, <1>2, <1>3, <1>4 DEF Next

(* A row loses a tag only when mpdcron is asked to take it, not by the     *)
(* commit of a transaction that began before the tag was given; and when   *)
(* mpdcron answers that it took a tag, it has, from every row it counts.   *)
(* Two facts carry this: the rows of an open transaction have the tags of  *)
(* the file, since nobody else can write then, and while a tag is taken    *)
(* from the rows one by one, those that are done lack it, and what is yet  *)
(* to be written of the others is what there is, without it. *)
THEOREM TagsOnlyGoAsAsked == Spec => TagsGoAsAsked
<1>1. Init => TagsInv
  BY DEF Init, TagsInv, WorkTags, RemovalOK, Wrote
<1> DEFINE AsAsked == /\ LosesAsAsked
                      /\ \A q \in Tools : Told(q)
<1>2. RowsInv /\ RowsInv' /\ DbInv' /\ TagsInv /\ [Next]_vars => TagsInv' /\ [AsAsked]_vars
  <2> SUFFICES ASSUME RowsInv, RowsInv', DbInv', TagsInv, [Next]_vars
               PROVE  TagsInv' /\ [AsAsked]_vars
    OBVIOUS
  <2>1. CASE Next
    <3>1. TypedSteps
      BY <2>1, RowsStep
    <3>2. WorkTags' /\ LosesAsAsked
      BY <3>1, TagsStep, LosesStep DEF TagsInv
    <3>3. mishaps' \in Nat
      BY <2>1, MishapsCount DEF TagsInv
    <3> QED
      BY <2>1, <3>2, <3>3, RemovalNext DEF TagsInv
  <2>2. CASE UNCHANGED vars
    BY <2>2 DEF vars, TagsInv, WorkTags, RemovalOK, Wrote
  <2> QED
    BY <2>1, <2>2
<1>3. Spec => []TagsInv
  BY <1>1, <1>2, RowsInvHolds, DbInvHolds, PTL DEF Spec
<1>4. Spec => [][AsAsked]_vars
  BY <1>2, <1>3, RowsInvHolds, DbInvHolds, PTL DEF Spec
<1> QED
  BY <1>4 DEF TagsGoAsAsked, LosesAsAsked, Told

-----------------------------------------------------------------------------
(***************************************************************************)
(* The play counts.  What the processes that are in the middle of a song   *)
(* owe the tables, and what mpdcron, which alone counts, has still to add  *)
(* to saved.                                                               *)
(***************************************************************************)
Owes(M) == {Debt(proc[p].song, proc[p].at) : p \in {q \in M : Midway(q)}}

Outside == {p \in Procs : tx[p] = 0}

Due == IF Midway(Daemon) THEN proc[Daemon].increment ELSE 0

AllCounted == "torn" \notin history /\ "counted" \notin history

CountInv ==
    /\ saved \in Int
    /\ AllCounted =>
         /\ Balanced(file.rows, Owes(Outside), Owes({Daemon}), Due, saved + Due)
         /\ (\E w \in Procs : Wrote(w)) =>
              Balanced(work.rows, Owes(Procs), Owes({Daemon}), Due, saved + Due)

LEMMA MidwayIs ==
    ASSUME DbInv, RunInv
    PROVE  /\ \A p \in Procs : /\ Wrote(p) => tx[p] = 1
                               /\ Midway(p) /\ ~ Wrote(p) => tx[p] = 0
                               /\ Midway(p) => RecordOK(p, proc[p]) /\ SongAt(proc[p])
           /\ Midway(Daemon) => tx[Daemon] = 0 /\ ~ Wrote(Daemon)
           /\ Due \in Int
<1>1. ASSUME NEW p \in Procs
      PROVE  /\ Wrote(p) => tx[p] = 1
             /\ Midway(p) /\ ~ Wrote(p) => tx[p] = 0
  BY DEF DbInv, Shape, ProcOK, TxOK, Wrote, RunInv, RunOK, InTx
<1>2. ASSUME NEW p \in Procs, Midway(p)
      PROVE  /\ RecordOK(p, proc[p]) /\ SongAt(proc[p])
             /\ p = Daemon => tx[p] = 0
  <2>1. proc[p].pc \in Working
    BY <1>2 DEF Midway, Working
  <2> QED
    BY <2>1, WorkingRuns
<1>3. Daemon \in Procs
  BY DEF Procs
<1>4. Due \in Int
  BY <1>2, <1>3 DEF Due, RecordOK
<1> QED
  BY <1>1, <1>2, <1>3, <1>4

LEMMA QuietCounts ==
    ASSUME DbInv, RunInv, DbInv', RunInv', CountInv, NEW p \in Procs, QuietStep(p)
    PROVE  CountInv'
<1> SUFFICES ASSUME AllCounted'
             PROVE  /\ Balanced(file.rows, Owes(Outside), Owes({Daemon}), Due, saved + Due)'
                    /\ (\E w \in Procs : Wrote(w)') =>
                         Balanced(work.rows, Owes(Procs), Owes({Daemon}), Due, saved + Due)'
  BY DEF QuietStep, CountInv
<1>1. /\ AllCounted /\ "torn" \notin history' /\ saved' = saved
      /\ Frame(p) /\ MidwayKept(p) /\ Daemon \in Procs
  BY DEF QuietStep, Procs, AllCounted
<1>2. /\ Balanced(file.rows, Owes(Outside), Owes({Daemon}), Due, saved + Due)
      /\ (\E w \in Procs : Wrote(w)) =>
           Balanced(work.rows, Owes(Procs), Owes({Daemon}), Due, saved + Due)
  BY <1>1 DEF CountInv
<1>3. \A q \in Procs :
        /\ Midway(q)' => /\ Midway(q) /\ proc'[q].song = proc[q].song /\ proc'[q].at = proc[q].at
                         /\ proc'[q].increment = proc[q].increment /\ tx'[q] = tx[q]
        /\ Midway(q) /\ ~ Midway(q)' => Wrote(q) /\ ~ Wrote(q)' /\ RowsKept
        /\ q # p => (Wrote(q)' <=> Wrote(q))
  <2>1. \A q \in Procs \ {p} : /\ Midway(q)' <=> Midway(q)
                               /\ Wrote(q)' <=> Wrote(q)
                               /\ proc'[q] = proc[q] /\ tx'[q] = tx[q]
    BY <1>1 DEF Frame, Midway, Wrote
  <2>2. /\ Midway(p)' => /\ Midway(p) /\ proc'[p].song = proc[p].song /\ proc'[p].at = proc[p].at
                         /\ proc'[p].increment = proc[p].increment /\ tx'[p] = tx[p]
        /\ Midway(p) /\ ~ Midway(p)' => Wrote(p) /\ ~ Wrote(p)' /\ RowsKept
    BY <1>1 DEF MidwayKept, Carried
  <2> QED
    BY <2>1, <2>2
<1>4. \A q \in Procs : /\ Wrote(q) => tx[q] = 1
                       /\ Midway(q) /\ ~ Wrote(q) => tx[q] = 0
                       /\ Midway(q)' /\ ~ Wrote(q)' => tx'[q] = 0
  <2>1. \A q \in Procs : Midway(q)' /\ ~ Wrote(q)' => tx'[q] = 0
    BY DEF DbInv, Shape, RunInv, RunOK, InTx
  <2> QED
    BY <2>1, MidwayIs
<1>5. Owes({Daemon})' = Owes({Daemon}) /\ Due' = Due
  BY <1>1, <1>3, MidwayIs DEF Owes, Due
<1>6. CASE RowsKept
  <2>1. Owes(Outside)' = Owes(Outside)
    BY <1>3, <1>4 DEF Owes, Outside
  <2>2. ASSUME NEW w \in Procs, Wrote(w)'
        PROVE  Balanced(work'.rows, Owes(Procs)', Owes({Daemon}), Due, saved + Due)
    <3>1. work'.rows = Seen(w).rows
      BY <1>6, <2>2 DEF RowsKept
    <3>2. CASE Wrote(w)
      <4>1. \A q \in Procs : Midway(q) => Midway(q)'
        BY <1>3, <2>2, <3>2 DEF DbInv, OneWriter
      <4>2. Owes(Procs)' = Owes(Procs)
        BY <1>3, <4>1 DEF Owes
      <4> QED
        BY <1>2, <3>1, <3>2, <4>2 DEF Seen
    <3>3. CASE ~ Wrote(w)
      <4>1. \A q \in Procs : ~ Wrote(q)
        <5>1. w = p /\ \A q \in Procs \ {p} : ~ Wrote(q)'
          BY <1>3, <2>2, <3>3 DEF DbInv, OneWriter
        <5> QED
          BY <1>3, <3>3, <5>1
      <4>2. Owes(Procs)' = Owes(Outside)
        BY <1>3, <1>4, <4>1 DEF Owes, Outside
      <4> QED
        BY <1>2, <3>1, <3>3, <4>2 DEF Seen
    <3> QED
      BY <3>2, <3>3
  <2>3. file'.rows = file.rows
    BY <1>6 DEF RowsKept
  <2> QED
    BY <1>1, <1>2, <1>5, <2>1, <2>2, <2>3
<1>7. CASE RowsCommitted /\ ~ RowsKept
  <2>1. /\ \E w \in Procs : Wrote(w)
        /\ file'.rows = work.rows /\ \A q \in Procs : ~ Wrote(q)'
    BY <1>7 DEF RowsCommitted
  <2>2. Owes(Outside)' = Owes(Procs)
    BY <1>3, <1>4, <1>7, <2>1 DEF Owes, Outside
  <2> QED
    BY <1>1, <1>2, <1>5, <2>1, <2>2
<1> QED
  BY <1>6, <1>7 DEF QuietStep

AfterOwes(M) == {Debt(proc'[p].song, proc'[p].at) : p \in {q \in M : Midway(q)'}}

(* What a written row does to the debts.                                   *)
DebtMoves(debts, after, s, at, next) ==
    /\ at = "song" => next = "artist" /\ after = debts \union {Debt(s, "artist")}
    /\ at # "song" =>
         /\ Debt(s, at) \in debts
         /\ \A d \in debts : d \in after \/ d = Debt(s, at)
         /\ \A d \in after : d \in debts \/ d.song = s
         /\ next # "none" => Debt(s, next) \in after

LEMMA DebtIs ==
    ASSUME NEW s \in Songs, NEW at \in Kinds \ {"song"}, NameOf(at, s) # None, ArtistOf[s] # None,
           NEW next, next = NextKind(at, s)
    PROVE  /\ Debt(s, at).song = s /\ at \in Debt(s, at).kinds
           /\ next = "none" => Debt(s, at).kinds = {at}
           /\ next # "none" =>
                /\ Debt(s, next).song = s
                /\ Debt(s, next).kinds = Debt(s, at).kinds \ {at}
<1> USE DEF Debt, Later, Kinds, NextKind, NameOf
<1>1. CASE at = "artist"
  BY <1>1
<1>2. CASE at = "album"
  BY <1>2
<1>3. CASE at = "genre"
  BY <1>3
<1> QED
  BY <1>1, <1>2, <1>3

LEMMA RowStepIs ==
    ASSUME RowsInv, NEW p \in Procs, RowStep(p)
    PROVE  /\ proc[p].song \in Songs /\ ArtistOf[proc[p].song] # None
           /\ proc[p].at \in Kinds /\ NameOf(proc[p].at, proc[p].song) # None
           /\ Midway(p) <=> proc[p].at # "song"
           /\ proc[p].increment \in Int /\ (p # Daemon => proc[p].increment = 0)
           /\ proc[p].at = "song" => Next_at(p) = "artist"
           /\ Next_at(p) = "none" => ~ Midway(p)'
           /\ Next_at(p) # "none" =>
                /\ Midway(p)' /\ proc'[p].song = proc[p].song /\ proc'[p].at = Next_at(p)
                /\ proc'[p].increment = proc[p].increment
           /\ \A q \in Procs \ {p} : /\ Midway(q)' <=> Midway(q)
                                     /\ proc'[q] = proc[q] /\ tx'[q] = tx[q]
<1>1. RecordOK(p, proc[p]) /\ SongAt(proc[p]) /\ proc[p].pc = "write" /\ WentOn(p) /\ Frame(p)
  BY NewRowsOK DEF RowsInv, RowStep
<1>2. /\ proc[p].song \in Songs /\ ArtistOf[proc[p].song] # None /\ proc[p].at \in Kinds
      /\ NameOf(proc[p].at, proc[p].song) # None /\ (Midway(p) <=> proc[p].at # "song")
      /\ proc[p].increment \in Int /\ (p # Daemon => proc[p].increment = 0)
  BY <1>1 DEF RecordOK, SongAt, Midway
<1>3. proc[p].at = "song" => Next_at(p) = "artist"
  BY DEF Next_at, NextKind
<1>4. Next_at(p) # "none" => Next_at(p) # "song"
  BY <1>2, NextKindIs DEF Next_at
<1>5. /\ Next_at(p) = "none" => ~ Midway(p)'
      /\ Next_at(p) # "none" =>
           /\ Midway(p)' /\ proc'[p].song = proc[p].song /\ proc'[p].at = Next_at(p)
           /\ proc'[p].increment = proc[p].increment
  BY <1>1, <1>4 DEF WentOn, Carried, Midway
<1>6. \A q \in Procs \ {p} : /\ Midway(q)' <=> Midway(q)
                             /\ proc'[q] = proc[q] /\ tx'[q] = tx[q]
  BY <1>1 DEF Frame, Midway
<1> QED
  BY <1>2, <1>3, <1>5, <1>6

LEMMA DebtsMove ==
    ASSUME RowsInv, NEW p \in Procs, RowStep(p), NEW M \in SUBSET Procs, p \in M
    PROVE  DebtMoves(Owes(M), AfterOwes(M), proc[p].song, proc[p].at, Next_at(p))
<1> DEFINE s == proc[p].song
           at == proc[p].at
           next == Next_at(p)
           B == {q \in M : Midway(q)}
           C == {q \in M : Midway(q)'}
<1>1. \A q \in M \ {p} : /\ q \in C <=> q \in B
                         /\ proc'[q] = proc[q]
  BY RowStepIs
<1>2. CASE at = "song"
  <2>1. next = "artist" /\ p \notin B /\ C = B \union {p} /\ proc'[p].song = s /\ proc'[p].at = "artist"
    BY <1>1, <1>2, RowStepIs
  <2>2. Owes(M) = {Debt(proc[q].song, proc[q].at) : q \in B}
    BY DEF Owes
  <2>3. AfterOwes(M) = {Debt(proc'[q].song, proc'[q].at) : q \in C}
    BY DEF AfterOwes
  <2>4. \A q \in B : q # p /\ proc'[q] = proc[q]
    BY <1>1, <2>1
  <2> HIDE DEF s, at, next, B, C
  <2>5. AfterOwes(M) = Owes(M) \union {Debt(s, "artist")}
    BY <2>1, <2>2, <2>3, <2>4
  <2> QED
    BY <1>2, <2>1, <2>5 DEF DebtMoves, s, at, next
<1>3. CASE at # "song"
  <2>1. p \in B /\ at \in Kinds /\ s \in Songs
    BY <1>3, RowStepIs
  <2>2. Debt(s, at) \in Owes(M)
    BY <2>1 DEF Owes
  <2>3. \A q \in B : Debt(proc[q].song, proc[q].at) \in AfterOwes(M) \/ q = p
    BY <1>1 DEF AfterOwes
  <2>4. \A q \in C : Debt(proc'[q].song, proc'[q].at) \in Owes(M) \/ q = p
    BY <1>1 DEF Owes
  <2>5. p \in C => next # "none" /\ proc'[p].song = s /\ proc'[p].at = next
    BY RowStepIs
  <2>6. next # "none" => Debt(s, next) \in AfterOwes(M)
    BY RowStepIs DEF AfterOwes
  <2>7. \A d \in Owes(M) : d \in AfterOwes(M) \/ d = Debt(s, at)
    BY <2>3 DEF Owes
  <2>8. Debt(s, next).song = s
    BY DEF Debt
  <2>9. \A d \in AfterOwes(M) : d \in Owes(M) \/ d.song = s
    BY <2>4, <2>5, <2>8 DEF AfterOwes
  <2> QED
    BY <1>3, <2>2, <2>6, <2>7, <2>9 DEF DebtMoves
<1> QED
  BY <1>2, <1>3

(* What mpdcron owes and has still to count, before and after.             *)
LEMMA DaemonOwes ==
    ASSUME RowsInv, saved \in Int, NEW p \in Procs, RowStep(p)
    PROVE  /\ p # Daemon => /\ AfterOwes({Daemon}) = Owes({Daemon})
                            /\ Due' = Due /\ saved' = saved /\ proc[p].increment = 0
           /\ p = Daemon /\ proc[p].at = "song" =>
                /\ Owes({Daemon}) = {} /\ Due = 0 /\ saved' = saved
                /\ AfterOwes({Daemon}) = {Debt(proc[p].song, "artist")}
                /\ Due' = proc[p].increment
           /\ p = Daemon /\ proc[p].at # "song" =>
                /\ Owes({Daemon}) = {Debt(proc[p].song, proc[p].at)} /\ Due = proc[p].increment
                /\ saved' + Due' = saved + Due
                /\ Next_at(p) = "none" => AfterOwes({Daemon}) = {}
                /\ Next_at(p) # "none" =>
                     /\ AfterOwes({Daemon}) = {Debt(proc[p].song, Next_at(p))}
                     /\ Due' = proc[p].increment
<1>1. /\ Next_at(p) = "none" => saved' = saved + proc[p].increment
      /\ Next_at(p) # "none" => saved' = saved
      /\ proc[p].increment \in Int /\ Daemon \in Procs
  BY RowStepIs DEF RowStep, WentOn, Procs
<1>2. CASE p # Daemon
  <2>1. proc'[Daemon] = proc[Daemon] /\ (Midway(Daemon)' <=> Midway(Daemon)) /\ proc[p].increment = 0
    BY <1>1, <1>2, RowStepIs
  <2>2. AfterOwes({Daemon}) = Owes({Daemon})
    BY <2>1 DEF AfterOwes, Owes
  <2>3. Due' = Due
    BY <2>1 DEF Due
  <2>4. saved' = saved
    BY <1>1, <2>1
  <2> QED
    BY <1>2, <2>1, <2>2, <2>3, <2>4
<1>3. CASE p = Daemon /\ proc[p].at = "song"
  <2>1. /\ ~ Midway(Daemon) /\ Midway(Daemon)' /\ proc'[Daemon].song = proc[p].song
        /\ proc'[Daemon].at = "artist" /\ proc'[Daemon].increment = proc[p].increment
        /\ Next_at(p) # "none"
    BY <1>3, RowStepIs
  <2>2. Owes({Daemon}) = {}
    BY <2>1 DEF Owes
  <2>3. AfterOwes({Daemon}) = {Debt(proc[p].song, "artist")}
    BY <2>1 DEF AfterOwes
  <2>4. Due = 0 /\ Due' = proc[p].increment
    BY <2>1 DEF Due
  <2> QED
    BY <1>1, <1>3, <2>1, <2>2, <2>3, <2>4
<1>4. CASE p = Daemon /\ proc[p].at # "song"
  <2>1. Midway(Daemon)
    BY <1>4, RowStepIs
  <2>2. Owes({Daemon}) = {Debt(proc[p].song, proc[p].at)}
    BY <1>4, <2>1 DEF Owes
  <2>3. Due = proc[p].increment
    BY <1>4, <2>1 DEF Due
  <2>4. CASE Next_at(p) = "none"
    <3>1. ~ Midway(Daemon)'
      BY <1>4, <2>4, RowStepIs
    <3>2. AfterOwes({Daemon}) = {} /\ Due' = 0
      BY <3>1 DEF AfterOwes, Due
    <3> QED
      BY <1>1, <1>4, <2>2, <2>3, <2>4, <3>2
  <2>5. CASE Next_at(p) # "none"
    <3>1. /\ Midway(Daemon)' /\ proc'[Daemon].song = proc[p].song
          /\ proc'[Daemon].at = Next_at(p) /\ proc'[Daemon].increment = proc[p].increment
      BY <1>4, <2>5, RowStepIs
    <3>2. AfterOwes({Daemon}) = {Debt(proc[p].song, Next_at(p))}
      BY <3>1 DEF AfterOwes
    <3>3. Due' = proc[p].increment
      BY <3>1 DEF Due
    <3> QED
      BY <1>1, <1>4, <2>2, <2>3, <2>5, <3>2, <3>3
  <2> QED
    BY <2>4, <2>5
<1> QED
  BY <1>2, <1>3, <1>4

(* A written row keeps the balance.                                        *)
LEMMA RowBalance ==
    ASSUME RowsInv, saved \in Int, NEW p \in Procs, RowStep(p), NEW debts, NEW after,
           DebtMoves(debts, after, proc[p].song, proc[p].at, Next_at(p)),
           Balanced(Seen(p).rows, debts, Owes({Daemon}), Due, saved + Due)
    PROVE  Balanced(NewRows(p), after, AfterOwes({Daemon}), Due', saved' + Due')
<1> DEFINE s == proc[p].song
           at == proc[p].at
           i == proc[p].increment
           next == Next_at(p)
           tables == Seen(p).rows
           new == NewRows(p)
           own == Owes({Daemon})
           mine == AfterOwes({Daemon})
           total == saved + Due
           all == saved' + Due'
<1>1. TablesOK(tables) /\ TablesOK(new)
  BY NewRowsOK DEF RowsInv
<1>2. /\ s \in Songs /\ ArtistOf[s] # None /\ at \in Kinds /\ NameOf(at, s) # None /\ i \in Int
      /\ next = NextKind(at, s)
  BY RowStepIs DEF Next_at
<1>3. TableProcessed(new, tables, at, s, i)
  BY NewRowIs
<1>4. Due \in Int /\ total \in Int
  BY MidwayIs DEF RowsInv
<1>5. /\ p # Daemon => i = 0 /\ mine = own /\ Due' = Due /\ all = total
      /\ p = Daemon /\ at = "song" =>
           own = {} /\ Due = 0 /\ mine = {Debt(s, "artist")} /\ Due' = i /\ all = total + i
      /\ p = Daemon /\ at # "song" =>
           /\ own = {Debt(s, at)} /\ Due = i /\ all = total
           /\ next = "none" => mine = {}
           /\ next # "none" => mine = {Debt(s, next)} /\ Due' = i
  <2>1. CASE p # Daemon
    BY <2>1, DaemonOwes
  <2>2. CASE p = Daemon /\ at = "song"
    <3>1. own = {} /\ Due = 0 /\ mine = {Debt(s, "artist")} /\ Due' = i /\ saved' = saved
      BY <2>2, DaemonOwes
    <3>2. all = total + i
      BY <1>2, <3>1
    <3> QED
      BY <2>2, <3>1, <3>2
  <2>3. CASE p = Daemon /\ at # "song"
    BY <2>3, DaemonOwes
  <2> HIDE DEF own, mine, all, total
  <2> QED
    BY <2>1, <2>2, <2>3
<1>6. DebtMoves(debts, after, s, at, next) /\ Balanced(tables, debts, own, Due, total)
  OBVIOUS
<1> HIDE DEF s, at, i, next, tables, new, own, mine, total, all
<1>7. CASE at = "song"
  <2>1. TableProcessed(new, tables, "song", s, i) /\ NameOf("song", s) # None
    BY <1>2, <1>3, <1>7
  <2>2. \/ i = 0 /\ mine = own /\ Due' = Due /\ all = total
        \/ own = {} /\ mine = {Debt(s, "artist")} /\ Due' = i /\ all = total + i
    BY <1>5, <1>7
  <2>3. after = debts \union {Debt(s, "artist")}
    BY <1>6, <1>7 DEF DebtMoves
  <2>4. Balanced(new, debts \union {Debt(s, "artist")}, mine, Due', all)
    BY <1>1, <1>2, <1>4, <1>6, <2>1, <2>2, SongWritten
  <2> QED
    BY <2>3, <2>4 DEF new, mine, all
<1>8. CASE at # "song"
  <2> DEFINE debt == Debt(s, at)
  <2>1. at \in Kinds \ {"song"}
    BY <1>2, <1>8
  <2>2. /\ debt.song = s /\ at \in debt.kinds
        /\ next = "none" => debt.kinds = {at}
        /\ next # "none" => /\ Debt(s, next).song = s
                            /\ Debt(s, next).kinds = debt.kinds \ {at}
    BY <1>2, <2>1, DebtIs
  <2>3. /\ debt \in debts /\ \A d \in debts : d \in after \/ d = debt
        /\ \A d \in after : d \in debts \/ d.song = s
        /\ next # "none" => Debt(s, next) \in after
    BY <1>6, <1>8 DEF DebtMoves
  <2>4. \A k \in debt.kinds \ {at} : Lacks(after, k, NameOf(k, s))
    BY <2>2, <2>3 DEF Lacks
  <2>5. OwnChanges(own, Due, mine, Due', debt, at, i)
    <3>1. CASE p # Daemon
      BY <1>5, <3>1 DEF OwnChanges
    <3>2. CASE p = Daemon /\ next = "none"
      <4>1. mine = {} /\ own = {debt} /\ Due = i
        BY <1>5, <1>8, <3>2
      <4>2. debt.kinds \ {at} = {}
        BY <2>2, <3>2
      <4> HIDE DEF debt
      <4> QED
        BY <4>1, <4>2 DEF Lacks, OwnChanges
    <3>3. CASE p = Daemon /\ next # "none"
      <4>1. mine = {Debt(s, next)} /\ own = {debt} /\ Due = i /\ Due' = i
        BY <1>5, <1>8, <3>3
      <4>2. Debt(s, next).song = s /\ Debt(s, next).kinds = debt.kinds \ {at} /\ debt.song = s
        BY <2>2, <3>3
      <4> HIDE DEF debt
      <4> QED
        BY <4>1, <4>2 DEF Lacks, OwnChanges
    <3> QED
      BY <3>1, <3>2, <3>3
  <2>6. all = total
    BY <1>5, <1>8
  <2>7. /\ OneRowWritten(new[at], tables[at], at, NameOf(at, s), s, i)
        /\ \A k \in Kinds : k # at => new[k] = tables[k]
        /\ new[History] = tables[History]
    BY <1>3, <1>8 DEF TableProcessed
  <2>8. Balanced(new, after, mine, Due', TotalThen(total, at, i))
    BY <1>1, <1>2, <1>6, <2>3, <2>4, <2>5, <2>7, EntryWritten
  <2> QED
    BY <1>8, <2>6, <2>8 DEF TotalThen, new, mine, all
<1> QED
  BY <1>7, <1>8

LEMMA RowCounts ==
    ASSUME RowsInv, CountInv, NEW p \in Procs, RowStep(p)
    PROVE  CountInv'
<1>1. /\ saved' \in Int /\ history' = history /\ saved \in Int /\ tx[p] \in {0, 1} /\ tx'[p] = tx[p]
      /\ RowsWritten(p, NewRows(p)) /\ \A q \in Procs \ {p} : tx'[q] = tx[q]
  <2>1. proc[p].increment \in Int
    BY RowStepIs
  <2>2. saved' \in Int
    BY <2>1 DEF RowStep, WentOn, CountInv
  <2> QED
    BY <2>2 DEF RowStep, Frame, CountInv, RowsInv, DbInv, Shape
<1>2. Outside' = Outside /\ \A M : M \subseteq Procs => M \intersect Procs = M
  BY <1>1 DEF Outside
<1>3. /\ Owes(Outside)' = AfterOwes(Outside) /\ Owes(Procs)' = AfterOwes(Procs)
      /\ Owes({Daemon})' = AfterOwes({Daemon})
  BY <1>2 DEF Owes, AfterOwes
<1> SUFFICES ASSUME AllCounted'
             PROVE  /\ Balanced(file'.rows, AfterOwes(Outside), AfterOwes({Daemon}), Due', saved' + Due')
                    /\ (\E w \in Procs : Wrote(w)') =>
                         Balanced(work'.rows, AfterOwes(Procs), AfterOwes({Daemon}), Due', saved' + Due')
  BY <1>1, <1>3 DEF CountInv
<1>4. /\ Balanced(file.rows, Owes(Outside), Owes({Daemon}), Due, saved + Due)
      /\ (\E w \in Procs : Wrote(w)) =>
           Balanced(work.rows, Owes(Procs), Owes({Daemon}), Due, saved + Due)
  BY <1>1 DEF CountInv, AllCounted
<1>5. CASE tx[p] = 0
  <2>1. file'.rows = NewRows(p) /\ \A q \in Procs : ~ Wrote(q) /\ ~ Wrote(q)'
    BY <1>1, <1>5 DEF RowsWritten
  <2>2. Outside \subseteq Procs /\ p \in Outside /\ Seen(p) = file
    BY <1>5, <2>1 DEF Outside, Seen
  <2>3. DebtMoves(Owes(Outside), AfterOwes(Outside), proc[p].song, proc[p].at, Next_at(p))
    BY <2>2, DebtsMove
  <2>4. Balanced(NewRows(p), AfterOwes(Outside), AfterOwes({Daemon}), Due', saved' + Due')
    BY <1>1, <1>4, <2>2, <2>3, RowBalance
  <2> QED
    BY <2>1, <2>4
<1>6. CASE tx[p] = 1
  <2>1. /\ file'.rows = file.rows /\ work'.rows = NewRows(p)
        /\ \A q \in Procs \ {p} : ~ Wrote(q) /\ ~ Wrote(q)'
    BY <1>1, <1>6 DEF RowsWritten
  <2>2. p # Daemon
    BY <1>6, WorkingRuns DEF RowStep, Working, RowsInv
  <2>3. AfterOwes({Daemon}) = Owes({Daemon}) /\ Due' = Due /\ saved' = saved
    BY <1>1, <2>2, DaemonOwes
  <2>4. \A q \in Outside : q # p /\ q \in Procs
    BY <1>6 DEF Outside
  <2>5. \A q \in Outside : (Midway(q)' <=> Midway(q)) /\ proc'[q] = proc[q]
    BY <2>4, RowStepIs
  <2>6. AfterOwes(Outside) = Owes(Outside)
    BY <2>5 DEF AfterOwes, Owes
  <2>7. Balanced(file'.rows, AfterOwes(Outside), AfterOwes({Daemon}), Due', saved' + Due')
    BY <1>4, <2>1, <2>3, <2>6
  <2>8. Balanced(Seen(p).rows, Owes(Procs), Owes({Daemon}), Due, saved + Due)
    <3>1. CASE Wrote(p)
      BY <1>4, <3>1 DEF Seen
    <3>2. CASE ~ Wrote(p)
      <4>1. \A q \in Procs : ~ Wrote(q)
        BY <2>1, <3>2
      <4>2. \A q \in Procs : Midway(q) => tx[q] = 0
        BY <4>1, MidwayIs DEF RowsInv
      <4>3. Owes(Procs) = Owes(Outside)
        BY <4>2 DEF Owes, Outside
      <4> QED
        BY <1>4, <3>2, <4>3 DEF Seen
    <3> QED
      BY <3>1, <3>2
  <2>9. DebtMoves(Owes(Procs), AfterOwes(Procs), proc[p].song, proc[p].at, Next_at(p))
    <3>1. Procs \in SUBSET Procs
      OBVIOUS
    <3> QED
      BY <3>1, DebtsMove
  <2>10. Balanced(NewRows(p), AfterOwes(Procs), AfterOwes({Daemon}), Due', saved' + Due')
    BY <1>1, <2>8, <2>9, RowBalance
  <2> QED
    BY <2>1, <2>7, <2>10
<1> QED
  BY <1>1, <1>5, <1>6

(* Commands other than count do not disturb the balance.                   *)
LEMMA ServedCounts ==
    ASSUME RowsInv, CountInv, NEW rows, ServedStep(rows), RowsServed(file.rows, rows)
    PROVE  CountInv'
<1>1. /\ UNCHANGED <<proc, tx, saved>> /\ history \subseteq history' /\ tx[Daemon] = 0
      /\ RowsWritten(Daemon, rows)
  BY DEF ServedStep
<1>2. file'.rows = rows /\ \A q \in Procs : ~ Wrote(q) /\ ~ Wrote(q)'
  BY <1>1 DEF RowsWritten
<1>3. /\ Owes(Outside)' = Owes(Outside) /\ Owes({Daemon})' = Owes({Daemon}) /\ Due' = Due
  BY <1>1 DEF Owes, Outside, Midway, Due
<1>4. ASSUME AllCounted'
      PROVE  Balanced(rows, Owes(Outside), Owes({Daemon}), Due, saved + Due)
  <2>1. Balanced(file.rows, Owes(Outside), Owes({Daemon}), Due, saved + Due)
    BY <1>1, <1>4 DEF CountInv, AllCounted
  <2>2. /\ TablesOK(file.rows) /\ rows[History] = file.rows[History]
        /\ \A k \in Kinds : /\ DOMAIN rows[k] = DOMAIN file.rows[k]
                            /\ \A n \in DOMAIN file.rows[k] : rows[k][n].count = file.rows[k][n].count
    BY <1>4 DEF RowsInv, RowsServed, AllCounted
  <2> QED
    BY <2>1, <2>2, BalancedSame
<1> QED
  BY <1>1, <1>2, <1>3, <1>4 DEF CountInv

LEMMA CountInit == Init => CountInv
<1> SUFFICES ASSUME Init PROVE CountInv
  OBVIOUS
<1>1. /\ saved = PlayCount(file.rows) /\ history = IF Agree(file.rows) THEN {} ELSE {"torn"}
      /\ \A p \in Procs : ~ Midway(p) /\ ~ Wrote(p)
  BY DEF Init, Midway, Idle, Wrote
<1>2. TablesOK(file.rows) /\ Daemon \in Procs
  BY RowsInit DEF RowsInv, Procs
<1>3. Owes(Outside) = {} /\ Owes({Daemon}) = {} /\ Due = 0
  BY <1>1, <1>2 DEF Owes, Outside, Due
<1>4. saved \in Int
  <2> DEFINE songs == file.rows["song"]
  <2>1. IsFiniteSet(DOMAIN songs) /\ \A n \in DOMAIN songs : songs[n].count \in Int
    BY <1>2, TablesFinite
  <2> HIDE DEF songs
  <2>2. Total(songs, DOMAIN songs) \in Int
    BY <2>1, TotalIsInt
  <2> QED
    BY <1>1, <2>2 DEF PlayCount, songs
<1>5. ASSUME AllCounted
      PROVE  Balanced(file.rows, Owes(Outside), Owes({Daemon}), Due, saved + Due)
  <2>1. Agree(file.rows) /\ saved + Due = PlayCount(file.rows)
    BY <1>1, <1>3, <1>4, <1>5 DEF AllCounted
  <2> QED
    BY <1>2, <1>3, <2>1, AgreeBalanced
<1> QED
  BY <1>1, <1>4, <1>5 DEF CountInv

LEMMA CountStep ==
    ASSUME RowsInv, RowsInv', CountInv, TypedSteps
    PROVE  CountInv'
<1>1. ASSUME NEW p \in Procs, QuietStep(p) PROVE CountInv'
  BY <1>1, QuietCounts DEF RowsInv
<1> QED
  BY <1>1, RowCounts, ServedCounts DEF TypedSteps, Served

(* However many tools add songs while mpdcron counts plays, and whichever  *)
(* of them die or fail in a transaction: as long as no song was left half  *)
(* written and no command changed a play count, the tables add up whenever *)
(* nobody is in the middle of a song.  What holds in between is that the   *)
(* tables are balanced: rows are missing and play counts too low by        *)
(* exactly what those in the middle of a song still owe.                   *)
THEOREM CountsAlwaysAddUp == Spec => []CountsAddUp
<1>1. Init => CountInv
  BY CountInit
<1>2. RowsInv /\ RowsInv' /\ DbInv' /\ CountInv /\ [Next]_vars => CountInv'
  <2> SUFFICES ASSUME RowsInv, RowsInv', DbInv', CountInv, [Next]_vars PROVE CountInv'
    OBVIOUS
  <2>1. CASE Next
    BY <2>1, RowsStep, CountStep
  <2>2. CASE UNCHANGED vars
    <3>1. /\ UNCHANGED <<file, work, saved, history, proc, tx, lock>>
      BY <2>2 DEF vars
    <3>2. /\ Owes(Outside)' = Owes(Outside) /\ Owes(Procs)' = Owes(Procs)
          /\ Owes({Daemon})' = Owes({Daemon}) /\ Due' = Due
          /\ (\E w \in Procs : Wrote(w))' <=> \E w \in Procs : Wrote(w)
      BY <3>1 DEF Owes, Outside, Due, Midway, Wrote
    <3> QED
      BY <3>1, <3>2 DEF CountInv, AllCounted
  <2> QED
    BY <2>1, <2>2
<1>3. RowsInv /\ CountInv => CountsAddUp
  <2> SUFFICES ASSUME RowsInv, CountInv, AllCounted,
                      \A p \in Procs : Midway(p) => tx[p] = 1
               PROVE  PlayCount(file.rows) = saved /\ Agree(file.rows)
    BY DEF CountsAddUp, AllCounted
  <2>1. Daemon \in Procs /\ (Midway(Daemon) => tx[Daemon] = 0)
    BY MidwayIs DEF Procs, RowsInv
  <2>2. ~ Midway(Daemon) /\ \A p \in Outside : ~ Midway(p)
    BY <2>1 DEF Outside
  <2>3. Owes(Outside) = {} /\ Owes({Daemon}) = {} /\ Due = 0
    BY <2>2 DEF Owes, Due
  <2>4. Balanced(file.rows, {}, {}, 0, saved)
    BY <2>3 DEF CountInv
  <2> QED
    BY <2>4, AgreeBalanced DEF RowsInv
<1> QED
  BY <1>1, <1>2, <1>3, RowsInvHolds, DbInvHolds, PTL DEF Spec

-----------------------------------------------------------------------------
(***************************************************************************)
(* What eugene asks about the song it has added.                           *)
(***************************************************************************)
(* What a song's row of a kind should be like for the run q of eugene.     *)
HasRow(table, gone, kind, q, s) ==
    NameOf(kind, s) # None =>
      /\ NameOf(kind, s) \in DOMAIN table
      /\ kind = "album" => table[NameOf(kind, s)].artist = ArtistTagOf[s] \/ q \in gone

(* It is so in the file, and in what a transaction has made of it.         *)
FoundIn(q, s, kinds) ==
    \A k \in kinds : /\ HasRow(file.rows[k], moved, k, q, s)
                     /\ (\E w \in Procs : Wrote(w)) => HasRow(work.rows[k], moved, k, q, s)

AfterFound(q, s, kinds) ==
    \A k \in kinds : /\ HasRow(file'.rows[k], moved', k, q, s)
                     /\ (\E w \in Procs : Wrote(w)') => HasRow(work'.rows[k], moved', k, q, s)

(* The rows that db_process has dealt with.                                *)
Earlier == [song |-> {}, artist |-> {"song"}, album |-> {"song", "artist"},
            genre |-> {"song", "artist", "album"}]

Done(r) == IF r.pc \in Working THEN Earlier[r.at] ELSE Kinds

Adds(r) == r.program = "eugene" /\ (r.pc \in Working \/ (r.pc = "ask" /\ r.ok = 1))

AddedOK(q) == Adds(proc[q]) => proc[q].song \in Songs /\ FoundIn(q, proc[q].song, Done(proc[q]))

(* A command about the song, and the rows that mpdcron found for it.       *)
OneFound(q, c, rows, gone) ==
    Known(c) => \/ Cardinality(DOMAIN rows) = 1
                \/ c.kind = "album" /\ c.op \in {"addtag", "rmtag", "listtags"} /\ q \in gone

AboutSong(c, s) == c.where # None /\ \E a \in Asks : c = Run_cmd(a.op, a.kind, a.arg, s)

KindAsked(c, kind) == c.kind = kind \/ (c.op = "hate" /\ kind = "genre" /\ c.kind = "album")

AskedOK(q) ==
    talk[q].command # None /\ proc[q].ok = 1 =>
      /\ \E s \in Songs : AboutSong(talk[q].command, s) /\ FoundIn(q, s, Kinds)
      /\ KindAsked(talk[q].command, talk[q].asked)
      /\ serving = q \/ talk[q].answer # None =>
           OneFound(q, talk[q].command, talk[q].rows, moved)

FoundInv == \A q \in Tools : AddedOK(q) /\ AskedOK(q)

LEMMA FoundKept ==
    ASSUME RowsKept \/ RowsCommitted, moved' = moved, NEW q, NEW s, NEW kinds, FoundIn(q, s, kinds)
    PROVE  AfterFound(q, s, kinds)
<1>1. CASE RowsKept
  <2>1. ASSUME NEW k \in kinds, NEW w \in Procs, Wrote(w)'
        PROVE  HasRow(work'.rows[k], moved', k, q, s)
    BY <1>1, <2>1 DEF RowsKept, Seen, FoundIn
  <2> QED
    BY <1>1, <2>1 DEF RowsKept, FoundIn, AfterFound
<1>2. CASE RowsCommitted
  BY <1>2 DEF RowsCommitted, FoundIn, AfterFound
<1> QED
  BY <1>1, <1>2

LEMMA FoundServed ==
    ASSUME Served, NEW q, NEW s, NEW kinds, kinds \subseteq Kinds, FoundIn(q, s, kinds)
    PROVE  AfterFound(q, s, kinds) /\ moved' = moved /\ proc' = proc
<1>1. PICK rows : ServedStep(rows) /\ RowsServed(file.rows, rows)
  BY DEF Served
<1>2. file'.rows = rows /\ (\A w \in Procs : ~ Wrote(w)') /\ moved' = moved /\ proc' = proc
  BY <1>1 DEF ServedStep, RowsWritten
<1>3. ASSUME NEW k \in kinds PROVE HasRow(rows[k], moved, k, q, s)
  <2>1. /\ DOMAIN rows[k] = DOMAIN file.rows[k]
        /\ \A n \in DOMAIN file.rows[k] : rows[k][n].artist = file.rows[k][n].artist
    BY <1>1 DEF RowsServed
  <2>2. HasRow(file.rows[k], moved, k, q, s)
    BY DEF FoundIn
  <2> QED
    BY <2>1, <2>2 DEF HasRow
<1> QED
  BY <1>2, <1>3 DEF AfterFound

(* A row written by another process takes nothing from q but, with its     *)
(* knowledge, the artist of an album; a row written by q itself is there.  *)
LEMMA RowFound ==
    ASSUME RowsInv, NEW p \in Procs, RowStep(p), NEW q \in Tools, NEW s \in Songs, NEW k \in Kinds,
           \/ /\ HasRow(Seen(p).rows[k], moved, k, q, s)
              /\ p # q \/ proc[p].at # "album" \/ k # "album"
           \/ p = q /\ k = proc[p].at /\ s = proc[p].song
    PROVE  HasRow(NewRows(p)[k], moved', k, q, s)
<1> DEFINE r == proc[p]
           n == NameOf(r.at, r.song)
           old == Seen(p).rows[k]
           new == NewRows(p)[k]
<1>1. /\ r.at = k => OneRowWritten(new, old, k, n, r.song, r.increment)
      /\ r.at # k => new = old
  BY NewRowIs DEF TableProcessed
<1>2. moved' = (IF Moved(Seen(p).rows, r) THEN Tools ELSE moved)
                  \ (IF r.at = "album" THEN {p} ELSE {})
  BY DEF RowStep
<1>3. Moved(Seen(p).rows, r) <=>
        /\ r.at = "album" /\ n \in DOMAIN Seen(p).rows["album"]
        /\ ArtistTagOf[r.song] # Seen(p).rows["album"][n].artist
  <2>1. ASSUME r.at = "album", n \in DOMAIN Seen(p).rows["album"]
        PROVE  Update_entry("album", Seen(p).rows["album"][n], r.song, 0).artist
                 = ArtistTagOf[r.song]
    <3> DEFINE row == Seen(p).rows["album"][n]
    <3>1. row \in Rows
      BY <2>1, NewRowsOK DEF RowsInv, TablesOK, Kinds
    <3> HIDE DEF row
    <3>2. "artist" \in DOMAIN row
      BY <3>1 DEF Rows
    <3> QED
      BY <3>2 DEF Update_entry, row
  <2> QED
    BY <2>1 DEF Moved
<1> HIDE DEF r, n, old, new
<1> SUFFICES ASSUME NameOf(k, s) # None
             PROVE  /\ NameOf(k, s) \in DOMAIN new
                    /\ k = "album" => new[NameOf(k, s)].artist = ArtistTagOf[s] \/ q \in moved'
  BY DEF HasRow, new
<1>4. CASE p = q /\ k = r.at /\ s = r.song
  BY <1>1, <1>4 DEF OneRowWritten, n
<1>5. CASE HasRow(old, moved, k, q, s) /\ ~ (p = q /\ r.at = "album")
  <2>1. NameOf(k, s) \in DOMAIN new
    BY <1>1, <1>5 DEF HasRow, OneRowWritten
  <2>2. q \in moved => q \in moved'
    BY <1>2, <1>5
  <2>3. ASSUME k = "album" PROVE new[NameOf(k, s)].artist = ArtistTagOf[s] \/ q \in moved'
    <3>1. CASE r.at # k \/ NameOf(k, s) # n
      BY <1>1, <1>5, <2>1, <2>2, <2>3, <3>1 DEF HasRow, OneRowWritten
    <3>2. CASE r.at = k /\ NameOf(k, s) = n /\ ArtistTagOf[r.song] = old[n].artist
      BY <1>1, <1>5, <2>2, <2>3, <3>2 DEF HasRow, OneRowWritten
    <3>3. CASE r.at = k /\ NameOf(k, s) = n /\ ArtistTagOf[r.song] # old[n].artist
      <4>1. /\ n \in DOMAIN Seen(p).rows["album"]
            /\ ArtistTagOf[r.song] # Seen(p).rows["album"][n].artist
        BY <1>5, <2>3, <3>3 DEF HasRow, old
      <4> QED
        BY <1>2, <1>3, <1>5, <2>3, <3>3, <4>1
    <3> QED
      BY <3>1, <3>2, <3>3
  <2> QED
    BY <2>1, <2>3
<1>6. \/ p = q /\ k = r.at /\ s = r.song
      \/ HasRow(old, moved, k, q, s) /\ ~ (p = q /\ r.at = "album")
      \/ HasRow(old, moved, k, q, s) /\ p = q /\ r.at = "album" /\ k # "album"
  BY DEF r, old
<1>7. CASE HasRow(old, moved, k, q, s) /\ p = q /\ r.at = "album" /\ k # "album"
  BY <1>1, <1>7 DEF HasRow
<1> QED
  BY <1>4, <1>5, <1>6, <1>7

LEMMA FoundWritten ==
    ASSUME RowsInv, NEW p \in Procs, RowStep(p), NEW q \in Tools, NEW s \in Songs,
           NEW kinds, kinds \subseteq Kinds, FoundIn(q, s, kinds),
           p = q => tx[p] = 0 /\ (proc[p].at = "album" => "album" \notin kinds)
    PROVE  AfterFound(q, s, kinds)
<1>1. /\ tx[p] \in {0, 1} /\ RowsWritten(p, NewRows(p))
      /\ moved \subseteq Tools
      /\ p # q => (q \in moved => q \in moved')
  BY DEF RowStep, RowsInv, DbInv, Shape, RecordsOK
<1>2. ASSUME NEW k \in kinds PROVE HasRow(NewRows(p)[k], moved', k, q, s)
  <2>1. HasRow(Seen(p).rows[k], moved, k, q, s)
    BY DEF FoundIn, Seen
  <2>2. p # q \/ proc[p].at # "album" \/ k # "album"
    OBVIOUS
  <2>3. k \in Kinds
    OBVIOUS
  <2> QED
    BY <2>1, <2>2, <2>3, RowFound
<1>3. CASE tx[p] = 0
  <2>1. file'.rows = NewRows(p) /\ \A w \in Procs : ~ Wrote(w)'
    BY <1>1, <1>3 DEF RowsWritten
  <2> QED
    BY <1>2, <2>1 DEF AfterFound
<1>4. CASE tx[p] = 1
  <2>1. file'.rows = file.rows /\ work'.rows = NewRows(p) /\ p # q
    BY <1>1, <1>4 DEF RowsWritten
  <2>2. ASSUME NEW k \in kinds PROVE HasRow(file'.rows[k], moved', k, q, s)
    <3>1. HasRow(file.rows[k], moved, k, q, s)
      BY DEF FoundIn
    <3> QED
      BY <1>1, <2>1, <3>1 DEF HasRow
  <2> QED
    BY <1>2, <2>1, <2>2 DEF AfterFound
<1> QED
  BY <1>1, <1>3, <1>4

LEMMA FoundSkips ==
    ASSUME NEW s \in Songs, ArtistOf[s] # None, NEW at \in Kinds, NEW next, next = NextKind(at, s)
    PROVE  /\ at \notin Earlier[at] /\ Earlier[at] \subseteq Kinds
           /\ next = "none" => \A k \in Kinds : k \in Earlier[at] \union {at} \/ NameOf(k, s) = None
           /\ next # "none" =>
                \A k \in Earlier[next] : k \in Earlier[at] \union {at} \/ NameOf(k, s) = None
BY DEF Earlier, NextKind, Kinds, NameOf

(* A row that the run q of eugene writes is another one that is there.     *)
LEMMA OwnWritten ==
    ASSUME RowsInv, NEW q \in Tools, RowStep(q), AddedOK(q), Adds(proc[q])
    PROVE  Adds(proc'[q]) =>
             proc'[q].song \in Songs /\ AfterFound(q, proc'[q].song, Done(proc'[q]))
<1> DEFINE s == proc[q].song
           at == proc[q].at
           next == Next_at(q)
<1>1. /\ q \in Procs /\ proc[q].pc = "write" /\ proc[q].program = "eugene" /\ tx[q] = 0
      /\ RowsWritten(q, NewRows(q)) /\ tx[q] \in {0, 1}
  BY WorkingRuns DEF Procs, RowStep, RowsInv, Working, Adds
<1>2. /\ s \in Songs /\ ArtistOf[s] # None /\ at \in Kinds /\ FoundIn(q, s, Earlier[at])
      /\ next = NextKind(at, s)
  BY <1>1, RowStepIs DEF AddedOK, Done, Working, Next_at
<1>3. WentOn(q) /\ proc[q].song = s /\ Next_at(q) = next
  BY DEF RowStep
<1> HIDE DEF s, at, next
<1>4. /\ at \notin Earlier[at] /\ Earlier[at] \subseteq Kinds
      /\ next = "none" => \A k \in Kinds : k \in Earlier[at] \union {at} \/ NameOf(k, s) = None
      /\ next # "none" =>
           \A k \in Earlier[next] : k \in Earlier[at] \union {at} \/ NameOf(k, s) = None
  BY <1>2, FoundSkips
<1>5. AfterFound(q, s, Earlier[at])
  BY <1>1, <1>2, <1>4, FoundWritten DEF at
<1>6. HasRow(NewRows(q)[at], moved', at, q, s)
  BY <1>1, <1>2, RowFound DEF at, s
<1>7. file'.rows = NewRows(q) /\ \A w \in Procs : ~ Wrote(w)'
  BY <1>1 DEF RowsWritten
<1>8. \A k \in Earlier[at] \union {at} : HasRow(file'.rows[k], moved', k, q, s)
  BY <1>5, <1>6, <1>7 DEF AfterFound
<1>9. ASSUME NEW kinds, \A k \in kinds : k \in Earlier[at] \union {at} \/ NameOf(k, s) = None
      PROVE  AfterFound(q, s, kinds)
  BY <1>7, <1>8, <1>9 DEF AfterFound, HasRow
<1>10. CASE next = "none"
  <2>1. AfterFound(q, s, Kinds)
    BY <1>4, <1>9, <1>10
  <2>2. ~ Midway(q)' /\ (proc'[q].pc = "ask" => proc'[q].song = s)
    BY <1>3, <1>10 DEF WentOn
  <2>3. ASSUME proc'[q].pc \in Working
        PROVE  proc'[q].song \in Songs /\ AfterFound(q, proc'[q].song, Done(proc'[q]))
    <3>1. proc'[q].at = "song" /\ Done(proc'[q]) = {}
      BY <2>2, <2>3 DEF Midway, Working, Done, Earlier
    <3>2. SongAt(proc'[q])
      BY <2>3 DEF RowStep, RunOK, RecordOK
    <3> QED
      BY <3>1, <3>2 DEF AfterFound, SongAt
  <2>4. proc'[q].pc = "ask" => Done(proc'[q]) = Kinds
    BY DEF Done, Working
  <2> QED
    BY <1>2, <2>1, <2>2, <2>3, <2>4 DEF Adds
<1>11. CASE next # "none"
  <2>1. AfterFound(q, s, Earlier[next])
    BY <1>4, <1>9, <1>11
  <2>2. proc'[q].pc = "has" /\ proc'[q].at = next /\ proc'[q].song = s
    BY <1>3, <1>11 DEF WentOn, Carried
  <2> QED
    BY <1>2, <2>1, <2>2 DEF Done, Working
<1> QED
  BY <1>10, <1>11

LEMMA AddedStep ==
    ASSUME RowsInv, TypedSteps, NEW q \in Tools, AddedOK(q)
    PROVE  AddedOK(q)'
<1>1. q \in Procs
  BY DEF Procs
<1>2. AddedOK(q)' <=>
        (Adds(proc'[q]) => proc'[q].song \in Songs /\ AfterFound(q, proc'[q].song, Done(proc'[q])))
  BY DEF AddedOK, FoundIn, AfterFound
<1> SUFFICES ASSUME Adds(proc'[q])
             PROVE  proc'[q].song \in Songs /\ AfterFound(q, proc'[q].song, Done(proc'[q]))
  BY <1>2
<1>3. Adds(proc[q]) => Done(proc[q]) \subseteq Kinds
  <2>1. proc[q].pc \in Working => proc[q].at \in Kinds
    BY <1>1, WorkingRuns DEF RowsInv, SongAt
  <2> QED
    BY <2>1 DEF Done, Earlier, Kinds
<1>4. ASSUME proc'[q] = proc[q], AfterFound(q, proc[q].song, Done(proc[q]))
      PROVE  proc'[q].song \in Songs /\ AfterFound(q, proc'[q].song, Done(proc'[q]))
  BY <1>4 DEF AddedOK
<1>5. ASSUME NEW p \in Procs, QuietStep(p)
      PROVE  proc'[q].song \in Songs /\ AfterFound(q, proc'[q].song, Done(proc'[q]))
  <2>1. /\ RowsKept \/ RowsCommitted
        /\ moved' = moved
    BY <1>5 DEF QuietStep
  <2>2. CASE p # q
    <3>1. proc'[q] = proc[q]
      BY <1>1, <1>5, <2>2 DEF QuietStep, Frame
    <3>2. FoundIn(q, proc[q].song, Done(proc[q]))
      BY <3>1 DEF AddedOK
    <3>3. AfterFound(q, proc[q].song, Done(proc[q]))
      BY <2>1, <3>2, FoundKept
    <3> QED
      BY <1>4, <3>1, <3>3
  <2>3. CASE p = q
    <3>1. /\ proc'[q].pc \in Working /\ RecordOK(q, proc[q])' /\ MidwayKept(q)
      BY <1>5, <2>3 DEF QuietStep, Adds, RunOK
    <3>2. SongAt(proc'[q])
      BY <3>1 DEF RecordOK
    <3>3. CASE proc'[q].at = "song"
      <4>1. Done(proc'[q]) = {}
        BY <3>1, <3>3 DEF Done, Earlier
      <4> QED
        BY <3>2, <4>1 DEF AfterFound, SongAt
    <3>4. CASE proc'[q].at # "song"
      <4>1. /\ Midway(q) /\ proc'[q].at = proc[q].at /\ proc'[q].song = proc[q].song
            /\ proc'[q].program = proc[q].program
        BY <3>1, <3>4 DEF MidwayKept, Carried, Midway, Working
      <4>2. Adds(proc[q]) /\ Done(proc[q]) = Done(proc'[q])
        BY <3>1, <4>1 DEF Adds, Midway, Working, Done
      <4>3. AfterFound(q, proc[q].song, Done(proc[q]))
        BY <2>1, <4>2, FoundKept DEF AddedOK
      <4> QED
        BY <3>2, <4>1, <4>2, <4>3 DEF SongAt
    <3> QED
      BY <3>3, <3>4
  <2> QED
    BY <2>2, <2>3
<1>6. ASSUME NEW p \in Procs, RowStep(p)
      PROVE  proc'[q].song \in Songs /\ AfterFound(q, proc'[q].song, Done(proc'[q]))
  <2>1. CASE p # q
    <3>1. proc'[q] = proc[q]
      BY <1>1, <1>6, <2>1 DEF RowStep, Frame
    <3>2. FoundIn(q, proc[q].song, Done(proc[q])) /\ proc[q].song \in Songs
      BY <3>1 DEF AddedOK
    <3>3. AfterFound(q, proc[q].song, Done(proc[q]))
      BY <1>3, <1>6, <2>1, <3>1, <3>2, FoundWritten
    <3> QED
      BY <1>4, <3>1, <3>3
  <2>2. CASE p = q
    <3>1. proc[q].pc = "write" /\ WentOn(q)
      BY <1>6, <2>2 DEF RowStep
    <3>2. CASE proc[q].program = "eugene"
      BY <1>6, <2>2, <3>1, <3>2, OwnWritten DEF Adds, Working
    <3>3. CASE proc[q].program # "eugene"
      <4>1. ~ Midway(q)' /\ proc'[q].pc \in Working
        BY <3>1, <3>3 DEF WentOn, Adds, Carried
      <4>2. Done(proc'[q]) = {}
        BY <4>1 DEF Midway, Done, Earlier, Working
      <4>3. SongAt(proc'[q])
        BY <1>6, <2>2, <4>1 DEF RowStep, RunOK, RecordOK
      <4> QED
        BY <4>2, <4>3 DEF AfterFound, SongAt
    <3> QED
      BY <3>2, <3>3
  <2> QED
    BY <2>1, <2>2
<1>7. CASE Served
  <2>1. proc'[q] = proc[q]
    BY <1>7 DEF Served, ServedStep
  <2>2. FoundIn(q, proc[q].song, Done(proc[q]))
    BY <2>1 DEF AddedOK
  <2>3. AfterFound(q, proc[q].song, Done(proc[q]))
    BY <1>3, <1>7, <2>1, <2>2, FoundServed
  <2> QED
    BY <1>4, <2>1, <2>3
<1> QED
  BY <1>5, <1>6, <1>7 DEF TypedSteps

(* The commands about a song select its row, whatever they do.             *)
LEMMA Run_cmdWhere ==
    ASSUME NEW op \in Ops \ {"list"}, NEW kind \in Kinds, NEW arg, NEW s, NEW c,
           op = "karma" => kind = "song", c = Run_cmd(op, kind, arg, s)
    PROVE  /\ c.kind \in Kinds /\ KindAsked(c, kind)
           /\ \/ c.where = By_name(c.kind, s)
              \/ /\ c.where = By_name_and_artist(c.kind, s)
                 /\ c.op \in {"addtag", "rmtag", "listtags"}
<1>1. CASE op \in {"love", "hate", "kill", "unkill"}
  BY <1>1 DEF Run_cmd, Cmd_love, Cmd_hate, Cmd_kill, Cmd_unkill, Love_expr, Kill_expr, Hates,
              KindAsked, Command, Kinds
<1>2. CASE op \in {"rate", "rate_absolute", "count", "listinfo"} \/ (op = "karma" /\ kind = "song")
  BY <1>2 DEF KindAsked, Run_cmd, Cmd_rate, Cmd_rate_absolute, Cmd_count, Cmd_karma, Cmd_listinfo, Rate_expr,
              Rate_absolute_expr, Count_expr, Karma_expr, Listinfo_expr, Command, Kinds
<1>3. CASE op \in {"addtag", "rmtag", "listtags"}
  BY <1>3 DEF Run_cmd, Cmd_addtag, Cmd_rmtag, Cmd_listtags, Addtag_expr, Rmtag_expr, Listtags_expr,
              KindAsked, Command
<1> QED
  BY <1>1, <1>2, <1>3 DEF Ops

LEMMA AboutOne ==
    ASSUME TablesOK(file.rows), NEW q, NEW s \in Songs, NEW c, AboutSong(c, s), FoundIn(q, s, Kinds)
    PROVE  OneFound(q, c, About(c), moved)
<1> DEFINE table == file.rows[c.kind]
           n == NameOf(c.kind, s)
<1>1. PICK a \in Asks : c = Run_cmd(a.op, a.kind, a.arg, s)
  BY DEF AboutSong
<1>2. /\ c.where # None /\ c.kind \in Kinds
      /\ \/ c.where = By_name(c.kind, s)
         \/ /\ c.where = By_name_and_artist(c.kind, s)
            /\ c.op \in {"addtag", "rmtag", "listtags"}
  <2> DEFINE op == a.op
             kind == a.kind
             arg == a.arg
  <2>1. /\ op \in Ops \ {"list"} /\ kind \in Kinds /\ (op = "karma" => kind = "song")
        /\ c = Run_cmd(op, kind, arg, s)
    BY <1>1, AsksAssumption, KarmaAssumption
  <2> HIDE DEF op, kind, arg
  <2> QED
    BY <2>1, Run_cmdWhere DEF AboutSong
<1>3. n # None /\ Tag_of(c.kind, s) = n
  <2>1. Tag_of(c.kind, s) # None
    BY <1>2 DEF By_name, By_name_and_artist
  <2> QED
    BY <2>1, ArtistAssumption DEF Tag_of, NameOf
<1>4. /\ n \in DOMAIN table
      /\ c.kind = "album" => table[n].artist = ArtistTagOf[s] \/ q \in moved
  BY <1>2, <1>3 DEF FoundIn, HasRow
<1>5. table[n].artist \in {ArtistTagOf[t] : t \in Songs} \union {None}
  BY <1>2, <1>4 DEF TablesOK, Rows
<1>6. DOMAIN About(c) = Selected(table, c.where)
  BY <1>2 DEF About
<1>7. CASE c.where = Named({n})
  <2>1. Selected(table, c.where) = {n}
    BY <1>4, <1>5, <1>7 DEF Selected, Named
  <2> QED
    BY <1>6, <2>1, FS_Singleton DEF OneFound
<1>8. CASE /\ c.kind = "album" /\ c.op \in {"addtag", "rmtag", "listtags"}
           /\ c.where = [names |-> {n}, artists |-> {ArtistTagOf[s]}]
  <2>1. CASE q \in moved
    BY <1>8, <2>1 DEF OneFound
  <2>2. CASE q \notin moved
    <3>1. Selected(table, c.where) = {n}
      BY <1>4, <1>8, <2>2 DEF Selected
    <3> QED
      BY <1>6, <3>1, FS_Singleton DEF OneFound
  <2> QED
    BY <2>1, <2>2
<1> QED
  BY <1>2, <1>3, <1>7, <1>8 DEF By_name, By_name_and_artist, NameOf

(* Nothing has been asked or answered anew for q.                          *)
AskKept(q) ==
    talk'[q].command # None /\ proc'[q].ok = 1 =>
      /\ talk'[q].command = talk[q].command /\ talk'[q].asked = talk[q].asked
      /\ talk'[q].rows = talk[q].rows /\ proc[q].ok = 1
      /\ serving' = q \/ talk'[q].answer # None => serving = q \/ talk[q].answer # None

(* While q waits for mpdcron, what it has added stays where it is.          *)
LEMMA FoundStays ==
    ASSUME RowsInv, TypedSteps, NEW q \in Tools, proc[q].pc # "write", NEW s \in Songs,
           FoundIn(q, s, Kinds)
    PROVE  AfterFound(q, s, Kinds) /\ (q \in moved => q \in moved')
<1>1. moved \subseteq Tools
  BY DEF RowsInv, RecordsOK
<1>2. ASSUME NEW p \in Procs, QuietStep(p)
      PROVE  AfterFound(q, s, Kinds) /\ (q \in moved => q \in moved')
  BY <1>2, FoundKept DEF QuietStep
<1>3. ASSUME NEW p \in Procs, RowStep(p)
      PROVE  AfterFound(q, s, Kinds) /\ (q \in moved => q \in moved')
  <2>1. p # q
    BY <1>3 DEF RowStep
  <2>2. AfterFound(q, s, Kinds)
    BY <1>3, <2>1, FoundWritten
  <2> QED
    BY <1>1, <1>3, <2>1, <2>2 DEF RowStep
<1>4. CASE Served
  BY <1>4, FoundServed
<1> QED
  BY <1>2, <1>3, <1>4 DEF TypedSteps

LEMMA AskedKept ==
    ASSUME RowsInv, TypedSteps, NEW q \in Tools, AskedOK(q), AskKept(q)
    PROVE  AskedOK(q)'
<1>1. SUFFICES ASSUME talk'[q].command # None, proc'[q].ok = 1
               PROVE  /\ \E s \in Songs : AboutSong(talk[q].command, s) /\ AfterFound(q, s, Kinds)
                      /\ KindAsked(talk[q].command, talk[q].asked)
                      /\ serving = q \/ talk[q].answer # None =>
                           OneFound(q, talk[q].command, talk[q].rows, moved')
  BY DEF AskedOK, AskKept, FoundIn, AfterFound
<1>2. talk[q].command # None /\ proc[q].ok = 1 /\ q \in Procs
  BY <1>1 DEF AskKept, Procs
<1>3. PICK s \in Songs : AboutSong(talk[q].command, s) /\ FoundIn(q, s, Kinds)
  BY <1>2 DEF AskedOK
<1>4. proc[q].pc # "write"
  BY <1>2 DEF RowsInv, TalkInv, TalkOK
<1>5. AfterFound(q, s, Kinds) /\ (q \in moved => q \in moved')
  BY <1>3, <1>4, FoundStays
<1>6. /\ KindAsked(talk[q].command, talk[q].asked)
      /\ serving = q \/ talk[q].answer # None =>
           OneFound(q, talk[q].command, talk[q].rows, moved)
  BY <1>2 DEF AskedOK
<1>7. serving = q \/ talk[q].answer # None => OneFound(q, talk[q].command, talk[q].rows, moved')
  BY <1>5, <1>6 DEF OneFound
<1> QED
  BY <1>3, <1>5, <1>6, <1>7

(* Only eugene itself and mpdcron's handlers ask and answer anew.          *)
LEMMA WorkAsks ==
    ASSUME RowsInv, NEW q \in Tools, NEW p \in Procs, UNCHANGED serves,
           \A u \in Procs \ {p} : proc'[u] = proc[u],
           \/ proc[p].pc \notin {"asked", "done"}
           \/ p = Daemon
           \/ proc' = [proc EXCEPT ![p] = Idle("done")]
    PROVE  AskKept(q)
<1>1. q \in Procs /\ q # Daemon /\ talk' = talk /\ serving' = serving
  BY DaemonAssumption DEF Procs, serves
<1>2. CASE p # q
  BY <1>1, <1>2 DEF AskKept
<1>3. CASE p = q /\ proc[p].pc \notin {"asked", "done"}
  BY <1>1, <1>3 DEF AskKept, RowsInv, TalkInv, TalkOK
<1>4. CASE p = q /\ proc' = [proc EXCEPT ![p] = Idle("done")]
  <2>1. proc'[q] = Idle("done")
    BY <1>1, <1>4, ProcIs DEF RowsInv
  <2> QED
    BY <2>1 DEF AskKept, Idle
<1> QED
  BY <1>1, <1>2, <1>3, <1>4

LEMMA ProcessAsks ==
    ASSUME RowsInv, NEW q \in Tools, NEW p \in Procs,
           Works(p) \/ CutShort(p) \/ Fail(p) \/ Crash(p)
    PROVE  AskKept(q)
<1>1. \A u \in Procs \ {p} : proc'[u] = proc[u]
  <2>1. Frame(p)
    BY WorkSteps DEF RowsInv, QuietStep, RowStep
  <2> QED
    BY <2>1 DEF Frame
<1>2. CASE Opens(p)
  <2>1. UNCHANGED serves /\ proc[p].pc \notin {"asked", "done"}
    BY <1>2 DEF Opens, Open, Create, Check, Migrate, SetVersion, EndMigration, Prepare
  <2> QED
    BY <1>1, <2>1, WorkAsks
<1>3. CASE Has(p) \/ WriteRow(p) \/ Refused(p) \/ End(p) \/ Vacuum(p) \/ CutShort(p)
  <2>1. UNCHANGED serves /\ proc[p].pc \notin {"asked", "done"}
    BY <1>3 DEF Has, WriteRow, Refused, End, Vacuum, CutShort
  <2> QED
    BY <1>1, <2>1, WorkAsks
<1>4. CASE Fail(p)
  <2>1. UNCHANGED serves /\ proc[p].pc \notin {"asked", "done"}
    BY <1>4 DEF Fail, FailOpening, FailBegin, FailMigrate, FailMigrated, FailProcess, FailEnd
  <2> QED
    BY <1>1, <2>1, WorkAsks
<1>5. CASE Crash(p) /\ p # Daemon
  <2>1. UNCHANGED serves /\ proc' = [proc EXCEPT ![p] = Idle("done")]
    BY <1>5 DEF Crash
  <2> QED
    BY <1>1, <2>1, WorkAsks
<1>6. CASE Crash(p) /\ p = Daemon
  <2>1. /\ talk' = [u \in Tools |-> IF talk[u].link = "up" /\ talk[u].answer = None
                                    THEN [NoTalk EXCEPT !.link = "cut"] ELSE talk[u]]
        /\ serving' = None
    BY <1>6 DEF Crash
  <2>2. proc'[q] = proc[q]
    BY <1>1, <1>6, DaemonAssumption DEF Procs
  <2>3. CASE talk[q].link = "up" /\ talk[q].answer = None
    <3>1. talk'[q].command = None
      BY <2>1, <2>3 DEF NoTalk
    <3> QED
      BY <3>1 DEF AskKept
  <2>4. CASE ~ (talk[q].link = "up" /\ talk[q].answer = None)
    BY <2>1, <2>2, <2>4, DaemonAssumption DEF AskKept
  <2> QED
    BY <2>3, <2>4
<1> QED
  BY <1>2, <1>3, <1>4, <1>5, <1>6 DEF Works

LEMMA ToolAsks ==
    ASSUME RowsInv, NEW q \in Tools, NEW u \in Tools,
           \/ StartWalrus(u) \/ StartWithExpression(u) \/ StartWithCurrent(u)
           \/ (Send(u) /\ u # q) \/ GiveUp(u) \/ Receive(u)
    PROVE  AskKept(q)
<1>1. /\ q \in Procs /\ u \in Procs /\ \A p \in Procs \ {u} : proc'[p] = proc[p]
      /\ talk = [v \in Tools |-> talk[v]] /\ TalkOK(q)
  BY ToolSteps DEF QuietStep, Frame, Procs, RowsInv, TalkInv
<1>2. CASE StartWalrus(u)
  <2>1. UNCHANGED serves /\ proc[u].pc \notin {"asked", "done"}
    BY <1>2 DEF StartWalrus
  <2> QED
    BY <1>1, <2>1, WorkAsks
<1>3. CASE StartWithExpression(u) \/ StartWithCurrent(u)
  <2>1. talk' = [talk EXCEPT ![u].link = "up"] /\ serving' = serving /\ proc[u].pc = "off"
    BY <1>3 DEF StartWithExpression, StartWithCurrent, Connect
  <2>2. CASE u # q
    BY <1>1, <2>1, <2>2 DEF AskKept
  <2>3. CASE u = q
    <3>1. talk[q].command = None
      BY <1>1, <2>1, <2>3 DEF TalkOK
    <3> DEFINE r == [talk[q] EXCEPT !.link = "up"]
    <3>2. talk'[q] = r
      BY <1>1, <2>1, <2>3
    <3>3. r.command = talk[q].command
      BY <1>1 DEF TalkOK, TalkFields
    <3> QED
      BY <3>1, <3>2, <3>3 DEF AskKept
  <2> QED
    BY <2>2, <2>3
<1>4. CASE Send(u) /\ u # q
  <2>1. talk'[q] = talk[q] /\ serving' = serving
    BY <1>1, <1>4 DEF Send
  <2> QED
    BY <1>1, <1>4, <2>1 DEF AskKept
<1>5. CASE GiveUp(u) \/ Receive(u)
  <2>1. talk' = [talk EXCEPT ![u] = NoTalk] /\ serving' = serving
    BY <1>5 DEF GiveUp, Receive
  <2>2. CASE u # q
    BY <1>1, <2>1, <2>2 DEF AskKept
  <2>3. CASE u = q
    <3>1. talk'[q].command = None
      BY <1>1, <2>1, <2>3 DEF NoTalk
    <3> QED
      BY <3>1 DEF AskKept
  <2> QED
    BY <2>2, <2>3
<1> QED
  BY <1>2, <1>3, <1>4, <1>5

LEMMA DaemonAsks ==
    ASSUME RowsInv, NEW q \in Tools,
           \/ StartDaemon \/ Play \/ RemoveRow \/ RemovedAll \/ FailRemove
           \/ \E u \in Tools \ {q} : Serve(u)
    PROVE  AskKept(q)
<1>1. /\ Daemon \in Procs /\ q \in Procs /\ q # Daemon /\ TalkOK(q)
      /\ talk = [v \in Tools |-> talk[v]]
  BY DaemonAssumption DEF Procs, RowsInv, TalkInv
<1>2. CASE StartDaemon \/ Play
  <2>1. UNCHANGED serves
    BY <1>2 DEF StartDaemon, Play
  <2>2. \A p \in Procs \ {Daemon} : proc'[p] = proc[p]
    BY <1>2, StartDaemonQuiet, PlayQuiet DEF RowsInv, QuietStep, Frame
  <2> QED
    BY <1>1, <2>1, <2>2, WorkAsks
<1>3. ASSUME NEW answer, Removed(answer) PROVE AskKept(q)
  <2>1. /\ serving' = None /\ talk' = [talk EXCEPT ![serving].answer = answer]
        /\ Goto(Daemon, "ready")
    BY <1>3 DEF Removed
  <2>2. proc'[q] = proc[q]
    BY <1>1, <2>1, GotoSets DEF RowsInv
  <2>3. CASE q # serving
    BY <1>1, <2>1, <2>2, <2>3, DaemonAssumption DEF AskKept
  <2>4. CASE q = serving
    <3> DEFINE r == [talk[q] EXCEPT !.answer = answer]
    <3>1. talk'[q] = r
      BY <1>1, <2>1, <2>4
    <3>2. r.command = talk[q].command /\ r.asked = talk[q].asked /\ r.rows = talk[q].rows
      BY <1>1 DEF TalkOK, TalkFields
    <3> HIDE DEF r
    <3> QED
      BY <2>2, <2>4, <3>1, <3>2 DEF AskKept
  <2> QED
    BY <2>3, <2>4
<1>4. CASE RemovedAll \/ FailRemove
  BY <1>3, <1>4 DEF RemovedAll, FailRemove
<1>5. CASE RemoveRow
  <2>1. CASE Removed(ACK)
    BY <1>3, <2>1
  <2>2. CASE UNCHANGED <<proc, serving, talk>>
    BY <2>2 DEF AskKept
  <2> QED
    BY <1>5, <2>1, <2>2 DEF RemoveRow
<1>6. ASSUME NEW u \in Tools \ {q}, Serve(u) PROVE AskKept(q)
  <2> DEFINE c == talk[u].command
  <2>1. CASE /\ UNCHANGED <<proc, serving>>
             /\ \E answer, rows : Answered(u, answer, rows)
    <3>1. talk'[q] = talk[q]
      BY <1>1, <1>6, <2>1 DEF Answered
    <3> QED
      BY <2>1, <3>1 DEF AskKept
  <2>2. CASE /\ serving' = u /\ Goto(Daemon, "removing")
             /\ talk' = [talk EXCEPT ![u].rows = About(c)]
    <3>1. talk'[q] = talk[q]
      BY <1>1, <1>6, <2>2
    <3>2. proc'[q] = proc[q]
      BY <1>1, <2>2, GotoSets DEF RowsInv
    <3> QED
      BY <1>6, <2>2, <3>1, <3>2 DEF AskKept
  <2>3. CASE ServeUnknown(u) \/ ServeLook(u) \/ ServeChange(u)
    BY <2>1, <2>3 DEF ServeUnknown, ServeLook, ServeChange
  <2>4. CASE ServeRmtag(u)
    BY <2>1, <2>2, <2>4 DEF ServeRmtag
  <2> QED
    BY <1>6, <2>3, <2>4 DEF Serve
<1> QED
  BY <1>2, <1>4, <1>5, <1>6

LEMMA AsksAnew ==
    ASSUME RowsInv, Next, NEW q \in Tools
    PROVE  AskKept(q) \/ Send(q) \/ Serve(q)
<1>1. CASE StartDaemon \/ Play \/ RemoveRow \/ RemovedAll \/ FailRemove
  BY <1>1, DaemonAsks
<1>2. ASSUME NEW p \in Procs, Works(p) \/ CutShort(p) \/ Crash(p) \/ Fail(p) PROVE AskKept(q)
  BY <1>2, ProcessAsks
<1>3. ASSUME NEW u \in Tools,
             \/ StartWalrus(u) \/ StartWithExpression(u) \/ StartWithCurrent(u)
             \/ Send(u) \/ GiveUp(u) \/ Receive(u)
      PROVE  AskKept(q) \/ Send(q)
  BY <1>3, ToolAsks
<1>4. ASSUME NEW u \in Tools, Serve(u) PROVE AskKept(q) \/ Serve(q)
  BY <1>4, DaemonAsks
<1> QED
  BY <1>1, <1>2, <1>3, <1>4 DEF Next

LEMMA AskedStep ==
    ASSUME RowsInv, Next, TypedSteps, NEW q \in Tools, AddedOK(q), AskedOK(q)
    PROVE  AskedOK(q)'
<1>1. /\ q \in Procs /\ q # Daemon /\ TalkOK(q) /\ ServingOK
      /\ talk = [v \in Tools |-> talk[v]] /\ TablesOK(file.rows)
      /\ RecordOK(q, proc[q])
  BY DaemonAssumption DEF Procs, RowsInv, TalkInv, RunInv, RunOK
<1>2. AskedOK(q)' <=>
        (talk'[q].command # None /\ proc'[q].ok = 1 =>
           /\ \E s \in Songs : AboutSong(talk'[q].command, s) /\ AfterFound(q, s, Kinds)
           /\ KindAsked(talk'[q].command, talk'[q].asked)
           /\ serving' = q \/ talk'[q].answer # None =>
                OneFound(q, talk'[q].command, talk'[q].rows, moved'))
  BY DEF AskedOK, FoundIn, AfterFound
<1>3. CASE Send(q)
  <2>1. PICK c \in CommandLine(proc[q].song) :
          /\ c.command.where # None \/ proc[q].song = None
          /\ talk' = [talk EXCEPT ![q].asked = c.asked, ![q].command = c.command]
          /\ proc' = [proc EXCEPT ![q] = [Idle("asked") EXCEPT !.program = "eugene",
                                                               !.ok = proc[q].ok]]
          /\ proc[q].pc = "ask" /\ serving' = serving
    BY <1>3 DEF Send
  <2> DEFINE t == [talk[q] EXCEPT !.asked = c.asked, !.command = c.command]
             ok == proc[q].ok
             r == [Idle("asked") EXCEPT !.program = "eugene", !.ok = ok]
  <2>2. t.command = c.command /\ t.asked = c.asked /\ t.answer = None
    BY <1>1, <2>1 DEF TalkOK, TalkFields
  <2>3. talk' = [talk EXCEPT ![q] = t]
    BY <1>1, <2>1
  <2>4. proc' = [proc EXCEPT ![q] = r]
    BY <2>1
  <2> HIDE DEF t, ok
  <2>5. r.ok = ok
    BY DEF Idle
  <2> HIDE DEF r
  <2>6. talk'[q] = t /\ proc'[q].ok = proc[q].ok
    BY <1>1, <2>3, <2>4, <2>5, ProcIs DEF RowsInv, ok
  <2>7. serving # q
    BY <1>1, <2>1, DaemonAssumption DEF ServingOK, TalkOK
  <2> SUFFICES ASSUME proc[q].ok = 1
               PROVE  /\ \E s \in Songs : AboutSong(c.command, s) /\ AfterFound(q, s, Kinds)
                      /\ KindAsked(c.command, c.asked)
    BY <1>2, <2>1, <2>2, <2>6, <2>7
  <2>8. Adds(proc[q]) /\ Done(proc[q]) = Kinds
    BY <1>1, <2>1 DEF RecordOK, Migrating, Adds, Done, Working
  <2>9. proc[q].song \in Songs /\ proc[q].song # None /\ FoundIn(q, proc[q].song, Kinds)
    BY <2>8, SongsAssumption DEF AddedOK
  <2>10. AboutSong(c.command, proc[q].song) /\ KindAsked(c.command, c.asked)
    <3>1. PICK a \in Asks : c = [asked |-> a.kind, command |-> Run_cmd(a.op, a.kind, a.arg, proc[q].song)]
      BY <2>1, <2>9 DEF CommandLine
    <3> DEFINE command == Run_cmd(a.op, a.kind, a.arg, proc[q].song)
    <3>2. c.command = command /\ c.asked = a.kind
      BY <3>1
    <3>3. /\ a.op \in Ops \ {"list"} /\ a.kind \in Kinds /\ (a.op = "karma" => a.kind = "song")
      BY AsksAssumption, KarmaAssumption
    <3>4. KindAsked(command, a.kind)
      <4> DEFINE op == a.op
                 kind == a.kind
                 arg == a.arg
                 s == proc[q].song
      <4>1. op \in Ops \ {"list"} /\ kind \in Kinds /\ (op = "karma" => kind = "song")
        BY <3>3
      <4> HIDE DEF op, kind, arg, s
      <4>2. KindAsked(Run_cmd(op, kind, arg, s), kind)
        BY <4>1, Run_cmdWhere
      <4> QED
        BY <4>2 DEF op, kind, arg, s
    <3> QED
      BY <2>1, <2>9, <3>2, <3>4 DEF AboutSong
  <2>11. AfterFound(q, proc[q].song, Kinds)
    BY <2>1, <2>9, FoundStays
  <2> QED
    BY <2>9, <2>10, <2>11
<1>4. CASE Serve(q)
  <2> DEFINE c == talk[q].command
  <2>1. /\ c # None /\ moved' = moved /\ c \in {talk[q].command}
        /\ \/ UNCHANGED <<proc, serving>> /\ ~ Known(c) /\ \E answer : Answered(q, answer, <<>>)
           \/ UNCHANGED <<proc, serving>> /\ \E answer : Answered(q, answer, About(c))
           \/ Goto(Daemon, "removing") /\ talk' = [talk EXCEPT ![q].rows = About(c)]
    BY <1>4 DEF Serve, ServeUnknown, ServeLook, ServeChange, ServeRmtag, Asked
  <2>2. proc'[q] = proc[q]
    <3>1. CASE Goto(Daemon, "removing")
      <4>1. Daemon \in Procs
        BY DEF Procs
      <4> QED
        BY <1>1, <3>1, <4>1, GotoSets DEF RowsInv
    <3> QED
      BY <2>1, <3>1
  <2>3. /\ talk'[q].command = c /\ talk'[q].asked = talk[q].asked
        /\ talk'[q].rows = About(c) \/ ~ Known(c)
    <3> DEFINE rows == About(c)
    <3>1. ASSUME NEW answer, NEW new, Answered(q, answer, new)
          PROVE  talk'[q].command = c /\ talk'[q].asked = talk[q].asked /\ talk'[q].rows = new
      <4> DEFINE t == [talk[q] EXCEPT !.answer = answer, !.rows = new]
      <4>1. t.command = c /\ t.asked = talk[q].asked /\ t.rows = new
        BY <1>1 DEF TalkOK, TalkFields
      <4>2. talk'[q] = t
        BY <1>1, <3>1 DEF Answered
      <4> HIDE DEF t
      <4> QED
        BY <4>1, <4>2
    <3>2. CASE talk' = [talk EXCEPT ![q].rows = rows]
      <4> HIDE DEF rows
      <4> DEFINE t == [talk[q] EXCEPT !.rows = rows]
      <4>1. t.command = c /\ t.asked = talk[q].asked /\ t.rows = rows
        BY <1>1 DEF TalkOK, TalkFields
      <4>2. talk'[q] = t
        BY <1>1, <3>2
      <4> HIDE DEF t
      <4> QED
        BY <4>1, <4>2 DEF rows
    <3> HIDE DEF c
    <3> QED
      BY <2>1, <3>1, <3>2
  <2> SUFFICES ASSUME proc[q].ok = 1
               PROVE  /\ \E s \in Songs : AboutSong(c, s) /\ AfterFound(q, s, Kinds)
                      /\ KindAsked(c, talk[q].asked)
                      /\ OneFound(q, c, talk'[q].rows, moved')
    BY <1>2, <2>2, <2>3
  <2>4. PICK s \in Songs : AboutSong(c, s) /\ FoundIn(q, s, Kinds)
    BY <2>1 DEF AskedOK
  <2>5. AfterFound(q, s, Kinds)
    BY <1>1, <2>1, <2>4, FoundStays DEF TalkOK
  <2>6. OneFound(q, c, About(c), moved)
    BY <1>1, <2>4, AboutOne
  <2>7. KindAsked(c, talk[q].asked)
    BY <2>1 DEF AskedOK
  <2> QED
    BY <2>1, <2>3, <2>4, <2>5, <2>6, <2>7 DEF OneFound
<1>5. CASE AskKept(q)
  BY <1>5, AskedKept
<1> QED
  BY <1>3, <1>4, <1>5, AsksAnew

(* Whenever eugene has added the song MPD plays and asks mpdcron about it, *)
(* its artist, album or genre, mpdcron finds exactly one row of the kind   *)
(* that was asked for, whoever has written to the database since and even  *)
(* if mpdcron was restarted; only an album that is asked for with its      *)
(* artist can have become another's, and "hate --genre" hates the album.   *)
(* Behind it: the rows that eugene has written are in the file and in what *)
(* a transaction has made of it, from when they are written on.            *)
THEOREM CurrentIsAlwaysFound == Spec => []CurrentIsFound
<1>1. Init => FoundInv
  <2> SUFFICES ASSUME Init, NEW q \in Tools PROVE AddedOK(q) /\ AskedOK(q)
    BY DEF FoundInv
  <2>1. proc[q] = Idle("off") /\ talk[q] = NoTalk
    BY DEF Init, Procs
  <2> QED
    BY <2>1 DEF AddedOK, Adds, AskedOK, Idle, NoTalk, Working
<1>2. RowsInv /\ DbInv' /\ FoundInv /\ [Next]_vars => FoundInv'
  <2> SUFFICES ASSUME RowsInv, DbInv', FoundInv, [Next]_vars, NEW q \in Tools
               PROVE  AddedOK(q)' /\ AskedOK(q)'
    BY DEF FoundInv
  <2>1. AddedOK(q) /\ AskedOK(q)
    BY DEF FoundInv
  <2>2. CASE Next
    BY <2>1, <2>2, RowsStep, AddedStep, AskedStep
  <2>3. CASE UNCHANGED vars
    BY <2>1, <2>3 DEF vars, AddedOK, AskedOK, FoundIn, HasRow, Wrote
  <2> QED
    BY <2>2, <2>3
<1>3. RowsInv /\ FoundInv => CurrentIsFound
  <2> SUFFICES ASSUME RowsInv, FoundInv, NEW q \in Tools,
                      proc[q].ok = 1, talk[q].answer # None, Known(talk[q].command)
               PROVE  /\ KindAsked(talk[q].command, talk[q].asked)
                      /\ \/ Cardinality(DOMAIN talk[q].rows) = 1
                         \/ /\ talk[q].command.kind = "album"
                            /\ talk[q].command.op \in {"addtag", "rmtag", "listtags"}
                            /\ q \in moved
    BY DEF CurrentIsFound, KindAsked
  <2>1. talk[q].command # None
    BY DEF RowsInv, TalkInv, TalkOK
  <2> QED
    BY <2>1 DEF FoundInv, AskedOK, OneFound
<1> QED
  BY <1>1, <1>2, <1>3, RowsInvHolds, DbInvHolds, PTL DEF Spec

-----------------------------------------------------------------------------
(***************************************************************************)
(* What eugene makes of the answers.                                       *)
(***************************************************************************)
Right(c, answer, rows) ==
    \/ answer \in {None, ACK}
    \/ IsLook(c) /\ Understood(c, answer, rows)
    \/ ~ IsLook(c) /\ Parse(c, answer) = Cardinality(DOMAIN rows)

AnswerOK(q) == Right(talk[q].command, talk[q].answer, talk[q].rows)

AnswerInv == \A q \in Tools : AnswerOK(q)

LEMMA ChangesAreRead ==
    ASSUME NEW c, ~ IsLook(c), NEW n
    PROVE  Parse(c, <<Pair("changes", n), OK>>) = n
<1> DEFINE answer == <<Pair("changes", n), OK>>
<1>1. DOMAIN answer = {1, 2} /\ answer[1] = Pair("changes", n) /\ answer[2] = OK
  OBVIOUS
<1> HIDE DEF answer
<1>2. answer[1].key = "changes" /\ answer[1].value = n /\ answer[2].key = "OK"
  BY <1>1 DEF Pair, OK
<1>3. \A i \in DOMAIN answer : answer[i].key \in {"changes", "OK"}
  BY <1>1, <1>2
<1>4. Parse(c, answer) = n
  BY <1>2, <1>3 DEF Parse, Parse_changes
<1> QED
  BY <1>4 DEF answer

(* A handler that changes rows tells how many it is about. *)
LEMMA ChangeIsTold ==
    ASSUME NEW c, ~ IsLook(c), CommandOK(c), c.op # "rmtag"
    PROVE  Right(c, Changing(file.rows, c).answer, About(c))
<1> DEFINE n == Cardinality(Selected(file.rows[c.kind], c.where))
           told == <<Pair("changes", n), OK>>
<1>1. CASE c.where = None
  BY <1>1 DEF Changing, Failed, Right
<1>2. CASE c.where # None
  <2>1. DOMAIN About(c) = Selected(file.rows[c.kind], c.where)
    BY <1>2 DEF About
  <2>2. CASE c.op \in {"kill", "unkill", "love", "hate"}
    <3>1. Changing(file.rows, c).answer = told
      BY <1>2, <2>2 DEF Changing, Handle_kill, Handle_love, Changed
    <3> QED
      BY <2>1, <3>1, ChangesAreRead DEF Right
  <2>3. CASE c.op \in {"rate", "rate_absolute", "count", "karma", "addtag"}
    <3>1. Changing(file.rows, c).answer \in {ACK, told}
      BY <1>2, <2>3 DEF Changing, Handle_rate, Handle_rate_absolute, Handle_count, Handle_karma,
                        Handle_addtag, Changed, Failed
    <3> QED
      BY <2>1, <3>1, ChangesAreRead DEF Right
  <2> QED
    BY <2>2, <2>3 DEF IsLook, CommandOK, Ops
<1> QED
  BY <1>1, <1>2

LEMMA LookIsTold ==
    ASSUME TablesOK(file.rows), NEW c, IsLook(c), CommandOK(c)
    PROVE  Right(c, Looking(file.rows, c), About(c))
<1>1. CASE c.where = None
  BY <1>1 DEF Looking, Right
<1>2. CASE c.where # None
  <2> DEFINE rows == About(c)
  <2>1. rows = [n \in Selected(file.rows[c.kind], c.where) |-> file.rows[c.kind][n]]
    BY <1>2 DEF About
  <2> HIDE DEF rows
  <2>2. Understood(c, Looking(file.rows, c), rows)
    BY <1>2, <2>1, LookIsUnderstood
  <2> QED
    BY <2>2 DEF Right, rows
<1> QED
  BY <1>1, <1>2

(* An answer stays what it is. *)
LEMMA AnswerStays ==
    ASSUME NEW q \in Tools, AnswerOK(q),
           \/ talk'[q] = talk[q]
           \/ talk'[q].answer = None
           \/ /\ talk'[q].command = talk[q].command
              /\ talk'[q].answer = talk[q].answer /\ talk'[q].rows = talk[q].rows
    PROVE  AnswerOK(q)'
BY DEF AnswerOK, Right

LEMMA ProcessAnswers ==
    ASSUME TalkInv, NEW q \in Tools, AnswerOK(q),
           \/ StartDaemon \/ Play
           \/ \E p \in Procs : Works(p) \/ CutShort(p) \/ Crash(p) \/ Fail(p)
    PROVE  AnswerOK(q)'
<1>1. CASE StartDaemon \/ Play
  BY <1>1, AnswerStays DEF StartDaemon, Play, serves
<1>2. ASSUME NEW p \in Procs, Opens(p) PROVE AnswerOK(q)'
  <2>1. UNCHANGED talk
    BY <1>2 DEF Opens, Open, Create, Check, Migrate, SetVersion, EndMigration, Prepare, serves
  <2> QED
    BY <2>1, AnswerStays
<1>3. ASSUME NEW p \in Procs,
             \/ Has(p) \/ WriteRow(p) \/ Refused(p) \/ End(p) \/ Vacuum(p) \/ CutShort(p) \/ Fail(p)
      PROVE  AnswerOK(q)'
  <2>1. UNCHANGED talk
    BY <1>3 DEF Has, WriteRow, Refused, End, Vacuum, CutShort, Fail, serves
  <2> QED
    BY <2>1, AnswerStays
<1>4. ASSUME NEW p \in Procs, Crash(p) PROVE AnswerOK(q)'
  <2>1. CASE UNCHANGED talk
    BY <2>1, AnswerStays
  <2>2. CASE talk' = [u \in Tools |-> IF talk[u].link = "up" /\ talk[u].answer = None
                                      THEN [NoTalk EXCEPT !.link = "cut"] ELSE talk[u]]
    BY <2>2, AnswerStays DEF NoTalk
  <2> QED
    BY <1>4, <2>1, <2>2 DEF Crash, serves
<1> QED
  BY <1>1, <1>2, <1>3, <1>4 DEF Works

LEMMA ToolAnswers ==
    ASSUME TalkInv, NEW q \in Tools, AnswerOK(q), NEW u \in Tools,
           \/ StartWalrus(u) \/ StartWithExpression(u) \/ StartWithCurrent(u)
           \/ Send(u) \/ GiveUp(u) \/ Receive(u)
    PROVE  AnswerOK(q)'
<1>1. TalkOK(q) /\ talk = [v \in Tools |-> talk[v]]
  BY DEF TalkInv
<1>2. CASE StartWalrus(u)
  BY <1>2, AnswerStays DEF StartWalrus, serves
<1>3. CASE StartWithExpression(u) \/ StartWithCurrent(u)
  <2>1. talk' = [talk EXCEPT ![u].link = "up"]
    BY <1>3 DEF StartWithExpression, StartWithCurrent, Connect
  <2>2. CASE q # u
    BY <1>1, <2>1, <2>2, AnswerStays
  <2>3. CASE q = u
    <3> DEFINE r == [talk[q] EXCEPT !.link = "up"]
    <3>1. talk'[q] = r
      BY <1>1, <2>1, <2>3
    <3>2. /\ r.command = talk[q].command /\ r.answer = talk[q].answer /\ r.rows = talk[q].rows
      BY <1>1 DEF TalkOK, TalkFields
    <3> HIDE DEF r
    <3> QED
      BY <3>1, <3>2, AnswerStays
  <2> QED
    BY <2>2, <2>3
<1>4. CASE Send(u)
  <2>1. PICK c : talk' = [talk EXCEPT ![u].asked = c.asked, ![u].command = c.command]
    BY <1>4 DEF Send
  <2>2. proc[u].pc = "ask"
    BY <1>4 DEF Send
  <2>3. CASE q # u
    BY <1>1, <2>1, <2>3, AnswerStays
  <2>4. CASE q = u
    <3> DEFINE r == [talk[q] EXCEPT !.asked = c.asked, !.command = c.command]
    <3>1. talk'[q] = r
      BY <1>1, <2>1, <2>4
    <3>2. r.answer = None
      BY <1>1, <2>2, <2>4 DEF TalkOK, TalkFields
    <3> HIDE DEF r
    <3> QED
      BY <3>1, <3>2, AnswerStays
  <2> QED
    BY <2>3, <2>4
<1>5. CASE GiveUp(u) \/ Receive(u)
  <2>1. talk' = [talk EXCEPT ![u] = NoTalk]
    BY <1>5 DEF GiveUp, Receive
  <2>2. talk'[q] = NoTalk \/ talk'[q] = talk[q]
    BY <1>1, <2>1
  <2> QED
    BY <2>2, AnswerStays DEF NoTalk
<1> QED
  BY <1>2, <1>3, <1>4, <1>5

LEMMA AnsweredRight ==
    ASSUME TalkInv, NEW q \in Tools, AnswerOK(q), NEW u \in Tools, NEW answer, NEW rows,
           Answered(u, answer, rows), Right(talk[u].command, answer, rows)
    PROVE  AnswerOK(q)'
<1>1. TalkOK(q) /\ talk = [v \in Tools |-> talk[v]]
  BY DEF TalkInv
<1> DEFINE r == [talk[u] EXCEPT !.answer = answer, !.rows = rows]
<1>2. talk' = [talk EXCEPT ![u] = r]
  BY <1>1 DEF Answered
<1>3. CASE q # u
  BY <1>1, <1>2, <1>3, AnswerStays
<1>4. CASE q = u
  <2>1. r.command = talk[q].command /\ r.answer = answer /\ r.rows = rows
    BY <1>1, <1>4 DEF TalkOK, TalkFields
  <2>2. talk'[q] = r
    BY <1>1, <1>2, <1>4
  <2> HIDE DEF r
  <2> QED
    BY <1>4, <2>1, <2>2 DEF AnswerOK
<1> QED
  BY <1>3, <1>4

LEMMA ServeAnswers ==
    ASSUME TalkInv, TablesOK(file.rows), NEW q \in Tools, AnswerOK(q), NEW u \in Tools, Serve(u)
    PROVE  AnswerOK(q)'
<1> DEFINE c == talk[u].command
<1>1. CommandOK(c) /\ talk[u].answer = None
  BY DEF Serve, ServeUnknown, ServeLook, ServeChange, ServeRmtag, Asked, TalkInv, TalkOK
<1>2. TalkOK(q) /\ talk = [v \in Tools |-> talk[v]]
  BY DEF TalkInv
<1>3. \A rows : Right(c, ACK, rows)
  BY DEF Right
<1>4. CASE ServeUnknown(u)
  BY <1>3, <1>4, AnsweredRight DEF ServeUnknown
<1>5. CASE ServeLook(u)
  BY <1>1, <1>5, LookIsTold, AnsweredRight DEF ServeLook
<1>6. CASE ServeChange(u)
  BY <1>1, <1>6, ChangeIsTold, AnsweredRight DEF ServeChange
<1>7. CASE ServeRmtag(u)
  <2>1. CASE Answered(u, ACK, About(c))
    BY <1>3, <2>1, AnsweredRight
  <2>2. CASE talk' = [talk EXCEPT ![u].rows = About(c)]
    <3>1. CASE q # u
      BY <1>2, <2>2, <3>1, AnswerStays
    <3>2. CASE q = u
      <4> DEFINE rows == About(c)
                 r == [talk[q] EXCEPT !.rows = rows]
      <4>1. talk'[q] = r
        BY <1>2, <2>2, <3>2
      <4> HIDE DEF rows
      <4>2. r.answer = None
        BY <1>1, <1>2, <3>2 DEF TalkOK, TalkFields
      <4> HIDE DEF r
      <4> QED
        BY <4>1, <4>2, AnswerStays
    <3> QED
      BY <3>1, <3>2
  <2> QED
    BY <1>7, <2>1, <2>2 DEF ServeRmtag
<1> QED
  BY <1>4, <1>5, <1>6, <1>7 DEF Serve

(* rmtag tells of as many rows as it found, when it has written them all.  *)
LEMMA RemovedAnswers ==
    ASSUME TalkInv, NEW q \in Tools, AnswerOK(q), RemoveRow \/ RemovedAll \/ FailRemove
    PROVE  AnswerOK(q)'
<1> DEFINE n == Cardinality(DOMAIN talk[serving].rows)
           told == <<Pair("changes", n), OK>>
<1>1. TalkOK(q) /\ ServingOK /\ talk = [v \in Tools |-> talk[v]]
  BY DEF TalkInv
<1>2. CASE UNCHANGED talk
  BY <1>2, AnswerStays
<1>3. ASSUME NEW answer \in {ACK, told}, talk' = [talk EXCEPT ![serving].answer = answer]
      PROVE  AnswerOK(q)'
  <2>1. CASE q # serving
    BY <1>1, <1>3, <2>1, AnswerStays
  <2>2. CASE q = serving
    <3> HIDE DEF told
    <3> DEFINE r == [talk[q] EXCEPT !.answer = answer]
    <3>1. talk'[q] = r
      BY <1>1, <1>3, <2>2
    <3>2. r.command = talk[q].command /\ r.answer = answer /\ r.rows = talk[q].rows
      BY <1>1 DEF TalkOK, TalkFields
    <3> HIDE DEF r
    <3>3. ~ IsLook(talk[q].command)
      BY <1>1, <2>2, DaemonAssumption DEF ServingOK, IsLook
    <3>4. Parse(talk[q].command, told) = Cardinality(DOMAIN talk[q].rows)
      BY <2>2, <3>3, ChangesAreRead DEF told
    <3> QED
      BY <1>3, <3>1, <3>2, <3>3, <3>4 DEF AnswerOK, Right
  <2> QED
    BY <2>1, <2>2
<1>4. UNCHANGED talk \/ Removed(ACK) \/ Removed(told)
  BY DEF RemoveRow, RemovedAll, FailRemove
<1> HIDE DEF told
<1> QED
  BY <1>2, <1>3, <1>4 DEF Removed

(* Whatever mpdcron answers but an error, eugene understands, and as it    *)
(* was meant: it learns of every row that the command was about once, and  *)
(* all that there is to learn, or how many rows have changed.              *)
THEOREM AnswersAreAlwaysUnderstood == Spec => []AnswersAreUnderstood
<1>1. Init => AnswerInv
  BY DEF Init, AnswerInv, AnswerOK, Right, NoTalk
<1>2. RowsInv /\ AnswerInv /\ [Next]_vars => AnswerInv'
  <2> SUFFICES ASSUME RowsInv, AnswerInv, [Next]_vars, NEW q \in Tools PROVE AnswerOK(q)'
    BY DEF AnswerInv
  <2>1. TalkInv /\ TablesOK(file.rows) /\ AnswerOK(q)
    BY DEF RowsInv, AnswerInv
  <2>2. CASE StartDaemon \/ Play \/ RemoveRow \/ RemovedAll \/ FailRemove
    BY <2>1, <2>2, ProcessAnswers, RemovedAnswers
  <2>3. CASE \E p \in Procs : Works(p) \/ CutShort(p) \/ Crash(p) \/ Fail(p)
    BY <2>1, <2>3, ProcessAnswers
  <2>4. ASSUME NEW u \in Tools,
               \/ StartWalrus(u) \/ StartWithExpression(u) \/ StartWithCurrent(u)
               \/ Send(u) \/ GiveUp(u) \/ Receive(u)
        PROVE  AnswerOK(q)'
    BY <2>1, <2>4, ToolAnswers
  <2>5. ASSUME NEW u \in Tools, Serve(u) PROVE AnswerOK(q)'
    BY <2>1, <2>5, ServeAnswers
  <2>6. CASE UNCHANGED vars
    BY <2>1, <2>6, AnswerStays DEF vars
  <2> QED
    BY <2>2, <2>3, <2>4, <2>5, <2>6 DEF Next
<1>3. RowsInv /\ AnswerInv => AnswersAreUnderstood
  <2> SUFFICES ASSUME AnswerInv, NEW q \in Tools, talk[q].answer \notin {None, ACK}
               PROVE  IF IsLook(talk[q].command)
                      THEN Understood(talk[q].command, talk[q].answer, talk[q].rows)
                      ELSE Parse(talk[q].command, talk[q].answer)
                             = Cardinality(DOMAIN talk[q].rows)
    BY DEF AnswersAreUnderstood, Understood
  <2> QED
    BY DEF AnswerInv, AnswerOK, Right
<1> QED
  BY <1>1, <1>2, <1>3, RowsInvHolds, PTL DEF Spec

=============================================================================
