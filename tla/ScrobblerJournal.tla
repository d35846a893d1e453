----------------------------- MODULE ScrobblerJournal -----------------------------
(***************************************************************************)
(* The journals of the scrobbler module (scrobbler-journal.c and its       *)
(* callers): the songs that wait to be submitted are kept in the queues of *)
(* the scrobblers, written to their journals by a timer and when mpdcron   *)
(* is told to end, and read back when it starts again.                     *)
(*                                                                         *)
(* mpdcron runs one callback at a time, so that nothing but its death can  *)
(* come between the steps of a save; but it may be killed at any of them,  *)
(* and a signal it handles starts a save inside another one.  A song is    *)
(* its play number, as in ScrobblerSubmit.                                 *)
(***************************************************************************)
EXTENDS Naturals, Sequences, SequencesExt

CONSTANTS
    Count,       \* the scrobblers are 1 .. Count, in the order of the
                 \* configuration; those without a journal are left out
    MaxPlays     \* bound: the plays of a behaviour

ASSUME CountAssumption == Count \in Nat \ {0}
ASSUME MaxPlaysAssumption == MaxPlays \in Nat

Scrobblers == 1 .. Count

VARIABLES
    process,            \* "up", "stopping" while destroy saves, or "down"
    queue,              \* the GQueue of each scrobbler
    file,               \* what its journal holds
    journal_file_empty, \* the flag all the scrobblers share
    saving,             \* the scrobbler whose journal is saved now, or 0
    handle,             \* "closed" or "open"
    unwritten,          \* the records the save has not written yet
    plays,              \* how many songs were played
    submitted,          \* environment: what the server of each has accepted
    mishap,             \* history: the last mishap, "killed" or "unsaved", or "none"
    unread              \* history: of each, the plays in its journal when a
                        \* start could not open it, until one reads them

vars == <<process, queue, file, journal_file_empty, saving, handle, unwritten,
          plays, submitted, mishap, unread>>

Loaded_Bug(f) == Reverse(f)
(* The queue that journal_read makes of a journal. *)
Loaded(f) == f

Skips_Bug(q) == journal_file_empty # 0
(* journal_write has nothing to do. *)
Skips(q) == q = <<>> /\ journal_file_empty # 0

Records_Bug(q) == SubSeq(q, 1, Len(q) - 1)
(* What journal_write writes. *)
Records(q) == q

NextToSave_Bug(s) == s + 1
(* as_init prepends each scrobbler, so as_save_cache takes them in the     *)
(* opposite order of the configuration. *)
NextToSave(s) == s - 1

-----------------------------------------------------------------------------
(* init: every journal is read, and the flag is left by the last one.      *)
Init ==
    /\ process = "up"
    /\ queue = [s \in Scrobblers |-> <<>>]
    /\ file = [s \in Scrobblers |-> <<>>]
    /\ journal_file_empty = 1
    /\ saving = 0 /\ handle = "closed" /\ unwritten = <<>>
    /\ plays = 0
    /\ submitted = [s \in Scrobblers |-> {}]
    /\ mishap = "none"
    /\ unread = [s \in Scrobblers |-> {}]

(* The journals of the scrobblers in `shut' are there and cannot be opened *)
(* (any error but ENOENT): journal_read warns, and leaves an empty queue   *)
(* and the flag set, as if there were no journal.                          *)
Read(shut) ==
    /\ queue' = [s \in Scrobblers |-> IF s \in shut THEN <<>> ELSE Loaded(file[s])]
    /\ journal_file_empty' = IF Count \in shut \/ file[Count] = <<>> THEN 1 ELSE 0
    /\ unread' = [s \in Scrobblers |-> IF s \in shut THEN unread[s] \union ToSet(file[s])
                                                     ELSE unread[s] \ ToSet(file[s])]

Start ==
    /\ process = "down"
    /\ process' = "up"
    /\ \E shut \in SUBSET {s \in Scrobblers : file[s] # <<>>} : Read(shut)
    /\ UNCHANGED <<file, saving, handle, unwritten, plays, submitted, mishap>>

Idle == process = "up" /\ saving = 0

(* as_songchange queues a song for every scrobbler. *)
Play ==
    /\ Idle /\ plays < MaxPlays
    /\ plays' = plays + 1
    /\ queue' = [s \in Scrobblers |-> Append(queue[s], plays + 1)]
    /\ UNCHANGED <<process, file, journal_file_empty, saving, handle, unwritten,
                   submitted, mishap, unread>>

(* The server of one scrobbler has accepted a batch. *)
Submit(s) ==
    /\ Idle
    /\ \E n \in 1 .. Len(queue[s]) :
         /\ submitted' = [submitted EXCEPT ![s] = @ \union ToSet(SubSeq(queue[s], 1, n))]
         /\ queue' = [queue EXCEPT ![s] = SubSeq(@, n + 1, Len(@))]
    /\ UNCHANGED <<process, file, journal_file_empty, saving, handle, unwritten,
                   plays, mishap, unread>>

-----------------------------------------------------------------------------
(* as_save_cache, from its timer; or from destroy, which a signal may run  *)
(* even while the timer's save is under way.                               *)
SaveTimer ==
    /\ Idle
    /\ saving' = Count
    /\ UNCHANGED <<process, queue, file, journal_file_empty, handle, unwritten, plays,
                   submitted, mishap, unread>>

Terminate ==
    /\ process = "up"
    /\ process' = "stopping"
    /\ saving' = Count /\ handle' = "closed" /\ unwritten' = <<>>
    /\ UNCHANGED <<queue, file, journal_file_empty, plays,
                   submitted, mishap, unread>>

(* The save goes on to the next scrobbler; after the last one mpdcron goes *)
(* on, or ends. *)
Saved ==
    /\ saving' = NextToSave(saving)
    /\ process' = IF process = "stopping" /\ saving' = 0 THEN "down" ELSE process

SaveSkip ==
    /\ saving # 0 /\ handle = "closed"
    /\ Skips(queue[saving])
    /\ Saved
    /\ UNCHANGED <<queue, file, journal_file_empty, handle, unwritten, plays,
                   submitted, mishap, unread>>

(* fopen fails. *)
SaveFail ==
    /\ saving # 0 /\ handle = "closed"
    /\ ~ Skips(queue[saving])
    /\ mishap' = "unsaved"
    /\ Saved
    /\ UNCHANGED <<queue, file, journal_file_empty, handle, unwritten,
                   plays, submitted, unread>>

SaveOpen ==
    /\ saving # 0 /\ handle = "closed"
    /\ ~ Skips(queue[saving])
    /\ handle' = "open"
    /\ file' = [file EXCEPT ![saving] = <<>>]
    /\ unwritten' = Records(queue[saving])
    /\ UNCHANGED <<process, queue, journal_file_empty, saving, plays,
                   submitted, mishap, unread>>

SaveRecord ==
    /\ handle = "open" /\ unwritten # <<>>
    /\ file' = [file EXCEPT ![saving] = Append(@, Head(unwritten))]
    /\ unwritten' = Tail(unwritten)
    /\ UNCHANGED <<process, queue, journal_file_empty, saving, handle, plays,
                   submitted, mishap, unread>>

SaveClose ==
    /\ handle = "open" /\ unwritten = <<>>
    /\ handle' = "closed"
    /\ Saved
    /\ UNCHANGED <<queue, file, journal_file_empty, unwritten, plays,
                   submitted, mishap, unread>>

(* Environment: mpdcron is killed, or the power fails. *)
Crash ==
    /\ process # "down"
    /\ process' = "down"
    /\ mishap' = "killed"
    /\ queue' = [s \in Scrobblers |-> <<>>]
    /\ saving' = 0 /\ handle' = "closed" /\ unwritten' = <<>>
    /\ UNCHANGED <<file, journal_file_empty, plays, submitted, unread>>

Save == SaveSkip \/ SaveFail \/ SaveOpen \/ SaveRecord \/ SaveClose

Next ==
    \/ Start \/ Play \/ SaveTimer \/ Terminate \/ Crash
    \/ \E s \in Scrobblers : Submit(s)
    \/ Save

Spec == Init /\ [][Next]_vars

(* The timer is periodic, and a save that has begun goes on. *)
FairSpec == Spec /\ WF_vars(SaveTimer) /\ WF_vars(Save)

-----------------------------------------------------------------------------
TypeOK ==
    /\ process \in {"up", "stopping", "down"}
    /\ queue \in [Scrobblers -> Seq(1 .. plays)]
    /\ file \in [Scrobblers -> Seq(1 .. plays)]
    /\ journal_file_empty \in {0, 1}
    /\ saving \in 0 .. Count
    /\ handle \in {"closed", "open"} /\ (handle = "open" => saving # 0)
    /\ unwritten \in Seq(1 .. plays)
    /\ plays \in Nat
    /\ submitted \in [Scrobblers -> SUBSET (1 .. plays)]
    /\ mishap \in {"none", "killed", "unsaved"}
    /\ unread \in [Scrobblers -> SUBSET (1 .. plays)]

Chronological(s) == \A i, j \in DOMAIN s : i < j => s[i] < s[j]

(* Songs are kept, and submitted, in the order in which they were played,  *)
(* across any number of saves, crashes and restarts, and none twice in one *)
(* queue.                                                                  *)
InOrder == \A s \in Scrobblers : Chronological(queue[s]) /\ Chronological(file[s])

(* As long as mpdcron is only ever ended by signals it handles, and its    *)
(* journals can be written, the only songs a scrobbler can lose are those  *)
(* in a journal that it could not open when it started.                    *)
NoPlayLost ==
    mishap = "none" =>
        \A s \in Scrobblers, p \in 1 .. plays :
            \/ p \in submitted[s] \union unread[s]
            \/ p \in ToSet(IF process = "down" THEN file[s] ELSE queue[s])

(* A song on disk leaves it only when it was submitted, or for the moment  *)
(* it takes to write it again; or when its journal could not be opened at  *)
(* a start, after which a save writes over songs it does not know.         *)
SavedSurvives ==
    [][\A s \in Scrobblers, p \in 1 .. plays :
         p \in ToSet(file[s]) /\ p \notin ToSet(file'[s]) =>
             \/ p \in submitted[s] \union unread[s]
             \/ saving' = s /\ handle' = "open" /\ p \in ToSet(unwritten')]_vars

(* Every song is soon submitted or on disk, where a crash does not reach   *)
(* it; unless there was a crash first, or the disk is full, or a start did *)
(* not see that it is there.                                               *)
SoonOnDisk ==
    \A s \in Scrobblers, p \in 1 .. MaxPlays :
        plays >= p ~> \/ p \in submitted[s] \union unread[s] \union ToSet(file[s])
                     \/ mishap # "none"

(* A journal "contains records which have not been submitted yet": once it *)
(* was saved, no song is in it that was submitted.                         *)
SavedIsUnsubmitted ==
    [][\A s \in Scrobblers :
         saving = s /\ saving' = s - 1 /\ mishap' = "none" =>
             ToSet(file'[s]) \intersect submitted[s] = {}]_vars

=============================================================================
