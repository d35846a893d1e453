-------------------------------- MODULE CronLoop --------------------------------
(***************************************************************************)
(* cron-loop.c: one connection to MPD, either being waited on by a GLib    *)
(* watch for the answer to the idle command, or having its events handled  *)
(* by loop_idle, or gone, with a GLib timer to reconnect.                  *)
(*                                                                         *)
(* `watches' and `timers' count the sources the main loop really has;      *)
(* idle_sid and reconnect_sid are the file's own idea of them, 0 or, for   *)
(* any source id, 1.  An assert that fails ends the process and is kept in *)
(* `failed'.                                                               *)
(***************************************************************************)
EXTENDS IdleEvents, Integers, FiniteSets

VARIABLES
    process,     \* "starting", "running", "exited" or "aborted"
    failed,      \* the assert that failed, "none" while none has
    conn,        \* "NULL" or "open"
    idle_sid,
    reconnect_sid,
    watches,     \* idle watches the main loop has
    timers,      \* reconnection timers the main loop has
    todo,        \* the events loop_idle has received and not yet run
    flags        \* environment: what MPD will answer to the idle command

loopVars == <<process, failed, conn, idle_sid, reconnect_sid, watches, timers,
              todo, flags>>

LoopInit ==
    /\ process = "starting"
    /\ failed = "none"
    /\ conn = "NULL"
    /\ idle_sid = 0 /\ reconnect_sid = 0
    /\ watches = 0 /\ timers = 0
    /\ todo = {} /\ flags = {}

-----------------------------------------------------------------------------
(* The routines the callbacks share.  `held' is what conn holds when they  *)
(* are called (loop_reconnect has just assigned it), `waiting' the number  *)
(* of timers that are left when the callback returns, and `sid' what       *)
(* reconnect_sid holds by then: loop_reconnect clears it whatever          *)
(* loop_schedule_idle did. *)

(* g_assert *)
Abort(assertion) ==
    /\ process' = "aborted"
    /\ failed' = assertion

(* mpd_connection_free in loop_failure: MPD forgets its client, too. *)
FreeConn == conn' = "NULL" /\ flags' = {}

Rearm_Bug(waiting) == waiting
(* The timer that loop_schedule_reconnect adds. *)
Rearm(waiting) == waiting + 1

(* loop_failure and loop_schedule_reconnect, each with its assert. *)
Fail(held, waiting, sid) ==
    \/ /\ held = "NULL"
       /\ Abort("FailureHasConn")
       /\ UNCHANGED <<conn, reconnect_sid, timers, flags>>
    \/ /\ held # "NULL" /\ reconnect_sid # 0
       /\ FreeConn
       /\ Abort("ReconnectSidZero")
       /\ UNCHANGED <<reconnect_sid, timers>>
    \/ /\ held # "NULL" /\ reconnect_sid = 0
       /\ FreeConn
       /\ reconnect_sid' = sid /\ timers' = Rearm(waiting)
       /\ process' = "running" /\ UNCHANGED failed

(* loop_schedule_idle with its two asserts: the idle command is sent and a *)
(* watch added for its answer, or sending it fails.                        *)
ScheduleIdle(held, waiting, sidUp, sidDown) ==
    \/ /\ idle_sid # 0 \/ held = "NULL"
       /\ Abort(IF idle_sid # 0 THEN "IdleSidZero" ELSE "IdleHasConn")
       /\ UNCHANGED <<conn, idle_sid, reconnect_sid, watches, timers, flags>>
    \/ /\ idle_sid = 0 /\ held # "NULL"
       /\ conn' = held
       /\ idle_sid' = 1 /\ watches' = watches + 1
       /\ reconnect_sid' = sidUp /\ timers' = waiting
       /\ process' = "running"
       /\ UNCHANGED <<failed, flags>>
    \/ /\ idle_sid = 0 /\ held # "NULL"
       /\ Fail(held, waiting, sidDown)
       /\ UNCHANGED <<idle_sid, watches>>

(* exit(): out of memory, a wrong password, no idle command. *)
Exit ==
    /\ process' = "exited"
    /\ UNCHANGED <<failed, conn, idle_sid, reconnect_sid, watches, timers, todo, flags>>

-----------------------------------------------------------------------------
(* loop_connect, before the main loop runs. *)
Connect ==
    /\ process = "starting"
    /\ \/ Exit
       \/ /\ Fail("open", 0, 1)
          /\ UNCHANGED <<idle_sid, watches, todo>>
       \/ /\ ScheduleIdle("open", 0, 0, 0)
          /\ UNCHANGED todo

(* loop_reconnect, from its timer: no connection, so that loop_failure     *)
(* frees the one it has just made, and the timer stays; or a connection,   *)
(* and the timer goes.                                                     *)
ReconnectRefused ==
    /\ process = "running" /\ timers > 0
    /\ FreeConn
    /\ UNCHANGED <<process, failed, idle_sid, reconnect_sid, watches, timers, todo>>

ReconnectRejected ==
    /\ process = "running" /\ timers > 0
    /\ Exit

Reconnect ==
    /\ process = "running" /\ timers > 0
    /\ ScheduleIdle("open", timers - 1, 0, 0)
    /\ UNCHANGED todo

IdleSidTaken_Bug == idle_sid
(* idle_sid once loop_idle has been entered. *)
IdleSidTaken == 0

(* The asserts that loop_idle begins with, whatever it goes on to find. *)
EnteringIdle(step) ==
    /\ process = "running" /\ watches > 0
    /\ \/ /\ idle_sid = 0 \/ conn = "NULL"
          /\ Abort(IF idle_sid = 0 THEN "IdleSidSet" ELSE "ConnSet")
          /\ UNCHANGED <<conn, idle_sid, reconnect_sid, watches, timers, todo, flags>>
       \/ /\ idle_sid # 0 /\ conn # "NULL"
          /\ step

(* loop_idle is entered with the events that MPD has for us. *)
IdleReply ==
    /\ flags # {}
    /\ EnteringIdle(
         /\ idle_sid' = IdleSidTaken /\ watches' = watches - 1
         /\ todo' = flags /\ flags' = {}
         /\ UNCHANGED <<process, failed, conn, reconnect_sid, timers>>)

(* loop_idle finds the connection broken. *)
IdleBroken ==
    EnteringIdle(
        /\ idle_sid' = IdleSidTaken /\ watches' = watches - 1
        /\ Fail(conn, timers, 1)
        /\ UNCHANGED todo)

(* loop_idle finds that MPD does not know the idle command. *)
IdleUnknown == EnteringIdle(Exit)

(* The event loop_idle runs next: they are run in the order of their bits. *)
NextEvent == CHOOSE e \in todo : \A other \in todo : e <= other

Remaining_Bug == {}
(* What is left of the answer when an event was run. *)
Remaining == todo \ {NextEvent}

(* event_run has returned 0: the next event, or back to waiting. *)
EventDone ==
    /\ process = "running" /\ todo # {}
    /\ todo' = Remaining
    /\ IF todo' = {}
       THEN ScheduleIdle(conn, timers, reconnect_sid, 1)
       ELSE UNCHANGED <<process, failed, conn, idle_sid, reconnect_sid, watches,
                        timers, flags>>

(* event_run has returned -1: the events that are left are dropped with    *)
(* the connection.                                                         *)
EventFailed ==
    /\ process = "running" /\ todo # {}
    /\ todo' = {}
    /\ Fail(conn, timers, 1)
    /\ UNCHANGED <<idle_sid, watches>>

(* Environment: something changes in MPD, which keeps it for the next      *)
(* answer to the idle command of this connection.                          *)
Change(e) ==
    /\ process = "running" /\ conn = "open"
    /\ flags' = flags \union {e}
    /\ UNCHANGED <<process, failed, conn, idle_sid, reconnect_sid, watches, timers, todo>>

LoopNext ==
    \/ Connect
    \/ ReconnectRefused \/ ReconnectRejected \/ Reconnect
    \/ IdleReply \/ IdleBroken \/ IdleUnknown
    \/ EventDone \/ EventFailed
    \/ \E e \in Events : Change(e)

LoopSpec == LoopInit /\ [][LoopNext]_loopVars

-----------------------------------------------------------------------------
LoopTypeOK ==
    /\ process \in {"starting", "running", "exited", "aborted"}
    /\ failed \in {"none", "ReconnectSidZero", "FailureHasConn", "IdleSidZero",
                   "IdleHasConn", "IdleSidSet", "ConnSet"}
    /\ conn \in {"NULL", "open"}
    /\ idle_sid \in {0, 1} /\ reconnect_sid \in {0, 1}
    /\ watches \in Nat /\ timers \in Nat
    /\ todo \subseteq Events /\ flags \subseteq Events

(* A running mpdcron is never left with nothing that would wake it, nor    *)
(* with two things that would use the connection at once: it watches for   *)
(* the answer to idle, or handles events, or waits to reconnect.  The      *)
(* connection is there exactly when it is not waiting to reconnect.        *)
Handling == IF todo # {} THEN 1 ELSE 0

OneSource ==
    process = "running" =>
        /\ watches + timers + Handling = 1
        /\ conn = "open" <=> timers = 0
        /\ idle_sid = watches

(* Of the six asserts of cron-loop.c, on conn in loop_failure, on idle_sid *)
(* and conn in loop_idle and in loop_schedule_idle, and on reconnect_sid,  *)
(* only the last, in loop_schedule_reconnect, can fail.                    *)
OtherAssertsHold == failed \in {"none", "ReconnectSidZero"}

(* g_assert(reconnect_sid == 0) in loop_schedule_reconnect. *)
ReconnectAssertHolds == failed # "ReconnectSidZero"

=============================================================================
