--------------------------------- MODULE Mpdcron ---------------------------------
(***************************************************************************)
(* The daemon's core: the loop of cron-loop.c runs each event of an idle   *)
(* answer through cron-event.c, which asks MPD for what the event is       *)
(* about, and then through the module list of cron-gmodule.c; what the     *)
(* walk returns decides whether the loop keeps the connection.             *)
(***************************************************************************)
EXTENDS CronLoop, ModuleList

CONSTANT
    Queried      \* the events for which MPD is asked for its status,
                 \* statistics or song

ASSUME QueriedAssumption == Queried \subseteq Events

vars == <<loopVars, listVars>>

Init == LoopInit /\ ListInit

(* A step of the loop while no event is being run. *)
Loop ==
    /\ event = NoEvent
    /\ \/ Connect
       \/ ReconnectRefused \/ ReconnectRejected \/ Reconnect
       \/ IdleReply \/ IdleBroken \/ IdleUnknown
    /\ UNCHANGED listVars

(* event_run: what MPD is asked for cannot be had, and no module hears of  *)
(* the event; or the modules are walked.                                   *)
QueryFailed ==
    /\ event = NoEvent
    /\ todo # {} /\ NextEvent \in Queried
    /\ EventFailed
    /\ UNCHANGED listVars

RunModules ==
    /\ process = "running" /\ todo # {}
    /\ Begin(NextEvent)
    /\ UNCHANGED loopVars

CallModule ==
    /\ process = "running"
    /\ \E result \in Results : Call(result)
    /\ UNCHANGED loopVars

(* The walk is over, the hook is run, and event_run returns to loop_idle.  *)
EventReturns ==
    /\ End
    /\ IF ret < 0 THEN EventFailed ELSE EventDone

Changes == (\E e \in Events : Change(e)) /\ UNCHANGED listVars

Next == Loop \/ QueryFailed \/ RunModules \/ CallModule \/ EventReturns \/ Changes

Spec == Init /\ [][Next]_vars

(* A watch or timer that is due is served, handlers return, and MPD is     *)
(* there again and again: a reconnection that is tried for ever succeeds.  *)
Fairness ==
    /\ WF_vars(Loop /\ IdleReply)
    /\ WF_vars(RunModules \/ CallModule \/ EventReturns)
    /\ SF_vars(Loop /\ Reconnect /\ watches' = 1)

FairSpec == Spec /\ Fairness

-----------------------------------------------------------------------------
TypeOK == LoopTypeOK /\ ListTypeOK

(* A connection that is lost comes back, unless mpdcron itself ends. *)
ConnectionComesBack ==
    process = "running" /\ conn = "NULL" ~> conn = "open" \/ process # "running"

(* A change in MPD is either run as an event or lost with the connection.  *)
ChangeIsRun ==
    \A e \in Events : e \in flags ~> event = e \/ conn = "NULL" \/ process # "running"

(* After a module asked to reconnect at once, no module is called before   *)
(* the connection is gone.                                                 *)
NowMeansNow ==
    [][\A i \in DOMAIN calls : calls[i].result = "RECONNECT_NOW" /\ event # NoEvent =>
          \/ UNCHANGED <<calls, conn>>
          \/ UNCHANGED calls /\ conn' = "NULL"]_vars

=============================================================================
