------------------------------- MODULE ModuleList -------------------------------
(***************************************************************************)
(* The list of loaded modules of cron-gmodule.c, and how an event runs     *)
(* over it: module_database_run and its seven twins walk the GSList,       *)
(* skip the modules without a handler, call the others, and let            *)
(* module_process_ret act on what each returns, which may take the module  *)
(* off the list while the walk stands on it.                               *)
(*                                                                         *)
(* Each call of a handler is a step of its own.  `walk' is the place in    *)
(* the list of the handler that is called next, 0 when the walk has ended. *)
(***************************************************************************)
EXTENDS IdleEvents, Integers, Sequences, SequencesExt, FiniteSets

CONSTANTS
    Modules,     \* the modules of the configuration file
    Handles      \* the events each module has a handler for

ASSUME ModulesAssumption == IsFiniteSet(Modules)
ASSUME HandlesAssumption == Handles \in [Modules -> SUBSET Events]

NoEvent == -1

VARIABLES
    modules,     \* the GSList
    event,       \* the event that is being run, or NoEvent
    walk,        \* the place of the walk in the list
    ret,         \* what the walk will return: 0, or -1 for a reconnection
    calls,       \* history: the calls of this event, with their results
    destroyed    \* history: the modules whose destroy function was run

listVars == <<modules, event, walk, ret, calls, destroyed>>

(* enum mpdcron_event_retval; a value outside it is taken like SUCCESS. *)
Results == {"SUCCESS", "RECONNECT", "RECONNECT_NOW", "UNLOAD"}

SeekFrom_NoFilter(list, e, start) == IF start <= Len(list) THEN start ELSE 0
SeekFrom_NoEnd(list, e, start) == start
(* The next module from `start' on that handles e, or 0. *)
SeekFrom(list, e, start) ==
    LET places == {i \in start .. Len(list) : e \in Handles[list[i]]}
    IN  IF places = {} THEN 0 ELSE CHOOSE i \in places : \A j \in places : i <= j

AfterCall_Bug(place, result) == IF result \in {"UNLOAD", "RECONNECT"} THEN 2 ELSE place + 1
(* Where the walk goes on after the module at `place': to the next one; or, *)
(* when that module was unloaded, to the one after the head of what is     *)
(* left, as module_process_ret rewinds the walk to the head and the loop   *)
(* then steps on.                                                          *)
AfterCall(place, result) == IF result = "UNLOAD" THEN 2 ELSE place + 1

Breaks_Bug(result) == FALSE
(* The walk ends at once. *)
Breaks(result) == result = "RECONNECT_NOW"

RemoveLink_Bug(list, place) == RemoveAt(list, Len(list))
(* g_slist_remove_link of the module that the walk stands on. *)
RemoveLink(list, place) == RemoveAt(list, place)

(* module_load prepends; a module whose init fails is left out. *)
ListInit ==
    /\ \E loaded \in SUBSET Modules :
         modules \in {s \in [1 .. Cardinality(loaded) -> loaded] : IsInjective(s)}
    /\ event = NoEvent
    /\ walk = 0
    /\ ret = 0
    /\ calls = <<>>
    /\ destroyed = {}

(* module_..._run begins. *)
Begin(e) ==
    /\ event = NoEvent
    /\ event' = e
    /\ walk' = SeekFrom(modules, e, 1)
    /\ ret' = 0
    /\ calls' = <<>>
    /\ UNCHANGED <<modules, destroyed>>

(* One handler is called and returns `result'. *)
Call(result) ==
    /\ event # NoEvent /\ walk # 0
    /\ calls' = Append(calls, [module |-> modules[walk], result |-> result])
    /\ ret' = IF result \in {"RECONNECT", "RECONNECT_NOW"} THEN -1 ELSE 0
    /\ IF result = "UNLOAD"
       THEN /\ modules' = RemoveLink(modules, walk)
            /\ destroyed' = destroyed \union {modules[walk]}
       ELSE UNCHANGED <<modules, destroyed>>
    /\ walk' = IF Breaks(result)
               THEN 0
               ELSE SeekFrom(modules', event, AfterCall(walk, result))
    /\ UNCHANGED event

(* module_..._run returns; event_... exports the environment and runs the  *)
(* hook.                                                                   *)
End ==
    /\ event # NoEvent /\ walk = 0
    /\ event' = NoEvent
    /\ UNCHANGED <<modules, walk, ret, calls, destroyed>>

ListNext ==
    \/ \E e \in Events : Begin(e)
    \/ \E result \in Results : Call(result)
    \/ End

ListSpec == ListInit /\ [][ListNext]_listVars

-----------------------------------------------------------------------------
Called(m) == {i \in DOMAIN calls : calls[i].module = m}
Unloads == {i \in DOMAIN calls : calls[i].result = "UNLOAD"}
Walked == event # NoEvent /\ walk = 0

ListTypeOK ==
    /\ modules \in Seq(Modules) /\ IsInjective(modules)
    /\ event \in Events \union {NoEvent}
    /\ walk \in 0 .. Len(modules)
    /\ ret \in {-1, 0}
    /\ calls \in Seq([module : Modules, result : Results])
    /\ destroyed \subseteq Modules

(* A module that was destroyed is off the list, so that the walk never     *)
(* stands on it and it is neither called nor destroyed again.              *)
UnloadedStaysOut == destroyed \intersect ToSet(modules) = {}

(* No module has unloaded itself, or asked to reconnect at once. *)
Undisturbed == \A i \in DOMAIN calls : calls[i].result \in {"SUCCESS", "RECONNECT"}

(* m stands before n on the list. *)
Precedes(m, n) == \E i, j \in DOMAIN modules : i < j /\ modules[i] = m /\ modules[j] = n

(* An event that no module unloads itself on, or asks to reconnect at once *)
(* on, calls the modules of the list that handle it and no others, each    *)
(* once, in the order of the list.                                         *)
EveryHandlerOnce ==
    Walked /\ Undisturbed =>
        /\ \A m \in Modules :
             Called(m) # {} <=> m \in ToSet(modules) /\ event \in Handles[m]
        /\ \A i, j \in DOMAIN calls :
             i < j => Precedes(calls[i].module, calls[j].module)

(* The rewind after an unload can call a module again, but no more often   *)
(* than modules were unloaded.                                             *)
RerunsBounded ==
    \A m \in Modules : Cardinality(Called(m)) <= 1 + Cardinality(Unloads)

(* MPDCRON_EVENT_RECONNECT is to "Schedule a reconnection to mpd server":  *)
(* an event on which a module returns it returns -1.                       *)
ReconnectHonoured ==
    Walked /\ (\E i \in DOMAIN calls : calls[i].result = "RECONNECT") => ret = -1

=============================================================================
