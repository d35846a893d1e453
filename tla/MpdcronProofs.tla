------------------------------ MODULE MpdcronProofs ------------------------------
(***************************************************************************)
(* What holds of mpdcron's core for every set of events and modules.  The  *)
(* first half is about the loop alone, the second about the walk over the  *)
(* module list, and the last theorems put them together.                   *)
(***************************************************************************)
EXTENDS Mpdcron, FiniteSetTheorems, SequenceTheorems, WellFoundedInduction, TLAPS

-----------------------------------------------------------------------------
(* The loop.  OneSource says nothing of reconnect_sid, nor of a process    *)
(* that has not connected yet; both are needed to go on from step to step. *)

SidHasTimer == process = "running" /\ reconnect_sid # 0 => timers = 1

StartsClean ==
    process = "starting" =>
        /\ failed = "none" /\ todo = {}
        /\ conn = "NULL" /\ idle_sid = 0 /\ reconnect_sid = 0
        /\ watches = 0 /\ timers = 0

LoopInv == LoopTypeOK /\ OneSource /\ OtherAssertsHold /\ SidHasTimer /\ StartsClean

(* A failure of a connection that is there, when no timer is recorded,     *)
(* leaves one behind, and nothing else.                                    *)
LEMMA FailOutcome ==
    ASSUME LoopInv, NEW sid \in {0, 1}, Fail("open", 0, sid), reconnect_sid = 0
    PROVE  /\ process' = "running" /\ failed' = failed
           /\ conn' = "NULL" /\ flags' = {}
           /\ reconnect_sid' = sid /\ timers' = 1
BY DEF Fail, FreeConn, Rearm

LEMMA LoopInvInit == LoopInit => LoopInv
BY DEF LoopInit, LoopInv, LoopTypeOK, OneSource, OtherAssertsHold, SidHasTimer, StartsClean

(* loop_schedule_idle, called with nothing else under way. *)
LEMMA ScheduleIdleKeepsInv ==
    ASSUME LoopInv, process \in {"starting", "running"}, idle_sid = 0, watches = 0,
           NEW up \in {0, 1}, NEW down \in {0, 1}, up = 0,
           ScheduleIdle("open", 0, up, down), todo' = {}
    PROVE  LoopInv'
<1> USE DEF LoopInv, LoopTypeOK, OneSource, OtherAssertsHold, SidHasTimer, StartsClean,
            Handling
<1>1. CASE idle_sid # 0
  BY <1>1
<1>2. CASE /\ conn' = "open"
           /\ idle_sid' = 1 /\ watches' = watches + 1
           /\ reconnect_sid' = up /\ timers' = 0
           /\ process' = "running"
           /\ UNCHANGED <<failed, flags>>
  BY <1>2
<1>3. CASE Fail("open", 0, down) /\ UNCHANGED <<idle_sid, watches>>
  BY <1>3 DEF Fail, FreeConn, Abort, Rearm
<1> QED
  BY <1>1, <1>2, <1>3 DEF ScheduleIdle

LEMMA ExitKeepsInv == LoopInv /\ Exit => LoopInv'
BY DEF LoopInv, Exit, LoopTypeOK, OneSource, OtherAssertsHold, SidHasTimer, StartsClean

LEMMA LoopStep == LoopInv /\ LoopNext => LoopInv'
<1> SUFFICES ASSUME LoopInv, LoopNext PROVE LoopInv'
  OBVIOUS
<1> USE DEF LoopInv
<1>1. CASE Connect
  <2>1. process = "starting" /\ todo = {} /\ idle_sid = 0 /\ reconnect_sid = 0
           /\ watches = 0 /\ timers = 0
    BY <1>1 DEF Connect, StartsClean
  <2>2. CASE Exit
    BY <2>2, ExitKeepsInv
  <2>3. CASE Fail("open", 0, 1) /\ UNCHANGED <<idle_sid, watches, todo>>
    BY <2>1, <2>3, FailOutcome
       DEF LoopTypeOK, OneSource, OtherAssertsHold, SidHasTimer, StartsClean, Handling
  <2>4. CASE ScheduleIdle("open", 0, 0, 0) /\ UNCHANGED todo
    BY <2>1, <2>4, ScheduleIdleKeepsInv
  <2> QED
    BY <1>1, <2>2, <2>3, <2>4 DEF Connect
<1>2. CASE ReconnectRefused
  BY <1>2 DEF ReconnectRefused, FreeConn, LoopTypeOK, OneSource, OtherAssertsHold,
              SidHasTimer, StartsClean, Handling
<1>3. CASE ReconnectRejected
  BY <1>3, ExitKeepsInv DEF ReconnectRejected
<1>4. CASE Reconnect
  <2>1. process = "running" /\ timers = 1 /\ watches = 0 /\ todo = {} /\ idle_sid = 0
    BY <1>4 DEF Reconnect, OneSource, LoopTypeOK, Handling
  <2> QED
    BY <1>4, <2>1, ScheduleIdleKeepsInv DEF Reconnect
<1>5. CASE IdleReply
  <2>1. /\ watches = 1 /\ timers = 0 /\ todo = {} /\ idle_sid # 0 /\ conn = "open"
        /\ flags # {} /\ process = "running"
    BY <1>5 DEF IdleReply, EnteringIdle, OneSource, LoopTypeOK, Handling
  <2> QED
    BY <1>5, <2>1 DEF IdleReply, EnteringIdle, IdleSidTaken, LoopTypeOK, OneSource, OtherAssertsHold,
                      SidHasTimer, StartsClean, Handling
<1>6. CASE IdleBroken
  <2>1. /\ watches = 1 /\ timers = 0 /\ todo = {} /\ reconnect_sid = 0
        /\ process = "running" /\ idle_sid # 0 /\ conn = "open"
    BY <1>6 DEF IdleBroken, EnteringIdle, OneSource, LoopTypeOK, SidHasTimer, Handling
  <2>2. /\ Fail("open", 0, 1)
        /\ idle_sid' = 0 /\ watches' = watches - 1 /\ UNCHANGED todo
    BY <1>6, <2>1 DEF IdleBroken, EnteringIdle, IdleSidTaken
  <2> QED
    BY <2>1, <2>2, FailOutcome
       DEF LoopTypeOK, OneSource, OtherAssertsHold, SidHasTimer,
           StartsClean, Handling
<1>7. CASE IdleUnknown
  <2>1. process = "running" /\ watches = 1 /\ idle_sid # 0 /\ conn = "open"
    BY <1>7 DEF IdleUnknown, EnteringIdle, OneSource, LoopTypeOK, Handling
  <2>2. Exit
    BY <1>7, <2>1 DEF IdleUnknown, EnteringIdle
  <2> QED
    BY <2>2, ExitKeepsInv
<1>8. CASE EventDone
  <2>1. /\ watches = 0 /\ timers = 0 /\ todo # {} /\ reconnect_sid = 0 /\ idle_sid = 0
        /\ conn = "open" /\ process = "running"
    BY <1>8 DEF EventDone, OneSource, LoopTypeOK, SidHasTimer, Handling
  <2>2. CASE todo' = {}
    <3>1. ScheduleIdle("open", 0, reconnect_sid, 1)
      BY <1>8, <2>1, <2>2 DEF EventDone
    <3> QED
      BY <2>1, <2>2, <3>1, ScheduleIdleKeepsInv DEF LoopTypeOK
  <2>3. CASE todo' # {}
    BY <1>8, <2>1, <2>3
       DEF EventDone, Remaining, LoopTypeOK, OneSource, OtherAssertsHold, SidHasTimer,
           StartsClean, Handling
  <2> QED
    BY <2>2, <2>3
<1>9. CASE EventFailed
  <2>1. /\ watches = 0 /\ timers = 0 /\ reconnect_sid = 0 /\ idle_sid = 0
        /\ process = "running" /\ conn = "open"
    BY <1>9 DEF EventFailed, OneSource, LoopTypeOK, SidHasTimer, Handling
  <2>2. Fail("open", 0, 1)
    BY <1>9, <2>1 DEF EventFailed
  <2> QED
    BY <1>9, <2>1, <2>2, FailOutcome
       DEF EventFailed, LoopTypeOK, OneSource, OtherAssertsHold, SidHasTimer,
           StartsClean, Handling
<1>10. CASE \E e \in Events : Change(e)
  BY <1>10 DEF Change, LoopTypeOK, OneSource, OtherAssertsHold, SidHasTimer,
               StartsClean, Handling
<1> QED
  BY <1>1, <1>2, <1>3, <1>4, <1>5, <1>6, <1>7, <1>8, <1>9, <1>10 DEF LoopNext

LEMMA LoopStutter == LoopInv /\ UNCHANGED loopVars => LoopInv'
BY DEF LoopInv, loopVars, LoopTypeOK, OneSource, OtherAssertsHold, SidHasTimer,
       StartsClean, Handling

-----------------------------------------------------------------------------
(* The module list.  The helpers first.                                    *)

LEMMA LeastExists ==
    ASSUME NEW S \in SUBSET Nat, S # {}
    PROVE  \E first \in S : \A j \in S : first <= j
<1> DEFINE less == OpToRel(<, Nat)
<1>1. PICK first \in S : \A j \in S : ~ (<<j, first>> \in less)
  <2> HIDE DEF less
  <2> QED
    BY NatLessThanWellFounded, WFMin DEF less
<1>2. \A j \in S : first <= j
  <2> SUFFICES ASSUME NEW j \in S PROVE first <= j
    OBVIOUS
  <2>1. j \in Nat /\ first \in Nat
    OBVIOUS
  <2>2. ~ (j < first)
    BY <1>1, <2>1 DEF OpToRel
  <2> QED
    BY <2>1, <2>2
<1> QED
  BY <1>2

(* The search for a handler ends at the first place, from where it starts, *)
(* of a module that has one, or finds none to the end of the list. *)
LEMMA SeekFindsPlace ==
    ASSUME NEW list \in Seq(Modules), NEW e, NEW start \in Nat \ {0},
           NEW found, found = SeekFrom(list, e, start)
    PROVE  /\ found \in 0 .. Len(list)
           /\ found # 0 => found >= start /\ e \in Handles[list[found]]
           /\ \A i \in start .. Len(list) :
                e \in Handles[list[i]] => found # 0 /\ found <= i
<1> DEFINE places == {i \in start .. Len(list) : e \in Handles[list[i]]}
<1>1. CASE places = {}
  BY <1>1 DEF SeekFrom
<1>2. CASE places # {}
  <2>1. places \in SUBSET Nat
    OBVIOUS
  <2>2. \E i \in places : \A j \in places : i <= j
    <3> HIDE DEF places
    <3> QED
      BY <1>2, <2>1, LeastExists
  <2>3. found \in places /\ \A j \in places : found <= j
    BY <1>2, <2>2 DEF SeekFrom
  <2> QED
    BY <2>3
<1> QED
  BY <1>1, <1>2

(* Unlinking takes one module off the list and keeps the others, in order. *)
LEMMA RemoveLinkLeavesRest ==
    ASSUME NEW list \in Seq(Modules), IsInjective(list), NEW place \in 1 .. Len(list)
    PROVE  /\ RemoveLink(list, place) \in Seq(Modules)
           /\ Len(RemoveLink(list, place)) = Len(list) - 1
           /\ IsInjective(RemoveLink(list, place))
           /\ ToSet(RemoveLink(list, place)) \subseteq ToSet(list) \ {list[place]}
<1> DEFINE front == SubSeq(list, 1, place - 1)
           back == SubSeq(list, place + 1, Len(list))
           left == front \o back
           from(j) == IF j < place THEN j ELSE j + 1
<1>1. /\ front \in Seq(Modules) /\ Len(front) = place - 1
      /\ \A j \in 1 .. place - 1 : front[j] = list[j]
  OBVIOUS
<1>2. /\ back \in Seq(Modules) /\ Len(back) = Len(list) - place
      /\ \A j \in 1 .. Len(list) - place : back[j] = list[place + j]
  OBVIOUS
<1> HIDE DEF front, back
<1>3. /\ left \in Seq(Modules) /\ Len(left) = Len(list) - 1
      /\ \A j \in 1 .. Len(list) - 1 :
           left[j] = IF j <= place - 1 THEN front[j] ELSE back[j - (place - 1)]
  <2>1. /\ left \in Seq(Modules) /\ Len(left) = Len(front) + Len(back)
        /\ \A j \in 1 .. Len(front) + Len(back) :
             left[j] = IF j <= Len(front) THEN front[j] ELSE back[j - Len(front)]
    BY <1>1, <1>2, ConcatProperties
  <2>2. Len(front) + Len(back) = Len(list) - 1
    BY <1>1, <1>2
  <2> QED
    BY <1>1, <2>1, <2>2
<1> HIDE DEF left
<1>4. \A j \in 1 .. Len(list) - 1 : left[j] = list[from(j)]
  <2> SUFFICES ASSUME NEW j \in 1 .. Len(list) - 1 PROVE left[j] = list[from(j)]
    OBVIOUS
  <2>1. CASE j < place
    BY <1>1, <1>3, <2>1
  <2>2. CASE j >= place
    <3>1. j - (place - 1) \in 1 .. Len(list) - place
      BY <2>2
    <3>2. place + (j - (place - 1)) = j + 1
      OBVIOUS
    <3> QED
      BY <1>2, <1>3, <2>2, <3>1, <3>2
  <2> QED
    BY <2>1, <2>2
<1>5. \A j \in 1 .. Len(list) - 1 : from(j) \in 1 .. Len(list) /\ from(j) # place
  OBVIOUS
<1>6. \A j, k \in 1 .. Len(list) - 1 : from(j) = from(k) => j = k
  OBVIOUS
<1>7. DOMAIN list = 1 .. Len(list) /\ DOMAIN left = 1 .. Len(list) - 1
  BY <1>3
<1>8. \A j, k \in 1 .. Len(list) : list[j] = list[k] => j = k
  BY <1>7 DEF IsInjective
<1> HIDE DEF from
<1>9. IsInjective(left)
  BY <1>4, <1>5, <1>6, <1>7, <1>8 DEF IsInjective
<1>10. ToSet(left) \subseteq ToSet(list) \ {list[place]}
  BY <1>4, <1>5, <1>7, <1>8 DEF ToSet
<1> QED
  BY <1>3, <1>9, <1>10 DEF RemoveLink, RemoveAt, left, front, back

(* Counting places of a sequence that has grown by one. *)
LEMMA OneMore ==
    ASSUME NEW n \in Nat, NEW S \in SUBSET (1 .. n)
    PROVE  /\ Cardinality(S) \in Nat
           /\ Cardinality(S \union {n + 1}) = Cardinality(S) + 1
<1>1. IsFiniteSet(1 .. n)
  BY FS_Interval
<1>2. IsFiniteSet(S)
  BY <1>1, FS_Subset
<1>3. n + 1 \notin S
  OBVIOUS
<1> QED
  BY <1>2, <1>3, FS_CardinalityType, FS_AddElement

-----------------------------------------------------------------------------
(* The walk.  A module the walk has still to come to was called at most    *)
(* once per unload so far, and any other at most once more: the module     *)
(* that unloads itself pays for the walk starting over.                    *)

AheadIsOwed ==
    walk # 0 =>
        \A i \in walk .. Len(modules) :
            Cardinality(Called(modules[i])) <= Cardinality(Unloads)

(* RECONNECT_NOW ends the walk, with -1. *)
NowEnds ==
    (\E i \in DOMAIN calls : calls[i].result = "RECONNECT_NOW") => walk = 0 /\ ret = -1

ListInv ==
    ListTypeOK /\ UnloadedStaysOut /\ RerunsBounded /\ AheadIsOwed /\ NowEnds

LEMMA ListInvInit == ListInit => ListInv
<1> SUFFICES ASSUME ListInit PROVE ListInv
  OBVIOUS
<1>1. modules \in Seq(Modules) /\ IsInjective(modules)
  <2>1. PICK loaded \in SUBSET Modules :
          modules \in {s \in [1 .. Cardinality(loaded) -> loaded] : IsInjective(s)}
    BY DEF ListInit
  <2>2. Cardinality(loaded) \in Nat
    BY ModulesAssumption, FS_Subset, FS_CardinalityType
  <2> QED
    BY <2>1, <2>2
<1>2. Unloads = {} /\ \A m \in Modules : Called(m) = {}
  BY DEF ListInit, Unloads, Called
<1>3. Cardinality(Unloads) = 0 /\ \A m \in Modules : Cardinality(Called(m)) = 0
  BY <1>2, FS_EmptySet
<1>4. ListTypeOK
  BY <1>1 DEF ListInit, ListTypeOK, NoEvent
<1>5. RerunsBounded
  BY <1>3 DEF RerunsBounded
<1> QED
  BY <1>4, <1>5 DEF ListInit, ListInv, UnloadedStaysOut, AheadIsOwed, NowEnds

LEMMA BeginKeepsInv ==
    ASSUME ListInv, NEW e \in Events, Begin(e)
    PROVE  ListInv'
<1>1. walk' \in 0 .. Len(modules)
  BY SeekFindsPlace DEF Begin, ListInv, ListTypeOK
<1>2. ListTypeOK'
  BY <1>1 DEF Begin, ListInv, ListTypeOK
<1>3. Unloads' = {} /\ \A m \in Modules : Called(m)' = {}
  BY DEF Begin, Unloads, Called
<1>4. Cardinality(Unloads') = 0 /\ \A m \in Modules : Cardinality(Called(m)') = 0
  BY <1>3, FS_EmptySet
<1>5. \A i \in 1 .. Len(modules') : modules'[i] \in Modules
  BY <1>2 DEF ListTypeOK
<1>6. RerunsBounded'
  BY <1>4 DEF RerunsBounded
<1>7. AheadIsOwed'
  <2>1. walk' # 0 => \A i \in walk' .. Len(modules') : i \in 1 .. Len(modules')
    BY <1>2 DEF ListTypeOK
  <2> QED
    BY <1>4, <1>5, <2>1 DEF AheadIsOwed
<1> QED
  BY <1>2, <1>6, <1>7 DEF Begin, ListInv, UnloadedStaysOut, NowEnds

(* What a call adds to the counts. *)
LEMMA CallCounts ==
    ASSUME ListInv, NEW result \in Results, Call(result)
    PROVE  /\ Cardinality(Unloads) \in Nat
           /\ Cardinality(Unloads') =
                Cardinality(Unloads) + (IF result = "UNLOAD" THEN 1 ELSE 0)
           /\ \A m \in Modules :
                /\ Cardinality(Called(m)) \in Nat
                /\ Cardinality(Called(m)') =
                     Cardinality(Called(m)) + (IF m = modules[walk] THEN 1 ELSE 0)
<1> DEFINE n == Len(calls)
           entry == [module |-> modules[walk], result |-> result]
<1>1. /\ calls \in Seq([module : Modules, result : Results])
      /\ walk \in 1 .. Len(modules) /\ modules \in Seq(Modules)
  BY DEF Call, ListInv, ListTypeOK
<1>2. entry \in [module : Modules, result : Results]
  BY <1>1
<1>3. /\ n \in Nat
      /\ Len(calls') = n + 1 /\ DOMAIN calls = 1 .. n /\ DOMAIN calls' = 1 .. n + 1
      /\ \A i \in 1 .. n : calls'[i] = calls[i]
      /\ calls'[n + 1] = entry
  BY <1>1, <1>2, AppendProperties DEF Call
<1> HIDE DEF n
<1>4. Unloads' = Unloads \union (IF result = "UNLOAD" THEN {n + 1} ELSE {})
  BY <1>3 DEF Unloads
<1>5. \A m \in Modules :
        Called(m)' = Called(m) \union (IF m = modules[walk] THEN {n + 1} ELSE {})
  BY <1>3 DEF Called
<1>6. Unloads \in SUBSET (1 .. n) /\ \A m \in Modules : Called(m) \in SUBSET (1 .. n)
  BY <1>3 DEF Unloads, Called
<1>7. /\ Cardinality(Unloads) \in Nat
      /\ Cardinality(Unloads \union {n + 1}) = Cardinality(Unloads) + 1
  BY <1>3, <1>6, OneMore
<1>8. \A m \in Modules :
        /\ Cardinality(Called(m)) \in Nat
        /\ Cardinality(Called(m) \union {n + 1}) = Cardinality(Called(m)) + 1
  BY <1>3, <1>6, OneMore
<1>9. Cardinality(Unloads') = Cardinality(Unloads) + (IF result = "UNLOAD" THEN 1 ELSE 0)
  <2>1. CASE result = "UNLOAD"
    BY <1>4, <1>7, <2>1
  <2>2. CASE result # "UNLOAD"
    <3>1. Unloads' = Unloads
      BY <1>4, <2>2
    <3> QED
      BY <1>7, <2>2, <3>1
  <2> QED
    BY <2>1, <2>2
<1>10. \A m \in Modules :
         Cardinality(Called(m)') =
           Cardinality(Called(m)) + (IF m = modules[walk] THEN 1 ELSE 0)
  <2> SUFFICES ASSUME NEW m \in Modules
               PROVE  Cardinality(Called(m)') =
                        Cardinality(Called(m)) + (IF m = modules[walk] THEN 1 ELSE 0)
    OBVIOUS
  <2>1. CASE m = modules[walk]
    BY <1>5, <1>8, <2>1
  <2>2. CASE m # modules[walk]
    <3>1. Called(m)' = Called(m)
      BY <1>5, <2>2
    <3>2. Cardinality(Called(m)') = Cardinality(Called(m))
      BY <3>1, Zenon
    <3>3. Cardinality(Called(m)) \in Nat
      BY <1>8
    <3> QED
      BY <2>2, <3>2, <3>3
  <2> QED
    BY <2>1, <2>2
<1> QED
  BY <1>7, <1>8, <1>9, <1>10

(* Only the last call of a walk can have returned RECONNECT_NOW. *)
LEMMA NowStays ==
    ASSUME ListInv, NEW result \in Results, Call(result)
    PROVE  NowEnds'
<1>1. /\ calls \in Seq([module : Modules, result : Results])
      /\ walk \in 1 .. Len(modules) /\ modules \in Seq(Modules)
  BY DEF Call, ListInv, ListTypeOK
<1>2. [module |-> modules[walk], result |-> result] \in [module : Modules, result : Results]
  BY <1>1
<1>3. /\ DOMAIN calls = 1 .. Len(calls) /\ DOMAIN calls' = 1 .. Len(calls) + 1
      /\ Len(calls) \in Nat
      /\ \A i \in 1 .. Len(calls) : calls'[i] = calls[i]
      /\ calls'[Len(calls) + 1].result = result
  BY <1>1, <1>2, AppendProperties DEF Call
<1>4. \A i \in DOMAIN calls : calls[i].result # "RECONNECT_NOW"
  BY <1>1 DEF Call, ListInv, NowEnds
<1>5. (\E i \in DOMAIN calls' : calls'[i].result = "RECONNECT_NOW") => result = "RECONNECT_NOW"
  BY <1>3, <1>4
<1>6. result = "RECONNECT_NOW" => walk' = 0 /\ ret' = -1
  BY DEF Call, Breaks
<1> QED
  BY <1>5, <1>6 DEF NowEnds

LEMMA CallKeepsInv ==
    ASSUME ListInv, NEW result \in Results, Call(result)
    PROVE  ListInv'
<1>1. /\ modules \in Seq(Modules) /\ IsInjective(modules)
      /\ walk \in 1 .. Len(modules) /\ event \in Events
      /\ calls \in Seq([module : Modules, result : Results])
      /\ destroyed \subseteq Modules
  BY DEF Call, ListInv, ListTypeOK
<1>2. /\ modules[walk] \in Modules
      /\ [module |-> modules[walk], result |-> result] \in [module : Modules, result : Results]
  BY <1>1
<1>3. CASE result = "UNLOAD"
  <2>1. /\ modules' \in Seq(Modules) /\ IsInjective(modules')
        /\ ToSet(modules') \subseteq ToSet(modules) \ {modules[walk]}
    BY <1>1, <1>3, RemoveLinkLeavesRest DEF Call
  <2>2. walk' \in 0 .. Len(modules')
    BY <1>3, <2>1, SeekFindsPlace DEF Call, Breaks, AfterCall
  <2>3. ListTypeOK'
    BY <1>1, <1>2, <1>3, <2>1, <2>2 DEF Call, ListTypeOK
  <2>4. UnloadedStaysOut'
    BY <1>3, <2>1 DEF Call, ListInv, UnloadedStaysOut
  <2>5. \A m \in Modules : Cardinality(Called(m)') <= Cardinality(Unloads')
    <3> SUFFICES ASSUME NEW m \in Modules
                 PROVE  Cardinality(Called(m)') <= Cardinality(Unloads')
      OBVIOUS
    <3>1. Cardinality(Unloads') = Cardinality(Unloads) + 1
      BY <1>3, CallCounts
    <3>2. CASE m = modules[walk]
      BY <3>1, <3>2, <1>1, CallCounts DEF ListInv, AheadIsOwed
    <3>3. CASE m # modules[walk]
      BY <3>1, <3>3, CallCounts DEF ListInv, RerunsBounded
    <3> QED
      BY <3>2, <3>3
  <2>6. \A i \in 1 .. Len(modules') : modules'[i] \in Modules
    BY <2>1
  <2>7. AheadIsOwed'
    <3>1. walk' # 0 => \A i \in walk' .. Len(modules') : i \in 1 .. Len(modules')
      BY <2>2, <2>1
    <3> QED
      BY <2>5, <2>6, <3>1 DEF AheadIsOwed
  <2>8. RerunsBounded'
    <3> SUFFICES ASSUME NEW m \in Modules
                 PROVE  Cardinality(Called(m)') <= 1 + Cardinality(Unloads')
      BY DEF RerunsBounded
    <3>1. Cardinality(Called(m)') \in Nat /\ Cardinality(Unloads') \in Nat
      BY CallCounts
    <3> QED
      BY <2>5, <3>1
  <2>9. NowEnds'
    BY <1>1, <1>2, <1>3, NowStays
  <2> QED
    BY <2>3, <2>4, <2>7, <2>8, <2>9 DEF ListInv
<1>4. CASE result # "UNLOAD"
  <2>1. /\ UNCHANGED <<modules, destroyed>>
        /\ walk' = IF Breaks(result) THEN 0 ELSE SeekFrom(modules, event, walk + 1)
    BY <1>4 DEF Call, AfterCall
  <2>2. walk' \in 0 .. Len(modules) /\ (walk' # 0 => walk' > walk)
    BY <1>1, <2>1, SeekFindsPlace
  <2>3. ListTypeOK'
    BY <1>1, <1>2, <2>1, <2>2 DEF Call, ListTypeOK
  <2>4. UnloadedStaysOut'
    BY <2>1 DEF ListInv, UnloadedStaysOut
  <2>5. Cardinality(Unloads') = Cardinality(Unloads) /\ Cardinality(Unloads) \in Nat
    BY <1>4, CallCounts
  <2>6. AheadIsOwed'
    <3> SUFFICES ASSUME walk' # 0, NEW i \in walk' .. Len(modules),
                        NEW m \in Modules, m = modules[i]
                 PROVE  Cardinality(Called(m)') <= Cardinality(Unloads')
      BY <1>1, <2>1, <2>2 DEF AheadIsOwed
    <3>1. i \in walk .. Len(modules) /\ i # walk /\ i \in 1 .. Len(modules)
      BY <1>1, <2>2
    <3>2. m # modules[walk]
      BY <1>1, <3>1 DEF IsInjective
    <3>3. Cardinality(Called(m)') = Cardinality(Called(m))
      BY <3>2, CallCounts
    <3>4. Cardinality(Called(m)) <= Cardinality(Unloads)
      BY <1>1, <3>1 DEF ListInv, AheadIsOwed
    <3> QED
      BY <2>5, <3>3, <3>4
  <2>7. RerunsBounded'
    <3> SUFFICES ASSUME NEW m \in Modules
                 PROVE  Cardinality(Called(m)') <= 1 + Cardinality(Unloads')
      BY DEF RerunsBounded
    <3>1. CASE m = modules[walk]
      <4>1. Cardinality(Called(m)) <= Cardinality(Unloads)
        BY <1>1, <3>1 DEF ListInv, AheadIsOwed
      <4> QED
        BY <2>5, <3>1, <4>1, CallCounts
    <3>2. CASE m # modules[walk]
      BY <2>5, <3>2, CallCounts DEF ListInv, RerunsBounded
    <3> QED
      BY <3>1, <3>2
  <2>8. NowEnds'
    BY <1>1, <1>2, NowStays
  <2> QED
    BY <2>3, <2>4, <2>6, <2>7, <2>8 DEF ListInv
<1> QED
  BY <1>3, <1>4

LEMMA EndKeepsInv == ListInv /\ End => ListInv'
<1> SUFFICES ASSUME ListInv, End PROVE ListInv'
  OBVIOUS
<1>1. ListTypeOK'
  BY DEF End, ListInv, ListTypeOK
<1>2. Unloads' = Unloads /\ \A m \in Modules : Called(m)' = Called(m)
  BY DEF End, Unloads, Called
<1>3. RerunsBounded'
  BY <1>2 DEF ListInv, RerunsBounded
<1> QED
  BY <1>1, <1>3 DEF End, ListInv, UnloadedStaysOut, AheadIsOwed, NowEnds

LEMMA ListStutter == ListInv /\ UNCHANGED listVars => ListInv'
<1> SUFFICES ASSUME ListInv, UNCHANGED listVars PROVE ListInv'
  OBVIOUS
<1>1. ListTypeOK'
  BY DEF listVars, ListInv, ListTypeOK
<1>2. Unloads' = Unloads /\ \A m \in Modules : Called(m)' = Called(m)
  BY DEF listVars, Unloads, Called
<1>3. RerunsBounded'
  BY <1>2 DEF listVars, ListInv, RerunsBounded
<1>4. AheadIsOwed'
  BY <1>2 DEF listVars, ListInv, AheadIsOwed, ListTypeOK
<1> QED
  BY <1>1, <1>3, <1>4 DEF listVars, ListInv, UnloadedStaysOut, NowEnds

-----------------------------------------------------------------------------
(* The order of the calls.  As long as no module unloads itself or ends    *)
(* the walk, the modules called are those with a handler that the walk     *)
(* has passed, all of them when it has ended.                              *)

Passed(place) == walk = 0 \/ place < walk

CallsFollowList ==
    /\ walk # 0 => event # NoEvent /\ event \in Handles[modules[walk]]
    /\ event # NoEvent /\ Undisturbed =>
         /\ \A m \in Modules :
              Called(m) # {} <=>
                \E i \in DOMAIN modules :
                    modules[i] = m /\ event \in Handles[m] /\ Passed(i)
         /\ \A i, j \in DOMAIN calls :
              i < j => Precedes(calls[i].module, calls[j].module)

LEMMA BeginFollows ==
    ASSUME ListInv, NEW e \in Events, Begin(e)
    PROVE  CallsFollowList'
<1>1. /\ modules' = modules /\ modules \in Seq(Modules) /\ event' = e
      /\ DOMAIN modules = 1 .. Len(modules)
      /\ walk' \in 0 .. Len(modules)
      /\ walk' # 0 => e \in Handles[modules[walk']]
      /\ \A i \in 1 .. Len(modules) :
           e \in Handles[modules[i]] => walk' # 0 /\ walk' <= i
  BY SeekFindsPlace DEF Begin, ListInv, ListTypeOK
<1>2. e # NoEvent
  BY EventsAssumption DEF NoEvent
<1>3. DOMAIN calls' = {} /\ \A m \in Modules : Called(m)' = {}
  BY DEF Begin, Called
<1>4. \A i \in DOMAIN modules' : event' \in Handles[modules'[i]] => ~ Passed(i)'
  BY <1>1 DEF Passed
<1> QED
  BY <1>1, <1>2, <1>3, <1>4 DEF CallsFollowList

LEMMA CallFollows ==
    ASSUME ListInv, CallsFollowList, NEW result \in Results, Call(result)
    PROVE  CallsFollowList'
<1> DEFINE entry == [module |-> modules[walk], result |-> result]
<1>1. /\ modules \in Seq(Modules) /\ IsInjective(modules)
      /\ DOMAIN modules = 1 .. Len(modules)
      /\ walk \in 1 .. Len(modules) /\ event # NoEvent /\ event' = event
      /\ calls \in Seq([module : Modules, result : Results])
      /\ event \in Handles[modules[walk]]
  BY DEF Call, ListInv, ListTypeOK, CallsFollowList
<1>2. modules' \in Seq(Modules)
  BY CallKeepsInv DEF ListInv, ListTypeOK
<1>3. /\ DOMAIN calls = 1 .. Len(calls) /\ DOMAIN calls' = 1 .. Len(calls) + 1
      /\ Len(calls) \in Nat
      /\ \A i \in 1 .. Len(calls) : calls'[i] = calls[i]
      /\ calls'[Len(calls) + 1] = entry
  <2>1. entry \in [module : Modules, result : Results]
    BY <1>1
  <2> QED
    BY <1>1, <2>1, AppendProperties DEF Call
<1>4. walk' # 0 => event' \in Handles[modules'[walk']]
  <2>1. AfterCall(walk, result) \in Nat \ {0}
    BY <1>1 DEF AfterCall
  <2> QED
    BY <1>1, <1>2, <2>1, SeekFindsPlace DEF Call
<1>5. ASSUME Undisturbed'
      PROVE  /\ \A m \in Modules :
                  Called(m)' # {} <=>
                    \E i \in DOMAIN modules' :
                        modules'[i] = m /\ event' \in Handles[m] /\ Passed(i)'
             /\ \A i, j \in DOMAIN calls' :
                  i < j => Precedes(calls[i].module, calls[j].module)'
  <2>1. Undisturbed /\ result \in {"SUCCESS", "RECONNECT"}
    BY <1>3, <1>5 DEF Undisturbed
  <2>2. /\ modules' = modules
        /\ walk' = SeekFrom(modules, event, walk + 1)
    BY <2>1 DEF Call, Breaks, AfterCall
  <2>3. /\ walk' \in 0 .. Len(modules)
        /\ walk' # 0 => walk' > walk
        /\ \A i \in walk + 1 .. Len(modules) :
             event \in Handles[modules[i]] => walk' # 0 /\ walk' <= i
    BY <1>1, <2>2, SeekFindsPlace
  <2>4. \A i \in DOMAIN modules :
          event \in Handles[modules[i]] => (Passed(i)' <=> Passed(i) \/ i = walk)
    BY <1>1, <2>3 DEF Passed
  <2>5. \A m \in Modules : Called(m)' # {} <=> Called(m) # {} \/ m = modules[walk]
    BY <1>3 DEF Called
  <2>6. \A m \in Modules :
          Called(m) # {} <=>
            \E i \in DOMAIN modules :
                modules[i] = m /\ event \in Handles[m] /\ Passed(i)
    BY <1>1, <2>1 DEF CallsFollowList
  <2>7. \A m \in Modules :
          Called(m)' # {} <=>
            \E i \in DOMAIN modules :
                modules[i] = m /\ event \in Handles[m] /\ Passed(i)'
    BY <1>1, <2>4, <2>5, <2>6
  <2>8. ASSUME NEW i \in DOMAIN calls', NEW j \in DOMAIN calls', i < j
        PROVE  \E a, b \in DOMAIN modules :
                  a < b /\ modules[a] = calls'[i].module /\ modules[b] = calls'[j].module
    <3>1. i \in 1 .. Len(calls) /\ calls'[i] = calls[i] /\ calls[i].module \in Modules
      <4>1. i \in 1 .. Len(calls)
        BY <1>3, <2>8
      <4>2. calls[i] \in [module : Modules, result : Results]
        BY <1>1, <4>1, ElementOfSeq
      <4> QED
        BY <1>3, <4>1, <4>2
    <3>2. CASE j \in 1 .. Len(calls)
      <4>1. Precedes(calls[i].module, calls[j].module)
        BY <1>1, <1>3, <2>1, <2>8, <3>1, <3>2 DEF CallsFollowList
      <4> QED
        BY <1>3, <3>1, <3>2, <4>1 DEF Precedes
    <3>3. CASE j = Len(calls) + 1
      <4>1. Called(calls[i].module) # {}
        BY <1>3, <3>1 DEF Called
      <4>2. PICK a \in DOMAIN modules : modules[a] = calls[i].module /\ Passed(a)
        BY <2>6, <3>1, <4>1
      <4>3. a < walk
        BY <1>1, <4>2 DEF Passed
      <4> QED
        BY <1>1, <1>3, <3>1, <3>3, <4>2, <4>3
    <3> QED
      BY <1>3, <3>2, <3>3
  <2> QED
    BY <1>1, <2>2, <2>7, <2>8 DEF Precedes
<1> QED
  BY <1>1, <1>4, <1>5 DEF CallsFollowList

LEMMA EndFollows == End => CallsFollowList'
BY DEF End, CallsFollowList

LEMMA StutterFollows == CallsFollowList /\ UNCHANGED listVars => CallsFollowList'
<1> SUFFICES ASSUME CallsFollowList, UNCHANGED listVars PROVE CallsFollowList'
  OBVIOUS
<1>1. \A m \in Modules : Called(m)' = Called(m)
  BY DEF listVars, Called
<1> QED
  BY <1>1 DEF listVars, CallsFollowList, Undisturbed, Precedes, Passed

-----------------------------------------------------------------------------
(* The two together: a step of the daemon is a step of the loop, of the    *)
(* list, or of both.                                                       *)

LEMMA NextIsBoth ==
    ASSUME LoopInv, ListInv, [Next]_vars
    PROVE  /\ LoopNext \/ UNCHANGED loopVars
           /\ \/ \E e \in Events : Begin(e)
              \/ \E result \in Results : Call(result)
              \/ End
              \/ UNCHANGED listVars
<1>1. CASE Loop
  BY <1>1 DEF Loop, LoopNext
<1>2. CASE QueryFailed
  BY <1>2 DEF QueryFailed, LoopNext
<1>3. CASE RunModules
  <2>1. NextEvent \in Events
    <3>1. todo \subseteq Events /\ todo # {} /\ todo \subseteq Nat
      BY <1>3, EventsAssumption DEF RunModules, LoopInv, LoopTypeOK
    <3>2. NextEvent \in todo
      BY <3>1, LeastExists DEF NextEvent
    <3> QED
      BY <3>1, <3>2
  <2> QED
    BY <1>3, <2>1 DEF RunModules
<1>4. CASE CallModule
  BY <1>4 DEF CallModule
<1>5. CASE EventReturns
  BY <1>5 DEF EventReturns, LoopNext
<1>6. CASE Changes
  BY <1>6 DEF Changes, LoopNext
<1>7. CASE UNCHANGED vars
  BY <1>7 DEF vars
<1> QED
  BY <1>1, <1>2, <1>3, <1>4, <1>5, <1>6, <1>7 DEF Next

(* The daemon's inductive invariant. *)
Inv == LoopInv /\ ListInv /\ CallsFollowList

(* cron-loop.c and cron-gmodule.c: the invariant of the loop's ids, sources *)
(* and asserts, and that of the walk over the modules, hold together.      *)
THEOREM Inductive == Spec => []Inv
<1>1. Init => Inv
  BY LoopInvInit, ListInvInit DEF Init, Inv, ListInit, CallsFollowList
<1>2. Inv /\ [Next]_vars => Inv'
  <2> SUFFICES ASSUME LoopInv, ListInv, CallsFollowList, [Next]_vars
               PROVE  LoopInv' /\ ListInv' /\ CallsFollowList'
    BY DEF Inv
  <2>1. LoopInv'
    BY NextIsBoth, LoopStep, LoopStutter
  <2>2. ListInv'
    BY NextIsBoth, BeginKeepsInv, CallKeepsInv, EndKeepsInv, ListStutter
  <2>3. CallsFollowList'
    BY NextIsBoth, BeginFollows, CallFollows, EndFollows, StutterFollows
  <2> QED
    BY <2>1, <2>2, <2>3
<1> QED
  BY <1>1, <1>2, PTL DEF Spec

-----------------------------------------------------------------------------
(* What a reader should know of the daemon's core.                         *)

(* Type correctness, whatever modules are loaded and events come. *)
THEOREM TypeAlwaysOK == Spec => []TypeOK
<1>1. Inv => TypeOK
  BY DEF Inv, LoopInv, ListInv, TypeOK
<1> QED
  BY <1>1, Inductive, PTL

(* While mpdcron runs there is exactly one of: a watch on the connection,  *)
(* an answer in hand, a timer to reconnect (cron-loop.c). *)
THEOREM AlwaysOneSource == Spec => []OneSource
<1>1. Inv => OneSource
  BY DEF Inv, LoopInv
<1> QED
  BY <1>1, Inductive, PTL

(* Of the six asserts of cron-loop.c (on conn in loop_failure, on idle_sid *)
(* and conn in loop_idle and loop_schedule_idle, on reconnect_sid in       *)
(* loop_schedule_reconnect) the first five never fail.                     *)
THEOREM OtherAssertsAlwaysHold == Spec => []OtherAssertsHold
<1>1. Inv => OtherAssertsHold
  BY DEF Inv, LoopInv
<1> QED
  BY <1>1, Inductive, PTL

(* A module that module_process_ret destroyed never comes back on the list *)
(* that the event walks over. *)
THEOREM UnloadedAlwaysStaysOut == Spec => []UnloadedStaysOut
<1>1. Inv => UnloadedStaysOut
  BY DEF Inv, ListInv
<1> QED
  BY <1>1, Inductive, PTL

(* The rewind of the walk after an unload calls no module more often than  *)
(* once, plus once for every module unloaded on the same event. *)
THEOREM RerunsAlwaysBounded == Spec => []RerunsBounded
<1>1. Inv => RerunsBounded
  BY DEF Inv, ListInv
<1> QED
  BY <1>1, Inductive, PTL

(* cron-gmodule.c: an event on which no module asks for more than a        *)
(* reconnection at its end calls every module of the list that handles it, *)
(* once, in the order of the list, and nothing else. *)
THEOREM EveryHandlerAlwaysOnce == Spec => []EveryHandlerOnce
<1>1. Inv => EveryHandlerOnce
  <2> SUFFICES ASSUME ListTypeOK, CallsFollowList, Walked, Undisturbed
               PROVE  /\ \A m \in Modules :
                           Called(m) # {} <=> m \in ToSet(modules) /\ event \in Handles[m]
                      /\ \A i, j \in DOMAIN calls :
                           i < j => Precedes(calls[i].module, calls[j].module)
    BY DEF Inv, ListInv, EveryHandlerOnce
  <2> QED
    BY DEF CallsFollowList, Walked, Passed, ToSet
<1> QED
  BY <1>1, Inductive, PTL

(* MPDCRON_EVENT_RECONNECT_NOW: no module is called between the return of  *)
(* the handler and the end of the connection. *)
THEOREM NowAlwaysMeansNow == Spec => NowMeansNow
<1>1. Inv /\ [Next]_vars =>
        [\A i \in DOMAIN calls : calls[i].result = "RECONNECT_NOW" /\ event # NoEvent =>
            \/ UNCHANGED <<calls, conn>>
            \/ UNCHANGED calls /\ conn' = "NULL"]_vars
  <2> SUFFICES ASSUME ListInv, [Next]_vars, NEW i \in DOMAIN calls,
                      calls[i].result = "RECONNECT_NOW", event # NoEvent
               PROVE  \/ UNCHANGED <<calls, conn>>
                      \/ UNCHANGED calls /\ conn' = "NULL"
    BY DEF Inv
  <2>1. walk = 0 /\ ret = -1
    BY DEF ListInv, NowEnds
  <2>2. CASE EventReturns
    BY <2>1, <2>2 DEF EventReturns, End, EventFailed, Fail, FreeConn
  <2>3. CASE Changes
    BY <2>3 DEF Changes, Change, listVars
  <2>4. CASE UNCHANGED vars
    BY <2>4 DEF vars, loopVars, listVars
  <2> QED
    BY <2>1, <2>2, <2>3, <2>4
       DEF Next, Loop, QueryFailed, RunModules, Begin, CallModule, Call
<1> QED
  BY <1>1, Inductive, PTL DEF Spec, NowMeansNow

=============================================================================
