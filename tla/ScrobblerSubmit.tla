---------------------------- MODULE ScrobblerSubmit ----------------------------
(***************************************************************************)
(* One `struct scrobbler' of gmodule/scrobbler/scrobbler-submit.c: the     *)
(* session state machine, its two GLib timers, the retry interval, the     *)
(* queue of songs and the "now playing" record, driven by the song tracker *)
(* (as_songchange, as_now_playing), the main loop (the timers) and the     *)
(* HTTP client of scrobbler-curl.c, whose callbacks come from the main     *)
(* loop or, when a request cannot be started, from http_client_request:    *)
(* one for each request, but two when curl_multi_perform() fails there.    *)
(*                                                                         *)
(* Every callback runs to completion on the GLib main loop, so each is one *)
(* action.  An assert() that fails sets `aborted', after which nothing     *)
(* happens.  A queued record is its play number: as_songchange stamps each *)
(* play with its own time, so two records in the queue are never the same  *)
(* play.  What the server knows, `accepted', belongs to the environment.   *)
(***************************************************************************)
EXTENDS Integers, Sequences, SequencesExt

CONSTANTS
    Songs,       \* records with an artist and a title
    Untitled,    \* records with an artist and no title
    NoSong,      \* the cleared record of record_clear
    MaxSubmit,   \* MAX_SUBMIT_COUNT
    MaxPlays,    \* bound on the number of songs pushed in a behaviour
    MaxJournal   \* bound on the number of songs found in the journal

ASSUME MaxSubmitAssumption == MaxSubmit \in Nat \ {0}
ASSUME BoundsAssumption == MaxPlays \in Nat /\ MaxJournal \in Nat
ASSUME RecordsAssumption ==
    /\ NoSong \notin Songs \union Untitled
    /\ Songs \intersect Untitled = {}

VARIABLES
    state,           \* scrobbler->state
    interval,        \* scrobbler->interval, in seconds
    handshakeTimer,  \* delay of the pending handshake_source_id, 0 when there is none
    submitTimer,     \* delay of the pending submit_source_id, 0 when there is none
    nowPlaying,      \* scrobbler->now_playing
    queue,           \* scrobbler->queue, a sequence of play numbers
    pending,         \* scrobbler->pending
    requests,        \* number of HTTP requests under way, by what they carry
    body,            \* the plays in the last batch that was posted
    announced,       \* the record in the last now-playing notification
    plays,           \* history: songs pushed so far
    accepted,        \* environment: the plays the server has
    aborted,         \* an assert() failed
    toldTwice        \* history: the HTTP client told of one failure twice

timers == <<handshakeTimer, submitTimer>>
vars == <<state, interval, timers, nowPlaying, queue, pending, requests, body,
          announced, plays, accepted, aborted, toldTwice>>

States == {"NOTHING", "HANDSHAKE", "READY", "SUBMITTING"}
Kinds == {"handshake", "batch", "nowplaying"}

-----------------------------------------------------------------------------
(* Helpers.  Definitions named ..._Bug are not part of the model: each is  *)
(* a plausible slip in the definition below it, and shows that a property  *)
(* notices it.                                                             *)

(* record_is_defined: the record has both an artist and a title. *)
Defined(record) == record \in Songs

Increase_Bug(i) == IF i < 60 THEN 60 ELSE i * 2
(* scrobbler_increase_interval: 60 s, doubled up to two hours. *)
Increase(i) ==
    LET longer == IF i < 60 THEN 60 ELSE i * 2
    IN  IF longer > 7200 THEN 7200 ELSE longer

(* The records scrobbler_submit puts into one request. *)
Chunk(q) == SubSeq(q, 1, IF Len(q) < MaxSubmit THEN Len(q) ELSE MaxSubmit)

PendingCount_Bug(q) == Len(q)
(* scrobbler->pending as scrobbler_submit sets it. *)
PendingCount(q) == Len(Chunk(q))

RemoveOldest_Bug(q, count) == SubSeq(q, 1, Len(q) - count)
(* scrobbler_queue_remove_oldest *)
RemoveOldest(q, count) == SubSeq(q, count + 1, Len(q))

AfterSuccess_Bug(i) == i
(* The interval after the server answered OK. *)
AfterSuccess(i) == 1

HasWork(q, np) == q # <<>> \/ Defined(np)

MaySchedule_Bug == submitTimer = 0
(* The guard of scrobbler_push_callback and                                *)
(* scrobbler_schedule_now_playing_callback.                                *)
MaySchedule == state = "READY" /\ submitTimer = 0

(* assert(): the rest of the callback runs, or the process is aborted. *)
Asserting(condition, step) ==
    /\ ~aborted
    /\ \/ condition /\ step
       \/ /\ ~condition
          /\ aborted' = TRUE
          /\ UNCHANGED <<state, interval, timers, nowPlaying, queue, pending, requests,
                         body, announced, plays, accepted, toldTwice>>

GoesOn == UNCHANGED <<aborted, toldTwice>>

(* http_client_request fails: it has called the error handler of the       *)
(* request.  When it was curl_multi_perform() that failed, that call was   *)
(* http_client_abort_all_requests'; the request, freed there, is freed and *)
(* reported once more, and the first assert() of its error handler fails.  *)
RequestFails ==
    \/ GoesOn
    \/ aborted' = TRUE /\ toldTwice' = TRUE

-----------------------------------------------------------------------------
(* The routines the callbacks share.  They take the values their caller    *)
(* has already assigned: q, np, count, delay and under_way are the queue,  *)
(* the now-playing record, the pending count, the interval and the         *)
(* requests that are left.                                                 *)

RetryDelay_Bug(delay) == 0
(* scrobbler_schedule_submit arms the timer with the interval. *)
RetryDelay(delay) == delay

(* The end of scrobbler_submit_error, and of an answer that is not OK. *)
RetrySubmit(delay, under_way) ==
    /\ state' = "READY"
    /\ requests' = under_way
    /\ interval' = Increase(delay)
    /\ submitTimer' = RetryDelay(Increase(delay))

(* http_client_request for a POST: it is under way, or it cannot be        *)
(* started and scrobbler_submit_error runs inside it.                      *)
Post(kind, delay, under_way) ==
    \/ /\ state' = "SUBMITTING"
       /\ requests' = [under_way EXCEPT ![kind] = @ + 1]
       /\ interval' = delay
       /\ submitTimer' = 0
       /\ GoesOn
    \/ RetrySubmit(delay, under_way) /\ RequestFails

(* scrobbler_submit and scrobbler_send_now_playing, entered READY with no  *)
(* submit timer.  Songs go first; the now-playing notification is sent     *)
(* when the queue is empty; with neither there is nothing to do.           *)
Submit(q, np, count, delay, under_way) ==
    \/ /\ ~HasWork(q, np)
       /\ state' = "READY" /\ interval' = delay /\ submitTimer' = 0
       /\ requests' = under_way
       /\ pending' = count
       /\ UNCHANGED <<body, announced>>
       /\ GoesOn
    \/ /\ q = <<>> /\ Defined(np)
       /\ announced' = np
       /\ pending' = count
       /\ Post("nowplaying", delay, under_way)
       /\ UNCHANGED body
    \/ /\ q # <<>>
       /\ body' = Chunk(q)
       /\ pending' = PendingCount(q)
       /\ Post("batch", delay, under_way)
       /\ UNCHANGED announced

(* Back to NOTHING with a handshake timer (scrobbler_schedule_handshake).  *)
AwaitHandshake(delay, under_way) ==
    /\ state' = "NOTHING"
    /\ interval' = delay
    /\ handshakeTimer' = delay
    /\ requests' = under_way

(* The requests that are left when one was answered or has failed          *)
(* (http_request_done, http_request_abort).                                *)
Answered(kind) == [requests EXCEPT ![kind] = @ - 1]

-----------------------------------------------------------------------------
(* scrobbler_new, journal_read and scrobbler_schedule_handshake at as_init. *)
Init ==
    /\ state = "NOTHING"
    /\ interval = 1
    /\ handshakeTimer = 1
    /\ submitTimer = 0
    /\ nowPlaying = NoSong
    /\ plays \in 0 .. MaxJournal
    /\ queue = [i \in 1 .. plays |-> i]
    /\ pending = 0
    /\ requests = [kind \in Kinds |-> 0]
    /\ body = <<>>
    /\ announced = NoSong
    /\ accepted = {}
    /\ aborted = FALSE
    /\ toldTwice = FALSE

(* as_songchange for a record that has an artist and a title, and          *)
(* scrobbler_push_callback.                                                *)
SongChange ==
    /\ ~aborted
    /\ plays < MaxPlays
    /\ plays' = plays + 1
    /\ queue' = Append(queue, plays + 1)
    /\ submitTimer' = IF MaySchedule THEN interval ELSE submitTimer
    /\ UNCHANGED <<state, interval, handshakeTimer, nowPlaying, pending,
                   requests, body, announced, accepted, aborted, toldTwice>>

(* as_now_playing and scrobbler_schedule_now_playing_callback.  The song   *)
(* tracker rejects a song with no artist, and lets one with no title by.   *)
NowPlaying(record) ==
    Asserting(MaySchedule => HasWork(queue, record),
        /\ nowPlaying' = record
        /\ submitTimer' = IF MaySchedule THEN interval ELSE submitTimer
        /\ UNCHANGED <<state, interval, handshakeTimer, queue, pending,
                       requests, body, announced, plays, accepted>>
        /\ GoesOn)

(* scrobbler_handshake_timer and scrobbler_handshake: the request is under *)
(* way, or scrobbler_handshake_error runs inside http_client_request.      *)
HandshakeTimer ==
    /\ handshakeTimer # 0
    /\ Asserting(state = "NOTHING",
        /\ \/ /\ state' = "HANDSHAKE"
              /\ handshakeTimer' = 0
              /\ requests' = [requests EXCEPT !["handshake"] = @ + 1]
              /\ UNCHANGED interval
              /\ GoesOn
           \/ AwaitHandshake(Increase(interval), requests) /\ RequestFails
        /\ UNCHANGED <<submitTimer, nowPlaying, queue, pending, body, announced,
                       plays, accepted>>)

(* scrobbler_handshake_response: OK, a session and both URLs. *)
HandshakeOK ==
    /\ requests["handshake"] > 0
    /\ Asserting(state = "HANDSHAKE" /\ submitTimer = 0,
        /\ Submit(queue, nowPlaying, pending, 1, Answered("handshake"))
        /\ UNCHANGED <<handshakeTimer, nowPlaying, queue, plays, accepted>>)

(* scrobbler_handshake_response that is refused or lacks a URL, and        *)
(* scrobbler_handshake_error.                                              *)
HandshakeFailed ==
    /\ requests["handshake"] > 0
    /\ Asserting(state = "HANDSHAKE" /\ handshakeTimer = 0,
        /\ AwaitHandshake(Increase(interval), Answered("handshake"))
        /\ UNCHANGED <<submitTimer, nowPlaying, queue, pending, body, announced,
                       plays, accepted>>
        /\ GoesOn)

(* scrobbler_submit_timer *)
SubmitTimer ==
    /\ submitTimer # 0
    /\ Asserting(state = "READY",
        /\ Submit(queue, nowPlaying, pending, interval, requests)
        /\ UNCHANGED <<handshakeTimer, nowPlaying, queue, plays, accepted>>)

(* What the server took of a request: a now-playing notification adds no   *)
(* play.                                                                   *)
Told(kind) == IF kind = "batch" THEN ToSet(body) ELSE {}

(* scrobbler_submit_response, AS_SUBMIT_OK: the posted songs, or else the  *)
(* now-playing record, are done with; then scrobbler_submit.  Popping a    *)
(* queue that is too short frees a NULL record, which ends the process as  *)
(* an assert() does.                                                       *)
SubmitOK(kind) ==
    /\ requests[kind] > 0
    /\ Asserting(/\ state = "SUBMITTING" /\ submitTimer = 0
                 /\ IF pending > 0 THEN pending <= Len(queue) ELSE Defined(nowPlaying),
        /\ queue' = IF pending > 0 THEN RemoveOldest(queue, pending) ELSE queue
        /\ nowPlaying' = IF pending > 0 THEN nowPlaying ELSE NoSong
        /\ Submit(queue', nowPlaying', 0, AfterSuccess(interval), Answered(kind))
        /\ accepted' = accepted \union Told(kind)
        /\ UNCHANGED <<handshakeTimer, plays>>)

(* scrobbler_submit_response, AS_SUBMIT_FAILED (FAILED or anything that    *)
(* cannot be read) and scrobbler_submit_error: the posted songs are kept.  *)
(* When it is the answer that was lost, the server has them already.       *)
SubmitFailed(kind) ==
    /\ requests[kind] > 0
    /\ Asserting(state = "SUBMITTING" /\ submitTimer = 0 /\ HasWork(queue, nowPlaying),
        /\ RetrySubmit(interval, Answered(kind))
        /\ accepted' \in {accepted, accepted \union Told(kind)}
        /\ UNCHANGED <<handshakeTimer, nowPlaying, queue, pending, body,
                       announced, plays>>
        /\ GoesOn)

(* scrobbler_submit_response, AS_SUBMIT_HANDSHAKE: the session is no good. *)
SubmitBadSession(kind) ==
    /\ requests[kind] > 0
    /\ Asserting(state = "SUBMITTING" /\ handshakeTimer = 0,
        /\ AwaitHandshake(interval, Answered(kind))
        /\ UNCHANGED <<submitTimer, nowPlaying, queue, pending, body, announced,
                       plays, accepted>>
        /\ GoesOn)

Posts == {"batch", "nowplaying"}

Next ==
    \/ SongChange
    \/ \E record \in Songs \union Untitled : NowPlaying(record)
    \/ HandshakeTimer
    \/ HandshakeOK
    \/ HandshakeFailed
    \/ SubmitTimer
    \/ \E kind \in Posts : SubmitOK(kind)
    \/ \E kind \in Posts : SubmitFailed(kind)
    \/ \E kind \in Posts : SubmitBadSession(kind)

Spec == Init /\ [][Next]_vars

(* The main loop serves every timer that is due, and the network and the   *)
(* server are good infinitely often: a request that is tried again and     *)
(* again is one day started, and one day answered OK.                      *)
Fairness ==
    /\ SF_vars(HandshakeTimer /\ state' = "HANDSHAKE")
    /\ SF_vars(HandshakeOK)
    /\ SF_vars(SubmitTimer /\ state' = "SUBMITTING")
    /\ SF_vars(\E kind \in Posts : SubmitOK(kind))

FairSpec == Spec /\ Fairness

-----------------------------------------------------------------------------
(* The values the variables take; the interval is 1 or a value reached     *)
(* from 60 by doubling, never above two hours.                             *)
Intervals == {1, 60, 120, 240, 480, 960, 1920, 3840, 7200}

TypeOK ==
    /\ state \in States
    /\ interval \in Intervals
    /\ handshakeTimer \in Intervals \union {0}
    /\ submitTimer \in Intervals \union {0}
    /\ nowPlaying \in Songs \union Untitled \union {NoSong}
    /\ queue \in Seq(Nat)
    /\ pending \in 0 .. MaxSubmit
    /\ requests \in [Kinds -> Nat]
    /\ body \in Seq(Nat)
    /\ announced \in Songs \union {NoSong}
    /\ plays \in Nat
    /\ accepted \subseteq Nat
    /\ aborted \in BOOLEAN /\ toldTwice \in BOOLEAN

(* Exactly one thing will move the session on: the state tells which       *)
(* request is under way, and there is never a second one; the handshake    *)
(* timer runs exactly while there is no session, the submit timer only     *)
(* while the session is idle.                                              *)
OneThingUnderWay ==
    /\ (handshakeTimer # 0) <=> (state = "NOTHING")
    /\ submitTimer # 0 => state = "READY"
    /\ requests["handshake"] = IF state = "HANDSHAKE" THEN 1 ELSE 0
    /\ requests["batch"] + requests["nowplaying"] = IF state = "SUBMITTING" THEN 1 ELSE 0

(* A session with something to submit never sleeps: when it is ready, the  *)
(* submit timer runs; and it runs only when there is something to submit.  *)
NoLostWakeup ==
    state = "READY" => (submitTimer # 0 <=> HasWork(queue, nowPlaying))

(* While a batch is under way, `pending' counts exactly its songs, and     *)
(* they are still the oldest of the queue, so that the answer OK removes   *)
(* what was posted; while a now-playing notification is, nothing is        *)
(* pending, so that the answer OK removes no song.                         *)
PendingIsPosted ==
    /\ requests["batch"] > 0 =>
         /\ pending = Len(body) /\ pending > 0
         /\ \A i \in 1 .. pending : body[i] = queue[i]
    /\ requests["nowplaying"] > 0 => pending = 0
    /\ pending <= Len(queue)

(* The back-off of past failures is never left behind on an idle session,  *)
(* where it would delay the next song by up to two hours although the      *)
(* server is well.                                                         *)
IdleIsHealthy ==
    state = "READY" /\ submitTimer = 0 => interval = 1

(* The asserts of the callbacks fail in one case only: the HTTP client has *)
(* told of the failure of one request twice.                               *)
AssertionsHold == aborted => toldTwice

(* No play is lost, and the server never hears of a play before an earlier *)
(* one: the scrobbler implements the delivery it promises.                 *)
Delivery == INSTANCE ScrobbleDelivery WITH forgotten <- plays - Len(queue)
DeliverySpec == Delivery!Spec

(* Every play reaches the server and leaves the queue, unless mpdcron      *)
(* comes to the end that AssertionsHold speaks of.                         *)
EveryPlayScrobbled ==
    \A p \in 1 .. MaxPlays :
        plays >= p ~> \/ p \in accepted /\ p \notin ToSet(queue)
                     \/ toldTwice

=============================================================================
