------------------------- MODULE ScrobblerSubmitProofs -------------------------
(***************************************************************************)
(* What is proved of ScrobblerSubmit for every set of records, every batch *)
(* size and every number of plays.                                         *)
(***************************************************************************)
EXTENDS ScrobblerSubmit, SequenceTheorems, TLAPS

USE MaxSubmitAssumption

-----------------------------------------------------------------------------
(* Facts about the helpers. *)

(* scrobbler_increase_interval stays among the nine intervals and never    *)
(* yields 0, which would read as "no timer". *)
LEMMA IncreaseInterval ==
    ASSUME NEW i \in Intervals
    PROVE  Increase(i) \in Intervals \ {0, 1}
BY DEF Increase, Intervals

(* A chunk of a queue that is not empty is a prefix of it of one to        *)
(* MaxSubmit songs. *)
LEMMA ChunkIsPrefix ==
    ASSUME NEW q \in Seq(Nat), q # <<>>
    PROVE  /\ Chunk(q) \in Seq(Nat)
           /\ PendingCount(q) = Len(Chunk(q))
           /\ Len(Chunk(q)) \in 1 .. MaxSubmit
           /\ Len(Chunk(q)) <= Len(q)
           /\ Chunk(q) = SubSeq(q, 1, Len(Chunk(q)))
<1> DEFINE n == IF Len(q) < MaxSubmit THEN Len(q) ELSE MaxSubmit
<1>1. Len(q) \in Nat /\ Len(q) >= 1
  OBVIOUS
<1>2. n \in 1 .. MaxSubmit /\ n <= Len(q)
  BY <1>1
<1>3. SubSeq(q, 1, n) \in Seq(Nat) /\ Len(SubSeq(q, 1, n)) = n
  BY <1>1, <1>2
<1>4. Chunk(q) = SubSeq(q, 1, n)
  BY DEF Chunk
<1> QED
  BY <1>2, <1>3, <1>4 DEF PendingCount

(* Removing the oldest songs leaves the rest of the queue. *)
LEMMA RemoveOldestLeavesRest ==
    ASSUME NEW q \in Seq(Nat), NEW count \in Nat, count <= Len(q)
    PROVE  /\ RemoveOldest(q, count) \in Seq(Nat)
           /\ Len(RemoveOldest(q, count)) = Len(q) - count
           /\ \A i \in 1 .. Len(q) - count : RemoveOldest(q, count)[i] = q[count + i]
<1>1. Len(q) \in Nat /\ \A i \in (count + 1) .. Len(q) : q[i] \in Nat
  OBVIOUS
<1>2. /\ SubSeq(q, count + 1, Len(q)) \in Seq(Nat)
      /\ Len(SubSeq(q, count + 1, Len(q))) = Len(q) - count
      /\ \A i \in 1 .. Len(q) - count : SubSeq(q, count + 1, Len(q))[i] = q[count + i]
  BY <1>1, SubSeqProperties
<1> QED
  BY <1>2 DEF RemoveOldest

-----------------------------------------------------------------------------
(* The inductive invariant.                                                *)

(* The queue holds the last plays, in the order they were played. *)
Ordered ==
    /\ Len(queue) <= plays
    /\ \A i \in 1 .. Len(queue) : queue[i] = plays - Len(queue) + i

(* Holds whatever is announced. *)
Safe == TypeOK /\ OneThingUnderWay /\ PendingIsPosted /\ Ordered

(* A now-playing notification is under way only for a record that is still *)
(* there to be cleared, though maybe another one by now. *)
StillAnnounced == requests["nowplaying"] > 0 => Defined(nowPlaying)

(* Holds when every announced song has a title. *)
Awake == NoLostWakeup /\ IdleIsHealthy /\ AssertionsHold /\ StillAnnounced

NothingUnderWay(r) == r \in [Kinds -> Nat] /\ \A kind \in Kinds : r[kind] = 0

(* What a POST leaves, whether it is under way or failed at once. *)
LEMMA PostEffect ==
    ASSUME NEW kind \in {"batch", "nowplaying"}, NEW delay \in Intervals,
           NEW left, NothingUnderWay(left),
           Post(kind, delay, left)
    PROVE  /\ state' \in {"READY", "SUBMITTING"}
           /\ interval' \in Intervals
           /\ submitTimer' \in Intervals \union {0}
           /\ submitTimer' # 0 <=> state' = "READY"
           /\ requests' \in [Kinds -> Nat]
           /\ requests'["handshake"] = 0
           /\ requests'[kind] = IF state' = "SUBMITTING" THEN 1 ELSE 0
           /\ \A other \in Kinds \ {kind} : requests'[other] = 0
<1>1. CASE RetrySubmit(delay, left)
  BY <1>1, IncreaseInterval
     DEF RetrySubmit, RetryDelay, NothingUnderWay, Kinds
<1>2. CASE /\ state' = "SUBMITTING"
           /\ requests' = [left EXCEPT ![kind] = @ + 1]
           /\ interval' = delay
           /\ submitTimer' = 0
  BY <1>2 DEF NothingUnderWay, Kinds
<1> QED
  BY <1>1, <1>2 DEF Post

(* A request that cannot be started ends mpdcron only when it is reported  *)
(* twice. *)
LEMMA RequestFailsEnds ==
    ASSUME aborted \in BOOLEAN, toldTwice \in BOOLEAN, ~aborted,
           GoesOn \/ RequestFails
    PROVE  /\ aborted' \in BOOLEAN
           /\ toldTwice' \in BOOLEAN
           /\ aborted' => toldTwice'
<1>1. CASE GoesOn
  <2>1. aborted' = aborted /\ toldTwice' = toldTwice
    BY <1>1 DEF GoesOn
  <2> QED
    BY <2>1, Zenon
<1>2. CASE aborted' = TRUE /\ toldTwice' = TRUE
  BY <1>2, Zenon
<1> QED
  BY <1>1, <1>2 DEF RequestFails

LEMMA SubmitEnds ==
    ASSUME aborted \in BOOLEAN, toldTwice \in BOOLEAN, ~aborted,
           NEW q, NEW np, NEW count, NEW delay, NEW left,
           Submit(q, np, count, delay, left)
    PROVE  /\ aborted' \in BOOLEAN
           /\ toldTwice' \in BOOLEAN
           /\ aborted' => toldTwice'
<1>1. GoesOn \/ RequestFails
  BY Zenon DEF Submit, Post
<1> QED
  BY <1>1, RequestFailsEnds

(* What scrobbler_submit leaves when no other request is under way. *)
LEMMA SubmitEffect ==
    ASSUME NEW q \in Seq(Nat), NEW np \in Songs \union Untitled \union {NoSong},
           NEW count \in 0 .. MaxSubmit, count <= Len(q),
           NEW delay \in Intervals,
           NEW left, NothingUnderWay(left),
           body \in Seq(Nat), announced \in Songs \union {NoSong},
           Submit(q, np, count, delay, left)
    PROVE  /\ state' \in {"READY", "SUBMITTING"}
           /\ interval' \in Intervals
           /\ submitTimer' \in Intervals \union {0}
           /\ submitTimer' # 0 => state' = "READY"
           /\ pending' \in 0 .. MaxSubmit /\ pending' <= Len(q)
           /\ requests' \in [Kinds -> Nat]
           /\ requests'["handshake"] = 0
           /\ requests'["batch"] + requests'["nowplaying"]
                = IF state' = "SUBMITTING" THEN 1 ELSE 0
           /\ body' \in Seq(Nat)
           /\ announced' \in Songs \union {NoSong}
           /\ requests'["batch"] > 0 =>
                /\ pending' = Len(body') /\ pending' > 0
                /\ \A i \in 1 .. pending' : body'[i] = q[i]
           /\ requests'["nowplaying"] > 0 => pending' = 0 /\ Defined(np)
           /\ state' = "READY" => (submitTimer' # 0 <=> HasWork(q, np))
           /\ submitTimer' = 0 => interval' = delay
<1>1. CASE /\ ~HasWork(q, np)
           /\ state' = "READY" /\ interval' = delay /\ submitTimer' = 0
           /\ requests' = left
           /\ pending' = count
           /\ UNCHANGED <<body, announced>>
  BY <1>1 DEF NothingUnderWay, Kinds
<1>2. CASE /\ q = <<>> /\ Defined(np)
           /\ announced' = np
           /\ pending' = count
           /\ Post("nowplaying", delay, left)
           /\ UNCHANGED body
  <2>1. count = 0
    BY <1>2
  <2>2. np \in Songs
    BY <1>2 DEF Defined
  <2>3. submitTimer' = 0 => interval' = delay
    BY <1>2, IncreaseInterval DEF Post, RetrySubmit, RetryDelay
  <2> QED
    BY <1>2, <2>1, <2>2, <2>3, PostEffect DEF Kinds, HasWork
<1>3. CASE /\ q # <<>>
           /\ body' = Chunk(q)
           /\ pending' = PendingCount(q)
           /\ Post("batch", delay, left)
           /\ UNCHANGED announced
  <2>1. \A i \in 1 .. Len(Chunk(q)) : Chunk(q)[i] = q[i]
    BY <1>3, ChunkIsPrefix
  <2>2. submitTimer' = 0 => interval' = delay
    BY <1>3, IncreaseInterval DEF Post, RetrySubmit, RetryDelay
  <2> QED
    BY <1>3, <2>1, <2>2, PostEffect, ChunkIsPrefix DEF Kinds, HasWork
<1> QED
  BY <1>1, <1>2, <1>3 DEF Submit

(* An aborting assert changes nothing that Safe talks about.               *)
LEMMA AbortIsSafe ==
    ASSUME Safe, aborted' = TRUE,
           UNCHANGED <<state, interval, timers, nowPlaying, queue, pending,
                       requests, body, announced, plays, accepted, toldTwice>>
    PROVE  Safe'
BY DEF Safe, TypeOK, OneThingUnderWay, PendingIsPosted, Ordered, timers

(* After scrobbler_submit has run with the queue and the record that the   *)
(* callback leaves. *)
LEMMA SubmitIsSafe ==
    ASSUME Safe,
           queue' \in Seq(Nat), nowPlaying' \in Songs \union Untitled \union {NoSong},
           Ordered', plays' \in Nat, accepted' \subseteq Nat, ~aborted,
           handshakeTimer' = 0,
           NEW count \in 0 .. MaxSubmit, count <= Len(queue'),
           NEW delay \in Intervals,
           NEW left, NothingUnderWay(left),
           Submit(queue', nowPlaying', count, delay, left)
    PROVE  Safe'
<1>1. body \in Seq(Nat) /\ announced \in Songs \union {NoSong}
  BY DEF Safe, TypeOK
<1> DEFINE q == queue'
           np == nowPlaying'
<1>2. q \in Seq(Nat) /\ np \in Songs \union Untitled \union {NoSong} /\ count <= Len(q)
  OBVIOUS
<1>3. Submit(q, np, count, delay, left)
  OBVIOUS
<1> HIDE DEF q, np
<1>4. /\ state' \in {"READY", "SUBMITTING"}
      /\ interval' \in Intervals
      /\ submitTimer' \in Intervals \union {0}
      /\ submitTimer' # 0 => state' = "READY"
      /\ pending' \in 0 .. MaxSubmit /\ pending' <= Len(q)
      /\ requests' \in [Kinds -> Nat]
      /\ requests'["handshake"] = 0
      /\ requests'["batch"] + requests'["nowplaying"]
           = IF state' = "SUBMITTING" THEN 1 ELSE 0
      /\ body' \in Seq(Nat)
      /\ announced' \in Songs \union {NoSong}
      /\ requests'["batch"] > 0 =>
           /\ pending' = Len(body') /\ pending' > 0
           /\ \A i \in 1 .. pending' : body'[i] = q[i]
      /\ requests'["nowplaying"] > 0 => pending' = 0
  BY <1>1, <1>2, <1>3, SubmitEffect
<1> USE DEF q, np
<1>a. aborted' \in BOOLEAN /\ toldTwice' \in BOOLEAN
  BY SubmitEnds DEF Safe, TypeOK
<1>5. TypeOK'
  BY <1>4, <1>a DEF TypeOK, States
<1>6. OneThingUnderWay'
  BY <1>4 DEF OneThingUnderWay
<1>7. PendingIsPosted'
  BY <1>4 DEF PendingIsPosted
<1> QED
  BY <1>5, <1>6, <1>7 DEF Safe

(* Which requests are left when the only one under way was answered. *)
LEMMA AnsweredLeavesNothing ==
    ASSUME TypeOK, OneThingUnderWay, NEW kind \in Kinds, requests[kind] > 0
    PROVE  /\ NothingUnderWay(Answered(kind))
           /\ state = IF kind = "handshake" THEN "HANDSHAKE" ELSE "SUBMITTING"
           /\ handshakeTimer = 0
           /\ submitTimer = 0
BY DEF TypeOK, OneThingUnderWay, NothingUnderWay, Answered, Kinds, States

LEMMA InitIsSafe ==
    ASSUME Init
    PROVE  Safe
<1>1. plays \in Nat /\ queue \in Seq(Nat) /\ Len(queue) = plays
  BY BoundsAssumption DEF Init
<1>2. body \in Seq(Nat) /\ requests \in [Kinds -> Nat]
  BY DEF Init
<1>3. aborted \in BOOLEAN /\ toldTwice \in BOOLEAN
  BY DEF Init
<1>4. TypeOK
  BY <1>1, <1>2, <1>3 DEF Init, TypeOK, States, Intervals
<1>5. OneThingUnderWay /\ PendingIsPosted
  BY <1>1 DEF Init, OneThingUnderWay, PendingIsPosted, Kinds
<1>6. Ordered
  BY <1>1 DEF Init, Ordered
<1> QED
  BY <1>4, <1>5, <1>6 DEF Safe

LEMMA SongChangeIsSafe ==
    ASSUME Safe, SongChange
    PROVE  Safe'
<1>1. /\ queue' = Append(queue, plays + 1)
      /\ queue \in Seq(Nat) /\ plays \in Nat /\ plays' = plays + 1
  BY DEF SongChange, Safe, TypeOK
<1>2. /\ queue' \in Seq(Nat)
      /\ Len(queue') = Len(queue) + 1
      /\ \A i \in 1 .. Len(queue) : queue'[i] = queue[i]
      /\ queue'[Len(queue) + 1] = plays + 1
  BY <1>1
<1>3. TypeOK'
  BY <1>1, <1>2 DEF Safe, TypeOK, SongChange
<1>4. OneThingUnderWay'
  BY DEF Safe, TypeOK, OneThingUnderWay, SongChange, MaySchedule
<1>5. PendingIsPosted'
  BY <1>1, <1>2 DEF Safe, TypeOK, PendingIsPosted, SongChange
<1>6. Ordered'
  BY <1>1, <1>2 DEF Safe, Ordered
<1> QED
  BY <1>3, <1>4, <1>5, <1>6 DEF Safe

LEMMA NowPlayingIsSafe ==
    ASSUME Safe, NEW record \in Songs \union Untitled, NowPlaying(record)
    PROVE  Safe'
<1>1. CASE aborted' = TRUE /\ UNCHANGED <<state, interval, timers, nowPlaying, queue,
             pending, requests, body, announced, plays, accepted, toldTwice>>
  BY <1>1, AbortIsSafe
<1>2. CASE /\ nowPlaying' = record
           /\ submitTimer' = IF MaySchedule THEN interval ELSE submitTimer
           /\ UNCHANGED <<state, interval, handshakeTimer, queue, pending,
                          requests, body, announced, plays, accepted>>
           /\ GoesOn
  BY <1>2 DEF Safe, TypeOK, OneThingUnderWay, PendingIsPosted, Ordered, MaySchedule, GoesOn
<1> QED
  BY <1>1, <1>2 DEF NowPlaying, Asserting

LEMMA HandshakeTimerIsSafe ==
    ASSUME Safe, HandshakeTimer
    PROVE  Safe'
<1>1. CASE aborted' = TRUE /\ UNCHANGED <<state, interval, timers, nowPlaying, queue,
             pending, requests, body, announced, plays, accepted, toldTwice>>
  BY <1>1, AbortIsSafe
<1>2. CASE /\ state' = "HANDSHAKE"
           /\ handshakeTimer' = 0
           /\ requests' = [requests EXCEPT !["handshake"] = @ + 1]
           /\ UNCHANGED <<interval, submitTimer, nowPlaying, queue, pending, body,
                          announced, plays, accepted>>
           /\ GoesOn
           /\ state = "NOTHING"
  BY <1>2 DEF GoesOn, Safe, TypeOK, OneThingUnderWay, PendingIsPosted, Ordered, States, Kinds
<1>3. CASE /\ AwaitHandshake(Increase(interval), requests) /\ RequestFails
           /\ UNCHANGED <<submitTimer, nowPlaying, queue, pending, body, announced,
                          plays, accepted>>
           /\ state = "NOTHING"
  <2>1. aborted' \in BOOLEAN /\ toldTwice' \in BOOLEAN
    BY <1>3, RequestFailsEnds DEF HandshakeTimer, Asserting, Safe, TypeOK
  <2> QED
  BY <1>3, <2>1, IncreaseInterval
     DEF Safe, TypeOK, OneThingUnderWay, PendingIsPosted, Ordered, States, AwaitHandshake
<1> QED
  BY <1>1, <1>2, <1>3 DEF HandshakeTimer, Asserting

LEMMA HandshakeOKIsSafe ==
    ASSUME Safe, HandshakeOK
    PROVE  Safe'
<1>1. CASE aborted' = TRUE /\ UNCHANGED <<state, interval, timers, nowPlaying, queue,
             pending, requests, body, announced, plays, accepted, toldTwice>>
  BY <1>1, AbortIsSafe
<1>2. CASE /\ Submit(queue, nowPlaying, pending, 1, Answered("handshake"))
           /\ UNCHANGED <<handshakeTimer, nowPlaying, queue, plays, accepted>>
           /\ ~aborted
  <2>1. NothingUnderWay(Answered("handshake")) /\ handshakeTimer = 0
    BY AnsweredLeavesNothing DEF Safe, HandshakeOK, Kinds
  <2>2. Submit(queue', nowPlaying', pending, 1, Answered("handshake"))
    BY <1>2
  <2> QED
    BY <1>2, <2>1, <2>2, SubmitIsSafe
       DEF Safe, TypeOK, PendingIsPosted, Ordered, Intervals
<1> QED
  BY <1>1, <1>2 DEF HandshakeOK, Asserting

LEMMA HandshakeFailedIsSafe ==
    ASSUME Safe, HandshakeFailed
    PROVE  Safe'
<1>1. CASE aborted' = TRUE /\ UNCHANGED <<state, interval, timers, nowPlaying, queue,
             pending, requests, body, announced, plays, accepted, toldTwice>>
  BY <1>1, AbortIsSafe
<1>2. CASE /\ AwaitHandshake(Increase(interval), Answered("handshake"))
           /\ UNCHANGED <<submitTimer, nowPlaying, queue, pending, body, announced,
                          plays, accepted>>
           /\ GoesOn
  <2>1. NothingUnderWay(Answered("handshake")) /\ submitTimer = 0
    BY AnsweredLeavesNothing DEF Safe, HandshakeFailed, Kinds
  <2>2. aborted' \in BOOLEAN /\ toldTwice' \in BOOLEAN
    BY <1>2 DEF Safe, TypeOK, GoesOn
  <2>3. Increase(interval) \in Intervals \ {0}
    BY IncreaseInterval DEF Safe, TypeOK
  <2>4. TypeOK'
    BY <1>2, <2>1, <2>2, <2>3 DEF Safe, TypeOK, States, AwaitHandshake, NothingUnderWay
  <2>5. OneThingUnderWay'
    BY <1>2, <2>1, <2>3 DEF OneThingUnderWay, AwaitHandshake, NothingUnderWay, Kinds
  <2>6. PendingIsPosted' /\ Ordered'
    BY <1>2, <2>1
       DEF Safe, PendingIsPosted, Ordered, AwaitHandshake, NothingUnderWay, Kinds
  <2> QED
    BY <2>4, <2>5, <2>6 DEF Safe
<1> QED
  BY <1>1, <1>2 DEF HandshakeFailed, Asserting

LEMMA SubmitTimerIsSafe ==
    ASSUME Safe, SubmitTimer
    PROVE  Safe'
<1>1. CASE aborted' = TRUE /\ UNCHANGED <<state, interval, timers, nowPlaying, queue,
             pending, requests, body, announced, plays, accepted, toldTwice>>
  BY <1>1, AbortIsSafe
<1>2. CASE /\ state = "READY"
           /\ Submit(queue, nowPlaying, pending, interval, requests)
           /\ UNCHANGED <<handshakeTimer, nowPlaying, queue, plays, accepted>>
           /\ ~aborted
  <2>1. NothingUnderWay(requests) /\ handshakeTimer = 0
    BY <1>2 DEF Safe, TypeOK, OneThingUnderWay, NothingUnderWay, Kinds
  <2>2. Submit(queue', nowPlaying', pending, interval, requests)
    BY <1>2
  <2> QED
    BY <1>2, <2>1, <2>2, SubmitIsSafe DEF Safe, TypeOK, PendingIsPosted, Ordered
<1> QED
  BY <1>1, <1>2 DEF SubmitTimer, Asserting

(* What the server is told are plays. *)
LEMMA ToldArePlays ==
    ASSUME TypeOK, NEW kind
    PROVE  Told(kind) \subseteq Nat
BY DEF TypeOK, Told, ToSet

LEMMA SubmitOKIsSafe ==
    ASSUME Safe, NEW kind \in Posts, SubmitOK(kind)
    PROVE  Safe'
<1>1. CASE aborted' = TRUE /\ UNCHANGED <<state, interval, timers, nowPlaying, queue,
             pending, requests, body, announced, plays, accepted, toldTwice>>
  BY <1>1, AbortIsSafe
<1>2. CASE /\ IF pending > 0 THEN pending <= Len(queue) ELSE Defined(nowPlaying)
           /\ queue' = IF pending > 0 THEN RemoveOldest(queue, pending) ELSE queue
           /\ nowPlaying' = IF pending > 0 THEN nowPlaying ELSE NoSong
           /\ Submit(queue', nowPlaying', 0, AfterSuccess(interval), Answered(kind))
           /\ accepted' = accepted \union Told(kind)
           /\ UNCHANGED <<handshakeTimer, plays>>
           /\ ~aborted
  <2>1. NothingUnderWay(Answered(kind)) /\ handshakeTimer' = 0
    BY <1>2, AnsweredLeavesNothing DEF Safe, SubmitOK, Kinds, Posts
  <2>2. queue' \in Seq(Nat) /\ Ordered'
    <3>1. CASE pending > 0
      <4>1. /\ queue' = RemoveOldest(queue, pending) /\ plays' = plays
            /\ queue \in Seq(Nat) /\ pending \in Nat /\ plays \in Nat
            /\ pending <= Len(queue)
        BY <1>2, <3>1 DEF Safe, TypeOK
      <4>2. /\ queue' \in Seq(Nat)
            /\ Len(queue') = Len(queue) - pending
            /\ \A i \in 1 .. Len(queue) - pending : queue'[i] = queue[pending + i]
        BY <4>1, RemoveOldestLeavesRest
      <4>3. \A i \in 1 .. Len(queue') : queue[pending + i] = plays - Len(queue) + (pending + i)
        BY <4>1, <4>2 DEF Safe, Ordered
      <4> QED
        BY <4>1, <4>2, <4>3 DEF Safe, Ordered
    <3>2. CASE pending = 0
      BY <1>2, <3>2 DEF Safe, TypeOK, Ordered
    <3> QED
      BY <3>1, <3>2 DEF Safe, TypeOK
  <2>3. nowPlaying' \in Songs \union Untitled \union {NoSong}
    BY <1>2 DEF Safe, TypeOK
  <2>4. accepted' \subseteq Nat /\ plays' \in Nat
    BY <1>2, ToldArePlays DEF Safe, TypeOK
  <2>5. AfterSuccess(interval) \in Intervals
    BY DEF AfterSuccess, Intervals
  <2>6. 0 \in 0 .. MaxSubmit /\ 0 <= Len(queue')
    BY <2>2
  <2> QED
    BY <1>2, <2>1, <2>2, <2>3, <2>4, <2>5, <2>6, SubmitIsSafe
<1> QED
  BY <1>1, <1>2 DEF SubmitOK, Asserting

LEMMA SubmitFailedIsSafe ==
    ASSUME Safe, NEW kind \in Posts, SubmitFailed(kind)
    PROVE  Safe'
<1>1. CASE aborted' = TRUE /\ UNCHANGED <<state, interval, timers, nowPlaying, queue,
             pending, requests, body, announced, plays, accepted, toldTwice>>
  BY <1>1, AbortIsSafe
<1>2. CASE /\ RetrySubmit(interval, Answered(kind))
           /\ accepted' \in {accepted, accepted \union Told(kind)}
           /\ UNCHANGED <<handshakeTimer, nowPlaying, queue, pending, body,
                          announced, plays>>
           /\ GoesOn
  <2>1. NothingUnderWay(Answered(kind)) /\ handshakeTimer = 0
    BY AnsweredLeavesNothing DEF Safe, SubmitFailed, Kinds, Posts
  <2>2. accepted' \subseteq Nat
    BY <1>2, ToldArePlays DEF Safe, TypeOK
  <2> QED
    BY <1>2, <2>1, <2>2, IncreaseInterval
       DEF Safe, TypeOK, OneThingUnderWay, PendingIsPosted, Ordered, States,
           RetrySubmit, RetryDelay, NothingUnderWay, Kinds, GoesOn
<1> QED
  BY <1>1, <1>2 DEF SubmitFailed, Asserting

LEMMA SubmitBadSessionIsSafe ==
    ASSUME Safe, NEW kind \in Posts, SubmitBadSession(kind)
    PROVE  Safe'
<1>1. CASE aborted' = TRUE /\ UNCHANGED <<state, interval, timers, nowPlaying, queue,
             pending, requests, body, announced, plays, accepted, toldTwice>>
  BY <1>1, AbortIsSafe
<1>2. CASE /\ AwaitHandshake(interval, Answered(kind))
           /\ UNCHANGED <<submitTimer, nowPlaying, queue, pending, body, announced,
                          plays, accepted>>
           /\ GoesOn
  <2>1. NothingUnderWay(Answered(kind)) /\ submitTimer = 0
    BY AnsweredLeavesNothing DEF Safe, SubmitBadSession, Kinds, Posts
  <2>2. interval \in Intervals \ {0}
    BY DEF Safe, TypeOK, Intervals
  <2> QED
    BY <1>2, <2>1, <2>2
       DEF Safe, TypeOK, OneThingUnderWay, PendingIsPosted, Ordered, States,
           AwaitHandshake, NothingUnderWay, Kinds, GoesOn
<1> QED
  BY <1>1, <1>2 DEF SubmitBadSession, Asserting

LEMMA StutterIsSafe ==
    ASSUME Safe, UNCHANGED vars
    PROVE  Safe'
BY DEF Safe, TypeOK, OneThingUnderWay, PendingIsPosted, Ordered, vars, timers

LEMMA NextIsSafe ==
    ASSUME Safe, [Next]_vars
    PROVE  Safe'
BY SongChangeIsSafe, NowPlayingIsSafe, HandshakeTimerIsSafe, HandshakeOKIsSafe,
   HandshakeFailedIsSafe, SubmitTimerIsSafe, SubmitOKIsSafe, SubmitFailedIsSafe,
   SubmitBadSessionIsSafe, StutterIsSafe
   DEF Next

(* scrobbler-submit.c: whatever is announced, one thing is under way, what *)
(* is pending is posted, and the queue is the last plays in their order.   *)
THEOREM SafeAlways == Spec => []Safe
BY InitIsSafe, NextIsSafe, PTL DEF Spec

(* Every variable keeps its type, for every batch size and journal.        *)
THEOREM TypeAlwaysOK == Spec => []TypeOK
BY SafeAlways, PTL DEF Safe

(* There is always exactly one thing that will move the session on: a      *)
(* timer or a request, as the state says (scrobbler->state,                *)
(* handshake_source_id, submit_source_id).                                 *)
THEOREM AlwaysOneThingUnderWay == Spec => []OneThingUnderWay
BY SafeAlways, PTL DEF Safe

(* An answer OK removes from the queue exactly the songs that were posted. *)
THEOREM PendingIsAlwaysPosted == Spec => []PendingIsPosted
BY SafeAlways, PTL DEF Safe

-----------------------------------------------------------------------------
(* With a title in every announced song, no wake-up is lost, and no assert *)
(* fails but for a failure that is reported twice.                         *)

LEMMA SubmitStaysAwake ==
    ASSUME Safe,
           queue' \in Seq(Nat), nowPlaying' \in Songs \union Untitled \union {NoSong},
           ~aborted,
           NEW count \in 0 .. MaxSubmit, count <= Len(queue'),
           NEW delay \in Intervals, HasWork(queue', nowPlaying') \/ delay = 1,
           NEW left, NothingUnderWay(left),
           Submit(queue', nowPlaying', count, delay, left)
    PROVE  Awake'
<1> DEFINE q == queue'
           np == nowPlaying'
<1>1. body \in Seq(Nat) /\ announced \in Songs \union {NoSong}
  BY DEF Safe, TypeOK
<1>2. q \in Seq(Nat) /\ np \in Songs \union Untitled \union {NoSong} /\ count <= Len(q)
  OBVIOUS
<1>3. Submit(q, np, count, delay, left)
  OBVIOUS
<1> HIDE DEF q, np
<1>4. /\ requests'["nowplaying"] > 0 => Defined(np)
      /\ state' = "READY" => (submitTimer' # 0 <=> HasWork(q, np))
      /\ submitTimer' = 0 => interval' = delay
  BY <1>1, <1>2, <1>3, SubmitEffect
<1> USE DEF q, np
<1>a. aborted' => toldTwice'
  BY SubmitEnds DEF Safe, TypeOK
<1> QED
  BY <1>4, <1>a DEF Awake, NoLostWakeup, IdleIsHealthy, AssertionsHold, StillAnnounced,
              HasWork, Defined

LEMMA NextStaysAwake ==
    ASSUME Untitled = {}, Safe, Awake, Next
    PROVE  Awake'
<1> USE DEF Awake
<1>a. ~aborted /\ aborted \in BOOLEAN /\ toldTwice \in BOOLEAN
  BY DEF Safe, TypeOK, Next, SongChange, NowPlaying, HandshakeTimer, HandshakeOK,
         HandshakeFailed, SubmitTimer, SubmitOK, SubmitFailed, SubmitBadSession, Asserting
<1>b. GoesOn => AssertionsHold'
  BY <1>a DEF GoesOn, AssertionsHold
<1>1. CASE SongChange
  <2>1. queue' # <<>> /\ interval # 0 /\ GoesOn
    BY <1>1 DEF SongChange, Safe, TypeOK, Intervals, GoesOn
  <2> QED
    BY <1>1, <2>1, <1>b DEF SongChange, MaySchedule, NoLostWakeup, IdleIsHealthy,
                      StillAnnounced, HasWork
<1>2. ASSUME NEW record \in Songs \union Untitled, NowPlaying(record)
      PROVE  Awake'
  <2>1. Defined(record) /\ interval # 0
    BY <1>2 DEF Defined, Safe, TypeOK, Intervals
  <2>2. /\ UNCHANGED <<state, interval, queue, requests>> /\ GoesOn
        /\ nowPlaying' = record
        /\ submitTimer' = IF MaySchedule THEN interval ELSE submitTimer
    BY <1>2, <2>1 DEF NowPlaying, Asserting, HasWork
  <2> QED
    BY <2>1, <2>2, <1>b DEF MaySchedule, NoLostWakeup, IdleIsHealthy, StillAnnounced, HasWork
<1>3. CASE HandshakeTimer
  <2>1. state = "NOTHING"
    BY <1>3 DEF HandshakeTimer, Safe, OneThingUnderWay
  <2>2. /\ state' # "READY"
        /\ requests' \in {requests, [requests EXCEPT !["handshake"] = @ + 1]}
        /\ UNCHANGED nowPlaying
        /\ GoesOn \/ RequestFails
    BY <1>3, <2>1 DEF HandshakeTimer, Asserting, AwaitHandshake
  <2>3. AssertionsHold'
    BY <2>2, <1>a, RequestFailsEnds DEF AssertionsHold
  <2> QED
    BY <2>2, <2>3 DEF NoLostWakeup, IdleIsHealthy, StillAnnounced, Safe, TypeOK, Kinds
<1>4. CASE HandshakeOK
  <2>1. /\ NothingUnderWay(Answered("handshake"))
        /\ state = "HANDSHAKE" /\ submitTimer = 0
    BY <1>4, AnsweredLeavesNothing DEF HandshakeOK, Kinds, Safe
  <2>2. /\ Submit(queue', nowPlaying', pending, 1, Answered("handshake"))
        /\ UNCHANGED <<nowPlaying, queue>>
    BY <1>4, <2>1 DEF HandshakeOK, Asserting
  <2> QED
    BY <2>1, <2>2, <1>a, SubmitStaysAwake DEF Safe, TypeOK, PendingIsPosted, Intervals
<1>5. CASE HandshakeFailed
  <2>1. /\ NothingUnderWay(Answered("handshake"))
        /\ state = "HANDSHAKE" /\ handshakeTimer = 0
    BY <1>5, AnsweredLeavesNothing DEF HandshakeFailed, Kinds, Safe
  <2>2. GoesOn
    BY <1>5, <2>1 DEF HandshakeFailed, Asserting
  <2> QED
    BY <1>5, <2>1, <2>2, <1>b DEF HandshakeFailed, Asserting, AwaitHandshake, NoLostWakeup,
                      IdleIsHealthy, StillAnnounced, NothingUnderWay, Kinds
<1>6. CASE SubmitTimer
  <2>1. /\ state = "READY" /\ NothingUnderWay(requests)
        /\ HasWork(queue, nowPlaying)
    BY <1>6 DEF SubmitTimer, Safe, TypeOK, OneThingUnderWay, NothingUnderWay, Kinds,
                NoLostWakeup
  <2>2. /\ Submit(queue', nowPlaying', pending, interval, requests)
        /\ UNCHANGED <<nowPlaying, queue>>
    BY <1>6, <2>1 DEF SubmitTimer, Asserting
  <2> QED
    BY <2>1, <2>2, <1>a, SubmitStaysAwake DEF Safe, TypeOK, PendingIsPosted
<1>7. ASSUME NEW kind \in Posts, SubmitOK(kind)
      PROVE  Awake'
  <2>1. /\ NothingUnderWay(Answered(kind))
        /\ state = "SUBMITTING" /\ submitTimer = 0
    BY <1>7, AnsweredLeavesNothing DEF SubmitOK, Kinds, Posts, Safe
  <2>2. IF pending > 0 THEN pending <= Len(queue) ELSE Defined(nowPlaying)
    BY <1>7 DEF SubmitOK, Posts, Safe, TypeOK, PendingIsPosted, StillAnnounced
  <2>3. /\ queue' = IF pending > 0 THEN RemoveOldest(queue, pending) ELSE queue
        /\ nowPlaying' = IF pending > 0 THEN nowPlaying ELSE NoSong
        /\ Submit(queue', nowPlaying', 0, 1, Answered(kind))
    BY <1>7, <2>1, <2>2 DEF SubmitOK, Asserting, AfterSuccess
  <2>4. queue' \in Seq(Nat) /\ nowPlaying' \in Songs \union Untitled \union {NoSong}
    BY <2>2, <2>3, RemoveOldestLeavesRest DEF Safe, TypeOK
  <2>5. 0 \in 0 .. MaxSubmit /\ 0 <= Len(queue') /\ 1 \in Intervals
    BY <2>4 DEF Intervals
  <2> QED
    BY <2>1, <2>3, <2>4, <2>5, <1>a, SubmitStaysAwake
<1>8. ASSUME NEW kind \in Posts, SubmitFailed(kind)
      PROVE  Awake'
  <2>1. /\ NothingUnderWay(Answered(kind))
        /\ state = "SUBMITTING" /\ submitTimer = 0
    BY <1>8, AnsweredLeavesNothing DEF SubmitFailed, Kinds, Posts, Safe
  <2>2. HasWork(queue, nowPlaying)
    BY <1>8 DEF SubmitFailed, Posts, Safe, TypeOK, PendingIsPosted, StillAnnounced, HasWork
  <2>3. /\ RetrySubmit(interval, Answered(kind))
        /\ UNCHANGED <<nowPlaying, queue>> /\ GoesOn
    BY <1>8, <2>1, <2>2 DEF SubmitFailed, Asserting
  <2>4. Increase(interval) # 0
    BY IncreaseInterval DEF Safe, TypeOK
  <2> QED
    BY <2>1, <2>2, <2>3, <2>4, <1>b
       DEF RetrySubmit, RetryDelay, NoLostWakeup, IdleIsHealthy, StillAnnounced, HasWork,
           NothingUnderWay, Kinds
<1>9. ASSUME NEW kind \in Posts, SubmitBadSession(kind)
      PROVE  Awake'
  <2>1. /\ NothingUnderWay(Answered(kind))
        /\ state = "SUBMITTING" /\ handshakeTimer = 0
    BY <1>9, AnsweredLeavesNothing DEF SubmitBadSession, Kinds, Posts, Safe
  <2>2. GoesOn
    BY <1>9, <2>1 DEF SubmitBadSession, Asserting
  <2> QED
    BY <1>9, <2>1, <2>2, <1>b DEF SubmitBadSession, Asserting, AwaitHandshake, NoLostWakeup,
                      IdleIsHealthy, StillAnnounced, NothingUnderWay, Kinds
<1> QED
  BY <1>1, <1>2, <1>3, <1>4, <1>5, <1>6, <1>7, <1>8, <1>9 DEF Next

(* scrobbler-submit.c: when every song has a title, a session also never   *)
(* loses a wake-up and keeps no back-off when idle, and an assert fails    *)
(* only for a failure that was reported twice.                             *)
THEOREM AwakeAlways ==
    ASSUME Untitled = {}
    PROVE  Spec => []Awake
<1>1. Init => Awake
  BY DEF Init, Awake, NoLostWakeup, IdleIsHealthy, AssertionsHold, StillAnnounced, Kinds
<1>2. Safe /\ Awake /\ [Next]_vars => Awake'
  <2>1. ASSUME Awake, UNCHANGED vars
        PROVE  Awake'
    BY <2>1 DEF vars, timers, Awake, NoLostWakeup, IdleIsHealthy, AssertionsHold,
                StillAnnounced
  <2> QED
    BY <2>1, NextStaysAwake
<1> QED
  BY <1>1, <1>2, SafeAlways, PTL DEF Spec

(* A ready session with a song or a now-playing record to submit always    *)
(* has its submit timer armed (scrobbler_submit returns without arming one *)
(* when it finds nothing to do, and every later arrival arms it).          *)
THEOREM NeverLosesWakeup ==
    ASSUME Untitled = {}
    PROVE  Spec => []NoLostWakeup
BY AwakeAlways, PTL DEF Awake

(* An idle session never keeps the back-off of an earlier failure.         *)
THEOREM IdleIsAlwaysHealthy ==
    ASSUME Untitled = {}
    PROVE  Spec => []IdleIsHealthy
BY AwakeAlways, PTL DEF Awake

(* As long as every song that is announced has a title, an assert() of     *)
(* scrobbler-submit.c fails only when http_client_request has told of the  *)
(* failure of a request twice.                                             *)
THEOREM AssertionsAlwaysHold ==
    ASSUME Untitled = {}
    PROVE  Spec => []AssertionsHold
BY AwakeAlways, PTL DEF Awake

-----------------------------------------------------------------------------
(* ScrobblerSubmit implements ScrobbleDelivery. *)

Forgotten == plays - Len(queue)

(* While a batch is under way it holds the oldest plays that are kept.     *)
LEMMA BatchIsOldestPlays ==
    ASSUME Safe, requests["batch"] > 0
    PROVE  /\ pending \in 1 .. MaxSubmit
           /\ pending <= Len(queue)
           /\ Forgotten \in Nat
           /\ Forgotten + pending <= plays
           /\ Told("batch") = (Forgotten + 1) .. (Forgotten + pending)
<1>1. /\ pending = Len(body) /\ pending > 0 /\ pending \in 0 .. MaxSubmit
      /\ pending <= Len(queue) /\ queue \in Seq(Nat) /\ body \in Seq(Nat)
      /\ plays \in Nat /\ Len(queue) <= plays
      /\ \A i \in 1 .. pending : body[i] = queue[i]
      /\ \A i \in 1 .. Len(queue) : queue[i] = plays - Len(queue) + i
  BY DEF Safe, TypeOK, PendingIsPosted, Ordered
<1>2. \A i \in 1 .. pending : body[i] = Forgotten + i
  BY <1>1 DEF Forgotten
<1>3. Forgotten \in Nat /\ Forgotten + pending <= plays /\ pending \in 1 .. MaxSubmit
  BY <1>1 DEF Forgotten
<1>4. Told("batch") = {body[i] : i \in 1 .. pending}
  <2>1. DOMAIN body = 1 .. pending
    BY <1>1
  <2>2. Told("batch") = ToSet(body)
    BY DEF Told
  <2> QED
    BY <2>1, <2>2 DEF ToSet
<1>5. Told("batch") \subseteq (Forgotten + 1) .. (Forgotten + pending)
  BY <1>1, <1>2, <1>3, <1>4
<1>6. ASSUME NEW p \in (Forgotten + 1) .. (Forgotten + pending)
      PROVE  p \in Told("batch")
  <2>1. p - Forgotten \in 1 .. pending
    BY <1>3
  <2>2. body[p - Forgotten] = p
    BY <1>2, <1>3, <2>1
  <2> QED
    BY <1>4, <2>1, <2>2
<1> QED
  BY <1>1, <1>3, <1>5, <1>6

LEMMA InitImplementsDelivery ==
    ASSUME Init
    PROVE  Delivery!Init
<1>1. plays \in Nat /\ Len(queue) = plays
  BY BoundsAssumption DEF Init
<1> QED
  BY <1>1 DEF Init, Delivery!Init

(* A step that leaves the queue and the server alone is a stutter. *)
LEMMA QuietStep ==
    ASSUME UNCHANGED <<plays, queue, accepted>>
    PROVE  UNCHANGED Delivery!vars
BY DEF Delivery!vars

LEMMA SubmitOKImplementsScrobble ==
    ASSUME Safe, NEW kind \in Posts, SubmitOK(kind)
    PROVE  [Delivery!Next]_(Delivery!vars)
<1>1. CASE UNCHANGED <<plays, queue, accepted>>
  BY <1>1, QuietStep
<1>2. CASE /\ queue' = IF pending > 0 THEN RemoveOldest(queue, pending) ELSE queue
           /\ accepted' = accepted \union Told(kind)
           /\ UNCHANGED plays
  <2>1. CASE kind = "nowplaying"
    <3>1. pending = 0
      BY <2>1 DEF SubmitOK, Safe, TypeOK, PendingIsPosted, Kinds
    <3> QED
      BY <1>2, <2>1, <3>1, QuietStep DEF Told
  <2>2. CASE kind = "batch"
    <3>1. /\ pending \in 1 .. MaxSubmit /\ pending <= Len(queue)
          /\ Forgotten \in Nat
          /\ Forgotten + pending <= plays
          /\ Told("batch") = (Forgotten + 1) .. (Forgotten + pending)
      BY <2>2, BatchIsOldestPlays DEF SubmitOK
    <3>2. Len(queue') = Len(queue) - pending
      BY <1>2, <3>1, RemoveOldestLeavesRest DEF Safe, TypeOK
    <3>3. plays \in Nat /\ Len(queue) \in Nat /\ pending \in Nat /\ plays' = plays
      BY <1>2 DEF Safe, TypeOK
    <3>4. plays' - Len(queue') = (plays - Len(queue)) + pending
      BY <3>2, <3>3
    <3>5. Delivery!Scrobble(pending)
      BY <1>2, <2>2, <3>1, <3>4 DEF Delivery!Scrobble, Forgotten
    <3> QED
      BY <3>1, <3>5 DEF Delivery!Next
  <2> QED
    BY <2>1, <2>2 DEF Posts
<1> QED
  BY <1>1, <1>2 DEF SubmitOK, Asserting

LEMMA SubmitFailedImplementsScrobble ==
    ASSUME Safe, NEW kind \in Posts, SubmitFailed(kind)
    PROVE  [Delivery!Next]_(Delivery!vars)
<1>1. CASE UNCHANGED <<plays, queue, accepted>>
  BY <1>1, QuietStep
<1>2. CASE /\ accepted' = accepted \union Told(kind)
           /\ UNCHANGED <<plays, queue>>
  <2>1. CASE kind = "nowplaying"
    BY <1>2, <2>1, QuietStep DEF Told
  <2>2. CASE kind = "batch"
    <3>1. /\ pending \in 1 .. MaxSubmit
          /\ Forgotten + pending <= plays
          /\ Told("batch") = (Forgotten + 1) .. (Forgotten + pending)
      BY <2>2, BatchIsOldestPlays DEF SubmitFailed
    <3>2. Delivery!Scrobble(pending)
      BY <1>2, <2>2, <3>1 DEF Delivery!Scrobble, Forgotten
    <3> QED
      BY <3>1, <3>2 DEF Delivery!Next
  <2> QED
    BY <2>1, <2>2 DEF Posts
<1> QED
  BY <1>1, <1>2 DEF SubmitFailed, Asserting

LEMMA NextImplementsDelivery ==
    ASSUME Safe, [Next]_vars
    PROVE  [Delivery!Next]_(Delivery!vars)
<1>1. CASE SongChange
  <2>1. Len(queue') = Len(queue) + 1 /\ Len(queue) \in Nat /\ plays \in Nat
    BY <1>1 DEF SongChange, Safe, TypeOK
  <2>2. plays' - Len(queue') = plays - Len(queue)
    BY <1>1, <2>1 DEF SongChange
  <2> QED
    BY <1>1, <2>2 DEF SongChange, Delivery!Next, Delivery!Play
<1>2. ASSUME NEW record, NowPlaying(record)
      PROVE  [Delivery!Next]_(Delivery!vars)
  BY <1>2, QuietStep DEF NowPlaying, Asserting
<1>3. CASE HandshakeTimer \/ HandshakeOK \/ HandshakeFailed \/ SubmitTimer
  BY <1>3, QuietStep DEF HandshakeTimer, HandshakeOK, HandshakeFailed, SubmitTimer, Asserting
<1>4. ASSUME NEW kind \in Posts, SubmitBadSession(kind)
      PROVE  [Delivery!Next]_(Delivery!vars)
  BY <1>4, QuietStep DEF SubmitBadSession, Asserting
<1>5. CASE UNCHANGED vars
  BY <1>5, QuietStep DEF vars
<1> QED
  BY <1>1, <1>2, <1>3, <1>4, <1>5, SubmitOKImplementsScrobble,
     SubmitFailedImplementsScrobble DEF Next

(* Whatever is announced and however requests fail, the queue, the batches *)
(* and the removal after an answer OK deliver the plays in order and lose  *)
(* none.                                                                   *)
THEOREM ImplementsDelivery == Spec => DeliverySpec
<1>1. Init => Delivery!Init
  BY InitImplementsDelivery
<1>2. Safe /\ [Next]_vars => [Delivery!Next]_(Delivery!vars)
  BY NextImplementsDelivery
<1> QED
  BY <1>1, <1>2, SafeAlways, PTL DEF Spec, DeliverySpec, Delivery!Spec

=============================================================================
