-------------------------- MODULE ScrobblerJournalProofs --------------------------
(***************************************************************************)
(* What holds of the journals for any number of scrobblers and of plays,   *)
(* however often mpdcron is ended, killed and started.                     *)
(***************************************************************************)
EXTENDS ScrobblerJournal, SequenceTheorems, TLAPS

(* q holds plays out of 1 .. n, in their order. *)
Ordered(q, n) ==
    /\ q \in Seq(Nat)
    /\ \A i \in 1 .. Len(q) : q[i] \in 1 .. n
    /\ \A i, j \in 1 .. Len(q) : i < j => q[i] < q[j]

Has(q, p) == \E i \in 1 .. Len(q) : q[i] = p

(* f is what has been written of q, and u what has not. *)
Copy(f, u, q) ==
    /\ Len(f) + Len(u) = Len(q)
    /\ \A i \in 1 .. Len(f) : f[i] = q[i]
    /\ \A i \in 1 .. Len(u) : u[i] = q[Len(f) + i]

Types ==
    /\ process \in {"up", "stopping", "down"}
    /\ journal_file_empty \in {0, 1}
    /\ saving \in 0 .. Count /\ handle \in {"closed", "open"}
    /\ plays \in Nat
    /\ submitted \in [Scrobblers -> SUBSET (1 .. plays)]
    /\ mishap \in {"none", "killed", "unsaved"}
    /\ unread \in [Scrobblers -> SUBSET (1 .. plays)]

Queues ==
    /\ queue \in [Scrobblers -> Seq(Nat)] /\ file \in [Scrobblers -> Seq(Nat)]
    /\ unwritten \in Seq(Nat)
    /\ \A s \in Scrobblers : Ordered(queue[s], plays) /\ Ordered(file[s], plays)

(* A save under way has written a part of the queue, and nothing has come  *)
(* to the queue since. *)
Saving ==
    /\ handle = "open" => saving # 0 /\ Copy(file[saving], unwritten, queue[saving])
    /\ handle = "closed" => unwritten = <<>>
    /\ process = "down" => saving = 0
    /\ process = "stopping" => saving # 0

(* What is on disk, mpdcron still has or has submitted; or a start could   *)
(* not read it.                                                            *)
FileIsKept ==
    process # "down" =>
        \A s \in Scrobblers, p \in Nat :
            Has(file[s], p) => Has(queue[s], p) \/ p \in submitted[s] \/ p \in unread[s]

NoneLost ==
    mishap = "none" =>
        \A s \in Scrobblers, p \in 1 .. plays :
            \/ p \in submitted[s] \/ p \in unread[s]
            \/ process = "down" /\ Has(file[s], p)
            \/ process # "down" /\ Has(queue[s], p)

(* While mpdcron ends, the journals it is done with hold the queues. *)
Written ==
    process = "stopping" /\ mishap = "none" =>
        \A s \in Scrobblers : s > saving =>
            \A p \in Nat : Has(queue[s], p) => Has(file[s], p)

JournalInv == Types /\ Queues /\ Saving /\ FileIsKept /\ NoneLost /\ Written

-----------------------------------------------------------------------------
(* Queues. *)
LEMMA HasIsInSet ==
    ASSUME NEW q \in Seq(Nat)
    PROVE  \A p : Has(q, p) <=> p \in ToSet(q)
<1>1. DOMAIN q = 1 .. Len(q)
  BY LenProperties
<1> QED
  BY <1>1 DEF Has, ToSet

LEMMA EmptyIsOrdered == ASSUME NEW n \in Nat PROVE Ordered(<<>>, n) /\ \A p : ~ Has(<<>>, p)
BY DEF Ordered, Has

LEMMA OrderedIsTyped ==
    ASSUME NEW n \in Nat, NEW q, Ordered(q, n)
    PROVE  q \in Seq(1 .. n) /\ Chronological(q)
<1>1. q \in Seq(Nat) /\ Len(q) \in Nat /\ DOMAIN q = 1 .. Len(q)
  BY LenProperties DEF Ordered
<1>2. \A i \in 1 .. Len(q) : q[i] \in 1 .. n
  BY DEF Ordered
<1>3. SubSeq(q, 1, Len(q)) \in Seq(1 .. n)
  BY <1>1, <1>2, SubSeqProperties
<1>4. SubSeq(q, 1, Len(q)) = q
  BY <1>1, SubSeqFull
<1>5. Chronological(q)
  BY <1>1 DEF Ordered, Chronological
<1> QED
  BY <1>3, <1>4, <1>5

LEMMA OrderedGrows ==
    ASSUME NEW n \in Nat, NEW q, Ordered(q, n)
    PROVE  Ordered(q, n + 1)
BY DEF Ordered

LEMMA OrderedAppend ==
    ASSUME NEW n \in Nat, NEW q, Ordered(q, n)
    PROVE  /\ Ordered(Append(q, n + 1), n + 1)
           /\ \A p : Has(q, p) => Has(Append(q, n + 1), p)
           /\ Has(Append(q, n + 1), n + 1)
<1> DEFINE r == Append(q, n + 1)
<1>1. q \in Seq(Nat) /\ Len(q) \in Nat
  BY DEF Ordered
<1>2. r \in Seq(Nat) /\ Len(r) = Len(q) + 1 /\ r[Len(q) + 1] = n + 1
      /\ \A i \in 1 .. Len(q) : r[i] = q[i]
  BY <1>1
<1> HIDE DEF r
<1>3. \A i \in 1 .. Len(r) : r[i] \in 1 .. n + 1
  <2> SUFFICES ASSUME NEW i \in 1 .. Len(r) PROVE r[i] \in 1 .. n + 1
    OBVIOUS
  <2>1. CASE i = Len(q) + 1
    BY <1>2, <2>1
  <2>2. CASE i \in 1 .. Len(q)
    <3>1. q[i] \in 1 .. n
      BY <2>2 DEF Ordered
    <3> QED
      BY <1>2, <2>2, <3>1
  <2> QED
    BY <1>1, <1>2, <2>1, <2>2
<1>4. \A i, j \in 1 .. Len(r) : i < j => r[i] < r[j]
  <2> SUFFICES ASSUME NEW i \in 1 .. Len(r), NEW j \in 1 .. Len(r), i < j
               PROVE  r[i] < r[j]
    OBVIOUS
  <2>1. i \in 1 .. Len(q) /\ r[i] = q[i] /\ q[i] \in 1 .. n
    BY <1>1, <1>2 DEF Ordered
  <2>2. CASE j \in 1 .. Len(q)
    <3>1. q[i] < q[j]
      BY <2>1, <2>2 DEF Ordered
    <3>2. r[j] = q[j]
      BY <1>2, <2>2
    <3> QED
      BY <2>1, <3>1, <3>2
  <2>3. CASE j = Len(q) + 1
    BY <1>2, <2>1, <2>3
  <2>4. j \in 1 .. Len(q) \/ j = Len(q) + 1
    BY <1>1, <1>2
  <2> QED
    BY <2>2, <2>3, <2>4
<1>5. \A p : Has(q, p) => Has(r, p)
  BY <1>1, <1>2 DEF Has
<1>6. Has(r, n + 1)
  BY <1>1, <1>2 DEF Has
<1> QED
  BY <1>2, <1>3, <1>4, <1>5, <1>6 DEF Ordered, r

LEMMA OrderedRest ==
    ASSUME NEW n \in Nat, NEW q, Ordered(q, n), NEW k \in 1 .. Len(q)
    PROVE  /\ Ordered(SubSeq(q, k + 1, Len(q)), n)
           /\ ToSet(SubSeq(q, 1, k)) \subseteq 1 .. n
           /\ \A p : Has(q, p) => \/ Has(SubSeq(q, k + 1, Len(q)), p)
                                  \/ p \in ToSet(SubSeq(q, 1, k))
<1> DEFINE r == SubSeq(q, k + 1, Len(q))
           b == SubSeq(q, 1, k)
<1>1. q \in Seq(Nat) /\ Len(q) \in Nat /\ \A i \in 1 .. Len(q) : q[i] \in Nat /\ q[i] \in 1 .. n
  BY DEF Ordered
<1>2. r \in Seq(Nat) /\ Len(r) = Len(q) - k /\ \A i \in 1 .. Len(q) - k : r[i] = q[k + i]
  <2>1. \A i \in k + 1 .. Len(q) : q[i] \in Nat
    BY <1>1
  <2> QED
    BY <1>1, <2>1, SubSeqProperties
<1>3. b \in Seq(Nat) /\ Len(b) = k /\ \A i \in 1 .. k : b[i] = q[i]
  <2>1. \A i \in 1 .. k : q[i] \in Nat
    BY <1>1
  <2> QED
    BY <1>1, <2>1, SubSeqProperties
<1> HIDE DEF r, b
<1>4. Ordered(r, n)
  <2>1. ASSUME NEW i \in 1 .. Len(r) PROVE r[i] \in 1 .. n
    <3>1. i \in 1 .. Len(q) - k /\ k + i \in 1 .. Len(q)
      BY <1>1, <1>2
    <3> QED
      BY <1>1, <1>2, <3>1
  <2>2. ASSUME NEW i \in 1 .. Len(r), NEW j \in 1 .. Len(r), i < j PROVE r[i] < r[j]
    <3>1. k + i \in 1 .. Len(q) /\ k + j \in 1 .. Len(q) /\ k + i < k + j
      BY <1>1, <1>2, <2>2
    <3>2. q[k + i] < q[k + j]
      BY <3>1 DEF Ordered
    <3> QED
      BY <1>2, <3>2
  <2> QED
    BY <1>2, <2>1, <2>2 DEF Ordered
<1>5. \A p : Has(b, p) <=> p \in ToSet(b)
  BY <1>3, HasIsInSet
<1>6. \A p : Has(q, p) => Has(r, p) \/ Has(b, p)
  <2> SUFFICES ASSUME NEW i \in 1 .. Len(q) PROVE Has(r, q[i]) \/ Has(b, q[i])
    BY DEF Has
  <2>1. CASE i <= k
    BY <1>3, <2>1 DEF Has
  <2>2. CASE i > k
    <3>1. i - k \in 1 .. Len(r) /\ r[i - k] = q[k + (i - k)] /\ k + (i - k) = i
      BY <1>1, <1>2, <2>2
    <3> QED
      BY <3>1 DEF Has
  <2> QED
    BY <1>1, <2>1, <2>2
<1>7. \A p : Has(b, p) => p \in 1 .. n
  <2>1. \A i \in 1 .. k : i \in 1 .. Len(q)
    BY <1>1
  <2>2. \A i \in 1 .. k : b[i] \in 1 .. n
    BY <1>1, <1>3, <2>1
  <2> QED
    BY <1>3, <2>2 DEF Has
<1> QED
  BY <1>4, <1>5, <1>6, <1>7 DEF r, b

(* A copy under way. *)
LEMMA CopyBegins == ASSUME NEW q \in Seq(Nat) PROVE Copy(<<>>, q, q)
BY DEF Copy

LEMMA CopyGoesOn ==
    ASSUME NEW n \in Nat, NEW q, Ordered(q, n), NEW f \in Seq(Nat), NEW u \in Seq(Nat),
           Copy(f, u, q), u # <<>>
    PROVE  /\ Append(f, Head(u)) \in Seq(Nat) /\ Tail(u) \in Seq(Nat)
           /\ Copy(Append(f, Head(u)), Tail(u), q)
           /\ Ordered(Append(f, Head(u)), n)
           /\ \A p : Has(f, p) => Has(Append(f, Head(u)), p)
           /\ \A p : Has(Append(f, Head(u)), p) => Has(f, p) \/ Has(q, p)
<1> DEFINE g == Append(f, Head(u))
           v == Tail(u)
<1>1. Len(f) \in Nat /\ Len(u) \in Nat /\ Len(u) > 0 /\ q \in Seq(Nat) /\ Len(q) \in Nat
  BY EmptySeq DEF Ordered
<1>2. v \in Seq(Nat) /\ Len(v) = Len(u) - 1 /\ \A i \in 1 .. Len(v) : v[i] = u[i + 1]
  BY HeadTailProperties
<1>3. Head(u) = u[1] /\ Head(u) \in Nat
  BY <1>1, HeadTailProperties
<1>4. g \in Seq(Nat) /\ Len(g) = Len(f) + 1 /\ g[Len(f) + 1] = Head(u)
      /\ \A i \in 1 .. Len(f) : g[i] = f[i]
  BY <1>1, <1>3
<1> HIDE DEF g, v
<1>5. \A i \in 1 .. Len(g) : g[i] = q[i]
  <2>1. q[Len(f) + 1] = u[1]
    BY <1>1 DEF Copy
  <2>2. \A i \in 1 .. Len(f) : g[i] = q[i]
    BY <1>4 DEF Copy
  <2>3. \A i \in 1 .. Len(g) : i \in 1 .. Len(f) \/ i = Len(f) + 1
    BY <1>1, <1>4
  <2> QED
    BY <1>3, <1>4, <2>1, <2>2, <2>3
<1>6. \A i \in 1 .. Len(v) : v[i] = q[Len(g) + i]
  <2> SUFFICES ASSUME NEW i \in 1 .. Len(v) PROVE v[i] = q[Len(g) + i]
    OBVIOUS
  <2>1. i + 1 \in 1 .. Len(u) /\ v[i] = u[i + 1]
    BY <1>1, <1>2
  <2>2. u[i + 1] = q[Len(f) + (i + 1)]
    BY <2>1 DEF Copy
  <2>3. Len(f) + (i + 1) = Len(g) + i
    BY <1>1, <1>2, <1>4
  <2> QED
    BY <2>1, <2>2, <2>3
<1>7. Len(g) + Len(v) = Len(q)
  <2>1. Len(f) + Len(u) = Len(q)
    BY DEF Copy
  <2>2. Len(v) = Len(u) - 1 /\ Len(g) = Len(f) + 1
    BY <1>2, <1>4
  <2> DEFINE a == Len(f)
             b == Len(u)
             c == Len(q)
             d == Len(g)
             e == Len(v)
  <2>3. a \in Nat /\ b \in Nat /\ c \in Nat /\ a + b = c /\ d = a + 1 /\ e = b - 1
    BY <1>1, <2>1, <2>2
  <2> HIDE DEF a, b, c, d, e
  <2>4. d + e = c
    BY <2>3
  <2> QED
    BY <2>4 DEF c, d, e
<1>8. Copy(g, v, q)
  BY <1>5, <1>6, <1>7 DEF Copy
<1>9. \A i \in 1 .. Len(g) : i \in 1 .. Len(q)
  BY <1>1, <1>2, <1>4, <1>7
<1>10. Ordered(g, n)
  BY <1>4, <1>5, <1>9 DEF Ordered
<1>11. \A p : Has(f, p) => Has(g, p)
  BY <1>1, <1>4 DEF Has
<1>12. \A p : Has(g, p) => Has(f, p) \/ Has(q, p)
  BY <1>5, <1>9 DEF Has
<1> QED
  BY <1>2, <1>4, <1>8, <1>10, <1>11, <1>12 DEF g, v

LEMMA CopyIsOfQueue ==
    ASSUME NEW n \in Nat, NEW q, Ordered(q, n), NEW f \in Seq(Nat), NEW u \in Seq(Nat),
           Copy(f, u, q)
    PROVE  u \in Seq(1 .. n)
<1>1. Len(f) \in Nat /\ Len(u) \in Nat /\ q \in Seq(Nat) /\ Len(q) \in Nat
  BY DEF Ordered
<1>2. \A i \in 1 .. Len(u) : u[i] \in 1 .. n
  <2> SUFFICES ASSUME NEW i \in 1 .. Len(u) PROVE u[i] \in 1 .. n
    OBVIOUS
  <2>1. u[i] = q[Len(f) + i] /\ Len(f) + Len(u) = Len(q)
    BY DEF Copy
  <2>2. Len(f) + i \in 1 .. Len(q)
    <3> DEFINE a == Len(f)
               b == Len(u)
               c == Len(q)
    <3>1. a \in Nat /\ b \in Nat /\ c \in Nat /\ a + b = c /\ i \in 1 .. b
      BY <1>1, <2>1
    <3> HIDE DEF a, b, c
    <3>2. a + i \in 1 .. c
      BY <3>1
    <3> QED
      BY <3>2 DEF a, c
  <2> QED
    BY <2>1, <2>2 DEF Ordered
<1>3. SubSeq(u, 1, Len(u)) \in Seq(1 .. n)
  BY <1>1, <1>2, SubSeqProperties
<1>4. SubSeq(u, 1, Len(u)) = u
  BY SubSeqFull
<1> QED
  BY <1>3, <1>4

LEMMA CopyEnds ==
    ASSUME NEW q \in Seq(Nat), NEW f \in Seq(Nat), Copy(f, <<>>, q)
    PROVE  \A p : Has(q, p) => Has(f, p)
<1>1. Len(f) = Len(q)
  BY DEF Copy
<1> QED
  BY <1>1 DEF Copy, Has

-----------------------------------------------------------------------------
(* The invariant, one action at a time. *)
LEMMA JournalInit == Init => JournalInv
<1> SUFFICES ASSUME Init PROVE JournalInv
  OBVIOUS
<1> USE DEF Init
<1>1. <<>> \in Seq(Nat)
  OBVIOUS
<1>2. \A s \in Scrobblers : queue[s] = <<>> /\ file[s] = <<>>
  OBVIOUS
<1>3. Types
  BY CountAssumption DEF Types
<1>4. Queues
  BY <1>1, <1>2, EmptyIsOrdered DEF Queues
<1>5. Saving /\ NoneLost /\ Written
  BY DEF Saving, NoneLost, Written
<1>6. FileIsKept
  BY <1>2, EmptyIsOrdered DEF FileIsKept
<1> QED
  BY <1>3, <1>4, <1>5, <1>6 DEF JournalInv

LEMMA StartInv == ASSUME JournalInv, Start PROVE JournalInv'
<1> USE DEF JournalInv
<1>1. PICK shut \in SUBSET Scrobblers : Read(shut)
  BY DEF Start
<1>2. /\ process = "down" /\ process' = "up"
      /\ UNCHANGED <<file, saving, handle, unwritten, plays, submitted, mishap>>
  BY DEF Start
<1>3. /\ queue' = [s \in Scrobblers |-> IF s \in shut THEN <<>> ELSE file[s]]
      /\ journal_file_empty' \in {0, 1}
      /\ unread' = [s \in Scrobblers |-> IF s \in shut THEN unread[s] \union ToSet(file[s])
                                                       ELSE unread[s] \ ToSet(file[s])]
  BY <1>1 DEF Read, Loaded
<1>4. saving = 0 /\ handle = "closed" /\ plays \in Nat
  BY <1>2 DEF Saving, Types
<1>5. ASSUME NEW s \in Scrobblers
      PROVE  /\ queue'[s] \in Seq(Nat) /\ Ordered(queue'[s], plays)
             /\ unread'[s] \subseteq 1 .. plays
             /\ \A p : Has(file[s], p) => Has(queue'[s], p) \/ p \in unread'[s]
             /\ \A p : p \in unread[s] => Has(file[s], p) \/ p \in unread'[s]
  <2>1. file[s] \in Seq(Nat) /\ Ordered(file[s], plays) /\ unread[s] \subseteq 1 .. plays
    BY DEF Queues, Types
  <2>2. \A p : Has(file[s], p) <=> p \in ToSet(file[s])
    BY <2>1, HasIsInSet
  <2>3. \A p : Has(file[s], p) => p \in 1 .. plays
    BY <2>1 DEF Ordered, Has
  <2>4. Ordered(<<>>, plays) /\ <<>> \in Seq(Nat)
    BY <1>4, EmptyIsOrdered
  <2>5. CASE s \in shut
    <3>1. queue'[s] = <<>> /\ unread'[s] = unread[s] \union ToSet(file[s])
      BY <1>3, <2>5
    <3> QED
      BY <2>1, <2>2, <2>3, <2>4, <3>1
  <2>6. CASE s \notin shut
    <3>1. queue'[s] = file[s] /\ unread'[s] = unread[s] \ ToSet(file[s])
      BY <1>3, <2>6
    <3> QED
      BY <2>1, <2>2, <3>1
  <2> QED
    BY <2>5, <2>6
<1>6. Types'
  <2>1. unread' = [s \in Scrobblers |-> unread'[s]]
    BY <1>3
  <2>2. unread' \in [Scrobblers -> SUBSET (1 .. plays)]
    BY <1>5, <2>1
  <2> QED
    BY <1>2, <1>3, <2>2 DEF Types
<1>7. Queues'
  <2>1. queue' = [s \in Scrobblers |-> queue'[s]]
    BY <1>3
  <2>2. queue' \in [Scrobblers -> Seq(Nat)]
    BY <1>5, <2>1
  <2> QED
    BY <1>2, <1>5, <2>2 DEF Queues
<1>8. Saving'
  BY <1>2, <1>4 DEF Saving
<1>9. FileIsKept'
  BY <1>2, <1>5 DEF FileIsKept
<1>10. NoneLost'
  BY <1>2, <1>5 DEF NoneLost
<1>11. Written'
  BY <1>2 DEF Written
<1> QED
  BY <1>6, <1>7, <1>8, <1>9, <1>10, <1>11

LEMMA PlayInv == ASSUME JournalInv, Play PROVE JournalInv'
<1> USE DEF JournalInv
<1>1. /\ process = "up" /\ saving = 0 /\ plays' = plays + 1
      /\ queue' = [s \in Scrobblers |-> Append(queue[s], plays + 1)]
      /\ UNCHANGED <<process, file, journal_file_empty, saving, handle, unwritten,
                     submitted, mishap, unread>>
  BY DEF Play, Idle
<1>2. plays \in Nat /\ handle = "closed"
  BY <1>1 DEF Types, Saving
<1>3. ASSUME NEW s \in Scrobblers
      PROVE  /\ queue'[s] = Append(queue[s], plays + 1)
             /\ Ordered(queue'[s], plays') /\ Ordered(file[s], plays')
             /\ \A p : Has(queue[s], p) => Has(queue'[s], p)
             /\ Has(queue'[s], plays + 1)
  <2>1. queue'[s] = Append(queue[s], plays + 1)
    BY <1>1
  <2>2. Ordered(queue[s], plays) /\ Ordered(file[s], plays)
    BY DEF Queues
  <2> QED
    BY <1>1, <1>2, <2>1, <2>2, OrderedAppend, OrderedGrows
<1>4. Types'
  <2>1. /\ submitted \in [Scrobblers -> SUBSET (1 .. plays + 1)]
        /\ unread \in [Scrobblers -> SUBSET (1 .. plays + 1)]
    <3>1. 1 .. plays \subseteq 1 .. plays + 1
      BY <1>2
    <3> QED
      BY <3>1 DEF Types
  <2> QED
    BY <1>1, <1>2, <2>1 DEF Types
<1>5. Queues'
  <2>1. \A s \in Scrobblers : Append(queue[s], plays + 1) \in Seq(Nat)
    BY <1>3 DEF Ordered
  <2>2. queue' \in [Scrobblers -> Seq(Nat)]
    BY <1>1, <2>1
  <2> QED
    BY <1>1, <1>3, <2>2 DEF Queues
<1>6. Saving'
  BY <1>1, <1>2 DEF Saving
<1>7. FileIsKept'
  BY <1>1, <1>3 DEF FileIsKept
<1>8. NoneLost'
  <2> SUFFICES ASSUME mishap' = "none", NEW s \in Scrobblers, NEW p \in 1 .. plays'
               PROVE  p \in submitted'[s] \/ p \in unread'[s] \/ Has(queue'[s], p)
    BY <1>1 DEF NoneLost
  <2>1. CASE p = plays + 1
    BY <1>3, <2>1
  <2>2. CASE p \in 1 .. plays
    BY <1>1, <1>3, <2>2 DEF NoneLost
  <2> QED
    BY <1>1, <1>2, <2>1, <2>2
<1>9. Written'
  BY <1>1 DEF Written
<1> QED
  BY <1>4, <1>5, <1>6, <1>7, <1>8, <1>9

LEMMA SubmitInv ==
    ASSUME JournalInv, NEW t \in Scrobblers, Submit(t)
    PROVE  JournalInv'
<1> USE DEF JournalInv
<1>1. PICK k \in 1 .. Len(queue[t]) :
        /\ submitted' = [submitted EXCEPT ![t] = @ \union ToSet(SubSeq(queue[t], 1, k))]
        /\ queue' = [queue EXCEPT ![t] = SubSeq(@, k + 1, Len(@))]
  BY DEF Submit
<1>2. /\ process = "up" /\ saving = 0
      /\ UNCHANGED <<process, file, journal_file_empty, saving, handle, unwritten, plays, mishap, unread>>
  BY DEF Submit, Idle
<1>3. handle = "closed" /\ plays \in Nat
  BY <1>2 DEF Types, Saving
<1>4. /\ Ordered(SubSeq(queue[t], k + 1, Len(queue[t])), plays)
      /\ ToSet(SubSeq(queue[t], 1, k)) \subseteq 1 .. plays
      /\ \A p : Has(queue[t], p) => \/ Has(SubSeq(queue[t], k + 1, Len(queue[t])), p)
                                    \/ p \in ToSet(SubSeq(queue[t], 1, k))
  BY <1>3, OrderedRest DEF Queues
<1>5. ASSUME NEW s \in Scrobblers
      PROVE  /\ Ordered(queue'[s], plays)
             /\ submitted[s] \subseteq submitted'[s] /\ submitted'[s] \subseteq 1 .. plays
             /\ \A p : Has(queue[s], p) => Has(queue'[s], p) \/ p \in submitted'[s]
  <2>1. queue[s] \in Seq(Nat) /\ Ordered(queue[s], plays) /\ submitted[s] \subseteq 1 .. plays
    BY DEF Queues, Types
  <2>2. CASE s = t
    <3>1. queue'[s] = SubSeq(queue[t], k + 1, Len(queue[t]))
          /\ submitted'[s] = submitted[t] \union ToSet(SubSeq(queue[t], 1, k))
      BY <1>1, <2>2 DEF Queues, Types
    <3> QED
      BY <1>4, <2>1, <2>2, <3>1
  <2>3. CASE s # t
    <3>1. queue'[s] = queue[s] /\ submitted'[s] = submitted[s]
      BY <1>1, <2>3 DEF Queues, Types
    <3> QED
      BY <2>1, <3>1
  <2> QED
    BY <2>2, <2>3
<1>6. Types'
  <2>1. submitted' \in [Scrobblers -> SUBSET (1 .. plays)]
    <3>1. submitted' = [s \in Scrobblers |-> submitted'[s]]
      BY <1>1 DEF Types
    <3> QED
      BY <1>5, <3>1
  <2> QED
    BY <1>2, <2>1 DEF Types
<1>7. Queues'
  <2>1. queue' = [s \in Scrobblers |-> queue'[s]]
    BY <1>1 DEF Queues
  <2>2. \A s \in Scrobblers : queue'[s] \in Seq(Nat)
    BY <1>5 DEF Ordered
  <2>3. queue' \in [Scrobblers -> Seq(Nat)]
    BY <2>1, <2>2
  <2> QED
    BY <1>2, <1>5, <2>3 DEF Queues
<1>8. Saving'
  BY <1>2, <1>3 DEF Saving
<1>9. FileIsKept'
  BY <1>2, <1>5 DEF FileIsKept
<1>10. NoneLost'
  BY <1>2, <1>5 DEF NoneLost
<1>11. Written'
  BY <1>2 DEF Written
<1> QED
  BY <1>6, <1>7, <1>8, <1>9, <1>10, <1>11

LEMMA SaveBeginsInv == ASSUME JournalInv, SaveTimer \/ Terminate PROVE JournalInv'
<1> USE DEF JournalInv
<1>1. /\ saving' = Count /\ handle' = "closed" /\ unwritten' = <<>>
      /\ process = "up" /\ process' \in {"up", "stopping"}
      /\ UNCHANGED <<queue, file, journal_file_empty, plays, submitted, mishap, unread>>
  BY DEF SaveTimer, Terminate, Idle, Saving, Types
<1>2. Types'
  BY <1>1, CountAssumption DEF Types
<1>3. Queues'
  <2>1. <<>> \in Seq(Nat)
    OBVIOUS
  <2> QED
    BY <1>1, <2>1 DEF Queues
<1>4. Saving'
  BY <1>1, CountAssumption DEF Saving
<1>5. FileIsKept'
  BY <1>1 DEF FileIsKept
<1>6. NoneLost'
  BY <1>1 DEF NoneLost
<1>7. Written'
  BY <1>1, CountAssumption DEF Written, Scrobblers
<1> QED
  BY <1>2, <1>3, <1>4, <1>5, <1>6, <1>7

(* The save of one journal is over: nothing is lost when it holds what the *)
(* queue does, or a mishap has been noted. *)
LEMMA SavedInv ==
    ASSUME JournalInv, saving \in Scrobblers, Saved,
           handle' = "closed", unwritten' = <<>>,
           mishap' \in {mishap, "unsaved"},
           mishap' = "none" => \A p \in Nat : Has(queue[saving], p) => Has(file[saving], p),
           UNCHANGED <<queue, file, journal_file_empty, plays, submitted, unread>>
    PROVE  JournalInv'
<1> USE DEF JournalInv
<1>1. /\ saving' = saving - 1 /\ saving \in 1 .. Count
      /\ process' = IF process = "stopping" /\ saving' = 0 THEN "down" ELSE process
  BY DEF Saved, NextToSave, Scrobblers
<1>2. process # "down" /\ process \in {"up", "stopping"} /\ plays \in Nat
      /\ mishap \in {"none", "killed", "unsaved"}
  BY <1>1 DEF Types, Saving
<1>3. mishap' = "none" => mishap = "none"
  BY <1>2
<1>4. Types'
  BY <1>1, <1>2, CountAssumption DEF Types
<1>5. Queues'
  <2>1. <<>> \in Seq(Nat)
    OBVIOUS
  <2> QED
    BY <2>1 DEF Queues
<1>6. Saving'
  BY <1>1, <1>2 DEF Saving
<1>7. FileIsKept'
  BY <1>2 DEF FileIsKept
<1>8. ASSUME mishap' = "none", process = "stopping", NEW s \in Scrobblers, s > saving'
      PROVE  \A p \in Nat : Has(queue[s], p) => Has(file[s], p)
  <2>1. s = saving \/ s > saving
    BY <1>1, <1>8, CountAssumption DEF Scrobblers
  <2> QED
    BY <1>3, <1>8, <2>1 DEF Written
<1>9. NoneLost'
  <2> SUFFICES ASSUME mishap' = "none", NEW s \in Scrobblers, NEW p \in 1 .. plays
               PROVE  \/ p \in submitted[s] \/ p \in unread[s]
                      \/ process' = "down" /\ Has(file[s], p)
                      \/ process' # "down" /\ Has(queue[s], p)
    BY DEF NoneLost
  <2>1. p \in submitted[s] \/ p \in unread[s] \/ Has(queue[s], p)
    BY <1>2, <1>3 DEF NoneLost
  <2>2. CASE process' = "down"
    <3>1. process = "stopping" /\ saving' = 0
      BY <1>1, <1>2, <2>2
    <3>2. s > saving' /\ p \in Nat
      BY <1>2, <3>1, CountAssumption DEF Scrobblers
    <3> QED
      BY <1>8, <2>1, <2>2, <3>1, <3>2
  <2>3. CASE process' # "down"
    BY <2>1, <2>3
  <2> QED
    BY <2>2, <2>3
<1>10. Written'
  <2> SUFFICES ASSUME process' = "stopping", mishap' = "none",
                      NEW s \in Scrobblers, s > saving', NEW p \in Nat, Has(queue[s], p)
               PROVE  Has(file[s], p)
    BY DEF Written
  <2>1. process = "stopping"
    BY <1>1
  <2> QED
    BY <1>8, <2>1
<1> QED
  BY <1>4, <1>5, <1>6, <1>7, <1>9, <1>10

LEMMA SaveSkipInv == ASSUME JournalInv, SaveSkip PROVE JournalInv'
<1>1. saving \in Scrobblers /\ handle = "closed" /\ unwritten = <<>>
  BY DEF JournalInv, Types, Saving, SaveSkip, Scrobblers
<1>2. \A p \in Nat : ~ Has(queue[saving], p)
  BY EmptyIsOrdered DEF SaveSkip, Skips
<1>3. /\ Saved /\ handle' = "closed" /\ unwritten' = <<>> /\ mishap' = mishap
      /\ UNCHANGED <<queue, file, journal_file_empty, plays, submitted, unread>>
  BY <1>1 DEF SaveSkip
<1> QED
  BY <1>1, <1>2, <1>3, SavedInv

LEMMA SaveFailInv == ASSUME JournalInv, SaveFail PROVE JournalInv'
<1>1. saving \in Scrobblers /\ handle = "closed" /\ unwritten = <<>>
  BY DEF JournalInv, Types, Saving, SaveFail, Scrobblers
<1>2. /\ Saved /\ handle' = "closed" /\ unwritten' = <<>> /\ mishap' = "unsaved"
      /\ UNCHANGED <<queue, file, journal_file_empty, plays, submitted, unread>>
  BY <1>1 DEF SaveFail
<1> QED
  BY <1>1, <1>2, SavedInv

LEMMA SaveCloseInv == ASSUME JournalInv, SaveClose PROVE JournalInv'
<1>1. saving \in Scrobblers /\ handle = "open" /\ unwritten = <<>>
  BY DEF JournalInv, Types, Saving, SaveClose, Scrobblers
<1>2. \A p \in Nat : Has(queue[saving], p) => Has(file[saving], p)
  <2>1. queue[saving] \in Seq(Nat) /\ file[saving] \in Seq(Nat)
    BY <1>1 DEF JournalInv, Queues
  <2>2. Copy(file[saving], <<>>, queue[saving])
    BY <1>1 DEF JournalInv, Saving
  <2> QED
    BY <2>1, <2>2, CopyEnds
<1>3. /\ Saved /\ handle' = "closed" /\ unwritten' = <<>> /\ mishap' = mishap
      /\ UNCHANGED <<queue, file, journal_file_empty, plays, submitted, unread>>
  BY <1>1 DEF SaveClose
<1> QED
  BY <1>1, <1>2, <1>3, SavedInv

(* While a journal is written, nothing is lost that the queue holds. *)
LEMMA WritingInv ==
    ASSUME JournalInv, saving \in Scrobblers, handle' = "open",
           NEW f \in Seq(Nat), Ordered(f, plays),
           file' = [file EXCEPT ![saving] = f],
           unwritten' \in Seq(Nat), Copy(f, unwritten', queue[saving]),
           \A p \in Nat : Has(f, p) =>
                Has(queue[saving], p) \/ p \in submitted[saving] \/ p \in unread[saving],
           UNCHANGED <<process, queue, journal_file_empty, saving, plays, submitted, mishap,
                       unread>>
    PROVE  JournalInv'
<1> USE DEF JournalInv
<1>1. process # "down" /\ saving # 0 /\ saving \in 1 .. Count
  BY DEF Saving, Scrobblers
<1>2. file'[saving] = f /\ \A s \in Scrobblers : s # saving => file'[s] = file[s]
  BY DEF Queues
<1>3. Types'
  BY DEF Types
<1>4. Queues'
  <2>1. file' \in [Scrobblers -> Seq(Nat)]
    BY DEF Queues
  <2>2. \A s \in Scrobblers : Ordered(file'[s], plays)
    BY <1>2 DEF Queues
  <2> QED
    BY <2>1, <2>2 DEF Queues
<1>5. Saving'
  BY <1>1, <1>2 DEF Saving
<1>6. FileIsKept'
  BY <1>1, <1>2 DEF FileIsKept
<1>7. NoneLost'
  BY <1>1 DEF NoneLost
<1>8. Written'
  <2>1. \A s \in Scrobblers : s > saving => s # saving
    BY <1>1 DEF Scrobblers
  <2> QED
    BY <1>2, <2>1 DEF Written
<1> QED
  BY <1>3, <1>4, <1>5, <1>6, <1>7, <1>8

LEMMA SaveOpenInv == ASSUME JournalInv, SaveOpen PROVE JournalInv'
<1>1. saving \in Scrobblers /\ plays \in Nat /\ queue[saving] \in Seq(Nat) /\ <<>> \in Seq(Nat)
  BY DEF JournalInv, Types, Queues, SaveOpen, Scrobblers
<1>2. /\ handle' = "open" /\ file' = [file EXCEPT ![saving] = <<>>]
      /\ unwritten' = queue[saving]
      /\ UNCHANGED <<process, queue, journal_file_empty, saving, plays, submitted, mishap,
                     unread>>
  BY DEF SaveOpen, Records
<1>3. Ordered(<<>>, plays) /\ \A p : ~ Has(<<>>, p)
  BY <1>1, EmptyIsOrdered
<1>4. Copy(<<>>, unwritten', queue[saving])
  BY <1>1, <1>2, CopyBegins
<1> QED
  BY <1>1, <1>2, <1>3, <1>4, WritingInv

LEMMA SaveRecordInv == ASSUME JournalInv, SaveRecord PROVE JournalInv'
<1> DEFINE f == Append(file[saving], Head(unwritten))
<1>1. /\ saving \in Scrobblers /\ plays \in Nat /\ process # "down"
      /\ Ordered(queue[saving], plays)
      /\ file[saving] \in Seq(Nat) /\ unwritten \in Seq(Nat) /\ unwritten # <<>>
      /\ Copy(file[saving], unwritten, queue[saving])
  <2>1. handle = "open" /\ unwritten # <<>>
    BY DEF SaveRecord
  <2>2. /\ saving \in Scrobblers /\ plays \in Nat /\ process # "down"
        /\ Copy(file[saving], unwritten, queue[saving])
    BY <2>1 DEF JournalInv, Types, Saving, Scrobblers
  <2> QED
    BY <2>1, <2>2 DEF JournalInv, Queues
<1>2. /\ handle' = "open" /\ unwritten' = Tail(unwritten)
      /\ UNCHANGED <<process, queue, journal_file_empty, saving, plays, submitted, mishap,
                     unread>>
  BY DEF SaveRecord
<1>3. file' = [file EXCEPT ![saving] = f]
  BY DEF SaveRecord
<1>4. /\ f \in Seq(Nat) /\ Tail(unwritten) \in Seq(Nat)
      /\ Copy(f, Tail(unwritten), queue[saving])
      /\ Ordered(f, plays)
      /\ \A p : Has(f, p) => Has(file[saving], p) \/ Has(queue[saving], p)
  BY <1>1, CopyGoesOn
<1>5. \A p \in Nat : Has(f, p) => \/ Has(queue[saving], p)
                                  \/ p \in submitted[saving] \/ p \in unread[saving]
  BY <1>1, <1>4 DEF JournalInv, FileIsKept
<1> HIDE DEF f
<1> QED
  BY <1>1, <1>2, <1>3, <1>4, <1>5, WritingInv

LEMMA CrashInv == ASSUME JournalInv, Crash PROVE JournalInv'
<1> USE DEF JournalInv
<1>1. /\ process' = "down" /\ mishap' = "killed" /\ saving' = 0
      /\ handle' = "closed" /\ unwritten' = <<>>
      /\ queue' = [s \in Scrobblers |-> <<>>]
      /\ UNCHANGED <<file, journal_file_empty, plays, submitted, unread>>
  BY DEF Crash
<1>2. Types'
  BY <1>1, CountAssumption DEF Types
<1>3. Queues'
  <2>1. <<>> \in Seq(Nat) /\ plays \in Nat
    BY DEF Types
  <2>2. \A s \in Scrobblers : queue'[s] = <<>>
    BY <1>1
  <2>3. queue' \in [Scrobblers -> Seq(Nat)]
    BY <1>1, <2>1
  <2> QED
    BY <1>1, <2>1, <2>2, <2>3, EmptyIsOrdered DEF Queues
<1>4. Saving' /\ FileIsKept' /\ NoneLost' /\ Written'
  BY <1>1 DEF Saving, FileIsKept, NoneLost, Written
<1> QED
  BY <1>2, <1>3, <1>4

-----------------------------------------------------------------------------
(* The invariant holds in every state of every behaviour: of the queues,   *)
(* the journals, and a save under way in one of them.                      *)
THEOREM JournalInvHolds == Spec => []JournalInv
<1>1. Init => JournalInv
  BY JournalInit
<1>2. JournalInv /\ [Next]_vars => JournalInv'
  <2> SUFFICES ASSUME JournalInv, [Next]_vars PROVE JournalInv'
    OBVIOUS
  <2>1. CASE Start
    BY <2>1, StartInv
  <2>2. CASE Play
    BY <2>2, PlayInv
  <2>3. CASE SaveTimer \/ Terminate
    BY <2>3, SaveBeginsInv
  <2>4. CASE Crash
    BY <2>4, CrashInv
  <2>5. ASSUME NEW s \in Scrobblers, Submit(s) PROVE JournalInv'
    BY <2>5, SubmitInv
  <2>6. CASE Save
    BY <2>6, SaveSkipInv, SaveFailInv, SaveOpenInv, SaveRecordInv, SaveCloseInv DEF Save
  <2>7. CASE UNCHANGED vars
    BY <2>7 DEF vars, JournalInv, Types, Queues, Saving, FileIsKept, NoneLost, Written
  <2> QED
    BY <2>1, <2>2, <2>3, <2>4, <2>5, <2>6, <2>7 DEF Next
<1> QED
  BY <1>1, <1>2, PTL DEF Spec

(* Every variable of the journals has its type: a queue and a journal hold *)
(* songs that were played, and a save is under way when its file is open.  *)
THEOREM JournalTypes == Spec => []TypeOK
<1>1. JournalInv => TypeOK
  <2> SUFFICES ASSUME JournalInv PROVE TypeOK
    OBVIOUS
  <2>1. plays \in Nat
    BY DEF JournalInv, Types
  <2>2. \A s \in Scrobblers : queue[s] \in Seq(1 .. plays) /\ file[s] \in Seq(1 .. plays)
    BY <2>1, OrderedIsTyped DEF JournalInv, Queues
  <2>3. queue \in [Scrobblers -> Seq(1 .. plays)] /\ file \in [Scrobblers -> Seq(1 .. plays)]
    BY <2>2 DEF JournalInv, Queues
  <2>4. unwritten \in Seq(1 .. plays)
    <3>1. CASE handle = "open"
      <4>1. /\ saving \in Scrobblers /\ Ordered(queue[saving], plays)
            /\ file[saving] \in Seq(Nat) /\ unwritten \in Seq(Nat)
            /\ Copy(file[saving], unwritten, queue[saving])
        BY <3>1 DEF JournalInv, Types, Queues, Saving, Scrobblers
      <4> QED
        BY <2>1, <4>1, CopyIsOfQueue
    <3>2. CASE handle = "closed"
      BY <3>2 DEF JournalInv, Saving
    <3> QED
      BY <3>1, <3>2 DEF JournalInv, Types
  <2> QED
    BY <2>3, <2>4 DEF TypeOK, JournalInv, Types, Saving
<1> QED
  BY <1>1, JournalInvHolds, PTL

(* Songs are kept, and submitted, in the order in which they were played,  *)
(* and none twice in one queue, across any number of saves, crashes and    *)
(* restarts.                                                               *)
THEOREM PlaysStayInOrder == Spec => []InOrder
<1>1. JournalInv => InOrder
  BY OrderedIsTyped DEF JournalInv, Types, Queues, InOrder
<1> QED
  BY <1>1, JournalInvHolds, PTL

(* While mpdcron is ended only by the signals it handles and its journals  *)
(* can be written, the only songs a scrobbler can lose are those in a      *)
(* journal that it could not open when it started; even when a signal      *)
(* comes in the middle of a save.                                          *)
THEOREM NoPlayIsLost == Spec => []NoPlayLost
<1>1. JournalInv => NoPlayLost
  <2> SUFFICES ASSUME JournalInv, mishap = "none", NEW s \in Scrobblers, NEW p \in 1 .. plays
               PROVE  \/ p \in submitted[s] \union unread[s]
                      \/ p \in ToSet(IF process = "down" THEN file[s] ELSE queue[s])
    BY DEF NoPlayLost
  <2>1. /\ Has(queue[s], p) <=> p \in ToSet(queue[s])
        /\ Has(file[s], p) <=> p \in ToSet(file[s])
    BY HasIsInSet DEF JournalInv, Queues
  <2> QED
    BY <2>1 DEF JournalInv, NoneLost
<1> QED
  BY <1>1, JournalInvHolds, PTL

(* A song on disk leaves it only when it was submitted, or for the moment  *)
(* it takes to write it again; or when its journal could not be opened at  *)
(* a start.                                                                *)
THEOREM SavedPlaysSurvive == Spec => SavedSurvives
<1> DEFINE Survives ==
             \A s \in Scrobblers, p \in 1 .. plays :
                 p \in ToSet(file[s]) /\ p \notin ToSet(file'[s]) =>
                     \/ p \in submitted[s] \union unread[s]
                     \/ saving' = s /\ handle' = "open" /\ p \in ToSet(unwritten')
<1>1. JournalInv /\ [Next]_vars => [Survives]_vars
  <2> SUFFICES ASSUME JournalInv, Next, NEW s \in Scrobblers, NEW p \in 1 .. plays,
                      p \in ToSet(file[s]), p \notin ToSet(file'[s]),
                      p \notin submitted[s] \union unread[s]
               PROVE  saving' = s /\ handle' = "open" /\ p \in ToSet(unwritten')
    BY DEF Survives
  <2>1. plays \in Nat /\ p \in Nat
    BY DEF JournalInv, Types
  <2>2. file[s] \in Seq(Nat) /\ queue[s] \in Seq(Nat)
    BY DEF JournalInv, Queues
  <2>3. Has(file[s], p)
    BY <2>2, HasIsInSet
  <2>4. file' # file
    OBVIOUS
  <2>5. CASE SaveOpen
    <3>1. saving \in Scrobblers /\ process # "down"
      BY <2>5 DEF SaveOpen, JournalInv, Types, Saving, Scrobblers
    <3>2. saving' = saving /\ handle' = "open" /\ file' = [file EXCEPT ![saving] = <<>>]
          /\ unwritten' = queue[saving]
      BY <2>5 DEF SaveOpen, Records
    <3>3. s = saving
      BY <3>2 DEF JournalInv, Queues
    <3>4. Has(queue[s], p)
      BY <2>1, <2>3, <3>1 DEF JournalInv, FileIsKept
    <3> QED
      BY <2>2, <3>2, <3>3, <3>4, HasIsInSet
  <2>6. CASE SaveRecord
    <3> DEFINE f == Append(file[saving], Head(unwritten))
    <3>1. /\ saving \in Scrobblers /\ Ordered(queue[saving], plays)
          /\ file[saving] \in Seq(Nat) /\ unwritten \in Seq(Nat) /\ unwritten # <<>>
          /\ Copy(file[saving], unwritten, queue[saving])
      BY <2>6 DEF JournalInv, Types, Queues, Saving, SaveRecord, Scrobblers
    <3>2. f \in Seq(Nat) /\ \A q : Has(file[saving], q) => Has(f, q)
      BY <2>1, <3>1, CopyGoesOn
    <3>3. file' = [file EXCEPT ![saving] = f]
      BY <2>6 DEF SaveRecord
    <3> HIDE DEF f
    <3>4. s = saving /\ file'[s] = f
      BY <3>1, <3>3 DEF JournalInv, Queues
    <3> QED
      BY <2>3, <3>2, <3>4, HasIsInSet
  <2>7. SaveOpen \/ SaveRecord
    BY <2>4 DEF Next, Save, Start, Play, SaveTimer, Terminate, Crash, Submit,
                SaveSkip, SaveFail, SaveClose
  <2> QED
    BY <2>5, <2>6, <2>7
<1>2. Survives => \A s \in Scrobblers, p \in 1 .. plays :
                 p \in ToSet(file[s]) /\ p \notin ToSet(file'[s]) =>
                     \/ p \in submitted[s] \union unread[s]
                     \/ saving' = s /\ handle' = "open" /\ p \in ToSet(unwritten')
  OBVIOUS
<1> QED
  BY <1>1, JournalInvHolds, PTL DEF Spec, SavedSurvives

=============================================================================
