---------------------------- MODULE StatsServerProofs ----------------------------
(***************************************************************************)
(* What holds of the server of the stats module for any number of          *)
(* connections and places, any table of commands and any passwords.  The   *)
(* server reuses ids, and callbacks find their clients by id only: the     *)
(* proofs say what that can do no harm to.                                 *)
(***************************************************************************)
EXTENDS StatsServer, FiniteSetTheorems, TLAPS

(* A connection that has not come yet has left no trace that its accepting *)
(* would have to undo. *)
NewIsNowhere ==
    \A c \in Connections : peer[c] = "new" =>
        /\ c \notin changed
        /\ \A i \in Ids : clients[i] # c

(* What a client may do it was granted itself. *)
PermissionsAreOwn == \A c \in Connections : perm[c] \subseteq granted[c]

ServerInv ==
    /\ TypeOK /\ EveryClientIsRead /\ ChangesAreGranted
    /\ NewIsNowhere /\ PermissionsAreOwn

-----------------------------------------------------------------------------
(* The number of clients, when it is less than the limit, is an id. *)
LEMMA SizeIsId ==
    ASSUME Size < MaxConnections
    PROVE  Size \in Ids
<1> DEFINE taken == {i \in Ids : clients[i] # NoClient}
<1>1. IsFiniteSet(Ids)
  BY FS_Interval, ServerAssumption DEF Ids
<1>2. IsFiniteSet(taken)
  BY <1>1, FS_Subset
<1>3. Cardinality(taken) \in Nat
  BY <1>2, FS_CardinalityType
<1> QED
  BY <1>3, ServerAssumption DEF Size, Ids

LEMMA PermissionSets ==
    /\ DefaultPermissions \subseteq Permissions
    /\ \A line \in Lines : line.grants \subseteq Permissions
<1>1. DefaultPermissions \subseteq Permissions
  BY ServerAssumption
<1>2. ASSUME NEW line \in Lines PROVE line.grants \subseteq Permissions
  <2>1. line.grants \in Passwords \union {{}}
    BY DEF Lines
  <2> QED
    BY <2>1, ServerAssumption
<1> QED
  BY <1>1, <1>2

(* What one answer changes, whether it can be written or not. *)
LEMMA AnswerType ==
    ASSUME TypeOK, NEW c \in Connections, Answer(c)
    PROVE  /\ flush' \in [Connections -> {"none", "running", "done"}]
           /\ refused' \in [Connections -> Nat]
           /\ unwritten' \subseteq Connections
<1>1. /\ flush \in [Connections -> {"none", "running", "done"}]
      /\ refused \in [Connections -> Nat]
      /\ unwritten \subseteq Connections
  BY DEF TypeOK
<1>2. CASE flush[c] # "none"
  BY <1>1, <1>2 DEF Answer
<1>3. CASE flush[c] = "none"
  BY <1>1, <1>3 DEF Answer
<1> QED
  BY <1>2, <1>3

(* What a command does to permissions and to the database, which it can    *)
(* only change for a client that may. *)
LEMMA ProcessEffect ==
    ASSUME TypeOK, NEW c \in Connections, NEW line \in Lines, Process(c, line)
    PROVE  /\ \/ UNCHANGED <<perm, granted>>
              \/ /\ perm' = [perm EXCEPT ![c] = @ \union line.grants]
                 /\ granted' = [granted EXCEPT ![c] = @ \union line.grants]
           /\ \/ changed' = changed
              \/ changed' = changed \union {c} /\ "update" \in perm[c]
           /\ unknown' \subseteq Names
           /\ Answer(c)
BY DEF Process, Authorized, TypeOK

-----------------------------------------------------------------------------
LEMMA ServerInvInit == Init => ServerInv
<1> SUFFICES ASSUME Init PROVE ServerInv
  OBVIOUS
<1> USE ServerAssumption DEF Init
<1>1. 0 \in Ids
  BY DEF Ids
<1>2. TypeOK
  BY <1>1 DEF TypeOK
<1>3. EveryClientIsRead /\ ChangesAreGranted /\ NewIsNowhere /\ PermissionsAreOwn
  BY DEF EveryClientIsRead, ChangesAreGranted, NewIsNowhere, PermissionsAreOwn,
         NoClient, Connections
<1> QED
  BY <1>2, <1>3 DEF ServerInv

(* The new client may take the place of another one in the table; that one *)
(* is in no other place. *)
LEMMA AcceptKeepsInv ==
    ASSUME ServerInv, NEW c \in Connections, Accept(c)
    PROVE  ServerInv'
<1>1. NewId \in Ids
  BY SizeIsId DEF Accept, NewId
<1>2. /\ peer[c] = "new"
      /\ peer' = [peer EXCEPT ![c] = "connected"]
      /\ id' = [id EXCEPT ![c] = NewId]
      /\ perm' = [perm EXCEPT ![c] = DefaultPermissions]
      /\ granted' = [granted EXCEPT ![c] = DefaultPermissions]
      /\ clients' = [clients EXCEPT ![NewId] = c]
      /\ reads' = [reads EXCEPT ![c] = 1]
      /\ process' = process /\ sent' = sent /\ left' = left
      /\ changed' = changed /\ unknown' = unknown
  BY DEF Accept, Arrives, NewPermissions, statsVars
<1>3. TypeOK
  BY DEF ServerInv
<1>4. TypeOK'
  <2>1. Answer(c)
    BY DEF Accept
  <2> QED
    BY <1>1, <1>2, <1>3, <2>1, AnswerType, PermissionSets DEF TypeOK
<1>5. EveryClientIsRead'
  BY <1>1, <1>2, <1>3 DEF ServerInv, EveryClientIsRead, NewIsNowhere, TypeOK, NoClient
<1>6. ChangesAreGranted' /\ NewIsNowhere' /\ PermissionsAreOwn'
  BY <1>1, <1>2, <1>3
     DEF ServerInv, ChangesAreGranted, NewIsNowhere, PermissionsAreOwn, TypeOK
<1> QED
  BY <1>4, <1>5, <1>6 DEF ServerInv

LEMMA RejectKeepsInv ==
    ASSUME ServerInv, NEW c \in Connections, Reject(c)
    PROVE  ServerInv'
BY DEF Reject, ServerInv, TypeOK, EveryClientIsRead, ChangesAreGranted, NewIsNowhere,
       PermissionsAreOwn, streamVars, statsVars

(* A line may add to the permissions of the client it is from, of no       *)
(* other, and to what that client was granted as much. *)
LEMMA ReadLineKeepsInv ==
    ASSUME ServerInv, NEW c \in Connections, ReadLine(c)
    PROVE  ServerInv'
<1> DEFINE line == Head(sent[c])
<1>1. TypeOK
  BY DEF ServerInv
<1>2. sent[c] \in Seq(Lines) /\ sent[c] # <<>>
  BY <1>1 DEF TypeOK, ReadLine
<1>3. line \in Lines /\ Tail(sent[c]) \in Seq(Lines)
  BY <1>2
<1>4. /\ Process(c, line)
      /\ reads' = [reads EXCEPT ![c] = 1]
      /\ sent' = [sent EXCEPT ![c] = Tail(sent[c])]
      /\ process' = process /\ clients' = clients /\ peer' = peer
      /\ id' = id /\ left' = left
      /\ clients[id[c]] = c
  BY <1>1 DEF ReadLine, Reread, TypeOK
<1> HIDE DEF line
<1>5. /\ \/ UNCHANGED <<perm, granted>>
         \/ /\ perm' = [perm EXCEPT ![c] = @ \union line.grants]
            /\ granted' = [granted EXCEPT ![c] = @ \union line.grants]
      /\ \/ changed' = changed
         \/ changed' = changed \union {c} /\ "update" \in perm[c]
      /\ unknown' \subseteq Names
      /\ Answer(c)
  BY <1>1, <1>3, <1>4, ProcessEffect
<1>6. TypeOK'
  <2>1. line.grants \subseteq Permissions
    BY <1>3, PermissionSets
  <2>2. perm' \in [Connections -> SUBSET Permissions]
        /\ granted' \in [Connections -> SUBSET Permissions]
    <3>1. /\ perm \in [Connections -> SUBSET Permissions]
          /\ granted \in [Connections -> SUBSET Permissions]
      BY <1>1 DEF TypeOK
    <3>2. /\ perm[c] \union line.grants \in SUBSET Permissions
          /\ granted[c] \union line.grants \in SUBSET Permissions
      BY <2>1, <3>1
    <3> QED
      BY <1>5, <3>1, <3>2
  <2> QED
    BY <1>1, <1>3, <1>4, <1>5, <2>2, AnswerType DEF TypeOK
<1>7. EveryClientIsRead'
  BY <1>1, <1>4 DEF ServerInv, EveryClientIsRead, TypeOK
<1>8. PermissionsAreOwn'
  BY <1>1, <1>5 DEF ServerInv, PermissionsAreOwn, TypeOK
<1>9. ChangesAreGranted'
  <2>1. ASSUME NEW d \in Connections PROVE granted[d] \subseteq granted'[d]
    <3>1. granted \in [Connections -> SUBSET Permissions]
      BY <1>1 DEF TypeOK
    <3>2. CASE granted' = granted
      BY <3>2
    <3>3. CASE granted' = [granted EXCEPT ![c] = @ \union line.grants]
      BY <3>1, <3>3
    <3> QED
      BY <1>5, <3>2, <3>3
  <2>2. changed \subseteq Connections /\ perm[c] \subseteq granted[c]
    BY <1>1 DEF TypeOK, ServerInv, PermissionsAreOwn
  <2>3. \A d \in changed : "update" \in granted'[d]
    BY <2>1, <2>2 DEF ServerInv, ChangesAreGranted
  <2>4. "update" \in perm[c] => "update" \in granted'[c]
    BY <2>1, <2>2
  <2> QED
    BY <1>5, <2>3, <2>4 DEF ChangesAreGranted
<1>10. NewIsNowhere'
  BY <1>1, <1>4, <1>5 DEF ServerInv, NewIsNowhere, TypeOK
<1> QED
  BY <1>6, <1>7, <1>8, <1>9, <1>10 DEF ServerInv

(* A read that ends takes a client out of the table that is this one or    *)
(* another one; this one is nowhere else. *)
LEMMA ReadOverKeepsInv ==
    ASSUME ServerInv, NEW c \in Connections, ReadEnd(c) \/ ReadStale(c)
    PROVE  ServerInv'
<1>1. /\ reads' = [reads EXCEPT ![c] = 0]
      /\ clients' = [clients EXCEPT ![id[c]] = NoClient]
      /\ UNCHANGED <<process, peer, id, perm, sent, left, granted, flush, refused,
                     unwritten, changed, unknown>>
  BY DEF ReadEnd, ReadStale, Removed, streamVars, statsVars
<1>2. TypeOK /\ id[c] \in Ids
  BY DEF ServerInv, TypeOK
<1>3. TypeOK'
  BY <1>1, <1>2 DEF TypeOK
<1>4. EveryClientIsRead'
  BY <1>1, <1>2 DEF ServerInv, EveryClientIsRead, TypeOK, NoClient
<1>5. NewIsNowhere'
  BY <1>1, <1>2 DEF ServerInv, NewIsNowhere, TypeOK, NoClient, Connections
<1>6. ChangesAreGranted' /\ PermissionsAreOwn'
  BY <1>1 DEF ServerInv, ChangesAreGranted, PermissionsAreOwn
<1> QED
  BY <1>3, <1>4, <1>5, <1>6 DEF ServerInv

(* The callback of a flush may take a client out of the table; the read of *)
(* that client stays outstanding, and finds nobody. *)
LEMMA FlushKeepsInv ==
    ASSUME ServerInv, NEW c \in Connections,
           Delivered(c) \/ FlushDone(c) \/ FlushFailed(c)
    PROVE  ServerInv'
<1>1. /\ UNCHANGED <<peer, id, perm, reads, sent, left, granted, unwritten, changed, unknown>>
      /\ clients' = clients \/ clients' = [clients EXCEPT ![id[c]] = NoClient]
  BY DEF Delivered, FlushDone, FlushFailed, Removed, connVars, statsVars
<1>2. TypeOK /\ id[c] \in Ids
  BY DEF ServerInv, TypeOK
<1>3. /\ process' \in {"up", "crashed"}
      /\ flush' \in [Connections -> {"none", "running", "done"}]
      /\ refused' \in [Connections -> Nat]
  <2>1. /\ process \in {"up", "crashed"}
        /\ flush \in [Connections -> {"none", "running", "done"}]
        /\ refused \in [Connections -> Nat]
    BY <1>2 DEF TypeOK
  <2>2. CASE Delivered(c)
    BY <2>1, <2>2 DEF Delivered
  <2>3. CASE FlushDone(c)
    BY <2>1, <2>3 DEF FlushDone
  <2>4. CASE FlushFailed(c)
    BY <2>1, <2>4 DEF FlushFailed
  <2> QED
    BY <2>2, <2>3, <2>4
<1>4. TypeOK'
  BY <1>1, <1>2, <1>3 DEF TypeOK
<1>5. EveryClientIsRead'
  BY <1>1, <1>2 DEF ServerInv, EveryClientIsRead, TypeOK, NoClient
<1>6. NewIsNowhere'
  BY <1>1, <1>2 DEF ServerInv, NewIsNowhere, TypeOK, NoClient, Connections
<1>7. ChangesAreGranted' /\ PermissionsAreOwn'
  BY <1>1 DEF ServerInv, ChangesAreGranted, PermissionsAreOwn
<1> QED
  BY <1>4, <1>5, <1>6, <1>7 DEF ServerInv

LEMMA PeerKeepsInv ==
    ASSUME ServerInv, NEW c \in Connections, Send(c) \/ HangUp(c)
    PROVE  ServerInv'
<1>1. TypeOK
  BY DEF ServerInv
<1>2. CASE Send(c)
  <2>1. PICK line \in Lines : sent' = [sent EXCEPT ![c] = Append(@, line)]
    BY <1>2 DEF Send
  <2>2. sent' \in [Connections -> Seq(Lines)]
    BY <1>1, <2>1 DEF TypeOK
  <2>3. left' \in [Connections -> Nat]
    BY <1>1, <1>2 DEF TypeOK, Send
  <2> QED
    BY <1>2, <2>2, <2>3
       DEF Send, ServerInv, TypeOK, EveryClientIsRead, ChangesAreGranted, NewIsNowhere,
           PermissionsAreOwn, streamVars, statsVars
<1>3. CASE HangUp(c)
  BY <1>3 DEF HangUp, ServerInv, TypeOK, EveryClientIsRead, ChangesAreGranted,
              NewIsNowhere, PermissionsAreOwn, streamVars, statsVars
<1> QED
  BY <1>2, <1>3

LEMMA ServerInvStep == ServerInv /\ [Next]_vars => ServerInv'
<1> SUFFICES ASSUME ServerInv, [Next]_vars PROVE ServerInv'
  OBVIOUS
<1>1. CASE UNCHANGED vars
  BY <1>1 DEF vars, ServerInv, TypeOK, EveryClientIsRead, ChangesAreGranted, NewIsNowhere,
              PermissionsAreOwn
<1>2. ASSUME NEW c \in Connections,
             \/ Accept(c) \/ Reject(c)
             \/ ReadLine(c) \/ ReadEnd(c) \/ ReadStale(c)
             \/ Delivered(c) \/ FlushDone(c) \/ FlushFailed(c)
             \/ Send(c) \/ HangUp(c)
      PROVE  ServerInv'
  BY <1>2, AcceptKeepsInv, RejectKeepsInv, ReadLineKeepsInv, ReadOverKeepsInv,
     FlushKeepsInv, PeerKeepsInv
<1> QED
  BY <1>1, <1>2 DEF Next

(* stats-server.c: whichever callbacks come late and whichever ids are used *)
(* again, each client in the table is read and has only its own rights.    *)
THEOREM ServerInductive == Spec => []ServerInv
BY ServerInvInit, ServerInvStep, PTL DEF Spec

(* Every variable of the server keeps its type; above all, the id of a     *)
(* client is always below the limit of connections. *)
THEOREM TypeAlwaysOK == Spec => []TypeOK
<1>1. ServerInv => TypeOK
  BY DEF ServerInv
<1> QED
  BY <1>1, ServerInductive, PTL

(* However many clients share an id, one that is in the table is listened  *)
(* to: event_read_line never leaves a client behind without a read. *)
THEOREM EveryClientAlwaysRead == Spec => []EveryClientIsRead
<1>1. ServerInv => EveryClientIsRead
  BY DEF ServerInv
<1> QED
  BY <1>1, ServerInductive, PTL

(* No callback that goes to the wrong client, and no table of commands,    *)
(* lets a client change the database that was not granted to itself. *)
THEOREM ChangesAlwaysGranted == Spec => []ChangesAreGranted
<1>1. ServerInv => ChangesAreGranted
  BY DEF ServerInv
<1> QED
  BY <1>1, ServerInductive, PTL

=============================================================================
