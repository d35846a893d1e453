------------------------------- MODULE StatsServer -------------------------------
(***************************************************************************)
(* The server of the stats module: stats-server.c accepts connections and  *)
(* reads lines from them, and stats-command.c answers each line, in the    *)
(* callback of the read.  Every callback runs to completion on the GLib    *)
(* main loop, and is one action.                                           *)
(*                                                                         *)
(* A client is found by its id, a key of the table `clients'; the          *)
(* callbacks carry the id and nothing else, and may come after their       *)
(* client was removed.  GIO allows one operation at a time on a stream:    *)
(* a flush started during a flush fails (and says so in its callback), and *)
(* a write during a flush writes nothing.  A callback that finishes an     *)
(* operation of one stream on another one is told nothing: a read looks    *)
(* like the end of the connection, a flush like an error without a         *)
(* message, which event_flush goes on to print.                            *)
(***************************************************************************)
EXTENDS CommandTable, Integers, FiniteSets

CONSTANTS
    LastConnection,  \* bound: the connections of a behaviour are
                     \* 1 .. LastConnection, in the order they come
    MaxConnections,  \* globalconf.max_connections
    DefaultPermissions,
    Passwords,       \* globalconf.passwords: what each grants
    MaxLines,        \* bound: how many lines each peer sends
    Polite           \* the connections whose peers wait for each answer
                     \* before they send the next line

Connections == 1 .. LastConnection
NoClient == 0
Ids == 0 .. MaxConnections - 1

ASSUME ServerAssumption ==
    /\ MaxConnections \in Nat \ {0}
    /\ LastConnection \in Nat
    /\ DefaultPermissions \subseteq Permissions
    /\ Passwords \subseteq SUBSET Permissions
    /\ Polite \subseteq Connections
    /\ MaxLines \in [Connections -> Nat]

(* A line: the name of a command, or 0 for what is none, and what the      *)
(* password that comes with it grants. *)
Lines ==
    {line \in [name : Names \union {0}, grants : Passwords \union {{}}] :
        line.grants # {} =>
            \E i \in DOMAIN commands :
                commands[i].name = line.name /\ commands[i].handler = "password"}

VARIABLES
    process,     \* "up", or "crashed"
    clients,     \* the hash table: id -> client, or NoClient
    peer,        \* environment: the other side of each connection, "new",
                 \* "connected" or "gone"
    id,          \* client->id
    perm,        \* client->perm
    reads,       \* outstanding reads of each connection
    flush,       \* the flush of each connection: "none", "running", or
                 \* "done", with its callback still to come
    refused,     \* flushes that GIO refused, their callbacks still to come
    sent,        \* environment: the lines sent and not read yet
    left,        \* environment: how many lines each peer will send yet
    granted,     \* history: what the peer was granted: by default, or by a
                 \* password of its own
    changed,     \* history: the connections that changed the database,
                 \* each with the permissions it did so with
    unknown,     \* history: the commands that were answered "unknown command"
    unwritten    \* history: the connections that a write failed on

vars == <<process, clients, peer, id, perm, reads, flush, refused, sent, left,
          granted, changed, unknown, unwritten>>

connVars == <<peer, id, perm, reads, sent, left, granted>>
streamVars == <<flush, refused, unwritten>>
statsVars == <<changed, unknown>>

Size == Cardinality({i \in Ids : clients[i] # NoClient})

Init ==
    /\ process = "up"
    /\ clients = [i \in Ids |-> NoClient]
    /\ peer = [c \in Connections |-> "new"]
    /\ id = [c \in Connections |-> 0]
    /\ perm = [c \in Connections |-> {}]
    /\ reads = [c \in Connections |-> 0]
    /\ flush = [c \in Connections |-> "none"]
    /\ refused = [c \in Connections |-> 0]
    /\ sent = [c \in Connections |-> <<>>]
    /\ left = MaxLines
    /\ granted = [c \in Connections |-> {}]
    /\ changed = {}
    /\ unknown = {}
    /\ unwritten = {}

-----------------------------------------------------------------------------
(* The callbacks' routines.                                                *)

Removed_Bug(c) == clients
(* g_hash_table_remove(clients, clientid), with the id of c. *)
Removed(c) == [clients EXCEPT ![id[c]] = NoClient]

(* server_schedule_write and server_flush_write of one answer. *)
Answer(c) ==
    IF flush[c] # "none"
    THEN /\ unwritten' = unwritten \union {c}
         /\ refused' = [refused EXCEPT ![c] = @ + 1]
         /\ UNCHANGED flush
    ELSE /\ flush' = [flush EXCEPT ![c] = "running"]
         /\ UNCHANGED <<refused, unwritten>>

NewId_Bug == Size + 1
(* client->id of a client that event_incoming has just made: the number of *)
(* clients there were, which another client may have as its id. *)
NewId == Size

NewPermissions_Bug(c) ==
    DefaultPermissions \union
        UNION {perm[other] : other \in {d \in Connections : peer[d] = "gone" /\ id[d] = Size}}
(* client->perm of a client that event_incoming has just made. *)
NewPermissions(c) == DefaultPermissions

Reread_Bug(c, line) == IF line.name \in Names THEN 1 ELSE 0
(* event_read_line schedules the next read, whatever the line was. *)
Reread(c, line) == 1

(* command_check_request. *)
MayRun(c, command) == command.permission \subseteq perm[c]

-----------------------------------------------------------------------------
(* The main loop's callbacks.                                              *)

(* The connections come in their order. *)
Arrives(c) == process = "up" /\ peer[c] = "new" /\ \A d \in 1 .. c - 1 : peer[d] # "new"

(* event_incoming: a connection is accepted, or is one too many. *)
Accept(c) ==
    /\ Arrives(c)
    /\ Size < MaxConnections
    /\ peer' = [peer EXCEPT ![c] = "connected"]
    /\ id' = [id EXCEPT ![c] = NewId]
    /\ perm' = [perm EXCEPT ![c] = NewPermissions(c)]
    /\ granted' = [granted EXCEPT ![c] = DefaultPermissions]
    /\ clients' = [clients EXCEPT ![NewId] = c]
    /\ reads' = [reads EXCEPT ![c] = 1]
    /\ Answer(c)
    /\ UNCHANGED <<process, sent, left, statsVars>>

Reject(c) ==
    /\ Arrives(c)
    /\ Size >= MaxConnections
    /\ peer' = [peer EXCEPT ![c] = "gone"]
    /\ UNCHANGED <<process, clients, id, perm, reads, sent, left, granted,
                   streamVars, statsVars>>

(* command_authorizer, which SQLite asks while the command runs. *)
Authorized(c) == "update" \in perm[c]

(* command_process: the command is looked up, checked and run, and the     *)
(* line is answered once, OK or ACK. *)
Process(c, line) ==
    LET place == command_lookup(line.name)
        command == commands[place]
    IN  /\ IF place = 0
           THEN /\ unknown' = unknown \union ({line.name} \intersect Names)
                /\ UNCHANGED <<perm, granted, changed>>
           ELSE /\ UNCHANGED unknown
                /\ IF ~ MayRun(c, command)
                   THEN UNCHANGED <<perm, granted, changed>>
                   ELSE /\ IF command.handler = "password"
                           THEN /\ perm' = [perm EXCEPT ![c] = @ \union line.grants]
                                /\ granted' = [granted EXCEPT ![c] = @ \union line.grants]
                           ELSE UNCHANGED <<perm, granted>>
                        /\ IF command.handler = "changes" /\ Authorized(c)
                           THEN changed' = changed \union {c}
                           ELSE UNCHANGED changed
        /\ Answer(c)

(* event_read_line: for a line; for the end of the connection or an error; *)
(* and for a client that is gone, whose id is free or another client's.    *)
ReadLine(c) ==
    /\ process = "up" /\ reads[c] > 0
    /\ clients[id[c]] = c
    /\ sent[c] # <<>>
    /\ LET line == Head(sent[c])
       IN  /\ Process(c, line)
           /\ reads' = [reads EXCEPT ![c] = Reread(c, line)]
    /\ sent' = [sent EXCEPT ![c] = Tail(@)]
    /\ UNCHANGED <<process, clients, peer, id, left>>

ReadEnd(c) ==
    /\ process = "up" /\ reads[c] > 0
    /\ clients[id[c]] = c
    /\ sent[c] = <<>> /\ peer[c] = "gone"
    /\ reads' = [reads EXCEPT ![c] = 0]
    /\ clients' = Removed(c)
    /\ UNCHANGED <<process, peer, id, perm, sent, left, granted, streamVars, statsVars>>

ReadStale(c) ==
    /\ process = "up" /\ reads[c] > 0
    /\ clients[id[c]] # c
    /\ sent[c] # <<>> \/ peer[c] = "gone"
    /\ reads' = [reads EXCEPT ![c] = 0]
    /\ clients' = Removed(c)
    /\ UNCHANGED <<process, peer, id, perm, sent, left, granted, streamVars, statsVars>>

(* What is flushed reaches the peer, or is lost with the connection, and   *)
(* event_flush hears of it; of a flush that GIO refused, too. *)
Delivered(c) ==
    /\ process = "up" /\ flush[c] = "running"
    /\ flush' = [flush EXCEPT ![c] = "done"]
    /\ UNCHANGED <<process, clients, connVars, refused, unwritten, statsVars>>

FlushDone(c) ==
    /\ process = "up" /\ flush[c] = "done"
    /\ flush' = [flush EXCEPT ![c] = "none"]
    /\ process' = IF clients[id[c]] \in {c, NoClient} THEN process ELSE "crashed"
    /\ UNCHANGED <<clients, connVars, refused, unwritten, statsVars>>

FlushFailed(c) ==
    /\ process = "up"
    /\ \/ /\ flush[c] = "running" /\ peer[c] = "gone"
          /\ flush' = [flush EXCEPT ![c] = "none"]
          /\ UNCHANGED refused
       \/ /\ refused[c] > 0
          /\ refused' = [refused EXCEPT ![c] = @ - 1]
          /\ UNCHANGED flush
    /\ IF clients[id[c]] \in {c, NoClient}
       THEN clients' = Removed(c) /\ UNCHANGED process
       ELSE process' = "crashed" /\ UNCHANGED clients
    /\ UNCHANGED <<connVars, unwritten, statsVars>>

-----------------------------------------------------------------------------
(* Environment: the peers, as long as there is a server. *)
Send(c) ==
    /\ process = "up"
    /\ peer[c] = "connected" /\ left[c] > 0
    /\ c \in Polite => sent[c] = <<>> /\ flush[c] # "running" /\ c \notin unwritten
    /\ \E line \in Lines : sent' = [sent EXCEPT ![c] = Append(@, line)]
    /\ left' = [left EXCEPT ![c] = @ - 1]
    /\ UNCHANGED <<process, clients, peer, id, perm, reads, granted, streamVars, statsVars>>

HangUp(c) ==
    /\ process = "up"
    /\ peer[c] = "connected"
    /\ peer' = [peer EXCEPT ![c] = "gone"]
    /\ left' = [left EXCEPT ![c] = 0]
    /\ UNCHANGED <<process, clients, id, perm, reads, sent, granted,
                   streamVars, statsVars>>

Next == \E c \in Connections :
    \/ Accept(c) \/ Reject(c)
    \/ ReadLine(c) \/ ReadEnd(c) \/ ReadStale(c)
    \/ Delivered(c) \/ FlushDone(c) \/ FlushFailed(c)
    \/ Send(c) \/ HangUp(c)

Spec == Init /\ [][Next]_vars

(* The main loop serves the callbacks that are due, and a flush ends. *)
Fairness == \A c \in Connections :
    /\ WF_vars(ReadLine(c) \/ ReadEnd(c) \/ ReadStale(c))
    /\ WF_vars(Delivered(c) \/ FlushDone(c) \/ FlushFailed(c))

FairSpec == Spec /\ Fairness

-----------------------------------------------------------------------------
TypeOK ==
    /\ process \in {"up", "crashed"}
    /\ clients \in [Ids -> Connections \union {NoClient}]
    /\ peer \in [Connections -> {"new", "connected", "gone"}]
    /\ id \in [Connections -> Ids]
    /\ perm \in [Connections -> SUBSET Permissions]
    /\ reads \in [Connections -> {0, 1}]
    /\ flush \in [Connections -> {"none", "running", "done"}]
    /\ refused \in [Connections -> Nat]
    /\ sent \in [Connections -> Seq(Lines)]
    /\ left \in [Connections -> Nat]
    /\ granted \in [Connections -> SUBSET Permissions]
    /\ changed \subseteq Connections
    /\ unknown \subseteq Names
    /\ unwritten \subseteq Connections

(* A client in the table has a read of its own outstanding under its own   *)
(* id, so that it will be heard; whatever callbacks of clients that are    *)
(* gone do to the table.                                                   *)
EveryClientIsRead ==
    \A i \in Ids : clients[i] # NoClient => reads[clients[i]] = 1 /\ id[clients[i]] = i

(* Only a client that was granted to, by default or with a password that   *)
(* it gave itself, has changed the database.                               *)
ChangesAreGranted ==
    \A c \in changed : "update" \in granted[c]

(* A client that hangs up is forgotten in the end. *)
GoneIsForgotten ==
    \A c \in Connections :
        peer[c] = "gone" ~> process = "crashed" \/ \A i \in Ids : clients[i] # c

(* Every line a client sends is handled, unless the client is dropped.     *)
LinesAreHandled ==
    \A c \in Connections :
        peer[c] # "new" /\ sent[c] # <<>> ~>
            \/ sent[c] = <<>> \/ process = "crashed"
            \/ \A i \in Ids : clients[i] # c

(* "This has to be sorted!": no command of the table is answered "unknown  *)
(* command".                                                               *)
EveryCommandKnown == unknown \intersect Names = {}

(* "Since we're writing to a BufferedOutputStream that autogrows this call *)
(* shouldn't fail or block": no write fails.                               *)
WritesSucceed == unwritten = {}

=============================================================================
