----------------------------- MODULE HttpIngest -----------------------------
(***************************************************************************)
(* The HTTP path: clients that post batches of events                      *)
(* (generator/src/main.cpp, http_client.cpp), the API server               *)
(* (api/src/http_server.cpp, event_handler.cpp, json.cpp) and, as an       *)
(* instance of ClickHouseClient, its insert of each row.                   *)
(*                                                                         *)
(* The server is one thread: it accepts a connection, reads it once,       *)
(* handles the request and closes the connection before it accepts the     *)
(* next. One read returns a part of the request only, so the handler may   *)
(* see fewer events than were posted.                                      *)
(*                                                                         *)
(* A definition named X_Y is X with the defect Y: no action uses it; it is *)
(* there to show that the properties tell X from it.                       *)
(***************************************************************************)
EXTENDS Integers, FiniteSets, Sequences

CONSTANTS
  Clients,      \* processes that post events
  Total,        \* a.count: events each client produces
  BatchSize,    \* a.batch
  Invalid,      \* the events <<client, number>> that fail validation
  WholeReads,   \* the clients whose requests fit into one read
  Backlog,      \* the argument of listen()
  NumUrls, Outcomes, MaxCopies

Events == Clients \X (1 .. Total)

ASSUME BatchAssumption == Total \in Nat /\ BatchSize \in Nat \ {0} /\ Backlog \in Nat \ {0}
ASSUME InvalidAssumption == Invalid \subseteq Events /\ WholeReads \subseteq Clients

VARIABLES
  phase,      \* [Clients -> ClientPhases]
  batch,      \* [Clients -> Seq(Events)]: events produced and not yet accounted for
  produced,   \* [Clients -> Nat]
  ok, fail,   \* [Clients -> Nat]: the counters of the generator
  reply,      \* [Clients -> the response on its way, or NoReply]
  backlog,    \* Seq(Clients): connections not yet accepted
  server,     \* the state of the accept loop
  current, call, stored

CH == INSTANCE ClickHouseClient WITH Rows <- Events

ASSUME ClientAssumption ==
  NumUrls \in Nat \ {0} /\ Outcomes \subseteq CH!AllOutcomes /\ MaxCopies \in Nat \ {0}

clientVars == <<phase, batch, produced, ok, fail>>
serverVars == <<backlog, server>>
chVars == <<current, call, stored>>
vars == <<clientVars, reply, serverVars, chVars>>

ClientPhases == {"idle", "connected", "sent"}
NoReply == [status |-> 0, accepted |-> 0, parsed |-> <<>>]
Accepting == [at |-> "accept", client |-> {}, rows |-> <<>>, next |-> 1, status |-> 0]

Init ==
  /\ phase = [c \in Clients |-> "idle"]
  /\ batch = [c \in Clients |-> <<>>]
  /\ produced = [c \in Clients |-> 0]
  /\ ok = [c \in Clients |-> 0]
  /\ fail = [c \in Clients |-> 0]
  /\ reply = [c \in Clients |-> NoReply]
  /\ backlog = <<>>
  /\ server = Accepting
  /\ CH!Init

-----------------------------------------------------------------------------
(* The client: the loop of the generator, one request at a time. *)

\* The next event joins the batch.
HasRoom_OneMore(c) == Len(batch[c]) <= BatchSize
HasRoom(c) == Len(batch[c]) < BatchSize

Produce(c) ==
  /\ phase[c] = "idle"
  /\ produced[c] < Total /\ HasRoom(c)
  /\ produced' = [produced EXCEPT ![c] = @ + 1]
  /\ batch' = [batch EXCEPT ![c] = Append(@, <<c, produced[c] + 1>>)]
  /\ UNCHANGED <<phase, ok, fail, reply, serverVars, chVars>>

\* send_http_batch sends a full batch, and the rest when all is produced.
BatchReady(c) ==
  /\ phase[c] = "idle"
  /\ Len(batch[c]) = BatchSize \/ (produced[c] = Total /\ batch[c] # <<>>)

Connect(c) ==
  /\ BatchReady(c)
  /\ Len(backlog) < Backlog
  /\ phase' = [phase EXCEPT ![c] = "connected"]
  /\ backlog' = Append(backlog, c)
  /\ UNCHANGED <<batch, produced, ok, fail, reply, server, chVars>>

Send(c) ==
  /\ phase[c] = "connected"
  /\ phase' = [phase EXCEPT ![c] = "sent"]
  /\ UNCHANGED <<batch, produced, ok, fail, reply, serverVars, chVars>>

\* The batch is dropped and counted as a whole, whatever became of its events:
\* as a success exactly if a response with a 2xx status was received.
Account(c, success) ==
  /\ ok' = [ok EXCEPT ![c] = @ + IF success THEN Len(batch[c]) ELSE 0]
  /\ fail' = [fail EXCEPT ![c] = @ + IF success THEN 0 ELSE Len(batch[c])]
  /\ batch' = [batch EXCEPT ![c] = <<>>]
  /\ UNCHANGED produced

\* connectTcp fails.
ConnectFails(c) ==
  /\ BatchReady(c)
  /\ Account(c, FALSE)
  /\ UNCHANGED <<phase, reply, serverVars, chVars>>

\* recvAll returns the response, or fails: closing a socket that was not read to
\* the end resets the connection, and the response may go with it.
Success_AnyStatus(c) == TRUE
Success(c) == reply[c].status \in 200 .. 299

Receive(c) ==
  /\ phase[c] = "sent" /\ reply[c] # NoReply
  /\ \E received \in BOOLEAN : Account(c, received /\ Success(c))
  /\ phase' = [phase EXCEPT ![c] = "idle"]
  /\ reply' = [reply EXCEPT ![c] = NoReply]
  /\ UNCHANGED <<serverVars, chVars>>

-----------------------------------------------------------------------------
(* The server. *)

Accept ==
  /\ server.at = "accept" /\ backlog # <<>>
  /\ server' = [Accepting EXCEPT !.at = "read", !.client = {Head(backlog)}]
  /\ backlog' = Tail(backlog)
  /\ UNCHANGED <<clientVars, reply, chVars>>

\* What parse_json_array makes of the part of the body that was read: a prefix of
\* the events; the event that is cut is dropped, or, if the cut is just behind
\* its payload, that inner object is taken for an event of its own.
Parsed(c) ==
  { [rows |-> SubSeq(batch[c], 1, n), stray |-> cut] :
      n \in IF c \in WholeReads THEN {Len(batch[c])} ELSE 0 .. Len(batch[c]),
      cut \in BOOLEAN }

Cuts(c) == {p \in Parsed(c) : p.stray => Len(p.rows) < Len(batch[c])}

\* Any error refuses the whole batch: an invalid event, or a stray payload, whose
\* keys are unknown.
HasErrors(p) == p.stray \/ \E i \in DOMAIN p.rows : p.rows[i] \in Invalid

\* read() blocks until the client has sent; then the whole request is validated
\* before the first row is inserted.
ReadAndValidate(c) ==
  /\ server.at = "read" /\ server.client = {c} /\ phase[c] = "sent"
  /\ \E p \in Cuts(c) :
       server' = [server EXCEPT
         !.rows = p.rows,
         !.at = IF HasErrors(p) THEN "reply" ELSE "insert",
         !.status = IF HasErrors(p) THEN 400 ELSE 200]
  /\ UNCHANGED <<clientVars, reply, backlog, chVars>>

\* The insert loop: the next row, one call at a time.
InsertNext ==
  /\ server.at = "insert" /\ server.next <= Len(server.rows)
  /\ CH!Begin(server.rows[server.next])
  /\ UNCHANGED <<clientVars, reply, serverVars>>

InsertAttempt ==
  /\ CH!Attempt
  /\ UNCHANGED <<clientVars, reply, serverVars>>

\* A false result ends the loop.
BreakOff_Continues == [server EXCEPT !.next = @ + 1, !.status = 502]
BreakOff_Retries == server
BreakOff == [server EXCEPT !.at = "reply", !.status = 502]

InsertReturn ==
  /\ server' = IF call.phase = "true" THEN [server EXCEPT !.next = @ + 1] ELSE BreakOff
  /\ CH!Return
  /\ UNCHANGED <<clientVars, reply, backlog>>

AllInserted_OffByOne == server.next > Len(server.rows) + 1
AllInserted == server.next > Len(server.rows)

InsertDone ==
  /\ server.at = "insert" /\ AllInserted
  /\ server' = [server EXCEPT !.at = "reply"]
  /\ UNCHANGED <<clientVars, reply, backlog, chVars>>

\* The response says how many rows were inserted; the connection is closed.
Respond(c) ==
  /\ server.at = "reply" /\ server.client = {c}
  /\ reply' = [reply EXCEPT ![c] =
       [status |-> server.status, accepted |-> server.next - 1, parsed |-> server.rows]]
  /\ server' = Accepting
  /\ UNCHANGED <<clientVars, backlog, chVars>>

-----------------------------------------------------------------------------

Client(c) ==
  Produce(c) \/ Connect(c) \/ Send(c) \/ ConnectFails(c) \/ Receive(c)

Server ==
  \/ Accept \/ InsertNext \/ InsertAttempt \/ InsertReturn \/ InsertDone
  \/ \E c \in Clients : ReadAndValidate(c) \/ Respond(c)

Next == Server \/ \E c \in Clients : Client(c)

Spec == Init /\ [][Next]_vars

\* The server goes on while it can: a thread blocked in read() or in a call of
\* curl that never ends has no step to take. Nothing obliges a client to send.
ServerFair == Spec /\ WF_vars(Server) /\ \A c \in Clients : WF_vars(Receive(c))

\* Every client sends what it has once it is connected.
FairSpec == ServerFair /\ \A c \in Clients : WF_vars(Send(c)) /\ WF_vars(Produce(c))
                                             /\ WF_vars(Connect(c))

-----------------------------------------------------------------------------
(* Properties. *)

IsStored(e) == stored[e] > 0
StoredOf(s) == {i \in DOMAIN s : IsStored(s[i])}

TypeOK ==
  /\ phase \in [Clients -> ClientPhases]
  /\ \A c \in Clients : batch[c] \in Seq(Events) /\ Len(batch[c]) <= BatchSize
  /\ produced \in [Clients -> 0 .. Total]
  /\ ok \in [Clients -> 0 .. Total] /\ fail \in [Clients -> 0 .. Total]
  /\ \A c \in Clients : /\ reply[c].status \in {0, 200, 400, 502}
                        /\ reply[c].accepted \in 0 .. BatchSize
  /\ backlog \in Seq(Clients) /\ Len(backlog) <= Backlog
  /\ server.at \in {"accept", "read", "insert", "reply"}
  /\ server.next \in 1 .. BatchSize + 1
  /\ CH!TypeOK

\* What a response says is true of raw_events: 200 means that every event that
\* was read is stored, 400 that none of the batch is, 502 with accepted = k that
\* the first k are and no event behind the k+1st is. The k+1st may be.
ReplyTruthful ==
  \A c \in Clients :
    LET r == reply[c] IN
    /\ r.status = 200 => StoredOf(r.parsed) = DOMAIN r.parsed
    /\ r.status = 400 => StoredOf(batch[c]) = {}
    /\ r.status = 502 => /\ 1 .. r.accepted \subseteq StoredOf(batch[c])
                         /\ StoredOf(batch[c]) \subseteq 1 .. r.accepted + 1

\* Whatever is cut off or fails, the stored events of a batch are its first ones.
StoredIsPrefix ==
  \A c \in Clients : \A i \in StoredOf(batch[c]) : 1 .. i \subseteq StoredOf(batch[c])

\* No event is posted twice, so more copies than one come from failover alone, and
\* there are never more than urls.
CopiesWithinUrls == \A e \in Events : stored[e] <= NumUrls

\* The insert of each row fails over as ClickHouseClient promises, whatever the
\* calls before it left in current_.
FailsOverInRing == CH!FailsOverInRing

\* When its requests are read whole, the generator counts no event as a success
\* that is not stored.
OkIsStored ==
  \A c \in WholeReads : ok[c] <= Cardinality({e \in Events : e[1] = c /\ IsStored(e)})

\* Every request is answered, whichever clients wait before it and whatever
\* ClickHouse does to the inserts, unless a call of curl never ends: there is no
\* time limit on it, and then it blocks the only thread.
EveryRequestAnswered ==
  \A c \in Clients : phase[c] = "sent" ~> (reply[c] # NoReply \/ call.phase = "hung")

\* docs/diagrams/sequence.puml:22 answers a valid batch of N events with
\* {status: ok, accepted: N}.
AcceptedIsSent ==
  \A c \in Clients : reply[c].status = 200 => reply[c].accepted = Len(batch[c])

\* README.md:92 says that the server handles connections asynchronously with
\* epoll: a client that has sent its request is answered although another one is
\* connected and silent.
SilentClientHarmless ==
  \A c \in Clients : phase[c] = "sent" ~> reply[c] # NoReply
=============================================================================
