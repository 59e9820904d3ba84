---------------------------- MODULE KafkaIngest ----------------------------
(***************************************************************************)
(* The Kafka path: the generator hands events to librdkafka                *)
(* (generator/src/kafka_producer.cpp, main.cpp), which delivers them to    *)
(* the topic in its own time; the Kafka tables raw_events_kafka of the two *)
(* ClickHouse nodes, members of one consumer group, pass what they poll    *)
(* through mv_kafka_to_raw into raw_events and commit the offsets          *)
(* afterwards (migrations/clickhouse/001_init.sql).                        *)
(*                                                                         *)
(* librdkafka, the broker and the Kafka engine are modelled as the code    *)
(* configures them: no delivery callback, no idempotent producer, one      *)
(* consumer per node, offsets committed after the insert. The topic is one *)
(* partition: offsets of different partitions do not interact.             *)
(*                                                                         *)
(* A definition named X_Y is X with the defect Y: no action uses it; it is *)
(* there to show that the properties tell X from it.                       *)
(***************************************************************************)
EXTENDS Integers, FiniteSets, Sequences

CONSTANTS
  Count,         \* a.count
  QueueLimit,    \* messages that librdkafka keeps for delivery
  Nodes,         \* the ClickHouse nodes
  PollMax,       \* messages that one poll returns at most
  MaxLostAcks,   \* bound on the deliveries whose acknowledgement is lost
  MaxExpiries,   \* bound on the messages that librdkafka gives up
  MaxFaults      \* bound on failed inserts and rebalances of the consumer group

ASSUME KafkaAssumption ==
  /\ Count \in Nat /\ QueueLimit \in Nat \ {0} /\ PollMax \in Nat \ {0}
  /\ IsFiniteSet(Nodes)
  /\ MaxLostAcks \in Nat /\ MaxExpiries \in Nat /\ MaxFaults \in Nat

Events == 1 .. Count
Offsets == 1 .. Count + MaxLostAcks

VARIABLES
  pc,          \* the generator: "loop", "flush" or "done"
  produced,    \* produced
  ok, fail,    \* its counters
  queue,       \* Seq(Events): accepted by librdkafka, not yet acknowledged
  log,         \* Seq(Events): the topic
  lostAcks, expired, dropped,   \* deliveries and messages that went wrong
  owner,       \* the node the partition is assigned to, as a set of one or none
  polled,      \* [Nodes -> Block]: the block of messages under way there
  committed,   \* the committed offset of the group
  stored,      \* [Offsets -> Nat]: copies of the message in raw_events
  faults

producer == <<pc, produced, ok, fail, queue, lostAcks, expired, dropped>>
consumer == <<owner, polled, committed, stored, faults>>
vars == <<producer, log, consumer>>

\* The offsets from + 1 .. to, polled as a member of the group, stored or not.
Block == [from : Nat, to : Nat, member : BOOLEAN, inserted : BOOLEAN]
NothingPolled == [from |-> 0, to |-> 0, member |-> FALSE, inserted |-> FALSE]

Init ==
  /\ pc = "loop" /\ produced = 0 /\ ok = 0 /\ fail = 0
  /\ queue = <<>> /\ log = <<>>
  /\ lostAcks = 0 /\ expired = 0 /\ dropped = 0
  /\ owner = {} /\ committed = 0 /\ faults = 0
  /\ polled = [n \in Nodes |-> NothingPolled]
  /\ stored = [o \in Offsets |-> 0]

-----------------------------------------------------------------------------
(* The generator and librdkafka. *)

\* KafkaProducer::send: the event is counted as ok as soon as it is queued, and as
\* failed when the queue is full. Nobody learns what becomes of it later.
HasSpace_Always == TRUE
HasSpace == Len(queue) < QueueLimit

CountedOk_Always == TRUE
CountedOk == HasSpace

Send ==
  /\ pc = "loop" /\ produced < Count
  /\ produced' = produced + 1
  /\ queue' = IF HasSpace THEN Append(queue, produced + 1) ELSE queue
  /\ \/ CountedOk /\ ok' = ok + 1 /\ UNCHANGED fail
     \/ ~CountedOk /\ fail' = fail + 1 /\ UNCHANGED ok
  /\ UNCHANGED <<pc, lostAcks, expired, dropped, log, consumer>>

\* The oldest message is appended to the log; when the acknowledgement is lost, it
\* will be sent again.
Deliver ==
  /\ queue # <<>>
  /\ log' = Append(log, Head(queue))
  /\ \/ queue' = Tail(queue) /\ UNCHANGED lostAcks
     \/ lostAcks < MaxLostAcks /\ lostAcks' = lostAcks + 1 /\ UNCHANGED queue
  /\ UNCHANGED <<pc, produced, ok, fail, expired, dropped, consumer>>

\* A message that could not be delivered for message.timeout.ms is given up.
Expire ==
  /\ queue # <<>> /\ expired < MaxExpiries
  /\ queue' = Tail(queue)
  /\ expired' = expired + 1
  /\ UNCHANGED <<pc, produced, ok, fail, lostAcks, dropped, log, consumer>>

\* After the loop: flush(5000), the result of which is ignored, and the end of the
\* process, which drops what is still queued.
StartFlush ==
  /\ pc = "loop" /\ produced = Count
  /\ pc' = "flush"
  /\ UNCHANGED <<produced, ok, fail, queue, lostAcks, expired, dropped, log, consumer>>

FlushDone ==
  /\ pc = "flush" /\ queue = <<>>
  /\ pc' = "done"
  /\ UNCHANGED <<produced, ok, fail, queue, lostAcks, expired, dropped, log, consumer>>

FlushTimeout ==
  /\ pc = "flush" /\ queue # <<>>
  /\ pc' = "done"
  /\ queue' = <<>>
  /\ dropped' = dropped + Len(queue)
  /\ UNCHANGED <<produced, ok, fail, lostAcks, expired, log, consumer>>

-----------------------------------------------------------------------------
(* The consumer group. *)

\* The partition goes to a node, away from the one that has it. What that one has
\* polled it may still insert, but no longer commit.
Assign(n) ==
  /\ owner # {n}
  /\ owner # {} => faults < MaxFaults
  /\ owner' = {n}
  /\ faults' = IF owner = {} THEN faults ELSE faults + 1
  /\ polled' = [m \in Nodes |-> [polled[m] EXCEPT !.member = FALSE]]
  /\ UNCHANGED <<producer, log, committed, stored>>

SmallerOf(a, b) == IF a < b THEN a ELSE b

\* The owner continues behind the committed offset.
PollFrom_End == Len(log) - 1
PollFrom == committed

Poll(n) ==
  /\ owner = {n} /\ polled[n] = NothingPolled
  /\ committed < Len(log)
  /\ polled' = [polled EXCEPT ![n] =
       [from |-> PollFrom, to |-> SmallerOf(PollFrom + PollMax, Len(log)),
        member |-> TRUE, inserted |-> FALSE]]
  /\ UNCHANGED <<producer, log, owner, committed, stored, faults>>

StorePolled(n) ==
  stored' = [o \in Offsets |->
    IF polled[n].from < o /\ o <= polled[n].to THEN stored[o] + 1 ELSE stored[o]]

\* The block goes through the view into raw_events ...
Insert(n) ==
  /\ polled[n].from < polled[n].to /\ ~polled[n].inserted
  /\ StorePolled(n)
  /\ polled' = [polled EXCEPT ![n].inserted = TRUE]
  /\ UNCHANGED <<producer, log, owner, committed, faults>>

\* ... and then its offsets are committed; the group refuses them from a node that
\* the partition was taken from meanwhile.
CommitOf_BehindByOne(n) == IF polled[n].member THEN polled[n].to - 1 ELSE committed
CommitOf(n) == IF polled[n].member THEN polled[n].to ELSE committed

Commit(n) ==
  /\ polled[n].inserted
  /\ committed' = CommitOf(n)
  /\ polled' = [polled EXCEPT ![n] = NothingPolled]
  /\ UNCHANGED <<producer, log, owner, stored, faults>>

\* The insert fails, with or without effect on raw_events, or the node stops before
\* it commits: the block will be polled again.
InsertFails(n) ==
  /\ polled[n].from < polled[n].to
  /\ faults < MaxFaults
  /\ faults' = faults + 1
  /\ UNCHANGED stored \/ (~polled[n].inserted /\ StorePolled(n))
  /\ polled' = [polled EXCEPT ![n] = NothingPolled]
  /\ UNCHANGED <<producer, log, owner, committed>>

-----------------------------------------------------------------------------

Generator == Send \/ StartFlush \/ FlushDone \/ FlushTimeout
Node(n) == Poll(n) \/ Insert(n) \/ Commit(n)

Next ==
  \/ Generator \/ Deliver \/ Expire
  \/ \E n \in Nodes : Assign(n) \/ Node(n) \/ InsertFails(n)

Spec == Init /\ [][Next]_vars

\* A consumer group without an owner gets one, and the nodes keep consuming. The
\* producer's side need not deliver anything.
FairSpec ==
  /\ Spec
  /\ WF_vars(owner = {} /\ \E n \in Nodes : Assign(n))
  /\ \A n \in Nodes : WF_vars(Node(n))

-----------------------------------------------------------------------------
(* Properties. *)

TypeOK ==
  /\ pc \in {"loop", "flush", "done"} /\ produced \in 0 .. Count
  /\ ok + fail = produced
  /\ queue \in Seq(Events) /\ Len(queue) <= QueueLimit
  /\ log \in Seq(Events) /\ Len(log) <= Count + MaxLostAcks
  /\ owner = {} \/ \E n \in Nodes : owner = {n}
  /\ polled \in [Nodes -> Block]
  /\ \A n \in Nodes : polled[n].from <= polled[n].to /\ polled[n].to <= Len(log)
  /\ \A n \in Nodes : polled[n].member => owner = {n}
  /\ stored \in [Offsets -> Nat]
  /\ committed \in 0 .. Len(log)

\* The group never commits past a message that is not in raw_events: a rebalance
\* or a failed insert repeats messages, it does not skip any.
CommittedIsStored == \A o \in 1 .. committed : stored[o] > 0

\* A message is in raw_events once more for each failed insert and each rebalance
\* at most. (These copies share partition and offset, hence dedup_key.)
CopiesExplained == \A o \in Offsets : stored[o] <= 1 + faults

InLog(e) == \E i \in DOMAIN log : log[i] = e
InQueue(e) == \E i \in DOMAIN queue : queue[i] = e

\* What the generator counts as ok is in the topic, on its way there, given up by
\* librdkafka or dropped at exit: the counter knows nothing of the last two.
OkIsAccountedFor ==
  ok <= Cardinality({e \in Events : InLog(e) \/ InQueue(e)}) + expired + dropped

\* What reached the topic is eventually in raw_events, whichever node dies or is
\* given the partition.
EventuallyStored == \A o \in Offsets : Len(log) >= o ~> stored[o] > 0
=============================================================================
