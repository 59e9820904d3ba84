------------------------- MODULE KafkaIngest_proofs -------------------------
(***************************************************************************)
(* The consumer group of the Kafka tables skips no message, makes no copy  *)
(* that no failure explains, and what became of the events that the        *)
(* generator counts as ok: for any number of nodes, messages, lost         *)
(* acknowledgements, expiries, failed inserts and rebalances.              *)
(***************************************************************************)
EXTENDS KafkaIngest, FiniteSetTheorems, SequenceTheorems, TLAPS

\* The producer: what is in the topic or on its way there was produced, or sent
\* again after a lost acknowledgement. So every offset is one of Offsets.
LogBounded ==
  /\ produced \in Nat /\ produced <= Count
  /\ lostAcks \in Nat /\ lostAcks <= MaxLostAcks
  /\ queue \in Seq(Events) /\ log \in Seq(Events)
  /\ Len(log) + Len(queue) <= produced + lostAcks

ConsumerTyped ==
  /\ committed \in Nat /\ committed <= Len(log)
  /\ polled \in [Nodes -> Block]
  /\ stored \in [Offsets -> Nat]

\* The block that a node has polled as a member of the group begins at the
\* committed offset: while it is a member no other node commits.
BlockAt(n) ==
  /\ polled[n].from <= polled[n].to /\ polled[n].to <= Len(log)
  /\ polled[n].member => owner = {n} /\ polled[n].from = committed
  /\ polled[n].inserted => \A o \in Offsets :
       polled[n].from < o /\ o <= polled[n].to => stored[o] > 0

IInv ==
  /\ LogBounded
  /\ ConsumerTyped
  /\ \A n \in Nodes : BlockAt(n)
  /\ CommittedIsStored

-----------------------------------------------------------------------------

LEMMA SequenceLengths ==
  ASSUME NEW S, NEW s \in Seq(S)
  PROVE  /\ Len(s) \in Nat
         /\ \A e \in S : Append(s, e) \in Seq(S) /\ Len(Append(s, e)) = Len(s) + 1
         /\ s # <<>> => /\ Head(s) \in S /\ Tail(s) \in Seq(S)
                        /\ Len(s) > 0 /\ Len(Tail(s)) = Len(s) - 1
<1>1. Len(s) \in Nat
  OBVIOUS
<1>2. \A e \in S : Append(s, e) \in Seq(S) /\ Len(Append(s, e)) = Len(s) + 1
  BY AppendProperties
<1>3. s # <<>> => Head(s) \in S /\ Tail(s) \in Seq(S) /\ Len(s) > 0 /\ Len(Tail(s)) = Len(s) - 1
  BY HeadTailProperties, EmptySeq
<1>4. QED
  BY <1>1, <1>2, <1>3

LEMMA Initially == Init => IInv
<1> SUFFICES ASSUME Init PROVE IInv
  OBVIOUS
<1>1. LogBounded
  BY KafkaAssumption DEF Init, LogBounded
<1>2. ConsumerTyped
  BY DEF Init, ConsumerTyped, Block, NothingPolled
<1>3. \A n \in Nodes : BlockAt(n)
  BY DEF Init, BlockAt, NothingPolled
<1>4. CommittedIsStored
  BY DEF Init, CommittedIsStored
<1>5. QED
  BY <1>1, <1>2, <1>3, <1>4 DEF IInv

\* The steps of the generator and of librdkafka: the topic only grows.
ProducerStep == Generator \/ Deliver \/ Expire

LEMMA ProducerKeepsLog ==
  ASSUME LogBounded, ProducerStep
  PROVE  LogBounded' /\ Len(log') >= Len(log)
<1>0. Len(queue) \in Nat /\ Len(log) \in Nat
  BY DEF LogBounded
<1>1. CASE Send
  <2>1. produced + 1 \in Events
    BY <1>1, KafkaAssumption DEF Send, LogBounded, Events
  <2>2. queue' \in Seq(Events) /\ Len(queue') <= Len(queue) + 1
    BY <1>0, <1>1, <2>1, SequenceLengths DEF Send, LogBounded
  <2>3. produced' = produced + 1 /\ produced < Count /\ UNCHANGED <<lostAcks, log>>
    BY <1>1 DEF Send
  <2>4. Len(queue') \in Nat
    BY <2>2
  <2>5. QED
    BY <1>0, <2>2, <2>3, <2>4, KafkaAssumption DEF LogBounded
<1>2. CASE StartFlush \/ FlushDone
  BY <1>0, <1>2 DEF StartFlush, FlushDone, LogBounded
<1>3. CASE FlushTimeout
  <2>1. queue' = <<>> /\ Len(queue') = 0 /\ queue' \in Seq(Events)
    BY <1>3 DEF FlushTimeout
  <2>2. QED
    BY <1>0, <1>3, <2>1 DEF FlushTimeout, LogBounded
<1>4. CASE Deliver
  <2>1. /\ Len(log') = Len(log) + 1 /\ log' \in Seq(Events)
        /\ Tail(queue) \in Seq(Events) /\ Len(Tail(queue)) = Len(queue) - 1
    BY <1>4, SequenceLengths DEF Deliver, LogBounded
  <2>2. \/ queue' = Tail(queue) /\ lostAcks' = lostAcks
        \/ queue' = queue /\ lostAcks' = lostAcks + 1 /\ lostAcks < MaxLostAcks
    BY <1>4 DEF Deliver
  <2>3. produced' = produced
    BY <1>4 DEF Deliver
  <2>4. CASE queue' = Tail(queue) /\ lostAcks' = lostAcks
    BY <1>0, <2>1, <2>3, <2>4 DEF LogBounded
  <2>5. CASE queue' = queue /\ lostAcks' = lostAcks + 1 /\ lostAcks < MaxLostAcks
    BY <1>0, <2>1, <2>3, <2>5, KafkaAssumption DEF LogBounded
  <2>6. QED
    BY <2>2, <2>4, <2>5
<1>5. CASE Expire
  <2>1. /\ queue' \in Seq(Events) /\ Len(queue') = Len(queue) - 1
        /\ UNCHANGED <<produced, lostAcks, log>>
    BY <1>5, SequenceLengths DEF Expire, LogBounded
  <2>2. QED
    BY <1>0, <2>1 DEF LogBounded
<1>6. QED
  BY <1>1, <1>2, <1>3, <1>4, <1>5 DEF ProducerStep, Generator

LEMMA ProducerStepKeeps ==
  ASSUME IInv, ProducerStep
  PROVE  IInv' /\ committed' = committed
<1>1. LogBounded' /\ Len(log') >= Len(log)
  BY ProducerKeepsLog DEF IInv
<1>2. UNCHANGED consumer
  BY DEF ProducerStep, Generator, Send, StartFlush, FlushDone, FlushTimeout, Deliver, Expire
<1>3. Len(log) \in Nat /\ Len(log') \in Nat
  BY <1>1 DEF IInv, LogBounded
<1>4. ConsumerTyped'
  BY <1>1, <1>2, <1>3 DEF IInv, ConsumerTyped, consumer
<1>5. ASSUME NEW n \in Nodes PROVE BlockAt(n)'
  <2>1. polled[n].to \in Nat
    BY DEF IInv, ConsumerTyped, Block
  <2>2. polled[n].to <= Len(log')
    BY <1>1, <1>3, <2>1 DEF IInv, BlockAt
  <2>3. UNCHANGED <<owner, polled, committed, stored>>
    BY <1>2 DEF consumer
  <2>4. QED
    BY <2>2, <2>3 DEF IInv, BlockAt
<1>6. CommittedIsStored'
  BY <1>2 DEF IInv, CommittedIsStored, consumer
<1>7. QED
  BY <1>1, <1>2, <1>4, <1>5, <1>6 DEF IInv, consumer

-----------------------------------------------------------------------------
(* The steps of the group. *)

LEMMA OffsetsOfLog ==
  ASSUME LogBounded
  PROVE  Len(log) \in Nat /\ 1 .. Len(log) \subseteq Offsets
<1>1. Len(log) \in Nat /\ Len(queue) \in Nat
  BY DEF LogBounded
<1>2. Len(log) <= Count + MaxLostAcks
  BY <1>1, KafkaAssumption DEF LogBounded
<1>3. QED
  BY <1>1, <1>2, KafkaAssumption DEF Offsets

\* Storing a block takes no copy away.
LEMMA StoreAdds ==
  ASSUME ConsumerTyped, NEW n \in Nodes, StorePolled(n)
  PROVE  /\ stored' \in [Offsets -> Nat]
         /\ \A o \in Offsets : stored'[o] >= stored[o]
         /\ \A o \in Offsets : polled[n].from < o /\ o <= polled[n].to => stored'[o] > 0
  BY DEF ConsumerTyped, StorePolled

LEMMA AssignKeeps ==
  ASSUME IInv, NEW n \in Nodes, Assign(n)
  PROVE  IInv' /\ committed' = committed
<1>1. /\ UNCHANGED <<producer, log, committed, stored>>
      /\ polled' = [m \in Nodes |-> [polled[m] EXCEPT !.member = FALSE]]
  BY DEF Assign
<1>2. LogBounded'
  BY <1>1 DEF IInv, LogBounded, producer
<1>3. ConsumerTyped'
  BY <1>1 DEF IInv, ConsumerTyped, Block
<1>4. ASSUME NEW m \in Nodes PROVE BlockAt(m)'
  <2>1. /\ polled'[m].from = polled[m].from /\ polled'[m].to = polled[m].to
        /\ polled'[m].inserted = polled[m].inserted /\ polled'[m].member = FALSE
    BY <1>1 DEF IInv, ConsumerTyped, Block
  <2>2. QED
    BY <1>1, <2>1 DEF IInv, BlockAt
<1>5. CommittedIsStored'
  BY <1>1 DEF IInv, CommittedIsStored
<1>6. QED
  BY <1>1, <1>2, <1>3, <1>4, <1>5 DEF IInv

LEMMA PollKeeps ==
  ASSUME IInv, NEW n \in Nodes, Poll(n)
  PROVE  IInv' /\ committed' = committed
<1> DEFINE upTo == SmallerOf(committed + PollMax, Len(log))
<1> DEFINE block == [from |-> committed, to |-> upTo, member |-> TRUE, inserted |-> FALSE]
<1>1. /\ UNCHANGED <<producer, log, owner, committed, stored>>
      /\ polled' = [polled EXCEPT ![n] = block]
      /\ owner = {n} /\ committed < Len(log)
  BY DEF Poll, PollFrom
<1>2. committed \in Nat /\ Len(log) \in Nat
  BY OffsetsOfLog DEF IInv, ConsumerTyped
<1>3. upTo \in Nat /\ committed <= upTo /\ upTo <= Len(log)
  BY <1>1, <1>2, KafkaAssumption DEF SmallerOf
<1> HIDE DEF upTo
<1>4. block \in Block
  BY <1>2, <1>3 DEF Block
<1>5. LogBounded'
  BY <1>1 DEF IInv, LogBounded, producer
<1>6. ConsumerTyped'
  BY <1>1, <1>4 DEF IInv, ConsumerTyped
<1>7. ASSUME NEW m \in Nodes PROVE BlockAt(m)'
  <2>1. CASE m = n
    <3>1. polled'[m] = block
      BY <1>1, <2>1 DEF IInv, ConsumerTyped
    <3>2. QED
      BY <1>1, <1>3, <2>1, <3>1 DEF BlockAt
  <2>2. CASE m # n
    <3>1. polled'[m] = polled[m]
      BY <1>1, <2>2 DEF IInv, ConsumerTyped
    <3>2. QED
      BY <1>1, <3>1 DEF IInv, BlockAt
  <2>3. QED
    BY <2>1, <2>2
<1>8. CommittedIsStored'
  BY <1>1 DEF IInv, CommittedIsStored
<1>9. QED
  BY <1>1, <1>5, <1>6, <1>7, <1>8 DEF IInv

LEMMA InsertKeeps ==
  ASSUME IInv, NEW n \in Nodes, Insert(n)
  PROVE  IInv' /\ committed' = committed
<1>1. /\ UNCHANGED <<producer, log, owner, committed>>
      /\ polled' = [polled EXCEPT ![n].inserted = TRUE]
      /\ StorePolled(n)
  BY DEF Insert
<1>2. /\ stored' \in [Offsets -> Nat]
      /\ \A o \in Offsets : stored'[o] >= stored[o]
      /\ \A o \in Offsets : polled[n].from < o /\ o <= polled[n].to => stored'[o] > 0
  BY <1>1, StoreAdds DEF IInv
<1>3. stored \in [Offsets -> Nat] /\ polled \in [Nodes -> Block]
  BY DEF IInv, ConsumerTyped
<1>4. \A o \in Offsets : stored[o] > 0 => stored'[o] > 0
  BY <1>2, <1>3
<1>5. LogBounded'
  BY <1>1 DEF IInv, LogBounded, producer
<1>6. ConsumerTyped'
  BY <1>1, <1>2 DEF IInv, ConsumerTyped, Block
<1>7. ASSUME NEW m \in Nodes PROVE BlockAt(m)'
  <2>1. /\ polled'[m].from = polled[m].from /\ polled'[m].to = polled[m].to
        /\ polled'[m].member = polled[m].member
        /\ polled'[m].inserted = IF m = n THEN TRUE ELSE polled[m].inserted
    BY <1>1, <1>3 DEF Block
  <2>2. polled'[m].inserted => \A o \in Offsets :
          polled'[m].from < o /\ o <= polled'[m].to => stored'[o] > 0
    BY <1>2, <1>4, <2>1 DEF IInv, BlockAt
  <2>3. QED
    BY <1>1, <2>1, <2>2 DEF IInv, BlockAt
<1>8. CommittedIsStored'
  <2>1. 1 .. committed \subseteq Offsets
    BY OffsetsOfLog DEF IInv, ConsumerTyped
  <2>2. QED
    BY <1>1, <1>4, <2>1 DEF IInv, CommittedIsStored
<1>9. QED
  BY <1>1, <1>5, <1>6, <1>7, <1>8 DEF IInv

LEMMA InsertFailsKeeps ==
  ASSUME IInv, NEW n \in Nodes, InsertFails(n)
  PROVE  IInv' /\ committed' = committed
<1>1. /\ UNCHANGED <<producer, log, owner, committed>>
      /\ polled' = [polled EXCEPT ![n] = NothingPolled]
      /\ UNCHANGED stored \/ StorePolled(n)
  BY DEF InsertFails
<1>2. stored' \in [Offsets -> Nat] /\ \A o \in Offsets : stored'[o] >= stored[o]
  BY <1>1, StoreAdds DEF IInv, ConsumerTyped
<1>3. stored \in [Offsets -> Nat] /\ polled \in [Nodes -> Block]
  BY DEF IInv, ConsumerTyped
<1>4. \A o \in Offsets : stored[o] > 0 => stored'[o] > 0
  BY <1>2, <1>3
<1>5. LogBounded'
  BY <1>1 DEF IInv, LogBounded, producer
<1>6. ConsumerTyped'
  BY <1>1, <1>2 DEF IInv, ConsumerTyped, Block, NothingPolled
<1>7. ASSUME NEW m \in Nodes PROVE BlockAt(m)'
  <2>1. CASE m = n
    <3>1. polled'[m] = NothingPolled /\ Len(log') \in Nat
      BY <1>1, <1>3, <2>1, OffsetsOfLog DEF IInv
    <3>2. QED
      BY <3>1 DEF BlockAt, NothingPolled
  <2>2. CASE m # n
    <3>1. polled'[m] = polled[m]
      BY <1>1, <1>3, <2>2
    <3>2. QED
      BY <1>1, <1>4, <3>1 DEF IInv, BlockAt
  <2>3. QED
    BY <2>1, <2>2
<1>8. CommittedIsStored'
  <2>1. 1 .. committed \subseteq Offsets
    BY OffsetsOfLog DEF IInv, ConsumerTyped
  <2>2. QED
    BY <1>1, <1>4, <2>1 DEF IInv, CommittedIsStored
<1>9. QED
  BY <1>1, <1>5, <1>6, <1>7, <1>8 DEF IInv

\* A member commits the end of a stored block that begins at the committed offset;
\* the others do not change it.
LEMMA CommitKeeps ==
  ASSUME IInv, NEW n \in Nodes, Commit(n)
  PROVE  IInv' /\ committed' >= committed
<1>1. /\ UNCHANGED <<producer, log, owner, stored>>
      /\ polled' = [polled EXCEPT ![n] = NothingPolled]
      /\ polled[n].inserted
      /\ committed' = IF polled[n].member THEN polled[n].to ELSE committed
  BY DEF Commit, CommitOf
<1>2. /\ polled \in [Nodes -> Block] /\ stored \in [Offsets -> Nat]
      /\ committed \in Nat /\ committed <= Len(log) /\ Len(log) \in Nat
      /\ 1 .. Len(log) \subseteq Offsets
  BY OffsetsOfLog DEF IInv, ConsumerTyped
<1>3. polled[n].to \in Nat /\ polled[n].from \in Nat
  BY <1>2 DEF Block
<1>4. committed' \in Nat /\ committed <= committed' /\ committed' <= Len(log)
  <2>1. CASE polled[n].member
    <3>1. /\ polled[n].from = committed /\ polled[n].from <= polled[n].to
          /\ polled[n].to <= Len(log)
      BY <2>1 DEF IInv, BlockAt
    <3>2. QED
      BY <1>1, <1>2, <1>3, <2>1, <3>1
  <2>2. CASE ~polled[n].member
    BY <1>1, <1>2, <2>2
  <2>3. QED
    BY <2>1, <2>2
<1>5. LogBounded'
  BY <1>1 DEF IInv, LogBounded, producer
<1>6. ConsumerTyped'
  BY <1>1, <1>2, <1>4 DEF ConsumerTyped, Block, NothingPolled
<1>7. ASSUME NEW m \in Nodes PROVE BlockAt(m)'
  <2>1. CASE m = n
    <3>1. polled'[m] = NothingPolled
      BY <1>1, <1>2, <2>1
    <3>2. QED
      BY <1>1, <1>2, <3>1 DEF BlockAt, NothingPolled
  <2>2. CASE m # n
    <3>1. polled'[m] = polled[m]
      BY <1>1, <1>2, <2>2
    <3>2. polled[m].member => committed' = committed
      <4>1. polled[m].member => owner = {m}
        BY DEF IInv, BlockAt
      <4>2. polled[n].member => owner = {n}
        BY DEF IInv, BlockAt
      <4>3. QED
        BY <1>1, <2>2, <4>1, <4>2
    <3>3. QED
      BY <1>1, <3>1, <3>2 DEF IInv, BlockAt
  <2>3. QED
    BY <2>1, <2>2
<1>8. CommittedIsStored'
  <2>1. ASSUME NEW o \in 1 .. committed' PROVE stored[o] > 0
    <3>1. o \in Offsets
      BY <1>2, <1>4
    <3>2. CASE o <= committed
      BY <1>2, <3>2 DEF IInv, CommittedIsStored
    <3>3. CASE ~(o <= committed)
      <4>1. polled[n].member /\ o <= polled[n].to
        BY <1>1, <1>2, <1>4, <3>3
      <4>2. polled[n].from < o
        BY <1>2, <1>4, <3>3, <4>1 DEF IInv, BlockAt
      <4>3. QED
        BY <1>1, <3>1, <4>1, <4>2 DEF IInv, BlockAt
    <3>4. QED
      BY <3>2, <3>3
  <2>2. QED
    BY <1>1, <2>1 DEF CommittedIsStored
<1>9. QED
  BY <1>4, <1>5, <1>6, <1>7, <1>8 DEF IInv

-----------------------------------------------------------------------------

LEMMA StepKeeps == IInv /\ [Next]_vars => IInv' /\ committed' >= committed
<1> SUFFICES ASSUME IInv, [Next]_vars PROVE IInv' /\ committed' >= committed
  OBVIOUS
<1>1. committed \in Nat
  BY DEF IInv, ConsumerTyped
<1>2. CASE ProducerStep
  BY <1>1, <1>2, ProducerStepKeeps
<1>3. ASSUME NEW n \in Nodes, Assign(n) \/ Poll(n) \/ Insert(n) \/ InsertFails(n)
      PROVE  IInv' /\ committed' >= committed
  BY <1>1, <1>3, AssignKeeps, PollKeeps, InsertKeeps, InsertFailsKeeps
<1>4. ASSUME NEW n \in Nodes, Commit(n) PROVE IInv' /\ committed' >= committed
  BY <1>4, CommitKeeps
<1>5. CASE UNCHANGED vars
  <2>1. UNCHANGED <<producer, log, consumer>>
    BY <1>5 DEF vars
  <2>2. LogBounded'
    BY <2>1 DEF IInv, LogBounded, producer
  <2>3. ConsumerTyped' /\ CommittedIsStored' /\ \A n \in Nodes : BlockAt(n)'
    BY <2>1 DEF IInv, ConsumerTyped, CommittedIsStored, BlockAt, consumer
  <2>4. QED
    BY <1>1, <2>1, <2>2, <2>3 DEF IInv, consumer
<1>6. QED
  BY <1>2, <1>3, <1>4, <1>5 DEF Next, Node, ProducerStep

\* The inductive invariant holds in every reachable state.
THEOREM Inductive == Spec => []IInv
  BY Initially, StepKeeps, PTL DEF Spec

\* The Kafka tables never commit past a message that is not in raw_events.
THEOREM NothingSkippedByGroup == Spec => []CommittedIsStored
<1>1. IInv => CommittedIsStored
  BY DEF IInv
<1>2. QED
  BY <1>1, Inductive, PTL

\* What TypeOK says of the generator and of the owner.
GeneratorTyped ==
  /\ pc \in {"loop", "flush", "done"}
  /\ ok \in Nat /\ fail \in Nat /\ ok + fail = produced
  /\ Len(queue) <= QueueLimit
  /\ owner = {} \/ \E n \in Nodes : owner = {n}

LEMMA GeneratorStepTyped == IInv /\ GeneratorTyped /\ [Next]_vars => GeneratorTyped'
<1> SUFFICES ASSUME IInv, GeneratorTyped, [Next]_vars PROVE GeneratorTyped'
  OBVIOUS
<1>1. produced \in Nat /\ queue \in Seq(Events) /\ Len(queue) \in Nat
  BY SequenceLengths DEF IInv, LogBounded
<1>2. CASE Send
  <2>1. produced + 1 \in Events
    BY <1>1, <1>2, KafkaAssumption DEF Send, Events
  <2>2. Len(queue') <= QueueLimit
    BY <1>1, <1>2, <2>1, SequenceLengths, KafkaAssumption DEF Send, HasSpace, GeneratorTyped
  <2>3. ok' \in Nat /\ fail' \in Nat /\ ok' + fail' = produced'
    BY <1>1, <1>2 DEF Send, GeneratorTyped
  <2>4. UNCHANGED <<pc, owner>>
    BY <1>2 DEF Send, consumer
  <2>5. QED
    BY <2>2, <2>3, <2>4 DEF GeneratorTyped
<1>3. CASE Deliver \/ Expire \/ FlushTimeout
  <2>1. queue' \in {queue, Tail(queue), <<>>} /\ queue # <<>>
    BY <1>3 DEF Deliver, Expire, FlushTimeout
  <2>2. Len(queue') <= QueueLimit
    BY <1>1, <2>1, SequenceLengths, KafkaAssumption DEF GeneratorTyped
  <2>3. UNCHANGED <<ok, fail, produced, owner>> /\ pc' \in {"loop", "flush", "done"}
    BY <1>3 DEF Deliver, Expire, FlushTimeout, consumer, GeneratorTyped
  <2>4. QED
    BY <2>2, <2>3 DEF GeneratorTyped
<1>4. CASE StartFlush \/ FlushDone
  BY <1>4 DEF StartFlush, FlushDone, consumer, GeneratorTyped
<1>5. ASSUME NEW n \in Nodes, Assign(n) \/ Node(n) \/ InsertFails(n) PROVE GeneratorTyped'
  <2>1. UNCHANGED <<pc, produced, ok, fail, queue>> /\ owner' \in {owner, {n}}
    BY <1>5 DEF Assign, Node, Poll, Insert, Commit, InsertFails, producer
  <2>2. QED
    BY <2>1 DEF GeneratorTyped
<1>6. CASE UNCHANGED vars
  BY <1>6 DEF GeneratorTyped, vars, producer, consumer
<1>7. QED
  BY <1>2, <1>3, <1>4, <1>5, <1>6 DEF Next, Generator

\* The variables of the generator, the topic and the group keep their types.
THEOREM TypeCorrect == Spec => []TypeOK
<1>1. Init => GeneratorTyped
  BY KafkaAssumption DEF Init, GeneratorTyped
<1>2. IInv /\ GeneratorTyped => TypeOK
  <2> SUFFICES ASSUME IInv, GeneratorTyped PROVE TypeOK
    OBVIOUS
  <2>1. /\ produced \in 0 .. Count /\ committed \in 0 .. Len(log)
        /\ Len(log) <= Count + MaxLostAcks
    <3>1. Len(queue) \in Nat /\ Len(log) \in Nat
      BY DEF IInv, LogBounded
    <3>2. QED
      BY <3>1, KafkaAssumption DEF IInv, LogBounded, ConsumerTyped
  <2>2. QED
    BY <2>1 DEF TypeOK, IInv, LogBounded, ConsumerTyped, BlockAt, GeneratorTyped
<1>3. QED
  BY <1>1, <1>2, GeneratorStepTyped, Inductive, PTL DEF Spec

-----------------------------------------------------------------------------
(* Copies. *)

InBlock(o, n) == polled[n].from < o /\ o <= polled[n].to

\* The nodes that may still insert a message.
Pending(o) == {n \in Nodes : ~polled[n].inserted /\ InBlock(o, n)}

\* The group is past a message, or a member is about to take it there: nobody
\* polls it unless something fails.
Covered(o) == o <= committed \/ \E n \in Nodes : polled[n].member /\ InBlock(o, n)

\* Every copy, there or still possible, is accounted for by a failure, but for one.
CopyInv ==
  /\ faults \in Nat
  /\ \A o \in Offsets :
       stored[o] + Cardinality(Pending(o)) <= faults + IF Covered(o) THEN 1 ELSE 0

LEMMA PendingFinite ==
  ASSUME NEW o
  PROVE  IsFiniteSet(Pending(o)) /\ Cardinality(Pending(o)) \in Nat
<1>1. Pending(o) \subseteq Nodes
  BY DEF Pending
<1>2. QED
  BY <1>1, KafkaAssumption, FS_Subset, FS_CardinalityType

\* One node less.
LEMMA PendingLess ==
  ASSUME NEW o, NEW n, Pending(o)' = Pending(o) \ {n}
  PROVE  Cardinality(Pending(o)') = Cardinality(Pending(o)) - IF n \in Pending(o) THEN 1 ELSE 0
<1>1. Cardinality(Pending(o) \ {n}) =
        IF n \in Pending(o) THEN Cardinality(Pending(o)) - 1 ELSE Cardinality(Pending(o))
  BY PendingFinite, FS_RemoveElement
<1>2. Cardinality(Pending(o)) \in Nat
  BY PendingFinite
<1>3. QED
  BY <1>1, <1>2

LEMMA CopiesInitially == Init => CopyInv
<1> SUFFICES ASSUME Init, NEW o \in Offsets PROVE stored[o] + Cardinality(Pending(o)) = 0
  BY DEF Init, CopyInv
<1>1. o \in Nat
  BY KafkaAssumption DEF Offsets
<1>2. Pending(o) = {}
  BY <1>1 DEF Init, Pending, InBlock, NothingPolled
<1>3. QED
  BY <1>2, FS_EmptySet DEF Init

LEMMA AssignCopies ==
  ASSUME IInv, CopyInv, NEW n \in Nodes, Assign(n)
  PROVE  CopyInv'
<1>1. /\ polled' = [m \in Nodes |-> [polled[m] EXCEPT !.member = FALSE]]
      /\ faults' = IF owner = {} THEN faults ELSE faults + 1
      /\ UNCHANGED <<committed, stored>>
  BY DEF Assign
<1>2. \A m \in Nodes : /\ polled'[m].from = polled[m].from /\ polled'[m].to = polled[m].to
                       /\ polled'[m].inserted = polled[m].inserted
  BY <1>1 DEF IInv, ConsumerTyped, Block
<1>3. faults' \in Nat
  BY <1>1 DEF CopyInv
<1>4. ASSUME NEW o \in Offsets
      PROVE  (stored[o] + Cardinality(Pending(o)) <= faults + IF Covered(o) THEN 1 ELSE 0)'
  <2>1. Pending(o)' = Pending(o)
    BY <1>2 DEF Pending, InBlock
  <2>2. stored[o] \in Nat /\ Cardinality(Pending(o)) \in Nat /\ faults \in Nat
    BY PendingFinite DEF IInv, ConsumerTyped, CopyInv
  <2>3. stored[o] + Cardinality(Pending(o)) <= faults + IF Covered(o) THEN 1 ELSE 0
    BY DEF CopyInv
  <2>4. CASE owner = {}
    <3>1. \A m \in Nodes : ~polled[m].member
      BY <2>4 DEF IInv, BlockAt
    <3>2. Covered(o) => Covered(o)'
      BY <1>1, <3>1 DEF Covered
    <3>3. QED
      BY <1>1, <2>1, <2>2, <2>3, <2>4, <3>2
  <2>5. CASE owner # {}
    BY <1>1, <2>1, <2>2, <2>3, <2>5
  <2>6. QED
    BY <2>4, <2>5
<1>5. QED
  BY <1>3, <1>4 DEF CopyInv

\* What is polled is polled by the only member, behind the committed offset.
LEMMA PollCopies ==
  ASSUME IInv, CopyInv, NEW n \in Nodes, Poll(n)
  PROVE  CopyInv'
<1> DEFINE upTo == SmallerOf(committed + PollMax, Len(log))
<1> DEFINE block == [from |-> committed, to |-> upTo, member |-> TRUE, inserted |-> FALSE]
<1>1. /\ polled' = [polled EXCEPT ![n] = block]
      /\ owner = {n} /\ polled[n] = NothingPolled
      /\ UNCHANGED <<committed, stored, faults>>
  BY DEF Poll, PollFrom
<1> HIDE DEF upTo
<1>2. polled \in [Nodes -> Block] /\ committed \in Nat
  BY DEF IInv, ConsumerTyped
<1>3. polled'[n] = block /\ \A m \in Nodes \ {n} : polled'[m] = polled[m]
  BY <1>1, <1>2
<1>4. \A m \in Nodes : ~polled[m].member
  BY <1>1 DEF IInv, BlockAt, NothingPolled
<1>5. ASSUME NEW o \in Offsets
      PROVE  (stored[o] + Cardinality(Pending(o)) <= faults + IF Covered(o) THEN 1 ELSE 0)'
  <2>1. o \in Nat
    BY KafkaAssumption DEF Offsets
  <2>2. stored[o] \in Nat /\ Cardinality(Pending(o)) \in Nat /\ faults \in Nat
    BY PendingFinite DEF IInv, ConsumerTyped, CopyInv
  <2>3. stored[o] + Cardinality(Pending(o)) <= faults + IF o <= committed THEN 1 ELSE 0
    BY <1>4 DEF CopyInv, Covered
  <2>4. n \notin Pending(o)
    BY <1>1, <2>1 DEF Pending, InBlock, NothingPolled
  <2>5. CASE committed < o /\ o <= upTo
    <3>1. Pending(o)' = Pending(o) \cup {n}
      BY <1>3, <2>5 DEF Pending, InBlock
    <3>2. Cardinality(Pending(o)') = Cardinality(Pending(o)) + 1
      BY <2>4, <3>1, PendingFinite, FS_AddElement
    <3>3. Covered(o)'
      BY <1>3, <2>5 DEF Covered, InBlock
    <3>4. ~(o <= committed)
      BY <1>2, <2>1, <2>5
    <3>5. QED
      BY <1>1, <2>2, <2>3, <3>2, <3>3, <3>4
  <2>6. CASE ~(committed < o /\ o <= upTo)
    <3>1. Pending(o)' = Pending(o)
      BY <1>3, <2>4, <2>6 DEF Pending, InBlock
    <3>2. o <= committed => Covered(o)'
      BY <1>1 DEF Covered
    <3>3. QED
      BY <1>1, <2>2, <2>3, <3>1, <3>2
  <2>7. QED
    BY <2>5, <2>6
<1>6. QED
  BY <1>1, <1>5 DEF CopyInv

LEMMA StoreCopies ==
  ASSUME IInv, NEW n \in Nodes, StorePolled(n), ~polled[n].inserted, NEW o \in Offsets
  PROVE  stored'[o] = stored[o] + IF n \in Pending(o) THEN 1 ELSE 0
<1>1. stored[o] \in Nat
  BY DEF IInv, ConsumerTyped
<1>2. QED
  BY <1>1 DEF StorePolled, Pending, InBlock

LEMMA InsertCopies ==
  ASSUME IInv, CopyInv, NEW n \in Nodes, Insert(n)
  PROVE  CopyInv'
<1>1. /\ polled' = [polled EXCEPT ![n].inserted = TRUE]
      /\ StorePolled(n) /\ ~polled[n].inserted
      /\ UNCHANGED <<committed, faults>>
  BY DEF Insert
<1>2. \A m \in Nodes : /\ polled'[m].from = polled[m].from /\ polled'[m].to = polled[m].to
                       /\ polled'[m].member = polled[m].member
                       /\ polled'[m].inserted = IF m = n THEN TRUE ELSE polled[m].inserted
  BY <1>1 DEF IInv, ConsumerTyped, Block
<1>3. ASSUME NEW o \in Offsets
      PROVE  (stored[o] + Cardinality(Pending(o)) <= faults + IF Covered(o) THEN 1 ELSE 0)'
  <2>1. stored[o] \in Nat /\ Cardinality(Pending(o)) \in Nat /\ faults \in Nat
    BY PendingFinite DEF IInv, ConsumerTyped, CopyInv
  <2>2. stored[o] + Cardinality(Pending(o)) <= faults + IF Covered(o) THEN 1 ELSE 0
    BY DEF CopyInv
  <2>3. Pending(o)' = Pending(o) \ {n}
    BY <1>2 DEF Pending, InBlock
  <2>4. stored'[o] + Cardinality(Pending(o)') = stored[o] + Cardinality(Pending(o))
    <3>1. stored'[o] = stored[o] + IF n \in Pending(o) THEN 1 ELSE 0
      BY <1>1, StoreCopies
    <3>2. Cardinality(Pending(o)') = Cardinality(Pending(o)) - IF n \in Pending(o) THEN 1 ELSE 0
      BY <2>3, PendingLess
    <3>3. QED
      BY <2>1, <3>1, <3>2
  <2>5. Covered(o)' = Covered(o)
    BY <1>1, <1>2 DEF Covered, InBlock
  <2>6. QED
    BY <1>1, <2>2, <2>4, <2>5
<1>4. QED
  BY <1>1, <1>3 DEF CopyInv

\* A node lets go of its block: it does not insert it any more.
LEMMA LetGo ==
  ASSUME IInv, NEW n \in Nodes, polled' = [polled EXCEPT ![n] = NothingPolled], NEW o \in Offsets
  PROVE  /\ polled'[n] = NothingPolled /\ \A m \in Nodes \ {n} : polled'[m] = polled[m]
         /\ Pending(o)' = Pending(o) \ {n}
<1>1. o \in Nat /\ o > 0
  BY KafkaAssumption DEF Offsets
<1>2. polled'[n] = NothingPolled /\ \A m \in Nodes \ {n} : polled'[m] = polled[m]
  BY DEF IInv, ConsumerTyped
<1>3. n \notin Pending(o)'
  BY <1>1, <1>2 DEF Pending, InBlock, NothingPolled
<1>4. \A m \in Nodes \ {n} : m \in Pending(o)' <=> m \in Pending(o)
  BY <1>2 DEF Pending, InBlock
<1>5. Pending(o)' \subseteq Nodes /\ Pending(o) \subseteq Nodes
  BY DEF Pending
<1>6. QED
  BY <1>2, <1>3, <1>4, <1>5

LEMMA CommitCopies ==
  ASSUME IInv, CopyInv, NEW n \in Nodes, Commit(n)
  PROVE  CopyInv'
<1>1. /\ polled' = [polled EXCEPT ![n] = NothingPolled] /\ polled[n].inserted
      /\ committed' = IF polled[n].member THEN polled[n].to ELSE committed
      /\ UNCHANGED <<stored, faults>>
  BY DEF Commit, CommitOf
<1>2. committed' \in Nat /\ committed \in Nat /\ committed' >= committed
  BY CommitKeeps DEF IInv, ConsumerTyped
<1>3. ASSUME NEW o \in Offsets
      PROVE  (stored[o] + Cardinality(Pending(o)) <= faults + IF Covered(o) THEN 1 ELSE 0)'
  <2>1. stored[o] \in Nat /\ Cardinality(Pending(o)) \in Nat /\ faults \in Nat /\ o \in Nat
    BY PendingFinite, KafkaAssumption DEF IInv, ConsumerTyped, CopyInv, Offsets
  <2>2. stored[o] + Cardinality(Pending(o)) <= faults + IF Covered(o) THEN 1 ELSE 0
    BY DEF CopyInv
  <2>3. /\ \A m \in Nodes \ {n} : polled'[m] = polled[m]
        /\ Pending(o)' = Pending(o) \ {n}
    BY <1>1, LetGo
  <2>4. n \notin Pending(o)
    BY <1>1 DEF Pending
  <2>5. Pending(o)' = Pending(o)
    BY <2>3, <2>4
  <2>6. Covered(o) => Covered(o)'
    <3>1. CASE o <= committed
      BY <1>2, <2>1, <3>1 DEF Covered
    <3>2. ASSUME NEW m \in Nodes, polled[m].member, InBlock(o, m) PROVE Covered(o)'
      <4>1. CASE m = n
        BY <1>1, <3>2, <4>1 DEF Covered, InBlock
      <4>2. CASE m # n
        BY <2>3, <3>2, <4>2 DEF Covered, InBlock
      <4>3. QED
        BY <4>1, <4>2
    <3>3. QED
      BY <3>1, <3>2 DEF Covered
  <2>7. QED
    BY <1>1, <2>1, <2>2, <2>5, <2>6
<1>4. QED
  BY <1>1, <1>3 DEF CopyInv

LEMMA InsertFailsCopies ==
  ASSUME IInv, CopyInv, NEW n \in Nodes, InsertFails(n)
  PROVE  CopyInv'
<1>1. /\ polled' = [polled EXCEPT ![n] = NothingPolled]
      /\ UNCHANGED stored \/ (~polled[n].inserted /\ StorePolled(n))
      /\ faults' = faults + 1
  BY DEF InsertFails
<1>2. ASSUME NEW o \in Offsets
      PROVE  (stored[o] + Cardinality(Pending(o)) <= faults + IF Covered(o) THEN 1 ELSE 0)'
  <2>1. stored[o] \in Nat /\ Cardinality(Pending(o)) \in Nat /\ faults \in Nat
    BY PendingFinite DEF IInv, ConsumerTyped, CopyInv
  <2>2. stored[o] + Cardinality(Pending(o)) <= faults + 1
    BY <2>1 DEF CopyInv
  <2>3. Cardinality(Pending(o)') = Cardinality(Pending(o)) - IF n \in Pending(o) THEN 1 ELSE 0
    BY <1>1, LetGo, PendingLess
  <2>4. \/ stored'[o] = stored[o]
        \/ stored'[o] = stored[o] + IF n \in Pending(o) THEN 1 ELSE 0
    BY <1>1, StoreCopies
  <2>5. stored'[o] + Cardinality(Pending(o)') <= faults + 1
    BY <2>1, <2>2, <2>3, <2>4
  <2>6. stored'[o] + Cardinality(Pending(o)') \in Int
    BY <2>1, <2>3, <2>4
  <2>7. QED
    BY <1>1, <2>1, <2>5, <2>6
<1>3. QED
  BY <1>1, <1>2 DEF CopyInv

LEMMA CopiesStep == IInv /\ CopyInv /\ [Next]_vars => CopyInv'
<1> SUFFICES ASSUME IInv, CopyInv, [Next]_vars PROVE CopyInv'
  OBVIOUS
<1>1. CASE ProducerStep \/ UNCHANGED vars
  <2>1. UNCHANGED consumer
    BY <1>1 DEF ProducerStep, Generator, Send, StartFlush, FlushDone, FlushTimeout, Deliver,
                Expire, vars
  <2>2. QED
    BY <2>1 DEF consumer, CopyInv, Pending, Covered, InBlock
<1>2. ASSUME NEW n \in Nodes, Assign(n) \/ Node(n) \/ InsertFails(n) PROVE CopyInv'
  BY <1>2, AssignCopies, PollCopies, InsertCopies, CommitCopies, InsertFailsCopies DEF Node
<1>3. QED
  BY <1>1, <1>2 DEF Next, ProducerStep

\* A message is in raw_events once, and once more for each failure at most.
THEOREM CopiesCounted == Spec => []CopiesExplained
<1>1. IInv /\ CopyInv => CopiesExplained
  <2> SUFFICES ASSUME IInv, CopyInv, NEW o \in Offsets PROVE stored[o] <= 1 + faults
    BY DEF CopiesExplained
  <2>1. stored[o] \in Nat /\ Cardinality(Pending(o)) \in Nat /\ faults \in Nat
    BY PendingFinite DEF IInv, ConsumerTyped, CopyInv
  <2>2. QED
    BY <2>1 DEF CopyInv
<1>2. QED
  BY <1>1, CopiesInitially, CopiesStep, Inductive, PTL DEF Spec

-----------------------------------------------------------------------------
(* Events. *)

In(x, s) == \E i \in DOMAIN s : s[i] = x

\* The events that reached the topic or are on their way.
Accounted == {e \in Events : InLog(e) \/ InQueue(e)}

\* Events get there in the order of their numbers, so the next one is new.
AccountInv ==
  /\ ok \in Nat /\ expired \in Nat /\ dropped \in Nat
  /\ \A e \in Accounted : e <= produced
  /\ OkIsAccountedFor

LEMMA InAppend ==
  ASSUME NEW S, NEW s \in Seq(S), NEW e \in S, NEW x
  PROVE  In(x, Append(s, e)) <=> x = e \/ In(x, s)
<1>1. /\ Len(s) \in Nat /\ DOMAIN s = 1 .. Len(s)
      /\ DOMAIN Append(s, e) = 1 .. Len(s) + 1
      /\ \A i \in 1 .. Len(s) : Append(s, e)[i] = s[i]
      /\ Append(s, e)[Len(s) + 1] = e
  BY AppendProperties, LenProperties
<1>2. QED
  BY <1>1 DEF In

LEMMA InHeadTail ==
  ASSUME NEW S, NEW s \in Seq(S), s # <<>>, NEW x
  PROVE  In(x, s) <=> x = Head(s) \/ In(x, Tail(s))
<1>1. /\ Len(s) \in Nat /\ Len(s) > 0 /\ DOMAIN s = 1 .. Len(s)
      /\ Head(s) = s[1]
      /\ Tail(s) \in Seq(S) /\ Len(Tail(s)) = Len(s) - 1
      /\ \A i \in 1 .. Len(s) - 1 : Tail(s)[i] = s[i + 1]
  BY HeadTailProperties, LenProperties, EmptySeq
<1>2. DOMAIN Tail(s) = 1 .. Len(s) - 1
  BY <1>1, LenProperties
<1>3. ASSUME In(x, s), x # Head(s) PROVE In(x, Tail(s))
  <2>1. PICK i \in 1 .. Len(s) : s[i] = x
    BY <1>1, <1>3 DEF In
  <2>2. i - 1 \in 1 .. Len(s) - 1 /\ (i - 1) + 1 = i
    BY <1>1, <1>3, <2>1
  <2>3. QED
    BY <1>1, <1>2, <2>1, <2>2 DEF In
<1>4. ASSUME In(x, Tail(s)) PROVE In(x, s)
  <2>1. PICK i \in 1 .. Len(s) - 1 : Tail(s)[i] = x
    BY <1>2, <1>4 DEF In
  <2>2. i + 1 \in 1 .. Len(s) /\ s[i + 1] = x
    BY <1>1, <2>1
  <2>3. QED
    BY <1>1, <2>2 DEF In
<1>5. x = Head(s) => In(x, s)
  BY <1>1 DEF In
<1>6. QED
  BY <1>3, <1>4, <1>5

\* A sequence has no more elements than places.
LEMMA ElementsOfSeq ==
  ASSUME NEW S, NEW s \in Seq(S)
  PROVE  LET elements == {x \in S : In(x, s)}
         IN  IsFiniteSet(elements) /\ Cardinality(elements) \in Nat /\ Cardinality(elements) <= Len(s)
<1> DEFINE elements == {x \in S : In(x, s)}
           f == [i \in 1 .. Len(s) |-> s[i]]
<1>1. /\ Len(s) \in Nat /\ DOMAIN s = 1 .. Len(s)
      /\ \A i \in 1 .. Len(s) : s[i] \in S
  BY LenProperties, ElementOfSeq
<1>2. f \in Surjection(1 .. Len(s), elements)
  BY <1>1 DEF In, Surjection
<1>3. IsFiniteSet(1 .. Len(s)) /\ Cardinality(1 .. Len(s)) = Len(s)
  <2>1. 1 \in Int /\ Len(s) \in Int
    BY <1>1
  <2>2. IsFiniteSet(1 .. Len(s)) /\ Cardinality(1 .. Len(s)) = IF 1 > Len(s) THEN 0 ELSE Len(s) - 1 + 1
    BY <2>1, FS_Interval
  <2>3. QED
    BY <1>1, <2>2
<1> HIDE DEF f, elements
<1>4. IsFiniteSet(elements) /\ Cardinality(elements) <= Len(s)
  BY <1>2, <1>3, FS_Surjection
<1>5. QED
  BY <1>4, FS_CardinalityType DEF elements

LEMMA AccountedFinite ==
  /\ IsFiniteSet(Accounted) /\ Cardinality(Accounted) \in Nat
  /\ IsFiniteSet(Accounted') /\ Cardinality(Accounted') \in Nat
<1>1. 1 \in Int /\ Count \in Int
  BY KafkaAssumption
<1>2. IsFiniteSet(Events)
  BY <1>1, FS_Interval DEF Events
<1>3. Accounted \in SUBSET Events /\ Accounted' \in SUBSET Events
  BY DEF Accounted
<1>4. QED
  BY <1>2, <1>3, FS_Subset, FS_CardinalityType

LEMMA AccountedIn ==
  Accounted = {e \in Events : In(e, log) \/ In(e, queue)}
  BY DEF Accounted, InLog, InQueue, In

LEMMA AccountInitially == Init => AccountInv
<1> SUFFICES ASSUME Init PROVE AccountInv
  OBVIOUS
<1>1. Accounted = {}
  BY AccountedIn DEF Init, In
<1>2. ok = 0 /\ expired = 0 /\ dropped = 0
  BY DEF Init
<1>3. QED
  BY <1>1, <1>2, FS_EmptySet DEF AccountInv, OkIsAccountedFor, Accounted

\* Of what was accounted for, at most as many events are lost as gone has elements.
LEMMA AccountedLess ==
  ASSUME NEW gone, IsFiniteSet(gone), Accounted \subseteq Accounted' \cup gone
  PROVE  Cardinality(Accounted) <= Cardinality(Accounted') + Cardinality(gone)
<1>1. IsFiniteSet(Accounted') /\ Cardinality(Accounted') \in Nat
  BY AccountedFinite
<1>2. /\ IsFiniteSet(Accounted' \cup gone)
      /\ Cardinality(Accounted' \cup gone)
           = Cardinality(Accounted') + Cardinality(gone) - Cardinality(Accounted' \cap gone)
  BY <1>1, FS_Union
<1>3. Cardinality(Accounted' \cap gone) \in Nat
  <2>1. Accounted' \cap gone \in SUBSET gone
    OBVIOUS
  <2>2. QED
    BY <2>1, FS_Subset, FS_CardinalityType
<1>4. Cardinality(Accounted) <= Cardinality(Accounted' \cup gone)
  BY <1>2, FS_Subset
<1>5. Cardinality(gone) \in Nat /\ Cardinality(Accounted) \in Nat
  BY AccountedFinite, FS_CardinalityType
<1>6. QED
  BY <1>1, <1>2, <1>3, <1>4, <1>5

LEMMA SendAccounts ==
  ASSUME LogBounded, AccountInv, Send
  PROVE  AccountInv'
<1> DEFINE new == produced + 1
<1>1. /\ produced' = new /\ produced < Count
      /\ queue' = IF HasSpace THEN Append(queue, new) ELSE queue
      /\ IF HasSpace THEN ok' = ok + 1 ELSE ok' = ok
      /\ UNCHANGED <<expired, dropped, log>>
  BY DEF Send, CountedOk
<1>2. /\ produced \in Nat /\ new \in Events /\ queue \in Seq(Events)
      /\ ok \in Nat /\ expired \in Nat /\ dropped \in Nat
      /\ \A e \in Accounted : e <= produced
      /\ ok <= Cardinality(Accounted) + expired + dropped
  BY <1>1, KafkaAssumption DEF LogBounded, Events, AccountInv, OkIsAccountedFor, Accounted
<1>3. CASE HasSpace
  <2>1. \A e \in Events : In(e, queue') <=> e = new \/ In(e, queue)
    BY <1>1, <1>2, <1>3, InAppend
  <2>2. Accounted' = Accounted \cup {new}
    <3>1. Accounted' = {e \in Events : In(e, log') \/ In(e, queue')}
      BY DEF Accounted, InLog, InQueue, In
    <3>2. QED
      BY <1>1, <1>2, <2>1, <3>1, AccountedIn
  <2>3. new \notin Accounted
    BY <1>2
  <2>4. Cardinality(Accounted') = Cardinality(Accounted) + 1
    BY <2>2, <2>3, AccountedFinite, FS_AddElement
  <2>5. OkIsAccountedFor'
    <3>1. ok' <= Cardinality(Accounted') + expired' + dropped'
      BY <1>1, <1>2, <1>3, <2>4, AccountedFinite
    <3>2. QED
      BY <3>1 DEF OkIsAccountedFor, Accounted
  <2>6. \A e \in Accounted' : e <= produced'
    <3>1. \A e \in Accounted : e \in Nat
      BY KafkaAssumption DEF Accounted, Events
    <3>2. QED
      BY <1>1, <1>2, <2>2, <3>1
  <2>7. ok' \in Nat /\ expired' \in Nat /\ dropped' \in Nat
    BY <1>1, <1>2, <1>3
  <2>8. QED
    BY <2>5, <2>6, <2>7 DEF AccountInv
<1>4. CASE ~HasSpace
  <2>1. UNCHANGED <<ok, expired, dropped, log, queue>>
    BY <1>1, <1>4
  <2>2. Accounted' = Accounted
    BY <2>1 DEF Accounted, InLog, InQueue
  <2>3. \A e \in Accounted' : e <= produced'
    <3>1. \A e \in Accounted : e \in Nat
      BY KafkaAssumption DEF Accounted, Events
    <3>2. QED
      BY <1>1, <1>2, <2>2, <3>1
  <2>4. OkIsAccountedFor'
    BY <1>2, <2>1, <2>2 DEF OkIsAccountedFor, Accounted
  <2>5. QED
    BY <1>2, <2>1, <2>3, <2>4 DEF AccountInv
<1>5. QED
  BY <1>3, <1>4

\* What leaves the queue without reaching the topic is counted by one of the two
\* numbers, which nobody reads.
LEMMA LossAccounts ==
  ASSUME AccountInv, NEW gone, IsFiniteSet(gone),
         Accounted' \subseteq Accounted, Accounted \subseteq Accounted' \cup gone,
         ok' = ok, produced' = produced,
         expired' \in Nat, dropped' \in Nat,
         Cardinality(gone) <= (expired' + dropped') - (expired + dropped)
  PROVE  AccountInv'
<1>1. /\ ok \in Nat /\ expired \in Nat /\ dropped \in Nat
      /\ ok <= Cardinality(Accounted) + expired + dropped
  BY DEF AccountInv, OkIsAccountedFor, Accounted
<1>2. Cardinality(Accounted) <= Cardinality(Accounted') + Cardinality(gone)
  BY AccountedLess
<1>3. ok' <= Cardinality(Accounted') + expired' + dropped'
  <2>1. Cardinality(gone) \in Nat
    BY FS_CardinalityType
  <2>2. Cardinality(Accounted) \in Nat /\ Cardinality(Accounted') \in Nat
    BY AccountedFinite
  <2>3. QED
    BY <1>1, <1>2, <2>1, <2>2
<1>4. OkIsAccountedFor'
  BY <1>3 DEF OkIsAccountedFor, Accounted
<1>5. \A e \in Accounted' : e <= produced'
  BY DEF AccountInv
<1>6. QED
  BY <1>1, <1>4, <1>5 DEF AccountInv

\* The topic and the queue hold the same events as before.
LEMMA SameAccounts ==
  ASSUME AccountInv, Accounted' = Accounted, UNCHANGED <<ok, produced, expired, dropped>>
  PROVE  AccountInv'
<1>1. OkIsAccountedFor'
  BY DEF AccountInv, OkIsAccountedFor, Accounted
<1>2. QED
  BY <1>1 DEF AccountInv

LEMMA DeliverAccounts ==
  ASSUME LogBounded, AccountInv, Deliver
  PROVE  AccountInv'
<1>1. /\ queue # <<>> /\ log' = Append(log, Head(queue))
      /\ queue' = Tail(queue) \/ queue' = queue
      /\ UNCHANGED <<ok, produced, expired, dropped>>
  BY DEF Deliver
<1>2. queue \in Seq(Events) /\ log \in Seq(Events) /\ Head(queue) \in Events
  BY <1>1, SequenceLengths DEF LogBounded
<1>3. \A e : In(e, log') <=> e = Head(queue) \/ In(e, log)
  BY <1>1, <1>2, InAppend
<1>4. \A e : In(e, queue) <=> e = Head(queue) \/ In(e, Tail(queue))
  BY <1>1, <1>2, InHeadTail
<1>5. Accounted' = {e \in Events : In(e, log') \/ In(e, queue')}
  BY DEF Accounted, InLog, InQueue, In
<1>6. \A e : In(e, log') \/ In(e, queue') <=> In(e, log) \/ In(e, queue)
  <2>1. CASE queue' = queue
    BY <1>3, <1>4, <2>1
  <2>2. CASE queue' = Tail(queue)
    BY <1>3, <1>4, <2>2
  <2>3. QED
    BY <1>1, <2>1, <2>2
<1>7. Accounted' = Accounted
  BY <1>5, <1>6, AccountedIn
<1>8. QED
  BY <1>1, <1>7, SameAccounts

LEMMA ExpireAccounts ==
  ASSUME LogBounded, AccountInv, Expire
  PROVE  AccountInv'
<1> DEFINE gone == {Head(queue)}
<1>1. /\ queue # <<>> /\ queue' = Tail(queue) /\ expired' = expired + 1
      /\ UNCHANGED <<ok, produced, dropped, log>>
  BY DEF Expire
<1>2. \A e : In(e, queue) <=> e = Head(queue) \/ In(e, queue')
  BY <1>1, InHeadTail DEF LogBounded
<1>3. Accounted' = {e \in Events : In(e, log) \/ In(e, queue')}
  BY <1>1 DEF Accounted, InLog, InQueue, In
<1>4. Accounted' \subseteq Accounted /\ Accounted \subseteq Accounted' \cup gone
  BY <1>2, <1>3, AccountedIn
<1>5. IsFiniteSet(gone) /\ Cardinality(gone) = 1
  BY FS_Singleton
<1>6. expired \in Nat /\ dropped \in Nat
  BY DEF AccountInv
<1>7. /\ expired' \in Nat /\ dropped' \in Nat
      /\ Cardinality(gone) <= (expired' + dropped') - (expired + dropped)
  BY <1>1, <1>5, <1>6
<1> HIDE DEF gone
<1>8. QED
  BY <1>1, <1>4, <1>5, <1>7, LossAccounts

LEMMA FlushTimeoutAccounts ==
  ASSUME LogBounded, AccountInv, FlushTimeout
  PROVE  AccountInv'
<1> DEFINE gone == {e \in Events : In(e, queue)}
<1>1. /\ queue' = <<>> /\ dropped' = dropped + Len(queue)
      /\ UNCHANGED <<ok, produced, expired, log>>
  BY DEF FlushTimeout
<1>2. \A e : ~In(e, queue')
  BY <1>1 DEF In
<1>3. Accounted' = {e \in Events : In(e, log) \/ In(e, queue')}
  BY <1>1 DEF Accounted, InLog, InQueue, In
<1>4. Accounted' \subseteq Accounted /\ Accounted \subseteq Accounted' \cup gone
  BY <1>2, <1>3, AccountedIn
<1>5. IsFiniteSet(gone) /\ Cardinality(gone) \in Nat /\ Cardinality(gone) <= Len(queue)
  BY ElementsOfSeq DEF LogBounded
<1>6. expired \in Nat /\ dropped \in Nat /\ Len(queue) \in Nat
  BY DEF AccountInv, LogBounded
<1>7. /\ expired' \in Nat /\ dropped' \in Nat
      /\ Cardinality(gone) <= (expired' + dropped') - (expired + dropped)
  BY <1>1, <1>5, <1>6
<1> HIDE DEF gone
<1>8. QED
  BY <1>1, <1>4, <1>5, <1>7, LossAccounts

LEMMA AccountStep == IInv /\ AccountInv /\ [Next]_vars => AccountInv'
<1> SUFFICES ASSUME IInv, AccountInv, [Next]_vars PROVE AccountInv'
  OBVIOUS
<1>1. LogBounded
  BY DEF IInv
<1>2. CASE UNCHANGED <<ok, produced, expired, dropped, log, queue>>
  BY <1>2, SameAccounts DEF Accounted, InLog, InQueue
<1>3. CASE Send \/ Deliver \/ Expire \/ FlushTimeout
  BY <1>1, <1>3, SendAccounts, DeliverAccounts, ExpireAccounts, FlushTimeoutAccounts
<1>4. QED
  BY <1>2, <1>3 DEF Next, Generator, StartFlush, FlushDone, Node, Assign, Poll, Insert, Commit,
                    InsertFails, producer, vars

\* Every event that the generator counts as ok is in the topic or on its way, or was
\* given up by librdkafka or dropped at exit.
THEOREM SentIsAccountedFor == Spec => []OkIsAccountedFor
<1>1. AccountInv => OkIsAccountedFor
  BY DEF AccountInv
<1>2. QED
  BY <1>1, AccountInitially, AccountStep, Inductive, PTL DEF Spec
=============================================================================
