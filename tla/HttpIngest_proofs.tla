-------------------------- MODULE HttpIngest_proofs --------------------------
(***************************************************************************)
(* The insert client tries each url once, and what the API answers is true *)
(* of raw_events, for any number of clients, events, urls, lost replies    *)
(* and requests of which only a part is read.                              *)
(***************************************************************************)
EXTENDS HttpIngest, FiniteSetTheorems, SequenceTheorems, TLAPS

-----------------------------------------------------------------------------
(* The call of the insert client: a ring of urls. *)

LEMMA SameCardinality == \A S : CH!Cardinality(S) = Cardinality(S)
  BY DEF CH!Cardinality, Cardinality

Urls == 0 .. NumUrls - 1
UrlAt(i) == (current + i) % NumUrls

\* While a call goes on it has tried the urls from current, in their order.
RingInv ==
  /\ CH!TypeOK
  /\ IsFiniteSet(call.tried)
  /\ call.phase = "trying" =>
       call.attempt < NumUrls /\ \A u \in call.tried : \E i \in 0 .. call.attempt - 1 : u = UrlAt(i)
  /\ FailsOverInRing

ClientStep == (\E r \in Events : CH!Begin(r)) \/ CH!Attempt \/ CH!Return

LEMMA Ring ==
  ASSUME NEW n \in Nat \ {0}, NEW c \in 0 .. n - 1, NEW i \in Nat, i < n
  PROVE  /\ (c + i) % n \in 0 .. n - 1
         /\ \A j \in 0 .. i - 1 : (c + j) % n # (c + i) % n
<1>1. ASSUME NEW k \in 0 .. n - 1
      PROVE  (c + k) % n = IF c + k < n THEN c + k ELSE c + k - n
  <2>1. \A m \in 0 .. n - 1 : m % n = m
    OBVIOUS
  <2>2. \A m \in n .. 2 * n - 1 : m % n = m - n
    OBVIOUS
  <2>3. QED
    BY <2>1, <2>2
<1>2. QED
  BY <1>1

LEMMA BeginKeepsRing ==
  ASSUME RingInv, NEW r \in Events, CH!Begin(r)
  PROVE  RingInv'
<1>1. call' = [phase |-> "trying", row |-> {r}, attempt |-> 0, tried |-> {}, heard |-> "ok"]
      /\ UNCHANGED <<current, stored>>
  BY DEF CH!Begin
<1>2. CH!TypeOK'
  BY <1>1, ClientAssumption DEF RingInv, CH!TypeOK, CH!Phases, CH!AllOutcomes
<1>3. FailsOverInRing'
  BY <1>1, FS_EmptySet, SameCardinality DEF FailsOverInRing, CH!FailsOverInRing
<1>4. QED
  BY <1>1, <1>2, <1>3, FS_EmptySet, ClientAssumption DEF RingInv

LEMMA ReturnKeepsRing ==
  ASSUME RingInv, CH!Return
  PROVE  RingInv'
<1>1. call' = CH!NoCall /\ UNCHANGED <<current, stored>>
  BY DEF CH!Return
<1>2. CH!TypeOK'
  BY <1>1, ClientAssumption DEF RingInv, CH!TypeOK, CH!Phases, CH!AllOutcomes, CH!NoCall
<1>3. FailsOverInRing'
  BY <1>1, FS_EmptySet, SameCardinality DEF FailsOverInRing, CH!FailsOverInRing, CH!NoCall
<1>4. QED
  BY <1>1, <1>2, <1>3, FS_EmptySet DEF RingInv, CH!NoCall

LEMMA AttemptKeepsRing ==
  ASSUME RingInv, NEW o \in Outcomes, CH!AttemptWith(o)
  PROVE  RingInv'
<1>1. /\ call.phase = "trying"
      /\ current' = IF o = "ok" THEN CH!Index ELSE current
      /\ call' = [call EXCEPT !.attempt = @ + 1, !.tried = @ \cup {CH!Index},
                              !.heard = o, !.phase = CH!Verdict(o)]
  BY DEF CH!AttemptWith
<1>2. /\ current \in Urls /\ call.attempt \in Nat /\ call.attempt < NumUrls
      /\ call.tried \subseteq Urls /\ IsFiniteSet(call.tried)
      /\ Cardinality(call.tried) = call.attempt
      /\ \A u \in call.tried : \E i \in 0 .. call.attempt - 1 : u = UrlAt(i)
      /\ NumUrls \in Nat \ {0}
  BY <1>1, ClientAssumption, SameCardinality
  DEF RingInv, CH!TypeOK, FailsOverInRing, CH!FailsOverInRing, Urls
<1>3. CH!Index = UrlAt(call.attempt)
  BY DEF CH!Index, UrlAt
<1>4. CH!Index \in Urls /\ CH!Index \notin call.tried
  BY <1>2, <1>3, Ring DEF Urls, UrlAt
<1>5. /\ call'.attempt = call.attempt + 1 /\ call'.tried = call.tried \cup {CH!Index}
      /\ call'.heard = o /\ call'.phase = CH!Verdict(o) /\ call'.row = call.row
  BY <1>1 DEF RingInv, CH!TypeOK
<1>6. IsFiniteSet(call'.tried) /\ Cardinality(call'.tried) = call'.attempt
  <2>1. /\ IsFiniteSet(call.tried \cup {CH!Index})
        /\ Cardinality(call.tried \cup {CH!Index}) = Cardinality(call.tried) + 1
    BY <1>2, <1>4, FS_AddElement
  <2>2. QED
    BY <1>2, <1>5, <2>1
<1>7. CH!Verdict(o) \in CH!Phases
      /\ (CH!Verdict(o) = "trying" => call'.attempt < NumUrls /\ current' = current)
      /\ (CH!Verdict(o) = "false" /\ CH!IsRetryable(o) => call'.attempt = NumUrls)
  BY <1>1, <1>2, <1>5 DEF CH!Verdict, CH!Phases, CH!MoreUrls, CH!IsRetryable
<1>8. CH!TypeOK'
  <2>1. current' \in Urls
    BY <1>1, <1>2, <1>4
  <2>2. call' \in [phase : CH!Phases, row : {{}} \cup {{r} : r \in Events},
                   attempt : 0 .. NumUrls, tried : SUBSET Urls, heard : CH!AllOutcomes]
    <3>1. call'.tried \in SUBSET Urls /\ call'.attempt \in 0 .. NumUrls
      BY <1>2, <1>4, <1>5
    <3>2. o \in CH!AllOutcomes
      BY ClientAssumption
    <3>3. QED
      BY <1>1, <1>5, <1>7, <3>1, <3>2 DEF RingInv, CH!TypeOK
  <2>3. stored' \in [Events -> 0 .. MaxCopies]
    BY ClientAssumption DEF RingInv, CH!TypeOK, CH!AttemptWith
  <2>4. QED
    BY <2>1, <2>2, <2>3 DEF CH!TypeOK, Urls
<1>9. FailsOverInRing'
  <2>1. call'.tried \in SUBSET Urls
    BY <1>2, <1>4, <1>5
  <2>2. IsFiniteSet(Urls) /\ Cardinality(Urls) = NumUrls
    <3>1. NumUrls - 1 \in Int /\ ~(0 > NumUrls - 1) /\ NumUrls - 1 - 0 + 1 = NumUrls
      BY <1>2
    <3>2. QED
      BY <3>1, FS_Interval DEF Urls
  <2>3. call'.attempt = NumUrls => call'.tried = Urls
    BY <1>6, <2>1, <2>2, FS_Subset
  <2>4. QED
    BY <1>5, <1>6, <1>7, <2>3, SameCardinality DEF FailsOverInRing, CH!FailsOverInRing, Urls
<1>10. call'.phase = "trying" =>
         \A u \in call'.tried : \E i \in 0 .. call'.attempt - 1 : u = UrlAt(i)'
  BY <1>2, <1>3, <1>5, <1>7 DEF UrlAt
<1>11. QED
  BY <1>5, <1>6, <1>7, <1>8, <1>9, <1>10 DEF RingInv

LEMMA ClientStepKeepsRing ==
  ASSUME RingInv, ClientStep PROVE RingInv'
  BY BeginKeepsRing, AttemptKeepsRing, ReturnKeepsRing DEF ClientStep, CH!Attempt

-----------------------------------------------------------------------------
(* The requests. *)

Replies == [status : Nat, accepted : Nat, parsed : Seq(Events)]

ServerStates ==
  [at : {"accept", "read", "insert", "reply"}, client : SUBSET Clients,
   rows : Seq(Events), next : Nat, status : Nat]

Typed ==
  /\ phase \in [Clients -> ClientPhases]
  /\ batch \in [Clients -> Seq(Events)]
  /\ produced \in [Clients -> Nat] /\ ok \in [Clients -> Nat]
  /\ reply \in [Clients -> Replies]
  /\ backlog \in Seq(Clients)
  /\ server \in ServerStates

InBacklog(c) == \E i \in DOMAIN backlog : backlog[i] = c

\* A client has one connection at a time, so it waits in the backlog once.
BacklogOnce == \A i, j \in DOMAIN backlog : backlog[i] = backlog[j] => i = j

ServerAt ==
  /\ server.at = "accept" => server = Accepting
  /\ server.at # "accept" => \E c \in Clients : server.client = {c}
  /\ server.at # "insert" => call.phase = "idle"

\* The events of a batch are those the client has produced last.
Numbered(c) ==
  /\ produced[c] <= Total /\ Len(batch[c]) <= produced[c]
  /\ \A i \in DOMAIN batch[c] : batch[c][i] = <<c, produced[c] - Len(batch[c]) + i>>

Fresh(c) == \A n \in 1 .. Total : n > produced[c] => ~IsStored(<<c, n>>)

\* The first lo events of the batch are stored, and none behind the first hi.
Between(c, lo, hi) ==
  /\ lo <= Len(batch[c])
  /\ \A i \in DOMAIN batch[c] :
       (i <= lo => IsStored(batch[c][i])) /\ (IsStored(batch[c][i]) => i <= hi)

\* What the server has read of the batch.
PartOf(c, rows) ==
  /\ Len(rows) <= Len(batch[c]) /\ (c \in WholeReads => Len(rows) = Len(batch[c]))
  /\ \A i \in DOMAIN rows : rows[i] = batch[c][i]

TrueReply(c, r) ==
  /\ r.status \in {200, 400, 502} /\ PartOf(c, r.parsed)
  /\ r.status = 200 => r.accepted = Len(r.parsed) /\ Between(c, r.accepted, r.accepted)
  /\ r.status = 400 => Between(c, 0, 0)
  /\ r.status = 502 => Between(c, r.accepted, r.accepted + 1)

\* The client that is waited for, read from, or whose events are inserted.
Serving(c) ==
  /\ reply[c] = NoReply /\ phase[c] # "idle" /\ ~InBacklog(c)
  /\ server.next \in Nat \ {0}
  /\ server.at = "read" => server.next = 1 /\ Between(c, 0, 0)
  /\ server.at # "read" => phase[c] = "sent"
  /\ server.at = "insert" =>
       /\ server.status = 200 /\ PartOf(c, server.rows) /\ server.next <= Len(server.rows) + 1
       /\ call.phase = "idle" => Between(c, server.next - 1, server.next - 1)
       /\ call.phase # "idle" =>
            /\ server.next <= Len(server.rows) /\ call.row = {server.rows[server.next]}
            /\ Between(c, server.next - 1, server.next)
       /\ call.phase = "true" => Between(c, server.next, server.next)
  /\ server.at = "reply" =>
       TrueReply(c, [status |-> server.status, accepted |-> server.next - 1,
                     parsed |-> server.rows])

\* The others: nothing of a batch is stored before its request is handled, and
\* what a reply says stays true until it is received.
NotServed(c) ==
  /\ phase[c] = "idle" => ~InBacklog(c) /\ reply[c] = NoReply
  /\ reply[c] = NoReply => Between(c, 0, 0)
  /\ reply[c] # NoReply => phase[c] = "sent" /\ ~InBacklog(c) /\ TrueReply(c, reply[c])

Request(c) == IF server.client = {c} THEN Serving(c) ELSE NotServed(c)

\* Of the events before the batch at least as many are stored as were counted.
Past(c) == {n \in 1 .. produced[c] - Len(batch[c]) : IsStored(<<c, n>>)}
Counted(c) == c \in WholeReads => ok[c] <= Cardinality(Past(c))

ForClient(c) == Numbered(c) /\ Fresh(c) /\ Request(c) /\ Counted(c)

IInv ==
  /\ RingInv /\ Typed /\ BacklogOnce /\ ServerAt
  /\ \A c \in Clients : ForClient(c)

-----------------------------------------------------------------------------

LEMMA StatesTyped ==
  /\ NoReply \in Replies
  /\ Accepting \in ServerStates
  BY DEF NoReply, Replies, Accepting, ServerStates

LEMMA PastIsFinite ==
  ASSUME Typed, NEW c \in Clients
  PROVE  IsFiniteSet(Past(c)) /\ Cardinality(Past(c)) \in Nat
<1>1. produced[c] - Len(batch[c]) \in Int
  BY DEF Typed
<1>2. IsFiniteSet(1 .. produced[c] - Len(batch[c]))
  BY <1>1, FS_Interval
<1>3. IsFiniteSet(Past(c))
  BY <1>2, FS_Subset DEF Past
<1>4. QED
  BY <1>3, FS_CardinalityType

LEMMA Initially == Init => IInv
<1> SUFFICES ASSUME Init PROVE IInv
  OBVIOUS
<1>1. current = 0 /\ call = CH!NoCall /\ stored = [r \in Events |-> 0]
  BY DEF Init, CH!Init
<1>2. RingInv
  <2>1. CH!TypeOK
    BY <1>1, ClientAssumption DEF CH!TypeOK, CH!Phases, CH!AllOutcomes, CH!NoCall
  <2>2. FailsOverInRing
    BY <1>1, FS_EmptySet, SameCardinality DEF FailsOverInRing, CH!FailsOverInRing, CH!NoCall
  <2>3. QED
    BY <1>1, <2>1, <2>2, FS_EmptySet DEF RingInv, CH!NoCall
<1>3. Typed
  BY StatesTyped DEF Init, Typed, ClientPhases
<1>4. BacklogOnce /\ ServerAt
  BY <1>1 DEF Init, BacklogOnce, ServerAt, Accepting, CH!NoCall
<1>5. ASSUME NEW c \in Clients PROVE ForClient(c)
  <2>1. /\ phase[c] = "idle" /\ batch[c] = <<>> /\ produced[c] = 0 /\ ok[c] = 0
        /\ reply[c] = NoReply /\ server.client = {} /\ ~InBacklog(c)
    BY DEF Init, Accepting, InBacklog
  <2>2. Numbered(c) /\ Request(c)
    BY <2>1, BatchAssumption DEF Numbered, Request, NotServed, Between
  <2>3. Fresh(c)
    BY <1>1 DEF Fresh, IsStored, Events
  <2>4. Counted(c)
    BY <1>3, <2>1, PastIsFinite DEF Counted
  <2>5. QED
    BY <2>2, <2>3, <2>4 DEF ForClient
<1>6. QED
  BY <1>2, <1>3, <1>4, <1>5 DEF IInv

LEMMA RingUnchanged == ASSUME RingInv, UNCHANGED chVars PROVE RingInv'
  BY DEF RingInv, chVars, CH!TypeOK, FailsOverInRing, CH!FailsOverInRing, UrlAt

\* What is known of a client depends on its own events only.
LEMMA OwnEvents ==
  ASSUME IInv, NEW d \in Clients, batch'[d] = batch[d], produced'[d] = produced[d],
         ok'[d] = ok[d], \A e \in Events : e[1] = d => stored'[e] = stored[e]
  PROVE  /\ \A lo, hi : Between(d, lo, hi) <=> Between(d, lo, hi)'
         /\ Numbered(d)' /\ Fresh(d)' /\ Counted(d)'
<1>1. /\ produced[d] \in Nat /\ produced[d] <= Total /\ Len(batch[d]) <= produced[d]
      /\ batch[d] \in Seq(Events) /\ Len(batch[d]) \in Nat /\ Numbered(d) /\ Fresh(d) /\ Counted(d)
  BY DEF IInv, Typed, ForClient, Numbered
<1>2. \A n \in 1 .. Total : IsStored(<<d, n>>) <=> IsStored(<<d, n>>)'
  BY DEF IsStored, Events
<1>3. \A i \in DOMAIN batch[d] : batch[d][i] \in Events /\ batch[d][i][1] = d
  BY <1>1 DEF Numbered
<1>4. \A i \in DOMAIN batch[d] : IsStored(batch[d][i]) <=> IsStored(batch[d][i])'
  <2>1. TAKE i \in DOMAIN batch[d]
  <2>2. batch'[d][i] = batch[d][i] /\ stored'[batch[d][i]] = stored[batch[d][i]]
    BY <1>3
  <2>3. QED
    BY <2>2 DEF IsStored
<1>5. \A lo, hi : Between(d, lo, hi) <=> Between(d, lo, hi)'
  BY <1>4 DEF Between
<1>6. Numbered(d)'
  BY <1>1 DEF Numbered
<1>7. Fresh(d)'
  BY <1>1, <1>2 DEF Fresh
<1>8. Counted(d)'
  <2>1. \A n \in 1 .. produced[d] - Len(batch[d]) : n \in 1 .. Total
    BY <1>1, BatchAssumption
  <2>2. Past(d)' = Past(d)
    BY <1>2, <2>1 DEF Past
  <2>3. QED
    BY <1>1, <2>2 DEF Counted
<1>9. QED
  BY <1>5, <1>6, <1>7, <1>8

\* A client to which a step does nothing, or no more than move the server on
\* with another client.
LEMMA OtherKept ==
  ASSUME IInv, NEW d \in Clients,
         \A e \in Events : e[1] = d => stored'[e] = stored[e],
         phase'[d] = phase[d], batch'[d] = batch[d], produced'[d] = produced[d],
         ok'[d] = ok[d], reply'[d] = reply[d], InBacklog(d)' => InBacklog(d),
         \/ server' = server /\ call' = call
         \/ server.client # {d} /\ server'.client # {d}
  PROVE  ForClient(d)'
<1>1. /\ \A lo, hi : Between(d, lo, hi) <=> Between(d, lo, hi)'
      /\ Numbered(d)' /\ Fresh(d)' /\ Counted(d)'
  BY OwnEvents
<1>2. \A rows : PartOf(d, rows) <=> PartOf(d, rows)'
  BY DEF PartOf
<1>3. \A r : TrueReply(d, r) <=> TrueReply(d, r)'
  BY <1>1, <1>2 DEF TrueReply
<1>4. Request(d)'
  <2>1. CASE server' = server /\ call' = call
    <3>1. CASE server.client = {d}
      BY <1>1, <1>2, <1>3, <2>1, <3>1 DEF IInv, ForClient, Request, Serving
    <3>2. CASE server.client # {d}
      BY <1>1, <1>3, <2>1, <3>2 DEF IInv, ForClient, Request, NotServed
    <3>3. QED
      BY <3>1, <3>2
  <2>2. CASE server.client # {d} /\ server'.client # {d}
    BY <1>1, <1>3, <2>2 DEF IInv, ForClient, Request, NotServed
  <2>3. QED
    BY <2>1, <2>2
<1>5. QED
  BY <1>1, <1>4 DEF ForClient

-----------------------------------------------------------------------------
(* The steps of a client. *)

\* A client that is idle is not being served and none of its batch is stored.
LEMMA IdleClient ==
  ASSUME IInv, NEW c \in Clients, phase[c] = "idle"
  PROVE  server.client # {c} /\ reply[c] = NoReply /\ ~InBacklog(c) /\ Between(c, 0, 0)
  BY DEF IInv, ForClient, Request, Serving, NotServed

LEMMA ProduceKeeps == ASSUME IInv, NEW c \in Clients, Produce(c) PROVE IInv'
<1>1. /\ phase[c] = "idle" /\ produced[c] < Total
      /\ produced' = [produced EXCEPT ![c] = produced[c] + 1]
      /\ batch' = [batch EXCEPT ![c] = Append(batch[c], <<c, produced[c] + 1>>)]
      /\ UNCHANGED <<phase, ok, fail, reply, backlog, server, current, call, stored>>
  BY DEF Produce, serverVars, chVars
<1>2. produced[c] \in Nat /\ batch[c] \in Seq(Events) /\ Len(batch[c]) \in Nat
  BY DEF IInv, Typed
<1>3. produced[c] + 1 \in 1 .. Total /\ <<c, produced[c] + 1>> \in Events
  BY <1>1, <1>2, BatchAssumption DEF Events
<1>4. produced'[c] = produced[c] + 1
  BY <1>1 DEF IInv, Typed
<1>5. /\ batch'[c] \in Seq(Events) /\ Len(batch'[c]) = Len(batch[c]) + 1
      /\ \A i \in 1 .. Len(batch[c]) : batch'[c][i] = batch[c][i]
      /\ batch'[c][Len(batch[c]) + 1] = <<c, produced[c] + 1>>
      /\ DOMAIN batch[c] = 1 .. Len(batch[c]) /\ DOMAIN batch'[c] = 1 .. Len(batch[c]) + 1
  <2>1. batch'[c] = Append(batch[c], <<c, produced[c] + 1>>)
    BY <1>1 DEF IInv, Typed
  <2>2. QED
    BY <1>2, <1>3, <2>1, AppendProperties
<1>6. RingInv'
  BY <1>1, RingUnchanged DEF IInv, chVars
<1>7. Typed'
  BY <1>1, <1>2, <1>5 DEF IInv, Typed
<1>8. BacklogOnce' /\ ServerAt'
  BY <1>1 DEF IInv, BacklogOnce, ServerAt
<1>9. ForClient(c)'
  <2>1. server.client # {c} /\ reply[c] = NoReply /\ ~InBacklog(c) /\ Between(c, 0, 0)
    BY <1>1, IdleClient
  <2>2. Numbered(c) /\ Fresh(c) /\ Counted(c)
    BY DEF IInv, ForClient
  <2>3. Numbered(c)'
    <3>1. ASSUME NEW i \in 1 .. Len(batch[c]) + 1
          PROVE  batch'[c][i] = <<c, (produced[c] + 1) - (Len(batch[c]) + 1) + i>>
      <4>1. CASE i \in 1 .. Len(batch[c])
        <5>1. batch'[c][i] = <<c, produced[c] - Len(batch[c]) + i>>
          BY <1>5, <2>2, <4>1 DEF Numbered
        <5>2. produced[c] - Len(batch[c]) + i = (produced[c] + 1) - (Len(batch[c]) + 1) + i
          BY <1>2, <4>1
        <5>3. QED
          BY <5>1, <5>2
      <4>2. CASE i = Len(batch[c]) + 1
        BY <1>2, <1>5, <4>2
      <4>3. QED
        BY <1>2, <4>1, <4>2
    <3>2. produced'[c] <= Total /\ Len(batch'[c]) <= produced'[c]
      BY <1>2, <1>3, <1>4, <1>5, <2>2 DEF Numbered
    <3>3. QED
      BY <1>4, <1>5, <3>1, <3>2 DEF Numbered
  <2>4. Fresh(c)'
    BY <1>1, <1>2, <1>4, <2>2 DEF Fresh, IsStored
  <2>5. Between(c, 0, 0)'
    <3>1. ~IsStored(<<c, produced[c] + 1>>)
      BY <1>2, <1>3, <2>2 DEF Fresh
    <3>2. \A i \in 1 .. Len(batch[c]) + 1 : ~IsStored(batch'[c][i])
      <4>1. ASSUME NEW i \in 1 .. Len(batch[c]) PROVE ~IsStored(batch'[c][i])
        <5>1. i \in DOMAIN batch[c] /\ ~(i <= 0) /\ batch'[c][i] = batch[c][i]
          BY <1>2, <1>5
        <5>2. ~IsStored(batch[c][i])
          BY <2>1, <5>1 DEF Between
        <5>3. QED
          BY <5>1, <5>2 DEF IsStored
      <4>2. ~IsStored(batch'[c][Len(batch[c]) + 1])
        BY <1>5, <3>1 DEF IsStored
      <4>3. QED
        BY <1>2, <4>1, <4>2
    <3>3. stored' = stored
      BY <1>1
    <3>4. QED
      <4>1. 0 <= Len(batch'[c]) /\ DOMAIN batch'[c] = 1 .. Len(batch[c]) + 1
        BY <1>2, <1>5
      <4>2. \A i \in 1 .. Len(batch[c]) + 1 : ~(i <= 0)
        BY <1>2
      <4>3. QED
        BY <3>2, <3>3, <4>1, <4>2 DEF Between, IsStored
  <2>6. Counted(c)'
    <3>1. produced'[c] - Len(batch'[c]) = produced[c] - Len(batch[c])
      <4>1. Len(batch'[c]) = Len(batch[c]) + 1
        BY <1>5
      <4>2. QED
        BY <1>2, <1>4, <4>1
    <3>2. Past(c)' = Past(c)
      BY <1>1, <3>1 DEF Past, IsStored
    <3>3. QED
      BY <1>1, <2>2, <3>2 DEF Counted
  <2>7. Request(c)'
    BY <1>1, <2>1, <2>5 DEF Request, NotServed, InBacklog
  <2>8. QED
    BY <2>3, <2>4, <2>6, <2>7 DEF ForClient
<1>10. ASSUME NEW d \in Clients \ {c} PROVE ForClient(d)'
  <2>1. produced'[d] = produced[d] /\ batch'[d] = batch[d]
    BY <1>1 DEF IInv, Typed
  <2>2. QED
    BY <1>1, <2>1, OtherKept DEF InBacklog
<1>11. QED
  BY <1>6, <1>7, <1>8, <1>9, <1>10 DEF IInv

LEMMA ConnectKeeps == ASSUME IInv, NEW c \in Clients, Connect(c) PROVE IInv'
<1>1. /\ phase[c] = "idle" /\ phase' = [phase EXCEPT ![c] = "connected"]
      /\ backlog' = Append(backlog, c)
      /\ UNCHANGED <<batch, produced, ok, fail, reply, server, current, call, stored>>
  BY DEF Connect, BatchReady, chVars
<1>2. backlog \in Seq(Clients) /\ Len(backlog) \in Nat
  BY DEF IInv, Typed
<1>3. /\ backlog' \in Seq(Clients)
      /\ DOMAIN backlog = 1 .. Len(backlog) /\ DOMAIN backlog' = 1 .. Len(backlog) + 1
      /\ \A i \in DOMAIN backlog : backlog'[i] = backlog[i]
      /\ backlog'[Len(backlog) + 1] = c
  BY <1>1, <1>2, AppendProperties
<1>4. server.client # {c} /\ reply[c] = NoReply /\ ~InBacklog(c) /\ Between(c, 0, 0)
  BY <1>1, IdleClient
<1>5. RingInv'
  BY <1>1, RingUnchanged DEF IInv, chVars
<1>6. Typed'
  BY <1>1, <1>3 DEF IInv, Typed, ClientPhases
<1>7. BacklogOnce'
  <2>1. \A i, j \in DOMAIN backlog : backlog[i] = backlog[j] => i = j
    BY DEF IInv, BacklogOnce
  <2>2. \A i \in DOMAIN backlog : backlog[i] # c
    BY <1>4 DEF InBacklog
  <2>3. \A i \in DOMAIN backlog' : i \in DOMAIN backlog \/ i = Len(backlog) + 1
    BY <1>2, <1>3
  <2>4. QED
    BY <1>3, <2>1, <2>2, <2>3 DEF BacklogOnce
<1>8. ServerAt'
  BY <1>1 DEF IInv, ServerAt
<1>9. ForClient(c)'
  <2>1. phase'[c] = "connected"
    BY <1>1 DEF IInv, Typed
  <2>2. Between(c, 0, 0)'
    BY <1>1, <1>4 DEF Between, IsStored
  <2>3. Request(c)'
    BY <1>1, <1>4, <2>1, <2>2 DEF Request, NotServed
  <2>4. Numbered(c)' /\ Fresh(c)' /\ Counted(c)'
    BY <1>1 DEF IInv, ForClient, Numbered, Fresh, IsStored, Counted, Past
  <2>5. QED
    BY <2>3, <2>4 DEF ForClient
<1>10. ASSUME NEW d \in Clients \ {c} PROVE ForClient(d)'
  <2>1. InBacklog(d)' => InBacklog(d)
    <3>1. \A i \in DOMAIN backlog' : i \in DOMAIN backlog \/ i = Len(backlog) + 1
      BY <1>2, <1>3
    <3>2. QED
      BY <1>3, <3>1 DEF InBacklog
  <2>2. phase'[d] = phase[d]
    BY <1>1 DEF IInv, Typed
  <2>3. QED
    BY <1>1, <2>1, <2>2, OtherKept
<1>11. QED
  BY <1>5, <1>6, <1>7, <1>8, <1>9, <1>10 DEF IInv

LEMMA SendKeeps == ASSUME IInv, NEW c \in Clients, Send(c) PROVE IInv'
<1>1. /\ phase[c] = "connected" /\ phase' = [phase EXCEPT ![c] = "sent"]
      /\ UNCHANGED <<batch, produced, ok, fail, reply, backlog, server, current, call, stored>>
  BY DEF Send, serverVars, chVars
<1>2. RingInv'
  BY <1>1, RingUnchanged DEF IInv, chVars
<1>3. Typed' /\ BacklogOnce' /\ ServerAt'
  BY <1>1 DEF IInv, Typed, ClientPhases, BacklogOnce, ServerAt
<1>4. ForClient(c)'
  <2>1. phase'[c] = "sent"
    BY <1>1 DEF IInv, Typed
  <2>2. UNCHANGED <<batch, server, call, reply, stored, backlog>>
    BY <1>1
  <2>3. Between(c, 0, 0) => Between(c, 0, 0)'
    BY <2>2 DEF Between, IsStored
  <2>4. InBacklog(c)' <=> InBacklog(c)
    BY <2>2 DEF InBacklog
  <2>5. Request(c)'
    <3>1. CASE server.client = {c}
      <4>1. Serving(c) /\ server.at = "read"
        <5>1. Serving(c)
          BY <3>1 DEF IInv, ForClient, Request
        <5>2. server.at = "read"
          BY <1>1, <5>1 DEF Serving
        <5>3. QED
          BY <5>1, <5>2
      <4>2. Serving(c)'
        BY <2>1, <2>2, <2>3, <2>4, <4>1 DEF Serving
      <4>3. QED
        BY <2>2, <3>1, <4>2 DEF Request
    <3>2. CASE server.client # {c}
      <4>1. NotServed(c) /\ reply[c] = NoReply
        BY <1>1, <3>2 DEF IInv, ForClient, Request, NotServed
      <4>2. NotServed(c)'
        BY <2>1, <2>2, <2>3, <2>4, <4>1 DEF NotServed
      <4>3. QED
        BY <2>2, <3>2, <4>2 DEF Request
    <3>3. QED
      BY <3>1, <3>2
  <2>6. Numbered(c)' /\ Fresh(c)' /\ Counted(c)'
    BY <1>1 DEF IInv, ForClient, Numbered, Fresh, IsStored, Counted, Past
  <2>7. QED
    BY <2>5, <2>6 DEF ForClient
<1>5. ASSUME NEW d \in Clients \ {c} PROVE ForClient(d)'
  <2>1. phase'[d] = phase[d]
    BY <1>1 DEF IInv, Typed
  <2>2. QED
    BY <1>1, <2>1, OtherKept DEF InBacklog
<1>6. QED
  BY <1>2, <1>3, <1>4, <1>5 DEF IInv

\* A batch is accounted for: its events join the past, and if they are counted as
\* a success all of them are stored.
LEMMA AccountKeeps ==
  ASSUME IInv, NEW c \in Clients, NEW success \in BOOLEAN, Account(c, success), stored' = stored,
         success /\ c \in WholeReads => \A i \in DOMAIN batch[c] : IsStored(batch[c][i])
  PROVE  /\ ok' \in [Clients -> Nat] /\ batch' \in [Clients -> Seq(Events)]
         /\ Numbered(c)' /\ Fresh(c)' /\ Between(c, 0, 0)' /\ Counted(c)'
         /\ \A d \in Clients \ {c} : ok'[d] = ok[d] /\ batch'[d] = batch[d]
         /\ produced' = produced
<1> DEFINE L == Len(batch[c])
<1> DEFINE p == produced[c]
<1> DEFINE last == p - L + 1 .. p
<1>1. /\ ok' = [ok EXCEPT ![c] = ok[c] + IF success THEN Len(batch[c]) ELSE 0]
      /\ batch' = [batch EXCEPT ![c] = <<>>] /\ produced' = produced
  BY DEF Account
<1>2. /\ p \in Nat /\ L \in Nat /\ ok \in [Clients -> Nat] /\ DOMAIN batch[c] = 1 .. L
      /\ batch \in [Clients -> Seq(Events)]
  BY DEF IInv, Typed
<1>3. /\ p <= Total /\ L <= p
      /\ \A i \in 1 .. L : batch[c][i] = <<c, p - L + i>>
  BY <1>2 DEF IInv, ForClient, Numbered
<1> HIDE DEF L, p
<1>4. /\ ok' \in [Clients -> Nat] /\ ok'[c] = ok[c] + IF success THEN L ELSE 0
      /\ \A d \in Clients \ {c} : ok'[d] = ok[d]
  BY <1>1, <1>2 DEF L
<1>5. /\ batch' \in [Clients -> Seq(Events)] /\ batch'[c] = <<>> /\ Len(batch'[c]) = 0
      /\ DOMAIN batch'[c] = {}
      /\ \A d \in Clients \ {c} : batch'[d] = batch[d]
  BY <1>1, <1>2
<1>6. Numbered(c)' /\ Between(c, 0, 0)'
  BY <1>1, <1>2, <1>3, <1>5 DEF Numbered, Between, p
<1>7. Fresh(c)'
  BY <1>1 DEF IInv, ForClient, Fresh, IsStored
<1>8. Past(c) \subseteq Past(c)'
  <2>1. Past(c) = {n \in 1 .. p - L : IsStored(<<c, n>>)}
    BY DEF Past, L, p
  <2>2. Past(c)' = {n \in 1 .. p : IsStored(<<c, n>>)}
    BY <1>1, <1>2, <1>5 DEF Past, IsStored, p
  <2>3. QED
    BY <1>2, <1>3, <2>1, <2>2
<1>9. success /\ c \in WholeReads => last \subseteq Past(c)'
  <2>1. SUFFICES ASSUME success /\ c \in WholeReads, NEW n \in last PROVE n \in Past(c)'
    OBVIOUS
  <2>2. n - (p - L) \in 1 .. L /\ p - L + (n - (p - L)) = n /\ n \in 1 .. p
    BY <1>2, <1>3
  <2>3. batch[c][n - (p - L)] = <<c, n>>
    BY <1>3, <2>2
  <2>4. IsStored(<<c, n>>)
    <3>1. IsStored(batch[c][n - (p - L)])
      BY <1>2, <2>1, <2>2
    <3>2. QED
      BY <2>3, <3>1 DEF IsStored
  <2>5. p' - Len(batch'[c]) = p /\ p' = p
    BY <1>1, <1>2, <1>5 DEF p
  <2>6. QED
    BY <1>1, <2>2, <2>4, <2>5 DEF Past, IsStored, p
<1>10. /\ IsFiniteSet(Past(c)) /\ Cardinality(Past(c)) \in Nat
       /\ IsFiniteSet(Past(c)') /\ Cardinality(Past(c)') \in Nat
  <2>1. IsFiniteSet(Past(c)) /\ Cardinality(Past(c)) \in Nat
    BY PastIsFinite DEF IInv
  <2>2. p' - Len(batch'[c]) \in Int
    BY <1>1, <1>2, <1>5 DEF p
  <2>3. IsFiniteSet(1 .. (p' - Len(batch'[c])))
    BY <2>2, FS_Interval
  <2>4. Past(c)' \subseteq 1 .. (p' - Len(batch'[c]))
    BY DEF Past, p
  <2>5. IsFiniteSet(Past(c)')
    BY <2>3, <2>4, FS_Subset
  <2>6. QED
    BY <2>1, <2>5, FS_CardinalityType
<1>11. Counted(c)'
  <2>1. SUFFICES ASSUME c \in WholeReads PROVE ok'[c] <= Cardinality(Past(c)')
    BY DEF Counted
  <2>2. ok[c] <= Cardinality(Past(c)) /\ ok[c] \in Nat
    BY <1>2, <2>1 DEF IInv, ForClient, Counted
  <2>3. CASE ~success
    <3>1. Cardinality(Past(c)) <= Cardinality(Past(c)')
      BY <1>8, <1>10, FS_Subset
    <3>2. QED
      BY <1>4, <1>10, <2>2, <2>3, <3>1
  <2>4. CASE success
    <3>1. IsFiniteSet(last) /\ Cardinality(last) = L
      <4>1. p - L + 1 \in Int /\ p \in Int
        BY <1>2
      <4>2. Cardinality(last) = IF p - L + 1 > p THEN 0 ELSE p - (p - L + 1) + 1
        BY <4>1, FS_Interval
      <4>3. QED
        BY <1>2, <4>1, <4>2, FS_Interval
    <3>2. Past(c) \cap last = {}
      BY <1>2 DEF Past, L, p
    <3>3. Cardinality(Past(c) \cup last) = Cardinality(Past(c)) + L
      <4>1. /\ IsFiniteSet(Past(c) \cup last)
            /\ Cardinality(Past(c) \cup last)
                 = Cardinality(Past(c)) + Cardinality(last) - Cardinality(Past(c) \cap last)
        BY <1>10, <3>1, FS_Union
      <4>2. Cardinality(Past(c) \cap last) = 0
        BY <3>2, FS_EmptySet
      <4>3. QED
        BY <1>2, <1>10, <3>1, <4>1, <4>2
    <3>4. Cardinality(Past(c) \cup last) <= Cardinality(Past(c)')
      <4>1. Past(c) \cup last \in SUBSET Past(c)'
        BY <1>8, <1>9, <2>1, <2>4
      <4>2. QED
        BY <1>10, <4>1, FS_Subset
    <3>5. QED
      BY <1>2, <1>4, <1>10, <2>2, <2>4, <3>3, <3>4
  <2>5. QED
    BY <2>3, <2>4
<1>12. QED
  BY <1>1, <1>4, <1>5, <1>6, <1>7, <1>11

LEMMA ConnectFailsKeeps == ASSUME IInv, NEW c \in Clients, ConnectFails(c) PROVE IInv'
<1>1. /\ phase[c] = "idle" /\ Account(c, FALSE)
      /\ UNCHANGED <<phase, reply, backlog, server, current, call, stored>>
  BY DEF ConnectFails, BatchReady, serverVars, chVars
<1>2. /\ ok' \in [Clients -> Nat] /\ batch' \in [Clients -> Seq(Events)]
      /\ Numbered(c)' /\ Fresh(c)' /\ Between(c, 0, 0)' /\ Counted(c)'
      /\ \A d \in Clients \ {c} : ok'[d] = ok[d] /\ batch'[d] = batch[d]
      /\ produced' = produced
  BY <1>1, AccountKeeps
<1>3. RingInv'
  BY <1>1, RingUnchanged DEF IInv, chVars
<1>4. Typed' /\ BacklogOnce' /\ ServerAt'
  BY <1>1, <1>2 DEF IInv, Typed, BacklogOnce, ServerAt
<1>5. ForClient(c)'
  <2>1. server.client # {c} /\ reply[c] = NoReply /\ ~InBacklog(c)
    BY <1>1, IdleClient
  <2>2. Request(c)'
    BY <1>1, <1>2, <2>1 DEF Request, NotServed, InBacklog
  <2>3. QED
    BY <1>2, <2>2 DEF ForClient
<1>6. ASSUME NEW d \in Clients \ {c} PROVE ForClient(d)'
  BY <1>1, <1>2, OtherKept DEF InBacklog
<1>7. QED
  BY <1>3, <1>4, <1>5, <1>6 DEF IInv

LEMMA ReceiveKeeps == ASSUME IInv, NEW c \in Clients, Receive(c) PROVE IInv'
<1>1. /\ reply[c] # NoReply
      /\ phase' = [phase EXCEPT ![c] = "idle"] /\ reply' = [reply EXCEPT ![c] = NoReply]
      /\ UNCHANGED <<backlog, server, current, call, stored>>
  BY DEF Receive, serverVars, chVars
<1>2. PICK received \in BOOLEAN : Account(c, received /\ Success(c))
  BY DEF Receive
<1>3. server.client # {c} /\ ~InBacklog(c) /\ TrueReply(c, reply[c])
  BY <1>1 DEF IInv, ForClient, Request, Serving, NotServed
<1>4. ASSUME Success(c), c \in WholeReads, NEW i \in DOMAIN batch[c]
      PROVE  IsStored(batch[c][i])
  <2>1. reply[c].status = 200
    <3>1. reply[c].status \in {200, 400, 502}
      BY <1>3 DEF TrueReply
    <3>2. reply[c].status \in 200 .. 299
      BY <1>4 DEF Success
    <3>3. QED
      BY <3>1, <3>2
  <2>2. reply[c].accepted = Len(batch[c]) /\ Between(c, reply[c].accepted, reply[c].accepted)
    BY <1>3, <1>4, <2>1 DEF TrueReply, PartOf
  <2>3. i <= Len(batch[c])
    BY DEF IInv, Typed
  <2>4. QED
    BY <1>4, <2>2, <2>3 DEF Between
<1>5. /\ ok' \in [Clients -> Nat] /\ batch' \in [Clients -> Seq(Events)]
      /\ Numbered(c)' /\ Fresh(c)' /\ Between(c, 0, 0)' /\ Counted(c)'
      /\ \A d \in Clients \ {c} : ok'[d] = ok[d] /\ batch'[d] = batch[d]
      /\ produced' = produced
  <2>1. (received /\ Success(c)) \in BOOLEAN
    OBVIOUS
  <2>2. QED
    BY <1>1, <1>2, <1>4, <2>1, AccountKeeps
<1>6. RingInv'
  BY <1>1, RingUnchanged DEF IInv, chVars
<1>7. Typed' /\ BacklogOnce' /\ ServerAt'
  BY <1>1, <1>5, StatesTyped DEF IInv, Typed, BacklogOnce, ServerAt, ClientPhases
<1>8. ForClient(c)'
  <2>1. reply'[c] = NoReply
    BY <1>1 DEF IInv, Typed
  <2>2. Request(c)'
    BY <1>1, <1>3, <1>5, <2>1 DEF Request, NotServed, InBacklog
  <2>3. QED
    BY <1>5, <2>2 DEF ForClient
<1>9. ASSUME NEW d \in Clients \ {c} PROVE ForClient(d)'
  <2>1. phase'[d] = phase[d] /\ reply'[d] = reply[d]
    BY <1>1 DEF IInv, Typed
  <2>2. QED
    BY <1>1, <1>5, <2>1, OtherKept DEF InBacklog
<1>10. QED
  BY <1>6, <1>7, <1>8, <1>9 DEF IInv

-----------------------------------------------------------------------------
(* The steps of the server. *)

\* A step of the server with client c leaves the others alone.
ServerMoves(c) ==
  /\ UNCHANGED clientVars
  /\ server.client \subseteq {c} /\ server'.client \subseteq {c}
  /\ \A d \in Clients \ {c} : reply'[d] = reply[d] /\ (InBacklog(d)' => InBacklog(d))
  /\ \A e \in Events : e[1] # c => stored'[e] = stored[e]

LEMMA ServerStepKeeps ==
  ASSUME IInv, NEW c \in Clients, ServerMoves(c), RingInv', Typed', BacklogOnce', ServerAt',
         ForClient(c)'
  PROVE  IInv'
<1>1. ASSUME NEW d \in Clients \ {c} PROVE ForClient(d)'
  <2>1. /\ UNCHANGED <<phase, batch, produced, ok>>
        /\ reply'[d] = reply[d] /\ (InBacklog(d)' => InBacklog(d))
        /\ server.client # {d} /\ server'.client # {d}
    BY DEF ServerMoves, clientVars
  <2>2. \A e \in Events : e[1] = d => stored'[e] = stored[e]
    BY DEF ServerMoves
  <2>3. QED
    BY <2>1, <2>2, OtherKept
<1>2. QED
  BY <1>1 DEF IInv

LEMMA AcceptKeeps == ASSUME IInv, Accept PROVE IInv'
<1>1. /\ server.at = "accept" /\ backlog # <<>>
      /\ server' = [Accepting EXCEPT !.at = "read", !.client = {Head(backlog)}]
      /\ backlog' = Tail(backlog)
      /\ UNCHANGED <<clientVars, reply, chVars>>
  BY DEF Accept
<1>2. backlog \in Seq(Clients) /\ Len(backlog) \in Nat /\ DOMAIN backlog = 1 .. Len(backlog)
  BY DEF IInv, Typed
<1>3. PICK c \in Clients : c = Head(backlog) /\ c = backlog[1]
  BY <1>1, <1>2, HeadTailProperties
<1>4. /\ backlog' \in Seq(Clients) /\ DOMAIN backlog' = 1 .. Len(backlog) - 1
      /\ \A i \in DOMAIN backlog' : i + 1 \in DOMAIN backlog /\ backlog'[i] = backlog[i + 1]
      /\ 1 \in DOMAIN backlog
  <2>1. /\ Tail(backlog) \in Seq(Clients) /\ Len(Tail(backlog)) = Len(backlog) - 1
        /\ \A i \in 1 .. Len(Tail(backlog)) : Tail(backlog)[i] = backlog[i + 1]
    BY <1>1, <1>2, HeadTailProperties
  <2>2. DOMAIN Tail(backlog) = 1 .. Len(Tail(backlog)) /\ Len(Tail(backlog)) \in Nat
    BY <2>1, LenProperties
  <2>3. \A i \in 1 .. Len(backlog) - 1 : i + 1 \in 1 .. Len(backlog)
    BY <1>2
  <2>4. 1 \in 1 .. Len(backlog)
    BY <1>2, <2>1, <2>2
  <2>5. QED
    BY <1>1, <1>2, <2>1, <2>2, <2>3, <2>4
<1>5. \A i, j \in DOMAIN backlog : backlog[i] = backlog[j] => i = j
  BY DEF IInv, BacklogOnce
<1>6. InBacklog(c) /\ ~InBacklog(c)'
  <2>1. \A i \in DOMAIN backlog' : i + 1 # 1
    BY <1>2, <1>4
  <2>2. QED
    BY <1>3, <1>4, <1>5, <2>1 DEF InBacklog
<1>7. RingInv'
  BY <1>1, RingUnchanged DEF IInv
<1>8. server'.client = {c} /\ server'.at = "read" /\ server'.next = 1 /\ server.client = {}
  BY <1>1, <1>3 DEF Accepting, IInv, ServerAt
<1>9. Typed'
  <2>1. server' \in ServerStates
    <3>1. server' = [at |-> "read", client |-> {c}, rows |-> <<>>, next |-> 1, status |-> 0]
      BY <1>1, <1>3 DEF Accepting
    <3>2. <<>> \in Seq(Events) /\ {c} \in SUBSET Clients
      OBVIOUS
    <3>3. QED
      BY <3>1, <3>2 DEF ServerStates
  <2>2. QED
    BY <1>1, <1>4, <2>1 DEF IInv, Typed, clientVars
<1>10. BacklogOnce'
  <2>1. ASSUME NEW i \in DOMAIN backlog', NEW j \in DOMAIN backlog', backlog'[i] = backlog'[j]
        PROVE  i = j
    <3>1. i + 1 = j + 1
      BY <1>4, <1>5, <2>1
    <3>2. i \in Int /\ j \in Int
      BY <1>2, <1>4
    <3>3. QED
      BY <3>1, <3>2
  <2>2. QED
    BY <2>1 DEF BacklogOnce
<1>11. ServerAt'
  BY <1>1, <1>8 DEF IInv, ServerAt, chVars
<1>12. ForClient(c)'
  <2>1. NotServed(c) /\ reply[c] = NoReply /\ phase[c] # "idle" /\ Between(c, 0, 0)
    BY <1>6, <1>8 DEF IInv, ForClient, Request, NotServed
  <2>2. Between(c, 0, 0)' /\ Numbered(c)' /\ Fresh(c)' /\ Counted(c)'
    BY <1>1, <2>1, OwnEvents DEF clientVars, chVars
  <2>3. Request(c)'
    BY <1>1, <1>6, <1>8, <2>1, <2>2 DEF Request, Serving, clientVars
  <2>4. QED
    BY <2>2, <2>3 DEF ForClient
<1>13. ServerMoves(c)
  BY <1>1, <1>4, <1>8 DEF ServerMoves, InBacklog, clientVars, chVars
<1>14. QED
  BY <1>7, <1>9, <1>10, <1>11, <1>12, <1>13, ServerStepKeeps

LEMMA ReadAndValidateKeeps == ASSUME IInv, NEW c \in Clients, ReadAndValidate(c) PROVE IInv'
<1>1. PICK p \in Cuts(c) :
        server' = [server EXCEPT !.rows = p.rows,
                                 !.at = IF HasErrors(p) THEN "reply" ELSE "insert",
                                 !.status = IF HasErrors(p) THEN 400 ELSE 200]
  BY DEF ReadAndValidate
<1>2. /\ server.at = "read" /\ server.client = {c} /\ phase[c] = "sent"
      /\ UNCHANGED <<phase, batch, produced, ok, fail, reply, backlog, current, call, stored>>
  BY DEF ReadAndValidate, clientVars, chVars
<1>3. batch[c] \in Seq(Events) /\ Len(batch[c]) \in Nat /\ DOMAIN batch[c] = 1 .. Len(batch[c])
  BY DEF IInv, Typed
<1>4. p.rows \in Seq(Events) /\ PartOf(c, p.rows)
  <2>1. PICK n \in 0 .. Len(batch[c]) :
          p.rows = SubSeq(batch[c], 1, n) /\ (c \in WholeReads => n = Len(batch[c]))
    BY <1>3 DEF Cuts, Parsed
  <2>2. \A i \in 1 .. n : batch[c][i] \in Events
    BY <1>3
  <2>3. n \in Nat /\ n <= Len(batch[c])
    BY <1>3
  <2>4. /\ SubSeq(batch[c], 1, n) \in Seq(Events)
        /\ Len(SubSeq(batch[c], 1, n)) = IF 1 <= n THEN n - 1 + 1 ELSE 0
        /\ \A i \in 1 .. n - 1 + 1 : SubSeq(batch[c], 1, n)[i] = batch[c][1 + i - 1]
    BY <2>2, <2>3, SubSeqProperties
  <2>5. p.rows \in Seq(Events) /\ Len(p.rows) = n /\ \A i \in 1 .. n : p.rows[i] = batch[c][i]
    BY <2>1, <2>3, <2>4
  <2>6. DOMAIN p.rows = 1 .. n
    BY <2>5
  <2>7. QED
    BY <2>1, <2>3, <2>5, <2>6 DEF PartOf
<1>5. /\ server'.rows = p.rows /\ server'.client = {c} /\ server'.next = server.next
      /\ \/ server'.at = "reply" /\ server'.status = 400
         \/ server'.at = "insert" /\ server'.status = 200
  BY <1>1, <1>2 DEF IInv, Typed
<1>6. RingInv'
  BY <1>2, RingUnchanged DEF IInv, chVars
<1>7. Typed'
  <2>1. server' \in ServerStates
    <3>1. server \in ServerStates
      BY DEF IInv, Typed
    <3>2. p.rows \in Seq(Events)
      BY <1>4
    <3> DEFINE at == IF HasErrors(p) THEN "reply" ELSE "insert"
    <3> DEFINE status == IF HasErrors(p) THEN 400 ELSE 200
    <3> DEFINE read == [server EXCEPT !.rows = p.rows]
    <3> DEFINE moved == [read EXCEPT !.at = at]
    <3>3. server' = [moved EXCEPT !.status = status]
      BY <1>1
    <3>4. at \in {"reply", "insert"} /\ status \in Nat
      OBVIOUS
    <3> HIDE DEF at, status
    <3>5. read \in ServerStates
      BY <3>1, <3>2 DEF ServerStates
    <3> HIDE DEF read
    <3>6. moved \in ServerStates
      BY <3>4, <3>5 DEF ServerStates
    <3> HIDE DEF moved
    <3>7. QED
      BY <3>3, <3>4, <3>6 DEF ServerStates
  <2>2. QED
    BY <1>2, <2>1 DEF IInv, Typed
<1>8. BacklogOnce' /\ ServerAt'
  BY <1>2, <1>5 DEF IInv, BacklogOnce, ServerAt
<1>9. ForClient(c)'
  <2>1. Serving(c)
    BY <1>2 DEF IInv, ForClient, Request
  <2>2. server.next = 1 /\ reply[c] = NoReply /\ ~InBacklog(c) /\ Between(c, 0, 0)
    BY <1>2, <2>1 DEF Serving
  <2>3. Between(c, 0, 0)' /\ Numbered(c)' /\ Fresh(c)' /\ Counted(c)'
    BY <1>2, <2>2, OwnEvents
  <2>4. PartOf(c, server.rows)'
    BY <1>2, <1>4, <1>5 DEF PartOf
  <2>5. Len(server'.rows) \in Nat
    BY <1>4, <1>5
  <2>6. call'.phase = "idle"
    BY <1>2 DEF IInv, ServerAt
  <2>7. Serving(c)'
    <3>1. CASE server'.at = "reply" /\ server'.status = 400
      BY <1>2, <1>5, <2>2, <2>3, <2>4, <3>1 DEF Serving, TrueReply, InBacklog
    <3>2. CASE server'.at = "insert" /\ server'.status = 200
      BY <1>2, <1>5, <2>2, <2>3, <2>4, <2>5, <2>6, <3>2 DEF Serving, InBacklog
    <3>3. QED
      BY <1>5, <3>1, <3>2
  <2>8. QED
    BY <1>5, <2>3, <2>7 DEF ForClient, Request
<1>10. ServerMoves(c)
  BY <1>2, <1>5 DEF ServerMoves, InBacklog, clientVars
<1>11. QED
  BY <1>6, <1>7, <1>8, <1>9, <1>10, ServerStepKeeps

\* The client whose events are inserted.
LEMMA Inserting ==
  ASSUME IInv, server.at = "insert"
  PROVE  \E c \in Clients :
           /\ server.client = {c} /\ Serving(c) /\ phase[c] = "sent"
           /\ server.next \in Nat \ {0} /\ Len(server.rows) \in Nat
           /\ DOMAIN server.rows = 1 .. Len(server.rows)
<1>1. PICK c \in Clients : server.client = {c}
  BY DEF IInv, ServerAt
<1>2. Serving(c)
  BY <1>1 DEF IInv, ForClient, Request
<1>3. Len(server.rows) \in Nat /\ DOMAIN server.rows = 1 .. Len(server.rows)
  BY DEF IInv, Typed, ServerStates
<1>4. QED
  BY <1>1, <1>2, <1>3 DEF Serving

LEMMA InsertNextKeeps == ASSUME IInv, InsertNext PROVE IInv'
<1>1. /\ server.at = "insert" /\ server.next <= Len(server.rows)
      /\ CH!Begin(server.rows[server.next])
      /\ UNCHANGED <<phase, batch, produced, ok, fail, reply, backlog, server>>
  BY DEF InsertNext, clientVars, serverVars
<1>2. PICK c \in Clients :
        /\ server.client = {c} /\ Serving(c) /\ phase[c] = "sent"
        /\ server.next \in Nat \ {0} /\ Len(server.rows) \in Nat
        /\ DOMAIN server.rows = 1 .. Len(server.rows)
  BY <1>1, Inserting
<1>3. /\ call.phase = "idle" /\ call'.phase = "trying"
      /\ call'.row = {server.rows[server.next]} /\ UNCHANGED <<current, stored>>
  BY <1>1 DEF CH!Begin
<1>4. RingInv'
  <2>1. server.rows[server.next] \in Events
    BY <1>1, <1>2 DEF IInv, Typed, ServerStates
  <2>2. QED
    BY <1>1, <2>1, BeginKeepsRing DEF IInv
<1>5. Typed' /\ BacklogOnce' /\ ServerAt'
  BY <1>1, <1>3 DEF IInv, Typed, BacklogOnce, ServerAt
<1>6. ForClient(c)'
  <2>1. Between(c, server.next - 1, server.next - 1) /\ PartOf(c, server.rows)
    BY <1>1, <1>2, <1>3 DEF Serving
  <2>2. Between(c, server.next - 1, server.next)
    <3>1. \A i \in DOMAIN batch[c] : i <= server.next - 1 => i <= server.next
      BY <1>2 DEF IInv, Typed
    <3>2. QED
      BY <2>1, <3>1 DEF Between
  <2>3. Between(c, server.next - 1, server.next)' /\ Numbered(c)' /\ Fresh(c)' /\ Counted(c)'
    <3>1. /\ \A lo, hi : Between(c, lo, hi) <=> Between(c, lo, hi)'
          /\ Numbered(c)' /\ Fresh(c)' /\ Counted(c)'
      BY <1>1, <1>3, OwnEvents
    <3>2. QED
      BY <1>1, <2>2, <3>1
  <2>4. PartOf(c, server.rows)'
    BY <1>1, <2>1 DEF PartOf
  <2>5. Serving(c)'
    BY <1>1, <1>2, <1>3, <2>3, <2>4 DEF Serving, InBacklog
  <2>6. QED
    BY <1>1, <1>2, <2>3, <2>5 DEF ForClient, Request
<1>7. ServerMoves(c)
  BY <1>1, <1>2, <1>3 DEF ServerMoves, InBacklog, clientVars
<1>8. QED
  BY <1>4, <1>5, <1>6, <1>7, ServerStepKeeps

\* An attempt stores the row of the call or nothing; if it is heard of as a success
\* the row is stored.
LEMMA AttemptStores ==
  ASSUME RingInv, NEW o \in Outcomes, CH!AttemptWith(o), NEW e \in Events, call.row = {e}
  PROVE  /\ \A r \in Events : r # e => stored'[r] = stored[r]
         /\ IsStored(e) => stored'[e] > 0
         /\ o = "ok" => stored'[e] > 0
         /\ call'.phase = CH!Verdict(o) /\ call'.row = {e}
         /\ call.phase = "trying" /\ (call'.phase = "true" => o = "ok") /\ call'.phase # "idle"
<1>1. /\ \A r \in Events : stored[r] \in 0 .. MaxCopies
      /\ MaxCopies \in Nat \ {0}
  BY ClientAssumption DEF RingInv, CH!TypeOK
<1>2. \A r \in Events : stored'[r] =
        IF {r} = {e} /\ CH!StoresRow(o) /\ stored[r] < MaxCopies THEN stored[r] + 1 ELSE stored[r]
  BY DEF CH!AttemptWith
<1>3. \A r \in Events : r # e => stored'[r] = stored[r]
  BY <1>2
<1>4. /\ IsStored(e) => stored'[e] > 0
      /\ o = "ok" => stored'[e] > 0
  <2>1. stored'[e] = IF CH!StoresRow(o) /\ stored[e] < MaxCopies THEN stored[e] + 1 ELSE stored[e]
    BY <1>2
  <2>2. o = "ok" => CH!StoresRow(o)
    BY DEF CH!StoresRow
  <2>3. QED
    BY <1>1, <2>1, <2>2 DEF IsStored
<1>5. /\ call'.phase = CH!Verdict(o) /\ call'.row = {e} /\ call.phase = "trying"
  BY DEF CH!AttemptWith, RingInv, CH!TypeOK
<1>6. (CH!Verdict(o) = "true" => o = "ok") /\ CH!Verdict(o) # "idle"
  BY DEF CH!Verdict
<1>7. QED
  BY <1>3, <1>4, <1>5, <1>6

LEMMA InsertAttemptKeeps == ASSUME IInv, InsertAttempt PROVE IInv'
<1>1. PICK o \in Outcomes : CH!AttemptWith(o)
  BY DEF InsertAttempt, CH!Attempt
<1>2. UNCHANGED <<phase, batch, produced, ok, fail, reply, backlog, server>>
  BY DEF InsertAttempt, clientVars, serverVars
<1>3. server.at = "insert" /\ call.phase = "trying"
  BY <1>1 DEF CH!AttemptWith, IInv, ServerAt
<1>4. PICK c \in Clients :
        /\ server.client = {c} /\ Serving(c) /\ phase[c] = "sent"
        /\ server.next \in Nat \ {0} /\ Len(server.rows) \in Nat
        /\ DOMAIN server.rows = 1 .. Len(server.rows)
  BY <1>3, Inserting
<1>5. /\ server.next <= Len(server.rows) /\ call.row = {server.rows[server.next]}
      /\ Between(c, server.next - 1, server.next) /\ PartOf(c, server.rows)
      /\ server.status = 200 /\ reply[c] = NoReply /\ ~InBacklog(c)
  BY <1>3, <1>4 DEF Serving
<1>6. /\ produced[c] \in Nat /\ batch[c] \in Seq(Events) /\ Len(batch[c]) \in Nat
      /\ DOMAIN batch[c] = 1 .. Len(batch[c]) /\ server.next \in DOMAIN batch[c]
      /\ produced[c] <= Total /\ Len(batch[c]) <= produced[c]
      /\ Numbered(c) /\ Fresh(c) /\ Counted(c)
  <2>1. /\ produced[c] \in Nat /\ batch[c] \in Seq(Events) /\ Len(batch[c]) \in Nat
        /\ DOMAIN batch[c] = 1 .. Len(batch[c]) /\ Numbered(c) /\ Fresh(c) /\ Counted(c)
    BY DEF IInv, Typed, ForClient
  <2>2. produced[c] <= Total /\ Len(batch[c]) <= produced[c]
    BY <2>1 DEF Numbered
  <2>3. Len(server.rows) <= Len(batch[c])
    BY <1>5 DEF PartOf
  <2>4. server.next \in 1 .. Len(batch[c])
    BY <1>4, <1>5, <2>1, <2>3
  <2>5. QED
    BY <2>1, <2>2, <2>4
<1>7. PICK e \in Events : e = batch[c][server.next] /\ call.row = {e} /\ e = server.rows[server.next]
  BY <1>4, <1>5, <1>6 DEF PartOf
<1>8. e = <<c, produced[c] - Len(batch[c]) + server.next>>
  BY <1>6, <1>7 DEF Numbered
<1>9. /\ \A r \in Events : r # e => stored'[r] = stored[r]
      /\ IsStored(e) => stored'[e] > 0
      /\ o = "ok" => stored'[e] > 0
      /\ call'.row = {e} /\ (call'.phase = "true" => o = "ok") /\ call'.phase # "idle"
  BY <1>1, <1>7, AttemptStores DEF IInv
<1>10. RingInv'
  BY <1>1, AttemptKeepsRing DEF IInv
<1>11. Typed' /\ BacklogOnce' /\ ServerAt'
  BY <1>2, <1>3 DEF IInv, Typed, BacklogOnce, ServerAt
<1>12. ASSUME NEW i \in DOMAIN batch[c], i # server.next
       PROVE  IsStored(batch[c][i])' <=> IsStored(batch[c][i])
  <2>1. batch[c][i] = <<c, produced[c] - Len(batch[c]) + i>>
    BY <1>6 DEF Numbered
  <2>2. batch[c][i] \in Events
    BY <1>6
  <2>3. produced[c] - Len(batch[c]) + i # produced[c] - Len(batch[c]) + server.next
    BY <1>4, <1>6, <1>12
  <2>4. batch[c][i] # e
    BY <1>8, <2>1, <2>3
  <2>5. stored'[batch[c][i]] = stored[batch[c][i]]
    BY <1>9, <2>2, <2>4
  <2>6. QED
    BY <1>2, <2>5 DEF IsStored
<1>13. ForClient(c)'
  <2>1. Between(c, server.next - 1, server.next)'
    <3>1. server.next - 1 <= Len(batch[c])
      BY <1>5 DEF Between
    <3>2. ASSUME NEW i \in DOMAIN batch[c]
          PROVE  /\ i <= server.next - 1 => IsStored(batch[c][i])'
                 /\ IsStored(batch[c][i])' => i <= server.next
      <4>1. CASE i = server.next
        BY <1>4, <4>1
      <4>2. CASE i # server.next
        BY <1>5, <1>12, <4>2 DEF Between
      <4>3. QED
        BY <4>1, <4>2
    <3>3. QED
      BY <1>2, <3>1, <3>2 DEF Between
  <2>2. call'.phase = "true" => Between(c, server.next, server.next)'
    <3>1. SUFFICES ASSUME call'.phase = "true" PROVE Between(c, server.next, server.next)'
      OBVIOUS
    <3>2. IsStored(batch[c][server.next])'
      BY <1>2, <1>7, <1>9, <3>1 DEF IsStored
    <3>3. \A i \in DOMAIN batch[c] : i <= server.next => i = server.next \/ i <= server.next - 1
      BY <1>4, <1>6
    <3>4. server.next <= Len(batch[c])
      BY <1>6
    <3>5. ASSUME NEW i \in DOMAIN batch[c]
          PROVE  /\ i <= server.next - 1 => IsStored(batch[c][i])'
                 /\ IsStored(batch[c][i])' => i <= server.next
      BY <1>2, <2>1 DEF Between
    <3>6. ASSUME NEW i \in DOMAIN batch[c], i <= server.next PROVE IsStored(batch[c][i])'
      <4>1. CASE i = server.next
        BY <1>2, <3>2, <4>1 DEF IsStored
      <4>2. CASE i <= server.next - 1
        BY <3>5, <4>2
      <4>3. QED
        BY <3>3, <3>6, <4>1, <4>2
    <3>7. QED
      BY <1>2, <3>4, <3>5, <3>6 DEF Between
  <2>3. PartOf(c, server.rows)'
    BY <1>2, <1>5 DEF PartOf
  <2>4. Serving(c)'
    BY <1>2, <1>3, <1>4, <1>5, <1>7, <1>9, <2>1, <2>2, <2>3 DEF Serving, InBacklog
  <2>5. Numbered(c)'
    BY <1>2, <1>6 DEF Numbered
  <2>6. ASSUME NEW n \in 1 .. Total, n # produced[c] - Len(batch[c]) + server.next
        PROVE  IsStored(<<c, n>>)' <=> IsStored(<<c, n>>)
    <3>1. <<c, n>> \in Events /\ <<c, n>> # e
      BY <1>8, <2>6 DEF Events
    <3>2. QED
      BY <1>9, <3>1 DEF IsStored
  <2>7. Fresh(c)'
    <3>1. ASSUME NEW n \in 1 .. Total, n > produced[c] PROVE ~IsStored(<<c, n>>)'
      <4>1. n # produced[c] - Len(batch[c]) + server.next
        BY <1>4, <1>6, <3>1
      <4>2. ~IsStored(<<c, n>>)
        BY <1>6, <3>1 DEF Fresh
      <4>3. QED
        BY <2>6, <4>1, <4>2
    <3>2. QED
      BY <1>2, <3>1 DEF Fresh
  <2>8. Counted(c)'
    <3>1. \A n \in 1 .. produced[c] - Len(batch[c]) :
            n \in 1 .. Total /\ n # produced[c] - Len(batch[c]) + server.next
      BY <1>4, <1>6, BatchAssumption
    <3>2. \A n \in 1 .. produced[c] - Len(batch[c]) : IsStored(<<c, n>>)' <=> IsStored(<<c, n>>)
      BY <2>6, <3>1
    <3>3. Past(c)' = Past(c)
      BY <1>2, <3>2 DEF Past
    <3>4. QED
      BY <1>2, <1>6, <3>3 DEF Counted
  <2>9. QED
    BY <1>2, <1>4, <2>4, <2>5, <2>7, <2>8 DEF ForClient, Request
<1>14. ServerMoves(c)
  <2>1. \A r \in Events : r[1] # c => stored'[r] = stored[r]
    BY <1>8, <1>9
  <2>2. QED
    BY <1>2, <1>4, <2>1 DEF ServerMoves, InBacklog, clientVars
<1>15. QED
  BY <1>10, <1>11, <1>13, <1>14, ServerStepKeeps

LEMMA InsertReturnKeeps == ASSUME IInv, InsertReturn PROVE IInv'
<1>1. /\ server' = IF call.phase = "true" THEN [server EXCEPT !.next = server.next + 1]
                   ELSE [server EXCEPT !.at = "reply", !.status = 502]
      /\ CH!Return /\ call.phase \in {"true", "false"} /\ call' = CH!NoCall
      /\ UNCHANGED <<phase, batch, produced, ok, fail, reply, backlog, current, stored>>
  BY DEF InsertReturn, BreakOff, CH!Return, clientVars
<1>2. server.at = "insert" /\ call'.phase = "idle"
  BY <1>1 DEF IInv, ServerAt, CH!NoCall
<1>3. PICK c \in Clients :
        /\ server.client = {c} /\ Serving(c) /\ phase[c] = "sent"
        /\ server.next \in Nat \ {0} /\ Len(server.rows) \in Nat
        /\ DOMAIN server.rows = 1 .. Len(server.rows)
  BY <1>2, Inserting
<1>4. /\ server.next <= Len(server.rows) /\ Between(c, server.next - 1, server.next)
      /\ call.phase = "true" => Between(c, server.next, server.next)
      /\ PartOf(c, server.rows) /\ server.status = 200 /\ reply[c] = NoReply /\ ~InBacklog(c)
  BY <1>1, <1>2, <1>3 DEF Serving
<1>5. RingInv'
  BY <1>1, ReturnKeepsRing DEF IInv
<1>6. server \in ServerStates
  BY DEF IInv, Typed
<1>7. /\ server'.client = {c} /\ server'.rows = server.rows /\ server' \in ServerStates
      /\ \/ /\ call.phase = "true" /\ server'.at = "insert" /\ server'.status = 200
            /\ server'.next = server.next + 1
         \/ server'.at = "reply" /\ server'.status = 502 /\ server'.next = server.next
  <2>1. CASE call.phase = "true"
    <3>1. server' = [server EXCEPT !.next = server.next + 1]
      BY <1>1, <2>1
    <3>2. QED
      BY <1>2, <1>3, <1>4, <1>6, <2>1, <3>1 DEF ServerStates
  <2>2. CASE call.phase # "true"
    <3> DEFINE moved == [server EXCEPT !.at = "reply"]
    <3>1. server' = [moved EXCEPT !.status = 502]
      BY <1>1, <2>2
    <3>2. /\ moved \in ServerStates /\ moved.at = "reply" /\ moved.client = server.client
          /\ moved.rows = server.rows /\ moved.next = server.next
      BY <1>6 DEF ServerStates
    <3> HIDE DEF moved
    <3>3. QED
      BY <1>3, <3>1, <3>2 DEF ServerStates
  <2>3. QED
    BY <2>1, <2>2
<1>8. Typed' /\ BacklogOnce' /\ ServerAt'
  <2>1. Typed' /\ BacklogOnce'
    BY <1>1, <1>7 DEF IInv, Typed, BacklogOnce
  <2>2. server'.at # "accept" /\ server'.client = {c} /\ call'.phase = "idle"
    BY <1>2, <1>7
  <2>3. QED
    BY <2>1, <2>2 DEF ServerAt
<1>9. ForClient(c)'
  <2>1. /\ \A lo, hi : Between(c, lo, hi) <=> Between(c, lo, hi)'
        /\ Numbered(c)' /\ Fresh(c)' /\ Counted(c)'
    BY <1>1, OwnEvents
  <2>2. PartOf(c, server.rows)'
    BY <1>1, <1>4, <1>7 DEF PartOf
  <2>3. Serving(c)'
    <3>1. CASE /\ call.phase = "true" /\ server'.at = "insert" /\ server'.status = 200
               /\ server'.next = server.next + 1
      <4>1. server'.next - 1 = server.next /\ server'.next \in Nat \ {0}
            /\ server'.next <= Len(server'.rows) + 1
        BY <1>3, <1>4, <1>7, <3>1
      <4>2. Between(c, server.next - 1, server.next - 1)'
        <5>1. Between(c, server.next, server.next)
          BY <1>4, <3>1
        <5>2. QED
          BY <1>1, <4>1, <5>1 DEF Between, IsStored
      <4>3. QED
        BY <1>1, <1>2, <1>3, <1>4, <2>2, <3>1, <4>1, <4>2 DEF Serving, InBacklog
    <3>2. CASE server'.at = "reply" /\ server'.status = 502 /\ server'.next = server.next
      <4>1. server.next - 1 + 1 = server.next
        BY <1>3
      <4>2. Between(c, server.next - 1, server.next - 1 + 1)'
        BY <1>1, <1>4, <3>2, <4>1 DEF Between, IsStored
      <4>3. TrueReply(c, [status |-> server.status, accepted |-> server.next - 1,
                          parsed |-> server.rows])'
        BY <2>2, <3>2, <4>2 DEF TrueReply
      <4>4. QED
        BY <1>1, <1>3, <1>4, <3>2, <4>3 DEF Serving, InBacklog
    <3>3. QED
      BY <1>7, <3>1, <3>2
  <2>4. QED
    BY <1>7, <2>1, <2>3 DEF ForClient, Request
<1>10. ServerMoves(c)
  BY <1>1, <1>3, <1>7 DEF ServerMoves, InBacklog, clientVars
<1>11. QED
  BY <1>5, <1>8, <1>9, <1>10, ServerStepKeeps

LEMMA InsertDoneKeeps == ASSUME IInv, InsertDone PROVE IInv'
<1>1. /\ server.at = "insert" /\ server.next > Len(server.rows)
      /\ server' = [server EXCEPT !.at = "reply"]
      /\ UNCHANGED <<phase, batch, produced, ok, fail, reply, backlog, current, call, stored>>
  BY DEF InsertDone, AllInserted, clientVars, chVars
<1>2. PICK c \in Clients :
        /\ server.client = {c} /\ Serving(c) /\ phase[c] = "sent"
        /\ server.next \in Nat \ {0} /\ Len(server.rows) \in Nat
        /\ DOMAIN server.rows = 1 .. Len(server.rows)
  BY <1>1, Inserting
<1>3. /\ call.phase = "idle" /\ Between(c, server.next - 1, server.next - 1)
      /\ server.next - 1 = Len(server.rows)
      /\ PartOf(c, server.rows) /\ server.status = 200 /\ reply[c] = NoReply /\ ~InBacklog(c)
  <2>1. call.phase = "idle"
    <3>1. call.phase # "idle" => server.next <= Len(server.rows)
      BY <1>1, <1>2 DEF Serving
    <3>2. QED
      BY <1>1, <1>2, <3>1
  <2>2. server.next <= Len(server.rows) + 1
    BY <1>1, <1>2 DEF Serving
  <2>3. server.next - 1 = Len(server.rows)
    BY <1>1, <1>2, <2>2
  <2>4. QED
    BY <1>1, <1>2, <2>1, <2>3 DEF Serving
<1>4. /\ server' \in ServerStates /\ server'.at = "reply" /\ server'.client = {c}
      /\ server'.rows = server.rows /\ server'.next = server.next /\ server'.status = 200
  BY <1>1, <1>2, <1>3 DEF IInv, Typed, ServerStates
<1>5. RingInv'
  BY <1>1, RingUnchanged DEF IInv, chVars
<1>6. Typed' /\ BacklogOnce' /\ ServerAt'
  BY <1>1, <1>3, <1>4 DEF IInv, Typed, BacklogOnce, ServerAt
<1>7. ForClient(c)'
  <2>1. Numbered(c)' /\ Fresh(c)' /\ Counted(c)'
    BY <1>1, OwnEvents
  <2>2. PartOf(c, server.rows)' /\ Between(c, server.next - 1, server.next - 1)'
    BY <1>1, <1>3, <1>4 DEF PartOf, Between, IsStored
  <2>3. TrueReply(c, [status |-> server.status, accepted |-> server.next - 1,
                      parsed |-> server.rows])'
    BY <1>3, <1>4, <2>2 DEF TrueReply
  <2>4. Serving(c)'
    BY <1>1, <1>2, <1>3, <1>4, <2>3 DEF Serving, InBacklog
  <2>5. QED
    BY <1>4, <2>1, <2>4 DEF ForClient, Request
<1>8. ServerMoves(c)
  BY <1>1, <1>2, <1>4 DEF ServerMoves, InBacklog, clientVars
<1>9. QED
  BY <1>5, <1>6, <1>7, <1>8, ServerStepKeeps

LEMMA RespondKeeps == ASSUME IInv, NEW c \in Clients, Respond(c) PROVE IInv'
<1> DEFINE answer == [status |-> server.status, accepted |-> server.next - 1,
                      parsed |-> server.rows]
<1>1. /\ server.at = "reply" /\ server.client = {c} /\ server' = Accepting
      /\ reply' = [reply EXCEPT ![c] = answer]
      /\ UNCHANGED <<phase, batch, produced, ok, fail, backlog, current, call, stored>>
  BY DEF Respond, clientVars, chVars
<1>2. /\ TrueReply(c, answer) /\ server.next \in Nat \ {0} /\ phase[c] = "sent" /\ ~InBacklog(c)
  BY <1>1 DEF IInv, ForClient, Request, Serving
<1>3. answer \in Replies
  <2>1. server.status \in Nat /\ server.rows \in Seq(Events) /\ server.next - 1 \in Nat
    BY <1>2 DEF IInv, Typed, ServerStates
  <2>2. QED
    BY <2>1 DEF Replies
<1>4. answer # NoReply
  BY <1>2 DEF TrueReply, NoReply
<1>5. reply'[c] = answer
  BY <1>1 DEF IInv, Typed
<1>6. RingInv'
  BY <1>1, RingUnchanged DEF IInv, chVars
<1>7. server'.client = {} /\ server'.at = "accept" /\ call'.phase = "idle"
  BY <1>1 DEF Accepting, IInv, ServerAt
<1>8. Typed' /\ BacklogOnce' /\ ServerAt'
  BY <1>1, <1>3, <1>7, StatesTyped DEF IInv, Typed, BacklogOnce, ServerAt
<1>9. ForClient(c)'
  <2>1. /\ \A lo, hi : Between(c, lo, hi) <=> Between(c, lo, hi)'
        /\ Numbered(c)' /\ Fresh(c)' /\ Counted(c)'
    BY <1>1, OwnEvents
  <2>2. \A rows : PartOf(c, rows) <=> PartOf(c, rows)'
    BY <1>1 DEF PartOf
  <2>3. \A r : TrueReply(c, r) <=> TrueReply(c, r)'
    BY <2>1, <2>2 DEF TrueReply
  <2>4. TrueReply(c, reply[c])'
    BY <1>2, <1>5, <2>3
  <2>5. Request(c)'
    BY <1>1, <1>2, <1>4, <1>5, <1>7, <2>4 DEF Request, NotServed, InBacklog
  <2>6. QED
    BY <2>1, <2>5 DEF ForClient
<1>10. ServerMoves(c)
  <2>1. \A d \in Clients \ {c} : reply'[d] = reply[d]
    BY <1>1 DEF IInv, Typed
  <2>2. QED
    BY <1>1, <1>7, <2>1 DEF ServerMoves, InBacklog, clientVars
<1>11. QED
  BY <1>6, <1>8, <1>9, <1>10, ServerStepKeeps

-----------------------------------------------------------------------------

LEMMA StepKeeps == IInv /\ [Next]_vars => IInv'
<1> SUFFICES ASSUME IInv, [Next]_vars PROVE IInv'
  OBVIOUS
<1>1. ASSUME NEW c \in Clients, Client(c) PROVE IInv'
  BY <1>1, ProduceKeeps, ConnectKeeps, SendKeeps, ConnectFailsKeeps, ReceiveKeeps DEF Client
<1>2. CASE Server
  BY <1>2, AcceptKeeps, InsertNextKeeps, InsertAttemptKeeps, InsertReturnKeeps,
     InsertDoneKeeps, ReadAndValidateKeeps, RespondKeeps DEF Server
<1>3. CASE UNCHANGED vars
  <2>1. UNCHANGED <<phase, batch, produced, ok, reply, backlog, server, current, call, stored>>
    BY <1>3 DEF vars, clientVars, serverVars, chVars
  <2>2. RingInv'
    BY <2>1, RingUnchanged DEF IInv, chVars
  <2>3. Typed' /\ BacklogOnce' /\ ServerAt'
    BY <2>1 DEF IInv, Typed, BacklogOnce, ServerAt
  <2>4. ASSUME NEW d \in Clients PROVE ForClient(d)'
    BY <2>1, OtherKept DEF InBacklog
  <2>5. QED
    BY <2>2, <2>3, <2>4 DEF IInv
<1>4. QED
  BY <1>1, <1>2, <1>3 DEF Next

\* The inductive invariant holds in every reachable state.
THEOREM Inductive == Spec => []IInv
  BY Initially, StepKeeps, PTL DEF Spec

\* A call of the insert client tries no url twice and gives up on a network error
\* only after all of them, for any number of urls.
THEOREM TriesEachUrl == Spec => []FailsOverInRing
<1>1. IInv => FailsOverInRing
  BY DEF IInv, RingInv
<1>2. QED
  BY <1>1, Inductive, PTL

LEMMA TruthOfReply ==
  ASSUME IInv, NEW c \in Clients, reply[c] # NoReply
  PROVE  TrueReply(c, reply[c])
  BY DEF IInv, ForClient, Request, Serving, NotServed

\* What the API answers is true of raw_events: 200 of all events it read, 400 of
\* none, 502 of the first k and perhaps the next.
THEOREM RepliesTruthful == Spec => []ReplyTruthful
<1>1. IInv => ReplyTruthful
  <2>1. SUFFICES ASSUME IInv, NEW c \in Clients
                 PROVE  LET r == reply[c] IN
                   /\ r.status = 200 => StoredOf(r.parsed) = DOMAIN r.parsed
                   /\ r.status = 400 => StoredOf(batch[c]) = {}
                   /\ r.status = 502 => /\ 1 .. r.accepted \subseteq StoredOf(batch[c])
                                        /\ StoredOf(batch[c]) \subseteq 1 .. r.accepted + 1
    BY DEF ReplyTruthful
  <2> DEFINE r == reply[c]
  <2>2. /\ r \in Replies /\ batch[c] \in Seq(Events) /\ Len(batch[c]) \in Nat
        /\ DOMAIN batch[c] = 1 .. Len(batch[c])
        /\ r.parsed \in Seq(Events) /\ Len(r.parsed) \in Nat
        /\ DOMAIN r.parsed = 1 .. Len(r.parsed) /\ r.accepted \in Nat
    BY <2>1 DEF IInv, Typed, Replies
  <2>3. CASE r = NoReply
    <3>1. r.status = 0
      BY <2>3 DEF NoReply
    <3> HIDE DEF r
    <3>2. QED
      BY <3>1 DEF r
  <2>4. CASE r # NoReply
    <3>1. TrueReply(c, r)
      BY <2>1, <2>4, TruthOfReply
    <3> HIDE DEF r
    <3>2. r.status = 200 => StoredOf(r.parsed) = DOMAIN r.parsed
      <4>1. ASSUME r.status = 200, NEW i \in DOMAIN r.parsed PROVE IsStored(r.parsed[i])
        <5>1. /\ Between(c, r.accepted, r.accepted) /\ PartOf(c, r.parsed)
              /\ r.accepted = Len(r.parsed)
          BY <3>1, <4>1 DEF TrueReply
        <5>2. i \in DOMAIN batch[c] /\ r.parsed[i] = batch[c][i] /\ i <= r.accepted
          BY <2>2, <5>1 DEF PartOf
        <5>3. IsStored(batch[c][i])
          BY <5>1, <5>2 DEF Between
        <5>4. QED
          BY <5>2, <5>3 DEF IsStored
      <4>2. QED
        BY <4>1 DEF StoredOf
    <3>3. r.status = 400 => StoredOf(batch[c]) = {}
      BY <2>2, <3>1 DEF TrueReply, Between, StoredOf
    <3>4. r.status = 502 => /\ 1 .. r.accepted \subseteq StoredOf(batch[c])
                            /\ StoredOf(batch[c]) \subseteq 1 .. r.accepted + 1
      BY <2>2, <3>1 DEF TrueReply, Between, StoredOf
    <3>5. QED
      BY <3>2, <3>3, <3>4 DEF r
  <2>5. QED
    BY <2>3, <2>4
<1>2. QED
  BY <1>1, Inductive, PTL

\* The stored events of a batch are its first ones, whatever is cut off or fails.
THEOREM StoredArePrefix == Spec => []StoredIsPrefix
<1>1. IInv => StoredIsPrefix
  <2> SUFFICES ASSUME IInv, NEW c \in Clients, NEW i \in StoredOf(batch[c])
               PROVE  1 .. i \subseteq StoredOf(batch[c])
    BY DEF StoredIsPrefix
  <2>1. /\ DOMAIN batch[c] = 1 .. Len(batch[c]) /\ Len(batch[c]) \in Nat
        /\ reply[c].accepted \in Nat /\ server.next \in Nat
        /\ Len(server.rows) \in Nat /\ Len(reply[c].parsed) \in Nat
        /\ server.at \in {"accept", "read", "insert", "reply"}
    BY DEF IInv, Typed, Replies, ServerStates
  <2>2. \E lo \in Nat : Between(c, lo, lo) \/ Between(c, lo, lo + 1)
    <3>1. ASSUME NEW r, r.accepted \in Nat, TrueReply(c, r)
          PROVE  \E lo \in Nat : Between(c, lo, lo) \/ Between(c, lo, lo + 1)
      <4>1. \/ Between(c, r.accepted, r.accepted) \/ Between(c, r.accepted, r.accepted + 1)
            \/ Between(c, 0, 0)
        BY <3>1 DEF TrueReply
      <4>2. QED
        BY <3>1, <4>1
    <3>2. CASE server.client = {c}
      <4>1. Serving(c)
        BY <3>2 DEF IInv, ForClient, Request
      <4>2. server.at # "accept"
        BY <3>2 DEF IInv, ServerAt, Accepting
      <4>3. CASE server.at = "read"
        BY <4>1, <4>3 DEF Serving
      <4>4. CASE server.at = "insert"
        <5>1. server.next - 1 \in Nat /\ server.next - 1 + 1 = server.next
          BY <2>1, <4>1 DEF Serving
        <5>2. \/ Between(c, server.next - 1, server.next - 1)
              \/ Between(c, server.next - 1, server.next)
          BY <4>1, <4>4 DEF Serving
        <5>3. QED
          BY <5>1, <5>2
      <4>5. CASE server.at = "reply"
        <5> DEFINE r == [status |-> server.status, accepted |-> server.next - 1,
                         parsed |-> server.rows]
        <5>1. TrueReply(c, r) /\ r.accepted \in Nat
          BY <2>1, <4>1, <4>5 DEF Serving
        <5>2. QED
          BY <3>1, <5>1
      <4>6. QED
        BY <2>1, <4>2, <4>3, <4>4, <4>5
    <3>3. CASE server.client # {c}
      <4>1. Between(c, 0, 0) \/ TrueReply(c, reply[c])
        BY <3>3 DEF IInv, ForClient, Request, NotServed
      <4>2. QED
        BY <2>1, <3>1, <4>1
    <3>4. QED
      BY <3>2, <3>3
  <2>3. PICK lo \in Nat : Between(c, lo, lo) \/ Between(c, lo, lo + 1)
    BY <2>2
  <2>4. i \in 1 .. Len(batch[c]) /\ IsStored(batch[c][i])
    BY <2>1 DEF StoredOf
  <2>5. i <= lo + 1
    BY <2>1, <2>3, <2>4 DEF Between
  <2>6. ASSUME NEW j \in 1 .. i PROVE j \in StoredOf(batch[c])
    <3>1. j \in DOMAIN batch[c] /\ (j = i \/ j <= lo)
      BY <2>1, <2>4, <2>5
    <3>2. IsStored(batch[c][j])
      BY <2>3, <2>4, <3>1 DEF Between
    <3>3. QED
      BY <3>1, <3>2 DEF StoredOf
  <2>7. QED
    BY <2>6
<1>2. QED
  BY <1>1, Inductive, PTL

\* A client whose requests are read whole counts no event as a success that is not
\* in raw_events.
THEOREM SuccessesStored == Spec => []OkIsStored
<1>1. IInv => OkIsStored
  <2> SUFFICES ASSUME IInv, NEW c \in WholeReads
               PROVE  ok[c] <= Cardinality({e \in Events : e[1] = c /\ IsStored(e)})
    BY DEF OkIsStored
  <2> DEFINE storedOfC == {e \in Events : e[1] = c /\ IsStored(e)}
  <2> DEFINE f == [n \in Past(c) |-> <<c, n>>]
  <2>1. c \in Clients
    BY InvalidAssumption
  <2>2. IsFiniteSet(storedOfC)
    <3>1. IsFiniteSet({c})
      BY FS_Singleton
    <3>2. IsFiniteSet({c} \X (1 .. Total))
      <4>1. 1 \in Int /\ Total \in Int
        BY BatchAssumption
      <4>2. IsFiniteSet(1 .. Total)
        BY <4>1, FS_Interval
      <4>3. QED
        BY <3>1, <4>2, FS_Product
    <3>3. storedOfC \subseteq {c} \X (1 .. Total)
      BY DEF Events
    <3>4. QED
      BY <3>2, <3>3, FS_Subset
  <2>3. f \in Injection(Past(c), storedOfC)
    <3>1. \A n \in Past(c) : n \in 1 .. Total /\ IsStored(<<c, n>>)
      <4>1. produced[c] \in Nat /\ produced[c] <= Total /\ Len(batch[c]) \in Nat
        BY <2>1 DEF IInv, Typed, ForClient, Numbered
      <4>2. QED
        BY <4>1, BatchAssumption DEF Past
    <3>2. \A n \in Past(c) : <<c, n>> \in storedOfC
      BY <2>1, <3>1 DEF Events
    <3>3. f \in [Past(c) -> storedOfC]
      BY <3>2
    <3>4. \A m, n \in Past(c) : f[m] = f[n] => m = n
      OBVIOUS
    <3>5. QED
      BY <3>3, <3>4 DEF Injection, IsInjective
  <2> HIDE DEF f, storedOfC
  <2>4. Cardinality(Past(c)) <= Cardinality(storedOfC)
    BY <2>2, <2>3, FS_Injection
  <2>5. ok[c] <= Cardinality(Past(c)) /\ ok[c] \in Nat /\ Cardinality(Past(c)) \in Nat
    BY <2>1, PastIsFinite DEF IInv, ForClient, Counted, Typed
  <2>6. Cardinality(storedOfC) \in Nat
    BY <2>2, FS_CardinalityType
  <2>7. QED
    BY <2>4, <2>5, <2>6 DEF storedOfC
<1>2. QED
  BY <1>1, Inductive, PTL

-----------------------------------------------------------------------------
(* Copies. *)

\* The row of a call has no more copies than the call has made attempts.
CopiesInv ==
  \A e \in Events : /\ stored[e] <= NumUrls
                    /\ call.phase # "idle" /\ call.row = {e} => stored[e] <= call.attempt

LEMMA NextNotStored ==
  ASSUME IInv, InsertNext
  PROVE  server.rows[server.next] \in Events /\ ~IsStored(server.rows[server.next])
<1>1. server.at = "insert" /\ server.next <= Len(server.rows) /\ call.phase = "idle"
  BY DEF InsertNext, CH!Begin
<1>2. PICK c \in Clients :
        /\ server.client = {c} /\ Serving(c) /\ phase[c] = "sent"
        /\ server.next \in Nat \ {0} /\ Len(server.rows) \in Nat
        /\ DOMAIN server.rows = 1 .. Len(server.rows)
  BY <1>1, Inserting
<1>3. Between(c, server.next - 1, server.next - 1) /\ PartOf(c, server.rows)
  BY <1>1, <1>2 DEF Serving
<1>4. server.next \in DOMAIN batch[c] /\ server.rows[server.next] = batch[c][server.next]
  <2>1. Len(batch[c]) \in Nat /\ DOMAIN batch[c] = 1 .. Len(batch[c])
    BY DEF IInv, Typed
  <2>2. QED
    BY <1>1, <1>2, <1>3, <2>1 DEF PartOf
<1>5. ~IsStored(batch[c][server.next])
  BY <1>2, <1>3, <1>4 DEF Between
<1>6. server.rows[server.next] \in Events
  BY <1>1, <1>2 DEF IInv, Typed, ServerStates
<1>7. QED
  BY <1>4, <1>5, <1>6 DEF IsStored

LEMMA CopiesStep == IInv /\ CopiesInv /\ [Next]_vars => CopiesInv'
<1> SUFFICES ASSUME IInv, CopiesInv, [Next]_vars PROVE CopiesInv'
  OBVIOUS
<1>1. /\ stored \in [Events -> 0 .. MaxCopies] /\ NumUrls \in Nat \ {0} /\ MaxCopies \in Nat \ {0}
      /\ call.attempt \in Nat
      /\ call.phase = "trying" => call.attempt < NumUrls
  BY ClientAssumption DEF IInv, RingInv, CH!TypeOK
<1>2. CASE InsertNext
  <2>1. /\ call'.row = {server.rows[server.next]} /\ call'.attempt = 0 /\ stored' = stored
    BY <1>2 DEF InsertNext, CH!Begin
  <2>2. server.rows[server.next] \in Events /\ ~IsStored(server.rows[server.next])
    BY <1>2, NextNotStored
  <2>3. ASSUME NEW e \in Events, call'.row = {e} PROVE stored'[e] <= 0
    <3>1. e = server.rows[server.next]
      BY <2>1, <2>3
    <3>2. QED
      BY <1>1, <2>1, <2>2, <3>1 DEF IsStored
  <2>4. QED
    BY <2>1, <2>3 DEF CopiesInv
<1>3. ASSUME NEW o \in Outcomes, CH!AttemptWith(o) PROVE CopiesInv'
  <2>1. /\ call.phase = "trying" /\ call'.attempt = call.attempt + 1 /\ call'.row = call.row
    BY <1>3 DEF CH!AttemptWith, IInv, RingInv, CH!TypeOK
  <2>2. ASSUME NEW e \in Events
        PROVE  /\ stored'[e] <= NumUrls
               /\ call'.row = {e} => stored'[e] <= call'.attempt
    <3>1. stored'[e] = IF {e} = call.row /\ CH!StoresRow(o) /\ stored[e] < MaxCopies
                       THEN stored[e] + 1 ELSE stored[e]
      BY <1>3 DEF CH!AttemptWith
    <3>2. /\ stored[e] \in Nat /\ stored[e] <= NumUrls
          /\ call.row = {e} => stored[e] <= call.attempt
      BY <1>1, <2>1 DEF CopiesInv
    <3>3. QED
      BY <1>1, <2>1, <3>1, <3>2
  <2>3. QED
    BY <2>2 DEF CopiesInv
<1>4. CASE InsertReturn
  BY <1>4 DEF InsertReturn, CH!Return, CH!NoCall, CopiesInv
<1>5. CASE UNCHANGED <<stored, call>>
  BY <1>5 DEF CopiesInv
<1>6. ASSUME NEW c \in Clients, Client(c) PROVE CopiesInv'
  BY <1>5, <1>6 DEF Client, Produce, Connect, Send, ConnectFails, Receive, serverVars, chVars
<1>7. ASSUME NEW c \in Clients, ReadAndValidate(c) \/ Respond(c) PROVE CopiesInv'
  BY <1>5, <1>7 DEF ReadAndValidate, Respond, chVars
<1>8. CASE Accept \/ InsertDone
  BY <1>5, <1>8 DEF Accept, InsertDone, chVars
<1>9. CASE UNCHANGED vars
  BY <1>5, <1>9 DEF vars, chVars
<1>10. CASE InsertAttempt
  BY <1>3, <1>10 DEF InsertAttempt, CH!Attempt
<1>11. QED
  BY <1>2, <1>4, <1>6, <1>7, <1>8, <1>9, <1>10 DEF Next, Server

\* However the urls fail, no event has more copies in raw_events than there are urls.
THEOREM CopiesBounded == Spec => []CopiesWithinUrls
<1>1. Init => CopiesInv
  BY ClientAssumption DEF Init, CH!Init, CH!NoCall, CopiesInv
<1>2. CopiesInv => CopiesWithinUrls
  BY DEF CopiesInv, CopiesWithinUrls
<1>3. QED
  BY <1>1, <1>2, CopiesStep, Inductive, PTL DEF Spec

-----------------------------------------------------------------------------
(* The counters and the bounds. *)

\* Each event produced is in the batch or counted, once, as a success or a failure.
AccountOf(c) ==
  /\ fail[c] \in Nat /\ produced[c] = ok[c] + fail[c] + Len(batch[c])
  /\ Len(batch[c]) <= BatchSize
  /\ reply[c].accepted <= BatchSize

BoundsInv ==
  /\ fail \in [Clients -> Nat]
  /\ \A c \in Clients : AccountOf(c)
  /\ Len(backlog) <= Backlog
  /\ server.next \in 1 .. BatchSize + 1

LEMMA BoundsInitially == Init => BoundsInv
<1> SUFFICES ASSUME Init PROVE BoundsInv
  OBVIOUS
<1>1. fail \in [Clients -> Nat]
  BY DEF Init
<1>2. Len(backlog) <= Backlog
  BY BatchAssumption DEF Init
<1>3. server.next = 1
  BY DEF Init, Accepting
<1>4. ASSUME NEW c \in Clients PROVE AccountOf(c)
  <2>1. /\ produced[c] = 0 /\ ok[c] = 0 /\ fail[c] = 0 /\ batch[c] = <<>>
        /\ reply[c].accepted = 0
    BY DEF Init, NoReply
  <2>2. QED
    BY <2>1, BatchAssumption DEF AccountOf
<1>5. QED
  BY <1>1, <1>2, <1>3, <1>4, BatchAssumption DEF BoundsInv

\* The types that the sums need.
LEMMA CountsTyped ==
  ASSUME IInv, NEW c \in Clients
  PROVE  /\ produced[c] \in Nat /\ ok[c] \in Nat /\ batch[c] \in Seq(Events)
         /\ Len(batch[c]) \in Nat
         /\ reply[c] \in Replies /\ reply[c].accepted \in Nat
  BY DEF IInv, Typed, Replies

LEMMA AccountBounds ==
  ASSUME IInv, BoundsInv, NEW c \in Clients, NEW success \in BOOLEAN, Account(c, success)
  PROVE  /\ fail' \in [Clients -> Nat]
         /\ fail'[c] \in Nat /\ produced'[c] = ok'[c] + fail'[c] + Len(batch'[c])
         /\ Len(batch'[c]) <= BatchSize
         /\ \A d \in Clients \ {c} :
              UNCHANGED <<fail[d], ok[d], produced[d], batch[d]>>
<1> DEFINE n == Len(batch[c])
<1>1. /\ ok \in [Clients -> Nat] /\ fail \in [Clients -> Nat] /\ batch \in [Clients -> Seq(Events)]
      /\ n \in Nat /\ ok[c] \in Nat /\ fail[c] \in Nat
      /\ produced[c] = ok[c] + fail[c] + n
  BY CountsTyped DEF IInv, Typed, BoundsInv, AccountOf
<1>2. /\ ok' = [ok EXCEPT ![c] = ok[c] + IF success THEN n ELSE 0]
      /\ fail' = [fail EXCEPT ![c] = fail[c] + IF success THEN 0 ELSE n]
      /\ batch' = [batch EXCEPT ![c] = <<>>] /\ produced' = produced
  BY DEF Account
<1> HIDE DEF n
<1>3. CASE success
  BY <1>1, <1>2, <1>3, BatchAssumption
<1>4. CASE ~success
  BY <1>1, <1>2, <1>4, BatchAssumption
<1>5. QED
  BY <1>3, <1>4

\* A step of the server or of a connection: no event is counted.
LEMMA SameCounts ==
  ASSUME BoundsInv, UNCHANGED <<batch, produced, ok, fail>>,
         \A c \in Clients : reply'[c].accepted <= BatchSize,
         Len(backlog)' <= Backlog, server'.next \in 1 .. BatchSize + 1
  PROVE  BoundsInv'
  BY DEF BoundsInv, AccountOf

LEMMA ServedBounds ==
  ASSUME IInv, BoundsInv, call.phase \in {"true", "false"}
  PROVE  server.next \in 1 .. BatchSize /\ server \in ServerStates
<1>1. server.at = "insert" /\ server \in ServerStates
  BY DEF IInv, ServerAt, Typed
<1>2. PICK c \in Clients : server.client = {c}
  BY <1>1 DEF IInv, ServerAt
<1>3. Serving(c)
  BY <1>2 DEF IInv, ForClient, Request
<1>4. server.next <= Len(server.rows) /\ Len(server.rows) <= Len(batch[c])
  BY <1>1, <1>3 DEF Serving, PartOf
<1>5. /\ server.next \in Nat \ {0} /\ Len(server.rows) \in Nat
      /\ Len(batch[c]) \in Nat /\ Len(batch[c]) <= BatchSize
  BY <1>1, <1>3, CountsTyped DEF Serving, ServerStates, BoundsInv, AccountOf
<1>6. QED
  BY <1>1, <1>4, <1>5, BatchAssumption

LEMMA ServerBounds == ASSUME IInv, BoundsInv, Server PROVE BoundsInv'
<1>1. /\ UNCHANGED <<batch, produced, ok, fail>>
  BY DEF Server, Accept, InsertNext, InsertAttempt, InsertReturn, InsertDone, ReadAndValidate,
         Respond, clientVars
<1>2. /\ server \in ServerStates /\ server.next \in 1 .. BatchSize + 1
      /\ Len(backlog) <= Backlog
      /\ \A c \in Clients : reply[c].accepted <= BatchSize
  BY DEF IInv, Typed, BoundsInv, AccountOf
<1>3. CASE Accept
  <2>1. server'.next = 1 /\ reply' = reply
    BY <1>3 DEF Accept, Accepting
  <2>2. Len(backlog)' <= Backlog
    <3>1. backlog \in Seq(Clients) /\ backlog # <<>> /\ backlog' = Tail(backlog)
      BY <1>3 DEF Accept, IInv, Typed
    <3>2. Len(backlog) \in Nat /\ Len(Tail(backlog)) = Len(backlog) - 1
      BY <3>1, HeadTailProperties, LenProperties
    <3>3. QED
      BY <1>2, <3>1, <3>2, BatchAssumption
  <2>3. QED
    BY <1>1, <1>2, <2>1, <2>2, BatchAssumption, SameCounts
<1>4. CASE InsertNext \/ InsertAttempt
  BY <1>1, <1>2, <1>4, SameCounts DEF InsertNext, InsertAttempt, serverVars
<1>5. CASE InsertReturn
  <2>1. call.phase \in {"true", "false"}
    BY <1>5 DEF InsertReturn, CH!Return
  <2>2. server.next \in 1 .. BatchSize
    BY <2>1, ServedBounds
  <2>3. server'.next \in 1 .. BatchSize + 1
    <3>1. CASE call.phase = "true"
      <4>1. server' = [server EXCEPT !.next = server.next + 1]
        BY <1>5, <3>1 DEF InsertReturn
      <4>2. server'.next = server.next + 1
        BY <1>2, <4>1 DEF ServerStates
      <4>3. QED
        BY <2>2, <4>2, BatchAssumption
    <3>2. CASE call.phase # "true"
      <4>1. server' = [server EXCEPT !.at = "reply", !.status = 502]
        BY <1>5, <3>2 DEF InsertReturn, BreakOff
      <4>2. server'.next = server.next
        BY <1>2, <4>1 DEF ServerStates
      <4>3. QED
        BY <1>2, <4>2
    <3>3. QED
      BY <3>1, <3>2
  <2>4. UNCHANGED <<reply, backlog>>
    BY <1>5 DEF InsertReturn
  <2>5. QED
    BY <1>1, <1>2, <2>3, <2>4, SameCounts
<1>6. CASE InsertDone
  <2>1. server' = [server EXCEPT !.at = "reply"] /\ UNCHANGED <<reply, backlog>>
    BY <1>6 DEF InsertDone
  <2>2. server'.next = server.next
    BY <1>2, <2>1 DEF ServerStates
  <2>3. QED
    BY <1>1, <1>2, <2>1, <2>2, SameCounts
<1>7. ASSUME NEW c \in Clients, ReadAndValidate(c) PROVE BoundsInv'
  <2>1. UNCHANGED <<reply, backlog>>
    BY <1>7 DEF ReadAndValidate
  <2>2. PICK p : server' = [server EXCEPT
                   !.rows = p.rows,
                   !.at = IF HasErrors(p) THEN "reply" ELSE "insert",
                   !.status = IF HasErrors(p) THEN 400 ELSE 200]
    BY <1>7 DEF ReadAndValidate
  <2>3. server'.next = server.next
    <3> DEFINE at == IF HasErrors(p) THEN "reply" ELSE "insert"
               status == IF HasErrors(p) THEN 400 ELSE 200
    <3>1. server' = [server EXCEPT !.rows = p.rows, !.at = at, !.status = status]
      BY <2>2
    <3> HIDE DEF at, status
    <3>2. QED
      BY <1>2, <3>1 DEF ServerStates
  <2>4. QED
    BY <1>1, <1>2, <2>1, <2>3, SameCounts
<1>8. ASSUME NEW c \in Clients, Respond(c) PROVE BoundsInv'
  <2>1. /\ reply' = [reply EXCEPT ![c] = [status |-> server.status,
                                          accepted |-> server.next - 1, parsed |-> server.rows]]
        /\ server' = Accepting /\ backlog' = backlog
    BY <1>8 DEF Respond
  <2>2. \A d \in Clients : reply'[d].accepted <= BatchSize
    <3>1. TAKE d \in Clients
    <3>2. reply \in [Clients -> Replies]
      BY DEF IInv, Typed
    <3>3. CASE d = c
      <4>1. reply'[d].accepted = server.next - 1
        BY <2>1, <3>2, <3>3
      <4>2. QED
        BY <1>2, <4>1, BatchAssumption
    <3>4. CASE d # c
      BY <1>2, <2>1, <3>2, <3>4
    <3>5. QED
      BY <3>3, <3>4
  <2>3. server'.next = 1
    BY <2>1 DEF Accepting
  <2>4. QED
    BY <1>1, <1>2, <2>1, <2>2, <2>3, BatchAssumption, SameCounts
<1>9. QED
  BY <1>3, <1>4, <1>5, <1>6, <1>7, <1>8 DEF Server

LEMMA ClientBounds ==
  ASSUME IInv, BoundsInv, NEW c \in Clients, Client(c) PROVE BoundsInv'
<1>1. /\ Len(backlog) <= Backlog /\ server.next \in 1 .. BatchSize + 1
      /\ fail \in [Clients -> Nat]
      /\ \A d \in Clients : AccountOf(d) /\ reply[d].accepted <= BatchSize
  BY DEF BoundsInv, AccountOf
<1>2. CASE Produce(c)
  <2>1. /\ Len(batch[c]) < BatchSize
        /\ produced' = [produced EXCEPT ![c] = produced[c] + 1]
        /\ batch' = [batch EXCEPT ![c] = Append(batch[c], <<c, produced[c] + 1>>)]
        /\ UNCHANGED <<ok, fail, reply, backlog, server>>
    BY <1>2 DEF Produce, HasRoom, serverVars
  <2>2. /\ produced \in [Clients -> Nat] /\ batch \in [Clients -> Seq(Events)]
        /\ produced[c] < Total /\ produced[c] \in Nat
    BY <1>2 DEF IInv, Typed, Produce
  <2>3. <<c, produced[c] + 1>> \in Events
    BY <2>2, BatchAssumption DEF Events
  <2>4. Len(batch'[c]) = Len(batch[c]) + 1 /\ Len(batch[c]) \in Nat
    BY <2>1, <2>2, <2>3
  <2>5. ASSUME NEW d \in Clients PROVE AccountOf(d)'
    <3>1. CASE d = c
      <4>1. /\ fail[c] \in Nat /\ produced[c] = ok[c] + fail[c] + Len(batch[c])
            /\ reply[c].accepted <= BatchSize
        BY <1>1 DEF AccountOf
      <4>2. produced'[c] = produced[c] + 1 /\ ok' = ok /\ fail' = fail /\ reply' = reply
        BY <2>1, <2>2
      <4>3. ok[c] \in Nat
        BY CountsTyped
      <4>4. produced'[c] = ok'[c] + fail'[c] + Len(batch'[c])
        BY <2>2, <2>4, <4>1, <4>2, <4>3
      <4>5. Len(batch'[c]) <= BatchSize
        BY <2>1, <2>4, BatchAssumption
      <4>6. QED
        BY <3>1, <4>1, <4>2, <4>4, <4>5 DEF AccountOf
    <3>2. CASE d # c
      BY <1>1, <2>1, <2>2, <3>2 DEF AccountOf
    <3>3. QED
      BY <3>1, <3>2
  <2>6. QED
    BY <1>1, <2>1, <2>5 DEF BoundsInv
<1>3. CASE Connect(c)
  <2>1. /\ Len(backlog) < Backlog /\ backlog' = Append(backlog, c)
        /\ UNCHANGED <<batch, produced, ok, fail, reply, server>>
    BY <1>3 DEF Connect
  <2>2. Len(backlog)' <= Backlog
    <3>1. backlog \in Seq(Clients)
      BY DEF IInv, Typed
    <3>2. Len(backlog) \in Nat /\ Len(backlog)' = Len(backlog) + 1
      BY <2>1, <3>1
    <3>3. QED
      BY <2>1, <3>2, BatchAssumption
  <2>3. QED
    BY <1>1, <2>1, <2>2, SameCounts
<1>4. CASE Send(c)
  BY <1>1, <1>4, SameCounts DEF Send, serverVars
<1>5. ASSUME NEW success \in BOOLEAN, Account(c, success), UNCHANGED serverVars,
             \A d \in Clients : reply'[d].accepted <= BatchSize
      PROVE  BoundsInv'
  <2>1. ASSUME NEW d \in Clients PROVE AccountOf(d)'
    <3>1. CASE d = c
      BY <1>5, <3>1, AccountBounds DEF AccountOf
    <3>2. CASE d # c
      BY <1>1, <1>5, <3>2, AccountBounds DEF AccountOf
    <3>3. QED
      BY <3>1, <3>2
  <2>2. fail' \in [Clients -> Nat]
    BY <1>5, AccountBounds
  <2>3. QED
    BY <1>1, <1>5, <2>1, <2>2 DEF BoundsInv, serverVars
<1>6. CASE ConnectFails(c)
  BY <1>1, <1>5, <1>6 DEF ConnectFails
<1>7. CASE Receive(c)
  <2>1. PICK received \in BOOLEAN : Account(c, received /\ Success(c))
    BY <1>7 DEF Receive
  <2>2. (received /\ Success(c)) \in BOOLEAN
    BY DEF Success
  <2>3. reply' = [reply EXCEPT ![c] = NoReply] /\ UNCHANGED serverVars
    BY <1>7 DEF Receive
  <2>4. reply \in [Clients -> Replies] /\ NoReply.accepted = 0
    BY DEF IInv, Typed, NoReply
  <2>5. \A d \in Clients : reply'[d].accepted <= BatchSize
    BY <1>1, <2>3, <2>4, BatchAssumption
  <2>6. QED
    BY <1>5, <2>1, <2>2, <2>3, <2>5
<1>8. QED
  BY <1>2, <1>3, <1>4, <1>6, <1>7 DEF Client

LEMMA BoundsStep == IInv /\ BoundsInv /\ [Next]_vars => BoundsInv'
<1> SUFFICES ASSUME IInv, BoundsInv, [Next]_vars PROVE BoundsInv'
  OBVIOUS
<1>1. CASE UNCHANGED vars
  BY <1>1 DEF vars, clientVars, serverVars, BoundsInv, AccountOf
<1>2. QED
  BY <1>1, ClientBounds, ServerBounds DEF Next

\* The counters never exceed what was produced, a batch its size, the backlog its
\* limit; what is answered are counts of a batch.
THEOREM TypeCorrect == Spec => []TypeOK
<1>1. IInv /\ BoundsInv => TypeOK
  <2> SUFFICES ASSUME IInv, BoundsInv PROVE TypeOK
    OBVIOUS
  <2>1. /\ phase \in [Clients -> ClientPhases] /\ backlog \in Seq(Clients)
        /\ server \in ServerStates /\ CH!TypeOK
    BY DEF IInv, Typed, RingInv
  <2>2. ASSUME NEW c \in Clients
        PROVE  /\ batch[c] \in Seq(Events) /\ Len(batch[c]) <= BatchSize
               /\ produced[c] \in 0 .. Total /\ ok[c] \in 0 .. Total /\ fail[c] \in 0 .. Total
    <3>1. /\ produced[c] \in Nat /\ produced[c] <= Total /\ ok[c] \in Nat /\ fail[c] \in Nat
          /\ Len(batch[c]) \in Nat /\ batch[c] \in Seq(Events)
          /\ produced[c] = ok[c] + fail[c] + Len(batch[c]) /\ Len(batch[c]) <= BatchSize
      BY CountsTyped DEF IInv, ForClient, Numbered, BoundsInv, AccountOf
    <3>2. QED
      BY <3>1, BatchAssumption
  <2>3. ASSUME NEW c \in Clients
        PROVE  reply[c].status \in {0, 200, 400, 502} /\ reply[c].accepted \in 0 .. BatchSize
    <3>1. reply[c] = NoReply \/ TrueReply(c, reply[c])
      BY DEF IInv, ForClient, Request, Serving, NotServed
    <3>2. reply[c].status \in {0, 200, 400, 502}
      BY <3>1 DEF NoReply, TrueReply
    <3>3. reply[c].accepted \in Nat /\ reply[c].accepted <= BatchSize
      BY CountsTyped DEF BoundsInv, AccountOf
    <3>4. QED
      BY <3>2, <3>3, BatchAssumption
  <2>4. /\ produced \in [Clients -> 0 .. Total] /\ ok \in [Clients -> 0 .. Total]
        /\ fail \in [Clients -> 0 .. Total]
    BY <2>2 DEF IInv, Typed, BoundsInv
  <2>5. server.at \in {"accept", "read", "insert", "reply"}
    BY <2>1 DEF ServerStates
  <2>6. QED
    BY <2>1, <2>2, <2>3, <2>4, <2>5 DEF TypeOK, BoundsInv
<1>2. Spec => [](IInv /\ BoundsInv)
  <2>1. Init => IInv /\ BoundsInv
    BY Initially, BoundsInitially
  <2>2. IInv /\ BoundsInv /\ [Next]_vars => (IInv /\ BoundsInv)'
    BY StepKeeps, BoundsStep
  <2>3. QED
    BY <2>1, <2>2, PTL DEF Spec
<1>3. QED
  BY <1>1, <1>2, PTL
=============================================================================
