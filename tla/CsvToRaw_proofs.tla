--------------------------- MODULE CsvToRaw_proofs ---------------------------
(***************************************************************************)
(* DAG 01 marks no object whose rows are not stored, and stores rows again *)
(* for a reason only, for any number of objects, hosts, overlapping runs,  *)
(* retries, outages and failures.                                          *)
(***************************************************************************)
EXTENDS CsvToRaw, FiniteSetTheorems, WellFoundedInduction, TLAPS

\* The object's rows are in raw_events, and the views have passed them on.
Done(o) == raw[o] > 0 /\ (classified[o] > 0 \/ o \in Repeatable)

\* A run that is about to mark an object has loaded it.
MarkReady(s) == pc[s] = "mark" => Done(First(toLoad[s]))

\* A block that raw_events may drop as a repetition of this run is there.
MineStored(s) == \A o \in mine[s] : raw[o] > 0

\* What MarkedIsDone says of the marks.
MarkedStored == \A h \in Hosts : \A o \in ledger[h] : Done(o)

IInv ==
  /\ TypeOK
  /\ \A s \in Slots : MarkReady(s) /\ MineStored(s)
  /\ MarkedStored

\* The next object of a run.
Object(s) == First(toLoad[s])

-----------------------------------------------------------------------------

\* The order of the listing.
Smaller == {ss \in Nat \X Nat : ss[1] < ss[2]}

LEMMA FirstOf ==
  ASSUME NEW S, S \subseteq Nat, S # {}
  PROVE  First(S) \in S
<1>1. IsWellFoundedOn(Smaller, Nat)
  BY NatLessThanWellFounded DEF OpToRel, Smaller
<1>2. PICK x \in S : \A y \in S : ~ (<<y, x>> \in Smaller)
  BY <1>1, WFMin
<1>3. \A y \in S : x <= y
  <2>1. TAKE y \in S
  <2>2. x \in Nat /\ y \in Nat
    BY <1>2
  <2>3. y < x => <<y, x>> \in Smaller
    BY <2>2 DEF Smaller
  <2>4. QED
    BY <1>2, <2>2, <2>3
<1>4. QED
  BY <1>2, <1>3 DEF First

LEMMA ObjectListed ==
  ASSUME TypeOK, NEW s \in Slots, toLoad[s] # {}
  PROVE  Object(s) \in toLoad[s] /\ Object(s) \in listed[s] /\ Object(s) \in Objects
<1>1. toLoad[s] \subseteq listed[s] /\ listed[s] \subseteq Objects
  BY DEF TypeOK
<1>2. Objects \subseteq Nat
  BY SizesAssumption DEF Objects
<1>3. QED
  BY <1>1, <1>2, FirstOf DEF Object

LEMMA ChosenIsHost == Reachable => Chosen \in Hosts
<1>1. Reachable => {h \in Hosts : up[h]} \subseteq Nat /\ {h \in Hosts : up[h]} # {}
  BY SizesAssumption DEF Reachable, Hosts
<1>2. QED
  BY <1>1, FirstOf DEF Chosen

LEMMA PlusCounts ==
  ASSUME NEW count \in [Objects -> 0 .. CopyCap], NEW o \in Objects
  PROVE  /\ Plus(count, o) \in [Objects -> 0 .. CopyCap]
         /\ Plus(count, o)[o] > 0
         /\ \A p \in Objects : Plus(count, o)[p] >= count[p]
  BY SizesAssumption DEF Plus

\* Nothing that is stored is taken away.
Grows ==
  /\ raw' \in [Objects -> 0 .. CopyCap] /\ classified' \in [Objects -> 0 .. CopyCap]
  /\ \A o \in Objects : raw'[o] >= raw[o] /\ classified'[o] >= classified[o]

\* So what the invariant says of the other runs and of the marks is kept by any
\* step of one run.
LEMMA OthersKept ==
  ASSUME IInv, TypeOK', Grows, NEW s \in Slots,
         \A t \in Slots \ {s} :
           pc'[t] = pc[t] /\ toLoad'[t] = toLoad[t] /\ mine'[t] = mine[t],
         MarkReady(s)', MineStored(s)',
         \A h \in Hosts : \A o \in ledger'[h] : o \in ledger[h] \/ Done(o)'
  PROVE  IInv'
<1>1. raw \in [Objects -> 0 .. CopyCap] /\ classified \in [Objects -> 0 .. CopyCap]
  BY DEF IInv, TypeOK
<1>2. \A o \in Objects : raw[o] > 0 => raw'[o] > 0
  BY <1>1, SizesAssumption DEF Grows
<1>3. \A o \in Objects : classified[o] > 0 => classified'[o] > 0
  BY <1>1, SizesAssumption DEF Grows
<1>4. \A o \in Objects : Done(o) => Done(o)'
  BY <1>2, <1>3 DEF Done
<1>5. ASSUME NEW t \in Slots \ {s} PROVE MarkReady(t)' /\ MineStored(t)'
  <2>1. MarkReady(t)'
    <3>1. pc[t] = "mark" => Object(t) \in Objects
      BY ObjectListed DEF IInv, TypeOK
    <3>2. QED
      BY <1>4, <3>1 DEF IInv, MarkReady, Object
  <2>2. MineStored(t)'
    <3>1. mine[t] \subseteq Objects
      BY DEF IInv, TypeOK
    <3>2. QED
      BY <1>2, <3>1 DEF IInv, MineStored
  <2>3. QED
    BY <2>1, <2>2
<1>6. MarkedStored'
  <2>1. ASSUME NEW h \in Hosts, NEW o \in ledger'[h] PROVE Done(o)'
    <3>1. o \in ledger[h] => o \in Objects /\ Done(o)
      BY DEF IInv, TypeOK, MarkedStored, Done
    <3>2. QED
      BY <1>4, <3>1
  <2>2. QED
    BY <2>1 DEF MarkedStored, Done
<1>7. QED
  BY <1>5, <1>6 DEF IInv

-----------------------------------------------------------------------------

LEMMA Initially == Init => IInv
<1> SUFFICES ASSUME Init PROVE IInv
  OBVIOUS
<1>1. TypeOK
  BY SizesAssumption DEF Init, TypeOK, Steps
<1>2. (\A s \in Slots : MarkReady(s) /\ MineStored(s)) /\ MarkedStored
  BY DEF Init, MarkReady, MineStored, MarkedStored
<1>3. QED
  BY <1>1, <1>2 DEF IInv

\* The steps of the generator and of the hosts.
Surroundings == (\E o \in Objects : Put(o)) \/ \E h \in Hosts : HostDown(h) \/ HostUp(h)

LEMMA SurroundingsKeep ==
  ASSUME IInv, Surroundings
  PROVE  IInv'
<1>1. UNCHANGED <<database, run, failures>>
  BY DEF Surroundings, Put, HostDown, HostUp, faults
<1>2. TypeOK'
  <2>1. bucket \subseteq bucket' /\ bucket' \subseteq Objects
    BY DEF Surroundings, Put, HostDown, HostUp, IInv, TypeOK
  <2>2. up' \in [Hosts -> BOOLEAN]
    BY DEF Surroundings, Put, HostDown, HostUp, IInv, TypeOK
  <2>3. downs' \in 0 .. MaxDowns
    <3>1. downs' = downs \/ (downs' = downs + 1 /\ downs < MaxDowns)
      BY DEF Surroundings, Put, HostDown, HostUp, faults
    <3>2. downs \in 0 .. MaxDowns
      BY DEF IInv, TypeOK
    <3>3. QED
      BY <3>1, <3>2, SizesAssumption
  <2>4. /\ listed' \in [Slots -> SUBSET bucket'] /\ toLoad' \in [Slots -> SUBSET bucket']
        /\ mine' \in [Slots -> SUBSET bucket']
    BY <1>1, <2>1 DEF IInv, TypeOK, run
  <2>5. QED
    BY <1>1, <2>1, <2>2, <2>3, <2>4 DEF IInv, TypeOK, database, run
<1>3. (\A s \in Slots : MarkReady(s)' /\ MineStored(s)') /\ MarkedStored'
  BY <1>1 DEF IInv, MarkReady, MineStored, Done, MarkedStored, database, run
<1>4. QED
  BY <1>2, <1>3 DEF IInv

-----------------------------------------------------------------------------
(* The steps of a run. *)

\* A run in step k whose database does not change.
LEMMA PassiveStepKeeps ==
  ASSUME IInv, TypeOK', NEW s \in Slots, pc'[s] # "mark",
         \A t \in Slots \ {s} :
           pc'[t] = pc[t] /\ toLoad'[t] = toLoad[t] /\ mine'[t] = mine[t],
         mine'[s] \subseteq mine[s],
         UNCHANGED <<ledger, raw, classified>>
  PROVE  IInv'
<1>1. Grows
  BY SizesAssumption DEF IInv, TypeOK, Grows
<1>2. MarkReady(s)' /\ MineStored(s)'
  BY DEF IInv, MarkReady, MineStored
<1>3. QED
  BY <1>1, <1>2, OthersKept

LEMMA EnsureKeeps == ASSUME IInv, NEW s \in Slots, Ensure(s) PROVE IInv'
<1>1. Chosen \in Hosts
  BY ChosenIsHost DEF Ensure
<1>2. TypeOK'
  BY <1>1 DEF IInv, TypeOK, Ensure, Goto, Steps, faults
<1>3. QED
  BY <1>2, PassiveStepKeeps DEF IInv, TypeOK, Ensure, Goto

LEMMA ListKeeps == ASSUME IInv, NEW s \in Slots, List(s) PROVE IInv'
<1>1. TypeOK'
  BY SizesAssumption DEF IInv, TypeOK, List, Goto, Steps, database, faults
<1>2. QED
  BY <1>1, PassiveStepKeeps DEF IInv, TypeOK, List, Goto, database

LEMMA ReadExistingKeeps == ASSUME IInv, NEW s \in Slots, ReadExisting(s) PROVE IInv'
<1>1. TypeOK'
  BY DEF IInv, TypeOK, ReadExisting, Goto, Steps, database, faults
<1>2. QED
  BY <1>1, PassiveStepKeeps DEF IInv, TypeOK, ReadExisting, Goto, database

\* What a run keeps of its state is typed.
RunTyped(s) ==
  /\ pc' = [pc EXCEPT ![s] = pc'[s]] /\ pc'[s] \in Steps
  /\ listed' = [listed EXCEPT ![s] = listed'[s]] /\ listed'[s] \subseteq bucket
  /\ toLoad' = [toLoad EXCEPT ![s] = toLoad'[s]] /\ toLoad'[s] \subseteq listed'[s]
  /\ mine' = [mine EXCEPT ![s] = mine'[s]] /\ mine'[s] \subseteq listed'[s]
  /\ attempt' = [attempt EXCEPT ![s] = attempt'[s]] /\ attempt'[s] \in 0 .. Retries
  /\ pc'[s] = "mark" => toLoad'[s] # {}

LEMMA RunStaysTyped ==
  ASSUME TypeOK, NEW s \in Slots, RunTyped(s), UNCHANGED <<bucket, up, created, downs>>,
         raw' \in [Objects -> 0 .. CopyCap], classified' \in [Objects -> 0 .. CopyCap],
         ledger' \in [Hosts -> SUBSET Objects],
         \A h \in Hosts : ledger'[h] # {} => created[h],
         failures' \in 0 .. MaxFailures
  PROVE  TypeOK'
<1>1. pc' \in [Slots -> Steps] /\ attempt' \in [Slots -> 0 .. Retries]
  BY DEF TypeOK, RunTyped
<1>2. /\ listed' \in [Slots -> SUBSET bucket'] /\ toLoad' \in [Slots -> SUBSET bucket']
      /\ mine' \in [Slots -> SUBSET bucket']
  <2>1. toLoad'[s] \subseteq bucket /\ mine'[s] \subseteq bucket
    BY DEF RunTyped
  <2>2. QED
    BY <2>1 DEF TypeOK, RunTyped
<1>3. ASSUME NEW t \in Slots
      PROVE  /\ toLoad'[t] \subseteq listed'[t] /\ mine'[t] \subseteq listed'[t]
             /\ pc'[t] = "mark" => toLoad'[t] # {}
  <2>1. CASE t = s
    BY <2>1 DEF RunTyped
  <2>2. CASE t # s
    <3>1. /\ pc'[t] = pc[t] /\ toLoad'[t] = toLoad[t]
          /\ listed'[t] = listed[t] /\ mine'[t] = mine[t]
      BY <2>2 DEF RunTyped, TypeOK
    <3>2. QED
      BY <3>1 DEF TypeOK
  <2>3. QED
    BY <2>1, <2>2
<1>4. QED
  BY <1>1, <1>2, <1>3 DEF TypeOK

LEMMA EndRunTyped ==
  ASSUME TypeOK, NEW s \in Slots, EndRun(s)
  PROVE  RunTyped(s) /\ mine'[s] = {} /\ pc'[s] = "idle"
<1>1. /\ pc'[s] = "idle" /\ listed'[s] = {} /\ toLoad'[s] = {} /\ mine'[s] = {}
      /\ attempt'[s] = 0
  BY DEF TypeOK, EndRun
<1>2. 0 \in 0 .. Retries
  BY SizesAssumption
<1>3. QED
  BY <1>1, <1>2 DEF EndRun, RunTyped, Steps

LEMMA FinishKeeps == ASSUME IInv, NEW s \in Slots, Finish(s) PROVE IInv'
<1>1. RunTyped(s) /\ mine'[s] = {} /\ pc'[s] = "idle"
  BY EndRunTyped DEF IInv, Finish
<1>2. TypeOK'
  BY <1>1, RunStaysTyped DEF IInv, TypeOK, Finish, database, faults
<1>3. QED
  BY <1>1, <1>2, PassiveStepKeeps DEF IInv, TypeOK, Finish, EndRun, database

LEMMA InsertKeeps == ASSUME IInv, NEW s \in Slots, Insert(s) PROVE IInv'
<1>1. /\ Goto(s, "insert", "mark") /\ toLoad[s] # {}
      /\ Store(s, Object(s))
      /\ UNCHANGED <<bucket, up, created, ledger, listed, toLoad, attempt, downs, failures>>
  BY DEF Insert, Object, faults
<1>2. PICK o \in Objects : o = Object(s) /\ o \in toLoad[s] /\ o \in listed[s]
  BY <1>1, ObjectListed DEF IInv
<1>3. /\ raw \in [Objects -> 0 .. CopyCap] /\ classified \in [Objects -> 0 .. CopyCap]
      /\ mine \in [Slots -> SUBSET bucket] /\ mine[s] \subseteq listed[s]
      /\ listed[s] \subseteq bucket /\ bucket \subseteq Objects
      /\ toLoad[s] \subseteq listed[s] /\ pc \in [Slots -> Steps]
  BY DEF IInv, TypeOK
<1>4. Grows /\ Done(o)'
  <2>1. CASE o \in Repeatable /\ o \in mine[s] /\ UNCHANGED <<raw, classified, mine>>
    <3>1. raw[o] > 0
      BY <2>1 DEF IInv, MineStored
    <3>2. QED
      BY <1>2, <1>3, <2>1, <3>1, SizesAssumption DEF Grows, Done
  <2>2. CASE raw' = Plus(raw, o) /\ classified' = Plus(classified, o)
    BY <1>2, <1>3, <2>2, PlusCounts DEF Grows, Done
  <2>3. QED
    BY <1>1, <1>2, <2>1, <2>2 DEF Store
<1>5. /\ mine' = [mine EXCEPT ![s] = mine'[s]]
      /\ mine'[s] \subseteq mine[s] \cup {o}
  BY <1>1, <1>2, <1>3 DEF Store
<1>6. TypeOK'
  <2>1. RunTyped(s)
    BY <1>1, <1>2, <1>3, <1>5 DEF IInv, TypeOK, Goto, RunTyped, Steps
  <2>2. QED
    BY <1>1, <1>4, <2>1, RunStaysTyped DEF IInv, TypeOK, Grows
<1>7. MarkReady(s)'
  BY <1>1, <1>2, <1>4 DEF MarkReady, Object
<1>8. MineStored(s)'
  <2>1. \A p \in mine[s] : raw'[p] > 0
    BY <1>3, <1>4, SizesAssumption DEF IInv, MineStored, Grows
  <2>2. QED
    BY <1>4, <1>5, <2>1 DEF MineStored, Done
<1>9. QED
  BY <1>1, <1>3, <1>4, <1>5, <1>6, <1>7, <1>8, OthersKept DEF Goto

\* A mark is made on a host that has the ledger, of an object that is loaded.
LEMMA MarkIsDone ==
  ASSUME IInv, NEW s \in Slots, pc[s] = "mark", LedgerExists,
         ledger' = [ledger EXCEPT ![Chosen] = @ \cup Marked(s)]
  PROVE  /\ ledger' \in [Hosts -> SUBSET Objects]
         /\ \A h \in Hosts : ledger'[h] # {} => created[h]
         /\ \A h \in Hosts : \A o \in ledger'[h] :
              o \in ledger[h] \/ (o \in Objects /\ Done(o))
<1>1. Chosen \in Hosts /\ created[Chosen]
  BY ChosenIsHost DEF LedgerExists
<1>2. PICK o \in Objects : o = Object(s)
  BY ObjectListed DEF IInv, TypeOK
<1>3. Marked(s) = {o} /\ Done(o)
  BY <1>2 DEF IInv, MarkReady, Marked, Object
<1>4. ledger \in [Hosts -> SUBSET Objects]
  BY DEF IInv, TypeOK
<1>5. \A h \in Hosts : ledger'[h] = IF h = Chosen THEN ledger[h] \cup {o} ELSE ledger[h]
  BY <1>1, <1>3, <1>4
<1>6. QED
  BY <1>1, <1>3, <1>4, <1>5 DEF IInv, TypeOK

LEMMA MarkKeeps == ASSUME IInv, NEW s \in Slots, Mark(s) PROVE IInv'
<1>1. /\ Goto(s, "mark", "insert") /\ LedgerExists
      /\ ledger' = [ledger EXCEPT ![Chosen] = @ \cup Marked(s)]
      /\ toLoad' = [toLoad EXCEPT ![s] = @ \ {First(@)}]
      /\ UNCHANGED <<bucket, up, created, raw, classified, listed, mine, attempt,
                     downs, failures>>
  BY DEF Mark, faults
<1>2. /\ ledger' \in [Hosts -> SUBSET Objects]
      /\ \A h \in Hosts : ledger'[h] # {} => created[h]
      /\ \A h \in Hosts : \A o \in ledger'[h] : o \in ledger[h] \/ (o \in Objects /\ Done(o))
  BY <1>1, MarkIsDone DEF Goto
<1>3. Grows
  BY <1>1, SizesAssumption DEF IInv, TypeOK, Grows
<1>4. RunTyped(s)
  BY <1>1 DEF IInv, TypeOK, Goto, RunTyped, Steps
<1>5. TypeOK'
  BY <1>1, <1>2, <1>3, <1>4, RunStaysTyped DEF IInv, TypeOK, Grows
<1>6. MarkReady(s)' /\ MineStored(s)'
  BY <1>1 DEF IInv, TypeOK, Goto, MarkReady, MineStored
<1>7. \A h \in Hosts : \A o \in ledger'[h] : o \in ledger[h] \/ Done(o)'
  BY <1>1, <1>2 DEF Done
<1>8. \A t \in Slots \ {s} :
        pc'[t] = pc[t] /\ toLoad'[t] = toLoad[t] /\ mine'[t] = mine[t]
  BY <1>1 DEF IInv, TypeOK, Goto
<1>9. QED
  BY <1>3, <1>5, <1>6, <1>7, <1>8, OthersKept

-----------------------------------------------------------------------------
(* A task that fails. *)

\* What the failed statement did: rows are only added, marks are only made of
\* loaded objects, and what MineAfter adds is stored.
EffectSound(s, e) ==
  /\ Grows
  /\ ledger' \in [Hosts -> SUBSET Objects]
  /\ \A h \in Hosts : ledger'[h] # {} => created[h]
  /\ \A h \in Hosts : \A o \in ledger'[h] :
       o \in ledger[h] \/ (o \in Objects /\ Done(o) /\ UNCHANGED <<raw, classified>>)
  /\ MineAfter(s, e) \subseteq listed[s]
  /\ \A o \in MineAfter(s, e) : o \in Objects /\ raw'[o] > 0

LEMMA EffectIsSound ==
  ASSUME IInv, NEW s \in Slots, NEW e \in Effects, Effect(s, e)
  PROVE  EffectSound(s, e)
<1>1. /\ raw \in [Objects -> 0 .. CopyCap] /\ classified \in [Objects -> 0 .. CopyCap]
      /\ ledger \in [Hosts -> SUBSET Objects]
      /\ \A h \in Hosts : ledger[h] # {} => created[h]
      /\ mine[s] \subseteq listed[s] /\ mine[s] \subseteq Objects
      /\ \A o \in mine[s] : raw[o] > 0
  BY DEF IInv, TypeOK, MineStored
<1>2. UNCHANGED <<raw, classified>> => Grows
  BY <1>1, SizesAssumption DEF Grows
<1>3. CASE e = "nothing" /\ UNCHANGED <<ledger, raw, classified>>
  BY <1>1, <1>2, <1>3 DEF EffectSound, MineAfter
<1>4. CASE /\ e # "nothing" /\ pc[s] = "insert" /\ toLoad[s] # {}
           /\ First(toLoad[s]) \in mine[s] /\ UNCHANGED <<ledger, raw, classified>>
  BY <1>1, <1>2, <1>4 DEF EffectSound, MineAfter
<1>5. CASE /\ e # "nothing" /\ pc[s] = "insert" /\ toLoad[s] # {}
           /\ raw' = Plus(raw, First(toLoad[s]))
           /\ classified' = IF e = "all" THEN Plus(classified, First(toLoad[s])) ELSE classified
           /\ UNCHANGED ledger
  <2>1. PICK o \in Objects : o = First(toLoad[s]) /\ o \in listed[s]
    BY <1>5, ObjectListed DEF IInv, Object
  <2>2. Grows /\ raw'[o] > 0
    <3>1. classified' = Plus(classified, o) \/ classified' = classified
      BY <1>5, <2>1
    <3>2. /\ raw' \in [Objects -> 0 .. CopyCap] /\ raw'[o] > 0
          /\ \A p \in Objects : raw'[p] >= raw[p]
      BY <1>1, <1>5, <2>1, PlusCounts
    <3>3. /\ classified' \in [Objects -> 0 .. CopyCap]
          /\ \A p \in Objects : classified'[p] >= classified[p]
      BY <1>1, <3>1, PlusCounts, SizesAssumption
    <3>4. QED
      BY <3>2, <3>3 DEF Grows
  <2>3. MineAfter(s, e) = mine[s] \cup {o}
    BY <1>5, <2>1 DEF MineAfter
  <2>4. \A p \in mine[s] : raw'[p] > 0
    BY <1>1, <2>2, SizesAssumption DEF Grows
  <2>5. QED
    BY <1>1, <1>5, <2>1, <2>2, <2>3, <2>4 DEF EffectSound
<1>6. CASE /\ e = "all" /\ pc[s] = "mark" /\ LedgerExists
           /\ ledger' = [ledger EXCEPT ![Chosen] = @ \cup Marked(s)]
           /\ UNCHANGED <<raw, classified>>
  <2>1. MineAfter(s, e) = mine[s]
    BY <1>6 DEF MineAfter
  <2>2. QED
    BY <1>1, <1>2, <1>6, <2>1, MarkIsDone DEF EffectSound
<1>7. QED
  BY <1>3, <1>4, <1>5, <1>6 DEF Effect

\* After the failure the run is in none but its own next tries.
LEMMA RetryKeeps ==
  ASSUME IInv, NEW s \in Slots, NEW e \in Effects, pc[s] # "idle",
         EffectSound(s, e), Retry(s, e),
         UNCHANGED <<bucket, up, created, downs>>, failures' \in 0 .. MaxFailures
  PROVE  IInv'
<1>1. TypeOK /\ mine[s] \subseteq listed[s] /\ listed[s] \subseteq bucket
  BY DEF IInv, TypeOK
<1>2. /\ RunTyped(s) /\ pc'[s] # "mark"
      /\ mine'[s] = {} \/ mine'[s] = MineAfter(s, e)
      /\ \A t \in Slots \ {s} :
           pc'[t] = pc[t] /\ toLoad'[t] = toLoad[t] /\ mine'[t] = mine[t]
  <2>1. CASE EndRun(s)
    BY <1>1, <2>1, EndRunTyped DEF EndRun, TypeOK
  <2>2. CASE /\ RetriesLeft(s)
             /\ pc' = [pc EXCEPT ![s] = IF @ = "list" THEN "list" ELSE "read"]
             /\ attempt' = [attempt EXCEPT ![s] = @ + 1]
             /\ mine' = [mine EXCEPT ![s] = MineAfter(s, e)]
             /\ toLoad' = [toLoad EXCEPT ![s] = {}]
             /\ UNCHANGED listed
    <3>1. attempt'[s] \in 0 .. Retries /\ attempt' = [attempt EXCEPT ![s] = attempt'[s]]
      <4>1. attempt \in [Slots -> 0 .. Retries]
        BY <1>1 DEF TypeOK
      <4>2. QED
        BY <2>2, <4>1, SizesAssumption DEF RetriesLeft
    <3>2. /\ pc'[s] \in {"list", "read"} /\ toLoad'[s] = {} /\ listed'[s] = listed[s]
          /\ mine'[s] = MineAfter(s, e)
          /\ pc' = [pc EXCEPT ![s] = pc'[s]] /\ listed' = [listed EXCEPT ![s] = listed'[s]]
          /\ toLoad' = [toLoad EXCEPT ![s] = toLoad'[s]]
          /\ mine' = [mine EXCEPT ![s] = mine'[s]]
      BY <1>1, <2>2 DEF TypeOK
    <3>3. MineAfter(s, e) \subseteq listed[s]
      BY DEF EffectSound
    <3>4. RunTyped(s)
      BY <1>1, <3>1, <3>2, <3>3 DEF RunTyped, Steps
    <3>5. QED
      BY <1>1, <2>2, <3>2, <3>4 DEF TypeOK
  <2>3. QED
    BY <2>1, <2>2 DEF Retry
<1>3. TypeOK'
  BY <1>1, <1>2, RunStaysTyped DEF EffectSound, Grows
<1>4. MarkReady(s)' /\ MineStored(s)'
  BY <1>2 DEF MarkReady, MineStored, EffectSound
<1>5. \A h \in Hosts : \A o \in ledger'[h] : o \in ledger[h] \/ Done(o)'
  BY DEF EffectSound, Done
<1>6. QED
  BY <1>2, <1>3, <1>4, <1>5, OthersKept DEF EffectSound

LEMMA FailStatementKeeps == ASSUME IInv, NEW s \in Slots, FailStatement(s) PROVE IInv'
<1>1. PICK e \in Effects : Effect(s, e) /\ Retry(s, e)
  BY DEF FailStatement
<1>2. failures' \in 0 .. MaxFailures
  <2>1. failures \in 0 .. MaxFailures
    BY DEF IInv, TypeOK
  <2>2. QED
    BY <2>1, SizesAssumption DEF FailStatement
<1>3. QED
  BY <1>1, <1>2, EffectIsSound, RetryKeeps DEF FailStatement

LEMMA FailUnavailableKeeps == ASSUME IInv, NEW s \in Slots, FailUnavailable(s) PROVE IInv'
<1>1. Effect(s, "nothing") /\ "nothing" \in Effects
  BY DEF FailUnavailable, Effect, Effects, database
<1>2. pc[s] # "idle" /\ UNCHANGED <<bucket, up, created, downs, failures>>
  BY DEF FailUnavailable, database, faults
<1>3. failures' \in 0 .. MaxFailures
  BY <1>2 DEF IInv, TypeOK
<1>4. QED
  BY <1>1, <1>2, <1>3, EffectIsSound, RetryKeeps DEF FailUnavailable

-----------------------------------------------------------------------------

LEMMA StepKeeps == IInv /\ [Next]_vars => IInv'
<1> SUFFICES ASSUME IInv, [Next]_vars PROVE IInv'
  OBVIOUS
<1>1. CASE Surroundings
  BY <1>1, SurroundingsKeep
<1>2. ASSUME NEW s \in Slots, Task(s) PROVE IInv'
  BY <1>2, EnsureKeeps, ListKeeps, ReadExistingKeeps, InsertKeeps, MarkKeeps, FinishKeeps
     DEF Task
<1>3. ASSUME NEW s \in Slots, FailStatement(s) \/ FailUnavailable(s) PROVE IInv'
  BY <1>3, FailStatementKeeps, FailUnavailableKeeps
<1>4. CASE UNCHANGED vars
  BY <1>4 DEF vars, database, run, faults, IInv, TypeOK, MarkReady, MineStored, Done,
              MarkedStored
<1>5. QED
  BY <1>1, <1>2, <1>3, <1>4 DEF Next, Surroundings

\* The inductive invariant holds in every reachable state.
THEOREM Inductive == Spec => []IInv
  BY Initially, StepKeeps, PTL DEF Spec

\* Type correctness of DAG 01, for any sizes.
THEOREM TypeCorrect == Spec => []TypeOK
<1>1. IInv => TypeOK
  BY DEF IInv
<1>2. QED
  BY <1>1, Inductive, PTL

\* An insert that stores the rows of an object and not what the views make of them
\* is a failure; every other step leaves at most as many objects unclassified.
LEMMA UnclassifiedFinite ==
  /\ IsFiniteSet(Unclassified) /\ Cardinality(Unclassified) \in Nat
  /\ IsFiniteSet(Unclassified') /\ Cardinality(Unclassified') \in Nat
<1>1. IsFiniteSet(Objects)
  BY SizesAssumption, FS_Interval DEF Objects
<1>2. IsFiniteSet(Unclassified) /\ IsFiniteSet(Unclassified')
  BY <1>1, FS_Subset DEF Unclassified
<1>3. QED
  BY <1>2, FS_CardinalityType

LEMMA NoneAdded ==
  ASSUME Cardinality(Unclassified) <= failures, failures \in Nat, failures' = failures,
         Unclassified' \subseteq Unclassified
  PROVE  Cardinality(Unclassified') <= failures'
<1>1. Cardinality(Unclassified') <= Cardinality(Unclassified)
  BY UnclassifiedFinite, FS_Subset
<1>2. QED
  BY <1>1, UnclassifiedFinite

LEMMA StoreClassifies ==
  ASSUME IInv, NEW s \in Slots, Insert(s)
  PROVE  Unclassified' \subseteq Unclassified
<1>1. /\ raw \in [Objects -> 0 .. CopyCap] /\ classified \in [Objects -> 0 .. CopyCap]
      /\ Object(s) \in Objects
  BY ObjectListed DEF IInv, TypeOK, Insert
<1>2. \/ UNCHANGED <<raw, classified>>
      \/ raw' = Plus(raw, Object(s)) /\ classified' = Plus(classified, Object(s))
  BY DEF Insert, Store, Object
<1>3. CASE UNCHANGED <<raw, classified>>
  BY <1>3 DEF Unclassified
<1>4. CASE raw' = Plus(raw, Object(s)) /\ classified' = Plus(classified, Object(s))
  <2>1. /\ classified'[Object(s)] > 0
        /\ \A o \in Objects \ {Object(s)} :
             raw'[o] = raw[o] /\ classified'[o] = classified[o]
    BY <1>1, <1>4, PlusCounts DEF Plus
  <2>2. QED
    BY <2>1 DEF Unclassified
<1>5. QED
  BY <1>2, <1>3, <1>4

LEMMA FailureAddsOne ==
  ASSUME IInv, Cardinality(Unclassified) <= failures, NEW s \in Slots, FailStatement(s)
  PROVE  Cardinality(Unclassified') <= failures'
<1>1. /\ raw \in [Objects -> 0 .. CopyCap] /\ classified \in [Objects -> 0 .. CopyCap]
      /\ failures \in Nat /\ failures' = failures + 1
  BY SizesAssumption DEF IInv, TypeOK, FailStatement
<1>2. PICK e \in Effects : Effect(s, e)
  BY DEF FailStatement
<1>3. \E o : Unclassified' \subseteq Unclassified \cup {o}
  <2>1. CASE UNCHANGED <<raw, classified>>
    BY <2>1 DEF Unclassified
  <2>2. CASE /\ pc[s] = "insert" /\ toLoad[s] # {} /\ raw' = Plus(raw, Object(s))
             /\ classified' = Plus(classified, Object(s)) \/ classified' = classified
    <3>1. Object(s) \in Objects
      BY <2>2, ObjectListed DEF IInv
    <3>2. \A o \in Objects \ {Object(s)} :
            raw'[o] = raw[o] /\ classified'[o] = classified[o]
      BY <1>1, <2>2, <3>1 DEF Plus
    <3>3. Unclassified' \subseteq Unclassified \cup {Object(s)}
      BY <3>2 DEF Unclassified
    <3>4. QED
      BY <3>3
  <2>3. QED
    BY <1>2, <2>1, <2>2 DEF Effect, Object
<1>4. PICK o : Unclassified' \subseteq Unclassified \cup {o}
  BY <1>3
<1>5. /\ IsFiniteSet(Unclassified \cup {o})
      /\ Cardinality(Unclassified \cup {o}) <= Cardinality(Unclassified) + 1
  BY UnclassifiedFinite, FS_AddElement
<1>6. Cardinality(Unclassified') <= Cardinality(Unclassified \cup {o})
  BY <1>4, <1>5, FS_Subset
<1>7. Cardinality(Unclassified \cup {o}) \in Nat
  BY <1>5, FS_CardinalityType
<1>8. QED
  BY <1>1, <1>5, <1>6, <1>7, UnclassifiedFinite

\* No object is in a ledger of ingested_objects unless its rows are in raw_events
\* and, if its block cannot be taken for a repetition, have passed the views; and
\* no more objects are stored without having passed the views than tasks failed.
THEOREM NoMarkBeforeLoad == Spec => []MarkedIsDone
<1> DEFINE Explained == Cardinality(Unclassified) <= failures
<1>1. Init => Explained
  <2> SUFFICES ASSUME Init PROVE Explained
    OBVIOUS
  <2>1. Unclassified = {} /\ failures = 0
    BY DEF Init, Unclassified
  <2>2. QED
    BY <2>1, FS_EmptySet
<1>2. IInv /\ Explained /\ [Next]_vars => Explained'
  <2> SUFFICES ASSUME IInv, Explained, [Next]_vars PROVE Explained'
    OBVIOUS
  <2>1. failures \in Nat
    BY SizesAssumption DEF IInv, TypeOK
  <2>2. ASSUME UNCHANGED <<raw, classified, failures>> PROVE Explained'
    BY <2>1, <2>2, NoneAdded DEF Unclassified
  <2>3. ASSUME UNCHANGED vars \/ Surroundings PROVE Explained'
    BY <2>2, <2>3 DEF vars, database, faults, Surroundings, Put, HostDown, HostUp
  <2>4. ASSUME NEW s \in Slots,
               Ensure(s) \/ List(s) \/ ReadExisting(s) \/ Mark(s) \/ Finish(s)
                 \/ FailUnavailable(s)
        PROVE  Explained'
    BY <2>2, <2>4 DEF Ensure, List, ReadExisting, Mark, Finish, FailUnavailable, database,
                      faults
  <2>5. ASSUME NEW s \in Slots, Insert(s) PROVE Explained'
    <3>1. failures' = failures
      BY <2>5 DEF Insert, faults
    <3>2. QED
      BY <2>1, <2>5, <3>1, StoreClassifies, NoneAdded
  <2>6. ASSUME NEW s \in Slots, FailStatement(s) PROVE Explained'
    BY <2>6, FailureAddsOne
  <2>7. QED
    BY <2>3, <2>4, <2>5, <2>6 DEF Next, Task, Surroundings
<1>3. IInv /\ Explained => MarkedIsDone
  BY DEF IInv, MarkedStored, MarkedIsDone, Done
<1> HIDE DEF Explained
<1>4. QED
  BY <1>1, <1>2, <1>3, Inductive, PTL DEF Spec

-----------------------------------------------------------------------------
(* How often the rows of an object may still be stored. A run has it on its   *)
(* list (Holding), or may put it there when it reads the ledger of the host   *)
(* in charge (Missing). What is stored, held and missing is paid for: by each *)
(* run once, by a failure once, by a change of hosts once per run.            *)

Holding(o) ==
  {s \in Slots : o \in toLoad[s] /\ ~(pc[s] = "mark" /\ o = Object(s))}
Missing(o) ==
  {s \in Slots : ~(LedgerExists /\ (o \in ledger[Chosen] \/ o \in toLoad[s]))}
Down == {h \in Hosts : ~up[h]}

\* Every outage is paid for twice: when it begins and when it ends.
Paid == failures + Cardinality(Slots) * (1 + 2 * downs - Cardinality(Down))

NoList == \A s \in Slots : pc[s] \in {"idle", "list", "read"} => toLoad[s] = {}

CreditInv ==
  /\ NoList
  /\ \A o \in Objects : raw[o] + Cardinality(Holding(o)) + Cardinality(Missing(o)) <= Paid

Bit(b) == IF b THEN 1 ELSE 0

LEMMA SlotSets ==
  ASSUME NEW o
  PROVE  /\ Holding(o) \in SUBSET Slots /\ Holding(o)' \in SUBSET Slots
         /\ Missing(o) \in SUBSET Slots /\ Missing(o)' \in SUBSET Slots
  BY DEF Holding, Missing

LEMMA SlotCount ==
  ASSUME NEW X \in SUBSET Slots
  PROVE  IsFiniteSet(X) /\ Cardinality(X) \in Nat /\ Cardinality(X) <= Cardinality(Slots)
         /\ Cardinality(Slots) \in Nat
  BY SizesAssumption, FS_Subset, FS_CardinalityType

\* What one slot does to a set of slots.
LEMMA SlotChange ==
  ASSUME NEW s \in Slots, NEW X \in SUBSET Slots, NEW Y \in SUBSET Slots, Y \ {s} \subseteq X
  PROVE  Cardinality(Y) + Bit(s \in X) <= Cardinality(X) + Bit(s \in Y)
<1>1. ASSUME NEW Z \in SUBSET Slots
      PROVE  /\ IsFiniteSet(Z \ {s}) /\ Cardinality(Z \ {s}) \in Nat
             /\ Cardinality(Z) = Cardinality(Z \ {s}) + Bit(s \in Z)
  <2>1. IsFiniteSet(Z) /\ Cardinality(Z) \in Nat
    BY SlotCount
  <2>2. /\ IsFiniteSet(Z \ {s})
        /\ Cardinality(Z \ {s}) = IF s \in Z THEN Cardinality(Z) - 1 ELSE Cardinality(Z)
    BY <2>1, FS_RemoveElement
  <2>3. Cardinality(Z \ {s}) \in Nat
    BY <2>2, FS_CardinalityType
  <2>4. QED
    BY <2>1, <2>2, <2>3 DEF Bit
<1>2. Cardinality(Y \ {s}) <= Cardinality(X \ {s})
  <2>1. Y \ {s} \subseteq X \ {s} /\ IsFiniteSet(X \ {s})
    BY <1>1
  <2>2. QED
    BY <2>1, FS_Subset
<1>3. Bit(s \in X) \in Nat /\ Bit(s \in Y) \in Nat
  BY DEF Bit
<1>4. QED
  BY <1>1, <1>2, <1>3

\* A step of a run takes nothing away from the database or from other runs.
RunStep(s) ==
  /\ \A t \in Slots \ {s} : pc'[t] = pc[t] /\ toLoad'[t] = toLoad[t]
  /\ \A h \in Hosts : (created[h] => created'[h]) /\ ledger[h] \subseteq ledger'[h]
  /\ UNCHANGED <<up, downs>>

LEMMA LedgerStays ==
  ASSUME NEW s, RunStep(s)
  PROVE  /\ Chosen' = Chosen
         /\ LedgerExists => LedgerExists' /\ ledger[Chosen] \subseteq ledger'[Chosen]
<1>1. Chosen' = Chosen /\ Reachable' = Reachable
  BY DEF RunStep, Chosen, Reachable
<1>2. LedgerExists => Chosen \in Hosts
  BY ChosenIsHost DEF LedgerExists
<1>3. QED
  BY <1>1, <1>2 DEF RunStep, LedgerExists

LEMMA OthersWait ==
  ASSUME NEW s \in Slots, NEW o, RunStep(s)
  PROVE  /\ Holding(o)' \ {s} \subseteq Holding(o)
         /\ Missing(o)' \ {s} \subseteq Missing(o)
         /\ toLoad[s] \subseteq toLoad'[s] /\ s \in Missing(o)' => s \in Missing(o)
<1>1. \A t \in Slots \ {s} : pc'[t] = pc[t] /\ toLoad'[t] = toLoad[t]
  BY DEF RunStep
<1>2. Holding(o)' \ {s} \subseteq Holding(o)
  BY <1>1 DEF Holding, Object
<1>3. \A t \in Slots :
        LedgerExists /\ o \in ledger[Chosen] => LedgerExists' /\ o \in ledger'[Chosen']
  BY LedgerStays
<1>4. LedgerExists => LedgerExists'
  BY LedgerStays
<1>5. QED
  BY <1>1, <1>2, <1>3, <1>4 DEF Missing

\* What a step of a run may do to an object: a store uses up what the run held,
\* and only a failure gives it back.
Pays(s, o) ==
  raw'[o] + Bit(s \in Holding(o)') + Bit(s \in Missing(o)')
    <= raw[o] + Bit(s \in Holding(o)) + Bit(s \in Missing(o)) + (failures' - failures)

LEMMA PaidType ==
  ASSUME TypeOK
  PROVE  /\ Cardinality(Slots) * (1 + 2 * downs - Cardinality(Down)) \in Int
         /\ Cardinality(Slots) \in Nat /\ downs \in Nat /\ failures \in Nat
         /\ Cardinality(Down) \in Nat /\ IsFiniteSet(Down)
<1>1. IsFiniteSet(Hosts)
  BY SizesAssumption, FS_Interval DEF Hosts
<1>2. IsFiniteSet(Down) /\ Cardinality(Down) \in Nat
  BY <1>1, FS_Subset, FS_CardinalityType DEF Down
<1>3. Cardinality(Slots) \in Nat
  BY SlotCount
<1>4. downs \in Nat /\ failures \in Nat
  BY SizesAssumption DEF TypeOK
<1>5. QED
  BY <1>2, <1>3, <1>4

LEMMA CreditKept ==
  ASSUME IInv, IInv', CreditInv, NEW s \in Slots, NEW o \in Objects, RunStep(s), Pays(s, o)
  PROVE  raw'[o] + Cardinality(Holding(o)') + Cardinality(Missing(o)') <= Paid'
<1> DEFINE Q == Cardinality(Slots) * (1 + 2 * downs - Cardinality(Down))
<1>1. Q \in Int /\ Paid = failures + Q /\ Paid' = failures' + Q
  BY PaidType DEF IInv, Paid, RunStep, Down
<1>2. /\ Cardinality(Holding(o)') + Bit(s \in Holding(o))
           <= Cardinality(Holding(o)) + Bit(s \in Holding(o)')
      /\ Cardinality(Missing(o)') + Bit(s \in Missing(o))
           <= Cardinality(Missing(o)) + Bit(s \in Missing(o)')
  BY SlotSets, OthersWait, SlotChange
<1>3. /\ Cardinality(Holding(o)) \in Nat /\ Cardinality(Holding(o)') \in Nat
      /\ Cardinality(Missing(o)) \in Nat /\ Cardinality(Missing(o)') \in Nat
  BY SlotSets, SlotCount
<1>4. raw[o] \in Int /\ raw'[o] \in Int /\ failures \in Int /\ failures' \in Int
  <2>1. raw \in [Objects -> 0 .. CopyCap] /\ raw' \in [Objects -> 0 .. CopyCap]
        /\ failures \in 0 .. MaxFailures /\ failures' \in 0 .. MaxFailures
    BY DEF IInv, TypeOK
  <2>2. QED
    BY <2>1, SizesAssumption
<1>5. raw[o] + Cardinality(Holding(o)) + Cardinality(Missing(o)) <= Paid
  BY DEF CreditInv
<1>6. /\ Bit(s \in Holding(o)) \in Int /\ Bit(s \in Missing(o)) \in Int
      /\ Bit(s \in Holding(o)') \in Int /\ Bit(s \in Missing(o)') \in Int
  BY DEF Bit
<1> HIDE DEF Q
<1>7. QED
  BY <1>1, <1>2, <1>3, <1>4, <1>5, <1>6 DEF Pays

LEMMA BitType == ASSUME NEW b PROVE Bit(b) \in {0, 1}
  BY DEF Bit

LEMMA Counts ==
  ASSUME TypeOK
  PROVE  failures \in Int /\ \A o \in Objects : raw[o] \in Int
<1>1. raw \in [Objects -> 0 .. CopyCap] /\ failures \in 0 .. MaxFailures
  BY DEF TypeOK
<1>2. QED
  BY <1>1, SizesAssumption

\* Steps that store nothing, of a run whose list does not change or is empty.
LEMMA NothingStored ==
  ASSUME IInv, NEW s \in Slots, NEW o \in Objects, RunStep(s), UNCHANGED <<raw, failures>>,
         s \in Holding(o)' => s \in Holding(o), toLoad'[s] = toLoad[s]
  PROVE  Pays(s, o)
<1>1. s \in Missing(o)' => s \in Missing(o)
  BY OthersWait
<1>2. Bit(s \in Missing(o)') <= Bit(s \in Missing(o))
      /\ Bit(s \in Holding(o)') <= Bit(s \in Holding(o))
  BY <1>1 DEF Bit
<1>3. /\ Bit(s \in Holding(o)) \in Int /\ Bit(s \in Missing(o)) \in Int
      /\ Bit(s \in Holding(o)') \in Int /\ Bit(s \in Missing(o)') \in Int
  BY DEF Bit
<1>4. raw[o] \in Int /\ failures \in Int
  BY Counts DEF IInv
<1>5. QED
  BY <1>2, <1>3, <1>4 DEF Pays

\* What a step of a run has to show.
Settles(s) == RunStep(s) /\ NoList' /\ \A o \in Objects : Pays(s, o)

LEMMA ListlessPays ==
  ASSUME IInv, NoList, NEW s \in Slots, Ensure(s) \/ List(s) \/ Finish(s)
  PROVE  Settles(s)
<1>1. TypeOK /\ pc \in [Slots -> Steps] /\ toLoad \in [Slots -> SUBSET bucket]
  BY DEF IInv, TypeOK
<1>2. /\ UNCHANGED <<raw, ledger, failures, up, downs>>
      /\ pc' = [pc EXCEPT ![s] = pc'[s]] /\ pc'[s] \in {"list", "read", "idle"}
      /\ toLoad[s] = {} /\ toLoad'[s] = {} /\ \A t \in Slots \ {s} : toLoad'[t] = toLoad[t]
      /\ \A h \in Hosts : created[h] => created'[h]
  <2>1. CASE Ensure(s)
    <3>1. created \in [Hosts -> BOOLEAN] /\ Chosen \in Hosts
      BY <2>1, ChosenIsHost DEF Ensure, IInv, TypeOK
    <3>2. \A h \in Hosts : created[h] => created'[h]
      BY <2>1, <3>1 DEF Ensure
    <3>3. pc' = [pc EXCEPT ![s] = pc'[s]] /\ pc'[s] = "list" /\ pc[s] = "idle"
      BY <1>1, <2>1 DEF Ensure, Goto
    <3>4. QED
      BY <1>1, <2>1, <3>2, <3>3 DEF Ensure, NoList, faults
  <2>2. CASE List(s)
    <3>1. pc' = [pc EXCEPT ![s] = pc'[s]] /\ pc'[s] = "read" /\ pc[s] = "list"
      BY <1>1, <2>2 DEF List, Goto
    <3>2. QED
      BY <1>1, <2>2, <3>1 DEF List, NoList, faults, database
  <2>3. CASE Finish(s)
    BY <1>1, <2>3 DEF Finish, EndRun, faults, database
  <2>4. QED
    BY <2>1, <2>2, <2>3
<1>3. RunStep(s)
  BY <1>1, <1>2 DEF RunStep
<1>4. NoList'
  BY <1>1, <1>2 DEF NoList
<1>5. ASSUME NEW o \in Objects PROVE Pays(s, o)
  <2>1. s \notin Holding(o)'
    BY <1>2 DEF Holding
  <2>2. QED
    BY <1>2, <1>3, <2>1, NothingStored
<1>6. QED
  BY <1>3, <1>4, <1>5 DEF Settles

LEMMA ReadExistingPays ==
  ASSUME IInv, NoList, NEW s \in Slots, ReadExisting(s)
  PROVE  Settles(s)
<1>1. TypeOK /\ pc \in [Slots -> Steps] /\ toLoad \in [Slots -> SUBSET bucket]
  BY DEF IInv, TypeOK
<1>2. /\ pc[s] = "read" /\ pc' = [pc EXCEPT ![s] = "insert"] /\ LedgerExists
      /\ toLoad' = [toLoad EXCEPT ![s] = listed[s] \ ledger[Chosen]]
      /\ UNCHANGED <<raw, ledger, created, failures, up, downs>>
  BY DEF ReadExisting, Goto, Known, database, faults
<1>3. RunStep(s)
  BY <1>1, <1>2 DEF RunStep
<1>4. NoList'
  BY <1>1, <1>2 DEF NoList
<1>5. ASSUME NEW o \in Objects PROVE Pays(s, o)
  <2>1. Chosen' = Chosen /\ LedgerExists'
    BY <1>2, <1>3, LedgerStays
  <2>2. toLoad[s] = {} /\ toLoad'[s] = listed[s] \ ledger[Chosen] /\ pc'[s] = "insert"
    BY <1>1, <1>2 DEF NoList
  <2>3. s \in Missing(o) <=> o \notin ledger[Chosen]
    BY <1>2, <2>2 DEF Missing
  <2>4. s \in Holding(o)' <=> o \in listed[s] /\ o \notin ledger[Chosen]
    BY <2>2 DEF Holding
  <2>5. s \in Missing(o)' <=> o \notin listed[s] /\ o \notin ledger[Chosen]
    BY <1>2, <2>1, <2>2 DEF Missing
  <2>6. Bit(s \in Holding(o)') + Bit(s \in Missing(o)') <= Bit(s \in Missing(o))
    BY <2>3, <2>4, <2>5 DEF Bit
  <2>7. raw[o] \in Int /\ failures \in Int /\ raw'[o] = raw[o] /\ failures' = failures
    BY <1>1, <1>2, Counts
  <2>8. /\ Bit(s \in Holding(o)) \in {0, 1} /\ Bit(s \in Missing(o)) \in {0, 1}
        /\ Bit(s \in Holding(o)') \in {0, 1} /\ Bit(s \in Missing(o)') \in {0, 1}
    BY BitType
  <2>9. QED
    BY <2>6, <2>7, <2>8 DEF Pays
<1>6. QED
  BY <1>3, <1>4, <1>5 DEF Settles

\* A store takes the object off the list.
LEMMA InsertPays ==
  ASSUME IInv, NoList, NEW s \in Slots, Insert(s)
  PROVE  Settles(s)
<1>1. /\ TypeOK /\ pc \in [Slots -> Steps] /\ toLoad \in [Slots -> SUBSET bucket]
      /\ raw \in [Objects -> 0 .. CopyCap]
  BY DEF IInv, TypeOK
<1>2. /\ pc[s] = "insert" /\ pc' = [pc EXCEPT ![s] = "mark"] /\ toLoad[s] # {}
      /\ raw' = raw \/ raw' = Plus(raw, Object(s))
      /\ UNCHANGED <<ledger, created, toLoad, failures, up, downs>>
  BY DEF Insert, Goto, Store, faults, Object
<1>3. RunStep(s)
  BY <1>1, <1>2 DEF RunStep
<1>4. NoList'
  BY <1>1, <1>2 DEF NoList
<1>5. Object(s)' = Object(s) /\ Object(s) \in toLoad[s] /\ Object(s) \in Objects
  BY <1>1, <1>2, ObjectListed DEF Object
<1>6. ASSUME NEW o \in Objects PROVE Pays(s, o)
  <2>1. CASE o # Object(s)
    <3>1. raw'[o] = raw[o]
      BY <1>1, <1>2, <1>5, <2>1 DEF Plus
    <3>2. s \in Holding(o)' => s \in Holding(o)
      BY <1>2, <2>1 DEF Holding
    <3>3. s \in Missing(o)' => s \in Missing(o)
      BY <1>2, <1>3, OthersWait
    <3>4. Bit(s \in Holding(o)') <= Bit(s \in Holding(o))
          /\ Bit(s \in Missing(o)') <= Bit(s \in Missing(o))
      BY <3>2, <3>3 DEF Bit
    <3>5. raw[o] \in Int /\ failures \in Int /\ failures' = failures
      BY <1>1, <1>2, Counts
    <3>6. /\ Bit(s \in Holding(o)) \in {0, 1} /\ Bit(s \in Missing(o)) \in {0, 1}
          /\ Bit(s \in Holding(o)') \in {0, 1} /\ Bit(s \in Missing(o)') \in {0, 1}
      BY BitType
    <3>7. QED
      BY <3>1, <3>4, <3>5, <3>6 DEF Pays
  <2>2. CASE o = Object(s)
    <3>1. raw[o] \in Int /\ failures \in Int /\ failures' = failures
      BY <1>1, <1>2, Counts
    <3>2. raw'[o] \in Int /\ raw'[o] <= raw[o] + 1
      <4>1. raw'[o] = raw[o] \/ raw'[o] = raw[o] + 1
        BY <1>1, <1>2, <2>2 DEF Plus
      <4>2. QED
        BY <3>1, <4>1
    <3>3. s \in Holding(o) /\ s \notin Holding(o)'
      <4>1. pc'[s] = "mark"
        BY <1>1, <1>2
      <4>2. QED
        BY <1>2, <1>5, <2>2, <4>1 DEF Holding
    <3>4. s \in Missing(o)' => s \in Missing(o)
      BY <1>2, <1>3, OthersWait
    <3>5. Bit(s \in Holding(o)) = 1 /\ Bit(s \in Holding(o)') = 0
          /\ Bit(s \in Missing(o)') <= Bit(s \in Missing(o))
      BY <3>3, <3>4 DEF Bit
    <3>6. Bit(s \in Missing(o)) \in {0, 1} /\ Bit(s \in Missing(o)') \in {0, 1}
      BY BitType
    <3>7. QED
      BY <3>1, <3>2, <3>5, <3>6 DEF Pays
  <2>3. QED
    BY <2>1, <2>2
<1>7. QED
  BY <1>3, <1>4, <1>6 DEF Settles

\* A mark keeps every run from reading the object as missing.
LEMMA MarkPays ==
  ASSUME IInv, NoList, NEW s \in Slots, Mark(s)
  PROVE  Settles(s)
<1>1. /\ TypeOK /\ pc \in [Slots -> Steps] /\ toLoad \in [Slots -> SUBSET bucket]
      /\ ledger \in [Hosts -> SUBSET Objects]
  BY DEF IInv, TypeOK
<1>2. /\ pc[s] = "mark" /\ pc' = [pc EXCEPT ![s] = "insert"] /\ LedgerExists
      /\ ledger' = [ledger EXCEPT ![Chosen] = @ \cup {Object(s)}]
      /\ toLoad' = [toLoad EXCEPT ![s] = @ \ {Object(s)}]
      /\ UNCHANGED <<raw, created, failures, up, downs>>
  BY <1>1 DEF Mark, Goto, Marked, faults, Object
<1>3. Chosen \in Hosts
  BY <1>2, ChosenIsHost DEF LedgerExists
<1>4. RunStep(s)
  BY <1>1, <1>2, <1>3 DEF RunStep
<1>5. NoList'
  BY <1>1, <1>2 DEF NoList
<1>6. ASSUME NEW o \in Objects PROVE Pays(s, o)
  <2>1. /\ toLoad'[s] = toLoad[s] \ {Object(s)} /\ pc'[s] = "insert"
        /\ ledger'[Chosen] = ledger[Chosen] \cup {Object(s)}
        /\ Chosen' = Chosen /\ LedgerExists'
    BY <1>1, <1>2, <1>3, <1>4, LedgerStays
  <2>2. s \in Holding(o)' => s \in Holding(o)
    BY <1>2, <2>1 DEF Holding
  <2>3. s \in Missing(o)' => s \in Missing(o)
    BY <1>2, <2>1 DEF Missing
  <2>4. Bit(s \in Holding(o)') <= Bit(s \in Holding(o))
        /\ Bit(s \in Missing(o)') <= Bit(s \in Missing(o))
    BY <2>2, <2>3 DEF Bit
  <2>5. raw[o] \in Int /\ failures \in Int /\ raw'[o] = raw[o] /\ failures' = failures
    BY <1>1, <1>2, Counts
  <2>6. /\ Bit(s \in Holding(o)) \in {0, 1} /\ Bit(s \in Missing(o)) \in {0, 1}
        /\ Bit(s \in Holding(o)') \in {0, 1} /\ Bit(s \in Missing(o)') \in {0, 1}
    BY BitType
  <2>7. QED
    BY <2>4, <2>5, <2>6 DEF Pays
<1>7. QED
  BY <1>4, <1>5, <1>6 DEF Settles

\* After a failure the run starts over, with an empty list.
LEMMA RetryClears ==
  ASSUME TypeOK, NEW s \in Slots, NEW e, Retry(s, e)
  PROVE  /\ pc' = [pc EXCEPT ![s] = pc'[s]] /\ toLoad' = [toLoad EXCEPT ![s] = {}]
         /\ toLoad'[s] = {} /\ pc'[s] \in {"idle", "list", "read"}
<1>1. pc \in [Slots -> Steps] /\ toLoad \in [Slots -> SUBSET bucket]
  BY DEF TypeOK
<1>2. CASE EndRun(s)
  BY <1>1, <1>2 DEF EndRun
<1>3. CASE /\ pc' = [pc EXCEPT ![s] = IF @ = "list" THEN "list" ELSE "read"]
           /\ toLoad' = [toLoad EXCEPT ![s] = {}]
  BY <1>1, <1>3
<1>4. QED
  BY <1>2, <1>3 DEF Retry

\* A failure pays for what the lost list, or what it stored, may be stored again.
LEMMA FailStatementPays ==
  ASSUME IInv, NoList, NEW s \in Slots, FailStatement(s)
  PROVE  Settles(s)
<1>1. /\ TypeOK /\ pc \in [Slots -> Steps] /\ toLoad \in [Slots -> SUBSET bucket]
      /\ ledger \in [Hosts -> SUBSET Objects] /\ raw \in [Objects -> 0 .. CopyCap]
  BY DEF IInv, TypeOK
<1>2. PICK e \in Effects : Effect(s, e) /\ Retry(s, e)
  BY DEF FailStatement
<1>3. /\ pc' = [pc EXCEPT ![s] = pc'[s]] /\ toLoad' = [toLoad EXCEPT ![s] = {}]
      /\ toLoad'[s] = {} /\ pc'[s] \in {"idle", "list", "read"}
  BY <1>1, <1>2, RetryClears
<1>4. UNCHANGED <<up, created, downs>> /\ failures' = failures + 1
  BY DEF FailStatement
<1>5. \A h \in Hosts : ledger[h] \subseteq ledger'[h]
  BY <1>1, <1>2 DEF Effect
<1>6. RunStep(s)
  BY <1>1, <1>3, <1>4, <1>5 DEF RunStep
<1>7. NoList'
  BY <1>1, <1>3 DEF NoList
<1>8. \/ raw' = raw
      \/ pc[s] = "insert" /\ toLoad[s] # {} /\ raw' = Plus(raw, Object(s))
  BY <1>2 DEF Effect, Object
<1>9. ASSUME NEW o \in Objects PROVE Pays(s, o)
  <2>1. raw[o] \in Int /\ failures \in Int
    BY <1>1, Counts
  <2>2. s \notin Holding(o)'
    BY <1>3 DEF Holding
  <2>3. Bit(s \in Holding(o)') = 0
    BY <2>2 DEF Bit
  <2>4. /\ Bit(s \in Holding(o)) \in {0, 1} /\ Bit(s \in Missing(o)) \in {0, 1}
        /\ Bit(s \in Missing(o)') \in {0, 1}
    BY BitType
  <2>5. raw'[o] \in Int /\ raw'[o] <= raw[o] + Bit(s \in Holding(o))
    <3>1. CASE raw'[o] = raw[o]
      BY <2>1, <2>4, <3>1
    <3>2. CASE raw'[o] # raw[o]
      <4>1. pc[s] = "insert" /\ toLoad[s] # {} /\ raw' = Plus(raw, Object(s))
        BY <1>8, <3>2
      <4>2. Object(s) \in toLoad[s] /\ Object(s) \in Objects
        BY <1>1, <4>1, ObjectListed
      <4>3. o = Object(s) /\ (raw'[o] = raw[o] \/ raw'[o] = raw[o] + 1)
        BY <1>1, <3>2, <4>1, <4>2 DEF Plus
      <4>4. s \in Holding(o)
        BY <4>1, <4>2, <4>3 DEF Holding
      <4>5. Bit(s \in Holding(o)) = 1
        BY <4>4 DEF Bit
      <4>6. QED
        BY <2>1, <4>3, <4>5
    <3>3. QED
      BY <3>1, <3>2
  <2>6. QED
    BY <1>4, <2>1, <2>3, <2>4, <2>5 DEF Pays
<1>10. QED
  BY <1>6, <1>7, <1>9 DEF Settles

\* While no host answers, or the one that does has no ledger, every run misses
\* every object anyway.
LEMMA FailUnavailablePays ==
  ASSUME IInv, NoList, NEW s \in Slots, FailUnavailable(s)
  PROVE  Settles(s)
<1>1. /\ TypeOK /\ pc \in [Slots -> Steps] /\ toLoad \in [Slots -> SUBSET bucket]
  BY DEF IInv, TypeOK
<1>2. Retry(s, "nothing") /\ UNCHANGED <<ledger, raw, up, created, downs, failures>>
      /\ ~LedgerExists
  BY DEF FailUnavailable, database, faults, LedgerExists
<1>3. /\ pc' = [pc EXCEPT ![s] = pc'[s]] /\ toLoad' = [toLoad EXCEPT ![s] = {}]
      /\ toLoad'[s] = {} /\ pc'[s] \in {"idle", "list", "read"}
  BY <1>1, <1>2, RetryClears
<1>4. RunStep(s)
  BY <1>1, <1>2, <1>3 DEF RunStep
<1>5. NoList'
  BY <1>1, <1>3 DEF NoList
<1>6. ASSUME NEW o \in Objects PROVE Pays(s, o)
  <2>1. s \notin Holding(o)' /\ s \in Missing(o)
    BY <1>2, <1>3 DEF Holding, Missing
  <2>2. Bit(s \in Holding(o)') = 0 /\ Bit(s \in Missing(o)) = 1
    BY <2>1 DEF Bit
  <2>3. Bit(s \in Holding(o)) \in {0, 1} /\ Bit(s \in Missing(o)') \in {0, 1}
    BY BitType
  <2>4. raw[o] \in Int /\ failures \in Int /\ raw'[o] = raw[o] /\ failures' = failures
    BY <1>1, <1>2, Counts
  <2>5. QED
    BY <2>2, <2>3, <2>4 DEF Pays
<1>7. QED
  BY <1>4, <1>5, <1>6 DEF Settles

\* A change of hosts may make every run miss every object.
LEMMA HostChangePays ==
  ASSUME IInv, CreditInv, NEW h \in Hosts, HostDown(h) \/ HostUp(h)
  PROVE  CreditInv'
<1>1. /\ TypeOK /\ up \in [Hosts -> BOOLEAN]
      /\ Cardinality(Slots) \in Nat /\ downs \in Nat /\ failures \in Nat
      /\ Cardinality(Down) \in Nat /\ IsFiniteSet(Down)
  BY PaidType DEF IInv, TypeOK
<1>2. UNCHANGED <<raw, pc, toLoad, failures>>
  BY DEF HostDown, HostUp, database, run, faults
<1> DEFINE N == Cardinality(Slots)
           K == 1 + 2 * downs - Cardinality(Down)
<1>3. K \in Int /\ 1 + 2 * downs' - Cardinality(Down') = K + 1
  <2>1. CASE HostDown(h)
    <3>1. Down' = Down \cup {h} /\ h \notin Down /\ downs' = downs + 1
      BY <1>1, <2>1 DEF HostDown, Down
    <3>2. Cardinality(Down') = Cardinality(Down) + 1
      BY <1>1, <3>1, FS_AddElement
    <3>3. QED
      BY <1>1, <3>1, <3>2
  <2>2. CASE HostUp(h)
    <3>1. Down' = Down \ {h} /\ h \in Down /\ downs' = downs
      BY <1>1, <2>2 DEF HostUp, Down, faults
    <3>2. Cardinality(Down') = Cardinality(Down) - 1
      BY <1>1, <3>1, FS_RemoveElement
    <3>3. QED
      BY <1>1, <3>1, <3>2
  <2>3. QED
    BY <2>1, <2>2
<1>4. Paid = failures + N * K /\ Paid' = failures + N * (K + 1)
  BY <1>2, <1>3 DEF Paid
<1> HIDE DEF N, K
<1>5. N \in Nat /\ N * (K + 1) = N * K + N /\ N * K \in Int
  BY <1>1, <1>3 DEF N
<1>6. NoList'
  BY <1>2 DEF CreditInv, NoList
<1>7. ASSUME NEW o \in Objects
      PROVE  raw'[o] + Cardinality(Holding(o)') + Cardinality(Missing(o)') <= Paid'
  <2>1. Holding(o)' = Holding(o)
    BY <1>2 DEF Holding, Object
  <2>2. /\ Cardinality(Holding(o)) \in Nat /\ Cardinality(Missing(o)) \in Nat
        /\ Cardinality(Missing(o)') \in Nat /\ Cardinality(Missing(o)') <= N
    BY SlotSets, SlotCount DEF N
  <2>3. raw[o] \in Int /\ raw'[o] = raw[o]
    BY <1>1, <1>2, Counts
  <2>4. raw[o] + Cardinality(Holding(o)) + Cardinality(Missing(o)) <= Paid
    BY DEF CreditInv
  <2>5. QED
    BY <1>1, <1>4, <1>5, <2>1, <2>2, <2>3, <2>4
<1>8. QED
  BY <1>6, <1>7 DEF CreditInv

LEMMA ProductType ==
  ASSUME NEW a \in Nat, NEW b \in Int
  PROVE  a * b \in Int /\ (b \in Nat => 0 <= a * b)
<1>1. a * b \in Int
  OBVIOUS
<1>2. b \in Nat => 0 <= a * b
  BY Z3
<1>3. QED
  BY <1>1, <1>2

LEMMA CreditInit == Init => CreditInv
<1> SUFFICES ASSUME Init PROVE CreditInv
  OBVIOUS
<1>1. IInv /\ NoList /\ failures = 0 /\ downs = 0 /\ Down = {}
  BY Initially DEF Init, NoList, Down
<1>2. Cardinality(Down) = 0
  BY <1>1, FS_EmptySet
<1>3. Cardinality(Slots) \in Nat
  BY SlotCount
<1>4. Paid = Cardinality(Slots)
  BY <1>1, <1>2, <1>3 DEF Paid
<1>5. ASSUME NEW o \in Objects
      PROVE  raw[o] + Cardinality(Holding(o)) + Cardinality(Missing(o)) <= Paid
  <2>1. Holding(o) = {} /\ raw[o] = 0
    BY DEF Init, Holding
  <2>2. Cardinality(Holding(o)) = 0
    BY <2>1, FS_EmptySet
  <2>3. Cardinality(Missing(o)) \in Nat /\ Cardinality(Missing(o)) <= Cardinality(Slots)
    BY SlotSets, SlotCount
  <2>4. QED
    BY <1>3, <1>4, <2>1, <2>2, <2>3
<1>6. QED
  BY <1>1, <1>5 DEF CreditInv

LEMMA CreditNext == IInv /\ IInv' /\ CreditInv /\ [Next]_vars => CreditInv'
<1> SUFFICES ASSUME IInv, IInv', CreditInv, [Next]_vars PROVE CreditInv'
  OBVIOUS
<1>1. ASSUME UNCHANGED <<raw, pc, toLoad, ledger, created, up, faults>> PROVE CreditInv'
  BY <1>1 DEF CreditInv, NoList, Paid, Holding, Missing, Object, Down, LedgerExists, Chosen,
              Reachable, faults
<1>2. CASE UNCHANGED vars \/ \E o \in Objects : Put(o)
  <2>1. UNCHANGED <<raw, pc, toLoad, ledger, created, up, faults>>
    BY <1>2 DEF vars, Put, database, run
  <2>2. QED
    BY <1>1, <2>1
<1>3. ASSUME NEW h \in Hosts, HostDown(h) \/ HostUp(h) PROVE CreditInv'
  BY <1>3, HostChangePays
<1>4. ASSUME NEW s \in Slots, Settles(s) PROVE CreditInv'
  BY <1>4, CreditKept DEF Settles, CreditInv
<1>5. ASSUME NEW s \in Slots, Task(s) \/ FailStatement(s) \/ FailUnavailable(s)
      PROVE  CreditInv'
  <2>1. NoList
    BY DEF CreditInv
  <2>2. Settles(s)
    BY <1>5, <2>1, ListlessPays, ReadExistingPays, InsertPays, MarkPays, FailStatementPays,
       FailUnavailablePays DEF Task
  <2>3. QED
    BY <1>4, <2>2
<1>6. QED
  BY <1>2, <1>3, <1>5 DEF Next

\* Rows are stored again for a reason only: a failure, a run that overlaps another,
\* or a change of hosts.
THEOREM EveryCopyExplained == Spec => []CopiesExplained
<1>1. Spec => []CreditInv
  BY Inductive, CreditInit, CreditNext, PTL DEF Spec
<1>2. ASSUME IInv, CreditInv PROVE CopiesExplained
  <2>1. /\ Cardinality(Slots) \in Nat /\ downs \in Nat /\ failures \in Nat
        /\ Cardinality(Down) \in Nat
    BY <1>2, PaidType DEF IInv
  <2> DEFINE N == Cardinality(Slots)
             D == Cardinality(Down)
             K == 1 + 2 * downs
  <2>2. N * (K - D) <= N * K
    <3> DEFINE P == N * D
               R == N * K
    <3>1. N \in Nat /\ D \in Nat /\ D \in Int /\ K \in Int
      BY <2>1
    <3> HIDE DEF N, D, K
    <3>2. N * (K - D) = R - P
      BY <3>1
    <3>3. P \in Int /\ 0 <= P
      BY <3>1, ProductType, Zenon
    <3>4. R \in Int
      BY <3>1
    <3> HIDE DEF P, R
    <3>5. R - P <= R
      BY <3>3, <3>4
    <3>6. QED
      BY <3>2, <3>5 DEF R
  <2>3. N * (K - D) \in Int /\ N * K \in Int
    BY <2>1
  <2>4. ASSUME NEW o \in Objects PROVE raw[o] <= failures + N * K
    <3>1. /\ raw[o] + Cardinality(Holding(o)) + Cardinality(Missing(o)) <= Paid
          /\ Paid = failures + N * (K - D)
      <4>1. raw[o] + Cardinality(Holding(o)) + Cardinality(Missing(o)) <= Paid
        BY <1>2 DEF CreditInv
      <4>2. Paid = failures + N * (K - D)
        BY <2>1 DEF Paid
      <4>3. QED
        BY <4>1, <4>2
    <3>2. Cardinality(Holding(o)) \in Nat /\ Cardinality(Missing(o)) \in Nat
      BY SlotSets, SlotCount
    <3>3. raw[o] \in Int
      BY <1>2, Counts DEF IInv
    <3> HIDE DEF N, D, K
    <3>4. QED
      BY <2>1, <2>2, <2>3, <3>1, <3>2, <3>3
  <2>5. QED
    BY <2>4 DEF CopiesExplained
<1>3. QED
  BY <1>1, <1>2, Inductive, PTL
=============================================================================
