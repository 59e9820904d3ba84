-------------------------- MODULE CsvRotation_proofs --------------------------
(***************************************************************************)
(* The csv sink of the generator overwrites no object, loses no row to a   *)
(* failed upload, and no more than a bounded number to a crash or a failed *)
(* write, for any number of rows, restarts, failed uploads and failed      *)
(* writes.                                                                 *)
(***************************************************************************)
EXTENDS CsvRotation, FiniteSetTheorems, TLAPS

\* The rows of a run are in objects that bear its salt and a number that only
\* grows, so the name of the next object is new.
Fresh ==
  \A n \in DOMAIN bucket :
    /\ n[3] <= salt
    /\ n[3] = salt => IF Infinite THEN n[2] <= produced /\ (pc = "rotate" => n[2] # produced)
                                  ELSE pc = "exit"

\* Only rows that were produced are in an object.
Produced(r) == r[1] < salt \/ InThisRun(r)
BucketProduced == \A n \in DOMAIN bucket : \A r \in bucket[n] : Produced(r)

\* What the file is about to lose is in an object.
TruncateSafe ==
  pc = "truncate" => Infinite /\ \A r \in file : ObjectsWith(r) # {}

\* A stream that never failed is good; the file of a bounded run has all its rows.
StreamIntact ==
  writeFaults = 0 => good /\ (~Infinite => file = {salt} \X (1 .. produced))

\* A row that waits in the file was stored by ambiguous uploads only.
CopiesOf(r) ==
  Cardinality(ObjectsWith(r)) <=
    ambiguous + IF r \in file /\ pc \in {"loop", "rotate"} THEN 0 ELSE 1

IInv ==
  /\ TypeOK /\ Fresh /\ BucketProduced /\ TruncateSafe /\ StreamIntact
  /\ pc = "exit" => ~Infinite
  /\ \A r \in Rows : CopiesOf(r)
  /\ NoRowLost /\ FinishedIsUploaded

-----------------------------------------------------------------------------
(* What an upload does to the bucket. *)

LEMMA TypedRows ==
  ASSUME TypeOK
  PROVE  /\ count \in Nat /\ Quota \in Nat /\ Quota <= MaxProduced
         /\ salt \in Nat /\ produced \in Nat /\ file \subseteq Rows
  BY CsvAssumption DEF TypeOK, Quota, Infinite, Salts, Rows

LEMMA NameIsNew ==
  ASSUME IInv, Uploading
  PROVE  /\ ObjectName \notin DOMAIN bucket
         /\ ObjectName \in (0 .. MaxClock) \X (0 .. Quota) \X Salts
<1>1. ASSUME ObjectName \in DOMAIN bucket PROVE FALSE
  <2>1. ObjectName[3] = salt /\ ObjectName[2] = IF Infinite THEN produced ELSE 0
    BY DEF ObjectName
  <2>2. IF Infinite THEN pc = "rotate" ELSE pc = "loop"
    BY DEF Uploading, RotateDue, Final
  <2>3. QED
    BY <1>1, <2>1, <2>2 DEF IInv, Fresh
<1>2. ObjectName \in (0 .. MaxClock) \X (0 .. Quota) \X Salts
  BY TypedRows DEF IInv, TypeOK, ObjectName
<1>3. QED
  BY <1>1, <1>2

\* The bucket gains one object, which holds the file.
Gains(name) ==
  /\ name \notin DOMAIN bucket /\ name[3] = salt
  /\ name \in (0 .. MaxClock) \X (0 .. Quota) \X Salts
  /\ name[2] = IF Infinite THEN produced ELSE 0
  /\ DOMAIN bucket' = DOMAIN bucket \cup {name}
  /\ bucket'[name] = file
  /\ \A n \in DOMAIN bucket : bucket'[n] = bucket[n]

LEMMA PutGains ==
  ASSUME IInv, Uploading, PutObject
  PROVE  Gains(ObjectName)
<1>1. ObjectName[3] = salt /\ ObjectName[2] = IF Infinite THEN produced ELSE 0
  BY DEF ObjectName
<1> DEFINE name == ObjectName
<1>2. bucket' = [n \in DOMAIN bucket \cup {name} |-> IF n = name THEN file ELSE bucket[n]]
  BY DEF PutObject
<1>3. name \notin DOMAIN bucket /\ name \in (0 .. MaxClock) \X (0 .. Quota) \X Salts
  BY NameIsNew
<1> HIDE DEF name
<1>4. /\ DOMAIN bucket' = DOMAIN bucket \cup {name}
      /\ bucket'[name] = file
      /\ \A n \in DOMAIN bucket : bucket'[n] = bucket[n]
  BY <1>2, <1>3
<1>5. QED
  BY <1>1, <1>3, <1>4 DEF Gains, name

LEMMA ObjectsFinite ==
  ASSUME TypeOK, NEW r
  PROVE  IsFiniteSet(ObjectsWith(r)) /\ Cardinality(ObjectsWith(r)) \in Nat
<1> DEFINE names == (0 .. MaxClock) \X (0 .. Quota) \X Salts
<1>1. /\ 0 \in Int /\ MaxClock \in Int /\ Quota \in Int
      /\ 1 \in Int /\ MaxRuns \in Int
  BY CsvAssumption, TypedRows
<1>2. IsFiniteSet(0 .. MaxClock) /\ IsFiniteSet(0 .. Quota)
  BY <1>1, FS_Interval
<1>3. IsFiniteSet(Salts)
  BY <1>1, FS_Interval DEF Salts
<1>4. IsFiniteSet(((0 .. MaxClock) \X (0 .. Quota)) \X Salts)
  BY <1>2, <1>3, FS_Product
<1> DEFINE pairs == ((0 .. MaxClock) \X (0 .. Quota)) \X Salts
           f == [p \in pairs |-> <<p[1][1], p[1][2], p[2]>>]
<1>5. f \in Surjection(pairs, names)
  <2>1. f \in [pairs -> names]
    OBVIOUS
  <2>2. ASSUME NEW n \in names PROVE \E p \in pairs : f[p] = n
    <3>1. <<<<n[1], n[2]>>, n[3]>> \in pairs /\ f[<<<<n[1], n[2]>>, n[3]>>] = n
      OBVIOUS
    <3>2. QED
      BY <3>1
  <2>3. QED
    BY <2>1, <2>2 DEF Surjection
<1>6. IsFiniteSet(names)
  BY <1>4, <1>5, FS_Surjection
<1>7. ObjectsWith(r) \subseteq names
  BY DEF ObjectsWith, TypeOK
<1>8. QED
  BY <1>6, <1>7, FS_Subset, FS_CardinalityType

LEMMA GainsOne ==
  ASSUME TypeOK, NEW name, Gains(name), NEW r
  PROVE  /\ r \notin file => ObjectsWith(r)' = ObjectsWith(r)
         /\ r \in file => /\ ObjectsWith(r)' = ObjectsWith(r) \cup {name}
                          /\ Cardinality(ObjectsWith(r)') = Cardinality(ObjectsWith(r)) + 1
<1>1. ObjectsWith(r)' = ObjectsWith(r) \cup {n \in {name} : r \in file}
  BY DEF Gains, ObjectsWith
<1>2. name \notin ObjectsWith(r)
  BY DEF Gains, ObjectsWith
<1>3. r \in file => ObjectsWith(r)' = ObjectsWith(r) \cup {name}
  BY <1>1
<1>4. Cardinality(ObjectsWith(r) \cup {name}) = Cardinality(ObjectsWith(r)) + 1
  BY <1>2, ObjectsFinite, FS_AddElement
<1>5. QED
  BY <1>1, <1>3, <1>4

-----------------------------------------------------------------------------
(* The steps. *)

LEMMA Initially == Init => IInv
<1> SUFFICES ASSUME Init PROVE IInv
  OBVIOUS
<1>1. count \in Counts /\ salt = 1 /\ 1 \in Salts /\ produced = 0 /\ Quota \in Nat
  BY CsvAssumption DEF Init, Salts, Quota, Infinite
<1>2. TypeOK
  BY <1>1, CsvAssumption DEF Init, TypeOK
<1>3. Fresh /\ BucketProduced /\ TruncateSafe /\ NoRowLost /\ FinishedIsUploaded
  BY <1>1 DEF Init, Fresh, BucketProduced, TruncateSafe, NoRowLost, Rows, Salts, InThisRun,
              FinishedIsUploaded
<1>4. StreamIntact
  BY <1>1 DEF Init, StreamIntact
<1>5. \A r \in Rows : CopiesOf(r)
  <2>1. TAKE r \in Rows
  <2>2. ObjectsWith(r) = {}
    BY DEF Init, ObjectsWith
  <2>3. QED
    BY <2>2, FS_EmptySet DEF Init, CopiesOf
<1>6. QED
  BY <1>2, <1>3, <1>4, <1>5 DEF IInv, Init

LEMMA TickKeeps ==
  ASSUME IInv, Tick
  PROVE  IInv'
<1>1. UNCHANGED <<count, salt, produced, file, good, bucket, pc, faults>> /\ clock' \in 0 .. MaxClock
  BY CsvAssumption DEF Tick, IInv, TypeOK
<1>2. TypeOK'
  BY <1>1 DEF IInv, TypeOK, Quota, Infinite, faults
<1>3. (Fresh /\ BucketProduced /\ TruncateSafe /\ StreamIntact)'
  BY <1>1 DEF IInv, Fresh, BucketProduced, Produced, InThisRun, TruncateSafe, ObjectsWith,
              StreamIntact, Infinite, faults
<1>4. (\A r \in Rows : CopiesOf(r))'
  BY <1>1 DEF IInv, CopiesOf, ObjectsWith, faults
<1>5. ((pc = "exit" => ~Infinite) /\ NoRowLost /\ FinishedIsUploaded)'
  BY <1>1 DEF IInv, Infinite, NoRowLost, InThisRun, ObjectsWith, FinishedIsUploaded, faults
<1>6. QED
  BY <1>2, <1>3, <1>4, <1>5 DEF IInv

\* A new row is in no object: it was not produced before.
LEMMA NewRow ==
  ASSUME IInv
  PROVE  ObjectsWith(<<salt, produced + 1>>) = {}
<1>1. ~Produced(<<salt, produced + 1>>)
  BY TypedRows DEF IInv, Produced, InThisRun
<1>2. QED
  BY <1>1 DEF IInv, BucketProduced, ObjectsWith

LEMMA WriteRowKeeps ==
  ASSUME IInv, WriteRow
  PROVE  IInv'
<1> DEFINE new == <<salt, produced + 1>>
<1>1. /\ pc = "loop" /\ pc' = "rotate"
      /\ produced' = produced + 1 /\ produced < Quota
      /\ UNCHANGED <<count, salt, bucket, clock, crashes, ambiguous, failed>>
  BY DEF WriteRow
<1>2. salt \in Nat /\ produced \in Nat /\ Quota \in Nat
  BY TypedRows DEF IInv
<1>3. /\ file' \subseteq file \cup {new}
      /\ good' \in BOOLEAN /\ writeFaults' \in Nat
      /\ writeFaults' = 0 => writeFaults = 0 /\ good' = good /\ (good => file' = file \cup {new})
  <2>1. good \in BOOLEAN /\ writeFaults \in Nat
    BY DEF IInv, TypeOK
  <2>2. CASE good /\ file' = file \cup {new} /\ UNCHANGED <<good, writeFaults>>
    BY <2>1, <2>2
  <2>3. CASE good' = FALSE /\ writeFaults' = writeFaults + 1 /\ file' \subseteq file
    <3>1. writeFaults' # 0 /\ writeFaults' \in Nat
      BY <2>1, <2>3
    <3>2. QED
      BY <2>3, <3>1
  <2>4. CASE ~good /\ UNCHANGED <<file, good, writeFaults>>
    BY <2>1, <2>4
  <2>5. QED
    BY <2>2, <2>3, <2>4 DEF WriteRow
<1>4. TypeOK'
  <2>1. file' \subseteq {salt'} \X (1 .. produced')
    <3>1. file \subseteq {salt} \X (1 .. produced)
      BY DEF IInv, TypeOK
    <3>2. file \cup {new} \subseteq {salt} \X (1 .. produced + 1)
      BY <1>2, <3>1
    <3>3. QED
      BY <1>1, <1>3, <3>2
  <2>2. produced' \in 0 .. Quota' /\ Quota' = Quota
    BY <1>1, <1>2 DEF Quota, Infinite
  <2>3. QED
    BY <1>1, <1>3, <2>1, <2>2 DEF IInv, TypeOK
<1>5. Fresh'
  <2>1. \A n \in DOMAIN bucket : n[2] \in Nat
    BY <1>2 DEF IInv, TypeOK
  <2>2. QED
    BY <1>1, <1>2, <2>1 DEF IInv, Fresh, Infinite
<1>6. BucketProduced'
  <2>1. \A n \in DOMAIN bucket : \A r \in bucket[n] : r[2] \in Nat
    BY <1>2 DEF IInv, TypeOK
  <2>2. \A n \in DOMAIN bucket : \A r \in bucket[n] : Produced(r)'
    BY <1>1, <1>2, <2>1 DEF IInv, BucketProduced, Produced, InThisRun
  <2>3. QED
    BY <1>1, <2>2 DEF BucketProduced
<1>7. TruncateSafe' /\ FinishedIsUploaded' /\ (pc = "exit" => ~Infinite)'
  BY <1>1 DEF TruncateSafe, FinishedIsUploaded
<1>8. StreamIntact'
  <2>1. {salt} \X (1 .. produced + 1) = ({salt} \X (1 .. produced)) \cup {new}
    BY <1>2
  <2>2. QED
    BY <1>1, <1>3, <2>1 DEF IInv, StreamIntact, Infinite
<1>9. (\A r \in Rows : CopiesOf(r))'
  <2>1. ASSUME NEW r \in Rows PROVE CopiesOf(r)'
    <3>1. ObjectsWith(r)' = ObjectsWith(r) /\ ambiguous' = ambiguous /\ ambiguous \in Nat
      BY <1>1 DEF ObjectsWith, IInv, TypeOK
    <3>2. Cardinality(ObjectsWith(r)) \in Nat
      BY ObjectsFinite DEF IInv
    <3>3. CASE r = new
      <4>1. Cardinality(ObjectsWith(r)) = 0
        BY <3>3, NewRow, FS_EmptySet
      <4>2. QED
        BY <3>1, <4>1 DEF CopiesOf
    <3>4. CASE r # new
      <4>1. r \in file' => r \in file
        BY <1>3, <3>4
      <4>2. CopiesOf(r)
        BY DEF IInv
      <4>3. QED
        BY <1>1, <3>1, <3>2, <4>1, <4>2 DEF CopiesOf
    <3>5. QED
      BY <3>3, <3>4
  <2>2. QED
    BY <2>1
<1>10. NoRowLost'
  <2>1. ASSUME writeFaults' = 0, NEW r \in Rows, InThisRun(r)'
        PROVE  r \in file' \/ ObjectsWith(r)' # {}
    <3>1. file' = file \cup {new} /\ writeFaults = 0
      BY <1>3, <2>1 DEF IInv, StreamIntact
    <3>2. ObjectsWith(r)' = ObjectsWith(r)
      BY <1>1 DEF ObjectsWith
    <3>3. r = new \/ InThisRun(r)
      BY <1>1, <1>2, <2>1 DEF InThisRun, Rows
    <3>4. QED
      BY <3>1, <3>2, <3>3 DEF IInv, NoRowLost
  <2>2. QED
    BY <2>1 DEF NoRowLost
<1>11. QED
  BY <1>4, <1>5, <1>6, <1>7, <1>8, <1>9, <1>10 DEF IInv

LEMMA SkipRotationKeeps ==
  ASSUME IInv, SkipRotation
  PROVE  IInv'
<1>1. /\ pc = "rotate" /\ pc' = "loop"
      /\ UNCHANGED <<count, salt, produced, file, good, bucket, clock, faults>>
  BY DEF SkipRotation
<1>2. TypeOK'
  BY <1>1 DEF IInv, TypeOK, Quota, Infinite, faults
<1>3. (Fresh /\ BucketProduced /\ TruncateSafe /\ StreamIntact)'
  BY <1>1 DEF IInv, Fresh, BucketProduced, Produced, InThisRun, TruncateSafe, ObjectsWith,
              StreamIntact, Infinite, faults
<1>4. (\A r \in Rows : CopiesOf(r))'
  BY <1>1 DEF IInv, CopiesOf, ObjectsWith, faults
<1>5. ((pc = "exit" => ~Infinite) /\ NoRowLost /\ FinishedIsUploaded)'
  BY <1>1 DEF IInv, NoRowLost, InThisRun, ObjectsWith, FinishedIsUploaded, faults
<1>6. QED
  BY <1>2, <1>3, <1>4, <1>5 DEF IInv

LEMMA TruncateKeeps ==
  ASSUME IInv, Truncate
  PROVE  IInv'
<1>1. /\ pc = "truncate" /\ pc' = "loop" /\ file' = {} /\ good' = TRUE
      /\ UNCHANGED <<count, salt, produced, bucket, clock, faults>>
  BY DEF Truncate, Opened
<1>2. Infinite /\ \A r \in file : ObjectsWith(r) # {}
  BY <1>1 DEF IInv, TruncateSafe
<1>3. TypeOK'
  BY <1>1 DEF IInv, TypeOK, Quota, Infinite, faults
<1>4. (Fresh /\ BucketProduced /\ TruncateSafe /\ StreamIntact)'
  BY <1>1, <1>2 DEF IInv, Fresh, BucketProduced, Produced, InThisRun, TruncateSafe, StreamIntact,
                    Infinite, faults
<1>5. (\A r \in Rows : CopiesOf(r))'
  BY <1>1 DEF IInv, CopiesOf, ObjectsWith, faults
<1>6. ((pc = "exit" => ~Infinite) /\ NoRowLost /\ FinishedIsUploaded)'
  BY <1>1, <1>2 DEF IInv, NoRowLost, InThisRun, ObjectsWith, FinishedIsUploaded, faults
<1>7. QED
  BY <1>3, <1>4, <1>5, <1>6 DEF IInv

LEMMA RestartKeeps ==
  ASSUME IInv, Restart
  PROVE  IInv'
<1>1. /\ salt < MaxRuns /\ salt' = salt + 1
      /\ produced' = 0 /\ file' = {} /\ good' = TRUE /\ pc' = "loop"
      /\ crashes' \in Nat
      /\ UNCHANGED <<count, bucket, clock, ambiguous, failed, writeFaults>>
  BY DEF Restart, Opened, IInv, TypeOK
<1>2. salt \in Nat /\ salt' \in Salts /\ Quota \in Nat /\ Quota' = Quota
  BY <1>1, TypedRows, CsvAssumption DEF IInv, Salts, Quota, Infinite
<1>3. TypeOK'
  BY <1>1, <1>2 DEF IInv, TypeOK
<1>4. Fresh'
  <2>1. \A n \in DOMAIN bucket : n[3] \in Nat /\ n[3] <= salt
    BY DEF IInv, TypeOK, Salts, Fresh
  <2>2. QED
    BY <1>1, <1>2, <2>1 DEF Fresh
<1>5. BucketProduced'
  <2>1. ASSUME NEW n \in DOMAIN bucket, NEW r \in bucket[n] PROVE Produced(r)'
    <3>1. r[1] \in Nat /\ Produced(r)
      BY <2>1 DEF IInv, TypeOK, Salts, BucketProduced
    <3>2. QED
      BY <1>1, <1>2, <3>1 DEF Produced, InThisRun
  <2>2. QED
    BY <1>1, <2>1 DEF BucketProduced
<1>6. (TruncateSafe /\ StreamIntact /\ NoRowLost /\ FinishedIsUploaded /\ (pc = "exit" => ~Infinite))'
  BY <1>1 DEF TruncateSafe, StreamIntact, NoRowLost, Rows, InThisRun, FinishedIsUploaded
<1>7. (\A r \in Rows : CopiesOf(r))'
  <2>1. ASSUME NEW r \in Rows PROVE CopiesOf(r)'
    <3>1. ObjectsWith(r)' = ObjectsWith(r) /\ ambiguous' = ambiguous
      BY <1>1 DEF ObjectsWith
    <3>2. Cardinality(ObjectsWith(r)) \in Nat /\ ambiguous \in Nat
      BY ObjectsFinite DEF IInv, TypeOK
    <3>3. Cardinality(ObjectsWith(r)) <= ambiguous + 1
      BY <3>2 DEF IInv, CopiesOf
    <3>4. QED
      BY <1>1, <3>1, <3>3 DEF CopiesOf
  <2>2. QED
    BY <2>1
<1>8. QED
  BY <1>3, <1>4, <1>5, <1>6, <1>7 DEF IInv

-----------------------------------------------------------------------------
(* The two ends of an upload. *)

\* What both have in common.
Uploaded ==
  /\ Uploading
  /\ IF Infinite THEN pc' \in {"truncate", "loop"} ELSE pc' = "exit"
  /\ UNCHANGED <<count, salt, produced, file, good, clock, crashes, writeFaults>>
  /\ ambiguous' \in Nat /\ failed' \in Nat

LEMMA UploadingFacts ==
  ASSUME IInv, Uploaded
  PROVE  /\ pc \in {"loop", "rotate"}
         /\ ~Infinite => produced = count
         /\ pc' \in {"truncate", "loop", "exit"} /\ Infinite' = Infinite /\ Quota' = Quota
         /\ pc' = "exit" => ~Infinite
<1>1. Infinite' = Infinite /\ Quota' = Quota
  BY DEF Uploaded, Quota, Infinite
<1>2. QED
  BY <1>1 DEF Uploaded, Uploading, RotateDue, Final

LEMMA StoringKeeps ==
  ASSUME IInv, Uploaded, PutObject
  PROVE  /\ (TypeOK /\ Fresh /\ BucketProduced)'
         /\ \A r \in file : ObjectsWith(r)' # {}
         /\ \A r \in Rows : ObjectsWith(r) # {} => ObjectsWith(r)' # {}
         /\ failed + ambiguous + writeFaults = 0 => FinishedIsUploaded'
<1>1. Gains(ObjectName)
  BY PutGains DEF Uploaded
<1>2. PICK name : Gains(name)
  BY <1>1
<1>3. /\ pc \in {"loop", "rotate"} /\ pc' \in {"truncate", "loop", "exit"}
      /\ Infinite' = Infinite /\ Quota' = Quota
      /\ pc' = "exit" => ~Infinite
      /\ ~Infinite => produced = count
  BY UploadingFacts
<1>4. \A n \in DOMAIN bucket' : n = name \/ (n \in DOMAIN bucket /\ bucket'[n] = bucket[n])
  BY <1>2 DEF Gains
<1>5. UNCHANGED <<count, salt, produced, file, good, clock, crashes, writeFaults>>
  BY DEF Uploaded
<1>6. salt \in Nat /\ produced \in Nat /\ file \subseteq {salt} \X (1 .. produced)
  BY TypedRows DEF IInv, TypeOK
<1>7. TypeOK'
  <2>1. DOMAIN bucket' \subseteq (0 .. MaxClock) \X (0 .. Quota) \X Salts
    BY <1>2, <1>4 DEF IInv, TypeOK, Gains
  <2>2. bucket'[name] \subseteq {name[3]} \X (1 .. Quota)
    <3>1. file \subseteq {salt} \X (1 .. Quota)
      BY TypedRows DEF IInv, TypeOK
    <3>2. QED
      BY <1>2, <3>1 DEF Gains
  <2>3. \A n \in DOMAIN bucket' : bucket'[n] \subseteq {n[3]} \X (1 .. Quota)
    BY <1>4, <2>2 DEF IInv, TypeOK
  <2>4. (count \in Counts /\ salt \in Salts /\ produced \in 0 .. Quota
         /\ file \subseteq {salt} \X (1 .. produced) /\ clock \in 0 .. MaxClock)'
    BY <1>3, <1>5 DEF IInv, TypeOK
  <2>5. (good \in BOOLEAN)'
    BY <1>5 DEF IInv, TypeOK
  <2>6. (pc \in {"loop", "rotate", "truncate", "exit"} /\ crashes \in Nat /\ ambiguous \in Nat
         /\ failed \in Nat /\ writeFaults \in Nat)'
    BY <1>3, <1>5 DEF IInv, TypeOK, Uploaded
  <2>7. QED
    BY <1>3, <2>1, <2>3, <2>4, <2>5, <2>6 DEF TypeOK
<1>8. Fresh'
  <2>1. ASSUME NEW n \in DOMAIN bucket'
        PROVE  /\ n[3] <= salt
               /\ n[3] = salt => IF Infinite THEN n[2] <= produced ELSE pc' = "exit"
    <3>1. CASE n = name
      BY <1>2, <1>3, <1>6, <3>1 DEF Gains, Uploaded
    <3>2. CASE n \in DOMAIN bucket
      BY <1>3, <3>2 DEF IInv, Fresh, Uploaded
    <3>3. QED
      BY <1>4, <3>1, <3>2
  <2>2. QED
    BY <1>3, <1>5, <2>1 DEF Fresh
<1>9. BucketProduced'
  <2>1. ASSUME NEW n \in DOMAIN bucket', NEW r \in bucket'[n] PROVE Produced(r)
    <3>1. CASE n = name
      BY <1>2, <1>6, <2>1, <3>1 DEF Gains, Produced, InThisRun
    <3>2. CASE n \in DOMAIN bucket /\ bucket'[n] = bucket[n]
      BY <2>1, <3>2 DEF IInv, BucketProduced
    <3>3. QED
      BY <1>4, <3>1, <3>2
  <2>2. QED
    BY <1>5, <2>1 DEF BucketProduced, Produced, InThisRun
<1>10. \A r \in file : ObjectsWith(r)' # {}
  BY <1>2 DEF Gains, ObjectsWith
<1>11. \A r \in Rows : ObjectsWith(r) # {} => ObjectsWith(r)' # {}
  BY <1>2 DEF Gains, ObjectsWith
<1>12. ASSUME failed + ambiguous + writeFaults = 0 PROVE FinishedIsUploaded'
  <2>1. writeFaults = 0
    BY <1>12 DEF IInv, TypeOK
  <2>2. ~Infinite => file = {salt} \X (1 .. count)
    BY <1>3, <2>1 DEF IInv, StreamIntact
  <2>3. ~Infinite => name \in DOMAIN bucket' /\ bucket'[name] = {salt} \X (1 .. count)
    BY <1>2, <2>2 DEF Gains
  <2>4. QED
    BY <1>3, <1>5, <2>3 DEF FinishedIsUploaded
<1>13. QED
  BY <1>7, <1>8, <1>9, <1>10, <1>11, <1>12

LEMMA StreamIntactKept ==
  ASSUME IInv, Uploaded
  PROVE  StreamIntact'
<1>1. UNCHANGED <<count, salt, produced, file, good, writeFaults>> /\ Infinite' = Infinite
  BY UploadingFacts DEF Uploaded
<1>2. QED
  BY <1>1 DEF IInv, StreamIntact

LEMMA UploadKeeps ==
  ASSUME IInv, Upload
  PROVE  IInv'
<1>1. /\ Uploading /\ PutObject /\ pc' = IF Infinite THEN "truncate" ELSE "exit"
      /\ UNCHANGED <<count, salt, produced, file, good, clock, faults>>
  BY DEF Upload, AfterSuccess
<1>2. Uploaded
  BY <1>1 DEF Uploaded, faults, IInv, TypeOK
<1>3. /\ (TypeOK /\ Fresh /\ BucketProduced)'
      /\ \A r \in file : ObjectsWith(r)' # {}
      /\ \A r \in Rows : ObjectsWith(r) # {} => ObjectsWith(r)' # {}
      /\ failed + ambiguous + writeFaults = 0 => FinishedIsUploaded'
  BY <1>1, <1>2, StoringKeeps
<1>4. /\ pc \in {"loop", "rotate"} /\ Infinite' = Infinite
      /\ pc' = "exit" => ~Infinite
  BY <1>2, UploadingFacts
<1>5. StreamIntact'
  BY <1>2, StreamIntactKept
<1>6. TruncateSafe'
  BY <1>1, <1>3, <1>4 DEF TruncateSafe
<1>7. NoRowLost'
  BY <1>1, <1>3 DEF IInv, NoRowLost, InThisRun, faults
<1>8. FinishedIsUploaded'
  <2>1. CASE failed + ambiguous + writeFaults = 0
    BY <1>3, <2>1
  <2>2. CASE failed + ambiguous + writeFaults # 0
    BY <1>1, <2>2 DEF FinishedIsUploaded, faults
  <2>3. QED
    BY <2>1, <2>2
<1>9. (\A r \in Rows : CopiesOf(r))'
  <2>1. PICK name : Gains(name)
    BY <1>1, PutGains
  <2>2. ASSUME NEW r \in Rows PROVE CopiesOf(r)'
    <3>1. CopiesOf(r) /\ ambiguous' = ambiguous /\ file' = file /\ ambiguous \in Nat
      BY <1>1 DEF IInv, TypeOK, faults
    <3>2. /\ Cardinality(ObjectsWith(r)) \in Nat
          /\ r \notin file => ObjectsWith(r)' = ObjectsWith(r)
          /\ r \in file => Cardinality(ObjectsWith(r)') = Cardinality(ObjectsWith(r)) + 1
      BY <2>1, ObjectsFinite, GainsOne DEF IInv
    <3>3. Cardinality(ObjectsWith(r)') <= ambiguous + 1
      BY <1>4, <3>1, <3>2 DEF CopiesOf
    <3>4. pc' \notin {"loop", "rotate"}
      BY <1>1
    <3>5. QED
      BY <3>1, <3>3, <3>4 DEF CopiesOf
  <2>3. QED
    BY <2>2
<1>10. QED
  BY <1>3, <1>4, <1>5, <1>6, <1>7, <1>8, <1>9 DEF IInv

LEMMA UploadFailsKeeps ==
  ASSUME IInv, UploadFails
  PROVE  IInv'
<1>1. /\ Uploading /\ pc' = IF Infinite THEN "loop" ELSE "exit"
      /\ UNCHANGED <<count, salt, produced, file, good, clock, crashes, writeFaults>>
  BY DEF UploadFails, AfterFailure
<1>2. \/ failed' = failed + 1 /\ UNCHANGED <<bucket, ambiguous>>
      \/ ambiguous' = ambiguous + 1 /\ PutObject /\ UNCHANGED failed
  BY DEF UploadFails
<1>3. failed \in Nat /\ ambiguous \in Nat /\ writeFaults \in Nat
  BY DEF IInv, TypeOK
<1>4. Uploaded
  BY <1>1, <1>2, <1>3 DEF Uploaded
<1>5. /\ pc \in {"loop", "rotate"} /\ Infinite' = Infinite /\ Quota' = Quota
      /\ pc' = "exit" => ~Infinite
  BY <1>4, UploadingFacts
<1>6. (TypeOK /\ Fresh /\ BucketProduced)' /\ \A r \in Rows : ObjectsWith(r) # {} => ObjectsWith(r)' # {}
  <2>1. CASE PutObject
    BY <1>4, <2>1, StoringKeeps
  <2>2. CASE UNCHANGED bucket
    <3>1. TypeOK'
      <4>1. (count \in Counts /\ salt \in Salts /\ produced \in 0 .. Quota
             /\ file \subseteq {salt} \X (1 .. produced) /\ clock \in 0 .. MaxClock)'
        BY <1>1, <1>5 DEF IInv, TypeOK
      <4>2. (good \in BOOLEAN)'
        BY <1>1 DEF IInv, TypeOK
      <4>3. (pc \in {"loop", "rotate", "truncate", "exit"} /\ crashes \in Nat
             /\ ambiguous \in Nat /\ failed \in Nat /\ writeFaults \in Nat)'
        BY <1>1, <1>2, <1>3 DEF IInv, TypeOK
      <4>4. QED
        BY <1>5, <2>2, <4>1, <4>2, <4>3 DEF IInv, TypeOK
    <3>2. Fresh'
      BY <1>1, <1>5, <2>2 DEF IInv, Fresh
    <3>3. BucketProduced'
      BY <1>1, <2>2 DEF IInv, BucketProduced, Produced, InThisRun
    <3>4. QED
      BY <2>2, <3>1, <3>2, <3>3 DEF ObjectsWith
  <2>3. QED
    BY <1>2, <2>1, <2>2
<1>7. StreamIntact'
  BY <1>4, StreamIntactKept
<1>8. TruncateSafe' /\ FinishedIsUploaded'
  <2>1. (failed + ambiguous + writeFaults)' # 0
    BY <1>1, <1>2, <1>3
  <2>2. QED
    BY <1>1, <2>1 DEF TruncateSafe, FinishedIsUploaded
<1>9. NoRowLost'
  BY <1>1, <1>6 DEF IInv, NoRowLost, InThisRun
<1>10. (\A r \in Rows : CopiesOf(r))'
  <2>1. ASSUME NEW r \in Rows PROVE CopiesOf(r)'
    <3>1. CopiesOf(r) /\ file' = file
      BY <1>1 DEF IInv
    <3>2. Cardinality(ObjectsWith(r)) \in Nat
      BY ObjectsFinite DEF IInv
    <3>3. CASE UNCHANGED <<bucket, ambiguous>>
      <4>1. ObjectsWith(r)' = ObjectsWith(r)
        BY <3>3 DEF ObjectsWith
      <4>2. r \in file => pc \in {"loop", "rotate"}
        BY <1>5
      <4>3. Cardinality(ObjectsWith(r)) <= ambiguous + IF r \in file THEN 0 ELSE 1
        BY <1>5, <3>1 DEF CopiesOf
      <4>4. CASE Infinite
        BY <1>1, <3>1, <3>3, <4>1, <4>3, <4>4 DEF CopiesOf
      <4>5. CASE ~Infinite
        BY <1>1, <1>3, <3>1, <3>2, <3>3, <4>1, <4>3, <4>5 DEF CopiesOf
      <4>6. QED
        BY <4>4, <4>5
    <3>4. CASE ambiguous' = ambiguous + 1 /\ PutObject
      <4>1. PICK name : Gains(name)
        BY <1>1, <3>4, PutGains
      <4>2. /\ r \notin file => ObjectsWith(r)' = ObjectsWith(r)
            /\ r \in file => Cardinality(ObjectsWith(r)') = Cardinality(ObjectsWith(r)) + 1
        BY <4>1, GainsOne DEF IInv
      <4>3. Cardinality(ObjectsWith(r)') <= ambiguous + 1 /\ Cardinality(ObjectsWith(r)') \in Nat
        BY <1>3, <1>5, <3>1, <3>2, <4>2 DEF CopiesOf
      <4>4. QED
        BY <1>3, <3>4, <4>3 DEF CopiesOf
    <3>5. QED
      BY <1>2, <3>3, <3>4
  <2>2. QED
    BY <2>1
<1>11. QED
  BY <1>5, <1>6, <1>7, <1>8, <1>9, <1>10 DEF IInv

-----------------------------------------------------------------------------
(* The theorems. *)

\* The invariant holds in every state the generator, the bucket and the clock reach.
THEOREM Inductive == Spec => []IInv
<1>1. IInv /\ [Next]_vars => IInv'
  <2> SUFFICES ASSUME IInv, [Next]_vars PROVE IInv'
    OBVIOUS
  <2>1. CASE Next
    BY <2>1, WriteRowKeeps, SkipRotationKeeps, UploadKeeps, UploadFailsKeeps, TruncateKeeps,
       TickKeeps, RestartKeeps DEF Next, Loop
  <2>2. CASE UNCHANGED vars
    <3>1. UNCHANGED <<count, salt, produced, file, good, bucket, clock, pc, crashes, ambiguous,
                      failed, writeFaults>>
      BY <2>2 DEF vars
    <3>2. (TypeOK /\ Fresh /\ BucketProduced /\ TruncateSafe /\ StreamIntact)'
      BY <3>1 DEF IInv, TypeOK, Quota, Fresh, BucketProduced, Produced, InThisRun, TruncateSafe,
                  ObjectsWith, StreamIntact, Infinite
    <3>3. (\A r \in Rows : CopiesOf(r))'
      BY <3>1 DEF IInv, CopiesOf, ObjectsWith
    <3>4. ((pc = "exit" => ~Infinite) /\ NoRowLost /\ FinishedIsUploaded)'
      BY <3>1 DEF IInv, Infinite, NoRowLost, InThisRun, ObjectsWith, FinishedIsUploaded
    <3>5. QED
      BY <3>2, <3>3, <3>4 DEF IInv
  <2>3. QED
    BY <2>1, <2>2
<1>2. QED
  BY <1>1, Initially, PTL DEF Spec

\* The variables keep their types.
THEOREM TypeCorrect == Spec => []TypeOK
<1>1. IInv => TypeOK
  BY DEF IInv
<1>2. QED
  BY <1>1, Inductive, PTL

\* No failed upload loses a row of a run that lives and whose disk takes its writes.
THEOREM RowsKept == Spec => []NoRowLost
<1>1. IInv => NoRowLost
  BY DEF IInv
<1>2. QED
  BY <1>1, Inductive, PTL

\* Only an ambiguous upload makes a copy of a row.
THEOREM CopiesCounted == Spec => []CopiesExplained
<1>1. IInv => CopiesExplained
  <2> SUFFICES ASSUME IInv, NEW r \in Rows PROVE Cardinality(ObjectsWith(r)) <= 1 + ambiguous
    BY DEF CopiesExplained
  <2>1. CopiesOf(r) /\ ambiguous \in Nat /\ Cardinality(ObjectsWith(r)) \in Nat
    BY ObjectsFinite DEF IInv, TypeOK
  <2>2. QED
    BY <2>1 DEF CopiesOf
<1>2. QED
  BY <1>1, Inductive, PTL

\* A run of count rows that met no fault leaves them in one object.
THEOREM AllUploaded == Spec => []FinishedIsUploaded
<1>1. IInv => FinishedIsUploaded
  BY DEF IInv
<1>2. QED
  BY <1>1, Inductive, PTL

\* The bucket loses and changes no object.
Kept == \A n \in DOMAIN bucket : n \in DOMAIN bucket' /\ bucket'[n] = bucket[n]

\* No upload overwrites an object, whatever the clock does.
THEOREM NothingOverwritten == Spec => ObjectsImmutable
<1>1. IInv /\ [Next]_vars => Kept
  <2> SUFFICES ASSUME IInv, [Next]_vars PROVE Kept
    OBVIOUS
  <2>1. CASE Uploading /\ PutObject
    BY <2>1, PutGains DEF Gains, Kept
  <2>2. CASE UNCHANGED bucket
    BY <2>2 DEF Kept
  <2>3. QED
    BY <2>1, <2>2 DEF Next, Loop, WriteRow, SkipRotation, Upload, UploadFails, Truncate, Tick,
                      Restart, vars
<1>2. Spec => [][Kept]_vars
  BY <1>1, Inductive, PTL DEF Spec
<1>3. QED
  BY <1>2, PTL DEF ObjectsImmutable, Kept

-----------------------------------------------------------------------------
(* What an endless run can lose. The file holds a chunk: rows produced since  *)
(* row k * RotateEvery, at the end of which the last upload was reported as   *)
(* done. Every rotation point that the chunk has passed is a failed upload.   *)
(* While the stream is good nothing of the chunk is lost; after a failed      *)
(* write, which is one of writeFaults, no more than the chunk is.             *)

LostBefore(k) == {r \in Lost : r[2] <= k * RotateEvery}

Chunk(k) ==
  /\ k * RotateEvery <= produced /\ produced <= k * RotateEvery + Interval
  /\ pc = "loop" => produced < k * RotateEvery + Interval
  /\ file \subseteq {salt} \X ((k * RotateEvery + 1) .. produced)
  /\ good => Cardinality(Lost) <= writeFaults * Interval
  /\ ~good => /\ writeFaults > 0
              /\ Cardinality(LostBefore(k)) <= (writeFaults - 1) * Interval

LossInv ==
  /\ pc = "truncate" => produced % RotateEvery = 0
  /\ \E k \in Nat : Chunk(k)

LEMMA SliceSize ==
  ASSUME NEW a \in Nat, NEW b \in Nat, a <= b, NEW s
  PROVE  /\ IsFiniteSet({s} \X ((a + 1) .. b))
         /\ Cardinality({s} \X ((a + 1) .. b)) = b - a
<1> DEFINE first == a + 1
           slice == first .. b
<1>1. first \in Int /\ b \in Int /\ (first > b => b - a = 0) /\ b - first + 1 = b - a
  OBVIOUS
<1> HIDE DEF first
<1>2. IsFiniteSet(slice) /\ Cardinality(slice) = b - a
  BY <1>1, FS_Interval
<1>3. IsFiniteSet({s}) /\ Cardinality({s}) = 1
  BY FS_Singleton
<1> HIDE DEF slice
<1>4. /\ IsFiniteSet({s} \X slice)
      /\ Cardinality({s} \X slice) = Cardinality({s}) * Cardinality(slice)
  BY <1>2, <1>3, FS_Product, Zenon
<1>5. 1 * (b - a) = b - a
  OBVIOUS
<1>6. {s} \X slice = {s} \X ((a + 1) .. b)
  BY DEF slice, first
<1>7. QED
  BY <1>2, <1>3, <1>4, <1>5, <1>6, Zenon

LEMMA Numbers ==
  ASSUME IInv
  PROVE  /\ RotateEvery \in Nat \ {0} /\ produced \in Nat /\ salt \in Nat
         /\ failed \in Nat /\ ambiguous \in Nat /\ writeFaults \in Nat
         /\ Interval \in Nat /\ RotateEvery <= Interval
<1>1. /\ RotateEvery \in Nat \ {0} /\ produced \in Nat /\ salt \in Nat
      /\ failed \in Nat /\ ambiguous \in Nat /\ writeFaults \in Nat
  BY CsvAssumption, TypedRows DEF IInv, TypeOK
<1> DEFINE F == failed + ambiguous
<1>2. F \in Nat /\ Interval = RotateEvery * (1 + F)
  BY <1>1 DEF Interval
<1> HIDE DEF F
<1>3. RotateEvery * (1 + F) = RotateEvery + RotateEvery * F /\ RotateEvery * F \in Nat
  BY <1>1, <1>2
<1>4. QED
  BY <1>1, <1>2, <1>3

LEMMA LostFinite ==
  ASSUME IInv, NEW S, S \subseteq Lost
  PROVE  IsFiniteSet(S) /\ Cardinality(S) \in Nat /\ Cardinality(S) <= Cardinality(Lost)
<1>1. produced \in Nat /\ 0 \in Nat
  BY Numbers
<1>2. Lost \subseteq {salt} \X ((0 + 1) .. produced)
  BY <1>1 DEF Lost, InThisRun, Rows
<1>3. 0 <= produced
  BY <1>1
<1>4. IsFiniteSet({salt} \X ((0 + 1) .. produced))
  BY <1>1, <1>3, SliceSize
<1>5. IsFiniteSet(Lost)
  BY <1>2, <1>4, FS_Subset
<1>6. QED
  BY <1>5, FS_Subset, FS_CardinalityType

LEMMA ProductGrows ==
  ASSUME NEW a \in Nat, NEW b \in Nat, a <= b, NEW w \in Nat
  PROVE  w * a <= w * b /\ w * a \in Nat /\ w * b \in Nat
OBVIOUS

\* A step that writes nothing: it may end an interval, store objects, count a
\* failed upload.
LEMMA NothingWritten ==
  ASSUME IInv, NEW k \in Nat, Chunk(k),
         UNCHANGED <<salt, produced, file, good, writeFaults>>,
         Lost' \subseteq Lost, Interval' \in Nat, Interval <= Interval',
         pc' = "loop" => produced < k * RotateEvery + Interval'
  PROVE  Chunk(k)'
<1>1. /\ Cardinality(Lost') <= Cardinality(Lost) /\ Cardinality(Lost') \in Nat
      /\ Cardinality(Lost) \in Nat
  BY LostFinite
<1>2. /\ Interval \in Nat /\ writeFaults \in Nat /\ produced \in Nat
      /\ k * RotateEvery \in Nat
  BY Numbers
<1>3. LostBefore(k)' \subseteq LostBefore(k) /\ LostBefore(k) \subseteq Lost
  BY DEF LostBefore
<1>4. IsFiniteSet(LostBefore(k)) /\ Cardinality(LostBefore(k)) \in Nat
  BY <1>3, LostFinite
<1>5. Cardinality(LostBefore(k)') <= Cardinality(LostBefore(k))
      /\ Cardinality(LostBefore(k)') \in Nat
  BY <1>3, <1>4, FS_Subset, FS_CardinalityType
<1>6. good => Cardinality(Lost') <= writeFaults * Interval'
  <2>1. writeFaults * Interval <= writeFaults * Interval'
        /\ writeFaults * Interval \in Nat /\ writeFaults * Interval' \in Nat
    BY <1>2, ProductGrows
  <2>2. QED
    BY <1>1, <2>1 DEF Chunk
<1>7. ~good => Cardinality(LostBefore(k)') <= (writeFaults - 1) * Interval'
  <2>1. ASSUME ~good PROVE writeFaults - 1 \in Nat
    BY <1>2, <2>1 DEF Chunk
  <2>2. ASSUME ~good
        PROVE  (writeFaults - 1) * Interval <= (writeFaults - 1) * Interval'
               /\ (writeFaults - 1) * Interval \in Nat /\ (writeFaults - 1) * Interval' \in Nat
    BY <1>2, <2>1, <2>2, ProductGrows
  <2>3. ASSUME ~good PROVE Cardinality(LostBefore(k)) <= (writeFaults - 1) * Interval
    BY <2>3 DEF Chunk
  <2>4. QED
    BY <1>4, <1>5, <2>2, <2>3
<1>8. produced <= k * RotateEvery + Interval'
  BY <1>2 DEF Chunk
<1>9. QED
  BY <1>6, <1>7, <1>8 DEF Chunk

LEMMA MultipleDivides ==
  ASSUME NEW n \in Nat, NEW d \in Nat \ {0}
  PROVE  (n * d) % d = 0
OBVIOUS

LEMMA SkipRotationLoss ==
  ASSUME IInv, Infinite, LossInv, SkipRotation
  PROVE  LossInv'
<1>1. PICK k \in Nat : Chunk(k)
  BY DEF LossInv
<1>2. /\ pc = "rotate" /\ pc' = "loop" /\ produced % RotateEvery # 0
      /\ UNCHANGED <<salt, produced, file, good, bucket, failed, ambiguous, writeFaults>>
  BY DEF SkipRotation, RotateDue, faults
<1>3. Lost' = Lost /\ Interval' = Interval
  BY <1>2 DEF Lost, InThisRun, ObjectsWith, Interval
<1>4. produced # k * RotateEvery + Interval
  <2> DEFINE m == k + 1 + failed + ambiguous
  <2>1. m \in Nat /\ k * RotateEvery + Interval = m * RotateEvery
    <3> DEFINE F == 1 + failed + ambiguous
    <3>1. F \in Nat /\ Interval = RotateEvery * F /\ m = k + F
      BY Numbers DEF Interval
    <3> HIDE DEF F, m
    <3>2. k * RotateEvery + RotateEvery * F = (k + F) * RotateEvery
      BY <3>1, Numbers
    <3>3. QED
      BY <3>1, <3>2
  <2> HIDE DEF m
  <2>2. (m * RotateEvery) % RotateEvery = 0
    BY <2>1, Numbers, MultipleDivides
  <2>3. ASSUME produced = m * RotateEvery PROVE FALSE
    <3>1. produced % RotateEvery = (m * RotateEvery) % RotateEvery
      BY <2>3, Zenon
    <3>2. QED
      BY <1>2, <2>2, <3>1, Zenon
  <2>4. QED
    BY <2>1, <2>3
<1>5. produced < k * RotateEvery + Interval
  <2>1. k * RotateEvery \in Nat /\ Interval \in Nat /\ produced \in Nat
    BY Numbers
  <2>2. produced <= k * RotateEvery + Interval
    BY <1>1 DEF Chunk
  <2>3. QED
    BY <1>4, <2>1, <2>2
<1>6. Chunk(k)'
  BY <1>1, <1>2, <1>3, <1>5, Numbers, NothingWritten
<1>7. QED
  BY <1>2, <1>6 DEF LossInv

LEMMA UploadLoss ==
  ASSUME IInv, Infinite, LossInv, Upload \/ UploadFails
  PROVE  LossInv'
<1>1. PICK k \in Nat : Chunk(k)
  BY DEF LossInv
<1>2. /\ Uploading
      /\ PutObject \/ UNCHANGED bucket
      /\ UNCHANGED <<salt, produced, file, good, writeFaults>>
      /\ \/ pc' = "truncate" /\ UNCHANGED <<failed, ambiguous>>
         \/ pc' = "loop" /\ failed' + ambiguous' = failed + ambiguous + 1
                         /\ failed' \in Nat /\ ambiguous' \in Nat
  BY Numbers DEF Upload, UploadFails, AfterSuccess, AfterFailure, faults
<1>3. produced % RotateEvery = 0
  BY <1>2 DEF Uploading, RotateDue, Final
<1>4. Lost' \subseteq Lost
  <2>1. \A r \in Rows : ObjectsWith(r) # {} => ObjectsWith(r)' # {}
    <3>1. CASE UNCHANGED bucket
      BY <3>1 DEF ObjectsWith
    <3>2. CASE PutObject
      BY <1>2, <3>2, PutGains DEF Gains, ObjectsWith
    <3>3. QED
      BY <1>2, <3>1, <3>2
  <2>2. QED
    BY <1>2, <2>1 DEF Lost, InThisRun
<1>5. /\ Interval' \in Nat /\ Interval <= Interval'
      /\ pc' = "loop" => Interval < Interval'
  <2> DEFINE F == 1 + failed + ambiguous
  <2>1. F \in Nat /\ Interval = RotateEvery * F
    BY Numbers DEF Interval
  <2>2. CASE pc' = "truncate" /\ UNCHANGED <<failed, ambiguous>>
    <3>1. Interval' = Interval /\ Interval \in Nat
      BY <2>2, Numbers DEF Interval
    <3>2. QED
      BY <2>2, <3>1
  <2>3. CASE failed' + ambiguous' = failed + ambiguous + 1 /\ failed' \in Nat /\ ambiguous' \in Nat
    <3>1. Interval' = RotateEvery * (F + 1)
      <4>1. 1 + failed' + ambiguous' = F + 1
        BY <2>3, Numbers
      <4>2. QED
        BY <4>1 DEF Interval
    <3> HIDE DEF F
    <3>2. RotateEvery * (F + 1) = RotateEvery * F + RotateEvery /\ RotateEvery * F \in Nat
      BY <2>1, Numbers
    <3>3. QED
      BY <2>1, <3>1, <3>2, Numbers
  <2>4. QED
    BY <1>2, <2>2, <2>3
<1>6. pc' = "loop" => produced < k * RotateEvery + Interval'
  BY <1>1, <1>5, Numbers DEF Chunk
<1>7. Chunk(k)'
  BY <1>1, <1>2, <1>4, <1>5, <1>6, NothingWritten
<1>8. QED
  BY <1>2, <1>3, <1>7 DEF LossInv

LEMMA WriteRowLoss ==
  ASSUME IInv, Infinite, LossInv, WriteRow
  PROVE  LossInv'
<1>1. PICK k \in Nat : Chunk(k)
  BY DEF LossInv
<1> DEFINE new == <<salt, produced + 1>>
<1>2. /\ pc = "loop" /\ pc' = "rotate" /\ produced' = produced + 1
      /\ UNCHANGED <<salt, bucket, failed, ambiguous>>
  BY DEF WriteRow
<1>3. Interval' = Interval
  BY <1>2 DEF Interval
<1>4. /\ k * RotateEvery \in Nat /\ produced \in Nat /\ Interval \in Nat /\ salt \in Nat
      /\ writeFaults \in Nat
  BY Numbers
<1>5. /\ k * RotateEvery <= produced /\ produced < k * RotateEvery + Interval
      /\ file \subseteq {salt} \X ((k * RotateEvery + 1) .. produced)
  BY <1>1, <1>2 DEF Chunk
<1>6. /\ k * RotateEvery <= produced' /\ produced' <= k * RotateEvery + Interval
      /\ file \cup {new} \subseteq {salt} \X ((k * RotateEvery + 1) .. produced')
  BY <1>2, <1>4, <1>5
<1>7. \A r : ObjectsWith(r)' = ObjectsWith(r)
  BY <1>2 DEF ObjectsWith
<1>8. \A r \in Rows : InThisRun(r)' => r = new \/ InThisRun(r)
  BY <1>2, <1>4 DEF InThisRun, Rows
<1>9. CASE good /\ file' = file \cup {new} /\ UNCHANGED <<good, writeFaults>>
  <2>1. Lost' \subseteq Lost
    BY <1>7, <1>8, <1>9 DEF Lost
  <2>2. Cardinality(Lost') <= Cardinality(Lost) /\ Cardinality(Lost') \in Nat
        /\ Cardinality(Lost) \in Nat
    BY <2>1, LostFinite
  <2>3. Cardinality(Lost) <= writeFaults * Interval /\ writeFaults * Interval \in Nat
    BY <1>1, <1>4, <1>9 DEF Chunk
  <2>4. Cardinality(Lost') <= writeFaults * Interval
    BY <2>2, <2>3
  <2>5. Chunk(k)'
    BY <1>2, <1>3, <1>6, <1>9, <2>4 DEF Chunk
  <2>6. QED
    BY <1>2, <2>5 DEF LossInv
<1>10. CASE /\ good /\ good' = FALSE /\ writeFaults' = writeFaults + 1
            /\ file' \subseteq file
  <2>1. LostBefore(k)' \subseteq Lost
    <3>1. ASSUME NEW r \in LostBefore(k)' PROVE r \in Lost
      <4>1. r \in Rows /\ InThisRun(r)' /\ ObjectsWith(r) = {} /\ r[2] <= k * RotateEvery
        BY <1>7, <3>1 DEF LostBefore, Lost
      <4>2. r # new /\ r \notin file
        BY <1>4, <1>5, <4>1 DEF Rows
      <4>3. QED
        BY <1>8, <4>1, <4>2 DEF Lost
    <3>2. QED
      BY <3>1
  <2>2. Cardinality(LostBefore(k)') <= Cardinality(Lost)
        /\ Cardinality(LostBefore(k)') \in Nat /\ Cardinality(Lost) \in Nat
    BY <2>1, LostFinite
  <2>3. Cardinality(Lost) <= writeFaults * Interval /\ writeFaults * Interval \in Nat
    BY <1>1, <1>4, <1>10 DEF Chunk
  <2>4. writeFaults' > 0 /\ writeFaults' - 1 = writeFaults
    BY <1>4, <1>10
  <2>5. Cardinality(LostBefore(k)') <= (writeFaults' - 1) * Interval
    BY <2>2, <2>3, <2>4
  <2>6. file' \subseteq {salt} \X ((k * RotateEvery + 1) .. produced')
    BY <1>6, <1>10
  <2>7. Chunk(k)'
    BY <1>2, <1>3, <1>6, <1>10, <2>4, <2>5, <2>6 DEF Chunk
  <2>8. QED
    BY <1>2, <2>7 DEF LossInv
<1>11. CASE ~good /\ UNCHANGED <<file, good, writeFaults>>
  <2>1. LostBefore(k)' \subseteq LostBefore(k)
    <3>1. ASSUME NEW r \in LostBefore(k)' PROVE r \in LostBefore(k)
      <4>1. /\ r \in Rows /\ InThisRun(r)' /\ ObjectsWith(r) = {} /\ r[2] <= k * RotateEvery
            /\ r \notin file
        BY <1>7, <1>11, <3>1 DEF LostBefore, Lost
      <4>2. r # new
        BY <1>4, <1>5, <4>1 DEF Rows
      <4>3. QED
        BY <1>8, <4>1, <4>2 DEF Lost, LostBefore
    <3>2. QED
      BY <3>1
  <2>2. LostBefore(k) \subseteq Lost
    BY DEF LostBefore
  <2>3. IsFiniteSet(LostBefore(k)) /\ Cardinality(LostBefore(k)) \in Nat
    BY <2>2, LostFinite
  <2>4. Cardinality(LostBefore(k)') <= Cardinality(LostBefore(k))
        /\ Cardinality(LostBefore(k)') \in Nat
    BY <2>1, <2>3, FS_Subset, FS_CardinalityType
  <2>5. writeFaults > 0 /\ Cardinality(LostBefore(k)) <= (writeFaults - 1) * Interval
        /\ (writeFaults - 1) * Interval \in Int
    BY <1>1, <1>4, <1>11 DEF Chunk
  <2>6. Cardinality(LostBefore(k)') <= (writeFaults - 1) * Interval
    BY <2>3, <2>4, <2>5
  <2>7. Chunk(k)'
    BY <1>2, <1>3, <1>6, <1>11, <2>5, <2>6 DEF Chunk
  <2>8. QED
    BY <1>2, <2>7 DEF LossInv
<1>12. QED
  BY <1>9, <1>10, <1>11 DEF WriteRow

\* All that a chunk can lose is the chunk.
LEMMA ChunkLoss ==
  ASSUME IInv, NEW k \in Nat, Chunk(k)
  PROVE  Cardinality(file) <= Interval /\ Cardinality(Lost) <= writeFaults * Interval
<1> DEFINE rows == {salt} \X ((k * RotateEvery + 1) .. produced)
<1>1. /\ k * RotateEvery \in Nat /\ produced \in Nat /\ Interval \in Nat /\ writeFaults \in Nat
  BY Numbers
<1>2. /\ IsFiniteSet(rows) /\ Cardinality(rows) = produced - k * RotateEvery
      /\ Cardinality(rows) <= Interval /\ Cardinality(rows) \in Nat
  <2>1. k * RotateEvery <= produced /\ produced <= k * RotateEvery + Interval
    BY DEF Chunk
  <2>2. IsFiniteSet(rows) /\ Cardinality(rows) = produced - k * RotateEvery
    BY <1>1, <2>1, SliceSize
  <2>3. QED
    BY <1>1, <2>1, <2>2
<1>3. Cardinality(file) <= Interval
  <2>1. file \subseteq rows
    BY DEF Chunk
  <2>2. Cardinality(file) <= Cardinality(rows) /\ Cardinality(file) \in Nat
    BY <1>2, <2>1, FS_Subset, FS_CardinalityType
  <2>3. QED
    BY <1>1, <1>2, <2>2
<1>4. CASE good
  BY <1>3, <1>4 DEF Chunk
<1>5. CASE ~good
  <2>1. Lost \subseteq LostBefore(k) \cup rows
    <3>1. ASSUME NEW r \in Lost, ~(r[2] <= k * RotateEvery) PROVE r \in rows
      <4>1. r \in Rows /\ r[1] = salt /\ r[2] <= produced
        BY <3>1 DEF Lost, InThisRun
      <4>2. QED
        BY <1>1, <3>1, <4>1 DEF Rows
    <3>2. QED
      BY <3>1 DEF LostBefore
  <2>2. IsFiniteSet(LostBefore(k)) /\ Cardinality(LostBefore(k)) \in Nat
    BY LostFinite DEF LostBefore
  <2>3. /\ IsFiniteSet(LostBefore(k) \cup rows)
        /\ Cardinality(LostBefore(k) \cup rows) <= Cardinality(LostBefore(k)) + Cardinality(rows)
    <3> HIDE DEF rows
    <3>1. /\ IsFiniteSet(LostBefore(k) \cup rows)
          /\ Cardinality(LostBefore(k) \cup rows) =
               Cardinality(LostBefore(k)) + Cardinality(rows)
                 - Cardinality(LostBefore(k) \cap rows)
      BY <1>2, <2>2, FS_Union
    <3>2. Cardinality(LostBefore(k) \cap rows) \in Nat
      BY <2>2, FS_Intersection, FS_CardinalityType
    <3>3. QED
      BY <1>2, <2>2, <3>1, <3>2
  <2>4. /\ Cardinality(Lost) <= Cardinality(LostBefore(k) \cup rows)
        /\ Cardinality(Lost) \in Nat /\ Cardinality(LostBefore(k) \cup rows) \in Nat
    BY <2>1, <2>3, FS_Subset, FS_CardinalityType
  <2>5. writeFaults > 0 /\ Cardinality(LostBefore(k)) <= (writeFaults - 1) * Interval
    BY <1>5 DEF Chunk
  <2>6. (writeFaults - 1) * Interval + Interval = writeFaults * Interval
        /\ (writeFaults - 1) * Interval \in Nat
    <3> DEFINE w == writeFaults - 1
    <3>1. w \in Nat /\ writeFaults = w + 1
      BY <1>1, <2>5
    <3> HIDE DEF w
    <3>2. (w + 1) * Interval = w * Interval + Interval /\ w * Interval \in Nat
      BY <1>1, <3>1
    <3>3. QED
      BY <3>1, <3>2 DEF w
  <2> HIDE DEF rows
  <2>7. Cardinality(Lost) <= (writeFaults - 1) * Interval + Interval
    BY <1>1, <1>2, <2>2, <2>3, <2>4, <2>5, <2>6
  <2>8. QED
    BY <1>3, <2>6, <2>7
<1>6. QED
  BY <1>4, <1>5

LEMMA TruncateLoss ==
  ASSUME IInv, Infinite, LossInv, Truncate
  PROVE  LossInv'
<1>1. PICK k \in Nat : Chunk(k)
  BY DEF LossInv
<1>2. /\ pc = "truncate" /\ pc' = "loop" /\ file' = {} /\ good' = TRUE
      /\ UNCHANGED <<salt, produced, bucket, failed, ambiguous, writeFaults>>
  BY DEF Truncate, Opened, faults
<1>3. Interval' = Interval /\ Interval \in Nat /\ 0 < Interval /\ produced \in Nat
  BY <1>2, Numbers DEF Interval
<1>4. Lost' \subseteq Lost
  <2>1. \A r \in file : ObjectsWith(r) # {}
    BY <1>2 DEF IInv, TruncateSafe
  <2>2. QED
    BY <1>2, <2>1 DEF Lost, InThisRun, ObjectsWith
<1>5. Cardinality(Lost') <= writeFaults * Interval
  <2>1. /\ Cardinality(Lost') <= Cardinality(Lost) /\ Cardinality(Lost') \in Nat
        /\ Cardinality(Lost) \in Nat
    BY <1>4, LostFinite
  <2>2. Cardinality(Lost) <= writeFaults * Interval /\ writeFaults * Interval \in Nat
    BY <1>1, ChunkLoss, Numbers
  <2>3. QED
    BY <2>1, <2>2
<1>6. PICK j \in Nat : produced = j * RotateEvery
  <2>1. produced % RotateEvery = 0
    BY <1>2 DEF LossInv
  <2>2. produced = (produced \div RotateEvery) * RotateEvery /\ produced \div RotateEvery \in Nat
    BY <2>1, Numbers
  <2>3. QED
    BY <2>2
<1>7. Chunk(j)'
  BY <1>2, <1>3, <1>5, <1>6 DEF Chunk
<1>8. QED
  BY <1>2, <1>7 DEF LossInv

\* A new run has produced nothing and lost nothing of its own.
LEMMA StartLoss ==
  ASSUME TypeOK, Interval \in Nat, 0 < Interval, produced = 0, file = {}, good = TRUE,
         pc = "loop"
  PROVE  LossInv
<1>1. Lost = {} /\ writeFaults * Interval \in Nat
  BY DEF Lost, InThisRun, Rows, TypeOK
<1>2. Cardinality(Lost) = 0
  BY <1>1, FS_EmptySet
<1>3. 0 * RotateEvery = 0
  BY CsvAssumption
<1>4. Chunk(0)
  BY <1>1, <1>2, <1>3 DEF Chunk
<1>5. QED
  BY <1>4 DEF LossInv

LEMMA RestartLoss ==
  ASSUME IInv, Restart
  PROVE  LossInv'
<1>1. /\ produced' = 0 /\ file' = {} /\ good' = TRUE /\ pc' = "loop"
      /\ UNCHANGED <<failed, ambiguous, writeFaults>>
  BY DEF Restart, Opened
<1>2. Interval' = Interval /\ Interval \in Nat /\ 0 < Interval /\ writeFaults \in Nat
  BY <1>1, Numbers DEF Interval
<1>3. Lost' = {} /\ writeFaults * Interval \in Nat
  BY <1>1, <1>2 DEF Lost, InThisRun, Rows
<1>4. Cardinality(Lost') = 0
  BY <1>3, FS_EmptySet
<1>5. 0 * RotateEvery = 0
  BY CsvAssumption
<1>6. Chunk(0)'
  BY <1>1, <1>2, <1>3, <1>4, <1>5 DEF Chunk
<1>7. QED
  BY <1>1, <1>6 DEF LossInv

\* A crash of an endless run loses no more rows than an interval and one for each
\* failed upload, and a failed write no more than that either.
THEOREM LossIsBounded == Spec => []LossBounded
<1> DEFINE Inv == Infinite => LossInv
<1>1. Init => Inv
  <2> SUFFICES ASSUME Init PROVE LossInv
    OBVIOUS
  <2>1. IInv /\ produced = 0 /\ file = {} /\ good = TRUE /\ pc = "loop"
    BY Initially DEF Init
  <2>2. Interval \in Nat /\ 0 < Interval
    BY <2>1, Numbers
  <2>3. QED
    BY <2>1, <2>2, StartLoss DEF IInv
<1>2. IInv /\ Inv /\ [Next]_vars => Inv'
  <2> SUFFICES ASSUME IInv, Inv, [Next]_vars, Infinite' PROVE LossInv'
    OBVIOUS
  <2>1. Infinite
    BY DEF Infinite, Next, Loop, WriteRow, SkipRotation, Upload, UploadFails, Truncate, Tick,
           Restart, vars
  <2>2. LossInv
    BY <2>1
  <2>3. CASE Tick \/ UNCHANGED vars
    <3>1. UNCHANGED <<salt, produced, file, good, bucket, pc, failed, ambiguous, writeFaults>>
      BY <2>3 DEF Tick, vars, faults
    <3>2. Lost' = Lost /\ Interval' = Interval
      BY <3>1 DEF Lost, InThisRun, ObjectsWith, Interval
    <3>3. QED
      BY <2>2, <3>1, <3>2 DEF LossInv, Chunk, LostBefore
  <2>4. CASE Loop
    BY <2>1, <2>2, <2>4, WriteRowLoss, SkipRotationLoss, UploadLoss, TruncateLoss DEF Loop
  <2>5. CASE Restart
    BY <2>5, RestartLoss
  <2>6. QED
    BY <2>3, <2>4, <2>5 DEF Next
<1>3. IInv /\ Inv => LossBounded
  BY ChunkLoss DEF LossInv, LossBounded
<1> HIDE DEF Inv
<1>4. QED
  BY <1>1, <1>2, <1>3, Inductive, PTL DEF Spec
=============================================================================
