---------------------------- MODULE CsvRotation ----------------------------
(***************************************************************************)
(* The csv sink of the generator, generator/src/main.cpp: rows are written *)
(* to a local file, which is uploaded to the MinIO bucket and started      *)
(* again, every RotateEvery rows (--count 0) or once at the end.           *)
(*                                                                         *)
(* The upload is a child process ("mc cp"): its exit status says less than *)
(* what it did. The process itself may die at any point and be started     *)
(* again by docker-compose (restart: unless-stopped); the local file is    *)
(* then truncated, whatever it held.                                       *)
(*                                                                         *)
(* A definition named X_Y is X with the defect Y: no action uses it; it is *)
(* there to show that the properties tell X from it.                       *)
(***************************************************************************)
EXTENDS Integers, FiniteSets

CONSTANTS
  Counts,        \* values of a.count; 0 = produce for ever
  RotateEvery,   \* MINIO_ROTATE_EVERY
  MaxRuns,       \* bound on the number of times the generator is started
  MaxProduced,   \* bound on the rows of a run
  MaxClock,      \* bound on the clock, in seconds
  MaxFaults      \* bound on the number of failed uploads and failed writes

ASSUME CsvAssumption ==
  /\ Counts \subseteq 0 .. MaxProduced /\ RotateEvery \in Nat \ {0}
  /\ MaxRuns \in Nat \ {0} /\ MaxProduced \in Nat /\ MaxClock \in Nat /\ MaxFaults \in Nat

\* Row n of run s; run_salt is drawn anew by every run and tells the runs apart.
Salts == 1 .. MaxRuns
Rows == Salts \X (1 .. MaxProduced)

VARIABLES
  count,     \* a.count, which restarts do not change
  salt,      \* the current run
  produced,  \* produced
  file,      \* the rows of csv_path
  good,      \* csv.good(): a failed write makes the stream drop what follows
  bucket,    \* [names of objects -> SUBSET Rows]
  clock,     \* now_ts(): seconds
  pc,        \* "loop", "rotate" (after a row), "truncate" (after an upload), "exit"
  crashes, ambiguous, failed, writeFaults   \* faults so far, by kind

vars == <<count, salt, produced, file, good, bucket, clock, pc,
          crashes, ambiguous, failed, writeFaults>>
faults == <<crashes, ambiguous, failed, writeFaults>>

Infinite == count = 0
Quota == IF Infinite THEN MaxProduced ELSE count

Init ==
  /\ count \in Counts
  /\ salt = 1 /\ produced = 0
  /\ file = {} /\ good = TRUE
  /\ bucket = [n \in {} |-> {}]
  /\ clock = 0
  /\ pc = "loop"
  /\ crashes = 0 /\ ambiguous = 0 /\ failed = 0 /\ writeFaults = 0

FaultsLeft == ambiguous + failed + writeFaults < MaxFaults

Tick ==
  /\ clock < MaxClock
  /\ clock' = clock + 1
  /\ UNCHANGED <<count, salt, produced, file, good, bucket, pc, faults>>

-----------------------------------------------------------------------------
(* The loop of main. *)

\* A row is produced and written. A write that fails loses the rows still in the
\* buffer of the stream and makes it drop all that follow; no one looks.
WriteRow ==
  /\ pc = "loop" /\ produced < Quota
  /\ produced' = produced + 1
  /\ pc' = "rotate"
  /\ \/ /\ good
        /\ file' = file \cup {<<salt, produced + 1>>}
        /\ UNCHANGED <<good, writeFaults>>
     \/ /\ good /\ FaultsLeft
        /\ good' = FALSE
        /\ writeFaults' = writeFaults + 1
        /\ \E n \in 0 .. produced : file' = {r \in file : r[2] <= n}
     \/ /\ ~good
        /\ UNCHANGED <<file, good, writeFaults>>
  /\ UNCHANGED <<count, salt, bucket, clock, crashes, ambiguous, failed>>

\* maybe_upload_rotate(false): whether this row completes a chunk.
RotateDue_Once == Infinite /\ produced = RotateEvery
RotateDue == Infinite /\ produced % RotateEvery = 0

SkipRotation ==
  /\ pc = "rotate" /\ ~RotateDue
  /\ pc' = "loop"
  /\ UNCHANGED <<count, salt, produced, file, good, bucket, clock, faults>>

\* maybe_upload_rotate(true), after the loop; a run without a count never gets
\* there.
Final_Early == ~Infinite /\ pc = "loop" /\ produced + 1 >= count
Final == ~Infinite /\ pc = "loop" /\ produced = count
Uploading == (pc = "rotate" /\ RotateDue) \/ Final

\* The name of the object: seconds, in the rotating mode also produced, and salt.
ObjectName_NoCount == <<clock, 0, salt>>
ObjectName == <<clock, IF Infinite THEN produced ELSE 0, salt>>

PutObject == bucket' = [n \in DOMAIN bucket \cup {ObjectName} |->
                          IF n = ObjectName THEN file ELSE bucket[n]]

AfterSuccess == IF Infinite THEN "truncate" ELSE "exit"
AfterFailure_Truncates == IF Infinite THEN "truncate" ELSE "exit"
AfterFailure == IF Infinite THEN "loop" ELSE "exit"

Upload ==
  /\ Uploading
  /\ PutObject
  /\ pc' = AfterSuccess
  /\ UNCHANGED <<count, salt, produced, file, good, clock, faults>>

\* mc exits with an error: nothing was stored, or the object was and only the
\* answer is missing.
UploadFails ==
  /\ Uploading /\ FaultsLeft
  /\ \/ /\ failed' = failed + 1
        /\ UNCHANGED <<bucket, ambiguous>>
     \/ /\ ambiguous' = ambiguous + 1
        /\ PutObject
        /\ UNCHANGED failed
  /\ pc' = AfterFailure
  /\ UNCHANGED <<count, salt, produced, file, good, clock, crashes, writeFaults>>

\* After a successful upload the file is closed and opened again with ios::trunc:
\* it is empty and the state of the stream is clear.
Opened_Appends == file
Opened == {}

Truncate ==
  /\ pc = "truncate"
  /\ file' = Opened /\ good' = TRUE
  /\ pc' = "loop"
  /\ UNCHANGED <<count, salt, produced, bucket, clock, faults>>

\* The process dies, or ends, and is started again with a new salt: the file is
\* truncated by the first open.
Restart ==
  /\ salt < MaxRuns
  /\ salt' = salt + 1
  /\ crashes' = IF pc = "exit" THEN crashes ELSE crashes + 1
  /\ produced' = 0
  /\ file' = Opened /\ good' = TRUE
  /\ pc' = "loop"
  /\ UNCHANGED <<count, bucket, clock, ambiguous, failed, writeFaults>>

Loop == WriteRow \/ SkipRotation \/ Upload \/ UploadFails \/ Truncate
Next == Loop \/ Tick \/ Restart

Spec == Init /\ [][Next]_vars
FairSpec == Spec /\ WF_vars(Loop)

-----------------------------------------------------------------------------
(* Properties. *)

TypeOK ==
  /\ count \in Counts
  /\ salt \in Salts /\ produced \in 0 .. Quota
  /\ file \subseteq {salt} \X (1 .. produced)
  /\ good \in BOOLEAN
  /\ DOMAIN bucket \subseteq (0 .. MaxClock) \X (0 .. Quota) \X Salts
  /\ \A n \in DOMAIN bucket : bucket[n] \subseteq {n[3]} \X (1 .. Quota)
  /\ clock \in 0 .. MaxClock
  /\ pc \in {"loop", "rotate", "truncate", "exit"}
  /\ crashes \in Nat /\ ambiguous \in Nat /\ failed \in Nat /\ writeFaults \in Nat

ObjectsWith(r) == {n \in DOMAIN bucket : r \in bucket[n]}
InThisRun(r) == r[1] = salt /\ r[2] <= produced

\* While the process lives and its disk takes what it writes, no failed upload
\* loses a row: what the run produced is in its file or in an object.
NoRowLost ==
  writeFaults = 0 =>
    \A r \in Rows : InThisRun(r) => r \in file \/ ObjectsWith(r) # {}

\* A row is in a second object only after an upload that stored its object and
\* reported a failure; every such upload adds one at most.
CopiesExplained == \A r \in Rows : Cardinality(ObjectsWith(r)) <= 1 + ambiguous

\* What an endless run can lose is bounded. A crash loses the local file, which
\* holds the rows since the last upload that was reported as done: one interval of
\* rotation, and one more for each upload that failed. A failed write loses the
\* rows up to the next such upload, no more: the stream is opened anew.
Interval == RotateEvery * (1 + failed + ambiguous)
Lost == {r \in Rows : InThisRun(r) /\ r \notin file /\ ObjectsWith(r) = {}}

LossBounded ==
  Infinite =>
    /\ Cardinality(file) <= Interval
    /\ Cardinality(Lost) <= writeFaults * Interval

\* An object never changes once it is stored. DAG 01 relies on it: it never looks
\* at an object again whose name it has marked, nor compares ETags.
ObjectsImmutable ==
  [][\A n \in DOMAIN bucket : n \in DOMAIN bucket' /\ bucket'[n] = bucket[n]]_vars

\* A failed upload is made up for by a later one: a row of an endless run is
\* uploaded in the end, if the run lives and goes on to so many rotations that one
\* of them does not fail. The rows of the last chunks of a bounded run are left
\* aside.
LastSureRow == ((MaxProduced \div RotateEvery) - MaxFaults) * RotateEvery

EventuallyUploaded ==
  \A r \in Rows :
    Infinite /\ r \in file /\ r[2] <= LastSureRow
      ~> ObjectsWith(r) # {} \/ r[1] # salt \/ writeFaults > 0

\* A run of count rows that met no fault leaves all of them in its one object.
FinishedIsUploaded ==
  pc = "exit" /\ failed + ambiguous + writeFaults = 0 =>
    \E n \in DOMAIN bucket : bucket[n] = {salt} \X (1 .. count)
=============================================================================
