--------------------------- MODULE IncrementalCopy ---------------------------
(***************************************************************************)
(* What an incremental copy job promises: rows with increasing time stamps *)
(* are written to a source, their keys are copied to a target, and marks   *)
(* say up to which time stamp the source never has to be read again.       *)
(* DedupPrepare implements it.                                             *)
(***************************************************************************)
EXTENDS Integers

CONSTANTS Rows, Keys, KeyOf

VARIABLES
  stamp,    \* [Rows -> time], 0 for a row that is not written
  copied,   \* the keys in the target
  marks     \* the watermarks in force, stored or accepted

Written == {r \in Rows : stamp[r] > 0}

Complete(t) == \A r \in Written : stamp[r] <= t => KeyOf[r] \in copied

Init ==
  /\ stamp = [r \in Rows |-> 0]
  /\ copied = {}
  /\ marks = {}

\* A row is stamped past every mark: no mark ever excludes a row to come.
Write(r) ==
  /\ r \notin Written
  /\ stamp' = [stamp EXCEPT ![r] = stamp'[r]]
  /\ \A m \in marks \cup {0} : m < stamp'[r]
  /\ UNCHANGED <<copied, marks>>

\* Any written keys are copied, any number of times; none is ever removed.
Copy ==
  /\ copied \subseteq copied'
  /\ copied' \subseteq copied \cup {KeyOf[r] : r \in Written}
  /\ UNCHANGED <<stamp, marks>>

\* Marks come and go, in any order, but a new one covers copied rows only.
Mark ==
  /\ \A m \in marks' \ marks : Complete(m)
  /\ UNCHANGED <<stamp, copied>>

Next == (\E r \in Rows : Write(r)) \/ Copy \/ Mark

Spec == Init /\ [][Next]_<<stamp, copied, marks>>

\* No mark is at or past a row whose key was not copied.
NoGap == \A m \in marks : Complete(m)
=============================================================================
