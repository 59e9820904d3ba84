SPECIFICATION Spec
CONSTANTS
  Batches <- MCBatches
  Messages <- MCMessages
  CsvRows <- MCCsvRows
  Produced <- MCProduced
INVARIANT TypeOK
INVARIANT OnePlace
INVARIANT StoredIsValid
INVARIANT RepliesTell
INVARIANT SameOnEveryPath
CHECK_DEADLOCK FALSE
