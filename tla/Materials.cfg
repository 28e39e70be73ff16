SPECIFICATION FairSpec
CONSTANTS
  MaterialUploads = {u1, u2}
  RubricUploads = {x1}
  Names = {n1, n2}
  Publications = {e1, e2}
  WebFiles = {f1, f2}
  Batches = {b1}
  Threads = 2
  NULL = NULL
INVARIANTS
  RowsHaveBlobs
  
PROPERTIES
  UploadsEnd
CHECK_DEADLOCK FALSE
