\* Three overlapping calls of any kind; every call is answered, then nothing
\* happens.
CONSTANTS
  Requests = {r1, r2, r3}
  k1 = k1
  v1 = v1
  Keys = {k1, k2}
  Values = {v1, v2}
  NULL = NULL
  Initial <- OneRow
SPECIFICATION CrudSpec
INVARIANTS
  TypeOK
  RowsAccounted
PROPERTY
  ImplementsTable
CHECK_DEADLOCK FALSE
