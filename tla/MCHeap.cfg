\* Pages of 12 units hold two blocks of the requests 0 and 1, or one of 5; a request
\* of 17 needs a major of two pages. A gap left by request 0 is one unit too short
\* for request 1. Three majors make lists in which the first, a middle and
\* the last one empty, and searches that start at the best bet and start again.
\* Majors are never reused, so the model stops when three were made and emptied.
CONSTANTS
  PageSize = 12  PageCount = 1
  MajHdr = 2  MinHdr = 1
  Alignment = 2  AlignInfo = 1
  Requests = {0, 1, 5, 17}
  MaxMajors = 3  MaxPages = 2
SPECIFICATION Spec
INVARIANTS BlocksDisjoint ClientBytesFit AccountsExact ListExact
PROPERTY NewPagesOnlyWhenFull
CHECK_DEADLOCK FALSE
