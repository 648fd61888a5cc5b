\* liballoc_lock's comment against an interrupt that falls into kmalloc. The
\* handler's two small blocks fit in the page a new major brings.
CONSTANTS
  PageSize = 12  PageCount = 1
  MajHdr = 2  MinHdr = 1
  Alignment = 2  AlignInfo = 1
  Requests = {0, 5}
  MaxMajors = 3  MaxPages = 2
  EventSize = 0  NameSize = 1
SPECIFICATION IrqSpec
INVARIANT BlocksStayListed
CHECK_DEADLOCK FALSE
