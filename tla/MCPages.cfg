\* Sixteen pages to a directory: the heap begins at page 50 and reaches the frame
\* buffer at page 62 after twelve pages, seven of which the boot takes. Two more
\* pages let the heap run over the screen, which the properties exclude.
CONSTANTS
  DirSize = 16
  HeapFirst = 50  FrameBuffer = 62  MaxPage = 64
  PhysicalBases = {1, 2}
  ScreenFrame = 80  AbarFrame = 90
  ScreenPages = {1, 2}
  MajorSizes = {2, 3}
  TestPage = 5
  Programs = {p, q}  Kernel = Kernel
SPECIFICATION Spec
INVARIANTS ClientsKeepTheirPages NothingIsGivenTwice PageZeroIsTheNewestProgram
  DriveFindsItsTables DriveFindsItsBuffer
CHECK_DEADLOCK FALSE
