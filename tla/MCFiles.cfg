\* Two descriptors to give out, sectors of three bytes, a file header of one: ranges
\* begin and end inside a sector, at its ends and beyond the next.
CONSTANTS
  Disks <- MCDisks  Root = 2  Paths <- MCPaths  DevNames = {"dev"}
  Sizes = {0, 2, 5}  HeaderSize = 1  SectorSize = 3  MAX_FD = 6
SPECIFICATION Spec
INVARIANTS DescriptorIsItsFile FailsForAReason ReadDeliversTheRange
