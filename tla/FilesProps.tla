----------------------------- MODULE FilesProps -----------------------------
(***************************************************************************)
(* What opening and reading a file promises, against a definition of what  *)
(* a path denotes that knows nothing of the walk.                          *)
(***************************************************************************)
EXTENDS Files

\* A chain of directories, each with an entry for the next name, that ends at b.
Leads(parts, b) ==
  \E chain \in [0 .. Len(parts) -> DOMAIN disk] :
    /\ chain[0] = Root /\ chain[Len(parts)] = b
    /\ \A k \in 1 .. Len(parts) :
         /\ disk[chain[k - 1]].type = "directory"
         /\ [name |-> parts[k], start |-> chain[k]] \in ToSet(disk[chain[k - 1]].index)

\* The files a path names.
FilesNamed(path) == {b \in DOMAIN disk : disk[b].type = "file" /\ Leads(path.parts, b)}

\* bootstrap_mkdir and bootstrap_cp (support/afsdrive/afs.c) put an entry into a directory
\* without looking for its name there: an image may hold a name twice.
WellNamed ==
  \A b \in DOMAIN disk : disk[b].type = "directory" =>
    /\ \A i \in DOMAIN disk[b].index : disk[b].index[i].name # ""
    /\ \A i, j \in DOMAIN disk[b].index :
         disk[b].index[i].name = disk[b].index[j].name => i = j

Opened == {i \in 3 .. next_fd - 1 : ~fd[i].lost}

\* Two lookups, one result: a descriptor opened for a path that names a file has that
\* file's size (found by the walk of afs_get_generic_block) and its place on the drive
\* (found by afs_get_file_location), when no directory holds a name twice: the walk
\* would take the last of them and the search for the place the first.
DescriptorIsItsFile ==
  WellNamed => \A i \in Opened : FilesNamed(fd[i].path) # {} =>
    \E b \in FilesNamed(fd[i].path) :
      fd[i].base = b + HeaderSize /\ fd[i].size = disk[b].size

\* open fails for two reasons only: nothing has that name, or all descriptors are given
\* out (afs_open, syscall_open).
FailsForAReason ==
  (WellNamed /\ answer.call = "open" /\ ~answer.lost /\ answer.result = -1) =>
    (FilesNamed(answer.path) = {} \/ next_fd = MAX_FD - 1)

\* A successful read delivers the bytes asked for, in order and none left over from an
\* earlier read, wherever in a sector the range begins and ends.
ReadDeliversTheRange ==
  (answer.call = "read" /\ answer.result = 1) =>
    answer.data = [i \in 1 .. answer.size |-> fd[answer.fd].base + i - 1]

\* A descriptor is what the two searches find for its path, ...
IsLookedUp(f) ==
  LET file == afs_get_generic_block(f.path.parts)
  IN  /\ f.path \in Paths /\ file.found
      /\ f.size = disk[file.block].size
      /\ f.base = afs_get_file_location(f.path) + HeaderSize

LookedUp == \A i \in Opened : IsLookedUp(fd[i])

\* ... and open fails when the walk does or when the table is full.
Refused ==
  (answer.call = "open" /\ ~answer.lost /\ answer.result = -1) =>
    ~afs_get_generic_block(answer.path.parts).found \/ Full

IInv == TypeOK /\ LookedUp /\ Refused /\ ReadDeliversTheRange

=============================================================================
