------------------------------- MODULE Files -------------------------------
(***************************************************************************)
(* Open files: the walk of a path through the directories of the AFS image *)
(* (afs_get_generic_block), the second look at the same path that finds    *)
(* where the file lies (afs_get_file_location), the table of descriptors   *)
(* and the read of a byte range in whole sectors. A system call runs with  *)
(* interrupts off and never yields: it is one step.                        *)
(*                                                                         *)
(* Nothing writes the image. A block is what its bytes read as, whatever   *)
(* it was written as: the code reads a directory as a file (its size is    *)
(* then the start of its first entry) and a file as a directory.           *)
(*                                                                         *)
(* A path is what lies between its slashes, and whether it begins with     *)
(* one. The working directory is "/" and no command changes it.            *)
(***************************************************************************)
EXTENDS Integers, Sequences, SequencesExt

CONSTANTS
  Disks,       \* the images a machine may be started with
  Root,        \* drive->root_directory
  Paths,       \* the paths programs and commands open
  DevNames,    \* the names that begin with "dev"
  Sizes,       \* the sizes programs ask for
  HeaderSize,  \* sizeof(afs_file)
  SectorSize,  \* 512
  MAX_FD

Block(D) == [type : {"file", "directory"}, size : Nat,
             index : Seq([name : STRING, start : D])]

ASSUME FilesAssumption ==
  /\ MAX_FD \in Nat /\ MAX_FD > 3
  /\ HeaderSize \in Nat /\ SectorSize \in Nat \ {0} /\ Sizes \subseteq Nat
  /\ Paths \subseteq [absolute : BOOLEAN, parts : Seq(STRING) \ {<<>>}]
  /\ \A d \in Disks :
       /\ DOMAIN d \subseteq Nat \ {0} /\ Root \in DOMAIN d
       /\ \A b \in DOMAIN d : d[b] \in Block(DOMAIN d)

VARIABLES
  disk,      \* the image
  fd,        \* file_system.fd
  next_fd,
  answer     \* the last call, its argument and what it returned

vars == <<disk, fd, next_fd, answer>>

\* "path" is history, and so is "lost": a drive that failed left the entry to chance.
Closed == [path |-> <<>>, lost |-> FALSE, base |-> 0, size |-> 0, position |-> 0]

Descriptor ==
  [path : {<<>>} \cup Paths, lost : BOOLEAN, base : Nat, size : Nat, position : {0}]

Answer ==
  [call : {"none"}]
    \cup [call : {"open"}, path : Paths, lost : BOOLEAN, result : -1 .. MAX_FD - 1]
    \cup [call : {"read"}, fd : Nat, size : Nat, result : 0 .. 1, data : Seq(Int)]

TypeOK ==
  /\ disk \in Disks
  /\ fd \in [0 .. MAX_FD - 1 -> Descriptor]
  /\ next_fd \in 3 .. MAX_FD - 1
  /\ answer \in Answer

\* fs_initalize: the three standard descriptors take no part in what follows.
Init ==
  /\ disk \in Disks
  /\ fd = [i \in 0 .. MAX_FD - 1 |-> Closed]
  /\ next_fd = 3
  /\ answer = [call |-> "none"]

-----------------------------------------------------------------------------
\* Lookup. A start of 0 means that there is no such entry.

Hits(index, name) == {i \in DOMAIN index : index[i].name = name}

\* The walk goes on to the last entry of that name, ...
afs_exists_in_dir(index, name) ==
  IF Hits(index, name) = {} THEN 0 ELSE index[Max(Hits(index, name))].start

\* One name of the path. A directory becomes the place to look in; a file leaves d where
\* it pointed, which is the root or the very block the file has just been read over.
Step(at, name) ==
  IF ~at.found THEN at
  ELSE LET dir == IF at.dir = "root" THEN Root ELSE at.block
           loc == afs_exists_in_dir(disk[dir].index, name)
       IN IF loc = 0 THEN [at EXCEPT !.found = FALSE]
          ELSE [found |-> TRUE, block |-> loc,
                dir |-> IF disk[loc].type = "directory" THEN "result" ELSE at.dir]

\* The names the walk sees: one slash at the end goes unnoticed.
Walked(parts) == IF Last(parts) = "" THEN Front(parts) ELSE parts

AtRoot == [found |-> TRUE, block |-> Root, dir |-> "root"]

\* Where the walk is after so many names.
Walk(names) ==
  LET at[k \in 0 .. Len(names)] == IF k = 0 THEN AtRoot ELSE Step(at[k - 1], names[k])
  IN  at

afs_get_generic_block(parts) == Walk(Walked(parts))[Len(Walked(parts))]

\* ... but the search for the location stops at the first.
IndexOf(index, name) ==
  IF Hits(index, name) = {} THEN 0 ELSE index[Min(Hits(index, name))].start

\* Variant: every file is looked up in the root.
afs_get_parent_dir_Root(path) == [found |-> TRUE, block |-> Root]

\* The path up to its last slash; without one, or with nothing before it, the root.
afs_get_parent_dir(path) ==
  IF Len(path.parts) = 1 THEN [found |-> TRUE, block |-> Root]
  ELSE afs_get_generic_block(Front(path.parts))

afs_get_file_location(path) ==
  LET parent == afs_get_parent_dir(path)
  IN IF ~parent.found THEN 0 ELSE IndexOf(disk[parent.block].index, Last(path.parts))

-----------------------------------------------------------------------------
\* Descriptors.

\* "/dev" anywhere in the path.
IsDevice(path) ==
  \E i \in DOMAIN path.parts : path.parts[i] \in DevNames /\ (path.absolute \/ i > 1)

Opens(path, lost, base, size) ==
  /\ fd' = [fd EXCEPT ![next_fd] =
              [path |-> IF lost THEN <<>> ELSE path, lost |-> lost, base |-> base, size |-> size, position |-> 0]]
  /\ next_fd' = next_fd + 1
  /\ answer' = [call |-> "open", path |-> path, lost |-> lost, result |-> next_fd]

Answers(path, lost, result) ==
  /\ answer' = [call |-> "open", path |-> path, lost |-> lost, result |-> result]
  /\ UNCHANGED <<fd, next_fd>>

\* Variant: the table is full one descriptor earlier.
Full_Early == next_fd = MAX_FD - 2

Full == next_fd = MAX_FD - 1

afs_open(path) ==
  LET file == afs_get_generic_block(path.parts)
  IN \/ ~file.found /\ Answers(path, FALSE, -1)
     \/ file.found /\ Full /\ Answers(path, FALSE, -1)
     \/ /\ file.found /\ ~Full
        /\ Opens(path, FALSE, afs_get_file_location(path) + HeaderSize, disk[file.block].size)

\* A block on the way cannot be read: afs_get_generic_block ends in a bare return, and what its
\* caller takes for the block, and the descriptor made of it, is whatever was there.
afs_open_unread(path) ==
  /\ Walked(path.parts) # <<>>
  /\ afs_exists_in_dir(disk[Root].index, Head(path.parts)) # 0
  /\ \/ Answers(path, TRUE, -1)
     \/ ~Full /\ \E base \in DOMAIN disk, size \in Sizes : Opens(path, TRUE, base, size)

syscall_open(path) ==
  /\ \/ IsDevice(path) /\ Answers(path, FALSE, 0)
     \/ ~IsDevice(path) /\ (afs_open(path) \/ afs_open_unread(path))
  /\ UNCHANGED disk

-----------------------------------------------------------------------------
\* Reading. A byte of the drive stands for its address.

\* What was in the buffer before.
Stale == -1

\* read_ahci for one sector after the other fills this much of the buffer.
Filled(sector, count) ==
  [c \in 0 .. count * SectorSize - 1 |-> sector * SectorSize + c]

\* Variant: a range that begins in the middle of a sector is forgotten.
SectorsFor_NoSlack(size) == (size \div SectorSize) + 1

\* One for the rest of the size, one for the offset into the first sector.
SectorsFor(size) == (size \div SectorSize) + 2

ahci_read_at_byte_offset_512_chunks(offset, size) ==
  LET sector == offset \div SectorSize
      internal_offset == offset - sector * SectorSize
      buffer == Filled(sector, SectorsFor(size))
  IN [i \in 1 .. size |-> IF internal_offset + i - 1 \in DOMAIN buffer
                            THEN buffer[internal_offset + i - 1] ELSE Stale]

\* Success is all that comes back; position stays where it was. A sector may fail.
afs_read(f, size) ==
  \/ answer' = [call |-> "read", fd |-> f, size |-> size, result |-> 1,
                data |-> ahci_read_at_byte_offset_512_chunks(fd[f].base + fd[f].position, size)]
  \/ answer' = [call |-> "read", fd |-> f, size |-> size, result |-> 0, data |-> <<>>]

\* A descriptor that was never opened is a file at the start of the drive.
syscall_read(f, size) ==
  /\ \/ f \in {1, 2} /\ answer' = [call |-> "read", fd |-> f, size |-> size,
                                   result |-> 0, data |-> <<>>]
     \/ f > 2 /\ afs_read(f, size)
  /\ UNCHANGED <<disk, fd, next_fd>>

Next ==
  \/ \E path \in Paths : syscall_open(path)
  \/ \E f \in 1 .. MAX_FD - 1, size \in Sizes : syscall_read(f, size)

Spec == Init /\ [][Next]_vars

=============================================================================
