----------------------------- MODULE FilesProofs -----------------------------
(***************************************************************************)
(* Proofs about open files, for every image, path and size of a sector.    *)
(* What the walk of a path computes takes an induction over its names:     *)
(* Climb, from the well-foundedness of the numbers, does it for sets.      *)
(***************************************************************************)
EXTENDS FilesProps, SequenceTheorems, WellFoundedInduction, TLAPS

-----------------------------------------------------------------------------
\* Induction over the numbers.

LEMMA Least ==
  ASSUME NEW T \in SUBSET Nat, T # {}
  PROVE  \E x \in T : \A y \in T : x <= y
<1> DEFINE R == {ss \in Nat \X Nat : ss[1] < ss[2]}
<1>1. IsWellFoundedOn(R, Nat)
  BY NatLessThanWellFounded, Zenon DEF OpToRel
<1>2. PICK x \in T : \A y \in T : <<y, x>> \notin R
  <2> HIDE DEF R
  <2> QED BY <1>1, WFMin, Zenon
<1>3. \A y \in T : x <= y
  <2> TAKE y \in T
  <2>1. <<y, x>> \in Nat \X Nat /\ <<y, x>>[1] = y /\ <<y, x>>[2] = x
    OBVIOUS
  <2>2. ~(y < x)
    BY <1>2, <2>1
  <2> QED BY <2>2
<1> QED BY <1>3

\* What holds of 0 and goes from each number to the next holds up to n.
LEMMA Climb ==
  ASSUME NEW n \in Nat, NEW T, 0 \in T, \A k \in 0 .. n - 1 : k \in T => k + 1 \in T
  PROVE  0 .. n \subseteq T
<1> SUFFICES ASSUME ~(0 .. n \subseteq T) PROVE FALSE
  OBVIOUS
<1> DEFINE U == {k \in 0 .. n : k \notin T}
<1>1. U \in SUBSET Nat /\ U # {}
  OBVIOUS
<1>2. PICK x \in U : \A y \in U : x <= y
  <2> HIDE DEF U
  <2> QED BY <1>1, Least
<1>3. x # 0 /\ x - 1 \in 0 .. n - 1
  BY <1>2
<1>4. x - 1 \in T
  BY <1>2, <1>3
<1>5. x - 1 + 1 = x
  BY <1>2
<1> QED BY <1>2, <1>3, <1>4, <1>5

Steps(S, n) == [S \X (1 .. n) -> S]

\* n steps of F from s on.
HasRun(S, n, s, F) ==
  \E g \in [0 .. n -> S] : g[0] = s /\ \A k \in 1 .. n : g[k] = F[<<g[k - 1], k>>]

LEMMA RunExists ==
  ASSUME NEW n \in Nat, NEW S, NEW s \in S, NEW F \in Steps(S, n)
  PROVE  HasRun(S, n, s, F)
<1> USE DEF Steps
<1> DEFINE Runs(m) == {g \in [0 .. m -> S] :
                         g[0] = s /\ \A k \in 1 .. m : g[k] = F[<<g[k - 1], k>>]}
           T == {m \in 0 .. n : Runs(m) # {}}
<1>1. 0 \in T
  <2>1. [k \in 0 .. 0 |-> s] \in Runs(0)
    OBVIOUS
  <2> QED BY <2>1
<1>2. ASSUME NEW m \in 0 .. n - 1, m \in T PROVE m + 1 \in T
  <2>1. PICK g \in [0 .. m -> S] : g[0] = s /\ \A k \in 1 .. m : g[k] = F[<<g[k - 1], k>>]
    BY <1>2
  <2> DEFINE h == [k \in 0 .. m + 1 |-> IF k = m + 1 THEN F[<<g[m], m + 1>>] ELSE g[k]]
  <2>2. m \in Nat /\ g[m] \in S /\ F[<<g[m], m + 1>>] \in S
    BY <1>2, <2>1
  <2>3. h \in [0 .. m + 1 -> S]
    BY <2>1, <2>2
  <2>4. /\ h[m + 1] = F[<<g[m], m + 1>>]
        /\ \A k \in 0 .. m : h[k] = g[k]
    BY <2>2
  <2> HIDE DEF h
  <2>5. ASSUME NEW k \in 1 .. m + 1 PROVE h[k] = F[<<h[k - 1], k>>]
    <3>1. CASE k = m + 1
      <4>1. k - 1 = m /\ m \in 0 .. m
        BY <2>2, <3>1
      <4> QED BY <2>4, <3>1, <4>1
    <3>2. CASE k \in 1 .. m
      <4>1. k - 1 \in 0 .. m /\ k \in 0 .. m
        BY <2>2, <3>2
      <4> QED BY <2>1, <2>4, <3>2, <4>1
    <3> QED BY <2>2, <3>1, <3>2
  <2>6. h[0] = s
    BY <2>1, <2>2, <2>4
  <2>7. h \in Runs(m + 1)
    BY <2>3, <2>5, <2>6
  <2>8. m + 1 \in 0 .. n
    BY <1>2
  <2> HIDE DEF Runs
  <2> QED BY <2>7, <2>8
<1>3. 0 .. n \subseteq T
  <2> HIDE DEF T
  <2> QED BY <1>1, <1>2, Climb
<1> QED BY <1>3 DEF HasRun

\* A set of places in a sequence that is not empty has a first and a last.
LEMMA EndsExist ==
  ASSUME NEW n \in Nat, NEW T \in SUBSET (1 .. n), T # {}
  PROVE  Min(T) \in T /\ Max(T) \in T
<1>1. \E x \in T : \A y \in T : x <= y
  BY Least
<1>2. \E x \in T : \A y \in T : y <= x
  <2> DEFINE U == {n - y : y \in T}
  <2>1. U \in SUBSET Nat /\ U # {}
    <3>1. \A y \in T : n - y \in Nat
      OBVIOUS
    <3> QED BY <3>1
  <2>2. PICK u \in U : \A v \in U : u <= v
    <3> HIDE DEF U
    <3> QED BY <2>1, Least
  <2>3. PICK x \in T : u = n - x
    BY <2>2
  <2>4. \A y \in T : n - x <= n - y
    BY <2>2, <2>3
  <2>5. \A y \in T : y <= x
    BY <2>4
  <2> QED BY <2>5
<1>3. Min(T) \in T
  BY <1>1 DEF Min
<1>4. Max(T) \in T
  BY <1>2 DEF Max
<1> QED BY <1>3, <1>4

-----------------------------------------------------------------------------
\* The two searches of a directory.

Blocks == DOMAIN disk
Entry == [name : STRING, start : Blocks]
At == [found : BOOLEAN, block : Blocks, dir : {"root", "result"}]

LEMMA ImageTyped ==
  ASSUME disk \in Disks
  PROVE  /\ Root \in Blocks /\ Blocks \subseteq Nat \ {0}
         /\ \A b \in Blocks : /\ disk[b].type \in {"file", "directory"}
                              /\ disk[b].size \in Nat /\ disk[b].index \in Seq(Entry)
  BY FilesAssumption DEF Block, Blocks, Entry

LEMMA SearchesTyped ==
  ASSUME disk \in Disks, NEW index \in Seq(Entry), NEW name
  PROVE  /\ afs_exists_in_dir(index, name) \in Blocks \cup {0}
         /\ IndexOf(index, name) \in Blocks \cup {0}
<1>1. /\ Len(index) \in Nat /\ DOMAIN index = 1 .. Len(index)
      /\ \A i \in 1 .. Len(index) : index[i].start \in Blocks
  <2>1. Len(index) \in Nat /\ \A i \in 1 .. Len(index) : index[i] \in Entry
    OBVIOUS
  <2>2. \A e \in Entry : e.start \in Blocks
    BY DEF Entry
  <2> QED BY <2>1, <2>2
<1>2. CASE Hits(index, name) = {}
  BY <1>2 DEF afs_exists_in_dir, IndexOf
<1>3. CASE Hits(index, name) # {}
  <2>1. Hits(index, name) \in SUBSET (1 .. Len(index))
    BY <1>1 DEF Hits
  <2>2. Max(Hits(index, name)) \in 1 .. Len(index) /\ Min(Hits(index, name)) \in 1 .. Len(index)
    BY <1>1, <1>3, <2>1, EndsExist
  <2> QED BY <1>1, <1>3, <2>2 DEF afs_exists_in_dir, IndexOf
<1> QED BY <1>2, <1>3

\* In a directory that holds no name twice both find the one entry.
LEMMA SearchesAgree ==
  ASSUME NEW index \in Seq(Entry), NEW e \in ToSet(index),
         \A i, j \in DOMAIN index : index[i].name = index[j].name => i = j
  PROVE  afs_exists_in_dir(index, e.name) = e.start /\ IndexOf(index, e.name) = e.start
<1>1. Len(index) \in Nat /\ DOMAIN index = 1 .. Len(index)
  OBVIOUS
<1>2. PICK i \in DOMAIN index : index[i] = e
  BY DEF ToSet
<1>3. Hits(index, e.name) = {i}
  BY <1>2 DEF Hits
<1>4. Max({i}) \in {i} /\ Min({i}) \in {i}
  <2>1. {i} \in SUBSET (1 .. Len(index)) /\ {i} # {}
    BY <1>1, <1>2
  <2> QED BY <1>1, <2>1, EndsExist
<1> QED BY <1>2, <1>3, <1>4 DEF afs_exists_in_dir, IndexOf

-----------------------------------------------------------------------------
\* The walk of a path.

LEMMA StepTyped ==
  ASSUME disk \in Disks, NEW at \in At, NEW name
  PROVE  Step(at, name) \in At
<1> DEFINE dir == IF at.dir = "root" THEN Root ELSE at.block
           loc == afs_exists_in_dir(disk[dir].index, name)
<1>1. dir \in Blocks
  BY ImageTyped DEF At
<1>2. loc \in Blocks \cup {0}
  BY <1>1, ImageTyped, SearchesTyped
<1>3. Step(at, name) =
        IF ~at.found THEN at
        ELSE IF loc = 0 THEN [at EXCEPT !.found = FALSE]
        ELSE [found |-> TRUE, block |-> loc,
              dir |-> IF disk[loc].type = "directory" THEN "result" ELSE at.dir]
  BY DEF Step
<1> HIDE DEF loc
<1>4. at.found \in BOOLEAN /\ at.dir \in {"root", "result"} /\ at.block \in Blocks
  BY DEF At
<1>5. [at EXCEPT !.found = FALSE] \in At
  BY DEF At
<1>6. ASSUME loc \in Blocks
      PROVE  [found |-> TRUE, block |-> loc,
              dir |-> IF disk[loc].type = "directory" THEN "result" ELSE at.dir] \in At
  BY <1>4, <1>6 DEF At
<1> QED BY <1>2, <1>3, <1>5, <1>6

\* Walk is what its equation says: it starts at the root and makes a Step for each name.
LEMMA WalkSteps ==
  ASSUME disk \in Disks, NEW names \in Seq(STRING)
  PROVE  /\ Walk(names) \in [0 .. Len(names) -> At]
         /\ Walk(names)[0] = AtRoot
         /\ \A k \in 1 .. Len(names) :
              Walk(names)[k] = Step(Walk(names)[k - 1], names[k])
<1> DEFINE n == Len(names)
           F == [x \in At \X (1 .. n) |-> Step(x[1], names[x[2]])]
           W == Walk(names)
<1>1. n \in Nat /\ AtRoot \in At
  BY ImageTyped DEF AtRoot, At
<1>2. \A at \in At, k \in 1 .. n : F[<<at, k>>] = Step(at, names[k])
  OBVIOUS
<1>3. F \in [At \X (1 .. n) -> At]
  BY StepTyped
<1> HIDE DEF F
<1>4. PICK g \in [0 .. n -> At] :
        g[0] = AtRoot /\ \A k \in 1 .. n : g[k] = F[<<g[k - 1], k>>]
  <2>1. HasRun(At, n, AtRoot, F)
    <3> HIDE DEF n
    <3>1. F \in Steps(At, n)
      BY <1>3 DEF Steps
    <3> QED BY <1>1, <3>1, RunExists, Zenon
  <2> QED BY <2>1 DEF HasRun
<1>5. g = [k \in 0 .. n |-> IF k = 0 THEN AtRoot ELSE Step(g[k - 1], names[k])]
  <2>1. \A k \in 1 .. n : g[k - 1] \in At
    BY <1>1, <1>4
  <2>2. \A k \in 1 .. n : g[k] = Step(g[k - 1], names[k])
    BY <1>2, <1>4, <2>1
  <2> QED BY <1>1, <1>4, <2>2
<1>6. W = CHOOSE at : at = [k \in 0 .. n |-> IF k = 0 THEN AtRoot ELSE Step(at[k - 1], names[k])]
  BY DEF Walk
<1>7. W = [k \in 0 .. n |-> IF k = 0 THEN AtRoot ELSE Step(W[k - 1], names[k])]
  BY <1>5, <1>6, Zenon
<1> HIDE DEF W, n
<1>8. W[0] = AtRoot /\ \A k \in 1 .. n : W[k] = Step(W[k - 1], names[k])
  BY <1>1, <1>7
<1>9. 0 .. n \subseteq {k \in 0 .. n : W[k] \in At}
  <2>1. 0 \in {k \in 0 .. n : W[k] \in At}
    BY <1>1, <1>8
  <2>2. ASSUME NEW k \in 0 .. n - 1, W[k] \in At PROVE W[k + 1] \in At /\ k + 1 \in 0 .. n
    <3>1. k + 1 \in 1 .. n /\ (k + 1) - 1 = k
      BY <1>1
    <3> QED BY <1>1, <1>8, <2>2, <3>1, StepTyped
  <2> QED BY <1>1, <2>1, <2>2, Climb
<1>10. W \in [0 .. n -> At]
  BY <1>7, <1>9
<1> QED BY <1>8, <1>10 DEF W, n

\* What a sequence of names is without its last.
LEMMA FrontIs ==
  ASSUME NEW S, NEW names \in Seq(S), names # <<>>
  PROVE  /\ Len(names) \in Nat \ {0} /\ Last(names) = names[Len(names)] /\ Last(names) \in S
         /\ Front(names) \in Seq(S) /\ Len(Front(names)) = Len(names) - 1
         /\ \A k \in 1 .. Len(names) - 1 : Front(names)[k] = names[k]
<1>1. Len(names) \in Nat \ {0} /\ names[Len(names)] \in S
  BY EmptySeq
<1>2. /\ SubSeq(names, 1, Len(names) - 1) \in Seq(S)
      /\ Len(SubSeq(names, 1, Len(names) - 1)) = Len(names) - 1
      /\ \A k \in 1 .. Len(names) - 1 : SubSeq(names, 1, Len(names) - 1)[k] = names[k]
  <2> DEFINE n == Len(names) - 1
  <2>1. /\ 1 \in Int /\ n \in Int /\ \A k \in 1 .. n : names[k] \in S
        /\ (IF 1 <= n THEN n - 1 + 1 ELSE 0) = n /\ n - 1 + 1 = n
    <3>1. \A k \in 1 .. Len(names) : names[k] \in S
      BY ElementOfSeq
    <3>2. \A k \in 1 .. n : k \in 1 .. Len(names)
      BY <1>1
    <3>3. n \in Nat
      BY <1>1
    <3> HIDE DEF n
    <3> QED BY <3>1, <3>2, <3>3
  <2>2. /\ SubSeq(names, 1, n) \in Seq(S)
        /\ Len(SubSeq(names, 1, n)) = IF 1 <= n THEN n - 1 + 1 ELSE 0
        /\ \A k \in 1 .. n - 1 + 1 : SubSeq(names, 1, n)[k] = names[1 + k - 1]
    <3> HIDE DEF n
    <3> QED BY <2>1, SubSeqProperties
  <2>3. \A k \in 1 .. n : 1 + k - 1 = k
    BY <1>1
  <2> QED BY <2>1, <2>2, <2>3
<1> QED BY <1>1, <1>2 DEF Last, Front

LEMMA PathTyped ==
  ASSUME NEW path \in Paths
  PROVE  path.parts \in Seq(STRING) /\ path.parts # <<>>
  BY FilesAssumption

LEMMA GenericTyped ==
  ASSUME disk \in Disks, NEW parts \in Seq(STRING), parts # <<>>
  PROVE  afs_get_generic_block(parts) \in At
<1>1. Walked(parts) \in Seq(STRING)
  BY FrontIs DEF Walked
<1>2. Len(Walked(parts)) \in 0 .. Len(Walked(parts))
  BY <1>1
<1> QED BY <1>1, <1>2, WalkSteps DEF afs_get_generic_block

LEMMA LocationTyped ==
  ASSUME disk \in Disks, NEW path \in Paths
  PROVE  afs_get_file_location(path) \in Blocks \cup {0}
<1> DEFINE parent == afs_get_parent_dir(path)
<1>1. parent.block \in Blocks
  <2>1. CASE Len(path.parts) = 1
    BY <2>1, ImageTyped DEF afs_get_parent_dir
  <2>2. CASE Len(path.parts) # 1
    <3> DEFINE parts == path.parts
    <3>0. parts \in Seq(STRING) /\ parts # <<>> /\ Len(parts) # 1
      BY <2>2, PathTyped
    <3>1. Front(parts) \in Seq(STRING) /\ Len(Front(parts)) # 0
      <4> HIDE DEF parts
      <4>1. Len(parts) \in Nat \ {0} /\ Front(parts) \in Seq(STRING)
            /\ Len(Front(parts)) = Len(parts) - 1
        BY <3>0, FrontIs
      <4> QED BY <3>0, <4>1
    <3>2. Front(path.parts) # <<>>
      BY <3>1
    <3>3. parent \in At
      BY <2>2, <3>1, <3>2, GenericTyped DEF afs_get_parent_dir
    <3> QED BY <3>3 DEF At
  <2> QED BY <2>1, <2>2
<1>2. IndexOf(disk[parent.block].index, Last(path.parts)) \in Blocks \cup {0}
  BY <1>1, ImageTyped, SearchesTyped
<1> QED BY <1>2 DEF afs_get_file_location

-----------------------------------------------------------------------------
\* Where a path leads, both searches arrive.

\* chain goes from the root through directories, by the names in turn.
Chains(chain, names) ==
  /\ chain \in [0 .. Len(names) -> Blocks] /\ chain[0] = Root
  /\ \A k \in 1 .. Len(names) :
       /\ disk[chain[k - 1]].type = "directory"
       /\ [name |-> names[k], start |-> chain[k]] \in ToSet(disk[chain[k - 1]].index)

\* Where the walk looks the next name up.
Place(at) == IF at.dir = "root" THEN Root ELSE at.block

LEMMA NamedOnce ==
  ASSUME disk \in Disks, WellNamed, NEW d \in Blocks, disk[d].type = "directory",
         NEW name, NEW b \in Blocks,
         [name |-> name, start |-> b] \in ToSet(disk[d].index)
  PROVE  /\ name # ""
         /\ afs_exists_in_dir(disk[d].index, name) = b /\ IndexOf(disk[d].index, name) = b
<1> DEFINE e == [name |-> name, start |-> b]
<1>1. disk[d].index \in Seq(Entry)
  BY ImageTyped
<1>2. /\ \A i \in DOMAIN disk[d].index : disk[d].index[i].name # ""
      /\ \A i, j \in DOMAIN disk[d].index :
           disk[d].index[i].name = disk[d].index[j].name => i = j
  BY DEF WellNamed, Blocks
<1>3. e.name = name /\ e.start = b /\ e \in ToSet(disk[d].index)
  OBVIOUS
<1> HIDE DEF e
<1>4. afs_exists_in_dir(disk[d].index, e.name) = e.start /\ IndexOf(disk[d].index, e.name) = e.start
  BY <1>1, <1>2, <1>3, SearchesAgree
<1>5. PICK i \in DOMAIN disk[d].index : disk[d].index[i] = e
  BY <1>3 DEF ToSet
<1> QED BY <1>2, <1>3, <1>4, <1>5

LEMMA WalkFollows ==
  ASSUME disk \in Disks, WellNamed, NEW names \in Seq(STRING), NEW chain, Chains(chain, names)
  PROVE  \A k \in 0 .. Len(names) :
           /\ Walk(names)[k].found /\ Walk(names)[k].block = chain[k]
           /\ disk[chain[k]].type = "directory" => Place(Walk(names)[k]) = chain[k]
<1> DEFINE n == Len(names)
           W == Walk(names)
           Follows(k) == /\ W[k].found /\ W[k].block = chain[k]
                         /\ disk[chain[k]].type = "directory" => Place(W[k]) = chain[k]
<1>1. n \in Nat
  OBVIOUS
<1>2. /\ W[0] = AtRoot
      /\ \A k \in 1 .. n : W[k] = Step(W[k - 1], names[k])
  BY WalkSteps
<1>3. /\ chain[0] = Root /\ \A k \in 0 .. n : chain[k] \in Blocks
      /\ \A k \in 1 .. n :
           /\ disk[chain[k - 1]].type = "directory"
           /\ [name |-> names[k], start |-> chain[k]] \in ToSet(disk[chain[k - 1]].index)
  BY DEF Chains
<1> HIDE DEF n, W
<1>4. Follows(0)
  BY <1>2, <1>3 DEF AtRoot, Place
<1>5. ASSUME NEW k \in 0 .. n - 1, Follows(k) PROVE Follows(k + 1)
  <2>1. k + 1 \in 1 .. n /\ (k + 1) - 1 = k /\ k \in 0 .. n /\ k + 1 \in 0 .. n
    BY <1>1
  <2>2. disk[chain[k]].type = "directory" /\ Place(W[k]) = chain[k]
    BY <1>3, <1>5, <2>1
  <2>3. afs_exists_in_dir(disk[chain[k]].index, names[k + 1]) = chain[k + 1]
    <3>1. /\ chain[k] \in Blocks /\ chain[k + 1] \in Blocks
          /\ [name |-> names[k + 1], start |-> chain[k + 1]] \in ToSet(disk[chain[k]].index)
      BY <1>3, <2>1
    <3> QED BY <2>2, <3>1, NamedOnce
  <2>4. chain[k + 1] # 0
    BY <1>3, <2>1, ImageTyped
  <2>5. W[k + 1] = Step(W[k], names[k + 1])
    BY <1>2, <2>1
  <2>6. W[k + 1] = [found |-> TRUE, block |-> chain[k + 1],
                    dir |-> IF disk[chain[k + 1]].type = "directory" THEN "result" ELSE W[k].dir]
    BY <1>5, <2>2, <2>3, <2>4, <2>5 DEF Step, Place
  <2> QED BY <2>6 DEF Place
<1>6. 0 .. n \subseteq {k \in 0 .. n : Follows(k)}
  <2> HIDE DEF Follows
  <2>1. 0 \in {k \in 0 .. n : Follows(k)}
    BY <1>1, <1>4
  <2>2. \A k \in 0 .. n - 1 : k + 1 \in 0 .. n
    BY <1>1
  <2>3. \A k \in 0 .. n - 1 :
          k \in {j \in 0 .. n : Follows(j)} => k + 1 \in {j \in 0 .. n : Follows(j)}
    BY <1>5, <2>2
  <2> QED BY <1>1, <2>1, <2>3, Climb
<1> QED BY <1>6 DEF n, W

\* A file that a path names is what the walk finds and where the search finds it.
LEMMA FileIsFound ==
  ASSUME disk \in Disks, WellNamed, NEW path \in Paths, NEW b \in FilesNamed(path)
  PROVE  /\ afs_get_generic_block(path.parts).found
         /\ afs_get_generic_block(path.parts).block = b
         /\ afs_get_file_location(path) = b
<1> DEFINE parts == path.parts
           n == Len(parts)
<1>1. parts \in Seq(STRING) /\ parts # <<>> /\ n \in Nat \ {0}
  BY PathTyped, FrontIs
<1>2. PICK chain : Chains(chain, parts) /\ chain[n] = b
  BY DEF FilesNamed, Leads, Chains, Blocks
<1>3. /\ chain[n - 1] \in Blocks /\ chain[n] \in Blocks
      /\ disk[chain[n - 1]].type = "directory"
      /\ [name |-> parts[n], start |-> chain[n]] \in ToSet(disk[chain[n - 1]].index)
  <2>1. n \in 1 .. n /\ n - 1 \in 0 .. n /\ n \in 0 .. n
    BY <1>1
  <2> QED BY <1>2, <2>1 DEF Chains
<1>4. parts[n] # "" /\ IndexOf(disk[chain[n - 1]].index, parts[n]) = b
  BY <1>2, <1>3, NamedOnce
<1>5. Last(parts) = parts[n]
  BY <1>1, FrontIs
<1>6. afs_get_generic_block(parts) = Walk(parts)[n]
  BY <1>4, <1>5 DEF afs_get_generic_block, Walked
<1>7. Walk(parts)[n].found /\ Walk(parts)[n].block = b
  <2>1. n \in 0 .. n
    BY <1>1
  <2> QED BY <1>1, <1>2, <2>1, WalkFollows
<1>8. /\ afs_get_parent_dir(path).found
      /\ afs_get_parent_dir(path).block = chain[n - 1]
  <2>1. CASE n = 1
    <3>1. chain[n - 1] = Root
      BY <1>2, <2>1 DEF Chains
    <3> QED BY <2>1, <3>1 DEF afs_get_parent_dir
  <2>2. CASE n # 1
    <3> DEFINE front == Front(parts)
    <3>1. /\ front \in Seq(STRING) /\ Len(front) = n - 1 /\ n - 1 \in Nat \ {0}
          /\ \A k \in 1 .. n - 1 : front[k] = parts[k]
      BY <1>1, <2>2, FrontIs
    <3>2. front # <<>> /\ Last(front) = front[n - 1]
      <4> HIDE DEF n, front
      <4>1. front # <<>>
        BY <3>1, EmptySeq
      <4> QED BY <3>1, <4>1, FrontIs
    <3> DEFINE cut == [k \in 0 .. n - 1 |-> chain[k]]
    <3> HIDE DEF front
    <3>3. Chains(cut, front)
      <4>1. cut \in [0 .. n - 1 -> Blocks] /\ cut[0] = Root
        BY <1>1, <1>2 DEF Chains
      <4>2. ASSUME NEW k \in 1 .. n - 1
            PROVE  /\ disk[cut[k - 1]].type = "directory"
                   /\ [name |-> front[k], start |-> cut[k]] \in ToSet(disk[cut[k - 1]].index)
        <5>1. k \in 1 .. n /\ k \in 0 .. n - 1 /\ k - 1 \in 0 .. n - 1
          BY <1>1
        <5>2. cut[k] = chain[k] /\ cut[k - 1] = chain[k - 1] /\ front[k] = parts[k]
          BY <3>1, <5>1
        <5> QED BY <1>2, <5>1, <5>2 DEF Chains
      <4> QED BY <3>1, <4>1, <4>2 DEF Chains
    <3>4. n - 1 \in 0 .. n - 1 /\ n - 1 \in 1 .. n - 1 /\ (n - 1) - 1 \in 0 .. n - 1
      <4> HIDE DEF n
      <4> QED BY <1>1, <3>1
    <3>5. cut[n - 1] = chain[n - 1]
      BY <3>4
    <3> HIDE DEF cut
    <3>6. Walk(front)[n - 1].found /\ Walk(front)[n - 1].block = chain[n - 1]
      BY <3>1, <3>3, <3>4, <3>5, WalkFollows
    <3>7. Last(front) # ""
      <4>1. /\ cut[(n - 1) - 1] \in Blocks /\ cut[n - 1] \in Blocks
            /\ disk[cut[(n - 1) - 1]].type = "directory"
            /\ [name |-> front[n - 1], start |-> cut[n - 1]]
                 \in ToSet(disk[cut[(n - 1) - 1]].index)
        BY <3>1, <3>3, <3>4 DEF Chains
      <4> QED BY <3>2, <4>1, NamedOnce
    <3>8. afs_get_generic_block(front) = Walk(front)[n - 1]
      BY <3>1, <3>7 DEF afs_get_generic_block, Walked
    <3>9. afs_get_parent_dir(path) = afs_get_generic_block(front)
      BY <2>2 DEF afs_get_parent_dir, front
    <3> QED BY <3>6, <3>8, <3>9
  <2> QED BY <2>1, <2>2
<1>9. afs_get_file_location(path) = b
  BY <1>4, <1>5, <1>8 DEF afs_get_file_location
<1> QED BY <1>6, <1>7, <1>9

-----------------------------------------------------------------------------
\* Reading.

LEMMA Division ==
  ASSUME NEW a \in Nat, NEW d \in Nat \ {0}
  PROVE  /\ a \div d \in Nat /\ (a \div d) * d \in Nat
         /\ (a \div d) * d <= a /\ a < (a \div d) * d + d
<1>1. a \div d \in Int
  OBVIOUS
<1>2. a \div d >= 0
  OBVIOUS
<1>3. d * (a \div d) <= a
  OBVIOUS
<1>4. a < d * (a \div d) + d
  OBVIOUS
<1> DEFINE q == a \div d
<1> HIDE DEF q
<1>5. q \in Nat /\ d * q = q * d /\ q * d \in Nat
  BY <1>1, <1>2 DEF q
<1> QED BY <1>3, <1>4, <1>5 DEF q

\* As many sectors as are read hold every byte of the range.
LEMMA RangeIsRead ==
  ASSUME NEW offset \in Nat, NEW size \in Nat
  PROVE  ahci_read_at_byte_offset_512_chunks(offset, size) = [i \in 1 .. size |-> offset + i - 1]
<1> DEFINE q == offset \div SectorSize
           r == size \div SectorSize
           buffer == Filled(q, SectorsFor(size))
<1>1. SectorSize \in Nat \ {0}
  BY FilesAssumption
<1>2. /\ q * SectorSize \in Nat /\ q * SectorSize <= offset
      /\ offset < q * SectorSize + SectorSize
  BY <1>1, Division
<1>3. r \in Nat /\ r * SectorSize \in Nat /\ size < r * SectorSize + SectorSize
  BY <1>1, Division
<1>4. (r + 2) * SectorSize = r * SectorSize + 2 * SectorSize
  <2> HIDE DEF r
  <2> QED BY <1>1, <1>3
<1>5. buffer = [c \in 0 .. (r * SectorSize + 2 * SectorSize) - 1 |-> q * SectorSize + c]
  BY <1>4 DEF Filled, SectorsFor
<1> DEFINE qs == q * SectorSize
           rs == r * SectorSize
<1> HIDE DEF buffer
<1>6. ASSUME NEW i \in 1 .. size
      PROVE  /\ (offset - qs) + i - 1 \in DOMAIN buffer
             /\ buffer[(offset - qs) + i - 1] = offset + i - 1
  <2> HIDE DEF qs, rs
  <2>1. /\ qs \in Nat /\ rs \in Nat /\ qs <= offset /\ offset < qs + SectorSize
        /\ size < rs + SectorSize
    BY <1>2, <1>3 DEF qs, rs
  <2>2. (offset - qs) + i - 1 \in 0 .. (rs + 2 * SectorSize) - 1
    BY <1>1, <2>1
  <2>3. buffer = [c \in 0 .. (rs + 2 * SectorSize) - 1 |-> qs + c]
    BY <1>5 DEF qs, rs
  <2>4. qs + ((offset - qs) + i - 1) = offset + i - 1
    BY <2>1
  <2> QED BY <2>2, <2>3, <2>4
<1>7. ahci_read_at_byte_offset_512_chunks(offset, size) =
        [i \in 1 .. size |-> IF (offset - qs) + i - 1 \in DOMAIN buffer
                              THEN buffer[(offset - qs) + i - 1] ELSE Stale]
  BY DEF ahci_read_at_byte_offset_512_chunks, buffer
<1> HIDE DEF qs
<1> QED BY <1>6, <1>7

-----------------------------------------------------------------------------
\* The steps.

LEMMA InitIInv == Init => IInv
<1> SUFFICES ASSUME Init PROVE IInv
  OBVIOUS
<1>1. TypeOK
  <2>1. Closed \in Descriptor /\ 3 \in 3 .. MAX_FD - 1
    BY FilesAssumption DEF Closed, Descriptor
  <2>2. answer \in Answer
    BY DEF Init, Answer
  <2> QED BY <2>1, <2>2 DEF Init, TypeOK
<1>2. Opened = {}
  BY DEF Init, Opened
<1>3. answer.call = "none"
  BY DEF Init
<1> QED BY <1>1, <1>2, <1>3 DEF IInv, LookedUp, Refused, ReadDeliversTheRange

\* The image stays, and with it what a path leads to.
LEMMA SameImage ==
  ASSUME UNCHANGED disk
  PROVE  \A i : IsLookedUp(fd[i])' <=> IsLookedUp(fd'[i])
  BY DEF IsLookedUp, afs_get_generic_block, Walk, Step, afs_exists_in_dir,
         afs_get_file_location, afs_get_parent_dir, IndexOf

LEMMA SameRefusal ==
  ASSUME UNCHANGED disk
  PROVE  Refused' <=> ((answer'.call = "open" /\ ~answer'.lost /\ answer'.result = -1) =>
                         ~afs_get_generic_block(answer'.path.parts).found \/ Full')
  BY DEF Refused, afs_get_generic_block, Walk, Step, afs_exists_in_dir

\* A descriptor is given out; the others stay what they were.
LEMMA OpensKeeps ==
  ASSUME IInv, UNCHANGED disk, ~Full, NEW path \in Paths, NEW lost \in BOOLEAN,
         NEW base \in Nat, NEW size \in Nat, Opens(path, lost, base, size),
         ~lost => /\ afs_get_generic_block(path.parts).found
                  /\ size = disk[afs_get_generic_block(path.parts).block].size
                  /\ base = afs_get_file_location(path) + HeaderSize
  PROVE  IInv'
<1> DEFINE new == [path |-> IF lost THEN <<>> ELSE path, lost |-> lost,
                   base |-> base, size |-> size, position |-> 0]
<1>1. /\ fd \in [0 .. MAX_FD - 1 -> Descriptor] /\ next_fd \in 3 .. MAX_FD - 1
      /\ disk \in Disks /\ MAX_FD \in Nat
  BY FilesAssumption DEF IInv, TypeOK
<1>2. next_fd \in 3 .. MAX_FD - 2 /\ next_fd \in 0 .. MAX_FD - 1
  BY <1>1 DEF Full
<1>3. /\ fd' = [fd EXCEPT ![next_fd] = new] /\ next_fd' = next_fd + 1
      /\ answer' = [call |-> "open", path |-> path, lost |-> lost, result |-> next_fd]
  BY DEF Opens
<1>4. new \in Descriptor
  BY DEF Descriptor
<1>5. TypeOK'
  <2>1. fd' \in [0 .. MAX_FD - 1 -> Descriptor]
    BY <1>1, <1>3, <1>4
  <2>2. next_fd' \in 3 .. MAX_FD - 1
    BY <1>1, <1>2, <1>3
  <2>3. answer' \in Answer
    <3>1. next_fd \in -1 .. MAX_FD - 1
      BY <1>1, <1>2
    <3> QED BY <1>3, <3>1 DEF Answer
  <2> QED BY <1>1, <2>1, <2>2, <2>3 DEF TypeOK, Descriptor, Answer
<1>6. /\ fd'[next_fd] = new
      /\ \A i \in 3 .. next_fd' - 1 : i = next_fd \/ (i \in 3 .. next_fd - 1 /\ fd'[i] = fd[i])
  BY <1>1, <1>2, <1>3
<1>7. LookedUp'
  <2> SUFFICES ASSUME NEW i \in 3 .. next_fd' - 1, ~fd'[i].lost
               PROVE  IsLookedUp(fd'[i])
    <3>1. \A i \in 3 .. next_fd' - 1 : ~fd'[i].lost => IsLookedUp(fd'[i])
      OBVIOUS
    <3> QED BY <3>1, SameImage DEF LookedUp, Opened
  <2>1. CASE i = next_fd
    BY <1>6, <2>1 DEF IsLookedUp
  <2>2. CASE i \in 3 .. next_fd - 1 /\ fd'[i] = fd[i]
    BY <2>2 DEF IInv, LookedUp, Opened
  <2> QED BY <1>6, <2>1, <2>2
<1>8. Refused' /\ ReadDeliversTheRange'
  BY <1>2, <1>3 DEF Refused, ReadDeliversTheRange
<1> QED BY <1>5, <1>7, <1>8 DEF IInv

\* What cannot be opened leaves the table as it was.
LEMMA AnswersKeeps ==
  ASSUME IInv, UNCHANGED disk, NEW path \in Paths, NEW lost \in BOOLEAN,
         NEW result \in {-1, 0}, Answers(path, lost, result),
         (result = -1 /\ ~lost) => ~afs_get_generic_block(path.parts).found \/ Full
  PROVE  IInv'
<1>1. /\ fd' = fd /\ next_fd' = next_fd /\ disk' = disk
      /\ answer' = [call |-> "open", path |-> path, lost |-> lost, result |-> result]
  BY DEF Answers
<1>2. TypeOK'
  <2>1. answer' \in Answer
    <3>1. result \in -1 .. MAX_FD - 1
      BY FilesAssumption
    <3> QED BY <1>1, <3>1 DEF Answer
  <2> QED BY <1>1, <2>1 DEF IInv, TypeOK, Descriptor, Answer
<1>3. LookedUp'
  BY <1>1, SameImage DEF IInv, LookedUp, Opened
<1>4. Refused'
  <2>1. /\ answer'.path = path /\ answer'.lost = lost /\ answer'.result = result
        /\ Full' = Full
    BY <1>1 DEF Full
  <2> QED BY <1>1, <2>1, SameRefusal
<1>5. ReadDeliversTheRange'
  BY <1>1 DEF ReadDeliversTheRange
<1> QED BY <1>2, <1>3, <1>4, <1>5 DEF IInv

LEMMA OpenKeeps ==
  ASSUME IInv, NEW path \in Paths, syscall_open(path)
  PROVE  IInv'
<1>1. disk' = disk /\ disk \in Disks /\ HeaderSize \in Nat /\ Sizes \subseteq Nat
  BY FilesAssumption DEF syscall_open, IInv, TypeOK
<1>2. CASE Answers(path, FALSE, 0)
  <2>1. 0 \in {-1, 0} /\ 0 # -1
    OBVIOUS
  <2> QED BY <1>1, <1>2, <2>1, AnswersKeeps
<1>3. CASE afs_open(path)
  <2> DEFINE file == afs_get_generic_block(path.parts)
             location == afs_get_file_location(path)
  <2>1. CASE ~file.found /\ Answers(path, FALSE, -1)
    BY <1>1, <2>1, AnswersKeeps
  <2>2. CASE Full /\ Answers(path, FALSE, -1)
    BY <1>1, <2>2, AnswersKeeps
  <2>3. CASE file.found /\ ~Full /\ Opens(path, FALSE, location + HeaderSize, disk[file.block].size)
    <3>1. disk[file.block].size \in Nat
      <4>1. file \in At
        BY <1>1, PathTyped, GenericTyped
      <4>2. file.block \in Blocks
        BY <4>1 DEF At
      <4> QED BY <1>1, <4>2, ImageTyped
    <3>2. location + HeaderSize \in Nat
      <4>1. location \in Nat
        BY <1>1, LocationTyped, ImageTyped
      <4> QED BY <1>1, <4>1
    <3> QED BY <1>1, <2>3, <3>1, <3>2, OpensKeeps
  <2> QED BY <1>3, <2>1, <2>2, <2>3 DEF afs_open
<1>4. CASE afs_open_unread(path)
  <2>1. CASE Answers(path, TRUE, -1)
    BY <1>1, <2>1, AnswersKeeps
  <2>2. ASSUME ~Full, NEW base \in DOMAIN disk, NEW size \in Sizes, Opens(path, TRUE, base, size)
        PROVE  IInv'
    <3>1. base \in Nat /\ size \in Nat
      BY <1>1, ImageTyped DEF Blocks
    <3> QED BY <1>1, <2>2, <3>1, OpensKeeps
  <2> QED BY <1>4, <2>1, <2>2 DEF afs_open_unread
<1> QED BY <1>2, <1>3, <1>4 DEF syscall_open

LEMMA ReadKeeps ==
  ASSUME IInv, NEW f \in 1 .. MAX_FD - 1, NEW size \in Sizes, syscall_read(f, size)
  PROVE  IInv'
<1>1. /\ disk' = disk /\ fd' = fd /\ next_fd' = next_fd
      /\ size \in Nat /\ f \in Nat /\ f \in 0 .. MAX_FD - 1
  BY FilesAssumption DEF syscall_read
<1>2. fd[f].base \in Nat /\ fd[f].position = 0
  BY <1>1 DEF IInv, TypeOK, Descriptor
<1> DEFINE data == [i \in 1 .. size |-> fd[f].base + i - 1]
<1>3. ahci_read_at_byte_offset_512_chunks(fd[f].base + fd[f].position, size) = data
  <2>1. fd[f].base + fd[f].position = fd[f].base
    BY <1>2
  <2> QED BY <1>1, <1>2, <2>1, RangeIsRead
<1>4. \/ answer' = [call |-> "read", fd |-> f, size |-> size, result |-> 0, data |-> <<>>]
      \/ answer' = [call |-> "read", fd |-> f, size |-> size, result |-> 1, data |-> data]
  BY <1>3 DEF syscall_read, afs_read
<1>5. data \in Seq(Int) /\ <<>> \in Seq(Int)
  <2>1. \A i \in 1 .. size : fd[f].base + i - 1 \in Int
    BY <1>1, <1>2
  <2> QED BY <1>1, <2>1
<1>6. answer' \in Answer
  <2> HIDE DEF data
  <2>1. \A r \in 0 .. 1, d \in Seq(Int) :
          [call |-> "read", fd |-> f, size |-> size, result |-> r, data |-> d] \in Answer
    BY <1>1 DEF Answer
  <2>2. 0 \in 0 .. 1 /\ 1 \in 0 .. 1
    OBVIOUS
  <2>3. answer' = [call |-> "read", fd |-> f, size |-> size, result |-> 0, data |-> <<>>]
          => answer' \in Answer
    BY <1>5, <2>1, <2>2, Zenon
  <2>4. answer' = [call |-> "read", fd |-> f, size |-> size, result |-> 1, data |-> data]
          => answer' \in Answer
    BY <1>5, <2>1, <2>2, Zenon
  <2> QED BY <1>4, <2>3, <2>4
<1>7. TypeOK'
  BY <1>1, <1>6 DEF IInv, TypeOK, Descriptor, Answer
<1>8. LookedUp'
  BY <1>1, SameImage DEF IInv, LookedUp, Opened
<1>9. Refused' /\ ReadDeliversTheRange'
  <2>1. CASE answer' = [call |-> "read", fd |-> f, size |-> size, result |-> 0, data |-> <<>>]
    BY <2>1 DEF Refused, ReadDeliversTheRange
  <2>2. CASE answer' = [call |-> "read", fd |-> f, size |-> size, result |-> 1, data |-> data]
    <3>1. /\ answer'.call = "read" /\ answer'.data = data
          /\ answer'.size = size /\ answer'.fd = f
      BY <2>2
    <3> QED BY <1>1, <3>1 DEF Refused, ReadDeliversTheRange
  <2> QED BY <1>4, <2>1, <2>2
<1> QED BY <1>7, <1>8, <1>9 DEF IInv

LEMMA NextIInv == IInv /\ [Next]_vars => IInv'
<1> SUFFICES ASSUME IInv, [Next]_vars PROVE IInv'
  OBVIOUS
<1>1. ASSUME NEW path \in Paths, syscall_open(path) PROVE IInv'
  BY <1>1, OpenKeeps
<1>2. ASSUME NEW f \in 1 .. MAX_FD - 1, NEW size \in Sizes, syscall_read(f, size) PROVE IInv'
  BY <1>2, ReadKeeps
<1>3. CASE UNCHANGED vars
  <2>1. LookedUp'
    BY <1>3, SameImage DEF IInv, LookedUp, Opened, vars
  <2>2. Refused'
    BY <1>3, SameRefusal DEF IInv, Refused, Full, vars
  <2> QED BY <1>3, <2>1, <2>2 DEF IInv, TypeOK, Descriptor, Answer, ReadDeliversTheRange, vars
<1> QED BY <1>1, <1>2, <1>3 DEF Next

LEMMA Invariant == Spec => []IInv
  BY InitIInv, NextIInv, PTL DEF Spec

-----------------------------------------------------------------------------
\* The theorems.

\* The descriptors keep their types, and next_fd stays within the table, whatever is opened
\* and read and whichever blocks cannot be read (afs_open, syscall_open).
THEOREM TypeCorrect == Spec => []TypeOK
  BY Invariant, PTL DEF IInv

\* A descriptor that was opened for the path of a file has the size that afs_get_generic_block
\* finds and the place that afs_get_file_location finds, and both are that file's: for every
\* image without a name that stands twice in a directory, at every depth.
THEOREM DescriptorsAreTheirFiles == Spec => []DescriptorIsItsFile
<1>1. IInv => DescriptorIsItsFile
  <2> SUFFICES ASSUME IInv, WellNamed, NEW i \in Opened, NEW b \in FilesNamed(fd[i].path)
               PROVE  fd[i].base = b + HeaderSize /\ fd[i].size = disk[b].size
    BY DEF DescriptorIsItsFile
  <2>1. IsLookedUp(fd[i]) /\ fd[i].path \in Paths /\ disk \in Disks
    BY DEF IInv, TypeOK, LookedUp, IsLookedUp
  <2>2. /\ afs_get_generic_block(fd[i].path.parts).block = b
        /\ afs_get_file_location(fd[i].path) = b
    BY <2>1, FileIsFound
  <2> QED BY <2>1, <2>2 DEF IsLookedUp
<1> QED BY <1>1, Invariant, PTL

\* afs_open gives no descriptor only when the path names no file or when all are given out.
THEOREM OpenFailsForAReason == Spec => []FailsForAReason
<1>1. IInv => FailsForAReason
  <2> SUFFICES ASSUME IInv, WellNamed, answer.call = "open", ~answer.lost, answer.result = -1,
                      NEW b \in FilesNamed(answer.path)
               PROVE  next_fd = MAX_FD - 1
    BY DEF FailsForAReason
  <2>1. answer.path \in Paths /\ disk \in Disks
    BY DEF IInv, TypeOK, Answer
  <2>2. afs_get_generic_block(answer.path.parts).found
    BY <2>1, FileIsFound
  <2> QED BY <2>2 DEF IInv, Refused, Full
<1> QED BY <1>1, Invariant, PTL

\* ahci_read_at_byte_offset_512_chunks reads as many sectors as hold the range, wherever in a
\* sector it begins and ends: a read that succeeds delivers the file's bytes and no others.
THEOREM ReadsDeliver == Spec => []ReadDeliversTheRange
  BY Invariant, PTL DEF IInv

=============================================================================
