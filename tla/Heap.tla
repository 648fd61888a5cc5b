-------------------------------- MODULE Heap --------------------------------
(***************************************************************************)
(* The kernel heap, util/kmalloc.c (liballoc): major blocks taken from the *)
(* page allocator, each holding minor blocks, one per live allocation.     *)
(*                                                                         *)
(* A major is known by the order in which it was created; addresses inside *)
(* it are offsets from its start. The list of minors is a set of records:  *)
(* the code keeps it in address order, so a walk along it is a walk over   *)
(* the offsets from low to high. kmalloc and kfree are atomic here; what   *)
(* an interrupt does to them is module HeapIrq's subject.                  *)
(***************************************************************************)
EXTENDS Integers, SequencesExt

CONSTANTS
  PageSize, PageCount,    \* l_pageSize, l_pageCount
  MajHdr, MinHdr,         \* sizeof(struct liballoc_major), ..._minor
  Alignment, AlignInfo,   \* ALIGNMENT, ALIGN_INFO
  Requests,               \* the sizes clients ask for
  MaxMajors,              \* bound on the majors ever created
  MaxPages                \* bound on the pages of one major

ASSUME HeapAssumption ==
  /\ PageSize \in Nat \ {0} /\ PageCount \in Nat \ {0}
  /\ MajHdr \in Nat /\ MinHdr \in Nat
  /\ Alignment \in Nat \ {0} /\ AlignInfo \in Nat
  /\ Requests \subseteq Nat
  /\ MaxMajors \in Nat /\ MaxPages \in Nat

Majors == 1 .. MaxMajors
None == 0                              \* the NULL of l_memRoot and l_bestBet

\* A minor block: offset of its header, size with and without alignment room.
Minor == [at : Nat, size : Nat, req : Nat]

VARIABLES
  order,        \* the majors from l_memRoot along next
  made,         \* how many majors were ever created
  msize, usage, \* size and usage of each major
  minors,       \* the minors of each major
  bestBet,      \* l_bestBet
  allocated,    \* l_allocated
  inuse,        \* l_inuse
  taken,        \* bytes got from page_allocate
  moving        \* the block krealloc has copied and not yet freed

vars == <<order, made, msize, usage, minors, bestBet, allocated, inuse, taken, moving>>

NotMoving == <<None, None>>

TypeOK ==
  /\ order \in Seq(Majors)
  /\ made \in 0 .. MaxMajors
  /\ msize \in [Majors -> Nat]
  /\ usage \in [Majors -> Int]
  /\ minors \in [Majors -> SUBSET Minor]
  /\ bestBet \in Majors \cup {None}
  /\ allocated \in Int /\ inuse \in Int /\ taken \in Nat
  /\ moving = NotMoving \/ moving \in Majors \X Minor

Init ==
  /\ order = <<>>
  /\ made = 0
  /\ msize = [m \in Majors |-> 0]
  /\ usage = [m \in Majors |-> 0]
  /\ minors = [m \in Majors |-> {}]
  /\ bestBet = None
  /\ allocated = 0 /\ inuse = 0 /\ taken = 0
  /\ moving = NotMoving

-----------------------------------------------------------------------------
\* Sizes and places.

\* Variant: room for the alignment note but none for the padding.
Slack_NoPadding == AlignInfo

Slack == Alignment + AlignInfo
SizeOf(req) == req + Slack
Need(req) == SizeOf(req) + MinHdr

EndOf(b) == b.at + MinHdr + b.size
FreeIn(m) == msize[m] - usage[m]

\* Variant: the room test forgets the header of the new minor.
Fits_NoHeader(m, p, need) ==
  /\ p + need - MinHdr <= msize[m]
  /\ \A b \in minors[m] : p + need - MinHdr <= b.at \/ EndOf(b) <= p

\* need bytes from p on are free, as CASE 2, 3, 4.1 and 4.2 find.
Fits(m, p, need) ==
  /\ p + need <= msize[m]
  /\ \A b \in minors[m] : p + need <= b.at \/ EndOf(b) <= p

\* Where kmalloc looks for room: in front of the first minor, then after each.
Places(m) == {MajHdr} \cup {EndOf(b) : b \in minors[m]}

FirstPlace(m, p, need) ==
  /\ p \in Places(m) /\ Fits(m, p, need)
  /\ \A q \in Places(m) : Fits(m, q, need) => p <= q

\* CASE 1 sends the search on when the total is too small, CASE 5 when no gap is.
HasRoom(m, need) ==
  FreeIn(m) >= need /\ \E p \in Places(m) : Fits(m, p, need)

-----------------------------------------------------------------------------
\* The order in which the majors are searched.

BestSize == IF bestBet = None THEN 0 ELSE FreeIn(bestBet)

\* Where major m stands in the list.
At(m) == CHOOSE i \in DOMAIN order : order[i] = m

StartsAtBet(need) == bestBet # None /\ BestSize > need

\* Variant: a search that began at the best bet does not start again at the root.
Path_NoRestart(need) ==
  IF StartsAtBet(need) THEN SubSeq(order, At(bestBet), Len(order)) ELSE order

\* From l_bestBet to the end and then all over again, or from l_memRoot.
Path(need) ==
  IF StartsAtBet(need) THEN SubSeq(order, At(bestBet), Len(order)) \o order ELSE order

\* l_bestBet after the search saw majors with these amounts of free memory: the
\* first to exceed every earlier one and the best bet the search began with.
BestOf(seen, free) ==
  LET better == {k \in DOMAIN seen :
                   /\ free[seen[k]] > BestSize
                   /\ \A j \in DOMAIN seen : free[seen[j]] <= free[seen[k]]
                   /\ \A j \in 1 .. k - 1 : free[seen[j]] < free[seen[k]]}
  IN  IF better = {} THEN bestBet ELSE seen[CHOOSE k \in better : TRUE]

-----------------------------------------------------------------------------
\* kmalloc.

Place(m, p, req) ==
  /\ minors' = [minors EXCEPT ![m] = @ \cup {[at |-> p, size |-> SizeOf(req), req |-> req]}]
  /\ inuse' = inuse + SizeOf(req)

\* The first major on the path that has room takes the block.
KmallocFinds(req) ==
  LET path == Path(Need(req)) IN
  /\ \E k \in DOMAIN path :
       /\ HasRoom(path[k], Need(req))
       /\ \A j \in 1 .. k - 1 : ~HasRoom(path[j], Need(req))
       /\ \E p \in Places(path[k]) : FirstPlace(path[k], p, Need(req)) /\ Place(path[k], p, req)
       /\ usage' = [usage EXCEPT ![path[k]] = @ + Need(req)]
       /\ bestBet' = BestOf(SubSeq(path, 1, k), [m \in Majors |-> FreeIn(m)])
  /\ UNCHANGED <<order, made, msize, allocated, taken>>

\* The pages allocate_new_page asks for: enough, never fewer than PageCount.
PagesFor(st, req) ==
  /\ st >= PageCount /\ st * PageSize >= Need(req) + MajHdr
  /\ st > PageCount => (st - 1) * PageSize < Need(req) + MajHdr

\* No major has room, or there is none: a new one goes to the end of the list.
\* Coming from CASE 1 it is filled at once (CASE 2); coming from CASE 5, or as
\* the new root, it first takes part in the choice of the best bet.
KmallocGrows(req) ==
  LET path == Path(Need(req))
      new == made + 1
      considered == order = <<>> \/ FreeIn(order[Len(order)]) >= Need(req)
  IN
  /\ \A k \in DOMAIN path : ~HasRoom(path[k], Need(req))
  /\ made < MaxMajors
  /\ \E st \in 1 .. MaxPages :
       /\ PagesFor(st, req)
       /\ msize' = [msize EXCEPT ![new] = st * PageSize]
       /\ usage' = [usage EXCEPT ![new] = MajHdr + Need(req)]
       /\ allocated' = allocated + st * PageSize
       /\ taken' = taken + st * PageSize
       /\ bestBet' = BestOf(IF considered THEN Append(path, new) ELSE path,
                            [m \in Majors |-> IF m = new THEN st * PageSize - MajHdr
                                                         ELSE FreeIn(m)])
  /\ Place(new, MajHdr, req)
  /\ order' = Append(order, new)
  /\ made' = new

Kmalloc(req) ==
  /\ moving = NotMoving
  /\ KmallocFinds(req) \/ KmallocGrows(req)
  /\ UNCHANGED moving

-----------------------------------------------------------------------------
\* kfree of the minor b of major m.

Without(m) == RemoveAt(order, At(m))

\* Variant: only the root is taken out, the neighbours of another major still
\* point to it.
Unlink_OnlyRoot(m) ==
  /\ order' = IF At(m) = 1 THEN Tail(order) ELSE order
  /\ bestBet' = IF bestBet = m THEN None ELSE bestBet
  /\ allocated' = allocated - msize[m]

\* The major holds no minor any more: it leaves the list. liballoc_free is empty,
\* so its pages are lost.
Unlink(m) ==
  /\ order' = Without(m)
  /\ bestBet' = IF bestBet = m THEN None ELSE bestBet
  /\ allocated' = allocated - msize[m]

\* Variant: kfree gives back the data of the minor but not its header.
Release_NoHeader(m, b) ==
  /\ minors' = [minors EXCEPT ![m] = @ \ {b}]
  /\ usage' = [usage EXCEPT ![m] = @ - b.size]
  /\ inuse' = inuse - b.size

Release(m, b) ==
  /\ minors' = [minors EXCEPT ![m] = @ \ {b}]
  /\ usage' = [usage EXCEPT ![m] = @ - (b.size + MinHdr)]
  /\ inuse' = inuse - b.size

KfreeBlock(m, b) ==
  /\ b \in minors[m]
  /\ Release(m, b)
  /\ \/ minors[m] = {b} /\ Unlink(m)
     \/ /\ minors[m] # {b}
        /\ bestBet' = IF /\ bestBet # None
                         /\ msize[m] - usage'[m] > msize[bestBet] - usage'[bestBet]
                        THEN m ELSE bestBet
        /\ UNCHANGED <<order, allocated>>
  /\ UNCHANGED <<made, msize, taken>>

Kfree(m, b) == moving = NotMoving /\ KfreeBlock(m, b) /\ UNCHANGED moving

-----------------------------------------------------------------------------
\* krealloc of the minor b of major m: a request that is not larger only changes
\* req_size; a larger one is kmalloc, a copy and kfree, size 0 is kfree alone.

KreallocShrinks(m, b, req) ==
  /\ moving = NotMoving
  /\ b \in minors[m] /\ req # 0 /\ req <= b.req
  /\ minors' = [minors EXCEPT ![m] = (@ \ {b}) \cup {[b EXCEPT !.req = req]}]
  /\ UNCHANGED <<order, made, msize, usage, bestBet, allocated, inuse, taken, moving>>

KreallocCopies(m, b, req) ==
  /\ moving = NotMoving
  /\ b \in minors[m] /\ req > b.req
  /\ KmallocFinds(req) \/ KmallocGrows(req)
  /\ moving' = <<m, b>>

KreallocFrees ==
  /\ moving # NotMoving
  /\ KfreeBlock(moving[1], moving[2])
  /\ moving' = NotMoving

Next ==
  \/ \E req \in Requests : Kmalloc(req)
  \/ \E m \in Majors : \E b \in minors[m] : Kfree(m, b)
  \/ \E m \in Majors : \E b \in minors[m] : \E req \in Requests :
       KreallocShrinks(m, b, req) \/ KreallocCopies(m, b, req)
  \/ KreallocFrees

Spec == Init /\ [][Next]_vars

=============================================================================
