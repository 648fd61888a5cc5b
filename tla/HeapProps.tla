------------------------------ MODULE HeapProps ------------------------------
(***************************************************************************)
(* What makes the kernel heap of module Heap correct.                      *)
(***************************************************************************)
EXTENDS Heap

Listed == {order[i] : i \in DOMAIN order}

\* Two live blocks, headers included, never share a byte, none reaches over the
\* head or the end of its major: whichever gap kmalloc chose (kmalloc.c:308-431).
BlocksDisjoint ==
  \A m \in Majors : \A b \in minors[m] :
    /\ MajHdr <= b.at /\ EndOf(b) <= msize[m]
    /\ \A c \in minors[m] : b # c => EndOf(b) <= c.at \/ EndOf(c) <= b.at

\* The address kmalloc returns: ALIGN skips AlignInfo bytes and rounds up.
Ptr(b) ==
  LET p == b.at + MinHdr + AlignInfo
  IN  IF p % Alignment = 0 THEN p ELSE p + (Alignment - (p % Alignment))

\* Every byte a client may use lies in its own block after ALIGN moved its start
\* (kmalloc.c:13-26, 222-226), also after krealloc lowered req_size or moved the data.
ClientBytesFit ==
  \A m \in Majors : \A b \in minors[m] : Ptr(b) + b.req <= EndOf(b)

\* The bytes of a block, without and with its header.
Bytes == [b \in Minor |-> b.size]
BytesAndHeader == [b \in Minor |-> b.size + MinHdr]

\* usage of a listed major is its header plus its blocks, whatever sequence of
\* allocations and frees led there; CASE 1 skips majors by it (kmalloc.c:282).
UsageExact ==
  \A m \in Listed : usage[m] = MajHdr + SumFunctionOnSet(BytesAndHeader, minors[m])

\* The running totals of kmalloc.c:78-79 agree with the blocks and the list; of the
\* pages that were taken none came back (liballoc_free, kmalloc.c:752-762).
TotalsExact ==
  /\ inuse = SumFunctionOnSet([m \in Majors |-> SumFunctionOnSet(Bytes, minors[m])], Majors)
  /\ allocated = SumFunctionOnSet(msize, Listed)
  /\ taken = SumFunctionOnSet(msize, 1 .. made)

\* The three accounts kmalloc, kfree and krealloc keep stay exact together through any
\* sequence of calls: a major's, the blocks' and the system's.
AccountsExact == UsageExact /\ TotalsExact

\* A major is in the list, once, exactly while it holds a block: no live block is
\* out of reach of the search and no empty major stays (kmalloc.c:540-549).
ListExact ==
  /\ Listed = {m \in Majors : minors[m] # {}}
  /\ \A i, j \in DOMAIN order : order[i] = order[j] => i = j

\* A block keeps the room kmalloc gave it for its request and the alignment.
BlocksKeepRoom == \A m \in Majors : \A b \in minors[m] : b.req + Slack <= b.size

\* No major holds a block before it is made.
NothingBeforeMade == \A m \in Majors : m > made => minors[m] = {}

\* The blocks of a major can be counted.
BlocksFinite == \A m \in Majors : IsFiniteSet(minors[m])

\* l_bestBet never outlives the major it points to (kmalloc.c:257-267, 543).
BestBetIsListed == bestBet # None => bestBet \in Listed

\* Pages are taken only for a request that no gap of any listed major can hold,
\* although the search starts at the best bet (kmalloc.c:269-304, 437-456).
NewPagesOnlyWhenFull ==
  [][\A m \in Listed : \A b \in minors'[made'] :
       made' # made => \A p \in MajHdr .. msize[m] : ~Fits(m, p, b.size + MinHdr)]_vars

\* Strong enough to be kept by every step: a block only fits because the others
\* lie where they do, the list can only be searched because its majors are live.
LayoutInv ==
  /\ TypeOK
  /\ BlocksDisjoint /\ BlocksKeepRoom
  /\ ListExact /\ NothingBeforeMade
  /\ BestBetIsListed

\* The accounts stay exact because no block is put where one lies already.
IInv == LayoutInv /\ BlocksFinite /\ AccountsExact

=============================================================================
