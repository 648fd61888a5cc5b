----------------------------- MODULE HeapProofs -----------------------------
(***************************************************************************)
(* Proofs about the kernel heap for every page size, header size,          *)
(* alignment and set of requests.                                          *)
(***************************************************************************)
EXTENDS HeapProps, SequenceTheorems, FiniteSetTheorems, TLAPS

USE HeapAssumption

-----------------------------------------------------------------------------
\* The helpers kmalloc and kfree are built from.

LEMMA NeedIsNat ==
  ASSUME NEW req \in Requests
  PROVE  /\ Slack \in Nat /\ SizeOf(req) \in Nat /\ Need(req) \in Nat
         /\ SizeOf(req) = req + Slack /\ Need(req) = req + Slack + MinHdr
BY DEF Slack, SizeOf, Need

\* A block may only be put behind the head of its major.
LEMMA PlacesAreBehindTheHead ==
  ASSUME TypeOK, BlocksDisjoint, NEW m \in Majors, NEW p \in Places(m)
  PROVE  p \in Nat /\ MajHdr <= p
<1>1. CASE p = MajHdr
  BY <1>1
<1>2. CASE \E b \in minors[m] : p = EndOf(b)
  <2>1. PICK b \in minors[m] : p = EndOf(b)
    BY <1>2
  <2>2. b.at \in Nat /\ b.size \in Nat /\ MajHdr <= b.at
    BY DEF TypeOK, Minor, BlocksDisjoint
  <2> QED
    BY <2>1, <2>2 DEF EndOf
<1> QED
  BY <1>1, <1>2 DEF Places

\* Whatever path the search takes, it meets majors of the list only.
LEMMA PathIsListed ==
  ASSUME TypeOK, BestBetIsListed, NEW need
  PROVE  Path(need) \in Seq(Listed)
<1>1. order \in Seq(Listed)
  <2>1. order \in [1 .. Len(order) -> Listed]
    BY DEF TypeOK, Listed
  <2> QED
    BY <2>1 DEF TypeOK
<1>2. CASE StartsAtBet(need)
  <2>1. At(bestBet) \in DOMAIN order
    BY <1>2 DEF StartsAtBet, BestBetIsListed, Listed, At
  <2>2. SubSeq(order, At(bestBet), Len(order)) \in Seq(Listed)
    BY <1>1, <2>1, SubSeqProperties DEF Listed, TypeOK
  <2> QED
    BY <1>1, <1>2, <2>2, ConcatProperties DEF Path
<1> QED
  BY <1>1, <1>2 DEF Path

LEMMA BestOfIsSeen ==
  ASSUME NEW S, NEW seen \in Seq(S), NEW free
  PROVE  BestOf(seen, free) \in S \cup {bestBet}
<1> DEFINE better == {k \in DOMAIN seen :
                   /\ free[seen[k]] > BestSize
                   /\ \A j \in DOMAIN seen : free[seen[j]] <= free[seen[k]]
                   /\ \A j \in 1 .. k - 1 : free[seen[j]] < free[seen[k]]}
<1>1. CASE better = {}
  BY <1>1 DEF BestOf
<1>2. CASE better # {}
  <2>1. (CHOOSE k \in better : TRUE) \in DOMAIN seen
    BY <1>2
  <2>2. seen[CHOOSE k \in better : TRUE] \in S
    BY <2>1
  <2> QED
    BY <1>2, <2>2 DEF BestOf
<1> QED
  BY <1>1, <1>2

\* A sequence without its element at place a.
LEMMA CutOut ==
  ASSUME NEW S, NEW s \in Seq(S), NEW a \in 1 .. Len(s)
  PROVE  /\ RemoveAt(s, a) \in Seq(S) /\ Len(RemoveAt(s, a)) = Len(s) - 1
         /\ \A i \in 1 .. Len(s) - 1 : i < a => RemoveAt(s, a)[i] = s[i]
         /\ \A i \in 1 .. Len(s) - 1 : ~(i < a) => RemoveAt(s, a)[i] = s[i + 1]
<1> DEFINE n == Len(s)
           t == RemoveAt(s, a)
           front == SubSeq(s, 1, a - 1)
           back == SubSeq(s, a + 1, n)
<1>1. n \in Nat /\ a \in 1 .. n /\ \A i \in 1 .. n : s[i] \in S
  OBVIOUS
<1>2. /\ front \in Seq(S) /\ Len(front) = a - 1
      /\ \A i \in 1 .. a - 1 : front[i] = s[i]
  <2> HIDE DEF n
  <2> QED
    BY <1>1, SubSeqProperties
<1>3. /\ back \in Seq(S) /\ Len(back) = n - a
      /\ \A i \in 1 .. n - a : back[i] = s[a + i]
  <2> HIDE DEF n
  <2>1. a + 1 \in Int /\ n \in Int /\ \A i \in a + 1 .. n : s[i] \in S
    BY <1>1
  <2>2. /\ back \in Seq(S)
        /\ Len(back) = IF a + 1 <= n THEN n - (a + 1) + 1 ELSE 0
        /\ \A i \in 1 .. n - (a + 1) + 1 : back[i] = s[(a + 1) + i - 1]
    BY <2>1, SubSeqProperties
  <2>3. \A i \in 1 .. n - a : (a + 1) + i - 1 = a + i /\ i \in 1 .. n - (a + 1) + 1
    BY <1>1
  <2>4. \A i \in 1 .. n - a : back[i] = s[a + i]
    BY <2>2, <2>3
  <2>5. Len(back) = n - a
    BY <1>1, <2>2
  <2> QED
    BY <2>2, <2>4, <2>5
<1>4. t = front \o back
  BY DEF RemoveAt
<1> HIDE DEF n, t, front, back
<1>5. /\ t \in Seq(S) /\ Len(t) = (a - 1) + (n - a)
      /\ \A i \in 1 .. (a - 1) + (n - a) :
           t[i] = IF i <= a - 1 THEN front[i] ELSE back[i - (a - 1)]
  <2>1. /\ front \o back \in Seq(S) /\ Len(front \o back) = Len(front) + Len(back)
        /\ \A i \in 1 .. Len(front) + Len(back) :
             (front \o back)[i] = IF i <= Len(front) THEN front[i] ELSE back[i - Len(front)]
    BY <1>2, <1>3, ConcatProperties
  <2> QED
    BY <1>2, <1>3, <1>4, <2>1
<1>6. (a - 1) + (n - a) = n - 1
  BY <1>1
<1>7. ASSUME NEW i \in 1 .. n - 1, i < a
      PROVE  t[i] = s[i]
  <2>1. i <= a - 1 /\ i \in 1 .. a - 1 /\ i \in 1 .. (a - 1) + (n - a)
    BY <1>1, <1>7
  <2> QED
    BY <1>2, <1>5, <2>1
<1>8. ASSUME NEW i \in 1 .. n - 1, ~(i < a)
      PROVE  t[i] = s[i + 1]
  <2>1. /\ ~(i <= a - 1) /\ i \in 1 .. (a - 1) + (n - a)
        /\ i - (a - 1) \in 1 .. n - a /\ a + (i - (a - 1)) = i + 1
    BY <1>1, <1>8
  <2>2. t[i] = back[i - (a - 1)]
    BY <1>5, <2>1
  <2>3. back[i - (a - 1)] = s[a + (i - (a - 1))]
    BY <1>3, <2>1
  <2> QED
    BY <2>1, <2>2, <2>3
<1> QED
  BY <1>5, <1>6, <1>7, <1>8 DEF n, t

\* Unlinking takes one major out of the list and leaves the others, each once.
LEMMA WithoutRemoves ==
  ASSUME TypeOK, ListExact, NEW m \in Listed
  PROVE  /\ Without(m) \in Seq(Majors)
         /\ {Without(m)[i] : i \in DOMAIN Without(m)} = Listed \ {m}
         /\ \A i, j \in DOMAIN Without(m) : Without(m)[i] = Without(m)[j] => i = j
<1> DEFINE a == At(m)
           n == Len(order)
           t == Without(m)
<1>1. n \in Nat /\ DOMAIN order = 1 .. n /\ order \in Seq(Majors)
  BY DEF TypeOK
<1>2. a \in 1 .. n /\ order[a] = m
  BY <1>1 DEF At, Listed
<1>3. \A i, j \in 1 .. n : order[i] = order[j] => i = j
  BY <1>1 DEF ListExact
<1>4. t = RemoveAt(order, a)
  BY DEF Without
<1> HIDE DEF a, n, t
<1>5. /\ t \in Seq(Majors) /\ Len(t) = n - 1
      /\ \A i \in 1 .. n - 1 : i < a => t[i] = order[i]
      /\ \A i \in 1 .. n - 1 : ~(i < a) => t[i] = order[i + 1]
  <2>1. n = Len(order)
    BY DEF n
  <2>2. a \in 1 .. Len(order)
    BY <1>2, <2>1
  <2>3. /\ t \in Seq(Majors) /\ Len(t) = Len(order) - 1
        /\ \A i \in 1 .. Len(order) - 1 : i < a => t[i] = order[i]
        /\ \A i \in 1 .. Len(order) - 1 : ~(i < a) => t[i] = order[i + 1]
    BY <1>1, <1>4, <2>2, CutOut
  <2> QED
    BY <2>1, <2>3
<1>6. DOMAIN t = 1 .. n - 1
  BY <1>5
<1> DEFINE up(x) == IF x < a THEN x ELSE x + 1
<1>7. \A x \in 1 .. n - 1 : up(x) \in 1 .. n /\ up(x) # a /\ t[x] = order[up(x)]
  BY <1>1, <1>2, <1>5
<1>8. \A y \in 1 .. n : y # a => \E x \in 1 .. n - 1 : up(x) = y
  <2> SUFFICES ASSUME NEW y \in 1 .. n, y # a
               PROVE  \E x \in 1 .. n - 1 : up(x) = y
    OBVIOUS
  <2>1. CASE y < a
    <3>1. y \in 1 .. n - 1 /\ up(y) = y
      BY <1>1, <1>2, <2>1
    <3> QED
      BY <3>1
  <2>2. CASE y > a
    <3>1. y - 1 \in 1 .. n - 1 /\ up(y - 1) = y
      BY <1>1, <1>2, <2>2
    <3> QED
      BY <3>1
  <2> QED
    BY <1>1, <1>2, <2>1, <2>2
<1>9. \A x, y \in 1 .. n - 1 : up(x) = up(y) => x = y
  BY <1>1, <1>2
<1> HIDE DEF up
<1>10. {t[i] : i \in 1 .. n - 1} = Listed \ {m}
  <2>1. ASSUME NEW x \in 1 .. n - 1
        PROVE  t[x] \in Listed \ {m}
    <3>1. order[up(x)] \in Listed
      BY <1>1, <1>7 DEF Listed
    <3>2. order[up(x)] # m
      BY <1>2, <1>3, <1>7
    <3> QED
      BY <1>7, <3>1, <3>2
  <2>2. ASSUME NEW k \in Listed \ {m}
        PROVE  \E x \in 1 .. n - 1 : t[x] = k
    <3>1. PICK y \in 1 .. n : order[y] = k
      BY <1>1 DEF Listed
    <3>2. PICK x \in 1 .. n - 1 : up(x) = y
      BY <1>2, <1>8, <3>1
    <3> QED
      BY <1>7, <3>1, <3>2
  <2> QED
    BY <2>1, <2>2
<1>11. \A i, j \in 1 .. n - 1 : t[i] = t[j] => i = j
  BY <1>3, <1>7, <1>9
<1> QED
  BY <1>5, <1>6, <1>10, <1>11 DEF t


-----------------------------------------------------------------------------
\* The blocks, when one is placed and when one is released.

\* A block put where there is room keeps the blocks apart, if the majors that
\* hold blocks keep their size.
LEMMA PlacingKeepsApart ==
  ASSUME LayoutInv, NEW m \in Majors, NEW p \in Nat, NEW req \in Requests,
         MajHdr <= p, p + Need(req) <= msize'[m],
         \A b \in minors[m] : p + Need(req) <= b.at \/ EndOf(b) <= p,
         \A k \in Majors : minors[k] # {} => msize'[k] = msize[k],
         Place(m, p, req)
  PROVE  /\ minors' \in [Majors -> SUBSET Minor] /\ inuse' \in Int
         /\ BlocksDisjoint' /\ BlocksKeepRoom'
         /\ {k \in Majors : minors'[k] # {}} = {k \in Majors : minors[k] # {}} \cup {m}
<1> DEFINE new == [at |-> p, size |-> SizeOf(req), req |-> req]
<1>1. /\ minors \in [Majors -> SUBSET Minor] /\ inuse \in Int
      /\ minors' = [minors EXCEPT ![m] = @ \cup {new}]
      /\ inuse' = inuse + SizeOf(req)
  BY DEF LayoutInv, TypeOK, Place
<1>2. new \in Minor /\ EndOf(new) = p + Need(req)
  BY NeedIsNat DEF Minor, EndOf
<1>3. new.at = p /\ new.size = SizeOf(req) /\ new.req = req
  OBVIOUS
<1> HIDE DEF new
<1>4. minors' \in [Majors -> SUBSET Minor]
  BY <1>1, <1>2
<1>5. \A k \in Majors : minors'[k] = IF k = m THEN minors[m] \cup {new} ELSE minors[k]
  BY <1>1
<1>6. BlocksDisjoint'
  <2> SUFFICES ASSUME NEW k \in Majors, NEW b \in minors'[k]
               PROVE  /\ MajHdr <= b.at /\ EndOf(b) <= msize'[k]
                      /\ \A c \in minors'[k] : b # c => EndOf(b) <= c.at \/ EndOf(c) <= b.at
    BY DEF BlocksDisjoint, EndOf
  <2>1. CASE b = new /\ k = m
    <3>1. MajHdr <= b.at /\ EndOf(b) <= msize'[k]
      BY <1>2, <1>3, <2>1
    <3>2. \A c \in minors'[m] : c # new => EndOf(new) <= c.at \/ EndOf(c) <= new.at
      BY <1>2, <1>3, <1>5
    <3> QED
      BY <2>1, <3>1, <3>2
  <2>2. CASE b \in minors[k]
    <3>1. msize'[k] = msize[k]
      BY <2>2
    <3>2. MajHdr <= b.at /\ EndOf(b) <= msize'[k]
      BY <2>2, <3>1 DEF LayoutInv, BlocksDisjoint
    <3>3. ASSUME NEW c \in minors[k], b # c
          PROVE  EndOf(b) <= c.at \/ EndOf(c) <= b.at
      BY <2>2, <3>3 DEF LayoutInv, BlocksDisjoint
    <3>4. k = m => EndOf(b) <= new.at \/ EndOf(new) <= b.at
      BY <1>2, <1>3, <2>2
    <3> QED
      BY <1>5, <3>2, <3>3, <3>4
  <2> QED
    BY <1>5, <2>1, <2>2
<1>7. BlocksKeepRoom'
  <2>1. new.req + Slack <= new.size
    BY <1>3, NeedIsNat
  <2>2. \A k \in Majors : \A b \in minors[k] : b.req + Slack <= b.size
    BY DEF LayoutInv, BlocksKeepRoom
  <2>3. \A k \in Majors : \A b \in minors'[k] : b.req + Slack <= b.size
    BY <1>5, <2>1, <2>2
  <2> QED
    BY <2>3 DEF BlocksKeepRoom, Slack
<1> QED
  BY <1>1, <1>4, <1>5, <1>6, <1>7, NeedIsNat

\* Taking a block away disturbs no other.
LEMMA ReleasingKeepsApart ==
  ASSUME LayoutInv, NEW m \in Majors, NEW b \in minors[m], Release(m, b), UNCHANGED msize
  PROVE  /\ minors' \in [Majors -> SUBSET Minor] /\ inuse' \in Int
         /\ usage' \in [Majors -> Int]
         /\ BlocksDisjoint' /\ BlocksKeepRoom'
         /\ \A k \in Majors : minors'[k] = IF k = m THEN minors[m] \ {b} ELSE minors[k]
<1>1. b \in Minor /\ b.size \in Nat
  BY DEF LayoutInv, TypeOK, Minor
<1>2. /\ minors' = [minors EXCEPT ![m] = @ \ {b}]
      /\ usage' = [usage EXCEPT ![m] = @ - (b.size + MinHdr)]
      /\ inuse' = inuse - b.size
  BY DEF Release
<1>3. \A k \in Majors : minors'[k] = IF k = m THEN minors[m] \ {b} ELSE minors[k]
  BY <1>2 DEF LayoutInv, TypeOK
<1>4. minors' \in [Majors -> SUBSET Minor]
  BY <1>2 DEF LayoutInv, TypeOK
<1>5. usage' \in [Majors -> Int] /\ inuse' \in Int
  BY <1>1, <1>2 DEF LayoutInv, TypeOK
<1>6. \A k \in Majors : minors'[k] \subseteq minors[k]
  BY <1>3
<1>7. BlocksDisjoint'
  BY <1>6 DEF LayoutInv, BlocksDisjoint, EndOf
<1>8. BlocksKeepRoom'
  BY <1>6 DEF LayoutInv, BlocksKeepRoom, Slack
<1> QED
  BY <1>3, <1>4, <1>5, <1>7, <1>8


-----------------------------------------------------------------------------
\* The steps of kmalloc, kfree and krealloc.

LEMMA FindsKeeps ==
  ASSUME LayoutInv, NEW req \in Requests, KmallocFinds(req),
         moving' = NotMoving \/ moving' \in Majors \X Minor
  PROVE  LayoutInv'
<1> DEFINE path == Path(Need(req))
           free == [m \in Majors |-> FreeIn(m)]
<1>1. path \in Seq(Listed) /\ Listed \subseteq Majors
  BY PathIsListed DEF LayoutInv, ListExact
<1>2. PICK k \in DOMAIN path :
        /\ \E p \in Places(path[k]) : FirstPlace(path[k], p, Need(req)) /\ Place(path[k], p, req)
        /\ usage' = [usage EXCEPT ![path[k]] = @ + Need(req)]
        /\ bestBet' = BestOf(SubSeq(path, 1, k), free)
  BY DEF KmallocFinds
<1>3. UNCHANGED <<order, made, msize, allocated, taken>>
  BY DEF KmallocFinds
<1> HIDE DEF path, free
<1> DEFINE m == path[k]
<1>4. m \in Listed /\ m \in Majors
  BY <1>1, <1>2
<1>5. PICK p \in Places(m) : FirstPlace(m, p, Need(req)) /\ Place(m, p, req)
  BY <1>2
<1>6. p \in Nat /\ MajHdr <= p
  BY <1>4, <1>5, PlacesAreBehindTheHead DEF LayoutInv
<1>7. /\ p + Need(req) <= msize[m]
      /\ \A b \in minors[m] : p + Need(req) <= b.at \/ EndOf(b) <= p
  BY <1>5 DEF FirstPlace, Fits
<1> HIDE DEF m
<1>8. /\ minors' \in [Majors -> SUBSET Minor] /\ inuse' \in Int
      /\ BlocksDisjoint' /\ BlocksKeepRoom'
      /\ {j \in Majors : minors'[j] # {}} = {j \in Majors : minors[j] # {}} \cup {m}
  BY <1>3, <1>4, <1>5, <1>6, <1>7, PlacingKeepsApart
<1>9. bestBet' \in Listed \cup {bestBet}
  <2>1. k \in 1 .. Len(path) /\ \A i \in 1 .. k : path[i] \in Listed
    BY <1>1, <1>2
  <2>2. SubSeq(path, 1, k) \in Seq(Listed)
    BY <2>1, SubSeqProperties
  <2> QED
    BY <1>2, <2>2, BestOfIsSeen
<1>10. TypeOK'
  <2>1. usage' = [usage EXCEPT ![m] = @ + Need(req)]
    BY <1>2 DEF m
  <2>2. usage' \in [Majors -> Int]
    BY <1>4, <2>1, NeedIsNat DEF LayoutInv, TypeOK
  <2>3. bestBet' \in Majors \cup {None}
    BY <1>1, <1>9 DEF LayoutInv, TypeOK
  <2> QED
    BY <1>3, <1>8, <2>2, <2>3 DEF LayoutInv, TypeOK, Majors, Minor, NotMoving
<1>11. Listed' = Listed
  BY <1>3 DEF Listed
<1>12. ListExact'
  BY <1>3, <1>4, <1>8, <1>11 DEF LayoutInv, ListExact
<1>13. NothingBeforeMade'
  <2>1. \A j \in Majors : minors'[j] # {} => minors[j] # {} \/ j = m
    BY <1>8
  <2>2. minors[m] # {}
    BY <1>4 DEF LayoutInv, ListExact
  <2> QED
    BY <1>3, <2>1, <2>2 DEF LayoutInv, NothingBeforeMade
<1>14. BestBetIsListed'
  BY <1>9, <1>11 DEF LayoutInv, BestBetIsListed
<1> QED
  BY <1>8, <1>10, <1>12, <1>13, <1>14 DEF LayoutInv

LEMMA GrowsKeeps ==
  ASSUME LayoutInv, NEW req \in Requests, KmallocGrows(req),
         moving' = NotMoving \/ moving' \in Majors \X Minor
  PROVE  LayoutInv'
<1> DEFINE path == Path(Need(req))
           new == made + 1
<1>1. /\ made < MaxMajors /\ Place(new, MajHdr, req)
      /\ order' = Append(order, new) /\ made' = new
  BY DEF KmallocGrows
<1>2. PICK st \in 1 .. MaxPages :
        /\ PagesFor(st, req)
        /\ msize' = [msize EXCEPT ![new] = st * PageSize]
        /\ usage' = [usage EXCEPT ![new] = MajHdr + Need(req)]
        /\ allocated' = allocated + st * PageSize
        /\ taken' = taken + st * PageSize
        /\ \E considered \in BOOLEAN : \E free :
             bestBet' = BestOf(IF considered THEN Append(path, new) ELSE path, free)
  BY DEF KmallocGrows
<1>3. new \in Majors /\ st * PageSize \in Nat
  BY <1>1 DEF LayoutInv, TypeOK, Majors
<1>4. minors[new] = {}
  BY <1>3 DEF LayoutInv, NothingBeforeMade, TypeOK, Majors
<1>5. path \in Seq(Listed) /\ Listed \subseteq Majors /\ new \notin Listed
  BY <1>3, <1>4, PathIsListed DEF LayoutInv, ListExact
<1> HIDE DEF path
<1>6. msize' \in [Majors -> Nat] /\ \A k \in Majors : msize'[k] = IF k = new THEN st * PageSize ELSE msize[k]
  BY <1>2, <1>3 DEF LayoutInv, TypeOK
<1>7. MajHdr + Need(req) <= msize'[new]
  BY <1>2, <1>3, <1>6, NeedIsNat DEF PagesFor
<1>8. /\ minors' \in [Majors -> SUBSET Minor] /\ inuse' \in Int
      /\ BlocksDisjoint' /\ BlocksKeepRoom'
      /\ {j \in Majors : minors'[j] # {}} = {j \in Majors : minors[j] # {}} \cup {new}
  <2>1. MajHdr \in Nat /\ MajHdr <= MajHdr
    OBVIOUS
  <2>2. \A b \in minors[new] : MajHdr + Need(req) <= b.at \/ EndOf(b) <= MajHdr
    BY <1>4
  <2>3. \A k \in Majors : minors[k] # {} => msize'[k] = msize[k]
    BY <1>4, <1>6
  <2> HIDE DEF new
  <2> QED
    BY <1>1, <1>3, <1>7, <2>1, <2>2, <2>3, PlacingKeepsApart
<1>9. bestBet' \in Listed \cup {new} \cup {bestBet}
  <2>1. PICK considered, free :
          bestBet' = BestOf(IF considered THEN Append(path, new) ELSE path, free)
    BY <1>2
  <2>2. path \in Seq(Listed \cup {new}) /\ Append(path, new) \in Seq(Listed \cup {new})
    BY <1>5
  <2>3. (IF considered THEN Append(path, new) ELSE path) \in Seq(Listed \cup {new})
    BY <2>2
  <2> QED
    BY <2>1, <2>3, BestOfIsSeen
<1>10. order' \in Seq(Majors) /\ Listed' = Listed \cup {new}
  <2>1. order \in Seq(Majors) /\ Len(order) \in Nat /\ DOMAIN order = 1 .. Len(order)
    BY DEF LayoutInv, TypeOK
  <2>2. /\ order' \in Seq(Majors) /\ DOMAIN order' = 1 .. Len(order) + 1
        /\ \A i \in 1 .. Len(order) : order'[i] = order[i]
        /\ order'[Len(order) + 1] = new
    BY <1>1, <1>3, <2>1
  <2> QED
    BY <2>1, <2>2 DEF Listed
<1>11. \A i, j \in DOMAIN order' : order'[i] = order'[j] => i = j
  <2>1. order \in Seq(Majors) /\ Len(order) \in Nat /\ DOMAIN order = 1 .. Len(order)
    BY DEF LayoutInv, TypeOK
  <2>2. /\ DOMAIN order' = 1 .. Len(order) + 1
        /\ \A i \in 1 .. Len(order) : order'[i] = order[i]
        /\ order'[Len(order) + 1] = new
    BY <1>1, <1>3, <2>1
  <2>3. \A i \in 1 .. Len(order) : order[i] # new
    BY <1>5, <2>1 DEF Listed
  <2>4. \A i, j \in 1 .. Len(order) : order[i] = order[j] => i = j
    BY <2>1 DEF LayoutInv, ListExact
  <2>5. SUFFICES ASSUME NEW i \in 1 .. Len(order) + 1, NEW j \in 1 .. Len(order) + 1,
                        order'[i] = order'[j]
                 PROVE  i = j
    BY <2>2
  <2>6. CASE i \in 1 .. Len(order) /\ j \in 1 .. Len(order)
    BY ONLY <2>2, <2>4, <2>5, <2>6
  <2>7. CASE i = Len(order) + 1 \/ j = Len(order) + 1
    BY ONLY <2>1, <2>2, <2>3, <2>5, <2>7
  <2>8. \/ i \in 1 .. Len(order) /\ j \in 1 .. Len(order)
        \/ i = Len(order) + 1 \/ j = Len(order) + 1
    BY ONLY <2>1, <2>5
  <2> QED
    BY ONLY <2>6, <2>7, <2>8
<1>12. TypeOK'
  <2>1. usage' \in [Majors -> Int]
    BY <1>2, <1>3, NeedIsNat DEF LayoutInv, TypeOK
  <2>2. made' \in 0 .. MaxMajors
    BY <1>1, <1>3 DEF Majors
  <2>3. bestBet' \in Majors \cup {None}
    BY <1>3, <1>5, <1>9 DEF LayoutInv, TypeOK
  <2>4. allocated' \in Int /\ taken' \in Nat
    <3> DEFINE bytes == st * PageSize
    <3>1. bytes \in Nat /\ allocated' = allocated + bytes /\ taken' = taken + bytes
      BY <1>2, <1>3
    <3> HIDE DEF bytes
    <3> QED
      BY <3>1 DEF LayoutInv, TypeOK
  <2> QED
    BY <1>6, <1>8, <1>10, <2>1, <2>2, <2>3, <2>4 DEF TypeOK, Majors, Minor, NotMoving
<1>13. ListExact'
  BY <1>8, <1>10, <1>11 DEF LayoutInv, ListExact, Majors
<1>14. NothingBeforeMade'
  <2>1. \A j \in Majors : minors'[j] # {} => minors[j] # {} \/ j = new
    BY <1>8
  <2>2. \A j \in Majors : j > made' => j > made /\ j # new
    BY <1>1 DEF LayoutInv, TypeOK, Majors
  <2>3. \A j \in Majors : j > made => minors[j] = {}
    BY DEF LayoutInv, NothingBeforeMade
  <2>4. \A j \in Majors : j > made' => minors'[j] = {}
    BY <2>1, <2>2, <2>3
  <2> QED
    BY <2>4 DEF NothingBeforeMade, Majors
<1>15. BestBetIsListed'
  BY <1>9, <1>10 DEF LayoutInv, BestBetIsListed
<1> QED
  BY <1>8, <1>12, <1>13, <1>14, <1>15 DEF LayoutInv


LEMMA FreeKeeps ==
  ASSUME LayoutInv, NEW m \in Majors, NEW b \in minors[m], KfreeBlock(m, b),
         moving' = NotMoving
  PROVE  LayoutInv'
<1>1. Release(m, b) /\ UNCHANGED <<made, msize, taken>>
  BY DEF KfreeBlock
<1>2. /\ minors' \in [Majors -> SUBSET Minor] /\ inuse' \in Int
      /\ usage' \in [Majors -> Int]
      /\ BlocksDisjoint' /\ BlocksKeepRoom'
      /\ \A k \in Majors : minors'[k] = IF k = m THEN minors[m] \ {b} ELSE minors[k]
  BY <1>1, ReleasingKeepsApart
<1>3. m \in Listed
  BY DEF LayoutInv, ListExact
<1>4. NothingBeforeMade'
  BY <1>1, <1>2 DEF LayoutInv, NothingBeforeMade
<1>5. CASE minors[m] = {b} /\ Unlink(m)
  <2>1. /\ order' = Without(m) /\ bestBet' = IF bestBet = m THEN None ELSE bestBet
        /\ allocated' = allocated - msize[m]
    BY <1>5 DEF Unlink
  <2>2. /\ order' \in Seq(Majors) /\ Listed' = Listed \ {m}
        /\ \A i, j \in DOMAIN order' : order'[i] = order'[j] => i = j
    <3>1. /\ Without(m) \in Seq(Majors)
          /\ {Without(m)[i] : i \in DOMAIN Without(m)} = Listed \ {m}
          /\ \A i, j \in DOMAIN Without(m) : Without(m)[i] = Without(m)[j] => i = j
      BY <1>3, WithoutRemoves DEF LayoutInv
    <3>2. Listed' = {order'[i] : i \in DOMAIN order'}
      BY DEF Listed
    <3> QED
      BY <2>1, <3>1, <3>2
  <2>3. TypeOK'
    <3>1. allocated' \in Int
      BY <2>1 DEF LayoutInv, TypeOK
    <3>2. bestBet' \in Majors \cup {None}
      BY <2>1 DEF LayoutInv, TypeOK
    <3> QED
      BY <1>1, <1>2, <2>2, <3>1, <3>2 DEF LayoutInv, TypeOK, Majors, Minor, NotMoving
  <2>4. {k \in Majors : minors'[k] # {}} = {k \in Majors : minors[k] # {}} \ {m}
    BY <1>2, <1>5
  <2>5. ListExact'
    BY <2>2, <2>4 DEF LayoutInv, ListExact, Majors
  <2>6. BestBetIsListed'
    BY <2>1, <2>2 DEF LayoutInv, BestBetIsListed
  <2> QED
    BY <1>2, <1>4, <2>3, <2>5, <2>6 DEF LayoutInv
<1>6. CASE /\ minors[m] # {b}
           /\ bestBet' \in {m, bestBet}
           /\ UNCHANGED <<order, allocated>>
  <2>1. TypeOK'
    BY <1>1, <1>2, <1>6 DEF LayoutInv, TypeOK, Majors, Minor, NotMoving
  <2>2. Listed' = Listed
    BY <1>6 DEF Listed
  <2>3. {k \in Majors : minors'[k] # {}} = {k \in Majors : minors[k] # {}}
    BY <1>2, <1>6
  <2>4. ListExact'
    BY <1>6, <2>2, <2>3 DEF LayoutInv, ListExact, Majors
  <2>5. BestBetIsListed'
    BY <1>3, <1>6, <2>2 DEF LayoutInv, BestBetIsListed
  <2> QED
    BY <1>2, <1>4, <2>1, <2>4, <2>5 DEF LayoutInv
<1> QED
  BY <1>5, <1>6 DEF KfreeBlock

LEMMA ShrinkKeeps ==
  ASSUME LayoutInv, NEW m \in Majors, NEW b \in minors[m], NEW req \in Requests,
         KreallocShrinks(m, b, req)
  PROVE  LayoutInv'
<1> DEFINE new == [b EXCEPT !.req = req]
<1>1. /\ minors' = [minors EXCEPT ![m] = (@ \ {b}) \cup {new}] /\ req <= b.req
      /\ UNCHANGED <<order, made, msize, usage, bestBet, allocated, inuse, taken, moving>>
  BY DEF KreallocShrinks
<1>2. b \in Minor
  BY DEF LayoutInv, TypeOK
<1>3. /\ new \in Minor /\ new.at = b.at /\ new.size = b.size /\ new.req = req
  BY <1>2 DEF Minor
<1> HIDE DEF new
<1>4. \A k \in Majors : minors'[k] = IF k = m THEN (minors[m] \ {b}) \cup {new} ELSE minors[k]
  BY <1>1 DEF LayoutInv, TypeOK
<1>5. TypeOK'
  <2>1. minors' \in [Majors -> SUBSET Minor]
    BY <1>1, <1>3 DEF LayoutInv, TypeOK
  <2> QED
    BY <1>1, <2>1 DEF LayoutInv, TypeOK, Majors, Minor, NotMoving
<1>6. EndOf(new) = EndOf(b)
  BY <1>3 DEF EndOf
<1>7. BlocksDisjoint'
  <2>1. \A k \in Majors : \A c \in minors'[k] :
          \/ c = new /\ k = m
          \/ c \in minors[k] /\ (k = m => c # b \/ c = new)
    BY <1>4
  <2>2. ASSUME NEW k \in Majors, NEW c \in minors'[k]
        PROVE  MajHdr <= c.at /\ EndOf(c) <= msize'[k]
    BY <1>1, <1>3, <1>6, <2>1 DEF LayoutInv, BlocksDisjoint
  <2>3. ASSUME NEW k \in Majors, NEW c \in minors'[k], NEW d \in minors'[k], c # d
        PROVE  EndOf(c) <= d.at \/ EndOf(d) <= c.at
    <3>1. \A x, y \in minors[k] : x # y => EndOf(x) <= y.at \/ EndOf(y) <= x.at
      BY DEF LayoutInv, BlocksDisjoint
    <3>2. CASE c = new /\ k = m
      <4>1. d \in minors[m] /\ d # b
        BY <1>4, <2>3, <3>2
      <4> QED
        BY <1>3, <1>6, <3>1, <3>2, <4>1
    <3>3. CASE d = new /\ k = m
      <4>1. c \in minors[m] /\ c # b
        BY <1>4, <2>3, <3>3
      <4> QED
        BY <1>3, <1>6, <3>1, <3>3, <4>1
    <3>4. CASE c \in minors[k] /\ d \in minors[k]
      BY <2>3, <3>1, <3>4
    <3> QED
      BY <2>1, <3>2, <3>3, <3>4
  <2> QED
    BY <2>2, <2>3 DEF BlocksDisjoint, EndOf, Majors
<1>8. BlocksKeepRoom'
  <2>1. \A k \in Majors : \A c \in minors[k] : c.req + Slack <= c.size
    BY DEF LayoutInv, BlocksKeepRoom
  <2>2. new.req + Slack <= new.size
    <3>1. b.req + Slack <= b.size
      BY <2>1
    <3> QED
      BY <1>1, <1>2, <1>3, <3>1, NeedIsNat DEF Minor
  <2>3. \A k \in Majors : \A c \in minors'[k] : c.req + Slack <= c.size
    BY <1>4, <2>1, <2>2
  <2> QED
    BY <2>3 DEF BlocksKeepRoom, Slack, Majors
<1>9. \A k \in Majors : minors'[k] # {} <=> minors[k] # {}
  BY <1>4
<1>10. ListExact'
  BY <1>1, <1>9 DEF LayoutInv, ListExact, Listed
<1>11. NothingBeforeMade' /\ BestBetIsListed'
  BY <1>1, <1>9 DEF LayoutInv, NothingBeforeMade, BestBetIsListed, Listed
<1> QED
  BY <1>5, <1>7, <1>8, <1>10, <1>11 DEF LayoutInv


-----------------------------------------------------------------------------
\* The layout is kept.

LEMMA InitLayout == Init => LayoutInv
<1> SUFFICES ASSUME Init PROVE LayoutInv
  OBVIOUS
<1>1. TypeOK
  BY DEF Init, TypeOK, NotMoving
<1>2. Listed = {} /\ DOMAIN order = {}
  BY DEF Init, Listed
<1> QED
  BY <1>1, <1>2 DEF Init, LayoutInv, BlocksDisjoint, BlocksKeepRoom, ListExact,
                    NothingBeforeMade, BestBetIsListed

LEMMA NextLayout == LayoutInv /\ [Next]_vars => LayoutInv'
<1> SUFFICES ASSUME LayoutInv, [Next]_vars PROVE LayoutInv'
  OBVIOUS
<1>1. ASSUME NEW req \in Requests, Kmalloc(req) PROVE LayoutInv'
  <2>1. moving' = NotMoving
    BY <1>1 DEF Kmalloc, NotMoving
  <2> QED
    BY <1>1, <2>1, FindsKeeps, GrowsKeeps DEF Kmalloc
<1>2. ASSUME NEW m \in Majors, NEW b \in minors[m], Kfree(m, b) PROVE LayoutInv'
  <2>1. moving' = NotMoving
    BY <1>2 DEF Kfree, NotMoving
  <2> QED
    BY <1>2, <2>1, FreeKeeps DEF Kfree
<1>3. ASSUME NEW m \in Majors, NEW b \in minors[m], NEW req \in Requests,
             KreallocShrinks(m, b, req)
      PROVE  LayoutInv'
  BY <1>3, ShrinkKeeps
<1>4. ASSUME NEW m \in Majors, NEW b \in minors[m], NEW req \in Requests,
             KreallocCopies(m, b, req)
      PROVE  LayoutInv'
  <2>1. moving' \in Majors \X Minor
    BY <1>4 DEF KreallocCopies, LayoutInv, TypeOK
  <2> QED
    BY <1>4, <2>1, FindsKeeps, GrowsKeeps DEF KreallocCopies
<1>5. ASSUME KreallocFrees PROVE LayoutInv'
  <2>1. /\ moving \in Majors \X Minor /\ KfreeBlock(moving[1], moving[2])
        /\ moving' = NotMoving
    BY <1>5 DEF KreallocFrees, LayoutInv, TypeOK
  <2>2. moving[1] \in Majors /\ moving[2] \in minors[moving[1]]
    BY <2>1 DEF KfreeBlock
  <2> QED
    BY <2>1, <2>2, FreeKeeps
<1>6. CASE UNCHANGED vars
  BY <1>6 DEF vars, LayoutInv, TypeOK, BlocksDisjoint, BlocksKeepRoom, ListExact,
              NothingBeforeMade, BestBetIsListed, Listed
<1> QED
  BY <1>1, <1>2, <1>3, <1>4, <1>5, <1>6 DEF Next

-----------------------------------------------------------------------------
\* Sums over finite sets.

\* What holds of the empty set and of each part of S whose parts without one element
\* it holds of, holds of every part of S.
LEMMA Subsets ==
  ASSUME NEW S, IsFiniteSet(S), NEW T, {} \in T,
         \A V \in SUBSET S : (V # {} /\ \A x \in V : V \ {x} \in T) => V \in T
  PROVE  SUBSET S \subseteq T
<1> SUFFICES ASSUME ~(SUBSET S \subseteq T) PROVE FALSE
  OBVIOUS
<1> DEFINE C == {V \in SUBSET S : V \notin T}
           R == StrictSubsetOrdering(S)
<1>1. IsWellFoundedOn(R, SUBSET S)
  <2>1. FiniteSubsetsOf(S) = SUBSET S
    BY FS_FiniteSubsetsOfFinite
  <2>2. IsWellFoundedOn(R, FiniteSubsetsOf(S))
    BY FS_StrictSubsetOrderingWellFounded, Zenon
  <2> HIDE DEF R
  <2> QED BY <2>1, <2>2
<1>2. C \subseteq SUBSET S /\ C # {}
  OBVIOUS
<1>3. PICK V \in C : \A U \in C : <<U, V>> \notin R
  <2> HIDE DEF C, R
  <2> QED BY <1>1, <1>2, WFMin, Zenon
<1>4. ASSUME NEW x \in V PROVE V \ {x} \in T
  <2>1. /\ <<V \ {x}, V>> \in (SUBSET S) \X (SUBSET S)
        /\ <<V \ {x}, V>>[1] = V \ {x} /\ <<V \ {x}, V>>[2] = V
        /\ V \ {x} \subseteq V /\ V \ {x} # V
    BY <1>2, <1>4
  <2>2. <<V \ {x}, V>> \in R
    BY <2>1, Zenon DEF StrictSubsetOrdering
  <2> QED BY <1>2, <1>3, <2>2
<1> QED BY <1>3, <1>4

\* g gives the sum of f over each part of S, whichever element is taken first.
IsSum(f, S, g) ==
  /\ g \in [SUBSET S -> Int] /\ g[{}] = 0
  /\ \A V \in SUBSET S : \A x \in V : g[V] = f[x] + g[V \ {x}]

LEMMA SumExists ==
  ASSUME NEW S, IsFiniteSet(S), NEW f, \A x \in S : f[x] \in Int
  PROVE  \E g : IsSum(f, S, g)
<1> DEFINE T == {V \in SUBSET S : \E g : IsSum(f, V, g)}
<1>1. {} \in T
  <2>1. IsSum(f, {}, [V \in SUBSET {} |-> 0])
    BY DEF IsSum
  <2> QED BY <2>1
<1>2. ASSUME NEW U \in SUBSET S, U # {}, \A x \in U : U \ {x} \in T PROVE U \in T
  <2>1. PICK z : z \in U
    BY <1>2
  <2> DEFINE W == U \ {z}
  <2>2. PICK g : IsSum(f, W, g)
    BY <1>2, <2>1
  <2>3. /\ g \in [SUBSET W -> Int] /\ g[{}] = 0
        /\ \A V \in SUBSET W : \A x \in V : g[V] = f[x] + g[V \ {x}]
    BY <2>2 DEF IsSum
  <2> DEFINE h == [V \in SUBSET U |-> IF z \in V THEN f[z] + g[V \ {z}] ELSE g[V]]
  <2>4. \A V \in SUBSET U : V \ {z} \in SUBSET W /\ g[V \ {z}] \in Int /\ (z \notin V => V \in SUBSET W /\ g[V] \in Int)
    BY <2>3
  <2>5. h \in [SUBSET U -> Int]
    <3>1. f[z] \in Int
      BY <1>2, <2>1
    <3>2. \A V \in SUBSET U : (IF z \in V THEN f[z] + g[V \ {z}] ELSE g[V]) \in Int
      <4> TAKE V \in SUBSET U
      <4>1. CASE z \in V
        <5>1. g[V \ {z}] \in Int
          BY <2>4
        <5>2. f[z] + g[V \ {z}] \in Int
          BY <3>1, <5>1
        <5> QED BY <4>1, <5>2
      <4>2. CASE z \notin V
        BY <2>4, <4>2
      <4> QED BY <4>1, <4>2
    <3> QED BY <3>2
  <2>6. \A V \in SUBSET U : h[V] = IF z \in V THEN f[z] + g[V \ {z}] ELSE g[V]
    OBVIOUS
  <2> HIDE DEF h
  <2>7. h[{}] = 0
    BY <2>3, <2>6
  <2>8. ASSUME NEW V \in SUBSET U, NEW x \in V PROVE h[V] = f[x] + h[V \ {x}]
    <3>0. V \ {x} \in SUBSET U /\ f[x] \in Int /\ f[z] \in Int
      BY <1>2, <2>1
    <3>1. CASE z \notin V
      BY <2>3, <2>4, <2>6, <3>0, <3>1
    <3>2. CASE x = z
      <4>1. h[V] = f[z] + g[V \ {z}]
        BY <2>6, <3>2
      <4>2. h[V \ {z}] = g[V \ {z}]
        BY <2>6, <3>0, <3>2
      <4> QED BY <3>2, <4>1, <4>2
    <3>3. CASE z \in V /\ x # z
      <4>1. h[V] = f[z] + g[V \ {z}]
        BY <2>6, <3>3
      <4>2. h[V \ {x}] = f[z] + g[(V \ {x}) \ {z}]
        BY <2>6, <3>0, <3>3
      <4>3. g[V \ {z}] = f[x] + g[(V \ {z}) \ {x}]
        BY <2>3, <2>4, <3>3
      <4>4. (V \ {z}) \ {x} = (V \ {x}) \ {z}
        OBVIOUS
      <4> DEFINE rest == g[(V \ {x}) \ {z}]
      <4>5. rest \in Int
        BY <2>4, <3>0
      <4>6. g[V \ {z}] = f[x] + rest
        BY <4>3, <4>4
      <4> HIDE DEF rest
      <4>7. h[V] = f[z] + (f[x] + rest)
        BY <4>1, <4>6
      <4>8. f[z] + (f[x] + rest) = f[x] + (f[z] + rest)
        BY <3>0, <4>5
      <4> QED BY <4>2, <4>7, <4>8 DEF rest
    <3> QED BY <3>1, <3>2, <3>3
  <2>9. IsSum(f, U, h)
    BY <2>5, <2>7, <2>8 DEF IsSum
  <2> QED BY <2>9
<1>3. S \in T
  <2> HIDE DEF T
  <2>1. SUBSET S \subseteq T
    BY <1>1, <1>2, Subsets
  <2> QED BY <2>1
<1> QED BY <1>3

\* SumFunctionOnSet computes it.
LEMMA SumIs ==
  ASSUME NEW S, IsFiniteSet(S), NEW f, \A x \in S : f[x] \in Int, NEW g, IsSum(f, S, g)
  PROVE  SumFunctionOnSet(f, S) = g[S]
<1> DEFINE first(V) == CHOOSE x \in V : TRUE
           Runs(r) == r = [V \in SUBSET S |-> IF V = {} THEN 0 ELSE f[first(V)] + r[V \ {first(V)}]]
           iter == CHOOSE r : Runs(r)
<1>1. SumFunctionOnSet(f, S) = iter[S]
  BY Zenon DEF SumFunctionOnSet, FoldFunctionOnSet, MapThenFoldSet
<1>2. \A V \in SUBSET S : V # {} => first(V) \in V
  OBVIOUS
<1>3. Runs(g)
  <2>1. \A V \in SUBSET S : g[V] = IF V = {} THEN 0 ELSE f[first(V)] + g[V \ {first(V)}]
    BY <1>2 DEF IsSum
  <2> HIDE DEF first
  <2> QED BY <2>1 DEF IsSum
<1>4. Runs(iter)
  <2> HIDE DEF Runs
  <2> QED BY <1>3, Zenon
<1> HIDE DEF first, iter
<1>5. \A V \in SUBSET S : iter[V] = IF V = {} THEN 0 ELSE f[first(V)] + iter[V \ {first(V)}]
  BY <1>4
<1> DEFINE T == {V \in SUBSET S : iter[V] = g[V]}
<1>6. {} \in T
  BY <1>5 DEF IsSum
<1>7. ASSUME NEW V \in SUBSET S, V # {}, \A x \in V : V \ {x} \in T PROVE V \in T
  <2>1. iter[V] = f[first(V)] + iter[V \ {first(V)}]
    BY <1>5, <1>7
  <2>2. iter[V \ {first(V)}] = g[V \ {first(V)}]
    BY <1>2, <1>7
  <2>3. g[V] = f[first(V)] + g[V \ {first(V)}]
    BY <1>2, <1>7 DEF IsSum
  <2> QED BY <2>1, <2>2, <2>3
<1>8. SUBSET S \subseteq T
  <2> HIDE DEF T
  <2> QED BY <1>6, <1>7, Subsets
<1> QED BY <1>1, <1>8

\* So a sum over a finite set may begin with any of its elements.
LEMMA SumTakesOut ==
  ASSUME NEW S, IsFiniteSet(S), NEW f, \A x \in S : f[x] \in Int, NEW z \in S
  PROVE  SumFunctionOnSet(f, S) = f[z] + SumFunctionOnSet(f, S \ {z})
<1>1. PICK g : IsSum(f, S, g)
  BY SumExists
<1> DEFINE W == S \ {z}
           h == [V \in SUBSET W |-> g[V]]
<1>2. IsFiniteSet(W) /\ \A x \in W : f[x] \in Int
  BY FS_RemoveElement
<1>3. IsSum(f, W, h)
  <2>1. h \in [SUBSET W -> Int] /\ h[{}] = 0
    BY <1>1 DEF IsSum
  <2>2. ASSUME NEW V \in SUBSET W, NEW x \in V PROVE h[V] = f[x] + h[V \ {x}]
    BY <1>1 DEF IsSum
  <2> QED BY <2>1, <2>2 DEF IsSum
<1>4. SumFunctionOnSet(f, S) = g[S]
  BY <1>1, SumIs
<1>5. SumFunctionOnSet(f, W) = h[W]
  <2> HIDE DEF W, h
  <2> QED BY <1>2, <1>3, SumIs
<1>6. h[W] = g[W] /\ g[S] = f[z] + g[W]
  BY <1>1 DEF IsSum
<1> QED BY <1>4, <1>5, <1>6

LEMMA SumIsInt ==
  ASSUME NEW S, IsFiniteSet(S), NEW f, \A x \in S : f[x] \in Int
  PROVE  SumFunctionOnSet(f, S) \in Int
<1>1. PICK g : IsSum(f, S, g)
  BY SumExists
<1>2. SumFunctionOnSet(f, S) = g[S]
  BY <1>1, SumIs
<1> QED BY <1>1, <1>2 DEF IsSum

LEMMA SumOfNone ==
  ASSUME NEW f
  PROVE  SumFunctionOnSet(f, {}) = 0
<1>1. IsFiniteSet({}) /\ \A x \in {} : f[x] \in Int
  BY FS_EmptySet
<1>2. PICK g : IsSum(f, {}, g)
  BY <1>1, SumExists
<1>3. SumFunctionOnSet(f, {}) = g[{}]
  BY <1>1, <1>2, SumIs
<1> QED BY <1>2, <1>3 DEF IsSum

\* It depends on f's values in the set alone.
LEMMA SumSame ==
  ASSUME NEW S, IsFiniteSet(S), NEW f, NEW g, \A x \in S : f[x] \in Int /\ g[x] = f[x]
  PROVE  SumFunctionOnSet(g, S) = SumFunctionOnSet(f, S)
<1>1. PICK s : IsSum(f, S, s)
  BY SumExists
<1>2. IsSum(g, S, s)
  BY <1>1 DEF IsSum
<1>3. SumFunctionOnSet(f, S) = s[S]
  BY <1>1, SumIs
<1>4. \A x \in S : g[x] \in Int
  OBVIOUS
<1>5. SumFunctionOnSet(g, S) = s[S]
  BY <1>2, <1>4, SumIs
<1> QED BY <1>3, <1>5

\* It grows by what is added.
LEMMA SumAdds ==
  ASSUME NEW S, IsFiniteSet(S), NEW f, \A x \in S : f[x] \in Int,
         NEW z, z \notin S, f[z] \in Int
  PROVE  SumFunctionOnSet(f, S \cup {z}) = f[z] + SumFunctionOnSet(f, S)
<1> DEFINE W == S \cup {z}
<1>1. IsFiniteSet(W) /\ z \in W /\ W \ {z} = S /\ \A x \in W : f[x] \in Int
  BY FS_AddElement
<1> HIDE DEF W
<1>2. SumFunctionOnSet(f, W) = f[z] + SumFunctionOnSet(f, W \ {z})
  BY <1>1, SumTakesOut
<1> QED BY <1>1, <1>2 DEF W

-----------------------------------------------------------------------------
\* The accounts.

\* Where f changes, the sum changes as much.
LEMMA SumChanges ==
  ASSUME NEW S, IsFiniteSet(S), NEW f, \A x \in S : f[x] \in Int, NEW z \in S,
         NEW d \in Int, NEW g, g[z] = f[z] + d, \A x \in S \ {z} : g[x] = f[x]
  PROVE  SumFunctionOnSet(g, S) = SumFunctionOnSet(f, S) + d
<1> DEFINE W == S \ {z}
<1>1. IsFiniteSet(W) /\ (\A x \in W : f[x] \in Int /\ g[x] = f[x]) /\ f[z] \in Int
  BY FS_RemoveElement
<1>2. \A x \in S : g[x] \in Int
  OBVIOUS
<1>3. SumFunctionOnSet(f, S) = f[z] + SumFunctionOnSet(f, W)
  BY SumTakesOut
<1>4. SumFunctionOnSet(g, S) = (f[z] + d) + SumFunctionOnSet(g, W)
  BY <1>2, SumTakesOut
<1> HIDE DEF W
<1>5. SumFunctionOnSet(g, W) = SumFunctionOnSet(f, W)
  BY <1>1, SumSame
<1>6. SumFunctionOnSet(f, W) \in Int
  BY <1>1, SumIsInt
<1> QED BY <1>1, <1>3, <1>4, <1>5, <1>6

\* What a major's blocks take, headers included, and the data of all blocks.
Taken(M, k) == SumFunctionOnSet(BytesAndHeader, M[k])
DataOf(M) == [k \in Majors |-> SumFunctionOnSet(Bytes, M[k])]
AllData(M) == SumFunctionOnSet(DataOf(M), Majors)

LEMMA BlockBytes ==
  ASSUME NEW b \in Minor
  PROVE  /\ Bytes[b] = b.size /\ Bytes[b] \in Nat
         /\ BytesAndHeader[b] = b.size + MinHdr /\ BytesAndHeader[b] \in Nat
<1>1. b.size \in Nat
  BY DEF Minor
<1> QED BY <1>1 DEF Bytes, BytesAndHeader

LEMMA MajorsFinite == IsFiniteSet(Majors)
  BY FS_Interval DEF Majors

LEMMA TakenIsInt ==
  ASSUME NEW M \in [Majors -> SUBSET Minor], \A k \in Majors : IsFiniteSet(M[k]), NEW k \in Majors
  PROVE  Taken(M, k) \in Int /\ DataOf(M)[k] \in Int /\ AllData(M) \in Int
<1>1. \A j \in Majors : /\ IsFiniteSet(M[j])
                        /\ \A x \in M[j] : Bytes[x] \in Int /\ BytesAndHeader[x] \in Int
  BY BlockBytes
<1>2. Taken(M, k) \in Int
  <2> DEFINE S == M[k]
  <2>1. IsFiniteSet(S) /\ \A x \in S : BytesAndHeader[x] \in Int
    BY <1>1
  <2> HIDE DEF S
  <2>2. SumFunctionOnSet(BytesAndHeader, S) \in Int
    BY <2>1, SumIsInt
  <2> QED BY <2>2 DEF Taken, S
<1>3. \A j \in Majors : DataOf(M)[j] \in Int
  <2> TAKE j \in Majors
  <2> DEFINE S == M[j]
  <2>1. IsFiniteSet(S) /\ \A x \in S : Bytes[x] \in Int
    BY <1>1
  <2> HIDE DEF S
  <2>2. SumFunctionOnSet(Bytes, S) \in Int
    BY <2>1, SumIsInt
  <2> QED BY <2>2 DEF DataOf, S
<1>4. AllData(M) \in Int
  BY <1>3, MajorsFinite, SumIsInt DEF AllData
<1> QED BY <1>2, <1>3, <1>4

\* One block more in one major.
LEMMA BlockCounts ==
  ASSUME NEW M \in [Majors -> SUBSET Minor], NEW N \in [Majors -> SUBSET Minor],
         \A k \in Majors : IsFiniteSet(M[k]),
         NEW m \in Majors, NEW b \in Minor, b \notin M[m],
         N[m] = M[m] \cup {b}, \A k \in Majors \ {m} : N[k] = M[k]
  PROVE  /\ \A k \in Majors : IsFiniteSet(N[k])
         /\ Taken(N, m) = Taken(M, m) + (b.size + MinHdr)
         /\ \A k \in Majors \ {m} : Taken(N, k) = Taken(M, k)
         /\ AllData(N) = AllData(M) + b.size
<1> DEFINE S == M[m]
<1>1. /\ IsFiniteSet(S) /\ b \notin S /\ N[m] = S \cup {b}
      /\ \A x \in S : Bytes[x] \in Int /\ BytesAndHeader[x] \in Int
      /\ Bytes[b] = b.size /\ BytesAndHeader[b] = b.size + MinHdr
      /\ Bytes[b] \in Int /\ BytesAndHeader[b] \in Int
  BY BlockBytes
<1> HIDE DEF S
<1>2. /\ SumFunctionOnSet(BytesAndHeader, S \cup {b}) = BytesAndHeader[b] + SumFunctionOnSet(BytesAndHeader, S)
      /\ SumFunctionOnSet(Bytes, S \cup {b}) = Bytes[b] + SumFunctionOnSet(Bytes, S)
      /\ SumFunctionOnSet(BytesAndHeader, S) \in Int /\ SumFunctionOnSet(Bytes, S) \in Int
  BY <1>1, SumAdds, SumIsInt
<1>3. \A k \in Majors : IsFiniteSet(N[k])
  <2>1. IsFiniteSet(N[m])
    BY <1>1, FS_AddElement
  <2> QED BY <2>1
<1>4. Taken(N, m) = Taken(M, m) + (b.size + MinHdr)
  BY <1>1, <1>2 DEF Taken, S
<1>5. \A k \in Majors \ {m} : Taken(N, k) = Taken(M, k)
  BY DEF Taken
<1>6. AllData(N) = AllData(M) + b.size
  <2>1. \A k \in Majors : DataOf(M)[k] \in Int
    BY TakenIsInt
  <2>2. DataOf(N)[m] = DataOf(M)[m] + b.size
    <3>1. /\ DataOf(N)[m] = SumFunctionOnSet(Bytes, S \cup {b})
          /\ DataOf(M)[m] = SumFunctionOnSet(Bytes, S)
      BY <1>1 DEF DataOf, S
    <3>2. SumFunctionOnSet(Bytes, S \cup {b}) = SumFunctionOnSet(Bytes, S) + b.size
      BY <1>1, <1>2
    <3> QED BY <3>1, <3>2
  <2>3. \A k \in Majors \ {m} : DataOf(N)[k] = DataOf(M)[k]
    BY DEF DataOf
  <2>4. b.size \in Int
    BY <1>1
  <2> QED BY <2>1, <2>2, <2>3, <2>4, MajorsFinite, SumChanges DEF AllData
<1> QED BY <1>3, <1>4, <1>5, <1>6

LEMMA AccountsNow ==
  ASSUME AccountsExact
  PROVE  /\ \A m \in Listed : usage[m] = MajHdr + Taken(minors, m)
         /\ inuse = AllData(minors)
         /\ allocated = SumFunctionOnSet(msize, Listed)
         /\ taken = SumFunctionOnSet(msize, 1 .. made)
  BY DEF AccountsExact, UsageExact, TotalsExact, Taken, AllData, DataOf

LEMMA AccountsAfter ==
  ASSUME \A m \in Listed' : usage'[m] = MajHdr + Taken(minors', m),
         inuse' = AllData(minors'),
         allocated' = SumFunctionOnSet(msize', Listed'),
         taken' = SumFunctionOnSet(msize', 1 .. made')
  PROVE  AccountsExact'
<1> USE DEF Taken, AllData, DataOf, SumFunctionOnSet, FoldFunctionOnSet, MapThenFoldSet
<1>1. UsageExact'
  BY DEF UsageExact, BytesAndHeader, Minor
<1>2. TotalsExact'
  BY DEF TotalsExact, Bytes, Minor, Majors
<1> QED BY <1>1, <1>2 DEF AccountsExact

LEMMA ListedFinite ==
  ASSUME LayoutInv
  PROVE  Listed \subseteq Majors /\ IsFiniteSet(Listed) /\ \A m \in Majors : msize[m] \in Nat
<1>1. Listed \subseteq Majors
  BY DEF LayoutInv, ListExact
<1> QED BY <1>1, MajorsFinite, FS_Subset DEF LayoutInv, TypeOK

\* Where there is room for a block, none like it lies already.
LEMMA RoomIsEmpty ==
  ASSUME LayoutInv, NEW m \in Majors, NEW p \in Nat, NEW req \in Requests,
         \A b \in minors[m] : p + Need(req) <= b.at \/ EndOf(b) <= p
  PROVE  /\ [at |-> p, size |-> SizeOf(req), req |-> req] \in Minor
         /\ [at |-> p, size |-> SizeOf(req), req |-> req] \notin minors[m]
<1> DEFINE new == [at |-> p, size |-> SizeOf(req), req |-> req]
<1>1. Need(req) \in Nat /\ Need(req) > 0 /\ SizeOf(req) \in Nat /\ Need(req) = SizeOf(req) + MinHdr
  BY NeedIsNat DEF Slack
<1>2. new \in Minor /\ new.at = p /\ EndOf(new) = p + Need(req)
  BY <1>1 DEF Minor, EndOf
<1> HIDE DEF new
<1>3. new \notin minors[m]
  BY <1>1, <1>2
<1> QED BY <1>2, <1>3 DEF new

LEMMA FindsCounts ==
  ASSUME IInv, NEW req \in Requests, KmallocFinds(req)
  PROVE  BlocksFinite' /\ AccountsExact'
<1> DEFINE path == Path(Need(req))
           new(p) == [at |-> p, size |-> SizeOf(req), req |-> req]
<1>1. path \in Seq(Listed) /\ Listed \subseteq Majors
  BY PathIsListed DEF IInv, LayoutInv, ListExact
<1>2. PICK k \in DOMAIN path :
        /\ \E p \in Places(path[k]) : FirstPlace(path[k], p, Need(req)) /\ Place(path[k], p, req)
        /\ usage' = [usage EXCEPT ![path[k]] = @ + Need(req)]
  BY DEF KmallocFinds
<1>3. UNCHANGED <<order, made, msize, allocated, taken>>
  BY DEF KmallocFinds
<1> HIDE DEF path
<1> DEFINE m == path[k]
<1>4. m \in Listed /\ m \in Majors
  BY <1>1, <1>2
<1>5. PICK p \in Places(m) : FirstPlace(m, p, Need(req)) /\ Place(m, p, req)
  BY <1>2
<1>6. usage' = [usage EXCEPT ![m] = @ + Need(req)]
  BY <1>2
<1> HIDE DEF m
<1>7. p \in Nat
  BY <1>4, <1>5, PlacesAreBehindTheHead DEF IInv, LayoutInv
<1>8. new(p) \in Minor /\ new(p) \notin minors[m]
  BY <1>4, <1>5, <1>7, RoomIsEmpty DEF IInv, FirstPlace, Fits
<1>9. /\ minors' = [minors EXCEPT ![m] = @ \cup {new(p)}]
      /\ inuse' = inuse + SizeOf(req)
  BY <1>5 DEF Place
<1>10. /\ minors \in [Majors -> SUBSET Minor] /\ usage \in [Majors -> Int]
       /\ \A j \in Majors : IsFiniteSet(minors[j])
  BY DEF IInv, LayoutInv, TypeOK, BlocksFinite
<1>11. /\ minors' \in [Majors -> SUBSET Minor] /\ minors'[m] = minors[m] \cup {new(p)}
       /\ \A j \in Majors \ {m} : minors'[j] = minors[j]
  BY <1>4, <1>8, <1>9, <1>10
<1>12. new(p).size = SizeOf(req) /\ Need(req) \in Int /\ Need(req) = SizeOf(req) + MinHdr
  BY NeedIsNat
<1> HIDE DEF new
<1>13. /\ \A j \in Majors : IsFiniteSet(minors'[j])
       /\ Taken(minors', m) = Taken(minors, m) + Need(req)
       /\ \A j \in Majors \ {m} : Taken(minors', j) = Taken(minors, j)
       /\ AllData(minors') = AllData(minors) + SizeOf(req)
  BY <1>4, <1>8, <1>10, <1>11, <1>12, BlockCounts
<1>14. Listed' = Listed
  BY <1>3 DEF Listed
<1>15. \A j \in Listed : usage'[j] = MajHdr + Taken(minors', j)
  <2> TAKE j \in Listed
  <2>1. j \in Majors /\ usage[j] = MajHdr + Taken(minors, j) /\ Taken(minors, j) \in Int
    BY <1>1, <1>10, AccountsNow, TakenIsInt DEF IInv
  <2>2. CASE j = m
    BY <1>6, <1>10, <1>12, <1>13, <2>1, <2>2
  <2>3. CASE j # m
    BY <1>6, <1>10, <1>13, <2>1, <2>3
  <2> QED BY <2>2, <2>3
<1>16. AccountsExact'
  BY <1>3, <1>9, <1>13, <1>14, <1>15, AccountsNow, AccountsAfter DEF IInv
<1>17. BlocksFinite'
  BY <1>13 DEF BlocksFinite, Majors
<1> QED BY <1>16, <1>17

LEMMA GrowsCounts ==
  ASSUME IInv, NEW req \in Requests, KmallocGrows(req)
  PROVE  BlocksFinite' /\ AccountsExact'
<1> DEFINE m == made + 1
           new == [at |-> MajHdr, size |-> SizeOf(req), req |-> req]
<1>1. /\ made < MaxMajors /\ Place(m, MajHdr, req)
      /\ order' = Append(order, m) /\ made' = m
  BY DEF KmallocGrows
<1>2. PICK st \in 1 .. MaxPages :
        /\ msize' = [msize EXCEPT ![m] = st * PageSize]
        /\ usage' = [usage EXCEPT ![m] = MajHdr + Need(req)]
        /\ allocated' = allocated + st * PageSize
        /\ taken' = taken + st * PageSize
  BY DEF KmallocGrows
<1>3. m \in Majors /\ made \in Nat /\ m \notin 1 .. made /\ 1 .. m = (1 .. made) \cup {m}
      /\ 1 .. made \subseteq Majors
  <2>1. made \in Nat /\ made < MaxMajors /\ MaxMajors \in Nat
    BY <1>1, HeapAssumption DEF IInv, LayoutInv, TypeOK
  <2> QED BY <2>1 DEF Majors
<1>4. minors[m] = {} /\ m \notin Listed
  BY <1>3 DEF IInv, LayoutInv, NothingBeforeMade, ListExact
<1> DEFINE bytes == st * PageSize
<1>5. bytes \in Nat
  OBVIOUS
<1>6. Listed' = Listed \cup {m}
  <2>1. order \in Seq(Majors) /\ Len(order) \in Nat /\ DOMAIN order = 1 .. Len(order)
    BY DEF IInv, LayoutInv, TypeOK
  <2>2. /\ DOMAIN order' = 1 .. Len(order) + 1
        /\ \A i \in 1 .. Len(order) : order'[i] = order[i]
        /\ order'[Len(order) + 1] = m
    BY <1>1, <1>3, <2>1
  <2> QED BY <2>1, <2>2 DEF Listed
<1> HIDE DEF m, bytes
<1>7. /\ msize' = [msize EXCEPT ![m] = bytes] /\ usage' = [usage EXCEPT ![m] = MajHdr + Need(req)]
      /\ allocated' = allocated + bytes /\ taken' = taken + bytes
  BY <1>2 DEF bytes
<1>8. /\ minors' = [minors EXCEPT ![m] = @ \cup {new}] /\ inuse' = inuse + SizeOf(req)
  BY <1>1 DEF Place
<1>9. new \in Minor /\ new \notin minors[m] /\ new.size = SizeOf(req)
      /\ Need(req) \in Int /\ Need(req) = SizeOf(req) + MinHdr
  BY <1>4, NeedIsNat DEF Minor
<1> HIDE DEF new
<1>10. /\ minors \in [Majors -> SUBSET Minor] /\ usage \in [Majors -> Int]
       /\ msize \in [Majors -> Nat]
       /\ \A j \in Majors : IsFiniteSet(minors[j])
  BY DEF IInv, LayoutInv, TypeOK, BlocksFinite
<1>11. /\ minors' \in [Majors -> SUBSET Minor] /\ minors'[m] = minors[m] \cup {new}
       /\ \A j \in Majors \ {m} : minors'[j] = minors[j]
  BY <1>3, <1>8, <1>9, <1>10
<1>12. /\ \A j \in Majors : IsFiniteSet(minors'[j])
       /\ Taken(minors', m) = Taken(minors, m) + Need(req)
       /\ \A j \in Majors \ {m} : Taken(minors', j) = Taken(minors, j)
       /\ AllData(minors') = AllData(minors) + SizeOf(req)
  BY <1>3, <1>9, <1>10, <1>11, BlockCounts
<1>13. Taken(minors, m) = 0
  BY <1>4, SumOfNone DEF Taken
<1>14. \A j \in Listed' : usage'[j] = MajHdr + Taken(minors', j)
  <2> TAKE j \in Listed'
  <2>1. CASE j = m
    BY <1>3, <1>7, <1>9, <1>10, <1>12, <1>13, <2>1
  <2>2. CASE j # m
    <3>1. j \in Listed /\ j \in Majors
      BY <1>6, <2>2, ListedFinite DEF IInv
    <3>2. usage[j] = MajHdr + Taken(minors, j)
      BY <3>1, AccountsNow DEF IInv
    <3> QED BY <1>7, <1>10, <1>12, <2>2, <3>1, <3>2
  <2> QED BY <2>1, <2>2
<1>15. ASSUME NEW S \in SUBSET Majors, m \notin S
       PROVE  SumFunctionOnSet(msize', S \cup {m}) = SumFunctionOnSet(msize, S) + bytes
  <2>1. IsFiniteSet(S)
    BY MajorsFinite, FS_Subset
  <2>2. /\ \A x \in S : msize[x] \in Int /\ msize'[x] = msize[x] /\ msize'[x] \in Int
        /\ msize'[m] = bytes /\ msize'[m] \in Int
    BY <1>3, <1>5, <1>7, <1>10, <1>15
  <2>3. SumFunctionOnSet(msize', S \cup {m}) = bytes + SumFunctionOnSet(msize', S)
    BY <1>15, <2>1, <2>2, SumAdds
  <2>4. SumFunctionOnSet(msize', S) = SumFunctionOnSet(msize, S)
    BY <2>1, <2>2, SumSame
  <2>5. SumFunctionOnSet(msize, S) \in Int
    BY <2>1, <2>2, SumIsInt
  <2> QED BY <1>5, <2>3, <2>4, <2>5
<1>16. allocated' = SumFunctionOnSet(msize', Listed')
  BY <1>4, <1>6, <1>7, <1>15, AccountsNow, ListedFinite DEF IInv
<1>17. taken' = SumFunctionOnSet(msize', 1 .. made')
  BY <1>1, <1>3, <1>7, <1>15, AccountsNow DEF IInv
<1>18. inuse' = AllData(minors')
  BY <1>8, <1>12, AccountsNow DEF IInv
<1>19. AccountsExact'
  BY <1>14, <1>16, <1>17, <1>18, AccountsAfter
<1>20. BlocksFinite'
  BY <1>12 DEF BlocksFinite, Majors
<1> QED BY <1>19, <1>20

LEMMA FreeCounts ==
  ASSUME IInv, NEW m \in Majors, NEW b \in minors[m], KfreeBlock(m, b)
  PROVE  BlocksFinite' /\ AccountsExact'
<1>1. Release(m, b) /\ UNCHANGED <<made, msize, taken>>
  BY DEF KfreeBlock
<1>2. /\ minors \in [Majors -> SUBSET Minor] /\ usage \in [Majors -> Int]
      /\ inuse \in Int /\ allocated \in Int
      /\ \A j \in Majors : IsFiniteSet(minors[j])
  BY DEF IInv, LayoutInv, TypeOK, BlocksFinite
<1>3. /\ minors' = [minors EXCEPT ![m] = @ \ {b}]
      /\ usage' = [usage EXCEPT ![m] = @ - (b.size + MinHdr)]
      /\ inuse' = inuse - b.size
  BY <1>1 DEF Release
<1>4. b \in Minor /\ b.size \in Nat
  BY <1>2 DEF Minor
<1>5. /\ minors' \in [Majors -> SUBSET Minor] /\ minors'[m] = minors[m] \ {b}
      /\ minors[m] = minors'[m] \cup {b} /\ b \notin minors'[m]
      /\ \A j \in Majors \ {m} : minors[j] = minors'[j]
      /\ \A j \in Majors : minors'[j] \subseteq minors[j]
  BY <1>2, <1>3
<1>6. \A j \in Majors : IsFiniteSet(minors'[j])
  BY <1>2, <1>5, FS_Subset
<1>7. /\ Taken(minors, m) = Taken(minors', m) + (b.size + MinHdr)
      /\ \A j \in Majors \ {m} : Taken(minors, j) = Taken(minors', j)
      /\ AllData(minors) = AllData(minors') + b.size
  <2> DEFINE M == minors'
             N == minors
  <2>1. /\ M \in [Majors -> SUBSET Minor] /\ N \in [Majors -> SUBSET Minor]
        /\ \A j \in Majors : IsFiniteSet(M[j])
        /\ b \notin M[m] /\ N[m] = M[m] \cup {b} /\ \A j \in Majors \ {m} : N[j] = M[j]
    BY <1>2, <1>5, <1>6
  <2> HIDE DEF M, N
  <2>2. /\ Taken(N, m) = Taken(M, m) + (b.size + MinHdr)
        /\ \A j \in Majors \ {m} : Taken(N, j) = Taken(M, j)
        /\ AllData(N) = AllData(M) + b.size
    BY <1>4, <2>1, BlockCounts
  <2> QED BY <2>2 DEF M, N
<1>8. AllData(minors') \in Int /\ \A j \in Majors : Taken(minors', j) \in Int
  BY <1>5, <1>6, TakenIsInt
<1>9. m \in Listed /\ Listed \subseteq Majors /\ IsFiniteSet(Listed) /\ \A j \in Majors : msize[j] \in Nat
  BY ListedFinite DEF IInv, LayoutInv, ListExact
<1>10. ASSUME NEW j \in Listed PROVE usage'[j] = MajHdr + Taken(minors', j)
  <2>1. j \in Majors /\ usage[j] = MajHdr + Taken(minors, j)
    BY <1>9, AccountsNow DEF IInv
  <2>2. CASE j = m
    <3>1. usage'[j] = usage[j] - (b.size + MinHdr)
      BY <1>2, <1>3, <2>1, <2>2
    <3> QED BY <1>4, <1>7, <1>8, <2>1, <2>2, <3>1
  <2>3. CASE j # m
    BY <1>2, <1>3, <1>7, <2>1, <2>3
  <2> QED BY <2>2, <2>3
<1>11. inuse' = AllData(minors')
  <2> DEFINE d == AllData(minors')
             s == b.size
  <2>1. inuse = d + s
    BY <1>7, AccountsNow DEF IInv
  <2>2. d \in Int /\ s \in Int /\ inuse' = inuse - s
    BY <1>3, <1>4, <1>8
  <2> HIDE DEF d, s
  <2>3. inuse' = d
    BY <2>1, <2>2
  <2> QED BY <2>3 DEF d
<1>12. Listed' \subseteq Listed /\ allocated' = SumFunctionOnSet(msize', Listed')
  <2>1. allocated = SumFunctionOnSet(msize, Listed) /\ msize' = msize
    BY <1>1, AccountsNow DEF IInv
  <2>2. CASE Unlink(m)
    <3>1. order' = Without(m) /\ allocated' = allocated - msize[m]
      BY <2>2 DEF Unlink
    <3>2. Listed' = Listed \ {m}
      <4>1. {Without(m)[i] : i \in DOMAIN Without(m)} = Listed \ {m}
        BY <1>9, WithoutRemoves DEF IInv, LayoutInv
      <4>2. Listed' = {order'[i] : i \in DOMAIN order'}
        BY DEF Listed
      <4> QED BY <3>1, <4>1, <4>2
    <3>3. SumFunctionOnSet(msize, Listed) = msize[m] + SumFunctionOnSet(msize, Listed \ {m})
      BY <1>9, SumTakesOut
    <3>4. SumFunctionOnSet(msize, Listed \ {m}) \in Int
      <4>1. IsFiniteSet(Listed \ {m}) /\ \A j \in Listed \ {m} : msize[j] \in Int
        BY <1>9, FS_RemoveElement
      <4> QED BY <4>1, SumIsInt
    <3> QED BY <1>9, <2>1, <3>1, <3>2, <3>3, <3>4
  <2>3. CASE UNCHANGED <<order, allocated>>
    BY <2>1, <2>3 DEF Listed
  <2> QED BY <2>2, <2>3 DEF KfreeBlock
<1>13. AccountsExact'
  <2>1. taken' = SumFunctionOnSet(msize', 1 .. made')
    BY <1>1, AccountsNow DEF IInv
  <2> QED BY <1>10, <1>11, <1>12, <2>1, AccountsAfter
<1>14. BlocksFinite'
  BY <1>6 DEF BlocksFinite, Majors
<1> QED BY <1>13, <1>14

LEMMA ShrinkCounts ==
  ASSUME IInv, NEW m \in Majors, NEW b \in minors[m], NEW req \in Requests,
         KreallocShrinks(m, b, req)
  PROVE  BlocksFinite' /\ AccountsExact'
<1> DEFINE new == [b EXCEPT !.req = req]
           rest == [minors EXCEPT ![m] = @ \ {b}]
<1>1. /\ minors' = [minors EXCEPT ![m] = (@ \ {b}) \cup {new}]
      /\ UNCHANGED <<order, made, msize, usage, bestBet, allocated, inuse, taken, moving>>
  BY DEF KreallocShrinks
<1>2. /\ minors \in [Majors -> SUBSET Minor] /\ \A j \in Majors : IsFiniteSet(minors[j])
  BY DEF IInv, LayoutInv, TypeOK, BlocksFinite
<1>3. b \in Minor /\ b.at \in Nat /\ b.size \in Nat /\ b.req \in Nat
  BY <1>2 DEF Minor
<1>4. new \in Minor /\ new.at = b.at /\ new.size = b.size
  BY <1>3 DEF Minor
<1> HIDE DEF new
<1>5. new \notin minors[m] \ {b}
  <2>1. b.size > 0
    <3>1. b.req + Slack <= b.size
      BY DEF IInv, LayoutInv, BlocksKeepRoom
    <3> QED BY <1>3, <3>1 DEF Slack
  <2>2. EndOf(new) = EndOf(b) /\ EndOf(b) > b.at
    BY <1>3, <1>4, <2>1 DEF EndOf
  <2>3. EndOf(b) \in Int
    BY <1>3 DEF EndOf
  <2>4. \A c \in minors[m] : b # c => EndOf(b) <= c.at \/ EndOf(c) <= b.at
    BY DEF IInv, LayoutInv, BlocksDisjoint
  <2> QED BY <1>3, <1>4, <2>2, <2>3, <2>4
<1>6. /\ rest \in [Majors -> SUBSET Minor] /\ rest[m] = minors[m] \ {b}
      /\ \A j \in Majors \ {m} : rest[j] = minors[j]
      /\ \A j \in Majors : rest[j] \subseteq minors[j]
  BY <1>2
<1>7. /\ minors' \in [Majors -> SUBSET Minor] /\ minors'[m] = (minors[m] \ {b}) \cup {new}
      /\ \A j \in Majors \ {m} : minors'[j] = minors[j]
  BY <1>1, <1>2, <1>4
<1> HIDE DEF rest
<1>8. \A j \in Majors : IsFiniteSet(rest[j])
  BY <1>2, <1>6, FS_Subset
<1>9. /\ Taken(minors, m) = Taken(rest, m) + (b.size + MinHdr)
      /\ \A j \in Majors \ {m} : Taken(minors, j) = Taken(rest, j)
      /\ AllData(minors) = AllData(rest) + b.size
  <2>1. b \notin rest[m] /\ minors[m] = rest[m] \cup {b} /\ \A j \in Majors \ {m} : minors[j] = rest[j]
    BY <1>6
  <2> DEFINE N == minors
  <2>2. /\ N \in [Majors -> SUBSET Minor] /\ rest \in [Majors -> SUBSET Minor]
        /\ b \notin rest[m] /\ N[m] = rest[m] \cup {b} /\ \A j \in Majors \ {m} : N[j] = rest[j]
    BY <1>2, <1>6, <2>1
  <2> HIDE DEF N
  <2>3. /\ Taken(N, m) = Taken(rest, m) + (b.size + MinHdr)
        /\ \A j \in Majors \ {m} : Taken(N, j) = Taken(rest, j)
        /\ AllData(N) = AllData(rest) + b.size
    BY <1>3, <1>8, <2>2, BlockCounts
  <2> QED BY <2>3 DEF N
<1>10. /\ \A j \in Majors : IsFiniteSet(minors'[j])
       /\ Taken(minors', m) = Taken(rest, m) + (b.size + MinHdr)
       /\ \A j \in Majors \ {m} : Taken(minors', j) = Taken(rest, j)
       /\ AllData(minors') = AllData(rest) + b.size
  <2>1. new \notin rest[m] /\ minors'[m] = rest[m] \cup {new} /\ \A j \in Majors \ {m} : minors'[j] = rest[j]
    BY <1>5, <1>6, <1>7
  <2> QED BY <1>4, <1>6, <1>7, <1>8, <2>1, BlockCounts
<1>11. Listed' = Listed /\ Listed \subseteq Majors
  BY <1>1, ListedFinite DEF IInv, Listed
<1>12. \A j \in Listed' : usage'[j] = MajHdr + Taken(minors', j)
  <2> TAKE j \in Listed'
  <2>1. Taken(minors', j) = Taken(minors, j)
    BY <1>9, <1>10, <1>11
  <2> QED BY <1>1, <1>11, <2>1, AccountsNow DEF IInv
<1>13. AccountsExact'
  BY <1>1, <1>9, <1>10, <1>11, <1>12, AccountsNow, AccountsAfter DEF IInv
<1>14. BlocksFinite'
  BY <1>10 DEF BlocksFinite, Majors
<1> QED BY <1>13, <1>14

LEMMA InitIInv == Init => IInv
<1> SUFFICES ASSUME Init PROVE IInv
  OBVIOUS
<1>1. LayoutInv
  BY InitLayout
<1>2. BlocksFinite
  BY FS_EmptySet DEF Init, BlocksFinite
<1>3. Listed = {} /\ 1 .. made = {}
  BY DEF Init, Listed
<1>4. AllData(minors) = 0
  <2>1. \A k \in Majors : DataOf(minors)[k] = 0
    BY SumOfNone DEF Init, DataOf
  <2> DEFINE S == Majors
             f == DataOf(minors)
             T == {V \in SUBSET S : SumFunctionOnSet(f, V) = 0}
  <2>2. IsFiniteSet(S) /\ \A x \in S : f[x] = 0
    BY <2>1, MajorsFinite
  <2> HIDE DEF S, f
  <2>3. {} \in T
    BY SumOfNone
  <2>4. ASSUME NEW V \in SUBSET S, V # {}, \A x \in V : V \ {x} \in T PROVE V \in T
    <3>1. PICK x : x \in V
      BY <2>4
    <3>2. IsFiniteSet(V) /\ \A y \in V : f[y] \in Int
      BY <2>2, FS_Subset
    <3>3. SumFunctionOnSet(f, V) = f[x] + SumFunctionOnSet(f, V \ {x})
      BY <3>1, <3>2, SumTakesOut
    <3> QED BY <2>2, <2>4, <3>1, <3>3
  <2>5. SUBSET S \subseteq T
    <3> HIDE DEF T
    <3> QED BY <2>2, <2>3, <2>4, Subsets
  <2> QED BY <2>5 DEF AllData, S, f
<1>5. AccountsExact
  BY <1>3, <1>4, SumOfNone DEF Init, AccountsExact, UsageExact, TotalsExact, AllData, DataOf
<1> QED BY <1>1, <1>2, <1>5 DEF IInv

LEMMA NextIInv == IInv /\ [Next]_vars => IInv'
<1> SUFFICES ASSUME IInv, [Next]_vars PROVE IInv'
  OBVIOUS
<1>1. LayoutInv'
  BY NextLayout DEF IInv
<1>2. BlocksFinite' /\ AccountsExact'
  <2>1. ASSUME NEW req \in Requests, KmallocFinds(req) \/ KmallocGrows(req)
        PROVE  BlocksFinite' /\ AccountsExact'
    BY <2>1, FindsCounts, GrowsCounts
  <2>2. ASSUME NEW m \in Majors, NEW b \in minors[m], KfreeBlock(m, b)
        PROVE  BlocksFinite' /\ AccountsExact'
    BY <2>2, FreeCounts
  <2>3. ASSUME NEW m \in Majors, NEW b \in minors[m], NEW req \in Requests,
               KreallocShrinks(m, b, req)
        PROVE  BlocksFinite' /\ AccountsExact'
    BY <2>3, ShrinkCounts
  <2>4. ASSUME KreallocFrees PROVE BlocksFinite' /\ AccountsExact'
    <3>1. moving \in Majors \X Minor /\ KfreeBlock(moving[1], moving[2])
      BY <2>4 DEF KreallocFrees, IInv, LayoutInv, TypeOK
    <3>2. moving[1] \in Majors /\ moving[2] \in minors[moving[1]]
      BY <3>1 DEF KfreeBlock
    <3> QED BY <2>2, <3>1, <3>2
  <2>5. CASE UNCHANGED vars
    <3>1. Listed' = Listed
      BY <2>5 DEF Listed, vars
    <3>2. AccountsExact'
      BY <2>5, <3>1, AccountsNow, AccountsAfter DEF IInv, vars
    <3> QED BY <2>5, <3>2 DEF IInv, BlocksFinite, vars
  <2> QED BY <2>1, <2>2, <2>3, <2>4, <2>5 DEF Next, Kmalloc, Kfree, KreallocCopies
<1> QED BY <1>1, <1>2 DEF IInv

-----------------------------------------------------------------------------
\* A gap and the total of what is free.

LEMMA LastBlock ==
  ASSUME NEW B \in SUBSET Minor, IsFiniteSet(B), B # {}
  PROVE  \E b \in B : \A c \in B : c.at <= b.at
<1> DEFINE T == {V \in SUBSET B : V = {} \/ \E b \in V : \A c \in V : c.at <= b.at}
<1>1. {} \in T
  OBVIOUS
<1>2. ASSUME NEW V \in SUBSET B, V # {}, \A x \in V : V \ {x} \in T PROVE V \in T
  <2>0. \A c \in B : c.at \in Nat
    BY DEF Minor
  <2>1. PICK x : x \in V
    BY <1>2
  <2>2. CASE V \ {x} = {}
    <3>1. \A c \in V : c.at <= x.at
      BY <2>0, <2>1, <2>2
    <3> QED BY <2>1, <3>1
  <2>3. CASE \E b \in V \ {x} : \A c \in V \ {x} : c.at <= b.at
    <3>1. PICK b \in V \ {x} : \A c \in V \ {x} : c.at <= b.at
      BY <2>3
    <3>2. CASE x.at <= b.at
      <4>1. \A c \in V : c.at <= b.at
        BY <3>1, <3>2
      <4> QED BY <3>1, <4>1
    <3>3. CASE b.at <= x.at
      <4>1. \A c \in V : c.at <= x.at
        BY <2>0, <2>1, <3>1, <3>3
      <4> QED BY <2>1, <4>1
    <3> QED BY <2>0, <2>1, <3>1, <3>2, <3>3
  <2> QED BY <1>2, <2>1, <2>2, <2>3
<1>3. SUBSET B \subseteq T
  <2> HIDE DEF T
  <2> QED BY <1>1, <1>2, Subsets
<1> QED BY <1>3

Apart(B) == \A b, c \in B : b # c => EndOf(b) <= c.at \/ EndOf(c) <= b.at

\* Blocks that lie apart between two places take no more than what is between them.
LEMMA Packing ==
  ASSUME NEW B \in SUBSET Minor, IsFiniteSet(B), NEW lo \in Nat, NEW hi \in Nat, lo <= hi,
         Apart(B), \A b \in B : b.size > 0 /\ lo <= b.at /\ EndOf(b) <= hi
  PROVE  SumFunctionOnSet(BytesAndHeader, B) <= hi - lo
<1> DEFINE sum(V) == SumFunctionOnSet(BytesAndHeader, V)
           T == {V \in SUBSET B : \A h \in Nat :
                   lo <= h /\ (\A b \in V : EndOf(b) <= h) => sum(V) <= h - lo}
<1>1. {} \in T
  BY SumOfNone
<1>2. ASSUME NEW V \in SUBSET B, V # {}, \A x \in V : V \ {x} \in T PROVE V \in T
  <2>1. IsFiniteSet(V) /\ V \in SUBSET Minor
    BY <1>2, FS_Subset
  <2>2. PICK b \in V : \A c \in V : c.at <= b.at
    BY <1>2, <2>1, LastBlock
  <2>3. \A c \in V : /\ c.at \in Nat /\ c.size \in Nat /\ c.size > 0 /\ lo <= c.at
                     /\ EndOf(c) = c.at + MinHdr + c.size /\ EndOf(c) \in Nat
    BY <2>1 DEF Minor, EndOf
  <2>4. \A c \in V \ {b} : EndOf(c) <= b.at
    <3> TAKE c \in V \ {b}
    <3>1. EndOf(b) <= c.at \/ EndOf(c) <= b.at
      BY DEF Apart
    <3>2. ~(EndOf(b) <= c.at)
      BY <2>2, <2>3
    <3> QED BY <3>1, <3>2
  <2>5. sum(V \ {b}) <= b.at - lo
    BY <1>2, <2>3, <2>4
  <2>6. \A c \in V : BytesAndHeader[c] = c.size + MinHdr /\ BytesAndHeader[c] \in Int
    BY <2>1, BlockBytes
  <2>7. sum(V) = (b.size + MinHdr) + sum(V \ {b})
    BY <2>1, <2>6, SumTakesOut
  <2>8. sum(V \ {b}) \in Int
    <3>1. IsFiniteSet(V \ {b}) /\ \A c \in V \ {b} : BytesAndHeader[c] \in Int
      BY <2>1, <2>6, FS_RemoveElement
    <3> QED BY <3>1, SumIsInt
  <2> HIDE DEF sum
  <2>9. ASSUME NEW h \in Nat, EndOf(b) <= h PROVE sum(V) <= h - lo
    BY <2>3, <2>5, <2>7, <2>8, <2>9
  <2> QED BY <2>9
<1>3. SUBSET B \subseteq T
  <2> HIDE DEF T
  <2> QED BY <1>1, <1>2, Subsets
<1> QED BY <1>3

\* A major with a gap has enough in total, and a place kmalloc looks at.
LEMMA GapHasRoom ==
  ASSUME IInv, NEW m \in Listed, NEW req \in Requests, NEW p \in MajHdr .. msize[m],
         Fits(m, p, Need(req))
  PROVE  HasRoom(m, Need(req))
<1> DEFINE gap == [at |-> p, size |-> SizeOf(req), req |-> req]
           B == minors[m]
<1>1. m \in Majors /\ msize[m] \in Nat /\ p \in Nat /\ MajHdr <= p
  BY ListedFinite DEF IInv
<1>2. /\ B \in SUBSET Minor /\ IsFiniteSet(B) /\ usage[m] \in Int
      /\ \A b \in B : /\ b.size > 0 /\ MajHdr <= b.at /\ EndOf(b) <= msize[m]
                      /\ b.at \in Nat /\ EndOf(b) \in Nat /\ b.at < EndOf(b)
      /\ Apart(B)
  <2>1. B \in SUBSET Minor /\ IsFiniteSet(B) /\ usage[m] \in Int
    BY <1>1 DEF IInv, LayoutInv, TypeOK, BlocksFinite
  <2>2. \A b \in B : b.at \in Nat /\ b.size \in Nat /\ b.req \in Nat
    BY <2>1 DEF Minor
  <2>3. \A b \in B : b.size > 0
    BY <1>1, <2>2 DEF IInv, LayoutInv, BlocksKeepRoom, Slack
  <2>4. \A b \in B : EndOf(b) \in Nat /\ b.at < EndOf(b)
    BY <2>2, <2>3 DEF EndOf
  <2>5. Apart(B) /\ \A b \in B : MajHdr <= b.at /\ EndOf(b) <= msize[m]
    BY <1>1 DEF IInv, LayoutInv, BlocksDisjoint, Apart
  <2> QED BY <2>1, <2>2, <2>3, <2>4, <2>5
<1>3. /\ p + Need(req) <= msize[m]
      /\ \A b \in B : p + Need(req) <= b.at \/ EndOf(b) <= p
  BY DEF Fits
<1>4. gap \in Minor /\ gap \notin B
  BY <1>1, <1>3, RoomIsEmpty DEF IInv
<1>5. /\ SizeOf(req) \in Nat /\ SizeOf(req) > 0 /\ Need(req) \in Nat
      /\ Need(req) = SizeOf(req) + MinHdr
  BY NeedIsNat DEF Slack
<1>6. gap.at = p /\ gap.size = SizeOf(req) /\ EndOf(gap) = p + Need(req)
  BY <1>1, <1>5 DEF EndOf
<1> HIDE DEF gap, B
<1>7. FreeIn(m) >= Need(req)
  <2> DEFINE C == B \cup {gap}
  <2>1. C \in SUBSET Minor /\ IsFiniteSet(C)
    BY <1>2, <1>4, FS_AddElement
  <2>2. \A b \in C : b.size > 0 /\ MajHdr <= b.at /\ EndOf(b) <= msize[m]
    BY <1>1, <1>2, <1>3, <1>5, <1>6
  <2>3. Apart(C)
    <3>1. \A b \in B : EndOf(gap) <= b.at \/ EndOf(b) <= gap.at
      BY <1>3, <1>6
    <3> QED BY <1>2, <3>1 DEF Apart
  <2>4. MajHdr <= msize[m]
    BY <1>1
  <2>5. SumFunctionOnSet(BytesAndHeader, C) <= msize[m] - MajHdr
    <3> HIDE DEF C
    <3> QED BY <1>1, <2>1, <2>2, <2>3, <2>4, Packing
  <2>6. \A b \in C : BytesAndHeader[b] = b.size + MinHdr /\ BytesAndHeader[b] \in Int
    BY <2>1, BlockBytes
  <2>7. SumFunctionOnSet(BytesAndHeader, C) = Need(req) + SumFunctionOnSet(BytesAndHeader, B)
    BY <1>2, <1>4, <1>5, <1>6, <2>6, SumAdds
  <2>8. SumFunctionOnSet(BytesAndHeader, B) \in Int
    BY <1>2, <2>6, SumIsInt
  <2>9. usage[m] = MajHdr + SumFunctionOnSet(BytesAndHeader, B)
    BY DEF IInv, AccountsExact, UsageExact, B
  <2> QED BY <1>1, <1>5, <2>5, <2>7, <2>8, <2>9 DEF FreeIn
<1>8. \E q \in Places(m) : Fits(m, q, Need(req))
  <2> DEFINE L == {b \in B : EndOf(b) <= p}
  <2>1. CASE L = {}
    <3>1. \A b \in B : p + Need(req) <= b.at
      BY <1>3, <2>1
    <3>2. Fits(m, MajHdr, Need(req))
      BY <1>1, <1>2, <1>3, <1>5, <3>1 DEF Fits, B
    <3> QED BY <3>2 DEF Places
  <2>2. CASE L # {}
    <3>1. L \in SUBSET Minor /\ IsFiniteSet(L)
      BY <1>2, FS_Subset
    <3>2. PICK b \in L : \A c \in L : c.at <= b.at
      BY <2>2, <3>1, LastBlock
    <3>3. ASSUME NEW c \in B
          PROVE  EndOf(b) + Need(req) <= c.at \/ EndOf(c) <= EndOf(b)
      <4>1. CASE c \in L /\ c # b
        BY <1>2, <3>2, <4>1 DEF Apart
      <4>2. CASE c = b
        BY <1>2, <4>2
      <4>3. CASE c \notin L
        BY <1>1, <1>2, <1>3, <1>5, <3>2, <4>3
      <4> QED BY <4>1, <4>2, <4>3
    <3>4. EndOf(b) + Need(req) <= msize[m]
      BY <1>1, <1>2, <1>3, <1>5, <3>2
    <3>5. Fits(m, EndOf(b), Need(req))
      BY <3>3, <3>4 DEF Fits, B
    <3> QED BY <3>2, <3>5 DEF Places, B
  <2> QED BY <2>1, <2>2
<1> QED BY <1>7, <1>8 DEF HasRoom

\* The search passes every major of the list.
LEMMA PathPassesAll ==
  ASSUME TypeOK, BestBetIsListed, NEW need, NEW m \in Listed
  PROVE  \E k \in DOMAIN Path(need) : Path(need)[k] = m
<1>1. order \in Seq(Majors) /\ Len(order) \in Nat /\ DOMAIN order = 1 .. Len(order)
  BY DEF TypeOK
<1>2. PICK i \in 1 .. Len(order) : order[i] = m
  BY <1>1 DEF Listed
<1>3. CASE ~StartsAtBet(need)
  BY <1>1, <1>2, <1>3 DEF Path
<1>4. CASE StartsAtBet(need)
  <2> DEFINE s == SubSeq(order, At(bestBet), Len(order))
  <2>1. At(bestBet) \in 1 .. Len(order)
    BY <1>1, <1>4 DEF StartsAtBet, BestBetIsListed, Listed, At
  <2>2. s \in Seq(Majors)
    BY <1>1, <2>1, SubSeqProperties
  <2>3. Path(need) = s \o order
    BY <1>4 DEF Path
  <2> HIDE DEF s
  <2>4. /\ s \o order \in Seq(Majors) /\ Len(s \o order) = Len(s) + Len(order)
        /\ \A k \in 1 .. Len(s) + Len(order) :
             (s \o order)[k] = IF k <= Len(s) THEN s[k] ELSE order[k - Len(s)]
    BY <1>1, <2>2, ConcatProperties
  <2>5. /\ Len(s) \in Nat /\ Len(s) + i \in 1 .. Len(s) + Len(order)
        /\ ~(Len(s) + i <= Len(s)) /\ (Len(s) + i) - Len(s) = i
    BY <1>1, <1>2, <2>2
  <2>6. (s \o order)[Len(s) + i] = m
    BY <1>2, <2>4, <2>5
  <2>7. DOMAIN (s \o order) = 1 .. Len(s) + Len(order)
    BY <2>4
  <2> QED BY <2>3, <2>5, <2>6, <2>7
<1> QED BY <1>3, <1>4

LEMMA GrowsOnlyWhenFull ==
  ASSUME IInv, NEW req \in Requests, KmallocGrows(req),
         NEW m \in Listed, NEW b \in minors'[made'], NEW p \in MajHdr .. msize[m]
  PROVE  ~Fits(m, p, b.size + MinHdr)
<1>1. /\ \A k \in DOMAIN Path(Need(req)) : ~HasRoom(Path(Need(req))[k], Need(req))
      /\ made < MaxMajors /\ Place(made + 1, MajHdr, req) /\ made' = made + 1
  BY DEF KmallocGrows
<1>2. made + 1 \in Majors /\ minors[made + 1] = {} /\ minors \in [Majors -> SUBSET Minor]
  BY <1>1 DEF IInv, LayoutInv, NothingBeforeMade, TypeOK, Majors
<1>3. minors'[made'] = {[at |-> MajHdr, size |-> SizeOf(req), req |-> req]}
  BY <1>1, <1>2 DEF Place
<1>4. b.size + MinHdr = Need(req)
  BY <1>3 DEF Need
<1>5. ~HasRoom(m, Need(req))
  BY <1>1, PathPassesAll DEF IInv, LayoutInv
<1> QED BY <1>4, <1>5, GapHasRoom

-----------------------------------------------------------------------------
\* The theorems.

\* The invariant of the heap holds in every reachable state (kmalloc.c:206-663).
THEOREM InductiveInvariant == Spec => []IInv
BY InitIInv, NextIInv, PTL DEF Spec

\* Every variable keeps its type.
THEOREM TypeCorrect == Spec => []TypeOK
<1>1. IInv => TypeOK
  BY DEF IInv, LayoutInv
<1> QED
  BY <1>1, InductiveInvariant, PTL

\* No two live blocks share a byte and none leaves its major, whatever the sizes
\* of pages and headers and whatever was allocated, moved and freed before.
THEOREM BlocksNeverOverlap == Spec => []BlocksDisjoint
<1>1. IInv => BlocksDisjoint
  BY DEF IInv, LayoutInv
<1> QED
  BY <1>1, InductiveInvariant, PTL

\* The list of majors holds exactly the majors that hold a block, each once.
THEOREM TheListIsExact == Spec => []ListExact
<1>1. IInv => ListExact
  BY DEF IInv, LayoutInv
<1> QED
  BY <1>1, InductiveInvariant, PTL

\* l_bestBet never points to a major that was given back.
THEOREM TheBestBetIsListed == Spec => []BestBetIsListed
<1>1. IInv => BestBetIsListed
  BY DEF IInv, LayoutInv
<1> QED
  BY <1>1, InductiveInvariant, PTL

\* After ALIGN moved its start, every byte a client asked for is in its block.
THEOREM ClientBytesAlwaysFit == Spec => []ClientBytesFit
<1>1. ASSUME IInv PROVE ClientBytesFit
  <2> SUFFICES ASSUME NEW m \in Majors, NEW b \in minors[m]
               PROVE  Ptr(b) + b.req <= EndOf(b)
    BY DEF ClientBytesFit
  <2>1. b.at \in Nat /\ b.size \in Nat /\ b.req \in Nat
    BY <1>1 DEF IInv, LayoutInv, TypeOK, Minor
  <2>2. b.req + Alignment + AlignInfo <= b.size
    BY <1>1, <2>1 DEF IInv, LayoutInv, BlocksKeepRoom, Slack
  <2> DEFINE p == b.at + MinHdr + AlignInfo
             r == p % Alignment
  <2>3. p \in Nat /\ r \in 0 .. Alignment - 1
    BY <2>1
  <2>4. Ptr(b) = IF r = 0 THEN p ELSE p + (Alignment - r)
    BY DEF Ptr
  <2> HIDE DEF r
  <2> QED
    BY <2>1, <2>2, <2>3, <2>4 DEF EndOf
<1> QED
  BY <1>1, InductiveInvariant, PTL

\* The three accounts, of a major, of the blocks and of the system, stay exact through every
\* sequence of kmalloc, kfree and krealloc, for every size and any number of majors.
THEOREM AccountsStayExact == Spec => []AccountsExact
<1>1. IInv => AccountsExact
  BY DEF IInv
<1> QED
  BY <1>1, InductiveInvariant, PTL

\* kmalloc takes pages only for a block that no gap of any listed major can hold, wherever
\* the search began: blocks that leave a gap also leave the total that CASE 1 asks for.
THEOREM PagesOnlyWhenFull == Spec => NewPagesOnlyWhenFull
<1> DEFINE Full == \A m \in Listed : \A b \in minors'[made'] :
                     made' # made => \A p \in MajHdr .. msize[m] : ~Fits(m, p, b.size + MinHdr)
<1>1. ASSUME IInv, Next, made' # made PROVE Full
  <2>1. PICK req \in Requests : KmallocGrows(req)
    BY <1>1 DEF Next, Kmalloc, KmallocFinds, Kfree, KfreeBlock, KreallocShrinks,
                KreallocCopies, KreallocFrees
  <2> QED BY <1>1, <2>1, GrowsOnlyWhenFull
<1>2. ASSUME IInv, [Next]_vars PROVE [Full]_vars
  BY <1>1, <1>2
<1> QED
  BY <1>2, InductiveInvariant, PTL DEF Spec, NewPagesOnlyWhenFull

=============================================================================
