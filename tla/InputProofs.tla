---------------------------- MODULE InputProofs ----------------------------
(***************************************************************************)
(* Proofs about the way from the key to the shell, for buffers and lines   *)
(* of any size: the inductive invariant of InputProps, and that the ring,  *)
(* the reader's steps and the line buffer implement LineSource.            *)
(***************************************************************************)
EXTENDS InputProps, SequenceTheorems, TLAPS

\* The ring never counts more than ConsoleSize unread cells.
LEMMA UnreadRange ==
  ASSUME TypeOK
  PROVE  First \in 0 .. ConsoleSize /\ Unread \in 0 .. ConsoleSize
BY InputAssumption DEF TypeOK, First, Unread

\* The buffers start empty and the reader before its first test.
LEMMA InitIInv == Init => IInv
<1> SUFFICES ASSUME Init PROVE IInv OBVIOUS
<1> USE InputAssumption DEF Init
<1>1. TypeOK BY DEF TypeOK, Chars
<1>2. HandIsOldest BY DEF HandIsOldest
<1>3. LineHasRoom BY DEF LineHasRoom
<1>4. IndexInv BY DEF IndexInv
<1>5. QED BY <1>1, <1>2, <1>3, <1>4 DEF IInv

\* A key whose character joins both buffers.
KeyComes(char) ==
  /\ char \in Chars
  /\ observer_notify(char)
  /\ is_shift' \in BOOLEAN /\ typed' \in 0 .. MaxKeys
  /\ UNCHANGED reader

\* What a keyboard interrupt does: a pressed key joins the buffers, a released one
\* changes at most is_shift.
LEMMA InterruptSplit ==
  ASSUME TypeOK, NEW scancode \in Scancodes, keyboard_interrupt_handler(scancode)
  PROVE  \/ \E char \in Chars : KeyComes(char)
         \/ /\ is_shift' \in BOOLEAN /\ typed' \in 0 .. MaxKeys
            /\ UNCHANGED <<reader, keyboard, console, lost>>
<1>1. is_shift' \in BOOLEAN /\ typed' \in 0 .. MaxKeys /\ UNCHANGED reader
  BY InputAssumption DEF TypeOK, keyboard_interrupt_handler
<1>2. CASE scancode \notin Pressed
  BY <1>1, <1>2 DEF keyboard_interrupt_handler
<1>3. CASE scancode \in Pressed
  <2> DEFINE char == IF is_shift' THEN keyboard_map_shift[scancode] ELSE keyboard_map[scancode]
  <2>1. char \in Chars
    BY <1>3 DEF Pressed, Chars, keyboard_map, keyboard_map_shift
  <2>2. observer_notify(char)
    BY <1>3 DEF keyboard_interrupt_handler
  <2>3. KeyComes(char)
    BY <1>1, <2>1, <2>2 DEF KeyComes
  <2> QED
    BY <2>1, <2>3
<1>4. QED BY <1>2, <1>3

\* A key that joins the buffers keeps the invariant.
LEMMA KeyKeepsIInv ==
  ASSUME IInv, NEW char, KeyComes(char)
  PROVE  IInv'
<1> USE InputAssumption DEF KeyComes, observer_notify, reader
<1>1. TypeOK'
  BY DEF IInv, TypeOK, keyboard_event_handler, kapps_console_handle_events, Advance
<1>2. HandIsOldest'
  <2>1. SUFFICES ASSUME ~lost', pc \in {"take", "increment"}
                 PROVE  Unread' > 0 /\ (pc = "increment" => (c = console_in_buffer[console_in_buffer_current])')
    BY <2>1 DEF HandIsOldest
  <2>2. ~lost /\ Unread # ConsoleSize BY <2>1 DEF kapps_console_handle_events
  <2>3. Unread > 0 /\ Unread < ConsoleSize
    BY <2>1, <2>2, UnreadRange DEF IInv, HandIsOldest
  <2>4. console_in_buffer_current \in 0 .. ConsoleSize /\ First = console_in_buffer_current
    BY <2>1 DEF IInv, TypeOK, IndexInv, First
  <2>5. console_in_buffer_current # console_in_buffer_end
    BY <2>3, <2>4 DEF Unread
  <2>6. Unread' > 0
    BY <2>3, <2>4, <2>5 DEF IInv, TypeOK, kapps_console_handle_events, Advance, Unread, First
  <2>7. pc = "increment" => (c = console_in_buffer[console_in_buffer_current])'
    BY <2>2, <2>4, <2>5 DEF IInv, TypeOK, HandIsOldest, kapps_console_handle_events
  <2>8. QED BY <2>6, <2>7
<1>3. LineHasRoom' BY DEF IInv, LineHasRoom
<1>4. IndexInv' BY DEF IInv, IndexInv
<1>5. QED BY <1>1, <1>2, <1>3, <1>4 DEF IInv

\* Every step of task 0 keeps the invariant.
LEMMA ReaderKeepsIInv ==
  ASSUME IInv, ReaderStep
  PROVE  IInv'
<1> USE InputAssumption DEF IInv, Goes, keyboard, console
<1>1. CASE GetcharTest
  <2>1. TypeOK' /\ LineHasRoom' /\ IndexInv'
    BY <1>1 DEF GetcharTest, TypeOK, LineHasRoom, IndexInv
  <2>2. HandIsOldest'
    BY <1>1 DEF GetcharTest, HasKey, TypeOK, HandIsOldest, IndexInv, Unread, First
  <2>3. QED BY <2>1, <2>2
<1>2. CASE GetcharYield
  BY <1>2 DEF GetcharYield, TypeOK, LineHasRoom, IndexInv, HandIsOldest
<1>3. CASE GetcharTake
  <2>1. console_in_buffer_current \in 0 .. ConsoleSize
    BY <1>3 DEF GetcharTake, TypeOK, IndexInv
  <2>2. TypeOK' /\ LineHasRoom' /\ IndexInv'
    BY <1>3, <2>1 DEF GetcharTake, TypeOK, LineHasRoom, IndexInv
  <2>3. HandIsOldest'
    BY <1>3 DEF GetcharTake, HandIsOldest, Unread, First
  <2>4. QED BY <2>2, <2>3
<1>4. CASE GetcharIncrement
  <2>1. console_in_buffer_current \in 0 .. ConsoleSize
    BY <1>4 DEF GetcharIncrement, TypeOK, IndexInv
  <2>2. QED
    BY <1>4, <2>1 DEF GetcharIncrement, TypeOK, LineHasRoom, IndexInv, HandIsOldest
<1>5. CASE GetcharWrap
  BY <1>5 DEF GetcharWrap, First, TypeOK, LineHasRoom, IndexInv, HandIsOldest
<1>6. CASE LineAccept
  <2>1. pc = "line" /\ line \in Seq(Chars) /\ Len(line) \in Nat /\ Len(line) < LineMax
    BY <1>6 DEF LineAccept, TypeOK, LineHasRoom
  <2>2. CASE c = "newline"
    BY <1>6, <2>1, <2>2 DEF LineAccept, TypeOK, LineHasRoom, IndexInv, HandIsOldest
  <2>3. CASE c # "newline"
    <3>1. line' = Append(line, c) /\ c \in Chars BY <1>6, <2>3 DEF LineAccept, TypeOK
    <3>2. /\ line' \in Seq(Chars) /\ Len(line') = Len(line) + 1
          /\ \A i \in DOMAIN line' : line'[i] = IF i = Len(line) + 1 THEN c ELSE line[i]
      BY <2>1, <3>1
    <3>3. TypeOK'
      BY <1>6, <2>1, <2>3, <3>2 DEF LineAccept, TypeOK
    <3>4. LineHasRoom'
      <4>1. \A i \in DOMAIN line' : line'[i] # "newline"
        BY <2>1, <2>3, <3>2 DEF LineHasRoom
      <4>2. QED
        BY <1>6, <2>1, <2>3, <3>2, <4>1 DEF LineAccept, LineFull, LineHasRoom
    <3>5. IndexInv' /\ HandIsOldest'
      BY <1>6, <2>3 DEF LineAccept, IndexInv, HandIsOldest
    <3>6. QED BY <3>3, <3>4, <3>5
  <2>4. QED BY <2>2, <2>3
<1>7. CASE LineProcessed
  BY <1>7 DEF LineProcessed, TypeOK, LineHasRoom, IndexInv, HandIsOldest
<1>8. QED
  BY <1>1, <1>2, <1>3, <1>4, <1>5, <1>6, <1>7 DEF ReaderStep

\* The invariant is inductive.
LEMMA NextIInv == IInv /\ [Next]_vars => IInv'
<1> SUFFICES ASSUME IInv, [Next]_vars PROVE IInv' OBVIOUS
<1>1. ASSUME NEW scancode \in Scancodes, keyboard_interrupt_handler(scancode) PROVE IInv'
  <2>1. CASE \E char \in Chars : KeyComes(char) BY <2>1, KeyKeepsIInv
  <2>2. CASE /\ is_shift' \in BOOLEAN /\ typed' \in 0 .. MaxKeys
             /\ UNCHANGED <<reader, keyboard, console, lost>>
    BY <2>2 DEF IInv, TypeOK, LineHasRoom, IndexInv, HandIsOldest, Unread, First,
                reader, keyboard, console
  <2>3. QED BY <1>1, <2>1, <2>2, InterruptSplit DEF IInv
<1>2. CASE ReaderStep BY <1>2, ReaderKeepsIInv
<1>3. CASE UNCHANGED vars
  BY <1>3 DEF IInv, TypeOK, LineHasRoom, IndexInv, HandIsOldest, Unread, First,
              vars, reader, keyboard, console
<1>4. QED BY <1>1, <1>2, <1>3 DEF Next

\* The invariant holds throughout every run.
THEOREM InductiveInvariant == Spec => []IInv
BY InitIInv, NextIInv, PTL DEF Spec

\* Every variable of the input path keeps its type, the indices included.
THEOREM TypeCorrect == Spec => []TypeOK
BY InductiveInvariant, PTL DEF IInv

\* The character in the reader's hand is the oldest unread key (kapps_console.c:103-111).
THEOREM TheHandIsOldest == Spec => []HandIsOldest
BY InductiveInvariant, PTL DEF IInv

\* kshell_get_line never writes behind line[] (kshell.c:86-91).
THEOREM TheLineHasRoom == Spec => []LineHasRoom
BY InductiveInvariant, PTL DEF IInv

\* With a key in the ring the reader sees it, and every step it makes brings it on.
LEMMA ReaderGetsOn ==
  ASSUME IInv, ReaderStep, ~lost, pc # "process", pc' \notin {pc, "process"},
         pc = "test" => Unread > 0
  PROVE  Toil' \in 0 .. Toil - 1
<1> USE DEF Goes, console, IndexInv, TypeOK
<1>1. Unread \in Nat /\ First \in 0 .. ConsoleSize
  BY UnreadRange, InputAssumption DEF IInv
<1>2. /\ console_in_buffer_end \in 0 .. ConsoleSize /\ ConsoleSize \in Nat
      /\ console_in_buffer_current \in 0 .. ConsoleSize + 1
  BY InputAssumption DEF IInv
<1>3. CASE GetcharIncrement
  <2>1. pc = "increment" /\ pc' = "wrap" /\ Unread > 0
    BY <1>3 DEF GetcharIncrement, IInv, HandIsOldest
  <2>2. Unread' = Unread - 1
    BY <1>2, <1>3, <2>1 DEF GetcharIncrement, Unread, First, IInv
  <2> QED BY <1>1, <2>1, <2>2 DEF Toil, StepsLeft
<1>4. CASE GetcharTest
  <2>1. pc = "test" /\ Unread > 0
    BY <1>4 DEF GetcharTest
  <2>2. First = console_in_buffer_current
    BY <1>2, <2>1 DEF First, IInv
  <2>3. HasKey
    BY <1>2, <2>1, <2>2 DEF HasKey, Unread
  <2>4. pc' = "take" /\ Unread' = Unread
    BY <1>4, <2>3 DEF GetcharTest, Unread, First
  <2> QED BY <1>1, <2>1, <2>4 DEF Toil, StepsLeft
<1>5. CASE GetcharYield \/ GetcharTake
  <2>1. Unread' = Unread
    BY <1>5 DEF GetcharYield, GetcharTake, Unread, First
  <2>2. \/ pc = "yield" /\ pc' = "test"
        \/ pc = "take" /\ pc' = "increment"
    BY <1>5 DEF GetcharYield, GetcharTake
  <2> QED BY <1>1, <2>1, <2>2 DEF Toil, StepsLeft
<1>6. CASE GetcharWrap
  <2>1. pc = "wrap" /\ pc' = "line" /\ console_in_buffer_current' = First
        /\ console_in_buffer_end' = console_in_buffer_end
    BY <1>6 DEF GetcharWrap
  <2>2. First' = First
    BY <1>1, <1>2, <2>1 DEF First
  <2>3. Unread' = Unread
    BY <2>1, <2>2 DEF Unread
  <2> QED BY <1>1, <2>1, <2>3 DEF Toil, StepsLeft
<1>7. CASE LineAccept
  <2>1. Unread' = Unread
    BY <1>7 DEF LineAccept, Unread, First
  <2>2. pc = "line" /\ pc' = "test"
    BY <1>7 DEF LineAccept
  <2> QED BY <1>1, <2>1, <2>2 DEF Toil, StepsLeft
<1>8. CASE LineProcessed
  BY <1>8 DEF LineProcessed
<1> QED BY <1>3, <1>4, <1>5, <1>6, <1>7, <1>8 DEF ReaderStep

\* For rings and lines of any size: the reader yields beside no key, and a bounded number of
\* its steps, however many interrupts fall between them, takes the keys that wait.
THEOREM NoStepIsWasted == Spec => EachStepCounts
<1> DEFINE Counts ==
      (~lost /\ pc # "process" /\ pc' \notin {pc, "process"} /\ (pc = "test" => Unread > 0))
        => Toil' \in 0 .. Toil - 1
<1>1. ASSUME IInv, Next PROVE Counts
  <2>1. CASE ReaderStep
    BY <1>1, <2>1, ReaderGetsOn
  <2>2. CASE \E scancode \in Scancodes : keyboard_interrupt_handler(scancode)
    BY <2>2 DEF keyboard_interrupt_handler, reader
  <2> QED BY <1>1, <2>1, <2>2 DEF Next
<1>2. ASSUME IInv, [Next]_vars PROVE [Counts]_vars
  BY <1>1, <1>2
<1> QED BY <1>2, InductiveInvariant, PTL DEF Spec, EachStepCounts

-----------------------------------------------------------------------------
(***************************************************************************)
(* The input path implements LineSource.                                   *)
(***************************************************************************)

\* The ring is a sequence of characters.
LEMMA RingIsSeq ==
  ASSUME TypeOK
  PROVE  Ring \in Seq(Chars) /\ Len(Ring) = Unread
<1>1. \A i \in 1 .. Unread : Cell(i) \in 0 .. ConsoleSize
  BY UnreadRange, InputAssumption DEF Cell
<1>2. \A i \in 1 .. Unread : console_in_buffer[Cell(i)] \in Chars
  BY <1>1 DEF TypeOK
<1>3. QED BY <1>2, UnreadRange DEF Ring

\* The three parts of what waits, and how many characters they are.
LEMMA WaitingIsSeq ==
  ASSUME TypeOK
  PROVE  /\ LineSoFar \in Seq(Chars) /\ Hand \in Seq(Chars) /\ Waiting \in Seq(Chars)
         /\ Len(Waiting) >= Unread
<1>1. LineSoFar \in Seq(Chars) /\ Hand \in Seq(Chars)
  BY DEF TypeOK, LineSoFar, Hand
<1>2. QED BY <1>1, RingIsSeq, UnreadRange DEF Waiting

\* While the ring is not full, a key is appended to it.
LEMMA KeyExtendsRing ==
  ASSUME IInv, NEW char, KeyComes(char), Unread # ConsoleSize
  PROVE  Ring' = Append(Ring, char)
<1> USE InputAssumption DEF KeyComes, observer_notify, reader
<1>1. /\ First' = First /\ First \in 0 .. ConsoleSize /\ Unread \in 0 .. ConsoleSize - 1
      /\ console_in_buffer_end \in 0 .. ConsoleSize
      /\ console_in_buffer \in [0 .. ConsoleSize -> Chars]
  BY UnreadRange DEF IInv, TypeOK, First
<1>2. Unread' = Unread + 1
  BY <1>1 DEF Unread, kapps_console_handle_events, Advance
<1>3. Cell(Unread + 1) = console_in_buffer_end
  BY <1>1 DEF Cell, Unread
<1>4. \A i \in 1 .. Unread : Cell(i) \in 0 .. ConsoleSize /\ Cell(i) # console_in_buffer_end
  BY <1>1 DEF Cell, Unread
<1>5. \A i \in 1 .. Unread + 1 : Cell(i)' = Cell(i)
  BY <1>1 DEF Cell
<1>6. console_in_buffer' = [console_in_buffer EXCEPT ![console_in_buffer_end] = char]
  BY DEF kapps_console_handle_events
<1>7. Ring' = [i \in 1 .. Unread + 1 |-> console_in_buffer'[Cell(i)]]
  BY <1>2, <1>5 DEF Ring
<1>8. \A i \in 1 .. Unread + 1 :
        console_in_buffer'[Cell(i)] = IF i = Unread + 1 THEN char ELSE Ring[i]
  BY <1>1, <1>3, <1>4, <1>6 DEF Ring
<1>9. Ring \in Seq(Chars) /\ Len(Ring) = Unread BY RingIsSeq DEF IInv
<1>10. char \in Chars /\ Append(Ring, char) \in Seq(Chars) /\ Len(Append(Ring, char)) = Unread + 1
  BY <1>9
<1>11. \A i \in 1 .. Unread + 1 : Append(Ring, char)[i] = IF i = Unread + 1 THEN char ELSE Ring[i]
  BY <1>9
<1>12. \A i \in 1 .. Unread + 1 : console_in_buffer'[Cell(i)] \in Chars
  BY <1>1, <1>8, <1>9, <1>10
<1>13. Ring' \in Seq(Chars) /\ Len(Ring') = Unread + 1
  BY <1>1, <1>7, <1>12
<1>14. \A i \in 1 .. Unread + 1 : Ring'[i] = Append(Ring, char)[i]
  BY <1>7, <1>8, <1>11
<1>15. QED BY <1>10, <1>13, <1>14, SeqEqual

\* While no key was lost, a key that comes is one more that waits.
LEMMA KeyWaits ==
  ASSUME IInv, NEW char, KeyComes(char), ~lost'
  PROVE  Source!Type(char)
<1>1. Unread # ConsoleSize
  BY DEF KeyComes, observer_notify, kapps_console_handle_events
<1>2. Ring' = Append(Ring, char) BY <1>1, KeyExtendsRing
<1>3. LineSoFar' = LineSoFar /\ Hand' = Hand
  BY DEF KeyComes, reader, LineSoFar, Hand
<1>4. Waiting' = Append(Waiting, char)
  <2>1. char \in Chars /\ LineSoFar \o Hand \in Seq(Chars) /\ Ring \in Seq(Chars)
    BY WaitingIsSeq, RingIsSeq DEF IInv, KeyComes
  <2>2. (LineSoFar \o Hand) \o Append(Ring, char) = Append((LineSoFar \o Hand) \o Ring, char)
    BY <2>1
  <2>3. QED BY <1>2, <1>3, <2>2 DEF Waiting
<1>5. pc' = pc /\ line' = line BY DEF KeyComes, reader
<1>6. lost' = lost
  BY DEF IInv, TypeOK, KeyComes, observer_notify, kapps_console_handle_events
<1>7. QED BY <1>4, <1>5, <1>6 DEF Source!Type

\* The increment passes the character from the head of the ring to the hand.
LEMMA IncrementTakesHead ==
  ASSUME IInv, GetcharIncrement, ~lost
  PROVE  Waiting' = Waiting
<1> USE InputAssumption DEF GetcharIncrement, Goes, console
<1>1. /\ Unread > 0 /\ c = console_in_buffer[console_in_buffer_current]
      /\ console_in_buffer_current \in 0 .. ConsoleSize
      /\ console_in_buffer_end \in 0 .. ConsoleSize
  BY DEF IInv, HandIsOldest, TypeOK, IndexInv
<1>2. Unread' = Unread - 1 /\ Unread \in 1 .. ConsoleSize
  BY <1>1, UnreadRange DEF Unread, First, IInv
<1>3. Cell(1) = console_in_buffer_current /\ \A i \in 1 .. Unread - 1 : Cell(i)' = Cell(i + 1)
  BY <1>1, <1>2 DEF Cell, First
<1>4. /\ Ring \in Seq(Chars) /\ Len(Ring) = Unread
      /\ Ring[1] = c /\ Ring' = [i \in 1 .. Unread - 1 |-> Ring[i + 1]]
  BY <1>1, <1>2, <1>3, RingIsSeq DEF Ring, IInv
<1>5. c \in Chars /\ c' = c /\ line' = line /\ line \in Seq(Chars) BY DEF IInv, TypeOK
<1>6. Ring' \in Seq(Chars) /\ Len(Ring') = Unread - 1 BY <1>2, <1>4
<1>7. Ring = <<c>> \o Ring'
  <2>1. <<c>> \o Ring' \in Seq(Chars) /\ Len(<<c>> \o Ring') = Unread
    BY <1>2, <1>5, <1>6
  <2>2. \A i \in 1 .. Unread : (<<c>> \o Ring')[i] = Ring[i]
    BY <1>2, <1>4, <1>5, <1>6
  <2>3. QED BY <1>4, <2>1, <2>2, SeqEqual
<1>8. line \o <<>> \o Ring = line \o <<c>> \o Ring'
  <2>1. line \o <<>> = line BY <1>5
  <2>2. (line \o <<c>>) \o Ring' = line \o (<<c>> \o Ring')
    BY <1>5, <1>6, ConcatAssociative
  <2>3. QED BY <1>7, <2>1, <2>2
<1>9. QED BY <1>5, <1>8 DEF Waiting, LineSoFar, Hand

\* A sequence with a character x in its middle, cut before and behind x.
LEMMA CutAround ==
  ASSUME NEW S, NEW before \in Seq(S), NEW x \in S, NEW after \in Seq(S),
         NEW whole, whole = before \o <<x>> \o after
  PROVE  /\ Len(before) + 1 \in DOMAIN whole /\ whole[Len(before) + 1] = x
         /\ \A i \in 1 .. Len(before) : whole[i] = before[i]
         /\ SubSeq(whole, 1, Len(before)) = before
         /\ SubSeq(whole, 1, Len(before) + 1) = Append(before, x)
         /\ SubSeq(whole, Len(before) + 2, Len(whole)) = after
<1> DEFINE n == Len(before)
<1>1. /\ n \in Nat /\ Len(after) \in Nat
      /\ whole \in Seq(S) /\ Len(whole) = n + 1 + Len(after)
      /\ whole[n + 1] = x
      /\ \A i \in 1 .. n : whole[i] = before[i]
      /\ \A i \in 1 .. Len(after) : whole[n + 1 + i] = after[i]
  OBVIOUS
<1>2. \A i \in 1 .. n + 1 + Len(after) : whole[i] \in S BY <1>1
<1>3. SubSeq(whole, 1, n) = before
  BY <1>1, <1>2, SubSeqProperties, SeqEqual
<1>4. SubSeq(whole, 1, n + 1) = Append(before, x)
  BY <1>1, <1>2, SubSeqProperties, SeqEqual
<1>5. SubSeq(whole, n + 2, Len(whole)) = after
  <2>1. /\ SubSeq(whole, n + 2, Len(whole)) \in Seq(S)
        /\ Len(SubSeq(whole, n + 2, Len(whole))) = Len(after)
        /\ \A i \in 1 .. Len(after) : SubSeq(whole, n + 2, Len(whole))[i] = whole[n + 2 + i - 1]
    BY <1>1, <1>2, SubSeqProperties
  <2>2. QED BY <1>1, <2>1, SeqEqual
<1>6. QED BY <1>1, <1>3, <1>4, <1>5

\* A character that does not end the line moves from the hand into the line; one
\* that ends it delivers the line.
LEMMA AcceptDelivers ==
  ASSUME IInv, LineAccept, ~lost
  PROVE  (\E n \in DOMAIN Waiting : Source!Deliver(n)) \/ UNCHANGED Source!vars
<1> DEFINE n == Len(line) + 1
<1>1. /\ pc = "line" /\ line \in Seq(Chars) /\ c \in Chars /\ Len(line) < LineMax
      /\ \A i \in DOMAIN line : line[i] # "newline"
      /\ Ring \in Seq(Chars) /\ Waiting = line \o <<c>> \o Ring
      /\ Waiting \in Seq(Chars)
  BY RingIsSeq, WaitingIsSeq
  DEF IInv, LineAccept, Goes, TypeOK, LineHasRoom, Waiting, LineSoFar, Hand
<1>2. /\ n \in DOMAIN Waiting /\ Waiting[n] = c
      /\ \A i \in 1 .. Len(line) : Waiting[i] = line[i]
      /\ SubSeq(Waiting, 1, n - 1) = line
      /\ SubSeq(Waiting, 1, n) = Append(line, c)
      /\ SubSeq(Waiting, n + 1, Len(Waiting)) = Ring
  <2>1. Len(line) \in Nat BY <1>1
  <2>2. n - 1 = Len(line) /\ n + 1 = Len(line) + 2 BY <2>1
  <2>3. QED BY <1>1, <2>2, CutAround
<1>3. Ring' = Ring /\ lost' = lost /\ c' = c
  BY DEF LineAccept, Goes, console, Ring, Unread, First, Cell
<1>4. \A i \in 1 .. n - 1 : Waiting[i] # "newline" /\ i # LineMax
  <2>1. Len(line) \in Nat /\ DOMAIN line = 1 .. Len(line) BY <1>1
  <2>2. SUFFICES ASSUME NEW i \in 1 .. Len(line)
                 PROVE  Waiting[i] # "newline" /\ i # LineMax
    BY <2>1
  <2>3. Waiting[i] # "newline" BY <1>1, <1>2, <2>1
  <2>4. i # LineMax
    <3>1. Len(line) < LineMax BY <1>1
    <3>2. QED BY <2>1, <3>1, InputAssumption
  <2>5. QED BY <2>3, <2>4
<1>5. CASE pc' = "process"
  <2>1. Waiting' = Ring
    <3>1. Waiting' = (<<>> \o <<>>) \o Ring' BY <1>5 DEF Waiting, LineSoFar, Hand
    <3>2. (<<>> \o <<>>) \o Ring' = Ring' BY <1>1, <1>3
    <3>3. QED BY <1>3, <3>1, <3>2
  <2>2. /\ c = "newline" => line' = line
        /\ c # "newline" => line' = Append(line, c) /\ n = LineMax
    BY <1>1, <1>5 DEF LineAccept, LineFull, Goes
  <2>3. Source!LineEnds(n)
    BY <1>2, <1>4, <2>2 DEF Source!LineEnds
  <2>4. line' = SubSeq(Waiting, 1, IF Waiting[n] = "newline" THEN n - 1 ELSE n)
    BY <1>2, <2>2
  <2>5. Source!Deliver(n)
    BY <1>1, <1>2, <1>3, <1>5, <2>1, <2>3, <2>4 DEF Source!Deliver
  <2>6. QED BY <1>2, <2>5
<1>6. CASE pc' # "process"
  <2>1. pc' = "test" /\ line' = Append(line, c)
    BY <1>6 DEF LineAccept, Goes
  <2>2. Waiting' = (Append(line, c) \o <<>>) \o Ring'
    BY <2>1 DEF Waiting, LineSoFar, Hand
  <2>3. Append(line, c) \o <<>> = line \o <<c>> BY <1>1
  <2>4. Waiting' = Waiting BY <1>1, <1>3, <2>2, <2>3
  <2>5. QED BY <1>1, <1>3, <2>1, <2>4 DEF Source!vars
<1>7. QED BY <1>5, <1>6

\* Every step of task 0 is a step of LineSource or none at all.
LEMMA ReaderRefines ==
  ASSUME IInv, ReaderStep, ~lost
  PROVE  [Source!Next]_(Source!vars)
<1>1. lost' = lost
  BY DEF ReaderStep, GetcharTest, GetcharYield, GetcharTake, GetcharIncrement, GetcharWrap,
         LineAccept, LineProcessed, Goes
<1>2. CASE GetcharTest \/ GetcharYield \/ GetcharTake
  BY <1>1, <1>2 DEF GetcharTest, GetcharYield, GetcharTake, Goes, console, Source!vars,
       Waiting, LineSoFar, Hand, Ring, Unread, First, Cell
<1>3. CASE GetcharIncrement
  <2>1. Waiting' = Waiting BY <1>3, IncrementTakesHead
  <2>2. QED BY <1>1, <1>3, <2>1 DEF GetcharIncrement, Goes, Source!vars
<1>4. CASE GetcharWrap
  <2>1. First' = First BY <1>4, InputAssumption DEF GetcharWrap, First, IInv, TypeOK
  <2>2. Waiting' = Waiting
    BY <1>4, <2>1 DEF GetcharWrap, Goes, console, Waiting, LineSoFar, Hand, Ring, Unread, Cell
  <2>3. QED BY <1>1, <1>4, <2>2 DEF GetcharWrap, Goes, Source!vars
<1>5. CASE LineAccept
  BY <1>5, AcceptDelivers DEF Source!Next
<1>6. CASE LineProcessed
  <2>1. Ring' = Ring /\ Ring \in Seq(Chars)
    BY <1>6, RingIsSeq DEF LineProcessed, Goes, console, Ring, Unread, First, Cell, IInv
  <2>2. /\ Waiting = (<<>> \o <<>>) \o Ring
        /\ Waiting' = (<<>> \o <<>>) \o Ring'
    BY <1>6 DEF LineProcessed, Goes, Waiting, LineSoFar, Hand
  <2>3. Source!Finish
    BY <1>1, <1>6, <2>1, <2>2 DEF LineProcessed, Goes, Source!Finish
  <2>4. QED BY <2>3 DEF Source!Next
<1>7. QED
  BY <1>2, <1>3, <1>4, <1>5, <1>6 DEF ReaderStep

\* Every step is a step of LineSource or none at all.
LEMMA StepRefines == IInv /\ [Next]_vars => [Source!Next]_(Source!vars)
<1> SUFFICES ASSUME IInv, [Next]_vars PROVE [Source!Next]_(Source!vars) OBVIOUS
<1>1. CASE lost
  <2>1. lost'
    BY <1>1 DEF Next, keyboard_interrupt_handler, observer_notify, kapps_console_handle_events,
         ReaderStep, GetcharTest, GetcharYield, GetcharTake, GetcharIncrement, GetcharWrap,
         LineAccept, LineProcessed, Goes, vars
  <2>2. QED BY <1>1, <2>1 DEF Source!Next
<1>2. CASE ~lost
  <2>1. CASE ReaderStep BY <1>2, <2>1, ReaderRefines
  <2>2. ASSUME NEW scancode \in Scancodes, keyboard_interrupt_handler(scancode)
        PROVE  [Source!Next]_(Source!vars)
    <3>1. ASSUME NEW char \in Chars, KeyComes(char) PROVE [Source!Next]_(Source!vars)
      <4>1. CASE ~lost' BY <1>2, <3>1, <4>1, KeyWaits DEF Source!Next
      <4>2. CASE lost'
        <5>1. Unread = ConsoleSize
          BY <1>2, <3>1, <4>2 DEF KeyComes, observer_notify, kapps_console_handle_events
        <5>2. Len(Waiting) >= ConsoleSize BY <5>1, WaitingIsSeq DEF IInv
        <5>3. Source!Overflow
          BY <4>2, <5>2, Zenon DEF Source!Overflow
        <5>4. QED BY <1>2, <5>3 DEF Source!Next
      <4>3. QED BY <4>1, <4>2
    <3>2. CASE UNCHANGED <<reader, keyboard, console, lost>>
      BY <3>2 DEF reader, console, Source!vars, Waiting, LineSoFar, Hand, Ring, Unread,
                  First, Cell
    <3>3. QED BY <2>2, <3>1, <3>2, InterruptSplit DEF IInv
  <2>3. CASE UNCHANGED vars
    BY <2>3 DEF vars, reader, console, Source!vars, Waiting, LineSoFar, Hand, Ring, Unread,
                First, Cell
  <2>4. QED BY <2>1, <2>2, <2>3 DEF Next
<1>3. QED BY <1>1, <1>2

\* Nothing waits and the shell is not busy when interrupts go on.
LEMMA InitRefines == Init => Source!Init
<1> SUFFICES ASSUME Init PROVE Source!Init OBVIOUS
<1>1. Unread = 0 BY InputAssumption DEF Init, Unread, First
<1>2. Ring = <<>> BY <1>1 DEF Ring
<1>3. Waiting = <<>> BY <1>2 DEF Init, Waiting, LineSoFar, Hand
<1>4. QED BY <1>3 DEF Init, Source!Init

\* Whatever the sizes of the buffers and wherever the interrupts fall, the shell
\* gets the typed characters in order, once, cut into lines (kapps_console.c:79-118,
\* kshell.c:68-95).
THEOREM InputImplementsLineSource == Spec => ImplementsLineSource
<1>1. Init => Source!Init BY InitRefines
<1>2. IInv /\ [Next]_vars => [Source!Next]_(Source!vars) BY StepRefines
<1>3. QED
  BY <1>1, <1>2, InductiveInvariant, PTL DEF Spec, ImplementsLineSource, Source!Spec

=============================================================================
