-------------------------- MODULE VuiConsoleProofs --------------------------
(***************************************************************************)
(* Proofs about the text console, for every size of the page and of the    *)
(* escape buffer and for every text: the inductive invariant of            *)
(* VuiConsoleProps. At the end, about the way of the characters from       *)
(* printf to the console (Terminal), for texts of any length.              *)
(***************************************************************************)
EXTENDS VuiConsoleProps, Terminal, TLAPS

\* Cell by cell, what PageInOrder, LineInv and CursorInv say of a page d with the
\* cursor in row y and line n being written.
Ordered(d, y, n) ==
  /\ \A r, s \in Row : \A a, b \in Col :
       r < s /\ d[r][a] # 0 /\ d[s][b] # 0 => d[r][a] < d[s][b]
  /\ \A r \in Row : \A a \in Col : r > y => d[r][a] = 0
  /\ \A r \in Row : \A a \in Col : d[r][a] <= n
  /\ \A r \in Row : \A a \in Col : r < y => d[r][a] < n
  /\ \A a \in Col : d[y][a] # 0 => d[y][a] \in {n - 1, n} /\ (y = rows - 1 => d[y][a] = n)

LEMMA OrderedIsTheInvariant ==
  ASSUME TypeOK, ~tabbed
  PROVE  (PageInOrder /\ LineInv /\ CursorInv) <=> Ordered(data, current_y, line)
<1> USE DEF TypeOK
<1>1. ASSUME PageInOrder, LineInv, CursorInv PROVE Ordered(data, current_y, line)
  <2>1. \A r \in Row : \A a \in Col : data[r][a] # 0 => data[r][a] \in LinesIn(r)
    BY DEF LinesIn
  <2>2. \A r, s \in Row : \A a, b \in Col :
          r < s /\ data[r][a] # 0 /\ data[s][b] # 0 => data[r][a] < data[s][b]
    BY <1>1, <2>1 DEF PageInOrder
  <2>3. \A r \in Row : \A a \in Col : r > current_y => data[r][a] = 0
    BY <1>1, <2>1 DEF PageInOrder
  <2>4. \A r \in Row : \A a \in Col : data[r][a] <= line
    BY <1>1, <2>1 DEF PageInOrder
  <2>5. \A r \in Row : \A a \in Col : r < current_y => data[r][a] < line
    BY <1>1, <2>1 DEF LineInv
  <2>6. \A a \in Col : data[current_y][a] # 0 =>
          data[current_y][a] \in {line - 1, line}
            /\ (current_y = rows - 1 => data[current_y][a] = line)
    BY <1>1, <2>1 DEF CursorInv
  <2>7. QED BY <2>2, <2>3, <2>4, <2>5, <2>6 DEF Ordered
<1>2. ASSUME Ordered(data, current_y, line) PROVE PageInOrder /\ LineInv /\ CursorInv
  <2>1. \A r \in Row : \A m \in LinesIn(r) : m # 0 /\ \E a \in Col : m = data[r][a]
    BY DEF LinesIn
  <2>2. QED BY <1>2, <2>1 DEF Ordered, PageInOrder, LineInv, CursorInv
<1>3. QED BY <1>1, <1>2

\* The same of the state after a step.
LEMMA OrderedIsTheInvariantAfter ==
  ASSUME Ordered(data', current_y', line')
  PROVE  PageInOrder' /\ LineInv' /\ CursorInv'
<1>1. \A r \in Row : \A m \in LinesIn(r)' : m # 0 /\ \E a \in Col : m = data'[r][a]
  BY DEF LinesIn
<1>2. \A m \in LinesIn(current_y)' : m # 0 /\ \E a \in Col : m = data'[current_y'][a]
  BY DEF LinesIn
<1>3. PageInOrder' /\ LineInv'
  BY <1>1 DEF Ordered, PageInOrder, LineInv
<1>4. CursorInv'
  BY <1>2 DEF Ordered, CursorInv
<1>5. QED BY <1>3, <1>4

Page == [Row -> [Col -> Nat]]

LEMMA RowsAreIntegers ==
  /\ Row \subseteq Int /\ Col \subseteq Int /\ rows - 1 \in Row /\ rows - 2 \in Row
  /\ \A r \in Row : r < rows - 1 => r + 1 \in Row
  /\ \A r \in Row : r <= rows - 1 /\ r >= 0
BY VuiConsoleAssumption DEF Row, Col

\* A character of the line being written joins its row.
LEMMA DrawnIsOrdered ==
  ASSUME NEW d \in Page, NEW y \in Row, NEW x \in Col, NEW n \in Nat, Ordered(d, y, n)
  PROVE  [d EXCEPT ![y][x] = n] \in Page /\ Ordered([d EXCEPT ![y][x] = n], y, n)
<1> DEFINE e == [d EXCEPT ![y][x] = n]
<1>1. e \in Page
  BY DEF Page
<1>2. \A r \in Row : \A a \in Col : e[r][a] = IF r = y /\ a = x THEN n ELSE d[r][a]
  BY DEF Page
<1>3. \A r \in Row : \A a \in Col : d[r][a] \in Nat
  BY DEF Page
<1> HIDE DEF e
<1>4. y \in Int /\ Row \subseteq Int
  BY RowsAreIntegers
<1>5. ASSUME NEW r \in Row, NEW s \in Row, NEW a \in Col, NEW b \in Col,
             r < s, e[r][a] # 0, e[s][b] # 0
      PROVE  e[r][a] < e[s][b]
  <2>1. CASE s = y
    <3>1. e[r][a] = d[r][a] /\ d[r][a] < n
      BY <1>2, <1>4, <1>5, <2>1 DEF Ordered
    <3>2. e[s][b] = n \/ e[s][b] = d[s][b]
      BY <1>2
    <3>3. CASE e[s][b] = d[s][b]
      BY <1>5, <3>1, <3>3 DEF Ordered
    <3>4. QED BY <3>1, <3>2, <3>3
  <2>2. CASE s # y
    <3>1. e[s][b] = d[s][b]
      BY <1>2, <2>2
    <3>2. s < y
      BY <1>4, <1>5, <2>2, <3>1 DEF Ordered
    <3>3. e[r][a] = d[r][a]
      <4>1. r \in Int /\ s \in Int
        BY <1>4
      <4>2. r # y
        BY <1>4, <1>5, <3>2, <4>1
      <4>3. QED BY <1>2, <4>2
    <3>4. d[r][a] # 0 /\ d[s][b] # 0
      BY <1>5, <3>1, <3>3
    <3>5. d[r][a] < d[s][b]
      BY <1>5, <3>4 DEF Ordered
    <3>6. QED BY <3>1, <3>3, <3>5
  <2>3. QED BY <2>1, <2>2
<1>6. \A r \in Row : \A a \in Col : r > y => e[r][a] = 0
  BY <1>2, <1>4 DEF Ordered
<1>7. \A r \in Row : \A a \in Col : e[r][a] <= n
  BY <1>2, <1>3 DEF Ordered
<1>8. \A r \in Row : \A a \in Col : r < y => e[r][a] < n
  BY <1>2, <1>4 DEF Ordered
<1>9. \A a \in Col : e[y][a] # 0 => e[y][a] \in {n - 1, n} /\ (y = rows - 1 => e[y][a] = n)
  BY <1>2 DEF Ordered
<1>10. Ordered(e, y, n)
  BY <1>5, <1>6, <1>7, <1>8, <1>9 DEF Ordered
<1>11. QED BY <1>1, <1>10 DEF e

\* A scroll takes the rows up; the next line is younger than all of them.
LEMMA ScrolledIsOrdered ==
  ASSUME NEW d \in Page, NEW n \in Nat, Ordered(d, rows - 1, n)
  PROVE  Scrolled(d) \in Page /\ Ordered(Scrolled(d), rows - 2, n + 1)
<1> DEFINE e == Scrolled(d)
<1>1. e \in Page
  BY RowsAreIntegers DEF Page, Scrolled
<1>2. \A r \in Row : \A a \in Col : e[r][a] = IF r < rows - 1 THEN d[r + 1][a] ELSE 0
  BY DEF Scrolled
<1>3. \A r \in Row : \A a \in Col : d[r][a] \in Nat
  BY DEF Page
<1> HIDE DEF e
<1>4. rows \in Int /\ Row \subseteq Int /\ \A r \in Row : r < rows - 1 => r + 1 \in Row
  BY VuiConsoleAssumption, RowsAreIntegers
<1>5. ASSUME NEW r \in Row, NEW s \in Row, NEW a \in Col, NEW b \in Col,
             r < s, e[r][a] # 0, e[s][b] # 0
      PROVE  e[r][a] < e[s][b]
  <2>1. s < rows - 1 /\ r < rows - 1
    BY <1>2, <1>4, <1>5
  <2>2. e[r][a] = d[r + 1][a] /\ e[s][b] = d[s + 1][b]
    BY <1>2, <2>1
  <2>3. r + 1 \in Row /\ s + 1 \in Row /\ r + 1 < s + 1
    BY <1>4, <1>5, <2>1
  <2>4. QED BY <1>5, <2>2, <2>3 DEF Ordered
<1>6. ASSUME NEW r \in Row, NEW a \in Col, r > rows - 2
      PROVE  e[r][a] = 0
  BY <1>2, <1>4, <1>6
<1>7. ASSUME NEW r \in Row, NEW a \in Col
      PROVE  e[r][a] <= n + 1 /\ e[r][a] < n + 1
  <2>1. CASE r < rows - 1
    <3>1. r + 1 \in Row /\ e[r][a] = d[r + 1][a]
      BY <1>2, <1>4, <2>1
    <3>2. d[r + 1][a] \in Nat /\ d[r + 1][a] <= n
      BY <1>3, <3>1 DEF Ordered
    <3>3. QED BY <3>1, <3>2
  <2>2. CASE ~(r < rows - 1)
    BY <1>2, <2>2
  <2>3. QED BY <2>1, <2>2
<1>8. ASSUME NEW a \in Col, e[rows - 2][a] # 0
      PROVE  e[rows - 2][a] = n /\ rows - 2 # rows - 1
  <2>1. rows - 2 \in Row /\ rows - 1 \in Row /\ rows - 2 < rows - 1 /\ (rows - 2) + 1 = rows - 1
    BY <1>4, RowsAreIntegers
  <2>2. e[rows - 2][a] = d[rows - 1][a]
    BY <1>2, <2>1
  <2> QED BY <1>8, <2>1, <2>2 DEF Ordered
<1>9. Ordered(e, rows - 2, n + 1)
  <2>1. (n + 1) - 1 = n
    OBVIOUS
  <2> QED BY <1>5, <1>6, <1>7, <1>8, <2>1 DEF Ordered
<1>10. QED BY <1>1, <1>9 DEF e

\* A newline without a scroll begins a line on the blank row below.
LEMMA NextRowIsOrdered ==
  ASSUME NEW d \in Page, NEW y \in Row, NEW n \in Nat, y # rows - 1, Ordered(d, y, n)
  PROVE  y + 1 \in Row /\ Ordered(d, y + 1, n + 1)
<1>1. y + 1 \in Row /\ y \in Int /\ Row \subseteq Int
  BY VuiConsoleAssumption, RowsAreIntegers
<1>2. \A r \in Row : \A a \in Col : d[r][a] \in Nat /\ d[r][a] <= n
  BY DEF Page, Ordered
<1>3. \A r \in Row : r > y + 1 => r > y
  BY <1>1
<1>4. \A r \in Row : \A a \in Col : d[r][a] < n + 1 /\ d[r][a] <= n + 1
  BY <1>2
<1>5. \A a \in Col : d[y + 1][a] = 0
  BY <1>1 DEF Ordered
<1>6. QED BY <1>1, <1>3, <1>4, <1>5 DEF Ordered

\* What a newline, wherever it comes from, does to an ordered page.
LEMMA BreakKeepsOrder ==
  ASSUME TypeOK, NEW d \in Page, Ordered(d, current_y, line), BreaksLine(d)
  PROVE  /\ data' \in Page /\ current_y' \in Row /\ line' \in Nat \ {0}
         /\ Ordered(data', current_y', line')
<1>1. line \in Nat /\ current_y \in Row /\ line' = line + 1 /\ line' \in Nat \ {0}
  BY DEF TypeOK, BreaksLine
<1>2. CASE current_y # rows - 1
  <2>1. data' = d /\ current_y' = current_y + 1
    BY <1>2 DEF BreaksLine, NextRow
  <2>2. QED BY <1>1, <1>2, <2>1, NextRowIsOrdered
<1>3. CASE current_y = rows - 1
  <2>1. data' = Scrolled(d) /\ current_y' = rows - 2
    BY <1>3, VuiConsoleAssumption DEF BreaksLine, NextRow
  <2>2. Scrolled(d) \in Page /\ Ordered(Scrolled(d), rows - 2, line + 1)
    BY <1>1, <1>3, ScrolledIsOrdered
  <2>3. QED BY <1>1, <2>1, <2>2, RowsAreIntegers
<1>4. QED BY <1>2, <1>3

\* A newline keeps the types, tabs or not.
LEMMA BreakType ==
  ASSUME TypeOK, NEW d \in Page, BreaksLine(d)
  PROVE  data' \in Page /\ current_y' \in Row /\ line' \in Nat \ {0}
<1>1. line' \in Nat \ {0}
  BY DEF TypeOK, BreaksLine
<1>2. current_y' \in Row
  BY VuiConsoleAssumption DEF TypeOK, BreaksLine, NextRow, Row
<1>3. Scrolled(d) \in Page
  BY RowsAreIntegers DEF Page, Scrolled
<1>4. data' \in Page
  BY <1>3 DEF BreaksLine
<1>5. QED BY <1>1, <1>2, <1>4

-----------------------------------------------------------------------------
LEMMA InitIInv == Init => IInv
<1> SUFFICES ASSUME Init PROVE IInv OBVIOUS
<1> USE VuiConsoleAssumption DEF Init
<1>1. TypeOK
  <2>1. captured_escape \in [0 .. EscapeSize - 1 -> Int]
    <3>1. Held \subseteq [0 .. EscapeSize - 1 -> Int] /\ captured_escape \in Held OBVIOUS
    <3> HIDE VuiConsoleAssumption DEF Init
    <3>2. QED BY <3>1
  <2>2. capture_num \in 0 .. DataAt + 1
    OBVIOUS
  <2>3. current_y \in Row /\ data \in [Row -> [Col -> Nat]] /\ tab_size \in TabSizes
    BY DEF Row
  <2>4. text \in Seq(Nat) /\ code \in Seq(Nat)
    OBVIOUS
  <2> HIDE VuiConsoleAssumption
  <2>5. QED BY <2>1, <2>2, <2>3, <2>4 DEF TypeOK, Colours
<1>2. OnlyTabsLeaveTheConsole BY DEF OnlyTabsLeaveTheConsole, Col
<1>3. CaptureInv BY DEF CaptureInv
<1>4. Ordered(data, current_y, line) BY DEF Ordered, Row
<1>5. CodeInv BY DEF CodeInv
<1>6. QED BY <1>1, <1>2, <1>3, <1>4, <1>5, OrderedIsTheInvariant DEF IInv

\* The character that is printed.
LEMMA TextType ==
  ASSUME TypeOK, text # <<>>
  PROVE  Head(text) \in Nat /\ Tail(text) \in Seq(Nat)
BY DEF TypeOK

\* A write to captured_escape keeps the types, and hits the pointer only from far out.
LEMMA CapturesType ==
  ASSUME TypeOK, NEW n \in Nat, NEW c \in Nat, Captures(n, c), machine = "up"
  PROVE  /\ captured_escape' \in [0 .. EscapeSize - 1 -> Int]
         /\ tab_size' \in TabSizes
         /\ machine' \in {"up", "code_overrun"}
         /\ machine' = "up" => n < DataAt
<1>1. captured_escape' \in [0 .. EscapeSize - 1 -> Int]
  <2>1. captured_escape \in [0 .. EscapeSize - 1 -> Int] /\ c \in Int
    BY DEF TypeOK
  <2>2. [captured_escape EXCEPT ![n] = c] \in [0 .. EscapeSize - 1 -> Int]
    BY <2>1
  <2>3. QED BY <2>1, <2>2 DEF Captures
<1>2. tab_size' \in TabSizes
  BY DEF TypeOK, Captures
<1>3. machine' \in {"up", "code_overrun"} /\ (machine' = "up" => n < DataAt)
  BY DEF Captures
<1>4. QED BY <1>1, <1>2, <1>3

\* A step that leaves the page alone keeps what is said of it.
LEMMA PageUntouched ==
  ASSUME IInv, UNCHANGED <<page, tabbed>>
  PROVE  PageInOrder' /\ LineInv' /\ CursorInv'
<1>1. \A r \in Row : LinesIn(r)' = LinesIn(r)
  BY DEF LinesIn, page
<1>2. LinesIn(current_y)' = LinesIn(current_y)
  BY DEF LinesIn, page
<1>3. QED BY <1>1, <1>2 DEF IInv, PageInOrder, LineInv, CursorInv, page

\* What is captured of a code is what was seen of it.
LEMMA EscapeKeepsCode ==
  ASSUME TypeOK, CodeInv, NEW c \in Nat,
         EscapeBegins(c) \/ EscapeEnds(c) \/ EscapeGoesOn(c)
  PROVE  CodeInv'
<1>1. CASE EscapeBegins(c)
  BY <1>1 DEF EscapeBegins, CodeInv
<1>2. CASE EscapeEnds(c)
  BY <1>2 DEF EscapeEnds, CodeInv
<1>3. CASE EscapeGoesOn(c) /\ code = <<>>
  BY <1>3 DEF EscapeGoesOn, CodeInv
<1>4. CASE EscapeGoesOn(c) /\ code # <<>>
  <2>1. /\ code \in Seq(Nat) /\ Len(code) \in Nat \ {0} /\ code' = Append(code, c)
        /\ Len(code') = Len(code) + 1 /\ code'[Len(code) + 1] = c
        /\ \A j \in 1 .. Len(code) : code'[j] = code[j]
    BY <1>4 DEF EscapeGoesOn, TypeOK
  <2>2. /\ capturing_escape_code' /\ capture_num = Len(code) - 1 /\ capture_num' = Len(code)
        /\ \A i \in 0 .. EscapeSize - 1 : i < capture_num => captured_escape[i] = code[i + 2]
    BY <1>4, <2>1 DEF EscapeGoesOn, CodeInv
  <2>3. ASSUME NEW i \in 0 .. EscapeSize - 1, i < capture_num'
        PROVE  captured_escape'[i] = code'[i + 2]
    <3>0. captured_escape' = IF capture_num < EscapeSize
                               THEN [captured_escape EXCEPT ![capture_num] = c]
                               ELSE captured_escape
      BY <1>4 DEF EscapeGoesOn, Captures
    <3>1. CASE i = capture_num
      <4>1. captured_escape'[i] = c
        BY <3>0, <3>1, VuiConsoleAssumption DEF TypeOK
      <4> QED BY <2>1, <2>2, <3>1, <4>1
    <3>2. CASE i # capture_num
      <4>1. captured_escape'[i] = captured_escape[i]
        BY <3>0, <3>2 DEF TypeOK
      <4>2. i < capture_num /\ i + 2 \in 1 .. Len(code)
        BY <2>1, <2>2, <2>3, <3>2, VuiConsoleAssumption
      <4> QED BY <2>1, <2>2, <4>1, <4>2
    <3> QED BY <3>1, <3>2
  <2> QED BY <2>1, <2>2, <2>3 DEF CodeInv
<1> QED BY <1>1, <1>2, <1>3, <1>4

LEMMA EscapeKeepsIInv ==
  ASSUME IInv, machine = "up", NEW c \in Nat, text' \in Seq(Nat),
         EscapeBegins(c) \/ EscapeEnds(c) \/ EscapeGoesOn(c)
  PROVE  IInv'
<1> USE VuiConsoleAssumption DEF IInv
<1>1. PageInOrder' /\ LineInv' /\ CursorInv'
  BY PageUntouched DEF EscapeBegins, EscapeEnds, EscapeGoesOn
<1>2. capture_num \in 0 .. DataAt
  BY DEF TypeOK, CaptureInv
<1>c. CodeInv'
  BY EscapeKeepsCode
<1>3. CASE EscapeBegins(c)
  BY <1>1, <1>c, <1>3 DEF EscapeBegins, TypeOK, page, colours, OnlyTabsLeaveTheConsole, CaptureInv
<1>4. CASE EscapeEnds(c)
  <2>1. /\ captured_escape' \in [0 .. EscapeSize - 1 -> Int] /\ tab_size' \in TabSizes
        /\ machine' \in {"up", "code_overrun"}
    BY <1>2, <1>4, CapturesType DEF EscapeEnds
  <2>2. foreground' \in Colours
    BY <1>4 DEF EscapeEnds, ForegroundOf, Colours
  <2>3. background' \in Colours
    BY <1>4 DEF EscapeEnds, BackgroundOf, Colours
  <2>4. TypeOK'
    <3>1. capture_num' = 0 /\ code' = <<>> /\ capturing_escape_code' = FALSE
          /\ UNCHANGED <<page, tabbed>>
      BY <1>4 DEF EscapeEnds
    <3>2. capture_num' \in 0 .. DataAt + 1 /\ code' \in Seq(Nat)
      BY <3>1
    <3>3. QED BY <2>1, <2>2, <2>3, <3>1, <3>2 DEF TypeOK, page
  <2>5. QED
    BY <1>1, <1>c, <1>4, <2>1, <2>4 DEF EscapeEnds, page, OnlyTabsLeaveTheConsole, CaptureInv
<1>5. CASE EscapeGoesOn(c)
  <2>1. /\ captured_escape' \in [0 .. EscapeSize - 1 -> Int] /\ tab_size' \in TabSizes
        /\ machine' \in {"up", "code_overrun"} /\ (machine' = "up" => capture_num < DataAt)
    BY <1>2, <1>5, CapturesType DEF EscapeGoesOn
  <2>2. code' \in Seq(Nat)
    BY <1>5 DEF EscapeGoesOn, TypeOK
  <2>3. capture_num' = capture_num + 1 /\ capture_num' \in 0 .. DataAt + 1
    BY <1>2, <1>5 DEF EscapeGoesOn
  <2>4. TypeOK'
    BY <1>5, <2>1, <2>2, <2>3 DEF EscapeGoesOn, TypeOK, page, colours
  <2>5. CaptureInv'
    BY <1>2, <2>1, <2>3 DEF CaptureInv
  <2>6. QED
    BY <1>1, <1>c, <1>5, <2>1, <2>4, <2>5 DEF EscapeGoesOn, page, OnlyTabsLeaveTheConsole
<1>6. QED BY <1>3, <1>4, <1>5

-----------------------------------------------------------------------------
\* While no tab was printed the page is ordered and the cursor on it.
LEMMA BeforeTabs ==
  ASSUME IInv, ~tabbed
  PROVE  Ordered(data, current_y, line) /\ current_x \in Col
BY OrderedIsTheInvariant DEF IInv, OnlyTabsLeaveTheConsole

LEMMA PageType ==
  ASSUME TypeOK
  PROVE  data \in Page /\ current_y \in Row /\ line \in Nat /\ current_x \in Int
BY DEF TypeOK, Page

\* A step of the page that is ordered again, or comes after a tab, keeps the invariant.
LEMMA PageStep ==
  ASSUME IInv, text' \in Seq(Nat), UNCHANGED <<colours, escape, tab_size>>,
         machine' \in {"up", "off", "page_overrun"}, machine = "up",
         tabbed' \in BOOLEAN, current_x' \in Int,
         data' \in Page, current_y' \in Row, line' \in Nat \ {0},
         ~tabbed' => machine' = "up" /\ current_x' \in Col /\ Ordered(data', current_y', line')
  PROVE  IInv'
<1>1. TypeOK'
  BY DEF IInv, TypeOK, Page, colours, escape
<1>2. OnlyTabsLeaveTheConsole'
  BY DEF OnlyTabsLeaveTheConsole
<1>3. CaptureInv'
  BY DEF IInv, CaptureInv, escape
<1>4. PageInOrder' /\ LineInv' /\ CursorInv'
  <2>1. CASE tabbed'
    BY <2>1 DEF PageInOrder, LineInv, CursorInv
  <2>2. CASE ~tabbed'
    BY <2>2, OrderedIsTheInvariantAfter
  <2>3. QED BY <1>1, <2>1, <2>2 DEF TypeOK
<1>5. CodeInv'
  BY DEF IInv, CodeInv, escape
<1>6. QED BY <1>1, <1>2, <1>3, <1>4, <1>5 DEF IInv

LEMMA NewlineKeepsIInv ==
  ASSUME IInv, machine = "up", text' \in Seq(Nat), UNCHANGED <<colours, escape, tab_size>>,
         PutNewline
  PROVE  IInv'
<1>1. TypeOK /\ data \in Page
  BY PageType DEF IInv
<1>2. data' \in Page /\ current_y' \in Row /\ line' \in Nat \ {0}
  BY <1>1, BreakType DEF PutNewline
<1>3. current_x' \in Col /\ current_x' \in Int
  BY VuiConsoleAssumption DEF PutNewline, Col
<1>4. ~tabbed' => Ordered(data', current_y', line')
  BY <1>1, BeforeTabs, BreakKeepsOrder DEF PutNewline
<1>5. QED BY <1>1, <1>2, <1>3, <1>4, PageStep DEF PutNewline, TypeOK

\* After a tab nothing is promised of the page but its type.
LEMMA TabKeepsIInv ==
  ASSUME IInv, machine = "up", text' \in Seq(Nat), UNCHANGED <<colours, escape, tab_size>>,
         PutTab
  PROVE  IInv'
<1>1. TypeOK /\ data \in Page /\ current_x \in Int /\ tab_size \in Nat /\ cols \in Int
  BY PageType, VuiConsoleAssumption DEF IInv, TypeOK
<1>2. CASE tab_size = 0 /\ machine' = "off" /\ UNCHANGED page
  BY <1>1, <1>2, PageType, PageStep DEF PutTab, TypeOK, page
<1>3. CASE tab_size # 0 /\ UNCHANGED machine
  <2> DEFINE new_x == current_x + Remainder(current_x, tab_size)
  <2>1. current_x % tab_size \in Int /\ (-current_x) % tab_size \in Int
    BY <1>1, <1>3
  <2>2. new_x \in Int
    BY <1>1, <2>1 DEF Remainder
  <2> HIDE DEF new_x
  <2>3. \/ BreaksLine(data) /\ current_x' = cols - new_x
        \/ current_x' = new_x /\ UNCHANGED <<data, current_y, line>>
    BY <1>3 DEF PutTab, new_x
  <2>4. current_x' \in Int
    BY <1>1, <2>2, <2>3
  <2>5. data' \in Page /\ current_y' \in Row /\ line' \in Nat \ {0}
    BY <1>1, <2>3, BreakType, PageType DEF TypeOK
  <2>6. QED BY <1>1, <1>3, <2>4, <2>5, PageStep DEF PutTab
<1>4. QED BY <1>2, <1>3 DEF PutTab

LEMMA CharacterKeepsIInv ==
  ASSUME IInv, machine = "up", text' \in Seq(Nat), UNCHANGED <<colours, escape, tab_size>>,
         PutCharacter
  PROVE  IInv'
<1>1. TypeOK /\ data \in Page /\ current_x \in Int /\ current_y \in Row /\ line \in Nat
  BY PageType DEF IInv
<1>2. tabbed' = tabbed /\ tabbed \in BOOLEAN /\ line \in Nat \ {0}
  BY <1>1 DEF PutCharacter, TypeOK
<1>3. CASE CellRow \notin Row
  <2>1. tabbed
    BY <1>1, <1>3, BeforeTabs DEF CellRow
  <2>2. QED BY <1>1, <1>2, <1>3, <2>1, PageStep DEF PutCharacter, page
<1>4. CASE CellRow \in Row
  <2>1. CellCol \in Col
    BY <1>1, VuiConsoleAssumption DEF CellCol, Col
  <2>2. Drawn \in Page
    BY <1>1, <1>4, <2>1 DEF Drawn, Page
  <2>3. ~tabbed => Ordered(Drawn, current_y, line) /\ current_x \in Col
    <3>1. SUFFICES ASSUME ~tabbed PROVE Ordered(Drawn, current_y, line) /\ current_x \in Col
      OBVIOUS
    <3>2. current_x \in Col /\ Ordered(data, current_y, line)
      BY <3>1, BeforeTabs
    <3>3. Drawn = [data EXCEPT ![current_y][current_x] = line]
      BY <3>2 DEF Drawn, CellRow, CellCol
    <3>4. QED BY <1>1, <3>2, <3>3, DrawnIsOrdered
  <2>4. CASE Wraps
    <3>1. machine' = "up" /\ current_x' = 0 /\ BreaksLine(Drawn)
      BY <1>4, <2>4 DEF PutCharacter
    <3>2. data' \in Page /\ current_y' \in Row /\ line' \in Nat \ {0}
      BY <1>1, <2>2, <3>1, BreakType
    <3>3. ~tabbed => Ordered(data', current_y', line')
      BY <1>1, <2>2, <2>3, <3>1, BreakKeepsOrder
    <3>4. 0 \in Col
      BY VuiConsoleAssumption DEF Col
    <3>5. QED BY <1>2, <3>1, <3>2, <3>3, <3>4, PageStep
  <2>5. CASE ~Wraps
    <3>1. machine' = "up" /\ current_x' = current_x + 1 /\ data' = Drawn
          /\ current_y' = current_y /\ line' = line
      BY <1>4, <2>5 DEF PutCharacter
    <3>2. ~tabbed => current_x' \in Col
      BY <1>1, <2>3, <2>5, <3>1, VuiConsoleAssumption DEF Wraps, Col
    <3>3. current_x' \in Int
      BY <1>1, <3>1
    <3>4. ~tabbed' => machine' = "up" /\ current_x' \in Col /\ Ordered(data', current_y', line')
      BY <1>2, <2>3, <3>1, <3>2
    <3>5. QED BY <1>1, <1>2, <2>2, <3>1, <3>3, <3>4, PageStep
  <2>6. QED BY <2>4, <2>5
<1>5. QED BY <1>3, <1>4

LEMMA PutsKeepsIInv == IInv /\ vui_console_puts => IInv'
<1> SUFFICES ASSUME IInv, vui_console_puts PROVE IInv' OBVIOUS
<1>1. PageInOrder' /\ LineInv' /\ CursorInv'
  BY PageUntouched DEF vui_console_puts
<1>2. text' \in Seq(Nat)
  BY VuiConsoleAssumption DEF vui_console_puts
<1>3. TypeOK'
  BY <1>2 DEF IInv, TypeOK, vui_console_puts, page, colours, escape
<1>4. OnlyTabsLeaveTheConsole' /\ CaptureInv'
  BY DEF IInv, OnlyTabsLeaveTheConsole, CaptureInv, vui_console_puts, page, escape
<1>5. CodeInv'
  BY DEF IInv, CodeInv, vui_console_puts, escape
<1>6. QED BY <1>1, <1>3, <1>4, <1>5 DEF IInv

LEMMA PutcKeepsIInv == IInv /\ vui_console_putc => IInv'
<1> SUFFICES ASSUME IInv, vui_console_putc PROVE IInv' OBVIOUS
<1> DEFINE c == Head(text)
<1>1. c \in Nat /\ text' \in Seq(Nat) /\ machine = "up"
  BY TextType DEF IInv, vui_console_putc
<1> HIDE DEF c
<1>2. EscapeBegins(c) \/ EscapeEnds(c) \/ EscapeGoesOn(c) \/ Plain(c)
  BY DEF vui_console_putc, c
<1>3. CASE EscapeBegins(c) \/ EscapeEnds(c) \/ EscapeGoesOn(c)
  BY <1>1, <1>3, EscapeKeepsIInv
<1>4. CASE Plain(c)
  BY <1>1, <1>4, NewlineKeepsIInv, TabKeepsIInv, CharacterKeepsIInv DEF Plain
<1>5. QED BY <1>2, <1>3, <1>4

LEMMA StepIInv == IInv /\ [Next]_vars => IInv'
<1> SUFFICES ASSUME IInv, [Next]_vars PROVE IInv' OBVIOUS
<1>1. CASE vui_console_puts
  BY <1>1, PutsKeepsIInv
<1>2. CASE vui_console_putc
  BY <1>2, PutcKeepsIInv
<1>3. CASE UNCHANGED vars
  <2>1. PageInOrder' /\ LineInv' /\ CursorInv'
    BY <1>3, PageUntouched DEF vars
  <2>2. QED
    BY <1>3, <2>1 DEF IInv, TypeOK, OnlyTabsLeaveTheConsole, CaptureInv, CodeInv, vars, page, colours, escape
<1>4. QED BY <1>1, <1>2, <1>3 DEF Next

THEOREM Invariance == Spec => []IInv
BY InitIInv, StepIInv, PTL DEF Spec

\* The console's state keeps its type: the cursor never leaves the rows, whatever is
\* printed (vui_console.c:321-467).
THEOREM TypeCorrect == Spec => []TypeOK
BY Invariance, PTL DEF IInv

\* As long as no tab is printed the cursor stays in its row's columns, no character
\* is written outside the page and nothing divides by zero.
THEOREM OnlyTabsLeave == Spec => []OnlyTabsLeaveTheConsole
BY Invariance, PTL DEF IInv

\* As long as no tab is printed the page shows lines in the order of printing, with
\* nothing left below the cursor, through every wrap and scroll.
THEOREM ThePageIsInOrder == Spec => []PageInOrder
BY Invariance, PTL DEF IInv

\* A step that leaves the page as ordered as it was takes from it only the line at
\* its top or the one before the line being written.
LEMMA BreakLoses ==
  ASSUME IInv, ~tabbed, NEW d \in Page, BreaksLine(d), Ordered(d, current_y, line),
         d = data \/ (current_x \in Col /\ d = [data EXCEPT ![current_y][current_x] = line]),
         NEW m \in Shown, m \notin Shown'
  PROVE  m \in LinesIn(0) \/ m = line - 1
<1>1. /\ data \in Page /\ current_y \in Row /\ line \in Nat
      /\ Ordered(data, current_y, line) /\ 0 \in Row /\ Row \subseteq Int /\ rows >= 3
  BY PageType, BeforeTabs, VuiConsoleAssumption, RowsAreIntegers DEF IInv, Row
<1>2. PICK r \in Row, a \in Col : data[r][a] = m /\ m # 0
  BY DEF Shown, LinesIn
<1>3. \A s \in Row : \A b \in Col : data'[s][b] # m
  BY <1>2 DEF Shown, LinesIn
<1>4. m \in LinesIn(r)
  BY <1>2 DEF LinesIn
<1>5. SUFFICES ASSUME r # 0, m # line - 1 PROVE FALSE
  BY <1>4
<1>6. \E b \in Col : d[r][b] = m
  <2>1. CASE d = data
    BY <1>2, <2>1
  <2>2. CASE current_x \in Col /\ d = [data EXCEPT ![current_y][current_x] = line]
    <3>1. CASE r = current_y
      <4>1. m = line
        BY <1>1, <1>2, <1>5, <3>1 DEF Ordered
      <4>2. d[r][current_x] = line
        BY <1>1, <2>2, <3>1 DEF Page
      <4> QED BY <2>2, <4>1, <4>2
    <3>2. CASE r # current_y
      BY <1>1, <1>2, <2>2, <3>2 DEF Page
    <3> QED BY <3>1, <3>2
  <2> QED BY <2>1, <2>2
<1>7. CASE current_y # rows - 1
  BY <1>3, <1>6, <1>7 DEF BreaksLine
<1>8. CASE current_y = rows - 1
  <2>1. r - 1 \in Row /\ r - 1 < rows - 1 /\ (r - 1) + 1 = r
    BY <1>1, <1>5, VuiConsoleAssumption DEF Row
  <2>2. \A b \in Col : data'[r - 1][b] = d[r][b]
    BY <1>8, <2>1 DEF BreaksLine, Scrolled
  <2> QED BY <1>3, <1>6, <2>1, <2>2
<1> QED BY <1>7, <1>8

LEMMA StepLoses ==
  ASSUME IInv, [Next]_vars, ~tabbed', NEW m \in Shown \ Shown'
  PROVE  m \in LinesIn(0) \/ m = line - 1
<1>1. ~UNCHANGED data
  BY DEF Shown, LinesIn
<1>2. TypeOK /\ data \in Page /\ line \in Nat /\ current_y \in Row
  BY PageType DEF IInv
<1>3. PutNewline \/ PutTab \/ PutCharacter
  BY <1>1 DEF Next, vui_console_puts, vui_console_putc, EscapeBegins, EscapeEnds,
              EscapeGoesOn, Plain, page, vars
<1>4. ~tabbed
  BY <1>2, <1>3 DEF PutNewline, PutTab, PutCharacter, TypeOK
<1>5. Ordered(data, current_y, line) /\ current_x \in Col
  BY <1>4, BeforeTabs
<1>6. CASE PutNewline
  BY <1>2, <1>4, <1>5, <1>6, BreakLoses DEF PutNewline
<1>7. CASE PutTab
  BY <1>7 DEF PutTab
<1>8. CASE PutCharacter
  <2>1. Drawn = [data EXCEPT ![current_y][current_x] = line]
    BY <1>5 DEF Drawn, CellRow, CellCol
  <2>2. Drawn \in Page /\ Ordered(Drawn, current_y, line)
    BY <1>2, <1>5, <2>1, DrawnIsOrdered
  <2>3. BreaksLine(Drawn) \/ data' = Drawn
    BY <1>1, <1>8 DEF PutCharacter, page
  <2>4. CASE BreaksLine(Drawn)
    BY <1>4, <1>5, <2>1, <2>2, <2>4, BreakLoses
  <2>5. CASE data' = Drawn
    <3>1. PICK r \in Row, a \in Col : data[r][a] = m /\ m # 0
      BY DEF Shown, LinesIn
    <3>2. \A s \in Row : \A b \in Col : Drawn[s][b] # m
      BY <2>5, <3>1 DEF Shown, LinesIn
    <3>3. r = current_y
      BY <1>2, <2>1, <3>1, <3>2 DEF Page
    <3>4. m # line
      BY <1>2, <1>5, <2>1, <3>2 DEF Page
    <3> QED BY <1>5, <3>1, <3>3, <3>4 DEF Ordered
  <2> QED BY <2>3, <2>4, <2>5
<1> QED BY <1>3, <1>6, <1>7, <1>8

\* As long as no tab is printed a line leaves the page at its top, or because the line
\* after it is written over it where a scroll left the cursor (vui_console.c:403-445).
THEOREM LinesLeaveAtTheTop == Spec => LinesGoForAReason
<1>1. ASSUME IInv, [Next]_vars
      PROVE  [~tabbed' => \A m \in Shown \ Shown' : m \in LinesIn(0) \/ m = line - 1]_vars
  BY <1>1, StepLoses
<1> QED BY <1>1, Invariance, PTL DEF Spec, LinesGoForAReason

\* The colours are those of the code just printed, for every text, every size of the
\* buffer and whatever the memory held (vui_console.c:321-389).
THEOREM TheCodeIsRead == Spec => CodeIsReadAsWritten
<1> DEFINE Read == /\ foreground' = ForegroundOf(Number(code[5], code[6]))
                   /\ Len(code) > 8 => background' = BackgroundOf(Number(code[8], code[9]))
<1>1. ASSUME IInv, Next, code # <<>>, code' = <<>>, Len(code) \in 6 .. EscapeSize
      PROVE  Read
  <2> DEFINE c == Head(text)
  <2>1. c \in Nat /\ code \in Seq(Nat)
    BY <1>1, TextType DEF IInv, TypeOK, Next, vui_console_puts, vui_console_putc, escape
  <2>2. EscapeEnds(c)
    <3>1. ~EscapeBegins(c)
      BY <1>1 DEF EscapeBegins
    <3>2. ~EscapeGoesOn(c)
      BY <1>1, <2>1 DEF EscapeGoesOn
    <3>3. code' # code
      BY <1>1
    <3> QED BY <1>1, <3>1, <3>2, <3>3
          DEF Next, vui_console_puts, vui_console_putc, Plain, escape
  <2>3. /\ capture_num = Len(code) - 1 /\ capture_num \in 5 .. EscapeSize - 1
        /\ \A i \in 0 .. EscapeSize - 1 : i < capture_num => captured_escape[i] = code[i + 2]
    BY <1>1, VuiConsoleAssumption DEF IInv, CodeInv
  <2>4. \A i \in 0 .. EscapeSize - 1 : i < capture_num => captured_escape'[i] = code[i + 2]
    <3>1. captured_escape' = [captured_escape EXCEPT ![capture_num] = 0]
      BY <2>2, <2>3, VuiConsoleAssumption DEF EscapeEnds, Captures
    <3> QED BY <1>1, <2>3, <3>1 DEF IInv, TypeOK
  <2>5. captured_escape'[3] = code[5] /\ captured_escape'[4] = code[6]
    BY <2>3, <2>4, VuiConsoleAssumption
  <2>6. Len(code) > 8 => captured_escape'[6] = code[8] /\ captured_escape'[7] = code[9]
    BY <2>3, <2>4, VuiConsoleAssumption
  <2> QED BY <2>2, <2>5, <2>6 DEF EscapeEnds
<1>2. ASSUME IInv, [Next]_vars
      PROVE  [(code # <<>> /\ code' = <<>> /\ Len(code) \in 6 .. EscapeSize) => Read]_vars
  BY <1>1, <1>2
<1> QED BY <1>2, Invariance, PTL DEF Spec, CodeIsReadAsWritten

-----------------------------------------------------------------------------
\* Terminal: the way of the characters to the console.

\* Where the flag can be set, and what has been sent while it was not. After the flag
\* was cleared under a debug text nothing sets it again before the text ends.
FlagInv ==
  /\ is_debug_output => kind = "debugf" /\ pc \in {"print", "off"}
  /\ kind = "debugf" /\ pc \in {"print", "off"} /\ ~disturbed => is_debug_output
  /\ pc = "on" => kind = "debugf" /\ sent = <<>>
  /\ pc = "off" => kind = "debugf"
  /\ pc \in {"on", "print"} => left # 0
  /\ kind = "debugf" /\ (\E i \in DOMAIN sent : sent[i] # Serial) =>
       disturbed /\ ~is_debug_output

PrintInv ==
  /\ TerminalTypeOK /\ FlagInv
  /\ PrintfReachesTheConsole /\ OnlyHandlersDivertDebugText

LEMMA SinksDiffer == {"console"} # Serial /\ {} # Serial
  BY DEF Serial

LEMMA NothingSent == <<>> \in Seq(Sinks) /\ Len(<<>>) = 0 /\ DOMAIN <<>> = {}
  OBVIOUS

LEMMA TextBegun == \A l \in 1 .. TextMax : l \in 0 .. TextMax /\ 0 + l <= TextMax
  BY TextAssumption

LEMMA PrintInit == TerminalInit => PrintInv
<1>1. ASSUME TerminalInit PROVE TerminalTypeOK
  <2>1. sent \in Seq(Sinks) /\ Len(sent) + left <= TextMax /\ left \in 0 .. TextMax
    BY <1>1, NothingSent, TextAssumption DEF TerminalInit
  <2>2. /\ is_debug_output \in BOOLEAN /\ disturbed \in BOOLEAN
        /\ stage \in {"boot", "vui", "console"}
        /\ pc \in {"idle", "on", "print", "off"} /\ kind \in {"printf", "debugf"}
    BY <1>1 DEF TerminalInit
  <2> QED BY <2>1, <2>2 DEF TerminalTypeOK
<1>2. ASSUME TerminalInit PROVE FlagInv /\ PrintfReachesTheConsole /\ OnlyHandlersDivertDebugText
  BY <1>2, NothingSent DEF TerminalInit, FlagInv, PrintfReachesTheConsole, OnlyHandlersDivertDebugText
<1> QED BY <1>1, <1>2 DEF PrintInv

\* One more character is sent.
LEMMA PutsStep == PrintInv /\ Puts => PrintInv'
<1> SUFFICES ASSUME PrintInv, Puts PROVE PrintInv'
  OBVIOUS
<1> USE DEF PrintInv
<1>1. term_put_char \in Sinks
  BY DEF term_put_char, Sinks
<1>2. /\ sent \in Seq(Sinks) /\ sent' = Append(sent, term_put_char)
      /\ sent' \in Seq(Sinks) /\ Len(sent') = Len(sent) + 1
  BY <1>1 DEF TerminalTypeOK, Puts
<1>3. /\ DOMAIN sent' = DOMAIN sent \cup {Len(sent) + 1} /\ Len(sent) + 1 \notin DOMAIN sent
      /\ \A i \in DOMAIN sent : sent'[i] = sent[i] /\ i < Len(sent) + 1
      /\ sent'[Len(sent) + 1] = term_put_char
  BY <1>1, <1>2
<1>4. TerminalTypeOK'
  <2>1. left' \in 0 .. TextMax /\ Len(sent') + left' <= TextMax
    BY <1>2, TextAssumption DEF TerminalTypeOK, FlagInv, Puts
  <2> QED BY <1>2, <2>1, TextAssumption DEF TerminalTypeOK, Puts, AfterLast
<1>5. FlagInv'
  BY <1>3, SinksDiffer DEF FlagInv, Puts, AfterLast, term_put_char
<1>6. PrintfReachesTheConsole'
  BY <1>3 DEF PrintfReachesTheConsole, FlagInv, Puts, term_put_char
<1>7. OnlyHandlersDivertDebugText'
  BY <1>3, SinksDiffer DEF OnlyHandlersDivertDebugText, FlagInv, Puts, term_put_char
<1> QED BY <1>4, <1>5, <1>6, <1>7

\* A text begins.
LEMMA StartsStep == PrintInv /\ Starts => PrintInv'
<1>0. SUFFICES ASSUME PrintInv, Starts PROVE PrintInv'
  OBVIOUS
<1>1. TerminalTypeOK'
  <2>1. sent' \in Seq(Sinks) /\ Len(sent') + left' <= TextMax /\ left' \in 0 .. TextMax
    <3>1. sent' \in Seq(Sinks)
      BY <1>0, NothingSent DEF Starts
    <3>2. Len(sent') = 0
      BY <1>0, NothingSent DEF Starts
    <3>3. left' \in 1 .. TextMax
      BY <1>0 DEF Starts
    <3>4. left' \in 0 .. TextMax /\ Len(sent') + left' <= TextMax
      BY <3>2, <3>3, TextBegun
    <3> QED BY <3>1, <3>4
  <2>2. /\ is_debug_output' \in BOOLEAN /\ disturbed' \in BOOLEAN
        /\ stage' \in {"boot", "vui", "console"}
        /\ pc' \in {"idle", "on", "print", "off"} /\ kind' \in {"printf", "debugf"}
    BY <1>0 DEF Starts, PrintInv, TerminalTypeOK
  <2> QED BY <2>1, <2>2 DEF TerminalTypeOK
<1> USE <1>0, NothingSent DEF PrintInv, Starts
<1>2. FlagInv'
  BY DEF TerminalTypeOK, FlagInv
<1>3. PrintfReachesTheConsole'
  BY DEF PrintfReachesTheConsole, FlagInv
<1>4. OnlyHandlersDivertDebugText'
  BY DEF OnlyHandlersDivertDebugText, FlagInv
<1> QED BY <1>1, <1>2, <1>3, <1>4

\* The flag is set and cleared by the text itself.
LEMMA FlagSteps == PrintInv /\ (debug_out_on \/ debug_out_off) => PrintInv'
<1> SUFFICES ASSUME PrintInv, (debug_out_on \/ debug_out_off) PROVE PrintInv'
  OBVIOUS
<1> USE DEF PrintInv, debug_out_on, debug_out_off
<1>1. TerminalTypeOK'
  BY DEF TerminalTypeOK, FlagInv
<1>2. FlagInv'
  BY DEF TerminalTypeOK, FlagInv
<1>3. PrintfReachesTheConsole'
  BY DEF PrintfReachesTheConsole, FlagInv
<1>4. OnlyHandlersDivertDebugText'
  BY DEF OnlyHandlersDivertDebugText, FlagInv
<1> QED BY <1>1, <1>2, <1>3, <1>4

\* The console takes the output over between two texts.
LEMMA StageSteps == PrintInv /\ (vui_initalize \/ vui_console_main) => PrintInv'
<1>0. SUFFICES ASSUME PrintInv, vui_initalize \/ vui_console_main PROVE PrintInv'
  OBVIOUS
<1>1. TerminalTypeOK'
  <2>1. sent' \in Seq(Sinks) /\ Len(sent') + left' <= TextMax /\ left' \in 0 .. TextMax
    <3>1. sent' = sent \/ (sent' \in Seq(Sinks) /\ Len(sent') = 0)
      BY <1>0, NothingSent DEF vui_initalize, vui_console_main, printing
    <3>2. left' = left /\ left \in 0 .. TextMax /\ sent \in Seq(Sinks)
          /\ Len(sent) + left <= TextMax
      BY <1>0 DEF vui_initalize, vui_console_main, printing, PrintInv, TerminalTypeOK
    <3> QED BY <3>1, <3>2, TextAssumption
  <2>2. /\ is_debug_output' \in BOOLEAN /\ disturbed' \in BOOLEAN
        /\ stage' \in {"boot", "vui", "console"}
        /\ pc' \in {"idle", "on", "print", "off"} /\ kind' \in {"printf", "debugf"}
    BY <1>0 DEF vui_initalize, vui_console_main, printing, PrintInv, TerminalTypeOK
  <2> QED BY <2>1, <2>2 DEF TerminalTypeOK
<1> USE <1>0, NothingSent DEF PrintInv, vui_initalize, vui_console_main, printing
<1>2. FlagInv'
  BY DEF TerminalTypeOK, FlagInv
<1>3. PrintfReachesTheConsole'
  BY DEF PrintfReachesTheConsole, FlagInv
<1>4. OnlyHandlersDivertDebugText'
  BY DEF OnlyHandlersDivertDebugText, FlagInv
<1> QED BY <1>1, <1>2, <1>3, <1>4

\* A handler prints.
LEMMA HandlerSteps == PrintInv /\ (KeyInterrupt \/ MouseInterrupt) => PrintInv'
  BY DEF PrintInv, TerminalTypeOK, FlagInv, PrintfReachesTheConsole, OnlyHandlersDivertDebugText,
    KeyInterrupt, MouseInterrupt, HandlerPrints, printing

LEMMA PrintStutter == PrintInv /\ UNCHANGED terminal_vars => PrintInv'
  BY DEF PrintInv, TerminalTypeOK, FlagInv, PrintfReachesTheConsole, OnlyHandlersDivertDebugText,
    terminal_vars, printing

\* The strengthening of the properties below is inductive.
THEOREM PrintInvariance == TerminalSpec => []PrintInv
<1>1. PrintInv /\ [TerminalNext]_terminal_vars => PrintInv'
  BY PutsStep, StartsStep, FlagSteps, StageSteps, HandlerSteps, PrintStutter DEF TerminalNext
<1> QED BY PrintInit, <1>1, PTL DEF TerminalSpec

\* The state of the printing keeps its type for texts of any length (terminal.c:120-229).
THEOREM PrintTypeCorrect == TerminalSpec => []TerminalTypeOK
  BY PrintInvariance, PTL DEF PrintInv

\* What printf prints once the console is there reaches it, whatever handlers print
\* between its characters (terminal.c:129-139).
THEOREM PrintfIsSeen == TerminalSpec => []PrintfReachesTheConsole
  BY PrintInvariance, PTL DEF PrintInv

\* A debug text leaves the serial ports only after a handler printed, and for good
\* (include/debug.h:98-104).
THEOREM DebugTextKeepsItsStart == TerminalSpec => []OnlyHandlersDivertDebugText
  BY PrintInvariance, PTL DEF PrintInv

=============================================================================
