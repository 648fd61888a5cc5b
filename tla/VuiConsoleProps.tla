-------------------------- MODULE VuiConsoleProps ---------------------------
(***************************************************************************)
(* What can be relied on about the text console.                           *)
(***************************************************************************)
EXTENDS VuiConsole

TypeOK ==
  /\ machine \in {"up", "off", "page_overrun", "code_overrun"}
  /\ data \in [Row -> [Col -> Nat]]
  /\ current_x \in Int /\ current_y \in Row
  /\ foreground \in Colours /\ background \in Colours
  /\ capturing_escape_code \in BOOLEAN
  /\ capture_num \in 0 .. DataAt + 1
  /\ captured_escape \in [0 .. EscapeSize - 1 -> Int]
  /\ tab_size \in TabSizes
  /\ text \in Seq(Nat) /\ code \in Seq(Nat)
  /\ line \in Nat \ {0} /\ tabbed \in BOOLEAN

\* Without a tab the cursor stays on the console, no character is written outside
\* the page and nothing divides by zero (vui_console.c:391-456).
OnlyTabsLeaveTheConsole ==
  ~tabbed => current_x \in Col /\ machine \notin {"off", "page_overrun"}

\* The place in the code is past the console's pointer only when that was hit.
CaptureInv == machine = "up" => capture_num <= DataAt

\* The numbers of the lines that have a character in row r.
LinesIn(r) == {data[r][c] : c \in Col} \ {0}

\* From the top to the cursor the lines come in the order they were printed, and
\* below the cursor nothing is left, however often the page scrolled and lines
\* wrapped (vui_console.c:403-445).
PageInOrder ==
  ~tabbed => /\ \A r, s \in Row : r < s => \A m \in LinesIn(r), n \in LinesIn(s) : m < n
             /\ \A r \in Row : r > current_y => LinesIn(r) = {}
             /\ \A r \in Row : \A m \in LinesIn(r) : m <= line

\* The line being written is at the cursor, and older ones are above it.
LineInv == ~tabbed => \A r \in Row : r < current_y => \A m \in LinesIn(r) : m < line

\* In the cursor's row stands the line being written, or what a scroll left of the
\* one before; a scroll never leaves the cursor in the last row.
CursorInv ==
  ~tabbed => \A m \in LinesIn(current_y) :
    m \in {line - 1, line} /\ (current_y = rows - 1 => m = line)

\* A code that was seen from its start is captured, without its Escape.
CodeInv ==
  code # <<>> =>
    /\ capturing_escape_code /\ capture_num = Len(code) - 1
    /\ \A i \in 0 .. EscapeSize - 1 : i < capture_num => captured_escape[i] = code[i + 2]

IInv ==
  /\ TypeOK /\ OnlyTabsLeaveTheConsole /\ CaptureInv
  /\ PageInOrder /\ LineInv /\ CursorInv /\ CodeInv

Shown == UNION {LinesIn(r) : r \in Row}

\* A line goes from the console by scrolling off the top, or because the line
\* after it is written over it: a newline in the last row takes the cursor back to
\* the line just printed (vui_console.c:438), but never to an older one.
LinesGoForAReason ==
  [][~tabbed' => \A m \in Shown \ Shown' : m \in LinesIn(0) \/ m = line - 1]_vars

\* The end of an escape code that was seen from its start, and fits, sets the
\* foreground from its fourth and fifth character and the background from its
\* seventh and eighth (vui_console.c:333-336), whatever was captured before it.
CodeIsReadAsWritten ==
  [][(code # <<>> /\ code' = <<>> /\ Len(code) \in 6 .. EscapeSize) =>
       /\ foreground' = ForegroundOf(Number(code[5], code[6]))
       /\ Len(code) > 8 => background' = BackgroundOf(Number(code[8], code[9]))]_vars

=============================================================================
