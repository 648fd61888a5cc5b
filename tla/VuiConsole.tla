----------------------------- MODULE VuiConsole -----------------------------
(***************************************************************************)
(* The text console of vUI (ui/vui_console.c): vui_console_putc with its   *)
(* cursor, wrapping, scrolling, tabs and escape codes. Texts come from one *)
(* task at a time and no interrupt writes to the console, so a character   *)
(* is a step and nothing falls between its parts.                          *)
(*                                                                         *)
(* A character is its ASCII code. A cell of data holds the number of the   *)
(* line its character belongs to, 0 when it is blank; the pixels are left  *)
(* out. vui_console_new gets its memory from kmalloc and leaves tab_size   *)
(* and the state of the escape parser as the memory was.                   *)
(***************************************************************************)
EXTENDS Integers, Sequences

CONSTANTS
  rows, cols,    \* the console's size in characters
  EscapeSize,    \* the size of captured_escape
  TabAt,         \* where tab_size lies, counted from captured_escape
  DataAt,        \* where the pointer data lies, counted from captured_escape
  TabSizes,      \* what tab_size may be
  Held,          \* what the memory of captured_escape may have held
  Texts,         \* what is printed: sequences of characters
  MaxLines       \* bound on the lines of a run

ASSUME VuiConsoleAssumption ==
  /\ rows \in Nat /\ rows >= 3 /\ cols \in Nat \ {0}
  /\ EscapeSize \in Nat /\ EscapeSize > 8
  /\ TabAt \in Nat /\ TabAt >= EscapeSize /\ DataAt \in Nat /\ DataAt > TabAt
  /\ TabSizes \subseteq Nat /\ TabSizes # {}
  /\ Held \subseteq [0 .. EscapeSize - 1 -> Int]
  /\ Texts \subseteq Seq(Nat) /\ MaxLines \in Nat

Escape == 27   Tab == 9   Newline == 10   EndOfCode == 109

VARIABLES
  machine,       \* "up"; "off" after a division by 0; "page_overrun" and
                 \* "code_overrun" when a write left the page or reached its pointer
  data, current_x, current_y,
  foreground, background,
  capturing_escape_code, capture_num, captured_escape, tab_size,
  text,          \* what is still to be printed
  line,          \* history: the number of the line being written
  code,          \* history: the escape code so far, its Escape included
  tabbed         \* history: a tab was printed

page == <<data, current_x, current_y, line>>
colours == <<foreground, background>>
escape == <<capturing_escape_code, capture_num, captured_escape, code>>
vars == <<machine, page, colours, escape, tab_size, text, tabbed>>

Row == 0 .. rows - 1
Col == 0 .. cols - 1
Colours == {"black", "red", "green", "brown", "blue", "white"}

\* vui_console_clear and what the memory held.
Init ==
  /\ machine = "up"
  /\ data = [r \in Row |-> [c \in Col |-> 0]]
  /\ current_x = 0 /\ current_y = 0 /\ line = 1
  /\ foreground = "white" /\ background = "black"
  /\ \/ capturing_escape_code = TRUE /\ capture_num \in 0 .. DataAt
     \/ capturing_escape_code = FALSE /\ capture_num = 0  \* set before it is read
  /\ captured_escape \in Held
  /\ tab_size \in TabSizes
  /\ text = <<>> /\ code = <<>> /\ tabbed = FALSE

-----------------------------------------------------------------------------
\* A write to captured_escape[n], wherever that is.
Captures(n, c) ==
  /\ captured_escape' = IF n < EscapeSize THEN [captured_escape EXCEPT ![n] = c]
                                          ELSE captured_escape
  /\ \/ n \in TabAt .. TabAt + 3 /\ tab_size' \in TabSizes
     \/ n \notin TabAt .. TabAt + 3 /\ UNCHANGED tab_size
  /\ machine' = IF n < DataAt THEN machine ELSE "code_overrun"

Number(tens, units) == (tens - 48) * 10 + (units - 48)

ForegroundOf(n) ==
  IF n \in 30 .. 34 THEN <<"black", "red", "green", "brown", "blue">>[n - 29] ELSE "white"

BackgroundOf(n) ==
  IF n \in 40 .. 44 THEN <<"black", "red", "green", "black", "blue">>[n - 39] ELSE "black"

\* As if a new code went on behind the one before.
EscapeBegins_KeepsPlace(c) ==
  /\ c = Escape
  /\ capturing_escape_code' = TRUE
  /\ code' = <<c>>
  /\ UNCHANGED <<machine, page, colours, capture_num, captured_escape, tab_size, tabbed>>

EscapeBegins(c) ==
  /\ c = Escape
  /\ capturing_escape_code' = TRUE /\ capture_num' = 0
  /\ code' = <<c>>
  /\ UNCHANGED <<machine, page, colours, captured_escape, tab_size, tabbed>>

\* The digits are taken where a full code has them; a shorter code leaves there
\* what an earlier one wrote.
EscapeEnds(c) ==
  /\ c = EndOfCode /\ capturing_escape_code
  /\ Captures(capture_num, 0)
  /\ foreground' = ForegroundOf(Number(captured_escape'[3], captured_escape'[4]))
  /\ background' = BackgroundOf(Number(captured_escape'[6], captured_escape'[7]))
  /\ capturing_escape_code' = FALSE /\ capture_num' = 0
  /\ code' = <<>>
  /\ UNCHANGED <<page, tabbed>>

EscapeGoesOn(c) ==
  /\ c \notin {Escape, EndOfCode} /\ capturing_escape_code
  /\ Captures(capture_num, c)
  /\ capture_num' = capture_num + 1
  /\ code' = IF code = <<>> THEN code ELSE Append(code, c)
  /\ UNCHANGED <<page, colours, capturing_escape_code, tabbed>>

-----------------------------------------------------------------------------
\* As if the rows were copied downwards.
Scrolled_Down(d) == [r \in Row |-> IF r > 0 THEN d[r - 1] ELSE [c \in Col |-> 0]]

\* Every row moves up by one and the last becomes blank.
Scrolled(d) == [r \in Row |-> IF r < rows - 1 THEN d[r + 1] ELSE [c \in Col |-> 0]]

\* As if the cursor went back to the top instead of scrolling.
NextRow_Top == IF current_y = rows - 1 THEN 0 ELSE current_y + 1

\* The cursor's row after a newline: a scroll takes it up with the text.
NextRow == IF current_y = rows - 1 THEN current_y - 1 ELSE current_y + 1

\* The part of a newline that is the same wherever it comes from; d is the page.
BreaksLine(d) ==
  /\ current_y' = NextRow
  /\ data' = IF current_y = rows - 1 THEN Scrolled(d) ELSE d
  /\ line' = line + 1

PutNewline ==
  /\ current_x' = 0
  /\ BreaksLine(data)
  /\ UNCHANGED <<machine, tabbed>>

\* C's remainder has the sign of the dividend.
Remainder(n, m) == IF n >= 0 THEN n % m ELSE -((-n) % m)

PutTab ==
  /\ tabbed' = TRUE
  /\ \/ /\ tab_size = 0
        /\ machine' = "off"
        /\ UNCHANGED page
     \/ /\ tab_size # 0
        /\ UNCHANGED machine
        /\ LET new_x == current_x + Remainder(current_x, tab_size) IN
             \/ new_x > cols /\ BreaksLine(data) /\ current_x' = cols - new_x
             \/ new_x <= cols /\ current_x' = new_x /\ UNCHANGED <<data, current_y, line>>

\* The cell the cursor is on; a column outside the row is a cell of another row.
CellRow == IF current_x \in Col THEN current_y ELSE current_y + (current_x \div cols)
CellCol == IF current_x \in Col THEN current_x ELSE current_x % cols

\* As if the wrap were noticed one column late.
Wraps_Late == current_x = cols

Drawn == [data EXCEPT ![CellRow][CellCol] = line]
Wraps == current_x + 1 = cols

PutCharacter ==
  /\ UNCHANGED tabbed
  /\ \/ /\ CellRow \notin Row
        /\ machine' = "page_overrun"
        /\ UNCHANGED page
     \/ /\ CellRow \in Row
        /\ UNCHANGED machine
        /\ \/ Wraps /\ current_x' = 0 /\ BreaksLine(Drawn)
           \/ /\ ~Wraps
              /\ current_x' = current_x + 1 /\ data' = Drawn
              /\ UNCHANGED <<current_y, line>>

Plain(c) ==
  /\ c # Escape /\ ~capturing_escape_code
  /\ \/ c = Tab /\ PutTab
     \/ c = Newline /\ PutNewline
     \/ c \notin {Tab, Newline} /\ PutCharacter
  /\ UNCHANGED <<colours, escape, tab_size>>

-----------------------------------------------------------------------------
vui_console_puts ==
  /\ machine = "up" /\ text = <<>> /\ line < MaxLines
  /\ text' \in Texts
  /\ UNCHANGED <<machine, page, colours, escape, tab_size, tabbed>>

vui_console_putc ==
  /\ machine = "up" /\ text # <<>>
  /\ LET c == Head(text) IN EscapeBegins(c) \/ EscapeEnds(c) \/ EscapeGoesOn(c) \/ Plain(c)
  /\ text' = Tail(text)

Next == vui_console_puts \/ vui_console_putc

Spec == Init /\ [][Next]_vars

=============================================================================
