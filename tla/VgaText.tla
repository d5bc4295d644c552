------------------------------- MODULE VgaText -------------------------------
(***************************************************************************)
(* The VGA text driver (drivers/src/peripheral/x86/vga_text.rs) and the    *)
(* boot sink of kernel/src/subsystems/boot_sinks/x86.rs, which makes a new *)
(* driver for every string it is given.  The screen is VGA_ROWS rows of    *)
(* VGA_COLS cells; rows and columns are counted from 0.                    *)
(***************************************************************************)
EXTENDS Integers, Sequences

CONSTANTS VGA_COLS, VGA_ROWS,
          Printed,     \* bytes that print
          Colors,      \* attributes
          Default,     \* the attribute of a new driver
          MaxScrolls   \* bound on the rows scrolled off

VARIABLES cells,      \* the buffer at 0xB8000
          col, row,   \* VgaText's fields
          attr,
          hw_cursor,  \* the cursor position in the CRT controller
          scrolled,   \* history: the rows that left the screen
          did         \* history: the operation done last

vgaVars == <<cells, col, row, attr, hw_cursor, scrolled, did>>

\* A screen, and the colour of a new driver.
VgaConstants == /\ VGA_COLS \in Nat \ {0} /\ VGA_ROWS \in Nat \ {0}
                /\ Default \in Colors /\ MaxScrolls \in Nat

Cell(ch, a) == [ch |-> ch, attr |-> a]
RowOf(ch, a) == [c \in 1 .. VGA_COLS |-> Cell(ch, a)]
write_cell(c, r, ch) == [cells EXCEPT ![r + 1][c + 1] = Cell(ch, attr)]

\* update_hw_cursor, with the place the call has moved the cursor to.
update_hw_cursor == hw_cursor' = row' * VGA_COLS + col'

\* scroll_up (ScrollKeepsLast forgets to clear the last row).
ScrollKeepsLast(screen) == Tail(screen) \o << screen[VGA_ROWS] >>
scroll_up(screen) == Tail(screen) \o << RowOf("space", attr) >>

\* newline, on a screen that has just been written to.
newline(screen) ==
  /\ col' = 0
  /\ IF row + 1 >= VGA_ROWS
     THEN /\ cells' = scroll_up(screen)
          /\ scrolled' = Append(scrolled, Head(screen))
          /\ row' = VGA_ROWS - 1
     ELSE /\ cells' = screen
          /\ row' = row + 1
          /\ UNCHANGED scrolled

\* advance_cursor.
advance_cursor(screen) ==
  IF col + 1 >= VGA_COLS THEN newline(screen)
  ELSE col' = col + 1 /\ cells' = screen /\ UNCHANGED <<row, scrolled>>

CanScroll == Len(scrolled) < MaxScrolls

write_printed(b) == /\ CanScroll /\ did' = << "print", b >>
                    /\ advance_cursor(write_cell(col, row, b))
                    /\ update_hw_cursor /\ UNCHANGED attr
write_newline == /\ CanScroll /\ did' = << "newline" >>
                 /\ newline(cells)
                 /\ update_hw_cursor /\ UNCHANGED attr
write_return == /\ col' = 0 /\ did' = << "return" >>
                /\ UNCHANGED <<cells, row, attr, scrolled>>
                /\ update_hw_cursor
write_backspace == /\ did' = << "backspace" >>
                   /\ col' = IF col > 0 THEN col - 1 ELSE col
                   /\ cells' = write_cell(col', row, "space")
                   /\ UNCHANGED <<row, attr, scrolled>>
                   /\ update_hw_cursor

clear == /\ cells' = [r \in 1 .. VGA_ROWS |-> RowOf("space", attr)]
         /\ col' = 0 /\ row' = 0 /\ did' = << "clear" >>
         /\ UNCHANGED <<attr, scrolled>>
         /\ update_hw_cursor
set_cursor(c, r) == /\ col' = IF c > VGA_COLS - 1 THEN VGA_COLS - 1 ELSE c
                    /\ row' = IF r > VGA_ROWS - 1 THEN VGA_ROWS - 1 ELSE r
                    /\ did' = << "goto", col' + 1, row' + 1 >>
                    /\ UNCHANGED <<cells, attr, scrolled>>
                    /\ update_hw_cursor
set_color(a) == attr' = a /\ did' = << "color" >> /\ UNCHANGED <<cells, col, row, hw_cursor, scrolled>>

\* VgaText::new, at the start of every string of the boot sink.
new == /\ attr' = Default /\ did' = << "new" >>
       /\ cells' = [r \in 1 .. VGA_ROWS |-> RowOf("space", Default)]
       /\ col' = 0 /\ row' = 0
       /\ UNCHANGED scrolled
       /\ update_hw_cursor

Init == /\ attr = Default /\ col = 0 /\ row = 0 /\ hw_cursor = 0
        /\ cells = [r \in 1 .. VGA_ROWS |-> RowOf("space", Default)]
        /\ scrolled = << >> /\ did = << "new" >>

Next == \/ \E b \in Printed : write_printed(b)
        \/ write_newline \/ write_return \/ write_backspace
        \/ clear \/ new
        \/ \E c \in 0 .. VGA_COLS, r \in 0 .. VGA_ROWS : set_cursor(c, r)
        \/ \E a \in Colors : set_color(a)

Spec == Init /\ [][Next]_vgaVars

(*** Properties ************************************************************)

Console == INSTANCE Terminal
             WITH Cols <- VGA_COLS, Rows <- VGA_ROWS, Bytes <- Printed, Attrs <- Colors,
                  paper <- scrolled \o cells, ink <- attr,
                  line <- Len(scrolled) + (hw_cursor \div VGA_COLS) + 1,
                  col <- (hw_cursor % VGA_COLS) + 1

\* The screen always shows the end of what was written, whatever wraps,
\* scrolls, erases and moves the cursor, and the cursor of the CRT controller
\* is where the next byte goes.
ImplementsTerminal == Console!Spec
=============================================================================
