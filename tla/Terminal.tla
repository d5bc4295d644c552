------------------------------ MODULE Terminal ------------------------------
(***************************************************************************)
(* What a console promises (ConsoleOutput of drivers/src/hal/console.rs):  *)
(* a paper that grows at its end, of which the last Rows rows are seen,     *)
(* and a cursor on one of them.  What has left the screen stays as it was. *)
(***************************************************************************)
EXTENDS Integers, Sequences

CONSTANTS Cols, Rows,  \* the screen's size
          Bytes,       \* bytes that print
          Attrs        \* colours

VARIABLES paper,  \* the rows, each a sequence of cells [ch, attr]
          line,   \* the cursor's row on the paper, counted from 1
          col,    \* and its place in the row, counted from 1
          ink,    \* the colour in use
          did     \* the operation done last

page == <<paper, line, col, ink, did>>

Blank == [ch |-> "space", attr |-> ink]
BlankRow == [c \in 1 .. Cols |-> Blank]
First == Len(paper) - Rows + 1    \* the first row seen

Goto(l, c, p) == /\ line' = l /\ col' = c
                 /\ paper' = IF l > Len(p) THEN Append(p, BlankRow) ELSE p

Type(b) == LET p == [paper EXCEPT ![line][col] = [ch |-> b, attr |-> ink]]
           IN IF col = Cols THEN Goto(line + 1, 1, p) ELSE Goto(line, col + 1, p)
Newline == Goto(line + 1, 1, paper)
Return == Goto(line, 1, paper)
Erase == LET c == IF col = 1 THEN 1 ELSE col - 1
         IN Goto(line, c, [paper EXCEPT ![line][c] = Blank])
Clear == Goto(First, 1, [l \in DOMAIN paper |-> IF l >= First THEN BlankRow ELSE paper[l]])

\* A new driver: a blank screen in its colour.
Renew == /\ ink' \in Attrs /\ line' = First /\ col' = 1
         /\ paper' = [l \in DOMAIN paper |->
                        IF l >= First THEN [c \in 1 .. Cols |-> [ch |-> "space", attr |-> ink']] ELSE paper[l]]

Next == \/ /\ \/ did' = << "newline" >> /\ Newline
              \/ did' = << "return" >> /\ Return
              \/ did' = << "backspace" >> /\ Erase
              \/ did' = << "clear" >> /\ Clear
              \/ \E b \in Bytes : did' = << "print", b >> /\ Type(b)
              \/ \E l \in 1 .. Rows, c \in 1 .. Cols : did' = << "goto", c, l >> /\ Goto(First + l - 1, c, paper)
           /\ UNCHANGED ink
        \/ did' = << "color" >> /\ ink' \in Attrs /\ UNCHANGED <<paper, line, col>>
        \/ did' = << "new" >> /\ Renew

Init == /\ ink \in Attrs /\ line = 1 /\ col = 1 /\ did = << "new" >>
        /\ paper = [l \in 1 .. Rows |-> BlankRow]

Spec == Init /\ [][Next]_page
=============================================================================
