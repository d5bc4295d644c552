------------------------------- MODULE Canvas -------------------------------
(***************************************************************************)
(* What the FrameBuffer trait of drivers/src/hal/fb.rs promises its users: *)
(* a screen of pixels on which a call paints a shape, clipped to the       *)
(* screen, and touches nothing else.  A call that does not keep to the      *)
(* terms below (Proper) may do anything.                                   *)
(***************************************************************************)
EXTENDS Integers

VARIABLES screen,   \* [width, height, bits]: bits per colour channel;
                    \* moves: copies between overlapping regions are right too
          pixels,   \* the colour each point shows
          around,   \* the memory next to the screen's
          call,     \* the call under way
          answer    \* what get_pixel and set_pixel returned last

canvas == <<screen, pixels, around, call, answer>>

Idle == [op |-> "none"]
Absent == << >>

On(p) == p[1] \in 0 .. screen.width - 1 /\ p[2] \in 0 .. screen.height - 1

\* A channel keeps its high bits only.
Kept(v, bits) == IF bits >= 8 THEN v ELSE v - (v % 2 ^ (8 - bits))
Shown(c) == [i \in 1 .. 3 |-> Kept(c[i], screen.bits[i])]

Abs(n) == IF n < 0 THEN - n ELSE n
Larger(m, n) == IF m > n THEN m ELSE n
Between(n, a, b) == (a <= n /\ n <= b) \/ (b <= n /\ n <= a)
Square(p, c) == (p[1] - c.x) * (p[1] - c.x) + (p[2] - c.y) * (p[2] - c.y)

(*** Shapes: the points a call must paint and those it may paint ***********)

InRect(p, c) == p[1] \in c.x .. c.x + c.w - 1 /\ p[2] \in c.y .. c.y + c.h - 1

\* The rectangle is closed where the screen cuts it off.
OnOutline(p, c) ==
  /\ InRect(p, c)
  /\ \/ p[1] \in {c.x, c.x + c.w - 1, screen.width - 1}
     \/ p[2] \in {c.y, c.y + c.h - 1, screen.height - 1}

\* The points at most half a point off the straight line, across its direction.
OffLine(p, c) == 2 * Abs((p[1] - c.x) * (c.y2 - c.y) - (p[2] - c.y) * (c.x2 - c.x))
Length(c) == Larger(Abs(c.x2 - c.x), Abs(c.y2 - c.y))
InBox(p, c) == Between(p[1], c.x, c.x2) /\ Between(p[2], c.y, c.y2)

Painted(p, c) ==
  CASE c.op = "clear" -> TRUE
    [] c.op = "set_pixel" -> p = <<c.x, c.y>>
    [] c.op \in {"hline", "vline"} -> InBox(p, c)
    [] c.op = "rect" -> InRect(p, c)
    [] c.op = "outline" -> OnOutline(p, c)
    [] c.op = "line" -> InBox(p, c) /\ (OffLine(p, c) < Length(c) \/ Length(c) = 0)
    [] c.op = "circle" -> p \in {<<c.x + c.r, c.y>>, <<c.x - c.r, c.y>>,
                                 <<c.x, c.y + c.r>>, <<c.x, c.y - c.r>>}
    [] c.op = "disc" -> Square(p, c) < (c.r - 1) * (c.r - 1)

Paintable(p, c) ==
  CASE c.op = "line" -> InBox(p, c) /\ OffLine(p, c) <= Length(c)
    [] c.op = "circle" -> /\ Square(p, c) <= c.r * c.r
                          /\ c.r < 2 \/ Square(p, c) > (c.r - 2) * (c.r - 2)
    [] c.op = "disc" -> Square(p, c) <= c.r * c.r
    [] OTHER -> Painted(p, c)

(*** Terms *****************************************************************)

InScreen(x, y, w, h) == x + w <= screen.width /\ y + h <= screen.height
Later(c) == c.y2 > c.y \/ (c.y2 = c.y /\ c.x2 > c.x)
Overlap(c) == Abs(c.x2 - c.x) < c.w /\ Abs(c.y2 - c.y) < c.h

Proper(c) ==
  CASE c.op = "hline" -> c.x <= c.x2 /\ c.x < screen.width
    [] c.op = "vline" -> c.y <= c.y2 /\ c.y < screen.height
    [] c.op = "rect" -> c.x < screen.width /\ c.w > 0
    [] c.op = "outline" -> On(<<c.x, c.y>>) /\ c.w > 0 /\ c.h > 0
    [] c.op = "disc" -> c.x >= c.r /\ c.x < screen.width
    [] c.op = "copy" -> /\ InScreen(c.x, c.y, c.w, c.h) /\ InScreen(c.x2, c.y2, c.w, c.h)
                        /\ Overlap(c) /\ Later(c) => screen.moves
    [] OTHER -> TRUE

(*** Actions ***************************************************************)

Start == call = Idle /\ call' # Idle /\ UNCHANGED <<screen, pixels, around, answer>>

Finish == call # Idle /\ call' = Idle /\ UNCHANGED <<screen, around>>

Paint == /\ Proper(call) /\ call.op \notin {"copy", "get_pixel"}
         /\ Finish
         /\ \A p \in DOMAIN pixels :
              /\ pixels'[p] \in {pixels[p], Shown(call.color)}
              /\ Painted(p, call) => pixels'[p] = Shown(call.color)
              /\ pixels'[p] # pixels[p] => Paintable(p, call)
         /\ answer' = IF call.op = "set_pixel" THEN << On(<<call.x, call.y>>) >> ELSE answer

\* All at once: the region arrives as it was.
Copy == LET From(p) == <<p[1] - call.x2 + call.x, p[2] - call.y2 + call.y>>
            To == [x |-> call.x2, y |-> call.y2, w |-> call.w, h |-> call.h]
        IN /\ call.op = "copy" /\ Proper(call)
           /\ Finish
           /\ pixels' = [p \in DOMAIN pixels |->
                           IF InRect(p, To) THEN pixels[From(p)] ELSE pixels[p]]
           /\ UNCHANGED answer

Get == /\ call.op = "get_pixel"
       /\ Finish
       /\ answer' = IF On(<<call.x, call.y>>) THEN pixels[<<call.x, call.y>>] ELSE Absent
       /\ UNCHANGED pixels

Anything == call # Idle /\ ~ Proper(call) /\ UNCHANGED screen

Init == call = Idle /\ answer = Absent /\ DOMAIN pixels = {p \in DOMAIN pixels : On(p)}
Next == Start \/ Paint \/ Copy \/ Get \/ Anything

Spec == Init /\ [][Next]_canvas
=============================================================================
