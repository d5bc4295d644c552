---------------------------- MODULE FrameBuffers ----------------------------
(***************************************************************************)
(* The two linear framebuffers: Mb2Fb (drivers/src/peripheral/x86/mb2fb.rs) *)
(* and Bcm2835Framebuffer (drivers/src/peripheral/bcm2835/framebuffer.rs), *)
(* with the drawing that the FrameBuffer trait (drivers/src/hal/fb.rs)     *)
(* gives to both.  The memory is bytes: rows of pitch bytes, in them the   *)
(* pixels, little endian.  A call is taken up and then carried out at once *)
(* (nobody reads the memory while it runs); a call that leaves the slice,  *)
(* or subtracts below zero, makes the driver panic or write anywhere, and  *)
(* is not followed any further (sound).                                    *)
(***************************************************************************)
EXTENDS Integers, Sequences, FiniteSets, SequencesExt

CONSTANTS Tags,      \* framebuffers that a boot loader or the GPU may offer
          U32,       \* 2^32 in the code
          Coords,    \* coordinates in the calls
          Extents,   \* widths, heights and radii in the calls
          Ink,       \* a colour <<red, green, blue>>
          Guard,     \* bytes looked at behind the buffer
          MaxCalls   \* bound on the calls of a run

VARIABLES fb,      \* the driver's fields
          mem,     \* the memory at base
          call,
          answer,
          sound,
          calls    \* how many calls were taken up

fbVars == <<fb, mem, call, answer, sound, calls>>

Idle == [op |-> "none"]
Smaller(m, n) == IF m < n THEN m ELSE n
Bigger(m, n) == IF m > n THEN m ELSE n
Abs(n) == IF n < 0 THEN - n ELSE n

(*** Pixels and bytes ******************************************************)

\* Mb2Fb::new: direct colour of a known depth.
Accepted(tag) == tag.driver = "mb2" => tag.fb_type = 1 /\ tag.bpp \in {15, 16, 24, 32}
BytesPerPixel(bpp) == CASE bpp \in {15, 16} -> 2 [] bpp = 24 -> 3 [] bpp = 32 -> 4
new(tag) == [driver |-> tag.driver, width |-> tag.width, height |-> tag.height,
             pitch |-> tag.pitch, bytes |-> BytesPerPixel(tag.bpp), channels |-> tag.channels]

\* Channel::pack (PackAll forgets that a channel may have fewer than 8 bits)
\* and Channel::extract: the high bits of a component, at the channel's place.
PackAll(ch, v) == v * 2 ^ ch.pos
pack(ch, v) == (IF ch.size >= 8 THEN v * 2 ^ (ch.size - 8) ELSE v \div 2 ^ (8 - ch.size)) * 2 ^ ch.pos
extract(ch, word) ==
  LET raw == (word \div 2 ^ ch.pos) % 2 ^ ch.size
  IN IF ch.size >= 8 THEN raw \div 2 ^ (ch.size - 8) ELSE raw * 2 ^ (8 - ch.size)

pack_color(c) == pack(fb.channels[1], c[1]) + pack(fb.channels[2], c[2]) + pack(fb.channels[3], c[3])
unpack_color(word) == [i \in 1 .. 3 |-> extract(fb.channels[i], word)]

Size == fb.pitch * fb.height
offset(p) == p[2] * fb.pitch + p[1] * fb.bytes

\* write_pixel_raw at every point of a set.
write_pixels(m, points, word) ==
  LET starts == {offset(p) : p \in points}
      Index(o) == {i \in 0 .. fb.bytes - 1 : o - i \in starts}
  IN [o \in DOMAIN m |->
        IF Index(o) = {} THEN m[o] ELSE (word \div 256 ^ (CHOOSE i \in Index(o) : TRUE)) % 256]

read_pixel_raw(m, p) ==
  LET Byte(i) == m[offset(p) + i] * 256 ^ i
  IN Byte(0) + Byte(1) + (IF fb.bytes > 2 THEN Byte(2) ELSE 0)

Points == (0 .. fb.width - 1) \X (0 .. fb.height - 1)

\* set_pixel looks at its coordinates as unsigned numbers.
AsU32(n) == n % U32
set_pixel(x, y) == {<<AsU32(x), AsU32(y)>>} \cap Points

(*** Lines and rectangles: the points written, or Wild *********************)

Wild == <<-1, -1>>
ClampX(x) == Smaller(AsU32(x), fb.width - 1)
ClampY(y) == Smaller(AsU32(y), fb.height - 1)

\* Mb2Fb does not order the ends; its 32-bit loop then counts below zero.
draw_hline(x1, x2, y) ==
  IF AsU32(y) >= fb.height THEN {}
  ELSE IF fb.driver = "mb2"
       THEN IF fb.bytes = 4 /\ ClampX(x2) < ClampX(x1) THEN {Wild}
            ELSE (ClampX(x1) .. ClampX(x2)) \X {y}
       ELSE (Smaller(ClampX(x1), ClampX(x2)) .. Bigger(ClampX(x1), ClampX(x2))) \X {y}

draw_vline(x, y1, y2) ==
  IF x >= fb.width THEN {}
  ELSE IF fb.driver = "mb2" THEN {x} \X (ClampY(y1) .. ClampY(y2))
       ELSE {x} \X (Smaller(ClampY(y1), ClampY(y2)) .. Bigger(ClampY(y1), ClampY(y2)))

\* A row of Bcm2835Framebuffer is a line up to x_end - 1, which may be below x.
draw_rect(x, y, w, h) ==
  LET x_end == Smaller(x + w, fb.width)
      rows == y .. Smaller(y + h, fb.height) - 1
  IN IF rows = {} THEN {}
     ELSE IF fb.driver = "mb2"
          THEN IF fb.bytes = 4 /\ x_end < x THEN {Wild} ELSE (x .. x_end - 1) \X rows
          ELSE IF x_end = 0 THEN {Wild}
          ELSE UNION {draw_hline(x, x_end - 1, row) : row \in rows}

draw_rect_outline(x, y, w, h) ==
  LET x2 == Smaller(x + w - 1, fb.width - 1)
      y2 == Smaller(y + h - 1, fb.height - 1)
  IN IF w = 0 \/ h = 0 THEN {}
     ELSE draw_hline(x, x2, y) \cup draw_hline(x, x2, y2) \cup draw_vline(x, y, y2) \cup draw_vline(x2, y, y2)

(*** Bresenham's line and the midpoint circle ******************************)

draw_line(x1, y1, x2, y2) ==
  LET dx == Abs(x2 - x1)
      dy == - Abs(y2 - y1)
      sx == IF x1 < x2 THEN 1 ELSE -1
      sy == IF y1 < y2 THEN 1 ELSE -1
      at[i \in 0 .. dx - dy] ==
        IF i = 0 THEN [x |-> x1, y |-> y1, err |-> dx + dy]
        ELSE LET s == at[i - 1]
                 e2 == 2 * s.err
             IN IF s.x = x2 /\ s.y = y2 THEN s
                ELSE [x |-> IF e2 >= dy THEN s.x + sx ELSE s.x,
                      y |-> IF e2 <= dx THEN s.y + sy ELSE s.y,
                      err |-> s.err + (IF e2 >= dy THEN dy ELSE 0) + (IF e2 <= dx THEN dx ELSE 0)]
  IN UNION {set_pixel(at[i].x, at[i].y) : i \in 0 .. dx - dy}

\* The rounds of the loop that draw_circle and fill_circle share: y counts
\* them, x shrinks when the error has grown, until x < y.
Octant(radius) ==
  LET at[i \in 0 .. radius + 1] ==
        IF i = 0 THEN [x |-> radius, y |-> 0, err |-> 0]
        ELSE LET s == at[i - 1]
                 up == IF s.err <= 0 THEN s.err + 2 * i + 1 ELSE s.err
             IN [x |-> IF up > 0 THEN s.x - 1 ELSE s.x, y |-> i,
                 err |-> IF up > 0 THEN up - (2 * (s.x - 1) + 1) ELSE up]
      rounds == {i \in 0 .. radius + 1 : \A j \in 0 .. i : at[j].x >= at[j].y}
  IN {at[i] : i \in rounds}

draw_circle(cx, cy, radius) ==
  UNION { set_pixel(cx + o.x, cy + o.y) \cup set_pixel(cx + o.y, cy + o.x)
          \cup set_pixel(cx - o.y, cy + o.x) \cup set_pixel(cx - o.x, cy + o.y)
          \cup set_pixel(cx - o.x, cy - o.y) \cup set_pixel(cx - o.y, cy - o.x)
          \cup set_pixel(cx + o.y, cy - o.x) \cup set_pixel(cx + o.x, cy - o.y) : o \in Octant(radius) }

fill_circle(cx, cy, radius) ==
  UNION { draw_hline(cx - o.x, cx + o.x, cy + o.y) \cup draw_hline(cx - o.x, cx + o.x, cy - o.y)
          \cup draw_hline(cx - o.y, cx + o.y, cy + o.x)
          \cup draw_hline(cx - o.y, cx + o.y, cy - o.x) : o \in Octant(radius) }

(*** Copies ****************************************************************)

Forward(n) == [i \in 1 .. n |-> i - 1]
Backward(n) == [i \in 1 .. n |-> n - i]

CopyByte(src, dst, m, b) == [m EXCEPT ![dst + b] = m[src + b]]

\* One row, from its start or from its end.
copy_row(m, src, dst, n) ==
  FoldLeft(LAMBDA a, b : CopyByte(src, dst, a, b), m, IF dst <= src THEN Forward(n) ELSE Backward(n))

\* Mb2Fb::copy_region, which checks no bounds.
move_region(c) ==
  FoldLeft(LAMBDA m, i : copy_row(m, offset(<<c.x, c.y + i>>), offset(<<c.x2, c.y2 + i>>), c.w * fb.bytes),
           mem, IF c.y2 <= c.y THEN Forward(c.h) ELSE Backward(c.h))
MoveInside(c) ==
  c.h = 0 \/ c.w = 0 \/ offset(<<Bigger(c.x, c.x2) + c.w, Bigger(c.y, c.y2) + c.h - 1>>) <= Cardinality(DOMAIN mem)

\* The trait's copy_region: get_pixel and set_pixel, row after row.
copy_pixel(c, m, i) ==
  LET from == <<c.x + (i % c.w), c.y + (i \div c.w)>>
      to == <<c.x2 + (i % c.w), c.y2 + (i \div c.w)>>
  IN IF from \in Points THEN write_pixels(m, {to} \cap Points, read_pixel_raw(m, from)) ELSE m
copy_region(c) == FoldLeft(LAMBDA m, i : copy_pixel(c, m, i), mem, Forward(c.w * c.h))

(*** Calls *****************************************************************)

Op(op) == [op : {op}, x : Coords, y : Coords, color : {Ink}]
Calls ==
  UNION { [op : {"clear"}, color : {Ink}], Op("set_pixel"), Op("get_pixel"),
          {[op |-> "hline", x |-> x, x2 |-> x2, y |-> y, y2 |-> y, color |-> Ink] : x, x2, y \in Coords},
          {[op |-> "vline", x |-> x, x2 |-> x, y |-> y, y2 |-> y2, color |-> Ink] : x, y, y2 \in Coords},
          [op : {"line"}, x : Coords, y : Coords, x2 : Coords, y2 : Coords, color : {Ink}],
          [op : {"rect", "outline"}, x : Coords, y : Coords, w : Extents, h : Extents, color : {Ink}],
          [op : {"circle", "disc"}, x : Coords, y : Coords, r : Extents, color : {Ink}],
          [op : {"copy"}, x : Coords, y : Coords, x2 : Coords, y2 : Coords, w : Extents, h : Extents] }

begin(c) == /\ call = Idle /\ sound /\ calls < MaxCalls
            /\ call' = c /\ calls' = calls + 1
            /\ UNCHANGED <<fb, mem, answer, sound>>

\* clear: Mb2Fb writes the pixels, Bcm2835Framebuffer all words of the buffer.
Everything == (0 .. (IF fb.driver = "bcm" THEN fb.pitch \div 4 ELSE fb.width) - 1) \X (0 .. fb.height - 1)

Shape(c) ==
  CASE c.op = "clear" -> Everything
    [] c.op = "set_pixel" -> set_pixel(c.x, c.y)
    [] c.op = "hline" -> draw_hline(c.x, c.x2, c.y)
    [] c.op = "vline" -> draw_vline(c.x, c.y, c.y2)
    [] c.op = "line" -> draw_line(c.x, c.y, c.x2, c.y2)
    [] c.op = "rect" -> draw_rect(c.x, c.y, c.w, c.h)
    [] c.op = "outline" -> draw_rect_outline(c.x, c.y, c.w, c.h)
    [] c.op = "circle" -> draw_circle(c.x, c.y, c.r)
    [] c.op = "disc" -> fill_circle(c.x, c.y, c.r)

draw == /\ call.op \notin {"none", "copy", "get_pixel"}
        /\ LET points == Shape(call)
           IN /\ sound' = (Wild \notin points)
              /\ mem' = write_pixels(mem, points, pack_color(call.color))
              /\ answer' = IF call.op = "set_pixel" THEN << points # {} >> ELSE answer
        /\ call' = Idle
        /\ UNCHANGED <<fb, calls>>

get_pixel == /\ call.op = "get_pixel"
             /\ answer' = IF <<call.x, call.y>> \in Points
                          THEN unpack_color(read_pixel_raw(mem, <<call.x, call.y>>)) ELSE << >>
             /\ call' = Idle
             /\ UNCHANGED <<fb, mem, sound, calls>>

copy == /\ call.op = "copy"
        /\ \/ fb.driver = "bcm" /\ mem' = copy_region(call) /\ UNCHANGED sound
           \/ fb.driver = "mb2" /\ MoveInside(call) /\ mem' = move_region(call) /\ UNCHANGED sound
           \/ fb.driver = "mb2" /\ ~ MoveInside(call) /\ sound' = FALSE /\ UNCHANGED mem
        /\ call' = Idle
        /\ UNCHANGED <<fb, answer, calls>>

\* A driver for what is offered.  The picture found at the start has a colour
\* of its own at every point.
Offered == {new(tag) : tag \in {t \in Tags : Accepted(t)}}
Init == /\ fb \in Offered
        /\ mem = [o \in 0 .. Size + Guard - 1 |->
                    LET p == <<(o % fb.pitch) \div fb.bytes, o \div fb.pitch>>
                        word == pack_color(<<0, 4 * (p[2] * fb.width + p[1]), 0>>)
                    IN IF p \in Points THEN (word \div 256 ^ ((o % fb.pitch) % fb.bytes)) % 256 ELSE 0]
        /\ call = Idle /\ answer = << >> /\ sound = TRUE /\ calls = 0

Next == \/ \E c \in Calls : begin(c)
        \/ draw \/ get_pixel \/ copy

Spec == Init /\ [][Next]_fbVars

(*** Properties ************************************************************)

Screen == [width |-> fb.width, height |-> fb.height, moves |-> fb.driver = "mb2",
           bits |-> [i \in 1 .. 3 |-> fb.channels[i].size]]

Drawing == INSTANCE Canvas
             WITH screen <- Screen,
                  pixels <- [p \in Points |-> unpack_color(read_pixel_raw(mem, p))],
                  around <- [o \in Size .. Size + Guard - 1 |-> mem[o]]

\* Every call within its terms paints its shape, clipped to the screen, in the
\* colour the depth can show, moves a region whole even onto itself, and leaves
\* the memory behind the buffer alone: offsets, clamping, packing, the rounds of
\* the line and circle algorithms and the order of the copies are all right.
ImplementsCanvas == Drawing!Spec
=============================================================================
