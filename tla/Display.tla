------------------------------ MODULE Display ------------------------------
(***************************************************************************)
(* What ends on a screen: the mailbox that asks the GPU for a framebuffer, *)
(* the drawing on a framebuffer, and the text console of a PC.  They share *)
(* nothing, so a behaviour is about one of them, and part says which.      *)
(***************************************************************************)
EXTENDS Mailbox

CONSTANTS \* the framebuffers (FrameBuffers)
          Tags, U32, Coords, Extents, Ink, Guard, MaxCalls,
          \* the text console (VgaText)
          VGA_COLS, VGA_ROWS, Printed, Colors, Default, MaxScrolls

VARIABLES part,
          fb, mem, fbCall, answer, sound, calls,
          cells, col, row, attr, hw_cursor, scrolled, did

Pixels == INSTANCE FrameBuffers WITH call <- fbCall
fbVars == <<fb, mem, fbCall, answer, sound, calls>>

Text == INSTANCE VgaText
vgaVars == <<cells, col, row, attr, hw_cursor, scrolled, did>>
all == <<part, mbVars, fbVars, vgaVars>>

ASSUME DisplayAssumption == Text!VgaConstants

\* The parts that a behaviour is not about stay as one of their starts.
DisplayInit == /\ part \in {"mailbox", "pixels", "text"}
               /\ Init /\ (part = "mailbox" \/ toArm = << >>)
               /\ Pixels!Init /\ (part = "pixels" \/ fb = CHOOSE f \in Pixels!Offered : TRUE)
               /\ Text!Init
MailboxPart(A) == part = "mailbox" /\ A /\ UNCHANGED <<part, fbVars, vgaVars>>
PixelPart(A) == part = "pixels" /\ A /\ UNCHANGED <<part, mbVars, vgaVars>>
TextPart(A) == part = "text" /\ A /\ UNCHANGED <<part, mbVars, fbVars>>

MailboxStep == MailboxPart(Next)
PixelStep == PixelPart(Pixels!Next)
TextStep == TextPart(Text!Next)

DisplaySpec ==
  /\ DisplayInit /\ [][MailboxStep \/ PixelStep \/ TextStep]_all
  /\ WF_all(MailboxPart(Driver))
  /\ WF_all(MailboxPart(gpu_writes)) /\ WF_all(MailboxPart(gpu_replies))
-----------------------------------------------------------------------------
\* Drawing paints the shape and no other byte (mb2fb.rs, framebuffer.rs, hal/fb.rs).
ImplementsCanvas == Pixels!ImplementsCanvas

\* The text console is a terminal that scrolls (vga_text.rs).
ImplementsTerminal == Text!ImplementsTerminal
=============================================================================
