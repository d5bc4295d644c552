------------------------------ MODULE MCDisplay ------------------------------
(***************************************************************************)
(* Framebuffers: two depths a boot loader may offer and one that is        *)
(* refused, rows with and without padding; one call on a picture whose     *)
(* points all differ.  Text: a screen of two by two cells that scrolls.    *)
(* Mailbox: two queries and the framebuffer request, with an old answer in *)
(* the FIFO or none, and a message of another channel.                     *)
(***************************************************************************)
EXTENDS Display

MCLeftovers == {<< >>, << Property("boot") >>, << Other, Property("boot") >>}

Ch(p, s) == [pos |-> p, size |-> s]
MCTags == {[driver |-> "mb2", fb_type |-> 1, bpp |-> 32, width |-> 5, height |-> 4, pitch |-> 20,
             channels |-> <<Ch(16, 8), Ch(8, 8), Ch(0, 8)>>],
           [driver |-> "mb2", fb_type |-> 1, bpp |-> 16, width |-> 3, height |-> 3, pitch |-> 8,
             channels |-> <<Ch(11, 5), Ch(5, 6), Ch(0, 5)>>],
           [driver |-> "mb2", fb_type |-> 0, bpp |-> 8, width |-> 3, height |-> 3, pitch |-> 3,
             channels |-> <<Ch(11, 5), Ch(5, 6), Ch(0, 5)>>],
           [driver |-> "bcm", bpp |-> 32, width |-> 5, height |-> 4, pitch |-> 24,
             channels |-> <<Ch(16, 8), Ch(8, 8), Ch(0, 8)>>]}
MCInk == <<255, 129, 7>>
=============================================================================
