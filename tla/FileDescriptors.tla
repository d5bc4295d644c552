-------------------------- MODULE FileDescriptors --------------------------
(***************************************************************************)
(* What fs/fd.rs and fs/vfs.rs promise a process: its open files are a     *)
(* partial function from numbers to descriptors, a new descriptor gets the *)
(* lowest number that is free and starts at offset 0, and a path belongs   *)
(* to the mounted file system with the longest matching prefix.  Files     *)
(* implements this with vectors that are scanned in order.                 *)
(***************************************************************************)
EXTENDS Integers, FiniteSets, Sequences, SequencesExt

CONSTANTS Fds,          \* numbers a process may ask for
          Paths,        \* the paths of the instance, as sequences of tokens
          Names,        \* [file system -> [what is left of a path -> files]]
          Modes         \* open modes: records of cloexec and access

VARIABLES opened,         \* [open numbers -> descriptor]
          mounted       \* [prefix -> file system]

avars == <<opened, mounted>>

AInit == /\ DOMAIN opened = {0, 1, 2}
         /\ \A n \in DOMAIN opened : opened[n].offset = 0
         /\ mounted = << >>

Lowest == CHOOSE n \in 0 .. Cardinality(DOMAIN opened) :
            n \notin DOMAIN opened /\ 0 .. n - 1 \subseteq DOMAIN opened

\* f with n bound to d, and f restricted to s.
With(f, n, d) == [m \in DOMAIN f \cup {n} |-> IF m = n THEN d ELSE f[m]]
Only(f, s) == [m \in DOMAIN f \cap s |-> f[m]]

\* The files a path may name, given what is mounted.
Reached(path) ==
  LET fits == {p \in DOMAIN mounted : IsPrefix(p, path)}
      best == CHOOSE p \in fits : \A q \in fits : Len(q) <= Len(p)
      rest == SubSeq(path, Len(best) + 1, Len(path))
      name == IF rest # << >> /\ Head(rest) = "/" THEN Tail(rest) ELSE rest
  IN IF fits = {} \/ name \notin DOMAIN Names[mounted[best]] THEN {}
     ELSE Names[mounted[best]][name]

Mount == \/ DOMAIN mounted' = {<<"/">>}
         \/ \E p \in DOMAIN mounted : mounted' = Only(mounted, DOMAIN mounted \ {p})
         \/ \E p \in DOMAIN mounted' \ DOMAIN mounted :
              mounted' = With(mounted, p, mounted'[p])
Transfer == /\ DOMAIN opened' = DOMAIN opened
            /\ \E n \in DOMAIN opened :
                 /\ opened'[n].offset \in Nat
                 /\ opened' = [opened EXCEPT ![n].offset = opened'[n].offset]
SetFlags == /\ DOMAIN opened' = DOMAIN opened
            /\ \E n \in DOMAIN opened :
                 opened' = [opened EXCEPT ![n].cloexec = ~ @]
Close == \E n \in DOMAIN opened \ DOMAIN opened' :
           opened' = Only(opened, DOMAIN opened \ {n})
Exec == opened' = Only(opened, {n \in DOMAIN opened : ~ opened[n].cloexec})
Dup == \E m \in DOMAIN opened' \cap ({Lowest} \cup Fds) :
         /\ DOMAIN opened' = DOMAIN opened \cup {m}
         /\ opened'[m].offset = 0
         /\ \E n \in DOMAIN opened \ {m} :
              opened' = With(opened, m, [opened[n] EXCEPT !.offset = 0])
Open == /\ DOMAIN opened' = DOMAIN opened \cup {Lowest}
        /\ \E path \in Paths, mode \in Modes : \E file \in Reached(path) :
             opened' = With(opened, Lowest, [file |-> file, cloexec |-> mode.cloexec,
                                             access |-> mode.access, offset |-> 0])

ANext == \/ Mount /\ UNCHANGED opened
         \/ UNCHANGED mounted /\ (Transfer \/ SetFlags \/ Close \/ Exec \/ Dup \/ Open)

ASpec == AInit /\ [][ANext]_avars
=============================================================================
