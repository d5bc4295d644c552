------------------------------- MODULE MCFat32 -------------------------------
(* Two files of one cluster each on a volume of six clusters. *)
EXTENDS Fat32, TLC

CONSTANTS t1, t2
TwoThreads == {t1, t2}

MCStartOf == "a" :> 2 @@ "b" :> 3
MCSizeOf == "a" :> 1 @@ "b" :> 2

\* A handle for each file.
OneHandleEach == "ha" :> "a" @@ "hb" :> "b"

\* A file that was opened twice.
TwoHandles == "ha" :> "a" @@ "ha2" :> "a"

\* A byte, a byte and its neighbour in the next cluster, and two clusters more.
MCRanges == {<<0, 1>>, <<1, 2>>, <<2, 4>>}
=============================================================================
