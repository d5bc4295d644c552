------------------------------ MODULE MCFiles ------------------------------
(***************************************************************************)
(* The constants of the run about files.                                   *)
(* Descriptors: /dev is mounted beside the root; /device is a path that    *)
(* starts with the same characters, and /dev/fb reaches the framebuffer    *)
(* file of DevFs.  Names: a root directory of two sectors with two entries *)
(* each and a directory of one sector, with every mix of entries in which  *)
(* names differ, and anything behind the end.                              *)
(***************************************************************************)
EXTENDS FileSystem, SequencesExt, TLC

MCOpens == {[path |-> <<"/", "dev", "/", "fb">>, cloexec |-> TRUE, access |-> {"READ", "WRITE"}],
            [path |-> <<"/", "dev", "ice">>, cloexec |-> FALSE, access |-> {"WRITE", "APPEND"}]}
MCMounts == {[prefix |-> <<"/", "dev">>, fs |-> "dev"]}
MCRootFiles == {<<"dev", "ice">>}
MCFb == [kind |-> "fb", id |-> 0]
MCDevices == {[name |-> <<"fb">>, file |-> MCFb]}
MCSeekOffsets == {2, -1}

Raw(first, name, attr, cluster, bytes) ==
  [first |-> first, name |-> name, attr |-> attr, cluster |-> cluster, size |-> bytes]
EndMark == Raw("end", "A", {}, 0, 0)
FileA == Raw("name", "A", {}, 4, 1)
DeletedA == Raw("deleted", "A", {}, 4, 1)
LongA == Raw("name", "A", {"VolumeId"}, 0, 0)
EmptyB == Raw("name", "B", {}, 0, 0)
BrokenB == Raw("name", "B", {}, 0, 1)
DirD == Raw("name", "D", {"Directory"}, 3, 0)
Dot == Raw("name", ".", {"Directory"}, 3, 0)

\* The entries of a directory, sector after sector, and its names before its end.
Distinct(s) == \A i, j \in DOMAIN s :
                 /\ i < j /\ s[i] = s[j] => s[i] \notin {FileA, EmptyB, DirD, Dot}
                 /\ {s[i], s[j]} # {EmptyB, BrokenB}
RootEntries == {s \in [1 .. 4 -> {EndMark, FileA, DeletedA, LongA, EmptyB, BrokenB, DirD}] :
                  LET e == SelectInSeq(s, LAMBDA x : x = EndMark)
                  IN  Distinct(SubSeq(s, 1, IF e = 0 THEN 4 ELSE e - 1))}
SubEntries == {<<Dot, x>> : x \in {EndMark, DeletedA, FileA, EmptyB}}
MCVolumes == {2 :> <<SubSeq(s, 1, 2), SubSeq(s, 3, 4)>> @@ 3 :> <<t>> : s \in RootEntries, t \in SubEntries}

MCDirPaths == {<<>>, <<"a">>, <<"b">>, <<"D">>, <<"d", "A">>, <<"d", ".">>, <<"a", "b">>}
MCFold == [n \in {"a", "A", "b", "B", "d", "D", "."} |->
             CASE n = "A" -> "a" [] n = "B" -> "b" [] n = "D" -> "d" [] OTHER -> n]
=============================================================================
