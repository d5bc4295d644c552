---------------------------- MODULE FatDirectory ----------------------------
(***************************************************************************)
(* Names on a FAT32 volume (kernel/src/fs/fat/fat32.rs): open, stat and ls *)
(* find their way through directories, each a chain of sectors of 32-byte  *)
(* entries.  No operation writes a directory, so a call is one step; the   *)
(* device may fail it at any sector.                                       *)
(*                                                                         *)
(* What is on the volume is arbitrary within the format: entries that were *)
(* deleted, volume labels and parts of long names lie between the others,  *)
(* and anything may follow the entry that ends the directory.  A path is a *)
(* sequence of names, as split('/') leaves it; Fold gives the names that   *)
(* differ in case only one form.                                           *)
(***************************************************************************)
EXTENDS Integers, SequencesExt, FiniteSetsExt

CONSTANTS Root,      \* fat_info.root_cluster
          Volumes,   \* the volumes: [directory -> sequence of sectors of entries]
          Paths,     \* the paths calls are made with
          Fold,      \* to_ascii_lowercase, as eq_ignore_ascii_case uses it
          None

VARIABLES volume,    \* the directories on the device
          last       \* the last call and its answer

dirVars == <<volume, last>>

Failed(e) == [error |-> e]
NoLookup == [op |-> "none"]

\* parse_dir_entry: what a raw entry says, or None.
parse_dir_entry(raw) ==
  IF \/ raw.first = "deleted"
     \/ "VolumeId" \in raw.attr
     \/ raw.name \in {".", ".."}
     \/ raw.cluster < 2 /\ raw.size # 0
  THEN None
  ELSE [name |-> raw.name, first_cluster |-> raw.cluster, size |-> raw.size,
        is_dir |-> "Directory" \in raw.attr]

\* Wrong: the end of the directory ends its sector only.
UpToEnd(sector) ==
  LET ends == {i \in DOMAIN sector : sector[i].first = "end"}
  IN  SubSeq(sector, 1, IF ends = {} THEN Len(sector) ELSE Min(ends) - 1)
RawEntriesOfSectors(d) == FlattenSeq([s \in DOMAIN volume[d] |-> UpToEnd(volume[d][s])])

\* The entries the loops over clusters, sectors and slots look at: those
\* before the first that ends the directory.
RawEntries(d) ==
  LET all == FlattenSeq(volume[d])
      ends == {i \in DOMAIN all : all[i].first = "end"}
  IN  SubSeq(all, 1, IF ends = {} THEN Len(all) ELSE Min(ends) - 1)

\* list_entries
list_entries(d) ==
  SelectSeq([i \in DOMAIN RawEntries(d) |-> parse_dir_entry(RawEntries(d)[i])], LAMBDA e : e # None)

\* find_entry: the first entry of that name.
find_entry(d, name) ==
  LET entries == list_entries(d)
      i == SelectInSeq(entries, LAMBDA e : Fold[e.name] = Fold[name])
  IN  IF i = 0 THEN Failed("NotFound") ELSE entries[i]

IsError(x) == "error" \in DOMAIN x

\* navigate_to_dir: the directory a path ends in, or the first error.
navigate_to_dir(path) ==
  LET enter(dir, name) ==
        IF IsError(dir) THEN dir
        ELSE LET e == find_entry(dir.first_cluster, name)
             IN  IF IsError(e) \/ e.is_dir THEN e ELSE Failed("NotADirectory")
  IN  FoldLeft(enter, [first_cluster |-> Root], path)

\* The entry of a path that is not empty: its directory, and then the name.
Lookup(path) == LET parent == navigate_to_dir(Front(path))
                IN  IF IsError(parent) THEN parent ELSE find_entry(parent.first_cluster, Last(path))

FileOrError(e) == IF ~ IsError(e) /\ e.is_dir THEN Failed("IsADirectory") ELSE e
Names(entries) == [names |-> [i \in DOMAIN entries |-> entries[i].name]]

Init == volume \in Volumes /\ last = NoLookup

Answered(op, path, answer) == /\ last' = [op |-> op, path |-> path, answer |-> answer]
                              /\ UNCHANGED volume

open(path) == Answered("open", path, IF path = <<>> THEN Failed("InvalidPath") ELSE FileOrError(Lookup(path)))

stat(path) == Answered("stat", path, IF path = <<>> THEN [name |-> "", first_cluster |-> Root, size |-> 0, is_dir |-> TRUE]
                                     ELSE Lookup(path))

ls(path) == LET dir == navigate_to_dir(path)
            IN  Answered("ls", path, IF IsError(dir) THEN dir ELSE Names(list_entries(dir.first_cluster)))

\* The device refuses a sector that the call needs.
read_error(op, path) == (path # <<>> \/ op = "ls") /\ Answered(op, path, Failed("ReadError"))

\* Calls do not depend on the ones before; what is checked is each answer.
Next == /\ last = NoLookup
        /\ \E p \in Paths : \/ open(p) \/ stat(p) \/ ls(p)
                            \/ \E op \in {"open", "stat", "ls"} : read_error(op, p)

Spec == Init /\ [][Next]_dirVars
-----------------------------------------------------------------------------
\* Directory d has an entry for a file or directory x in its slot i.
Slots(d) == {<<s, i>> : s \in DOMAIN volume[d], i \in 1 .. Len(volume[d][1])}
Before(a, b) == a[1] < b[1] \/ (a[1] = b[1] /\ a[2] <= b[2])
Holds(d, x) == \E at \in Slots(d) :
                 /\ x = volume[d][at[1]][at[2]]
                 /\ x.first = "name" /\ "VolumeId" \notin x.attr /\ x.name \notin {".", ".."}
                 /\ x.cluster < 2 => x.size = 0
                 /\ \A b \in Slots(d) : Before(b, at) => volume[d][b[1]][b[2]].first # "end"
Held(d) == {x \in UNION {ToSet(volume[d][s]) : s \in DOMAIN volume[d]} : Holds(d, x)}

\* The clusters of the directories, and the entries, that a path leads to.
DirsAt(path) ==
  LET dirs[n \in 0 .. Len(path)] ==
        IF n = 0 THEN {Root}
        ELSE {x.cluster : x \in {y \in UNION {Held(d) : d \in dirs[n - 1]} :
                                   "Directory" \in y.attr /\ Fold[y.name] = Fold[path[n]]}}
  IN  dirs[Len(path)]
NodesAt(path) == {x \in UNION {Held(d) : d \in DirsAt(Front(path))} : Fold[x.name] = Fold[Last(path)]}
Same(x, e) == /\ x.name = e.name /\ x.cluster = e.first_cluster /\ x.size = e.size
              /\ e.is_dir = ("Directory" \in x.attr)

\* Whatever holes, labels and remains the directories have, and whatever lies
\* behind their ends, the three calls see one tree: stat finds exactly what a
\* path names in it, open exactly the files, and ls lists exactly the names
\* stat finds below a directory, each once.
NamesFound ==
  last # NoLookup /\ last.answer # Failed("ReadError") =>
    LET p == last.path
        a == last.answer
        nodes == NodesAt(p)
        files == {x \in nodes : "Directory" \notin x.attr}
    IN  CASE last.op = "ls" ->
               IF DirsAt(p) = {} THEN a \in {Failed("NotFound"), Failed("NotADirectory")}
               ELSE LET held == UNION {Held(d) : d \in DirsAt(p)}
                    IN  ~ IsError(a) /\ ToSet(a.names) = {x.name : x \in held} /\ Len(a.names) = Cardinality(held)
          [] last.op = "stat" /\ p # <<>> ->
               IF nodes = {} THEN IsError(a) ELSE ~ IsError(a) /\ \A x \in nodes : Same(x, a)
          [] last.op = "open" /\ p # <<>> ->
               IF files = {} THEN IsError(a) ELSE ~ IsError(a) /\ \A x \in files : Same(x, a)
          [] OTHER -> IsError(a) = (last.op = "open")
=============================================================================
