-------------------------------- MODULE Fat32 --------------------------------
(***************************************************************************)
(* Files of the FAT32 file system (kernel/src/fs/fat/fat32.rs): threads    *)
(* read and write through handles (Fat32File), which extend the file's     *)
(* chain of clusters when they write past its end.  io_lock belongs to a   *)
(* handle, the size a handle sees is its own, and fat_lock covers one      *)
(* alloc_cluster or link_cluster at a time.  A step is one write to the    *)
(* block device, which may fail; and the machine may stop between any two  *)
(* of them.                                                                *)
(*                                                                         *)
(* A cluster is one sector of ClusterBytes bytes; a byte is the number of  *)
(* the write that put it there, 0 for what was on the disk before.  A      *)
(* chain is read in one step: get_chain takes fat_lock for each entry, but *)
(* chains only grow, so the read of its last entry stands for all of them. *)
(***************************************************************************)
EXTENDS Integers, SequencesExt, FiniteSetsExt

CONSTANTS TotalClusters,  \* FatInfo.total_clusters
          NumFats,        \* FatInfo.num_fats
          ClusterBytes,   \* bytes_per_sector * sectors_per_cluster
          StartOf,        \* first cluster of each file, from its directory entry
          SizeOf,         \* size of each file, from its directory entry
          FileOf,         \* the file each handle is open on
          Threads,
          Ranges,         \* the offsets and lengths that are written
          MaxCalls,       \* bound on the calls of read and write
          MaxFailures     \* bound on device errors and restarts

Files == DOMAIN StartOf
Handles == DOMAIN FileOf
Copies == 1 .. NumFats

\* Data clusters are numbered from 2.
Clusters == 2 .. TotalClusters + 1

FREE == 0
EOC == TotalClusters + 2

ASSUME FatAssumption ==
  /\ TotalClusters \in Nat /\ NumFats \in Nat \ {0} /\ ClusterBytes \in Nat \ {0}
  /\ StartOf \in [Files -> Clusters] /\ SizeOf \in [Files -> 0 .. ClusterBytes]
  /\ FileOf \in [Handles -> Files]
  /\ \A f, g \in Files : StartOf[f] = StartOf[g] => f = g
  /\ Ranges \subseteq Nat \X Nat /\ MaxCalls \in Nat /\ MaxFailures \in Nat
  /\ "none" \notin Threads

VARIABLES fat,       \* the FAT copies on disk
          disk,      \* the data clusters
          size,      \* Fat32File.size of each handle
          op,        \* the call in progress of each thread
          fat_lock,  \* the thread that holds it
          calls,     \* calls of read and write so far
          failures,  \* device errors and restarts so far
          contents   \* what each byte of a file may hold, from the writes done

vars == <<fat, disk, size, op, fat_lock, calls, failures, contents>>
-----------------------------------------------------------------------------
Idle == [pc |-> "idle"]
NoThread == "none"

\* The first i entries after cluster c of FAT copy 1.
Nth(c) == LET nth[i \in 0 .. TotalClusters] ==
                IF i = 0 THEN c
                ELSE LET cur == nth[i - 1] IN IF cur \in Clusters THEN fat[1][cur] ELSE cur
          IN  nth

\* get_chain.
get_chain(c) ==
  LET nth == Nth(c)
      n == Cardinality({i \in 0 .. TotalClusters : nth[i] \in Clusters})
  IN  [i \in 1 .. n |-> nth[i - 1]]

ChainOf(f) == get_chain(StartOf[f])

Start(h) == StartOf[FileOf[h]]

ClustersFor(bytes) == (bytes + ClusterBytes - 1) \div ClusterBytes

\* What read finds as byte i of a file with this chain.
ByteAt(chain, i) == disk[chain[(i \div ClusterBytes) + 1]][i % ClusterBytes]

Init == /\ fat = [k \in Copies |-> [c \in Clusters |->
                    IF \E f \in Files : StartOf[f] = c THEN EOC ELSE FREE]]
        /\ disk = [c \in Clusters |-> [i \in 0 .. ClusterBytes - 1 |-> 0]]
        /\ size = [h \in Handles |-> SizeOf[FileOf[h]]]
        /\ op = [t \in Threads |-> Idle]
        /\ fat_lock = NoThread
        /\ calls = 0 /\ failures = 0
        /\ contents = [f \in Files |-> [i \in 0 .. ClusterBytes * TotalClusters - 1 |-> {0}]]

Owns(t) == IF fat_lock = t THEN NoThread ELSE fat_lock

\* The write of thread t ends; its guards are dropped.
Return(t) == op' = [op EXCEPT ![t] = Idle] /\ fat_lock' = Owns(t)

\* The data loop of write starts with a fresh chain.
EnterData(o) == [pc |-> "data", h |-> o.h, from |-> o.from, to |-> o.to, v |-> o.v, over |-> o.over,
                 pos |-> o.from, chain |-> get_chain(Start(o.h)), buf |-> <<>>]

\* Wrong: a handle lets everyone in.
IoLockFreeAlways(h) == TRUE

\* io_lock.write() and io_lock.read() of the handle.
IoLockFree(h) == \A t \in Threads : op[t] # Idle => op[t].h # h
IoLockShared(h) == \A t \in Threads : op[t] # Idle /\ op[t].h = h => op[t].pc = "read"

\* What the bytes from .. to - 1 of the handle's file may hold from now on.
Put(h, from, to, Op(_)) ==
  [contents EXCEPT ![FileOf[h]] =
     [i \in DOMAIN @ |-> IF i \in from .. to - 1 THEN Op(@[i]) ELSE @[i]]]

\* The calls, and the first state of the disk, that are over for the file: a
\* write that starts now replaces what they wrote.
Writing(t, f) == op[t].pc \notin {"idle", "read"} /\ FileOf[op[t].h] = f
Over(f) == 0 .. calls \ {op[t].v : t \in {u \in Threads : Writing(u, f)}}

\* Fat32File::write, up to the first cluster that has to be added.
write(t, h, from, len) ==
  LET new_size == from + len
      o == [h |-> h, from |-> from, to |-> new_size, v |-> calls + 1, over |-> Over(FileOf[h])]
      chain == get_chain(Start(h))
      missing == ClustersFor(new_size) - Len(chain)
  IN  /\ op[t] = Idle /\ IoLockFree(h) /\ calls < MaxCalls
      /\ calls' = calls + 1
      /\ contents' = Put(h, from, new_size, LAMBDA before : before \cup {calls + 1})
      /\ IF new_size > size[h] /\ missing > 0
           THEN /\ op' = [op EXCEPT ![t] = [pc |-> "alloc", h |-> h, from |-> from, to |-> new_size,
                                            v |-> calls + 1, over |-> Over(FileOf[h]),
                                            last |-> chain[Len(chain)], missing |-> missing,
                                            new |-> FREE, todo |-> <<>>]]
                /\ UNCHANGED size
           ELSE /\ op' = [op EXCEPT ![t] = EnterData(o)]
                /\ size' = [size EXCEPT ![h] = IF new_size > @ THEN new_size ELSE @]
      /\ UNCHANGED <<fat, disk, fat_lock, failures>>

\* write_fat_entry_unlocked: the entry in every copy, the first one first.
FatWrites(c, value) == [k \in Copies |-> [copy |-> k, at |-> c, value |-> value]]

\* The clusters alloc_cluster looks at: not the last two.
Searched == 2 .. TotalClusters - 1

\* alloc_cluster takes fat_lock and finds the first free cluster.
alloc_cluster(t) ==
  \E c \in Searched :
    /\ op[t].pc = "alloc" /\ fat_lock = NoThread
    /\ fat[1][c] = FREE /\ \A d \in 2 .. c - 1 : fat[1][d] # FREE
    /\ fat_lock' = t
    /\ op' = [op EXCEPT ![t].pc = "mark", ![t].new = c, ![t].todo = FatWrites(c, EOC)]
    /\ UNCHANGED <<fat, disk, size, calls, failures, contents>>

\* Wrong: a full disk is searched again and again.
disk_full_retry(t) == /\ op[t].pc = "alloc" /\ fat_lock = NoThread
                      /\ \A c \in Searched : fat[1][c] # FREE
                      /\ UNCHANGED vars

\* There is none: write answers an error, and the size stays.
disk_full(t) ==
  /\ op[t].pc = "alloc" /\ fat_lock = NoThread
  /\ \A c \in Searched : fat[1][c] # FREE
  /\ Return(t)
  /\ UNCHANGED <<fat, disk, size, calls, failures, contents>>

\* Wrong: the chain is linked through a cluster that is not marked yet.
link_first(t) ==
  /\ op[t].pc = "link" /\ fat_lock = NoThread
  /\ fat_lock' = t
  /\ op' = [op EXCEPT ![t].pc = "join",
                      ![t].todo = FatWrites(op[t].new, op[t].last) \o FatWrites(op[t].last, op[t].new)]
  /\ UNCHANGED <<fat, disk, size, calls, failures, contents>>

\* link_cluster takes fat_lock.
link_cluster(t) ==
  /\ op[t].pc = "link" /\ fat_lock = NoThread
  /\ fat_lock' = t
  /\ op' = [op EXCEPT ![t].pc = "join",
                      ![t].todo = FatWrites(op[t].last, op[t].new) \o FatWrites(op[t].new, EOC)]
  /\ UNCHANGED <<fat, disk, size, calls, failures, contents>>

\* The device writes one FAT sector; after the last of them alloc_cluster or
\* link_cluster returns and extend_file goes on, or is done.
fat_write(t) ==
  LET o == op[t]
      w == Head(o.todo)
      rest == Tail(o.todo)
  IN  /\ o.pc \in {"mark", "join"}
      /\ fat' = [fat EXCEPT ![w.copy][w.at] = w.value]
      /\ fat_lock' = IF rest = <<>> THEN NoThread ELSE t
      /\ op' = [op EXCEPT ![t] =
                  IF rest # <<>> THEN [o EXCEPT !.todo = rest]
                  ELSE IF o.pc = "mark" THEN [o EXCEPT !.pc = "link", !.todo = <<>>]
                  ELSE IF o.missing > 1
                    THEN [o EXCEPT !.pc = "alloc", !.last = o.new, !.missing = @ - 1, !.new = FREE, !.todo = <<>>]
                  ELSE [o EXCEPT !.pc = "extended", !.todo = <<>>]]
      /\ UNCHANGED <<disk, size, calls, failures, contents>>

\* Wrong: the size is rounded up to the clusters that were added.
extended_rounded(t) ==
  /\ op[t].pc = "extended"
  /\ size' = [size EXCEPT ![op[t].h] = (ClustersFor(op[t].to) + 1) * ClusterBytes]
  /\ op' = [op EXCEPT ![t] = EnterData(op[t])]
  /\ UNCHANGED <<fat, disk, fat_lock, calls, failures, contents>>

\* extend_file has returned: set_size, and the chain is read again.
extended(t) == /\ op[t].pc = "extended"
               /\ size' = [size EXCEPT ![op[t].h] = op[t].to]
               /\ op' = [op EXCEPT ![t] = EnterData(op[t])]
               /\ UNCHANGED <<fat, disk, fat_lock, calls, failures, contents>>

Cluster(o) == o.chain[(o.pos \div ClusterBytes) + 1]

\* The bytes of the sector that this turn of the loop writes.
Part(o) == {i \in 0 .. ClusterBytes - 1 :
              LET b == (o.pos \div ClusterBytes) * ClusterBytes + i IN o.pos <= b /\ b < o.to}

More(o) == o.pos < o.to /\ o.pos \div ClusterBytes < Len(o.chain)

\* Wrong: the rest of the sector is not read.
sector_read_none(t) ==
  /\ op[t].pc = "data" /\ More(op[t])
  /\ op' = [op EXCEPT ![t].pc = "sector", ![t].buf = [i \in 0 .. ClusterBytes - 1 |-> 0]]
  /\ UNCHANGED <<fat, disk, size, fat_lock, calls, failures, contents>>

\* The sector is read first when it is not written as a whole.
sector_read(t) ==
  LET o == op[t]
  IN  /\ o.pc = "data" /\ More(o)
      /\ op' = [op EXCEPT ![t].pc = "sector",
                          ![t].buf = IF Part(o) # 0 .. ClusterBytes - 1 THEN disk[Cluster(o)]
                                     ELSE [i \in 0 .. ClusterBytes - 1 |-> 0]]
      /\ UNCHANGED <<fat, disk, size, fat_lock, calls, failures, contents>>

sector_write(t) ==
  LET o == op[t]
  IN  /\ o.pc = "sector"
      /\ disk' = [disk EXCEPT ![Cluster(o)] = [i \in DOMAIN @ |-> IF i \in Part(o) THEN o.v ELSE o.buf[i]]]
      /\ op' = [op EXCEPT ![t].pc = "data", ![t].pos = @ + Cardinality(Part(o)), ![t].buf = <<>>]
      /\ UNCHANGED <<fat, size, fat_lock, calls, failures, contents>>

\* write returns Ok(bytes_written): those bytes are now the file's.
write_done(t) ==
  LET o == op[t]
  IN  /\ o.pc = "data" /\ ~ More(o)
      /\ contents' = Put(o.h, o.from, o.pos, LAMBDA before : before \ o.over)
      /\ Return(t)
      /\ UNCHANGED <<fat, disk, size, calls, failures>>

\* Fat32File::read, of bytes that the handle's size covers.
read(t, h, from, len) ==
  /\ op[t] = Idle /\ IoLockShared(h) /\ calls < MaxCalls /\ from < size[h]
  /\ calls' = calls + 1
  /\ op' = [op EXCEPT ![t] = [pc |-> "read", h |-> h, from |-> from, to |-> Min({from + len, size[h]}),
                               pos |-> from, chain |-> get_chain(Start(h)), got |-> <<>>]]
  /\ UNCHANGED <<fat, disk, size, fat_lock, failures, contents>>
read_sector(t) ==
  LET o == op[t]
      n == Cardinality(Part(o))
  IN  /\ o.pc = "read" /\ More(o)
      /\ op' = [op EXCEPT ![t].pos = @ + n, ![t].got = @ \o [i \in 1 .. n |-> ByteAt(o.chain, o.pos + i - 1)]]
      /\ UNCHANGED <<fat, disk, size, fat_lock, calls, failures, contents>>
read_done(t) == /\ op[t].pc = "read" /\ ~ More(op[t])
                /\ Return(t)
                /\ UNCHANGED <<fat, disk, size, calls, failures, contents>>

\* The device refuses what thread t asked for, and the call answers an error.
io_error(t) == /\ op[t].pc \in {"mark", "join", "data", "sector", "read"} /\ failures < MaxFailures
               /\ failures' = failures + 1
               /\ Return(t)
               /\ UNCHANGED <<fat, disk, size, calls, contents>>

\* The machine stops and boots again: mount, and the files are opened anew.
restart == /\ failures < MaxFailures
           /\ failures' = failures + 1
           /\ op' = [t \in Threads |-> Idle]
           /\ fat_lock' = NoThread
           /\ size' = [h \in Handles |-> SizeOf[FileOf[h]]]
           /\ UNCHANGED <<fat, disk, calls, contents>>

\* A handle is dropped and the file opened again: the directory entry, which
\* no operation writes, still has the first size.
open(h) == /\ IoLockFree(h) /\ size[h] # SizeOf[FileOf[h]]
           /\ size' = [size EXCEPT ![h] = SizeOf[FileOf[h]]]
           /\ UNCHANGED <<fat, disk, op, fat_lock, calls, failures, contents>>

Advance(t) == \/ alloc_cluster(t) \/ disk_full(t) \/ link_cluster(t) \/ fat_write(t)
              \/ extended(t) \/ sector_read(t) \/ sector_write(t) \/ write_done(t)
              \/ read_sector(t) \/ read_done(t)

Next == \/ \E t \in Threads, h \in Handles, r \in Ranges : write(t, h, r[1], r[2]) \/ read(t, h, r[1], r[2])
        \/ \E t \in Threads : Advance(t) \/ io_error(t)
        \/ \E h \in Handles : open(h)
        \/ restart

\* Every thread keeps running; waiting for fat_lock is spinning.
Spec == Init /\ [][Next]_vars /\ \A t \in Threads : WF_vars(Advance(t))
-----------------------------------------------------------------------------
InChain(f) == ToSet(ChainOf(f))

\* Without failures the FAT copies agree whenever fat_lock is free.
CopiesAgree == failures = 0 /\ fat_lock = NoThread => \A k \in Copies : fat[k] = fat[1]

\* Whatever fails, and wherever the machine stops, the chains on disk end, in
\* a cluster marked as their end, and no cluster is in two files: a cluster is
\* marked before it is linked.
ChainsSound ==
  /\ \A f \in Files : Nth(StartOf[f])[TotalClusters] = EOC
  /\ LET chain == [f \in Files |-> InChain(f)]
     IN  \A f, g \in Files : f # g => chain[f] \cap chain[g] = {}
  /\ CopiesAgree

\* Without failures every cluster that is not free is in the chain of a file
\* or in the hands of a thread that is about to link it.
NoClusterLost ==
  LET used == UNION {InChain(f) : f \in Files}
  IN  failures = 0 =>
        \A c \in Clusters : fat[1][c] # FREE =>
          c \in used \/ \E t \in Threads : op[t].pc \in {"mark", "link", "join"} /\ op[t].new = c

\* A byte that a write has put into a file, and that no later write of that
\* byte has replaced, is still there: extending the file, writing the bytes
\* beside it, errors and restarts leave it alone.
BytesKept ==
  \A f \in Files :
    LET chain == ChainOf(f)
    IN  \A i \in 0 .. ClusterBytes * Len(chain) - 1 : ByteAt(chain, i) \in contents[f][i]

\* A read returns all the bytes asked for that the handle's size covers (the
\* chain never ends before the size does), and each as the last write left it,
\* not as it was when the read began.
ReadsSeeWrites ==
  \A t \in Threads : op[t].pc = "read" /\ ~ More(op[t]) =>
    LET o == op[t]
    IN  /\ o.pos = o.to
        /\ \A i \in DOMAIN o.got : o.got[i] \in contents[FileOf[o.h]][o.from + i - 1]

\* Every read and every write returns.
IoReturns == \A t \in Threads : op[t] # Idle ~> op[t] = Idle
=============================================================================
