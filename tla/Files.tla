------------------------------- MODULE Files -------------------------------
(***************************************************************************)
(* The file interface of the kernel: a process's descriptor table          *)
(* (kernel/src/fs/fd.rs), the mount table that dispatches paths            *)
(* (fs/vfs.rs), the device file system and its two kinds of files          *)
(* (fs/dev/).  Regular files are handles of Fat32: each open makes one,    *)
(* with a size of its own.                                                 *)
(*                                                                         *)
(* A path is a sequence of tokens such that one path is a prefix of        *)
(* another, token by token, exactly when it is so character by character.  *)
(* A call that fails changes nothing and is no step, except write_error.   *)
(***************************************************************************)
EXTENDS Integers, FiniteSets, Sequences, SequencesExt, FiniteSetsExt

CONSTANTS Nil,             \* None
          Opens,           \* what open is asked for: [path, cloexec, access]
          Mounts,          \* what can be mounted: [prefix, fs]
          RootFiles,       \* names the root file system knows
          Devices,         \* device files to register: [name, file]
          RootSize,        \* size of a regular file in its directory entry
          FbSize,          \* pitch * height of the framebuffer
          BufLens,         \* lengths of read and write buffers
          SeekOffsets,     \* signed offsets given to seek
          MaxFds, MaxOpen,           \* bounds: length of the table, open files,
          MaxMoved, MaxOffset,       \* descriptors away from offset 0, offsets
          MaxFlagged, MaxHandles     \* with CLOEXEC, handles of regular files

VARIABLES fds,       \* FileDescriptorTable::fds: a sequence of descriptor or Nil
          mounts,    \* VirtFS::mounts: a sequence of prefix and file system
          devices,   \* DevFs::devices: [registered names -> file]
          size,      \* size of each open handle of a regular file
          touched    \* bytes of the framebuffer the last transfer touched

vars == <<fds, mounts, devices, size, touched>>

\* A file object: the console, the framebuffer, or a handle of a regular file.
Uart == [kind |-> "uart", id |-> 0]
Fb == [kind |-> "fb", id |-> 0]
Handle(i) == [kind |-> "regular", id |-> i]

\* DevFs holds device files only.
FilesConstants ==
  /\ \A o \in Opens : o.cloexec \in BOOLEAN /\ o.access \subseteq {"READ", "WRITE", "APPEND"}
  /\ \A d \in Devices : d.file \in {Uart, Fb}
  /\ RootSize \in Nat /\ FbSize \in Nat /\ BufLens \subseteq Nat
  /\ SeekOffsets \subseteq Int
  /\ MaxFds \in Nat /\ MaxOpen \in Nat /\ MaxMoved \in Nat /\ MaxFlagged \in Nat
  /\ MaxOffset \in Nat /\ MaxHandles \in Nat

(*** fd.rs: the table ******************************************************)

\* FileDescriptor::new
NewDescriptor(file, cloexec, access) ==
  [file |-> file, cloexec |-> cloexec, access |-> access, offset |-> 0]

\* get: descriptor number n is at index n + 1.
IsOpen(n) == n + 1 \in DOMAIN fds /\ fds[n + 1] # Nil
Fd(n) == fds[n + 1]

\* alloc, were the holes never reused.
alloc_at_end(table, d) == Append(table, d)

\* alloc: the first empty slot, or a new one at the end.
alloc(table, d) ==
  LET empty == {i \in DOMAIN table : table[i] = Nil}
  IN IF empty = {} THEN Append(table, d) ELSE [table EXCEPT ![Min(empty)] = d]

\* dup2's loop that grows the table until it has a slot for number n.
Grown(table, n) == table \o [i \in 1 .. n + 1 - Len(table) |-> Nil]

(*** vfs.rs: dispatch ******************************************************)

StripSlash(path) == IF path # << >> /\ Head(path) = "/" THEN Tail(path) ELSE path
StripPrefix(path, prefix) == StripSlash(SubSeq(path, Len(prefix) + 1, Len(path)))

\* The loop over the mounts: a later one replaces the best one only if longer.
Better(best, mount, path) ==
  IF IsPrefix(mount.prefix, path) /\ (best = Nil \/ Len(mount.prefix) > Len(best.prefix))
  THEN mount ELSE best
dispatch(path) == FoldLeft(LAMBDA best, mount : Better(best, mount, path), Nil, mounts)

\* The file that open of a file system gives for what is left of the path, or
\* Nil.  The root file system makes a handle; DevFs trims every leading slash.
Trimmed(path) == IF \A i \in DOMAIN path : path[i] = "/" THEN << >>
                 ELSE SubSeq(path, Min({i \in DOMAIN path : path[i] # "/"}), Len(path))
OpenIn(fs, rest) ==
  IF fs = "root" THEN IF rest \in RootFiles THEN Handle(Len(size) + 1) ELSE Nil
  ELSE IF Trimmed(rest) \in DOMAIN devices THEN devices[Trimmed(rest)] ELSE Nil

(*** dev/: what a transfer of len bytes at an offset does to each file *****)

SizeOf(file) == CASE file = Uart -> 0
                  [] file = Fb -> FbSize
                  [] OTHER -> size[file.id]

\* The count, were the buffer not cut at the end of the framebuffer.
FbCountUnclamped(len, offset) == len

\* FrameBufferFile: validate_offset, and the number of bytes copied.
ValidOffset(file, offset) == file = Fb => offset <= FbSize
FbCount(len, offset) == Min({len, Max({FbSize - offset, 0})})

ReadCount(file, len, offset) ==
  CASE file = Uart -> len
    [] file = Fb -> FbCount(len, offset)
    [] OTHER -> Min({len, Max({size[file.id] - offset, 0})})
WriteCount(file, len, offset) == IF file = Fb THEN FbCount(len, offset) ELSE len

Touch(file, offset, n) ==
  touched' = IF file = Fb THEN offset .. offset + n - 1 ELSE {}

(*** Operations ***********************************************************)

\* FileDescriptorTable::new, an empty VirtFS and an empty DevFs.
Init == /\ fds = << NewDescriptor(Uart, FALSE, {"READ"}),
                    NewDescriptor(Uart, FALSE, {"WRITE"}),
                    NewDescriptor(Uart, FALSE, {"WRITE"}) >>
        /\ mounts = << >>
        /\ devices = << >>
        /\ size = << >>
        /\ touched = {}

\* VirtFS::open, then alloc in the table of the process.
open(path, cloexec, access) ==
  LET best == dispatch(path)
      file == IF best = Nil THEN Nil ELSE OpenIn(best.fs, StripPrefix(path, best.prefix))
  IN /\ file # Nil
     /\ fds' = alloc(fds, NewDescriptor(file, cloexec, access))
     /\ size' = IF file.kind = "regular" THEN Append(size, RootSize) ELSE size
     /\ touched' = {}
     /\ UNCHANGED <<mounts, devices>>

close(n) == /\ IsOpen(n)
            /\ fds' = [fds EXCEPT ![n + 1] = Nil]
            /\ touched' = {}
            /\ UNCHANGED <<mounts, devices, size>>

dup(old) == /\ IsOpen(old)
            /\ fds' = alloc(fds, NewDescriptor(Fd(old).file, Fd(old).cloexec, Fd(old).access))
            /\ touched' = {}
            /\ UNCHANGED <<mounts, devices, size>>

\* dup2 returns at once, without looking, when the two numbers are equal.
dup2(old, new) ==
  /\ old # new /\ IsOpen(old)
  /\ fds' = [Grown(fds, new) EXCEPT ![new + 1] =
               NewDescriptor(Fd(old).file, Fd(old).cloexec, Fd(old).access)]
  /\ touched' = {}
  /\ UNCHANGED <<mounts, devices, size>>

close_on_exec ==
  /\ fds' = [i \in DOMAIN fds |-> IF fds[i] # Nil /\ fds[i].cloexec THEN Nil ELSE fds[i]]
  /\ touched' = {}
  /\ UNCHANGED <<mounts, devices, size>>

set_cloexec(n, enabled) ==
  /\ IsOpen(n)
  /\ fds' = [fds EXCEPT ![n + 1].cloexec = enabled]
  /\ touched' = {}
  /\ UNCHANGED <<mounts, devices, size>>

read(n, len) ==
  LET count == ReadCount(Fd(n).file, len, Fd(n).offset)
  IN /\ IsOpen(n) /\ "READ" \in Fd(n).access
     /\ ValidOffset(Fd(n).file, Fd(n).offset)
     /\ Fd(n).offset + count <= MaxOffset
     /\ fds' = [fds EXCEPT ![n + 1].offset = @ + count]
     /\ Touch(Fd(n).file, Fd(n).offset, count)
     /\ UNCHANGED <<mounts, devices, size>>

\* Where write puts its bytes: at the end if the descriptor appends.
WriteOffset(d) == IF "APPEND" \in d.access THEN SizeOf(d.file) ELSE d.offset

write(n, len) ==
  LET at == WriteOffset(Fd(n))
      count == WriteCount(Fd(n).file, len, at)
  IN /\ IsOpen(n) /\ "WRITE" \in Fd(n).access
     /\ ValidOffset(Fd(n).file, at)
     /\ at + count <= MaxOffset
     /\ fds' = [fds EXCEPT ![n + 1].offset = at + count]
     /\ size' = IF Fd(n).file.kind = "regular" /\ count > 0 /\ at + count > size[Fd(n).file.id]
                THEN [size EXCEPT ![Fd(n).file.id] = at + count] ELSE size
     /\ Touch(Fd(n).file, at, count)
     /\ UNCHANGED <<mounts, devices>>

\* A write that fails has still moved an appending descriptor to the end, and
\* may have extended a regular file (Fat32File::write sets the size first).
write_error(n, len) ==
  LET at == WriteOffset(Fd(n))
  IN /\ IsOpen(n) /\ "WRITE" \in Fd(n).access
     /\ Fd(n).file # Fb \/ ~ ValidOffset(Fd(n).file, at)
     /\ fds' = [fds EXCEPT ![n + 1].offset = at]
     /\ \/ UNCHANGED size
        \/ /\ Fd(n).file.kind = "regular" /\ at + len \in size[Fd(n).file.id] + 1 .. MaxOffset
           /\ size' = [size EXCEPT ![Fd(n).file.id] = at + len]
     /\ touched' = {}
     /\ UNCHANGED <<mounts, devices>>

seek(n, whence, offset) ==
  LET from == CASE whence = "Start" -> 0
                [] whence = "Current" -> Fd(n).offset
                [] whence = "End" -> SizeOf(Fd(n).file)
  IN /\ IsOpen(n)
     /\ from + offset <= MaxOffset
     /\ fds' = [fds EXCEPT ![n + 1].offset = Max({from + offset, 0})]
     /\ touched' = {}
     /\ UNCHANGED <<mounts, devices, size>>

\* VirtFS::init forgets every mount and mounts the root.
init == /\ mounts' = << [prefix |-> <<"/">>, fs |-> "root"] >>
        /\ touched' = {}
        /\ UNCHANGED <<fds, devices, size>>

mount_fs(prefix, fs) ==
  /\ \A i \in DOMAIN mounts : mounts[i].prefix # prefix
  /\ mounts' = Append(mounts, [prefix |-> prefix, fs |-> fs])
  /\ touched' = {}
  /\ UNCHANGED <<fds, devices, size>>

umount(prefix) ==
  /\ \E i \in DOMAIN mounts : mounts[i].prefix = prefix
  /\ mounts' = RemoveAt(mounts, SelectInSeq(mounts, LAMBDA m : m.prefix = prefix))
  /\ touched' = {}
  /\ UNCHANGED <<fds, devices, size>>

register_device(name, file) ==
  /\ devices' = [m \in DOMAIN devices \cup {name} |-> IF m = name THEN file ELSE devices[m]]
  /\ touched' = {}
  /\ UNCHANGED <<fds, mounts, size>>

Numbers == 0 .. MaxFds - 1

\* The bounds of the instance.
Counted(P(_)) == Cardinality({i \in DOMAIN fds' : fds'[i] # Nil /\ P(fds'[i])})
Bounded == /\ Len(fds') <= MaxFds /\ Len(size') <= MaxHandles
           /\ Counted(LAMBDA d : TRUE) <= MaxOpen
           /\ Counted(LAMBDA d : d.offset # 0) <= MaxMoved
           /\ Counted(LAMBDA d : d.cloexec) <= MaxFlagged

Calls == \/ \E o \in Opens : open(o.path, o.cloexec, o.access)
         \/ \E n \in Numbers : close(n) \/ dup(n)
         \/ \E n, m \in Numbers : dup2(n, m)
         \/ close_on_exec
         \/ \E n \in Numbers, b \in BOOLEAN : set_cloexec(n, b)
         \/ \E n \in Numbers, len \in BufLens : read(n, len) \/ write(n, len) \/ write_error(n, len)
         \/ \E n \in Numbers, w \in {"Start", "Current", "End"}, o \in SeekOffsets : seek(n, w, o)
         \/ init
         \/ \E m \in Mounts : mount_fs(m.prefix, m.fs)
         \/ \E m \in Mounts : umount(m.prefix)
         \/ \E d \in Devices : register_device(d.name, d.file)

Next == Calls /\ Bounded

Spec == Init /\ [][Next]_vars

(*** Properties ************************************************************)

\* Whatever the sequence of seeks, appends, dups and transfers, a transfer of
\* a framebuffer file touches bytes of the framebuffer only: the two checks,
\* of the offset and of the count, leave no gap (framebuffer_file.rs).
FramebufferInBounds == touched \subseteq 0 .. FbSize - 1
=============================================================================
