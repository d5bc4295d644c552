----------------------------- MODULE FileSystem -----------------------------
(***************************************************************************)
(* Files as their callers see them: by number, through the descriptor      *)
(* table and the mounts, and by name, in the directories of FAT32.  All    *)
(* that the first takes from a lookup is whether it succeeds, so the two   *)
(* share nothing, a behaviour is about one of them, and part says which.   *)
(***************************************************************************)
EXTENDS Integers

CONSTANTS \* the descriptors, the mounts and the device files (Files)
          Nil, Opens, Mounts, RootFiles, Devices, RootSize, FbSize, BufLens, SeekOffsets,
          MaxFds, MaxOpen, MaxMoved, MaxOffset, MaxFlagged, MaxHandles,
          \* the directories (FatDirectory)
          Root, Volumes, DirPaths, Fold

VARIABLES part,
          fds, mounts, devices, sizes, touched,
          volume, lookup

Vfs == INSTANCE Files WITH size <- sizes
fdVars == <<fds, mounts, devices, sizes, touched>>

Directory == INSTANCE FatDirectory WITH Paths <- DirPaths, None <- Nil, last <- lookup
dirVars == <<volume, lookup>>

ASSUME FilesAssumption == Vfs!FilesConstants

FilesInit == /\ Vfs!Init
             /\ \/ part = "numbers" /\ volume = << >> /\ lookup = Directory!NoLookup
                \/ part = "names" /\ Directory!Init
NumberStep == part = "numbers" /\ Vfs!Next /\ UNCHANGED <<part, dirVars>>
NameStep == part = "names" /\ Directory!Next /\ UNCHANGED <<part, fdVars>>
FilesSpec == FilesInit /\ [][NumberStep \/ NameStep]_<<part, fdVars, dirVars>>
-----------------------------------------------------------------------------
\* A transfer of a framebuffer file touches bytes of the framebuffer only
\* (framebuffer_file.rs).
FramebufferInBounds == Vfs!FramebufferInBounds

\* The table with its holes and the list of mounts behave like partial maps,
\* with lowest-number allocation and a longest-prefix rule (fd.rs, vfs.rs).
Descriptors ==
  INSTANCE FileDescriptors WITH
    Fds <- 0 .. MaxFds - 1,
    Paths <- {o.path : o \in Opens},
    Modes <- {[cloexec |-> o.cloexec, access |-> o.access] : o \in Opens},
    Names <- [fs \in {"root", "dev"} |->
                IF fs = "root" THEN [r \in RootFiles |-> {Vfs!Handle(i) : i \in 1 .. MaxHandles}]
                ELSE [r \in {d.name : d \in Devices} |-> {d.file : d \in Devices}]],
    opened <- [n \in {i - 1 : i \in {j \in DOMAIN fds : fds[j] # Nil}} |-> fds[n + 1]],
    mounted <- [p \in {mounts[i].prefix : i \in DOMAIN mounts} |->
                  LET m == CHOOSE i \in DOMAIN mounts : mounts[i].prefix = p IN mounts[m].fs]
ImplementsDescriptorMap == Descriptors!ASpec

\* open, stat and ls of FAT32 see one tree (fat32.rs).
NamesFound == Directory!NamesFound
=============================================================================
