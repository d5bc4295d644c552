------------------------- MODULE FileSystem_proofs -------------------------
(***************************************************************************)
(* Proofs about the FAT32 model, for every volume, number of FAT copies,   *)
(* threads, files, handles and sequence of calls, failures and restarts;   *)
(* and, at the end, about the descriptors above it (Files), for any table, *)
(* mounts, device files, buffers and size of the framebuffer.              *)
(***************************************************************************)
EXTENDS Fat32, FileSystem, FiniteSetTheorems, TLAPS

(***************************************************************************)
(* Chains.                                                                 *)
(***************************************************************************)

\* The walk and the chain of get_chain in any table F, as functions of it.
Walk(F, c) == LET nth[i \in 0 .. TotalClusters] ==
                    IF i = 0 THEN c
                    ELSE LET cur == nth[i - 1] IN IF cur \in Clusters THEN F[cur] ELSE cur
              IN  nth
ChainIn(F, c) ==
  LET nth == Walk(F, c)
      n == Cardinality({i \in 0 .. TotalClusters : nth[i] \in Clusters})
  IN  [i \in 1 .. n |-> nth[i - 1]]

\* s is a chain of F that starts at c and ends properly.
IsChain(F, c, s) ==
  /\ s \in Seq(Clusters) /\ Len(s) >= 1 /\ s[1] = c
  /\ \A i \in 1 .. Len(s) - 1 : F[s[i]] = s[i + 1]
  /\ F[s[Len(s)]] = EOC
  /\ \A i, j \in 1 .. Len(s) : s[i] = s[j] => i = j

WalkStep(F, c, f, i) == IF i = 0 THEN c ELSE IF f[i - 1] \in Clusters THEN F[f[i - 1]] ELSE f[i - 1]

\* Every nonempty set of naturals has a least element.
LEMMA LeastNatural ==
  ASSUME NEW T \in SUBSET Nat, T # {}
  PROVE  \E n \in T : \A m \in T : n <= m
<1>1. PICK N \in T : TRUE
  OBVIOUS
<1> DEFINE U == {n \in T : n <= N}
           I == {0 .. n : n \in U}
<1>2. I # {} /\ I \subseteq FiniteSubsetsOf(0 .. N)
  <2>1. \A n \in U : IsFiniteSet(0 .. n)
    BY FS_Interval
  <2> QED BY <1>1, <2>1 DEF FiniteSubsetsOf
<1>3. PICK x \in I : \A y \in I : ~ (<<y, x>> \in StrictSubsetOrdering(0 .. N))
  BY <1>2, WFMin, FS_StrictSubsetOrderingWellFounded
<1>4. PICK n \in U : x = 0 .. n
  OBVIOUS
<1>5. ASSUME NEW m \in T, m < n PROVE FALSE
  <2>1. m \in U /\ 0 .. m \in I
    BY <1>5
  <2>2. n \in 0 .. n /\ n \notin 0 .. m
    BY <1>5
  <2>3. 0 .. m \subseteq 0 .. n /\ 0 .. m # 0 .. n
    BY <2>2, <1>5
  <2>4. 0 .. m \subseteq 0 .. N /\ 0 .. n \subseteq 0 .. N
    BY <2>1
  <2>5. <<0 .. m, 0 .. n>> \in StrictSubsetOrdering(0 .. N)
    BY <2>3, <2>4 DEF StrictSubsetOrdering
  <2> QED BY <2>1, <2>5, <1>3, <1>4
<1> QED BY <1>5

\* The recursive walk is well defined: for every length there is a function
\* that satisfies its equation.
LEMMA WalkExists ==
  ASSUME NEW F, NEW c, NEW n \in Nat
  PROVE  \E f : f = [i \in 0 .. n |-> WalkStep(F, c, f, i)]
<1> DEFINE Bad == {m \in Nat : ~ \E f : f = [i \in 0 .. m |-> WalkStep(F, c, f, i)]}
<1> SUFFICES ASSUME Bad # {} PROVE FALSE
  OBVIOUS
<1>1. PICK m \in Bad : \A k \in Bad : m <= k
  BY LeastNatural
<1>2. m # 0
  <2> DEFINE f == [i \in 0 .. 0 |-> c]
  <2>1. f = [i \in 0 .. 0 |-> WalkStep(F, c, f, i)]
    BY DEF WalkStep
  <2> QED BY <1>1, <2>1
<1>3. m - 1 \in Nat /\ m - 1 \notin Bad
  BY <1>1, <1>2
<1>4. PICK f : f = [i \in 0 .. m - 1 |-> WalkStep(F, c, f, i)]
  BY <1>3
<1> DEFINE g == [i \in 0 .. m |-> IF i = m THEN WalkStep(F, c, f, m) ELSE f[i]]
<1>5. \A i \in 0 .. m : g[i] = WalkStep(F, c, g, i)
  <2> TAKE i \in 0 .. m
  <2>1. CASE i = 0
    <3>1. 0 \in 0 .. m - 1 /\ i # m
      BY <1>2, <1>3, <2>1
    <3>2. f[0] = c
      BY <3>1, <1>4 DEF WalkStep
    <3> QED BY <3>1, <3>2, <2>1 DEF WalkStep
  <2>2. CASE i # 0
    <3>1. i - 1 \in 0 .. m - 1 /\ i - 1 # m /\ g[i - 1] = f[i - 1]
      BY <1>3, <2>2
    <3>2. CASE i = m
      BY <3>1, <3>2 DEF WalkStep
    <3>3. CASE i # m
      <4>1. i \in 0 .. m - 1 /\ g[i] = f[i]
        BY <3>3, <1>3
      <4>2. f[i] = WalkStep(F, c, f, i)
        BY <4>1, <1>4
      <4> QED BY <4>1, <4>2, <3>1 DEF WalkStep
    <3> QED BY <3>2, <3>3
  <2> QED BY <2>1, <2>2
<1> HIDE DEF g
<1>6. g = [i \in 0 .. m |-> WalkStep(F, c, g, i)]
  BY <1>5 DEF g
<1> QED BY <1>1, <1>6

\* What the walk computes, step by step.
LEMMA WalkFacts ==
  ASSUME NEW F, NEW c
  PROVE  /\ Walk(F, c) = [i \in 0 .. TotalClusters |-> WalkStep(F, c, Walk(F, c), i)]
         /\ Walk(F, c)[0] = c
         /\ \A i \in 1 .. TotalClusters :
              Walk(F, c)[i] = IF Walk(F, c)[i - 1] \in Clusters
                              THEN F[Walk(F, c)[i - 1]] ELSE Walk(F, c)[i - 1]
<1>1. Walk(F, c) = CHOOSE f : f = [i \in 0 .. TotalClusters |-> WalkStep(F, c, f, i)]
  BY DEF Walk, WalkStep
<1>2. \E f : f = [i \in 0 .. TotalClusters |-> WalkStep(F, c, f, i)]
  <2>1. TotalClusters \in Nat
    BY FatAssumption
  <2> QED BY <2>1, WalkExists
<1>3. Walk(F, c) = [i \in 0 .. TotalClusters |-> WalkStep(F, c, Walk(F, c), i)]
  BY <1>1, <1>2
<1> DEFINE w == Walk(F, c)
<1> HIDE DEF w
<1>4. \A i \in 0 .. TotalClusters : w[i] = WalkStep(F, c, w, i)
  BY <1>3 DEF w
<1>5. w[0] = c /\ \A i \in 1 .. TotalClusters : w[i] = IF w[i - 1] \in Clusters THEN F[w[i - 1]] ELSE w[i - 1]
  BY <1>4, FatAssumption DEF WalkStep
<1> QED BY <1>3, <1>5 DEF w
\* A chain has no more clusters than the volume.
LEMMA ChainShort ==
  ASSUME NEW F, NEW c, NEW s, IsChain(F, c, s)
  PROVE  Len(s) \in 1 .. TotalClusters
<1>1. s \in [1 .. Len(s) -> Clusters] /\ Len(s) \in Nat
  BY DEF IsChain
<1>2. s \in Injection(1 .. Len(s), Clusters)
  BY <1>1 DEF IsChain, Injection, IsInjective
<1>3. IsFiniteSet(Clusters) /\ Cardinality(Clusters) = TotalClusters
  <2>1. TotalClusters \in Nat
    BY FatAssumption
  <2> QED BY <2>1, FS_Interval DEF Clusters
<1>4. Cardinality(1 .. Len(s)) = Len(s)
  BY <1>1, FS_Interval DEF IsChain
<1>5. Cardinality(1 .. Len(s)) <= Cardinality(Clusters)
  BY <1>2, <1>3, FS_Injection
<1> QED BY <1>1, <1>3, <1>4, <1>5 DEF IsChain

\* The walk runs through a chain and stays at its end mark.
LEMMA WalkChain ==
  ASSUME NEW F, NEW c, NEW s, IsChain(F, c, s)
  PROVE  \A i \in 0 .. TotalClusters : Walk(F, c)[i] = IF i < Len(s) THEN s[i + 1] ELSE EOC
<1> DEFINE w == Walk(F, c)
           OK(i) == w[i] = IF i < Len(s) THEN s[i + 1] ELSE EOC
           Bad == {i \in 0 .. TotalClusters : ~ OK(i)}
<1> SUFFICES ASSUME Bad # {} PROVE FALSE
  OBVIOUS
<1>1. TotalClusters \in Nat /\ Len(s) \in 1 .. TotalClusters
  BY FatAssumption, ChainShort
<1>2. PICK i \in Bad : \A j \in Bad : i <= j
  <2>1. Bad \in SUBSET Nat
    BY <1>1
  <2> QED BY <2>1, LeastNatural
<1>3. i # 0
  BY <1>1, <1>2, WalkFacts DEF IsChain
<1>4. i \in 1 .. TotalClusters /\ i - 1 \in 0 .. TotalClusters /\ OK(i - 1)
  BY <1>1, <1>2, <1>3
<1>5. w[i] = IF w[i - 1] \in Clusters THEN F[w[i - 1]] ELSE w[i - 1]
  BY <1>4, WalkFacts
<1> HIDE DEF w
<1>6. CASE i - 1 < Len(s) - 1
  <2>1. w[i - 1] = s[i] /\ i \in 1 .. Len(s) - 1 /\ i < Len(s)
    BY <1>1, <1>4, <1>6
  <2>2. s[i] \in Clusters /\ F[s[i]] = s[i + 1]
    BY <2>1 DEF IsChain
  <2> QED BY <2>1, <2>2, <1>2, <1>5
<1>7. CASE i - 1 = Len(s) - 1
  <2>1. w[i - 1] = s[i] /\ i = Len(s)
    BY <1>1, <1>4, <1>7
  <2>2. s[i] \in Clusters /\ F[s[i]] = EOC
    BY <2>1 DEF IsChain
  <2> QED BY <2>1, <2>2, <1>2, <1>5
<1>8. CASE i - 1 > Len(s) - 1
  <2>1. w[i - 1] = EOC /\ ~ (i < Len(s))
    BY <1>1, <1>4, <1>8
  <2>2. EOC \notin Clusters
    BY <1>1 DEF EOC, Clusters
  <2> QED BY <2>1, <2>2, <1>2, <1>5
<1> QED BY <1>1, <1>4, <1>6, <1>7, <1>8

\* get_chain finds the chain, and the walk ends at its end mark.
LEMMA ChainFound ==
  ASSUME NEW F, NEW c, NEW s, IsChain(F, c, s)
  PROVE  ChainIn(F, c) = s /\ Walk(F, c)[TotalClusters] = EOC
<1> DEFINE w == Walk(F, c)
<1>1. TotalClusters \in Nat /\ Len(s) \in 1 .. TotalClusters
  BY FatAssumption, ChainShort
<1>2. \A i \in 0 .. TotalClusters : w[i] = IF i < Len(s) THEN s[i + 1] ELSE EOC
  BY WalkChain
<1> HIDE DEF w
<1>3. EOC \notin Clusters
  BY <1>1 DEF EOC, Clusters
<1>4. \A i \in 0 .. TotalClusters : w[i] \in Clusters <=> i < Len(s)
  BY <1>1, <1>2, <1>3 DEF IsChain
<1>5. {i \in 0 .. TotalClusters : w[i] \in Clusters} = 0 .. Len(s) - 1
  BY <1>1, <1>4
<1>6. Cardinality(0 .. Len(s) - 1) = Len(s)
  <2>1. 0 \in Int /\ Len(s) - 1 \in Int /\ ~ (0 > Len(s) - 1)
    BY <1>1
  <2> QED BY <2>1, FS_Interval
<1>7. s = [i \in 1 .. Len(s) |-> w[i - 1]]
  <2>1. \A i \in 1 .. Len(s) : w[i - 1] = s[i]
    BY <1>1, <1>2
  <2>2. s = [i \in 1 .. Len(s) |-> s[i]]
    BY DEF IsChain
  <2> QED BY <2>1, <2>2
<1>8. ChainIn(F, c) = [i \in 1 .. Cardinality({i \in 0 .. TotalClusters : w[i] \in Clusters}) |-> w[i - 1]]
  BY DEF ChainIn, w
<1>9. w[TotalClusters] = EOC
  BY <1>1, <1>2
<1> QED BY <1>5, <1>6, <1>7, <1>8, <1>9 DEF w

\* get_chain and the walk of the model are those of the first FAT copy.
LEMMA ChainOfIn ==
  /\ \A c : get_chain(c) = ChainIn(fat[1], c) /\ Nth(c) = Walk(fat[1], c)
  /\ \A f : ChainOf(f) = ChainIn(fat[1], StartOf[f])
BY DEF ChainOf, get_chain, ChainIn, Nth, Walk
LEMMA ChainOfInNext ==
  /\ \A c : get_chain(c)' = ChainIn(fat'[1], c) /\ Nth(c)' = Walk(fat'[1], c)
  /\ \A f : ChainOf(f)' = ChainIn(fat'[1], StartOf[f])
BY DEF ChainOf, get_chain, ChainIn, Nth, Walk

-----------------------------------------------------------------------------
(***************************************************************************)
(* The invariant: types, locks, chains and the writes that are left.       *)
(***************************************************************************)

FatWrite == [copy : Copies, at : Clusters, value : Nat]
Bytes == [0 .. ClusterBytes - 1 -> Nat]

ExtendOp == [pc : {"alloc", "mark", "link", "join", "extended"}, h : Handles, from : Nat, to : Nat,
             v : Nat, over : SUBSET Nat, last : Clusters, missing : Nat, new : Nat,
             todo : Seq(FatWrite)]
DataOp == {o \in [pc : {"data", "sector"}, h : Handles, from : Nat, to : Nat, v : Nat, over : SUBSET Nat,
                  pos : Nat, chain : Seq(Clusters), buf : {<<>>} \cup Bytes] :
             o.pc = "sector" => o.buf \in Bytes /\ More(o)}
ReadOp == [pc : {"read"}, h : Handles, from : Nat, to : Nat, pos : Nat, chain : Seq(Clusters),
           got : Seq(Nat)]
Op == {Idle} \cup ExtendOp \cup DataOp \cup ReadOp

TypeOK ==
  /\ fat \in [Copies -> [Clusters -> Nat]]
  /\ disk \in [Clusters -> Bytes]
  /\ size \in [Handles -> Nat]
  /\ op \in [Threads -> Op]
  /\ fat_lock \in Threads \cup {NoThread}
  /\ calls \in Nat /\ failures \in Nat
  /\ contents \in [Files -> [0 .. ClusterBytes * TotalClusters - 1 -> SUBSET Nat]]

\* A thread holds fat_lock while it writes FAT sectors, and only then.
Locked == \A t \in Threads : op[t].pc \in {"mark", "join"} <=> fat_lock = t

\* The chains on disk, by file.
Chain == [f \in Files |-> ChainOf(f)]

Has(s, c) == \E i \in 1 .. Len(s) : s[i] = c

Linked(F, C) == /\ \A f \in Files : IsChain(F, StartOf[f], C[f])
                /\ \A f, g \in Files : f # g => \A c \in Clusters : ~ (Has(C[f], c) /\ Has(C[g], c))

\* What is left to write: the marks of a new cluster, and its links.
MarkTodo(o) ==
  /\ Len(o.todo) \in 1 .. NumFats
  /\ \A i \in 1 .. Len(o.todo) :
       o.todo[i] = [copy |-> NumFats - Len(o.todo) + i, at |-> o.new, value |-> EOC]
JoinTodo(o) ==
  /\ Len(o.todo) \in 1 .. NumFats + NumFats
  /\ \A i \in 1 .. Len(o.todo) :
       o.todo[i] = IF NumFats + NumFats - Len(o.todo) + i <= NumFats
                   THEN [copy |-> NumFats + NumFats - Len(o.todo) + i, at |-> o.last, value |-> o.new]
                   ELSE [copy |-> NumFats - Len(o.todo) + i, at |-> o.new, value |-> EOC]

\* The stages of a new cluster: still free in the first copy, marked there and
\* in no chain, linked there.
Fresh(o) == o.pc = "mark" /\ Len(o.todo) = NumFats
Held(o) == \/ o.pc = "mark" /\ Len(o.todo) < NumFats
           \/ o.pc = "link"
           \/ o.pc = "join" /\ Len(o.todo) = NumFats + NumFats
Joined(o) == o.pc = "join" /\ Len(o.todo) < NumFats + NumFats

\* What a call that extends a file relies on, with table F and chains C.
Extends(o, F, C) ==
  /\ o.pc \in {"alloc", "mark", "link", "join"} =>
       /\ F[o.last] # FREE
       /\ \A g \in Files : g # FileOf[o.h] => ~ Has(C[g], o.last)
  /\ o.pc \in {"mark", "link", "join"} => o.new \in Clusters
  /\ o.pc = "mark" => MarkTodo(o)
  /\ o.pc = "join" => JoinTodo(o)
  /\ Fresh(o) => F[o.new] = FREE
  /\ Held(o) => F[o.new] = EOC /\ o.last # o.new /\ \A g \in Files : ~ Has(C[g], o.new)
  /\ Joined(o) => F[o.new] = EOC /\ o.last # o.new /\ \A g \in Files : g # FileOf[o.h] => ~ Has(C[g], o.new)

\* The cluster in the hands of call o is of no use to call q.
NotShared(o, q) ==
  Held(o) => /\ q.pc \in {"alloc", "mark", "link", "join"} => q.last # o.new
             /\ q.pc \in {"mark", "link", "join"} => q.new # o.new

Extending == /\ \A t \in Threads : Extends(op[t], fat[1], Chain)
             /\ \A t, u \in Threads : t # u => NotShared(op[t], op[u])

\* The copies a writer of FAT sectors has not reached yet lag behind.
Lag(o, k) ==
  IF o.pc = "mark"
  THEN /\ \A c \in Clusters \ {o.new} : fat[k][c] = fat[1][c]
       /\ k <= NumFats - Len(o.todo) => fat[k][o.new] = EOC
  ELSE /\ \A c \in Clusters \ {o.last, o.new} : fat[k][c] = fat[1][c]
       /\ k <= NumFats + NumFats - Len(o.todo) => fat[k][o.last] = o.new
       /\ fat[k][o.new] = EOC

Synced == failures = 0 => /\ CopiesAgree
                          /\ \A t \in Threads : op[t].pc \in {"mark", "join"} =>
                               \A k \in Copies : Lag(op[t], k)

GInv == TypeOK /\ Locked /\ Linked(fat[1], Chain) /\ Extending /\ Synced

LEMMA OpKinds ==
  ASSUME NEW o \in Op
  PROVE  /\ o.pc = "idle" <=> o = Idle
         /\ o.pc \in {"alloc", "mark", "link", "join", "extended"} <=> o \in ExtendOp
         /\ o.pc \in {"data", "sector"} <=> o \in DataOp
         /\ o.pc = "read" <=> o \in ReadOp
         /\ o.pc \in {"idle", "alloc", "mark", "link", "join", "extended", "data", "sector", "read"}
<1>1. o = Idle \/ o \in ExtendOp \/ o \in DataOp \/ o \in ReadOp
  BY DEF Op
<1>2. o = Idle => o.pc = "idle"
  BY DEF Idle
<1>3. o \in ExtendOp => o.pc \in {"alloc", "mark", "link", "join", "extended"}
  BY DEF ExtendOp
<1>4. o \in DataOp => o.pc \in {"data", "sector"}
  BY DEF DataOp
<1>5. o \in ReadOp => o.pc = "read"
  BY DEF ReadOp
<1> QED BY <1>1, <1>2, <1>3, <1>4, <1>5

LEMMA FatFacts ==
  /\ TotalClusters \in Nat /\ NumFats \in Nat \ {0} /\ ClusterBytes \in Nat \ {0}
  /\ 1 \in Copies /\ Copies \subseteq Nat
  /\ Clusters \subseteq Nat /\ FREE \notin Clusters /\ EOC \notin Clusters
  /\ EOC \in Nat /\ FREE \in Nat /\ EOC # FREE
  /\ StartOf \in [Files -> Clusters] /\ FileOf \in [Handles -> Files]
  /\ NoThread \notin Threads
BY FatAssumption DEF Copies, Clusters, FREE, EOC, NoThread

\* No cluster of a chain is free.
LEMMA ChainNotFree ==
  ASSUME NEW F, NEW C, Linked(F, C), NEW f \in Files, NEW c, Has(C[f], c)
  PROVE  c \in Clusters /\ F[c] # FREE
<1>1. IsChain(F, StartOf[f], C[f])
  BY DEF Linked
<1>2. PICK i \in 1 .. Len(C[f]) : C[f][i] = c
  BY DEF Has
<1>3. c \in Clusters
  BY <1>1, <1>2 DEF IsChain
<1>4. CASE i = Len(C[f])
  BY <1>1, <1>2, <1>4, FatFacts DEF IsChain
<1>5. CASE i # Len(C[f])
  <2>1. i \in 1 .. Len(C[f]) - 1 /\ i + 1 \in 1 .. Len(C[f])
    BY <1>1, <1>2, <1>5 DEF IsChain
  <2>2. F[c] = C[f][i + 1] /\ C[f][i + 1] \in Clusters
    BY <1>1, <1>2, <2>1 DEF IsChain
  <2> QED BY <2>2, <1>3, FatFacts
<1> QED BY <1>3, <1>4, <1>5

\* Chains that F and G agree on are chains of both.
LEMMA KeptChains ==
  ASSUME NEW F, NEW G, NEW C, Linked(F, C),
         \A f \in Files : \A c : Has(C[f], c) => G[c] = F[c]
  PROVE  Linked(G, C)
<1>1. ASSUME NEW f \in Files PROVE IsChain(G, StartOf[f], C[f])
  <2>1. IsChain(F, StartOf[f], C[f])
    BY DEF Linked
  <2>2. \A i \in 1 .. Len(C[f]) : G[C[f][i]] = F[C[f][i]]
    BY DEF Has
  <2> QED BY <2>1, <2>2 DEF IsChain
<1> QED BY <1>1 DEF Linked

\* After a step, the chains are the ones of the new table.
LEMMA NewChains ==
  ASSUME NEW C, C = [f \in Files |-> C[f]], Linked(fat'[1], C)
  PROVE  Chain' = C
<1>1. \A f \in Files : ChainIn(fat'[1], StartOf[f]) = C[f]
  BY ChainFound DEF Linked
<1>2. Chain' = [f \in Files |-> ChainIn(fat'[1], StartOf[f])]
  BY ChainOfInNext DEF Chain
<1> QED BY <1>1, <1>2

\* A table that does not change keeps its chains.
LEMMA SameChains ==
  ASSUME Linked(fat[1], Chain), fat' = fat
  PROVE  Chain' = Chain /\ Linked(fat'[1], Chain')
<1>1. Chain = [f \in Files |-> Chain[f]]
  BY DEF Chain
<1> QED BY <1>1, NewChains

\* A step that writes no FAT sector, in which thread t goes on to x.
LEMMA QuietStep ==
  ASSUME GInv, TypeOK', fat' = fat, NEW t \in Threads, NEW x \in Op,
         op' = [op EXCEPT ![t] = x], fat_lock' = Owns(t),
         x.pc \notin {"mark", "link", "join"},
         x.pc = "alloc" => /\ fat[1][x.last] # FREE
                           /\ \A g \in Files : g # FileOf[x.h] => ~ Has(Chain[g], x.last)
                           /\ \A u \in Threads \ {t} : Held(op[u]) => x.last # op[u].new,
         failures' \in {failures, failures + 1},
         op[t].pc \in {"mark", "join"} => failures' = failures + 1
  PROVE  GInv'
<1>1. Chain' = Chain /\ Linked(fat'[1], Chain')
  BY SameChains DEF GInv
<1>2. \A u \in Threads : op'[u] = IF u = t THEN x ELSE op[u]
  BY DEF GInv, TypeOK
<1>3. Locked'
  <2> SUFFICES ASSUME NEW u \in Threads PROVE op'[u].pc \in {"mark", "join"} <=> fat_lock' = u
    BY DEF Locked
  <2>1. op[u].pc \in {"mark", "join"} <=> fat_lock = u
    BY DEF GInv, Locked
  <2>2. CASE u = t
    BY <2>2, <1>2, FatFacts DEF Owns
  <2>3. CASE u # t
    BY <2>1, <2>3, <1>2, FatFacts DEF Owns
  <2> QED BY <2>2, <2>3
<1>4. Extending'
  <2>1. ASSUME NEW u \in Threads PROVE Extends(op'[u], fat'[1], Chain')
    <3>1. CASE u = t
      BY <3>1, <1>1, <1>2 DEF Extends, Fresh, Held, Joined
    <3>2. CASE u # t
      BY <3>2, <1>1, <1>2 DEF GInv, Extending
    <3> QED BY <3>1, <3>2
  <2>2. ASSUME NEW u \in Threads, NEW r \in Threads, u # r PROVE NotShared(op'[u], op'[r])
    <3>1. CASE u = t
      BY <3>1, <1>2 DEF NotShared, Held
    <3>2. CASE u # t /\ r = t
      BY <3>2, <1>2 DEF NotShared
    <3>3. CASE u # t /\ r # t
      BY <2>2, <3>3, <1>2 DEF GInv, Extending
    <3> QED BY <3>1, <3>2, <3>3
  <2> QED BY <2>1, <2>2 DEF Extending
<1>5. Synced'
  <2> SUFFICES ASSUME failures' = 0
               PROVE  /\ CopiesAgree'
                      /\ \A u \in Threads : op'[u].pc \in {"mark", "join"} =>
                           \A k \in Copies : Lag(op[u], k)' 
    BY DEF Synced
  <2>1. failures = 0 /\ op[t].pc \notin {"mark", "join"} /\ fat_lock # t
    BY DEF GInv, TypeOK, Locked
  <2>2. CopiesAgree'
    BY <2>1 DEF GInv, Synced, CopiesAgree, Owns
  <2>3. ASSUME NEW u \in Threads, op'[u].pc \in {"mark", "join"}, NEW k \in Copies
        PROVE  Lag(op[u], k)'
    <3>1. u # t /\ op'[u] = op[u]
      BY <2>3, <1>2
    <3>2. Lag(op[u], k)
      BY <2>1, <2>3, <3>1 DEF GInv, Synced
    <3> QED BY <3>1, <3>2 DEF Lag
  <2> QED BY <2>2, <2>3
<1> QED BY <1>1, <1>3, <1>4, <1>5 DEF GInv
\* The chain s, cut after its i-th cluster, where cluster c is linked.
Joint(s, i, c) == [j \in 1 .. i + 1 |-> IF j <= i THEN s[j] ELSE c]

LEMMA JointChain ==
  ASSUME NEW F \in [Clusters -> Nat], NEW a, NEW s, IsChain(F, a, s), NEW i \in 1 .. Len(s),
         NEW c \in Clusters, F[c] = EOC, ~ Has(s, c)
  PROVE  /\ IsChain([F EXCEPT ![s[i]] = c], a, Joint(s, i, c))
         /\ \A d : Has(Joint(s, i, c), d) => Has(s, d) \/ d = c
         /\ Has(Joint(s, i, c), c) /\ Len(Joint(s, i, c)) = i + 1
<1> DEFINE G == [F EXCEPT ![s[i]] = c]
           n == Joint(s, i, c)
<1>1. /\ s \in Seq(Clusters) /\ Len(s) \in Nat /\ i \in Nat /\ i >= 1
      /\ \A j \in 1 .. Len(s) : s[j] \in Clusters /\ s[j] # c
  BY DEF IsChain, Has
<1>2. n \in Seq(Clusters) /\ Len(n) = i + 1
  BY <1>1 DEF Joint
<1>3. \A j \in 1 .. i : n[j] = s[j] /\ j \in 1 .. Len(s)
  BY <1>1 DEF Joint
<1>4. n[i + 1] = c
  BY <1>1 DEF Joint
<1> HIDE DEF n
<1>5. \A j \in 1 .. i - 1 : G[n[j]] = n[j + 1]
  <2> TAKE j \in 1 .. i - 1
  <2>1. j \in 1 .. i /\ j + 1 \in 1 .. i /\ j \in 1 .. Len(s) - 1 /\ j # i
    BY <1>1
  <2>2. n[j] = s[j] /\ n[j + 1] = s[j + 1] /\ s[j] # s[i] /\ F[s[j]] = s[j + 1]
    BY <2>1, <1>3 DEF IsChain
  <2> QED BY <2>1, <2>2, <1>1
<1>6. G[n[i]] = n[i + 1] /\ G[n[i + 1]] = EOC
  BY <1>1, <1>3, <1>4
<1>7. \A j, k \in 1 .. i + 1 : n[j] = n[k] => j = k
  <2> TAKE j, k \in 1 .. i + 1
  <2>1. CASE j <= i /\ k <= i
    BY <2>1, <1>1, <1>3 DEF IsChain
  <2>0. \A m \in 1 .. i : n[m] # c
    BY <1>1, <1>3
  <2>2. CASE j = i + 1 /\ k <= i
    BY <2>0, <2>2, <1>1, <1>4
  <2>3. CASE j <= i /\ k = i + 1
    BY <2>0, <2>3, <1>1, <1>4
  <2> QED BY <2>1, <2>2, <2>3, <1>1
<1>8. n[1] = a
  BY <1>1, <1>3 DEF IsChain
<1>9. IsChain(G, a, n)
  <2> HIDE DEF G
  <2>1. \A j \in 1 .. Len(n) - 1 : G[n[j]] = n[j + 1]
    <3>1. Len(n) - 1 = i /\ \A j \in 1 .. i : j = i \/ j \in 1 .. i - 1
      BY <1>1, <1>2
    <3> QED BY <3>1, <1>5, <1>6
  <2> QED BY <2>1, <1>1, <1>2, <1>6, <1>7, <1>8 DEF IsChain
<1>10. \A d : Has(n, d) => Has(s, d) \/ d = c
  BY <1>1, <1>2, <1>3, <1>4 DEF Has
<1>11. Has(n, c)
  BY <1>1, <1>2, <1>4 DEF Has
<1> QED BY <1>2, <1>9, <1>10, <1>11 DEF n

\* The chains after cluster c was linked behind cluster b.
JoinAll(C, b, c) ==
  [f \in Files |-> IF Has(C[f], b)
                   THEN Joint(C[f], CHOOSE i \in 1 .. Len(C[f]) : C[f][i] = b, c)
                   ELSE C[f]]

Link(F, b, c) == [F EXCEPT ![b] = c]

\* Cluster c is marked and in no chain, and cluster b is in the chain of file
\* e or in none.
Joinable(F, C, e, b, c) ==
  /\ F \in [Clusters -> Nat] /\ Linked(F, C) /\ e \in Files
  /\ b \in Clusters /\ \A g \in Files : g # e => ~ Has(C[g], b)
  /\ c \in Clusters /\ F[c] = EOC /\ b # c /\ \A g \in Files : ~ Has(C[g], c)

\* Linking c behind b changes the chain of file e only, by cluster c.
LEMMA JoinChains ==
  ASSUME NEW F, NEW C, NEW e, NEW b, NEW c, Joinable(F, C, e, b, c)
  PROVE  /\ Linked(Link(F, b, c), JoinAll(C, b, c))
         /\ \A f \in Files : \A d : Has(JoinAll(C, b, c)[f], d) =>
              Has(C[f], d) \/ (f = e /\ d = c)
         /\ \A f \in Files : f # e => JoinAll(C, b, c)[f] = C[f]
         /\ \A f \in Files : C[f][Len(C[f])] = b => JoinAll(C, b, c)[f] = Joint(C[f], Len(C[f]), c)
<1> USE DEF Joinable
<1> DEFINE G == [F EXCEPT ![b] = c]
           D == JoinAll(C, b, c)
<1>1. ASSUME NEW f \in Files, Has(C[f], b)
      PROVE  \E i \in 1 .. Len(C[f]) : C[f][i] = b /\ D[f] = Joint(C[f], i, c)
  BY <1>1 DEF Has, JoinAll
<1>2. \A f \in Files : ~ Has(C[f], b) => D[f] = C[f]
  BY DEF JoinAll
<1> HIDE DEF D
<1>3. ASSUME NEW f \in Files
      PROVE  /\ IsChain(G, StartOf[f], D[f])
             /\ \A d : Has(D[f], d) => Has(C[f], d) \/ (f = e /\ d = c)
  <2>1. IsChain(F, StartOf[f], C[f])
    BY DEF Linked
  <2>2. CASE Has(C[f], b)
    <3>1. PICK i \in 1 .. Len(C[f]) : C[f][i] = b /\ D[f] = Joint(C[f], i, c)
      BY <2>2, <1>1
    <3>2. f = e /\ ~ Has(C[f], c)
      BY <2>2
    <3>3. /\ IsChain([F EXCEPT ![C[f][i]] = c], StartOf[f], Joint(C[f], i, c))
          /\ \A d : Has(Joint(C[f], i, c), d) => Has(C[f], d) \/ d = c
      BY <2>1, <3>2, JointChain
    <3>4. IsChain(G, StartOf[f], D[f]) /\ \A d : Has(D[f], d) => Has(C[f], d) \/ d = c
      BY <3>1, <3>3
    <3> QED BY <3>2, <3>4
  <2>3. CASE ~ Has(C[f], b)
    <3>1. \A i \in 1 .. Len(C[f]) : C[f][i] # b /\ C[f][i] \in Clusters
      BY <2>1, <2>3 DEF Has, IsChain
    <3>2. \A i \in 1 .. Len(C[f]) : G[C[f][i]] = F[C[f][i]]
      BY <3>1
    <3>3. D[f] = C[f]
      BY <2>3, <1>2
    <3> HIDE DEF G
    <3>4. IsChain(G, StartOf[f], C[f])
      BY <2>1, <3>2 DEF IsChain
    <3> QED BY <3>3, <3>4
  <2> QED BY <2>2, <2>3
<1>4. ASSUME NEW f \in Files, NEW g \in Files, f # g, NEW d \in Clusters
      PROVE  ~ (Has(D[f], d) /\ Has(D[g], d))
  <2>1. ~ (Has(C[f], d) /\ Has(C[g], d))
    BY <1>4 DEF Linked
  <2> QED BY <2>1, <1>3, <1>4
<1>5. Linked(G, D)
  BY <1>3, <1>4 DEF Linked
<1>6. ASSUME NEW f \in Files, C[f][Len(C[f])] = b PROVE D[f] = Joint(C[f], Len(C[f]), c)
  <2>1. Len(C[f]) \in 1 .. Len(C[f]) /\ \A i \in 1 .. Len(C[f]) : C[f][i] = b => i = Len(C[f])
    BY <1>6 DEF Linked, IsChain
  <2>2. Has(C[f], b)
    BY <1>6, <2>1 DEF Has
  <2> QED BY <2>1, <2>2, <1>1
<1> QED BY <1>2, <1>3, <1>5, <1>6 DEF D, Link

\* The sectors write_fat_entry_unlocked writes, one in each copy.
LEMMA FatWritesFacts ==
  ASSUME NEW c \in Clusters, NEW v \in Nat
  PROVE  /\ FatWrites(c, v) \in Seq(FatWrite) /\ Len(FatWrites(c, v)) = NumFats
         /\ \A i \in 1 .. NumFats : FatWrites(c, v)[i] = [copy |-> i, at |-> c, value |-> v]
<1> DEFINE q == FatWrites(c, v)
<1>1. Copies = 1 .. NumFats /\ NumFats \in Nat
  BY FatFacts DEF Copies
<1>2. \A i \in Copies : [copy |-> i, at |-> c, value |-> v] \in FatWrite
  BY FatFacts DEF FatWrite
<1>3. q = [i \in 1 .. NumFats |-> [copy |-> i, at |-> c, value |-> v]]
  BY <1>1 DEF FatWrites
<1>4. q \in [1 .. NumFats -> FatWrite]
  BY <1>1, <1>2, <1>3
<1> HIDE DEF q
<1>5. q \in Seq(FatWrite) /\ Len(q) = NumFats
  BY <1>1, <1>4
<1>6. \A i \in 1 .. NumFats : q[i] = [copy |-> i, at |-> c, value |-> v]
  BY <1>3
<1> QED BY <1>5, <1>6 DEF q

\* The lists of sectors to write.
LEMMA TodoFacts ==
  ASSUME NEW c \in Clusters, NEW b \in Clusters
  PROVE  /\ FatWrites(c, EOC) \in Seq(FatWrite) /\ Len(FatWrites(c, EOC)) = NumFats
         /\ \A i \in 1 .. NumFats : FatWrites(c, EOC)[i] = [copy |-> i, at |-> c, value |-> EOC]
         /\ LET j == FatWrites(b, c) \o FatWrites(c, EOC)
            IN  /\ j \in Seq(FatWrite) /\ Len(j) = NumFats + NumFats
                /\ \A i \in 1 .. NumFats + NumFats :
                     j[i] = IF i <= NumFats THEN [copy |-> i, at |-> b, value |-> c]
                            ELSE [copy |-> i - NumFats, at |-> c, value |-> EOC]
<1>1. EOC \in Nat /\ c \in Nat
  BY FatFacts
<1>2. NumFats \in Nat
  BY FatFacts
<1>3. /\ FatWrites(c, EOC) \in Seq(FatWrite) /\ Len(FatWrites(c, EOC)) = NumFats
      /\ \A i \in 1 .. NumFats : FatWrites(c, EOC)[i] = [copy |-> i, at |-> c, value |-> EOC]
  BY <1>1, FatWritesFacts
<1>4. /\ FatWrites(b, c) \in Seq(FatWrite) /\ Len(FatWrites(b, c)) = NumFats
      /\ \A i \in 1 .. NumFats : FatWrites(b, c)[i] = [copy |-> i, at |-> b, value |-> c]
  BY <1>1, FatWritesFacts
<1> DEFINE p == FatWrites(b, c)
           q == FatWrites(c, EOC)
<1> HIDE DEF p, q
<1>5. p \in Seq(FatWrite) /\ q \in Seq(FatWrite) /\ Len(p) = NumFats /\ Len(q) = NumFats
  BY <1>3, <1>4 DEF p, q
<1>6. /\ p \o q \in Seq(FatWrite) /\ Len(p \o q) = NumFats + NumFats
      /\ \A i \in 1 .. NumFats + NumFats : (p \o q)[i] = IF i <= NumFats THEN p[i] ELSE q[i - NumFats]
  BY <1>2, <1>5
<1>7. \A i \in 1 .. NumFats + NumFats :
        (p \o q)[i] = IF i <= NumFats THEN [copy |-> i, at |-> b, value |-> c]
                      ELSE [copy |-> i - NumFats, at |-> c, value |-> EOC]
  BY <1>2, <1>3, <1>4, <1>6 DEF p, q
<1> QED BY <1>3, <1>6, <1>7 DEF p, q
\* The parts of the invariant that a step of thread t has to restore.
LEMMA Assemble ==
  ASSUME GInv, TypeOK', NEW t \in Threads, NEW x \in Op, op' = [op EXCEPT ![t] = x],
         fat_lock' = IF x.pc \in {"mark", "join"} THEN t ELSE NoThread,
         fat_lock \in {NoThread, t},
         Linked(fat'[1], Chain'), Extends(x, fat'[1], Chain'),
         \A u \in Threads \ {t} : /\ Extends(op[u], fat'[1], Chain')
                                  /\ NotShared(x, op[u]) /\ NotShared(op[u], x),
         failures' = failures,
         failures = 0 /\ x.pc \in {"mark", "join"} => \A k \in Copies : Lag(op[t], k)',
         failures = 0 /\ x.pc \notin {"mark", "join"} => \A k \in Copies : fat'[k] = fat'[1]
  PROVE  GInv'
<1>1. \A u \in Threads : op'[u] = IF u = t THEN x ELSE op[u]
  BY DEF GInv, TypeOK
<1>2. \A u \in Threads \ {t} : op[u].pc \notin {"mark", "join"}
  BY FatFacts DEF GInv, Locked
<1>3. Locked'
  BY <1>1, <1>2, FatFacts DEF Locked
<1>4. Extending'
  <2>1. \A u \in Threads : Extends(op'[u], fat'[1], Chain')
    BY <1>1
  <2>2. ASSUME NEW u \in Threads, NEW r \in Threads, u # r PROVE NotShared(op'[u], op'[r])
    <3>1. CASE u # t /\ r # t
      BY <2>2, <3>1, <1>1 DEF GInv, Extending
    <3>2. CASE u = t \/ r = t
      BY <2>2, <3>2, <1>1
    <3> QED BY <3>1, <3>2
  <2> QED BY <2>1, <2>2 DEF Extending
<1>5. Synced'
  <2>1. CopiesAgree'
    BY FatFacts DEF CopiesAgree
  <2>2. failures' = 0 => \A u \in Threads : op'[u].pc \in {"mark", "join"} =>
                           \A k \in Copies : Lag(op[u], k)'
    BY <1>1, <1>2
  <2> QED BY <2>1, <2>2 DEF Synced
<1> QED BY <1>3, <1>4, <1>5 DEF GInv

\* What the threads other than the holder of fat_lock rely on, when neither
\* the chains nor the table change.
LEMMA OthersKept ==
  ASSUME GInv, fat'[1] = fat[1]
  PROVE  /\ Chain' = Chain /\ Linked(fat'[1], Chain')
         /\ \A u \in Threads : Extends(op[u], fat'[1], Chain')
<1>1. Chain = [f \in Files |-> Chain[f]] /\ Linked(fat'[1], Chain)
  BY DEF Chain, GInv
<1>2. Chain' = Chain /\ Linked(fat'[1], Chain')
  BY <1>1, NewChains
<1> QED BY <1>2 DEF GInv, Extending

\* Thread t goes on extending its file, as record x says.
GoesOn(t, x) == /\ op[t] \in ExtendOp /\ x \in ExtendOp /\ op' = [op EXCEPT ![t] = x]
                /\ x.h = op[t].h /\ x.from = op[t].from /\ x.to = op[t].to
                /\ x.v = op[t].v /\ x.over = op[t].over
                /\ UNCHANGED <<disk, size, calls, failures, contents>>

\* alloc_cluster finds a free cluster.
LEMMA AllocStep ==
  ASSUME GInv, NEW t \in Threads, alloc_cluster(t)
  PROVE  /\ GInv'
         /\ \E x : /\ GoesOn(t, x) /\ op[t].pc = "alloc" /\ x.pc = "mark" /\ fat' = fat
                   /\ x.last = op[t].last /\ x.missing = op[t].missing
<1>1. PICK c \in Searched :
        /\ op[t].pc = "alloc" /\ fat_lock = NoThread /\ fat[1][c] = FREE
        /\ fat_lock' = t
        /\ op' = [op EXCEPT ![t].pc = "mark", ![t].new = c, ![t].todo = FatWrites(c, EOC)]
        /\ UNCHANGED <<fat, disk, size, calls, failures, contents>>
  BY DEF alloc_cluster
<1> DEFINE o == op[t]
           l == FatWrites(c, EOC)
           x == [o EXCEPT !.pc = "mark", !.new = c, !.todo = l]
<1>2. TypeOK /\ op \in [Threads -> Op] /\ o \in Op
  BY DEF GInv, TypeOK
<1>3. o \in ExtendOp /\ Extends(o, fat[1], Chain)
  BY <1>1, <1>2, OpKinds DEF GInv, Extending
<1>4. c \in Clusters
  BY FatFacts DEF Searched, Clusters
<1>5. /\ l \in Seq(FatWrite) /\ Len(l) = NumFats
      /\ \A i \in 1 .. NumFats : l[i] = [copy |-> i, at |-> c, value |-> EOC]
  BY <1>4, TodoFacts
<1>0. op' = [op EXCEPT ![t].pc = "mark", ![t].new = c, ![t].todo = l]
  BY <1>1
<1> HIDE DEF l
<1>6. x \in ExtendOp
  BY <1>3, <1>4, <1>5, FatFacts DEF ExtendOp
<1>7. /\ x.pc = "mark" /\ x.new = c /\ x.todo = l /\ x.last = o.last /\ x.h = o.h
      /\ x \in Op /\ op' = [op EXCEPT ![t] = x]
  BY <1>0, <1>2, <1>3, <1>6 DEF ExtendOp, Op
<1>15. GoesOn(t, x) /\ x.last = o.last /\ x.missing = o.missing
  BY <1>1, <1>3, <1>6, <1>7 DEF ExtendOp, GoesOn
<1> HIDE DEF x
<1>8. TypeOK'
  BY <1>1, <1>2, <1>7 DEF TypeOK
<1>9. /\ Chain' = Chain /\ Linked(fat'[1], Chain')
      /\ \A u \in Threads : Extends(op[u], fat'[1], Chain')
  BY <1>1, OthersKept
<1>10. fat'[1] = fat[1]
  BY <1>1
<1>11. MarkTodo(x) /\ Fresh(x) /\ ~ Held(x) /\ ~ Joined(x)
  <2>1. NumFats \in Nat /\ NumFats >= 1
    BY FatFacts
  <2>2. NumFats - NumFats = 0 /\ \A i \in 1 .. NumFats : 0 + i = i
    BY <2>1
  <2>3. MarkTodo(x)
    BY <2>1, <2>2, <1>5, <1>7 DEF MarkTodo
  <2> QED BY <2>1, <2>3, <1>5, <1>7 DEF Fresh, Held, Joined
<1>12. Extends(x, fat'[1], Chain')
  BY <1>1, <1>3, <1>4, <1>7, <1>9, <1>10, <1>11 DEF Extends
<1>13. ASSUME NEW u \in Threads \ {t}
       PROVE  NotShared(x, op[u]) /\ NotShared(op[u], x)
  <2>1. Held(op[u]) => fat[1][op[u].new] = EOC /\ o.last # op[u].new
    BY <1>1 DEF GInv, Extending, Extends, NotShared
  <2> QED BY <2>1, <1>1, <1>7, <1>11, FatFacts DEF NotShared
<1>14. failures = 0 => \A k \in Copies : Lag(op[t], k)'
  <2> SUFFICES ASSUME failures = 0, NEW k \in Copies PROVE Lag(op[t], k)'
    OBVIOUS
  <2>1. fat[k] = fat[1]
    BY <1>1 DEF GInv, Synced, CopiesAgree
  <2>2. op'[t] = x /\ fat'[k] = fat'[1] /\ ~ (k <= NumFats - Len(x.todo))
    <3>1. NumFats \in Nat /\ ~ (k <= NumFats - NumFats)
      BY FatFacts DEF Copies
    <3> QED BY <3>1, <2>1, <1>1, <1>2, <1>5, <1>7
  <2> QED BY <2>2, <1>7 DEF Lag
<1>16. GInv'
  BY <1>1, <1>7, <1>8, <1>9, <1>12, <1>13, <1>14, Assemble
<1> QED BY <1>1, <1>7, <1>15, <1>16

\* link_cluster takes the lock.
LEMMA LinkStep ==
  ASSUME GInv, NEW t \in Threads, link_cluster(t)
  PROVE  /\ GInv'
         /\ \E x : /\ GoesOn(t, x) /\ op[t].pc = "link" /\ x.pc = "join" /\ fat' = fat
                   /\ x.last = op[t].last /\ x.missing = op[t].missing /\ x.new = op[t].new
                   /\ Len(x.todo) = NumFats + NumFats
<1> DEFINE o == op[t]
           l == FatWrites(o.last, o.new) \o FatWrites(o.new, EOC)
           x == [o EXCEPT !.pc = "join", !.todo = l]
<1>1. /\ o.pc = "link" /\ fat_lock = NoThread /\ fat_lock' = t
      /\ op' = [op EXCEPT ![t].pc = "join", ![t].todo = l]
      /\ UNCHANGED <<fat, disk, size, calls, failures, contents>>
  BY DEF link_cluster
<1>2. TypeOK /\ op \in [Threads -> Op] /\ o \in Op
  BY DEF GInv, TypeOK
<1>3. o \in ExtendOp /\ Extends(o, fat[1], Chain)
  BY <1>1, <1>2, OpKinds DEF GInv, Extending
<1>4. o.new \in Clusters /\ o.last \in Clusters /\ Held(o)
  BY <1>1, <1>3 DEF Extends, ExtendOp, Held
<1>5. /\ l \in Seq(FatWrite) /\ Len(l) = NumFats + NumFats
      /\ \A i \in 1 .. NumFats + NumFats :
           l[i] = IF i <= NumFats THEN [copy |-> i, at |-> o.last, value |-> o.new]
                  ELSE [copy |-> i - NumFats, at |-> o.new, value |-> EOC]
  BY <1>4, TodoFacts
<1> HIDE DEF l
<1>6. x \in ExtendOp
  BY <1>3, <1>5 DEF ExtendOp
<1>7. /\ x.pc = "join" /\ x.new = o.new /\ x.todo = l /\ x.last = o.last /\ x.h = o.h
      /\ x \in Op /\ op' = [op EXCEPT ![t] = x]
  BY <1>1, <1>2, <1>3, <1>6 DEF ExtendOp, Op
<1>15. GoesOn(t, x) /\ x.last = o.last /\ x.missing = o.missing
  BY <1>1, <1>3, <1>6, <1>7 DEF ExtendOp, GoesOn
<1> HIDE DEF x
<1>8. TypeOK'
  BY <1>1, <1>2, <1>7 DEF TypeOK
<1>9. /\ Chain' = Chain /\ Linked(fat'[1], Chain')
      /\ \A u \in Threads : Extends(op[u], fat'[1], Chain')
  BY <1>1, OthersKept
<1>10. fat'[1] = fat[1]
  BY <1>1
<1>11. JoinTodo(x) /\ Held(x) /\ ~ Fresh(x) /\ ~ Joined(x)
  <2>1. NumFats \in Nat /\ NumFats >= 1
    BY FatFacts
  <2>2. \A i \in 1 .. NumFats + NumFats : /\ NumFats + NumFats - (NumFats + NumFats) + i = i
                                          /\ NumFats - (NumFats + NumFats) + i = i - NumFats
    BY <2>1
  <2>3. JoinTodo(x)
    <3>1. Len(x.todo) = NumFats + NumFats /\ NumFats + NumFats \in 1 .. NumFats + NumFats
      BY <2>1, <1>5, <1>7
    <3>2. \A i \in 1 .. Len(x.todo) :
            x.todo[i] = IF NumFats + NumFats - Len(x.todo) + i <= NumFats
                        THEN [copy |-> NumFats + NumFats - Len(x.todo) + i, at |-> x.last, value |-> x.new]
                        ELSE [copy |-> NumFats - Len(x.todo) + i, at |-> x.new, value |-> EOC]
      BY <3>1, <2>2, <1>5, <1>7
    <3> QED BY <3>1, <3>2 DEF JoinTodo
  <2> QED BY <2>1, <2>3, <1>5, <1>7 DEF Fresh, Held, Joined
<1>12. Extends(x, fat'[1], Chain')
  BY <1>1, <1>3, <1>4, <1>7, <1>9, <1>10, <1>11 DEF Extends
<1>13. ASSUME NEW u \in Threads \ {t}
       PROVE  NotShared(x, op[u]) /\ NotShared(op[u], x)
  <2>1. NotShared(o, op[u]) /\ NotShared(op[u], o)
    BY DEF GInv, Extending
  <2> QED BY <2>1, <1>1, <1>4, <1>7, <1>11 DEF NotShared
<1>14. failures = 0 => \A k \in Copies : Lag(op[t], k)'
  <2> SUFFICES ASSUME failures = 0, NEW k \in Copies PROVE Lag(op[t], k)'
    OBVIOUS
  <2>1. fat[k] = fat[1] /\ fat[1][o.new] = EOC
    BY <1>1, <1>3, <1>4 DEF GInv, Synced, CopiesAgree, Extends
  <2>2. op'[t] = x /\ fat'[k] = fat'[1] /\ ~ (k <= NumFats + NumFats - Len(x.todo))
    <3>1. NumFats \in Nat /\ ~ (k <= NumFats + NumFats - (NumFats + NumFats))
      BY FatFacts DEF Copies
    <3> QED BY <3>1, <2>1, <1>1, <1>2, <1>5, <1>7
  <2> QED BY <2>1, <2>2, <1>1, <1>7 DEF Lag
<1>16. GInv'
  BY <1>1, <1>7, <1>8, <1>9, <1>12, <1>13, <1>14, Assemble
<1> QED BY <1>1, <1>5, <1>7, <1>15, <1>16
\* What is left of a list after its head was written.
LEMMA Rest ==
  ASSUME NEW S, NEW s \in Seq(S), Len(s) >= 1
  PROVE  /\ Head(s) = s[1] /\ Tail(s) \in Seq(S) /\ Len(Tail(s)) = Len(s) - 1
         /\ \A i \in 1 .. Len(s) - 1 : Tail(s)[i] = s[i + 1]
         /\ Tail(s) = <<>> <=> Len(s) = 1
         /\ Len(s) \in Nat /\ s[1] \in S
<1>1. Len(s) \in Nat /\ s # <<>> /\ s[1] \in S
  OBVIOUS
<1>2. Head(s) = s[1]
  OBVIOUS
<1>3. Tail(s) \in Seq(S) /\ Len(Tail(s)) = Len(s) - 1
  BY <1>1
<1>4. \A i \in 1 .. Len(s) - 1 : Tail(s)[i] = s[i + 1]
  BY <1>1
<1>5. Tail(s) = <<>> <=> Len(Tail(s)) = 0
  BY <1>3
<1>6. Len(s) - 1 = 0 <=> Len(s) = 1
  BY <1>1
<1> QED BY <1>1, <1>2, <1>3, <1>4, <1>5, <1>6

\* Only the holder of fat_lock is in the middle of its FAT sectors.
LEMMA OneWriter ==
  ASSUME GInv, NEW t \in Threads, op[t].pc \in {"mark", "join"}
  PROVE  fat_lock = t /\ \A u \in Threads \ {t} : op[u].pc \notin {"mark", "join"}
BY DEF GInv, Locked

\* A FAT sector that marks a new cluster.
LEMMA MarkStep ==
  ASSUME GInv, NEW t \in Threads, fat_write(t), op[t].pc = "mark"
  PROVE  /\ GInv'
         /\ \E x : /\ GoesOn(t, x) /\ x.pc \in {"mark", "link"}
                   /\ x.last = op[t].last /\ x.missing = op[t].missing /\ x.new = op[t].new
         /\ Chain' = Chain /\ \A c \in Clusters : c # op[t].new => fat'[1][c] = fat[1][c]
<1> DEFINE o == op[t]
           w == Head(o.todo)
           rest == Tail(o.todo)
           n == Len(o.todo)
           k0 == NumFats - n + 1
           x == IF rest # <<>> THEN [o EXCEPT !.todo = rest] ELSE [o EXCEPT !.pc = "link", !.todo = <<>>]
<1>1. /\ op \in [Threads -> Op] /\ o \in Op /\ TypeOK
      /\ fat_lock = t /\ \A u \in Threads \ {t} : op[u].pc \notin {"mark", "join"}
  BY OneWriter DEF GInv, TypeOK
<1>2. o \in ExtendOp /\ Extends(o, fat[1], Chain) /\ MarkTodo(o) /\ o.new \in Clusters
  BY <1>1, OpKinds DEF GInv, Extending, Extends
<1>3. NumFats \in Nat /\ NumFats >= 1 /\ Copies = 1 .. NumFats /\ n \in 1 .. NumFats
  BY <1>2, FatFacts DEF MarkTodo, Copies
<1>4. /\ w = o.todo[1] /\ rest \in Seq(FatWrite) /\ Len(rest) = n - 1 /\ (rest = <<>> <=> n = 1)
      /\ \A i \in 1 .. n - 1 : rest[i] = o.todo[i + 1]
  <2>1. o.todo \in Seq(FatWrite) /\ n >= 1
    BY <1>2, <1>3 DEF ExtendOp
  <2> QED BY <2>1, Rest
<1>5. w.copy = k0 /\ w.at = o.new /\ w.value = EOC /\ k0 \in Copies /\ (k0 = 1 <=> n = NumFats)
  <2>1. 1 \in 1 .. n
    BY <1>3
  <2>2. o.todo[1] = [copy |-> k0, at |-> o.new, value |-> EOC]
    BY <2>1, <1>2 DEF MarkTodo
  <2>3. k0 \in Copies /\ (k0 = 1 <=> n = NumFats)
    <3> HIDE DEF n
    <3> QED BY <1>3
  <2> QED BY <2>2, <2>3, <1>4
<1>6. /\ fat' = [fat EXCEPT ![k0][o.new] = EOC] /\ fat_lock' = IF rest = <<>> THEN NoThread ELSE t
      /\ op' = [op EXCEPT ![t] = x]
      /\ UNCHANGED <<disk, size, calls, failures, contents>>
  BY <1>5 DEF fat_write
<1>0. n = 1 \/ n > 1
  <2> HIDE DEF n
  <2> QED BY <1>3
<1> HIDE DEF w, rest, n
<1>7. x \in ExtendOp
  BY <1>2, <1>4 DEF ExtendOp
<1>8. /\ x.new = o.new /\ x.last = o.last /\ x.h = o.h /\ x \in Op
      /\ n = 1 => x.pc = "link" 
      /\ n > 1 => x.pc = "mark" /\ x.todo = rest
  <2>1. CASE n = 1
    <3>1. x = [o EXCEPT !.pc = "link", !.todo = <<>>] /\ ~ (n > 1)
      BY <2>1, <1>4
    <3> HIDE DEF x
    <3>2. x.new = o.new /\ x.last = o.last /\ x.h = o.h /\ x.pc = "link"
      BY <3>1, <1>2 DEF ExtendOp
    <3> QED BY <3>1, <3>2, <1>7 DEF Op
  <2>2. CASE n > 1
    <3>1. x = [o EXCEPT !.todo = rest] /\ n # 1
      BY <2>2, <1>3, <1>4
    <3> QED BY <3>1, <2>2, <1>2, <1>7 DEF ExtendOp, Op
  <2> QED BY <1>0, <2>1, <2>2
<1>21. GoesOn(t, x) /\ x.missing = o.missing
  <2>1. x.from = o.from /\ x.to = o.to /\ x.v = o.v /\ x.over = o.over /\ x.missing = o.missing
    <3>1. x = [o EXCEPT !.pc = "link", !.todo = <<>>] \/ x = [o EXCEPT !.todo = rest]
      OBVIOUS
    <3> HIDE DEF x
    <3> QED BY <3>1, <1>2 DEF ExtendOp
  <2> QED BY <2>1, <1>2, <1>6, <1>7, <1>8 DEF GoesOn
<1> HIDE DEF x
<1>9. /\ fat \in [Copies -> [Clusters -> Nat]]
      /\ \A k \in Copies : fat'[k] = IF k = k0 THEN [fat[k] EXCEPT ![o.new] = EOC] ELSE fat[k]
      /\ fat' \in [Copies -> [Clusters -> Nat]]
  <2>1. fat \in [Copies -> [Clusters -> Nat]]
    BY DEF GInv, TypeOK
  <2> HIDE DEF k0
  <2> QED BY <2>1, <1>2, <1>5, <1>6, FatFacts
<1>10. TypeOK'
  <2>1. fat_lock' \in Threads \cup {NoThread} /\ op' \in [Threads -> Op]
    BY <1>1, <1>6, <1>8
  <2> QED BY <2>1, <1>1, <1>6, <1>9 DEF TypeOK
<1>11. /\ fat'[1][o.new] = EOC
       /\ \A c \in Clusters : c # o.new => fat'[1][c] = fat[1][c]
       /\ \A g \in Files : ~ Has(Chain[g], o.new)
       /\ o.last # o.new
  <2>1. CASE n = NumFats
    <3>1. fat[1][o.new] = FREE /\ fat[1][o.last] # FREE
      BY <2>1, <1>2 DEF Extends, Fresh, n
    <3>2. \A g \in Files : ~ Has(Chain[g], o.new)
      BY <3>1, ChainNotFree DEF GInv
    <3>3. k0 = 1 /\ 1 \in Copies
      BY <2>1, <1>3, <1>5
    <3> HIDE DEF k0
    <3> QED BY <3>1, <3>2, <3>3, <1>2, <1>9
  <2>2. CASE n # NumFats
    <3>1. Held(o)
      BY <2>2, <1>3 DEF Held, n
    <3>2. /\ fat[1][o.new] = EOC /\ \A g \in Files : ~ Has(Chain[g], o.new)
          /\ o.last # o.new
      BY <3>1, <1>2 DEF Extends
    <3>3. k0 # 1 /\ 1 \in Copies
      BY <2>2, <1>3, <1>5
    <3> HIDE DEF k0
    <3> QED BY <3>2, <3>3, <1>9
  <2> QED BY <2>1, <2>2
<1>12. Chain' = Chain /\ Linked(fat'[1], Chain')
  <2>1. \A f \in Files : \A c : Has(Chain[f], c) => fat'[1][c] = fat[1][c]
    BY <1>11, ChainNotFree DEF GInv
  <2>2. Linked(fat'[1], Chain)
    BY <2>1, KeptChains DEF GInv
  <2>3. Chain = [f \in Files |-> Chain[f]]
    BY DEF Chain
  <2> QED BY <2>2, <2>3, NewChains
<1>13. Held(x) /\ ~ Fresh(x) /\ ~ Joined(x)
  BY <1>3, <1>4, <1>8 DEF Held, Fresh, Joined
<1>14. n > 1 => MarkTodo(x)
  <2> SUFFICES ASSUME n > 1 PROVE MarkTodo(x)
    OBVIOUS
  <2>1. x.todo = rest /\ Len(x.todo) = n - 1 /\ n - 1 \in 1 .. NumFats
    BY <1>3, <1>4, <1>8
  <2>2. ASSUME NEW i \in 1 .. n - 1
        PROVE  rest[i] = [copy |-> NumFats - (n - 1) + i, at |-> x.new, value |-> EOC]
    <3>1. i + 1 \in 1 .. n /\ NumFats - n + (i + 1) = NumFats - (n - 1) + i
      BY <1>3
    <3>2. rest[i] = o.todo[i + 1]
      BY <1>4
    <3>3. o.todo[i + 1] = [copy |-> NumFats - n + (i + 1), at |-> o.new, value |-> EOC]
      BY <3>1, <1>2 DEF MarkTodo, n
    <3> QED BY <3>1, <3>2, <3>3, <1>8
  <2> QED BY <2>1, <2>2 DEF MarkTodo
<1>15. Extends(x, fat'[1], Chain')
  <2>1. fat'[1][x.last] # FREE /\ \A g \in Files : g # FileOf[x.h] => ~ Has(Chain'[g], x.last)
    <3>1. o.last \in Clusters /\ fat[1][o.last] # FREE
      BY <1>2 DEF Extends, ExtendOp
    <3>2. \A g \in Files : g # FileOf[o.h] => ~ Has(Chain[g], o.last)
      BY <1>2 DEF Extends
    <3> QED BY <3>1, <3>2, <1>8, <1>11, <1>12
  <2>2. x.pc = "mark" => MarkTodo(x)
    BY <1>0, <1>8, <1>14
  <2>3. x.pc # "join"
    BY <1>0, <1>8
  <2> QED BY <2>1, <2>2, <2>3, <1>2, <1>8, <1>11, <1>12, <1>13 DEF Extends
<1>16. ASSUME NEW u \in Threads \ {t}
       PROVE  /\ Extends(op[u], fat'[1], Chain')
              /\ NotShared(x, op[u]) /\ NotShared(op[u], x)
  <2>1. op[u].pc \notin {"mark", "join"} /\ Extends(op[u], fat[1], Chain) /\ op[u] \in Op
    BY <1>1 DEF GInv, Extending
  <2>2. NotShared(o, op[u]) /\ NotShared(op[u], o)
    BY DEF GInv, Extending
  <2>3. op[u].pc \in {"alloc", "link"} => op[u].last \in Clusters /\ fat'[1][op[u].last] # FREE
    BY <2>1, <1>11, OpKinds, FatFacts DEF Extends, ExtendOp
  <2>4. op[u].pc = "link" => Held(op[u]) /\ fat[1][op[u].new] = EOC /\ fat'[1][op[u].new] = EOC
    BY <2>1, <1>11 DEF Extends, Held
  <2>5. ~ Fresh(op[u]) /\ ~ Joined(op[u]) /\ (Held(op[u]) => op[u].pc = "link")
    BY <2>1 DEF Fresh, Held, Joined
  <2>6. Extends(op[u], fat'[1], Chain')
    BY <2>1, <2>3, <2>4, <2>5, <1>12 DEF Extends
  <2>7. NotShared(x, op[u])
    <3>1. CASE n = NumFats
      <4>1. fat[1][o.new] = FREE
        BY <3>1, <1>2 DEF Extends, Fresh, n
      <4> QED BY <4>1, <2>1, <2>4, <1>8, FatFacts DEF NotShared, Extends
    <3>2. CASE n # NumFats
      <4>1. Held(o)
        BY <3>2, <1>3 DEF Held, n
      <4> QED BY <4>1, <2>2, <1>8 DEF NotShared
    <3> QED BY <3>1, <3>2
  <2>8. NotShared(op[u], x)
    BY <2>2, <1>8 DEF NotShared
  <2> QED BY <2>6, <2>7, <2>8
<1>17. ASSUME failures = 0, NEW k \in Copies
       PROVE  /\ \A c \in Clusters \ {o.new} : fat'[k][c] = fat'[1][c]
              /\ k <= NumFats - (n - 1) => fat'[k][o.new] = EOC
  <2>1. Lag(o, k)
    BY <1>17 DEF GInv, Synced
  <2>2. /\ \A c \in Clusters \ {o.new} : fat[k][c] = fat[1][c]
        /\ k <= NumFats - n => fat[k][o.new] = EOC
    BY <2>1 DEF Lag, n
  <2>3. \A c \in Clusters \ {o.new} : fat'[k][c] = fat[k][c]
    <3> HIDE DEF k0
    <3> QED BY <1>9, <1>2
  <2>4. k <= NumFats - (n - 1) => k = k0 \/ k <= NumFats - n
    BY <1>3
  <2>5. k = k0 => fat'[k][o.new] = EOC
    BY <1>9, <1>2
  <2>6. k # k0 => fat'[k][o.new] = fat[k][o.new]
    BY <1>9
  <2> QED BY <2>2, <2>3, <2>4, <2>5, <2>6, <1>11
<1>18. ASSUME failures = 0, n = 1 PROVE \A k \in Copies : fat'[k] = fat'[1]
  <2> SUFFICES ASSUME NEW k \in Copies PROVE fat'[k] = fat'[1]
    OBVIOUS
  <2>1. k <= NumFats - (n - 1)
    BY <1>3, <1>18
  <2>2. \A c \in Clusters : fat'[k][c] = fat'[1][c]
    BY <2>1, <1>11, <1>17, <1>18
  <2>3. fat'[k] \in [Clusters -> Nat] /\ fat'[1] \in [Clusters -> Nat]
    BY <1>9, FatFacts
  <2> QED BY <2>2, <2>3
<1>19. ASSUME failures = 0, n > 1 PROVE \A k \in Copies : Lag(op[t], k)'
  <2> SUFFICES ASSUME NEW k \in Copies PROVE Lag(op[t], k)'
    OBVIOUS
  <2>1. op'[t] = x /\ x.pc = "mark" /\ x.new = o.new /\ Len(x.todo) = n - 1
    BY <1>1, <1>4, <1>6, <1>8, <1>19
  <2>2. /\ \A c \in Clusters \ {o.new} : fat'[k][c] = fat'[1][c]
        /\ k <= NumFats - (n - 1) => fat'[k][o.new] = EOC
    BY <1>17, <1>19
  <2> QED BY <2>1, <2>2 DEF Lag
<1>20. /\ x.pc \in {"mark", "join"} <=> n > 1
       /\ fat_lock' = IF x.pc \in {"mark", "join"} THEN t ELSE NoThread
  BY <1>4, <1>6, <1>8, <1>0
<1>22. GInv'
  BY <1>1, <1>6, <1>8, <1>10, <1>12, <1>15, <1>16, <1>18, <1>19, <1>0, <1>20, Assemble
<1> QED BY <1>0, <1>8, <1>11, <1>12, <1>21, <1>22

\* A FAT sector that links a new cluster.
LEMMA JoinStep ==
  ASSUME GInv, NEW t \in Threads, fat_write(t), op[t].pc = "join"
  PROVE  /\ GInv'
         /\ \E x : /\ GoesOn(t, x)
                   /\ Len(op[t].todo) > 1 =>
                        /\ x.pc = "join" /\ Len(x.todo) = Len(op[t].todo) - 1
                        /\ x.last = op[t].last /\ x.missing = op[t].missing /\ x.new = op[t].new
                   /\ Len(op[t].todo) = 1 =>
                        \/ /\ x.pc = "alloc" /\ op[t].missing > 1
                           /\ x.last = op[t].new /\ x.missing = op[t].missing - 1
                        \/ x.pc = "extended" /\ ~ (op[t].missing > 1)
         /\ Len(op[t].todo) \in 1 .. NumFats + NumFats
         /\ Len(op[t].todo) # NumFats + NumFats => Chain' = Chain /\ fat'[1] = fat[1]
         /\ Len(op[t].todo) = NumFats + NumFats =>
              /\ Joinable(fat[1], Chain, FileOf[op[t].h], op[t].last, op[t].new)
              /\ Chain' = JoinAll(Chain, op[t].last, op[t].new)
         /\ \A c \in Clusters : c # op[t].last => fat'[1][c] = fat[1][c]
         /\ fat[1][op[t].last] # FREE
<1> DEFINE o == op[t]
           w == Head(o.todo)
           rest == Tail(o.todo)
           n == Len(o.todo)
           k0 == IF n > NumFats THEN NumFats + NumFats - n + 1 ELSE NumFats - n + 1
           at == IF n > NumFats THEN o.last ELSE o.new
           val == IF n > NumFats THEN o.new ELSE EOC
           x == IF rest # <<>> THEN [o EXCEPT !.todo = rest]
                ELSE IF o.missing > 1
                  THEN [o EXCEPT !.pc = "alloc", !.last = o.new, !.missing = @ - 1, !.new = FREE, !.todo = <<>>]
                ELSE [o EXCEPT !.pc = "extended", !.todo = <<>>]
<1>1. /\ op \in [Threads -> Op] /\ o \in Op /\ TypeOK
      /\ fat_lock = t /\ \A u \in Threads \ {t} : op[u].pc \notin {"mark", "join"}
  BY OneWriter DEF GInv, TypeOK
<1>2. o \in ExtendOp /\ Extends(o, fat[1], Chain) /\ JoinTodo(o) /\ o.new \in Clusters /\ o.last \in Clusters
  BY <1>1, OpKinds DEF GInv, Extending, Extends, ExtendOp
<1>3. NumFats \in Nat /\ NumFats >= 1 /\ Copies = 1 .. NumFats /\ n \in 1 .. NumFats + NumFats
  BY <1>2, FatFacts DEF JoinTodo, Copies
<1>4. /\ w = o.todo[1] /\ rest \in Seq(FatWrite) /\ Len(rest) = n - 1 /\ (rest = <<>> <=> n = 1)
      /\ \A i \in 1 .. n - 1 : rest[i] = o.todo[i + 1]
  <2>1. o.todo \in Seq(FatWrite) /\ n >= 1
    BY <1>2, <1>3 DEF ExtendOp
  <2> QED BY <2>1, Rest
<1>0. n = 1 \/ n > 1
  <2> HIDE DEF n
  <2> QED BY <1>3
<1>5. /\ w.copy = k0 /\ w.at = at /\ w.value = val /\ k0 \in Copies
      /\ n = NumFats + NumFats => k0 = 1 /\ at = o.last /\ val = o.new
      /\ n # NumFats + NumFats => k0 # 1 \/ (at = o.new /\ val = EOC)
  <2>1. 1 \in 1 .. n
    BY <1>3
  <2>2. o.todo[1] = IF NumFats + NumFats - n + 1 <= NumFats
                    THEN [copy |-> NumFats + NumFats - n + 1, at |-> o.last, value |-> o.new]
                    ELSE [copy |-> NumFats - n + 1, at |-> o.new, value |-> EOC]
    BY <2>1, <1>2 DEF JoinTodo
  <2>3. /\ k0 \in Copies /\ (NumFats + NumFats - n + 1 <= NumFats <=> n > NumFats)
        /\ n = NumFats + NumFats => k0 = 1 /\ n > NumFats
        /\ n # NumFats + NumFats => k0 # 1 \/ ~ (n > NumFats)
    <3> HIDE DEF n
    <3> QED BY <1>3
  <2>4. o.todo[1] = [copy |-> k0, at |-> at, value |-> val]
    BY <2>2, <2>3
  <2> HIDE DEF n
  <2> QED BY <2>3, <2>4, <1>4
<1>6. /\ fat' = [fat EXCEPT ![k0][at] = val] /\ fat_lock' = IF rest = <<>> THEN NoThread ELSE t
      /\ op' = [op EXCEPT ![t] = x]
      /\ UNCHANGED <<disk, size, calls, failures, contents>>
  BY <1>5 DEF fat_write
<1>7. at \in Clusters /\ val \in Nat /\ at \in {o.last, o.new} /\ o.new \in Nat
      /\ (n > NumFats => at = o.last /\ val = o.new) /\ (~ (n > NumFats) => at = o.new /\ val = EOC)
  BY <1>2, FatFacts
<1> HIDE DEF w, rest, n, at, val
<1>8. /\ x \in Op /\ x.h = o.h /\ GoesOn(t, x)
      /\ n > 1 => x.pc = "join" /\ x.todo = rest /\ x.new = o.new /\ x.last = o.last
      /\ n > 1 => x.missing = o.missing /\ Len(x.todo) = n - 1
      /\ n = 1 => x.pc \in {"alloc", "extended"} /\ (x.pc = "alloc" => x.last = o.new)
      /\ n = 1 => (x.pc = "alloc" /\ o.missing > 1 /\ x.missing = o.missing - 1) \/ (x.pc = "extended" /\ ~ (o.missing > 1))
  <2>1. CASE n = 1 /\ o.missing > 1
    <3>1. x = [o EXCEPT !.pc = "alloc", !.last = o.new, !.missing = o.missing - 1, !.new = FREE, !.todo = <<>>]
          /\ ~ (n > 1)
      BY <2>1, <1>4
    <3> HIDE DEF x
    <3>2. o.missing \in Nat /\ o.missing - 1 \in Nat /\ <<>> \in Seq(FatWrite) /\ FREE \in Nat
      BY <2>1, <1>2, FatFacts DEF ExtendOp
    <3> HIDE DEF o
    <3>3. x \in ExtendOp
      BY <3>1, <3>2, <1>2 DEF ExtendOp
    <3>4. /\ x.pc = "alloc" /\ x.last = o.new /\ x.h = o.h /\ x.missing = o.missing - 1
          /\ x.from = o.from /\ x.to = o.to /\ x.v = o.v /\ x.over = o.over
      BY <3>1, <1>2 DEF ExtendOp
    <3>5. GoesOn(t, x)
      BY <3>3, <3>4, <1>2, <1>6 DEF GoesOn, o
    <3> QED BY <2>1, <3>1, <3>3, <3>4, <3>5 DEF Op
  <2>2. CASE n = 1 /\ ~ (o.missing > 1)
    <3>1. x = [o EXCEPT !.pc = "extended", !.todo = <<>>] /\ ~ (n > 1)
      BY <2>2, <1>4
    <3> HIDE DEF x, o
    <3>2. <<>> \in Seq(FatWrite)
      OBVIOUS
    <3>3. x \in ExtendOp
      BY <3>1, <3>2, <1>2 DEF ExtendOp
    <3>4. /\ x.pc = "extended" /\ x.h = o.h
          /\ x.from = o.from /\ x.to = o.to /\ x.v = o.v /\ x.over = o.over
      BY <3>1, <1>2 DEF ExtendOp
    <3>5. GoesOn(t, x)
      BY <3>3, <3>4, <1>2, <1>6 DEF GoesOn, o
    <3> QED BY <2>2, <3>1, <3>3, <3>4, <3>5 DEF Op
  <2>3. CASE n > 1
    <3>1. x = [o EXCEPT !.todo = rest] /\ n # 1
      BY <2>3, <1>3, <1>4
    <3> HIDE DEF x
    <3>2. /\ x \in ExtendOp /\ x.pc = "join" /\ x.todo = rest /\ x.new = o.new /\ x.last = o.last /\ x.h = o.h
          /\ x.from = o.from /\ x.to = o.to /\ x.v = o.v /\ x.over = o.over /\ x.missing = o.missing
      BY <3>1, <1>2, <1>4 DEF ExtendOp
    <3>3. GoesOn(t, x)
      BY <3>2, <1>2, <1>6 DEF GoesOn
    <3> QED BY <3>1, <3>2, <3>3, <1>4 DEF Op
  <2> QED BY <1>0, <2>1, <2>2, <2>3
<1> HIDE DEF x, k0
<1>9. /\ fat \in [Copies -> [Clusters -> Nat]]
      /\ \A k \in Copies : fat'[k] = IF k = k0 THEN [fat[k] EXCEPT ![at] = val] ELSE fat[k]
      /\ fat' \in [Copies -> [Clusters -> Nat]]
  <2>1. fat \in [Copies -> [Clusters -> Nat]]
    BY DEF GInv, TypeOK
  <2> QED BY <2>1, <1>5, <1>6, <1>7
<1>10. TypeOK'
  <2>1. fat_lock' \in Threads \cup {NoThread} /\ op' \in [Threads -> Op]
    BY <1>1, <1>6, <1>8
  <2> QED BY <2>1, <1>1, <1>6, <1>9 DEF TypeOK
<1>11. /\ fat[1][o.new] = EOC /\ o.last # o.new
       /\ \A g \in Files : g # FileOf[o.h] => ~ Has(Chain[g], o.new)
       /\ n = NumFats + NumFats => \A g \in Files : ~ Has(Chain[g], o.new)
       /\ n # NumFats + NumFats <=> n < NumFats + NumFats
  <2>1. CASE n = NumFats + NumFats
    <3>1. Held(o)
      BY <2>1 DEF Held, n
    <3>2. ~ (n < NumFats + NumFats)
      BY <2>1, <1>3
    <3> QED BY <2>1, <3>1, <3>2, <1>2 DEF Extends
  <2>2. CASE n # NumFats + NumFats
    <3>1. n < NumFats + NumFats
      BY <2>2, <1>3
    <3>2. Joined(o)
      BY <3>1 DEF Joined, n
    <3> QED BY <2>2, <3>1, <3>2, <1>2 DEF Extends
  <2> QED BY <2>1, <2>2
<1>12. /\ o.h \in Handles /\ FileOf[o.h] \in Files /\ fat[1] \in [Clusters -> Nat]
       /\ fat[1][o.last] # FREE
       /\ \A g \in Files : g # FileOf[o.h] => ~ Has(Chain[g], o.last)
  BY <1>2, <1>9, FatFacts DEF Extends, ExtendOp
\* The table and the chains after the step, for all the threads.
<1>13. /\ Linked(fat'[1], Chain')
       /\ fat'[1][o.new] = EOC /\ fat'[1][o.last] # FREE
       /\ \A c \in Clusters : c # o.last => fat'[1][c] = fat[1][c]
       /\ \A g \in Files : g # FileOf[o.h] => Chain'[g] = Chain[g]
       /\ \A g \in Files : \A d : Has(Chain'[g], d) =>
            Has(Chain[g], d) \/ (n = NumFats + NumFats /\ g = FileOf[o.h] /\ d = o.new)
       /\ n # NumFats + NumFats => Chain' = Chain /\ fat'[1] = fat[1]
       /\ n = NumFats + NumFats => /\ Joinable(fat[1], Chain, FileOf[o.h], o.last, o.new)
                                  /\ Chain' = JoinAll(Chain, o.last, o.new)
  <2>1. CASE n = NumFats + NumFats
    <3> DEFINE D == JoinAll(Chain, o.last, o.new)
    <3>0. fat'[1] = [fat[1] EXCEPT ![o.last] = o.new]
      BY <2>1, <1>5, <1>9
    <3>1. fat'[1] = Link(fat[1], o.last, o.new)
      BY <3>0 DEF Link
    <3>2. Linked(fat[1], Chain)
      BY DEF GInv
    <3>7. Joinable(fat[1], Chain, FileOf[o.h], o.last, o.new)
      BY <2>1, <3>2, <1>2, <1>11, <1>12 DEF Joinable
    <3>3. /\ Linked(Link(fat[1], o.last, o.new), D)
          /\ \A f \in Files : \A d : Has(D[f], d) => Has(Chain[f], d) \/ (f = FileOf[o.h] /\ d = o.new)
          /\ \A f \in Files : f # FileOf[o.h] => D[f] = Chain[f]
      <4> HIDE DEF D
      <4>2. Linked(Link(fat[1], o.last, o.new), D)
        BY <3>7, JoinChains DEF D
      <4>3. \A f \in Files : \A d : Has(D[f], d) => Has(Chain[f], d) \/ (f = FileOf[o.h] /\ d = o.new)
        BY <3>7, JoinChains DEF D
      <4>4. \A f \in Files : f # FileOf[o.h] => D[f] = Chain[f]
        BY <3>7, JoinChains DEF D
      <4> QED BY <4>2, <4>3, <4>4
    <3>4. D = [f \in Files |-> D[f]]
      BY DEF JoinAll
    <3> HIDE DEF D
    <3>5. Chain' = D /\ Linked(fat'[1], Chain')
      BY <3>1, <3>3, <3>4, NewChains
    <3>6. /\ fat'[1][o.new] = EOC /\ fat'[1][o.last] = o.new /\ o.new # FREE
          /\ \A c \in Clusters : c # o.last => fat'[1][c] = fat[1][c]
      BY <3>0, <1>2, <1>11, <1>12, FatFacts
    <3> QED BY <2>1, <3>3, <3>5, <3>6, <3>7 DEF D
  <2>2. CASE n # NumFats + NumFats
    <3>1. fat'[1] = fat[1]
      BY <2>2, <1>2, <1>5, <1>9, <1>11, <1>12, FatFacts
    <3>2. Chain' = Chain /\ Linked(fat'[1], Chain')
      BY <3>1, OthersKept
    <3> QED BY <2>2, <3>1, <3>2, <1>11, <1>12
  <2> QED BY <2>1, <2>2
<1>14. ASSUME n > 1 PROVE JoinTodo(x) /\ Joined(x)
  <2>1. x.todo = rest /\ Len(x.todo) = n - 1 /\ n - 1 \in 1 .. NumFats + NumFats /\ n - 1 < NumFats + NumFats
    BY <1>3, <1>4, <1>8, <1>14
  <2>2. ASSUME NEW i \in 1 .. n - 1
        PROVE  rest[i] = IF NumFats + NumFats - (n - 1) + i <= NumFats
                         THEN [copy |-> NumFats + NumFats - (n - 1) + i, at |-> x.last, value |-> x.new]
                         ELSE [copy |-> NumFats - (n - 1) + i, at |-> x.new, value |-> EOC]
    <3>1. /\ i + 1 \in 1 .. n /\ NumFats - n + (i + 1) = NumFats - (n - 1) + i
          /\ NumFats + NumFats - n + (i + 1) = NumFats + NumFats - (n - 1) + i
      BY <1>3
    <3>2. rest[i] = o.todo[i + 1]
      BY <1>4
    <3>3. o.todo[i + 1] = IF NumFats + NumFats - n + (i + 1) <= NumFats
                          THEN [copy |-> NumFats + NumFats - n + (i + 1), at |-> o.last, value |-> o.new]
                          ELSE [copy |-> NumFats - n + (i + 1), at |-> o.new, value |-> EOC]
      BY <3>1, <1>2 DEF JoinTodo, n
    <3> QED BY <3>1, <3>2, <3>3, <1>8, <1>14
  <2>3. JoinTodo(x)
    BY <2>1, <2>2 DEF JoinTodo
  <2> QED BY <2>1, <2>3, <1>8, <1>14 DEF Joined
<1>15. Extends(x, fat'[1], Chain')
  <2>1. \A g \in Files : g # FileOf[x.h] => ~ Has(Chain'[g], o.last) /\ ~ Has(Chain'[g], o.new)
    BY <1>8, <1>11, <1>12, <1>13
  <2>2. CASE n = 1
    BY <2>1, <2>2, <1>8, <1>13, FatFacts DEF Extends, Fresh, Held, Joined
  <2>3. CASE n > 1
    <3>1. ~ Fresh(x) /\ ~ Held(x)
      BY <2>3, <1>8, <1>14 DEF Fresh, Held, Joined, JoinTodo
    <3> QED BY <2>1, <2>3, <3>1, <1>2, <1>8, <1>11, <1>13, <1>14 DEF Extends
  <2> QED BY <1>0, <2>2, <2>3
<1>16. ASSUME NEW u \in Threads \ {t}
       PROVE  /\ Extends(op[u], fat'[1], Chain')
              /\ NotShared(x, op[u]) /\ NotShared(op[u], x)
  <2>1. op[u].pc \notin {"mark", "join"} /\ Extends(op[u], fat[1], Chain) /\ op[u] \in Op
    BY <1>1 DEF GInv, Extending
  <2>2. NotShared(o, op[u]) /\ NotShared(op[u], o)
    BY DEF GInv, Extending
  <2>3. n = NumFats + NumFats => Held(o)
    BY DEF Held, n
  <2>4. ~ Fresh(op[u]) /\ ~ Joined(op[u]) /\ (Held(op[u]) <=> op[u].pc = "link")
    BY <2>1 DEF Fresh, Held, Joined
  <2>5. op[u].pc \in {"alloc", "link"} =>
          /\ op[u].last \in Clusters /\ fat'[1][op[u].last] # FREE
          /\ \A g \in Files : g # FileOf[op[u].h] => ~ Has(Chain'[g], op[u].last)
    <3> SUFFICES ASSUME op[u].pc \in {"alloc", "link"}
                 PROVE  /\ op[u].last \in Clusters /\ fat'[1][op[u].last] # FREE
                        /\ \A g \in Files : g # FileOf[op[u].h] => ~ Has(Chain'[g], op[u].last)
      OBVIOUS
    <3>1. op[u].last \in Clusters
      BY <2>1, OpKinds DEF ExtendOp
    <3>2. fat[1][op[u].last] # FREE /\ \A g \in Files : g # FileOf[op[u].h] => ~ Has(Chain[g], op[u].last)
      BY <2>1 DEF Extends
    <3>3. n = NumFats + NumFats => op[u].last # o.new
      BY <2>2, <2>3 DEF NotShared
    <3> QED BY <3>1, <3>2, <3>3, <1>13
  <2>6. op[u].pc = "link" =>
          /\ op[u].new \in Clusters /\ fat'[1][op[u].new] = EOC /\ op[u].last # op[u].new
          /\ \A g \in Files : ~ Has(Chain'[g], op[u].new)
    <3> SUFFICES ASSUME op[u].pc = "link"
                 PROVE  /\ op[u].new \in Clusters /\ fat'[1][op[u].new] = EOC /\ op[u].last # op[u].new
                        /\ \A g \in Files : ~ Has(Chain'[g], op[u].new)
      OBVIOUS
    <3>1. /\ op[u].new \in Clusters /\ fat[1][op[u].new] = EOC /\ op[u].last # op[u].new
          /\ \A g \in Files : ~ Has(Chain[g], op[u].new)
      BY <2>1, <2>4 DEF Extends
    <3>2. op[u].new # o.last /\ op[u].new # o.new
      BY <2>2, <2>4 DEF NotShared
    <3> QED BY <3>1, <3>2, <1>13
  <2>7. Extends(op[u], fat'[1], Chain')
    BY <2>1, <2>4, <2>5, <2>6 DEF Extends
  <2>8. ~ Held(x)
    <3>1. n > 1 => Joined(x)
      BY <1>14
    <3> QED BY <3>1, <1>0, <1>8 DEF Held, Joined
  <2>9. NotShared(op[u], x)
    BY <2>2, <1>0, <1>8 DEF NotShared
  <2> QED BY <2>7, <2>8, <2>9 DEF NotShared
<1>17. ASSUME failures = 0, NEW k \in Copies
       PROVE  /\ \A c \in Clusters \ {o.last, o.new} : fat'[k][c] = fat'[1][c]
              /\ k <= NumFats + NumFats - (n - 1) => fat'[k][o.last] = o.new
              /\ fat'[k][o.new] = EOC
  <2>1. Lag(o, k)
    BY <1>17 DEF GInv, Synced
  <2>2. /\ \A c \in Clusters \ {o.last, o.new} : fat[k][c] = fat[1][c]
        /\ k <= NumFats + NumFats - n => fat[k][o.last] = o.new
        /\ fat[k][o.new] = EOC
    BY <2>1 DEF Lag, n
  <2>3. \A c \in Clusters : c # at => fat'[k][c] = fat[k][c]
    BY <1>7, <1>9
  <2>4. k = k0 => fat'[k][at] = val
    BY <1>7, <1>9
  <2>5. k # k0 => fat'[k] = fat[k]
    BY <1>9
  <2>6. \A c \in Clusters \ {o.last, o.new} : fat'[k][c] = fat'[1][c]
    BY <2>2, <2>3, <1>7, <1>13
  <2>7. fat'[k][o.new] = EOC
    BY <2>2, <2>3, <2>4, <2>5, <1>2, <1>7, <1>11
  <2>8. ASSUME k <= NumFats + NumFats - (n - 1) PROVE fat'[k][o.last] = o.new
    <3>1. CASE n > NumFats
      <4>1. k = k0 \/ (k <= NumFats + NumFats - n /\ k # k0)
        BY <2>8, <3>1, <1>3 DEF k0
      <4> QED BY <4>1, <2>2, <2>4, <2>5, <3>1, <1>7
    <3>2. CASE ~ (n > NumFats)
      <4>1. k <= NumFats + NumFats - n
        BY <3>2, <1>3
      <4> QED BY <4>1, <2>2, <2>3, <3>2, <1>2, <1>7, <1>11
    <3> QED BY <3>1, <3>2
  <2> QED BY <2>6, <2>7, <2>8
<1>18. ASSUME failures = 0, n = 1 PROVE \A k \in Copies : fat'[k] = fat'[1]
  <2> SUFFICES ASSUME NEW k \in Copies PROVE fat'[k] = fat'[1]
    OBVIOUS
  <2>1. k <= NumFats + NumFats - (n - 1) /\ 1 <= NumFats + NumFats - (n - 1) /\ 1 \in Copies
    BY <1>3, <1>18
  <2>2. \A c \in Clusters : fat'[k][c] = fat'[1][c]
    BY <2>1, <1>17, <1>18
  <2>3. fat'[k] \in [Clusters -> Nat] /\ fat'[1] \in [Clusters -> Nat]
    BY <1>9, FatFacts
  <2> QED BY <2>2, <2>3
<1>19. ASSUME failures = 0, n > 1 PROVE \A k \in Copies : Lag(op[t], k)'
  <2> SUFFICES ASSUME NEW k \in Copies PROVE Lag(op[t], k)'
    OBVIOUS
  <2>1. op'[t] = x /\ x.pc = "join" /\ x.new = o.new /\ x.last = o.last /\ Len(x.todo) = n - 1
    BY <1>1, <1>4, <1>6, <1>8, <1>19
  <2>2. /\ \A c \in Clusters \ {o.last, o.new} : fat'[k][c] = fat'[1][c]
        /\ k <= NumFats + NumFats - (n - 1) => fat'[k][o.last] = o.new
        /\ fat'[k][o.new] = EOC
    BY <1>17, <1>19
  <2> QED BY <2>1, <2>2 DEF Lag
<1>20. /\ x.pc \in {"mark", "join"} <=> n > 1
       /\ fat_lock' = IF x.pc \in {"mark", "join"} THEN t ELSE NoThread
  BY <1>0, <1>4, <1>6, <1>8
<1>21. GInv'
  BY <1>0, <1>1, <1>6, <1>8, <1>10, <1>13, <1>15, <1>16, <1>18, <1>19, <1>20, Assemble
<1> QED BY <1>3, <1>8, <1>12, <1>13, <1>21 DEF n
-----------------------------------------------------------------------------
(***************************************************************************)
(* Offsets: the cluster of a byte, and its place in the cluster.           *)
(***************************************************************************)

LEMMA DivMod ==
  ASSUME NEW d \in Nat \ {0}, NEW i \in Nat
  PROVE  /\ i \div d \in Nat /\ i % d \in 0 .. d - 1
         /\ d * (i \div d) \in Nat /\ i = d * (i \div d) + (i % d)
<1>1. i \div d \in Nat
  OBVIOUS
<1>2. i % d \in 0 .. d - 1
  OBVIOUS
<1>3. i % d = i - d * (i \div d)
  BY d > 0, SMTT(30)
<1>4. \A q \in Nat : d * q \in Nat
  OBVIOUS
<1>5. d * (i \div d) \in Nat /\ i % d \in Nat
  BY <1>1, <1>2, <1>4
<1> DEFINE m == d * (i \div d)
           r == i % d
<1>6. i = m + r
  <2> HIDE DEF m, r
  <2>1. m \in Nat /\ r \in Nat /\ r = i - m
    BY <1>3, <1>5 DEF m, r
  <2> QED BY <2>1
<1> QED BY <1>1, <1>2, <1>5, <1>6

LEMMA DivUnique ==
  ASSUME NEW d \in Nat \ {0}, NEW q \in Nat, NEW r \in 0 .. d - 1
  PROVE  (d * q + r) \div d = q /\ (d * q + r) % d = r
  OBVIOUS

\* The bytes of one turn of the data loop: n bytes from pos on, all of them in
\* the cluster of pos.
Turn(o, n) ==
  /\ n \in Nat /\ n >= 1 /\ o.pos + n <= o.to
  /\ (o.pos % ClusterBytes) \in Nat /\ (o.pos % ClusterBytes) + n <= ClusterBytes
  /\ Part(o) = (o.pos % ClusterBytes) .. (o.pos % ClusterBytes) + n - 1
  /\ Cardinality(Part(o)) = n
  /\ \A j \in 0 .. n - 1 : /\ (o.pos + j) \div ClusterBytes = o.pos \div ClusterBytes
                           /\ (o.pos + j) % ClusterBytes = (o.pos % ClusterBytes) + j

LEMMA PartFacts ==
  ASSUME NEW o, o.pos \in Nat, o.to \in Nat, o.pos < o.to
  PROVE  Turn(o, Cardinality(Part(o)))
<1> DEFINE d == ClusterBytes
           p == o.pos
           q == p \div d
           r == p % d
           b == d * q
           n == IF o.to - p < d - r THEN o.to - p ELSE d - r
<1>1. d \in Nat \ {0} /\ q \in Nat /\ r \in 0 .. d - 1 /\ b \in Nat /\ p = b + r /\ b = q * d /\ p < o.to
  <2>1. d \in Nat \ {0} /\ p \in Nat /\ p < o.to
    BY FatFacts
  <2>2. q \in Nat /\ r \in 0 .. d - 1 /\ b \in Nat /\ p = b + r
    BY <2>1, DivMod
  <2>3. \A m \in Nat : d * m = m * d
    BY <2>1
  <2> QED BY <2>1, <2>2, <2>3
<1>2. \A s \in 0 .. d - 1 : (b + s) \div d = q /\ (b + s) % d = s
  BY <1>1, DivUnique
<1>3. Part(o) = {i \in 0 .. d - 1 : p <= b + i /\ b + i < o.to}
  <2>1. b = (o.pos \div ClusterBytes) * ClusterBytes
    BY <1>1
  <2> HIDE DEF b
  <2> QED BY <2>1 DEF Part
<1> HIDE DEF d, p, q, r, b
<1>4. n \in Nat /\ n >= 1 /\ r + n <= d /\ p + n <= o.to
  BY <1>1
<1>5. {i \in 0 .. d - 1 : p <= b + i /\ b + i < o.to} = r .. r + n - 1
  BY <1>1
<1>6. Cardinality(r .. r + n - 1) = n
  <2> DEFINE c == r + n - 1
  <2> HIDE DEF n
  <2>1. r \in Int /\ c \in Int /\ ~ (r > c) /\ c - r + 1 = n
    BY <1>1, <1>4
  <2> HIDE DEF c
  <2>2. Cardinality(r .. c) = c - r + 1
    BY <2>1, FS_Interval
  <2> QED BY <2>1, <2>2 DEF c
<1>7. \A j \in 0 .. n - 1 : (p + j) \div d = q /\ (p + j) % d = r + j
  <2> TAKE j \in 0 .. n - 1
  <2>1. r + j \in 0 .. d - 1 /\ p + j = b + (r + j)
    BY <1>1, <1>4
  <2> QED BY <2>1, <1>2
<1> HIDE DEF n
<1>8. Turn(o, n) /\ Cardinality(Part(o)) = n
  <2>1. Part(o) = r .. r + n - 1 /\ Cardinality(Part(o)) = n /\ r \in Nat
    <3>1. Part(o) = r .. r + n - 1
      BY <1>3, <1>5, Zenon
    <3> QED BY <3>1, <1>1, <1>6
  <2> QED BY <2>1, <1>4, <1>7 DEF Turn, d, p, q, r
<1> QED BY <1>8
-----------------------------------------------------------------------------
(***************************************************************************)
(* The steps that write no FAT sector.                                     *)
(***************************************************************************)

\* The chain a handle reads.
LEMMA ChainRead ==
  ASSUME GInv, NEW h \in Handles
  PROVE  /\ FileOf[h] \in Files /\ get_chain(Start(h)) = Chain[FileOf[h]]
         /\ IsChain(fat[1], StartOf[FileOf[h]], Chain[FileOf[h]])
         /\ Chain[FileOf[h]] \in Seq(Clusters) /\ Len(Chain[FileOf[h]]) \in 1 .. TotalClusters
<1>1. FileOf[h] \in Files
  BY FatFacts
<1>2. get_chain(Start(h)) = Chain[FileOf[h]]
  BY <1>1 DEF Start, Chain, ChainOf
<1>3. IsChain(fat[1], StartOf[FileOf[h]], Chain[FileOf[h]])
  BY <1>1 DEF GInv, Linked
<1> QED BY <1>1, <1>2, <1>3, ChainShort DEF IsChain

\* The loop of write starts with a typed record.
LEMMA EnterTyped ==
  ASSUME GInv, NEW o, o.h \in Handles, o.from \in Nat, o.to \in Nat, o.v \in Nat, o.over \in SUBSET Nat
  PROVE  /\ EnterData(o) \in DataOp /\ EnterData(o) \in Op /\ EnterData(o).pc = "data"
         /\ EnterData(o) = [pc |-> "data", h |-> o.h, from |-> o.from, to |-> o.to, v |-> o.v, over |-> o.over,
                            pos |-> o.from, chain |-> Chain[FileOf[o.h]], buf |-> <<>>]
<1>1. get_chain(Start(o.h)) = Chain[FileOf[o.h]] /\ Chain[FileOf[o.h]] \in Seq(Clusters)
  BY ChainRead
<1>2. EnterData(o) = [pc |-> "data", h |-> o.h, from |-> o.from, to |-> o.to, v |-> o.v, over |-> o.over,
                      pos |-> o.from, chain |-> Chain[FileOf[o.h]], buf |-> <<>>]
  BY <1>1 DEF EnterData
<1>3. EnterData(o) \in DataOp /\ EnterData(o).pc = "data"
  BY <1>1, <1>2 DEF DataOp
<1> QED BY <1>2, <1>3 DEF Op

\* The number of clusters for some bytes, and the bytes they hold.
LEMMA ClustersForFacts ==
  ASSUME NEW n \in Nat
  PROVE  /\ ClustersFor(n) \in Nat /\ n <= ClusterBytes * ClustersFor(n)
         /\ \A m \in Nat : n <= ClusterBytes * m => ClustersFor(n) <= m
<1> DEFINE d == ClusterBytes
           a == n + d - 1
           q == a \div d
           r == a % d
           b == d * q
<1>1. d \in Nat \ {0} /\ a \in Nat
  BY FatFacts
<1>2. q \in Nat /\ r \in 0 .. d - 1 /\ b \in Nat /\ a = b + r
  BY <1>1, DivMod
<1>3. n <= b
  <2> HIDE DEF q, r, b
  <2> QED BY <1>1, <1>2
<1>4. ASSUME NEW m \in Nat, n <= d * m, ~ (q <= m) PROVE FALSE
  <2>1. d * q >= d * (m + 1)
    <3>1. q >= m + 1
      <4> HIDE DEF q
      <4> QED BY <1>2, <1>4
    <3>2. \A x, y \in Nat : x >= y => d * x >= d * y
      BY <1>1
    <3> HIDE DEF q
    <3> QED BY <3>1, <3>2, <1>2
  <2>2. d * (m + 1) = d * m + d /\ d * m \in Nat
    BY <1>1
  <2> DEFINE e == d * m
  <2> HIDE DEF b, e, r
  <2>3. b >= e + d /\ e \in Nat /\ n <= e
    BY <2>1, <2>2, <1>4 DEF b, e
  <2> QED BY <2>3, <1>1, <1>2
<1>5. ClustersFor(n) = q
  BY DEF ClustersFor
<1> QED BY <1>2, <1>3, <1>4, <1>5
\* The record a write starts with: with a chain to extend, or with the data.
Started(x, h, from, to) ==
  /\ x \in Op /\ x.h = h /\ x.from = from /\ x.to = to /\ x.v = calls + 1 /\ x.over = Over(FileOf[h])
  /\ \/ /\ x \in ExtendOp /\ x.pc = "alloc"
        /\ x.last = Chain[FileOf[h]][Len(Chain[FileOf[h]])]
        /\ x.missing = ClustersFor(to) - Len(Chain[FileOf[h]]) /\ x.missing >= 1
        /\ to > size[h] /\ size' = size
     \/ /\ x \in DataOp /\ x.pc = "data" /\ x.pos = from /\ x.chain = Chain[FileOf[h]] /\ x.buf = <<>>
        /\ to <= size[h] \/ ClustersFor(to) <= Len(Chain[FileOf[h]])
        /\ size' = [size EXCEPT ![h] = IF to > size[h] THEN to ELSE size[h]]

LEMMA WriteEffect ==
  ASSUME GInv, NEW t \in Threads, NEW h \in Handles, NEW from \in Nat, NEW len \in Nat,
         write(t, h, from, len)
  PROVE  \E x : Started(x, h, from, from + len) /\ op' = [op EXCEPT ![t] = x]
<1> DEFINE to == from + len
           c == Chain[FileOf[h]]
           n == ClustersFor(to) - Len(c)
           o == [h |-> h, from |-> from, to |-> to, v |-> calls + 1, over |-> Over(FileOf[h])]
           y == [pc |-> "alloc", h |-> h, from |-> from, to |-> to, v |-> calls + 1, over |-> Over(FileOf[h]),
                 last |-> c[Len(c)], missing |-> n, new |-> FREE, todo |-> <<>>]
<1>1. get_chain(Start(h)) = c /\ c \in Seq(Clusters) /\ Len(c) \in 1 .. TotalClusters /\ c[Len(c)] \in Clusters
  BY ChainRead DEF IsChain
<1>2. calls + 1 \in Nat /\ Over(FileOf[h]) \in SUBSET Nat /\ to \in Nat /\ size[h] \in Nat
  BY DEF Over, GInv, TypeOK
<1>3. n \in Int /\ Len(c) \in Nat /\ ClustersFor(to) \in Nat
  <2>1. to \in Nat /\ Len(c) \in Nat
    BY <1>1, <1>2
  <2> HIDE DEF to, c
  <2>2. ClustersFor(to) \in Nat
    BY <2>1, ClustersForFacts
  <2> QED BY <2>1, <2>2
<1>4. CASE to > size[h] /\ n > 0
  <2>1. op' = [op EXCEPT ![t] = y] /\ size' = size
    BY <1>1, <1>4 DEF write
  <2>2. n \in Nat /\ n >= 1 /\ <<>> \in Seq(FatWrite) /\ FREE \in Nat
    BY <1>3, <1>4, FatFacts
  <2> HIDE DEF n, c
  <2>3. y \in ExtendOp
    BY <2>2, <1>1, <1>2 DEF ExtendOp
  <2>4. Started(y, h, from, to)
    BY <2>1, <2>2, <2>3, <1>4 DEF Started, Op, n, c
  <2> QED BY <2>1, <2>4
<1>5. CASE ~ (to > size[h] /\ n > 0)
  <2> DEFINE z == EnterData(o)
  <2>1. /\ op' = [op EXCEPT ![t] = z]
        /\ size' = [size EXCEPT ![h] = IF to > size[h] THEN to ELSE size[h]]
    BY <1>1, <1>5 DEF write
  <2>2. to <= size[h] \/ ClustersFor(to) <= Len(c)
    <3> HIDE DEF to, c
    <3> QED BY <1>2, <1>3, <1>5
  <2>3. z \in DataOp /\ z = [pc |-> "data", h |-> h, from |-> from, to |-> to, v |-> calls + 1,
                             over |-> Over(FileOf[h]), pos |-> from, chain |-> c, buf |-> <<>>]
    BY <1>2, EnterTyped
  <2> HIDE DEF z, c
  <2>4. Started(z, h, from, to)
    BY <2>1, <2>2, <2>3 DEF Started, Op, c
  <2> QED BY <2>1, <2>4
<1> QED BY <1>4, <1>5

LEMMA WriteStep ==
  ASSUME GInv, NEW t \in Threads, NEW h \in Handles, NEW from \in Nat, NEW len \in Nat,
         write(t, h, from, len)
  PROVE  GInv'
<1> DEFINE to == from + len
           c == Chain[FileOf[h]]
<1>1. PICK x : Started(x, h, from, to) /\ op' = [op EXCEPT ![t] = x]
  BY WriteEffect
<1>2. op[t] = Idle /\ op[t].pc = "idle" /\ fat_lock # t
  <2>1. op[t] = Idle
    BY DEF write
  <2>2. op[t].pc = "idle"
    BY <2>1 DEF Idle
  <2> QED BY <2>1, <2>2 DEF GInv, Locked
<1>3. fat' = fat /\ fat_lock' = fat_lock /\ fat_lock' = Owns(t) /\ failures' = failures /\ disk' = disk
  BY <1>2 DEF write, Owns
<1>4. TypeOK'
  <2>1. TypeOK
    BY DEF GInv
  <2>2. calls \in Nat /\ calls' = calls + 1
    BY <2>1 DEF write, TypeOK
  <2>3. size' \in [Handles -> Nat]
    <3>1. size \in [Handles -> Nat] /\ to \in Nat
      BY <2>1 DEF TypeOK
    <3>2. size' = size \/ size' = [size EXCEPT ![h] = to] \/ size' = [size EXCEPT ![h] = size[h]]
      BY <1>1 DEF Started
    <3> QED BY <3>1, <3>2
  <2>4. op' \in [Threads -> Op]
    BY <2>1, <1>1 DEF Started, TypeOK
  <2>5. contents' \in [Files -> [0 .. ClusterBytes * TotalClusters - 1 -> SUBSET Nat]]
    <3> DEFINE B == 0 .. ClusterBytes * TotalClusters - 1
               f == FileOf[h]
               g == [i \in DOMAIN contents[f] |->
                       IF i \in from .. to - 1 THEN contents[f][i] \cup {calls + 1} ELSE contents[f][i]]
    <3>1. contents' = [contents EXCEPT ![f] = g]
      BY DEF write, Put
    <3>2. contents \in [Files -> [B -> SUBSET Nat]] /\ f \in Files
      BY <2>1, FatFacts DEF TypeOK
    <3> HIDE DEF B, f
    <3>3. g \in [B -> SUBSET Nat]
      BY <2>2, <3>2
    <3> HIDE DEF g
    <3> QED BY <3>1, <3>2, <3>3 DEF B
  <2> QED BY <2>1, <2>2, <2>3, <2>4, <2>5, <1>3 DEF TypeOK
<1>5. x \in Op /\ x.pc \in {"alloc", "data"}
  BY <1>1 DEF Started
<1>6. ASSUME x.pc = "alloc"
      PROVE  /\ fat[1][x.last] # FREE
             /\ \A g \in Files : g # FileOf[x.h] => ~ Has(Chain[g], x.last)
             /\ \A u \in Threads \ {t} : Held(op[u]) => x.last # op[u].new
  <2>1. x.last = c[Len(c)] /\ x.h = h
    BY <1>1, <1>6 DEF Started
  <2>2. FileOf[h] \in Files /\ IsChain(fat[1], StartOf[FileOf[h]], c) /\ Len(c) \in 1 .. TotalClusters
    BY ChainRead
  <2>3. fat[1][x.last] = EOC /\ x.last \in Clusters /\ Has(c, x.last)
    BY <2>1, <2>2 DEF IsChain, Has
  <2>4. \A g \in Files : g # FileOf[x.h] => ~ Has(Chain[g], x.last)
    BY <2>1, <2>2, <2>3 DEF GInv, Linked
  <2>5. \A u \in Threads \ {t} : Held(op[u]) => x.last # op[u].new
    BY <2>2, <2>3 DEF GInv, Extending, Extends
  <2> QED BY <2>3, <2>4, <2>5, FatFacts
<1> QED BY <1>1, <1>2, <1>3, <1>4, <1>5, <1>6, QuietStep
\* A thread that writes no FAT sector does not hold fat_lock.
LEMMA LockKept ==
  ASSUME GInv, NEW t \in Threads, op[t].pc \notin {"mark", "join"}, fat_lock' = fat_lock
  PROVE  fat_lock' = Owns(t)
BY DEF GInv, Locked, Owns

\* A cluster of the loop's chain, while there is more to do.
LEMMA ClusterTyped ==
  ASSUME NEW o, o.pos \in Nat, o.to \in Nat, o.chain \in Seq(Clusters), More(o)
  PROVE  /\ o.pos < o.to /\ (o.pos \div ClusterBytes) + 1 \in 1 .. Len(o.chain)
         /\ Cluster(o) = o.chain[(o.pos \div ClusterBytes) + 1] /\ Cluster(o) \in Clusters
<1>1. ClusterBytes \in Nat \ {0}
  BY FatFacts
<1>2. o.pos \div ClusterBytes \in Nat
  BY <1>1, DivMod
<1>3. o.pos < o.to /\ o.pos \div ClusterBytes < Len(o.chain)
  BY DEF More
<1> DEFINE q == o.pos \div ClusterBytes
<1> HIDE DEF q
<1>4. q + 1 \in 1 .. Len(o.chain)
  BY <1>2, <1>3 DEF q
<1> QED BY <1>3, <1>4 DEF Cluster, q

\* extend_file has returned.
LEMMA ExtendedStep ==
  ASSUME GInv, NEW t \in Threads, extended(t)
  PROVE  GInv'
<1> DEFINE o == op[t]
           x == EnterData(o)
<1>1. o.pc = "extended" /\ TypeOK /\ o \in Op
  BY DEF extended, GInv, TypeOK
<1>2. o.h \in Handles /\ o.from \in Nat /\ o.to \in Nat /\ o.v \in Nat /\ o.over \in SUBSET Nat
  BY <1>1, OpKinds DEF ExtendOp
<1>3. x \in Op /\ x.pc = "data"
  BY <1>2, EnterTyped
<1>4. /\ op' = [op EXCEPT ![t] = x] /\ size' = [size EXCEPT ![o.h] = o.to]
      /\ UNCHANGED <<fat, disk, fat_lock, calls, failures, contents>>
  BY DEF extended
<1> HIDE DEF x
<1>5. TypeOK'
  <2>1. size' \in [Handles -> Nat] /\ op' \in [Threads -> Op]
    BY <1>1, <1>2, <1>3, <1>4 DEF TypeOK
  <2> QED BY <2>1, <1>1, <1>4 DEF TypeOK
<1> QED BY <1>1, <1>3, <1>4, <1>5, LockKept, QuietStep

\* What sector_read and sector_write do.
LEMMA SectorReadEffect ==
  ASSUME TypeOK, NEW t \in Threads, sector_read(t)
  PROVE  \E x \in DataOp :
           /\ op[t] \in DataOp /\ op[t].pc = "data" /\ More(op[t])
           /\ op' = [op EXCEPT ![t] = x] /\ x.pc = "sector"
           /\ x = [op[t] EXCEPT !.pc = "sector", !.buf = x.buf] /\ x.buf \in Bytes
           /\ Part(op[t]) # 0 .. ClusterBytes - 1 => x.buf = disk[Cluster(op[t])]
           /\ UNCHANGED <<fat, disk, size, fat_lock, calls, failures, contents>>
<1> DEFINE o == op[t]
           b == IF Part(o) # 0 .. ClusterBytes - 1 THEN disk[Cluster(o)] ELSE [i \in 0 .. ClusterBytes - 1 |-> 0]
           x == [o EXCEPT !.pc = "sector", !.buf = b]
<1>1. /\ o.pc = "data" /\ More(o) /\ op' = [op EXCEPT ![t].pc = "sector", ![t].buf = b]
      /\ UNCHANGED <<fat, disk, size, fat_lock, calls, failures, contents>>
  BY DEF sector_read
<1>2. o \in Op /\ op \in [Threads -> Op] /\ disk \in [Clusters -> Bytes]
  BY DEF TypeOK
<1>3. o \in DataOp
  BY <1>1, <1>2, OpKinds
<1>4. Cluster(o) \in Clusters
  BY <1>1, <1>3, ClusterTyped DEF DataOp
<1>5. b \in Bytes /\ (Part(o) # 0 .. ClusterBytes - 1 => b = disk[Cluster(o)])
  BY <1>2, <1>4 DEF Bytes
<1> HIDE DEF b
<1>6. op' = [op EXCEPT ![t] = x]
  BY <1>1, <1>2
<1>7. x.pc = "sector" /\ x.buf = b /\ x.pos = o.pos /\ x.to = o.to /\ x.chain = o.chain
  BY <1>3 DEF DataOp
<1>8. More(x)
  BY <1>1, <1>7 DEF More
<1>9. x \in DataOp
  BY <1>3, <1>5, <1>7, <1>8 DEF DataOp
<1> HIDE DEF x
<1> QED BY <1>1, <1>3, <1>5, <1>6, <1>7, <1>9 DEF x

LEMMA SectorWriteEffect ==
  ASSUME TypeOK, NEW t \in Threads, sector_write(t)
  PROVE  \E x \in DataOp :
           /\ op[t] \in DataOp /\ op[t].pc = "sector" /\ More(op[t]) /\ op[t].buf \in Bytes
           /\ op' = [op EXCEPT ![t] = x] /\ x.pc = "data"
           /\ x = [op[t] EXCEPT !.pc = "data", !.pos = op[t].pos + Cardinality(Part(op[t])), !.buf = <<>>]
           /\ Turn(op[t], Cardinality(Part(op[t]))) /\ Cluster(op[t]) \in Clusters
           /\ disk' = [disk EXCEPT ![Cluster(op[t])] =
                         [i \in 0 .. ClusterBytes - 1 |-> IF i \in Part(op[t]) THEN op[t].v ELSE op[t].buf[i]]]
           /\ disk' \in [Clusters -> Bytes]
           /\ UNCHANGED <<fat, size, fat_lock, calls, failures, contents>>
<1> DEFINE o == op[t]
           n == Cardinality(Part(o))
           x == [o EXCEPT !.pc = "data", !.pos = o.pos + n, !.buf = <<>>]
           b == [i \in 0 .. ClusterBytes - 1 |-> IF i \in Part(o) THEN o.v ELSE o.buf[i]]
<1>1. /\ o.pc = "sector"
      /\ op' = [op EXCEPT ![t].pc = "data", ![t].pos = @ + n, ![t].buf = <<>>]
      /\ UNCHANGED <<fat, size, fat_lock, calls, failures, contents>>
  BY DEF sector_write
<1>2. o \in Op /\ op \in [Threads -> Op] /\ disk \in [Clusters -> Bytes]
  BY DEF TypeOK
<1>3. o \in DataOp /\ More(o) /\ o.buf \in Bytes /\ o.v \in Nat
  BY <1>1, <1>2, OpKinds DEF DataOp
<1>4. Cluster(o) \in Clusters /\ o.pos < o.to /\ o.pos \in Nat /\ o.to \in Nat
  BY <1>3, ClusterTyped DEF DataOp
<1>5. Turn(o, n) /\ n \in Nat /\ o.pos + n \in Nat
  BY <1>4, PartFacts DEF Turn
<1>6. disk' = [disk EXCEPT ![Cluster(o)] = b]
  <2>1. disk' = [disk EXCEPT ![Cluster(o)] = [i \in DOMAIN disk[Cluster(o)] |-> IF i \in Part(o) THEN o.v ELSE o.buf[i]]]
    BY DEF sector_write
  <2>2. DOMAIN disk[Cluster(o)] = 0 .. ClusterBytes - 1
    BY <1>2, <1>4 DEF Bytes
  <2> QED BY <2>1, <2>2
<1>7. b \in Bytes
  BY <1>3 DEF Bytes
<1> HIDE DEF b
<1>8. disk' \in [Clusters -> Bytes]
  BY <1>2, <1>6, <1>7
<1> HIDE DEF n
<1>9. op' = [op EXCEPT ![t] = x]
  BY <1>1, <1>2
<1>10. x \in DataOp /\ x.pc = "data"
  BY <1>3, <1>5 DEF DataOp
<1> HIDE DEF x
<1> QED BY <1>1, <1>3, <1>4, <1>5, <1>6, <1>8, <1>9, <1>10 DEF x, b, n

LEMMA SectorSteps ==
  ASSUME GInv, NEW t \in Threads, sector_read(t) \/ sector_write(t)
  PROVE  GInv'
<1>1. TypeOK
  BY DEF GInv
<1>2. CASE sector_read(t)
  <2>1. PICK x \in DataOp :
          /\ op[t] \in DataOp /\ op[t].pc = "data" /\ op' = [op EXCEPT ![t] = x] /\ x.pc = "sector"
          /\ UNCHANGED <<fat, disk, size, fat_lock, calls, failures, contents>>
    BY <1>1, <1>2, SectorReadEffect
  <2>2. TypeOK' /\ x \in Op
    BY <2>1, <1>1 DEF TypeOK, Op
  <2> QED BY <2>1, <2>2, LockKept, QuietStep
<1>3. CASE sector_write(t)
  <2>1. PICK x \in DataOp :
          /\ op[t] \in DataOp /\ op[t].pc = "sector" /\ op' = [op EXCEPT ![t] = x] /\ x.pc = "data"
          /\ disk' \in [Clusters -> Bytes]
          /\ UNCHANGED <<fat, size, fat_lock, calls, failures, contents>>
    BY <1>1, <1>3, SectorWriteEffect
  <2>2. TypeOK' /\ x \in Op
    BY <2>1, <1>1 DEF TypeOK, Op
  <2> QED BY <2>1, <2>2, LockKept, QuietStep
<1> QED BY <1>2, <1>3
\* The smaller of two numbers, which is how read bounds its length.
LEMMA MinOfTwo ==
  ASSUME NEW a \in Nat, NEW b \in Nat
  PROVE  Min({a, b}) \in Nat /\ Min({a, b}) <= a /\ Min({a, b}) <= b
<1>1. \E x \in {a, b} : \A y \in {a, b} : x <= y
  <2>1. a <= b \/ b <= a
    OBVIOUS
  <2> QED BY <2>1
<1>2. Min({a, b}) \in {a, b} /\ \A y \in {a, b} : Min({a, b}) <= y
  BY <1>1 DEF Min
<1> QED BY <1>2

LEMMA ReadEffect ==
  ASSUME GInv, NEW t \in Threads, NEW h \in Handles, NEW from \in Nat, NEW len \in Nat,
         read(t, h, from, len)
  PROVE  \E x \in ReadOp :
           /\ op[t] = Idle /\ op' = [op EXCEPT ![t] = x] /\ x.h = h /\ x.from = from /\ x.pos = from
           /\ x.to <= size[h] /\ x.chain = Chain[FileOf[h]] /\ x.got = <<>>
           /\ from < size[h] /\ (x.from <= x.to) /\ calls' = calls + 1
           /\ UNCHANGED <<fat, disk, size, fat_lock, failures, contents>>
<1> DEFINE m == Min({from + len, size[h]})
           x == [pc |-> "read", h |-> h, from |-> from, to |-> m, pos |-> from,
                 chain |-> Chain[FileOf[h]], got |-> <<>>]
<1>1. get_chain(Start(h)) = Chain[FileOf[h]] /\ Chain[FileOf[h]] \in Seq(Clusters)
  BY ChainRead
<1>2. /\ op[t] = Idle /\ op' = [op EXCEPT ![t] = x] /\ calls' = calls + 1 /\ from < size[h]
      /\ UNCHANGED <<fat, disk, size, fat_lock, failures, contents>>
  BY <1>1 DEF read
<1>3. size[h] \in Nat
  BY DEF GInv, TypeOK
<1>4. m \in Nat /\ m <= size[h] /\ from <= m
  <2>1. from + len \in Nat /\ \E y \in {from + len, size[h]} : \A z \in {from + len, size[h]} : y <= z
    <3>1. from + len <= size[h] \/ size[h] <= from + len
      BY <1>3
    <3> QED BY <3>1, <1>3
  <2>2. m \in {from + len, size[h]}
    BY <2>1 DEF Min
  <2>3. m \in Nat /\ m <= size[h]
    BY <2>1, <1>3, MinOfTwo
  <2> HIDE DEF m
  <2> QED BY <2>2, <2>3, <1>2, <1>3
<1> HIDE DEF m
<1>5. x \in ReadOp
  BY <1>1, <1>4 DEF ReadOp
<1> QED BY <1>2, <1>4, <1>5

\* A turn of the loop of read.
LEMMA ReadSectorEffect ==
  ASSUME TypeOK, NEW t \in Threads, read_sector(t)
  PROVE  \E x \in ReadOp :
           LET o == op[t]
               n == Cardinality(Part(o))
           IN  /\ o \in ReadOp /\ More(o) /\ op' = [op EXCEPT ![t] = x] /\ Turn(o, n)
               /\ x = [o EXCEPT !.pos = o.pos + n, !.got = x.got]
               /\ Len(x.got) = Len(o.got) + n
               /\ \A i \in 1 .. Len(o.got) : x.got[i] = o.got[i]
               /\ \A i \in 1 .. n : x.got[Len(o.got) + i] = ByteAt(o.chain, o.pos + i - 1)
               /\ UNCHANGED <<fat, disk, size, fat_lock, calls, failures, contents>>
<1> DEFINE o == op[t]
           n == Cardinality(Part(o))
           s == [i \in 1 .. n |-> ByteAt(o.chain, o.pos + i - 1)]
           g == o.got \o s
           x == [o EXCEPT !.pos = o.pos + n, !.got = g]
<1>1. /\ o.pc = "read" /\ More(o)
      /\ op' = [op EXCEPT ![t].pos = @ + n, ![t].got = @ \o s]
      /\ UNCHANGED <<fat, disk, size, fat_lock, calls, failures, contents>>
  BY DEF read_sector
<1>2. o \in Op /\ op \in [Threads -> Op] /\ disk \in [Clusters -> Bytes]
  BY DEF TypeOK
<1>3. o \in ReadOp
  BY <1>1, <1>2, OpKinds
<1>4. /\ o.pos \in Nat /\ o.to \in Nat /\ o.pos < o.to /\ o.got \in Seq(Nat)
      /\ o.chain[(o.pos \div ClusterBytes) + 1] \in Clusters
  BY <1>1, <1>3, ClusterTyped DEF ReadOp
<1>5. Turn(o, n) /\ n \in Nat /\ o.pos + n \in Nat
  BY <1>4, PartFacts DEF Turn
<1>6. \A i \in 1 .. n : ByteAt(o.chain, o.pos + i - 1) \in Nat
  <2> TAKE i \in 1 .. n
  <2> DEFINE j == i - 1
             r == o.pos % ClusterBytes
  <2>1. j \in 0 .. n - 1 /\ o.pos + i - 1 = o.pos + j
    BY <1>4, <1>5
  <2>2. (o.pos + j) \div ClusterBytes = o.pos \div ClusterBytes /\ (o.pos + j) % ClusterBytes = r + j
    BY <2>1, <1>5 DEF Turn
  <2>3. r + j \in 0 .. ClusterBytes - 1
    <3>1. r \in Nat /\ r + n <= ClusterBytes /\ ClusterBytes \in Nat
      BY <1>5, FatFacts DEF Turn
    <3> HIDE DEF r, j
    <3> QED BY <3>1, <2>1, <1>5
  <2>4. ByteAt(o.chain, o.pos + i - 1) = disk[o.chain[(o.pos \div ClusterBytes) + 1]][r + j]
    BY <2>1, <2>2 DEF ByteAt
  <2> DEFINE c == o.chain[(o.pos \div ClusterBytes) + 1]
             m == r + j
  <2>5. c \in Clusters /\ m \in 0 .. ClusterBytes - 1 /\ ByteAt(o.chain, o.pos + i - 1) = disk[c][m]
    BY <2>3, <2>4, <1>4
  <2> HIDE DEF c, m
  <2> QED BY <2>5, <1>2 DEF Bytes
<1> HIDE DEF n
<1>7. s \in Seq(Nat) /\ Len(s) = n /\ \A i \in 1 .. n : s[i] = ByteAt(o.chain, o.pos + i - 1)
  <2>1. s \in [1 .. n -> Nat]
    BY <1>6
  <2>2. \A i \in 1 .. n : s[i] = ByteAt(o.chain, o.pos + i - 1)
    OBVIOUS
  <2> HIDE DEF s
  <2> QED BY <2>1, <2>2, <1>5
<1> HIDE DEF s
<1>8. /\ g \in Seq(Nat) /\ Len(g) = Len(o.got) + n
      /\ \A i \in 1 .. Len(o.got) : g[i] = o.got[i]
      /\ \A i \in 1 .. n : g[Len(o.got) + i] = s[i]
  <2> DEFINE p == o.got
  <2>1. p \in Seq(Nat) /\ s \in Seq(Nat) /\ Len(s) = n /\ n \in Nat /\ g = p \o s
    BY <1>4, <1>5, <1>7
  <2> HIDE DEF p, g
  <2>2. g \in Seq(Nat) /\ Len(g) = Len(p) + n
    <3>1. \A a, b \in Seq(Nat) : a \o b \in Seq(Nat) /\ Len(a \o b) = Len(a) + Len(b)
      OBVIOUS
    <3> QED BY <2>1, <3>1
  <2>3. \A i \in 1 .. Len(p) : g[i] = p[i]
    BY <2>1
  <2>4. \A i \in 1 .. n : g[Len(p) + i] = s[i]
    BY <2>1
  <2> QED BY <2>2, <2>3, <2>4 DEF p
<1>9. op' = [op EXCEPT ![t] = x]
  BY <1>1, <1>2
<1> HIDE DEF g
<1>10. x \in ReadOp /\ x.got = g
  BY <1>3, <1>5, <1>8 DEF ReadOp
<1> HIDE DEF x
<1>11. x = [o EXCEPT !.pos = o.pos + n, !.got = x.got]
  BY <1>10 DEF x
<1> QED BY <1>1, <1>3, <1>5, <1>7, <1>8, <1>9, <1>10, <1>11 DEF n

LEMMA ReadSteps ==
  ASSUME GInv, NEW t \in Threads,
         \/ \E h \in Handles, from \in Nat, len \in Nat : read(t, h, from, len)
         \/ read_sector(t)
  PROVE  GInv'
<1>1. TypeOK
  BY DEF GInv
<1>2. CASE \E h \in Handles, from \in Nat, len \in Nat : read(t, h, from, len)
  <2>1. PICK x \in ReadOp :
          /\ op[t] = Idle /\ op' = [op EXCEPT ![t] = x] /\ calls' = calls + 1
          /\ UNCHANGED <<fat, disk, size, fat_lock, failures, contents>>
    BY <1>2, ReadEffect
  <2>2. x \in Op /\ x.pc = "read" /\ op[t].pc = "idle"
    BY <2>1 DEF Op, ReadOp, Idle
  <2>3. TypeOK'
    BY <2>1, <2>2, <1>1 DEF TypeOK
  <2> QED BY <2>1, <2>2, <2>3, LockKept, QuietStep
<1>3. CASE read_sector(t)
  <2>1. PICK x \in ReadOp :
          /\ op[t] \in ReadOp /\ op' = [op EXCEPT ![t] = x]
          /\ UNCHANGED <<fat, disk, size, fat_lock, calls, failures, contents>>
    BY <1>1, <1>3, ReadSectorEffect
  <2>2. x \in Op /\ x.pc = "read" /\ op[t].pc = "read"
    BY <2>1 DEF Op, ReadOp
  <2>3. TypeOK'
    BY <2>1, <2>2, <1>1 DEF TypeOK
  <2> QED BY <2>1, <2>2, <2>3, LockKept, QuietStep
<1> QED BY <1>2, <1>3

\* The steps that end a call.
LEMMA ReturnSteps ==
  ASSUME GInv, NEW t \in Threads,
         disk_full(t) \/ write_done(t) \/ read_done(t) \/ io_error(t)
  PROVE  GInv'
<1>1. TypeOK /\ Idle \in Op /\ Idle.pc = "idle"
  BY DEF GInv, Op, Idle
<1>2. op' = [op EXCEPT ![t] = Idle] /\ fat_lock' = Owns(t) /\ fat' = fat /\ disk' = disk /\ size' = size /\ calls' = calls
  BY DEF disk_full, write_done, read_done, io_error, Return
<1>3. contents' \in [Files -> [0 .. ClusterBytes * TotalClusters - 1 -> SUBSET Nat]]
  <2>1. CASE write_done(t)
    <3> DEFINE o == op[t]
               B == 0 .. ClusterBytes * TotalClusters - 1
               f == FileOf[o.h]
               g == [i \in DOMAIN contents[f] |->
                       IF i \in o.from .. o.pos - 1 THEN contents[f][i] \ o.over ELSE contents[f][i]]
    <3>1. contents' = [contents EXCEPT ![f] = g] /\ o.pc = "data"
      BY <2>1 DEF write_done, Put
    <3>2. contents \in [Files -> [B -> SUBSET Nat]] /\ o \in Op
      BY <1>1 DEF TypeOK
    <3>3. f \in Files
      BY <3>1, <3>2, OpKinds, FatFacts DEF DataOp
    <3> HIDE DEF B, f
    <3>4. g \in [B -> SUBSET Nat]
      BY <3>2, <3>3
    <3> HIDE DEF g
    <3> QED BY <3>1, <3>2, <3>3, <3>4 DEF B
  <2>2. CASE ~ write_done(t)
    BY <2>2, <1>1 DEF disk_full, read_done, io_error, TypeOK
  <2> QED BY <2>1, <2>2
<1>4. /\ failures' \in {failures, failures + 1} /\ failures \in Nat
      /\ op[t].pc \in {"mark", "join"} => failures' = failures + 1
  BY <1>1 DEF disk_full, write_done, read_done, io_error, TypeOK
<1>5. TypeOK'
  <2>1. fat_lock' \in Threads \cup {NoThread} /\ op' \in [Threads -> Op]
    BY <1>1, <1>2 DEF TypeOK, Owns
  <2> QED BY <2>1, <1>1, <1>2, <1>3, <1>4 DEF TypeOK
<1> QED BY <1>1, <1>2, <1>4, <1>5, QuietStep

\* The machine stops, or a handle is opened again.
LEMMA RestartStep ==
  ASSUME GInv, restart
  PROVE  GInv'
<1>1. /\ TypeOK /\ failures' = failures + 1 /\ failures \in Nat /\ op' = [t \in Threads |-> Idle]
      /\ fat_lock' = NoThread /\ size' = [h \in Handles |-> SizeOf[FileOf[h]]]
      /\ UNCHANGED <<fat, disk, calls, contents>>
  BY DEF GInv, TypeOK, restart
<1>2. \A h \in Handles : SizeOf[FileOf[h]] \in Nat
  BY FatAssumption
<1>3. TypeOK'
  BY <1>1, <1>2 DEF TypeOK, Op
<1>4. Chain' = Chain /\ Linked(fat'[1], Chain')
  BY <1>1, SameChains DEF GInv
<1>5. \A t \in Threads : op'[t] = Idle /\ op'[t].pc = "idle"
  BY <1>1 DEF Idle
<1>6. Locked' /\ Synced'
  BY <1>1, <1>5, FatFacts DEF Locked, Synced
<1>7. Extending'
  BY <1>5 DEF Extending, Extends, NotShared, Fresh, Held, Joined
<1> QED BY <1>3, <1>4, <1>6, <1>7 DEF GInv

LEMMA OpenStep ==
  ASSUME GInv, NEW h \in Handles, open(h)
  PROVE  GInv'
<1>1. /\ TypeOK /\ size' = [size EXCEPT ![h] = SizeOf[FileOf[h]]]
      /\ UNCHANGED <<fat, disk, op, fat_lock, calls, failures, contents>>
  BY DEF GInv, open
<1>2. SizeOf[FileOf[h]] \in Nat
  BY FatAssumption
<1>3. TypeOK'
  BY <1>1, <1>2 DEF TypeOK
<1>4. Chain' = Chain /\ Linked(fat'[1], Chain')
  BY <1>1, SameChains DEF GInv
<1>5. Locked' /\ Synced' /\ Extending'
  BY <1>1, <1>4 DEF GInv, Locked, Synced, CopiesAgree, Lag, Extending
<1> QED BY <1>3, <1>4, <1>5 DEF GInv
-----------------------------------------------------------------------------
(***************************************************************************)
(* The chains are sound.                                                   *)
(***************************************************************************)

LEMMA GInvInit == Init => GInv
<1> SUFFICES ASSUME Init PROVE GInv
  OBVIOUS
<1> DEFINE B == 0 .. ClusterBytes * TotalClusters - 1
<1>1. TypeOK
  <2>1. fat \in [Copies -> [Clusters -> Nat]]
    BY FatFacts DEF Init
  <2>2. disk \in [Clusters -> Bytes]
    BY DEF Init, Bytes
  <2>3. size \in [Handles -> Nat]
    BY FatAssumption DEF Init
  <2>4. contents \in [Files -> [B -> SUBSET Nat]]
    <3>1. contents = [f \in Files |-> [i \in B |-> {0}]]
      BY DEF Init
    <3> HIDE DEF B
    <3> QED BY <3>1
  <2> QED BY <2>1, <2>2, <2>3, <2>4 DEF Init, TypeOK, Op
<1>2. \A t \in Threads : op[t] = Idle /\ op[t].pc = "idle"
  BY DEF Init, Idle
<1>3. Linked(fat[1], Chain)
  <2> DEFINE C == [f \in Files |-> <<StartOf[f]>>]
  <2>1. \A f \in Files : StartOf[f] \in Clusters /\ fat[1][StartOf[f]] = EOC
    BY FatFacts DEF Init
  <2>2. ASSUME NEW f \in Files PROVE IsChain(fat[1], StartOf[f], C[f])
    BY <2>1 DEF IsChain
  <2>3. ASSUME NEW f \in Files, NEW g \in Files, f # g, NEW c \in Clusters
        PROVE  ~ (Has(C[f], c) /\ Has(C[g], c))
    BY <2>3, FatAssumption DEF Has
  <2>4. \A f \in Files : ChainIn(fat[1], StartOf[f]) = C[f]
    BY <2>2, ChainFound
  <2>5. Chain = [f \in Files |-> ChainIn(fat[1], StartOf[f])]
    BY ChainOfIn DEF Chain
  <2>6. Chain = C
    BY <2>4, <2>5
  <2> QED BY <2>2, <2>3, <2>6 DEF Linked
<1>4. Locked
  BY <1>2, FatFacts DEF Init, Locked
<1>5. Extending
  BY <1>2 DEF Extending, Extends, NotShared, Fresh, Held, Joined
<1>6. Synced
  BY <1>2, FatFacts DEF Init, Synced, CopiesAgree
<1> QED BY <1>1, <1>3, <1>4, <1>5, <1>6 DEF GInv

LEMMA GInvStep == GInv /\ [Next]_vars => GInv'
<1> SUFFICES ASSUME GInv, [Next]_vars PROVE GInv'
  OBVIOUS
<1>1. CASE UNCHANGED vars
  <2>1. Chain' = Chain
    BY <1>1, SameChains DEF vars, GInv
  <2> QED BY <1>1, <2>1 DEF vars, GInv, TypeOK, Locked, Extending, Synced, CopiesAgree, Lag
<1>2. ASSUME NEW t \in Threads, NEW h \in Handles, NEW r \in Ranges,
             write(t, h, r[1], r[2]) \/ read(t, h, r[1], r[2])
      PROVE  GInv'
  <2>1. r[1] \in Nat /\ r[2] \in Nat
    BY FatAssumption
  <2> QED BY <1>2, <2>1, WriteStep, ReadSteps
<1>3. ASSUME NEW t \in Threads, fat_write(t) PROVE GInv'
  <2>1. op[t].pc \in {"mark", "join"}
    BY <1>3 DEF fat_write
  <2> QED BY <1>3, <2>1, MarkStep, JoinStep
<1>4. ASSUME NEW t \in Threads, Advance(t) \/ io_error(t) PROVE GInv'
  BY <1>3, <1>4, AllocStep, LinkStep, ExtendedStep, SectorSteps, ReadSteps, ReturnSteps DEF Advance
<1> QED BY <1>1, <1>2, <1>4, OpenStep, RestartStep DEF Next

\* The invariant of the chains, the locks and the writes that are left.
THEOREM Invariance == Spec => []GInv
BY GInvInit, GInvStep, PTL DEF Spec

LEMMA GInvChains == GInv => ChainsSound
<1> SUFFICES ASSUME GInv PROVE ChainsSound
  OBVIOUS
<1>1. \A f \in Files : Nth(StartOf[f])[TotalClusters] = EOC
  <2> TAKE f \in Files
  <2>1. IsChain(fat[1], StartOf[f], Chain[f])
    BY DEF GInv, Linked
  <2> QED BY <2>1, ChainFound, ChainOfIn
<1>2. \A f \in Files : \A c : c \in InChain(f) => c \in Clusters /\ Has(Chain[f], c)
  <2> TAKE f \in Files
  <2>1. Chain[f] \in Seq(Clusters) /\ InChain(f) = ToSet(Chain[f])
    BY DEF GInv, Linked, IsChain, InChain, Chain
  <2> QED BY <2>1 DEF ToSet, Has
<1>3. \A f, g \in Files : f # g => InChain(f) \cap InChain(g) = {}
  BY <1>2 DEF GInv, Linked
<1>4. CopiesAgree
  BY DEF GInv, Synced, CopiesAgree
<1> QED BY <1>1, <1>3, <1>4 DEF ChainsSound

\* Whatever fails, wherever the machine stops and however many handles share
\* a file: every chain ends in an end mark, no cluster is in two files and,
\* without failures, the FAT copies agree whenever fat_lock is free.
THEOREM Chains == Spec => []ChainsSound
BY Invariance, GInvChains, PTL
-----------------------------------------------------------------------------
(***************************************************************************)
(* The data, when no file is open through two handles.                     *)
(***************************************************************************)

OneHandlePerFile == \A g, h \in Handles : FileOf[g] = FileOf[h] => g = h

\* Byte i of the chain s on disk D, and the bytes a chain has room for.
Byte(D, s, i) == D[s[(i \div ClusterBytes) + 1]][i % ClusterBytes]
Room(s) == ClusterBytes * Len(s)

\* The calls on one handle are one writer or some readers.
Exclusive == \A t, u \in Threads :
               t # u /\ op[t] # Idle /\ op[u] # Idle /\ op[t].h = op[u].h =>
                 op[t].pc = "read" /\ op[u].pc = "read"

\* A call that extends its file's chain s works at its end, and its count of
\* missing clusters is right.
Growing(o, s) ==
  /\ (\/ o.pc \in {"alloc", "mark", "link"}
      \/ o.pc = "join" /\ Len(o.todo) = NumFats + NumFats) =>
       o.last = s[Len(s)] /\ o.missing >= 1 /\ o.missing + Len(s) = ClustersFor(o.to)
  /\ Joined(o) => o.new = s[Len(s)] /\ o.missing >= 1 /\ o.missing - 1 + Len(s) = ClustersFor(o.to)
  /\ o.pc = "extended" => ClustersFor(o.to) <= Len(s)

\* The bytes a write announced may hold what it writes: K is what the bytes of
\* its file may hold.
Announced(o, K) ==
  o.pc \notin {"idle", "read"} =>
    /\ o.from <= o.to /\ o.v \notin o.over
    /\ \A i \in DOMAIN K : i \in o.from .. o.to - 1 => o.v \in K[i]

\* A write in its data loop has the file's chain, room for its bytes, and has
\* written the bytes before pos; its buffer has what the sector's other bytes
\* hold.
Filling(o, s, D) ==
  /\ o.pc \in {"data", "sector"} =>
       /\ o.chain = s /\ o.from <= o.pos /\ o.pos <= o.to /\ o.to <= Room(s)
       /\ \A i \in o.from .. o.pos - 1 : Byte(D, s, i) = o.v
  /\ o.pc = "sector" => \A i \in 0 .. ClusterBytes - 1 : i \notin Part(o) => o.buf[i] = D[Cluster(o)][i]

\* A read has the file's chain, which covers its bytes, and got what they may
\* hold.
Reading(o, s, K) ==
  o.pc = "read" =>
    /\ o.chain = s /\ o.from <= o.pos /\ o.pos <= o.to /\ o.to <= Room(s)
    /\ Len(o.got) = o.pos - o.from
    /\ \A i \in 1 .. Len(o.got) : o.got[i] \in K[o.from + i - 1]

Call(o, s, K, D) == Growing(o, s) /\ Announced(o, K) /\ Filling(o, s, D) /\ Reading(o, s, K)
Calls == \A t \in Threads : op[t] # Idle =>
           Call(op[t], Chain[FileOf[op[t].h]], contents[FileOf[op[t].h]], disk)

\* No size is beyond the file's chain.
Backed == \A h \in Handles : size[h] <= Room(Chain[FileOf[h]])

\* The bytes in a chain are what they may be, and beyond it nothing was written.
Filled(s, K, D) ==
  /\ \A i \in 0 .. Room(s) - 1 : Byte(D, s, i) \in K[i]
  /\ \A i \in DOMAIN K : i >= Room(s) => 0 \in K[i]
Filed == \A f \in Files : Filled(Chain[f], contents[f], disk)

\* A cluster in no chain was never written.
Blank == \A c \in Clusters : (\A f \in Files : ~ Has(Chain[f], c)) =>
           \A i \in 0 .. ClusterBytes - 1 : disk[c][i] = 0

Kept == failures = 0 =>
          \A c \in Clusters : fat[1][c] # FREE =>
            \/ \E f \in Files : Has(Chain[f], c)
            \/ \E t \in Threads : op[t].pc \in {"mark", "link", "join"} /\ op[t].new = c

HInv == Exclusive /\ Calls /\ Backed /\ Filed /\ Blank /\ Kept

\* The room of a chain, and where a byte of it is.
LEMMA RoomFacts ==
  ASSUME NEW s, Len(s) \in Nat
  PROVE  /\ Room(s) \in Nat
         /\ \A i \in 0 .. Room(s) - 1 : /\ (i \div ClusterBytes) + 1 \in 1 .. Len(s)
                                        /\ i % ClusterBytes \in 0 .. ClusterBytes - 1
         /\ \A n \in Nat : n <= Len(s) => ClusterBytes * n <= Room(s)
         /\ \A n \in Nat : Len(s) <= n => Room(s) <= ClusterBytes * n
         /\ \A i \in Nat : i \div ClusterBytes < Len(s) <=> i < Room(s)
<1> DEFINE d == ClusterBytes
<1>1. d \in Nat \ {0}
  BY FatFacts
<1>2. \A m, n \in Nat : d * n \in Nat /\ (m <= n => d * m <= d * n) /\ (m < n => d * m + d <= d * n)
  <2> TAKE m, n \in Nat
  <2>1. d * n \in Nat /\ (m <= n => d * m <= d * n)
    BY <1>1
  <2>2. ASSUME m < n PROVE d * m + d <= d * n
    <3>1. d * (m + 1) = d * m + d
      BY <1>1
    <3>2. m + 1 <= n /\ \A a, b \in Nat : a <= b => d * a <= d * b
      BY <1>1, <2>2
    <3> QED BY <3>1, <3>2
  <2> QED BY <2>1, <2>2
<1>3. Room(s) = d * Len(s)
  BY DEF Room
<1>4. ASSUME NEW i \in Nat
      PROVE  /\ i \div d < Len(s) <=> i < Room(s)
             /\ i \div d \in Nat /\ i % d \in 0 .. d - 1
  <2> DEFINE q == i \div d
             r == i % d
  <2>1. q \in Nat /\ r \in 0 .. d - 1 /\ d * q \in Nat /\ i = d * q + r
    BY <1>1, DivMod
  <2> HIDE DEF q, r, d
  <2>2. ASSUME q < Len(s) PROVE i < Room(s)
    <3>1. d * q + d <= d * Len(s) /\ d * Len(s) \in Nat
      BY <2>1, <2>2, <1>2
    <3> QED BY <3>1, <2>1, <1>1, <1>3
  <2>3. ASSUME Len(s) <= q PROVE Room(s) <= i
    <3>1. d * Len(s) <= d * q /\ d * Len(s) \in Nat
      BY <2>1, <2>3, <1>2
    <3> QED BY <3>1, <2>1, <1>1, <1>3
  <2>4. Room(s) \in Nat
    BY <1>2, <1>3
  <2> QED BY <2>1, <2>2, <2>3, <2>4 DEF q, r
<1>5. Room(s) \in Nat
  BY <1>2, <1>3
<1>6. \A i \in 0 .. Room(s) - 1 : (i \div d) + 1 \in 1 .. Len(s) /\ i % d \in 0 .. d - 1
  <2> TAKE i \in 0 .. Room(s) - 1
  <2>1. i \in Nat /\ i < Room(s)
    BY <1>5
  <2>2. i \div d < Len(s) /\ i \div d \in Nat /\ i % d \in 0 .. d - 1
    BY <2>1, <1>4
  <2> DEFINE q == i \div d
  <2> HIDE DEF q
  <2>3. q + 1 \in 1 .. Len(s)
    BY <2>2 DEF q
  <2> QED BY <2>2, <2>3 DEF q
<1>7. \A n \in Nat : (n <= Len(s) => d * n <= Room(s)) /\ (Len(s) <= n => Room(s) <= d * n)
  BY <1>2, <1>3
<1> QED BY <1>4, <1>5, <1>6, <1>7

\* Bytes of clusters that do not change do not change.
LEMMA SameByte ==
  ASSUME NEW s \in Seq(Clusters), NEW D, NEW E, \A c : Has(s, c) => E[c] = D[c],
         NEW i \in 0 .. Room(s) - 1
  PROVE  Byte(E, s, i) = Byte(D, s, i)
<1>1. (i \div ClusterBytes) + 1 \in 1 .. Len(s)
  BY RoomFacts
<1>2. Has(s, s[(i \div ClusterBytes) + 1])
  BY <1>1 DEF Has
<1> QED BY <1>2 DEF Byte

\* The cluster of a data loop's turn is one of the chain.
LEMMA ClusterHas ==
  ASSUME NEW o \in DataOp, More(o)
  PROVE  Has(o.chain, Cluster(o)) /\ Cluster(o) \in Clusters
<1>1. o.pos \in Nat /\ o.to \in Nat /\ o.chain \in Seq(Clusters)
  BY DEF DataOp
<1>2. /\ (o.pos \div ClusterBytes) + 1 \in 1 .. Len(o.chain)
      /\ Cluster(o) = o.chain[(o.pos \div ClusterBytes) + 1] /\ Cluster(o) \in Clusters
  BY <1>1, ClusterTyped
<1> QED BY <1>2 DEF Has

\* A call is not disturbed by writes to clusters of other files.
LEMMA SameCall ==
  ASSUME NEW o \in Op, NEW s \in Seq(Clusters), NEW K, NEW D, NEW E,
         Call(o, s, K, D), \A c : Has(s, c) => E[c] = D[c]
  PROVE  Call(o, s, K, E)
<1>1. Growing(o, s) /\ Announced(o, K) /\ Filling(o, s, D) /\ Reading(o, s, K)
  BY DEF Call
<1>2. ASSUME o.pc \in {"data", "sector"}
      PROVE  \A i \in o.from .. o.pos - 1 : Byte(E, s, i) = o.v
  <2> TAKE i \in o.from .. o.pos - 1
  <2>1. o \in DataOp
    BY <1>2, OpKinds
  <2>2. o.from \in Nat /\ o.pos \in Nat /\ o.to \in Nat /\ o.pos <= o.to /\ o.to <= Room(s) /\ Byte(D, s, i) = o.v
    BY <2>1, <1>1, <1>2 DEF DataOp, Filling
  <2>3. Room(s) \in Nat
    BY RoomFacts
  <2>4. i \in 0 .. Room(s) - 1
    BY <2>2, <2>3
  <2> QED BY <2>2, <2>4, SameByte
<1>3. ASSUME o.pc = "sector" PROVE E[Cluster(o)] = D[Cluster(o)]
  <2>1. o \in DataOp
    BY <1>3, OpKinds
  <2>2. More(o) /\ o.chain = s
    BY <2>1, <1>1, <1>3 DEF DataOp, Filling
  <2> QED BY <2>1, <2>2, ClusterHas
<1>4. Filling(o, s, E)
  BY <1>1, <1>2, <1>3 DEF Filling
<1> QED BY <1>1, <1>4 DEF Call

LEMMA SameFilled ==
  ASSUME NEW s \in Seq(Clusters), NEW K, NEW D, NEW E,
         Filled(s, K, D), \A c : Has(s, c) => E[c] = D[c]
  PROVE  Filled(s, K, E)
BY SameByte DEF Filled

\* A call that writes is the only one on its file.
LEMMA Alone ==
  ASSUME OneHandlePerFile, TypeOK, Exclusive, NEW t \in Threads, op[t].pc \notin {"idle", "read"},
         NEW u \in Threads \ {t}, op[u] # Idle
  PROVE  op[u].h # op[t].h /\ op[u].h \in Handles /\ FileOf[op[u].h] # FileOf[op[t].h]
<1>1. op[t] \in Op /\ op[u] \in Op
  BY DEF TypeOK
<1>2. op[t] # Idle /\ op[t].pc # "read"
  BY DEF Idle
<1>3. op[t].h \in Handles /\ op[u].h \in Handles
  BY <1>1, <1>2, OpKinds DEF ExtendOp, DataOp, ReadOp
<1>4. op[u].h # op[t].h
  BY <1>2 DEF Exclusive
<1> QED BY <1>3, <1>4 DEF OneHandlePerFile
\* The calls after a step of thread t, on handle h: it is its own call's, or t
\* begins one and the lock of the handle lets it in.
LEMMA CallsStep ==
  ASSUME OneHandlePerFile, GInv, HInv, NEW t \in Threads, NEW x \in Op, op' = [op EXCEPT ![t] = x],
         NEW h \in Handles, x # Idle => x.h = h,
         \/ op[t] # Idle /\ op[t].h = h /\ (x # Idle /\ op[t].pc = "read" => x.pc = "read")
         \/ op[t] = Idle /\ IoLockFree(h)
         \/ op[t] = Idle /\ IoLockShared(h) /\ x.pc = "read",
         \A g \in Files : g # FileOf[h] =>
           /\ Chain'[g] = Chain[g] /\ contents'[g] = contents[g]
           /\ \A c : Has(Chain[g], c) => disk'[c] = disk[c],
         \/ Chain' = Chain /\ contents' = contents /\ disk' = disk
         \/ op[t].pc \notin {"idle", "read"}
         \/ IoLockFree(h),
         x # Idle => Call(x, Chain'[FileOf[h]], contents'[FileOf[h]], disk')
  PROVE  Exclusive' /\ Calls'
<1>1. /\ op \in [Threads -> Op] /\ \A u \in Threads : op'[u] = IF u = t THEN x ELSE op[u]
      /\ Exclusive /\ Calls /\ TypeOK
  BY DEF GInv, HInv, TypeOK
<1>2. ASSUME NEW u \in Threads \ {t}, op[u] # Idle, x # Idle, op[u].h = x.h
      PROVE  op[u].pc = "read" /\ x.pc = "read"
  <2>1. CASE op[t] # Idle /\ op[t].h = h /\ (x # Idle /\ op[t].pc = "read" => x.pc = "read")
    BY <2>1, <1>1, <1>2 DEF Exclusive
  <2>2. CASE op[t] = Idle /\ IoLockFree(h)
    BY <2>2, <1>2 DEF IoLockFree
  <2>3. CASE op[t] = Idle /\ IoLockShared(h) /\ x.pc = "read"
    BY <2>3, <1>2 DEF IoLockShared
  <2> QED BY <2>1, <2>2, <2>3
<1>3. Exclusive'
  <2> SUFFICES ASSUME NEW u \in Threads, NEW r \in Threads, u # r, op'[u] # Idle, op'[r] # Idle,
                      op'[u].h = op'[r].h
               PROVE  op'[u].pc = "read" /\ op'[r].pc = "read"
    BY DEF Exclusive
  <2>1. CASE u = t
    BY <2>1, <1>1, <1>2
  <2>2. CASE r = t
    BY <2>2, <1>1, <1>2
  <2>3. CASE u # t /\ r # t
    BY <2>3, <1>1 DEF Exclusive
  <2> QED BY <2>1, <2>2, <2>3
<1>4. ASSUME NEW u \in Threads \ {t}, op[u] # Idle
      PROVE  LET g == FileOf[op[u].h] IN
             /\ g \in Files /\ Chain'[g] = Chain[g] /\ contents'[g] = contents[g]
             /\ \A c : Has(Chain[g], c) => disk'[c] = disk[c]
  <2>1. op[u] \in Op
    BY <1>1
  <2>2. op[u].h \in Handles /\ FileOf[op[u].h] \in Files
    BY <2>1, <1>4, OpKinds, FatFacts DEF ExtendOp, DataOp, ReadOp
  <2>3. CASE op[u].h # h
    <3>1. FileOf[op[u].h] # FileOf[h]
      BY <2>2, <2>3 DEF OneHandlePerFile
    <3> QED BY <2>2, <3>1
  <2>4. CASE op[u].h = h
    <3>1. ~ IoLockFree(h)
      BY <2>4, <1>4 DEF IoLockFree
    <3>2. op[t].pc \in {"idle", "read"}
      <4>1. CASE op[t] # Idle /\ op[t].h = h
        BY <4>1, <2>4, <1>1, <1>4 DEF Exclusive
      <4>2. CASE ~ (op[t] # Idle /\ op[t].h = h)
        <5>1. op[t] = Idle
          BY <4>2
        <5> QED BY <5>1 DEF Idle
      <4> QED BY <4>1, <4>2
    <3> QED BY <2>2, <3>1, <3>2
  <2> QED BY <2>3, <2>4
<1>5. ASSUME NEW u \in Threads, op'[u] # Idle
      PROVE  Call(op'[u], Chain'[FileOf[op'[u].h]], contents'[FileOf[op'[u].h]], disk')
  <2>1. CASE u = t
    BY <2>1, <1>1, <1>5
  <2>2. CASE u # t
    <3>1. op'[u] = op[u] /\ op[u] # Idle /\ op[u] \in Op
      BY <2>2, <1>1, <1>5
    <3> DEFINE g == FileOf[op[u].h]
    <3>2. /\ g \in Files /\ Chain'[g] = Chain[g] /\ contents'[g] = contents[g]
          /\ \A c : Has(Chain[g], c) => disk'[c] = disk[c]
      BY <2>2, <3>1, <1>4
    <3>3. Call(op[u], Chain[g], contents[g], disk)
      BY <3>1, <1>1 DEF Calls
    <3>4. Chain[g] \in Seq(Clusters)
      BY <3>2 DEF GInv, Linked, IsChain
    <3> HIDE DEF g
    <3>5. Call(op[u], Chain[g], contents[g], disk')
      BY <3>1, <3>2, <3>3, <3>4, SameCall
    <3> QED BY <3>1, <3>2, <3>5 DEF g
  <2> QED BY <2>1, <2>2
<1> QED BY <1>3, <1>5 DEF Calls
\* A step that changes neither the chains nor the data, in which thread t goes
\* on with its call, ends it, or begins to read.
LEMMA SameData ==
  ASSUME OneHandlePerFile, GInv, HInv, NEW t \in Threads, NEW x \in Op, op' = [op EXCEPT ![t] = x],
         Chain' = Chain, UNCHANGED <<disk, size, contents>>,
         NEW h \in Handles, x # Idle => x.h = h,
         \/ op[t] # Idle /\ op[t].h = h /\ (x # Idle /\ op[t].pc = "read" => x.pc = "read")
         \/ op[t] = Idle /\ IoLockShared(h) /\ x.pc = "read",
         x # Idle => Call(x, Chain[FileOf[h]], contents[FileOf[h]], disk),
         Kept'
  PROVE  HInv'
<1>1. Exclusive' /\ Calls'
  BY CallsStep
<1>2. Backed' /\ Filed' /\ Blank'
  BY DEF HInv, Backed, Filed, Blank
<1> QED BY <1>1, <1>2 DEF HInv

\* A step that frees no cluster, and in which thread t keeps its new cluster.
LEMMA KeptStep ==
  ASSUME GInv, HInv, NEW t \in Threads, NEW x \in Op, op' = [op EXCEPT ![t] = x], Chain' = Chain,
         \A c \in Clusters : \/ fat'[1][c] = fat[1][c]
                             \/ x.pc \in {"mark", "link", "join"} /\ x.new = c,
         failures' \in {failures, failures + 1},
         failures' = failures /\ op[t].pc \in {"mark", "link", "join"} =>
           \/ x.pc \in {"mark", "link", "join"} /\ x.new = op[t].new
           \/ \E f \in Files : Has(Chain[f], op[t].new)
  PROVE  Kept'
<1>1. failures \in Nat /\ \A u \in Threads : op'[u] = IF u = t THEN x ELSE op[u]
  BY DEF GInv, TypeOK
<1> SUFFICES ASSUME failures' = 0, NEW c \in Clusters, fat'[1][c] # FREE
             PROVE  \/ \E f \in Files : Has(Chain'[f], c)
                    \/ \E u \in Threads : op'[u].pc \in {"mark", "link", "join"} /\ op'[u].new = c
  BY DEF Kept
<1>2. failures = 0 /\ failures' = failures
  BY <1>1
<1>3. CASE x.pc \in {"mark", "link", "join"} /\ x.new = c
  BY <1>1, <1>3
<1>4. CASE ~ (x.pc \in {"mark", "link", "join"} /\ x.new = c)
  <2>1. fat[1][c] # FREE
    BY <1>4
  <2>2. CASE \E f \in Files : Has(Chain[f], c)
    BY <2>2
  <2>3. CASE ~ \E f \in Files : Has(Chain[f], c)
    <3>1. PICK u \in Threads : op[u].pc \in {"mark", "link", "join"} /\ op[u].new = c
      BY <2>1, <2>3, <1>2 DEF HInv, Kept
    <3>2. u # t
      BY <2>3, <3>1, <1>2, <1>4
    <3> QED BY <3>1, <3>2, <1>1
  <2> QED BY <2>2, <2>3
<1> QED BY <1>3, <1>4

\* The thread of a call, as a writer.
LEMMA Extender ==
  ASSUME GInv, HInv, NEW t \in Threads, NEW x, GoesOn(t, x)
  PROVE  /\ op[t] # Idle /\ op[t].pc \notin {"idle", "read"} /\ op[t].h \in Handles
         /\ FileOf[op[t].h] \in Files /\ x \in Op /\ x # Idle /\ x.h = op[t].h
         /\ op' = [op EXCEPT ![t] = x] /\ UNCHANGED <<disk, size, calls, failures, contents>>
         /\ Announced(x, contents[FileOf[x.h]])
         /\ Filling(x, Chain[FileOf[x.h]], disk) /\ Reading(x, Chain[FileOf[x.h]], contents[FileOf[x.h]])
         /\ Growing(op[t], Chain[FileOf[op[t].h]])
<1>1. op[t] \in ExtendOp /\ x \in ExtendOp
  BY DEF GoesOn
<1>2. op[t] \in Op /\ x \in Op
  BY <1>1 DEF Op
<1>3. /\ op[t].pc \in {"alloc", "mark", "link", "join", "extended"} /\ op[t].pc # "idle"
      /\ x.pc \in {"alloc", "mark", "link", "join", "extended"} /\ x.pc # "idle"
  BY <1>1 DEF ExtendOp
<1>4. op[t] # Idle /\ x # Idle
  BY <1>3 DEF Idle
<1>5. op[t].h \in Handles /\ FileOf[op[t].h] \in Files
  BY <1>1, FatFacts DEF ExtendOp
<1>6. Call(op[t], Chain[FileOf[op[t].h]], contents[FileOf[op[t].h]], disk)
  BY <1>4 DEF HInv, Calls
<1>7. Announced(x, contents[FileOf[x.h]])
  BY <1>3, <1>6 DEF Call, Announced, GoesOn
<1> QED BY <1>2, <1>3, <1>4, <1>5, <1>6, <1>7 DEF GoesOn, Filling, Reading, Call

\* alloc_cluster, link_cluster, and the sectors that mark the new cluster.
LEMMA AllocData ==
  ASSUME OneHandlePerFile, GInv, HInv, NEW t \in Threads,
         alloc_cluster(t) \/ link_cluster(t) \/ (fat_write(t) /\ op[t].pc = "mark")
  PROVE  HInv'
<1>1. CASE alloc_cluster(t)
  <2>1. PICK x : /\ GoesOn(t, x) /\ op[t].pc = "alloc" /\ x.pc = "mark" /\ fat' = fat
                 /\ x.last = op[t].last /\ x.missing = op[t].missing
    BY <1>1, AllocStep
  <2>2. Chain' = Chain
    BY <2>1, SameChains DEF GInv
  <2>3. Growing(x, Chain[FileOf[x.h]])
    BY <2>1, Extender DEF Growing, Joined, GoesOn
  <2>4. Call(x, Chain[FileOf[x.h]], contents[FileOf[x.h]], disk)
    BY <2>1, <2>3, Extender DEF Call
  <2>5. Kept'
    BY <2>1, <2>2, Extender, KeptStep
  <2> QED BY <2>1, <2>2, <2>4, <2>5, Extender, SameData
<1>2. CASE link_cluster(t)
  <2>1. PICK x : /\ GoesOn(t, x) /\ op[t].pc = "link" /\ x.pc = "join" /\ fat' = fat
                 /\ x.last = op[t].last /\ x.missing = op[t].missing /\ x.new = op[t].new
                 /\ Len(x.todo) = NumFats + NumFats
    BY <1>2, LinkStep
  <2>2. Chain' = Chain
    BY <2>1, SameChains DEF GInv
  <2>3. Growing(x, Chain[FileOf[x.h]])
    <3>1. ~ (Len(x.todo) < NumFats + NumFats)
      BY <2>1, FatFacts
    <3> QED BY <2>1, <3>1, Extender DEF Growing, Joined, GoesOn
  <2>4. Call(x, Chain[FileOf[x.h]], contents[FileOf[x.h]], disk)
    BY <2>1, <2>3, Extender DEF Call
  <2>5. Kept'
    BY <2>1, <2>2, Extender, KeptStep
  <2> QED BY <2>1, <2>2, <2>4, <2>5, Extender, SameData
<1>3. CASE fat_write(t) /\ op[t].pc = "mark"
  <2>1. /\ \E x : /\ GoesOn(t, x) /\ x.pc \in {"mark", "link"}
                  /\ x.last = op[t].last /\ x.missing = op[t].missing /\ x.new = op[t].new
        /\ Chain' = Chain /\ \A c \in Clusters : c # op[t].new => fat'[1][c] = fat[1][c]
    BY <1>3, MarkStep
  <2>2. PICK x : /\ GoesOn(t, x) /\ x.pc \in {"mark", "link"}
                 /\ x.last = op[t].last /\ x.missing = op[t].missing /\ x.new = op[t].new
    BY <2>1
  <2>3. Growing(x, Chain[FileOf[x.h]])
    BY <1>3, <2>2, Extender DEF Growing, Joined, GoesOn
  <2>4. Call(x, Chain[FileOf[x.h]], contents[FileOf[x.h]], disk)
    BY <2>2, <2>3, Extender DEF Call
  <2>5. Kept'
    BY <2>1, <2>2, Extender, KeptStep
  <2> QED BY <2>1, <2>2, <2>4, <2>5, Extender, SameData
<1> QED BY <1>1, <1>2, <1>3
\* The chain after a cluster was added at its end.
LEMMA JointEnd ==
  ASSUME NEW s \in Seq(Clusters), Len(s) >= 1, NEW c \in Clusters
  PROVE  LET j == Joint(s, Len(s), c) IN
         /\ j \in Seq(Clusters) /\ Len(j) = Len(s) + 1 /\ j[Len(j)] = c
         /\ \A i \in 1 .. Len(s) : j[i] = s[i]
         /\ \A d : Has(s, d) => Has(j, d)
         /\ Has(j, c) /\ Room(j) = Room(s) + ClusterBytes
<1> DEFINE j == Joint(s, Len(s), c)
           n == Len(s)
<1>1. n \in Nat /\ n >= 1 /\ \A i \in 1 .. n : s[i] \in Clusters
  OBVIOUS
<1>2. j = [i \in 1 .. n + 1 |-> IF i <= n THEN s[i] ELSE c]
  BY DEF Joint
<1> HIDE DEF n
<1>3. j \in [1 .. n + 1 -> Clusters]
  BY <1>1, <1>2
<1>4. (\A i \in 1 .. n : j[i] = s[i]) /\ j[n + 1] = c
  BY <1>1, <1>2
<1> HIDE DEF j
<1>5. j \in Seq(Clusters) /\ Len(j) = n + 1
  BY <1>1, <1>3
<1>6. \A d : Has(s, d) => Has(j, d)
  BY <1>1, <1>4, <1>5 DEF Has, n
<1>7. Has(j, c)
  BY <1>1, <1>4, <1>5 DEF Has
<1>8. Room(j) = Room(s) + ClusterBytes
  <2>1. \A b \in Nat : b * (n + 1) = b * n + b
    BY <1>1
  <2>2. ClusterBytes \in Nat
    BY FatFacts
  <2>3. Room(j) = ClusterBytes * (n + 1) /\ Room(s) = ClusterBytes * n
    BY <1>5 DEF Room, n
  <2> QED BY <2>1, <2>2, <2>3
<1> QED BY <1>4, <1>5, <1>6, <1>7, <1>8 DEF j, n

\* A blank cluster at the end of a chain holds what the bytes may be.
LEMMA JointFilled ==
  ASSUME NEW s \in Seq(Clusters), Len(s) >= 1, NEW c \in Clusters,
         NEW K, NEW D, Filled(s, K, D), \A i \in 0 .. ClusterBytes - 1 : D[c][i] = 0,
         NEW m \in Nat, DOMAIN K = 0 .. m - 1, Room(Joint(s, Len(s), c)) <= m
  PROVE  Filled(Joint(s, Len(s), c), K, D)
<1> DEFINE j == Joint(s, Len(s), c)
<1>1. /\ j \in Seq(Clusters) /\ Len(j) = Len(s) + 1 /\ j[Len(j)] = c
      /\ \A i \in 1 .. Len(s) : j[i] = s[i]
      /\ Room(j) = Room(s) + ClusterBytes
  BY JointEnd
<1>2. Room(s) \in Nat /\ Room(j) \in Nat /\ ClusterBytes \in Nat \ {0} /\ Room(j) <= m /\ Len(s) \in Nat
  <2>1. Len(s) \in Nat /\ Len(j) \in Nat
    BY <1>1
  <2>2. Room(s) \in Nat /\ Room(j) \in Nat
    BY <2>1, RoomFacts
  <2> QED BY <2>1, <2>2, FatFacts
<1> HIDE DEF j
<1>3. ASSUME NEW i \in 0 .. Room(j) - 1 PROVE Byte(D, j, i) \in K[i]
  <2> DEFINE q == i \div ClusterBytes
             r == i % ClusterBytes
  <2>1. q + 1 \in 1 .. Len(j) /\ r \in 0 .. ClusterBytes - 1 /\ q \in Nat /\ i \in Nat
    <3>1. i \in Nat
      BY <1>2
    <3>2. q \in Nat
      BY <3>1, <1>2, DivMod
    <3> QED BY <3>1, <3>2, <1>1, RoomFacts
  <2>2. q < Len(s) <=> i < Room(s)
    BY <2>1, RoomFacts
  <2>3. Byte(D, j, i) = D[j[q + 1]][r] /\ Byte(D, s, i) = D[s[q + 1]][r]
    BY DEF Byte
  <2> HIDE DEF q, r
  <2>4. CASE i < Room(s)
    <3>1. q + 1 \in 1 .. Len(s) /\ i \in 0 .. Room(s) - 1
      BY <2>1, <2>2, <2>4, <1>2
    <3> QED BY <3>1, <2>3, <1>1 DEF Filled
  <2>5. CASE ~ (i < Room(s))
    <3>1. q + 1 = Len(j) /\ i >= Room(s) /\ i \in 0 .. m - 1
      BY <2>1, <2>2, <2>5, <1>1, <1>2
    <3>2. 0 \in K[i]
      BY <3>1 DEF Filled
    <3> QED BY <3>1, <3>2, <2>1, <2>3, <1>1
  <2> QED BY <2>4, <2>5
<1>4. \A i \in DOMAIN K : i >= Room(j) => 0 \in K[i]
  <2> TAKE i \in DOMAIN K
  <2>1. i >= Room(j) => i >= Room(s)
    BY <1>1, <1>2
  <2> QED BY <2>1 DEF Filled
<1> QED BY <1>3, <1>4 DEF Filled, j

\* What the bytes of a file may hold is known for all its clusters.
LEMMA Covered ==
  ASSUME GInv, NEW f \in Files
  PROVE  /\ ClusterBytes * TotalClusters \in Nat
         /\ DOMAIN contents[f] = 0 .. ClusterBytes * TotalClusters - 1
         /\ Chain[f] \in Seq(Clusters) /\ Len(Chain[f]) \in 1 .. TotalClusters
         /\ Room(Chain[f]) \in Nat /\ Room(Chain[f]) <= ClusterBytes * TotalClusters
         /\ \A i \in 0 .. Room(Chain[f]) - 1 : i \in DOMAIN contents[f]
<1>1. IsChain(fat[1], StartOf[f], Chain[f])
  BY DEF GInv, Linked
<1>2. Chain[f] \in Seq(Clusters) /\ Len(Chain[f]) \in 1 .. TotalClusters /\ TotalClusters \in Nat
  BY <1>1, ChainShort, FatFacts DEF IsChain
<1>3. Room(Chain[f]) \in Nat /\ Room(Chain[f]) <= ClusterBytes * TotalClusters
  BY <1>2, RoomFacts
<1>4. \A a, b \in Nat : a * b \in Nat
  OBVIOUS
<1>5. ClusterBytes * TotalClusters \in Nat
  BY <1>4, FatFacts
<1> DEFINE m == ClusterBytes * TotalClusters
<1>6. DOMAIN contents[f] = 0 .. m - 1
  <2> HIDE DEF m
  <2>1. contents \in [Files -> [0 .. m - 1 -> SUBSET Nat]]
    BY DEF GInv, TypeOK, m
  <2> QED BY <2>1
<1> HIDE DEF m
<1>7. \A i \in 0 .. Room(Chain[f]) - 1 : i \in 0 .. m - 1
  BY <1>3, <1>5 DEF m
<1> QED BY <1>2, <1>3, <1>5, <1>6, <1>7 DEF m
LEMMA CoveredNext ==
  ASSUME GInv', NEW f \in Files
  PROVE  /\ Chain'[f] \in Seq(Clusters) /\ Len(Chain'[f]) \in 1 .. TotalClusters
         /\ Room(Chain'[f]) <= ClusterBytes * TotalClusters
<1>1. IsChain(fat'[1], StartOf[f], Chain'[f])
  BY DEF GInv, Linked
<1>2. Chain'[f] \in Seq(Clusters) /\ Len(Chain'[f]) \in 1 .. TotalClusters /\ TotalClusters \in Nat
  BY <1>1, ChainShort, FatFacts DEF IsChain
<1> QED BY <1>2, RoomFacts
\* A sector that links the new cluster behind the end of the chain.
LEMMA JoinData ==
  ASSUME OneHandlePerFile, GInv, HInv, GInv', NEW t \in Threads, fat_write(t), op[t].pc = "join"
  PROVE  HInv'
<1> DEFINE o == op[t]
           n == Len(o.todo)
           f == FileOf[o.h]
           s == Chain[f]
<1>1. /\ \E x : /\ GoesOn(t, x)
                /\ n > 1 => /\ x.pc = "join" /\ Len(x.todo) = n - 1
                            /\ x.last = o.last /\ x.missing = o.missing /\ x.new = o.new
                /\ n = 1 => \/ x.pc = "alloc" /\ o.missing > 1 /\ x.last = o.new /\ x.missing = o.missing - 1
                            \/ x.pc = "extended" /\ ~ (o.missing > 1)
      /\ n \in 1 .. NumFats + NumFats
      /\ n # NumFats + NumFats => Chain' = Chain /\ fat'[1] = fat[1]
      /\ n = NumFats + NumFats => /\ Joinable(fat[1], Chain, f, o.last, o.new)
                                  /\ Chain' = JoinAll(Chain, o.last, o.new)
      /\ \A c \in Clusters : c # o.last => fat'[1][c] = fat[1][c]
      /\ fat[1][o.last] # FREE
  BY JoinStep
<1>2. PICK x : /\ GoesOn(t, x)
               /\ n > 1 => /\ x.pc = "join" /\ Len(x.todo) = n - 1
                           /\ x.last = o.last /\ x.missing = o.missing /\ x.new = o.new
               /\ n = 1 => \/ x.pc = "alloc" /\ o.missing > 1 /\ x.last = o.new /\ x.missing = o.missing - 1
                           \/ x.pc = "extended" /\ ~ (o.missing > 1)
  BY <1>1
<1>3. /\ o # Idle /\ o.pc \notin {"idle", "read"} /\ o.h \in Handles /\ f \in Files /\ x \in Op /\ x # Idle
      /\ x.h = o.h /\ x.to = o.to /\ op' = [op EXCEPT ![t] = x]
      /\ UNCHANGED <<disk, size, calls, failures, contents>>
      /\ Announced(x, contents[f]) /\ Filling(x, s, disk) /\ Reading(x, s, contents[f]) /\ Growing(o, s)
      /\ o.missing \in Nat /\ x.pc \notin {"data", "sector", "read"}
  BY <1>2, Extender DEF GoesOn, ExtendOp
<1>4. /\ s \in Seq(Clusters) /\ Len(s) \in 1 .. TotalClusters /\ Len(s) \in Nat
      /\ DOMAIN contents[f] = 0 .. ClusterBytes * TotalClusters - 1 /\ ClusterBytes * TotalClusters \in Nat
  BY <1>3, Covered, FatFacts
<1>5. NumFats \in Nat /\ NumFats >= 1 /\ n \in Nat /\ (n = 1 => n # NumFats + NumFats) /\ (n = 1 \/ n > 1)
  <2>1. NumFats \in Nat \ {0} /\ n \in 1 .. NumFats + NumFats
    BY <1>1, FatFacts
  <2> HIDE DEF n
  <2> QED BY <2>1
<1> HIDE DEF n
\* The new cluster was linked before: the other copies, and the new cluster's
\* own entry.
<1>6. CASE n # NumFats + NumFats
  <2>1. n < NumFats + NumFats
    BY <1>1, <1>5, <1>6
  <2>2. Joined(o) /\ o.new = s[Len(s)] /\ o.missing >= 1 /\ o.missing - 1 + Len(s) = ClustersFor(o.to)
    BY <2>1, <1>3 DEF Joined, Growing, n
  <2>3. Growing(x, s)
    <3>1. CASE n = 1
      <4>1. CASE x.pc = "alloc" /\ o.missing > 1 /\ x.last = o.new /\ x.missing = o.missing - 1
        <5>1. o.missing - 1 >= 1
          BY <4>1, <1>3
        <5> QED BY <4>1, <5>1, <2>2, <1>3 DEF Growing, Joined
      <4>2. CASE x.pc = "extended" /\ ~ (o.missing > 1)
        <5>1. o.missing - 1 = 0 /\ ClustersFor(o.to) = Len(s)
          BY <4>2, <2>2, <1>3, <1>4
        <5> QED BY <4>2, <5>1, <1>3, <1>4 DEF Growing, Joined
      <4> QED BY <3>1, <4>1, <4>2, <1>2
    <3>2. CASE n > 1
      <4>1. Len(x.todo) < NumFats + NumFats /\ Len(x.todo) # NumFats + NumFats
        BY <3>2, <2>1, <1>2, <1>5
      <4> QED BY <3>2, <4>1, <2>2, <1>2, <1>3 DEF Growing, Joined
    <3> QED BY <3>1, <3>2, <1>5
  <2>4. Call(x, s, contents[f], disk)
    BY <2>3, <1>3 DEF Call
  <2>5. Chain' = Chain /\ fat'[1] = fat[1]
    BY <1>1, <1>6
  <2>6. Has(s, o.new)
    BY <2>2, <1>4 DEF Has
  <2>7. Kept'
    BY <2>5, <2>6, <1>3, KeptStep
  <2> QED BY <2>4, <2>5, <2>7, <1>3, SameData
\* The first sector: the chain grows by the new cluster.
<1>7. CASE n = NumFats + NumFats
  <2> DEFINE j == Joint(s, Len(s), o.new)
  <2>1. /\ o.last = s[Len(s)] /\ o.missing >= 1 /\ o.missing + Len(s) = ClustersFor(o.to)
    BY <1>3, <1>7 DEF Growing, n
  <2>2. /\ Joinable(fat[1], Chain, f, o.last, o.new) /\ Chain' = JoinAll(Chain, o.last, o.new)
        /\ n > 1
    BY <1>1, <1>5, <1>7
  <2>3. Chain'[f] = j /\ \A g \in Files : g # f => Chain'[g] = Chain[g]
    <3> DEFINE A == JoinAll(Chain, o.last, o.new)
    <3>1. \A g \in Files : Chain[g][Len(Chain[g])] = o.last => A[g] = Joint(Chain[g], Len(Chain[g]), o.new)
      BY <2>2, JoinChains
    <3>2. \A g \in Files : g # f => A[g] = Chain[g]
      BY <2>2, JoinChains
    <3> HIDE DEF A
    <3>3. Chain' = A
      BY <2>2 DEF A
    <3>4. A[f] = j
      BY <3>1, <2>1, <1>3
    <3> QED BY <3>2, <3>3, <3>4
  <2>4. o.new \in Clusters /\ \A g \in Files : ~ Has(Chain[g], o.new)
    BY <2>2 DEF Joinable
  <2>5. /\ j \in Seq(Clusters) /\ Len(j) = Len(s) + 1 /\ j[Len(j)] = o.new
        /\ \A d : Has(s, d) => Has(j, d)
        /\ Has(j, o.new) /\ Room(j) = Room(s) + ClusterBytes
    <3>1. s \in Seq(Clusters) /\ Len(s) >= 1 /\ o.new \in Clusters
      BY <2>4, <1>4
    <3> HIDE DEF s
    <3> QED BY <3>1, JointEnd
  <2>6. Room(s) \in Nat /\ Room(j) \in Nat /\ Room(s) <= Room(j) /\ Room(j) <= ClusterBytes * TotalClusters
    <3>1. Room(j) <= ClusterBytes * TotalClusters
      BY <2>3, <1>3, CoveredNext
    <3>2. Room(s) \in Nat /\ ClusterBytes \in Nat
      BY <1>4, RoomFacts, FatFacts
    <3> HIDE DEF j, s
    <3> QED BY <3>1, <3>2, <2>5
  <2>7. Filled(j, contents[f], disk)
    <3>1. Filled(s, contents[f], disk) /\ \A i \in 0 .. ClusterBytes - 1 : disk[o.new][i] = 0
      BY <2>4, <1>3 DEF HInv, Filed, Blank
    <3> QED BY <3>1, <2>4, <2>6, <1>4, JointFilled
  <2> HIDE DEF j
  <2>8. \A g \in Files : \A d : Has(Chain[g], d) => Has(Chain'[g], d)
    BY <2>3, <2>5
  <2>9. Call(x, j, contents[f], disk)
    <3>1. x.pc = "join" /\ x.new = o.new /\ x.missing = o.missing
      BY <2>2, <1>2
    <3>2. Len(x.todo) < NumFats + NumFats /\ Len(x.todo) # NumFats + NumFats
      BY <2>2, <1>2, <1>5, <1>7
    <3>3. o.missing - 1 + Len(j) = ClustersFor(o.to)
      <4> DEFINE a == o.missing
                 b == Len(s)
                 c == Len(j)
      <4>1. a \in Nat /\ b \in Nat /\ c = b + 1 /\ a + b = ClustersFor(o.to)
        BY <2>1, <2>5, <1>3, <1>4
      <4>2. a - 1 + c = a + b
        <5> HIDE DEF a, b, c
        <5> QED BY <4>1
      <4> QED BY <4>1, <4>2
    <3>4. Growing(x, j)
      BY <3>1, <3>2, <3>3, <2>1, <2>5, <1>3 DEF Growing, Joined
    <3> QED BY <3>1, <3>4, <1>3 DEF Call, Filling, Reading
  <2>10. Exclusive' /\ Calls'
    BY <2>3, <2>9, <1>3, CallsStep
  <2>11. Backed'
    <3> SUFFICES ASSUME NEW h \in Handles PROVE size'[h] <= Room(Chain'[FileOf[h]])
      BY DEF Backed
    <3>1. size[h] <= Room(Chain[FileOf[h]]) /\ size[h] \in Nat /\ FileOf[h] \in Files
      BY FatFacts DEF HInv, Backed, GInv, TypeOK
    <3> QED BY <3>1, <2>3, <2>6, <1>3
  <2>12. Filed'
    BY <2>3, <2>7, <1>3 DEF HInv, Filed
  <2>13. Blank'
    BY <2>8, <1>3 DEF HInv, Blank
  <2>14. Kept'
    <3>1. /\ \A u \in Threads : op'[u] = IF u = t THEN x ELSE op[u]
          /\ x.pc = "join" /\ x.new = o.new
      BY <2>2, <1>2, <1>3 DEF GInv, TypeOK
    <3>2. \A c \in Clusters : fat'[1][c] # FREE => fat[1][c] # FREE
      BY <1>1
    <3> SUFFICES ASSUME failures' = 0, NEW c \in Clusters, fat'[1][c] # FREE
                 PROVE  \/ \E g \in Files : Has(Chain'[g], c)
                        \/ \E u \in Threads : op'[u].pc \in {"mark", "link", "join"} /\ op'[u].new = c
      BY DEF Kept
    <3>3. \/ \E g \in Files : Has(Chain[g], c)
          \/ \E u \in Threads : op[u].pc \in {"mark", "link", "join"} /\ op[u].new = c
      BY <3>2, <1>3 DEF HInv, Kept
    <3> QED BY <3>1, <3>3, <2>8
  <2> QED BY <2>10, <2>11, <2>12, <2>13, <2>14 DEF HInv
<1> QED BY <1>6, <1>7
\* A chain with enough clusters has room for the bytes.
LEMMA Enough ==
  ASSUME NEW s, Len(s) \in Nat, NEW n \in Nat, ClustersFor(n) <= Len(s)
  PROVE  n <= Room(s)
<1> DEFINE a == ClustersFor(n)
           b == ClusterBytes * a
<1>1. a \in Nat /\ n <= b
  BY ClustersForFacts
<1>2. b <= Room(s) /\ Room(s) \in Nat
  BY <1>1, RoomFacts
<1>3. b \in Nat
  <2>1. \A p, q \in Nat : p * q \in Nat
    OBVIOUS
  <2> HIDE DEF a
  <2> QED BY <2>1, <1>1, FatFacts
<1> HIDE DEF a, b
<1> QED BY <1>1, <1>2, <1>3

\* A write begins.
LEMMA WriteData ==
  ASSUME OneHandlePerFile, GInv, HInv, NEW t \in Threads, NEW h \in Handles,
         NEW from \in Nat, NEW len \in Nat, write(t, h, from, len)
  PROVE  HInv'
<1> DEFINE to == from + len
           f == FileOf[h]
           s == Chain[f]
           K == contents[f]
           v == calls + 1
           L == [i \in DOMAIN K |-> IF i \in from .. to - 1 THEN K[i] \cup {v} ELSE K[i]]
<1>1. PICK x : Started(x, h, from, to) /\ op' = [op EXCEPT ![t] = x]
  BY WriteEffect
<1>2. /\ op[t] = Idle /\ IoLockFree(h) /\ contents' = [contents EXCEPT ![f] = L]
      /\ UNCHANGED <<fat, disk, failures>>
  BY DEF write, Put
<1>3. /\ f \in Files /\ s \in Seq(Clusters) /\ Len(s) \in Nat /\ Room(s) \in Nat
      /\ DOMAIN K = 0 .. ClusterBytes * TotalClusters - 1
      /\ \A i \in 0 .. Room(s) - 1 : i \in DOMAIN K
  BY Covered, FatFacts
<1>4. Chain' = Chain
  BY <1>2, SameChains DEF GInv
<1>5. contents'[f] = L /\ \A g \in Files : g # f => contents'[g] = contents[g]
  BY <1>2, <1>3 DEF GInv, TypeOK
<1>6. DOMAIN L = DOMAIN K /\ \A i \in DOMAIN K : (\A y : y \in K[i] => y \in L[i]) /\ (i \in from .. to - 1 => v \in L[i])
  OBVIOUS
<1> HIDE DEF L
<1>7. x \in Op /\ x.pc \in {"alloc", "data"} /\ x # Idle /\ x.h = h
  BY <1>1 DEF Started, Idle
<1>8. to \in Nat /\ from <= to /\ size[h] \in Nat /\ size[h] <= Room(s) /\ calls \in Nat
  BY DEF GInv, TypeOK, HInv, Backed
<1>9. Announced(x, L)
  <2>1. x.v = v /\ x.from = from /\ x.to = to /\ x.over = Over(f)
    BY <1>1 DEF Started
  <2>2. v \notin Over(f)
    BY <1>8 DEF Over
  <2> QED BY <2>1, <2>2, <1>6, <1>8 DEF Announced
<1>10. to <= size[h] \/ ClustersFor(to) <= Len(s) => to <= Room(s)
  BY <1>3, <1>8, Enough
<1>11. Growing(x, s) /\ Filling(x, s, disk) /\ Reading(x, s, L)
  <2>1. CASE x.pc = "alloc"
    <3>1. /\ x.last = s[Len(s)] /\ x.missing = ClustersFor(to) - Len(s) /\ x.missing >= 1 /\ x.to = to
          /\ x \in ExtendOp
      BY <2>1, <1>1 DEF Started
    <3>2. x.missing \in Nat /\ ClustersFor(to) \in Nat
      BY <3>1, <1>8, ClustersForFacts DEF ExtendOp
    <3>3. x.missing + Len(s) = ClustersFor(to)
      BY <3>1, <3>2, <1>3
    <3> QED BY <2>1, <3>1, <3>3 DEF Growing, Joined, Filling, Reading
  <2>2. CASE x.pc = "data"
    <3>1. x.chain = s /\ x.pos = from /\ x.from = from /\ x.to = to /\ to <= Room(s)
      BY <2>2, <1>1, <1>10 DEF Started
    <3>2. from .. from - 1 = {}
      OBVIOUS
    <3> QED BY <2>2, <3>1, <3>2, <1>8 DEF Growing, Joined, Filling, Reading
  <2> QED BY <2>1, <2>2, <1>7
<1>12. Exclusive' /\ Calls'
  <2>1. Call(x, s, L, disk)
    BY <1>9, <1>11 DEF Call
  <2> QED BY <2>1, <1>1, <1>2, <1>4, <1>5, <1>7, CallsStep
<1>13. Backed'
  <2> SUFFICES ASSUME NEW g \in Handles PROVE size'[g] <= Room(Chain'[FileOf[g]])
    BY DEF Backed
  <2>1. size[g] <= Room(Chain[FileOf[g]]) /\ size \in [Handles -> Nat]
    BY DEF HInv, Backed, GInv, TypeOK
  <2>2. CASE size' = size
    BY <2>1, <2>2, <1>4
  <2>3. CASE size' # size
    <3>1. /\ to <= size[h] \/ ClustersFor(to) <= Len(s)
          /\ size' = [size EXCEPT ![h] = IF to > size[h] THEN to ELSE size[h]]
      BY <2>3, <1>1 DEF Started
    <3>2. to <= Room(s)
      BY <3>1, <1>10
    <3> QED BY <2>1, <3>1, <3>2, <1>4, <1>8
  <2> QED BY <2>2, <2>3
<1>14. Filed'
  <2> SUFFICES ASSUME NEW g \in Files PROVE Filled(Chain[g], contents'[g], disk)
    BY <1>2, <1>4 DEF Filed
  <2>1. Filled(Chain[g], contents[g], disk)
    BY DEF HInv, Filed
  <2>2. CASE g = f
    <3>1. /\ \A i \in 0 .. Room(s) - 1 : Byte(disk, s, i) \in K[i]
          /\ \A i \in DOMAIN K : i >= Room(s) => 0 \in K[i]
      BY <2>1, <2>2 DEF Filled
    <3>2. Filled(s, L, disk)
      BY <3>1, <1>3, <1>6 DEF Filled
    <3> QED BY <2>2, <3>2, <1>5
  <2>3. CASE g # f
    BY <2>1, <2>3, <1>5
  <2> QED BY <2>2, <2>3
<1>15. Blank'
  BY <1>2, <1>4 DEF HInv, Blank
<1>16. Kept'
  <2>1. op[t].pc \notin {"mark", "link", "join"} /\ failures' = failures
    BY <1>2 DEF Idle
  <2> QED BY <2>1, <1>1, <1>2, <1>4, <1>7, KeptStep
<1> QED BY <1>12, <1>13, <1>14, <1>15, <1>16 DEF HInv

\* extend_file has returned: the data loop starts.
LEMMA ExtendedData ==
  ASSUME OneHandlePerFile, GInv, HInv, NEW t \in Threads, extended(t)
  PROVE  HInv'
<1> DEFINE o == op[t]
           f == FileOf[o.h]
           s == Chain[f]
           x == EnterData(o)
<1>1. /\ o.pc = "extended" /\ op' = [op EXCEPT ![t] = x] /\ size' = [size EXCEPT ![o.h] = o.to]
      /\ UNCHANGED <<fat, disk, calls, failures, contents>>
  BY DEF extended
<1>2. o \in Op /\ o # Idle
  BY <1>1 DEF GInv, TypeOK, Idle
<1>3. o.h \in Handles /\ o.from \in Nat /\ o.to \in Nat /\ o.v \in Nat /\ o.over \in SUBSET Nat /\ f \in Files
  BY <1>1, <1>2, OpKinds, FatFacts DEF ExtendOp
<1>4. /\ x \in Op
      /\ x = [pc |-> "data", h |-> o.h, from |-> o.from, to |-> o.to, v |-> o.v, over |-> o.over,
              pos |-> o.from, chain |-> s, buf |-> <<>>]
  BY <1>3, EnterTyped
<1> HIDE DEF x
<1>5. Chain' = Chain
  BY <1>1, SameChains DEF GInv
<1>6. Growing(o, s) /\ Announced(o, contents[f])
  BY <1>2 DEF HInv, Calls, Call
<1>7. s \in Seq(Clusters) /\ Len(s) \in Nat /\ Room(s) \in Nat
  BY <1>3, Covered
<1>8. o.to <= Room(s) /\ o.from <= o.to
  BY <1>1, <1>3, <1>6, <1>7, Enough DEF Growing, Announced
<1>9. Call(x, s, contents[f], disk)
  <2>1. o.from .. o.from - 1 = {} /\ o.from <= o.from
    BY <1>3
  <2>2. Announced(x, contents[f])
    BY <1>1, <1>4, <1>6 DEF Announced
  <2>3. Filling(x, s, disk)
    BY <2>1, <1>4, <1>8 DEF Filling
  <2>4. Growing(x, s) /\ Reading(x, s, contents[f])
    BY <1>4 DEF Growing, Joined, Reading
  <2> QED BY <2>2, <2>3, <2>4 DEF Call
<1>10. Exclusive' /\ Calls'
  <2>1. x # Idle /\ x.h = o.h /\ o.pc # "read"
    BY <1>1, <1>4 DEF Idle
  <2> QED BY <2>1, <1>1, <1>2, <1>3, <1>4, <1>5, <1>9, CallsStep
<1>11. Backed'
  <2> SUFFICES ASSUME NEW g \in Handles PROVE size'[g] <= Room(Chain[FileOf[g]])
    BY <1>5 DEF Backed
  <2>1. size[g] <= Room(Chain[FileOf[g]]) /\ size \in [Handles -> Nat]
    BY DEF HInv, Backed, GInv, TypeOK
  <2> QED BY <2>1, <1>1, <1>3, <1>8
<1>12. Filed' /\ Blank'
  BY <1>1, <1>5 DEF HInv, Filed, Blank
<1>13. Kept'
  BY <1>1, <1>4, <1>5, KeptStep
<1> QED BY <1>10, <1>11, <1>12, <1>13 DEF HInv
\* A call in its data loop or reading, which goes on with the same file.
LEMMA InLoop ==
  ASSUME GInv, HInv, NEW t \in Threads, op[t] \in DataOp \/ op[t] \in ReadOp
  PROVE  LET o == op[t]
             f == FileOf[o.h]
         IN  /\ o # Idle /\ o \in Op /\ o.h \in Handles /\ f \in Files
             /\ Call(o, Chain[f], contents[f], disk)
             /\ Chain[f] \in Seq(Clusters) /\ Len(Chain[f]) \in Nat /\ Room(Chain[f]) \in Nat
             /\ IsChain(fat[1], StartOf[f], Chain[f])
<1>1. op[t] \in Op
  BY DEF GInv, TypeOK
<1>2. op[t] # Idle
  BY DEF DataOp, ReadOp, Idle
<1>3. op[t].h \in Handles /\ FileOf[op[t].h] \in Files
  BY FatFacts DEF DataOp, ReadOp
<1>4. Call(op[t], Chain[FileOf[op[t].h]], contents[FileOf[op[t].h]], disk)
  BY <1>2 DEF HInv, Calls
<1>5. IsChain(fat[1], StartOf[FileOf[op[t].h]], Chain[FileOf[op[t].h]])
  BY <1>3 DEF GInv, Linked
<1> QED BY <1>1, <1>2, <1>3, <1>4, <1>5, Covered

\* The sector is read.
LEMMA SectorReadData ==
  ASSUME OneHandlePerFile, GInv, HInv, NEW t \in Threads, sector_read(t)
  PROVE  HInv'
<1> DEFINE o == op[t]
           f == FileOf[o.h]
           s == Chain[f]
<1>0. TypeOK
  BY DEF GInv
<1>1. PICK x \in DataOp :
        /\ o \in DataOp /\ o.pc = "data" /\ More(o) /\ op' = [op EXCEPT ![t] = x] /\ x.pc = "sector"
        /\ x = [o EXCEPT !.pc = "sector", !.buf = x.buf] /\ x.buf \in Bytes
        /\ Part(o) # 0 .. ClusterBytes - 1 => x.buf = disk[Cluster(o)]
        /\ UNCHANGED <<fat, disk, size, fat_lock, calls, failures, contents>>
  BY <1>0, SectorReadEffect
<1>2. /\ o # Idle /\ o.h \in Handles /\ f \in Files /\ Call(o, s, contents[f], disk)
  BY <1>1, InLoop
<1>3. Chain' = Chain
  BY <1>1, SameChains DEF GInv
<1>4. /\ x.h = o.h /\ x.from = o.from /\ x.to = o.to /\ x.v = o.v /\ x.over = o.over /\ x.pos = o.pos
      /\ x.chain = o.chain
  BY <1>1 DEF DataOp
<1>5. Part(x) = Part(o) /\ Cluster(x) = Cluster(o)
  BY <1>4 DEF Part, Cluster
<1>6. Filling(x, s, disk)
  <2>1. \A i \in 0 .. ClusterBytes - 1 : i \notin Part(x) => x.buf[i] = disk[Cluster(x)][i]
    BY <1>1, <1>5
  <2> QED BY <2>1, <1>1, <1>2, <1>4 DEF Call, Filling
<1>7. Call(x, s, contents[f], disk)
  BY <1>1, <1>2, <1>4, <1>6 DEF Call, Growing, Joined, Announced, Reading
<1>8. x \in Op /\ x # Idle
  BY <1>1 DEF Op, Idle
<1>9. Kept'
  BY <1>1, <1>3, <1>8, KeptStep
<1> QED BY <1>1, <1>2, <1>3, <1>4, <1>7, <1>8, <1>9, SameData

\* The bytes of a chain after a sector of it was written.
LEMMA BytesWritten ==
  ASSUME NEW F, NEW a, NEW s, IsChain(F, a, s), NEW o \in DataOp, o.pc = "sector", NEW D \in [Clusters -> Bytes],
         Filling(o, s, D), NEW n, Turn(o, n),
         NEW E, \A c \in Clusters : c # Cluster(o) => E[c] = D[c],
         \A k \in 0 .. ClusterBytes - 1 : E[Cluster(o)][k] = IF k \in Part(o) THEN o.v ELSE o.buf[k],
         NEW i \in 0 .. Room(s) - 1
  PROVE  Byte(E, s, i) = IF i \in o.pos .. o.pos + n - 1 THEN o.v ELSE Byte(D, s, i)
<1> DEFINE d == ClusterBytes
           p == o.pos
           q == i \div d
           r == i % d
           q0 == p \div d
           r0 == p % d
           c == Cluster(o)
<1>1. /\ s \in Seq(Clusters) /\ Len(s) \in Nat /\ o.chain = s /\ More(o) /\ p \in Nat /\ o.to \in Nat
      /\ d \in Nat \ {0}
  BY FatFacts DEF IsChain, DataOp, Filling
<1>2. q0 + 1 \in 1 .. Len(s) /\ c = s[q0 + 1] /\ c \in Clusters
  BY <1>1, ClusterTyped
<1>3. i \in Nat /\ q + 1 \in 1 .. Len(s) /\ r \in 0 .. d - 1
  <2>1. Room(s) \in Nat
    BY <1>1, RoomFacts
  <2>2. \A k \in 0 .. Room(s) - 1 : (k \div ClusterBytes) + 1 \in 1 .. Len(s)
    BY <1>1, RoomFacts
  <2>3. \A k \in 0 .. Room(s) - 1 : k % ClusterBytes \in 0 .. ClusterBytes - 1
    BY <1>1, RoomFacts
  <2>4. i \in Nat
    BY <2>1
  <2> QED BY <2>2, <2>3, <2>4
<1>4. /\ q \in Nat /\ d * q \in Nat /\ i = d * q + r
      /\ q0 \in Nat /\ d * q0 \in Nat /\ p = d * q0 + r0 /\ r0 \in 0 .. d - 1
  BY <1>1, <1>3, DivMod
<1>5. n \in Nat /\ r0 + n <= d /\ Part(o) = r0 .. r0 + n - 1
  BY DEF Turn
<1>6. /\ Byte(E, s, i) = E[s[q + 1]][r] /\ Byte(D, s, i) = D[s[q + 1]][r]
      /\ s[q + 1] \in Clusters
  BY <1>1, <1>3 DEF Byte
<1>7. \A k \in 0 .. d - 1 : k \notin Part(o) => o.buf[k] = D[c][k]
  BY DEF Filling
<1>8. E[c][r] = IF r \in Part(o) THEN o.v ELSE o.buf[r]
  BY <1>3
<1> HIDE DEF c
<1>9. CASE q = q0
  <2>1. Byte(E, s, i) = E[c][r] /\ Byte(D, s, i) = D[c][r]
    BY <1>2, <1>6, <1>9
  <2>2. r \in Part(o) <=> i \in p .. p + n - 1
    <3> DEFINE b == d * q0
    <3>1. i = b + r /\ p = b + r0 /\ b \in Nat
      BY <1>4, <1>9
    <3> HIDE DEF b, r, r0, p, d
    <3> QED BY <3>1, <1>1, <1>3, <1>4, <1>5
  <2> QED BY <2>1, <2>2, <1>3, <1>7, <1>8
<1>10. CASE q # q0
  <2>1. s[q + 1] # c
    <3>1. \A k, m \in 1 .. Len(s) : s[k] = s[m] => k = m
      BY DEF IsChain
    <3>2. q + 1 # q0 + 1
      <4> HIDE DEF q, q0
      <4> QED BY <1>4, <1>10
    <3> HIDE DEF q, q0
    <3> QED BY <3>1, <3>2, <1>2, <1>3
  <2>2. Byte(E, s, i) = Byte(D, s, i)
    BY <2>1, <1>6 DEF c
  <2>3. i \notin p .. p + n - 1
    <3> SUFFICES ASSUME i \in p .. p + n - 1 PROVE FALSE
      OBVIOUS
    <3> DEFINE k == i - p
    <3>1. k \in 0 .. n - 1 /\ p + k = i
      <4> HIDE DEF p
      <4> QED BY <1>1, <1>3, <1>5
    <3>2. (p + k) \div d = q0
      BY <3>1 DEF Turn
    <3> QED BY <3>1, <3>2, <1>10
  <2> QED BY <2>2, <2>3
<1> QED BY <1>9, <1>10
\* A sector is written.
LEMMA SectorWriteData ==
  ASSUME OneHandlePerFile, GInv, HInv, NEW t \in Threads, sector_write(t)
  PROVE  HInv'
<1> DEFINE o == op[t]
           f == FileOf[o.h]
           s == Chain[f]
           K == contents[f]
           n == Cardinality(Part(o))
<1>1. PICK x \in DataOp :
        /\ o \in DataOp /\ o.pc = "sector" /\ More(o) /\ op' = [op EXCEPT ![t] = x] /\ x.pc = "data"
        /\ x = [o EXCEPT !.pc = "data", !.pos = o.pos + n, !.buf = <<>>]
        /\ Turn(o, n) /\ Cluster(o) \in Clusters
        /\ disk' = [disk EXCEPT ![Cluster(o)] =
                      [i \in 0 .. ClusterBytes - 1 |-> IF i \in Part(o) THEN o.v ELSE o.buf[i]]]
        /\ UNCHANGED <<fat, size, fat_lock, calls, failures, contents>>
  BY SectorWriteEffect DEF GInv
<1>2. /\ o # Idle /\ o.h \in Handles /\ f \in Files /\ Call(o, s, K, disk)
      /\ s \in Seq(Clusters) /\ Len(s) \in Nat /\ Room(s) \in Nat /\ IsChain(fat[1], StartOf[f], s)
  BY <1>1, InLoop
<1>3. Chain' = Chain
  BY <1>1, SameChains DEF GInv
<1>4. n \in Nat /\ o.pos + n <= o.to
  BY <1>1 DEF Turn
<1>5. /\ x.h = o.h /\ x.from = o.from /\ x.to = o.to /\ x.v = o.v /\ x.over = o.over /\ x.pos = o.pos + n
      /\ x.chain = o.chain
  BY <1>1 DEF DataOp
<1>6. Filling(o, s, disk) /\ Announced(o, K)
  BY <1>2 DEF Call
<1>7. \A i \in 0 .. Room(s) - 1 :
        Byte(disk', s, i) = IF i \in o.pos .. o.pos + n - 1 THEN o.v ELSE Byte(disk, s, i)
  <2>1. disk \in [Clusters -> Bytes]
    BY DEF GInv, TypeOK
  <2> TAKE i \in 0 .. Room(s) - 1
  <2>2. o \in DataOp /\ o.pc = "sector" /\ Turn(o, n)
    BY <1>1
  <2>3. /\ \A c \in Clusters : c # Cluster(o) => disk'[c] = disk[c]
        /\ \A k \in 0 .. ClusterBytes - 1 : disk'[Cluster(o)][k] = IF k \in Part(o) THEN o.v ELSE o.buf[k]
    BY <2>1, <1>1
  <2>4. IsChain(fat[1], StartOf[f], s) /\ Filling(o, s, disk) /\ Room(s) \in Nat /\ n \in Nat /\ o.pos \in Nat
    BY <1>2, <1>4, <1>6, <2>2 DEF DataOp
  <2> DEFINE E == disk'
  <2>5. E = disk'
    OBVIOUS
  <2> HIDE DEF n, o, s, f, E
  <2>6. Byte(E, s, i) = IF i \in o.pos .. o.pos + n - 1 THEN o.v ELSE Byte(disk, s, i)
    BY <2>1, <2>2, <2>3, <2>4, <2>5, BytesWritten
  <2> QED BY <2>5, <2>6
<1>8. /\ o.from \in Nat /\ o.pos \in Nat /\ o.to \in Nat /\ o.from <= o.pos /\ o.to <= Room(s)
      /\ o.chain = s /\ \A i \in o.from .. o.pos - 1 : Byte(disk, s, i) = o.v
  BY <1>1, <1>6 DEF DataOp, Filling
<1> HIDE DEF n
<1>9. Filling(x, s, disk')
  <2>1. ASSUME NEW i \in x.from .. x.pos - 1 PROVE Byte(disk', s, i) = x.v
    <3>1. i \in o.from .. o.pos - 1 \/ i \in o.pos .. o.pos + n - 1
      BY <1>4, <1>5, <1>8
    <3>2. i \in 0 .. Room(s) - 1
      BY <1>2, <1>4, <1>5, <1>8
    <3> QED BY <3>1, <3>2, <1>5, <1>7, <1>8
  <2>2. x.from <= x.pos /\ x.pos <= x.to /\ x.to <= Room(s) /\ x.chain = s
    BY <1>4, <1>5, <1>8
  <2> QED BY <2>1, <2>2, <1>1 DEF Filling
<1>10. Call(x, s, K, disk')
  <2>1. Announced(x, K)
    BY <1>1, <1>5, <1>6 DEF Announced
  <2>2. Growing(x, s) /\ Reading(x, s, K)
    BY <1>1 DEF Growing, Joined, Reading
  <2> QED BY <2>1, <2>2, <1>9 DEF Call
<1>11. Has(s, Cluster(o)) /\ \A c \in Clusters : c # Cluster(o) => disk'[c] = disk[c]
  <2>1. Has(s, Cluster(o))
    BY <1>1, <1>8, ClusterHas
  <2>2. disk \in [Clusters -> Bytes]
    BY DEF GInv, TypeOK
  <2>3. \A c \in Clusters : c # Cluster(o) => disk'[c] = disk[c]
    BY <2>2, <1>1
  <2> QED BY <2>1, <2>3
<1>12. \A g \in Files : g # f => \A c : Has(Chain[g], c) => disk'[c] = disk[c]
  <2> TAKE g \in Files
  <2>1. \A c : Has(Chain[g], c) => c \in Clusters
    BY Covered DEF Has
  <2> QED BY <2>1, <1>1, <1>2, <1>11 DEF GInv, Linked
<1>13. Exclusive' /\ Calls'
  <2>1. x \in Op /\ x # Idle /\ o.pc \notin {"idle", "read"}
    BY <1>1 DEF Op, Idle
  <2> QED BY <2>1, <1>1, <1>2, <1>3, <1>5, <1>10, <1>12, CallsStep
<1>14. Filed'
  <2> SUFFICES ASSUME NEW g \in Files PROVE Filled(Chain[g], contents[g], disk')
    BY <1>1, <1>3 DEF Filed
  <2>1. Filled(Chain[g], contents[g], disk)
    BY DEF HInv, Filed
  <2>2. CASE g = f
    <3>1. ASSUME NEW i \in 0 .. Room(s) - 1 PROVE Byte(disk', s, i) \in K[i]
      <4>1. CASE i \in o.pos .. o.pos + n - 1
        <5>1. i \in DOMAIN K
          BY <1>2, Covered
        <5>2. i \in o.from .. o.to - 1
          BY <4>1, <1>4, <1>8
        <5>3. o.v \in K[i]
          BY <5>1, <5>2, <1>1, <1>6 DEF Announced
        <5> QED BY <4>1, <5>3, <1>7
      <4>2. CASE i \notin o.pos .. o.pos + n - 1
        <5>1. Byte(disk, s, i) \in K[i]
          BY <2>1, <2>2 DEF Filled
        <5> QED BY <4>2, <5>1, <1>7
      <4> QED BY <4>1, <4>2
    <3> QED BY <2>1, <2>2, <3>1 DEF Filled
  <2>3. CASE g # f
    <3>1. Chain[g] \in Seq(Clusters) /\ \A c : Has(Chain[g], c) => disk'[c] = disk[c]
      BY <2>3, <1>12, Covered
    <3> QED BY <2>1, <3>1, SameFilled
  <2> QED BY <2>2, <2>3
<1>15. Blank'
  BY <1>2, <1>3, <1>11 DEF HInv, Blank
<1>16. Backed'
  BY <1>1, <1>3 DEF HInv, Backed
<1>17. Kept'
  <2>1. x \in Op /\ o.pc \notin {"mark", "link", "join"}
    BY <1>1 DEF Op
  <2> QED BY <2>1, <1>1, <1>3, KeptStep
<1> QED BY <1>13, <1>14, <1>15, <1>16, <1>17 DEF HInv

\* write returns: the bytes it wrote hold what it, or a call that was not over
\* when it began, wrote.
LEMMA WriteDoneData ==
  ASSUME OneHandlePerFile, GInv, HInv, NEW t \in Threads, write_done(t)
  PROVE  HInv'
<1> DEFINE o == op[t]
           f == FileOf[o.h]
           s == Chain[f]
           K == contents[f]
           L == [i \in DOMAIN K |-> IF i \in o.from .. o.pos - 1 THEN K[i] \ o.over ELSE K[i]]
<1>1. /\ o.pc = "data" /\ contents' = [contents EXCEPT ![f] = L] /\ op' = [op EXCEPT ![t] = Idle]
      /\ UNCHANGED <<fat, disk, size, calls, failures>>
  BY DEF write_done, Put, Return
<1>2. o \in DataOp
  <2>1. o \in Op
    BY DEF GInv, TypeOK
  <2> QED BY <2>1, <1>1, OpKinds
<1>3. /\ o # Idle /\ o.h \in Handles /\ f \in Files /\ Call(o, s, K, disk)
      /\ s \in Seq(Clusters) /\ Len(s) \in Nat /\ Room(s) \in Nat
  BY <1>2, InLoop
<1>4. Chain' = Chain
  BY <1>1, SameChains DEF GInv
<1>5. contents'[f] = L /\ \A g \in Files : g # f => contents'[g] = contents[g]
  BY <1>1, <1>3 DEF GInv, TypeOK
<1>6. /\ o.from \in Nat /\ o.pos \in Nat /\ o.to \in Nat /\ o.pos <= o.to /\ o.to <= Room(s) /\ o.v \notin o.over
      /\ \A i \in o.from .. o.pos - 1 : Byte(disk, s, i) = o.v
  BY <1>1, <1>2, <1>3 DEF DataOp, Call, Filling, Announced
<1>7. Filled(s, L, disk)
  <2>1. Filled(s, K, disk)
    BY <1>3 DEF HInv, Filed
  <2>2. ASSUME NEW i \in 0 .. Room(s) - 1 PROVE Byte(disk, s, i) \in L[i]
    <3>1. Byte(disk, s, i) \in K[i]
      BY <2>1 DEF Filled
    <3>2. i \in DOMAIN K
      BY <1>3, Covered
    <3> QED BY <3>1, <3>2, <1>6
  <2>3. ASSUME NEW i \in DOMAIN L, i >= Room(s) PROVE 0 \in L[i]
    <3>1. i \in DOMAIN K /\ 0 \in K[i]
      BY <2>1, <2>3 DEF Filled
    <3>2. i \in Int
      BY <3>1, <1>3, Covered
    <3>3. i \notin o.from .. o.pos - 1
      BY <2>3, <3>2, <1>3, <1>6
    <3> QED BY <3>1, <3>3
  <2> HIDE DEF L
  <2> QED BY <2>2, <2>3 DEF Filled
<1> HIDE DEF L
<1>8. Exclusive' /\ Calls'
  <2>1. Idle \in Op /\ o.pc \notin {"idle", "read"}
    BY <1>1 DEF Op
  <2> QED BY <2>1, <1>1, <1>3, <1>4, <1>5, CallsStep
<1>9. Filed'
  <2> SUFFICES ASSUME NEW g \in Files PROVE Filled(Chain[g], contents'[g], disk)
    BY <1>1, <1>4 DEF Filed
  <2>1. Filled(Chain[g], contents[g], disk)
    BY DEF HInv, Filed
  <2> QED BY <2>1, <1>5, <1>7
<1>10. Backed' /\ Blank'
  BY <1>1, <1>4 DEF HInv, Backed, Blank
<1>11. Kept'
  <2>1. Idle \in Op /\ o.pc \notin {"mark", "link", "join"} /\ failures' = failures
    BY <1>1 DEF Op
  <2> QED BY <2>1, <1>1, <1>4, KeptStep
<1> QED BY <1>8, <1>9, <1>10, <1>11 DEF HInv

\* A call ends with an error, or read returns.
LEMMA ReturnData ==
  ASSUME OneHandlePerFile, GInv, HInv, NEW t \in Threads, disk_full(t) \/ read_done(t) \/ io_error(t)
  PROVE  HInv'
<1> DEFINE o == op[t]
<1>1. /\ op' = [op EXCEPT ![t] = Idle] /\ UNCHANGED <<fat, disk, size, contents>>
      /\ o.pc \in {"alloc", "mark", "join", "data", "sector", "read"}
      /\ \/ failures' = failures /\ o.pc \notin {"mark", "link", "join"}
         \/ failures' = failures + 1
  BY DEF disk_full, read_done, io_error, Return
<1>2. o \in Op /\ o # Idle /\ Idle \in Op /\ failures \in Nat
  BY <1>1 DEF GInv, TypeOK, Op, Idle
<1>3. o.h \in Handles
  BY <1>2, OpKinds DEF ExtendOp, DataOp, ReadOp
<1>4. Chain' = Chain
  BY <1>1, SameChains DEF GInv
<1>5. Kept'
  <2>1. failures' \in {failures, failures + 1} /\ ~ (failures' = failures /\ o.pc \in {"mark", "link", "join"})
    BY <1>1, <1>2
  <2> QED BY <2>1, <1>1, <1>2, <1>4, KeptStep
<1> QED BY <1>1, <1>2, <1>3, <1>4, <1>5, SameData
\* A read begins.
LEMMA ReadData ==
  ASSUME OneHandlePerFile, GInv, HInv, NEW t \in Threads, NEW h \in Handles,
         NEW from \in Nat, NEW len \in Nat, read(t, h, from, len)
  PROVE  HInv'
<1> DEFINE f == FileOf[h]
           s == Chain[f]
<1>1. PICK x \in ReadOp :
        /\ op[t] = Idle /\ op' = [op EXCEPT ![t] = x] /\ x.h = h /\ x.from = from /\ x.pos = from
        /\ x.to <= size[h] /\ x.chain = s /\ x.got = <<>> /\ x.from <= x.to
        /\ UNCHANGED <<fat, disk, size, fat_lock, failures, contents>>
  BY ReadEffect
<1>2. IoLockShared(h)
  BY DEF read
<1>3. Chain' = Chain
  BY <1>1, SameChains DEF GInv
<1>4. f \in Files /\ size[h] \in Nat /\ size[h] <= Room(s) /\ Room(s) \in Nat
  <2>1. f \in Files /\ size[h] \in Nat /\ size[h] <= Room(s)
    BY FatFacts DEF GInv, TypeOK, HInv, Backed
  <2> QED BY <2>1, Covered
<1>5. x \in Op /\ x # Idle /\ x.pc = "read" /\ x.to \in Nat
  BY DEF Op, ReadOp, Idle
<1>6. Call(x, s, contents[f], disk)
  <2>1. x.to <= Room(s) /\ Len(x.got) = x.pos - x.from /\ x.from <= x.pos
    BY <1>1, <1>4, <1>5
  <2>2. Reading(x, s, contents[f])
    BY <2>1, <1>1 DEF Reading
  <2> QED BY <2>2, <1>5 DEF Call, Growing, Joined, Announced, Filling
<1>7. Kept'
  <2>1. op[t].pc \notin {"mark", "link", "join"} /\ failures' = failures
    BY <1>1 DEF Idle
  <2> QED BY <2>1, <1>1, <1>3, <1>5, KeptStep
<1> QED BY <1>1, <1>2, <1>3, <1>4, <1>5, <1>6, <1>7, SameData

\* A sector is read and its bytes are handed over.
LEMMA ReadSectorData ==
  ASSUME OneHandlePerFile, GInv, HInv, NEW t \in Threads, read_sector(t)
  PROVE  HInv'
<1> DEFINE o == op[t]
           f == FileOf[o.h]
           s == Chain[f]
           K == contents[f]
           n == Cardinality(Part(o))
<1>1. PICK x \in ReadOp :
        /\ o \in ReadOp /\ More(o) /\ op' = [op EXCEPT ![t] = x] /\ Turn(o, n)
        /\ x = [o EXCEPT !.pos = o.pos + n, !.got = x.got]
        /\ Len(x.got) = Len(o.got) + n
        /\ \A i \in 1 .. Len(o.got) : x.got[i] = o.got[i]
        /\ \A i \in 1 .. n : x.got[Len(o.got) + i] = ByteAt(o.chain, o.pos + i - 1)
        /\ UNCHANGED <<fat, disk, size, fat_lock, calls, failures, contents>>
  BY ReadSectorEffect DEF GInv
<1>2. /\ o # Idle /\ o.h \in Handles /\ f \in Files /\ Call(o, s, K, disk)
      /\ s \in Seq(Clusters) /\ Len(s) \in Nat /\ Room(s) \in Nat
  BY <1>1, InLoop
<1>3. Chain' = Chain
  BY <1>1, SameChains DEF GInv
<1>4. n \in Nat /\ o.pos + n <= o.to
  BY <1>1 DEF Turn
<1>5. /\ x.h = o.h /\ x.from = o.from /\ x.to = o.to /\ x.pos = o.pos + n /\ x.chain = o.chain
      /\ o.pc = "read" /\ x.pc = "read" /\ o.from \in Nat /\ o.pos \in Nat /\ o.to \in Nat
      /\ Len(o.got) \in Nat
  <2>1. o \in ReadOp /\ x = [o EXCEPT !.pos = o.pos + n, !.got = x.got]
    BY <1>1
  <2>2. o.pc = "read" /\ o.from \in Nat /\ o.pos \in Nat /\ o.to \in Nat /\ o.got \in Seq(Nat)
    BY <2>1 DEF ReadOp
  <2> HIDE DEF n, o
  <2>3. x.h = o.h /\ x.from = o.from /\ x.to = o.to /\ x.pos = o.pos + n /\ x.chain = o.chain /\ x.pc = o.pc
    BY <2>1 DEF ReadOp
  <2> QED BY <2>2, <2>3
<1>6. /\ o.chain = s /\ o.from <= o.pos /\ o.to <= Room(s) /\ Len(o.got) = o.pos - o.from
      /\ \A i \in 1 .. Len(o.got) : o.got[i] \in K[o.from + i - 1]
  BY <1>2, <1>5 DEF Call, Reading
<1> HIDE DEF n
<1>7. ASSUME NEW i \in 1 .. Len(x.got) PROVE x.got[i] \in K[o.from + i - 1]
  <2>1. CASE i \in 1 .. Len(o.got)
    BY <2>1, <1>1, <1>6
  <2>2. CASE i \notin 1 .. Len(o.got)
    <3> DEFINE j == i - Len(o.got)
               b == o.from + i - 1
    <3>1. j \in 1 .. n /\ i = Len(o.got) + j /\ o.pos + j - 1 = b /\ b \in 0 .. Room(s) - 1
      <4>1. Len(x.got) = Len(o.got) + n
        BY <1>1
      <4> DEFINE k == Len(o.got)
      <4>2. i \in k + 1 .. k + n /\ k \in Nat /\ k = o.pos - o.from
        BY <2>2, <4>1, <1>4, <1>5, <1>6
      <4>3. o.from <= o.pos /\ o.to <= Room(s) /\ o.from \in Nat /\ o.pos \in Nat /\ o.to \in Nat
        BY <1>5, <1>6
      <4>4. j = i - k
        OBVIOUS
      <4> HIDE DEF k, j, s
      <4>5. j \in 1 .. n /\ i = k + j
        BY <4>2, <4>4, <1>4
      <4>6. o.pos + j - 1 = b
        <5> DEFINE p == o.pos
                   a == o.from
        <5>1. b = a + i - 1 /\ a \in Nat /\ p \in Nat /\ k = p - a /\ k \in Nat /\ j \in Int /\ i = k + j
          BY <4>2, <4>3, <4>5, <1>4
        <5> HIDE DEF a, p, b
        <5>2. p + j - 1 = b
          BY <5>1
        <5> QED BY <5>2 DEF p
      <4>7. b \in 0 .. Room(s) - 1
        <5>1. b = o.pos + j - 1 /\ j \in Nat /\ j >= 1 /\ j <= n /\ o.pos + n <= o.to
          BY <4>5, <4>6, <1>4
        <5>2. Room(s) \in Nat
          BY <1>2 DEF s
        <5> HIDE DEF b
        <5> QED BY <5>1, <5>2, <4>3, <1>4
      <4> QED BY <4>5, <4>6, <4>7 DEF k, s
    <3> HIDE DEF j, b
    <3>2. x.got[i] = ByteAt(s, b)
      BY <3>1, <1>1, <1>6
    <3>3. Filled(s, K, disk)
      BY <1>2 DEF HInv, Filed
    <3>4. Byte(disk, s, b) \in K[b]
      BY <3>1, <3>3 DEF Filled
    <3>5. ByteAt(s, b) = Byte(disk, s, b)
      BY DEF ByteAt, Byte
    <3> QED BY <3>2, <3>4, <3>5 DEF b
  <2> QED BY <2>1, <2>2
<1>8. Call(x, s, K, disk)
  <2>1. x.chain = s /\ x.from <= x.pos /\ x.pos <= x.to /\ x.to <= Room(s) /\ Len(x.got) = x.pos - x.from
    BY <1>1, <1>4, <1>5, <1>6
  <2>2. Reading(x, s, K)
    BY <2>1, <1>5, <1>7 DEF Reading
  <2> QED BY <2>2, <1>5 DEF Call, Growing, Joined, Announced, Filling
<1>9. x \in Op /\ x # Idle
  BY <1>5 DEF Op, Idle
<1>10. Kept'
  BY <1>1, <1>3, <1>5, <1>9, KeptStep
<1> QED BY <1>1, <1>2, <1>3, <1>5, <1>8, <1>9, <1>10, SameData

\* The size in the directory entry is within the first cluster.
LEMMA SizeBacked ==
  ASSUME GInv, NEW h \in Handles
  PROVE  SizeOf[FileOf[h]] <= Room(Chain[FileOf[h]])
<1>1. FileOf[h] \in Files /\ SizeOf[FileOf[h]] \in 0 .. ClusterBytes /\ ClusterBytes \in Nat
  BY FatAssumption
<1>2. Len(Chain[FileOf[h]]) \in Nat /\ 1 <= Len(Chain[FileOf[h]]) /\ Room(Chain[FileOf[h]]) \in Nat
  BY <1>1, Covered
<1>3. ClusterBytes * 1 <= Room(Chain[FileOf[h]])
  BY <1>2, RoomFacts
<1> QED BY <1>1, <1>2, <1>3

LEMMA RestartData ==
  ASSUME GInv, HInv, restart
  PROVE  HInv'
<1>1. /\ failures' = failures + 1 /\ failures \in Nat /\ op' = [t \in Threads |-> Idle]
      /\ size' = [h \in Handles |-> SizeOf[FileOf[h]]] /\ UNCHANGED <<fat, disk, calls, contents>>
  BY DEF GInv, TypeOK, restart
<1>2. Chain' = Chain
  BY <1>1, SameChains DEF GInv
<1>3. Exclusive' /\ Calls' /\ Kept'
  BY <1>1 DEF Exclusive, Calls, Kept
<1>4. Filed' /\ Blank'
  BY <1>1, <1>2 DEF HInv, Filed, Blank
<1>5. Backed'
  BY <1>1, <1>2, SizeBacked DEF Backed
<1> QED BY <1>3, <1>4, <1>5 DEF HInv

LEMMA OpenData ==
  ASSUME GInv, HInv, NEW h \in Handles, open(h)
  PROVE  HInv'
<1>1. /\ size' = [size EXCEPT ![h] = SizeOf[FileOf[h]]] /\ size \in [Handles -> Nat]
      /\ UNCHANGED <<fat, disk, op, fat_lock, calls, failures, contents>>
  BY DEF GInv, TypeOK, open
<1>2. Chain' = Chain
  BY <1>1, SameChains DEF GInv
<1>3. Exclusive' /\ Calls' /\ Kept' /\ Filed' /\ Blank'
  BY <1>1, <1>2 DEF HInv, Exclusive, Calls, Kept, Filed, Blank
<1>4. Backed'
  BY <1>1, <1>2, SizeBacked DEF HInv, Backed
<1> QED BY <1>3, <1>4 DEF HInv
LEMMA HInvInit == Init => HInv
<1> SUFFICES ASSUME Init PROVE HInv
  OBVIOUS
<1> DEFINE B == 0 .. ClusterBytes * TotalClusters - 1
<1>1. GInv
  BY GInvInit
<1>2. /\ op = [t \in Threads |-> Idle] /\ failures = 0 /\ size = [h \in Handles |-> SizeOf[FileOf[h]]]
      /\ contents = [f \in Files |-> [i \in B |-> {0}]]
      /\ disk = [c \in Clusters |-> [i \in 0 .. ClusterBytes - 1 |-> 0]]
  BY DEF Init
<1>3. Exclusive /\ Calls
  BY <1>2 DEF Exclusive, Calls
<1>4. Backed
  BY <1>1, <1>2, SizeBacked DEF Backed
<1>5. ASSUME NEW f \in Files PROVE Filled(Chain[f], contents[f], disk)
  <2> DEFINE s == Chain[f]
  <2>1. /\ s \in Seq(Clusters) /\ Len(s) \in Nat /\ \A i \in 0 .. Room(s) - 1 : i \in B
    <3>1. s \in Seq(Clusters) /\ Len(s) \in Nat
      BY <1>1, Covered
    <3>2. \A i \in 0 .. Room(s) - 1 : i \in DOMAIN contents[f]
      BY <1>1, Covered
    <3> HIDE DEF B
    <3>3. DOMAIN contents[f] = B
      BY <1>2
    <3> QED BY <3>1, <3>2, <3>3
  <2>2. \A i \in B : contents[f][i] = {0}
    <3> HIDE DEF B
    <3> QED BY <1>2
  <2>3. DOMAIN contents[f] = B
    <3> HIDE DEF B
    <3> QED BY <1>2
  <2>4. ASSUME NEW i \in 0 .. Room(s) - 1 PROVE Byte(disk, s, i) = 0
    <3>1. (i \div ClusterBytes) + 1 \in 1 .. Len(s)
      BY <2>1, RoomFacts
    <3>2. i % ClusterBytes \in 0 .. ClusterBytes - 1
      BY <2>1, RoomFacts
    <3> DEFINE q == (i \div ClusterBytes) + 1
               r == i % ClusterBytes
    <3>3. Byte(disk, s, i) = disk[s[q]][r]
      BY DEF Byte
    <3> HIDE DEF q, r
    <3>4. s[q] \in Clusters /\ r \in 0 .. ClusterBytes - 1
      BY <2>1, <3>1, <3>2 DEF q, r
    <3> QED BY <3>3, <3>4, <1>2
  <2> HIDE DEF B
  <2> QED BY <2>1, <2>2, <2>3, <2>4 DEF Filled
<1>6. Filed
  BY <1>5 DEF Filed
<1>7. Blank
  BY <1>2 DEF Blank
<1>8. Kept
  <2> SUFFICES ASSUME NEW c \in Clusters, fat[1][c] # FREE
               PROVE  \E f \in Files : Has(Chain[f], c)
    BY DEF Kept
  <2>1. PICK f \in Files : StartOf[f] = c
    BY FatFacts DEF Init
  <2>2. IsChain(fat[1], StartOf[f], Chain[f])
    BY <1>1 DEF GInv, Linked
  <2>3. Len(Chain[f]) \in Nat /\ Len(Chain[f]) >= 1 /\ Chain[f][1] = c
    BY <2>1, <2>2 DEF IsChain
  <2> QED BY <2>3 DEF Has
<1> QED BY <1>3, <1>4, <1>6, <1>7, <1>8 DEF HInv

LEMMA HInvStep ==
  ASSUME OneHandlePerFile
  PROVE  GInv /\ HInv /\ [Next]_vars => HInv'
<1> SUFFICES ASSUME GInv, HInv, [Next]_vars PROVE HInv'
  OBVIOUS
<1>0. GInv'
  BY GInvStep
<1>1. CASE UNCHANGED vars
  <2>1. Chain' = Chain
    BY <1>1, SameChains DEF vars, GInv
  <2> QED BY <1>1, <2>1 DEF vars, HInv, Exclusive, Calls, Backed, Filed, Blank, Kept
<1>2. ASSUME NEW t \in Threads, NEW h \in Handles, NEW r \in Ranges,
             write(t, h, r[1], r[2]) \/ read(t, h, r[1], r[2])
      PROVE  HInv'
  <2>1. r[1] \in Nat /\ r[2] \in Nat
    BY FatAssumption
  <2> QED BY <1>2, <2>1, WriteData, ReadData
<1>3. ASSUME NEW t \in Threads, Advance(t) \/ io_error(t) PROVE HInv'
  <2>1. CASE alloc_cluster(t) \/ link_cluster(t)
    BY <2>1, AllocData
  <2>2. CASE fat_write(t)
    <3>1. op[t].pc \in {"mark", "join"}
      BY <2>2 DEF fat_write
    <3> QED BY <2>2, <3>1, <1>0, AllocData, JoinData
  <2>3. CASE extended(t) \/ sector_read(t) \/ sector_write(t) \/ write_done(t) \/ read_sector(t)
    BY <2>3, ExtendedData, SectorReadData, SectorWriteData, WriteDoneData, ReadSectorData
  <2>4. CASE disk_full(t) \/ read_done(t) \/ io_error(t)
    BY <2>4, ReturnData
  <2> QED BY <1>3, <2>1, <2>2, <2>3, <2>4 DEF Advance
<1> QED BY <1>1, <1>2, <1>3, OpenData, RestartData DEF Next

\* The invariant of the data and of the calls in progress.
LEMMA DataInvariance ==
  ASSUME OneHandlePerFile
  PROVE  Spec => [](GInv /\ HInv)
<1>1. Init => GInv /\ HInv
  BY GInvInit, HInvInit
<1>2. GInv /\ HInv /\ [Next]_vars => (GInv /\ HInv)'
  BY GInvStep, HInvStep
<1> QED BY <1>1, <1>2, PTL DEF Spec

\* Without failures and with one handle on each file, a cluster that is marked
\* in the FAT is in a file's chain, or in the hands of the write that will link
\* it: writers that extend different files never leave one behind.
THEOREM ClustersKept ==
  ASSUME OneHandlePerFile
  PROVE  Spec => []NoClusterLost
<1>1. GInv /\ HInv => NoClusterLost
  <2> SUFFICES ASSUME GInv, HInv, failures = 0, NEW c \in Clusters, fat[1][c] # FREE,
                      ~ \E t \in Threads : op[t].pc \in {"mark", "link", "join"} /\ op[t].new = c
               PROVE  c \in UNION {InChain(f) : f \in Files}
    BY DEF NoClusterLost
  <2>1. PICK f \in Files : Has(Chain[f], c)
    BY DEF HInv, Kept
  <2>2. c \in InChain(f)
    BY <2>1 DEF Has, InChain, Chain, ToSet
  <2> QED BY <2>2
<1> QED BY <1>1, DataInvariance, PTL

\* With one handle on each file, every byte of a file is what the last write
\* of it left, or what a write in progress or cut short may have put there:
\* nothing else changes it, whatever fails and wherever the machine stops.
THEOREM DataKept ==
  ASSUME OneHandlePerFile
  PROVE  Spec => []BytesKept
<1>1. GInv /\ HInv => BytesKept
  <2> SUFFICES ASSUME GInv, HInv, NEW f \in Files,
                      NEW i \in 0 .. ClusterBytes * Len(ChainOf(f)) - 1
               PROVE  ByteAt(ChainOf(f), i) \in contents[f][i]
    BY DEF BytesKept
  <2>1. Chain[f] = ChainOf(f)
    BY DEF Chain
  <2>2. i \in 0 .. Room(Chain[f]) - 1
    BY <2>1 DEF Room
  <2>3. Byte(disk, Chain[f], i) \in contents[f][i]
    BY <2>2 DEF HInv, Filed, Filled
  <2> QED BY <2>1, <2>3 DEF Byte, ByteAt
<1> QED BY <1>1, DataInvariance, PTL

\* With one handle on each file, a read returns all the bytes that the size
\* covers, each as the writes left it.
THEOREM ReadsRight ==
  ASSUME OneHandlePerFile
  PROVE  Spec => []ReadsSeeWrites
<1>1. GInv /\ HInv => ReadsSeeWrites
  <2> SUFFICES ASSUME GInv, HInv, NEW t \in Threads, op[t].pc = "read", ~ More(op[t])
               PROVE  /\ op[t].pos = op[t].to
                      /\ \A i \in DOMAIN op[t].got :
                           op[t].got[i] \in contents[FileOf[op[t].h]][op[t].from + i - 1]
    BY DEF ReadsSeeWrites
  <2> DEFINE o == op[t]
             f == FileOf[o.h]
             s == Chain[f]
  <2>1. o \in ReadOp
    <3>1. o \in Op
      BY DEF GInv, TypeOK
    <3> QED BY <3>1, OpKinds
  <2>2. f \in Files /\ Call(o, s, contents[f], disk) /\ Len(s) \in Nat /\ Room(s) \in Nat
    BY <2>1, InLoop
  <2>3. /\ o.chain = s /\ o.pos <= o.to /\ o.to <= Room(s)
        /\ \A i \in 1 .. Len(o.got) : o.got[i] \in contents[f][o.from + i - 1]
    BY <2>2 DEF Call, Reading
  <2>4. o.pos \in Nat /\ o.to \in Nat /\ DOMAIN o.got = 1 .. Len(o.got)
    BY <2>1 DEF ReadOp
  <2>5. o.pos \div ClusterBytes < Len(s) <=> o.pos < Room(s)
    BY <2>2, <2>4, RoomFacts
  <2>6. ~ (o.pos < o.to /\ o.pos \div ClusterBytes < Len(s))
    BY <2>3 DEF More
  <2>7. o.pos = o.to
    <3> HIDE DEF o, s
    <3>1. o.pos < o.to => o.pos < Room(s)
      BY <2>2, <2>3, <2>4
    <3> QED BY <3>1, <2>3, <2>4, <2>5, <2>6
  <2> QED BY <2>3, <2>4, <2>7
<1> QED BY <1>1, DataInvariance, PTL
-----------------------------------------------------------------------------
(***************************************************************************)
(* The descriptors above the file systems (Files): what a transfer of a    *)
(* framebuffer file touches.                                               *)
(***************************************************************************)

\* A descriptor's file is a device file or a handle that an open has made, and
\* its offset is a number.
FileObjects == {Vfs!Uart, Vfs!Fb} \cup {Vfs!Handle(i) : i \in 1 .. Len(sizes)}
Descriptor == [file : FileObjects, cloexec : BOOLEAN,
               access : SUBSET {"READ", "WRITE", "APPEND"}, offset : Nat]
FdsType == /\ fds \in Seq(Descriptor \cup {Nil}) /\ sizes \in Seq(Nat)
           /\ \A m \in DOMAIN devices : devices[m] \in {Vfs!Uart, Vfs!Fb}
FdsInv == FdsType /\ touched \subseteq 0 .. FbSize - 1

LEMMA MinMax ==
  ASSUME NEW a \in Int, NEW b \in Int
  PROVE  /\ Vfs!Min({a, b}) = IF a <= b THEN a ELSE b
         /\ Vfs!Max({a, b}) = IF a >= b THEN a ELSE b
BY DEF Vfs!Min, Vfs!Max

LEMMA FbCounts ==
  ASSUME FbSize \in Nat, NEW len \in Nat, NEW at \in Nat, at <= FbSize
  PROVE  Vfs!FbCount(len, at) \in Nat /\ at + Vfs!FbCount(len, at) <= FbSize
<1> DEFINE s == FbSize - at
<1>1. s \in Nat /\ at + s = FbSize
  OBVIOUS
<1>2. Vfs!FbCount(len, at) = Vfs!Min({len, Vfs!Max({s, 0})})
  BY DEF Vfs!FbCount
<1> HIDE DEF s
<1>3. s \in Int /\ 0 \in Int /\ len \in Int
  BY <1>1
<1>4. Vfs!Max({s, 0}) = IF s >= 0 THEN s ELSE 0
  BY <1>3, MinMax, Zenon
<1>5. Vfs!Max({s, 0}) = s
  BY <1>1, <1>4
<1>6. Vfs!Min({len, s}) = IF len <= s THEN len ELSE s
  BY <1>3, MinMax, Zenon
<1>7. Vfs!FbCount(len, at) = IF len <= s THEN len ELSE s
  BY <1>2, <1>5, <1>6
<1> QED BY <1>1, <1>7

\* A handle stays one when more are made.
LEMMA KeepsObjects ==
  ASSUME sizes \in Seq(Nat), sizes' \in Seq(Nat), Len(sizes') >= Len(sizes)
  PROVE  FileObjects \subseteq FileObjects' /\ Descriptor \subseteq Descriptor'
<1>1. FileObjects \subseteq FileObjects'
  BY DEF FileObjects, Vfs!Handle, Vfs!Uart, Vfs!Fb
<1> QED BY <1>1 DEF Descriptor

\* Which kinds of files there are.
LEMMA ObjectKinds ==
  ASSUME sizes \in Seq(Nat), NEW f \in FileObjects
  PROVE  /\ f = Vfs!Uart \/ f = Vfs!Fb \/ \E i \in 1 .. Len(sizes) : f = Vfs!Handle(i)
         /\ f # Vfs!Uart /\ f # Vfs!Fb => f.id \in 1 .. Len(sizes) /\ sizes[f.id] \in Nat
         /\ f.kind = "regular" => f # Vfs!Uart /\ f # Vfs!Fb
         /\ Vfs!Uart # Vfs!Fb
BY DEF FileObjects, Vfs!Handle, Vfs!Uart, Vfs!Fb

LEMMA SizeNat ==
  ASSUME Vfs!FilesConstants, sizes \in Seq(Nat), NEW f \in FileObjects
  PROVE  Vfs!SizeOf(f) \in Nat
<1>1. FbSize \in Nat
  BY DEF Vfs!FilesConstants
<1> QED BY <1>1, ObjectKinds DEF Vfs!SizeOf

LEMMA Counts ==
  ASSUME Vfs!FilesConstants, sizes \in Seq(Nat), NEW f \in FileObjects,
         NEW len \in Nat, NEW at \in Nat, Vfs!ValidOffset(f, at)
  PROVE  /\ Vfs!ReadCount(f, len, at) \in Nat /\ Vfs!WriteCount(f, len, at) \in Nat
         /\ f = Vfs!Fb => /\ at + Vfs!ReadCount(f, len, at) <= FbSize
                          /\ at + Vfs!WriteCount(f, len, at) <= FbSize
<1>1. FbSize \in Nat
  BY DEF Vfs!FilesConstants
<1>2. CASE f = Vfs!Fb
  <2>1. at <= FbSize
    BY <1>2 DEF Vfs!ValidOffset
  <2>2. Vfs!ReadCount(f, len, at) = Vfs!FbCount(len, at) /\ Vfs!WriteCount(f, len, at) = Vfs!FbCount(len, at)
    BY <1>2, ObjectKinds DEF Vfs!ReadCount, Vfs!WriteCount
  <2> QED BY <1>1, <2>1, <2>2, FbCounts
<1>3. CASE f = Vfs!Uart
  BY <1>3, ObjectKinds DEF Vfs!ReadCount, Vfs!WriteCount
<1>4. CASE f # Vfs!Uart /\ f # Vfs!Fb
  <2>1. sizes[f.id] \in Nat
    BY <1>4, ObjectKinds
  <2> DEFINE s == sizes[f.id] - at
  <2>2. s \in Int
    BY <2>1
  <2>3. Vfs!ReadCount(f, len, at) = Vfs!Min({len, Vfs!Max({s, 0})}) /\ Vfs!WriteCount(f, len, at) = len
    BY <1>4 DEF Vfs!ReadCount, Vfs!WriteCount
  <2> HIDE DEF s
  <2> DEFINE m == Vfs!Max({s, 0})
  <2>4. m \in Nat
    <3>1. m = IF s >= 0 THEN s ELSE 0
      BY <2>2, MinMax, 0 \in Int, Zenon
    <3> QED BY <2>2, <3>1
  <2>5. Vfs!Min({len, m}) \in Nat
    <3> HIDE DEF m
    <3>1. m \in Int /\ len \in Int
      BY <2>4
    <3>2. Vfs!Min({len, m}) = IF len <= m THEN len ELSE m
      BY <3>1, MinMax, Zenon
    <3> QED BY <2>4, <3>2
  <2> QED BY <1>4, <2>3, <2>5
<1> QED BY <1>2, <1>3, <1>4

\* Bytes below the end of the framebuffer.
LEMMA Touches ==
  ASSUME FbSize \in Nat, NEW f, NEW at \in Nat, NEW n \in Nat, f = Vfs!Fb => at + n <= FbSize,
         Vfs!Touch(f, at, n)
  PROVE  touched' \subseteq 0 .. FbSize - 1
BY DEF Vfs!Touch

LEMMA FdFacts ==
  ASSUME FdsType, NEW n \in Nat, Vfs!IsOpen(n)
  PROVE  Vfs!Fd(n) \in Descriptor /\ n + 1 \in 1 .. Len(fds) /\ Vfs!Fd(n) = fds[n + 1]
BY DEF FdsType, Vfs!IsOpen, Vfs!Fd

\* alloc puts one descriptor into the table.
LEMMA Allocates ==
  ASSUME NEW S, NEW d \in S, fds \in Seq(S)
  PROVE  Vfs!alloc(fds, d) \in Seq(S)
<1> DEFINE empty == {i \in DOMAIN fds : fds[i] = Nil}
<1>1. CASE empty = {}
  BY <1>1 DEF Vfs!alloc
<1>2. CASE empty # {}
  <2>1. Vfs!alloc(fds, d) = [fds EXCEPT ![Vfs!Min(empty)] = d]
    BY <1>2 DEF Vfs!alloc
  <2>2. \A m : [fds EXCEPT ![m] = d] \in Seq(S)
    <3> TAKE m
    <3> DEFINE t == [fds EXCEPT ![m] = d]
    <3>1. t = [i \in 1 .. Len(fds) |-> IF i = m THEN d ELSE fds[i]]
      OBVIOUS
    <3>2. Len(fds) \in Nat /\ \A i \in 1 .. Len(fds) : fds[i] \in S
      OBVIOUS
    <3>3. t \in [1 .. Len(fds) -> S]
      BY <3>1, <3>2
    <3> HIDE DEF t
    <3>4. t \in Seq(S)
      BY <3>2, <3>3
    <3> QED BY <3>4 DEF t
  <2> QED BY <2>1, <2>2
<1> QED BY <1>1, <1>2

\* How the state of a step relates to the one before, for an operation that
\* leaves the sizes alone.
LEMMA SameSizes == ASSUME UNCHANGED sizes PROVE FileObjects' = FileObjects /\ Descriptor' = Descriptor
BY DEF FileObjects, Descriptor

LEMMA FdOpenStep ==
  ASSUME Vfs!FilesConstants, FdsInv, NEW o \in Opens, Vfs!open(o.path, o.cloexec, o.access)
  PROVE  FdsInv'
<1> DEFINE best == Vfs!dispatch(o.path)
           file == IF best = Nil THEN Nil ELSE Vfs!OpenIn(best.fs, Vfs!StripPrefix(o.path, best.prefix))
           d == Vfs!NewDescriptor(file, o.cloexec, o.access)
<1>1. /\ file # Nil /\ fds' = Vfs!alloc(fds, d)
      /\ sizes' = (IF file.kind = "regular" THEN Append(sizes, RootSize) ELSE sizes)
      /\ touched' = {} /\ devices' = devices
  BY DEF Vfs!open
<1>2. /\ o.cloexec \in BOOLEAN /\ o.access \in SUBSET {"READ", "WRITE", "APPEND"} /\ RootSize \in Nat
      /\ sizes \in Seq(Nat) /\ fds \in Seq(Descriptor \cup {Nil})
      /\ \A m \in DOMAIN devices : devices[m] \in {Vfs!Uart, Vfs!Fb}
  BY DEF Vfs!FilesConstants, FdsInv, FdsType
<1>3. file \in {Vfs!Uart, Vfs!Fb} \/ file = Vfs!Handle(Len(sizes) + 1)
  <2>1. best # Nil /\ file = Vfs!OpenIn(best.fs, Vfs!StripPrefix(o.path, best.prefix))
    BY <1>1
  <2> HIDE DEF best, file
  <2> QED BY <1>1, <1>2, <2>1 DEF Vfs!OpenIn
<1> HIDE DEF file
<1>4. file \in FileObjects' /\ sizes' \in Seq(Nat) /\ Len(sizes') >= Len(sizes)
  <2>1. CASE file \in {Vfs!Uart, Vfs!Fb}
    BY <1>1, <1>2, <2>1 DEF FileObjects, Vfs!Uart, Vfs!Fb
  <2>2. CASE file = Vfs!Handle(Len(sizes) + 1)
    <3>1. sizes' = Append(sizes, RootSize)
      BY <1>1, <2>2 DEF Vfs!Handle
    <3>2. sizes' \in Seq(Nat) /\ Len(sizes') = Len(sizes) + 1 /\ Len(sizes) \in Nat
      BY <1>2, <3>1
    <3>3. Len(sizes) + 1 \in 1 .. Len(sizes')
      BY <3>2
    <3> QED BY <2>2, <3>2, <3>3 DEF FileObjects
  <2> QED BY <1>3, <2>1, <2>2
<1>5. d \in Descriptor'
  BY <1>2, <1>4 DEF Descriptor, Vfs!NewDescriptor
<1> HIDE DEF d
<1>6. fds \in Seq((Descriptor \cup {Nil})')
  BY <1>2, <1>4, KeepsObjects
<1>7. fds' \in Seq((Descriptor \cup {Nil})')
  BY <1>1, <1>5, <1>6, Allocates
<1> QED BY <1>1, <1>2, <1>4, <1>7 DEF FdsInv, FdsType

\* An operation that leaves the sizes and the devices alone and touches nothing.
LEMMA FdTableStep ==
  ASSUME FdsInv, UNCHANGED <<devices, sizes>>, touched' = {},
         fds' \in Seq(Descriptor \cup {Nil})
  PROVE  FdsInv'
BY SameSizes DEF FdsInv, FdsType

LEMMA FdTableSteps ==
  ASSUME Vfs!FilesConstants, FdsInv, NEW n \in Nat, NEW m \in Nat, NEW b \in BOOLEAN,
         Vfs!close(n) \/ Vfs!dup(n) \/ Vfs!dup2(n, m) \/ Vfs!close_on_exec \/ Vfs!set_cloexec(n, b)
  PROVE  FdsInv'
<1> DEFINE S == Descriptor \cup {Nil}
           copy == Vfs!NewDescriptor(Vfs!Fd(n).file, Vfs!Fd(n).cloexec, Vfs!Fd(n).access)
<1>1. /\ UNCHANGED <<devices, sizes>> /\ touched' = {} /\ fds \in Seq(S) /\ FdsType
  BY DEF Vfs!close, Vfs!dup, Vfs!dup2, Vfs!close_on_exec, Vfs!set_cloexec, FdsInv, FdsType
<1>2. Vfs!IsOpen(n) => copy \in Descriptor
  BY <1>1, FdFacts DEF Descriptor, Vfs!NewDescriptor
<1>3. Vfs!IsOpen(n) => n + 1 \in 1 .. Len(fds) /\ Vfs!Fd(n) = fds[n + 1] /\ fds[n + 1] \in Descriptor
  BY <1>1, FdFacts
<1> HIDE DEF copy
<1>4. CASE Vfs!close(n)
  <2>1. fds' = [fds EXCEPT ![n + 1] = Nil] /\ Vfs!IsOpen(n)
    BY <1>4 DEF Vfs!close
  <2>2. fds' \in Seq(S)
    BY <1>1, <1>3, <2>1
  <2> QED BY <1>1, <2>2, FdTableStep
<1>5. CASE Vfs!dup(n)
  <2>1. fds' = Vfs!alloc(fds, copy) /\ Vfs!IsOpen(n)
    BY <1>5 DEF Vfs!dup, copy
  <2>2. fds' \in Seq(S)
    BY <1>1, <1>2, <2>1, Allocates
  <2> QED BY <1>1, <2>2, FdTableStep
<1>6. CASE Vfs!dup2(n, m)
  <2> DEFINE g == Vfs!Grown(fds, m)
  <2>1. fds' = [g EXCEPT ![m + 1] = copy] /\ Vfs!IsOpen(n)
    BY <1>6 DEF Vfs!dup2, copy
  <2>2. g \in Seq(S) /\ m + 1 \in 1 .. Len(g)
    <3> DEFINE k == m + 1 - Len(fds)
               e == [i \in 1 .. k |-> Nil]
    <3>1. Len(fds) \in Nat /\ k \in Int
      BY <1>1
    <3>2. e \in Seq(S) /\ Len(e) = IF k > 0 THEN k ELSE 0
      <4> HIDE DEF k
      <4>1. CASE k > 0
        BY <3>1, <4>1
      <4>2. CASE ~ (k > 0)
        <5>1. 1 .. k = {}
          BY <3>1, <4>2
        <5>2. e = << >>
          BY <5>1
        <5>3. \A x : x = << >> => x \in Seq(S) /\ Len(x) = 0
          OBVIOUS
        <5> HIDE DEF e, S
        <5> QED BY <5>2, <5>3, <4>2
      <4> QED BY <4>1, <4>2
    <3>3. g = fds \o e
      BY DEF Vfs!Grown
    <3> HIDE DEF e, g
    <3>4. g \in Seq(S) /\ Len(g) = Len(fds) + Len(e)
      BY <1>1, <3>2, <3>3
    <3> QED BY <3>1, <3>2, <3>4
  <2>3. fds' \in Seq(S)
    <3> HIDE DEF g
    <3> QED BY <1>2, <2>1, <2>2
  <2> QED BY <1>1, <2>3, FdTableStep
<1>7. CASE Vfs!close_on_exec
  <2>1. fds' = [i \in DOMAIN fds |-> IF fds[i] # Nil /\ fds[i].cloexec THEN Nil ELSE fds[i]]
    BY <1>7 DEF Vfs!close_on_exec
  <2>2. DOMAIN fds = 1 .. Len(fds) /\ Len(fds) \in Nat /\ \A i \in 1 .. Len(fds) : fds[i] \in S
    BY <1>1
  <2>3. fds' \in [1 .. Len(fds) -> S]
    BY <2>1, <2>2
  <2>4. fds' \in Seq(S)
    BY <2>2, <2>3
  <2> QED BY <1>1, <2>4, FdTableStep
<1>8. CASE Vfs!set_cloexec(n, b)
  <2>1. fds' = [fds EXCEPT ![n + 1] = [fds[n + 1] EXCEPT !.cloexec = b]] /\ Vfs!IsOpen(n)
    BY <1>8 DEF Vfs!set_cloexec
  <2>2. [fds[n + 1] EXCEPT !.cloexec = b] \in Descriptor
    BY <1>3, <2>1 DEF Descriptor
  <2>3. fds' \in Seq(S)
    BY <1>1, <1>3, <2>1, <2>2
  <2> QED BY <1>1, <2>3, FdTableStep
<1> QED BY <1>4, <1>5, <1>6, <1>7, <1>8

\* A descriptor with another offset.
LEMMA Moves ==
  ASSUME FdsType, NEW n \in Nat, Vfs!IsOpen(n), NEW o \in Nat
  PROVE  [fds EXCEPT ![n + 1].offset = o] \in Seq(Descriptor \cup {Nil})
<1>1. n + 1 \in 1 .. Len(fds) /\ fds[n + 1] \in Descriptor /\ fds \in Seq(Descriptor \cup {Nil})
  BY FdFacts DEF FdsType
<1>2. [fds[n + 1] EXCEPT !.offset = o] \in Descriptor
  BY <1>1 DEF Descriptor
<1> QED BY <1>1, <1>2

LEMMA FdReadStep ==
  ASSUME Vfs!FilesConstants, FdsInv, NEW n \in Nat, NEW len \in Nat, Vfs!read(n, len)
  PROVE  FdsInv'
<1> DEFINE f == Vfs!Fd(n).file
           at == Vfs!Fd(n).offset
           count == Vfs!ReadCount(f, len, at)
<1>1. /\ Vfs!IsOpen(n) /\ Vfs!ValidOffset(f, at)
      /\ fds' = [fds EXCEPT ![n + 1].offset = fds[n + 1].offset + count]
      /\ Vfs!Touch(f, at, count) /\ UNCHANGED <<devices, sizes>>
  BY DEF Vfs!read
<1>2. FdsType /\ sizes \in Seq(Nat) /\ FbSize \in Nat
  BY DEF FdsInv, FdsType, Vfs!FilesConstants
<1>3. f \in FileObjects /\ at \in Nat /\ at = fds[n + 1].offset
  BY <1>1, <1>2, FdFacts DEF Descriptor
<1> HIDE DEF f, at
<1>4. count \in Nat /\ (f = Vfs!Fb => at + count <= FbSize)
  BY <1>1, <1>2, <1>3, Counts
<1> HIDE DEF count
<1>5. touched' \subseteq 0 .. FbSize - 1
  BY <1>1, <1>2, <1>3, <1>4, Touches
<1>6. fds' = [fds EXCEPT ![n + 1].offset = at + count] /\ at + count \in Nat
  BY <1>1, <1>3, <1>4
<1>7. fds' \in Seq(Descriptor \cup {Nil})
  BY <1>1, <1>2, <1>6, Moves
<1> QED BY <1>1, <1>2, <1>5, <1>7, SameSizes DEF FdsInv, FdsType

\* A regular file has grown, or no file has.
LEMMA Grows ==
  ASSUME sizes \in Seq(Nat), NEW f \in FileObjects, NEW v \in Nat,
         \/ UNCHANGED sizes
         \/ f.kind = "regular" /\ sizes' = [sizes EXCEPT ![f.id] = v]
  PROVE  sizes' \in Seq(Nat) /\ Len(sizes') = Len(sizes)
<1>1. CASE UNCHANGED sizes
  BY <1>1
<1>2. CASE f.kind = "regular" /\ sizes' = [sizes EXCEPT ![f.id] = v]
  <2>1. f.id \in 1 .. Len(sizes)
    BY <1>2, ObjectKinds
  <2> QED BY <1>2, <2>1
<1> QED BY <1>1, <1>2

LEMMA WritesAt ==
  ASSUME Vfs!FilesConstants, FdsInv, NEW n \in Nat, Vfs!IsOpen(n)
  PROVE  Vfs!Fd(n).file \in FileObjects /\ Vfs!WriteOffset(Vfs!Fd(n)) \in Nat
<1>1. Vfs!Fd(n) \in Descriptor /\ sizes \in Seq(Nat)
  BY FdFacts DEF FdsInv, FdsType
<1>2. Vfs!Fd(n).file \in FileObjects /\ Vfs!Fd(n).offset \in Nat
  BY <1>1 DEF Descriptor
<1>3. Vfs!SizeOf(Vfs!Fd(n).file) \in Nat
  BY <1>1, <1>2, SizeNat
<1> QED BY <1>2, <1>3 DEF Vfs!WriteOffset

LEMMA FdWriteStep ==
  ASSUME Vfs!FilesConstants, FdsInv, NEW n \in Nat, NEW len \in Nat, Vfs!write(n, len)
  PROVE  FdsInv'
<1> DEFINE f == Vfs!Fd(n).file
           at == Vfs!WriteOffset(Vfs!Fd(n))
           count == Vfs!WriteCount(f, len, at)
<1>1. /\ Vfs!IsOpen(n) /\ Vfs!ValidOffset(f, at)
      /\ fds' = [fds EXCEPT ![n + 1].offset = at + count]
      /\ \/ UNCHANGED sizes
         \/ f.kind = "regular" /\ sizes' = [sizes EXCEPT ![f.id] = at + count]
      /\ Vfs!Touch(f, at, count) /\ UNCHANGED devices
  BY DEF Vfs!write
<1>2. FdsType /\ sizes \in Seq(Nat) /\ FbSize \in Nat
  BY DEF FdsInv, FdsType, Vfs!FilesConstants
<1>3. f \in FileObjects /\ at \in Nat
  BY <1>1, WritesAt
<1> HIDE DEF f, at
<1>4. count \in Nat /\ (f = Vfs!Fb => at + count <= FbSize)
  BY <1>1, <1>2, <1>3, Counts
<1> HIDE DEF count
<1>5. touched' \subseteq 0 .. FbSize - 1
  BY <1>1, <1>2, <1>3, <1>4, Touches
<1>6. at + count \in Nat
  BY <1>3, <1>4
<1>7. fds' \in Seq(Descriptor \cup {Nil})
  BY <1>1, <1>2, <1>6, Moves
<1>8. sizes' \in Seq(Nat) /\ Len(sizes') = Len(sizes)
  BY <1>1, <1>2, <1>3, <1>6, Grows
<1>9. Descriptor' = Descriptor
  BY <1>8 DEF Descriptor, FileObjects
<1> QED BY <1>1, <1>2, <1>5, <1>7, <1>8, <1>9 DEF FdsInv, FdsType

LEMMA FdWriteErrorStep ==
  ASSUME Vfs!FilesConstants, FdsInv, NEW n \in Nat, NEW len \in Nat, Vfs!write_error(n, len)
  PROVE  FdsInv'
<1> DEFINE f == Vfs!Fd(n).file
           at == Vfs!WriteOffset(Vfs!Fd(n))
<1>1. /\ Vfs!IsOpen(n) /\ fds' = [fds EXCEPT ![n + 1].offset = at]
      /\ \/ UNCHANGED sizes
         \/ f.kind = "regular" /\ sizes' = [sizes EXCEPT ![f.id] = at + len]
      /\ touched' = {} /\ UNCHANGED devices
  BY DEF Vfs!write_error
<1>2. FdsType /\ sizes \in Seq(Nat)
  BY DEF FdsInv, FdsType
<1>3. f \in FileObjects /\ at \in Nat
  BY <1>1, WritesAt
<1> HIDE DEF f, at
<1>4. at + len \in Nat
  BY <1>3
<1>5. fds' \in Seq(Descriptor \cup {Nil})
  BY <1>1, <1>2, <1>3, Moves
<1>6. sizes' \in Seq(Nat) /\ Len(sizes') = Len(sizes)
  BY <1>1, <1>2, <1>3, <1>4, Grows
<1>7. Descriptor' = Descriptor
  BY <1>6 DEF Descriptor, FileObjects
<1> QED BY <1>1, <1>2, <1>5, <1>6, <1>7 DEF FdsInv, FdsType

LEMMA FdSeekStep ==
  ASSUME Vfs!FilesConstants, FdsInv, NEW n \in Nat, NEW w \in {"Start", "Current", "End"},
         NEW o \in SeekOffsets, Vfs!seek(n, w, o)
  PROVE  FdsInv'
<1> DEFINE from == CASE w = "Start" -> 0
                     [] w = "Current" -> Vfs!Fd(n).offset
                     [] w = "End" -> Vfs!SizeOf(Vfs!Fd(n).file)
<1>1. /\ Vfs!IsOpen(n) /\ fds' = [fds EXCEPT ![n + 1].offset = Vfs!Max({from + o, 0})]
      /\ touched' = {} /\ UNCHANGED <<devices, sizes>>
  BY DEF Vfs!seek
<1>2. FdsType /\ sizes \in Seq(Nat) /\ o \in Int
  BY DEF FdsInv, FdsType, Vfs!FilesConstants
<1>3. from \in Nat
  <2>1. Vfs!Fd(n).file \in FileObjects /\ Vfs!Fd(n).offset \in Nat
    BY <1>1, <1>2, FdFacts DEF Descriptor
  <2>2. Vfs!SizeOf(Vfs!Fd(n).file) \in Nat
    BY <1>2, <2>1, SizeNat
  <2> QED BY <2>1, <2>2
<1> HIDE DEF from
<1> DEFINE a == from + o
<1>4. a \in Int
  BY <1>2, <1>3
<1> HIDE DEF a
<1>5. Vfs!Max({a, 0}) = IF a >= 0 THEN a ELSE 0
  BY <1>4, 0 \in Int, MinMax, Zenon
<1>6. Vfs!Max({a, 0}) \in Nat
  BY <1>4, <1>5
<1>7. fds' \in Seq(Descriptor \cup {Nil})
  <2>1. fds' = [fds EXCEPT ![n + 1].offset = Vfs!Max({a, 0})]
    BY <1>1 DEF a
  <2> QED BY <1>1, <1>2, <1>6, <2>1, Moves
<1> QED BY <1>1, <1>7, FdTableStep

LEMMA FdMountSteps ==
  ASSUME Vfs!FilesConstants, FdsInv,
         \/ Vfs!init
         \/ \E m \in Mounts : Vfs!mount_fs(m.prefix, m.fs)
         \/ \E m \in Mounts : Vfs!umount(m.prefix)
         \/ \E d \in Devices : Vfs!register_device(d.name, d.file)
  PROVE  FdsInv'
<1>1. CASE \E d \in Devices : Vfs!register_device(d.name, d.file)
  <2> PICK d \in Devices : Vfs!register_device(d.name, d.file)
    BY <1>1
  <2>1. /\ devices' = [m \in DOMAIN devices \cup {d.name} |-> IF m = d.name THEN d.file ELSE devices[m]]
        /\ touched' = {} /\ UNCHANGED <<fds, sizes>>
    BY DEF Vfs!register_device
  <2>2. d.file \in {Vfs!Uart, Vfs!Fb}
    BY DEF Vfs!FilesConstants
  <2>3. \A m \in DOMAIN devices' : devices'[m] \in {Vfs!Uart, Vfs!Fb}
    BY <2>1, <2>2 DEF FdsInv, FdsType
  <2> QED BY <2>1, <2>3, SameSizes DEF FdsInv, FdsType
<1>2. CASE \/ Vfs!init
           \/ \E m \in Mounts : Vfs!mount_fs(m.prefix, m.fs)
           \/ \E m \in Mounts : Vfs!umount(m.prefix)
  <2>1. UNCHANGED <<fds, devices, sizes>> /\ touched' = {}
    BY <1>2 DEF Vfs!init, Vfs!mount_fs, Vfs!umount
  <2> QED BY <2>1, FdTableStep DEF FdsInv, FdsType
<1> QED BY <1>1, <1>2

LEMMA FdsInit == Vfs!FilesConstants /\ Vfs!Init => FdsInv
<1> SUFFICES ASSUME Vfs!FilesConstants, Vfs!Init PROVE FdsInv
  OBVIOUS
<1>1. /\ fds = << Vfs!NewDescriptor(Vfs!Uart, FALSE, {"READ"}),
                  Vfs!NewDescriptor(Vfs!Uart, FALSE, {"WRITE"}),
                  Vfs!NewDescriptor(Vfs!Uart, FALSE, {"WRITE"}) >>
      /\ devices = << >> /\ sizes = << >> /\ touched = {}
  BY DEF Vfs!Init
<1>2. \A a \in SUBSET {"READ", "WRITE", "APPEND"} : Vfs!NewDescriptor(Vfs!Uart, FALSE, a) \in Descriptor
  BY DEF Vfs!NewDescriptor, Descriptor, FileObjects
<1> DEFINE r == Vfs!NewDescriptor(Vfs!Uart, FALSE, {"READ"})
           w == Vfs!NewDescriptor(Vfs!Uart, FALSE, {"WRITE"})
<1>3. r \in Descriptor /\ w \in Descriptor /\ fds = << r, w, w >>
  BY <1>1, <1>2
<1> HIDE DEF r, w
<1>4. fds \in Seq(Descriptor \cup {Nil})
  BY <1>3
<1>5. sizes \in Seq(Nat) /\ DOMAIN devices = {}
  BY <1>1
<1> QED BY <1>1, <1>4, <1>5 DEF FdsInv, FdsType

LEMMA FdsNext == Vfs!FilesConstants /\ FdsInv /\ [Vfs!Next]_(Vfs!vars) => FdsInv'
<1> SUFFICES ASSUME Vfs!FilesConstants, FdsInv, [Vfs!Next]_(Vfs!vars) PROVE FdsInv'
  OBVIOUS
<1>1. Vfs!Numbers \subseteq Nat /\ BufLens \subseteq Nat
  BY DEF Vfs!Numbers, Vfs!FilesConstants
<1>2. CASE \E o \in Opens : Vfs!open(o.path, o.cloexec, o.access)
  BY <1>2, FdOpenStep
<1>3. CASE \/ \E n \in Vfs!Numbers : Vfs!close(n) \/ Vfs!dup(n)
           \/ \E n, m \in Vfs!Numbers : Vfs!dup2(n, m)
           \/ Vfs!close_on_exec
           \/ \E n \in Vfs!Numbers, b \in BOOLEAN : Vfs!set_cloexec(n, b)
  <2>1. CASE Vfs!close_on_exec
    BY <2>1, 0 \in Nat, TRUE \in BOOLEAN, FdTableSteps
  <2>2. CASE \E n \in Vfs!Numbers : Vfs!close(n) \/ Vfs!dup(n)
    BY <1>1, <2>2, TRUE \in BOOLEAN, FdTableSteps
  <2>3. CASE \E n, m \in Vfs!Numbers : Vfs!dup2(n, m)
    BY <1>1, <2>3, TRUE \in BOOLEAN, FdTableSteps
  <2>4. CASE \E n \in Vfs!Numbers, b \in BOOLEAN : Vfs!set_cloexec(n, b)
    BY <1>1, <2>4, FdTableSteps
  <2> QED BY <1>3, <2>1, <2>2, <2>3, <2>4
<1>4. CASE \E n \in Vfs!Numbers, len \in BufLens :
             Vfs!read(n, len) \/ Vfs!write(n, len) \/ Vfs!write_error(n, len)
  BY <1>1, <1>4, FdReadStep, FdWriteStep, FdWriteErrorStep
<1>5. CASE \E n \in Vfs!Numbers, w \in {"Start", "Current", "End"}, o \in SeekOffsets : Vfs!seek(n, w, o)
  BY <1>1, <1>5, FdSeekStep
<1>6. CASE \/ Vfs!init
           \/ \E m \in Mounts : Vfs!mount_fs(m.prefix, m.fs)
           \/ \E m \in Mounts : Vfs!umount(m.prefix)
           \/ \E d \in Devices : Vfs!register_device(d.name, d.file)
  BY <1>6, FdMountSteps
<1>7. CASE UNCHANGED Vfs!vars
  BY <1>7 DEF Vfs!vars, FdsInv, FdsType, Descriptor, FileObjects
<1> QED BY <1>2, <1>3, <1>4, <1>5, <1>6, <1>7 DEF Vfs!Next, Vfs!Calls

\* Whatever is opened, duplicated, mounted, registered, sought and appended, a
\* transfer through a descriptor of the framebuffer file touches bytes of the
\* framebuffer only (fd.rs, framebuffer_file.rs).
THEOREM FramebufferSafe == FilesSpec => []FramebufferInBounds
<1>1. FilesInit => FdsInv
  BY FdsInit, FilesAssumption DEF FilesInit
<1>2. FdsInv /\ [NumberStep \/ NameStep]_<<part, fdVars, dirVars>> => FdsInv'
  BY FdsNext, FilesAssumption DEF NumberStep, NameStep, fdVars, Vfs!vars
<1>3. FdsInv => FramebufferInBounds
  BY DEF FdsInv, FramebufferInBounds, Vfs!FramebufferInBounds
<1> QED BY <1>1, <1>2, <1>3, PTL DEF FilesSpec
=============================================================================
