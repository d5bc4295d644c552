------------------------ MODULE BuddyAllocator_proofs ------------------------
(***************************************************************************)
(* Proofs about the buddy allocator, for every region, minimum block size  *)
(* and MAX_ORDER.                                                          *)
(***************************************************************************)
EXTENDS BuddyAllocator, FiniteSetTheorems, TLAPS

(***************************************************************************)
(* Arithmetic of block sizes, alignment and buddies.                       *)
(***************************************************************************)

\* Every nonempty set of naturals has a least element: the form of induction
\* used below.
LEMMA LeastNatural ==
  ASSUME NEW T \in SUBSET Nat, T # {}
  PROVE  \E n \in T : \A m \in T : n <= m
<1>1. PICK N \in T : TRUE
  OBVIOUS
<1> DEFINE U == {n \in T : n <= N}
           I == {0 .. n : n \in U}
<1>2. I # {} /\ I \subseteq FiniteSubsetsOf(0 .. N)
  <2>1. \A n \in U : IsFiniteSet(0 .. n)
    BY FS_Interval
  <2> QED BY <1>1, <2>1 DEF FiniteSubsetsOf
<1>3. PICK x \in I : \A y \in I : ~ (<<y, x>> \in StrictSubsetOrdering(0 .. N))
  BY <1>2, WFMin, FS_StrictSubsetOrderingWellFounded
<1>4. PICK n \in U : x = 0 .. n
  OBVIOUS
<1>5. ASSUME NEW m \in T, m < n PROVE FALSE
  <2>1. m \in U /\ 0 .. m \in I
    BY <1>5
  <2>2. n \in 0 .. n /\ n \notin 0 .. m
    BY <1>5
  <2>3. 0 .. m \subseteq 0 .. n /\ 0 .. m # 0 .. n
    BY <2>2, <1>5
  <2>4. 0 .. m \subseteq 0 .. N /\ 0 .. n \subseteq 0 .. N
    BY <2>1
  <2>5. <<0 .. m, 0 .. n>> \in StrictSubsetOrdering(0 .. N)
    BY <2>3, <2>4 DEF StrictSubsetOrdering
  <2> QED BY <2>1, <2>5, <1>3, <1>4
<1> QED BY <1>5

LEMMA MultipleMod ==
  ASSUME NEW q \in Nat, NEW d \in Nat \ {0}
  PROVE  q * d \in Nat /\ (q * d) % d = 0 /\ (q * d) \div d = q
  OBVIOUS

LEMMA ModMultiple ==
  ASSUME NEW a \in Nat, NEW d \in Nat \ {0}, a % d = 0
  PROVE  \E q \in Nat : a = q * d
<1>1. a = (a \div d) * d /\ a \div d \in Nat
  OBVIOUS
<1> QED BY <1>1

\* Block sizes double from one order to the next.
LEMMA SizeFacts ==
  /\ \A k \in Orders : BlockSize[k] \in Nat \ {0}
  /\ \A k \in Orders : k < MaxOrder =>
       k + 1 \in Orders /\ BlockSize[k + 1] = 2 * BlockSize[k]
  /\ \A k \in Orders : k > 0 =>
       k - 1 \in Orders /\ BlockSize[k] = 2 * BlockSize[k - 1]
  /\ 0 \in Orders /\ MinBlockSize \in Nat \ {0} /\ BlockSize[0] = MinBlockSize
<1>1. ASSUME NEW k \in Orders, k > 0
      PROVE  k - 1 \in Orders /\ BlockSize[k] = 2 * BlockSize[k - 1]
  <2>1. k - 1 \in 0 .. MaxOrder - 1 /\ (k - 1) + 1 = k
    BY <1>1, RegionAssumption DEF Orders
  <2> QED BY <2>1, BlockSizeAssumption, RegionAssumption DEF Orders
<1> QED BY <1>1, BlockSizeAssumption, RegionAssumption DEF Orders

\* Every block size is a multiple of the minimum block size.
LEMMA SizeMultiple ==
  \A k \in Orders : BlockSize[k] % MinBlockSize = 0
<1> DEFINE Bad == {k \in Orders : BlockSize[k] % MinBlockSize # 0}
<1> SUFFICES ASSUME Bad # {} PROVE FALSE
  OBVIOUS
<1>1. Bad \in SUBSET Nat
  BY RegionAssumption DEF Orders
<1>2. PICK k \in Bad : \A m \in Bad : k <= m
  BY <1>1, LeastNatural
<1>3. k > 0
  BY SizeFacts, <1>1
<1>4. k - 1 \in Orders /\ k - 1 \notin Bad /\ BlockSize[k] = 2 * BlockSize[k - 1]
  BY <1>1, <1>2, <1>3, SizeFacts
<1>5. PICK q \in Nat : BlockSize[k - 1] = q * MinBlockSize
  BY <1>4, ModMultiple, SizeFacts
<1>6. BlockSize[k] = (2 * q) * MinBlockSize /\ 2 * q \in Nat
  BY <1>4, <1>5, SizeFacts
<1> QED BY <1>2, <1>6, MultipleMod, SizeFacts

LEMMA RegionFacts ==
  /\ Base \in Nat \ {0} /\ Limit \in Nat /\ Base <= Limit
  /\ Base % MinBlockSize = 0 /\ Limit % MinBlockSize = 0
<1> DEFINE p == (StartAddr + MinBlockSize - 1) \div MinBlockSize
           q == EndAddr \div MinBlockSize
<1>1. p \in Nat \ {0} /\ q \in Nat
  BY RegionAssumption
<1>2. Base = p * MinBlockSize /\ Limit = q * MinBlockSize
  BY DEF Base, Limit
<1> HIDE DEF p, q
<1>3. Base > 0
  BY <1>1, <1>2, RegionAssumption
<1> QED BY <1>1, <1>2, <1>3, MultipleMod, RegionAssumption

\* A block aligned to an order splits into two buddies aligned to the order
\* below.
LEMMA SplitFacts ==
  ASSUME NEW a \in Nat, NEW k \in Orders, k < MaxOrder, Aligned(a, k + 1)
  PROVE  /\ Aligned(a, k) /\ Aligned(a + BlockSize[k], k)
         /\ BuddyOf(a, k) = a + BlockSize[k]
<1>1. BlockSize[k] \in Nat \ {0} /\ BlockSize[k + 1] = 2 * BlockSize[k]
  BY SizeFacts
<1>2. PICK q \in Nat : a = q * BlockSize[k + 1]
  BY <1>1, ModMultiple, SizeFacts DEF Aligned
<1>3. a = (2 * q) * BlockSize[k] /\ a + BlockSize[k] = (2 * q + 1) * BlockSize[k]
  BY <1>1, <1>2
<1>4. 2 * q \in Nat /\ 2 * q + 1 \in Nat /\ (2 * q) % 2 = 0
  OBVIOUS
<1>5. a \div BlockSize[k] = 2 * q /\ a % BlockSize[k] = 0
  BY <1>1, <1>3, <1>4, MultipleMod
<1>6. (a + BlockSize[k]) % BlockSize[k] = 0
  BY <1>1, <1>3, <1>4, MultipleMod
<1> QED BY <1>4, <1>5, <1>6 DEF Aligned, BuddyOf

\* A block and its buddy are the two halves of a block of the order above.
LEMMA BuddyFacts ==
  ASSUME NEW a \in Nat, NEW k \in Orders, k < MaxOrder, Aligned(a, k)
  PROVE  /\ BuddyOf(a, k) \in Nat /\ BuddyOf(a, k) # a
         /\ Aligned(BuddyOf(a, k), k)
         /\ BuddyOf(BuddyOf(a, k), k) = a
         /\ Lower(a, BuddyOf(a, k)) \in Nat
         /\ Aligned(Lower(a, BuddyOf(a, k)), k + 1)
         /\ \/ /\ Lower(a, BuddyOf(a, k)) = a
               /\ BuddyOf(a, k) = a + BlockSize[k]
            \/ /\ Lower(a, BuddyOf(a, k)) = BuddyOf(a, k)
               /\ a = BuddyOf(a, k) + BlockSize[k]
<1> DEFINE s == BlockSize[k]
<1>1. s \in Nat \ {0} /\ BlockSize[k + 1] = 2 * s
  BY SizeFacts
<1>2. PICK q \in Nat : a = q * s
  BY <1>1, ModMultiple DEF Aligned
<1>3. a \div s = q
  BY <1>1, <1>2, MultipleMod
<1> HIDE DEF s
<1>4. CASE q % 2 = 0
  <2>1. PICK r \in Nat : q = 2 * r
    BY <1>4
  <2>2. BuddyOf(a, k) = a + s /\ a = r * (2 * s) /\ a + s = (2 * r + 1) * s
    BY <1>1, <1>2, <1>3, <1>4, <2>1 DEF BuddyOf, s
  <2>3. (a + s) \div s = 2 * r + 1 /\ (a + s) % s = 0 /\ a % (2 * s) = 0
    BY <1>1, <2>1, <2>2, MultipleMod
  <2>4. (2 * r + 1) % 2 = 1
    BY <2>1
  <2>5. BuddyOf(a + s, k) = a
    BY <1>1, <1>2, <2>3, <2>4 DEF BuddyOf, s
  <2> QED BY <1>1, <2>2, <2>3, <2>5 DEF Aligned, Lower, s
<1>5. CASE q % 2 = 1
  <2>1. PICK r \in Nat : q = 2 * r + 1
    BY <1>5
  <2>2. BuddyOf(a, k) = a - s /\ a - s = (2 * r) * s /\ a - s = r * (2 * s)
    BY <1>1, <1>2, <1>3, <1>5, <2>1 DEF BuddyOf, s
  <2>3. (a - s) \div s = 2 * r /\ (a - s) % s = 0 /\ (a - s) % (2 * s) = 0 /\ a - s \in Nat
    BY <1>1, <2>1, <2>2, MultipleMod
  <2>4. (2 * r) % 2 = 0
    BY <2>1
  <2>5. BuddyOf(a - s, k) = a
    BY <1>1, <1>2, <2>3, <2>4 DEF BuddyOf, s
  <2> QED BY <1>1, <2>2, <2>3, <2>5 DEF Aligned, Lower, s
<1> QED BY <1>4, <1>5

(***************************************************************************)
(* The free lists as sets of blocks.                                       *)
(***************************************************************************)
Elems(s) == {s[i] : i \in DOMAIN s}
Injective(s) == \A i, j \in DOMAIN s : s[i] = s[j] => i = j

LEMMA PushFacts ==
  ASSUME NEW S, NEW s \in Seq(S), NEW a \in S
  PROVE  /\ Push(s, a) \in Seq(S)
         /\ Elems(Push(s, a)) = Elems(s) \cup {a}
         /\ Injective(s) /\ a \notin Elems(s) => Injective(Push(s, a))
<1>1. /\ Push(s, a) \in Seq(S)
      /\ DOMAIN Push(s, a) = 1 .. Len(s) + 1
      /\ DOMAIN s = 1 .. Len(s) /\ Len(s) \in Nat
      /\ Push(s, a)[1] = a
      /\ \A i \in 1 .. Len(s) : Push(s, a)[i + 1] = s[i]
  BY DEF Push
<1>2. \A i \in 2 .. Len(s) + 1 : i - 1 \in 1 .. Len(s) /\ Push(s, a)[i] = s[i - 1]
  BY <1>1
<1> HIDE DEF Push
<1>3. Elems(Push(s, a)) \subseteq Elems(s) \cup {a}
  <2> SUFFICES ASSUME NEW i \in 1 .. Len(s) + 1
               PROVE  Push(s, a)[i] \in Elems(s) \cup {a}
    BY <1>1 DEF Elems
  <2>1. CASE i = 1
    BY <1>1, <2>1
  <2>2. CASE i \in 2 .. Len(s) + 1
    BY <1>1, <1>2, <2>2 DEF Elems
  <2> QED BY <1>1, <2>1, <2>2
<1>4. Elems(s) \cup {a} \subseteq Elems(Push(s, a))
  <2>1. ASSUME NEW i \in 1 .. Len(s) PROVE s[i] \in Elems(Push(s, a))
    <3>1. i + 1 \in 1 .. Len(s) + 1
      BY <1>1
    <3> QED BY <3>1, <1>1 DEF Elems
  <2>2. a \in Elems(Push(s, a))
    <3>1. 1 \in 1 .. Len(s) + 1
      BY <1>1
    <3> QED BY <3>1, <1>1 DEF Elems
  <2> QED BY <2>1, <2>2, <1>1 DEF Elems
<1>5. ASSUME Injective(s), a \notin Elems(s) PROVE Injective(Push(s, a))
  <2> SUFFICES ASSUME NEW i \in 1 .. Len(s) + 1, NEW j \in 1 .. Len(s) + 1,
                      Push(s, a)[i] = Push(s, a)[j]
               PROVE  i = j
    BY <1>1 DEF Injective
  <2>1. \A n \in 2 .. Len(s) + 1 : Push(s, a)[n] # a
    BY <1>2, <1>1, <1>5 DEF Elems
  <2>2. CASE i = 1 \/ j = 1
    BY <1>1, <2>1, <2>2
  <2>3. CASE i \in 2 .. Len(s) + 1 /\ j \in 2 .. Len(s) + 1
    <3>1. i - 1 = j - 1
      BY <1>1, <1>2, <1>5, <2>3 DEF Injective
    <3> QED BY <3>1
  <2> QED BY <1>1, <2>2, <2>3
<1> QED BY <1>1, <1>3, <1>4, <1>5

LEMMA TailFacts ==
  ASSUME NEW S, NEW s \in Seq(S), s # <<>>, Injective(s)
  PROVE  /\ Head(s) \in S /\ Head(s) \in Elems(s)
         /\ Tail(s) \in Seq(S)
         /\ Elems(Tail(s)) = Elems(s) \ {Head(s)}
         /\ Injective(Tail(s))
<1>1. /\ Tail(s) \in Seq(S)
      /\ DOMAIN Tail(s) = 1 .. Len(s) - 1
      /\ DOMAIN s = 1 .. Len(s) /\ Len(s) \in Nat /\ Len(s) > 0
      /\ Head(s) = s[1] /\ Head(s) \in S
      /\ \A i \in 1 .. Len(s) - 1 : Tail(s)[i] = s[i + 1]
  OBVIOUS
<1>2. \A i \in 2 .. Len(s) : i - 1 \in 1 .. Len(s) - 1 /\ Tail(s)[i - 1] = s[i]
  BY <1>1
<1>3. Elems(Tail(s)) \subseteq Elems(s) \ {Head(s)}
  <2> SUFFICES ASSUME NEW i \in 1 .. Len(s) - 1
               PROVE  Tail(s)[i] \in Elems(s) \ {Head(s)}
    BY <1>1 DEF Elems
  <2>1. i + 1 \in 1 .. Len(s) /\ i + 1 # 1 /\ 1 \in 1 .. Len(s)
    BY <1>1
  <2> QED BY <1>1, <2>1 DEF Elems, Injective
<1>4. Elems(s) \ {Head(s)} \subseteq Elems(Tail(s))
  <2> SUFFICES ASSUME NEW i \in 1 .. Len(s), s[i] # s[1]
               PROVE  s[i] \in Elems(Tail(s))
    BY <1>1 DEF Elems
  <2>1. i \in 2 .. Len(s)
    BY <1>1
  <2> QED BY <1>1, <1>2, <2>1 DEF Elems
<1>5. Injective(Tail(s))
  <2> SUFFICES ASSUME NEW i \in 1 .. Len(s) - 1, NEW j \in 1 .. Len(s) - 1,
                      Tail(s)[i] = Tail(s)[j]
               PROVE  i = j
    BY <1>1 DEF Injective
  <2>1. i + 1 \in 1 .. Len(s) /\ j + 1 \in 1 .. Len(s) /\ s[i + 1] = s[j + 1]
    BY <1>1
  <2>2. i + 1 = j + 1
    BY <2>1, <1>1 DEF Injective
  <2> QED BY <2>2
<1>6. Head(s) \in Elems(s)
  <2>1. 1 \in DOMAIN s
    BY <1>1
  <2> QED BY <1>1, <2>1 DEF Elems
<1> QED BY <1>1, <1>3, <1>4, <1>5, <1>6

LEMMA UnlinkFacts ==
  ASSUME NEW S, NEW s \in Seq(S), Injective(s), NEW a \in Elems(s)
  PROVE  /\ Unlink(s, a) \in Seq(S)
         /\ Elems(Unlink(s, a)) = Elems(s) \ {a}
         /\ Injective(Unlink(s, a))
<1> DEFINE P(j) == s[j] = a /\ \A n \in 1 .. j - 1 : s[n] # a
           i == CHOOSE j \in DOMAIN s : P(j)
           u == [j \in 1 .. Len(s) - 1 |-> IF j < i THEN s[j] ELSE s[j + 1]]
<1>1. DOMAIN s = 1 .. Len(s) /\ Len(s) \in Nat /\ \A j \in 1 .. Len(s) : s[j] \in S
  OBVIOUS
<1>2. i \in 1 .. Len(s) /\ s[i] = a
  <2>1. PICK j \in DOMAIN s : s[j] = a
    BY DEF Elems
  <2>2. P(j)
    <3> SUFFICES ASSUME NEW n \in 1 .. j - 1 PROVE s[n] # a
      BY <2>1
    <3>1. n \in DOMAIN s /\ n # j
      BY <1>1, <2>1
    <3> QED BY <3>1, <2>1 DEF Injective
  <2>3. \E x \in DOMAIN s : P(x)
    BY <2>1, <2>2
  <2> QED BY <1>1, <2>3
<1>3. Unlink(s, a) = u
  BY DEF Unlink
<1> HIDE DEF i, P
<1>4. u \in Seq(S) /\ DOMAIN u = 1 .. Len(s) - 1
  <2>1. \A j \in 1 .. Len(s) - 1 : u[j] \in S
    BY <1>1, <1>2
  <2>2. Len(s) - 1 \in Nat
    BY <1>1, <1>2
  <2> QED BY <2>1, <2>2
<1>5. \A j \in 1 .. Len(s) - 1 :
        \/ j < i /\ u[j] = s[j] /\ j \in 1 .. Len(s)
        \/ j >= i /\ u[j] = s[j + 1] /\ j + 1 \in 1 .. Len(s) /\ j + 1 # i
  BY <1>1, <1>2
<1>6. Elems(u) \subseteq Elems(s) \ {a}
  <2> SUFFICES ASSUME NEW j \in 1 .. Len(s) - 1
               PROVE  u[j] \in Elems(s) \ {a}
    BY <1>4 DEF Elems
  <2>1. PICK n \in 1 .. Len(s) : u[j] = s[n] /\ n # i
    BY <1>5, <1>2
  <2> HIDE DEF u
  <2> QED BY <1>1, <1>2, <2>1 DEF Elems, Injective
<1>7. Elems(s) \ {a} \subseteq Elems(u)
  <2> SUFFICES ASSUME NEW j \in 1 .. Len(s), s[j] # a
               PROVE  \E n \in 1 .. Len(s) - 1 : u[n] = s[j]
    BY <1>1, <1>4 DEF Elems
  <2>1. j # i
    BY <1>2
  <2>2. CASE j < i
    <3>1. j \in 1 .. Len(s) - 1 /\ u[j] = s[j]
      BY <1>1, <1>2, <2>2
    <3> QED BY <3>1
  <2>3. CASE j > i
    <3>1. j - 1 \in 1 .. Len(s) - 1 /\ u[j - 1] = s[j]
      BY <1>1, <1>2, <2>3
    <3> QED BY <3>1
  <2> QED BY <1>1, <1>2, <2>1, <2>2, <2>3
<1>8. Injective(u)
  <2> SUFFICES ASSUME NEW j \in 1 .. Len(s) - 1, NEW n \in 1 .. Len(s) - 1,
                      u[j] = u[n]
               PROVE  j = n
    BY <1>4 DEF Injective
  <2> HIDE DEF u
  <2> QED BY <1>1, <1>2, <1>5 DEF Injective
<1> QED BY <1>3, <1>4, <1>6, <1>7, <1>8

-----------------------------------------------------------------------------
ListType == free_lists \in [Orders -> Seq(Addrs)]
BlockAt(a, k) == [addr |-> a, order |-> k]

LEMMA InListElems ==
  \A a, k : InList(a, k) <=> a \in Elems(free_lists[k])
  BY DEF InList, Elems

LEMMA ListsInjective ==
  ListsDistinct <=> \A k \in Orders : Injective(free_lists[k])
  BY DEF ListsDistinct, Injective

\* FreeBlocks in terms of the elements of the lists.
LEMMA FreeBlocksElems ==
  ASSUME ListType
  PROVE  FreeBlocks = {b \in Block : b.addr \in Elems(free_lists[b.order])}
  BY InListElems DEF FreeBlocks

LEMMA AddFree ==
  ASSUME ListType, ListsDistinct, NEW a \in Addrs, NEW k \in Orders,
         BlockAt(a, k) \notin FreeBlocks, add_to_free_list(a, k)
  PROVE  /\ ListType' /\ ListsDistinct'
         /\ FreeBlocks' = FreeBlocks \cup {BlockAt(a, k)}
<1> DEFINE s == free_lists[k]
<1>1. s \in Seq(Addrs) /\ Injective(s) /\ a \notin Elems(s)
  BY ListsInjective, FreeBlocksElems DEF ListType, BlockAt, Block
<1>2. free_lists' = [free_lists EXCEPT ![k] = Push(s, a)]
  BY DEF add_to_free_list
<1>3. /\ Push(s, a) \in Seq(Addrs)
      /\ Elems(Push(s, a)) = Elems(s) \cup {a}
      /\ Injective(Push(s, a))
  BY <1>1, PushFacts
<1>4. ListType'
  BY <1>2, <1>3 DEF ListType
<1>5. ListsDistinct'
  <2>1. \A j \in Orders : Injective(free_lists'[j])
    BY <1>2, <1>3, ListsInjective DEF ListType
  <2> QED BY <2>1 DEF ListsDistinct, Injective
<1>6. FreeBlocks' = FreeBlocks \cup {BlockAt(a, k)}
  <2>1. FreeBlocks' = {b \in Block : b.addr \in Elems(free_lists'[b.order])}
    BY DEF FreeBlocks, InList, Elems
  <2>2. \A b \in Block : b.addr \in Elems(free_lists'[b.order])
          <=> b.addr \in Elems(free_lists[b.order]) \/ b = BlockAt(a, k)
    BY <1>2, <1>3 DEF ListType, Block, BlockAt
  <2>3. BlockAt(a, k) \in Block
    BY DEF Block, BlockAt
  <2> QED BY <2>1, <2>2, <2>3, FreeBlocksElems
<1> QED BY <1>4, <1>5, <1>6

LEMMA RemoveHead ==
  ASSUME ListType, ListsDistinct, NEW k \in Orders,
         free_lists[k] # <<>>, remove_from_free_list(k)
  PROVE  /\ ListType' /\ ListsDistinct'
         /\ Head(free_lists[k]) \in Addrs
         /\ BlockAt(Head(free_lists[k]), k) \in FreeBlocks
         /\ FreeBlocks' = FreeBlocks \ {BlockAt(Head(free_lists[k]), k)}
<1> DEFINE s == free_lists[k]
           a == Head(s)
<1>1. s \in Seq(Addrs) /\ Injective(s)
  BY ListsInjective DEF ListType
<1>2. free_lists' = [free_lists EXCEPT ![k] = Tail(s)]
  BY DEF remove_from_free_list
<1>3. /\ a \in Addrs /\ a \in Elems(s)
      /\ Tail(s) \in Seq(Addrs)
      /\ Elems(Tail(s)) = Elems(s) \ {a}
      /\ Injective(Tail(s))
  BY <1>1, TailFacts
<1> HIDE DEF a
<1>4. ListType'
  BY <1>2, <1>3 DEF ListType
<1>5. ListsDistinct'
  <2>1. \A j \in Orders : Injective(free_lists'[j])
    BY <1>2, <1>3, ListsInjective DEF ListType
  <2> QED BY <2>1 DEF ListsDistinct, Injective
<1>6. BlockAt(a, k) \in FreeBlocks
  BY <1>3, FreeBlocksElems DEF Block, BlockAt
<1>7. FreeBlocks' = FreeBlocks \ {BlockAt(a, k)}
  <2>1. FreeBlocks' = {b \in Block : b.addr \in Elems(free_lists'[b.order])}
    BY DEF FreeBlocks, InList, Elems
  <2>2. \A b \in Block : b.addr \in Elems(free_lists'[b.order])
          <=> b.addr \in Elems(free_lists[b.order]) /\ b # BlockAt(a, k)
    BY <1>2, <1>3 DEF ListType, Block, BlockAt
  <2> QED BY <2>1, <2>2, FreeBlocksElems
<1> QED BY <1>3, <1>4, <1>5, <1>6, <1>7 DEF a

LEMMA RemoveSpecific ==
  ASSUME ListType, ListsDistinct, NEW a, NEW k \in Orders,
         InList(a, k), remove_specific_from_free_list(a, k)
  PROVE  /\ ListType' /\ ListsDistinct'
         /\ a \in Addrs
         /\ BlockAt(a, k) \in FreeBlocks
         /\ FreeBlocks' = FreeBlocks \ {BlockAt(a, k)}
<1> DEFINE s == free_lists[k]
<1>1. s \in Seq(Addrs) /\ Injective(s) /\ a \in Elems(s)
  BY ListsInjective, InListElems DEF ListType
<1>2. a \in Addrs
  BY <1>1 DEF Elems
<1>3. free_lists' = [free_lists EXCEPT ![k] = Unlink(s, a)]
  BY DEF remove_specific_from_free_list
<1>4. /\ Unlink(s, a) \in Seq(Addrs)
      /\ Elems(Unlink(s, a)) = Elems(s) \ {a}
      /\ Injective(Unlink(s, a))
  BY <1>1, UnlinkFacts
<1>5. ListType'
  BY <1>3, <1>4 DEF ListType
<1>6. ListsDistinct'
  <2>1. \A j \in Orders : Injective(free_lists'[j])
    BY <1>3, <1>4, ListsInjective DEF ListType
  <2> QED BY <2>1 DEF ListsDistinct, Injective
<1>7. BlockAt(a, k) \in FreeBlocks
  BY <1>1, <1>2, FreeBlocksElems DEF Block, BlockAt
<1>8. FreeBlocks' = FreeBlocks \ {BlockAt(a, k)}
  <2>1. FreeBlocks' = {b \in Block : b.addr \in Elems(free_lists'[b.order])}
    BY DEF FreeBlocks, InList, Elems
  <2>2. \A b \in Block : b.addr \in Elems(free_lists'[b.order])
          <=> b.addr \in Elems(free_lists[b.order]) /\ b # BlockAt(a, k)
    BY <1>3, <1>4 DEF ListType, Block, BlockAt
  <2> QED BY <2>1, <2>2, FreeBlocksElems
<1> QED BY <1>2, <1>5, <1>6, <1>7, <1>8

(***************************************************************************)
(* Splitting and merging, on a set of pairwise disjoint blocks.            *)
(***************************************************************************)
Separate(B) == \A b, c \in B : b # c => Disjoint(b, c)
Covered(B, x) == \E b \in B : b.addr <= x /\ x < EndOf(b)

LEMMA BlockFacts ==
  \A b \in Block : /\ b.addr \in Nat /\ Base <= b.addr /\ b.addr < Limit
                   /\ b.order \in Orders
                   /\ BlockSize[b.order] \in Nat \ {0}
                   /\ EndOf(b) \in Nat /\ b.addr < EndOf(b)
  BY RegionFacts, SizeFacts DEF Block, Addrs, EndOf

LEMMA BlockAtFacts ==
  ASSUME NEW a \in Addrs, NEW k \in Orders
  PROVE  /\ BlockAt(a, k) \in Block
         /\ BlockAt(a, k).addr = a /\ BlockAt(a, k).order = k
         /\ EndOf(BlockAt(a, k)) = a + BlockSize[k]
  BY DEF Block, BlockAt, EndOf

LEMMA SplitSet ==
  ASSUME NEW B \in SUBSET Block, Separate(B),
         NEW a \in Addrs, NEW k \in Orders, k > 0,
         BlockAt(a, k) \in B, a + BlockSize[k] <= Limit
  PROVE  LET lo == BlockAt(a, k - 1)
             hi == BlockAt(a + BlockSize[k - 1], k - 1)
         IN  /\ a + BlockSize[k - 1] \in Addrs
             /\ lo \in Block /\ hi \in Block
             /\ lo \notin B /\ hi \notin B /\ lo # hi
             /\ Separate((B \ {BlockAt(a, k)}) \cup {lo, hi})
             /\ \A x \in Nat : Covered(B, x) =>
                  Covered((B \ {BlockAt(a, k)}) \cup {lo, hi}, x)
<1> DEFINE s == BlockSize[k - 1]
           c == BlockAt(a, k)
           lo == BlockAt(a, k - 1)
           hi == BlockAt(a + s, k - 1)
<1>1. s \in Nat \ {0} /\ BlockSize[k] = 2 * s /\ k - 1 \in Orders /\ k - 1 # k
  BY SizeFacts DEF Orders
<1>2. a \in Nat /\ a + s \in Addrs
  BY <1>1, RegionFacts DEF Addrs
<1>3. /\ c \in Block /\ c.addr = a /\ EndOf(c) = a + 2 * s
      /\ lo \in Block /\ lo.addr = a /\ EndOf(lo) = a + s
      /\ hi \in Block /\ hi.addr = a + s /\ EndOf(hi) = a + 2 * s
      /\ c.order = k /\ lo.order = k - 1 /\ hi.order = k - 1
  BY <1>1, <1>2, BlockAtFacts
<1> HIDE DEF c, lo, hi
<1>4. lo # hi /\ lo # c /\ hi # c
  BY <1>1, <1>2, <1>3
<1>5. lo \notin B /\ hi \notin B
  BY <1>1, <1>2, <1>3, <1>4 DEF Separate, Disjoint, c
<1>6. ASSUME NEW b \in B, b # c
      PROVE  /\ Disjoint(b, lo) /\ Disjoint(lo, b)
             /\ Disjoint(b, hi) /\ Disjoint(hi, b)
  <2>1. Disjoint(b, c) /\ Disjoint(c, b) /\ b \in Block
    BY <1>6 DEF Separate, c
  <2> QED BY <2>1, <1>1, <1>2, <1>3, BlockFacts DEF Disjoint
<1>7. Disjoint(lo, hi) /\ Disjoint(hi, lo)
  BY <1>1, <1>2, <1>3 DEF Disjoint
<1>8. Separate((B \ {c}) \cup {lo, hi})
  BY <1>6, <1>7 DEF Separate
<1>9. ASSUME NEW x \in Nat, Covered(B, x)
      PROVE  Covered((B \ {c}) \cup {lo, hi}, x)
  <2>1. PICK b \in B : b.addr <= x /\ x < EndOf(b)
    BY <1>9 DEF Covered
  <2>2. CASE b # c
    BY <2>1, <2>2 DEF Covered
  <2>3. CASE b = c
    BY <2>1, <2>3, <1>1, <1>2, <1>3 DEF Covered
  <2> QED BY <2>2, <2>3
<1> QED BY <1>2, <1>3, <1>4, <1>5, <1>8, <1>9 DEF c, lo, hi

LEMMA MergeSet ==
  ASSUME NEW B \in SUBSET Block, Separate(B),
         NEW a \in Addrs, NEW k \in Orders, k < MaxOrder,
         BlockAt(a, k) \in B, BlockAt(a + BlockSize[k], k) \in B
  PROVE  LET lo == BlockAt(a, k)
             hi == BlockAt(a + BlockSize[k], k)
             c  == BlockAt(a, k + 1)
         IN  /\ c \in Block /\ c \notin B
             /\ EndOf(c) = EndOf(hi)
             /\ Separate((B \ {lo, hi}) \cup {c})
             /\ \A x \in Nat : Covered(B, x) =>
                  Covered((B \ {lo, hi}) \cup {c}, x)
<1> DEFINE s == BlockSize[k]
           c == BlockAt(a, k + 1)
           lo == BlockAt(a, k)
           hi == BlockAt(a + s, k)
<1>1. s \in Nat \ {0} /\ BlockSize[k + 1] = 2 * s /\ k + 1 \in Orders /\ k + 1 # k
  BY SizeFacts DEF Orders
<1>2. a \in Nat /\ a + s \in Addrs
  BY <1>1, RegionFacts DEF Addrs, Block, BlockAt
<1>3. /\ c \in Block /\ c.addr = a /\ EndOf(c) = a + 2 * s
      /\ lo \in Block /\ lo.addr = a /\ EndOf(lo) = a + s
      /\ hi \in Block /\ hi.addr = a + s /\ EndOf(hi) = a + 2 * s
      /\ c.order = k + 1 /\ lo.order = k /\ hi.order = k
  BY <1>1, <1>2, BlockAtFacts
<1>a. lo \in B /\ hi \in B
  OBVIOUS
<1> HIDE DEF c, lo, hi
<1>4. lo # hi /\ lo # c /\ hi # c
  BY <1>1, <1>2, <1>3
<1>5. c \notin B
  BY <1>1, <1>2, <1>3, <1>4, <1>a DEF Separate, Disjoint
<1>6. ASSUME NEW b \in B, b # lo, b # hi
      PROVE  Disjoint(b, c) /\ Disjoint(c, b)
  <2>1. Disjoint(b, lo) /\ Disjoint(b, hi) /\ b \in Block
    BY <1>6, <1>a DEF Separate
  <2> QED BY <2>1, <1>1, <1>2, <1>3, BlockFacts DEF Disjoint
<1>8. Separate((B \ {lo, hi}) \cup {c})
  BY <1>6 DEF Separate
<1>9. ASSUME NEW x \in Nat, Covered(B, x)
      PROVE  Covered((B \ {lo, hi}) \cup {c}, x)
  <2>1. PICK b \in B : b.addr <= x /\ x < EndOf(b)
    BY <1>9 DEF Covered
  <2>2. CASE b # lo /\ b # hi
    BY <2>1, <2>2 DEF Covered
  <2>3. CASE b = lo \/ b = hi
    BY <2>1, <2>3, <1>1, <1>2, <1>3 DEF Covered
  <2> QED BY <2>2, <2>3
<1> QED BY <1>3, <1>5, <1>8, <1>9 DEF c, lo, hi

(***************************************************************************)
(* The inductive invariant.                                                *)
(***************************************************************************)

\* While init carves, nothing is allocated, the cursor is on a block boundary
\* above all the blocks, and a block that could have been the lower half of a
\* larger one was not extended only because the larger one does not fit.
CarveInv ==
  pc = "carve" =>
    /\ allocated = {}
    /\ cur_addr % MinBlockSize = 0
    /\ \A b \in FreeBlocks : EndOf(b) <= cur_addr
    /\ \A b \in FreeBlocks :
         b.order < MaxOrder /\ Aligned(b.addr, b.order + 1) =>
           b.addr + BlockSize[b.order + 1] > Limit

IInv == /\ TypeOK
        /\ NoOverlap
        /\ NoLeak
        /\ AlignedInside
        /\ NoFreeBuddies
        /\ CarveInv

NoBuddyPair(F) ==
  \A b \in F : b.order < MaxOrder => BlockAt(BuddyOf(b.addr, b.order), b.order) \notin F

\* What alloc_block_order answers is of the type of answers, for every order.
LEMMA AnswerFacts ==
  /\ Unasked \in Answer
  /\ \A k \in 0 .. MaxOrder + 1 : Some(k) \in Answer /\ None(k) \in Answer
  /\ \A k \in Orders : Some(k) \in Answer
BY RegionAssumption DEF Unasked, Some, None, Answer, Orders

LEMMA InListBlock ==
  ASSUME ListType, NEW a, NEW k \in Orders
  PROVE  InList(a, k) <=> BlockAt(a, k) \in FreeBlocks
<1>1. \A i \in DOMAIN free_lists[k] : free_lists[k][i] \in Addrs
  BY DEF ListType
<1> QED BY <1>1 DEF FreeBlocks, InList, BlockAt, Block

LEMMA NoFreeBuddiesSet ==
  ASSUME ListType
  PROVE  NoFreeBuddies <=> NoBuddyPair(FreeBlocks)
<1>1. \A b \in FreeBlocks : b.order \in Orders
  BY DEF FreeBlocks, Block
<1> QED BY <1>1, InListBlock DEF NoFreeBuddies, NoBuddyPair

LEMMA NoBuddyPairAdd ==
  ASSUME NEW F \in SUBSET Block, NoBuddyPair(F),
         \A c \in F : Aligned(c.addr, c.order),
         NEW b \in Block, Aligned(b.addr, b.order),
         b.order < MaxOrder => BlockAt(BuddyOf(b.addr, b.order), b.order) \notin F
  PROVE  NoBuddyPair(F \cup {b})
<1> SUFFICES ASSUME NEW c \in F \cup {b}, c.order < MaxOrder,
                    BlockAt(BuddyOf(c.addr, c.order), c.order) \in F \cup {b}
             PROVE  FALSE
  BY DEF NoBuddyPair
<1> DEFINE d == BlockAt(BuddyOf(c.addr, c.order), c.order)
<1>1. c \in Block /\ Aligned(c.addr, c.order) /\ c.addr \in Nat /\ c.order \in Orders
  BY BlockFacts
<1>2. d.addr # c.addr /\ d.order = c.order /\ BuddyOf(d.addr, d.order) = c.addr
  BY <1>1, BuddyFacts DEF BlockAt
<1>3. c = BlockAt(c.addr, c.order)
  BY <1>1 DEF Block, BlockAt
<1>4. CASE c = b
  BY <1>4, <1>2
<1>5. CASE c \in F /\ d = b
  BY <1>5, <1>2, <1>3
<1>6. CASE c \in F /\ d \in F
  BY <1>6 DEF NoBuddyPair
<1> QED BY <1>4, <1>5, <1>6

LEMMA InHandFacts ==
  ASSUME TypeOK
  PROVE  /\ pc \in {"split", "merge"} =>
              InHand = {BlockAt(cur_addr, cur_order)} /\ cur_addr \in Addrs /\ cur_order \in Orders
         /\ pc \notin {"split", "merge"} => InHand = {}
  BY RegionFacts DEF TypeOK, InHand, BlockAt, Block, Addrs

LEMMA BlocksSubset ==
  ASSUME TypeOK
  PROVE  Blocks \subseteq Block /\ FreeBlocks \subseteq Block /\ ListType
  BY DEF TypeOK, Blocks, FreeBlocks, InHand, ListType

LEMMA InitIInv == Init => IInv
<1> SUFFICES ASSUME Init PROVE IInv
  OBVIOUS
<1> USE DEF Init
<1>1. FreeBlocks = {} /\ InHand = {} /\ allocated = {} /\ Blocks = {}
  BY DEF FreeBlocks, InList, InHand, Blocks, Block
<1>2. TypeOK
  BY RegionFacts, SizeFacts, AnswerFacts DEF TypeOK, Addrs
<1>3. NoOverlap
  BY <1>1 DEF NoOverlap, ListsDistinct, OwnersDistinct, BlocksDisjoint
<1>4. NoLeak
  BY RegionFacts DEF NoLeak, Addrs
<1>5. AlignedInside /\ NoFreeBuddies /\ CarveInv
  BY <1>1, RegionFacts DEF AlignedInside, NoFreeBuddies, CarveInv
<1> QED BY <1>2, <1>3, <1>4, <1>5 DEF IInv

(***************************************************************************)
(* One lemma per action: it preserves the invariant.                       *)
(***************************************************************************)

\* IInv in the terms the set lemmas use.
LEMMA IInvFacts ==
  ASSUME IInv
  PROVE  /\ ListType /\ ListsDistinct /\ Blocks \in SUBSET Block
         /\ FreeBlocks \in SUBSET Block /\ allocated \in SUBSET Block
         /\ Separate(Blocks) /\ NoBuddyPair(FreeBlocks)
         /\ \A b \in FreeBlocks : Aligned(b.addr, b.order)
  BY BlocksSubset, NoFreeBuddiesSet
     DEF IInv, NoOverlap, BlocksDisjoint, Separate, AlignedInside, Blocks, TypeOK

\* How to establish IInv after a step that ends outside init.
LEMMA IInvNext ==
  ASSUME IInv, pc' # "carve", TypeOK', ListsDistinct',
         OwnersDistinct', Separate(Blocks'),
         \A x \in Addrs : Covered(Blocks', x),
         \A b \in Blocks' : Aligned(b.addr, b.order) /\ EndOf(b) <= Limit,
         NoBuddyPair(FreeBlocks')
  PROVE  IInv'
<1>1. NoOverlap'
  BY DEF NoOverlap, BlocksDisjoint, Separate
<1>2. NoLeak'
  BY DEF NoLeak, Covered
<1>3. AlignedInside'
  BY DEF AlignedInside
<1>4. NoFreeBuddies'
  <2>1. ListType'
    BY DEF TypeOK, ListType
  <2>2. \A i \in Orders : \A j \in DOMAIN free_lists'[i] : free_lists'[i][j] \in Addrs
    BY <2>1 DEF ListType
  <2>3. \A b \in FreeBlocks' : b.order \in Orders
    BY DEF FreeBlocks, Block
  <2>4. \A a : \A k \in Orders : InList(a, k)' => BlockAt(a, k) \in FreeBlocks'
    BY <2>2 DEF FreeBlocks, InList, BlockAt, Block
  <2>5. ASSUME NEW b \in FreeBlocks', b.order < MaxOrder
        PROVE  ~ InList(BuddyOf(b.addr, b.order), b.order)'
    BY <2>3, <2>4, <2>5 DEF NoBuddyPair
  <2> QED BY <2>5 DEF NoFreeBuddies
<1>5. CarveInv'
  BY DEF CarveInv
<1> QED BY <1>1, <1>2, <1>3, <1>4, <1>5 DEF IInv

LEMMA NoLeakIdle ==
  ASSUME IInv, pc # "carve"
  PROVE  \A x \in Addrs : Covered(Blocks, x)
  BY DEF IInv, NoLeak, Covered

LEMMA CarveDoneStep ==
  ASSUME IInv, CarveDone
  PROVE  IInv'
<1> USE DEF CarveDone
<1>1. FreeBlocks' = FreeBlocks /\ InHand = {} /\ InHand' = {} /\ Blocks' = Blocks
  BY DEF FreeBlocks, InList, InHand, Blocks
<1>2. cur_addr = Limit
  <2>1. cur_addr \in Nat /\ cur_addr <= Limit /\ cur_addr + MinBlockSize > Limit
    BY RegionFacts, SizeFacts DEF IInv, TypeOK, CarveMore
  <2>2. PICK q \in Nat : cur_addr = q * MinBlockSize
    BY <2>1, ModMultiple, SizeFacts DEF IInv, CarveInv
  <2>3. PICK r \in Nat : Limit = r * MinBlockSize
    BY RegionFacts, ModMultiple, SizeFacts
  <2>4. r < q + 1 /\ q <= r
    <3>1. MinBlockSize \in Nat \ {0}
      BY SizeFacts
    <3>2. CASE r >= q + 1
      <4>1. r * MinBlockSize >= (q + 1) * MinBlockSize
        BY <3>1, <3>2
      <4> QED BY <4>1, <2>1, <2>2, <2>3, <3>1
    <3>3. CASE q >= r + 1
      <4>1. q * MinBlockSize >= (r + 1) * MinBlockSize
        BY <3>1, <3>3
      <4> QED BY <4>1, <2>1, <2>2, <2>3, <3>1
    <3> QED BY <3>2, <3>3
  <2> QED BY <2>2, <2>3, <2>4
<1>3. TypeOK'
  BY DEF IInv, TypeOK
<1>4. ListsDistinct' /\ OwnersDistinct'
  BY <1>1 DEF IInv, NoOverlap, ListsDistinct, OwnersDistinct
<1>5. \A x \in Addrs : Covered(Blocks', x)
  BY <1>1, <1>2, RegionFacts DEF IInv, NoLeak, Covered, Addrs
<1>6. \A b \in Blocks' : Aligned(b.addr, b.order) /\ EndOf(b) <= Limit
  BY <1>1 DEF IInv, AlignedInside
<1> QED BY <1>1, <1>3, <1>4, <1>5, <1>6, IInvFacts, IInvNext

LEMMA AllocExactStep ==
  ASSUME IInv, NEW k \in 0 .. MaxOrder + 1, AllocExact(k)
  PROVE  IInv'
<1> DEFINE b == BlockAt(Head(free_lists[k]), k)
<1>1. k \in Orders
  BY RegionAssumption DEF AllocExact, Orders
<1>2. /\ ListType' /\ ListsDistinct'
      /\ b \in FreeBlocks /\ FreeBlocks' = FreeBlocks \ {b}
  BY <1>1, RemoveHead, IInvFacts DEF AllocExact
<1>3. allocated' = allocated \cup {b} /\ pc = "idle" /\ pc' = "idle"
  BY DEF AllocExact, BlockAt
<1> HIDE DEF b
<1>4. InHand = {} /\ InHand' = {}
  BY <1>3 DEF InHand
<1>5. Blocks' = Blocks
  BY <1>2, <1>3, <1>4 DEF Blocks
<1>6. TypeOK'
  BY <1>2, <1>3, IInvFacts, AnswerFacts DEF IInv, TypeOK, ListType, AllocExact
<1>7. OwnersDistinct'
  BY <1>2, <1>3, <1>4 DEF IInv, NoOverlap, OwnersDistinct
<1>8. NoBuddyPair(FreeBlocks')
  BY <1>2, IInvFacts DEF NoBuddyPair
<1>9. \A c \in Blocks' : Aligned(c.addr, c.order) /\ EndOf(c) <= Limit
  BY <1>5 DEF IInv, AlignedInside
<1>10. pc # "carve" /\ pc' # "carve"
  BY <1>3
<1> QED BY <1>2, <1>5, <1>6, <1>7, <1>8, <1>9, <1>10, IInvFacts, NoLeakIdle, IInvNext

LEMMA AllocHigherStep ==
  ASSUME IInv, NEW k \in 0 .. MaxOrder + 1, AllocHigher(k)
  PROVE  IInv'
<1>1. PICK h \in k + 1 .. MaxOrder :
        /\ free_lists[h] # <<>>
        /\ cur_addr' = Head(free_lists[h])
        /\ cur_order' = h
        /\ remove_from_free_list(h)
  BY DEF AllocHigher
<1> DEFINE b == BlockAt(Head(free_lists[h]), h)
<1>2. h \in Orders /\ k \in Orders /\ k <= h
  BY RegionAssumption DEF AllocHigher, Orders
<1>3. /\ ListType' /\ ListsDistinct' /\ Head(free_lists[h]) \in Addrs
      /\ b \in FreeBlocks /\ FreeBlocks' = FreeBlocks \ {b}
  BY <1>1, <1>2, RemoveHead, IInvFacts
<1>4. /\ allocated' = allocated /\ pc = "idle" /\ pc' = "split" /\ want' = k
      /\ answer' = answer
  BY DEF AllocHigher
<1>5. InHand = {} /\ InHand' = {b}
  BY <1>1, <1>2, <1>3, <1>4 DEF InHand, BlockAt, Block
<1> HIDE DEF b
<1>6. Blocks' = Blocks
  BY <1>3, <1>4, <1>5 DEF Blocks
<1>7. TypeOK'
  <2>1. cur_addr' \in Base .. Limit /\ cur_addr' < Limit
    BY <1>1, <1>3, RegionFacts DEF Addrs
  <2>2. cur_order' \in Orders /\ want' \in Orders /\ want' <= cur_order'
    BY <1>1, <1>2, <1>4
  <2> QED BY <2>1, <2>2, <1>3, <1>4 DEF IInv, TypeOK, ListType
<1>8. OwnersDistinct'
  BY <1>3, <1>4, <1>5 DEF IInv, NoOverlap, OwnersDistinct
<1>9. NoBuddyPair(FreeBlocks')
  BY <1>3, IInvFacts DEF NoBuddyPair
<1>10. \A c \in Blocks' : Aligned(c.addr, c.order) /\ EndOf(c) <= Limit
  BY <1>6 DEF IInv, AlignedInside
<1>11. pc # "carve" /\ pc' # "carve"
  BY <1>4
<1> QED BY <1>3, <1>6, <1>7, <1>8, <1>9, <1>10, <1>11, IInvFacts, NoLeakIdle, IInvNext

LEMMA SplitStep ==
  ASSUME IInv, Split
  PROVE  IInv'
<1> DEFINE a == cur_addr
           k == cur_order
           c == BlockAt(a, k)
           lo == BlockAt(a, k - 1)
           hi == BlockAt(a + BlockSize[k - 1], k - 1)
<1>1. /\ pc = "split" /\ pc' = "split" /\ k > want /\ cur_order' = k - 1
      /\ cur_addr' = a /\ allocated' = allocated /\ want' = want /\ answer' = answer
      /\ add_to_free_list(a + BlockSize[k - 1], k - 1)
  BY DEF Split
<1>2. InHand = {c} /\ a \in Addrs /\ k \in Orders /\ c \in Blocks /\ want \in Nat
  BY <1>1, InHandFacts DEF IInv, Blocks, TypeOK, Orders
<1>3. k > 0 /\ k - 1 \in Orders /\ want <= k - 1
  BY <1>1, <1>2, RegionAssumption DEF Orders
<1>4. Aligned(a, k) /\ a + BlockSize[k] <= Limit
  <2>1. c.addr = a /\ c.order = k /\ EndOf(c) = a + BlockSize[k]
    BY <1>2, BlockAtFacts
  <2>2. Aligned(c.addr, c.order) /\ EndOf(c) <= Limit
    BY <1>2 DEF IInv, AlignedInside
  <2> QED BY <2>1, <2>2
<1>5. /\ a + BlockSize[k - 1] \in Addrs
      /\ lo \in Block /\ hi \in Block
      /\ lo \notin Blocks /\ hi \notin Blocks /\ lo # hi
      /\ Separate((Blocks \ {c}) \cup {lo, hi})
      /\ \A x \in Nat : Covered(Blocks, x) => Covered((Blocks \ {c}) \cup {lo, hi}, x)
  BY <1>2, <1>3, <1>4, IInvFacts, SplitSet
<1>6. /\ ListType' /\ ListsDistinct' /\ FreeBlocks' = FreeBlocks \cup {hi}
  BY <1>1, <1>3, <1>5, IInvFacts, AddFree DEF Blocks
<1>7. InHand' = {lo}
  BY <1>1, <1>2, <1>3 DEF InHand, BlockAt, Block
<1>8. Aligned(a, k - 1) /\ Aligned(a + BlockSize[k - 1], k - 1)
      /\ BuddyOf(a, k - 1) = a + BlockSize[k - 1]
  <2>1. k - 1 < MaxOrder /\ (k - 1) + 1 = k /\ a \in Nat
    BY <1>2, RegionFacts, RegionAssumption DEF Orders, Addrs
  <2> QED BY <2>1, <1>3, <1>4, SplitFacts
<1>9. BuddyOf(a + BlockSize[k - 1], k - 1) = a
  <2>1. k - 1 < MaxOrder /\ a \in Nat
    BY <1>2, RegionFacts, RegionAssumption DEF Orders, Addrs
  <2> QED BY <2>1, <1>3, <1>8, BuddyFacts
<1>10. /\ lo.addr = a /\ lo.order = k - 1 /\ hi.addr = a + BlockSize[k - 1]
       /\ hi.order = k - 1
       /\ EndOf(lo) <= Limit /\ EndOf(hi) <= Limit
  <2>1. /\ lo.addr = a /\ lo.order = k - 1 /\ hi.addr = a + BlockSize[k - 1]
        /\ hi.order = k - 1 /\ EndOf(lo) = a + BlockSize[k - 1]
        /\ EndOf(hi) = a + BlockSize[k - 1] + BlockSize[k - 1]
    BY <1>2, <1>3, <1>5, BlockAtFacts
  <2>2. BlockSize[k] = 2 * BlockSize[k - 1] /\ BlockSize[k - 1] \in Nat
    BY <1>2, <1>3, SizeFacts
  <2> QED BY <2>1, <2>2, <1>2, <1>4, RegionFacts DEF Addrs
<1>11. NoBuddyPair(FreeBlocks')
  <2>1. BlockAt(BuddyOf(hi.addr, hi.order), hi.order) = lo
    BY <1>9, <1>10
  <2>2. Aligned(hi.addr, hi.order) /\ lo \notin FreeBlocks
    BY <1>5, <1>8, <1>10 DEF Blocks
  <2> HIDE DEF hi, lo
  <2> QED BY <2>1, <2>2, <1>5, <1>6, IInvFacts, NoBuddyPairAdd
<1> HIDE DEF c, lo, hi
<1>12. c \notin FreeBlocks /\ c \notin allocated
  BY <1>2 DEF IInv, NoOverlap, OwnersDistinct
<1>13. Blocks' = (Blocks \ {c}) \cup {lo, hi}
  BY <1>1, <1>2, <1>6, <1>7, <1>12 DEF Blocks
<1>14. OwnersDistinct'
  BY <1>1, <1>5, <1>6, <1>7 DEF IInv, NoOverlap, OwnersDistinct, Blocks
<1>15. TypeOK'
  BY <1>1, <1>2, <1>3, <1>6, RegionFacts DEF IInv, TypeOK, ListType, Addrs
<1>16. \A b \in Blocks' : Aligned(b.addr, b.order) /\ EndOf(b) <= Limit
  BY <1>8, <1>10, <1>13 DEF IInv, AlignedInside
<1>17. \A x \in Addrs : Covered(Blocks', x)
  <2>1. \A x \in Addrs : x \in Nat /\ Covered(Blocks, x)
    BY <1>1, NoLeakIdle, RegionFacts DEF Addrs
  <2> QED BY <2>1, <1>5, <1>13
<1>18. pc' # "carve"
  BY <1>1
<1> QED BY <1>5, <1>6, <1>11, <1>13, <1>14, <1>15, <1>16, <1>17, <1>18, IInvNext

LEMMA AllocReturnStep ==
  ASSUME IInv, AllocReturn
  PROVE  IInv'
<1> DEFINE c == BlockAt(cur_addr, cur_order)
<1>1. /\ pc = "split" /\ pc' = "idle" /\ allocated' = allocated \cup {c}
      /\ free_lists' = free_lists /\ answer' = Some(want)
      /\ UNCHANGED <<cur_addr, cur_order, want>>
  BY DEF AllocReturn, BlockAt
<1>2. InHand = {c} /\ c \in Block
  BY <1>1, InHandFacts, BlockAtFacts DEF IInv
<1> HIDE DEF c
<1>3. FreeBlocks' = FreeBlocks /\ InHand' = {}
  BY <1>1 DEF FreeBlocks, InList, InHand
<1>4. Blocks' = Blocks
  BY <1>1, <1>2, <1>3 DEF Blocks
<1>5. ListsDistinct' /\ OwnersDistinct'
  BY <1>1, <1>2, <1>3 DEF IInv, NoOverlap, ListsDistinct, OwnersDistinct
<1>6. TypeOK'
  BY <1>1, <1>2, AnswerFacts DEF IInv, TypeOK
<1>7. \A b \in Blocks' : Aligned(b.addr, b.order) /\ EndOf(b) <= Limit
  BY <1>4 DEF IInv, AlignedInside
<1>8. pc # "carve" /\ pc' # "carve"
  BY <1>1
<1> QED BY <1>3, <1>4, <1>5, <1>6, <1>7, <1>8, IInvFacts, NoLeakIdle, IInvNext

LEMMA AllocNoneStep ==
  ASSUME IInv, NEW k \in 0 .. MaxOrder + 1, AllocNone(k)
  PROVE  IInv'
<1> USE DEF AllocNone
<1>1. FreeBlocks' = FreeBlocks /\ InHand' = InHand /\ Blocks' = Blocks
  BY DEF FreeBlocks, InList, InHand, Blocks
<1>2. ListsDistinct' /\ OwnersDistinct'
  BY <1>1 DEF IInv, NoOverlap, ListsDistinct, OwnersDistinct
<1>3. TypeOK'
  BY AnswerFacts DEF IInv, TypeOK
<1>4. \A b \in Blocks' : Aligned(b.addr, b.order) /\ EndOf(b) <= Limit
  BY <1>1 DEF IInv, AlignedInside
<1>5. pc # "carve" /\ pc' # "carve"
  OBVIOUS
<1> QED BY <1>1, <1>2, <1>3, <1>4, <1>5, IInvFacts, NoLeakIdle, IInvNext

LEMMA FreeBeginStep ==
  ASSUME IInv, NEW b \in allocated, FreeBegin(b)
  PROVE  IInv'
<1>1. /\ pc = "idle" /\ pc' = "merge" /\ allocated' = allocated \ {b}
      /\ free_lists' = free_lists /\ cur_addr' = b.addr /\ cur_order' = b.order
      /\ UNCHANGED <<answer, want>>
  BY DEF FreeBegin
<1>2. b \in Block /\ b.addr \in Addrs /\ b.order \in Orders
  BY IInvFacts DEF Block
<1>3. InHand = {} /\ InHand' = {b}
  BY <1>1, <1>2 DEF InHand, Block
<1>4. FreeBlocks' = FreeBlocks
  BY <1>1 DEF FreeBlocks, InList
<1>5. Blocks' = Blocks
  BY <1>1, <1>3, <1>4 DEF Blocks
<1>6. ListsDistinct' /\ OwnersDistinct'
  BY <1>1, <1>3, <1>4 DEF IInv, NoOverlap, ListsDistinct, OwnersDistinct
<1>7. TypeOK'
  BY <1>1, <1>2, RegionFacts DEF IInv, TypeOK, Addrs
<1>8. \A c \in Blocks' : Aligned(c.addr, c.order) /\ EndOf(c) <= Limit
  BY <1>5 DEF IInv, AlignedInside
<1>9. pc # "carve" /\ pc' # "carve"
  BY <1>1
<1> QED BY <1>4, <1>5, <1>6, <1>7, <1>8, <1>9, IInvFacts, NoLeakIdle, IInvNext

LEMMA MergeStep ==
  ASSUME IInv, Merge
  PROVE  IInv'
<1> DEFINE a == cur_addr
           k == cur_order
           d == BuddyOf(a, k)
           l == Lower(a, d)
           lo == BlockAt(l, k)
           hi == BlockAt(l + BlockSize[k], k)
           c == BlockAt(l, k + 1)
<1>1. /\ pc = "merge" /\ pc' = "merge" /\ k < MaxOrder /\ InList(d, k)
      /\ remove_specific_from_free_list(d, k)
      /\ cur_addr' = l /\ cur_order' = k + 1
      /\ UNCHANGED <<allocated, answer, want>>
  BY DEF Merge, CanMerge
<1>2. InHand = {BlockAt(a, k)} /\ a \in Addrs /\ k \in Orders /\ BlockAt(a, k) \in Blocks
  BY <1>1, InHandFacts DEF IInv, Blocks
<1>3. a \in Nat /\ k + 1 \in Orders /\ BlockSize[k] \in Nat \ {0}
  BY <1>1, <1>2, RegionFacts, SizeFacts DEF Addrs
<1>4. Aligned(a, k)
  <2>1. Aligned(BlockAt(a, k).addr, BlockAt(a, k).order)
    BY <1>2 DEF IInv, AlignedInside
  <2> QED BY <2>1, <1>2, BlockAtFacts
<1>5. /\ ListType' /\ ListsDistinct' /\ d \in Addrs
      /\ BlockAt(d, k) \in FreeBlocks /\ FreeBlocks' = FreeBlocks \ {BlockAt(d, k)}
  <2> HIDE DEF d
  <2> QED BY <1>1, <1>2, IInvFacts, RemoveSpecific
<1>6. /\ l \in Nat /\ Aligned(l, k + 1)
      /\ \/ l = a /\ d = a + BlockSize[k]
         \/ l = d /\ a = d + BlockSize[k]
  BY <1>1, <1>2, <1>3, <1>4, BuddyFacts
<1> HIDE DEF d, l
<1>7. l \in Addrs /\ {lo, hi} = {BlockAt(a, k), BlockAt(d, k)}
  BY <1>2, <1>5, <1>6
<1>8. lo \in Blocks /\ hi \in Blocks
  BY <1>2, <1>5, <1>7 DEF Blocks
<1>9. /\ c \in Block /\ c \notin Blocks /\ EndOf(c) = EndOf(hi)
      /\ Separate((Blocks \ {lo, hi}) \cup {c})
      /\ \A x \in Nat : Covered(Blocks, x) => Covered((Blocks \ {lo, hi}) \cup {c}, x)
  BY <1>1, <1>2, <1>7, <1>8, IInvFacts, MergeSet
<1>10. c.addr = l /\ c.order = k + 1 /\ InHand' = {c}
  BY <1>1, <1>3, <1>7 DEF InHand, BlockAt, Block
<1> HIDE DEF lo, hi, c
<1>11. /\ BlockAt(a, k) \notin FreeBlocks /\ BlockAt(a, k) \notin allocated
       /\ BlockAt(d, k) \notin allocated
  BY <1>2, <1>5 DEF IInv, NoOverlap, OwnersDistinct
<1>12. Blocks' = (Blocks \ {lo, hi}) \cup {c}
  BY <1>1, <1>2, <1>5, <1>7, <1>10, <1>11 DEF Blocks
<1>13. OwnersDistinct'
  BY <1>1, <1>5, <1>9, <1>10 DEF IInv, NoOverlap, OwnersDistinct, Blocks
<1>14. TypeOK'
  BY <1>1, <1>3, <1>5, <1>7, RegionFacts DEF IInv, TypeOK, ListType, Addrs
<1>15. NoBuddyPair(FreeBlocks')
  BY <1>5, IInvFacts DEF NoBuddyPair
<1>16. \A b \in Blocks' : Aligned(b.addr, b.order) /\ EndOf(b) <= Limit
  BY <1>6, <1>8, <1>9, <1>10, <1>12 DEF IInv, AlignedInside
<1>17. \A x \in Addrs : Covered(Blocks', x)
  <2>1. \A x \in Addrs : x \in Nat /\ Covered(Blocks, x)
    BY <1>1, NoLeakIdle, RegionFacts DEF Addrs
  <2> QED BY <2>1, <1>9, <1>12
<1>18. pc' # "carve"
  BY <1>1
<1> QED BY <1>5, <1>9, <1>12, <1>13, <1>14, <1>15, <1>16, <1>17, <1>18, IInvNext

LEMMA FreeDoneStep ==
  ASSUME IInv, FreeDone
  PROVE  IInv'
<1> DEFINE a == cur_addr
           k == cur_order
           c == BlockAt(a, k)
<1>1. /\ pc = "merge" /\ pc' = "idle" /\ ~ CanMerge
      /\ add_to_free_list(a, k)
      /\ UNCHANGED <<allocated, answer, cur_addr, cur_order, want>>
  BY DEF FreeDone
<1>2. InHand = {c} /\ a \in Addrs /\ k \in Orders /\ c \in Block
  BY <1>1, InHandFacts, BlockAtFacts DEF IInv
<1>3. c \notin FreeBlocks /\ c \notin allocated
  BY <1>2 DEF IInv, NoOverlap, OwnersDistinct
<1>4. ListType' /\ ListsDistinct' /\ FreeBlocks' = FreeBlocks \cup {c}
  BY <1>1, <1>2, <1>3, IInvFacts, AddFree
<1>5. InHand' = {}
  BY <1>1 DEF InHand
<1>6. c.addr = a /\ c.order = k
  BY <1>2, BlockAtFacts
<1>7. k < MaxOrder => BlockAt(BuddyOf(a, k), k) \notin FreeBlocks
  <2> SUFFICES ASSUME k < MaxOrder, BlockAt(BuddyOf(a, k), k) \in FreeBlocks
               PROVE  CanMerge
    BY <1>1
  <2>1. InList(BuddyOf(a, k), k)
    BY <1>2, InListBlock, IInvFacts
  <2>2. BuddyOf(a, k) \in Addrs
    BY DEF FreeBlocks, Block, BlockAt
  <2> QED BY <2>1, <2>2, RegionFacts DEF CanMerge, Addrs
<1> HIDE DEF c
<1>8. Blocks' = Blocks
  BY <1>1, <1>2, <1>4, <1>5 DEF Blocks
<1>9. \A b \in Blocks' : Aligned(b.addr, b.order) /\ EndOf(b) <= Limit
  BY <1>8 DEF IInv, AlignedInside
<1>10. NoBuddyPair(FreeBlocks')
  <2>1. Aligned(c.addr, c.order)
    BY <1>2, <1>8, <1>9 DEF Blocks
  <2> QED BY <2>1, <1>2, <1>4, <1>6, <1>7, IInvFacts, NoBuddyPairAdd
<1>11. OwnersDistinct'
  BY <1>1, <1>3, <1>4, <1>5 DEF IInv, NoOverlap, OwnersDistinct
<1>12. TypeOK'
  BY <1>1, <1>4 DEF IInv, TypeOK, ListType
<1>13. pc # "carve" /\ pc' # "carve"
  BY <1>1
<1> QED BY <1>4, <1>8, <1>9, <1>10, <1>11, <1>12, <1>13, IInvFacts, NoLeakIdle, IInvNext

LEMMA CarveStep ==
  ASSUME IInv, Carve
  PROVE  IInv'
<1> DEFINE a == cur_addr
<1>1. PICK k \in Orders : /\ CarveOrder(a, k)
                          /\ add_to_free_list(a, k)
                          /\ cur_addr' = a + BlockSize[k]
  BY DEF Carve
<1> DEFINE s == BlockSize[k]
           c == BlockAt(a, k)
<1>2. /\ pc = "carve" /\ pc' = "carve" /\ a + MinBlockSize <= Limit
      /\ UNCHANGED <<allocated, answer, cur_order, want>>
  BY DEF Carve, CarveMore
<1>3. /\ a \in Nat /\ a \in Addrs /\ a % MinBlockSize = 0 /\ allocated = {}
      /\ s \in Nat \ {0} /\ MinBlockSize \in Nat \ {0} /\ BlockSize[0] = MinBlockSize
  BY <1>2, RegionFacts, SizeFacts DEF IInv, TypeOK, CarveInv, Addrs
<1>4. a + s <= Limit /\ Aligned(a, k)
  <2>1. CASE k = 0
    BY <2>1, <1>2, <1>3 DEF Aligned
  <2>2. CASE CarveFits(a, k)
    BY <2>2, <1>3, RegionFacts DEF CarveFits
  <2> QED BY <1>1, <2>1, <2>2 DEF CarveOrder
<1>5. /\ c \in Block /\ c.addr = a /\ c.order = k /\ EndOf(c) = a + s
  BY <1>3, BlockAtFacts
<1>6. /\ \A b \in FreeBlocks : EndOf(b) <= a
      /\ \A b \in FreeBlocks :
           b.order < MaxOrder /\ Aligned(b.addr, b.order + 1) =>
             b.addr + BlockSize[b.order + 1] > Limit
  BY <1>2 DEF IInv, CarveInv
<1>7. c \notin FreeBlocks
  BY <1>3, <1>5, <1>6
<1>8. ListType' /\ ListsDistinct' /\ FreeBlocks' = FreeBlocks \cup {c}
  BY <1>1, <1>3, <1>7, IInvFacts, AddFree
<1>9. InHand = {} /\ InHand' = {} /\ Blocks = FreeBlocks /\ Blocks' = FreeBlocks'
  BY <1>2, <1>3 DEF InHand, Blocks
<1>10. k < MaxOrder => BlockAt(BuddyOf(a, k), k) \notin FreeBlocks
  <2> SUFFICES ASSUME k < MaxOrder, BlockAt(BuddyOf(a, k), k) \in FreeBlocks
               PROVE  FALSE
    OBVIOUS
  <2> DEFINE d == BuddyOf(a, k)
             b == BlockAt(d, k)
  <2>1. /\ d \in Nat
        /\ Aligned(Lower(a, d), k + 1)
        /\ \/ Lower(a, d) = a /\ d = a + s
           \/ Lower(a, d) = d /\ a = d + s
    BY <1>3, <1>4, BuddyFacts
  <2>2. d \in Addrs
    BY DEF FreeBlocks, Block, BlockAt
  <2>3. b.addr = d /\ b.order = k /\ EndOf(b) = d + s
    BY <2>2, BlockAtFacts
  <2>4. EndOf(b) <= a
    BY <1>6
  <2> HIDE DEF d
  <2>5. Aligned(d, k + 1) /\ a = d + s
    BY <2>1, <2>3, <2>4, <1>3
  <2>6. d + BlockSize[k + 1] > Limit
    BY <1>6, <2>3, <2>5 DEF d
  <2>7. BlockSize[k + 1] = 2 * s
    BY SizeFacts
  <2> QED BY <2>1, <2>5, <2>6, <2>7, <1>3, <1>4, RegionFacts
<1>11. k < MaxOrder /\ Aligned(a, k + 1) => a + BlockSize[k + 1] > Limit
  <2> SUFFICES ASSUME k < MaxOrder, Aligned(a, k + 1)
               PROVE  a + BlockSize[k + 1] > Limit
    OBVIOUS
  <2>1. k + 1 \in k + 1 .. MaxOrder /\ BlockSize[k + 1] \in Nat
    BY SizeFacts, RegionAssumption DEF Orders
  <2>2. ~ CarveFits(a, k + 1)
    BY <2>1, <1>1 DEF CarveOrder
  <2> QED BY <2>1, <2>2, <1>3, RegionFacts DEF CarveFits
<1>12. (a + s) % MinBlockSize = 0
  <2>1. PICK q \in Nat : a = q * MinBlockSize
    BY <1>3, ModMultiple
  <2>2. PICK r \in Nat : s = r * MinBlockSize
    BY <1>3, ModMultiple, SizeMultiple
  <2>3. a + s = (q + r) * MinBlockSize /\ q + r \in Nat
    BY <1>3, <2>1, <2>2
  <2> QED BY <2>3, <1>3, MultipleMod
<1> HIDE DEF c, s
<1>13. TypeOK'
  BY <1>1, <1>2, <1>3, <1>4, <1>8, RegionFacts DEF IInv, TypeOK, ListType, s
<1>14. NoOverlap'
  <2>1. \A b \in FreeBlocks : b \in Block /\ Disjoint(b, c) /\ Disjoint(c, b)
    BY <1>5, <1>6, IInvFacts DEF Disjoint
  <2>2. Separate(FreeBlocks')
    BY <1>8, <1>9, <2>1, IInvFacts DEF Separate
  <2>3. BlocksDisjoint'
    BY <1>9, <2>2 DEF BlocksDisjoint, Separate
  <2>4. OwnersDistinct'
    BY <1>2, <1>3, <1>9 DEF OwnersDistinct
  <2> QED BY <1>8, <2>3, <2>4 DEF NoOverlap
<1>15. NoLeak'
  <2> SUFFICES ASSUME NEW x \in Addrs, x < a + s
               PROVE  \E b \in Blocks' : b.addr <= x /\ x < EndOf(b)
    BY <1>1, <1>2 DEF NoLeak, s
  <2>1. x \in Nat
    BY RegionFacts DEF Addrs
  <2>2. CASE x < a
    BY <2>2, <1>2, <1>8, <1>9 DEF IInv, NoLeak
  <2>3. CASE x >= a
    BY <2>3, <1>5, <1>8, <1>9
  <2> QED BY <2>1, <2>2, <2>3, <1>3
<1>16. AlignedInside'
  BY <1>4, <1>5, <1>8, <1>9 DEF IInv, AlignedInside
<1>17. NoFreeBuddies'
  <2>1. NoBuddyPair(FreeBlocks')
    BY <1>4, <1>5, <1>8, <1>10, IInvFacts, NoBuddyPairAdd
  <2>2. \A i \in Orders : \A j \in DOMAIN free_lists'[i] : free_lists'[i][j] \in Addrs
    BY <1>8 DEF ListType
  <2>3. \A b \in FreeBlocks' : b.order \in Orders
    BY DEF FreeBlocks, Block
  <2>4. \A x : \A i \in Orders : InList(x, i)' => BlockAt(x, i) \in FreeBlocks'
    BY <2>2 DEF FreeBlocks, InList, BlockAt, Block
  <2>5. ASSUME NEW b \in FreeBlocks', b.order < MaxOrder
        PROVE  ~ InList(BuddyOf(b.addr, b.order), b.order)'
    BY <2>1, <2>3, <2>4, <2>5 DEF NoBuddyPair
  <2> QED BY <2>5 DEF NoFreeBuddies
<1>18. CarveInv'
  <2>1. \A b \in FreeBlocks' : EndOf(b) <= a + s
    <3>1. \A b \in FreeBlocks : EndOf(b) \in Nat
      BY BlockFacts, IInvFacts
    <3> QED BY <3>1, <1>3, <1>5, <1>6, <1>8
  <2>2. \A b \in FreeBlocks' :
           b.order < MaxOrder /\ Aligned(b.addr, b.order + 1) =>
             b.addr + BlockSize[b.order + 1] > Limit
    BY <1>5, <1>6, <1>8, <1>11
  <2>3. allocated' = {} /\ cur_addr' = a + s
    BY <1>1, <1>2, <1>3 DEF s
  <2> QED BY <2>1, <2>2, <2>3, <1>12 DEF CarveInv
<1> QED BY <1>13, <1>14, <1>15, <1>16, <1>17, <1>18 DEF IInv

LEMMA StutterStep ==
  ASSUME IInv, UNCHANGED vars
  PROVE  IInv'
<1>1. FreeBlocks' = FreeBlocks /\ InHand' = InHand /\ Blocks' = Blocks
  BY DEF vars, FreeBlocks, InList, InHand, Blocks
<1>2. TypeOK' /\ NoOverlap'
  BY <1>1 DEF vars, IInv, TypeOK, NoOverlap, ListsDistinct, OwnersDistinct, BlocksDisjoint
<1>3. NoLeak' /\ AlignedInside' /\ CarveInv'
  BY <1>1 DEF vars, IInv, NoLeak, AlignedInside, CarveInv
<1>4. NoFreeBuddies'
  BY <1>1 DEF vars, IInv, NoFreeBuddies, InList
<1> QED BY <1>2, <1>3, <1>4 DEF IInv

-----------------------------------------------------------------------------
\* Every state of the allocator satisfies the inductive invariant.
THEOREM Invariance == Spec => []IInv
<1>1. ASSUME IInv, [Next]_vars PROVE IInv'
  <2>1. CASE Internal
    BY <1>1, <2>1, CarveStep, CarveDoneStep, SplitStep, AllocReturnStep, MergeStep,
       FreeDoneStep DEF Internal
  <2>2. ASSUME NEW k \in 0 .. MaxOrder + 1,
               AllocExact(k) \/ AllocHigher(k) \/ AllocNone(k)
        PROVE  IInv'
    BY <1>1, <2>2, AllocExactStep, AllocHigherStep, AllocNoneStep
  <2>3. ASSUME NEW b \in allocated, FreeBegin(b) PROVE IInv'
    BY <1>1, <2>3, FreeBeginStep
  <2>4. CASE UNCHANGED vars
    BY <1>1, <2>4, StutterStep
  <2> QED BY <1>1, <2>1, <2>2, <2>3, <2>4 DEF Next
<1> QED BY <1>1, InitIInv, PTL DEF Spec

\* Type correctness of the free lists, the blocks in use and the state of the
\* call in progress.
THEOREM TypeCorrect == Spec => []TypeOK
<1>1. IInv => TypeOK
  BY DEF IInv
<1> QED BY <1>1, Invariance, PTL

\* init, alloc_block_order and free_block never give one piece of memory to
\* two owners.
THEOREM MemorySafety == Spec => []NoOverlap
<1>1. IInv => NoOverlap
  BY DEF IInv
<1> QED BY <1>1, Invariance, PTL

\* They never lose memory either.
THEOREM NoMemoryLost == Spec => []NoLeak
<1>1. IInv => NoLeak
  BY DEF IInv
<1> QED BY <1>1, Invariance, PTL

\* Every block is naturally aligned and inside the managed region.
THEOREM BlocksAligned == Spec => []AlignedInside
<1>1. IInv => AlignedInside
  BY DEF IInv
<1> QED BY <1>1, Invariance, PTL

\* free_block coalesces completely.
THEOREM Coalescing == Spec => []NoFreeBuddies
<1>1. IInv => NoFreeBuddies
  BY DEF IInv
<1> QED BY <1>1, Invariance, PTL

-----------------------------------------------------------------------------
(***************************************************************************)
(* Fragmentation inside the lists, and the promise of a block allocator.   *)
(***************************************************************************)

\* Multiples of d are ordered as their factors are.
LEMMA FactorOrder ==
  ASSUME NEW x \in Nat, NEW y \in Nat, NEW d \in Nat \ {0}, x * d < y * d
  PROVE  x + 1 <= y /\ (x + 1) * d <= y * d
<1>1. x < y
  <2> SUFFICES ASSUME y <= x PROVE FALSE
    OBVIOUS
  <2>1. PICK n \in Nat : x = y + n
    BY x - y \in Nat /\ x = y + (x - y)
  <2>2. x * d = y * d + n * d /\ n * d \in Nat /\ y * d \in Nat
    BY <2>1
  <2> QED BY <2>2
<1>2. PICK n \in Nat : y = (x + 1) + n
  BY <1>1, y - (x + 1) \in Nat /\ y = (x + 1) + (y - (x + 1))
<1>3. y * d = (x + 1) * d + n * d /\ n * d \in Nat /\ (x + 1) * d \in Nat
  BY <1>2
<1> QED BY <1>1, <1>3

\* A block size is a multiple of every smaller one.
LEMMA SizeDivides ==
  ASSUME NEW j \in Orders, NEW k \in Orders, j <= k
  PROVE  /\ \E m \in Nat \ {0} : BlockSize[k] = m * BlockSize[j]
         /\ j < k => 2 * BlockSize[j] <= BlockSize[k]
<1> DEFINE OK(i) == /\ \E m \in Nat \ {0} : BlockSize[i] = m * BlockSize[j]
                    /\ j < i => 2 * BlockSize[j] <= BlockSize[i]
           Bad == {i \in Orders : j <= i /\ ~ OK(i)}
<1> SUFFICES ASSUME Bad # {} PROVE FALSE
  OBVIOUS
<1>1. Bad \in SUBSET Nat /\ j \in Nat /\ Orders \subseteq Nat
  BY RegionAssumption DEF Orders
<1>2. PICK i \in Bad : \A m \in Bad : i <= m
  BY <1>1, LeastNatural
<1>3. i # j
  <2>1. BlockSize[j] = 1 * BlockSize[j]
    BY SizeFacts
  <2> QED BY <1>2, <2>1, <1>1
<1>4. i - 1 \in Orders /\ j <= i - 1 /\ i > 0 /\ BlockSize[i] = 2 * BlockSize[i - 1]
  BY <1>1, <1>2, <1>3, SizeFacts
<1>5. OK(i - 1)
  BY <1>1, <1>2, <1>4
<1>6. PICK m \in Nat \ {0} : BlockSize[i - 1] = m * BlockSize[j]
  BY <1>5
<1>7. BlockSize[i] = (2 * m) * BlockSize[j] /\ 2 * m \in Nat \ {0}
  BY <1>4, <1>6, SizeFacts
<1>8. BlockSize[j] <= BlockSize[i - 1]
  <2>1. BlockSize[j] \in Nat /\ BlockSize[i - 1] \in Nat
    BY <1>4, SizeFacts
  <2>2. CASE j = i - 1
    BY <2>1, <2>2
  <2>3. CASE j < i - 1
    BY <2>1, <2>3, <1>5
  <2> QED BY <2>2, <2>3, <1>1, <1>4
<1>9. 2 * BlockSize[j] <= BlockSize[i]
  BY <1>4, <1>8, SizeFacts
<1> QED BY <1>2, <1>7, <1>9

\* Two aligned blocks that overlap are nested.
LEMMA Nested ==
  ASSUME NEW a \in Nat, NEW k \in Orders, Aligned(a, k),
         NEW b \in Nat, NEW j \in Orders, Aligned(b, j), j <= k,
         a < b + BlockSize[j], b < a + BlockSize[k]
  PROVE  a <= b /\ b + BlockSize[j] <= a + BlockSize[k]
<1> DEFINE s == BlockSize[j]
<1>1. s \in Nat \ {0} /\ BlockSize[k] \in Nat \ {0}
  BY SizeFacts
<1>2. PICK m \in Nat \ {0} : BlockSize[k] = m * s
  BY SizeDivides
<1>3. PICK p \in Nat : a = p * BlockSize[k]
  BY <1>1, ModMultiple DEF Aligned
<1>4. PICK q \in Nat : b = q * s
  BY <1>1, ModMultiple DEF Aligned
<1> HIDE DEF s
<1>5. p * m \in Nat /\ a = (p * m) * s
  BY <1>1, <1>2, <1>3
<1>6. b + s = (q + 1) * s /\ a + BlockSize[k] = (p * m + m) * s
  BY <1>1, <1>2, <1>4, <1>5
<1>7. p * m < q + 1
  BY <1>1, <1>5, <1>6, FactorOrder DEF s
<1>8. a <= b
  <2>1. p * m = q \/ p * m < q
    BY <1>5, <1>7
  <2>2. CASE p * m = q
    BY <2>2, <1>4, <1>5
  <2>3. CASE p * m < q
    <3>1. PICK n \in Nat : q = p * m + n
      BY <2>3, <1>5, q - p * m \in Nat /\ q = p * m + (q - p * m)
    <3>2. b = a + n * s /\ n * s \in Nat
      BY <3>1, <1>1, <1>4, <1>5
    <3> QED BY <3>2
  <2> QED BY <2>1, <2>2, <2>3
<1>9. (q + 1) * s <= (p * m + m) * s
  BY <1>1, <1>4, <1>5, <1>6, FactorOrder
<1> QED BY <1>6, <1>8, <1>9 DEF s

\* An aligned stretch inside the region that overlaps no block in use.
Unused(b) == /\ Aligned(b.addr, b.order) /\ EndOf(b) <= Limit
             /\ \A c \in allocated : Disjoint(b, c)

InFree(b) == \E f \in FreeBlocks : f.addr <= b.addr /\ EndOf(b) <= EndOf(f)

\* Between calls, a free block that reaches into an unused stretch of at most
\* its size contains it.
LEMMA FreeContains ==
  ASSUME IInv, NEW b \in Block, Unused(b), NEW f \in FreeBlocks,
         b.order <= f.order, f.addr < EndOf(b), b.addr < EndOf(f)
  PROVE  InFree(b)
<1>1. f \in Block /\ Aligned(f.addr, f.order)
  BY IInvFacts
<1> QED BY <1>1, BlockFacts, Nested DEF Unused, InFree, EndOf

\* Between calls, an unused stretch lies in a single free block.
LEMMA UnusedInFree ==
  ASSUME IInv, pc = "idle", NEW b \in Block, Unused(b)
  PROVE  InFree(b)
<1> DEFINE Bad == {k \in Orders : \E c \in Block : c.order = k /\ Unused(c) /\ ~ InFree(c)}
<1> SUFFICES ASSUME Bad # {} PROVE FALSE
  BY BlockFacts
<1>0. Orders \subseteq Nat
  BY RegionAssumption DEF Orders
<1>1. Bad \in SUBSET Nat
  BY <1>0
<1>2. PICK k \in Bad : \A m \in Bad : k <= m
  BY <1>1, LeastNatural
<1>3. PICK c \in Block : c.order = k /\ Unused(c) /\ ~ InFree(c)
  BY <1>2
<1>4. /\ c.addr \in Addrs /\ c.addr \in Nat /\ k \in Orders /\ k \in Nat
      /\ BlockSize[k] \in Nat \ {0} /\ EndOf(c) = c.addr + BlockSize[k]
      /\ c = BlockAt(c.addr, k)
  BY <1>0, <1>2, <1>3, SizeFacts, BlockFacts DEF Block, BlockAt, EndOf, Addrs
<1> HIDE DEF Bad
<1>5. CASE k = 0
  <2>1. PICK g \in Blocks : g.addr <= c.addr /\ c.addr < EndOf(g)
    BY <1>4, NoLeakIdle DEF Covered
  <2>2. g \in Block /\ InHand = {}
    BY <2>1, IInvFacts, InHandFacts DEF IInv
  <2>3. g \notin allocated
    BY <2>1, <2>2, <1>3, <1>4, BlockFacts DEF Unused, Disjoint
  <2>4. g \in FreeBlocks
    BY <2>1, <2>2, <2>3 DEF Blocks
  <2>5. c.order <= g.order /\ g.addr < EndOf(c)
    <3>1. g.order \in Nat /\ g.addr \in Nat
      BY <2>2, <1>0, BlockFacts
    <3> QED BY <3>1, <2>1, <1>3, <1>4, <1>5
  <2> QED BY <2>1, <2>4, <2>5, <1>3, FreeContains
<1>6. CASE k > 0
  <2> DEFINE s == BlockSize[k - 1]
             lo == BlockAt(c.addr, k - 1)
             hi == BlockAt(c.addr + s, k - 1)
  <2>1. k - 1 \in Orders /\ k - 1 < MaxOrder /\ s \in Nat \ {0} /\ BlockSize[k] = 2 * s
    BY <1>4, <1>6, SizeFacts, RegionAssumption DEF Orders
  <2>2. /\ Aligned(c.addr, k - 1) /\ Aligned(c.addr + s, k - 1)
        /\ BuddyOf(c.addr, k - 1) = c.addr + s
    <3>1. Aligned(c.addr, (k - 1) + 1)
      BY <1>3, <1>4 DEF Unused
    <3> QED BY <3>1, <2>1, <1>4, SplitFacts
  <2>3. c.addr + s \in Addrs
    BY <1>3, <1>4, <2>1, RegionFacts DEF Unused, Addrs
  <2>4. /\ lo \in Block /\ lo.addr = c.addr /\ lo.order = k - 1 /\ EndOf(lo) = c.addr + s
        /\ hi \in Block /\ hi.addr = c.addr + s /\ hi.order = k - 1 /\ EndOf(hi) = c.addr + s + s
    BY <2>1, <2>3, <1>4, BlockAtFacts
  <2> HIDE DEF lo, hi, s
  <2>5. Unused(lo) /\ Unused(hi)
    <3>1. \A d \in allocated : Disjoint(c, d) /\ d.addr \in Nat /\ EndOf(d) \in Nat
      BY <1>3, IInvFacts, BlockFacts DEF Unused
    <3>2. \A d \in allocated : Disjoint(lo, d) /\ Disjoint(hi, d)
      BY <3>1, <2>4, <2>1, <1>4 DEF Disjoint
    <3>3. EndOf(c) <= Limit
      BY <1>3 DEF Unused
    <3> QED BY <3>2, <3>3, <2>1, <2>2, <2>4, <1>4, RegionFacts DEF Unused
  <2>6. k - 1 \notin Bad /\ k - 1 < k
    BY <1>1, <1>2, <1>4
  <2>7. PICK f \in FreeBlocks : f.addr <= lo.addr /\ EndOf(lo) <= EndOf(f)
    BY <2>1, <2>4, <2>5, <2>6 DEF InFree, Bad
  <2>8. PICK g \in FreeBlocks : g.addr <= hi.addr /\ EndOf(hi) <= EndOf(g)
    BY <2>1, <2>4, <2>5, <2>6 DEF InFree, Bad
  <2>9. f \in Block /\ g \in Block
    BY IInvFacts
  <2>10. f.order < k /\ g.order < k
    <3>1. f.addr < EndOf(c) /\ c.addr < EndOf(f)
      BY <2>7, <2>4, <2>1, <2>9, <1>4, BlockFacts
    <3>2. g.addr < EndOf(c) /\ c.addr < EndOf(g)
      BY <2>8, <2>4, <2>1, <2>9, <1>4, BlockFacts
    <3>3. f.order \in Nat /\ g.order \in Nat
      BY <2>9, <1>0, BlockFacts
    <3> QED BY <3>1, <3>2, <3>3, <1>3, <1>4, FreeContains
  <2>11. f = lo
    <3>0. f.order \in Orders /\ f.order \in Nat /\ f.addr \in Nat /\ BlockSize[f.order] \in Nat \ {0}
      BY <2>9, <1>0, BlockFacts
    <3>1. f.order <= k - 1
      BY <3>0, <2>10, <1>4
    <3>2. f.order < k - 1 => 2 * BlockSize[f.order] <= s
      BY <3>0, <3>1, <2>1, SizeDivides DEF s
    <3>3. BlockSize[f.order] >= s /\ (f.order = k - 1 => f.addr = lo.addr)
      BY <2>1, <2>4, <2>7, <2>9, <1>4, BlockFacts DEF EndOf, s
    <3>4. f.order = k - 1 /\ f.addr = c.addr
      BY <3>0, <3>1, <3>2, <3>3, <2>1, <2>4, <1>4
    <3> QED BY <3>4, <2>9 DEF lo, BlockAt, Block
  <2>12. g = hi
    <3>0. g.order \in Orders /\ g.order \in Nat /\ g.addr \in Nat /\ BlockSize[g.order] \in Nat \ {0}
      BY <2>9, <1>0, BlockFacts
    <3>1. g.order <= k - 1
      BY <3>0, <2>10, <1>4
    <3>2. g.order < k - 1 => 2 * BlockSize[g.order] <= s
      BY <3>0, <3>1, <2>1, SizeDivides DEF s
    <3>3. BlockSize[g.order] >= s /\ (g.order = k - 1 => g.addr = hi.addr)
      BY <2>1, <2>4, <2>8, <2>9, <1>4, BlockFacts DEF EndOf, s
    <3>4. g.order = k - 1 /\ g.addr = c.addr + s
      BY <3>0, <3>1, <3>2, <3>3, <2>1, <2>4, <1>4
    <3> QED BY <3>4, <2>9 DEF hi, BlockAt, Block
  <2> QED BY <2>1, <2>2, <2>4, <2>11, <2>12, IInvFacts DEF NoBuddyPair, hi
<1> QED BY <1>4, <1>5, <1>6

\* The lists are never fragmented between calls: an aligned stretch that no
\* caller holds lies inside one free block, for every region and MAX_ORDER.
THEOREM NeverFragmented == Spec => []NoInternalFragmentation
<1>1. IInv => NoInternalFragmentation
  BY UnusedInFree DEF NoInternalFragmentation, Unused, InFree
<1> QED BY <1>1, Invariance, PTL

\* A block that is free or in the hands of a call could be handed out.
LEMMA FreeAvailable ==
  ASSUME IInv, NEW b \in FreeBlocks \cup InHand
  PROVE  b \in Abstract!Block /\ Abstract!Available(b)
<1>1. b \in Blocks /\ b \in Block
  BY IInvFacts DEF Blocks
<1>2. Aligned(b.addr, b.order) /\ EndOf(b) <= Limit /\ Base <= b.addr
  BY <1>1, BlockFacts DEF IInv, AlignedInside
<1>3. ASSUME NEW c \in allocated PROVE Disjoint(b, c)
  BY <1>1, <1>3 DEF IInv, NoOverlap, OwnersDistinct, BlocksDisjoint, Blocks
<1> QED BY <1>1, <1>2, <1>3 DEF Abstract!Available, Abstract!Aligned, Abstract!Inside,
           Abstract!EndOf, Abstract!Disjoint, Abstract!Block, Abstract!Addrs, Abstract!Orders,
           Aligned, EndOf, Disjoint, Block, Addrs, Orders

\* Between calls, a block that could be handed out is on a list, or inside one
\* that is: alloc_block_order finds it at its order or a higher one.
LEMMA AvailableFound ==
  ASSUME IInv, pc = "idle", NEW b \in Abstract!Block, Abstract!Available(b)
  PROVE  \E j \in b.order .. MaxOrder : free_lists[j] # <<>>
<1>1. b \in Block /\ Unused(b)
  BY DEF Abstract!Available, Abstract!Aligned, Abstract!Inside,
     Abstract!EndOf, Abstract!Disjoint, Abstract!Block, Abstract!Addrs, Abstract!Orders,
     Aligned, EndOf, Disjoint, Block, Addrs, Orders, Unused
<1>2. PICK f \in FreeBlocks : f.addr <= b.addr /\ EndOf(b) <= EndOf(f)
  BY <1>1, UnusedInFree DEF InFree
<1>3. f \in Block /\ InList(f.addr, f.order)
  BY <1>2 DEF FreeBlocks
<1>4. /\ f.order \in Orders /\ b.order \in Orders /\ f.order \in Nat /\ b.order \in Nat
      /\ f.order <= MaxOrder
      /\ BlockSize[f.order] \in Nat \ {0} /\ BlockSize[b.order] \in Nat \ {0}
      /\ BlockSize[b.order] <= BlockSize[f.order]
  BY <1>1, <1>2, <1>3, BlockFacts, RegionAssumption DEF EndOf, Orders
<1>5. b.order <= f.order
  <2>1. f.order < b.order => 2 * BlockSize[f.order] <= BlockSize[b.order]
    BY <1>4, SizeDivides
  <2> QED BY <1>4, <2>1
<1>6. free_lists[f.order] # <<>>
  BY <1>3 DEF InList
<1> QED BY <1>4, <1>5, <1>6, RegionAssumption

\* Every step of the buddy allocator is a step of the block allocator or
\* changes nothing that it shows.
LEMMA StepSimulation ==
  ASSUME IInv, IInv', [Next]_vars
  PROVE  [Abstract!Next]_(Abstract!vars)
<1> USE DEF Abstract!vars
<1>1. CASE Carve \/ CarveDone \/ Split \/ Merge \/ FreeDone \/ UNCHANGED vars
  BY <1>1 DEF Carve, CarveDone, Split, Merge, FreeDone, vars
<1>2. CASE AllocReturn
  <2> DEFINE c == BlockAt(cur_addr, cur_order)
  <2>1. c \in InHand /\ cur_order \in Orders /\ cur_order = want
    BY <1>2, InHandFacts DEF AllocReturn, IInv
  <2>2. /\ allocated' = allocated \cup {c} /\ answer' = Abstract!Some(cur_order)
        /\ c.order = cur_order
    BY <1>2, <2>1 DEF AllocReturn, Some, Abstract!Some, BlockAt
  <2> HIDE DEF c
  <2>3. Abstract!Alloc(cur_order)
    BY <2>1, <2>2, FreeAvailable DEF Abstract!Alloc
  <2>4. cur_order \in 0 .. MaxOrder + 1
    BY <2>1, RegionAssumption DEF Orders
  <2> QED BY <2>3, <2>4 DEF Abstract!Next
<1>3. ASSUME NEW k \in 0 .. MaxOrder + 1, AllocExact(k)
      PROVE  Abstract!Next
  <2> DEFINE c == BlockAt(Head(free_lists[k]), k)
  <2>1. k \in Orders /\ free_lists[k] # <<>> /\ remove_from_free_list(k)
    BY <1>3, RegionAssumption DEF AllocExact, Orders
  <2>2. c \in FreeBlocks
    BY <2>1, RemoveHead, IInvFacts
  <2>3. /\ allocated' = allocated \cup {c} /\ answer' = Abstract!Some(k)
        /\ c.order = k
    BY <1>3 DEF AllocExact, Some, Abstract!Some, BlockAt
  <2> HIDE DEF c
  <2>4. Abstract!Alloc(k)
    BY <2>2, <2>3, FreeAvailable DEF Abstract!Alloc
  <2> QED BY <2>4 DEF Abstract!Next
<1>4. ASSUME NEW k \in 0 .. MaxOrder + 1, AllocHigher(k)
      PROVE  UNCHANGED Abstract!vars
  BY <1>4 DEF AllocHigher
<1>5. ASSUME NEW k \in 0 .. MaxOrder + 1, AllocNone(k)
      PROVE  Abstract!Next
  <2>1. ~ \E b \in Abstract!Block : b.order = k /\ Abstract!Available(b)
    BY <1>5, AvailableFound DEF AllocNone
  <2>2. Abstract!Refuse(k)
    BY <1>5, <2>1 DEF AllocNone, Abstract!Refuse, None, Abstract!None
  <2> QED BY <2>2 DEF Abstract!Next
<1>6. ASSUME NEW b \in allocated, FreeBegin(b)
      PROVE  Abstract!Next
  BY <1>6 DEF FreeBegin, Abstract!Free, Abstract!Next
<1> QED BY <1>1, <1>2, <1>3, <1>4, <1>5, <1>6 DEF Next, Internal

\* The buddy allocator implements the block allocator its users rely on: what
\* it hands out is aligned, inside and unused, and it says None only when no
\* such block exists, for every region, minimum block size and MAX_ORDER.
THEOREM Refinement == Spec => ImplementsBlockAllocator
<1>1. Init => Abstract!Init
  BY DEF Init, Abstract!Init, Unasked, Abstract!Unasked
<1>2. IInv /\ IInv' /\ [Next]_vars => [Abstract!Next]_(Abstract!vars)
  BY StepSimulation
<1> QED BY <1>1, <1>2, Invariance, PTL DEF Spec, ImplementsBlockAllocator, Abstract!Spec
=============================================================================
