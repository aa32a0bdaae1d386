--------------------------- MODULE FlashDiskProofs ---------------------------
(***************************************************************************)
(* Proofs about the flash filesystem and its life on the NAND, for every   *)
(* size of the map, every ratio, every NAND and every set of names and     *)
(* contents.                                                               *)
(*                                                                         *)
(* The first part is about FlashFS. The inductive invariant is Sound: the  *)
(* object has its type, files do not share clusters, the block map and the *)
(* directory agree on which clusters hold files, and the root's clusters   *)
(* hold none. On it rests that the filesystem implements the ordered store *)
(* of FlashStore.                                                          *)
(*                                                                         *)
(* The second part is about FlashDisk: the filesystem on the NAND          *)
(* implements the saved store, and a write of it fails only for want of    *)
(* space. A load forgets which clusters were withheld: one the table       *)
(* states unnamed comes back as a link to the base cluster, on no file's   *)
(* chain. The proof looks at an object with these links hidden, which is   *)
(* as sound as one that was never loaded, and shows that no call tells the *)
(* two apart.                                                              *)
(***************************************************************************)
EXTENDS FlashDisk, TLAPS, WellFoundedInduction, FiniteSetTheorems,
        SequenceTheorems

-----------------------------------------------------------------------------
(***************************************************************************)
(* Natural numbers: least elements, and induction stated over a set.       *)
(***************************************************************************)

\* A nonempty set of naturals has a least element.
LEMMA NatLeast ==
  ASSUME NEW T, T \subseteq Nat, T # {}
  PROVE  \E x \in T : \A y \in T : x =< y
<1>1. PICK x \in T : \A y \in T : <<y, x>> \notin OpToRel(<, Nat)
  BY NatLessThanWellFounded, WFMin
<1>2. \A y \in T : ~(y < x)
  BY <1>1 DEF OpToRel
<1>. QED BY <1>2

\* A set that holds 0 and the successor of each of its naturals holds them all.
LEMMA NatInductionOnSets ==
  ASSUME NEW S, 0 \in S, \A n \in Nat : n \in S => n + 1 \in S
  PROVE  Nat \subseteq S
<1>. DEFINE T == Nat \ S
<1>1. SUFFICES ASSUME T # {} PROVE FALSE
  OBVIOUS
<1>2. PICK x \in T : \A y \in T : x =< y
  BY <1>1, NatLeast
<1>3. x # 0 /\ x - 1 \in Nat /\ x - 1 \notin T
  BY <1>2
<1>. QED BY <1>2, <1>3

\* Lowest picks the least element.
LEMMA LowestLemma ==
  ASSUME NEW T, T \subseteq Nat, T # {}
  PROVE  Lowest(T) \in T /\ \A d \in T : Lowest(T) =< d
<1>1. \E c \in T : \A d \in T : c =< d
  BY NatLeast
<1>. QED BY <1>1 DEF Lowest

LEMMA MapSizeNat == MapSize \in Nat /\ MapSize > 0 /\ MapSize =< 4096
<1>1. NumBlocks \in Nat /\ Ratio \in Nat /\ NumBlocks > 0 /\ Ratio > 0
  BY ShapeAssumption
<1>2. NumBlocks * Ratio \in Nat /\ NumBlocks * Ratio > 0
  BY <1>1
<1>. QED BY <1>2, ShapeAssumption DEF MapSize, MapCapacity

\* A cluster number survives the mask.
LEMMA LowCluster ==
  /\ \A c \in Cluster : c \in Nat /\ c < 4096 /\ Low(c) = c
  /\ Low(Free) = Free /\ Low(EndOfChain) = EndOfChain
  /\ Low(Reserved) = Reserved /\ Low(Table) = Table
  /\ Free \notin Cluster /\ EndOfChain \notin Cluster
  /\ Reserved \notin Cluster /\ Table \notin Cluster /\ Stop \notin Cluster
BY MapSizeNat DEF Cluster, Low, Free, EndOfChain, Reserved, Table, Stop

-----------------------------------------------------------------------------
(***************************************************************************)
(* Chains.                                                                 *)
(***************************************************************************)

\* The walk is the function its recursive definition says it is.
LEMMA WalkDef ==
  ASSUME NEW map, NEW s
  PROVE  Walk(map, s) = [k \in 0 .. MapSize |->
                           IF k = 0 THEN s ELSE NextCluster(map, Walk(map, s)[k - 1])]
<1>. DEFINE Rec(f, n) == f = [k \in 0 .. n |-> IF k = 0 THEN s ELSE NextCluster(map, f[k - 1])]
            T == {n \in Nat : \E f : Rec(f, n)}
<1>1. 0 \in T
  <2>. DEFINE f0 == [k \in 0 .. 0 |-> s]
  <2>1. f0 = [k \in 0 .. 0 |-> IF k = 0 THEN s ELSE NextCluster(map, f0[k - 1])]
    OBVIOUS
  <2>. QED BY <2>1
<1>2. ASSUME NEW n \in Nat, n \in T PROVE n + 1 \in T
  <2>1. PICK f : Rec(f, n)
    BY <1>2
  <2>. DEFINE g == [k \in 0 .. n + 1 |-> IF k =< n THEN f[k] ELSE NextCluster(map, f[n])]
  <2>2. \A k \in 0 .. n : g[k] = f[k]
    OBVIOUS
  <2>3. \A k \in 0 .. n + 1 : g[k] = IF k = 0 THEN s ELSE NextCluster(map, g[k - 1])
    <3>. TAKE k \in 0 .. n + 1
    <3>1. CASE k = 0
      BY <2>1, <2>2, <3>1
    <3>2. CASE k # 0 /\ k =< n
      BY <2>1, <2>2, <3>2
    <3>3. CASE k = n + 1
      BY <2>2, <3>3
    <3>. QED BY <3>1, <3>2, <3>3
  <2>4. \E h : Rec(h, n + 1)
    <3>1. Rec(g, n + 1)
      BY <2>3
    <3>. HIDE DEF g
    <3>. QED BY <3>1
  <2>. HIDE DEF Rec
  <2>. QED BY <2>4
<1>3. MapSize \in T
  <2>. HIDE DEF T
  <2>. QED BY <1>1, <1>2, NatInductionOnSets, MapSizeNat
<1>4. \E f : Rec(f, MapSize)
  <2>. HIDE DEF Rec
  <2>. QED BY <1>3
<1>. QED BY <1>4 DEF Walk

LEMMA WalkSteps ==
  ASSUME NEW map, NEW s
  PROVE  /\ Walk(map, s)[0] = s
         /\ \A n \in Nat : n + 1 =< MapSize =>
              Walk(map, s)[n + 1] = NextCluster(map, Walk(map, s)[n])
<1>. DEFINE w == Walk(map, s)
<1>1. w = [k \in 0 .. MapSize |-> IF k = 0 THEN s ELSE NextCluster(map, w[k - 1])]
  BY WalkDef
<1>. HIDE DEF w
<1>2. w[0] = s
  BY <1>1, MapSizeNat
<1>3. ASSUME NEW n \in Nat, n + 1 =< MapSize PROVE w[n + 1] = NextCluster(map, w[n])
  <2>1. n + 1 \in 0 .. MapSize /\ n + 1 # 0 /\ (n + 1) - 1 = n
    BY <1>3, MapSizeNat
  <2>. QED BY <1>1, <2>1
<1>. QED BY <1>2, <1>3 DEF w

\* A cluster is on the chain that starts at it.
LEMMA ChainStart ==
  ASSUME NEW map, NEW s \in Cluster
  PROVE  s \in Chain(map, s)
BY WalkSteps, MapSizeNat DEF Chain

LEMMA ChainSubset ==
  ASSUME NEW map, NEW s
  PROVE  Chain(map, s) \subseteq Cluster
BY DEF Chain

\* A chain stays inside any set that holds its start and that no link leaves.
LEMMA ChainInClosed ==
  ASSUME NEW map, NEW s, NEW S, s \in S,
         \A c \in S : NextCluster(map, c) \in S \cup {Stop}
  PROVE  Chain(map, s) \subseteq S
<1>. DEFINE w == Walk(map, s)
            T == {n \in Nat : n =< MapSize => w[n] \in S \cup {Stop}}
<1>1. NextCluster(map, Stop) = Stop
  BY LowCluster DEF NextCluster
<1>2. 0 \in T
  BY WalkSteps
<1>3. \A n \in Nat : n \in T => n + 1 \in T
  <2>. SUFFICES ASSUME NEW n \in Nat, n \in T, n + 1 =< MapSize
                PROVE  w[n + 1] \in S \cup {Stop}
    OBVIOUS
  <2>1. w[n] \in S \cup {Stop}
    BY MapSizeNat
  <2>2. w[n + 1] = NextCluster(map, w[n])
    BY WalkSteps
  <2>. QED BY <1>1, <2>1, <2>2
<1>4. Nat \subseteq T
  <2>. HIDE DEF T
  <2>. QED BY <1>2, <1>3, NatInductionOnSets
<1>5. \A n \in 0 .. MapSize : w[n] \in S \cup {Stop}
  BY <1>4, MapSizeNat
<1>. QED BY <1>5, LowCluster DEF Chain

\* Two maps that agree along a chain are walked alike.
LEMMA WalkAgree ==
  ASSUME NEW map, NEW other, NEW s, \A c \in Chain(map, s) : map[c] = other[c]
  PROVE  \A n \in 0 .. MapSize : Walk(other, s)[n] = Walk(map, s)[n]
<1>. DEFINE w == Walk(map, s)
            v == Walk(other, s)
            T == {n \in Nat : n =< MapSize => v[n] = w[n]}
<1>1. 0 \in T
  BY WalkSteps
<1>2. \A n \in Nat : n \in T => n + 1 \in T
  <2>. SUFFICES ASSUME NEW n \in Nat, n \in T, n + 1 =< MapSize
                PROVE  v[n + 1] = w[n + 1]
    OBVIOUS
  <2>1. v[n] = w[n]
    BY MapSizeNat
  <2>2. w[n + 1] = NextCluster(map, w[n]) /\ v[n + 1] = NextCluster(other, w[n])
    BY <2>1, WalkSteps
  <2>3. CASE w[n] \in Cluster
    <3>1. w[n] \in Chain(map, s)
      BY <2>3, MapSizeNat DEF Chain
    <3>. QED BY <2>2, <3>1 DEF NextCluster
  <2>4. CASE w[n] \notin Cluster
    BY <2>2, <2>4 DEF NextCluster
  <2>. QED BY <2>3, <2>4
<1>3. Nat \subseteq T
  <2>. HIDE DEF T
  <2>. QED BY <1>1, <1>2, NatInductionOnSets
<1>. QED BY <1>3, MapSizeNat

LEMMA ChainAgree ==
  ASSUME NEW map, NEW other, NEW s, \A c \in Chain(map, s) : map[c] = other[c]
  PROVE  Chain(other, s) = Chain(map, s)
BY WalkAgree DEF Chain

-----------------------------------------------------------------------------
(***************************************************************************)
(* Allocation.                                                             *)
(***************************************************************************)

\* Every file needs a cluster.
LEMMA NeedsOne == ASSUME NEW b \in Nat PROVE ClustersNeeded(b) \in Nat \ {0}
<1>. SUFFICES ASSUME b # 0 PROVE (b + ClusterBytes - 1) \div ClusterBytes \in Nat \ {0}
  BY DEF ClustersNeeded
<1>. DEFINE q == (b + ClusterBytes - 1) \div ClusterBytes
            r == (b + ClusterBytes - 1) % ClusterBytes
<1>0. ClusterBytes \in Nat /\ ClusterBytes > 0
  BY ShapeAssumption
<1>1. /\ q \in Int /\ r \in 0 .. ClusterBytes - 1
      /\ b + ClusterBytes - 1 = ClusterBytes * q + r
  BY <1>0
<1>. HIDE DEF q, r
<1>2. ClusterBytes * q > 0
  BY <1>0, <1>1
<1>3. q > 0
  BY <1>0, <1>1, <1>2
<1>. QED BY <1>1, <1>3 DEF q

\* A bounded nonempty set of naturals has a greatest element.
LEMMA NatGreatest ==
  ASSUME NEW b \in Nat, NEW T, T \subseteq 0 .. b, T # {}
  PROVE  \E x \in T : \A y \in T : y =< x
<1>. DEFINE U == {b - d : d \in T}
<1>1. PICK u \in U : \A y \in U : u =< y
  <2>1. U \subseteq Nat
    OBVIOUS
  <2>2. PICK x \in T : TRUE
    OBVIOUS
  <2>3. b - x \in U
    OBVIOUS
  <2>. HIDE DEF U
  <2>. QED BY <2>1, <2>3, NatLeast
<1>2. PICK x \in T : u = b - x
  BY <1>1
<1>3. ASSUME NEW y \in T PROVE y =< x
  <2>1. b - y \in U
    OBVIOUS
  <2>2. u =< b - y
    BY <1>1, <2>1
  <2>. QED BY <1>2, <2>2
<1>. QED BY <1>3

LEMMA FreeFinite ==
  ASSUME NEW map
  PROVE  FreeClusters(map) \subseteq Cluster /\ IsFiniteSet(FreeClusters(map))
<1>1. IsFiniteSet(Cluster)
  BY MapSizeNat, FS_Interval DEF Cluster
<1>2. FreeClusters(map) \subseteq Cluster
  BY DEF FreeClusters
<1>. QED BY <1>1, <1>2, FS_Subset

\* When a cluster is free, at least one is allocated, and every allocated one was free.
LEMMA LowestFreeNonempty ==
  ASSUME NEW map, NEW n \in Nat, n > 0, FreeClusters(map) # {}
  PROVE  /\ LowestFree(map, n) # {}
         /\ LowestFree(map, n) \subseteq FreeClusters(map)
         /\ LowestFree(map, n) \subseteq Cluster
         /\ LowestFree(map, n) \subseteq Nat
<1>. DEFINE F == FreeClusters(map)
<1>1. F \subseteq Nat /\ F \subseteq Cluster
  BY FreeFinite, LowCluster
<1>2. PICK x \in F : \A y \in F : x =< y
  <2>. HIDE DEF F
  <2>. QED BY <1>1, NatLeast DEF F
<1>3. {d \in F : d < x} = {}
  BY <1>1, <1>2
<1>4. Cardinality({d \in F : d < x}) < n
  BY <1>3, FS_EmptySet
<1>5. x \in LowestFree(map, n)
  BY <1>4 DEF LowestFree
<1>. QED BY <1>1, <1>5 DEF LowestFree

\* What allocate_chain links: each allocated cluster to the next higher one.
LEMMA AllocatedLinks ==
  ASSUME NEW map, NEW n \in Nat, n > 0, FreeClusters(map) # {}
  PROVE  LET chain == LowestFree(map, n)
             link  == Allocated(map, n)
         IN  /\ \A c \in Cluster \ chain : link[c] = map[c]
             /\ \A c \in chain :
                  IF \E d \in chain : c < d
                  THEN /\ link[c] = Lowest({d \in chain : c < d})
                       /\ link[c] \in chain /\ c < link[c]
                       /\ \A d \in chain : c < d => link[c] =< d
                       /\ NextCluster(link, c) = link[c]
                  ELSE link[c] = EndOfChain /\ NextCluster(link, c) = Stop
             /\ link \in [Cluster -> {map[c] : c \in Cluster} \cup Cluster \cup {EndOfChain}]
<1>. DEFINE chain == LowestFree(map, n)
            link  == Allocated(map, n)
            above(c) == {d \in chain : c < d}
<1>1. chain \subseteq Cluster /\ chain \subseteq Nat
  BY LowestFreeNonempty
<1>2. link = [c \in Cluster |-> IF c \notin chain THEN map[c]
                                ELSE IF \E d \in chain : c < d THEN Lowest(above(c))
                                ELSE EndOfChain]
  BY DEF Allocated
<1>. HIDE DEF chain, link
<1>3. \A c \in Cluster \ chain : link[c] = map[c]
  BY <1>2
<1>4. ASSUME NEW c \in chain, \E d \in chain : c < d
      PROVE  /\ link[c] = Lowest(above(c))
             /\ link[c] \in chain /\ c < link[c]
             /\ \A d \in chain : c < d => link[c] =< d
             /\ NextCluster(link, c) = link[c]
  <2>1. link[c] = Lowest(above(c))
    BY <1>1, <1>2, <1>4
  <2>2. above(c) \subseteq Nat /\ above(c) # {}
    BY <1>1, <1>4
  <2>3. Lowest(above(c)) \in above(c) /\ \A d \in above(c) : Lowest(above(c)) =< d
    <3>. HIDE DEF above
    <3>. QED BY <2>2, LowestLemma
  <2>4. link[c] \in chain /\ c < link[c]
    BY <2>1, <2>3
  <2>5. \A d \in chain : c < d => link[c] =< d
    BY <2>1, <2>3
  <2>6. NextCluster(link, c) = link[c]
    <3>1. c \in Cluster /\ link[c] \in Cluster
      BY <1>1, <2>4
    <3>2. Low(link[c]) = link[c]
      BY <3>1, LowCluster
    <3>. QED BY <3>1, <3>2 DEF NextCluster
  <2>. QED BY <2>1, <2>4, <2>5, <2>6
<1>5. ASSUME NEW c \in chain, ~\E d \in chain : c < d
      PROVE  link[c] = EndOfChain /\ NextCluster(link, c) = Stop
  <2>1. link[c] = EndOfChain
    BY <1>1, <1>2, <1>5
  <2>. QED BY <2>1, LowCluster DEF NextCluster
<1>6. link \in [Cluster -> {map[c] : c \in Cluster} \cup Cluster \cup {EndOfChain}]
  <2>. SUFFICES ASSUME NEW c \in Cluster
                PROVE  link[c] \in {map[x] : x \in Cluster} \cup Cluster \cup {EndOfChain}
    BY <1>2
  <2>1. CASE c \notin chain
    BY <1>3, <2>1
  <2>2. CASE c \in chain /\ \E d \in chain : c < d
    BY <1>1, <1>4, <2>2
  <2>3. CASE c \in chain /\ ~\E d \in chain : c < d
    BY <1>5, <2>3
  <2>. QED BY <2>1, <2>2, <2>3
<1>. QED BY <1>3, <1>4, <1>5, <1>6 DEF chain, link

\* The chain an allocation returns is exactly the clusters it took.
LEMMA AllocatedChain ==
  ASSUME NEW map, NEW n \in Nat, n > 0, FreeClusters(map) # {}
  PROVE  LET chain == LowestFree(map, n)
         IN  /\ Lowest(chain) \in chain
             /\ Chain(Allocated(map, n), Lowest(chain)) = chain
<1>. DEFINE chain == LowestFree(map, n)
            link  == Allocated(map, n)
            start == Lowest(chain)
            w     == Walk(link, start)
<1>1. chain \subseteq Cluster /\ chain \subseteq Nat /\ chain # {}
  BY LowestFreeNonempty
<1>2. start \in chain /\ \A d \in chain : start =< d
  <2>. HIDE DEF chain
  <2>. QED BY <1>1, LowestLemma
<1>3. \A c \in chain :
        IF \E d \in chain : c < d
        THEN /\ NextCluster(link, c) \in chain /\ c < NextCluster(link, c)
             /\ \A d \in chain : c < d => NextCluster(link, c) =< d
        ELSE NextCluster(link, c) = Stop
  BY AllocatedLinks
<1>. HIDE DEF chain, link, start
<1>4. Chain(link, start) \subseteq chain
  BY <1>2, <1>3, ChainInClosed
<1>5. \A k \in 0 .. MapSize : w[k] \in chain => k =< w[k]
  <2>. DEFINE T == {k \in Nat : k =< MapSize =>
                      w[k] \in chain \cup {Stop} /\ (w[k] \in chain => k =< w[k])}
  <2>0. Stop \notin chain /\ NextCluster(link, Stop) = Stop
    <3>1. Stop \notin Cluster
      BY LowCluster
    <3>. QED BY <1>1, <3>1 DEF NextCluster
  <2>1. 0 \in T
    BY WalkSteps, <1>1, <1>2
  <2>2. \A k \in Nat : k \in T => k + 1 \in T
    <3>. SUFFICES ASSUME NEW k \in Nat, k \in T, k + 1 =< MapSize
                  PROVE  /\ w[k + 1] \in chain \cup {Stop}
                         /\ w[k + 1] \in chain => k + 1 =< w[k + 1]
      OBVIOUS
    <3>1. w[k] \in chain \cup {Stop} /\ (w[k] \in chain => k =< w[k])
      BY MapSizeNat
    <3>2. w[k + 1] = NextCluster(link, w[k])
      BY WalkSteps
    <3>. HIDE DEF w
    <3>3. CASE w[k] \in chain /\ \E d \in chain : w[k] < d
      <4>1. NextCluster(link, w[k]) \in chain /\ w[k] < NextCluster(link, w[k])
        BY <1>3, <3>3
      <4>2. w[k + 1] \in chain /\ w[k] < w[k + 1] /\ k =< w[k]
        BY <3>1, <3>2, <3>3, <4>1
      <4>3. w[k] \in Nat /\ w[k + 1] \in Nat
        BY <1>1, <3>3, <4>2
      <4>. QED BY <4>2, <4>3
    <3>4. CASE w[k] \in chain /\ ~\E d \in chain : w[k] < d
      BY <1>3, <2>0, <3>2, <3>4
    <3>5. CASE w[k] = Stop
      BY <2>0, <3>2, <3>5
    <3>. QED BY <3>1, <3>3, <3>4, <3>5
  <2>3. Nat \subseteq T
    <3>. HIDE DEF T
    <3>. QED BY <2>1, <2>2, NatInductionOnSets
  <2>. QED BY <2>3, MapSizeNat
<1>6. chain \subseteq Chain(link, start)
  <2>. DEFINE lost == chain \ Chain(link, start)
  <2>. SUFFICES ASSUME lost # {} PROVE FALSE
    OBVIOUS
  <2>1. PICK x \in lost : \A y \in lost : x =< y
    <3>1. lost \subseteq Nat
      BY <1>1
    <3>. HIDE DEF lost
    <3>. QED BY <3>1, NatLeast
  <2>2. start \in Chain(link, start)
    BY <1>1, <1>2, ChainStart
  <2>. DEFINE below == {d \in chain : d < x}
  <2>3. below \subseteq 0 .. x /\ start \in below /\ x \in Nat
    <3>1. x \in Nat /\ start \in Nat /\ \A d \in below : d \in Nat
      BY <1>1, <1>2, <2>1
    <3>2. start # x /\ start =< x
      BY <1>2, <2>1, <2>2
    <3>3. start \in below
      BY <1>2, <3>1, <3>2
    <3>4. \A d \in below : d \in 0 .. x
      BY <3>1
    <3>. QED BY <3>1, <3>3, <3>4
  <2>4. PICK p \in below : \A d \in below : d =< p
    <3>. HIDE DEF below
    <3>. QED BY <2>3, NatGreatest
  <2>5. p \in Chain(link, start)
    BY <1>1, <2>1, <2>4
  <2>6. NextCluster(link, p) = x
    <3>1. /\ NextCluster(link, p) \in chain /\ p < NextCluster(link, p)
          /\ NextCluster(link, p) =< x
      BY <1>3, <2>1, <2>4
    <3>2. NextCluster(link, p) \in Nat /\ p \in Nat /\ x \in Nat
      BY <1>1, <2>3, <3>1
    <3>3. ASSUME NextCluster(link, p) < x PROVE FALSE
      <4>1. NextCluster(link, p) \in below
        BY <3>1, <3>3
      <4>2. NextCluster(link, p) =< p
        BY <2>4, <4>1
      <4>. QED BY <3>1, <3>2, <4>2
    <3>. QED BY <3>1, <3>2, <3>3
  <2>7. PICK k \in 0 .. MapSize : p = w[k]
    BY <2>5 DEF Chain
  <2>8. k =< p /\ p < x /\ x < MapSize
    BY <1>1, <1>5, <2>1, <2>4, <2>7, MapSizeNat DEF Cluster
  <2>9. k + 1 =< MapSize /\ k \in Nat
    BY <1>1, <2>1, <2>4, <2>8, MapSizeNat
  <2>10. w[k + 1] = x
    BY <2>6, <2>7, <2>9, WalkSteps
  <2>11. x \in Chain(link, start)
    BY <1>1, <2>1, <2>9, <2>10, MapSizeNat DEF Chain
  <2>. QED BY <2>1, <2>11
<1>. QED BY <1>2, <1>4, <1>6 DEF chain, link, start

-----------------------------------------------------------------------------
(***************************************************************************)
(* The inductive invariant.  Apart and Accounted need each other: a free   *)
(* leaves the other chains alone because they are apart from the freed     *)
(* one, and an allocation takes no cluster of a chain because the block    *)
(* map states every cluster that holds a file.                             *)
(***************************************************************************)

Sound(st) ==
  /\ st \in FileSystem
  /\ ApartIn(st)
  /\ AccountedIn(st)
  /\ UniqueIn(st)
  /\ CachedIn(st)
  /\ RootHeldIn(st)
  /\ WithheldIn(st)

\* Entry k of st is entry j of st2, with its clusters and its bytes.
Carried(st, st2, k, j) ==
  /\ st2.dir[j] = st.dir[k]
  /\ ChainOf(st2, j) = ChainOf(st, k)
  /\ st2.data[st2.dir[j].name] = st.data[st.dir[k].name]

\* Every file of st2 was one of st.
Inherits(st, st2) == \A j \in Listed(st2) : \E k \in Listed(st) : Carried(st, st2, k, j)

\* What st keeps from allocation, st2 does too.
ReservedKept(st, st2) == \A c \in Cluster : st.map[c] = Reserved => st2.map[c] = Reserved

\* The fields of the object one by one.
LEMMA FileSystemFields ==
  ASSUME NEW st \in FileSystem
  PROVE  /\ st.map \in [Cluster -> LinkValue]
         /\ st.dir \in Seq(Entry) /\ Len(st.dir) \in Nat
         /\ st.data \in [Name -> Content \cup {NoContent}]
         /\ st.stated \in [Cluster -> {NotStated, Free, Unnamed}]
         /\ st.rootPlaced \in BOOLEAN /\ st.rootBlock \in Nat
         /\ st.rootOffset \in 0 .. Ratio - 1 /\ st.rootKept \in 1 .. Ratio
         /\ \A i \in Listed(st) : /\ st.dir[i] \in Entry
                                  /\ st.dir[i].name \in Name
                                  /\ st.dir[i].start \in Cluster
                                  /\ st.dir[i].length \in Nat
<1>1. /\ st.map \in [Cluster -> LinkValue]
      /\ st.dir \in Seq(Entry)
      /\ st.data \in [Name -> Content \cup {NoContent}]
      /\ st.stated \in [Cluster -> {NotStated, Free, Unnamed}]
      /\ st.rootPlaced \in BOOLEAN /\ st.rootBlock \in Nat
      /\ st.rootOffset \in 0 .. Ratio - 1 /\ st.rootKept \in 1 .. Ratio
  <2>. DEFINE maps == [Cluster -> LinkValue]
              dirs == Seq(Entry)
              caches == [Name -> Content \cup {NoContent}]
              values == [Cluster -> {NotStated, Free, Unnamed}]
              offsets == 0 .. Ratio - 1
              sizes == 1 .. Ratio
  <2>1. st \in [map : maps, dir : dirs, data : caches, stated : values,
                rootPlaced : BOOLEAN, rootBlock : Nat, rootOffset : offsets,
                rootKept : sizes]
    BY DEF FileSystem
  <2>. HIDE DEF maps, dirs, caches, values, offsets, sizes
  <2>2. /\ st.map \in maps /\ st.dir \in dirs /\ st.data \in caches
        /\ st.stated \in values /\ st.rootPlaced \in BOOLEAN
        /\ st.rootBlock \in Nat /\ st.rootOffset \in offsets
        /\ st.rootKept \in sizes
    BY <2>1
  <2>. QED BY <2>2 DEF maps, dirs, caches, values, offsets, sizes
<1>2. ASSUME NEW i \in Listed(st)
      PROVE  /\ st.dir[i] \in Entry
             /\ st.dir[i].name \in Name
             /\ st.dir[i].start \in Cluster
             /\ st.dir[i].length \in Nat
  <2>1. st.dir[i] \in Entry
    BY <1>1, ElementOfSeq DEF Listed
  <2>. QED BY <2>1 DEF Entry
<1>3. Len(st.dir) \in Nat
  BY <1>1, LenProperties
<1>. QED BY <1>1, <1>2, <1>3

LEMMA ChainOfSubset ==
  ASSUME NEW st, NEW i
  PROVE  ChainOf(st, i) \subseteq Cluster
BY ChainSubset DEF ChainOf

\* A cluster that holds a file is none of the special values.
LEMMA HoldsFileValue ==
  ASSUME NEW st, NEW c \in Cluster, HoldsFile(st, c)
  PROVE  /\ st.map[c] \notin {Free, Reserved, Table}
         /\ Low(st.map[c]) # Free
<1>1. Low(st.map[c]) \in Cluster \cup {EndOfChain}
  BY DEF HoldsFile
<1>2. /\ \A v \in Cluster \cup {EndOfChain} : v \notin {Free, Reserved, Table}
  BY LowCluster DEF EndOfChain, Free, Reserved, Table
<1>. QED BY <1>1, <1>2, LowCluster

\* A change of the map outside the files, in which no cluster begins to hold
\* one, leaves the files as they are.
LEMMA OffFiles ==
  ASSUME NEW st, Sound(st), NEW st2, st2 \in FileSystem,
         st2.dir = st.dir, st2.data = st.data,
         \A c \in Cluster : HoldsFile(st, c) => st2.map[c] = st.map[c],
         \A c \in Cluster : HoldsFile(st2, c) => HoldsFile(st, c)
  PROVE  /\ ApartIn(st2) /\ AccountedIn(st2) /\ UniqueIn(st2) /\ CachedIn(st2)
         /\ Inherits(st, st2)
<1>1. Listed(st2) = Listed(st)
  BY DEF Listed
<1>2. ASSUME NEW i \in Listed(st) PROVE ChainOf(st2, i) = ChainOf(st, i)
  <2>1. \A c \in ChainOf(st, i) : c \in Cluster /\ HoldsFile(st, c)
    BY ChainOfSubset DEF Sound, AccountedIn
  <2>2. \A c \in Chain(st.map, st.dir[i].start) : st.map[c] = st2.map[c]
    BY <2>1 DEF ChainOf
  <2>. QED BY <2>2, ChainAgree DEF ChainOf
<1>3. ApartIn(st2)
  BY <1>1, <1>2 DEF Sound, ApartIn
<1>4. AccountedIn(st2)
  <2>1. \A c \in Cluster : HoldsFile(st2, c) <=> HoldsFile(st, c)
    BY DEF HoldsFile
  <2>. QED BY <1>1, <1>2, <2>1 DEF Sound, AccountedIn
<1>5. UniqueIn(st2) /\ CachedIn(st2)
  BY <1>1 DEF Sound, UniqueIn, CachedIn
<1>6. Inherits(st, st2)
  BY <1>1, <1>2 DEF Inherits, Carried
<1>. QED BY <1>3, <1>4, <1>5, <1>6

\* st2 is st without the entries D and their chains; from tells which entry
\* each remaining one was.
Drops(st, st2, D, from) ==
  /\ D \subseteq Listed(st)
  /\ from \in [Listed(st2) -> Listed(st) \ D]
  /\ \A i, j \in Listed(st2) : from[i] = from[j] => i = j
  /\ \A k \in Listed(st) \ D : \E i \in Listed(st2) : from[i] = k
  /\ \A i \in Listed(st2) : st2.dir[i] = st.dir[from[i]]
  /\ \A i \in Listed(st2) : st2.data[st2.dir[i].name] = st.data[st2.dir[i].name]
  /\ \A c \in Cluster : st2.map[c] = IF \E j \in D : c \in ChainOf(st, j)
                                   THEN Free ELSE st.map[c]
  /\ st2.stated = st.stated /\ st2.rootPlaced = st.rootPlaced
  /\ st2.rootBlock = st.rootBlock /\ st2.rootOffset = st.rootOffset
  /\ st2.rootKept = st.rootKept

\* Dropping entries with their chains keeps the invariant.
LEMMA SoundWithout ==
  ASSUME NEW st, Sound(st), NEW st2, st2 \in FileSystem, NEW D, NEW from,
         Drops(st, st2, D, from)
  PROVE  /\ Sound(st2) /\ Inherits(st, st2) /\ ReservedKept(st, st2)
         /\ \A k \in Listed(st) \ D : \E j \in Listed(st2) : Carried(st, st2, k, j)
<1>. USE DEF Drops
<1>. DEFINE freed == UNION {ChainOf(st, j) : j \in D}
<1>1. \A c \in freed : c \in Cluster /\ HoldsFile(st, c)
  BY ChainOfSubset DEF Sound, AccountedIn
<1>2. \A c \in Cluster : st2.map[c] = IF c \in freed THEN Free ELSE st.map[c]
  OBVIOUS
<1>. HIDE DEF freed
<1>3. ASSUME NEW i \in Listed(st2) PROVE ChainOf(st2, i) = ChainOf(st, from[i])
  <2>1. \A c \in ChainOf(st, from[i]) : c \notin freed
    BY DEF Sound, ApartIn, freed
  <2>2. \A c \in Chain(st.map, st.dir[from[i]].start) : st.map[c] = st2.map[c]
    BY <1>2, <2>1, ChainOfSubset DEF ChainOf
  <2>. QED BY <2>2, ChainAgree DEF ChainOf
<1>4. ApartIn(st2)
  BY <1>3 DEF Sound, ApartIn
<1>5. AccountedIn(st2)
  <2>. SUFFICES ASSUME NEW c \in Cluster
                PROVE  HoldsFile(st2, c) <=> \E i \in Listed(st2) : c \in ChainOf(st2, i)
    BY DEF AccountedIn
  <2>1. HoldsFile(st, c) <=> \E i \in Listed(st) : c \in ChainOf(st, i)
    BY DEF Sound, AccountedIn
  <2>2. CASE c \in freed
    <3>1. ~HoldsFile(st2, c)
      BY <1>2, <2>2, LowCluster DEF HoldsFile, EndOfChain, Free
    <3>2. \A i \in Listed(st2) : c \notin ChainOf(st, from[i])
      BY <2>2 DEF Sound, ApartIn, freed
    <3>. QED BY <1>3, <3>1, <3>2
  <2>3. CASE c \notin freed
    <3>1. HoldsFile(st2, c) <=> HoldsFile(st, c)
      BY <1>2, <2>3 DEF HoldsFile
    <3>2. \A k \in D : c \notin ChainOf(st, k)
      BY <2>3 DEF freed
    <3>. QED BY <1>3, <2>1, <3>1, <3>2
  <2>. QED BY <2>2, <2>3
<1>6. UniqueIn(st2)
  BY DEF Sound, UniqueIn
<1>7. CachedIn(st2)
  BY DEF Sound, CachedIn
<1>8. \A c \in freed : st.map[c] \notin {Free, Reserved, Table}
  BY <1>1, HoldsFileValue
<1>9. RootHeldIn(st2)
  <2>1. RootFirst(st2) = RootFirst(st) /\ RootClusters(st2) = RootClusters(st)
    BY DEF RootFirst, RootClusters
  <2>2. \A c \in Cluster : st2.map[c] = Table <=> st.map[c] = Table
    BY <1>2, <1>8 DEF Free, Table
  <2>3. \A c \in RootClusters(st) : c \in Cluster
    BY DEF RootClusters
  <2>4. \A c \in RootClusters(st) : st2.map[c] = st.map[c]
    BY <1>2, <1>8, <2>3 DEF Sound, RootHeldIn
  <2>. QED BY <2>1, <2>2, <2>4 DEF Sound, RootHeldIn
<1>10. WithheldIn(st2)
  BY <1>2, <1>8 DEF Sound, WithheldIn
<1>11. \A i \in Listed(st2) : Carried(st, st2, from[i], i)
  BY <1>3 DEF Carried
<1>12. Inherits(st, st2) /\ ReservedKept(st, st2)
  BY <1>2, <1>8, <1>11 DEF Inherits, ReservedKept
<1>13. \A k \in Listed(st) \ D : \E j \in Listed(st2) : Carried(st, st2, k, j)
  BY <1>11
<1>. QED BY <1>4, <1>5, <1>6, <1>7, <1>9, <1>10, <1>12, <1>13 DEF Sound

\* find_entry finds an entry exactly when one matches.
LEMMA FindEntryFacts ==
  ASSUME NEW st \in FileSystem, NEW n
  PROVE  /\ Exists(st, n) => /\ FindEntry(st, n) \in Listed(st)
                             /\ Matches(st.dir[FindEntry(st, n)].name, n)
         /\ ~Exists(st, n) => \A i \in Listed(st) : ~Matches(st.dir[i].name, n)
<1>. DEFINE hits == {i \in 1 .. Len(st.dir) : Matches(st.dir[i].name, n)}
<1>1. hits \subseteq Nat /\ 0 \notin hits
  BY FileSystemFields
<1>2. FindEntry(st, n) = IF hits = {} THEN 0 ELSE Lowest(hits)
  BY DEF FindEntry
<1>3. hits # {} => Lowest(hits) \in hits
  <2>. HIDE DEF hits
  <2>. QED BY <1>1, LowestLemma
<1>4. Exists(st, n) <=> hits # {}
  <2>. HIDE DEF hits
  <2>. QED BY <1>1, <1>2, <1>3 DEF Exists
<1>. QED BY <1>2, <1>3, <1>4 DEF Listed

LEMMA WithoutIndexFacts ==
  ASSUME NEW S, NEW seq \in Seq(S), NEW i \in 1 .. Len(seq)
  PROVE  /\ WithoutIndex(seq, i) \in Seq(S)
         /\ Len(WithoutIndex(seq, i)) = Len(seq) - 1
         /\ \A k \in 1 .. Len(seq) - 1 :
              WithoutIndex(seq, i)[k] = IF k < i THEN seq[k] ELSE seq[k + 1]
<1>. DEFINE front == SubSeq(seq, 1, i - 1)
            back  == SubSeq(seq, i + 1, Len(seq))
<1>0. Len(seq) \in Nat /\ \A k \in 1 .. Len(seq) : seq[k] \in S
  BY LenProperties, ElementOfSeq
<1>1. /\ front \in Seq(S) /\ Len(front) = i - 1
      /\ \A k \in 1 .. i - 1 : front[k] = seq[k]
  <2>1. i - 1 \in Int /\ 1 \in Int /\ \A k \in 1 .. i - 1 : seq[k] \in S
    BY <1>0
  <2>2. /\ front \in Seq(S)
        /\ Len(front) = IF 1 <= i - 1 THEN (i - 1) - 1 + 1 ELSE 0
        /\ \A k \in 1 .. (i - 1) - 1 + 1 : front[k] = seq[1 + k - 1]
    BY <2>1, SubSeqProperties
  <2>. HIDE DEF front
  <2>. QED BY <1>0, <2>2
<1>2. /\ back \in Seq(S) /\ Len(back) = Len(seq) - i
      /\ \A k \in 1 .. Len(seq) - i : back[k] = seq[i + k]
  <2>1. i + 1 \in Int /\ Len(seq) \in Int /\ \A k \in i + 1 .. Len(seq) : seq[k] \in S
    BY <1>0
  <2>2. /\ back \in Seq(S)
        /\ Len(back) = IF i + 1 <= Len(seq) THEN Len(seq) - (i + 1) + 1 ELSE 0
        /\ \A k \in 1 .. Len(seq) - (i + 1) + 1 : back[k] = seq[(i + 1) + k - 1]
    BY <2>1, SubSeqProperties
  <2>3. \A k \in Int : (i + 1) + k - 1 = i + k
    BY <1>0
  <2>. HIDE DEF back
  <2>. QED BY <1>0, <2>2, <2>3
<1>3. WithoutIndex(seq, i) = front \o back
  BY DEF WithoutIndex
<1>. HIDE DEF front, back
<1>4. /\ front \o back \in Seq(S)
      /\ Len(front \o back) = Len(front) + Len(back)
      /\ \A k \in 1 .. Len(front) + Len(back) :
           (front \o back)[k] = IF k <= Len(front) THEN front[k] ELSE back[k - Len(front)]
  BY <1>1, <1>2, ConcatProperties
<1>5. Len(front) + Len(back) = Len(seq) - 1
  BY <1>0, <1>1, <1>2
<1>6. ASSUME NEW k \in 1 .. Len(seq) - 1
      PROVE  (front \o back)[k] = IF k < i THEN seq[k] ELSE seq[k + 1]
  <2>1. CASE k < i
    BY <1>0, <1>1, <1>4, <1>5, <2>1
  <2>2. CASE ~(k < i)
    <3>1. k - (i - 1) \in 1 .. Len(seq) - i /\ i + (k - (i - 1)) = k + 1
      BY <1>0, <2>2
    <3>2. (front \o back)[k] = back[k - (i - 1)]
      BY <1>0, <1>1, <1>4, <1>5, <2>2
    <3>. QED BY <1>2, <2>2, <3>1, <3>2
  <2>. QED BY <2>1, <2>2
<1>. QED BY <1>3, <1>4, <1>5, <1>6

LEMMA LinkValues ==
  /\ Free \in LinkValue /\ EndOfChain \in LinkValue
  /\ Reserved \in LinkValue /\ Table \in LinkValue
  /\ Cluster \subseteq LinkValue
<1>0. LinkLimit \in Nat /\ LinkLimit > 8191
  BY DEF LinkLimit
<1>1. \A c \in Cluster : c \in LinkValue
  <2>1. \A c \in Nat : c < 4096 => c \in LinkValue
    BY <1>0 DEF LinkValue
  <2>. QED BY <2>1, LowCluster
<1>. QED BY <1>0, <1>1 DEF Free, EndOfChain, Reserved, Table, LinkValue

LEMMA FreedType ==
  ASSUME NEW map \in [Cluster -> LinkValue], NEW S
  PROVE  Freed(map, S) \in [Cluster -> LinkValue]
BY LinkValues DEF Freed

\* Deleting a listed file keeps the invariant, and no entry matches its name
\* afterwards.
LEMMA SoundDeleted ==
  ASSUME NEW st, Sound(st), NEW n \in Name, Exists(st, n)
  PROVE  /\ Sound(Deleted(st, n))
         /\ \A i \in Listed(Deleted(st, n)) : ~Matches(Deleted(st, n).dir[i].name, n)
         /\ Inherits(st, Deleted(st, n)) /\ ReservedKept(st, Deleted(st, n))
         /\ \A k \in Listed(st) : ~Matches(st.dir[k].name, n) =>
              \E j \in Listed(Deleted(st, n)) : Carried(st, Deleted(st, n), k, j)
<1>. DEFINE i   == FindEntry(st, n)
            st2 == Deleted(st, n)
            from == [k \in Listed(st2) |-> IF k < i THEN k ELSE k + 1]
<1>0. st \in FileSystem
  BY DEF Sound
<1>1. i \in Listed(st) /\ Matches(st.dir[i].name, n)
  BY <1>0, FindEntryFacts
<1>2. Len(st.dir) \in Nat /\ st.dir \in Seq(Entry)
  BY <1>0, FileSystemFields
<1>3. /\ st2.map = Freed(st.map, ChainOf(st, i))
      /\ st2.data = [st.data EXCEPT ![n] = NoContent]
      /\ st2.dir = WithoutIndex(st.dir, i)
      /\ st2.stated = st.stated /\ st2.rootPlaced = st.rootPlaced
      /\ st2.rootBlock = st.rootBlock /\ st2.rootOffset = st.rootOffset
      /\ st2.rootKept = st.rootKept
  BY <1>0 DEF Deleted, FileSystem
<1>4. /\ st2.dir \in Seq(Entry) /\ Len(st2.dir) = Len(st.dir) - 1
      /\ \A k \in 1 .. Len(st.dir) - 1 :
           st2.dir[k] = IF k < i THEN st.dir[k] ELSE st.dir[k + 1]
  <2>1. i \in 1 .. Len(st.dir)
    BY <1>1 DEF Listed
  <2>. HIDE DEF i, st2
  <2>. QED BY <1>2, <1>3, <2>1, WithoutIndexFacts
<1>5. st2 \in FileSystem
  <2>1. st2.map \in [Cluster -> LinkValue]
    BY <1>0, <1>3, FileSystemFields, FreedType
  <2>2. st2.data \in [Name -> Content \cup {NoContent}]
    BY <1>0, <1>3, FileSystemFields
  <2>. QED BY <1>0, <1>3, <1>4, <2>1, <2>2 DEF FileSystem, Deleted
<1>. HIDE DEF i, st2
<1>6. /\ from \in [Listed(st2) -> Listed(st) \ {i}]
      /\ \A k \in Listed(st2) : st2.dir[k] = st.dir[from[k]]
  BY <1>1, <1>2, <1>4 DEF Listed
<1>7. \A j, k \in Listed(st2) : from[j] = from[k] => j = k
  BY <1>1, <1>2, <1>4 DEF Listed
<1>8. ASSUME NEW k \in Listed(st) \ {i} PROVE \E j \in Listed(st2) : from[j] = k
  <2>1. CASE k < i
    BY <1>1, <1>2, <1>4, <2>1 DEF Listed
  <2>2. CASE ~(k < i)
    <3>1. k - 1 \in Listed(st2) /\ ~(k - 1 < i) /\ (k - 1) + 1 = k
      BY <1>1, <1>2, <1>4, <2>2 DEF Listed
    <3>. QED BY <3>1
  <2>. QED BY <2>1, <2>2
<1>. HIDE DEF from
<1>9. \A k \in Listed(st2) : ~Matches(st2.dir[k].name, n)
  BY <1>1, <1>6 DEF Sound, UniqueIn, Matches
<1>10. \A k \in Listed(st2) : st2.data[st2.dir[k].name] = st.data[st2.dir[k].name]
  <2>1. \A k \in Listed(st2) : st2.dir[k].name # n /\ st2.dir[k].name \in Name
    BY <1>5, <1>9, FileSystemFields DEF Matches
  <2>. QED BY <1>0, <1>3, <2>1, FileSystemFields
<1>11. /\ Sound(st2) /\ Inherits(st, st2) /\ ReservedKept(st, st2)
       /\ \A k \in Listed(st) \ {i} : \E j \in Listed(st2) : Carried(st, st2, k, j)
  <2>. DEFINE D == {i}
  <2>1. D \subseteq Listed(st)
    BY <1>1
  <2>2. /\ from \in [Listed(st2) -> Listed(st) \ D]
        /\ \A k \in Listed(st) \ D : \E j \in Listed(st2) : from[j] = k
        /\ \A c \in Cluster : st2.map[c] = IF \E j \in D : c \in ChainOf(st, j)
                                         THEN Free ELSE st.map[c]
    BY <1>3, <1>6, <1>8 DEF Freed
  <2>. HIDE DEF D
  <2>3. Drops(st, st2, D, from)
    BY <1>3, <1>6, <1>7, <1>10, <2>1, <2>2 DEF Drops
  <2>. QED BY <1>5, <2>3, SoundWithout DEF D
<1>12. \A k \in Listed(st) : ~Matches(st.dir[k].name, n) => k # i
  BY <1>1
<1>. QED BY <1>9, <1>11, <1>12 DEF st2

\* Laying a new file on free clusters keeps the invariant.
LEMMA SoundLaid ==
  ASSUME NEW st, Sound(st), NEW n \in Name, NEW d \in Content,
         \A i \in Listed(st) : ~Matches(st.dir[i].name, n),
         FreeClusters(st.map) # {}
  PROVE  LET st2  == Laid(st, n, d)
             size == Len(st.dir)
         IN  /\ Sound(st2) /\ ReservedKept(st, st2)
             /\ \A i \in Listed(st) : Carried(st, st2, i, i)
             /\ Listed(st2) = Listed(st) \cup {size + 1}
             /\ st2.dir[size + 1].name = n /\ st2.dir[size + 1].length = Length[d]
             /\ ChainOf(st2, size + 1) = LowestFree(st.map, ClustersNeeded(Length[d]))
<1>. DEFINE need  == ClustersNeeded(Length[d])
            chain == LowestFree(st.map, need)
            start == Lowest(chain)
            link  == Allocated(st.map, need)
            entry == [name |-> n, start |-> start, length |-> Length[d]]
            st2   == Laid(st, n, d)
            size  == Len(st.dir)
<1>0. st \in FileSystem
  BY DEF Sound
<1>1. Length[d] \in Nat /\ need \in Nat /\ need > 0
  BY ContentAssumption, NeedsOne
<1>2. chain \subseteq Cluster /\ chain \subseteq FreeClusters(st.map) /\ start \in chain
  BY <1>1, LowestFreeNonempty, AllocatedChain
<1>3. Chain(link, start) = chain
  BY <1>1, AllocatedChain
<1>4. /\ \A c \in Cluster \ chain : link[c] = st.map[c]
      /\ \A c \in chain : link[c] \in Cluster \cup {EndOfChain}
      /\ link \in [Cluster -> {st.map[c] : c \in Cluster} \cup Cluster \cup {EndOfChain}]
  <2>1. /\ \A c \in Cluster \ chain : link[c] = st.map[c]
        /\ \A c \in chain : link[c] \in chain \/ link[c] = EndOfChain
        /\ link \in [Cluster -> {st.map[c] : c \in Cluster} \cup Cluster \cup {EndOfChain}]
    <3>1. /\ \A c \in Cluster \ chain : link[c] = st.map[c]
          /\ \A c \in chain :
               IF \E x \in chain : c < x
               THEN /\ link[c] = Lowest({x \in chain : c < x})
                    /\ link[c] \in chain /\ c < link[c]
                    /\ \A x \in chain : c < x => link[c] =< x
                    /\ NextCluster(link, c) = link[c]
               ELSE link[c] = EndOfChain /\ NextCluster(link, c) = Stop
          /\ link \in [Cluster -> {st.map[c] : c \in Cluster} \cup Cluster \cup {EndOfChain}]
      <4>. HIDE DEF need
      <4>. QED BY <1>1, AllocatedLinks
    <3>. HIDE DEF chain, link
    <3>. QED BY <3>1
  <2>. HIDE DEF chain, link
  <2>. QED BY <1>2, <2>1
<1>5. /\ st2.map = link /\ st2.data = [st.data EXCEPT ![n] = d]
      /\ st2.dir = Append(st.dir, entry)
      /\ st2.stated = st.stated /\ st2.rootPlaced = st.rootPlaced
      /\ st2.rootBlock = st.rootBlock /\ st2.rootOffset = st.rootOffset
      /\ st2.rootKept = st.rootKept
  BY <1>0 DEF Laid, FileSystem
<1>6. entry \in Entry
  BY <1>1, <1>2 DEF Entry
<1>. HIDE DEF need, chain, start, link
<1>7. /\ size \in Nat /\ st2.dir \in Seq(Entry) /\ Len(st2.dir) = size + 1
      /\ Listed(st) = 1 .. size /\ Listed(st2) = 1 .. size + 1
      /\ st2.dir[size + 1] = entry
      /\ \A i \in Listed(st) : st2.dir[i] = st.dir[i]
  BY <1>0, <1>5, <1>6, FileSystemFields DEF Listed
<1>8. st2 \in FileSystem
  <2>1. link \in [Cluster -> LinkValue]
    <3>1. \A c \in Cluster : st.map[c] \in LinkValue
      BY <1>0, FileSystemFields
    <3>2. \A c \in Cluster : link[c] \in LinkValue
      BY <1>2, <1>4, <3>1, LinkValues
    <3>. QED BY <1>4, <3>2
  <2>2. st2.data \in [Name -> Content \cup {NoContent}]
    BY <1>0, <1>5, FileSystemFields
  <2>. QED BY <1>0, <1>5, <1>7, <2>1, <2>2 DEF FileSystem, Laid
<1>. HIDE DEF st2, entry, size
<1>9. \A c \in chain : Low(st.map[c]) = Free /\ ~HoldsFile(st, c)
  BY <1>2, HoldsFileValue DEF FreeClusters
<1>10. \A c \in Cluster : HoldsFile(st2, c) <=> HoldsFile(st, c) \/ c \in chain
  <2>1. \A c \in chain : HoldsFile(st2, c)
    BY <1>4, <1>5, LowCluster DEF HoldsFile
  <2>2. \A c \in Cluster \ chain : HoldsFile(st2, c) <=> HoldsFile(st, c)
    BY <1>4, <1>5 DEF HoldsFile
  <2>. QED BY <2>1, <2>2
<1>11. ASSUME NEW i \in Listed(st)
       PROVE  ChainOf(st2, i) = ChainOf(st, i) /\ ChainOf(st, i) \cap chain = {}
  <2>1. \A c \in ChainOf(st, i) : c \in Cluster /\ HoldsFile(st, c)
    BY ChainOfSubset DEF Sound, AccountedIn
  <2>2. ChainOf(st, i) \cap chain = {}
    BY <1>9, <2>1
  <2>3. \A c \in Chain(st.map, st.dir[i].start) : st.map[c] = st2.map[c]
    BY <1>4, <1>5, <2>1, <2>2 DEF ChainOf
  <2>4. st2.dir[i] = st.dir[i]
    BY <1>7
  <2>. QED BY <2>2, <2>3, <2>4, ChainAgree DEF ChainOf
<1>12. ChainOf(st2, size + 1) = chain
  BY <1>3, <1>5, <1>7 DEF ChainOf, entry
<1>13. ASSUME NEW i \in Listed(st2) PROVE i \in Listed(st) \/ i = size + 1
  BY <1>7
<1>14. ApartIn(st2)
  BY <1>11, <1>12, <1>13 DEF Sound, ApartIn
<1>15. AccountedIn(st2)
  <2>. SUFFICES ASSUME NEW c \in Cluster
                PROVE  HoldsFile(st2, c) <=> \E i \in Listed(st2) : c \in ChainOf(st2, i)
    BY DEF AccountedIn
  <2>1. HoldsFile(st, c) <=> \E i \in Listed(st) : c \in ChainOf(st, i)
    BY DEF Sound, AccountedIn
  <2>2. size + 1 \in Listed(st2) /\ \A i \in Listed(st) : i \in Listed(st2)
    BY <1>7
  <2>. QED BY <1>10, <1>11, <1>12, <1>13, <2>1, <2>2
<1>16. UniqueIn(st2)
  BY <1>7, <1>13 DEF Sound, UniqueIn, Matches, entry
<1>17. CachedIn(st2)
  <2>1. \A i \in Listed(st) : st.dir[i].name \in Name /\ st.dir[i].name # n
    BY <1>0, FileSystemFields DEF Matches
  <2>2. \A x \in Name : st2.data[x] = IF x = n THEN d ELSE st.data[x]
    BY <1>0, <1>5, FileSystemFields
  <2>3. d # NoContent
    BY ContentAssumption
  <2>. QED BY <1>7, <1>13, <2>1, <2>2, <2>3 DEF Sound, CachedIn, entry
<1>18. \A c \in chain : st.map[c] \notin {Table, Reserved} /\ st2.map[c] # Table
  BY <1>4, <1>5, <1>9, LowCluster DEF Free, Table, Reserved, EndOfChain
<1>19. RootHeldIn(st2)
  <2>1. RootFirst(st2) = RootFirst(st) /\ RootClusters(st2) = RootClusters(st)
    BY <1>5 DEF RootFirst, RootClusters
  <2>2. \A c \in Cluster : st2.map[c] = Table <=> st.map[c] = Table
    BY <1>4, <1>5, <1>18
  <2>3. \A c \in RootClusters(st) : c \in Cluster
    BY DEF RootClusters
  <2>4. \A c \in RootClusters(st) : st2.map[c] = st.map[c]
    BY <1>4, <1>5, <1>18, <2>3 DEF Sound, RootHeldIn
  <2>. QED BY <1>5, <2>1, <2>2, <2>4 DEF Sound, RootHeldIn
<1>20. WithheldIn(st2)
  BY <1>4, <1>5, <1>18 DEF Sound, WithheldIn
<1>21. Sound(st2)
  BY <1>8, <1>14, <1>15, <1>16, <1>17, <1>19, <1>20 DEF Sound
<1>22. \A i \in Listed(st) : Carried(st, st2, i, i)
  <2>1. \A i \in Listed(st) : st.dir[i].name \in Name /\ st.dir[i].name # n
    BY <1>0, FileSystemFields DEF Matches
  <2>2. \A x \in Name : x # n => st2.data[x] = st.data[x]
    BY <1>0, <1>5, FileSystemFields
  <2>. QED BY <1>7, <1>11, <2>1, <2>2 DEF Carried
<1>23. ReservedKept(st, st2)
  BY <1>4, <1>5, <1>18 DEF ReservedKept
<1>24. Listed(st2) = Listed(st) \cup {size + 1}
  BY <1>7
<1>25. /\ st2.dir[size + 1].name = n /\ st2.dir[size + 1].length = Length[d]
       /\ ChainOf(st2, size + 1) = LowestFree(st.map, ClustersNeeded(Length[d]))
  BY <1>7, <1>12 DEF entry, chain, need
<1>. QED BY <1>21, <1>22, <1>23, <1>24, <1>25 DEF st2, size

\* add_file keeps the invariant whether it succeeds or not.
LEMMA SoundAdd ==
  ASSUME NEW st, Sound(st), NEW n \in Name, NEW d \in Content
  PROVE  Sound(AddResult(st, n, d).fs) /\ AddResult(st, n, d).code \in Codes
<1>. DEFINE room == Dropped(st, n)
            need == ClustersNeeded(Length[d])
<1>0. st \in FileSystem /\ need \in Nat /\ need > 0
  BY ContentAssumption, NeedsOne DEF Sound
<1>1. Sound(room) /\ \A i \in Listed(room) : ~Matches(room.dir[i].name, n)
  <2>1. CASE Exists(st, n)
    BY <2>1, SoundDeleted DEF Dropped
  <2>2. CASE ~Exists(st, n)
    BY <1>0, <2>2, FindEntryFacts DEF Dropped
  <2>. QED BY <2>1, <2>2
<1>2. ASSUME ~(Cardinality(FreeClusters(room.map)) < need)
      PROVE  Sound(Laid(room, n, d))
  <2>1. FreeClusters(room.map) # {}
    BY <1>0, <1>2, FS_EmptySet
  <2>. HIDE DEF room
  <2>. QED BY <1>1, <2>1, SoundLaid
<1>. HIDE DEF room, need
<1>. QED BY <1>1, <1>2 DEF AddResult, Codes, room, need

-----------------------------------------------------------------------------
(***************************************************************************)
(* insert_file: lift the entries from a position on, lay them again.       *)
(***************************************************************************)

\* Adding files one after the other keeps the invariant, also when one of them
\* is refused and the rest is not added.
LEMMA SoundAddedInOrder ==
  ASSUME NEW st, Sound(st), NEW files, Len(files) \in Nat,
         \A k \in 1 .. Len(files) : files[k].name \in Name /\ files[k].content \in Content
  PROVE  Sound(AddedInOrder(st, files).fs) /\ AddedInOrder(st, files).code \in Codes
<1>. DEFINE N == Len(files)
            First == [code |-> "ok", fs |-> st]
            After(before, k) == IF before.code # "ok" THEN before
                                ELSE AddResult(before.fs, files[k].name, files[k].content)
            Rec(f, n) == f = [k \in 0 .. n |-> IF k = 0 THEN First ELSE After(f[k - 1], k)]
            T == {n \in Nat : \E f : Rec(f, n)}
            Good(r) == Sound(r.fs) /\ r.code \in Codes
<1>1. Good(First)
  BY DEF Codes
<1>2. ASSUME NEW before, Good(before), NEW k \in 1 .. N PROVE Good(After(before, k))
  <2>1. CASE before.code # "ok"
    BY <1>2, <2>1
  <2>2. CASE before.code = "ok"
    <3>1. files[k].name \in Name /\ files[k].content \in Content
      OBVIOUS
    <3>2. Good(AddResult(before.fs, files[k].name, files[k].content))
      BY <1>2, <3>1, SoundAdd
    <3>. QED BY <2>2, <3>2
  <2>. QED BY <2>1, <2>2
<1>. HIDE DEF First, After, Good
<1>3. 0 \in T
  <2>. DEFINE f0 == [k \in 0 .. 0 |-> First]
  <2>1. f0 = [k \in 0 .. 0 |-> IF k = 0 THEN First ELSE After(f0[k - 1], k)]
    OBVIOUS
  <2>. QED BY <2>1
<1>4. ASSUME NEW n \in Nat, n \in T PROVE n + 1 \in T
  <2>1. PICK f : Rec(f, n)
    BY <1>4
  <2>. DEFINE g == [k \in 0 .. n + 1 |-> IF k =< n THEN f[k] ELSE After(f[n], n + 1)]
  <2>2. \A k \in 0 .. n : g[k] = f[k]
    OBVIOUS
  <2>3. \A k \in 0 .. n + 1 : g[k] = IF k = 0 THEN First ELSE After(g[k - 1], k)
    <3>. TAKE k \in 0 .. n + 1
    <3>1. CASE k = 0
      BY <2>1, <2>2, <3>1
    <3>2. CASE k # 0 /\ k =< n
      BY <2>1, <2>2, <3>2
    <3>3. CASE k = n + 1
      BY <2>2, <3>3
    <3>. QED BY <3>1, <3>2, <3>3
  <2>4. \E h : Rec(h, n + 1)
    <3>1. Rec(g, n + 1)
      BY <2>3
    <3>. HIDE DEF g
    <3>. QED BY <3>1
  <2>. HIDE DEF Rec
  <2>. QED BY <2>4
<1>5. N \in T
  <2>. HIDE DEF T
  <2>. QED BY <1>3, <1>4, NatInductionOnSets
<1>. DEFINE laid == CHOOSE f : Rec(f, N)
<1>6. Rec(laid, N)
  <2>1. \E f : Rec(f, N)
    <3>. HIDE DEF Rec
    <3>. QED BY <1>5
  <2>. HIDE DEF Rec
  <2>. QED BY <2>1
<1>7. AddedInOrder(st, files) = laid[N]
  BY DEF AddedInOrder, Rec, First, After
<1>. HIDE DEF laid
<1>. DEFINE U == {n \in Nat : n =< N => Good(laid[n])}
<1>8. N \in U
  <2>1. 0 \in U
    BY <1>1, <1>6
  <2>2. ASSUME NEW n \in Nat, n \in U PROVE n + 1 \in U
    <3>. SUFFICES ASSUME n + 1 =< N PROVE Good(laid[n + 1])
      OBVIOUS
    <3>1. Good(laid[n])
      BY <2>2
    <3>2. n + 1 \in 0 .. N /\ n + 1 # 0 /\ (n + 1) - 1 = n /\ n + 1 \in 1 .. N
      OBVIOUS
    <3>3. laid[n + 1] = After(laid[n], n + 1)
      BY <1>6, <3>2
    <3>. QED BY <1>2, <3>1, <3>2, <3>3
  <2>. HIDE DEF U
  <2>. QED BY <2>1, <2>2, NatInductionOnSets
<1>9. Good(laid[N])
  BY <1>8
<1>. QED BY <1>7, <1>9 DEF Good

\* The files behind the insert position, lifted off the map, leave a sound rest.
LEMMA SoundLifted ==
  ASSUME NEW st, Sound(st), NEW first \in 1 .. Len(st.dir) + 1
  PROVE  LET st2 == [LiftedUpTo(st, first, Len(st.dir), Len(st.dir))
                       EXCEPT !.dir = SubSeq(@, 1, first - 1)]
         IN  /\ Sound(st2) /\ Inherits(st, st2) /\ ReservedKept(st, st2)
             /\ Listed(st2) = 1 .. first - 1
             /\ \A i \in Listed(st2) : Carried(st, st2, i, i)
             /\ st2.map = Freed(st.map, UNION {ChainOf(st, j) : j \in first .. Len(st.dir)})
<1>. DEFINE size == Len(st.dir)
            lift == LiftedUpTo(st, first, size, size)
            st2  == [lift EXCEPT !.dir = SubSeq(@, 1, first - 1)]
            D    == first .. size
            freed == UNION {ChainOf(st, j) : j \in D}
            from == [i \in Listed(st2) |-> i]
            cache == [x \in Name |-> IF \E j \in first .. size : st.dir[j].name = x
                                     THEN NoContent ELSE st.data[x]]
<1>0. st \in FileSystem /\ size \in Nat /\ st.dir \in Seq(Entry)
  BY FileSystemFields DEF Sound
<1>1. /\ lift.map = Freed(st.map, freed) /\ lift.data = cache
      /\ lift.dir = st.dir
      /\ lift.stated = st.stated /\ lift.rootPlaced = st.rootPlaced
      /\ lift.rootBlock = st.rootBlock /\ lift.rootOffset = st.rootOffset
      /\ lift.rootKept = st.rootKept
  BY <1>0 DEF LiftedUpTo, FileSystem
<1>2. lift \in FileSystem
  <2>1. Freed(st.map, freed) \in [Cluster -> LinkValue]
    BY <1>0, FileSystemFields, FreedType
  <2>2. cache \in [Name -> Content \cup {NoContent}]
    BY <1>0, FileSystemFields
  <2>. HIDE DEF freed, cache
  <2>. QED BY <1>0, <2>1, <2>2 DEF FileSystem, LiftedUpTo, freed, cache
<1>. HIDE DEF lift
<1>3. /\ st2.map = Freed(st.map, freed) /\ st2.data = cache
      /\ st2.dir = SubSeq(st.dir, 1, first - 1)
      /\ st2.stated = st.stated /\ st2.rootPlaced = st.rootPlaced
      /\ st2.rootBlock = st.rootBlock /\ st2.rootOffset = st.rootOffset
      /\ st2.rootKept = st.rootKept
  BY <1>1, <1>2 DEF FileSystem
<1>4. /\ st2.dir \in Seq(Entry) /\ Len(st2.dir) = first - 1
      /\ \A i \in 1 .. first - 1 : st2.dir[i] = st.dir[i]
  <2>1. 1 \in Int /\ first - 1 \in Int /\ \A k \in 1 .. first - 1 : st.dir[k] \in Entry
    BY <1>0, ElementOfSeq
  <2>2. LET front == SubSeq(st.dir, 1, first - 1)
        IN  /\ front \in Seq(Entry)
            /\ Len(front) = IF 1 <= first - 1 THEN (first - 1) - 1 + 1 ELSE 0
            /\ \A k \in 1 .. (first - 1) - 1 + 1 : front[k] = st.dir[1 + k - 1]
    BY <2>1, SubSeqProperties
  <2>. HIDE DEF st2
  <2>. QED BY <1>0, <1>3, <2>2
<1>5. st2 \in FileSystem
  BY <1>1, <1>2, <1>4 DEF FileSystem
<1>. HIDE DEF st2
<1>6. Listed(st) = 1 .. size /\ Listed(st2) = 1 .. first - 1
  BY <1>4 DEF Listed
<1>7. /\ D \subseteq Listed(st)
      /\ from \in [Listed(st2) -> Listed(st) \ D]
      /\ \A i, j \in Listed(st2) : from[i] = from[j] => i = j
      /\ \A k \in Listed(st) \ D : \E i \in Listed(st2) : from[i] = k
      /\ \A i \in Listed(st2) : st2.dir[i] = st.dir[from[i]]
  BY <1>0, <1>4, <1>6
<1>8. \A i \in Listed(st2) : st2.data[st2.dir[i].name] = st.data[st2.dir[i].name]
  <2>. SUFFICES ASSUME NEW i \in Listed(st2)
                PROVE  st2.data[st2.dir[i].name] = st.data[st2.dir[i].name]
    OBVIOUS
  <2>1. i \in Listed(st) /\ i \notin D /\ st2.dir[i] = st.dir[i] /\ st.dir[i].name \in Name
    BY <1>0, <1>4, <1>6, FileSystemFields
  <2>2. ASSUME NEW j \in first .. size PROVE st.dir[j].name # st.dir[i].name
    BY <1>6, <1>7, <2>1 DEF Sound, UniqueIn, Matches
  <2>3. cache[st.dir[i].name] = st.data[st.dir[i].name]
    BY <2>1, <2>2
  <2>. HIDE DEF cache
  <2>. QED BY <1>3, <2>1, <2>3
<1>9. \A c \in Cluster : st2.map[c] = IF \E j \in D : c \in ChainOf(st, j)
                                    THEN Free ELSE st.map[c]
  BY <1>3 DEF Freed
<1>. HIDE DEF D, from
<1>10. Drops(st, st2, D, from)
  BY <1>3, <1>7, <1>8, <1>9 DEF Drops
<1>11. Sound(st2) /\ Inherits(st, st2) /\ ReservedKept(st, st2)
  BY <1>5, <1>10, SoundWithout
<1>12. ASSUME NEW i \in Listed(st2) PROVE Carried(st, st2, i, i)
  <2>1. PICK k \in Listed(st) : Carried(st, st2, k, i)
    BY <1>11 DEF Inherits
  <2>2. i \in Listed(st) /\ st2.dir[i] = st.dir[i] /\ st2.dir[i] = st.dir[k]
    BY <1>0, <1>4, <1>6, <2>1 DEF Carried
  <2>3. k = i
    BY <2>2 DEF Sound, UniqueIn, Matches
  <2>. QED BY <2>1, <2>3
<1>13. /\ Listed(st2) = 1 .. first - 1
       /\ st2.map = Freed(st.map, UNION {ChainOf(st, j) : j \in first .. Len(st.dir)})
  BY <1>3, <1>6 DEF freed, D, size
<1>. QED BY <1>11, <1>12, <1>13 DEF st2, lift

\* A sound filesystem has the bytes of every file it lifts.
LEMMA NothingUnlifted ==
  ASSUME NEW st, Sound(st), NEW first \in Nat \ {0}
  PROVE  Unlifted(st, first) = {}
<1>0. st \in FileSystem /\ Len(st.dir) \in Nat
  BY FileSystemFields DEF Sound
<1>. SUFFICES ASSUME NEW k \in first .. Len(st.dir),
                     \/ st.data[st.dir[k].name] = NoContent
                     \/ \E j \in first .. k - 1 : st.dir[j].name = st.dir[k].name
              PROVE  FALSE
  BY DEF Unlifted
<1>1. k \in Listed(st) /\ \A j \in first .. k - 1 : j \in Listed(st) /\ j # k
  BY <1>0 DEF Listed
<1>2. st.data[st.dir[k].name] # NoContent
  BY <1>1 DEF Sound, CachedIn
<1>. QED BY <1>1, <1>2 DEF Sound, UniqueIn, Matches

\* What insert_file adds again, and to what: a sound filesystem that holds of the
\* one it started from only what it inherits, and files with names and contents.
AddsAgain(room, base, files) ==
  /\ Sound(base) /\ Inherits(room, base) /\ ReservedKept(room, base)
  /\ Len(files) \in Nat
  /\ \A k \in 1 .. Len(files) : files[k].name \in Name /\ files[k].content \in Content

\* insert_file drops the file it replaces, lifts the files behind the place and
\* adds them again behind the new one.
LEMMA InsertIsAdding ==
  ASSUME NEW st, Sound(st), NEW position \in Nat, NEW n \in Name, NEW d \in Content
  PROVE  \E base, files :
           /\ InsertResult(st, position, n, d) = AddedInOrder(base, files)
           /\ AddsAgain(Dropped(st, n), base, files)
<1>. DEFINE room  == Dropped(st, n)
            first == InsertPosition(st, position, n) + 1
            size  == Len(room.dir)
            base  == [LiftedUpTo(room, first, size, size) EXCEPT !.dir = SubSeq(@, 1, first - 1)]
            File  == [name : Name, content : Content]
            new   == << [name |-> n, content |-> d] >>
            old   == [k \in 1 .. size - first + 1 |->
                        [name    |-> room.dir[first + k - 1].name,
                         content |-> room.data[room.dir[first + k - 1].name]]]
<1>0. st \in FileSystem
  BY DEF Sound
<1>1. Sound(room)
  BY SoundDeleted DEF Dropped
<1>2. room \in FileSystem /\ size \in Nat
  BY <1>1, FileSystemFields DEF Sound
<1>3. first \in 1 .. size + 1
  <2>1. FindEntry(st, n) \in Nat
    BY <1>0, FindEntryFacts, FileSystemFields DEF Exists, Listed
  <2>. HIDE DEF room
  <2>. QED BY <1>2, <2>1 DEF InsertPosition, room
<1>. HIDE DEF room, first
<1>4. Unlifted(room, first) = {}
  BY <1>1, <1>3, NothingUnlifted
<1>5. Sound(base) /\ Inherits(room, base) /\ ReservedKept(room, base)
  BY <1>1, <1>3, SoundLifted
<1>6. InsertResult(st, position, n, d) = AddedInOrder(base, new \o old)
  BY <1>4 DEF InsertResult, room, first
<1>7. /\ Len(new \o old) \in Nat
      /\ \A k \in 1 .. Len(new \o old) : (new \o old)[k] \in File
  <2>1. \A k \in 1 .. size - first + 1 : old[k] \in File
    <3>. SUFFICES ASSUME NEW k \in 1 .. size - first + 1 PROVE old[k] \in File
      OBVIOUS
    <3>. DEFINE i == first + k - 1
    <3>1. i \in Listed(room)
      BY <1>2, <1>3 DEF Listed
    <3>2. room.dir[i].name \in Name
      BY <1>2, <3>1, FileSystemFields
    <3>3. room.data[room.dir[i].name] \in Content
      BY <1>1, <1>2, <3>1, <3>2, FileSystemFields DEF Sound, CachedIn
    <3>. QED BY <3>2, <3>3
  <2>2. old \in Seq(File)
    <3>1. size - first + 1 \in Nat
      BY <1>2, <1>3
    <3>2. old \in [1 .. size - first + 1 -> File]
      BY <2>1
    <3>. HIDE DEF old, File
    <3>. QED BY <3>1, <3>2, SeqDef
  <2>3. new \in Seq(File)
    OBVIOUS
  <2>. HIDE DEF old, new, File
  <2>4. new \o old \in Seq(File)
    BY <2>2, <2>3, ConcatProperties
  <2>. QED BY <2>4, LenProperties, ElementOfSeq
<1>8. \A k \in 1 .. Len(new \o old) :
        (new \o old)[k].name \in Name /\ (new \o old)[k].content \in Content
  <2>. DEFINE files == new \o old
  <2>1. \A k \in 1 .. Len(files) : files[k] \in File
    BY <1>7
  <2>. HIDE DEF files
  <2>2. \A k \in 1 .. Len(files) : files[k].name \in Name /\ files[k].content \in Content
    BY <2>1
  <2>. QED BY <2>2 DEF files
<1>. HIDE DEF base, new, old
<1>9. AddsAgain(room, base, new \o old)
  BY <1>5, <1>7, <1>8 DEF AddsAgain
<1>. QED BY <1>6, <1>9 DEF room

\* insert_file keeps the invariant.
LEMMA SoundInsert ==
  ASSUME NEW st, Sound(st), NEW position \in Nat, NEW n \in Name, NEW d \in Content
  PROVE  /\ Sound(InsertResult(st, position, n, d).fs)
         /\ InsertResult(st, position, n, d).code \in Codes
<1>1. PICK base, files :
        /\ InsertResult(st, position, n, d) = AddedInOrder(base, files)
        /\ AddsAgain(Dropped(st, n), base, files)
  BY InsertIsAdding
<1>2. Sound(AddedInOrder(base, files).fs) /\ AddedInOrder(base, files).code \in Codes
  BY <1>1, SoundAddedInOrder DEF AddsAgain
<1>. QED BY <1>1, <1>2

-----------------------------------------------------------------------------
(***************************************************************************)
(* The root, and clusters kept from allocation.                            *)
(***************************************************************************)

\* Erase blocks lie inside the map, a block's clusters are its first and rest.
LEMMA BlockInMap ==
  ASSUME NEW block \in Nat, block < NumBlocks
  PROVE  /\ block * Ratio \in Cluster
         /\ BlockClusters(block) \subseteq Cluster
         /\ block * Ratio \in BlockClusters(block)
<1>1. NumBlocks \in Nat /\ Ratio \in Nat /\ Ratio > 0
  BY ShapeAssumption
<1>2. block * Ratio \in Nat /\ block * Ratio + Ratio =< NumBlocks * Ratio
  <2>1. PICK k \in Nat : NumBlocks = block + 1 + k
    <3>1. NumBlocks - (block + 1) \in Nat /\ NumBlocks = block + 1 + (NumBlocks - (block + 1))
      BY <1>1
    <3>. QED BY <3>1
  <2>2. NumBlocks * Ratio = block * Ratio + Ratio + k * Ratio
    BY <1>1, <2>1
  <2>3. k * Ratio \in Nat /\ block * Ratio \in Nat
    BY <1>1
  <2>. QED BY <1>1, <2>2, <2>3
<1>. DEFINE first == block * Ratio
<1>3. first \in Nat /\ first + Ratio =< MapSize
  BY <1>2 DEF MapSize
<1>4. BlockClusters(block) = first .. first + Ratio - 1
  BY DEF BlockClusters
<1>. HIDE DEF first
<1>5. first \in Cluster /\ BlockClusters(block) \subseteq Cluster /\ first \in BlockClusters(block)
  BY <1>1, <1>3, <1>4, MapSizeNat DEF Cluster
<1>. QED BY <1>5 DEF first

LEMMA RootFirstNat ==
  ASSUME NEW st \in FileSystem
  PROVE  RootFirst(st) \in Nat
<1>1. st.rootBlock \in Nat /\ st.rootOffset \in Nat /\ Ratio \in Nat
  BY FileSystemFields, ShapeAssumption
<1>2. st.rootBlock * Ratio \in Nat
  BY <1>1
<1>. QED BY <1>1, <1>2 DEF RootFirst

\* Releasing the root keeps the invariant.
LEMMA SoundReleaseRoot ==
  ASSUME NEW st, Sound(st)
  PROVE  /\ Sound(ReleaseRoot(st)) /\ Inherits(st, ReleaseRoot(st))
         /\ ~ReleaseRoot(st).rootPlaced
         /\ \A c \in Cluster : st.map[c] = Free =>
              ReleaseRoot(st).map[c] = Free /\ ReleaseRoot(st).stated[c] = NotStated
<1>. DEFINE st2  == ReleaseRoot(st)
            held == RootClusters(st)
<1>0. st \in FileSystem
  BY DEF Sound
<1>1. /\ \A c \in Cluster : st2.map[c] = IF c \in held THEN Free ELSE st.map[c]
      /\ \A c \in Cluster : st2.stated[c] = IF c \in held THEN NotStated ELSE st.stated[c]
      /\ st2.dir = st.dir /\ st2.data = st.data /\ ~st2.rootPlaced
  BY <1>0, FileSystemFields DEF ReleaseRoot, Freed, FileSystem
<1>2. st2 \in FileSystem
  <2>1. Freed(st.map, held) \in [Cluster -> LinkValue]
    BY <1>0, FileSystemFields, FreedType
  <2>2. [c \in Cluster |-> IF c \in held THEN NotStated ELSE st.stated[c]]
          \in [Cluster -> {NotStated, Free, Unnamed}]
    BY <1>0, FileSystemFields
  <2>. QED BY <1>0, <2>1, <2>2 DEF FileSystem, ReleaseRoot
<1>3. held \subseteq Cluster /\ \A c \in held : st.map[c] \in {Table, Reserved}
  BY DEF Sound, RootHeldIn, RootClusters
<1>. HIDE DEF st2, held
<1>4. \A c \in Cluster : HoldsFile(st, c) => c \notin held
  BY <1>3, HoldsFileValue
<1>5. \A c \in Cluster : HoldsFile(st2, c) => HoldsFile(st, c)
  <2>1. ~(Free \in Cluster \cup {EndOfChain})
    BY LowCluster DEF Free, EndOfChain
  <2>. QED BY <1>1, <2>1, LowCluster DEF HoldsFile
<1>6. /\ ApartIn(st2) /\ AccountedIn(st2) /\ UniqueIn(st2) /\ CachedIn(st2)
      /\ Inherits(st, st2)
  BY <1>1, <1>2, <1>4, <1>5, OffFiles
<1>7. RootHeldIn(st2)
  <2>1. \A c \in Cluster : st.map[c] = Table => c \in held
    <3>. SUFFICES ASSUME NEW c \in Cluster, st.map[c] = Table PROVE c \in held
      OBVIOUS
    <3>1. st.rootPlaced /\ c = RootFirst(st)
      BY DEF Sound, RootHeldIn
    <3>2. RootFirst(st) \in Nat /\ st.rootKept \in Nat /\ st.rootKept > 0
      BY <1>0, RootFirstNat, FileSystemFields, ShapeAssumption
    <3>. QED BY <3>1, <3>2 DEF held, RootClusters
  <2>2. \A c \in Cluster : st2.map[c] # Table
    BY <1>1, <2>1 DEF Free, Table
  <2>3. RootClusters(st2) = {}
    BY <1>1 DEF RootClusters
  <2>. QED BY <1>1, <2>2, <2>3 DEF RootHeldIn
<1>8. WithheldIn(st2)
  BY <1>1 DEF Sound, WithheldIn
<1>9. Sound(st2)
  BY <1>2, <1>6, <1>7, <1>8 DEF Sound
<1>10. \A c \in Cluster : st.map[c] = Free => st.stated[c] = NotStated
  BY DEF Sound, WithheldIn, Free, Reserved
<1>. QED BY <1>1, <1>6, <1>9, <1>10 DEF st2

\* Placing the root on a block that holds no file keeps the invariant.
LEMMA SoundPlaceRoot ==
  ASSUME NEW st, Sound(st), ~st.rootPlaced, NEW block \in Nat, block < NumBlocks,
         \A c \in BlockClusters(block) : ~HoldsFile(st, c),
         st.stated[block * Ratio] = NotStated
  PROVE  Sound(PlaceRoot(st, block)) /\ Inherits(st, PlaceRoot(st, block))
<1>. DEFINE st2   == PlaceRoot(st, block)
            first == block * Ratio
            own   == BlockClusters(block)
            map2  == [c \in Cluster |-> IF c = first THEN Table
                                        ELSE IF c \in own \ {first} THEN Reserved
                                        ELSE st.map[c]]
            stated2 == [c \in Cluster |-> IF c \in own \ {first} THEN Free
                                          ELSE st.stated[c]]
<1>0. st \in FileSystem
  BY DEF Sound
<1>1. first \in Cluster /\ own \subseteq Cluster /\ first \in own /\ Ratio \in Nat /\ Ratio > 0
  BY BlockInMap, ShapeAssumption
<1>2. /\ st2.map = map2 /\ st2.stated = stated2
      /\ st2.dir = st.dir /\ st2.data = st.data
      /\ st2.rootPlaced /\ st2.rootBlock = block /\ st2.rootOffset = 0
      /\ st2.rootKept = Ratio
  BY <1>0 DEF PlaceRoot, FileSystem
<1>3. st2 \in FileSystem
  <2>1. map2 \in [Cluster -> LinkValue]
    BY <1>0, FileSystemFields, LinkValues
  <2>2. stated2 \in [Cluster -> {NotStated, Free, Unnamed}]
    BY <1>0, FileSystemFields
  <2>3. 0 \in 0 .. Ratio - 1 /\ Ratio \in 1 .. Ratio
    BY <1>1
  <2>. QED BY <1>0, <2>1, <2>2, <2>3 DEF FileSystem, PlaceRoot
<1>4. own = first .. first + Ratio - 1
  BY DEF BlockClusters
<1>5. RootFirst(st2) = first
  BY <1>2, BlockInMap, <1>1, LowCluster DEF RootFirst
<1>. HIDE DEF st2, own, first
<1>6. /\ \A c \in Cluster : st2.map[c] = IF c = first THEN Table
                                         ELSE IF c \in own THEN Reserved ELSE st.map[c]
      /\ \A c \in Cluster : st2.stated[c] = IF c \in own /\ c # first THEN Free
                                            ELSE st.stated[c]
  BY <1>2
<1>7. \A c \in Cluster : HoldsFile(st, c) => c \notin own
  BY DEF own
<1>8. \A c \in Cluster : HoldsFile(st2, c) => HoldsFile(st, c)
  <2>1. Low(Table) \notin Cluster \cup {EndOfChain} /\ Low(Reserved) \notin Cluster \cup {EndOfChain}
    BY LowCluster DEF Table, Reserved, EndOfChain
  <2>. QED BY <1>6, <2>1 DEF HoldsFile
<1>9. /\ ApartIn(st2) /\ AccountedIn(st2) /\ UniqueIn(st2) /\ CachedIn(st2)
      /\ Inherits(st, st2)
  BY <1>1, <1>2, <1>3, <1>6, <1>7, <1>8, OffFiles
<1>10. RootHeldIn(st2)
  <2>1. \A c \in Cluster : st.map[c] # Table
    BY DEF Sound, RootHeldIn
  <2>2. \A c \in Cluster : st2.map[c] = Table <=> c = first
    BY <1>6, <2>1 DEF Table, Reserved
  <2>3. \A c \in RootClusters(st2) : c \in Cluster /\ c \in own
    BY <1>1, <1>2, <1>4, <1>5, LowCluster DEF RootClusters
  <2>4. \A c \in RootClusters(st2) : st2.map[c] \in {Table, Reserved}
    BY <1>6, <2>3
  <2>5. {c \in Cluster : st2.map[c] = Table} = {RootFirst(st2)}
    BY <1>1, <1>5, <2>2
  <2>. QED BY <1>2, <2>4, <2>5 DEF RootHeldIn
<1>11. WithheldIn(st2)
  <2>1. st.stated[first] = NotStated
    BY DEF first
  <2>. QED BY <1>1, <1>6, <2>1 DEF Sound, WithheldIn
<1>. QED BY <1>3, <1>9, <1>10, <1>11 DEF Sound, st2

\* Keeping free or reserved clusters from allocation keeps the invariant.
LEMMA SoundKept ==
  ASSUME NEW st, Sound(st), NEW clusters, NEW value \in {NotStated, Free, Unnamed},
         \A c \in clusters : st.map[c] \in {Free, Reserved}
  PROVE  Sound(SetAside(st, clusters, value)) /\ Inherits(st, SetAside(st, clusters, value))
<1>. DEFINE map2 == [c \in Cluster |-> IF c \in clusters THEN Reserved ELSE st.map[c]]
            stated2 == [c \in Cluster |-> IF c \in clusters THEN value ELSE st.stated[c]]
            st2 == [st EXCEPT !.map = map2, !.stated = stated2]
<1>0. st \in FileSystem
  BY DEF Sound
<1>1. map2 \in [Cluster -> LinkValue] /\ stated2 \in [Cluster -> {NotStated, Free, Unnamed}]
  BY <1>0, FileSystemFields, LinkValues
<1>2. /\ \A c \in Cluster : map2[c] = IF c \in clusters THEN Reserved ELSE st.map[c]
      /\ \A c \in Cluster : stated2[c] = IF c \in clusters THEN value ELSE st.stated[c]
  OBVIOUS
<1>. HIDE DEF map2, stated2
<1>3. /\ st2.map = map2 /\ st2.stated = stated2
      /\ st2.dir = st.dir /\ st2.data = st.data
      /\ st2.rootPlaced = st.rootPlaced /\ st2.rootBlock = st.rootBlock
      /\ st2.rootOffset = st.rootOffset /\ st2.rootKept = st.rootKept
  BY <1>0 DEF FileSystem
<1>4. st2 \in FileSystem
  BY <1>0, <1>1 DEF FileSystem
<1>. HIDE DEF st2
<1>5. \A c \in Cluster : HoldsFile(st, c) => c \notin clusters
  BY HoldsFileValue
<1>6. \A c \in Cluster : HoldsFile(st2, c) => HoldsFile(st, c)
  <2>1. Low(Reserved) \notin Cluster \cup {EndOfChain}
    BY LowCluster DEF Reserved, EndOfChain
  <2>. QED BY <1>2, <1>3, <2>1 DEF HoldsFile
<1>7. /\ ApartIn(st2) /\ AccountedIn(st2) /\ UniqueIn(st2) /\ CachedIn(st2)
      /\ Inherits(st, st2)
  BY <1>2, <1>3, <1>4, <1>5, <1>6, OffFiles
<1>8. RootHeldIn(st2)
  <2>1. RootFirst(st2) = RootFirst(st) /\ RootClusters(st2) = RootClusters(st)
    BY <1>3 DEF RootFirst, RootClusters
  <2>2. \A c \in Cluster : st2.map[c] = Table <=> st.map[c] = Table
    BY <1>2, <1>3 DEF Free, Table, Reserved
  <2>3. \A c \in RootClusters(st) : c \in Cluster
    BY DEF RootClusters
  <2>4. \A c \in RootClusters(st) : st2.map[c] \in {Table, Reserved}
    BY <1>2, <1>3, <2>3 DEF Sound, RootHeldIn
  <2>. QED BY <1>3, <2>1, <2>2, <2>4 DEF Sound, RootHeldIn
<1>9. WithheldIn(st2)
  BY <1>2, <1>3 DEF Sound, WithheldIn
<1>10. Sound(st2) /\ Inherits(st, st2)
  BY <1>4, <1>7, <1>8, <1>9 DEF Sound
<1>. QED BY <1>10 DEF st2, map2, stated2, SetAside

\* A filesystem just formatted is sound, wherever it says its root will be.
LEMMA SoundFormattedMap ==
  ASSUME NEW boundary \in Nat, NEW block \in Nat
  PROVE  LET blank == [FormattedMap(boundary) EXCEPT !.rootBlock = block]
         IN  /\ Sound(blank) /\ ~blank.rootPlaced
             /\ \A c \in Cluster : ~HoldsFile(blank, c) /\ blank.stated[c] = NotStated
<1>. DEFINE st == [FormattedMap(boundary) EXCEPT !.rootBlock = block]
            map == [c \in Cluster |-> IF c < ReservedBelow(boundary) THEN Reserved ELSE Free]
            data == [n \in Name |-> NoContent]
            stated == [c \in Cluster |-> NotStated]
<1>1. FormattedMap(boundary) =
        [map |-> map, dir |-> << >>, data |-> data, stated |-> stated,
         rootPlaced |-> FALSE, rootBlock |-> kDefaultRoot, rootOffset |-> 0,
         rootKept |-> Ratio]
  BY DEF FormattedMap
<1>2. /\ st \in FileSystem
      /\ st.map = map /\ st.stated = stated /\ st.dir = << >> /\ ~st.rootPlaced
  <2>1. map \in [Cluster -> LinkValue] /\ stated \in [Cluster -> {NotStated, Free, Unnamed}]
    BY LinkValues
  <2>2. data \in [Name -> Content \cup {NoContent}] /\ << >> \in Seq(Entry)
    BY EmptySeq
  <2>3. 0 \in 0 .. Ratio - 1 /\ Ratio \in 1 .. Ratio /\ kDefaultRoot \in Nat
    BY ShapeAssumption DEF kDefaultRoot
  <2>. HIDE DEF map, data, stated
  <2>4. FormattedMap(boundary) \in FileSystem
    BY <1>1, <2>1, <2>2, <2>3 DEF FileSystem
  <2>5. /\ FormattedMap(boundary).map = map /\ FormattedMap(boundary).stated = stated
        /\ FormattedMap(boundary).dir = << >> /\ ~FormattedMap(boundary).rootPlaced
    BY <1>1
  <2>. QED BY <2>4, <2>5 DEF FileSystem
<1>3. /\ \A c \in Cluster : st.map[c] \in {Reserved, Free} /\ st.stated[c] = NotStated
      /\ Listed(st) = {} /\ ~st.rootPlaced
  <2>1. Listed(st) = {}
    BY <1>2, EmptySeq DEF Listed
  <2>. HIDE DEF st
  <2>. QED BY <1>2, <2>1
<1>. HIDE DEF st
<1>4. \A c \in Cluster : ~HoldsFile(st, c)
  BY <1>3, LowCluster DEF HoldsFile, EndOfChain, Free, Reserved
<1>5. ApartIn(st) /\ AccountedIn(st) /\ UniqueIn(st) /\ CachedIn(st) /\ WithheldIn(st)
  BY <1>3, <1>4 DEF ApartIn, AccountedIn, UniqueIn, CachedIn, WithheldIn
<1>6. RootHeldIn(st)
  <2>1. \A c \in Cluster : st.map[c] # Table
    BY <1>3 DEF Table, Reserved, Free
  <2>2. RootClusters(st) = {}
    BY <1>3 DEF RootClusters
  <2>. QED BY <1>3, <2>1, <2>2 DEF RootHeldIn
<1>7. Sound(st)
  BY <1>2, <1>5, <1>6 DEF Sound
<1>. QED BY <1>3, <1>4, <1>7 DEF st

-----------------------------------------------------------------------------
(***************************************************************************)
(* The invariant, action by action.                                        *)
(***************************************************************************)

Inv == Sound(fs) /\ last \in [op : Ops, code : Codes, at : Nat]

LEMMA InitInv == Init => Inv
<1>. SUFFICES ASSUME Init PROVE Inv
  OBVIOUS
<1>1. PICK boundary \in BoundaryChoice : fs = FormattedMap(boundary)
  BY DEF Init
<1>2. boundary \in Nat /\ kDefaultRoot \in Nat
  BY InputAssumption DEF kDefaultRoot
<1>3. FormattedMap(boundary) = [FormattedMap(boundary) EXCEPT !.rootBlock = kDefaultRoot]
  BY DEF FormattedMap
<1>4. Sound(FormattedMap(boundary))
  BY <1>2, <1>3, SoundFormattedMap
<1>. QED BY <1>1, <1>4 DEF Init, Inv, Ops, Codes

LEMMA FormatInv ==
  ASSUME Inv, NEW root \in RootChoice \cup {kDeferRoot}, NEW boundary \in BoundaryChoice,
         Format(root, boundary)
  PROVE  Sound(fs')
<1>. DEFINE blank == [FormattedMap(boundary) EXCEPT !.rootBlock = fs.rootBlock]
<1>1. boundary \in Nat /\ root \in Nat /\ fs.rootBlock \in Nat
  BY InputAssumption, FileSystemFields DEF kDeferRoot, Inv, Sound
<1>2. /\ Sound(blank) /\ ~blank.rootPlaced
      /\ \A c \in Cluster : ~HoldsFile(blank, c) /\ blank.stated[c] = NotStated
  BY <1>1, SoundFormattedMap
<1>. HIDE DEF blank
<1>3. CASE fs' = fs
  BY <1>3 DEF Inv
<1>4. CASE fs' = Formatted(fs, root, boundary) /\ root = kDeferRoot
  BY <1>2, <1>4 DEF Formatted, blank
<1>5. CASE fs' = Formatted(fs, root, boundary) /\ root # kDeferRoot /\ RootInRange(root)
  <2>1. root < NumBlocks
    BY <1>5 DEF RootInRange
  <2>2. \A c \in BlockClusters(root) : ~HoldsFile(blank, c)
    BY <1>1, <1>2, <2>1, BlockInMap
  <2>3. blank.stated[root * Ratio] = NotStated
    BY <1>1, <1>2, <2>1, BlockInMap
  <2>4. Sound(PlaceRoot(blank, root))
    BY <1>1, <1>2, <2>1, <2>2, <2>3, SoundPlaceRoot
  <2>. QED BY <1>5, <2>4 DEF Formatted, blank
<1>. QED BY <1>3, <1>4, <1>5 DEF Format, Refuse

\* Moving the root to a free block.
LEMMA RootMoves ==
  ASSUME NEW st, Sound(st), NEW block \in RootChoice, RootInRange(block), IsBlockFree(st, block)
  PROVE  LET moved == PlaceRoot(ReleaseRoot(st), block)
         IN  Sound(moved) /\ Inherits(st, ReleaseRoot(st)) /\ Inherits(ReleaseRoot(st), moved)
<1>. DEFINE released == ReleaseRoot(st)
<1>1. block \in Nat /\ block < NumBlocks
  BY InputAssumption DEF RootInRange
<1>2. /\ Sound(released) /\ Inherits(st, released) /\ ~released.rootPlaced
      /\ \A c \in Cluster : st.map[c] = Free =>
           released.map[c] = Free /\ released.stated[c] = NotStated
  BY SoundReleaseRoot
<1>3. BlockClusters(block) \subseteq Cluster /\ block * Ratio \in BlockClusters(block)
  BY <1>1, BlockInMap
<1>4. \A c \in BlockClusters(block) : released.map[c] = Free /\ released.stated[c] = NotStated
  BY <1>2, <1>3 DEF IsBlockFree
<1>. HIDE DEF released
<1>5. \A c \in BlockClusters(block) : ~HoldsFile(released, c)
  BY <1>3, <1>4, HoldsFileValue
<1>6. Sound(PlaceRoot(released, block)) /\ Inherits(released, PlaceRoot(released, block))
  BY <1>1, <1>2, <1>3, <1>4, <1>5, SoundPlaceRoot
<1>. QED BY <1>2, <1>6 DEF released

LEMMA SetRootBlockInv ==
  ASSUME Inv, NEW block \in RootChoice, SetRootBlock(block)
  PROVE  Sound(fs')
<1>1. CASE fs' = fs
  BY <1>1 DEF Inv
<1>2. CASE RootInRange(block) /\ IsBlockFree(fs, block) /\ fs' = PlaceRoot(ReleaseRoot(fs), block)
  BY <1>2, RootMoves DEF Inv
<1>. QED BY <1>1, <1>2 DEF SetRootBlock, Refuse

LEMMA ReserveBlocksInv ==
  ASSUME Inv, NEW start, NEW count, ReserveBlocks(start, count)
  PROVE  Sound(fs')
<1>. DEFINE clusters == UNION {BlockClusters(b) : b \in Run(start, count)}
<1>1. CASE fs' = fs
  BY <1>1 DEF Inv
<1>2. CASE /\ \A c \in clusters : fs.map[c] \in {Free, Reserved}
           /\ fs' = SetAside(fs, clusters, NotStated)
  <2>. HIDE DEF clusters
  <2>. QED BY <1>2, SoundKept DEF Inv
<1>. QED BY <1>1, <1>2 DEF ReserveBlocks, Refuse

LEMMA WithholdInv ==
  ASSUME Inv, NEW op, NEW clusters, NEW value \in {Free, Unnamed},
         Withhold(op, clusters, value)
  PROVE  Sound(fs')
<1>1. CASE fs' = fs
  BY <1>1 DEF Inv
<1>2. CASE /\ \A c \in clusters : Withholdable(fs, c)
           /\ fs' = SetAside(fs, clusters, value)
  <2>1. \A c \in clusters : fs.map[c] \in {Free, Reserved}
    BY <1>2 DEF Withholdable
  <2>2. value \in {NotStated, Free, Unnamed}
    OBVIOUS
  <2>. QED BY <1>2, <2>1, <2>2, SoundKept DEF Inv
<1>. QED BY <1>1, <1>2 DEF Withhold, Refuse

LEMMA NextInv == Inv /\ [Next]_vars => Inv'
<1>. SUFFICES ASSUME Inv, [Next]_vars PROVE Inv'
  OBVIOUS
<1>1. last' \in [op : Ops, code : Codes, at : Nat]
  <2>. USE DEF Refuse, Reply, Ops, Codes
  <2>1. ASSUME NEW root, NEW boundary, Format(root, boundary)
        PROVE  last' \in [op : Ops, code : Codes, at : Nat]
    BY <2>1 DEF Format
  <2>2. ASSUME NEW block, SetRootBlock(block) PROVE last' \in [op : Ops, code : Codes, at : Nat]
    BY <2>2 DEF SetRootBlock
  <2>3. ASSUME NEW start, NEW count, ReserveBlocks(start, count)
        PROVE  last' \in [op : Ops, code : Codes, at : Nat]
    BY <2>3 DEF ReserveBlocks
  <2>4. ASSUME NEW first, NEW count, NEW value, WithholdClusters(first, count, value)
        PROVE  last' \in [op : Ops, code : Codes, at : Nat]
    BY <2>4 DEF WithholdClusters, Withhold
  <2>5. ASSUME NEW start, NEW count, NEW value, WithholdBlocks(start, count, value)
        PROVE  last' \in [op : Ops, code : Codes, at : Nat]
    BY <2>5 DEF WithholdBlocks, Withhold
  <2>6. ASSUME NEW n \in Name, NEW d \in Content, AddFile(n, d)
        PROVE  last' \in [op : Ops, code : Codes, at : Nat]
    <3>1. AddResult(fs, n, d).code \in Codes
      BY SoundAdd DEF Inv
    <3>. QED BY <2>6, <3>1 DEF AddFile
  <2>7. ASSUME NEW position \in 0 .. MaxEntries, NEW n \in Name, NEW d \in Content,
               InsertFile(position, n, d)
        PROVE  last' \in [op : Ops, code : Codes, at : Nat]
    <3>1. position \in Nat
      BY ShapeAssumption
    <3>2. InsertResult(fs, position, n, d).code \in Codes
      BY <3>1, SoundInsert DEF Inv
    <3>. QED BY <2>7, <3>2 DEF InsertFile
  <2>8. ASSUME NEW n, DeleteFile(n) PROVE last' \in [op : Ops, code : Codes, at : Nat]
    BY <2>8 DEF DeleteFile
  <2>9. CASE UNCHANGED vars
    BY <2>9 DEF vars, Inv
  <2>. HIDE DEF Refuse, Reply, Ops, Codes
  <2>. QED BY <2>1, <2>2, <2>3, <2>4, <2>5, <2>6, <2>7, <2>8, <2>9 DEF Next
<1>2. Sound(fs')
  <2>1. ASSUME NEW root \in RootChoice \cup {kDeferRoot}, NEW boundary \in BoundaryChoice,
               Format(root, boundary)
        PROVE  Sound(fs')
    BY <2>1, FormatInv
  <2>2. ASSUME NEW block \in RootChoice, SetRootBlock(block) PROVE Sound(fs')
    BY <2>2, SetRootBlockInv
  <2>3. ASSUME NEW r \in ReserveChoice, ReserveBlocks(r[1], r[2]) PROVE Sound(fs')
    BY <2>3, ReserveBlocksInv
  <2>4. ASSUME NEW w \in WithholdChoice, WithholdClusters(w[1], w[2], w[3])
        PROVE  Sound(fs')
    <3>1. w[3] \in {Free, Unnamed}
      BY InputAssumption
    <3>2. CASE Withhold("withhold_clusters", Run(w[1], w[2]), w[3])
      BY <3>1, <3>2, WithholdInv
    <3>. QED BY <2>4, <3>2 DEF WithholdClusters, Refuse, Inv
  <2>5. ASSUME NEW w \in WithholdChoice, WithholdBlocks(w[1], w[2], w[3])
        PROVE  Sound(fs')
    <3>1. w[3] \in {Free, Unnamed}
      BY InputAssumption
    <3>. DEFINE clusters == UNION {BlockClusters(b) : b \in Run(w[1], w[2])}
    <3>2. CASE Withhold("withhold_blocks", clusters, w[3])
      <4>. HIDE DEF clusters
      <4>. QED BY <3>1, <3>2, WithholdInv
    <3>. QED BY <2>5, <3>2 DEF WithholdBlocks, Refuse, Inv
  <2>6. ASSUME NEW n \in Name, NEW d \in Content, AddFile(n, d) PROVE Sound(fs')
    BY <2>6, SoundAdd DEF AddFile, Inv
  <2>7. ASSUME NEW position \in 0 .. MaxEntries, NEW n \in Name, NEW d \in Content,
               InsertFile(position, n, d)
        PROVE  Sound(fs')
    <3>1. position \in Nat
      BY ShapeAssumption
    <3>. QED BY <2>7, <3>1, SoundInsert DEF InsertFile, Inv
  <2>8. ASSUME NEW n \in Name, DeleteFile(n) PROVE Sound(fs')
    BY <2>8, SoundDeleted DEF DeleteFile, Refuse, Inv
  <2>9. CASE UNCHANGED vars
    BY <2>9 DEF vars, Inv
  <2>. QED BY <2>1, <2>2, <2>3, <2>4, <2>5, <2>6, <2>7, <2>8, <2>9 DEF Next
<1>. QED BY <1>1, <1>2 DEF Inv

LEMMA SpecInv == Spec => []Inv
<1>. QED BY InitInv, NextInv, PTL DEF Spec

-----------------------------------------------------------------------------
(***************************************************************************)
(* The theorems.                                                           *)
(***************************************************************************)

\* The object keeps its shape through every call, refused ones included.
THEOREM TypeCorrect == Spec => []TypeOK
<1>1. Inv => TypeOK
  BY DEF Inv, Sound, TypeOK
<1>. QED BY <1>1, SpecInv, PTL

\* No two files ever share a cluster.
THEOREM FilesStayApart == Spec => []FilesApart
<1>1. Inv => FilesApart
  BY DEF Inv, Sound, FilesApart
<1>. QED BY <1>1, SpecInv, PTL

\* The block map links exactly the clusters of listed files: none is lost when
\* a file is replaced, re-laid or refused half way, and none is used that the
\* map gives to the root or to reserved space.
THEOREM EveryClusterAccountedFor == Spec => []ClustersAccountedFor
<1>1. Inv => ClustersAccountedFor
  BY DEF Inv, Sound, ClustersAccountedFor
<1>. QED BY <1>1, SpecInv, PTL

\* Every listed file has its bytes cached, so save and insert_file find them.
THEOREM EveryFileCached == Spec => []FilesCached
<1>1. Inv => FilesCached
  BY DEF Inv, Sound, FilesCached
<1>. QED BY <1>1, SpecInv, PTL

\* One name never lists two files, whatever its case.
THEOREM NamesStayUnique == Spec => []OneEntryPerName
<1>1. Inv => OneEntryPerName
  BY DEF Inv, Sound, OneEntryPerName
<1>. QED BY <1>1, SpecInv, PTL

\* The root's block is nobody else's, however often it moves.
THEOREM RootStaysHeld == Spec => []RootHeld
<1>1. Inv => RootHeld
  BY DEF Inv, Sound, RootHeld
<1>. QED BY <1>1, SpecInv, PTL

\* What the table states for a withheld cluster never hides a file's link.
THEOREM WithheldStaysReserved == Spec => []WithheldIsReserved
<1>1. Inv => WithheldIsReserved
  BY DEF Inv, Sound, WithheldIsReserved
<1>. QED BY <1>1, SpecInv, PTL

-----------------------------------------------------------------------------
(***************************************************************************)
(* What the calls do to what was there before: the chain of a file has the *)
(* length the file needs, space kept from allocation stays kept, and a     *)
(* call for one file leaves the files of other names.                      *)
(***************************************************************************)

-----------------------------------------------------------------------------
(***************************************************************************)
(* The length of a chain.                                                  *)
(***************************************************************************)

\* An allocation that fits takes as many clusters as it is asked for.
LEMMA LowestFreeCount ==
  ASSUME NEW map, NEW n \in Nat, n =< Cardinality(FreeClusters(map))
  PROVE  Cardinality(LowestFree(map, n)) = n
<1>. DEFINE F == FreeClusters(map)
            below(c) == {d \in F : d < c}
            L(k) == {c \in F : Cardinality(below(c)) < k}
            T == {k \in Nat : k =< Cardinality(F) => Cardinality(L(k)) = k}
<1>1. F \subseteq Nat /\ IsFiniteSet(F) /\ Cardinality(F) \in Nat
  BY FreeFinite, LowCluster, FS_CardinalityType
<1>2. LowestFree(map, n) = L(n)
  BY DEF LowestFree
<1>. HIDE DEF F
<1>3. \A S : S \subseteq F => IsFiniteSet(S) /\ Cardinality(S) \in Nat
  BY <1>1, FS_Subset, FS_CardinalityType
<1>4. \A c : below(c) \subseteq F
  OBVIOUS
<1>5. 0 \in T
  <2>1. L(0) = {}
    BY <1>3, <1>4
  <2>. QED BY <2>1, FS_EmptySet
<1>6. ASSUME NEW k \in Nat, k \in T PROVE k + 1 \in T
  <2>. SUFFICES ASSUME k + 1 =< Cardinality(F) PROVE Cardinality(L(k + 1)) = k + 1
    OBVIOUS
  <2>1. Cardinality(L(k)) = k
    <3>1. k =< Cardinality(F)
      BY <1>1
    <3>. HIDE DEF L
    <3>. QED BY <1>6, <3>1
  <2>2. L(k) \subseteq F /\ IsFiniteSet(L(k)) /\ L(k) # F
    <3>1. L(k) \subseteq F
      OBVIOUS
    <3>. HIDE DEF L
    <3>. QED BY <1>1, <1>3, <2>1, <3>1
  <2>3. PICK x \in F \ L(k) : \A y \in F \ L(k) : x =< y
    <3>. HIDE DEF L
    <3>. QED BY <1>1, <2>2, NatLeast
  <2>4. below(x) \subseteq L(k)
    <3>. SUFFICES ASSUME NEW y \in F, y < x PROVE y \in L(k)
      OBVIOUS
    <3>. HIDE DEF L, below
    <3>. QED BY <1>1, <2>3
  <2>5. Cardinality(below(x)) = k
    <3>1. Cardinality(below(x)) =< k
      BY <2>1, <2>2, <2>4, FS_Subset
    <3>2. Cardinality(below(x)) \in Nat /\ ~(Cardinality(below(x)) < k)
      BY <1>3, <1>4, <2>3
    <3>. HIDE DEF below
    <3>. QED BY <3>1, <3>2
  <2>6. ASSUME NEW c \in F, Cardinality(below(c)) = k PROVE c = x
    <3>1. c \notin L(k)
      BY <1>6, <2>6
    <3>2. x =< c
      BY <2>3, <3>1
    <3>3. ASSUME x < c PROVE FALSE
      <4>1. below(x) \subseteq below(c) /\ x \in below(c) /\ x \notin below(x)
        <5>1. x \in F
          BY <2>3
        <5>2. ASSUME NEW e \in F, e < x PROVE e < c
          BY <1>1, <3>3, <5>1, <5>2
        <5>3. ~(x < x)
          BY <1>1, <5>1
        <5>. QED BY <3>3, <5>1, <5>2, <5>3
      <4>2. Cardinality(below(x)) < Cardinality(below(c))
        <5>. HIDE DEF below
        <5>1. below(x) # below(c) /\ IsFiniteSet(below(c))
          BY <1>3, <1>4, <4>1
        <5>2. Cardinality(below(c)) \in Nat /\ Cardinality(below(x)) \in Nat
          BY <1>3, <1>4
        <5>3. /\ Cardinality(below(x)) =< Cardinality(below(c))
              /\ Cardinality(below(x)) # Cardinality(below(c))
          BY <4>1, <5>1, FS_Subset
        <5>. QED BY <5>2, <5>3
      <4>. QED BY <2>5, <2>6, <4>2
    <3>. HIDE DEF L, below
    <3>. QED BY <1>1, <2>3, <3>2, <3>3
  <2>7. L(k + 1) = L(k) \cup {x}
    <3>1. \A c \in F : Cardinality(below(c)) \in Nat
      BY <1>3, <1>4
    <3>. HIDE DEF below
    <3>2. \A c \in F : Cardinality(below(c)) < k + 1
                         <=> Cardinality(below(c)) < k \/ Cardinality(below(c)) = k
      BY <3>1
    <3>. QED BY <2>3, <2>5, <2>6, <3>2
  <2>8. x \notin L(k)
    BY <2>3
  <2>. HIDE DEF L
  <2>. QED BY <2>1, <2>2, <2>7, <2>8, FS_AddElement
<1>7. n \in T
  <2>. HIDE DEF T
  <2>. QED BY <1>5, <1>6, NatInductionOnSets
<1>8. Cardinality(L(n)) = n
  BY <1>7 DEF F
<1>. QED BY <1>2, <1>8

\* The chain of every file has the clusters its length needs.
Sized(st) ==
  \A i \in Listed(st) : Cardinality(ChainOf(st, i)) = ClustersNeeded(st.dir[i].length)

LEMMA SizedInherited ==
  ASSUME NEW st, NEW st2, Sized(st), Inherits(st, st2)
  PROVE  Sized(st2)
BY DEF Sized, Inherits, Carried

\* What that many clusters hold.
LEMMA NeededIsEnough ==
  ASSUME NEW length \in Nat
  PROVE  LET room == ClustersNeeded(length) * ClusterBytes
         IN  length =< room /\ (room - ClusterBytes < length \/ room = ClusterBytes)
<1>0. ClusterBytes \in Nat /\ ClusterBytes > 0
  BY ShapeAssumption
<1>1. CASE length = 0
  BY <1>0, <1>1 DEF ClustersNeeded
<1>2. CASE length # 0
  <2>. DEFINE q == (length + ClusterBytes - 1) \div ClusterBytes
              r == (length + ClusterBytes - 1) % ClusterBytes
  <2>1. /\ q \in Int /\ r \in 0 .. ClusterBytes - 1
        /\ length + ClusterBytes - 1 = ClusterBytes * q + r
    BY <1>0
  <2>2. ClustersNeeded(length) = q
    BY <1>2 DEF ClustersNeeded
  <2>. HIDE DEF q, r
  <2>3. PICK room : room = q * ClusterBytes
    OBVIOUS
  <2>4. room \in Int /\ room = ClusterBytes * q
    BY <1>0, <2>1, <2>3
  <2>5. length =< room /\ room - ClusterBytes < length
    BY <1>0, <2>1, <2>4
  <2>. QED BY <2>2, <2>3, <2>5
<1>. QED BY <1>1, <1>2

-----------------------------------------------------------------------------
(***************************************************************************)
(* The file of a name.                                                     *)
(***************************************************************************)

\* Names match as their folds are equal, so what matches a name matches what
\* that name matches.
LEMMA FileOfEntry ==
  ASSUME NEW st, Sound(st), NEW m
  PROVE  /\ \A i \in Listed(st) : Matches(st.dir[i].name, m) =>
              FileOf(st, m) = << ChainOf(st, i), st.dir[i].length, st.data[st.dir[i].name] >>
         /\ (\A i \in Listed(st) : ~Matches(st.dir[i].name, m)) =>
              FileOf(st, m) = << {}, 0, NoContent >>
<1>0. st \in FileSystem
  BY DEF Sound
<1>1. /\ Exists(st, m) => /\ FindEntry(st, m) \in Listed(st)
                          /\ Matches(st.dir[FindEntry(st, m)].name, m)
      /\ ~Exists(st, m) => \A i \in Listed(st) : ~Matches(st.dir[i].name, m)
  BY <1>0, FindEntryFacts
<1>2. ASSUME NEW i \in Listed(st), Matches(st.dir[i].name, m)
      PROVE  Exists(st, m) /\ FindEntry(st, m) = i
  BY <1>1, <1>2 DEF Sound, UniqueIn, Matches
<1>3. (\A i \in Listed(st) : ~Matches(st.dir[i].name, m)) => ~Exists(st, m)
  BY <1>1
<1>. QED BY <1>2, <1>3 DEF FileOf

\* A file carried over is the same file.
LEMMA SameFile ==
  ASSUME NEW st, Sound(st), NEW st2, Sound(st2), NEW m,
         \A j \in Listed(st2) : Matches(st2.dir[j].name, m) =>
           \E k \in Listed(st) : Carried(st, st2, k, j),
         \A k \in Listed(st) : Matches(st.dir[k].name, m) =>
           \E j \in Listed(st2) : Carried(st, st2, k, j)
  PROVE  FileOf(st2, m) = FileOf(st, m)
<1>1. CASE \E k \in Listed(st) : Matches(st.dir[k].name, m)
  <2>1. PICK k \in Listed(st) : Matches(st.dir[k].name, m)
    BY <1>1
  <2>2. PICK j \in Listed(st2) : Carried(st, st2, k, j)
    BY <2>1
  <2>3. Matches(st2.dir[j].name, m)
    BY <2>1, <2>2 DEF Carried
  <2>. QED BY <2>1, <2>2, <2>3, FileOfEntry DEF Carried
<1>2. CASE \A k \in Listed(st) : ~Matches(st.dir[k].name, m)
  <2>1. \A j \in Listed(st2) : ~Matches(st2.dir[j].name, m)
    BY <1>2 DEF Carried
  <2>. QED BY <1>2, <2>1, FileOfEntry
<1>. QED BY <1>1, <1>2

\* What deleting a file, or not having it, leaves.
LEMMA DroppedLeaves ==
  ASSUME NEW st, Sound(st), NEW n \in Name
  PROVE  LET room == Dropped(st, n)
         IN  /\ Sound(room) /\ Inherits(st, room) /\ ReservedKept(st, room)
             /\ \A i \in Listed(room) : ~Matches(room.dir[i].name, n)
             /\ \A m : ~Matches(n, m) => FileOf(room, m) = FileOf(st, m)
<1>0. st \in FileSystem
  BY DEF Sound
<1>1. CASE Exists(st, n)
  <2>. DEFINE room == Deleted(st, n)
  <2>1. /\ Sound(room) /\ Inherits(st, room) /\ ReservedKept(st, room)
        /\ \A i \in Listed(room) : ~Matches(room.dir[i].name, n)
        /\ \A k \in Listed(st) : ~Matches(st.dir[k].name, n) =>
             \E j \in Listed(room) : Carried(st, room, k, j)
    BY <1>1, SoundDeleted
  <2>. HIDE DEF room
  <2>2. ASSUME NEW m, ~Matches(n, m) PROVE FileOf(room, m) = FileOf(st, m)
    <3>1. \A x : Matches(x, m) => ~Matches(x, n)
      BY <2>2 DEF Matches
    <3>. QED BY <2>1, <3>1, SameFile DEF Inherits
  <2>. QED BY <1>1, <2>1, <2>2 DEF Dropped, room
<1>2. CASE ~Exists(st, n)
  <2>1. Inherits(st, st) /\ ReservedKept(st, st)
    BY DEF Inherits, Carried, ReservedKept
  <2>. QED BY <1>0, <1>2, <2>1, FindEntryFacts DEF Dropped
<1>. QED BY <1>1, <1>2

\* What add_file leaves, whether it succeeds or not.
LEMMA AddLeaves ==
  ASSUME NEW st, Sound(st), NEW n \in Name, NEW d \in Content
  PROVE  LET st2 == AddResult(st, n, d).fs
         IN  /\ Sound(st2) /\ ReservedKept(st, st2)
             /\ Sized(st) => Sized(st2)
             /\ \A m : ~Matches(n, m) => FileOf(st2, m) = FileOf(st, m)
<1>. DEFINE room == Dropped(st, n)
            need == ClustersNeeded(Length[d])
            laid == Laid(room, n, d)
            size == Len(room.dir)
            Left(st2) == /\ Sound(st2) /\ ReservedKept(st, st2)
                         /\ Sized(st) => Sized(st2)
                         /\ \A m : ~Matches(n, m) => FileOf(st2, m) = FileOf(st, m)
<1>0. need \in Nat /\ need > 0 /\ Length[d] \in Nat
  BY ContentAssumption, NeedsOne
<1>1. /\ Sound(room) /\ Inherits(st, room) /\ ReservedKept(st, room)
      /\ \A i \in Listed(room) : ~Matches(room.dir[i].name, n)
      /\ \A m : ~Matches(n, m) => FileOf(room, m) = FileOf(st, m)
  BY DroppedLeaves
<1>. HIDE DEF room
<1>2. Left(st)
  BY DEF ReservedKept
<1>3. Left(room)
  BY <1>1, SizedInherited
<1>4. ASSUME ~(Cardinality(FreeClusters(room.map)) < need) PROVE Left(laid)
  <2>0. Cardinality(FreeClusters(room.map)) \in Nat
    BY FreeFinite, FS_CardinalityType
  <2>1. FreeClusters(room.map) # {}
    BY <1>0, <1>4, FS_EmptySet
  <2>2. /\ Sound(laid) /\ ReservedKept(room, laid)
        /\ \A i \in Listed(room) : Carried(room, laid, i, i)
        /\ Listed(laid) = Listed(room) \cup {size + 1}
        /\ laid.dir[size + 1].name = n /\ laid.dir[size + 1].length = Length[d]
        /\ ChainOf(laid, size + 1) = LowestFree(room.map, need)
    BY <1>1, <2>1, SoundLaid
  <2>3. Cardinality(LowestFree(room.map, need)) = need
    BY <1>0, <1>4, <2>0, LowestFreeCount
  <2>. HIDE DEF laid, size, need
  <2>4. ReservedKept(st, laid)
    BY <1>1, <2>2 DEF ReservedKept
  <2>5. ASSUME Sized(st) PROVE Sized(laid)
    <3>1. Sized(room)
      BY <1>3, <2>5
    <3>. QED BY <2>2, <2>3, <3>1 DEF Sized, Carried, need
  <2>6. ASSUME NEW m, ~Matches(n, m) PROVE FileOf(laid, m) = FileOf(st, m)
    <3>1. FileOf(laid, m) = FileOf(room, m)
      BY <1>1, <2>2, <2>6, SameFile
    <3>. QED BY <1>1, <2>6, <3>1
  <2>. QED BY <2>2, <2>4, <2>5, <2>6
<1>5. AddResult(st, n, d).fs = st \/ AddResult(st, n, d).fs = room
        \/ (~(Cardinality(FreeClusters(room.map)) < need) /\ AddResult(st, n, d).fs = laid)
  <2>. DEFINE short == Cardinality(FreeClusters(room.map)) < need
              full  == ~Exists(st, n) /\ Len(st.dir) >= MaxEntries
  <2>1. AddResult(st, n, d) =
          IF n \notin LayableName THEN [code |-> "InvalidArgument", fs |-> st]
          ELSE IF full THEN [code |-> "Exhausted", fs |-> st]
          ELSE IF short THEN [code |-> "Exhausted", fs |-> room]
          ELSE [code |-> "ok", fs |-> laid]
    BY Zenon DEF AddResult, room
  <2>. HIDE DEF short, full, laid
  <2>2. AddResult(st, n, d).fs \in {st, room} \/ (~short /\ AddResult(st, n, d).fs = laid)
    BY <2>1
  <2>. QED BY <2>2 DEF short
<1>. HIDE DEF laid
<1>6. Left(AddResult(st, n, d).fs)
  <2>. HIDE DEF Left
  <2>. QED BY <1>2, <1>3, <1>4, <1>5
<1>. QED BY <1>6

-----------------------------------------------------------------------------
(***************************************************************************)
(* insert_file.                                                            *)
(***************************************************************************)

\* Files added one after the other are added one after the other: the k-th
\* state is the one before it with file k, or the one before it when that
\* was refused.
LEMMA AddedSteps ==
  ASSUME NEW st, NEW files, Len(files) \in Nat
  PROVE  \E laid :
           /\ laid[0] = [code |-> "ok", fs |-> st]
           /\ AddedInOrder(st, files) = laid[Len(files)]
           /\ \A k \in 1 .. Len(files) :
                laid[k] = IF laid[k - 1].code # "ok" THEN laid[k - 1]
                          ELSE AddResult(laid[k - 1].fs, files[k].name, files[k].content)
<1>. DEFINE N == Len(files)
            First == [code |-> "ok", fs |-> st]
            After(before, k) == IF before.code # "ok" THEN before
                                ELSE AddResult(before.fs, files[k].name, files[k].content)
            Rec(f, n) == f = [k \in 0 .. n |-> IF k = 0 THEN First ELSE After(f[k - 1], k)]
            T == {n \in Nat : \E f : Rec(f, n)}
<1>. HIDE DEF First, After
<1>1. 0 \in T
  <2>. DEFINE f0 == [k \in 0 .. 0 |-> First]
  <2>1. f0 = [k \in 0 .. 0 |-> IF k = 0 THEN First ELSE After(f0[k - 1], k)]
    OBVIOUS
  <2>. QED BY <2>1
<1>2. ASSUME NEW n \in Nat, n \in T PROVE n + 1 \in T
  <2>1. PICK f : Rec(f, n)
    BY <1>2
  <2>. DEFINE g == [k \in 0 .. n + 1 |-> IF k =< n THEN f[k] ELSE After(f[n], n + 1)]
  <2>2. \A k \in 0 .. n : g[k] = f[k]
    OBVIOUS
  <2>3. \A k \in 0 .. n + 1 : g[k] = IF k = 0 THEN First ELSE After(g[k - 1], k)
    <3>. TAKE k \in 0 .. n + 1
    <3>1. CASE k = 0
      BY <2>1, <2>2, <3>1
    <3>2. CASE k # 0 /\ k =< n
      BY <2>1, <2>2, <3>2
    <3>3. CASE k = n + 1
      BY <2>2, <3>3
    <3>. QED BY <3>1, <3>2, <3>3
  <2>4. \E h : Rec(h, n + 1)
    <3>1. Rec(g, n + 1)
      BY <2>3
    <3>. HIDE DEF g
    <3>. QED BY <3>1
  <2>. HIDE DEF Rec
  <2>. QED BY <2>4
<1>3. N \in T
  <2>. HIDE DEF T
  <2>. QED BY <1>1, <1>2, NatInductionOnSets
<1>. DEFINE laid == CHOOSE f : Rec(f, N)
<1>4. Rec(laid, N)
  <2>1. \E f : Rec(f, N)
    <3>. HIDE DEF Rec
    <3>. QED BY <1>3
  <2>. HIDE DEF Rec
  <2>. QED BY <2>1
<1>5. AddedInOrder(st, files) = laid[N]
  BY DEF AddedInOrder, Rec, First, After
<1>. HIDE DEF laid
<1>6. laid[0] = First /\ \A k \in 1 .. N : laid[k] = After(laid[k - 1], k)
  BY <1>4
<1>. QED BY <1>5, <1>6 DEF First, After

LEMMA AddedLeaves ==
  ASSUME NEW st, Sound(st), NEW files, Len(files) \in Nat,
         \A k \in 1 .. Len(files) : files[k].name \in Name /\ files[k].content \in Content
  PROVE  LET st2 == AddedInOrder(st, files).fs
         IN  ReservedKept(st, st2) /\ (Sized(st) => Sized(st2))
<1>. DEFINE N == Len(files)
<1>1. PICK laid :
        /\ laid[0] = [code |-> "ok", fs |-> st]
        /\ AddedInOrder(st, files) = laid[N]
        /\ \A k \in 1 .. N :
             laid[k] = IF laid[k - 1].code # "ok" THEN laid[k - 1]
                       ELSE AddResult(laid[k - 1].fs, files[k].name, files[k].content)
  BY AddedSteps
<1>. DEFINE Left(st2) == /\ Sound(st2) /\ ReservedKept(st, st2)
                         /\ Sized(st) => Sized(st2)
            U == {k \in Nat : k =< N => Left(laid[k].fs)}
<1>2. 0 \in U
  <2>1. laid[0].fs = st
    BY <1>1
  <2>. QED BY <2>1 DEF ReservedKept
<1>3. ASSUME NEW k \in Nat, k \in U PROVE k + 1 \in U
  <2>. SUFFICES ASSUME k + 1 =< N PROVE Left(laid[k + 1].fs)
    OBVIOUS
  <2>1. k + 1 \in 1 .. N /\ (k + 1) - 1 = k
    OBVIOUS
  <2>2. Left(laid[k].fs)
    BY <1>3
  <2>3. CASE laid[k].code # "ok"
    <3>1. laid[k + 1] = laid[k]
      BY <1>1, <2>1, <2>3
    <3>. QED BY <2>2, <3>1
  <2>4. CASE laid[k].code = "ok"
    <3>. DEFINE before == laid[k].fs
                st2 == AddResult(before, files[k + 1].name, files[k + 1].content).fs
    <3>1. laid[k + 1].fs = st2
      BY <1>1, <2>1, <2>4
    <3>2. files[k + 1].name \in Name /\ files[k + 1].content \in Content
      BY <2>1
    <3>3. Sound(st2) /\ ReservedKept(before, st2) /\ (Sized(before) => Sized(st2))
      BY <2>2, <3>2, AddLeaves
    <3>. HIDE DEF before, st2
    <3>4. Left(st2)
      BY <2>2, <3>3 DEF ReservedKept, before
    <3>. QED BY <3>1, <3>4
  <2>. QED BY <2>3, <2>4
<1>4. N \in U
  <2>. HIDE DEF U
  <2>. QED BY <1>2, <1>3, NatInductionOnSets
<1>. QED BY <1>1, <1>4

\* What insert_file leaves: it lifts the files behind the place and adds them
\* again behind the new one.
LEMMA InsertLeaves ==
  ASSUME NEW st, Sound(st), NEW position \in Nat, NEW n \in Name, NEW d \in Content
  PROVE  LET st2 == InsertResult(st, position, n, d).fs
         IN  ReservedKept(st, st2) /\ (Sized(st) => Sized(st2))
<1>1. /\ Sound(Dropped(st, n)) /\ Inherits(st, Dropped(st, n))
      /\ ReservedKept(st, Dropped(st, n))
  BY DroppedLeaves
<1>2. PICK base, files :
        /\ InsertResult(st, position, n, d) = AddedInOrder(base, files)
        /\ AddsAgain(Dropped(st, n), base, files)
  BY InsertIsAdding
<1>3. /\ Sound(base) /\ Inherits(Dropped(st, n), base) /\ ReservedKept(Dropped(st, n), base)
      /\ Len(files) \in Nat
      /\ \A k \in 1 .. Len(files) : files[k].name \in Name /\ files[k].content \in Content
  BY <1>2 DEF AddsAgain
<1>4. /\ ReservedKept(base, AddedInOrder(base, files).fs)
      /\ Sized(base) => Sized(AddedInOrder(base, files).fs)
  BY <1>3, AddedLeaves
<1>5. Sized(st) => Sized(base)
  BY <1>1, <1>3, SizedInherited
<1>. QED BY <1>1, <1>2, <1>3, <1>4, <1>5 DEF ReservedKept

-----------------------------------------------------------------------------
(***************************************************************************)
(* The theorems.                                                           *)
(***************************************************************************)

\* A step as the object sees it.
LEMMA NextSplit ==
  ASSUME [Next]_vars
  PROVE  \/ /\ last'.op = "format"
            /\ \E root \in RootChoice \cup {kDeferRoot}, boundary \in BoundaryChoice :
                 Format(root, boundary)
         \/ \E block \in RootChoice :
              /\ RootInRange(block) /\ IsBlockFree(fs, block)
              /\ fs' = PlaceRoot(ReleaseRoot(fs), block)
         \/ \E clusters : \E value \in {NotStated, Free, Unnamed} :
              /\ \A c \in clusters : fs.map[c] \in {Free, Reserved}
              /\ fs' = SetAside(fs, clusters, value)
         \/ \E n \in Name, d \in Content : AddFile(n, d)
         \/ \E position \in 0 .. MaxEntries, n \in Name, d \in Content :
              InsertFile(position, n, d)
         \/ \E n \in Name : DeleteFile(n)
         \/ fs' = fs
<1>1. ASSUME NEW root, NEW boundary, Format(root, boundary) PROVE last'.op = "format"
  BY <1>1 DEF Format, Refuse, Reply
<1>2. ASSUME NEW block, SetRootBlock(block)
      PROVE  \/ fs' = fs
             \/ /\ RootInRange(block) /\ IsBlockFree(fs, block)
                /\ fs' = PlaceRoot(ReleaseRoot(fs), block)
  BY <1>2, Zenon DEF SetRootBlock, Refuse
<1>. DEFINE Aside == \E clusters : \E value \in {NotStated, Free, Unnamed} :
                       /\ \A c \in clusters : fs.map[c] \in {Free, Reserved}
                       /\ fs' = SetAside(fs, clusters, value)
<1>3. ASSUME NEW start, NEW count, ReserveBlocks(start, count) PROVE fs' = fs \/ Aside
  BY <1>3, Zenon DEF ReserveBlocks, Refuse
<1>4. ASSUME NEW op, NEW clusters, NEW value \in {Free, Unnamed}, Withhold(op, clusters, value)
      PROVE  fs' = fs \/ Aside
  <2>1. CASE fs' = SetAside(fs, clusters, value) /\ \A c \in clusters : Withholdable(fs, c)
    <3>1. \A c \in clusters : fs.map[c] \in {Free, Reserved}
      BY <2>1 DEF Withholdable
    <3>. QED BY <2>1, <3>1, Zenon
  <2>. QED BY <1>4, <2>1, Zenon DEF Withhold, Refuse
<1>5. ASSUME NEW w \in WithholdChoice,
             WithholdClusters(w[1], w[2], w[3]) \/ WithholdBlocks(w[1], w[2], w[3])
      PROVE  fs' = fs \/ Aside
  <2>1. w[3] \in {Free, Unnamed}
    BY InputAssumption
  <2>2. fs' = fs \/ \E op, clusters : Withhold(op, clusters, w[3])
    BY <1>5, Zenon DEF WithholdClusters, WithholdBlocks, Refuse
  <2>. QED BY <1>4, <2>1, <2>2
<1>6. CASE Next
  <2>. HIDE DEF Aside
  <2>. QED BY <1>1, <1>2, <1>3, <1>5, <1>6, Zenon DEF Next, Aside
<1>7. CASE UNCHANGED vars
  BY <1>7 DEF vars
<1>. QED BY <1>6, <1>7

\* The chain of a file keeps the length the file needs through every call.
SizedInv == Inv /\ Sized(fs)

LEMMA NextKeepsSized == SizedInv /\ [Next]_vars => SizedInv'
<1>. SUFFICES ASSUME Inv, Sized(fs), [Next]_vars PROVE Sized(fs')
  BY NextInv DEF SizedInv
<1>0. Sound(fs)
  BY DEF Inv
<1>1. ASSUME NEW root \in RootChoice \cup {kDeferRoot}, NEW boundary \in BoundaryChoice,
             Format(root, boundary)
      PROVE  Sized(fs')
  <2>1. CASE fs' = Formatted(fs, root, boundary)
    <3>. DEFINE blank == [FormattedMap(boundary) EXCEPT !.rootBlock = fs.rootBlock]
    <3>1. blank.dir = << >> /\ PlaceRoot(blank, root).dir = << >>
      BY DEF FormattedMap, PlaceRoot
    <3>2. fs'.dir = << >>
      BY <2>1, <3>1 DEF Formatted
    <3>. QED BY <3>2, EmptySeq DEF Sized, Listed
  <2>. QED BY <1>1, <2>1 DEF Format, Refuse
<1>2. ASSUME NEW block \in RootChoice, RootInRange(block), IsBlockFree(fs, block),
             fs' = PlaceRoot(ReleaseRoot(fs), block)
      PROVE  Sized(fs')
  <2>1. /\ Inherits(fs, ReleaseRoot(fs))
        /\ Inherits(ReleaseRoot(fs), PlaceRoot(ReleaseRoot(fs), block))
    BY <1>0, <1>2, RootMoves
  <2>2. Sized(ReleaseRoot(fs))
    BY <2>1, SizedInherited
  <2>. QED BY <1>2, <2>1, <2>2, SizedInherited
<1>3. ASSUME NEW clusters, NEW value \in {NotStated, Free, Unnamed},
             \A c \in clusters : fs.map[c] \in {Free, Reserved},
             fs' = SetAside(fs, clusters, value)
      PROVE  Sized(fs')
  BY <1>0, <1>3, SoundKept, SizedInherited
<1>4. ASSUME NEW n \in Name, NEW d \in Content, AddFile(n, d) PROVE Sized(fs')
  BY <1>0, <1>4, AddLeaves DEF AddFile
<1>5. ASSUME NEW position \in 0 .. MaxEntries, NEW n \in Name, NEW d \in Content,
             InsertFile(position, n, d)
      PROVE  Sized(fs')
  <2>1. position \in Nat
    BY ShapeAssumption
  <2>. QED BY <1>0, <1>5, <2>1, InsertLeaves DEF InsertFile
<1>6. ASSUME NEW n \in Name, DeleteFile(n) PROVE Sized(fs')
  <2>1. CASE Exists(fs, n) /\ fs' = Deleted(fs, n)
    BY <1>0, <2>1, SoundDeleted, SizedInherited
  <2>. QED BY <1>6, <2>1 DEF DeleteFile, Refuse
<1>7. CASE fs' = fs
  BY <1>7
<1>. QED BY <1>1, <1>2, <1>3, <1>4, <1>5, <1>6, <1>7, NextSplit

\* The chain of a file has room for its length and nothing to spare, through
\* every add, replacement, re-laying and move of the root.
THEOREM ChainsHoldTheirFiles == Spec => []ChainHoldsFile
<1>1. Init => SizedInv
  <2>1. \A boundary : FormattedMap(boundary).dir = << >>
    BY DEF FormattedMap
  <2>. QED BY <2>1, InitInv, EmptySeq DEF Init, SizedInv, Sized, Listed
<1>2. SizedInv => ChainHoldsFile
  <2>. SUFFICES ASSUME Inv, Sized(fs), NEW i \in Listed(fs)
                PROVE  LET room == Cardinality(ChainOf(fs, i)) * ClusterBytes
                       IN  /\ fs.dir[i].length =< room
                           /\ room - ClusterBytes < fs.dir[i].length \/ room = ClusterBytes
    BY DEF ChainHoldsFile, SizedInv
  <2>1. fs.dir[i].length \in Nat
    BY FileSystemFields DEF Inv, Sound
  <2>2. Cardinality(ChainOf(fs, i)) = ClustersNeeded(fs.dir[i].length)
    BY DEF Sized
  <2>. QED BY <2>1, <2>2, NeededIsEnough
<1>. QED BY <1>1, <1>2, NextKeepsSized, PTL DEF Spec

\* A withheld cluster, the root's own included, stays out of the free pool
\* through every call but a format and a move of the root, which gives back the
\* clusters of the block it leaves and no other.
THEOREM WithheldStaysKept == Spec => WithheldStays
<1>1. ASSUME Inv, [Next]_vars, last'.op # "format", NEW c \in Cluster, fs.stated[c] # NotStated
      PROVE  \/ fs'.map[c] = Reserved
             \/ fs'.rootBlock # fs.rootBlock /\ c \in RootClusters(fs)
  <2>0. Sound(fs) /\ fs \in FileSystem /\ fs.map[c] = Reserved
    BY <1>1 DEF Inv, Sound, WithheldIn
  <2>1. ASSUME NEW block \in RootChoice, RootInRange(block), IsBlockFree(fs, block),
               fs' = PlaceRoot(ReleaseRoot(fs), block), c \in RootClusters(fs)
        PROVE  fs'.rootBlock # fs.rootBlock
    <3>1. fs.rootPlaced /\ RootFirst(fs) \in Cluster /\ fs.map[RootFirst(fs)] = Table
      BY <2>0, <2>1 DEF Sound, RootHeldIn, RootClusters
    <3>2. fs.rootBlock = block => RootFirst(fs) \in BlockClusters(block)
      <4>1. /\ fs.rootBlock \in Nat /\ fs.rootOffset \in 0 .. Ratio - 1 /\ Ratio \in Nat
        BY <2>0, ShapeAssumption DEF FileSystem
      <4>2. fs.rootBlock * Ratio \in Nat
        BY <4>1
      <4>. QED BY <4>1, <4>2 DEF RootFirst, BlockClusters
    <3>3. fs.rootBlock # block
      BY <2>1, <3>1, <3>2 DEF IsBlockFree, Table, Free
    <3>4. ReleaseRoot(fs) \in FileSystem
      BY <2>0, SoundReleaseRoot DEF Sound
    <3>5. fs'.rootBlock = block
      BY <2>1, <3>4 DEF PlaceRoot, FileSystem
    <3>. QED BY <3>3, <3>5
  <2>2. ASSUME NEW block \in RootChoice, RootInRange(block), IsBlockFree(fs, block),
               fs' = PlaceRoot(ReleaseRoot(fs), block), c \notin RootClusters(fs)
        PROVE  fs'.map[c] = Reserved
    <3>1. c \notin BlockClusters(block)
      BY <2>0, <2>2 DEF IsBlockFree, Reserved, Free
    <3>2. block * Ratio \in BlockClusters(block)
      BY <2>2, BlockInMap, InputAssumption DEF RootInRange
    <3>3. ReleaseRoot(fs).map[c] = Reserved
      BY <1>1, <2>0, <2>2 DEF ReleaseRoot, Freed, FileSystem
    <3>4. ReleaseRoot(fs) \in FileSystem
      BY <2>0, SoundReleaseRoot DEF Sound
    <3>5. PlaceRoot(ReleaseRoot(fs), block).map[c] = Reserved
      <4>. DEFINE st == ReleaseRoot(fs)
                  own == BlockClusters(block)
                  first == block * Ratio
                  map == [x \in Cluster |-> IF x = first THEN Table
                                            ELSE IF x \in own \ {first} THEN Reserved
                                            ELSE st.map[x]]
      <4>. HIDE DEF st
      <4>1. PlaceRoot(st, block).map = map
        BY <3>4 DEF PlaceRoot, FileSystem, st
      <4>2. map[c] = Reserved
        BY <1>1, <3>1, <3>2, <3>3 DEF st
      <4>. QED BY <4>1, <4>2 DEF st
    <3>. QED BY <2>2, <3>5
  <2>3. ASSUME NEW clusters, NEW value, fs' = SetAside(fs, clusters, value)
        PROVE  fs'.map[c] = Reserved
    BY <1>1, <2>0, <2>3 DEF SetAside, FileSystem
  <2>4. ASSUME NEW n \in Name, NEW d \in Content, AddFile(n, d) PROVE fs'.map[c] = Reserved
    BY <1>1, <2>0, <2>4, AddLeaves DEF AddFile, ReservedKept
  <2>5. ASSUME NEW position \in 0 .. MaxEntries, NEW n \in Name, NEW d \in Content,
               InsertFile(position, n, d)
        PROVE  fs'.map[c] = Reserved
    <3>1. position \in Nat
      BY ShapeAssumption
    <3>. QED BY <1>1, <2>0, <2>5, <3>1, InsertLeaves DEF InsertFile, ReservedKept
  <2>6. ASSUME NEW n \in Name, DeleteFile(n) PROVE fs'.map[c] = Reserved
    <3>1. CASE Exists(fs, n) /\ fs' = Deleted(fs, n)
      BY <1>1, <2>0, <3>1, SoundDeleted DEF ReservedKept
    <3>. QED BY <2>0, <2>6, <3>1 DEF DeleteFile, Refuse
  <2>7. ASSUME fs' = fs PROVE fs'.map[c] = Reserved
    BY <2>0, <2>7
  <2>. QED BY <1>1, <2>1, <2>2, <2>3, <2>4, <2>5, <2>6, <2>7, NextSplit
<1>2. Inv /\ [Next]_vars =>
        [last'.op # "format" =>
           \A c \in Cluster :
             fs.stated[c] # NotStated =>
               \/ fs'.map[c] = Reserved
               \/ fs'.rootBlock # fs.rootBlock /\ c \in RootClusters(fs)]_vars
  BY <1>1
<1>. QED BY <1>2, SpecInv, PTL DEF Spec, WithheldStays

\* Adding, replacing or deleting a file, a refused or failed call included,
\* neither moves nor alters a file of another name.
THEOREM OthersAreKept == Spec => OtherFilesKept
<1>1. ASSUME Inv, Next, last'.op \in {"add_file", "delete_file"}
      PROVE  \E n \in Name : \A m \in Name : ~Matches(n, m) => FileOf(fs', m) = FileOf(fs, m)
  <2>0. Sound(fs)
    BY <1>1 DEF Inv
  <2>1. ASSUME NEW n \in Name, NEW d \in Content, AddFile(n, d)
        PROVE  \A m \in Name : ~Matches(n, m) => FileOf(fs', m) = FileOf(fs, m)
    BY <2>0, <2>1, AddLeaves DEF AddFile
  <2>2. ASSUME NEW n \in Name, DeleteFile(n)
        PROVE  \A m \in Name : ~Matches(n, m) => FileOf(fs', m) = FileOf(fs, m)
    <3>1. CASE Exists(fs, n) /\ fs' = Deleted(fs, n)
      BY <2>0, <3>1, DroppedLeaves DEF Dropped
    <3>. QED BY <2>2, <3>1 DEF DeleteFile, Refuse
  <2>3. \/ \E n \in Name, d \in Content : AddFile(n, d)
        \/ \E n \in Name : DeleteFile(n)
    <3>. USE DEF Refuse, Reply
    <3>1. ASSUME NEW root, NEW boundary, Format(root, boundary) PROVE last'.op = "format"
      BY <3>1 DEF Format
    <3>2. ASSUME NEW block, SetRootBlock(block) PROVE last'.op = "set_root_block"
      BY <3>2 DEF SetRootBlock
    <3>3. ASSUME NEW start, NEW count, ReserveBlocks(start, count)
          PROVE  last'.op = "reserve_blocks"
      BY <3>3 DEF ReserveBlocks
    <3>4. ASSUME NEW first, NEW count, NEW value, WithholdClusters(first, count, value)
          PROVE  last'.op = "withhold_clusters"
      BY <3>4 DEF WithholdClusters, Withhold
    <3>5. ASSUME NEW start, NEW count, NEW value, WithholdBlocks(start, count, value)
          PROVE  last'.op = "withhold_blocks"
      BY <3>5 DEF WithholdBlocks, Withhold
    <3>6. ASSUME NEW position, NEW n, NEW d, InsertFile(position, n, d)
          PROVE  last'.op = "insert_file"
      BY <3>6 DEF InsertFile
    <3>. HIDE DEF Refuse, Reply
    <3>. QED BY <1>1, <3>1, <3>2, <3>3, <3>4, <3>5, <3>6 DEF Next
  <2>. QED BY <2>1, <2>2, <2>3
<1>2. Inv /\ [Next]_vars =>
        [last'.op \in {"add_file", "delete_file"} =>
           \E n \in Name : \A m \in Name :
             ~Matches(n, m) => FileOf(fs', m) = FileOf(fs, m)]_vars
  BY <1>1
<1>. QED BY <1>2, SpecInv, PTL DEF Spec, OtherFilesKept

-----------------------------------------------------------------------------
(***************************************************************************)
(* The flash filesystem implements the store: every call, whatever it      *)
(* leaves half done when it fails, does to the list of files what the      *)
(* store allows, for every map, directory, name and content.               *)
(***************************************************************************)

File == [name : Name, content : Content]

\* The list the store keeps, and its entries by index.
LEMMA FilesOfFacts ==
  ASSUME NEW st, Sound(st)
  PROVE  /\ FilesOf(st) \in Seq(File)
         /\ Len(FilesOf(st)) = Len(st.dir) /\ Len(st.dir) \in Nat
         /\ \A i \in 1 .. Len(st.dir) :
              /\ FilesOf(st)[i] \in File
              /\ FilesOf(st)[i].name = st.dir[i].name
              /\ FilesOf(st)[i].content = st.data[st.dir[i].name]
<1>. DEFINE f == FilesOf(st)
            size == Len(st.dir)
<1>0. st \in FileSystem
  BY DEF Sound
<1>1. size \in Nat
  BY <1>0, FileSystemFields
<1>2. f = [i \in 1 .. size |-> [name |-> st.dir[i].name, content |-> st.data[st.dir[i].name]]]
  BY DEF FilesOf, Listed
<1>3. \A i \in 1 .. size : st.dir[i].name \in Name /\ st.data[st.dir[i].name] \in Content
  <2>1. \A i \in Listed(st) : st.dir[i].name \in Name
    BY <1>0, FileSystemFields
  <2>2. \A i \in Listed(st) : st.data[st.dir[i].name] # NoContent
    BY DEF Sound, CachedIn
  <2>3. st.data \in [Name -> Content \cup {NoContent}]
    BY <1>0, FileSystemFields
  <2>. QED BY <2>1, <2>2, <2>3 DEF Listed
<1>. HIDE DEF f, size
<1>4. \A i \in 1 .. size : /\ f[i] \in File /\ f[i].name = st.dir[i].name
                           /\ f[i].content = st.data[st.dir[i].name]
  BY <1>2, <1>3 DEF File
<1>5. f \in [1 .. size -> File]
  BY <1>2, <1>4
<1>6. f \in Seq(File) /\ Len(f) = size
  <2>1. f \in Seq(File)
    BY <1>1, <1>5, SeqDef
  <2>2. Len(f) \in Nat /\ DOMAIN f = 1 .. Len(f) /\ DOMAIN f = 1 .. size
    BY <1>5, <2>1, LenProperties
  <2>. HIDE DEF f
  <2>3. \A k \in Nat \ {0} : k =< Len(f) <=> k =< size
    <3>1. \A k : k \in 1 .. Len(f) <=> k \in 1 .. size
      BY <2>2
    <3>. QED BY <1>1, <2>2, <3>1
  <2>4. Len(f) = size
    <3>1. PICK a \in Nat : a = Len(f)
      BY <2>2
    <3>2. PICK b \in Nat : b = size
      BY <1>1
    <3>3. \A k \in Nat \ {0} : k =< a <=> k =< b
      BY <2>3, <3>1, <3>2
    <3>4. ~(b + 1 =< a) /\ ~(a + 1 =< b)
      BY <3>3
    <3>5. a = b
      BY <3>4
    <3>. QED BY <3>1, <3>2, <3>5
  <2>. QED BY <2>1, <2>4
<1>. QED BY <1>1, <1>4, <1>6 DEF f, size

-----------------------------------------------------------------------------
(***************************************************************************)
(* Lists of files.                                                         *)
(***************************************************************************)

\* Some file of the list goes by name n.
Hit(list, n, i) == i \in 1 .. Len(list) /\ Fold[list[i].name] = Fold[n]

\* At most one does, for every name.
Apart(list) ==
  \A i, j \in 1 .. Len(list) : Fold[list[i].name] = Fold[list[j].name] => i = j

\* A filesystem lists no name twice.
LEMMA FilesApartByName ==
  ASSUME NEW st, Sound(st)
  PROVE  Apart(FilesOf(st))
BY FilesOfFacts DEF Sound, UniqueIn, Matches, Listed, Apart

\* A part of a list.
LEMMA Part ==
  ASSUME NEW list \in Seq(File), NEW a \in 1 .. Len(list) + 1, NEW b \in a - 1 .. Len(list)
  PROVE  /\ SubSeq(list, a, b) \in Seq(File)
         /\ Len(SubSeq(list, a, b)) = b - a + 1
         /\ \A k \in 1 .. b - a + 1 : SubSeq(list, a, b)[k] = list[a + k - 1]
<1>1. Len(list) \in Nat /\ a \in Int /\ b \in Int
  BY LenProperties
<1>2. \A k \in a .. b : list[k] \in File
  BY <1>1, ElementOfSeq
<1>3. Len(SubSeq(list, a, b)) = IF a <= b THEN b - a + 1 ELSE 0
  BY <1>1, <1>2, SubSeqProperties
<1>4. Len(SubSeq(list, a, b)) = b - a + 1
  BY <1>1, <1>3
<1>. QED BY <1>1, <1>2, <1>4, SubSeqProperties

\* Two lists joined.
LEMMA Joined ==
  ASSUME NEW s \in Seq(File), NEW t \in Seq(File)
  PROVE  /\ s \o t \in Seq(File) /\ Len(s \o t) = Len(s) + Len(t)
         /\ \A i \in 1 .. Len(s) + Len(t) :
              (s \o t)[i] = IF i =< Len(s) THEN s[i] ELSE t[i - Len(s)]
<1>1. s \o t \in Seq(File) /\ Len(s \o t) = Len(s) + Len(t)
  BY ConcatProperties
<1>2. \A i \in 1 .. Len(s) + Len(t) :
        (s \o t)[i] = IF i =< Len(s) THEN s[i] ELSE t[i - Len(s)]
  BY ConcatProperties
<1>. QED BY <1>1, <1>2

\* A list without a name it has not is the list; without one it has, the list
\* without that entry.
LEMMA WithoutNone ==
  ASSUME NEW list, NEW n, \A i : ~Hit(list, n, i)
  PROVE  Store!Without(list, n) = list
BY DEF Store!Without, Hit

\* One entry goes when its name is taken off.
LEMMA WithoutOne ==
  ASSUME NEW list, NEW n, NEW i, Hit(list, n, i), Apart(list)
  PROVE  Store!Without(list, n) = WithoutIndex(list, i)
<1>. DEFINE hits == {k \in 1 .. Len(list) : Fold[list[k].name] = Fold[n]}
            hit  == CHOOSE k \in hits : TRUE
<1>1. i \in hits /\ \A k \in hits : k = i
  BY DEF Hit, Apart
<1>2. hit = i /\ hits # {}
  <2>. HIDE DEF hits
  <2>. QED BY <1>1
<1>3. Store!Without(list, n) =
        IF hits = {} THEN list
        ELSE SubSeq(list, 1, hit - 1) \o SubSeq(list, hit + 1, Len(list))
  BY DEF Store!Without
<1>. HIDE DEF hits, hit
<1>. QED BY <1>2, <1>3 DEF WithoutIndex

-----------------------------------------------------------------------------
(***************************************************************************)
(* delete_file and add_file.                                               *)
(***************************************************************************)

\* Deleting a file, or not having it, takes its name off the list.
LEMMA DroppedList ==
  ASSUME NEW st, Sound(st), NEW n \in Name
  PROVE  FilesOf(Dropped(st, n)) = Store!Without(FilesOf(st), n)
<1>. DEFINE list == FilesOf(st)
            room == Dropped(st, n)
<1>0. st \in FileSystem /\ Sound(room)
  BY DroppedLeaves DEF Sound
<1>1. /\ list \in Seq(File) /\ Len(list) = Len(st.dir) /\ Len(st.dir) \in Nat
      /\ \A i \in 1 .. Len(st.dir) : /\ list[i] \in File /\ list[i].name = st.dir[i].name
                                     /\ list[i].content = st.data[st.dir[i].name]
  BY FilesOfFacts
<1>2. /\ FilesOf(room) \in Seq(File) /\ Len(FilesOf(room)) = Len(room.dir)
      /\ \A i \in 1 .. Len(room.dir) :
           /\ FilesOf(room)[i] \in File /\ FilesOf(room)[i].name = room.dir[i].name
           /\ FilesOf(room)[i].content = room.data[room.dir[i].name]
  BY <1>0, FilesOfFacts
<1>3. Apart(list)
  BY FilesApartByName
<1>4. CASE ~Exists(st, n)
  <2>1. \A i : ~Hit(list, n, i)
    <3>. HIDE DEF list
    <3>. QED BY <1>0, <1>1, <1>4, FindEntryFacts DEF Hit, Matches, Listed
  <2>2. room = st
    BY <1>4 DEF Dropped
  <2>. QED BY <2>1, <2>2, WithoutNone
<1>5. CASE Exists(st, n)
  <2>. DEFINE i == FindEntry(st, n)
              size == Len(st.dir)
  <2>1. i \in 1 .. size /\ Matches(st.dir[i].name, n)
    BY <1>0, <1>5, FindEntryFacts DEF Listed
  <2>2. /\ room.data = [st.data EXCEPT ![n] = NoContent]
        /\ room.dir = WithoutIndex(st.dir, i)
    BY <1>0, <1>5 DEF Dropped, Deleted, FileSystem
  <2>. HIDE DEF list, room, i
  <2>3. Store!Without(list, n) = WithoutIndex(list, i)
    <3>1. Hit(list, n, i)
      BY <1>1, <2>1 DEF Hit, Matches
    <3>. QED BY <1>3, <3>1, WithoutOne
  <2>4. /\ Len(room.dir) = size - 1
        /\ \A k \in 1 .. size - 1 : room.dir[k] = IF k < i THEN st.dir[k] ELSE st.dir[k + 1]
    <3>1. st.dir \in Seq(Entry) /\ i \in 1 .. Len(st.dir)
      BY <1>0, <2>1, FileSystemFields
    <3>2. /\ Len(WithoutIndex(st.dir, i)) = Len(st.dir) - 1
          /\ \A k \in 1 .. Len(st.dir) - 1 :
               WithoutIndex(st.dir, i)[k] = IF k < i THEN st.dir[k] ELSE st.dir[k + 1]
      BY <3>1, WithoutIndexFacts
    <3>. QED BY <2>2, <3>2
  <2>5. /\ WithoutIndex(list, i) \in Seq(File) /\ Len(WithoutIndex(list, i)) = size - 1
        /\ \A k \in 1 .. size - 1 :
             WithoutIndex(list, i)[k] = IF k < i THEN list[k] ELSE list[k + 1]
    <3>1. i \in 1 .. Len(list) /\ Len(list) = size
      BY <1>1, <2>1
    <3>. HIDE DEF size
    <3>2. /\ WithoutIndex(list, i) \in Seq(File) /\ Len(WithoutIndex(list, i)) = Len(list) - 1
          /\ \A k \in 1 .. Len(list) - 1 :
               WithoutIndex(list, i)[k] = IF k < i THEN list[k] ELSE list[k + 1]
      BY <1>1, <3>1, WithoutIndexFacts
    <3>. QED BY <3>1, <3>2
  <2>6. ASSUME NEW k \in 1 .. size - 1 PROVE FilesOf(room)[k] = WithoutIndex(list, i)[k]
    <3>. DEFINE at == IF k < i THEN k ELSE k + 1
    <3>1. at \in 1 .. size /\ at # i
      BY <1>1, <2>1
    <3>2. room.dir[k] = st.dir[at] /\ WithoutIndex(list, i)[k] = list[at]
      BY <2>4, <2>5
    <3>. HIDE DEF at, size
    <3>3. st.dir[at].name # n /\ st.dir[at].name \in Name
      BY <1>0, <2>1, <3>1, FileSystemFields DEF Sound, UniqueIn, Matches, Listed, size
    <3>4. room.data[st.dir[at].name] = st.data[st.dir[at].name]
      BY <1>0, <2>2, <3>3, FileSystemFields
    <3>5. k \in 1 .. Len(room.dir)
      BY <2>4
    <3>6. /\ FilesOf(room)[k] \in File /\ list[at] \in File
          /\ FilesOf(room)[k].name = list[at].name
          /\ FilesOf(room)[k].content = list[at].content
      BY <1>1, <1>2, <3>1, <3>2, <3>4, <3>5 DEF size
    <3>7. FilesOf(room)[k] = list[at]
      BY <3>6 DEF File
    <3>. QED BY <3>2, <3>7
  <2>7. Len(FilesOf(room)) = size - 1
    BY <1>2, <2>4
  <2>8. FilesOf(room) = WithoutIndex(list, i)
    BY <1>2, <2>5, <2>6, <2>7, SeqEqual
  <2>. QED BY <2>3, <2>8 DEF list, room
<1>. QED BY <1>4, <1>5

\* Laying a file puts it last.
LEMMA LaidList ==
  ASSUME NEW st, Sound(st), NEW n \in Name, NEW d \in Content,
         \A i \in Listed(st) : ~Matches(st.dir[i].name, n),
         FreeClusters(st.map) # {}
  PROVE  FilesOf(Laid(st, n, d)) = Append(FilesOf(st), [name |-> n, content |-> d])
<1>. DEFINE list == FilesOf(st)
            st2  == Laid(st, n, d)
            size == Len(st.dir)
            new  == [name |-> n, content |-> d]
<1>1. /\ Sound(st2) /\ \A i \in Listed(st) : Carried(st, st2, i, i)
      /\ Listed(st2) = Listed(st) \cup {size + 1}
      /\ st2.dir[size + 1].name = n
  BY SoundLaid
<1>2. st2.data = [st.data EXCEPT ![n] = d] /\ st.data \in [Name -> Content \cup {NoContent}]
      /\ Len(st2.dir) = size + 1
  <2>1. st \in FileSystem
    BY DEF Sound
  <2>2. Len(Append(st.dir, [name |-> n,
                            start |-> Lowest(LowestFree(st.map, ClustersNeeded(Length[d]))),
                            length |-> Length[d]])) = size + 1
    <3>1. st.dir \in Seq(Entry)
      BY <2>1, FileSystemFields
    <3>. QED BY <3>1
  <2>. QED BY <2>1, <2>2, FileSystemFields DEF Laid, FileSystem
<1>3. /\ list \in Seq(File) /\ Len(list) = size /\ size \in Nat
      /\ \A i \in 1 .. size : /\ list[i] \in File /\ list[i].name = st.dir[i].name
                              /\ list[i].content = st.data[st.dir[i].name]
  BY FilesOfFacts
<1>. HIDE DEF st2, size
<1>4. /\ FilesOf(st2) \in Seq(File) /\ Len(FilesOf(st2)) = size + 1
      /\ \A i \in 1 .. size + 1 :
           /\ FilesOf(st2)[i] \in File /\ FilesOf(st2)[i].name = st2.dir[i].name
           /\ FilesOf(st2)[i].content = st2.data[st2.dir[i].name]
  <2>1. /\ FilesOf(st2) \in Seq(File) /\ Len(FilesOf(st2)) = Len(st2.dir)
        /\ \A i \in 1 .. Len(st2.dir) :
             /\ FilesOf(st2)[i] \in File /\ FilesOf(st2)[i].name = st2.dir[i].name
             /\ FilesOf(st2)[i].content = st2.data[st2.dir[i].name]
    BY <1>1, FilesOfFacts
  <2>. QED BY <1>2, <2>1
<1>5. new \in File
  BY DEF File
<1>. HIDE DEF list, new
<1>6. /\ Append(list, new) \in Seq(File) /\ Len(Append(list, new)) = size + 1
      /\ \A i \in 1 .. size : Append(list, new)[i] = list[i]
      /\ Append(list, new)[size + 1] = new
  BY <1>3, <1>5, AppendProperties
<1>7. ASSUME NEW i \in 1 .. size PROVE FilesOf(st2)[i] = list[i]
  <2>1. i \in Listed(st) /\ i \in 1 .. size + 1
    BY <1>3 DEF Listed, size
  <2>2. st2.dir[i] = st.dir[i] /\ st2.data[st2.dir[i].name] = st.data[st.dir[i].name]
    BY <1>1, <2>1 DEF Carried
  <2>3. /\ FilesOf(st2)[i] \in File /\ list[i] \in File
        /\ FilesOf(st2)[i].name = list[i].name /\ FilesOf(st2)[i].content = list[i].content
    BY <1>3, <1>4, <2>1, <2>2
  <2>. QED BY <2>3 DEF File
<1>8. FilesOf(st2)[size + 1] = new
  <2>1. size + 1 \in 1 .. size + 1 /\ st2.data[n] = d
    BY <1>2, <1>3
  <2>2. /\ FilesOf(st2)[size + 1] \in File
        /\ FilesOf(st2)[size + 1].name = n /\ FilesOf(st2)[size + 1].content = d
    BY <1>1, <1>4, <2>1
  <2>. QED BY <2>2 DEF File, new
<1>9. \A i \in 1 .. size + 1 : FilesOf(st2)[i] = Append(list, new)[i]
  <2>1. \A i \in 1 .. size + 1 : i \in 1 .. size \/ i = size + 1
    BY <1>3
  <2>. QED BY <1>6, <1>7, <1>8, <2>1
<1>10. FilesOf(st2) = Append(list, new)
  BY <1>4, <1>6, <1>9, SeqEqual
<1>. QED BY <1>10 DEF list, new, st2

\* add_file is a put: a failure loses at most the file it was to replace.
LEMMA AddedList ==
  ASSUME NEW st, Sound(st), NEW n \in Name, NEW d \in Content
  PROVE  LET result == AddResult(st, n, d)
             list   == FilesOf(st)
         IN  IF result.code = "ok"
             THEN FilesOf(result.fs) =
                    Append(Store!Without(list, n), [name |-> n, content |-> d])
             ELSE FilesOf(result.fs) \in {list, Store!Without(list, n)}
<1>. DEFINE room  == Dropped(st, n)
            need  == ClustersNeeded(Length[d])
            laid  == Laid(room, n, d)
            short == Cardinality(FreeClusters(room.map)) < need
            full  == ~Exists(st, n) /\ Len(st.dir) >= MaxEntries
<1>0. need \in Nat /\ need > 0
  BY ContentAssumption, NeedsOne
<1>1. FilesOf(room) = Store!Without(FilesOf(st), n)
  BY DroppedList
<1>2. Sound(room) /\ \A i \in Listed(room) : ~Matches(room.dir[i].name, n)
  BY DroppedLeaves
<1>. HIDE DEF room
<1>3. ASSUME ~short PROVE FilesOf(laid) = Append(FilesOf(room), [name |-> n, content |-> d])
  <2>1. FreeClusters(room.map) # {}
    BY <1>0, <1>3, FS_EmptySet
  <2>. QED BY <1>2, <2>1, LaidList
<1>4. AddResult(st, n, d) =
        IF n \notin LayableName THEN [code |-> "InvalidArgument", fs |-> st]
        ELSE IF full THEN [code |-> "Exhausted", fs |-> st]
        ELSE IF short THEN [code |-> "Exhausted", fs |-> room]
        ELSE [code |-> "ok", fs |-> laid]
  BY Zenon DEF AddResult, room
<1>. HIDE DEF short, full, laid
<1>5. CASE n \notin LayableName \/ full
  <2>1. AddResult(st, n, d).code # "ok" /\ AddResult(st, n, d).fs = st
    BY <1>4, <1>5
  <2>. QED BY <2>1
<1>6. CASE ~(n \notin LayableName \/ full) /\ short
  <2>1. AddResult(st, n, d).code # "ok" /\ AddResult(st, n, d).fs = room
    BY <1>4, <1>6
  <2>. QED BY <1>1, <2>1
<1>7. CASE ~(n \notin LayableName \/ full) /\ ~short
  <2>1. AddResult(st, n, d).code = "ok" /\ AddResult(st, n, d).fs = laid
    BY <1>4, <1>7
  <2>. QED BY <1>1, <1>3, <1>7, <2>1
<1>. QED BY <1>5, <1>6, <1>7

\* Files of names that neither the list nor one another has, added one after
\* the other, follow it; when one is refused, those before it do.
LEMMA AddedInOrderList ==
  ASSUME NEW st, Sound(st), NEW files \in Seq(File), Apart(files),
         \A i \in 1 .. Len(FilesOf(st)), j \in 1 .. Len(files) :
           Fold[FilesOf(st)[i].name] # Fold[files[j].name]
  PROVE  LET result == AddedInOrder(st, files)
             list   == FilesOf(st)
         IN  IF result.code = "ok"
             THEN FilesOf(result.fs) = list \o files
             ELSE \E k \in 0 .. Len(files) - 1 :
                    FilesOf(result.fs) = list \o SubSeq(files, 1, k)
<1>. DEFINE N    == Len(files)
            list == FilesOf(st)
            upTo(k) == list \o SubSeq(files, 1, k)
<1>0. /\ N \in Nat /\ list \in Seq(File) /\ Len(list) \in Nat
      /\ \A k \in 1 .. N : files[k] \in File
  BY LenProperties, ElementOfSeq, FilesOfFacts
<1>1. PICK laid :
        /\ laid[0] = [code |-> "ok", fs |-> st]
        /\ AddedInOrder(st, files) = laid[N]
        /\ \A k \in 1 .. N :
             laid[k] = IF laid[k - 1].code # "ok" THEN laid[k - 1]
                       ELSE AddResult(laid[k - 1].fs, files[k].name, files[k].content)
  <2>1. Len(files) \in Nat
    BY <1>0
  <2>. QED BY ONLY <2>1, AddedSteps
<1>. HIDE DEF list
<1>2. ASSUME NEW k \in 0 .. N
      PROVE  /\ upTo(k) \in Seq(File) /\ Len(upTo(k)) = Len(list) + k
             /\ \A i \in 1 .. Len(list) + k :
                  upTo(k)[i] = IF i =< Len(list) THEN list[i] ELSE files[i - Len(list)]
  <2>. DEFINE part == SubSeq(files, 1, k)
  <2>1. /\ part \in Seq(File) /\ Len(part) = k
        /\ \A i \in 1 .. k : part[i] = files[i]
    <3>1. 1 \in 1 .. Len(files) + 1 /\ k \in 1 - 1 .. Len(files)
      BY <1>0
    <3>2. /\ part \in Seq(File) /\ Len(part) = k - 1 + 1
          /\ \A i \in 1 .. k - 1 + 1 : part[i] = files[1 + i - 1]
      BY <3>1, Part
    <3>. HIDE DEF part
    <3>. QED BY <1>0, <3>2
  <2>. HIDE DEF part
  <2>2. /\ list \o part \in Seq(File) /\ Len(list \o part) = Len(list) + Len(part)
        /\ \A i \in 1 .. Len(list) + Len(part) :
             (list \o part)[i] = IF i <= Len(list) THEN list[i] ELSE part[i - Len(list)]
    BY <1>0, <2>1, Joined
  <2>3. \A i \in 1 .. Len(list) + k :
          (list \o part)[i] = IF i =< Len(list) THEN list[i] ELSE files[i - Len(list)]
    <3>1. ASSUME NEW i \in 1 .. Len(list) + k, ~(i =< Len(list))
          PROVE  part[i - Len(list)] = files[i - Len(list)]
      <4>1. i - Len(list) \in 1 .. k
        BY <1>0, <3>1
      <4>. QED BY <2>1, <4>1
    <3>. QED BY <2>1, <2>2, <3>1
  <2>. QED BY <2>1, <2>2, <2>3 DEF part
<1>. HIDE DEF upTo
\* The next file's name is new to the list so far.
<1>3. ASSUME NEW k \in 0 .. N, k + 1 =< N
      PROVE  /\ Store!Without(upTo(k), files[k + 1].name) = upTo(k)
             /\ Append(upTo(k), files[k + 1]) = upTo(k + 1)
  <2>0. k + 1 \in 1 .. N /\ k + 1 \in 0 .. N /\ files[k + 1] \in File
    BY <1>0, <1>3
  <2>1. /\ upTo(k) \in Seq(File) /\ Len(upTo(k)) = Len(list) + k
        /\ \A i \in 1 .. Len(list) + k :
             upTo(k)[i] = IF i =< Len(list) THEN list[i] ELSE files[i - Len(list)]
    BY <1>2
  <2>2. ASSUME NEW i, Hit(upTo(k), files[k + 1].name, i) PROVE FALSE
    <3>1. i \in 1 .. Len(list) + k /\ Fold[upTo(k)[i].name] = Fold[files[k + 1].name]
      BY <2>1, <2>2 DEF Hit
    <3>2. CASE i =< Len(list)
      <4>1. i \in 1 .. Len(list) /\ upTo(k)[i] = list[i]
        BY <1>0, <2>1, <3>1, <3>2
      <4>. QED BY <2>0, <3>1, <4>1 DEF list
    <3>3. CASE ~(i =< Len(list))
      <4>1. i - Len(list) \in 1 .. N /\ i - Len(list) # k + 1
        <5>1. i \in Int /\ i =< Len(list) + k /\ Len(list) \in Nat /\ k \in Nat /\ N \in Nat
          BY <1>0, <3>1
        <5>. HIDE DEF N
        <5>. QED BY <1>3, <3>3, <5>1
      <4>2. upTo(k)[i] = files[i - Len(list)]
        BY <2>1, <3>1, <3>3
      <4>. QED BY <2>0, <3>1, <4>1, <4>2 DEF Apart
    <3>. QED BY <3>2, <3>3
  <2>3. /\ upTo(k + 1) \in Seq(File) /\ Len(upTo(k + 1)) = Len(list) + (k + 1)
        /\ \A i \in 1 .. Len(list) + (k + 1) :
             upTo(k + 1)[i] = IF i =< Len(list) THEN list[i] ELSE files[i - Len(list)]
    BY <1>2, <2>0
  <2>. DEFINE more == Append(upTo(k), files[k + 1])
  <2>4. /\ more \in Seq(File) /\ Len(more) = Len(upTo(k)) + 1
        /\ \A i \in 1 .. Len(upTo(k)) : more[i] = upTo(k)[i]
        /\ more[Len(upTo(k)) + 1] = files[k + 1]
    BY <2>0, <2>1, AppendProperties
  <2>. HIDE DEF more
  <2>5. Len(more) = Len(upTo(k + 1))
    BY <1>0, <2>1, <2>3, <2>4
  <2>6. ASSUME NEW i \in 1 .. Len(more) PROVE more[i] = upTo(k + 1)[i]
    <3>1. CASE i =< Len(list) + k
      <4>1. i \in 1 .. Len(list) + k /\ i \in 1 .. Len(list) + (k + 1)
        BY <1>0, <2>1, <2>4, <3>1
      <4>. QED BY <2>1, <2>3, <2>4, <4>1
    <3>2. CASE ~(i =< Len(list) + k)
      <4>1. /\ i = Len(list) + k + 1 /\ i = Len(upTo(k)) + 1
            /\ i \in 1 .. Len(list) + (k + 1) /\ ~(i =< Len(list))
            /\ i - Len(list) = k + 1
        <5>1. Len(more) = Len(list) + k + 1 /\ Len(upTo(k)) = Len(list) + k
          BY <1>0, <2>1, <2>4
        <5>2. k \in Nat /\ Len(list) \in Nat
          BY <1>0
        <5>3. i \in 1 .. Len(list) + k + 1
          BY <5>1
        <5>. HIDE DEF N
        <5>. QED BY <3>2, <5>1, <5>2, <5>3
      <4>. QED BY <2>3, <2>4, <4>1
    <3>. QED BY <3>1, <3>2
  <2>7. more = upTo(k + 1)
    BY <2>3, <2>4, <2>5, <2>6, SeqEqual
  <2>. QED BY <2>2, <2>7, WithoutNone DEF more
<1>. DEFINE Good(r, k) == /\ Sound(r.fs)
                          /\ r.code = "ok" => FilesOf(r.fs) = upTo(k)
                          /\ r.code # "ok" => \E j \in 0 .. k - 1 : FilesOf(r.fs) = upTo(j)
            U == {k \in Nat : k =< N => Good(laid[k], k)}
<1>4. 0 \in U
  <2>1. laid[0].code = "ok" /\ laid[0].fs = st
    BY <1>1
  <2>2. upTo(0) = list
    <3>1. SubSeq(files, 1, 0) = << >>
      BY SubSeqEmpty
    <3>. QED BY <1>0, <3>1, ConcatEmptySeq DEF upTo
  <2>. QED BY <2>1, <2>2 DEF list
<1>5. ASSUME NEW k \in Nat, k \in U PROVE k + 1 \in U
  <2>. SUFFICES ASSUME k + 1 =< N PROVE Good(laid[k + 1], k + 1)
    OBVIOUS
  <2>1. /\ k + 1 \in 1 .. N /\ (k + 1) - 1 = k /\ k \in 0 .. N
        /\ \A j \in 0 .. k - 1 : j \in 0 .. (k + 1) - 1
    BY <1>0
  <2>2. Good(laid[k], k)
    BY <1>0, <1>5
  <2>3. CASE laid[k].code # "ok"
    <3>1. laid[k + 1] = laid[k]
      BY <1>1, <2>1, <2>3
    <3>. QED BY <2>1, <2>2, <2>3, <3>1
  <2>4. CASE laid[k].code = "ok"
    <3>. DEFINE n == files[k + 1].name
                d == files[k + 1].content
                r == AddResult(laid[k].fs, n, d)
    <3>1. laid[k + 1] = r
      BY <1>1, <2>1, <2>4
    <3>2. n \in Name /\ d \in Content /\ files[k + 1] = [name |-> n, content |-> d]
      BY <1>0, <2>1 DEF File
    <3>3. Sound(laid[k].fs) /\ FilesOf(laid[k].fs) = upTo(k)
      BY <2>2, <2>4
    <3>. HIDE DEF n, d
    <3>4. IF r.code = "ok"
          THEN FilesOf(r.fs) = Append(Store!Without(upTo(k), n), [name |-> n, content |-> d])
          ELSE FilesOf(r.fs) \in {upTo(k), Store!Without(upTo(k), n)}
      BY <3>2, <3>3, AddedList
    <3>5. Sound(r.fs)
      BY <3>2, <3>3, AddLeaves
    <3>6. /\ Store!Without(upTo(k), n) = upTo(k)
          /\ Append(upTo(k), files[k + 1]) = upTo(k + 1)
      BY <1>3, <2>1 DEF n
    <3>. HIDE DEF r
    <3>7. r.code = "ok" => FilesOf(r.fs) = upTo(k + 1)
      BY <3>2, <3>4, <3>6
    <3>8. r.code # "ok" => FilesOf(r.fs) = upTo(k)
      BY <3>4, <3>6
    <3>9. k \in 0 .. (k + 1) - 1
      OBVIOUS
    <3>. QED BY <3>1, <3>5, <3>7, <3>8, <3>9
  <2>. QED BY <2>3, <2>4
<1>6. N \in U
  <2>. HIDE DEF U
  <2>. QED BY <1>0, <1>4, <1>5, NatInductionOnSets
<1>7. Good(laid[N], N)
  BY <1>0, <1>6
<1>8. upTo(N) = list \o files
  BY SubSeqFull DEF upTo
<1>. QED BY <1>1, <1>7, <1>8 DEF upTo, list

-----------------------------------------------------------------------------
(***************************************************************************)
(* Files back to back.                                                     *)
(***************************************************************************)

\* Files in directory order with no free cluster below a file's.
Abutting(st) == BackToBack(st) /\ InDirectoryOrder(st)

\* The clusters an allocation takes lie below those it leaves free.
LEMMA TakenBelowLeft ==
  ASSUME NEW map, NEW n \in Nat, NEW c \in LowestFree(map, n),
         NEW d \in FreeClusters(map), d \notin LowestFree(map, n)
  PROVE  c < d
<1>. DEFINE F == FreeClusters(map)
            below(x) == {y \in F : y < x}
<1>1. c \in Nat /\ d \in Nat /\ c # d
  BY FreeFinite, LowCluster DEF LowestFree
<1>2. Cardinality(below(c)) < n /\ ~(Cardinality(below(d)) < n)
  BY DEF LowestFree
<1>3. F \subseteq Nat /\ \A x : IsFiniteSet(below(x)) /\ Cardinality(below(x)) \in Nat
  BY FreeFinite, LowCluster, FS_Subset, FS_CardinalityType
<1>. HIDE DEF F
<1>4. ASSUME d < c PROVE below(d) \subseteq below(c)
  <2>. SUFFICES ASSUME NEW y \in F, y < d PROVE y < c
    OBVIOUS
  <2>1. y \in Nat
    BY <1>3
  <2>. QED BY ONLY <1>1, <1>4, <2>1, y < d
<1>5. ASSUME d < c PROVE Cardinality(below(d)) =< Cardinality(below(c))
  <2>. HIDE DEF below
  <2>. QED BY <1>3, <1>4, <1>5, FS_Subset
<1>. HIDE DEF below
<1>6. ~(d < c)
  BY <1>2, <1>3, <1>5
<1>. QED BY <1>1, <1>6

\* A file laid behind files back to back abuts them.
LEMMA LaidAbuts ==
  ASSUME NEW st, Sound(st), Abutting(st), NEW n \in Name, NEW d \in Content,
         \A i \in Listed(st) : ~Matches(st.dir[i].name, n),
         FreeClusters(st.map) # {}
  PROVE  Abutting(Laid(st, n, d))
<1>. DEFINE need == ClustersNeeded(Length[d])
            chain == LowestFree(st.map, need)
            st2  == Laid(st, n, d)
            size == Len(st.dir)
<1>0. need \in Nat /\ need > 0 /\ st \in FileSystem
  BY ContentAssumption, NeedsOne DEF Sound
<1>1. /\ Sound(st2)
      /\ \A i \in Listed(st) : ChainOf(st2, i) = ChainOf(st, i)
      /\ Listed(st2) = Listed(st) \cup {size + 1}
      /\ ChainOf(st2, size + 1) = chain
  BY SoundLaid DEF Carried
<1>2. size \in Nat /\ Listed(st) = 1 .. size
  BY <1>0, FileSystemFields DEF Listed
<1>3. st2.map = Allocated(st.map, need)
  BY <1>0 DEF Laid, FileSystem
<1>4. chain \subseteq FreeClusters(st.map) /\ chain \subseteq Cluster
  BY <1>0, LowestFreeNonempty
<1>5. \A c \in Cluster \ chain : st2.map[c] = st.map[c]
  BY <1>0, <1>3, AllocatedLinks
<1>. HIDE DEF st2, chain, size
<1>6. ASSUME NEW e \in FreeClusters(st2.map)
      PROVE  e \in FreeClusters(st.map) /\ e \notin chain
  <2>1. e \in Cluster /\ Low(st2.map[e]) = Free
    BY <1>6 DEF FreeClusters
  <2>2. ~HoldsFile(st2, e)
    BY <2>1, HoldsFileValue
  <2>3. e \notin chain
    BY <1>1, <2>1, <2>2 DEF Sound, AccountedIn
  <2>. QED BY <1>5, <2>1, <2>3 DEF FreeClusters
<1>7. BackToBack(st2)
  <2>. SUFFICES ASSUME NEW i \in Listed(st2), NEW c \in ChainOf(st2, i),
                       NEW e \in FreeClusters(st2.map)
                PROVE  c < e
    BY DEF BackToBack
  <2>1. CASE i \in Listed(st)
    BY <1>1, <1>6, <2>1 DEF Abutting, BackToBack
  <2>2. CASE i = size + 1
    BY <1>0, <1>1, <1>6, <2>2, TakenBelowLeft DEF chain
  <2>. QED BY <1>1, <2>1, <2>2
<1>8. InDirectoryOrder(st2)
  <2>. SUFFICES ASSUME NEW i \in Listed(st2), NEW j \in Listed(st2), i < j,
                       NEW c \in ChainOf(st2, i), NEW e \in ChainOf(st2, j)
                PROVE  c < e
    BY DEF InDirectoryOrder
  <2>1. i \in Listed(st)
    BY <1>1, <1>2
  <2>2. CASE j \in Listed(st)
    BY <1>1, <2>1, <2>2 DEF Abutting, InDirectoryOrder
  <2>3. CASE j = size + 1
    BY <1>1, <1>4, <2>1, <2>3 DEF Abutting, BackToBack
  <2>. QED BY <1>1, <2>2, <2>3
<1>. QED BY <1>7, <1>8 DEF Abutting, st2

\* The names st2 lists are n and those st lists.
OneMoreName(st, st2, n) ==
  \A i \in Listed(st2) : \/ st2.dir[i].name = n
                         \/ \E j \in Listed(st) : st2.dir[i].name = st.dir[j].name

\* Laying a file adds its name to the directory and no other.
LEMMA LaidNames ==
  ASSUME NEW st, Sound(st), NEW n \in Name, NEW d \in Content,
         \A i \in Listed(st) : ~Matches(st.dir[i].name, n),
         FreeClusters(st.map) # {}
  PROVE  OneMoreName(st, Laid(st, n, d), n)
<1>. DEFINE st2 == Laid(st, n, d)
<1>1. /\ Sound(st2) /\ \A i \in Listed(st) : Carried(st, st2, i, i)
      /\ Listed(st2) = Listed(st) \cup {Len(st.dir) + 1}
      /\ st2.dir[Len(st.dir) + 1].name = n
  BY SoundLaid
<1>. HIDE DEF st2
<1>2. OneMoreName(st, st2, n)
  BY <1>1 DEF Carried, OneMoreName
<1>. QED BY <1>2 DEF st2

\* The files before the place still abut when those behind it are lifted.
LEMMA LiftedAbuts ==
  ASSUME NEW st, Sound(st), Abutting(st), NEW first \in 1 .. Len(st.dir) + 1
  PROVE  Abutting([LiftedUpTo(st, first, Len(st.dir), Len(st.dir))
                     EXCEPT !.dir = SubSeq(@, 1, first - 1)])
<1>. DEFINE st2 == [LiftedUpTo(st, first, Len(st.dir), Len(st.dir))
                      EXCEPT !.dir = SubSeq(@, 1, first - 1)]
            lifted == UNION {ChainOf(st, j) : j \in first .. Len(st.dir)}
<1>1. /\ Listed(st2) = 1 .. first - 1
      /\ \A i \in Listed(st2) : ChainOf(st2, i) = ChainOf(st, i)
      /\ st2.map = Freed(st.map, lifted)
  <2>1. /\ Sound(st2) /\ Inherits(st, st2) /\ ReservedKept(st, st2)
        /\ Listed(st2) = 1 .. first - 1
        /\ \A i \in Listed(st2) : Carried(st, st2, i, i)
        /\ st2.map = Freed(st.map, lifted)
    BY SoundLifted
  <2>. HIDE DEF st2, lifted
  <2>. QED BY <2>1 DEF Carried
<1>2. Len(st.dir) \in Nat /\ Listed(st) = 1 .. Len(st.dir)
  BY FileSystemFields DEF Sound, Listed
<1>. HIDE DEF st2
<1>3. ASSUME NEW i \in Listed(st2), NEW c \in ChainOf(st2, i), NEW e \in FreeClusters(st2.map)
      PROVE  c < e
  <2>1. i \in Listed(st) /\ c \in ChainOf(st, i)
    BY <1>1, <1>2
  <2>2. CASE e \in lifted
    <3>1. PICK j \in first .. Len(st.dir) : e \in ChainOf(st, j)
      BY <2>2
    <3>2. j \in Listed(st) /\ i < j
      BY <1>1, <1>2
    <3>. QED BY <2>1, <3>1, <3>2 DEF Abutting, InDirectoryOrder
  <2>3. CASE e \notin lifted
    <3>1. e \in FreeClusters(st.map)
      BY <1>1, <2>3 DEF FreeClusters, Freed
    <3>. QED BY <2>1, <3>1 DEF Abutting, BackToBack
  <2>. QED BY <2>2, <2>3
<1>4. InDirectoryOrder(st2)
  BY <1>1, <1>2 DEF Abutting, InDirectoryOrder
<1>. QED BY <1>3, <1>4 DEF Abutting, BackToBack, st2

\* Adding a file of a new name lays it when it succeeds.
LEMMA AddedNew ==
  ASSUME NEW st, Sound(st), NEW n \in Name, NEW d \in Content,
         \A i \in Listed(st) : ~Matches(st.dir[i].name, n),
         AddResult(st, n, d).code = "ok"
  PROVE  AddResult(st, n, d).fs = Laid(st, n, d) /\ FreeClusters(st.map) # {}
<1>. DEFINE need  == ClustersNeeded(Length[d])
            laid  == Laid(st, n, d)
            short == Cardinality(FreeClusters(st.map)) < need
            full  == ~Exists(st, n) /\ Len(st.dir) >= MaxEntries
<1>0. need \in Nat /\ need > 0
  BY ContentAssumption, NeedsOne
<1>1. ~Exists(st, n)
  BY FindEntryFacts DEF Sound
<1>2. Dropped(st, n) = st
  BY <1>1 DEF Dropped
<1>3. AddResult(st, n, d) =
        IF n \notin LayableName THEN [code |-> "InvalidArgument", fs |-> st]
        ELSE IF full THEN [code |-> "Exhausted", fs |-> st]
        ELSE IF short THEN [code |-> "Exhausted", fs |-> st]
        ELSE [code |-> "ok", fs |-> laid]
  BY <1>2, Zenon DEF AddResult
<1>. HIDE DEF short, full, laid
<1>4. ~short /\ AddResult(st, n, d).fs = laid
  BY <1>3
<1>5. FreeClusters(st.map) # {}
  BY <1>0, <1>4, FS_EmptySet DEF short
<1>. QED BY <1>4, <1>5 DEF laid

\* Files of names that neither the directory nor one another has, added one
\* after the other behind files back to back, abut them when none is refused.
LEMMA AddedInOrderAbuts ==
  ASSUME NEW st, Sound(st), Abutting(st), NEW files \in Seq(File), Apart(files),
         \A i \in Listed(st), j \in 1 .. Len(files) :
           ~Matches(st.dir[i].name, files[j].name),
         AddedInOrder(st, files).code = "ok"
  PROVE  Abutting(AddedInOrder(st, files).fs)
<1>. DEFINE N == Len(files)
            NewFrom(st2, k) == \A i \in Listed(st2), j \in k .. N :
                                 ~Matches(st2.dir[i].name, files[j].name)
            Good(r, k) == /\ Sound(r.fs)
                          /\ r.code = "ok" => Abutting(r.fs) /\ NewFrom(r.fs, k + 1)
<1>0. N \in Nat /\ \A k \in 1 .. N : files[k] \in File
  BY LenProperties, ElementOfSeq
<1>1. PICK laid :
        /\ laid[0] = [code |-> "ok", fs |-> st]
        /\ AddedInOrder(st, files) = laid[N]
        /\ \A k \in 1 .. N :
             laid[k] = IF laid[k - 1].code # "ok" THEN laid[k - 1]
                       ELSE AddResult(laid[k - 1].fs, files[k].name, files[k].content)
  <2>1. Len(files) \in Nat
    BY <1>0
  <2>. QED BY ONLY <2>1, AddedSteps
<1>. DEFINE U == {k \in Nat : k =< N => Good(laid[k], k)}
<1>2. 0 \in U
  <2>1. laid[0].code = "ok" /\ laid[0].fs = st
    BY <1>1
  <2>. QED BY <2>1
<1>3. ASSUME NEW k \in Nat, k \in U PROVE k + 1 \in U
  <2>. SUFFICES ASSUME k + 1 =< N PROVE Good(laid[k + 1], k + 1)
    OBVIOUS
  <2>1. k + 1 \in 1 .. N /\ (k + 1) - 1 = k
    BY <1>0
  <2>2. Good(laid[k], k)
    BY <1>0, <1>3
  <2>3. CASE laid[k].code # "ok"
    <3>1. laid[k + 1] = laid[k]
      BY <1>1, <2>1, <2>3
    <3>. QED BY <2>2, <2>3, <3>1
  <2>4. CASE laid[k].code = "ok"
    <3>. DEFINE before == laid[k].fs
                n == files[k + 1].name
                d == files[k + 1].content
                r == AddResult(before, n, d)
                after == Laid(before, n, d)
    <3>1. laid[k + 1] = r
      BY <1>1, <2>1, <2>4
    <3>2. n \in Name /\ d \in Content
      BY <1>0, <2>1 DEF File
    <3>3. Sound(before) /\ Abutting(before) /\ NewFrom(before, k + 1)
      BY <2>2, <2>4
    <3>4. \A i \in Listed(before) : ~Matches(before.dir[i].name, n)
      BY <2>1, <3>3
    <3>. HIDE DEF before
    <3>5. Sound(r.fs)
      BY <3>2, <3>3, AddLeaves
    <3>6. ASSUME r.code = "ok" PROVE r.fs = after /\ FreeClusters(before.map) # {}
      BY <3>2, <3>3, <3>4, <3>6, AddedNew
    <3>7. ASSUME r.code = "ok" PROVE Abutting(r.fs)
      BY <3>2, <3>3, <3>4, <3>6, <3>7, LaidAbuts
    <3>8. ASSUME r.code = "ok" PROVE NewFrom(r.fs, (k + 1) + 1)
      <4>1. OneMoreName(before, after, n)
        BY <3>2, <3>3, <3>4, <3>6, <3>8, LaidNames
      <4>2. r.fs = after
        BY <3>6, <3>8
      <4>. HIDE DEF after, r
      <4>3. ASSUME NEW i \in Listed(after), NEW j \in (k + 1) + 1 .. N
            PROVE  ~Matches(after.dir[i].name, files[j].name)
        <5>1. j \in k + 1 .. N /\ j \in 1 .. N /\ j # k + 1
          BY <1>0
        <5>2. ~Matches(n, files[j].name)
          BY <2>1, <5>1 DEF Apart, Matches
        <5>. QED BY <3>3, <4>1, <5>1, <5>2 DEF OneMoreName
      <4>. QED BY <4>2, <4>3
    <3>. HIDE DEF r, NewFrom
    <3>. QED BY <3>1, <3>5, <3>7, <3>8
  <2>. QED BY <2>3, <2>4
<1>4. N \in U
  <2>. HIDE DEF U
  <2>. QED BY <1>0, <1>2, <1>3, NatInductionOnSets
<1>5. Good(laid[N], N)
  BY <1>0, <1>4
<1>. QED BY <1>1, <1>5

-----------------------------------------------------------------------------
(***************************************************************************)
(* insert_file.                                                            *)
(***************************************************************************)

\* Where a name is on the list, 0 when it is not.
Found(list, n, i) == Hit(list, n, i) \/ (i = 0 /\ \A k : ~Hit(list, n, k))

\* The list without entry i, entry by entry.
LEMMA EntryOut ==
  ASSUME NEW list \in Seq(File), NEW i \in 1 .. Len(list)
  PROVE  /\ WithoutIndex(list, i) \in Seq(File)
         /\ Len(WithoutIndex(list, i)) = Len(list) - 1
         /\ \A k \in 1 .. Len(list) - 1 :
              WithoutIndex(list, i)[k] = IF k < i THEN list[k] ELSE list[k + 1]
BY WithoutIndexFacts

\* A list without a name, cut at a place, is the parts without the name of the
\* list cut there.
CutAlike(list, n, cut, place) ==
  LET rest == Store!Without(list, n)
  IN  /\ place \in 0 .. Len(rest)
      /\ Store!Without(SubSeq(list, 1, cut), n) = SubSeq(rest, 1, place)
      /\ Store!Without(SubSeq(list, cut + 1, Len(list)), n)
           = SubSeq(rest, place + 1, Len(rest))

\* Taking a name off a list and cutting it is cutting it and taking the name
\* off both parts, when the cut moves with the entries.
LEMMA CutAndTakeOut ==
  ASSUME NEW list \in Seq(File), Apart(list), NEW n, NEW i \in Nat, Found(list, n, i),
         NEW cut \in 0 .. Len(list), NEW place \in Nat,
         place = IF i # 0 /\ i =< cut THEN cut - 1 ELSE cut,
         ~(i = 0) => place =< Len(list) - 1
  PROVE  CutAlike(list, n, cut, place)
<1>. DEFINE size  == Len(list)
            rest  == Store!Without(list, n)
            front == SubSeq(list, 1, cut)
            back  == SubSeq(list, cut + 1, size)
<1>0. size \in Nat /\ cut \in Nat /\ cut =< size
  BY LenProperties
<1>1. /\ front \in Seq(File) /\ Len(front) = cut
      /\ \A k \in 1 .. cut : front[k] = list[k]
  <2>1. 1 \in 1 .. Len(list) + 1 /\ cut \in 1 - 1 .. Len(list)
    BY <1>0
  <2>2. /\ front \in Seq(File) /\ Len(front) = cut - 1 + 1
        /\ \A k \in 1 .. cut - 1 + 1 : front[k] = list[1 + k - 1]
    BY <2>1, Part
  <2>. HIDE DEF front
  <2>. QED BY <1>0, <2>2
<1>2. /\ back \in Seq(File) /\ Len(back) = size - cut
      /\ \A k \in 1 .. size - cut : back[k] = list[cut + k]
  <2>1. cut + 1 \in 1 .. Len(list) + 1 /\ Len(list) \in (cut + 1) - 1 .. Len(list)
    BY <1>0
  <2>2. /\ back \in Seq(File) /\ Len(back) = size - (cut + 1) + 1
        /\ \A k \in 1 .. size - (cut + 1) + 1 : back[k] = list[(cut + 1) + k - 1]
    BY <2>1, Part
  <2>. HIDE DEF back, size
  <2>. QED BY <1>0, <2>2
<1>3. Apart(front) /\ Apart(back)
  <2>1. \A a, b \in 1 .. cut : Fold[front[a].name] = Fold[front[b].name] => a = b
    <3>. HIDE DEF front
    <3>1. \A a \in 1 .. cut : a \in 1 .. size
      BY <1>0
    <3>. QED BY <1>1, <3>1 DEF Apart
  <2>2. \A a, b \in 1 .. size - cut : Fold[back[a].name] = Fold[back[b].name] => a = b
    <3>. HIDE DEF back
    <3>. SUFFICES ASSUME NEW a \in 1 .. size - cut, NEW b \in 1 .. size - cut,
                         Fold[back[a].name] = Fold[back[b].name]
                  PROVE  a = b
      OBVIOUS
    <3>1. cut + a \in 1 .. size /\ cut + b \in 1 .. size
      BY <1>0
    <3>2. cut + a = cut + b
      BY <1>2, <3>1 DEF Apart
    <3>. QED BY <1>0, <3>2
  <2>. QED BY <1>1, <1>2, <2>1, <2>2 DEF Apart
\* What SubSeq makes of the rest once it is known entry by entry.
<1>4. ASSUME NEW whole \in Seq(File), place =< Len(whole), NEW a \in Seq(File), NEW b \in Seq(File),
             Len(a) = place, \A k \in 1 .. place : a[k] = whole[k],
             Len(b) = Len(whole) - place,
             \A k \in 1 .. Len(whole) - place : b[k] = whole[place + k]
      PROVE  a = SubSeq(whole, 1, place) /\ b = SubSeq(whole, place + 1, Len(whole))
  <2>0. Len(whole) \in Nat
    BY LenProperties
  <2>1. a = SubSeq(whole, 1, place)
    <3>. DEFINE p == SubSeq(whole, 1, place)
    <3>1. 1 \in 1 .. Len(whole) + 1 /\ place \in 1 - 1 .. Len(whole)
      BY <1>4, <2>0
    <3>2. /\ p \in Seq(File) /\ Len(p) = place - 1 + 1
          /\ \A k \in 1 .. place - 1 + 1 : p[k] = whole[1 + k - 1]
      BY <3>1, Part
    <3>. HIDE DEF p
    <3>3. Len(p) = Len(a) /\ \A k \in 1 .. Len(a) : a[k] = p[k]
      BY <1>4, <3>2
    <3>. QED BY <3>2, <3>3, SeqEqual DEF p
  <2>2. b = SubSeq(whole, place + 1, Len(whole))
    <3>. DEFINE p == SubSeq(whole, place + 1, Len(whole))
    <3>1. place + 1 \in 1 .. Len(whole) + 1 /\ Len(whole) \in (place + 1) - 1 .. Len(whole)
      BY <1>4, <2>0
    <3>2. /\ p \in Seq(File) /\ Len(p) = Len(whole) - (place + 1) + 1
          /\ \A k \in 1 .. Len(whole) - (place + 1) + 1 : p[k] = whole[(place + 1) + k - 1]
      BY <3>1, Part
    <3>. HIDE DEF p
    <3>3. Len(p) = Len(b) /\ \A k \in 1 .. Len(b) : b[k] = p[k]
      BY <1>4, <2>0, <3>2
    <3>. QED BY <3>2, <3>3, SeqEqual DEF p
  <2>. QED BY <2>1, <2>2
<1>. HIDE DEF front, back
<1>5. CASE i = 0
  <2>1. \A k : ~Hit(list, n, k)
    BY <1>5 DEF Found, Hit
  <2>2. place = cut
    BY <1>5
  <2>3. ASSUME NEW k PROVE ~Hit(front, n, k) /\ ~Hit(back, n, k)
    <3>1. ASSUME Hit(front, n, k) PROVE FALSE
      <4>1. k \in 1 .. size /\ k \in 1 .. cut
        BY <1>0, <1>1, <3>1 DEF Hit
      <4>. QED BY <1>1, <2>1, <3>1, <4>1 DEF Hit
    <3>2. ASSUME Hit(back, n, k) PROVE FALSE
      <4>1. k \in 1 .. size - cut /\ cut + k \in 1 .. size
        BY <1>0, <1>2, <3>2 DEF Hit
      <4>. QED BY <1>2, <2>1, <3>2, <4>1 DEF Hit
    <3>. QED BY <3>1, <3>2
  <2>4. rest = list /\ Store!Without(front, n) = front /\ Store!Without(back, n) = back
    BY <2>1, <2>3, WithoutNone
  <2>5. front = SubSeq(list, 1, place) /\ back = SubSeq(list, place + 1, Len(list))
    BY <2>2 DEF front, back
  <2>. QED BY <1>0, <2>2, <2>4, <2>5 DEF front, back, CutAlike
<1>6. CASE i # 0
  <2>0. Hit(list, n, i) /\ i \in 1 .. size
    BY <1>6 DEF Found, Hit
  <2>1. rest = WithoutIndex(list, i)
    BY <2>0, WithoutOne
  <2>2. /\ rest \in Seq(File) /\ Len(rest) = size - 1
        /\ \A k \in 1 .. size - 1 : rest[k] = IF k < i THEN list[k] ELSE list[k + 1]
    <3>. HIDE DEF rest
    <3>. QED BY <2>0, <2>1, EntryOut
  <2>. HIDE DEF rest
  <2>3. place =< Len(rest) /\ place \in 0 .. Len(rest)
    BY <1>0, <1>6, <2>2
  <2>4. CASE i =< cut
    <3>0. place = cut - 1 /\ i \in 1 .. cut
      BY <1>6, <2>0, <2>4
    <3>1. Hit(front, n, i)
      BY <1>1, <2>0, <3>0 DEF Hit
    <3>2. \A k : ~Hit(back, n, k)
      <4>. SUFFICES ASSUME NEW k, Hit(back, n, k) PROVE FALSE
        OBVIOUS
      <4>1. k \in 1 .. size - cut /\ cut + k \in 1 .. size /\ cut + k # i
        BY <1>0, <1>2, <3>0 DEF Hit
      <4>. QED BY <1>2, <2>0, <4>1 DEF Hit, Apart
    <3>. DEFINE a == WithoutIndex(front, i)
    <3>3. Store!Without(front, n) = a /\ Store!Without(back, n) = back
      BY <1>3, <3>1, <3>2, WithoutOne, WithoutNone
    <3>4. /\ a \in Seq(File) /\ Len(a) = cut - 1
          /\ \A k \in 1 .. cut - 1 : a[k] = IF k < i THEN front[k] ELSE front[k + 1]
      <4>1. i \in 1 .. Len(front)
        BY <1>1, <3>0
      <4>2. /\ a \in Seq(File) /\ Len(a) = Len(front) - 1
            /\ \A k \in 1 .. Len(front) - 1 : a[k] = IF k < i THEN front[k] ELSE front[k + 1]
        BY <1>1, <4>1, EntryOut
      <4>. HIDE DEF a
      <4>. QED BY <1>1, <4>2
    <3>. HIDE DEF a
    <3>5. ASSUME NEW k \in 1 .. place PROVE a[k] = rest[k]
      <4>1. /\ k \in 1 .. cut - 1 /\ k \in 1 .. size - 1 /\ k \in 1 .. cut /\ k + 1 \in 1 .. cut
        BY <1>0, <3>0
      <4>. QED BY <1>1, <2>2, <3>4, <4>1
    <3>6. ASSUME NEW k \in 1 .. Len(rest) - place PROVE back[k] = rest[place + k]
      <4>1. /\ k \in 1 .. size - cut /\ place + k \in 1 .. size - 1
            /\ ~(place + k < i) /\ place + k + 1 = cut + k
        BY <1>0, <2>2, <3>0
      <4>. QED BY <1>2, <2>2, <4>1
    <3>7. Len(a) = place /\ Len(back) = Len(rest) - place
      BY <1>0, <1>2, <2>2, <3>0, <3>4
    <3>8. a = SubSeq(rest, 1, place) /\ back = SubSeq(rest, place + 1, Len(rest))
      BY <1>2, <1>4, <2>2, <2>3, <3>4, <3>5, <3>6, <3>7
    <3>. QED BY <2>3, <3>3, <3>8 DEF rest, front, back, CutAlike
  <2>5. CASE ~(i =< cut)
    <3>0. place = cut /\ i - cut \in 1 .. size - cut /\ cut + (i - cut) = i
      BY <1>0, <2>0, <2>5
    <3>1. Hit(back, n, i - cut)
      BY <1>2, <2>0, <3>0 DEF Hit
    <3>2. \A k : ~Hit(front, n, k)
      <4>. SUFFICES ASSUME NEW k, Hit(front, n, k) PROVE FALSE
        OBVIOUS
      <4>1. k \in 1 .. cut /\ k \in 1 .. size /\ k # i
        BY <1>0, <1>1, <2>0, <2>5 DEF Hit
      <4>. QED BY <1>1, <2>0, <4>1 DEF Hit, Apart
    <3>. DEFINE b == WithoutIndex(back, i - cut)
    <3>3. Store!Without(front, n) = front /\ Store!Without(back, n) = b
      BY <1>3, <3>1, <3>2, WithoutOne, WithoutNone
    <3>4. /\ b \in Seq(File) /\ Len(b) = size - cut - 1
          /\ \A k \in 1 .. size - cut - 1 : b[k] = IF k < i - cut THEN back[k] ELSE back[k + 1]
      <4>1. i - cut \in 1 .. Len(back)
        BY <1>2, <3>0
      <4>2. /\ b \in Seq(File) /\ Len(b) = Len(back) - 1
            /\ \A k \in 1 .. Len(back) - 1 : b[k] = IF k < i - cut THEN back[k] ELSE back[k + 1]
        BY <1>2, <4>1, EntryOut
      <4>. HIDE DEF b
      <4>. QED BY <1>2, <4>2
    <3>. HIDE DEF b
    <3>5. ASSUME NEW k \in 1 .. place PROVE front[k] = rest[k]
      <4>1. k \in 1 .. cut /\ k \in 1 .. size - 1 /\ k < i
        BY <1>0, <2>0, <2>5, <3>0
      <4>. QED BY <1>1, <2>2, <4>1
    <3>6. ASSUME NEW k \in 1 .. Len(rest) - place PROVE b[k] = rest[place + k]
      <4>1. /\ k \in 1 .. size - cut - 1 /\ k \in 1 .. size - cut /\ k + 1 \in 1 .. size - cut
            /\ place + k \in 1 .. size - 1 /\ place + k = cut + k
            /\ cut + (k + 1) = (place + k) + 1
        BY <1>0, <2>2, <3>0
      <4>2. k < i - cut <=> place + k < i
        BY <1>0, <2>0, <3>0
      <4>3. back[k] = list[place + k] /\ back[k + 1] = list[(place + k) + 1]
        BY <1>2, <4>1
      <4>4. b[k] = IF k < i - cut THEN back[k] ELSE back[k + 1]
        BY <3>4, <4>1
      <4>5. rest[place + k] = IF place + k < i THEN list[place + k] ELSE list[(place + k) + 1]
        BY <2>2, <4>1
      <4>. QED BY <4>2, <4>3, <4>4, <4>5
    <3>7. Len(front) = place /\ Len(b) = Len(rest) - place
      BY <1>0, <1>1, <2>2, <3>0, <3>4
    <3>8. front = SubSeq(rest, 1, place) /\ b = SubSeq(rest, place + 1, Len(rest))
      BY <1>1, <1>4, <2>2, <2>3, <3>4, <3>5, <3>6, <3>7
    <3>. QED BY <2>3, <3>3, <3>8 DEF rest, front, back, CutAlike
  <2>. QED BY <2>4, <2>5
<1>. QED BY <1>5, <1>6

\* The place insert_file computes is where the cut list has lost its name.
LEMMA PlaceOnList ==
  ASSUME NEW st, Sound(st), NEW position \in Nat, NEW n \in Name
  PROVE  LET list  == FilesOf(st)
             i     == FindEntry(st, n)
             cut   == IF position < Len(list) THEN position ELSE Len(list)
             place == InsertPosition(st, position, n)
         IN  /\ i \in Nat /\ Found(list, n, i) /\ cut \in 0 .. Len(list) /\ place \in Nat
             /\ place = IF i # 0 /\ i =< cut THEN cut - 1 ELSE cut
             /\ ~(i = 0) => place =< Len(list) - 1
<1>. DEFINE list == FilesOf(st)
            i    == FindEntry(st, n)
            size == Len(Dropped(st, n).dir)
            L    == Len(list)
            cut  == IF position < L THEN position ELSE L
            place == InsertPosition(st, position, n)
            moved == IF i # 0 /\ i - 1 < position THEN position - 1 ELSE position
<1>0. st \in FileSystem
  BY DEF Sound
<1>1. /\ list \in Seq(File) /\ L = Len(st.dir) /\ L \in Nat
      /\ \A k \in 1 .. L : list[k].name = st.dir[k].name
  BY FilesOfFacts
<1>2. /\ i # 0 => i \in 1 .. L /\ Hit(list, n, i)
      /\ i = 0 => \A k : ~Hit(list, n, k)
  <2>1. /\ Exists(st, n) => i \in Listed(st) /\ Matches(st.dir[i].name, n)
        /\ ~Exists(st, n) => \A k \in Listed(st) : ~Matches(st.dir[k].name, n)
    BY <1>0, FindEntryFacts
  <2>2. Exists(st, n) <=> i # 0
    BY DEF Exists
  <2>. HIDE DEF i, list
  <2>. QED BY <1>1, <2>1, <2>2 DEF Hit, Matches, Listed
<1>3. size = IF i # 0 THEN L - 1 ELSE L
  <2>1. CASE i # 0
    <3>1. FilesOf(Dropped(st, n)) = WithoutIndex(list, i)
      <4>1. Apart(list) /\ Hit(list, n, i)
        BY <1>2, <2>1, FilesApartByName
      <4>. QED BY <4>1, DroppedList, WithoutOne
    <3>2. Len(WithoutIndex(list, i)) = L - 1
      <4>. HIDE DEF list, i
      <4>. QED BY <1>1, <1>2, <2>1, EntryOut
    <3>3. Len(FilesOf(Dropped(st, n))) = size
      BY DroppedLeaves, FilesOfFacts
    <3>. QED BY <2>1, <3>1, <3>2, <3>3
  <2>2. CASE i = 0
    BY <1>1, <2>2 DEF Dropped, Exists
  <2>. QED BY <2>1, <2>2
<1>4. place = IF moved < size THEN moved ELSE size
  BY DEF InsertPosition
<1>. HIDE DEF list, i, size, place, L
<1>5. i \in Nat /\ cut \in 0 .. L
  BY <1>1, <1>2
<1>. DEFINE AtCut == /\ place \in Nat
                     /\ place = IF i # 0 /\ i =< cut THEN cut - 1 ELSE cut
                     /\ ~(i = 0) => place =< L - 1
<1>6. ASSUME i = 0 PROVE AtCut
  BY <1>1, <1>3, <1>4, <1>5, <1>6
<1>7. ASSUME i # 0 /\ i =< cut PROVE AtCut
  <2>1. i \in Nat /\ i >= 1 /\ i =< L /\ i - 1 < position /\ moved = position - 1 /\ size = L - 1
    BY <1>1, <1>2, <1>3, <1>5, <1>7
  <2>2. place = cut - 1
    BY <1>1, <1>4, <1>7, <2>1
  <2>. QED BY <1>1, <1>5, <1>7, <2>1, <2>2
<1>8. ASSUME i # 0 /\ ~(i =< cut) PROVE AtCut
  <2>1. i \in Nat /\ i =< L
    BY <1>1, <1>2, <1>8
  <2>2. position < L /\ cut = position /\ moved = position /\ size = L - 1
    BY <1>1, <1>3, <1>8, <2>1
  <2>3. place = cut /\ place =< L - 1
    BY <1>1, <1>4, <2>2
  <2>. QED BY <1>5, <1>8, <2>2, <2>3
<1>9. AtCut
  BY <1>6, <1>7, <1>8
<1>10. Found(list, n, i)
  BY <1>2 DEF Found
<1>. QED BY <1>5, <1>9, <1>10 DEF list, i, place, L

\* What is added again, as lists: the files before the place stay, the new file
\* and those behind the place follow.
LEMMA InsertAddsList ==
  ASSUME NEW st, Sound(st), NEW position \in Nat, NEW n \in Name, NEW d \in Content
  PROVE  LET rest  == FilesOf(Dropped(st, n))
             place == InsertPosition(st, position, n)
             tail  == << [name |-> n, content |-> d] >> \o SubSeq(rest, place + 1, Len(rest))
         IN  place \in 0 .. Len(rest) =>
               \E base : /\ Sound(base) /\ FilesOf(base) = SubSeq(rest, 1, place)
                         /\ Abutting(Dropped(st, n)) => Abutting(base)
                         /\ InsertResult(st, position, n, d) = AddedInOrder(base, tail)
<1>. DEFINE room  == Dropped(st, n)
            rest  == FilesOf(room)
            place == InsertPosition(st, position, n)
            first == place + 1
            size  == Len(room.dir)
            lift  == LiftedUpTo(room, first, size, size)
            base  == [lift EXCEPT !.dir = SubSeq(@, 1, first - 1)]
            old   == [k \in 1 .. size - first + 1 |->
                        [name    |-> room.dir[first + k - 1].name,
                         content |-> room.data[room.dir[first + k - 1].name]]]
            back  == SubSeq(rest, place + 1, Len(rest))
<1>. SUFFICES ASSUME place \in 0 .. Len(rest)
              PROVE  \E b : /\ Sound(b) /\ FilesOf(b) = SubSeq(rest, 1, place)
                            /\ Abutting(room) => Abutting(b)
                            /\ InsertResult(st, position, n, d)
                                 = AddedInOrder(b, << [name |-> n, content |-> d] >> \o back)
  OBVIOUS
<1>1. Sound(room) /\ room \in FileSystem
  BY DroppedLeaves DEF Sound
<1>. HIDE DEF room, place
<1>2. /\ rest \in Seq(File) /\ Len(rest) = size /\ size \in Nat
      /\ \A k \in 1 .. size : /\ rest[k] \in File /\ rest[k].name = room.dir[k].name
                              /\ rest[k].content = room.data[room.dir[k].name]
  BY <1>1, FilesOfFacts
<1>3. place \in Nat /\ place =< size /\ first \in 1 .. size + 1 /\ first \in Nat \ {0}
  BY <1>2
<1>4. InsertResult(st, position, n, d)
        = AddedInOrder(base, << [name |-> n, content |-> d] >> \o old)
  <2>1. Unlifted(room, first) = {}
    BY <1>1, <1>3, NothingUnlifted
  <2>. QED BY <2>1 DEF InsertResult, room, place
<1>5. Sound(base) /\ Inherits(room, base)
  BY <1>1, <1>3, SoundLifted
<1>6. /\ back \in Seq(File) /\ Len(back) = size - place
      /\ \A k \in 1 .. size - place : back[k] = rest[place + k]
  <2>1. place + 1 \in 1 .. Len(rest) + 1 /\ Len(rest) \in (place + 1) - 1 .. Len(rest)
    BY <1>2, <1>3
  <2>2. /\ back \in Seq(File) /\ Len(back) = Len(rest) - (place + 1) + 1
        /\ \A k \in 1 .. Len(rest) - (place + 1) + 1 : back[k] = rest[(place + 1) + k - 1]
    BY <1>2, <2>1, Part
  <2>. HIDE DEF back, rest, size
  <2>3. Len(rest) - (place + 1) + 1 = size - place
    BY <1>2, <1>3
  <2>4. \A k \in 1 .. size - place : (place + 1) + k - 1 = place + k
    BY <1>3
  <2>. QED BY <2>2, <2>3, <2>4
<1>7. old = back
  <2>. HIDE DEF rest
  <2>1. size - first + 1 = size - place
    BY <1>2, <1>3
  <2>2. ASSUME NEW k \in 1 .. size - place
        PROVE  back[k] = [name    |-> room.dir[first + k - 1].name,
                          content |-> room.data[room.dir[first + k - 1].name]]
    <3>1. place + k \in 1 .. size /\ first + k - 1 = place + k
      BY <1>2, <1>3
    <3>2. back[k] = rest[place + k]
      BY <1>6
    <3>3. /\ rest[place + k] \in File /\ rest[place + k].name = room.dir[place + k].name
          /\ rest[place + k].content = room.data[room.dir[place + k].name]
      BY <1>2, <3>1
    <3>. HIDE DEF back
    <3>. QED BY <3>1, <3>2, <3>3 DEF File
  <2>3. DOMAIN back = 1 .. size - place /\ back = [k \in DOMAIN back |-> back[k]]
    <3>. HIDE DEF back
    <3>1. back \in [1 .. Len(back) -> File]
      BY <1>6, LenProperties
    <3>. QED BY <1>6, <3>1
  <2>. HIDE DEF back
  <2>4. old = [k \in 1 .. size - place |-> back[k]]
    BY <2>1, <2>2
  <2>. QED BY <2>3, <2>4
<1>8. FilesOf(base) = SubSeq(rest, 1, place)
  <2>. DEFINE front == SubSeq(rest, 1, place)
  <2>1. /\ front \in Seq(File) /\ Len(front) = place
        /\ \A k \in 1 .. place : front[k] = rest[k]
    <3>1. 1 \in 1 .. Len(rest) + 1 /\ place \in 1 - 1 .. Len(rest)
      BY <1>2, <1>3
    <3>2. /\ front \in Seq(File) /\ Len(front) = place - 1 + 1
          /\ \A k \in 1 .. place - 1 + 1 : front[k] = rest[1 + k - 1]
      BY <1>2, <3>1, Part
    <3>. HIDE DEF front
    <3>. QED BY <1>3, <3>2
  <2>2. Len(base.dir) = place /\ \A k \in 1 .. place : base.dir[k] = room.dir[k]
    <3>1. base.dir = SubSeq(room.dir, 1, place)
      <4>1. lift.dir = room.dir
        BY <1>1 DEF LiftedUpTo, FileSystem
      <4>2. base.dir = SubSeq(lift.dir, 1, first - 1)
        BY <1>1 DEF LiftedUpTo, FileSystem
      <4>. HIDE DEF lift, base
      <4>. QED BY <1>3, <4>1, <4>2
    <3>. DEFINE p == SubSeq(room.dir, 1, place)
    <3>2. 1 \in Int /\ place \in Int /\ \A k \in 1 .. place : room.dir[k] \in Entry
      <4>1. room.dir \in Seq(Entry)
        BY <1>1, FileSystemFields
      <4>. QED BY <1>2, <1>3, <4>1, ElementOfSeq
    <3>3. /\ Len(p) = IF 1 <= place THEN place - 1 + 1 ELSE 0
          /\ \A k \in 1 .. place - 1 + 1 : p[k] = room.dir[1 + k - 1]
      BY <3>2, SubSeqProperties
    <3>. HIDE DEF p, base
    <3>4. Len(p) = place /\ \A k \in 1 .. place : p[k] = room.dir[k]
      BY <1>3, <3>3
    <3>. QED BY <3>1, <3>4 DEF p
  <2>. HIDE DEF base, front, rest
  <2>3. /\ FilesOf(base) \in Seq(File) /\ Len(FilesOf(base)) = Len(base.dir)
        /\ \A k \in 1 .. Len(base.dir) :
             /\ FilesOf(base)[k] \in File /\ FilesOf(base)[k].name = base.dir[k].name
             /\ FilesOf(base)[k].content = base.data[base.dir[k].name]
    BY <1>5, FilesOfFacts
  <2>4. ASSUME NEW k \in 1 .. place PROVE FilesOf(base)[k] = front[k]
    <3>1. k \in Listed(base) /\ k \in 1 .. size /\ k \in Listed(room)
      BY <1>2, <1>3, <2>2 DEF Listed
    <3>2. base.data[base.dir[k].name] = room.data[room.dir[k].name]
      <4>1. PICK j \in Listed(room) : Carried(room, base, j, k)
        BY <1>5, <3>1 DEF Inherits
      <4>2. base.dir[k] = room.dir[j] /\ base.dir[k] = room.dir[k]
        BY <2>2, <4>1 DEF Carried
      <4>. QED BY <4>1, <4>2 DEF Carried
    <3>3. /\ FilesOf(base)[k] \in File /\ rest[k] \in File
          /\ FilesOf(base)[k].name = rest[k].name
          /\ FilesOf(base)[k].content = rest[k].content
      BY <1>2, <2>2, <2>3, <3>1, <3>2
    <3>4. FilesOf(base)[k] = rest[k]
      BY <3>3 DEF File
    <3>. QED BY <2>1, <3>4
  <2>5. FilesOf(base) = front
    BY <2>1, <2>2, <2>3, <2>4, SeqEqual
  <2>. QED BY <2>5 DEF front
<1>9. Abutting(room) => Abutting(base)
  BY <1>1, <1>3, LiftedAbuts
<1>. HIDE DEF base, old, back
<1>. QED BY <1>4, <1>5, <1>7, <1>8, <1>9

\* The result of adding the files of tail, of names of their own, to a sound
\* filesystem with the files of before, which abut when those of room do.
AddsBehind(result, room, before, tail) ==
  /\ before \in Seq(File) /\ tail \in Seq(File) /\ Apart(tail)
  /\ \E base :
       /\ Sound(base) /\ FilesOf(base) = before
       /\ Abutting(room) => Abutting(base)
       /\ result = AddedInOrder(base, tail)
       /\ \A a \in 1 .. Len(FilesOf(base)), b \in 1 .. Len(tail) :
            Fold[FilesOf(base)[a].name] # Fold[tail[b].name]

\* What insert_file adds to what: the files before the place stay, the new one
\* and those behind it are added again.
LEMMA InsertAdds ==
  ASSUME NEW st, Sound(st), NEW position \in Nat, NEW n \in Name, NEW d \in Content
  PROVE  LET result == InsertResult(st, position, n, d)
             list   == FilesOf(st)
             cut    == IF position < Len(list) THEN position ELSE Len(list)
             before == Store!Without(SubSeq(list, 1, cut), n)
             after  == Store!Without(SubSeq(list, cut + 1, Len(list)), n)
             tail   == << [name |-> n, content |-> d] >> \o after
         IN  /\ AddsBehind(result, Dropped(st, n), before, tail)
             /\ Len(before) + Len(tail) = Len(Dropped(st, n).dir) + 1
             /\ Len(tail) - 1 = Len(after)
<1>. DEFINE result == InsertResult(st, position, n, d)
            list   == FilesOf(st)
            i      == FindEntry(st, n)
            cut    == IF position < Len(list) THEN position ELSE Len(list)
            place  == InsertPosition(st, position, n)
            before == Store!Without(SubSeq(list, 1, cut), n)
            after  == Store!Without(SubSeq(list, cut + 1, Len(list)), n)
            new    == [name |-> n, content |-> d]
            tail   == << new >> \o after
            room   == Dropped(st, n)
            rest   == FilesOf(room)
<1>1. list \in Seq(File) /\ Apart(list)
  BY FilesOfFacts, FilesApartByName
<1>2. /\ i \in Nat /\ Found(list, n, i) /\ cut \in 0 .. Len(list) /\ place \in Nat
      /\ place = IF i # 0 /\ i =< cut THEN cut - 1 ELSE cut
      /\ ~(i = 0) => place =< Len(list) - 1
  BY PlaceOnList
<1>3. rest = Store!Without(list, n)
  BY DroppedList
<1>4. /\ place \in 0 .. Len(rest) /\ before = SubSeq(rest, 1, place)
      /\ after = SubSeq(rest, place + 1, Len(rest))
  <2>. HIDE DEF list, i, place, cut, rest
  <2>1. CutAlike(list, n, cut, place)
    BY <1>1, <1>2, CutAndTakeOut
  <2>. QED BY <1>3, <2>1 DEF CutAlike
<1>5. /\ Sound(room) /\ \A k \in Listed(room) : ~Matches(room.dir[k].name, n)
  BY DroppedLeaves
<1>6. /\ rest \in Seq(File) /\ Len(rest) \in Nat /\ Apart(rest)
      /\ \A k \in 1 .. Len(rest) : rest[k] \in File /\ Fold[rest[k].name] # Fold[n]
  <2>1. /\ rest \in Seq(File) /\ Len(rest) = Len(room.dir) /\ Len(room.dir) \in Nat
        /\ \A k \in 1 .. Len(room.dir) : rest[k] \in File /\ rest[k].name = room.dir[k].name
    BY <1>5, FilesOfFacts
  <2>. HIDE DEF room
  <2>2. Apart(rest)
    BY <1>5, FilesApartByName
  <2>. HIDE DEF rest
  <2>. QED BY <1>5, <2>1, <2>2 DEF Matches, Listed
<1>7. PICK base : /\ Sound(base) /\ FilesOf(base) = before
                  /\ Abutting(room) => Abutting(base)
                  /\ result = AddedInOrder(base, tail)
  <2>. HIDE DEF place, before, after
  <2>1. \E b : /\ Sound(b) /\ FilesOf(b) = SubSeq(rest, 1, place)
               /\ Abutting(room) => Abutting(b)
               /\ result = AddedInOrder(b, << new >> \o SubSeq(rest, place + 1, Len(rest)))
    BY <1>4, InsertAddsList DEF place
  <2>. QED BY <1>4, <2>1
<1>. HIDE DEF result, list, cut, place, rest
<1>8. /\ before \in Seq(File) /\ Len(before) = place
      /\ \A k \in 1 .. place : before[k] = rest[k]
  <2>. HIDE DEF before
  <2>1. 1 \in 1 .. Len(rest) + 1 /\ place \in 1 - 1 .. Len(rest)
    BY <1>4, <1>6
  <2>2. /\ before \in Seq(File) /\ Len(before) = place - 1 + 1
        /\ \A k \in 1 .. place - 1 + 1 : before[k] = rest[1 + k - 1]
    BY <1>4, <1>6, <2>1, Part
  <2>. QED BY <1>2, <2>2
<1>9. /\ after \in Seq(File) /\ Len(after) = Len(rest) - place
      /\ \A k \in 1 .. Len(rest) - place : after[k] = rest[place + k]
  <2>. HIDE DEF after
  <2>1. place + 1 \in 1 .. Len(rest) + 1 /\ Len(rest) \in (place + 1) - 1 .. Len(rest)
    BY <1>4, <1>6
  <2>2. /\ after \in Seq(File) /\ Len(after) = Len(rest) - (place + 1) + 1
        /\ \A k \in 1 .. Len(rest) - (place + 1) + 1 : after[k] = rest[(place + 1) + k - 1]
    BY <1>4, <1>6, <2>1, Part
  <2>3. Len(rest) - (place + 1) + 1 = Len(rest) - place
    BY <1>2, <1>6
  <2>4. \A k \in 1 .. Len(rest) - place : (place + 1) + k - 1 = place + k
    BY <1>2, <1>6
  <2>. QED BY <2>2, <2>3, <2>4
<1>. HIDE DEF before, after
<1>10. new \in File /\ << new >> \in Seq(File) /\ Len(<< new >>) = 1 /\ << new >>[1] = new
  <2>1. new \in File
    BY DEF File
  <2>. QED BY <2>1
<1>11. /\ tail \in Seq(File) /\ Len(tail) = Len(after) + 1 /\ tail[1] = new
       /\ \A k \in 2 .. Len(after) + 1 : tail[k] = rest[place + (k - 1)]
  <2>. DEFINE one == << new >>
  <2>0. one \in Seq(File) /\ Len(one) = 1 /\ one[1] = new
    BY <1>10
  <2>. HIDE DEF one, new
  <2>1. /\ one \o after \in Seq(File) /\ Len(one \o after) = 1 + Len(after)
        /\ \A k \in 1 .. 1 + Len(after) :
             (one \o after)[k] = IF k =< 1 THEN one[k] ELSE after[k - 1]
    <3>1. /\ one \o after \in Seq(File) /\ Len(one \o after) = Len(one) + Len(after)
          /\ \A k \in 1 .. Len(one) + Len(after) :
               (one \o after)[k] = IF k =< Len(one) THEN one[k] ELSE after[k - Len(one)]
      BY <1>9, <2>0, Joined
    <3>. QED BY <2>0, <3>1
  <2>2. Len(after) \in Nat
    BY <1>9, LenProperties
  <2>3. ASSUME NEW k \in 2 .. Len(after) + 1 PROVE (one \o after)[k] = rest[place + (k - 1)]
    <3>1. /\ k \in 1 .. 1 + Len(after) /\ ~(k =< 1) /\ k - 1 \in 1 .. Len(rest) - place
      BY <1>9, <2>2
    <3>. QED BY <1>9, <2>1, <3>1
  <2>4. (one \o after)[1] = new
    <3>1. 1 \in 1 .. 1 + Len(after)
      BY <2>2
    <3>. QED BY <2>0, <2>1, <3>1
  <2>5. Len(one \o after) = Len(after) + 1
    BY <2>1, <2>2
  <2>. QED BY <2>1, <2>3, <2>4, <2>5 DEF one
<1>. HIDE DEF tail
<1>12. Len(after) \in Nat
  BY <1>9, LenProperties
<1>13. \A k \in 1 .. Len(tail) : k = 1 \/ (k \in 2 .. Len(after) + 1
                                          /\ place + (k - 1) \in 1 .. Len(rest)
                                          /\ ~(place + (k - 1) =< place))
  BY <1>2, <1>9, <1>11, <1>12
<1>14. new.name = n
  OBVIOUS
<1>. HIDE DEF new
<1>15. Apart(tail)
  <2>. SUFFICES ASSUME NEW a \in 1 .. Len(tail), NEW b \in 1 .. Len(tail),
                       Fold[tail[a].name] = Fold[tail[b].name]
                PROVE  a = b
    BY DEF Apart
  <2>1. CASE a = 1 \/ b = 1
    BY <1>6, <1>11, <1>13, <1>14, <2>1
  <2>2. CASE a # 1 /\ b # 1
    <3>1. place + (a - 1) = place + (b - 1)
      <4>1. /\ a \in 2 .. Len(after) + 1 /\ place + (a - 1) \in 1 .. Len(rest)
            /\ b \in 2 .. Len(after) + 1 /\ place + (b - 1) \in 1 .. Len(rest)
        BY <1>13, <2>2
      <4>2. Fold[rest[place + (a - 1)].name] = Fold[rest[place + (b - 1)].name]
        BY <1>11, <4>1
      <4>. QED BY <1>6, <4>1, <4>2 DEF Apart
    <3>. QED BY <1>2, <3>1
  <2>. QED BY <2>1, <2>2
<1>16. ASSUME NEW a \in 1 .. Len(before), NEW b \in 1 .. Len(tail)
       PROVE  Fold[before[a].name] # Fold[tail[b].name]
  <2>1. a \in 1 .. Len(rest) /\ a =< place /\ before[a] = rest[a]
    BY <1>4, <1>6, <1>8
  <2>2. CASE b = 1
    BY <1>6, <1>11, <1>14, <2>1, <2>2
  <2>3. CASE b # 1
    <3>1. /\ b \in 2 .. Len(after) + 1 /\ place + (b - 1) \in 1 .. Len(rest)
          /\ ~(place + (b - 1) =< place)
      BY <1>13, <2>3
    <3>2. tail[b] = rest[place + (b - 1)] /\ place + (b - 1) # a
      BY <1>11, <2>1, <3>1
    <3>. QED BY <1>6, <2>1, <3>1, <3>2 DEF Apart
  <2>. QED BY <2>2, <2>3
<1>17. \A a \in 1 .. Len(FilesOf(base)), b \in 1 .. Len(tail) :
         Fold[FilesOf(base)[a].name] # Fold[tail[b].name]
  BY <1>7, <1>16
<1>18. Len(tail) - 1 = Len(after)
  BY <1>11, <1>12
<1>19. Len(before) + Len(tail) = Len(room.dir) + 1
  <2>1. Len(rest) = Len(room.dir)
    BY <1>5, FilesOfFacts DEF rest
  <2>. HIDE DEF room
  <2>. QED BY <1>2, <1>6, <1>8, <1>9, <1>11, <2>1
<1>20. AddsBehind(result, room, before, tail)
  BY <1>7, <1>8, <1>11, <1>15, <1>17 DEF AddsBehind
<1>. QED BY <1>18, <1>19, <1>20
         DEF result, list, cut, before, after, tail, new, room

\* insert_file is an insert: the new file goes before the one at the position,
\* and a failure keeps the files before it and some of those behind.
LEMMA InsertedList ==
  ASSUME NEW st, Sound(st), NEW position \in Nat, NEW n \in Name, NEW d \in Content
  PROVE  LET result == InsertResult(st, position, n, d)
             list   == FilesOf(st)
             cut    == IF position < Len(list) THEN position ELSE Len(list)
             before == Store!Without(SubSeq(list, 1, cut), n)
             after  == Store!Without(SubSeq(list, cut + 1, Len(list)), n)
             tail   == << [name |-> n, content |-> d] >> \o after
         IN  IF result.code = "ok" THEN FilesOf(result.fs) = before \o tail
             ELSE \E k \in 0 .. Len(after) : FilesOf(result.fs) = before \o SubSeq(tail, 1, k)
<1>. DEFINE result == InsertResult(st, position, n, d)
            list   == FilesOf(st)
            cut    == IF position < Len(list) THEN position ELSE Len(list)
            before == Store!Without(SubSeq(list, 1, cut), n)
            after  == Store!Without(SubSeq(list, cut + 1, Len(list)), n)
            tail   == << [name |-> n, content |-> d] >> \o after
<1>1. AddsBehind(result, Dropped(st, n), before, tail) /\ Len(tail) - 1 = Len(after)
  BY InsertAdds
<1>. HIDE DEF result, before, after, tail
<1>2. IF result.code = "ok" THEN FilesOf(result.fs) = before \o tail
      ELSE \E k \in 0 .. Len(tail) - 1 : FilesOf(result.fs) = before \o SubSeq(tail, 1, k)
  <2>1. PICK base :
          /\ Sound(base) /\ FilesOf(base) = before
          /\ result = AddedInOrder(base, tail)
          /\ \A a \in 1 .. Len(FilesOf(base)), b \in 1 .. Len(tail) :
               Fold[FilesOf(base)[a].name] # Fold[tail[b].name]
    BY <1>1 DEF AddsBehind
  <2>2. LET r == AddedInOrder(base, tail)
        IN  IF r.code = "ok" THEN FilesOf(r.fs) = FilesOf(base) \o tail
            ELSE \E k \in 0 .. Len(tail) - 1 :
                   FilesOf(r.fs) = FilesOf(base) \o SubSeq(tail, 1, k)
    BY <1>1, <2>1, AddedInOrderList DEF AddsBehind
  <2>. QED BY <2>1, <2>2
<1>. QED BY <1>1, <1>2 DEF result, before, after, tail

\* An insert of a new name that succeeds keeps files back to back so.
LEMMA InsertAbuts ==
  ASSUME NEW st, Sound(st), Abutting(st),
         NEW position \in Nat, NEW n \in Name, NEW d \in Content,
         InsertResult(st, position, n, d).code = "ok",
         Len(InsertResult(st, position, n, d).fs.dir) = Len(st.dir) + 1
  PROVE  Abutting(InsertResult(st, position, n, d).fs)
<1>. DEFINE result == InsertResult(st, position, n, d)
            room   == Dropped(st, n)
            list   == FilesOf(st)
            cut    == IF position < Len(list) THEN position ELSE Len(list)
            before == Store!Without(SubSeq(list, 1, cut), n)
            after  == Store!Without(SubSeq(list, cut + 1, Len(list)), n)
            tail   == << [name |-> n, content |-> d] >> \o after
<1>0. /\ AddsBehind(result, room, before, tail)
      /\ Len(before) + Len(tail) = Len(room.dir) + 1
  BY InsertAdds
<1>. HIDE DEF result, before, after, tail
<1>1. PICK base :
        /\ before \in Seq(File) /\ tail \in Seq(File) /\ Apart(tail)
        /\ Sound(base) /\ FilesOf(base) = before
        /\ Abutting(room) => Abutting(base)
        /\ result = AddedInOrder(base, tail)
        /\ \A a \in 1 .. Len(FilesOf(base)), b \in 1 .. Len(tail) :
             Fold[FilesOf(base)[a].name] # Fold[tail[b].name]
  <2>. HIDE DEF room
  <2>. QED BY <1>0 DEF AddsBehind
<1>2. Len(result.fs.dir) = Len(room.dir) + 1
  <2>1. FilesOf(result.fs) = before \o tail
    BY <1>1, AddedInOrderList DEF result
  <2>2. Len(FilesOf(result.fs)) = Len(result.fs.dir)
    BY SoundInsert, FilesOfFacts DEF result
  <2>3. Len(before \o tail) = Len(before) + Len(tail)
    BY Joined
  <2>. QED BY <1>0, <1>1, <2>1, <2>2, <2>3
<1>3. ~Exists(st, n)
  <2>. SUFFICES ASSUME Exists(st, n) PROVE FALSE
    OBVIOUS
  <2>1. Len(room.dir) = Len(st.dir) - 1
    <3>1. st \in FileSystem /\ st.dir \in Seq(Entry)
      BY FileSystemFields DEF Sound
    <3>2. FindEntry(st, n) \in 1 .. Len(st.dir)
      BY <3>1, FindEntryFacts DEF Listed
    <3>3. room.dir = WithoutIndex(st.dir, FindEntry(st, n))
      BY <3>1 DEF Dropped, Deleted, FileSystem
    <3>. HIDE DEF room
    <3>. QED BY <3>1, <3>2, <3>3, WithoutIndexFacts
  <2>2. Len(st.dir) \in Nat
    BY FileSystemFields DEF Sound
  <2>. HIDE DEF room
  <2>. QED BY <1>2, <2>1, <2>2 DEF result
<1>4. Abutting(base)
  BY <1>1, <1>3 DEF Dropped
<1>5. \A i \in Listed(base), j \in 1 .. Len(tail) :
        ~Matches(base.dir[i].name, tail[j].name)
  <2>1. /\ Len(FilesOf(base)) = Len(base.dir)
        /\ \A i \in 1 .. Len(base.dir) : FilesOf(base)[i].name = base.dir[i].name
    BY <1>1, FilesOfFacts
  <2>. QED BY <1>1, <2>1 DEF Matches, Listed
<1>. QED BY <1>1, <1>4, <1>5, AddedInOrderAbuts DEF result

-----------------------------------------------------------------------------
(***************************************************************************)
(* Every call.                                                             *)
(***************************************************************************)

\* Calls that place the root or keep space from allocation leave the files.
LEMMA SameFiles ==
  ASSUME NEW st, NEW st2, st2.dir = st.dir, st2.data = st.data
  PROVE  FilesOf(st2) = FilesOf(st)
BY DEF FilesOf, Listed

\* A filesystem just formatted lists none.
LEMMA NoFiles ==
  ASSUME NEW st, st.dir = << >>
  PROVE  FilesOf(st) = << >>
<1>1. Listed(st) = {}
  BY EmptySeq DEF Listed
<1>2. FilesOf(st) = [i \in {} |-> 0]
  BY <1>1 DEF FilesOf
<1>. QED BY <1>2

\* A store that has just been set up is empty.
LEMMA InitIsEmpty == Init => Store!StoreInit
<1>. SUFFICES ASSUME Init PROVE Store!StoreInit
  OBVIOUS
<1>1. fs.dir = << >>
  BY DEF Init, FormattedMap
<1>. QED BY <1>1, NoFiles DEF Init, Store!StoreInit

\* A call that leaves the files is none to the store.
LEMMA KeepIsAllowed ==
  ASSUME FilesOf(fs') = FilesOf(fs), last'.at = 0
  PROVE  Store!StoreNext
BY DEF Store!StoreNext, Store!Keep

\* Every call but an insert replies without a position.
LEMMA ReplyAtNone ==
  ASSUME NEW op, NEW code, Reply(op, code)
  PROVE  last'.at = 0
BY DEF Reply

\* Every call does to the list of files what the store allows.
LEMMA StepIsAllowed == Inv /\ [Next]_vars => [Store!StoreNext]_Store!storeVars
<1>. SUFFICES ASSUME Inv, [Next]_vars PROVE [Store!StoreNext]_Store!storeVars
  OBVIOUS
<1>0. Sound(fs) /\ fs \in FileSystem
  BY DEF Inv, Sound
<1>1. ASSUME NEW root \in RootChoice \cup {kDeferRoot}, NEW boundary \in BoundaryChoice,
             Format(root, boundary)
      PROVE  Store!StoreNext
  <2>1. CASE Refuse("format", "InvalidArgument")
    BY <2>1, KeepIsAllowed DEF Refuse, Reply
  <2>2. CASE fs' = Formatted(fs, root, boundary) /\ Reply("format", "ok")
    <3>. DEFINE blank == [FormattedMap(boundary) EXCEPT !.rootBlock = fs.rootBlock]
    <3>1. blank.dir = << >> /\ PlaceRoot(blank, root).dir = << >>
      BY DEF FormattedMap, PlaceRoot
    <3>2. fs'.dir = << >>
      BY <2>2, <3>1 DEF Formatted
    <3>3. FilesOf(fs') = << >>
      BY <3>2, NoFiles
    <3>4. last'.at = 0 /\ last'.code = "ok"
      BY <2>2 DEF Reply
    <3>. QED BY <3>3, <3>4 DEF Store!StoreNext, Store!Wipe
  <2>. QED BY <1>1, <2>1, <2>2 DEF Format
<1>2. ASSUME NEW block \in RootChoice, SetRootBlock(block)
      PROVE  Store!StoreNext
  <2>1. last'.at = 0
    BY <1>2, ReplyAtNone, Zenon DEF SetRootBlock, Refuse
  <2>2. CASE fs' = PlaceRoot(ReleaseRoot(fs), block)
    <3>1. /\ ReleaseRoot(fs).dir = fs.dir /\ ReleaseRoot(fs).data = fs.data
          /\ ReleaseRoot(fs) \in FileSystem
      BY <1>0, SoundReleaseRoot DEF ReleaseRoot, FileSystem, Sound
    <3>2. fs'.dir = fs.dir /\ fs'.data = fs.data
      BY <2>2, <3>1 DEF PlaceRoot, FileSystem
    <3>. QED BY <2>1, <3>2, SameFiles, KeepIsAllowed
  <2>3. CASE fs' = fs
    BY <2>1, <2>3, KeepIsAllowed
  <2>. QED BY <1>2, <2>2, <2>3 DEF SetRootBlock, Refuse
<1>3. ASSUME NEW clusters, NEW value, fs' = SetAside(fs, clusters, value) \/ fs' = fs,
             last'.at = 0
      PROVE  Store!StoreNext
  <2>1. CASE fs' = SetAside(fs, clusters, value)
    <3>1. fs'.dir = fs.dir /\ fs'.data = fs.data
      BY <1>0, <2>1 DEF SetAside, FileSystem
    <3>. QED BY <1>3, <3>1, SameFiles, KeepIsAllowed
  <2>2. CASE fs' = fs
    BY <1>3, <2>2, KeepIsAllowed
  <2>. QED BY <1>3, <2>1, <2>2
<1>4. ASSUME NEW start, NEW count, ReserveBlocks(start, count)
      PROVE  Store!StoreNext
  <2>1. /\ last'.at = 0
        /\ fs' = fs \/ \E clusters : fs' = SetAside(fs, clusters, NotStated)
    BY <1>4, ReplyAtNone, Zenon DEF ReserveBlocks, Refuse
  <2>. QED BY <1>3, <2>1
<1>5. ASSUME NEW w, WithholdClusters(w[1], w[2], w[3]) \/ WithholdBlocks(w[1], w[2], w[3])
      PROVE  Store!StoreNext
  <2>1. /\ last'.at = 0
        /\ fs' = fs \/ \E clusters : fs' = SetAside(fs, clusters, w[3])
    BY <1>5, ReplyAtNone, Zenon DEF WithholdClusters, WithholdBlocks, Withhold, Refuse
  <2>. QED BY <1>3, <2>1
<1>6. ASSUME NEW n \in Name, NEW d \in Content, AddFile(n, d)
      PROVE  Store!StoreNext
  <2>. DEFINE result == AddResult(fs, n, d)
  <2>1. IF result.code = "ok"
        THEN FilesOf(result.fs) = Append(Store!Without(FilesOf(fs), n), [name |-> n, content |-> d])
        ELSE FilesOf(result.fs) \in {FilesOf(fs), Store!Without(FilesOf(fs), n)}
    BY <1>0, AddedList
  <2>2. fs' = result.fs /\ last'.code = result.code /\ last'.at = 0
    BY <1>6 DEF AddFile, Reply
  <2>. HIDE DEF result
  <2>3. \/ /\ (last'.code = "ok") = TRUE
           /\ FilesOf(fs') = Append(Store!Without(FilesOf(fs), n), [name |-> n, content |-> d])
        \/ /\ (last'.code = "ok") = FALSE
           /\ FilesOf(fs') \in {FilesOf(fs), Store!Without(FilesOf(fs), n)}
    BY <2>1, <2>2
  <2>. QED BY <2>2, <2>3 DEF Store!StoreNext, Store!Put
<1>7. ASSUME NEW position \in 0 .. MaxEntries, NEW n \in Name, NEW d \in Content,
             InsertFile(position, n, d)
      PROVE  Store!StoreNext
  <2>. DEFINE result == InsertResult(fs, position, n, d)
              list   == FilesOf(fs)
              cut    == IF position < Len(list) THEN position ELSE Len(list)
              before == Store!Without(SubSeq(list, 1, cut), n)
              after  == Store!Without(SubSeq(list, cut + 1, Len(list)), n)
              tail   == << [name |-> n, content |-> d] >> \o after
  <2>0. position \in Nat
    BY ShapeAssumption
  <2>1. IF result.code = "ok" THEN FilesOf(result.fs) = before \o tail
        ELSE \E k \in 0 .. Len(after) : FilesOf(result.fs) = before \o SubSeq(tail, 1, k)
    BY <1>0, <2>0, InsertedList
  <2>2. fs' = result.fs /\ last'.code = result.code /\ last'.at = position
    BY <1>7 DEF InsertFile
  <2>. HIDE DEF result, before, after, tail
  <2>3. \/ (last'.code = "ok") = TRUE /\ FilesOf(fs') = before \o tail
        \/ /\ (last'.code = "ok") = FALSE
           /\ \E k \in 0 .. Len(after) : FilesOf(fs') = before \o SubSeq(tail, 1, k)
    BY <2>1, <2>2
  <2>4. Store!Insert(position, n, d)
    BY <2>3 DEF Store!Insert, before, after, tail
  <2>. QED BY <2>2, <2>4 DEF Store!StoreNext
<1>8. ASSUME NEW n \in Name, DeleteFile(n)
      PROVE  Store!StoreNext
  <2>1. CASE Refuse("delete_file", "NotFound")
    BY <2>1, KeepIsAllowed DEF Refuse, Reply
  <2>2. CASE Exists(fs, n) /\ fs' = Deleted(fs, n) /\ Reply("delete_file", "ok")
    <3>1. FilesOf(fs') = Store!Without(FilesOf(fs), n)
      BY <1>0, <2>2, DroppedList DEF Dropped
    <3>2. Len(FilesOf(fs')) # Len(FilesOf(fs))
      <4>. DEFINE i == FindEntry(fs, n)
      <4>1. i \in Listed(fs)
        BY <1>0, <2>2, FindEntryFacts
      <4>2. fs'.dir = WithoutIndex(fs.dir, i)
        BY <1>0, <2>2 DEF Deleted, FileSystem
      <4>3. fs.dir \in Seq(Entry) /\ Len(fs.dir) \in Nat
        BY <1>0, FileSystemFields
      <4>. HIDE DEF i
      <4>4. Len(fs'.dir) = Len(fs.dir) - 1
        BY <4>1, <4>2, <4>3, WithoutIndexFacts DEF Listed
      <4>5. Sound(fs')
        BY <1>0, <2>2, SoundDeleted
      <4>6. Len(FilesOf(fs')) = Len(fs'.dir) /\ Len(FilesOf(fs)) = Len(fs.dir)
        BY <1>0, <4>5, FilesOfFacts
      <4>. QED BY <4>3, <4>4, <4>6
    <3>3. last'.at = 0 /\ last'.code = "ok"
      BY <2>2 DEF Reply
    <3>. QED BY <3>1, <3>2, <3>3 DEF Store!StoreNext, Store!Remove
  <2>. QED BY <1>8, <2>1, <2>2 DEF DeleteFile
<1>9. CASE UNCHANGED vars
  BY <1>9 DEF vars, Store!storeVars
<1>. QED BY <1>1, <1>2, <1>4, <1>5, <1>6, <1>7, <1>8, <1>9 DEF Next

\* The filesystem keeps the promise of the store: whatever the calls, and
\* however they fail, its files are an ordered list with one file per name.
THEOREM KeepsTheStore == Spec => ImplementsStore
<1>1. Inv /\ [Next]_vars => [Store!StoreNext]_Store!storeVars
  BY StepIsAllowed
<1>. QED BY <1>1, InitIsEmpty, SpecInv, PTL DEF Spec, ImplementsStore, Store!StoreSpec

\* Files that sit back to back in directory order stay that way through every
\* insert_file of a name not listed yet: it lays the new file and those behind
\* it on the lowest free clusters, each file above the one before it.
THEOREM InsertsStayBackToBack == Spec => InsertKeepsBackToBack
<1>1. ASSUME Inv, Next, Inserts, Len(fs'.dir) = Len(fs.dir) + 1, Abutting(fs)
      PROVE  Abutting(fs')
  <2>1. PICK position \in 0 .. MaxEntries, n \in Name, d \in Content :
          InsertFile(position, n, d)
    <3>. USE DEF Refuse, Reply
    <3>0. last'.op = "insert_file"
      BY <1>1 DEF Inserts
    <3>1. ASSUME NEW root, NEW boundary, Format(root, boundary) PROVE last'.op = "format"
      BY <3>1 DEF Format
    <3>2. ASSUME NEW block, SetRootBlock(block) PROVE last'.op = "set_root_block"
      BY <3>2 DEF SetRootBlock
    <3>3. ASSUME NEW start, NEW count, ReserveBlocks(start, count)
          PROVE  last'.op = "reserve_blocks"
      BY <3>3 DEF ReserveBlocks
    <3>4. ASSUME NEW first, NEW count, NEW value, WithholdClusters(first, count, value)
          PROVE  last'.op = "withhold_clusters"
      BY <3>4 DEF WithholdClusters, Withhold
    <3>5. ASSUME NEW start, NEW count, NEW value, WithholdBlocks(start, count, value)
          PROVE  last'.op = "withhold_blocks"
      BY <3>5 DEF WithholdBlocks, Withhold
    <3>6. ASSUME NEW n, NEW d, AddFile(n, d) PROVE last'.op = "add_file"
      BY <3>6 DEF AddFile
    <3>7. ASSUME NEW n, DeleteFile(n) PROVE last'.op = "delete_file"
      BY <3>7 DEF DeleteFile
    <3>. HIDE DEF Refuse, Reply
    <3>. QED BY <1>1, <3>0, <3>1, <3>2, <3>3, <3>4, <3>5, <3>6, <3>7 DEF Next
  <2>. DEFINE result == InsertResult(fs, position, n, d)
  <2>2. fs' = result.fs /\ last'.code = result.code
    BY <2>1 DEF InsertFile
  <2>3. result.code = "ok" /\ Len(result.fs.dir) = Len(fs.dir) + 1
    BY <1>1, <2>2 DEF Inserts
  <2>4. position \in Nat
    BY ShapeAssumption
  <2>5. Abutting(result.fs)
    BY <1>1, <2>3, <2>4, InsertAbuts DEF Inv
  <2>. QED BY <2>2, <2>5
<1>2. Inv /\ [Next]_vars =>
        [Inserts /\ Len(fs'.dir) = Len(fs.dir) + 1 /\ BackToBack(fs) /\ InDirectoryOrder(fs)
           => BackToBack(fs') /\ InDirectoryOrder(fs')]_vars
  BY <1>1 DEF Abutting
<1>. QED BY <1>2, SpecInv, PTL DEF Spec, InsertKeepsBackToBack

-----------------------------------------------------------------------------
(* The object with the links a load makes of withheld clusters hidden.     *)

Phantom(st, c) == c >= BaseCluster /\ st.map[c] = BaseCluster

\* m is st with every phantom link reserved.
Hides(m, st) ==
  /\ st \in FileSystem /\ m \in FileSystem
  /\ m.dir = st.dir /\ m.data = st.data /\ m.stated = st.stated
  /\ m.rootPlaced = st.rootPlaced /\ m.rootBlock = st.rootBlock
  /\ m.rootOffset = st.rootOffset /\ m.rootKept = st.rootKept
  /\ \A c \in Cluster : m.map[c] = IF Phantom(st, c) THEN Reserved ELSE st.map[c]

Plain == Cluster \cup {Free, EndOfChain, Reserved, Table}

\* Links ascend, and no cluster the table does not describe, nor cluster 0, is
\* ever handed out.
Linked(m) ==
  /\ \A c \in Cluster : m.map[c] \in Plain
  /\ \A c \in Cluster : m.map[c] \in Cluster => c < m.map[c]
  /\ \A c \in Cluster : c < BaseCluster \/ c = 0 =>
       m.map[c] = Reserved /\ m.stated[c] = NotStated

Kept(m) == Sound(m) /\ Sized(m) /\ Linked(m)

Good(st) == \E m : Hides(m, st) /\ Kept(m)

LEMMA BaseIsCluster == BaseCluster \in Cluster /\ BaseCluster \in Nat
BY ImageAssumption, ShapeAssumption, MapSizeNat DEF Cluster

LEMMA PlainLinks == Plain \subseteq LinkValue
BY LinkValues DEF Plain

\* The values of the map that are no cluster differ.
LEMMA FourValues ==
  /\ Free # EndOfChain /\ Free # Reserved /\ Free # Table
  /\ EndOfChain # Reserved /\ EndOfChain # Table /\ Reserved # Table
BY DEF Free, EndOfChain, Reserved, Table

\* What hiding changes: only phantom links, which are links to a cluster.
LEMMA HiddenMap ==
  ASSUME NEW st, NEW m, Hides(m, st), NEW c \in Cluster
  PROVE  /\ st.map[c] # BaseCluster => m.map[c] = st.map[c]
         /\ m.map[c] # Reserved => m.map[c] = st.map[c]
         /\ st.map[c] \in {Free, EndOfChain, Reserved, Table} => m.map[c] = st.map[c]
         /\ m.map[c] = st.map[c] \/ (st.map[c] = BaseCluster /\ m.map[c] = Reserved)
BY BaseIsCluster, LowCluster DEF Hides, Phantom

\* Hiding leaves the chains, the free clusters and what holds a file alone.
LEMMA HiddenChains ==
  ASSUME NEW st, NEW m, Hides(m, st), Kept(m)
  PROVE  /\ Listed(st) = Listed(m)
         /\ \A i \in Listed(m) : ChainOf(st, i) = ChainOf(m, i)
         /\ \A i \in Listed(m) : \A c \in ChainOf(m, i) :
              /\ c \in Cluster /\ HoldsFile(m, c) /\ st.map[c] = m.map[c]
              /\ m.map[c] \in Cluster \cup {EndOfChain} /\ c >= BaseCluster /\ c # 0
         /\ FreeClusters(st.map) = FreeClusters(m.map)
<1>1. Sound(m) /\ Linked(m) /\ m \in FileSystem /\ st \in FileSystem /\ m.dir = st.dir
  BY DEF Kept, Hides
<1>2. Listed(st) = Listed(m)
  BY <1>1 DEF Listed
<1>3. ASSUME NEW i \in Listed(m), NEW c \in ChainOf(m, i)
      PROVE  /\ c \in Cluster /\ HoldsFile(m, c) /\ st.map[c] = m.map[c]
             /\ m.map[c] \in Cluster \cup {EndOfChain} /\ c >= BaseCluster /\ c # 0
  <2>1. c \in Cluster /\ HoldsFile(m, c)
    BY <1>1, ChainOfSubset DEF Sound, AccountedIn
  <2>2. m.map[c] # Reserved /\ m.map[c] # Free /\ m.map[c] # Table
    BY <2>1, HoldsFileValue
  <2>3. st.map[c] = m.map[c]
    BY <2>1, <2>2, HiddenMap
  <2>4. m.map[c] \in Plain /\ ~(c < BaseCluster) /\ c # 0
    BY <1>1, <2>1, <2>2 DEF Linked
  <2>5. c \in Nat
    BY <2>1, LowCluster
  <2>. QED BY <2>1, <2>2, <2>3, <2>4, <2>5, BaseIsCluster DEF Plain
<1>4. ASSUME NEW i \in Listed(m) PROVE ChainOf(st, i) = ChainOf(m, i)
  <2>1. \A c \in Chain(m.map, m.dir[i].start) : m.map[c] = st.map[c]
    BY <1>3 DEF ChainOf
  <2>. QED BY <1>1, <2>1, ChainAgree DEF ChainOf
<1>5. FreeClusters(st.map) = FreeClusters(m.map)
  <2>1. ASSUME NEW c \in Cluster PROVE Low(st.map[c]) = Free <=> Low(m.map[c]) = Free
    <3>1. m.map[c] = st.map[c] \/ (st.map[c] = BaseCluster /\ m.map[c] = Reserved)
      BY HiddenMap
    <3>2. Low(BaseCluster) # Free /\ Low(Reserved) # Free
      BY BaseIsCluster, LowCluster, FourValues
    <3>. QED BY <3>1, <3>2
  <2>. QED BY <2>1 DEF FreeClusters
<1>. QED BY <1>2, <1>3, <1>4, <1>5

-----------------------------------------------------------------------------
(* What each call does to the links and to an object with links hidden.    *)

LEMMA HidesFound ==
  ASSUME NEW st, NEW m, Hides(m, st), NEW n
  PROVE  FindEntry(st, n) = FindEntry(m, n) /\ (Exists(st, n) <=> Exists(m, n))
BY DEF Hides, FindEntry, Exists

\* delete_file.
LEMMA HidesDeleted ==
  ASSUME NEW st, NEW m, Hides(m, st), Kept(m), NEW n \in Name, Exists(st, n)
  PROVE  Hides(Deleted(m, n), Deleted(st, n)) /\ Kept(Deleted(m, n))
<1>. DEFINE i == FindEntry(m, n)
            m2 == Deleted(m, n)
            st2 == Deleted(st, n)
            chain == ChainOf(m, i)
            data2 == [st.data EXCEPT ![n] = NoContent]
            dir2 == WithoutIndex(st.dir, i)
<1>1. FindEntry(st, n) = i /\ Exists(m, n)
  BY HidesFound
<1>2. /\ Sound(m) /\ Sized(m) /\ Linked(m) /\ m \in FileSystem /\ st \in FileSystem
      /\ m.dir = st.dir /\ m.data = st.data
  BY DEF Kept, Hides
<1>3. i \in Listed(m)
  BY <1>1, <1>2, FindEntryFacts
<1>4. ChainOf(st, i) = chain /\ \A c \in chain : c \in Cluster /\ HoldsFile(m, c)
  BY <1>3, HiddenChains
<1>. HIDE DEF i, chain
<1>5. /\ m2 = [m EXCEPT !.map = Freed(m.map, chain), !.data = data2, !.dir = dir2]
      /\ st2 = [st EXCEPT !.map = Freed(st.map, chain), !.data = data2, !.dir = dir2]
  BY <1>1, <1>2, <1>4 DEF Deleted, i, chain
<1>6. Sound(m2) /\ Inherits(m, m2)
  BY <1>1, <1>2, SoundDeleted
<1>. HIDE DEF data2, dir2
<1>7. /\ m2.map = Freed(m.map, chain) /\ m2.data = data2 /\ m2.dir = dir2
      /\ m2.stated = m.stated /\ m2.rootPlaced = m.rootPlaced /\ m2.rootBlock = m.rootBlock
      /\ m2.rootOffset = m.rootOffset /\ m2.rootKept = m.rootKept
  <2>. HIDE DEF m2
  <2>. QED BY <1>2, <1>5 DEF FileSystem
<1>8. /\ st2.map = Freed(st.map, chain) /\ st2.data = data2 /\ st2.dir = dir2
      /\ st2.stated = st.stated /\ st2.rootPlaced = st.rootPlaced /\ st2.rootBlock = st.rootBlock
      /\ st2.rootOffset = st.rootOffset /\ st2.rootKept = st.rootKept
  <2>. HIDE DEF st2
  <2>. QED BY <1>2, <1>5 DEF FileSystem
<1>. HIDE DEF m2
<1>9. m2 \in FileSystem
  BY <1>6 DEF Sound
<1>10. st2 \in FileSystem
  <2>1. Freed(st.map, chain) \in [Cluster -> LinkValue]
    BY <1>2, FileSystemFields, FreedType
  <2>2. dir2 \in Seq(Entry) /\ data2 \in [Name -> Content \cup {NoContent}]
    BY <1>7, <1>9, FileSystemFields
  <2>. HIDE DEF st2
  <2>. QED BY <1>2, <1>5, <2>1, <2>2 DEF FileSystem
<1>. HIDE DEF st2
<1>11. \A c \in Cluster : /\ m2.map[c] = IF c \in chain THEN Free ELSE m.map[c]
                          /\ st2.map[c] = IF c \in chain THEN Free ELSE st.map[c]
  BY <1>7, <1>8 DEF Freed
<1>12. Hides(m2, st2)
  <2>1. \A c \in Cluster : m2.map[c] = IF Phantom(st2, c) THEN Reserved ELSE st2.map[c]
    <3>. SUFFICES ASSUME NEW c \in Cluster
                  PROVE  m2.map[c] = IF Phantom(st2, c) THEN Reserved ELSE st2.map[c]
      OBVIOUS
    <3>1. Free # BaseCluster
      BY BaseIsCluster, LowCluster
    <3>2. m.map[c] = IF Phantom(st, c) THEN Reserved ELSE st.map[c]
      BY DEF Hides
    <3>. QED BY <1>11, <3>1, <3>2 DEF Phantom
  <2>. QED BY <1>7, <1>8, <1>9, <1>10, <2>1 DEF Hides
<1>13. Sized(m2)
  BY <1>2, <1>6, SizedInherited
<1>14. Linked(m2)
  <2>1. \A c \in Cluster : c < BaseCluster \/ c = 0 => c \notin chain
    BY <1>2, <1>4, HoldsFileValue DEF Linked
  <2>2. Free \in Plain /\ Free \notin Cluster
    BY LowCluster DEF Plain
  <2>. QED BY <1>2, <1>7, <1>11, <2>1, <2>2 DEF Linked
<1>. QED BY <1>6, <1>12, <1>13, <1>14 DEF Kept, m2, st2

\* add_file's last stage: the allocation sees the same free clusters.
LEMMA HidesLaid ==
  ASSUME NEW st, NEW m, Hides(m, st), Kept(m), NEW n \in Name, NEW d \in Content,
         \A i \in Listed(m) : ~Matches(m.dir[i].name, n),
         ~(Cardinality(FreeClusters(m.map)) < ClustersNeeded(Length[d]))
  PROVE  Hides(Laid(m, n, d), Laid(st, n, d)) /\ Kept(Laid(m, n, d))
<1>. DEFINE need  == ClustersNeeded(Length[d])
            chain == LowestFree(m.map, need)
            start == Lowest(chain)
            entry == [name |-> n, start |-> start, length |-> Length[d]]
            size  == Len(m.dir)
            m2  == Laid(m, n, d)
            st2 == Laid(st, n, d)
            data2 == [st.data EXCEPT ![n] = d]
            dir2  == Append(st.dir, entry)
<1>1. /\ Sound(m) /\ Sized(m) /\ Linked(m) /\ m \in FileSystem /\ st \in FileSystem
      /\ m.dir = st.dir /\ m.data = st.data
  BY DEF Kept, Hides
<1>2. Length[d] \in Nat /\ need \in Nat /\ need > 0
  BY ContentAssumption, NeedsOne
<1>3. FreeClusters(m.map) # {} /\ need =< Cardinality(FreeClusters(m.map))
  <2>1. Cardinality(FreeClusters(m.map)) \in Nat
    BY FreeFinite, FS_CardinalityType
  <2>. HIDE DEF need
  <2>2. need =< Cardinality(FreeClusters(m.map))
    BY <1>2, <2>1 DEF need
  <2>. QED BY <1>2, <2>1, <2>2, FS_EmptySet
<1>4. chain = LowestFree(st.map, need)
  <2>1. FreeClusters(st.map) = FreeClusters(m.map)
    BY HiddenChains
  <2>. QED BY <2>1 DEF LowestFree
<1>5. chain \subseteq Cluster /\ chain \subseteq FreeClusters(m.map)
  BY <1>2, <1>3, LowestFreeNonempty
<1>6. /\ m2 = [m EXCEPT !.map = Allocated(m.map, need), !.data = data2, !.dir = dir2]
      /\ st2 = [st EXCEPT !.map = Allocated(st.map, need), !.data = data2, !.dir = dir2]
  BY <1>1, <1>4 DEF Laid
<1>7. /\ Sound(m2) /\ ReservedKept(m, m2)
      /\ \A i \in Listed(m) : Carried(m, m2, i, i)
      /\ Listed(m2) = Listed(m) \cup {size + 1}
      /\ m2.dir[size + 1].name = n /\ m2.dir[size + 1].length = Length[d]
      /\ ChainOf(m2, size + 1) = LowestFree(m.map, need)
  <2>1. Sound(m) /\ FreeClusters(m.map) # {}
    BY <1>1, <1>3
  <2>. QED BY <2>1, SoundLaid
<1>8. /\ \A c \in chain : Allocated(m.map, need)[c] = Allocated(st.map, need)[c]
      /\ \A c \in chain : \/ Allocated(m.map, need)[c] = EndOfChain
                          \/ /\ Allocated(m.map, need)[c] \in Cluster
                             /\ c < Allocated(m.map, need)[c]
      /\ \A c \in Cluster \ chain : /\ Allocated(m.map, need)[c] = m.map[c]
                                    /\ Allocated(st.map, need)[c] = st.map[c]
      /\ Allocated(st.map, need) \in
           [Cluster -> {st.map[c] : c \in Cluster} \cup Cluster \cup {EndOfChain}]
  <2>1. FreeClusters(st.map) # {}
    BY <1>3, HiddenChains
  <2>2. /\ \A c \in Cluster \ chain : Allocated(m.map, need)[c] = m.map[c]
        /\ \A c \in chain : \/ Allocated(m.map, need)[c] = EndOfChain
                            \/ /\ Allocated(m.map, need)[c] \in chain
                               /\ c < Allocated(m.map, need)[c]
    <3>. DEFINE link == Allocated(m.map, need)
    <3>1. /\ \A c \in Cluster \ chain : link[c] = m.map[c]
          /\ \A c \in chain :
               IF \E e \in chain : c < e
               THEN /\ link[c] = Lowest({e \in chain : c < e})
                    /\ link[c] \in chain /\ c < link[c]
                    /\ \A e \in chain : c < e => link[c] =< e
                    /\ NextCluster(link, c) = link[c]
               ELSE link[c] = EndOfChain /\ NextCluster(link, c) = Stop
      BY <1>2, <1>3, AllocatedLinks
    <3>. HIDE DEF chain, link
    <3>2. ASSUME NEW c \in chain
          PROVE  link[c] = EndOfChain \/ (link[c] \in chain /\ c < link[c])
      BY <3>1
    <3>. QED BY <3>1, <3>2 DEF link
  <2>3. /\ \A c \in Cluster \ chain : Allocated(st.map, need)[c] = st.map[c]
        /\ Allocated(st.map, need) \in
             [Cluster -> {st.map[c] : c \in Cluster} \cup Cluster \cup {EndOfChain}]
    BY <1>2, <1>4, <2>1, AllocatedLinks
  <2>4. ASSUME NEW c \in chain PROVE Allocated(m.map, need)[c] = Allocated(st.map, need)[c]
    <3>1. c \in Cluster
      BY <1>5
    <3>. HIDE DEF need
    <3>2. LowestFree(m.map, need) = LowestFree(st.map, need)
      BY <1>4
    <3>. QED BY <3>1, <3>2 DEF Allocated, chain
  <2>. HIDE DEF chain, need
  <2>. QED BY <1>5, <2>2, <2>3, <2>4
<1>. HIDE DEF need, chain, start, data2, dir2, entry
<1>9. /\ m2.map = Allocated(m.map, need) /\ m2.data = data2 /\ m2.dir = dir2
      /\ m2.stated = m.stated /\ m2.rootPlaced = m.rootPlaced /\ m2.rootBlock = m.rootBlock
      /\ m2.rootOffset = m.rootOffset /\ m2.rootKept = m.rootKept
  <2>. HIDE DEF m2
  <2>. QED BY <1>1, <1>6 DEF FileSystem
<1>10. /\ st2.map = Allocated(st.map, need) /\ st2.data = data2 /\ st2.dir = dir2
       /\ st2.stated = st.stated /\ st2.rootPlaced = st.rootPlaced /\ st2.rootBlock = st.rootBlock
       /\ st2.rootOffset = st.rootOffset /\ st2.rootKept = st.rootKept
  <2>. HIDE DEF st2
  <2>. QED BY <1>1, <1>6 DEF FileSystem
<1>. HIDE DEF m2
<1>11. m2 \in FileSystem
  BY <1>7 DEF Sound
<1>12. st2 \in FileSystem
  <2>1. Allocated(st.map, need) \in [Cluster -> LinkValue]
    <3>1. \A c \in Cluster : st.map[c] \in LinkValue
      BY <1>1, FileSystemFields
    <3>. QED BY <1>8, <3>1, LinkValues
  <2>2. dir2 \in Seq(Entry) /\ data2 \in [Name -> Content \cup {NoContent}]
    BY <1>9, <1>11, FileSystemFields
  <2>. HIDE DEF st2
  <2>. QED BY <1>1, <1>6, <2>1, <2>2 DEF FileSystem
<1>. HIDE DEF st2
<1>13. \A c \in chain : c \in Nat /\ c >= BaseCluster /\ c # 0 /\ ~Phantom(st, c)
  <2>1. ASSUME NEW c \in chain PROVE c \in Cluster /\ Low(m.map[c]) = Free /\ m.map[c] # Reserved
    BY <1>5, LowCluster, FourValues DEF FreeClusters
  <2>2. ASSUME NEW c \in chain PROVE ~(c < BaseCluster) /\ c # 0 /\ ~Phantom(st, c)
    BY <1>1, <2>1 DEF Linked, Hides
  <2>. QED BY <2>1, <2>2, LowCluster, BaseIsCluster
<1>14. Hides(m2, st2)
  <2>1. \A c \in Cluster : m2.map[c] = IF Phantom(st2, c) THEN Reserved ELSE st2.map[c]
    <3>. SUFFICES ASSUME NEW c \in Cluster
                  PROVE  m2.map[c] = IF Phantom(st2, c) THEN Reserved ELSE st2.map[c]
      OBVIOUS
    <3>1. CASE c \in chain
      <4>1. st2.map[c] # BaseCluster
        <5>1. st2.map[c] = EndOfChain \/ (st2.map[c] \in Cluster /\ c < st2.map[c])
          BY <1>8, <1>10, <3>1
        <5>2. EndOfChain # BaseCluster
          BY BaseIsCluster, LowCluster
        <5>. QED BY <1>13, <3>1, <5>1, <5>2, BaseIsCluster, LowCluster
      <4>. QED BY <1>8, <1>9, <1>10, <3>1, <4>1 DEF Phantom
    <3>2. CASE c \notin chain
      <4>1. m2.map[c] = m.map[c] /\ st2.map[c] = st.map[c]
        BY <1>8, <1>9, <1>10, <3>2
      <4>2. m.map[c] = IF Phantom(st, c) THEN Reserved ELSE st.map[c]
        BY DEF Hides
      <4>. QED BY <4>1, <4>2 DEF Phantom
    <3>. QED BY <3>1, <3>2
  <2>. QED BY <1>9, <1>10, <1>11, <1>12, <2>1 DEF Hides
<1>15. Sized(m2)
  <2>1. Cardinality(chain) = need
    BY <1>2, <1>3, LowestFreeCount DEF chain
  <2>. QED BY <1>1, <1>7, <2>1 DEF Sized, Carried, need, chain
<1>16. Linked(m2)
  <2>1. EndOfChain \in Plain /\ EndOfChain \notin Cluster /\ Cluster \subseteq Plain
    BY LowCluster DEF Plain
  <2>2. \A c \in Cluster : /\ m2.map[c] \in Plain
                           /\ m2.map[c] \in Cluster => c < m2.map[c]
    BY <1>1, <1>8, <1>9, <2>1 DEF Linked
  <2>3. \A c \in Cluster : c < BaseCluster \/ c = 0 => c \notin chain
    BY <1>13, BaseIsCluster
  <2>4. \A c \in Cluster : c < BaseCluster \/ c = 0 =>
          m2.map[c] = Reserved /\ m2.stated[c] = NotStated
    BY <1>1, <1>8, <1>9, <2>3 DEF Linked
  <2>. QED BY <2>2, <2>4 DEF Linked
<1>. QED BY <1>7, <1>14, <1>15, <1>16 DEF Kept, m2, st2

\* add_file, whatever it leaves when it fails.
LEMMA HidesAdd ==
  ASSUME NEW st, NEW m, Hides(m, st), Kept(m), NEW n \in Name, NEW d \in Content
  PROVE  /\ AddResult(st, n, d).code = AddResult(m, n, d).code
         /\ Hides(AddResult(m, n, d).fs, AddResult(st, n, d).fs)
         /\ Kept(AddResult(m, n, d).fs)
<1>. DEFINE room  == Dropped(m, n)
            other == Dropped(st, n)
            short == Cardinality(FreeClusters(room.map)) < ClustersNeeded(Length[d])
            full  == ~Exists(m, n) /\ Len(m.dir) >= MaxEntries
            laid  == Laid(room, n, d)
            laidOther == Laid(other, n, d)
<1>1. Exists(st, n) <=> Exists(m, n)
  BY HidesFound
<1>2. Hides(room, other) /\ Kept(room)
  BY <1>1, HidesDeleted DEF Dropped
<1>3. \A i \in Listed(room) : ~Matches(room.dir[i].name, n)
  BY DroppedLeaves DEF Kept
<1>4. FreeClusters(other.map) = FreeClusters(room.map)
  BY <1>2, HiddenChains
<1>5. ~short => Hides(laid, laidOther) /\ Kept(laid)
  <2>. HIDE DEF room, other
  <2>. QED BY <1>2, <1>3, HidesLaid
<1>6. AddResult(m, n, d) =
        IF n \notin LayableName THEN [code |-> "InvalidArgument", fs |-> m]
        ELSE IF full THEN [code |-> "Exhausted", fs |-> m]
        ELSE IF short THEN [code |-> "Exhausted", fs |-> room]
        ELSE [code |-> "ok", fs |-> laid]
  BY Zenon DEF AddResult
<1>7. AddResult(st, n, d) =
        IF n \notin LayableName THEN [code |-> "InvalidArgument", fs |-> st]
        ELSE IF full THEN [code |-> "Exhausted", fs |-> st]
        ELSE IF short THEN [code |-> "Exhausted", fs |-> other]
        ELSE [code |-> "ok", fs |-> laidOther]
  <2>1. full <=> ~Exists(st, n) /\ Len(st.dir) >= MaxEntries
    BY <1>1 DEF Hides
  <2>2. short <=> Cardinality(FreeClusters(other.map)) < ClustersNeeded(Length[d])
    BY <1>4
  <2>. HIDE DEF full, short
  <2>. QED BY <2>1, <2>2 DEF AddResult
<1>. HIDE DEF room, other, short, full, laid, laidOther
<1>. QED BY <1>2, <1>5, <1>6, <1>7

\* reserve_blocks and withhold_clusters.
LEMMA HidesAside ==
  ASSUME NEW st, NEW m, Hides(m, st), Kept(m), NEW clusters,
         NEW value \in {NotStated, Free, Unnamed},
         \A c \in clusters : st.map[c] \in {Free, Reserved},
         clusters \subseteq Cluster,
         \A c \in clusters : c < BaseCluster \/ c = 0 => value = NotStated
  PROVE  /\ Hides(SetAside(m, clusters, value), SetAside(st, clusters, value))
         /\ Kept(SetAside(m, clusters, value))
<1>. DEFINE m2  == SetAside(m, clusters, value)
            st2 == SetAside(st, clusters, value)
            mapOf(s) == [c \in Cluster |-> IF c \in clusters THEN Reserved ELSE s.map[c]]
            statedOf(s) == [c \in Cluster |-> IF c \in clusters THEN value ELSE s.stated[c]]
<1>1. /\ Sound(m) /\ Sized(m) /\ Linked(m) /\ m \in FileSystem /\ st \in FileSystem
      /\ m.stated = st.stated
  BY DEF Kept, Hides
<1>2. ASSUME NEW s \in FileSystem
      PROVE  LET s2 == SetAside(s, clusters, value)
             IN  /\ s2.map = mapOf(s) /\ s2.stated = statedOf(s)
                 /\ s2.dir = s.dir /\ s2.data = s.data
                 /\ s2.rootPlaced = s.rootPlaced /\ s2.rootBlock = s.rootBlock
                 /\ s2.rootOffset = s.rootOffset /\ s2.rootKept = s.rootKept
                 /\ s2 \in FileSystem
  <2>1. SetAside(s, clusters, value) = [s EXCEPT !.map = mapOf(s), !.stated = statedOf(s)]
    BY DEF SetAside
  <2>2. mapOf(s) \in [Cluster -> LinkValue] /\ statedOf(s) \in [Cluster -> {NotStated, Free, Unnamed}]
    BY FileSystemFields, LinkValues
  <2>. HIDE DEF mapOf, statedOf
  <2>. QED BY <2>1, <2>2 DEF FileSystem
<1>3. Sound(m2) /\ Inherits(m, m2)
  <2>1. \A c \in clusters : m.map[c] \in {Free, Reserved}
    BY HiddenMap
  <2>. QED BY <1>1, <2>1, SoundKept
<1>4. /\ m2.map = mapOf(m) /\ m2.stated = statedOf(m) /\ m2.dir = m.dir /\ m2.data = m.data
      /\ m2.rootPlaced = m.rootPlaced /\ m2.rootBlock = m.rootBlock
      /\ m2.rootOffset = m.rootOffset /\ m2.rootKept = m.rootKept /\ m2 \in FileSystem
  BY <1>1, <1>2
<1>5. /\ st2.map = mapOf(st) /\ st2.stated = statedOf(st) /\ st2.dir = st.dir /\ st2.data = st.data
      /\ st2.rootPlaced = st.rootPlaced /\ st2.rootBlock = st.rootBlock
      /\ st2.rootOffset = st.rootOffset /\ st2.rootKept = st.rootKept /\ st2 \in FileSystem
  BY <1>1, <1>2
<1>. HIDE DEF m2, st2
<1>6. \A c \in Cluster : /\ m2.map[c] = IF c \in clusters THEN Reserved ELSE m.map[c]
                         /\ st2.map[c] = IF c \in clusters THEN Reserved ELSE st.map[c]
                         /\ m2.stated[c] = IF c \in clusters THEN value ELSE m.stated[c]
  BY <1>4, <1>5
<1>7. statedOf(m) = statedOf(st)
  BY <1>1
<1>. HIDE DEF mapOf, statedOf
<1>8. Hides(m2, st2)
  <2>1. \A c \in Cluster : m2.map[c] = IF Phantom(st2, c) THEN Reserved ELSE st2.map[c]
    BY <1>6, BaseIsCluster, LowCluster DEF Hides, Phantom
  <2>2. /\ m2.dir = st2.dir /\ m2.data = st2.data /\ m2.stated = st2.stated
        /\ m2.rootPlaced = st2.rootPlaced /\ m2.rootBlock = st2.rootBlock
        /\ m2.rootOffset = st2.rootOffset /\ m2.rootKept = st2.rootKept
    BY <1>4, <1>5, <1>7 DEF Hides
  <2>. QED BY <1>4, <1>5, <2>1, <2>2 DEF Hides
<1>9. Sized(m2)
  BY <1>1, <1>3, SizedInherited
<1>10. Linked(m2)
  <2>1. Reserved \in Plain /\ Reserved \notin Cluster
    BY LowCluster DEF Plain
  <2>. QED BY <1>1, <1>6, <2>1 DEF Linked
<1>. QED BY <1>3, <1>8, <1>9, <1>10 DEF Kept, m2, st2

\* release_root and place_root: a write gives the root's clusters back and
\* takes a block whose clusters are all free.
RootMoved(st, block) == PlaceRoot(ReleaseRoot(st), block)

LEMMA HidesRelease ==
  ASSUME NEW st, NEW m, Hides(m, st), Kept(m)
  PROVE  Hides(ReleaseRoot(m), ReleaseRoot(st)) /\ Kept(ReleaseRoot(m))
<1>. DEFINE m2  == ReleaseRoot(m)
            st2 == ReleaseRoot(st)
            mapOf(s) == Freed(s.map, RootClusters(m))
            statedOf(s) == [c \in Cluster |-> IF c \in RootClusters(m) THEN NotStated ELSE s.stated[c]]
<1>1. /\ Sound(m) /\ Sized(m) /\ Linked(m) /\ m \in FileSystem /\ st \in FileSystem
      /\ m.stated = st.stated
  BY DEF Kept, Hides
<1>2. RootClusters(st) = RootClusters(m)
  BY DEF Hides, RootClusters, RootFirst
<1>3. ASSUME NEW s \in FileSystem, RootClusters(s) = RootClusters(m)
      PROVE  LET s2 == ReleaseRoot(s)
             IN  /\ s2.map = mapOf(s) /\ s2.stated = statedOf(s)
                 /\ s2.dir = s.dir /\ s2.data = s.data
                 /\ s2.rootPlaced = FALSE /\ s2.rootBlock = s.rootBlock
                 /\ s2.rootOffset = s.rootOffset /\ s2.rootKept = s.rootKept
                 /\ s2 \in FileSystem
  <2>1. ReleaseRoot(s) = [s EXCEPT !.map = mapOf(s), !.stated = statedOf(s), !.rootPlaced = FALSE]
    BY <1>3 DEF ReleaseRoot
  <2>2. mapOf(s) \in [Cluster -> LinkValue]
    BY FileSystemFields, FreedType
  <2>3. statedOf(s) \in [Cluster -> {NotStated, Free, Unnamed}]
    BY FileSystemFields
  <2>. HIDE DEF mapOf, statedOf
  <2>. QED BY <2>1, <2>2, <2>3 DEF FileSystem
<1>4. Sound(m2) /\ Inherits(m, m2)
  BY <1>1, SoundReleaseRoot
<1>5. /\ m2.map = mapOf(m) /\ m2.stated = statedOf(m) /\ m2.dir = m.dir /\ m2.data = m.data
      /\ m2.rootPlaced = FALSE /\ m2.rootBlock = m.rootBlock
      /\ m2.rootOffset = m.rootOffset /\ m2.rootKept = m.rootKept /\ m2 \in FileSystem
  BY <1>1, <1>3
<1>6. /\ st2.map = mapOf(st) /\ st2.stated = statedOf(st) /\ st2.dir = st.dir /\ st2.data = st.data
      /\ st2.rootPlaced = FALSE /\ st2.rootBlock = st.rootBlock
      /\ st2.rootOffset = st.rootOffset /\ st2.rootKept = st.rootKept /\ st2 \in FileSystem
  BY <1>1, <1>2, <1>3
<1>. HIDE DEF m2, st2
<1>7. \A c \in Cluster : /\ m2.map[c] = IF c \in RootClusters(m) THEN Free ELSE m.map[c]
                         /\ st2.map[c] = IF c \in RootClusters(m) THEN Free ELSE st.map[c]
                         /\ m2.stated[c] = IF c \in RootClusters(m) THEN NotStated ELSE m.stated[c]
  BY <1>5, <1>6 DEF Freed
<1>8. statedOf(m) = statedOf(st)
  BY <1>1
<1>. HIDE DEF mapOf, statedOf
<1>9. Hides(m2, st2)
  <2>1. \A c \in Cluster : m2.map[c] = IF Phantom(st2, c) THEN Reserved ELSE st2.map[c]
    <3>1. Free # BaseCluster
      BY BaseIsCluster, LowCluster
    <3>. QED BY <1>7, <3>1 DEF Hides, Phantom
  <2>2. /\ m2.dir = st2.dir /\ m2.data = st2.data /\ m2.stated = st2.stated
        /\ m2.rootPlaced = st2.rootPlaced /\ m2.rootBlock = st2.rootBlock
        /\ m2.rootOffset = st2.rootOffset /\ m2.rootKept = st2.rootKept
    BY <1>5, <1>6, <1>8 DEF Hides
  <2>. QED BY <1>5, <1>6, <2>1, <2>2 DEF Hides
<1>10. Sized(m2)
  BY <1>1, <1>4, SizedInherited
<1>11. Linked(m2)
  <2>1. Free \in Plain /\ Free \notin Cluster
    BY LowCluster DEF Plain
  <2>2. ASSUME NEW c \in RootClusters(m) PROVE ~(c < BaseCluster) /\ c # 0
    <3>1. m.rootPlaced /\ c \in Cluster /\ RootFirst(m) =< c /\ RootFirst(m) \in Nat /\ c \in Nat
      BY <1>1, <2>2, RootFirstNat, LowCluster DEF RootClusters
    <3>2. RootFirst(m) \in Cluster /\ m.map[RootFirst(m)] = Table
      <4>1. RootFirst(m) \in {e \in Cluster : m.map[e] = Table}
        BY <1>1, <3>1 DEF Sound, RootHeldIn
      <4>. QED BY <4>1
    <3>3. ~(RootFirst(m) < BaseCluster) /\ RootFirst(m) # 0
      BY <1>1, <3>2, FourValues DEF Linked
    <3>. QED BY <3>1, <3>3, BaseIsCluster
  <2>. QED BY <1>1, <1>7, <2>1, <2>2 DEF Linked
<1>. QED BY <1>4, <1>9, <1>10, <1>11 DEF Kept, m2, st2

LEMMA HidesPlace ==
  ASSUME NEW st, NEW m, Hides(m, st), Kept(m), ~m.rootPlaced, NEW block \in Nat,
         block < NumBlocks, \A c \in BlockClusters(block) : st.map[c] = Free,
         m.stated[block * Ratio] = NotStated
  PROVE  Hides(PlaceRoot(m, block), PlaceRoot(st, block)) /\ Kept(PlaceRoot(m, block))
<1>. DEFINE m2  == PlaceRoot(m, block)
            st2 == PlaceRoot(st, block)
            first == block * Ratio
            rest  == BlockClusters(block) \ {first}
            mapOf(s) == [c \in Cluster |-> IF c = first THEN Table
                                           ELSE IF c \in rest THEN Reserved ELSE s.map[c]]
            statedOf(s) == [c \in Cluster |-> IF c \in rest THEN Free ELSE s.stated[c]]
<1>1. /\ Sound(m) /\ Sized(m) /\ Linked(m) /\ m \in FileSystem /\ st \in FileSystem
      /\ m.stated = st.stated
  BY DEF Kept, Hides
<1>2. first \in Cluster /\ BlockClusters(block) \subseteq Cluster /\ first \in BlockClusters(block)
  BY BlockInMap
<1>3. \A c \in BlockClusters(block) : m.map[c] = Free /\ ~HoldsFile(m, c)
  <2>1. \A c \in BlockClusters(block) : m.map[c] = Free
    BY <1>2, HiddenMap
  <2>2. \A c \in Cluster : HoldsFile(m, c) => m.map[c] # Free
    BY HoldsFileValue
  <2>. QED BY <1>2, <2>1, <2>2
<1>4. Sound(m2) /\ Inherits(m, m2)
  BY <1>1, <1>3, SoundPlaceRoot
<1>5. Ratio \in Nat /\ Ratio > 0 /\ 0 \in 0 .. Ratio - 1 /\ Ratio \in 1 .. Ratio
  BY ShapeAssumption
<1>. HIDE DEF first, rest
<1>6. ASSUME NEW s \in FileSystem
      PROVE  LET s2 == PlaceRoot(s, block)
             IN  /\ s2.map = mapOf(s) /\ s2.stated = statedOf(s)
                 /\ s2.dir = s.dir /\ s2.data = s.data
                 /\ s2.rootPlaced = TRUE /\ s2.rootBlock = block
                 /\ s2.rootOffset = 0 /\ s2.rootKept = Ratio
                 /\ s2 \in FileSystem
  <2>1. PlaceRoot(s, block) =
          [s EXCEPT !.map = mapOf(s), !.stated = statedOf(s), !.rootPlaced = TRUE,
                    !.rootBlock = block, !.rootOffset = 0, !.rootKept = Ratio]
    BY DEF PlaceRoot, first, rest
  <2>2. mapOf(s) \in [Cluster -> LinkValue]
    BY FileSystemFields, LinkValues
  <2>3. statedOf(s) \in [Cluster -> {NotStated, Free, Unnamed}]
    BY FileSystemFields
  <2>. HIDE DEF mapOf, statedOf
  <2>. QED BY <1>5, <2>1, <2>2, <2>3 DEF FileSystem
<1>7. /\ m2.map = mapOf(m) /\ m2.stated = statedOf(m) /\ m2.dir = m.dir /\ m2.data = m.data
      /\ m2.rootPlaced = TRUE /\ m2.rootBlock = block
      /\ m2.rootOffset = 0 /\ m2.rootKept = Ratio /\ m2 \in FileSystem
  BY <1>1, <1>6
<1>8. /\ st2.map = mapOf(st) /\ st2.stated = statedOf(st) /\ st2.dir = st.dir /\ st2.data = st.data
      /\ st2.rootPlaced = TRUE /\ st2.rootBlock = block
      /\ st2.rootOffset = 0 /\ st2.rootKept = Ratio /\ st2 \in FileSystem
  BY <1>1, <1>6
<1>. HIDE DEF m2, st2
<1>9. \A c \in Cluster :
        /\ m2.map[c] = IF c = first THEN Table ELSE IF c \in rest THEN Reserved ELSE m.map[c]
        /\ st2.map[c] = IF c = first THEN Table ELSE IF c \in rest THEN Reserved ELSE st.map[c]
        /\ m2.stated[c] = IF c \in rest THEN Free ELSE m.stated[c]
  BY <1>7, <1>8
<1>10. statedOf(m) = statedOf(st)
  BY <1>1
<1>. HIDE DEF mapOf, statedOf
<1>11. Hides(m2, st2)
  <2>1. \A c \in Cluster : m2.map[c] = IF Phantom(st2, c) THEN Reserved ELSE st2.map[c]
    <3>1. Table # BaseCluster /\ Reserved # BaseCluster
      BY BaseIsCluster, LowCluster
    <3>. QED BY <1>9, <3>1 DEF Hides, Phantom
  <2>2. /\ m2.dir = st2.dir /\ m2.data = st2.data /\ m2.stated = st2.stated
        /\ m2.rootPlaced = st2.rootPlaced /\ m2.rootBlock = st2.rootBlock
        /\ m2.rootOffset = st2.rootOffset /\ m2.rootKept = st2.rootKept
    BY <1>7, <1>8, <1>10 DEF Hides
  <2>. QED BY <1>7, <1>8, <2>1, <2>2 DEF Hides
<1>12. Sized(m2)
  BY <1>1, <1>4, SizedInherited
<1>13. Linked(m2)
  <2>1. Table \in Plain /\ Reserved \in Plain /\ Table \notin Cluster /\ Reserved \notin Cluster
    BY LowCluster DEF Plain
  <2>2. \A c \in Cluster : c < BaseCluster \/ c = 0 => c # first /\ c \notin rest
    BY <1>1, <1>2, <1>3, FourValues DEF Linked, rest
  <2>. QED BY <1>1, <1>9, <2>1, <2>2 DEF Linked
<1>. QED BY <1>4, <1>11, <1>12, <1>13 DEF Kept, m2, st2

\* A write's root: the clusters of a free block are none of the old root's.
LEMMA GoodRootMoved ==
  ASSUME NEW st, Good(st), NEW block, IsBlockFree(st, block)
  PROVE  LET moved == RootMoved(st, block)
         IN  /\ Good(moved) /\ moved.dir = st.dir /\ moved.data = st.data
             /\ moved.rootPlaced
             /\ RootInRange(block)
<1>. DEFINE st1 == ReleaseRoot(st)
            moved == RootMoved(st, block)
<1>1. PICK m : Hides(m, st) /\ Kept(m)
  BY DEF Good
<1>. DEFINE m1 == ReleaseRoot(m)
<1>2. Sound(m) /\ Linked(m) /\ st \in FileSystem
  BY <1>1 DEF Kept, Hides
<1>3. block \in Nat /\ block < NumBlocks /\ \A c \in BlockClusters(block) : st.map[c] = Free
  BY ShapeAssumption DEF IsBlockFree, Block
<1>4. block * Ratio \in Cluster /\ block * Ratio \in BlockClusters(block)
      /\ BlockClusters(block) \subseteq Cluster
  BY <1>3, BlockInMap
<1>5. \A c \in BlockClusters(block) : m.map[c] = Free
  BY <1>1, <1>3, <1>4, HiddenMap
<1>6. Hides(m1, st1) /\ Kept(m1)
  BY <1>1, HidesRelease
<1>7. /\ ~m1.rootPlaced
      /\ \A c \in BlockClusters(block) : m1.map[c] = Free /\ m1.stated[c] = NotStated
  BY <1>2, <1>4, <1>5, SoundReleaseRoot
<1>8. \A c \in BlockClusters(block) : st1.map[c] = Free
  <2>1. st1.map = Freed(st.map, RootClusters(st))
    BY <1>2 DEF ReleaseRoot, FileSystem
  <2>. QED BY <1>3, <1>4, <2>1 DEF Freed
<1>9. st1.dir = st.dir /\ st1.data = st.data
  BY <1>2 DEF ReleaseRoot, FileSystem
<1>. HIDE DEF st1, m1
<1>10. Hides(PlaceRoot(m1, block), PlaceRoot(st1, block)) /\ Kept(PlaceRoot(m1, block))
  BY <1>3, <1>4, <1>6, <1>7, <1>8, HidesPlace
<1>11. /\ PlaceRoot(st1, block).dir = st1.dir /\ PlaceRoot(st1, block).data = st1.data
       /\ PlaceRoot(st1, block).rootPlaced
  <2>1. st1 \in FileSystem
    BY <1>6 DEF Hides
  <2>. QED BY <2>1 DEF PlaceRoot, FileSystem
<1>12. RootInRange(block)
  <2>1. ~(block * Ratio < BaseCluster)
    BY <1>2, <1>4, <1>5, FourValues DEF Linked
  <2>. DEFINE first == block * Ratio
  <2>2. first \in Nat
    BY <1>4, LowCluster
  <2>. HIDE DEF first
  <2>3. first >= BaseCluster
    BY <2>1, <2>2, BaseIsCluster DEF first
  <2>. QED BY <1>3, <2>3 DEF RootInRange, first
<1>13. moved = PlaceRoot(st1, block)
  BY DEF RootMoved, st1
<1>. QED BY <1>9, <1>10, <1>11, <1>12, <1>13 DEF Good

-----------------------------------------------------------------------------
(* What the other calls leave.                                             *)

\* The object just formatted holds no file and no link.
LEMMA GoodFormatted ==
  ASSUME NEW boundary \in BoundaryChoice, NEW block \in Nat
  PROVE  LET blank == [FormattedMap(boundary) EXCEPT !.rootBlock = block]
         IN  Good(blank) /\ blank.dir = << >>
<1>. DEFINE blank == [FormattedMap(boundary) EXCEPT !.rootBlock = block]
<1>1. boundary \in Nat /\ (boundary > 0 \/ BaseCluster > 0)
  BY InputAssumption, ImageAssumption
<1>2. Sound(blank) /\ blank \in FileSystem
  <2>1. Sound(blank)
    BY <1>1, SoundFormattedMap
  <2>. HIDE DEF blank
  <2>. QED BY <2>1 DEF Sound
<1>3. /\ blank.map = [c \in Cluster |-> IF c < ReservedBelow(boundary) THEN Reserved ELSE Free]
      /\ blank.stated = [c \in Cluster |-> NotStated]
      /\ blank.dir = << >>
  BY DEF FormattedMap
<1>. HIDE DEF blank
<1>4. /\ ReservedBelow(boundary) \in Nat /\ ReservedBelow(boundary) > 0
      /\ BaseCluster =< ReservedBelow(boundary)
  <2>. DEFINE blocks == IF boundary < NumBlocks THEN boundary ELSE NumBlocks
              bound  == blocks * Ratio
  <2>1. blocks \in Nat /\ (boundary > 0 => blocks > 0)
    BY <1>1, ShapeAssumption
  <2>. HIDE DEF blocks
  <2>2. bound \in Nat /\ (blocks > 0 => bound > 0)
    BY <2>1, ShapeAssumption
  <2>. HIDE DEF bound
  <2>3. ReservedBelow(boundary) = IF bound < BaseCluster THEN BaseCluster ELSE bound
    BY DEF ReservedBelow, bound, blocks
  <2>4. ReservedBelow(boundary) \in Nat /\ BaseCluster =< ReservedBelow(boundary)
    BY <2>2, <2>3, BaseIsCluster
  <2>5. bound > 0 \/ BaseCluster > 0
    BY <1>1, <2>1, <2>2
  <2>. QED BY <2>2, <2>3, <2>4, <2>5, BaseIsCluster
<1>5. Hides(blank, blank)
  <2>1. \A c \in Cluster : blank.map[c] # BaseCluster
    BY <1>3, BaseIsCluster, LowCluster
  <2>. QED BY <1>2, <2>1 DEF Hides, Phantom
<1>6. Sized(blank)
  <2>1. Listed(blank) = {}
    BY <1>3 DEF Listed
  <2>. QED BY <2>1 DEF Sized
<1>7. Linked(blank)
  <2>1. Free \in Plain /\ Reserved \in Plain /\ Free \notin Cluster /\ Reserved \notin Cluster
    BY LowCluster DEF Plain
  <2>. DEFINE bound == ReservedBelow(boundary)
  <2>2. ASSUME NEW c \in Cluster, c < BaseCluster \/ c = 0 PROVE c < bound
    <3>1. c \in Nat /\ BaseCluster \in Nat
      BY LowCluster, BaseIsCluster
    <3>2. bound \in Nat /\ bound > 0 /\ BaseCluster =< bound
      BY <1>4
    <3>. HIDE DEF bound
    <3>. QED BY <2>2, <3>1, <3>2
  <2>3. \A c \in Cluster : c < BaseCluster \/ c = 0 =>
          blank.map[c] = Reserved /\ blank.stated[c] = NotStated
    BY <1>3, <2>2
  <2>4. \A c \in Cluster : blank.map[c] \in {Free, Reserved}
    BY <1>3
  <2>. QED BY <2>1, <2>3, <2>4 DEF Linked
<1>8. Good(blank)
  BY <1>2, <1>5, <1>6, <1>7 DEF Good, Kept
<1>. QED BY <1>3, <1>8 DEF blank

\* What an edit does: it leaves the object, formats it, sets clusters aside, or
\* adds or deletes one file.
Adds(n, d) == fs' = AddResult(fs, n, d).fs /\ last'.code = AddResult(fs, n, d).code

Deletes(n) == Exists(fs, n) /\ fs' = Deleted(fs, n) /\ last'.code = "ok"

Aside(clusters, value) ==
  /\ clusters \subseteq Cluster
  /\ \A c \in clusters : fs.map[c] = Free \/ fs.map[c] = Reserved
  /\ value # NotStated => \A c \in clusters : Withholdable(fs, c)
  /\ fs' = SetAside(fs, clusters, value)

LEMMA EditSplit ==
  ASSUME EditInMemory
  PROVE  /\ last'.op # "write" /\ last'.at = 0
         /\ \/ fs' = fs
            \/ \E boundary \in BoundaryChoice :
                 /\ fs' = [FormattedMap(boundary) EXCEPT !.rootBlock = fs.rootBlock]
                 /\ last'.code = "ok"
            \/ \E clusters : \E value \in {NotStated, Free, Unnamed} : Aside(clusters, value)
            \/ \E n \in Name, d \in Content : Adds(n, d)
            \/ \E n \in Name : Deletes(n)
<1>. DEFINE Told == last'.op # "write" /\ last'.at = 0
            Formats == \E boundary \in BoundaryChoice :
                         /\ fs' = [FormattedMap(boundary) EXCEPT !.rootBlock = fs.rootBlock]
                         /\ last'.code = "ok"
            Asides  == \E clusters : \E value \in {NotStated, Free, Unnamed} : Aside(clusters, value)
<1>1. ASSUME NEW boundary \in BoundaryChoice, Format(kDeferRoot, boundary)
      PROVE  Told /\ (fs' = fs \/ Formats)
  <2>1. Told /\ (fs' = fs \/ (fs' = Formatted(fs, kDeferRoot, boundary) /\ last'.code = "ok"))
    BY <1>1 DEF Format, Refuse, Reply
  <2>2. Formatted(fs, kDeferRoot, boundary) = [FormattedMap(boundary) EXCEPT !.rootBlock = fs.rootBlock]
    BY DEF Formatted
  <2>. QED BY <2>1, <2>2
<1>2. ASSUME NEW r \in ReserveChoice, ReserveBlocks(r[1], r[2])
      PROVE  Told /\ (fs' = fs \/ Asides)
  <2>. DEFINE clusters == UNION {BlockClusters(b) : b \in Run(r[1], r[2])}
  <2>1. Told
    BY <1>2 DEF ReserveBlocks, Refuse, Reply
  <2>2. \/ fs' = fs
        \/ /\ r[1] + r[2] =< NumBlocks
           /\ \A c \in clusters : fs.map[c] \in {Free, Reserved}
           /\ fs' = SetAside(fs, clusters, NotStated)
    BY <1>2, Zenon DEF ReserveBlocks, Refuse
  <2>3. ASSUME r[1] + r[2] =< NumBlocks PROVE clusters \subseteq Cluster
    <3>1. r[1] \in Nat /\ r[2] \in Nat
      BY InputAssumption
    <3>2. ASSUME NEW b \in Run(r[1], r[2]) PROVE BlockClusters(b) \subseteq Cluster
      <4>1. b \in Nat /\ b < NumBlocks
        BY <2>3, <3>1, ShapeAssumption DEF Run
      <4>. QED BY <4>1, BlockInMap
    <3>. QED BY <3>2
  <2>. HIDE DEF clusters
  <2>4. fs' = fs \/ Aside(clusters, NotStated)
    BY <2>2, <2>3 DEF Aside
  <2>. QED BY <2>1, <2>4
<1>3. ASSUME NEW w \in WithholdChoice, WithholdClusters(w[1], w[2], w[3])
      PROVE  Told /\ (fs' = fs \/ Asides)
  <2>. DEFINE clusters == Run(w[1], w[2])
  <2>1. Told
    BY <1>3 DEF WithholdClusters, Withhold, Refuse, Reply
  <2>2. \/ fs' = fs
        \/ /\ w[1] + w[2] =< MapSize
           /\ \A c \in clusters : Withholdable(fs, c)
           /\ fs' = SetAside(fs, clusters, w[3])
    BY <1>3, Zenon DEF WithholdClusters, Withhold, Refuse
  <2>3. w[1] \in Nat /\ w[2] \in Nat /\ w[3] \in {Free, Unnamed}
    BY InputAssumption
  <2>4. w[1] + w[2] =< MapSize => clusters \subseteq Cluster
    BY <2>3, MapSizeNat DEF Run, Cluster
  <2>5. \A c : Withholdable(fs, c) => fs.map[c] = Free \/ fs.map[c] = Reserved
    BY DEF Withholdable
  <2>. HIDE DEF clusters
  <2>6. fs' = fs \/ Aside(clusters, w[3])
    BY <2>2, <2>4, <2>5 DEF Aside
  <2>. QED BY <2>1, <2>3, <2>6
<1>4. ASSUME NEW n \in Name, NEW d \in Fresh, AddFile(n, d)
      PROVE  Told /\ \E x \in Name, e \in Content : Adds(x, e)
  <2>1. d \in Content
    BY DiskAssumption
  <2>2. Told /\ fs' = AddResult(fs, n, d).fs /\ last'.code = AddResult(fs, n, d).code
    BY <1>4 DEF AddFile, Reply
  <2>. QED BY <2>1, <2>2 DEF Adds
<1>5. ASSUME NEW n \in Name, DeleteFile(n)
      PROVE  Told /\ (fs' = fs \/ \E x \in Name : Deletes(x))
  BY <1>5 DEF DeleteFile, Refuse, Reply, Deletes
<1>. QED BY <1>1, <1>2, <1>3, <1>4, <1>5 DEF EditInMemory

\* What a caller sees does not depend on the hidden links.
LEMMA HiddenFiles ==
  ASSUME NEW st, NEW m, Hides(m, st)
  PROVE  FilesOf(st) = FilesOf(m) /\ (Kept(m) => Good(st))
<1>1. FilesOf(st) = FilesOf(m)
  BY SameFiles DEF Hides
<1>. QED BY <1>1 DEF Good

\* An edit leaves an object as good as it was, and is a call on the store.
LEMMA GoodEdit ==
  ASSUME Good(fs), EditInMemory
  PROVE  Good(fs') /\ Saved!StoreNext /\ last'.op # "write" /\ last'.at = 0
<1>1. PICK m : Hides(m, fs) /\ Kept(m)
  BY DEF Good
<1>2. Sound(m) /\ Linked(m) /\ fs \in FileSystem /\ m \in FileSystem
  BY <1>1 DEF Kept, Hides
<1>3. FilesOf(fs) = FilesOf(m)
  BY <1>1, HiddenFiles
<1>4. last'.op # "write" /\ last'.at = 0
  BY EditSplit
<1>5. ASSUME FilesOf(fs') = FilesOf(fs) PROVE Saved!StoreNext
  BY <1>4, <1>5 DEF Saved!StoreNext, Saved!Keep
<1>6. CASE fs' = fs
  <2>1. Saved!StoreNext
    BY <1>5, <1>6
  <2>. QED BY <1>4, <1>6, <2>1 DEF Good
<1>7. ASSUME NEW boundary \in BoundaryChoice,
             fs' = [FormattedMap(boundary) EXCEPT !.rootBlock = fs.rootBlock],
             last'.code = "ok"
      PROVE  Good(fs') /\ Saved!StoreNext
  <2>1. fs.rootBlock \in Nat
    BY <1>2, FileSystemFields
  <2>2. Good(fs') /\ fs'.dir = << >>
    BY <1>7, <2>1, GoodFormatted
  <2>3. FilesOf(fs') = << >>
    BY <2>2, NoFiles
  <2>. QED BY <1>4, <1>7, <2>2, <2>3 DEF Saved!StoreNext, Saved!Wipe
<1>8. ASSUME NEW clusters, NEW value \in {NotStated, Free, Unnamed}, Aside(clusters, value)
      PROVE  Good(fs') /\ Saved!StoreNext
  <2>1. clusters \subseteq Cluster /\ \A c \in clusters : fs.map[c] \in {Free, Reserved}
    BY <1>8 DEF Aside
  <2>2. ASSUME NEW c \in clusters, c < BaseCluster \/ c = 0 PROVE value = NotStated
    <3>1. c \in Cluster /\ m.map[c] = Reserved /\ m.stated[c] = NotStated
      BY <1>2, <2>1, <2>2 DEF Linked
    <3>2. fs.map[c] # Free /\ fs.stated[c] = NotStated
      BY <1>1, <3>1, HiddenMap, FourValues DEF Hides
    <3>3. ~Withholdable(fs, c)
      BY <3>2 DEF Withholdable
    <3>. QED BY <1>8, <3>3 DEF Aside
  <2>3. /\ Hides(SetAside(m, clusters, value), SetAside(fs, clusters, value))
        /\ Kept(SetAside(m, clusters, value))
    BY <1>1, <2>1, <2>2, HidesAside
  <2>4. fs' = SetAside(fs, clusters, value)
    BY <1>8 DEF Aside
  <2>5. fs'.dir = fs.dir /\ fs'.data = fs.data
    BY <1>2, <2>4 DEF SetAside, FileSystem
  <2>. QED BY <1>5, <2>3, <2>4, <2>5, SameFiles DEF Good
<1>9. ASSUME NEW n \in Name, NEW d \in Content, Adds(n, d)
      PROVE  Good(fs') /\ Saved!StoreNext
  <2>. DEFINE result == AddResult(m, n, d)
  <2>1. /\ last'.code = result.code /\ Hides(result.fs, fs') /\ Kept(result.fs)
    BY <1>1, <1>9, HidesAdd DEF Adds
  <2>2. IF result.code = "ok"
        THEN FilesOf(result.fs) = Append(Store!Without(FilesOf(m), n), [name |-> n, content |-> d])
        ELSE FilesOf(result.fs) \in {FilesOf(m), Store!Without(FilesOf(m), n)}
    BY <1>2, AddedList
  <2>3. FilesOf(fs') = FilesOf(result.fs) /\ Good(fs')
    <3>. HIDE DEF result
    <3>. QED BY <2>1, HiddenFiles
  <2>4. Saved!Without(FilesOf(fs), n) = Store!Without(FilesOf(m), n)
    BY <1>3 DEF Saved!Without, Store!Without
  <2>. HIDE DEF result
  <2>5. \/ /\ (last'.code = "ok") = TRUE
           /\ FilesOf(fs') = Append(Saved!Without(FilesOf(fs), n), [name |-> n, content |-> d])
        \/ /\ (last'.code = "ok") = FALSE
           /\ FilesOf(fs') \in {FilesOf(fs), Saved!Without(FilesOf(fs), n)}
    BY <1>3, <2>1, <2>2, <2>3, <2>4
  <2>. QED BY <1>4, <2>3, <2>5 DEF Saved!StoreNext, Saved!Put
<1>10. ASSUME NEW n \in Name, Deletes(n)
       PROVE  Good(fs') /\ Saved!StoreNext
  <2>1. Exists(m, n) /\ fs' = Deleted(fs, n) /\ last'.code = "ok"
    BY <1>1, <1>10, HidesFound DEF Deletes
  <2>2. Hides(Deleted(m, n), fs') /\ Kept(Deleted(m, n))
    BY <1>1, <1>10, <2>1, HidesDeleted DEF Deletes
  <2>3. FilesOf(fs') = FilesOf(Deleted(m, n)) /\ Good(fs')
    BY <2>2, HiddenFiles
  <2>4. FilesOf(Deleted(m, n)) = Store!Without(FilesOf(m), n)
    BY <1>2, <2>1, DroppedList DEF Dropped
  <2>5. Saved!Without(FilesOf(fs), n) = Store!Without(FilesOf(m), n)
    BY <1>3 DEF Saved!Without, Store!Without
  <2>6. Len(FilesOf(fs')) # Len(FilesOf(fs))
    <3>. DEFINE i == FindEntry(m, n)
    <3>1. i \in Listed(m)
      BY <1>2, <2>1, FindEntryFacts
    <3>2. Deleted(m, n).dir = WithoutIndex(m.dir, i)
      BY <1>2 DEF Deleted, FileSystem
    <3>3. m.dir \in Seq(Entry) /\ Len(m.dir) \in Nat
      BY <1>2, FileSystemFields
    <3>. HIDE DEF i
    <3>4. Len(Deleted(m, n).dir) = Len(m.dir) - 1
      BY <3>1, <3>2, <3>3, WithoutIndexFacts DEF Listed
    <3>5. Sound(Deleted(m, n))
      BY <2>2 DEF Kept
    <3>6. /\ Len(FilesOf(Deleted(m, n))) = Len(Deleted(m, n).dir)
          /\ Len(FilesOf(m)) = Len(m.dir)
      BY <1>2, <3>5, FilesOfFacts
    <3>. QED BY <1>3, <2>3, <3>3, <3>4, <3>6
  <2>7. FilesOf(fs') = Saved!Without(FilesOf(fs), n) /\ FilesOf(fs') # FilesOf(fs)
    BY <2>3, <2>4, <2>5, <2>6
  <2>. QED BY <1>4, <2>1, <2>3, <2>7 DEF Saved!StoreNext, Saved!Remove
<1>. QED BY <1>4, <1>6, <1>7, <1>8, <1>9, <1>10, EditSplit

-----------------------------------------------------------------------------
(* The clusters of a file in the order its parts are written.              *)

\* A walk that has left the map has visited the whole chain.
LEMMA WalkEnded ==
  ASSUME NEW map, NEW s, NEW end \in 0 .. MapSize, Walk(map, s)[end] \notin Cluster
  PROVE  Cardinality(Chain(map, s)) =< end
<1>. DEFINE w == Walk(map, s)
            T == {n \in Nat : end + n =< MapSize => w[end + n] \notin Cluster}
            seen == {w[j] : j \in 0 .. end - 1}
            f == [j \in 0 .. end - 1 |-> w[j]]
<1>1. 0 \in T
  BY MapSizeNat
<1>2. \A n \in Nat : n \in T => n + 1 \in T
  <2>. SUFFICES ASSUME NEW n \in Nat, n \in T, end + (n + 1) =< MapSize
                PROVE  w[end + (n + 1)] \notin Cluster
    OBVIOUS
  <2>1. w[end + n] \notin Cluster
    BY MapSizeNat
  <2>2. w[(end + n) + 1] = NextCluster(map, w[end + n])
    BY WalkSteps, MapSizeNat
  <2>3. NextCluster(map, w[end + n]) = Stop
    BY <2>1 DEF NextCluster
  <2>4. (end + n) + 1 = end + (n + 1)
    BY MapSizeNat
  <2>. QED BY <2>2, <2>3, <2>4, LowCluster
<1>3. ASSUME NEW j \in 0 .. MapSize, w[j] \in Cluster PROVE j \in 0 .. end - 1
  <2>1. Nat \subseteq T
    <3>. HIDE DEF T
    <3>. QED BY <1>1, <1>2, NatInductionOnSets
  <2>2. CASE j >= end
    <3>1. j - end \in Nat /\ end + (j - end) = j /\ j =< MapSize
      BY <2>2, MapSizeNat
    <3>2. j - end \in T
      BY <2>1, <3>1
    <3>. QED BY <1>3, <3>1, <3>2
  <2>. QED BY <2>2, MapSizeNat
<1>4. Chain(map, s) \subseteq seen
  BY <1>3 DEF Chain
<1>5. IsFiniteSet(0 .. end - 1) /\ Cardinality(0 .. end - 1) = end
  BY FS_Interval, MapSizeNat
<1>6. f \in Surjection(0 .. end - 1, seen)
  BY DEF Surjection
<1>7. IsFiniteSet(seen) /\ Cardinality(seen) =< end
  <2>. HIDE DEF f, seen
  <2>. QED BY <1>5, <1>6, FS_Surjection
<1>8. Cardinality(Chain(map, s)) =< Cardinality(seen) /\ Cardinality(Chain(map, s)) \in Nat
  <2>. HIDE DEF seen
  <2>. QED BY <1>4, <1>7, FS_Subset, FS_CardinalityType
<1>9. Cardinality(seen) \in Nat
  BY <1>7, FS_CardinalityType
<1>. HIDE DEF seen
<1>. QED BY <1>7, <1>8, <1>9, MapSizeNat

\* A chain is finite and no longer than the map.
LEMMA ChainSize ==
  ASSUME NEW map, NEW s
  PROVE  /\ IsFiniteSet(Chain(map, s)) /\ Cardinality(Chain(map, s)) \in Nat
         /\ Cardinality(Chain(map, s)) =< MapSize
<1>1. IsFiniteSet(Cluster) /\ Cardinality(Cluster) = MapSize
  BY FS_Interval, MapSizeNat DEF Cluster
<1>. QED BY <1>1, ChainSubset, FS_Subset, FS_CardinalityType

\* The first visits of the walk of a listed file are its clusters, ascending.
LEMMA PartsAscend ==
  ASSUME NEW m, Kept(m), NEW i \in Listed(m)
  PROVE  LET w == Walk(m.map, m.dir[i].start)
             n == Cardinality(ChainOf(m, i))
         IN  /\ n \in Nat /\ n =< MapSize
             /\ \A k \in 0 .. n - 1 : w[k] \in ChainOf(m, i)
             /\ \A j, k \in 0 .. n - 1 : j < k => w[j] < w[k]
<1>. DEFINE w == Walk(m.map, m.dir[i].start)
            n == Cardinality(ChainOf(m, i))
            T == {k \in Nat : k < n => \A j \in 0 .. k - 1 : w[j] < w[k]}
<1>1. n \in Nat /\ n =< MapSize
  BY ChainSize DEF ChainOf
<1>2. ASSUME NEW k \in 0 .. n - 1 PROVE w[k] \in Cluster /\ w[k] \in ChainOf(m, i)
  <2>1. k \in 0 .. MapSize /\ ~(n =< k)
    BY <1>1, MapSizeNat
  <2>2. w[k] \in Cluster
    <3>. HIDE DEF w
    <3>. QED BY <2>1, WalkEnded DEF w, ChainOf
  <2>. QED BY <2>1, <2>2 DEF ChainOf, Chain
<1>3. ASSUME NEW k \in Nat, k + 1 < n PROVE w[k] < w[k + 1]
  <2>1. w[k] \in Cluster /\ w[k + 1] \in Cluster
    <3>1. k \in 0 .. n - 1 /\ k + 1 \in 0 .. n - 1
      BY <1>1, <1>3
    <3>. QED BY <1>2, <3>1
  <2>2. w[k + 1] = NextCluster(m.map, w[k])
    BY <1>1, <1>3, WalkSteps, MapSizeNat
  <2>3. w[k + 1] = Low(m.map[w[k]])
    BY <2>1, <2>2, LowCluster DEF NextCluster
  <2>4. m.map[w[k]] \in Plain /\ (m.map[w[k]] \in Cluster => w[k] < m.map[w[k]])
    BY <2>1 DEF Kept, Linked
  <2>5. m.map[w[k]] = w[k + 1]
    BY <2>1, <2>3, <2>4, LowCluster DEF Plain
  <2>. QED BY <2>1, <2>4, <2>5
<1>4. 0 \in T
  OBVIOUS
<1>5. \A k \in Nat : k \in T => k + 1 \in T
  <2>. SUFFICES ASSUME NEW k \in Nat, k \in T, k + 1 < n, NEW j \in 0 .. (k + 1) - 1
                PROVE  w[j] < w[k + 1]
    OBVIOUS
  <2>1. k < n /\ w[k] < w[k + 1]
    BY <1>1, <1>3
  <2>2. CASE j = k
    BY <2>1, <2>2
  <2>3. CASE j < k
    <3>1. w[j] < w[k]
      BY <1>1, <2>1, <2>3
    <3>2. w[j] \in Nat /\ w[k] \in Nat /\ w[k + 1] \in Nat
      <4>1. j \in 0 .. n - 1 /\ k \in 0 .. n - 1 /\ k + 1 \in 0 .. n - 1
        BY <1>1, <2>1, <2>3
      <4>. QED BY <1>2, <4>1, LowCluster
    <3>. HIDE DEF w
    <3>. QED BY <2>1, <3>1, <3>2
  <2>. QED BY <2>2, <2>3
<1>6. Nat \subseteq T
  <2>. HIDE DEF T
  <2>. QED BY <1>4, <1>5, NatInductionOnSets
<1>7. \A j, k \in 0 .. n - 1 : j < k => w[j] < w[k]
  <2>. SUFFICES ASSUME NEW j \in 0 .. n - 1, NEW k \in 0 .. n - 1, j < k PROVE w[j] < w[k]
    OBVIOUS
  <2>1. k \in T /\ k < n /\ j \in 0 .. k - 1
    BY <1>1, <1>6
  <2>. QED BY <2>1
<1>. QED BY <1>1, <1>2, <1>7

\* What a caller's object and the one with links hidden write is the same.
LEMMA HiddenParts ==
  ASSUME NEW st, NEW m, Hides(m, st), Kept(m), NEW i \in Listed(m),
         NEW k \in 1 .. MapSize
  PROVE  ChainPart(st, i, k) = ChainPart(m, i, k)
<1>1. \A c \in Chain(m.map, m.dir[i].start) : m.map[c] = st.map[c]
  BY HiddenChains DEF ChainOf
<1>2. \A n \in 0 .. MapSize : Walk(st.map, m.dir[i].start)[n] = Walk(m.map, m.dir[i].start)[n]
  BY <1>1, WalkAgree
<1>3. k - 1 \in 0 .. MapSize /\ st.dir = m.dir
  BY MapSizeNat DEF Hides
<1>. QED BY <1>2, <1>3 DEF ChainPart

\* A file's bytes fill the clusters its chain has; an empty file fills none.
LEMMA PartsFit ==
  ASSUME NEW length \in Nat
  PROVE  /\ Parts(length) \in Nat /\ Parts(length) =< ClustersNeeded(length)
         /\ length # 0 => Parts(length) > 0
<1>1. CASE length = 0
  <2>1. (ClusterBytes - 1) \div ClusterBytes = 0
    <3>1. ClusterBytes \in Nat /\ ClusterBytes > 0
      BY ShapeAssumption
    <3>. QED BY <3>1
  <2>. QED BY <1>1, <2>1, ShapeAssumption DEF Parts, ClustersNeeded
<1>2. CASE length # 0
  <2>1. ClustersNeeded(length) \in Nat /\ ClustersNeeded(length) > 0
    BY NeedsOne
  <2>2. Parts(length) = ClustersNeeded(length)
    BY <1>2 DEF Parts, ClustersNeeded
  <2>. QED BY <2>1, <2>2
<1>. QED BY <1>1, <1>2

\* Every part of a file has a cluster of the file's own.
LEMMA GoodParts ==
  ASSUME NEW st, NEW m, Hides(m, st), Kept(m), NEW i \in Listed(m)
  PROVE  LET n == Parts(m.dir[i].length)
         IN  /\ m.dir[i].length \in Nat /\ n \in Nat /\ n =< MapSize
             /\ n =< Cardinality(ChainOf(m, i))
             /\ CachedParts(st, i) = n
             /\ \A k \in 1 .. n : /\ k \in 1 .. MapSize
                                  /\ ChainPart(st, i, k) = ChainPart(m, i, k)
                                  /\ ChainPart(m, i, k) \in ChainOf(m, i)
             /\ \A j, k \in 1 .. n : j < k => ChainPart(m, i, j) < ChainPart(m, i, k)
<1>. DEFINE n == Parts(m.dir[i].length)
            size == Cardinality(ChainOf(m, i))
            w == Walk(m.map, m.dir[i].start)
<1>1. Sound(m) /\ Sized(m) /\ m.dir = st.dir /\ m.data = st.data /\ m \in FileSystem
  BY DEF Hides, Kept
<1>2. m.dir[i].length \in Nat
  BY <1>1, FileSystemFields
<1>3. n \in Nat /\ n =< size
  BY <1>1, <1>2, PartsFit DEF Sized
<1>4. /\ size \in Nat /\ size =< MapSize
      /\ \A k \in 0 .. size - 1 : w[k] \in ChainOf(m, i)
      /\ \A j, k \in 0 .. size - 1 : j < k => w[j] < w[k]
  BY PartsAscend
<1>5. CachedParts(st, i) = n
  <2>1. m.data[m.dir[i].name] # NoContent /\ Length[m.data[m.dir[i].name]] = m.dir[i].length
    BY <1>1 DEF Sound, CachedIn
  <2>. QED BY <1>1, <2>1 DEF CachedParts
<1>. HIDE DEF size, n, w
<1>6. n =< MapSize /\ \A k \in 1 .. n : k \in 1 .. MapSize /\ k - 1 \in 0 .. size - 1
  BY <1>3, <1>4, MapSizeNat
<1>7. \A k \in 1 .. n : ChainPart(m, i, k) = w[k - 1]
  BY DEF ChainPart, w
<1>8. ASSUME NEW k \in 1 .. n
      PROVE  ChainPart(st, i, k) = ChainPart(m, i, k) /\ ChainPart(m, i, k) \in ChainOf(m, i)
  BY <1>4, <1>6, <1>7, HiddenParts
<1>9. ASSUME NEW j \in 1 .. n, NEW k \in 1 .. n, j < k
      PROVE  ChainPart(m, i, j) < ChainPart(m, i, k)
  <2>1. j - 1 \in 0 .. size - 1 /\ k - 1 \in 0 .. size - 1 /\ j - 1 < k - 1
    BY <1>3, <1>6, <1>9
  <2>2. w[j - 1] < w[k - 1]
    BY <1>4, <2>1
  <2>. QED BY <1>7, <2>2
<1>. QED BY <1>2, <1>3, <1>5, <1>6, <1>8, <1>9 DEF size, n

\* A link names a cluster, and rebasing one and back gives it again.
LEMMA LinkCodes ==
  /\ \A v \in Plain : IsLink(v) <=> v \in Cluster
  /\ \A v \in Cluster : v >= BaseCluster =>
       /\ IsLink(v) /\ Low(v) = v /\ IsLink(v - BaseCluster)
       /\ Low(v - BaseCluster) = v - BaseCluster /\ (v - BaseCluster) + BaseCluster = v
  /\ IsLink(Unnamed) /\ Low(Unnamed) = 0 /\ ~IsLink(Free) /\ Unnamed + BaseCluster = BaseCluster
<1>1. \A v \in Cluster : IsLink(v)
  BY LowCluster DEF IsLink, BadBlock
<1>2. ~IsLink(Free) /\ ~IsLink(EndOfChain) /\ ~IsLink(Reserved) /\ ~IsLink(Table)
  BY LowCluster DEF IsLink, BadBlock, Free, EndOfChain, Reserved, Table
<1>3. \A v \in Plain : IsLink(v) <=> v \in Cluster
  BY <1>1, <1>2, LowCluster DEF Plain
<1>4. ASSUME NEW v \in Cluster, v >= BaseCluster
      PROVE  /\ IsLink(v) /\ Low(v) = v /\ IsLink(v - BaseCluster)
             /\ Low(v - BaseCluster) = v - BaseCluster /\ (v - BaseCluster) + BaseCluster = v
  <2>1. v - BaseCluster \in Cluster /\ v \in Nat
    BY <1>4, BaseIsCluster, LowCluster, MapSizeNat DEF Cluster
  <2>. QED BY <1>1, <2>1, BaseIsCluster, LowCluster
<1>5. IsLink(Unnamed) /\ Low(Unnamed) = 0 /\ Unnamed + BaseCluster = BaseCluster
  <2>1. 0 \in Cluster
    BY MapSizeNat DEF Cluster
  <2>. QED BY <1>1, <2>1, BaseIsCluster, LowCluster DEF Unnamed
<1>. QED BY <1>2, <1>3, <1>4, <1>5

\* What a table states for a described cluster no caller withheld: no link, or
\* a link to a described cluster.
LEMMA DescribedLinks ==
  ASSUME NEW st, NEW m, Hides(m, st), Kept(m), NEW c \in Cluster, c >= BaseCluster
  PROVE  st.map[c] \in Cluster => st.map[c] >= BaseCluster
<1>1. m.map[c] = st.map[c] \/ st.map[c] = BaseCluster
  BY HiddenMap
<1>2. m.map[c] \in Cluster => c < m.map[c]
  BY DEF Kept, Linked
<1>3. ASSUME NEW v, v = st.map[c], v \in Cluster PROVE v >= BaseCluster
  <2>1. v = BaseCluster \/ c < v
    BY <1>1, <1>2, <1>3
  <2>2. v \in Nat /\ c \in Nat
    BY <1>3, LowCluster
  <2>. QED BY <2>1, <2>2, BaseIsCluster
<1>. QED BY <1>3

LEMMA HiddenPlain ==
  ASSUME NEW st, NEW m, Hides(m, st), Kept(m), NEW c \in Cluster
  PROVE  st.map[c] \in Plain /\ (c < BaseCluster => st.map[c] = Reserved)
<1>1. m.map[c] = st.map[c] \/ (st.map[c] = BaseCluster /\ Phantom(st, c))
  BY DEF Hides, Phantom
<1>2. m.map[c] \in Plain /\ (c < BaseCluster => m.map[c] = Reserved)
  BY DEF Kept, Linked
<1>. QED BY <1>1, <1>2, BaseIsCluster, LowCluster DEF Phantom, Plain

\* A good object can always be written: its links lie in the table's range,
\* and no chain is too short for its file.
LEMMA GoodFits ==
  ASSUME NEW st, Good(st)
  PROVE  ~Unencodable(st) /\ ~ChainTooShort(st)
<1>1. PICK m : Hides(m, st) /\ Kept(m)
  BY DEF Good
<1>2. Listed(st) = Listed(m) /\ m.dir = st.dir
  BY <1>1, HiddenChains DEF Hides
<1>3. ASSUME NEW c \in Described, IsLink(st.map[c]) PROVE ~(Low(st.map[c]) < BaseCluster)
  <2>1. c \in Cluster /\ c >= BaseCluster
    BY DEF Described
  <2>2. st.map[c] \in Cluster
    BY <1>1, <1>3, <2>1, HiddenPlain, LinkCodes
  <2>3. st.map[c] >= BaseCluster
    BY <1>1, <2>1, <2>2, DescribedLinks
  <2>4. PICK v \in Nat : v = st.map[c] /\ Low(v) = v
    BY <2>2, LowCluster
  <2>5. v >= BaseCluster
    BY <2>3, <2>4
  <2>6. ~(v < BaseCluster)
    BY <2>5, BaseIsCluster
  <2>. QED BY <2>4, <2>6
<1>4. ASSUME NEW i \in 1 .. Len(st.dir) PROVE ~(st.dir[i].start < BaseCluster)
  <2>1. i \in Listed(m) /\ st.dir[i].start \in Cluster
    BY <1>1, <1>2, FileSystemFields DEF Listed, Hides
  <2>2. st.dir[i].start \in ChainOf(m, i)
    BY <1>2, <2>1, ChainStart DEF ChainOf
  <2>3. PICK v \in Nat : v = st.dir[i].start
    BY <2>1, LowCluster
  <2>4. v >= BaseCluster
    BY <1>1, <2>1, <2>2, <2>3, HiddenChains
  <2>5. ~(v < BaseCluster)
    BY <2>4, BaseIsCluster
  <2>. QED BY <2>3, <2>5
<1>5. ASSUME NEW i \in Listed(st) PROVE ~(CachedParts(st, i) > Cardinality(ChainOf(st, i)))
  <2>1. i \in Listed(m) /\ ChainOf(st, i) = ChainOf(m, i)
    BY <1>1, <1>2, HiddenChains
  <2>. DEFINE n == Parts(m.dir[i].length)
              size == Cardinality(ChainOf(m, i))
  <2>2. n \in Nat /\ n =< size /\ CachedParts(st, i) = n
    BY <1>1, <2>1, GoodParts
  <2>3. size \in Nat
    BY ChainSize DEF ChainOf
  <2>. HIDE DEF n, size
  <2>4. ~(CachedParts(st, i) > size)
    BY <2>2, <2>3
  <2>. QED BY <2>1, <2>4 DEF size
<1>. QED BY <1>3, <1>4, <1>5 DEF Unencodable, ChainTooShort

-----------------------------------------------------------------------------
(* What an image write leaves on the NAND.                                 *)

\* Every part of every file is on the cluster its chain gives it.
LEMMA WrittenParts ==
  ASSUME NEW st, NEW cells, NEW m, Hides(m, st), Kept(m), NEW i \in Listed(m),
         NEW k \in 1 .. Parts(m.dir[i].length)
  PROVE  Written(st, cells)[ChainPart(m, i, k)] = FilePart(st.data[st.dir[i].name], k)
<1>. DEFINE c == ChainPart(m, i, k)
            found == PartsAt(st, c)
            p == CHOOSE p \in found : \A q \in found : q[1] =< p[1]
<1>1. Listed(st) = Listed(m) /\ i \in Nat
  BY HiddenChains DEF Listed
<1>2. /\ Parts(m.dir[i].length) \in Nat /\ Parts(m.dir[i].length) =< MapSize
      /\ CachedParts(st, i) = Parts(m.dir[i].length)
      /\ k \in 1 .. MapSize /\ ChainPart(st, i, k) = c /\ c \in ChainOf(m, i)
  BY GoodParts
<1>3. c \in Cluster
  BY <1>2, ChainOfSubset
<1>4. <<i, k>> \in found
  <2>. HIDE DEF c
  <2>. QED BY <1>1, <1>2 DEF PartsAt
<1>5. ASSUME NEW q \in found PROVE q = <<i, k>>
  <2>1. /\ q \in Listed(m) \X (1 .. MapSize)
        /\ q[2] =< CachedParts(st, q[1]) /\ ChainPart(st, q[1], q[2]) = c
    <3>. HIDE DEF c
    <3>. QED BY <1>1 DEF PartsAt
  <2>2. PICK j \in Listed(m), l \in 1 .. MapSize : q = <<j, l>>
    BY <2>1
  <2>. DEFINE n == Parts(m.dir[j].length)
  <2>3. /\ n \in Nat /\ CachedParts(st, j) = n
        /\ \A x \in 1 .. n : /\ ChainPart(st, j, x) = ChainPart(m, j, x)
                             /\ ChainPart(m, j, x) \in ChainOf(m, j)
        /\ \A x, y \in 1 .. n : x < y => ChainPart(m, j, x) < ChainPart(m, j, y)
    BY GoodParts
  <2>4. l \in 1 .. n
    <3>1. l =< CachedParts(st, j) /\ l \in Nat /\ l >= 1
      BY <2>1, <2>2
    <3>. HIDE DEF n
    <3>. QED BY <2>3, <3>1
  <2>5. ChainPart(m, j, l) = c /\ c \in ChainOf(m, j)
    <3>. HIDE DEF c, n
    <3>. QED BY <2>1, <2>2, <2>3, <2>4
  <2>6. j = i
    BY <1>2, <2>5 DEF Kept, Sound, ApartIn
  <2>7. l = k
    <3>1. ~(l < k) /\ ~(k < l)
      <4>1. k \in 1 .. n
        BY <2>6
      <4>2. ~(c < c)
        BY <1>3, LowCluster
      <4>. HIDE DEF n
      <4>. QED BY <2>3, <2>4, <2>5, <2>6, <4>1, <4>2
    <3>2. l \in Nat /\ k \in Nat
      BY <1>2
    <3>. QED BY <3>1, <3>2
  <2>. QED BY <2>2, <2>6, <2>7
<1>6. p = <<i, k>>
  <2>1. \A q \in found : q[1] =< <<i, k>>[1]
    BY <1>1, <1>5
  <2>. HIDE DEF found
  <2>. QED BY <1>4, <1>5, <2>1
<1>7. Written(st, cells)[c] = IF found # {} THEN FilePart(st.data[st.dir[p[1]].name], p[2])
                              ELSE IF c = RootFirst(st) THEN RootTable(Encoded(st), EncodedDir(st))
                              ELSE cells[c]
  BY <1>3 DEF Written
<1>. HIDE DEF found, p, c
<1>8. Written(st, cells)[c] = FilePart(st.data[st.dir[i].name], k)
  BY <1>4, <1>6, <1>7
<1>. QED BY <1>8 DEF c

\* A cluster of no chain holds the root or what it held.
LEMMA WrittenElsewhere ==
  ASSUME NEW st, NEW cells, NEW m, Hides(m, st), Kept(m), NEW c \in Cluster,
         \A i \in Listed(m) : c \notin ChainOf(m, i)
  PROVE  Written(st, cells)[c] = IF c = RootFirst(st)
                                 THEN RootTable(Encoded(st), EncodedDir(st)) ELSE cells[c]
<1>1. Listed(st) = Listed(m)
  BY HiddenChains
<1>2. ASSUME NEW q \in PartsAt(st, c) PROVE FALSE
  <2>1. PICK j \in Listed(m), l \in 1 .. MapSize :
          l =< CachedParts(st, j) /\ ChainPart(st, j, l) = c
    BY <1>1 DEF PartsAt
  <2>. DEFINE n == Parts(m.dir[j].length)
  <2>2. /\ n \in Nat /\ CachedParts(st, j) = n
        /\ \A x \in 1 .. n : /\ ChainPart(st, j, x) = ChainPart(m, j, x)
                             /\ ChainPart(m, j, x) \in ChainOf(m, j)
    BY GoodParts
  <2>3. l \in 1 .. n
    <3>1. l =< CachedParts(st, j) /\ l \in Nat /\ l >= 1
      BY <2>1
    <3>. HIDE DEF n
    <3>. QED BY <2>2, <3>1
  <2>. QED BY <2>1, <2>2, <2>3
<1>. QED BY <1>2 DEF Written

-----------------------------------------------------------------------------
(* What opening the image makes of it.                                     *)

\* The map read from the table of st: a withheld cluster is what the table
\* states for it, and one stated unnamed links to the base cluster.
RestoredMap(st) ==
  [c \in Cluster |->
     IF c < BaseCluster THEN Reserved
     ELSE IF st.stated[c] = Free THEN Free
     ELSE IF st.stated[c] = Unnamed THEN BaseCluster
     ELSE st.map[c]]

\* Rebasing the links and back gives them again, and encodes as it did.
LEMMA TableReadBack ==
  ASSUME NEW st, NEW m, Hides(m, st), Kept(m)
  PROVE  /\ Decoded(Encoded(st)) = RestoredMap(st)
         /\ \A c \in Described : ~(/\ IsLink(Encoded(st)[c])
                                   /\ Low(Encoded(st)[c]) + BaseCluster >= MapSize)
         /\ \A x : x.map = RestoredMap(st) /\ x.stated = [c \in Cluster |-> NotStated]
                     => Encoded(x) = Encoded(st)
<1>. DEFINE t == Encoded(st)
            r == RestoredMap(st)
            again(v) == IF IsLink(v) THEN v - BaseCluster ELSE v
<1>0. st \in FileSystem /\ BaseCluster < MapSize /\ MapSize \in Nat /\ BaseCluster \in Nat
  BY ImageAssumption, MapSizeNat, BaseIsCluster DEF Hides
<1>1. ASSUME NEW c \in Cluster, c >= BaseCluster
      PROVE  /\ (IF IsLink(t[c]) THEN t[c] + BaseCluster ELSE t[c]) = r[c]
             /\ ~(IsLink(t[c]) /\ Low(t[c]) + BaseCluster >= MapSize)
             /\ again(r[c]) = t[c]
  <2>0. c \in Described /\ ~(c < BaseCluster)
    BY <1>0, <1>1, LowCluster DEF Described
  <2>1. st.stated[c] \in {NotStated, Free, Unnamed} /\ NotStated # Free /\ NotStated # Unnamed
        /\ Free # Unnamed
    BY <1>0, FileSystemFields DEF NotStated, Free, Unnamed
  <2>2. PICK v \in Plain : v = st.map[c]
    BY HiddenPlain
  <2>3. v \in Cluster => v >= BaseCluster
    BY <1>1, <2>2, DescribedLinks
  <2>4. t[c] = IF st.stated[c] # NotStated THEN st.stated[c]
               ELSE IF IsLink(v) THEN v - BaseCluster ELSE v
    BY <2>0, <2>2 DEF Encoded
  <2>5. r[c] = IF st.stated[c] = Free THEN Free
               ELSE IF st.stated[c] = Unnamed THEN BaseCluster ELSE v
    BY <2>0, <2>2 DEF RestoredMap
  <2>. HIDE DEF t, r
  <2>6. CASE st.stated[c] = Free
    <3>1. t[c] = Free /\ r[c] = Free /\ ~IsLink(Free)
      BY <2>1, <2>4, <2>5, <2>6, LinkCodes
    <3>. QED BY <3>1
  <2>7. CASE st.stated[c] = Unnamed
    <3>1. t[c] = Unnamed /\ r[c] = BaseCluster
      BY <2>1, <2>4, <2>5, <2>7
    <3>2. IsLink(Unnamed) /\ Low(Unnamed) = 0 /\ Unnamed + BaseCluster = BaseCluster
          /\ IsLink(BaseCluster) /\ BaseCluster - BaseCluster = Unnamed
      BY BaseIsCluster, LinkCodes DEF Plain, Unnamed
    <3>. QED BY <1>0, <3>1, <3>2
  <2>8. CASE st.stated[c] = NotStated /\ v \in Cluster
    <3>1. /\ IsLink(v) /\ Low(v) = v /\ IsLink(v - BaseCluster)
          /\ Low(v - BaseCluster) = v - BaseCluster /\ (v - BaseCluster) + BaseCluster = v
      BY <2>3, <2>8, LinkCodes
    <3>2. t[c] = v - BaseCluster /\ r[c] = v
      BY <2>1, <2>4, <2>5, <2>8, <3>1
    <3>3. v \in Nat /\ ~(v >= MapSize)
      BY <2>8, MapSizeNat DEF Cluster
    <3>. QED BY <3>1, <3>2, <3>3
  <2>9. CASE st.stated[c] = NotStated /\ v \notin Cluster
    <3>1. ~IsLink(v)
      BY <2>9, LinkCodes
    <3>2. t[c] = v /\ r[c] = v
      BY <2>1, <2>4, <2>5, <2>9, <3>1
    <3>. QED BY <3>1, <3>2
  <2>. QED BY <2>1, <2>6, <2>7, <2>8, <2>9
<1>. HIDE DEF t
<1>2. Decoded(t) = r
  <2>1. \A c \in Cluster : c < BaseCluster => c \notin Described /\ r[c] = Reserved
    BY <1>0, LowCluster DEF Described, RestoredMap
  <2>2. \A c \in Cluster : ~(c < BaseCluster) => c \in Described /\ c >= BaseCluster
    BY <1>0, LowCluster DEF Described
  <2>3. ASSUME NEW c \in Cluster PROVE Decoded(t)[c] = r[c]
    <3>1. Decoded(t)[c] = IF c \notin Described THEN Reserved
                          ELSE IF IsLink(t[c]) THEN t[c] + BaseCluster ELSE t[c]
      BY DEF Decoded
    <3>. QED BY <1>1, <2>1, <2>2, <3>1
  <2>4. Decoded(t) = [c \in Cluster |-> Decoded(t)[c]] /\ r = [c \in Cluster |-> r[c]]
    BY DEF Decoded, RestoredMap
  <2>. HIDE DEF r
  <2>. QED BY <2>3, <2>4
<1>3. ASSUME NEW x, x.map = r, x.stated = [c \in Cluster |-> NotStated]
      PROVE  Encoded(x) = t
  <2>1. Encoded(x) = [c \in Described |-> again(r[c])]
    BY <1>3 DEF Encoded, Described
  <2>2. t = [c \in Described |-> t[c]]
    BY DEF Encoded, t
  <2>3. \A c \in Described : c \in Cluster /\ c >= BaseCluster
    BY DEF Described
  <2>. HIDE DEF again, r
  <2>. QED BY <1>1, <2>1, <2>2, <2>3
<1>4. \A c \in Described : ~(IsLink(t[c]) /\ Low(t[c]) + BaseCluster >= MapSize)
  BY <1>1 DEF Described
<1>. QED BY <1>2, <1>3, <1>4 DEF t

\* The first entries of a sequence, one more at a time.
LEMMA FirstEntries ==
  ASSUME NEW dir \in Seq(Entry), NEW k \in 1 .. Len(dir)
  PROVE  SubSeq(dir, 1, k) = Append(SubSeq(dir, 1, k - 1), dir[k])
<1>1. Len(dir) \in Nat /\ \A j \in 1 .. Len(dir) : dir[j] \in Entry
  BY LenProperties, ElementOfSeq
<1>. QED BY <1>1

\* Decoding an entry list that keeps every entry gives every entry.
LEMMA DecodedDirIs ==
  ASSUME NEW stored, NEW dir \in Seq(Entry), Len(stored) = Len(dir),
         \A i \in 1 .. Len(dir) :
           /\ [stored[i] EXCEPT !.start = @ + BaseCluster] = dir[i]
           /\ dir[i].start # 0
  PROVE  DecodedDir(stored) = dir
<1>. DEFINE size == Len(dir)
            entry(i) == [stored[i] EXCEPT !.start = @ + BaseCluster]
            Rec(f) == f = [k \in 0 .. size |->
                             IF k = 0 THEN << >>
                             ELSE IF entry(k).start = 0 THEN f[k - 1]
                             ELSE Append(f[k - 1], entry(k))]
            kept == CHOOSE f : Rec(f)
            first == [k \in 0 .. size |-> SubSeq(dir, 1, k)]
<1>1. size \in Nat
  BY LenProperties
<1>2. \A k \in 1 .. size : entry(k) = dir[k] /\ entry(k).start # 0
  OBVIOUS
<1>. HIDE DEF entry
<1>3. Rec(first)
  <2>1. ASSUME NEW k \in 0 .. size
        PROVE  first[k] = IF k = 0 THEN << >>
                          ELSE IF entry(k).start = 0 THEN first[k - 1]
                          ELSE Append(first[k - 1], entry(k))
    <3>1. CASE k = 0
      BY <3>1
    <3>2. CASE k # 0
      <4>1. k \in 1 .. size /\ k - 1 \in 0 .. size
        BY <1>1, <3>2
      <4>2. first[k] = SubSeq(dir, 1, k) /\ first[k - 1] = SubSeq(dir, 1, k - 1)
        BY <4>1
      <4>. HIDE DEF first
      <4>3. SubSeq(dir, 1, k) = Append(SubSeq(dir, 1, k - 1), dir[k])
        BY <4>1, FirstEntries
      <4>. QED BY <1>2, <3>2, <4>1, <4>2, <4>3
    <3>. QED BY <3>1, <3>2
  <2>2. first = [k \in 0 .. size |-> first[k]]
    OBVIOUS
  <2>. HIDE DEF first, size
  <2>. QED BY <2>1, <2>2
<1>4. Rec(kept)
  <2>. HIDE DEF Rec, first
  <2>. QED BY <1>3
<1>5. DecodedDir(stored) = kept[size]
  BY DEF DecodedDir, entry
<1>. HIDE DEF kept
<1>. DEFINE T == {n \in Nat : n =< size => kept[n] = SubSeq(dir, 1, n)}
<1>6. 0 \in T
  <2>1. kept[0] = << >>
    BY <1>1, <1>4
  <2>2. SubSeq(dir, 1, 0) = << >>
    BY SubSeqProperties, LenProperties, EmptySeq
  <2>. QED BY <2>1, <2>2
<1>7. \A n \in Nat : n \in T => n + 1 \in T
  <2>. SUFFICES ASSUME NEW n \in Nat, n \in T, n + 1 =< size
                PROVE  kept[n + 1] = SubSeq(dir, 1, n + 1)
    OBVIOUS
  <2>1. kept[n] = SubSeq(dir, 1, n)
    BY <1>1
  <2>2. n + 1 \in 1 .. size /\ n + 1 # 0 /\ (n + 1) - 1 = n
    BY <1>1
  <2>3. kept[n + 1] = Append(kept[n], dir[n + 1])
    BY <1>1, <1>2, <1>4, <2>2
  <2>4. SubSeq(dir, 1, n + 1) = Append(SubSeq(dir, 1, n), dir[n + 1])
    BY <2>2, FirstEntries
  <2>. QED BY <2>1, <2>3, <2>4
<1>8. kept[size] = SubSeq(dir, 1, size)
  <2>1. Nat \subseteq T
    <3>. HIDE DEF T
    <3>. QED BY <1>6, <1>7, NatInductionOnSets
  <2>. QED BY <1>1, <2>1
<1>9. SubSeq(dir, 1, size) = dir
  BY <1>1
<1>. QED BY <1>5, <1>8, <1>9

\* The directory comes back as it was: no file starts at cluster 0.
LEMMA DirReadBack ==
  ASSUME NEW st, NEW m, Hides(m, st), Kept(m)
  PROVE  /\ DecodedDir(EncodedDir(st)) = st.dir
         /\ \A i \in 1 .. Len(EncodedDir(st)) :
              ~(EncodedDir(st)[i].start + BaseCluster >= MapSize)
<1>. DEFINE stored == EncodedDir(st)
            size == Len(st.dir)
<1>1. st \in FileSystem /\ st.dir \in Seq(Entry) /\ size \in Nat
  BY FileSystemFields DEF Hides
<1>2. stored = [i \in 1 .. size |-> [st.dir[i] EXCEPT !.start = @ - BaseCluster]]
  BY DEF EncodedDir
<1>3. ASSUME NEW i \in 1 .. size
      PROVE  /\ [stored[i] EXCEPT !.start = @ + BaseCluster] = st.dir[i]
             /\ st.dir[i].start # 0
             /\ ~(stored[i].start + BaseCluster >= MapSize)
  <2>1. i \in Listed(st) /\ i \in Listed(m) /\ m.dir = st.dir
    BY HiddenChains DEF Listed, Hides
  <2>2. st.dir[i] \in Entry /\ st.dir[i].start \in Cluster
    BY <1>1, <2>1, FileSystemFields
  <2>3. st.dir[i].start \in ChainOf(m, i)
    BY <2>1, <2>2, ChainStart DEF ChainOf
  <2>4. st.dir[i].start # 0
    BY <2>1, <2>3, HiddenChains
  <2>5. PICK e \in Entry : e = st.dir[i]
    BY <2>2
  <2>6. e.start \in Nat /\ e.start < MapSize
    BY <2>2, <2>5, MapSizeNat DEF Cluster
  <2>7. stored[i] = [e EXCEPT !.start = e.start - BaseCluster]
    BY <1>2, <2>5
  <2>. HIDE DEF stored
  <2>8. stored[i].start = e.start - BaseCluster /\ stored[i].name = e.name
        /\ stored[i].length = e.length
        /\ stored[i] = [name |-> e.name, start |-> e.start - BaseCluster, length |-> e.length]
    BY <2>7 DEF Entry
  <2>9. (e.start - BaseCluster) + BaseCluster = e.start
    BY <2>6, BaseIsCluster
  <2>10. [stored[i] EXCEPT !.start = @ + BaseCluster] = e
    BY <2>8, <2>9 DEF Entry
  <2>11. ~(stored[i].start + BaseCluster >= MapSize)
    BY <2>6, <2>8, <2>9, MapSizeNat
  <2>. QED BY <2>4, <2>5, <2>10, <2>11
<1>4. Len(stored) = size
  BY <1>1, <1>2
<1>. HIDE DEF stored, size
<1>5. DecodedDir(stored) = st.dir
  BY <1>1, <1>3, <1>4, DecodedDirIs DEF size
<1>. QED BY <1>3, <1>4, <1>5 DEF stored

\* A restored map has the chains of the one written.
LEMMA RestoredChains ==
  ASSUME NEW st, NEW m, Hides(m, st), Kept(m), NEW x, x.map = RestoredMap(st), x.dir = st.dir
  PROVE  /\ Listed(x) = Listed(m)
         /\ \A i \in Listed(m) :
              /\ ChainOf(x, i) = ChainOf(m, i)
              /\ \A k \in 1 .. MapSize : ChainPart(x, i, k) = ChainPart(m, i, k)
<1>1. Listed(x) = Listed(m) /\ x.dir = m.dir
  BY DEF Hides, Listed
<1>2. ASSUME NEW i \in Listed(m), NEW c \in Chain(m.map, m.dir[i].start)
      PROVE  m.map[c] = x.map[c]
  <2>1. /\ c \in Cluster /\ st.map[c] = m.map[c] /\ m.map[c] \in Cluster \cup {EndOfChain}
        /\ c >= BaseCluster
    BY HiddenChains DEF ChainOf
  <2>2. m.map[c] # Reserved
    BY <2>1, LowCluster, FourValues
  <2>3. st.stated[c] = NotStated
    BY <2>1, <2>2 DEF Kept, Sound, WithheldIn, Hides
  <2>4. ~(c < BaseCluster)
    BY <2>1, BaseIsCluster, LowCluster
  <2>. QED BY <2>1, <2>3, <2>4 DEF RestoredMap, NotStated, Free, Unnamed
<1>3. ASSUME NEW i \in Listed(m)
      PROVE  /\ ChainOf(x, i) = ChainOf(m, i)
             /\ \A k \in 1 .. MapSize : ChainPart(x, i, k) = ChainPart(m, i, k)
  <2>1. ChainOf(x, i) = ChainOf(m, i)
    BY <1>1, <1>2, ChainAgree DEF ChainOf
  <2>2. \A n \in 0 .. MapSize : Walk(x.map, m.dir[i].start)[n] = Walk(m.map, m.dir[i].start)[n]
    BY <1>2, WalkAgree
  <2>3. \A k \in 1 .. MapSize : k - 1 \in 0 .. MapSize
    BY MapSizeNat
  <2>. QED BY <1>1, <2>1, <2>2, <2>3 DEF ChainPart
<1>. QED BY <1>1, <1>3

\* The bytes of every file come back: its first part names the content, and an
\* empty file has none.
LEMMA BytesReadBack ==
  ASSUME NEW st, NEW cells, NEW m, Hides(m, st), Kept(m), nand = Written(st, cells),
         NEW x, x.dir = st.dir, NEW i \in Listed(m),
         \A k \in 1 .. MapSize : ChainPart(x, i, k) = ChainPart(m, i, k)
  PROVE  ReadBack(x, i) = st.data[st.dir[i].name]
<1>. DEFINE length == x.dir[i].length
            own == st.data[st.dir[i].name]
            Reads(d) == /\ Length[d] = length
                        /\ \A k \in 1 .. Parts(length) : nand[ChainPart(x, i, k)] = FilePart(d, k)
<1>1. Sound(m) /\ m.dir = st.dir /\ m.data = st.data /\ m \in FileSystem
  BY DEF Hides, Kept
<1>2. length = m.dir[i].length /\ length \in Nat
  BY <1>1, FileSystemFields
<1>3. Parts(length) \in Nat /\ Parts(length) =< MapSize /\ (length # 0 => Parts(length) > 0)
  BY <1>2, GoodParts, PartsFit
<1>4. own \in Content /\ Length[own] = length
  <2>1. own # NoContent /\ Length[own] = length
    BY <1>1, <1>2 DEF Sound, CachedIn
  <2>2. own \in Content \cup {NoContent}
    BY <1>1, FileSystemFields
  <2>. QED BY <2>1, <2>2
<1>. HIDE DEF own, length
<1>5. \A k \in 1 .. Parts(length) : nand[ChainPart(x, i, k)] = FilePart(own, k)
  <2>. SUFFICES ASSUME NEW k \in 1 .. Parts(length)
                PROVE  nand[ChainPart(x, i, k)] = FilePart(own, k)
    OBVIOUS
  <2>1. k \in 1 .. MapSize
    BY <1>3, MapSizeNat
  <2>2. nand[ChainPart(m, i, k)] = FilePart(own, k)
    BY <1>2, WrittenParts DEF own
  <2>. QED BY <2>1, <2>2
<1>6. ASSUME NEW d \in Content, Reads(d) PROVE d = own
  <2>1. CASE length = 0
    BY <1>4, <1>6, <2>1, ImageAssumption
  <2>2. CASE length # 0
    <3>1. 1 \in 1 .. Parts(length)
      BY <1>3, <2>2
    <3>2. FilePart(d, 1) = FilePart(own, 1)
      BY <1>5, <1>6, <3>1
    <3>. QED BY <3>2 DEF FilePart
  <2>. QED BY <2>1, <2>2
<1>7. Reads(own)
  BY <1>4, <1>5
<1>8. ReadBack(x, i) = IF \E d \in Content : Reads(d) THEN CHOOSE d \in Content : Reads(d) ELSE Mixed
  BY DEF ReadBack, length
<1>. HIDE DEF Reads
<1>. QED BY <1>4, <1>6, <1>7, <1>8 DEF own

\* What a load makes of the image of st: the bytes of listed files and nothing
\* withheld, the root where it was with only its own cluster kept.
Restored(st) ==
  [map        |-> RestoredMap(st),
   dir        |-> st.dir,
   data       |-> [n \in Name |-> IF \E i \in Listed(st) : st.dir[i].name = n
                                  THEN st.data[n] ELSE NoContent],
   stated     |-> [c \in Cluster |-> NotStated],
   rootPlaced |-> TRUE,
   rootBlock  |-> RootFirst(st) \div Ratio,
   rootOffset |-> RootFirst(st) % Ratio,
   rootKept   |-> LoadedRootKept]

\* The root lies in the map, on no chain.
LEMMA RootCluster ==
  ASSUME NEW st, NEW m, Hides(m, st), Kept(m), st.rootPlaced
  PROVE  /\ RootFirst(st) \in Cluster /\ RootFirst(m) = RootFirst(st)
         /\ \A c \in Cluster : m.map[c] = Table <=> c = RootFirst(st)
         /\ \A i \in Listed(m) : RootFirst(st) \notin ChainOf(m, i)
<1>1. RootFirst(m) = RootFirst(st) /\ m.rootPlaced
  BY DEF Hides, RootFirst
<1>2. {c \in Cluster : m.map[c] = Table} = {RootFirst(m)}
  BY <1>1 DEF Kept, Sound, RootHeldIn
<1>3. RootFirst(m) \in Cluster /\ \A c \in Cluster : m.map[c] = Table <=> c = RootFirst(m)
  BY <1>2
<1>4. \A i \in Listed(m) : RootFirst(m) \notin ChainOf(m, i)
  BY <1>3, HiddenChains, LowCluster, FourValues
<1>. QED BY <1>1, <1>3, <1>4

\* A restored object is as good as the one written, with the same files.
LEMMA RestoredGood ==
  ASSUME NEW st, NEW m, Hides(m, st), Kept(m), st.rootPlaced
  PROVE  Good(Restored(st)) /\ FilesOf(Restored(st)) = FilesOf(st)
<1>. DEFINE x == Restored(st)
            map2 == [c \in Cluster |-> IF st.stated[c] = Free THEN Free ELSE m.map[c]]
            data2 == [n \in Name |-> IF \E i \in Listed(st) : st.dir[i].name = n
                                     THEN st.data[n] ELSE NoContent]
            stated2 == [c \in Cluster |-> NotStated]
            rf == RootFirst(st)
            block == rf \div Ratio
            offset == rf % Ratio
            y == [map |-> map2, dir |-> st.dir, data |-> data2, stated |-> stated2,
                  rootPlaced |-> TRUE, rootBlock |-> block, rootOffset |-> offset,
                  rootKept |-> LoadedRootKept]
<1>0. /\ Sound(m) /\ Sized(m) /\ Linked(m) /\ m \in FileSystem /\ st \in FileSystem
      /\ m.dir = st.dir /\ m.data = st.data /\ m.stated = st.stated /\ Listed(st) = Listed(m)
  BY HiddenChains DEF Hides, Kept
<1>1. rf \in Cluster /\ rf \in Nat /\ \A c \in Cluster : m.map[c] = Table <=> c = rf
  BY RootCluster, LowCluster
<1>. HIDE DEF rf
<1>2. block \in Nat /\ offset \in 0 .. Ratio - 1 /\ block * Ratio + offset = rf
      /\ LoadedRootKept \in 1 .. Ratio
  <2>0. Ratio \in Nat /\ Ratio > 0
    BY ShapeAssumption
  <2>1. block \in Nat /\ offset \in 0 .. Ratio - 1 /\ rf = Ratio * block + offset
    BY <1>1, <2>0
  <2>2. LoadedRootKept \in 1 .. Ratio
    BY <2>0 DEF LoadedRootKept
  <2>. HIDE DEF block, offset
  <2>3. block * Ratio = Ratio * block /\ Ratio * block \in Nat
    BY <2>0, <2>1
  <2>. QED BY <2>0, <2>1, <2>2, <2>3
<1>. HIDE DEF block, offset
<1>3. ASSUME NEW c \in Cluster
      PROVE  /\ st.stated[c] \in {NotStated, Free, Unnamed}
             /\ st.stated[c] # NotStated => m.map[c] = Reserved
             /\ c < BaseCluster \/ c = 0 => m.map[c] = Reserved /\ st.stated[c] = NotStated
             /\ map2[c] = m.map[c] \/ (map2[c] = Free /\ m.map[c] = Reserved)
  <2>1. st.stated[c] \in {NotStated, Free, Unnamed}
    BY <1>0, FileSystemFields
  <2>2. st.stated[c] # NotStated => m.map[c] = Reserved
    BY <1>0 DEF Sound, WithheldIn
  <2>3. c < BaseCluster \/ c = 0 => m.map[c] = Reserved /\ st.stated[c] = NotStated
    BY <1>0 DEF Linked
  <2>4. Free # NotStated
    BY DEF Free, NotStated
  <2>. QED BY <2>1, <2>2, <2>3, <2>4
<1>4. x.map = RestoredMap(st) /\ x.dir = st.dir /\ x.data = data2 /\ x.stated = stated2
      /\ x.rootPlaced /\ x.rootBlock = block /\ x.rootOffset = offset
      /\ x.rootKept = LoadedRootKept
      /\ x = [map |-> RestoredMap(st), dir |-> st.dir, data |-> data2, stated |-> stated2,
              rootPlaced |-> TRUE, rootBlock |-> block, rootOffset |-> offset,
              rootKept |-> LoadedRootKept]
  BY DEF Restored, block, offset, rf
<1>. HIDE DEF x
<1>5. RestoredMap(st) \in [Cluster -> LinkValue]
  <2>1. \A c \in Cluster : st.map[c] \in LinkValue
    BY <1>0, FileSystemFields
  <2>. QED BY <2>1, LinkValues, BaseIsCluster DEF RestoredMap
<1>6. map2 \in [Cluster -> LinkValue]
  <2>1. \A c \in Cluster : m.map[c] \in LinkValue
    BY <1>0, FileSystemFields
  <2>. QED BY <2>1, LinkValues
<1>7. data2 \in [Name -> Content \cup {NoContent}]
      /\ \A i \in Listed(m) : data2[m.dir[i].name] = st.data[m.dir[i].name]
  <2>1. \A n \in Name : st.data[n] \in Content \cup {NoContent}
    BY <1>0, FileSystemFields
  <2>2. \A i \in Listed(m) : m.dir[i].name \in Name
    BY <1>0, FileSystemFields
  <2>. QED BY <1>0, <2>1, <2>2
<1>8. stated2 \in [Cluster -> {NotStated, Free, Unnamed}] /\ st.dir \in Seq(Entry)
  BY <1>0, FileSystemFields
<1>9. x \in FileSystem /\ y \in FileSystem
  <2>. HIDE DEF map2, data2, stated2
  <2>. QED BY <1>2, <1>4, <1>5, <1>6, <1>7, <1>8 DEF FileSystem
<1>10. /\ y.map = map2 /\ y.dir = st.dir /\ y.data = data2 /\ y.stated = stated2
       /\ y.rootPlaced /\ y.rootBlock = block /\ y.rootOffset = offset
       /\ y.rootKept = LoadedRootKept
  OBVIOUS
<1>. HIDE DEF y
<1>11. Hides(y, x)
  <2>1. ASSUME NEW c \in Cluster
        PROVE  map2[c] = IF Phantom(x, c) THEN Reserved ELSE RestoredMap(st)[c]
    <3>1. m.map[c] = IF Phantom(st, c) THEN Reserved ELSE st.map[c]
      BY DEF Hides
    <3>2. RestoredMap(st)[c] = IF c < BaseCluster THEN Reserved
                               ELSE IF st.stated[c] = Free THEN Free
                               ELSE IF st.stated[c] = Unnamed THEN BaseCluster
                               ELSE st.map[c]
      BY DEF RestoredMap
    <3>3. Phantom(x, c) <=> c >= BaseCluster /\ RestoredMap(st)[c] = BaseCluster
      BY <1>4 DEF Phantom
    <3>4. Free # BaseCluster /\ Reserved # BaseCluster /\ Free # Unnamed
          /\ Free # NotStated /\ Unnamed # NotStated
      BY BaseIsCluster, LowCluster DEF Free, Unnamed, NotStated
    <3>5. c < BaseCluster <=> ~(c >= BaseCluster)
      BY BaseIsCluster, LowCluster
    <3>6. map2[c] = IF st.stated[c] = Free THEN Free ELSE m.map[c]
      OBVIOUS
    <3>. HIDE DEF map2
    <3>. QED BY <1>3, <3>1, <3>2, <3>3, <3>4, <3>5, <3>6 DEF Phantom
  <2>. QED BY <1>4, <1>9, <1>10, <2>1 DEF Hides
<1>12. /\ Listed(y) = Listed(m)
       /\ \A i \in Listed(m) : ChainOf(y, i) = ChainOf(m, i)
  <2>1. Listed(y) = Listed(m) /\ y.dir = m.dir
    BY <1>0, <1>10 DEF Listed
  <2>2. ASSUME NEW i \in Listed(m) PROVE ChainOf(y, i) = ChainOf(m, i)
    <3>1. \A c \in Chain(m.map, m.dir[i].start) : m.map[c] = y.map[c]
      <4>1. \A c \in ChainOf(m, i) : c \in Cluster /\ m.map[c] # Reserved
        BY HiddenChains, LowCluster, FourValues
      <4>. QED BY <1>3, <1>10, <4>1 DEF ChainOf
    <3>. QED BY <2>1, <3>1, ChainAgree DEF ChainOf
  <2>. QED BY <2>1, <2>2
<1>13. Sound(y)
  <2>1. ApartIn(y)
    BY <1>0, <1>12 DEF Sound, ApartIn
  <2>2. AccountedIn(y)
    <3>1. \A c \in Cluster : HoldsFile(y, c) <=> HoldsFile(m, c)
      <4>1. Low(Free) \notin Cluster \cup {EndOfChain} /\ Low(Reserved) \notin Cluster \cup {EndOfChain}
        BY LowCluster, FourValues
      <4>. QED BY <1>3, <1>10, <4>1 DEF HoldsFile
    <3>. QED BY <1>0, <1>12, <3>1 DEF Sound, AccountedIn
  <2>3. UniqueIn(y)
    BY <1>0, <1>10, <1>12 DEF Sound, UniqueIn
  <2>4. CachedIn(y)
    <3>1. \A i \in Listed(m) : /\ m.data[m.dir[i].name] # NoContent
                              /\ Length[m.data[m.dir[i].name]] = m.dir[i].length
      BY <1>0 DEF Sound, CachedIn
    <3>. HIDE DEF data2
    <3>2. \A i \in Listed(m) : y.dir[i] = m.dir[i] /\ y.data[m.dir[i].name] = m.data[m.dir[i].name]
      BY <1>0, <1>7, <1>10
    <3>. QED BY <1>12, <3>1, <3>2 DEF CachedIn
  <2>5. RootHeldIn(y)
    <3>1. RootFirst(y) = rf
      BY <1>2, <1>10 DEF RootFirst
    <3>2. \A c \in Cluster : y.map[c] = Table <=> c = rf
      BY <1>1, <1>3, <1>10, FourValues
    <3>3. RootClusters(y) = {rf}
      <4>1. RootClusters(y) = {c \in Cluster : rf =< c /\ c < rf + 1}
        BY <1>10, <3>1 DEF RootClusters, LoadedRootKept
      <4>2. \A c \in Cluster : rf =< c /\ c < rf + 1 <=> c = rf
        BY <1>1, LowCluster
      <4>. QED BY <1>1, <4>1, <4>2
    <3>. QED BY <1>1, <1>10, <3>1, <3>2, <3>3 DEF RootHeldIn
  <2>6. WithheldIn(y)
    BY <1>10 DEF WithheldIn
  <2>. QED BY <1>9, <2>1, <2>2, <2>3, <2>4, <2>5, <2>6 DEF Sound
<1>14. Sized(y)
  BY <1>0, <1>10, <1>12 DEF Sized
<1>15. Linked(y)
  <2>1. Free \in Plain /\ Free \notin Cluster
    BY LowCluster DEF Plain
  <2>. HIDE DEF map2
  <2>2. \A c \in Cluster : y.map[c] \in Plain /\ (y.map[c] \in Cluster => c < y.map[c])
    BY <1>0, <1>3, <1>10, <2>1 DEF Linked
  <2>3. ASSUME NEW c \in Cluster, c < BaseCluster \/ c = 0
        PROVE  y.map[c] = Reserved /\ y.stated[c] = NotStated
    <3>1. m.map[c] = Reserved /\ st.stated[c] = NotStated
      BY <1>3, <2>3
    <3>2. map2[c] = m.map[c]
      BY <3>1 DEF map2, NotStated, Free
    <3>. QED BY <1>10, <3>1, <3>2
  <2>. QED BY <2>2, <2>3 DEF Linked
<1>16. FilesOf(x) = FilesOf(st)
  <2>1. Listed(x) = Listed(st) /\ x.dir = st.dir
    BY <1>4 DEF Listed
  <2>2. \A i \in Listed(st) : x.data[x.dir[i].name] = st.data[st.dir[i].name]
    BY <1>0, <1>4, <1>7, <2>1
  <2>. QED BY <2>1, <2>2 DEF FilesOf
<1>17. Good(x)
  BY <1>11, <1>13, <1>14, <1>15 DEF Good, Kept
<1>. QED BY <1>16, <1>17 DEF x

\* The image holds one root, and loading it restores the object written.
NoRoots(cells) == \A c \in Cluster : cells[c].kind # "root"

LEMMA OneRoot ==
  ASSUME NEW st, NEW cells, Good(st), st.rootPlaced, NoRoots(cells), nand = Written(st, cells)
  PROVE  /\ RootFirst(st) \in Cluster /\ Roots = {RootFirst(st)}
         /\ nand[RootFirst(st)] = RootTable(Encoded(st), EncodedDir(st))
<1>. DEFINE rf == RootFirst(st)
            root == RootTable(Encoded(st), EncodedDir(st))
<1>1. PICK m : Hides(m, st) /\ Kept(m)
  BY DEF Good
<1>2. rf \in Cluster /\ \A i \in Listed(m) : rf \notin ChainOf(m, i)
  BY <1>1, RootCluster
<1>3. nand[rf] = root
  BY <1>1, <1>2, WrittenElsewhere
<1>4. ASSUME NEW c \in Cluster, c # rf PROVE nand[c].kind # "root"
  <2>1. nand[c] = IF PartsAt(st, c) # {}
                  THEN LET p == CHOOSE p \in PartsAt(st, c) : \A q \in PartsAt(st, c) : q[1] =< p[1]
                       IN  FilePart(st.data[st.dir[p[1]].name], p[2])
                  ELSE cells[c]
    BY <1>4 DEF Written
  <2>2. cells[c].kind # "root"
    BY DEF NoRoots
  <2>3. \A d, k : FilePart(d, k).kind # "root"
    BY DEF FilePart
  <2>. QED BY <2>1, <2>2, <2>3
<1>5. root.kind = "root"
  BY DEF RootTable
<1>. HIDE DEF rf, root
<1>6. Roots = {rf}
  BY <1>2, <1>3, <1>4, <1>5 DEF Roots
<1>. QED BY <1>2, <1>3, <1>6 DEF rf, root

LEMMA OpenWritten ==
  ASSUME NEW st, NEW cells, Good(st), st.rootPlaced, NoRoots(cells), nand = Written(st, cells)
  PROVE  /\ Loaded(RootFirst(st)) = [code |-> "ok", fs |-> Restored(st)]
         /\ Encoded(Restored(st)) = Encoded(st) /\ EncodedDir(Restored(st)) = EncodedDir(st)
<1>. DEFINE rf == RootFirst(st)
            root == nand[rf]
            empty == [n \in Name |-> NoContent]
            listed == [map        |-> Decoded(root.table),
                       dir        |-> DecodedDir(root.dir),
                       data       |-> empty,
                       stated     |-> [c \in Cluster |-> NotStated],
                       rootPlaced |-> TRUE,
                       rootBlock  |-> rf \div Ratio,
                       rootOffset |-> rf % Ratio,
                       rootKept   |-> LoadedRootKept]
            named(n) == {i \in Listed(listed) : listed.dir[i].name = n}
            bytes == [n \in Name |-> IF named(n) = {} THEN NoContent
                                     ELSE ReadBack(listed, CHOOSE i \in named(n) : \A j \in named(n) : j =< i)]
            truncated == \E i \in Listed(listed) :
                           listed.dir[i].length > Cardinality(ChainOf(listed, i)) * ClusterBytes
<1>1. PICK m : Hides(m, st) /\ Kept(m)
  BY DEF Good
<1>2. /\ Sound(m) /\ Sized(m) /\ m \in FileSystem /\ m.dir = st.dir /\ m.data = st.data
      /\ Listed(st) = Listed(m)
  BY <1>1, HiddenChains DEF Hides, Kept
<1>3. root.table = Encoded(st) /\ root.dir = EncodedDir(st)
  <2>1. root = RootTable(Encoded(st), EncodedDir(st))
    BY OneRoot
  <2>. HIDE DEF root
  <2>. QED BY <2>1 DEF RootTable
<1>4. listed.map = RestoredMap(st) /\ listed.dir = st.dir
  BY <1>1, <1>3, TableReadBack, DirReadBack
<1>5. ~Undecodable(root)
  <2>. HIDE DEF root
  <2>. QED BY <1>1, <1>3, TableReadBack, DirReadBack DEF Undecodable
<1>6. Loaded(rf) = IF Undecodable(root) THEN [code |-> "Malformed", fs |-> fs]
                   ELSE IF truncated THEN [code |-> "Truncated", fs |-> fs]
                   ELSE [code |-> "ok", fs |-> [listed EXCEPT !.data = bytes]]
  BY DEF Loaded
<1>7. [listed EXCEPT !.data = bytes] =
        [map |-> listed.map, dir |-> listed.dir, data |-> bytes,
         stated |-> [c \in Cluster |-> NotStated], rootPlaced |-> TRUE,
         rootBlock |-> rf \div Ratio, rootOffset |-> rf % Ratio, rootKept |-> LoadedRootKept]
  <2>. DEFINE stated2 == [c \in Cluster |-> NotStated]
              block == rf \div Ratio
              placed == TRUE
              offset == rf % Ratio
  <2>1. PICK map2, dir2 : map2 = listed.map /\ dir2 = listed.dir
    OBVIOUS
  <2>. HIDE DEF rf, root, empty
  <2>2. listed = [map |-> map2, dir |-> dir2, data |-> empty, stated |-> stated2,
                  rootPlaced |-> placed, rootBlock |-> block, rootOffset |-> offset,
                  rootKept |-> LoadedRootKept]
    BY <2>1
  <2>. HIDE DEF listed, bytes, placed, stated2, block, offset
  <2>3. [listed EXCEPT !.data = bytes] =
          [map |-> map2, dir |-> dir2, data |-> bytes, stated |-> stated2,
           rootPlaced |-> placed, rootBlock |-> block, rootOffset |-> offset,
           rootKept |-> LoadedRootKept]
    BY <2>2
  <2>4. [listed EXCEPT !.data = bytes] =
          [map |-> listed.map, dir |-> listed.dir, data |-> bytes, stated |-> stated2,
           rootPlaced |-> placed, rootBlock |-> block, rootOffset |-> offset,
           rootKept |-> LoadedRootKept]
    BY <2>1, <2>3
  <2>. QED BY <2>4 DEF placed, stated2, block, offset
<1>. HIDE DEF listed, root
<1>8. /\ Listed(listed) = Listed(m)
      /\ \A i \in Listed(m) :
           /\ ChainOf(listed, i) = ChainOf(m, i)
           /\ \A k \in 1 .. MapSize : ChainPart(listed, i, k) = ChainPart(m, i, k)
  BY <1>1, <1>4, RestoredChains
<1>9. ~truncated
  <2>. SUFFICES ASSUME NEW i \in Listed(m)
                PROVE  ~(listed.dir[i].length > Cardinality(ChainOf(listed, i)) * ClusterBytes)
    BY <1>8
  <2>1. PICK length \in Nat : length = m.dir[i].length
    BY <1>2, FileSystemFields
  <2>2. Cardinality(ChainOf(listed, i)) = ClustersNeeded(length)
    BY <1>2, <1>8, <2>1 DEF Sized
  <2>3. PICK need \in Nat : need = ClustersNeeded(length)
    BY NeedsOne
  <2>4. PICK room \in Nat : room = need * ClusterBytes
    BY ShapeAssumption
  <2>5. length =< room
    BY <2>3, <2>4, NeededIsEnough
  <2>6. ~(length > room)
    BY <2>5
  <2>. QED BY <1>2, <1>4, <2>1, <2>2, <2>3, <2>4, <2>6
<1>10. ASSUME NEW n \in Name
       PROVE  bytes[n] = IF \E i \in Listed(st) : st.dir[i].name = n THEN st.data[n] ELSE NoContent
  <2>1. named(n) = {i \in Listed(m) : m.dir[i].name = n}
    BY <1>2, <1>4, <1>8
  <2>2. bytes[n] = IF named(n) = {} THEN NoContent
                   ELSE ReadBack(listed, CHOOSE i \in named(n) : \A j \in named(n) : j =< i)
    OBVIOUS
  <2>3. CASE named(n) = {}
    BY <1>2, <2>1, <2>2, <2>3
  <2>4. CASE named(n) # {}
    <3>1. PICK i \in named(n) : TRUE
      BY <2>4
    <3>2. i \in Listed(m) /\ m.dir[i].name = n /\ i \in Nat
      BY <2>1, <3>1 DEF Listed
    <3>3. \A j \in named(n) : j = i
      BY <1>2, <2>1, <3>2 DEF Sound, UniqueIn, Matches
    <3>. HIDE DEF named, bytes
    <3>4. (CHOOSE k \in named(n) : \A j \in named(n) : j =< k) = i
      <4>1. PICK S : S = named(n)
        OBVIOUS
      <4>2. i \in S /\ \A j \in S : j = i
        BY <3>1, <3>3, <4>1
      <4>3. \A j \in S : j =< i
        BY <3>2, <4>2
      <4>4. (CHOOSE k \in S : \A j \in S : j =< k) = i
        BY <4>2, <4>3
      <4>. QED BY <4>1, <4>4
    <3>5. ReadBack(listed, i) = st.data[st.dir[i].name]
      BY <1>1, <1>4, <1>8, <3>2, BytesReadBack
    <3>. QED BY <1>2, <2>2, <2>4, <3>2, <3>4, <3>5
  <2>. QED BY <2>3, <2>4
<1>11. bytes = [n \in Name |-> IF \E i \in Listed(st) : st.dir[i].name = n
                               THEN st.data[n] ELSE NoContent]
  <2>1. bytes = [n \in Name |-> bytes[n]]
    OBVIOUS
  <2>. HIDE DEF bytes
  <2>. QED BY <1>10, <2>1
<1>. HIDE DEF bytes, truncated
<1>12. Loaded(rf) = [code |-> "ok", fs |-> Restored(st)]
  BY <1>4, <1>5, <1>6, <1>7, <1>9, <1>11 DEF Restored, rf
<1>13. Encoded(Restored(st)) = Encoded(st)
  <2>1. /\ Restored(st).map = RestoredMap(st)
        /\ Restored(st).stated = [c \in Cluster |-> NotStated]
    BY DEF Restored
  <2>. QED BY <1>1, <2>1, TableReadBack
<1>14. EncodedDir(Restored(st)) = EncodedDir(st)
  <2>1. Restored(st).dir = st.dir
    BY DEF Restored
  <2>. QED BY <2>1 DEF EncodedDir
<1>. QED BY <1>12, <1>13, <1>14 DEF rf

-----------------------------------------------------------------------------
(***************************************************************************)
(* The inductive invariant: the object in memory is good, and the NAND     *)
(* holds no root, or is what writing some good object left on cells        *)
(* without one.                                                            *)
(***************************************************************************)

HoldsImage(st, cells) ==
  /\ Good(st) /\ st.rootPlaced /\ NoRoots(cells)
  /\ nand = Written(st, cells) /\ written = <<FilesOf(st)>>

NandInv ==
  \/ written = << >> /\ Roots = {}
  \/ \E st, cells : HoldsImage(st, cells)

DiskInv == Good(fs) /\ last.at = 0 /\ WriteNeedsOnlySpace /\ NandInv

LEMMA DiskInitInv == SavingInit => DiskInv /\ Saved!SavedInit
<1>. SUFFICES ASSUME SavingInit PROVE DiskInv /\ Saved!SavedInit
  OBVIOUS
<1>1. PICK boundary \in BoundaryChoice : fs = FormattedMap(boundary)
  BY DEF SavingInit, DiskInit, Init
<1>2. fs = [FormattedMap(boundary) EXCEPT !.rootBlock = kDefaultRoot] /\ kDefaultRoot \in Nat
  BY <1>1 DEF FormattedMap, kDefaultRoot
<1>3. Good(fs) /\ fs.dir = << >>
  BY <1>2, GoodFormatted
<1>4. FilesOf(fs) = << >>
  BY <1>3, NoFiles
<1>5. last.at = 0 /\ last.code = "ok" /\ last.op = "format"
  BY DEF SavingInit, DiskInit, Init
<1>6. Roots = {} /\ written = << >>
  BY DEF SavingInit, DiskInit, Roots, Blank
<1>. QED BY <1>3, <1>4, <1>5, <1>6
     DEF DiskInv, NandInv, WriteNeedsOnlySpace, Saved!SavedInit, Saved!StoreInit

\* An image write has the space it looks for, or leaves everything as it was.
LEMMA WriteSplit ==
  ASSUME Good(fs), NEW cursor, NEW preserve, WriteImage(cursor, preserve)
  PROVE  /\ last'.op = "write" /\ last'.at = 0
         /\ \/ fs' = fs /\ nand' = nand /\ last'.code = "Exhausted"
            \/ /\ Good(fs') /\ fs'.rootPlaced /\ FilesOf(fs') = FilesOf(fs)
               /\ \E cells : NoRoots(cells) /\ nand' = Written(fs', cells)
               /\ last'.code = "ok"
<1>1. last'.op = "write" /\ last'.at = 0
  BY DEF WriteImage, Refuse, Reply
<1>2. CASE RootBlocks(fs, cursor) = {}
  <2>1. fs' = fs /\ nand' = nand /\ last'.code = "Exhausted"
    BY <1>2 DEF WriteImage, Refuse, Reply
  <2>. QED BY <1>1, <2>1
<1>3. CASE RootBlocks(fs, cursor) # {}
  <2>. DEFINE block == Lowest(RootBlocks(fs, cursor))
              placed == RootMoved(fs, block)
  <2>1. block \in RootBlocks(fs, cursor)
    <3>1. RootBlocks(fs, cursor) \subseteq Nat
      <4>1. RootBlocks(fs, cursor) \subseteq Block
        BY DiskAssumption DEF RootBlocks
      <4>2. Block \subseteq Nat
        BY ShapeAssumption DEF Block
      <4>. QED BY <4>1, <4>2
    <3>. QED BY <1>3, <3>1, LowestLemma
  <2>. HIDE DEF block
  <2>2. IsBlockFree(fs, block)
    BY <2>1 DEF RootBlocks
  <2>3. /\ Good(placed) /\ placed.dir = fs.dir /\ placed.data = fs.data
        /\ placed.rootPlaced /\ RootInRange(block)
    BY <2>2, GoodRootMoved
  <2>. HIDE DEF placed
  <2>4. ~Unencodable(placed) /\ ~ChainTooShort(placed)
    BY <2>3, GoodFits
  <2>5. /\ fs' = placed /\ last'.code = "ok"
        /\ nand' = Written(placed, Cleared(nand, preserve))
    BY <1>3, <2>3, <2>4 DEF WriteImage, Refuse, Reply, RootMoved, placed, block
  <2>6. NoRoots(Cleared(nand, preserve))
    BY DEF NoRoots, Cleared, Blank
  <2>7. FilesOf(placed) = FilesOf(fs)
    BY <2>3, SameFiles
  <2>. QED BY <1>1, <2>3, <2>5, <2>6, <2>7
<1>. QED BY <1>2, <1>3

\* Opening the image gives the object a load restores.
LEMMA OpenSplit ==
  ASSUME NandInv, OpenImage
  PROVE  /\ last' = [op |-> "open", code |-> "ok", at |-> 0] /\ nand' = nand
         /\ \E st : Good(fs') /\ FilesOf(fs') = FilesOf(st) /\ written = <<FilesOf(st)>>
<1>1. Roots # {} /\ nand' = nand
  BY DEF OpenImage
<1>2. PICK st, cells : HoldsImage(st, cells)
  BY <1>1 DEF NandInv
<1>3. Roots = {RootFirst(st)} /\ RootFirst(st) \in Cluster
  BY <1>2, OneRoot DEF HoldsImage
<1>4. Lowest(Roots) = RootFirst(st)
  BY <1>3, LowCluster, LowestLemma
<1>5. Loaded(RootFirst(st)) = [code |-> "ok", fs |-> Restored(st)]
  BY <1>2, OpenWritten DEF HoldsImage
<1>6. fs' = Restored(st) /\ last' = [op |-> "open", code |-> "ok", at |-> 0]
  BY <1>4, <1>5 DEF OpenImage, Reply
<1>7. Good(Restored(st)) /\ FilesOf(Restored(st)) = FilesOf(st)
  BY <1>2, RestoredGood DEF HoldsImage, Good
<1>. QED BY <1>1, <1>2, <1>6, <1>7 DEF HoldsImage

\* Every step keeps the invariant and is one of the saved store, or a stutter.
LEMMA DiskStep ==
  ASSUME DiskInv, [SavingNext]_<<diskVars, written>>
  PROVE  DiskInv' /\ [Saved!OpenImage \/ Saved!WriteImage \/ Saved!Edit]_Saved!savedVars
<1>. DEFINE Told == last'.op = "write" => last'.code \in {"ok", "Exhausted"}
<1>1. ASSUME nand' = nand, written' = written PROVE NandInv'
  <2>1. Roots' = Roots
    BY <1>1 DEF Roots
  <2>2. CASE written = << >> /\ Roots = {}
    BY <1>1, <2>1, <2>2 DEF NandInv
  <2>3. ASSUME NEW st, NEW cells, HoldsImage(st, cells) PROVE HoldsImage(st, cells)'
    BY <1>1, <2>3 DEF HoldsImage
  <2>. QED BY <2>2, <2>3 DEF DiskInv, NandInv
<1>2. CASE EditInMemory /\ UNCHANGED nand /\ SavingNext
  <2>1. Good(fs') /\ Saved!StoreNext /\ last'.op # "write" /\ last'.at = 0
    BY <1>2, GoodEdit DEF DiskInv
  <2>2. written' = written
    BY <1>2, <2>1 DEF SavingNext
  <2>3. DiskInv'
    BY <1>1, <1>2, <2>1, <2>2 DEF DiskInv, WriteNeedsOnlySpace, Good
  <2>4. Saved!Edit
    BY <2>1, <2>2 DEF Saved!Edit
  <2>. QED BY <2>3, <2>4
<1>3. ASSUME NEW cursor \in CursorChoice, NEW preserve \in BOOLEAN,
             WriteImage(cursor, preserve), SavingNext
      PROVE  DiskInv' /\ (Saved!Edit \/ Saved!WriteImage)
  <2>1. last'.op = "write" /\ last'.at = 0 /\ last.at = 0
    BY <1>3, WriteSplit DEF DiskInv
  <2>2. CASE fs' = fs /\ nand' = nand /\ last'.code = "Exhausted"
    <3>1. written' = written
      BY <1>3, <2>2 DEF SavingNext
    <3>2. DiskInv'
      BY <1>1, <2>1, <2>2, <3>1 DEF DiskInv, WriteNeedsOnlySpace, Good
    <3>3. Saved!Edit
      BY <2>1, <2>2, <3>1 DEF Saved!Edit, Saved!StoreNext, Saved!Keep
    <3>. QED BY <3>2, <3>3
  <2>3. CASE /\ Good(fs') /\ fs'.rootPlaced /\ FilesOf(fs') = FilesOf(fs)
             /\ \E cells : NoRoots(cells) /\ nand' = Written(fs', cells)
             /\ last'.code = "ok"
    <3>1. written' = <<FilesOf(fs)>>
      BY <1>3, <2>1, <2>3 DEF SavingNext
    <3>2. NandInv'
      <4>1. PICK cells : NoRoots(cells) /\ nand' = Written(fs', cells)
        BY <2>3
      <4>2. PICK st : st = fs'
        OBVIOUS
      <4>3. /\ Good(st) /\ st.rootPlaced /\ NoRoots(cells)
            /\ nand' = Written(st, cells) /\ written' = <<FilesOf(st)>>
        BY <2>3, <3>1, <4>1, <4>2
      <4>4. HoldsImage(st, cells)'
        BY <4>3 DEF HoldsImage
      <4>. QED BY <4>4 DEF NandInv
    <3>3. DiskInv'
      BY <2>1, <2>3, <3>2 DEF DiskInv, WriteNeedsOnlySpace, Good
    <3>4. Saved!WriteImage
      BY <2>1, <2>3, <3>1 DEF Saved!WriteImage
    <3>. QED BY <3>3, <3>4
  <2>. QED BY <1>3, <2>2, <2>3, WriteSplit DEF DiskInv
<1>4. CASE OpenImage /\ SavingNext
  <2>1. NandInv /\ last.at = 0
    BY DEF DiskInv
  <2>2. PICK st : Good(fs') /\ FilesOf(fs') = FilesOf(st) /\ written = <<FilesOf(st)>>
    BY <1>4, <2>1, OpenSplit
  <2>3. last' = [op |-> "open", code |-> "ok", at |-> 0] /\ nand' = nand
    BY <1>4, <2>1, OpenSplit
  <2>4. written' = written
    BY <1>4, <2>3 DEF SavingNext
  <2>5. DiskInv'
    BY <1>1, <2>2, <2>3, <2>4 DEF DiskInv, WriteNeedsOnlySpace, Good
  <2>6. Saved!OpenImage
    BY <2>1, <2>2, <2>3, <2>4 DEF Saved!OpenImage
  <2>. QED BY <2>5, <2>6
<1>5. CASE UNCHANGED <<diskVars, written>>
  <2>1. fs' = fs /\ last' = last /\ nand' = nand /\ written' = written
    BY <1>5 DEF diskVars
  <2>2. DiskInv'
    BY <1>1, <2>1 DEF DiskInv, WriteNeedsOnlySpace, Good
  <2>. QED BY <2>1, <2>2 DEF Saved!savedVars
<1>6. CASE SavingNext
  <2>1. DiskNext
    BY <1>6 DEF SavingNext
  <2>. QED BY <1>2, <1>3, <1>4, <1>6, <2>1 DEF DiskNext
<1>. QED BY <1>5, <1>6

LEMMA DiskInvAlways == SavingSpec => []DiskInv
<1>1. DiskInv /\ [SavingNext]_<<diskVars, written>> => DiskInv'
  BY DiskStep
<1>. QED BY <1>1, DiskInitInv, PTL DEF SavingSpec

-----------------------------------------------------------------------------
(***************************************************************************)
(* The theorems.                                                           *)
(***************************************************************************)

\* Two files of a good object share no cluster, and no file runs into a link a
\* load made of a withheld cluster.
LEMMA GoodIsApart ==
  ASSUME Good(fs)
  PROVE  OpenedFilesApart
<1>1. PICK m : Hides(m, fs) /\ Kept(m)
  BY DEF Good
<1>2. Sound(m) /\ Listed(fs) = Listed(m) /\ \A i \in Listed(m) : ChainOf(fs, i) = ChainOf(m, i)
  BY <1>1, HiddenChains DEF Kept
<1>3. ApartIn(fs)
  BY <1>2 DEF Sound, ApartIn
<1>4. ASSUME NEW c \in Cluster
      PROVE  HoldsFile(fs, c) <=> \/ HoldsFile(m, c) \/ fs.map[c] = BaseCluster
  <2>1. m.map[c] = fs.map[c] \/ fs.map[c] = BaseCluster
    BY <1>1, HiddenMap
  <2>2. fs.map[c] = BaseCluster => HoldsFile(fs, c)
    BY BaseIsCluster, LowCluster DEF HoldsFile
  <2>3. fs.map[c] # BaseCluster => m.map[c] = fs.map[c]
    BY <2>1
  <2>4. m.map[c] # fs.map[c] => fs.map[c] = BaseCluster
    BY <2>1
  <2>. QED BY <2>2, <2>3, <2>4 DEF HoldsFile
<1>5. ASSUME NEW i \in Listed(m), NEW c \in ChainOf(m, i) PROVE fs.map[c] # BaseCluster
  <2>1. c \in Cluster /\ fs.map[c] = m.map[c] /\ m.map[c] # Reserved /\ c >= BaseCluster
    BY <1>1, HiddenChains, LowCluster, FourValues
  <2>. QED BY <1>1, <2>1 DEF Hides, Phantom
<1>6. \A c \in Cluster : HoldsFile(m, c) <=> \E i \in Listed(m) : c \in ChainOf(m, i)
  BY <1>2 DEF Sound, AccountedIn
<1>. QED BY <1>2, <1>3, <1>4, <1>5, <1>6 DEF OpenedFilesApart

\* The table of an image survives being opened and encoded again, and no file
\* of an opened filesystem meets another.
THEOREM TablesAreStable == SavingSpec => []TableStable
<1>1. DiskInv => TableStable
  <2>. SUFFICES ASSUME DiskInv PROVE TableStable
    OBVIOUS
  <2>1. OpenedFilesApart
    BY GoodIsApart DEF DiskInv
  <2>2. CASE Roots = {}
    BY <2>1, <2>2 DEF TableStable
  <2>3. ASSUME NEW st, NEW cells, HoldsImage(st, cells) PROVE TableStable
    <3>1. /\ Roots = {RootFirst(st)} /\ RootFirst(st) \in Cluster
          /\ nand[RootFirst(st)] = RootTable(Encoded(st), EncodedDir(st))
      BY <2>3, OneRoot DEF HoldsImage
    <3>2. Lowest(Roots) = RootFirst(st)
      BY <3>1, LowCluster, LowestLemma
    <3>3. /\ Loaded(RootFirst(st)) = [code |-> "ok", fs |-> Restored(st)]
          /\ Encoded(Restored(st)) = Encoded(st) /\ EncodedDir(Restored(st)) = EncodedDir(st)
      BY <2>3, OpenWritten DEF HoldsImage
    <3>4. RootTable(Encoded(st), EncodedDir(st)).table = Encoded(st)
          /\ RootTable(Encoded(st), EncodedDir(st)).dir = EncodedDir(st)
      BY DEF RootTable
    <3>. QED BY <2>1, <3>1, <3>2, <3>3, <3>4 DEF TableStable
  <2>. QED BY <2>2, <2>3 DEF DiskInv, NandInv
<1>. QED BY <1>1, DiskInvAlways, PTL

\* A write fails for want of a free block and for nothing else.
THEOREM WritesNeedOnlySpace == SavingSpec => []WriteNeedsOnlySpace
<1>1. DiskInv => WriteNeedsOnlySpace
  BY DEF DiskInv
<1>. QED BY <1>1, DiskInvAlways, PTL

\* The filesystem on the NAND implements the saved store: opening the image
\* gives back the files it was last written with, however memory changed since.
THEOREM ImageSavesTheStore == SavingSpec => ImplementsSavedStore
<1>1. SavingInit => Saved!SavedInit
  BY DiskInitInv
<1>2. DiskInv /\ [SavingNext]_<<diskVars, written>>
        => [Saved!OpenImage \/ Saved!WriteImage \/ Saved!Edit]_Saved!savedVars
  BY DiskStep
<1>. QED BY <1>1, <1>2, DiskInvAlways, PTL DEF SavingSpec, ImplementsSavedStore, Saved!SavedSpec

=============================================================================
