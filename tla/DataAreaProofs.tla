--------------------------- MODULE DataAreaProofs ---------------------------
(***************************************************************************)
(* Proofs about the data area, for every number and size of blocks, every  *)
(* set of settings and every bound on the console.                         *)
(*                                                                         *)
(* AreaInv says what the stamps are at any time: the newest copy of every  *)
(* kind lies whole on a good block, and every other stamp of its kind is   *)
(* of a lower version or has more left behind it; the newest root outranks *)
(* the others.  A scan then ends with that copy (by induction over the     *)
(* pages), and a parse with that root.  A console keeps AreaInv because a  *)
(* copy put behind another leaves less; a write keeps it because the       *)
(* stages leave one copy of each kind and one root (by induction over the  *)
(* kinds laid).                                                            *)
(***************************************************************************)
EXTENDS DataArea, TLAPS, WellFoundedInduction, FiniteSetTheorems,
        SequenceTheorems

-----------------------------------------------------------------------------
(***************************************************************************)
(* The inductive invariant.                                                *)
(***************************************************************************)

Stamp == [type : Kind \cup {"none", "root"}, seq : Int, free : Int, size : Nat]
Table == [files : SUBSET Block, held : SUBSET Block, unnamed : SUBSET Block]

StampsOK(s) == s \in [Page -> Stamp]
CellsOK(s)  == s = [pg \in Page |-> s[pg]]
TablesOK(t) == t \in [Block -> Table]
HomesOK(h)  == h \in [Kind -> [blob : Content \cup {Absent}, block : Block, version : Int]]

AreaOK ==
  /\ StampsOK(stamp) /\ CellsOK(body) /\ TablesOK(table) /\ HomesOK(home)
  /\ bad \subseteq Block
  /\ current \in [files : SUBSET Block, held : SUBSET Block, unnamed : SUBSET Block,
                  version : Int, root : SUBSET Block]

\* A copy starts where a slot does, and states what is left behind it.
Aligned(first)     == Big => (first - 1) % SlotPages = 0
LeftOver(first, c) ==
  LET left == PagesPerBlock - (first - 1) - UsedPages(c)
  IN  IF Big THEN left \div SlotPages ELSE left

\* A block that holds a copy starts with one.
CopiesFromFirst(s) == \A pg \in Page : s[pg].type \in Kind => s[<<pg[1], 1>>].type \in Kind

\* Blob c as the copy of kind k at page first of block b, of version seq.
CopyAt(s, cells, k, c, b, first, seq) ==
  /\ c \in Content /\ b \in Block
  /\ first \in 1 .. PagesPerBlock /\ first + Pages[c] - 1 =< PagesPerBlock
  /\ Aligned(first)
  /\ \A p \in first .. first + Pages[c] - 1 :
       /\ s[<<b, p>>] = [type |-> k, seq |-> seq, free |-> LeftOver(first, c), size |-> Pages[c]]
       /\ cells[<<b, p>>] = <<c, p - first + 1>>

\* Every other copy of k is of a lower version, or has more left behind it.
OthersOlder(s, k, c, b, first, seq) ==
  \A pg \in Page : s[pg].type = k =>
    \/ pg[1] = b /\ pg[2] \in first .. first + Pages[c] - 1
    \/ s[pg].seq < seq
    \/ s[pg].seq = seq /\ s[pg].free > LeftOver(first, c)

\* The newest copy of k lies whole where home says, and nothing outranks it.
KindHome(s, cells, badBlocks, k, h) ==
  \/ h.blob = Absent /\ \A pg \in Page : s[pg].type # k
  \/ /\ h.block \notin badBlocks
     /\ \E first \in 1 .. PagesPerBlock :
          /\ CopyAt(s, cells, k, h.blob, h.block, first, h.version)
          /\ OthersOlder(s, k, h.blob, h.block, first, h.version)

HomesKept == \A k \in Kind : KindHome(stamp, body, bad, k, home[k])

\* No root is stamped, or the newest one holds the current filesystem.
RootHome(s, t, badBlocks, fs) ==
  \/ /\ fs = Filesystem(NoTable, 0, {})
     /\ \A pg \in Page : s[pg].type # "root"
  \/ \E r \in Block :
       /\ fs.root = {r} /\ r \notin badBlocks /\ fs.version >= 1
       /\ s[<<r, 1>>].type = "root" /\ s[<<r, 1>>].seq = fs.version
       /\ t[r] = [files |-> fs.files, held |-> fs.held, unnamed |-> fs.unnamed]
       /\ \A b \in Block : s[<<b, 1>>].type = "root" /\ b # r => s[<<b, 1>>].seq < fs.version

RootKept == RootHome(stamp, table, bad, current)

AreaInv == AreaOK /\ CopiesFromFirst(stamp) /\ HomesKept /\ RootKept /\ BlocksApart

\* No file lies on a bad block, where blocks do not wear out under files.
FilesGood == current.files \cap bad = {}
-----------------------------------------------------------------------------
(***************************************************************************)
(* Naturals, quotients and slots.                                          *)
(***************************************************************************)

\* A nonempty set of naturals has a least element.
LEMMA NatLeast ==
  ASSUME NEW T, T \subseteq Nat, T # {}
  PROVE  \E x \in T : \A y \in T : x =< y
<1>1. PICK x \in T : \A y \in T : <<y, x>> \notin OpToRel(<, Nat)
  BY NatLessThanWellFounded, WFMin
<1>2. \A y \in T : ~(y < x)
  BY <1>1 DEF OpToRel
<1>. QED BY <1>2

\* A set that holds 0 and the successor of each of its naturals holds them all.
LEMMA NatInductionOnSets ==
  ASSUME NEW S, 0 \in S, \A n \in Nat : n \in S => n + 1 \in S
  PROVE  Nat \subseteq S
<1>. DEFINE T == Nat \ S
<1>1. SUFFICES ASSUME T # {} PROVE FALSE
  OBVIOUS
<1>2. PICK x \in T : \A y \in T : x =< y
  BY <1>1, NatLeast
<1>3. x # 0 /\ x - 1 \in Nat /\ x - 1 \notin T
  BY <1>2
<1>. QED BY <1>2, <1>3

\* Lowest picks the least element.
LEMMA LowestLemma ==
  ASSUME NEW T, T \subseteq Nat, T # {}
  PROVE  Lowest(T) \in T /\ \A d \in T : Lowest(T) =< d
<1>1. \E c \in T : \A d \in T : c =< d
  BY NatLeast
<1>. QED BY <1>1 DEF Lowest

\* A quotient is known from any division with a remainder below the divisor.
LEMMA Quotient ==
  ASSUME NEW d \in Nat \ {0}, NEW q \in Int, NEW r \in 0 .. d - 1, NEW n \in Int,
         n = q * d + r
  PROVE  n \div d = q /\ n % d = r
<1>. DEFINE q2 == n \div d
            r2 == n % d
<1>1. q2 \in Int /\ r2 \in 0 .. d - 1 /\ n = d * q2 + r2
  OBVIOUS
<1>. HIDE DEF q2, r2
<1>2. d * (q - q2) = r2 - r
  BY <1>1
<1>3. ~(q - q2 >= 1)
  <2>. SUFFICES ASSUME q - q2 >= 1 PROVE FALSE
    OBVIOUS
  <2>1. d * (q - q2) >= d * 1
    BY <1>1
  <2>. QED BY <2>1, <1>1, <1>2
<1>4. ~(q - q2 =< -1)
  <2>. SUFFICES ASSUME q - q2 =< -1 PROVE FALSE
    OBVIOUS
  <2>1. d * (q - q2) =< d * (-1)
    BY <1>1
  <2>. QED BY <2>1, <1>1, <1>2
<1>5. q = q2
  BY <1>1, <1>3, <1>4
<1>6. r = r2
  BY <1>1, <1>2, <1>5
<1>. QED BY <1>5, <1>6 DEF q2, r2

\* Every number has a quotient and a remainder.
LEMMA Division ==
  ASSUME NEW d \in Nat \ {0}, NEW n \in Int
  PROVE  /\ n \div d \in Int /\ n % d \in 0 .. d - 1
         /\ n = (n \div d) * d + (n % d)
OBVIOUS

\* The erase block's and the area's sizes.
LEMMA Sizes ==
  /\ PagesPerBlock \in Nat \ {0} /\ SlotPages \in Nat \ {0} /\ SlotPages =< PagesPerBlock
  /\ NumBlocks \in Nat /\ DataBase \in Nat /\ DataLimit \in Nat
  /\ DataBase < DataLimit /\ DataLimit =< NumBlocks
  /\ \A c \in Content : Pages[c] \in Nat /\ 1 =< Pages[c] /\ Pages[c] =< PagesPerBlock
BY AreaAssumption

\* On big block, a whole number of slots.
Whole(n) == Big => n % SlotPages = 0

LEMMA WholeIsMultiple ==
  ASSUME Big, NEW n \in Int
  PROVE  Whole(n) <=> \E q \in Int : n = q * SlotPages
<1>1. n = (n \div SlotPages) * SlotPages + (n % SlotPages) /\ n \div SlotPages \in Int
      /\ n % SlotPages \in Int
  BY Sizes, Division
<1>2. ASSUME Whole(n) PROVE \E q \in Int : n = q * SlotPages
  <2>1. n = (n \div SlotPages) * SlotPages
    BY <1>1, <1>2, Sizes DEF Whole
  <2>. QED BY <2>1, <1>1
<1>3. ASSUME NEW q \in Int, n = q * SlotPages PROVE Whole(n)
  <2>1. 0 \in 0 .. SlotPages - 1 /\ n = q * SlotPages + 0
    BY Sizes, <1>3
  <2>. QED BY <2>1, Quotient, Sizes DEF Whole
<1>. QED BY <1>2, <1>3

LEMMA WholeSums ==
  ASSUME NEW m \in Int, NEW n \in Int, Whole(m), Whole(n)
  PROVE  Whole(m + n) /\ Whole(m - n)
<1>1. CASE ~Big
  BY <1>1 DEF Whole
<1>2. CASE Big
  <2>1. PICK q \in Int : m = q * SlotPages
    BY <1>2, WholeIsMultiple
  <2>2. PICK r \in Int : n = r * SlotPages
    BY <1>2, WholeIsMultiple
  <2>3. m + n = (q + r) * SlotPages /\ m - n = (q - r) * SlotPages
    BY <2>1, <2>2, Sizes
  <2>4. m + n \in Int /\ m - n \in Int /\ q + r \in Int /\ q - r \in Int
    OBVIOUS
  <2>. QED BY <2>3, <2>4, <1>2, WholeIsMultiple
<1>. QED BY <1>1, <1>2

LEMMA WholeEnds == Whole(0) /\ Whole(PagesPerBlock)
<1>1. Whole(0)
  <2>1. CASE ~Big
    BY <2>1 DEF Whole
  <2>2. CASE Big
    <3>1. 0 = 0 * SlotPages
      BY Sizes
    <3>. QED BY <3>1, <2>2, WholeIsMultiple
  <2>. QED BY <2>1, <2>2
<1>. QED BY <1>1, AreaAssumption DEF Whole

\* A whole number of slots above no page is at least one.
LEMMA WholeAboveNothing ==
  ASSUME Big, NEW n \in Int, Whole(n), n > 0
  PROVE  n >= SlotPages
<1>1. PICK q \in Int : n = q * SlotPages
  BY WholeIsMultiple
<1>2. ~(q =< 0)
  BY <1>1, Sizes
<1>3. q * SlotPages >= 1 * SlotPages
  BY <1>2, Sizes
<1>. QED BY <1>1, <1>3, Sizes

\* RoundUp is the least whole number of slots that holds n pages.
LEMMA RoundUpFacts ==
  ASSUME Big, NEW n \in Nat
  PROVE  /\ RoundUp(n) \in Nat /\ n =< RoundUp(n) /\ Whole(RoundUp(n))
         /\ \A m \in Int : Whole(m) /\ n =< m => RoundUp(n) =< m
<1>. DEFINE q == (n + SlotPages - 1) \div SlotPages
            r == (n + SlotPages - 1) % SlotPages
<1>0. SlotPages \in Nat \ {0} /\ n + SlotPages - 1 \in Int
  BY Sizes
<1>1. q \in Int /\ r \in 0 .. SlotPages - 1 /\ n + SlotPages - 1 = q * SlotPages + r
  BY <1>0, Division
<1>2. RoundUp(n) = q * SlotPages
  BY DEF RoundUp
<1>. HIDE DEF q, r
<1>3. RoundUp(n) \in Int /\ n =< RoundUp(n) /\ RoundUp(n) < n + SlotPages
  BY <1>1, <1>2, Sizes
<1>4. Whole(RoundUp(n))
  BY <1>1, <1>2, <1>3, WholeIsMultiple
<1>5. ASSUME NEW m \in Int, Whole(m), n =< m, ~(RoundUp(n) =< m) PROVE FALSE
  <2>. DEFINE R == RoundUp(n)
  <2>0. R \in Int /\ Whole(R)
    BY <1>3, <1>4
  <2>. HIDE DEF R
  <2>1. Whole(R - m) /\ R - m \in Int
    BY <2>0, <1>5, WholeSums
  <2>. USE DEF R
  <2>2. RoundUp(n) - m >= SlotPages
    BY <2>1, <1>5, <1>3, WholeAboveNothing
  <2>. QED BY <2>2, <1>3, <1>5, Sizes
<1>. QED BY <1>3, <1>4, <1>5

\* The pages a blob takes up.
LEMMA UsedFacts ==
  ASSUME NEW c \in Content
  PROVE  /\ UsedPages(c) \in Nat /\ 1 =< UsedPages(c) /\ Pages[c] =< UsedPages(c)
         /\ UsedPages(c) =< PagesPerBlock /\ Whole(UsedPages(c))
         /\ Big => UsedPages(c) >= SlotPages
         /\ \A m \in Int : Whole(m) /\ Pages[c] =< m => UsedPages(c) =< m
<1>1. CASE ~Big
  BY <1>1, Sizes DEF UsedPages, Whole
<1>2. CASE Big
  <2>1. UsedPages(c) = RoundUp(Pages[c])
    BY <1>2 DEF UsedPages
  <2>2. /\ UsedPages(c) \in Nat /\ Pages[c] =< UsedPages(c) /\ Whole(UsedPages(c))
        /\ \A m \in Int : Whole(m) /\ Pages[c] =< m => UsedPages(c) =< m
    BY <1>2, <2>1, Sizes, RoundUpFacts
  <2>3. UsedPages(c) =< PagesPerBlock
    BY <2>2, Sizes, WholeEnds
  <2>4. UsedPages(c) >= SlotPages
    BY <2>2, <1>2, Sizes, WholeAboveNothing
  <2>. QED BY <2>2, <2>3, <2>4, Sizes
<1>. QED BY <1>1, <1>2

\* A blob behind another in a block leaves less.
LEMMA LeavesLess ==
  ASSUME NEW c \in Content, NEW d \in Content, NEW first \in Int, NEW next \in Int,
         first - 1 + UsedPages(c) =< next - 1
  PROVE  LeftOver(next, d) < LeftOver(first, c) /\ LeftOver(next, d) \in Int
         /\ LeftOver(first, c) \in Int
<1>. DEFINE x == PagesPerBlock - (first - 1) - UsedPages(c)
            y == PagesPerBlock - (next - 1) - UsedPages(d)
<1>1. x \in Int /\ y \in Int /\ y =< x - UsedPages(d)
  BY UsedFacts, Sizes
<1>2. CASE ~Big
  <2>1. LeftOver(next, d) = y /\ LeftOver(first, c) = x
    BY <1>2 DEF LeftOver
  <2>. QED BY <2>1, <1>1, UsedFacts
<1>3. CASE Big
  <2>. DEFINE u == x \div SlotPages
              v == y \div SlotPages
  <2>1. LeftOver(next, d) = v /\ LeftOver(first, c) = u
    BY <1>3 DEF LeftOver
  <2>. HIDE DEF x, y
  <2>0. SlotPages \in Nat \ {0} /\ x \in Int /\ y \in Int
    BY <1>1, Sizes
  <2>2. u \in Int /\ x % SlotPages \in 0 .. SlotPages - 1 /\ x = u * SlotPages + (x % SlotPages)
    BY <2>0
  <2>3. v \in Int /\ y % SlotPages \in 0 .. SlotPages - 1 /\ y = v * SlotPages + (y % SlotPages)
    BY <2>0
  <2>4. y =< x - SlotPages
    BY <1>1, <1>3, UsedFacts, Sizes
  <2>. HIDE DEF u, v
  <2>5. ~(v >= u)
    <3>. SUFFICES ASSUME v >= u PROVE FALSE
      OBVIOUS
    <3>1. v * SlotPages >= u * SlotPages
      BY <2>0, <2>2, <2>3
    <3>. DEFINE vs == v * SlotPages
                us == u * SlotPages
                xr == x % SlotPages
                yr == y % SlotPages
    <3>2. /\ vs \in Int /\ us \in Int /\ vs >= us
          /\ xr \in 0 .. SlotPages - 1 /\ yr \in 0 .. SlotPages - 1
      BY <3>1, <2>0, <2>2, <2>3
    <3>3. x = us + xr
      BY <2>2
    <3>4. y = vs + yr
      BY <2>3
    <3>. HIDE DEF vs, us, xr, yr
    <3>. QED BY <3>2, <3>3, <3>4, <2>0, <2>4
  <2>. QED BY <2>1, <2>2, <2>3, <2>5
<1>. QED BY <1>2, <1>3

LEMMA LeftOverInt ==
  ASSUME NEW c \in Content, NEW first \in Int
  PROVE  LeftOver(first, c) \in Int
<1>. DEFINE next == first + UsedPages(c)
<1>1. next \in Int /\ first - 1 + UsedPages(c) =< next - 1
  BY UsedFacts
<1>. HIDE DEF next
<1>. QED BY <1>1, LeavesLess

\* The pages counted in the order the scan reads them.
LEMMA PageNumbers ==
  /\ NumBlocks * PagesPerBlock \in Nat
  /\ \A b \in Block, p \in 1 .. PagesPerBlock :
       /\ b * PagesPerBlock + p - 1 \in Nat
       /\ b * PagesPerBlock + p - 1 < NumBlocks * PagesPerBlock
       /\ PageAt(b * PagesPerBlock + p - 1) = <<b, p>>
  /\ \A n \in Nat : n < NumBlocks * PagesPerBlock =>
       /\ PageAt(n) \in Page
       /\ n = PageAt(n)[1] * PagesPerBlock + PageAt(n)[2] - 1
<1>1. NumBlocks * PagesPerBlock \in Nat
  BY Sizes
<1>2. ASSUME NEW b \in Block, NEW p \in 1 .. PagesPerBlock
      PROVE  /\ b * PagesPerBlock + p - 1 \in Nat
             /\ b * PagesPerBlock + p - 1 < NumBlocks * PagesPerBlock
             /\ PageAt(b * PagesPerBlock + p - 1) = <<b, p>>
  <2>1. b \in Nat /\ b + 1 =< NumBlocks /\ p - 1 \in 0 .. PagesPerBlock - 1
    BY Sizes DEF Block
  <2>2. b * PagesPerBlock \in Nat /\ (b + 1) * PagesPerBlock =< NumBlocks * PagesPerBlock
    BY <2>1, Sizes
  <2>3. (b + 1) * PagesPerBlock = b * PagesPerBlock + PagesPerBlock
    BY <2>1, Sizes
  <2>4. b * PagesPerBlock + p - 1 \in Nat /\ b * PagesPerBlock + p - 1 < NumBlocks * PagesPerBlock
    BY <2>1, <2>2, <2>3, Sizes
  <2>5. b * PagesPerBlock + p - 1 = b * PagesPerBlock + (p - 1)
    BY <2>1, <2>2
  <2>6. /\ (b * PagesPerBlock + p - 1) \div PagesPerBlock = b
        /\ (b * PagesPerBlock + p - 1) % PagesPerBlock = p - 1
    <3>. DEFINE n == b * PagesPerBlock + p - 1
                t == p - 1
    <3>1. n \in Int /\ n = b * PagesPerBlock + t /\ t \in 0 .. PagesPerBlock - 1 /\ b \in Int
      BY <2>1, <2>4, <2>5
    <3>2. PagesPerBlock \in Nat \ {0}
      BY Sizes
    <3>. HIDE DEF n, t
    <3>3. n \div PagesPerBlock = b /\ n % PagesPerBlock = t
      BY <3>1, <3>2, Quotient
    <3>. QED BY <3>3 DEF n, t
  <2>. QED BY <2>4, <2>6 DEF PageAt
<1>3. ASSUME NEW n \in Nat, n < NumBlocks * PagesPerBlock
      PROVE  /\ PageAt(n) \in Page
             /\ n = PageAt(n)[1] * PagesPerBlock + PageAt(n)[2] - 1
  <2>. DEFINE q == n \div PagesPerBlock
              r == n % PagesPerBlock
  <2>1. q \in Int /\ r \in 0 .. PagesPerBlock - 1 /\ n = q * PagesPerBlock + r
    BY Sizes, Division
  <2>2. PageAt(n) = <<q, r + 1>>
    BY DEF PageAt
  <2>. HIDE DEF q, r
  <2>3. ~(q < 0)
    <3>. SUFFICES ASSUME q =< -1 PROVE FALSE
      BY <2>1
    <3>1. q * PagesPerBlock =< (-1) * PagesPerBlock
      BY <2>1, Sizes
    <3>. QED BY <3>1, <2>1, Sizes
  <2>4. ~(q >= NumBlocks)
    <3>. SUFFICES ASSUME q >= NumBlocks PROVE FALSE
      OBVIOUS
    <3>1. q * PagesPerBlock >= NumBlocks * PagesPerBlock
      BY <2>1, Sizes
    <3>. QED BY <3>1, <2>1, <1>1, <1>3, Sizes
  <2>5. q \in Block /\ r + 1 \in 1 .. PagesPerBlock
    BY <2>1, <2>3, <2>4, Sizes DEF Block
  <2>. QED BY <2>1, <2>2, <2>5 DEF Page
<1>. QED BY <1>1, <1>2, <1>3

-----------------------------------------------------------------------------
(***************************************************************************)
(* The scan finds the newest copy.                                         *)
(***************************************************************************)

AllPages == NumBlocks * PagesPerBlock

\* The scan goes page by page.
LEMMA ScanWalk ==
  ASSUME NEW s, NEW badBlocks, NEW k
  PROVE  \E f : /\ f[0] = NoCopy
                /\ \A n \in Nat : n + 1 =< AllPages =>
                     f[n + 1] = CopyAfter(f[n], s, badBlocks, k, n)
                /\ LiveCopy(s, badBlocks, k) = f[AllPages]
<1>. DEFINE Rec(f, n) == f = [i \in 0 .. n |-> IF i = 0 THEN NoCopy
                                ELSE CopyAfter(f[i - 1], s, badBlocks, k, i - 1)]
            T == {n \in Nat : \E f : Rec(f, n)}
<1>0. AllPages \in Nat
  BY PageNumbers DEF AllPages
<1>1. 0 \in T
  <2>. DEFINE f0 == [i \in 0 .. 0 |-> NoCopy]
  <2>1. f0 = [i \in 0 .. 0 |-> IF i = 0 THEN NoCopy
                 ELSE CopyAfter(f0[i - 1], s, badBlocks, k, i - 1)]
    OBVIOUS
  <2>. QED BY <2>1
<1>2. ASSUME NEW n \in Nat, n \in T PROVE n + 1 \in T
  <2>1. PICK f : Rec(f, n)
    BY <1>2
  <2>. DEFINE g == [i \in 0 .. n + 1 |-> IF i =< n THEN f[i]
                      ELSE CopyAfter(f[n], s, badBlocks, k, n)]
  <2>2. \A i \in 0 .. n : g[i] = f[i]
    OBVIOUS
  <2>3. \A i \in 0 .. n + 1 : g[i] = IF i = 0 THEN NoCopy
                                     ELSE CopyAfter(g[i - 1], s, badBlocks, k, i - 1)
    <3>. TAKE i \in 0 .. n + 1
    <3>1. CASE i = 0
      BY <2>1, <2>2, <3>1
    <3>2. CASE i # 0 /\ i =< n
      BY <2>1, <2>2, <3>2
    <3>3. CASE i = n + 1
      BY <2>2, <3>3
    <3>. QED BY <3>1, <3>2, <3>3
  <2>4. \E h : Rec(h, n + 1)
    <3>1. Rec(g, n + 1)
      BY <2>3
    <3>. HIDE DEF g
    <3>. QED BY <3>1
  <2>. HIDE DEF Rec
  <2>. QED BY <2>4
<1>3. AllPages \in T
  <2>. HIDE DEF T
  <2>. QED BY <1>0, <1>1, <1>2, NatInductionOnSets
<1>. DEFINE F == CHOOSE f : f = [i \in 0 .. AllPages |-> IF i = 0 THEN NoCopy
                                ELSE CopyAfter(f[i - 1], s, badBlocks, k, i - 1)]
<1>4. F = [i \in 0 .. AllPages |-> IF i = 0 THEN NoCopy
                ELSE CopyAfter(F[i - 1], s, badBlocks, k, i - 1)]
  <2>1. \E f : Rec(f, AllPages)
    <3>. HIDE DEF Rec
    <3>. QED BY <1>3
  <2>. QED BY <2>1
<1>5. LiveCopy(s, badBlocks, k) = F[AllPages]
  BY DEF LiveCopy, AllPages
<1>. HIDE DEF F
<1>6. F[0] = NoCopy
  BY <1>4, <1>0
<1>7. ASSUME NEW n \in Nat, n + 1 =< AllPages
      PROVE  F[n + 1] = CopyAfter(F[n], s, badBlocks, k, n)
  <2>1. n + 1 \in 0 .. AllPages /\ n + 1 # 0 /\ (n + 1) - 1 = n
    BY <1>7, <1>0
  <2>2. F[n + 1] = IF n + 1 = 0 THEN NoCopy
                   ELSE CopyAfter(F[(n + 1) - 1], s, badBlocks, k, (n + 1) - 1)
    BY <1>4, <2>1
  <2>. QED BY <2>1, <2>2
<1>. QED BY <1>5, <1>6, <1>7

\* A kind without a stamp has no copy.
LEMMA NoneIsFound ==
  ASSUME NEW s, NEW badBlocks, NEW k, \A pg \in Page : s[pg].type # k
  PROVE  LiveCopy(s, badBlocks, k) = NoCopy
<1>1. PICK f : /\ f[0] = NoCopy
               /\ \A n \in Nat : n + 1 =< AllPages =>
                    f[n + 1] = CopyAfter(f[n], s, badBlocks, k, n)
               /\ LiveCopy(s, badBlocks, k) = f[AllPages]
  BY ScanWalk
<1>. DEFINE S == {n \in Nat : n =< AllPages => f[n] = NoCopy}
<1>2. 0 \in S
  BY <1>1
<1>3. ASSUME NEW n \in Nat, n \in S PROVE n + 1 \in S
  <2>. SUFFICES ASSUME n + 1 =< AllPages PROVE f[n + 1] = NoCopy
    OBVIOUS
  <2>0. AllPages \in Nat
    BY PageNumbers DEF AllPages
  <2>1. n < AllPages /\ n =< AllPages
    BY <2>0
  <2>2. PageAt(n) \in Page
    BY <2>1, PageNumbers DEF AllPages
  <2>3. CopyAfter(NoCopy, s, badBlocks, k, n) = NoCopy
    BY <2>2 DEF CopyAfter
  <2>. QED BY <2>1, <2>3, <1>1, <1>3
<1>4. AllPages \in S
  <2>. HIDE DEF S
  <2>. QED BY <1>2, <1>3, NatInductionOnSets, PageNumbers DEF AllPages
<1>. QED BY <1>1, <1>4, PageNumbers DEF AllPages

Copy == [found : BOOLEAN, seq : Int, free : Int, first : Int, count : Int, size : Nat]

\* What a page does to the copy found so far.
LEMMA CopyAfterKeeps ==
  ASSUME NEW s, StampsOK(s), NEW badBlocks, NEW k, NEW copy \in Copy, NEW n \in Nat, n < AllPages
  PROVE  /\ CopyAfter(copy, s, badBlocks, k, n) \in Copy
         /\ \/ CopyAfter(copy, s, badBlocks, k, n) = copy
            \/ CopyAfter(copy, s, badBlocks, k, n) = [copy EXCEPT !.count = @ + 1]
            \/ CopyAfter(copy, s, badBlocks, k, n) =
                 [found |-> TRUE, seq |-> s[PageAt(n)].seq, free |-> s[PageAt(n)].free,
                  first |-> n, count |-> 1, size |-> s[PageAt(n)].size]
<1>1. PageAt(n) \in Page
  BY PageNumbers DEF AllPages
<1>. DEFINE spare == s[PageAt(n)]
<1>2. spare \in Stamp
  BY <1>1 DEF StampsOK
<1>3. spare.seq \in Int /\ spare.free \in Int /\ spare.size \in Nat
  BY <1>2 DEF Stamp
<1>4. [copy EXCEPT !.count = @ + 1] \in Copy
  BY DEF Copy
<1>5. [found |-> TRUE, seq |-> spare.seq, free |-> spare.free,
       first |-> n, count |-> 1, size |-> spare.size] \in Copy
  BY <1>3 DEF Copy
<1>. QED BY <1>4, <1>5 DEF CopyAfter

\* A copy or a stamp that the newest copy outranks.
Trails(x, seq, free) == x.seq < seq \/ (x.seq = seq /\ x.free > free)

\* The number of page first of block b.
PageNumber(b, first) == b * PagesPerBlock + first - 1

\* The scan ends with the newest copy, from its first page on.
LEMMA NewestIsFound ==
  ASSUME NEW s, StampsOK(s), NEW cells, NEW badBlocks, NEW k \in Kind, NEW c, NEW b,
         NEW first, NEW seq \in Int, b \notin badBlocks,
         CopyAt(s, cells, k, c, b, first, seq), OthersOlder(s, k, c, b, first, seq)
  PROVE  /\ LiveCopy(s, badBlocks, k).found
         /\ LiveCopy(s, badBlocks, k).size = Pages[c]
         /\ LiveCopy(s, badBlocks, k).first = PageNumber(b, first)
<1>. DEFINE start == b * PagesPerBlock + first - 1
            len == Pages[c]
            left == LeftOver(first, c)
<1>1. /\ c \in Content /\ b \in Block /\ b \in Nat
      /\ first \in Int /\ first \in 1 .. PagesPerBlock /\ first + len - 1 =< PagesPerBlock
      /\ len \in Nat /\ 1 =< len /\ AllPages \in Nat /\ left \in Int
  BY Sizes, PageNumbers, LeftOverInt DEF CopyAt, Block, AllPages
<1>2. start \in Nat /\ start + len =< AllPages
  <2>1. first + len - 1 \in 1 .. PagesPerBlock
    BY <1>1
  <2>2. b * PagesPerBlock + (first + len - 1) - 1 < AllPages
    BY <2>1, <1>1, PageNumbers DEF AllPages
  <2>3. start \in Nat
    BY <1>1, PageNumbers
  <2>4. b * PagesPerBlock \in Int
    BY <1>1, Sizes
  <2>. DEFINE at == b * PagesPerBlock
  <2>. HIDE DEF at, len
  <2>5. at + (first + len - 1) - 1 < AllPages
    BY <2>2 DEF at
  <2>6. start = at + first - 1 /\ at \in Int
    BY <2>4 DEF at
  <2>. QED BY <1>1, <2>3, <2>5, <2>6
\* The pages of the copy.
<1>3. ASSUME NEW n \in Nat, start =< n, n < start + len
      PROVE  /\ PageAt(n)[1] = b
             /\ s[PageAt(n)] = [type |-> k, seq |-> seq, free |-> left, size |-> len]
  <2>. DEFINE p == n - start + first
              at == b * PagesPerBlock
  <2>1. p \in first .. first + len - 1 /\ p \in 1 .. PagesPerBlock /\ at \in Int
    BY <1>1, <1>2, <1>3, Sizes
  <2>2. n = at + p - 1
    <3>1. start = at + first - 1
      OBVIOUS
    <3>. HIDE DEF at, start
    <3>. QED BY <3>1, <2>1, <1>1, <1>2
  <2>3. PageAt(n) = <<b, p>>
    BY <2>1, <2>2, <1>1, PageNumbers
  <2>. HIDE DEF p, at
  <2>. QED BY <2>1, <2>3 DEF CopyAt
\* The pages of any other copy.
<1>4. ASSUME NEW n \in Nat, n < AllPages, ~(start =< n /\ n < start + len), s[PageAt(n)].type = k
      PROVE  Trails(s[PageAt(n)], seq, left)
  <2>. DEFINE pg == PageAt(n)
  <2>1. pg \in Page /\ n = pg[1] * PagesPerBlock + pg[2] - 1
    BY <1>4, PageNumbers DEF AllPages
  <2>2. ~(pg[1] = b /\ pg[2] \in first .. first + len - 1)
    <3>. SUFFICES ASSUME pg[1] = b, pg[2] \in first .. first + len - 1 PROVE FALSE
      OBVIOUS
    <3>. DEFINE at == b * PagesPerBlock
                q == pg[2]
    <3>1. at \in Int /\ q \in Int /\ first =< q /\ q =< first + len - 1
      BY <1>1, Sizes
    <3>2. n = at + q - 1
      BY <2>1
    <3>3. start = at + first - 1
      OBVIOUS
    <3>. HIDE DEF at, q, start, pg
    <3>. QED BY <3>1, <3>2, <3>3, <1>1, <1>2, <1>4
  <2>. HIDE DEF pg
  <2>3. s[pg].type = k
    BY <1>4 DEF pg
  <2>. QED BY <2>1, <2>2, <2>3 DEF OthersOlder, Trails, pg
<1>5. PICK f : /\ f[0] = NoCopy
               /\ \A n \in Nat : n + 1 =< AllPages =>
                    f[n + 1] = CopyAfter(f[n], s, badBlocks, k, n)
               /\ LiveCopy(s, badBlocks, k) = f[AllPages]
  BY ScanWalk
<1>. DEFINE Before(n) == n =< start => (f[n].found => Trails(f[n], seq, left))
            After(n)  == n > start =>
              /\ f[n].found = TRUE /\ f[n].seq = seq /\ f[n].free = left
              /\ f[n].first = start /\ f[n].size = len
              /\ n =< start + len => f[n].first + f[n].count = n
            S == {n \in Nat : n =< AllPages => f[n] \in Copy /\ Before(n) /\ After(n)}
<1>. HIDE DEF start, len, left
<1>6. 0 \in S
  <2>1. NoCopy \in Copy /\ NoCopy.found = FALSE
    BY DEF NoCopy, Copy
  <2>. QED BY <2>1, <1>5, <1>2
<1>7. ASSUME NEW n \in Nat, n \in S PROVE n + 1 \in S
  <2>. HIDE DEF Before, After
  <2>. SUFFICES ASSUME n + 1 =< AllPages
                PROVE  f[n + 1] \in Copy /\ Before(n + 1) /\ After(n + 1)
    OBVIOUS
  <2>1. n < AllPages /\ n =< AllPages
    BY <1>1
  <2>2. f[n] \in Copy /\ Before(n) /\ After(n)
    BY <1>7, <2>1
  <2>. USE DEF Before, After
  <2>. DEFINE spare == s[PageAt(n)]
              next  == CopyAfter(f[n], s, badBlocks, k, n)
  <2>3. f[n + 1] = next
    BY <1>5
  <2>4. /\ next \in Copy
        /\ \/ next = f[n]
           \/ next = [f[n] EXCEPT !.count = @ + 1]
           \/ next = [found |-> TRUE, seq |-> spare.seq, free |-> spare.free,
                      first |-> n, count |-> 1, size |-> spare.size]
    <3>. DEFINE copy == f[n]
    <3>1. copy \in Copy
      BY <2>2
    <3>. HIDE DEF copy
    <3>2. /\ CopyAfter(copy, s, badBlocks, k, n) \in Copy
          /\ \/ CopyAfter(copy, s, badBlocks, k, n) = copy
             \/ CopyAfter(copy, s, badBlocks, k, n) = [copy EXCEPT !.count = @ + 1]
             \/ CopyAfter(copy, s, badBlocks, k, n) =
                  [found |-> TRUE, seq |-> spare.seq, free |-> spare.free,
                   first |-> n, count |-> 1, size |-> spare.size]
      BY <2>1, <3>1, CopyAfterKeeps
    <3>. QED BY <3>2 DEF copy
  <2>5. CASE ~(start =< n /\ n < start + len)
    <3>1. CASE PageAt(n)[1] \in badBlocks \/ spare.type # k
      <4>1. next = f[n]
        BY <3>1 DEF CopyAfter
      <4>. QED BY <4>1, <2>2, <2>3, <2>5, <1>1, <1>2
    <3>2. CASE ~(PageAt(n)[1] \in badBlocks \/ spare.type # k)
      <4>1. Trails(spare, seq, left)
        BY <3>2, <2>1, <2>5, <1>4
      <4>2. CASE n < start
        <5>1. next.found => Trails(next, seq, left)
          <6>. HIDE DEF next
          <6>0. f[n].found => Trails(f[n], seq, left)
            BY <2>2, <4>2, <1>2
          <6>1. CASE next = f[n]
            BY <6>0, <6>1
          <6>2. CASE next = [f[n] EXCEPT !.count = @ + 1]
            <7>1. next.found = f[n].found /\ next.seq = f[n].seq /\ next.free = f[n].free
              BY <6>2, <2>2 DEF Copy
            <7>. QED BY <7>1, <2>2, <4>2, <1>2 DEF Trails
          <6>3. CASE next = [found |-> TRUE, seq |-> spare.seq, free |-> spare.free,
                             first |-> n, count |-> 1, size |-> spare.size]
            <7>1. next.seq = spare.seq /\ next.free = spare.free
              BY <6>3
            <7>. QED BY <7>1, <4>1 DEF Trails
          <6>. QED BY <2>4, <6>1, <6>2, <6>3
        <5>. QED BY <5>1, <4>2, <2>3, <2>4, <1>2
      <4>3. CASE n >= start + len
        <5>1. /\ f[n].found = TRUE /\ f[n].seq = seq /\ f[n].free = left
              /\ f[n].first = start /\ f[n].size = len
          BY <4>3, <2>2, <1>1, <1>2
        <5>2. spare \in Stamp
          BY <2>1, PageNumbers DEF StampsOK, AllPages
        <5>3. spare.seq \in Int /\ spare.free \in Int
          BY <5>2 DEF Stamp
        <5>4. ~Continues(f[n], spare, n) /\ ~Outranks(spare, f[n])
          BY <4>1, <5>1, <5>3, <1>1 DEF Continues, Outranks, Trails
        <5>5. next = f[n]
          BY <5>4 DEF CopyAfter
        <5>6. n + 1 > start + len /\ n + 1 > start
          BY <4>3, <1>1, <1>2
        <5>7. f[n + 1] = f[n] /\ f[n + 1] \in Copy
          BY <5>5, <2>2, <2>3
        <5>8. Before(n + 1) /\ After(n + 1)
          BY <5>1, <5>6, <5>7, <1>1, <1>2
        <5>. HIDE DEF Before, After
        <5>. QED BY <5>7, <5>8
      <4>4. n < start \/ n >= start + len
        BY <2>5, <1>1, <1>2
      <4>. HIDE DEF Before, After
      <4>. QED BY <4>2, <4>3, <4>4
    <3>. QED BY <3>1, <3>2
  <2>6. CASE start =< n /\ n < start + len
    <3>1. /\ PageAt(n)[1] \notin badBlocks
          /\ spare = [type |-> k, seq |-> seq, free |-> left, size |-> len]
      BY <2>6, <1>3
    <3>2. spare.type = k /\ spare.seq = seq /\ spare.free = left /\ spare.size = len
      BY <3>1
    <3>. HIDE DEF spare
    <3>3. CASE n = start
      <4>1. ~Continues(f[n], spare, n) /\ Outranks(spare, f[n])
        BY <3>2, <3>3, <2>2, <1>1 DEF Continues, Outranks, Trails, Copy
      <4>2. next = [found |-> TRUE, seq |-> seq, free |-> left,
                    first |-> n, count |-> 1, size |-> len]
        BY <4>1, <3>1, <3>2 DEF CopyAfter, spare
      <4>. HIDE DEF next
      <4>. QED BY <4>2, <3>3, <2>3, <2>4, <1>1, <1>2
    <3>4. CASE n > start
      <4>1. /\ f[n].found = TRUE /\ f[n].seq = seq /\ f[n].free = left
            /\ f[n].first = start /\ f[n].size = len /\ f[n].first + f[n].count = n
        BY <3>4, <2>2, <2>6, <1>1, <1>2
      <4>2. Continues(f[n], spare, n)
        BY <4>1, <3>2 DEF Continues
      <4>3. next = [f[n] EXCEPT !.count = @ + 1]
        BY <4>2, <3>1, <3>2 DEF CopyAfter, spare
      <4>. HIDE DEF next
      <4>4. /\ next.found = f[n].found /\ next.seq = f[n].seq /\ next.free = f[n].free
            /\ next.first = f[n].first /\ next.size = f[n].size
            /\ next.count = f[n].count + 1 /\ f[n].count \in Int
        BY <4>3, <2>2 DEF Copy
      <4>5. next.first + next.count = n + 1
        BY <4>4, <4>1, <1>2
      <4>6. n + 1 > start /\ n + 1 \in Int
        BY <3>4, <1>2
      <4>7. f[n + 1] = next /\ next \in Copy
        BY <2>3, <2>4
      <4>8. Before(n + 1) /\ After(n + 1)
        BY <4>1, <4>4, <4>5, <4>6, <4>7, <1>2
      <4>. HIDE DEF Before, After
      <4>. QED BY <4>7, <4>8
    <3>5. n = start \/ n > start
      BY <2>6, <1>2
    <3>. HIDE DEF Before, After
    <3>. QED BY <3>3, <3>4, <3>5
  <2>. QED BY <2>5, <2>6
<1>8. AllPages \in S
  <2>. HIDE DEF S
  <2>. QED BY <1>1, <1>6, <1>7, NatInductionOnSets
<1>9. After(AllPages) /\ AllPages > start
  BY <1>8, <1>1, <1>2
<1>. QED BY <1>5, <1>9 DEF start, len, PageNumber

\* The copy found is read back as its blob.
LEMMA CopyIsRead ==
  ASSUME NEW s, NEW cells, NEW k, NEW c, NEW b, NEW first, NEW seq,
         CopyAt(s, cells, k, c, b, first, seq),
         NEW copy, copy.found, copy.size = Pages[c],
         copy.first = PageNumber(b, first)
  PROVE  CopyContent(cells, copy) = c
<1>. DEFINE reads(d) == /\ Pages[d] = copy.size
                        /\ \A i \in 1 .. copy.size : cells[PageAt(copy.first + i - 1)] = <<d, i>>
            at == b * PagesPerBlock
<1>1. /\ c \in Content /\ b \in Block /\ at \in Int /\ first \in 1 .. PagesPerBlock
      /\ first + Pages[c] - 1 =< PagesPerBlock /\ Pages[c] \in Nat /\ 1 =< Pages[c]
      /\ PagesPerBlock \in Nat
  BY Sizes DEF CopyAt, Block
<1>2. ASSUME NEW i \in 1 .. Pages[c]
      PROVE  cells[PageAt(copy.first + i - 1)] = <<c, i>>
  <2>. DEFINE p == first + i - 1
  <2>1. p \in 1 .. PagesPerBlock /\ p \in first .. first + Pages[c] - 1
        /\ p - first + 1 = i
    BY <1>1, <1>2
  <2>2. copy.first + i - 1 = at + p - 1
    BY <1>1 DEF PageNumber
  <2>3. PageAt(at + p - 1) = <<b, p>>
    BY <1>1, <2>1, PageNumbers
  <2>4. cells[<<b, p>>] = <<c, p - first + 1>>
    BY <2>1 DEF CopyAt
  <2>. HIDE DEF p, at
  <2>. QED BY <2>1, <2>2, <2>3, <2>4
<1>3. reads(c)
  BY <1>2
<1>4. ASSUME NEW d \in Content, reads(d) PROVE d = c
  <2>1. 1 \in 1 .. copy.size
    BY <1>1
  <2>2. <<d, 1>> = <<c, 1>>
    BY <2>1, <1>3, <1>4
  <2>. QED BY <2>2
<1>5. CopyContent(cells, copy) = CHOOSE d \in Content : reads(d)
  <2>1. CopyContent(cells, copy) =
          IF ~copy.found THEN Absent
          ELSE IF \E d \in Content : reads(d) THEN CHOOSE d \in Content : reads(d) ELSE Mixed
    BY DEF CopyContent
  <2>. HIDE DEF reads
  <2>. QED BY <2>1, <1>1, <1>3
<1>. HIDE DEF reads
<1>6. (CHOOSE d \in Content : reads(d)) \in Content /\ reads(CHOOSE d \in Content : reads(d))
  BY <1>1, <1>3
<1>. QED BY <1>4, <1>5, <1>6

LEMMA NewestIsRead ==
  ASSUME NEW s, StampsOK(s), NEW cells, NEW badBlocks, NEW k \in Kind, NEW c, NEW b,
         NEW first, NEW seq \in Int, b \notin badBlocks,
         CopyAt(s, cells, k, c, b, first, seq), OthersOlder(s, k, c, b, first, seq)
  PROVE  CopyContent(cells, LiveCopy(s, badBlocks, k)) = c
<1>. DEFINE live == LiveCopy(s, badBlocks, k)
<1>1. live.found
  BY NewestIsFound
<1>2. live.size = Pages[c]
  BY NewestIsFound, SMT
<1>3. live.first = PageNumber(b, first)
  BY NewestIsFound, SMT
<1>. HIDE DEF live
<1>4. CopyContent(cells, live) = c
  BY <1>1, <1>2, <1>3, CopyIsRead, SMT
<1>. QED BY <1>4 DEF live

\* So a parse takes the newest copy of every kind.
LEMMA NewestCopies ==
  AreaInv => NewestCopyIsLive
<1>. SUFFICES ASSUME AreaInv, NEW k \in Kind PROVE Live(k) = home[k].blob
  BY DEF NewestCopyIsLive
<1>1. StampsOK(stamp) /\ KindHome(stamp, body, bad, k, home[k]) /\ home[k].version \in Int
  BY DEF AreaInv, AreaOK, HomesKept, HomesOK
<1>2. CASE home[k].blob = Absent /\ \A pg \in Page : stamp[pg].type # k
  <2>1. LiveCopy(stamp, bad, k) = NoCopy
    BY <1>2, NoneIsFound
  <2>. QED BY <2>1, <1>2 DEF Live, CopyContent, NoCopy
<1>3. CASE ~(home[k].blob = Absent /\ \A pg \in Page : stamp[pg].type # k)
  <2>. DEFINE h == home[k]
              c == h.blob
              b == h.block
              seq == h.version
  <2>0. seq \in Int
    BY <1>1
  <2>1. /\ b \notin bad
        /\ \E first \in 1 .. PagesPerBlock :
             CopyAt(stamp, body, k, c, b, first, seq) /\ OthersOlder(stamp, k, c, b, first, seq)
    BY <1>1, <1>3 DEF KindHome
  <2>. HIDE DEF c, b, seq
  <2>2. PICK first \in 1 .. PagesPerBlock :
             CopyAt(stamp, body, k, c, b, first, seq) /\ OthersOlder(stamp, k, c, b, first, seq)
    BY <2>1
  <2>3. StampsOK(stamp) /\ b \notin bad
    BY <1>1, <2>1
  <2>4. CopyContent(body, LiveCopy(stamp, bad, k)) = c
    BY <2>0, <2>2, <2>3, NewestIsRead, Zenon
  <2>. QED BY <2>4 DEF Live, c
<1>. QED BY <1>2, <1>3

-----------------------------------------------------------------------------
(***************************************************************************)
(* What a change to the area leaves alone.                                 *)
(***************************************************************************)

IsArea(a) ==
  /\ a = [stamp |-> a.stamp, body |-> a.body, table |-> a.table, bad |-> a.bad]
  /\ StampsOK(a.stamp) /\ CellsOK(a.body) /\ TablesOK(a.table) /\ a.bad \subseteq Block

LEMMA BlankPage ==
  /\ NoStamp \in Stamp /\ NoStamp.type = "none" /\ "none" \notin Kind /\ "root" \notin Kind
  /\ NoTable \in Table
  /\ \A b \in Block, p \in 1 .. PagesPerBlock : <<b, p>> \in Page
  /\ \A pg \in Page : pg[1] \in Block /\ pg[2] \in 1 .. PagesPerBlock /\ pg = <<pg[1], pg[2]>>
  /\ 1 \in 1 .. PagesPerBlock
  /\ Block \subseteq Nat
<1>1. NoStamp \in Stamp /\ NoStamp.type = "none"
  BY DEF NoStamp, Stamp
<1>2. "none" \notin Kind /\ "root" \notin Kind
  BY AreaAssumption
<1>3. NoTable \in Table
  BY DEF NoTable, Table
<1>. QED BY <1>1, <1>2, <1>3, Sizes DEF Page, Block

LEMMA EraseFacts ==
  ASSUME NEW a, IsArea(a), NEW S \in SUBSET Block
  PROVE  /\ IsArea(Erase(a, S)) /\ Erase(a, S).bad = a.bad
         /\ \A pg \in Page :
              /\ Erase(a, S).stamp[pg] = IF pg[1] \in S THEN NoStamp ELSE a.stamp[pg]
              /\ Erase(a, S).body[pg] = IF pg[1] \in S THEN Empty ELSE a.body[pg]
         /\ \A b \in Block : Erase(a, S).table[b] = IF b \in S THEN NoTable ELSE a.table[b]
<1>. DEFINE e == Erase(a, S)
            s2 == Blanked(PagesOf(S), a.stamp, NoStamp)
            y2 == Blanked(PagesOf(S), a.body, Empty)
            t2 == [b \in Block |-> IF b \in S THEN NoTable ELSE a.table[b]]
<1>1. e = [stamp |-> s2, body |-> y2, table |-> t2, bad |-> a.bad]
  <2>. DEFINE s == a.stamp
              y == a.body
              t == a.table
              B == a.bad
  <2>1. a = [stamp |-> s, body |-> y, table |-> t, bad |-> B]
    BY DEF IsArea
  <2>2. e = [a EXCEPT !.stamp = s2, !.body = y2, !.table = t2]
    <3>. HIDE DEF s, y, t, B
    <3>. QED BY <2>1 DEF Erase, s, y, t
  <2>. HIDE DEF e, s2, y2, t2, s, y, t, B
  <2>3. e = [stamp |-> s2, body |-> y2, table |-> t2, bad |-> B]
    BY <2>1, <2>2
  <2>. QED BY <2>3 DEF B
<1>2. s2 = [pg \in Page |-> IF pg[1] \in S THEN NoStamp ELSE a.stamp[pg]]
  BY DEF Blanked, PagesOf
<1>3. y2 = [pg \in Page |-> IF pg[1] \in S THEN Empty ELSE a.body[pg]]
  BY DEF Blanked, PagesOf
<1>4. StampsOK(s2) /\ CellsOK(y2) /\ TablesOK(t2)
  BY <1>2, <1>3, BlankPage DEF IsArea, StampsOK, CellsOK, TablesOK
<1>. HIDE DEF e, s2, y2
<1>5. IsArea(e) /\ e.bad = a.bad
  BY <1>1, <1>4 DEF IsArea
<1>. QED BY <1>1, <1>2, <1>3, <1>5 DEF e

\* A kind's newest copy stays the newest when no stamp of its kind is added
\* and its block is left alone.
LEMMA KindHomeStays ==
  ASSUME NEW s, NEW cells, NEW badBlocks, NEW s2, NEW cells2, NEW badBlocks2,
         NEW k \in Kind, NEW h, KindHome(s, cells, badBlocks, k, h),
         \A pg \in Page : s2[pg].type = k => s2[pg] = s[pg],
         h.blob # Absent =>
           /\ h.block \notin badBlocks2
           /\ \A pg \in Page : pg[1] = h.block /\ s[pg].type = k =>
                s2[pg] = s[pg] /\ cells2[pg] = cells[pg]
  PROVE  KindHome(s2, cells2, badBlocks2, k, h)
<1>1. CASE h.blob = Absent /\ \A pg \in Page : s[pg].type # k
  <2>1. \A pg \in Page : s2[pg].type # k
    BY <1>1
  <2>. QED BY <1>1, <2>1 DEF KindHome
<1>2. CASE ~(h.blob = Absent /\ \A pg \in Page : s[pg].type # k)
  <2>1. PICK first \in 1 .. PagesPerBlock :
          /\ CopyAt(s, cells, k, h.blob, h.block, first, h.version)
          /\ OthersOlder(s, k, h.blob, h.block, first, h.version)
    BY <1>2 DEF KindHome
  <2>2. h.blob # Absent
    BY <2>1, AreaAssumption DEF CopyAt, Absent
  <2>3. CopyAt(s2, cells2, k, h.blob, h.block, first, h.version)
    <3>1. ASSUME NEW p \in first .. first + Pages[h.blob] - 1
          PROVE  /\ s2[<<h.block, p>>] = s[<<h.block, p>>]
                 /\ cells2[<<h.block, p>>] = cells[<<h.block, p>>]
      <4>1. h.block \in Block /\ first + Pages[h.blob] - 1 =< PagesPerBlock /\ Pages[h.blob] \in Nat
        BY <2>1, Sizes DEF CopyAt
      <4>2. p \in 1 .. PagesPerBlock
        BY <4>1, Sizes
      <4>3. <<h.block, p>> \in Page
        BY <4>1, <4>2 DEF Page
      <4>4. s[<<h.block, p>>].type = k
        BY <2>1 DEF CopyAt
      <4>. QED BY <4>3, <4>4, <2>2
    <3>. QED BY <2>1, <3>1 DEF CopyAt
  <2>4. OthersOlder(s2, k, h.blob, h.block, first, h.version)
    BY <2>1 DEF OthersOlder
  <2>. QED BY <2>2, <2>3, <2>4 DEF KindHome
<1>. QED BY <1>1, <1>2

\* The root stays the newest when none is added and its block is left alone.
LEMMA RootHomeStays ==
  ASSUME NEW s, NEW t, NEW badBlocks, NEW s2, NEW t2, NEW badBlocks2, NEW fs,
         RootHome(s, t, badBlocks, fs),
         \A pg \in Page : s2[pg].type = "root" => s2[pg] = s[pg],
         \A r \in fs.root : r \in Block =>
           r \notin badBlocks2 /\ s2[<<r, 1>>] = s[<<r, 1>>] /\ t2[r] = t[r]
  PROVE  RootHome(s2, t2, badBlocks2, fs)
<1>1. CASE fs = Filesystem(NoTable, 0, {}) /\ \A pg \in Page : s[pg].type # "root"
  <2>1. \A pg \in Page : s2[pg].type # "root"
    BY <1>1
  <2>. QED BY <1>1, <2>1 DEF RootHome
<1>2. CASE ~(fs = Filesystem(NoTable, 0, {}) /\ \A pg \in Page : s[pg].type # "root")
  <2>1. PICK r \in Block :
       /\ fs.root = {r} /\ r \notin badBlocks /\ fs.version >= 1
       /\ s[<<r, 1>>].type = "root" /\ s[<<r, 1>>].seq = fs.version
       /\ t[r] = [files |-> fs.files, held |-> fs.held, unnamed |-> fs.unnamed]
       /\ \A b \in Block : s[<<b, 1>>].type = "root" /\ b # r => s[<<b, 1>>].seq < fs.version
    BY <1>2 DEF RootHome
  <2>2. r \notin badBlocks2 /\ s2[<<r, 1>>] = s[<<r, 1>>] /\ t2[r] = t[r]
    BY <2>1
  <2>3. \A b \in Block : <<b, 1>> \in Page
    BY BlankPage
  <2>4. ASSUME NEW b \in Block, s2[<<b, 1>>].type = "root", b # r
        PROVE  s2[<<b, 1>>].seq < fs.version
    <3>1. s2[<<b, 1>>] = s[<<b, 1>>]
      BY <2>3, <2>4
    <3>. QED BY <2>1, <2>4, <3>1
  <2>5. /\ fs.root = {r} /\ r \notin badBlocks2 /\ fs.version >= 1
        /\ s2[<<r, 1>>].type = "root" /\ s2[<<r, 1>>].seq = fs.version
        /\ t2[r] = [files |-> fs.files, held |-> fs.held, unnamed |-> fs.unnamed]
    BY <2>1, <2>2
  <2>. QED BY <2>4, <2>5 DEF RootHome
<1>. QED BY <1>1, <1>2

\* Where the newest copy of a kind lies.
LEMMA HomeBlock ==
  ASSUME AreaInv, NEW k \in Kind, home[k].blob # Absent
  PROVE  /\ home[k].blob \in Content /\ home[k].block \in Block /\ home[k].block \notin bad
         /\ home[k].block \notin current.files /\ home[k].block \notin current.root
         /\ \E first \in 1 .. PagesPerBlock :
              /\ CopyAt(stamp, body, k, home[k].blob, home[k].block, first, home[k].version)
              /\ OthersOlder(stamp, k, home[k].blob, home[k].block, first, home[k].version)
<1>1. KindHome(stamp, body, bad, k, home[k]) /\ home[k].blob # Absent
  BY DEF AreaInv, HomesKept
<1>2. home[k].block \notin bad
      /\ \E first \in 1 .. PagesPerBlock :
              /\ CopyAt(stamp, body, k, home[k].blob, home[k].block, first, home[k].version)
              /\ OthersOlder(stamp, k, home[k].blob, home[k].block, first, home[k].version)
  BY <1>1 DEF KindHome
<1>3. home[k].blob \in Content /\ home[k].block \in Block
  BY <1>2 DEF CopyAt
<1>. QED BY <1>1, <1>2, <1>3 DEF AreaInv, BlocksApart

LEMMA AreaIsArea == AreaOK => IsArea(Area)
BY DEF AreaOK, IsArea, Area

-----------------------------------------------------------------------------
(***************************************************************************)
(* The console.                                                            *)
(***************************************************************************)

\* The console writes behind everything a block holds.
LEMMA NextPageFacts ==
  ASSUME NEW b \in Block
  PROVE  /\ NextPage(b) \in Nat /\ NextPage(b) >= 1 /\ Aligned(NextPage(b))
         /\ Whole(NextPage(b) - 1)
         /\ \A p \in 1 .. PagesPerBlock : stamp[<<b, p>>].type # "none" => p < NextPage(b)
<1>. DEFINE written == {p \in 1 .. PagesPerBlock : stamp[<<b, p>>].type # "none"}
            isTop(p) == p \in written /\ \A q \in written : q =< p
            top == IF written = {} THEN 0 ELSE CHOOSE p \in written : \A q \in written : q =< p
<1>0. PagesPerBlock \in Nat /\ written \subseteq 1 .. PagesPerBlock
  BY Sizes
<1>1. NextPage(b) = IF Big THEN RoundUp(top) + 1 ELSE top + 1
  BY DEF NextPage
<1>2. top \in Nat /\ \A p \in written : p =< top
  <2>1. CASE written = {}
    BY <2>1
  <2>2. CASE written # {}
    <3>. DEFINE below == {PagesPerBlock - p : p \in written}
    <3>. HIDE DEF written
    <3>1. below \subseteq Nat /\ below # {}
      <4>1. PICK w : w \in written
        BY <2>2
      <4>2. PagesPerBlock - w \in below
        BY <4>1
      <4>3. \A y \in below : y \in Nat
        BY <1>0
      <4>. HIDE DEF below
      <4>. QED BY <4>2, <4>3
    <3>2. PICK x \in below : \A y \in below : x =< y
      <4>. HIDE DEF below
      <4>. QED BY <3>1, NatLeast
    <3>3. PICK p \in written : x = PagesPerBlock - p
      BY <3>2
    <3>4. ASSUME NEW q \in written PROVE q =< p
      <4>1. PagesPerBlock - q \in below
        OBVIOUS
      <4>2. x =< PagesPerBlock - q
        BY <4>1, <3>2
      <4>. QED BY <4>2, <3>3, <1>0
    <3>5. \E m \in written : \A q \in written : q =< m
      BY <3>4
    <3>6. top \in written /\ \A q \in written : q =< top
      BY <3>5, <2>2
    <3>. HIDE DEF top
    <3>. QED BY <3>6, <1>0
  <2>. QED BY <2>1, <2>2
<1>. HIDE DEF top
<1>3. NextPage(b) \in Nat /\ top =< NextPage(b) - 1 /\ Whole(NextPage(b) - 1)
  <2>1. CASE ~Big
    BY <2>1, <1>1, <1>2 DEF Whole
  <2>2. CASE Big
    <3>1. RoundUp(top) \in Nat /\ top =< RoundUp(top) /\ Whole(RoundUp(top))
      BY <2>2, <1>2, RoundUpFacts
    <3>2. NextPage(b) = RoundUp(top) + 1 /\ NextPage(b) - 1 = RoundUp(top)
      BY <2>2, <1>1, <3>1
    <3>. QED BY <3>1, <3>2
  <2>. QED BY <2>1, <2>2
<1>4. ASSUME NEW p \in 1 .. PagesPerBlock, stamp[<<b, p>>].type # "none" PROVE p < NextPage(b)
  BY <1>2, <1>3, <1>4
<1>. QED BY <1>2, <1>3, <1>4 DEF Whole, Aligned

\* A copy in the block ends before the page the console writes next.
LEMMA NextPageAfter ==
  ASSUME NEW k \in Kind, NEW c, NEW b, NEW first, NEW seq, CopyAt(stamp, body, k, c, b, first, seq)
  PROVE  first - 1 + UsedPages(c) =< NextPage(b) - 1
<1>1. /\ c \in Content /\ b \in Block /\ first \in 1 .. PagesPerBlock /\ first \in Int
      /\ Pages[c] \in Nat /\ 1 =< Pages[c] /\ first + Pages[c] - 1 =< PagesPerBlock
      /\ PagesPerBlock \in Nat
  BY Sizes DEF CopyAt
<1>. DEFINE p == first + Pages[c] - 1
            next == NextPage(b)
<1>2. p \in first .. first + Pages[c] - 1 /\ p \in 1 .. PagesPerBlock
  BY <1>1
<1>3. stamp[<<b, p>>].type = k /\ k # "none"
  BY <1>2, BlankPage DEF CopyAt
<1>4. next \in Nat /\ Whole(next - 1) /\ p < next
  BY <1>1, <1>2, <1>3, NextPageFacts
<1>. HIDE DEF next
<1>5. Whole(first - 1)
  BY DEF CopyAt, Aligned, Whole
<1>. DEFINE m == (next - 1) - (first - 1)
<1>6. m \in Int /\ Whole(m) /\ Pages[c] =< m
  <2>1. next - 1 \in Int /\ first - 1 \in Int
    BY <1>1, <1>4
  <2>2. Whole((next - 1) - (first - 1))
    BY <2>1, <1>4, <1>5, WholeSums
  <2>. QED BY <2>1, <2>2, <1>1, <1>4
<1>. HIDE DEF m
<1>7. UsedPages(c) =< m /\ UsedPages(c) \in Nat
  BY <1>1, <1>6, UsedFacts
<1>. QED BY <1>1, <1>4, <1>7 DEF m, next

LEMMA PutCopyFacts ==
  ASSUME AreaOK, NEW a, IsArea(a), NEW k \in Kind, NEW c \in Content, NEW b \in Block,
         NEW first \in 1 .. PagesPerBlock, NEW version \in Int, PutCopy(a, k, c, b, first, version)
  PROVE  /\ StampsOK(stamp') /\ CellsOK(body') /\ table' = a.table /\ HomesOK(home')
         /\ \A pg \in Page :
              IF pg[1] = b /\ pg[2] \in first .. first + Pages[c] - 1
              THEN /\ stamp'[pg] = [type |-> k, seq |-> version,
                                    free |-> LeftOver(first, c), size |-> Pages[c]]
                   /\ body'[pg] = <<c, pg[2] - first + 1>>
              ELSE stamp'[pg] = a.stamp[pg] /\ body'[pg] = a.body[pg]
         /\ home'[k] = [blob |-> c, block |-> b, version |-> version]
         /\ \A j \in Kind : j # k => home'[j] = home[j]
<1>. DEFINE copy == [type |-> k, seq |-> version, size |-> Pages[c], free |-> LeftOver(first, c)]
            here == {pg \in Page : pg[1] = b /\ pg[2] \in first .. first + Pages[c] - 1}
            h == [blob |-> c, block |-> b, version |-> version]
<1>1. /\ stamp' = Blanked(here, a.stamp, copy)
      /\ body' = [pg \in Page |-> IF pg \in here THEN <<c, pg[2] - first + 1>> ELSE a.body[pg]]
      /\ table' = a.table /\ home' = [home EXCEPT ![k] = h]
  BY DEF PutCopy, LeftOver
<1>2. LeftOver(first, c) \in Int /\ Pages[c] \in Nat
  BY LeftOverInt, Sizes
<1>3. copy \in Stamp
  BY <1>2 DEF Stamp
<1>4. stamp' = [pg \in Page |-> IF pg \in here THEN copy ELSE a.stamp[pg]]
  BY <1>1 DEF Blanked
<1>. HIDE DEF copy
<1>5. StampsOK(stamp')
  <2>. HIDE DEF here
  <2>. QED BY <1>3, <1>4 DEF IsArea, StampsOK
<1>6. CellsOK(body')
  <2>. HIDE DEF here
  <2>. QED BY <1>1 DEF CellsOK
<1>7. ASSUME NEW pg \in Page
      PROVE  IF pg[1] = b /\ pg[2] \in first .. first + Pages[c] - 1
             THEN stamp'[pg] = copy /\ body'[pg] = <<c, pg[2] - first + 1>>
             ELSE stamp'[pg] = a.stamp[pg] /\ body'[pg] = a.body[pg]
  BY <1>1, <1>4
<1>8. h \in [blob : Content \cup {Absent}, block : Block, version : Int]
  OBVIOUS
<1>. HIDE DEF h
<1>9. HomesOK(home') /\ home'[k] = h /\ \A j \in Kind : j # k => home'[j] = home[j]
  BY <1>1, <1>8 DEF AreaOK, HomesOK
<1>. QED BY <1>1, <1>5, <1>6, <1>7, <1>9 DEF copy, h

\* A copy put behind what its block holds becomes the newest of its kind.
LEMMA PutCopyKeepsInv ==
  ASSUME AreaInv, NEW a, IsArea(a), NEW k \in Kind, NEW c \in Content, NEW b \in Block,
         NEW first \in 1 .. PagesPerBlock, NEW version \in Int, PutCopy(a, k, c, b, first, version),
         UNCHANGED <<bad, current>>, Aligned(first), first - 1 + UsedPages(c) =< PagesPerBlock,
         b \notin bad, b \notin current.files, b \notin current.root,
         \A pg \in Page : pg[1] = b /\ pg[2] >= first => a.stamp[pg].type = "none",
         \A pg \in Page : a.stamp[pg].type # "none" => a.stamp[pg] = stamp[pg],
         \A pg \in Page : pg[1] # b => a.stamp[pg] = stamp[pg] /\ a.body[pg] = body[pg],
         \A d \in Block : d # b => a.table[d] = table[d],
         \A j \in Kind : j # k /\ home[j].blob # Absent /\ home[j].block = b =>
           \A pg \in Page : a.stamp[pg] = stamp[pg] /\ a.body[pg] = body[pg],
         \A pg \in Page : stamp[pg].type = k => Trails(stamp[pg], version, LeftOver(first, c)),
         first = 1 \/ a.stamp[<<b, 1>>].type \in Kind, CopiesFromFirst(a.stamp)
  PROVE  AreaInv'
<1>. DEFINE in(pg) == pg[1] = b /\ pg[2] \in first .. first + Pages[c] - 1
            copy == [type |-> k, seq |-> version, free |-> LeftOver(first, c), size |-> Pages[c]]
<1>0. AreaOK
  BY DEF AreaInv
<1>1. /\ StampsOK(stamp') /\ CellsOK(body') /\ table' = a.table /\ HomesOK(home')
      /\ \A pg \in Page : in(pg) => stamp'[pg] = copy /\ body'[pg] = <<c, pg[2] - first + 1>>
      /\ \A pg \in Page : ~in(pg) => stamp'[pg] = a.stamp[pg] /\ body'[pg] = a.body[pg]
      /\ home'[k] = [blob |-> c, block |-> b, version |-> version]
      /\ \A j \in Kind : j # k => home'[j] = home[j]
  BY <1>0, PutCopyFacts
<1>2. /\ first \in Int /\ PagesPerBlock \in Nat /\ Pages[c] \in Nat /\ 1 =< Pages[c]
      /\ first + Pages[c] - 1 =< PagesPerBlock
  BY UsedFacts, Sizes
<1>3. copy.type = k /\ copy.seq = version /\ copy.free = LeftOver(first, c)
  OBVIOUS
<1>4. \A pg \in Page : in(pg) => a.stamp[pg].type = "none"
  BY <1>2, BlankPage
<1>. HIDE DEF in, copy
<1>5. AreaOK'
  BY <1>0, <1>1 DEF AreaOK, IsArea
<1>6. CopiesFromFirst(stamp')
  <2>. SUFFICES ASSUME NEW pg \in Page, stamp'[pg].type \in Kind
                PROVE  stamp'[<<pg[1], 1>>].type \in Kind
    BY DEF CopiesFromFirst
  <2>. DEFINE p1 == <<pg[1], 1>>
  <2>1. p1 \in Page /\ p1[1] = pg[1] /\ p1[2] = 1
    BY BlankPage
  <2>. HIDE DEF p1
  <2>2. CASE in(p1)
    BY <1>1, <1>3, <2>1, <2>2 DEF p1
  <2>3. CASE ~in(p1) /\ in(pg)
    <3>1. pg[1] = b
      BY <2>3 DEF in
    <3>2. first # 1
      BY <2>1, <2>3, <3>1, <1>2 DEF in
    <3>3. a.stamp[p1].type \in Kind
      BY <3>1, <3>2 DEF p1
    <3>. QED BY <3>3, <2>1, <2>3, <1>1 DEF p1
  <2>4. CASE ~in(p1) /\ ~in(pg)
    <3>1. a.stamp[pg].type \in Kind
      BY <2>4, <1>1
    <3>2. a.stamp[p1].type \in Kind
      BY <3>1 DEF CopiesFromFirst, p1
    <3>. QED BY <3>2, <2>1, <2>4, <1>1 DEF p1
  <2>. QED BY <2>2, <2>3, <2>4
<1>7. KindHome(stamp', body', bad', k, home'[k])
  <2>1. CopyAt(stamp', body', k, c, b, first, version)
    <3>1. ASSUME NEW p \in first .. first + Pages[c] - 1
          PROVE  stamp'[<<b, p>>] = copy /\ body'[<<b, p>>] = <<c, p - first + 1>>
      <4>. DEFINE pg == <<b, p>>
      <4>1. p \in 1 .. PagesPerBlock
        BY <1>2
      <4>2. pg \in Page /\ pg[1] = b /\ pg[2] = p
        BY <4>1, BlankPage
      <4>. HIDE DEF pg
      <4>3. in(pg)
        BY <4>2 DEF in
      <4>4. stamp'[pg] = copy /\ body'[pg] = <<c, pg[2] - first + 1>>
        BY <4>2, <4>3, <1>1
      <4>. QED BY <4>4, <4>2 DEF pg
    <3>. QED BY <3>1, <1>2 DEF CopyAt, copy
  <2>2. OthersOlder(stamp', k, c, b, first, version)
    <3>. SUFFICES ASSUME NEW pg \in Page, stamp'[pg].type = k, ~in(pg)
                  PROVE  Trails(stamp'[pg], version, LeftOver(first, c))
      BY DEF OthersOlder, Trails, in
    <3>1. stamp'[pg] = a.stamp[pg]
      BY <1>1
    <3>2. stamp'[pg] = stamp[pg]
      BY <3>1, BlankPage
    <3>. QED BY <3>2
  <2>3. home'[k].blob = c /\ home'[k].block = b /\ home'[k].version = version /\ bad' = bad
    BY <1>1
  <2>. QED BY <2>1, <2>2, <2>3 DEF KindHome
<1>8. ASSUME NEW j \in Kind, j # k PROVE KindHome(stamp', body', bad', j, home'[j])
  <2>. DEFINE h == home[j]
  <2>1. KindHome(stamp, body, bad, j, h)
    BY DEF AreaInv, HomesKept
  <2>2. \A pg \in Page : stamp'[pg].type = j => stamp'[pg] = stamp[pg]
    <3>. SUFFICES ASSUME NEW pg \in Page, stamp'[pg].type = j PROVE stamp'[pg] = stamp[pg]
      OBVIOUS
    <3>1. ~in(pg)
      BY <1>1, <1>3, <1>8
    <3>. QED BY <3>1, <1>1, BlankPage
  <2>3. ASSUME h.blob # Absent
        PROVE  /\ h.block \notin bad'
               /\ \A pg \in Page : pg[1] = h.block /\ stamp[pg].type = j =>
                    stamp'[pg] = stamp[pg] /\ body'[pg] = body[pg]
    <3>1. h.block \notin bad
      BY <2>3, HomeBlock
    <3>2. ASSUME NEW pg \in Page, pg[1] = h.block, stamp[pg].type = j
          PROVE  stamp'[pg] = stamp[pg] /\ body'[pg] = body[pg]
      <4>1. a.stamp[pg] = stamp[pg] /\ a.body[pg] = body[pg]
        <5>1. CASE h.block = b
          BY <5>1, <2>3, <1>8
        <5>2. CASE h.block # b
          BY <5>2, <3>2
        <5>. QED BY <5>1, <5>2
      <4>2. ~in(pg)
        BY <4>1, <3>2, <1>4, BlankPage
      <4>. QED BY <4>1, <4>2, <1>1
    <3>. QED BY <3>1, <3>2
  <2>4. home'[j] = h
    BY <1>1, <1>8
  <2>. HIDE DEF h
  <2>5. KindHome(stamp', body', bad', j, h)
    BY <2>1, <2>2, <2>3, KindHomeStays
  <2>. QED BY <2>4, <2>5
<1>9. HomesKept'
  BY <1>7, <1>8 DEF HomesKept
<1>10. RootKept'
  <2>1. RootHome(stamp, table, bad, current)
    BY DEF AreaInv, RootKept
  <2>2. \A pg \in Page : stamp'[pg].type = "root" => stamp'[pg] = stamp[pg]
    <3>. SUFFICES ASSUME NEW pg \in Page, stamp'[pg].type = "root" PROVE stamp'[pg] = stamp[pg]
      OBVIOUS
    <3>1. ~in(pg)
      BY <1>1, <1>3, BlankPage
    <3>. QED BY <3>1, <1>1
  <2>3. ASSUME NEW r \in current.root, r \in Block
        PROVE  r \notin bad' /\ stamp'[<<r, 1>>] = stamp[<<r, 1>>] /\ table'[r] = table[r]
    <3>. DEFINE pg == <<r, 1>>
    <3>1. r # b /\ pg \in Page /\ pg[1] = r
      BY <2>3, BlankPage
    <3>2. r \notin bad
      BY <2>1, <2>3 DEF RootHome, Filesystem
    <3>. HIDE DEF pg
    <3>3. ~in(pg)
      BY <3>1 DEF in
    <3>4. stamp'[pg] = stamp[pg]
      BY <3>1, <3>3, <1>1
    <3>. QED BY <3>1, <3>2, <3>4, <2>3, <1>1 DEF pg
  <2>4. RootHome(stamp', table', bad', current)
    BY <2>1, <2>2, <2>3, RootHomeStays
  <2>. QED BY <2>4 DEF RootKept
<1>11. BlocksApart'
  <2>0. BlocksApart /\ current' = current
    BY DEF AreaInv
  <2>1. ASSUME NEW f \in current.files, NEW p \in 1 .. PagesPerBlock
        PROVE  body'[<<f, p>>] = <<"file", p>>
    <3>. DEFINE pg == <<f, p>>
    <3>1. f # b /\ f \in Block
      BY <1>0 DEF AreaOK
    <3>2. pg \in Page /\ pg[1] = f
      BY <3>1, BlankPage
    <3>3. body[pg] = <<"file", p>>
      BY <2>0 DEF BlocksApart
    <3>. HIDE DEF pg
    <3>4. ~in(pg)
      BY <3>1, <3>2 DEF in
    <3>5. body'[pg] = body[pg]
      BY <3>1, <3>2, <3>4, <1>1
    <3>. QED BY <3>3, <3>5 DEF pg
  <2>2. ASSUME NEW j \in Kind, home'[j].blob # Absent
        PROVE  home'[j].block \notin current.files \cup current.root
    <3>1. CASE j = k
      BY <3>1, <1>1
    <3>2. CASE j # k
      <4>1. home'[j] = home[j]
        BY <3>2, <1>1
      <4>. QED BY <4>1, <2>2, <2>0 DEF BlocksApart
    <3>. QED BY <3>1, <3>2
  <2>. QED BY <2>0, <2>1, <2>2 DEF BlocksApart
<1>. QED BY <1>5, <1>6, <1>9, <1>10, <1>11 DEF AreaInv

LEMMA ConsoleFreeFacts ==
  ASSUME ConsoleFree # {}
  PROVE  /\ ConsoleFree \subseteq Block
         /\ Lowest(ConsoleFree) \in ConsoleFree
<1>1. ConsoleFree \subseteq Block /\ ConsoleFree \subseteq Nat
  BY Sizes DEF ConsoleFree, Block
<1>. QED BY <1>1, LowestLemma

LEMMA FreeOfHomes ==
  ASSUME NEW b \in ConsoleFree
  PROVE  /\ b \in Block /\ b \notin bad /\ b \notin current.files /\ b \notin current.root
         /\ \A k \in Kind : home[k].blob # Absent => home[k].block # b
<1>1. b \in Block
  BY Sizes DEF ConsoleFree, Block
<1>. QED BY <1>1 DEF ConsoleFree

\* The console appends a copy, or opens a block for it.
LEMMA StoreKeepsInv ==
  ASSUME AreaInv, NEW k \in Kind, NEW c \in Content, ConsoleStore(k, c)
  PROVE  AreaInv'
<1>. DEFINE here == home[k]
            first == NextPage(here.block)
            fits == here.blob # Absent /\ here.block \notin bad
                      /\ first - 1 + UsedPages(c) =< PagesPerBlock
            b == Lowest(ConsoleFree)
<1>0. AreaOK /\ IsArea(Area) /\ here.version \in Int
  BY AreaIsArea DEF AreaInv, AreaOK, HomesOK
<1>1. /\ UNCHANGED <<bad, current>>
      /\ \/ fits /\ PutCopy(Area, k, c, here.block, first, here.version)
         \/ ConsoleFree # {} /\ PutCopy(Erase(Area, {b}), k, c, b, 1, here.version + 1)
  BY DEF ConsoleStore
<1>2. CopiesFromFirst(stamp)
  BY DEF AreaInv
<1>3. CASE fits /\ PutCopy(Area, k, c, here.block, first, here.version)
  <2>. DEFINE d == here.block
              e == here.blob
              v == here.version
  <2>1. /\ e \in Content /\ d \in Block /\ d \notin bad /\ d \notin current.files
        /\ d \notin current.root
        /\ \E f \in 1 .. PagesPerBlock :
             CopyAt(stamp, body, k, e, d, f, v) /\ OthersOlder(stamp, k, e, d, f, v)
    BY <1>3, HomeBlock
  <2>. HIDE DEF d, e, v
  <2>2. PICK f \in 1 .. PagesPerBlock :
             CopyAt(stamp, body, k, e, d, f, v) /\ OthersOlder(stamp, k, e, d, f, v)
    BY <2>1
  <2>. DEFINE n == NextPage(d)
  <2>3. /\ n \in Nat /\ n >= 1 /\ Aligned(n)
        /\ \A p \in 1 .. PagesPerBlock : stamp[<<d, p>>].type # "none" => p < n
    BY <2>1, NextPageFacts
  <2>4. f - 1 + UsedPages(e) =< n - 1
    BY <2>2, NextPageAfter
  <2>. HIDE DEF n
  <2>5. n - 1 + UsedPages(c) =< PagesPerBlock /\ PutCopy(Area, k, c, d, n, v)
    BY <1>3 DEF n, d, v
  <2>6. n \in 1 .. PagesPerBlock
    BY <2>3, <2>5, UsedFacts, Sizes
  <2>7. LeftOver(n, c) < LeftOver(f, e) /\ LeftOver(n, c) \in Int /\ LeftOver(f, e) \in Int
    BY <2>1, <2>3, <2>4, LeavesLess
  <2>8. v \in Int
    BY <1>0 DEF v
  <2>9. ASSUME NEW pg \in Page, stamp[pg].type = k
        PROVE  Trails(stamp[pg], v, LeftOver(n, c))
    <3>. DEFINE x == stamp[pg]
    <3>1. x.seq \in Int /\ x.free \in Int
      BY <1>0 DEF AreaOK, StampsOK, Stamp
    <3>2. CASE pg[1] = d /\ pg[2] \in f .. f + Pages[e] - 1
      <4>1. pg = <<d, pg[2]>>
        BY <3>2, BlankPage
      <4>2. x = [type |-> k, seq |-> v, free |-> LeftOver(f, e), size |-> Pages[e]]
        BY <3>2, <4>1, <2>2 DEF CopyAt
      <4>. QED BY <4>2, <2>7 DEF Trails
    <3>3. CASE ~(pg[1] = d /\ pg[2] \in f .. f + Pages[e] - 1)
      <4>1. x.seq < v \/ (x.seq = v /\ x.free > LeftOver(f, e))
        BY <3>3, <2>2, <2>9 DEF OthersOlder
      <4>. HIDE DEF x
      <4>2. x.seq < v \/ (x.seq = v /\ x.free > LeftOver(n, c))
        BY <4>1, <3>1, <2>7
      <4>. QED BY <4>2 DEF Trails, x
    <3>. QED BY <3>2, <3>3
  <2>10. ASSUME NEW pg \in Page, pg[1] = d, pg[2] >= n PROVE stamp[pg].type = "none"
    <3>1. pg = <<d, pg[2]>> /\ pg[2] \in 1 .. PagesPerBlock
      BY <2>10, BlankPage
    <3>2. stamp[<<d, pg[2]>>].type # "none" => pg[2] < n
      BY <3>1, <2>3
    <3>3. ~(pg[2] < n)
      BY <3>1, <2>3, <2>10, Sizes
    <3>. QED BY <3>1, <3>2, <3>3
  <2>11. stamp[<<d, 1>>].type \in Kind
    <3>1. <<d, f>> \in Page /\ <<d, f>>[1] = d
      BY <2>1, BlankPage
    <3>2. f \in f .. f + Pages[e] - 1
      BY <2>1, <2>2, Sizes
    <3>3. stamp[<<d, f>>].type = k
      BY <2>2, <3>2 DEF CopyAt
    <3>. QED BY <3>1, <3>3, <1>2 DEF CopiesFromFirst
  <2>12. Area.stamp = stamp /\ Area.body = body /\ Area.table = table
    BY DEF Area
  <2>13. AreaInv'
    BY <1>0, <1>1, <1>2, <2>1, <2>3, <2>5, <2>6, <2>8, <2>9, <2>10, <2>11, <2>12, PutCopyKeepsInv
  <2>. QED BY <2>13
<1>4. CASE ConsoleFree # {} /\ PutCopy(Erase(Area, {b}), k, c, b, 1, here.version + 1)
  <2>1. /\ b \in Block /\ b \notin bad /\ b \notin current.files /\ b \notin current.root
        /\ \A j \in Kind : home[j].blob # Absent => home[j].block # b
    BY <1>4, ConsoleFreeFacts, FreeOfHomes
  <2>. DEFINE a == Erase(Area, {b})
              v == here.version + 1
  <2>2. PutCopy(a, k, c, b, 1, v)
    BY <1>4
  <2>3. v \in Int
    BY <1>0
  <2>4. KindHome(stamp, body, bad, k, here) /\ here.version \in Int
    BY <1>0 DEF AreaInv, HomesKept
  <2>. HIDE DEF b
  <2>5. IsArea(a) /\ {b} \in SUBSET Block
    BY <1>0, <2>1, EraseFacts
  <2>6. /\ \A pg \in Page :
             /\ a.stamp[pg] = IF pg[1] \in {b} THEN NoStamp ELSE stamp[pg]
             /\ a.body[pg] = IF pg[1] \in {b} THEN Empty ELSE body[pg]
        /\ \A x \in Block : a.table[x] = IF x \in {b} THEN NoTable ELSE table[x]
    BY <1>0, <2>5, EraseFacts DEF Area
  <2>7. \A pg \in Page : pg[1] = b => a.stamp[pg].type = "none"
    BY <2>6, BlankPage
  <2>8. \A pg \in Page : pg[1] # b => a.stamp[pg] = stamp[pg] /\ a.body[pg] = body[pg]
    BY <2>6
  <2>9. \A x \in Block : x # b => a.table[x] = table[x]
    BY <2>6
  <2>10. ASSUME NEW pg \in Page, stamp[pg].type = k
         PROVE  Trails(stamp[pg], v, LeftOver(1, c))
    <3>. DEFINE x == stamp[pg]
    <3>1. x.seq \in Int
      BY <1>0 DEF AreaOK, StampsOK, Stamp
    <3>2. PICK f \in 1 .. PagesPerBlock :
            /\ CopyAt(stamp, body, k, here.blob, here.block, f, here.version)
            /\ OthersOlder(stamp, k, here.blob, here.block, f, here.version)
      BY <2>4, <2>10 DEF KindHome
    <3>3. x.seq =< here.version
      <4>1. CASE pg[1] = here.block /\ pg[2] \in f .. f + Pages[here.blob] - 1
        <5>1. pg = <<here.block, pg[2]>>
          BY <4>1, BlankPage
        <5>2. x.seq = here.version
          BY <4>1, <5>1, <3>2 DEF CopyAt
        <5>. QED BY <5>2, <2>4
      <4>2. CASE ~(pg[1] = here.block /\ pg[2] \in f .. f + Pages[here.blob] - 1)
        <5>1. x.seq < here.version \/ x.seq = here.version
          BY <4>2, <3>2, <2>10 DEF OthersOlder
        <5>. HIDE DEF x
        <5>. QED BY <5>1, <3>1, <2>4
      <4>. QED BY <4>1, <4>2
    <3>. HIDE DEF x
    <3>4. x.seq < v
      BY <3>1, <3>3, <2>4
    <3>. QED BY <3>4 DEF Trails, x
  <2>. HIDE DEF a, v, here
  <2>11. CopiesFromFirst(a.stamp)
    <3>. SUFFICES ASSUME NEW pg \in Page, a.stamp[pg].type \in Kind
                  PROVE  a.stamp[<<pg[1], 1>>].type \in Kind
      BY DEF CopiesFromFirst
    <3>1. pg[1] # b
      BY <2>7, BlankPage
    <3>2. stamp[<<pg[1], 1>>].type \in Kind
      BY <2>8, <3>1, <1>2 DEF CopiesFromFirst
    <3>3. <<pg[1], 1>> \in Page /\ <<pg[1], 1>>[1] = pg[1]
      BY BlankPage
    <3>. QED BY <2>8, <3>1, <3>2, <3>3
  <2>12. Aligned(1) /\ 1 \in 1 .. PagesPerBlock /\ 1 - 1 + UsedPages(c) =< PagesPerBlock
    <3>1. UsedPages(c) \in Nat /\ UsedPages(c) =< PagesPerBlock
      BY UsedFacts
    <3>2. Whole(1 - 1)
      BY WholeEnds
    <3>. QED BY <3>1, <3>2, BlankPage DEF Aligned, Whole
  <2>13. \A pg \in Page : a.stamp[pg].type # "none" => a.stamp[pg] = stamp[pg]
    BY <2>7, <2>8
  <2>14. \A pg \in Page : pg[1] = b /\ pg[2] >= 1 => a.stamp[pg].type = "none"
    BY <2>7
  <2>15. \A j \in Kind : j # k /\ home[j].blob # Absent /\ home[j].block = b =>
           \A pg \in Page : a.stamp[pg] = stamp[pg] /\ a.body[pg] = body[pg]
    BY <2>1
  <2>16. UNCHANGED <<bad, current>> /\ b \in Block /\ b \notin bad
         /\ b \notin current.files /\ b \notin current.root /\ IsArea(a)
    BY <1>1, <2>1, <2>5
  <2>. DEFINE one == 1
  <2>. HIDE DEF one
  <2>17. one = 1
    BY DEF one
  <2>18. /\ Aligned(one) /\ one \in 1 .. PagesPerBlock
         /\ one - 1 + UsedPages(c) =< PagesPerBlock /\ PutCopy(a, k, c, b, one, v)
         /\ \A pg \in Page : stamp[pg].type = k => Trails(stamp[pg], v, LeftOver(one, c))
         /\ \A pg \in Page : pg[1] = b /\ pg[2] >= one => a.stamp[pg].type = "none"
    BY <2>2, <2>10, <2>12, <2>14, <2>17
  <2>19. one = 1 \/ a.stamp[<<b, 1>>].type \in Kind
    BY <2>17
  <2>20. AreaInv'
    BY <2>3, <2>8, <2>9, <2>11, <2>13, <2>15, <2>16, <2>18, <2>19, PutCopyKeepsInv
  <2>. QED BY <2>20
<1>. QED BY <1>1, <1>3, <1>4

\* A filesystem is found only when a root is the newest.
LEMMA CurrentRoot ==
  ASSUME AreaInv
  PROVE  IF HasFs
         THEN \E r \in Block :
                /\ current.root = {r} /\ r \notin bad /\ current.version >= 1
                /\ stamp[<<r, 1>>].type = "root" /\ stamp[<<r, 1>>].seq = current.version
                /\ table[r] = [files |-> current.files, held |-> current.held,
                               unnamed |-> current.unnamed]
                /\ \A b \in Block : stamp[<<b, 1>>].type = "root" /\ b # r =>
                     stamp[<<b, 1>>].seq < current.version
         ELSE current = Filesystem(NoTable, 0, {}) /\ \A pg \in Page : stamp[pg].type # "root"
<1>1. RootHome(stamp, table, bad, current)
  BY DEF AreaInv, RootKept
<1>2. ASSUME HasFs PROVE ~(\A pg \in Page : stamp[pg].type # "root")
  <2>1. PICK b \in Block : stamp[<<b, 1>>].type = "root"
    BY <1>2 DEF HasFs, GoodRoots
  <2>. QED BY <2>1, BlankPage
<1>3. ASSUME NEW r \in Block, r \notin bad, current.version >= 1,
             stamp[<<r, 1>>].type = "root", stamp[<<r, 1>>].seq = current.version
      PROVE  HasFs
  <2>1. current.version \in Int
    BY DEF AreaInv, AreaOK
  <2>2. r \in GoodRoots
    BY <1>3, <2>1 DEF GoodRoots
  <2>. QED BY <2>2 DEF HasFs
<1>. QED BY <1>1, <1>2, <1>3 DEF RootHome

\* The console's new root outranks the old one and touches no copy.
LEMMA SaveFsKeepsInv ==
  ASSUME AreaInv, NEW b \in Block, NEW files \in SUBSET Block, ConsoleSaveFs(b, files)
  PROVE  AreaInv' /\ (FilesGood => FilesGood')
<1>. DEFINE fs == [current EXCEPT !.files = files, !.version = @ + 1, !.root = {b}]
            S == {b} \cup (files \ current.files)
            fresh == Erase(Area, S)
            rootStamp == [NoStamp EXCEPT !.type = "root", !.seq = fs.version]
            row == [files |-> files, held |-> fs.held, unnamed |-> fs.unnamed]
<1>0. AreaOK /\ IsArea(Area)
  BY AreaIsArea DEF AreaInv
<1>1. /\ HasFs /\ b \in ConsoleFree /\ b \notin files /\ files \subseteq current.files \cup ConsoleFree
      /\ stamp' = [fresh.stamp EXCEPT ![<<b, 1>>] = rootStamp]
      /\ body' = [pg \in Page |-> IF pg[1] \in files THEN <<"file", pg[2]>>
                                  ELSE IF pg[1] = b THEN <<"table", 0>> ELSE fresh.body[pg]]
      /\ table' = [fresh.table EXCEPT ![b] = row]
      /\ current' = fs /\ bad' = bad /\ home' = home
  BY DEF ConsoleSaveFs
<1>2. /\ fs \in [files : SUBSET Block, held : SUBSET Block, unnamed : SUBSET Block,
                 version : Int, root : SUBSET Block]
      /\ fs.files = files /\ fs.version = current.version + 1 /\ fs.root = {b}
      /\ fs.held = current.held /\ fs.unnamed = current.unnamed
      /\ current.version \in Int
  <2>1. current \in [files : SUBSET Block, held : SUBSET Block, unnamed : SUBSET Block,
                     version : Int, root : SUBSET Block]
    BY <1>0 DEF AreaOK
  <2>2. /\ current.files \in SUBSET Block /\ current.held \in SUBSET Block
        /\ current.unnamed \in SUBSET Block /\ current.version \in Int
    BY <2>1
  <2>. DEFINE v == current.version + 1
              root == {b}
  <2>3. v \in Int /\ root \in SUBSET Block
    BY <2>2
  <2>4. fs = [current EXCEPT !.files = files, !.version = v, !.root = root]
    OBVIOUS
  <2>. HIDE DEF fs, v, root
  <2>5. fs = [files |-> files, held |-> current.held, unnamed |-> current.unnamed,
              version |-> v, root |-> root]
    BY <2>1, <2>4
  <2>. QED BY <2>2, <2>3, <2>5 DEF v, root
<1>. HIDE DEF fs
<1>3. /\ rootStamp \in Stamp /\ rootStamp.type = "root" /\ rootStamp.seq = fs.version
      /\ row \in Table
  <2>. DEFINE v == fs.version
  <2>1. v \in Int
    BY <1>2
  <2>. HIDE DEF v
  <2>2. rootStamp = [type |-> "root", seq |-> v, free |-> 0, size |-> 0]
    <3>1. rootStamp = [NoStamp EXCEPT !.type = "root", !.seq = v]
      BY DEF v
    <3>. HIDE DEF rootStamp
    <3>. QED BY <3>1 DEF NoStamp
  <2>3. rootStamp \in Stamp /\ rootStamp.type = "root" /\ rootStamp.seq = fs.version
    <3>. HIDE DEF rootStamp
    <3>. QED BY <2>1, <2>2 DEF Stamp, v
  <2>4. row \in Table
    <3>1. fs.held \in SUBSET Block /\ fs.unnamed \in SUBSET Block
      BY <1>2
    <3>. QED BY <3>1 DEF Table
  <2>. QED BY <2>3, <2>4
<1>. HIDE DEF rootStamp
<1>4. S \in SUBSET Block /\ IsArea(fresh)
  <2>1. S \in SUBSET Block
    OBVIOUS
  <2>. HIDE DEF S
  <2>. QED BY <2>1, <1>0, EraseFacts
<1>5. /\ \A pg \in Page :
           /\ fresh.stamp[pg] = IF pg[1] \in S THEN NoStamp ELSE stamp[pg]
           /\ fresh.body[pg] = IF pg[1] \in S THEN Empty ELSE body[pg]
      /\ \A x \in Block : fresh.table[x] = IF x \in S THEN NoTable ELSE table[x]
  <2>. HIDE DEF S
  <2>. QED BY <1>4, <1>0, EraseFacts DEF Area
<1>6. /\ b \notin bad /\ b \notin current.root /\ b \notin current.files
      /\ \A f \in files : f \in current.files \/ f \in ConsoleFree
      /\ <<b, 1>> \in Page
  BY <1>1, FreeOfHomes, BlankPage
<1>7. \A pg \in Page : stamp'[pg] = IF pg = <<b, 1>> THEN rootStamp
                                    ELSE IF pg[1] \in S THEN NoStamp ELSE stamp[pg]
  <2>. HIDE DEF S, fresh
  <2>. QED BY <1>1, <1>4, <1>5 DEF IsArea, StampsOK
<1>8. \A pg \in Page : pg[1] \notin files /\ pg[1] # b => body'[pg] = body[pg]
  <2>1. \A pg \in Page : pg[1] \notin files /\ pg[1] # b => pg[1] \notin S
    OBVIOUS
  <2>. HIDE DEF S, fresh
  <2>. QED BY <1>1, <1>5, <2>1
<1>9. table'[b] = row /\ \A x \in Block : x \notin S => table'[x] = table[x]
  <2>1. b \in S
    OBVIOUS
  <2>. HIDE DEF S, fresh, row
  <2>. QED BY <1>1, <1>4, <1>5, <2>1 DEF IsArea, TablesOK
\* No copy is where the console writes.
<1>10. ASSUME NEW k \in Kind, home[k].blob # Absent
       PROVE  home[k].block \notin S /\ home[k].block \notin files
  <2>1. home[k].block \notin current.files
    BY <1>10, HomeBlock
  <2>2. home[k].block \notin ConsoleFree
    BY <1>10, FreeOfHomes
  <2>. QED BY <2>1, <2>2, <1>1
<1>11. AreaOK'
  <2>1. StampsOK(stamp')
    <3>. HIDE DEF S, fresh
    <3>. QED BY <1>1, <1>3, <1>4 DEF IsArea, StampsOK
  <2>2. CellsOK(body')
    <3>. HIDE DEF fresh
    <3>. QED BY <1>1 DEF CellsOK
  <2>3. TablesOK(table')
    <3>. HIDE DEF S, fresh, row
    <3>. QED BY <1>1, <1>3, <1>4 DEF IsArea, TablesOK
  <2>. HIDE DEF S, fresh, row
  <2>. QED BY <2>1, <2>2, <2>3, <1>0, <1>1, <1>2 DEF AreaOK
<1>. HIDE DEF fresh, row
<1>12. CopiesFromFirst(stamp')
  <2>. SUFFICES ASSUME NEW pg \in Page, stamp'[pg].type \in Kind
                PROVE  stamp'[<<pg[1], 1>>].type \in Kind
    BY DEF CopiesFromFirst
  <2>1. pg[1] \notin S /\ stamp'[pg] = stamp[pg]
    BY <1>3, <1>7, BlankPage
  <2>2. stamp[<<pg[1], 1>>].type \in Kind
    BY <2>1 DEF AreaInv, CopiesFromFirst
  <2>. DEFINE p1 == <<pg[1], 1>>
  <2>3. p1 \in Page /\ p1[1] = pg[1] /\ p1 # <<b, 1>>
    BY <2>1, BlankPage
  <2>. HIDE DEF p1, S
  <2>4. stamp'[p1] = stamp[p1]
    BY <2>1, <2>3, <1>7
  <2>. QED BY <2>2, <2>4 DEF p1
<1>13. HomesKept'
  <2>. SUFFICES ASSUME NEW k \in Kind PROVE KindHome(stamp', body', bad', k, home'[k])
    BY DEF HomesKept
  <2>. DEFINE h == home[k]
  <2>1. KindHome(stamp, body, bad, k, h)
    BY DEF AreaInv, HomesKept
  <2>2. \A pg \in Page : stamp'[pg].type = k => stamp'[pg] = stamp[pg]
    BY <1>3, <1>7, BlankPage
  <2>3. ASSUME h.blob # Absent
        PROVE  /\ h.block \notin bad'
               /\ \A pg \in Page : pg[1] = h.block /\ stamp[pg].type = k =>
                    stamp'[pg] = stamp[pg] /\ body'[pg] = body[pg]
    <3>1. h.block \notin bad /\ h.block \notin S /\ h.block \notin files /\ h.block # b
      BY <2>3, HomeBlock, <1>10
    <3>. HIDE DEF h, S
    <3>2. ASSUME NEW pg \in Page, pg[1] = h.block
          PROVE  stamp'[pg] = stamp[pg] /\ body'[pg] = body[pg]
      <4>1. pg # <<b, 1>>
        BY <3>1, <3>2
      <4>. QED BY <4>1, <3>1, <3>2, <1>7, <1>8
    <3>. QED BY <3>1, <3>2, <1>1
  <2>. HIDE DEF h
  <2>4. KindHome(stamp', body', bad', k, h)
    BY <2>1, <2>2, <2>3, KindHomeStays
  <2>. QED BY <2>4, <1>1 DEF h
<1>14. RootKept'
  <2>1. PICK r \in Block :
          /\ current.root = {r} /\ r \notin bad /\ current.version >= 1
          /\ stamp[<<r, 1>>].seq = current.version
          /\ \A x \in Block : stamp[<<x, 1>>].type = "root" /\ x # r =>
               stamp[<<x, 1>>].seq < current.version
    BY <1>1, CurrentRoot
  <2>2. ASSUME NEW x \in Block, stamp'[<<x, 1>>].type = "root", x # b
        PROVE  stamp'[<<x, 1>>].seq < fs.version
    <3>. DEFINE pg == <<x, 1>>
    <3>1. pg \in Page /\ pg # <<b, 1>>
      BY <2>2, BlankPage
    <3>. HIDE DEF pg, S
    <3>2. stamp'[pg] = stamp[pg]
      BY <3>1, <2>2, <1>7, BlankPage DEF pg
    <3>3. stamp[pg].seq \in Int
      BY <3>1, <1>0 DEF AreaOK, StampsOK, Stamp
    <3>4. stamp[pg].seq =< current.version
      BY <2>1, <2>2, <3>2, <3>3, <1>2 DEF pg
    <3>5. stamp'[pg].seq < fs.version
      BY <3>2, <3>3, <3>4, <1>2
    <3>. QED BY <3>5 DEF pg
  <2>3. stamp'[<<b, 1>>] = rootStamp
    BY <1>6, <1>7
  <2>4. fs.version >= 1
    BY <2>1, <1>2
  <2>5. table'[b] = [files |-> fs.files, held |-> fs.held, unnamed |-> fs.unnamed]
    BY <1>2, <1>9 DEF row
  <2>6. RootHome(stamp', table', bad', fs)
    BY <2>2, <2>3, <2>4, <2>5, <1>1, <1>2, <1>3, <1>6 DEF RootHome
  <2>. QED BY <2>6, <1>1 DEF RootKept
<1>15. BlocksApart'
  <2>1. ASSUME NEW f \in files, NEW p \in 1 .. PagesPerBlock
        PROVE  body'[<<f, p>>] = <<"file", p>>
    <3>. DEFINE pg == <<f, p>>
    <3>1. pg \in Page /\ pg[1] = f /\ pg[2] = p
      BY BlankPage
    <3>. HIDE DEF pg
    <3>2. body'[pg] = <<"file", p>>
      BY <3>1, <1>1
    <3>. QED BY <3>2 DEF pg
  <2>2. \A k \in Kind : home[k].blob # Absent => home[k].block \notin files \cup {b}
    BY <1>10
  <2>3. {b} \cap files = {}
    BY <1>1
  <2>4. current'.files = files /\ current'.root = {b} /\ home' = home
    BY <1>1, <1>2
  <2>. HIDE DEF S
  <2>. QED BY <2>1, <2>2, <2>3, <2>4 DEF BlocksApart
<1>16. FilesGood => FilesGood'
  <2>1. \A f \in ConsoleFree : f \notin bad
    BY FreeOfHomes
  <2>2. current'.files = files /\ bad' = bad
    BY <1>1, <1>2
  <2>. QED BY <2>1, <2>2, <1>6 DEF FilesGood
<1>. QED BY <1>11, <1>12, <1>13, <1>14, <1>15, <1>16 DEF AreaInv

\* A block that wears out holds nothing live.
LEMMA WearKeepsInv ==
  ASSUME AreaInv, NEW b \in Block, WearOut(b)
  PROVE  AreaInv' /\ (FilesGood /\ ~WearsUnderFiles => FilesGood')
<1>1. /\ b \in ConsoleFree \/ (WearsUnderFiles /\ b \in current.files)
      /\ bad' = bad \cup {b} /\ UNCHANGED <<stamp, body, table, home, current>>
  BY DEF WearOut
<1>2. AreaOK' /\ CopiesFromFirst(stamp)' /\ BlocksApart'
  BY <1>1 DEF AreaInv, AreaOK, CopiesFromFirst, BlocksApart
<1>3. HomesKept'
  <2>. SUFFICES ASSUME NEW k \in Kind PROVE KindHome(stamp, body, bad', k, home[k])
    BY <1>1 DEF HomesKept
  <2>1. KindHome(stamp, body, bad, k, home[k])
    BY DEF AreaInv, HomesKept
  <2>2. home[k].blob # Absent => home[k].block \notin bad'
    <3>. SUFFICES ASSUME home[k].blob # Absent PROVE home[k].block # b /\ home[k].block \notin bad
      BY <1>1
    <3>1. home[k].block \notin current.files /\ home[k].block \notin bad
      BY HomeBlock
    <3>2. b \in ConsoleFree => home[k].block # b
      BY FreeOfHomes
    <3>. QED BY <3>1, <3>2, <1>1
  <2>. DEFINE h == home[k]
  <2>. HIDE DEF h
  <2>3. KindHome(stamp, body, bad, k, h) /\ (h.blob # Absent => h.block \notin bad')
    BY <2>1, <2>2 DEF h
  <2>4. KindHome(stamp, body, bad', k, h)
    BY <2>3, KindHomeStays
  <2>. QED BY <2>4 DEF h
<1>4. RootKept'
  <2>1. RootHome(stamp, table, bad, current)
    BY DEF AreaInv, RootKept
  <2>2. \A r \in current.root : r \notin bad'
    <3>1. b \notin current.root
      BY <1>1, FreeOfHomes DEF AreaInv, BlocksApart
    <3>2. \A r \in current.root : r \notin bad
      BY <2>1 DEF RootHome, Filesystem
    <3>. QED BY <3>1, <3>2, <1>1
  <2>3. RootHome(stamp, table, bad', current)
    BY <2>1, <2>2, RootHomeStays
  <2>. QED BY <2>3, <1>1 DEF RootKept
<1>5. FilesGood /\ ~WearsUnderFiles => FilesGood'
  BY <1>1, FreeOfHomes DEF FilesGood
<1>. QED BY <1>1, <1>2, <1>3, <1>4, <1>5 DEF AreaInv

LEMMA InitInv == Init => AreaInv /\ FilesGood
<1>. SUFFICES ASSUME Init PROVE AreaInv /\ FilesGood
  OBVIOUS
<1>. USE DEF Init
<1>0. current = [files |-> {}, held |-> {}, unnamed |-> {}, version |-> 0, root |-> {}]
  BY DEF Filesystem, NoTable
<1>1. AreaOK
  <2>1. StampsOK(stamp) /\ CellsOK(body) /\ TablesOK(table)
    BY BlankPage DEF StampsOK, CellsOK, TablesOK
  <2>2. 0 \in Block
    BY Sizes DEF Block
  <2>3. HomesOK(home)
    BY <2>2 DEF HomesOK
  <2>. QED BY <2>1, <2>3, <1>0 DEF AreaOK
<1>2. \A pg \in Page : stamp[pg].type = "none"
  BY BlankPage
<1>3. CopiesFromFirst(stamp) /\ HomesKept
  <2>1. \A k \in Kind : home[k].blob = Absent /\ \A pg \in Page : stamp[pg].type # k
    BY <1>2, BlankPage
  <2>. QED BY <2>1, <1>2, BlankPage DEF CopiesFromFirst, HomesKept, KindHome
<1>4. RootKept
  BY <1>2 DEF RootKept, RootHome
<1>5. BlocksApart /\ FilesGood
  BY <1>0 DEF BlocksApart, FilesGood
<1>. QED BY <1>1, <1>3, <1>4, <1>5 DEF AreaInv

-----------------------------------------------------------------------------
(***************************************************************************)
(* Laying the settings.                                                    *)
(***************************************************************************)

Placement == [kind : Kind, block : Block, first : 1 .. PagesPerBlock, pages : Nat, free : Int]

\* The page a blob's room ends on.
EndPage(q, mobile) == q.first - 1 + UsedPages(mobile[q.kind])

\* A blob laid whole, in a block that is its kind's to use.
PlacedAt(q, a, fs, mobile) ==
  /\ mobile[q.kind] \in Content /\ q.pages = Pages[mobile[q.kind]]
  /\ q.free = LeftOver(q.first, mobile[q.kind])
  /\ Aligned(q.first) /\ EndPage(q, mobile) =< PagesPerBlock
  /\ q.block \in DataBase .. DataLimit - 1
  /\ q.block \notin a.bad /\ q.block \notin fs.files /\ q.block \notin fs.root
  /\ \A p \in q.first .. q.first + q.pages - 1 :
       a.body[<<q.block, p>>] = <<mobile[q.kind], p - q.first + 1>>

\* Blobs do not overlap, and a block of them starts with one.
PlacedOK(ps, a, fs, mobile) ==
  /\ ps \in Seq(Placement)
  /\ \A i \in 1 .. Len(ps) :
       /\ PlacedAt(ps[i], a, fs, mobile)
       /\ \E j \in 1 .. Len(ps) : ps[j].block = ps[i].block /\ ps[j].first = 1
  /\ \A i, j \in 1 .. Len(ps) : i # j => ps[i].kind # ps[j].kind
  /\ \A i, j \in 1 .. Len(ps) :
       i < j /\ ps[i].block = ps[j].block => EndPage(ps[i], mobile) =< ps[j].first - 1

LayFields == {"area", "fs", "open", "next", "cursor", "placed", "full"}
FsFields  == {"files", "held", "unnamed", "version", "withheld", "root"}

HasFields(r, S) == r = [x \in S |-> r[x]]

\* The filesystem while settings are laid: only what it withholds grows.
FsOK(fs, fs0) ==
  /\ HasFields(fs, FsFields)
  /\ fs.unnamed \in SUBSET Block
  /\ fs.files = fs0.files /\ fs.held = fs0.held /\ fs.version = fs0.version /\ fs.root = fs0.root

NoStamps(a) == \A pg \in Page : a.stamp[pg].type = "none"

\* Everything laid so far, whatever block is open.
LaidOK(lay, fs0, badBlocks, mobile) ==
  /\ HasFields(lay, LayFields)
  /\ IsArea(lay.area) /\ NoStamps(lay.area) /\ lay.area.bad = badBlocks
  /\ FsOK(lay.fs, fs0)
  /\ lay.cursor \in Nat /\ lay.cursor >= DataBase
  /\ lay.next \in Nat /\ lay.next >= 1 /\ Whole(lay.next - 1)
  /\ PlacedOK(lay.placed, lay.area, fs0, mobile)
  /\ \A i \in 1 .. Len(lay.placed) :
       /\ lay.placed[i].block < lay.cursor
       /\ lay.placed[i].block = lay.open => EndPage(lay.placed[i], mobile) =< lay.next - 1

\* The open block holds a blob.
OpenHolds(lay) ==
  lay.open = -1 \/ \E i \in 1 .. Len(lay.placed) : lay.placed[i].block = lay.open

\* The open block takes one more blob.
Takes(lay, fs0, badBlocks, c) ==
  /\ lay.open \in DataBase .. DataLimit - 1
  /\ lay.open \notin badBlocks /\ lay.open \notin fs0.files /\ lay.open \notin fs0.root
  /\ lay.open < lay.cursor /\ lay.next - 1 + UsedPages(c) =< PagesPerBlock
  /\ \/ lay.next = 1
     \/ \E i \in 1 .. Len(lay.placed) : lay.placed[i].block = lay.open /\ lay.placed[i].first = 1

LEMMA BlobLaidIs ==
  ASSUME NEW lay, HasFields(lay, LayFields), IsArea(lay.area), NEW k, NEW c
  PROVE  LET l == BlobLaid(lay, k, c)
         IN  /\ HasFields(l, LayFields) /\ IsArea(l.area)
             /\ l.area.stamp = lay.area.stamp /\ l.area.bad = lay.area.bad
             /\ l.area.table = lay.area.table
             /\ \A pg \in Page : l.area.body[pg] =
                  IF pg[1] = lay.open /\ pg[2] \in lay.next .. lay.next + Pages[c] - 1
                  THEN <<c, pg[2] - lay.next + 1>> ELSE lay.area.body[pg]
             /\ l.placed = Append(lay.placed,
                  [kind |-> k, block |-> lay.open, first |-> lay.next,
                   pages |-> Pages[c], free |-> LeftOver(lay.next, c)])
             /\ l.next = lay.next + UsedPages(c)
             /\ l.fs = lay.fs /\ l.open = lay.open /\ l.cursor = lay.cursor /\ l.full = lay.full
<1>. DEFINE y == [pg \in Page |->
                    IF pg[1] = lay.open /\ pg[2] \in lay.next .. lay.next + Pages[c] - 1
                    THEN <<c, pg[2] - lay.next + 1>> ELSE lay.area.body[pg]]
            ps == Append(lay.placed, [kind |-> k, block |-> lay.open, first |-> lay.next,
                                      pages |-> Pages[c], free |-> LeftOver(lay.next, c)])
            n == lay.next + UsedPages(c)
            l == BlobLaid(lay, k, c)
            ar == lay.area
            s == ar.stamp
            t == ar.table
            B == ar.bad
            a2 == [stamp |-> s, body |-> y, table |-> t, bad |-> B]
<1>1. l = [lay EXCEPT !.area.body = y, !.placed = ps, !.next = n]
  BY DEF BlobLaid, LeftOver
<1>. HIDE DEF y, ps, n, l
<1>2. ar = [stamp |-> s, body |-> ar.body, table |-> t, bad |-> B]
  BY DEF IsArea
<1>3. [ar EXCEPT !.body = y] = a2
  <2>. DEFINE y0 == ar.body
  <2>. HIDE DEF y0, s, t, B
  <2>1. ar = [stamp |-> s, body |-> y0, table |-> t, bad |-> B]
    BY <1>2 DEF y0
  <2>. HIDE DEF ar
  <2>. QED BY <2>1
<1>4. l = [lay EXCEPT !.area = [ar EXCEPT !.body = y], !.placed = ps, !.next = n]
  BY <1>1
<1>. DEFINE g == [ar EXCEPT !.body = y]
<1>. HIDE DEF g
<1>5. l = [lay EXCEPT !.area = g, !.placed = ps, !.next = n]
  BY <1>4 DEF g
<1>6. /\ HasFields(l, LayFields) /\ l.area = g /\ l.placed = ps /\ l.next = n
      /\ l.fs = lay.fs /\ l.open = lay.open /\ l.cursor = lay.cursor /\ l.full = lay.full
  BY <1>5 DEF HasFields, LayFields
<1>7. CellsOK(y)
  BY DEF y, CellsOK
<1>8. IsArea(a2)
  BY <1>7 DEF IsArea
<1>9. g = a2
  BY <1>3 DEF g
<1>10. IsArea(l.area) /\ l.area.stamp = s /\ l.area.bad = B /\ l.area.table = t /\ l.area.body = y
  BY <1>6, <1>8, <1>9
<1>11. \A pg \in Page : y[pg] = IF pg[1] = lay.open /\ pg[2] \in lay.next .. lay.next + Pages[c] - 1
                  THEN <<c, pg[2] - lay.next + 1>> ELSE lay.area.body[pg]
  BY DEF y
<1>. QED BY <1>6, <1>10, <1>11 DEF l, ps, n

\* A blob laid in the open block keeps everything laid.
LEMMA BlobLaidOK ==
  ASSUME NEW lay, NEW fs0, NEW badBlocks, NEW mobile, NEW k \in Kind,
         mobile[k] \in Content, LaidOK(lay, fs0, badBlocks, mobile),
         Takes(lay, fs0, badBlocks, mobile[k]),
         \A i \in 1 .. Len(lay.placed) : lay.placed[i].kind # k
  PROVE  LET l == BlobLaid(lay, k, mobile[k])
         IN  /\ LaidOK(l, fs0, badBlocks, mobile) /\ OpenHolds(l)
             /\ l.full = lay.full
             /\ Len(l.placed) = Len(lay.placed) + 1
             /\ \A i \in 1 .. Len(lay.placed) : l.placed[i] = lay.placed[i]
             /\ l.placed[Len(lay.placed) + 1].kind = k
<1>. DEFINE c == mobile[k]
            l == BlobLaid(lay, k, c)
            q == [kind |-> k, block |-> lay.open, first |-> lay.next,
                  pages |-> Pages[c], free |-> LeftOver(lay.next, c)]
            ps == lay.placed
            n == Len(ps)
            in(pg) == pg[1] = lay.open /\ pg[2] \in lay.next .. lay.next + Pages[c] - 1
<1>1. /\ HasFields(lay, LayFields) /\ IsArea(lay.area) /\ NoStamps(lay.area)
      /\ lay.area.bad = badBlocks /\ FsOK(lay.fs, fs0)
      /\ lay.cursor \in Nat /\ lay.cursor >= DataBase
      /\ lay.next \in Nat /\ lay.next >= 1 /\ Whole(lay.next - 1)
      /\ PlacedOK(ps, lay.area, fs0, mobile)
      /\ \A i \in 1 .. n : /\ ps[i].block < lay.cursor
                           /\ ps[i].block = lay.open => EndPage(ps[i], mobile) =< lay.next - 1
  BY DEF LaidOK
<1>2. /\ HasFields(l, LayFields) /\ IsArea(l.area)
      /\ l.area.stamp = lay.area.stamp /\ l.area.bad = lay.area.bad
      /\ \A pg \in Page : in(pg) => l.area.body[pg] = <<c, pg[2] - lay.next + 1>>
      /\ \A pg \in Page : ~in(pg) => l.area.body[pg] = lay.area.body[pg]
      /\ l.placed = Append(ps, q)
      /\ l.next = lay.next + UsedPages(c)
      /\ l.fs = lay.fs /\ l.open = lay.open /\ l.cursor = lay.cursor /\ l.full = lay.full
  <2>. HIDE DEF c
  <2>1. /\ HasFields(l, LayFields) /\ IsArea(l.area)
        /\ l.area.stamp = lay.area.stamp /\ l.area.bad = lay.area.bad
        /\ \A pg \in Page : l.area.body[pg] =
             IF pg[1] = lay.open /\ pg[2] \in lay.next .. lay.next + Pages[c] - 1
             THEN <<c, pg[2] - lay.next + 1>> ELSE lay.area.body[pg]
        /\ l.placed = Append(lay.placed,
             [kind |-> k, block |-> lay.open, first |-> lay.next,
              pages |-> Pages[c], free |-> LeftOver(lay.next, c)])
        /\ l.next = lay.next + UsedPages(c)
        /\ l.fs = lay.fs /\ l.open = lay.open /\ l.cursor = lay.cursor /\ l.full = lay.full
    BY <1>1, BlobLaidIs
  <2>. HIDE DEF l
  <2>. QED BY <2>1
<1>3. c \in Content /\ Pages[c] \in Nat /\ 1 =< Pages[c] /\ UsedPages(c) \in Nat
      /\ Pages[c] =< UsedPages(c) /\ 1 =< UsedPages(c) /\ Whole(UsedPages(c))
  BY Sizes, UsedFacts
<1>4. /\ lay.open \in DataBase .. DataLimit - 1 /\ lay.open \in Block
      /\ lay.open \notin badBlocks /\ lay.open \notin fs0.files /\ lay.open \notin fs0.root
      /\ lay.open < lay.cursor /\ lay.next - 1 + UsedPages(c) =< PagesPerBlock
      /\ lay.next \in 1 .. PagesPerBlock
  BY <1>1, <1>3, Sizes DEF Takes, Block
<1>5. LeftOver(lay.next, c) \in Int
  BY <1>1, <1>3, LeftOverInt
<1>6. q \in Placement
  BY <1>3, <1>4, <1>5 DEF Placement
<1>7. ps \in Seq(Placement) /\ n \in Nat
  BY <1>1 DEF PlacedOK
<1>. HIDE DEF q, ps, l, in
<1>8. /\ l.placed \in Seq(Placement) /\ Len(l.placed) = n + 1
      /\ \A i \in 1 .. n : l.placed[i] = ps[i]
      /\ l.placed[n + 1] = q
  BY <1>2, <1>6, <1>7
<1>9. q.kind = k /\ q.block = lay.open /\ q.first = lay.next /\ q.pages = Pages[c]
      /\ q.free = LeftOver(lay.next, c) /\ EndPage(q, mobile) = lay.next - 1 + UsedPages(c)
  BY DEF q, EndPage
\* The earlier blobs lie elsewhere.
<1>10. ASSUME NEW i \in 1 .. n PROVE PlacedAt(ps[i], l.area, fs0, mobile)
  <2>. DEFINE r == ps[i]
  <2>1. PlacedAt(r, lay.area, fs0, mobile) /\ r \in Placement
    BY <1>1, <1>7 DEF PlacedOK
  <2>2. r.block = lay.open => EndPage(r, mobile) =< lay.next - 1
    BY <1>1
  <2>. HIDE DEF r, c
  <2>3. ASSUME NEW p \in r.first .. r.first + r.pages - 1
        PROVE  l.area.body[<<r.block, p>>] = lay.area.body[<<r.block, p>>]
    <3>. DEFINE pg == <<r.block, p>>
                d == mobile[r.kind]
    <3>1. d \in Content /\ r.pages = Pages[d] /\ r.first \in 1 .. PagesPerBlock /\ r.block \in Block
          /\ r.first - 1 + UsedPages(d) =< PagesPerBlock
          /\ EndPage(r, mobile) = r.first - 1 + UsedPages(d)
      BY <2>1 DEF PlacedAt, EndPage, Placement
    <3>2. Pages[d] =< UsedPages(d) /\ UsedPages(d) \in Nat /\ Pages[d] \in Nat
      BY <3>1, UsedFacts, Sizes
    <3>. HIDE DEF d
    <3>3. p \in 1 .. PagesPerBlock /\ p =< r.first - 1 + UsedPages(d)
      BY <3>1, <3>2, Sizes
    <3>4. pg \in Page /\ pg[1] = r.block /\ pg[2] = p
      BY <3>1, <3>3, BlankPage
    <3>. HIDE DEF pg
    <3>5. ~in(pg)
      <4>1. CASE r.block # lay.open
        BY <4>1, <3>4 DEF in
      <4>2. CASE r.block = lay.open
        <5>1. p =< lay.next - 1
          BY <4>2, <2>2, <3>1, <3>2, <3>3, <1>1
        <5>. QED BY <5>1, <3>4, <3>3, <1>1 DEF in
      <4>. QED BY <4>1, <4>2
    <3>. QED BY <3>4, <3>5, <1>2 DEF pg
  <2>. QED BY <2>1, <2>3, <1>2 DEF PlacedAt, r
<1>11. PlacedAt(q, l.area, fs0, mobile)
  <2>1. ASSUME NEW p \in lay.next .. lay.next + Pages[c] - 1
        PROVE  l.area.body[<<lay.open, p>>] = <<c, p - lay.next + 1>>
    <3>. DEFINE pg == <<lay.open, p>>
    <3>1. p \in 1 .. PagesPerBlock
      BY <1>1, <1>3, <1>4, Sizes
    <3>2. pg \in Page /\ pg[1] = lay.open /\ pg[2] = p
      BY <3>1, <1>4, BlankPage
    <3>. HIDE DEF pg, c
    <3>3. in(pg)
      BY <3>2 DEF in
    <3>4. l.area.body[pg] = <<c, pg[2] - lay.next + 1>>
      BY <3>2, <3>3, <1>2
    <3>. QED BY <3>2, <3>4 DEF pg
  <2>2. Aligned(lay.next)
    BY <1>1 DEF Aligned, Whole
  <2>. QED BY <2>1, <2>2, <1>1, <1>2, <1>3, <1>4, <1>9 DEF PlacedAt
<1>12. \E j \in 1 .. n + 1 : l.placed[j].block = lay.open /\ l.placed[j].first = 1
  <2>1. CASE lay.next = 1
    BY <2>1, <1>7, <1>8, <1>9
  <2>2. CASE lay.next # 1
    <3>1. PICK i \in 1 .. n : ps[i].block = lay.open /\ ps[i].first = 1
      BY <2>2 DEF Takes, ps
    <3>2. i \in 1 .. n + 1 /\ l.placed[i] = ps[i]
      BY <1>7, <1>8
    <3>. QED BY <3>1, <3>2
  <2>. QED BY <2>1, <2>2
<1>13. PlacedOK(l.placed, l.area, fs0, mobile)
  <2>1. ASSUME NEW i \in 1 .. n + 1
        PROVE  /\ PlacedAt(l.placed[i], l.area, fs0, mobile)
               /\ \E j \in 1 .. n + 1 : l.placed[j].block = l.placed[i].block /\ l.placed[j].first = 1
    <3>1. CASE i = n + 1
      BY <3>1, <1>8, <1>9, <1>11, <1>12
    <3>2. CASE i \in 1 .. n
      <4>1. PICK j \in 1 .. n : ps[j].block = ps[i].block /\ ps[j].first = 1
        BY <3>2, <1>1 DEF PlacedOK, n
      <4>2. j \in 1 .. n + 1 /\ l.placed[j] = ps[j] /\ l.placed[i] = ps[i]
        BY <3>2, <1>7, <1>8
      <4>. QED BY <3>2, <4>1, <4>2, <1>10
    <3>. QED BY <3>1, <3>2, <1>7
  <2>2. ASSUME NEW i \in 1 .. n + 1, NEW j \in 1 .. n + 1, i # j
        PROVE  l.placed[i].kind # l.placed[j].kind
    <3>1. \A x \in 1 .. n : ps[x].kind # k
      BY DEF ps
    <3>2. CASE i = n + 1
      <4>1. j \in 1 .. n
        BY <3>2, <2>2, <1>7
      <4>. QED BY <3>1, <3>2, <4>1, <1>8, <1>9
    <3>3. CASE j = n + 1
      <4>1. i \in 1 .. n
        BY <3>3, <2>2, <1>7
      <4>. QED BY <3>1, <3>3, <4>1, <1>8, <1>9
    <3>4. CASE i # n + 1 /\ j # n + 1
      <4>1. i \in 1 .. n /\ j \in 1 .. n
        BY <3>4, <1>7
      <4>2. ps[i].kind # ps[j].kind
        BY <4>1, <2>2, <1>1 DEF PlacedOK
      <4>. QED BY <4>1, <4>2, <1>8
    <3>. QED BY <3>2, <3>3, <3>4
  <2>3. ASSUME NEW i \in 1 .. n + 1, NEW j \in 1 .. n + 1, i < j,
               l.placed[i].block = l.placed[j].block
        PROVE  EndPage(l.placed[i], mobile) =< l.placed[j].first - 1
    <3>1. i \in 1 .. n /\ l.placed[i] = ps[i]
      BY <2>3, <1>7, <1>8
    <3>2. CASE j = n + 1
      BY <3>1, <3>2, <2>3, <1>1, <1>8, <1>9
    <3>3. CASE j # n + 1
      <4>1. j \in 1 .. n /\ l.placed[j] = ps[j]
        BY <3>3, <1>7, <1>8
      <4>. QED BY <3>1, <4>1, <2>3, <1>1 DEF PlacedOK
    <3>. QED BY <3>2, <3>3
  <2>. QED BY <2>1, <2>2, <2>3, <1>8 DEF PlacedOK
<1>14. ASSUME NEW i \in 1 .. n + 1
       PROVE  /\ l.placed[i].block < l.cursor
              /\ l.placed[i].block = l.open => EndPage(l.placed[i], mobile) =< l.next - 1
  <2>1. CASE i = n + 1
    <3>1. l.next - 1 = lay.next - 1 + UsedPages(c)
      BY <1>1, <1>2, <1>3
    <3>2. EndPage(q, mobile) =< l.next - 1
      BY <3>1, <1>1, <1>3, <1>9
    <3>. QED BY <2>1, <3>2, <1>2, <1>4, <1>8, <1>9
  <2>2. CASE i \in 1 .. n
    <3>. DEFINE r == ps[i]
    <3>1. l.placed[i] = r /\ r.block < lay.cursor /\ PlacedAt(r, lay.area, fs0, mobile)
          /\ r \in Placement /\ (r.block = lay.open => EndPage(r, mobile) =< lay.next - 1)
      BY <2>2, <1>1, <1>7, <1>8 DEF PlacedOK
    <3>. HIDE DEF r
    <3>2. EndPage(r, mobile) \in Int
      BY <3>1, UsedFacts DEF PlacedAt, EndPage, Placement
    <3>3. lay.next - 1 =< l.next - 1
      BY <1>1, <1>2, <1>3
    <3>4. l.next \in Int
      BY <1>1, <1>2, <1>3
    <3>. QED BY <3>1, <3>2, <3>3, <3>4, <1>1, <1>2
  <2>. QED BY <2>1, <2>2, <1>7
<1>15. l.next \in Nat /\ l.next >= 1 /\ Whole(l.next - 1)
  <2>1. lay.next - 1 \in Int /\ UsedPages(c) \in Int /\ Whole(lay.next - 1) /\ Whole(UsedPages(c))
    BY <1>1, <1>3
  <2>2. Whole((lay.next - 1) + UsedPages(c))
    BY <2>1, WholeSums
  <2>3. l.next - 1 = (lay.next - 1) + UsedPages(c)
    BY <1>1, <1>2, <1>3
  <2>. QED BY <2>2, <2>3, <1>1, <1>2, <1>3
<1>16. LaidOK(l, fs0, badBlocks, mobile)
  <2>1. NoStamps(l.area)
    BY <1>1, <1>2 DEF NoStamps
  <2>. QED BY <2>1, <1>1, <1>2, <1>8, <1>13, <1>14, <1>15 DEF LaidOK
<1>17. OpenHolds(l)
  <2>1. n + 1 \in 1 .. Len(l.placed) /\ l.placed[n + 1].block = l.open
    BY <1>2, <1>7, <1>8, <1>9
  <2>. QED BY <2>1 DEF OpenHolds
<1>. QED BY <1>2, <1>8, <1>9, <1>16, <1>17 DEF l, ps

\* A block is opened where nothing is kept.
LEMMA BlockOpenedIs ==
  ASSUME NEW lay, NEW fs0, NEW badBlocks, NEW mobile, LaidOK(lay, fs0, badBlocks, mobile),
         NEW hasFs, FreeFrom(lay.area, lay.fs, lay.cursor) # {}
  PROVE  LET l == BlockOpened(lay, hasFs)
             b == Lowest(FreeFrom(lay.area, lay.fs, lay.cursor))
         IN  /\ b \in DataBase .. DataLimit - 1 /\ b \in Block /\ b >= lay.cursor
             /\ b \notin badBlocks /\ b \notin fs0.files /\ b \notin fs0.root
             /\ HasFields(l, LayFields) /\ l.area = Erase(lay.area, {b})
             /\ FsOK(l.fs, fs0)
             /\ l.open = b /\ l.next = 1 /\ l.cursor = b + 1
             /\ l.placed = lay.placed /\ l.full = lay.full
<1>. DEFINE free == FreeFrom(lay.area, lay.fs, lay.cursor)
            b == Lowest(free)
            fs == lay.fs
            un == IF Big /\ lay.open = -1 THEN fs.unnamed \cup SteppedOver(fs, b) ELSE fs.unnamed
            wi == fs.withheld \cup {b}
            f2 == IF hasFs THEN Withholding(fs, b, lay.open = -1) ELSE fs
            e  == Erase(lay.area, {b})
            l  == BlockOpened(lay, hasFs)
<1>1. /\ HasFields(lay, LayFields) /\ lay.area.bad = badBlocks /\ FsOK(fs, fs0)
      /\ lay.cursor \in Nat /\ lay.cursor >= DataBase
  BY DEF LaidOK
<1>2. free \subseteq Nat /\ free # {}
  BY <1>1, Sizes DEF FreeFrom
<1>3. b \in free
  <2>. HIDE DEF free
  <2>. QED BY <1>2, LowestLemma
<1>4. /\ b \in lay.cursor .. DataLimit - 1
      /\ b \notin badBlocks /\ b \notin fs.files /\ b \notin fs.root
  <2>. DEFINE d == b
  <2>. HIDE DEF d
  <2>1. d \in FreeFrom(lay.area, lay.fs, lay.cursor)
    BY <1>3 DEF d
  <2>2. /\ d \in lay.cursor .. DataLimit - 1
        /\ d \notin badBlocks /\ d \notin fs.files /\ d \notin fs.root
    BY <2>1, <1>1 DEF FreeFrom
  <2>. QED BY <2>2 DEF d
<1>5. /\ b \in DataBase .. DataLimit - 1 /\ b \in Block /\ b >= lay.cursor
      /\ b \notin fs0.files /\ b \notin fs0.root
  <2>. HIDE DEF b
  <2>. QED BY <1>1, <1>4, Sizes DEF FsOK, Block
<1>6. l = [lay EXCEPT !.area = e, !.fs = f2, !.open = b, !.next = 1, !.cursor = b + 1]
  BY DEF BlockOpened
<1>7. SteppedOver(fs, b) \in SUBSET Block
  <2>. HIDE DEF b
  <2>. QED BY <1>5, Sizes DEF SteppedOver, Block
<1>8. un \in SUBSET Block
  <2>. HIDE DEF b
  <2>. QED BY <1>1, <1>7 DEF FsOK
<1>8a. Withholding(fs, b, lay.open = -1) = [fs EXCEPT !.withheld = wi, !.unnamed = un]
  BY DEF Withholding
<1>. HIDE DEF un, wi
<1>9. FsOK(f2, fs0)
  <2>1. CASE ~hasFs
    BY <2>1, <1>1
  <2>2. CASE hasFs
    <3>. DEFINE g == [fs EXCEPT !.withheld = wi, !.unnamed = un]
    <3>1. /\ HasFields(g, FsFields) /\ g.unnamed = un /\ g.files = fs.files /\ g.held = fs.held
          /\ g.version = fs.version /\ g.root = fs.root
      BY <1>1 DEF FsOK, HasFields, FsFields
    <3>. HIDE DEF g
    <3>2. FsOK(g, fs0)
      BY <3>1, <1>1, <1>8 DEF FsOK
    <3>3. f2 = g
      BY <2>2, <1>8a DEF g
    <3>. QED BY <3>2, <3>3
  <2>. QED BY <2>1, <2>2
<1>. HIDE DEF e, f2, b, l
<1>10. /\ HasFields(l, LayFields) /\ l.area = e /\ l.fs = f2
       /\ l.open = b /\ l.next = 1 /\ l.cursor = b + 1
       /\ l.placed = lay.placed /\ l.full = lay.full
  BY <1>1, <1>6 DEF HasFields, LayFields
<1>. QED BY <1>4, <1>5, <1>9, <1>10 DEF e, b, l

LEMMA BlockOpenedOK ==
  ASSUME NEW lay, NEW fs0, NEW badBlocks, NEW mobile, LaidOK(lay, fs0, badBlocks, mobile),
         NEW hasFs, FreeFrom(lay.area, lay.fs, lay.cursor) # {}, NEW c \in Content
  PROVE  LET l == BlockOpened(lay, hasFs)
         IN  /\ LaidOK(l, fs0, badBlocks, mobile) /\ Takes(l, fs0, badBlocks, c)
             /\ l.placed = lay.placed /\ l.full = lay.full
<1>. DEFINE l == BlockOpened(lay, hasFs)
            b == Lowest(FreeFrom(lay.area, lay.fs, lay.cursor))
            ps == lay.placed
            n == Len(ps)
<1>1. /\ b \in DataBase .. DataLimit - 1 /\ b \in Block /\ b >= lay.cursor
      /\ b \notin badBlocks /\ b \notin fs0.files /\ b \notin fs0.root
      /\ HasFields(l, LayFields) /\ l.area = Erase(lay.area, {b})
      /\ FsOK(l.fs, fs0)
      /\ l.open = b /\ l.next = 1 /\ l.cursor = b + 1
      /\ l.placed = ps /\ l.full = lay.full
  BY BlockOpenedIs
<1>. HIDE DEF b, l, ps
<1>2. /\ IsArea(lay.area) /\ NoStamps(lay.area) /\ lay.area.bad = badBlocks
      /\ lay.cursor \in Nat /\ lay.cursor >= DataBase
      /\ PlacedOK(ps, lay.area, fs0, mobile)
      /\ \A i \in 1 .. n : ps[i].block < lay.cursor
  BY DEF LaidOK, ps
<1>3. b \in Nat /\ {b} \in SUBSET Block
  BY <1>1, BlankPage
<1>4. /\ IsArea(l.area) /\ l.area.bad = badBlocks
      /\ \A pg \in Page :
           /\ l.area.stamp[pg] = IF pg[1] \in {b} THEN NoStamp ELSE lay.area.stamp[pg]
           /\ l.area.body[pg] = IF pg[1] \in {b} THEN Empty ELSE lay.area.body[pg]
  BY <1>1, <1>2, <1>3, EraseFacts
<1>5. NoStamps(l.area)
  BY <1>2, <1>4, BlankPage DEF NoStamps
<1>6. PlacedOK(l.placed, l.area, fs0, mobile)
  <2>1. ASSUME NEW i \in 1 .. n PROVE PlacedAt(ps[i], l.area, fs0, mobile)
    <3>. DEFINE r == ps[i]
    <3>1. PlacedAt(r, lay.area, fs0, mobile) /\ r \in Placement /\ r.block < lay.cursor
      BY <1>2 DEF PlacedOK
    <3>. HIDE DEF r
    <3>2. r.block # b
      BY <3>1, <1>1, <1>2, <1>3, BlankPage DEF Placement
    <3>3. ASSUME NEW p \in r.first .. r.first + r.pages - 1
          PROVE  l.area.body[<<r.block, p>>] = lay.area.body[<<r.block, p>>]
      <4>. DEFINE pg == <<r.block, p>>
                  d == mobile[r.kind]
      <4>1. d \in Content /\ r.pages = Pages[d] /\ r.first \in 1 .. PagesPerBlock /\ r.block \in Block
            /\ r.first - 1 + UsedPages(d) =< PagesPerBlock
        BY <3>1 DEF PlacedAt, EndPage, Placement
      <4>2. Pages[d] =< UsedPages(d) /\ UsedPages(d) \in Nat /\ Pages[d] \in Nat
        BY <4>1, UsedFacts, Sizes
      <4>. HIDE DEF d
      <4>3. p \in 1 .. PagesPerBlock
        BY <4>1, <4>2, Sizes
      <4>4. pg \in Page /\ pg[1] = r.block
        BY <4>1, <4>3, BlankPage
      <4>. HIDE DEF pg
      <4>. QED BY <4>4, <3>2, <1>4 DEF pg
    <3>. QED BY <3>1, <3>3, <1>2, <1>4 DEF PlacedAt, r
  <2>. QED BY <2>1, <1>1, <1>2 DEF PlacedOK
<1>7. ASSUME NEW i \in 1 .. n
      PROVE  ps[i].block < l.cursor /\ ps[i].block # l.open
  <2>1. ps[i].block \in Nat /\ ps[i].block < lay.cursor
    <3>1. ps[i] \in Placement
      BY <1>2 DEF PlacedOK
    <3>. QED BY <3>1, <1>2, BlankPage DEF Placement
  <2>. QED BY <2>1, <1>1, <1>2, <1>3
<1>8. Whole(l.next - 1) /\ l.next \in Nat /\ l.next >= 1
  BY <1>1, WholeEnds
<1>9. l.cursor \in Nat /\ l.cursor >= DataBase
  BY <1>1, <1>2, <1>3, Sizes
<1>10. LaidOK(l, fs0, badBlocks, mobile)
  BY <1>1, <1>4, <1>5, <1>6, <1>7, <1>8, <1>9 DEF LaidOK
<1>11. l.next - 1 + UsedPages(c) =< PagesPerBlock
  BY <1>1, UsedFacts, Sizes
<1>12. l.open < l.cursor
  BY <1>1, <1>3
<1>13. Takes(l, fs0, badBlocks, c)
  BY <1>1, <1>11, <1>12 DEF Takes
<1>. QED BY <1>1, <1>10, <1>13 DEF l, ps

\* One kind more.
LEMMA KindLaidOK ==
  ASSUME NEW lay, NEW fs0, NEW badBlocks, NEW mobile \in [Kind -> Content \cup {Absent}],
         NEW hasFs, NEW k \in Kind,
         LaidOK(lay, fs0, badBlocks, mobile), OpenHolds(lay),
         \A i \in 1 .. Len(lay.placed) : lay.placed[i].kind # k
  PROVE  LET l == KindLaid(lay, hasFs, k, mobile[k])
         IN  /\ LaidOK(l, fs0, badBlocks, mobile) /\ OpenHolds(l)
             /\ lay.full => l.full
             /\ \/ l.placed = lay.placed /\ (l.full \/ mobile[k] = Absent)
                \/ /\ Len(l.placed) = Len(lay.placed) + 1
                   /\ \A i \in 1 .. Len(lay.placed) : l.placed[i] = lay.placed[i]
                   /\ l.placed[Len(lay.placed) + 1].kind = k
<1>. DEFINE c == mobile[k]
            l == KindLaid(lay, hasFs, k, c)
            free == FreeFrom(lay.area, lay.fs, lay.cursor)
<1>0. c \in Content \cup {Absent}
  OBVIOUS
<1>1. CASE lay.full \/ c = Absent
  <2>1. l = lay
    BY <1>1 DEF KindLaid
  <2>. HIDE DEF l
  <2>. QED BY <1>1, <2>1 DEF l
<1>2. CASE ~(lay.full \/ c = Absent) /\ ~NeedsBlock(lay, c)
  <2>1. l = BlobLaid(lay, k, c)
    BY <1>2 DEF KindLaid
  <2>2. Big /\ lay.open # -1 /\ ~(lay.next - 1 + UsedPages(c) > PagesPerBlock)
    BY <1>2 DEF NeedsBlock
  <2>3. PICK i \in 1 .. Len(lay.placed) : lay.placed[i].block = lay.open
    BY <2>2 DEF OpenHolds
  <2>. DEFINE r == lay.placed[i]
  <2>4. PlacedAt(r, lay.area, fs0, mobile) /\ r.block < lay.cursor /\ lay.area.bad = badBlocks
        /\ \E j \in 1 .. Len(lay.placed) : lay.placed[j].block = r.block /\ lay.placed[j].first = 1
    BY DEF LaidOK, PlacedOK
  <2>5. c \in Content /\ UsedPages(c) \in Nat /\ lay.next \in Nat
    BY <1>0, <1>2, UsedFacts DEF LaidOK
  <2>6. Takes(lay, fs0, badBlocks, c)
    <3>. HIDE DEF c
    <3>. QED BY <2>2, <2>3, <2>4, <2>5, Sizes DEF Takes, PlacedAt
  <2>7. LET m == BlobLaid(lay, k, c)
        IN  /\ LaidOK(m, fs0, badBlocks, mobile) /\ OpenHolds(m)
            /\ m.full = lay.full
            /\ Len(m.placed) = Len(lay.placed) + 1
            /\ \A x \in 1 .. Len(lay.placed) : m.placed[x] = lay.placed[x]
            /\ m.placed[Len(lay.placed) + 1].kind = k
    BY <2>5, <2>6, BlobLaidOK
  <2>. HIDE DEF l
  <2>. QED BY <2>1, <2>7 DEF l
<1>3. CASE ~(lay.full \/ c = Absent) /\ NeedsBlock(lay, c) /\ free = {}
  <2>1. l = [lay EXCEPT !.full = TRUE]
    BY <1>3 DEF KindLaid
  <2>2. HasFields(lay, LayFields)
    BY DEF LaidOK
  <2>. HIDE DEF l
  <2>3. /\ HasFields(l, LayFields) /\ l.full
        /\ l.area = lay.area /\ l.fs = lay.fs /\ l.open = lay.open /\ l.next = lay.next
        /\ l.cursor = lay.cursor /\ l.placed = lay.placed
    BY <2>1, <2>2 DEF HasFields, LayFields
  <2>4. LaidOK(l, fs0, badBlocks, mobile) /\ OpenHolds(l)
    BY <2>3 DEF LaidOK, OpenHolds
  <2>. QED BY <2>3, <2>4 DEF l
<1>4. CASE ~(lay.full \/ c = Absent) /\ NeedsBlock(lay, c) /\ free # {}
  <2>. DEFINE o == BlockOpened(lay, hasFs)
  <2>1. l = BlobLaid(o, k, c)
    BY <1>4 DEF KindLaid
  <2>2. c \in Content
    BY <1>0, <1>4
  <2>3. /\ LaidOK(o, fs0, badBlocks, mobile) /\ Takes(o, fs0, badBlocks, c)
        /\ o.placed = lay.placed /\ o.full = lay.full
    BY <1>4, <2>2, BlockOpenedOK
  <2>. HIDE DEF o
  <2>4. LET m == BlobLaid(o, k, c)
        IN  /\ LaidOK(m, fs0, badBlocks, mobile) /\ OpenHolds(m)
            /\ m.full = o.full
            /\ Len(m.placed) = Len(o.placed) + 1
            /\ \A x \in 1 .. Len(o.placed) : m.placed[x] = o.placed[x]
            /\ m.placed[Len(o.placed) + 1].kind = k
    BY <2>2, <2>3, BlobLaidOK
  <2>. HIDE DEF l
  <2>. QED BY <2>1, <2>3, <2>4 DEF l
<1>. QED BY <1>1, <1>2, <1>3, <1>4

\* The settings are laid kind by kind.
LEMMA LayWalk ==
  ASSUME NEW area, NEW fs, NEW hasFs, NEW mobile
  PROVE  \E f : /\ f[0] = [area |-> area, fs |-> fs, open |-> -1, next |-> 1,
                           cursor |-> DataBase, placed |-> << >>, full |-> FALSE]
                /\ \A n \in Nat : n + 1 =< Len(KindOrder) =>
                     f[n + 1] = KindLaid(f[n], hasFs, KindOrder[n + 1], mobile[KindOrder[n + 1]])
                /\ MobileLaid(area, fs, hasFs, mobile) = f[Len(KindOrder)]
<1>. DEFINE start == [area |-> area, fs |-> fs, open |-> -1, next |-> 1,
                      cursor |-> DataBase, placed |-> << >>, full |-> FALSE]
            Rec(f, n) == f = [i \in 0 .. n |-> IF i = 0 THEN start
                                ELSE KindLaid(f[i - 1], hasFs, KindOrder[i], mobile[KindOrder[i]])]
            T == {n \in Nat : \E f : Rec(f, n)}
            N == Len(KindOrder)
<1>0. N \in Nat
  BY AreaAssumption
<1>. HIDE DEF start
<1>1. 0 \in T
  <2>. DEFINE f0 == [i \in 0 .. 0 |-> start]
  <2>1. f0 = [i \in 0 .. 0 |-> IF i = 0 THEN start
                 ELSE KindLaid(f0[i - 1], hasFs, KindOrder[i], mobile[KindOrder[i]])]
    OBVIOUS
  <2>. QED BY <2>1
<1>2. ASSUME NEW n \in Nat, n \in T PROVE n + 1 \in T
  <2>1. PICK f : Rec(f, n)
    BY <1>2
  <2>. DEFINE g == [i \in 0 .. n + 1 |-> IF i =< n THEN f[i]
                      ELSE KindLaid(f[n], hasFs, KindOrder[n + 1], mobile[KindOrder[n + 1]])]
  <2>2. \A i \in 0 .. n : g[i] = f[i]
    OBVIOUS
  <2>3. \A i \in 0 .. n + 1 : g[i] = IF i = 0 THEN start
                 ELSE KindLaid(g[i - 1], hasFs, KindOrder[i], mobile[KindOrder[i]])
    <3>. TAKE i \in 0 .. n + 1
    <3>1. CASE i = 0
      BY <2>1, <2>2, <3>1
    <3>2. CASE i # 0 /\ i =< n
      BY <2>1, <2>2, <3>2
    <3>3. CASE i = n + 1
      BY <2>2, <3>3
    <3>. QED BY <3>1, <3>2, <3>3
  <2>4. \E h : Rec(h, n + 1)
    <3>1. Rec(g, n + 1)
      BY <2>3
    <3>. HIDE DEF g
    <3>. QED BY <3>1
  <2>. HIDE DEF Rec
  <2>. QED BY <2>4
<1>3. N \in T
  <2>. HIDE DEF T, N
  <2>. QED BY <1>0, <1>1, <1>2, NatInductionOnSets
<1>. DEFINE F == CHOOSE f : f = [i \in 0 .. N |-> IF i = 0 THEN start
                                ELSE KindLaid(f[i - 1], hasFs, KindOrder[i], mobile[KindOrder[i]])]
<1>4. F = [i \in 0 .. N |-> IF i = 0 THEN start
                ELSE KindLaid(F[i - 1], hasFs, KindOrder[i], mobile[KindOrder[i]])]
  <2>1. \E f : Rec(f, N)
    <3>. HIDE DEF Rec
    <3>. QED BY <1>3
  <2>. QED BY <2>1
<1>5. MobileLaid(area, fs, hasFs, mobile) = F[N]
  BY DEF MobileLaid, start
<1>. HIDE DEF F
<1>6. F[0] = start
  BY <1>4, <1>0
<1>7. ASSUME NEW n \in Nat, n + 1 =< N
      PROVE  F[n + 1] = KindLaid(F[n], hasFs, KindOrder[n + 1], mobile[KindOrder[n + 1]])
  <2>1. n + 1 \in 0 .. N /\ n + 1 # 0 /\ (n + 1) - 1 = n
    BY <1>7, <1>0
  <2>2. F[n + 1] = IF n + 1 = 0 THEN start
                   ELSE KindLaid(F[(n + 1) - 1], hasFs, KindOrder[n + 1], mobile[KindOrder[n + 1]])
    BY <1>4, <2>1
  <2>. QED BY <2>1, <2>2
<1>. QED BY <1>5, <1>6, <1>7 DEF start

\* Every blob is laid once, well and apart, or the area is full.
LEMMA MobileLaidOK ==
  ASSUME NEW area, IsArea(area), NoStamps(area), NEW fs, FsOK(fs, fs), NEW hasFs,
         NEW mobile \in [Kind -> Content \cup {Absent}]
  PROVE  LET l == MobileLaid(area, fs, hasFs, mobile)
         IN  /\ LaidOK(l, fs, area.bad, mobile)
             /\ l.full \/ \A k \in Kind : mobile[k] # Absent =>
                  \E i \in 1 .. Len(l.placed) : l.placed[i].kind = k
<1>1. PICK f : /\ f[0] = [area |-> area, fs |-> fs, open |-> -1, next |-> 1,
                          cursor |-> DataBase, placed |-> << >>, full |-> FALSE]
               /\ \A n \in Nat : n + 1 =< Len(KindOrder) =>
                    f[n + 1] = KindLaid(f[n], hasFs, KindOrder[n + 1], mobile[KindOrder[n + 1]])
               /\ MobileLaid(area, fs, hasFs, mobile) = f[Len(KindOrder)]
  BY LayWalk
<1>. DEFINE N == Len(KindOrder)
            B == area.bad
            Kinds(l, n) == \A i \in 1 .. Len(l.placed) :
                             \E x \in 1 .. n : l.placed[i].kind = KindOrder[x]
            All(l, n) == l.full \/ \A x \in 1 .. n : mobile[KindOrder[x]] # Absent =>
                             \E i \in 1 .. Len(l.placed) : l.placed[i].kind = KindOrder[x]
            Good(l, n) == LaidOK(l, fs, B, mobile) /\ OpenHolds(l) /\ Kinds(l, n) /\ All(l, n)
            S == {n \in Nat : n =< N => Good(f[n], n)}
<1>2. N \in Nat /\ (\A i, j \in 1 .. N : KindOrder[i] = KindOrder[j] => i = j)
  BY AreaAssumption
<1>3. 0 \in S
  <2>. DEFINE l == f[0]
  <2>1. l = [area |-> area, fs |-> fs, open |-> -1, next |-> 1,
             cursor |-> DataBase, placed |-> << >>, full |-> FALSE]
    BY <1>1
  <2>. HIDE DEF l
  <2>2. HasFields(l, LayFields)
    BY <2>1 DEF HasFields, LayFields
  <2>3. /\ l.area = area /\ l.fs = fs /\ l.open = -1 /\ l.next = 1 /\ l.cursor = DataBase
        /\ l.placed = << >> /\ Len(l.placed) = 0
    BY <2>1
  <2>4. PlacedOK(l.placed, l.area, fs, mobile)
    BY <2>3 DEF PlacedOK
  <2>5. LaidOK(l, fs, B, mobile)
    BY <2>2, <2>3, <2>4, WholeEnds, Sizes DEF LaidOK
  <2>6. OpenHolds(l) /\ Kinds(l, 0) /\ All(l, 0)
    BY <2>3 DEF OpenHolds
  <2>. QED BY <2>5, <2>6 DEF l
<1>4. ASSUME NEW n \in Nat, n \in S PROVE n + 1 \in S
  <2>. HIDE DEF Good
  <2>. SUFFICES ASSUME n + 1 =< N PROVE Good(f[n + 1], n + 1)
    OBVIOUS
  <2>. USE DEF Good
  <2>. DEFINE lay == f[n]
              k == KindOrder[n + 1]
              l == f[n + 1]
              ps == lay.placed
  <2>1. n =< N /\ n + 1 \in 1 .. N /\ k \in Kind
    BY <1>2 DEF Kind
  <2>2. Good(lay, n)
    BY <1>4, <2>1
  <2>3. l = KindLaid(lay, hasFs, k, mobile[k])
    BY <1>1
  <2>. HIDE DEF k, lay, l
  <2>4. \A i \in 1 .. Len(ps) : ps[i].kind # k
    <3>. SUFFICES ASSUME NEW i \in 1 .. Len(ps) PROVE ps[i].kind # k
      OBVIOUS
    <3>1. PICK x \in 1 .. n : ps[i].kind = KindOrder[x]
      BY <2>2
    <3>2. x \in 1 .. N /\ x # n + 1
      BY <2>1, <1>2
    <3>. QED BY <3>1, <3>2, <2>1, <1>2 DEF k
  <2>5. /\ LaidOK(l, fs, B, mobile) /\ OpenHolds(l) /\ (lay.full => l.full)
        /\ \/ l.placed = ps /\ (l.full \/ mobile[k] = Absent)
           \/ /\ Len(l.placed) = Len(ps) + 1
              /\ \A i \in 1 .. Len(ps) : l.placed[i] = ps[i]
              /\ l.placed[Len(ps) + 1].kind = k
    <3>1. k \in Kind /\ LaidOK(lay, fs, B, mobile) /\ OpenHolds(lay)
      BY <2>1, <2>2
    <3>. DEFINE m == KindLaid(lay, hasFs, k, mobile[k])
    <3>2. \A i \in 1 .. Len(lay.placed) : lay.placed[i].kind # k
      BY <2>4
    <3>. HIDE DEF Good, B
    <3>3. /\ LaidOK(m, fs, B, mobile) /\ OpenHolds(m)
          /\ lay.full => m.full
          /\ \/ m.placed = lay.placed /\ (m.full \/ mobile[k] = Absent)
             \/ /\ Len(m.placed) = Len(lay.placed) + 1
                /\ \A i \in 1 .. Len(lay.placed) : m.placed[i] = lay.placed[i]
                /\ m.placed[Len(lay.placed) + 1].kind = k
      BY <3>1, <3>2, KindLaidOK
    <3>. HIDE DEF m
    <3>4. m = l
      BY <2>3 DEF m
    <3>. QED BY <3>3, <3>4
  <2>6. Len(ps) \in Nat
    <3>1. ps \in Seq(Placement)
      BY <2>2 DEF LaidOK, PlacedOK
    <3>. QED BY <3>1
  <2>. HIDE DEF ps
  <2>7. Kinds(l, n + 1)
    <3>. SUFFICES ASSUME NEW i \in 1 .. Len(l.placed)
                  PROVE  \E x \in 1 .. n + 1 : l.placed[i].kind = KindOrder[x]
      OBVIOUS
    <3>1. CASE i \in 1 .. Len(ps) /\ l.placed[i] = ps[i]
      <4>1. PICK x \in 1 .. n : ps[i].kind = KindOrder[x]
        BY <3>1, <2>2 DEF ps
      <4>. QED BY <4>1, <3>1
    <3>2. CASE l.placed[i].kind = k
      BY <3>2 DEF k
    <3>3. (i \in 1 .. Len(ps) /\ l.placed[i] = ps[i]) \/ l.placed[i].kind = k
      BY <2>5, <2>6
    <3>. QED BY <3>1, <3>2, <3>3
  <2>8. All(l, n + 1)
    <3>. SUFFICES ASSUME ~l.full, NEW x \in 1 .. n + 1, mobile[KindOrder[x]] # Absent
                  PROVE  \E i \in 1 .. Len(l.placed) : l.placed[i].kind = KindOrder[x]
      OBVIOUS
    <3>1. CASE x = n + 1
      <4>1. Len(l.placed) = Len(ps) + 1 /\ l.placed[Len(ps) + 1].kind = KindOrder[x]
        BY <3>1, <2>5 DEF k
      <4>2. Len(ps) + 1 \in 1 .. Len(l.placed)
        BY <4>1, <2>6
      <4>. QED BY <4>1, <4>2
    <3>2. CASE x # n + 1
      <4>1. x \in 1 .. n /\ ~lay.full
        BY <3>2, <2>5
      <4>2. PICK i \in 1 .. Len(ps) : ps[i].kind = KindOrder[x]
        BY <4>1, <2>2 DEF ps
      <4>3. i \in 1 .. Len(l.placed) /\ l.placed[i] = ps[i]
        BY <2>5, <2>6
      <4>. QED BY <4>2, <4>3
    <3>. QED BY <3>1, <3>2
  <2>. QED BY <2>5, <2>7, <2>8 DEF l
<1>5. N \in S
  <2>. HIDE DEF S, N
  <2>. QED BY <1>2, <1>3, <1>4, NatInductionOnSets
<1>6. Good(f[N], N)
  <2>. HIDE DEF Good
  <2>. QED BY <1>5, <1>2
<1>. DEFINE l == MobileLaid(area, fs, hasFs, mobile)
<1>7. l = f[N]
  BY <1>1
<1>. HIDE DEF l
<1>8. ASSUME ~l.full, NEW k \in Kind, mobile[k] # Absent
      PROVE  \E i \in 1 .. Len(l.placed) : l.placed[i].kind = k
  <2>1. PICK x \in 1 .. N : k = KindOrder[x]
    BY DEF Kind
  <2>. QED BY <2>1, <1>6, <1>7, <1>8
<1>. QED BY <1>6, <1>7, <1>8 DEF l

-----------------------------------------------------------------------------
(***************************************************************************)
(* What the stages before and after the settings leave.                    *)
(***************************************************************************)

\* No copy is left after the purge, as a block that holds one starts with one.
LEMMA PurgedFacts ==
  ASSUME NEW a, IsArea(a), CopiesFromFirst(a.stamp)
  PROVE  /\ IsArea(Purged(a)) /\ Purged(a).bad = a.bad
         /\ \A pg \in Page : /\ Purged(a).stamp[pg].type \notin Kind
                             /\ Purged(a).stamp[pg] \in {NoStamp, a.stamp[pg]}
<1>. DEFINE stale == {b \in Block : a.stamp[<<b, 1>>].type \in Kind}
            s == Blanked(PagesOf(stale), a.stamp, NoStamp)
            a1 == [a EXCEPT !.stamp = s]
            y == a.body
            t == a.table
            B == a.bad
<1>1. Purged(a) = Erase(a1, stale \ B)
  BY DEF Purged
<1>2. s = [pg \in Page |-> IF pg[1] \in stale THEN NoStamp ELSE a.stamp[pg]]
  BY DEF Blanked, PagesOf
<1>3. StampsOK(s)
  <2>. HIDE DEF stale, s
  <2>. QED BY <1>2, BlankPage DEF IsArea, StampsOK
<1>4. a1 = [stamp |-> s, body |-> y, table |-> t, bad |-> B]
  <2>. DEFINE s0 == a.stamp
  <2>1. a = [stamp |-> s0, body |-> y, table |-> t, bad |-> B]
    BY DEF IsArea
  <2>2. a1 = [a EXCEPT !.stamp = s]
    OBVIOUS
  <2>. HIDE DEF s0, s, y, t, B, a1
  <2>. QED BY <2>1, <2>2
<1>. HIDE DEF a1, s
<1>5. IsArea(a1) /\ a1.stamp = s /\ a1.bad = B
  BY <1>3, <1>4 DEF IsArea
<1>6. stale \ B \in SUBSET Block
  OBVIOUS
<1>. DEFINE S == stale \ B
<1>. HIDE DEF S
<1>7. /\ IsArea(Erase(a1, S)) /\ Erase(a1, S).bad = B
      /\ \A pg \in Page : Erase(a1, S).stamp[pg] = IF pg[1] \in S THEN NoStamp ELSE s[pg]
  <2>1. S \in SUBSET Block
    BY <1>6 DEF S
  <2>. HIDE DEF B
  <2>2. /\ IsArea(Erase(a1, S)) /\ Erase(a1, S).bad = a1.bad
        /\ \A pg \in Page : Erase(a1, S).stamp[pg] = IF pg[1] \in S THEN NoStamp ELSE a1.stamp[pg]
    BY <2>1, <1>5, EraseFacts
  <2>. QED BY <2>2, <1>5
<1>8. ASSUME NEW pg \in Page
      PROVE  s[pg] \in {NoStamp, a.stamp[pg]} /\ s[pg].type \notin Kind
  <2>1. CASE pg[1] \in stale
    BY <2>1, <1>2, BlankPage
  <2>2. CASE pg[1] \notin stale
    <3>1. s[pg] = a.stamp[pg]
      BY <2>2, <1>2
    <3>2. a.stamp[<<pg[1], 1>>].type \notin Kind
      BY <2>2, BlankPage
    <3>3. a.stamp[pg].type \notin Kind
      BY <3>2 DEF CopiesFromFirst
    <3>. QED BY <3>1, <3>3
  <2>. QED BY <2>1, <2>2
<1>. HIDE DEF stale
<1>. QED BY <1>1, <1>7, <1>8, BlankPage DEF S

\* Nor any root, when a new one is written.
LEMMA ClearedFacts ==
  ASSUME NEW a, IsArea(a), NEW hasFs,
         \A pg \in Page : a.stamp[pg].type \notin Kind,
         hasFs \/ \A pg \in Page : a.stamp[pg].type # "root"
  PROVE  /\ IsArea(RootsCleared(a, hasFs)) /\ RootsCleared(a, hasFs).bad = a.bad
         /\ NoStamps(RootsCleared(a, hasFs))
<1>0. \A pg \in Page : a.stamp[pg].type \in {"none", "root"}
  BY DEF IsArea, StampsOK, Stamp
<1>1. CASE ~hasFs
  BY <1>0, <1>1 DEF RootsCleared, NoStamps
<1>2. CASE hasFs
  <2>. DEFINE s == [pg \in Page |-> IF a.stamp[pg].type = "root" THEN NoStamp ELSE a.stamp[pg]]
              y == a.body
              t == a.table
              B == a.bad
              s0 == a.stamp
              a1 == RootsCleared(a, hasFs)
  <2>1. a1 = [a EXCEPT !.stamp = s]
    BY <1>2 DEF RootsCleared
  <2>2. a = [stamp |-> s0, body |-> y, table |-> t, bad |-> B]
    BY DEF IsArea
  <2>3. StampsOK(s) /\ \A pg \in Page : s[pg].type = "none"
    BY <1>0, BlankPage DEF IsArea, StampsOK
  <2>. HIDE DEF s, y, t, B, s0, a1
  <2>4. a1 = [stamp |-> s, body |-> y, table |-> t, bad |-> B]
    BY <2>1, <2>2
  <2>5. CellsOK(y) /\ TablesOK(t) /\ B \subseteq Block
    BY DEF IsArea, y, t, B
  <2>6. IsArea(a1) /\ a1.bad = B /\ a1.stamp = s
    BY <2>3, <2>4, <2>5 DEF IsArea
  <2>. QED BY <2>3, <2>6 DEF NoStamps, a1, B
<1>. QED BY <1>1, <1>2

\* A save writes the files and the root's table, and touches nothing else.
LEMMA SavedFacts ==
  ASSUME NEW a, IsArea(a), NEW fs, fs.files \in SUBSET Block, fs.held \in SUBSET Block,
         fs.unnamed \in SUBSET Block, NEW b \in Block
  PROVE  LET r == RootSaved(a, fs, b)
         IN  /\ IsArea(r) /\ r.bad = a.bad \ fs.files
             /\ \A pg \in Page :
                  /\ r.stamp[pg] = IF pg[1] \in fs.files THEN NoStamp ELSE a.stamp[pg]
                  /\ r.body[pg] = IF pg[1] = b THEN <<"table", 0>>
                                  ELSE IF pg[1] \in fs.files THEN <<"file", pg[2]>> ELSE a.body[pg]
             /\ r.table[b] = [files |-> fs.files, held |-> fs.held, unnamed |-> fs.unnamed]
<1>. DEFINE y1 == [pg \in Page |-> IF pg[1] \in fs.files THEN <<"file", pg[2]>> ELSE a.body[pg]]
            s1 == Blanked(PagesOf(fs.files), a.stamp, NoStamp)
            B1 == a.bad \ fs.files
            row == [files |-> fs.files, held |-> fs.held, unnamed |-> fs.unnamed]
            y2 == [pg \in Page |-> IF pg[1] = b THEN <<"table", 0>> ELSE y1[pg]]
            t == a.table
            s0 == a.stamp
            y0 == a.body
            B == a.bad
            f == FilesSaved(a, fs)
            t2 == [t EXCEPT ![b] = row]
            r == RootSaved(a, fs, b)
<1>1. f = [a EXCEPT !.body = y1, !.stamp = s1, !.bad = B1]
  BY DEF FilesSaved
<1>2. a = [stamp |-> s0, body |-> y0, table |-> t, bad |-> B]
  BY DEF IsArea
<1>3. f = [stamp |-> s1, body |-> y1, table |-> t, bad |-> B1]
  <2>. HIDE DEF f, y1, s1, B1, t, s0, y0, B
  <2>. QED BY <1>1, <1>2
<1>4. r = [stamp |-> s1, body |-> y2, table |-> t2, bad |-> B1]
  <2>. DEFINE g == f
  <2>1. g = [stamp |-> s1, body |-> y1, table |-> t, bad |-> B1]
    BY <1>3
  <2>2. r = [g EXCEPT !.table[b] = row,
                      !.body = [pg \in Page |-> IF pg[1] = b THEN <<"table", 0>> ELSE @[pg]]]
    BY DEF RootSaved
  <2>. HIDE DEF g, r, row, t, y1, s1, B1
  <2>3. g.table = t /\ g.body = y1
    BY <2>1
  <2>4. r = [g EXCEPT !.table = t2, !.body = y2]
    BY <2>2, <2>3
  <2>. HIDE DEF t2, y2
  <2>. QED BY <2>1, <2>4
<1>5. s1 = [pg \in Page |-> IF pg[1] \in fs.files THEN NoStamp ELSE a.stamp[pg]]
  BY DEF Blanked, PagesOf
<1>6. StampsOK(s1)
  <2>. HIDE DEF s1
  <2>. QED BY <1>5, BlankPage DEF IsArea, StampsOK
<1>7. CellsOK(y2)
  <2>. HIDE DEF y1
  <2>. QED BY DEF CellsOK
<1>8. row \in Table
  BY DEF Table
<1>9. TablesOK(t2) /\ t2[b] = row
  <2>. HIDE DEF row
  <2>. QED BY <1>8 DEF IsArea, TablesOK
<1>10. \A pg \in Page : y2[pg] = IF pg[1] = b THEN <<"table", 0>>
                        ELSE IF pg[1] \in fs.files THEN <<"file", pg[2]>> ELSE a.body[pg]
  OBVIOUS
<1>11. B1 \subseteq Block
  BY DEF IsArea
<1>. HIDE DEF r, s1, y2, t2, B1, row
<1>12. IsArea(r) /\ r.bad = B1 /\ r.stamp = s1 /\ r.body = y2 /\ r.table = t2
  BY <1>4, <1>6, <1>7, <1>9, <1>11 DEF IsArea
<1>. QED BY <1>5, <1>9, <1>10, <1>12 DEF r, B1, row

\* Settings laid on blocks a save leaves alone stay laid.
LEMMA SavedKeepsPlaced ==
  ASSUME NEW a, NEW ps, NEW fs0, NEW mobile, PlacedOK(ps, a, fs0, mobile), NEW r,
         r.bad \subseteq a.bad,
         \A i \in 1 .. Len(ps), pg \in Page :
           pg[1] = ps[i].block => r.body[pg] = a.body[pg]
  PROVE  PlacedOK(ps, r, fs0, mobile)
<1>. SUFFICES ASSUME NEW i \in 1 .. Len(ps) PROVE PlacedAt(ps[i], r, fs0, mobile)
  BY DEF PlacedOK
<1>. DEFINE q == ps[i]
            c == mobile[q.kind]
<1>1. PlacedAt(q, a, fs0, mobile) /\ q \in Placement
  BY DEF PlacedOK
<1>2. \A pg \in Page : pg[1] = q.block => r.body[pg] = a.body[pg]
  OBVIOUS
<1>. HIDE DEF q
<1>3. ASSUME NEW p \in q.first .. q.first + q.pages - 1
      PROVE  r.body[<<q.block, p>>] = a.body[<<q.block, p>>]
  <2>1. /\ c \in Content /\ q.pages = Pages[c] /\ q.first \in 1 .. PagesPerBlock
        /\ q.block \in Block /\ q.first - 1 + UsedPages(c) =< PagesPerBlock
    BY <1>1 DEF PlacedAt, EndPage, Placement
  <2>. HIDE DEF c
  <2>2. Pages[c] =< UsedPages(c) /\ UsedPages(c) \in Nat /\ Pages[c] \in Nat
    BY <2>1, UsedFacts, Sizes
  <2>3. p \in 1 .. PagesPerBlock
    BY <2>1, <2>2, Sizes
  <2>4. <<q.block, p>> \in Page /\ <<q.block, p>>[1] = q.block
    BY <2>1, <2>3, BlankPage
  <2>. QED BY <2>4, <1>2
<1>. QED BY <1>1, <1>3 DEF PlacedAt, q

\* The pages a blob laid fills.
Fills(q, pg) == pg[1] = q.block /\ pg[2] \in q.first .. q.first + q.pages - 1

CopyStamp(q) == [type |-> q.kind, seq |-> 1, free |-> q.free, size |-> q.pages]

\* Blobs fill no page twice.
LEMMA FillsOnce ==
  ASSUME NEW ps, NEW a, NEW fs0, NEW mobile, PlacedOK(ps, a, fs0, mobile),
         NEW i \in 1 .. Len(ps), NEW j \in 1 .. Len(ps), NEW pg \in Page,
         Fills(ps[i], pg), Fills(ps[j], pg)
  PROVE  i = j
<1>1. ASSUME NEW x \in 1 .. Len(ps), NEW y \in 1 .. Len(ps), x < y,
             Fills(ps[x], pg), Fills(ps[y], pg)
      PROVE  FALSE
  <2>. DEFINE q == ps[x]
              r == ps[y]
              c == mobile[q.kind]
  <2>0. ps \in Seq(Placement)
    BY DEF PlacedOK
  <2>1. q \in Placement /\ r \in Placement /\ PlacedAt(q, a, fs0, mobile)
    <3>1. PlacedAt(ps[x], a, fs0, mobile)
      BY DEF PlacedOK
    <3>. QED BY <2>0, <3>1
  <2>2. q.block = r.block /\ EndPage(q, mobile) =< r.first - 1
    BY <1>1 DEF PlacedOK, Fills
  <2>3. Fills(q, pg) /\ Fills(r, pg)
    BY <1>1
  <2>. HIDE DEF q, r
  <2>4. c \in Content /\ q.pages = Pages[c] /\ EndPage(q, mobile) = q.first - 1 + UsedPages(c)
    BY <2>1 DEF PlacedAt, EndPage
  <2>. HIDE DEF c
  <2>5. Pages[c] =< UsedPages(c) /\ UsedPages(c) \in Nat /\ Pages[c] \in Nat
    BY <2>4, UsedFacts, Sizes
  <2>6. q.first \in Int /\ r.first \in Int /\ r.pages \in Int /\ pg[2] \in Int
    BY <2>1, BlankPage DEF Placement
  <2>7. pg[2] =< q.first + Pages[c] - 1 /\ r.first =< pg[2]
    <3>1. pg[2] \in q.first .. q.first + q.pages - 1 /\ pg[2] \in r.first .. r.first + r.pages - 1
      BY <2>3 DEF Fills
    <3>. DEFINE p == pg[2]
    <3>. HIDE DEF p
    <3>2. p =< q.first + q.pages - 1 /\ r.first =< p
      BY <3>1, <2>4, <2>5, <2>6 DEF p
    <3>. QED BY <3>2, <2>4 DEF p
  <2>. DEFINE n == Pages[c]
              u == UsedPages(c)
              p == pg[2]
              f == q.first
              g == r.first
  <2>8. n \in Nat /\ u \in Nat /\ p \in Int /\ f \in Int /\ g \in Int
    BY <2>5, <2>6
  <2>9. n =< u /\ f - 1 + u =< g - 1 /\ p =< f + n - 1 /\ g =< p
    BY <2>2, <2>4, <2>5, <2>7
  <2>. HIDE DEF n, u, p, f, g
  <2>. QED BY <2>8, <2>9
<1>2. Len(ps) \in Nat
  <2>1. ps \in Seq(Placement)
    BY DEF PlacedOK
  <2>. QED BY <2>1
<1>3. i < j \/ j < i \/ i = j
  BY <1>2
<1>. QED BY <1>1, <1>3

\* The stamps of an area written: the root's, and one copy of each blob laid.
LEMMA SerializedFacts ==
  ASSUME NEW a, IsArea(a), NoStamps(a), NEW ps, NEW fs0, NEW mobile,
         PlacedOK(ps, a, fs0, mobile), NEW root \in SUBSET Block, root \cap a.bad = {},
         \A i \in 1 .. Len(ps) : ps[i].block \notin root, NEW version \in Int
  PROVE  LET d == Serialized(a, ps, root, version)
         IN  /\ IsArea(d) /\ d.body = a.body /\ d.table = a.table /\ d.bad = a.bad
             /\ \A i \in 1 .. Len(ps), pg \in Page :
                  Fills(ps[i], pg) => d.stamp[pg] = CopyStamp(ps[i])
             /\ \A pg \in Page : d.stamp[pg].type \in Kind => \E i \in 1 .. Len(ps) : Fills(ps[i], pg)
             /\ \A pg \in Page : d.stamp[pg].type = "root" => pg[1] \in root /\ pg[2] = 1
             /\ \A b \in root : d.stamp[<<b, 1>>].type = "root" /\ d.stamp[<<b, 1>>].seq = version
<1>. DEFINE rootStamp == [NoStamp EXCEPT !.type = "root", !.seq = version]
            covers(pg) == {i \in 1 .. Len(ps) : Fills(ps[i], pg)}
            cell(pg) == IF pg[1] \in a.bad THEN a.stamp[pg]
                        ELSE IF pg[1] \in root
                        THEN IF pg[2] = 1 THEN rootStamp ELSE NoStamp
                        ELSE IF covers(pg) = {} THEN a.stamp[pg]
                        ELSE CopyStamp(ps[Lowest(covers(pg))])
            s == [pg \in Page |-> cell(pg)]
            d == Serialized(a, ps, root, version)
            y == a.body
            t == a.table
            B == a.bad
            s0 == a.stamp
<1>1. d = [a EXCEPT !.stamp = s]
  BY DEF Serialized, Fills, CopyStamp
<1>2. a = [stamp |-> s0, body |-> y, table |-> t, bad |-> B]
  BY DEF IsArea
<1>3. d = [stamp |-> s, body |-> y, table |-> t, bad |-> B]
  <2>. HIDE DEF s, d, y, t, B, s0
  <2>. QED BY <1>1, <1>2
<1>4. rootStamp \in Stamp /\ rootStamp.type = "root" /\ rootStamp.seq = version
  <2>1. rootStamp = [type |-> "root", seq |-> version, free |-> 0, size |-> 0]
    <3>1. rootStamp = [NoStamp EXCEPT !.type = "root", !.seq = version]
      OBVIOUS
    <3>. HIDE DEF rootStamp
    <3>. QED BY <3>1 DEF NoStamp
  <2>. HIDE DEF rootStamp
  <2>. QED BY <2>1 DEF Stamp
<1>5. ps \in Seq(Placement) /\ Len(ps) \in Nat
  <2>1. ps \in Seq(Placement)
    BY DEF PlacedOK
  <2>. QED BY <2>1
<1>6. ASSUME NEW i \in 1 .. Len(ps)
      PROVE  CopyStamp(ps[i]) \in Stamp /\ CopyStamp(ps[i]).type \in Kind
             /\ ps[i].block \notin a.bad
  <2>1. ps[i] \in Placement /\ PlacedAt(ps[i], a, fs0, mobile)
    BY <1>5 DEF PlacedOK
  <2>. QED BY <2>1 DEF Placement, CopyStamp, Stamp, PlacedAt
<1>7. ASSUME NEW pg \in Page, NEW i \in 1 .. Len(ps), Fills(ps[i], pg)
      PROVE  cell(pg) = CopyStamp(ps[i])
  <2>1. covers(pg) = {i}
    BY <1>7, FillsOnce
  <2>2. Lowest({i}) = i
    BY <1>5, LowestLemma
  <2>3. pg[1] \notin a.bad /\ pg[1] \notin root
    BY <1>6, <1>7 DEF Fills
  <2>. HIDE DEF covers, rootStamp
  <2>. QED BY <2>1, <2>2, <2>3
<1>8. ASSUME NEW pg \in Page, \A i \in 1 .. Len(ps) : ~Fills(ps[i], pg)
      PROVE  \/ cell(pg) = a.stamp[pg]
             \/ cell(pg) = NoStamp
             \/ cell(pg) = rootStamp /\ pg[1] \in root /\ pg[2] = 1
  <2>1. covers(pg) = {}
    BY <1>8
  <2>. HIDE DEF covers, rootStamp
  <2>. QED BY <2>1
<1>9. ASSUME NEW b \in root PROVE cell(<<b, 1>>) = rootStamp
  <2>. HIDE DEF rootStamp, covers
  <2>. QED OBVIOUS
<1>10. \A pg \in Page : s[pg] = cell(pg)
  <2>. HIDE DEF cell
  <2>. QED OBVIOUS
<1>. HIDE DEF rootStamp, covers
<1>11. \A pg \in Page : cell(pg) \in Stamp
  <2>. TAKE pg \in Page
  <2>. HIDE DEF cell
  <2>1. a.stamp[pg] \in Stamp
    BY DEF IsArea, StampsOK
  <2>2. CASE \E i \in 1 .. Len(ps) : Fills(ps[i], pg)
    BY <2>2, <1>6, <1>7
  <2>3. CASE \A i \in 1 .. Len(ps) : ~Fills(ps[i], pg)
    BY <2>1, <2>3, <1>4, <1>8, BlankPage
  <2>. QED BY <2>2, <2>3
<1>. HIDE DEF cell
<1>12. StampsOK(s)
  BY <1>11 DEF StampsOK
<1>. HIDE DEF s, d, y, t, B
<1>13. IsArea(d) /\ d.stamp = s /\ d.body = y /\ d.table = t /\ d.bad = B
  <2>1. CellsOK(y) /\ TablesOK(t) /\ B \subseteq Block
    BY DEF IsArea, y, t, B
  <2>. QED BY <2>1, <1>3, <1>12 DEF IsArea
<1>14. ASSUME NEW pg \in Page, d.stamp[pg].type \in Kind
       PROVE  \E i \in 1 .. Len(ps) : Fills(ps[i], pg)
  <2>1. cell(pg).type \in Kind
    BY <1>10, <1>13, <1>14
  <2>2. a.stamp[pg].type = "none"
    BY DEF NoStamps
  <2>. QED BY <2>1, <2>2, <1>4, <1>8, BlankPage
<1>15. ASSUME NEW pg \in Page, d.stamp[pg].type = "root" PROVE pg[1] \in root /\ pg[2] = 1
  <2>1. cell(pg).type = "root"
    BY <1>10, <1>13, <1>15
  <2>2. a.stamp[pg].type = "none"
    BY DEF NoStamps
  <2>3. \A i \in 1 .. Len(ps) : ~Fills(ps[i], pg)
    BY <2>1, <1>6, <1>7, BlankPage
  <2>. QED BY <2>1, <2>2, <2>3, <1>8, BlankPage
<1>16. ASSUME NEW b \in root
       PROVE  d.stamp[<<b, 1>>].type = "root" /\ d.stamp[<<b, 1>>].seq = version
  <2>1. <<b, 1>> \in Page
    BY BlankPage
  <2>. QED BY <2>1, <1>4, <1>9, <1>10, <1>13
<1>. QED BY <1>7, <1>10, <1>13, <1>14, <1>15, <1>16 DEF d, y, t, B

\* Every kind's home is where its blob was laid.
LEMMA HomesFacts ==
  ASSUME NEW ps, NEW a, NEW fs0, NEW mobile, PlacedOK(ps, a, fs0, mobile), NEW k \in Kind
  PROVE  LET h == HomesOf(ps, mobile)[k]
         IN  \/ /\ h = [blob |-> Absent, block |-> 0, version |-> 0]
                /\ \A i \in 1 .. Len(ps) : ps[i].kind # k
             \/ \E i \in 1 .. Len(ps) :
                  ps[i].kind = k /\ h = [blob |-> mobile[k], block |-> ps[i].block, version |-> 1]
<1>. DEFINE at == {i \in 1 .. Len(ps) : ps[i].kind = k}
            h == HomesOf(ps, mobile)[k]
<1>1. h = IF at = {} THEN [blob |-> Absent, block |-> 0, version |-> 0]
          ELSE [blob |-> mobile[k], block |-> ps[Lowest(at)].block, version |-> 1]
  BY DEF HomesOf
<1>2. Len(ps) \in Nat
  <2>1. ps \in Seq(Placement)
    BY DEF PlacedOK
  <2>. QED BY <2>1
<1>3. at # {} => Lowest(at) \in at
  <2>1. at \subseteq Nat
    BY <1>2
  <2>. HIDE DEF at
  <2>. QED BY <2>1, LowestLemma
<1>4. CASE at = {}
  BY <1>1, <1>4
<1>5. CASE at # {}
  <2>1. Lowest(at) \in 1 .. Len(ps) /\ ps[Lowest(at)].kind = k
    BY <1>3, <1>5
  <2>2. h = [blob |-> mobile[k], block |-> ps[Lowest(at)].block, version |-> 1]
    BY <1>1, <1>5
  <2>. HIDE DEF at, h
  <2>3. \E i \in 1 .. Len(ps) :
                  ps[i].kind = k /\ h = [blob |-> mobile[k], block |-> ps[i].block, version |-> 1]
    BY <2>1, <2>2
  <2>. QED BY <2>3 DEF h
<1>. QED BY <1>4, <1>5
-----------------------------------------------------------------------------
(***************************************************************************)
(* What an image written holds.                                            *)
(***************************************************************************)

\* The settings are laid on an area without a copy, and without a root when
\* another is to be written.
LEMMA WriteStages ==
  ASSUME NEW area, IsArea(area), CopiesFromFirst(area.stamp), NEW fs, FsOK(fs, fs), NEW hasFs,
         hasFs \/ \A pg \in Page : area.stamp[pg].type # "root",
         NEW mobile \in [Kind -> Content \cup {Absent}]
  PROVE  LET l == MobileLaid(RootsCleared(Purged(area), hasFs), fs, hasFs, mobile)
         IN  /\ LaidOK(l, fs, area.bad, mobile)
             /\ l.full \/ \A k \in Kind : mobile[k] # Absent =>
                  \E i \in 1 .. Len(l.placed) : l.placed[i].kind = k
<1>. DEFINE a1 == Purged(area)
            a2 == RootsCleared(a1, hasFs)
<1>1. /\ IsArea(a1) /\ a1.bad = area.bad
      /\ \A pg \in Page : /\ a1.stamp[pg].type \notin Kind
                          /\ a1.stamp[pg] \in {NoStamp, area.stamp[pg]}
  BY PurgedFacts
<1>. HIDE DEF a1
<1>2. hasFs \/ \A pg \in Page : a1.stamp[pg].type # "root"
  BY <1>1, BlankPage
<1>3. IsArea(a2) /\ a2.bad = a1.bad /\ NoStamps(a2)
  BY <1>1, <1>2, ClearedFacts
<1>. DEFINE l == MobileLaid(a2, fs, hasFs, mobile)
<1>. HIDE DEF a2
<1>4. /\ LaidOK(l, fs, a2.bad, mobile)
      /\ l.full \/ \A k \in Kind : mobile[k] # Absent =>
                  \E i \in 1 .. Len(l.placed) : l.placed[i].kind = k
  BY <1>3, MobileLaidOK
<1>. HIDE DEF l
<1>5. a2.bad = area.bad
  BY <1>1, <1>3
<1>. QED BY <1>4, <1>5 DEF l, a1, a2

\* Every kind's only copy is its newest.
LEMMA LaidHomes ==
  ASSUME NEW a, NEW ps, NEW fs0, NEW mobile \in [Kind -> Content \cup {Absent}],
         PlacedOK(ps, a, fs0, mobile), NEW s,
         \A i \in 1 .. Len(ps), pg \in Page : Fills(ps[i], pg) => s[pg] = CopyStamp(ps[i]),
         \A pg \in Page : s[pg].type \in Kind => \E i \in 1 .. Len(ps) : Fills(ps[i], pg),
         NEW k \in Kind
  PROVE  LET h == HomesOf(ps, mobile)[k]
         IN  /\ KindHome(s, a.body, a.bad, k, h)
             /\ h \in [blob : Content \cup {Absent}, block : Block, version : Int]
             /\ h.blob # Absent => h.block \notin fs0.files /\
                                   \E i \in 1 .. Len(ps) : h.block = ps[i].block
             /\ \A i \in 1 .. Len(ps) : ps[i].kind = k => h.block = ps[i].block /\ h.blob = mobile[k]
<1>. DEFINE h == HomesOf(ps, mobile)[k]
<1>1. \/ /\ h = [blob |-> Absent, block |-> 0, version |-> 0]
         /\ \A i \in 1 .. Len(ps) : ps[i].kind # k
      \/ \E i \in 1 .. Len(ps) :
           ps[i].kind = k /\ h = [blob |-> mobile[k], block |-> ps[i].block, version |-> 1]
  BY HomesFacts
<1>. HIDE DEF h
<1>2. ASSUME NEW pg \in Page, s[pg].type = k
      PROVE  \E i \in 1 .. Len(ps) : Fills(ps[i], pg) /\ ps[i].kind = k
  <2>1. PICK i \in 1 .. Len(ps) : Fills(ps[i], pg)
    BY <1>2
  <2>2. s[pg] = CopyStamp(ps[i])
    BY <2>1
  <2>. QED BY <1>2, <2>1, <2>2 DEF CopyStamp
<1>3. CASE h = [blob |-> Absent, block |-> 0, version |-> 0] /\ \A i \in 1 .. Len(ps) : ps[i].kind # k
  <2>1. 0 \in Block
    BY Sizes DEF Block
  <2>2. \A pg \in Page : s[pg].type # k
    BY <1>2, <1>3
  <2>3. KindHome(s, a.body, a.bad, k, h)
    BY <2>2, <1>3 DEF KindHome
  <2>. QED BY <2>1, <2>3, <1>3 DEF h
<1>4. CASE \E i \in 1 .. Len(ps) :
             ps[i].kind = k /\ h = [blob |-> mobile[k], block |-> ps[i].block, version |-> 1]
  <2>1. PICK i \in 1 .. Len(ps) :
             ps[i].kind = k /\ h = [blob |-> mobile[k], block |-> ps[i].block, version |-> 1]
    BY <1>4
  <2>. DEFINE q == ps[i]
              c == mobile[k]
  <2>2. q \in Placement /\ PlacedAt(q, a, fs0, mobile)
    <3>1. ps \in Seq(Placement)
      BY DEF PlacedOK
    <3>2. PlacedAt(ps[i], a, fs0, mobile)
      BY DEF PlacedOK
    <3>. QED BY <3>1, <3>2
  <2>3. h.blob = c /\ h.block = q.block /\ h.version = 1 /\ q.kind = k
    BY <2>1
  <2>4. \A pg \in Page : Fills(q, pg) => s[pg] = CopyStamp(q)
    OBVIOUS
  <2>5. \A j \in 1 .. Len(ps) : ps[j].kind = k => j = i
    BY <2>1 DEF PlacedOK
  <2>6. ASSUME NEW pg \in Page, s[pg].type = k PROVE Fills(q, pg)
    BY <1>2, <2>5, <2>6
  <2>. HIDE DEF q
  <2>7. /\ c \in Content /\ q.pages = Pages[c] /\ q.free = LeftOver(q.first, c)
        /\ Aligned(q.first) /\ q.first - 1 + UsedPages(c) =< PagesPerBlock
        /\ q.block \in Block /\ q.first \in 1 .. PagesPerBlock
        /\ q.block \notin a.bad /\ q.block \notin fs0.files
        /\ \A p \in q.first .. q.first + q.pages - 1 :
             a.body[<<q.block, p>>] = <<c, p - q.first + 1>>
    BY <2>2, <2>3 DEF PlacedAt, EndPage, Placement
  <2>. HIDE DEF c
  <2>8. /\ q.first + Pages[c] - 1 =< PagesPerBlock
        /\ \A p \in q.first .. q.first + Pages[c] - 1 : p \in 1 .. PagesPerBlock
    <3>1. Pages[c] =< UsedPages(c) /\ UsedPages(c) \in Nat /\ Pages[c] \in Nat
      BY <2>7, UsedFacts, Sizes
    <3>. QED BY <3>1, <2>7, Sizes
  <2>9. ASSUME NEW p \in q.first .. q.first + Pages[c] - 1
        PROVE  s[<<q.block, p>>] = [type |-> k, seq |-> 1, free |-> LeftOver(q.first, c),
                                    size |-> Pages[c]]
    <3>. DEFINE pg == <<q.block, p>>
    <3>1. pg \in Page /\ pg[1] = q.block /\ pg[2] = p
      BY <2>7, <2>8, BlankPage
    <3>. HIDE DEF pg
    <3>2. Fills(q, pg)
      BY <3>1, <2>7, <2>9 DEF Fills
    <3>3. s[pg] = CopyStamp(q)
      BY <3>1, <3>2, <2>4
    <3>. QED BY <3>3, <2>3, <2>7 DEF pg, CopyStamp
  <2>10. CopyAt(s, a.body, k, c, q.block, q.first, 1)
    BY <2>7, <2>8, <2>9 DEF CopyAt
  <2>11. OthersOlder(s, k, c, q.block, q.first, 1)
    BY <2>6, <2>7 DEF OthersOlder, Fills
  <2>12. KindHome(s, a.body, a.bad, k, h)
    BY <2>3, <2>7, <2>10, <2>11 DEF KindHome
  <2>13. h \in [blob : Content \cup {Absent}, block : Block, version : Int]
    BY <2>1, <2>7 DEF q, c
  <2>14. \A j \in 1 .. Len(ps) : ps[j].kind = k => h.block = ps[j].block /\ h.blob = mobile[k]
    BY <2>1, <2>5
  <2>15. h.block \notin fs0.files /\ \E j \in 1 .. Len(ps) : h.block = ps[j].block
    BY <2>1, <2>3, <2>7
  <2>. QED BY <2>12, <2>13, <2>14, <2>15 DEF h
<1>. QED BY <1>1, <1>3, <1>4

\* A block of copies starts with one.
LEMMA LaidFromFirst ==
  ASSUME NEW a, NEW ps, NEW fs0, NEW mobile, PlacedOK(ps, a, fs0, mobile), NEW s,
         \A i \in 1 .. Len(ps), pg \in Page : Fills(ps[i], pg) => s[pg] = CopyStamp(ps[i]),
         \A pg \in Page : s[pg].type \in Kind => \E i \in 1 .. Len(ps) : Fills(ps[i], pg)
  PROVE  CopiesFromFirst(s)
<1>. SUFFICES ASSUME NEW pg \in Page, s[pg].type \in Kind
              PROVE  s[<<pg[1], 1>>].type \in Kind
  BY DEF CopiesFromFirst
<1>1. PICK i \in 1 .. Len(ps) : Fills(ps[i], pg)
  OBVIOUS
<1>2. PICK j \in 1 .. Len(ps) : ps[j].block = ps[i].block /\ ps[j].first = 1
  BY DEF PlacedOK
<1>. DEFINE q == ps[j]
            c == mobile[q.kind]
            p1 == <<pg[1], 1>>
<1>3. q \in Placement /\ PlacedAt(q, a, fs0, mobile)
  <2>1. ps \in Seq(Placement)
    BY DEF PlacedOK
  <2>2. PlacedAt(ps[j], a, fs0, mobile)
    BY DEF PlacedOK
  <2>. QED BY <2>1, <2>2
<1>4. p1 \in Page /\ p1[1] = pg[1] /\ p1[2] = 1
  BY BlankPage
<1>5. q.block = pg[1] /\ q.first = 1 /\ (Fills(q, p1) => s[p1] = CopyStamp(q))
  BY <1>1, <1>2, <1>4 DEF Fills
<1>. HIDE DEF q, p1
<1>6. c \in Content /\ q.pages = Pages[c] /\ q.kind \in Kind
  BY <1>3 DEF PlacedAt, Placement
<1>. HIDE DEF c
<1>7. Pages[c] \in Nat /\ 1 =< Pages[c]
  BY <1>6, Sizes
<1>8. Fills(q, p1)
  BY <1>4, <1>5, <1>6, <1>7 DEF Fills
<1>. QED BY <1>5, <1>6, <1>8 DEF CopyStamp, p1
\* What a write is given: an area as a parse or an erase leaves it, and a
\* filesystem to be saved or none at all.
WriteOf(area, fs, hasFs, mobile) ==
  /\ IsArea(area) /\ CopiesFromFirst(area.stamp) /\ area.bad = bad
  /\ FsOK(fs, fs) /\ fs.files \in SUBSET Block /\ fs.held \in SUBSET Block
  /\ fs.version \in Int
  /\ mobile \in [Kind -> Content \cup {Absent}]
  /\ \/ hasFs /\ fs.version >= 1
     \/ /\ ~hasFs /\ current = Filesystem(NoTable, 0, {})
        /\ \A pg \in Page : area.stamp[pg].type # "root"

\* The image a write leaves: what was saved, the settings and the root laid in
\* it, and the stamps serialize adds.
Written(op, fs, hasFs, mobile, saved, ps, root) ==
  /\ IsArea(saved) /\ NoStamps(saved) /\ PlacedOK(ps, saved, fs, mobile)
  /\ root \in SUBSET Block /\ root \cap saved.bad = {} /\ root \cap fs.files = {}
  /\ \A i \in 1 .. Len(ps) : ps[i].block \notin root
  /\ \A k \in Kind : mobile[k] # Absent => \E i \in 1 .. Len(ps) : ps[i].kind = k
  /\ LET d == Serialized(saved, ps, root, fs.version)
     IN  stamp' = d.stamp /\ body' = d.body /\ table' = d.table /\ bad' = d.bad
  /\ home' = HomesOf(ps, mobile) /\ last' = [op |-> op, code |-> "ok"]
  /\ \/ /\ ~hasFs /\ root = {} /\ saved.bad = bad /\ current' = current
     \/ /\ hasFs /\ saved.bad = bad \ fs.files
        /\ \E b \in Block : root = {b} /\
             saved.table[b] = [files |-> current'.files, held |-> current'.held,
                               unnamed |-> current'.unnamed]
        /\ \A pg \in Page : pg[1] \in fs.files => saved.body[pg] = <<"file", pg[2]>>
        /\ current'.files = fs.files /\ current'.version = fs.version /\ current'.root = root
        /\ current' \in [files : SUBSET Block, held : SUBSET Block, unnamed : SUBSET Block,
                         version : Int, root : SUBSET Block]

\* The stages of a write that succeeds.
LEMMA WriteSucceeds ==
  ASSUME NEW area, NEW fs, NEW hasFs, NEW mobile, WriteOf(area, fs, hasFs, mobile),
         NEW op, WriteImage(op, area, fs, hasFs, mobile), last'.code = "ok"
  PROVE  \E saved, ps, root : Written(op, fs, hasFs, mobile, saved, ps, root)
<1>. DEFINE lay == MobileLaid(RootsCleared(Purged(area), hasFs), fs, hasFs, mobile)
            free == FreeFrom(lay.area, lay.fs, lay.cursor)
            ps == lay.placed
<1>1. /\ LaidOK(lay, fs, bad, mobile)
      /\ lay.full \/ \A k \in Kind : mobile[k] # Absent => \E i \in 1 .. Len(ps) : ps[i].kind = k
  <2>1. /\ IsArea(area) /\ CopiesFromFirst(area.stamp) /\ FsOK(fs, fs) /\ area.bad = bad
        /\ hasFs \/ \A pg \in Page : area.stamp[pg].type # "root"
        /\ mobile \in [Kind -> Content \cup {Absent}]
    BY DEF WriteOf
  <2>. DEFINE m == MobileLaid(RootsCleared(Purged(area), hasFs), fs, hasFs, mobile)
  <2>2. /\ LaidOK(m, fs, area.bad, mobile)
        /\ m.full \/ \A k \in Kind : mobile[k] # Absent =>
                  \E i \in 1 .. Len(m.placed) : m.placed[i].kind = k
    BY <2>1, WriteStages
  <2>. HIDE DEF m
  <2>. QED BY <2>1, <2>2 DEF m
<1>2. \/ last' = [op |-> op, code |-> "Exhausted"]
      \/ /\ ~lay.full /\ (~hasFs \/ free # {})
         /\ LET root  == IF hasFs THEN {Lowest(free)} ELSE {}
                saved == IF hasFs THEN RootSaved(lay.area, lay.fs, Lowest(free)) ELSE lay.area
                done  == Serialized(saved, lay.placed, root, lay.fs.version)
            IN  /\ stamp' = done.stamp /\ body' = done.body
                /\ table' = done.table /\ bad' = done.bad
                /\ home' = HomesOf(lay.placed, mobile)
                /\ current' = IF hasFs
                              THEN Filesystem(lay.fs, lay.fs.version, root) ELSE current
                /\ last' = [op |-> op, code |-> "ok"]
  BY DEF WriteImage
<1>. HIDE DEF lay, free
<1>3. last' # [op |-> op, code |-> "Exhausted"]
  OBVIOUS
<1>4. /\ IsArea(lay.area) /\ NoStamps(lay.area) /\ lay.area.bad = bad /\ FsOK(lay.fs, fs)
      /\ lay.cursor \in Nat /\ lay.cursor >= DataBase
      /\ PlacedOK(ps, lay.area, fs, mobile)
      /\ \A i \in 1 .. Len(ps) : ps[i].block < lay.cursor
  BY <1>1 DEF LaidOK
<1>5. /\ lay.fs.files = fs.files /\ lay.fs.held = fs.held /\ lay.fs.version = fs.version
      /\ lay.fs.unnamed \in SUBSET Block
  BY <1>4 DEF FsOK
<1>6. fs.files \in SUBSET Block /\ fs.held \in SUBSET Block /\ fs.version \in Int
  BY DEF WriteOf
<1>7. \A i \in 1 .. Len(ps) : ps[i].block \in Block /\ ps[i].block \notin fs.files
  <2>1. ps \in Seq(Placement)
    BY <1>4 DEF PlacedOK
  <2>2. \A i \in 1 .. Len(ps) : PlacedAt(ps[i], lay.area, fs, mobile)
    BY <1>4 DEF PlacedOK
  <2>3. \A i \in 1 .. Len(ps) : ps[i] \in Placement
    BY <2>1
  <2>. QED BY <2>2, <2>3 DEF PlacedAt, Placement
<1>8. CASE ~hasFs
  <2>. DEFINE d == Serialized(lay.area, ps, {}, fs.version)
  <2>1. /\ stamp' = d.stamp /\ body' = d.body /\ table' = d.table /\ bad' = d.bad
        /\ home' = HomesOf(ps, mobile) /\ current' = current
        /\ last' = [op |-> op, code |-> "ok"] /\ ~lay.full
    BY <1>2, <1>3, <1>5, <1>8
  <2>2. Written(op, fs, hasFs, mobile, lay.area, ps, {})
    BY <2>1, <1>1, <1>4, <1>8 DEF Written
  <2>. QED BY <2>2
<1>9. CASE hasFs
  <2>. DEFINE b == Lowest(free)
              r == RootSaved(lay.area, lay.fs, b)
              d == Serialized(r, ps, {b}, fs.version)
  <2>1. /\ stamp' = d.stamp /\ body' = d.body /\ table' = d.table /\ bad' = d.bad
        /\ home' = HomesOf(ps, mobile) /\ current' = Filesystem(lay.fs, fs.version, {b})
        /\ last' = [op |-> op, code |-> "ok"] /\ ~lay.full /\ free # {}
    BY <1>2, <1>3, <1>5, <1>9
  <2>2. free \subseteq Nat /\ free \subseteq Block
        /\ \A x \in free : x >= lay.cursor /\ x \notin bad /\ x \notin fs.files
    BY <1>4, <1>5, Sizes DEF free, FreeFrom, Block
  <2>3. b \in free
    BY <2>1, <2>2, LowestLemma
  <2>4. b \in Block /\ b >= lay.cursor /\ b \notin bad /\ b \notin fs.files
    BY <2>2, <2>3
  <2>. HIDE DEF b
  <2>5. /\ IsArea(r) /\ r.bad = lay.area.bad \ lay.fs.files
        /\ \A pg \in Page :
             /\ r.stamp[pg] = IF pg[1] \in lay.fs.files THEN NoStamp ELSE lay.area.stamp[pg]
             /\ r.body[pg] = IF pg[1] = b THEN <<"table", 0>>
                             ELSE IF pg[1] \in lay.fs.files THEN <<"file", pg[2]>>
                             ELSE lay.area.body[pg]
        /\ r.table[b] = [files |-> lay.fs.files, held |-> lay.fs.held, unnamed |-> lay.fs.unnamed]
    <3>. DEFINE a0 == lay.area
                f0 == lay.fs
                r0 == RootSaved(a0, f0, b)
    <3>1. IsArea(a0) /\ f0.files \in SUBSET Block /\ f0.held \in SUBSET Block
          /\ f0.unnamed \in SUBSET Block
      BY <1>4, <1>5, <1>6
    <3>. HIDE DEF a0, f0
    <3>2. /\ IsArea(r0) /\ r0.bad = a0.bad \ f0.files
          /\ \A pg \in Page :
             /\ r0.stamp[pg] = IF pg[1] \in f0.files THEN NoStamp ELSE a0.stamp[pg]
             /\ r0.body[pg] = IF pg[1] = b THEN <<"table", 0>>
                             ELSE IF pg[1] \in f0.files THEN <<"file", pg[2]>>
                             ELSE a0.body[pg]
          /\ r0.table[b] = [files |-> f0.files, held |-> f0.held, unnamed |-> f0.unnamed]
      BY <3>1, <2>4, SavedFacts
    <3>. HIDE DEF r0
    <3>3. r0 = r
      BY DEF r0, a0, f0
    <3>. QED BY <3>2, <3>3 DEF a0, f0
  <2>. HIDE DEF r, ps
  <2>6. r.bad = bad \ fs.files /\ NoStamps(r)
    BY <2>5, <1>4, <1>5, BlankPage DEF NoStamps
  <2>7. \A i \in 1 .. Len(ps) : ps[i].block # b /\ ps[i].block \notin fs.files
    BY <1>4, <1>7, <2>4, Sizes DEF Block
  <2>8. PlacedOK(ps, r, fs, mobile)
    <3>. DEFINE a0 == lay.area
    <3>1. \A i \in 1 .. Len(ps), pg \in Page : pg[1] = ps[i].block => r.body[pg] = a0.body[pg]
      BY <2>5, <2>7, <1>5
    <3>2. r.bad \subseteq a0.bad /\ PlacedOK(ps, a0, fs, mobile)
      BY <2>5, <1>4
    <3>. HIDE DEF a0
    <3>. QED BY <3>1, <3>2, SavedKeepsPlaced
  <2>9. current' = [files |-> fs.files, held |-> fs.held, unnamed |-> lay.fs.unnamed,
                    version |-> fs.version, root |-> {b}]
    BY <2>1, <1>5 DEF Filesystem
  <2>10. /\ current'.files = fs.files /\ current'.version = fs.version /\ current'.root = {b}
         /\ current'.held = fs.held /\ current'.unnamed = lay.fs.unnamed
    BY <2>9
  <2>11. current' \in [files : SUBSET Block, held : SUBSET Block, unnamed : SUBSET Block,
                       version : Int, root : SUBSET Block]
    BY <2>9, <2>4, <1>5, <1>6
  <2>12. r.table[b] = [files |-> current'.files, held |-> current'.held,
                       unnamed |-> current'.unnamed]
    BY <2>5, <2>10, <1>5
  <2>13. \A pg \in Page : pg[1] \in fs.files => r.body[pg] = <<"file", pg[2]>>
    BY <2>4, <2>5, <1>5
  <2>14. Written(op, fs, hasFs, mobile, r, ps, {b})
    <3>1. \A k \in Kind : mobile[k] # Absent => \E i \in 1 .. Len(ps) : ps[i].kind = k
      BY <2>1, <1>1 DEF ps
    <3>2. {b} \in SUBSET Block /\ {b} \cap r.bad = {} /\ {b} \cap fs.files = {}
      BY <2>4, <2>6
    <3>3. \A i \in 1 .. Len(ps) : ps[i].block \notin {b}
      BY <2>7
    <3>. QED BY <3>1, <3>2, <3>3, <2>1, <2>4, <2>5, <2>6, <2>8, <2>10, <2>11, <2>12, <2>13, <1>9
           DEF Written
  <2>. QED BY <2>14
<1>. QED BY <1>8, <1>9
\* A write leaves the invariant, no stamp of an older copy and every setting
\* it was given, and unmarks a block only for a file.
LEMMA WriteKeepsInv ==
  ASSUME AreaInv, NEW area, NEW fs, NEW hasFs, NEW mobile, WriteOf(area, fs, hasFs, mobile),
         NEW op, WriteImage(op, area, fs, hasFs, mobile)
  PROVE  /\ AreaInv' /\ NoStaleCopy' /\ (FilesGood => FilesGood')
         /\ fs.files \cap bad = {} => bad \subseteq bad'
         /\ last'.op = op
         /\ last'.code = "ok" => /\ \A k \in Kind : home'[k].blob = mobile[k]
                                 /\ IF hasFs THEN current'.files = fs.files
                                    ELSE current' = current
<1>1. \/ /\ last' = [op |-> op, code |-> "Exhausted"]
         /\ UNCHANGED <<stamp, body, table, bad, home, current>>
      \/ last'.code = "ok" /\ last'.op = op
  BY DEF WriteImage
<1>2. CASE /\ last' = [op |-> op, code |-> "Exhausted"]
           /\ UNCHANGED <<stamp, body, table, bad, home, current>>
  <2>1. AreaInv'
    <3>1. AreaOK' /\ CopiesFromFirst(stamp)' /\ BlocksApart'
      BY <1>2 DEF AreaInv, AreaOK, CopiesFromFirst, BlocksApart
    <3>2. HomesKept' /\ RootKept'
      BY <1>2 DEF AreaInv, HomesKept, RootKept
    <3>. QED BY <3>1, <3>2 DEF AreaInv
  <2>2. NoStaleCopy' /\ (FilesGood => FilesGood')
    BY <1>2 DEF NoStaleCopy, FilesGood
  <2>. QED BY <2>1, <2>2, <1>2
<1>3. CASE last'.code = "ok" /\ last'.op = op
  <2>1. PICK saved, ps, root : Written(op, fs, hasFs, mobile, saved, ps, root)
    BY <1>3, WriteSucceeds
  <2>. DEFINE d == Serialized(saved, ps, root, fs.version)
              s == d.stamp
  <2>2. /\ IsArea(saved) /\ NoStamps(saved) /\ PlacedOK(ps, saved, fs, mobile)
        /\ root \in SUBSET Block /\ root \cap saved.bad = {} /\ root \cap fs.files = {}
        /\ \A i \in 1 .. Len(ps) : ps[i].block \notin root
        /\ \A k \in Kind : mobile[k] # Absent => \E i \in 1 .. Len(ps) : ps[i].kind = k
        /\ stamp' = s /\ body' = d.body /\ table' = d.table /\ bad' = d.bad
        /\ home' = HomesOf(ps, mobile)
    BY <2>1 DEF Written
  <2>3. /\ fs.version \in Int /\ fs.files \in SUBSET Block
        /\ mobile \in [Kind -> Content \cup {Absent}]
        /\ hasFs => fs.version >= 1
        /\ ~hasFs => current = Filesystem(NoTable, 0, {})
    BY DEF WriteOf
  <2>4. /\ IsArea(d) /\ d.body = saved.body /\ d.table = saved.table /\ d.bad = saved.bad
        /\ \A i \in 1 .. Len(ps), pg \in Page : Fills(ps[i], pg) => s[pg] = CopyStamp(ps[i])
        /\ \A pg \in Page : s[pg].type \in Kind => \E i \in 1 .. Len(ps) : Fills(ps[i], pg)
        /\ \A pg \in Page : s[pg].type = "root" => pg[1] \in root /\ pg[2] = 1
        /\ \A b \in root : s[<<b, 1>>].type = "root" /\ s[<<b, 1>>].seq = fs.version
    <3>. DEFINE v == fs.version
                e == Serialized(saved, ps, root, v)
    <3>1. /\ IsArea(saved) /\ NoStamps(saved) /\ PlacedOK(ps, saved, fs, mobile)
          /\ root \in SUBSET Block /\ root \cap saved.bad = {} /\ v \in Int
          /\ \A i \in 1 .. Len(ps) : ps[i].block \notin root
      BY <2>2, <2>3
    <3>. HIDE DEF v
    <3>2. /\ IsArea(e) /\ e.body = saved.body /\ e.table = saved.table /\ e.bad = saved.bad
          /\ \A i \in 1 .. Len(ps), pg \in Page : Fills(ps[i], pg) => e.stamp[pg] = CopyStamp(ps[i])
          /\ \A pg \in Page : e.stamp[pg].type \in Kind => \E i \in 1 .. Len(ps) : Fills(ps[i], pg)
          /\ \A pg \in Page : e.stamp[pg].type = "root" => pg[1] \in root /\ pg[2] = 1
          /\ \A b \in root : e.stamp[<<b, 1>>].type = "root" /\ e.stamp[<<b, 1>>].seq = v
      BY <3>1, SerializedFacts
    <3>. HIDE DEF e
    <3>3. e = d
      BY DEF e, v
    <3>. QED BY <3>2, <3>3 DEF v
  <2>. HIDE DEF d
  <2>5. stamp' = s /\ body' = saved.body /\ table' = saved.table /\ bad' = saved.bad
    BY <2>2, <2>4
  <2>6. IsArea(d)
    BY <2>4
  <2>. HIDE DEF s
  <2>7. ASSUME NEW k \in Kind
        PROVE  /\ KindHome(stamp', body', bad', k, home'[k])
               /\ home'[k] \in [blob : Content \cup {Absent}, block : Block, version : Int]
               /\ home'[k].blob # Absent => home'[k].block \notin fs.files /\
                                         \E i \in 1 .. Len(ps) : home'[k].block = ps[i].block
               /\ \A i \in 1 .. Len(ps) :
                    ps[i].kind = k => home'[k].block = ps[i].block /\ home'[k].blob = mobile[k]
    <3>. DEFINE h == HomesOf(ps, mobile)[k]
    <3>1. /\ KindHome(s, saved.body, saved.bad, k, h)
          /\ h \in [blob : Content \cup {Absent}, block : Block, version : Int]
          /\ h.blob # Absent => h.block \notin fs.files /\
                                \E i \in 1 .. Len(ps) : h.block = ps[i].block
          /\ \A i \in 1 .. Len(ps) : ps[i].kind = k => h.block = ps[i].block /\ h.blob = mobile[k]
      BY <2>2, <2>3, <2>4, LaidHomes
    <3>2. h = home'[k]
      BY <2>2
    <3>. HIDE DEF h
    <3>. QED BY <3>1, <3>2, <2>5
  <2>8. CopiesFromFirst(stamp')
    <3>1. CopiesFromFirst(s)
      BY <2>2, <2>4, LaidFromFirst
    <3>. QED BY <3>1, <2>5
  <2>9. \/ /\ ~hasFs /\ root = {} /\ saved.bad = bad /\ current' = current
        \/ /\ hasFs /\ saved.bad = bad \ fs.files
           /\ \E b \in Block : root = {b} /\
                saved.table[b] = [files |-> current'.files, held |-> current'.held,
                                  unnamed |-> current'.unnamed]
           /\ \A pg \in Page : pg[1] \in fs.files => saved.body[pg] = <<"file", pg[2]>>
           /\ current'.files = fs.files /\ current'.version = fs.version /\ current'.root = root
           /\ current' \in [files : SUBSET Block, held : SUBSET Block, unnamed : SUBSET Block,
                            version : Int, root : SUBSET Block]
    BY <2>1 DEF Written
  <2>10. HomesKept'
    BY <2>7 DEF HomesKept
  <2>11. AreaOK'
    <3>1. StampsOK(stamp') /\ CellsOK(body') /\ TablesOK(table') /\ bad' \subseteq Block
      BY <2>2, <2>6 DEF IsArea, s
    <3>2. HomesOK(home')
      <4>1. home' = [k \in Kind |-> home'[k]]
        BY <2>2 DEF HomesOf
      <4>. QED BY <2>7, <4>1 DEF HomesOK
    <3>3. current' \in [files : SUBSET Block, held : SUBSET Block, unnamed : SUBSET Block,
                        version : Int, root : SUBSET Block]
      BY <2>9 DEF AreaInv, AreaOK
    <3>. QED BY <3>1, <3>2, <3>3 DEF AreaOK
  <2>12. RootKept'
    <3>1. CASE ~hasFs /\ root = {} /\ current' = current
      <4>1. \A pg \in Page : stamp'[pg].type # "root"
        BY <3>1, <2>4, <2>5
      <4>. QED BY <4>1, <3>1, <2>3 DEF RootKept, RootHome
    <3>2. CASE /\ hasFs
               /\ \E b \in Block : root = {b} /\
                    saved.table[b] = [files |-> current'.files, held |-> current'.held,
                                      unnamed |-> current'.unnamed]
               /\ current'.version = fs.version /\ current'.root = root
      <4>1. PICK b \in Block : root = {b} /\
                    saved.table[b] = [files |-> current'.files, held |-> current'.held,
                                      unnamed |-> current'.unnamed]
        BY <3>2
      <4>2. b \notin bad' /\ stamp'[<<b, 1>>].type = "root" /\ stamp'[<<b, 1>>].seq = fs.version
        BY <4>1, <2>2, <2>4, <2>5
      <4>3. ASSUME NEW x \in Block, stamp'[<<x, 1>>].type = "root" PROVE x = b
        <5>1. <<x, 1>> \in Page /\ <<x, 1>>[1] = x
          BY BlankPage
        <5>. QED BY <5>1, <4>1, <4>3, <2>4, <2>5
      <4>. QED BY <4>1, <4>2, <4>3, <3>2, <2>3, <2>5 DEF RootKept, RootHome
    <3>. QED BY <2>9, <3>1, <3>2
  <2>13. BlocksApart'
    <3>1. CASE ~hasFs /\ current' = current
      <4>1. current'.files = {} /\ current'.root = {}
        BY <3>1, <2>3 DEF Filesystem, NoTable
      <4>. QED BY <4>1 DEF BlocksApart
    <3>2. CASE /\ hasFs /\ current'.files = fs.files /\ current'.root = root
               /\ \A pg \in Page : pg[1] \in fs.files => saved.body[pg] = <<"file", pg[2]>>
      <4>1. ASSUME NEW f \in fs.files, NEW p \in 1 .. PagesPerBlock
            PROVE  body'[<<f, p>>] = <<"file", p>>
        <5>. DEFINE pg == <<f, p>>
        <5>1. pg \in Page /\ pg[1] = f /\ pg[2] = p
          BY <2>3, BlankPage
        <5>. HIDE DEF pg
        <5>2. body'[pg] = <<"file", p>>
          BY <5>1, <3>2, <2>5
        <5>. QED BY <5>2 DEF pg
      <4>2. \A k \in Kind : home'[k].blob # Absent => home'[k].block \notin fs.files \cup root
        BY <2>2, <2>7
      <4>. QED BY <4>1, <4>2, <3>2, <2>2 DEF BlocksApart
    <3>. QED BY <2>9, <3>1, <3>2
  <2>14. NoStaleCopy'
    <3>. SUFFICES ASSUME NEW pg \in Page, stamp'[pg].type \in Kind
                  PROVE  /\ pg[1] = home'[stamp'[pg].type].block
                         /\ stamp'[pg].seq = 1
                         /\ body'[pg][1] = home'[stamp'[pg].type].blob
      BY DEF NoStaleCopy
    <3>1. PICK i \in 1 .. Len(ps) : Fills(ps[i], pg)
      BY <2>4, <2>5
    <3>. DEFINE q == ps[i]
                c == mobile[q.kind]
    <3>2. PlacedAt(q, saved, fs, mobile)
      BY <2>2 DEF PlacedOK
    <3>3. stamp'[pg] = CopyStamp(q)
      BY <3>1, <2>4, <2>5
    <3>4. Fills(q, pg)
      BY <3>1
    <3>5. q.kind \in Kind => home'[q.kind].block = q.block /\ home'[q.kind].blob = c
      BY <2>7
    <3>. HIDE DEF q
    <3>6. stamp'[pg].type = q.kind /\ stamp'[pg].seq = 1 /\ q.kind \in Kind
      BY <3>3 DEF CopyStamp
    <3>7. pg[1] = q.block /\ pg[2] \in q.first .. q.first + q.pages - 1
      BY <3>4 DEF Fills
    <3>8. saved.body[<<q.block, pg[2]>>] = <<c, pg[2] - q.first + 1>>
      BY <3>2, <3>7 DEF PlacedAt
    <3>9. pg = <<q.block, pg[2]>>
      BY <3>7, BlankPage
    <3>. HIDE DEF c
    <3>10. body'[pg] = <<c, pg[2] - q.first + 1>>
      BY <3>8, <3>9, <2>5
    <3>. QED BY <3>5, <3>6, <3>7, <3>10
  <2>15. FilesGood' /\ (fs.files \cap bad = {} => bad \subseteq bad')
    <3>1. CASE ~hasFs /\ saved.bad = bad /\ current' = current
      <4>1. current'.files = {}
        BY <3>1, <2>3 DEF Filesystem, NoTable
      <4>. QED BY <4>1, <3>1, <2>5 DEF FilesGood
    <3>2. CASE saved.bad = bad \ fs.files /\ current'.files = fs.files
      BY <3>2, <2>5 DEF FilesGood
    <3>. QED BY <2>9, <3>1, <3>2
  <2>16. \A k \in Kind : home'[k].blob = mobile[k]
    <3>. SUFFICES ASSUME NEW k \in Kind PROVE home'[k].blob = mobile[k]
      OBVIOUS
    <3>1. CASE \E i \in 1 .. Len(ps) : ps[i].kind = k
      BY <3>1, <2>7
    <3>2. CASE \A i \in 1 .. Len(ps) : ps[i].kind # k
      <4>1. mobile[k] = Absent
        BY <3>2, <2>2
      <4>2. home'[k] = [blob |-> Absent, block |-> 0, version |-> 0]
        <5>. DEFINE h == HomesOf(ps, mobile)[k]
        <5>1. \/ h = [blob |-> Absent, block |-> 0, version |-> 0]
              \/ \E i \in 1 .. Len(ps) :
                   ps[i].kind = k /\ h = [blob |-> mobile[k], block |-> ps[i].block, version |-> 1]
          BY <2>2, HomesFacts
        <5>. HIDE DEF h
        <5>. QED BY <5>1, <3>2, <2>2 DEF h
      <4>. QED BY <4>1, <4>2
    <3>. QED BY <3>1, <3>2
  <2>. QED BY <2>8, <2>9, <2>10, <2>11, <2>12, <2>13, <2>14, <2>15, <2>16, <1>3 DEF AreaInv
<1>. QED BY <1>1, <1>2, <1>3
-----------------------------------------------------------------------------
(***************************************************************************)
(* Writing a dump back, and building from it.                              *)
(***************************************************************************)

\* The root with the highest version is the current one.
LEMMA OpenedIsCurrent == AreaInv => NewestRootFound
<1>. SUFFICES ASSUME AreaInv PROVE Opened = current
  BY DEF NewestRootFound
<1>0. current \in [files : SUBSET Block, held : SUBSET Block, unnamed : SUBSET Block,
                   version : Int, root : SUBSET Block]
  BY DEF AreaInv, AreaOK
<1>1. CASE ~HasFs
  BY <1>1, CurrentRoot DEF HasFs, Opened
<1>2. CASE HasFs
  <2>1. PICK r \in Block :
          /\ current.root = {r} /\ r \notin bad /\ current.version >= 1
          /\ stamp[<<r, 1>>].type = "root" /\ stamp[<<r, 1>>].seq = current.version
          /\ table[r] = [files |-> current.files, held |-> current.held,
                         unnamed |-> current.unnamed]
          /\ \A b \in Block : stamp[<<b, 1>>].type = "root" /\ b # r =>
               stamp[<<b, 1>>].seq < current.version
    BY <1>2, CurrentRoot
  <2>. DEFINE version == [b \in GoodRoots |-> stamp[<<b, 1>>].seq]
              best == {b \in GoodRoots : \A c \in GoodRoots : version[c] =< version[b]}
  <2>2. r \in GoodRoots /\ GoodRoots \subseteq Block
    BY <2>1, <1>0 DEF GoodRoots
  <2>3. \A b \in GoodRoots : stamp[<<b, 1>>].seq \in Int /\ version[b] = stamp[<<b, 1>>].seq
    <3>1. \A b \in Block : <<b, 1>> \in Page
      BY BlankPage
    <3>2. \A pg \in Page : stamp[pg].seq \in Int
      BY DEF AreaInv, AreaOK, StampsOK, Stamp
    <3>. QED BY <2>2, <3>1, <3>2
  <2>4. \A b \in GoodRoots : b # r => version[b] < version[r]
    <3>1. \A b \in GoodRoots : stamp[<<b, 1>>].type = "root"
      BY DEF GoodRoots
    <3>. HIDE DEF version
    <3>. QED BY <2>1, <2>2, <2>3, <3>1
  <2>5. best = {r}
    <3>1. \A b \in GoodRoots : version[b] \in Int
      BY <2>3
    <3>. HIDE DEF version
    <3>2. r \in best
      BY <2>2, <2>4, <3>1
    <3>3. \A b \in best : b = r
      <4>. SUFFICES ASSUME NEW b \in best, b # r PROVE FALSE
        OBVIOUS
      <4>1. version[r] =< version[b] /\ version[b] < version[r]
        BY <2>2, <2>4
      <4>2. version[r] \in Int /\ version[b] \in Int
        BY <2>2, <3>1
      <4>. QED BY <4>1, <4>2
    <3>. HIDE DEF best
    <3>. QED BY <3>2, <3>3
  <2>6. RootFound = r
    <3>1. {r} \subseteq Nat /\ {r} # {}
      BY BlankPage
    <3>2. Lowest({r}) \in {r}
      BY <3>1, LowestLemma
    <3>3. RootFound = Lowest(best)
      BY DEF RootFound
    <3>. QED BY <2>5, <3>2, <3>3
  <2>7. Opened = Filesystem(table[r], current.version, {r})
    BY <1>2, <2>1, <2>6 DEF Opened, HasFs
  <2>8. Opened = [files |-> current.files, held |-> current.held, unnamed |-> current.unnamed,
                  version |-> current.version, root |-> current.root]
    BY <2>1, <2>7 DEF Filesystem
  <2>. QED BY <2>8, <1>0
<1>. QED BY <1>1, <1>2

\* What a parse leaves in memory.
LEMMA LoadedFacts ==
  ASSUME AreaInv
  PROVE  /\ FsOK(Loaded, Loaded) /\ Loaded.files = current.files
         /\ Loaded.files \in SUBSET Block /\ Loaded.held \in SUBSET Block /\ Loaded.version \in Int
         /\ HasFs => Loaded.version >= 1
         /\ ~HasFs => /\ current = Filesystem(NoTable, 0, {})
                      /\ \A pg \in Page : stamp[pg].type # "root"
         /\ \A k \in Kind : Scanned[k] = home[k].blob
         /\ Scanned \in [Kind -> Content \cup {Absent}]
<1>. DEFINE c == current
<1>1. c \in [files : SUBSET Block, held : SUBSET Block, unnamed : SUBSET Block,
             version : Int, root : SUBSET Block]
  BY DEF AreaInv, AreaOK
<1>2. Opened = c
  BY OpenedIsCurrent DEF NewestRootFound
<1>. DEFINE l == Loaded
<1>3. l = [files |-> c.files, held |-> c.held, unnamed |-> c.unnamed,
           version |-> c.version, root |-> c.root, withheld |-> {}]
  BY <1>2 DEF Loaded
<1>. HIDE DEF c, l
<1>4. HasFields(l, FsFields)
  BY <1>3 DEF HasFields, FsFields
<1>5. FsOK(l, l) /\ l.files = c.files /\ l.files \in SUBSET Block /\ l.held \in SUBSET Block
      /\ l.version \in Int /\ l.version = c.version
  BY <1>1, <1>3, <1>4 DEF FsOK
<1>6. HasFs => c.version >= 1
  BY CurrentRoot DEF c
<1>7. ~HasFs => /\ c = Filesystem(NoTable, 0, {})
                /\ \A pg \in Page : stamp[pg].type # "root"
  BY CurrentRoot DEF c
<1>8. \A k \in Kind : Scanned[k] = home[k].blob
  BY NewestCopies DEF Scanned, NewestCopyIsLive
<1>9. Scanned \in [Kind -> Content \cup {Absent}]
  <2>1. \A k \in Kind : home[k].blob \in Content \cup {Absent}
    BY DEF AreaInv, AreaOK, HomesOK
  <2>2. Scanned = [k \in Kind |-> Live(k)]
    BY DEF Scanned
  <2>. QED BY <1>8, <2>1, <2>2
<1>. QED BY <1>5, <1>6, <1>7, <1>8, <1>9 DEF c, l

LEMMA WriteBackKeepsInv ==
  ASSUME AreaInv, WriteBack
  PROVE  /\ AreaInv' /\ NoStaleCopy' /\ (FilesGood => FilesGood' /\ bad \subseteq bad')
         /\ last'.op = "write_back"
         /\ last'.code = "ok" => /\ \A k \in Kind : home'[k].blob = home[k].blob
                                 /\ current'.files = current.files
<1>1. WriteImage("write_back", Area, Loaded, HasFs, Scanned)
  BY DEF WriteBack
<1>2. IsArea(Area) /\ Area.bad = bad /\ Area.stamp = stamp /\ CopiesFromFirst(stamp)
  BY AreaIsArea DEF AreaInv, Area
<1>. DEFINE a == Area
            l == Loaded
            m == Scanned
<1>3. /\ FsOK(l, l) /\ l.files = current.files
      /\ l.files \in SUBSET Block /\ l.held \in SUBSET Block /\ l.version \in Int
      /\ HasFs => l.version >= 1
      /\ ~HasFs => /\ current = Filesystem(NoTable, 0, {})
                   /\ \A pg \in Page : stamp[pg].type # "root"
      /\ \A k \in Kind : m[k] = home[k].blob
      /\ m \in [Kind -> Content \cup {Absent}]
  BY LoadedFacts
<1>. HIDE DEF a, l, m
<1>4. IsArea(a) /\ a.bad = bad /\ a.stamp = stamp /\ CopiesFromFirst(a.stamp)
  BY <1>2 DEF a
<1>5. WriteOf(a, l, HasFs, m)
  BY <1>3, <1>4 DEF WriteOf
<1>6. WriteImage("write_back", a, l, HasFs, m)
  BY <1>1 DEF a, l, m
<1>7. /\ AreaInv' /\ NoStaleCopy' /\ (FilesGood => FilesGood')
      /\ l.files \cap bad = {} => bad \subseteq bad'
      /\ last'.op = "write_back"
      /\ last'.code = "ok" => /\ \A k \in Kind : home'[k].blob = m[k]
                              /\ IF HasFs THEN current'.files = l.files
                                 ELSE current' = current
  BY <1>5, <1>6, WriteKeepsInv
<1>. QED BY <1>3, <1>7 DEF FilesGood

\* A filesystem of new files keeps out of bad blocks.
LEMMA FormattedFacts ==
  ASSUME NEW n
  PROVE  /\ FsOK(Formatted(n), Formatted(n))
         /\ Formatted(n).files \in SUBSET Block /\ Formatted(n).held \in SUBSET Block
         /\ Formatted(n).version = 1 /\ Formatted(n).files \cap bad = {}
<1>. DEFINE free == (DataBase .. DataLimit - 1) \ bad
            files == {b \in free : Cardinality({c \in free : c < b}) < n}
            held == Block \ free
            f == Formatted(n)
<1>1. f = [files |-> files, held |-> held, unnamed |-> {}, version |-> 1,
           withheld |-> {}, root |-> {}]
  BY DEF Formatted
<1>2. free \subseteq Block /\ free \cap bad = {}
  BY Sizes DEF Block
<1>3. files \subseteq free /\ held \subseteq Block
  OBVIOUS
<1>. HIDE DEF f, files, held, free
<1>4. HasFields(f, FsFields)
  BY <1>1 DEF HasFields, FsFields
<1>5. FsOK(f, f) /\ f.files = files /\ f.held = held /\ f.version = 1
  BY <1>1, <1>4 DEF FsOK
<1>. QED BY <1>2, <1>3, <1>5 DEF f

LEMMA RebuildKeepsInv ==
  ASSUME AreaInv, NEW supplied \in Supply, NEW n \in 0 .. MaxFiles, Rebuild(supplied, n)
  PROVE  /\ AreaInv' /\ NoStaleCopy' /\ (FilesGood => FilesGood' /\ bad \subseteq bad')
         /\ last'.op = "rebuild"
         /\ last'.code = "ok" =>
              \A k \in Kind : home'[k].blob = IF supplied[k] # Absent THEN supplied[k]
                                              ELSE home[k].blob
<1>. DEFINE S == Block \ bad
            a == Erase(Area, S)
            fs == IF n > 0 THEN Formatted(n) ELSE Loaded
            hasFs == n > 0 \/ HasFs
            m == Overlaid(supplied)
<1>1. WriteImage("rebuild", a, fs, hasFs, m)
  BY DEF Rebuild
<1>2. IsArea(Area) /\ Area.bad = bad /\ Area.stamp = stamp /\ CopiesFromFirst(stamp)
  BY AreaIsArea DEF AreaInv, Area
<1>3. S \in SUBSET Block
  OBVIOUS
<1>4. /\ IsArea(a) /\ a.bad = bad
      /\ \A pg \in Page : a.stamp[pg] = IF pg[1] \in S THEN NoStamp ELSE stamp[pg]
  <2>. HIDE DEF S
  <2>. QED BY <1>2, <1>3, EraseFacts
<1>. HIDE DEF S, a
<1>5. CopiesFromFirst(a.stamp)
  <2>. SUFFICES ASSUME NEW pg \in Page, a.stamp[pg].type \in Kind
                PROVE  a.stamp[<<pg[1], 1>>].type \in Kind
    BY DEF CopiesFromFirst
  <2>1. pg[1] \notin S /\ a.stamp[pg] = stamp[pg]
    BY <1>4, BlankPage
  <2>2. stamp[<<pg[1], 1>>].type \in Kind
    BY <1>2, <2>1 DEF CopiesFromFirst
  <2>3. <<pg[1], 1>> \in Page /\ <<pg[1], 1>>[1] = pg[1]
    BY BlankPage
  <2>. QED BY <1>4, <2>1, <2>2, <2>3
<1>6. /\ FsOK(Loaded, Loaded) /\ Loaded.files = current.files
      /\ Loaded.files \in SUBSET Block /\ Loaded.held \in SUBSET Block /\ Loaded.version \in Int
      /\ HasFs => Loaded.version >= 1
      /\ ~HasFs => /\ current = Filesystem(NoTable, 0, {})
                   /\ \A pg \in Page : stamp[pg].type # "root"
      /\ \A k \in Kind : Scanned[k] = home[k].blob
      /\ Scanned \in [Kind -> Content \cup {Absent}]
  BY LoadedFacts
<1>7. /\ FsOK(fs, fs) /\ fs.files \in SUBSET Block /\ fs.held \in SUBSET Block
      /\ fs.version \in Int /\ (hasFs => fs.version >= 1)
      /\ FilesGood => fs.files \cap bad = {}
  <2>1. CASE n > 0
    <3>1. fs = Formatted(n)
      BY <2>1
    <3>. HIDE DEF fs
    <3>. QED BY <3>1, FormattedFacts
  <2>2. CASE ~(n > 0)
    <3>1. fs = Loaded /\ (hasFs => HasFs)
      BY <2>2
    <3>. HIDE DEF fs, hasFs
    <3>. QED BY <3>1, <1>6 DEF FilesGood
  <2>. QED BY <2>1, <2>2
<1>8. ~hasFs => /\ current = Filesystem(NoTable, 0, {})
                /\ \A pg \in Page : a.stamp[pg].type # "root"
  <2>1. ~hasFs => ~HasFs
    OBVIOUS
  <2>. QED BY <2>1, <1>4, <1>6, BlankPage
<1>9. /\ m \in [Kind -> Content \cup {Absent}]
      /\ \A k \in Kind : m[k] = IF supplied[k] # Absent THEN supplied[k] ELSE home[k].blob
  <2>1. supplied \in [Kind -> Content \cup {Absent}]
    BY AreaAssumption DEF Absent
  <2>. QED BY <2>1, <1>6 DEF Overlaid
<1>. HIDE DEF fs, hasFs, m
<1>10. WriteOf(a, fs, hasFs, m)
  BY <1>4, <1>5, <1>7, <1>8, <1>9 DEF WriteOf
<1>11. /\ AreaInv' /\ NoStaleCopy' /\ (FilesGood => FilesGood')
       /\ fs.files \cap bad = {} => bad \subseteq bad'
       /\ last'.op = "rebuild"
       /\ last'.code = "ok" => \A k \in Kind : home'[k].blob = m[k]
  BY <1>1, <1>10, WriteKeepsInv
<1>. QED BY <1>7, <1>9, <1>11
-----------------------------------------------------------------------------
(***************************************************************************)
(* The theorems.                                                           *)
(***************************************************************************)

\* Every step keeps the invariant, and leaves a stale copy only behind a write.
LEMMA StepKeepsInv ==
  ASSUME AreaInv, [Next]_vars
  PROVE  /\ AreaInv' /\ (NoStaleCopy => NoStaleCopy')
         /\ FilesGood /\ ~WearsUnderFiles => FilesGood'
         /\ FilesGood => bad \subseteq bad'
<1>1. CASE WriteBack
  BY <1>1, WriteBackKeepsInv
<1>2. ASSUME NEW supplied \in Supply, NEW n \in 0 .. MaxFiles, Rebuild(supplied, n)
      PROVE  /\ AreaInv' /\ (NoStaleCopy => NoStaleCopy')
             /\ FilesGood /\ ~WearsUnderFiles => FilesGood'
             /\ FilesGood => bad \subseteq bad'
  BY <1>2, RebuildKeepsInv
<1>3. ASSUME NEW k \in Kind, NEW c \in Content, ConsoleStore(k, c)
      PROVE  /\ AreaInv' /\ (NoStaleCopy => NoStaleCopy')
             /\ FilesGood /\ ~WearsUnderFiles => FilesGood'
             /\ FilesGood => bad \subseteq bad'
  <2>1. UNCHANGED <<bad, current>> /\ last' = [op |-> "console", code |-> "ok"]
    BY <1>3 DEF ConsoleStore
  <2>2. AreaInv'
    BY <1>3, StoreKeepsInv
  <2>. QED BY <2>1, <2>2 DEF FilesGood, NoStaleCopy
<1>4. ASSUME NEW b \in Block, NEW f \in Block,
             NEW files \in {current.files \cup {f}, current.files \ {f}}, ConsoleSaveFs(b, files)
      PROVE  /\ AreaInv' /\ (NoStaleCopy => NoStaleCopy')
             /\ FilesGood /\ ~WearsUnderFiles => FilesGood'
             /\ FilesGood => bad \subseteq bad'
  <2>1. bad' = bad /\ last' = [op |-> "console", code |-> "ok"]
    BY <1>4 DEF ConsoleSaveFs
  <2>2. files \in SUBSET Block
    BY DEF AreaInv, AreaOK
  <2>3. AreaInv' /\ (FilesGood => FilesGood')
    BY <1>4, <2>2, SaveFsKeepsInv
  <2>. QED BY <2>1, <2>3 DEF NoStaleCopy
<1>5. ASSUME NEW b \in Block, WearOut(b)
      PROVE  /\ AreaInv' /\ (NoStaleCopy => NoStaleCopy')
             /\ FilesGood /\ ~WearsUnderFiles => FilesGood'
             /\ FilesGood => bad \subseteq bad'
  <2>1. bad' = bad \cup {b} /\ last' = [op |-> "wear", code |-> "ok"]
    BY <1>5 DEF WearOut
  <2>. QED BY <2>1, <1>5, WearKeepsInv DEF NoStaleCopy
<1>6. CASE UNCHANGED vars
  <2>1. AreaOK' /\ CopiesFromFirst(stamp)' /\ BlocksApart'
    BY <1>6 DEF vars, AreaInv, AreaOK, CopiesFromFirst, BlocksApart
  <2>2. HomesKept' /\ RootKept'
    BY <1>6 DEF vars, AreaInv, HomesKept, RootKept
  <2>3. (FilesGood => FilesGood') /\ (NoStaleCopy => NoStaleCopy') /\ bad' = bad
    BY <1>6 DEF vars, FilesGood, NoStaleCopy
  <2>. QED BY <2>1, <2>2, <2>3 DEF AreaInv
<1>. QED BY <1>1, <1>2, <1>3, <1>4, <1>5, <1>6 DEF Next

\* Only the program's two calls write an image.
LEMMA StepKinds ==
  ASSUME Next
  PROVE  \/ WriteBack
         \/ \E supplied \in Supply, n \in 0 .. MaxFiles : Rebuild(supplied, n)
         \/ last'.op \in {"console", "wear"}
<1>1. ASSUME NEW k \in Kind, NEW c \in Content, ConsoleStore(k, c) PROVE last'.op = "console"
  BY <1>1 DEF ConsoleStore
<1>2. ASSUME NEW b \in Block, NEW f \in Block,
             NEW files \in {current.files \cup {f}, current.files \ {f}}, ConsoleSaveFs(b, files)
      PROVE  last'.op = "console"
  BY <1>2 DEF ConsoleSaveFs
<1>3. ASSUME NEW b \in Block, WearOut(b) PROVE last'.op = "wear"
  BY <1>3 DEF WearOut
<1>. QED BY <1>1, <1>2, <1>3 DEF Next

\* The invariant holds of every area the program and a console reach.
THEOREM AreaInvariant == Spec => []AreaInv
<1>1. Init => AreaInv
  BY InitInv
<1>2. AreaInv /\ [Next]_vars => AreaInv'
  BY StepKeepsInv
<1>. QED BY <1>1, <1>2, PTL DEF Spec

\* Whoever wrote last, the scan that scan_mobile_copies makes of a dump takes,
\* for every kind, the copy written last: whatever the sizes of the blobs, and
\* however often blocks filled, were purged or went bad.
THEOREM NewestCopyIsTaken == Spec => []NewestCopyIsLive
<1>1. AreaInv => NewestCopyIsLive
  BY NewestCopies
<1>. QED BY <1>1, AreaInvariant, PTL

\* find_fs_root opens the filesystem saved last, although a build goes back to
\* version 1 and a donor's roots carry higher ones.
THEOREM NewestRootIsOpened == Spec => []NewestRootFound
<1>1. AreaInv => NewestRootFound
  BY OpenedIsCurrent
<1>. QED BY <1>1, AreaInvariant, PTL

\* The free runs that lay_mobile_data and place_and_save_filesystem take keep
\* files, root and live copies on blocks of their own, with every file's bytes.
THEOREM BlocksAreApart == Spec => []BlocksApart
<1>1. AreaInv => BlocksApart
  BY DEF AreaInv
<1>. QED BY <1>1, AreaInvariant, PTL

\* An image written, by a write-back or a build, holds no stamp of an older
\* copy on any block, the bad ones included.
THEOREM NoCopyIsStale == Spec => []NoStaleCopy
<1>1. Init => NoStaleCopy
  BY DEF Init, NoStaleCopy
<1>2. AreaInv /\ NoStaleCopy /\ [Next]_vars => NoStaleCopy'
  BY StepKeepsInv
<1>. QED BY <1>1, <1>2, AreaInvariant, PTL DEF Spec

\* Where blocks do not wear out under files, no call ever takes the mark off a
\* bad block: no file is placed on one, and a save unmarks only file blocks.
THEOREM MarksAreKept ==
  ASSUME ~WearsUnderFiles
  PROVE  Spec => BadMarksKept
<1>1. Init => FilesGood
  BY InitInv
<1>2. AreaInv /\ FilesGood /\ [Next]_vars => FilesGood'
  BY StepKeepsInv
<1>3. AreaInv /\ FilesGood /\ [Next]_vars => [bad \subseteq bad']_vars
  BY StepKeepsInv
<1>. QED BY <1>1, <1>2, <1>3, AreaInvariant, PTL DEF Spec, BadMarksKept

\* A dump written back in its own layout keeps every setting and every file.
WriteBackKeeps ==
  last'.op = "write_back" /\ last'.code = "ok" =>
    /\ \A k \in Kind : home'[k].blob = home[k].blob
    /\ current'.files = current.files

\* Every copy laid by lay_mobile_data is the one a parse read before, none is
\* dropped for want of a run, and the files stay where the table had them.
THEOREM WriteBackKeepsAll == Spec => [][WriteBackKeeps]_vars
<1>1. AreaInv /\ [Next]_vars => [WriteBackKeeps]_vars
  <2>. SUFFICES ASSUME AreaInv, Next PROVE WriteBackKeeps
    OBVIOUS
  <2>1. CASE WriteBack
    BY <2>1, WriteBackKeepsInv DEF WriteBackKeeps
  <2>2. ASSUME NEW supplied \in Supply, NEW n \in 0 .. MaxFiles, Rebuild(supplied, n)
        PROVE  WriteBackKeeps
    BY <2>2, RebuildKeepsInv DEF WriteBackKeeps
  <2>3. ASSUME last'.op \in {"console", "wear"} PROVE WriteBackKeeps
    BY <2>3 DEF WriteBackKeeps
  <2>. QED BY <2>1, <2>2, <2>3, StepKinds
<1>. QED BY <1>1, AreaInvariant, PTL DEF Spec

\* A build carries every setting it is supplied and the donor's others.
RebuildCarries ==
  last'.op = "rebuild" /\ last'.code = "ok" =>
    \E supplied \in Supply : \A k \in Kind :
      home'[k].blob = IF supplied[k] # Absent THEN supplied[k] ELSE home[k].blob

\* Every blob supplied is laid, and every other kind's newest copy is carried
\* over from the donor, or the build fails.
THEOREM RebuildCarriesSettings == Spec => [][RebuildCarries]_vars
<1>1. AreaInv /\ [Next]_vars => [RebuildCarries]_vars
  <2>. SUFFICES ASSUME AreaInv, Next PROVE RebuildCarries
    OBVIOUS
  <2>1. CASE WriteBack
    BY <2>1, WriteBackKeepsInv DEF RebuildCarries
  <2>2. ASSUME NEW supplied \in Supply, NEW n \in 0 .. MaxFiles, Rebuild(supplied, n)
        PROVE  RebuildCarries
    BY <2>2, RebuildKeepsInv DEF RebuildCarries
  <2>3. ASSUME last'.op \in {"console", "wear"} PROVE RebuildCarries
    BY <2>3 DEF RebuildCarries
  <2>. QED BY <2>1, <2>2, <2>3, StepKinds
<1>. QED BY <1>1, AreaInvariant, PTL DEF Spec

=============================================================================
