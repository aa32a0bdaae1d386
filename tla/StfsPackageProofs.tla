------------------------- MODULE StfsPackageProofs -------------------------
(***************************************************************************)
(* Proofs about the reading of an STFS package, for every package, intact  *)
(* or not, every listing and every number of records in a hash table.      *)
(***************************************************************************)
EXTENDS StfsPackage, TLAPS, SequenceTheorems,
        WellFoundedInduction

-----------------------------------------------------------------------------
(***************************************************************************)
(* Where StfsLayout puts blocks and tables, for tables of any size.        *)
(***************************************************************************)

P == PerTable

\* A quotient is known from any division with a remainder below the divisor.
LEMMA DivUnique ==
  ASSUME NEW n \in Nat, NEW d \in Nat, d > 0, NEW q \in Nat, NEW r \in Nat,
         r < d, n = q * d + r
  PROVE  n \div d = q /\ n % d = r
<1>. DEFINE q2 == n \div d
            r2 == n % d
<1>1. q2 \in Int /\ r2 \in Nat /\ r2 < d /\ n = q2 * d + r2
  OBVIOUS
<1>. HIDE DEF q2, r2
<1>2. ASSUME q2 > q PROVE FALSE
  <2>1. PICK k \in Nat : q2 = q + 1 + k
    <3>1. q2 - q - 1 \in Nat /\ q2 = q + 1 + (q2 - q - 1)
      BY <1>1, <1>2
    <3>. QED BY <3>1
  <2>2. q2 * d = q * d + d + k * d /\ k * d >= 0
    BY <2>1
  <2>3. q * d \in Nat /\ k * d \in Nat
    OBVIOUS
  <2>. QED BY <1>1, <2>2, <2>3
<1>3. ASSUME q2 < q PROVE FALSE
  <2>1. PICK k \in Nat : q = q2 + 1 + k
    <3>1. q - q2 - 1 \in Nat /\ q = q2 + 1 + (q - q2 - 1)
      BY <1>1, <1>3
    <3>. QED BY <3>1
  <2>2. q * d = q2 * d + d + k * d /\ k * d >= 0
    BY <1>1, <2>1
  <2>3. q2 * d \in Int /\ k * d \in Nat
    BY <1>1
  <2>. QED BY <1>1, <2>2, <2>3
<1>4. q2 = q
  BY <1>1, <1>2, <1>3
<1>5. r2 = r
  <2>1. q * d \in Nat
    OBVIOUS
  <2>. QED BY <1>1, <1>4, <2>1
<1>. QED BY <1>4, <1>5 DEF q2, r2

\* A block by its coordinates: the level-1 group, the level-0 group in it and
\* the place in that.
Super(b) == b \div PerLevel1
Group(b) == b \div PerLevel0
Place(b) == b % PerLevel0
InSuper(b) == Group(b) % PerLevel0

LEMMA Coordinates ==
  ASSUME NEW b \in 0 .. PerLevel2 - 1
  PROVE  /\ Group(b) \in Nat /\ Super(b) \in 0 .. P - 1
         /\ Place(b) \in 0 .. P - 1 /\ InSuper(b) \in 0 .. P - 1
         /\ b = Group(b) * P + Place(b)
         /\ Group(b) = Super(b) * P + InSuper(b)
         /\ (b < PerLevel0) <=> (Group(b) = 0)
         /\ (b < PerLevel1) <=> (Super(b) = 0)
         /\ (b + PerLevel0) \div PerLevel0 = Group(b) + 1
         /\ (b + PerLevel1) \div PerLevel1 = Super(b) + 1
         /\ (b + PerLevel2) \div PerLevel2 = 1
<1>. DEFINE g == b \div P
            r == b % P
            s == g \div P
            i == g % P
<1>0. P \in Nat /\ P > 1 /\ b \in Nat
  <2>1. P \in Nat /\ P > 1
    BY PerTableAssumption DEF P
  <2>. QED BY <2>1
<1>1. g \in Nat /\ r \in 0 .. P - 1 /\ b = g * P + r
  BY <1>0
<1>. HIDE DEF g, r
<1>2. s \in Nat /\ i \in 0 .. P - 1 /\ g = s * P + i
  BY <1>0, <1>1
<1>. HIDE DEF s, i
<1>3. P * P \in Nat /\ P * P > 0 /\ P * P * P \in Nat /\ P * P * P > 0
  <2>1. P * P \in Nat /\ P * P > 0
    BY <1>0
  <2>. DEFINE pp == P * P
  <2>. HIDE DEF pp
  <2>2. pp * P \in Nat /\ pp * P > 0
    BY <1>0, <2>1 DEF pp
  <2>. QED BY <2>1, <2>2 DEF pp
<1>. DEFINE pp == P * P
            off == i * P + r
<1>4. i * P + P =< pp /\ i * P \in Nat
  <2>1. PICK k \in Nat : P = i + 1 + k
    <3>1. P - i - 1 \in Nat /\ P = i + 1 + (P - i - 1)
      BY <1>0, <1>2
    <3>. QED BY <3>1
  <2>2. P * P = i * P + P + k * P
    BY <1>0, <1>2, <2>1
  <2>3. k * P \in Nat /\ i * P \in Nat
    BY <1>0, <1>2
  <2>. QED BY <1>0, <2>2, <2>3
<1>5. off \in Nat /\ off < pp /\ b = s * pp + off
  <2>1. off \in Nat /\ off < pp
    BY <1>0, <1>1, <1>4
  <2>2. g * P = s * pp + i * P
    <3>1. (s * P + i) * P = s * P * P + i * P /\ s * P * P = s * (P * P)
      BY <1>0, <1>2
    <3>. QED BY <1>2, <3>1
  <2>3. s * pp \in Nat /\ i * P \in Nat
    <3>1. pp \in Nat
      BY <1>3
    <3>. HIDE DEF pp
    <3>. QED BY <1>2, <1>4, <3>1
  <2>4. b = s * pp + off
    <3>. DEFINE x == s * pp
                y == i * P
                z == g * P
    <3>1. b = z + r /\ z = x + y /\ off = y + r /\ x \in Nat /\ y \in Nat /\ r \in Nat
      BY <1>0, <1>1, <2>2, <2>3
    <3>. HIDE DEF x, y, z, off
    <3>2. b = x + off
      BY <3>1
    <3>. QED BY <3>2 DEF x
  <2>. QED BY <2>1, <2>4
<1>. HIDE DEF pp, off
<1>6. pp \in Nat /\ pp > 0
  BY <1>3 DEF pp
<1>7. b \div pp = s
  BY <1>0, <1>2, <1>5, <1>6, DivUnique
<1>8. (b + pp) \div pp = s + 1
  <2>1. b + pp = (s + 1) * pp + off
    BY <1>0, <1>2, <1>5, <1>6
  <2>2. b + pp \in Nat /\ s + 1 \in Nat
    BY <1>0, <1>2, <1>6
  <2>. QED BY <2>1, <2>2, <1>5, <1>6, DivUnique
<1>9. (b + P) \div P = g + 1
  <2>1. b + P = (g + 1) * P + r
    BY <1>0, <1>1
  <2>2. b + P \in Nat /\ g + 1 \in Nat /\ r \in Nat /\ r < P
    BY <1>0, <1>1
  <2>. QED BY <2>1, <2>2, <1>0, DivUnique
<1>10. (b + PerLevel2) \div PerLevel2 = 1
  <2>1. PerLevel2 \in Nat /\ PerLevel2 > 0
    BY <1>3 DEF PerLevel2, P
  <2>2. b < PerLevel2 /\ b + PerLevel2 = 1 * PerLevel2 + b /\ b + PerLevel2 \in Nat
    BY <1>0, <2>1
  <2>. HIDE DEF PerLevel2
  <2>. QED BY <1>0, <2>1, <2>2, DivUnique
<1>11. b < P <=> g = 0
  <2>1. ASSUME g = 0 PROVE b < P
    BY <1>0, <1>1, <2>1
  <2>2. ASSUME b < P PROVE g = 0
    <3>1. b = 0 * P + b
      BY <1>0
    <3>. QED BY <1>0, <2>2, <3>1, DivUnique DEF g
  <2>. QED BY <2>1, <2>2
<1>12. b < pp <=> s = 0
  <2>1. ASSUME s = 0 PROVE b < pp
    BY <1>5, <1>6, <2>1
  <2>2. ASSUME b < pp PROVE s = 0
    <3>1. b = 0 * pp + b
      BY <1>0, <1>6
    <3>. QED BY <1>0, <1>6, <1>7, <2>2, <3>1, DivUnique
  <2>. QED BY <2>1, <2>2
<1>13. s < P
  <2>1. SUFFICES ASSUME s >= P PROVE FALSE
    BY <1>0, <1>2
  <2>2. PICK k \in Nat : s = P + k
    <3>1. s - P \in Nat /\ s = P + (s - P)
      BY <1>0, <1>2, <2>1
    <3>. QED BY <3>1
  <2>3. s * pp = P * pp + k * pp /\ k * pp \in Nat /\ P * pp \in Nat
    BY <1>0, <1>6, <2>2
  <2>4. P * pp = P * P * P
    BY <1>0 DEF pp
  <2>5. b < P * P * P
    BY <1>0, <1>3 DEF PerLevel2, P
  <2>. QED BY <1>0, <1>5, <2>3, <2>4, <2>5
<1>14. Group(b) = g /\ Place(b) = r /\ InSuper(b) = i /\ Super(b) = s
  BY <1>7 DEF Group, Place, InSuper, Super, PerLevel0, PerLevel1, P, g, r, i, pp
<1>15. PerLevel0 = P /\ PerLevel1 = pp
  BY DEF PerLevel0, PerLevel1, P, pp
<1>. HIDE DEF PerLevel2
<1>. QED
  <2>1. Group(b) \in Nat /\ Place(b) \in 0 .. P - 1 /\ b = Group(b) * P + Place(b)
    BY <1>1, <1>14
  <2>2. Super(b) \in 0 .. P - 1 /\ InSuper(b) \in 0 .. P - 1 /\ Group(b) = Super(b) * P + InSuper(b)
    BY <1>0, <1>2, <1>13, <1>14
  <2>3. /\ (b < PerLevel0) <=> (Group(b) = 0)
        /\ (b < PerLevel1) <=> (Super(b) = 0)
    BY <1>11, <1>12, <1>14, <1>15
  <2>4. /\ (b + PerLevel0) \div PerLevel0 = Group(b) + 1
        /\ (b + PerLevel1) \div PerLevel1 = Super(b) + 1
    BY <1>8, <1>9, <1>14, <1>15
  <2>. QED BY <1>10, <2>1, <2>2, <2>3, <2>4

\* A level-1 group is made of whole level-0 groups.
LEMMA SuperOfGroup ==
  ASSUME NEW b \in 0 .. PerLevel2 - 1
  PROVE  Super(b) = Group(b) \div P
<1>0. P \in Nat /\ P > 1
  BY PerTableAssumption DEF P
<1>1. /\ Group(b) \in Nat /\ Super(b) \in Nat /\ InSuper(b) \in Nat /\ InSuper(b) < P
      /\ Group(b) = Super(b) * P + InSuper(b)
  BY <1>0, Coordinates
<1>. QED BY <1>0, <1>1, DivUnique

\* Data starts right behind its level-0 table, in the order of the blocks.
LEMMA BlockBehindTable ==
  ASSUME NEW b \in 0 .. PerLevel2 - 1
  PROVE  /\ Level0Table(b) \in Nat
         /\ DataBlock(b) = Level0Table(b) + Place(b) + 1
<1>. DEFINE g == Group(b)
            s == Super(b)
            r == Place(b)
<1>0. P \in Nat /\ P > 1 /\ PerLevel0 = P /\ Step0 = P + 1
  BY PerTableAssumption DEF P, PerLevel0, Step0
<1>1. /\ g \in Nat /\ s \in Nat /\ r \in Nat /\ b = g * P + r
      /\ b < PerLevel0 <=> g = 0
      /\ b < PerLevel1 <=> s = 0
      /\ (b + PerLevel0) \div PerLevel0 = g + 1
      /\ (b + PerLevel1) \div PerLevel1 = s + 1
      /\ (b + PerLevel2) \div PerLevel2 = 1
  BY <1>0, Coordinates
<1>2. g = 0 => s = 0
  <2>1. s * P \in Nat /\ (s > 0 => s * P > 0)
    BY <1>0, <1>1
  <2>2. g = s * P + InSuper(b) /\ InSuper(b) \in Nat
    BY <1>0, Coordinates
  <2>. HIDE DEF g, s
  <2>. QED BY <1>1, <2>1, <2>2
<1>3. DataBlock(b) = IF g = 0 THEN b + (g + 1)
                     ELSE IF s = 0 THEN b + (g + 1) + (s + 1)
                     ELSE b + (g + 1) + (s + 1) + 1
  <2>. HIDE DEF g, s
  <2>. QED BY <1>1 DEF DataBlock
<1>4. Level0Table(b) = IF g = 0 THEN 0
                       ELSE IF s = 0 THEN g * (P + 1) + 1
                       ELSE g * (P + 1) + s + 2
  BY <1>0 DEF Level0Table, Group, Super
<1>5. g * (P + 1) = g * P + g /\ g * P \in Nat
  BY <1>0, <1>1
<1>. HIDE DEF g, s, r
<1>6. DataBlock(b) = Level0Table(b) + r + 1 /\ Level0Table(b) \in Nat
  BY <1>0, <1>1, <1>2, <1>3, <1>4, <1>5
<1>. QED BY <1>6 DEF r

\* The level-0 table of a block, without cases, and what bounds it.
LEMMA Level0Bounds ==
  ASSUME NEW b \in 0 .. PerLevel2 - 1
  PROVE  /\ Level0Table(b) = IF Group(b) = 0 THEN 0
                             ELSE IF Super(b) = 0 THEN Group(b) * (P + 1) + 1
                             ELSE Group(b) * (P + 1) + Super(b) + 2
<1>1. PerLevel0 = P /\ Step0 = P + 1
  BY DEF P, PerLevel0, Step0
<1>. QED BY <1>1 DEF Level0Table, Group, Super

\* A later group of blocks starts behind the whole of an earlier one.
LEMMA GroupsInOrder ==
  ASSUME NEW b \in 0 .. PerLevel2 - 1, NEW c \in 0 .. PerLevel2 - 1, Group(b) < Group(c)
  PROVE  Level0Table(b) + P < Level0Table(c) /\ Super(b) =< Super(c)
<1>. DEFINE g == Group(b)
            h == Group(c)
            s == Super(b)
            t == Super(c)
<1>0. P \in Nat /\ P > 1
  BY PerTableAssumption DEF P
<1>1. /\ g \in Nat /\ s \in Nat /\ g = s * P + InSuper(b) /\ InSuper(b) \in 0 .. P - 1
      /\ h \in Nat /\ t \in Nat /\ h = t * P + InSuper(c) /\ InSuper(c) \in 0 .. P - 1
  BY <1>0, Coordinates
<1>2. /\ Level0Table(b) = IF g = 0 THEN 0
                          ELSE IF s = 0 THEN g * (P + 1) + 1 ELSE g * (P + 1) + s + 2
      /\ Level0Table(c) = IF h = 0 THEN 0
                          ELSE IF t = 0 THEN h * (P + 1) + 1 ELSE h * (P + 1) + t + 2
  BY Level0Bounds
<1>. HIDE DEF g, h, s, t
<1>3. s =< t
  <2>1. SUFFICES ASSUME s > t PROVE FALSE
    BY <1>1
  <2>2. PICK k \in Nat : s = t + 1 + k
    <3>1. s - t - 1 \in Nat /\ s = t + 1 + (s - t - 1)
      BY <1>1, <2>1
    <3>. QED BY <3>1
  <2>3. s * P = t * P + P + k * P /\ k * P \in Nat /\ t * P \in Nat
    BY <1>0, <1>1, <2>2
  <2>. QED BY <1>0, <1>1, <2>3 DEF g, h
<1>4. PICK j \in Nat : h = g + 1 + j
  <2>1. h - g - 1 \in Nat /\ h = g + 1 + (h - g - 1)
    BY <1>1 DEF g, h
  <2>. QED BY <2>1
<1>5. h * (P + 1) = g * (P + 1) + (P + 1) + j * (P + 1)
  BY <1>0, <1>1, <1>4
<1>6. g * (P + 1) \in Nat /\ j * (P + 1) \in Nat /\ (g = 0 => g * (P + 1) = 0)
  BY <1>0, <1>1
<1>7. g = 0 => s = 0
  <2>1. s * P \in Nat /\ (s > 0 => s * P > 0)
    BY <1>0, <1>1
  <2>. QED BY <1>1, <2>1
<1>8. h > 0
  BY <1>1, <1>4
<1>9. Level0Table(b) + P < Level0Table(c)
  BY <1>0, <1>1, <1>2, <1>3, <1>5, <1>6, <1>7, <1>8
<1>. QED BY <1>3, <1>9 DEF s, t

\* A level-1 table lies before the first group it covers, level-1 group 0's
\* behind that group; the level-2 table lies behind level-1 group 0.
LEMMA TablesBetweenGroups ==
  ASSUME NEW b \in 0 .. PerLevel2 - 1, NEW c \in 0 .. PerLevel2 - 1
  PROVE  /\ Level1Table(c) < Level0Table(b) \/ Level1Table(c) > Level0Table(b) + P
         /\ Level2Table < Level0Table(b) \/ Level2Table > Level0Table(b) + P
         /\ Level1Table(c) \in Nat /\ Level1Table(c) # Level2Table
<1>. DEFINE g == Group(b)
            s == Super(b)
            i == InSuper(b)
            t == Super(c)
<1>0. P \in Nat /\ P > 1
  BY PerTableAssumption DEF P
<1>1. /\ g \in Nat /\ s \in Nat /\ g = s * P + i /\ i \in 0 .. P - 1 /\ t \in Nat
  BY <1>0, Coordinates
<1>2. Level0Table(b) = IF g = 0 THEN 0
                       ELSE IF s = 0 THEN g * (P + 1) + 1 ELSE g * (P + 1) + s + 2
  BY Level0Bounds
<1>3. Step1 = P * P + P + 1 /\ Step0 = P + 1
  BY DEF Step1, Step0, PerLevel1, PerLevel0, P
<1>4. Level1Table(c) = IF t = 0 THEN P + 1 ELSE t * (P * P + P + 1) + 1
  BY <1>3, Zenon DEF Level1Table, Super
<1>5. Level2Table = P * P + P + 1
  BY <1>3 DEF Level2Table
<1>. HIDE DEF g, s, i, t
<1>. DEFINE pp == P * P
<1>6. pp \in Nat /\ pp >= P + P
  <2>1. PICK k \in Nat : P = 2 + k
    <3>1. P - 2 \in Nat /\ P = 2 + (P - 2)
      BY <1>0
    <3>. QED BY <3>1
  <2>2. P * P = P + P + k * P /\ k * P \in Nat
    BY <1>0, <2>1
  <2>. QED BY <1>0, <2>2
<1>7. g * (P + 1) = s * pp + s * P + i * P + i
  <2>1. (s * P + i) * (P + 1) = s * P * P + s * P + i * P + i /\ s * P * P = s * (P * P)
    BY <1>0, <1>1
  <2>. QED BY <1>1, <2>1
<1>8. t * (P * P + P + 1) = t * pp + t * P + t
  BY <1>0, <1>1
<1>9. i * P \in Nat /\ i * P + P =< pp
  <2>1. PICK k \in Nat : P = i + 1 + k
    <3>1. P - i - 1 \in Nat /\ P = i + 1 + (P - i - 1)
      BY <1>0, <1>1
    <3>. QED BY <3>1
  <2>2. P * P = i * P + P + k * P
    BY <1>0, <1>1, <2>1
  <2>3. k * P \in Nat /\ i * P \in Nat
    BY <1>0, <1>1
  <2>. QED BY <1>0, <2>2, <2>3
<1>. HIDE DEF pp
<1>10. /\ s * pp \in Nat /\ s * P \in Nat /\ t * pp \in Nat /\ t * P \in Nat
       /\ s > 0 => s * pp >= pp /\ s * P >= P
       /\ t > 0 => t * pp >= pp /\ t * P >= P
       /\ s = 0 => s * pp = 0 /\ s * P = 0
  <2>1. ASSUME NEW x \in Nat, NEW y \in Nat
        PROVE  x * y \in Nat /\ (x > 0 => x * y >= y) /\ (x = 0 => x * y = 0)
    <3>1. ASSUME x > 0 PROVE x * y >= y
      <4>1. PICK k \in Nat : x = 1 + k
        <5>1. x - 1 \in Nat /\ x = 1 + (x - 1)
          BY <3>1
        <5>. QED BY <5>1
      <4>2. x * y = y + k * y /\ k * y \in Nat
        BY <4>1
      <4>. QED BY <4>2
    <3>. QED BY <3>1
  <2>. QED BY <1>0, <1>1, <1>6, <2>1
<1>11. /\ s > t => s * pp >= t * pp /\ s * P >= t * P
       /\ s = t => s * pp = t * pp /\ s * P = t * P
       /\ s < t => t * pp >= s * pp + pp /\ t * P >= s * P + P
  <2>1. ASSUME NEW x \in Nat, NEW y \in Nat, NEW z \in Nat, x < y
        PROVE  y * z >= x * z + z
    <3>1. PICK k \in Nat : y = x + 1 + k
      <4>1. y - x - 1 \in Nat /\ y = x + 1 + (y - x - 1)
        BY <2>1
      <4>. QED BY <4>1
    <3>2. y * z = x * z + z + k * z /\ k * z \in Nat /\ x * z \in Nat
      BY <3>1
    <3>. QED BY <3>2
  <2>2. s < t => t * pp >= s * pp + pp /\ t * P >= s * P + P
    BY <1>0, <1>1, <1>6, <2>1
  <2>3. t < s => s * pp >= t * pp + pp /\ s * P >= t * P + P
    BY <1>0, <1>1, <1>6, <2>1
  <2>. QED BY <1>0, <1>1, <1>6, <1>10, <2>2, <2>3
<1>12. /\ Level1Table(c) = IF t = 0 THEN P + 1 ELSE t * pp + t * P + t + 1
       /\ Level2Table = pp + P + 1
  BY <1>4, <1>5, <1>8 DEF pp
<1>. DEFINE place == g * (P + 1)
            sq == s * pp
            sp == s * P
            tq == t * pp
            tp == t * P
            ip == i * P
<1>13. place = sq + sp + ip + i
  BY <1>7
<1>14. Level0Table(b) = IF g = 0 THEN 0 ELSE IF s = 0 THEN place + 1 ELSE place + s + 2
  BY <1>2
<1>15. g = sp + i
  BY <1>1
<1>16. g > 0 /\ s = 0 => place >= P + 1
  <2>1. SUFFICES ASSUME g > 0, s = 0 PROVE place >= P + 1
    OBVIOUS
  <2>2. i > 0
    BY <1>1, <1>10, <2>1
  <2>3. i * P >= P
    <3>1. PICK k \in Nat : i = 1 + k
      <4>1. i - 1 \in Nat /\ i = 1 + (i - 1)
        BY <1>1, <2>2
      <4>. QED BY <4>1
    <3>2. i * P = P + k * P /\ k * P \in Nat
      BY <1>0, <3>1
    <3>. QED BY <1>0, <3>2
  <2>. HIDE DEF place
  <2>. QED BY <1>0, <1>1, <1>10, <1>13, <2>1, <2>2, <2>3
<1>17. /\ Level1Table(c) = IF t = 0 THEN P + 1 ELSE tq + tp + t + 1
       /\ sq \in Nat /\ sp \in Nat /\ tq \in Nat /\ tp \in Nat /\ ip \in Nat
       /\ s > 0 => sq >= pp /\ sp >= P
       /\ t > 0 => tq >= pp /\ tp >= P
       /\ s = 0 => sq = 0 /\ sp = 0
       /\ s >= t => sq >= tq /\ sp >= tp
       /\ s < t => tq >= sq + pp /\ tp >= sp + P
       /\ ip + P =< pp
  BY <1>1, <1>9, <1>10, <1>11, <1>12
<1>. HIDE DEF place, sq, sp, tq, tp, ip
<1>18. Level1Table(c) < Level0Table(b) \/ Level1Table(c) > Level0Table(b) + P
  BY <1>0, <1>1, <1>6, <1>13, <1>14, <1>15, <1>16, <1>17
<1>19. Level2Table < Level0Table(b) \/ Level2Table > Level0Table(b) + P
  BY <1>0, <1>1, <1>6, <1>12, <1>13, <1>14, <1>15, <1>16, <1>17
<1>20. Level1Table(c) \in Nat /\ Level1Table(c) # Level2Table
  BY <1>0, <1>1, <1>6, <1>12, <1>17
<1>. QED BY <1>18, <1>19, <1>20

-----------------------------------------------------------------------------
(***************************************************************************)
(* The theorems.                                                           *)
(***************************************************************************)

\* What the reader takes for a block of a file is never a hash table: for every
\* table size, block and level, compute_data_block_number passes over the places
\* compute_level_n_hash_block_number gives.
THEOREM BlocksOffTables ==
  \A b, c \in 0 .. PerLevel2 - 1 : \A level \in Level :
    DataBlock(b) # HashTable(c, level)
<1>. SUFFICES ASSUME NEW b \in 0 .. PerLevel2 - 1, NEW c \in 0 .. PerLevel2 - 1,
                     NEW level \in Level
              PROVE  DataBlock(b) # HashTable(c, level)
  OBVIOUS
<1>0. P \in Nat /\ P > 1
  BY PerTableAssumption DEF P
<1>1. /\ Level0Table(b) \in Nat /\ Level0Table(c) \in Nat
      /\ DataBlock(b) = Level0Table(b) + Place(b) + 1
  BY BlockBehindTable
<1>2. Place(b) \in 0 .. P - 1 /\ Group(b) \in Nat /\ Group(c) \in Nat
  BY Coordinates
<1>3. CASE level = 0
  <2>1. HashTable(c, level) = Level0Table(c)
    BY <1>3 DEF HashTable
  <2>2. Group(b) = Group(c) => Level0Table(b) = Level0Table(c)
    <3>1. Super(b) = Group(b) \div P /\ Super(c) = Group(c) \div P
      BY SuperOfGroup
    <3>. QED BY <3>1, Level0Bounds
  <2>3. /\ Group(b) < Group(c) => Level0Table(b) + P < Level0Table(c)
        /\ Group(c) < Group(b) => Level0Table(c) + P < Level0Table(b)
    BY GroupsInOrder
  <2>. QED BY <1>0, <1>1, <1>2, <2>1, <2>2, <2>3
<1>4. CASE level = 1
  <2>1. HashTable(c, level) = Level1Table(c)
    BY <1>4 DEF HashTable
  <2>. QED BY <1>0, <1>1, <1>2, <2>1, TablesBetweenGroups
<1>5. CASE level = 2
  <2>1. HashTable(c, level) = Level2Table
    BY <1>5 DEF HashTable
  <2>2. Level2Table \in Nat
    <3>1. PerLevel1 \in Nat /\ PerLevel0 \in Nat
      BY <1>0 DEF PerLevel1, PerLevel0, P
    <3>. QED BY <3>1 DEF Level2Table, Step1
  <2>. QED BY <1>0, <1>1, <1>2, <2>1, <2>2, TablesBetweenGroups
<1>. QED BY <1>3, <1>4, <1>5 DEF Level

\* No two blocks of a package share a place, and later blocks lie later: a file
\* whose blocks follow each other is read forwards.
THEOREM BlocksKeepOrder ==
  \A b, c \in 0 .. PerLevel2 - 1 : b < c => DataBlock(b) < DataBlock(c)
<1>. SUFFICES ASSUME NEW b \in 0 .. PerLevel2 - 1, NEW c \in 0 .. PerLevel2 - 1, b < c
              PROVE  DataBlock(b) < DataBlock(c)
  OBVIOUS
<1>0. P \in Nat /\ P > 1
  BY PerTableAssumption DEF P
<1>1. /\ Level0Table(b) \in Nat /\ Level0Table(c) \in Nat
      /\ DataBlock(b) = Level0Table(b) + Place(b) + 1
      /\ DataBlock(c) = Level0Table(c) + Place(c) + 1
  BY BlockBehindTable
<1>2. /\ Place(b) \in 0 .. P - 1 /\ Group(b) \in Nat /\ b = Group(b) * P + Place(b)
      /\ Place(c) \in 0 .. P - 1 /\ Group(c) \in Nat /\ c = Group(c) * P + Place(c)
  BY Coordinates
<1>3. CASE Group(b) = Group(c)
  <2>1. Level0Table(b) = Level0Table(c)
    <3>1. Super(b) = Group(b) \div P /\ Super(c) = Group(c) \div P
      BY SuperOfGroup
    <3>. QED BY <1>3, <3>1, Level0Bounds
  <2>2. Group(b) * P \in Nat
    BY <1>0, <1>2
  <2>3. Place(b) < Place(c)
    BY <1>0, <1>2, <1>3, <2>2
  <2>. QED BY <1>0, <1>1, <1>2, <2>1, <2>3
<1>4. CASE Group(b) < Group(c)
  BY <1>0, <1>1, <1>2, <1>4, GroupsInOrder
<1>5. ~(Group(c) < Group(b))
  <2>. SUFFICES ASSUME Group(c) < Group(b) PROVE FALSE
    OBVIOUS
  <2>1. PICK k \in Nat : Group(b) = Group(c) + 1 + k
    <3>1. Group(b) - Group(c) - 1 \in Nat /\ Group(b) = Group(c) + 1 + (Group(b) - Group(c) - 1)
      BY <1>2
    <3>. QED BY <3>1
  <2>2. Group(b) * P = Group(c) * P + P + k * P /\ k * P \in Nat /\ Group(c) * P \in Nat
    BY <1>0, <1>2, <2>1
  <2>. QED BY <1>0, <1>2, <2>2
<1>. QED BY <1>2, <1>3, <1>4, <1>5

\* Two tables at one place are the same table: of one level, and covering the
\* same blocks.
THEOREM TablesApart ==
  \A b, c \in 0 .. PerLevel2 - 1 : \A m, n \in Level :
    HashTable(b, m) = HashTable(c, n) =>
      /\ m = n
      /\ m = 0 => b \div PerLevel0 = c \div PerLevel0
      /\ m = 1 => b \div PerLevel1 = c \div PerLevel1
<1>. SUFFICES ASSUME NEW b \in 0 .. PerLevel2 - 1, NEW c \in 0 .. PerLevel2 - 1,
                     NEW m \in Level, NEW n \in Level, HashTable(b, m) = HashTable(c, n)
              PROVE  /\ m = n
                     /\ m = 0 => b \div PerLevel0 = c \div PerLevel0
                     /\ m = 1 => b \div PerLevel1 = c \div PerLevel1
  OBVIOUS
<1>0. P \in Nat /\ P > 1
  BY PerTableAssumption DEF P
<1>1. /\ Level0Table(b) \in Nat /\ Level0Table(c) \in Nat
      /\ Group(b) \in Nat /\ Group(c) \in Nat /\ Super(b) \in Nat /\ Super(c) \in Nat
  BY <1>0, BlockBehindTable, Coordinates
<1>2. \A x \in {b, c} : /\ HashTable(x, 0) = Level0Table(x)
                       /\ HashTable(x, 1) = Level1Table(x)
                       /\ HashTable(x, 2) = Level2Table
  BY DEF HashTable
<1>3. /\ Level0Table(b) # Level1Table(c) /\ Level0Table(c) # Level1Table(b)
      /\ Level0Table(b) # Level2Table /\ Level0Table(c) # Level2Table
      /\ Level1Table(b) # Level2Table /\ Level1Table(c) # Level2Table
  <2>1. Level2Table \in Nat /\ Level1Table(b) \in Nat /\ Level1Table(c) \in Nat
    <3>1. PerLevel1 \in Nat /\ PerLevel0 \in Nat
      BY <1>0 DEF PerLevel1, PerLevel0, P
    <3>. QED BY <3>1, TablesBetweenGroups DEF Level2Table, Step1
  <2>2. /\ Level1Table(c) < Level0Table(b) \/ Level1Table(c) > Level0Table(b) + P
        /\ Level1Table(b) < Level0Table(c) \/ Level1Table(b) > Level0Table(c) + P
        /\ Level2Table < Level0Table(b) \/ Level2Table > Level0Table(b) + P
        /\ Level2Table < Level0Table(c) \/ Level2Table > Level0Table(c) + P
        /\ Level1Table(b) # Level2Table /\ Level1Table(c) # Level2Table
    BY TablesBetweenGroups
  <2>. QED BY <1>0, <1>1, <2>1, <2>2
<1>4. m = n
  BY <1>2, <1>3 DEF Level
<1>5. Level0Table(b) = Level0Table(c) => Group(b) = Group(c)
  <2>1. /\ Group(b) < Group(c) => Level0Table(b) + P < Level0Table(c)
        /\ Group(c) < Group(b) => Level0Table(c) + P < Level0Table(b)
    BY GroupsInOrder
  <2>. QED BY <1>0, <1>1, <2>1
<1>6. Level1Table(b) = Level1Table(c) => Super(b) = Super(c)
  <2>1. \A x \in {b, c} : Level1Table(x) = IF Super(x) = 0 THEN P + 1
                                           ELSE Super(x) * Step1 + 1
    BY DEF Level1Table, Super, Step0, PerLevel0, P
  <2>2. Step1 \in Nat /\ Step1 > P + 1
    <3>1. P * P \in Nat /\ P * P > 0
      BY <1>0
    <3>. QED BY <1>0, <3>1 DEF Step1, PerLevel1, PerLevel0, P
  <2>3. ASSUME NEW x \in Nat, NEW y \in Nat, x < y PROVE y * Step1 >= x * Step1 + Step1
    <3>1. PICK k \in Nat : y = x + 1 + k
      <4>1. y - x - 1 \in Nat /\ y = x + 1 + (y - x - 1)
        BY <2>3
      <4>. QED BY <4>1
    <3>2. y * Step1 = x * Step1 + Step1 + k * Step1 /\ k * Step1 \in Nat /\ x * Step1 \in Nat
      BY <2>2, <3>1
    <3>. QED BY <2>2, <3>2
  <2>4. /\ Super(b) < Super(c) => Super(c) * Step1 >= Super(b) * Step1 + Step1
        /\ Super(c) < Super(b) => Super(b) * Step1 >= Super(c) * Step1 + Step1
    BY <1>1, <2>3
  <2>5. \A x \in {b, c} : Super(x) * Step1 \in Nat /\ (Super(x) = 0 => Super(x) * Step1 = 0)
    BY <1>1, <2>2
  <2>. QED BY <1>0, <1>1, <2>1, <2>2, <2>4, <2>5
<1>. QED BY <1>2, <1>4, <1>5, <1>6 DEF Group, Super

-----------------------------------------------------------------------------
(***************************************************************************)
(* Nothing is written before every destination is known to be sound.       *)
(*                                                                         *)
(* PlannedBeforeWritten relates the directory to the listing, and only the *)
(* call that opens the package changes the listing: it must find the       *)
(* directory empty (OpenWritesNothing).  Only extract_all fills the        *)
(* directory, and it runs only on a listing whose plan was good when it    *)
(* was called, which nothing changes until it ends (AllIsPlanned).         *)
(***************************************************************************)

PlanIsGood ==
  /\ PathError = "ok"
  /\ \A i \in DOMAIN Paths : JoinError(Paths[i]) = "ok"

AllIsPlanned      == call.op = "all" => PlanIsGood
OpenWritesNothing == call.op = "open" => disk = EmptyDisk

PlanInv == AllIsPlanned /\ OpenWritesNothing /\ (disk # EmptyDisk => PlanIsGood)

\* The plan is a matter of the listing alone.
LEMMA PlanOfListing == entries' = entries => (PlanIsGood' <=> PlanIsGood)
BY DEF PlanIsGood, PathError, Paths

LEMMA NextKeepsPlan == PlanInv /\ [Next]_vars => PlanInv'
<1>. SUFFICES ASSUME PlanInv, [Next]_vars PROVE PlanInv'
  OBVIOUS
<1>. USE DEF PlanInv, AllIsPlanned, OpenWritesNothing
<1>1. CASE FollowBlockChain
  BY <1>1, PlanOfListing DEF FollowBlockChain
<1>2. CASE CopyBlock
  BY <1>2, PlanOfListing DEF CopyBlock
<1>3. CASE NextEntry
  BY <1>3, PlanOfListing DEF NextEntry, Ended, NoCall
<1>4. CASE Deliver
  <2>1. CASE OpenDelivered
    <3>1. disk' = EmptyDisk /\ call'.op = "none"
      BY <2>1 DEF OpenDelivered, Ended, NoCall
    <3>. QED BY <3>1 DEF EmptyDisk
  <2>2. CASE FileDelivered
    BY <2>2, PlanOfListing DEF FileDelivered, Ended, NoCall
  <2>3. CASE MemoryDelivered
    BY <2>3, PlanOfListing DEF MemoryDelivered, Ended, NoCall
  <2>4. CASE DiskDelivered
    BY <2>4, PlanOfListing DEF DiskDelivered, Ended, NoCall
  <2>. QED BY <1>4, <2>1, <2>2, <2>3, <2>4 DEF Deliver
<1>5. CASE Open
  BY <1>5, PlanOfListing DEF Open, Refused, Calls
<1>6. CASE \E i \in DOMAIN entries, verify \in BOOLEAN : Extract(i - 1, verify)
  BY <1>6, PlanOfListing DEF Extract, Calls
<1>7. CASE \E name \in DOMAIN Fold : ExtractFileByName(Fold[name])
  <2>1. PICK name \in DOMAIN Fold : ExtractFileByName(Fold[name])
    BY <1>7
  <2>2. \/ Refused("name", "NotFound")
        \/ Calls("name", FALSE, {}) /\ UNCHANGED <<pkg, entries, opened>>
    BY <2>1, Zenon DEF ExtractFileByName
  <2>3. entries' = entries /\ disk' = EmptyDisk /\ (call' = call \/ call'.op = "name")
    BY <2>2 DEF Refused, Calls
  <2>. QED BY <2>3, PlanOfListing
<1>8. CASE \E without \in Excluding : ExtractToMemory(without)
  BY <1>8, PlanOfListing DEF ExtractToMemory, Calls
<1>9. CASE \E verify \in BOOLEAN : ExtractAll(verify)
  <2>1. PICK verify \in BOOLEAN : ExtractAll(verify)
    BY <1>9
  <2>2. entries' = entries /\ disk' = EmptyDisk
    BY <2>1 DEF ExtractAll, Refused, Calls
  <2>3. CASE PlanError # "ok" /\ Refused("all", PlanError)
    <3>1. call' = call
      BY <2>3 DEF Refused
    <3>. QED BY <2>2, <3>1, PlanOfListing
  <2>4. CASE Refused("all", "IoError")
    <3>1. call' = call
      BY <2>4 DEF Refused
    <3>. QED BY <2>2, <3>1, PlanOfListing
  <2>5. CASE PlanError = "ok" /\ Calls("all", verify, {})
    <3>1. call'.op = "all"
      BY <2>5 DEF Calls
    <3>2. PlanIsGood
      BY <2>5 DEF PlanError, PlanIsGood, JoinError
    <3>. QED BY <2>2, <3>1, <3>2, PlanOfListing
  <2>6. \/ PlanError # "ok" /\ Refused("all", PlanError)
        \/ Refused("all", "IoError")
        \/ PlanError = "ok" /\ Calls("all", verify, {})
    BY <2>1, Zenon DEF ExtractAll
  <2>. QED BY <2>3, <2>4, <2>5, <2>6
<1>10. CASE UNCHANGED vars
  BY <1>10, PlanOfListing DEF vars
<1>. QED BY <1>1, <1>2, <1>3, <1>4, <1>5, <1>6, <1>7, <1>8, <1>9, <1>10 DEF Next, Step, Ask

\* A package with one destination that may not be written writes nothing, not
\* even the files listed before that one (plan_destinations).
THEOREM PlansBeforeItWrites == Spec => []PlannedBeforeWritten
<1>1. Init => PlanInv
  BY DEF Init, PlanInv, AllIsPlanned, OpenWritesNothing, NoCall
<1>2. PlanInv => PlannedBeforeWritten
  BY DEF PlanInv, PlannedBeforeWritten, PlanIsGood
<1>. QED BY <1>1, <1>2, NextKeepsPlan, PTL DEF Spec

-----------------------------------------------------------------------------
\* A nonempty set of naturals has a least element.
LEMMA NatLeast ==
  ASSUME NEW T, T \subseteq Nat, T # {}
  PROVE  \E x \in T : \A y \in T : x =< y
<1>1. PICK x \in T : \A y \in T : <<y, x>> \notin OpToRel(<, Nat)
  BY NatLessThanWellFounded, WFMin
<1>2. \A y \in T : ~(y < x)
  BY <1>1 DEF OpToRel
<1>. QED BY <1>2

-----------------------------------------------------------------------------
(***************************************************************************)
(* What extract_all has written.                                           *)
(*                                                                         *)
(* AllOnDisk speaks of the end of a call that has passed every entry, so   *)
(* the invariant counts: every entry before the one at hand is on disk     *)
(* (WrittenSoFar).  It stays so because no directory is made where a file  *)
(* lies nor a file where a directory does (FilesAreNoDirs), and a file     *)
(* laid over an earlier one is whole: an extraction that ends well has the *)
(* length of its entry (ReadWhole).                                        *)
(***************************************************************************)

IsList(s) == \E S : s \in Seq(S)

ListingOk ==
  /\ pkg \in Package
  /\ IsList(entries)
  /\ \A i \in DOMAIN entries : entries[i].size \in Nat

Reading == phase \in {"walk", "copy", "deliver"}

ReadShape == DOMAIN read = {"block", "steps", "blocks", "units", "code"}
DiskShape == DOMAIN disk = {"files", "dirs"}

\* An entry is at hand while it is read.
AtEntry ==
  /\ at \in Nat
  /\ Reading /\ call.op # "open" => at + 1 \in DOMAIN entries

ReadWhole ==
  Reading =>
    /\ IsList(read.units) /\ Len(read.units) =< Entry.size
    /\ phase = "deliver" /\ read.code = "ok" => Len(read.units) = Entry.size

FilesAreNoDirs == disk.dirs \cap DOMAIN disk.files = {}
ReadsFile      == Reading /\ call.op = "all" => ~Entry.dir
WrittenSoFar   == call.op = "all" => \A i \in DOMAIN entries : i =< at => OnDisk(i)

CallOk ==
  /\ phase = "idle" => call.op = "none"
  /\ phase = "next" => call.op \in {"memory", "all"}

ReadInv == ListingOk /\ ReadShape /\ CallOk /\ AtEntry /\ ReadWhole
DiskInv == DiskShape /\ FilesAreNoDirs /\ ReadsFile /\ WrittenSoFar /\ AllOnDisk

\* Appending the first n units of a block adds n to the length.
LEMMA UnitsAdded ==
  ASSUME NEW s, IsList(s), NEW position, NEW n \in 0 .. PerTable
  PROVE  LET t == s \o SubSeq(UnitsAt(position), 1, n)
         IN  IsList(t) /\ Len(s) \in Nat /\ Len(t) = Len(s) + n
<1>. DEFINE u == UnitsAt(position)
            R == {u[k] : k \in 1 .. PerTable}
<1>1. PICK S : s \in Seq(S)
  BY DEF IsList
<1>2. s \in Seq(S \cup R)
  BY <1>1, SeqMonotonic
<1>3. \A k \in 1 .. n : u[k] \in S \cup R
  BY PerTableAssumption
<1>4. SubSeq(u, 1, n) \in Seq(S \cup R) /\ Len(SubSeq(u, 1, n)) = n
  BY <1>3, SubSeqProperties
<1>5. s \o SubSeq(u, 1, n) \in Seq(S \cup R) /\ Len(s \o SubSeq(u, 1, n)) = Len(s) + n
  BY <1>2, <1>4, ConcatProperties
<1>6. Len(s) \in Nat
  BY <1>1, LenProperties
<1>. QED BY <1>5, <1>6 DEF IsList

\* The entry at hand has a length.
LEMMA EntrySize == ReadInv /\ Reading => Entry.size \in Nat
<1>. SUFFICES ASSUME ReadInv, Reading PROVE Entry.size \in Nat
  OBVIOUS
<1>. USE DEF ReadInv, ListingOk
<1>1. CASE call.op = "open"
  <2>1. Shape[pkg.shape].tableCount \in Nat
    BY PackageAssumption
  <2>2. Shape[pkg.shape].tableCount * PerTable \in Nat
    BY <2>1, PerTableAssumption
  <2>. QED BY <1>1, <2>2 DEF Entry, TableEntry, TableOf, NoEntry
<1>2. CASE call.op # "open"
  BY <1>2 DEF Entry, AtEntry
<1>. QED BY <1>1, <1>2

\* The listing is made of the first entries of the units.
LEMMA ListedFrom ==
  ASSUME NEW units, IsList(units)
  PROVE  \E n \in 0 .. Len(units) : Listed(units) = [i \in 1 .. n |-> EntryIn(units[i])]
<1>. DEFINE ends == {i \in DOMAIN units : EntryIn(units[i]) = NoEntry}
            n == IF ends = {} THEN Len(units)
                 ELSE (CHOOSE i \in ends : \A j \in ends : i =< j) - 1
<1>1. Len(units) \in Nat /\ DOMAIN units = 1 .. Len(units)
  BY LenProperties DEF IsList
<1>2. Listed(units) = [i \in 1 .. n |-> EntryIn(units[i])]
  BY DEF Listed
<1>3. n \in 0 .. Len(units)
  <2>1. CASE ends = {}
    BY <2>1, <1>1
  <2>2. CASE ends # {}
    <3>0. ends \subseteq Nat
      BY <1>1
    <3>1. \E i \in ends : \A j \in ends : i =< j
      <4>. HIDE DEF ends
      <4>. QED BY <2>2, <3>0, NatLeast
    <3>2. (CHOOSE i \in ends : \A j \in ends : i =< j) \in ends
      BY <3>1
    <3>3. (CHOOSE i \in ends : \A j \in ends : i =< j) \in 1 .. Len(units)
      BY <3>2, <1>1
    <3>. QED BY <3>3, <1>1, <2>2
  <2>. QED BY <2>1, <2>2
<1>. HIDE DEF n
<1>. QED BY <1>2, <1>3

\* What the listing is made of has lengths.
LEMMA ListedIsListing ==
  ASSUME pkg \in Package, NEW units, IsList(units)
  PROVE  /\ IsList(Listed(units))
         /\ \A i \in DOMAIN Listed(units) : Listed(units)[i].size \in Nat
<1>1. PICK n \in 0 .. Len(units) : Listed(units) = [i \in 1 .. n |-> EntryIn(units[i])]
  BY ListedFrom
<1>2. n \in Nat
  BY LenProperties DEF IsList
<1>3. DOMAIN Listed(units) = 1 .. n /\ \A i \in 1 .. n : Listed(units)[i] = EntryIn(units[i])
  BY <1>1
<1>4. Listed(units) \in Seq({EntryIn(units[i]) : i \in 1 .. n})
  BY <1>1, <1>2
<1>5. \A x : EntryIn(x).size \in Nat
  BY PackageAssumption DEF EntryIn, NoEntry
<1>. QED BY <1>3, <1>4, <1>5 DEF IsList

\* ReadFrom starts a reading of a length that fits its entry.
LEMMA ReadStarts ==
  ASSUME NEW e, e.size \in Nat, ReadFrom(e)
  PROVE  /\ Reading'
         /\ ReadShape'
         /\ IsList(read'.units) /\ Len(read'.units) = 0
         /\ phase' = "deliver" /\ read'.code = "ok" => e.size = 0
<1>1. /\ NoRead.units = << >> /\ NoRead.code = "ok"
      /\ DOMAIN NoRead = {"block", "steps", "blocks", "units", "code"}
  BY DEF NoRead
<1>2. IsList(<< >>) /\ Len(<< >>) = 0
  BY EmptySeq DEF IsList
<1>. HIDE DEF NoRead
<1>. DEFINE failed(code) == [NoRead EXCEPT !.code = code]
<1>3. \A code : failed(code).units = << >> /\ failed(code).code = code /\ DOMAIN failed(code) = DOMAIN NoRead
  BY <1>1
<1>4. CASE e.size = 0
  BY <1>4, <1>1, <1>2 DEF ReadFrom, Reading, ReadShape
<1>5. CASE e.size # 0 /\ ~e.consecutive
  <2>1. phase' = "walk" /\ read' = [NoRead EXCEPT !.block = e.start]
    BY <1>5 DEF ReadFrom
  <2>. QED BY <2>1, <1>1, <1>2 DEF Reading, ReadShape
<1>6. CASE e.size # 0 /\ e.consecutive /\ ConsecutiveError(e) # "ok"
  <2>1. phase' = "deliver" /\ read' = failed(ConsecutiveError(e))
    BY <1>6 DEF ReadFrom
  <2>. HIDE DEF failed
  <2>. QED BY <2>1, <1>1, <1>2, <1>3, <1>6 DEF Reading, ReadShape
<1>7. CASE e.size # 0 /\ e.consecutive /\ ConsecutiveError(e) = "ok"
  <2>1. phase' = "copy" /\ read' = [NoRead EXCEPT !.blocks = Consecutive(e)]
    BY <1>7 DEF ReadFrom
  <2>. QED BY <2>1, <1>1, <1>2 DEF Reading, ReadShape
<1>. QED BY <1>4, <1>5, <1>6, <1>7

LEMMA FollowKeepsRead == ReadInv /\ FollowBlockChain => ReadInv'
<1>. SUFFICES ASSUME ReadInv, FollowBlockChain PROVE ReadInv'
  OBVIOUS
<1>1. /\ phase = "walk" /\ UNCHANGED <<pkg, entries, call, at>>
      /\ ReadShape /\ Entry' = Entry /\ Entry.size \in Nat
  BY EntrySize DEF FollowBlockChain, ReadInv, Reading, Entry, TableEntry
<1>2. /\ phase' \in {"walk", "copy", "deliver"}
      /\ ReadShape'
      /\ read'.units = read.units
      /\ phase' = "deliver" => read'.code # "ok"
  <2>1. CASE read.block = MaxBlock
    <3>1. phase' = "copy" /\ read' = [read EXCEPT !.blocks = Chain(Entry.start, read.steps)]
      BY <2>1 DEF FollowBlockChain
    <3>. QED BY <3>1, <1>1 DEF ReadShape
  <2>2. CASE read.block # MaxBlock /\ read.steps >= MaxSteps
    <3>1. phase' = "deliver" /\ read' = [read EXCEPT !.code = "Malformed"]
      BY <2>2 DEF FollowBlockChain
    <3>. QED BY <3>1, <1>1 DEF ReadShape
  <2>3. CASE read.block # MaxBlock /\ ~(read.steps >= MaxSteps) /\ HashEntry(read.block).code # "ok"
    <3>1. phase' = "deliver" /\ read' = [read EXCEPT !.code = HashEntry(read.block).code]
      BY <2>3 DEF FollowBlockChain
    <3>. DEFINE code == HashEntry(read.block).code
    <3>2. code # "ok"
      BY <2>3
    <3>. HIDE DEF code
    <3>. QED BY <3>1, <3>2, <1>1 DEF ReadShape, code
  <2>4. CASE read.block # MaxBlock /\ ~(read.steps >= MaxSteps) /\ HashEntry(read.block).code = "ok"
    <3>1. phase' = "walk"
          /\ read' = [read EXCEPT !.block = HashEntry(read.block).next, !.steps = @ + 1]
      BY <2>4 DEF FollowBlockChain
    <3>. QED BY <3>1, <1>1 DEF ReadShape
  <2>. QED BY <2>1, <2>2, <2>3, <2>4
<1>. QED BY <1>1, <1>2 DEF ReadInv, ListingOk, CallOk, AtEntry, ReadWhole, Reading

LEMMA CopyKeepsRead == ReadInv /\ CopyBlock => ReadInv'
<1>. SUFFICES ASSUME ReadInv, CopyBlock PROVE ReadInv'
  OBVIOUS
<1>1. /\ phase = "copy" /\ UNCHANGED <<pkg, entries, call, at>>
      /\ ReadShape /\ Entry' = Entry /\ Entry.size \in Nat
      /\ IsList(read.units) /\ Len(read.units) =< Entry.size
  BY EntrySize DEF CopyBlock, ReadInv, Reading, ReadWhole, Entry, TableEntry
<1>2. Len(read.units) \in Nat
  BY <1>1, LenProperties DEF IsList
<1>3. /\ phase' \in {"copy", "deliver"}
      /\ ReadShape'
      /\ IsList(read'.units) /\ Len(read'.units) =< Entry.size
      /\ phase' = "deliver" /\ read'.code = "ok" => Len(read'.units) = Entry.size
  <2>. DEFINE block == Head(read.blocks)
              wanted == Entry.size - Len(read.units)
              n == IF wanted < PerTable THEN wanted ELSE PerTable
              position == DataBlock(block)
  <2>1. CASE read.blocks = << >> \/ Len(read.units) >= Entry.size
    <3>1. phase' = "deliver" /\ read' = [read EXCEPT !.code = EndOfBlocks]
      BY <2>1 DEF CopyBlock
    <3>2. read'.units = read.units /\ ReadShape' /\ read'.code = EndOfBlocks
      BY <3>1, <1>1, Zenon DEF ReadShape
    <3>3. EndOfBlocks = "ok" => ~(Len(read.units) < Entry.size)
      BY DEF EndOfBlocks
    <3>. QED BY <3>1, <3>2, <3>3, <1>1, <1>2
  <2>2. CASE ~(read.blocks = << >> \/ Len(read.units) >= Entry.size) /\ CopyError(block) # "ok"
    <3>1. phase' = "deliver" /\ read' = [read EXCEPT !.code = CopyError(block)]
      BY <2>2 DEF CopyBlock
    <3>2. read'.units = read.units /\ ReadShape' /\ read'.code = CopyError(block)
      BY <3>1, <1>1, Zenon DEF ReadShape
    <3>. QED BY <3>1, <3>2, <2>2, <1>1
  <2>3. CASE ~(read.blocks = << >> \/ Len(read.units) >= Entry.size) /\ CopyError(block) = "ok"
    <3>1. /\ phase' = "copy"
          /\ read' = [read EXCEPT !.units  = @ \o SubSeq(UnitsAt(position), 1, n),
                                  !.blocks = Tail(@)]
      BY <2>3, Zenon DEF CopyBlock
    <3>2. read'.units = read.units \o SubSeq(UnitsAt(position), 1, n) /\ ReadShape'
      <4>. HIDE DEF position, n
      <4>. QED BY <3>1, <1>1 DEF ReadShape
    <3>3. n \in 0 .. PerTable /\ n =< wanted
      BY <1>1, <1>2, PerTableAssumption
    <3>4. /\ IsList(read.units \o SubSeq(UnitsAt(position), 1, n))
          /\ Len(read.units \o SubSeq(UnitsAt(position), 1, n)) = Len(read.units) + n
      <4>. HIDE DEF position, n
      <4>. QED BY <1>1, <3>3, UnitsAdded
    <3>. HIDE DEF position, n
    <3>. QED BY <3>1, <3>2, <3>3, <3>4, <1>1, <1>2
  <2>. QED BY <2>1, <2>2, <2>3
<1>. QED BY <1>1, <1>3 DEF ReadInv, ListingOk, CallOk, AtEntry, ReadWhole, Reading

\* A call that ends leaves no reading.
LEMMA EndedKeepsRead ==
  ASSUME NEW code, ListingOk', Ended(code)
  PROVE  ReadInv'
<1>1. /\ phase' = "idle" /\ call' = NoCall /\ at' = 0 /\ read' = NoRead
  BY DEF Ended
<1>2. NoCall.op = "none" /\ DOMAIN NoRead = {"block", "steps", "blocks", "units", "code"}
  BY DEF NoCall, NoRead
<1>. QED BY <1>1, <1>2 DEF ReadInv, ReadShape, CallOk, AtEntry, ReadWhole, Reading

LEMMA PastKeepsRead ==
  ASSUME ReadInv, Past, UNCHANGED <<pkg, entries, call>>, call.op \in {"memory", "all"}
  PROVE  ReadInv'
<1>1. phase' = "next" /\ at' = at + 1 /\ read' = NoRead
  BY DEF Past
<1>2. DOMAIN NoRead = {"block", "steps", "blocks", "units", "code"}
  BY DEF NoRead
<1>. QED BY <1>1, <1>2 DEF ReadInv, ListingOk, ReadShape, CallOk, AtEntry, ReadWhole, Reading

LEMMA BegunReading ==
  ASSUME ListingOk, UNCHANGED <<pkg, entries>>, at' \in Nat, at' + 1 \in DOMAIN entries,
         call'.op \in {"entry", "name", "memory", "all"}, ReadFrom(entries[at' + 1])
  PROVE  ReadInv' /\ Reading'
<1>1. entries[at' + 1].size \in Nat
  BY DEF ListingOk
<1>2. Entry' = entries[at' + 1]
  BY DEF Entry
<1>3. /\ Reading' /\ ReadShape' /\ IsList(read'.units) /\ Len(read'.units) = 0
      /\ phase' = "deliver" /\ read'.code = "ok" => entries[at' + 1].size = 0
  BY <1>1, ReadStarts
<1>4. ReadWhole'
  BY <1>1, <1>2, <1>3 DEF ReadWhole
<1>. QED BY <1>3, <1>4 DEF ReadInv, ListingOk, CallOk, AtEntry, Reading

LEMMA NextEntryKeepsRead == ReadInv /\ NextEntry => ReadInv'
<1>. SUFFICES ASSUME ReadInv, NextEntry PROVE ReadInv'
  OBVIOUS
<1>1. /\ phase = "next" /\ call.op \in {"memory", "all"} /\ at \in Nat
      /\ ListingOk /\ UNCHANGED <<pkg, entries>> /\ ListingOk'
  BY DEF NextEntry, ReadInv, CallOk, AtEntry, ListingOk
<1>2. Entry = entries[at + 1]
  BY <1>1 DEF Entry
<1>3. at < Len(entries) => at + 1 \in DOMAIN entries
  BY <1>1, LenProperties DEF ListingOk, IsList
<1>4. ASSUME at < Len(entries), ReadFrom(Entry), UNCHANGED <<at, call>> PROVE ReadInv'
  BY <1>1, <1>2, <1>3, <1>4, BegunReading
<1>5. ASSUME Past, UNCHANGED call PROVE ReadInv'
  BY <1>1, <1>5, PastKeepsRead
<1>6. ASSUME NEW code, Ended(code) PROVE ReadInv'
  BY <1>1, <1>6, EndedKeepsRead
<1>7. \/ \E code : Ended(code)
      \/ Past /\ UNCHANGED call
      \/ at < Len(entries) /\ ReadFrom(Entry) /\ UNCHANGED <<at, call>>
  BY Zenon DEF NextEntry
<1>. QED BY <1>4, <1>5, <1>6, <1>7

LEMMA DeliverKeepsRead == ReadInv /\ Deliver => ReadInv'
<1>. SUFFICES ASSUME ReadInv, Deliver PROVE ReadInv'
  OBVIOUS
<1>1. phase = "deliver" /\ pkg' = pkg /\ ListingOk /\ IsList(read.units)
  BY DEF Deliver, ReadInv, ReadWhole, Reading
<1>2. CASE OpenDelivered
  <2>1. entries' \in {entries, Listed(read.units)}
    BY <1>2 DEF OpenDelivered
  <2>2. ListingOk'
    BY <1>1, <2>1, ListedIsListing DEF ListingOk
  <2>3. \E code : Ended(code)
    BY <1>2, Zenon DEF OpenDelivered
  <2>. QED BY <2>2, <2>3, EndedKeepsRead
<1>3. CASE UNCHANGED entries /\ \E code : Ended(code)
  <2>1. ListingOk'
    BY <1>1, <1>3 DEF ListingOk
  <2>. QED BY <1>3, <2>1, EndedKeepsRead
<1>4. CASE UNCHANGED <<entries, call>> /\ Past /\ call.op \in {"memory", "all"}
  BY <1>1, <1>4, PastKeepsRead
<1>5. FileDelivered => UNCHANGED entries /\ \E code : Ended(code)
  BY Zenon DEF FileDelivered
<1>6. MemoryDelivered =>
        \/ UNCHANGED entries /\ \E code : Ended(code)
        \/ UNCHANGED <<entries, call>> /\ Past /\ call.op \in {"memory", "all"}
  BY DEF MemoryDelivered
<1>7. DiskDelivered =>
        \/ UNCHANGED entries /\ \E code : Ended(code)
        \/ UNCHANGED <<entries, call>> /\ Past /\ call.op \in {"memory", "all"}
  BY DEF DiskDelivered
<1>. QED BY <1>2, <1>3, <1>4, <1>5, <1>6, <1>7 DEF Deliver

\* A refused call leaves everything but its answer.
LEMMA RefusedKeepsRead ==
  ASSUME ReadInv, NEW op, NEW code, Refused(op, code)
  PROVE  ReadInv'
<1>1. UNCHANGED <<pkg, entries, opened, call, phase, at, read>>
  BY DEF Refused
<1>. QED BY <1>1 DEF ReadInv, ListingOk, ReadShape, CallOk, AtEntry, ReadWhole, Reading,
                     Entry, TableEntry

LEMMA OpenKeepsRead == ReadInv /\ Open => ReadInv'
<1>. SUFFICES ASSUME ReadInv, Open PROVE ReadInv'
  OBVIOUS
<1>1. CASE Refused("open", HeaderError)
  BY <1>1, RefusedKeepsRead
<1>2. CASE /\ Calls("open", FALSE, {}) /\ phase' = "walk"
           /\ read' = [NoRead EXCEPT !.block = TableEntry.start]
           /\ UNCHANGED <<pkg, entries, opened, at>>
  <2>1. call'.op = "open"
    BY <1>2 DEF Calls
  <2>2. /\ read'.units = << >>
        /\ DOMAIN read' = {"block", "steps", "blocks", "units", "code"}
    BY <1>2 DEF NoRead
  <2>3. IsList(<< >>) /\ Len(<< >>) = 0
    BY EmptySeq DEF IsList
  <2>4. Entry'.size \in Nat
    <3>1. Entry' = TableEntry /\ TableEntry.size = Shape[pkg.shape].tableCount * PerTable
      BY <1>2, <2>1 DEF Entry, TableEntry, TableOf, NoEntry
    <3>2. Shape[pkg.shape].tableCount \in Nat
      BY PackageAssumption DEF ReadInv, ListingOk
    <3>. QED BY <3>1, <3>2, PerTableAssumption
  <2>. QED BY <1>2, <2>1, <2>2, <2>3, <2>4
           DEF ReadInv, ListingOk, ReadShape, CallOk, AtEntry, ReadWhole, Reading
<1>. QED BY <1>1, <1>2, Zenon DEF Open

\* What a call for entries does: it is refused, it begins to read an entry, or
\* it sets out to go through them all.
LEMMA AskedForEntries ==
  ASSUME ReadInv,
         \/ \E i \in DOMAIN entries, verify \in BOOLEAN : Extract(i - 1, verify)
         \/ \E name \in DOMAIN Fold : ExtractFileByName(Fold[name])
         \/ \E without \in Excluding : ExtractToMemory(without)
         \/ \E verify \in BOOLEAN : ExtractAll(verify)
  PROVE  /\ ReadInv' /\ UNCHANGED entries
         /\ phase = "idle" /\ disk' = EmptyDisk
         /\ \/ UNCHANGED <<call, phase>> /\ ~(answer'.op = "all" /\ answer'.code = "ok")
            \/ phase' # "idle" /\ call'.op # "all"
            \/ phase' = "next" /\ at' = 0
<1>0. ListingOk
  BY DEF ReadInv
<1>1. ASSUME NEW i \in DOMAIN entries, NEW verify, Extract(i - 1, verify)
      PROVE  ReadInv' /\ UNCHANGED entries /\ disk' = EmptyDisk /\ phase' # "idle" /\ call'.op # "all"
  <2>1. i \in Nat /\ at' = i - 1 /\ i > 0
    BY <1>0, <1>1, LenProperties DEF Extract, ListingOk, IsList
  <2>2. at' \in Nat /\ at' + 1 = i
    BY <2>1
  <2>3. /\ UNCHANGED <<pkg, entries>> /\ disk' = EmptyDisk /\ call'.op = "entry"
    BY <1>1 DEF Extract, Calls
  <2>4. ReadFrom(entries[(i - 1) + 1])
    BY <1>1 DEF Extract
  <2>5. ReadFrom(entries[at' + 1])
    BY <2>1, <2>4
  <2>. QED BY <1>0, <2>2, <2>3, <2>5, BegunReading DEF Reading
<1>2. ASSUME NEW key, ExtractFileByName(key)
      PROVE  /\ ReadInv' /\ UNCHANGED entries /\ disk' = EmptyDisk
             /\ \/ UNCHANGED <<call, phase>> /\ answer'.op = "name"
                \/ phase' # "idle" /\ call'.op # "all"
  <2>1. CASE Refused("name", "NotFound")
    <3>1. /\ UNCHANGED entries /\ disk' = EmptyDisk /\ UNCHANGED <<call, phase>>
          /\ answer' = [[NoAnswer EXCEPT !.op = "name"] EXCEPT !.code = "NotFound"]
      BY <2>1 DEF Refused
    <3>2. answer'.op = "name"
      BY <3>1 DEF NoAnswer
    <3>. QED BY <2>1, <3>1, <3>2, RefusedKeepsRead
  <2>2. CASE /\ FilesOf(key) # {} /\ Calls("name", FALSE, {})
             /\ at' = FirstOf(key) - 1
             /\ ReadFrom(entries[FirstOf(key)])
             /\ UNCHANGED <<pkg, entries, opened>>
    <3>1. FilesOf(key) \subseteq DOMAIN entries /\ DOMAIN entries = 1 .. Len(entries)
      BY <1>0, LenProperties DEF FilesOf, ListingOk, IsList
    <3>2. \E i \in FilesOf(key) : \A j \in FilesOf(key) : i =< j
      <4>1. FilesOf(key) \subseteq Nat
        BY <3>1
      <4>. QED BY <2>2, <4>1, NatLeast
    <3>3. FirstOf(key) \in DOMAIN entries
      BY <3>1, <3>2 DEF FirstOf
    <3>4. at' \in Nat /\ at' + 1 = FirstOf(key)
      <4>. HIDE DEF FirstOf
      <4>. QED BY <2>2, <3>1, <3>3
    <3>5. disk' = EmptyDisk /\ call'.op = "name"
      BY <2>2 DEF Calls
    <3>. QED BY <1>0, <2>2, <3>3, <3>4, <3>5, BegunReading DEF Reading
  <2>. QED BY <1>2, <2>1, <2>2, Zenon DEF ExtractFileByName
<1>3. ASSUME NEW op \in {"memory", "all"}, NEW verify, NEW without, Calls(op, verify, without),
             phase' = "next", at' = 0, UNCHANGED <<pkg, entries, opened, read>>
      PROVE  ReadInv' /\ UNCHANGED entries /\ disk' = EmptyDisk /\ phase' = "next" /\ at' = 0
  <2>1. call'.op = op /\ disk' = EmptyDisk
    BY <1>3 DEF Calls
  <2>. QED BY <1>3, <2>1
           DEF ReadInv, ListingOk, ReadShape, CallOk, AtEntry, ReadWhole, Reading
<1>4. ASSUME NEW code, code # "ok", Refused("all", code)
      PROVE  /\ ReadInv' /\ UNCHANGED entries /\ disk' = EmptyDisk
             /\ UNCHANGED <<call, phase>> /\ answer'.code # "ok"
  <2>1. /\ UNCHANGED entries /\ disk' = EmptyDisk /\ UNCHANGED <<call, phase>>
        /\ answer' = [[NoAnswer EXCEPT !.op = "all"] EXCEPT !.code = code]
    BY <1>4 DEF Refused
  <2>2. answer'.code = code
    BY <2>1, Zenon DEF NoAnswer
  <2>. QED BY <1>4, <2>1, <2>2, RefusedKeepsRead
<1>5. ASSUME NEW without, ExtractToMemory(without)
      PROVE  ReadInv' /\ UNCHANGED entries /\ disk' = EmptyDisk /\ phase' = "next" /\ at' = 0
  BY <1>3, <1>5, Zenon DEF ExtractToMemory
<1>6. ASSUME NEW verify, ExtractAll(verify)
      PROVE  /\ ReadInv' /\ UNCHANGED entries /\ disk' = EmptyDisk
             /\ \/ UNCHANGED <<call, phase>> /\ answer'.code # "ok"
                \/ phase' = "next" /\ at' = 0
  BY <1>3, <1>4, <1>6, Zenon DEF ExtractAll
<1>7. phase = "idle"
  BY Zenon DEF Extract, ExtractFileByName, ExtractToMemory, ExtractAll, Calls
<1>. QED BY <1>1, <1>2, <1>5, <1>6, <1>7

LEMMA NextKeepsRead == ReadInv /\ [Next]_vars => ReadInv'
<1>. SUFFICES ASSUME ReadInv, [Next]_vars PROVE ReadInv'
  OBVIOUS
<1>1. CASE UNCHANGED vars
  BY <1>1 DEF vars, ReadInv, ListingOk, ReadShape, CallOk, AtEntry, ReadWhole, Reading,
              Entry, TableEntry
<1>2. CASE Step
  BY <1>2, FollowKeepsRead, CopyKeepsRead, NextEntryKeepsRead, DeliverKeepsRead DEF Step
<1>3. CASE Ask
  BY <1>3, OpenKeepsRead, AskedForEntries, Zenon DEF Ask
<1>. QED BY <1>1, <1>2, <1>3 DEF Next

\* An entry on disk is a matter of the listing and the directory alone.
LEMMA OnDiskSame ==
  ASSUME UNCHANGED <<entries, disk>>, NEW i
  PROVE  OnDisk(i)' <=> OnDisk(i)
BY DEF OnDisk, LaidBy, Paths

\* Steps that leave the directory, the listing and the place in it.
LEMMA DiskUntouched ==
  ASSUME DiskInv, UNCHANGED <<entries, disk, at, call>>, phase' # "idle",
         Reading' /\ call.op = "all" => ~Entry.dir
  PROVE  DiskInv'
<1>1. \A i : OnDisk(i)' <=> OnDisk(i)
  BY OnDiskSame
<1>2. Entry'.dir = Entry.dir \/ call.op # "all"
  BY DEF Entry
<1>. QED BY <1>1, <1>2 DEF DiskInv, DiskShape, FilesAreNoDirs, WrittenSoFar, ReadsFile, AllOnDisk

\* A call that fails promises nothing.
LEMMA FailedPromisesNothing ==
  ASSUME NEW code, code # "ok", Ended(code), DiskShape', FilesAreNoDirs'
  PROVE  DiskInv'
<1>1. answer'.code = code /\ call'.op = "none" /\ phase' = "idle"
  BY DEF Ended, NoCall
<1>. QED BY <1>1 DEF DiskInv, WrittenSoFar, ReadsFile, AllOnDisk, Reading

LEMMA NextEntryKeepsDisk == ReadInv /\ DiskInv /\ NextEntry => DiskInv'
<1>. SUFFICES ASSUME ReadInv, DiskInv, NextEntry PROVE DiskInv'
  OBVIOUS
<1>1. /\ DiskShape /\ FilesAreNoDirs /\ WrittenSoFar /\ UNCHANGED entries
      /\ at \in Nat /\ call.op \in {"memory", "all"} /\ Entry = entries[at + 1]
      /\ phase = "next"
  BY DEF DiskInv, NextEntry, ReadInv, AtEntry, CallOk, Entry
<1>2. Past \/ ReadFrom(Entry) => phase' # "idle"
  BY DEF Past, ReadFrom
<1>3. CASE at = Len(entries) /\ Ended("ok") /\ UNCHANGED disk
  <2>1. call'.op = "none" /\ phase' = "idle" /\ answer'.op = call.op
    BY <1>3 DEF Ended, NoCall
  <2>2. \A i : OnDisk(i)' <=> OnDisk(i)
    BY <1>1, <1>3, OnDiskSame
  <2>3. \A i \in DOMAIN entries : i =< Len(entries)
    BY LenProperties DEF ReadInv, ListingOk, IsList
  <2>4. AllOnDisk'
    BY <1>1, <1>3, <2>1, <2>2, <2>3 DEF WrittenSoFar, AllOnDisk
  <2>. QED BY <1>1, <1>3, <2>1, <2>4
           DEF DiskInv, DiskShape, FilesAreNoDirs, WrittenSoFar, ReadsFile, Reading
<1>4. CASE call.op = "memory" /\ (Past \/ ReadFrom(Entry)) /\ UNCHANGED <<call, disk>>
  BY <1>1, <1>2, <1>4
     DEF DiskInv, DiskShape, FilesAreNoDirs, WrittenSoFar, ReadsFile, AllOnDisk
<1>5. CASE Ended("IoError") /\ UNCHANGED disk
  BY <1>1, <1>5, FailedPromisesNothing DEF DiskShape, FilesAreNoDirs
<1>6. CASE /\ at < Len(entries) /\ call.op = "all" /\ CanCreate(Directory) /\ disk' = Created(Directory)
           /\ IF Entry.dir THEN Past ELSE ReadFrom(Entry) /\ UNCHANGED at
           /\ UNCHANGED call
  <2>1. /\ DiskShape' /\ disk'.files = disk.files
        /\ disk'.dirs = disk.dirs \cup Prefixes(Directory)
    <3>. QED BY <1>1, <1>6 DEF Created, DiskShape
  <2>2. FilesAreNoDirs'
    <3>. QED BY <1>1, <1>6, <2>1 DEF CanCreate, FilesAreNoDirs
  <2>3. \A i : OnDisk(i) => OnDisk(i)'
    <3>1. UNCHANGED <<Paths, entries>>
      BY <1>1 DEF Paths
    <3>2. \A path, j : LaidBy(path, j)' <=> LaidBy(path, j)
      BY <2>1, <3>1 DEF LaidBy
    <3>. QED BY <2>1, <2>2, <3>1, <3>2 DEF OnDisk, FilesAreNoDirs
  <2>4. CASE Entry.dir
    <3>1. at' = at + 1 /\ phase' = "next"
      BY <1>6, <2>4 DEF Past
    <3>0. PICK n \in Nat : n = at
      BY <1>1
    <3>2. OnDisk(n + 1)'
      <4>1. Paths' = Paths /\ (n + 1) - 1 = n
        BY <1>1, <3>0 DEF Paths
      <4>2. Normal(Paths[n]) \in disk'.dirs
        BY <2>1, <2>4, <3>0 DEF Prefixes, Directory, Destination
      <4>. QED BY <1>1, <2>4, <3>0, <4>1, <4>2 DEF OnDisk
    <3>3. \A i \in DOMAIN entries : i =< at' => i =< at \/ i = n + 1
      BY <1>1, <3>0, <3>1, LenProperties DEF ReadInv, ListingOk, IsList
    <3>4. WrittenSoFar'
      BY <1>1, <2>3, <3>2, <3>3, <1>6 DEF WrittenSoFar
    <3>. QED BY <2>1, <2>2, <3>1, <3>4 DEF DiskInv, AllOnDisk, ReadsFile, Reading
  <2>5. CASE ~Entry.dir
    <3>1. phase' # "idle" /\ at' = at
      BY <1>2, <1>6, <2>5
    <3>2. Entry' = Entry
      BY <1>1, <1>6, <3>1 DEF Entry
    <3>3. WrittenSoFar'
      BY <1>1, <1>6, <2>3, <3>1 DEF WrittenSoFar
    <3>. QED BY <2>1, <2>2, <2>5, <3>1, <3>2, <3>3 DEF DiskInv, AllOnDisk, ReadsFile
  <2>. QED BY <2>4, <2>5
<1>. QED BY <1>3, <1>4, <1>5, <1>6, Zenon DEF NextEntry

LEMMA DiskDeliveredKeepsDisk ==
  ReadInv /\ DiskInv /\ phase = "deliver" /\ DiskDelivered => DiskInv'
<1>. SUFFICES ASSUME ReadInv, DiskInv, phase = "deliver", DiskDelivered PROVE DiskInv'
  OBVIOUS
<1>1. /\ DiskShape /\ FilesAreNoDirs /\ WrittenSoFar /\ UNCHANGED entries
      /\ call.op = "all" /\ ~Entry.dir /\ Entry = entries[at + 1]
      /\ at \in Nat /\ at + 1 \in DOMAIN entries
  BY DEF DiskInv, ReadsFile, DiskDelivered, ReadInv, AtEntry, Entry, Reading
<1>2. DOMAIN entries = 1 .. Len(entries) /\ Len(entries) \in Nat
  BY LenProperties DEF ReadInv, ListingOk, IsList
<1>3. ASSUME NEW units, Destination \notin disk.dirs, disk' = Stored(disk, Destination, units)
      PROVE  /\ DiskShape' /\ FilesAreNoDirs' /\ disk'.dirs = disk.dirs
             /\ disk'.files = [p \in DOMAIN disk.files \cup {Destination} |->
                                 IF p = Destination THEN units ELSE disk.files[p]]
  <2>. DEFINE files == [p \in DOMAIN disk.files \cup {Destination} |->
                          IF p = Destination THEN units ELSE disk.files[p]]
  <2>1. disk' = [disk EXCEPT !.files = files]
    BY <1>3 DEF Stored
  <2>2. DOMAIN files = DOMAIN disk.files \cup {Destination}
    OBVIOUS
  <2>3. disk'.files = files /\ disk'.dirs = disk.dirs /\ DiskShape'
    <3>. HIDE DEF files
    <3>. QED BY <1>1, <2>1 DEF DiskShape
  <2>. HIDE DEF files
  <2>4. FilesAreNoDirs'
    BY <1>1, <1>3, <2>2, <2>3 DEF FilesAreNoDirs
  <2>. QED BY <2>3, <2>4 DEF files
<1>4. CASE /\ read.code = "ok" /\ Destination \notin disk.dirs
           /\ disk' = Stored(disk, Destination, read.units)
           /\ Past /\ UNCHANGED call
  <2>1. Len(read.units) = Entry.size
    BY <1>4 DEF ReadInv, ReadWhole, Reading
  <2>2. at' = at + 1 /\ phase' = "next"
    BY <1>4 DEF Past
  <2>a. PICK n \in Nat : n = at
    BY <1>1
  <2>b. PICK here : here = Destination
    OBVIOUS
  <2>0. n = at /\ here = Destination
    BY <2>a, <2>b
  <2>3. UNCHANGED <<Paths, entries>> /\ (n + 1) - 1 = n
    BY <1>1 DEF Paths
  <2>4. LaidBy(here, n + 1)'
    <3>1. Normal(Paths[n]) = here
      BY <2>0 DEF Destination
    <3>2. disk'.files[here] = read.units
      BY <1>3, <1>4, <2>0
    <3>. QED BY <1>1, <2>0, <2>1, <2>3, <3>1, <3>2 DEF LaidBy
  <2>5. \A path, j : path \in DOMAIN disk.files /\ path # Destination /\ LaidBy(path, j)
                       => LaidBy(path, j)'
    BY <1>3, <1>4, <2>3 DEF LaidBy
  <2>6. \A i \in DOMAIN entries : i =< at /\ OnDisk(i) => OnDisk(i)'
    <3>. SUFFICES ASSUME NEW i \in DOMAIN entries, i =< at, OnDisk(i) PROVE OnDisk(i)'
      OBVIOUS
    <3>0. PICK path : path = Normal(Paths[i - 1])
      OBVIOUS
    <3>1. CASE entries[i].dir
      BY <1>3, <1>4, <2>3, <3>1 DEF OnDisk
    <3>2. CASE ~entries[i].dir /\ path = Destination
      <4>1. Destination \in DOMAIN disk'.files \ disk'.dirs
        BY <1>3, <1>4
      <4>2. n + 1 \in i .. Len(entries)
        BY <1>1, <1>2, <2>0
      <4>3. \E j \in i .. Len(entries) : LaidBy(path, j)'
        BY <3>2, <4>2, <2>0, <2>4
      <4>. QED BY <2>3, <3>0, <3>2, <4>1, <4>3 DEF OnDisk
    <3>3. CASE ~entries[i].dir /\ path # Destination
      <4>1. PICK j \in i .. Len(entries) : LaidBy(path, j)
        BY <3>0, <3>3 DEF OnDisk
      <4>2. path \in DOMAIN disk.files \ disk.dirs
        BY <3>0, <3>3 DEF OnDisk
      <4>3. path \in DOMAIN disk'.files \ disk'.dirs
        <5>1. DOMAIN disk'.files = DOMAIN disk.files \cup {Destination}
          BY <1>3, <1>4
        <5>. QED BY <1>3, <1>4, <4>2, <5>1, Zenon
      <4>4. LaidBy(path, j)'
        BY <2>5, <3>3, <4>1, <4>2
      <4>. QED BY <2>3, <3>0, <3>3, <4>3, <4>4 DEF OnDisk
    <3>. QED BY <3>1, <3>2, <3>3
  <2>7. OnDisk(n + 1)'
    <3>1. here \in DOMAIN disk'.files \ disk'.dirs
      BY <1>3, <1>4, <2>0
    <3>2. n + 1 \in (n + 1) .. Len(entries)
      BY <1>1, <1>2, <2>0
    <3>3. here = Normal(Paths[n])
      BY <2>0 DEF Destination
    <3>. QED BY <1>1, <2>0, <2>3, <2>4, <3>1, <3>2, <3>3 DEF OnDisk
  <2>8. WrittenSoFar'
    <3>1. \A i \in DOMAIN entries : i =< at' => i =< at \/ i = n + 1
      BY <1>1, <1>2, <2>0, <2>2
    <3>. QED BY <1>1, <2>6, <2>7, <3>1 DEF WrittenSoFar
  <2>. QED BY <1>3, <1>4, <2>2, <2>8 DEF DiskInv, AllOnDisk, ReadsFile, Reading
<1>5. CASE /\ Destination \notin disk.dirs /\ Ended("IoError")
           /\ disk' = Stored(disk, Destination, Torn)
  BY <1>3, <1>5, FailedPromisesNothing
<1>6. CASE UNCHANGED disk /\ \E code : code # "ok" /\ Ended(code)
  BY <1>1, <1>6, FailedPromisesNothing DEF DiskShape, FilesAreNoDirs
<1>. QED BY <1>4, <1>5, <1>6 DEF DiskDelivered

LEMMA NextKeepsDisk == ReadInv /\ DiskInv /\ [Next]_vars => DiskInv'
<1>. SUFFICES ASSUME ReadInv, DiskInv, [Next]_vars PROVE DiskInv'
  OBVIOUS
<1>1. CASE UNCHANGED vars
  <2>1. \A i : OnDisk(i)' <=> OnDisk(i)
    BY <1>1, OnDiskSame DEF vars
  <2>. QED BY <1>1, <2>1 DEF vars, DiskInv, DiskShape, FilesAreNoDirs, WrittenSoFar, ReadsFile,
                             AllOnDisk, Reading, Entry, TableEntry
<1>2. CASE FollowBlockChain
  <2>1. Reading /\ phase' # "idle" /\ UNCHANGED <<entries, disk, at, call>>
    BY <1>2 DEF FollowBlockChain, Reading
  <2>. QED BY <2>1, DiskUntouched DEF DiskInv, ReadsFile
<1>3. CASE CopyBlock
  <2>1. Reading /\ phase' # "idle" /\ UNCHANGED <<entries, disk, at, call>>
    BY <1>3 DEF CopyBlock, Reading
  <2>. QED BY <2>1, DiskUntouched DEF DiskInv, ReadsFile
<1>4. CASE Deliver
  <2>1. CASE DiskDelivered
    BY <1>4, <2>1, DiskDeliveredKeepsDisk DEF Deliver
  <2>2. CASE OpenDelivered \/ FileDelivered \/ MemoryDelivered
    <3>1. /\ UNCHANGED disk
          /\ \/ call'.op = "none" /\ answer'.op # "all" /\ phase' = "idle"
             \/ call'.op # "all" /\ phase' = "next"
      BY <2>2 DEF OpenDelivered, FileDelivered, MemoryDelivered, Ended, Past, NoCall
    <3>. QED BY <3>1 DEF DiskInv, DiskShape, FilesAreNoDirs, WrittenSoFar, ReadsFile, AllOnDisk,
                         Reading
  <2>. QED BY <1>4, <2>1, <2>2 DEF Deliver
<1>5. disk' = EmptyDisk => DiskShape' /\ FilesAreNoDirs'
  BY DEF EmptyDisk, DiskShape, FilesAreNoDirs
<1>6. CASE Open
  <2>1. disk' = EmptyDisk /\ phase = "idle"
    BY <1>6 DEF Open, Refused, Calls
  <2>2. \/ call' = call /\ phase' = phase /\ answer'.op = "open"
        \/ call'.op = "open" /\ phase' = "walk"
    <3>1. CASE Refused("open", HeaderError)
      <4>1. answer' = [[NoAnswer EXCEPT !.op = "open"] EXCEPT !.code = HeaderError]
        BY <3>1 DEF Refused
      <4>2. answer'.op = "open"
        BY <4>1, Zenon DEF NoAnswer
      <4>. QED BY <3>1, <4>2 DEF Refused
    <3>2. CASE Calls("open", FALSE, {}) /\ phase' = "walk"
      BY <3>2 DEF Calls
    <3>. QED BY <1>6, <3>1, <3>2, Zenon DEF Open
  <2>3. call.op = "none"
    BY <2>1 DEF ReadInv, CallOk
  <2>. QED BY <1>5, <2>1, <2>2, <2>3
           DEF DiskInv, WrittenSoFar, ReadsFile, AllOnDisk, Reading
<1>7. CASE Ask /\ ~Open
  <2>1. /\ ReadInv' /\ UNCHANGED entries
        /\ phase = "idle" /\ disk' = EmptyDisk
        /\ \/ UNCHANGED <<call, phase>> /\ ~(answer'.op = "all" /\ answer'.code = "ok")
           \/ phase' # "idle" /\ call'.op # "all"
           \/ phase' = "next" /\ at' = 0
    BY <1>7, AskedForEntries, Zenon DEF Ask
  <2>2. call.op = "none"
    BY <2>1 DEF ReadInv, CallOk
  <2>3. \A i \in DOMAIN entries : ~(i =< 0)
    BY LenProperties DEF ReadInv, ListingOk, IsList
  <2>. QED BY <1>5, <2>1, <2>2, <2>3 DEF DiskInv, WrittenSoFar, ReadsFile, AllOnDisk, Reading
<1>. QED BY <1>1, <1>2, <1>3, <1>4, <1>6, <1>7, NextEntryKeepsDisk DEF Next, Step

\* After a successful extract_all, whatever the package is worth, every
\* listed directory is there and every listed file, or one listed later for
\* its path, lies there whole.
THEOREM AllIsWritten == Spec => []AllOnDisk
<1>1. Init => ReadInv /\ DiskInv
  <2>. SUFFICES ASSUME Init PROVE ReadInv /\ DiskInv
    OBVIOUS
  <2>1. IsList(<< >>)
    BY EmptySeq DEF IsList
  <2>2. /\ NoCall.op = "none" /\ NoAnswer.op = "none"
        /\ DOMAIN NoRead = {"block", "steps", "blocks", "units", "code"}
    BY DEF NoCall, NoAnswer, NoRead
  <2>3. ReadInv
    BY <2>1, <2>2 DEF Init, ReadInv, ListingOk, ReadShape, CallOk, AtEntry, ReadWhole, Reading
  <2>4. DiskInv
    BY <2>2 DEF Init, DiskInv, DiskShape, FilesAreNoDirs, WrittenSoFar, ReadsFile, AllOnDisk,
                Reading, EmptyDisk
  <2>. QED BY <2>3, <2>4
<1>2. ReadInv /\ DiskInv /\ [Next]_vars => (ReadInv /\ DiskInv)'
  BY NextKeepsRead, NextKeepsDisk
<1>3. ReadInv /\ DiskInv => AllOnDisk
  BY DEF DiskInv
<1>. QED BY <1>1, <1>2, <1>3, PTL DEF Spec

-----------------------------------------------------------------------------
(***************************************************************************)
(* Where the publisher lays what the reader looks for.  Image appends the  *)
(* blocks and the tables before them one after another; Laid says of the   *)
(* first n blocks laid so that each block, and each table the blocks need, *)
(* lies where StfsLayout puts it, and that nothing else lies there.        *)
(***************************************************************************)

LEMMA PNat == P \in Nat /\ P > 1 /\ PerLevel0 = P /\ PerLevel1 = P * P /\ PerLevel2 = P * P * P
BY PerTableAssumption DEF P, PerLevel0, PerLevel1, PerLevel2

\* A set that holds 0 and the successor of each of its naturals holds them all.
LEMMA NatInductionOnSets ==
  ASSUME NEW S, 0 \in S, \A n \in Nat : n \in S => n + 1 \in S
  PROVE  Nat \subseteq S
<1>. DEFINE T == Nat \ S
<1>1. SUFFICES ASSUME T # {} PROVE FALSE
  OBVIOUS
<1>2. PICK x \in T : \A y \in T : x =< y
  BY <1>1, NatLeast
<1>3. x # 0 /\ x - 1 \in Nat /\ x - 1 \notin T
  BY <1>2
<1>. QED BY <1>2, <1>3

\* The coordinates of the block before a block.
LEMMA BlockBefore ==
  ASSUME NEW n \in 1 .. PerLevel2 - 1
  PROVE  /\ n - 1 \in 0 .. PerLevel2 - 1
         /\ Place(n) # 0 =>
              Group(n - 1) = Group(n) /\ Place(n - 1) = Place(n) - 1 /\ Super(n - 1) = Super(n)
         /\ Place(n) = 0 =>
              /\ Group(n) >= 1 /\ Group(n - 1) = Group(n) - 1 /\ Place(n - 1) = P - 1
              /\ Super(n - 1) = IF InSuper(n) = 0 THEN Super(n) - 1 ELSE Super(n)
<1>. DEFINE g == Group(n)
            r == Place(n)
            s == Super(n)
            i == InSuper(n)
            m == n - 1
<1>0. P \in Nat /\ P > 1 /\ PerLevel0 = P
  BY PNat
<1>1. m \in 0 .. PerLevel2 - 1 /\ n \in 0 .. PerLevel2 - 1 /\ n > 0
  <2>1. PerLevel2 \in Int
    BY <1>0, PNat
  <2>. QED BY <2>1
<1>2. /\ g \in Nat /\ s \in Nat /\ r \in 0 .. P - 1 /\ i \in 0 .. P - 1
      /\ n = g * P + r /\ g = s * P + i
  BY <1>1, Coordinates
<1>3. Super(m) = Group(m) \div P
  BY <1>1, SuperOfGroup
<1>4. Group(m) = m \div P /\ Place(m) = m % P
  BY <1>0 DEF Group, Place
<1>. HIDE DEF g, r, s, i
<1>5. g * P \in Nat /\ s * P \in Nat /\ (g = 0 => g * P = 0) /\ (s = 0 => s * P = 0)
  BY <1>0, <1>2
<1>6. CASE r # 0
  <2>1. m = g * P + (r - 1) /\ r - 1 \in Nat /\ r - 1 < P /\ m \in Nat
    BY <1>0, <1>1, <1>2, <1>5, <1>6
  <2>2. Group(m) = g /\ Place(m) = r - 1
    <3>. HIDE DEF m
    <3>. QED BY <2>1, <1>0, <1>2, <1>4, DivUnique
  <2>3. Super(m) = s
    BY <2>2, <1>0, <1>2, <1>3, DivUnique
  <2>. QED BY <1>1, <1>6, <2>2, <2>3 DEF g, r, s
<1>7. CASE r = 0
  <2>1. g > 0
    BY <1>1, <1>2, <1>5, <1>7
  <2>2. m = (g - 1) * P + (P - 1) /\ g - 1 \in Nat /\ P - 1 \in Nat /\ P - 1 < P /\ m \in Nat
    <3>1. (g - 1) * P = g * P - P
      BY <1>0, <1>2
    <3>. QED BY <3>1, <2>1, <1>0, <1>1, <1>2, <1>5, <1>7
  <2>3. Group(m) = g - 1 /\ Place(m) = P - 1
    <3>. HIDE DEF m
    <3>. QED BY <2>2, <1>0, <1>4, DivUnique
  <2>4. CASE i = 0
    <3>1. s > 0
      BY <2>1, <2>4, <1>2, <1>5
    <3>2. g - 1 = (s - 1) * P + (P - 1) /\ s - 1 \in Nat
      <4>1. (s - 1) * P = s * P - P
        BY <1>0, <1>2
      <4>. QED BY <4>1, <3>1, <2>4, <1>0, <1>2, <1>5
    <3>3. Super(m) = s - 1
      <4>. DEFINE h == g - 1
                  t == s - 1
                  l == P - 1
      <4>1. h \in Nat /\ t \in Nat /\ l \in Nat /\ l < P /\ h = t * P + l
        BY <3>2, <2>2
      <4>. HIDE DEF h, t, l
      <4>2. h \div P = t
        BY <4>1, <1>0, DivUnique
      <4>. QED BY <4>2, <2>3, <1>3 DEF h, t
    <3>4. g >= 1
      BY <2>1, <1>2
    <3>. QED BY <1>1, <1>7, <2>3, <2>4, <3>3, <3>4 DEF g, r, s, i
  <2>5. CASE i # 0
    <3>1. g - 1 = s * P + (i - 1) /\ i - 1 \in Nat /\ i - 1 < P
      BY <2>5, <1>0, <1>2, <1>5
    <3>2. Super(m) = s
      BY <3>1, <2>2, <2>3, <1>0, <1>2, <1>3, DivUnique
    <3>3. g >= 1
      BY <2>1, <1>2
    <3>. QED BY <1>1, <1>7, <2>3, <2>5, <3>2, <3>3 DEF g, r, s, i
  <2>. QED BY <2>4, <2>5
<1>. QED BY <1>6, <1>7

\* The blocks TablesBefore tells apart, by their coordinates.
LEMMA LeadBlocks ==
  ASSUME NEW n \in 0 .. PerLevel2 - 1
  PROVE  /\ n % PerLevel0 = Place(n)
         /\ n = PerLevel0 <=> Place(n) = 0 /\ Group(n) = 1
         /\ n = PerLevel1 <=> Place(n) = 0 /\ InSuper(n) = 0 /\ Super(n) = 1
         /\ n % PerLevel1 = 0 <=> Place(n) = 0 /\ InSuper(n) = 0
         /\ n > 0 /\ n % PerLevel1 = 0 => Super(n) >= 1
         /\ Group(n) = 1 => InSuper(n) = 1 /\ Super(n) = 0
<1>. DEFINE g == Group(n)
            r == Place(n)
            s == Super(n)
            i == InSuper(n)
            pp == P * P
<1>0. P \in Nat /\ P > 1 /\ PerLevel0 = P /\ PerLevel1 = pp
  BY PNat
<1>1. /\ g \in Nat /\ s \in Nat /\ r \in 0 .. P - 1 /\ i \in 0 .. P - 1 /\ n \in Nat
      /\ n = g * P + r /\ g = s * P + i /\ r = n % P
  <2>1. r = n % P
    BY <1>0 DEF Place
  <2>. QED BY <2>1, Coordinates
<1>. HIDE DEF g, r, s, i
<1>2. pp \in Nat /\ pp > P
  <2>1. PICK k \in Nat : P = 2 + k
    <3>1. P - 2 \in Nat /\ P = 2 + (P - 2)
      BY <1>0
    <3>. QED BY <3>1
  <2>2. P * P = P + P + k * P /\ k * P \in Nat
    BY <1>0, <2>1
  <2>. QED BY <1>0, <2>2
<1>3. i * P \in Nat /\ i * P + P =< pp
  <2>1. PICK k \in Nat : P = i + 1 + k
    <3>1. P - i - 1 \in Nat /\ P = i + 1 + (P - i - 1)
      BY <1>0, <1>1
    <3>. QED BY <3>1
  <2>2. P * P = i * P + P + k * P
    BY <1>0, <1>1, <2>1
  <2>3. k * P \in Nat /\ i * P \in Nat
    BY <1>0, <1>1
  <2>. QED BY <1>0, <2>2, <2>3
<1>4. n = s * pp + (i * P + r)
  <2>1. (s * P + i) * P = s * P * P + i * P /\ s * P * P = s * (P * P)
    BY <1>0, <1>1
  <2>2. g * P = s * pp + i * P
    BY <1>1, <2>1
  <2>3. s * pp \in Nat
    <3>. HIDE DEF pp
    <3>. QED BY <1>1, <1>2
  <2>. DEFINE x == s * pp
              y == i * P
  <2>4. n = g * P + r /\ g * P = x + y /\ x \in Nat /\ y \in Nat
    BY <1>1, <1>3, <2>2, <2>3
  <2>5. n = x + y + r /\ r \in Nat
    <3>. HIDE DEF x, y
    <3>. QED BY <2>4, <1>1
  <2>6. n = x + (y + r)
    <3>. HIDE DEF x, y
    <3>. QED BY <2>4, <2>5
  <2>. QED BY <2>6
<1>. HIDE DEF pp
<1>5. n % pp = i * P + r
  <2>. DEFINE off == i * P + r
  <2>1. off \in Nat /\ off < pp /\ n = s * pp + off
    BY <1>0, <1>1, <1>2, <1>3, <1>4
  <2>2. pp > 0
    BY <1>0, <1>2
  <2>. HIDE DEF off
  <2>3. n % pp = off
    BY <1>1, <1>2, <2>1, <2>2, DivUnique
  <2>. QED BY <2>3 DEF off
<1>6. i * P = 0 <=> i = 0
  <2>1. i > 0 => i * P > 0
    BY <1>0, <1>1
  <2>. QED BY <2>1, <1>0, <1>1
<1>7. n % pp = 0 <=> r = 0 /\ i = 0
  BY <1>5, <1>6, <1>1, <1>3
<1>8. n = P <=> r = 0 /\ g = 1
  <2>1. n = P => n = 1 * P + 0
    BY <1>0
  <2>2. n = P => g = 1 /\ r = 0
    <3>1. SUFFICES ASSUME n = P PROVE g = 1 /\ r = 0
      OBVIOUS
    <3>2. n \div P = 1 /\ n % P = 0
      BY <3>1, <2>1, <1>0, DivUnique
    <3>3. g = n \div P
      BY <1>0 DEF g, Group
    <3>. QED BY <3>2, <3>3, <1>1
  <2>3. g = 1 /\ r = 0 => n = P
    BY <1>0, <1>1
  <2>. QED BY <2>2, <2>3
<1>9. n = pp <=> r = 0 /\ i = 0 /\ s = 1
  <2>1. n = pp => s = 1 /\ r = 0 /\ i = 0
    <3>1. SUFFICES ASSUME n = pp PROVE s = 1 /\ r = 0 /\ i = 0
      OBVIOUS
    <3>2. n \div pp = 1 /\ n % pp = 0
      <4>1. n = 1 * pp + 0
        BY <3>1, <1>2
      <4>. QED BY <4>1, <1>2, <1>0, DivUnique
    <3>3. s = n \div pp
      BY <1>0 DEF s, Super
    <3>. QED BY <3>2, <3>3, <1>7
  <2>2. s = 1 /\ r = 0 /\ i = 0 => n = pp
    BY <1>2, <1>4, <1>6
  <2>. QED BY <2>1, <2>2
<1>10. g = 1 => i = 1 /\ s = 0
  <2>1. SUFFICES ASSUME g = 1 PROVE i = 1 /\ s = 0
    OBVIOUS
  <2>2. 1 = s * P + i /\ 1 = 0 * P + 1
    BY <2>1, <1>1, <1>0
  <2>3. 1 \div P = s /\ 1 % P = i
    BY <2>2, <1>0, <1>1, DivUnique
  <2>4. 1 \div P = 0 /\ 1 % P = 1
    BY <2>2, <1>0, DivUnique
  <2>. QED BY <2>3, <2>4
<1>11. n > 0 /\ n % pp = 0 => s >= 1
  <2>1. s = 0 => s * pp = 0
    BY <1>2
  <2>. QED BY <1>1, <1>4, <1>6, <1>7, <2>1
<1>. QED BY <1>0, <1>1, <1>7, <1>8, <1>9, <1>10, <1>11 DEF g, r, s, i

\* How far a block and its tables lie behind the block before it.
LEMMA NextPlace ==
  ASSUME NEW n \in 1 .. PerLevel2 - 1
  PROVE  /\ DataBlock(n - 1) \in Nat
         /\ Place(n) # 0 =>
              /\ DataBlock(n) = DataBlock(n - 1) + 1
              /\ Level0Table(n) = Level0Table(n - 1) /\ Level1Table(n) = Level1Table(n - 1)
         /\ Place(n) = 0 => Level0Table(n) = DataBlock(n) - 1
         /\ Place(n) = 0 /\ Group(n) = 1 =>
              DataBlock(n) = DataBlock(n - 1) + 3 /\ Level1Table(n) = DataBlock(n) - 2
         /\ Place(n) = 0 /\ Group(n) # 1 /\ InSuper(n) # 0 =>
              DataBlock(n) = DataBlock(n - 1) + 2 /\ Level1Table(n) = Level1Table(n - 1)
         /\ Place(n) = 0 /\ InSuper(n) = 0 =>
              /\ Level1Table(n) = DataBlock(n) - 2
              /\ Super(n) # 1 => DataBlock(n) = DataBlock(n - 1) + 3
              /\ Super(n) = 1 => DataBlock(n) = DataBlock(n - 1) + 4
                                 /\ Level2Table = DataBlock(n) - 3
<1>. DEFINE m == n - 1
            g == Group(n)
            r == Place(n)
            s == Super(n)
            i == InSuper(n)
<1>0. P \in Nat /\ P > 1 /\ Step0 = P + 1 /\ Step1 = P * P + P + 1 /\ PerLevel2 \in Int
  <2>1. P * P * P \in Int
    BY PNat
  <2>. QED BY <2>1, PNat DEF Step0, Step1
<1>1. m \in 0 .. PerLevel2 - 1 /\ n \in 0 .. PerLevel2 - 1
  BY <1>0, BlockBefore
<1>2. /\ r # 0 => Group(m) = g /\ Place(m) = r - 1 /\ Super(m) = s
      /\ r = 0 => /\ g >= 1 /\ Group(m) = g - 1 /\ Place(m) = P - 1
                  /\ Super(m) = IF i = 0 THEN s - 1 ELSE s
  BY BlockBefore
<1>3. /\ g \in Nat /\ s \in Nat /\ r \in 0 .. P - 1 /\ i \in 0 .. P - 1 /\ g = s * P + i
  BY <1>1, Coordinates
<1>4. /\ Level0Table(n) = IF g = 0 THEN 0
                          ELSE IF s = 0 THEN g * (P + 1) + 1 ELSE g * (P + 1) + s + 2
      /\ Level0Table(m) = IF Group(m) = 0 THEN 0
                          ELSE IF Super(m) = 0 THEN Group(m) * (P + 1) + 1
                          ELSE Group(m) * (P + 1) + Super(m) + 2
  BY <1>1, Level0Bounds
<1>5. /\ DataBlock(n) = Level0Table(n) + r + 1 /\ Level0Table(n) \in Nat
      /\ DataBlock(m) = Level0Table(m) + Place(m) + 1 /\ Level0Table(m) \in Nat
  BY <1>1, BlockBehindTable
<1>6. /\ Level1Table(n) = IF s = 0 THEN P + 1 ELSE s * (P * P + P + 1) + 1
      /\ Level1Table(m) = IF Super(m) = 0 THEN P + 1 ELSE Super(m) * (P * P + P + 1) + 1
      /\ Level2Table = P * P + P + 1
  BY <1>0, Zenon DEF Level1Table, Level2Table, Super
<1>7. DataBlock(m) \in Nat
  <2>1. Place(m) \in Nat
    BY <1>0, <1>1, Coordinates
  <2>. QED BY <2>1, <1>5
<1>8. r = 0 /\ g = 1 => i = 1 /\ s = 0
  BY <1>1, LeadBlocks
<1>. HIDE DEF g, r, s, i, m
<1>. DEFINE place == g * (P + 1)
            sp == s * P
<1>9. (g - 1) * (P + 1) = place - (P + 1) /\ place \in Nat /\ sp \in Nat
      /\ (g = 1 => place = P + 1) /\ g = sp + i /\ (s = 0 => sp = 0)
  <2>1. (g - 1) * (P + 1) = g * (P + 1) - (P + 1)
    BY <1>0, <1>3
  <2>2. g * (P + 1) \in Nat
    BY <1>0, <1>3
  <2>3. s * P \in Nat /\ (s = 0 => s * P = 0)
    BY <1>0, <1>3
  <2>. QED BY <2>1, <2>2, <2>3, <1>0, <1>3
<1>10. i = 0 => place = s * (P * P + P)
  <2>1. (s * P) * (P + 1) = s * (P * P + P)
    BY <1>0, <1>3
  <2>2. i = 0 => g = s * P
    BY <1>3, <1>0
  <2>. QED BY <2>1, <2>2
<1>11. s * (P * P + P + 1) = s * (P * P + P) + s
  BY <1>0, <1>3
<1>12. s = 1 => s * (P * P + P) = P * P + P
  BY <1>0
<1>13. CASE r # 0
  <2>1. Group(m) = g /\ Place(m) = r - 1 /\ Super(m) = s
    BY <1>2, <1>13
  <2>2. Level0Table(n) = Level0Table(m) /\ Level1Table(n) = Level1Table(m)
    BY <2>1, <1>4, <1>6
  <2>3. DataBlock(n) = DataBlock(m) + 1
    BY <2>1, <2>2, <1>3, <1>0, <1>5
  <2>. QED BY <1>7, <1>13, <2>2, <2>3 DEF r, m
<1>14. ASSUME r = 0
       PROVE  Level0Table(n) = DataBlock(n) - 1
  BY <1>5, <1>14
<1>15. ASSUME r = 0, g = 1
       PROVE  DataBlock(n) = DataBlock(m) + 3 /\ Level1Table(n) = DataBlock(n) - 2
  <2>1. s = 0 /\ i = 1 /\ Group(m) = 0 /\ Place(m) = P - 1
    BY <1>2, <1>8, <1>15
  <2>2. Level0Table(m) = 0 /\ Level0Table(n) = P + 2 /\ Level1Table(n) = P + 1
    BY <2>1, <1>0, <1>4, <1>6, <1>9, <1>15
  <2>. QED BY <2>1, <2>2, <1>0, <1>5, <1>15
<1>16. ASSUME r = 0, g # 1, i # 0
       PROVE  DataBlock(n) = DataBlock(m) + 2 /\ Level1Table(n) = Level1Table(m)
  <2>1. Group(m) = g - 1 /\ Place(m) = P - 1 /\ Super(m) = s /\ g > 1
    BY <1>2, <1>3, <1>16
  <2>2. Level1Table(n) = Level1Table(m)
    BY <2>1, <1>6
  <2>3. Level0Table(m) = IF s = 0 THEN place - P ELSE place - (P + 1) + s + 2
    <3>. HIDE DEF place
    <3>. QED BY <2>1, <1>0, <1>3, <1>4, <1>9
  <2>4. Level0Table(n) = IF s = 0 THEN place + 1 ELSE place + s + 2
    BY <2>1, <1>4
  <2>. HIDE DEF place
  <2>. QED BY <2>1, <2>2, <2>3, <2>4, <1>0, <1>3, <1>5, <1>9, <1>16
<1>17. ASSUME r = 0, i = 0
       PROVE  /\ Level1Table(n) = DataBlock(n) - 2
              /\ s # 1 => DataBlock(n) = DataBlock(m) + 3
              /\ s = 1 => DataBlock(n) = DataBlock(m) + 4 /\ Level2Table = DataBlock(n) - 3
  <2>1. Group(m) = g - 1 /\ Place(m) = P - 1 /\ Super(m) = s - 1 /\ g >= 1
    BY <1>2, <1>17
  <2>2. s >= 1
    <3>. HIDE DEF sp
    <3>. QED BY <2>1, <1>3, <1>9, <1>17
  <2>3. g > 1
    <3>1. g = s * P
      BY <1>9, <1>17, <1>3
    <3>2. PICK k \in Nat : s = 1 + k
      <4>1. s - 1 \in Nat /\ s = 1 + (s - 1)
        BY <2>2, <1>3
      <4>. QED BY <4>1
    <3>3. s * P = P + k * P /\ k * P \in Nat
      BY <1>0, <3>2
    <3>. QED BY <3>1, <3>3, <1>0
  <2>4. Level0Table(n) = place + s + 2
    BY <2>2, <2>3, <1>3, <1>4
  <2>5. Level0Table(m) = IF s = 1 THEN place - P ELSE place - (P + 1) + s + 1
    <3>. HIDE DEF place
    <3>. QED BY <2>1, <2>2, <2>3, <1>0, <1>3, <1>4, <1>9
  <2>6. Level1Table(n) = place + s + 1
    BY <2>2, <1>6, <1>10, <1>11, <1>17
  <2>7. s = 1 => Level2Table = place + 1
    BY <1>6, <1>10, <1>12, <1>17
  <2>. HIDE DEF place
  <2>. QED BY <2>1, <2>2, <2>4, <2>5, <2>6, <2>7, <1>0, <1>3, <1>5, <1>9, <1>17
<1>18. CASE r = 0
  BY <1>7, <1>14, <1>15, <1>16, <1>17, <1>18 DEF r, g, s, i, m
<1>. QED BY <1>13, <1>18

\* A sequence holds x at a position, counted from 0.
Has(q, position, x) == position + 1 \in DOMAIN q /\ q[position + 1] = x

Laid(q, n) ==
  /\ IsList(q)
  /\ Len(q) = IF n = 0 THEN 0 ELSE DataBlock(n - 1) + 1
  /\ \A b \in 0 .. n - 1 : Has(q, DataBlock(b), Block(b))
  /\ \A b \in 0 .. n - 1 : Has(q, Level0Table(b), Table(0, Group(b)))
  /\ n > PerLevel0 => \A b \in 0 .. n - 1 : Has(q, Level1Table(b), Table(1, Super(b)))
  /\ n > PerLevel1 => Has(q, Level2Table, Table(2, 0))
  /\ \A i \in DOMAIN q :
       \/ \E b \in 0 .. n - 1 : q[i] = Block(b) /\ i = DataBlock(b) + 1
       \/ q[i].kind = "table" /\ q[i].level \in 0 .. TopLevel(n)

\* Appending to a list.
LEMMA Appended ==
  ASSUME NEW q, IsList(q), NEW r, IsList(r)
  PROVE  /\ IsList(q \o r) /\ Len(q) \in Nat /\ Len(r) \in Nat
         /\ Len(q \o r) = Len(q) + Len(r) /\ DOMAIN (q \o r) = 1 .. Len(q) + Len(r)
         /\ DOMAIN q = 1 .. Len(q) /\ DOMAIN r = 1 .. Len(r)
         /\ \A i \in 1 .. Len(q) : (q \o r)[i] = q[i]
         /\ \A i \in 1 .. Len(r) : (q \o r)[Len(q) + i] = r[i]
<1>1. PICK S : q \in Seq(S)
  BY DEF IsList
<1>2. PICK R : r \in Seq(R)
  BY DEF IsList
<1>3. q \in Seq(S \cup R) /\ r \in Seq(S \cup R)
  BY <1>1, <1>2, SeqMonotonic
<1>. DEFINE t == q \o r
<1>4. /\ t \in Seq(S \cup R) /\ Len(t) = Len(q) + Len(r)
      /\ \A i \in 1 .. Len(q) + Len(r) : t[i] = IF i =< Len(q) THEN q[i] ELSE r[i - Len(q)]
  BY <1>3, ConcatProperties
<1>5. /\ Len(q) \in Nat /\ Len(r) \in Nat
      /\ DOMAIN q = 1 .. Len(q) /\ DOMAIN r = 1 .. Len(r) /\ DOMAIN t = 1 .. Len(t)
  BY <1>1, <1>2, <1>4, LenProperties
<1>. HIDE DEF t
<1>6. IsList(t)
  BY <1>4 DEF IsList
<1>7. \A i \in 1 .. Len(q) : t[i] = q[i]
  BY <1>4, <1>5
<1>8. \A i \in 1 .. Len(r) : t[Len(q) + i] = r[i]
  <2>. TAKE i \in 1 .. Len(r)
  <2>1. Len(q) + i \in 1 .. Len(q) + Len(r) /\ ~(Len(q) + i =< Len(q)) /\ (Len(q) + i) - Len(q) = i
    BY <1>5
  <2>. QED BY <2>1, <1>4
<1>. QED BY <1>4, <1>5, <1>6, <1>7, <1>8 DEF t

\* What is laid stays where it is.
LEMMA StaysLaid ==
  ASSUME NEW q, IsList(q), NEW r, IsList(r), NEW x, NEW position \in Nat, Has(q, position, x)
  PROVE  Has(q \o r, position, x)
<1>1. /\ Len(q) \in Nat /\ Len(r) \in Nat /\ DOMAIN (q \o r) = 1 .. Len(q) + Len(r)
      /\ DOMAIN q = 1 .. Len(q)
      /\ \A i \in 1 .. Len(q) : (q \o r)[i] = q[i]
  BY Appended
<1>2. position + 1 \in 1 .. Len(q) /\ q[position + 1] = x
  BY <1>1 DEF Has
<1>. QED BY <1>1, <1>2 DEF Has

\* Short lists put together.
LEMMA ShortLists ==
  ASSUME NEW a, NEW b, NEW c, NEW d
  PROVE  /\ << >> \o << >> = << >> /\ << >> \o <<a>> = <<a>> /\ <<a>> \o << >> = <<a>>
         /\ <<a>> \o <<b>> = <<a, b>>
         /\ <<a, b>> \o <<c>> = <<a, b, c>>
         /\ <<a, b, c>> \o <<d>> = <<a, b, c, d>>
<1>. DEFINE S == {a, b, c, d}
<1>1. << >> \o << >> = << >> /\ << >> \o <<a>> = <<a>> /\ <<a>> \o << >> = <<a>>
  OBVIOUS
<1>2. <<a>> \o <<b>> = <<a, b>>
  <2>1. <<a>> \in Seq(S) /\ <<b>> \in Seq(S) /\ <<a, b>> \in Seq(S)
        /\ Len(<<a>>) = 1 /\ Len(<<b>>) = 1 /\ Len(<<a, b>>) = 2
    OBVIOUS
  <2>2. /\ <<a>> \o <<b>> \in Seq(S) /\ Len(<<a>> \o <<b>>) = 2
        /\ \A i \in 1 .. 2 : (<<a>> \o <<b>>)[i] = IF i =< 1 THEN <<a>>[i] ELSE <<b>>[i - 1]
    BY <2>1, ConcatProperties
  <2>3. \A i \in 1 .. 2 : <<a, b>>[i] = IF i =< 1 THEN <<a>>[i] ELSE <<b>>[i - 1]
    OBVIOUS
  <2>. DEFINE x == <<a>> \o <<b>>
              y == <<a, b>>
  <2>4. /\ x \in Seq(S) /\ y \in Seq(S) /\ Len(x) = Len(y) /\ Len(x) = 2
        /\ \A i \in 1 .. 2 : x[i] = y[i]
    BY <2>1, <2>2, <2>3
  <2>5. x = y
    <3>. HIDE DEF x, y, S
    <3>. QED BY <2>4, SeqEqual
  <2>. QED BY <2>5
<1>3. <<a, b>> \o <<c>> = <<a, b, c>>
  <2>1. <<a, b>> \in Seq(S) /\ <<c>> \in Seq(S) /\ <<a, b, c>> \in Seq(S)
        /\ Len(<<a, b>>) = 2 /\ Len(<<c>>) = 1 /\ Len(<<a, b, c>>) = 3
    OBVIOUS
  <2>2. /\ <<a, b>> \o <<c>> \in Seq(S) /\ Len(<<a, b>> \o <<c>>) = 3
        /\ \A i \in 1 .. 3 : (<<a, b>> \o <<c>>)[i] = IF i =< 2 THEN <<a, b>>[i] ELSE <<c>>[i - 2]
    BY <2>1, ConcatProperties
  <2>3. \A i \in 1 .. 3 : <<a, b, c>>[i] = IF i =< 2 THEN <<a, b>>[i] ELSE <<c>>[i - 2]
    OBVIOUS
  <2>. DEFINE x == <<a, b>> \o <<c>>
              y == <<a, b, c>>
  <2>4. /\ x \in Seq(S) /\ y \in Seq(S) /\ Len(x) = Len(y) /\ Len(x) = 3
        /\ \A i \in 1 .. 3 : x[i] = y[i]
    BY <2>1, <2>2, <2>3
  <2>5. x = y
    <3>. HIDE DEF x, y, S
    <3>. QED BY <2>4, SeqEqual
  <2>. QED BY <2>5
<1>4. <<a, b, c>> \o <<d>> = <<a, b, c, d>>
  <2>1. <<a, b, c>> \in Seq(S) /\ <<d>> \in Seq(S) /\ <<a, b, c, d>> \in Seq(S)
        /\ Len(<<a, b, c>>) = 3 /\ Len(<<d>>) = 1 /\ Len(<<a, b, c, d>>) = 4
    OBVIOUS
  <2>2. /\ <<a, b, c>> \o <<d>> \in Seq(S) /\ Len(<<a, b, c>> \o <<d>>) = 4
        /\ \A i \in 1 .. 4 : (<<a, b, c>> \o <<d>>)[i] = IF i =< 3 THEN <<a, b, c>>[i] ELSE <<d>>[i - 3]
    BY <2>1, ConcatProperties
  <2>3. \A i \in 1 .. 4 : <<a, b, c, d>>[i] = IF i =< 3 THEN <<a, b, c>>[i] ELSE <<d>>[i - 3]
    OBVIOUS
  <2>. DEFINE x == <<a, b, c>> \o <<d>>
              y == <<a, b, c, d>>
  <2>4. /\ x \in Seq(S) /\ y \in Seq(S) /\ Len(x) = Len(y) /\ Len(x) = 4
        /\ \A i \in 1 .. 4 : x[i] = y[i]
    BY <2>1, <2>2, <2>3
  <2>5. x = y
    <3>. HIDE DEF x, y, S
    <3>. QED BY <2>4, SeqEqual
  <2>. QED BY <2>5
<1>. QED BY <1>1, <1>2, <1>3, <1>4

\* The tables before a block and the block, one by one.

LEMMA LeadsOf ==
  ASSUME NEW n \in 0 .. PerLevel2 - 1
  PROVE  LET r == TablesBefore(n) \o <<Block(n)>>
         IN  /\ Place(n) # 0 => r = <<Block(n)>>
             /\ Place(n) = 0 /\ n # 0 /\ Group(n) = 1 =>
                  r = <<Table(1, Super(n)), Table(0, Group(n)), Block(n)>>
             /\ Place(n) = 0 /\ (n = 0 \/ (Group(n) # 1 /\ InSuper(n) # 0)) =>
                  r = <<Table(0, Group(n)), Block(n)>>
             /\ Place(n) = 0 /\ n # 0 /\ InSuper(n) = 0 /\ Super(n) # 1 =>
                  r = <<Table(1, Super(n)), Table(0, Group(n)), Block(n)>>
             /\ Place(n) = 0 /\ n # 0 /\ InSuper(n) = 0 /\ Super(n) = 1 =>
                  r = <<Table(2, 0), Table(1, Super(n)), Table(0, Group(n)), Block(n)>>
<1>. DEFINE r == TablesBefore(n) \o <<Block(n)>>
            L2 == n = PerLevel1
            L1 == n = PerLevel0 \/ (n > 0 /\ n % PerLevel1 = 0)
            L0 == n % PerLevel0 = 0
            s2 == IF L2 THEN <<Table(2, 0)>> ELSE << >>
            s1 == IF L1 THEN <<Table(1, Super(n))>> ELSE << >>
            s0 == IF L0 THEN <<Table(0, Group(n))>> ELSE << >>
<1>1. r = (s2 \o s1 \o s0) \o <<Block(n)>>
  BY DEF TablesBefore, Super, Group
<1>2. /\ L0 <=> Place(n) = 0
      /\ L2 <=> Place(n) = 0 /\ InSuper(n) = 0 /\ Super(n) = 1
      /\ L1 <=> Place(n) = 0 /\ n # 0 /\ (Group(n) = 1 \/ InSuper(n) = 0)
      /\ Group(n) = 1 => InSuper(n) = 1 /\ Super(n) = 0
      /\ n = 0 => ~L2
  <2>1. PerLevel1 # 0 /\ PerLevel0 # 0
    <3>1. P * P > 0
      BY PNat
    <3>. QED BY <3>1, PNat
  <2>2. n > 0 <=> n # 0
    OBVIOUS
  <2>. QED BY <2>1, <2>2, LeadBlocks
<1>. HIDE DEF r, L2, L1, L0
<1>3. Place(n) # 0 => r = <<Block(n)>>
  <2>1. Place(n) # 0 => s2 = << >> /\ s1 = << >> /\ s0 = << >>
    BY <1>2
  <2>. HIDE DEF s2, s1, s0
  <2>. QED BY <1>1, <2>1, ShortLists, Zenon
<1>4. ASSUME Place(n) = 0, n # 0, Group(n) = 1 \/ (InSuper(n) = 0 /\ Super(n) # 1)
      PROVE  r = <<Table(1, Super(n)), Table(0, Group(n)), Block(n)>>
  <2>1. s2 = << >> /\ s1 = <<Table(1, Super(n))>> /\ s0 = <<Table(0, Group(n))>>
    BY <1>2, <1>4
  <2>. HIDE DEF s2, s1, s0
  <2>. QED BY <1>1, <2>1, ShortLists, Zenon
<1>5. ASSUME Place(n) = 0, n = 0 \/ (Group(n) # 1 /\ InSuper(n) # 0)
      PROVE  r = <<Table(0, Group(n)), Block(n)>>
  <2>1. s2 = << >> /\ s1 = << >> /\ s0 = <<Table(0, Group(n))>>
    BY <1>2, <1>5
  <2>. HIDE DEF s2, s1, s0
  <2>. QED BY <1>1, <2>1, ShortLists, Zenon
<1>6. ASSUME Place(n) = 0, n # 0, InSuper(n) = 0, Super(n) = 1
      PROVE  r = <<Table(2, 0), Table(1, Super(n)), Table(0, Group(n)), Block(n)>>
  <2>1. s2 = <<Table(2, 0)>> /\ s1 = <<Table(1, Super(n))>> /\ s0 = <<Table(0, Group(n))>>
    BY <1>2, <1>6
  <2>. HIDE DEF s2, s1, s0
  <2>. QED BY <1>1, <2>1, ShortLists, Zenon
<1>. QED BY <1>3, <1>4, <1>5, <1>6 DEF r

\* What is appended for block n, and where each part of it then lies.
LEMMA LeadPlaces ==
  ASSUME NEW n \in 0 .. PerLevel2 - 1,
         NEW l, l = IF n = 0 THEN 0 ELSE DataBlock(n - 1) + 1
  PROVE  LET r == TablesBefore(n) \o <<Block(n)>>
             k == Len(r)
         IN  /\ IsList(r) /\ l \in Nat /\ k \in 1 .. 4
             /\ r[k] = Block(n) /\ DataBlock(n) + 1 = l + k
             /\ \A i \in 1 .. k - 1 :
                  /\ r[i].kind = "table"
                  /\ \/ r[i].level = 0
                     \/ r[i].level = 1 /\ n >= PerLevel0
                     \/ r[i].level = 2 /\ n >= PerLevel1
             /\ Place(n) = 0 =>
                  k >= 2 /\ r[k - 1] = Table(0, Group(n)) /\ Level0Table(n) + 1 = l + k - 1
             /\ Place(n) = 0 /\ n # 0 /\ (Group(n) = 1 \/ InSuper(n) = 0) =>
                  k >= 3 /\ r[k - 2] = Table(1, Super(n)) /\ Level1Table(n) + 1 = l + k - 2
             /\ n = PerLevel1 =>
                  k = 4 /\ r[1] = Table(2, 0) /\ Level2Table + 1 = l + 1
<1>. DEFINE r == TablesBefore(n) \o <<Block(n)>>
            k == Len(r)
<1>0. PerLevel0 \in Nat /\ PerLevel0 > 1 /\ PerLevel1 \in Nat /\ PerLevel1 > 0 /\ PerLevel2 \in Int
  <2>1. P * P \in Nat /\ P * P > 0 /\ P * P * P \in Int
    BY PNat
  <2>. QED BY <2>1, PNat
<1>1. /\ Place(n) # 0 => r = <<Block(n)>>
      /\ Place(n) = 0 /\ n # 0 /\ Group(n) = 1 =>
           r = <<Table(1, Super(n)), Table(0, Group(n)), Block(n)>>
      /\ Place(n) = 0 /\ (n = 0 \/ (Group(n) # 1 /\ InSuper(n) # 0)) =>
           r = <<Table(0, Group(n)), Block(n)>>
      /\ Place(n) = 0 /\ n # 0 /\ InSuper(n) = 0 /\ Super(n) # 1 =>
           r = <<Table(1, Super(n)), Table(0, Group(n)), Block(n)>>
      /\ Place(n) = 0 /\ n # 0 /\ InSuper(n) = 0 /\ Super(n) = 1 =>
           r = <<Table(2, 0), Table(1, Super(n)), Table(0, Group(n)), Block(n)>>
  BY LeadsOf
<1>. HIDE DEF r
<1>2. \A level, g : Table(level, g).kind = "table" /\ Table(level, g).level = level
  BY DEF Table
<1>3. /\ Group(n) = 1 => InSuper(n) = 1 /\ Super(n) = 0
      /\ n = PerLevel1 <=> Place(n) = 0 /\ InSuper(n) = 0 /\ Super(n) = 1
      /\ Place(n) = 0 /\ InSuper(n) = 0 /\ n # 0 => Super(n) >= 1
      /\ Group(n) \in Nat /\ Super(n) \in Nat
      /\ n < PerLevel0 <=> Group(n) = 0
      /\ n < PerLevel1 <=> Super(n) = 0
  BY LeadBlocks, Coordinates
<1>4. Super(n) >= 1 => n >= PerLevel0 /\ n >= PerLevel1
  <2>1. PerLevel1 >= PerLevel0
    <3>1. P * P >= P
      <4>1. PICK j \in Nat : P = 1 + j
        <5>1. P - 1 \in Nat /\ P = 1 + (P - 1)
          BY PNat
        <5>. QED BY <5>1
      <4>2. P * P = P + j * P /\ j * P \in Nat
        BY <4>1, PNat
      <4>. QED BY <4>2, PNat
    <3>. QED BY <3>1, PNat
  <2>. QED BY <2>1, <1>0, <1>3
<1>5. n # 0 =>
        /\ DataBlock(n - 1) \in Nat
        /\ Place(n) # 0 => DataBlock(n) = DataBlock(n - 1) + 1
        /\ Place(n) = 0 => Level0Table(n) = DataBlock(n) - 1
        /\ Place(n) = 0 /\ Group(n) = 1 =>
             DataBlock(n) = DataBlock(n - 1) + 3 /\ Level1Table(n) = DataBlock(n) - 2
        /\ Place(n) = 0 /\ Group(n) # 1 /\ InSuper(n) # 0 => DataBlock(n) = DataBlock(n - 1) + 2
        /\ Place(n) = 0 /\ InSuper(n) = 0 =>
             /\ Level1Table(n) = DataBlock(n) - 2
             /\ Super(n) # 1 => DataBlock(n) = DataBlock(n - 1) + 3
             /\ Super(n) = 1 => DataBlock(n) = DataBlock(n - 1) + 4
                                 /\ Level2Table = DataBlock(n) - 3
  <2>1. n # 0 => n \in 1 .. PerLevel2 - 1
    BY <1>0
  <2>. QED BY <2>1, NextPlace
<1>6. n = 0 => /\ DataBlock(n) = 1 /\ Level0Table(n) = 0 /\ Place(n) = 0 /\ l = 0
               /\ Super(n) = 0 /\ n # PerLevel1
  <2>. SUFFICES ASSUME n = 0
                PROVE  /\ DataBlock(n) = 1 /\ Level0Table(n) = 0 /\ Place(n) = 0 /\ l = 0
                       /\ Super(n) = 0 /\ n # PerLevel1
    OBVIOUS
  <2>1. n \div PerLevel0 = 0 /\ n % PerLevel0 = 0
    <3>1. n = 0 * PerLevel0 + 0
      BY <1>0
    <3>. QED BY <3>1, <1>0, DivUnique
  <2>2. Level0Table(n) = 0 /\ Place(n) = 0
    BY <2>1 DEF Level0Table, Place
  <2>3. DataBlock(n) = 1
    BY <2>2, BlockBehindTable
  <2>. QED BY <2>2, <2>3, <1>0, <1>3
<1>7. l \in Nat
  BY <1>5
<1>8. CASE Place(n) # 0
  <2>1. r = <<Block(n)>> /\ k = 1
    BY <1>1, <1>8
  <2>2. IsList(r)
    <3>1. <<Block(n)>> \in Seq({Block(n)})
      OBVIOUS
    <3>. QED BY <2>1, <3>1 DEF IsList
  <2>3. r[k] = Block(n) /\ DataBlock(n) + 1 = l + k
    BY <2>1, <1>5, <1>6, <1>8
  <2>. QED BY <1>3, <1>7, <1>8, <2>1, <2>2, <2>3 DEF r
<1>9. CASE Place(n) = 0 /\ (n = 0 \/ (Group(n) # 1 /\ InSuper(n) # 0))
  <2>1. r = <<Table(0, Group(n)), Block(n)>> /\ k = 2
    BY <1>1, <1>9
  <2>2. IsList(r)
    <3>1. <<Table(0, Group(n)), Block(n)>> \in Seq({Table(0, Group(n)), Block(n)})
      OBVIOUS
    <3>. QED BY <2>1, <3>1 DEF IsList
  <2>3. r[k] = Block(n) /\ r[1] = Table(0, Group(n))
    BY <2>1
  <2>4. DataBlock(n) + 1 = l + k /\ Level0Table(n) + 1 = l + k - 1
    BY <2>1, <1>5, <1>6, <1>9
  <2>5. ~(n # 0 /\ (Group(n) = 1 \/ InSuper(n) = 0)) /\ n # PerLevel1
    BY <1>3, <1>6, <1>9
  <2>. HIDE DEF k
  <2>. QED BY <1>2, <1>7, <1>9, <2>1, <2>2, <2>3, <2>4, <2>5 DEF r, k
<1>10. CASE Place(n) = 0 /\ n # 0 /\ (Group(n) = 1 \/ (InSuper(n) = 0 /\ Super(n) # 1))
  <2>1. r = <<Table(1, Super(n)), Table(0, Group(n)), Block(n)>> /\ k = 3
    BY <1>1, <1>10
  <2>2. IsList(r)
    <3>1. <<Table(1, Super(n)), Table(0, Group(n)), Block(n)>>
             \in Seq({Table(1, Super(n)), Table(0, Group(n)), Block(n)})
      OBVIOUS
    <3>. QED BY <2>1, <3>1 DEF IsList
  <2>3. r[3] = Block(n) /\ r[2] = Table(0, Group(n)) /\ r[1] = Table(1, Super(n))
    BY <2>1
  <2>4. /\ DataBlock(n) + 1 = l + 3 /\ Level0Table(n) + 1 = l + 2 /\ Level1Table(n) + 1 = l + 1
    BY <1>5, <1>10
  <2>5. n >= PerLevel0 /\ n # PerLevel1
    BY <1>0, <1>3, <1>4, <1>10
  <2>6. \A i \in 1 .. 2 : r[i].kind = "table" /\ (r[i].level = 0 \/ r[i].level = 1)
    BY <1>2, <2>3
  <2>7. k = 3
    BY <2>1
  <2>. HIDE DEF k
  <2>. QED BY <1>7, <2>2, <2>3, <2>4, <2>5, <2>6, <2>7 DEF r, k
<1>11. CASE Place(n) = 0 /\ n # 0 /\ InSuper(n) = 0 /\ Super(n) = 1
  <2>1. r = <<Table(2, 0), Table(1, Super(n)), Table(0, Group(n)), Block(n)>> /\ k = 4
    BY <1>1, <1>11
  <2>2. IsList(r)
    <3>1. <<Table(2, 0), Table(1, Super(n)), Table(0, Group(n)), Block(n)>>
             \in Seq({Table(2, 0), Table(1, Super(n)), Table(0, Group(n)), Block(n)})
      OBVIOUS
    <3>. QED BY <2>1, <3>1 DEF IsList
  <2>3. /\ r[4] = Block(n) /\ r[3] = Table(0, Group(n)) /\ r[2] = Table(1, Super(n))
        /\ r[1] = Table(2, 0)
    BY <2>1
  <2>4. /\ DataBlock(n) + 1 = l + 4 /\ Level0Table(n) + 1 = l + 3 /\ Level1Table(n) + 1 = l + 2
        /\ Level2Table + 1 = l + 1
    BY <1>5, <1>11
  <2>5. n >= PerLevel0 /\ n >= PerLevel1
    BY <1>0, <1>3, <1>4, <1>11
  <2>6. \A i \in 1 .. 3 : r[i].kind = "table" /\ (r[i].level = 0 \/ r[i].level = 1 \/ r[i].level = 2)
    BY <1>2, <2>3
  <2>7. k = 4
    BY <2>1
  <2>. HIDE DEF k
  <2>8. /\ r[k] = Block(n) /\ DataBlock(n) + 1 = l + k /\ k \in 1 .. 4 /\ k = 4
        /\ k >= 2 /\ r[k - 1] = Table(0, Group(n)) /\ Level0Table(n) + 1 = l + k - 1
        /\ k >= 3 /\ r[k - 2] = Table(1, Super(n)) /\ Level1Table(n) + 1 = l + k - 2
    BY <1>7, <2>3, <2>4, <2>7
  <2>9. \A i \in 1 .. k - 1 :
          /\ r[i].kind = "table"
          /\ \/ r[i].level = 0
             \/ r[i].level = 1 /\ n >= PerLevel0
             \/ r[i].level = 2 /\ n >= PerLevel1
    BY <2>5, <2>6, <2>7
  <2>. QED BY <1>7, <1>11, <2>2, <2>3, <2>4, <2>8, <2>9 DEF r, k
<1>12. \/ Place(n) # 0
       \/ Place(n) = 0 /\ (n = 0 \/ (Group(n) # 1 /\ InSuper(n) # 0))
       \/ Place(n) = 0 /\ n # 0 /\ (Group(n) = 1 \/ (InSuper(n) = 0 /\ Super(n) # 1))
       \/ Place(n) = 0 /\ n # 0 /\ InSuper(n) = 0 /\ Super(n) = 1
  OBVIOUS
<1>. QED BY <1>8, <1>9, <1>10, <1>11, <1>12, Zenon

\* One more block laid.
LEMMA LaidOn ==
  ASSUME NEW n \in 0 .. PerLevel2 - 1, NEW q, Laid(q, n)
  PROVE  Laid(q \o (TablesBefore(n) \o <<Block(n)>>), n + 1)
<1>. DEFINE r == TablesBefore(n) \o <<Block(n)>>
            k == Len(r)
            l == Len(q)
            t == q \o r
<1>0. PerLevel0 \in Nat /\ PerLevel0 > 1 /\ PerLevel1 \in Nat /\ PerLevel2 \in Int
      /\ PerLevel1 >= PerLevel0
  <2>1. P * P \in Nat /\ P * P * P \in Int
    BY PNat
  <2>2. P * P >= P
    <3>1. PICK j \in Nat : P = 1 + j
      <4>1. P - 1 \in Nat /\ P = 1 + (P - 1)
        BY PNat
      <4>. QED BY <4>1
    <3>2. P * P = P + j * P /\ j * P \in Nat
      BY <3>1, PNat
    <3>. QED BY <3>2, PNat
  <2>. QED BY <2>1, <2>2, PNat
<1>1. /\ IsList(q) /\ l = IF n = 0 THEN 0 ELSE DataBlock(n - 1) + 1
      /\ \A b \in 0 .. n - 1 : Has(q, DataBlock(b), Block(b))
      /\ \A b \in 0 .. n - 1 : Has(q, Level0Table(b), Table(0, Group(b)))
      /\ n > PerLevel0 => \A b \in 0 .. n - 1 : Has(q, Level1Table(b), Table(1, Super(b)))
      /\ n > PerLevel1 => Has(q, Level2Table, Table(2, 0))
      /\ \A i \in DOMAIN q :
           \/ \E b \in 0 .. n - 1 : q[i] = Block(b) /\ i = DataBlock(b) + 1
           \/ q[i].kind = "table" /\ q[i].level \in 0 .. TopLevel(n)
  BY DEF Laid
<1>2. /\ IsList(r) /\ l \in Nat /\ k \in 1 .. 4
      /\ r[k] = Block(n) /\ DataBlock(n) + 1 = l + k
      /\ \A i \in 1 .. k - 1 :
           /\ r[i].kind = "table"
           /\ \/ r[i].level = 0
              \/ r[i].level = 1 /\ n >= PerLevel0
              \/ r[i].level = 2 /\ n >= PerLevel1
      /\ Place(n) = 0 =>
           k >= 2 /\ r[k - 1] = Table(0, Group(n)) /\ Level0Table(n) + 1 = l + k - 1
      /\ Place(n) = 0 /\ n # 0 /\ (Group(n) = 1 \/ InSuper(n) = 0) =>
           k >= 3 /\ r[k - 2] = Table(1, Super(n)) /\ Level1Table(n) + 1 = l + k - 2
      /\ n = PerLevel1 =>
           k = 4 /\ r[1] = Table(2, 0) /\ Level2Table + 1 = l + 1
  BY <1>1, LeadPlaces
<1>. HIDE DEF r, k, l
<1>3. /\ IsList(t) /\ Len(t) = l + k /\ DOMAIN t = 1 .. l + k
      /\ DOMAIN q = 1 .. l
      /\ \A i \in 1 .. l : t[i] = q[i]
      /\ \A i \in 1 .. k : t[l + i] = r[i]
  <2>1. /\ IsList(q \o r) /\ Len(q \o r) = Len(q) + Len(r)
        /\ DOMAIN (q \o r) = 1 .. Len(q) + Len(r) /\ DOMAIN q = 1 .. Len(q)
        /\ \A i \in 1 .. Len(q) : (q \o r)[i] = q[i]
        /\ \A i \in 1 .. Len(r) : (q \o r)[Len(q) + i] = r[i]
    BY <1>1, <1>2, Appended
  <2>. QED BY <2>1 DEF k, l
<1>4. ASSUME NEW position \in Nat, NEW x, Has(q, position, x)
      PROVE  Has(t, position, x)
  BY <1>1, <1>2, <1>4, StaysLaid
<1>. HIDE DEF t
<1>5. ASSUME NEW position, NEW i \in 1 .. k, position + 1 = l + i
      PROVE  Has(t, position, r[i])
  BY <1>2, <1>3, <1>5 DEF Has
<1>6. \A b \in 0 .. n : /\ DataBlock(b) \in Nat /\ Level0Table(b) \in Nat
                        /\ Level1Table(b) \in Nat /\ Level2Table \in Nat
  <2>. TAKE b \in 0 .. n
  <2>1. b \in 0 .. PerLevel2 - 1
    BY <1>0
  <2>2. Place(b) \in Nat
    BY <2>1, Coordinates, PNat
  <2>3. Level0Table(b) \in Nat /\ DataBlock(b) = Level0Table(b) + Place(b) + 1
    BY <2>1, BlockBehindTable
  <2>4. Level1Table(b) \in Nat
    BY <2>1, TablesBetweenGroups
  <2>5. Level2Table \in Nat
    BY <1>0 DEF Level2Table, Step1
  <2>. QED BY <2>2, <2>3, <2>4, <2>5
<1>7. \A b \in 0 .. n : b # n => b \in 0 .. n - 1
  OBVIOUS
<1>8. n # 0 => n \in 1 .. PerLevel2 - 1 /\ n - 1 \in 0 .. n - 1
  BY <1>0
<1>9. \A b \in 0 .. n : Has(t, DataBlock(b), Block(b))
  <2>1. Has(t, DataBlock(n), Block(n))
    BY <1>2, <1>5
  <2>2. \A b \in 0 .. n - 1 : Has(t, DataBlock(b), Block(b))
    BY <1>1, <1>4, <1>6
  <2>. QED BY <2>1, <2>2, <1>7
<1>10. \A b \in 0 .. n : Has(t, Level0Table(b), Table(0, Group(b)))
  <2>1. ASSUME Place(n) = 0 PROVE Has(t, Level0Table(n), Table(0, Group(n)))
    <3>1. k - 1 \in 1 .. k
      BY <2>1, <1>2
    <3>2. Level0Table(n) + 1 = l + (k - 1)
      BY <2>1, <1>2
    <3>3. Has(t, Level0Table(n), r[k - 1])
      BY <3>1, <3>2, <1>5
    <3>. QED BY <2>1, <3>3, <1>2
  <2>2. ASSUME Place(n) # 0 PROVE Has(t, Level0Table(n), Table(0, Group(n)))
    <3>1. n # 0
      <4>1. n = 0 => Place(n) = 0
        <5>1. 0 = 0 * PerLevel0 + 0
          BY <1>0
        <5>2. 0 % PerLevel0 = 0
          BY <5>1, <1>0, DivUnique
        <5>. QED BY <5>2 DEF Place
      <4>. QED BY <4>1, <2>2
    <3>2. Level0Table(n) = Level0Table(n - 1) /\ Group(n - 1) = Group(n)
      BY <2>2, <3>1, <1>8, NextPlace, BlockBefore
    <3>3. Has(t, Level0Table(n - 1), Table(0, Group(n - 1)))
      <4>1. n - 1 \in 0 .. n - 1 /\ n - 1 \in 0 .. n
        BY <3>1, <1>8
      <4>2. Level0Table(n - 1) \in Nat
        BY <4>1, <1>6
      <4>3. Has(q, Level0Table(n - 1), Table(0, Group(n - 1)))
        BY <4>1, <1>1
      <4>. QED BY <4>2, <4>3, <1>4, Zenon
    <3>. QED BY <3>2, <3>3
  <2>3. Has(t, Level0Table(n), Table(0, Group(n)))
    BY <2>1, <2>2
  <2>4. \A b \in 0 .. n - 1 : Has(t, Level0Table(b), Table(0, Group(b)))
    BY <1>1, <1>4, <1>6
  <2>. QED BY <2>3, <2>4, <1>7
<1>11. ASSUME n + 1 > PerLevel0
       PROVE  \A b \in 0 .. n : Has(t, Level1Table(b), Table(1, Super(b)))
  <2>1. ASSUME Place(n) = 0, n # 0, Group(n) = 1 \/ InSuper(n) = 0
        PROVE  Has(t, Level1Table(n), Table(1, Super(n)))
    <3>1. k - 2 \in 1 .. k /\ Level1Table(n) + 1 = l + (k - 2)
      BY <2>1, <1>2
    <3>2. Has(t, Level1Table(n), r[k - 2])
      BY <3>1, <1>5
    <3>. QED BY <2>1, <3>2, <1>2
  <2>2. CASE n = PerLevel0
    <3>1. Place(n) = 0 /\ Group(n) = 1 /\ n # 0 /\ Super(n) = 0
      BY <2>2, <1>0, LeadBlocks
    <3>2. Has(t, Level1Table(n), Table(1, Super(n)))
      BY <2>1, <3>1
    <3>3. \A b \in 0 .. n : Super(b) = 0 /\ Level1Table(b) = Level1Table(n)
      <4>. TAKE b \in 0 .. n
      <4>1. b \in 0 .. PerLevel2 - 1 /\ b < PerLevel1
        <5>1. n < PerLevel1
          BY <3>1, Coordinates
        <5>. QED BY <5>1, <1>0
      <4>2. Super(b) = 0
        BY <4>1, Coordinates
      <4>. QED BY <3>1, <4>2 DEF Level1Table, Super
    <3>. QED BY <3>1, <3>2, <3>3
  <2>3. CASE n # PerLevel0
    <3>1. n > PerLevel0 /\ n # 0
      BY <1>0, <1>11, <2>3
    <3>2. \A b \in 0 .. n - 1 : Has(t, Level1Table(b), Table(1, Super(b)))
      BY <1>1, <1>4, <1>6, <3>1
    <3>3. Has(t, Level1Table(n), Table(1, Super(n)))
      <4>1. CASE Place(n) = 0 /\ InSuper(n) = 0
        BY <4>1, <2>1, <3>1
      <4>2. CASE ~(Place(n) = 0 /\ InSuper(n) = 0)
        <5>1. ~(Place(n) = 0 /\ Group(n) = 1)
          BY <2>3, LeadBlocks
        <5>2. Level1Table(n) = Level1Table(n - 1) /\ Super(n) = Super(n - 1)
          BY <4>2, <5>1, <3>1, <1>8, NextPlace, BlockBefore
        <5>3. Has(t, Level1Table(n - 1), Table(1, Super(n - 1)))
          BY <3>1, <3>2, <1>8
        <5>. QED BY <5>2, <5>3
      <4>. QED BY <4>1, <4>2
    <3>. QED BY <3>2, <3>3, <1>7
  <2>. QED BY <2>2, <2>3
<1>12. ASSUME n + 1 > PerLevel1
       PROVE  Has(t, Level2Table, Table(2, 0))
  <2>1. CASE n = PerLevel1
    BY <2>1, <1>2, <1>5
  <2>2. CASE n # PerLevel1
    <3>1. n > PerLevel1
      BY <1>0, <1>12, <2>2
    <3>. QED BY <3>1, <1>1, <1>4, <1>6
  <2>. QED BY <2>1, <2>2
<1>13. ASSUME NEW i \in DOMAIN t
       PROVE  \/ \E b \in 0 .. n : t[i] = Block(b) /\ i = DataBlock(b) + 1
              \/ t[i].kind = "table" /\ t[i].level \in 0 .. TopLevel(n + 1)
  <2>1. /\ TopLevel(n) \in Nat /\ TopLevel(n + 1) \in Nat /\ TopLevel(n) =< TopLevel(n + 1)
        /\ n >= PerLevel0 => TopLevel(n + 1) >= 1
        /\ n >= PerLevel1 => TopLevel(n + 1) >= 2
    BY <1>0 DEF TopLevel
  <2>2. CASE i \in 1 .. l
    <3>1. t[i] = q[i] /\ i \in DOMAIN q
      BY <2>2, <1>3
    <3>2. \/ \E b \in 0 .. n - 1 : q[i] = Block(b) /\ i = DataBlock(b) + 1
          \/ q[i].kind = "table" /\ q[i].level \in 0 .. TopLevel(n)
      BY <3>1, <1>1
    <3>3. \A b \in 0 .. n - 1 : b \in 0 .. n
      OBVIOUS
    <3>4. q[i].level \in 0 .. TopLevel(n) => q[i].level \in 0 .. TopLevel(n + 1)
      BY <2>1
    <3>. QED BY <3>1, <3>2, <3>3, <3>4
  <2>3. CASE i \notin 1 .. l
    <3>1. PICK j \in 1 .. k : i = l + j
      <4>1. i - l \in 1 .. k /\ i = l + (i - l)
        BY <2>3, <1>2, <1>3
      <4>. QED BY <4>1
    <3>2. t[i] = r[j]
      BY <3>1, <1>3
    <3>3. CASE j = k
      <4>1. t[i] = Block(n) /\ i = DataBlock(n) + 1 /\ n \in 0 .. n
        BY <3>1, <3>2, <3>3, <1>2
      <4>. QED BY <4>1
    <3>4. CASE j # k
      <4>1. j \in 1 .. k - 1
        BY <3>4, <1>2
      <4>2. /\ r[j].kind = "table"
            /\ \/ r[j].level = 0
               \/ r[j].level = 1 /\ n >= PerLevel0
               \/ r[j].level = 2 /\ n >= PerLevel1
        BY <4>1, <1>2
      <4>3. r[j].level \in 0 .. TopLevel(n + 1)
        BY <4>2, <2>1
      <4>. QED BY <3>2, <4>2, <4>3
    <3>. QED BY <3>3, <3>4
  <2>. QED BY <2>2, <2>3
<1>14. (n + 1) - 1 = n /\ n + 1 # 0
  OBVIOUS
<1>15. Laid(t, n + 1)
  BY <1>2, <1>3, <1>9, <1>10, <1>11, <1>12, <1>13, <1>14 DEF Laid
<1>. QED BY <1>15 DEF t, r

LEMMA TablesListed ==
  ASSUME NEW n
  PROVE  IsList(TablesBefore(n))
<1>. DEFINE T == {Table(2, 0), Table(1, n \div PerLevel1), Table(0, n \div PerLevel0)}
            s2 == IF n = PerLevel1 THEN <<Table(2, 0)>> ELSE << >>
            s1 == IF n = PerLevel0 \/ (n > 0 /\ n % PerLevel1 = 0)
                  THEN <<Table(1, n \div PerLevel1)>> ELSE << >>
            s0 == IF n % PerLevel0 = 0 THEN <<Table(0, n \div PerLevel0)>> ELSE << >>
<1>1. << >> \in Seq(T) /\ <<Table(2, 0)>> \in Seq(T) /\ <<Table(1, n \div PerLevel1)>> \in Seq(T)
      /\ <<Table(0, n \div PerLevel0)>> \in Seq(T)
  <2>1. ASSUME NEW x \in T PROVE <<x>> \in Seq(T)
    <3>. HIDE DEF T
    <3>. QED OBVIOUS
  <2>. QED BY <2>1, EmptySeq
<1>2. s2 \in Seq(T) /\ s1 \in Seq(T) /\ s0 \in Seq(T)
  <2>. HIDE DEF T
  <2>. QED BY <1>1
<1>3. TablesBefore(n) = s2 \o s1 \o s0
  BY DEF TablesBefore
<1>. HIDE DEF T, s2, s1, s0
<1>4. s2 \o s1 \in Seq(T)
  BY <1>2, ConcatProperties
<1>5. (s2 \o s1) \o s0 \in Seq(T)
  BY <1>2, <1>4, ConcatProperties
<1>. QED BY <1>3, <1>5 DEF IsList

\* The order in which a list is put together from three does not matter.
LEMMA ListsAssociate ==
  ASSUME NEW a, IsList(a), NEW b, IsList(b), NEW c, IsList(c)
  PROVE  (a \o b) \o c = a \o (b \o c)
<1>1. PICK A : a \in Seq(A)
  BY DEF IsList
<1>2. PICK B : b \in Seq(B)
  BY DEF IsList
<1>3. PICK C : c \in Seq(C)
  BY DEF IsList
<1>. DEFINE S == A \cup B \cup C
<1>4. a \in Seq(S) /\ b \in Seq(S) /\ c \in Seq(S)
  <2>1. A \subseteq S /\ B \subseteq S /\ C \subseteq S
    OBVIOUS
  <2>. HIDE DEF S
  <2>. QED BY <1>1, <1>2, <1>3, <2>1, SeqMonotonic
<1>. HIDE DEF S
<1>. QED BY <1>4, ConcatAssociative

\* A package has no more blocks than three levels of tables cover.
LEMMA TotalNat ==
  ASSUME NEW s \in DOMAIN Shape
  PROVE  /\ Shape[s].total \in Nat /\ Shape[s].total =< PerLevel2
         /\ PerLevel0 \in Nat /\ PerLevel1 \in Nat /\ PerLevel2 \in Nat /\ PerLevel2 > 0
<1>. DEFINE pp == P * P
<1>1. pp \in Nat /\ pp > 0
  BY PNat
<1>. HIDE DEF pp
<1>2. pp * P \in Nat /\ pp * P > 0
  BY <1>1, PNat
<1>3. PerLevel0 \in Nat /\ PerLevel1 \in Nat /\ PerLevel2 \in Nat /\ PerLevel2 > 0
  BY <1>1, <1>2, PNat DEF pp
<1>4. Shape[s].total \in 0 .. PerLevel2
  BY PackageAssumption, Zenon
<1>. QED BY <1>3, <1>4

\* Image is what its recursive definition says it is.
LEMMA ImageDef ==
  ASSUME NEW s \in DOMAIN Shape
  PROVE  \E f : /\ Image[s] = f[Shape[s].total]
                /\ f = [n \in 0 .. Shape[s].total |->
                          IF n = 0 THEN << >>
                          ELSE f[n - 1] \o TablesBefore(n - 1) \o <<Block(n - 1)>>]
<1>. DEFINE total == Shape[s].total
            Rec(f, m) == f = [n \in 0 .. m |->
                                IF n = 0 THEN << >>
                                ELSE f[n - 1] \o TablesBefore(n - 1) \o <<Block(n - 1)>>]
            T == {m \in Nat : \E f : Rec(f, m)}
<1>0. total \in Nat
  BY TotalNat
<1>1. 0 \in T
  <2>. DEFINE f0 == [n \in 0 .. 0 |-> << >>]
  <2>1. Rec(f0, 0)
    OBVIOUS
  <2>. QED BY <2>1
<1>2. ASSUME NEW m \in Nat, m \in T PROVE m + 1 \in T
  <2>1. PICK f : Rec(f, m)
    BY <1>2
  <2>. DEFINE new == f[m] \o TablesBefore(m) \o <<Block(m)>>
              g == [n \in 0 .. m + 1 |-> IF n =< m THEN f[n] ELSE new]
  <2>2. \A n \in 0 .. m : g[n] = f[n]
    OBVIOUS
  <2>3. \A n \in 0 .. m + 1 : g[n] = IF n = 0 THEN << >>
                                     ELSE g[n - 1] \o TablesBefore(n - 1) \o <<Block(n - 1)>>
    <3>. TAKE n \in 0 .. m + 1
    <3>1. CASE n = 0
      BY <2>1, <2>2, <3>1
    <3>2. CASE n # 0 /\ n =< m
      <4>1. g[n] = f[n] /\ g[n - 1] = f[n - 1]
        BY <2>2, <3>2
      <4>2. f[n] = f[n - 1] \o TablesBefore(n - 1) \o <<Block(n - 1)>>
        <5>1. n \in 0 .. m
          BY <3>2
        <5>. QED BY <2>1, <3>2, <5>1, Zenon
      <4>. QED BY <3>2, <4>1, <4>2
    <3>3. CASE n = m + 1
      <4>1. g[n] = new /\ g[n - 1] = f[m] /\ n - 1 = m /\ n # 0
        <5>. HIDE DEF new
        <5>. QED BY <2>2, <3>3
      <4>. QED BY <4>1
    <3>. QED BY <3>1, <3>2, <3>3
  <2>4. \E h : Rec(h, m + 1)
    <3>1. Rec(g, m + 1)
      BY <2>3
    <3>. HIDE DEF g
    <3>. QED BY <3>1
  <2>. HIDE DEF Rec
  <2>. QED BY <2>4
<1>3. total \in T
  <2>. HIDE DEF T, total
  <2>. QED BY <1>0, <1>1, <1>2, NatInductionOnSets
<1>4. \E f : Rec(f, total)
  <2>. HIDE DEF Rec
  <2>. QED BY <1>3
<1>. DEFINE laid == CHOOSE f : Rec(f, total)
<1>5. Rec(laid, total)
  <2>. HIDE DEF Rec
  <2>. QED BY <1>4
<1>6. Image[s] = laid[total]
  BY DEF Image
<1>. HIDE DEF laid
<1>. QED BY <1>5, <1>6

\* The blocks of a package, and the tables above them, lie where the reader looks for
\* them, and nothing else does.
THEOREM ImageLaid ==
  ASSUME NEW s \in DOMAIN Shape
  PROVE  Laid(Image[s], Shape[s].total)
<1>. DEFINE total == Shape[s].total
<1>0. total \in Nat /\ total =< PerLevel2 /\ PerLevel2 \in Nat
  BY TotalNat
<1>1. PICK f : /\ Image[s] = f[total]
               /\ f = [n \in 0 .. total |->
                         IF n = 0 THEN << >>
                         ELSE f[n - 1] \o TablesBefore(n - 1) \o <<Block(n - 1)>>]
  BY ImageDef
<1>. HIDE DEF total
<1>. DEFINE S == {n \in Nat : n =< total => Laid(f[n], n)}
<1>2. 0 \in S
  <2>1. f[0] = << >>
    BY <1>0, <1>1
  <2>2. Len(<< >>) = 0 /\ DOMAIN << >> = {} /\ IsList(<< >>) /\ 0 .. 0 - 1 = {}
    BY EmptySeq DEF IsList
  <2>3. ~(0 > PerLevel0) /\ ~(0 > PerLevel1)
    <3>1. P * P \in Nat
      BY PNat
    <3>. QED BY <3>1, PNat
  <2>4. Laid(<< >>, 0)
    BY <2>2, <2>3 DEF Laid
  <2>. QED BY <2>1, <2>4
<1>3. ASSUME NEW n \in Nat, n \in S PROVE n + 1 \in S
  <2>. SUFFICES ASSUME n + 1 =< total PROVE Laid(f[n + 1], n + 1)
    OBVIOUS
  <2>1. n \in 0 .. PerLevel2 - 1 /\ n + 1 \in 0 .. total /\ n + 1 # 0 /\ (n + 1) - 1 = n
    BY <1>0
  <2>2. f[n + 1] = f[n] \o TablesBefore(n) \o <<Block(n)>>
    BY <1>1, <2>1
  <2>3. Laid(f[n], n)
    BY <1>0, <1>3
  <2>4. IsList(f[n]) /\ IsList(TablesBefore(n)) /\ IsList(<<Block(n)>>)
    <3>1. <<Block(n)>> \in Seq({Block(n)})
      OBVIOUS
    <3>. QED BY <2>3, <3>1, TablesListed DEF Laid, IsList
  <2>5. f[n + 1] = f[n] \o (TablesBefore(n) \o <<Block(n)>>)
    <3>. DEFINE a == f[n]
                b == TablesBefore(n)
                c == <<Block(n)>>
    <3>1. IsList(a) /\ IsList(b) /\ IsList(c) /\ f[n + 1] = (a \o b) \o c
      BY <2>2, <2>4
    <3>2. (a \o b) \o c = a \o (b \o c)
      <4>. HIDE DEF a, b, c
      <4>. QED BY <3>1, ListsAssociate
    <3>. QED BY <3>1, <3>2
  <2>. QED BY <2>1, <2>3, <2>5, LaidOn
<1>4. total \in S
  <2>. HIDE DEF S
  <2>. QED BY <1>0, <1>2, <1>3, NatInductionOnSets
<1>. QED BY <1>1, <1>4 DEF total

\* The table the header's digest was taken of is that of the highest level in use.
LEMMA TopIsTop ==
  ASSUME NEW s \in DOMAIN Shape, Shape[s].total # 0
  PROVE  TopTable(s) = Table(TopLevel(Shape[s].total), 0)
<1>. DEFINE n == Shape[s].total
            q == Image[s]
            top == TopLevel(n)
            Is(l) == /\ \E i \in DOMAIN q : q[i] = Table(l, 0)
                     /\ \A i \in DOMAIN q : q[i].kind = "table" => q[i].level =< l
<1>0. n \in Nat /\ n # 0 /\ PerLevel0 \in Nat /\ PerLevel1 \in Nat
  BY TotalNat
<1>1. Laid(q, n)
  BY ImageLaid
<1>. HIDE DEF n, q
<1>2. top \in Level
  BY DEF TopLevel, Level
<1>3. Group(0) = 0 /\ Super(0) = 0
  <2>1. 0 \in 0 .. PerLevel2 - 1
    <3>1. P * P > 0
      BY PNat
    <3>. DEFINE pp == P * P
    <3>. HIDE DEF pp
    <3>2. pp * P > 0 /\ pp * P \in Nat
      BY <3>1, <1>0, PNat DEF pp
    <3>. QED BY <3>2, PNat DEF pp
  <2>2. (0 < PerLevel0) /\ (0 < PerLevel1)
    <3>1. P * P > 0
      BY PNat
    <3>. QED BY <3>1, PNat
  <2>. QED BY <2>1, <2>2, Coordinates
<1>4. \E i \in DOMAIN q : q[i] = Table(top, 0)
  <2>1. 0 \in 0 .. n - 1
    BY <1>0
  <2>2. Has(q, Level0Table(0), Table(0, 0))
    BY <1>1, <1>3, <2>1 DEF Laid
  <2>3. n > PerLevel0 => Has(q, Level1Table(0), Table(1, 0))
    BY <1>1, <1>3, <2>1 DEF Laid
  <2>4. n > PerLevel1 => Has(q, Level2Table, Table(2, 0))
    BY <1>1 DEF Laid
  <2>5. \/ top = 0
        \/ top = 1 /\ n > PerLevel0
        \/ top = 2 /\ n > PerLevel1
    BY <1>0 DEF TopLevel
  <2>. QED BY <2>2, <2>3, <2>4, <2>5 DEF Has
<1>5. \A i \in DOMAIN q : q[i].kind = "table" => q[i].level \in 0 .. top
  BY <1>1 DEF Laid, Block
<1>6. \A l \in Level : Is(l) <=> l = top
  <2>. TAKE l \in Level
  <2>1. ASSUME l = top PROVE Is(l)
    BY <1>2, <1>4, <1>5, <2>1 DEF Level
  <2>2. ASSUME Is(l) PROVE l = top
    <3>1. PICK i \in DOMAIN q : q[i] = Table(l, 0)
      BY <2>2
    <3>2. l \in 0 .. top
      BY <3>1, <1>5 DEF Table
    <3>3. top =< l
      <4>1. PICK j \in DOMAIN q : q[j] = Table(top, 0)
        BY <1>4
      <4>. QED BY <4>1, <2>2 DEF Table
    <3>. QED BY <3>2, <3>3, <1>2 DEF Level
  <2>. QED BY <2>1, <2>2
<1>7. (CHOOSE l \in Level : Is(l)) = top
  <2>. HIDE DEF Is, top
  <2>. QED BY <1>2, <1>6
<1>8. TopTable(s) = Table(CHOOSE l \in Level : Is(l), 0)
  BY DEF TopTable, q
<1>. QED BY <1>7, <1>8 DEF n

-----------------------------------------------------------------------------
(***************************************************************************)
(* What is verified is as published.  The chain of digests from the header *)
(* down leaves one block of the package that can stand for a block number, *)
(* the block published there (VerifiedBlock), and a record of its table    *)
(* that says where the file goes on as published (VerifiedLink).  So the   *)
(* blocks copied so far are the published ones (CopiedPublished), though   *)
(* the chain was followed before any of it was verified: what is kept of   *)
(* the walk is that every link it took had a record in use (WalkedLinks).  *)
(***************************************************************************)

LEMMA DivGrows ==
  ASSUME NEW d \in Nat, d > 0, NEW x \in Nat, NEW y \in Nat, x =< y
  PROVE  x \div d \in Nat /\ y \div d \in Nat /\ x \div d =< y \div d
<1>. DEFINE q == x \div d
            p == y \div d
            r == x % d
            t == y % d
<1>1. /\ q \in Nat /\ p \in Nat /\ r \in 0 .. d - 1 /\ t \in 0 .. d - 1
      /\ x = q * d + r /\ y = p * d + t
  OBVIOUS
<1>. HIDE DEF q, p, r, t
<1>2. ASSUME p < q PROVE FALSE
  <2>1. PICK k \in Nat : q = p + 1 + k
    <3>1. q - p - 1 \in Nat /\ q = p + 1 + (q - p - 1)
      BY <1>1, <1>2
    <3>. QED BY <3>1
  <2>2. q * d = p * d + d + k * d /\ k * d \in Nat /\ p * d \in Nat
    BY <1>1, <2>1
  <2>. QED BY <1>1, <2>2
<1>3. q \in Nat /\ p \in Nat /\ q =< p
  BY <1>1, <1>2
<1>. QED BY <1>3 DEF q, p

\* No number, one beyond what three levels cover included, has the place of another.
LEMMA OnlyBlock ==
  ASSUME NEW b \in Nat, NEW c \in 0 .. PerLevel2 - 1, DataBlock(b) = DataBlock(c)
  PROVE  b = c
<1>0. /\ PerLevel0 \in Nat /\ PerLevel1 \in Nat /\ PerLevel2 \in Nat
      /\ PerLevel0 > 0 /\ PerLevel1 > 0 /\ PerLevel2 > 0
      /\ PerLevel0 =< PerLevel1 /\ PerLevel1 =< PerLevel2
  <2>. DEFINE pp == P * P
              ppp == pp * P
  <2>1. PICK j \in Nat : P = 1 + j
    <3>1. P - 1 \in Nat /\ P = 1 + (P - 1)
      BY PNat
    <3>. QED BY <3>1
  <2>2. P * P = P + j * P /\ j * P \in Nat /\ P * P \in Nat
    BY <2>1, PNat
  <2>3. pp \in Nat /\ pp >= P /\ pp > 0
    BY <2>2, PNat
  <2>. HIDE DEF pp
  <2>4. pp * P = pp + j * pp /\ j * pp \in Nat /\ pp * P \in Nat
    BY <2>1, <2>3, PNat
  <2>5. ppp \in Nat /\ ppp >= pp
    BY <2>3, <2>4
  <2>. QED BY <2>3, <2>5, PNat DEF pp
<1>1. CASE b < PerLevel2
  <2>1. b \in 0 .. PerLevel2 - 1
    BY <1>0, <1>1
  <2>2. b < c => DataBlock(b) < DataBlock(c)
    BY <2>1, BlocksKeepOrder
  <2>3. c < b => DataBlock(c) < DataBlock(b)
    BY <2>1, BlocksKeepOrder
  <2>4. DataBlock(b) \in Nat /\ DataBlock(c) \in Nat
    <3>1. /\ Level0Table(b) \in Nat /\ DataBlock(b) = Level0Table(b) + Place(b) + 1
          /\ Level0Table(c) \in Nat /\ DataBlock(c) = Level0Table(c) + Place(c) + 1
      BY <2>1, BlockBehindTable
    <3>2. Place(b) \in Nat /\ Place(c) \in Nat
      BY <2>1, Coordinates, PNat
    <3>. QED BY <3>1, <3>2
  <2>. QED BY <1>0, <2>2, <2>3, <2>4
<1>2. CASE ~(b < PerLevel2)
  <2>1. c < b /\ c \in Nat /\ ~(b < PerLevel0) /\ ~(b < PerLevel1)
    BY <1>0, <1>2
  <2>. DEFINE c0 == (c + PerLevel0) \div PerLevel0
              c1 == (c + PerLevel1) \div PerLevel1
              c2 == (c + PerLevel2) \div PerLevel2
              b0 == (b + PerLevel0) \div PerLevel0
              b1 == (b + PerLevel1) \div PerLevel1
              b2 == (b + PerLevel2) \div PerLevel2
  <2>2. /\ c0 \in Nat /\ b0 \in Nat /\ c0 =< b0
    BY <1>0, <2>1, DivGrows
  <2>3. /\ c1 \in Nat /\ b1 \in Nat /\ c1 =< b1
    BY <1>0, <2>1, DivGrows
  <2>4. /\ c2 \in Nat /\ b2 \in Nat /\ c2 =< b2
    BY <1>0, <2>1, DivGrows
  <2>5. DataBlock(b) = b + b0 + b1 + b2
    BY <2>1 DEF DataBlock
  <2>6. \/ DataBlock(c) = c + c0
        \/ DataBlock(c) = c + c0 + c1
        \/ DataBlock(c) = c + c0 + c1 + c2
    BY Zenon DEF DataBlock
  <2>. HIDE DEF c0, c1, c2, b0, b1, b2
  <2>7. DataBlock(c) < DataBlock(b)
    BY <2>1, <2>2, <2>3, <2>4, <2>5, <2>6
  <2>8. DataBlock(c) \in Nat
    BY <2>1, <2>2, <2>3, <2>4, <2>6
  <2>. QED BY <2>7, <2>8
<1>. QED BY <1>1, <1>2

\* The package's tables and blocks by their place.
LEMMA PlacedBlock ==
  ASSUME pkg \in Package, NEW position \in Nat, BlockAt(position).kind = "data"
  PROVE  \E b \in 0 .. Shape[pkg.shape].total - 1 :
           BlockAt(position) = Block(b) /\ position = DataBlock(b)
<1>1. pkg.shape \in DOMAIN Shape
  BY PackageAssumption
<1>2. Laid(Image[pkg.shape], Shape[pkg.shape].total)
  BY <1>1, ImageLaid
<1>3. position + 1 \in DOMAIN Image[pkg.shape] /\ BlockAt(position) = Image[pkg.shape][position + 1]
  BY DEF BlockAt, Nothing
<1>4. PICK b \in 0 .. Shape[pkg.shape].total - 1 :
        Image[pkg.shape][position + 1] = Block(b) /\ position + 1 = DataBlock(b) + 1
  BY <1>2, <1>3, Zenon DEF Laid
<1>5. b \in 0 .. PerLevel2 - 1
  BY <1>1, TotalNat
<1>6. DataBlock(b) \in Nat
  <2>1. Level0Table(b) \in Nat /\ DataBlock(b) = Level0Table(b) + Place(b) + 1
    BY <1>5, BlockBehindTable
  <2>2. Place(b) \in Nat
    BY <1>5, Coordinates, PNat
  <2>. QED BY <2>1, <2>2
<1>. QED BY <1>3, <1>4, <1>6

LEMMA CoordinatesOf ==
  ASSUME NEW b \in 0 .. PerLevel2 - 1
  PROVE  Record(b, 0) = Place(b) /\ (b \div PerLevel0) * PerTable + Record(b, 0) = b
<1>1. Record(b, 0) = b % PerLevel0
  BY DEF Record
<1>2. b = Group(b) * P + Place(b)
  BY Coordinates
<1>. QED BY <1>1, <1>2 DEF Group, Place, P

\* The only block that verifies is the published one, in its place, below the
\* published table.
LEMMA VerifiedBlock ==
  ASSUME pkg \in Package, NEW b \in Nat, VerifyDataBlock(b) = "ok"
  PROVE  /\ b \in 0 .. Shape[pkg.shape].total - 1
         /\ Sound(DataBlock(b)) /\ BlockAt(DataBlock(b)) = Block(b)
         /\ Sound(Level0Table(b)) /\ BlockAt(Level0Table(b)) = Table(0, Group(b))
<1>. DEFINE s == pkg.shape
            top == TopLevel(Shape[s].total)
            Exp(f) == f = [level \in 0 .. top |->
                             IF level = top THEN TopTable(s)
                             ELSE Covered(f[level + 1], Record(b, level + 1))]
            expected == CHOOSE f : Exp(f)
            error(level) == IF level >= 0 THEN BlockHashError(HashTable(b, level), expected[level])
                            ELSE BlockHashError(DataBlock(b), Covered(expected[0], Record(b, 0)))
            Chk(f) == f = [level \in -1 .. top + 1 |->
                             IF level > top THEN "ok"
                             ELSE IF f[level + 1] # "ok" THEN f[level + 1]
                             ELSE error(level)]
            checked == CHOOSE f : Chk(f)
<1>0. s \in DOMAIN Shape /\ top \in {0, 1, 2}
  BY PackageAssumption DEF TopLevel
<1>1. Shape[s].total # 0 /\ checked[-1] = "ok"
  BY DEF VerifyDataBlock
<1>2. TopTable(s) = Table(top, 0)
  BY <1>0, <1>1, TopIsTop
<1>. HIDE DEF top
<1>3. \A l \in {1, 2} : Record(b, l) \in Nat
  <2>1. /\ PerLevel0 \in Nat /\ PerLevel0 > 0 /\ PerLevel1 \in Nat /\ PerLevel1 > 0
    <3>1. P * P > 0
      BY PNat
    <3>. QED BY <3>1, PNat, TotalNat, <1>0
  <2>2. b \div PerLevel0 \in Nat /\ b \div PerLevel1 \in Nat
    BY <2>1, DivGrows
  <2>3. \A x \in Nat : x % PerLevel0 \in Nat
    BY <2>1
  <2>. QED BY <2>2, <2>3 DEF Record
<1>4. \E g \in Nat : expected[0] = Table(0, g)
  <2>. DEFINE t == TopTable(s)
              u == Covered(t, Record(b, top))
              v == Covered(u, Record(b, top - 1))
              e == [level \in 0 .. top |-> IF level = top THEN t ELSE IF level = top - 1 THEN u ELSE v]
  <2>1. Exp(e)
    <3>. HIDE DEF t
    <3>1. \A level \in 0 .. top :
            e[level] = IF level = top THEN t ELSE Covered(e[level + 1], Record(b, level + 1))
      <4>. TAKE level \in 0 .. top
      <4>1. CASE level = top
        BY <4>1
      <4>2. CASE level = top - 1
        <5>1. level + 1 = top /\ level + 1 \in 0 .. top /\ level # top
          BY <1>0, <4>2
        <5>2. e[level + 1] = t /\ e[level] = u
          BY <5>1, <4>2
        <5>. QED BY <5>1, <5>2
      <4>3. CASE level # top /\ level # top - 1
        <5>1. level + 1 = top - 1 /\ level + 1 \in 0 .. top /\ level # top /\ top - 1 # top
          BY <1>0, <4>3
        <5>. HIDE DEF u
        <5>2. e[level + 1] = u /\ e[level] = v
          <6>. HIDE DEF v
          <6>. QED BY <5>1, <4>3
        <5>. QED BY <5>1, <5>2
      <4>. QED BY <4>1, <4>2, <4>3
    <3>2. e = [level \in 0 .. top |-> e[level]]
      OBVIOUS
    <3>. HIDE DEF e
    <3>. QED BY <3>1, <3>2 DEF t
  <2>2. Exp(expected)
    <3>. HIDE DEF Exp, e
    <3>. QED BY <2>1
  <2>3. \A level \in 0 .. top : expected[level] = IF level = top THEN Table(top, 0)
                                ELSE Covered(expected[level + 1], Record(b, level + 1))
    <3>. HIDE DEF expected
    <3>. QED BY <2>2, <1>2
  <2>. HIDE DEF expected
  <2>4. ASSUME NEW level \in {0, 1}, NEW g \in Nat, expected[level + 1] = Table(level + 1, g),
               level + 1 =< top
        PROVE  \E h \in Nat : expected[level] = Table(level, h)
    <3>1. expected[level] = Covered(Table(level + 1, g), Record(b, level + 1))
      BY <1>0, <2>3, <2>4
    <3>2. Record(b, level + 1) \in Nat
      BY <1>3
    <3>. DEFINE r == Record(b, level + 1)
    <3>. HIDE DEF r
    <3>3. g * PerTable + r \in Nat
      BY <3>2, PerTableAssumption DEF r
    <3>4. Covered(Table(level + 1, g), r) = Table(level, g * PerTable + r)
      <4>1. Table(level + 1, g).level = level + 1 /\ Table(level + 1, g).group = g
        BY DEF Table
      <4>2. (level + 1) - 1 = level /\ level + 1 # 0
        OBVIOUS
      <4>. QED BY <4>1, <4>2 DEF Covered
    <3>. QED BY <3>1, <3>3, <3>4 DEF r
  <2>5. expected[top] = Table(top, 0)
    BY <2>3, <1>0
  <2>6. CASE top = 0
    BY <2>5, <2>6
  <2>7. CASE top = 1
    BY <2>4, <2>5, <2>7
  <2>8. CASE top = 2
    <3>1. PICK h \in Nat : expected[1] = Table(1, h)
      <4>1. expected[1 + 1] = Table(1 + 1, 0)
        BY <2>5, <2>8
      <4>. QED BY <4>1, <2>4, <2>8
    <3>2. expected[0 + 1] = Table(0 + 1, h)
      BY <3>1
    <3>. QED BY <3>2, <2>4, <2>8
  <2>. QED BY <1>0, <2>6, <2>7, <2>8
<1>. HIDE DEF expected
<1>5. error(0) = "ok" /\ error(-1) = "ok"
  <2>. HIDE DEF error
  <2>. DEFINE v2 == IF top < 2 THEN "ok" ELSE error(2)
              v1 == IF top < 1 THEN "ok" ELSE IF v2 # "ok" THEN v2 ELSE error(1)
              v0 == IF v1 # "ok" THEN v1 ELSE error(0)
              w == IF v0 # "ok" THEN v0 ELSE error(-1)
              c == [level \in -1 .. top + 1 |->
                      IF level = 3 THEN "ok" ELSE IF level = 2 THEN v2
                      ELSE IF level = 1 THEN v1 ELSE IF level = 0 THEN v0 ELSE w]
  <2>1. Chk(c)
    <3>1. \A level \in -1 .. top + 1 :
            c[level] = IF level > top THEN "ok"
                       ELSE IF c[level + 1] # "ok" THEN c[level + 1] ELSE error(level)
      <4>1. CASE top = 0
        <5>1. -1 .. top + 1 = {-1, 0, 1}
          BY <4>1
        <5>. QED BY <4>1, <5>1
      <4>2. CASE top = 1
        <5>1. -1 .. top + 1 = {-1, 0, 1, 2}
          BY <4>2
        <5>. QED BY <4>2, <5>1
      <4>3. CASE top = 2
        <5>1. -1 .. top + 1 = {-1, 0, 1, 2, 3}
          BY <4>3
        <5>. QED BY <4>3, <5>1
      <4>. QED BY <1>0, <4>1, <4>2, <4>3
    <3>2. c = [level \in -1 .. top + 1 |-> c[level]]
      OBVIOUS
    <3>. HIDE DEF c
    <3>. QED BY <3>1, <3>2
  <2>2. Chk(checked)
    <3>. HIDE DEF Chk, c
    <3>. QED BY <2>1
  <2>. HIDE DEF checked
  <2>3. checked[-1] = IF checked[0] # "ok" THEN checked[0] ELSE error(-1)
    BY <1>0, <2>2
  <2>4. checked[0] = IF checked[1] # "ok" THEN checked[1] ELSE error(0)
    BY <1>0, <2>2
  <2>. QED BY <1>1, <2>3, <2>4
<1>6. PICK g \in Nat : expected[0] = Table(0, g)
  BY <1>4
<1>7. /\ BlockHashError(Level0Table(b), Table(0, g)) = "ok"
      /\ BlockHashError(DataBlock(b), Block(g * PerTable + Record(b, 0))) = "ok"
  <2>1. Covered(expected[0], Record(b, 0)) = Block(g * PerTable + Record(b, 0))
    BY <1>6 DEF Covered, Table
  <2>2. HashTable(b, 0) = Level0Table(b)
    BY DEF HashTable
  <2>. QED BY <1>5, <1>6, <2>1, <2>2
<1>8. /\ Sound(Level0Table(b)) /\ BlockAt(Level0Table(b)) = Table(0, g)
      /\ Sound(DataBlock(b)) /\ BlockAt(DataBlock(b)) = Block(g * PerTable + Record(b, 0))
  BY <1>7 DEF BlockHashError
<1>9. DataBlock(b) \in Nat
  <2>1. /\ PerLevel0 \in Nat /\ PerLevel0 > 0 /\ PerLevel1 \in Nat /\ PerLevel1 > 0
        /\ PerLevel2 \in Nat /\ PerLevel2 > 0
    <3>1. P * P > 0
      BY PNat
    <3>. QED BY <3>1, PNat, TotalNat, <1>0
  <2>2. /\ (b + PerLevel0) \div PerLevel0 \in Nat /\ (b + PerLevel1) \div PerLevel1 \in Nat
        /\ (b + PerLevel2) \div PerLevel2 \in Nat
    BY <2>1, DivGrows
  <2>. QED BY <2>2 DEF DataBlock
<1>10. PICK c \in 0 .. Shape[s].total - 1 :
         BlockAt(DataBlock(b)) = Block(c) /\ DataBlock(b) = DataBlock(c)
  <2>1. BlockAt(DataBlock(b)).kind = "data"
    BY <1>8 DEF Block
  <2>. QED BY <2>1, <1>9, PlacedBlock
<1>11. b = c
  <2>1. c \in 0 .. PerLevel2 - 1
    BY <1>0, TotalNat
  <2>. QED BY <2>1, <1>10, OnlyBlock
<1>12. g = Group(b)
  <2>1. b \in 0 .. PerLevel2 - 1
    BY <1>0, <1>11, TotalNat
  <2>2. b = g * PerTable + Record(b, 0)
    <3>1. Block(b) = Block(g * PerTable + Record(b, 0))
      BY <1>8, <1>10, <1>11
    <3>2. Block(b).group = b /\ Block(g * PerTable + Record(b, 0)).group = g * PerTable + Record(b, 0)
      BY DEF Block
    <3>. QED BY <3>1, <3>2
  <2>3. Record(b, 0) = Place(b) /\ Place(b) \in 0 .. P - 1
    BY <2>1, CoordinatesOf, Coordinates
  <2>4. b = g * P + Place(b) /\ Place(b) \in Nat /\ Place(b) < P
    BY <2>2, <2>3, PNat DEF P
  <2>5. b \div P = g
    BY <2>4, PNat, DivUnique
  <2>. QED BY <2>5, PNat DEF Group
<1>. QED BY <1>8, <1>10, <1>11, <1>12

\* Links are block numbers; the link of a verified block is the published one.
LEMMA LinkNat ==
  ASSUME pkg \in Package, NEW b
  PROVE  HashEntry(b).next \in Nat
<1>. DEFINE table   == BlockAt(Level0Table(b))
            covered == IF table.kind = "table" /\ table.level = 0
                       THEN Covered(table, Record(b, 0)).group ELSE Elsewhere
<1>1. \A c \in DOMAIN pkg.next : pkg.next[c] \in Nat
  BY PackageAssumption
<1>2. MaxBlock \in Nat
  BY PackageAssumption
<1>3. \/ HashEntry(b) = [code |-> "OutOfRange", next |-> MaxBlock]
      \/ HashEntry(b) = [code |-> "Malformed", next |-> MaxBlock]
      \/ covered \in DOMAIN pkg.next /\ HashEntry(b) = [code |-> "ok", next |-> pkg.next[covered]]
  BY Zenon DEF HashEntry
<1>. HIDE DEF covered
<1>. QED BY <1>1, <1>2, <1>3

LEMMA VerifiedLink ==
  ASSUME pkg \in Package, NEW b \in Nat, VerifyDataBlock(b) = "ok", HashEntry(b).code = "ok"
  PROVE  HashEntry(b).next = Shape[pkg.shape].next[b]
<1>. DEFINE table   == BlockAt(Level0Table(b))
            covered == IF table.kind = "table" /\ table.level = 0
                       THEN Covered(table, Record(b, 0)).group ELSE Elsewhere
<1>1. /\ b \in 0 .. Shape[pkg.shape].total - 1
      /\ Sound(Level0Table(b)) /\ table = Table(0, Group(b))
  BY VerifiedBlock
<1>2. covered = b
  <2>1. pkg.shape \in DOMAIN Shape
    BY PackageAssumption
  <2>2. b \in 0 .. PerLevel2 - 1
    BY <1>1, <2>1, TotalNat
  <2>3. Group(b) * PerTable + Record(b, 0) = b
    BY <2>2, CoordinatesOf DEF Group
  <2>4. Covered(table, Record(b, 0)) = Block(Group(b) * PerTable + Record(b, 0))
    BY <1>1 DEF Covered, Table
  <2>5. covered = Covered(table, Record(b, 0)).group
    BY <1>1 DEF Table
  <2>. QED BY <2>3, <2>4, <2>5 DEF Block
<1>3. covered \in DOMAIN pkg.next /\ HashEntry(b).next = pkg.next[covered]
  <2>1. \/ HashEntry(b) = [code |-> "OutOfRange", next |-> MaxBlock]
        \/ HashEntry(b) = [code |-> "Malformed", next |-> MaxBlock]
        \/ covered \in DOMAIN pkg.next /\ HashEntry(b) = [code |-> "ok", next |-> pkg.next[covered]]
    BY Zenon DEF HashEntry
  <2>. HIDE DEF covered
  <2>. QED BY <2>1
<1>. HIDE DEF covered, table
<1>4. b # Elsewhere
  BY DEF Elsewhere
<1>. QED BY <1>1, <1>2, <1>3, <1>4, DamageAssumption DEF Sound

\* A chain is what its recursive definition says it is.
LEMMA ChainDef ==
  ASSUME NEW start, NEW n \in Nat
  PROVE  /\ Chain(start, n) = [i \in 1 .. n |-> Chain(start, n)[i]]
         /\ \A i \in 1 .. n : Chain(start, n)[i] =
              IF i = 1 THEN start ELSE HashEntry(Chain(start, n)[i - 1]).next
<1>. DEFINE Rec(f, m) == f = [i \in 1 .. m |-> IF i = 1 THEN start ELSE HashEntry(f[i - 1]).next]
            T == {m \in Nat : \E f : Rec(f, m)}
<1>1. 0 \in T
  <2>. DEFINE f0 == [i \in 1 .. 0 |-> start]
  <2>1. Rec(f0, 0)
    OBVIOUS
  <2>2. \E f : Rec(f, 0)
    <3>. HIDE DEF Rec, f0
    <3>. QED BY <2>1
  <2>. HIDE DEF Rec
  <2>. QED BY <2>2
<1>2. ASSUME NEW m \in Nat, m \in T PROVE m + 1 \in T
  <2>1. PICK f : Rec(f, m)
    BY <1>2
  <2>. DEFINE new == IF m = 0 THEN start ELSE HashEntry(f[m]).next
              g == [i \in 1 .. m + 1 |-> IF i =< m THEN f[i] ELSE new]
  <2>2. \A i \in 1 .. m : g[i] = f[i]
    OBVIOUS
  <2>3. \A i \in 1 .. m + 1 : g[i] = IF i = 1 THEN start ELSE HashEntry(g[i - 1]).next
    <3>. TAKE i \in 1 .. m + 1
    <3>1. CASE i =< m
      <4>1. i \in 1 .. m /\ (i # 1 => i - 1 \in 1 .. m)
        BY <3>1
      <4>2. g[i] = f[i] /\ (i # 1 => g[i - 1] = f[i - 1])
        BY <4>1, <2>2
      <4>3. f[i] = IF i = 1 THEN start ELSE HashEntry(f[i - 1]).next
        BY <4>1, <2>1, Zenon
      <4>. QED BY <4>2, <4>3
    <3>2. CASE i = m + 1
      <4>1. g[i] = new /\ (i = 1 <=> m = 0) /\ (m # 0 => g[i - 1] = f[m])
        <5>. HIDE DEF new
        <5>. QED BY <2>2, <3>2
      <4>. QED BY <4>1
    <3>. QED BY <3>1, <3>2
  <2>4. \E h : Rec(h, m + 1)
    <3>1. Rec(g, m + 1)
      BY <2>3
    <3>. HIDE DEF g
    <3>. QED BY <3>1
  <2>. HIDE DEF Rec
  <2>. QED BY <2>4
<1>3. n \in T
  <2>. HIDE DEF T
  <2>. QED BY <1>1, <1>2, NatInductionOnSets
<1>4. \E f : Rec(f, n)
  <2>. HIDE DEF Rec
  <2>. QED BY <1>3
<1>. DEFINE block == CHOOSE f : Rec(f, n)
<1>5. Rec(block, n)
  <2>. HIDE DEF Rec
  <2>. QED BY <1>4
<1>6. Chain(start, n) = block
  BY DEF Chain
<1>. HIDE DEF block
<1>7. block = [i \in 1 .. n |-> block[i]]
  BY <1>5
<1>8. \A i \in 1 .. n : block[i] = IF i = 1 THEN start ELSE HashEntry(block[i - 1]).next
  BY <1>5, Zenon
<1>. QED BY <1>6, <1>7, <1>8

\* The i-th block of the chain from a block, and of an entry.
Link(start, i)    == Chain(start, i)[i]
BlockOf(entry, i) == IF entry.consecutive THEN entry.start + i - 1 ELSE Link(entry.start, i)

\* Chains of any length agree on their blocks.
LEMMA LinksOfChain ==
  ASSUME NEW start
  PROVE  /\ Link(start, 1) = start
         /\ \A i \in Nat : i >= 1 => Link(start, i + 1) = HashEntry(Link(start, i)).next
         /\ \A n \in Nat : \A i \in 1 .. n : Chain(start, n)[i] = Link(start, i)
<1>. DEFINE S == {i \in Nat : i >= 1 => \A n \in Nat : n >= i => Chain(start, n)[i] = Link(start, i)}
<1>1. 0 \in S
  OBVIOUS
<1>2. \A n \in Nat : n >= 1 => Chain(start, n)[1] = start
  <2>. TAKE n \in Nat
  <2>1. n >= 1 => 1 \in 1 .. n
    OBVIOUS
  <2>. QED BY <2>1, ChainDef
<1>3. Link(start, 1) = start
  BY <1>2 DEF Link
<1>4. ASSUME NEW i \in Nat, i \in S, i >= 1, NEW n \in Nat, n >= i + 1
      PROVE  Chain(start, n)[i + 1] = HashEntry(Link(start, i)).next
  <2>1. i + 1 \in 1 .. n /\ i + 1 # 1 /\ (i + 1) - 1 = i
    BY <1>4
  <2>2. Chain(start, n)[i + 1] = HashEntry(Chain(start, n)[(i + 1) - 1]).next
    BY <2>1, ChainDef
  <2>3. Chain(start, n)[i] = Link(start, i)
    BY <1>4
  <2>. QED BY <2>1, <2>2, <2>3
<1>5. ASSUME NEW i \in Nat, i \in S PROVE i + 1 \in S
  <2>1. CASE i = 0
    BY <2>1, <1>2, <1>3
  <2>2. CASE i # 0
    <3>1. \A n \in Nat : n >= i + 1 => Chain(start, n)[i + 1] = HashEntry(Link(start, i)).next
      BY <1>4, <1>5, <2>2
    <3>2. Link(start, i + 1) = HashEntry(Link(start, i)).next
      BY <3>1 DEF Link
    <3>. QED BY <3>1, <3>2
  <2>. QED BY <2>1, <2>2
<1>6. Nat \subseteq S
  <2>. HIDE DEF S
  <2>. QED BY <1>1, <1>5, NatInductionOnSets
<1>7. \A i \in Nat : i >= 1 => Link(start, i + 1) = HashEntry(Link(start, i)).next
  <2>. TAKE i \in Nat
  <2>1. i >= 1 => Chain(start, i + 1)[i + 1] = HashEntry(Link(start, i)).next
    BY <1>4, <1>6
  <2>. QED BY <2>1 DEF Link
<1>8. \A n \in Nat : \A i \in 1 .. n : Chain(start, n)[i] = Link(start, i)
  BY <1>6
<1>. QED BY <1>3, <1>7, <1>8

LEMMA BlockOfNat ==
  ASSUME pkg \in Package, NEW e, e.start \in Nat, NEW i \in Nat, i >= 1
  PROVE  BlockOf(e, i) \in Nat
<1>1. CASE e.consecutive
  BY <1>1 DEF BlockOf
<1>2. CASE ~e.consecutive
  <2>1. CASE i = 1
    BY <1>2, <2>1, LinksOfChain DEF BlockOf
  <2>2. CASE i # 1
    <3>1. i - 1 \in Nat /\ i - 1 >= 1 /\ (i - 1) + 1 = i
      BY <2>2
    <3>2. Link(e.start, (i - 1) + 1) = HashEntry(Link(e.start, i - 1)).next
      BY <3>1, LinksOfChain
    <3>. QED BY <1>2, <3>1, <3>2, LinkNat DEF BlockOf
  <2>. QED BY <2>1, <2>2
<1>. QED BY <1>1, <1>2

\* The blocks of a file as published are what their recursive definition says.
LEMMA PublishedDef ==
  ASSUME NEW s, NEW e, NEW n \in Nat, n = Ceiling(e.size)
  PROVE  \A i \in 1 .. n : PublishedBlocks(s, e)[i] =
           IF i = 1 THEN e.start
           ELSE IF e.consecutive THEN PublishedBlocks(s, e)[i - 1] + 1
           ELSE Shape[s].next[PublishedBlocks(s, e)[i - 1]]
<1>. DEFINE After(b) == IF e.consecutive THEN b + 1 ELSE Shape[s].next[b]
            Rec(f, m) == f = [i \in 1 .. m |-> IF i = 1 THEN e.start
                                               ELSE IF e.consecutive THEN f[i - 1] + 1
                                               ELSE Shape[s].next[f[i - 1]]]
            T == {m \in Nat : \E f : Rec(f, m)}
<1>1. 0 \in T
  <2>. DEFINE f0 == [i \in 1 .. 0 |-> e.start]
  <2>1. Rec(f0, 0)
    OBVIOUS
  <2>2. \E f : Rec(f, 0)
    <3>. HIDE DEF Rec, f0
    <3>. QED BY <2>1
  <2>. HIDE DEF Rec
  <2>. QED BY <2>2
<1>2. ASSUME NEW m \in Nat, m \in T PROVE m + 1 \in T
  <2>1. PICK f : Rec(f, m)
    BY <1>2
  <2>. DEFINE new == IF m = 0 THEN e.start ELSE After(f[m])
              g == [i \in 1 .. m + 1 |-> IF i =< m THEN f[i] ELSE new]
  <2>2. \A i \in 1 .. m : g[i] = f[i]
    OBVIOUS
  <2>3. \A i \in 1 .. m + 1 : g[i] = IF i = 1 THEN e.start ELSE After(g[i - 1])
    <3>. TAKE i \in 1 .. m + 1
    <3>1. CASE i =< m
      <4>1. i \in 1 .. m /\ (i # 1 => i - 1 \in 1 .. m)
        BY <3>1
      <4>2. g[i] = f[i] /\ (i # 1 => g[i - 1] = f[i - 1])
        BY <4>1, <2>2
      <4>3. f[i] = IF i = 1 THEN e.start ELSE After(f[i - 1])
        BY <4>1, <2>1, Zenon
      <4>. HIDE DEF g, After
      <4>. QED BY <4>2, <4>3
    <3>2. CASE i = m + 1
      <4>1. g[i] = new /\ (i = 1 <=> m = 0) /\ (m # 0 => g[i - 1] = f[m])
        <5>. HIDE DEF new
        <5>. QED BY <2>2, <3>2
      <4>. HIDE DEF g, After
      <4>. QED BY <4>1
    <3>. QED BY <3>1, <3>2
  <2>4. \E h : Rec(h, m + 1)
    <3>1. g = [i \in 1 .. m + 1 |-> g[i]]
      OBVIOUS
    <3>2. Rec(g, m + 1)
      <4>. HIDE DEF g
      <4>. QED BY <2>3, <3>1
    <3>. HIDE DEF g, Rec
    <3>. QED BY <3>2
  <2>. HIDE DEF Rec
  <2>. QED BY <2>4
<1>3. n \in T
  <2>. HIDE DEF T
  <2>. QED BY <1>1, <1>2, NatInductionOnSets
<1>4. \E f : Rec(f, n)
  <2>. HIDE DEF Rec
  <2>. QED BY <1>3
<1>. DEFINE block == CHOOSE f : Rec(f, n)
<1>5. Rec(block, n)
  <2>. HIDE DEF Rec
  <2>. QED BY <1>4
<1>6. PublishedBlocks(s, e) = block
  BY DEF PublishedBlocks
<1>. HIDE DEF block
<1>7. \A i \in 1 .. n : block[i] = IF i = 1 THEN e.start
                                   ELSE IF e.consecutive THEN block[i - 1] + 1
                                   ELSE Shape[s].next[block[i - 1]]
  BY <1>5, Zenon
<1>. QED BY <1>6, <1>7

\* Ceiling counts the blocks that hold n units.
LEMMA CeilingOf ==
  ASSUME NEW k \in Nat, NEW u \in k * PerTable + 1 .. (k + 1) * PerTable
  PROVE  Ceiling(u) = k + 1 /\ (u - 1) % PerTable = u - 1 - k * PerTable
<1>0. PerTable \in Nat /\ PerTable > 0
  BY PerTableAssumption
<1>. DEFINE kp == k * PerTable
            r == u - 1 - kp
<1>1. kp \in Nat /\ (k + 1) * PerTable = kp + PerTable
  BY <1>0
<1>. HIDE DEF kp
<1>2. r \in Nat /\ r < PerTable /\ u - 1 = kp + r /\ u \in Nat
  BY <1>0, <1>1 DEF kp
<1>3. u - 1 \in Nat /\ (u - 1) % PerTable = r
  <2>1. u - 1 = k * PerTable + r /\ u - 1 \in Nat
    BY <1>1, <1>2 DEF kp
  <2>. DEFINE n == u - 1
  <2>2. n \in Nat /\ n = k * PerTable + r
    BY <2>1
  <2>. HIDE DEF n, r
  <2>3. n % PerTable = r
    BY <2>2, <1>0, <1>2, DivUnique
  <2>. QED BY <2>2, <2>3 DEF n
<1>4. Ceiling(u) = k + 1
  <2>. DEFINE n == u + PerTable - 1
  <2>1. n \in Nat /\ n = (kp + PerTable) + r
    BY <1>0, <1>1, <1>2
  <2>2. n = (k + 1) * PerTable + r /\ k + 1 \in Nat
    BY <1>1, <2>1
  <2>3. n \div PerTable = k + 1
    <3>. HIDE DEF n, r
    <3>. QED BY <2>1, <2>2, <1>0, <1>2, DivUnique
  <2>. QED BY <2>3 DEF Ceiling
<1>. QED BY <1>3, <1>4 DEF kp

LEMMA CeilingBounds ==
  ASSUME NEW n \in Nat
  PROVE  /\ Ceiling(n) \in Nat
         /\ \A k \in Nat : k * PerTable < n => k + 1 =< Ceiling(n)
         /\ \A k \in Nat : n =< k * PerTable => Ceiling(n) =< k
         /\ \A u \in 1 .. n : Ceiling(u) \in 1 .. Ceiling(n)
<1>0. PerTable \in Nat /\ PerTable > 0
  BY PerTableAssumption
<1>1. \A x \in Nat : /\ Ceiling(x) \in Nat
                     /\ \E r \in 0 .. PerTable - 1 : x + PerTable - 1 = Ceiling(x) * PerTable + r
  <2>. TAKE x \in Nat
  <2>. DEFINE y == x + PerTable - 1
  <2>1. y \in Nat
    BY <1>0
  <2>. HIDE DEF y
  <2>2. y \div PerTable \in Nat /\ y % PerTable \in 0 .. PerTable - 1
        /\ y = (y \div PerTable) * PerTable + (y % PerTable)
    BY <2>1, <1>0
  <2>. QED BY <2>2 DEF Ceiling, y
<1>2. ASSUME NEW x \in Nat, NEW k \in Nat, k * PerTable < x PROVE k + 1 =< Ceiling(x)
  <2>1. PICK r \in 0 .. PerTable - 1 : x + PerTable - 1 = Ceiling(x) * PerTable + r
    BY <1>1
  <2>2. SUFFICES ASSUME Ceiling(x) =< k PROVE FALSE
    BY <1>1
  <2>3. PICK j \in Nat : k = Ceiling(x) + j
    <3>1. k - Ceiling(x) \in Nat /\ k = Ceiling(x) + (k - Ceiling(x))
      BY <1>1, <2>2
    <3>. QED BY <3>1
  <2>. DEFINE c == Ceiling(x)
  <2>4. c \in Nat
    BY <1>1
  <2>. HIDE DEF c
  <2>5. (c + j) * PerTable = c * PerTable + j * PerTable /\ j * PerTable \in Nat /\ c * PerTable \in Nat
    BY <1>0, <2>4
  <2>. DEFINE cp == c * PerTable
              jp == j * PerTable
  <2>6. k * PerTable = cp + jp /\ cp \in Nat /\ jp \in Nat /\ x + PerTable - 1 = cp + r
    BY <2>1, <2>3, <2>5 DEF c
  <2>. HIDE DEF cp, jp
  <2>. QED BY <1>0, <1>2, <2>6
<1>3. ASSUME NEW x \in Nat, NEW k \in Nat, x =< k * PerTable PROVE Ceiling(x) =< k
  <2>1. PICK r \in 0 .. PerTable - 1 : x + PerTable - 1 = Ceiling(x) * PerTable + r
    BY <1>1
  <2>2. SUFFICES ASSUME Ceiling(x) > k PROVE FALSE
    BY <1>1
  <2>3. PICK j \in Nat : Ceiling(x) = k + 1 + j
    <3>1. Ceiling(x) - k - 1 \in Nat /\ Ceiling(x) = k + 1 + (Ceiling(x) - k - 1)
      BY <1>1, <2>2
    <3>. QED BY <3>1
  <2>4. (k + 1 + j) * PerTable = k * PerTable + PerTable + j * PerTable
        /\ j * PerTable \in Nat /\ k * PerTable \in Nat
    BY <1>0
  <2>. DEFINE kp == k * PerTable
              jp == j * PerTable
  <2>5. x + PerTable - 1 = kp + PerTable + jp + r /\ kp \in Nat /\ jp \in Nat /\ x =< kp
    BY <2>1, <2>3, <2>4, <1>3
  <2>. HIDE DEF kp, jp
  <2>. QED BY <1>0, <2>5
<1>4. ASSUME NEW u \in 1 .. n PROVE Ceiling(u) \in 1 .. Ceiling(n)
  <2>1. Ceiling(u) \in Nat /\ Ceiling(n) \in Nat /\ u \in Nat
    BY <1>1
  <2>2. 0 + 1 =< Ceiling(u)
    <3>1. 0 * PerTable < u
      BY <1>0
    <3>. QED BY <3>1, <1>2
  <2>3. Ceiling(u) =< Ceiling(n)
    <3>. DEFINE c == Ceiling(n)
    <3>1. n =< c * PerTable
      <4>1. PICK r \in 0 .. PerTable - 1 : n + PerTable - 1 = c * PerTable + r
        BY <1>1
      <4>2. c * PerTable \in Nat
        <5>. HIDE DEF c
        <5>. QED BY <1>0, <2>1 DEF c
      <4>. DEFINE cp == c * PerTable
      <4>. HIDE DEF cp
      <4>3. n + PerTable - 1 = cp + r /\ cp \in Nat
        BY <4>1, <4>2 DEF cp
      <4>4. n =< cp
        BY <4>3, <1>0
      <4>. QED BY <4>4 DEF cp
    <3>2. u =< c * PerTable
      <4>1. c * PerTable \in Nat
        <5>. HIDE DEF c
        <5>. QED BY <1>0, <2>1 DEF c
      <4>. DEFINE cp == c * PerTable
      <4>. HIDE DEF cp
      <4>. QED BY <3>1, <4>1 DEF cp
    <3>. HIDE DEF c
    <3>. QED BY <3>2, <2>1, <1>3 DEF c
  <2>. QED BY <2>1, <2>2, <2>3
<1>. QED BY <1>1, <1>2, <1>3, <1>4

\* The links and the blocks of an entry's chain.
LinkInUse(e, i)  == HashEntry(BlockOf(e, i)).code = "ok"
IsVerified(e, i) == VerifyDataBlock(BlockOf(e, i)) = "ok"

\* What is known of a verified reading r of entry e: on the walk, of the links
\* followed; in the copy, of the k blocks copied and of those ahead; at its end,
\* of the units.
WalkOk(e, r) ==
  /\ ~e.consecutive /\ r.steps \in Nat
  /\ r.block = BlockOf(e, r.steps + 1)
  /\ \A i \in 1 .. r.steps : LinkInUse(e, i)

\* Of a file, what the blocks so far hold, and what is wanted of the next.
Held(full, size)  == IF full < size THEN full ELSE size
Wanted(size, had) == IF size - had < PerTable THEN size - had ELSE PerTable

CopyOk(e, r, k) ==
  /\ IsList(r.blocks)
  /\ \A j \in 1 .. Len(r.blocks) : r.blocks[j] = BlockOf(e, k + j)
  /\ ~e.consecutive => \A j \in 1 .. k + Len(r.blocks) : LinkInUse(e, j)
  /\ \A i \in 1 .. k : IsVerified(e, i)
  /\ Len(r.units) = Held(k * PerTable, e.size)
  /\ \A u \in 1 .. Len(r.units) :
       r.units[u] = BlockOf(e, Ceiling(u)) * PerTable + ((u - 1) % PerTable)

IsPublished(e, units) == (e.dir => e.size = 0) => units = Published(pkg.shape, e)

Verifying == Reading /\ call.op = "entry" /\ call.verify

WalkedLinks ==
  Verifying /\ phase = "walk" => read.units = << >> /\ WalkOk(Entry, read)
CopiedPublished ==
  Verifying /\ phase = "copy" => \E k \in Nat : CopyOk(Entry, read, k)
DeliversPublished ==
  Verifying /\ phase = "deliver" /\ read.code = "ok" => IsPublished(Entry, read.units)
AnsweredPublished ==
  answer.op = "entry" /\ answer.verify /\ answer.code = "ok" =>
    IsPublished(entries[answer.at + 1], answer.units)

StartsOk == \A i \in DOMAIN entries : entries[i].start \in Nat

VerifyInv ==
  StartsOk /\ WalkedLinks /\ CopiedPublished /\ DeliversPublished /\ AnsweredPublished

LEMMA SamePackage ==
  ASSUME pkg' = pkg
  PROVE  /\ \A e, r : WalkOk(e, r)' <=> WalkOk(e, r)
         /\ \A e, r, k : CopyOk(e, r, k)' <=> CopyOk(e, r, k)
         /\ \A e, units : IsPublished(e, units)' <=> IsPublished(e, units)
<1>1. \A e, r : WalkOk(e, r)' <=> WalkOk(e, r)
  BY DEF WalkOk, BlockOf, LinkInUse, Link, Chain, HashEntry, BlockAt, Inside, RecordOffset
<1>2. \A e, r, k : CopyOk(e, r, k)' <=> CopyOk(e, r, k)
  BY DEF CopyOk, BlockOf, LinkInUse, IsVerified, Link, Chain, HashEntry, BlockAt, Inside, RecordOffset,
         VerifyDataBlock, BlockHashError, Sound
<1>3. \A e, units : IsPublished(e, units)' <=> IsPublished(e, units)
  BY DEF IsPublished
<1>. QED BY <1>1, <1>2, <1>3

\* Blocks that verify, each reached by a link in use, are those published.
LEMMA CopiedIsPublished ==
  ASSUME pkg \in Package, NEW e, e.start \in Nat, e.size \in Nat,
         NEW k \in Nat, k =< Ceiling(e.size),
         \A i \in 1 .. k : IsVerified(e, i),
         ~e.consecutive => \A i \in 1 .. k : LinkInUse(e, i)
  PROVE  \A i \in 1 .. k : PublishedBlocks(pkg.shape, e)[i] = BlockOf(e, i)
<1>. DEFINE n == Ceiling(e.size)
            f == PublishedBlocks(pkg.shape, e)
            S == {i \in Nat : i \in 1 .. k => f[i] = BlockOf(e, i)}
<1>1. n \in Nat
  BY CeilingBounds
<1>2. \A i \in 1 .. n : f[i] = IF i = 1 THEN e.start
                               ELSE IF e.consecutive THEN f[i - 1] + 1
                               ELSE Shape[pkg.shape].next[f[i - 1]]
  BY <1>1, PublishedDef
<1>3. 0 \in S
  OBVIOUS
<1>4. ASSUME NEW i \in Nat, i \in S PROVE i + 1 \in S
  <2>. SUFFICES ASSUME i + 1 \in 1 .. k PROVE f[i + 1] = BlockOf(e, i + 1)
    OBVIOUS
  <2>1. i + 1 \in 1 .. n
    BY <1>1
  <2>2. CASE i = 0
    <3>1. f[i + 1] = e.start
      <4>. HIDE DEF f, n
      <4>. QED BY <1>2, <2>1, <2>2
    <3>2. BlockOf(e, 1) = e.start
      BY LinksOfChain DEF BlockOf
    <3>. QED BY <2>2, <3>1, <3>2
  <2>3. CASE i # 0
    <3>1. i \in 1 .. k /\ i >= 1 /\ i + 1 # 1 /\ (i + 1) - 1 = i
      BY <2>3
    <3>2. f[i] = BlockOf(e, i)
      BY <1>4, <3>1
    <3>3. f[i + 1] = IF e.consecutive THEN f[i] + 1 ELSE Shape[pkg.shape].next[f[i]]
      <4>. HIDE DEF f, n
      <4>. QED BY <1>2, <2>1, <3>1
    <3>4. CASE e.consecutive
      <4>1. BlockOf(e, i) = e.start + i - 1 /\ BlockOf(e, i + 1) = e.start + (i + 1) - 1
        BY <3>4 DEF BlockOf
      <4>. HIDE DEF f
      <4>. QED BY <3>2, <3>3, <3>4, <4>1
    <3>5. CASE ~e.consecutive
      <4>1. BlockOf(e, i + 1) = HashEntry(BlockOf(e, i)).next
        BY <3>1, <3>5, LinksOfChain DEF BlockOf
      <4>2. BlockOf(e, i) \in Nat
        BY <3>1, BlockOfNat
      <4>3. VerifyDataBlock(BlockOf(e, i)) = "ok" /\ HashEntry(BlockOf(e, i)).code = "ok"
        BY <3>1, <3>5 DEF IsVerified, LinkInUse
      <4>4. HashEntry(BlockOf(e, i)).next = Shape[pkg.shape].next[BlockOf(e, i)]
        BY <4>2, <4>3, VerifiedLink
      <4>. HIDE DEF f
      <4>. QED BY <3>2, <3>3, <3>5, <4>1, <4>4
    <3>. QED BY <3>4, <3>5
  <2>. QED BY <2>2, <2>3
<1>5. Nat \subseteq S
  <2>. HIDE DEF S
  <2>. QED BY <1>3, <1>4, NatInductionOnSets
<1>. QED BY <1>5

\* A copy that has come to the file's length is the published file.
LEMMA CompleteIsPublished ==
  ASSUME pkg \in Package, NEW e, e.start \in Nat, e.size \in Nat,
         NEW r, IsList(r.units), Len(r.units) = e.size, NEW k \in Nat, CopyOk(e, r, k)
  PROVE  IsPublished(e, r.units)
<1>. DEFINE n == Ceiling(e.size)
            f == PublishedBlocks(pkg.shape, e)
            units == r.units
<1>0. PerTable \in Nat /\ PerTable > 0
  BY PerTableAssumption
<1>1. n \in Nat /\ n =< k
  <2>1. e.size =< k * PerTable
    <3>. DEFINE kp == k * PerTable
    <3>1. Len(units) = IF kp < e.size THEN kp ELSE e.size
      BY DEF CopyOk, Held
    <3>2. kp \in Nat
      BY <1>0
    <3>. HIDE DEF kp
    <3>3. e.size =< kp
      BY <3>1, <3>2
    <3>. QED BY <3>3 DEF kp
  <2>. QED BY <2>1, CeilingBounds
<1>2. Len(r.blocks) \in Nat
  BY LenProperties DEF CopyOk, IsList
<1>3. \A i \in 1 .. n : f[i] = BlockOf(e, i)
  <2>1. \A i \in 1 .. n : IsVerified(e, i)
    BY <1>1 DEF CopyOk
  <2>2. ~e.consecutive => \A i \in 1 .. n : LinkInUse(e, i)
    BY <1>1, <1>2 DEF CopyOk
  <2>. QED BY <1>1, <2>1, <2>2, CopiedIsPublished
<1>4. units = [u \in 1 .. e.size |-> f[Ceiling(u)] * PerTable + ((u - 1) % PerTable)]
  <2>1. units = [u \in 1 .. e.size |-> units[u]]
    <3>1. PICK T : units \in Seq(T)
      BY DEF IsList
    <3>2. units \in [1 .. Len(units) -> T]
      BY <3>1, LenProperties
    <3>. HIDE DEF units
    <3>. QED BY <3>2 DEF units
  <2>2. \A u \in 1 .. e.size : units[u] = f[Ceiling(u)] * PerTable + ((u - 1) % PerTable)
    <3>. TAKE u \in 1 .. e.size
    <3>1. Ceiling(u) \in 1 .. n
      BY CeilingBounds
    <3>2. units[u] = BlockOf(e, Ceiling(u)) * PerTable + ((u - 1) % PerTable)
      BY DEF CopyOk
    <3>. QED BY <1>3, <3>1, <3>2
  <2>. HIDE DEF units, f
  <2>. QED BY <2>1, <2>2
<1>5. CASE e.dir
  <2>. SUFFICES ASSUME e.size = 0 PROVE units = Published(pkg.shape, e)
    BY <1>5 DEF IsPublished
  <2>1. units = << >>
    <3>1. PICK T : units \in Seq(T)
      BY DEF IsList
    <3>. HIDE DEF units
    <3>2. Len(units) = 0
      BY DEF units
    <3>. QED BY <3>1, <3>2, EmptySeq
  <2>. QED BY <1>5, <2>1 DEF Published
<1>6. CASE ~e.dir
  BY <1>4, <1>6 DEF IsPublished, Published
<1>. QED BY <1>5, <1>6

\* The entry a verified reading is of.
LEMMA VerifiedEntry ==
  ASSUME ReadInv, StartsOk, Reading, call.op = "entry"
  PROVE  /\ pkg \in Package /\ at + 1 \in DOMAIN entries /\ Entry = entries[at + 1]
         /\ Entry.start \in Nat /\ Entry.size \in Nat
<1>1. at + 1 \in DOMAIN entries /\ pkg \in Package
  BY DEF ReadInv, AtEntry, ListingOk
<1>2. Entry = entries[at + 1]
  BY DEF Entry
<1>. QED BY <1>1, <1>2, EntrySize DEF StartsOk

\* An answer stands as long as the listing does.
LEMMA AnswerStands ==
  ASSUME VerifyInv, UNCHANGED <<pkg, entries, answer>>
  PROVE  AnsweredPublished' /\ StartsOk'
BY DEF VerifyInv, AnsweredPublished, StartsOk, IsPublished

\* A step that leaves no verified reading has only its answer to account for.
LEMMA NothingVerified ==
  ASSUME StartsOk', AnsweredPublished', ~Verifying'
  PROVE  VerifyInv'
BY DEF VerifyInv, WalkedLinks, CopiedPublished, DeliversPublished

(* The chain of a file lists its links: the form of the two lemmas above that
   the step from the walk to the copy uses. *)
LEMMA ChainListsLinks ==
  ASSUME NEW start
  PROVE  \A n \in Nat : /\ Chain(start, n) = [i \in 1 .. n |-> Chain(start, n)[i]]
                        /\ \A i \in 1 .. n : Chain(start, n)[i] = Link(start, i)
<1>1. \A n \in Nat : Chain(start, n) = [i \in 1 .. n |-> Chain(start, n)[i]]
  <2>. TAKE n \in Nat
  <2>. QED BY ChainDef, SMTT(30)
<1>2. \A n \in Nat : \A i \in 1 .. n : Chain(start, n)[i] = Link(start, i)
  BY LinksOfChain, ZenonT(30)
<1>. QED BY <1>1, <1>2, ZenonT(30)

LEMMA FollowKeepsVerify == ReadInv /\ VerifyInv /\ FollowBlockChain => VerifyInv'
<1>. SUFFICES ASSUME ReadInv, VerifyInv, FollowBlockChain PROVE VerifyInv'
  OBVIOUS
<1>1. /\ phase = "walk" /\ UNCHANGED <<pkg, entries, call, at, answer>>
      /\ ReadShape /\ Entry' = Entry /\ Reading
  BY DEF FollowBlockChain, ReadInv, Reading, Entry, TableEntry
<1>2. AnsweredPublished' /\ StartsOk'
  BY <1>1, AnswerStands
<1>3. CASE ~Verifying'
  BY <1>2, <1>3, NothingVerified
<1>4. CASE Verifying'
  <2>1. Verifying /\ call.op = "entry"
    BY <1>1, <1>4 DEF Verifying
  <2>2. StartsOk
    BY DEF VerifyInv
  <2>3. /\ pkg \in Package /\ Entry.start \in Nat /\ Entry.size \in Nat
    BY <1>1, <2>1, <2>2, VerifiedEntry
  <2>4. PICK e, r, rr : e = Entry /\ r = read /\ rr = read'
    OBVIOUS
  <2>5. WalkOk(e, r) /\ r.units = << >> /\ DOMAIN r = {"block", "steps", "blocks", "units", "code"}
    BY <1>1, <2>1, <2>4 DEF VerifyInv, WalkedLinks, ReadShape
  <2>6. ~e.consecutive /\ r.steps \in Nat /\ r.block = BlockOf(e, r.steps + 1)
        /\ \A i \in 1 .. r.steps : LinkInUse(e, i)
    BY <2>5 DEF WalkOk
  <2>7. CASE r.block = MaxBlock
    <3>1. phase' = "copy" /\ rr = [r EXCEPT !.blocks = Chain(e.start, r.steps)]
      BY <1>1, <2>4, <2>7 DEF FollowBlockChain
    <3>2. rr.blocks = Chain(e.start, r.steps) /\ rr.units = << >>
      BY <3>1, <2>5, Zenon
    <3>3. /\ Chain(e.start, r.steps) = [i \in 1 .. r.steps |-> Chain(e.start, r.steps)[i]]
          /\ \A i \in 1 .. r.steps : Chain(e.start, r.steps)[i] = BlockOf(e, i)
      <4>1. \A n \in Nat : /\ Chain(e.start, n) = [i \in 1 .. n |-> Chain(e.start, n)[i]]
                           /\ \A i \in 1 .. n : Chain(e.start, n)[i] = Link(e.start, i)
        BY ChainListsLinks
      <4>2. \A i : BlockOf(e, i) = Link(e.start, i)
        BY <2>6 DEF BlockOf
      <4>. QED BY <2>6, <4>1, <4>2, Zenon
    <3>. DEFINE c == Chain(e.start, r.steps)
    <3>. HIDE DEF c
    <3>4. IsList(c) /\ Len(c) = r.steps
      <4>. DEFINE T == {c[i] : i \in 1 .. r.steps}
      <4>1. c = [i \in 1 .. r.steps |-> c[i]]
        BY <3>3 DEF c
      <4>2. c \in [1 .. r.steps -> T]
        BY <4>1
      <4>. HIDE DEF T
      <4>3. c \in Seq(T) /\ Len(c) = r.steps
        BY <2>6, <4>2
      <4>. QED BY <4>3 DEF IsList
    <3>5. CopyOk(e, rr, 0)
      <4>1. IsList(rr.blocks) /\ Len(rr.blocks) = r.steps
        BY <3>2, <3>4 DEF c
      <4>2. \A j \in 1 .. Len(rr.blocks) : rr.blocks[j] = BlockOf(e, 0 + j)
        <5>1. \A j \in 1 .. r.steps : 0 + j = j
          BY <2>6
        <5>. QED BY <4>1, <5>1, <3>2, <3>3
      <4>3. \A j \in 1 .. 0 + Len(rr.blocks) : LinkInUse(e, j)
        BY <4>1, <2>6
      <4>4. Len(rr.units) = 0 /\ 0 * PerTable = 0
        BY <3>2, PerTableAssumption
      <4>5. Len(rr.units) = Held(0 * PerTable, e.size)
        BY <4>4, <2>3, <2>4 DEF Held
      <4>. QED BY <4>1, <4>2, <4>3, <4>4, <4>5 DEF CopyOk
    <3>6. CopyOk(e, rr, 0)'
      BY <3>5, <1>1, SamePackage
    <3>7. CopyOk(Entry, read, 0)'
      BY <3>6, <2>4, <1>1
    <3>. QED BY <1>2, <3>1, <3>7 DEF VerifyInv, WalkedLinks, CopiedPublished, DeliversPublished
  <2>8. CASE r.block # MaxBlock /\ (r.steps >= MaxSteps \/ HashEntry(r.block).code # "ok")
    <3>1. phase' = "deliver" /\ rr.code # "ok"
      <4>1. CASE r.steps >= MaxSteps
        <5>1. phase' = "deliver" /\ rr = [r EXCEPT !.code = "Malformed"]
          BY <1>1, <2>4, <2>8, <4>1 DEF FollowBlockChain
        <5>. QED BY <5>1, <2>5
      <4>2. CASE ~(r.steps >= MaxSteps)
        <5>1. phase' = "deliver" /\ rr = [r EXCEPT !.code = HashEntry(r.block).code]
          BY <1>1, <2>4, <2>8, <4>2 DEF FollowBlockChain
        <5>2. rr.code = HashEntry(r.block).code
          BY <5>1, <2>5, Zenon
        <5>. QED BY <5>1, <5>2, <2>8, <4>2
      <4>. QED BY <4>1, <4>2
    <3>. QED BY <1>2, <2>4, <3>1 DEF VerifyInv, WalkedLinks, CopiedPublished, DeliversPublished
  <2>9. CASE r.block # MaxBlock /\ ~(r.steps >= MaxSteps) /\ HashEntry(r.block).code = "ok"
    <3>1. phase' = "walk"
          /\ rr = [r EXCEPT !.block = HashEntry(r.block).next, !.steps = r.steps + 1]
      BY <1>1, <2>4, <2>9 DEF FollowBlockChain
    <3>2. rr.block = HashEntry(r.block).next /\ rr.steps = r.steps + 1 /\ rr.units = << >>
      <4>. DEFINE next == HashEntry(r.block).next
      <4>. HIDE DEF next
      <4>1. rr = [r EXCEPT !.block = next, !.steps = r.steps + 1]
        BY <3>1 DEF next
      <4>2. rr.block = next /\ rr.steps = r.steps + 1 /\ rr.units = << >>
        BY <4>1, <2>5
      <4>. QED BY <4>2 DEF next
    <3>3. WalkOk(e, rr)
      <4>1. rr.steps \in Nat /\ \A i \in 1 .. rr.steps : LinkInUse(e, i)
        <5>1. LinkInUse(e, r.steps + 1)
          BY <2>6, <2>9 DEF LinkInUse
        <5>. QED BY <2>6, <3>2, <5>1
      <4>2. rr.block = BlockOf(e, rr.steps + 1)
        <5>1. r.block = Link(e.start, r.steps + 1)
          BY <2>6 DEF BlockOf
        <5>2. r.steps + 1 \in Nat /\ r.steps + 1 >= 1
          BY <2>6
        <5>3. Link(e.start, (r.steps + 1) + 1) = HashEntry(Link(e.start, r.steps + 1)).next
          BY <5>2, LinksOfChain
        <5>. QED BY <2>6, <3>2, <5>1, <5>3 DEF BlockOf
      <4>. QED BY <2>6, <4>1, <4>2 DEF WalkOk
    <3>4. WalkOk(e, rr)'
      BY <3>3, <1>1, SamePackage
    <3>5. WalkOk(Entry, read)'
      BY <3>4, <2>4, <1>1
    <3>6. read'.units = << >>
      BY <3>2, <2>4
    <3>. QED BY <1>2, <3>1, <3>5, <3>6 DEF VerifyInv, WalkedLinks, CopiedPublished, DeliversPublished
  <2>. QED BY <2>7, <2>8, <2>9
<1>. QED BY <1>3, <1>4

\* The units of a verified block are its own.
LEMMA VerifiedUnits ==
  ASSUME pkg \in Package, NEW b \in Nat, VerifyDataBlock(b) = "ok"
  PROVE  UnitsAt(DataBlock(b)) = [u \in 1 .. PerTable |-> b * PerTable + u - 1]
<1>1. Sound(DataBlock(b)) /\ BlockAt(DataBlock(b)) = Block(b)
  BY VerifiedBlock
<1>2. Block(b).kind = "data" /\ Block(b).group = b
  BY DEF Block
<1>. QED BY <1>1, <1>2 DEF UnitsAt

\* What is still wanted of a block.
LEMMA WantedOfBlock ==
  ASSUME NEW size \in Nat, NEW had \in Nat
  PROVE  /\ Held(had, size) < size => Held(had, size) = had /\ had < size
         /\ had < size => /\ Wanted(size, had) \in 1 .. PerTable
                          /\ had + Wanted(size, had) = Held(had + PerTable, size)
BY PerTableAssumption DEF Held, Wanted

\* Two lists joined, element by element.
JoinsAs(s, t, a, c) ==
  /\ Len(s \o t) = a + c
  /\ \A u \in 1 .. a : (s \o t)[u] = s[u]
  /\ \A u \in a + 1 .. a + c : (s \o t)[u] = t[u - a]

LEMMA ListsJoined ==
  ASSUME NEW s, IsList(s), NEW t, IsList(t)
  PROVE  \A a, c \in Nat : Len(s) = a /\ Len(t) = c => JoinsAs(s, t, a, c)
<1>1. PICK A : s \in Seq(A)
  BY DEF IsList
<1>2. PICK B : t \in Seq(B)
  BY DEF IsList
<1>. DEFINE C == A \cup B
<1>3. A \subseteq C /\ B \subseteq C
  OBVIOUS
<1>. HIDE DEF C
<1>4. s \in Seq(C) /\ t \in Seq(C)
  BY <1>1, <1>2, <1>3, SeqMonotonic
<1>5. /\ Len(s \o t) = Len(s) + Len(t)
      /\ \A u \in 1 .. Len(s) + Len(t) : (s \o t)[u] = IF u <= Len(s) THEN s[u] ELSE t[u - Len(s)]
  BY <1>4, ConcatProperties, Zenon
<1>. SUFFICES ASSUME NEW a \in Nat, NEW c \in Nat, Len(s) = a /\ Len(t) = c
              PROVE  JoinsAs(s, t, a, c)
  OBVIOUS
<1>6. /\ Len(s \o t) = a + c
      /\ \A u \in 1 .. a + c : (s \o t)[u] = IF u <= a THEN s[u] ELSE t[u - a]
  BY <1>5, Zenon
<1>. QED BY <1>6 DEF JoinsAs

\* What a turn of the copy makes of a verified reading.
CopiedOn(e, r, rr) ==
  /\ r.blocks # << >> /\ Len(r.units) < e.size
  /\ VerifyDataBlock(Head(r.blocks)) = "ok"
  /\ rr.blocks = Tail(r.blocks)
  /\ rr.units = r.units \o SubSeq(UnitsAt(DataBlock(Head(r.blocks))), 1, Wanted(e.size, Len(r.units)))

\* One verified block copied.
LEMMA BlockCopied ==
  ASSUME pkg \in Package, NEW e, e.start \in Nat, e.size \in Nat,
         NEW r, NEW k \in Nat, CopyOk(e, r, k), IsList(r.units),
         NEW rr, CopiedOn(e, r, rr)
  PROVE  CopyOk(e, rr, k + 1)
<1>. DEFINE b == BlockOf(e, k + 1)
            m == Len(r.blocks)
            kp == k * PerTable
            bp == b * PerTable
            n == Wanted(e.size, Len(r.units))
            t == SubSeq(UnitsAt(DataBlock(b)), 1, n)
<1>0. PerTable \in Nat /\ PerTable > 0 /\ b \in Nat /\ kp \in Nat /\ bp \in Nat
  <2>1. PerTable \in Nat /\ PerTable > 0
    BY PerTableAssumption
  <2>2. b \in Nat
    BY BlockOfNat
  <2>. HIDE DEF b
  <2>. QED BY <2>1, <2>2
<1>1. /\ m \in Nat /\ m >= 1 /\ Head(r.blocks) = r.blocks[1]
      /\ IsList(Tail(r.blocks)) /\ Len(Tail(r.blocks)) = m - 1
      /\ \A j \in 1 .. m - 1 : Tail(r.blocks)[j] = r.blocks[j + 1]
  <2>1. PICK T : r.blocks \in Seq(T)
    BY DEF CopyOk, IsList
  <2>0. r.blocks # << >>
    BY DEF CopiedOn
  <2>2. /\ Head(r.blocks) \in T /\ Tail(r.blocks) \in Seq(T)
        /\ Len(Tail(r.blocks)) = Len(r.blocks) - 1
        /\ \A j \in 1 .. Len(Tail(r.blocks)) : Tail(r.blocks)[j] = r.blocks[j + 1]
    BY <2>0, <2>1, HeadTailProperties
  <2>3. m \in Nat /\ m # 0
    BY <2>0, <2>1, EmptySeq, LenProperties
  <2>4. Head(r.blocks) = r.blocks[1]
    BY <2>0, <2>1
  <2>. QED BY <2>2, <2>3, <2>4 DEF IsList
<1>2. Head(r.blocks) = b
  BY <1>1 DEF CopyOk
<1>. HIDE DEF n
<1>3. Len(r.units) = kp /\ kp < e.size
  <2>1. Len(r.units) = Held(kp, e.size)
    BY DEF CopyOk
  <2>2. Len(r.units) < e.size
    BY DEF CopiedOn
  <2>3. \A had \in Nat : Held(had, e.size) < e.size => Held(had, e.size) = had /\ had < e.size
    BY WantedOfBlock
  <2>. HIDE DEF kp
  <2>. QED BY <2>1, <2>2, <2>3, <1>0, Zenon
<1>4. n \in 1 .. PerTable /\ kp + n = Held(kp + PerTable, e.size)
  <2>. HIDE DEF kp
  <2>. QED BY <1>0, <1>3, WantedOfBlock, Zenon DEF n
<1>5. UnitsAt(DataBlock(b)) = [u \in 1 .. PerTable |-> bp + u - 1]
  BY <1>0, <1>2, VerifiedUnits DEF CopiedOn
<1>. HIDE DEF b
<1>6. /\ IsList(t) /\ Len(t) = n
      /\ \A u \in 1 .. n : t[u] = bp + u - 1
  <2>. DEFINE v == [u \in 1 .. PerTable |-> bp + u - 1]
  <2>. HIDE DEF bp
  <2>1. \A u \in 1 .. n : v[u] \in Int /\ v[u] = bp + u - 1
    BY <1>0, <1>4
  <2>2. /\ SubSeq(v, 1, n) \in Seq(Int) /\ Len(SubSeq(v, 1, n)) = n
        /\ \A u \in 1 .. n : SubSeq(v, 1, n)[u] = v[1 + u - 1]
    <3>. HIDE DEF v
    <3>1. \A u \in 1 .. n : v[u] \in Int
      BY <2>1
    <3>2. n \in Nat
      BY <1>4
    <3>. QED BY <3>1, <3>2, SubSeqProperties
  <2>3. \A u \in 1 .. n : 1 + u - 1 = u
    BY <1>4
  <2>. QED BY <1>5, <2>1, <2>2, <2>3 DEF IsList
<1>7. /\ Len(rr.units) = kp + n
      /\ \A u \in 1 .. kp : rr.units[u] = r.units[u]
      /\ \A u \in kp + 1 .. kp + n : rr.units[u] = t[u - kp]
  <2>1. rr.units = r.units \o t
    BY <1>2 DEF CopiedOn, n
  <2>2. n \in Nat
    BY <1>4
  <2>. HIDE DEF t, kp
  <2>3. /\ Len(r.units \o t) = kp + n
        /\ \A u \in 1 .. kp : (r.units \o t)[u] = r.units[u]
        /\ \A u \in kp + 1 .. kp + n : (r.units \o t)[u] = t[u - kp]
    <3>1. kp \in Nat /\ Len(r.units) = kp /\ IsList(t) /\ Len(t) = n
      BY <1>0, <1>3, <1>6, Zenon
    <3>2. \A a, c \in Nat : Len(r.units) = a /\ Len(t) = c => JoinsAs(r.units, t, a, c)
      BY <3>1, ListsJoined, Zenon
    <3>3. JoinsAs(r.units, t, kp, n)
      BY <2>2, <3>1, <3>2, Zenon
    <3>. QED BY <3>3, Zenon DEF JoinsAs
  <2>. QED BY <2>1, <2>3, Zenon
<1>8. (k + 1) * PerTable = kp + PerTable
  BY <1>0
<1>9. IsList(rr.blocks)
      /\ \A j \in 1 .. Len(rr.blocks) : rr.blocks[j] = BlockOf(e, (k + 1) + j)
  <2>1. ASSUME NEW j \in 1 .. m - 1 PROVE r.blocks[j + 1] = BlockOf(e, (k + 1) + j)
    <3>1. j + 1 \in 1 .. m /\ k + (j + 1) = (k + 1) + j
      BY <1>1
    <3>. QED BY <3>1 DEF CopyOk
  <2>2. rr.blocks = Tail(r.blocks)
    BY DEF CopiedOn
  <2>. QED BY <2>1, <2>2, <1>1
<1>10. ~e.consecutive => \A j \in 1 .. (k + 1) + Len(rr.blocks) : LinkInUse(e, j)
  <2>0. Len(rr.blocks) = m - 1
    BY <1>1 DEF CopiedOn
  <2>1. (k + 1) + Len(rr.blocks) = k + m
    <3>1. m \in Nat /\ Len(rr.blocks) = m - 1
      BY <1>1, <2>0
    <3>. HIDE DEF m
    <3>2. \A l : l = m - 1 => (k + 1) + l = k + m
      BY <3>1
    <3>. QED BY <3>1, <3>2, Zenon
  <2>. QED BY <2>1 DEF CopyOk
<1>11. \A i \in 1 .. k + 1 : IsVerified(e, i)
  <2>1. IsVerified(e, k + 1)
    BY <1>2 DEF IsVerified, b, CopiedOn
  <2>. QED BY <2>1 DEF CopyOk
<1>12. Len(rr.units) = Held((k + 1) * PerTable, e.size)
  BY <1>4, <1>7, <1>8, Zenon
<1>13. \A u \in 1 .. Len(rr.units) :
         rr.units[u] = BlockOf(e, Ceiling(u)) * PerTable + ((u - 1) % PerTable)
  <2>1. ASSUME NEW u \in 1 .. kp
        PROVE  rr.units[u] = BlockOf(e, Ceiling(u)) * PerTable + ((u - 1) % PerTable)
    BY <2>1, <1>3, <1>7 DEF CopyOk
  <2>2. ASSUME NEW u \in kp + 1 .. kp + n
        PROVE  rr.units[u] = BlockOf(e, Ceiling(u)) * PerTable + ((u - 1) % PerTable)
    <3>1. u \in k * PerTable + 1 .. (k + 1) * PerTable
      <4>1. u \in kp + 1 .. kp + PerTable
        <5>. HIDE DEF kp
        <5>. QED BY <1>0, <1>4
      <4>. QED BY <4>1, <1>8
    <3>2. Ceiling(u) = k + 1 /\ (u - 1) % PerTable = u - 1 - kp
      BY <3>1, CeilingOf
    <3>3. u - kp \in 1 .. n
      <4>. HIDE DEF kp
      <4>. QED BY <1>0, <1>4
    <3>4. rr.units[u] = bp + (u - kp) - 1
      <4>. HIDE DEF t, bp, kp
      <4>. QED BY <1>6, <1>7, <3>3
    <3>5. bp + (u - kp) - 1 = bp + (u - 1 - kp)
      <4>. HIDE DEF bp, kp
      <4>. QED BY <1>0, <1>4
    <3>. QED BY <3>2, <3>4, <3>5 DEF b
  <2>3. \A u \in 1 .. kp + n : u \in 1 .. kp \/ u \in kp + 1 .. kp + n
    <3>. HIDE DEF kp
    <3>. QED BY <1>0, <1>4
  <2>. QED BY <2>1, <2>2, <2>3, <1>7
<1>. QED BY <1>9, <1>10, <1>11, <1>12, <1>13 DEF CopyOk

LEMMA CopyKeepsVerify == ReadInv /\ VerifyInv /\ CopyBlock => VerifyInv'
<1>. SUFFICES ASSUME ReadInv, VerifyInv, CopyBlock PROVE VerifyInv'
  OBVIOUS
<1>1. /\ phase = "copy" /\ UNCHANGED <<pkg, entries, call, at, answer>>
      /\ ReadShape /\ Entry' = Entry /\ Reading
      /\ IsList(read.units) /\ Len(read.units) =< Entry.size
  BY DEF CopyBlock, ReadInv, ReadWhole, Reading, Entry, TableEntry
<1>2. AnsweredPublished' /\ StartsOk'
  BY <1>1, AnswerStands
<1>3. CASE ~Verifying'
  BY <1>2, <1>3, NothingVerified
<1>4. CASE Verifying'
  <2>1. Verifying /\ call.op = "entry" /\ call.verify
    BY <1>1, <1>4 DEF Verifying
  <2>2. StartsOk
    BY DEF VerifyInv
  <2>3. /\ pkg \in Package /\ Entry.start \in Nat /\ Entry.size \in Nat
    BY <1>1, <2>1, <2>2, VerifiedEntry
  <2>4. PICK e, r, rr : e = Entry /\ r = read /\ rr = read'
    OBVIOUS
  <2>5. PICK k \in Nat : CopyOk(e, r, k)
    BY <1>1, <2>1, <2>4 DEF VerifyInv, CopiedPublished
  <2>6. DOMAIN r = {"block", "steps", "blocks", "units", "code"}
    BY <1>1, <2>4 DEF ReadShape
  <2>7. e.start \in Nat /\ e.size \in Nat /\ IsList(r.units) /\ Len(r.units) =< e.size
    BY <1>1, <2>3, <2>4
  <2>. DEFINE block == Head(r.blocks)
              Done == r.blocks = << >> \/ Len(r.units) >= e.size
  <2>8. CASE Done
    <3>1. phase' = "deliver" /\ rr = [r EXCEPT !.code = EndOfBlocks]
      BY <2>4, <2>8 DEF CopyBlock
    <3>2. rr.units = r.units /\ rr.code = EndOfBlocks
      BY <3>1, <2>6, Zenon
    <3>3. ASSUME rr.code = "ok" PROVE IsPublished(e, r.units)
      <4>1. ~(Len(r.units) < e.size)
        BY <2>4, <3>2, <3>3 DEF EndOfBlocks
      <4>2. Len(r.units) = e.size
        <5>1. Len(r.units) \in Nat
          BY <2>7, LenProperties DEF IsList
        <5>. QED BY <2>7, <4>1, <5>1
      <4>. QED BY <2>3, <2>5, <2>7, <4>2, CompleteIsPublished
    <3>4. rr.code = "ok" => IsPublished(e, rr.units)'
      BY <3>2, <3>3, <1>1, SamePackage
    <3>5. read'.code = "ok" => IsPublished(Entry, read.units)'
      BY <3>4, <1>1, <2>4
    <3>. QED BY <1>2, <3>1, <3>5 DEF VerifyInv, WalkedLinks, CopiedPublished, DeliversPublished
  <2>9. CASE ~Done /\ CopyError(block) # "ok"
    <3>1. phase' = "deliver" /\ rr = [r EXCEPT !.code = CopyError(block)]
      BY <2>4, <2>9 DEF CopyBlock
    <3>2. rr.code = CopyError(block)
      BY <3>1, <2>6, Zenon
    <3>3. rr.code # "ok"
      BY <2>9, <3>2
    <3>. QED BY <1>2, <2>4, <3>1, <3>3 DEF VerifyInv, WalkedLinks, CopiedPublished, DeliversPublished
  <2>10. CASE ~Done /\ CopyError(block) = "ok"
    <3>1. /\ phase' = "copy"
          /\ rr = [r EXCEPT
                     !.units  = @ \o SubSeq(UnitsAt(DataBlock(block)), 1, Wanted(e.size, Len(r.units))),
                     !.blocks = Tail(@)]
      BY <2>4, <2>10, Zenon DEF CopyBlock, Wanted
    <3>2. CopiedOn(e, r, rr)
      <4>1. VerifyDataBlock(block) = "ok"
        BY <2>1, <2>10, Zenon DEF CopyError
      <4>2. r.blocks # << >> /\ Len(r.units) < e.size
        <5>1. Len(r.units) \in Nat
          BY <2>7, LenProperties DEF IsList
        <5>. QED BY <2>7, <2>10, <5>1
      <4>3. /\ rr.blocks = Tail(r.blocks)
            /\ rr.units = r.units \o SubSeq(UnitsAt(DataBlock(block)), 1, Wanted(e.size, Len(r.units)))
        <5>. DEFINE more == r.units \o SubSeq(UnitsAt(DataBlock(block)), 1, Wanted(e.size, Len(r.units)))
                    rest == Tail(r.blocks)
        <5>1. rr = [r EXCEPT !.units = more, !.blocks = rest]
          BY <3>1
        <5>. HIDE DEF more, rest
        <5>2. rr.units = more /\ rr.blocks = rest
          BY <5>1, <2>6
        <5>. QED BY <5>2 DEF more, rest
      <4>. QED BY <4>1, <4>2, <4>3, Zenon DEF CopiedOn
    <3>3. CopyOk(e, rr, k + 1) /\ k + 1 \in Nat
      BY <2>3, <2>5, <2>7, <3>2, BlockCopied
    <3>4. CopyOk(e, rr, k + 1)'
      BY <3>3, <1>1, SamePackage
    <3>5. CopyOk(Entry, read, k + 1)'
      BY <3>4, <2>4, <1>1
    <3>6. CopiedPublished'
      BY <3>3, <3>5 DEF CopiedPublished
    <3>. QED BY <1>2, <3>1, <3>6 DEF VerifyInv, WalkedLinks, DeliversPublished
  <2>. HIDE DEF Done, block
  <2>. QED BY <2>8, <2>9, <2>10
<1>. QED BY <1>3, <1>4

\* A reading that begins.
LEMMA BegunVerify ==
  ASSUME ReadInv, VerifyInv, UNCHANGED <<pkg, entries>>, answer'.op = "none",
         at' + 1 \in DOMAIN entries, call'.op = "entry", ReadFrom(entries[at' + 1])
  PROVE  VerifyInv'
<1>1. PICK e, rr : e = entries[at' + 1] /\ rr = read'
  OBVIOUS
<1>2. Entry' = e
  BY <1>1 DEF Entry
<1>3. e.start \in Nat /\ e.size \in Nat
  BY <1>1 DEF VerifyInv, StartsOk, ReadInv, ListingOk
<1>4. AnsweredPublished' /\ StartsOk'
  BY DEF AnsweredPublished, StartsOk, VerifyInv
<1>5. /\ NoRead.units = << >> /\ NoRead.code = "ok" /\ NoRead.steps = 0
      /\ DOMAIN NoRead = {"block", "steps", "blocks", "units", "code"}
  BY DEF NoRead
<1>. HIDE DEF NoRead
<1>6. Len(<< >>) = 0 /\ 0 * PerTable = 0 /\ PerTable \in Nat
  BY PerTableAssumption
<1>7. CASE e.size = 0
  <2>1. phase' = "deliver" /\ rr.units = << >>
    BY <1>1, <1>5, <1>7 DEF ReadFrom
  <2>2. Published(pkg.shape, e) = << >>
    BY <1>7 DEF Published
  <2>3. IsPublished(e, rr.units)
    BY <2>1, <2>2 DEF IsPublished
  <2>4. IsPublished(e, rr.units)'
    BY <2>3, SamePackage
  <2>5. IsPublished(Entry, read.units)'
    BY <2>4, <1>1, <1>2
  <2>. QED BY <1>4, <2>1, <2>5 DEF VerifyInv, WalkedLinks, CopiedPublished, DeliversPublished
<1>8. CASE e.size # 0 /\ ~e.consecutive
  <2>1. phase' = "walk" /\ rr = [NoRead EXCEPT !.block = e.start]
    BY <1>1, <1>8 DEF ReadFrom
  <2>2. rr.units = << >> /\ rr.steps = 0 /\ rr.block = e.start
    BY <1>5, <2>1
  <2>3. BlockOf(e, 0 + 1) = e.start
    BY <1>8, LinksOfChain DEF BlockOf
  <2>4. WalkOk(e, rr)
    BY <1>8, <2>2, <2>3 DEF WalkOk
  <2>5. WalkOk(e, rr)'
    BY <2>4, SamePackage
  <2>6. WalkOk(Entry, read)' /\ read'.units = << >>
    BY <2>2, <2>5, <1>1, <1>2
  <2>. QED BY <1>4, <2>1, <2>6 DEF VerifyInv, WalkedLinks, CopiedPublished, DeliversPublished
<1>9. CASE e.size # 0 /\ e.consecutive /\ ConsecutiveError(e) # "ok"
  <2>. DEFINE code == ConsecutiveError(e)
  <2>1. phase' = "deliver" /\ rr = [NoRead EXCEPT !.code = code]
    BY <1>1, <1>9 DEF ReadFrom
  <2>2. code # "ok"
    BY <1>9
  <2>. HIDE DEF code
  <2>3. rr.code # "ok"
    BY <1>5, <2>1, <2>2
  <2>. QED BY <1>1, <1>4, <2>1, <2>3 DEF VerifyInv, WalkedLinks, CopiedPublished, DeliversPublished
<1>10. CASE e.size # 0 /\ e.consecutive /\ ConsecutiveError(e) = "ok"
  <2>1. phase' = "copy" /\ rr = [NoRead EXCEPT !.blocks = Consecutive(e)]
    BY <1>1, <1>10 DEF ReadFrom
  <2>2. rr.units = << >> /\ rr.blocks = Consecutive(e)
    BY <1>5, <2>1, Zenon
  <2>3. Ceiling(e.size) \in Nat
    BY <1>3, CeilingBounds
  <2>4. IsList(rr.blocks) /\ Len(rr.blocks) = Ceiling(e.size)
    <3>. DEFINE n == Ceiling(e.size)
                c == [i \in 1 .. n |-> e.start + i - 1]
    <3>1. rr.blocks = c /\ n \in Nat
      BY <2>2, <2>3 DEF Consecutive
    <3>. HIDE DEF n
    <3>2. c \in Seq(Int) /\ Len(c) = n
      BY <1>3, <3>1
    <3>. QED BY <3>1, <3>2, Zenon DEF IsList, n
  <2>5. \A j \in 1 .. Ceiling(e.size) : rr.blocks[j] = BlockOf(e, 0 + j)
    <3>1. \A j \in 1 .. Ceiling(e.size) : rr.blocks[j] = e.start + j - 1
      BY <2>2 DEF Consecutive
    <3>2. \A j \in 1 .. Ceiling(e.size) : 0 + j = j
      BY <2>3
    <3>. QED BY <1>10, <3>1, <3>2, Zenon DEF BlockOf
  <2>6. CopyOk(e, rr, 0)
    <3>1. Len(rr.units) = Held(0 * PerTable, e.size)
      BY <1>3, <1>6, <1>10, <2>2 DEF Held
    <3>2. \A i \in 1 .. 0 : IsVerified(e, i)
      OBVIOUS
    <3>3. Len(rr.units) = 0
      BY <1>6, <2>2
    <3>. QED BY <1>10, <2>4, <2>5, <3>1, <3>2, <3>3 DEF CopyOk
  <2>7. CopyOk(e, rr, 0)'
    BY <2>6, SamePackage
  <2>8. CopyOk(Entry, read, 0)'
    BY <2>7, <1>1, <1>2
  <2>. QED BY <1>4, <2>1, <2>8 DEF VerifyInv, WalkedLinks, CopiedPublished, DeliversPublished
<1>. QED BY <1>7, <1>8, <1>9, <1>10

\* A call that ends answers for itself; only a single entry can be verified.
LEMMA EndedAnswer ==
  ASSUME NEW code, Ended(code), UNCHANGED <<pkg, entries>>, VerifyInv,
         call.op = "entry" /\ call.verify /\ code = "ok" => IsPublished(entries[at + 1], read.units)
  PROVE  VerifyInv'
<1>1. /\ answer'.op = call.op /\ answer'.code = code /\ answer'.verify = call.verify
      /\ answer'.at = at /\ answer'.units = read.units
      /\ phase' = "idle"
  BY DEF Ended
<1>2. ~Verifying'
  BY <1>1 DEF Verifying, Reading
<1>3. StartsOk'
  BY DEF VerifyInv, StartsOk
<1>4. AnsweredPublished'
  BY <1>1, Zenon DEF AnsweredPublished, IsPublished
<1>. QED BY <1>2, <1>3, <1>4, NothingVerified

LEMMA NextEntryKeepsVerify == ReadInv /\ VerifyInv /\ NextEntry => VerifyInv'
<1>. SUFFICES ASSUME ReadInv, VerifyInv, NextEntry PROVE VerifyInv'
  OBVIOUS
<1>1. UNCHANGED <<pkg, entries>> /\ call.op # "entry"
  BY DEF NextEntry, ReadInv, CallOk
<1>2. ASSUME NEW code, Ended(code) PROVE VerifyInv'
  BY <1>1, <1>2, EndedAnswer
<1>3. ASSUME UNCHANGED <<call, answer>> PROVE VerifyInv'
  <2>1. ~Verifying'
    BY <1>1, <1>3 DEF Verifying
  <2>. QED BY <1>1, <1>3, <2>1, AnswerStands, NothingVerified
<1>4. (\E code : Ended(code)) \/ UNCHANGED <<call, answer>>
  BY Zenon DEF NextEntry
<1>. QED BY <1>2, <1>3, <1>4

LEMMA DeliverKeepsVerify == ReadInv /\ VerifyInv /\ Deliver => VerifyInv'
<1>. SUFFICES ASSUME ReadInv, VerifyInv, Deliver PROVE VerifyInv'
  OBVIOUS
<1>1. phase = "deliver" /\ pkg' = pkg /\ pkg \in Package /\ Reading
  BY DEF Deliver, ReadInv, ListingOk, Reading
<1>2. CASE OpenDelivered
  <2>1. PICK code : Ended(code)
    BY <1>2, Zenon DEF OpenDelivered
  <2>2. call.op = "open" /\ entries' \in {entries, Listed(read.units)}
    BY <1>2 DEF OpenDelivered
  <2>3. answer'.op = "open" /\ phase' = "idle"
    BY <2>1, <2>2 DEF Ended
  <2>4. StartsOk'
    <3>1. \A x : EntryIn(x).start \in Nat
      BY <1>1, PackageAssumption DEF EntryIn, NoEntry
    <3>2. \A i \in DOMAIN Listed(read.units) : Listed(read.units)[i].start \in Nat
      BY <3>1 DEF Listed
    <3>. QED BY <2>2, <3>2 DEF VerifyInv, StartsOk
  <2>5. ~Verifying' /\ AnsweredPublished'
    BY <2>3 DEF Verifying, Reading, AnsweredPublished
  <2>. QED BY <2>4, <2>5, NothingVerified
<1>3. CASE FileDelivered
  <2>1. Ended(read.code) /\ UNCHANGED entries
    BY <1>3 DEF FileDelivered
  <2>2. ASSUME call.op = "entry", call.verify, read.code = "ok"
        PROVE  IsPublished(entries[at + 1], read.units)
    <3>1. Entry = entries[at + 1]
      BY <2>2 DEF Entry
    <3>2. Verifying
      BY <1>1, <2>2 DEF Verifying
    <3>. QED BY <1>1, <2>2, <3>1, <3>2 DEF VerifyInv, DeliversPublished
  <2>. QED BY <1>1, <2>1, <2>2, EndedAnswer
<1>4. CASE MemoryDelivered \/ DiskDelivered
  <2>1. call.op # "entry" /\ UNCHANGED entries
    BY <1>4 DEF MemoryDelivered, DiskDelivered
  <2>2. (\E code : Ended(code)) \/ UNCHANGED <<call, answer>>
    BY <1>4, Zenon DEF MemoryDelivered, DiskDelivered
  <2>3. ASSUME NEW code, Ended(code) PROVE VerifyInv'
    BY <1>1, <2>1, <2>3, EndedAnswer
  <2>4. ASSUME UNCHANGED <<call, answer>> PROVE VerifyInv'
    <3>1. ~Verifying'
      BY <2>1, <2>4 DEF Verifying
    <3>. QED BY <1>1, <2>1, <2>4, <3>1, AnswerStands, NothingVerified
  <2>. QED BY <2>2, <2>3, <2>4
<1>. QED BY <1>2, <1>3, <1>4 DEF Deliver

\* A call that begins has no answer yet, and one that is refused no verified
\* one; only extract verifies a single entry.
LEMMA AskKeepsVerify == ReadInv /\ VerifyInv /\ Ask => VerifyInv'
<1>. SUFFICES ASSUME ReadInv, VerifyInv, Ask PROVE VerifyInv'
  OBVIOUS
<1>1. ASSUME NEW op, op # "entry", NEW code, Refused(op, code), phase = "idle" PROVE VerifyInv'
  <2>1. UNCHANGED <<pkg, entries, phase>> /\ answer'.op = op
    BY <1>1 DEF Refused, NoAnswer
  <2>2. ~Verifying' /\ StartsOk' /\ AnsweredPublished'
    BY <1>1, <2>1 DEF Verifying, Reading, VerifyInv, StartsOk, AnsweredPublished
  <2>. QED BY <2>2, NothingVerified
<1>2. ASSUME NEW op, op # "entry", NEW verify, NEW without, Calls(op, verify, without),
             UNCHANGED <<pkg, entries>>
      PROVE VerifyInv'
  <2>1. call'.op = op /\ answer'.op = "none"
    BY <1>2 DEF Calls, NoAnswer
  <2>2. ~Verifying' /\ StartsOk' /\ AnsweredPublished'
    BY <1>2, <2>1 DEF Verifying, VerifyInv, StartsOk, AnsweredPublished
  <2>. QED BY <2>2, NothingVerified
<1>3. CASE Open
  <2>1. \/ Refused("open", HeaderError) /\ phase = "idle"
        \/ Calls("open", FALSE, {}) /\ UNCHANGED <<pkg, entries>>
    BY <1>3, Zenon DEF Open
  <2>. QED BY <1>1, <1>2, <2>1
<1>4. ASSUME NEW i \in DOMAIN entries, NEW verify, Extract(i - 1, verify) PROVE VerifyInv'
  <2>1. i \in Nat
    BY LenProperties DEF ReadInv, ListingOk, IsList
  <2>2. at' = i - 1 /\ ReadFrom(entries[(i - 1) + 1])
    BY <1>4 DEF Extract
  <2>3. at' + 1 = i /\ (i - 1) + 1 = i
    BY <2>1, <2>2
  <2>4. ReadFrom(entries[at' + 1])
    BY <2>2, <2>3
  <2>5. UNCHANGED <<pkg, entries>> /\ call'.op = "entry" /\ answer'.op = "none"
    BY <1>4 DEF Extract, Calls, NoAnswer
  <2>. QED BY <2>3, <2>4, <2>5, BegunVerify
<1>5. ASSUME NEW key, ExtractFileByName(key) PROVE VerifyInv'
  <2>1. \/ Refused("name", "NotFound") /\ phase = "idle"
        \/ Calls("name", FALSE, {}) /\ UNCHANGED <<pkg, entries>>
    BY <1>5, Zenon DEF ExtractFileByName
  <2>. QED BY <1>1, <1>2, <2>1
<1>6. ASSUME NEW without, ExtractToMemory(without) PROVE VerifyInv'
  <2>1. Calls("memory", FALSE, without) /\ UNCHANGED <<pkg, entries>>
    BY <1>6 DEF ExtractToMemory
  <2>. QED BY <1>2, <2>1
<1>7. ASSUME NEW verify, ExtractAll(verify) PROVE VerifyInv'
  <2>1. \/ \E code : Refused("all", code) /\ phase = "idle"
        \/ Calls("all", verify, {}) /\ UNCHANGED <<pkg, entries>>
    BY <1>7, Zenon DEF ExtractAll
  <2>. QED BY <1>1, <1>2, <2>1
<1>. QED BY <1>3, <1>4, <1>5, <1>6, <1>7, Zenon DEF Ask

LEMMA NextKeepsVerify == ReadInv /\ VerifyInv /\ [Next]_vars => VerifyInv'
<1>. SUFFICES ASSUME ReadInv, VerifyInv, [Next]_vars PROVE VerifyInv'
  OBVIOUS
<1>1. CASE UNCHANGED vars
  <2>1. UNCHANGED <<pkg, entries, call, phase, at, read, answer>>
    BY <1>1 DEF vars
  <2>2. AnsweredPublished' /\ StartsOk' /\ (Verifying' <=> Verifying) /\ Entry' = Entry
    BY <2>1, AnswerStands DEF Verifying, Reading, Entry, TableEntry
  <2>3. PICK e, r : e = Entry /\ r = read
    OBVIOUS
  <2>4. /\ WalkOk(e, r) => WalkOk(e, r)'
        /\ \A k : CopyOk(e, r, k) => CopyOk(e, r, k)'
        /\ IsPublished(e, r.units) => IsPublished(e, r.units)'
    BY <2>1, SamePackage
  <2>5. WalkedLinks'
    <3>1. Verifying /\ phase = "walk" => r.units = << >> /\ WalkOk(e, r)'
      BY <2>3, <2>4 DEF VerifyInv, WalkedLinks
    <3>2. Verifying /\ phase = "walk" => read'.units = << >> /\ WalkOk(Entry, read)'
      BY <2>1, <2>2, <2>3, <3>1
    <3>. QED BY <2>1, <2>2, <3>2 DEF WalkedLinks
  <2>6. CopiedPublished'
    <3>1. Verifying /\ phase = "copy" => \E k \in Nat : CopyOk(e, r, k)'
      BY <2>3, <2>4 DEF VerifyInv, CopiedPublished
    <3>2. Verifying /\ phase = "copy" => \E k \in Nat : CopyOk(Entry, read, k)'
      BY <2>1, <2>2, <2>3, <3>1
    <3>. QED BY <2>1, <2>2, <3>2 DEF CopiedPublished
  <2>7. DeliversPublished'
    <3>1. Verifying /\ phase = "deliver" /\ read.code = "ok" => IsPublished(e, r.units)'
      BY <2>3, <2>4 DEF VerifyInv, DeliversPublished
    <3>2. Verifying /\ phase = "deliver" /\ read.code = "ok" => IsPublished(Entry, read.units)'
      BY <2>1, <2>2, <2>3, <3>1
    <3>. QED BY <2>1, <2>2, <3>2 DEF DeliversPublished
  <2>. QED BY <2>2, <2>5, <2>6, <2>7 DEF VerifyInv
<1>2. CASE Step
  BY <1>2, FollowKeepsVerify, CopyKeepsVerify, NextEntryKeepsVerify, DeliverKeepsVerify DEF Step
<1>3. CASE Ask
  BY <1>3, AskKeepsVerify
<1>. QED BY <1>1, <1>2, <1>3 DEF Next

\* VerifiedIsPublished: an entry the publisher listed that extract hands out
\* verified is the published one, whatever was damaged.
THEOREM VerifiedAsPublished == Spec => []VerifiedIsPublished
<1>1. Init => ReadInv /\ VerifyInv
  <2>. SUFFICES ASSUME Init PROVE ReadInv /\ VerifyInv
    OBVIOUS
  <2>1. ReadInv
    <3>1. IsList(<< >>) /\ DOMAIN << >> = {}
      BY EmptySeq DEF IsList
    <3>. QED BY <3>1 DEF Init, ReadInv, ListingOk, ReadShape, CallOk, AtEntry, ReadWhole, Reading,
                         NoCall, NoRead
  <2>2. VerifyInv
    BY DEF Init, VerifyInv, StartsOk, WalkedLinks, CopiedPublished, DeliversPublished,
           AnsweredPublished, Verifying, Reading, NoAnswer
  <2>. QED BY <2>1, <2>2
<1>2. ReadInv /\ VerifyInv /\ [Next]_vars => (ReadInv /\ VerifyInv)'
  BY NextKeepsRead, NextKeepsVerify
<1>3. ReadInv /\ VerifyInv => VerifiedIsPublished
  <2>. SUFFICES ASSUME ReadInv, VerifyInv, answer.op = "entry", answer.verify, answer.code = "ok",
                       NEW u \in DOMAIN Shape[pkg.shape].listing,
                       Shape[pkg.shape].listing[u] = entries[answer.at + 1]
                PROVE  answer.units = PublishedEntry(answer.at + 1)
    BY Zenon DEF VerifiedIsPublished
  <2>1. pkg.shape \in DOMAIN Shape
    BY PackageAssumption DEF ReadInv, ListingOk
  <2>2. entries[answer.at + 1].dir => entries[answer.at + 1].size = 0
    BY <2>1, PackageAssumption, Zenon
  <2>3. IsPublished(entries[answer.at + 1], answer.units)
    BY DEF VerifyInv, AnsweredPublished
  <2>. QED BY <2>2, <2>3 DEF IsPublished, PublishedEntry
<1>. QED BY <1>1, <1>2, <1>3, PTL DEF Spec

-----------------------------------------------------------------------------
(***************************************************************************)
(* An undamaged package reads back as published.  Each block and table the *)
(* reader looks for is there (IntactAt), so every check passes and every   *)
(* link is the published one (IntactBlock); a chain has gone through the   *)
(* file's blocks when it comes to its end, and no sooner (IntactBlocks).   *)
(* So the reading of an entry never fails: on the walk it is at a block of *)
(* the file or behind the last, in the copy the blocks copied and those    *)
(* ahead are all of the file's (ReadingOk).  The files in memory are those *)
(* of the entries passed, the first of each name (MemoryHeld), and on disk *)
(* the path of each file passed holds it or a later one (DiskHeld).        *)
(***************************************************************************)

LEMMA Quantities ==
  /\ HeaderBlocks \in Nat /\ MaxBlock \in Nat
  /\ pkg \in Package => pkg.shape \in DOMAIN Shape /\ pkg.length \in Nat
<1>1. HeaderBlocks \in Nat /\ MaxBlock \in Nat
  BY PackageAssumption, Zenon
<1>2. pkg \in Package => pkg.shape \in DOMAIN Shape /\ pkg.length \in Nat
  BY PackageAssumption, Zenon
<1>. QED BY <1>1, <1>2

\* What lies in an undamaged package passes the check of its block.
LEMMA IntactAt ==
  ASSUME pkg \in Package, Intact, NEW position \in Nat, NEW x,
         Has(Image[pkg.shape], position, x)
  PROVE  /\ BlockHashError(position, x) = "ok" /\ BlockAt(position) = x
         /\ position =< MaxBlock /\ Inside(Offset(position), PerTable)
<1>. DEFINE n == Len(Image[pkg.shape])
<1>0. /\ pkg.shape \in DOMAIN Shape /\ HeaderBlocks \in Nat /\ MaxBlock \in Nat
      /\ PerTable \in Nat
  BY Quantities, PerTableAssumption
<1>1. IsList(Image[pkg.shape])
  BY <1>0, ImageLaid DEF Laid
<1>2. n \in Nat /\ position + 1 \in 1 .. n /\ n =< MaxBlock + 1
  <2>1. n \in Nat /\ DOMAIN Image[pkg.shape] = 1 .. n
    BY <1>1, LenProperties DEF IsList
  <2>. HIDE DEF n
  <2>2. position + 1 \in 1 .. n
    BY <2>1 DEF Has
  <2>. QED BY <1>0, <2>1, <2>2, PublisherAssumption DEF n
<1>3. BlockAt(position) = x
  BY DEF BlockAt, Has
<1>4. Sound(position)
  BY DEF Sound, Intact
<1>5. pkg.length = (HeaderBlocks + n) * PerTable
  BY DEF Intact, FullLength
<1>. HIDE DEF n
<1>6. position =< MaxBlock
  BY <1>0, <1>2
<1>7. Inside(Offset(position), PerTable)
  <2>1. PICK j \in Nat : n = position + 1 + j
    <3>1. n - position - 1 \in Nat /\ n = position + 1 + (n - position - 1)
      BY <1>2
    <3>. QED BY <3>1
  <2>. DEFINE a == HeaderBlocks + position
              ap == a * PerTable
              jp == j * PerTable
  <2>2. a \in Nat /\ HeaderBlocks + n = a + 1 + j
    BY <1>0, <2>1
  <2>. HIDE DEF a
  <2>3. (a + 1 + j) * PerTable = ap + PerTable + jp /\ ap \in Nat /\ jp \in Nat
    BY <1>0, <2>2
  <2>4. pkg.length = ap + PerTable + jp /\ ap \in Nat /\ jp \in Nat
    BY <1>5, <2>2, <2>3
  <2>5. Offset(position) = ap
    BY DEF Offset, a
  <2>. HIDE DEF ap, jp
  <2>6. ap + PerTable =< ap + PerTable + jp
    BY <1>0, <2>4
  <2>. QED BY <2>4, <2>5, <2>6, Zenon DEF Inside
<1>8. ~(position > MaxBlock)
  BY <1>0, <1>6
<1>9. BlockHashError(position, x) = "ok"
  <2>. DEFINE inside == Inside(Offset(position), PerTable)
              there == BlockAt(position) = x
              above == position > MaxBlock
  <2>1. inside /\ there /\ Sound(position) /\ ~above
    BY <1>3, <1>4, <1>7, <1>8
  <2>2. BlockHashError(position, x) =
          IF above \/ ~inside THEN "OutOfRange"
          ELSE IF ~Sound(position) \/ ~there THEN "HashMismatch" ELSE "ok"
    BY DEF BlockHashError
  <2>. HIDE DEF inside, there, above
  <2>. QED BY <2>1, <2>2
<1>. QED BY <1>3, <1>6, <1>7, <1>9

\* The digest each table of a block is expected to have, from the top one down.
LEMMA ExpectedTables ==
  ASSUME NEW s \in DOMAIN Shape, NEW b \in 0 .. Shape[s].total - 1,
         NEW top, top = TopLevel(Shape[s].total)
  PROVE  /\ top = 0 => Group(b) = 0
         /\ top = 1 => Super(b) = 0
         /\ Covered(Table(2, 0), Record(b, 2)) = Table(1, Super(b))
         /\ Covered(Table(1, Super(b)), Record(b, 1)) = Table(0, Group(b))
         /\ Covered(Table(0, Group(b)), Record(b, 0)) = Block(b)
<1>1. b \in 0 .. PerLevel2 - 1 /\ b < Shape[s].total /\ Shape[s].total \in Nat
  BY TotalNat
<1>2. /\ Group(b) \in Nat /\ Super(b) \in 0 .. P - 1 /\ InSuper(b) \in 0 .. P - 1
      /\ Group(b) = Super(b) * P + InSuper(b)
      /\ (b < PerLevel0) <=> (Group(b) = 0)
      /\ (b < PerLevel1) <=> (Super(b) = 0)
  BY <1>1, Coordinates
<1>3. top = 0 => Group(b) = 0
  BY <1>1, <1>2, TotalNat DEF TopLevel
<1>4. top = 1 => Super(b) = 0
  BY <1>1, <1>2, TotalNat DEF TopLevel
<1>5. Record(b, 2) = Super(b)
  <2>1. Record(b, 2) = Super(b) % P
    BY PNat DEF Record, Super
  <2>. DEFINE x == Super(b)
  <2>2. x \in Nat /\ x < P /\ x = 0 * P + x
    BY <1>2, PNat
  <2>. HIDE DEF x
  <2>3. x % P = x
    BY <2>2, PNat, DivUnique
  <2>. QED BY <2>1, <2>3 DEF x
<1>6. Record(b, 1) = InSuper(b)
  BY DEF Record, InSuper, Group
<1>7. Covered(Table(2, 0), Record(b, 2)) = Table(1, Super(b))
  <2>1. Covered(Table(2, 0), Record(b, 2)) = Table(1, 0 * PerTable + Super(b))
    BY <1>5 DEF Covered, Table
  <2>2. 0 * PerTable + Super(b) = Super(b)
    BY <1>2, PNat DEF P
  <2>. QED BY <2>1, <2>2
<1>8. Covered(Table(1, Super(b)), Record(b, 1)) = Table(0, Group(b))
  BY <1>2, <1>6 DEF Covered, Table, P
<1>9. Covered(Table(0, Group(b)), Record(b, 0)) = Block(b)
  BY <1>1, CoordinatesOf DEF Covered, Table, Group
<1>. QED BY <1>3, <1>4, <1>7, <1>8, <1>9

\* A block of an undamaged package verifies.
LEMMA IntactVerifies ==
  ASSUME pkg \in Package, Intact, NEW b \in 0 .. Shape[pkg.shape].total - 1
  PROVE  VerifyDataBlock(b) = "ok"
<1>. DEFINE s == pkg.shape
            top == TopLevel(Shape[s].total)
            Exp(f) == f = [level \in 0 .. top |->
                             IF level = top THEN TopTable(s)
                             ELSE Covered(f[level + 1], Record(b, level + 1))]
            expected == CHOOSE f : Exp(f)
            error(level) == IF level >= 0 THEN BlockHashError(HashTable(b, level), expected[level])
                            ELSE BlockHashError(DataBlock(b), Covered(expected[0], Record(b, 0)))
            Chk(f) == f = [level \in -1 .. top + 1 |->
                             IF level > top THEN "ok"
                             ELSE IF f[level + 1] # "ok" THEN f[level + 1]
                             ELSE error(level)]
            checked == CHOOSE f : Chk(f)
            t0 == Table(0, Group(b))
            t1 == Table(1, Super(b))
            t2 == Table(2, 0)
            T(level) == IF level = 0 THEN t0 ELSE IF level = 1 THEN t1 ELSE t2
<1>. HIDE DEF t0, t1, t2
<1>8. Shape[s].total # 0 => VerifyDataBlock(b) = checked[-1]
  BY DEF VerifyDataBlock
<1>. USE DEF t0, t1, t2
<1>0. s \in DOMAIN Shape /\ top \in {0, 1, 2}
  BY PackageAssumption DEF TopLevel
<1>1. Shape[s].total # 0 /\ Shape[s].total \in Nat /\ b \in 0 .. PerLevel2 - 1
  BY <1>0, TotalNat
<1>2. TopTable(s) = Table(top, 0)
  BY <1>0, <1>1, TopIsTop
<1>3. /\ top = 0 => Group(b) = 0
      /\ top = 1 => Super(b) = 0
      /\ Covered(t2, Record(b, 2)) = t1
      /\ Covered(t1, Record(b, 1)) = t0
      /\ Covered(t0, Record(b, 0)) = Block(b)
  BY <1>0, ExpectedTables
<1>4. /\ BlockHashError(DataBlock(b), Block(b)) = "ok"
      /\ BlockHashError(HashTable(b, 0), t0) = "ok"
      /\ top >= 1 => BlockHashError(HashTable(b, 1), t1) = "ok"
      /\ top >= 2 => BlockHashError(HashTable(b, 2), t2) = "ok"
  <2>1. Laid(Image[s], Shape[s].total)
    BY <1>0, ImageLaid
  <2>2. /\ Has(Image[s], DataBlock(b), Block(b))
        /\ Has(Image[s], Level0Table(b), t0)
        /\ top >= 1 => Has(Image[s], Level1Table(b), t1)
        /\ top >= 2 => Has(Image[s], Level2Table, t2)
    <3>1. /\ top >= 1 => Shape[s].total > PerLevel0
          /\ top >= 2 => Shape[s].total > PerLevel1
      <4>1. top = 2 => Shape[s].total > PerLevel1
        BY <1>0 DEF TopLevel
      <4>2. top = 1 => Shape[s].total > PerLevel0
        BY <1>0 DEF TopLevel
      <4>3. PerLevel0 =< PerLevel1 /\ PerLevel0 \in Nat /\ PerLevel1 \in Nat
        <5>1. PICK j \in Nat : P = 1 + j
          <6>1. P - 1 \in Nat /\ P = 1 + (P - 1)
            BY PNat
          <6>. QED BY <6>1
        <5>2. P * P = P + j * P /\ j * P \in Nat
          BY <5>1, PNat
        <5>. QED BY <5>2, PNat
      <4>. HIDE DEF top
      <4>. QED BY <1>0, <1>1, <4>1, <4>2, <4>3
    <3>. HIDE DEF top, t0, t1, t2
    <3>. QED BY <2>1, <3>1 DEF Laid, t0, t1, t2
  <2>3. /\ DataBlock(b) \in Nat /\ Level0Table(b) \in Nat /\ Level1Table(b) \in Nat /\ Level2Table \in Nat
    <3>1. Level0Table(b) \in Nat /\ DataBlock(b) = Level0Table(b) + Place(b) + 1
      BY <1>1, BlockBehindTable
    <3>2. Place(b) \in Nat /\ Super(b) \in Nat
      BY <1>1, Coordinates, PNat
    <3>3. Step0 \in Nat /\ Step1 \in Nat
      BY PNat, TotalNat, <1>0 DEF Step0, Step1
    <3>4. Super(b) * Step1 \in Nat
      BY <3>2, <3>3
    <3>5. Level1Table(b) = IF Super(b) = 0 THEN Step0 ELSE Super(b) * Step1 + 1
      BY DEF Level1Table, Super
    <3>. QED BY <3>1, <3>2, <3>3, <3>4, <3>5 DEF Level2Table
  <2>4. HashTable(b, 0) = Level0Table(b) /\ HashTable(b, 1) = Level1Table(b) /\ HashTable(b, 2) = Level2Table
    BY DEF HashTable
  <2>. HIDE DEF top, t0, t1, t2
  <2>. QED BY <2>2, <2>3, <2>4, IntactAt
<1>. HIDE DEF t0, t1, t2, top
<1>5. \A level \in 0 .. top : expected[level] = T(level)
  <2>. DEFINE e == [level \in 0 .. top |-> T(level)]
  <2>0. top = 0 \/ top = 1 \/ top = 2
    BY <1>0
  <2>1. TopTable(s) = T(top)
    BY <1>2, <1>3, <2>0 DEF t0, t1, t2
  <2>2. \A level \in 0 .. top : T(level) = IF level = top THEN TopTable(s)
                                           ELSE Covered(T(level + 1), Record(b, level + 1))
    BY <2>0, <2>1, <1>3
  <2>3. Exp(e)
    <3>1. \A level \in 0 .. top : e[level] = T(level) /\ (level # top => e[level + 1] = T(level + 1))
      BY <2>0
    <3>2. \A level \in 0 .. top :
            e[level] = IF level = top THEN TopTable(s) ELSE Covered(e[level + 1], Record(b, level + 1))
      <4>. HIDE DEF e, T
      <4>. QED BY <2>2, <3>1
    <3>3. e = [level \in 0 .. top |-> e[level]]
      OBVIOUS
    <3>. HIDE DEF e, T
    <3>. QED BY <3>2, <3>3
  <2>4. Exp(expected)
    <3>. HIDE DEF Exp, e
    <3>. QED BY <2>3
  <2>5. \A level \in 0 .. top : expected[level] = IF level = top THEN TopTable(s)
                                ELSE Covered(expected[level + 1], Record(b, level + 1))
    <3>. HIDE DEF expected
    <3>. QED BY <2>4
  <2>. HIDE DEF expected, T
  <2>6. expected[top] = T(top)
    BY <2>0, <2>1, <2>5
  <2>7. \A level \in 0 .. top : level # top /\ expected[level + 1] = T(level + 1)
                                  => expected[level] = T(level)
    BY <2>2, <2>5
  <2>8. CASE top = 0
    BY <2>6, <2>8
  <2>9. CASE top = 1
    <3>1. expected[0] = T(0)
      <4>1. expected[0 + 1] = T(0 + 1)
        BY <2>6, <2>9
      <4>. QED BY <2>7, <2>9, <4>1
    <3>. QED BY <2>6, <2>9, <3>1
  <2>10. CASE top = 2
    <3>1. expected[1] = T(1)
      <4>1. expected[1 + 1] = T(1 + 1)
        BY <2>6, <2>10
      <4>. QED BY <2>7, <2>10, <4>1
    <3>2. expected[0] = T(0)
      <4>1. expected[0 + 1] = T(0 + 1)
        BY <3>1
      <4>. QED BY <2>7, <2>10, <4>1
    <3>. QED BY <2>6, <2>10, <3>1, <3>2
  <2>. QED BY <2>0, <2>8, <2>9, <2>10
<1>6. \A level \in -1 .. top : error(level) = "ok"
  <2>1. expected[0] = t0 /\ (top >= 1 => expected[1] = t1) /\ (top >= 2 => expected[2] = t2)
    <3>. HIDE DEF expected
    <3>. QED BY <1>0, <1>5
  <2>. HIDE DEF expected
  <2>2. error(-1) = "ok"
    BY <1>3, <1>4, <2>1
  <2>3. error(0) = "ok" /\ (top >= 1 => error(1) = "ok") /\ (top >= 2 => error(2) = "ok")
    BY <1>4, <2>1
  <2>. HIDE DEF error
  <2>4. \A level \in -1 .. top : \/ level = -1
                                 \/ level = 0
                                 \/ level = 1 /\ top >= 1
                                 \/ level = 2 /\ top >= 2
    BY <1>0
  <2>. QED BY <2>2, <2>3, <2>4
<1>. HIDE DEF error
<1>7. checked[-1] = "ok"
  <2>. DEFINE c == [level \in -1 .. top + 1 |-> "ok"]
  <2>1. Chk(c)
    <3>1. \A level \in -1 .. top + 1 :
            c[level] = IF level > top THEN "ok"
                       ELSE IF c[level + 1] # "ok" THEN c[level + 1] ELSE error(level)
      BY <1>0, <1>6
    <3>2. c = [level \in -1 .. top + 1 |-> c[level]]
      OBVIOUS
    <3>. HIDE DEF c
    <3>. QED BY <3>1, <3>2
  <2>2. Chk(checked)
    <3>. HIDE DEF Chk, c
    <3>. QED BY <2>1
  <2>. HIDE DEF checked
  <2>3. \A level \in -1 .. top + 1 : level > top => checked[level] = "ok"
    BY <2>2
  <2>4. \A level \in -1 .. top : checked[level + 1] = "ok" => checked[level] = "ok"
    BY <1>0, <1>6, <2>2
  <2>5. checked[top + 1] = "ok"
    BY <1>0, <2>3
  <2>6. checked[0] = "ok"
    <3>1. checked[top] = "ok"
      BY <1>0, <2>4, <2>5
    <3>2. top >= 1 => checked[(top - 1) + 1] = "ok" /\ top - 1 \in -1 .. top
      BY <1>0, <3>1
    <3>3. top >= 1 => checked[top - 1] = "ok"
      BY <2>4, <3>2
    <3>4. top = 2 => checked[1] = "ok" /\ checked[0 + 1] = "ok" /\ 0 \in -1 .. top
      BY <3>3
    <3>5. top = 2 => checked[0] = "ok"
      BY <2>4, <3>4
    <3>. QED BY <1>0, <3>1, <3>3, <3>5
  <2>7. checked[-1 + 1] = "ok" /\ -1 \in -1 .. top
    BY <1>0, <2>6
  <2>. QED BY <2>4, <2>7
<1>. QED
  <2>. HIDE DEF checked
  <2>. QED BY <1>1, <1>7, <1>8

\* Every block lies behind its own number.
LEMMA BlockIsBehind ==
  ASSUME NEW b \in 0 .. PerLevel2 - 1
  PROVE  b < DataBlock(b)
<1>. DEFINE d0 == (b + PerLevel0) \div PerLevel0
            d1 == (b + PerLevel1) \div PerLevel1
            d2 == (b + PerLevel2) \div PerLevel2
<1>1. d0 = Group(b) + 1 /\ d1 = Super(b) + 1 /\ d2 = 1 /\ Group(b) \in Nat /\ Super(b) \in Nat
  BY Coordinates, PNat
<1>2. DataBlock(b) = b + d0 \/ DataBlock(b) = b + d0 + d1 \/ DataBlock(b) = b + d0 + d1 + d2
  BY Zenon DEF DataBlock
<1>. HIDE DEF d0, d1, d2
<1>. QED BY <1>1, <1>2

\* The block of a number of an undamaged package is there, verifies, and goes
\* on where it was published to.
LEMMA IntactBlock ==
  ASSUME pkg \in Package, Intact, NEW b \in 0 .. Shape[pkg.shape].total - 1
  PROVE  /\ VerifyDataBlock(b) = "ok"
         /\ DataBlock(b) =< MaxBlock /\ Inside(Offset(DataBlock(b)), PerTable)
         /\ b < MaxBlock
         /\ HashEntry(b).code = "ok" /\ HashEntry(b).next = Shape[pkg.shape].next[b]
<1>. DEFINE s == pkg.shape
            q == Image[s]
<1>0. s \in DOMAIN Shape
  BY Quantities
<1>1. b \in 0 .. PerLevel2 - 1 /\ b \in Nat
  BY <1>0, TotalNat
<1>2. VerifyDataBlock(b) = "ok"
  BY IntactVerifies
<1>3. Has(q, DataBlock(b), Block(b)) /\ Has(q, Level0Table(b), Table(0, Group(b)))
  BY <1>0, ImageLaid DEF Laid
<1>4. /\ Level0Table(b) \in Nat /\ DataBlock(b) = Level0Table(b) + Place(b) + 1
      /\ Place(b) \in Nat /\ Place(b) < P /\ Record(b, 0) = Place(b)
      /\ DataBlock(b) \in Nat
  <2>1. Level0Table(b) \in Nat /\ DataBlock(b) = Level0Table(b) + Place(b) + 1
    BY <1>1, BlockBehindTable
  <2>2. Place(b) \in Nat /\ Place(b) < P /\ Record(b, 0) = Place(b)
    BY <1>1, Coordinates, CoordinatesOf, PNat
  <2>. QED BY <2>1, <2>2
<1>5. DataBlock(b) =< MaxBlock /\ Inside(Offset(DataBlock(b)), PerTable)
  BY <1>3, <1>4, IntactAt
<1>6. /\ BlockAt(Level0Table(b)) = Table(0, Group(b))
      /\ Level0Table(b) =< MaxBlock /\ Inside(Offset(Level0Table(b)), PerTable)
  BY <1>3, <1>4, IntactAt
<1>10. MaxBlock \in Nat /\ HeaderBlocks \in Nat
  BY Quantities
<1>7. b < DataBlock(b)
  BY <1>1, BlockIsBehind
<1>8. HashEntry(b).code = "ok" /\ HashEntry(b).next = Shape[s].next[b]
  <2>. DEFINE table   == BlockAt(Level0Table(b))
              covered == IF table.kind = "table" /\ table.level = 0
                         THEN Covered(table, Record(b, 0)).group ELSE Elsewhere
  <2>1. table.kind = "table" /\ table.level = 0
    BY <1>6 DEF Table
  <2>2. covered = b
    <3>1. (b \div PerLevel0) * PerTable + Record(b, 0) = b
      BY <1>1, CoordinatesOf
    <3>. QED BY <1>6, <2>1, <3>1 DEF Covered, Table, Block, Group
  <2>3. pkg.next = Shape[s].next /\ b \in DOMAIN pkg.next /\ b \in pkg.used
    BY <1>0, DamageAssumption, PublisherAssumption DEF Intact
  <2>4. Inside(RecordOffset(b, 0), 1)
    <3>1. HashTable(b, 0) = Level0Table(b)
      BY DEF HashTable
    <3>. DEFINE o == Offset(Level0Table(b))
    <3>2. RecordOffset(b, 0) = o + Place(b)
      BY <1>4, <3>1 DEF RecordOffset
    <3>3. o + PerTable =< pkg.length
      BY <1>6 DEF Inside
    <3>4. o \in Nat
      <4>1. HeaderBlocks + Level0Table(b) \in Nat
        BY <1>4, <1>10
      <4>. QED BY <4>1, PerTableAssumption DEF Offset
    <3>5. pkg.length \in Nat /\ PerTable \in Nat /\ P = PerTable
      BY Quantities, PerTableAssumption DEF P
    <3>. HIDE DEF o
    <3>6. o + Place(b) + 1 =< pkg.length
      BY <1>4, <3>3, <3>4, <3>5
    <3>. QED BY <3>2, <3>6 DEF Inside
  <2>5. ~(Level0Table(b) > MaxBlock)
    BY <1>4, <1>6, <1>10
  <2>6. HashEntry(b) = [code |-> "ok", next |-> pkg.next[covered]]
    <3>. DEFINE out == Level0Table(b) > MaxBlock \/ ~Inside(RecordOffset(b, 0), 1)
                bad == covered \notin DOMAIN pkg.next \/ covered \notin pkg.used
    <3>1. ~out /\ ~bad
      BY <2>2, <2>3, <2>4, <2>5
    <3>2. HashEntry(b) = IF out THEN [code |-> "OutOfRange", next |-> MaxBlock]
                         ELSE IF bad THEN [code |-> "Malformed", next |-> MaxBlock]
                         ELSE [code |-> "ok", next |-> pkg.next[covered]]
      BY DEF HashEntry
    <3>. HIDE DEF out, bad, covered
    <3>. QED BY <3>1, <3>2
  <2>. HIDE DEF covered
  <2>. QED BY <2>2, <2>3, <2>6
<1>9. b < MaxBlock
  BY <1>1, <1>4, <1>5, <1>7, <1>10
<1>. QED BY <1>2, <1>5, <1>8, <1>9

\* An undamaged package is long enough for all of its blocks.
LEMMA RoomForBlocks ==
  ASSUME pkg \in Package, Intact
  PROVE  /\ Shape[pkg.shape].total \in Nat /\ pkg.length \div PerTable \in Nat
         /\ Shape[pkg.shape].total =< pkg.length \div PerTable
<1>. DEFINE s == pkg.shape
            total == Shape[s].total
            n == Len(Image[s])
<1>0. s \in DOMAIN Shape /\ HeaderBlocks \in Nat /\ PerTable \in Nat /\ PerTable > 0
  BY Quantities, PerTableAssumption
<1>1. total \in Nat /\ n \in Nat
  <2>1. IsList(Image[s])
    BY <1>0, ImageLaid DEF Laid
  <2>. QED BY <1>0, <2>1, TotalNat, LenProperties DEF IsList
<1>2. total =< n
  <2>1. CASE total = 0
    BY <1>1, <2>1
  <2>2. CASE total # 0
    <3>. DEFINE b == total - 1
    <3>1. n = DataBlock(b) + 1
      BY <1>0, <2>2, ImageLaid DEF Laid
    <3>2. b \in 0 .. total - 1 /\ b \in 0 .. PerLevel2 - 1 /\ b \in Nat
      BY <1>0, <1>1, <2>2, TotalNat
    <3>3. /\ DataBlock(b) = Level0Table(b) + Place(b) + 1 /\ Level0Table(b) \in Nat /\ Place(b) \in Nat
      BY <3>2, BlockBehindTable, Coordinates, PNat
    <3>4. b < DataBlock(b)
      BY <3>2, BlockIsBehind
    <3>. HIDE DEF n
    <3>. QED BY <1>1, <3>1, <3>3, <3>4
  <2>. QED BY <2>1, <2>2
<1>3. pkg.length = (HeaderBlocks + n) * PerTable
  BY DEF Intact, FullLength
<1>. HIDE DEF n, total
<1>4. pkg.length \div PerTable = HeaderBlocks + n
  <2>. DEFINE a == HeaderBlocks + n
              l == pkg.length
  <2>1. a \in Nat /\ l = a * PerTable + 0
    <3>1. a \in Nat /\ l = a * PerTable
      BY <1>0, <1>1, <1>3
    <3>. HIDE DEF a, l
    <3>. QED BY <1>0, <3>1
  <2>2. l \in Nat
    BY <1>0, Quantities
  <2>. HIDE DEF a, l
  <2>3. l \div PerTable = a
    BY <1>0, <2>1, <2>2, DivUnique
  <2>. QED BY <2>3 DEF a, l
<1>. QED BY <1>0, <1>1, <1>2, <1>4 DEF total

\* The files of the package: those of its listing, and its file table.
Whole(e) ==
  /\ e.start \in Nat /\ e.size \in Nat /\ e.alloc \in Nat
  /\ e.dir => e.size = 0
  /\ WellLaid(pkg.shape, e)

\* The reader goes through the blocks the publisher laid a file in, each with a
\* record in use, and then comes to the end of the chain.
LEMMA IntactBlocks ==
  ASSUME pkg \in Package, Intact, NEW e, Whole(e), NEW n, n = Ceiling(e.size)
  PROVE  /\ n \in Nat
         /\ \A i \in 1 .. n : /\ BlockOf(e, i) = PublishedBlocks(pkg.shape, e)[i]
                              /\ BlockOf(e, i) \in 0 .. Shape[pkg.shape].total - 1
         /\ ~e.consecutive /\ e.size > 0 => n >= 1 /\ BlockOf(e, n + 1) = MaxBlock
<1>. DEFINE s == pkg.shape
            f == PublishedBlocks(s, e)
            S == {i \in Nat : i \in 1 .. n => f[i] = BlockOf(e, i)}
<1>0. n \in Nat /\ e.size \in Nat /\ e.start \in Nat
  BY CeilingBounds DEF Whole
<1>1. \A i \in 1 .. n : f[i] = IF i = 1 THEN e.start
                               ELSE IF e.consecutive THEN f[i - 1] + 1
                               ELSE Shape[s].next[f[i - 1]]
  BY <1>0, PublishedDef
<1>2. \A i \in 1 .. n : f[i] \in 0 .. Shape[s].total - 1
  BY DEF Whole, WellLaid
<1>3. \A b \in 0 .. Shape[s].total - 1 : HashEntry(b).next = Shape[s].next[b]
  BY IntactBlock
<1>. HIDE DEF f
<1>4. ~e.consecutive => \A i \in Nat : i >= 1 => BlockOf(e, i + 1) = HashEntry(BlockOf(e, i)).next
  <2>. SUFFICES ASSUME ~e.consecutive, NEW i \in Nat, i >= 1
                PROVE  BlockOf(e, i + 1) = HashEntry(BlockOf(e, i)).next
    OBVIOUS
  <2>. QED BY LinksOfChain DEF BlockOf
<1>5. 0 \in S
  OBVIOUS
<1>6. ASSUME NEW i \in Nat, i \in S PROVE i + 1 \in S
  <2>. SUFFICES ASSUME i + 1 \in 1 .. n PROVE f[i + 1] = BlockOf(e, i + 1)
    OBVIOUS
  <2>1. CASE i = 0
    <3>1. f[1] = e.start /\ BlockOf(e, 1) = e.start
      BY <1>0, <1>1, <2>1, LinksOfChain DEF BlockOf
    <3>. QED BY <2>1, <3>1
  <2>2. CASE i # 0
    <3>1. i \in 1 .. n /\ i >= 1 /\ i + 1 # 1 /\ (i + 1) - 1 = i
      BY <1>0, <2>2
    <3>2. f[i] = BlockOf(e, i)
      BY <1>6, <3>1
    <3>3. f[i + 1] = IF e.consecutive THEN f[i] + 1 ELSE Shape[s].next[f[i]]
      BY <1>1, <3>1
    <3>4. CASE e.consecutive
      <4>1. BlockOf(e, i) = e.start + i - 1 /\ BlockOf(e, i + 1) = e.start + (i + 1) - 1
        BY <3>4 DEF BlockOf
      <4>. QED BY <1>0, <3>2, <3>3, <3>4, <4>1
    <3>5. CASE ~e.consecutive
      <4>1. BlockOf(e, i + 1) = HashEntry(f[i]).next
        BY <1>4, <3>1, <3>2, <3>5
      <4>2. HashEntry(f[i]).next = Shape[s].next[f[i]]
        BY <1>2, <1>3, <3>1
      <4>. QED BY <3>3, <3>5, <4>1, <4>2
    <3>. QED BY <3>4, <3>5
  <2>. QED BY <2>1, <2>2
<1>7. Nat \subseteq S
  <2>. HIDE DEF S
  <2>. QED BY <1>5, <1>6, NatInductionOnSets
<1>8. \A i \in 1 .. n : BlockOf(e, i) = f[i]
  BY <1>7
<1>9. ASSUME ~e.consecutive, e.size > 0 PROVE n >= 1 /\ BlockOf(e, n + 1) = MaxBlock
  <2>1. n >= 1
    <3>1. 0 * PerTable < e.size
      BY <1>9, PerTableAssumption
    <3>2. 0 + 1 =< Ceiling(e.size)
      BY <1>0, <3>1, CeilingBounds
    <3>. QED BY <1>0, <3>2
  <2>2. n \in 1 .. n
    BY <1>0, <2>1
  <2>3. Shape[s].next[f[n]] = MaxBlock
    BY <1>9 DEF Whole, WellLaid, f
  <2>4. BlockOf(e, n + 1) = HashEntry(f[n]).next
    BY <1>0, <1>4, <1>8, <1>9, <2>1, <2>2
  <2>5. HashEntry(f[n]).next = Shape[s].next[f[n]]
    BY <1>2, <1>3, <2>2
  <2>. QED BY <2>1, <2>3, <2>4, <2>5
<1>. QED BY <1>0, <1>2, <1>8, <1>9 DEF f

\* What stops no reading of an undamaged package.
LEMMA IntactReads ==
  ASSUME pkg \in Package, Intact, NEW e, Whole(e), NEW n, n = Ceiling(e.size)
  PROVE  /\ \A i \in 1 .. n : /\ IsVerified(e, i) /\ LinkInUse(e, i) /\ BlockOf(e, i) # MaxBlock
                              /\ CopyError(BlockOf(e, i)) = "ok"
         /\ MaxSteps \in Nat /\ n < MaxSteps
         /\ e.consecutive /\ e.size > 0 => ConsecutiveError(e) = "ok"
<1>. DEFINE total == Shape[pkg.shape].total
            room == pkg.length \div PerTable
<1>0. /\ n \in Nat
      /\ \A i \in 1 .. n : BlockOf(e, i) \in 0 .. total - 1
  BY IntactBlocks
<1>1. total \in Nat /\ room \in Nat /\ total =< room
  BY RoomForBlocks
<1>2. n =< total
  BY DEF Whole, WellLaid
<1>3. ASSUME NEW i \in 1 .. n
      PROVE  /\ IsVerified(e, i) /\ LinkInUse(e, i) /\ BlockOf(e, i) < MaxBlock
             /\ CopyError(BlockOf(e, i)) = "ok"
  <2>. DEFINE b == BlockOf(e, i)
  <2>1. b \in 0 .. total - 1
    BY <1>0
  <2>. HIDE DEF b
  <2>2. /\ VerifyDataBlock(b) = "ok"
        /\ DataBlock(b) =< MaxBlock /\ Inside(Offset(DataBlock(b)), PerTable)
        /\ b < MaxBlock /\ HashEntry(b).code = "ok"
    BY <2>1, IntactBlock
  <2>3. ~(DataBlock(b) > MaxBlock)
    <3>1. b \in 0 .. PerLevel2 - 1 /\ MaxBlock \in Nat
      BY <2>1, TotalNat, Quantities
    <3>2. DataBlock(b) = Level0Table(b) + Place(b) + 1 /\ Level0Table(b) \in Nat /\ Place(b) \in Nat
      BY <3>1, BlockBehindTable, Coordinates, PNat
    <3>. QED BY <2>2, <3>1, <3>2
  <2>4. CopyError(b) = "ok"
    <3>. DEFINE refused == call.verify /\ VerifyDataBlock(b) # "ok"
                out == DataBlock(b) > MaxBlock \/ ~Inside(Offset(DataBlock(b)), PerTable)
    <3>1. ~refused /\ ~out
      BY <2>2, <2>3
    <3>2. CopyError(b) = IF refused THEN VerifyDataBlock(b) ELSE IF out THEN "OutOfRange" ELSE "ok"
      BY DEF CopyError
    <3>. HIDE DEF refused, out
    <3>. QED BY <3>1, <3>2
  <2>. QED BY <2>2, <2>4 DEF b, IsVerified, LinkInUse
<1>. HIDE DEF total, room
<1>4. MaxSteps \in Nat /\ n < MaxSteps
  BY <1>0, <1>1, <1>2 DEF MaxSteps, room
<1>5. ASSUME e.consecutive, e.size > 0 PROVE ConsecutiveError(e) = "ok"
  <2>1. /\ e.size \in Nat /\ e.alloc \in Nat /\ e.start \in Nat
        /\ e.size =< e.alloc * PerTable
    BY <1>5 DEF Whole, WellLaid
  <2>2. ~(e.alloc * PerTable < e.size)
    <3>. DEFINE ap == e.alloc * PerTable
    <3>1. ap \in Nat /\ e.size =< ap
      BY <2>1, PerTableAssumption
    <3>. HIDE DEF ap
    <3>2. ~(ap < e.size)
      BY <2>1, <3>1
    <3>. QED BY <3>2 DEF ap
  <2>3. ~(n > room)
    BY <1>0, <1>1, <1>2
  <2>4. ~(e.start + n - 1 > MaxBlock - 1)
    <3>1. n >= 1
      <4>1. 0 * PerTable < e.size
        BY <1>5, PerTableAssumption
      <4>2. 0 + 1 =< Ceiling(e.size)
        BY <2>1, <4>1, CeilingBounds
      <4>. QED BY <1>0, <4>2
    <3>2. BlockOf(e, n) < MaxBlock
      BY <1>0, <1>3, <3>1
    <3>3. BlockOf(e, n) = e.start + n - 1
      BY <1>5 DEF BlockOf
    <3>4. MaxBlock \in Nat
      BY Quantities
    <3>. QED BY <1>0, <2>1, <3>1, <3>2, <3>3, <3>4
  <2>5. Ceiling(e.size) = n
    OBVIOUS
  <2>. QED BY <2>2, <2>3, <2>4, <2>5, Zenon DEF ConsecutiveError, room
<1>6. \A i \in 1 .. n : BlockOf(e, i) # MaxBlock
  <2>1. \A m \in Nat : m < MaxBlock => m # MaxBlock
    BY Quantities
  <2>. QED BY <1>0, <1>1, <1>3, <2>1 DEF total
<1>. QED BY <1>3, <1>4, <1>5, <1>6

\* What the reading of an entry of an undamaged package has come to.
ReadingOk(p, e, r) ==
  /\ Whole(e)
  /\ p = "walk"    => e.size > 0 /\ r.units = << >> /\ WalkOk(e, r) /\ r.steps =< Ceiling(e.size)
  /\ p = "copy"    => \E k \in Nat : CopyOk(e, r, k) /\ k + Len(r.blocks) = Ceiling(e.size)
  /\ p = "deliver" => r.code = "ok" /\ r.units = Published(pkg.shape, e)

LEMMA SameReading ==
  ASSUME pkg' = pkg
  PROVE  /\ \A e : Whole(e)' <=> Whole(e)
         /\ \A p, e, r : ReadingOk(p, e, r)' <=> ReadingOk(p, e, r)
         /\ Intact' <=> Intact
<1>1. \A e : Whole(e)' <=> Whole(e)
  BY DEF Whole
<1>2. \A p, e, r : ReadingOk(p, e, r)' <=> ReadingOk(p, e, r)
  BY <1>1, SamePackage DEF ReadingOk
<1>. QED BY <1>1, <1>2 DEF Intact

\* An entry of no length has no blocks.
LEMMA EmptyIsPublished ==
  ASSUME NEW e, e.size = 0
  PROVE  Published(pkg.shape, e) = << >>
BY DEF Published

\* A reading that begins.
LEMMA BegunWhole ==
  ASSUME pkg \in Package, Intact, NEW e, Whole(e), ReadFrom(e)
  PROVE  ReadingOk(phase', e, read') /\ phase' \in {"walk", "copy", "deliver"}
<1>. DEFINE n == Ceiling(e.size)
<1>1. PICK rr : rr = read'
  OBVIOUS
<1>2. e.start \in Nat /\ e.size \in Nat /\ n \in Nat
  BY CeilingBounds DEF Whole
<1>3. /\ NoRead.units = << >> /\ NoRead.code = "ok" /\ NoRead.steps = 0
      /\ DOMAIN NoRead = {"block", "steps", "blocks", "units", "code"}
  BY DEF NoRead
<1>. HIDE DEF NoRead
<1>4. Len(<< >>) = 0 /\ 0 * PerTable = 0 /\ PerTable \in Nat
  BY PerTableAssumption
<1>5. CASE e.size = 0
  <2>1. phase' = "deliver" /\ rr.units = << >> /\ rr.code = "ok"
    BY <1>1, <1>3, <1>5 DEF ReadFrom
  <2>. QED BY <1>1, <1>5, <2>1, EmptyIsPublished DEF ReadingOk
<1>6. CASE e.size # 0 /\ ~e.consecutive
  <2>1. phase' = "walk" /\ rr = [NoRead EXCEPT !.block = e.start]
    BY <1>1, <1>6 DEF ReadFrom
  <2>2. rr.units = << >> /\ rr.steps = 0 /\ rr.block = e.start
    BY <1>3, <2>1
  <2>3. BlockOf(e, 0 + 1) = e.start
    BY <1>6, LinksOfChain DEF BlockOf
  <2>4. WalkOk(e, rr)
    BY <1>6, <2>2, <2>3 DEF WalkOk
  <2>5. e.size > 0 /\ rr.steps =< n
    BY <1>2, <1>6, <2>2
  <2>. QED BY <1>1, <2>1, <2>2, <2>4, <2>5 DEF ReadingOk
<1>7. CASE e.size # 0 /\ e.consecutive
  <2>0. ConsecutiveError(e) = "ok"
    BY <1>2, <1>7, IntactReads
  <2>1. phase' = "copy" /\ rr = [NoRead EXCEPT !.blocks = Consecutive(e)]
    BY <1>1, <1>7, <2>0 DEF ReadFrom
  <2>2. rr.units = << >> /\ rr.blocks = Consecutive(e)
    BY <1>3, <2>1, Zenon
  <2>3. IsList(rr.blocks) /\ Len(rr.blocks) = n
    <3>. DEFINE c == [i \in 1 .. n |-> e.start + i - 1]
    <3>1. rr.blocks = c
      BY <2>2 DEF Consecutive
    <3>. HIDE DEF n
    <3>2. c \in Seq(Int) /\ Len(c) = n
      BY <1>2
    <3>. QED BY <3>1, <3>2, Zenon DEF IsList, n
  <2>4. \A j \in 1 .. n : rr.blocks[j] = BlockOf(e, 0 + j)
    <3>1. \A j \in 1 .. n : rr.blocks[j] = e.start + j - 1
      BY <2>2 DEF Consecutive
    <3>2. \A j \in 1 .. n : 0 + j = j
      BY <1>2
    <3>. QED BY <1>7, <3>1, <3>2, Zenon DEF BlockOf
  <2>5. CopyOk(e, rr, 0)
    <3>1. Len(rr.units) = Held(0 * PerTable, e.size)
      BY <1>2, <1>4, <1>7, <2>2 DEF Held
    <3>2. \A i \in 1 .. 0 : IsVerified(e, i)
      OBVIOUS
    <3>3. Len(rr.units) = 0
      BY <1>4, <2>2
    <3>. QED BY <1>7, <2>3, <2>4, <3>1, <3>2, <3>3 DEF CopyOk
  <2>6. 0 \in Nat /\ 0 + Len(rr.blocks) = n
    BY <1>2, <2>3
  <2>. HIDE DEF n
  <2>7. \E k \in Nat : CopyOk(e, rr, k) /\ k + Len(rr.blocks) = n
    BY <2>5, <2>6
  <2>. QED BY <1>1, <2>1, <2>7 DEF ReadingOk, n
<1>. QED BY <1>5, <1>6, <1>7

\* A turn of the walk goes on along the file's blocks, or ends it behind the last.
LEMMA FollowedWhole ==
  ASSUME ReadInv, Intact, FollowBlockChain, ReadingOk(phase, Entry, read)
  PROVE  ReadingOk(phase', Entry, read') /\ phase' \in {"walk", "copy", "deliver"}
<1>1. PICK e, r, rr : e = Entry /\ r = read /\ rr = read'
  OBVIOUS
<1>2. /\ pkg \in Package /\ phase = "walk"
      /\ DOMAIN r = {"block", "steps", "blocks", "units", "code"}
  BY <1>1 DEF ReadInv, ListingOk, ReadShape, FollowBlockChain
<1>. DEFINE n == Ceiling(e.size)
            m == r.steps
<1>3. Whole(e) /\ e.size > 0 /\ r.units = << >> /\ WalkOk(e, r) /\ m =< n
  BY <1>1, <1>2 DEF ReadingOk
<1>4. /\ ~e.consecutive /\ m \in Nat /\ r.block = BlockOf(e, m + 1)
      /\ \A i \in 1 .. m : LinkInUse(e, i)
  BY <1>3 DEF WalkOk
<1>5. /\ n \in Nat /\ BlockOf(e, n + 1) = MaxBlock
  BY <1>2, <1>3, <1>4, IntactBlocks
<1>6. /\ \A i \in 1 .. n : LinkInUse(e, i) /\ BlockOf(e, i) # MaxBlock
      /\ MaxSteps \in Nat /\ n < MaxSteps
  BY <1>2, <1>3, IntactReads
<1>. HIDE DEF n
<1>7. CASE m = n
  <2>1. r.block = MaxBlock
    BY <1>4, <1>5, <1>7
  <2>2. phase' = "copy" /\ rr = [r EXCEPT !.blocks = Chain(e.start, m)]
    BY <1>1, <1>2, <2>1 DEF FollowBlockChain
  <2>3. rr.blocks = Chain(e.start, m) /\ rr.units = << >>
    BY <1>2, <1>3, <2>2, Zenon
  <2>4. /\ Chain(e.start, m) = [i \in 1 .. m |-> Chain(e.start, m)[i]]
        /\ \A i \in 1 .. m : Chain(e.start, m)[i] = BlockOf(e, i)
    <3>1. \A k \in Nat : /\ Chain(e.start, k) = [i \in 1 .. k |-> Chain(e.start, k)[i]]
                         /\ \A i \in 1 .. k : Chain(e.start, k)[i] = Link(e.start, i)
      BY ChainListsLinks
    <3>2. \A i : BlockOf(e, i) = Link(e.start, i)
      BY <1>4 DEF BlockOf
    <3>. QED BY <1>4, <3>1, <3>2, Zenon
  <2>. DEFINE c == Chain(e.start, m)
  <2>. HIDE DEF c
  <2>5. IsList(c) /\ Len(c) = m
    <3>. DEFINE T == {c[i] : i \in 1 .. m}
    <3>1. c = [i \in 1 .. m |-> c[i]]
      BY <2>4 DEF c
    <3>2. c \in [1 .. m -> T]
      BY <3>1
    <3>. HIDE DEF T
    <3>3. c \in Seq(T) /\ Len(c) = m
      BY <1>4, <3>2
    <3>. QED BY <3>3 DEF IsList
  <2>6. CopyOk(e, rr, 0)
    <3>1. IsList(rr.blocks) /\ Len(rr.blocks) = m
      BY <2>3, <2>5 DEF c
    <3>2. \A j \in 1 .. Len(rr.blocks) : rr.blocks[j] = BlockOf(e, 0 + j)
      <4>1. \A j \in 1 .. m : 0 + j = j
        BY <1>4
      <4>. QED BY <3>1, <4>1, <2>3, <2>4
    <3>3. \A j \in 1 .. 0 + Len(rr.blocks) : LinkInUse(e, j)
      BY <3>1, <1>4
    <3>4. Len(rr.units) = 0 /\ 0 * PerTable = 0
      BY <2>3, PerTableAssumption
    <3>5. Len(rr.units) = Held(0 * PerTable, e.size)
      BY <3>4, <1>3 DEF Held, Whole
    <3>. QED BY <3>1, <3>2, <3>3, <3>4, <3>5 DEF CopyOk
  <2>7. 0 \in Nat /\ 0 + Len(rr.blocks) = n
    BY <1>5, <1>7, <2>3, <2>5 DEF c
  <2>8. \E k \in Nat : CopyOk(e, rr, k) /\ k + Len(rr.blocks) = n
    BY <2>6, <2>7
  <2>. QED BY <1>1, <1>3, <2>2, <2>8 DEF ReadingOk, n
<1>8. CASE m # n
  <2>1. m + 1 \in 1 .. n /\ m + 1 =< n /\ ~(m >= MaxSteps)
    BY <1>3, <1>4, <1>5, <1>6, <1>8 DEF n
  <2>2. r.block # MaxBlock /\ LinkInUse(e, m + 1)
    BY <1>4, <1>6, <2>1
  <2>3. HashEntry(r.block).code = "ok"
    BY <1>4, <2>2 DEF LinkInUse
  <2>4. phase' = "walk" /\ rr = [r EXCEPT !.block = HashEntry(r.block).next, !.steps = m + 1]
    BY <1>1, <1>2, <2>1, <2>2, <2>3 DEF FollowBlockChain
  <2>5. rr.block = HashEntry(r.block).next /\ rr.steps = m + 1 /\ rr.units = << >>
    <3>. DEFINE next == HashEntry(r.block).next
    <3>. HIDE DEF next
    <3>1. rr = [r EXCEPT !.block = next, !.steps = m + 1]
      BY <2>4 DEF next
    <3>2. rr.block = next /\ rr.steps = m + 1 /\ rr.units = << >>
      BY <1>2, <1>3, <3>1
    <3>. QED BY <3>2 DEF next
  <2>6. WalkOk(e, rr)
    <3>1. rr.steps \in Nat /\ \A i \in 1 .. rr.steps : LinkInUse(e, i)
      BY <1>4, <2>2, <2>5
    <3>2. rr.block = BlockOf(e, rr.steps + 1)
      <4>1. r.block = Link(e.start, m + 1)
        BY <1>4 DEF BlockOf
      <4>2. m + 1 \in Nat /\ m + 1 >= 1
        BY <1>4
      <4>3. Link(e.start, (m + 1) + 1) = HashEntry(Link(e.start, m + 1)).next
        BY <4>2, LinksOfChain
      <4>. QED BY <1>4, <2>5, <4>1, <4>3 DEF BlockOf
    <3>. QED BY <1>4, <3>1, <3>2 DEF WalkOk
  <2>. QED BY <1>1, <1>3, <2>1, <2>4, <2>5, <2>6 DEF ReadingOk, n
<1>. QED BY <1>7, <1>8

\* The blocks of a file hold it.
LEMMA CeilingHolds ==
  ASSUME NEW size \in Nat
  PROVE  size =< Ceiling(size) * PerTable
<1>. DEFINE y == size + PerTable - 1
            c == y \div PerTable
<1>0. PerTable \in Nat /\ PerTable > 0
  BY PerTableAssumption
<1>1. y \in Nat
  BY <1>0
<1>. HIDE DEF y
<1>2. c \in Nat /\ y = c * PerTable + (y % PerTable) /\ y % PerTable \in 0 .. PerTable - 1
  BY <1>0, <1>1
<1>3. size =< c * PerTable
  <2>. DEFINE cp == c * PerTable
              rest == y % PerTable
  <2>1. cp \in Nat /\ y = cp + rest /\ rest \in 0 .. PerTable - 1
    <3>. HIDE DEF c
    <3>. QED BY <1>0, <1>2
  <2>. HIDE DEF cp, rest
  <2>2. size + PerTable - 1 = cp + rest
    BY <2>1 DEF y
  <2>3. size =< cp
    BY <1>0, <2>1, <2>2
  <2>. QED BY <2>3 DEF cp
<1>. QED BY <1>3 DEF Ceiling, y, c

\* A turn of the copy copies a block of the file, or has them all.
LEMMA CopiedWhole ==
  ASSUME ReadInv, Intact, CopyBlock, ReadingOk(phase, Entry, read)
  PROVE  ReadingOk(phase', Entry, read') /\ phase' \in {"walk", "copy", "deliver"}
<1>1. PICK e, r, rr : e = Entry /\ r = read /\ rr = read'
  OBVIOUS
<1>2. /\ pkg \in Package /\ phase = "copy" /\ Reading
      /\ DOMAIN r = {"block", "steps", "blocks", "units", "code"}
      /\ IsList(r.units) /\ Len(r.units) =< e.size
  BY <1>1 DEF ReadInv, ListingOk, ReadShape, ReadWhole, Reading, CopyBlock
<1>. DEFINE n == Ceiling(e.size)
            block == Head(r.blocks)
            Done == r.blocks = << >> \/ Len(r.units) >= e.size
<1>3. Whole(e) /\ e.start \in Nat /\ e.size \in Nat /\ n \in Nat
  BY <1>1, CeilingBounds DEF ReadingOk, Whole
<1>4. PICK k \in Nat : CopyOk(e, r, k) /\ k + Len(r.blocks) = n
  BY <1>1, <1>2 DEF ReadingOk
<1>5. Len(r.units) \in Nat /\ Len(r.blocks) \in Nat
  BY <1>2, <1>4, LenProperties DEF IsList, CopyOk
<1>6. CASE Done
  <2>1. Len(r.units) = e.size
    <3>1. CASE Len(r.units) >= e.size
      BY <1>2, <1>3, <1>5, <3>1
    <3>2. CASE r.blocks = << >>
      <4>1. k = n
        BY <1>3, <1>4, <3>2
      <4>2. e.size =< n * PerTable
        BY <1>3, CeilingHolds
      <4>3. Len(r.units) = Held(n * PerTable, e.size)
        BY <1>4, <4>1 DEF CopyOk
      <4>. DEFINE np == n * PerTable
      <4>4. np \in Nat /\ e.size =< np /\ Len(r.units) = Held(np, e.size)
        <5>. HIDE DEF n
        <5>. QED BY <1>3, <4>2, <4>3, PerTableAssumption
      <4>. HIDE DEF np
      <4>. QED BY <1>3, <4>4 DEF Held
    <3>. QED BY <1>6, <3>1, <3>2
  <2>2. phase' = "deliver" /\ rr = [r EXCEPT !.code = EndOfBlocks]
    BY <1>1, <1>6 DEF CopyBlock
  <2>3. rr.units = r.units /\ rr.code = EndOfBlocks
    BY <1>2, <2>2, Zenon
  <2>4. EndOfBlocks = "ok"
    <3>1. ~(Len(read.units) < Entry.size)
      BY <1>1, <1>3, <2>1
    <3>. QED BY <3>1 DEF EndOfBlocks
  <2>5. IsPublished(e, r.units)
    BY <1>2, <1>3, <1>4, <2>1, CompleteIsPublished
  <2>6. r.units = Published(pkg.shape, e)
    BY <1>3, <2>5 DEF IsPublished, Whole
  <2>. QED BY <1>1, <1>3, <2>2, <2>3, <2>4, <2>6 DEF ReadingOk
<1>7. CASE ~Done
  <2>1. r.blocks # << >> /\ Len(r.units) < e.size
    BY <1>3, <1>5, <1>7
  <2>2. Len(r.blocks) >= 1 /\ block = BlockOf(e, k + 1) /\ Len(Tail(r.blocks)) = Len(r.blocks) - 1
    <3>1. PICK T : r.blocks \in Seq(T)
      BY <1>4 DEF CopyOk, IsList
    <3>2. Len(r.blocks) # 0 /\ block = r.blocks[1] /\ Len(Tail(r.blocks)) = Len(r.blocks) - 1
      BY <2>1, <3>1, EmptySeq, HeadTailProperties
    <3>3. 1 \in 1 .. Len(r.blocks)
      BY <1>5, <3>2
    <3>. HIDE DEF block
    <3>. QED BY <1>4, <1>5, <3>2, <3>3 DEF CopyOk
  <2>3. k + 1 \in 1 .. n
    <3>. HIDE DEF n
    <3>. QED BY <1>3, <1>4, <1>5, <2>2
  <2>4. CopyError(block) = "ok" /\ VerifyDataBlock(block) = "ok"
    <3>1. CopyError(BlockOf(e, k + 1)) = "ok" /\ IsVerified(e, k + 1)
      BY <1>2, <1>3, <2>3, IntactReads
    <3>. QED BY <2>2, <3>1 DEF IsVerified
  <2>5. /\ phase' = "copy"
        /\ rr = [r EXCEPT
                   !.units  = @ \o SubSeq(UnitsAt(DataBlock(block)), 1, Wanted(e.size, Len(r.units))),
                   !.blocks = Tail(@)]
    BY <1>1, <1>7, <2>4, Zenon DEF CopyBlock, Wanted
  <2>6. CopiedOn(e, r, rr)
    <3>. DEFINE more == r.units \o SubSeq(UnitsAt(DataBlock(block)), 1, Wanted(e.size, Len(r.units)))
                rest == Tail(r.blocks)
    <3>1. rr = [r EXCEPT !.units = more, !.blocks = rest]
      BY <2>5
    <3>2. rr.units = more /\ rr.blocks = rest
      <4>. HIDE DEF more, rest
      <4>. QED BY <1>2, <3>1
    <3>. QED BY <2>1, <2>4, <3>2, Zenon DEF CopiedOn
  <2>7. CopyOk(e, rr, k + 1) /\ k + 1 \in Nat
    BY <1>2, <1>3, <1>4, <2>6, BlockCopied
  <2>8. (k + 1) + Len(rr.blocks) = n
    <3>1. rr.blocks = Tail(r.blocks)
      BY <2>6 DEF CopiedOn
    <3>2. Len(rr.blocks) = Len(r.blocks) - 1
      BY <2>2, <3>1
    <3>. DEFINE ahead == Len(r.blocks)
    <3>3. k + ahead = n /\ ahead \in Nat /\ n \in Nat /\ Len(rr.blocks) = ahead - 1
      BY <1>3, <1>4, <1>5, <3>2
    <3>. HIDE DEF n, ahead
    <3>. QED BY <3>3
  <2>9. \E j \in Nat : CopyOk(e, rr, j) /\ j + Len(rr.blocks) = n
    BY <2>7, <2>8, Zenon
  <2>. QED BY <1>1, <1>3, <2>5, <2>9 DEF ReadingOk
<1>. QED BY <1>6, <1>7

\* The file table of an undamaged package is one of its files.
LEMMA TableWhole ==
  ASSUME pkg \in Package, Intact
  PROVE  /\ Whole(TableEntry) /\ TableEntry.size > 0 /\ ~TableEntry.dir /\ ~TableEntry.consecutive
         /\ HeaderError = "ok"
<1>. DEFINE s == pkg.shape
<1>1. /\ s \in DOMAIN Shape /\ PerTable \in Nat /\ PerTable > 0
  BY Quantities, PerTableAssumption
<1>2. Shape[s].tableStart \in Nat /\ Shape[s].tableCount \in Nat
  BY <1>1, PackageAssumption, Zenon
<1>3. Shape[s].tableCount > 0 /\ WellLaid(s, TableOf(s))
  BY <1>1, PublisherAssumption, Zenon
<1>4. /\ TableEntry = TableOf(s)
      /\ TableOf(s).start = Shape[s].tableStart /\ TableOf(s).alloc = Shape[s].tableCount
      /\ TableOf(s).size = Shape[s].tableCount * PerTable
      /\ ~TableOf(s).dir /\ ~TableOf(s).consecutive
  BY DEF TableEntry, TableOf, NoEntry
<1>. DEFINE c == Shape[s].tableCount
<1>. HIDE DEF c
<1>5. c * PerTable \in Nat /\ c * PerTable > 0
  BY <1>1, <1>2, <1>3 DEF c
<1>6. HeaderError = "ok"
  BY DEF Intact, HeaderError, SignatureError, MetadataError, DescriptorError
<1>. QED BY <1>2, <1>3, <1>4, <1>5, <1>6 DEF Whole, c

\* The file table read whole lists the entries as published, which have names
\* the listing does not refuse.
LEMMA TableListed ==
  ASSUME pkg \in Package, Intact, NEW units, IsList(units), units = Published(pkg.shape, TableEntry)
  PROVE  /\ ListingError(Listed(units)) = "ok"
         /\ \A i \in DOMAIN Listed(units) : Whole(Listed(units)[i])
<1>. DEFINE s == pkg.shape
            t == TableEntry
            c == Shape[s].tableCount
            listing == Shape[s].listing
<1>0. s \in DOMAIN Shape /\ PerTable \in Nat /\ PerTable > 0
  BY Quantities, PerTableAssumption
<1>1. t = TableOf(s) /\ ~t.dir /\ t.size = c * PerTable /\ c \in Nat /\ t.size \in Nat
  <2>1. t = TableOf(s) /\ t.size = c * PerTable
    BY DEF TableEntry, TableOf, NoEntry
  <2>2. c \in Nat
    BY <1>0, PackageAssumption, Zenon
  <2>3. ~t.dir /\ t.size \in Nat
    BY TableWhole DEF Whole
  <2>. QED BY <2>1, <2>2, <2>3
<1>2. \A u \in DOMAIN units : units[u] \in DOMAIN listing
  <2>. SUFFICES ASSUME NEW u \in DOMAIN units PROVE units[u] \in DOMAIN listing
    OBVIOUS
  <2>1. units = [v \in 1 .. t.size |-> PublishedBlocks(s, t)[Ceiling(v)] * PerTable + ((v - 1) % PerTable)]
    BY <1>1 DEF Published
  <2>2. u \in 1 .. t.size /\ units[u] = PublishedBlocks(s, t)[Ceiling(u)] * PerTable + ((u - 1) % PerTable)
    BY <2>1
  <2>3. Ceiling(u) \in 1 .. c
    <3>1. Ceiling(u) \in 1 .. Ceiling(t.size) /\ Ceiling(t.size) \in Nat
      BY <1>1, <2>2, CeilingBounds
    <3>2. Ceiling(t.size) =< c
      <4>. DEFINE size == t.size
      <4>1. size \in Nat /\ c \in Nat /\ size =< c * PerTable
        BY <1>1
      <4>. HIDE DEF size, c
      <4>2. Ceiling(size) =< c
        BY <4>1, CeilingBounds
      <4>. QED BY <4>2 DEF size
    <3>. DEFINE x == Ceiling(u)
                y == Ceiling(t.size)
    <3>. HIDE DEF x, y, c
    <3>3. x \in 1 .. y /\ y \in Nat /\ y =< c /\ c \in Nat
      BY <1>1, <3>1, <3>2 DEF x, y
    <3>4. x \in 1 .. c
      BY <3>3
    <3>. QED BY <3>4 DEF x
  <2>4. (u - 1) % PerTable \in 0 .. PerTable - 1
    <3>1. u - 1 \in Nat
      BY <1>1, <2>2
    <3>. QED BY <1>0, <3>1
  <2>5. \A i \in 1 .. c, v \in 0 .. PerTable - 1 : PublishedBlocks(s, t)[i] * PerTable + v \in DOMAIN listing
    BY <1>0, <1>1, PublisherAssumption, Zenon
  <2>. HIDE DEF t, c, listing
  <2>. QED BY <2>2, <2>3, <2>4, <2>5
<1>3. pkg.listing = listing
  BY <1>0, DamageAssumption DEF Intact
<1>4. \A u \in DOMAIN units : EntryIn(units[u]) = listing[units[u]]
  BY <1>2, <1>3 DEF EntryIn
<1>5. \A x \in DOMAIN listing : Whole(listing[x]) /\ listing[x].name \notin BadName
  <2>. SUFFICES ASSUME NEW x \in DOMAIN listing
                PROVE  Whole(listing[x]) /\ listing[x].name \notin BadName
    OBVIOUS
  <2>1. listing[x].dir => listing[x].size = 0
    BY <1>0, PackageAssumption, Zenon
  <2>2. /\ listing[x].name \notin BadName
        /\ listing[x].start \in Nat /\ listing[x].size \in Nat /\ listing[x].alloc \in Nat
        /\ WellLaid(s, listing[x])
    BY <1>0, PublisherAssumption, Zenon
  <2>. QED BY <2>1, <2>2 DEF Whole
<1>6. PICK n \in 0 .. Len(units) : Listed(units) = [i \in 1 .. n |-> EntryIn(units[i])]
  BY ListedFrom
<1>7. \A i \in 1 .. n : i \in DOMAIN units
  BY LenProperties DEF IsList
<1>8. DOMAIN Listed(units) = 1 .. n /\ \A i \in 1 .. n : Listed(units)[i] = listing[units[i]]
  BY <1>4, <1>6, <1>7
<1>. HIDE DEF listing
<1>9. \A i \in DOMAIN Listed(units) : Whole(Listed(units)[i]) /\ Listed(units)[i].name \notin BadName
  BY <1>2, <1>5, <1>7, <1>8, Zenon
<1>10. ListingError(Listed(units)) = "ok"
  BY <1>9 DEF ListingError
<1>. QED BY <1>9, <1>10

\* What is known while the calls run: of the listing, of the reading, of the
\* files gathered in memory or laid on disk so far, and of the last answer.
EntriesWhole == \A i \in DOMAIN entries : Whole(entries[i])
ReadsAsPublished   == Reading => ReadingOk(phase, Entry, read)
ReadsWanted  == Reading /\ call.op = "memory" => ~Entry.dir /\ Key(at + 1) \notin call.without

KeysUpTo(n, without) == {Key(i) : i \in {j \in DOMAIN entries : j =< n /\ ~entries[j].dir}} \ without
FirstsHeld           == \A k \in DOMAIN memory : memory[k] = PublishedEntry(FirstOf(k))
Gathered(n, without) == DOMAIN memory = KeysUpTo(n, without) /\ FirstsHeld

LaidWhole(i) ==
  LET path == Normal(Paths[i - 1])
  IN  /\ path \in DOMAIN disk.files
      /\ \E j \in i .. Len(entries) : LaidBy(path, j) /\ disk.files[path] = PublishedEntry(j)

MemoryHeld == call.op = "memory" => Gathered(at, call.without)
DiskHeld   == call.op = "all" => \A i \in DOMAIN entries : i =< at /\ ~entries[i].dir => LaidWhole(i)

AnswersWhole ==
  phase = "idle" =>
    /\ answer.op \in {"open", "entry", "memory"} => answer.code = "ok"
    /\ answer.op = "name" => answer.code \in {"ok", "NotFound"}
    /\ answer.op \in {"entry", "name"} /\ answer.code = "ok" =>
         answer.units = PublishedEntry(answer.at + 1)
    /\ answer.op = "memory" => Gathered(Len(entries), answer.without)
    /\ answer.op = "all" /\ answer.code = "ok" =>
         \A i \in DOMAIN entries : ~entries[i].dir => LaidWhole(i)

WholeInv ==
  EntriesWhole /\ ReadsAsPublished /\ ReadsWanted /\ MemoryHeld /\ DiskHeld /\ AnswersWhole

\* What is in memory and on disk is a matter of them, the listing and the package.
LEMMA SameHeld ==
  ASSUME UNCHANGED <<pkg, entries>>
  PROVE  /\ EntriesWhole => EntriesWhole'
         /\ \A i : PublishedEntry(i)' = PublishedEntry(i)
         /\ \A k : FirstOf(k)' = FirstOf(k)
         /\ \A n, without : KeysUpTo(n, without)' = KeysUpTo(n, without)
         /\ memory' = memory => \A n, without : Gathered(n, without) => Gathered(n, without)'
         /\ disk' = disk => \A i : LaidWhole(i) => LaidWhole(i)'
<1>1. EntriesWhole => EntriesWhole'
  BY SameReading DEF EntriesWhole
<1>2. \A i : PublishedEntry(i)' = PublishedEntry(i)
  BY DEF PublishedEntry
<1>3. \A k : FirstOf(k)' = FirstOf(k)
  BY DEF FirstOf, FilesOf, Key
<1>4. \A n, without : KeysUpTo(n, without)' = KeysUpTo(n, without)
  BY DEF KeysUpTo, Key
<1>5. memory' = memory => \A n, without : Gathered(n, without) => Gathered(n, without)'
  <2>. SUFFICES ASSUME memory' = memory, NEW n, NEW without, Gathered(n, without)
                PROVE  Gathered(n, without)'
    OBVIOUS
  <2>1. FirstsHeld'
    <3>1. \A k \in DOMAIN memory : memory[k] = PublishedEntry(FirstOf(k))'
      BY DEF Gathered, FirstsHeld, PublishedEntry, FirstOf, FilesOf, Key
    <3>. QED BY <3>1 DEF FirstsHeld
  <2>. QED BY <1>4, <2>1 DEF Gathered
<1>6. disk' = disk => \A i : LaidWhole(i) => LaidWhole(i)'
  <2>. SUFFICES ASSUME disk' = disk, NEW i, LaidWhole(i) PROVE LaidWhole(i)'
    OBVIOUS
  <2>1. PICK path : path = Normal(Paths[i - 1])
    OBVIOUS
  <2>2. Paths' = Paths
    BY DEF Paths
  <2>3. PICK j \in i .. Len(entries) : LaidBy(path, j) /\ disk.files[path] = PublishedEntry(j)
    BY <2>1 DEF LaidWhole
  <2>4. path \in DOMAIN disk.files
    BY <2>1 DEF LaidWhole
  <2>5. LaidBy(path, j)' /\ disk'.files[path] = PublishedEntry(j)'
    BY <1>2, <2>2, <2>3 DEF LaidBy
  <2>. QED BY <2>1, <2>2, <2>3, <2>4, <2>5 DEF LaidWhole
<1>. QED BY <1>1, <1>2, <1>3, <1>4, <1>5, <1>6

\* A turn of a loop of the reading.
LEMMA ReadOn ==
  ASSUME WholeInv, UNCHANGED <<pkg, entries, call, at, memory, disk>>,
         Reading, ReadingOk(phase', Entry, read'), phase' \in {"walk", "copy", "deliver"}
  PROVE  WholeInv'
<1>1. PICK p, e, r, n, w : p = phase' /\ e = Entry /\ r = read' /\ n = at /\ w = call.without
  OBVIOUS
<1>2. Entry' = e /\ EntriesWhole'
  BY <1>1, SameHeld DEF Entry, TableEntry, WholeInv
<1>3. ReadsAsPublished'
  <2>1. ReadingOk(p, e, r)'
    BY <1>1, SameReading
  <2>2. ReadingOk(phase, Entry, read)'
    BY <1>1, <1>2, <2>1
  <2>. QED BY <2>2 DEF ReadsAsPublished
<1>4. ReadsWanted'
  BY <1>1, <1>2 DEF WholeInv, ReadsWanted, Key
<1>5. MemoryHeld'
  <2>1. call.op = "memory" => Gathered(n, w)'
    BY <1>1, SameHeld DEF WholeInv, MemoryHeld
  <2>. QED BY <1>1, <2>1 DEF MemoryHeld
<1>6. DiskHeld'
  BY SameHeld DEF WholeInv, DiskHeld
<1>7. AnswersWhole'
  BY DEF AnswersWhole
<1>. QED BY <1>2, <1>3, <1>4, <1>5, <1>6, <1>7 DEF WholeInv

\* A call that begins to read an entry.
LEMMA BegunToRead ==
  ASSUME ReadInv, Intact, EntriesWhole, UNCHANGED <<pkg, entries>>,
         at' + 1 \in DOMAIN entries, call'.op # "open", ReadFrom(entries[at' + 1])
  PROVE  /\ ReadsAsPublished' /\ EntriesWhole' /\ Entry' = entries[at' + 1]
         /\ phase' \in {"walk", "copy", "deliver"}
<1>1. PICK p, e, r : p = phase' /\ e = entries[at' + 1] /\ r = read'
  OBVIOUS
<1>2. Entry' = e /\ EntriesWhole'
  BY <1>1, SameHeld DEF Entry
<1>3. ReadingOk(p, e, r) /\ p \in {"walk", "copy", "deliver"}
  <2>1. Whole(e) /\ pkg \in Package
    BY <1>1 DEF EntriesWhole, ReadInv, ListingOk
  <2>2. ReadFrom(e)
    BY <1>1
  <2>. QED BY <1>1, <2>1, <2>2, BegunWhole
<1>4. ReadingOk(p, e, r)'
  BY <1>3, SameReading
<1>5. ReadingOk(phase, Entry, read)'
  BY <1>1, <1>2, <1>4
<1>. QED BY <1>1, <1>2, <1>3, <1>5 DEF ReadsAsPublished

\* When a call has ended, its answer is all there is.
LEMMA EndedWhole ==
  ASSUME NEW code, Ended(code), EntriesWhole', AnswersWhole'
  PROVE  WholeInv'
<1>1. phase' = "idle" /\ call'.op = "none"
  BY DEF Ended, NoCall
<1>. QED BY <1>1 DEF WholeInv, ReadsAsPublished, ReadsWanted, MemoryHeld, DiskHeld, Reading

\* An entry that is no file, or is left out, adds nothing to what is gathered.
LEMMA SkippedKeepsGathered ==
  ASSUME IsList(entries), NEW n \in Nat, n + 1 \in DOMAIN entries, NEW without, Gathered(n, without),
         entries[n + 1].dir \/ Key(n + 1) \in without
  PROVE  Gathered(n + 1, without)
<1>1. DOMAIN entries \subseteq Nat
  BY LenProperties DEF IsList
<1>2. \A j \in DOMAIN entries : j =< n + 1 <=> j =< n \/ j = n + 1
  BY <1>1
<1>3. KeysUpTo(n + 1, without) = KeysUpTo(n, without)
  BY <1>2 DEF KeysUpTo
<1>. QED BY <1>3 DEF Gathered

\* A file of a name that none of those before it has is the first of that name.
LEMMA FirstOfKey ==
  ASSUME IsList(entries), NEW n \in Nat, n + 1 \in DOMAIN entries, ~entries[n + 1].dir,
         \A j \in FilesOf(Key(n + 1)) : ~(j =< n)
  PROVE  FirstOf(Key(n + 1)) = n + 1
<1>. DEFINE F == FilesOf(Key(n + 1))
<1>1. n + 1 \in F /\ F \subseteq Nat
  BY LenProperties DEF IsList, FilesOf
<1>2. \A j \in F : n + 1 =< j
  BY <1>1
<1>3. \A i \in F : (\A j \in F : i =< j) => i = n + 1
  <2>. HIDE DEF F
  <2>. QED BY <1>1, <1>2
<1>4. FirstOf(Key(n + 1)) = CHOOSE i \in F : \A j \in F : i =< j
  BY DEF FirstOf
<1>. HIDE DEF F
<1>. QED BY <1>1, <1>2, <1>3, <1>4

\* The step that goes past an entry or begins to read it, or ends the call.
LEMMA NextEntryKeepsWhole == ReadInv /\ DiskInv /\ Intact /\ WholeInv /\ NextEntry => WholeInv'
<1>. SUFFICES ASSUME ReadInv, DiskInv, Intact, WholeInv, NextEntry PROVE WholeInv'
  OBVIOUS
<1>1. /\ phase = "next" /\ call.op \in {"memory", "all"} /\ at \in Nat
      /\ UNCHANGED <<pkg, entries, memory>> /\ IsList(entries)
      /\ EntriesWhole /\ EntriesWhole' /\ Entry = entries[at + 1]
  BY SameHeld DEF NextEntry, ReadInv, CallOk, AtEntry, ListingOk, WholeInv, Entry
<1>2. PICK n, w : n = at /\ w = call.without
  OBVIOUS
<1>3. /\ DOMAIN entries = 1 .. Len(entries) /\ Len(entries) \in Nat
      /\ at < Len(entries) => n + 1 \in DOMAIN entries
  BY <1>1, <1>2, LenProperties DEF IsList
<1>4. call.op = "memory" => Gathered(n, w)
  BY <1>2 DEF WholeInv, MemoryHeld
<1>5. CASE at = Len(entries) /\ Ended("ok") /\ UNCHANGED disk
  <2>1. /\ answer'.op = call.op /\ answer'.code = "ok" /\ answer'.without = w
    BY <1>2, <1>5 DEF Ended
  <2>2. call.op = "memory" => Gathered(Len(entries), answer.without)'
    <3>1. call.op = "memory" => Gathered(n, w)'
      BY <1>1, <1>4, SameHeld
    <3>2. n = Len(entries)' /\ w = answer'.without
      BY <1>1, <1>2, <1>5, <2>1
    <3>. QED BY <3>1, <3>2
  <2>3. call.op = "all" => \A i \in DOMAIN entries : ~entries[i].dir => LaidWhole(i)'
    <3>1. \A i \in DOMAIN entries : i =< at
      BY <1>3, <1>5
    <3>. QED BY <1>1, <1>5, <3>1, SameHeld DEF WholeInv, DiskHeld
  <2>4. AnswersWhole'
    BY <1>1, <2>1, <2>2, <2>3 DEF AnswersWhole
  <2>. QED BY <1>1, <1>5, <2>4, EndedWhole
<1>6. CASE Ended("IoError") /\ call.op = "all"
  <2>1. answer'.op = "all" /\ answer'.code # "ok"
    BY <1>6 DEF Ended
  <2>2. AnswersWhole'
    BY <2>1 DEF AnswersWhole
  <2>. QED BY <1>1, <1>6, <2>2, EndedWhole
<1>7. CASE /\ at < Len(entries) /\ call.op = "memory" /\ (Entry.dir \/ Key(at + 1) \in call.without)
           /\ Past /\ UNCHANGED <<call, disk>>
  <2>1. phase' = "next" /\ at' = n + 1 /\ call' = call
    BY <1>2, <1>7 DEF Past
  <2>2. Gathered(n + 1, w)
    BY <1>1, <1>2, <1>3, <1>4, <1>7, SkippedKeepsGathered
  <2>3. Gathered(n + 1, w)'
    BY <1>1, <2>2, SameHeld
  <2>4. MemoryHeld'
    <3>1. PICK m : m = n + 1
      OBVIOUS
    <3>2. Gathered(m, w)'
      BY <2>3, <3>1
    <3>3. m = at' /\ w = call'.without
      BY <1>2, <2>1, <3>1
    <3>. QED BY <3>2, <3>3 DEF MemoryHeld
  <2>. QED BY <1>1, <1>7, <2>1, <2>4
           DEF WholeInv, ReadsAsPublished, ReadsWanted, DiskHeld, AnswersWhole, Reading
<1>8. CASE /\ at < Len(entries) /\ call.op = "memory" /\ ~(Entry.dir \/ Key(at + 1) \in call.without)
           /\ ReadFrom(Entry) /\ UNCHANGED <<at, call, disk>>
  <2>1. at' + 1 \in DOMAIN entries /\ call'.op # "open" /\ ReadFrom(entries[at' + 1])
    BY <1>1, <1>2, <1>3, <1>8
  <2>2. ReadsAsPublished' /\ Entry' = entries[at' + 1] /\ phase' \in {"walk", "copy", "deliver"}
    BY <1>1, <2>1, BegunToRead
  <2>3. ReadsWanted'
    BY <1>1, <1>8, <2>2 DEF ReadsWanted, Key
  <2>4. Gathered(n, w)'
    BY <1>1, <1>4, <1>8, SameHeld
  <2>5. MemoryHeld'
    BY <1>2, <1>8, <2>4 DEF MemoryHeld
  <2>. QED BY <1>1, <1>8, <2>2, <2>3, <2>5 DEF WholeInv, DiskHeld, AnswersWhole
<1>9. CASE /\ at < Len(entries) /\ call.op = "all" /\ disk' = Created(Directory)
           /\ IF Entry.dir THEN Past ELSE ReadFrom(Entry) /\ UNCHANGED at
           /\ UNCHANGED call
  <2>1. disk'.files = disk.files
    <3>. QED BY <1>9 DEF Created, DiskInv, DiskShape
  <2>2. \A i : LaidWhole(i) => LaidWhole(i)'
    <3>1. \A path, j : LaidBy(path, j) => LaidBy(path, j)'
      BY <1>1, <2>1 DEF LaidBy, Paths
    <3>. SUFFICES ASSUME NEW i, LaidWhole(i) PROVE LaidWhole(i)'
      OBVIOUS
    <3>2. PICK path : path = Normal(Paths[i - 1])
      OBVIOUS
    <3>3. PICK j \in i .. Len(entries) : LaidBy(path, j) /\ disk.files[path] = PublishedEntry(j)
      BY <3>2 DEF LaidWhole
    <3>4. Paths' = Paths /\ path \in DOMAIN disk.files
      BY <1>1, <3>2 DEF Paths, LaidWhole
    <3>5. LaidBy(path, j)' /\ disk'.files[path] = PublishedEntry(j)'
      BY <1>1, <2>1, <3>1, <3>3, SameHeld
    <3>. QED BY <1>1, <2>1, <3>2, <3>3, <3>4, <3>5 DEF LaidWhole
  <2>3. \A i \in DOMAIN entries : i =< n /\ ~entries[i].dir => LaidWhole(i)'
    BY <1>2, <1>9, <2>2 DEF WholeInv, DiskHeld
  <2>4. CASE Entry.dir
    <3>1. phase' = "next" /\ at' = n + 1 /\ Past
      BY <1>2, <1>9, <2>4 DEF Past
    <3>2. \A i \in DOMAIN entries : i =< n + 1 /\ ~entries[i].dir => i =< n
      BY <1>1, <1>2, <1>3, <2>4
    <3>3. DiskHeld'
      BY <1>1, <2>3, <3>1, <3>2 DEF DiskHeld
    <3>. QED BY <1>1, <1>9, <3>1, <3>3
             DEF WholeInv, ReadsAsPublished, ReadsWanted, MemoryHeld, AnswersWhole, Reading
  <2>5. CASE ~Entry.dir
    <3>1. at' + 1 \in DOMAIN entries /\ call'.op = "all" /\ at' = at /\ ReadFrom(entries[at' + 1])
      BY <1>1, <1>2, <1>3, <1>9, <2>5
    <3>2. ReadsAsPublished' /\ phase' \in {"walk", "copy", "deliver"}
      BY <1>1, <3>1, BegunToRead
    <3>3. DiskHeld'
      BY <1>1, <1>2, <2>3, <3>1 DEF DiskHeld
    <3>. QED BY <1>1, <3>1, <3>2, <3>3 DEF WholeInv, ReadsWanted, MemoryHeld, AnswersWhole
  <2>. QED BY <2>4, <2>5
<1>. QED BY <1>5, <1>6, <1>7, <1>8, <1>9, Zenon DEF NextEntry

\* What a reading that ends hands over.
LEMMA DeliveredWhole ==
  ASSUME WholeInv, phase = "deliver"
  PROVE  read.code = "ok" /\ read.units = Published(pkg.shape, Entry)
BY DEF WholeInv, ReadsAsPublished, ReadingOk, Reading

\* The file table is in: the listing is the published one.
LEMMA OpenDeliveredWhole ==
  ReadInv /\ Intact /\ WholeInv /\ Deliver /\ OpenDelivered => WholeInv'
<1>. SUFFICES ASSUME ReadInv, Intact, WholeInv, Deliver, OpenDelivered PROVE WholeInv'
  OBVIOUS
<1>1. /\ pkg \in Package /\ pkg' = pkg /\ IsList(read.units)
      /\ read.code = "ok" /\ read.units = Published(pkg.shape, TableEntry)
  <2>1. phase = "deliver" /\ pkg' = pkg /\ Entry = TableEntry
    BY DEF Deliver, OpenDelivered, Entry
  <2>. QED BY <2>1, DeliveredWhole DEF ReadInv, ListingOk, ReadWhole, Reading
<1>0. PICK listed : listed = Listed(read.units)
  OBVIOUS
<1>2. ListingError(listed) = "ok" /\ \A i \in DOMAIN listed : Whole(listed[i])
  BY <1>0, <1>1, TableListed
<1>3. entries' = listed /\ Ended("ok") /\ call.op = "open"
  BY <1>0, <1>1, <1>2, Zenon DEF OpenDelivered
<1>4. EntriesWhole'
  <2>1. \A i \in DOMAIN listed : Whole(listed[i])'
    BY <1>1, <1>2, SameReading
  <2>. QED BY <1>3, <2>1 DEF EntriesWhole
<1>5. AnswersWhole'
  <2>1. answer'.op = "open" /\ answer'.code = "ok"
    BY <1>3 DEF Ended
  <2>. QED BY <2>1 DEF AnswersWhole
<1>. QED BY <1>3, <1>4, <1>5, EndedWhole

\* A single file is answered as published.
LEMMA FileDeliveredWhole ==
  ReadInv /\ Intact /\ WholeInv /\ Deliver /\ FileDelivered => WholeInv'
<1>. SUFFICES ASSUME ReadInv, Intact, WholeInv, Deliver, FileDelivered PROVE WholeInv'
  OBVIOUS
<1>1. /\ UNCHANGED <<pkg, entries>> /\ EntriesWhole' /\ phase = "deliver"
      /\ call.op \in {"entry", "name"} /\ Ended(read.code)
  BY SameHeld DEF Deliver, FileDelivered, WholeInv
<1>2. PICK n : n = at
  OBVIOUS
<1>3. read.code = "ok" /\ read.units = PublishedEntry(n + 1)
  <2>1. Entry = entries[n + 1]
    BY <1>1, <1>2 DEF Entry
  <2>. QED BY <1>1, <2>1, DeliveredWhole DEF PublishedEntry
<1>4. /\ answer'.op = call.op /\ answer'.code = "ok" /\ answer'.units = PublishedEntry(n + 1)
      /\ answer'.at = n
  BY <1>1, <1>2, <1>3 DEF Ended
<1>5. answer'.units = PublishedEntry(answer.at + 1)'
  BY <1>1, <1>4 DEF PublishedEntry
<1>6. AnswersWhole'
  BY <1>1, <1>4, <1>5 DEF AnswersWhole
<1>. QED BY <1>1, <1>6, EndedWhole

\* A file is gathered under its name, unless one before it was.
LEMMA MemoryDeliveredWhole ==
  ReadInv /\ Intact /\ WholeInv /\ Deliver /\ MemoryDelivered => WholeInv'
<1>. SUFFICES ASSUME ReadInv, Intact, WholeInv, Deliver, MemoryDelivered PROVE WholeInv'
  OBVIOUS
<1>1. /\ UNCHANGED <<pkg, entries, disk>> /\ EntriesWhole' /\ phase = "deliver" /\ Reading
      /\ call.op = "memory" /\ IsList(entries) /\ at \in Nat /\ at + 1 \in DOMAIN entries
  BY SameHeld DEF Deliver, MemoryDelivered, WholeInv, ReadInv, ListingOk, AtEntry, Reading
<1>2. PICK n, w, key : n = at /\ w = call.without /\ key = Key(at + 1)
  OBVIOUS
<1>3. /\ ~entries[n + 1].dir /\ key \notin w /\ Gathered(n, w) /\ key = Key(n + 1)
      /\ read.code = "ok" /\ read.units = PublishedEntry(n + 1)
  <2>1. Entry = entries[n + 1]
    BY <1>1, <1>2 DEF Entry
  <2>2. ~entries[n + 1].dir /\ key \notin w /\ Gathered(n, w)
    BY <1>1, <1>2, <2>1 DEF WholeInv, ReadsWanted, MemoryHeld
  <2>. QED BY <1>1, <1>2, <2>1, <2>2, DeliveredWhole DEF PublishedEntry
<1>4. /\ memory' = Remember(key, read.units) /\ call' = call
      /\ phase' = "next" /\ at' = n + 1
  BY <1>2, <1>3, Zenon DEF MemoryDelivered, Past
<1>5. /\ DOMAIN memory' = DOMAIN memory \cup {key}
      /\ \A k \in DOMAIN memory : memory'[k] = memory[k]
      /\ key \notin DOMAIN memory => memory'[key] = read.units
  BY <1>4 DEF Remember
<1>6. DOMAIN memory' = KeysUpTo(n + 1, w)
  <2>1. DOMAIN entries \subseteq Nat
    BY <1>1, LenProperties DEF IsList
  <2>2. \A j \in DOMAIN entries : j =< n + 1 <=> j =< n \/ j = n + 1
    BY <1>1, <1>2, <2>1
  <2>3. KeysUpTo(n + 1, w) = KeysUpTo(n, w) \cup {key}
    BY <1>1, <1>2, <1>3, <2>2 DEF KeysUpTo
  <2>. QED BY <1>3, <1>5, <2>3 DEF Gathered
<1>7. \A k \in DOMAIN memory' : memory'[k] = PublishedEntry(FirstOf(k))
  <2>1. ASSUME key \notin DOMAIN memory PROVE FirstOf(key) = n + 1
    <3>1. \A j \in FilesOf(key) : ~(j =< n)
      BY <1>3, <2>1 DEF FilesOf, Gathered, KeysUpTo
    <3>. QED BY <1>1, <1>2, <1>3, <3>1, FirstOfKey
  <2>2. \A k \in DOMAIN memory : memory[k] = PublishedEntry(FirstOf(k))
    BY <1>3 DEF Gathered, FirstsHeld
  <2>. QED BY <1>3, <1>5, <2>1, <2>2
<1>8. MemoryHeld'
  <2>1. PICK m : m = n + 1
    OBVIOUS
  <2>2. DOMAIN memory' = KeysUpTo(m, w)'
    BY <1>1, <1>6, <2>1, SameHeld
  <2>3. FirstsHeld'
    <3>1. \A k \in DOMAIN memory' : memory'[k] = PublishedEntry(FirstOf(k))'
      BY <1>1, <1>7 DEF PublishedEntry, FirstOf, FilesOf, Key
    <3>. QED BY <3>1 DEF FirstsHeld
  <2>4. Gathered(m, w)'
    BY <2>2, <2>3 DEF Gathered
  <2>5. m = at' /\ w = call'.without
    BY <1>2, <1>4, <2>1
  <2>. QED BY <2>4, <2>5 DEF MemoryHeld
<1>. QED BY <1>1, <1>4, <1>8 DEF WholeInv, ReadsAsPublished, ReadsWanted, DiskHeld, AnswersWhole, Reading

\* A file is laid at its path, over one laid there before it.
LEMMA DiskDeliveredWhole ==
  ReadInv /\ DiskInv /\ Intact /\ WholeInv /\ Deliver /\ DiskDelivered => WholeInv'
<1>. SUFFICES ASSUME ReadInv, DiskInv, Intact, WholeInv, Deliver, DiskDelivered PROVE WholeInv'
  OBVIOUS
<1>1. /\ UNCHANGED <<pkg, entries>> /\ EntriesWhole' /\ phase = "deliver" /\ Reading
      /\ call.op = "all" /\ IsList(entries) /\ at \in Nat /\ at + 1 \in DOMAIN entries
      /\ DiskShape
  BY SameHeld DEF Deliver, DiskDelivered, WholeInv, ReadInv, ListingOk, AtEntry, Reading, DiskInv
<1>2. PICK n, here : n = at /\ here = Destination
  OBVIOUS
<1>3. Entry = entries[n + 1] /\ ~entries[n + 1].dir
  BY <1>1, <1>2 DEF Entry, DiskInv, ReadsFile
<1>4. /\ read.code = "ok" /\ read.units = PublishedEntry(n + 1)
      /\ Len(read.units) = entries[n + 1].size
  BY <1>1, <1>3, DeliveredWhole DEF PublishedEntry, ReadInv, ReadWhole
<1>5. CASE Ended("IoError")
  <2>1. answer'.op = "all" /\ answer'.code # "ok"
    BY <1>1, <1>5 DEF Ended
  <2>2. AnswersWhole'
    BY <2>1 DEF AnswersWhole
  <2>. QED BY <1>1, <1>5, <2>2, EndedWhole
<1>6. CASE disk' = Stored(disk, Destination, read.units) /\ Past /\ UNCHANGED call
  <2>1. phase' = "next" /\ at' = n + 1
    BY <1>2, <1>6 DEF Past
  <2>2. disk'.files = [p \in DOMAIN disk.files \cup {here} |->
                         IF p = here THEN read.units ELSE disk.files[p]]
    <3>. DEFINE files == [p \in DOMAIN disk.files \cup {here} |->
                            IF p = here THEN read.units ELSE disk.files[p]]
    <3>1. disk' = [disk EXCEPT !.files = files]
      BY <1>2, <1>6 DEF Stored
    <3>. HIDE DEF files
    <3>2. disk'.files = files
      BY <1>1, <3>1 DEF DiskShape
    <3>. QED BY <3>2 DEF files
  <2>3. /\ DOMAIN disk'.files = DOMAIN disk.files \cup {here} /\ disk'.files[here] = read.units
        /\ \A p \in DOMAIN disk.files : p # here => disk'.files[p] = disk.files[p]
    BY <2>2
  <2>. HIDE DEF Stored
  <2>4. UNCHANGED <<Paths, entries>> /\ (n + 1) - 1 = n /\ here = Normal(Paths[n])
    BY <1>1, <1>2 DEF Paths, Destination
  <2>5. DOMAIN entries = 1 .. Len(entries) /\ Len(entries) \in Nat
    BY <1>1, LenProperties DEF IsList
  <2>6. LaidBy(here, n + 1)' /\ disk'.files[here] = PublishedEntry(n + 1)'
    <3>1. LaidBy(here, n + 1)'
      BY <1>1, <1>3, <1>4, <2>3, <2>4 DEF LaidBy
    <3>2. PublishedEntry(n + 1)' = PublishedEntry(n + 1)
      BY <1>1, SameHeld
    <3>. QED BY <1>4, <2>3, <3>1, <3>2
  <2>7. \A i \in DOMAIN entries : i =< n /\ LaidWhole(i) => LaidWhole(i)'
    <3>. SUFFICES ASSUME NEW i \in DOMAIN entries, i =< n, LaidWhole(i) PROVE LaidWhole(i)'
      OBVIOUS
    <3>1. PICK path : path = Normal(Paths[i - 1])
      OBVIOUS
    <3>2. path \in DOMAIN disk'.files
      BY <2>3, <3>1 DEF LaidWhole
    <3>3. \E j \in i .. Len(entries) : LaidBy(path, j)' /\ disk'.files[path] = PublishedEntry(j)'
      <4>1. CASE path = here
        <5>1. n + 1 \in i .. Len(entries)
          BY <1>1, <1>2, <2>5
        <5>. QED BY <2>6, <4>1, <5>1
      <4>2. CASE path # here
        <5>1. PICK j \in i .. Len(entries) : LaidBy(path, j) /\ disk.files[path] = PublishedEntry(j)
          BY <3>1 DEF LaidWhole
        <5>2. path \in DOMAIN disk.files
          BY <3>1 DEF LaidWhole
        <5>3. LaidBy(path, j)'
          BY <2>3, <2>4, <4>2, <5>1, <5>2 DEF LaidBy
        <5>4. disk'.files[path] = PublishedEntry(j)'
          BY <1>1, <2>3, <4>2, <5>1, <5>2, SameHeld
        <5>. QED BY <5>1, <5>3, <5>4
      <4>. QED BY <4>1, <4>2
    <3>4. Len(entries)' = Len(entries) /\ path = Normal(Paths'[i - 1])
      BY <2>4, <3>1
    <3>. QED BY <3>2, <3>3, <3>4 DEF LaidWhole
  <2>8. LaidWhole(n + 1)'
    <3>1. n + 1 \in (n + 1) .. Len(entries)'
      BY <1>1, <1>2, <2>5
    <3>2. here = Normal(Paths'[(n + 1) - 1]) /\ here \in DOMAIN disk'.files
      BY <2>3, <2>4
    <3>3. \E j \in (n + 1) .. Len(entries)' : LaidBy(here, j)' /\ disk'.files[here] = PublishedEntry(j)'
      BY <2>6, <3>1
    <3>. QED BY <3>2, <3>3 DEF LaidWhole
  <2>9. DiskHeld'
    <3>1. \A i \in DOMAIN entries : i =< n /\ ~entries[i].dir => LaidWhole(i)'
      BY <1>1, <1>2, <2>7 DEF WholeInv, DiskHeld
    <3>2. \A i \in DOMAIN entries : i =< n + 1 => i =< n \/ i = n + 1
      BY <1>1, <1>2, <2>5
    <3>. QED BY <1>1, <2>1, <2>8, <3>1, <3>2 DEF DiskHeld
  <2>. QED BY <1>1, <1>6, <2>1, <2>9
           DEF WholeInv, ReadsAsPublished, ReadsWanted, MemoryHeld, AnswersWhole, Reading
<1>. QED BY <1>4, <1>5, <1>6, Zenon DEF DiskDelivered

\* A refused call promises nothing: of an undamaged package only a name that is
\* not listed and the plan or the disk of extract_all are refused.
LEMMA RefusedWhole ==
  ASSUME ReadInv, WholeInv, phase = "idle", NEW op \in {"name", "all"}, NEW code, Refused(op, code),
         code # "ok", op = "name" => code = "NotFound"
  PROVE  WholeInv'
<1>1. /\ UNCHANGED <<pkg, entries, phase, call>>
      /\ answer' = [[NoAnswer EXCEPT !.op = op] EXCEPT !.code = code]
  BY DEF Refused
<1>2. answer'.op = op /\ answer'.code = code
  BY <1>1, Zenon DEF NoAnswer
<1>3. phase' = "idle" /\ call'.op = "none"
  BY <1>1 DEF ReadInv, CallOk
<1>4. EntriesWhole'
  BY <1>1, SameHeld DEF WholeInv
<1>5. AnswersWhole'
  BY <1>2 DEF AnswersWhole
<1>. QED BY <1>3, <1>4, <1>5 DEF WholeInv, ReadsAsPublished, ReadsWanted, MemoryHeld, DiskHeld, Reading

\* The file table begins to be read.
LEMMA OpenKeepsWhole == ReadInv /\ Intact /\ WholeInv /\ Open => WholeInv'
<1>. SUFFICES ASSUME ReadInv, Intact, WholeInv, Open PROVE WholeInv'
  OBVIOUS
<1>1. /\ pkg \in Package /\ Whole(TableEntry) /\ TableEntry.size > 0 /\ ~TableEntry.consecutive
      /\ HeaderError = "ok"
  BY TableWhole DEF ReadInv, ListingOk
<1>2. /\ Calls("open", FALSE, {}) /\ phase' = "walk"
      /\ read' = [NoRead EXCEPT !.block = TableEntry.start]
      /\ UNCHANGED <<pkg, entries, opened, at>>
  BY <1>1, Zenon DEF Open
<1>3. PICK e, r, p : e = TableEntry /\ r = read' /\ p = "walk"
  OBVIOUS
<1>4. /\ NoRead.units = << >> /\ NoRead.steps = 0
      /\ DOMAIN NoRead = {"block", "steps", "blocks", "units", "code"}
  BY DEF NoRead
<1>. HIDE DEF NoRead
<1>5. r.units = << >> /\ r.steps = 0 /\ r.block = e.start
  BY <1>2, <1>3, <1>4
<1>6. e.start \in Nat /\ e.size \in Nat /\ Ceiling(e.size) \in Nat
  BY <1>1, <1>3, CeilingBounds DEF Whole
<1>7. ReadingOk(p, e, r)
  <2>1. BlockOf(e, 0 + 1) = e.start
    BY <1>1, <1>3, <1>6, LinksOfChain DEF BlockOf
  <2>2. WalkOk(e, r)
    BY <1>1, <1>3, <1>5, <2>1 DEF WalkOk
  <2>3. r.steps =< Ceiling(e.size)
    BY <1>5, <1>6
  <2>. QED BY <1>1, <1>3, <1>5, <2>2, <2>3 DEF ReadingOk
<1>8. call'.op = "open" /\ Entry' = e /\ EntriesWhole'
  <2>1. call'.op = "open"
    BY <1>2 DEF Calls
  <2>. QED BY <1>2, <1>3, <2>1, SameHeld DEF Entry, TableEntry, WholeInv
<1>9. ReadsAsPublished'
  <2>1. ReadingOk(p, e, r)'
    BY <1>2, <1>7, SameReading
  <2>2. ReadingOk(phase, Entry, read)'
    BY <1>2, <1>3, <1>8, <2>1
  <2>. QED BY <2>2 DEF ReadsAsPublished
<1>. QED BY <1>2, <1>8, <1>9 DEF WholeInv, ReadsWanted, MemoryHeld, DiskHeld, AnswersWhole

\* A call for a single entry begins to read it, one for all of them begins with
\* nothing gathered or laid.
LEMMA AskKeepsWhole == ReadInv /\ Intact /\ WholeInv /\ Ask => WholeInv'
<1>. SUFFICES ASSUME ReadInv, Intact, WholeInv, Ask PROVE WholeInv'
  OBVIOUS
<1>1. IsList(entries) /\ DOMAIN entries = 1 .. Len(entries) /\ Len(entries) \in Nat /\ EntriesWhole
  BY LenProperties DEF ReadInv, ListingOk, IsList, WholeInv
<1>2. ASSUME NEW op \in {"entry", "name"}, UNCHANGED <<pkg, entries>>, call'.op = op,
             at' + 1 \in DOMAIN entries, ReadFrom(entries[at' + 1])
      PROVE  WholeInv'
  <2>1. ReadsAsPublished' /\ EntriesWhole' /\ phase' \in {"walk", "copy", "deliver"}
    BY <1>1, <1>2, BegunToRead
  <2>. QED BY <1>2, <2>1 DEF WholeInv, ReadsWanted, MemoryHeld, DiskHeld, AnswersWhole
<1>3. ASSUME NEW i \in DOMAIN entries, NEW verify, Extract(i - 1, verify) PROVE WholeInv'
  <2>1. at' = i - 1 /\ ReadFrom(entries[(i - 1) + 1])
    BY <1>3 DEF Extract
  <2>2. at' + 1 = i /\ (i - 1) + 1 = i
    BY <1>1, <2>1
  <2>3. ReadFrom(entries[at' + 1]) /\ at' + 1 \in DOMAIN entries
    BY <2>1, <2>2
  <2>4. UNCHANGED <<pkg, entries>> /\ call'.op = "entry"
    BY <1>3 DEF Extract, Calls
  <2>. QED BY <1>2, <2>3, <2>4
<1>4. ASSUME NEW key, ExtractFileByName(key) PROVE WholeInv'
  <2>1. CASE phase = "idle" /\ Refused("name", "NotFound")
    BY <2>1, RefusedWhole
  <2>2. CASE /\ FilesOf(key) # {} /\ Calls("name", FALSE, {})
             /\ at' = FirstOf(key) - 1
             /\ ReadFrom(entries[FirstOf(key)])
             /\ UNCHANGED <<pkg, entries, opened>>
    <3>1. FilesOf(key) \subseteq DOMAIN entries
      BY DEF FilesOf
    <3>2. \E i \in FilesOf(key) : \A j \in FilesOf(key) : i =< j
      <4>1. FilesOf(key) \subseteq Nat
        BY <1>1, <3>1
      <4>. QED BY <2>2, <4>1, NatLeast
    <3>3. FirstOf(key) \in DOMAIN entries
      BY <3>1, <3>2 DEF FirstOf
    <3>4. at' + 1 = FirstOf(key)
      <4>. HIDE DEF FirstOf
      <4>. QED BY <1>1, <2>2, <3>3
    <3>5. call'.op = "name"
      BY <2>2 DEF Calls
    <3>6. at' + 1 \in DOMAIN entries /\ ReadFrom(entries[at' + 1])
      BY <2>2, <3>3, <3>4
    <3>. QED BY <1>2, <2>2, <3>5, <3>6
  <2>. QED BY <1>4, <2>1, <2>2, Zenon DEF ExtractFileByName
<1>5. \A i \in DOMAIN entries : ~(i =< 0)
  BY <1>1
<1>6. ASSUME NEW op \in {"memory", "all"}, NEW verify, NEW without, Calls(op, verify, without),
             phase' = "next", at' = 0, UNCHANGED <<pkg, entries>>
      PROVE  WholeInv'
  <2>1. call'.op = op /\ call'.without = without /\ memory' = << >> /\ EntriesWhole'
    BY <1>1, <1>6, SameHeld DEF Calls
  <2>2. MemoryHeld'
    <3>1. KeysUpTo(0, without)' = {}
      BY <1>5, <1>6 DEF KeysUpTo
    <3>2. DOMAIN memory' = {} /\ FirstsHeld'
      BY <2>1 DEF FirstsHeld
    <3>3. PICK z : z = 0
      OBVIOUS
    <3>4. Gathered(z, without)'
      BY <3>1, <3>2, <3>3 DEF Gathered
    <3>. QED BY <1>6, <2>1, <3>3, <3>4 DEF MemoryHeld
  <2>3. DiskHeld'
    BY <1>5, <1>6 DEF DiskHeld
  <2>. QED BY <1>6, <2>1, <2>2, <2>3 DEF WholeInv, ReadsAsPublished, ReadsWanted, AnswersWhole, Reading
<1>7. ASSUME NEW without, ExtractToMemory(without) PROVE WholeInv'
  BY <1>6, <1>7, Zenon DEF ExtractToMemory
<1>8. ASSUME NEW verify, ExtractAll(verify) PROVE WholeInv'
  <2>1. \/ \E code : code # "ok" /\ Refused("all", code) /\ phase = "idle"
        \/ /\ Calls("all", verify, {}) /\ phase' = "next" /\ at' = 0
           /\ UNCHANGED <<pkg, entries>>
    BY <1>8, Zenon DEF ExtractAll
  <2>. QED BY <1>6, <2>1, RefusedWhole
<1>. QED BY <1>3, <1>4, <1>7, <1>8, OpenKeepsWhole, Zenon DEF Ask

\* The invariant of an undamaged package.
WholeIfIntact == Intact => WholeInv

LEMMA NextKeepsWhole ==
  ReadInv /\ DiskInv /\ WholeIfIntact /\ [Next]_vars => WholeIfIntact'
<1>. SUFFICES ASSUME ReadInv, DiskInv, WholeIfIntact, [Next]_vars, Intact' PROVE WholeInv'
  BY DEF WholeIfIntact
<1>1. pkg' = pkg
  BY Zenon DEF Next, Step, Ask, FollowBlockChain, CopyBlock, NextEntry, Deliver, Open, Refused, Extract,
               ExtractFileByName, ExtractToMemory, ExtractAll, vars
<1>2. Intact /\ WholeInv
  BY <1>1, SameReading DEF WholeIfIntact
<1>3. CASE UNCHANGED vars
  <2>1. UNCHANGED <<pkg, entries, call, phase, at, read, memory, disk, answer>>
    BY <1>3 DEF vars
  <2>2. PICK p, e, r, n, w, m, v : /\ p = phase /\ e = Entry /\ r = read /\ n = at /\ w = call.without
                                   /\ m = Len(entries) /\ v = answer.without
    OBVIOUS
  <2>3. Entry' = e /\ EntriesWhole'
    BY <1>2, <2>1, <2>2, SameHeld DEF Entry, TableEntry, WholeInv
  <2>4. ReadsAsPublished'
    <3>1. Reading => ReadingOk(p, e, r)'
      BY <1>1, <1>2, <2>2, SameReading DEF WholeInv, ReadsAsPublished
    <3>2. Reading => ReadingOk(phase, Entry, read)'
      BY <2>1, <2>2, <2>3, <3>1
    <3>. QED BY <2>1, <3>2 DEF ReadsAsPublished, Reading
  <2>5. ReadsWanted'
    BY <1>2, <2>1, <2>2, <2>3 DEF WholeInv, ReadsWanted, Reading, Key
  <2>6. MemoryHeld'
    <3>1. call.op = "memory" => Gathered(n, w)'
      BY <1>2, <2>1, <2>2, SameHeld DEF WholeInv, MemoryHeld
    <3>. QED BY <2>1, <2>2, <3>1 DEF MemoryHeld
  <2>7. DiskHeld'
    BY <1>2, <2>1, SameHeld DEF WholeInv, DiskHeld
  <2>8. AnswersWhole'
    <3>1. answer.op = "memory" /\ phase = "idle" => Gathered(m, v)'
      BY <1>2, <2>1, <2>2, SameHeld DEF WholeInv, AnswersWhole
    <3>2. answer.op = "memory" /\ phase = "idle" => Gathered(Len(entries), answer.without)'
      BY <2>1, <2>2, <3>1
    <3>3. answer.op = "all" /\ answer.code = "ok" /\ phase = "idle" =>
            \A i \in DOMAIN entries : ~entries[i].dir => LaidWhole(i)'
      BY <1>2, <2>1, SameHeld DEF WholeInv, AnswersWhole
    <3>4. answer.op \in {"entry", "name"} /\ answer.code = "ok" /\ phase = "idle" =>
            answer.units = PublishedEntry(answer.at + 1)'
      BY <1>2, <2>1 DEF WholeInv, AnswersWhole, PublishedEntry
    <3>. QED BY <1>2, <2>1, <3>2, <3>3, <3>4 DEF WholeInv, AnswersWhole
  <2>. QED BY <2>3, <2>4, <2>5, <2>6, <2>7, <2>8 DEF WholeInv
<1>4. CASE FollowBlockChain
  <2>1. ReadingOk(phase, Entry, read) /\ Reading /\ UNCHANGED <<pkg, entries, call, at, memory, disk>>
    BY <1>2, <1>4 DEF FollowBlockChain, WholeInv, ReadsAsPublished, Reading
  <2>. QED BY <1>2, <1>4, <2>1, FollowedWhole, ReadOn
<1>5. CASE CopyBlock
  <2>1. ReadingOk(phase, Entry, read) /\ Reading /\ UNCHANGED <<pkg, entries, call, at, memory, disk>>
    BY <1>2, <1>5 DEF CopyBlock, WholeInv, ReadsAsPublished, Reading
  <2>. QED BY <1>2, <1>5, <2>1, CopiedWhole, ReadOn
<1>6. CASE Deliver
  BY <1>2, <1>6, OpenDeliveredWhole, FileDeliveredWhole, MemoryDeliveredWhole, DiskDeliveredWhole DEF Deliver
<1>. QED BY <1>2, <1>3, <1>4, <1>5, <1>6, NextEntryKeepsWhole, AskKeepsWhole DEF Next, Step

\* ReadsBack: an undamaged package is not refused and reads back as published,
\* one entry at a time, in memory and on disk; and what extract_all puts on
\* disk of any package is whole.
THEOREM ReadsBackWhole == Spec => []ReadsBack
<1>1. Init => ReadInv /\ DiskInv /\ WholeIfIntact
  <2>. SUFFICES ASSUME Init PROVE ReadInv /\ DiskInv /\ WholeIfIntact
    OBVIOUS
  <2>1. IsList(<< >>) /\ DOMAIN << >> = {}
    BY EmptySeq DEF IsList
  <2>2. /\ NoCall.op = "none" /\ NoAnswer.op = "none"
        /\ DOMAIN NoRead = {"block", "steps", "blocks", "units", "code"}
    BY DEF NoCall, NoAnswer, NoRead
  <2>3. ReadInv
    BY <2>1, <2>2 DEF Init, ReadInv, ListingOk, ReadShape, CallOk, AtEntry, ReadWhole, Reading
  <2>4. DiskInv
    BY <2>2 DEF Init, DiskInv, DiskShape, FilesAreNoDirs, WrittenSoFar, ReadsFile, AllOnDisk,
                Reading, EmptyDisk
  <2>5. WholeInv
    BY <2>1, <2>2 DEF Init, WholeInv, EntriesWhole, ReadsAsPublished, ReadsWanted, MemoryHeld, DiskHeld,
                      AnswersWhole, Reading
  <2>. QED BY <2>3, <2>4, <2>5 DEF WholeIfIntact
<1>2. ReadInv /\ DiskInv /\ WholeIfIntact /\ [Next]_vars => (ReadInv /\ DiskInv /\ WholeIfIntact)'
  BY NextKeepsRead, NextKeepsDisk, NextKeepsWhole
<1>3. ReadInv /\ DiskInv /\ WholeIfIntact => ReadsBack
  <2>. SUFFICES ASSUME ReadInv, DiskInv, WholeIfIntact PROVE ReadsBack
    OBVIOUS
  <2>1. AllOnDisk
    BY DEF DiskInv
  <2>2. ASSUME Intact, phase = "idle"
        PROVE  /\ answer.op \in {"open", "entry", "memory"} => answer.code = "ok"
               /\ answer.op = "name" => answer.code \in {"ok", "NotFound"}
               /\ answer.op \in {"entry", "name"} /\ answer.code = "ok" =>
                    answer.units = PublishedEntry(answer.at + 1)
               /\ answer.op = "memory" => Gathered(Len(entries), answer.without)
               /\ answer.op = "all" /\ answer.code = "ok" =>
                    \A i \in DOMAIN entries : ~entries[i].dir => LaidWhole(i)
    BY <2>2 DEF WholeIfIntact, WholeInv, AnswersWhole
  <2>3. \A without : KeysUpTo(Len(entries), without)
                       = {Key(i) : i \in {j \in DOMAIN entries : ~entries[j].dir}} \ without
    <3>1. \A j \in DOMAIN entries : j =< Len(entries)
      BY LenProperties DEF ReadInv, ListingOk, IsList
    <3>. QED BY <3>1 DEF KeysUpTo
  <2>4. \A without : Gathered(Len(entries), without) =>
          /\ DOMAIN memory = {Key(i) : i \in {j \in DOMAIN entries : ~entries[j].dir}} \ without
          /\ \A k \in DOMAIN memory : memory[k] = PublishedEntry(FirstOf(k))
    BY <2>3 DEF Gathered, FirstsHeld
  <2>5. \A i : LaidWhole(i) => LET path == Normal(Paths[i - 1])
                               IN  \E j \in i .. Len(entries) :
                                     LaidBy(path, j) /\ disk.files[path] = PublishedEntry(j)
    BY DEF LaidWhole
  <2>. QED BY <2>1, <2>2, <2>4, <2>5, Zenon DEF ReadsBack
<1>. QED BY <1>1, <1>2, <1>3, PTL DEF Spec

=============================================================================
