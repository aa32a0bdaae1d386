------------------------- MODULE ImageLayoutProofs -------------------------
(***************************************************************************)
(* Proofs about the image layout, for every set of images run_build        *)
(* assembles: whatever the lengths of their parts, what payload_layout     *)
(* accepts is laid whole, is not lost, keeps off the files' area, and is   *)
(* planned alike when it is sealed and when it is read back.               *)
(***************************************************************************)
EXTENDS ImageLayout, TLAPS, SequenceTheorems, WellFoundedInduction

---------------------------------------------------------------------------
(* Geometry.                                                               *)

\* What the shape of an image says of its blocks.
LEMMA Shape ==
  ASSUME NEW i, i \in ImageRecord
  PROVE  \/ /\ i.shape = "small" /\ BlockSize(i) = 16384 /\ ImageSize(i) = 16777216
            /\ DataBlockLimit(i) = 988 /\ SmcConfigBlock(i) = 991
            /\ SlotRound(i) = 65536 /\ RetailSlotOffset(i) = 458752
         \/ /\ i.shape = "small64" /\ BlockSize(i) = 16384 /\ ImageSize(i) = 67108864
            /\ DataBlockLimit(i) = 3964 /\ SmcConfigBlock(i) = 3967
            /\ SlotRound(i) = 65536 /\ RetailSlotOffset(i) = 458752
         \/ /\ i.shape = "big" /\ BlockSize(i) = 131072 /\ ImageSize(i) = 67108864
            /\ DataBlockLimit(i) = 476 /\ SmcConfigBlock(i) = 479
            /\ SlotRound(i) = 131072 /\ RetailSlotOffset(i) = 524288
         \/ /\ i.shape = "emmc" /\ BlockSize(i) = 16384 /\ ImageSize(i) = 50331648
            /\ DataBlockLimit(i) = 3066 /\ SmcConfigBlock(i) = 3071
            /\ SlotRound(i) = 65536 /\ RetailSlotOffset(i) = 458752
<1>1. i.shape \in {"small", "small64", "big", "emmc"}
  BY SMT DEF ImageRecord, Shapes
<1>2. CASE i.shape = "small"
  <2>1. BlockCount(i) = 1024 /\ BlockSize(i) = 16384
    BY SMT, <1>2 DEF BlockCount, BlockSize
  <2>2. ReserveBlock(i) = 992
    BY SMT, <1>2, <2>1 DEF ReserveBlock, Min
  <2>. QED BY SMT, <1>2, <2>1, <2>2
           DEF ImageSize, DataBlockLimit, SmcConfigBlock, SlotRound, RetailSlotOffset
<1>3. CASE i.shape = "small64"
  <2>1. BlockCount(i) = 4096 /\ BlockSize(i) = 16384
    BY SMT, <1>3 DEF BlockCount, BlockSize
  <2>2. ReserveBlock(i) = 3968
    BY SMT, <1>3, <2>1 DEF ReserveBlock, Min
  <2>. QED BY SMT, <1>3, <2>1, <2>2
           DEF ImageSize, DataBlockLimit, SmcConfigBlock, SlotRound, RetailSlotOffset
<1>4. CASE i.shape = "big"
  <2>1. BlockCount(i) = 512 /\ BlockSize(i) = 131072
    BY SMT, <1>4 DEF BlockCount, BlockSize
  <2>2. ReserveBlock(i) = 480
    BY SMT, <1>4, <2>1 DEF ReserveBlock, Min
  <2>. QED BY SMT, <1>4, <2>1, <2>2
           DEF ImageSize, DataBlockLimit, SmcConfigBlock, SlotRound, RetailSlotOffset
<1>5. CASE i.shape = "emmc"
  <2>1. BlockCount(i) = 3072 /\ BlockSize(i) = 16384
    BY SMT, <1>5 DEF BlockCount, BlockSize
  <2>2. ReserveBlock(i) = 3072
    BY SMT, <1>5, <2>1 DEF ReserveBlock, Min
  <2>3. DataBlockLimit(i) = 3066
    BY SMT, <1>5, <2>1, <2>2 DEF DataBlockLimit, Min
  <2>. QED BY SMT, <1>5, <2>1, <2>2, <2>3 DEF ImageSize, SmcConfigBlock, SlotRound, RetailSlotOffset
<1>. QED BY SMT, <1>1, <1>2, <1>3, <1>4, <1>5

\* The lengths of an image are naturals within bounds.
Sized(n) == n \in Nat /\ n <= \h100000

LEMMA Sizes ==
  ASSUME NEW i, i \in ImageRecord
  PROVE  /\ i.preserve \in BOOLEAN /\ i.console \in BOOLEAN /\ i.xell \in BOOLEAN
         /\ i.payload \in BOOLEAN /\ i.fuses \in BOOLEAN /\ i.mfg \in BOOLEAN
         /\ i.type \in Types /\ i.patch \in {"none", "jtag", "glitch"}
         /\ Sized(i.base) /\ Sized(i.stride) /\ Sized(i.smc) /\ Sized(i.chain)
         /\ Sized(i.rebooter) /\ Sized(i.patchSize) /\ Sized(i.extraCb) /\ Sized(i.extraCd)
         /\ Sized(i.cf[0]) /\ Sized(i.cf[1]) /\ Sized(i.cg[0]) /\ Sized(i.cg[1])
<1>1. \A x \in Lengths : Sized(x)
  <2>1. MaxLength \in Nat
    BY SMT DEF MaxLength
  <2>2. \A x \in Lengths : x \in Nat /\ x <= MaxLength
    BY SMT, <2>1 DEF Lengths
  <2>. QED BY SMT, <2>2 DEF Sized, MaxLength
<1>2. /\ i.preserve \in BOOLEAN /\ i.console \in BOOLEAN /\ i.xell \in BOOLEAN
      /\ i.payload \in BOOLEAN /\ i.fuses \in BOOLEAN /\ i.mfg \in BOOLEAN
      /\ i.type \in Types /\ i.patch \in {"none", "jtag", "glitch"}
  BY SMT DEF ImageRecord
<1>3. /\ i.base \in Lengths /\ i.stride \in Lengths /\ i.smc \in Lengths
      /\ i.chain \in Lengths /\ i.rebooter \in Lengths /\ i.patchSize \in Lengths
      /\ i.extraCb \in Lengths /\ i.extraCd \in Lengths
  BY SMT DEF ImageRecord
<1>4. i.cf \in [0 .. 1 -> Lengths] /\ i.cg \in [0 .. 1 -> Lengths]
  BY SMT DEF ImageRecord
<1>5. /\ i.cf[0] \in Lengths /\ i.cf[1] \in Lengths
      /\ i.cg[0] \in Lengths /\ i.cg[1] \in Lengths
  BY SMT, <1>4
<1>. QED BY SMT, <1>1, <1>2, <1>3, <1>5

\* Rounding up to 16 bytes, and to a block of the layout.
LEMMA Rounding ==
  ASSUME NEW n, n \in Nat
  PROVE  /\ Align16(n) \in Nat /\ Align16(n) >= n /\ Align16(n) < n + 16
         /\ BlockEnd(n) \in Nat /\ BlockEnd(n) >= n /\ BlockEnd(n) < n + 16384
BY SMT DEF Align16, BlockEnd, RoundUp, kLayBlockSize
---------------------------------------------------------------------------
(* The plan of an image.                                                   *)

PlanFor(i, p) ==
  /\ p.glitch \in BOOLEAN /\ p.jtag \in BOOLEAN
  /\ p.base \in Nat /\ \h8000 <= p.base /\ p.base <= \h130000 /\ p.base % \h4000 = 0
  /\ i.type # "devkit" => /\ p.base \in {\h70000, \h80000, \hB0000, \hC0000, \hD0000, \hE0000}
                          /\ p.overlay # \h90000
  /\ p.stride \in {\h10000, \h20000}
  /\ p.overlay = p.base + p.stride
  /\ p.window = \h90000
  /\ p.xell \in {\h70000, \h95060}
  /\ p.jtag <=> i.type = "jtag"
  /\ p.jtag => p.base = \h70000 /\ p.stride = \h10000 /\ p.xell = \h95060
  /\ p.glitch /\ ~p.jtag => p.xell = \h70000
  /\ i.patch = "glitch" => p.glitch
  /\ Manufacturing(i) => p.fuses = p.overlay /\ p.prefix = \h60
  /\ ~Manufacturing(i) => p.fuses = \h95000 /\ p.prefix = \h10

\* Where the XeLL lies.
LEMMA XellPlace ==
  ASSUME NEW i, NEW g \in BOOLEAN, NEW t \in BOOLEAN
  PROVE  /\ XellOffset(i, g, t) \in {\h70000, \h95060}
         /\ t => XellOffset(i, g, t) = \h95060
         /\ g /\ ~t => XellOffset(i, g, t) = \h70000
         /\ i.rebooter = 0 /\ ~t => XellOffset(i, g, t) = \h70000
BY SMT DEF XellOffset, kJtagWindowOffset, kXellOffset

\* Where the slots lie behind a XeLL.
LEMMA SlotPlace ==
  ASSUME NEW i, i \in ImageRecord, NEW g \in BOOLEAN, NEW t \in BOOLEAN
  PROVE  /\ SlotBehindXell(i, g, t) \in {\h70000, \h80000, \hB0000, \hC0000}
         /\ t => SlotBehindXell(i, g, t) = \h70000
         /\ ~t => SlotBehindXell(i, g, t) \in IF i.shape = "big" THEN {\h80000, \hC0000}
                                                               ELSE {\h70000, \hB0000}
<1>. DEFINE x == XellOffset(i, g, t)
            b == IF t THEN kJtagSlotOffset ELSE RetailSlotOffset(i)
            c == RoundUp(x + kXellSize, SlotRound(i))
<1>1. x \in {\h70000, \h95060} /\ (t => x = \h95060)
  BY SMT, XellPlace
<1>2. b \in {\h70000, \h80000} /\ (t => b = \h70000)
      /\ (~t => b = IF i.shape = "big" THEN \h80000 ELSE \h70000)
  BY SMT, Shape DEF kJtagSlotOffset
<1>3. x = \h70000 => c = IF i.shape = "big" THEN \hC0000 ELSE \hB0000
  BY SMT, Shape DEF RoundUp, kXellSize
<1>4. SlotBehindXell(i, g, t) = IF i.xell /\ x <= b THEN Max({b, c}) ELSE b
  BY SMT DEF SlotBehindXell
<1>. HIDE DEF x, b, c
<1>5. CASE i.xell /\ x <= b
  <2>1. x = \h70000
    BY SMT, <1>1, <1>2, <1>5
  <2>2. c \in {\hB0000, \hC0000} /\ ~t
    BY SMT, <1>1, <1>3, <2>1
  <2>3. b \in Int /\ c \in Int /\ c >= b
    BY SMT, <1>2, <2>2
  <2>4. Max({b, c}) = c
    BY SMT, <2>3 DEF Max
  <2>. QED BY SMT, <1>4, <1>5, <1>3, <2>1, <2>2, <2>4
<1>6. CASE ~(i.xell /\ x <= b)
  BY SMT, <1>2, <1>4, <1>6
<1>. QED BY SMT, <1>5, <1>6

\* Where a development image's slots lie.
LEMMA DevPlace ==
  ASSUME NEW i, i \in ImageRecord
  PROVE  /\ RoundUp(kDevglSlotOffset, SlotRound(i)) = IF i.shape = "big" THEN \hE0000 ELSE \hD0000
         /\ RoundUp(BootChainEnd(i), BlockSize(i)) \in Nat
         /\ BootChainEnd(i) <= RoundUp(BootChainEnd(i), BlockSize(i))
         /\ RoundUp(BootChainEnd(i), BlockSize(i)) <= \h130000
         /\ RoundUp(BootChainEnd(i), BlockSize(i)) % \h4000 = 0
<1>1. RoundUp(kDevglSlotOffset, SlotRound(i)) = IF i.shape = "big" THEN \hE0000 ELSE \hD0000
  BY SMT, Shape DEF RoundUp, kDevglSlotOffset
<1>. DEFINE n == BootChainEnd(i)
<1>2. n \in Nat /\ \h8000 <= n /\ n <= \h108010
  BY SMT, Sizes, Rounding DEF Sized, BootChainEnd, kEntryOffset
<1>. HIDE DEF n
<1>3. BlockSize(i) \in {\h4000, \h20000}
  BY SMT, Shape
<1>4. CASE BlockSize(i) = \h4000
  <2>1. RoundUp(n, \h4000) \in Nat /\ n <= RoundUp(n, \h4000)
        /\ RoundUp(n, \h4000) <= \h130000 /\ RoundUp(n, \h4000) % \h4000 = 0
    BY SMT, <1>2 DEF RoundUp
  <2>. QED BY SMT, <1>1, <1>4, <2>1 DEF n
<1>5. CASE BlockSize(i) = \h20000
  <2>1. RoundUp(n, \h20000) \in Nat /\ n <= RoundUp(n, \h20000)
        /\ RoundUp(n, \h20000) <= \h130000 /\ RoundUp(n, \h20000) % \h4000 = 0
    BY SMT, <1>2 DEF RoundUp
  <2>. QED BY SMT, <1>1, <1>5, <2>1 DEF n
<1>. QED BY SMT, <1>3, <1>4, <1>5

\* Which patch set an image of each type has.
LEMMA PatchOfType ==
  ASSUME NEW i, i \in ImageRecord, Assembled(i)
  PROVE  /\ i.type \in {"retail", "glitch", "glitch2m", "jtag", "devkit", "devgl"}
         /\ i.patch = "jtag" => i.type = "jtag"
         /\ i.type = "jtag" => i.patch \in {"none", "jtag"}
         /\ i.type \in {"glitch", "glitch2m", "devgl"} => i.patch = "glitch"
<1>1. i.type \in {"retail", "glitch", "glitch2m", "jtag", "devkit", "devgl"}
  BY SMT, Sizes DEF Assembled, Types
<1>2. CASE i.type = "jtag"
  <2>1. i.patch \in {"none", "jtag"}
    BY SMT, <1>2 DEF Assembled
  <2>. QED BY SMT, <1>2, <2>1
<1>3. CASE i.type \in {"retail", "devkit"}
  <2>1. i.patch \in {"none", "glitch"}
    BY SMT, <1>3 DEF Assembled
  <2>. QED BY SMT, <1>3, <2>1
<1>4. CASE i.type \in {"glitch", "glitch2m", "devgl"}
  <2>1. i.patch \in {"glitch"}
    BY SMT, <1>4 DEF Assembled
  <2>. QED BY SMT, <1>4, <2>1
<1>. QED BY SMT, <1>1, <1>2, <1>3, <1>4

\* The plan of a fresh image.
LEMMA FreshPlan ==
  ASSUME NEW i, i \in ImageRecord, Assembled(i)
  PROVE  PlanFor(i, Plan(i))
<1>. DEFINE g == IsGlitchBuild(i.type) \/ i.patch = "glitch"
                 \/ (i.xell /\ i.base = GlitchSlotOffset(i))
            t == IsJtag(i)
            p == Plan(i)
            b == UpdateBase(i, g, t)
<1>1. g \in BOOLEAN /\ t \in BOOLEAN /\ p = MakePlan(i, g, t)
  <2>1. g \in BOOLEAN
    OBVIOUS
  <2>2. t \in BOOLEAN
    BY SMT DEF IsJtag
  <2>3. p = MakePlan(i, g, t)
    BY DEF Plan
  <2>. QED BY SMT, <2>1, <2>2, <2>3
<1>2. t <=> i.type = "jtag"
  BY SMT, PatchOfType DEF IsJtag
<1>3. i.patch = "glitch" => g
  OBVIOUS
<1>4. ~i.preserve
  BY SMT DEF Assembled
<1>. HIDE DEF g, t, b
<1>5. SlotSize(i) \in {\h10000, \h20000} /\ (t => SlotSize(i) = \h10000)
      /\ (~t => SlotSize(i) = IF i.shape = "big" THEN \h20000 ELSE \h10000)
  BY SMT, <1>4 DEF SlotSize, t
<1>6. /\ b \in Nat /\ \h8000 <= b /\ b <= \h130000 /\ b % \h4000 = 0
      /\ i.type # "devkit" => b \in {\h70000, \h80000, \hB0000, \hC0000, \hD0000, \hE0000}
      /\ t => b = \h70000
      /\ i.type # "devkit" => b + SlotSize(i) # \h90000
  <2>1. CASE i.type = "devkit"
    <3>1. b = RoundUp(BootChainEnd(i), BlockSize(i))
      BY SMT, <1>4, <2>1 DEF b, UpdateBase
    <3>2. \h8000 <= BootChainEnd(i) /\ BootChainEnd(i) \in Nat
      BY SMT, Sizes, Rounding DEF Sized, BootChainEnd, kEntryOffset
    <3>. QED BY SMT, <1>2, <2>1, <3>1, <3>2, DevPlace
  <2>2. CASE i.type = "devgl"
    <3>1. b = RoundUp(kDevglSlotOffset, SlotRound(i))
      BY SMT, <1>4, <2>2 DEF b, UpdateBase
    <3>. QED BY SMT, <1>2, <1>5, <2>2, <3>1, DevPlace
  <2>3. CASE i.type # "devkit" /\ i.type # "devgl"
    <3>1. b = SlotBehindXell(i, g, t)
      BY SMT, <1>4, <2>3 DEF b, UpdateBase
    <3>. QED BY SMT, <1>1, <1>5, <2>3, <3>1, SlotPlace
  <2>. QED BY SMT, <2>1, <2>2, <2>3
<1>7. /\ p.glitch = g /\ p.jtag = t /\ p.base = b /\ p.stride = SlotSize(i)
      /\ p.overlay = b + SlotSize(i) /\ p.window = \h90000
      /\ p.xell = XellOffset(i, g, t)
      /\ p.fuses = IF Manufacturing(i) THEN b + SlotSize(i) ELSE \h95000
      /\ p.prefix = IF Manufacturing(i) THEN \h60 ELSE \h10
  BY SMT, <1>1 DEF MakePlan, b, kJtagWindowOffset
<1>. HIDE DEF p
<1>8. /\ p.xell \in {\h70000, \h95060} /\ (t => p.xell = \h95060)
      /\ (g /\ ~t => p.xell = \h70000)
  BY SMT, <1>1, <1>7, XellPlace
<1>9. PlanFor(i, p)
  BY SMT, <1>1, <1>2, <1>3, <1>5, <1>6, <1>7, <1>8 DEF PlanFor
<1>. QED BY SMT, <1>9 DEF p
---------------------------------------------------------------------------
(* What is read back of an image, and its plan.                            *)

\* An image j, with its plan q, as it is read back of the image i.
ReadFrom(i, p, j, q) ==
  /\ j.shape = i.shape /\ j.preserve /\ j.smc = i.smc /\ j.chain = i.chain
  /\ j.cf = i.cf /\ j.cg = i.cg /\ j.console = i.console
  /\ ~j.payload /\ j.extraCb = 0 /\ j.extraCd = 0
  /\ q.base = p.base /\ q.stride = p.stride /\ q.overlay = p.overlay /\ q.window = p.window
  /\ q.glitch \in BOOLEAN /\ q.jtag \in BOOLEAN /\ j.xell \in BOOLEAN /\ j.fuses \in BOOLEAN
  /\ q.xell \in Nat /\ q.fuses \in Nat
  /\ j.patch \in {"none", "glitch"}
  /\ j.patch = "glitch" =>
       /\ i.patch = "glitch" /\ j.patchSize = i.patchSize /\ i.patchSize > 4
       /\ q.prefix = p.prefix /\ i.type # "devkit" /\ q.glitch
       /\ Manufacturing(i) => j.fuses
  /\ j.xell => i.xell /\ q.xell = p.xell
  /\ j.fuses => /\ q.fuses = p.fuses
                /\ i.fuses \/ (Manufacturing(i) /\ j.patch = "glitch")
  /\ q.jtag => j.type = "jtag"
  /\ j.type = "jtag" => /\ i.xell /\ p.xell = \h95060 /\ ~Manufacturing(i)
                        /\ i.patch # "glitch" /\ i.type \in {"retail", "jtag"}
  /\ j.rebooter # 0 => j.rebooter = \h1000 /\ j.type = "jtag" /\ i.rebooter # 0

LEMMA ReadBack ==
  ASSUME NEW i, i \in ImageRecord, Assembled(i)
  PROVE  ReadFrom(i, Plan(i), Reparsed(i), Plan(Reparsed(i)))
<1>. DEFINE p      == Plan(i)
            header == EncodedHeader(i, p)
            j      == Reparsed(i)
            q      == Plan(j)
            devkit == i.type \in {"devkit", "devgl"}
            khv    == i.patch = "glitch" /\ i.patchSize > 4
            byKhv  == CASE devkit -> IF i.type = "devgl" /\ khv /\ p.prefix = \h60
                                     THEN "devgl" ELSE "devkit"
                        [] ~devkit /\ khv -> IF p.prefix = \h10 THEN "glitch" ELSE "glitch2m"
                        [] OTHER -> "none"
            front  == i.xell /\ ~devkit /\ p.xell = kXellOffset
            window == /\ i.xell /\ ~front /\ byKhv = "none"
                      /\ header.base # GlitchSlotOffset(i)
            type   == CASE byKhv # "none" -> byKhv
                        [] byKhv = "none" /\ front -> "glitch"
                        [] byKhv = "none" /\ window -> "jtag"
                        [] OTHER -> "none"
            has    == byKhv \in {"glitch", "glitch2m", "devgl"}
            xell   == front \/ window
            fuses  == type \in {"glitch2m", "devgl"}
                      \/ (type = "jtag" /\ i.fuses /\ p.fuses = p.window + \h5000)
            mfg    == byKhv \in {"glitch2m", "devgl"}
            g      == IsGlitchBuild(j.type) \/ j.patch = "glitch"
                      \/ (j.xell /\ j.base = GlitchSlotOffset(j))
            t      == IsJtag(j)
<1>1. j = [i EXCEPT !.type = type, !.preserve = TRUE,
                 !.base = header.base, !.stride = header.stride,
                 !.xell = xell, !.payload = FALSE, !.fuses = fuses,
                 !.rebooter = IF type = "jtag" /\ i.rebooter # 0 THEN \h1000 ELSE 0,
                 !.patch = IF has THEN "glitch" ELSE "none",
                 !.patchSize = IF has THEN @ ELSE 0, !.mfg = mfg,
                 !.extraCb = 0, !.extraCd = 0]
  BY SMT DEF Reparsed
<1>2. header.base = p.base /\ header.stride = p.stride
  BY SMT DEF EncodedHeader
<1>3. PlanFor(i, p)
  BY SMT, FreshPlan
<1>4. /\ byKhv \in {"none", "devkit", "devgl", "glitch", "glitch2m"}
      /\ devkit <=> byKhv \in {"devkit", "devgl"}
      /\ byKhv = "devgl" => khv /\ p.prefix = \h60 /\ i.type = "devgl"
      /\ byKhv \in {"glitch", "glitch2m"} => khv
      /\ byKhv = "glitch" => p.prefix = \h10
      /\ byKhv = "glitch2m" => p.prefix # \h10
      /\ byKhv = "none" => ~khv
      /\ i.type = "devgl" /\ khv /\ p.prefix = \h60 => byKhv = "devgl"
  <2>1. CASE devkit
    BY SMT, <2>1
  <2>2. CASE ~devkit /\ khv
    <3>1. byKhv = IF p.prefix = \h10 THEN "glitch" ELSE "glitch2m"
      BY SMT, <2>2
    <3>. QED BY SMT, <2>2, <3>1
  <2>3. CASE ~devkit /\ ~khv
    <3>1. byKhv = "none"
      BY SMT, <2>3
    <3>. QED BY SMT, <2>3, <3>1
  <2>. QED BY SMT, <2>1, <2>2, <2>3
<1>5. /\ type \in {"none", "jtag", "devkit", "devgl", "glitch", "glitch2m"}
      /\ type = "jtag" => byKhv = "none" /\ window
      /\ type = "devkit" <=> byKhv = "devkit"
      /\ type = "devgl" <=> byKhv = "devgl"
      /\ type = "glitch2m" <=> byKhv = "glitch2m"
      /\ type = "glitch" => byKhv = "glitch" \/ (byKhv = "none" /\ front)
      /\ byKhv = "glitch" => type = "glitch"
      /\ window => type = "jtag"
      /\ byKhv = "none" /\ front => type = "glitch"
  <2>. HIDE DEF byKhv, front, devkit, khv
  <2>1. CASE byKhv # "none"
    <3>1. type = byKhv /\ ~window
      BY SMT, <2>1
    <3>. QED BY SMT, <1>4, <2>1, <3>1
  <2>2. CASE byKhv = "none" /\ front
    <3>1. type = "glitch" /\ ~window
      BY SMT, <2>2
    <3>. QED BY SMT, <2>2, <3>1
  <2>3. CASE byKhv = "none" /\ ~front /\ window
    <3>1. type = "jtag"
      BY SMT, <2>3
    <3>. QED BY SMT, <2>3, <3>1
  <2>4. CASE byKhv = "none" /\ ~front /\ ~window
    <3>1. type = "none"
      BY SMT, <2>4
    <3>. QED BY SMT, <2>4, <3>1
  <2>. QED BY SMT, <2>1, <2>2, <2>3, <2>4
<1>6. /\ front \in BOOLEAN /\ window \in BOOLEAN /\ has \in BOOLEAN /\ xell \in BOOLEAN
      /\ fuses \in BOOLEAN /\ mfg \in BOOLEAN
  <2>. HIDE DEF p, j, q, header, byKhv, type, khv, devkit
  <2>. QED BY SMT, Sizes
<1>. HIDE DEF p, j, q, header, byKhv, type, has, xell, fuses, mfg, g, t
<1>7. /\ j.type = type /\ j.preserve = TRUE /\ j.base = p.base /\ j.stride = p.stride
      /\ j.xell = xell /\ j.payload = FALSE /\ j.fuses = fuses
      /\ j.rebooter = (IF type = "jtag" /\ i.rebooter # 0 THEN \h1000 ELSE 0)
      /\ j.patch = (IF has THEN "glitch" ELSE "none")
      /\ j.patchSize = (IF has THEN i.patchSize ELSE 0)
      /\ j.mfg = mfg /\ j.extraCb = 0 /\ j.extraCd = 0
      /\ j.shape = i.shape /\ j.smc = i.smc /\ j.chain = i.chain
      /\ j.cf = i.cf /\ j.cg = i.cg /\ j.console = i.console
  BY SMT, <1>1, <1>2 DEF ImageRecord
<1>8. j.type = "jtag" => /\ i.xell /\ p.xell = \h95060 /\ i.type \in {"retail", "jtag"}
                         /\ i.patch # "glitch" /\ ~Manufacturing(i)
  <2>1. SUFFICES ASSUME type = "jtag"
                 PROVE  /\ i.xell /\ p.xell = \h95060 /\ i.type \in {"retail", "jtag"}
                        /\ i.patch # "glitch" /\ ~Manufacturing(i)
    BY SMT, <1>7
  <2>2. window /\ ~devkit /\ ~khv
    BY SMT, <1>4, <1>5, <2>1
  <2>3. i.xell /\ p.xell = \h95060
    BY SMT, <1>3, <2>2 DEF PlanFor, kXellOffset
  <2>4. i.patch # "glitch"
    BY SMT, <1>3, <2>2, <2>3, PatchOfType DEF PlanFor
  <2>5. i.type \in {"retail", "jtag"}
    BY SMT, <2>2, <2>4, PatchOfType
  <2>6. ~Manufacturing(i)
    BY SMT, <2>4, <2>5 DEF Manufacturing, Assembled
  <2>. QED BY SMT, <2>3, <2>4, <2>5, <2>6
<1>9. has => khv
  BY SMT, <1>4 DEF has
<1>13. g \in BOOLEAN /\ t \in BOOLEAN /\ (t <=> j.type = "jtag")
  <2>1. j.patch # "jtag"
    BY SMT, <1>7
  <2>. QED BY <2>1 DEF g, t, IsJtag
<1>14. j.patch = "glitch" => g
  BY DEF g
<1>21. /\ j.xell \in BOOLEAN /\ (j.xell <=> front \/ window)
       /\ j.mfg \in BOOLEAN /\ (j.mfg <=> byKhv \in {"glitch2m", "devgl"})
       /\ j.fuses \in BOOLEAN /\ (j.fuses <=> fuses)
       /\ j.patch = "glitch" <=> byKhv \in {"glitch", "glitch2m", "devgl"}
  <2>1. j.xell = xell /\ j.mfg = mfg /\ j.fuses = fuses
    BY SMT, <1>7
  <2>2. j.patch = "glitch" <=> has
    BY SMT, <1>7
  <2>. HIDE DEF front, window
  <2>3. xell <=> front \/ window
    BY DEF xell
  <2>4. mfg <=> byKhv \in {"glitch2m", "devgl"}
    BY DEF mfg
  <2>5. has <=> byKhv \in {"glitch", "glitch2m", "devgl"}
    BY DEF has
  <2>. QED BY <1>6, <2>1, <2>2, <2>3, <2>4, <2>5
<1>10. /\ q.glitch = g /\ q.jtag = t /\ q.base = UpdateBase(j, g, t)
       /\ q.stride = SlotSize(j) /\ q.overlay = q.base + q.stride
       /\ q.window = kJtagWindowOffset /\ q.xell = XellOffset(j, g, t)
       /\ q.fuses = IF Manufacturing(j) THEN q.base + q.stride ELSE kJtagWindowOffset + \h5000
       /\ q.prefix = IF Manufacturing(j) THEN \h60 ELSE \h10
  <2>1. q = MakePlan(j, g, t)
    BY DEF q, Plan, g, t
  <2>. QED BY SMT, <1>13, <2>1 DEF MakePlan
<1>11. q.base = p.base /\ q.stride = p.stride
  <2>1. p.base # 0 /\ p.stride # 0
    BY SMT, <1>3 DEF PlanFor
  <2>2. j.preserve /\ j.base # 0 /\ j.stride # 0
    BY SMT, <1>7, <2>1
  <2>3. UpdateBase(j, g, t) = j.base /\ SlotSize(j) = j.stride
    BY SMT, <2>2 DEF UpdateBase, SlotSize
  <2>. QED BY SMT, <1>7, <1>10, <2>3
<1>12. q.overlay = p.overlay /\ q.window = p.window
  BY SMT, <1>3, <1>10, <1>11 DEF PlanFor, kJtagWindowOffset
<1>15. j.xell \in BOOLEAN /\ (j.xell => i.xell /\ q.xell = p.xell)
  <2>. HIDE DEF front, window
  <2>1. CASE front
    <3>1. j.type # "jtag" /\ p.xell = \h70000 /\ i.xell
      <4>1. type # "jtag" /\ p.xell = kXellOffset /\ i.xell
        BY SMT, <1>5, <2>1 DEF front, window
      <4>. QED BY SMT, <1>7, <4>1 DEF kXellOffset
    <3>2. j.rebooter = 0
      BY SMT, <1>7, <3>1
    <3>3. XellOffset(j, g, t) = \h70000
      BY SMT, <1>13, <3>1, <3>2, XellPlace
    <3>. QED BY SMT, <1>10, <1>21, <3>1, <3>3
  <2>2. CASE window
    <3>1. j.type = "jtag"
      BY SMT, <1>5, <1>7, <2>2
    <3>2. XellOffset(j, g, t) = \h95060
      <4>1. t
        BY <1>13, <3>1
      <4>. QED BY SMT, <4>1 DEF XellOffset, kJtagWindowOffset
    <3>. QED BY SMT, <1>8, <1>10, <1>21, <3>1, <3>2
  <2>3. CASE ~front /\ ~window
    BY SMT, <1>21, <2>3
  <2>. QED BY SMT, <2>1, <2>2, <2>3
<1>16. /\ j.patch \in {"none", "glitch"}
       /\ j.patch = "glitch" =>
            /\ i.patch = "glitch" /\ j.patchSize = i.patchSize /\ i.patchSize > 4
            /\ q.prefix = p.prefix /\ i.type # "devkit" /\ q.glitch
            /\ Manufacturing(i) => j.fuses
  <2>1. j.patch \in {"none", "glitch"}
    BY SMT, <1>7
  <2>2. ASSUME j.patch = "glitch"
        PROVE  /\ i.patch = "glitch" /\ j.patchSize = i.patchSize /\ i.patchSize > 4
               /\ q.prefix = p.prefix /\ i.type # "devkit" /\ q.glitch
               /\ Manufacturing(i) => j.fuses
    <3>1. byKhv \in {"glitch", "glitch2m", "devgl"} /\ khv /\ has
      BY SMT, <1>7, <1>9, <1>21, <2>2
    <3>2. j.patchSize = i.patchSize /\ i.patch = "glitch" /\ i.patchSize > 4
      BY SMT, <1>7, <3>1
    <3>3. q.glitch
      <4>1. q.glitch = g
        BY SMT, <1>10
      <4>. QED BY <1>14, <2>2, <4>1
    <3>4. i.type # "devkit"
      BY SMT, <1>4, <3>1
    <3>5. q.prefix = p.prefix /\ (Manufacturing(i) => j.fuses)
      <4>1. CASE p.prefix = \h60
        <5>1. byKhv \in {"glitch2m", "devgl"}
          BY SMT, <1>4, <3>1, <4>1
        <5>2. type \in {"glitch2m", "devgl"}
          BY SMT, <1>5, <5>1
        <5>3. fuses /\ j.type \in {"glitch2m", "devgl"}
          BY SMT, <1>7, <5>2 DEF fuses
        <5>4. Manufacturing(j)
          BY <5>3 DEF Manufacturing
        <5>. QED BY SMT, <1>10, <1>21, <4>1, <5>3, <5>4
      <4>2. CASE p.prefix = \h10
        <5>1. byKhv = "glitch"
          BY SMT, <1>4, <3>1, <4>2
        <5>2. j.type = "glitch" /\ ~j.mfg
          BY SMT, <1>5, <1>7, <1>21, <5>1
        <5>3. ~Manufacturing(j)
          BY <5>2 DEF Manufacturing
        <5>4. ~Manufacturing(i)
          BY SMT, <1>3, <4>2 DEF PlanFor
        <5>. QED BY SMT, <1>10, <4>2, <5>3, <5>4
      <4>. QED BY SMT, <1>3, <4>1, <4>2 DEF PlanFor
    <3>. QED BY <3>2, <3>3, <3>4, <3>5
  <2>. QED BY <2>1, <2>2
<1>17. /\ j.fuses => q.fuses = p.fuses
       /\ j.fuses => i.fuses \/ (Manufacturing(i) /\ j.patch = "glitch")
  <2>1. CASE type \in {"glitch2m", "devgl"}
    <3>1. khv /\ p.prefix # \h10
      BY SMT, <1>4, <1>5, <2>1
    <3>2. Manufacturing(i)
      BY SMT, <1>3, <3>1 DEF PlanFor
    <3>3. Manufacturing(j)
      BY SMT, <1>7, <2>1 DEF Manufacturing
    <3>4. q.fuses = p.fuses
      BY SMT, <1>3, <1>10, <1>11, <3>2, <3>3 DEF PlanFor
    <3>5. byKhv \in {"glitch2m", "devgl"}
      BY SMT, <1>5, <2>1
    <3>. HIDE DEF front, window, devkit, khv
    <3>. QED BY SMT, <1>21, <3>2, <3>4, <3>5
  <2>2. CASE type = "jtag" /\ i.fuses /\ p.fuses = p.window + \h5000
    <3>1. j.patch = "none"
      BY SMT, <1>5, <1>7, <1>21, <2>2
    <3>2. j.type = "jtag"
      BY SMT, <1>7, <2>2
    <3>3. ~Manufacturing(j)
      BY <3>1, <3>2 DEF Manufacturing
    <3>4. q.fuses = \h95000
      BY SMT, <1>10, <3>3 DEF kJtagWindowOffset
    <3>5. p.fuses = \h95000
      BY SMT, <1>3, <2>2 DEF PlanFor
    <3>. QED BY SMT, <1>21, <2>2, <3>4, <3>5
  <2>3. CASE ~fuses
    BY SMT, <1>21, <2>3
  <2>. QED BY SMT, <2>1, <2>2, <2>3 DEF fuses
<1>18. j.rebooter # 0 => j.rebooter = \h1000 /\ j.type = "jtag" /\ i.rebooter # 0
  BY SMT, <1>7
<1>19. j.preserve /\ ~j.payload /\ (q.jtag => j.type = "jtag") /\ q.glitch \in BOOLEAN /\ q.jtag \in BOOLEAN
  BY SMT, <1>7, <1>10, <1>13
<1>20. ReadFrom(i, p, j, q)
  <2>1. /\ j.shape = i.shape /\ j.preserve /\ j.smc = i.smc /\ j.chain = i.chain
        /\ j.cf = i.cf /\ j.cg = i.cg /\ j.console = i.console
        /\ ~j.payload /\ j.extraCb = 0 /\ j.extraCd = 0
    BY SMT, <1>7
  <2>2. /\ q.base = p.base /\ q.stride = p.stride /\ q.overlay = p.overlay /\ q.window = p.window
        /\ q.glitch \in BOOLEAN /\ q.jtag \in BOOLEAN /\ j.xell \in BOOLEAN /\ j.fuses \in BOOLEAN
    BY SMT, <1>11, <1>12, <1>19, <1>21
  <2>3. /\ j.patch = "glitch" =>
             /\ i.patch = "glitch" /\ j.patchSize = i.patchSize /\ i.patchSize > 4
             /\ q.prefix = p.prefix /\ i.type # "devkit" /\ q.glitch
             /\ Manufacturing(i) => j.fuses
        /\ j.patch \in {"none", "glitch"}
    BY <1>16
  <2>4. j.xell => i.xell /\ q.xell = p.xell
    BY <1>15
  <2>5. j.fuses => /\ q.fuses = p.fuses
                   /\ i.fuses \/ (Manufacturing(i) /\ j.patch = "glitch")
    BY <1>17
  <2>6. q.jtag => j.type = "jtag"
    BY <1>19
  <2>7. q.xell \in Nat /\ q.fuses \in Nat
    <3>1. q.xell \in Nat
      BY SMT, <1>10 DEF XellOffset, kJtagWindowOffset, kXellOffset
    <3>2. p.base \in Nat /\ p.stride \in Nat
      BY SMT, <1>3 DEF PlanFor
    <3>. QED BY SMT, <1>10, <1>11, <3>1, <3>2 DEF kJtagWindowOffset
  <2>. HIDE DEF front, window, khv, devkit
  <2>. QED BY SMT, <1>8, <1>18, <2>1, <2>2, <2>3, <2>4, <2>5, <2>6, <2>7 DEF ReadFrom
<1>. QED BY <1>20 DEF p, j, q
\* The plan encrypt_all reserves by gives the slots the same place.
LEMMA SealPlan ==
  ASSUME NEW i, i \in ImageRecord, Assembled(i)
  PROVE  Plan(i).base = PlanForSeal(i, i.type).base /\ Plan(i).stride = PlanForSeal(i, i.type).stride
<1>. DEFINE g == IsGlitchBuild(i.type) \/ i.patch = "glitch"
                 \/ (i.xell /\ i.base = GlitchSlotOffset(i))
            h == IsGlitchBuild(i.type)
            t == IsJtag(i)
<1>1. Plan(i) = MakePlan(i, g, t)
  BY DEF Plan
<1>2. PlanForSeal(i, i.type) = MakePlan(i, h, t)
  BY DEF PlanForSeal, IsJtag
<1>3. t <=> i.type = "jtag"
  BY PatchOfType DEF IsJtag
<1>4. ~i.preserve
  BY DEF Assembled
<1>5. CASE i.type \in {"devkit", "devgl"}
  <2>1. UpdateBase(i, g, t) = UpdateBase(i, h, t)
    BY <1>4, <1>5 DEF UpdateBase
  <2>. HIDE DEF g, h, t
  <2>. QED BY <1>1, <1>2, <2>1 DEF MakePlan
<1>6. CASE i.type \in {"jtag", "glitch", "glitch2m"} \/ i.rebooter = 0
  <2>1. t \/ (g /\ h) \/ i.rebooter = 0
    BY <1>3, <1>6 DEF IsGlitchBuild
  <2>. HIDE DEF g, h, t
  <2>2. XellOffset(i, g, t) = XellOffset(i, h, t)
    BY <2>1 DEF XellOffset
  <2>3. SlotBehindXell(i, g, t) = SlotBehindXell(i, h, t)
    BY <2>2 DEF SlotBehindXell
  <2>4. UpdateBase(i, g, t) = UpdateBase(i, h, t)
    BY <2>3 DEF UpdateBase
  <2>. QED BY <1>1, <1>2, <2>4 DEF MakePlan
<1>7. CASE i.type = "retail" /\ i.rebooter # 0
  <2>1. i.patch = "none" /\ i.base # GlitchSlotOffset(i)
    BY <1>7 DEF Assembled
  <2>2. g = h
    <3>1. g <=> h
      BY <2>1
    <3>2. g \in BOOLEAN /\ h \in BOOLEAN
      BY DEF IsGlitchBuild
    <3>. HIDE DEF g, h
    <3>. QED BY <3>1, <3>2
  <2>. QED BY <1>1, <1>2, <2>2
<1>. QED BY <1>5, <1>6, <1>7, PatchOfType

---------------------------------------------------------------------------
(* The two passes of an image through the writer.                          *)

SmcAt(x) == kKeyvaultOffset - (IF x.smc = 0 THEN \h3000 ELSE x.smc)

\* What the head stage lays of an image.
HeadPieces(x) ==
  Item("header", 0, \h80) \o (IF x.preserve THEN <<>> ELSE Fill(\h80, SmcAt(x)))
    \o Item("smc", SmcAt(x), x.smc) \o Item("keyvault", kKeyvaultOffset, \h4000)

\* The image at hand is as built, or what is read back of it.
PassInv ==
  /\ built \in Images
  /\ image = built \/ image = Reparsed(built)

LEMMA BuiltFacts ==
  ASSUME built \in Images
  PROVE  built \in ImageRecord /\ Assembled(built) /\ ~built.preserve
BY ImagesAssumption, AssembledAssumption DEF Assembled

LEMMA PassInit == Init => PassInv
BY DEF Init, PassInv

LEMMA PassStep == PassInv /\ [Next]_vars => PassInv'
<1>. SUFFICES ASSUME PassInv, [Next]_vars PROVE PassInv'
  OBVIOUS
<1>1. CASE Reparse
  <2>1. ~image.preserve /\ built' = built /\ image' = Reparsed(image)
    BY <1>1 DEF Reparse
  <2>2. image = built
    BY <2>1, BuiltFacts, ReadBack DEF PassInv, ReadFrom
  <2>. QED BY <2>1, <2>2 DEF PassInv
<1>2. CASE CheckLayout
  BY <1>2 DEF CheckLayout, PassInv
<1>3. CASE LayHead
  <2>1. \/ UNCHANGED <<built, image, laid>>
        \/ Lay(HeadPieces(image), "chain")
    BY <1>3 DEF LayHead, HeadPieces, SmcAt
  <2>2. built' = built /\ image' = image
    BY <2>1 DEF Lay
  <2>. QED BY <2>2 DEF PassInv
<1>4. CASE LayChain
  BY <1>4 DEF LayChain, Lay, PassInv
<1>5. CASE LaySlots
  BY <1>5 DEF LaySlots, Lay, PassInv
<1>6. CASE LayConsole
  BY <1>6 DEF LayConsole, Lay, PassInv
<1>7. CASE LayAnchors
  BY <1>7 DEF LayAnchors, Lay, PassInv
<1>8. CASE LayPayloads
  BY <1>8 DEF LayPayloads, Lay, PassInv
<1>9. CASE LayPatch
  BY <1>9 DEF LayPatch, Lay, PassInv
<1>10. CASE LaySecondChain
  BY <1>10 DEF LaySecondChain, Lay, PassInv
<1>11. CASE UNCHANGED vars
  BY <1>11 DEF vars, PassInv
<1>. QED BY <1>1, <1>2, <1>3, <1>4, <1>5, <1>6, <1>7, <1>8, <1>9, <1>10, <1>11 DEF Next

\* encrypt_all reserves the update slots where the writer lays them, for every
\* image run_build assembles (two plans told by different rules).
THEOREM SealPlansAgree == Spec => []SealPlanAgrees
<1>1. PassInv => SealPlanAgrees
  <2>1. SUFFICES ASSUME PassInv, ~image.preserve
                 PROVE  LET p == Plan(image)
                            q == PlanForSeal(image, image.type)
                        IN  <<p.base, p.stride>> = <<q.base, q.stride>>
    BY DEF SealPlanAgrees
  <2>2. image = built
    BY <2>1, BuiltFacts, ReadBack DEF PassInv, ReadFrom
  <2>. QED BY <2>1, <2>2, BuiltFacts, SealPlan DEF PassInv
<1>. QED BY <1>1, PassInit, PassStep, PTL DEF Spec

\* A written image, read back, plans the slots, the XeLL, the fuses and the
\* patches it recovers where they were laid (parse and plan_layout), whatever
\* type is inferred, for every image run_build assembles.
THEOREM LayoutIsReadBack == Spec => []LayoutReadBack
<1>1. PassInv => LayoutReadBack
  <2>. SUFFICES ASSUME PassInv, image.preserve
                PROVE  LET p == Plan(built)
                           q == Plan(image)
                       IN  /\ <<p.base, p.stride>> = <<q.base, q.stride>>
                           /\ image.xell => q.xell = p.xell
                           /\ image.fuses => q.fuses = p.fuses
                           /\ image.patch = "glitch" => q.prefix = p.prefix
    BY DEF LayoutReadBack
  <2>1. image = Reparsed(built)
    BY BuiltFacts DEF PassInv
  <2>2. ReadFrom(built, Plan(built), image, Plan(image))
    BY <2>1, BuiltFacts, ReadBack DEF PassInv
  <2>. DEFINE p == Plan(built)
              q == Plan(image)
  <2>3. ReadFrom(built, p, image, q)
    BY <2>2
  <2>. HIDE DEF p, q
  <2>4. /\ <<p.base, p.stride>> = <<q.base, q.stride>>
        /\ image.xell => q.xell = p.xell
        /\ image.fuses => q.fuses = p.fuses
        /\ image.patch = "glitch" => q.prefix = p.prefix
    BY SMT, <2>3 DEF ReadFrom
  <2>. QED BY <2>4 DEF p, q
<1>. QED BY <1>1, PassInit, PassStep, PTL DEF Spec
---------------------------------------------------------------------------
(* Sequences of pieces, and whether what they hold stands.                 *)

HeadNames    == {"header", "smc", "keyvault"}
SlotNames    == {"CF0", "CG0", "CF1", "CG1"}
ConsoleNames == {"settings", "statistics", "manufacturing"}
AnchorNames  == {"anchor1", "anchor2"}
PayloadNames == {"payload", "rebooter", "fuses", "xell"}
SecondNames  == {"extraCb", "extraCd"}

\* The items of a stage and of those behind it.
FromPatch    == {"patch"} \cup SecondNames
FromPayloads == PayloadNames \cup FromPatch
FromAnchors  == AnchorNames \cup FromPayloads
FromConsole  == ConsoleNames \cup FromAnchors
FromSlots    == SlotNames \cup FromConsole
FromChain    == {"chain"} \cup FromSlots
Names        == HeadNames \cup FromChain

AnyPiece == [what : Names \cup {"fill"}, from : Nat, to : Nat]

StandsIn(s, n) ==
  \E k \in n .. Len(s) :
    /\ s[k].what = s[n].what /\ s[k].from = s[n].from
    /\ s[k].to >= s[n].to
    /\ \A m \in k + 1 .. Len(s) : ~Overlap(s[m], s[n])

\* The pieces laid so far are of L, and all but those named in D stand.
Laid(s, L, D) ==
  /\ s \in Seq(AnyPiece)
  /\ \A n \in 1 .. Len(s) : s[n] \in L
  /\ \A n \in 1 .. Len(s) : s[n].what \notin D \cup {"fill"} => StandsIn(s, n)

\* Laying x brings what has D damaged to what has E damaged.
Lays(x, L, D, E) ==
  /\ x \in Seq(AnyPiece)
  /\ \A n \in 1 .. Len(x) : x[n] \in L
  /\ \A s : Laid(s, L, D) => Laid(s \o x, L, E)

\* One piece more.
LEMMA LaidPiece ==
  ASSUME NEW L \in SUBSET AnyPiece, NEW D, NEW E, NEW s, Laid(s, L, D), NEW r \in L,
         \A a \in L : a.what \notin E \cup {"fill"} =>
             \/ a.what \notin D /\ ~Overlap(r, a)
             \/ r.what = a.what /\ r.from = a.from /\ r.to >= a.to
  PROVE  Laid(s \o <<r>>, L, E)
<1>. DEFINE t == s \o <<r>>
            l == Len(s)
<1>1. s \in Seq(AnyPiece) /\ r \in AnyPiece /\ l \in Nat
  BY DEF Laid
<1>2. t \in Seq(AnyPiece) /\ Len(t) = l + 1 /\ t[l + 1] = r
      /\ \A n \in 1 .. l : t[n] = s[n]
  BY <1>1
<1>. HIDE DEF t, l
<1>3. \A n \in 1 .. Len(t) : t[n] \in L
  BY <1>1, <1>2 DEF Laid, l
<1>4. ASSUME NEW n \in 1 .. Len(t), t[n].what \notin E \cup {"fill"}
      PROVE  StandsIn(t, n)
  <2>1. CASE n = l + 1
    <3>1. r.to >= r.to
      BY <1>1 DEF AnyPiece
    <3>. QED BY <1>1, <1>2, <2>1, <3>1 DEF StandsIn
  <2>2. CASE n # l + 1
    <3>1. n \in 1 .. l /\ t[n] = s[n] /\ s[n] \in L
      BY <1>1, <1>2, <1>4, <2>2 DEF Laid, l
    <3>2. CASE s[n].what \notin D /\ ~Overlap(r, s[n])
      <4>1. StandsIn(s, n)
        BY <1>4, <3>1, <3>2 DEF Laid, l
      <4>2. PICK k \in n .. l :
              /\ s[k].what = s[n].what /\ s[k].from = s[n].from
              /\ s[k].to >= s[n].to
              /\ \A m \in k + 1 .. l : ~Overlap(s[m], s[n])
        BY <4>1 DEF StandsIn, l
      <4>3. k \in 1 .. l /\ t[k] = s[k] /\ k \in n .. Len(t)
        BY <1>1, <1>2, <3>1, <4>2
      <4>4. ASSUME NEW m \in k + 1 .. Len(t) PROVE ~Overlap(t[m], t[n])
        <5>1. CASE m = l + 1
          BY <1>2, <3>1, <3>2, <5>1
        <5>2. CASE m # l + 1
          <6>1. m \in k + 1 .. l /\ m \in 1 .. l
            BY <1>1, <1>2, <4>3, <4>4, <5>2
          <6>. QED BY <1>2, <3>1, <4>2, <6>1
        <5>. QED BY <5>1, <5>2
      <4>. QED BY <3>1, <4>2, <4>3, <4>4 DEF StandsIn
    <3>3. CASE r.what = s[n].what /\ r.from = s[n].from /\ r.to >= s[n].to
      <4>1. l + 1 \in n .. Len(t) /\ \A m \in (l + 1) + 1 .. Len(t) : FALSE
        BY <1>1, <1>2, <3>1
      <4>. QED BY <1>2, <3>1, <3>3, <4>1 DEF StandsIn
    <3>. QED BY <1>4, <3>1, <3>2, <3>3
  <2>. QED BY <2>1, <2>2
<1>. QED BY <1>2, <1>3, <1>4 DEF Laid, t

\* Nothing more, and more taken for damaged.
LEMMA LaysNone ==
  ASSUME NEW L, NEW D, NEW E, D \subseteq E
  PROVE  Lays(<<>>, L, D, E)
<1>1. ASSUME NEW s, Laid(s, L, D) PROVE Laid(s \o <<>>, L, E)
  <2>1. s \in Seq(AnyPiece) /\ s \o <<>> = s
    BY <1>1 DEF Laid
  <2>. QED BY <1>1, <2>1 DEF Laid
<1>2. <<>> \in Seq(AnyPiece) /\ \A n \in 1 .. Len(<<>>) : <<>>[n] \in L
  OBVIOUS
<1>. QED BY <1>1, <1>2 DEF Lays

LEMMA LaysThen ==
  ASSUME NEW L, NEW D, NEW E, NEW F, NEW x, NEW y, Lays(x, L, D, E), Lays(y, L, E, F)
  PROVE  Lays(x \o y, L, D, F)
<1>1. x \in Seq(AnyPiece) /\ y \in Seq(AnyPiece)
  BY DEF Lays
<1>2. x \o y \in Seq(AnyPiece) /\ \A n \in 1 .. Len(x \o y) : (x \o y)[n] \in L
  <2>1. Len(x) \in Nat /\ Len(y) \in Nat /\ Len(x \o y) = Len(x) + Len(y)
    BY <1>1
  <2>2. ASSUME NEW n \in 1 .. Len(x \o y) PROVE (x \o y)[n] \in L
    <3>1. CASE n <= Len(x)
      BY <1>1, <2>1, <2>2, <3>1 DEF Lays
    <3>2. CASE n > Len(x)
      <4>1. (x \o y)[n] = y[n - Len(x)] /\ n - Len(x) \in 1 .. Len(y)
        BY <1>1, <2>1, <2>2, <3>2
      <4>. QED BY <4>1 DEF Lays
    <3>. QED BY <2>1, <3>1, <3>2
  <2>. QED BY <1>1, <2>2
<1>3. ASSUME NEW s, Laid(s, L, D) PROVE Laid(s \o (x \o y), L, F)
  <2>1. Laid((s \o x) \o y, L, F)
    BY <1>3 DEF Lays
  <2>2. s \in Seq(AnyPiece)
    BY <1>3 DEF Laid
  <2>3. s \o (x \o y) = (s \o x) \o y
    BY <1>1, <2>2, ConcatAssociative
  <2>. QED BY <2>1, <2>3
<1>. QED BY <1>2, <1>3 DEF Lays

\* A piece that meets nothing but what it lays again.
Fits(r, L) ==
  /\ r \in L
  /\ \A a \in L : a.what # "fill" =>
       /\ a.what = r.what => a.from = r.from /\ a.to <= r.to
       /\ a.what # r.what => ~Overlap(r, a)

LEMMA LaysItem ==
  ASSUME NEW L \in SUBSET AnyPiece, NEW D, NEW E, NEW w, NEW f, NEW l,
         l = 0 => D \subseteq E,
         l # 0 => D \ {w} \subseteq E /\ Fits(Piece(w, f, l), L)
  PROVE  Lays(Item(w, f, l), L, D, E)
<1>1. CASE l = 0
  BY <1>1, LaysNone DEF Item
<1>2. CASE l # 0
  <2>. DEFINE r == Piece(w, f, l)
  <2>1. r \in L /\ r \in AnyPiece /\ r.what = w
    BY <1>2 DEF Fits, Piece
  <2>2. \A a \in L : a.what \notin E \cup {"fill"} =>
             \/ a.what \notin D /\ ~Overlap(r, a)
             \/ r.what = a.what /\ r.from = a.from /\ r.to >= a.to
    <3>1. SUFFICES ASSUME NEW a \in L, a.what \notin E \cup {"fill"}, a.what # r.what \/ r.what = a.what
                   PROVE  \/ a.what \notin D /\ ~Overlap(r, a)
                          \/ r.what = a.what /\ r.from = a.from /\ r.to >= a.to
      OBVIOUS
    <3>2. CASE a.what = r.what
      <4>1. a.from = r.from /\ a.to <= r.to
        BY <1>2, <3>1, <3>2 DEF Fits
      <4>2. a.to \in Int /\ r.to \in Int
        BY <2>1, <3>1 DEF AnyPiece
      <4>. QED BY <3>2, <4>1, <4>2
    <3>3. CASE a.what # r.what
      <4>1. ~Overlap(r, a)
        BY <1>2, <3>1, <3>3 DEF Fits
      <4>. QED BY <1>2, <2>1, <3>1, <3>3, <4>1
    <3>. QED BY <3>2, <3>3
  <2>3. \A s : Laid(s, L, D) => Laid(s \o <<r>>, L, E)
    BY <2>1, <2>2, LaidPiece
  <2>4. <<r>> \in Seq(AnyPiece) /\ \A n \in 1 .. Len(<<r>>) : <<r>>[n] \in L
    BY <2>1
  <2>5. Item(w, f, l) = <<r>>
    BY <1>2 DEF Item
  <2>. QED BY <2>3, <2>4, <2>5 DEF Lays
<1>. QED BY <1>1, <1>2

\* A fill that damages no more than what E names.
LEMMA LaysFill ==
  ASSUME NEW L \in SUBSET AnyPiece, NEW D, NEW E, NEW f \in Int, NEW t \in Int, D \subseteq E,
         f < t => /\ Piece("fill", f, t - f) \in L
                  /\ \A a \in L : a.what # "fill" /\ a.from < t /\ f < a.to => a.what \in E
  PROVE  Lays(Fill(f, t), L, D, E)
<1>1. CASE f >= t
  BY <1>1, LaysNone DEF Fill
<1>2. CASE f < t
  <2>. DEFINE r == Piece("fill", f, t - f)
  <2>1. r \in L /\ r \in AnyPiece /\ r.what = "fill" /\ r.from = f /\ r.to = t
    BY <1>2 DEF Piece
  <2>2. \A a \in L : a.what \notin E \cup {"fill"} => a.what \notin D /\ ~Overlap(r, a)
    BY <1>2, <2>1 DEF Overlap
  <2>3. \A s : Laid(s, L, D) => Laid(s \o <<r>>, L, E)
    BY <2>1, <2>2, LaidPiece
  <2>4. <<r>> \in Seq(AnyPiece) /\ \A n \in 1 .. Len(<<r>>) : <<r>>[n] \in L
    BY <2>1
  <2>5. Fill(f, t) = <<r>>
    BY <1>2 DEF Fill
  <2>. QED BY <2>3, <2>4, <2>5 DEF Lays
<1>. QED BY <1>1, <1>2

\* Less was laid than allowed for.
LEMMA LaidMore ==
  ASSUME NEW L, NEW M, NEW D, NEW E, NEW s, Laid(s, L, D), L \subseteq M, D \subseteq E
  PROVE  Laid(s, M, E)
BY DEF Laid
---------------------------------------------------------------------------
(* The items of an image and where they lie.                               *)

CgAt(x, p, s)   == p.base + s * p.stride + Align16(x.cf[s])
ConsoleAt(x, n) == (SmcConfigBlock(x) - n) * BlockSize(x)
PatchAt(x, p)   == IF x.patch = "jtag" THEN p.window + \h1000 ELSE p.overlay + p.prefix

\* Where the item w of the image x lies under the plan p.
Place(w, x, p) ==
  CASE w = "header"        -> 0
    [] w = "smc"           -> SmcAt(x)
    [] w = "keyvault"      -> kKeyvaultOffset
    [] w = "chain"         -> kEntryOffset
    [] w = "CF0"           -> p.base
    [] w = "CG0"           -> CgAt(x, p, 0)
    [] w = "CF1"           -> p.base + p.stride
    [] w = "CG1"           -> CgAt(x, p, 1)
    [] w = "settings"      -> ConsoleAt(x, 0)
    [] w = "statistics"    -> ConsoleAt(x, 1)
    [] w = "manufacturing" -> ConsoleAt(x, 2)
    [] w = "anchor1"       -> kAnchorOffsets[1]
    [] w = "anchor2"       -> kAnchorOffsets[2]
    [] w = "payload"       -> \h200
    [] w = "rebooter"      -> p.window
    [] w = "fuses"         -> p.fuses
    [] w = "xell"          -> p.xell
    [] w = "patch"         -> PatchAt(x, p)
    [] w = "extraCb"       -> ExtraCbAt(p)
    [] w = "extraCd"       -> ExtraCdAt(x, p)
    [] OTHER               -> 0

\* Its length, 0 for an item the image does not have.
Extent(w, x, p) ==
  CASE w = "header"        -> \h80
    [] w = "smc"           -> x.smc
    [] w = "keyvault"      -> \h4000
    [] w = "chain"         -> Align16(x.chain)
    [] w = "CF0"           -> x.cf[0]
    [] w = "CG0"           -> On(x.cf[0] # 0, CgRoom(x, p, 0))
    [] w = "CF1"           -> x.cf[1]
    [] w = "CG1"           -> On(x.cf[1] # 0, CgRoom(x, p, 1))
    [] w \in ConsoleNames  -> On(x.console, kSettingsSpan)
    [] w \in AnchorNames   -> On(x.shape = "emmc", \h4000)
    [] w = "payload"       -> On(x.payload, kSmcPayloadSize)
    [] w = "rebooter"      -> x.rebooter
    [] w = "fuses"         -> On(x.fuses, kFuseSize)
    [] w = "xell"          -> On(x.xell, kXellSize)
    [] w = "patch"         -> On(x.patch # "none", x.patchSize)
    [] w = "extraCb"       -> On(p.jtag, x.extraCb)
    [] w = "extraCd"       -> On(p.jtag, x.extraCd)
    [] OTHER               -> 0

LEMMA Places ==
  ASSUME NEW x, NEW p
  PROVE  /\ Place("header", x, p) = 0 /\ Place("smc", x, p) = SmcAt(x)
         /\ Place("keyvault", x, p) = \h4000 /\ Place("chain", x, p) = \h8000
         /\ Place("CF0", x, p) = p.base /\ Place("CG0", x, p) = CgAt(x, p, 0)
         /\ Place("CF1", x, p) = p.base + p.stride /\ Place("CG1", x, p) = CgAt(x, p, 1)
         /\ Place("settings", x, p) = ConsoleAt(x, 0)
         /\ Place("statistics", x, p) = ConsoleAt(x, 1)
         /\ Place("manufacturing", x, p) = ConsoleAt(x, 2)
         /\ Place("anchor1", x, p) = \h2FE8000 /\ Place("anchor2", x, p) = \h2FEC000
         /\ Place("payload", x, p) = \h200 /\ Place("rebooter", x, p) = p.window
         /\ Place("fuses", x, p) = p.fuses /\ Place("xell", x, p) = p.xell
         /\ Place("patch", x, p) = PatchAt(x, p)
         /\ Place("extraCb", x, p) = ExtraCbAt(p) /\ Place("extraCd", x, p) = ExtraCdAt(x, p)
BY SMT DEF Place, kKeyvaultOffset, kEntryOffset, kAnchorOffsets

LEMMA Extents ==
  ASSUME NEW x, NEW p
  PROVE  /\ Extent("header", x, p) = \h80 /\ Extent("smc", x, p) = x.smc
         /\ Extent("keyvault", x, p) = \h4000 /\ Extent("chain", x, p) = Align16(x.chain)
         /\ Extent("CF0", x, p) = x.cf[0]
         /\ Extent("CG0", x, p) = On(x.cf[0] # 0, CgRoom(x, p, 0))
         /\ Extent("CF1", x, p) = x.cf[1]
         /\ Extent("CG1", x, p) = On(x.cf[1] # 0, CgRoom(x, p, 1))
         /\ Extent("settings", x, p) = On(x.console, \h1000)
         /\ Extent("statistics", x, p) = On(x.console, \h1000)
         /\ Extent("manufacturing", x, p) = On(x.console, \h1000)
         /\ Extent("anchor1", x, p) = On(x.shape = "emmc", \h4000)
         /\ Extent("anchor2", x, p) = On(x.shape = "emmc", \h4000)
         /\ Extent("payload", x, p) = On(x.payload, \h200)
         /\ Extent("rebooter", x, p) = x.rebooter
         /\ Extent("fuses", x, p) = On(x.fuses, \h60) /\ Extent("xell", x, p) = On(x.xell, \h40000)
         /\ Extent("patch", x, p) = On(x.patch # "none", x.patchSize)
         /\ Extent("extraCb", x, p) = On(p.jtag, x.extraCb)
         /\ Extent("extraCd", x, p) = On(p.jtag, x.extraCd)
BY SMT DEF Extent, ConsoleNames, AnchorNames, kSettingsSpan, kSmcPayloadSize, kFuseSize, kXellSize

\* The room of a CG ends with its slot.
LEMMA RoomOfCg ==
  ASSUME NEW x, NEW p, NEW s \in {0, 1}, Sized(x.cg[s]), Sized(x.cf[s]), p.base \in Nat, p.stride \in Nat
  PROVE  /\ CgAt(x, p, s) \in Nat /\ CgAt(x, p, s) >= p.base + s * p.stride
         /\ CgRoom(x, p, s) \in Nat
         /\ CgRoom(x, p, s) > 0 => CgAt(x, p, s) + CgRoom(x, p, s) <= p.base + (s + 1) * p.stride
<1>. DEFINE a == CgAt(x, p, s)
            e == p.base + (s + 1) * p.stride
            m == IF a < e THEN e - a ELSE 0
            n == x.cg[s]
<1>1. a \in Nat /\ a >= p.base + s * p.stride /\ e \in Nat /\ m \in Nat /\ n \in Nat
  <2>1. Align16(x.cf[s]) \in Nat
    <3>1. x.cf[s] \in Nat
      BY DEF Sized
    <3>. QED BY <3>1, Rounding
  <2>2. s * p.stride \in Nat /\ (s + 1) * p.stride \in Nat
    <3>1. s * p.stride = 0 \/ s * p.stride = p.stride
      BY SMT
    <3>2. (s + 1) * p.stride = p.stride \/ (s + 1) * p.stride = 2 * p.stride
      BY SMT
    <3>. QED BY SMT, <3>1, <3>2
  <2>3. a \in Nat /\ a >= p.base + s * p.stride /\ e \in Nat
    BY SMT, <2>1, <2>2 DEF CgAt
  <2>4. n \in Nat
    BY DEF Sized
  <2>. HIDE DEF a, e, n
  <2>. QED BY SMT, <2>3, <2>4
<1>2. CgRoom(x, p, s) = Min({n, m})
  BY DEF CgRoom, CgAt
<1>. HIDE DEF a, e, m, n
<1>3. Min({n, m}) \in Nat /\ Min({n, m}) <= m
  <2>1. CASE n <= m
    <3>1. Min({n, m}) = n
      BY SMT, <1>1, <2>1 DEF Min
    <3>. QED BY SMT, <1>1, <2>1, <3>1
  <2>2. CASE m < n
    <3>1. Min({n, m}) = m
      BY SMT, <1>1, <2>2 DEF Min
    <3>. QED BY SMT, <1>1, <2>2, <3>1
  <2>. QED BY SMT, <1>1, <2>1, <2>2
<1>4. m > 0 => a + m <= e
  BY SMT, <1>1 DEF m
<1>. QED BY SMT, <1>1, <1>2, <1>3, <1>4 DEF a, e

\* What payload_layout has made sure of, and what it started from.
Accepted(i, p) ==
  /\ PlanFor(i, p)
  /\ i.smc <= \h3C00 /\ i.rebooter <= \h1000
  /\ i.patch = "glitch" => ~p.jtag
  /\ kEntryOffset + Align16(i.chain) <= p.overlay
  /\ p.glitch => i.cf[1] = 0
  /\ i.cf[0] # 0 => Align16(i.cf[0]) <= p.stride
  /\ i.cf[1] # 0 => Align16(i.cf[1]) <= p.stride
  /\ i.patch = "glitch" => i.patchSize <= p.stride - p.prefix
  /\ NoCollision(PayloadRanges(i, p))

LEMMA AcceptedPlan ==
  ASSUME NEW i, i \in ImageRecord, Assembled(i), PartsInPlace(i), PayloadLayout(i)
  PROVE  Accepted(i, Plan(i))
<1>. DEFINE p == Plan(i)
<1>1. PlanFor(i, p)
  BY FreshPlan
<1>2. /\ ~(p.glitch /\ i.cf[1] # 0)
      /\ \A s \in 0 .. 1 : CfLeavesRoom(i, p, s)
      /\ KhvFits(i, p) /\ NoCollision(PayloadRanges(i, p))
  BY DEF PayloadLayout
<1>3. i.smc <= \h3C00 /\ i.rebooter <= \h1000 /\ kEntryOffset + Align16(i.chain) <= p.overlay
  <2>1. i.smc <= \h3C00 /\ i.rebooter <= \h1000 /\ BootChainEnd(i) <= Plan(i).overlay
    BY DEF Assembled, PartsInPlace
  <2>. QED BY <2>1 DEF BootChainEnd
<1>. HIDE DEF p
<1>4. p.glitch => i.cf[1] = 0
  BY <1>2
<1>5. ASSUME NEW s \in {0, 1}, i.cf[s] # 0 PROVE Align16(i.cf[s]) <= p.stride
  <2>1. CfLeavesRoom(i, p, s)
    BY SMT, <1>2
  <2>2. Align16(i.cf[s]) \in Nat /\ p.stride \in Nat
    <3>1. i.cf[s] \in Nat
      BY Sizes DEF Sized
    <3>2. p.stride \in Nat
      BY SMT, <1>1 DEF PlanFor
    <3>. QED BY <3>1, <3>2, Rounding
  <2>3. CASE i.cg[s] # 0
    BY SMT, <1>5, <2>1, <2>2, <2>3 DEF CfLeavesRoom, kCgHeaderSize
  <2>4. CASE i.cg[s] = 0
    BY SMT, <1>5, <2>1, <2>2, <2>4 DEF CfLeavesRoom, kCgHeaderSize
  <2>. QED BY <2>3, <2>4
<1>6. i.patch = "glitch" => i.patchSize <= p.stride - p.prefix
  BY <1>2 DEF KhvFits
<1>7. Accepted(i, p)
  <2>1. (i.cf[0] # 0 => Align16(i.cf[0]) <= p.stride) /\ (i.cf[1] # 0 => Align16(i.cf[1]) <= p.stride)
    BY <1>5
  <2>2. i.patch = "glitch" => ~p.jtag
    <3>1. p.jtag => i.type = "jtag"
      BY <1>1 DEF PlanFor
    <3>. QED BY <3>1, PatchOfType
  <2>. QED BY <1>1, <1>2, <1>3, <1>4, <1>6, <2>1, <2>2 DEF Accepted
<1>. QED BY <1>7 DEF p

ClaimNames == {"chain"} \cup SlotNames \cup PayloadNames \cup FromPatch
LateNames  == ConsoleNames \cup AnchorNames

\* What is certain of where an item lies.
Zoned(i, w, f, l) ==
  /\ f \in Nat /\ l \in Nat
  /\ l > 0 /\ w \in HeadNames => f + l <= \h8000 /\ (f + l <= \h80 \/ f >= \h400)
  /\ l > 0 /\ w \in ClaimNames => \/ w = "payload" /\ f = \h200 /\ l = \h200
                                  \/ f >= \h8000 /\ f + l <= \h400000
  /\ l > 0 /\ w \in LateNames => f >= \hF00000 /\ f + l <= ImageSize(i)

\* The fixed places are zoned.
LEMMA ZoneOf ==
  ASSUME NEW i, NEW w, NEW f, NEW l, f \in Nat, l \in Nat,
         \/ w \in HeadNames /\ (l = 0 \/ (f + l <= \h8000 /\ (f + l <= \h80 \/ f >= \h400)))
         \/ w = "payload" /\ (l = 0 \/ (f = \h200 /\ l = \h200))
         \/ w \in ClaimNames /\ (l = 0 \/ (f >= \h8000 /\ f + l <= \h400000))
         \/ w \in LateNames /\ (l = 0 \/ (f >= \hF00000 /\ f + l <= ImageSize(i)))
  PROVE  Zoned(i, w, f, l)
<1>. DEFINE N == ImageSize(i)
<1>. HIDE DEF N
<1>1. CASE w \in HeadNames /\ (l = 0 \/ (f + l <= \h8000 /\ (f + l <= \h80 \/ f >= \h400)))
  BY SMT, <1>1
  DEF Zoned, HeadNames, ClaimNames, LateNames, SlotNames, PayloadNames, FromPatch, SecondNames, ConsoleNames, AnchorNames
<1>2. CASE w = "payload" /\ (l = 0 \/ (f = \h200 /\ l = \h200))
  BY SMT, <1>2
  DEF Zoned, HeadNames, ClaimNames, LateNames, SlotNames, PayloadNames, FromPatch, SecondNames, ConsoleNames, AnchorNames
<1>3. CASE w \in ClaimNames /\ (l = 0 \/ (f >= \h8000 /\ f + l <= \h400000))
  BY SMT, <1>3
  DEF Zoned, HeadNames, ClaimNames, LateNames, SlotNames, PayloadNames, FromPatch, SecondNames, ConsoleNames, AnchorNames
<1>4. CASE w \in LateNames /\ (l = 0 \/ (f >= \hF00000 /\ f + l <= ImageSize(i)))
  BY SMT, <1>4
  DEF Zoned, HeadNames, ClaimNames, LateNames, SlotNames, PayloadNames, FromPatch, SecondNames, ConsoleNames, AnchorNames
<1>. QED BY SMT, <1>1, <1>2, <1>3, <1>4

\* The items of an accepted image, zone by zone.
LEMMA HeadZones ==
  ASSUME NEW i, i \in ImageRecord, NEW p, Accepted(i, p), NEW w \in HeadNames
  PROVE  Zoned(i, w, Place(w, i, p), Extent(w, i, p))
<1>1. CASE w = "header"
  <2>1. Place(w, i, p) = 0 /\ Extent(w, i, p) = \h80
    BY SMT, <1>1, Places, Extents
  <2>. QED BY SMT, <2>1, ZoneOf
<1>2. CASE w = "smc"
  <2>1. Place(w, i, p) = SmcAt(i) /\ Extent(w, i, p) = i.smc
    BY SMT, <1>2, Places, Extents
  <2>2. i.smc \in Nat /\ i.smc <= \h3C00
    BY SMT, Sizes DEF Sized, Accepted
  <2>3. SmcAt(i) \in Nat /\ (i.smc # 0 => SmcAt(i) = \h4000 - i.smc)
    BY SMT, <2>2 DEF SmcAt, kKeyvaultOffset
  <2>. QED BY SMT, <2>1, <2>2, <2>3, ZoneOf
<1>3. CASE w = "keyvault"
  <2>1. Place(w, i, p) = \h4000 /\ Extent(w, i, p) = \h4000
    BY SMT, <1>3, Places, Extents
  <2>. QED BY SMT, <2>1, ZoneOf
<1>. QED BY SMT, <1>1, <1>2, <1>3 DEF HeadNames

LEMMA LateZones ==
  ASSUME NEW i, i \in ImageRecord, NEW p, NEW w \in LateNames
  PROVE  Zoned(i, w, Place(w, i, p), Extent(w, i, p))
<1>1. CASE w \in ConsoleNames
  <2>1. /\ w = "settings" => Place(w, i, p) = ConsoleAt(i, 0)
        /\ w = "statistics" => Place(w, i, p) = ConsoleAt(i, 1)
        /\ w = "manufacturing" => Place(w, i, p) = ConsoleAt(i, 2)
    BY SMT, Places
  <2>2. Extent(w, i, p) = On(i.console, \h1000)
    BY SMT, <1>1, Extents DEF ConsoleNames
  <2>3. Extent(w, i, p) \in {0, \h1000}
    BY SMT, <2>2 DEF On
  <2>4. \A n \in 0 .. 2 : /\ ConsoleAt(i, n) \in Nat /\ ConsoleAt(i, n) >= \hF00000
                          /\ ConsoleAt(i, n) + \h1000 <= ImageSize(i)
    BY SMT, Shape DEF ConsoleAt
  <2>5. /\ Place(w, i, p) \in Nat /\ Place(w, i, p) >= \hF00000
        /\ Place(w, i, p) + \h1000 <= ImageSize(i)
    BY SMT, <1>1, <2>1, <2>4 DEF ConsoleNames
  <2>. QED BY SMT, <2>3, <2>5, ZoneOf
<1>2. CASE w \in AnchorNames
  <2>1. Place(w, i, p) \in {\h2FE8000, \h2FEC000}
    BY SMT, <1>2, Places DEF AnchorNames
  <2>2. Extent(w, i, p) = On(i.shape = "emmc", \h4000)
    BY SMT, <1>2, Extents DEF AnchorNames
  <2>3. CASE i.shape = "emmc"
    <3>1. Extent(w, i, p) = \h4000 /\ ImageSize(i) = 50331648
      BY SMT, <2>2, <2>3, Shape DEF On
    <3>. QED BY SMT, <2>1, <3>1, ZoneOf
  <2>4. CASE i.shape # "emmc"
    <3>1. Extent(w, i, p) = 0
      BY SMT, <2>2, <2>4 DEF On
    <3>. QED BY SMT, <2>1, <3>1, ZoneOf
  <2>. QED BY SMT, <2>3, <2>4
<1>. QED BY SMT, <1>1, <1>2 DEF LateNames

LEMMA ClaimZones ==
  ASSUME NEW i, i \in ImageRecord, NEW p, Accepted(i, p), NEW w \in ClaimNames
  PROVE  Zoned(i, w, Place(w, i, p), Extent(w, i, p))
<1>. DEFINE f == Place(w, i, p)
            l == Extent(w, i, p)
<1>1. PlanFor(i, p)
  BY SMT DEF Accepted
<1>2. /\ p.base \in Nat /\ \h8000 <= p.base /\ p.base <= \h130000
      /\ p.stride \in {\h10000, \h20000} /\ p.overlay = p.base + p.stride
      /\ p.window = \h90000 /\ p.xell \in {\h70000, \h95060}
      /\ p.fuses \in {\h95000, p.overlay} /\ p.prefix \in {\h10, \h60}
  BY SMT, <1>1 DEF PlanFor
<1>3. /\ i.chain \in Nat /\ i.cf[0] \in Nat /\ i.cf[1] \in Nat /\ i.rebooter \in Nat
      /\ i.patchSize \in Nat /\ i.extraCb \in Nat /\ i.extraCd \in Nat
      /\ i.chain <= \h100000 /\ i.cf[0] <= \h100000 /\ i.cf[1] <= \h100000 /\ i.rebooter <= \h100000
      /\ i.patchSize <= \h100000 /\ i.extraCb <= \h100000 /\ i.extraCd <= \h100000
  BY SMT, Sizes DEF Sized
<1>4. /\ Align16(i.chain) \in Nat /\ Align16(i.chain) <= \h100010
      /\ Align16(i.extraCb) \in Nat /\ Align16(i.extraCb) <= \h100010
  <2>1. /\ Align16(i.chain) \in Nat /\ Align16(i.chain) < i.chain + 16
        /\ Align16(i.extraCb) \in Nat /\ Align16(i.extraCb) < i.extraCb + 16
    BY SMT, <1>3, Rounding
  <2>. QED BY SMT, <1>3, <2>1
<1>5. ASSUME f \in Nat, l \in Nat, l = 0 \/ (f >= \h8000 /\ f + l <= \h400000)
      PROVE  Zoned(i, w, f, l)
  <2>. HIDE DEF f, l
  <2>. QED BY SMT, <1>5, ZoneOf
<1>6. CASE w \in SlotNames
  <2>1. ASSUME NEW s \in {0, 1}
        PROVE  /\ CgAt(i, p, s) \in Nat /\ CgAt(i, p, s) >= \h8000 /\ CgRoom(i, p, s) \in Nat
               /\ CgRoom(i, p, s) > 0 => CgAt(i, p, s) + CgRoom(i, p, s) <= \h400000
    <3>1. Sized(i.cf[s]) /\ Sized(i.cg[s]) /\ p.base \in Nat /\ p.stride \in Nat
      BY SMT, <1>2, Sizes
    <3>2. /\ CgAt(i, p, s) \in Nat /\ CgAt(i, p, s) >= p.base + s * p.stride
          /\ CgRoom(i, p, s) \in Nat
          /\ CgRoom(i, p, s) > 0 => CgAt(i, p, s) + CgRoom(i, p, s) <= p.base + (s + 1) * p.stride
      BY SMT, <3>1, RoomOfCg
    <3>3. s = 0 \/ s = 1
      OBVIOUS
    <3>. QED BY SMT, <1>2, <3>2, <3>3
  <2>2. CASE w = "CF0"
    <3>1. f = p.base /\ l = i.cf[0]
      BY SMT, <2>2, Places, Extents
    <3>. QED BY SMT, <1>2, <1>3, <1>5, <3>1
  <2>3. CASE w = "CF1"
    <3>1. f = p.base + p.stride /\ l = i.cf[1]
      BY SMT, <2>3, Places, Extents
    <3>. QED BY SMT, <1>2, <1>3, <1>5, <3>1
  <2>4. CASE w = "CG0"
    <3>1. f = CgAt(i, p, 0) /\ l = On(i.cf[0] # 0, CgRoom(i, p, 0))
      BY SMT, <2>4, Places, Extents
    <3>2. l \in {0, CgRoom(i, p, 0)}
      BY SMT, <3>1 DEF On
    <3>. QED BY SMT, <1>5, <2>1, <3>1, <3>2
  <2>5. CASE w = "CG1"
    <3>1. f = CgAt(i, p, 1) /\ l = On(i.cf[1] # 0, CgRoom(i, p, 1))
      BY SMT, <2>5, Places, Extents
    <3>2. l \in {0, CgRoom(i, p, 1)}
      BY SMT, <3>1 DEF On
    <3>. QED BY SMT, <1>5, <2>1, <3>1, <3>2
  <2>. QED BY SMT, <1>6, <2>2, <2>3, <2>4, <2>5 DEF SlotNames
<1>7. CASE w = "chain"
  <2>1. f = \h8000 /\ l = Align16(i.chain)
    BY SMT, <1>7, Places, Extents
  <2>. QED BY SMT, <1>4, <1>5, <2>1
<1>8. CASE w = "payload"
  <2>1. f = \h200 /\ l = On(i.payload, \h200)
    BY SMT, <1>8, Places, Extents
  <2>2. l \in {0, \h200}
    BY SMT, <2>1 DEF On
  <2>3. Zoned(i, w, f, l)
    BY SMT, <1>8, <2>1, <2>2, ZoneOf
  <2>. QED BY SMT, <2>3 DEF f, l
<1>9. CASE w = "rebooter"
  <2>1. f = p.window /\ l = i.rebooter
    BY SMT, <1>9, Places, Extents
  <2>. QED BY SMT, <1>2, <1>3, <1>5, <2>1
<1>10. CASE w = "fuses"
  <2>1. f = p.fuses /\ l = On(i.fuses, \h60)
    BY SMT, <1>10, Places, Extents
  <2>2. l \in {0, \h60}
    BY SMT, <2>1 DEF On
  <2>. QED BY SMT, <1>2, <1>5, <2>1, <2>2
<1>11. CASE w = "xell"
  <2>1. f = p.xell /\ l = On(i.xell, \h40000)
    BY SMT, <1>11, Places, Extents
  <2>2. l \in {0, \h40000}
    BY SMT, <2>1 DEF On
  <2>. QED BY SMT, <1>2, <1>5, <2>1, <2>2
<1>12. CASE w = "patch"
  <2>1. f = PatchAt(i, p) /\ l = On(i.patch # "none", i.patchSize)
    BY SMT, <1>12, Places, Extents
  <2>2. f = (IF i.patch = "jtag" THEN p.window + \h1000 ELSE p.overlay + p.prefix)
    BY SMT, <2>1 DEF PatchAt
  <2>3. l \in {0, i.patchSize}
    BY SMT, <2>1 DEF On
  <2>. QED BY SMT, <1>2, <1>3, <1>5, <2>2, <2>3
<1>13. CASE w = "extraCb"
  <2>1. f = ExtraCbAt(p) /\ l = On(p.jtag, i.extraCb)
    BY SMT, <1>13, Places, Extents
  <2>2. f = p.window + \h5060 + \h40000
    BY SMT, <2>1 DEF ExtraCbAt, kXellSize
  <2>3. l \in {0, i.extraCb}
    BY SMT, <2>1 DEF On
  <2>. QED BY SMT, <1>2, <1>3, <1>5, <2>2, <2>3
<1>14. CASE w = "extraCd"
  <2>1. f = ExtraCdAt(i, p) /\ l = On(p.jtag, i.extraCd)
    BY SMT, <1>14, Places, Extents
  <2>2. f = p.window + \h5060 + \h40000 + Align16(i.extraCb)
    BY SMT, <2>1 DEF ExtraCbAt, ExtraCdAt, kXellSize
  <2>3. l \in {0, i.extraCd}
    BY SMT, <2>1 DEF On
  <2>. QED BY SMT, <1>2, <1>3, <1>4, <1>5, <2>2, <2>3
<1>. QED BY SMT, <1>6, <1>7, <1>8, <1>9, <1>10, <1>11, <1>12, <1>13, <1>14
     DEF ClaimNames, PayloadNames, FromPatch, SecondNames

LEMMA Zones ==
  ASSUME NEW i, i \in ImageRecord, NEW p, Accepted(i, p), NEW w \in Names
  PROVE  Zoned(i, w, Place(w, i, p), Extent(w, i, p))
<1>1. w \in HeadNames \/ w \in LateNames \/ w \in ClaimNames
  BY SMT DEF Names, FromChain, FromSlots, FromConsole, FromAnchors, FromPayloads, ClaimNames, LateNames
<1>. QED BY SMT, <1>1, HeadZones, LateZones, ClaimZones

\* The ranges payload_layout looks at, empty ones included.
AllRanges(i, p) ==
  {Piece("xell", p.xell, IF i.xell THEN kXellSize ELSE 0),
   Piece("payload", \h200, IF i.payload THEN kSmcPayloadSize ELSE 0),
   Piece("rebooter", p.window, i.rebooter),
   Piece("fuses", p.fuses, IF i.fuses THEN kFuseSize ELSE 0),
   Piece("extraCb", ExtraCbAt(p), IF p.jtag THEN i.extraCb ELSE 0),
   Piece("extraCd", ExtraCdAt(i, p), IF p.jtag THEN i.extraCd ELSE 0),
   Piece("chain", kEntryOffset, Align16(i.chain))}
  \cup SlotRanges(i, p, 0) \cup SlotRanges(i, p, 1) \cup PatchRange(i, p)

LEMMA PieceIs ==
  ASSUME NEW w, NEW f, NEW l
  PROVE  Piece(w, f, l).what = w /\ Piece(w, f, l).from = f /\ Piece(w, f, l).to = f + l
BY DEF Piece

LEMMA RangeOf ==
  ASSUME NEW i, NEW p, NEW w, NEW f, NEW l, Piece(w, f, l) \in AllRanges(i, p),
         f \in Nat, l \in Nat, l > 0
  PROVE  \E c \in PayloadRanges(i, p) : c.what = w /\ c.from = f /\ c.to = f + l
<1>1. PayloadRanges(i, p) = {r \in AllRanges(i, p) : r.from < r.to}
  BY DEF PayloadRanges, AllRanges
<1>2. Piece(w, f, l).from < Piece(w, f, l).to
  BY SMT, PieceIs
<1>. QED BY <1>1, <1>2, PieceIs

\* Each item but the fixed ones lies in a range of its name.
LEMMA Claimed ==
  ASSUME NEW i, i \in ImageRecord, NEW p, Accepted(i, p), NEW w \in ClaimNames,
         Extent(w, i, p) > 0
  PROVE  \E c \in PayloadRanges(i, p) :
           /\ c.what = w /\ c.from \in Nat /\ c.to \in Nat /\ c.from < c.to
           /\ c.from <= Place(w, i, p) /\ Place(w, i, p) + Extent(w, i, p) <= c.to
<1>. DEFINE f == Place(w, i, p)
            l == Extent(w, i, p)
<1>1. f \in Nat /\ l \in Nat /\ l > 0
  BY SMT, ClaimZones DEF Zoned
<1>2. ASSUME Piece(w, f, l) \in AllRanges(i, p)
      PROVE  \E c \in PayloadRanges(i, p) :
               /\ c.what = w /\ c.from \in Nat /\ c.to \in Nat /\ c.from < c.to
               /\ c.from <= f /\ f + l <= c.to
  <2>. HIDE DEF f, l
  <2>1. PICK c \in PayloadRanges(i, p) : c.what = w /\ c.from = f /\ c.to = f + l
    BY <1>1, <1>2, RangeOf
  <2>2. c.from \in Nat /\ c.to \in Nat /\ c.from < c.to /\ c.from <= f /\ f + l <= c.to
    BY SMT, <1>1, <2>1
  <2>. QED BY <2>1, <2>2
<1>3. CASE w = "xell"
  <2>1. f = p.xell /\ l = On(i.xell, \h40000)
    BY SMT, <1>3, Places, Extents
  <2>2. l = IF i.xell THEN kXellSize ELSE 0
    BY SMT, <2>1 DEF On, kXellSize
  <2>. HIDE DEF f, l
  <2>3. Piece(w, f, l) \in AllRanges(i, p)
    BY <1>3, <2>1, <2>2 DEF AllRanges
  <2>. QED BY <1>2, <2>3 DEF f, l
<1>4. CASE w = "payload"
  <2>1. f = \h200 /\ l = On(i.payload, \h200)
    BY SMT, <1>4, Places, Extents
  <2>2. l = IF i.payload THEN kSmcPayloadSize ELSE 0
    BY SMT, <2>1 DEF On, kSmcPayloadSize
  <2>. HIDE DEF f, l
  <2>3. Piece(w, f, l) \in AllRanges(i, p)
    BY <1>4, <2>1, <2>2 DEF AllRanges
  <2>. QED BY <1>2, <2>3 DEF f, l
<1>5. CASE w = "rebooter"
  <2>1. f = p.window /\ l = i.rebooter
    BY SMT, <1>5, Places, Extents
  <2>. HIDE DEF f, l
  <2>3. Piece(w, f, l) \in AllRanges(i, p)
    BY <1>5, <2>1 DEF AllRanges
  <2>. QED BY <1>2, <2>3 DEF f, l
<1>6. CASE w = "fuses"
  <2>1. f = p.fuses /\ l = On(i.fuses, \h60)
    BY SMT, <1>6, Places, Extents
  <2>2. l = IF i.fuses THEN kFuseSize ELSE 0
    BY SMT, <2>1 DEF On, kFuseSize
  <2>. HIDE DEF f, l
  <2>3. Piece(w, f, l) \in AllRanges(i, p)
    BY <1>6, <2>1, <2>2 DEF AllRanges
  <2>. QED BY <1>2, <2>3 DEF f, l
<1>7. CASE w = "extraCb"
  <2>1. f = ExtraCbAt(p) /\ l = On(p.jtag, i.extraCb)
    BY SMT, <1>7, Places, Extents
  <2>2. l = IF p.jtag THEN i.extraCb ELSE 0
    BY <2>1 DEF On
  <2>. HIDE DEF f, l
  <2>3. Piece(w, f, l) \in AllRanges(i, p)
    BY <1>7, <2>1, <2>2 DEF AllRanges
  <2>. QED BY <1>2, <2>3 DEF f, l
<1>8. CASE w = "extraCd"
  <2>1. f = ExtraCdAt(i, p) /\ l = On(p.jtag, i.extraCd)
    BY SMT, <1>8, Places, Extents
  <2>2. l = IF p.jtag THEN i.extraCd ELSE 0
    BY <2>1 DEF On
  <2>. HIDE DEF f, l
  <2>3. Piece(w, f, l) \in AllRanges(i, p)
    BY <1>8, <2>1, <2>2 DEF AllRanges
  <2>. QED BY <1>2, <2>3 DEF f, l
<1>9. CASE w = "chain"
  <2>1. f = \h8000 /\ l = Align16(i.chain)
    BY SMT, <1>9, Places, Extents
  <2>2. f = kEntryOffset
    BY <2>1 DEF kEntryOffset
  <2>. HIDE DEF f, l
  <2>3. Piece(w, f, l) \in AllRanges(i, p)
    BY <1>9, <2>1, <2>2 DEF AllRanges
  <2>. QED BY <1>2, <2>3 DEF f, l
<1>10. CASE w \in SlotNames
  <2>1. /\ CfName[1] = "CF0" /\ CfName[2] = "CF1" /\ CgName[1] = "CG0" /\ CgName[2] = "CG1"
    BY DEF CfName, CgName
  <2>2. CfName[0 + 1] = "CF0" /\ CfName[1 + 1] = "CF1" /\ CgName[0 + 1] = "CG0" /\ CgName[1 + 1] = "CG1"
    BY SMT, <2>1
  <2>5. PlanFor(i, p)
    BY DEF Accepted
  <2>3. p.base \in Nat /\ p.stride \in Nat
    BY SMT, <2>5 DEF PlanFor
  <2>4. 0 * p.stride = 0 /\ 1 * p.stride = p.stride /\ p.base + 0 = p.base
    BY SMT, <2>3
  <2>6. p.base + 0 * p.stride = p.base /\ p.base + 1 * p.stride = p.base + p.stride
    BY <2>4
  <2>7. CASE w = "CF0"
    <3>1. f = p.base /\ l = i.cf[0]
      BY SMT, <2>7, Places, Extents
    <3>2. i.cf[0] # 0
      BY SMT, <1>1, <3>1
    <3>3. Piece(w, f, l) \in SlotRanges(i, p, 0)
      <4>. HIDE DEF f, l
      <4>. QED BY <2>2, <2>6, <2>7, <3>1, <3>2 DEF SlotRanges
    <3>. HIDE DEF f, l
    <3>4. Piece(w, f, l) \in AllRanges(i, p)
      BY <3>3 DEF AllRanges
    <3>. QED BY <1>2, <3>4 DEF f, l
  <2>8. CASE w = "CF1"
    <3>1. f = p.base + p.stride /\ l = i.cf[1]
      BY SMT, <2>8, Places, Extents
    <3>2. i.cf[1] # 0
      BY SMT, <1>1, <3>1
    <3>3. Piece(w, f, l) \in SlotRanges(i, p, 1)
      <4>. HIDE DEF f, l
      <4>. QED BY <2>2, <2>6, <2>8, <3>1, <3>2 DEF SlotRanges
    <3>. HIDE DEF f, l
    <3>4. Piece(w, f, l) \in AllRanges(i, p)
      BY <3>3 DEF AllRanges
    <3>. QED BY <1>2, <3>4 DEF f, l
  <2>9. CASE w = "CG0"
    <3>1. f = CgAt(i, p, 0) /\ l = On(i.cf[0] # 0, CgRoom(i, p, 0))
      BY SMT, <2>9, Places, Extents
    <3>2. i.cf[0] # 0 /\ l = CgRoom(i, p, 0)
      BY SMT, <1>1, <3>1 DEF On
    <3>3. Piece(w, f, l) \in SlotRanges(i, p, 0)
      <4>. HIDE DEF f, l
      <4>. QED BY <2>2, <2>9, <3>1, <3>2 DEF SlotRanges, CgAt
    <3>. HIDE DEF f, l
    <3>4. Piece(w, f, l) \in AllRanges(i, p)
      BY <3>3 DEF AllRanges
    <3>. QED BY <1>2, <3>4 DEF f, l
  <2>10. CASE w = "CG1"
    <3>1. f = CgAt(i, p, 1) /\ l = On(i.cf[1] # 0, CgRoom(i, p, 1))
      BY SMT, <2>10, Places, Extents
    <3>2. i.cf[1] # 0 /\ l = CgRoom(i, p, 1)
      BY SMT, <1>1, <3>1 DEF On
    <3>3. Piece(w, f, l) \in SlotRanges(i, p, 1)
      <4>. HIDE DEF f, l
      <4>. QED BY <2>2, <2>10, <3>1, <3>2 DEF SlotRanges, CgAt
    <3>. HIDE DEF f, l
    <3>4. Piece(w, f, l) \in AllRanges(i, p)
      BY <3>3 DEF AllRanges
    <3>. QED BY <1>2, <3>4 DEF f, l
  <2>. QED BY <1>10, <2>7, <2>8, <2>9, <2>10 DEF SlotNames
<1>11. CASE w = "patch"
  <2>1. f = PatchAt(i, p) /\ l = On(i.patch # "none", i.patchSize)
    BY SMT, <1>11, Places, Extents
  <2>2. i.patch # "none" /\ l = i.patchSize
    BY SMT, <1>1, <2>1 DEF On
  <2>3. CASE i.patch = "jtag"
    <3>1. f = p.window + \h1000
      BY <2>1, <2>3 DEF PatchAt
    <3>2. Piece(w, f, l) \in PatchRange(i, p)
      <4>. HIDE DEF f, l
      <4>. QED BY <1>11, <2>2, <2>3, <3>1 DEF PatchRange
    <3>3. Piece(w, f, l) \in AllRanges(i, p)
      <4>. HIDE DEF f, l
      <4>. QED BY <3>2 DEF AllRanges
    <3>. QED BY <1>2, <3>3
  <2>4. CASE i.patch = "glitch"
    <3>. DEFINE m == p.stride - p.prefix
                e == p.overlay + p.prefix
    <3>1. f = e
      BY <2>1, <2>4 DEF PatchAt
    <3>2. Piece(w, e, m) \in PatchRange(i, p)
      BY <1>11, <2>4 DEF PatchRange
    <3>3. Piece(w, e, m) \in AllRanges(i, p)
      <4>. HIDE DEF e, m
      <4>. QED BY <3>2 DEF AllRanges
    <3>4. l <= m
      BY <2>2, <2>4 DEF Accepted
    <3>5. m \in Nat /\ e \in Nat
      <4>1. PlanFor(i, p)
        BY DEF Accepted
      <4>2. p.stride \in {\h10000, \h20000} /\ p.prefix \in {\h10, \h60} /\ p.overlay \in Nat
        BY SMT, <4>1 DEF PlanFor
      <4>. QED BY SMT, <4>2
    <3>. HIDE DEF f, l, e, m
    <3>6. m > 0
      BY SMT, <1>1, <3>4, <3>5
    <3>7. PICK c \in PayloadRanges(i, p) : c.what = w /\ c.from = e /\ c.to = e + m
      BY <3>3, <3>5, <3>6, RangeOf
    <3>8. c.from \in Nat /\ c.to \in Nat /\ c.from < c.to /\ c.from <= f /\ f + l <= c.to
      BY SMT, <1>1, <3>1, <3>4, <3>5, <3>6, <3>7
    <3>. QED BY <3>7, <3>8 DEF f, l
  <2>. QED BY <2>2, <2>3, <2>4, Sizes
<1>. QED BY <1>3, <1>4, <1>5, <1>6, <1>7, <1>8, <1>9, <1>10, <1>11
     DEF ClaimNames, PayloadNames, FromPatch, SecondNames

\* Two intervals, each a place and a length, that do not meet.
Off(f, l, g, m) == f + l <= g \/ g + m <= f

\* No two items of an accepted image meet.
LEMMA LateApart ==
  ASSUME NEW i, i \in ImageRecord, NEW p, NEW w \in LateNames, NEW v \in LateNames, w # v,
         Extent(w, i, p) > 0, Extent(v, i, p) > 0
  PROVE  Off(Place(w, i, p), Extent(w, i, p), Place(v, i, p), Extent(v, i, p))
<1>1. /\ Place("settings", i, p) = ConsoleAt(i, 0)
      /\ Place("statistics", i, p) = ConsoleAt(i, 1)
      /\ Place("manufacturing", i, p) = ConsoleAt(i, 2)
      /\ Place("anchor1", i, p) = \h2FE8000 /\ Place("anchor2", i, p) = \h2FEC000
  BY SMT, Places
<1>2. /\ Extent("settings", i, p) \in {0, \h1000} /\ Extent("statistics", i, p) \in {0, \h1000}
      /\ Extent("manufacturing", i, p) \in {0, \h1000}
      /\ Extent("anchor1", i, p) \in {0, \h4000} /\ Extent("anchor2", i, p) \in {0, \h4000}
      /\ Extent("anchor1", i, p) > 0 => i.shape = "emmc"
      /\ Extent("anchor2", i, p) > 0 => i.shape = "emmc"
  BY SMT, Extents DEF On
<1>3. /\ ConsoleAt(i, 0) \in Nat /\ ConsoleAt(i, 1) \in Nat /\ ConsoleAt(i, 2) \in Nat
      /\ ConsoleAt(i, 0) >= ConsoleAt(i, 1) + \h4000 /\ ConsoleAt(i, 1) >= ConsoleAt(i, 2) + \h4000
      /\ i.shape = "emmc" => ConsoleAt(i, 2) = 50282496
  BY SMT, Shape DEF ConsoleAt
<1>. QED BY SMT, <1>1, <1>2, <1>3 DEF Off, LateNames, ConsoleNames, AnchorNames

LEMMA HeadApart ==
  ASSUME NEW i, i \in ImageRecord, NEW p, Accepted(i, p), NEW w \in HeadNames, NEW v \in HeadNames, w # v,
         Extent(w, i, p) > 0, Extent(v, i, p) > 0
  PROVE  Off(Place(w, i, p), Extent(w, i, p), Place(v, i, p), Extent(v, i, p))
<1>1. /\ Place("header", i, p) = 0 /\ Place("smc", i, p) = SmcAt(i)
      /\ Place("keyvault", i, p) = \h4000
  BY SMT, Places
<1>2. /\ Extent("header", i, p) = \h80 /\ Extent("smc", i, p) = i.smc
      /\ Extent("keyvault", i, p) = \h4000
  BY SMT, Extents
<1>3. i.smc \in Nat /\ i.smc <= \h3C00
  BY SMT, Sizes DEF Sized, Accepted
<1>4. SmcAt(i) \in Nat /\ (i.smc # 0 => SmcAt(i) = \h4000 - i.smc)
  BY SMT, <1>3 DEF SmcAt, kKeyvaultOffset
<1>. QED BY SMT, <1>1, <1>2, <1>3, <1>4 DEF Off, HeadNames

LEMMA ClaimApart ==
  ASSUME NEW i, i \in ImageRecord, NEW p, Accepted(i, p), NEW w \in ClaimNames,
         NEW c \in PayloadRanges(i, p), c.what # w, Extent(w, i, p) > 0,
         c.from \in Nat, c.to \in Nat
  PROVE  Off(Place(w, i, p), Extent(w, i, p), c.from, c.to - c.from)
<1>1. PICK d \in PayloadRanges(i, p) :
        /\ d.what = w /\ d.from \in Nat /\ d.to \in Nat /\ d.from < d.to
        /\ d.from <= Place(w, i, p) /\ Place(w, i, p) + Extent(w, i, p) <= d.to
  BY Claimed
<1>2. c # d
  BY <1>1
<1>3. ~Overlap(c, d)
  BY <1>1, <1>2 DEF Accepted, NoCollision
<1>4. ~(c.from < d.to /\ d.from < c.to)
  BY <1>3 DEF Overlap
<1>5. Place(w, i, p) \in Nat /\ Extent(w, i, p) \in Nat
  BY SMT, ClaimZones DEF Zoned
<1>. DEFINE f == Place(w, i, p)
            l == Extent(w, i, p)
<1>. HIDE DEF f, l
<1>6. Off(f, l, c.from, c.to - c.from)
  <2>1. f \in Nat /\ l \in Nat /\ d.from <= f /\ f + l <= d.to
    BY <1>1, <1>5 DEF f, l
  <2>. QED BY SMT, <1>1, <1>4, <2>1 DEF Off
<1>. QED BY <1>6 DEF f, l

LEMMA ItemsApart ==
  ASSUME NEW i, i \in ImageRecord, NEW p, Accepted(i, p), NEW w \in Names, NEW v \in Names, w # v,
         Extent(w, i, p) > 0, Extent(v, i, p) > 0
  PROVE  Off(Place(w, i, p), Extent(w, i, p), Place(v, i, p), Extent(v, i, p))
<1>1. /\ w \in HeadNames \/ w \in LateNames \/ w \in ClaimNames
      /\ v \in HeadNames \/ v \in LateNames \/ v \in ClaimNames
  BY DEF Names, FromChain, FromSlots, FromConsole, FromAnchors, FromPayloads, ClaimNames, LateNames
<1>2. CASE w \in HeadNames /\ v \in HeadNames
  BY <1>2, HeadApart
<1>3. CASE w \in LateNames /\ v \in LateNames
  BY <1>3, LateApart
<1>4. CASE w \in ClaimNames /\ v \in ClaimNames
  <2>1. PICK c \in PayloadRanges(i, p) :
          /\ c.what = v /\ c.from \in Nat /\ c.to \in Nat /\ c.from < c.to
          /\ c.from <= Place(v, i, p) /\ Place(v, i, p) + Extent(v, i, p) <= c.to
    BY <1>4, Claimed
  <2>2. Off(Place(w, i, p), Extent(w, i, p), c.from, c.to - c.from)
    BY <1>4, <2>1, ClaimApart
  <2>3. /\ Place(w, i, p) \in Nat /\ Extent(w, i, p) \in Nat
        /\ Place(v, i, p) \in Nat /\ Extent(v, i, p) \in Nat
    BY SMT, <1>4, ClaimZones DEF Zoned
  <2>. QED BY SMT, <2>1, <2>2, <2>3 DEF Off
<1>5. CASE ~(\/ w \in HeadNames /\ v \in HeadNames
             \/ w \in LateNames /\ v \in LateNames
             \/ w \in ClaimNames /\ v \in ClaimNames)
  <2>1. /\ Zoned(i, w, Place(w, i, p), Extent(w, i, p))
        /\ Zoned(i, v, Place(v, i, p), Extent(v, i, p))
    BY Zones
  <2>. DEFINE f == Place(w, i, p)
              l == Extent(w, i, p)
              g == Place(v, i, p)
              m == Extent(v, i, p)
  <2>2. Zoned(i, w, f, l) /\ Zoned(i, v, g, m) /\ l > 0 /\ m > 0
    BY <2>1
  <2>. HIDE DEF f, l, g, m
  <2>3. Off(f, l, g, m)
    BY SMT, <1>1, <1>5, <2>2 DEF Off, Zoned
  <2>. QED BY <2>3 DEF f, l, g, m
<1>. QED BY <1>2, <1>3, <1>4, <1>5

---------------------------------------------------------------------------
(* What is read back of an accepted image lies where the image lay it.     *)

LEMMA SameShape ==
  ASSUME NEW i, NEW j, j.shape = i.shape
  PROVE  /\ ImageSize(j) = ImageSize(i) /\ BlockSize(j) = BlockSize(i)
         /\ SmcConfigBlock(j) = SmcConfigBlock(i)
<1>1. BlockSize(j) = BlockSize(i) /\ BlockCount(j) = BlockCount(i)
  BY SMT DEF BlockSize, BlockCount
<1>2. ImageSize(j) = ImageSize(i)
  BY SMT, <1>1 DEF ImageSize
<1>3. ReserveBlock(j) = ReserveBlock(i)
  <2>. DEFINE R(s, n) == CASE s = "big"  -> \h1E0
                           [] s = "emmc" -> \hC00
                           [] OTHER -> IF n > \h400 THEN n - n \div 32 ELSE \h3E0
  <2>1. ReserveBlock(j) = Min({R(j.shape, BlockCount(j)), BlockCount(j)})
    BY DEF ReserveBlock
  <2>2. ReserveBlock(i) = Min({R(i.shape, BlockCount(i)), BlockCount(i)})
    BY DEF ReserveBlock
  <2>. HIDE DEF R
  <2>. QED BY <1>1, <2>1, <2>2
<1>. QED BY <1>1, <1>2, <1>3 DEF SmcConfigBlock

\* An item read back lies where the image lay it and is as long; but the
\* rebooter is taken for a whole 1000h bytes, and what the second slot holds
\* before the patches for the fuses.
LEMMA BackItem ==
  ASSUME NEW i, i \in ImageRecord, NEW p, Accepted(i, p), NEW j, NEW q, ReadFrom(i, p, j, q),
         NEW w \in Names, Extent(w, j, q) # 0
  PROVE  /\ Place(w, j, q) = Place(w, i, p)
         /\ \/ Extent(w, j, q) = Extent(w, i, p)
            \/ /\ w = "rebooter" /\ j.rebooter # 0 /\ Extent(w, j, q) = \h1000
               /\ Place(w, i, p) = \h90000 /\ Extent(w, i, p) > 0 /\ Extent(w, i, p) <= \h1000
            \/ /\ w = "fuses" /\ j.fuses /\ ~i.fuses /\ Extent(w, j, q) = \h60
               /\ Extent(w, i, p) = 0
<1>1. /\ j.shape = i.shape /\ j.smc = i.smc /\ j.chain = i.chain
      /\ j.cf = i.cf /\ j.cg = i.cg /\ j.console = i.console
      /\ ~j.payload /\ j.extraCb = 0 /\ j.extraCd = 0
      /\ q.base = p.base /\ q.stride = p.stride /\ q.overlay = p.overlay /\ q.window = p.window
  BY SMT DEF ReadFrom
<1>2. CASE w \in HeadNames \cup {"chain"}
  <2>1. SmcAt(j) = SmcAt(i)
    BY SMT, <1>1 DEF SmcAt
  <2>. QED BY SMT, <1>1, <1>2, <2>1, Places, Extents DEF HeadNames
<1>3. CASE w \in SlotNames
  <2>1. /\ CgAt(j, q, 0) = CgAt(i, p, 0) /\ CgAt(j, q, 1) = CgAt(i, p, 1)
    BY <1>1 DEF CgAt
  <2>2. /\ CgRoom(j, q, 0) = CgRoom(i, p, 0) /\ CgRoom(j, q, 1) = CgRoom(i, p, 1)
    BY <1>1 DEF CgRoom
  <2>. QED BY SMT, <1>1, <1>3, <2>1, <2>2, Places, Extents DEF SlotNames
<1>4. CASE w \in LateNames
  <2>1. \A n \in 0 .. 2 : ConsoleAt(j, n) = ConsoleAt(i, n)
    BY <1>1, SameShape DEF ConsoleAt
  <2>2. /\ ConsoleAt(j, 0) = ConsoleAt(i, 0) /\ ConsoleAt(j, 1) = ConsoleAt(i, 1)
        /\ ConsoleAt(j, 2) = ConsoleAt(i, 2)
    BY SMT, <2>1
  <2>. QED BY SMT, <1>1, <1>4, <2>2, Places, Extents DEF LateNames, ConsoleNames, AnchorNames
<1>5. CASE w \in {"payload"} \cup SecondNames
  <2>1. Extent(w, j, q) = 0
    BY SMT, <1>1, <1>5, Extents DEF SecondNames, On
  <2>. QED BY <2>1
<1>6. CASE w = "rebooter"
  <2>1. /\ Extent(w, j, q) = j.rebooter /\ Extent(w, i, p) = i.rebooter
        /\ Place(w, j, q) = q.window /\ Place(w, i, p) = p.window
    BY SMT, <1>6, Places, Extents
  <2>2. j.rebooter = \h1000 /\ i.rebooter # 0
    BY SMT, <2>1 DEF ReadFrom
  <2>3. PlanFor(i, p) /\ i.rebooter <= \h1000
    BY DEF Accepted
  <2>4. p.window = \h90000
    BY SMT, <2>3 DEF PlanFor
  <2>5. i.rebooter \in Nat
    BY SMT, Sizes DEF Sized
  <2>. QED BY SMT, <1>1, <1>6, <2>1, <2>2, <2>3, <2>4, <2>5
<1>7. CASE w = "fuses"
  <2>1. /\ Extent(w, j, q) = On(j.fuses, \h60) /\ Extent(w, i, p) = On(i.fuses, \h60)
        /\ Place(w, j, q) = q.fuses /\ Place(w, i, p) = p.fuses
    BY SMT, <1>7, Places, Extents
  <2>2. j.fuses
    BY SMT, <2>1 DEF On
  <2>3. q.fuses = p.fuses
    BY SMT, <2>2 DEF ReadFrom
  <2>. QED BY SMT, <1>7, <2>1, <2>2, <2>3 DEF On
<1>8. CASE w = "xell"
  <2>1. /\ Extent(w, j, q) = On(j.xell, \h40000) /\ Extent(w, i, p) = On(i.xell, \h40000)
        /\ Place(w, j, q) = q.xell /\ Place(w, i, p) = p.xell
    BY SMT, <1>8, Places, Extents
  <2>2. j.xell
    BY SMT, <2>1 DEF On
  <2>3. q.xell = p.xell /\ i.xell
    BY SMT, <2>2 DEF ReadFrom
  <2>. QED BY SMT, <2>1, <2>2, <2>3 DEF On
<1>9. CASE w = "patch"
  <2>1. /\ Extent(w, j, q) = On(j.patch # "none", j.patchSize)
        /\ Extent(w, i, p) = On(i.patch # "none", i.patchSize)
        /\ Place(w, j, q) = PatchAt(j, q) /\ Place(w, i, p) = PatchAt(i, p)
    BY SMT, <1>9, Places, Extents
  <2>2. j.patch # "none"
    BY SMT, <2>1 DEF On
  <2>3. j.patch = "glitch" /\ i.patch = "glitch" /\ j.patchSize = i.patchSize /\ q.prefix = p.prefix
    BY SMT, <2>2 DEF ReadFrom
  <2>4. PatchAt(j, q) = PatchAt(i, p)
    BY SMT, <1>1, <2>3 DEF PatchAt
  <2>. QED BY SMT, <2>1, <2>3, <2>4 DEF On
<1>. QED BY <1>2, <1>3, <1>4, <1>5, <1>6, <1>7, <1>8, <1>9
     DEF Names, FromChain, FromSlots, FromConsole, FromAnchors, FromPayloads, FromPatch, LateNames, PayloadNames

---------------------------------------------------------------------------
(* What is free of items: the second slot of a glitch image but for its    *)
(* patches and fuses, and the rest of a rebooter's 1000h bytes.            *)

LEMMA AlignedBelow ==
  ASSUME NEW n, n \in Nat, NEW m, m \in Nat, n <= m, m % 16 = 0
  PROVE  Align16(n) <= m
BY SMT DEF Align16, RoundUp

\* The second slot behind its prefix is claimed by the patches.
LEMMA PatchClaim ==
  ASSUME NEW i, i \in ImageRecord, NEW p, Accepted(i, p), i.patch = "glitch"
  PROVE  \E c \in PayloadRanges(i, p) :
           c.what = "patch" /\ c.from = p.overlay + p.prefix /\ c.to = p.overlay + p.stride
<1>. DEFINE m == p.stride - p.prefix
            e == p.overlay + p.prefix
<1>1. PlanFor(i, p)
  BY DEF Accepted
<1>2. p.stride \in {\h10000, \h20000} /\ p.prefix \in {\h10, \h60} /\ p.overlay \in Nat
  BY SMT, <1>1 DEF PlanFor
<1>3. m \in Nat /\ e \in Nat /\ m > 0 /\ e + m = p.overlay + p.stride
  BY SMT, <1>2
<1>4. Piece("patch", e, m) \in PatchRange(i, p)
  BY DEF PatchRange
<1>. HIDE DEF e, m
<1>5. Piece("patch", e, m) \in AllRanges(i, p)
  BY <1>4 DEF AllRanges
<1>6. PICK c \in PayloadRanges(i, p) : c.what = "patch" /\ c.from = e /\ c.to = e + m
  BY <1>3, <1>5, RangeOf
<1>. QED BY <1>3, <1>6 DEF e

\* What the plan of an image with KHV patches says of its second slot.
LEMMA OverlayPlan ==
  ASSUME NEW i, i \in ImageRecord, NEW p, Accepted(i, p), i.patch = "glitch"
  PROVE  /\ p.glitch /\ ~p.jtag /\ p.xell = \h70000 /\ i.cf[1] = 0
         /\ p.base \in Nat /\ p.base >= \h8000 /\ p.overlay \in Nat /\ p.overlay <= \h150000
         /\ p.overlay % \h4000 = 0 /\ p.overlay = p.base + p.stride
         /\ p.stride \in {\h10000, \h20000} /\ p.prefix \in {\h10, \h60}
         /\ p.window = \h90000
         /\ Manufacturing(i) => p.fuses = p.overlay /\ p.prefix = \h60
         /\ ~Manufacturing(i) => p.fuses = \h95000
         /\ i.type # "devkit" => p.overlay # \h90000
<1>1. PlanFor(i, p) /\ ~p.jtag /\ (p.glitch => i.cf[1] = 0)
  BY DEF Accepted
<1>2. p.glitch /\ p.xell = \h70000
  BY SMT, <1>1 DEF PlanFor
<1>3. /\ p.base \in Nat /\ p.base >= \h8000 /\ p.base <= \h130000 /\ p.base % \h4000 = 0
      /\ p.stride \in {\h10000, \h20000} /\ p.overlay = p.base + p.stride
  BY SMT, <1>1 DEF PlanFor
<1>4. p.overlay \in Nat /\ p.overlay <= \h150000 /\ p.overlay % \h4000 = 0
  BY SMT, <1>3
<1>5. p.window = \h90000 /\ p.prefix \in {\h10, \h60}
      /\ (Manufacturing(i) => p.fuses = p.overlay /\ p.prefix = \h60)
      /\ (~Manufacturing(i) => p.fuses = \h95000)
      /\ (i.type # "devkit" => p.overlay # \h90000)
  BY SMT, <1>1 DEF PlanFor
<1>. QED BY <1>1, <1>2, <1>3, <1>4, <1>5

LEMMA OverlayRoom ==
  ASSUME NEW i, i \in ImageRecord, NEW p, Accepted(i, p), i.patch = "glitch",
         NEW w \in Names, Extent(w, i, p) > 0, w # "patch",
         w = "fuses" => ~Manufacturing(i), w = "rebooter" => i.type # "devkit"
  PROVE  Off(Place(w, i, p), Extent(w, i, p), p.overlay, p.stride)
<1>. DEFINE f == Place(w, i, p)
            l == Extent(w, i, p)
<1>0. Zoned(i, w, f, l)
  BY Zones
<1>1. f \in Nat /\ l \in Nat /\ l > 0
  BY SMT, <1>0 DEF Zoned
<1>. DEFINE v == p.overlay
            t == p.stride
            n == p.prefix
<1>2. /\ p.base \in Nat /\ p.base >= \h8000 /\ v \in Nat /\ v <= \h150000 /\ v % \h4000 = 0
      /\ v = p.base + t /\ t \in {\h10000, \h20000} /\ n \in {\h10, \h60}
  BY SMT, OverlayPlan
<1>3. w \in ClaimNames => Off(f, l, v + n, t - n)
  <2>1. PICK c \in PayloadRanges(i, p) : c.what = "patch" /\ c.from = v + n /\ c.to = v + t
    BY PatchClaim
  <2>2. c.from \in Nat /\ c.to \in Nat
    BY SMT, <1>2, <2>1
  <2>3. w \in ClaimNames => Off(f, l, c.from, c.to - c.from)
    BY <2>1, <2>2, ClaimApart
  <2>. HIDE DEF f, l, v, t, n
  <2>4. c.to - c.from = t - n
    BY SMT, <1>2, <2>1
  <2>. QED BY <2>1, <2>3, <2>4
<1>4. CASE w \in HeadNames \/ w \in LateNames
  <2>. HIDE DEF f, l, v, t, n
  <2>1. Off(f, l, v, t)
    BY SMT, <1>0, <1>1, <1>2, <1>4 DEF Zoned, Off
  <2>. QED BY <2>1 DEF f, l, v, t
<1>5. CASE w = "chain"
  <2>1. f = \h8000 /\ l = Align16(i.chain)
    BY SMT, <1>5, Places, Extents
  <2>2. kEntryOffset + Align16(i.chain) <= v
    BY DEF Accepted
  <2>. QED BY SMT, <2>1, <2>2 DEF Off, kEntryOffset
<1>6. CASE w \in {"CF0", "CG0"}
  <2>1. /\ Extent("CF0", i, p) = i.cf[0] /\ Place("CF0", i, p) = p.base
        /\ Extent("CG0", i, p) = On(i.cf[0] # 0, CgRoom(i, p, 0)) /\ Place("CG0", i, p) = CgAt(i, p, 0)
    BY SMT, Places, Extents
  <2>2. i.cf[0] \in Nat /\ Sized(i.cf[0]) /\ Sized(i.cg[0])
    BY SMT, Sizes DEF Sized
  <2>3. i.cf[0] # 0 => i.cf[0] <= t
    <3>1. Align16(i.cf[0]) \in Nat /\ Align16(i.cf[0]) >= i.cf[0]
      BY <2>2, Rounding
    <3>2. i.cf[0] # 0 => Align16(i.cf[0]) <= t
      BY DEF Accepted
    <3>. QED BY SMT, <1>2, <2>2, <3>1, <3>2
  <2>4. CgAt(i, p, 0) \in Nat /\ CgRoom(i, p, 0) \in Nat
        /\ (CgRoom(i, p, 0) > 0 => CgAt(i, p, 0) + CgRoom(i, p, 0) <= p.base + t)
    <3>1. t \in Nat /\ (0 + 1) * t = t
      BY SMT, <1>2
    <3>2. CgRoom(i, p, 0) > 0 => CgAt(i, p, 0) + CgRoom(i, p, 0) <= p.base + (0 + 1) * p.stride
      BY <1>2, <2>2, <3>1, RoomOfCg
    <3>3. CgAt(i, p, 0) \in Nat /\ CgRoom(i, p, 0) \in Nat
      BY <1>2, <2>2, <3>1, RoomOfCg
    <3>. QED BY <3>1, <3>2, <3>3
  <2>5. f + l <= v
    <3>1. CASE w = "CF0"
      BY SMT, <1>1, <1>2, <2>1, <2>3, <3>1
    <3>2. CASE w = "CG0"
      <4>1. l = CgRoom(i, p, 0)
        BY SMT, <1>1, <2>1, <3>2 DEF On
      <4>. QED BY SMT, <1>1, <1>2, <2>1, <2>4, <3>2, <4>1
    <3>. QED BY <1>6, <3>1, <3>2
  <2>. QED BY <2>5 DEF Off
<1>7. CASE w \in {"CF1", "CG1"}
  <2>1. i.cf[1] = 0
    BY SMT, OverlayPlan
  <2>2. l = 0
    BY SMT, <1>7, <2>1, Extents DEF On
  <2>. QED BY <1>1, <2>2
<1>8. CASE w = "payload"
  <2>1. w \in ClaimNames /\ w \notin HeadNames /\ w \notin LateNames
    BY <1>8 DEF ClaimNames, PayloadNames, HeadNames, LateNames, ConsoleNames, AnchorNames
  <2>2. f = \h200 /\ l = On(i.payload, \h200)
    BY SMT, <1>8, Places, Extents
  <2>. QED BY SMT, <1>2, <2>2 DEF On, Off
<1>9. CASE w = "rebooter"
  <2>1. f = \h90000 /\ v # \h90000 /\ w \in ClaimNames /\ l <= \h1000
    <3>1. p.window = \h90000 /\ p.overlay # \h90000
      BY SMT, <1>9, OverlayPlan
    <3>2. l = i.rebooter
      BY SMT, <1>9, Extents
    <3>. QED BY SMT, <1>9, <3>1, <3>2, Places DEF ClaimNames, PayloadNames, Accepted
  <2>. HIDE DEF f, l, v, t, n
  <2>2. Off(f, l, v, t)
    BY SMT, <1>1, <1>2, <1>3, <2>1 DEF Off
  <2>. QED BY <2>2 DEF f, l, v, t
<1>10. CASE w = "fuses"
  <2>1. f = \h95000 /\ l = \h60 /\ w \in ClaimNames
    <3>1. p.fuses = \h95000
      BY SMT, <1>10, OverlayPlan
    <3>2. f = p.fuses /\ l = On(i.fuses, \h60)
      BY SMT, <1>10, Places, Extents
    <3>3. l = \h60
      BY SMT, <1>1, <3>2 DEF On
    <3>4. w \in ClaimNames
      BY <1>10 DEF ClaimNames, PayloadNames
    <3>. QED BY <3>1, <3>2, <3>3, <3>4
  <2>. HIDE DEF f, l, v, t, n
  <2>2. Off(f, l, v, t)
    BY SMT, <1>1, <1>2, <1>3, <2>1 DEF Off
  <2>. QED BY <2>2 DEF f, l, v, t
<1>11. CASE w = "xell"
  <2>1. f = \h70000 /\ l = \h40000 /\ w \in ClaimNames
    <3>1. p.xell = \h70000
      BY SMT, OverlayPlan
    <3>2. f = p.xell /\ l = On(i.xell, \h40000)
      BY SMT, <1>11, Places, Extents
    <3>3. l = \h40000
      BY SMT, <1>1, <3>2 DEF On
    <3>4. w \in ClaimNames
      BY <1>11 DEF ClaimNames, PayloadNames
    <3>. QED BY SMT, <3>1, <3>2, <3>3, <3>4
  <2>. HIDE DEF f, l, v, t, n
  <2>2. Off(f, l, v, t)
    BY SMT, <1>1, <1>2, <1>3, <2>1 DEF Off
  <2>. QED BY <2>2 DEF f, l, v, t
<1>12. CASE w \in SecondNames
  <2>1. ~p.jtag
    BY SMT, OverlayPlan
  <2>2. l = 0
    BY SMT, <1>12, <2>1, Extents DEF SecondNames, On
  <2>. QED BY <1>1, <2>2
<1>. QED BY <1>4, <1>5, <1>6, <1>7, <1>8, <1>9, <1>10, <1>11, <1>12
     DEF Names, FromChain, FromSlots, FromConsole, FromAnchors, FromPayloads, FromPatch,
         LateNames, PayloadNames, SlotNames

LEMMA RebooterRoom ==
  ASSUME NEW i, i \in ImageRecord, NEW p, Accepted(i, p),
         i.type \in {"retail", "jtag"}, i.xell, p.xell = \h95060, ~Manufacturing(i),
         i.patch # "glitch", i.rebooter # 0,
         NEW w \in Names, Extent(w, i, p) > 0, w # "rebooter"
  PROVE  Off(Place(w, i, p), Extent(w, i, p), \h90000, \h1000)
<1>. DEFINE f == Place(w, i, p)
            l == Extent(w, i, p)
            r == i.rebooter
            t == p.stride
<1>0. Zoned(i, w, f, l)
  BY Zones
<1>1. f \in Nat /\ l \in Nat /\ l > 0
  BY SMT, <1>0 DEF Zoned
<1>2. PlanFor(i, p)
  BY DEF Accepted
<1>3. /\ p.base \in {\h70000, \h80000, \hB0000, \hC0000, \hD0000, \hE0000}
      /\ t \in {\h10000, \h20000} /\ p.window = \h90000 /\ p.fuses = \h95000
  BY SMT, <1>2 DEF PlanFor
<1>4. r \in Nat /\ r > 0 /\ r <= \h1000
  <2>1. r \in Nat
    BY SMT, Sizes DEF Sized
  <2>2. r <= \h1000
    BY DEF Accepted
  <2>. QED BY SMT, <2>1, <2>2
<1>5. ASSUME NEW v \in Names, v # "rebooter", Extent(v, i, p) > 0
      PROVE  Off(Place(v, i, p), Extent(v, i, p), \h90000, r)
  <2>1. "rebooter" \in Names
    BY DEF Names, FromChain, FromSlots, FromConsole, FromAnchors, FromPayloads, PayloadNames
  <2>2. Place("rebooter", i, p) = \h90000 /\ Extent("rebooter", i, p) = r
    BY SMT, <1>3, Places, Extents
  <2>3. Extent("rebooter", i, p) > 0
    BY SMT, <1>4, <2>2
  <2>4. Off(Place(v, i, p), Extent(v, i, p), Place("rebooter", i, p), Extent("rebooter", i, p))
    BY <1>5, <2>1, <2>3, ItemsApart
  <2>. QED BY SMT, <2>2, <2>4
<1>6. ASSUME f <= \h90000 PROVE Off(f, l, \h90000, \h1000)
  <2>1. Off(f, l, \h90000, r)
    BY SMT, <1>5
  <2>. HIDE DEF f, l, r
  <2>. QED BY SMT, <1>1, <1>4, <1>6, <2>1 DEF Off
<1>7. ASSUME f >= \h91000 PROVE Off(f, l, \h90000, \h1000)
  <2>. HIDE DEF f, l
  <2>. QED BY SMT, <1>1, <1>7 DEF Off
<1>8. CASE w \in HeadNames \/ w \in LateNames
  <2>. HIDE DEF f, l
  <2>1. Off(f, l, \h90000, \h1000)
    BY SMT, <1>0, <1>1, <1>8 DEF Zoned, Off
  <2>. QED BY SMT, <2>1 DEF f, l
<1>9. CASE w \in {"chain", "payload"}
  <2>1. f \in {\h8000, \h200}
    BY SMT, <1>9, Places
  <2>. QED BY SMT, <1>6, <2>1
<1>10. CASE w \in {"CF0", "CF1"}
  <2>1. f = p.base \/ f = p.base + p.stride
    BY SMT, <1>10, Places
  <2>2. f <= \h90000 \/ f >= \h91000
    BY SMT, <1>3, <2>1
  <2>. QED BY SMT, <1>6, <1>7, <2>2
\* A CG starts where its CF, rounded up, ends.
<1>11. ASSUME NEW v \in {"CF0", "CF1"}, NEW s \in {0, 1}, v = (IF s = 0 THEN "CF0" ELSE "CF1"),
              i.cf[s] # 0, f = CgAt(i, p, s)
       PROVE  f <= \h90000 \/ f >= \h91000
  <2>. DEFINE g == Place(v, i, p)
              a == Align16(i.cf[s])
  <2>1. g = p.base + s * p.stride /\ Extent(v, i, p) = i.cf[s]
    <3>1. CASE s = 0
      BY SMT, <1>3, <1>11, <3>1, Places, Extents
    <3>2. CASE s = 1
      BY SMT, <1>3, <1>11, <3>2, Places, Extents
    <3>. QED BY <3>1, <3>2
  <2>2. i.cf[s] \in Nat /\ i.cf[s] > 0
    BY SMT, <1>11, Sizes DEF Sized
  <2>3. v \in Names /\ v # "rebooter"
    BY DEF Names, FromChain, FromSlots, SlotNames
  <2>4. Off(g, i.cf[s], \h90000, r)
    BY SMT, <1>5, <2>1, <2>2, <2>3
  <2>5. g \in Nat /\ g % 16 = 0 /\ g % \h10000 = 0
    <3>1. s * p.stride = 0 \/ s * p.stride = p.stride
      BY SMT, <1>3
    <3>. HIDE DEF g
    <3>. QED BY SMT, <1>3, <2>1, <3>1
  <2>6. f = g + a
    BY <1>11, <2>1 DEF CgAt
  <2>7. a \in Nat
    BY <2>2, Rounding
  <2>. DEFINE c == i.cf[s]
  <2>8. c \in Nat /\ c > 0
    BY <2>2
  <2>9. ASSUME g + c <= \h90000 PROVE a <= \h90000 - g
    <3>1. \h90000 - g \in Nat /\ (\h90000 - g) % 16 = 0 /\ c <= \h90000 - g
      <4>. HIDE DEF g, c
      <4>. QED BY SMT, <2>5, <2>8, <2>9
    <3>. QED BY SMT, <2>2, <3>1, AlignedBelow
  <2>. HIDE DEF g, a, c, r, f
  <2>10. CASE g < \h90000
    <3>1. g + c <= \h90000
      BY SMT, <1>4, <2>4, <2>5, <2>8, <2>10 DEF Off, c
    <3>. QED BY SMT, <2>5, <2>6, <2>7, <2>9, <3>1
  <2>11. CASE g = \h90000
    BY SMT, <1>4, <2>4, <2>8, <2>11 DEF Off, c
  <2>12. CASE g > \h90000
    <3>1. g >= \hA0000
      BY SMT, <2>5, <2>12
    <3>. QED BY SMT, <2>5, <2>6, <2>7, <3>1
  <2>. QED BY SMT, <2>5, <2>10, <2>11, <2>12
<1>12. CASE w = "CG0"
  <2>1. f = CgAt(i, p, 0) /\ i.cf[0] # 0
    <3>1. f = CgAt(i, p, 0) /\ l = On(i.cf[0] # 0, CgRoom(i, p, 0))
      BY SMT, <1>12, Places, Extents
    <3>. QED BY SMT, <1>1, <3>1 DEF On
  <2>2. f <= \h90000 \/ f >= \h91000
    BY SMT, <1>11, <2>1
  <2>. QED BY SMT, <1>6, <1>7, <2>2
<1>13. CASE w = "CG1"
  <2>1. f = CgAt(i, p, 1) /\ i.cf[1] # 0
    <3>1. f = CgAt(i, p, 1) /\ l = On(i.cf[1] # 0, CgRoom(i, p, 1))
      BY SMT, <1>13, Places, Extents
    <3>. QED BY SMT, <1>1, <3>1 DEF On
  <2>2. f <= \h90000 \/ f >= \h91000
    BY SMT, <1>11, <2>1
  <2>. QED BY SMT, <1>6, <1>7, <2>2
<1>14. CASE w \in {"fuses", "xell"}
  <2>1. f \in {\h95000, \h95060}
    BY SMT, <1>3, <1>14, Places
  <2>. QED BY SMT, <1>7, <2>1
<1>15. CASE w = "patch"
  <2>1. f = PatchAt(i, p) /\ l = On(i.patch # "none", i.patchSize)
    BY SMT, <1>15, Places, Extents
  <2>2. i.patch = "jtag"
    BY SMT, <1>1, <2>1, Sizes DEF On
  <2>3. f = \h91000
    BY SMT, <1>3, <2>1, <2>2 DEF PatchAt
  <2>. QED BY SMT, <1>7, <2>3
<1>16. CASE w \in SecondNames
  <2>1. f = ExtraCbAt(p) \/ f = ExtraCdAt(i, p)
    BY SMT, <1>16, Places DEF SecondNames
  <2>2. Align16(i.extraCb) \in Nat
    <3>1. i.extraCb \in Nat
      BY SMT, Sizes DEF Sized
    <3>. QED BY <3>1, Rounding
  <2>3. f >= \hD5060
    BY SMT, <1>3, <2>1, <2>2 DEF ExtraCbAt, ExtraCdAt, kXellSize
  <2>. QED BY SMT, <1>1, <1>7, <2>3
<1>. QED BY <1>8, <1>9, <1>10, <1>12, <1>13, <1>14, <1>15, <1>16
     DEF Names, FromChain, FromSlots, FromConsole, FromAnchors, FromPayloads, FromPatch,
         LateNames, PayloadNames, SlotNames

---------------------------------------------------------------------------
(* The image being written, and what of the image built still stands.      *)

\* x with its plan q is the image i, with its plan p, or was read back of it.
Written(i, p, x, q) == (x = i /\ q = p) \/ ReadFrom(i, p, x, q)

\* The length of an item of i on the flash when x is written.
Width(w, i, p, x, q) == IF Extent(w, x, q) # 0 THEN Extent(w, x, q) ELSE Extent(w, i, p)

LEMMA WidthOf ==
  ASSUME NEW i, i \in ImageRecord, NEW p, Accepted(i, p), NEW x, NEW q, Written(i, p, x, q),
         NEW w \in Names
  PROVE  \/ Width(w, i, p, x, q) = Extent(w, i, p)
         \/ /\ w = "rebooter" /\ Width(w, i, p, x, q) = \h1000 /\ Place(w, i, p) = \h90000
            /\ Extent(w, i, p) > 0 /\ Extent(w, i, p) <= \h1000
            /\ i.type \in {"retail", "jtag"} /\ i.xell /\ p.xell = \h95060
            /\ ~Manufacturing(i) /\ i.patch # "glitch" /\ i.rebooter # 0
         \/ /\ w = "fuses" /\ Width(w, i, p, x, q) = \h60 /\ Place(w, i, p) = p.overlay
            /\ Extent(w, i, p) = 0
            /\ Manufacturing(i) /\ i.patch = "glitch" /\ i.type # "devkit"
<1>1. CASE Extent(w, x, q) = 0
  BY <1>1 DEF Width
<1>2. CASE x = i /\ q = p
  BY <1>2 DEF Width
<1>3. CASE Extent(w, x, q) # 0 /\ ReadFrom(i, p, x, q)
  <2>1. Width(w, i, p, x, q) = Extent(w, x, q)
    BY <1>3 DEF Width
  <2>2. CASE Extent(w, x, q) = Extent(w, i, p)
    BY <2>1, <2>2
  <2>3. CASE /\ w = "rebooter" /\ x.rebooter # 0 /\ Extent(w, x, q) = \h1000
             /\ Place(w, i, p) = \h90000 /\ Extent(w, i, p) > 0 /\ Extent(w, i, p) <= \h1000
    <3>1. x.type = "jtag" /\ i.rebooter # 0
      BY SMT, <1>3, <2>3 DEF ReadFrom
    <3>2. /\ i.type \in {"retail", "jtag"} /\ i.xell /\ p.xell = \h95060
          /\ ~Manufacturing(i) /\ i.patch # "glitch"
      BY SMT, <1>3, <3>1 DEF ReadFrom
    <3>. QED BY SMT, <2>1, <2>3, <3>1, <3>2
  <2>4. CASE /\ w = "fuses" /\ x.fuses /\ ~i.fuses /\ Extent(w, x, q) = \h60
             /\ Extent(w, i, p) = 0
    <3>1. Manufacturing(i) /\ x.patch = "glitch"
      BY SMT, <1>3, <2>4 DEF ReadFrom
    <3>2. i.patch = "glitch" /\ i.type # "devkit"
      BY SMT, <1>3, <3>1 DEF ReadFrom
    <3>3. Place(w, i, p) = p.overlay
      <4>1. p.fuses = p.overlay
        BY SMT, <3>1, <3>2, OverlayPlan
      <4>. QED BY SMT, <2>4, <4>1, Places
    <3>. QED BY SMT, <2>1, <2>4, <3>1, <3>2, <3>3
  <2>. QED BY SMT, <1>3, <2>2, <2>3, <2>4, BackItem
<1>. QED BY <1>1, <1>2, <1>3 DEF Written

LEMMA OffOther ==
  ASSUME NEW f, NEW l, NEW g, NEW m, Off(f, l, g, m)
  PROVE  Off(g, m, f, l)
BY DEF Off

\* A widened rebooter or found fuses meet no other item.
LEMMA WideApart ==
  ASSUME NEW i, i \in ImageRecord, NEW p, Accepted(i, p), NEW x, NEW q, Written(i, p, x, q),
         NEW w \in Names, Width(w, i, p, x, q) # Extent(w, i, p),
         NEW v \in Names, Extent(v, i, p) > 0, w # v
  PROVE  Off(Place(v, i, p), Extent(v, i, p), Place(w, i, p), Width(w, i, p, x, q))
<1>1. CASE w = "rebooter"
  <2>1. /\ Width(w, i, p, x, q) = \h1000 /\ Place(w, i, p) = \h90000
        /\ i.type \in {"retail", "jtag"} /\ i.xell /\ p.xell = \h95060
        /\ ~Manufacturing(i) /\ i.patch # "glitch" /\ i.rebooter # 0
    BY SMT, <1>1, WidthOf
  <2>2. Off(Place(v, i, p), Extent(v, i, p), \h90000, \h1000)
    BY SMT, <1>1, <2>1, RebooterRoom
  <2>. QED BY SMT, <2>1, <2>2
<1>2. CASE w = "fuses"
  <2>1. /\ Width(w, i, p, x, q) = \h60 /\ Place(w, i, p) = p.overlay
        /\ Manufacturing(i) /\ i.patch = "glitch" /\ i.type # "devkit"
    BY SMT, <1>2, WidthOf
  <2>2. /\ p.overlay \in Nat /\ p.stride \in {\h10000, \h20000} /\ p.prefix = \h60
    BY SMT, <2>1, OverlayPlan
  <2>3. Place(v, i, p) \in Nat /\ Extent(v, i, p) \in Nat
    BY SMT, Zones DEF Zoned
  <2>4. CASE v = "patch"
    <3>1. Place(v, i, p) = p.overlay + \h60
      BY SMT, <2>1, <2>2, <2>4, Places DEF PatchAt
    <3>. QED BY SMT, <2>1, <2>2, <2>3, <3>1 DEF Off
  <2>5. CASE v # "patch"
    <3>1. Off(Place(v, i, p), Extent(v, i, p), p.overlay, p.stride)
      BY SMT, <1>2, <2>1, <2>5, OverlayRoom
    <3>. QED BY SMT, <2>1, <2>2, <2>3, <3>1 DEF Off
  <2>. QED BY <2>4, <2>5
<1>3. w = "rebooter" \/ w = "fuses"
  BY SMT, WidthOf
<1>. QED BY <1>1, <1>2, <1>3

\* Whatever is written, no two items meet.
LEMMA WidthApart ==
  ASSUME NEW i, i \in ImageRecord, NEW p, Accepted(i, p), NEW x, NEW q, Written(i, p, x, q),
         NEW w \in Names, NEW v \in Names, w # v,
         Width(w, i, p, x, q) > 0, Width(v, i, p, x, q) > 0
  PROVE  Off(Place(w, i, p), Width(w, i, p, x, q), Place(v, i, p), Width(v, i, p, x, q))
<1>. DEFINE l == Width(w, i, p, x, q)
            m == Width(v, i, p, x, q)
<1>1. CASE l = Extent(w, i, p) /\ m = Extent(v, i, p)
  BY <1>1, ItemsApart
<1>2. CASE l # Extent(w, i, p) /\ m = Extent(v, i, p)
  <2>1. Off(Place(v, i, p), Extent(v, i, p), Place(w, i, p), l)
    BY <1>2, WideApart
  <2>. QED BY <1>2, <2>1, OffOther
<1>3. CASE l = Extent(w, i, p) /\ m # Extent(v, i, p)
  <2>1. Off(Place(w, i, p), Extent(w, i, p), Place(v, i, p), m)
    BY <1>3, WideApart
  <2>. QED BY <1>3, <2>1
<1>4. CASE l # Extent(w, i, p) /\ m # Extent(v, i, p)
  BY SMT, <1>4, WidthOf
<1>. QED BY <1>1, <1>2, <1>3, <1>4

\* Widths are naturals, and an item that is written has its width.
LEMMA Widths ==
  ASSUME NEW i, i \in ImageRecord, NEW p, Accepted(i, p), NEW x, NEW q, Written(i, p, x, q),
         NEW w \in Names
  PROVE  /\ Place(w, i, p) \in Nat /\ Width(w, i, p, x, q) \in Nat
         /\ Extent(w, x, q) # 0 => /\ Place(w, x, q) = Place(w, i, p)
                                   /\ Extent(w, x, q) = Width(w, i, p, x, q)
         /\ Extent(w, i, p) \in Nat /\ Extent(w, i, p) <= Width(w, i, p, x, q)
<1>1. Place(w, i, p) \in Nat /\ Extent(w, i, p) \in Nat
  BY SMT, Zones DEF Zoned
<1>2. Width(w, i, p, x, q) \in Nat /\ Extent(w, i, p) <= Width(w, i, p, x, q)
  <2>. DEFINE a == Width(w, i, p, x, q)
              b == Extent(w, i, p)
  <2>1. a = b \/ (a = \h1000 /\ b <= \h1000) \/ (a = \h60 /\ b = 0)
    BY SMT, WidthOf
  <2>2. b \in Nat
    BY <1>1
  <2>. HIDE DEF a, b
  <2>3. a \in Nat /\ b <= a
    BY SMT, <2>1, <2>2
  <2>. QED BY <2>3 DEF a, b
<1>3. Extent(w, x, q) # 0 => Extent(w, x, q) = Width(w, i, p, x, q)
  BY DEF Width
<1>4. ASSUME Extent(w, x, q) # 0 PROVE Place(w, x, q) = Place(w, i, p)
  <2>1. CASE x = i /\ q = p
    BY <2>1
  <2>2. CASE ReadFrom(i, p, x, q)
    BY SMT, <1>4, <2>2, BackItem
  <2>. QED BY <2>1, <2>2 DEF Written
<1>. QED BY <1>1, <1>2, <1>3, <1>4

---------------------------------------------------------------------------
(* The files' area.                                                        *)

\* A nonempty set of naturals has a least element; one within a bound, a
\* greatest.
LEMMA Least ==
  ASSUME NEW T, T \subseteq Nat, T # {}
  PROVE  \E x \in T : \A y \in T : ~(y < x)
<1>1. PICK x \in T : \A y \in T : <<y, x>> \notin OpToRel(<, Nat)
  BY NatLessThanWellFounded, WFMin
<1>2. \A y \in T : ~(y < x)
  BY <1>1 DEF OpToRel
<1>. QED BY <1>2

LEMMA Greatest ==
  ASSUME NEW S, S \subseteq Nat, S # {}, NEW N, N \in Nat, \A x \in S : x <= N
  PROVE  \E x \in S : \A y \in S : x >= y
<1>. DEFINE T == {N - x : x \in S}
<1>1. T \subseteq Nat /\ T # {}
  <2>1. \A x \in S : N - x \in Nat
    OBVIOUS
  <2>2. T \subseteq Nat
    BY <2>1
  <2>3. PICK x \in S : TRUE
    OBVIOUS
  <2>4. N - x \in T
    BY <2>3
  <2>. HIDE DEF T
  <2>. QED BY <2>2, <2>4
<1>2. PICK d \in T : \A e \in T : ~(e < d)
  <2>. HIDE DEF T
  <2>. QED BY <1>1, Least
<1>3. PICK x \in S : d = N - x
  BY <1>2
<1>4. ASSUME NEW y \in S PROVE x >= y
  <2>1. N - y \in T
    BY <1>4
  <2>2. ~(N - y < N - x)
    BY <1>2, <1>3, <2>1
  <2>3. x \in Nat /\ y \in Nat
    OBVIOUS
  <2>. QED BY SMT, <2>2, <2>3
<1>. QED BY <1>4

LEMMA SomeBlockSize ==
  ASSUME NEW i, i \in ImageRecord
  PROVE  /\ BlockSize(i) = \h4000 \/ BlockSize(i) = \h20000
         /\ ImageSize(i) \in Nat
BY SMT, Shape

\* The blocks of an interval.
LEMMA BlockOf ==
  ASSUME NEW i, i \in ImageRecord, NEW f, f \in Nat, NEW l, l \in Nat, NEW b, b \in BlockRange(i, f, l)
  PROVE  /\ b \in Nat /\ l > 0 /\ f + l <= ImageSize(i) /\ b <= ImageSize(i)
         /\ b * BlockSize(i) < f + l /\ f < (b + 1) * BlockSize(i)
<1>. DEFINE N == ImageSize(i)
<1>0. N \in Nat
  BY SomeBlockSize
<1>1. CASE BlockSize(i) = \h4000
  <2>1. ~(l = 0 \/ f + l > N) /\ b \in f \div \h4000 .. ((f + l - 1) \div \h4000)
    BY SMT, <1>1 DEF BlockRange
  <2>. HIDE DEF N
  <2>2. b \in Nat /\ l > 0 /\ f + l <= N /\ b * \h4000 < f + l /\ f < (b + 1) * \h4000
    BY SMT, <1>0, <2>1
  <2>3. b <= N
    BY SMT, <1>0, <2>2
  <2>. QED BY SMT, <1>1, <2>2, <2>3 DEF N
<1>2. CASE BlockSize(i) = \h20000
  <2>1. ~(l = 0 \/ f + l > N) /\ b \in f \div \h20000 .. ((f + l - 1) \div \h20000)
    BY SMT, <1>2 DEF BlockRange
  <2>. HIDE DEF N
  <2>2. b \in Nat /\ l > 0 /\ f + l <= N /\ b * \h20000 < f + l /\ f < (b + 1) * \h20000
    BY SMT, <1>0, <2>1
  <2>3. b <= N
    BY SMT, <1>0, <2>2
  <2>. QED BY SMT, <1>2, <2>2, <2>3 DEF N
<1>. QED BY <1>1, <1>2, SomeBlockSize

\* The 4000h units of the first interval lie within those of the second.
Covered(f, l, g, m) ==
  /\ f \in Nat /\ l \in Nat /\ l > 0 /\ g \in Nat /\ m \in Nat /\ m > 0
  /\ g \div \h4000 <= f \div \h4000
  /\ (f + l - 1) \div \h4000 <= (g + m - 1) \div \h4000

\* An interval that touches no other 4000h unit touches no other block.
LEMMA SameBlocks ==
  ASSUME NEW i, i \in ImageRecord, NEW f, NEW l, NEW g, NEW m,
         Covered(f, l, g, m), g + m <= ImageSize(i)
  PROVE  BlockRange(i, f, l) \subseteq BlockRange(i, g, m)
<1>. DEFINE N == ImageSize(i)
<1>. USE DEF Covered
<1>0. N \in Nat /\ g + m <= N
  BY SomeBlockSize
<1>1. SUFFICES ASSUME NEW b \in BlockRange(i, f, l) PROVE b \in BlockRange(i, g, m)
  OBVIOUS
<1>2. CASE BlockSize(i) = \h4000
  <2>1. ~(l = 0 \/ f + l > N) /\ b \in f \div \h4000 .. ((f + l - 1) \div \h4000)
    BY SMT, <1>2, <1>1 DEF BlockRange
  <2>2. b \in g \div \h4000 .. ((g + m - 1) \div \h4000)
    BY SMT, <2>1
  <2>3. ~(m = 0 \/ g + m > N)
    <3>. HIDE DEF N
    <3>. QED BY SMT, <1>0
  <2>. QED BY SMT, <1>2, <2>2, <2>3 DEF BlockRange
<1>3. CASE BlockSize(i) = \h20000
  <2>1. ~(l = 0 \/ f + l > N) /\ b \in f \div \h20000 .. ((f + l - 1) \div \h20000)
    BY SMT, <1>3, <1>1 DEF BlockRange
  <2>2. b \in g \div \h20000 .. ((g + m - 1) \div \h20000)
    <3>1. g \div \h20000 <= f \div \h20000
      BY SMT
    <3>2. (f + l - 1) \div \h20000 <= (g + m - 1) \div \h20000
      BY SMT
    <3>. QED BY SMT, <2>1, <3>1, <3>2
  <2>3. ~(m = 0 \/ g + m > N)
    <3>. HIDE DEF N
    <3>. QED BY SMT, <1>0
  <2>. QED BY SMT, <1>3, <2>2, <2>3 DEF BlockRange
<1>. QED BY <1>2, <1>3, SomeBlockSize

\* The blocks the payloads are in.
LEMMA ActiveBlocks ==
  ASSUME NEW i, i \in ImageRecord, NEW p, p = Plan(i), PlanFor(i, p),
         NEW b \in ActivePayloadBlocks(i)
  PROVE  b \in Nat /\ b <= ImageSize(i)
<1>. DEFINE u == BlockRange(i, \h200, On(i.payload, kSmcPayloadSize))
            v == BlockRange(i, p.window, i.rebooter)
            w == BlockRange(i, p.fuses, On(i.fuses, kFuseSize))
            x == BlockRange(i, p.xell, On(i.xell, kXellSize))
            y == BlockRange(i, p.overlay, On(p.glitch, p.stride))
            z == BlockRange(i, p.window + \h1000, On(i.patch = "jtag", i.patchSize))
            s == BlockRange(i, ExtraCbAt(p), On(p.jtag, i.extraCb))
            t == BlockRange(i, ExtraCdAt(i, p), On(p.jtag, i.extraCd))
<1>1. b \in u \/ b \in v \/ b \in w \/ b \in x \/ b \in y \/ b \in z \/ b \in s \/ b \in t
  <2>1. ActivePayloadBlocks(i) = UNION {u, v, w, x, y, z, s, t}
    BY DEF ActivePayloadBlocks
  <2>. HIDE DEF u, v, w, x, y, z, s, t
  <2>. QED BY <2>1
<1>2. /\ p.window = \h90000 /\ p.fuses \in Nat /\ p.xell \in Nat /\ p.overlay \in Nat /\ p.stride \in Nat
  <2>1. p.base \in Nat /\ p.stride \in {\h10000, \h20000} /\ p.overlay = p.base + p.stride
        /\ p.window = \h90000 /\ p.xell \in {\h70000, \h95060} /\ p.fuses \in {\h95000, p.overlay}
    BY SMT DEF PlanFor
  <2>. QED BY SMT, <2>1
<1>3. /\ i.rebooter \in Nat /\ i.patchSize \in Nat /\ i.extraCb \in Nat /\ i.extraCd \in Nat
      /\ Align16(i.extraCb) \in Nat
  <2>1. i.rebooter \in Nat /\ i.patchSize \in Nat /\ i.extraCb \in Nat /\ i.extraCd \in Nat
    BY SMT, Sizes DEF Sized
  <2>. QED BY <2>1, Rounding
<1>4. ExtraCbAt(p) \in Nat /\ ExtraCdAt(i, p) \in Nat
  BY SMT, <1>2, <1>3 DEF ExtraCbAt, ExtraCdAt, kXellSize
<1>5. /\ On(i.payload, kSmcPayloadSize) \in Nat /\ On(i.fuses, kFuseSize) \in Nat
      /\ On(i.xell, kXellSize) \in Nat /\ On(p.glitch, p.stride) \in Nat
      /\ On(i.patch = "jtag", i.patchSize) \in Nat
      /\ On(p.jtag, i.extraCb) \in Nat /\ On(p.jtag, i.extraCd) \in Nat
  BY SMT, <1>2, <1>3 DEF On, kSmcPayloadSize, kFuseSize, kXellSize
<1>6. \h200 \in Nat /\ p.window \in Nat /\ p.window + \h1000 \in Nat
  BY SMT, <1>2
<1>7. ASSUME NEW f \in Nat, NEW l \in Nat, b \in BlockRange(i, f, l) PROVE b \in Nat /\ b <= ImageSize(i)
  BY <1>7, BlockOf
<1>. QED BY <1>1, <1>2, <1>3, <1>4, <1>5, <1>6, <1>7

\* The files start behind the update slots.
LEMMA FirstFile ==
  ASSUME NEW i, i \in ImageRecord, NEW p, p = Plan(i), PlanFor(i, p)
  PROVE  /\ RoundUp(p.base + 2 * p.stride, BlockSize(i)) \div BlockSize(i) <= FirstFileBlock(i)
         /\ FirstFileBlock(i) \in Nat
<1>. DEFINE n == RoundUp(p.base + 2 * p.stride, BlockSize(i)) \div BlockSize(i)
            A == ActivePayloadBlocks(i)
            S == {n} \cup {b + 1 : b \in A}
            N == n + ImageSize(i) + 1
<1>1. FirstFileBlock(i) = Max(S)
  BY DEF FirstFileBlock
<1>2. n \in Nat
  <2>1. p.base \in Nat /\ p.stride \in {\h10000, \h20000}
    BY SMT DEF PlanFor
  <2>2. p.base + 2 * p.stride \in Nat
    BY SMT, <2>1
  <2>. DEFINE e == p.base + 2 * p.stride
  <2>. HIDE DEF e
  <2>3. e \in Nat => RoundUp(e, BlockSize(i)) \div BlockSize(i) \in Nat
    <3>1. CASE BlockSize(i) = \h4000
      BY SMT, <3>1 DEF RoundUp
    <3>2. CASE BlockSize(i) = \h20000
      BY SMT, <3>2 DEF RoundUp
    <3>. QED BY <3>1, <3>2, SomeBlockSize
  <2>. QED BY <2>2, <2>3 DEF e
<1>3. ImageSize(i) \in Nat
  BY SomeBlockSize
<1>4. \A b \in A : b \in Nat /\ b <= ImageSize(i)
  BY ActiveBlocks
<1>. HIDE DEF n, A
<1>5. S \subseteq Nat /\ n \in S /\ N \in Nat /\ \A x \in S : x <= N
  <2>. DEFINE M == ImageSize(i)
  <2>1. M \in Nat /\ \A b \in A : b \in Nat /\ b <= M
    BY <1>3, <1>4
  <2>2. N = n + M + 1
    OBVIOUS
  <2>. HIDE DEF M, N
  <2>. QED BY <1>2, <2>1, <2>2
<1>. HIDE DEF S, N
<1>6. \E x \in S : \A y \in S : x >= y
  BY <1>5, Greatest
<1>7. Max(S) \in S /\ \A y \in S : Max(S) >= y
  BY <1>6 DEF Max
<1>. QED BY <1>1, <1>2, <1>5, <1>7 DEF n

\* The bytes from f on lie off the files' area.
Clear(i, f, l) == \A b \in BlockRange(i, f, l) : ~InFilesArea(i, b)

\* Below the end of the update slots, at the end of the flash, and where the
\* payloads are, there are no files.
LEMMA ClearLow ==
  ASSUME NEW i, i \in ImageRecord, NEW p, p = Plan(i), PlanFor(i, p),
         NEW f, f \in Nat, NEW l, l \in Nat, f + l <= p.base + 2 * p.stride
  PROVE  Clear(i, f, l)
<1>1. SUFFICES ASSUME NEW b \in BlockRange(i, f, l), FirstFileBlock(i) <= b PROVE FALSE
  BY DEF Clear, InFilesArea
<1>2. b \in Nat /\ b * BlockSize(i) < f + l
  BY BlockOf
<1>. DEFINE e == p.base + 2 * p.stride
<1>3. e \in Nat
  <2>1. p.base \in Nat /\ p.stride \in {\h10000, \h20000}
    BY SMT DEF PlanFor
  <2>. QED BY SMT, <2>1
<1>4. RoundUp(e, BlockSize(i)) \div BlockSize(i) <= FirstFileBlock(i)
  BY FirstFile
<1>. HIDE DEF e
<1>5. f + l <= e
  BY DEF e
<1>. DEFINE F == FirstFileBlock(i)
            n == RoundUp(e, BlockSize(i)) \div BlockSize(i)
<1>6. n \in Nat /\ b < n
  <2>1. CASE BlockSize(i) = \h4000
    <3>1. n = (e + \h4000 - 1) \div \h4000
      BY SMT, <1>3, <2>1 DEF RoundUp
    <3>. HIDE DEF n
    <3>2. b * \h4000 < f + l
      BY SMT, <1>2, <2>1
    <3>. QED BY SMT, <1>2, <1>3, <1>5, <3>1, <3>2
  <2>2. CASE BlockSize(i) = \h20000
    <3>1. n = (e + \h20000 - 1) \div \h20000
      BY SMT, <1>3, <2>2 DEF RoundUp
    <3>. HIDE DEF n
    <3>2. b * \h20000 < f + l
      BY SMT, <1>2, <2>2
    <3>. QED BY SMT, <1>2, <1>3, <1>5, <3>1, <3>2
  <2>. QED BY <2>1, <2>2, SomeBlockSize
<1>7. n <= F /\ F <= b
  BY <1>1, <1>4
<1>8. F \in Nat
  BY FirstFile
<1>. HIDE DEF n, F
<1>. QED BY SMT, <1>2, <1>6, <1>7, <1>8

LEMMA ClearHigh ==
  ASSUME NEW i, i \in ImageRecord, NEW f, f \in Nat, NEW l, l \in Nat,
         DataBlockLimit(i) * BlockSize(i) <= f
  PROVE  Clear(i, f, l)
<1>1. SUFFICES ASSUME NEW b \in BlockRange(i, f, l), b < DataBlockLimit(i) PROVE FALSE
  BY DEF Clear, InFilesArea
<1>2. b \in Nat /\ f < (b + 1) * BlockSize(i)
  BY BlockOf
<1>. QED BY SMT, <1>1, <1>2, Shape

LEMMA ClearActive ==
  ASSUME NEW i, NEW f, NEW l, BlockRange(i, f, l) \subseteq ActivePayloadBlocks(i)
  PROVE  Clear(i, f, l)
BY DEF Clear, InFilesArea

LEMMA ClearPart ==
  ASSUME NEW i, i \in ImageRecord, NEW f, NEW l, NEW g, NEW m,
         Covered(f, l, g, m), g + m <= ImageSize(i), Clear(i, g, m)
  PROVE  Clear(i, f, l)
<1>1. BlockRange(i, f, l) \subseteq BlockRange(i, g, m)
  BY SameBlocks
<1>. QED BY <1>1 DEF Clear

---------------------------------------------------------------------------
(* The items keep off the files' area.                                     *)

\* What holds of every piece laid; some fills behind JTAG patches need the
\* XeLL behind them.
Fine(i, f, l) ==
  /\ f \in Nat /\ l \in Nat /\ l > 0 /\ f + l <= ImageSize(i)
  /\ XellBehindPatches(i) => Clear(i, f, l)

LEMMA ActiveItem ==
  ASSUME NEW i, NEW p, p = Plan(i), NEW w,
         w \in {"rebooter", "fuses", "xell"} \cup SecondNames \/ (w = "patch" /\ i.patch = "jtag")
  PROVE  BlockRange(i, Place(w, i, p), Extent(w, i, p)) \subseteq ActivePayloadBlocks(i)
<1>. DEFINE f == Place(w, i, p)
            l == Extent(w, i, p)
            u == BlockRange(i, \h200, On(i.payload, kSmcPayloadSize))
            v == BlockRange(i, p.window, i.rebooter)
            r == BlockRange(i, p.fuses, On(i.fuses, kFuseSize))
            x == BlockRange(i, p.xell, On(i.xell, kXellSize))
            y == BlockRange(i, p.overlay, On(p.glitch, p.stride))
            z == BlockRange(i, p.window + \h1000, On(i.patch = "jtag", i.patchSize))
            s == BlockRange(i, ExtraCbAt(p), On(p.jtag, i.extraCb))
            t == BlockRange(i, ExtraCdAt(i, p), On(p.jtag, i.extraCd))
<1>1. ActivePayloadBlocks(i) = UNION {u, v, r, x, y, z, s, t}
  BY DEF ActivePayloadBlocks
<1>2. /\ kFuseSize = \h60 /\ kXellSize = \h40000
  BY DEF kFuseSize, kXellSize
<1>3. BlockRange(i, f, l) \in {v, r, x, z, s, t}
  <2>1. CASE w = "rebooter"
    <3>1. f = p.window /\ l = i.rebooter
      BY SMT, <2>1, Places, Extents
    <3>2. BlockRange(i, f, l) = v
      BY <3>1
    <3>. QED BY <3>2
  <2>2. CASE w = "fuses"
    <3>1. f = p.fuses /\ l = On(i.fuses, kFuseSize)
      BY SMT, <1>2, <2>2, Places, Extents
    <3>2. BlockRange(i, f, l) = r
      BY <3>1
    <3>. QED BY <3>2
  <2>3. CASE w = "xell"
    <3>1. f = p.xell /\ l = On(i.xell, kXellSize)
      BY SMT, <1>2, <2>3, Places, Extents
    <3>2. BlockRange(i, f, l) = x
      BY <3>1
    <3>. QED BY <3>2
  <2>4. CASE w = "extraCb"
    <3>1. f = ExtraCbAt(p) /\ l = On(p.jtag, i.extraCb)
      BY SMT, <2>4, Places, Extents
    <3>2. BlockRange(i, f, l) = s
      BY <3>1
    <3>. QED BY <3>2
  <2>5. CASE w = "extraCd"
    <3>1. f = ExtraCdAt(i, p) /\ l = On(p.jtag, i.extraCd)
      BY SMT, <2>5, Places, Extents
    <3>2. BlockRange(i, f, l) = t
      BY <3>1
    <3>. QED BY <3>2
  <2>6. CASE w = "patch" /\ i.patch = "jtag"
    <3>1. f = PatchAt(i, p) /\ l = On(i.patch # "none", i.patchSize)
      BY SMT, <2>6, Places, Extents
    <3>2. f = p.window + \h1000 /\ l = On(i.patch = "jtag", i.patchSize)
      BY SMT, <2>6, <3>1 DEF PatchAt, On
    <3>3. BlockRange(i, f, l) = z
      BY <3>2
    <3>. QED BY <3>3
  <2>. QED BY <2>1, <2>2, <2>3, <2>4, <2>5, <2>6 DEF SecondNames
<1>. HIDE DEF f, l, u, v, r, x, y, z, s, t
<1>4. BlockRange(i, f, l) \subseteq ActivePayloadBlocks(i)
  BY <1>1, <1>3
<1>. QED BY <1>4 DEF f, l

\* The update slots end where they should.
LEMMA SlotEnds ==
  ASSUME NEW i, i \in ImageRecord, NEW p, Accepted(i, p), NEW w \in SlotNames, Extent(w, i, p) > 0
  PROVE  Place(w, i, p) + Extent(w, i, p) <= p.base + 2 * p.stride
<1>1. PlanFor(i, p)
  BY DEF Accepted
<1>2. p.base \in Nat /\ p.stride \in Nat
  <2>1. p.base \in Nat /\ p.stride \in {\h10000, \h20000}
    BY SMT, <1>1 DEF PlanFor
  <2>. QED BY SMT, <2>1
<1>3. ASSUME NEW s \in {0, 1}
      PROVE  /\ CgAt(i, p, s) \in Nat /\ CgRoom(i, p, s) \in Nat
             /\ CgRoom(i, p, s) > 0 => CgAt(i, p, s) + CgRoom(i, p, s) <= p.base + 2 * p.stride
  <2>1. Sized(i.cf[s]) /\ Sized(i.cg[s])
    BY SMT, Sizes
  <2>2. /\ CgAt(i, p, s) \in Nat /\ CgRoom(i, p, s) \in Nat
        /\ CgRoom(i, p, s) > 0 => CgAt(i, p, s) + CgRoom(i, p, s) <= p.base + (s + 1) * p.stride
    BY <1>2, <2>1, RoomOfCg
  <2>3. (s + 1) * p.stride <= 2 * p.stride /\ (s + 1) * p.stride \in Nat
    <3>1. (s + 1) * p.stride = p.stride \/ (s + 1) * p.stride = 2 * p.stride
      BY SMT, <1>2
    <3>. QED BY SMT, <1>2, <3>1
  <2>. QED BY SMT, <1>2, <2>2, <2>3
<1>4. ASSUME NEW s \in {0, 1}, i.cf[s] # 0
      PROVE  i.cf[s] \in Nat /\ i.cf[s] <= p.stride
  <2>1. i.cf[s] \in Nat
    BY SMT, Sizes DEF Sized
  <2>2. Align16(i.cf[s]) \in Nat /\ Align16(i.cf[s]) >= i.cf[s]
    BY <2>1, Rounding
  <2>3. Align16(i.cf[s]) <= p.stride
    BY <1>4 DEF Accepted
  <2>. QED BY SMT, <1>2, <2>1, <2>2, <2>3
<1>5. CASE w \in {"CF0", "CF1"}
  <2>1. \/ Place(w, i, p) = p.base /\ Extent(w, i, p) = i.cf[0]
        \/ Place(w, i, p) = p.base + p.stride /\ Extent(w, i, p) = i.cf[1]
    BY SMT, <1>5, Places, Extents
  <2>2. CASE Place(w, i, p) = p.base /\ Extent(w, i, p) = i.cf[0]
    BY SMT, <1>2, <1>4, <2>2
  <2>3. CASE Place(w, i, p) = p.base + p.stride /\ Extent(w, i, p) = i.cf[1]
    BY SMT, <1>2, <1>4, <2>3
  <2>. QED BY <2>1, <2>2, <2>3
<1>6. CASE w \in {"CG0", "CG1"}
  <2>1. \/ Place(w, i, p) = CgAt(i, p, 0) /\ Extent(w, i, p) = On(i.cf[0] # 0, CgRoom(i, p, 0))
        \/ Place(w, i, p) = CgAt(i, p, 1) /\ Extent(w, i, p) = On(i.cf[1] # 0, CgRoom(i, p, 1))
    BY SMT, <1>6, Places, Extents
  <2>2. \/ Place(w, i, p) = CgAt(i, p, 0) /\ Extent(w, i, p) = CgRoom(i, p, 0)
        \/ Place(w, i, p) = CgAt(i, p, 1) /\ Extent(w, i, p) = CgRoom(i, p, 1)
    BY SMT, <2>1 DEF On
  <2>. QED BY SMT, <1>3, <2>2
<1>. QED BY <1>5, <1>6 DEF SlotNames

LEMMA FineItem ==
  ASSUME NEW i, i \in ImageRecord, NEW p, p = Plan(i), Accepted(i, p), NEW w \in Names,
         Extent(w, i, p) > 0
  PROVE  Fine(i, Place(w, i, p), Extent(w, i, p))
<1>. DEFINE f == Place(w, i, p)
            l == Extent(w, i, p)
            e == p.base + 2 * p.stride
<1>1. Zoned(i, w, f, l)
  BY Zones
<1>2. f \in Nat /\ l \in Nat /\ l > 0
  BY SMT, <1>1 DEF Zoned
<1>3. w \in HeadNames \/ w \in LateNames \/ w \in ClaimNames
  BY DEF Names, FromChain, FromSlots, FromConsole, FromAnchors, FromPayloads, ClaimNames, LateNames
<1>4. f + l <= ImageSize(i)
  <2>1. ImageSize(i) \in Nat /\ ImageSize(i) >= \h1000000
    BY SMT, Shape
  <2>. HIDE DEF f, l
  <2>. QED BY SMT, <1>1, <1>2, <1>3, <2>1 DEF Zoned
<1>5. PlanFor(i, p)
  BY DEF Accepted
<1>6. /\ p.base \in Nat /\ p.base >= \h8000 /\ p.stride \in {\h10000, \h20000}
      /\ p.overlay = p.base + p.stride
  BY SMT, <1>5 DEF PlanFor
<1>7. ASSUME f + l <= e PROVE Clear(i, f, l)
  <2>. HIDE DEF f, l
  <2>. QED BY <1>2, <1>5, <1>7, ClearLow
<1>8. Clear(i, f, l)
  <2>1. CASE w \in HeadNames
    <3>1. f + l <= \h8000
      BY SMT, <1>1, <1>2, <2>1 DEF Zoned
    <3>. QED BY SMT, <1>2, <1>6, <1>7, <3>1
  <2>2. CASE w \in LateNames
    <3>1. DataBlockLimit(i) * BlockSize(i) <= f
      <4>1. CASE w \in ConsoleNames
        <5>1. f = ConsoleAt(i, 0) \/ f = ConsoleAt(i, 1) \/ f = ConsoleAt(i, 2)
          BY SMT, <4>1, Places DEF ConsoleNames
        <5>. HIDE DEF f
        <5>. QED BY SMT, <5>1, Shape DEF ConsoleAt
      <4>2. CASE w \in AnchorNames
        <5>1. f \in {\h2FE8000, \h2FEC000}
          BY SMT, <4>2, Places DEF AnchorNames
        <5>2. l = On(i.shape = "emmc", \h4000)
          BY SMT, <4>2, Extents DEF AnchorNames
        <5>3. i.shape = "emmc"
          BY SMT, <1>2, <5>2 DEF On
        <5>. HIDE DEF f
        <5>. QED BY SMT, <5>1, <5>3, Shape
      <4>. QED BY <2>2, <4>1, <4>2 DEF LateNames
    <3>. HIDE DEF f, l
    <3>. QED BY <1>2, <3>1, ClearHigh
  <2>3. CASE w = "chain"
    <3>1. f = \h8000 /\ l = Align16(i.chain)
      BY SMT, <2>3, Places, Extents
    <3>2. kEntryOffset + Align16(i.chain) <= p.overlay
      BY DEF Accepted
    <3>3. f + l <= p.overlay
      BY SMT, <3>1, <3>2 DEF kEntryOffset
    <3>. QED BY SMT, <1>2, <1>6, <1>7, <3>3
  <2>4. CASE w \in SlotNames
    BY <1>2, <1>7, <2>4, SlotEnds
  <2>5. CASE w = "payload"
    <3>1. f = \h200 /\ l = On(i.payload, \h200)
      BY SMT, <2>5, Places, Extents
    <3>2. f + l <= \h400
      BY SMT, <3>1 DEF On
    <3>. QED BY SMT, <1>2, <1>6, <1>7, <3>2
  <2>6. CASE w = "patch" /\ i.patch = "glitch"
    <3>1. f = p.overlay + p.prefix /\ l = i.patchSize
      BY SMT, <2>6, Places, Extents DEF PatchAt, On
    <3>2. i.patchSize <= p.stride - p.prefix
      BY <2>6 DEF Accepted
    <3>3. p.prefix \in {\h10, \h60}
      BY SMT, <1>5 DEF PlanFor
    <3>. QED BY SMT, <1>2, <1>6, <1>7, <3>1, <3>2, <3>3
  <2>7. CASE w \in {"rebooter", "fuses", "xell"} \cup SecondNames \/ (w = "patch" /\ i.patch = "jtag")
    <3>1. BlockRange(i, f, l) \subseteq ActivePayloadBlocks(i)
      BY <2>7, ActiveItem
    <3>. QED BY <3>1, ClearActive
  <2>8. w = "patch" => i.patch = "jtag" \/ i.patch = "glitch"
    <3>1. w = "patch" => l = On(i.patch # "none", i.patchSize)
      BY SMT, Extents
    <3>2. w = "patch" => i.patch # "none"
      BY SMT, <1>2, <3>1 DEF On
    <3>. QED BY SMT, <3>2, Sizes
  <2>. QED BY <1>3, <2>1, <2>2, <2>3, <2>4, <2>5, <2>6, <2>7, <2>8
       DEF ClaimNames, PayloadNames, FromPatch
<1>. QED BY <1>2, <1>4, <1>8 DEF Fine

\* So do the rebooter and the fuses that are read back.
LEMMA FineWidth ==
  ASSUME NEW i, i \in ImageRecord, NEW p, p = Plan(i), Accepted(i, p),
         NEW x, NEW q, Written(i, p, x, q), NEW w \in Names, Width(w, i, p, x, q) > 0
  PROVE  Fine(i, Place(w, i, p), Width(w, i, p, x, q))
<1>. DEFINE f == Place(w, i, p)
            l == Extent(w, i, p)
            m == Width(w, i, p, x, q)
<1>1. CASE m = l
  BY <1>1, FineItem
<1>2. CASE m # l /\ w = "rebooter"
  <2>1. m = \h1000 /\ f = \h90000 /\ l > 0 /\ l <= \h1000
    BY SMT, <1>2, WidthOf
  <2>2. Fine(i, f, l)
    BY <2>1, FineItem
  <2>3. ImageSize(i) \in Nat /\ ImageSize(i) >= \h1000000
    BY SMT, Shape
  <2>. HIDE DEF f, l, m
  <2>4. l \in Nat /\ f + l <= ImageSize(i)
    BY <2>2 DEF Fine
  <2>5. Covered(f, m, f, l)
    BY SMT, <2>1, <2>4 DEF Covered
  <2>6. XellBehindPatches(i) => Clear(i, f, m)
    <3>1. XellBehindPatches(i) => Clear(i, f, l)
      BY <2>2 DEF Fine
    <3>. QED BY <2>4, <2>5, <3>1, ClearPart
  <2>7. f \in Nat /\ m \in Nat /\ m > 0 /\ f + m <= ImageSize(i)
    BY SMT, <2>1, <2>3
  <2>8. Fine(i, f, m)
    BY <2>6, <2>7 DEF Fine
  <2>. QED BY <2>8 DEF f, m
<1>3. CASE m # l /\ w = "fuses"
  <2>1. m = \h60 /\ f = p.overlay /\ i.patch = "glitch"
    BY SMT, <1>3, WidthOf
  <2>2. p.overlay \in Nat /\ p.overlay <= \h150000 /\ p.stride \in {\h10000, \h20000}
        /\ p.overlay = p.base + p.stride /\ p.base \in Nat
    BY SMT, <2>1, OverlayPlan
  <2>3. ImageSize(i) \in Nat /\ ImageSize(i) >= \h1000000
    BY SMT, Shape
  <2>. HIDE DEF f, m
  <2>4. f \in Nat /\ m \in Nat /\ m > 0 /\ f + m <= ImageSize(i) /\ f + m <= p.base + 2 * p.stride
    BY SMT, <2>1, <2>2, <2>3
  <2>5. PlanFor(i, p)
    BY DEF Accepted
  <2>6. Clear(i, f, m)
    BY <2>4, <2>5, ClearLow
  <2>7. Fine(i, f, m)
    BY <2>4, <2>6 DEF Fine
  <2>. QED BY <2>7 DEF f, m
<1>. QED BY SMT, <1>1, <1>2, <1>3, WidthOf

---------------------------------------------------------------------------
(* What may be laid, and what is left to lay.                              *)

\* The image x is written with its plan q: the accepted image i with its plan
\* p, or what is read back of it.
Scene(i, p, x, q) ==
  /\ i \in ImageRecord /\ Assembled(i) /\ PartsInPlace(i) /\ PatchesInBlock(i)
  /\ p = Plan(i) /\ Accepted(i, p) /\ Written(i, p, x, q)

\* The pieces that may be on the flash: fills, and items where i has them.
Canvas(i, p, x, q) ==
  {r \in AnyPiece :
     /\ Fine(i, r.from, r.to - r.from)
     /\ \/ r.what = "fill"
        \/ /\ r.what \in Names /\ r.from = Place(r.what, i, p)
           /\ r.to <= r.from + Width(r.what, i, p, x, q)}

\* The items of R that x has.
Left(R, x, q) == {w \in R : Extent(w, x, q) # 0}

\* A fill that meets no item but those of E.
Spares(i, p, x, q, f, t, E) ==
  /\ f \in Nat /\ t \in Nat
  /\ f < t => /\ Fine(i, f, t - f)
              /\ \A w \in Names \ E : Width(w, i, p, x, q) > 0
                     => Off(Place(w, i, p), Width(w, i, p, x, q), f, t - f)

LEMMA OnCanvas ==
  ASSUME NEW i, NEW p, NEW x, NEW q, NEW r \in Canvas(i, p, x, q), r.what # "fill"
  PROVE  /\ r \in AnyPiece /\ r.what \in Names /\ r.from = Place(r.what, i, p)
         /\ r.from \in Nat /\ r.to \in Nat /\ r.from < r.to
         /\ r.to <= r.from + Width(r.what, i, p, x, q)
<1>1. /\ r \in AnyPiece /\ r.what \in Names /\ r.from = Place(r.what, i, p)
      /\ r.to <= r.from + Width(r.what, i, p, x, q) /\ Fine(i, r.from, r.to - r.from)
  BY DEF Canvas
<1>2. r.from \in Nat /\ r.to \in Nat
  BY <1>1 DEF AnyPiece
<1>3. r.to - r.from > 0
  BY <1>1 DEF Fine
<1>. QED BY <1>1, <1>2, <1>3

LEMMA LaysOver ==
  ASSUME NEW i, NEW p, NEW x, NEW q, Scene(i, p, x, q), NEW f, NEW t, NEW D, NEW E,
         Spares(i, p, x, q, f, t, E), D \subseteq E
  PROVE  Lays(Fill(f, t), Canvas(i, p, x, q), D, E)
<1>. DEFINE L == Canvas(i, p, x, q)
<1>1. L \in SUBSET AnyPiece
  BY DEF Canvas
<1>2. f \in Nat /\ t \in Nat
  BY DEF Spares
<1>3. ASSUME f < t PROVE Piece("fill", f, t - f) \in L
  <2>1. Fine(i, f, t - f)
    BY <1>3 DEF Spares
  <2>. DEFINE r == Piece("fill", f, t - f)
  <2>2. r.what = "fill" /\ r.from = f /\ r.to = f + (t - f)
    BY PieceIs
  <2>3. r.to = t
    BY <1>2, <2>2
  <2>4. r \in AnyPiece
    <3>1. f + (t - f) \in Nat
      BY <1>2
    <3>. QED BY <1>2, <3>1 DEF AnyPiece, Piece
  <2>5. Fine(i, r.from, r.to - r.from)
    BY <2>1, <2>2, <2>3
  <2>. HIDE DEF r
  <2>6. r \in L
    BY <2>2, <2>4, <2>5 DEF Canvas
  <2>. QED BY <2>6 DEF r
<1>4. ASSUME f < t, NEW a \in L, a.what # "fill", a.from < t, f < a.to PROVE a.what \in E
  <2>. SUFFICES ASSUME a.what \notin E PROVE FALSE
    OBVIOUS
  <2>. DEFINE w == a.what
              m == Width(a.what, i, p, x, q)
              g == Place(a.what, i, p)
  <2>1. /\ w \in Names /\ a.from = g /\ a.from \in Nat /\ a.to \in Nat /\ a.from < a.to
        /\ a.to <= a.from + m
    BY <1>4, OnCanvas
  <2>2. m \in Nat
    BY <2>1, Widths DEF Scene
  <2>3. m > 0 => Off(g, m, f, t - f)
    BY <1>4, <2>1 DEF Spares
  <2>. HIDE DEF m, g
  <2>. QED BY SMT, <1>2, <1>4, <2>1, <2>2, <2>3 DEF Off
<1>. HIDE DEF L
<1>5. Lays(Fill(f, t), L, D, E)
  <2>1. f \in Int /\ t \in Int
    BY <1>2
  <2>. QED BY <1>1, <1>3, <1>4, <2>1, LaysFill
<1>. QED BY <1>5 DEF L

\* An item, once laid, is no longer left to lay, and harms no other.
LEMMA LaysName ==
  ASSUME NEW i, NEW p, NEW x, NEW q, Scene(i, p, x, q), NEW w \in Names, NEW R, NEW S,
         R \ {w} \subseteq S, NEW f, f = Place(w, x, q), NEW l, l = Extent(w, x, q)
  PROVE  Lays(Item(w, f, l), Canvas(i, p, x, q), Left(R, x, q), Left(S, x, q))
<1>. DEFINE L == Canvas(i, p, x, q)
            D == Left(R, x, q)
            E == Left(S, x, q)
            m == Width(w, i, p, x, q)
            g == Place(w, i, p)
<1>1. L \in SUBSET AnyPiece
  BY DEF Canvas
<1>2. l = 0 => D \subseteq E
  BY DEF Left
<1>3. D \ {w} \subseteq E
  BY DEF Left
<1>4. ASSUME l # 0 PROVE Fits(Piece(w, f, l), L)
  <2>. DEFINE r == Piece(w, f, l)
  <2>1. /\ g \in Nat /\ m \in Nat /\ f = g /\ l = m
    BY <1>4, Widths DEF Scene
  <2>2. m > 0
    BY <1>4, <2>1
  <2>3. Fine(i, g, m)
    BY <2>2, FineWidth DEF Scene
  <2>4. r.what = w /\ r.from = f /\ r.to = f + l
    BY PieceIs
  <2>5. r \in AnyPiece
    <3>1. f \in Nat /\ f + l \in Nat
      BY <2>1
    <3>. QED BY <3>1 DEF AnyPiece, Piece
  <2>6. r \in L
    <3>1. r.to - r.from = m /\ r.to <= r.from + m
      <4>. HIDE DEF r, m, g
      <4>. QED BY <2>1, <2>4
    <3>2. Fine(i, r.from, r.to - r.from)
      BY <2>1, <2>3, <2>4, <3>1
    <3>3. r.what \in Names /\ r.from = Place(r.what, i, p) /\ r.to <= r.from + Width(r.what, i, p, x, q)
      BY <2>1, <2>4, <3>1
    <3>. HIDE DEF r
    <3>. QED BY <2>5, <3>2, <3>3 DEF Canvas
  <2>7. ASSUME NEW a \in L, a.what # "fill"
        PROVE  /\ a.what = w => a.from = f /\ a.to <= f + l
               /\ a.what # w => ~(f < a.to /\ a.from < f + l)
    <3>. DEFINE v == a.what
                n == Width(a.what, i, p, x, q)
                h == Place(a.what, i, p)
    <3>1. /\ v \in Names /\ a.from = h /\ a.from \in Nat /\ a.to \in Nat /\ a.from < a.to
          /\ a.to <= a.from + n
      BY <2>7, OnCanvas
    <3>2. n \in Nat
      BY <3>1, Widths DEF Scene
    <3>3. v = w => n = m /\ h = g
      OBVIOUS
    <3>4. v # w /\ n > 0 => Off(g, m, h, n)
      BY <2>2, <3>1, WidthApart DEF Scene
    <3>. HIDE DEF m, g, n, h, v
    <3>5. /\ v = w => a.from = f /\ a.to <= f + l
          /\ v # w => ~(f < a.to /\ a.from < f + l)
      BY SMT, <2>1, <3>1, <3>2, <3>3, <3>4 DEF Off
    <3>. QED BY <3>5 DEF v
  <2>8. \A a \in L : a.what # "fill" =>
          /\ a.what = r.what => a.from = r.from /\ a.to <= r.to
          /\ a.what # r.what => ~Overlap(r, a)
    <3>. HIDE DEF r, L, m, g
    <3>. QED BY <2>4, <2>7 DEF Overlap
  <2>. QED BY <2>6, <2>8 DEF Fits
<1>. HIDE DEF L, D, E
<1>5. Lays(Item(w, f, l), L, D, E)
  BY <1>1, <1>2, <1>3, <1>4, LaysItem
<1>. QED BY <1>5 DEF L, D, E

\* What a stage lays is laid whole.
LEMMA LayAll ==
  ASSUME NEW p, NEW q, Scene(built, p, image, q), NEW y, NEW D, NEW E, NEW next,
         Laid(laid, Canvas(built, p, image, q), D), Lays(y, Canvas(built, p, image, q), D, E),
         Lay(y, next)
  PROVE  /\ stage' = next /\ built' = built /\ image' = image
         /\ Laid(laid', Canvas(built, p, image, q), E)
<1>. DEFINE L == Canvas(built, p, image, q)
<1>1. ImageSize(image) = ImageSize(built)
  <2>1. image.shape = built.shape
    BY DEF Scene, Written, ReadFrom
  <2>. QED BY <2>1, SameShape
<1>2. ASSUME NEW n \in DOMAIN y PROVE ~(y[n].to > ImageSize(image))
  <2>1. y \in Seq(AnyPiece) /\ y[n] \in L
    BY DEF Lays
  <2>2. Fine(built, y[n].from, y[n].to - y[n].from) /\ y[n] \in AnyPiece
    BY <2>1 DEF Canvas
  <2>3. y[n].from \in Nat /\ y[n].to \in Nat
    BY <2>2 DEF AnyPiece
  <2>4. y[n].from + (y[n].to - y[n].from) <= ImageSize(built)
    BY <2>2 DEF Fine
  <2>5. ImageSize(built) \in Nat
    BY SomeBlockSize DEF Scene
  <2>. DEFINE N == ImageSize(built)
              a == y[n].from
              b == y[n].to
  <2>6. N \in Nat /\ a \in Nat /\ b \in Nat /\ a + (b - a) <= N
    BY <2>3, <2>4, <2>5
  <2>. HIDE DEF N, a, b
  <2>7. ~(b > N)
    BY SMT, <2>6
  <2>. QED BY <1>1, <2>7 DEF N, b
<1>3. /\ stage' = next /\ built' = built /\ image' = image /\ laid' = laid \o y
  BY <1>2 DEF Lay
<1>4. Laid(laid \o y, L, E)
  BY DEF Lays
<1>. QED BY <1>3, <1>4

---------------------------------------------------------------------------
(* What each stage lays.                                                   *)

\* The two passes.
LEMMA Passes ==
  ASSUME NEW i, NEW p, NEW x, NEW q, Scene(i, p, x, q)
  PROVE  \/ x = i /\ q = p /\ ~x.preserve
         \/ ReadFrom(i, p, x, q) /\ x.preserve
<1>1. ~i.preserve
  BY DEF Scene, Assembled
<1>2. ReadFrom(i, p, x, q) => x.preserve
  BY DEF ReadFrom
<1>. QED BY <1>1, <1>2 DEF Scene, Written

\* What the two passes agree on.
LEMMA Kept ==
  ASSUME NEW i, NEW p, NEW x, NEW q, Scene(i, p, x, q)
  PROVE  /\ x.shape = i.shape /\ x.smc = i.smc /\ x.chain = i.chain
         /\ x.cf = i.cf /\ x.cg = i.cg /\ x.console = i.console
         /\ q.base = p.base /\ q.stride = p.stride /\ q.overlay = p.overlay /\ q.window = p.window
<1>1. CASE x = i /\ q = p
  BY <1>1
<1>2. CASE ReadFrom(i, p, x, q)
  BY <1>2 DEF ReadFrom
<1>. QED BY <1>1, <1>2, Passes

\* The update slots of a scene.
LEMMA Slots ==
  ASSUME NEW i, NEW p, NEW x, NEW q, Scene(i, p, x, q)
  PROVE  /\ p.base \in Nat /\ p.base >= \h8000 /\ p.base <= \h130000 /\ p.base % \h4000 = 0
         /\ p.stride \in {\h10000, \h20000} /\ p.overlay = p.base + p.stride
         /\ p.overlay \in Nat /\ p.overlay % \h4000 = 0 /\ p.overlay <= \h150000
         /\ p.window = \h90000
<1>1. PlanFor(i, p)
  BY DEF Scene, Accepted
<1>2. /\ p.base \in Nat /\ p.base >= \h8000 /\ p.base <= \h130000 /\ p.base % \h4000 = 0
      /\ p.stride \in {\h10000, \h20000} /\ p.overlay = p.base + p.stride /\ p.window = \h90000
  BY SMT, <1>1 DEF PlanFor
<1>3. p.overlay \in Nat /\ p.overlay % \h4000 = 0 /\ p.overlay <= \h150000
  BY SMT, <1>2
<1>. QED BY <1>2, <1>3

\* A fill below the end of the update slots is off the files' area.
LEMMA FineLow ==
  ASSUME NEW i, NEW p, NEW x, NEW q, Scene(i, p, x, q), NEW f, f \in Nat, NEW t, t \in Nat, f < t,
         t <= p.base + 2 * p.stride
  PROVE  Fine(i, f, t - f)
<1>. DEFINE l == t - f
<1>1. l \in Nat /\ l > 0 /\ f + l = t
  OBVIOUS
<1>2. i \in ImageRecord /\ PlanFor(i, p) /\ p = Plan(i)
  BY DEF Scene, Accepted
<1>3. ImageSize(i) \in Nat /\ ImageSize(i) >= \h1000000
  BY SMT, <1>2, Shape
<1>4. p.base \in Nat /\ p.base <= \h130000 /\ p.stride \in {\h10000, \h20000}
  BY SMT, Slots
<1>. HIDE DEF l
<1>5. f + l <= ImageSize(i) /\ f + l <= p.base + 2 * p.stride
  BY SMT, <1>1, <1>3, <1>4
<1>6. Clear(i, f, l)
  BY <1>1, <1>2, <1>5, ClearLow
<1>7. Fine(i, f, l)
  BY <1>1, <1>5, <1>6 DEF Fine
<1>. QED BY <1>7 DEF l

\* A fill that touches no other block than an item does.
LEMMA FineBy ==
  ASSUME NEW i, NEW p, NEW x, NEW q, Scene(i, p, x, q), NEW f, NEW t, f < t, t \in Nat, f \in Nat,
         t <= ImageSize(i),
         NEW g, NEW m, Covered(f, t - f, g, m), Fine(i, g, m)
  PROVE  Fine(i, f, t - f)
<1>. DEFINE l == t - f
<1>1. l \in Nat /\ l > 0 /\ f + l = t
  OBVIOUS
<1>2. i \in ImageRecord
  BY DEF Scene
<1>4. Covered(f, l, g, m)
  OBVIOUS
<1>. HIDE DEF l
<1>5. f + l <= ImageSize(i)
  BY <1>1
<1>6. XellBehindPatches(i) => Clear(i, f, l)
  <2>1. XellBehindPatches(i) => Clear(i, g, m)
    BY DEF Fine
  <2>2. g + m <= ImageSize(i)
    BY DEF Fine
  <2>. QED BY <1>2, <1>4, <2>1, <2>2, ClearPart
<1>7. Fine(i, f, l)
  BY <1>1, <1>5, <1>6 DEF Fine
<1>. QED BY <1>7 DEF l

\* In the first pass every item has the length it has in the image.
LEMMA FirstWidth ==
  ASSUME NEW i, NEW p, NEW w
  PROVE  Width(w, i, p, i, p) = Extent(w, i, p)
BY DEF Width

\* What is left of the image is left on the flash.
LEMMA LeftFirst ==
  ASSUME NEW i, NEW p, NEW w, NEW R, w \in R, Width(w, i, p, i, p) > 0
  PROVE  w \in Left(R, i, p)
<1>1. Extent(w, i, p) > 0
  BY FirstWidth
<1>2. Extent(w, i, p) # 0
  BY SMT, <1>1
<1>. QED BY <1>2 DEF Left

LEMMA LaysHead ==
  ASSUME NEW i, NEW p, NEW x, NEW q, Scene(i, p, x, q)
  PROVE  /\ ~(SmcAt(x) < \h80)
         /\ Lays(HeadPieces(x), Canvas(i, p, x, q), Left(Names, x, q), Left(FromChain, x, q))
<1>. DEFINE L == Canvas(i, p, x, q)
            A == Names \ {"header"}
            B == A \ {"smc"}
<1>1. i.smc \in Nat /\ i.smc <= \h3C00 /\ x.smc = i.smc
  <2>1. i.smc \in Nat
    BY SMT, Sizes DEF Scene, Sized
  <2>2. i.smc <= \h3C00
    BY DEF Scene, Accepted
  <2>. QED BY <2>1, <2>2, Kept
<1>2. SmcAt(x) \in Nat /\ SmcAt(x) >= \h400 /\ SmcAt(x) <= \h4000 /\ SmcAt(x) = SmcAt(i)
  BY SMT, <1>1 DEF SmcAt, kKeyvaultOffset
<1>3. HeadNames \subseteq Names /\ "header" \in HeadNames /\ "smc" \in HeadNames /\ "keyvault" \in HeadNames
  BY DEF Names, HeadNames
<1>4. Lays(Item("header", 0, \h80), L, Left(Names, x, q), Left(A, x, q))
  <2>1. 0 = Place("header", x, q) /\ \h80 = Extent("header", x, q)
    BY SMT, Places, Extents
  <2>. QED BY <1>3, <2>1, LaysName
<1>5. Lays(Item("smc", SmcAt(x), x.smc), L, Left(A, x, q), Left(B, x, q))
  <2>1. SmcAt(x) = Place("smc", x, q) /\ x.smc = Extent("smc", x, q)
    BY SMT, Places, Extents
  <2>. QED BY <1>3, <2>1, LaysName
<1>6. Lays(Item("keyvault", kKeyvaultOffset, \h4000), L, Left(B, x, q), Left(FromChain, x, q))
  <2>1. kKeyvaultOffset = Place("keyvault", x, q) /\ \h4000 = Extent("keyvault", x, q)
    BY SMT, Places, Extents DEF kKeyvaultOffset
  <2>2. B \ {"keyvault"} \subseteq FromChain
    BY DEF Names, HeadNames
  <2>. HIDE DEF A, B
  <2>. QED BY <1>3, <2>1, <2>2, LaysName
<1>7. Lays(IF x.preserve THEN <<>> ELSE Fill(\h80, SmcAt(x)), L, Left(A, x, q), Left(A, x, q))
  <2>1. CASE x.preserve
    BY <2>1, LaysNone
  <2>2. CASE ~x.preserve
    <3>1. x = i /\ q = p
      BY <2>2, Passes
    <3>. DEFINE e == SmcAt(i)
    <3>2. e \in Nat /\ e >= \h400 /\ e <= \h4000
      BY <1>2
    <3>3. ASSUME NEW w \in Names, w \notin Left(A, x, q), Width(w, i, p, x, q) > 0
          PROVE  Off(Place(w, i, p), Width(w, i, p, x, q), \h80, e - \h80)
      <4>. DEFINE g == Place(w, i, p)
                  m == Extent(w, i, p)
      <4>1. m > 0 /\ Width(w, i, p, x, q) = m
        BY <3>1, <3>3, FirstWidth
      <4>2. w = "header"
        BY <3>1, <3>3, LeftFirst
      <4>3. g = 0 /\ m = \h80
        BY SMT, <4>2, Places, Extents
      <4>4. Off(g, m, \h80, e - \h80)
        <5>. HIDE DEF e, g, m
        <5>. QED BY SMT, <3>2, <4>3 DEF Off
      <4>. QED BY <4>1, <4>4
    <3>4. Fine(i, \h80, e - \h80)
      <4>. HIDE DEF e
      <4>1. \h80 \in Nat /\ \h80 < e
        BY SMT, <3>2
      <4>2. e <= p.base + 2 * p.stride
        BY SMT, <3>2, Slots
      <4>3. e \in Nat
        BY SMT, <3>2
      <4>. QED BY <4>1, <4>2, <4>3, FineLow
    <3>5. Spares(i, p, x, q, \h80, e, Left(A, x, q))
      <4>. HIDE DEF e, A
      <4>1. \h80 \in Nat
        BY SMT
      <4>. QED BY <3>2, <3>3, <3>4, <4>1 DEF Spares
    <3>6. Lays(Fill(\h80, e), L, Left(A, x, q), Left(A, x, q))
      <4>. HIDE DEF e, A, L
      <4>. QED BY <3>5, LaysOver DEF L
    <3>. QED BY <2>2, <3>1, <3>6
  <2>. QED BY <2>1, <2>2
<1>. HIDE DEF A, B, L
<1>8. Lays(HeadPieces(x), L, Left(Names, x, q), Left(FromChain, x, q))
  <2>. DEFINE z == IF x.preserve THEN <<>> ELSE Fill(\h80, SmcAt(x))
  <2>. HIDE DEF z
  <2>0. Lays(z, L, Left(A, x, q), Left(A, x, q))
    BY <1>7 DEF z
  <2>1. Lays(Item("header", 0, \h80) \o z, L, Left(Names, x, q), Left(A, x, q))
    BY <1>4, <2>0, LaysThen
  <2>2. Lays((Item("header", 0, \h80) \o z) \o Item("smc", SmcAt(x), x.smc), L, Left(Names, x, q), Left(B, x, q))
    BY <1>5, <2>1, LaysThen
  <2>3. Lays(((Item("header", 0, \h80) \o z) \o Item("smc", SmcAt(x), x.smc))
               \o Item("keyvault", kKeyvaultOffset, \h4000), L, Left(Names, x, q), Left(FromChain, x, q))
    BY <1>6, <2>2, LaysThen
  <2>. QED BY <2>3 DEF HeadPieces, z
<1>9. ~(SmcAt(x) < \h80)
  BY SMT, <1>2
<1>. QED BY <1>8, <1>9 DEF L

LEMMA LaysChain ==
  ASSUME NEW i, NEW p, NEW x, NEW q, Scene(i, p, x, q)
  PROVE  Lays(Item("chain", kEntryOffset, Align16(x.chain))
                \o (IF x.preserve THEN <<>> ELSE Fill(BootChainEnd(x), BlockEnd(BootChainEnd(x)))),
              Canvas(i, p, x, q), Left(FromChain, x, q), Left(FromSlots, x, q))
<1>. DEFINE L == Canvas(i, p, x, q)
            D == Left(FromSlots, x, q)
            y == Item("chain", kEntryOffset, Align16(x.chain))
            z == IF x.preserve THEN <<>> ELSE Fill(BootChainEnd(x), BlockEnd(BootChainEnd(x)))
<1>1. Lays(y, L, Left(FromChain, x, q), D)
  <2>1. kEntryOffset = Place("chain", x, q) /\ Align16(x.chain) = Extent("chain", x, q)
    BY SMT, Places, Extents DEF kEntryOffset
  <2>2. "chain" \in Names /\ FromChain \ {"chain"} \subseteq FromSlots
    BY DEF Names, FromChain
  <2>. QED BY <2>1, <2>2, LaysName
<1>2. Lays(z, L, D, D)
  <2>1. CASE x.preserve
    BY <2>1, LaysNone
  <2>2. CASE ~x.preserve
    <3>1. x = i /\ q = p
      BY <2>2, Passes
    <3>. DEFINE f == BootChainEnd(i)
                t == BlockEnd(f)
                c == Align16(i.chain)
    <3>2. c \in Nat /\ f = \h8000 + c /\ f \in Nat /\ f <= p.overlay
      <4>1. i.chain \in Nat
        BY SMT, Sizes DEF Scene, Sized
      <4>2. c \in Nat
        BY <4>1, Rounding
      <4>3. f <= p.overlay
        BY DEF Scene, Accepted, BootChainEnd
      <4>. HIDE DEF c
      <4>. QED BY SMT, <4>2, <4>3 DEF BootChainEnd, kEntryOffset, c
    <3>3. t \in Nat /\ t <= p.overlay
      <4>. HIDE DEF f
      <4>1. p.overlay \in Nat /\ p.overlay % \h4000 = 0
        BY SMT, Slots
      <4>. QED BY SMT, <3>2, <4>1 DEF BlockEnd, RoundUp, kLayBlockSize
    <3>4. ASSUME f < t, NEW w \in Names, w \notin D, Width(w, i, p, x, q) > 0
          PROVE  Off(Place(w, i, p), Width(w, i, p, x, q), f, t - f)
      <4>. DEFINE g == Place(w, i, p)
                  m == Extent(w, i, p)
      <4>1. m > 0 /\ Width(w, i, p, x, q) = m
        BY <3>1, <3>4, FirstWidth
      <4>2. w \in HeadNames \/ w = "chain"
        BY <3>1, <3>4, LeftFirst DEF Names, FromChain
      <4>3. Zoned(i, w, g, m)
        BY Zones DEF Scene
      <4>4. g \in Nat /\ m \in Nat /\ g + m <= f
        <5>1. CASE w \in HeadNames
          <6>. HIDE DEF f, t, c, g, m
          <6>. QED BY SMT, <3>2, <4>1, <4>3, <5>1 DEF Zoned
        <5>2. CASE w = "chain"
          <6>1. g = \h8000 /\ m = c
            BY SMT, <5>2, Places, Extents
          <6>. HIDE DEF f, t, c, g, m
          <6>. QED BY SMT, <3>2, <6>1
        <5>. QED BY <4>2, <5>1, <5>2
      <4>5. Off(g, m, f, t - f)
        BY <4>4 DEF Off
      <4>. QED BY <4>1, <4>5
    <3>5. ASSUME f < t PROVE Fine(i, f, t - f)
      <4>. HIDE DEF f, t
      <4>1. t <= p.base + 2 * p.stride
        BY SMT, <3>3, Slots
      <4>. QED BY <3>2, <3>3, <3>5, <4>1, FineLow
    <3>6. Spares(i, p, x, q, f, t, D)
      <4>. HIDE DEF f, t, D
      <4>. QED BY <3>2, <3>3, <3>4, <3>5 DEF Spares
    <3>7. Lays(Fill(f, t), L, D, D)
      <4>. HIDE DEF f, t, D, L
      <4>. QED BY <3>6, LaysOver DEF L
    <3>. QED BY <2>2, <3>1, <3>7
  <2>. QED BY <2>1, <2>2
<1>. HIDE DEF L, D, y, z
<1>3. Lays(y \o z, L, Left(FromChain, x, q), D)
  BY <1>1, <1>2, LaysThen
<1>. QED BY <1>3 DEF L, D, y, z

LEMMA LaysSlots ==
  ASSUME NEW i, NEW p, NEW x, NEW q, Scene(i, p, x, q)
  PROVE  LET Slot(s) == Item(CfName[s + 1], q.base + s * q.stride, x.cf[s])
                        \o Item(CgName[s + 1], q.base + s * q.stride + Align16(x.cf[s]),
                                On(x.cf[s] # 0, CgRoom(x, q, s)))
         IN  Lays(Slot(0) \o Slot(1),
                  Canvas(i, p, x, q), Left(FromSlots, x, q), Left(FromConsole, x, q))
<1>. DEFINE L == Canvas(i, p, x, q)
            A == FromSlots \ {"CF0"}
            B == A \ {"CG0"}
            C == B \ {"CF1"}
            Slot(s) == Item(CfName[s + 1], q.base + s * q.stride, x.cf[s])
                       \o Item(CgName[s + 1], q.base + s * q.stride + Align16(x.cf[s]),
                               On(x.cf[s] # 0, CgRoom(x, q, s)))
            Of(w) == Item(w, Place(w, x, q), Extent(w, x, q))
<1>1. /\ "CF0" \in Names /\ "CG0" \in Names /\ "CF1" \in Names /\ "CG1" \in Names
      /\ C \ {"CG1"} \subseteq FromConsole
  BY DEF Names, FromChain, FromSlots, SlotNames
<1>2. Lays(Of("CF0"), L, Left(FromSlots, x, q), Left(A, x, q))
  <2>. HIDE DEF L
  <2>. QED BY <1>1, LaysName DEF L
<1>3. Lays(Of("CG0"), L, Left(A, x, q), Left(B, x, q))
  <2>. HIDE DEF L, A
  <2>. QED BY <1>1, LaysName DEF L
<1>4. Lays(Of("CF1"), L, Left(B, x, q), Left(C, x, q))
  <2>. HIDE DEF L, B
  <2>. QED BY <1>1, LaysName DEF L
<1>5. Lays(Of("CG1"), L, Left(C, x, q), Left(FromConsole, x, q))
  <2>. HIDE DEF L, C
  <2>. QED BY <1>1, LaysName DEF L
<1>6. q.base \in Nat /\ q.stride \in Nat
  <2>1. p.base \in Nat /\ p.stride \in Nat
    BY SMT, Slots
  <2>. QED BY <2>1, Kept
<1>7. q.base + 0 * q.stride = q.base /\ q.base + 1 * q.stride = q.base + q.stride
  BY SMT, <1>6
<1>8. /\ CfName[0 + 1] = "CF0" /\ CgName[0 + 1] = "CG0"
      /\ CfName[1 + 1] = "CF1" /\ CgName[1 + 1] = "CG1"
  BY SMT DEF CfName, CgName
<1>9. Slot(0) = Of("CF0") \o Of("CG0")
  <2>1. /\ Place("CF0", x, q) = q.base + 0 * q.stride /\ Extent("CF0", x, q) = x.cf[0]
        /\ Place("CG0", x, q) = q.base + 0 * q.stride + Align16(x.cf[0])
        /\ Extent("CG0", x, q) = On(x.cf[0] # 0, CgRoom(x, q, 0))
    BY SMT, <1>7, Places, Extents DEF CgAt
  <2>. QED BY <1>8, <2>1
<1>10. Slot(1) = Of("CF1") \o Of("CG1")
  <2>1. /\ Place("CF1", x, q) = q.base + 1 * q.stride /\ Extent("CF1", x, q) = x.cf[1]
        /\ Place("CG1", x, q) = q.base + 1 * q.stride + Align16(x.cf[1])
        /\ Extent("CG1", x, q) = On(x.cf[1] # 0, CgRoom(x, q, 1))
    BY SMT, <1>7, Places, Extents DEF CgAt
  <2>. QED BY <1>8, <2>1
<1>11. Lays((Of("CF0") \o Of("CG0")) \o (Of("CF1") \o Of("CG1")),
            L, Left(FromSlots, x, q), Left(FromConsole, x, q))
  <2>. HIDE DEF L, A, B, C, Of
  <2>1. Lays(Of("CF0") \o Of("CG0"), L, Left(FromSlots, x, q), Left(B, x, q))
    BY <1>2, <1>3, LaysThen
  <2>2. Lays(Of("CF1") \o Of("CG1"), L, Left(B, x, q), Left(FromConsole, x, q))
    BY <1>4, <1>5, LaysThen
  <2>. QED BY <2>1, <2>2, LaysThen
<1>. HIDE DEF L, Of
<1>12. Lays(Slot(0) \o Slot(1), L, Left(FromSlots, x, q), Left(FromConsole, x, q))
  <2>. HIDE DEF Slot
  <2>. QED BY <1>9, <1>10, <1>11
<1>. QED BY <1>12 DEF L

\* Erasing the block of one of the console's items meets no other item.
LEMMA LaysErase ==
  ASSUME NEW i, NEW p, NEW x, NEW q, Scene(i, p, x, q), NEW n \in 0 .. 2, NEW w \in ConsoleNames,
         Place(w, i, p) = ConsoleAt(i, n), NEW D, w \in D,
         \A v \in ConsoleNames : Extent(v, i, p) = kSettingsSpan
  PROVE  Lays(Fill(ConsoleAt(x, n), ConsoleAt(x, n) + BlockSize(x)), Canvas(i, p, x, q), D, D)
<1>. DEFINE f == ConsoleAt(i, n)
            b == BlockSize(i)
<1>0. i \in ImageRecord
  BY DEF Scene
<1>1. /\ f \in Nat /\ b \in {\h4000, \h20000} /\ f >= \hF00000 /\ f + b <= ImageSize(i)
      /\ DataBlockLimit(i) * b <= f
      /\ ConsoleAt(i, 0) = f + n * b /\ ConsoleAt(i, 1) = f + (n - 1) * b
      /\ ConsoleAt(i, 2) = f + (n - 2) * b
      /\ i.shape = "emmc" => f >= \h2FF4000
  BY SMT, <1>0, Shape DEF ConsoleAt
<1>2. ConsoleAt(x, n) = f /\ BlockSize(x) = b
  <2>1. x.shape = i.shape
    BY Kept
  <2>2. BlockSize(x) = b /\ SmcConfigBlock(x) = SmcConfigBlock(i)
    BY <2>1, SameShape
  <2>. QED BY <2>2 DEF ConsoleAt
<1>. HIDE DEF b
<1>3. ASSUME NEW v \in Names \ D, Width(v, i, p, x, q) > 0
      PROVE  Off(Place(v, i, p), Width(v, i, p, x, q), f, (f + b) - f)
  <2>. DEFINE g == Place(v, i, p)
              m == Width(v, i, p, x, q)
              e == Extent(v, i, p)
  <2>0. v # w
    BY <1>3
  <2>1. Zoned(i, v, g, e)
    BY Zones DEF Scene
  <2>2. CASE m = e
    <3>1. e > 0 /\ g \in Nat /\ e \in Nat
      BY <1>3, <2>1, <2>2 DEF Zoned
    <3>2. CASE v \in HeadNames \/ v \in ClaimNames
      <4>1. g + e <= \hF00000
        <5>. HIDE DEF g, m, e
        <5>. QED BY SMT, <2>1, <3>1, <3>2 DEF Zoned
      <4>2. Off(g, m, f, (f + b) - f)
        <5>. HIDE DEF g, m, e, f
        <5>. QED BY SMT, <1>1, <2>2, <3>1, <4>1 DEF Off
      <4>. QED BY <4>2
    <3>3. CASE v \in ConsoleNames
      <4>1. g \in {ConsoleAt(i, 0), ConsoleAt(i, 1), ConsoleAt(i, 2)}
        BY SMT, <3>3, Places DEF ConsoleNames
      <4>2. e = \h1000
        <5>1. e = kSettingsSpan
          BY <3>3
        <5>. HIDE DEF e
        <5>. QED BY SMT, <5>1 DEF kSettingsSpan
      <4>3. Place(v, i, p) # Place(w, i, p)
        <5>1. /\ Place("settings", i, p) = ConsoleAt(i, 0)
              /\ Place("statistics", i, p) = ConsoleAt(i, 1)
              /\ Place("manufacturing", i, p) = ConsoleAt(i, 2)
          BY SMT, Places
        <5>2. /\ ConsoleAt(i, 0) # ConsoleAt(i, 1) /\ ConsoleAt(i, 1) # ConsoleAt(i, 2)
              /\ ConsoleAt(i, 0) # ConsoleAt(i, 2)
          BY SMT, <1>1
        <5>. QED BY <2>0, <3>3, <5>1, <5>2 DEF ConsoleNames
      <4>4. g = f + b \/ g = f + 2 * b \/ g = f - b \/ g = f - 2 * b
        <5>1. g # f
          BY <4>3
        <5>2. n = 0 \/ n = 1 \/ n = 2
          BY SMT
        <5>3. g = f + n * b \/ g = f + (n - 1) * b \/ g = f + (n - 2) * b
          BY <1>1, <4>1
        <5>. HIDE DEF g, f
        <5>4. CASE n = 0
          BY SMT, <1>1, <5>1, <5>3, <5>4
        <5>5. CASE n = 1
          BY SMT, <1>1, <5>1, <5>3, <5>5
        <5>6. CASE n = 2
          BY SMT, <1>1, <5>1, <5>3, <5>6
        <5>. QED BY <5>2, <5>4, <5>5, <5>6
      <4>5. Off(g, m, f, (f + b) - f)
        <5>. HIDE DEF g, m, e, f
        <5>. QED BY SMT, <1>1, <2>2, <4>2, <4>4 DEF Off
      <4>. QED BY <4>5
    <3>4. CASE v \in AnchorNames
      <4>1. g \in {\h2FE8000, \h2FEC000}
        BY SMT, <3>4, Places DEF AnchorNames
      <4>2. e = On(i.shape = "emmc", \h4000)
        BY SMT, <3>4, Extents DEF AnchorNames
      <4>3. e = \h4000 /\ i.shape = "emmc"
        BY SMT, <3>1, <4>2 DEF On
      <4>4. Off(g, m, f, (f + b) - f)
        <5>. HIDE DEF g, m, e, f
        <5>. QED BY SMT, <1>1, <2>2, <4>1, <4>3 DEF Off
      <4>. QED BY <4>4
    <3>. QED BY <3>2, <3>3, <3>4
             DEF Names, FromChain, FromSlots, FromConsole, FromAnchors, FromPayloads, ClaimNames
  <2>3. CASE m # e
    <3>1. \/ m = \h1000 /\ g = \h90000
          \/ m = \h60 /\ g = p.overlay
      BY SMT, <2>3, WidthOf DEF Scene
    <3>2. p.overlay \in Nat /\ p.overlay <= \h150000
      BY SMT, Slots
    <3>3. Off(g, m, f, (f + b) - f)
      <4>. HIDE DEF g, m, f
      <4>. QED BY SMT, <1>1, <3>1, <3>2 DEF Off
    <3>. QED BY <3>3
  <2>. QED BY <2>2, <2>3
<1>4. Fine(i, f, (f + b) - f)
  <2>1. b \in Nat /\ b > 0
    BY SMT, <1>1
  <2>2. f \in Nat
    BY <1>1
  <2>. HIDE DEF f
  <2>3. (f + b) - f = b
    BY <2>1, <2>2
  <2>4. Clear(i, f, b)
    BY <1>0, <1>1, <2>1, ClearHigh DEF b
  <2>. QED BY <1>1, <2>1, <2>2, <2>3, <2>4 DEF Fine
<1>5. f \in Nat /\ f + b \in Nat
  BY SMT, <1>1
<1>. HIDE DEF f
<1>6. Spares(i, p, x, q, f, f + b, D)
  BY <1>3, <1>4, <1>5 DEF Spares
<1>7. Lays(Fill(f, f + b), Canvas(i, p, x, q), D, D)
  BY <1>6, LaysOver
<1>. QED BY <1>2, <1>7

LEMMA LaysConsole ==
  ASSUME NEW i, NEW p, NEW x, NEW q, Scene(i, p, x, q)
  PROVE  LET Block(n) == Fill(ConsoleAt(x, n), ConsoleAt(x, n) + BlockSize(x))
                         \o Item(ConsoleName[n + 1], ConsoleAt(x, n), kSettingsSpan)
         IN  Lays(IF x.console THEN Block(0) \o Block(1) \o Block(2) ELSE <<>>,
                  Canvas(i, p, x, q), Left(FromConsole, x, q), Left(FromAnchors, x, q))
<1>. DEFINE L == Canvas(i, p, x, q)
            A == FromConsole \ {"settings"}
            B == A \ {"statistics"}
            Block(n) == Fill(ConsoleAt(x, n), ConsoleAt(x, n) + BlockSize(x))
                        \o Item(ConsoleName[n + 1], ConsoleAt(x, n), kSettingsSpan)
            y == IF x.console THEN Block(0) \o Block(1) \o Block(2) ELSE <<>>
<1>0. /\ Extent("settings", i, p) = On(i.console, \h1000)
      /\ Extent("statistics", i, p) = On(i.console, \h1000)
      /\ Extent("manufacturing", i, p) = On(i.console, \h1000)
  BY SMT, Extents
<1>1. /\ Extent("settings", x, q) = On(x.console, \h1000)
      /\ Extent("statistics", x, q) = On(x.console, \h1000)
      /\ Extent("manufacturing", x, q) = On(x.console, \h1000)
  BY SMT, Extents
<1>2. CASE ~x.console
  <2>1. \A w \in ConsoleNames : Extent(w, x, q) = 0
    BY SMT, <1>1, <1>2 DEF On, ConsoleNames
  <2>2. Left(FromConsole, x, q) \subseteq Left(FromAnchors, x, q)
    BY <2>1 DEF Left, FromConsole
  <2>3. Lays(<<>>, L, Left(FromConsole, x, q), Left(FromAnchors, x, q))
    BY <2>2, LaysNone
  <2>4. y = <<>>
    BY <1>2
  <2>. QED BY <2>3, <2>4
<1>3. CASE x.console
  <2>1. /\ "settings" \in ConsoleNames /\ "statistics" \in ConsoleNames
        /\ "manufacturing" \in ConsoleNames /\ ConsoleNames \subseteq Names
        /\ B \ {"manufacturing"} \subseteq FromAnchors /\ ConsoleNames \subseteq FromConsole
    BY DEF ConsoleNames, FromConsole, FromSlots, FromChain, Names
  <2>2. /\ Extent("settings", x, q) = kSettingsSpan /\ Extent("statistics", x, q) = kSettingsSpan
        /\ Extent("manufacturing", x, q) = kSettingsSpan /\ kSettingsSpan # 0
    BY SMT, <1>1, <1>3 DEF On, kSettingsSpan
  <2>3. \A z, r : /\ Place("settings", z, r) = ConsoleAt(z, 0)
                  /\ Place("statistics", z, r) = ConsoleAt(z, 1)
                  /\ Place("manufacturing", z, r) = ConsoleAt(z, 2)
    BY SMT, Places
  <2>4. \A v \in ConsoleNames : Extent(v, i, p) = kSettingsSpan
    <3>1. x.console = i.console
      BY Kept
    <3>2. /\ Extent("settings", i, p) = On(x.console, \h1000)
          /\ Extent("statistics", i, p) = On(x.console, \h1000)
          /\ Extent("manufacturing", i, p) = On(x.console, \h1000)
      BY <1>0, <3>1
    <3>3. On(x.console, \h1000) = kSettingsSpan
      BY SMT, <1>3 DEF On, kSettingsSpan
    <3>. QED BY SMT, <3>2, <3>3 DEF ConsoleNames
  <2>5. 0 \in 0 .. 2 /\ 1 \in 0 .. 2 /\ 2 \in 0 .. 2
    OBVIOUS
  <2>6. /\ ConsoleName[0 + 1] = "settings" /\ ConsoleName[1 + 1] = "statistics"
        /\ ConsoleName[2 + 1] = "manufacturing"
    BY SMT DEF ConsoleName
  <2>7. Lays(Block(0), L, Left(FromConsole, x, q), Left(A, x, q))
    <3>1. "settings" \in Left(FromConsole, x, q)
      BY <2>1, <2>2 DEF Left
    <3>. HIDE DEF A
    <3>2. Lays(Fill(ConsoleAt(x, 0), ConsoleAt(x, 0) + BlockSize(x)), L,
               Left(FromConsole, x, q), Left(FromConsole, x, q))
      BY <2>1, <2>3, <2>4, <2>5, <3>1, LaysErase
    <3>3. Lays(Item("settings", ConsoleAt(x, 0), kSettingsSpan), L,
               Left(FromConsole, x, q), Left(A, x, q))
      BY <2>1, <2>2, <2>3, LaysName DEF A
    <3>. HIDE DEF L
    <3>. QED BY <2>6, <3>2, <3>3, LaysThen
  <2>8. Lays(Block(1), L, Left(A, x, q), Left(B, x, q))
    <3>1. "statistics" \in Left(A, x, q)
      BY <2>1, <2>2 DEF Left
    <3>. HIDE DEF A, B
    <3>2. Lays(Fill(ConsoleAt(x, 1), ConsoleAt(x, 1) + BlockSize(x)), L,
               Left(A, x, q), Left(A, x, q))
      BY <2>1, <2>3, <2>4, <2>5, <3>1, LaysErase
    <3>3. Lays(Item("statistics", ConsoleAt(x, 1), kSettingsSpan), L,
               Left(A, x, q), Left(B, x, q))
      BY <2>1, <2>2, <2>3, LaysName DEF B
    <3>. HIDE DEF L
    <3>. QED BY <2>6, <3>2, <3>3, LaysThen
  <2>9. Lays(Block(2), L, Left(B, x, q), Left(FromAnchors, x, q))
    <3>1. "manufacturing" \in Left(B, x, q)
      BY <2>1, <2>2 DEF Left
    <3>. HIDE DEF B
    <3>2. Lays(Fill(ConsoleAt(x, 2), ConsoleAt(x, 2) + BlockSize(x)), L,
               Left(B, x, q), Left(B, x, q))
      BY <2>1, <2>3, <2>4, <2>5, <3>1, LaysErase
    <3>3. Lays(Item("manufacturing", ConsoleAt(x, 2), kSettingsSpan), L,
               Left(B, x, q), Left(FromAnchors, x, q))
      BY <2>1, <2>2, <2>3, LaysName
    <3>. HIDE DEF L
    <3>. QED BY <2>6, <3>2, <3>3, LaysThen
  <2>10. y = (Block(0) \o Block(1)) \o Block(2)
    BY <1>3
  <2>. HIDE DEF L, A, B, Block, y
  <2>11. Lays(Block(0) \o Block(1), L, Left(FromConsole, x, q), Left(B, x, q))
    BY <2>7, <2>8, LaysThen
  <2>12. Lays((Block(0) \o Block(1)) \o Block(2), L, Left(FromConsole, x, q), Left(FromAnchors, x, q))
    BY <2>9, <2>11, LaysThen
  <2>13. Lays(y, L, Left(FromConsole, x, q), Left(FromAnchors, x, q))
    BY <2>10, <2>12
  <2>. QED BY <2>13 DEF L, y, Block
<1>. QED BY <1>2, <1>3

LEMMA LaysAnchors ==
  ASSUME NEW i, NEW p, NEW x, NEW q, Scene(i, p, x, q)
  PROVE  LET Anchor(n) == Item(AnchorName[n], kAnchorOffsets[n], \h4000)
         IN  Lays(IF x.shape = "emmc" THEN Anchor(1) \o Anchor(2) ELSE <<>>,
                  Canvas(i, p, x, q), Left(FromAnchors, x, q), Left(FromPayloads, x, q))
<1>. DEFINE L == Canvas(i, p, x, q)
            A == FromAnchors \ {"anchor1"}
            Anchor(n) == Item(AnchorName[n], kAnchorOffsets[n], \h4000)
            y == IF x.shape = "emmc" THEN Anchor(1) \o Anchor(2) ELSE <<>>
<1>1. /\ Extent("anchor1", x, q) = On(x.shape = "emmc", \h4000)
      /\ Extent("anchor2", x, q) = On(x.shape = "emmc", \h4000)
  BY SMT, Extents
<1>2. CASE x.shape # "emmc"
  <2>1. \A w \in AnchorNames : Extent(w, x, q) = 0
    BY SMT, <1>1, <1>2 DEF On, AnchorNames
  <2>2. Left(FromAnchors, x, q) \subseteq Left(FromPayloads, x, q)
    BY <2>1 DEF Left, FromAnchors
  <2>3. Lays(<<>>, L, Left(FromAnchors, x, q), Left(FromPayloads, x, q))
    BY <2>2, LaysNone
  <2>. HIDE DEF Anchor
  <2>4. y = <<>>
    BY <1>2
  <2>. HIDE DEF y
  <2>5. Lays(y, L, Left(FromAnchors, x, q), Left(FromPayloads, x, q))
    BY <2>3, <2>4
  <2>. QED BY SMT, <2>5 DEF y, Anchor
<1>3. CASE x.shape = "emmc"
  <2>1. "anchor1" \in Names /\ "anchor2" \in Names /\ A \ {"anchor2"} \subseteq FromPayloads
    BY DEF AnchorNames, FromAnchors, FromConsole, FromSlots, FromChain, Names
  <2>2. /\ AnchorName[1] = "anchor1" /\ AnchorName[2] = "anchor2"
    BY SMT DEF AnchorName
  <2>3. /\ kAnchorOffsets[1] = Place("anchor1", x, q) /\ \h4000 = Extent("anchor1", x, q)
        /\ kAnchorOffsets[2] = Place("anchor2", x, q) /\ \h4000 = Extent("anchor2", x, q)
    BY SMT, <1>1, <1>3, Places DEF On, kAnchorOffsets
  <2>4. Lays(Anchor(1), L, Left(FromAnchors, x, q), Left(A, x, q))
    BY <2>1, <2>2, <2>3, LaysName
  <2>5. Lays(Anchor(2), L, Left(A, x, q), Left(FromPayloads, x, q))
    <3>. HIDE DEF A
    <3>. QED BY <2>1, <2>2, <2>3, LaysName
  <2>6. y = Anchor(1) \o Anchor(2)
    BY <1>3
  <2>. HIDE DEF L, A, y, Anchor
  <2>7. Lays(y, L, Left(FromAnchors, x, q), Left(FromPayloads, x, q))
    BY <2>4, <2>5, <2>6, LaysThen
  <2>. QED BY <2>7 DEF L, y, Anchor
<1>. QED BY <1>2, <1>3

---------------------------------------------------------------------------
(* The fills of a JTAG image, and those of its payloads.                   *)

\* The plan of a JTAG image.
LEMMA JtagPlan ==
  ASSUME NEW i, i \in ImageRecord, Assembled(i), NEW p, Accepted(i, p), i.type = "jtag"
  PROVE  /\ p.base = \h70000 /\ p.stride = \h10000 /\ p.overlay = \h80000 /\ p.window = \h90000
         /\ p.xell = \h95060 /\ p.fuses = \h95000 /\ p.jtag
         /\ i.patch \in {"none", "jtag"}
<1>1. PlanFor(i, p)
  BY DEF Accepted
<1>2. i.patch \in {"none", "jtag"}
  BY PatchOfType
<1>3. ~Manufacturing(i)
  <2>1. i.mfg => i.patch = "glitch"
    BY DEF Assembled
  <2>. QED BY <1>2, <2>1 DEF Manufacturing
<1>4. p.jtag
  BY <1>1 DEF PlanFor
<1>. QED BY SMT, <1>1, <1>2, <1>3, <1>4 DEF PlanFor

\* The CF and CG of the first slot end with it.
LEMMA FirstSlotEnds ==
  ASSUME NEW i, i \in ImageRecord, NEW p, Accepted(i, p), NEW w \in {"CF0", "CG0"},
         Extent(w, i, p) > 0
  PROVE  Place(w, i, p) + Extent(w, i, p) <= p.base + p.stride
<1>. DEFINE t == p.stride
<1>1. PlanFor(i, p)
  BY DEF Accepted
<1>2. p.base \in Nat /\ t \in Nat
  BY SMT, <1>1 DEF PlanFor
<1>3. /\ Extent("CF0", i, p) = i.cf[0] /\ Place("CF0", i, p) = p.base
      /\ Extent("CG0", i, p) = On(i.cf[0] # 0, CgRoom(i, p, 0)) /\ Place("CG0", i, p) = CgAt(i, p, 0)
  BY SMT, Places, Extents
<1>4. i.cf[0] \in Nat /\ Sized(i.cf[0]) /\ Sized(i.cg[0])
  BY SMT, Sizes DEF Sized
<1>5. i.cf[0] # 0 => i.cf[0] <= t
  <2>1. Align16(i.cf[0]) \in Nat /\ Align16(i.cf[0]) >= i.cf[0]
    BY <1>4, Rounding
  <2>2. i.cf[0] # 0 => Align16(i.cf[0]) <= t
    BY DEF Accepted
  <2>. QED BY SMT, <1>2, <1>4, <2>1, <2>2
<1>6. CgAt(i, p, 0) \in Nat /\ CgRoom(i, p, 0) \in Nat
      /\ (CgRoom(i, p, 0) > 0 => CgAt(i, p, 0) + CgRoom(i, p, 0) <= p.base + t)
  <2>1. (0 + 1) * t = t
    BY SMT, <1>2
  <2>2. CgRoom(i, p, 0) > 0 => CgAt(i, p, 0) + CgRoom(i, p, 0) <= p.base + (0 + 1) * p.stride
    BY <1>2, <1>4, RoomOfCg
  <2>3. CgAt(i, p, 0) \in Nat /\ CgRoom(i, p, 0) \in Nat
    BY <1>2, <1>4, RoomOfCg
  <2>. QED BY <2>1, <2>2, <2>3
<1>7. CASE w = "CF0"
  BY SMT, <1>2, <1>3, <1>4, <1>5, <1>7
<1>8. CASE w = "CG0"
  <2>1. Extent(w, i, p) = CgRoom(i, p, 0)
    BY SMT, <1>3, <1>8 DEF On
  <2>. QED BY SMT, <1>2, <1>3, <1>6, <1>8, <2>1
<1>. QED BY <1>7, <1>8

\* Where the items of a JTAG image lie.
JtagItem(i, p, w, f, l) ==
  \/ w \in HeadNames \cup {"payload"} /\ f + l <= \h8000
  \/ w \in {"chain"} \cup SlotNames /\ f + l <= \h90000 /\ (p.glitch => f + l <= \h80000)
  \/ w = "rebooter" /\ f = \h90000 /\ l = i.rebooter /\ l <= \h1000
  \/ w = "patch" /\ f = \h91000 /\ l = i.patchSize
  \/ w = "fuses" /\ f = \h95000 /\ l = \h60
  \/ w = "xell" /\ f = \h95060 /\ l = \h40000
  \/ w = "extraCb" /\ f = \hD5060 /\ l = i.extraCb
  \/ w = "extraCd" /\ f = \hD5060 + Align16(i.extraCb) /\ l = i.extraCd
  \/ w \in LateNames /\ f >= \hF00000

LEMMA JtagItems ==
  ASSUME NEW i, i \in ImageRecord, Assembled(i), NEW p, Accepted(i, p), i.type = "jtag",
         NEW w \in Names, Extent(w, i, p) > 0
  PROVE  JtagItem(i, p, w, Place(w, i, p), Extent(w, i, p))
<1>. DEFINE f == Place(w, i, p)
            l == Extent(w, i, p)
<1>1. Zoned(i, w, f, l)
  BY Zones
<1>2. f \in Nat /\ l \in Nat /\ l > 0
  BY SMT, <1>1 DEF Zoned
<1>3. /\ p.base = \h70000 /\ p.stride = \h10000 /\ p.overlay = \h80000 /\ p.window = \h90000
      /\ p.xell = \h95060 /\ p.fuses = \h95000 /\ p.jtag /\ i.patch \in {"none", "jtag"}
  BY SMT, JtagPlan
<1>4. CASE w \in HeadNames
  <2>1. f + l <= \h8000
    <3>. HIDE DEF f, l
    <3>. QED BY SMT, <1>1, <1>2, <1>4 DEF Zoned
  <2>. QED BY <1>4, <2>1 DEF JtagItem
<1>5. CASE w = "payload"
  <2>1. f = \h200 /\ l = On(i.payload, \h200)
    BY SMT, <1>5, Places, Extents
  <2>2. f + l <= \h8000
    BY SMT, <2>1 DEF On
  <2>. QED BY <1>5, <2>2 DEF JtagItem
<1>6. CASE w = "chain"
  <2>1. f = \h8000 /\ l = Align16(i.chain)
    BY SMT, <1>6, Places, Extents
  <2>2. kEntryOffset + Align16(i.chain) <= p.overlay
    BY DEF Accepted
  <2>3. f + l <= \h80000
    BY SMT, <1>3, <2>1, <2>2 DEF kEntryOffset
  <2>4. f + l <= \h90000
    <3>. HIDE DEF f, l
    <3>. QED BY SMT, <1>2, <2>3
  <2>. QED BY SMT, <1>6, <2>3, <2>4 DEF JtagItem
<1>7. CASE w \in SlotNames
  <2>1. f + l <= p.base + 2 * p.stride
    BY <1>2, <1>7, SlotEnds
  <2>2. f + l <= \h90000
    <3>. HIDE DEF f, l
    <3>. QED BY SMT, <1>2, <1>3, <2>1
  <2>3. ASSUME p.glitch PROVE f + l <= \h80000
    <3>1. CASE w \in {"CF0", "CG0"}
      <4>1. f + l <= p.base + p.stride
        BY <1>2, <3>1, FirstSlotEnds
      <4>. HIDE DEF f, l
      <4>. QED BY SMT, <1>2, <1>3, <4>1
    <3>2. CASE w \in {"CF1", "CG1"}
      <4>1. i.cf[1] = 0
        BY <2>3 DEF Accepted
      <4>2. l = 0
        BY SMT, <3>2, <4>1, Extents DEF On
      <4>. QED BY <1>2, <4>2
    <3>. QED BY <1>7, <3>1, <3>2 DEF SlotNames
  <2>. HIDE DEF f, l
  <2>4. JtagItem(i, p, w, f, l)
    BY SMT, <1>7, <2>2, <2>3 DEF JtagItem
  <2>. QED BY <2>4 DEF f, l
<1>8. CASE w = "rebooter"
  <2>1. f = \h90000 /\ l = i.rebooter
    BY SMT, <1>3, <1>8, Places, Extents
  <2>2. i.rebooter <= \h1000
    BY DEF Accepted
  <2>. QED BY SMT, <1>8, <2>1, <2>2 DEF JtagItem
<1>9. CASE w = "patch"
  <2>1. l = On(i.patch # "none", i.patchSize)
    BY SMT, <1>9, Extents
  <2>2. l = i.patchSize /\ i.patch = "jtag"
    BY SMT, <1>2, <1>3, <2>1 DEF On
  <2>3. f = \h91000
    BY SMT, <1>3, <1>9, <2>2, Places DEF PatchAt
  <2>. QED BY SMT, <1>9, <2>2, <2>3 DEF JtagItem
<1>10. CASE w = "fuses"
  <2>1. f = \h95000 /\ l = On(i.fuses, \h60)
    BY SMT, <1>3, <1>10, Places, Extents
  <2>2. l = \h60
    BY SMT, <1>2, <2>1 DEF On
  <2>. QED BY SMT, <1>10, <2>1, <2>2 DEF JtagItem
<1>11. CASE w = "xell"
  <2>1. f = \h95060 /\ l = On(i.xell, \h40000)
    BY SMT, <1>3, <1>11, Places, Extents
  <2>2. l = \h40000
    BY SMT, <1>2, <2>1 DEF On
  <2>. QED BY SMT, <1>11, <2>1, <2>2 DEF JtagItem
<1>12. CASE w \in SecondNames
  <2>1. ExtraCbAt(p) = \hD5060 /\ ExtraCdAt(i, p) = \hD5060 + Align16(i.extraCb)
    BY SMT, <1>3 DEF ExtraCbAt, ExtraCdAt, kXellSize
  <2>2. \/ w = "extraCb" /\ f = \hD5060 /\ l = On(p.jtag, i.extraCb)
        \/ w = "extraCd" /\ f = \hD5060 + Align16(i.extraCb) /\ l = On(p.jtag, i.extraCd)
    BY SMT, <1>12, <2>1, Places, Extents DEF SecondNames
  <2>3. \/ w = "extraCb" /\ f = \hD5060 /\ l = i.extraCb
        \/ w = "extraCd" /\ f = \hD5060 + Align16(i.extraCb) /\ l = i.extraCd
    BY SMT, <1>2, <2>2 DEF On
  <2>. QED BY SMT, <2>3 DEF JtagItem
<1>13. CASE w \in LateNames
  <2>1. f >= \hF00000
    BY SMT, <1>1, <1>2, <1>13 DEF Zoned
  <2>. QED BY SMT, <1>13, <2>1 DEF JtagItem
<1>. QED BY <1>4, <1>5, <1>6, <1>7, <1>8, <1>9, <1>10, <1>11, <1>12, <1>13
     DEF Names, FromChain, FromSlots, FromConsole, FromAnchors, FromPayloads, FromPatch,
         LateNames, PayloadNames

\* A fill of a JTAG image that meets none of its items.
LEMMA JtagFill ==
  ASSUME NEW i, NEW p, Scene(i, p, i, p), i.type = "jtag", NEW f, f \in Nat, NEW t, t \in Nat,
         f < t => Fine(i, f, t - f),
         \A w \in Names, g \in Nat, m \in Nat \ {0} :
            JtagItem(i, p, w, g, m) /\ Extent(w, i, p) = m => Off(g, m, f, t - f),
         NEW D
  PROVE  Lays(Fill(f, t), Canvas(i, p, i, p), D, D)
<1>1. ASSUME NEW w \in Names \ D, Width(w, i, p, i, p) > 0
      PROVE  Off(Place(w, i, p), Width(w, i, p, i, p), f, t - f)
  <2>. DEFINE g == Place(w, i, p)
              m == Extent(w, i, p)
  <2>1. Width(w, i, p, i, p) = m
    BY FirstWidth
  <2>2. g \in Nat /\ m \in Nat /\ m > 0
    BY <1>1, <2>1, Zones DEF Scene, Zoned
  <2>3. JtagItem(i, p, w, g, m)
    BY <2>2, JtagItems DEF Scene
  <2>4. m \in Nat \ {0}
    BY <2>2
  <2>5. Off(g, m, f, t - f)
    BY <2>2, <2>3, <2>4
  <2>. QED BY <2>1, <2>5
<1>2. Spares(i, p, i, p, f, t, D)
  BY <1>1 DEF Spares
<1>. QED BY <1>2, LaysOver

\* Clearing the second slot harms nothing but what is laid there afterwards.
LEMMA LaysOverlay ==
  ASSUME NEW i, NEW p, NEW x, NEW q, Scene(i, p, x, q), q.glitch, x.patch # "none"
  PROVE  Lays(Fill(q.overlay, q.overlay + q.stride), Canvas(i, p, x, q),
              Left(FromPayloads, x, q), Left(FromPayloads, x, q))
<1>. DEFINE D == Left(FromPayloads, x, q)
            v == p.overlay
            t == p.stride
<1>1. q.overlay = v /\ q.stride = t
  BY Kept
<1>2. v \in Nat /\ t \in {\h10000, \h20000} /\ v = p.base + t
  BY SMT, Slots
<1>3. CASE x = i /\ q = p /\ i.patch = "jtag"
  <2>1. i.type = "jtag"
    BY <1>3, PatchOfType DEF Scene
  <2>2. v = \h80000 /\ t = \h10000
    BY SMT, <2>1, JtagPlan DEF Scene
  <2>3. v < v + t => Fine(i, v, (v + t) - v)
    <3>1. v + t <= p.base + 2 * p.stride
      BY SMT, <1>2, Slots
    <3>2. v + t \in Nat /\ v \in Nat
      BY SMT, <1>2
    <3>. HIDE DEF v, t
    <3>. QED BY <3>1, <3>2, FineLow
  <2>4. ASSUME NEW w \in Names, NEW g \in Nat, NEW m \in Nat \ {0}, JtagItem(i, p, w, g, m),
               Extent(w, i, p) = m
        PROVE  Off(g, m, v, (v + t) - v)
    <3>1. p.glitch
      BY <1>3
    <3>2. w = "extraCd" => g >= \hD5060
      <4>1. Align16(i.extraCb) \in Nat
        <5>1. i.extraCb \in Nat
          BY SMT, Sizes DEF Scene, Sized
        <5>. QED BY <5>1, Rounding
      <4>. QED BY SMT, <2>4, <4>1
               DEF JtagItem, HeadNames, SlotNames, LateNames, ConsoleNames, AnchorNames
    <3>3. m \in Nat
      OBVIOUS
    <3>. HIDE DEF v, t
    <3>. QED BY SMT, <2>2, <2>4, <3>1, <3>2, <3>3 DEF JtagItem, Off
  <2>5. v \in Nat /\ v + t \in Nat
    BY SMT, <1>2
  <2>. HIDE DEF v, t, D
  <2>6. Lays(Fill(v, v + t), Canvas(i, p, i, p), D, D)
    BY <1>3, <2>1, <2>3, <2>4, <2>5, JtagFill
  <2>. QED BY <1>1, <1>3, <2>6 DEF D
<1>4. CASE i.patch = "glitch"
  <2>1. Fine(i, v, (v + t) - v)
    <3>1. v + t <= p.base + 2 * p.stride
      BY SMT, <1>2, Slots
    <3>2. v + t \in Nat /\ v \in Nat /\ v < v + t
      BY SMT, <1>2
    <3>. HIDE DEF v, t
    <3>. QED BY <3>1, <3>2, FineLow
  <2>2. ASSUME NEW w \in Names \ D, Width(w, i, p, x, q) > 0
        PROVE  Off(Place(w, i, p), Width(w, i, p, x, q), v, (v + t) - v)
    <3>1. w # "patch" /\ (w = "fuses" => ~Manufacturing(i)) /\ (w = "rebooter" => i.type # "devkit")
      <4>0. {"patch", "fuses", "rebooter"} \subseteq FromPayloads
        BY DEF FromPayloads, PayloadNames, FromPatch
      <4>1. CASE x = i /\ q = p
        <5>1. w \notin FromPayloads
          BY <2>2, <4>1, LeftFirst
        <5>. QED BY <4>0, <5>1
      <4>2. CASE ReadFrom(i, p, x, q)
        <5>1. /\ x.patch = "glitch" /\ x.patchSize = i.patchSize /\ i.patchSize > 4
              /\ i.type # "devkit" /\ (Manufacturing(i) => x.fuses)
          BY <4>2 DEF ReadFrom
        <5>2. Extent("patch", x, q) = On(x.patch # "none", x.patchSize)
              /\ Extent("fuses", x, q) = On(x.fuses, \h60)
          BY SMT, Extents
        <5>3. Extent("patch", x, q) # 0
          <6>1. i.patchSize # 0
            BY SMT, <5>1
          <6>. QED BY <5>1, <5>2, <6>1 DEF On
        <5>4. Manufacturing(i) => Extent("fuses", x, q) # 0
          BY SMT, <5>1, <5>2 DEF On
        <5>. QED BY <2>2, <4>0, <5>1, <5>3, <5>4 DEF Left
      <4>. QED BY <4>1, <4>2, Passes
    <3>2. Width(w, i, p, x, q) = Extent(w, i, p)
      BY SMT, <1>4, <3>1, WidthOf DEF Scene
    <3>3. Off(Place(w, i, p), Extent(w, i, p), v, t)
      <4>1. Extent(w, i, p) > 0
        BY <2>2, <3>2
      <4>. QED BY <1>4, <3>1, <4>1, OverlayRoom DEF Scene
    <3>4. (v + t) - v = t
      BY SMT, <1>2
    <3>. QED BY <3>2, <3>3, <3>4
  <2>3. v \in Nat /\ v + t \in Nat
    BY SMT, <1>2
  <2>. HIDE DEF v, t, D
  <2>4. Spares(i, p, x, q, v, v + t, D)
    BY <2>1, <2>2, <2>3 DEF Spares
  <2>5. Lays(Fill(v, v + t), Canvas(i, p, x, q), D, D)
    BY <2>4, LaysOver
  <2>. QED BY <1>1, <2>5 DEF D
<1>5. (x = i /\ q = p /\ i.patch = "jtag") \/ i.patch = "glitch"
  <2>1. CASE x = i /\ q = p
    <3>1. i.patch \in {"none", "jtag", "glitch"}
      BY SMT, Sizes DEF Scene
    <3>. QED BY <2>1, <3>1
  <2>2. CASE ReadFrom(i, p, x, q)
    BY <2>2 DEF ReadFrom
  <2>. QED BY <2>1, <2>2, Passes
<1>. QED BY <1>3, <1>4, <1>5

\* Nor does the fill behind a JTAG image's rebooter.
LEMMA LaysBehindRebooter ==
  ASSUME NEW i, NEW p, NEW x, NEW q, Scene(i, p, x, q), x.rebooter # 0, q.jtag, NEW D
  PROVE  Lays(Fill(q.window + x.rebooter, q.window + \h1000), Canvas(i, p, x, q), D, D)
<1>0. q.window = \h90000
  BY SMT, Slots, Kept
<1>1. CASE x = i /\ q = p
  <2>. DEFINE r == i.rebooter
              f == \h90000 + r
              t == \h91000
  <2>1. i.type = "jtag"
    <3>1. PlanFor(i, p)
      BY DEF Scene, Accepted
    <3>. QED BY <1>1, <3>1 DEF PlanFor
  <2>2. r \in Nat /\ r # 0 /\ r <= \h1000
    <3>1. r \in Nat
      BY SMT, Sizes DEF Scene, Sized
    <3>2. r <= \h1000
      BY DEF Scene, Accepted
    <3>. QED BY <1>1, <3>1, <3>2
  <2>3. f \in Nat /\ t \in Nat
    BY SMT, <2>2
  <2>4. f < t => Fine(i, f, t - f)
    <3>1. "rebooter" \in Names
      BY DEF Names, FromChain, FromSlots, FromConsole, FromAnchors, FromPayloads, PayloadNames
    <3>2. Place("rebooter", i, p) = \h90000 /\ Extent("rebooter", i, p) = r
      BY SMT, <1>0, <1>1, Places, Extents
    <3>3. Fine(i, \h90000, r)
      <4>1. Extent("rebooter", i, p) > 0
        BY SMT, <2>2, <3>2
      <4>2. Fine(i, Place("rebooter", i, p), Extent("rebooter", i, p))
        BY <3>1, <4>1, FineItem DEF Scene
      <4>. QED BY SMT, <3>2, <4>2
    <3>. DEFINE z == \h90000
    <3>4. f < t => Covered(f, t - f, z, r)
      BY SMT, <2>2 DEF Covered
    <3>5. t <= ImageSize(i)
      BY SMT, Shape DEF Scene
    <3>6. Fine(i, z, r)
      BY SMT, <3>3
    <3>. HIDE DEF z, r, t, f
    <3>. QED BY <1>1, <2>3, <3>4, <3>5, <3>6, FineBy
  <2>5. ASSUME NEW w \in Names, NEW g \in Nat, NEW m \in Nat \ {0}, JtagItem(i, p, w, g, m),
               Extent(w, i, p) = m
        PROVE  Off(g, m, f, t - f)
    <3>1. Align16(i.extraCb) \in Nat
      <4>1. i.extraCb \in Nat
        BY SMT, Sizes DEF Scene, Sized
      <4>. QED BY <4>1, Rounding
    <3>2. m \in Nat
      OBVIOUS
    <3>. QED BY SMT, <2>2, <2>5, <3>1, <3>2 DEF JtagItem, Off
  <2>. HIDE DEF f, t
  <2>6. Lays(Fill(f, t), Canvas(i, p, i, p), D, D)
    BY <1>1, <2>1, <2>3, <2>4, <2>5, JtagFill
  <2>7. q.window + x.rebooter = f /\ q.window + \h1000 = t
    BY SMT, <1>0, <1>1 DEF f, t
  <2>. QED BY <1>1, <2>6, <2>7
<1>2. CASE ReadFrom(i, p, x, q)
  <2>1. x.rebooter = \h1000
    BY SMT, <1>2 DEF ReadFrom
  <2>2. q.window + x.rebooter >= q.window + \h1000
    BY SMT, <1>0, <2>1
  <2>3. Fill(q.window + x.rebooter, q.window + \h1000) = <<>>
    BY SMT, <2>2 DEF Fill
  <2>. QED BY <2>3, LaysNone
<1>. QED BY <1>1, <1>2, Passes

LEMMA LaysPayloads ==
  ASSUME NEW i, NEW p, NEW x, NEW q, Scene(i, p, x, q)
  PROVE  Lays((IF q.glitch /\ x.patch # "none"
               THEN Fill(q.overlay, q.overlay + q.stride) ELSE <<>>)
              \o Item("payload", \h200, On(x.payload, kSmcPayloadSize))
              \o Item("rebooter", q.window, x.rebooter)
              \o (IF x.rebooter # 0 /\ q.jtag
                  THEN Fill(q.window + x.rebooter, q.window + \h1000) ELSE <<>>)
              \o Item("fuses", q.fuses, On(x.fuses, kFuseSize))
              \o Item("xell", q.xell, On(x.xell, kXellSize)),
              Canvas(i, p, x, q), Left(FromPayloads, x, q), Left(FromPatch, x, q))
<1>. DEFINE L == Canvas(i, p, x, q)
            Y == FromPayloads
            A == Y \ {"payload"}
            B == A \ {"rebooter"}
            C == B \ {"fuses"}
            y == IF q.glitch /\ x.patch # "none" THEN Fill(q.overlay, q.overlay + q.stride) ELSE <<>>
            z == IF x.rebooter # 0 /\ q.jtag
                 THEN Fill(q.window + x.rebooter, q.window + \h1000) ELSE <<>>
            a == Item("payload", \h200, On(x.payload, kSmcPayloadSize))
            b == Item("rebooter", q.window, x.rebooter)
            c == Item("fuses", q.fuses, On(x.fuses, kFuseSize))
            d == Item("xell", q.xell, On(x.xell, kXellSize))
<1>1. /\ "payload" \in Names /\ "rebooter" \in Names /\ "fuses" \in Names /\ "xell" \in Names
      /\ C \ {"xell"} \subseteq FromPatch
  BY DEF Names, FromChain, FromSlots, FromConsole, FromAnchors, FromPayloads, PayloadNames
<1>2. Lays(y, L, Left(Y, x, q), Left(Y, x, q))
  <2>1. CASE q.glitch /\ x.patch # "none"
    BY <2>1, LaysOverlay
  <2>2. CASE ~(q.glitch /\ x.patch # "none")
    BY <2>2, LaysNone
  <2>. QED BY <2>1, <2>2
<1>3. Lays(a, L, Left(Y, x, q), Left(A, x, q))
  <2>1. \h200 = Place("payload", x, q) /\ On(x.payload, kSmcPayloadSize) = Extent("payload", x, q)
    BY SMT, Places, Extents DEF kSmcPayloadSize
  <2>. HIDE DEF Y
  <2>. QED BY <1>1, <2>1, LaysName
<1>4. Lays(b, L, Left(A, x, q), Left(B, x, q))
  <2>1. q.window = Place("rebooter", x, q) /\ x.rebooter = Extent("rebooter", x, q)
    BY SMT, Places, Extents
  <2>. HIDE DEF A
  <2>. QED BY <1>1, <2>1, LaysName
<1>5. Lays(z, L, Left(B, x, q), Left(B, x, q))
  <2>. HIDE DEF B, L
  <2>1. CASE x.rebooter # 0 /\ q.jtag
    <3>1. Lays(Fill(q.window + x.rebooter, q.window + \h1000), L, Left(B, x, q), Left(B, x, q))
      BY <2>1, LaysBehindRebooter DEF L
    <3>. QED BY <2>1, <3>1
  <2>2. CASE ~(x.rebooter # 0 /\ q.jtag)
    BY <2>2, LaysNone
  <2>. QED BY <2>1, <2>2
<1>6. Lays(c, L, Left(B, x, q), Left(C, x, q))
  <2>1. q.fuses = Place("fuses", x, q) /\ On(x.fuses, kFuseSize) = Extent("fuses", x, q)
    BY SMT, Places, Extents DEF kFuseSize
  <2>. HIDE DEF B
  <2>. QED BY <1>1, <2>1, LaysName
<1>7. Lays(d, L, Left(C, x, q), Left(FromPatch, x, q))
  <2>1. q.xell = Place("xell", x, q) /\ On(x.xell, kXellSize) = Extent("xell", x, q)
    BY SMT, Places, Extents DEF kXellSize
  <2>. HIDE DEF C
  <2>. QED BY <1>1, <2>1, LaysName
<1>. HIDE DEF L, Y, A, B, C, a, b, c, d, y, z
<1>8. Lays(y \o a, L, Left(Y, x, q), Left(A, x, q))
  BY <1>2, <1>3, LaysThen
<1>9. Lays((y \o a) \o b, L, Left(Y, x, q), Left(B, x, q))
  BY <1>4, <1>8, LaysThen
<1>10. Lays(((y \o a) \o b) \o z, L, Left(Y, x, q), Left(B, x, q))
  BY <1>5, <1>9, LaysThen
<1>11. Lays((((y \o a) \o b) \o z) \o c, L, Left(Y, x, q), Left(C, x, q))
  BY <1>6, <1>10, LaysThen
<1>12. Lays(((((y \o a) \o b) \o z) \o c) \o d, L, Left(Y, x, q), Left(FromPatch, x, q))
  BY <1>7, <1>11, LaysThen
<1>. QED BY <1>12 DEF L, Y, a, b, c, d, y, z

---------------------------------------------------------------------------
(* The patches and what is laid behind them.                               *)

\* The patches an image has, or has kept.
LEMMA PatchKept ==
  ASSUME NEW i, NEW p, NEW x, NEW q, Scene(i, p, x, q), x.patch # "none"
  PROVE  /\ x.patch = i.patch /\ x.patchSize = i.patchSize
         /\ i.patchSize \in Nat /\ i.patchSize >= 4
         /\ i.patch = "jtag" => /\ x = i /\ q = p /\ i.type = "jtag" /\ i.patchSize <= \h3000
         /\ i.patch # "jtag" => i.patch = "glitch" /\ q.prefix = p.prefix
         /\ Extent("patch", x, q) = i.patchSize
<1>1. i.patch \in {"none", "jtag", "glitch"} /\ i.patchSize \in Nat
  BY SMT, Sizes DEF Scene, Sized
<1>2. \/ x = i /\ q = p
      \/ x.patch = "glitch" /\ i.patch = "glitch" /\ x.patchSize = i.patchSize /\ q.prefix = p.prefix
  <2>1. CASE ReadFrom(i, p, x, q)
    BY <2>1 DEF ReadFrom
  <2>. QED BY <2>1, Passes
<1>3. i.patch # "none"
  BY <1>2
<1>4. i.patchSize >= 4
  BY <1>3 DEF Scene, Assembled
<1>5. i.patch = "jtag" => i.type = "jtag" /\ i.patchSize <= \h3000
  <2>1. i.patch = "jtag" => i.type = "jtag"
    BY PatchOfType DEF Scene
  <2>2. i.patch = "jtag" => i.patchSize <= \h3000
    BY DEF Scene, PatchesInBlock
  <2>. QED BY <2>1, <2>2
<1>6. x.patch = i.patch /\ x.patchSize = i.patchSize
  BY <1>2
<1>7. Extent("patch", x, q) = i.patchSize
  <2>1. Extent("patch", x, q) = On(x.patch # "none", x.patchSize)
    BY SMT, Extents
  <2>. QED BY <1>6, <2>1 DEF On
<1>. QED BY <1>1, <1>2, <1>3, <1>4, <1>5, <1>6, <1>7

\* The payloads' places, were there such a payload or not.
LEMMA PayloadPlaces ==
  ASSUME NEW i, NEW p, NEW x, NEW q, Scene(i, p, x, q), NEW w \in {"xell", "rebooter", "fuses"}
  PROVE  Place(w, x, q) \in Nat
<1>1. CASE x = i /\ q = p
  <2>1. w \in Names
    BY DEF Names, FromChain, FromSlots, FromConsole, FromAnchors, FromPayloads, PayloadNames
  <2>2. Place(w, i, p) \in Nat
    BY <2>1, Widths DEF Scene
  <2>. QED BY <1>1, <2>2
<1>2. CASE ReadFrom(i, p, x, q)
  <2>1. q.xell \in Nat /\ q.fuses \in Nat
    BY <1>2 DEF ReadFrom
  <2>2. q.window \in Nat
    BY SMT, Slots, Kept
  <2>3. /\ Place("xell", x, q) = q.xell /\ Place("rebooter", x, q) = q.window
        /\ Place("fuses", x, q) = q.fuses
    BY SMT, Places
  <2>. QED BY <2>1, <2>2, <2>3
<1>. QED BY <1>1, <1>2, Passes

\* lay_patch_payload does not refuse the patches.
LEMMA PatchFits ==
  ASSUME NEW i, NEW p, NEW x, NEW q, Scene(i, p, x, q), x.patch # "none"
  PROVE  LET at == IF x.patch = "jtag" THEN q.window + \h1000 ELSE q.overlay + q.prefix
             room == IF x.patch = "jtag" THEN kJTAGPatchesSize ELSE q.stride - q.prefix
             patch == Piece("patch", at, x.patchSize)
             neighbours == {Piece("xell", q.xell, On(x.xell, kXellSize)),
                            Piece("rebooter", q.window, x.rebooter),
                            Piece("fuses", q.fuses, On(x.fuses, kFuseSize))}
         IN  ~(\/ x.patchSize > room
               \/ \E n \in neighbours : n.from < n.to /\ Overlap(patch, n))
<1>. DEFINE at == IF x.patch = "jtag" THEN q.window + \h1000 ELSE q.overlay + q.prefix
            room == IF x.patch = "jtag" THEN kJTAGPatchesSize ELSE q.stride - q.prefix
            patch == Piece("patch", at, x.patchSize)
            neighbours == {Piece("xell", q.xell, On(x.xell, kXellSize)),
                           Piece("rebooter", q.window, x.rebooter),
                           Piece("fuses", q.fuses, On(x.fuses, kFuseSize))}
            Of(w) == Piece(w, Place(w, x, q), Extent(w, x, q))
<1>1. /\ x.patch = i.patch /\ x.patchSize = i.patchSize
      /\ i.patchSize \in Nat /\ i.patchSize >= 4
      /\ i.patch = "jtag" => i.patchSize <= \h3000
      /\ i.patch # "jtag" => i.patch = "glitch" /\ q.prefix = p.prefix
      /\ Extent("patch", x, q) = i.patchSize
  BY PatchKept
<1>2. ~(x.patchSize > room)
  <2>1. CASE i.patch = "jtag"
    BY SMT, <1>1, <2>1 DEF kJTAGPatchesSize
  <2>2. CASE i.patch # "jtag"
    <3>1. i.patchSize <= p.stride - p.prefix
      BY <1>1, <2>2 DEF Scene, Accepted
    <3>2. q.stride = p.stride
      BY Kept
    <3>3. p.stride - p.prefix \in Int
      <4>1. PlanFor(i, p)
        BY DEF Scene, Accepted
      <4>2. p.prefix \in {\h10, \h60} /\ p.stride \in {\h10000, \h20000}
        BY SMT, <4>1 DEF PlanFor
      <4>. QED BY SMT, <4>2
    <3>. DEFINE m == p.stride - p.prefix
    <3>4. room = m /\ x.patchSize <= m /\ x.patchSize \in Nat
      BY <1>1, <2>2, <3>1, <3>2
    <3>5. m \in Int
      BY <3>3
    <3>. HIDE DEF m, room
    <3>. QED BY SMT, <3>4, <3>5
  <2>. QED BY <2>1, <2>2
<1>3. neighbours = {Of("xell"), Of("rebooter"), Of("fuses")}
  <2>1. /\ q.xell = Place("xell", x, q) /\ On(x.xell, kXellSize) = Extent("xell", x, q)
        /\ q.window = Place("rebooter", x, q) /\ x.rebooter = Extent("rebooter", x, q)
        /\ q.fuses = Place("fuses", x, q) /\ On(x.fuses, kFuseSize) = Extent("fuses", x, q)
    BY SMT, Places, Extents DEF kXellSize, kFuseSize
  <2>. QED BY <2>1
<1>4. /\ "xell" \in Names /\ "rebooter" \in Names /\ "fuses" \in Names /\ "patch" \in Names
  BY DEF Names, FromChain, FromSlots, FromConsole, FromAnchors, FromPayloads, PayloadNames, FromPatch
<1>5. patch = Of("patch")
  <2>1. at = Place("patch", x, q)
    BY SMT, Places DEF PatchAt
  <2>. QED BY <1>1, <2>1
<1>6. ASSUME NEW w \in Names, w # "patch", Extent(w, x, q) # 0 PROVE ~Overlap(Of("patch"), Of(w))
  <2>. DEFINE f == Place("patch", i, p)
              l == Width("patch", i, p, x, q)
              g == Place(w, i, p)
              m == Width(w, i, p, x, q)
  <2>1. Extent(w, x, q) # 0
    BY <1>6
  <2>2. /\ f \in Nat /\ l \in Nat /\ Place("patch", x, q) = f /\ Extent("patch", x, q) = l
    <3>1. Extent("patch", x, q) # 0
      BY SMT, <1>1
    <3>. QED BY <1>4, <3>1, Widths DEF Scene
  <2>3. /\ g \in Nat /\ m \in Nat /\ Place(w, x, q) = g /\ Extent(w, x, q) = m
    BY <2>1, Widths DEF Scene
  <2>4. l > 0 /\ m > 0
    <3>1. l # 0 /\ m # 0
      BY SMT, <1>1, <2>1, <2>2, <2>3
    <3>. HIDE DEF l, m
    <3>. QED BY <2>2, <2>3, <3>1
  <2>5. Off(f, l, g, m)
    BY <1>4, <1>6, <2>4, WidthApart DEF Scene
  <2>6. /\ Of("patch").from = f /\ Of("patch").to = f + l
        /\ Of(w).from = g /\ Of(w).to = g + m
    BY <2>2, <2>3, PieceIs
  <2>. HIDE DEF Of, f, l, g, m
  <2>7. ~(f < g + m /\ g < f + l)
    BY <2>2, <2>3, <2>5 DEF Off
  <2>. QED BY <2>6, <2>7 DEF Overlap
<1>7. \A n \in neighbours : ~(n.from < n.to /\ Overlap(patch, n))
  <2>1. ASSUME NEW w \in {"xell", "rebooter", "fuses"}, Of(w).from < Of(w).to
        PROVE  Extent(w, x, q) # 0
    <3>. SUFFICES ASSUME Extent(w, x, q) = 0 PROVE FALSE
      OBVIOUS
    <3>1. Place(w, x, q) < Place(w, x, q) + 0
      BY <2>1, PieceIs
    <3>2. Place(w, x, q) \in Nat
      BY PayloadPlaces
    <3>. QED BY SMT, <3>1, <3>2
  <2>. HIDE DEF neighbours, patch, Of
  <2>. QED BY <1>3, <1>4, <1>5, <1>6, <2>1
<1>. HIDE DEF at, room, neighbours, patch, Of
<1>8. ~(\/ x.patchSize > room
        \/ \E n \in neighbours : n.from < n.to /\ Overlap(patch, n))
  BY <1>2, <1>7
<1>. QED BY <1>8 DEF at, room, neighbours, patch

\* The fill behind the KHV patches stays in the second slot.
LEMMA LaysBehindKhv ==
  ASSUME NEW i, NEW p, NEW x, NEW q, Scene(i, p, x, q), x.patch # "none", i.patch = "glitch", NEW D
  PROVE  Lays(Fill(p.overlay + p.prefix + i.patchSize, p.overlay + kLayBlockSize),
              Canvas(i, p, x, q), D, D)
<1>. DEFINE v == p.overlay
            n == p.prefix
            r == p.stride
            s == i.patchSize
            f == v + n + s
            t == v + kLayBlockSize
<1>1. /\ v \in Nat /\ v >= \h8000 /\ v <= \h150000 /\ r \in {\h10000, \h20000} /\ n \in {\h10, \h60}
      /\ v = p.base + r /\ p.base \in Nat
      /\ Manufacturing(i) => n = \h60
  <2>1. p.base >= \h8000
    BY SMT, Slots
  <2>. QED BY SMT, <2>1, OverlayPlan DEF Scene
<1>2. /\ s \in Nat /\ Extent("patch", x, q) = s /\ s >= 4
  BY PatchKept
<1>3. t = v + \h4000
  BY DEF kLayBlockSize
<1>4. f \in Nat /\ t \in Nat
  BY SMT, <1>1, <1>2, <1>3
<1>5. f < t => Fine(i, f, t - f)
  <2>1. t <= p.base + 2 * p.stride
    BY SMT, <1>1, <1>3
  <2>. HIDE DEF f, t
  <2>. QED BY <1>4, <2>1, FineLow
<1>6. ASSUME f < t, NEW w \in Names, Width(w, i, p, x, q) > 0
      PROVE  Off(Place(w, i, p), Width(w, i, p, x, q), f, t - f)
  <2>. DEFINE g == Place(w, i, p)
              m == Width(w, i, p, x, q)
              e == Extent(w, i, p)
  <2>1. g \in Nat /\ m \in Nat /\ e \in Nat /\ m > 0
    BY <1>6, Widths DEF Scene
  <2>2. CASE w = "patch"
    <3>1. Extent(w, x, q) # 0
      BY SMT, <1>2, <2>2
    <3>2. m = s
      BY <1>2, <2>2, <3>1, Widths DEF Scene
    <3>3. g = v + n
      BY SMT, <2>2, Places DEF PatchAt
    <3>. HIDE DEF f, t, g, m, v, n, s
    <3>4. Off(g, m, f, t - f)
      BY SMT, <1>1, <1>2, <3>2, <3>3 DEF Off, f
    <3>. QED BY <3>4 DEF g, m
  <2>3. CASE w # "patch" /\ m # e
    <3>1. m = \h60 /\ g = v /\ Manufacturing(i)
      BY SMT, <2>3, WidthOf DEF Scene
    <3>2. g + m <= f
      BY SMT, <1>1, <1>2, <3>1
    <3>. QED BY <3>2 DEF Off
  <2>4. CASE w # "patch" /\ m = e /\ w \in ClaimNames
    <3>1. PICK c \in PayloadRanges(i, p) : c.what = "patch" /\ c.from = v + n /\ c.to = v + r
      BY PatchClaim DEF Scene
    <3>2. c.from \in Nat /\ c.to \in Nat
      BY SMT, <1>1, <3>1
    <3>3. Off(g, e, c.from, c.to - c.from)
      BY <2>1, <2>4, <3>1, <3>2, ClaimApart DEF Scene
    <3>4. \/ g + e <= v + n
          \/ v + r <= g
      <4>. HIDE DEF g, m, e, v, n, r
      <4>. QED BY <1>1, <2>1, <3>1, <3>2, <3>3 DEF Off
    <3>. HIDE DEF g, m, e, v, n, r, s
    <3>5. Off(g, m, f, t - f)
      BY SMT, <1>1, <1>2, <1>3, <2>1, <2>4, <3>4 DEF Off, f
    <3>. QED BY <3>5 DEF g, m
  <2>5. CASE m = e /\ (w \in HeadNames \/ w \in LateNames)
    <3>1. Zoned(i, w, g, e)
      BY Zones DEF Scene
    <3>2. g + e <= \h8000 \/ g >= \hF00000
      <4>. HIDE DEF g, m, e
      <4>. QED BY SMT, <2>1, <2>5, <3>1 DEF Zoned
    <3>. HIDE DEF g, m, e, v, n, r, s
    <3>3. Off(g, m, f, t - f)
      BY SMT, <1>1, <1>2, <1>3, <2>1, <2>5, <3>2 DEF Off, f
    <3>. QED BY <3>3 DEF g, m
  <2>6. w \in HeadNames \/ w \in LateNames \/ w \in ClaimNames
    BY DEF Names, FromChain, FromSlots, FromConsole, FromAnchors, FromPayloads, ClaimNames, LateNames
  <2>. HIDE DEF f, t, g, m, e
  <2>7. Off(g, m, f, t - f)
    BY <2>2, <2>3, <2>4, <2>5, <2>6 DEF g, m
  <2>. QED BY <2>7 DEF g, m
<1>7. Spares(i, p, x, q, f, t, D)
  <2>. HIDE DEF f, t
  <2>. QED BY <1>4, <1>5, <1>6 DEF Spares
<1>8. Lays(Fill(f, t), Canvas(i, p, x, q), D, D)
  <2>. HIDE DEF f, t
  <2>. QED BY <1>7, LaysOver
<1>. QED BY <1>8 DEF f, t

\* The two fills behind the JTAG patches meet no item.
LEMMA LaysBehindJtag ==
  ASSUME NEW i, NEW p, Scene(i, p, i, p), i.patch = "jtag", NEW D
  PROVE  LET end == \h91000 + i.patchSize
         IN  /\ Lays(Fill(end, BlockEnd(end)), Canvas(i, p, i, p), D, D)
             /\ Lays(Fill(BlockEnd(end), \h95000), Canvas(i, p, i, p), D, D)
<1>. DEFINE s == i.patchSize
            e == \h91000 + s
            v == \h94000
            r == \h95000
<1>1. s \in Nat /\ s >= 4 /\ s <= \h3000 /\ i.type = "jtag"
  BY PatchKept
<1>2. Extent("patch", i, p) = s /\ "patch" \in Names /\ "xell" \in Names
  <2>1. Extent("patch", i, p) = s
    BY PatchKept
  <2>. QED BY <2>1
           DEF Names, FromChain, FromSlots, FromConsole, FromAnchors, FromPayloads, PayloadNames, FromPatch
<1>3. e \in Nat /\ e <= v /\ BlockEnd(e) = v /\ v \in Nat /\ r \in Nat /\ v < r
  BY SMT, <1>1 DEF BlockEnd, RoundUp, kLayBlockSize
<1>4. v <= ImageSize(i) /\ r <= ImageSize(i) /\ ImageSize(i) \in Nat
  BY SMT, Shape DEF Scene
<1>5. p.window = \h90000 /\ p.xell = \h95060
  BY SMT, <1>1, JtagPlan DEF Scene
<1>6. e < v => Fine(i, e, v - e)
  <2>. DEFINE z == \h91000
  <2>1. Place("patch", i, p) = z
    BY SMT, <1>5, Places DEF PatchAt
  <2>2. Fine(i, z, s)
    <3>1. Extent("patch", i, p) > 0
      BY SMT, <1>1, <1>2
    <3>. HIDE DEF z
    <3>. QED BY <1>2, <2>1, <3>1, FineItem DEF Scene
  <2>3. e < v => Covered(e, v - e, z, s)
    BY SMT, <1>1 DEF Covered
  <2>. HIDE DEF z, s, e, v, r
  <2>. QED BY <1>3, <1>4, <2>2, <2>3, FineBy
<1>7. Fine(i, v, r - v)
  <2>1. CASE i.xell
    <3>. DEFINE z == \h95060
                l == \h40000
    <3>1. Place("xell", i, p) = z /\ Extent("xell", i, p) = On(i.xell, l)
      BY SMT, <1>5, Places, Extents
    <3>2. On(i.xell, l) = l /\ l > 0
      BY SMT, <2>1 DEF On
    <3>. HIDE DEF z, l
    <3>3. Fine(i, z, l)
      BY <1>2, <3>1, <3>2, FineItem DEF Scene
    <3>4. Covered(v, r - v, z, l)
      BY SMT DEF Covered, z, l
    <3>. HIDE DEF s, e, v, r
    <3>. QED BY <1>3, <1>4, <3>3, <3>4, FineBy
  <2>2. CASE ~i.xell
    <3>1. ~XellBehindPatches(i)
      BY <2>2 DEF XellBehindPatches
    <3>2. r - v \in Nat /\ r - v > 0 /\ v + (r - v) = r
      BY SMT
    <3>. HIDE DEF v, r
    <3>. QED BY <1>3, <1>4, <3>1, <3>2 DEF Fine
  <2>. QED BY <2>1, <2>2
<1>8. ASSUME NEW w \in Names, NEW g \in Nat, NEW m \in Nat \ {0}, JtagItem(i, p, w, g, m)
      PROVE  Off(g, m, e, v - e) /\ Off(g, m, v, r - v)
  <2>1. Align16(i.extraCb) \in Nat
    <3>1. i.extraCb \in Nat
      BY SMT, Sizes DEF Scene, Sized
    <3>. QED BY <3>1, Rounding
  <2>2. m \in Nat
    OBVIOUS
  <2>. QED BY SMT, <1>1, <1>8, <2>1, <2>2 DEF JtagItem, Off
<1>. HIDE DEF s, e, v, r
<1>9. Lays(Fill(e, v), Canvas(i, p, i, p), D, D)
  BY <1>1, <1>3, <1>6, <1>8, JtagFill
<1>10. Lays(Fill(v, r), Canvas(i, p, i, p), D, D)
  <2>1. v < r => Fine(i, v, r - v)
    BY <1>7
  <2>2. \A w \in Names, g \in Nat, m \in Nat \ {0} :
           JtagItem(i, p, w, g, m) /\ Extent(w, i, p) = m => Off(g, m, v, r - v)
    BY <1>8
  <2>3. i.type = "jtag" /\ v \in Nat /\ r \in Nat
    BY <1>1, <1>3
  <2>. QED BY <2>1, <2>2, <2>3, JtagFill
<1>11. Lays(Fill(e, BlockEnd(e)), Canvas(i, p, i, p), D, D) /\ Lays(Fill(BlockEnd(e), r), Canvas(i, p, i, p), D, D)
  BY <1>3, <1>9, <1>10
<1>. QED BY SMT, <1>11 DEF e, r, s

LEMMA LaysPatch ==
  ASSUME NEW i, NEW p, NEW x, NEW q, Scene(i, p, x, q), x.patch # "none"
  PROVE  LET at == IF x.patch = "jtag" THEN q.window + \h1000 ELSE q.overlay + q.prefix
             patch == Piece("patch", at, x.patchSize)
         IN  Lays(<<patch>> \o PatchFills(x, q, at + x.patchSize),
                  Canvas(i, p, x, q), Left(FromPatch, x, q), Left(SecondNames, x, q))
<1>. DEFINE at == IF x.patch = "jtag" THEN q.window + \h1000 ELSE q.overlay + q.prefix
            patch == Piece("patch", at, x.patchSize)
            L == Canvas(i, p, x, q)
            E == Left(SecondNames, x, q)
            y == PatchFills(x, q, at + x.patchSize)
<1>1. /\ x.patch = i.patch /\ x.patchSize = i.patchSize
      /\ i.patchSize \in Nat /\ i.patchSize >= 4
      /\ i.patch = "jtag" => x = i /\ q = p
      /\ i.patch # "jtag" => i.patch = "glitch" /\ q.prefix = p.prefix
      /\ Extent("patch", x, q) = i.patchSize
  BY PatchKept
<1>2. Lays(<<patch>>, L, Left(FromPatch, x, q), E)
  <2>1. at = Place("patch", x, q) /\ x.patchSize = Extent("patch", x, q)
    <3>1. at = Place("patch", x, q)
      BY SMT, Places DEF PatchAt
    <3>. QED BY <1>1, <3>1
  <2>2. "patch" \in Names /\ FromPatch \ {"patch"} \subseteq SecondNames
    BY DEF Names, FromChain, FromSlots, FromConsole, FromAnchors, FromPayloads, FromPatch
  <2>3. x.patchSize # 0
    BY SMT, <1>1
  <2>. HIDE DEF at
  <2>4. Item("patch", at, x.patchSize) = <<patch>>
    BY <2>3 DEF Item
  <2>5. Lays(Item("patch", at, x.patchSize), L, Left(FromPatch, x, q), E)
    BY <2>1, <2>2, LaysName
  <2>. QED BY <2>4, <2>5
<1>3. Lays(y, L, E, E)
  <2>1. CASE i.patch = "jtag"
    <3>. DEFINE e == \h91000 + i.patchSize
                r == \h95000
    <3>1. p.window = \h90000
      BY SMT, Slots
    <3>2. at + x.patchSize = e /\ p.window + \h1000 + kJTAGPatchesSize = r
      BY SMT, <1>1, <2>1, <3>1 DEF kJTAGPatchesSize
    <3>. HIDE DEF at, e, r, E, L
    <3>3. y = Fill(e, BlockEnd(e)) \o Fill(BlockEnd(e), r)
      <4>1. x.patch = "jtag" /\ q = p
        BY <1>1, <2>1
      <4>. QED BY <3>2, <4>1 DEF PatchFills
    <3>4. Lays(Fill(e, BlockEnd(e)), L, E, E) /\ Lays(Fill(BlockEnd(e), r), L, E, E)
      <4>1. Scene(i, p, i, p) /\ L = Canvas(i, p, i, p)
        BY <1>1, <2>1 DEF L
      <4>. QED BY SMT, <2>1, <4>1, LaysBehindJtag DEF e, r
    <3>. HIDE DEF y
    <3>. QED BY <3>3, <3>4, LaysThen
  <2>2. CASE i.patch # "jtag"
    <3>1. i.patch = "glitch" /\ q.prefix = p.prefix /\ q.overlay = p.overlay
      BY <1>1, <2>2, Kept
    <3>2. at + x.patchSize = p.overlay + p.prefix + i.patchSize
      BY <1>1, <2>2, <3>1
    <3>. HIDE DEF at
    <3>3. y = Fill(p.overlay + p.prefix + i.patchSize, p.overlay + kLayBlockSize)
      <4>1. x.patch # "jtag"
        BY <1>1, <2>2
      <4>. QED BY <3>1, <3>2, <4>1 DEF PatchFills
    <3>. HIDE DEF y, E
    <3>. QED BY <3>1, <3>3, LaysBehindKhv
  <2>. QED BY <2>1, <2>2
<1>. HIDE DEF patch, L, E, y
<1>4. Lays(<<patch>> \o y, L, Left(FromPatch, x, q), E)
  BY <1>2, <1>3, LaysThen
<1>. QED BY SMT, <1>4 DEF patch, L, E, y

LEMMA ExtraPlaces ==
  ASSUME NEW i, NEW p
  PROVE  /\ Place("extraCb", i, p) = ExtraCbAt(p) /\ Extent("extraCb", i, p) = On(p.jtag, i.extraCb)
         /\ Place("extraCd", i, p) = ExtraCdAt(i, p) /\ Extent("extraCd", i, p) = On(p.jtag, i.extraCd)
BY SMT, Places, Extents

\* A JTAG image's second chain and the fill behind it harm nothing.
LEMMA LaysSecond ==
  ASSUME NEW i, NEW p, Scene(i, p, i, p), p.jtag, i.extraCb # 0 \/ i.extraCd # 0
  PROVE  LET end == IF i.extraCd # 0 THEN ExtraCdAt(i, p) + i.extraCd ELSE ExtraCbAt(p) + i.extraCb
         IN  Lays(Item("extraCb", ExtraCbAt(p), i.extraCb) \o Item("extraCd", ExtraCdAt(i, p), i.extraCd)
                    \o Fill(end, BlockEnd(end)),
                  Canvas(i, p, i, p), Left(SecondNames, i, p), Left({}, i, p))
<1>. DEFINE c == i.extraCb
            d == i.extraCd
            n == Align16(c)
            a == ExtraCbAt(p)
            b == ExtraCdAt(i, p)
            e == IF d # 0 THEN b + d ELSE a + c
            t == BlockEnd(e)
            L == Canvas(i, p, i, p)
<1>1. i \in ImageRecord /\ Assembled(i) /\ p = Plan(i) /\ Accepted(i, p) /\ PatchesInBlock(i)
  BY DEF Scene
<1>2. i.type = "jtag"
  <2>1. PlanFor(i, p)
    BY <1>1 DEF Accepted
  <2>. QED BY <2>1 DEF PlanFor
<1>3. a = \hD5060 /\ b = \hD5060 + n
  <2>1. p.window = \h90000
    BY SMT, <1>1, <1>2, JtagPlan
  <2>. QED BY SMT, <2>1 DEF ExtraCbAt, ExtraCdAt, kXellSize
<1>4. c \in Nat /\ d \in Nat /\ c <= \h100000 /\ d <= \h100000
      /\ n \in Nat /\ n >= c /\ n < c + 16
  <2>1. c \in Nat /\ d \in Nat /\ c <= \h100000 /\ d <= \h100000
    BY SMT, <1>1, Sizes DEF Sized
  <2>2. c \in Nat
    BY <2>1
  <2>. HIDE DEF c
  <2>3. n \in Nat /\ n >= c /\ n < c + 16
    BY <2>2, Rounding
  <2>. QED BY <2>1, <2>3
<1>5. /\ Place("extraCb", i, p) = a /\ Extent("extraCb", i, p) = c
      /\ Place("extraCd", i, p) = b /\ Extent("extraCd", i, p) = d
  <2>1. /\ Place("extraCb", i, p) = a /\ Extent("extraCb", i, p) = On(p.jtag, c)
        /\ Place("extraCd", i, p) = b /\ Extent("extraCd", i, p) = On(p.jtag, d)
    BY ExtraPlaces
  <2>2. On(p.jtag, c) = c /\ On(p.jtag, d) = d
    BY DEF On
  <2>. QED BY <2>1, <2>2
<1>6. "extraCb" \in Names /\ "extraCd" \in Names
  BY DEF Names, FromChain, FromSlots, FromConsole, FromAnchors, FromPayloads, FromPatch, SecondNames
<1>. HIDE DEF a, b, c, d, n
<1>7. e \in Nat /\ t \in Nat /\ t >= e /\ t < e + \h4000 /\ e <= \h2D5070 /\ e >= \hD5060
  <2>1. e \in Nat /\ e <= \h2D5070 /\ e >= \hD5060
    BY SMT, <1>3, <1>4
  <2>. HIDE DEF e
  <2>2. t = ((e + \h4000 - 1) \div \h4000) * \h4000
    BY SMT DEF BlockEnd, RoundUp, kLayBlockSize
  <2>. HIDE DEF t
  <2>. QED BY SMT, <2>1, <2>2
<1>8. t <= ImageSize(i) /\ ImageSize(i) \in Nat
  <2>1. ImageSize(i) \in Nat /\ ImageSize(i) >= \h1000000
    BY SMT, <1>1, Shape
  <2>. HIDE DEF t, e
  <2>. QED BY SMT, <1>7, <2>1
<1>9. ASSUME NEW g \in Nat, NEW m \in Nat, m > 0, e = g + m, e < t PROVE Covered(e, t - e, g, m)
  <2>1. t = ((e + \h4000 - 1) \div \h4000) * \h4000
    <3>. HIDE DEF e
    <3>. QED BY SMT DEF BlockEnd, RoundUp, kLayBlockSize
  <2>. HIDE DEF e, t
  <2>2. (e + (t - e) - 1) \div \h4000 <= (g + m - 1) \div \h4000
    BY SMT, <1>7, <1>9, <2>1
  <2>3. g \div \h4000 <= e \div \h4000
    BY SMT, <1>9
  <2>. QED BY SMT, <1>7, <1>9, <2>2, <2>3 DEF Covered
<1>10. ASSUME e < t PROVE Fine(i, e, t - e)
  <2>1. e \in Nat /\ t \in Nat
    BY SMT, <1>7
  <2>2. a \in Nat /\ b \in Nat
    BY SMT, <1>3, <1>4
  <2>3. CASE d # 0
    <3>1. e = b + d /\ d \in Nat /\ d > 0
      BY SMT, <1>4, <2>3
    <3>. HIDE DEF e, t
    <3>2. Fine(i, b, d)
      BY <1>1, <1>5, <1>6, <3>1, FineItem
    <3>3. Covered(e, t - e, b, d)
      BY <1>9, <1>10, <2>2, <3>1
    <3>. QED BY <1>8, <1>10, <2>1, <3>2, <3>3, FineBy
  <2>4. CASE d = 0
    <3>1. e = a + c /\ c \in Nat /\ c > 0
      BY SMT, <1>4, <2>4 DEF c, d
    <3>. HIDE DEF e, t
    <3>2. Fine(i, a, c)
      BY <1>1, <1>5, <1>6, <3>1, FineItem
    <3>3. Covered(e, t - e, a, c)
      BY <1>9, <1>10, <2>2, <3>1
    <3>. QED BY <1>8, <1>10, <2>1, <3>2, <3>3, FineBy
  <2>. QED BY <2>3, <2>4
<1>11. ASSUME NEW w \in Names, NEW g \in Nat, NEW m \in Nat \ {0}, JtagItem(i, p, w, g, m),
              Extent(w, i, p) = m
       PROVE  Off(g, m, e, t - e)
  <2>1. m \in Nat /\ m > 0
    OBVIOUS
  <2>2. CASE w = "patch"
    <3>1. i.patch # "none"
      <4>1. Extent("patch", i, p) = On(i.patch # "none", i.patchSize)
        BY SMT, Extents
      <4>. QED BY SMT, <1>11, <2>1, <2>2, <4>1 DEF On
    <3>2. i.patchSize <= \h3000 /\ i.patchSize \in Nat
      <4>1. i.patch = "jtag"
        BY <1>1, <1>2, <3>1, PatchOfType
      <4>. QED BY <3>1, <4>1, PatchKept
    <3>3. m <= \h3000 /\ g = \h91000
      BY SMT, <1>11, <2>2, <3>2 DEF JtagItem, HeadNames, SlotNames, LateNames, ConsoleNames, AnchorNames
    <3>. HIDE DEF e, t
    <3>. QED BY SMT, <1>7, <2>1, <3>3 DEF Off
  <2>3. CASE w = "extraCb"
    <3>1. g = \hD5060 /\ m = c
      BY SMT, <1>11, <2>3 DEF JtagItem, HeadNames, SlotNames, LateNames, ConsoleNames, AnchorNames, c
    <3>2. g + m <= e
      BY SMT, <1>3, <1>4, <3>1
    <3>. QED BY <3>2 DEF Off
  <2>4. CASE w = "extraCd"
    <3>1. g = \hD5060 + n /\ m = d
      BY SMT, <1>11, <2>4
      DEF JtagItem, HeadNames, SlotNames, LateNames, ConsoleNames, AnchorNames, c, d, n
    <3>2. g + m <= e
      BY SMT, <1>3, <1>4, <2>1, <3>1
    <3>. QED BY <3>2 DEF Off
  <2>5. CASE w \notin {"patch", "extraCb", "extraCd"}
    <3>1. g + m <= \hD5060 \/ g >= \hF00000
      BY SMT, <1>11, <2>1, <2>5 DEF JtagItem
    <3>. HIDE DEF e, t
    <3>. QED BY SMT, <1>7, <2>1, <3>1 DEF Off
  <2>. QED BY <2>2, <2>3, <2>4, <2>5
<1>12. e \in Nat /\ t \in Nat
  BY SMT, <1>7
<1>. HIDE DEF e, t
<1>13. Lays(Fill(e, t), L, Left({}, i, p), Left({}, i, p))
  BY <1>2, <1>10, <1>11, <1>12, JtagFill
<1>14. Lays(Item("extraCb", a, c), L, Left(SecondNames, i, p), Left({"extraCd"}, i, p))
  <2>1. SecondNames \ {"extraCb"} \subseteq {"extraCd"}
    BY DEF SecondNames
  <2>. QED BY <1>5, <1>6, <2>1, LaysName
<1>15. Lays(Item("extraCd", b, d), L, Left({"extraCd"}, i, p), Left({}, i, p))
  <2>1. {"extraCd"} \ {"extraCd"} \subseteq {}
    OBVIOUS
  <2>. QED BY <1>5, <1>6, <2>1, LaysName
<1>. HIDE DEF L
<1>16. Lays(Item("extraCb", a, c) \o Item("extraCd", b, d), L, Left(SecondNames, i, p), Left({}, i, p))
  BY <1>14, <1>15, LaysThen
<1>17. Lays(Item("extraCb", a, c) \o Item("extraCd", b, d) \o Fill(e, t), L,
            Left(SecondNames, i, p), Left({}, i, p))
  BY <1>13, <1>16, LaysThen
<1>. QED BY SMT, <1>17 DEF a, b, c, d, e, t, L

\* What the last stage lays.
LEMMA LaysSecondChain ==
  ASSUME NEW i, NEW p, NEW x, NEW q, Scene(i, p, x, q)
  PROVE  LET end == IF x.extraCd # 0 THEN ExtraCdAt(x, q) + x.extraCd ELSE ExtraCbAt(q) + x.extraCb
         IN  Lays(IF q.jtag /\ (x.extraCb # 0 \/ x.extraCd # 0)
                  THEN Item("extraCb", ExtraCbAt(q), x.extraCb)
                         \o Item("extraCd", ExtraCdAt(x, q), x.extraCd) \o Fill(end, BlockEnd(end))
                  ELSE <<>>,
                  Canvas(i, p, x, q), Left(SecondNames, x, q), Left({}, x, q))
<1>. DEFINE end == IF x.extraCd # 0 THEN ExtraCdAt(x, q) + x.extraCd ELSE ExtraCbAt(q) + x.extraCb
            y == Item("extraCb", ExtraCbAt(q), x.extraCb)
                   \o Item("extraCd", ExtraCdAt(x, q), x.extraCd) \o Fill(end, BlockEnd(end))
            T == q.jtag /\ (x.extraCb # 0 \/ x.extraCd # 0)
<1>1. CASE T
  <2>1. x = i /\ q = p
    <3>1. ~ReadFrom(i, p, x, q)
      BY <1>1 DEF ReadFrom
    <3>. QED BY <3>1, Passes
  <2>2. Scene(i, p, i, p) /\ p.jtag /\ (i.extraCb # 0 \/ i.extraCd # 0)
    BY <1>1, <2>1
  <2>3. Lays(y, Canvas(i, p, x, q), Left(SecondNames, x, q), Left({}, x, q))
    BY <2>1, <2>2, LaysSecond
  <2>. QED BY <1>1, <2>3
<1>2. CASE ~T
  <2>1. Extent("extraCb", x, q) = 0 /\ Extent("extraCd", x, q) = 0
    <3>1. Extent("extraCb", x, q) = On(q.jtag, x.extraCb) /\ Extent("extraCd", x, q) = On(q.jtag, x.extraCd)
      BY SMT, Extents
    <3>2. On(q.jtag, x.extraCb) = 0 /\ On(q.jtag, x.extraCd) = 0
      BY <1>2 DEF On
    <3>. QED BY <3>1, <3>2
  <2>2. Left(SecondNames, x, q) \subseteq Left({}, x, q)
    BY <2>1 DEF Left, SecondNames
  <2>3. Lays(<<>>, Canvas(i, p, x, q), Left(SecondNames, x, q), Left({}, x, q))
    BY <2>2, LaysNone
  <2>. QED BY <1>2, <2>3
<1>. QED BY <1>1, <1>2

\* Without patches nothing is laid in their stage.
LEMMA LaysNoPatch ==
  ASSUME NEW i, NEW p, NEW x, NEW q, Scene(i, p, x, q), x.patch = "none"
  PROVE  Lays(<<>>, Canvas(i, p, x, q), Left(FromPatch, x, q), Left(SecondNames, x, q))
<1>1. Extent("patch", x, q) = 0
  <2>1. Extent("patch", x, q) = On(x.patch # "none", x.patchSize)
    BY SMT, Extents
  <2>. QED BY <2>1 DEF On
<1>2. Left(FromPatch, x, q) \subseteq Left(SecondNames, x, q)
  BY <1>1 DEF Left, FromPatch
<1>. QED BY <1>2, LaysNone

---------------------------------------------------------------------------
(* The stages, one after the other.                                        *)

\* What a stage and those behind it lay.
Remaining(s) ==
  CASE s = "head"     -> Names
    [] s = "chain"    -> FromChain
    [] s = "slots"    -> FromSlots
    [] s = "console"  -> FromConsole
    [] s = "anchors"  -> FromAnchors
    [] s = "payloads" -> FromPayloads
    [] s = "patch"    -> FromPatch
    [] s = "chain2"   -> SecondNames
    [] OTHER          -> {}

\* An accepted image is being written, and all that is not laid again stands.
Writing ==
  /\ Scene(built, Plan(built), image, Plan(image))
  /\ stage # "failed"
  /\ Laid(laid, Canvas(built, Plan(built), image, Plan(image)),
          Left(Remaining(stage), image, Plan(image)))

\* Nothing is laid before the layout is accepted.
Untouched == image = built /\ stage \in {"check", "refused"} /\ laid = <<>>

WritingInv ==
  PassInv /\ (PartsInPlace(built) /\ PatchesInBlock(built) => Untouched \/ Writing)

LEMMA Remainders ==
  /\ Remaining("head") = Names            /\ Remaining("chain") = FromChain
  /\ Remaining("slots") = FromSlots       /\ Remaining("console") = FromConsole
  /\ Remaining("anchors") = FromAnchors   /\ Remaining("payloads") = FromPayloads
  /\ Remaining("patch") = FromPatch       /\ Remaining("chain2") = SecondNames
  /\ Remaining("done") = {} /\ Remaining("check") = {} /\ Remaining("refused") = {}
BY SMT DEF Remaining

LEMMA LaidNothing ==
  ASSUME NEW L, NEW D
  PROVE  Laid(<<>>, L, D)
<1>1. <<>> \in Seq(AnyPiece) /\ 1 .. Len(<<>>) = {}
  OBVIOUS
<1>. QED BY <1>1 DEF Laid

\* A stage that lays what is its own leaves the rest to those behind it.
LEMMA LayStage ==
  ASSUME Writing, NEW p, p = Plan(built), NEW q, q = Plan(image), NEW y, NEW next, next # "failed",
         Lays(y, Canvas(built, p, image, q), Left(Remaining(stage), image, q),
              Left(Remaining(next), image, q)),
         Lay(y, next)
  PROVE  Writing'
<1>1. Scene(built, p, image, q) /\ Laid(laid, Canvas(built, p, image, q), Left(Remaining(stage), image, q))
  BY DEF Writing
<1>2. /\ stage' = next /\ built' = built /\ image' = image
      /\ Laid(laid', Canvas(built, p, image, q), Left(Remaining(next), image, q))
  BY <1>1, LayAll
<1>. QED BY <1>1, <1>2 DEF Writing

LEMMA WritingInit == Init => WritingInv
BY PassInit DEF Init, WritingInv, Untouched

\* An image whose layout is accepted is ready to be written.
LEMMA CheckStep ==
  ASSUME PassInv, PartsInPlace(built), PatchesInBlock(built), Untouched \/ Writing, CheckLayout
  PROVE  Untouched' \/ Writing'
<1>. DEFINE p == Plan(built)
            q == Plan(image)
<1>1. built' = built /\ image' = image /\ stage = "check"
  BY DEF CheckLayout
<1>2. /\ stage' \in {"head", "refused"} /\ (stage' = "head" => PayloadLayout(image))
      /\ laid' = (IF image.preserve THEN laid ELSE <<>>)
  BY DEF CheckLayout
<1>3. CASE Untouched
  <2>1. image = built /\ ~image.preserve /\ laid' = <<>>
    BY <1>2, <1>3, BuiltFacts DEF Untouched, PassInv
  <2>2. CASE stage' = "refused"
    BY <1>1, <2>1, <2>2 DEF Untouched
  <2>3. CASE stage' = "head"
    <3>1. Accepted(built, p)
      BY <1>2, <2>1, <2>3, BuiltFacts, AcceptedPlan DEF PassInv
    <3>2. Scene(built, p, image, q)
      BY <2>1, <3>1, BuiltFacts DEF Scene, Written, PassInv
    <3>3. Laid(laid', Canvas(built, p, image, q), Left(Remaining(stage'), image, q))
      BY <2>1, LaidNothing
    <3>. QED BY <1>1, <2>3, <3>2, <3>3 DEF Writing
  <2>. QED BY <1>2, <2>2, <2>3
<1>4. CASE Writing
  <2>1. /\ Scene(built, p, image, q)
        /\ Laid(laid, Canvas(built, p, image, q), Left({}, image, q))
    BY <1>1, <1>4, Remainders DEF Writing
  <2>2. Left({}, image, q) \subseteq Left(Remaining(stage'), image, q)
    BY DEF Left
  <2>3. Laid(laid, Canvas(built, p, image, q), Left(Remaining(stage'), image, q))
    BY <2>1, <2>2, LaidMore
  <2>4. Laid(<<>>, Canvas(built, p, image, q), Left(Remaining(stage'), image, q))
    BY LaidNothing
  <2>5. Laid(laid', Canvas(built, p, image, q), Left(Remaining(stage'), image, q))
    BY <1>2, <2>3, <2>4
  <2>6. stage' # "failed"
    BY <1>2
  <2>. QED BY <1>1, <2>1, <2>5, <2>6 DEF Writing
<1>. QED BY <1>3, <1>4

\* What was laid of the image built has its place in the image read back.
LEMMA ReparseStep ==
  ASSUME PassInv, Writing, Reparse
  PROVE  Writing'
<1>. DEFINE p == Plan(built)
            x == Reparsed(built)
            q == Plan(x)
            L == Canvas(built, p, built, p)
            M == Canvas(built, p, x, q)
<1>1. stage = "done" /\ ~image.preserve /\ image' = Reparsed(image) /\ stage' = "check"
      /\ built' = built /\ laid' = laid
  BY DEF Reparse
<1>2. image = built
  BY <1>1, Passes DEF Writing
<1>3. Scene(built, p, built, p) /\ Laid(laid, L, Left({}, built, p))
  BY <1>1, <1>2, Remainders DEF Writing
<1>4. Scene(built, p, x, q)
  BY <1>3, ReadBack DEF Scene, Written
<1>5. L \subseteq M
  <2>. SUFFICES ASSUME NEW r \in L PROVE r \in M
    OBVIOUS
  <2>1. r \in AnyPiece /\ Fine(built, r.from, r.to - r.from)
    BY DEF Canvas
  <2>2. CASE r.what = "fill"
    BY <2>1, <2>2 DEF Canvas
  <2>3. CASE r.what # "fill"
    <3>. DEFINE w == r.what
                e == Extent(w, built, p)
                m == Width(w, built, p, x, q)
    <3>1. /\ w \in Names /\ r.from = Place(w, built, p) /\ r.from \in Nat /\ r.to \in Nat
          /\ r.to <= r.from + Width(w, built, p, built, p)
      BY <2>3, OnCanvas
    <3>2. Width(w, built, p, built, p) = e
      BY FirstWidth
    <3>3. e \in Nat /\ m \in Nat /\ e <= m
      BY <1>4, <3>1, Widths DEF Scene
    <3>. HIDE DEF e, m
    <3>4. r.to <= r.from + m
      BY <3>1, <3>2, <3>3
    <3>. QED BY <2>1, <3>1, <3>4 DEF Canvas, m
  <2>. QED BY <2>2, <2>3
<1>. HIDE DEF L, M
<1>6. Left({}, built, p) \subseteq Left({}, x, q)
  BY DEF Left
<1>7. Laid(laid, M, Left({}, x, q))
  BY <1>3, <1>5, <1>6, LaidMore
<1>8. image' = x
  BY <1>1, <1>2
<1>9. Laid(laid', M, Left(Remaining(stage'), x, q))
  BY <1>1, <1>7, Remainders
<1>. QED BY <1>1, <1>4, <1>8, <1>9 DEF Writing, M

LEMMA WritingStep == WritingInv /\ [Next]_vars => WritingInv'
<1>. SUFFICES ASSUME WritingInv, [Next]_vars PROVE WritingInv'
  OBVIOUS
<1>1. PassInv /\ PassInv'
  BY PassStep DEF WritingInv
<1>2. built' = built
  <2>1. CASE CheckLayout \/ Reparse \/ UNCHANGED vars
    BY <2>1 DEF CheckLayout, Reparse, vars
  <2>2. ASSUME NEW y, NEW next, Lay(y, next) PROVE built' = built
    BY <2>2 DEF Lay
  <2>3. CASE LayHead
    BY <2>2, <2>3 DEF LayHead
  <2>4. CASE LayChain \/ LaySlots
    BY <2>2, <2>4 DEF LayChain, LaySlots
  <2>5. CASE LayConsole \/ LayAnchors
    BY <2>2, <2>5 DEF LayConsole, LayAnchors
  <2>6. CASE LayPayloads \/ LaySecondChain
    BY <2>2, <2>6 DEF LayPayloads, LaySecondChain
  <2>7. CASE LayPatch
    BY <2>2, <2>7 DEF LayPatch
  <2>. QED BY <2>1, <2>3, <2>4, <2>5, <2>6, <2>7 DEF Next
<1>3. SUFFICES ASSUME PartsInPlace(built), PatchesInBlock(built), Untouched \/ Writing
               PROVE  Untouched' \/ Writing'
  BY <1>1, <1>2 DEF WritingInv
<1>. DEFINE p == Plan(built)
            q == Plan(image)
            L == Canvas(built, p, image, q)
            E(s) == Left(Remaining(s), image, q)
<1>4. CASE CheckLayout
  BY <1>1, <1>3, <1>4, CheckStep
<1>5. CASE Reparse
  <2>1. Writing
    BY <1>3, <1>5 DEF Reparse, Untouched
  <2>. QED BY <1>1, <1>5, <2>1, ReparseStep
<1>6. CASE LayHead
  <2>1. Writing /\ stage = "head"
    BY <1>3, <1>6 DEF LayHead, Untouched
  <2>2. ~(SmcAt(image) < \h80) /\ Lays(HeadPieces(image), L, Left(Names, image, q), Left(FromChain, image, q))
    BY <2>1, LaysHead DEF Writing
  <2>3. Lay(HeadPieces(image), "chain")
    BY SMT, <1>6, <2>2 DEF LayHead, SmcAt, HeadPieces
  <2>4. Lays(HeadPieces(image), L, E(stage), E("chain"))
    BY <2>1, <2>2, Remainders
  <2>. HIDE DEF L, E, p, q
  <2>5. Writing'
    BY <2>1, <2>3, <2>4, LayStage DEF L, E, p, q
  <2>. QED BY <2>5
<1>7. CASE LayChain
  <2>. DEFINE y == Item("chain", kEntryOffset, Align16(image.chain))
                   \o (IF image.preserve THEN <<>>
                       ELSE Fill(BootChainEnd(image), BlockEnd(BootChainEnd(image))))
  <2>1. Writing /\ stage = "chain"
    BY <1>3, <1>7 DEF LayChain, Untouched
  <2>2. Lays(y, L, Left(FromChain, image, q), Left(FromSlots, image, q))
    BY <2>1, LaysChain DEF Writing
  <2>3. Lay(y, "slots")
    BY <1>7 DEF LayChain
  <2>. HIDE DEF y
  <2>4. Lays(y, L, E(stage), E("slots"))
    BY <2>1, <2>2, Remainders
  <2>. QED BY <2>1, <2>3, <2>4, LayStage
<1>8. CASE LaySlots
  <2>. DEFINE Slot(s) == Item(CfName[s + 1], q.base + s * q.stride, image.cf[s])
                         \o Item(CgName[s + 1], q.base + s * q.stride + Align16(image.cf[s]),
                                 On(image.cf[s] # 0, CgRoom(image, q, s)))
              y == Slot(0) \o Slot(1)
  <2>1. Writing /\ stage = "slots"
    BY <1>3, <1>8 DEF LaySlots, Untouched
  <2>2. Lays(y, L, Left(FromSlots, image, q), Left(FromConsole, image, q))
    BY <2>1, LaysSlots DEF Writing
  <2>3. Lay(y, "console")
    BY <1>8 DEF LaySlots
  <2>. HIDE DEF y
  <2>4. Lays(y, L, E(stage), E("console"))
    BY <2>1, <2>2, Remainders
  <2>. QED BY <2>1, <2>3, <2>4, LayStage
<1>9. CASE LayConsole
  <2>. DEFINE Block(n) == Fill(ConsoleAt(image, n), ConsoleAt(image, n) + BlockSize(image))
                          \o Item(ConsoleName[n + 1], ConsoleAt(image, n), kSettingsSpan)
              y == IF image.console THEN Block(0) \o Block(1) \o Block(2) ELSE <<>>
  <2>1. Writing /\ stage = "console"
    BY <1>3, <1>9 DEF LayConsole, Untouched
  <2>2. Lays(y, L, Left(FromConsole, image, q), Left(FromAnchors, image, q))
    BY <2>1, LaysConsole DEF Writing
  <2>3. Lay(y, "anchors")
    BY <1>9 DEF LayConsole, SettingsBlock, ConsoleAt
  <2>. HIDE DEF y
  <2>4. Lays(y, L, E(stage), E("anchors"))
    BY <2>1, <2>2, Remainders
  <2>. QED BY <2>1, <2>3, <2>4, LayStage
<1>10. CASE LayAnchors
  <2>. DEFINE Anchor(n) == Item(AnchorName[n], kAnchorOffsets[n], \h4000)
              y == IF image.shape = "emmc" THEN Anchor(1) \o Anchor(2) ELSE <<>>
  <2>1. Writing /\ stage = "anchors"
    BY <1>3, <1>10 DEF LayAnchors, Untouched
  <2>2. Lays(y, L, Left(FromAnchors, image, q), Left(FromPayloads, image, q))
    BY <2>1, LaysAnchors DEF Writing
  <2>3. Lay(y, "payloads")
    BY SMT, <1>10 DEF LayAnchors
  <2>. HIDE DEF y
  <2>4. Lays(y, L, E(stage), E("payloads"))
    BY <2>1, <2>2, Remainders
  <2>. QED BY <2>1, <2>3, <2>4, LayStage
<1>11. CASE LayPayloads
  <2>. DEFINE y == (IF q.glitch /\ image.patch # "none"
                    THEN Fill(q.overlay, q.overlay + q.stride) ELSE <<>>)
                   \o Item("payload", \h200, On(image.payload, kSmcPayloadSize))
                   \o Item("rebooter", q.window, image.rebooter)
                   \o (IF image.rebooter # 0 /\ q.jtag
                       THEN Fill(q.window + image.rebooter, q.window + \h1000) ELSE <<>>)
                   \o Item("fuses", q.fuses, On(image.fuses, kFuseSize))
                   \o Item("xell", q.xell, On(image.xell, kXellSize))
  <2>1. Writing /\ stage = "payloads"
    BY <1>3, <1>11 DEF LayPayloads, Untouched
  <2>2. Lays(y, L, Left(FromPayloads, image, q), Left(FromPatch, image, q))
    BY SMT, <2>1, LaysPayloads DEF Writing
  <2>3. Lay(y, "patch")
    BY SMT, <1>11 DEF LayPayloads
  <2>. HIDE DEF y
  <2>4. Lays(y, L, E(stage), E("patch"))
    BY <2>1, <2>2, Remainders
  <2>. QED BY <2>1, <2>3, <2>4, LayStage
<1>12. CASE LayPatch
  <2>1. Writing /\ stage = "patch" /\ Scene(built, p, image, q)
    BY <1>3, <1>12 DEF LayPatch, Untouched, Writing
  <2>2. CASE image.patch = "none"
    <3>1. Lay(<<>>, "chain2")
      BY <1>12, <2>2 DEF LayPatch
    <3>2. Lays(<<>>, L, E(stage), E("chain2"))
      BY <2>1, <2>2, LaysNoPatch, Remainders
    <3>. QED BY <2>1, <3>1, <3>2, LayStage
  <2>3. CASE image.patch # "none"
    <3>. DEFINE at == IF image.patch = "jtag" THEN q.window + \h1000 ELSE q.overlay + q.prefix
                room == IF image.patch = "jtag" THEN kJTAGPatchesSize ELSE q.stride - q.prefix
                patch == Piece("patch", at, image.patchSize)
                neighbours == {Piece("xell", q.xell, On(image.xell, kXellSize)),
                               Piece("rebooter", q.window, image.rebooter),
                               Piece("fuses", q.fuses, On(image.fuses, kFuseSize))}
                stuck == \/ image.patchSize > room
                         \/ \E n \in neighbours : n.from < n.to /\ Overlap(patch, n)
                y == <<patch>> \o PatchFills(image, q, at + image.patchSize)
    <3>1. ~stuck
      BY SMT, <2>1, <2>3, PatchFits
    <3>2. Lays(y, L, Left(FromPatch, image, q), Left(SecondNames, image, q))
      BY SMT, <2>1, <2>3, LaysPatch
    <3>3. IF stuck THEN stage' = "failed" /\ UNCHANGED <<built, image, laid>> ELSE Lay(y, "chain2")
      BY SMT, <1>12, <2>3 DEF LayPatch
    <3>. HIDE DEF stuck, y
    <3>4. Lay(y, "chain2")
      BY <3>1, <3>3
    <3>5. Lays(y, L, E(stage), E("chain2"))
      BY <2>1, <3>2, Remainders
    <3>. QED BY <2>1, <3>4, <3>5, LayStage
  <2>. QED BY <2>2, <2>3
<1>13. CASE LaySecondChain
  <2>. DEFINE end == IF image.extraCd # 0 THEN ExtraCdAt(image, q) + image.extraCd
                                          ELSE ExtraCbAt(q) + image.extraCb
              y == IF q.jtag /\ (image.extraCb # 0 \/ image.extraCd # 0)
                   THEN Item("extraCb", ExtraCbAt(q), image.extraCb)
                          \o Item("extraCd", ExtraCdAt(image, q), image.extraCd)
                          \o Fill(end, BlockEnd(end))
                   ELSE <<>>
  <2>1. Writing /\ stage = "chain2"
    BY <1>3, <1>13 DEF LaySecondChain, Untouched
  <2>2. Lays(y, L, Left(SecondNames, image, q), Left({}, image, q))
    BY SMT, <2>1, LaysSecondChain DEF Writing
  <2>3. Lay(y, "done")
    BY SMT, <1>13 DEF LaySecondChain
  <2>. HIDE DEF y
  <2>4. Lays(y, L, E(stage), E("done"))
    BY <2>1, <2>2, Remainders
  <2>. QED BY <2>1, <2>3, <2>4, LayStage
<1>14. CASE UNCHANGED vars
  BY <1>3, <1>14 DEF vars, Untouched, Writing
<1>. QED BY <1>4, <1>5, <1>6, <1>7, <1>8, <1>9, <1>10, <1>11, <1>12, <1>13, <1>14 DEF Next

\* Of an image whose SMC, boot chain and JTAG patches end where they should, no part is
\* lost to what the stages of write_to_driver lay and fill after it, and the
\* write of an image payload_layout accepts is never refused half way: for every
\* image run_build assembles, whatever the lengths of its parts, when it is built
\* and when it is read back and written again (FlashImageWrite.cpp).
THEOREM LaidBytesStand ==
  Spec => [](PartsInPlace(built) /\ PatchesInBlock(built) => LaidBytesSurvive)
<1>1. WritingInv => (PartsInPlace(built) /\ PatchesInBlock(built) => LaidBytesSurvive)
  <2>. SUFFICES ASSUME PartsInPlace(built), PatchesInBlock(built), Untouched \/ Writing
                PROVE  LaidBytesSurvive
    BY DEF WritingInv
  <2>1. CASE Untouched
    BY <2>1 DEF Untouched, LaidBytesSurvive
  <2>2. CASE Writing
    <3>. SUFFICES ASSUME stage = "done", NEW n \in DOMAIN laid, laid[n].what # "fill" PROVE Stands(n)
      BY <2>2 DEF LaidBytesSurvive, Writing
    <3>1. Laid(laid, Canvas(built, Plan(built), image, Plan(image)), Left({}, image, Plan(image)))
      BY <2>2, Remainders DEF Writing
    <3>2. laid[n].what \notin Left({}, image, Plan(image)) \cup {"fill"}
      BY DEF Left
    <3>3. n \in 1 .. Len(laid)
      BY <3>1 DEF Laid
    <3>4. StandsIn(laid, n)
      BY <3>1, <3>2, <3>3 DEF Laid
    <3>. QED BY <3>4 DEF StandsIn, Stands
  <2>. QED BY <2>1, <2>2
<1>. QED BY <1>1, WritingInit, WritingStep, PTL DEF Spec

\* And where a XeLL follows the JTAG patches, nothing is laid in a block that
\* run_build gives the files, the root and the mobile data
\* (active_payload_block_ranges, BuildRunner.cpp).
THEOREM FilesAreaStaysClear ==
  Spec => [](PartsInPlace(built) /\ PatchesInBlock(built) /\ XellBehindPatches(built)
                => FilesAreaClear)
<1>1. WritingInv => (PartsInPlace(built) /\ PatchesInBlock(built) /\ XellBehindPatches(built)
                       => FilesAreaClear)
  <2>. SUFFICES ASSUME PartsInPlace(built), PatchesInBlock(built), XellBehindPatches(built),
                       Untouched \/ Writing, NEW n \in DOMAIN laid
                PROVE  Clear(built, laid[n].from, laid[n].to - laid[n].from)
    BY DEF WritingInv, FilesAreaClear, Clear
  <2>1. Writing
    BY DEF Untouched
  <2>2. Laid(laid, Canvas(built, Plan(built), image, Plan(image)),
             Left(Remaining(stage), image, Plan(image)))
    BY <2>1 DEF Writing
  <2>3. n \in 1 .. Len(laid)
    BY <2>2 DEF Laid
  <2>4. laid[n] \in Canvas(built, Plan(built), image, Plan(image))
    BY <2>2, <2>3 DEF Laid
  <2>5. Fine(built, laid[n].from, laid[n].to - laid[n].from)
    BY <2>4 DEF Canvas
  <2>. QED BY <2>5 DEF Fine
<1>. QED BY <1>1, WritingInit, WritingStep, PTL DEF Spec
=============================================================================
