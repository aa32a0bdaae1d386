----------------------------- MODULE ImageLayout -----------------------------
(***************************************************************************)
(* Where a flash image puts its parts, and the order in which the image    *)
(* writer lays them: the layout plan and the payload checks                *)
(* (FlashImageLayout), the stages of write_to_driver (FlashImageWrite) and *)
(* what reading the written image back recovers of its layout              *)
(* (FlashImageParse).                                                      *)
(*                                                                         *)
(* Offsets and lengths are the clean byte offsets of the code. What is     *)
(* laid is the sequence of pieces written, each an interval with the name  *)
(* of the item it holds; a fill (zero or erased bytes) is a piece too. The *)
(* filesystem, the mobile data and the spare bytes are the subject of      *)
(* FlashFS and FlashDisk; here they are the blocks they may use.           *)
(***************************************************************************)
EXTENDS Integers, Sequences, FiniteSets, FiniteSetsExt

CONSTANT Images    \* the images handed to the writer, as built

Shapes  == {"small", "small64", "big", "emmc"}
Types   == {"none", "retail", "glitch", "glitch2m", "jtag", "devkit", "devgl"}
MaxLength == \h100000     \* bound: the longest part
Lengths == 0 .. MaxLength

\* What an image holds, as far as its layout goes: lengths in bytes, 0 for an
\* absent part; "glitch" stands for the types that differ only in their boot
\* chain (glitch, glitch2 and glitch3).
ImageRecord ==
    [shape : Shapes, type : Types,
     preserve : BOOLEAN,                      \* preserve_layout: a dump written back
     base : Lengths, stride : Lengths,        \* header cf_offset, fs_addr; 0 not stated
     smc : Lengths, chain : Lengths,
     cf : [0 .. 1 -> Lengths], cg : [0 .. 1 -> Lengths],
     console : BOOLEAN,                       \* settings, statistics, manufacturing
     xell : BOOLEAN, payload : BOOLEAN, fuses : BOOLEAN,
     rebooter : Lengths,
     patch : {"none", "jtag", "glitch"}, patchSize : Lengths,
     mfg : BOOLEAN,                           \* the patch set's manufacturing mark
     extraCb : Lengths, extraCd : Lengths]

ASSUME ImagesAssumption == \A i \in Images : i \in ImageRecord

VARIABLES
    built,    \* the image as it was built
    image,    \* the image being written: built, or what was read back of it
    stage,    \* the stage write_to_driver has reached
    laid      \* the pieces laid since the flash was erased

vars == <<built, image, stage, laid>>

---------------------------------------------------------------------------
(* Geometry.                                                               *)

kEntryOffset      == \h8000
kKeyvaultOffset   == \h4000
kXellOffset       == \h70000
kXellSize         == \h40000
kJtagSlotOffset   == \h70000
kJtagWindowOffset == \h90000
kDevglSlotOffset  == \hD0000
kLayBlockSize     == \h4000
kJTAGPatchesSize  == \h4000
kSettingsSpan     == \h1000
kCgHeaderSize     == \h50
kFuseSize         == \h60
kSmcPayloadSize   == \h200
kAnchorOffsets    == <<\h2FE8000, \h2FEC000>>

RoundUp(n, step)  == ((n + step - 1) \div step) * step
Align16(n)        == RoundUp(n, 16)

BlockSize(i) == IF i.shape = "big" THEN \h20000 ELSE \h4000

BlockCount(i) == CASE i.shape = "small"   -> \h400
                   [] i.shape = "small64" -> \h1000
                   [] i.shape = "big"     -> \h200
                   [] i.shape = "emmc"    -> \hC00

ImageSize(i) == BlockCount(i) * BlockSize(i)

\* The first block of the reserved tail.
ReserveBlock(i) ==
    LET reserve == CASE i.shape = "big"  -> \h1E0
                     [] i.shape = "emmc" -> \hC00
                     [] OTHER -> IF BlockCount(i) > \h400
                                 THEN BlockCount(i) - BlockCount(i) \div 32
                                 ELSE \h3E0
    IN Min({reserve, BlockCount(i)})

DataBlockLimit(i) ==
    IF i.shape = "emmc" THEN Min({ReserveBlock(i) - 4, BlockCount(i) - 6})
                        ELSE ReserveBlock(i) - 4

SmcConfigBlock(i) == ReserveBlock(i) - 1

\* The blocks a byte interval touches; none when it runs past the image.
BlockRange(i, from, length) ==
    IF length = 0 \/ from + length > ImageSize(i) THEN {}
    ELSE (from \div BlockSize(i)) .. ((from + length - 1) \div BlockSize(i))

---------------------------------------------------------------------------
(* The layout plan.                                                        *)

IsJtag(i)          == i.type = "jtag" \/ i.patch = "jtag"
IsGlitchBuild(t)   == t \in {"glitch", "glitch2m"}
SlotRound(i)       == IF i.shape = "big" THEN \h20000 ELSE \h10000
RetailSlotOffset(i) == IF i.shape = "big" THEN \h80000 ELSE \h70000
GlitchSlotOffset(i) == RoundUp(kXellOffset + kXellSize, SlotRound(i))

SlotSize(i) == IF i.preserve THEN IF i.stride # 0 THEN i.stride ELSE \h10000
               ELSE IF ~IsJtag(i) /\ i.shape = "big" THEN \h20000
               ELSE \h10000

XellOffset(i, glitch, jtag) ==
    IF jtag \/ (~glitch /\ i.rebooter # 0) THEN kJtagWindowOffset + \h5060
                                           ELSE kXellOffset

BootChainEnd(i) == kEntryOffset + Align16(i.chain)

SlotBehindXell(i, glitch, jtag) ==
    LET slotBase == IF jtag THEN kJtagSlotOffset ELSE RetailSlotOffset(i)
        xell     == XellOffset(i, glitch, jtag)
    IN IF i.xell /\ xell <= slotBase
       THEN Max({slotBase, RoundUp(xell + kXellSize, SlotRound(i))})
       ELSE slotBase

UpdateBase(i, glitch, jtag) ==
    CASE i.preserve /\ i.base # 0 -> i.base
      [] ~(i.preserve /\ i.base # 0) /\ i.type = "devkit" ->
            RoundUp(BootChainEnd(i), BlockSize(i))
      [] ~(i.preserve /\ i.base # 0) /\ i.type = "devgl" ->
            RoundUp(kDevglSlotOffset, SlotRound(i))
      [] OTHER -> SlotBehindXell(i, glitch, jtag)

Manufacturing(i) == i.type \in {"glitch2m", "devgl"} \/ (i.patch # "none" /\ i.mfg)

MakePlan(i, glitch, jtag) ==
    LET base   == UpdateBase(i, glitch, jtag)
        stride == SlotSize(i)
    IN [glitch |-> glitch, jtag |-> jtag,
        base   |-> base, stride |-> stride, overlay |-> base + stride,
        window |-> kJtagWindowOffset,
        xell   |-> XellOffset(i, glitch, jtag),
        fuses  |-> IF Manufacturing(i) THEN base + stride ELSE kJtagWindowOffset + \h5000,
        prefix |-> IF Manufacturing(i) THEN \h60 ELSE \h10]

\* The plan the checks and the writer share.
Plan(i) == MakePlan(i,
    \/ IsGlitchBuild(i.type)
    \/ i.patch = "glitch"
    \/ i.xell /\ i.base = GlitchSlotOffset(i),
    IsJtag(i))

\* The mutated form of PlanForSeal: the JTAG test looks at the patch set only.
PlanForSealByPatch(i, sealed) ==
    MakePlan(i, IsGlitchBuild(sealed), i.patch = "jtag")

\* The plan encrypt_all reserves the update slots by, for the type it seals.
PlanForSeal(i, sealed) ==
    MakePlan(i, IsGlitchBuild(sealed), sealed = "jtag" \/ i.patch = "jtag")

ExtraCbAt(p)    == p.window + \h5060 + kXellSize
ExtraCdAt(i, p) == ExtraCbAt(p) + Align16(i.extraCb)

---------------------------------------------------------------------------
(* The payload checks: every range the layout claims, and their overlaps.  *)

Piece(what, from, length) == [what |-> what, from |-> from, to |-> from + length]

CfName      == <<"CF0", "CF1">>
CgName      == <<"CG0", "CG1">>
ConsoleName == <<"settings", "statistics", "manufacturing">>
AnchorName  == <<"anchor1", "anchor2">>

Overlap(p, q) == p.from < q.to /\ q.from < p.to

\* The part of a CG its slot holds.
CgRoom(i, p, s) ==
    LET at == p.base + s * p.stride + Align16(i.cf[s])
        end == p.base + (s + 1) * p.stride
    IN Min({i.cg[s], IF at < end THEN end - at ELSE 0})

\* The mutated form of SlotRanges: the CG behind a CF claims nothing.
SlotRangesCfOnly(i, p, s) ==
    IF i.cf[s] = 0 THEN {} ELSE {Piece(CfName[s + 1], p.base + s * p.stride, i.cf[s])}

SlotRanges(i, p, s) ==
    IF i.cf[s] = 0 THEN {}
    ELSE {Piece(CfName[s + 1], p.base + s * p.stride, i.cf[s]),
          Piece(CgName[s + 1], p.base + s * p.stride + Align16(i.cf[s]), CgRoom(i, p, s))}

PatchRange(i, p) ==
    CASE i.patch = "jtag"   -> {Piece("patch", p.window + \h1000, i.patchSize)}
      [] i.patch = "glitch" -> {Piece("patch", p.overlay + p.prefix, p.stride - p.prefix)}
      [] OTHER              -> {}

PayloadRanges(i, p) ==
    {r \in {Piece("xell", p.xell, IF i.xell THEN kXellSize ELSE 0),
            Piece("payload", \h200, IF i.payload THEN kSmcPayloadSize ELSE 0),
            Piece("rebooter", p.window, i.rebooter),
            Piece("fuses", p.fuses, IF i.fuses THEN kFuseSize ELSE 0),
            Piece("extraCb", ExtraCbAt(p), IF p.jtag THEN i.extraCb ELSE 0),
            Piece("extraCd", ExtraCdAt(i, p), IF p.jtag THEN i.extraCd ELSE 0),
            Piece("chain", kEntryOffset, Align16(i.chain))}
           \cup SlotRanges(i, p, 0) \cup SlotRanges(i, p, 1) \cup PatchRange(i, p) :
        r.from < r.to}

CfLeavesRoom(i, p, s) ==
    i.cf[s] # 0 => Align16(i.cf[s]) + (IF i.cg[s] # 0 THEN kCgHeaderSize ELSE 0) <= p.stride

KhvFits(i, p) == i.patch = "glitch" => i.patchSize <= p.stride - p.prefix

NoCollision(ranges) == \A r, q \in ranges : r # q => ~Overlap(r, q)

\* payload_layout accepts the image.
PayloadLayout(i) ==
    LET p == Plan(i)
        ranges == PayloadRanges(i, p)
    IN /\ ~(p.glitch /\ i.cf[1] # 0)
       /\ \A s \in 0 .. 1 : CfLeavesRoom(i, p, s) /\ (i.cg[s] # 0 => i.cf[s] # 0)
       /\ KhvFits(i, p)
       /\ NoCollision(ranges)

On(flag, n) == IF flag THEN n ELSE 0

\* The mutated form of ActivePayloadBlocks: the second chain is forgotten.
ActiveWithoutSecondChain(i) ==
    LET p == Plan(i)
    IN UNION {BlockRange(i, p.window, i.rebooter),
              BlockRange(i, p.xell, On(i.xell, kXellSize)),
              BlockRange(i, p.overlay, On(p.glitch, p.stride))}

\* The blocks the payloads keep the filesystem and the mobile data out of.
ActivePayloadBlocks(i) ==
    LET p == Plan(i)
    IN UNION {BlockRange(i, \h200, On(i.payload, kSmcPayloadSize)),
              BlockRange(i, p.window, i.rebooter),
              BlockRange(i, p.fuses, On(i.fuses, kFuseSize)),
              BlockRange(i, p.xell, On(i.xell, kXellSize)),
              BlockRange(i, p.overlay, On(p.glitch, p.stride)),
              BlockRange(i, p.window + \h1000, On(i.patch = "jtag", i.patchSize)),
              BlockRange(i, ExtraCbAt(p), On(p.jtag, i.extraCb)),
              BlockRange(i, ExtraCdAt(i, p), On(p.jtag, i.extraCd))}

\* The first block run_build gives the files: past the update slots and every
\* payload.
FirstFileBlock(i) ==
    LET p == Plan(i)
    IN Max({RoundUp(p.base + 2 * p.stride, BlockSize(i)) \div BlockSize(i)}
           \cup {b + 1 : b \in ActivePayloadBlocks(i)})

InFilesArea(i, b) ==
    FirstFileBlock(i) <= b /\ b < DataBlockLimit(i) /\ b \notin ActivePayloadBlocks(i)

---------------------------------------------------------------------------
(* Laying the image.                                                       *)

Item(what, from, length) ==
    IF length = 0 THEN <<>> ELSE <<Piece(what, from, length)>>

Fill(from, to) == IF from >= to THEN <<>> ELSE <<Piece("fill", from, to - from)>>

BlockEnd(n) == RoundUp(n, kLayBlockSize)

\* Writes the pieces, unless one runs past the image, and goes on.
Lay(pieces, next) ==
    /\ IF \E n \in DOMAIN pieces : pieces[n].to > ImageSize(image)
       THEN stage' = "failed" /\ UNCHANGED laid
       ELSE stage' = next /\ laid' = laid \o pieces
    /\ UNCHANGED <<built, image>>

Init ==
    /\ built \in Images
    /\ image = built
    /\ stage = "check"
    /\ laid = <<>>

\* payload_layout, then the erase a built image starts from.
CheckLayout ==
    /\ stage = "check"
    /\ stage' = IF PayloadLayout(image) THEN "head" ELSE "refused"
    /\ laid' = IF image.preserve THEN laid ELSE <<>>
    /\ UNCHANGED <<built, image>>

\* The header, the zero fill up to the SMC, the SMC and the keyvault.
LayHead ==
    /\ stage = "head"
    /\ LET smcAt == kKeyvaultOffset - (IF image.smc = 0 THEN \h3000 ELSE image.smc)
       IN IF smcAt < \h80 THEN stage' = "failed" /\ UNCHANGED <<built, image, laid>>
          ELSE Lay(Item("header", 0, \h80)
                   \o (IF image.preserve THEN <<>> ELSE Fill(\h80, smcAt))
                   \o Item("smc", smcAt, image.smc)
                   \o Item("keyvault", kKeyvaultOffset, \h4000), "chain")

LayChain ==
    /\ stage = "chain"
    /\ Lay(Item("chain", kEntryOffset, Align16(image.chain))
           \o (IF image.preserve THEN <<>>
               ELSE Fill(BootChainEnd(image), BlockEnd(BootChainEnd(image)))), "slots")

LaySlots ==
    /\ stage = "slots"
    /\ LET p == Plan(image)
           Slot(s) == Item(CfName[s + 1], p.base + s * p.stride, image.cf[s])
                      \o Item(CgName[s + 1], p.base + s * p.stride + Align16(image.cf[s]),
                              On(image.cf[s] # 0, CgRoom(image, p, s)))
       IN Lay(Slot(0) \o Slot(1), "console")

\* A good block is erased before the bytes go to its head; none is bad here.
SettingsBlock(what, at) ==
    Fill(at, at + BlockSize(image)) \o Item(what, at, kSettingsSpan)

\* The settings, statistics and manufacturing blocks, each one below the last.
LayConsole ==
    /\ stage = "console"
    /\ LET Block(n) == SettingsBlock(ConsoleName[n + 1],
                                     (SmcConfigBlock(image) - n) * BlockSize(image))
       IN Lay(IF image.console THEN Block(0) \o Block(1) \o Block(2) ELSE <<>>, "anchors")

\* The mobile data, the files and the root go in the files' area (FlashDisk);
\* an eMMC image then states their places in its two anchor blocks.
LayAnchors ==
    /\ stage = "anchors"
    /\ LET Anchor(n) == Item(AnchorName[n], kAnchorOffsets[n], \h4000)
       IN Lay(IF image.shape = "emmc" THEN Anchor(1) \o Anchor(2) ELSE <<>>, "payloads")

LayPayloads ==
    /\ stage = "payloads"
    /\ LET p == Plan(image)
       IN Lay((IF p.glitch /\ image.patch # "none"
               THEN Fill(p.overlay, p.overlay + p.stride) ELSE <<>>)
              \o Item("payload", \h200, On(image.payload, kSmcPayloadSize))
              \o Item("rebooter", p.window, image.rebooter)
              \o (IF image.rebooter # 0 /\ p.jtag
                  THEN Fill(p.window + image.rebooter, p.window + \h1000) ELSE <<>>)
              \o Item("fuses", p.fuses, On(image.fuses, kFuseSize))
              \o Item("xell", p.xell, On(image.xell, kXellSize)), "patch")

\* What lay_patch_payload writes behind the patches.
PatchFills(i, p, end) ==
    IF i.patch = "jtag"
    THEN Fill(end, BlockEnd(end)) \o Fill(BlockEnd(end), p.window + \h1000 + kJTAGPatchesSize)
    ELSE Fill(end, p.overlay + kLayBlockSize)

LayPatch ==
    /\ stage = "patch"
    /\ LET p == Plan(image)
           at == IF image.patch = "jtag" THEN p.window + \h1000 ELSE p.overlay + p.prefix
           room == IF image.patch = "jtag" THEN kJTAGPatchesSize ELSE p.stride - p.prefix
           patch == Piece("patch", at, image.patchSize)
           neighbours == {Piece("xell", p.xell, On(image.xell, kXellSize)),
                          Piece("rebooter", p.window, image.rebooter),
                          Piece("fuses", p.fuses, On(image.fuses, kFuseSize))}
       IN IF image.patch = "none" THEN Lay(<<>>, "chain2")
          ELSE IF image.patchSize > room
                  \/ \E n \in neighbours : n.from < n.to /\ Overlap(patch, n)
          THEN stage' = "failed" /\ UNCHANGED <<built, image, laid>>
          ELSE Lay(<<patch>> \o PatchFills(image, p, at + image.patchSize), "chain2")

\* The JTAG second chain and the zero fill to the end of its block.
LaySecondChain ==
    /\ stage = "chain2"
    /\ LET p == Plan(image)
           end == IF image.extraCd # 0 THEN ExtraCdAt(image, p) + image.extraCd
                                       ELSE ExtraCbAt(p) + image.extraCb
       IN Lay(IF p.jtag /\ (image.extraCb # 0 \/ image.extraCd # 0)
              THEN Item("extraCb", ExtraCbAt(p), image.extraCb)
                   \o Item("extraCd", ExtraCdAt(image, p), image.extraCd)
                   \o Fill(end, BlockEnd(end))
              ELSE <<>>, "done")

---------------------------------------------------------------------------
(* Reading the written image back.                                         *)

\* The mutated form of EncodedHeader: the donor's first slot is stated again.
EncodedHeaderOfDonor(i, p) ==
    [base |-> IF i.base # 0 THEN i.base ELSE p.base, stride |-> p.stride]

\* What the header of a written image states of its layout.
EncodedHeader(i, p) == [base |-> p.base, stride |-> p.stride]

\* The image parse() recovers: its type is inferred from the development chain,
\* the KHV stream in the second slot and the XeLL, its payloads read where that
\* type puts them.
Reparsed(i) ==
    LET p == Plan(i)
        header == EncodedHeader(i, p)
        devkit == i.type \in {"devkit", "devgl"}
        khv == i.patch = "glitch" /\ i.patchSize > 4
        byKhv == CASE devkit -> IF i.type = "devgl" /\ khv /\ p.prefix = \h60
                                THEN "devgl" ELSE "devkit"
                   [] ~devkit /\ khv -> IF p.prefix = \h10 THEN "glitch" ELSE "glitch2m"
                   [] OTHER -> "none"
        front == i.xell /\ ~devkit /\ p.xell = kXellOffset
        window == /\ i.xell /\ ~front /\ byKhv = "none"
                  /\ header.base # GlitchSlotOffset(i)
        type == CASE byKhv # "none" -> byKhv
                  [] byKhv = "none" /\ front -> "glitch"
                  [] byKhv = "none" /\ window -> "jtag"
                  [] OTHER -> "none"
        hasKhv == byKhv \in {"glitch", "glitch2m", "devgl"}
    IN [i EXCEPT !.type = type, !.preserve = TRUE,
                 !.base = header.base, !.stride = header.stride,
                 !.xell = front \/ window, !.payload = FALSE,
                 !.fuses = type \in {"glitch2m", "devgl"}
                           \/ (type = "jtag" /\ i.fuses /\ p.fuses = p.window + \h5000),
                 !.rebooter = IF type = "jtag" /\ i.rebooter # 0 THEN \h1000 ELSE 0,
                 !.patch = IF hasKhv THEN "glitch" ELSE "none",
                 !.patchSize = IF hasKhv THEN @ ELSE 0,
                 !.mfg = byKhv \in {"glitch2m", "devgl"},
                 !.extraCb = 0, !.extraCd = 0]

\* A written image is read back and is to be written again.
Reparse ==
    /\ stage = "done"
    /\ ~image.preserve
    /\ image' = Reparsed(image)
    /\ stage' = "check"
    /\ UNCHANGED <<built, laid>>

Next ==
    \/ CheckLayout \/ LayHead \/ LayChain \/ LaySlots \/ LayConsole \/ LayAnchors
    \/ LayPayloads \/ LayPatch \/ LaySecondChain \/ Reparse

Spec == Init /\ [][Next]_vars

---------------------------------------------------------------------------
(* The images handed to the writer.                                        *)

\* What run_build and its checks make sure of: a fresh image of a known type
\* with the patch set of that type, or the donor's where the build has none, of
\* which the terminator is laid at least; a rebooter of 1000h bytes at most
\* (InputValidator), kept from a JTAG donor by a retail build only.
Assembled(i) ==
    /\ ~i.preserve /\ i.type # "none"
    /\ i.patch \in CASE i.type = "jtag"                  -> {"none", "jtag"}
                      [] i.type \in {"retail", "devkit"} -> {"none", "glitch"}
                      [] OTHER                           -> {"glitch"}
    /\ i.mfg => i.patch = "glitch"
    /\ i.patch # "none" => i.patchSize >= 4
    /\ i.rebooter <= \h1000
    /\ i.rebooter # 0 /\ i.type = "retail"
           => i.patch = "none" /\ i.base # GlitchSlotOffset(i)

ASSUME AssembledAssumption == \A i \in Images : Assembled(i)

\* The SMC leaves the payload at 200h alone and the boot chain ends below the
\* second update slot: payload_layout compares neither, and run_build looks at the
\* chain only where it patches it (BuildRunner.cpp:1315).
PartsInPlace(i) == i.smc <= \h3C00 /\ BootChainEnd(i) <= Plan(i).overlay

\* JTAG patches end in the block they start in, and a XeLL follows them.  What
\* the fills behind other patches meet is the subject of ImageLayout_fill and
\* ImageLayout_bare.
PatchesInBlock(i)    == i.patch = "jtag" => i.patchSize <= \h3000
XellBehindPatches(i) == i.patch = "jtag" => i.xell

---------------------------------------------------------------------------
(* Properties.                                                             *)

TypeOK ==
    /\ {built, image} \subseteq ImageRecord
    /\ stage \in {"check", "refused", "failed", "head", "chain", "slots", "console",
                  "anchors", "payloads", "patch", "chain2", "done"}
    /\ \A n \in DOMAIN laid : laid[n].from < laid[n].to /\ laid[n].to <= ImageSize(built)

\* The bytes of the n-th piece stand at the end: it, or the same item laid again
\* at its place, is met by no later piece.
Stands(n) ==
    \E k \in n .. Len(laid) :
        /\ laid[k].what = laid[n].what /\ laid[k].from = laid[n].from
        /\ laid[k].to >= laid[n].to
        /\ \A m \in k + 1 .. Len(laid) : ~Overlap(laid[m], laid[n])

\* No part of an image is lost to a part or a fill laid after it, neither when
\* the image is built nor when it is read back and written again: the ranges
\* payload_layout compares (FlashImageLayout.cpp) cover what the stages of
\* write_to_driver lay and fill (FlashImageWrite.cpp).  And an image that
\* payload_layout accepts is written whole: the capacity, overlap and range
\* checks of the stages, made after the flash has been erased, never refuse it.
LaidBytesSurvive ==
    /\ stage # "failed"
    /\ stage = "done" => \A n \in DOMAIN laid : laid[n].what # "fill" => Stands(n)

\* Nothing the writer lays outside the filesystem meets a block that run_build
\* gives the files, the root and the mobile data of the image
\* (BuildRunner.cpp, active_payload_block_ranges), fills and erased console
\* blocks included, also when the image is read back and written again.
FilesAreaClear ==
    \A n \in DOMAIN laid :
        \A b \in BlockRange(built, laid[n].from, laid[n].to - laid[n].from) :
            ~InFilesArea(built, b)

\* For every image payload_layout accepts, encrypt_all reserves the update slots
\* where the writer lays them, though the two plans tell a glitch and a JTAG
\* image by different rules.
SealPlanAgrees ==
    stage = "head" /\ ~image.preserve =>
        LET p == Plan(image)
            q == PlanForSeal(image, image.type)
        IN <<p.base, p.stride>> = <<q.base, q.stride>>

\* A written image, read back, plans the same update slots, the same second slot
\* and the same places for the XeLL, the fuses and the KHV patches it recovers:
\* the type parse() infers may differ from the one built, the layout may not.
LayoutReadBack ==
    image.preserve =>
        LET p == Plan(built)
            q == Plan(image)
        IN /\ <<p.base, p.stride>> = <<q.base, q.stride>>
           /\ image.xell => q.xell = p.xell
           /\ image.fuses => q.fuses = p.fuses
           /\ image.patch = "glitch" => q.prefix = p.prefix

\* What the comment on zero_fill says (FlashImageWrite.cpp:571): a fill after a
\* JTAG window item stops at the next item.
ZeroFillStopsAtNextItem ==
    \A n, m \in DOMAIN laid :
        m > n /\ laid[m].what = "fill" /\ laid[n].what \in {"fuses", "xell"}
            => ~Overlap(laid[n], laid[m])
=============================================================================
