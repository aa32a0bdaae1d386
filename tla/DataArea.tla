------------------------------ MODULE DataArea ------------------------------
(***************************************************************************)
(* The blocks behind the boot area of a NAND over its life: settings blobs *)
(* kept as copies in page order, the filesystem's root and file blocks,    *)
(* and blocks the chip has marked bad.                                     *)
(*                                                                         *)
(* A console appends copies and moves its root between runs of the         *)
(* program (external: what the parser's comments say a console does).  The *)
(* program parses such a dump and writes it back (preserve_layout), or     *)
(* rebuilds it with new settings and files.  Each is one step: run_build   *)
(* goes from the parse to the image without yielding, and an image write   *)
(* that fails leaves no image.                                             *)
(*                                                                         *)
(* A root or a file fills one erase block here, and the pages told apart   *)
(* are those of the settings copies.  Stamps of type 0 are left out.       *)
(***************************************************************************)
EXTENDS Integers, Sequences, FiniteSets

CONSTANTS
  NumBlocks,      \* block_count()
  PagesPerBlock,  \* pages_per_block()
  Big,            \* driver_mode() = Big: the copies are packed into one block
  SlotPages,      \* pages of a packing slot: 0x800 / 512 on big block
  DataBase,       \* the block data is laid from: plan.fs_base
  DataLimit,      \* data_block_limit()
  KindOrder,      \* mobile types in ascending order
  Content,        \* blobs
  Pages,          \* Pages[c]: pages blob c fills
  Supply,         \* the settings builds are given, a blob or Absent for a kind
  MaxVersion,     \* bound: versions a console counts up to
  MaxFiles,       \* bound: blocks of files a console or a build writes
  MaxBad,         \* bound: blocks that wear out
  WearsUnderFiles \* whether a block can go bad under a file

Kind  == {KindOrder[i] : i \in 1 .. Len(KindOrder)}
Block == 0 .. NumBlocks - 1

ASSUME AreaAssumption ==
  /\ Supply \subseteq [Kind -> Content \cup {"absent"}]
  /\ PagesPerBlock \in Nat \ {0} /\ SlotPages \in 1 .. PagesPerBlock
  /\ Big => PagesPerBlock % SlotPages = 0
  /\ NumBlocks \in Nat /\ DataBase \in Nat /\ DataLimit \in Nat
  /\ DataBase < DataLimit /\ DataLimit =< NumBlocks
  /\ \A c \in Content : Pages[c] \in 1 .. PagesPerBlock
  /\ Len(KindOrder) \in Nat
  /\ \A i, j \in 1 .. Len(KindOrder) : KindOrder[i] = KindOrder[j] => i = j
  /\ Kind \cap {"none", "root"} = {}
  /\ Content \cap {"absent", "mixed"} = {}
  /\ MaxFiles \in Nat

\* Page p of a block counts from 1.
Page == Block \X (1 .. PagesPerBlock)

NoStamp == [type |-> "none", seq |-> 0, free |-> 0, size |-> 0]
Absent  == "absent"
Mixed   == "mixed"
Empty   == <<"empty", 0>>
NoTable == [files |-> {}, held |-> {}, unnamed |-> {}]

\* A filesystem: its table, and the root that states it.
Filesystem(t, version, root) ==
  [files |-> t.files, held |-> t.held, unnamed |-> t.unnamed,
   version |-> version, root |-> root]

VARIABLES
  stamp,    \* stamp[pg]: the spare of a page
  body,     \* body[pg]: which part of which blob its bytes are
  table,    \* table[b]: the filesystem table a block's bytes hold
  bad,      \* blocks that carry the chip's mark
  home,     \* home[k]: the newest copy of k: its blob, block and version
  current,  \* the filesystem the newest root states
  last      \* the last call and how it ended

vars == <<stamp, body, table, bad, home, current, last>>

Lowest(S) == CHOOSE x \in S : \A y \in S : x =< y

PagesOf(blocks) == {pg \in Page : pg[1] \in blocks}

Blanked(pages, cells, blank) == [pg \in Page |-> IF pg \in pages THEN blank ELSE cells[pg]]

-----------------------------------------------------------------------------
(***************************************************************************)
(* Parsing: scan_mobile_copies, find_fs_root.                              *)
(***************************************************************************)

NoCopy == [found |-> FALSE, seq |-> 0, free |-> 0, first |-> 0, count |-> 0, size |-> 0]

\* Pages in the order the scan reads them, as numbers from 0.
PageAt(n) == <<n \div PagesPerBlock, (n % PagesPerBlock) + 1>>

Continues(copy, spare, n) ==
  /\ copy.found
  /\ copy.seq = spare.seq /\ copy.free = spare.free
  /\ copy.first + copy.count = n

\* A higher version wins, then a lower free count, then the later page.
Outranks(spare, copy) ==
  \/ ~copy.found
  \/ spare.seq > copy.seq
  \/ spare.seq = copy.seq /\ spare.free =< copy.free

\* The newest copy of kind k up to page n, from the newest one before it.
CopyAfter(copy, spares, badBlocks, k, n) ==
  LET spare == spares[PageAt(n)]
  IN  IF PageAt(n)[1] \in badBlocks \/ spare.type # k THEN copy
      ELSE IF Continues(copy, spare, n) THEN [copy EXCEPT !.count = @ + 1]
      ELSE IF Outranks(spare, copy)
      THEN [found |-> TRUE, seq |-> spare.seq, free |-> spare.free,
            first |-> n, count |-> 1, size |-> spare.size]
      ELSE copy

\* The live copy of kind k in spares and good blocks.
LiveCopy(spares, badBlocks, k) ==
  LET latest[n \in 0 .. NumBlocks * PagesPerBlock] ==
        IF n = 0 THEN NoCopy ELSE CopyAfter(latest[n - 1], spares, badBlocks, k, n - 1)
  IN  latest[NumBlocks * PagesPerBlock]

\* The blob a copy's bytes are, read for the length its spare states.
CopyContent(bytes, copy) ==
  LET reads(c) == /\ Pages[c] = copy.size
                  /\ \A i \in 1 .. copy.size : bytes[PageAt(copy.first + i - 1)] = <<c, i>>
  IN  IF ~copy.found THEN Absent
      ELSE IF \E c \in Content : reads(c) THEN CHOOSE c \in Content : reads(c) ELSE Mixed

Live(k) == CopyContent(body, LiveCopy(stamp, bad, k))

Scanned == [k \in Kind |-> Live(k)]

GoodRoots == {b \in Block \ bad : stamp[<<b, 1>>].type = "root" /\ stamp[<<b, 1>>].seq # 0}

\* The highest version, and the first block of those that carry it.
RootFound ==
  LET version == [b \in GoodRoots |-> stamp[<<b, 1>>].seq]
  IN  Lowest({b \in GoodRoots : \A c \in GoodRoots : version[c] =< version[b]})

\* What load makes of the root found: its table, under its stamp's version.
Opened ==
  IF GoodRoots = {} THEN Filesystem(NoTable, 0, {})
  ELSE Filesystem(table[RootFound], stamp[<<RootFound, 1>>].seq, {RootFound})

HasFs == GoodRoots # {}

-----------------------------------------------------------------------------
(***************************************************************************)
(* Writing: write_to_driver's stages on the data area, then serialize.     *)
(* An area record carries the NAND through the stages.                     *)
(***************************************************************************)

Area == [stamp |-> stamp, body |-> body, table |-> table, bad |-> bad]

Erase(area, blocks) ==
  [area EXCEPT !.stamp = Blanked(PagesOf(blocks), @, NoStamp),
               !.body  = Blanked(PagesOf(blocks), @, Empty),
               !.table = [b \in Block |-> IF b \in blocks THEN NoTable ELSE @[b]]]

\* Mutant: a block is purged only when its copies are of the lowest version.
PurgedOfFirstVersion(area) ==
  LET stale == {b \in Block : /\ area.stamp[<<b, 1>>].type \in Kind
                              /\ area.stamp[<<b, 1>>].seq = 1}
  IN  Erase(area, stale \ area.bad)

\* Mutant: a bad block is purged like a good one, its mark included.
PurgedWithMarks(area) ==
  LET stale == {b \in Block : area.stamp[<<b, 1>>].type \in Kind}
  IN  [Erase(area, stale) EXCEPT !.bad = @ \ stale]

\* purge_stale_mobile_blocks: by the type of a block's first page.  A bad
\* block loses its stamps only.
Purged(area) ==
  LET stale == {b \in Block : area.stamp[<<b, 1>>].type \in Kind}
  IN  Erase([area EXCEPT !.stamp = Blanked(PagesOf(stale), @, NoStamp)], stale \ area.bad)

\* Mutant: the stamp of a root on a bad block stays, and so does that of one
\* no newer than the filesystem written.
RootsOfOlderCleared(area, hasFs) ==
  IF ~hasFs THEN area
  ELSE [area EXCEPT !.stamp = [pg \in Page |->
         IF @[pg].type = "root" /\ @[pg].seq =< 1 THEN NoStamp ELSE @[pg]]]

\* clear_stale_fs_roots.
RootsCleared(area, hasFs) ==
  IF ~hasFs THEN area
  ELSE [area EXCEPT !.stamp = [pg \in Page |-> IF @[pg].type = "root" THEN NoStamp ELSE @[pg]]]

\* Mutant: a run is looked for without asking the filesystem.
FreeBesideBad(area, fs, cursor) ==
  {b \in cursor .. DataLimit - 1 : b \notin area.bad}

\* The blocks find_data_free_run takes the first of.
FreeFrom(area, fs, cursor) ==
  {b \in cursor .. DataLimit - 1 :
     b \notin area.bad \cup fs.files \cup fs.held \cup fs.unnamed \cup fs.withheld \cup fs.root}

RoundUp(pages) == ((pages + SlotPages - 1) \div SlotPages) * SlotPages

UsedPages(c) == IF Big THEN RoundUp(Pages[c]) ELSE Pages[c]

\* The free block a big block's blobs are laid behind, which the table then
\* never names.
SteppedOver(fs, b) ==
  {prev \in {b - 1} : prev >= DataBase /\
     prev \notin fs.files \cup fs.held \cup fs.unnamed \cup fs.withheld \cup fs.root}

\* The filesystem keeps out of b, which its table states free; the first block
\* opened on big block also takes the one stepped over.
Withholding(fs, b, isFirst) ==
  [fs EXCEPT !.withheld = @ \cup {b},
             !.unnamed  = IF Big /\ isFirst THEN @ \cup SteppedOver(fs, b) ELSE @]

\* Opens a block for a blob, erased.
BlockOpened(lay, hasFs) ==
  LET b == Lowest(FreeFrom(lay.area, lay.fs, lay.cursor))
  IN  [lay EXCEPT !.area   = Erase(@, {b}),
                  !.fs     = IF hasFs THEN Withholding(@, b, lay.open = -1) ELSE @,
                  !.open   = b,
                  !.next   = 1,
                  !.cursor = b + 1]

\* Writes blob c of kind k at the next page of the open block.
BlobLaid(lay, k, c) ==
  [lay EXCEPT
     !.area.body = [pg \in Page |->
        IF pg[1] = lay.open /\ pg[2] \in lay.next .. lay.next + Pages[c] - 1
        THEN <<c, pg[2] - lay.next + 1>> ELSE @[pg]],
     !.placed = Append(@, [kind |-> k, block |-> lay.open, first |-> lay.next,
                           pages |-> Pages[c],
                           free  |-> LET left == PagesPerBlock - (lay.next - 1) - UsedPages(c)
                                     IN  IF Big THEN left \div SlotPages ELSE left]),
     !.next = @ + UsedPages(c)]

\* Mutant: a blob goes into the open block although it runs past its end.
NeedsNoRoom(lay, c) == ~Big \/ lay.open = -1

NeedsBlock(lay, c) ==
  ~Big \/ lay.open = -1 \/ lay.next - 1 + UsedPages(c) > PagesPerBlock

\* The blob of one kind laid, in the open block or in a new one.
KindLaid(lay, hasFs, k, c) ==
  IF lay.full \/ c = Absent THEN lay
  ELSE IF ~NeedsBlock(lay, c) THEN BlobLaid(lay, k, c)
  ELSE IF FreeFrom(lay.area, lay.fs, lay.cursor) = {} THEN [lay EXCEPT !.full = TRUE]
  ELSE BlobLaid(BlockOpened(lay, hasFs), k, c)

\* lay_mobile_data: one copy of each blob, in type order.
MobileLaid(area, fs, hasFs, mobile) ==
  LET start == [area |-> area, fs |-> fs, open |-> -1, next |-> 1,
                cursor |-> DataBase, placed |-> << >>, full |-> FALSE]
      lay[i \in 0 .. Len(KindOrder)] ==
        IF i = 0 THEN start
        ELSE KindLaid(lay[i - 1], hasFs, KindOrder[i], mobile[KindOrder[i]])
  IN  lay[Len(KindOrder)]

\* save: the bytes of every file, and a stamp on its pages that states the
\* block good.
FilesSaved(area, fs) ==
  [area EXCEPT !.body = [pg \in Page |-> IF pg[1] \in fs.files THEN <<"file", pg[2]>> ELSE @[pg]],
               !.stamp = Blanked(PagesOf(fs.files), @, NoStamp),
               !.bad   = @ \ fs.files]

\* place_and_save_filesystem at block b, the root the last one freed.
RootSaved(area, fs, b) ==
  [FilesSaved(area, fs) EXCEPT
     !.table[b] = [files |-> fs.files, held |-> fs.held, unnamed |-> fs.unnamed],
     !.body     = [pg \in Page |-> IF pg[1] = b THEN <<"table", 0>> ELSE @[pg]]]

\* serialize: stamps the root and the copies on the pages they fill; a bad
\* block keeps what it has.
Serialized(area, placed, root, version) ==
  [area EXCEPT !.stamp = [pg \in Page |->
     LET covers == {i \in 1 .. Len(placed) :
                      placed[i].block = pg[1] /\
                      pg[2] \in placed[i].first .. placed[i].first + placed[i].pages - 1}
     IN  IF pg[1] \in area.bad THEN @[pg]
         ELSE IF pg[1] \in root
         THEN IF pg[2] = 1 THEN [NoStamp EXCEPT !.type = "root", !.seq = version] ELSE NoStamp
         ELSE IF covers = {} THEN @[pg]
         ELSE LET c == placed[Lowest(covers)]
              IN  [type |-> c.kind, seq |-> 1, free |-> c.free, size |-> c.pages]]]

\* The newest copies are the ones just laid.
HomesOf(placed, mobile) ==
  [k \in Kind |->
     LET at == {i \in 1 .. Len(placed) : placed[i].kind = k}
     IN  IF at = {} THEN [blob |-> Absent, block |-> 0, version |-> 0]
         ELSE [blob |-> mobile[k], block |-> placed[Lowest(at)].block, version |-> 1]]

\* Writes mobile and the filesystem fs to area, in the order of the stages.
WriteImage(op, area, fs, hasFs, mobile) ==
  LET lay  == MobileLaid(RootsCleared(Purged(area), hasFs), fs, hasFs, mobile)
      free == FreeFrom(lay.area, lay.fs, lay.cursor)
  IN  IF lay.full \/ (hasFs /\ free = {})
      THEN /\ last' = [op |-> op, code |-> "Exhausted"]
           /\ UNCHANGED <<stamp, body, table, bad, home, current>>
      ELSE LET root  == IF hasFs THEN {Lowest(free)} ELSE {}
               saved == IF hasFs THEN RootSaved(lay.area, lay.fs, Lowest(free)) ELSE lay.area
               done  == Serialized(saved, lay.placed, root, lay.fs.version)
           IN  /\ stamp' = done.stamp /\ body' = done.body
               /\ table' = done.table /\ bad' = done.bad
               /\ home' = HomesOf(lay.placed, mobile)
               /\ current' = IF hasFs
                             THEN Filesystem(lay.fs, lay.fs.version, root) ELSE current
               /\ last' = [op |-> op, code |-> "ok"]

\* The filesystem a parse leaves in memory: nothing is withheld any more.
Loaded ==
  [files |-> Opened.files, held |-> Opened.held, unnamed |-> Opened.unnamed,
   version |-> Opened.version, root |-> Opened.root, withheld |-> {}]

\* A parsed dump written back in its own layout.
WriteBack == WriteImage("write_back", Area, Loaded, HasFs, Scanned)

-----------------------------------------------------------------------------
(***************************************************************************)
(* run_build from a donor: settings replaced by the ones supplied, the     *)
(* filesystem replaced by one of the files supplied, or kept.              *)
(***************************************************************************)

\* A blob supplied replaces the donor's.
Overlaid(supplied) ==
  [k \in Kind |-> IF supplied[k] # Absent THEN supplied[k] ELSE Scanned[k]]

\* Mutant: bad blocks are left to the files.
FormattedOverBad(n) ==
  LET free == DataBase .. DataLimit - 1
  IN  [files |-> {b \in free : Cardinality({c \in free : c < b}) < n},
       held  |-> Block \ free, unnamed |-> {}, version |-> 1,
       withheld |-> {}, root |-> {}]

\* A new filesystem of n blocks of files, which take the lowest free blocks;
\* the blocks before and after the area and the bad ones are reserved.
Formatted(n) ==
  LET free == (DataBase .. DataLimit - 1) \ bad
  IN  [files |-> {b \in free : Cardinality({c \in free : c < b}) < n},
       held  |-> Block \ free, unnamed |-> {}, version |-> 1,
       withheld |-> {}, root |-> {}]

\* Every good block is erased first.
Rebuild(supplied, n) ==
  /\ n > 0 => n =< Cardinality((DataBase .. DataLimit - 1) \ bad)
  /\ LET fs    == IF n > 0 THEN Formatted(n) ELSE Loaded
         hasFs == n > 0 \/ HasFs
     IN  WriteImage("rebuild", Erase(Area, Block \ bad), fs, hasFs, Overlaid(supplied))

-----------------------------------------------------------------------------
(***************************************************************************)
(* The console (external).                                                 *)
(***************************************************************************)

ConsoleFree ==
  {b \in DataBase .. DataLimit - 1 :
     /\ b \notin bad \cup current.files \cup current.held \cup current.unnamed
     /\ b \notin current.root
     /\ \A k \in Kind : home[k].blob = Absent \/ home[k].block # b}

\* The first page of a block past its last written one.
NextPage(b) ==
  LET written == {p \in 1 .. PagesPerBlock : stamp[<<b, p>>].type # "none"}
      top     == IF written = {} THEN 0 ELSE CHOOSE p \in written : \A q \in written : q =< p
  IN  IF Big THEN RoundUp(top) + 1 ELSE top + 1

PutCopy(area, k, c, b, first, version) ==
  LET left == PagesPerBlock - (first - 1) - UsedPages(c)
      copy == [type |-> k, seq |-> version, size |-> Pages[c],
               free |-> IF Big THEN left \div SlotPages ELSE left]
      here == {pg \in Page : pg[1] = b /\ pg[2] \in first .. first + Pages[c] - 1}
  IN  /\ stamp' = Blanked(here, area.stamp, copy)
      /\ body'  = [pg \in Page |-> IF pg \in here THEN <<c, pg[2] - first + 1>> ELSE area.body[pg]]
      /\ table' = area.table
      /\ home'  = [home EXCEPT ![k] = [blob |-> c, block |-> b, version |-> version]]

\* A new copy goes after the last one in its block, or opens another block
\* under a higher version when that one is full.
ConsoleStore(k, c) ==
  LET here  == home[k]
      first == NextPage(here.block)
      fits  == here.blob # Absent /\ here.block \notin bad
               /\ first - 1 + UsedPages(c) =< PagesPerBlock
  IN  /\ c # here.blob
      /\ \/ fits /\ PutCopy(Area, k, c, here.block, first, here.version)
         \/ /\ ~fits /\ ConsoleFree # {} /\ here.version < MaxVersion
            /\ LET b == Lowest(ConsoleFree)
               IN  PutCopy(Erase(Area, {b}), k, c, b, 1, here.version + 1)
      /\ UNCHANGED <<bad, current>>
      /\ last' = [op |-> "console", code |-> "ok"]

\* The console saves its filesystem: a block of files added or removed, and
\* the root moved to a free block under a higher version.
ConsoleSaveFs(b, files) ==
  /\ HasFs /\ current.version < MaxVersion
  /\ b \in ConsoleFree \ files /\ files \subseteq current.files \cup ConsoleFree
  /\ Cardinality(files) =< MaxFiles
  /\ LET fs    == [current EXCEPT !.files = files, !.version = @ + 1, !.root = {b}]
         fresh == Erase(Area, {b} \cup (files \ current.files))
     IN  /\ stamp' = [fresh.stamp EXCEPT ![<<b, 1>>] = [NoStamp EXCEPT !.type = "root", !.seq = fs.version]]
         /\ body'  = [pg \in Page |-> IF pg[1] \in files THEN <<"file", pg[2]>>
                                      ELSE IF pg[1] = b THEN <<"table", 0>> ELSE fresh.body[pg]]
         /\ table' = [fresh.table EXCEPT ![b] = [files |-> files, held |-> fs.held, unnamed |-> fs.unnamed]]
         /\ current' = fs
  /\ UNCHANGED <<bad, home>>
  /\ last' = [op |-> "console", code |-> "ok"]

\* A block wears out while it holds nothing live.
WearOut(b) ==
  /\ b \in DataBase .. DataLimit - 1 /\ b \notin bad /\ Cardinality(bad) < MaxBad
  /\ b \in ConsoleFree \/ (WearsUnderFiles /\ b \in current.files)
  /\ bad' = bad \cup {b}
  /\ last' = [op |-> "wear", code |-> "ok"]
  /\ UNCHANGED <<stamp, body, table, home, current>>

-----------------------------------------------------------------------------

Init ==
  /\ stamp = [pg \in Page |-> NoStamp]
  /\ body = [pg \in Page |-> Empty]
  /\ table = [b \in Block |-> NoTable]
  /\ bad = {}
  /\ home = [k \in Kind |-> [blob |-> Absent, block |-> 0, version |-> 0]]
  /\ current = Filesystem(NoTable, 0, {})
  /\ last = [op |-> "none", code |-> "ok"]

Next ==
  \/ WriteBack
  \/ \E supplied \in Supply, n \in 0 .. MaxFiles : Rebuild(supplied, n)
  \/ \E k \in Kind, c \in Content : ConsoleStore(k, c)
  \/ \E b, f \in Block : \E files \in {current.files \cup {f}, current.files \ {f}} :
       ConsoleSaveFs(b, files)
  \/ \E b \in Block : WearOut(b)

Spec == Init /\ [][Next]_vars

-----------------------------------------------------------------------------
(***************************************************************************)
(* What must hold.                                                         *)
(***************************************************************************)

\* The scan takes, for every kind, the copy written last, whoever wrote it and
\* however often blocks filled, were purged or went bad: the writer restarts
\* the versions at 1, so one older copy left behind would win.
NewestCopyIsLive == \A k \in Kind : Live(k) = home[k].blob

\* After a write no stamp of an older copy is left on any block, a bad one
\* included ("no stale copy can outrank or trail the new ones").
NoStaleCopy ==
  last.op \in {"write_back", "rebuild"} /\ last.code = "ok" =>
    \A pg \in Page : stamp[pg].type \in Kind =>
      /\ pg[1] = home[stamp[pg].type].block
      /\ stamp[pg].seq = 1
      /\ body[pg][1] = home[stamp[pg].type].blob

\* The root found is the one saved last, although a build goes back to version
\* 1, a write-back keeps the version and a donor's roots carry higher ones.
NewestRootFound == Opened = current

\* Files, root and live copies never share a block, and no file's bytes are
\* lost to a settings copy or a root.
BlocksApart ==
  /\ current.root \cap current.files = {}
  /\ \A b \in current.files : \A p \in 1 .. PagesPerBlock : body[<<b, p>>] = <<"file", p>>
  /\ \A k \in Kind : home[k].blob # Absent =>
       home[k].block \notin current.files \cup current.root

\* A block the chip marked bad keeps its mark through every purge, clear and
\* save, as long as no file lies on it.
BadMarksKept == [][bad \subseteq bad']_vars

\* "A bad block keeps its marker" (FlashImageWrite.cpp:794) of a built image,
\* the one whose donor has a file on the block included.
BuildKeepsBadMarks == [][last'.op = "rebuild" => bad \subseteq bad']_vars

=============================================================================
