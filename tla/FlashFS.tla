------------------------------- MODULE FlashFS -------------------------------
(***************************************************************************)
(* The flash filesystem object (nand/objects/FlashFileSystem): a block map *)
(* of 16 KiB clusters that holds the chain of every file, an ordered       *)
(* directory, the bytes of each file cached under its exact name, the      *)
(* clusters withheld from allocation with what the table states for them,  *)
(* and the place of the root (the table itself).                           *)
(*                                                                         *)
(* A call runs to its end before the next one starts (the program is       *)
(* sequential), so one call of a public method is one step, including the  *)
(* steps it leaves half done when it fails.                                *)
(*                                                                         *)
(* A name stands for what clean_name returns.  Bytes are abstracted to a   *)
(* content with a length; timestamps and the version stamp are left out.   *)
(***************************************************************************)
EXTENDS Integers, Sequences, FiniteSets

CONSTANTS
  NumBlocks,      \* total_blocks: physical erase blocks of the NAND
  Ratio,          \* clusters_per_block(): 1 on small block and eMMC, 8 on big
  BaseCluster,    \* base_cluster(): the first cluster the table describes
  MaxEntries,     \* kMaxDirectoryEntries
  ClusterBytes,   \* kCleanBlockSize
  Name,           \* names as callers write them, case included
  Fold,           \* Fold[n]: what FlashFileSystemEntry::matches compares
  LayableName,    \* names of 1 to kMaxFilenameLength - 1 characters
  Content,        \* file contents
  Length,         \* Length[d]: bytes of content d
  NoContent,      \* the absence of a cached content
  RootChoice,     \* root blocks callers ask for
  BoundaryChoice, \* reserved boundaries format() is given, in blocks
  ReserveChoice,  \* <<start_block, block_count>> of reserve_blocks calls
  WithholdChoice  \* <<first, count, stated>> of withhold_* calls

\* kBlocksPerPage * kRootDirectoryPages: links in one root cluster.
MapCapacity == 4096

ASSUME ShapeAssumption ==
  /\ NumBlocks \in Nat \ {0}
  /\ Ratio \in Nat \ {0}
  /\ NumBlocks * Ratio =< MapCapacity
  /\ BaseCluster \in Nat
  /\ MaxEntries \in Nat
  /\ ClusterBytes \in Nat \ {0}

ASSUME NameAssumption ==
  /\ Fold \in [Name -> Name]
  /\ LayableName \subseteq Name

ASSUME ContentAssumption ==
  /\ Length \in [Content -> Nat]
  /\ NoContent \notin Content

-----------------------------------------------------------------------------
(***************************************************************************)
(* Block map values (BlockMapStatus) and the directory's shapes.           *)
(***************************************************************************)

Free       == 8190   \* 0x1FFE
EndOfChain == 8191   \* 0x1FFF
Reserved   == 8187   \* 0x1FFB
BadBlock   == 8176   \* 0x1FF0
Table      == 8189   \* 0x1FFD
Unnamed    == 0      \* 0x0000

\* format()'s root_block when the root is placed later.
kDeferRoot == 65535

MapSize == NumBlocks * Ratio
Block   == 0 .. NumBlocks - 1
Cluster == 0 .. MapSize - 1

\* A link is 16 bits wide.
LinkLimit == 65536
LinkValue == 0 .. LinkLimit - 1

\* Every read of a link masks its top bit (value & 0x7FFF).
Low(value) == value % 32768

\* The root block a default constructed object names.
kDefaultRoot == 992    \* 0x3E0

\* A cluster with no withheld value, and the end of a walk.
NotStated == -1
Stop      == -1

ASSUME InputAssumption ==
  /\ RootChoice \subseteq Nat
  /\ BoundaryChoice \subseteq Nat
  /\ ReserveChoice \subseteq Nat \X Nat
  /\ WithholdChoice \subseteq Nat \X Nat \X {Free, Unnamed}

Entry == [name : Name, start : Cluster, length : Nat]

\* The clusters of one erase block.
BlockClusters(block) == block * Ratio .. block * Ratio + Ratio - 1

-----------------------------------------------------------------------------
(***************************************************************************)
(* Chains: get_chain, checked_block_count, allocate_chain, free_chain.     *)
(***************************************************************************)

\* The cluster after c in its chain; Stop when c ends it or links outside
\* the map.
NextCluster(map, c) ==
  IF c \in Cluster /\ Low(map[c]) \in Cluster THEN Low(map[c]) ELSE Stop

\* Walk(map, s)[k] is the k-th cluster get_chain visits from s.
Walk(map, s) ==
  LET w[k \in 0 .. MapSize] == IF k = 0 THEN s ELSE NextCluster(map, w[k - 1])
  IN  w

\* The clusters of the chain at s: the walk ends by itself or at a revisit.
Chain(map, s) ==
  LET w == Walk(map, s)
  IN  {w[k] : k \in 0 .. MapSize} \cap Cluster

\* Mutant: a cluster more than a length that fills its clusters needs.
OneClusterMore(bytes) == bytes \div ClusterBytes + 1

\* Mutant: the last, partly filled cluster is not counted.
WholeClusters(bytes) == IF bytes < ClusterBytes THEN 1 ELSE bytes \div ClusterBytes

\* An empty file still takes one cluster.
ClustersNeeded(bytes) ==
  IF bytes = 0 THEN 1 ELSE (bytes + ClusterBytes - 1) \div ClusterBytes

FreeClusters(map) == {c \in Cluster : Low(map[c]) = Free}

\* Mutant: the allocation takes the highest free clusters.
HighestFree(map, n) ==
  {c \in FreeClusters(map) : Cardinality({d \in FreeClusters(map) : d > c}) < n}

\* The n lowest free clusters, which allocate_chain links in ascending order.
LowestFree(map, n) ==
  {c \in FreeClusters(map) : Cardinality({d \in FreeClusters(map) : d < c}) < n}

Lowest(S) == CHOOSE c \in S : \A d \in S : c =< d

Allocated(map, n) ==
  LET chain == LowestFree(map, n)
  IN  [c \in Cluster |->
         IF c \notin chain THEN map[c]
         ELSE IF \E d \in chain : c < d THEN Lowest({d \in chain : c < d})
         ELSE EndOfChain]

Freed(map, clusters) == [c \in Cluster |-> IF c \in clusters THEN Free ELSE map[c]]

-----------------------------------------------------------------------------
(***************************************************************************)
(* The filesystem object.  last is what the latest call returned.          *)
(***************************************************************************)

VARIABLES
  fs,     \* the object: map, dir, data, stated and the root's place
  last    \* [op, code, at]: the latest call, its ErrorCode and an insert's position

vars == <<fs, last>>

Ops   == {"format", "set_root_block", "reserve_blocks", "withhold_clusters",
          "withhold_blocks", "add_file", "insert_file", "delete_file"}
Codes == {"ok", "InvalidArgument", "OutOfRange", "Exhausted", "NotFound",
          "Internal"}

FileSystem ==
  [map        : [Cluster -> LinkValue],
   dir        : Seq(Entry),
   data       : [Name -> Content \cup {NoContent}],
   stated     : [Cluster -> {NotStated, Free, Unnamed}],
   rootPlaced : BOOLEAN,
   rootBlock  : Nat,
   rootOffset : 0 .. Ratio - 1,
   rootKept   : 1 .. Ratio]

Matches(n, m) == Fold[n] = Fold[m]

\* find_entry: the first entry n names, 0 when there is none.
FindEntry(st, n) ==
  LET hits == {i \in 1 .. Len(st.dir) : Matches(st.dir[i].name, n)}
  IN  IF hits = {} THEN 0 ELSE Lowest(hits)

Exists(st, n) == FindEntry(st, n) # 0

ChainOf(st, i) == Chain(st.map, st.dir[i].start)

\* Mutant: a reserved cluster counts as free.
BlockFreeOrReserved(st, block) ==
  block \in Block /\ \A c \in BlockClusters(block) : st.map[c] \in {Free, Reserved}

IsBlockFree(st, block) ==
  block \in Block /\ \A c \in BlockClusters(block) : st.map[c] = Free

Reply(op, code) == last' = [op |-> op, code |-> code, at |-> 0]

Refuse(op, code) == Reply(op, code) /\ UNCHANGED fs

-----------------------------------------------------------------------------
(***************************************************************************)
(* The root: format, place_root, release_root, set_root_block.             *)
(***************************************************************************)

RootFirst(st) == st.rootBlock * Ratio + st.rootOffset

\* The clusters release_root gives back.
RootClusters(st) ==
  IF st.rootPlaced
  THEN {c \in Cluster : RootFirst(st) =< c /\ c < RootFirst(st) + st.rootKept}
  ELSE {}

PlaceRoot(st, block) ==
  LET first == block * Ratio
      rest  == BlockClusters(block) \ {first}
  IN  [st EXCEPT
         !.map = [c \in Cluster |-> IF c = first THEN Table
                                    ELSE IF c \in rest THEN Reserved ELSE @[c]],
         !.stated = [c \in Cluster |-> IF c \in rest THEN Free ELSE @[c]],
         !.rootPlaced = TRUE,
         !.rootBlock = block,
         !.rootOffset = 0,
         !.rootKept = Ratio]

\* Mutant: the clusters of the old root are not given back.
ReleaseRootKeepingMap(st) ==
  [st EXCEPT
     !.stated = [c \in Cluster |-> IF c \in RootClusters(st) THEN NotStated ELSE @[c]],
     !.rootPlaced = FALSE]

ReleaseRoot(st) ==
  [st EXCEPT
     !.map = Freed(@, RootClusters(st)),
     !.stated = [c \in Cluster |-> IF c \in RootClusters(st) THEN NotStated ELSE @[c]],
     !.rootPlaced = FALSE]

ReservedBelow(boundary) ==
  LET blocks == IF boundary < NumBlocks THEN boundary ELSE NumBlocks
  IN  IF blocks * Ratio < BaseCluster THEN BaseCluster ELSE blocks * Ratio

FormattedMap(boundary) ==
  [map        |-> [c \in Cluster |-> IF c < ReservedBelow(boundary) THEN Reserved ELSE Free],
   dir        |-> << >>,
   data       |-> [n \in Name |-> NoContent],
   stated     |-> [c \in Cluster |-> NotStated],
   rootPlaced |-> FALSE,
   rootBlock  |-> kDefaultRoot,
   rootOffset |-> 0,
   rootKept   |-> Ratio]

RootInRange(block) == block < NumBlocks /\ block * Ratio >= BaseCluster

\* A format that defers the root keeps the block the object named before.
Formatted(st, root, boundary) ==
  LET blank == [FormattedMap(boundary) EXCEPT !.rootBlock = st.rootBlock]
  IN  IF root = kDeferRoot THEN blank ELSE PlaceRoot(blank, root)

Format(root, boundary) ==
  \/ /\ root # kDeferRoot /\ ~RootInRange(root)
     /\ Refuse("format", "InvalidArgument")
  \/ /\ root = kDeferRoot \/ RootInRange(root)
     /\ fs' = Formatted(fs, root, boundary)
     /\ Reply("format", "ok")

SetRootBlock(block) ==
  \/ /\ ~RootInRange(block)
     /\ Refuse("set_root_block", "OutOfRange")
  \/ /\ RootInRange(block)
     /\ fs.rootPlaced /\ block = fs.rootBlock
     /\ Refuse("set_root_block", "ok")
  \/ /\ RootInRange(block)
     /\ ~(fs.rootPlaced /\ block = fs.rootBlock)
     /\ ~IsBlockFree(fs, block)
     /\ Refuse("set_root_block", "InvalidArgument")
  \/ /\ RootInRange(block)
     /\ IsBlockFree(fs, block)
     /\ fs' = PlaceRoot(ReleaseRoot(fs), block)
     /\ Reply("set_root_block", "ok")

-----------------------------------------------------------------------------
(***************************************************************************)
(* Space kept from allocation: reserve_blocks and withhold_*.              *)
(***************************************************************************)

Run(first, count) == first .. first + count - 1

\* Clusters kept from allocation, and what the table states for them.
SetAside(st, clusters, value) ==
  [st EXCEPT
     !.map = [c \in Cluster |-> IF c \in clusters THEN Reserved ELSE @[c]],
     !.stated = [c \in Cluster |-> IF c \in clusters THEN value ELSE @[c]]]

ReserveBlocks(start, count) ==
  LET clusters == UNION {BlockClusters(b) : b \in Run(start, count)}
  IN  \/ /\ count = 0 \/ start + count > NumBlocks
         /\ Refuse("reserve_blocks", "OutOfRange")
      \/ /\ count > 0 /\ start + count =< NumBlocks
         /\ \E c \in clusters : fs.map[c] \notin {Free, Reserved}
         /\ Refuse("reserve_blocks", "InvalidArgument")
      \/ /\ count > 0 /\ start + count =< NumBlocks
         /\ \A c \in clusters : fs.map[c] \in {Free, Reserved}
         /\ fs' = SetAside(fs, clusters, NotStated)
         /\ Reply("reserve_blocks", "ok")

\* Free, or withheld already: a withheld cluster may be stated anew.
Withholdable(st, c) ==
  \/ st.map[c] = Free
  \/ st.map[c] = Reserved /\ st.stated[c] # NotStated

Withhold(op, clusters, value) ==
  \/ /\ \E c \in clusters : ~Withholdable(fs, c)
     /\ Refuse(op, "InvalidArgument")
  \/ /\ \A c \in clusters : Withholdable(fs, c)
     /\ fs' = SetAside(fs, clusters, value)
     /\ Reply(op, "ok")

WithholdClusters(first, count, value) ==
  \/ /\ count = 0 \/ first + count > MapSize
     /\ Refuse("withhold_clusters", "OutOfRange")
  \/ /\ count > 0 /\ first + count =< MapSize
     /\ Withhold("withhold_clusters", Run(first, count), value)

WithholdBlocks(start, count, value) ==
  \/ /\ count = 0 \/ start + count > NumBlocks
     /\ Refuse("withhold_blocks", "OutOfRange")
  \/ /\ count > 0 /\ start + count =< NumBlocks
     /\ Withhold("withhold_blocks", UNION {BlockClusters(b) : b \in Run(start, count)},
                 value)

-----------------------------------------------------------------------------
(***************************************************************************)
(* Files: delete_file, add_file, insert_file.                              *)
(***************************************************************************)

\* Mutant: the erased range ends one entry late.
WithoutIndexAndNext(seq, i) == SubSeq(seq, 1, i - 1) \o SubSeq(seq, i + 2, Len(seq))

WithoutIndex(seq, i) == SubSeq(seq, 1, i - 1) \o SubSeq(seq, i + 1, Len(seq))

\* Mutant: the entry of a deleted file is left in the directory.
DeletedKeepingEntry(st, n) ==
  [st EXCEPT !.map = Freed(@, ChainOf(st, FindEntry(st, n))),
             !.data = [@ EXCEPT ![n] = NoContent]]

\* Mutant: the chain of a deleted file is not freed.
DeletedKeepingChain(st, n) ==
  [st EXCEPT !.data = [@ EXCEPT ![n] = NoContent],
             !.dir = WithoutIndex(@, FindEntry(st, n))]

\* delete_file of a listed file.  The entry is found without regard to case,
\* the cached bytes under the name as given.
Deleted(st, n) ==
  LET i == FindEntry(st, n)
  IN  [st EXCEPT !.map = Freed(@, ChainOf(st, i)),
                 !.data = [@ EXCEPT ![n] = NoContent],
                 !.dir = WithoutIndex(@, i)]

Dropped(st, n) == IF Exists(st, n) THEN Deleted(st, n) ELSE st

Laid(st, n, d) ==
  LET need  == ClustersNeeded(Length[d])
      start == Lowest(LowestFree(st.map, need))
  IN  [st EXCEPT !.map = Allocated(@, need),
                 !.data = [@ EXCEPT ![n] = d],
                 !.dir = Append(@, [name |-> n, start |-> start, length |-> Length[d]])]

\* add_file: what it returns and what it leaves.  The file it replaces is
\* deleted before the space for the new one is known to be there.
AddResult(st, n, d) ==
  IF n \notin LayableName THEN [code |-> "InvalidArgument", fs |-> st]
  ELSE IF ~Exists(st, n) /\ Len(st.dir) >= MaxEntries THEN [code |-> "Exhausted", fs |-> st]
  ELSE LET room == Dropped(st, n)
       IN  IF Cardinality(FreeClusters(room.map)) < ClustersNeeded(Length[d])
           THEN [code |-> "Exhausted", fs |-> room]
           ELSE [code |-> "ok", fs |-> Laid(room, n, d)]

\* insert_file's last stage: files added one after the other, up to the first
\* that is refused.
AddedInOrder(st, files) ==
  LET laid[k \in 0 .. Len(files)] ==
        IF k = 0 THEN [code |-> "ok", fs |-> st]
        ELSE LET before == laid[k - 1]
             IN  IF before.code # "ok" THEN before
                 ELSE AddResult(before.fs, files[k].name, files[k].content)
  IN  laid[Len(files)]

\* Mutant: the position does not move when a file before it is replaced.
PositionNotMoved(st, position, n) ==
  LET size == Len(Dropped(st, n).dir)
  IN  IF position < size THEN position ELSE size

\* The directory position once the file of the same name is gone.
InsertPosition(st, position, n) ==
  LET i     == FindEntry(st, n)
      moved == IF i # 0 /\ i - 1 < position THEN position - 1 ELSE position
      size  == Len(Dropped(st, n).dir)
  IN  IF moved < size THEN moved ELSE size

\* Entries from 1-based index i on whose bytes are not cached when they are
\* lifted: absent, or lifted already under the same name.
Unlifted(st, i) ==
  {k \in i .. Len(st.dir) :
     \/ st.data[st.dir[k].name] = NoContent
     \/ \E j \in i .. k - 1 : st.dir[j].name = st.dir[k].name}

\* Chains of entries i..k freed and the cached bytes of i..m moved out.
LiftedUpTo(st, i, k, m) ==
  [st EXCEPT !.map = Freed(@, UNION {ChainOf(st, j) : j \in i .. k}),
             !.data = [x \in Name |-> IF \E j \in i .. m : st.dir[j].name = x
                                      THEN NoContent ELSE @[x]]]

InsertResult(st, position, n, d) ==
  LET room  == Dropped(st, n)
      first == InsertPosition(st, position, n) + 1
      size  == Len(room.dir)
  IN  IF Unlifted(room, first) # {}
      THEN LET k == Lowest(Unlifted(room, first))
           IN  [code |-> "Internal", fs |-> LiftedUpTo(room, first, k, k - 1)]
      ELSE AddedInOrder(
             [LiftedUpTo(room, first, size, size) EXCEPT !.dir = SubSeq(@, 1, first - 1)],
             << [name |-> n, content |-> d] >> \o
             [k \in 1 .. size - first + 1 |->
                [name    |-> room.dir[first + k - 1].name,
                 content |-> room.data[room.dir[first + k - 1].name]]])

AddFile(n, d) ==
  LET result == AddResult(fs, n, d)
  IN  fs' = result.fs /\ Reply("add_file", result.code)

InsertFile(position, n, d) ==
  LET result == InsertResult(fs, position, n, d)
  IN  /\ fs' = result.fs
      /\ last' = [op |-> "insert_file", code |-> result.code, at |-> position]

DeleteFile(n) ==
  \/ ~Exists(fs, n) /\ Refuse("delete_file", "NotFound")
  \/ Exists(fs, n) /\ fs' = Deleted(fs, n) /\ Reply("delete_file", "ok")

-----------------------------------------------------------------------------
(***************************************************************************)
(* The specification: a filesystem just formatted, then any calls.         *)
(***************************************************************************)

Init ==
  /\ \E boundary \in BoundaryChoice : fs = FormattedMap(boundary)
  /\ last = [op |-> "format", code |-> "ok", at |-> 0]

Next ==
  \/ \E root \in RootChoice \cup {kDeferRoot}, boundary \in BoundaryChoice :
       Format(root, boundary)
  \/ \E block \in RootChoice : SetRootBlock(block)
  \/ \E r \in ReserveChoice : ReserveBlocks(r[1], r[2])
  \/ \E w \in WithholdChoice : WithholdClusters(w[1], w[2], w[3])
  \/ \E w \in WithholdChoice : WithholdBlocks(w[1], w[2], w[3])
  \/ \E n \in Name, d \in Content : AddFile(n, d)
  \/ \E position \in 0 .. MaxEntries, n \in Name, d \in Content :
       InsertFile(position, n, d)
  \/ \E n \in Name : DeleteFile(n)

Spec == Init /\ [][Next]_vars

-----------------------------------------------------------------------------
(***************************************************************************)
(* What must hold.                                                         *)
(***************************************************************************)

\* The object keeps its shape: block map values of 16 bits, entries that start
\* inside the map, a withheld value only of the two kinds callers use.
TypeOK == fs \in FileSystem /\ last \in [op : Ops, code : Codes, at : Nat]

Listed(st) == 1 .. Len(st.dir)

\* The files a caller sees: the directory's names in order, with their bytes.
FilesOf(st) == [i \in Listed(st) |-> [name    |-> st.dir[i].name,
                                      content |-> st.data[st.dir[i].name]]]

ApartIn(st) ==
  \A i, j \in Listed(st) : i # j => ChainOf(st, i) \cap ChainOf(st, j) = {}

\* Two files never share a cluster: whatever the order of adds, replacements,
\* re-layings and frees, allocate_chain takes only clusters no chain reaches.
FilesApart == ApartIn(fs)

HoldsFile(st, c) == Low(st.map[c]) \in Cluster \cup {EndOfChain}

AccountedIn(st) ==
  \A c \in Cluster : HoldsFile(st, c) <=> \E i \in Listed(st) : c \in ChainOf(st, i)

\* The block map and the directory agree: a cluster is linked exactly when it
\* lies on the chain of a listed file, so no file rests on a free, reserved or
\* root cluster (stale chain after a free) and no cluster is lost (an entry
\* dropped without its chain).
ClustersAccountedFor == AccountedIn(fs)

\* The chain of a file has room for its length and no cluster it does not
\* need, save the one of an empty file: save writes all its bytes and a read
\* gets them back.
ChainHoldsFile ==
  \A i \in Listed(fs) :
    LET room == Cardinality(ChainOf(fs, i)) * ClusterBytes
    IN  /\ fs.dir[i].length =< room
        /\ room - ClusterBytes < fs.dir[i].length \/ room = ClusterBytes

CachedIn(st) ==
  \A i \in Listed(st) :
    /\ st.data[st.dir[i].name] # NoContent
    /\ Length[st.data[st.dir[i].name]] = st.dir[i].length

\* Every listed file has its bytes cached under its own name and they have the
\* length the entry states: save never skips a file and insert_file never
\* fails half way with nothing to lay again, even when files are replaced
\* under names that differ in case.
FilesCached == CachedIn(fs)

UniqueIn(st) ==
  \A i, j \in Listed(st) : Matches(st.dir[i].name, st.dir[j].name) => i = j

\* No two entries match one name, so find_entry's first match is the only one.
OneEntryPerName == UniqueIn(fs)

RootHeldIn(st) ==
  /\ {c \in Cluster : st.map[c] = Table} =
       IF st.rootPlaced THEN {RootFirst(st)} ELSE {}
  /\ \A c \in RootClusters(st) : st.map[c] \in {Table, Reserved}

\* The table value marks the root's cluster and no other, and the root's kept
\* clusters are in nobody's chain however often the root moves.
RootHeld == RootHeldIn(fs)

WithheldIn(st) ==
  \A c \in Cluster : st.stated[c] # NotStated => st.map[c] = Reserved

\* A withheld cluster is Reserved in the block map, so the value the table
\* states for it never hides a file's link.
WithheldIsReserved == WithheldIn(fs)

\* A cluster with a withheld value, the root's own included, stays out of the
\* free pool through every call but a format and a move of the root.  A move
\* gives back the clusters of the block the root leaves and no other, those
\* withheld anew in that block among them (withhold_clusters takes a cluster
\* reserved for the root, release_root frees it).
WithheldStays ==
  [][last'.op # "format" =>
       \A c \in Cluster :
         fs.stated[c] # NotStated =>
           \/ fs'.map[c] = Reserved
           \/ fs'.rootBlock # fs.rootBlock /\ c \in RootClusters(fs)]_vars

\* What the listed file n stands for: its clusters, length and bytes.
FileOf(st, n) ==
  IF Exists(st, n)
  THEN LET i == FindEntry(st, n)
       IN  << ChainOf(st, i), st.dir[i].length, st.data[st.dir[i].name] >>
  ELSE << {}, 0, NoContent >>

\* Adding, replacing or deleting one file, also when the call fails, neither
\* moves nor alters a file of another name.
OtherFilesKept ==
  [][last'.op \in {"add_file", "delete_file"} =>
       \E n \in Name : \A m \in Name :
         ~Matches(n, m) => FileOf(fs', m) = FileOf(fs, m)]_vars

\* Files sit back to back: no free cluster lies below a file's cluster.
BackToBack(st) ==
  \A i \in Listed(st) : \A c \in ChainOf(st, i), d \in FreeClusters(st.map) : c < d

InDirectoryOrder(st) ==
  \A i, j \in Listed(st) : i < j =>
    \A c \in ChainOf(st, i), d \in ChainOf(st, j) : c < d

(* Every call on the filesystem is a call on the ordered store of FlashStore, whose files are     *)
(* the directory's entries with their cached bytes, or one it ignores.                            *)
Store == INSTANCE FlashStore WITH
           files <- FilesOf(fs),
           ok    <- (last.code = "ok"),
           at    <- last.at,
           Position <- 0 .. MaxEntries

ImplementsStore == Store!StoreSpec

Inserts == last'.op = "insert_file" /\ last'.code = "ok"

\* insert_file of a name not listed yet lays it and every file after it again:
\* files that sit back to back in directory order stay that way.
InsertKeepsBackToBack ==
  [][Inserts /\ Len(fs'.dir) = Len(fs.dir) + 1 /\ BackToBack(fs) /\ InDirectoryOrder(fs)
       => BackToBack(fs') /\ InDirectoryOrder(fs')]_vars

\* insert_file's comment promises it for every insertion, the replacement of a
\* listed file included: "a filesystem whose files sit back to back stays
\* that way.  A file of the same name is replaced."
EveryInsertKeepsBackToBack ==
  [][Inserts /\ BackToBack(fs) => BackToBack(fs')]_vars

\* "A file of the same name is replaced": once a file is replaced or deleted,
\* get_file finds no bytes of it any more, under whichever case it was written.
ReplacedBytesGone ==
  \A n \in Name : fs.data[n] # NoContent => \E i \in Listed(fs) : fs.dir[i].name = n

=============================================================================
