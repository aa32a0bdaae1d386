------------------------------ MODULE FlashDisk ------------------------------
(***************************************************************************)
(* The flash filesystem on the NAND: the stages of an image write that     *)
(* clear older roots, place the root and save the table and every file,    *)
(* and the parse stages that find the newest root and load it.  Between a  *)
(* write and the next parse the object in memory goes on changing.         *)
(*                                                                         *)
(* A 16 KiB cluster of the NAND is blank, the root table, or one part of a *)
(* file.  The roots of one image carry the same sequence number (a format  *)
(* names it, a load reads it and nothing raises it).  An image write that  *)
(* fails is abandoned with its driver: nand is the last image written.     *)
(*                                                                         *)
(* Of all this a caller sees a store that can be saved (SavedStore).       *)
(***************************************************************************)
EXTENDS FlashFS

CONSTANTS
  Fresh,         \* contents callers write
  Mixed,         \* bytes read back that are no one content
  UsableBlock,   \* blocks below the data limit, not bad, under no payload
  CursorChoice   \* blocks from which an image write looks for the root's

ASSUME DiskAssumption ==
  /\ Fresh \subseteq Content
  /\ Mixed \in Content \ Fresh
  /\ UsableBlock \subseteq Block

\* The table describes part of the NAND; no file starts at cluster 0, which an
\* entry states when it is not in use; the bytes of an empty file are one content.
ASSUME ImageAssumption ==
  /\ BaseCluster < MapSize
  /\ \A boundary \in BoundaryChoice : boundary > 0 \/ BaseCluster > 0
  /\ \A d, e \in Content : Length[d] = 0 /\ Length[e] = 0 => d = e

VARIABLES
  nand,     \* the clusters of the last image written
  written   \* history: the files last written to it, << >> before any were

diskVars == <<fs, last, nand>>

Blank               == [kind |-> "blank"]
FilePart(d, k)      == [kind |-> "data", content |-> d, part |-> k]
RootTable(table, d) == [kind |-> "root", table |-> table, dir |-> d]

\* Clusters that hold the bytes of a file.
Parts(bytes) == (bytes + ClusterBytes - 1) \div ClusterBytes

-----------------------------------------------------------------------------
(***************************************************************************)
(* The table: serialize_root_block and the decoding of read_root.  It      *)
(* describes the clusters from BaseCluster on, its links rebased to it.    *)
(***************************************************************************)

Described == {c \in Cluster : c >= BaseCluster}

IsLink(value) == Low(value) < BadBlock

Unencodable(st) ==
  \/ \E c \in Described :
       st.stated[c] = NotStated /\ IsLink(st.map[c]) /\ Low(st.map[c]) < BaseCluster
  \/ \E i \in 1 .. Len(st.dir) : st.dir[i].start < BaseCluster

Encoded(st) ==
  [c \in Described |->
     IF st.stated[c] # NotStated THEN st.stated[c]
     ELSE IF IsLink(st.map[c]) THEN st.map[c] - BaseCluster
     ELSE st.map[c]]

EncodedDir(st) ==
  [i \in 1 .. Len(st.dir) |-> [st.dir[i] EXCEPT !.start = @ - BaseCluster]]

\* Mutant: links stay relative to the base.
DecodedNotRebased(table) ==
  [c \in Cluster |-> IF c \in Described THEN table[c] ELSE Reserved]

Decoded(table) ==
  [c \in Cluster |->
     IF c \notin Described THEN Reserved
     ELSE IF IsLink(table[c]) THEN table[c] + BaseCluster
     ELSE table[c]]

DecodedDir(dir) ==
  LET entry(i) == [dir[i] EXCEPT !.start = @ + BaseCluster]
      kept[k \in 0 .. Len(dir)] ==
        IF k = 0 THEN << >>
        ELSE IF entry(k).start = 0 THEN kept[k - 1]
        ELSE Append(kept[k - 1], entry(k))
  IN  kept[Len(dir)]

Undecodable(root) ==
  \/ \E c \in Described : IsLink(root.table[c]) /\ Low(root.table[c]) + BaseCluster >= MapSize
  \/ \E i \in 1 .. Len(root.dir) : root.dir[i].start + BaseCluster >= MapSize

-----------------------------------------------------------------------------
(***************************************************************************)
(* Writing: clear_stale_fs_roots, place_and_save_filesystem, save.         *)
(***************************************************************************)

\* The clusters entry i's cached bytes are written to, first part first.
ChainPart(st, i, k) == Walk(st.map, st.dir[i].start)[k - 1]

CachedParts(st, i) ==
  LET d == st.data[st.dir[i].name] IN IF d = NoContent THEN 0 ELSE Parts(Length[d])

ChainTooShort(st) ==
  \E i \in Listed(st) : CachedParts(st, i) > Cardinality(ChainOf(st, i))

\* The parts <<entry, part>> that cluster c is written with.
PartsAt(st, c) ==
  {p \in Listed(st) \X (1 .. MapSize) :
     p[2] =< CachedParts(st, p[1]) /\ ChainPart(st, p[1], p[2]) = c}

\* Mutant: every part of a file starts at its first byte.
WrittenFromStart(st, cells) ==
  [c \in Cluster |->
     IF PartsAt(st, c) # {}
     THEN LET p == CHOOSE p \in PartsAt(st, c) : \A q \in PartsAt(st, c) : q[1] =< p[1]
          IN  FilePart(st.data[st.dir[p[1]].name], 1)
     ELSE IF c = RootFirst(st) THEN RootTable(Encoded(st), EncodedDir(st))
     ELSE cells[c]]

\* The root first, then every file whose bytes are cached, in directory order.
Written(st, cells) ==
  [c \in Cluster |->
     IF PartsAt(st, c) # {}
     THEN LET p == CHOOSE p \in PartsAt(st, c) : \A q \in PartsAt(st, c) : q[1] =< p[1]
          IN  FilePart(st.data[st.dir[p[1]].name], p[2])
     ELSE IF c = RootFirst(st) THEN RootTable(Encoded(st), EncodedDir(st))
     ELSE cells[c]]

\* A built image erases every block first; one written back in its own layout
\* keeps its blocks and loses the stamp of every older root.
Cleared(cells, preserve) ==
  [c \in Cluster |-> IF preserve /\ cells[c].kind # "root" THEN cells[c] ELSE Blank]

RootBlocks(st, cursor) == {b \in UsableBlock : b >= cursor /\ IsBlockFree(st, b)}

WriteImage(cursor, preserve) ==
  \/ /\ RootBlocks(fs, cursor) = {}
     /\ Refuse("write", "Exhausted")
     /\ UNCHANGED nand
  \/ /\ RootBlocks(fs, cursor) # {}
     /\ LET block  == Lowest(RootBlocks(fs, cursor))
            placed == PlaceRoot(ReleaseRoot(fs), block)
        IN  \/ /\ ~RootInRange(block)
               /\ Refuse("write", "OutOfRange")
               /\ UNCHANGED nand
            \/ /\ RootInRange(block)
               /\ Unencodable(placed) \/ ChainTooShort(placed)
               /\ fs' = placed
               /\ Reply("write", IF Unencodable(placed) THEN "Malformed" ELSE "Truncated")
               /\ UNCHANGED nand
            \/ /\ RootInRange(block)
               /\ ~Unencodable(placed) /\ ~ChainTooShort(placed)
               /\ fs' = placed
               /\ nand' = Written(placed, Cleared(nand, preserve))
               /\ Reply("write", "ok")

-----------------------------------------------------------------------------
(***************************************************************************)
(* Opening: find_fs_root, load_fs_root, read_root, read_files.             *)
(***************************************************************************)

Roots == {c \in Cluster : nand[c].kind = "root"}

\* The bytes the chain of entry i reads, by the content they are.
ReadBack(st, i) ==
  LET length == st.dir[i].length
      Reads(d) == /\ Length[d] = length
                  /\ \A k \in 1 .. Parts(length) : nand[ChainPart(st, i, k)] = FilePart(d, k)
  IN  IF \E d \in Content : Reads(d) THEN CHOOSE d \in Content : Reads(d) ELSE Mixed

\* A load keeps the root's own cluster: the rest of its block may hold files.
LoadedRootKept == 1

\* What load makes of the root at a cluster.
Loaded(cluster) ==
  LET root   == nand[cluster]
      listed == [map        |-> Decoded(root.table),
                 dir        |-> DecodedDir(root.dir),
                 data       |-> [n \in Name |-> NoContent],
                 stated     |-> [c \in Cluster |-> NotStated],
                 rootPlaced |-> TRUE,
                 rootBlock  |-> cluster \div Ratio,
                 rootOffset |-> cluster % Ratio,
                 rootKept   |-> LoadedRootKept]
      named(n) == {i \in Listed(listed) : listed.dir[i].name = n}
  IN  IF Undecodable(root) THEN [code |-> "Malformed", fs |-> fs]
      ELSE IF \E i \in Listed(listed) :
                listed.dir[i].length > Cardinality(ChainOf(listed, i)) * ClusterBytes
      THEN [code |-> "Truncated", fs |-> fs]
      ELSE [code |-> "ok",
            fs   |-> [listed EXCEPT !.data =
                        [n \in Name |-> IF named(n) = {} THEN NoContent
                                        ELSE ReadBack(listed, CHOOSE i \in named(n) : \A j \in named(n) : j =< i)]]]

\* Of roots with the same sequence the first one is loaded.
OpenImage ==
  /\ Roots # {}
  /\ LET result == Loaded(Lowest(Roots))
     IN  fs' = result.fs /\ Reply("open", result.code) /\ UNCHANGED nand

-----------------------------------------------------------------------------

DiskInit == Init /\ nand = [c \in Cluster |-> Blank]

\* Calls on the object in memory between a parse and a write.
EditInMemory ==
  \/ \E boundary \in BoundaryChoice : Format(kDeferRoot, boundary)
  \/ \E r \in ReserveChoice : ReserveBlocks(r[1], r[2])
  \/ \E w \in WithholdChoice : WithholdClusters(w[1], w[2], w[3])
  \/ \E n \in Name, d \in Fresh : AddFile(n, d)
  \/ \E n \in Name : DeleteFile(n)

DiskNext ==
  \/ EditInMemory /\ UNCHANGED nand
  \/ \E cursor \in CursorChoice, preserve \in BOOLEAN : WriteImage(cursor, preserve)
  \/ OpenImage

-----------------------------------------------------------------------------
(***************************************************************************)
(* The saved store the filesystem on the NAND implements.                  *)
(***************************************************************************)

SavingInit == DiskInit /\ written = << >>

SavingNext ==
  /\ DiskNext
  /\ written' = IF last'.op = "write" /\ last'.code = "ok" THEN <<FilesOf(fs)>> ELSE written

SavingSpec == SavingInit /\ [][SavingNext]_<<diskVars, written>>

Saved == INSTANCE SavedStore WITH
           files <- FilesOf(fs),
           ok    <- (last.code = "ok"),
           at    <- last.at,
           Position <- {},
           saved <- written

-----------------------------------------------------------------------------
(***************************************************************************)
(* What must hold.                                                         *)
(***************************************************************************)

\* In an opened filesystem a withheld cluster stated Unnamed links to the base
\* cluster.  Such a link is the only one outside a file's chain, and no file's
\* chain runs into it: two files never share a cluster after a load either.
OpenedFilesApart ==
  /\ ApartIn(fs)
  /\ \A c \in Cluster :
       HoldsFile(fs, c) <=> \/ \E i \in Listed(fs) : c \in ChainOf(fs, i)
                            \/ fs.map[c] = BaseCluster
  /\ \A i \in Listed(fs) : \A c \in ChainOf(fs, i) : fs.map[c] # BaseCluster

\* The table of the image survives being opened and encoded again bit for bit,
\* although a load forgets which clusters were withheld and rebases each link,
\* and no file of an opened filesystem meets another.
TableStable ==
  /\ OpenedFilesApart
  /\ Roots # {} =>
    LET opened == Loaded(Lowest(Roots))
        root   == nand[Lowest(Roots)]
    IN  /\ opened.code = "ok"
        /\ Encoded(opened.fs) = root.table
        /\ EncodedDir(opened.fs) = root.dir

\* Writing fails for want of a free block and for nothing else: no sequence of
\* edits, opens and writes leaves links the table cannot state or a chain too
\* short for its file.
WriteNeedsOnlySpace == last.op = "write" => last.code \in {"ok", "Exhausted"}

\* However memory changes after a write, opening the image gives back the
\* files in the order, and with the bytes, they had when it was written.
ImplementsSavedStore == Saved!SavedSpec

=============================================================================
