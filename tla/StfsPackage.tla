---------------------------- MODULE StfsPackage ----------------------------
(***************************************************************************)
(* Reading an STFS package: StfsContainer and the parsers behind it.  A    *)
(* package is opened once and then asked for entries, for all its files in *)
(* memory or for all of them on disk.  One step is one turn of a loop of   *)
(* the source: a block of a chain followed, a block copied, an entry       *)
(* delivered; the calls nest, so the loops run one at a time.              *)
(*                                                                         *)
(* The package was laid by a publisher (external, Image) and may have been *)
(* damaged since: cut short, or some of its bytes changed.  Lengths count  *)
(* units: PerTable of them fill a block, a unit of a hash table is one     *)
(* record, one of the file table is one entry.  A digest is the block it   *)
(* was taken of.                                                           *)
(***************************************************************************)
EXTENDS StfsLayout, Sequences, FiniteSets

CONSTANTS
  HeaderBlocks, \* blocks before block 0: header_size, rounded up
  MaxBlock,     \* kMaxBlockNumber, and the terminator of a chain
  Shape,        \* Shape[s]: a package as published
  Package,      \* the packages there are to open
  Fold,         \* Fold[name]: its lookup key
  BadName,      \* names parse_file_listing refuses
  Rooted,       \* names that make a path absolute
  Excluding     \* the sets of keys extract_to_memory is told to leave out

Root  == -1       \* kRootIndicator
Noise == -1       \* a unit whose bytes are not the published ones
Torn  == << Noise >>
Elsewhere == -1   \* in next and used: the record bytes outside hash tables spell
NoEntry ==
  [name |-> "", dir |-> FALSE, parent |-> Root, start |-> 0, alloc |-> 0,
   size |-> 0, consecutive |-> FALSE]

ASSUME PackageAssumption ==
  /\ HeaderBlocks \in Nat /\ MaxBlock \in Nat
  /\ \A s \in DOMAIN Shape :
       /\ Shape[s].total \in 0 .. PerLevel2
       /\ Shape[s].tableStart \in Nat /\ Shape[s].tableCount \in Nat
       /\ \A u \in DOMAIN Shape[s].listing : Shape[s].listing[u].dir => Shape[s].listing[u].size = 0
  /\ \A p \in Package :
       /\ p.shape \in DOMAIN Shape /\ p.length \in Nat
       /\ \A b \in DOMAIN p.next : p.next[b] \in Nat
       /\ \A u \in DOMAIN p.listing : p.listing[u].start \in Nat /\ p.listing[u].size \in Nat
  /\ BadName \cup Rooted \subseteq DOMAIN Fold /\ "" \notin DOMAIN Fold

\* Where a package's links differ from the published ones, the block of the
\* hash table that holds them is changed; a package none of whose blocks is
\* changed has the published links and listing.
ASSUME DamageAssumption ==
  \A p \in Package :
    /\ \A b \in DOMAIN p.next \ {Elsewhere} :
         Level0Table(b) \notin p.rot =>
           b \in DOMAIN Shape[p.shape].next /\ p.next[b] = Shape[p.shape].next[b]
    /\ p.rot = {} =>
         /\ p.next = Shape[p.shape].next /\ p.listing = Shape[p.shape].listing
         /\ p.used = 0 .. Shape[p.shape].total - 1

VARIABLES
  pkg,     \* the package's bytes
  entries, \* entries_, empty before the package is open
  opened,  \* whether open succeeded
  call,    \* the call that runs
  phase,   \* the loop it is in
  at,      \* the entry it is at, from 0
  read,    \* the extraction of that entry
  memory,  \* the files extract_to_memory has so far
  disk,    \* the target directory
  answer   \* the last answer

vars == <<pkg, entries, opened, call, phase, at, read, memory, disk, answer>>

Ceiling(n) == (n + PerTable - 1) \div PerTable

-----------------------------------------------------------------------------
(***************************************************************************)
(* A package as published (external).                                      *)
(***************************************************************************)

Block(b)        == [kind |-> "data", level |-> 0, group |-> b]
Table(level, g) == [kind |-> "table", level |-> level, group |-> g]
Nothing         == [kind |-> "nothing", level |-> 0, group |-> 0]

\* The tables laid just before block b: a level starts when the level below
\* has filled one table, and then leads each of its groups.
TablesBefore(b) ==
  (IF b = PerLevel1 THEN <<Table(2, 0)>> ELSE << >>)
    \o (IF b = PerLevel0 \/ (b > 0 /\ b % PerLevel1 = 0)
        THEN <<Table(1, b \div PerLevel1)>> ELSE << >>)
    \o (IF b % PerLevel0 = 0 THEN <<Table(0, b \div PerLevel0)>> ELSE << >>)

\* The blocks of each shape in order.
Image ==
  [s \in DOMAIN Shape |->
     LET laid[n \in 0 .. Shape[s].total] ==
           IF n = 0 THEN << >>
           ELSE laid[n - 1] \o TablesBefore(n - 1) \o <<Block(n - 1)>>
     IN  laid[Shape[s].total]]

\* The block the header's top hash was taken of.
TopTable(s) ==
  Table(CHOOSE l \in Level : /\ \E i \in DOMAIN Image[s] : Image[s][i] = Table(l, 0)
                             /\ \A i \in DOMAIN Image[s] : Image[s][i].kind = "table"
                                                              => Image[s][i].level =< l,
        0)

\* What record r of a table covers.
Covered(table, r) ==
  IF table.level = 0 THEN Block(table.group * PerTable + r)
  ELSE Table(table.level - 1, table.group * PerTable + r)

\* The blocks of a file, and its contents: unit u of block b is numbered
\* b * PerTable + u.
PublishedBlocks(s, entry) ==
  LET block[i \in 1 .. Ceiling(entry.size)] ==
        IF i = 1 THEN entry.start
        ELSE IF entry.consecutive THEN block[i - 1] + 1 ELSE Shape[s].next[block[i - 1]]
  IN  block

Published(s, entry) ==
  IF entry.dir THEN << >>
  ELSE [u \in 1 .. entry.size |->
          PublishedBlocks(s, entry)[Ceiling(u)] * PerTable + ((u - 1) % PerTable)]

FullLength(s) == (HeaderBlocks + Len(Image[s])) * PerTable

\* The entry the descriptor makes of the file table.
TableOf(s) ==
  [NoEntry EXCEPT !.name  = "$filetable",
                  !.start = Shape[s].tableStart,
                  !.alloc = Shape[s].tableCount,
                  !.size  = Shape[s].tableCount * PerTable]

\* A file whose blocks are the package's, and end where the file does.
WellLaid(s, entry) ==
  LET n == Ceiling(entry.size)
  IN  /\ n =< Shape[s].total
      /\ \A i \in 1 .. n : PublishedBlocks(s, entry)[i] \in 0 .. Shape[s].total - 1
      /\ entry.size > 0 =>
           IF entry.consecutive THEN entry.size =< entry.alloc * PerTable
           ELSE Shape[s].next[PublishedBlocks(s, entry)[n]] = MaxBlock

\* What a publisher sees to: every block has a number and a link, and the file
\* table and the files it lists are well laid.
ASSUME PublisherAssumption ==
  \A s \in DOMAIN Shape :
    /\ Len(Image[s]) =< MaxBlock + 1
    /\ DOMAIN Shape[s].next = 0 .. Shape[s].total - 1
    /\ Shape[s].tableCount > 0 /\ WellLaid(s, TableOf(s))
    /\ \A i \in 1 .. Shape[s].tableCount, u \in 0 .. PerTable - 1 :
         PublishedBlocks(s, TableOf(s))[i] * PerTable + u \in DOMAIN Shape[s].listing
    /\ \A u \in DOMAIN Shape[s].listing :
         LET entry == Shape[s].listing[u]
         IN  /\ entry.name \notin BadName
             /\ entry.start \in Nat /\ entry.size \in Nat /\ entry.alloc \in Nat
             /\ WellLaid(s, entry)

-----------------------------------------------------------------------------
(***************************************************************************)
(* The bytes at an offset.                                                 *)
(***************************************************************************)

\* block_to_offset, for positions that fit a block number.
Offset(position) == (HeaderBlocks + position) * PerTable

Inside(offset, units) == offset + units =< pkg.length

BlockAt(position) ==
  IF position + 1 \in DOMAIN Image[pkg.shape] THEN Image[pkg.shape][position + 1] ELSE Nothing

Sound(position) == position \notin pkg.rot

\* The units of the block at a position.  A changed block of the file table
\* holds the entries pkg.listing gives, another changed block noise.
UnitsAt(position) ==
  LET block == BlockAt(position)
      first == block.group * PerTable
      own   == block.kind = "data" /\ (Sound(position) \/ first \in DOMAIN pkg.listing)
  IN  [u \in 1 .. PerTable |-> IF own THEN first + u - 1 ELSE Noise]

-----------------------------------------------------------------------------
(***************************************************************************)
(* Hash tables: HashVerifier and read_hash_entry.                          *)
(***************************************************************************)

RecordOffset(block, level) == Offset(HashTable(block, level)) + Record(block, level)

\* check_block_hash and its offset: the code it fails with.
BlockHashError(position, expected) ==
  IF position > MaxBlock \/ ~Inside(Offset(position), PerTable) THEN "OutOfRange"
  ELSE IF ~Sound(position) \/ BlockAt(position) # expected THEN "HashMismatch"
  ELSE "ok"

\* Mutant: the tables are not checked, only the block against its record.
VerifyBlockOnly(block) ==
  BlockHashError(DataBlock(block), Covered(BlockAt(Level0Table(block)), Record(block, 0)))

\* verify_data_block: every table from the top one down, then the block.
VerifyDataBlock(block) ==
  LET top == TopLevel(Shape[pkg.shape].total)
      expected[level \in 0 .. top] ==
        IF level = top THEN TopTable(pkg.shape)
        ELSE Covered(expected[level + 1], Record(block, level + 1))
      checked[level \in -1 .. top + 1] ==
        IF level > top THEN "ok"
        ELSE IF checked[level + 1] # "ok" THEN checked[level + 1]
        ELSE IF level >= 0 THEN BlockHashError(HashTable(block, level), expected[level])
        ELSE BlockHashError(DataBlock(block), Covered(expected[0], Record(block, 0)))
  IN  IF Shape[pkg.shape].total = 0 THEN "InvalidArgument" ELSE checked[-1]

\* read_hash_entry.  Where no level-0 table lies the bytes are taken for a
\* record as well: they are the package's next[Elsewhere], and may or may not
\* have a status in use.
HashEntry(block) ==
  LET table   == BlockAt(Level0Table(block))
      covered == IF table.kind = "table" /\ table.level = 0
                 THEN Covered(table, Record(block, 0)).group ELSE Elsewhere
  IN  IF Level0Table(block) > MaxBlock \/ ~Inside(RecordOffset(block, 0), 1)
      THEN [code |-> "OutOfRange", next |-> MaxBlock]
      ELSE IF covered \notin DOMAIN pkg.next \/ covered \notin pkg.used
      THEN [code |-> "Malformed", next |-> MaxBlock]
      ELSE [code |-> "ok", next |-> pkg.next[covered]]

-----------------------------------------------------------------------------
(***************************************************************************)
(* Extraction of one entry: extract_file, file_blocks, follow_block_chain. *)
(***************************************************************************)

\* The entry read_file_table makes of the descriptor.
TableEntry == TableOf(pkg.shape)

Entry == IF call.op = "open" THEN TableEntry ELSE entries[at + 1]

NoRead == [block |-> MaxBlock, steps |-> 0, blocks |-> << >>, units |-> << >>, code |-> "ok"]

\* file_blocks of a file flagged as consecutive.
ConsecutiveError(entry) ==
  LET needed == Ceiling(entry.size)
  IN  IF entry.alloc * PerTable < entry.size THEN "Malformed"
      ELSE IF \/ needed > pkg.length \div PerTable
              \/ entry.start + needed - 1 > MaxBlock - 1 THEN "OutOfRange"
      ELSE "ok"

Consecutive(entry) == [i \in 1 .. Ceiling(entry.size) |-> entry.start + i - 1]

\* Starts to extract an entry: its blocks are counted, or its chain followed.
ReadFrom(entry) ==
  IF entry.size = 0 THEN phase' = "deliver" /\ read' = NoRead
  ELSE IF ~entry.consecutive
  THEN phase' = "walk" /\ read' = [NoRead EXCEPT !.block = entry.start]
  ELSE IF ConsecutiveError(entry) # "ok"
  THEN phase' = "deliver" /\ read' = [NoRead EXCEPT !.code = ConsecutiveError(entry)]
  ELSE phase' = "copy" /\ read' = [NoRead EXCEPT !.blocks = Consecutive(entry)]

MaxSteps == pkg.length \div PerTable + 1

\* The first n blocks of the chain from a block.
Chain(start, n) ==
  LET block[i \in 1 .. n] == IF i = 1 THEN start ELSE HashEntry(block[i - 1]).next
  IN  block

\* Mutant: the steps are not counted.
FollowUncounted ==
  /\ phase = "walk"
  /\ IF read.block = MaxBlock
     THEN phase' = "copy" /\ read' = [read EXCEPT !.blocks = Chain(Entry.start, read.steps)]
     ELSE IF HashEntry(read.block).code # "ok"
     THEN phase' = "deliver" /\ read' = [read EXCEPT !.code = HashEntry(read.block).code]
     ELSE phase' = "walk" /\ read' = [read EXCEPT !.block = HashEntry(read.block).next]
  /\ UNCHANGED <<pkg, entries, opened, call, at, memory, disk, answer>>

\* One turn of follow_block_chain; the blocks it has gone through are those
\* of the chain so far.
FollowBlockChain ==
  /\ phase = "walk"
  /\ IF read.block = MaxBlock
     THEN phase' = "copy" /\ read' = [read EXCEPT !.blocks = Chain(Entry.start, read.steps)]
     ELSE IF read.steps >= MaxSteps
     THEN phase' = "deliver" /\ read' = [read EXCEPT !.code = "Malformed"]
     ELSE IF HashEntry(read.block).code # "ok"
     THEN phase' = "deliver" /\ read' = [read EXCEPT !.code = HashEntry(read.block).code]
     ELSE /\ phase' = "walk"
          /\ read' = [read EXCEPT !.block = HashEntry(read.block).next, !.steps = @ + 1]
  /\ UNCHANGED <<pkg, entries, opened, call, at, memory, disk, answer>>

\* What stops the copy at a block.
CopyError(block) ==
  IF call.verify /\ VerifyDataBlock(block) # "ok" THEN VerifyDataBlock(block)
  ELSE IF DataBlock(block) > MaxBlock \/ ~Inside(Offset(DataBlock(block)), PerTable)
  THEN "OutOfRange"
  ELSE "ok"

\* Blocks that end before the file does are not the file.
EndOfBlocks == IF Len(read.units) < Entry.size THEN "Truncated" ELSE "ok"

\* One turn of extract_file's loop, which ends when the file is complete.
CopyBlock ==
  /\ phase = "copy"
  /\ IF read.blocks = << >> \/ Len(read.units) >= Entry.size
     THEN phase' = "deliver" /\ read' = [read EXCEPT !.code = EndOfBlocks]
     ELSE LET block == Head(read.blocks)
              wanted == Entry.size - Len(read.units)
          IN  IF CopyError(block) # "ok"
              THEN phase' = "deliver" /\ read' = [read EXCEPT !.code = CopyError(block)]
              ELSE /\ phase' = "copy"
                   /\ read' = [read EXCEPT
                        !.units  = @ \o SubSeq(UnitsAt(DataBlock(block)), 1,
                                               IF wanted < PerTable THEN wanted ELSE PerTable),
                        !.blocks = Tail(@)]
  /\ UNCHANGED <<pkg, entries, opened, call, at, memory, disk, answer>>

-----------------------------------------------------------------------------
(***************************************************************************)
(* The file table: parse_file_listing, build_entry_paths, safe_join.       *)
(***************************************************************************)

EntryIn(unit) == IF unit \in DOMAIN pkg.listing THEN pkg.listing[unit] ELSE [NoEntry EXCEPT !.name = "noise"]

\* parse_file_listing: the entries up to the first without a name length.
Listed(units) ==
  LET ends == {i \in DOMAIN units : EntryIn(units[i]) = NoEntry}
      n    == IF ends = {} THEN Len(units)
              ELSE (CHOOSE i \in ends : \A j \in ends : i =< j) - 1
  IN  [i \in 1 .. n |-> EntryIn(units[i])]

ListingError(listed) ==
  IF \E i \in DOMAIN listed : listed[i].name \in BadName THEN "Malformed" ELSE "ok"

\* build_entry_paths: an entry lies in one listed before it.
PathError == IF \E i \in DOMAIN entries : entries[i].parent >= i - 1 THEN "Malformed" ELSE "ok"

Paths ==
  LET path[i \in 0 .. Len(entries) - 1] ==
        IF entries[i + 1].parent = Root THEN <<entries[i + 1].name>>
        ELSE Append(path[entries[i + 1].parent], entries[i + 1].name)
  IN  path

\* lexically_normal: "." goes, a name and the ".." behind it cancel.
Normal(path) ==
  LET kept[n \in 0 .. Len(path)] ==
        IF n = 0 THEN << >>
        ELSE LET before == kept[n - 1]
             IN  IF path[n] = "." THEN before
                 ELSE IF path[n] = ".." /\ before # << >> /\ before[Len(before)] # ".."
                 THEN SubSeq(before, 1, Len(before) - 1)
                 ELSE Append(before, path[n])
  IN  kept[Len(path)]

\* safe_join, of a path that may be written.
JoinError(path) ==
  IF \/ \E i \in DOMAIN path : path[i] \in Rooted
     \/ \E i \in DOMAIN Normal(path) : Normal(path)[i] = ".."
     \/ Normal(path) = << >>
  THEN "InvalidArgument" ELSE "ok"

\* Mutant: only the first destination is looked at before writing.
PlanErrorOfFirst ==
  IF PathError # "ok" THEN PathError
  ELSE IF entries # << >> /\ JoinError(Paths[0]) # "ok" THEN "InvalidArgument" ELSE "ok"

\* plan_destinations.
PlanError ==
  IF PathError # "ok" THEN PathError
  ELSE IF \E i \in DOMAIN Paths : JoinError(Paths[i]) # "ok" THEN "InvalidArgument" ELSE "ok"

Destination == Normal(Paths[at])

\* A path that ended in "." or ".." still ends as a directory's when normalised:
\* its parent is itself, and no file is opened there.
NamesFile == Paths[at][Len(Paths[at])] \notin {".", ".."}

-----------------------------------------------------------------------------
(***************************************************************************)
(* The target directory (external).                                        *)
(***************************************************************************)

\* A directory and those above it; << >> is the target directory itself.
Prefixes(path) == {path} \cup {SubSeq(path, 1, n) : n \in 1 .. Len(path)}
Parent(path)   == SubSeq(path, 1, Len(path) - 1)

CanCreate(path) == Prefixes(path) \cap DOMAIN disk.files = {}
Created(path)   == [disk EXCEPT !.dirs = @ \cup Prefixes(path)]

Stored(d, path, units) ==
  [d EXCEPT !.files = [p \in DOMAIN @ \cup {path} |-> IF p = path THEN units ELSE @[p]]]

-----------------------------------------------------------------------------
(***************************************************************************)
(* The container's calls.                                                  *)
(***************************************************************************)

EmptyDisk == [files |-> << >>, dirs |-> {}]

NoCall   == [op |-> "none", verify |-> FALSE, without |-> {}]
NoAnswer == [op |-> "none", code |-> "ok", verify |-> FALSE, at |-> 0, units |-> << >>,
             without |-> {}]

Ended(code) ==
  /\ answer' = [op |-> call.op, code |-> code, verify |-> call.verify, at |-> at,
                units |-> read.units, without |-> call.without]
  /\ call' = NoCall /\ phase' = "idle" /\ at' = 0 /\ read' = NoRead

Refused(op, code) ==
  /\ answer' = [NoAnswer EXCEPT !.op = op, !.code = code]
  /\ memory' = << >> /\ disk' = EmptyDisk
  /\ UNCHANGED <<pkg, entries, opened, call, phase, at, read>>

\* Each call has results of its own, and an empty directory to extract to.
Calls(op, verify, without) ==
  /\ phase = "idle"
  /\ call' = [op |-> op, verify |-> verify, without |-> without]
  /\ answer' = NoAnswer
  /\ memory' = << >> /\ disk' = EmptyDisk

\* The signature (parse_header), of a PIRS package only.
SignatureError ==
  CASE pkg.header = "unsigned" -> "Malformed"
    [] pkg.header = "short"    -> "Truncated"
    [] OTHER                   -> "ok"

\* The metadata (parse_metadata), as far as the files depend on it.
MetadataError ==
  CASE pkg.header = "short_metadata" -> "Truncated"
    [] pkg.header = "header_size"    -> "Malformed"
    [] OTHER                         -> "ok"

\* The volume descriptor: of the read-only layout, with a file table.
DescriptorError ==
  CASE pkg.header \in {"svod", "writable"} -> "Unsupported"
    [] pkg.header = "no_table"             -> "Malformed"
    [] OTHER                               -> "ok"

HeaderError ==
  IF SignatureError # "ok" THEN SignatureError
  ELSE IF MetadataError # "ok" THEN MetadataError
  ELSE DescriptorError

\* Opening; the file table is read like a file, unverified.
Open ==
  /\ ~opened /\ phase = "idle" /\ answer.op = "none"
  /\ \/ HeaderError # "ok" /\ Refused("open", HeaderError)
     \/ /\ HeaderError = "ok"
        /\ Calls("open", FALSE, {})
        /\ phase' = "walk"
        /\ read' = [NoRead EXCEPT !.block = TableEntry.start]
        /\ UNCHANGED <<pkg, entries, opened, at>>

\* extract.
Extract(i, verify) ==
  /\ opened /\ i < Len(entries)
  /\ Calls("entry", verify, {})
  /\ at' = i
  /\ ReadFrom(entries[i + 1])
  /\ UNCHANGED <<pkg, entries, opened>>

Key(i) == Fold[entries[i].name]

\* The place of the first file of a key.
FilesOf(key) == {i \in DOMAIN entries : ~entries[i].dir /\ Key(i) = key}
FirstOf(key) == CHOOSE i \in FilesOf(key) : \A j \in FilesOf(key) : i =< j

\* extract_file_by_name.
ExtractFileByName(key) ==
  /\ opened /\ phase = "idle"
  /\ \/ FilesOf(key) = {} /\ Refused("name", "NotFound")
     \/ /\ FilesOf(key) # {}
        /\ Calls("name", FALSE, {})
        /\ at' = FirstOf(key) - 1
        /\ ReadFrom(entries[FirstOf(key)])
        /\ UNCHANGED <<pkg, entries, opened>>

\* extract_to_memory.
ExtractToMemory(without) ==
  /\ opened
  /\ Calls("memory", FALSE, without)
  /\ phase' = "next" /\ at' = 0
  /\ UNCHANGED <<pkg, entries, opened, read>>

\* extract_all: every destination is planned before anything is written, and
\* the target directory is made.
ExtractAll(verify) ==
  /\ opened /\ phase = "idle"
  /\ \/ PlanError # "ok" /\ Refused("all", PlanError)
     \/ PlanError = "ok" /\ Refused("all", "IoError")
     \/ /\ PlanError = "ok"
        /\ Calls("all", verify, {})
        /\ phase' = "next" /\ at' = 0
        /\ UNCHANGED <<pkg, entries, opened, read>>

\* Goes past the entry at hand.
Past == phase' = "next" /\ at' = at + 1 /\ read' = NoRead

\* The directory extract_all makes for the entry at hand.
Directory ==
  IF Entry.dir \/ ~NamesFile THEN Destination ELSE Parent(Destination)

\* extract_to_memory and extract_all at the next entry.
NextEntry ==
  /\ phase = "next"
  /\ \/ /\ at = Len(entries)
        /\ Ended("ok")
        /\ UNCHANGED disk
     \/ /\ at < Len(entries) /\ call.op = "memory"
        /\ IF Entry.dir \/ Key(at + 1) \in call.without THEN Past
           ELSE ReadFrom(Entry) /\ UNCHANGED at
        /\ UNCHANGED <<call, answer, disk>>
     \/ /\ at < Len(entries) /\ call.op = "all"
        /\ \/ Ended("IoError") /\ UNCHANGED disk
           \/ /\ CanCreate(Directory)
              /\ disk' = Created(Directory)
              /\ IF Entry.dir THEN Past ELSE ReadFrom(Entry) /\ UNCHANGED at
              /\ UNCHANGED <<call, answer>>
  /\ UNCHANGED <<pkg, entries, opened, memory>>

\* The file table is in: the container is made of the entries it lists.
OpenDelivered ==
  /\ call.op = "open"
  /\ LET listed == Listed(read.units)
     IN  IF read.code = "ok" /\ ListingError(listed) = "ok"
         THEN entries' = listed /\ opened' = TRUE /\ Ended("ok")
         ELSE /\ Ended(IF read.code # "ok" THEN read.code ELSE "Malformed")
              /\ UNCHANGED <<entries, opened>>
  /\ UNCHANGED <<memory, disk>>

\* A single file is the answer.
FileDelivered ==
  /\ call.op \in {"entry", "name"}
  /\ Ended(read.code)
  /\ UNCHANGED <<entries, opened, memory, disk>>

\* Mutant: a later file of a name replaces the first.
RememberLast(key, units) ==
  [k \in DOMAIN memory \cup {key} |-> IF k = key THEN units ELSE memory[k]]

\* results.emplace keeps the file a name has already.
Remember(key, units) ==
  [k \in DOMAIN memory \cup {key} |-> IF k \in DOMAIN memory THEN memory[k] ELSE units]

MemoryDelivered ==
  /\ call.op = "memory"
  /\ IF read.code # "ok" THEN Ended(read.code) /\ UNCHANGED memory
     ELSE /\ memory' = Remember(Key(at + 1), read.units)
          /\ Past /\ UNCHANGED <<call, answer>>
  /\ UNCHANGED <<entries, opened, disk>>

\* write_file truncates the file before it writes it, and the disk may fail
\* before and after that.
DiskDelivered ==
  /\ call.op = "all"
  /\ \/ read.code # "ok" /\ Ended(read.code) /\ UNCHANGED disk
     \/ /\ read.code = "ok"
        /\ \/ Ended("IoError") /\ UNCHANGED disk
           \/ /\ Destination \notin disk.dirs /\ NamesFile
              /\ \/ Ended("IoError") /\ disk' = Stored(disk, Destination, Torn)
                 \/ /\ disk' = Stored(disk, Destination, read.units)
                    /\ Past /\ UNCHANGED <<call, answer>>
  /\ UNCHANGED <<entries, opened, memory>>

Deliver ==
  /\ phase = "deliver"
  /\ OpenDelivered \/ FileDelivered \/ MemoryDelivered \/ DiskDelivered
  /\ UNCHANGED pkg

-----------------------------------------------------------------------------

Init ==
  /\ pkg \in Package
  /\ entries = << >> /\ opened = FALSE
  /\ call = NoCall /\ phase = "idle" /\ at = 0 /\ read = NoRead
  /\ memory = << >>
  /\ disk = EmptyDisk
  /\ answer = NoAnswer

\* What a running call does next.
Step == FollowBlockChain \/ CopyBlock \/ NextEntry \/ Deliver

Ask ==
  \/ Open
  \/ \E i \in DOMAIN entries, verify \in BOOLEAN : Extract(i - 1, verify)
  \/ \E name \in DOMAIN Fold : ExtractFileByName(Fold[name])
  \/ \E without \in Excluding : ExtractToMemory(without)
  \/ \E verify \in BOOLEAN : ExtractAll(verify)

Next == Step \/ Ask

\* A call runs on the caller's thread until it returns; nothing is promised
\* of the calls themselves.
Fairness == WF_vars(Step)

Spec == Init /\ [][Next]_vars /\ Fairness

-----------------------------------------------------------------------------
(***************************************************************************)
(* What must hold.                                                         *)
(***************************************************************************)

\* Every call returns, whatever the package holds: a chain that runs in a
\* circle, past the package or on after the file is complete is given up.
CallReturns == phase # "idle" ~> phase = "idle"

\* The package is as published.
Intact == pkg.rot = {} /\ pkg.length = FullLength(pkg.shape) /\ pkg.header = "good"

PublishedEntry(i) == Published(pkg.shape, entries[i])

\* What extract_all owes entry i: a directory is one, and the path of a file
\* holds all of the last file listed for it that was written.
LaidBy(path, j) ==
  ~entries[j].dir /\ Normal(Paths[j - 1]) = path /\ Len(disk.files[path]) = entries[j].size

OnDisk(i) ==
  LET path == Normal(Paths[i - 1])
  IN  IF entries[i].dir THEN path \in disk.dirs
      ELSE /\ path \in DOMAIN disk.files \ disk.dirs
           /\ \E j \in i .. Len(entries) : LaidBy(path, j)

\* After a successful extract_all, of a damaged package too, every listed
\* entry is on disk, whatever was laid over whatever.
AllOnDisk ==
  phase = "idle" /\ answer.op = "all" /\ answer.code = "ok" =>
    \A i \in DOMAIN entries : OnDisk(i)

\* An undamaged package of any number of blocks is not refused and reads back
\* as published: each entry with and without verification, a name's first
\* file, in memory the same file for that name, with nothing left out but what
\* was asked, and on disk a file of that path.  What a package that is damaged
\* or not puts on disk is whole.
ReadsBack ==
  /\ AllOnDisk
  /\ Intact /\ phase = "idle" =>
       /\ answer.op \in {"open", "entry", "memory"} => answer.code = "ok"
       /\ answer.op = "name" => answer.code \in {"ok", "NotFound"}
       /\ answer.op \in {"entry", "name"} /\ answer.code = "ok" =>
            answer.units = PublishedEntry(answer.at + 1)
       /\ answer.op = "memory" =>
            /\ DOMAIN memory = {Key(i) : i \in {j \in DOMAIN entries : ~entries[j].dir}}
                                  \ answer.without
            /\ \A k \in DOMAIN memory : memory[k] = PublishedEntry(FirstOf(k))
       /\ answer.op = "all" /\ answer.code = "ok" =>
            \A i \in {n \in DOMAIN entries : ~entries[n].dir} :
              LET path == Normal(Paths[i - 1])
              IN  \E j \in i .. Len(entries) :
                    LaidBy(path, j) /\ disk.files[path] = PublishedEntry(j)

\* With verification, whatever was damaged, an entry the publisher listed is
\* extracted as published or not at all.
VerifiedIsPublished ==
  /\ phase = "idle" /\ answer.op = "entry" /\ answer.verify /\ answer.code = "ok"
  /\ \E u \in DOMAIN Shape[pkg.shape].listing :
       Shape[pkg.shape].listing[u] = entries[answer.at + 1]
  => answer.units = PublishedEntry(answer.at + 1)

\* A package with one destination that may not be written writes nothing, not
\* even the files listed before that one.
PlannedBeforeWritten ==
  \/ PathError # "ok"
  \/ \E i \in DOMAIN Paths : JoinError(Paths[i]) # "ok"
  => disk = EmptyDisk

=============================================================================
