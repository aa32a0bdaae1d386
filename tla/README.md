# gxbuild3: models, checks and proofs

gxbuild3 assembles, opens and re-seals Xbox 360 NAND images: it reads a dump or
the parts of one, gives them the boot loaders, patches, files and settings a
release INI lists, seals the boot chain for one console and lays everything on
a flash image. This directory holds TLA+ models of the parts of it where the
order of steps matters, configurations that check them with TLC on small
instances, and proofs, checked by TLAPS, that hold for every instance.

The program is sequential. Nothing in the repository starts a thread, and one
call of the library ends before the next begins, so one call, or one stage of a
long one, is one step of a model. The exception is the lookup of files: other
programs may write the source directories while it reads them, and there every
system call is a step. Reading a package is modelled turn by turn of its loops,
to ask whether they end. What makes the program hard is not scheduling but

- long chains of in-place changes to one object (a filesystem is loaded,
  edited, re-rooted, saved and loaded again; an image is opened, edited, sealed
  again under another key and opened again);
- two parts of the code that must agree and are written twice (where the
  layout is checked and where it is written; the lookup of a payload before
  loading and while loading; deriving a key to seal and to open);
- space shared by many claimants (boot chain, update slots, payloads, settings,
  bad blocks, files, the root);
- operations that fail half way and leave the object in use.

Paths below are relative to the repository's root.

## 1. Inventory

| Component | Source | State it keeps | Operations |
| --- | --- | --- | --- |
| Flash filesystem | `src/nand/objects/FlashFileSystem.cpp` | block map, ordered directory, cached bytes by name, values stated for withheld clusters, place of the root, the driver it is bound to | `format`, `set_root_block`, `reserve_blocks`, `withhold_clusters`, `withhold_blocks`, `add_file`, `insert_file`, `delete_file`, `get_file`, `load`, `save` |
| Flash driver | `src/nand/FlashDriver.cpp` | raw image, mode (small, big, eMMC), spare bytes with stamps, bad marks and EDC | read and write blocks and spans, erase, stamp a block or cluster, serialize |
| Image layout | `src/nand/FlashImageLayout.cpp` | none | `plan_layout`, `plan_for_seal`, `payload_layout`, ranges of payloads in blocks |
| Image writer | `src/nand/FlashImageWrite.cpp` | the driver's blocks while writing | `write_to_driver` and its stages: head, chain, slots, settings, payloads, mobile data, filesystem, anchors |
| Image parser | `src/nand/FlashImageParse.cpp` | the `FlashImage` it fills | `parse` and its stages, `scan_mobile_copies`, `find_fs_root` |
| Image sealing | `src/nand/FlashImageCrypt.cpp` | boot loaders, keys, CF tables, SMC, keyvault | `decrypt_all`, `encrypt_all`, `prepare_cg_tail` |
| Boot loaders | `src/nand/bootloaders/*` | nonce, body, metadata, whether decrypted | parse, pack, encrypt, decrypt, derive the next key |
| Image objects | `src/nand/objects/*` | keyvault, SMC, settings, mobile data, xboxupd | parse, serialize, seal and open |
| Secured files | `src/nand/objects/SecuredFiles.cpp`, `sealed_flashfs_file` of `src/BuildRunner.cpp` | none: the copy a build is given, the donor's own and the one it lays | open, take the console's sealing, seal for this build, make up a clean one |
| eMMC anchors | `src/nand/objects/CoronaConfig.cpp` | two numbered copies of the anchor | parse, serialize, digest |
| Patch sets and patchers | `src/nand/objects/Patchset.cpp`, `src/patchers/*` | sections of a patch file | parse, apply to a stage |
| STFS packages | `src/stfs/*` | an opened package's bytes, its listing, the target directory while extracting | `open`, `extract`, `extract_file_by_name`, `extract_to_memory`, `extract_all`, with and without verification |
| File manager | `src/utils/FileManager.cpp` | three caches (listing by directory, package by file, in-memory package) under one mutex | `find_file_data*`, `find_bootloader_data*`, `read_ini_files`, clear caches |
| Command-line resolver | `src/cli/BuildInputResolver.cpp`, `src/InputValidator.cpp` | the `Input` it fills | `resolve`, `validate_input` |
| Build pipeline | `src/BuildRunner.cpp` | options, the image being built | `run_build`, `extract_all` |
| Library interface | `src/Library.cpp` | none | pass-through |
| Options and text | `src/Main.cpp`, `src/Args.cpp`, `src/ini/*`, `src/cli/CommandLine.cpp` | parsed values | parse |
| Utilities | `src/utils/*` | none | arithmetic, RSA, dates, fuses, logging |

How they interact. The resolver reads the command line, asks the file manager
for INI files, assets and packages, and opens a donor image with the parser; it
hands an `Input` to `run_build`. That builds or adopts a `FlashImage`, applies
patches, gives every stage its metadata and nonces, lays files in the
filesystem, checks the layout, calls `encrypt_all` (which puts CG tails in the
filesystem) and `write_to_driver` (which moves the root, saves the filesystem
through the driver it is bound to, and lays the settings), and the driver
serializes its blocks with their spares. All of these are direct calls; the
state they share is the image, its filesystem and its driver.

What makes each part correct:

- *filesystem*: no two files share a cluster; the block map and the directory
  say the same; a call on one file leaves the others alone; what is saved is
  what is opened again;
- *layout, writer, parser*: nothing laid is lost to what is laid later, the
  files' area is left alone, an accepted image is written whole, and the layout
  read back is the one laid; of several roots and settings copies the newest is
  found; a bad block stays marked;
- *sealing*: every stage lies under the key its parent derives, opens again,
  and carries digests and MACs of what lies in the image;
- *file manager*: a lookup answers from the source of highest priority that
  has the file, and never from bytes older than the request;
- *secured files*: a copy that can be read is laid sealed for the console of the
  build, under that console's own sealing, and building a dump again changes
  nothing;
- *packages*: a call ends whatever the package holds, an undamaged package reads
  back as published, a verified file is the published one, and nothing is
  written unless everything may be;
- *INI reader and resolver*: every listed stage and payload ends in its place
  once, from its best source, and a build is handed what its type needs.

The hazards these come from, each at its line, are in `PROJECT.json`.

## 2. Modules

| Module | Models | Composes |
| --- | --- | --- |
| `FlashFS` | the filesystem object, one action per public call; the refinement mapping to the store | instantiates `FlashStore` |
| `FlashStore` | abstract: an ordered list of files, one per name | |
| `FlashDisk` | the filesystem on the NAND: clearing old roots, placing the root, save, load | extends `FlashFS`, instantiates `SavedStore` |
| `SavedStore` | abstract: the list last written is the list opened | extends `FlashStore` |
| `ImageLayout` | layout plan, payload checks, the write stages, reading the layout back | |
| `DataArea` | settings copies, roots, files and bad blocks over an image's life | |
| `BootSeal` | sealing and opening of the chain, update slots, SMC and keyvault; `run_build`'s patching, metadata and nonces, `extract_all` | |
| `SecuredFiles` | one secured file through any number of builds | |
| `AssetLookup` | a lookup against a disk other programs write | |
| `StfsLayout` | where a package's data blocks and hash tables lie | |
| `StfsPackage` | opening a package, its listing, block chains, verification and extraction | extends `StfsLayout` |
| `IniFiles` | `read_ini_files` | |
| `InputResolver` | `resolve` and `validate_input` | instantiates `IniFiles` as its reader |
| `FlashDiskProofs` | first the inductive invariant of `FlashFS`, chain lengths, what a call leaves alone, the refinement of `FlashStore`; then the refinement of `SavedStore`, what a load and a write keep | extends `FlashDisk` |
| `ImageLayoutProofs` | what is laid stands, the files' area is left alone, the plans agree | extends `ImageLayout` |
| `StfsPackageProofs` | blocks and tables never meet and lie where they are looked for; what is verified is as published; what `extract_all` writes | extends `StfsPackage` |
| `DataAreaProofs` | the newest copy and root are found; what a write leaves and keeps | extends `DataArea` |
| `BootSealProofs` | a written image's chain, digests and MACs; opening and sealing again | extends `BootSeal` |
| `AssetLookupProofs` | what a cache holds, and what an answer is worth | extends `AssetLookup` |
| `SecuredFilesProofs` | a secured file is sealed for the console, its sealing kept | extends `SecuredFiles` |
| `InputResolverProofs` | whose data and which files a build is handed | extends `InputResolver` |
| `MC*` | instances for TLC (`MCInputResolver` also for its reader, `IniFiles`) | extend the module they check |

### How the models correspond to the code

`PROJECT.json`'s `map` names the lines of every definition. In outline:

- **FlashFS.** `fs` is the object: `map` is `m_block_map` (the 16-bit link
  values, high bit masked by `Low`), `dir` is `m_entries`, `data` is
  `m_file_data` (keyed by the exact name), `stated` is `m_withheld`, and the
  `root*` fields are the root's place and how many clusters it keeps. `last` is
  the latest call, its error code and an insert's position. Each action is a whole call with what it
  leaves behind when it fails: `InsertFile` takes out every file from the
  position on, lays them again, and stops at the first that does not fit.
  `Chain` is `get_chain` with its guard against revisits.
- **FlashDisk.** `nand` gives each 16 KiB cluster's kind. `WriteImage` is
  `clear_stale_fs_roots`, `place_and_save_filesystem` and `save` in their order,
  with and without the erase of a preserved layout; it changes `nand` only when
  it succeeds, as callers abandon a failed image. `OpenImage` is `find_fs_root`
  and `load`. Links are rebased to `base_cluster()` as the code does.
  `written` is history: the files the image was last written with.
- **ImageLayout.** `laid` is the sequence of intervals the stages wrote, fills
  included; `Plan`, `PlanForSeal` and `PayloadLayout` are the code's own
  arithmetic on byte offsets. `Reparse` keeps what `parse` can recover and
  writes the image a second time.
- **DataArea.** Per page a stamp (type, sequence, size, free count) and what it
  holds. `WriteBack` and `Rebuild` are the program; `ConsoleStore`,
  `ConsoleSaveFs` and `WearOut` are the console and the chip between two runs,
  external to the repository and modelled on what the parser's comments say a
  console writes.
- **BootSeal.** Cryptography is symbolic. A key is the sequence of what it was
  derived from; RC4 is an involution, so a stage remembers the set of
  keystreams lying on it, and a stage sealed twice or decrypted while plaintext
  shows. `RunBuild` is the boot loader half of `run_build`: `PatchesApplied`
  puts a glitch patch set on the stages it is about and refuses it whole when one
  is missing or the chain grows too long (a stage sealed when it is patched is
  "spoilt"); `Read`, `Open`,
  `Reseal`, `Extract` are the library's calls on the result; `EditSmc` and
  `MakeRoom` are a caller's changes between them. An `encrypt_all` that fails
  leaves the image half sealed (`phase = "broken"`).
- **SecuredFiles.** A behaviour follows one of `crl.bin`, `dae.bin`,
  `extended.bin`, `secdata.bin` and `fcrt.bin`, since no file looks at another.
  A text is its plaintext under layers of ciphers; AES layers cancel against
  their inverse, RC4 against itself, and a digest is what it was taken of. One
  step, `Build`, is a whole build of one file: `Extracted` (`extract_all` opens the
  donor's copy), `Resolved` (loose copies give way or take over, an empty file is
  made up) and `SealedFlashFSFile` (`sealed_flashfs_file`), with any key, time,
  lockdown value and keyvault; its image is the donor of the next.
- **StfsLayout, StfsPackage.** The formulas of `BlockParser.cpp` at any number of
  records per table. A package is what a publisher laid (external: `Image`) with
  a set of changed blocks, changed links, statuses and entries, and a length.
  Each step is one turn of a loop: `FollowBlockChain` a link, `CopyBlock` a
  block, `NextEntry` and `Deliver` an entry; `Open`, `Extract`,
  `ExtractFileByName`, `ExtractToMemory` and `ExtractAll` are the calls. Writing
  may fail before and after the file is truncated. `pkg` is `data_`, `entries` is
  `entries_`; a call that runs is `call` with its loop in `phase`.
- **AssetLookup.** One step per thing asked of the operating system (a
  directory's time, its listing, a package's time, size, bytes), so that the
  writer's steps fall between any two. `WriterWrites` and `WriterRemoves` are
  external.
- **IniFiles.** One step per listed entry, with the counters of each chain.
- **InputResolver.** One step per stage of `resolve`, each either the refusal
  of its first failing check or all its effects; reading the INI's files is the
  steps of `IniFiles`. The strict check of payloads before loading
  (`CheckListed`) and the lenient read after it are separate, as in the code.

## 3. The runs

Every passing run explores its whole state space. Deadlock is checked except
where the system rightly stops (a resolved input, a sealed image at its bound,
a lookup whose writer has used up its clock, a written layout, a data area at its
version bound, a package that did not open).

| Run | Question | Instance | Shows |
| --- | --- | --- | --- |
| `files` | does the directory behave as a list of files? | 5 blocks, ratio 1, 3 entries; names Foo, foo, bar, baz; files of one and of two clusters | files apart, every cluster accounted for, chains of the right length; a call on one file leaves others alone, an insert keeps files back to back; refinement of `FlashStore` |
| `space` | is reserved, withheld and root space kept? | 5 blocks of 2 clusters, table from cluster 2; root blocks 0, 2, 4, 9; reservations and withholdings in and out of range and over the root; an empty file | the root is held; what was withheld stays so, but for a cluster of a block the root leaves (below) |
| `disk` | does an image give back what was written? | 3 blocks of 2 clusters, table from cluster 2; two names, files of one and two clusters; edits, reservations and withholdings between any two of write and open | refinement of `SavedStore`; the table survives a load and shares no cluster between files; a write fails only for want of a block |
| `layout_built` | is every accepted image laid whole? | all shapes and types `run_build` makes, every kind of donor, sizes at each threshold of the layout | nothing laid is lost, nor refused once accepted; files' area clear; seal plan and re-read layout agree |
| `area` | is the newest copy and root found? | 4 blocks of 4 pages in slots of 2, two kinds of settings, one block that may go bad | newest copies and root live, no stale copy left, no block taken twice, bad marks kept |
| `seal` | does every chain open again? | all chain shapes and build types, no, one and two update slots beside two of the shapes, every listed subset supplied sealed, patched and not, three seals, two SMC versions; CGs that fit or spill, a filesystem without room | chain linked, opens again and unspoilt, digests current, MACs and tails current, reseal restores |
| `secured` | is a secured file always this console's? | eight to ten copies of each file (sealed for the console, another, by an update package, under the zero key, in the clear, damaged, of a wrong length), two keys, three settings, any sequence of builds | sealed for the console with its content and date; its sealing kept; a rebuild changes nothing |
| `stfs` | is a package read back, and does reading end? | tables of 2 records; packages of one table, one full level and three levels as published, cut at every unit, with any one block, link, status or entry changed; links that lead to records no block uses or behind the package; ones with every kind of awkward path | every call returns; undamaged packages read back; verified means published; nothing written unless all may be |
| `assets` | is priority kept, and may a cache go stale? | two directories of two package files in every state, in-memory packages, every kind of name, both policies, two writes at any step of a lookup | answers are those of a fresh look at some moment of the request; caches hold what their stamps say |
| `resolve` | whose data and which files does a build get? | every source of each value, absent, good, bad; mobile data absent, found, unreadable; one and two payloads, every supply, donors; every type, each asset there, missing, unreadable; every chain shape of an INI by name and number, with names known only without an extension and with second CBs and CDs; lists of payloads that alias | precedence of sources; roots before donor, donor only for what is needed; every stage of a known name in a slot, but for a first CD replaced (below); payloads once, in order, from the best source |

Each request of `resolve`, its INIs included, varies one concern (sources,
payloads, the type's assets, the INI's bootloaders and lists) and holds the others at an
ordinary value: the code treats the concerns in separate stages that meet only
in the refusals, so their product adds nothing. `Init` picks the concern first.

Why the bounds are enough. The filesystem's branches depend on whether a file
needs zero, one or two clusters, whether the disk or the directory is full,
whether a replaced file stands before or after the position, and whether a root
shares its block: five blocks and three entries give each with room for one
bystander. A settings copy's branches depend on fitting the rest of a block, a
slot, or a new block; two kinds and pages of one and of three cover them, and
`MaxVersion` = 2 suffices because only the order of versions counts. Three
seals are a build, a reseal, and what either does to a later one. Two roots
show priority. A lookup that meets a stale cache needs one write between two of
its reads and a look at the result, which two writes reach with one to spare for
a file that goes and comes back. A package's formulas branch on whether a level
is exactly full, which tables of two records reach with four blocks, and the
third level with five; what a longer package adds is more of the same, and the
layout theorems hold for every table size. Layout arithmetic is
checked at the program's real sizes; the lengths tried lie at, below and above
each comparison in the code. Bounds that cut a behaviour are constants whose
comment says `bound`: `MaxSeals`, `MaxSmc`, `MaxClock`, `MaxVersion`,
`MaxFiles`, `MaxBad`, `MaxLayers`.

`FlashFS`'s `TypeOK` is proved (`TypeCorrect`) and in no run; those of `ImageLayout` and
`BootSeal` describe the variables for the reader and are in no run, where the
other properties leave nothing for them to find.

**Fairness and liveness.** One specification states fairness: `StfsPackage` has
weak fairness of `Step`, the turns of the loops of the call that runs. The
program is sequential and a started call runs until it returns, so a turn that
can be taken is taken; nothing is assumed of the calls themselves, nor of the
choice a step leaves open (a disk that fails). Under it `CallReturns` says that
every call ends, and it is worth saying because a chain is followed through a
file's own links: a damaged package may link a block to itself. In the other
models every call is one step over bounded data, and what they leave open between
calls (whether a caller calls again, whether another program writes) is
nothing the code can promise.

### Disagreements met while modelling

Two runs check a promise of a comment or test that the code does not keep;
`PROJECT.json` quotes the lines.

| Run | Property | What happens |
| --- | --- | --- |
| `layout_fill` | `ZeroFillStopsAtNextItem` | the zero fill behind large JTAG patches runs over the fuses and XeLL |
| `seal_roundcf` | `OpensAgain` | an extracted plaintext CF with a tail is taken for sealed |

Further configurations show smaller disagreements the same way; each is run as
`tlc -config X.cfg MC<module>` and ends in a counterexample.

| Configuration | Property | What happens | Says otherwise |
| --- | --- | --- | --- |
| `FlashFS_stale` | `ReplacedBytesGone` | a file replaced under another case leaves its bytes in the cache, where `get_file` finds them | `FlashFileSystem.hpp:153` |
| `FlashFS_relay` | `EveryInsertKeepsBackToBack` | an insert that replaces an earlier file leaves a gap | `FlashFileSystem.hpp:151-153` |
| `DataArea_bad` | `BuildKeepsBadMarks` | a block gone bad under a donor's file is stated good by the next save | `FlashImageWrite.cpp:794` |
| `ImageLayout_bare` | `FilesAreaClear` | a JTAG image with patches only: the patch buffer's tail is written over the files | `BuildRunner.cpp:1542-1543` |
| `BootSeal_opensc` | `OpensAgain` | the SC of a CB chain is opened and never sealed again | `FlashImage.hpp:116` |
| `BootSeal_extracd` | `ChainLinked` | a plaintext second CB is re-nonced over a sealed second CD | `BuildRunner.cpp:690-692` |
| `BootSeal_second` | `OpensEverySealedStage` | `decrypt_all` leaves the second chain sealed | `FlashImage.hpp:113` |
| `BootSeal_lucky` | `OpensAgain` | one sealed CG in 4096 looks like plaintext | `FlashImage.hpp:113` |
| `BootSeal_patched` | `OpensAgain` | a stage supplied sealed takes its patch on the ciphertext and opens as neither the stage nor the patched one | `FlashImage.hpp:113` |
| `SecuredFiles_fcrt` | `OwnFcrtCarried` | a damaged `fcrt.bin` of the console's own is not carried but opened once more by each build: `is_console_secured_file` does not name it, so no own copy is kept | `BuildRunner.cpp:123-124` |
| `AssetLookup_closed` | `StrictFailsWhereItCannotLook` | a directory that cannot be listed counts as one without a package | `FileManager.hpp:94-96` |
| `AssetLookup_dangling` | `FirstPackageTaken` | an entry of unknown type ends the listing silently | `FileManager.cpp:295` |
| `InputResolver_alias` | `EveryStageKept` | on a JTAG image a second CD named in another manner than the first (`4bl`, or `cd8453.bin` without a `_`), or a CB after a `cba`, replaces the first instead of taking the second chain's slot | `FileManager.cpp:767-768` |
| `InputResolver_nosus` | `ListedFromRootsOrDonor` | the check before loading and the load differ on which names are security files, so a required payload is silently missing | `ResolverPayloadTests.cpp:1-4` |
| `InputResolver_backslash` | `ListedFromRootsOrDonor` | off Windows a donor's copy of `dir\file` is not found | `ResolverPayloadTests.cpp:1-4` |
| `InputResolver_twice` | `OnlyNeededFromDonor` | a donor's unsuffixed patch file stays beside the roots' suffixed one | `BuildInputResolver.cpp:970-971` |

The passing runs leave out exactly the inputs of these: `Gaps = {}` in
`BootSeal`, the JTAG patch sizes and `JtagXell` in `ImageLayout`,
`WearsUnderFiles` in `DataArea`, `Listings` in `AssetLookup`, `Concern = "all"`
in `InputResolver` (which holds every concern but those). In
`SecuredFiles` nothing is left out: `SealedForConsole` is about copies that can be
read.
`files` states the promises of the filesystem as far as the code keeps them
(`InsertKeepsBackToBack` is for names not listed yet).

Three losses are part of the passing runs, and the property that covers them names them:

- *A withheld cluster given back* (`WithheldStays`, run `space`). A cluster withheld while it
  is reserved as the root's is the root's and withheld at once; when the root then moves to
  another block, `set_root_block` frees it with the rest of the block it leaves
  (`FlashFileSystem.cpp:262-266`). `format` with a root, `withhold_blocks` over it, `set_root_block`
  is enough. The property says that no step but a format and this one gives a withheld
  cluster back. The callers in `src/` withhold free clusters only.
- *A listed bootloader dropped* (`EveryStageKept`, run `resolve`). `cb`, `2bl`, `4bl` and `5bl`
  are compared with the whole key, `3bl`, `6bl` and `7bl` with what comes before the extension
  (`FileManager.cpp:783-823`). So `cb.bin`, `2bl.bin`, `4bl.bin` and `5bl.bin` are found, match
  no branch and go nowhere, without an error. A chain that lacks its CB or CD in
  consequence is refused later for want of it; one that lists `5bl.bin` is resolved without a CE.
- *A first CD replaced* (`EveryStageKept`, run `resolve`). An image of one chain keeps the last
  CD its INI lists (`FileManager.cpp:809-810`), by whatever name.

## 4. What is proved

Every theorem holds for all values of the constants its assumptions admit.

**The filesystem** (first part of `FlashDiskProofs`), for every size of the map up to the table's 4096 clusters, every number of clusters
per block, every base cluster, every limit of the directory and every set of
names and contents:

| Theorem | States |
| --- | --- |
| `TypeCorrect` | the object keeps its shape |
| `FilesStayApart` | no two files share a cluster |
| `EveryClusterAccountedFor` | a cluster is linked exactly when it is on a listed file's chain |
| `EveryFileCached` | every listed file has its bytes, of the stated length |
| `NamesStayUnique` | no two entries match one name |
| `RootStaysHeld` | the root's clusters are held and nobody else's |
| `WithheldStaysReserved` | a withheld cluster is reserved in the map |
| `ChainsHoldTheirFiles` | a file's chain has exactly the clusters its length needs |
| `WithheldStaysKept` | but for a format, the only call that gives a withheld cluster back is a move of the root, and only a cluster of the block the root leaves (action property `WithheldStays`) |
| `OthersAreKept` | adding, replacing or deleting a file leaves every file of another name (action property) |
| `InsertsStayBackToBack` | an insert of a name not listed yet keeps files that sit back to back in directory order so (action property `InsertKeepsBackToBack`) |
| `KeepsTheStore` | `Spec => ImplementsStore`: every call is one the abstract store allows |

**The image on the NAND** (second part of `FlashDiskProofs`), for every map, part of the NAND the
table describes, set of usable blocks and of names and contents; any edits between
any writes, with or without the erase, and any opens:

| Theorem | States |
| --- | --- |
| `ImageSavesTheStore` | `SavingSpec => ImplementsSavedStore`: opening the image gives back the list it was last written with |
| `TablesAreStable` | the table survives a load and the next write bit for bit, and an opened filesystem's files stay apart |
| `WritesNeedOnlySpace` | a write fails for want of a free block and for nothing else |

**The image layout** (`ImageLayoutProofs`), for every set of images that `run_build`
assembles, of any shape and type and whatever the lengths of their parts, over every
donor:

| Theorem | States |
| --- | --- |
| `LaidBytesStand` | an accepted image is written whole and no part of it is lost to a later part or fill, when built and when read back and written again (under `PartsInPlace` and `PatchesInBlock`) |
| `FilesAreaStaysClear` | nothing laid or filled outside the filesystem meets a block the files are given (under those and `XellBehindPatches`) |
| `SealPlansAgree` | the seal reserves the update slots where the writer lays them |
| `LayoutIsReadBack` | an image read back plans its slots and its payloads where they were laid |

**Packages** (`StfsPackageProofs`), for every number of records
in a table above one, and every set of packages, damaged or not:

| Theorem | States |
| --- | --- |
| `BlocksOffTables` | no data block is put where a hash table lies |
| `BlocksKeepOrder` | data blocks keep their order, so no two are put in one place |
| `TablesApart` | two tables put in one place are the same table |
| `ImageLaid` | a publisher that appends each block behind the tables it starts lays every block and every table where the reader looks for it, and nothing else there |
| `VerifiedAsPublished` | an entry the publisher listed that `extract` returns with verification is the published one, whatever was changed or cut off |
| `ReadsBackWhole` | an undamaged package is not refused and reads back as published: entry by entry, in memory with a name's first file, and on disk (`ReadsBack`) |
| `PlansBeforeItWrites` | a package with one destination that may not be written writes nothing |
| `AllIsWritten` | after a successful `extract_all` every listed entry is on disk, whole (`AllOnDisk`, the first conjunct of `ReadsBack`) |

**The data area** (`DataAreaProofs`), for every number and size of erase blocks,
small and big, every size of slot that divides a block, every set of kinds and
blobs that fit a block, every set of supplied settings and every bound on the
console:

| Theorem | States |
| --- | --- |
| `NewestCopyIsTaken` | the scan of a dump takes, for every kind, the copy written last |
| `NewestRootIsOpened` | the root found is that of the filesystem saved last |
| `BlocksAreApart` | files, root and live copies share no block, and no file's bytes are lost |
| `NoCopyIsStale` | an image written holds no stamp of an older copy, bad blocks included |
| `MarksAreKept` | no call takes the mark off a bad block, where none wears out under a file (action property) |
| `WriteBackKeepsAll` | a write-back keeps every setting and every file, or fails (action property) |
| `RebuildCarriesSettings` | a build lays every setting supplied and the donor's others, or fails (action property) |

**Sealing** (`BootSealProofs`), for every set of supplied parts that
`InputsAssumption` admits, every donor's nonces, CPU key and build type, and any
number of builds, edits, seals and extractions, where `Gaps = {}` (each gap is a
way the code does not do this, with its own configuration in section 3):

| Theorem | States |
| --- | --- |
| `SealingIsSound` | the inductive invariant `SealInv`: what each phase holds of the image |
| `ChainIsLinked` | every stage of a written image lies under the one key its parent as written derives |
| `SealedOpensAgain` | `decrypt_all` leaves every stage plaintext and known to be, of an image half sealed too |
| `DigestsAreCurrent` | a written CB's digest covers the SMC as it lies sealed, and the pairing and key beside it |
| `MacsAreCurrent` | a written CF names the tail its CG has, no other lies in the filesystem, and its MAC covers what it states |
| `SealingAgainRestores` | opening and sealing again under the same key, the SMC untouched, writes every stage as it was (action property) |

**The lookup** (`AssetLookupProofs`), for every set of directories, entries and
requests, any number of writes at any step of a lookup:

| Theorem | States |
| --- | --- |
| `CachedBytesAreCurrent` | a cached package whose stamp fits the disk holds the disk's bytes |
| `AnswersAreFresh` | an answer is that of a fresh look at some moment of the request |
| `AnswersWereThere` | what is handed out was on disk, or in memory, at some moment of the request |

**Secured files** (`SecuredFilesProofs`), for every set of copies, keys, settings
and draws, and any number of builds:

| Theorem | States |
| --- | --- |
| `AlwaysSealedForConsole` | a copy that can be read is laid sealed for the console, with its content and the build's date |
| `SealingIsKept` | vector, file key, heads and field of the console's own copy outlive every build (action property) |
| `RebuildChangesNothing` | building a console's own dump again under its settings changes no byte of the file (action property) |

**The resolver** (`InputResolverProofs`), for every set of requests that
`RequestsAssumption` admits (any INIs, folders, donors, types and checks):

| Theorem | States |
| --- | --- |
| `ConsoleSource` | every value of the console comes from the first source that states it, or from none |
| `PayloadsRead` | the reader holds every payload the INI lists once, from the first section that lists it, if none that outranks it does |
| `ListedOnceInOrder` | the build's files stand in the INI's order, each once (under `ListsApart`) |
| `DonorNeeded` | a file of the donor's is used only where no root holds it (under `LookupsAgree` and `DonorKeepsSuffix`) |
| `ListedIsHeld` | what a resolved build lists it holds, from the roots or the donor (under `ListsApart`, `PlainPaths` and `LookupsAgree`) |

*Assumptions.* `ShapeAssumption` (sizes are naturals, the map fits the table),
`NameAssumption` (a name without its case is a name, and
those that can be laid are names),
`ContentAssumption` (contents have lengths) and `InputAssumption` (what callers
pass has the types of the parameters) for the filesystem; for its image also
`DiskAssumption` (contents and usable blocks are such) and `ImageAssumption`: the
table describes a part of the NAND that is not empty, no file can start at cluster
0, which is what an entry not in use states, as the boot blocks keep it or the
table does not describe it, and all empty files are one; `ImagesAssumption` and `AssembledAssumption` for the layout: an image is a record of
lengths up to a megabyte, of a known type, with the patch set of that type or one
its donor left, with a rebooter of 1000h bytes at most (`InputValidator`), which a
retail build keeps from a JTAG donor only; `PerTableAssumption`
(a table holds more than one record: the source's 170), `PackageAssumption`
(sizes and block numbers are naturals, a package is of a known shape, a shape has no
more blocks than three levels of tables cover, and the publisher lists directories
without a size), `DamageAssumption` (a link that is not the published one lies in
a table that is not, and a package none of whose blocks is changed has the published
links and listing) and `PublisherAssumption` for packages: every block has a number
and a link, a file's blocks are the package's, its chain ends where the file does or,
if it is consecutive, it was given the blocks it needs, the file table is such a
file, and the names it lists are such as the parser takes;
`AreaAssumption` for the data area, whose only demand that is not a type is that a
big block is a whole number of slots (the source's 256 pages and 4);
`SourcesAssumption` and `RequestsAssumption` for the lookup (in-memory packages
with one key are the same bytes: the key holds the name, the size and the first
4096 bytes), and for `AnswersAreFresh` also that a directory can be listed
(`ListingsOpen`: what an unlistable one does is `AssetLookup_closed`);
`InputsAssumption` for sealing: a build is supplied the stages its type's chain
has; a stage supplied sealed lies under the key its parent derives in the chain it
is supplied with (not in one of another console), with the CD of a single-CB chain
keyed as the CB that will be built keys it; a devkit chain and a CB_X come
plaintext, and nonces are not empty;
`NameAssumption` and `CopyAssumption` for secured files (a copy has the shape of
its file, its texts are reduced, a nonce is that of the plaintext it lies on);
`RequestsAssumption` for the resolver (a request has the shape a command line and an
INI give it). TLC evaluates each in the runs of its module.

Two theorems about the layout have hypotheses on the image. `PartsInPlace`: the SMC
is at most 3C00h bytes long, so that a payload at 200h is not laid over it, and the
boot chain ends below the second update slot. An SMC is 3000h bytes and a retail chain
ends below the first slot, but `payload_layout` does not compare the SMC with
anything, and it compares the chain only with the parts that are there: `run_build`
bounds the chain where it patches it (`BuildRunner.cpp:1315`). `PatchesInBlock`: JTAG
patches end in the block they start in; `ImageLayout_fill` shows what longer ones do.
`XellBehindPatches`: JTAG patches come with a XeLL; `ImageLayout_bare` shows them
without. `MCImageLayout` asserts that the images of `layout_built` satisfy all three.

Three theorems about the resolver are of requests with a hypothesis, and each
hypothesis is what a configuration of section 3 leaves out: `LookupsAgree` (the check
before loading and the load find the same files: `InputResolver_nosus`),
`DonorKeepsSuffix` (the donor holds no patch under its bare name:
`InputResolver_twice`), `PlainPaths` (no entry with a directory before it:
`InputResolver_backslash`) and `ListsApart` (no patch is listed both with and
without its number). `MCInputResolver` asserts that every request of the run
satisfies all four, so the run and the theorems are about the same requests.

*The filesystem's invariant.* None of the invariants is inductive alone. That
files stay apart needs that a cluster allocation takes for free lies on no chain,
which is the accounting; that the accounting survives a delete needs that the
freed chain meets no other, which is the files being apart, and that the entry
found is the only one of its name; that an insert can lay the files again needs
their bytes in the cache; that moving the root frees nothing of a file's needs
the root's clusters to hold none. The inductive invariant `Inv` is therefore all
of them at once: `Sound(fs)` (type, files apart, accounting, cache, unique names,
root held, withheld reserved) and the type of `last`.

*Layers of the first part of `FlashDiskProofs`.* (1) Chains: `Walk` is a recursive function; `WalkDef`
derives that it satisfies its recursion, `ChainInClosed` that a chain stays in a
set its links do not leave, `ChainAgree` that two maps that agree on a chain have
the same chain. Induction is over sets of naturals (`NatInductionOnSets`, from
the well-foundedness of `<`). (2) Allocation: `AllocatedLinks` and
`AllocatedChain`, that the clusters taken are free ones and the chain at the
first is exactly those. (3) One lemma per operation on a sound object
(`SoundDeleted`, `SoundLaid`, `SoundAdd`, `SoundAddedInOrder`, `SoundLifted`,
`SoundInsert`, `SoundReleaseRoot`, `SoundPlaceRoot`, `SoundFormattedMap`,
`SoundKept`); they also say which entries of the new directory are entries of the
old one with the same chain (`Inherits`) and that reserved clusters stay reserved
(`ReservedKept`). (4) `NextInv` with one step per action, `SpecInv`, and the
theorems.

*Chain lengths and steps.* `LowestFreeCount` counts what an allocation takes.
`Sized(fs)` (each chain has as many clusters as `ClustersNeeded` says) is carried
over by `Inherits` and made by `Laid`, so `Inv /\ Sized(fs)` is inductive;
`NeededIsEnough` turns it into room for the bytes. `OthersAreKept` follows the
entry of a name through `Dropped` and `Laid` (`FileOfEntry`, `DroppedLeaves`,
`AddLeaves`); `WithheldStaysKept` needs `ReservedKept` for file calls. For a move of the
root it needs that the clusters released are those of the block it had, and that a
move that releases any changes the block: the root's first cluster is marked as the
table's, so its own block is not free to be chosen.

*The refinement.* `FilesOf(fs)` is the sequence of names with their cached bytes.
One lemma per operation says what it does to that list: `DroppedList` (`Without`),
`LaidList` (append), `AddedList` (a put, done or half done),
`AddedInOrderList` (laying files again one after the other appends a prefix of
them), `CutAndTakeOut` and `InsertAddsList` (taking out every file from a position
on leaves the list cut there), `InsertAdds` (what an insert adds to what, all of
names of their own), `InsertedList` (an insert, done or half done).
`StepIsAllowed` puts them together, one step per action, under `Inv`, which is
what makes the cached bytes and unique names available.

*Back to back.* `Abutting` is `BackToBack` with `InDirectoryOrder`, and each carries
the other through an insert: lifting the files behind the place frees only
clusters above those that stay, since those files come later in the directory
(`LiftedAbuts`), and an allocation takes free clusters below all it leaves
(`TakenBelowLeft`), so a file laid behind files with no free cluster among them
comes to lie above them and below what is still free (`LaidAbuts`). A file laid
again never replaces one, as all names are apart (`InsertAdds`), so no gap opens
half way (`AddedInOrderAbuts`). A name listed already is not covered, and cannot
be: dropping its file may leave the gap `FlashFS_relay` shows.

*The image.* A load forgets which clusters were withheld: one the table states
unnamed comes back as a link to the base cluster, and the object is no longer
`Sound`. `Good(fs)` says of an object that it becomes `Sound`, `Sized` and `Linked`
when these links are hidden. `Linked` (links ascend, and none is at a
cluster the table does not describe) holds because an allocation takes free
clusters upwards; it is what makes a part of a file one cluster, and what
keeps the hidden links, which point down, off every chain. No call tells an object
from its hidden one (`WalkAgree`: two maps that agree on a chain walk alike), so the lemmas of the
first part carry `Good` through every edit. `DiskInv` adds `NandInv`: a NAND
without a root was never written, and any other is what `save` makes of some
good object, with the history its files. From it the table decodes to the map that
was encoded, but for the withheld clusters (`RestoredMap`), the directory to itself, and every chain
to the bytes it was cached with; so a load is a step of `SavedStore` and gives
a good object again. That a write is never refused as malformed or truncated is
`Linked` and `Sized` of the object at hand.

*The image layout.* No invariant over the pieces laid can list what each of a hundred
combinations of payloads puts where, so the proof separates what may lie on the flash
from the order it is laid in. `Scene` fixes the two sides: an accepted image with its
plan, and the image being written, which is the same one or what was read back of it.
`Canvas` holds every piece that may be on the flash: an item at its one place, as long
as it ever is (`Width`: a rebooter read back is 1000h bytes long, fuses may be found
where none were laid), or a fill; all of them are `Fine`, which means inside the image and off
the files' area. `Left` names the items the stages to come lay, and `Lays(pieces, canvas,
before, after)` says that a stage's pieces are on the canvas and damage nothing but
what is laid again. The invariant `Writing` is then one line: everything laid is on the
canvas and stands, but for what is left to lay. Each stage has its lemma
(`LaysHead` to `LaysSecondChain`), built from one per piece: an item meets no other
(`WidthApart`, from `payload_layout` where it compares them, from the zones of the
flash where it does not), and a fill meets none but the items laid after it
(`OverlayRoom`, `JtagItems`). `ReadBack` is the arithmetic of a plan and of the plan of what is read back of
it, type by type; `ReparseStep` shows that the canvas of the first pass is part of
that of the second. That a fill is off the files' area is shown from an
item that touches the same 4000h units (`FineBy`), which is where the XeLL behind JTAG
patches comes in.

*Packages.* The layout theorems write a block as its group and its place in it and
a table as the group it leads (`Coordinates`, `SuperOfGroup`,
`TablesBetweenGroups`); the rest is arithmetic on those. `PlansBeforeItWrites` has
the invariant `PlanInv`: a directory that is not empty was planned, and
`extract_all` runs only on a good plan, which nothing changes until it ends.
`AllIsWritten` speaks of the end of a call, so its invariant counts: all entries
before the one at hand are on disk (`WrittenSoFar`), which later entries preserve
because no directory is made over a file nor a file over a directory
(`FilesAreNoDirs`), and because an extraction that ends well has its entry's
length (`ReadWhole`); `ReadInv /\ DiskInv` is inductive.

`VerifiedAsPublished` first compares two accounts of one layout. The publisher's
`Image` is recursive: each block is appended behind the tables it starts. `Laid`
says of the first n blocks where `StfsLayout` has them and their tables, and holds of
every n by induction (`ImageLaid`), the step being where a level of tables begins
(`LeadPlaces`, `NextPlace`). So the chain of digests from the header leaves, for a
block number, one block in one place (`VerifiedBlock`) and one table, whose record of
that block is then the published link (`VerifiedLink`). A chain is followed before
any of its blocks is verified, so the invariant `VerifyInv` keeps of the walk only
that each link had a record in use (`WalkedLinks`), and learns in the copy, block by
block, that these were the published ones (`CopiedPublished`, `CopiedIsPublished`).

`ReadsBackWhole` goes the other way through the same layout. In an undamaged package
whatever `ImageLaid` puts in a place passes the check of that place (`IntactAt`), so
all the tables over a block verify, and its record is in use and holds the published
link (`IntactVerifies`, `IntactBlock`). The blocks the reader comes to are then the
published ones, and it comes to the end of the chain behind the last of them, before
it has counted more steps than the package has blocks (`IntactBlocks`, `IntactReads`,
`RoomForBlocks`). The invariant `WholeInv` says so of a reading that has come half
way (`ReadingOk`), the file table's own included, from which the entries follow
(`TableListed`); of memory, that it holds the first file of every name among the
entries passed, less those left out (`MemoryHeld`); and of the disk, that the path of
each file passed holds that file or a later one as published (`DiskHeld`).

*The data area.* The copy a scan takes is decided by versions, then by what a copy
leaves behind it, then by place, so the invariant `AreaInv` must say of the newest
copy that it lies whole on a good block, and of every other stamp of its kind that
it is of a lower version or leaves more (`KindHome`); of the newest root that its
version exceeds the others' (`RootHome`); that a block which holds copies starts
with one, or the purge would pass it by (`CopiesFromFirst`); and that blocks are
apart, or a console's next write would destroy what the rest is about.
`NewestIsFound` is an induction over the pages of the scan: before the copy's first
page whatever was found trails it, on its pages it is counted, and after them
nothing outranks it. A console keeps `AreaInv` because a copy behind another
leaves less (`LeavesLess`, in slots on big block, which is where the multiple
matters). A write is followed through its stages: no copy is left after the
purge (`PurgedFacts`), no root after the clear (`ClearedFacts`), every kind is laid
once, whole and apart by induction over the kinds (`KindLaidOK`, `MobileLaidOK`),
a save leaves them alone (`SavedFacts`, `SavedKeepsPlaced`), and the stamps are
those of what was laid and nothing else (`SerializedFacts`, `LaidHomes`).
`FilesGood`, that no file lies on a bad block, is added for the marks.

*Sealing.* None of the properties is inductive: whether an image opens again
is decided by how its parts were supplied, two builds ago. `SealInv` says for each
phase what the code hands on. What is supplied lies plain or sealed along its own
chain (`Supplied`), which `ParsedStages`, `PatchedStages`, `PairedStages` and
`NoncedReady` carry through `run_build` to what `encrypt_all` needs (`Ready`: CBs
plain, a stage below them plain or sealed under the key it is about to have);
`apply_nonces` breaks no link because it renonces a chain only when all of it is
plain, and `apply_bootloader_metadata` because it settles what keys the CD before the key
is derived. `EncryptStep` makes of `Ready` a written image: chain closed under the
derived keys (`ChainClosed`), slots sealed, digests and MACs those of what lies
there; or, when the filesystem has no room, a half sealed one whose chain is closed
and whose update stages are of either form (`SlotsEither`). `ReadBackStep` is a
parse of it, which finds the same texts and flags; `DecryptStep` makes of either one
an image all open (`AllOpen`). An open image is `Ready` under any key (`OpenReady`), which closes the
circle for a reseal, and is a supply for another build (`ExtractStep`). The texts of the
last write are kept beside it (`Records`), as `DigestCurrent` and `MacCurrent` are
about what was written and not about what the image has become; `Drawn` (no stage
was sealed under a zero nonce) is why sealing again draws nothing and
`ResealRestores` holds.

*The lookup.* A package's time and size are read before its bytes, and every write
takes a new tick of the clock: a stamp that fits the disk now was taken after the
last write, so the bytes read after it are the disk's. `KeepInv` says this of what
is on disk, of every cache entry and of the read in progress (`DiskOK`, `KeptOK`,
`LookOK`) and that what a lookup has met was there (`Met`); `FreshInv` adds that
the listing at hand and the candidates passed over were those of the moment the
answer is dated to (`DirCurrent`, `MemoryCurrent`, `Abreast`).

*Secured files.* One lemma per file (`CrlFile`, `DaeFile`, `ExtendedFile`,
`SecdataFile`, `FcrtFile`) follows a copy through opening and sealing and gives
`SealsWell`; the invariant `SecuredInv` joins `SealedForConsole` with what the next
build needs of the image it opens: its shape (`ImageOK`), the settings it was made
under (`LastOK`) and its date (`ImageDated`), without which a rebuild could not be
seen to change nothing.

*The resolver.* The stages before the reader are decided by the request alone, so
`ConsoleInv` says of each value from the stage that settles it on that it is what the
request makes it, and of a refusal that the request causes it. The reader goes
through a list entry by entry, and what it holds half way is what the invariant
`ReaderInv` is about (`Kept`): the names met so far, each once, in the order first
met, each from an entry no earlier entry of that name outranks; counting on to the end
of the list makes it `PayloadsOnceFromBestSource`. `ListingInv` follows the files from there
through the overlay of the donor and the loose files: which entry or source each is
from (`ListingIs`), that nothing listed is lost on the way (`HoldsAll`), and that no
name is there twice. The last stage sorts them by the INI: `Ordered` is a permutation
of what it sorts, which is shown by counting (as many places as files, each file at
one), and its order is that of `PlaceInIni`, a file that ties keeping its place.

## 5. What is only model-checked

- Of packages: `CallReturns`, which is liveness.
- `EveryStageKept`, which the configuration `InputResolver_alias` refutes for lists
  that name the stages of two chains in two manners: it is about the chain shapes of the
  run. `IniFiles` has no properties of its own, the reader is checked and proved about
  inside the resolver.
- Out of the prover's reach: induction over data with an operator as a
  parameter (what a fold over arbitrary lists computes), and any liveness. The
  modules meant for proofs use recursive functions, not `RECURSIVE` operators.

## 6. What is not modelled, and why

Assumed or abstracted inside the models:

- *FlashFS, FlashDisk*: timestamps and the version stamp; names beyond their
  case and whether they can be laid; bytes beyond their length. `get_file` of a
  listed file that is not cached reads the driver; the store's files are the
  cached bytes, and `EveryFileCached` and `KeepsTheStore` show that no call
  leaves a listed file without them.
- *DataArea*: a root or a file fills one erase block; eMMC, which has no spares;
  stamps of type 0.
- *ImageLayout*: raw patches an INI gives, which may lie anywhere.
- *BootSeal*: field offsets, versions and the packer; the bytes a patch section
  edits (a stage is as supplied, patched or spoilt); the odds that ciphertext of
  a CE or CF looks plaintext (those of a CG are `BootSeal_lucky.cfg`). A
  single-CB chain whose CD is supplied sealed under the regime that mixes in the
  CPU key is not offered to Glitch and JTAG builds, which key it otherwise
  (`KeysCdUnderCpu`); an image is sealed again only as the type it was built for;
  opening an image whose `encrypt_all` failed is checked although
  `FlashImage.hpp` promises nothing.
- *SecuredFiles*: field offsets; a key of another length than the console's (the
  code then writes every file as supplied); ciphers and digests are symbolic, so
  no two different texts collide.
- *StfsPackage*: the signature is whether it holds; a changed block is changed as a
  whole but for the links, statuses and entries that are looked at; SVOD and
  writable packages are refused, as in the code; what lies in the target
  directory before the call. All bytes outside level-0 tables read as one and the same
  record.
- *AssetLookup*: every write changes the file's time. A rewrite of the same
  size within one tick of the clock is served from the cache, and a test
  (`FileManagerStfsCacheTests.cpp`) pins that. The first 4096 bytes of an
  in-memory package tell it from others of its name and size.
- *IniFiles*: an empty bootloader file; keys that are empty or `none`, which are passed over.
  A name of the model stands for all keys the reader tells apart no further.
- *InputResolver*: the console word the fuses need, the rebooter and payload of
  a JTAG build, the formats of option values, a secured file too short to open;
  the disk is unchanged between the check of payloads and their load. One mobile data file
  stands for `mobileA.bin` to `mobileD.bin`, each of which is optional and refuses the build when it
  is there and cannot be read.

Parts without a model of their own:

- *eMMC anchors.* Every write lays both copies of the anchor with the same content
  and the numbers 1 and 2, whatever the image held, and a parse takes the highest
  number whose digest holds. No counter runs on from one write to the next and no
  write updates one copy alone, so there is no history a state machine could
  get wrong.
- *The driver's encoding.* Spare layouts, error correction and the assembly of a
  span from blocks are functions of bytes; `DataArea` uses what they report.
- *`run_build` as one machine.* A stage that fails ends the build without an image,
  and the stages meet only in the image they share; the models cover the stages
  whose order matters (patches, metadata, nonces and seals in `BootSeal`, secured
  files, files, layout, data area) each with the inputs the others can hand it.
- *Text and option parsing, the library's pass-through, fixed field layouts and the
  utilities* are data without control: a state machine of them would restate the
  code.

## 7. Order of the work, and what could follow

The plan followed what a mistake costs: the filesystem first (its invariant, then
its image on the NAND), the layout and writer and the data area, which share the
same space, sealing, then what feeds a build (lookup, INI reader, resolver,
packages, secured files), and last the proofs of what a call leaves alone, of the
refinement and of packages.

What would add most beyond this: a proof that calls on packages return, for a
prover that takes `ENABLED`.
