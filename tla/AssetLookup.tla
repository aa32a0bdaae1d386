----------------------------- MODULE AssetLookup -----------------------------
(***************************************************************************)
(* How a named asset is found among in-memory packages and source          *)
(* directories while another program writes to those directories           *)
(* (locate and the caches it uses, src/utils/FileManager.cpp).             *)
(*                                                                         *)
(* A root holds loose files and system-update packages.  A lookup asks the *)
(* operating system for one thing per step, so that a writer may come in   *)
(* between any two of them.  What a package holds is a function of its     *)
(* bytes; the parts split from it and kept with it are not state.          *)
(***************************************************************************)
EXTENDS Integers, Sequences, FiniteSetsExt

CONSTANTS
  Roots,       \* the number of source directories, highest priority first
  Files,       \* the package files a directory may hold, in name order: 1 .. n
  Contents,    \* what a package file may hold: records [ok, entries, upd, size]
  Disks,       \* the disks a behaviour may start from
  Requests,    \* the lookups: [name, boot, version, policy, nosu, nosecurity, memory]
  Security,    \* the names nosusecurity keeps out of packages
  MaxClock     \* bound: writes to the disk

VARIABLES
  disk,        \* per root: its state, loose files, package files and mtime
  dirCache,    \* per root: the package its listing gave, by the directory's mtime
  diskCache,   \* per package file: its bytes, by mtime and size
  memCache,    \* in-memory packages by key
  pc, req, at, \* the lookup: its step, its request and the source it is at
  reg,         \* what the lookup has read so far
  result,      \* its answer
  clock,       \* the last mtime given
  seen,        \* <<root, file, bytes>> that lay on the disk since the request
  still        \* no write since the request

vars == <<disk, dirCache, diskCache, memCache, pc, req, at, reg, result, clock, seen, still>>
caches == <<dirCache, diskCache, memCache>>
lookup == <<pc, req, at, reg, result>>
outside == <<disk, clock, seen, still>>

None == [tag |-> "none"]
Fault == [tag |-> "fault"]
Found(data) == [tag |-> "found", data |-> data]

NoFile == [held |-> FALSE]
File(bytes, mtime) == [held |-> TRUE, bytes |-> bytes, mtime |-> mtime]
NoEntry == [held |-> FALSE]

Paths == (1 .. Roots) \X Files
OnDisk(d) == { <<x[1], x[2], d[x[1]].files[x[2]].bytes>> : x \in {y \in Paths : d[y[1]].files[y[2]].held} }

-----------------------------------------------------------------------------
(* get_package_file: an entry whose blocks do not read is a fault. *)
PackageEntry(bytes, name) ==
  IF bytes.entries[name] = "torn" THEN Fault ELSE Found(bytes.entries[name])

(* xboxupd_part_for: the CF or CG is of the version the name states, when it states one. *)
PartFits(bytes, q) == q.version \in {"any", bytes.upd}

(* get_xboxupd_parts: the CF and CG split from a package's xboxupd.bin. *)
UpdatePart(bytes, q) ==
  CASE bytes.upd = "bad" -> Fault
    [] bytes.upd # "bad" /\ PartFits(bytes, q) -> Found(bytes.upd)
    [] OTHER -> None

(* One package: the entry itself, or for a bootloader the part its xboxupd.bin supplies. *)
SearchPackage(bytes, q) ==
  IF q.name \in DOMAIN bytes.entries THEN PackageEntry(bytes, q.name)
  ELSE IF ~q.boot \/ bytes.upd = "none" THEN None
  ELSE UpdatePart(bytes, q)

UsesPackages(q) == ~q.nosu /\ ~(q.nosecurity /\ q.name \in Security)

(* compute_memory_package_key: the name, the size and a hash of the first 4096 bytes. *)
MemoryKey(m) == <<m.name, m.head>>

(* The loose file a root has for a name: exactly so named, else under another case.  A listing  *)
(* that breaks off is a fault, one that cannot start finds nothing.                             *)
Candidate(root, name) ==
  LET files == root.loose[name]
  IN  IF files.exact # "none" THEN files.exact
      ELSE IF root.listing = "breaks" THEN "fault"
      ELSE IF root.listing = "closed" \/ files.other = "outside" THEN "none"
      ELSE files.other

LooseFile(root, name) ==
  LET c == Candidate(root, name)
  IN  CASE c = "none" -> None
        [] c \in {"fault", "folder", "unreadable"} -> Fault
        [] OTHER -> Found(c)

(* The packages a listing may show: all, or, past an entry whose type cannot be read, those that *)
(* happened to come first.                                                                       *)
Held(root) == {p \in Files : root.files[p].held}
Listing(root) ==
  CASE root.listing = "closed" -> {{}}
    [] root.listing = "dangling" -> SUBSET Held(root)
    [] OTHER -> {Held(root)}
FirstOf(ps) == IF ps = {} THEN 0 ELSE Min(ps)

-----------------------------------------------------------------------------
(* What the constants may be: the disks hold directories of any kind last written at time 1, and *)
(* packages in memory that share a key are the same package, as far as their first 4096 bytes,   *)
(* the roots of their hash tables among them, tell.                                              *)
Bytes == Contents \cup {x[3] : x \in UNION {OnDisk(d) : d \in Disks}}
Sizes == {0} \cup {bytes.size : bytes \in Bytes}
LooseKinds == {d[r].loose : d \in Disks, r \in 1 .. Roots}
FileStates == {NoFile} \cup [held : {TRUE}, bytes : Bytes, mtime : Nat]
RootStates ==
  [state : {"dir", "missing", "faulty"}, listing : {"open", "breaks", "closed", "dangling"},
   loose : LooseKinds, mtime : Nat, files : [Files -> FileStates]]

ASSUME SourcesAssumption ==
  /\ Roots \in Nat /\ MaxClock \in Nat /\ Files \subseteq Nat \ {0}
  /\ Disks \subseteq [1 .. Roots -> RootStates]
  /\ \A d \in Disks, r \in 1 .. Roots :
       d[r].mtime =< 1 /\ \A p \in Files : d[r].files[p].held => d[r].files[p].mtime =< 1

ASSUME RequestsAssumption ==
  /\ \A q \in Requests : Len(q.memory) \in Nat
  /\ \A q1, q2 \in Requests :
       \A i \in 1 .. Len(q1.memory), j \in 1 .. Len(q2.memory) :
         MemoryKey(q1.memory[i]) = MemoryKey(q2.memory[j]) => q1.memory[i].bytes = q2.memory[j].bytes

-----------------------------------------------------------------------------
NoRegister == [dirTime |-> 0, path |-> 0, mtime |-> 0, size |-> 0, bytes |-> NoFile]
NoRequest == [name |-> "none", policy |-> "Strict"]

Init ==
  /\ disk \in Disks
  /\ dirCache = [r \in 1 .. Roots |-> NoEntry]
  /\ diskCache = [x \in Paths |-> NoEntry]
  /\ memCache = <<>>
  /\ pc = "idle" /\ req = NoRequest /\ at = 0 /\ reg = NoRegister /\ result = None
  /\ clock = 1
  /\ seen = {} /\ still = TRUE

(* Sources are tried in order: the in-memory packages, then each root. *)
Memories(q) == IF UsesPackages(q) THEN Len(q.memory) ELSE 0
Root == at - Memories(req)
StepAt(q, n) ==
  IF n <= Memories(q) THEN "memory" ELSE IF n <= Memories(q) + Roots THEN "loose" ELSE "done"

NextSource ==
  /\ at' = at + 1 /\ pc' = StepAt(req, at + 1)
  /\ reg' = NoRegister
  /\ UNCHANGED <<req, result>>

Finish(r) ==
  /\ pc' = "done" /\ result' = r /\ reg' = NoRegister
  /\ UNCHANGED <<req, at>>

(* What a source gave ends the lookup, or, a fault under the lenient policy, lets it go on. *)
EndsAtFault(o) == o.tag \in {"found", "fault"}
Ends(o) == o.tag = "found" \/ (o.tag = "fault" /\ req.policy = "Strict")
Settle(o, from, Otherwise) ==
  IF Ends(o) THEN Finish([tag |-> o.tag, at |-> at, from |-> from,
                          data |-> IF o.tag = "found" THEN o.data ELSE "none"])
  ELSE Otherwise

(* locate begins; a name that is not confined is refused before any source. *)
Request ==
  /\ pc \in {"idle", "done"}
  /\ \E q \in Requests :
       /\ req' = q /\ at' = 1 /\ reg' = NoRegister
       /\ IF q.name = "unsafe" THEN pc' = "done" /\ result' = [tag |-> "refused"]
          ELSE pc' = StepAt(q, 1) /\ result' = None
  /\ seen' = OnDisk(disk) /\ still' = TRUE
  /\ UNCHANGED <<disk, clock>> /\ UNCHANGED caches

(* get_or_load_memory_package: a package that does not open is not kept. *)
Memory ==
  LET m == req.memory[at]
      key == MemoryKey(m)
      bytes == IF key \in DOMAIN memCache THEN memCache[key] ELSE m.bytes
  IN  /\ pc = "memory"
      /\ IF ~bytes.ok
           THEN Settle(Fault, "memory", NextSource) /\ UNCHANGED memCache
           ELSE /\ Settle(SearchPackage(bytes, req), "memory", NextSource)
                /\ memCache' = [k \in DOMAIN memCache \cup {key} |->
                                  IF k = key THEN bytes ELSE memCache[k]]
      /\ UNCHANGED outside /\ UNCHANGED <<dirCache, diskCache>>

(* The root's status, its loose candidate and the bytes of that.  A file outside the root fails  *)
(* the lookup under either policy.                                                               *)
Loose ==
  LET root == disk[Root]
      packages == /\ pc' = "dir" /\ UNCHANGED <<req, at, reg, result>>
  IN  /\ pc = "loose"
      /\ CASE root.state = "missing" -> NextSource
           [] root.state = "faulty" -> Settle(Fault, "root", NextSource)
           [] OTHER ->
                IF root.loose[req.name].exact = "outside" THEN Finish([tag |-> "refused"])
                ELSE Settle(LooseFile(root, req.name), "loose",
                            IF UsesPackages(req) THEN packages ELSE NextSource)
      /\ UNCHANGED outside /\ UNCHANGED caches

(* find_stfs_file: the listing of a directory stands until the directory's mtime moves. *)
HasPackage(p) ==
  IF p = 0 THEN NextSource
  ELSE pc' = "mtime" /\ reg' = [reg EXCEPT !.path = p] /\ UNCHANGED <<req, at, result>>

DirTime ==
  LET c == dirCache[Root]
      now == disk[Root].mtime
  IN  /\ pc = "dir"
      /\ IF c.held /\ c.mtime = now THEN HasPackage(c.path)
         ELSE pc' = "list" /\ reg' = [reg EXCEPT !.dirTime = now] /\ UNCHANGED <<req, at, result>>
      /\ UNCHANGED outside /\ UNCHANGED caches

List ==
  /\ pc = "list"
  /\ IF disk[Root].listing = "breaks"
       THEN Settle(Fault, "root", NextSource)
       ELSE \E ps \in Listing(disk[Root]) :
              /\ pc' = "listed" /\ reg' = [reg EXCEPT !.path = FirstOf(ps)]
              /\ UNCHANGED <<req, at, result>>
  /\ UNCHANGED outside /\ UNCHANGED caches

Listed ==
  /\ pc = "listed"
  /\ HasPackage(reg.path)
  /\ dirCache' = IF disk[Root].listing \in {"closed", "dangling"} THEN dirCache
                 ELSE [dirCache EXCEPT ![Root] =
                         [held |-> TRUE, mtime |-> reg.dirTime, path |-> reg.path]]
  /\ UNCHANGED outside /\ UNCHANGED <<diskCache, memCache>>

-----------------------------------------------------------------------------
(* get_or_load_disk_package: the file's mtime, then its size, then a cached package of that stamp *)
(* or the bytes read and kept, also when they do not open.                                        *)
PackageFile == disk[Root].files[reg.path]

PackageTime ==
  /\ pc = "mtime"
  /\ IF ~PackageFile.held THEN Settle(Fault, "package", NextSource)
     ELSE pc' = "size" /\ reg' = [reg EXCEPT !.mtime = PackageFile.mtime]
          /\ UNCHANGED <<req, at, result>>
  /\ UNCHANGED outside /\ UNCHANGED caches

OpenPackage(bytes) ==
  Settle(IF bytes.ok THEN SearchPackage(bytes, req) ELSE Fault, "package", NextSource)

IsCached(entry, mtime, size) == entry.held /\ entry.mtime = mtime /\ entry.size = size

PackageSize ==
  LET entry == diskCache[<<Root, reg.path>>]
      size == PackageFile.bytes.size
  IN  /\ pc = "size"
      /\ IF ~PackageFile.held THEN Settle(Fault, "package", NextSource)
         ELSE IF IsCached(entry, reg.mtime, size) THEN OpenPackage(entry.bytes)
         ELSE pc' = "read" /\ reg' = [reg EXCEPT !.size = size] /\ UNCHANGED <<req, at, result>>
      /\ UNCHANGED outside /\ UNCHANGED caches

ReadPackage ==
  /\ pc = "read"
  /\ IF ~PackageFile.held THEN Settle(Fault, "package", NextSource)
     ELSE pc' = "store" /\ reg' = [reg EXCEPT !.bytes = PackageFile] /\ UNCHANGED <<req, at, result>>
  /\ UNCHANGED outside /\ UNCHANGED caches

StampAfterRead(r, p) ==
  IF disk[r].files[p].held
    THEN [mtime |-> disk[r].files[p].mtime, size |-> disk[r].files[p].bytes.size]
    ELSE [mtime |-> reg.mtime, size |-> reg.size]

StampKept(r, p) == [mtime |-> reg.mtime, size |-> reg.size]

StorePackage ==
  LET stamp == StampKept(Root, reg.path)
  IN  /\ pc = "store"
      /\ OpenPackage(reg.bytes.bytes)
      /\ diskCache' = [diskCache EXCEPT ![<<Root, reg.path>>] =
                         [held |-> TRUE, mtime |-> stamp.mtime, size |-> stamp.size,
                          bytes |-> reg.bytes.bytes]]
      /\ UNCHANGED outside /\ UNCHANGED <<dirCache, memCache>>

ClearStfsCache ==
  /\ pc \in {"idle", "done"}
  /\ dirCache' = [r \in 1 .. Roots |-> NoEntry]
  /\ diskCache' = [x \in Paths |-> NoEntry]
  /\ memCache' = <<>>
  /\ UNCHANGED outside /\ UNCHANGED lookup

-----------------------------------------------------------------------------
(* Another program.  A write stamps the file, and the directory when an entry comes or goes. *)

Written(r, p, file) ==
  /\ disk' = [disk EXCEPT ![r].files[p] = file,
                          ![r].mtime = IF disk[r].files[p].held = file.held THEN @ ELSE clock']
  /\ seen' = seen \cup OnDisk(disk')
  /\ still' = FALSE
  /\ UNCHANGED lookup /\ UNCHANGED caches

WriterWrites ==
  /\ clock < MaxClock /\ clock' = clock + 1
  /\ \E r \in 1 .. Roots, p \in Files, bytes \in Contents :
       disk[r].state = "dir" /\ Written(r, p, File(bytes, clock'))

WriterRemoves ==
  /\ clock < MaxClock /\ clock' = clock + 1
  /\ \E r \in 1 .. Roots, p \in Files : disk[r].files[p].held /\ Written(r, p, NoFile)

Lookup ==
  Memory \/ Loose \/ DirTime \/ List \/ Listed \/ PackageTime \/ PackageSize \/ ReadPackage
    \/ StorePackage

Next == Request \/ Lookup \/ ClearStfsCache \/ WriterWrites \/ WriterRemoves

Spec == Init /\ [][Next]_vars

-----------------------------------------------------------------------------
(* What is on the disk `d` for request q at source n, looked at afresh. *)
FreshPackage(root, q) ==
  LET p == FirstOf(Held(root))
  IN  IF ~UsesPackages(q) \/ (root.listing # "breaks" /\ p = 0) THEN None
      ELSE IF root.listing = "breaks" THEN Fault
      ELSE IF root.files[p].bytes.ok THEN SearchPackage(root.files[p].bytes, q)
      ELSE Fault

Fresh(d, q, n) ==
  IF n <= Memories(q)
    THEN IF q.memory[n].bytes.ok THEN SearchPackage(q.memory[n].bytes, q) ELSE Fault
  ELSE LET root == d[n - Memories(q)]
           loose == LooseFile(root, q.name)
       IN  IF root.state = "missing" THEN None
           ELSE IF root.state = "faulty" THEN Fault
           ELSE IF root.loose[q.name].exact = "outside" THEN [tag |-> "refused"]
           ELSE IF loose.tag = "found" \/ (loose.tag = "fault" /\ q.policy = "Strict") THEN loose
           ELSE FreshPackage(root, q)

(* The first source, in order of priority, whose answer the policy cannot pass over. *)
Decides(q, o) == o.tag \in {"found", "refused"} \/ (o.tag = "fault" /\ q.policy = "Strict")
Deciding(d, q) == {n \in 1 .. (Memories(q) + Roots) : Decides(q, Fresh(d, q, n))}

(* An answer taken from a package on disk is one that some package of that root gave at some   *)
(* instant since the request: a writer between the stat, the size and the read of             *)
(* get_or_load_disk_package never makes it an older one.                                       *)
AnswerWasThere ==
  pc = "done" /\ result.tag = "found" /\ result.from = "package" =>
      \E x \in seen : /\ x[1] = Root
                      /\ SearchPackage(x[3], req) = Found(result.data)

(* A lookup during which nothing was written answers what the disk holds, whatever earlier    *)
(* lookups left in the caches: the entry of the highest-priority source that has it; under the *)
(* strict policy the fault of an earlier source, which the lenient one passes over.  And one    *)
(* during which something was written gives no older package than it could have met.           *)
AnswersFresh ==
  /\ AnswerWasThere
  /\ pc = "done" /\ still /\ req.name # "unsafe" =>
    LET ns == Deciding(disk, req)
    IN  IF ns = {} THEN result = None
        ELSE LET o == Fresh(disk, req, Min(ns))
             IN  /\ result.tag = o.tag
                 /\ o.tag # "refused" => result.at = Min(ns)
                 /\ o.tag = "found" => result.data = o.data

(* A cached package of the stamp the file now has holds the bytes the file now has, because    *)
(* the stamp is taken before the bytes are read.                                               *)
CachedBytesCurrent ==
  \A x \in Paths :
    LET entry == diskCache[x]
        file == disk[x[1]].files[x[2]]
    IN  entry.held /\ file.held =>
          (IsCached(entry, file.mtime, file.bytes.size) => entry.bytes = file.bytes)

(* "One package per directory, with a deterministic tie-break" (find_stfs_file): what the       *)
(* listing of an unchanging directory gives is the first of its packages.                      *)
FirstPackageTaken ==
  pc = "listed" /\ still => reg.path = FirstOf(Held(disk[Root]))

(* "The highest-priority source that cannot be inspected or read fails the lookup instead of    *)
(* being skipped" (find_file_data_detailed): a strict lookup passes over no directory it could *)
(* not list for packages.                                                                      *)
StrictFailsWhereItCannotLook ==
  pc = "done" /\ req.policy = "Strict" /\ result.tag \in {"none", "found"} =>
    \A r \in 1 .. Roots :
      r + Memories(req) < (IF result.tag = "found" THEN result.at ELSE Memories(req) + Roots + 1)
        /\ UsesPackages(req) /\ disk[r].state = "dir"
        => disk[r].listing # "closed"
=============================================================================
