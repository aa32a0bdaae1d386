-------------------------- MODULE AssetLookupProofs --------------------------
(***************************************************************************)
(* Proofs about the lookup of an asset, for any number of directories and  *)
(* package files, any packages and any writer.                             *)
(***************************************************************************)
EXTENDS AssetLookup, TLAPS, WellFoundedInduction

-----------------------------------------------------------------------------
(***************************************************************************)
(* What is kept is current.                                                *)
(*                                                                         *)
(* No time that was taken lies ahead of the clock, so a file written after *)
(* it has another; and the bytes kept under a time were read after it was  *)
(* taken.  A file that still has the time therefore still has the bytes.   *)
(***************************************************************************)

DiskOK ==
  /\ clock \in Nat
  /\ disk \in [1 .. Roots -> RootStates]
  /\ \A r \in 1 .. Roots : disk[r].mtime =< clock
  /\ \A r \in 1 .. Roots, p \in Files : disk[r].files[p].held => disk[r].files[p].mtime =< clock

DirEntries == {NoEntry} \cup [held : {TRUE}, mtime : Nat, path : Files \cup {0}]
DiskEntries == {NoEntry} \cup [held : {TRUE}, mtime : Nat, size : Sizes, bytes : Bytes]

SameTimeSameBytes(entry, file) ==
  entry.held /\ file.held /\ entry.mtime = file.mtime => entry.bytes = file.bytes

KeptOK ==
  /\ dirCache \in [1 .. Roots -> DirEntries]
  /\ \A r \in 1 .. Roots : dirCache[r].held => dirCache[r].mtime =< clock
  /\ diskCache \in [Paths -> DiskEntries]
  /\ \A r \in 1 .. Roots, p \in Files :
       /\ diskCache[<<r, p>>].held => diskCache[<<r, p>>].mtime =< clock
       /\ SameTimeSameBytes(diskCache[<<r, p>>], disk[r].files[p])

\* Where a lookup stands and what it holds.
AtPackage == {"mtime", "size", "read", "store"}
AtPackages == {"dir", "list", "listed"} \cup AtPackage
Running == {"memory", "loose"} \cup AtPackages

Register == [dirTime : Nat, path : Nat, mtime : Nat, size : Sizes, bytes : FileStates]

LookOK ==
  /\ pc \in {"idle", "done"} \cup Running
  /\ at \in Nat /\ reg \in Register
  /\ pc # "idle" => req \in Requests
  /\ pc \in Running => result = None /\ req.name # "unsafe" /\ at > 0
  /\ pc = "memory" => at =< Memories(req)
  /\ pc \in {"loose"} \cup AtPackages => Root \in 1 .. Roots
  /\ pc \in AtPackages => UsesPackages(req)
  /\ pc = "listed" => reg.path \in Files \cup {0}
  /\ pc \in AtPackage => reg.path \in Files
  /\ pc \in {"list", "listed"} => reg.dirTime =< clock
  /\ pc \in {"size", "read", "store"} => reg.mtime =< clock
  /\ pc = "store" =>
       /\ reg.bytes.held
       /\ PackageFile.held /\ PackageFile.mtime = reg.mtime => reg.bytes.bytes = PackageFile.bytes

\* What the lookup has met since the request.
Met ==
  /\ pc # "idle" => OnDisk(disk) \subseteq seen
  /\ pc = "size" => LET entry == diskCache[<<Root, reg.path>>]
                    IN  entry.held /\ entry.mtime = reg.mtime
                          => <<Root, reg.path, entry.bytes>> \in seen
  /\ pc = "store" => <<Root, reg.path, reg.bytes.bytes>> \in seen
  /\ AnswerWasThere

KeepInv == DiskOK /\ KeptOK /\ LookOK /\ Met

-----------------------------------------------------------------------------
\* A nonempty set of naturals has a least element.
LEMMA NatLeast ==
  ASSUME NEW T, T \subseteq Nat, T # {}
  PROVE  \E x \in T : \A y \in T : x =< y
<1>1. PICK x \in T : \A y \in T : <<y, x>> \notin OpToRel(<, Nat)
  BY NatLessThanWellFounded, WFMin
<1>2. \A y \in T : ~(y < x)
  BY <1>1 DEF OpToRel
<1>. QED BY <1>2

\* The least of a nonempty set of naturals is one of them, and none is less.
LEMMA MinOf ==
  ASSUME NEW T, T \subseteq Nat, T # {}
  PROVE  Min(T) \in T /\ \A y \in T : Min(T) =< y
<1>1. \E x \in T : \A y \in T : x =< y
  BY NatLeast
<1>2. Min(T) = CHOOSE x \in T : \A y \in T : x =< y
  BY DEF Min
<1>. QED BY <1>1, <1>2

LEMMA FilesAreNumbers == \A p \in Files : p \in Nat /\ p # 0
BY SourcesAssumption

\* A listing gives one of its packages, or 0 where it has none.
LEMMA FirstIsHeld ==
  ASSUME NEW ps, ps \subseteq Files
  PROVE  IF ps = {} THEN FirstOf(ps) = 0 ELSE FirstOf(ps) \in ps /\ FirstOf(ps) # 0
<1>1. ps \subseteq Nat /\ 0 \notin ps
  BY FilesAreNumbers
<1>2. CASE ps = {}
  BY <1>2 DEF FirstOf
<1>3. CASE ps # {}
  BY <1>1, <1>3, MinOf DEF FirstOf
<1>. QED BY <1>2, <1>3

\* What a file that is there, or an entry that is kept, has.
LEMMA FileHeld ==
  ASSUME NEW f \in FileStates, f.held
  PROVE  f.bytes \in Bytes /\ f.mtime \in Nat
<1>1. ~NoFile.held
  BY DEF NoFile
<1>2. f \in [held : {TRUE}, bytes : Bytes, mtime : Nat]
  BY <1>1 DEF FileStates
<1>. QED BY <1>2

LEMMA EntryHeld ==
  ASSUME NEW c \in DirEntries, c.held
  PROVE  c.path \in Files \cup {0}
<1>1. ~NoEntry.held
  BY DEF NoEntry
<1>2. c \in [held : {TRUE}, mtime : Nat, path : Files \cup {0}]
  BY <1>1 DEF DirEntries
<1>. QED BY <1>2

\* What a package gives is nothing, a fault or data.
LEMMA PackageGives ==
  ASSUME NEW bytes, NEW q
  PROVE  LET o == SearchPackage(bytes, q)
         IN  o.tag \in {"none", "fault", "found"} /\ (o.tag = "found" => o = Found(o.data))
<1>1. /\ None.tag = "none" /\ Fault.tag = "fault"
      /\ \A data : Found(data).tag = "found" /\ Found(data).data = data
  BY DEF None, Fault, Found
<1>2. SearchPackage(bytes, q) \in {None, Fault} \/ \E data : SearchPackage(bytes, q) = Found(data)
  <2>1. UpdatePart(bytes, q) \in {None, Fault} \/ \E data : UpdatePart(bytes, q) = Found(data)
    BY DEF UpdatePart
  <2>. QED BY <2>1 DEF SearchPackage, PackageEntry
<1>. QED BY <1>1, <1>2

-----------------------------------------------------------------------------
(***************************************************************************)
(* A lookup that is through with a source goes to the next one or ends.    *)
(***************************************************************************)

\* An answer from a package is one that a package met since the request gave.
Backed(r) ==
  r.tag = "found" /\ r.from = "package" =>
    \E x \in seen : x[1] = Root /\ SearchPackage(x[3], req) = Found(r.data)

Moves == NextSource \/ \E r : Finish(r) /\ Backed(r)

LEMMA MemoriesNat ==
  ASSUME NEW q \in Requests
  PROVE  Memories(q) \in Nat /\ Roots \in Nat
BY RequestsAssumption, SourcesAssumption DEF Memories

LEMMA RegisterFresh == NoRegister \in Register /\ NoFile \in FileStates
BY DEF NoRegister, Register, FileStates, Sizes

\* A fault or what a source other than a package gave.
LEMMA SettleMoves ==
  ASSUME NEW o, NEW from, from # "package" \/ o.tag # "found", Settle(o, from, NextSource)
  PROVE  Moves
<1>. DEFINE r == [tag |-> o.tag, at |-> at, from |-> from,
                  data |-> IF o.tag = "found" THEN o.data ELSE "none"]
<1>1. CASE Ends(o)
  <2>1. Finish(r)
    BY <1>1 DEF Settle
  <2>2. Backed(r)
    BY DEF Backed
  <2>. QED BY <2>1, <2>2 DEF Moves
<1>2. CASE ~Ends(o)
  BY <1>2 DEF Settle, Moves
<1>. QED BY <1>1, <1>2

\* What a package that was met gave.
LEMMA OpenMoves ==
  ASSUME NEW p, NEW bytes, <<Root, p, bytes>> \in seen, OpenPackage(bytes)
  PROVE  Moves
<1>. DEFINE o == IF bytes.ok THEN SearchPackage(bytes, req) ELSE Fault
            r == [tag |-> o.tag, at |-> at, from |-> "package",
                  data |-> IF o.tag = "found" THEN o.data ELSE "none"]
<1>1. Settle(o, "package", NextSource)
  BY DEF OpenPackage
<1>2. o.tag = "found" => SearchPackage(bytes, req) = Found(o.data)
  BY PackageGives DEF Fault
<1>3. <<Root, p, bytes>>[1] = Root /\ <<Root, p, bytes>>[3] = bytes
  OBVIOUS
<1>4. Backed(r)
  <2>1. r.tag = o.tag /\ (o.tag = "found" => r.data = o.data)
    OBVIOUS
  <2>2. ASSUME o.tag = "found"
        PROVE  \E x \in seen : x[1] = Root /\ SearchPackage(x[3], req) = Found(r.data)
    <3>. HIDE DEF o, r
    <3>. QED BY <2>1, <2>2, <1>2, <1>3
  <2>. QED BY <2>1, <2>2 DEF Backed
<1>. HIDE DEF o
<1>5. CASE Ends(o)
  BY <1>1, <1>4, <1>5 DEF Settle, Moves
<1>6. CASE ~Ends(o)
  BY <1>1, <1>6 DEF Settle, Moves
<1>. QED BY <1>5, <1>6

LEMMA MovesLook ==
  ASSUME LookOK, pc \in Running, Moves, UNCHANGED seen
  PROVE  /\ LookOK' /\ AnswerWasThere'
         /\ pc' \in {"memory", "loose", "done"} /\ req' = req
<1>1. req \in Requests /\ at \in Nat /\ result = None /\ req.name # "unsafe"
  BY DEF LookOK, Running, AtPackages, AtPackage
<1>2. Memories(req) \in Nat /\ Roots \in Nat
  BY <1>1, MemoriesNat
<1>3. req' = req /\ reg' = NoRegister
  BY DEF Moves, NextSource, Finish
<1>4. CASE NextSource
  <2>1. /\ at' = at + 1 /\ result' = None
        /\ pc' = IF at + 1 =< Memories(req) THEN "memory"
                 ELSE IF at + 1 =< Memories(req) + Roots THEN "loose" ELSE "done"
    BY <1>1, <1>4 DEF NextSource, StepAt
  <2>2. LookOK'
    BY <2>1, <1>1, <1>2, <1>3, RegisterFresh DEF LookOK, Running, AtPackages, AtPackage, Root
  <2>3. AnswerWasThere'
    BY <2>1 DEF AnswerWasThere, None
  <2>. QED BY <2>1, <2>2, <2>3, <1>3
<1>5. ASSUME NEW r, Finish(r), Backed(r)
      PROVE  LookOK' /\ AnswerWasThere' /\ pc' = "done"
  <2>1. pc' = "done" /\ result' = r /\ at' = at
    BY <1>5 DEF Finish
  <2>2. LookOK'
    BY <2>1, <1>1, <1>2, <1>3, RegisterFresh DEF LookOK, Running, AtPackages, AtPackage, Root
  <2>3. AnswerWasThere'
    BY <2>1, <1>3, <1>5 DEF AnswerWasThere, Backed, Root
  <2>. QED BY <2>1, <2>2, <2>3
<1>. QED BY <1>3, <1>4, <1>5 DEF Moves

LEMMA MovesKeep ==
  ASSUME KeepInv, pc \in Running, Moves, UNCHANGED <<disk, clock, seen>>, KeptOK'
  PROVE  KeepInv'
<1>1. LookOK' /\ AnswerWasThere' /\ pc' \in {"memory", "loose", "done"}
  BY MovesLook DEF KeepInv
<1>2. DiskOK'
  BY DEF KeepInv, DiskOK
<1>3. pc # "idle" /\ OnDisk(disk)' = OnDisk(disk)
  BY DEF OnDisk, Running, AtPackages, AtPackage
<1>4. Met'
  BY <1>1, <1>3 DEF Met, KeepInv
<1>. QED BY <1>1, <1>2, <1>4 DEF KeepInv

LEMMA CachesStay ==
  ASSUME KeepInv, UNCHANGED <<disk, clock>>, UNCHANGED caches
  PROVE  KeptOK'
BY DEF KeepInv, KeptOK, caches

-----------------------------------------------------------------------------
(***************************************************************************)
(* The steps of a lookup.                                                  *)
(***************************************************************************)

LEMMA MemoryKeeps == KeepInv /\ Memory => KeepInv'
<1>. SUFFICES ASSUME KeepInv, Memory PROVE KeepInv'
  OBVIOUS
<1>1. pc \in Running
  BY DEF Memory, Running
<1>2. Moves
  BY SettleMoves DEF Memory
<1>3. UNCHANGED <<disk, clock, seen>> /\ KeptOK'
  BY DEF Memory, outside, KeepInv, KeptOK
<1>. QED BY <1>1, <1>2, <1>3, MovesKeep

\* What a step that goes on within a source has to show.
LEMMA GoesOn ==
  ASSUME KeepInv, UNCHANGED outside, UNCHANGED <<req, at, result>>, KeptOK', LookOK',
         pc \in Running, pc' \in AtPackages \ {"size", "store"}
  PROVE  KeepInv'
<1>1. DiskOK'
  BY DEF KeepInv, DiskOK, outside
<1>2. OnDisk(disk)' = OnDisk(disk) /\ seen' = seen
  BY DEF OnDisk, outside
<1>3. Met'
  BY <1>2 DEF KeepInv, Met, AnswerWasThere, AtPackages, AtPackage, Running
<1>. QED BY <1>1, <1>3 DEF KeepInv

LEMMA LooseKeeps == KeepInv /\ Loose => KeepInv'
<1>. SUFFICES ASSUME KeepInv, Loose PROVE KeepInv'
  OBVIOUS
<1>1. pc = "loose" /\ pc \in Running /\ UNCHANGED outside /\ UNCHANGED caches
  BY DEF Loose, Running
<1>2. KeptOK' /\ UNCHANGED <<disk, clock, seen>>
  BY <1>1, CachesStay DEF outside
<1>3. Moves \/ (UsesPackages(req) /\ pc' = "dir" /\ UNCHANGED <<req, at, reg, result>>)
  <2>1. Finish([tag |-> "refused"]) => Moves
    BY DEF Moves, Backed
  <2>2. Settle(Fault, "root", NextSource) => Moves
    BY SettleMoves
  <2>3. ASSUME NEW o, Settle(o, "loose", IF UsesPackages(req)
                              THEN pc' = "dir" /\ UNCHANGED <<req, at, reg, result>>
                              ELSE NextSource)
        PROVE  Moves \/ (UsesPackages(req) /\ pc' = "dir" /\ UNCHANGED <<req, at, reg, result>>)
    <3>1. CASE Settle(o, "loose", NextSource)
      BY <3>1, SettleMoves
    <3>2. CASE ~Settle(o, "loose", NextSource)
      BY <2>3, <3>2 DEF Settle
    <3>. QED BY <3>1, <3>2
  <2>4. NextSource => Moves
    BY DEF Moves
  <2>. QED BY <2>1, <2>2, <2>3, <2>4 DEF Loose
<1>4. CASE Moves
  BY <1>1, <1>2, <1>4, MovesKeep
<1>5. CASE UsesPackages(req) /\ pc' = "dir" /\ UNCHANGED <<req, at, reg, result>>
  <2>1. LookOK'
    BY <1>1, <1>5 DEF KeepInv, LookOK, Running, AtPackages, AtPackage, Root
  <2>. QED BY <2>1, <1>1, <1>2, <1>5, GoesOn DEF AtPackages
<1>. QED BY <1>3, <1>4, <1>5

\* A directory whose package is known: on to the package, or to the next source.
LEMMA HasPackageKeeps ==
  ASSUME KeepInv, pc \in {"dir", "listed"}, NEW p \in Files \cup {0}, HasPackage(p), UNCHANGED outside, KeptOK'
  PROVE  KeepInv'
<1>1. CASE p = 0
  BY <1>1, MovesKeep DEF HasPackage, Moves, Running, AtPackages, outside
<1>2. CASE p # 0
  <2>1. pc' = "mtime" /\ reg' = [reg EXCEPT !.path = p] /\ UNCHANGED <<req, at, result>>
    BY <1>2 DEF HasPackage
  <2>2. reg' \in Register /\ reg'.path = p /\ p \in Files
    BY <1>2, <2>1, FilesAreNumbers DEF KeepInv, LookOK, Register
  <2>3. LookOK'
    BY <2>1, <2>2 DEF KeepInv, LookOK, Running, AtPackages, AtPackage, Root
  <2>. QED BY <2>1, <2>3, GoesOn DEF AtPackages, AtPackage, Running
<1>. QED BY <1>1, <1>2

LEMMA DirTimeKeeps == KeepInv /\ DirTime => KeepInv'
<1>. SUFFICES ASSUME KeepInv, DirTime PROVE KeepInv'
  OBVIOUS
<1>1. pc = "dir" /\ UNCHANGED outside /\ UNCHANGED caches
  BY DEF DirTime
<1>2. KeptOK' /\ Root \in 1 .. Roots /\ at \in Nat
  BY <1>1, CachesStay DEF outside, KeepInv, LookOK, AtPackages
<1>3. CASE dirCache[Root].held /\ dirCache[Root].mtime = disk[Root].mtime
  <2>1. dirCache[Root] \in DirEntries /\ HasPackage(dirCache[Root].path)
    BY <1>2, <1>3 DEF DirTime, KeepInv, KeptOK
  <2>2. dirCache[Root].path \in Files \cup {0}
    BY <2>1, <1>3, EntryHeld
  <2>. QED BY <2>1, <2>2, <1>1, <1>2, HasPackageKeeps
<1>4. CASE ~(dirCache[Root].held /\ dirCache[Root].mtime = disk[Root].mtime)
  <2>1. /\ pc' = "list" /\ reg' = [reg EXCEPT !.dirTime = disk[Root].mtime]
        /\ UNCHANGED <<req, at, result>>
    BY <1>4 DEF DirTime
  <2>2. disk[Root].mtime \in Nat /\ disk[Root].mtime =< clock /\ clock' = clock
    BY <1>1, <1>2 DEF KeepInv, DiskOK, RootStates, outside
  <2>3. reg' \in Register /\ reg'.dirTime =< clock'
    BY <2>1, <2>2 DEF KeepInv, LookOK, Register
  <2>4. LookOK'
    BY <2>1, <2>3, <1>1 DEF KeepInv, LookOK, Running, AtPackages, AtPackage, Root
  <2>. QED BY <2>1, <2>4, <1>1, <1>2, GoesOn DEF AtPackages, Running
<1>. QED BY <1>3, <1>4

LEMMA ListKeeps == KeepInv /\ List => KeepInv'
<1>. SUFFICES ASSUME KeepInv, List PROVE KeepInv'
  OBVIOUS
<1>1. pc = "list" /\ UNCHANGED outside /\ UNCHANGED caches
  BY DEF List
<1>2. KeptOK' /\ Root \in 1 .. Roots /\ UNCHANGED <<disk, clock, seen>> /\ pc \in Running
  BY <1>1, CachesStay DEF outside, KeepInv, LookOK, AtPackages, Running
<1>3. CASE disk[Root].listing = "breaks"
  BY <1>2, <1>3, SettleMoves, MovesKeep DEF List
<1>4. CASE disk[Root].listing # "breaks"
  <2>1. PICK ps \in Listing(disk[Root]) :
          /\ pc' = "listed" /\ reg' = [reg EXCEPT !.path = FirstOf(ps)]
          /\ UNCHANGED <<req, at, result>>
    BY <1>4 DEF List
  <2>2. ps \subseteq Files
    BY <2>1 DEF Listing, Held
  <2>3. FirstOf(ps) \in Files \cup {0} /\ FirstOf(ps) \in Nat
    <3>1. FirstOf(ps) \in Files \cup {0}
      BY <2>2, FirstIsHeld
    <3>. QED BY <3>1, FilesAreNumbers
  <2>4. reg' \in Register /\ reg'.path = FirstOf(ps) /\ reg'.dirTime = reg.dirTime
    BY <2>1, <2>3 DEF KeepInv, LookOK, Register
  <2>5. LookOK'
    BY <2>1, <2>3, <2>4, <1>1, <1>2 DEF KeepInv, LookOK, Running, AtPackages, AtPackage, Root
  <2>. QED BY <2>1, <2>5, <1>1, <1>2, GoesOn DEF AtPackages
<1>. QED BY <1>3, <1>4

LEMMA ListedKeeps == KeepInv /\ Listed => KeepInv'
<1>. SUFFICES ASSUME KeepInv, Listed PROVE KeepInv'
  OBVIOUS
<1>1. pc = "listed" /\ UNCHANGED outside /\ UNCHANGED diskCache /\ HasPackage(reg.path)
  BY DEF Listed
<1>2. /\ Root \in 1 .. Roots /\ reg.path \in Files \cup {0}
      /\ reg.dirTime \in Nat /\ reg.dirTime =< clock /\ UNCHANGED <<disk, clock>>
  BY <1>1 DEF KeepInv, LookOK, AtPackages, Register, outside
<1>3. KeptOK'
  <2>. DEFINE e == [held |-> TRUE, mtime |-> reg.dirTime, path |-> reg.path]
  <2>1. dirCache' = dirCache \/ dirCache' = [dirCache EXCEPT ![Root] = e]
    BY DEF Listed
  <2>2. e \in DirEntries /\ e.mtime =< clock
    BY <1>2 DEF DirEntries
  <2>. HIDE DEF e
  <2>3. /\ dirCache' \in [1 .. Roots -> DirEntries]
        /\ \A r \in 1 .. Roots : dirCache'[r].held => dirCache'[r].mtime =< clock
    BY <2>1, <2>2, <1>2 DEF KeepInv, KeptOK
  <2>. QED BY <2>3, <1>1, <1>2 DEF KeepInv, KeptOK
<1>. QED BY <1>1, <1>2, <1>3, HasPackageKeeps

-----------------------------------------------------------------------------
(***************************************************************************)
(* The package file of a directory: its time, its size, its bytes.         *)
(***************************************************************************)

\* What a file that is there is.
LEMMA FileThere ==
  ASSUME KeepInv, pc \in AtPackage
  PROVE  /\ Root \in 1 .. Roots /\ reg.path \in Files /\ pc \in Running
         /\ PackageFile \in FileStates
         /\ PackageFile.held =>
              /\ PackageFile.bytes \in Bytes /\ PackageFile.mtime \in Nat /\ PackageFile.mtime =< clock
              /\ PackageFile.bytes.size \in Sizes
              /\ <<Root, reg.path, PackageFile.bytes>> \in OnDisk(disk)
              /\ <<Root, reg.path, PackageFile.bytes>> \in seen
<1>1. Root \in 1 .. Roots /\ reg.path \in Files /\ pc \in Running /\ pc # "idle"
  BY DEF KeepInv, LookOK, AtPackages, AtPackage, Running
<1>2. disk[Root] \in RootStates
  BY <1>1 DEF KeepInv, DiskOK
<1>3. PackageFile \in FileStates
  BY <1>1, <1>2 DEF PackageFile, RootStates
<1>4. ASSUME PackageFile.held
      PROVE  PackageFile.bytes \in Bytes /\ PackageFile.mtime \in Nat /\ PackageFile.mtime =< clock
  <2>1. PackageFile.bytes \in Bytes /\ PackageFile.mtime \in Nat
    BY <1>3, <1>4, FileHeld
  <2>. QED BY <2>1, <1>1, <1>4 DEF KeepInv, DiskOK, PackageFile
<1>5. ASSUME PackageFile.held
      PROVE  <<Root, reg.path, PackageFile.bytes>> \in OnDisk(disk)
  <2>. DEFINE x == <<Root, reg.path>>
  <2>1. x \in Paths /\ x[1] = Root /\ x[2] = reg.path
    BY <1>1 DEF Paths
  <2>2. x \in {y \in Paths : disk[y[1]].files[y[2]].held}
    BY <2>1, <1>5 DEF PackageFile
  <2>. QED BY <2>1, <2>2 DEF OnDisk, PackageFile
<1>6. PackageFile.held => PackageFile.bytes.size \in Sizes
  BY <1>4 DEF Sizes
<1>. QED BY <1>1, <1>3, <1>4, <1>5, <1>6 DEF KeepInv, Met

LEMMA PackageTimeKeeps == KeepInv /\ PackageTime => KeepInv'
<1>. SUFFICES ASSUME KeepInv, PackageTime PROVE KeepInv'
  OBVIOUS
<1>1. pc = "mtime" /\ UNCHANGED outside /\ UNCHANGED caches
  BY DEF PackageTime
<1>2. pc \in AtPackage /\ KeptOK' /\ UNCHANGED <<disk, clock, seen>>
  BY <1>1, CachesStay DEF outside, AtPackage
<1>3. CASE ~PackageFile.held
  BY <1>2, <1>3, FileThere, SettleMoves, MovesKeep DEF PackageTime, Fault
<1>4. CASE PackageFile.held
  <2>1. /\ pc' = "size" /\ reg' = [reg EXCEPT !.mtime = PackageFile.mtime]
        /\ UNCHANGED <<req, at, result>>
    BY <1>4 DEF PackageTime
  <2>2. /\ Root \in 1 .. Roots /\ reg.path \in Files /\ pc \in Running
        /\ PackageFile.mtime \in Nat /\ PackageFile.mtime =< clock
        /\ <<Root, reg.path, PackageFile.bytes>> \in seen
    BY <1>2, <1>4, FileThere
  <2>3. reg' \in Register /\ reg'.path = reg.path /\ reg'.mtime = PackageFile.mtime
    BY <2>1, <2>2 DEF KeepInv, LookOK, Register
  <2>4. LookOK'
    BY <2>1, <2>2, <2>3, <1>1, <1>2 DEF KeepInv, LookOK, Running, AtPackages, AtPackage, Root
  <2>5. SameTimeSameBytes(diskCache[<<Root, reg.path>>], PackageFile)
    BY <2>2 DEF KeepInv, KeptOK, PackageFile
  <2>6. Root' = Root /\ diskCache' = diskCache /\ seen' = seen /\ disk' = disk
    BY <2>1, <1>1, <1>2 DEF Root, caches, Memories, UsesPackages
  <2>7. Met'
    <3>1. OnDisk(disk)' \subseteq seen'
      BY <2>6, <1>1 DEF KeepInv, Met, OnDisk
    <3>2. LET entry == diskCache[<<Root, reg.path>>]
          IN  entry.held /\ entry.mtime = PackageFile.mtime => <<Root, reg.path, entry.bytes>> \in seen
      BY <2>2, <2>5, <1>4 DEF SameTimeSameBytes
    <3>. QED BY <3>1, <3>2, <2>1, <2>3, <2>6 DEF Met, AnswerWasThere
  <2>. QED BY <2>4, <2>7, <1>2 DEF KeepInv, DiskOK
<1>. QED BY <1>3, <1>4

LEMMA PackageSizeKeeps == KeepInv /\ PackageSize => KeepInv'
<1>. SUFFICES ASSUME KeepInv, PackageSize PROVE KeepInv'
  OBVIOUS
<1>1. pc = "size" /\ UNCHANGED outside /\ UNCHANGED caches
  BY DEF PackageSize
<1>2. pc \in AtPackage /\ KeptOK' /\ UNCHANGED <<disk, clock, seen>>
  BY <1>1, CachesStay DEF outside, AtPackage
<1>. DEFINE entry == diskCache[<<Root, reg.path>>]
<1>3. CASE ~PackageFile.held
  BY <1>2, <1>3, FileThere, SettleMoves, MovesKeep DEF PackageSize, Fault
<1>4. CASE PackageFile.held /\ IsCached(entry, reg.mtime, PackageFile.bytes.size)
  <2>1. OpenPackage(entry.bytes)
    BY <1>4 DEF PackageSize
  <2>2. <<Root, reg.path, entry.bytes>> \in seen
    BY <1>1, <1>4 DEF IsCached, KeepInv, Met
  <2>3. Moves
    BY <2>1, <2>2, OpenMoves
  <2>. QED BY <2>3, <1>2, FileThere, MovesKeep
<1>5. CASE PackageFile.held /\ ~IsCached(entry, reg.mtime, PackageFile.bytes.size)
  <2>1. /\ pc' = "read" /\ reg' = [reg EXCEPT !.size = PackageFile.bytes.size]
        /\ UNCHANGED <<req, at, result>>
    BY <1>5 DEF PackageSize
  <2>2. Root \in 1 .. Roots /\ reg.path \in Files /\ pc \in Running /\ PackageFile.bytes.size \in Sizes
    BY <1>2, <1>5, FileThere
  <2>3. reg' \in Register /\ reg'.path = reg.path /\ reg'.mtime = reg.mtime
    BY <2>1, <2>2 DEF KeepInv, LookOK, Register
  <2>4. LookOK'
    BY <2>1, <2>2, <2>3, <1>1, <1>2 DEF KeepInv, LookOK, Running, AtPackages, AtPackage, Root
  <2>. QED BY <2>1, <2>2, <2>4, <1>1, <1>2, GoesOn DEF AtPackages, AtPackage
<1>. QED BY <1>3, <1>4, <1>5

LEMMA ReadPackageKeeps == KeepInv /\ ReadPackage => KeepInv'
<1>. SUFFICES ASSUME KeepInv, ReadPackage PROVE KeepInv'
  OBVIOUS
<1>1. pc = "read" /\ UNCHANGED outside /\ UNCHANGED caches
  BY DEF ReadPackage
<1>2. pc \in AtPackage /\ KeptOK' /\ UNCHANGED <<disk, clock, seen>>
  BY <1>1, CachesStay DEF outside, AtPackage
<1>3. CASE ~PackageFile.held
  BY <1>2, <1>3, FileThere, SettleMoves, MovesKeep DEF ReadPackage, Fault
<1>4. CASE PackageFile.held
  <2>1. pc' = "store" /\ reg' = [reg EXCEPT !.bytes = PackageFile] /\ UNCHANGED <<req, at, result>>
    BY <1>4 DEF ReadPackage
  <2>2. /\ Root \in 1 .. Roots /\ reg.path \in Files /\ pc \in Running /\ PackageFile \in FileStates
        /\ <<Root, reg.path, PackageFile.bytes>> \in seen
    BY <1>2, <1>4, FileThere
  <2>3. /\ reg' \in Register /\ reg'.path = reg.path /\ reg'.mtime = reg.mtime
        /\ reg'.bytes = PackageFile
    BY <2>1, <2>2 DEF KeepInv, LookOK, Register
  <2>4. Root' = Root /\ PackageFile' = PackageFile
    BY <2>1, <2>3, <1>2 DEF Root, PackageFile
  <2>5. LookOK'
    BY <2>1, <2>2, <2>3, <2>4, <1>1, <1>2, <1>4 DEF KeepInv, LookOK, Running, AtPackages, AtPackage
  <2>6. Met'
    <3>1. OnDisk(disk)' \subseteq seen'
      BY <1>1, <1>2 DEF KeepInv, Met, OnDisk
    <3>2. AnswerWasThere'
      BY <2>1 DEF AnswerWasThere
    <3>. QED BY <3>1, <3>2, <2>1, <2>2, <2>3, <2>4, <1>2 DEF Met
  <2>. QED BY <2>5, <2>6, <1>2 DEF KeepInv, DiskOK
<1>. QED BY <1>3, <1>4

LEMMA StorePackageKeeps == KeepInv /\ StorePackage => KeepInv'
<1>. SUFFICES ASSUME KeepInv, StorePackage PROVE KeepInv'
  OBVIOUS
<1>. DEFINE x == <<Root, reg.path>>
            e == [held |-> TRUE, mtime |-> reg.mtime, size |-> reg.size, bytes |-> reg.bytes.bytes]
<1>1. /\ pc = "store" /\ UNCHANGED outside /\ UNCHANGED dirCache
      /\ OpenPackage(reg.bytes.bytes) /\ diskCache' = [diskCache EXCEPT ![x] = e]
  BY DEF StorePackage, StampKept
<1>2. pc \in AtPackage /\ UNCHANGED <<disk, clock, seen>>
  BY <1>1 DEF outside, AtPackage
<1>3. Root \in 1 .. Roots /\ reg.path \in Files /\ pc \in Running
  BY <1>2, FileThere
<1>4. Moves
  <2>1. <<Root, reg.path, reg.bytes.bytes>> \in seen
    BY <1>1 DEF KeepInv, Met
  <2>. QED BY <2>1, <1>1, OpenMoves
<1>5. KeptOK'
  <2>1. e \in DiskEntries /\ e.mtime =< clock
    <3>1. /\ reg.mtime \in Nat /\ reg.size \in Sizes /\ reg.bytes \in FileStates /\ reg.bytes.held
          /\ reg.mtime =< clock
      BY <1>1 DEF KeepInv, LookOK, Register
    <3>2. reg.bytes.bytes \in Bytes
      BY <3>1, FileHeld
    <3>. QED BY <3>1, <3>2 DEF DiskEntries
  <2>2. SameTimeSameBytes(e, disk[Root].files[reg.path])
    BY <1>1 DEF KeepInv, LookOK, SameTimeSameBytes, PackageFile
  <2>3. x \in Paths /\ diskCache \in [Paths -> DiskEntries]
    BY <1>3 DEF KeepInv, KeptOK, Paths
  <2>. HIDE DEF e
  <2>4. diskCache' \in [Paths -> DiskEntries]
    BY <2>1, <2>3, <1>1
  <2>5. ASSUME NEW r \in 1 .. Roots, NEW p \in Files
        PROVE  /\ diskCache'[<<r, p>>].held => diskCache'[<<r, p>>].mtime =< clock
               /\ SameTimeSameBytes(diskCache'[<<r, p>>], disk[r].files[p])
    <3>1. <<r, p>> \in Paths
      BY DEF Paths
    <3>2. CASE <<r, p>> = x
      <4>1. diskCache'[<<r, p>>] = e /\ r = Root /\ p = reg.path
        BY <3>2, <2>3, <1>1
      <4>. QED BY <4>1, <2>1, <2>2
    <3>3. CASE <<r, p>> # x
      <4>1. diskCache'[<<r, p>>] = diskCache[<<r, p>>]
        BY <3>1, <3>3, <2>3, <1>1
      <4>. QED BY <4>1 DEF KeepInv, KeptOK
    <3>. QED BY <3>2, <3>3
  <2>6. UNCHANGED <<dirCache, clock, disk>>
    BY <1>1, <1>2
  <2>. QED BY <2>4, <2>5, <2>6 DEF KeepInv, KeptOK
<1>. QED BY <1>2, <1>3, <1>4, <1>5, MovesKeep

-----------------------------------------------------------------------------
(***************************************************************************)
(* A request, the clearing of the caches, and the other program.           *)
(***************************************************************************)

LEMMA RequestKeeps == KeepInv /\ Request => KeepInv'
<1>. SUFFICES ASSUME KeepInv, Request PROVE KeepInv'
  OBVIOUS
<1>1. UNCHANGED <<disk, clock>> /\ UNCHANGED caches /\ seen' = OnDisk(disk)
  BY DEF Request
<1>2. KeptOK' /\ DiskOK'
  BY <1>1, CachesStay DEF KeepInv, DiskOK
<1>3. PICK q \in Requests :
        /\ req' = q /\ at' = 1 /\ reg' = NoRegister
        /\ IF q.name = "unsafe" THEN pc' = "done" /\ result' = [tag |-> "refused"]
           ELSE pc' = StepAt(q, 1) /\ result' = None
  BY DEF Request
<1>4. Memories(q) \in Nat /\ Roots \in Nat
  BY MemoriesNat
<1>5. \/ pc' = "done"
      \/ /\ result' = None /\ req'.name # "unsafe"
         /\ pc' = IF 1 =< Memories(q) THEN "memory"
                  ELSE IF 1 =< Memories(q) + Roots THEN "loose" ELSE "done"
  BY <1>3 DEF StepAt
<1>6. LookOK'
  BY <1>3, <1>4, <1>5, RegisterFresh DEF LookOK, Running, AtPackages, AtPackage, Root
<1>7. result'.tag # "found"
  BY <1>3 DEF None
<1>8. Met'
  <2>1. pc' \notin {"size", "store"}
    BY <1>5
  <2>2. OnDisk(disk)' = seen'
    BY <1>1 DEF OnDisk
  <2>. QED BY <1>7, <2>1, <2>2 DEF Met, AnswerWasThere
<1>. QED BY <1>2, <1>6, <1>8 DEF KeepInv

LEMMA EmptyCaches ==
  ASSUME DiskOK, dirCache = [r \in 1 .. Roots |-> NoEntry], diskCache = [x \in Paths |-> NoEntry]
  PROVE  KeptOK
<1>1. ~NoEntry.held /\ NoEntry \in DirEntries /\ NoEntry \in DiskEntries
  BY DEF NoEntry, DirEntries, DiskEntries
<1>2. \A r \in 1 .. Roots, p \in Files : diskCache[<<r, p>>] = NoEntry
  BY DEF Paths
<1>. QED BY <1>1, <1>2 DEF KeptOK, SameTimeSameBytes

LEMMA ClearKeeps == KeepInv /\ ClearStfsCache => KeepInv'
<1>. SUFFICES ASSUME KeepInv, ClearStfsCache PROVE KeepInv'
  OBVIOUS
<1>1. /\ pc \in {"idle", "done"} /\ UNCHANGED outside /\ UNCHANGED lookup
      /\ dirCache' = [r \in 1 .. Roots |-> NoEntry] /\ diskCache' = [x \in Paths |-> NoEntry]
  BY DEF ClearStfsCache
<1>2. UNCHANGED <<disk, clock, seen, pc, req, at, reg, result>>
  BY <1>1 DEF outside, lookup
<1>3. DiskOK' /\ LookOK'
  BY <1>2, <1>1 DEF KeepInv, DiskOK, LookOK, Running, AtPackages, AtPackage
<1>4. KeptOK'
  <2>1. ~NoEntry.held /\ NoEntry \in DirEntries /\ NoEntry \in DiskEntries
    BY DEF NoEntry, DirEntries, DiskEntries
  <2>2. \A r \in 1 .. Roots, p \in Files : diskCache'[<<r, p>>] = NoEntry
    BY <1>1 DEF Paths
  <2>. QED BY <2>1, <2>2, <1>1 DEF KeptOK, SameTimeSameBytes
<1>5. Met'
  <2>1. OnDisk(disk)' = OnDisk(disk) /\ Root' = Root
    BY <1>2 DEF OnDisk, Root
  <2>. QED BY <2>1, <1>1, <1>2 DEF KeepInv, Met, AnswerWasThere
<1>. QED BY <1>3, <1>4, <1>5 DEF KeepInv

LEMMA RootWritten ==
  ASSUME NEW A, NEW B, NEW C, NEW D, NEW fs \in D, NEW t \in Nat,
         NEW root \in [state : A, listing : B, loose : C, mtime : Nat, files : D]
  PROVE  LET new == [root EXCEPT !.files = fs, !.mtime = t]
         IN  /\ new \in [state : A, listing : B, loose : C, mtime : Nat, files : D]
             /\ new.state = root.state /\ new.listing = root.listing /\ new.loose = root.loose
             /\ new.files = fs /\ new.mtime = t
OBVIOUS

\* What a write leaves of the disk.
LEMMA DiskWritten ==
  ASSUME DiskOK, NEW r \in 1 .. Roots, NEW p \in Files, NEW file \in FileStates, clock' = clock + 1,
         Written(r, p, file)
  PROVE  /\ disk' \in [1 .. Roots -> RootStates]
         /\ \A s \in 1 .. Roots :
              /\ disk'[s].state = disk[s].state /\ disk'[s].listing = disk[s].listing
              /\ disk'[s].loose = disk[s].loose
              /\ \A q \in Files : disk'[s].files[q] = IF s = r /\ q = p THEN file ELSE disk[s].files[q]
              /\ disk'[s].mtime = IF s = r /\ disk[r].files[p].held # file.held
                                  THEN clock + 1 ELSE disk[s].mtime
<1>. DEFINE root == disk[r]
            stamp == IF root.files[p].held = file.held THEN root.mtime ELSE clock + 1
            fs == [root.files EXCEPT ![p] = file]
            new == [root EXCEPT !.files = fs, !.mtime = stamp]
<1>1. root \in RootStates /\ clock \in Nat /\ disk \in [1 .. Roots -> RootStates]
  BY DEF DiskOK
<1>2. disk' = [disk EXCEPT ![r] = new]
  BY <1>1 DEF Written
<1>3. root.files \in [Files -> FileStates] /\ root.mtime \in Nat /\ stamp \in Nat
  BY <1>1 DEF RootStates
<1>4. /\ new \in RootStates
      /\ new.state = root.state /\ new.listing = root.listing /\ new.loose = root.loose
      /\ new.files = fs /\ new.mtime = stamp
  <2>1. fs \in [Files -> FileStates]
    BY <1>3
  <2>. DEFINE A == {"dir", "missing", "faulty"}
              B == {"open", "breaks", "closed", "dangling"}
              C == LooseKinds
              D == [Files -> FileStates]
  <2>2. RootStates = [state : A, listing : B, loose : C, mtime : Nat, files : D]
    BY DEF RootStates
  <2>3. fs \in D /\ root \in [state : A, listing : B, loose : C, mtime : Nat, files : D] /\ stamp \in Nat
    BY <2>1, <2>2, <1>1, <1>3
  <2>. HIDE DEF stamp, fs, root, A, B, C, D
  <2>. QED BY <2>2, <2>3, RootWritten
<1>5. disk' \in [1 .. Roots -> RootStates] /\ disk'[r] = new /\ \A s \in 1 .. Roots : s # r => disk'[s] = disk[s]
  <2>. HIDE DEF new
  <2>. QED BY <1>1, <1>2, <1>4
<1>6. \A q \in Files : new.files[q] = IF q = p THEN file ELSE root.files[q]
  BY <1>3, <1>4
<1>. HIDE DEF new
<1>. QED BY <1>4, <1>5, <1>6

LEMMA WriteKeeps ==
  ASSUME KeepInv, NEW r \in 1 .. Roots, NEW p \in Files, NEW file \in FileStates,
         clock' = clock + 1, file.held => file.mtime = clock + 1, Written(r, p, file)
  PROVE  KeepInv'
<1>1. UNCHANGED <<dirCache, diskCache, memCache, pc, req, at, reg, result>> /\ seen' = seen \cup OnDisk(disk')
  BY DEF Written, lookup, caches
<1>2. /\ disk' \in [1 .. Roots -> RootStates]
      /\ \A s \in 1 .. Roots, q \in Files :
           disk'[s].files[q] = IF s = r /\ q = p THEN file ELSE disk[s].files[q]
      /\ \A s \in 1 .. Roots : disk'[s].mtime \in {disk[s].mtime, clock + 1}
  BY DiskWritten DEF KeepInv
<1>3. DiskOK'
  <2>1. \A s \in 1 .. Roots : disk[s].mtime \in Nat /\ disk[s].files \in [Files -> FileStates]
    BY DEF KeepInv, DiskOK, RootStates
  <2>2. \A s \in 1 .. Roots, q \in Files : disk[s].files[q].held => disk[s].files[q].mtime \in Nat
    BY <2>1, FileHeld
  <2>. QED BY <2>1, <2>2, <1>2 DEF KeepInv, DiskOK
<1>4. \A s \in 1 .. Roots, q \in Files :
        SameTimeSameBytes(diskCache[<<s, q>>], disk'[s].files[q])
        /\ (diskCache[<<s, q>>].held => diskCache[<<s, q>>].mtime =< clock + 1)
  <2>. SUFFICES ASSUME NEW s \in 1 .. Roots, NEW q \in Files
                PROVE  /\ SameTimeSameBytes(diskCache[<<s, q>>], disk'[s].files[q])
                       /\ diskCache[<<s, q>>].held => diskCache[<<s, q>>].mtime =< clock + 1
    OBVIOUS
  <2>. DEFINE e == diskCache[<<s, q>>]
  <2>1. e.held => e.mtime \in Nat /\ e.mtime =< clock
    <3>1. e \in DiskEntries
      BY DEF KeepInv, KeptOK, Paths
    <3>2. ~NoEntry.held
      BY DEF NoEntry
    <3>3. e.held => e \in [held : {TRUE}, mtime : Nat, size : Sizes, bytes : Bytes]
      BY <3>1, <3>2 DEF DiskEntries
    <3>. QED BY <3>3 DEF KeepInv, KeptOK
  <2>2. SameTimeSameBytes(e, disk[s].files[q]) /\ clock \in Nat
    BY DEF KeepInv, KeptOK, DiskOK
  <2>3. disk'[s].files[q] = disk[s].files[q] \/ (disk'[s].files[q].held => disk'[s].files[q].mtime = clock + 1)
    BY <1>2
  <2>4. SameTimeSameBytes(e, disk'[s].files[q])
    <3>. HIDE DEF e
    <3>. QED BY <2>1, <2>2, <2>3 DEF SameTimeSameBytes
  <2>5. e.held => e.mtime =< clock + 1
    <3>. HIDE DEF e
    <3>. QED BY <2>1, <2>2
  <2>. QED BY <2>4, <2>5
<1>5. KeptOK'
  <2>1. \A s \in 1 .. Roots : dirCache[s].held => dirCache[s].mtime \in Nat /\ dirCache[s].mtime =< clock
    <3>1. ~NoEntry.held
      BY DEF NoEntry
    <3>2. \A s \in 1 .. Roots : dirCache[s].held => dirCache[s] \in [held : {TRUE}, mtime : Nat, path : Files \cup {0}]
      BY <3>1 DEF KeepInv, KeptOK, DirEntries
    <3>. QED BY <3>2 DEF KeepInv, KeptOK
  <2>2. \A s \in 1 .. Roots : dirCache[s].held => dirCache[s].mtime =< clock'
    BY <2>1 DEF KeepInv, DiskOK
  <2>. QED BY <2>2, <1>1, <1>4 DEF KeepInv, KeptOK
<1>6. LookOK'
  <2>1. reg.mtime \in Nat /\ reg.dirTime \in Nat /\ clock \in Nat
    BY DEF KeepInv, LookOK, DiskOK, Register
  <2>2. Root' = Root /\ reg' = reg
    BY <1>1 DEF Root
  <2>3. ASSUME pc = "store"
        PROVE  reg.bytes.held /\ (PackageFile'.held /\ PackageFile'.mtime = reg.mtime => reg.bytes.bytes = PackageFile'.bytes)
    <3>1. Root \in 1 .. Roots /\ reg.path \in Files /\ reg.mtime =< clock
      BY <2>3 DEF KeepInv, LookOK, AtPackages, AtPackage
    <3>2. PackageFile' = PackageFile \/ PackageFile' = file
      BY <3>1, <2>2, <1>2 DEF PackageFile
    <3>. QED BY <2>1, <2>3, <3>1, <3>2 DEF KeepInv, LookOK
  <2>. QED BY <2>1, <2>2, <2>3, <1>1 DEF KeepInv, LookOK, Running, AtPackages, AtPackage
<1>7. Met'
  <2>1. OnDisk(disk)' \subseteq seen' /\ seen \subseteq seen'
    BY <1>1 DEF OnDisk
  <2>2. Root' = Root /\ UNCHANGED <<diskCache, pc, req, at, reg, result>>
    BY <1>1 DEF Root
  <2>3. AnswerWasThere'
    BY <2>1, <2>2 DEF KeepInv, Met, AnswerWasThere
  <2>. QED BY <2>1, <2>2, <2>3 DEF KeepInv, Met
<1>. QED BY <1>3, <1>5, <1>6, <1>7 DEF KeepInv

LEMMA WriterKeeps == KeepInv /\ (WriterWrites \/ WriterRemoves) => KeepInv'
<1>. SUFFICES ASSUME KeepInv, WriterWrites \/ WriterRemoves PROVE KeepInv'
  OBVIOUS
<1>1. clock \in Nat
  BY DEF KeepInv, DiskOK
<1>2. CASE WriterWrites
  <2>1. PICK r \in 1 .. Roots, p \in Files, bytes \in Contents : Written(r, p, File(bytes, clock'))
    BY <1>2 DEF WriterWrites
  <2>2. clock' = clock + 1
    BY <1>2 DEF WriterWrites
  <2>3. File(bytes, clock + 1) \in FileStates /\ File(bytes, clock + 1).mtime = clock + 1
    BY <1>1 DEF File, FileStates, Bytes
  <2>. QED BY <2>1, <2>2, <2>3, WriteKeeps
<1>3. CASE WriterRemoves
  <2>1. PICK r \in 1 .. Roots, p \in Files : Written(r, p, NoFile)
    BY <1>3 DEF WriterRemoves
  <2>2. clock' = clock + 1 /\ ~NoFile.held
    BY <1>3 DEF WriterRemoves, NoFile
  <2>. QED BY <2>1, <2>2, RegisterFresh, WriteKeeps
<1>. QED BY <1>2, <1>3

-----------------------------------------------------------------------------
LEMMA InitKeeps == Init => KeepInv
<1>. SUFFICES ASSUME Init PROVE KeepInv
  OBVIOUS
<1>1. DiskOK
  BY SourcesAssumption DEF Init, DiskOK
<1>2. KeptOK
  BY <1>1, EmptyCaches DEF Init
<1>3. LookOK /\ Met
  BY RegisterFresh DEF Init, LookOK, Met, AnswerWasThere, Running, AtPackages, AtPackage
<1>. QED BY <1>1, <1>2, <1>3 DEF KeepInv

LEMMA NextKeeps == KeepInv /\ [Next]_vars => KeepInv'
<1>. SUFFICES ASSUME KeepInv, [Next]_vars PROVE KeepInv'
  OBVIOUS
<1>1. CASE UNCHANGED vars
  <2>1. KeptOK' /\ DiskOK' /\ LookOK'
    BY <1>1 DEF vars, KeepInv, KeptOK, DiskOK, LookOK, Root, PackageFile
  <2>2. OnDisk(disk)' = OnDisk(disk) /\ Root' = Root
    BY <1>1 DEF vars, OnDisk, Root
  <2>. QED BY <2>1, <2>2, <1>1 DEF vars, KeepInv, Met, AnswerWasThere
<1>. QED BY <1>1, RequestKeeps, MemoryKeeps, LooseKeeps, DirTimeKeeps, ListKeeps, ListedKeeps,
            PackageTimeKeeps, PackageSizeKeeps, ReadPackageKeeps, StorePackageKeeps, ClearKeeps,
            WriterKeeps DEF Next, Lookup

LEMMA Keeps == Spec => []KeepInv
<1>. QED BY InitKeeps, NextKeeps, PTL DEF Spec

(* A package kept under the time and size a file has is that file, whoever wrote it between the  *)
(* stat and the read of the lookup that kept it (get_or_load_disk_package), for every disk,       *)
(* every number of directories and every writer.                                                  *)
THEOREM CachedBytesAreCurrent == Spec => []CachedBytesCurrent
<1>1. KeepInv => CachedBytesCurrent
  <2>. SUFFICES ASSUME KeepInv, NEW x \in Paths, diskCache[x].held, disk[x[1]].files[x[2]].held,
                       IsCached(diskCache[x], disk[x[1]].files[x[2]].mtime, disk[x[1]].files[x[2]].bytes.size)
                PROVE  diskCache[x].bytes = disk[x[1]].files[x[2]].bytes
    BY DEF CachedBytesCurrent
  <2>1. x = <<x[1], x[2]>> /\ x[1] \in 1 .. Roots /\ x[2] \in Files
    BY DEF Paths
  <2>2. SameTimeSameBytes(diskCache[<<x[1], x[2]>>], disk[x[1]].files[x[2]])
    BY <2>1 DEF KeepInv, KeptOK
  <2>. QED BY <2>1, <2>2 DEF SameTimeSameBytes, IsCached
<1>. QED BY <1>1, Keeps, PTL

(* An answer from a package on disk is one that a package of that directory gave at some instant  *)
(* since the request, never an older one.                                                        *)
THEOREM AnswersWereThere == Spec => []AnswerWasThere
<1>1. KeepInv => AnswerWasThere
  BY DEF KeepInv, Met
<1>. QED BY <1>1, Keeps, PTL

-----------------------------------------------------------------------------
(***************************************************************************)
(* A lookup nobody disturbs answers what looking afresh would.             *)
(*                                                                         *)
(* The two go the same way, source by source (Abreast): a listing and a    *)
(* package that come from a cache are those of the disk, because their     *)
(* times are.  It is so where every directory can be listed; the caches do *)
(* not keep what another directory showed.                                 *)
(***************************************************************************)

ListingsOpen == \A d \in Disks, r \in 1 .. Roots : d[r].listing \in {"open", "breaks"}

\* The listing kept under the time a directory still has is that of the directory.
SameTimeSameListing(time, path, root) ==
  root.listing = "open" /\ (time = root.mtime => path = FirstOf(Held(root)))

DirCurrent ==
  /\ \A r \in 1 .. Roots :
       /\ disk[r].listing \in {"open", "breaks"}
       /\ dirCache[r].held => SameTimeSameListing(dirCache[r].mtime, dirCache[r].path, disk[r])
  /\ pc = "listed" => SameTimeSameListing(reg.dirTime, reg.path, disk[Root])

MemoryCurrent ==
  \A q \in Requests : \A i \in 1 .. Len(q.memory) :
    MemoryKey(q.memory[i]) \in DOMAIN memCache => memCache[MemoryKey(q.memory[i])] = q.memory[i].bytes

PassedOver == \A n \in 1 .. (at - 1) : ~Decides(req, Fresh(disk, req, n))

Answered ==
  pc = "done" /\ req.name # "unsafe" =>
    LET ns == Deciding(disk, req)
    IN  IF ns = {} THEN result = None
        ELSE LET o == Fresh(disk, req, Min(ns))
             IN  /\ result.tag = o.tag
                 /\ o.tag # "refused" => result.at = Min(ns)
                 /\ o.tag = "found" => result.data = o.data

Abreast ==
  still =>
    /\ pc \in Running => PassedOver
    /\ pc \in AtPackages => Fresh(disk, req, at) = FreshPackage(disk[Root], req)
    /\ pc \in {"list", "listed"} => reg.dirTime = disk[Root].mtime
    /\ pc \in AtPackage => disk[Root].listing = "open" /\ reg.path = FirstOf(Held(disk[Root]))
    /\ pc \in {"size", "read", "store"} => PackageFile.held /\ PackageFile.mtime = reg.mtime
    /\ Answered

FreshInv == KeepInv /\ DirCurrent /\ MemoryCurrent /\ Abreast

-----------------------------------------------------------------------------
\* The lookup goes on past a source that does not decide it.
LEMMA PassesOver ==
  ASSUME KeepInv, still => PassedOver, pc \in Running, NextSource, UNCHANGED <<disk, still>>,
         still => ~Decides(req, Fresh(disk, req, at))
  PROVE  Abreast'
<1>. SUFFICES ASSUME still PROVE Abreast'
  BY DEF Abreast
<1>1. req \in Requests /\ at \in Nat /\ at > 0 /\ result = None
  BY DEF KeepInv, LookOK, Running, AtPackages, AtPackage
<1>2. Memories(req) \in Nat /\ Roots \in Nat
  BY <1>1, MemoriesNat
<1>3. at' = at + 1 /\ req' = req /\ disk' = disk /\ result' = None
      /\ pc' = IF at + 1 =< Memories(req) THEN "memory"
               ELSE IF at + 1 =< Memories(req) + Roots THEN "loose" ELSE "done"
  BY <1>1 DEF NextSource, StepAt
<1>4. \A n \in 1 .. at : ~Decides(req, Fresh(disk, req, n))
  BY <1>1 DEF PassedOver
<1>5. PassedOver'
  BY <1>1, <1>3, <1>4 DEF PassedOver
<1>6. pc' = "done" => Deciding(disk, req) = {}
  BY <1>1, <1>2, <1>3, <1>4 DEF Deciding
<1>7. Answered'
  BY <1>3, <1>6 DEF Answered
<1>8. pc' \in {"memory", "loose", "done"}
  BY <1>3
<1>. QED BY <1>5, <1>7, <1>8 DEF Abreast, AtPackages, AtPackage

Gives(r, o) ==
  /\ r.tag = o.tag
  /\ o.tag # "refused" => r.at = at
  /\ o.tag = "found" => r.data = o.data

\* The lookup ends at a source that decides it.
LEMMA EndsThere ==
  ASSUME KeepInv, still => PassedOver, pc \in Running, NEW r, Finish(r), UNCHANGED <<disk, still>>,
         at =< Memories(req) + Roots,
         still => Decides(req, Fresh(disk, req, at)) /\ Gives(r, Fresh(disk, req, at))
  PROVE  Abreast'
<1>. SUFFICES ASSUME still PROVE Abreast'
  BY DEF Abreast
<1>1. req \in Requests /\ at \in Nat /\ at > 0
  BY DEF KeepInv, LookOK, Running, AtPackages, AtPackage
<1>2. Memories(req) \in Nat /\ Roots \in Nat
  BY <1>1, MemoriesNat
<1>3. pc' = "done" /\ result' = r /\ req' = req /\ disk' = disk
  BY DEF Finish
<1>. DEFINE ns == Deciding(disk, req)
<1>4. at \in ns /\ ns \subseteq Nat
  BY <1>1, <1>2 DEF Deciding
<1>5. \A n \in ns : at =< n
  BY <1>1, <1>2 DEF Deciding, PassedOver
<1>6. Min(ns) = at /\ ns # {}
  <2>. HIDE DEF ns
  <2>1. Min(ns) \in ns /\ \A y \in ns : Min(ns) =< y
    BY <1>4, MinOf
  <2>2. Min(ns) \in Nat /\ at \in Nat /\ at =< Min(ns) /\ Min(ns) =< at
    BY <2>1, <1>1, <1>4, <1>5
  <2>3. Min(ns) = at
    <3>. DEFINE least == Min(ns)
    <3>. HIDE DEF least
    <3>. QED BY <2>2 DEF least
  <2>. QED BY <2>3, <1>4
<1>7. Answered'
  BY <1>3, <1>6 DEF Answered, Gives
<1>. QED BY <1>3, <1>7 DEF Abreast, Running, AtPackages, AtPackage

\* The lookup settles on what looking afresh gives there.
LEMMA SettlesThere ==
  ASSUME KeepInv, still => PassedOver, pc \in Running, NEW o, NEW from, Settle(o, from, NextSource),
         UNCHANGED <<disk, still>>, at =< Memories(req) + Roots,
         o.tag \in {"none", "fault", "found"}, still => Fresh(disk, req, at) = o
  PROVE  Abreast'
<1>1. Decides(req, o) <=> Ends(o)
  BY DEF Decides, Ends
<1>2. CASE Ends(o)
  <2>. DEFINE r == [tag |-> o.tag, at |-> at, from |-> from,
                    data |-> IF o.tag = "found" THEN o.data ELSE "none"]
  <2>1. Finish(r)
    BY <1>2 DEF Settle
  <2>2. Gives(r, o)
    BY DEF Gives
  <2>. HIDE DEF r
  <2>. QED BY <2>1, <2>2, <1>1, <1>2, EndsThere
<1>3. CASE ~Ends(o)
  <2>1. NextSource
    BY <1>3 DEF Settle
  <2>. QED BY <2>1, <1>1, <1>3, PassesOver
<1>. QED BY <1>2, <1>3

\* Where the lookup stands is one of the sources.
LEMMA AtSource ==
  ASSUME KeepInv, pc \in Running
  PROVE  /\ at =< Memories(req) + Roots /\ at \in Nat /\ at > 0 /\ req \in Requests
         /\ Memories(req) \in Nat /\ Roots \in Nat
         /\ pc = "memory" => at =< Memories(req)
         /\ pc # "memory" => at > Memories(req) /\ Root \in 1 .. Roots
<1>1. req \in Requests /\ at \in Nat /\ at > 0
  BY DEF KeepInv, LookOK, Running, AtPackages, AtPackage
<1>2. Memories(req) \in Nat /\ Roots \in Nat
  BY <1>1, MemoriesNat
<1>. QED BY <1>1, <1>2 DEF KeepInv, LookOK, Running, AtPackages, AtPackage, Root

-----------------------------------------------------------------------------
(***************************************************************************)
(* The steps of such a lookup.                                             *)
(***************************************************************************)

\* What looking afresh gives at a package in memory, and at a directory.
LEMMA FreshInMemory ==
  ASSUME KeepInv, pc = "memory"
  PROVE  /\ at \in 1 .. Len(req.memory) /\ req \in Requests
         /\ Fresh(disk, req, at) = IF req.memory[at].bytes.ok
                                   THEN SearchPackage(req.memory[at].bytes, req) ELSE Fault
<1>1. pc \in Running
  BY DEF Running
<1>2. at =< Memories(req) /\ at \in Nat /\ at > 0 /\ req \in Requests /\ Memories(req) \in Nat
  BY <1>1, AtSource
<1>3. Memories(req) = Len(req.memory)
  BY <1>2 DEF Memories
<1>. QED BY <1>2, <1>3 DEF Fresh

LEMMA FreshAtRoot ==
  ASSUME KeepInv, pc \in Running, pc # "memory"
  PROVE  Fresh(disk, req, at) =
           LET root == disk[Root]
               loose == LooseFile(root, req.name)
           IN  IF root.state = "missing" THEN None
               ELSE IF root.state = "faulty" THEN Fault
               ELSE IF root.loose[req.name].exact = "outside" THEN [tag |-> "refused"]
               ELSE IF loose.tag = "found" \/ (loose.tag = "fault" /\ req.policy = "Strict") THEN loose
               ELSE FreshPackage(root, req)
<1>1. ~(at =< Memories(req))
  BY AtSource
<1>. QED BY <1>1 DEF Fresh, Root

LEMMA MemoryFresh == FreshInv /\ Memory => MemoryCurrent' /\ Abreast'
<1>. SUFFICES ASSUME FreshInv, Memory PROVE MemoryCurrent' /\ Abreast'
  OBVIOUS
<1>. DEFINE m == req.memory[at]
            key == MemoryKey(m)
            bytes == IF key \in DOMAIN memCache THEN memCache[key] ELSE m.bytes
<1>1. pc = "memory" /\ pc \in Running /\ KeepInv /\ (still => PassedOver) /\ UNCHANGED <<disk, still>>
  BY DEF FreshInv, Memory, outside, Running, Abreast
<1>2. at \in 1 .. Len(req.memory) /\ req \in Requests
  BY <1>1, FreshInMemory
<1>3. bytes = m.bytes
  BY <1>2 DEF FreshInv, MemoryCurrent
<1>4. /\ Fresh(disk, req, at) = IF bytes.ok THEN SearchPackage(bytes, req) ELSE Fault
      /\ at =< Memories(req) + Roots
  BY <1>1, <1>3, FreshInMemory, AtSource
<1>5. Abreast'
  <2>1. CASE ~bytes.ok
    <3>1. Settle(Fault, "memory", NextSource)
      BY <2>1 DEF Memory
    <3>2. Fault.tag = "fault"
      BY DEF Fault
    <3>3. Fresh(disk, req, at) = Fault
      BY <2>1, <1>4
    <3>. QED BY <3>1, <3>2, <3>3, <1>1, <1>4, SettlesThere
  <2>2. CASE bytes.ok
    <3>1. Settle(SearchPackage(bytes, req), "memory", NextSource)
      BY <2>2 DEF Memory
    <3>2. SearchPackage(bytes, req).tag \in {"none", "fault", "found"}
      BY PackageGives
    <3>3. Fresh(disk, req, at) = SearchPackage(bytes, req)
      BY <2>2, <1>4
    <3>. HIDE DEF bytes
    <3>. QED BY <3>1, <3>2, <3>3, <1>1, <1>4, SettlesThere
  <2>. QED BY <2>1, <2>2
<1>6. MemoryCurrent'
  <2>1. CASE memCache' = memCache
    BY <2>1 DEF FreshInv, MemoryCurrent
  <2>2. CASE memCache' = [k \in DOMAIN memCache \cup {key} |-> IF k = key THEN bytes ELSE memCache[k]]
    <3>. SUFFICES ASSUME NEW q \in Requests, NEW i \in 1 .. Len(q.memory),
                         MemoryKey(q.memory[i]) \in DOMAIN memCache'
                  PROVE  memCache'[MemoryKey(q.memory[i])] = q.memory[i].bytes
      BY DEF MemoryCurrent
    <3>1. MemoryKey(q.memory[i]) = key => q.memory[i].bytes = bytes
      BY <1>2, <1>3, RequestsAssumption
    <3>2. MemoryKey(q.memory[i]) # key =>
            MemoryKey(q.memory[i]) \in DOMAIN memCache /\ memCache[MemoryKey(q.memory[i])] = q.memory[i].bytes
      BY <2>2 DEF FreshInv, MemoryCurrent
    <3>. HIDE DEF key, bytes
    <3>. QED BY <2>2, <3>1, <3>2
  <2>. QED BY <2>1, <2>2 DEF Memory
<1>. QED BY <1>5, <1>6

\* A lookup that goes on within a directory.
LEMMA StaysAbreast ==
  ASSUME still => PassedOver, UNCHANGED <<disk, still, req, at, result>>, pc' \in AtPackages,
         still => Fresh(disk, req, at) = FreshPackage(disk[Root], req),
         still /\ pc' \in {"list", "listed"} => reg'.dirTime = disk[Root].mtime,
         still /\ pc' \in AtPackage => disk[Root].listing = "open" /\ reg'.path = FirstOf(Held(disk[Root])),
         still /\ pc' \in {"size", "read", "store"} =>
           disk[Root].files[reg'.path].held /\ disk[Root].files[reg'.path].mtime = reg'.mtime
  PROVE  Abreast'
<1>1. Root' = Root /\ PackageFile' = disk[Root].files[reg'.path]
  BY DEF Root, PackageFile
<1>2. PassedOver' <=> PassedOver
  BY DEF PassedOver
<1>3. Answered'
  BY DEF Answered, AtPackages, AtPackage
<1>. QED BY <1>1, <1>2, <1>3 DEF Abreast

LEMMA LooseFresh == FreshInv /\ Loose => Abreast'
<1>. SUFFICES ASSUME FreshInv, Loose PROVE Abreast'
  OBVIOUS
<1>. DEFINE root == disk[Root]
            loose == LooseFile(root, req.name)
            packages == pc' = "dir" /\ UNCHANGED <<req, at, reg, result>>
<1>1. /\ pc = "loose" /\ pc \in Running /\ KeepInv /\ (still => PassedOver) /\ UNCHANGED <<disk, still>>
      /\ at =< Memories(req) + Roots
  BY AtSource DEF FreshInv, Loose, outside, Running, Abreast
<1>2. loose.tag \in {"none", "fault", "found"}
  BY DEF LooseFile, None, Fault, Found
<1>3. CASE root.state = "missing"
  <2>1. Fresh(disk, req, at) = None
    BY <1>1, <1>3, FreshAtRoot
  <2>2. ~Decides(req, None)
    BY DEF Decides, None
  <2>. QED BY <2>1, <2>2, <1>1, <1>3, PassesOver DEF Loose
<1>4. CASE root.state = "faulty"
  <2>1. Fresh(disk, req, at) = Fault
    BY <1>1, <1>4, FreshAtRoot
  <2>2. Settle(Fault, "root", NextSource)
    BY <1>4 DEF Loose
  <2>3. Fault.tag = "fault"
    BY DEF Fault
  <2>. QED BY <2>1, <2>2, <2>3, <1>1, SettlesThere
<1>5. CASE root.state \notin {"missing", "faulty"} /\ root.loose[req.name].exact = "outside"
  <2>. DEFINE r == [tag |-> "refused"]
  <2>1. Fresh(disk, req, at) = r
    BY <1>1, <1>5, FreshAtRoot
  <2>2. Finish(r)
    BY <1>5 DEF Loose
  <2>3. Decides(req, r) /\ Gives(r, r)
    BY DEF Decides, Gives
  <2>. HIDE DEF r
  <2>. QED BY <2>1, <2>2, <2>3, <1>1, EndsThere
<1>6. CASE root.state \notin {"missing", "faulty"} /\ root.loose[req.name].exact # "outside"
  <2>1. Settle(loose, "loose", IF UsesPackages(req) THEN packages ELSE NextSource)
    BY <1>6 DEF Loose
  <2>2. Fresh(disk, req, at) = IF Ends(loose) THEN loose ELSE FreshPackage(root, req)
    BY <1>1, <1>6, FreshAtRoot DEF Ends
  <2>3. CASE Ends(loose)
    <3>1. Settle(loose, "loose", NextSource)
      BY <2>1, <2>3 DEF Settle
    <3>2. Fresh(disk, req, at) = loose
      BY <2>2, <2>3
    <3>. HIDE DEF loose
    <3>. QED BY <3>1, <3>2, <1>1, <1>2, SettlesThere
  <2>4. CASE ~Ends(loose) /\ UsesPackages(req)
    <3>1. packages
      BY <2>1, <2>4 DEF Settle
    <3>. QED BY <3>1, <2>2, <2>4, <1>1, StaysAbreast DEF AtPackages, AtPackage
  <2>5. CASE ~Ends(loose) /\ ~UsesPackages(req)
    <3>1. NextSource
      BY <2>1, <2>5 DEF Settle
    <3>2. Fresh(disk, req, at) = None
      BY <2>2, <2>5 DEF FreshPackage
    <3>3. ~Decides(req, None)
      BY DEF Decides, None
    <3>. QED BY <3>1, <3>2, <3>3, <1>1, PassesOver
  <2>. QED BY <2>3, <2>4, <2>5
<1>. QED BY <1>3, <1>4, <1>5, <1>6

\* A directory whose package is known.
LEMMA HasPackageFresh ==
  ASSUME FreshInv, pc \in {"dir", "listed"}, NEW p, HasPackage(p), UNCHANGED <<disk, still>>,
         still => disk[Root].listing = "open" /\ p = FirstOf(Held(disk[Root]))
  PROVE  Abreast'
<1>1. /\ pc \in Running /\ KeepInv /\ (still => PassedOver)
      /\ still => Fresh(disk, req, at) = FreshPackage(disk[Root], req)
  BY DEF FreshInv, Running, AtPackages, Abreast
<1>2. CASE p = 0
  <2>1. NextSource
    BY <1>2 DEF HasPackage
  <2>2. still => Fresh(disk, req, at) = None
    BY <1>1, <1>2 DEF FreshPackage
  <2>3. ~Decides(req, None)
    BY DEF Decides, None
  <2>. QED BY <2>1, <2>2, <2>3, <1>1, PassesOver
<1>3. CASE p # 0
  <2>1. pc' = "mtime" /\ reg' = [reg EXCEPT !.path = p] /\ UNCHANGED <<req, at, result>>
    BY <1>3 DEF HasPackage
  <2>2. reg'.path = p
    BY <2>1 DEF FreshInv, KeepInv, LookOK, Register
  <2>. QED BY <2>1, <2>2, <1>1, StaysAbreast DEF AtPackages, AtPackage
<1>. QED BY <1>2, <1>3

LEMMA DirTimeFresh == FreshInv /\ DirTime => Abreast'
<1>. SUFFICES ASSUME FreshInv, DirTime PROVE Abreast'
  OBVIOUS
<1>1. /\ pc = "dir" /\ pc \in Running /\ KeepInv /\ (still => PassedOver) /\ UNCHANGED <<disk, still>>
      /\ still => Fresh(disk, req, at) = FreshPackage(disk[Root], req)
  BY DEF FreshInv, DirTime, outside, Running, AtPackages, Abreast
<1>2. Root \in 1 .. Roots
  BY <1>1, AtSource
<1>3. CASE dirCache[Root].held /\ dirCache[Root].mtime = disk[Root].mtime
  <2>1. HasPackage(dirCache[Root].path)
    BY <1>3 DEF DirTime
  <2>2. disk[Root].listing = "open" /\ dirCache[Root].path = FirstOf(Held(disk[Root]))
    BY <1>2, <1>3 DEF FreshInv, DirCurrent, SameTimeSameListing
  <2>. QED BY <2>1, <2>2, <1>1, HasPackageFresh
<1>4. CASE ~(dirCache[Root].held /\ dirCache[Root].mtime = disk[Root].mtime)
  <2>1. /\ pc' = "list" /\ reg' = [reg EXCEPT !.dirTime = disk[Root].mtime]
        /\ UNCHANGED <<req, at, result>>
    BY <1>4 DEF DirTime
  <2>2. reg'.dirTime = disk[Root].mtime
    BY <2>1 DEF FreshInv, KeepInv, LookOK, Register
  <2>. QED BY <2>1, <2>2, <1>1, StaysAbreast DEF AtPackages, AtPackage
<1>. QED BY <1>3, <1>4

LEMMA ListFresh == FreshInv /\ List => Abreast' /\ DirCurrent'
<1>. SUFFICES ASSUME FreshInv, List PROVE Abreast' /\ DirCurrent'
  OBVIOUS
<1>1. /\ pc = "list" /\ pc \in Running /\ KeepInv /\ (still => PassedOver) /\ UNCHANGED <<disk, still, dirCache>>
      /\ still => /\ Fresh(disk, req, at) = FreshPackage(disk[Root], req)
                  /\ reg.dirTime = disk[Root].mtime
  BY DEF FreshInv, List, outside, caches, Running, AtPackages, Abreast
<1>2. Root \in 1 .. Roots /\ UsesPackages(req) /\ at =< Memories(req) + Roots
  BY <1>1, AtSource DEF KeepInv, LookOK, AtPackages
<1>3. CASE disk[Root].listing = "breaks"
  <2>1. Settle(Fault, "root", NextSource)
    BY <1>3 DEF List
  <2>2. still => Fresh(disk, req, at) = Fault
    BY <1>1, <1>2, <1>3 DEF FreshPackage
  <2>3. Fault.tag = "fault"
    BY DEF Fault
  <2>4. Abreast'
    BY <2>1, <2>2, <2>3, <1>1, <1>2, SettlesThere
  <2>5. pc' \in {"memory", "loose", "done"}
    BY <2>1, <1>1, SettleMoves, MovesLook DEF Fault, KeepInv, List, outside
  <2>. QED BY <2>4, <2>5, <1>1 DEF FreshInv, DirCurrent
<1>4. CASE disk[Root].listing = "open"
  <2>1. PICK ps \in Listing(disk[Root]) :
          /\ pc' = "listed" /\ reg' = [reg EXCEPT !.path = FirstOf(ps)]
          /\ UNCHANGED <<req, at, result>>
    BY <1>4 DEF List
  <2>2. ps = Held(disk[Root])
    BY <2>1, <1>4 DEF Listing
  <2>3. reg'.path = FirstOf(Held(disk[Root])) /\ reg'.dirTime = reg.dirTime
    BY <2>1, <2>2 DEF FreshInv, KeepInv, LookOK, Register
  <2>4. Root' = Root
    BY <2>1 DEF Root
  <2>5. DirCurrent'
    BY <2>1, <2>3, <2>4, <1>1, <1>4 DEF FreshInv, DirCurrent, SameTimeSameListing
  <2>6. Abreast'
    BY <2>1, <2>3, <1>1, StaysAbreast DEF AtPackages, AtPackage
  <2>. QED BY <2>5, <2>6
<1>. QED BY <1>2, <1>3, <1>4 DEF FreshInv, DirCurrent

LEMMA ListedFresh == FreshInv /\ Listed => Abreast' /\ DirCurrent'
<1>. SUFFICES ASSUME FreshInv, Listed PROVE Abreast' /\ DirCurrent'
  OBVIOUS
<1>1. /\ pc = "listed" /\ pc \in Running /\ KeepInv /\ UNCHANGED <<disk, still>> /\ HasPackage(reg.path)
      /\ still => reg.dirTime = disk[Root].mtime
      /\ SameTimeSameListing(reg.dirTime, reg.path, disk[Root])
  BY DEF FreshInv, Listed, outside, Running, AtPackages, Abreast, DirCurrent
<1>2. Root \in 1 .. Roots
  BY <1>1, AtSource
<1>3. Abreast'
  BY <1>1, HasPackageFresh DEF SameTimeSameListing
<1>4. pc' # "listed"
  <2>1. at \in Nat /\ req \in Requests
    BY <1>1, AtSource
  <2>. QED BY <1>1 DEF HasPackage, NextSource, StepAt
<1>5. DirCurrent'
  <2>. DEFINE e == [held |-> TRUE, mtime |-> reg.dirTime, path |-> reg.path]
  <2>1. dirCache' = dirCache \/ dirCache' = [dirCache EXCEPT ![Root] = e]
    BY DEF Listed
  <2>2. SameTimeSameListing(e.mtime, e.path, disk[Root])
    BY <1>1
  <2>3. dirCache \in [1 .. Roots -> DirEntries]
    BY DEF FreshInv, KeepInv, KeptOK
  <2>. HIDE DEF e
  <2>. QED BY <2>1, <2>2, <2>3, <1>1, <1>2, <1>4 DEF FreshInv, DirCurrent
<1>. QED BY <1>3, <1>5

\* The first package of a directory nobody wrote to is still there.
LEMMA StillHeld ==
  ASSUME KeepInv, pc \in AtPackage, still => reg.path = FirstOf(Held(disk[Root]))
  PROVE  still => PackageFile.held
<1>1. reg.path \in Files
  BY DEF KeepInv, LookOK, AtPackage
<1>2. reg.path # 0 /\ Held(disk[Root]) \subseteq Files
  BY <1>1, FilesAreNumbers DEF Held
<1>3. still => reg.path \in Held(disk[Root])
  BY <1>2, FirstIsHeld
<1>. QED BY <1>3 DEF Held, PackageFile

LEMMA PackageTimeFresh == FreshInv /\ PackageTime => Abreast'
<1>. SUFFICES ASSUME FreshInv, PackageTime PROVE Abreast'
  OBVIOUS
<1>1. /\ pc = "mtime" /\ pc \in AtPackage /\ pc \in Running /\ KeepInv /\ (still => PassedOver)
      /\ UNCHANGED <<disk, still>>
      /\ still => /\ Fresh(disk, req, at) = FreshPackage(disk[Root], req)
                  /\ disk[Root].listing = "open" /\ reg.path = FirstOf(Held(disk[Root]))
  BY DEF FreshInv, PackageTime, outside, Running, AtPackages, AtPackage, Abreast
<1>2. still => PackageFile.held
  BY <1>1, StillHeld
<1>3. CASE PackageFile.held
  <2>1. /\ pc' = "size" /\ reg' = [reg EXCEPT !.mtime = PackageFile.mtime]
        /\ UNCHANGED <<req, at, result>>
    BY <1>3 DEF PackageTime
  <2>2. reg'.path = reg.path /\ reg'.mtime = PackageFile.mtime
    BY <2>1 DEF FreshInv, KeepInv, LookOK, Register
  <2>3. disk[Root].files[reg'.path] = PackageFile
    BY <2>2 DEF PackageFile
  <2>. QED BY <2>1, <2>2, <2>3, <1>1, <1>3, StaysAbreast DEF AtPackages, AtPackage
<1>4. CASE ~PackageFile.held
  BY <1>1, <1>2, <1>4 DEF Abreast
<1>. QED BY <1>3, <1>4

\* What a package file that is still what the lookup met gives.
LEMMA OpensAbreast ==
  ASSUME KeepInv, still => PassedOver, pc \in AtPackage, NEW bytes, OpenPackage(bytes),
         UNCHANGED <<disk, still>>,
         still => /\ Fresh(disk, req, at) = FreshPackage(disk[Root], req)
                  /\ disk[Root].listing = "open" /\ reg.path = FirstOf(Held(disk[Root]))
                  /\ bytes = PackageFile.bytes
  PROVE  Abreast'
<1>. DEFINE o == IF bytes.ok THEN SearchPackage(bytes, req) ELSE Fault
<1>1. pc \in Running /\ reg.path \in Files /\ UsesPackages(req) /\ at =< Memories(req) + Roots
  <2>1. pc \in Running
    BY DEF Running, AtPackages
  <2>. QED BY <2>1, AtSource DEF KeepInv, LookOK, AtPackages
<1>2. reg.path # 0
  BY <1>1, FilesAreNumbers
<1>3. still => Fresh(disk, req, at) = o
  BY <1>1, <1>2 DEF FreshPackage, PackageFile
<1>4. o.tag \in {"none", "fault", "found"}
  BY PackageGives DEF Fault
<1>5. Settle(o, "package", NextSource)
  BY DEF OpenPackage
<1>. HIDE DEF o
<1>. QED BY <1>1, <1>3, <1>4, <1>5, SettlesThere

LEMMA PackageSizeFresh == FreshInv /\ PackageSize => Abreast'
<1>. SUFFICES ASSUME FreshInv, PackageSize PROVE Abreast'
  OBVIOUS
<1>. DEFINE entry == diskCache[<<Root, reg.path>>]
<1>1. /\ pc = "size" /\ pc \in AtPackage /\ pc \in Running /\ KeepInv /\ (still => PassedOver)
      /\ UNCHANGED <<disk, still>>
      /\ still => /\ Fresh(disk, req, at) = FreshPackage(disk[Root], req)
                  /\ disk[Root].listing = "open" /\ reg.path = FirstOf(Held(disk[Root]))
                  /\ PackageFile.held /\ PackageFile.mtime = reg.mtime
  BY DEF FreshInv, PackageSize, outside, Running, AtPackages, AtPackage, Abreast
<1>2. Root \in 1 .. Roots /\ reg.path \in Files
  BY <1>1, FileThere
<1>3. CASE PackageFile.held /\ IsCached(entry, reg.mtime, PackageFile.bytes.size)
  <2>1. OpenPackage(entry.bytes)
    BY <1>3 DEF PackageSize
  <2>2. SameTimeSameBytes(entry, PackageFile)
    BY <1>1, <1>2 DEF KeepInv, KeptOK, PackageFile
  <2>3. still => entry.bytes = PackageFile.bytes
    BY <2>2, <1>1, <1>3 DEF SameTimeSameBytes, IsCached
  <2>. HIDE DEF entry
  <2>. QED BY <2>1, <2>3, <1>1, OpensAbreast
<1>4. CASE PackageFile.held /\ ~IsCached(entry, reg.mtime, PackageFile.bytes.size)
  <2>1. /\ pc' = "read" /\ reg' = [reg EXCEPT !.size = PackageFile.bytes.size]
        /\ UNCHANGED <<req, at, result>>
    BY <1>4 DEF PackageSize
  <2>2. reg'.path = reg.path /\ reg'.mtime = reg.mtime
    BY <2>1 DEF FreshInv, KeepInv, LookOK, Register
  <2>3. disk[Root].files[reg'.path] = PackageFile
    BY <2>2 DEF PackageFile
  <2>. QED BY <2>1, <2>2, <2>3, <1>1, <1>4, StaysAbreast DEF AtPackages, AtPackage
<1>5. CASE ~PackageFile.held
  BY <1>1, <1>5 DEF Abreast
<1>. QED BY <1>3, <1>4, <1>5

LEMMA ReadPackageFresh == FreshInv /\ ReadPackage => Abreast'
<1>. SUFFICES ASSUME FreshInv, ReadPackage PROVE Abreast'
  OBVIOUS
<1>1. /\ pc = "read" /\ pc \in Running /\ KeepInv /\ (still => PassedOver) /\ UNCHANGED <<disk, still>>
      /\ still => /\ Fresh(disk, req, at) = FreshPackage(disk[Root], req)
                  /\ disk[Root].listing = "open" /\ reg.path = FirstOf(Held(disk[Root]))
                  /\ PackageFile.held /\ PackageFile.mtime = reg.mtime
  BY DEF FreshInv, ReadPackage, outside, Running, AtPackages, AtPackage, Abreast
<1>2. CASE PackageFile.held
  <2>1. pc' = "store" /\ reg' = [reg EXCEPT !.bytes = PackageFile] /\ UNCHANGED <<req, at, result>>
    BY <1>2 DEF ReadPackage
  <2>2. reg'.path = reg.path /\ reg'.mtime = reg.mtime
    BY <2>1 DEF FreshInv, KeepInv, LookOK, Register
  <2>3. disk[Root].files[reg'.path] = PackageFile
    BY <2>2 DEF PackageFile
  <2>. QED BY <2>1, <2>2, <2>3, <1>1, <1>2, StaysAbreast DEF AtPackages, AtPackage
<1>3. CASE ~PackageFile.held
  BY <1>1, <1>3 DEF Abreast
<1>. QED BY <1>2, <1>3

LEMMA StorePackageFresh == FreshInv /\ StorePackage => Abreast'
<1>. SUFFICES ASSUME FreshInv, StorePackage PROVE Abreast'
  OBVIOUS
<1>1. /\ pc = "store" /\ pc \in AtPackage /\ KeepInv /\ (still => PassedOver) /\ UNCHANGED <<disk, still>>
      /\ still => /\ Fresh(disk, req, at) = FreshPackage(disk[Root], req)
                  /\ disk[Root].listing = "open" /\ reg.path = FirstOf(Held(disk[Root]))
                  /\ PackageFile.held /\ PackageFile.mtime = reg.mtime
  BY DEF FreshInv, StorePackage, outside, Running, AtPackages, AtPackage, Abreast
<1>2. still => reg.bytes.bytes = PackageFile.bytes
  BY <1>1 DEF KeepInv, LookOK
<1>3. OpenPackage(reg.bytes.bytes)
  BY DEF StorePackage
<1>. QED BY <1>1, <1>2, <1>3, OpensAbreast

-----------------------------------------------------------------------------
LEMMA RequestFresh == FreshInv /\ Request => Abreast'
<1>. SUFFICES ASSUME FreshInv, Request PROVE Abreast'
  OBVIOUS
<1>1. PICK q \in Requests :
        /\ req' = q /\ at' = 1
        /\ IF q.name = "unsafe" THEN pc' = "done" /\ result' = [tag |-> "refused"]
           ELSE pc' = StepAt(q, 1) /\ result' = None
  BY DEF Request
<1>2. Memories(q) \in Nat /\ Roots \in Nat
  BY MemoriesNat
<1>3. pc' \in {"memory", "loose", "done"}
  BY <1>1 DEF StepAt
<1>4. PassedOver'
  BY <1>1 DEF PassedOver
<1>5. Answered'
  <2>1. CASE q.name = "unsafe"
    BY <2>1, <1>1 DEF Answered
  <2>2. CASE q.name # "unsafe" /\ pc' = "done"
    <3>1. Memories(q) + Roots < 1 /\ result' = None
      BY <2>2, <1>1, <1>2 DEF StepAt
    <3>2. Deciding(disk', q) = {}
      BY <3>1, <1>2 DEF Deciding
    <3>. QED BY <3>1, <3>2, <1>1 DEF Answered
  <2>3. CASE pc' # "done"
    BY <2>3 DEF Answered
  <2>. QED BY <2>1, <2>2, <2>3
<1>. QED BY <1>3, <1>4, <1>5 DEF Abreast, AtPackages, AtPackage

LEMMA ClearFresh == FreshInv /\ ClearStfsCache => DirCurrent' /\ MemoryCurrent' /\ Abreast'
<1>. SUFFICES ASSUME FreshInv, ClearStfsCache PROVE DirCurrent' /\ MemoryCurrent' /\ Abreast'
  OBVIOUS
<1>1. /\ pc \in {"idle", "done"} /\ UNCHANGED <<disk, still, pc, req, at, reg, result>>
      /\ dirCache' = [r \in 1 .. Roots |-> NoEntry] /\ memCache' = <<>>
  BY DEF ClearStfsCache, outside, lookup
<1>2. ~NoEntry.held
  BY DEF NoEntry
<1>3. DirCurrent'
  BY <1>1, <1>2 DEF FreshInv, DirCurrent
<1>4. MemoryCurrent'
  BY <1>1 DEF MemoryCurrent
<1>5. Abreast'
  BY <1>1 DEF FreshInv, Abreast, Answered, Running, AtPackages, AtPackage
<1>. QED BY <1>3, <1>4, <1>5

\* A write that leaves a directory its time leaves it the packages it has.
LEMMA WriterFresh == FreshInv /\ (WriterWrites \/ WriterRemoves) => DirCurrent' /\ MemoryCurrent' /\ Abreast'
<1>. SUFFICES ASSUME FreshInv, WriterWrites \/ WriterRemoves
              PROVE  DirCurrent' /\ MemoryCurrent' /\ Abreast'
  OBVIOUS
<1>1. clock' = clock + 1 /\ clock \in Nat /\ DiskOK
  BY DEF FreshInv, KeepInv, DiskOK, WriterWrites, WriterRemoves
<1>2. \E r \in 1 .. Roots, p \in Files, file \in FileStates : Written(r, p, file)
  <2>1. CASE WriterWrites
    <3>1. PICK r \in 1 .. Roots, p \in Files, bytes \in Contents : Written(r, p, File(bytes, clock'))
      BY <2>1 DEF WriterWrites
    <3>2. File(bytes, clock') \in FileStates
      BY <1>1 DEF File, FileStates, Bytes
    <3>. QED BY <3>1, <3>2
  <2>2. CASE WriterRemoves
    BY <2>2, RegisterFresh DEF WriterRemoves
  <2>. QED BY <2>1, <2>2
<1>3. PICK r \in 1 .. Roots, p \in Files, file \in FileStates : Written(r, p, file)
  BY <1>2
<1>4. ~still' /\ UNCHANGED <<dirCache, memCache, pc, req, at, reg, result>>
  BY <1>3 DEF Written, lookup, caches
<1>5. ASSUME NEW s \in 1 .. Roots
      PROVE  /\ disk'[s].listing = disk[s].listing
             /\ \/ disk'[s].mtime = disk[s].mtime /\ Held(disk'[s]) = Held(disk[s])
                \/ disk'[s].mtime = clock + 1
  <2>1. /\ disk'[s].listing = disk[s].listing
        /\ \A q \in Files : disk'[s].files[q] = IF s = r /\ q = p THEN file ELSE disk[s].files[q]
        /\ disk'[s].mtime = IF s = r /\ disk[r].files[p].held # file.held THEN clock + 1 ELSE disk[s].mtime
    BY <1>1, <1>3, DiskWritten
  <2>2. CASE s = r /\ disk[r].files[p].held # file.held
    BY <2>1, <2>2
  <2>3. CASE s # r \/ disk[r].files[p].held = file.held
    BY <2>1, <2>3 DEF Held
  <2>. QED BY <2>1, <2>2, <2>3
<1>6. ASSUME NEW s \in 1 .. Roots, NEW time \in Nat, NEW path, time =< clock,
             SameTimeSameListing(time, path, disk[s])
      PROVE  SameTimeSameListing(time, path, disk'[s])
  BY <1>1, <1>5, <1>6 DEF SameTimeSameListing
<1>7. \A s \in 1 .. Roots : dirCache[s].held => dirCache[s].mtime \in Nat /\ dirCache[s].mtime =< clock
  <2>1. ~NoEntry.held
    BY DEF NoEntry
  <2>2. \A s \in 1 .. Roots : dirCache[s].held => dirCache[s] \in [held : {TRUE}, mtime : Nat, path : Files \cup {0}]
    BY <2>1 DEF FreshInv, KeepInv, KeptOK, DirEntries
  <2>. QED BY <2>2 DEF FreshInv, KeepInv, KeptOK
<1>8. pc = "listed" => Root \in 1 .. Roots /\ reg.dirTime \in Nat /\ reg.dirTime =< clock
  BY DEF FreshInv, KeepInv, LookOK, AtPackages, Register
<1>9. Root' = Root
  BY <1>4 DEF Root
<1>10. DirCurrent'
  BY <1>4, <1>5, <1>6, <1>7, <1>8, <1>9 DEF FreshInv, DirCurrent
<1>11. MemoryCurrent'
  BY <1>4 DEF FreshInv, MemoryCurrent
<1>. QED BY <1>4, <1>10, <1>11 DEF Abreast

-----------------------------------------------------------------------------
LEMMA InitFresh == ListingsOpen /\ Init => FreshInv
<1>. SUFFICES ASSUME ListingsOpen, Init PROVE FreshInv
  OBVIOUS
<1>1. ~NoEntry.held
  BY DEF NoEntry
<1>2. DirCurrent
  BY <1>1 DEF Init, ListingsOpen, DirCurrent
<1>3. MemoryCurrent /\ Abreast
  BY DEF Init, MemoryCurrent, Abreast, Answered, Running, AtPackages, AtPackage
<1>. QED BY <1>2, <1>3, InitKeeps DEF FreshInv

\* The steps that leave the listings, and the packages in memory, as they are.
LEMMA ListingsStay ==
  ASSUME FreshInv, Request \/ Memory \/ Loose \/ DirTime \/ PackageTime \/ PackageSize \/ ReadPackage \/ StorePackage
  PROVE  DirCurrent'
<1>1. UNCHANGED <<disk, dirCache>>
  BY DEF Request, Memory, Loose, DirTime, PackageTime, PackageSize, ReadPackage, StorePackage, outside, caches
<1>2. pc' # "listed"
  <2>1. \A q, n : StepAt(q, n) # "listed"
    BY DEF StepAt
  <2>2. NextSource => pc' # "listed"
    BY <2>1 DEF NextSource
  <2>3. \A r : Finish(r) => pc' # "listed"
    BY DEF Finish
  <2>4. ASSUME NEW o, NEW from, NEW ACTION A, Settle(o, from, A), A => pc' # "listed"
        PROVE  pc' # "listed"
    BY <2>3, <2>4 DEF Settle
  <2>5. CASE Request
    BY <2>1, <2>5 DEF Request
  <2>6. CASE Memory
    BY <2>2, <2>4, <2>6 DEF Memory
  <2>7. CASE Loose
    <3>1. ASSUME NEW o, NEW packages, Settle(o, "loose", IF UsesPackages(req)
                              THEN pc' = "dir" /\ UNCHANGED <<req, at, reg, result>> ELSE NextSource)
          PROVE  pc' # "listed"
      BY <3>1, <2>2, <2>3 DEF Settle
    <3>2. Settle(Fault, "root", NextSource) => pc' # "listed"
      BY <2>2, <2>3 DEF Settle
    <3>. QED BY <3>1, <3>2, <2>2, <2>3, <2>7 DEF Loose
  <2>8. CASE DirTime
    BY <2>2, <2>8 DEF DirTime, HasPackage
  <2>9. CASE PackageTime \/ PackageSize \/ ReadPackage \/ StorePackage
    <3>1. \A o : Settle(o, "package", NextSource) => pc' # "listed"
      BY <2>2, <2>3 DEF Settle
    <3>. QED BY <3>1, <2>9 DEF PackageTime, PackageSize, ReadPackage, StorePackage, OpenPackage
  <2>. QED BY <2>5, <2>6, <2>7, <2>8, <2>9
<1>. QED BY <1>1, <1>2 DEF FreshInv, DirCurrent

LEMMA MemoryStays ==
  ASSUME FreshInv, Request \/ Loose \/ DirTime \/ List \/ Listed \/ PackageTime \/ PackageSize \/ ReadPackage
                     \/ StorePackage
  PROVE  MemoryCurrent'
<1>1. memCache' = memCache
  BY DEF Request, Loose, DirTime, List, Listed, PackageTime, PackageSize, ReadPackage, StorePackage, caches
<1>. QED BY <1>1 DEF FreshInv, MemoryCurrent

LEMMA NextFresh == FreshInv /\ [Next]_vars => FreshInv'
<1>. SUFFICES ASSUME FreshInv, [Next]_vars PROVE FreshInv'
  OBVIOUS
<1>1. KeepInv'
  BY NextKeeps DEF FreshInv
<1>2. CASE UNCHANGED vars
  <2>1. UNCHANGED <<Root, PackageFile>>
    BY <1>2 DEF vars, Root, PackageFile
  <2>2. DirCurrent' /\ MemoryCurrent'
    BY <2>1, <1>2 DEF vars, FreshInv, DirCurrent, MemoryCurrent
  <2>3. Abreast'
    BY <2>1, <1>2 DEF vars, FreshInv, Abreast, PassedOver, Answered
  <2>. QED BY <2>2, <2>3, <1>1 DEF FreshInv
<1>3. CASE ClearStfsCache \/ WriterWrites \/ WriterRemoves
  BY <1>1, <1>3, ClearFresh, WriterFresh DEF FreshInv
<1>4. CASE Memory
  BY <1>1, <1>4, MemoryFresh, ListingsStay DEF FreshInv
<1>5. CASE List \/ Listed
  BY <1>1, <1>5, ListFresh, ListedFresh, MemoryStays DEF FreshInv
<1>6. CASE Request \/ Loose \/ DirTime \/ PackageTime \/ PackageSize \/ ReadPackage \/ StorePackage
  BY <1>1, <1>6, RequestFresh, LooseFresh, DirTimeFresh, PackageTimeFresh, PackageSizeFresh,
     ReadPackageFresh, StorePackageFresh, ListingsStay, MemoryStays DEF FreshInv
<1>. QED BY <1>2, <1>3, <1>4, <1>5, <1>6 DEF Next, Lookup

(* Where every directory can be listed, a lookup during which nothing was written answers what a *)
(* fresh look at the sources gives, whatever the caches hold from earlier lookups, and one that a *)
(* writer disturbed gives no older package than it could have met (locate).                       *)
THEOREM AnswersAreFresh == ListingsOpen => (Spec => []AnswersFresh)
<1>1. FreshInv => AnswersFresh
  BY DEF FreshInv, KeepInv, Met, Abreast, Answered, AnswersFresh
<1>2. ASSUME ListingsOpen
      PROVE  Spec => []AnswersFresh
  <2>1. Init => FreshInv
    BY <1>2, InitFresh
  <2>. QED BY <2>1, <1>1, NextFresh, PTL DEF Spec
<1>. QED BY <1>2

=============================================================================
