------------------------- MODULE InputResolverProofs -------------------------
(***************************************************************************)
(* Proofs about what a command line becomes, for any requests.             *)
(***************************************************************************)
EXTENDS InputResolver, TLAPS, WellFoundedInduction, FiniteSetTheorems

-----------------------------------------------------------------------------
(***************************************************************************)
(* The first of a list.                                                    *)
(***************************************************************************)

\* A nonempty set of naturals has a least element.
LEMMA NatLeast ==
  ASSUME NEW T, T \subseteq Nat, T # {}
  PROVE  \E x \in T : \A y \in T : x =< y
<1>1. PICK x \in T : \A y \in T : <<y, x>> \notin OpToRel(<, Nat)
  BY NatLessThanWellFounded, WFMin
<1>2. \A y \in T : ~(y < x)
  BY <1>1 DEF OpToRel
<1>. QED BY <1>2

\* The minimum of a set of naturals is the least of them.
LEMMA MinIs ==
  ASSUME NEW T, T \subseteq Nat, T # {}
  PROVE  Min(T) \in T /\ \A y \in T : Min(T) =< y
<1>1. \E x \in T : \A y \in T : x =< y
  BY NatLeast
<1>2. Min(T) = CHOOSE x \in T : \A y \in T : x =< y
  BY DEF Min
<1>. QED BY <1>1, <1>2

\* What a run of checks comes to: none of them fails, or it is what one that fails says.
LEMMA FirstFailingIs ==
  ASSUME NEW checks, Len(checks) \in Nat
  PROVE  \/ FirstFailing(checks) = "none" /\ \A n \in 1 .. Len(checks) : ~checks[n].fails
         \/ \E n \in 1 .. Len(checks) : checks[n].fails /\ FirstFailing(checks) = checks[n].why
<1>. DEFINE failing == {n \in 1 .. Len(checks) : checks[n].fails}
            first == SelectInSeq(checks, LAMBDA c : c.fails)
<1>1. first = IF failing # {} THEN Min(failing) ELSE 0
  BY DEF SelectInSeq
<1>2. FirstFailing(checks) = IF first = 0 THEN "none" ELSE checks[first].why
  BY DEF FirstFailing
<1>3. CASE failing = {}
  BY <1>1, <1>2, <1>3
<1>4. CASE failing # {}
  <2>1. first \in failing
    BY <1>1, <1>4, MinIs
  <2>. HIDE DEF first
  <2>. QED BY <1>2, <2>1
<1>. QED BY <1>3, <1>4

-----------------------------------------------------------------------------
(***************************************************************************)
(* The console's data.                                                     *)
(***************************************************************************)

Stages == {"foundations", "check", "read", "console", "merge", "patches", "payloads", "validate", "done", "refused"}
MetaFields == {"cb", "cf", "pairing", "cfpairing", "kv", "smc", "mobile", "image", "type"}
ConsoleTaken == {"merge", "patches", "payloads", "validate", "done"}

BadMetadata(r) ==
  \E m \in ToSet(Metadata) :
    \/ FirstStating(r, m) = "cli" /\ r.over[m] = "bad"
    \/ FirstStating(r, m) = "file" /\ r.file[m] = "bad"

TookConsole(taken, r) ==
  /\ \A m \in ToSet(Metadata) : taken[m] = FirstStating(r, m)
  /\ taken.cfpairing = "donor" => taken.pairing = "donor"
  /\ taken.kv = "roots" \/ (r.kv = "absent" /\ HasDonor(r))
  /\ taken.mobile = "donor" => r.mobile # "found" /\ HasDonor(r)

ConsoleInv ==
  /\ stage \in Stages /\ DOMAIN meta = MetaFields
  /\ request.kv \in {"absent", "found", "unreadable", "refused"}
  /\ stage \notin {"foundations", "refused"} /\ meta.image =>
       HasDonor(request) /\ meta.type = request.donor.type
  /\ stage \in ConsoleTaken => TookConsole(meta, request)
  /\ why = "BadMetadata" => BadMetadata(request)

\* The metadata.
LEMMA MetadataIs == ToSet(Metadata) = {"cb", "cf", "pairing"}
  BY DEF ToSet, Metadata

\* The winner of apply_winning_metadata is the first of the sources to state the value.
LEMMA WinnerIsFirst ==
  ASSUME NEW r, NEW m \in ToSet(Metadata)
  PROVE  Winner(r, m) = FirstStating(r, m)
<1>. DEFINE sources == <<"cli", "donor", "file">>
            stating == {n \in 1 .. Len(sources) : States(r, sources[n], m)}
            first == SelectInSeq(sources, LAMBDA s : States(r, s, m))
<1>1. first = IF stating # {} THEN Min(stating) ELSE 0
  BY DEF SelectInSeq
<1>2. FirstStating(r, m) = IF first = 0 THEN "none" ELSE sources[first]
  BY DEF FirstStating
<1>3. /\ States(r, "cli", m) <=> r.over[m] # "absent"
      /\ States(r, "donor", m) <=> DonorStates(r, m)
      /\ States(r, "file", m) <=> r.file[m] # "absent"
  BY DEF States, DonorStates
<1>4. stating = {n \in 1 .. 3 : \/ n = 1 /\ r.over[m] # "absent"
                                \/ n = 2 /\ DonorStates(r, m)
                                \/ n = 3 /\ r.file[m] # "absent"}
  BY <1>3
<1>5. CASE stating = {}
  BY <1>1, <1>2, <1>4, <1>5 DEF Winner
<1>6. CASE stating # {}
  <2>0. stating \subseteq Nat
    OBVIOUS
  <2>1. first \in stating /\ \A n \in stating : first =< n
    <3>. HIDE DEF first, stating
    <3>. QED BY <1>1, <1>6, <2>0, MinIs
  <2>. HIDE DEF first
  <2>. QED BY <1>2, <1>4, <2>1 DEF Winner
<1>. QED BY <1>5, <1>6

\* Nothing is taken from anywhere at first.
LEMMA ConsoleInit == Init => ConsoleInv
<1>. SUFFICES ASSUME Init PROVE ConsoleInv
  OBVIOUS
<1>1. IsRequest(request)
  BY RequestsAssumption DEF Init
<1>2. DOMAIN meta = MetaFields
  BY DEF Init, MetaFields
<1>. QED BY <1>1, <1>2 DEF Init, ConsoleInv, IsRequest, Stages, ConsoleTaken

\* A pass that does not find the metadata bad, and leaves the console's data as it is or has
\* nothing of it yet, keeps the invariant.
LEMMA OtherPass ==
  ASSUME ConsoleInv, NEW from, NEW to, NEW checks, Len(checks) \in Nat,
         \A n \in 1 .. Len(checks) : checks[n].why # "BadMetadata",
         Pass(from, checks, to), UNCHANGED <<request, meta>>,
         <<from, to>> \in {<<"check", "read">>, <<"read", "console">>, <<"merge", "patches">>,
                          <<"patches", "payloads">>, <<"payloads", "validate">>, <<"validate", "done">>}
  PROVE  ConsoleInv'
<1>1. why' # "BadMetadata"
  BY FirstFailingIs DEF Pass
<1>2. stage = from /\ stage' \in {to, "refused"}
  BY DEF Pass
<1>3. stage' \in Stages /\ (stage' \in ConsoleTaken => stage \in ConsoleTaken) /\ stage \notin {"foundations", "refused"}
  BY <1>2 DEF Stages, ConsoleTaken
<1>4. request' = request /\ meta' = meta
  OBVIOUS
<1>. QED BY <1>1, <1>3, <1>4 DEF ConsoleInv

\* The foundations say whose image is kept.
LEMMA FoundationsKeep == ConsoleInv /\ ResolveFoundations => ConsoleInv'
<1>. SUFFICES ASSUME ConsoleInv, ResolveFoundations PROVE ConsoleInv'
  OBVIOUS
<1>1. Len(Foundations(request)) = 8 /\ \A n \in 1 .. 8 : Foundations(request)[n].why # "BadMetadata"
  BY DEF Foundations, Fault, OptionsFile, OptionsText, CliOptions
<1>2. why' # "BadMetadata" /\ stage' \in {"check", "refused"} /\ request' = request
  BY <1>1, FirstFailingIs DEF ResolveFoundations, Pass
<1>3. DOMAIN meta' = DOMAIN meta /\ {"image", "type"} \subseteq DOMAIN meta
  BY DEF ResolveFoundations, ConsoleInv, MetaFields
<1>4. /\ meta'.image = KeepsImage(request)
      /\ meta'.type = IF request.type = "absent" /\ HasDonor(request) THEN request.donor.type ELSE request.type
  BY <1>3 DEF ResolveFoundations
<1>5. meta'.image => HasDonor(request) /\ meta'.type = request.donor.type
  BY <1>4 DEF KeepsImage
<1>6. HasDonor(request)' = HasDonor(request)
  BY <1>2 DEF HasDonor, Chosen
<1>. QED BY <1>2, <1>3, <1>5, <1>6 DEF ConsoleInv, Stages, ConsoleTaken

\* The console is taken from the first of its sources.
LEMMA ConsoleKeep == ConsoleInv /\ TakeConsole => ConsoleInv'
<1>. SUFFICES ASSUME ConsoleInv, TakeConsole PROVE ConsoleInv'
  OBVIOUS
<1>. DEFINE r == request
            rest == << [fails |-> "unreadable" \in {r.kv, r.smc}, why |-> "AssetNotFound"],
               [fails |-> ~HasDonor(r) /\ "absent" \in {r.kv, r.smc}, why |-> "IncompleteLooseDonor"],
               [fails |-> ~HasDonor(r) /\ \E m \in ToSet(Metadata) : Winner(r, m) = "none",
                why |-> "IncompleteLooseDonor"],
               [fails |-> r.kv = "refused" \/ (r.kv = "absent" /\ ~r.donor.kv), why |-> "InvalidInput"],
               [fails |-> r.mobile = "unreadable", why |-> "AssetNotFound"] >>
            firsts == [n \in DOMAIN Metadata |-> [fails |-> Malformed(r, Metadata[n]), why |-> "BadMetadata"]]
            Check == [fails : BOOLEAN, why : STRING]
<1>1. firsts = << [fails |-> Malformed(r, "cb"), why |-> "BadMetadata"],
                  [fails |-> Malformed(r, "cf"), why |-> "BadMetadata"],
                  [fails |-> Malformed(r, "pairing"), why |-> "BadMetadata"] >>
  BY DEF Metadata
<1>2. Console(r) = firsts \o rest
  BY DEF Console
<1>3. /\ Len(Console(r)) = 8
      /\ \A n \in 1 .. 3 : Console(r)[n] = firsts[n]
      /\ \A n \in 1 .. 5 : Console(r)[n + 3] = rest[n]
  BY <1>1, <1>2
<1>4. \A n \in 1 .. 3 : firsts[n].fails <=> Malformed(r, Metadata[n])
  BY DEF Metadata
<1>5. /\ why' = FirstFailing(Console(r))
      /\ stage' = IF why' = "none" THEN "merge" ELSE "refused"
      /\ request' = request
  BY DEF TakeConsole, Pass
<1>12. \/ why' = "none" /\ \A n \in 1 .. 8 : ~Console(r)[n].fails
       \/ \E n \in 1 .. 8 : Console(r)[n].fails /\ why' = Console(r)[n].why
  <2>1. Len(Console(r)) = 8 /\ 8 \in Nat
    BY <1>3
  <2>. DEFINE checks == Console(r)
  <2>2. Len(checks) = 8 /\ Len(checks) \in Nat /\ why' = FirstFailing(checks)
    BY <2>1, <1>5
  <2>. HIDE DEF checks
  <2>3. \/ FirstFailing(checks) = "none" /\ \A n \in 1 .. Len(checks) : ~checks[n].fails
        \/ \E n \in 1 .. Len(checks) : checks[n].fails /\ FirstFailing(checks) = checks[n].why
    BY <2>2, FirstFailingIs, Zenon
  <2>. QED BY <2>2, <2>3 DEF checks
<1>6. why' = "BadMetadata" => BadMetadata(request)
  <2>. SUFFICES ASSUME why' = "BadMetadata" PROVE BadMetadata(request)
    OBVIOUS
  <2>1. PICK n \in 1 .. 8 : Console(r)[n].fails /\ Console(r)[n].why = "BadMetadata"
    BY <1>12
  <2>2. n \in 1 .. 3
    <3>. SUFFICES ASSUME n \in 4 .. 8 PROVE FALSE
      BY <2>1
    <3>1. Console(r)[n] = rest[n - 3] /\ n - 3 \in 1 .. 5
      BY <1>3
    <3>2. \A k \in 1 .. 5 : rest[k].why # "BadMetadata"
      OBVIOUS
    <3>. QED BY <2>1, <3>1, <3>2
  <2>3. Malformed(r, Metadata[n]) /\ Metadata[n] \in ToSet(Metadata)
    BY <1>3, <1>4, <2>1, <2>2, MetadataIs DEF Metadata
  <2>4. Winner(r, Metadata[n]) = FirstStating(r, Metadata[n])
    BY <2>3, WinnerIsFirst
  <2>. QED BY <2>3, <2>4 DEF Malformed, BadMetadata
<1>7. why' = "none" =>
        /\ ~("unreadable" \in {r.kv, r.smc})
        /\ ~(~HasDonor(r) /\ "absent" \in {r.kv, r.smc})
        /\ ~(r.kv = "refused" \/ (r.kv = "absent" /\ ~r.donor.kv))
  <2>. SUFFICES ASSUME why' = "none"
                PROVE  ~rest[1].fails /\ ~rest[2].fails /\ ~rest[4].fails
    OBVIOUS
  <2>1. \A n \in 1 .. 8 : Console(r)[n].why # "none"
    <3>1. \A n \in 1 .. 3 : Console(r)[n].why # "none"
      BY <1>1, <1>3
    <3>2. \A n \in 1 .. 5 : Console(r)[n + 3].why # "none"
      BY <1>3
    <3>3. \A n \in 1 .. 8 : n \in 1 .. 3 \/ (n - 3 \in 1 .. 5 /\ n = (n - 3) + 3)
      OBVIOUS
    <3>. HIDE DEF rest, firsts
    <3>. QED BY <3>1, <3>2, <3>3
  <2>2. \A n \in 1 .. 8 : ~Console(r)[n].fails
    BY <2>1, <1>12
  <2>3. ~Console(r)[1 + 3].fails /\ ~Console(r)[2 + 3].fails /\ ~Console(r)[4 + 3].fails
    BY <2>2
  <2>. QED BY <1>3, <2>3
<1>8. DOMAIN meta' = MetaFields
  BY DEF TakeConsole, ConsoleInv
<1>9. /\ \A m \in ToSet(Metadata) : meta'[m] = Winner(r, m)
      /\ meta'.cfpairing = CfPairing(r)
      /\ meta'.kv = TakenFrom(r.kv = "found", HasDonor(r) /\ r.donor.kv)
      /\ meta'.mobile = TakenFrom(r.mobile = "found", HasDonor(r) /\ r.donor.mobile)
      /\ meta'.image = meta.image /\ meta'.type = meta.type
  BY <1>8, MetadataIs DEF TakeConsole, ConsoleInv, MetaFields
<1>10. why' = "none" => TookConsole(meta', r)
  <2>. SUFFICES ASSUME why' = "none" PROVE TookConsole(meta', r)
    OBVIOUS
  <2>1. \A m \in ToSet(Metadata) : meta'[m] = FirstStating(r, m)
    BY <1>9, WinnerIsFirst
  <2>2. meta'.cfpairing = "donor" => meta'.pairing = "donor"
    BY <1>9, MetadataIs DEF CfPairing
  <2>3. meta'.kv = "roots" \/ (r.kv = "absent" /\ HasDonor(r))
    BY <1>7, <1>9 DEF TakenFrom, ConsoleInv
  <2>4. meta'.mobile = "donor" => r.mobile # "found" /\ HasDonor(r)
    BY <1>9 DEF TakenFrom
  <2>. QED BY <2>1, <2>2, <2>3, <2>4 DEF TookConsole
<1>11. stage = "console"
  BY DEF TakeConsole, Pass
<1>. QED BY <1>5, <1>6, <1>8, <1>9, <1>10, <1>11 DEF ConsoleInv, Stages, ConsoleTaken

\* The invariant holds in every step.
LEMMA ConsoleStep == ConsoleInv /\ [Next]_<<resolverVars, readerVars>> => ConsoleInv'
<1>. SUFFICES ASSUME ConsoleInv, [Next]_<<resolverVars, readerVars>> PROVE ConsoleInv'
  OBVIOUS
<1>. USE DEF Fault
<1>1. CASE ResolveFoundations
  BY <1>1, FoundationsKeep
<1>2. CASE CheckListed
  <2>1. Len(Listings(request)) = 5 /\ \A n \in 1 .. 5 : Listings(request)[n].why # "BadMetadata"
    BY DEF Listings, PatchNames
  <2>. QED BY <1>2, <2>1, OtherPass DEF CheckListed
<1>3. CASE ReadIniFiles
  <2>1. UNCHANGED resolverVars
    BY <1>3 DEF ReadIniFiles
  <2>2. request' = request /\ stage' = stage /\ why' = why /\ meta' = meta
    BY <2>1 DEF resolverVars
  <2>. QED BY <2>2 DEF ConsoleInv
<1>4. CASE TakeIniFiles
  <2>. DEFINE checks == <<[fails |-> phase = "failed", why |-> "AssetNotFound"]>>
  <2>1. Len(checks) = 1 /\ \A n \in 1 .. 1 : checks[n].why # "BadMetadata"
    OBVIOUS
  <2>2. Pass("read", checks, "console") /\ UNCHANGED <<request, meta>>
    BY <1>4 DEF TakeIniFiles
  <2>. HIDE DEF checks
  <2>. QED BY <2>1, <2>2, OtherPass
<1>5. CASE TakeConsole
  BY <1>5, ConsoleKeep
<1>6. CASE MergeFlashFS
  <2>. DEFINE checks == <<Unopened(request)>>
  <2>1. Len(checks) = 1 /\ \A n \in 1 .. 1 : checks[n].why # "BadMetadata"
    BY DEF Unopened
  <2>2. Pass("merge", checks, "patches") /\ UNCHANGED <<request, meta>>
    BY <1>6 DEF MergeFlashFS
  <2>. HIDE DEF checks
  <2>. QED BY <2>1, <2>2, OtherPass
<1>7. CASE TakePatches
  <2>1. Len(Patches(request)) = 3 /\ \A n \in 1 .. 3 : Patches(request)[n].why # "BadMetadata"
    BY DEF Patches, Addons
  <2>. QED BY <1>7, <2>1, OtherPass DEF TakePatches
<1>8. CASE TakePayloads
  <2>1. Len(Payloads(request)) = 3 /\ \A n \in 1 .. 3 : Payloads(request)[n].why # "BadMetadata"
    BY DEF Payloads
  <2>. QED BY <1>8, <2>1, OtherPass DEF TakePayloads
<1>9. CASE Validate
  <2>1. Len(Validations(request)) = 8 /\ \A n \in 1 .. 8 : Validations(request)[n].why # "BadMetadata"
    BY DEF Validations
  <2>. QED BY <1>9, <2>1, OtherPass DEF Validate
<1>10. CASE UNCHANGED <<resolverVars, readerVars>>
  <2>1. request' = request /\ stage' = stage /\ why' = why /\ meta' = meta
    BY <1>10 DEF resolverVars
  <2>. QED BY <2>1 DEF ConsoleInv
<1>. QED BY <1>1, <1>2, <1>3, <1>4, <1>5, <1>6, <1>7, <1>8, <1>9, <1>10 DEF Next

(* Each part of the console's data is the first source's to state it, and metadata is refused    *)
(* only where the source that wins is malformed (apply_winning_metadata), for any requests.      *)
THEOREM ConsoleSource == Spec => []ConsoleFromBestSource
<1>1. ConsoleInv => ConsoleFromBestSource
  BY DEF ConsoleInv, TookConsole, BadMetadata, ConsoleFromBestSource, ConsoleTaken
<1>. QED BY ConsoleInit, ConsoleStep, <1>1, PTL DEF Spec
-----------------------------------------------------------------------------
(***************************************************************************)
(* The payloads read.                                                      *)
(*                                                                         *)
(* The entries of [flashfs] and [security] are numbered through.  Once k   *)
(* of them are read, stored holds the first found entry of every name      *)
(* among them, each at its place, with the bytes of the best of the        *)
(* entries of its name so far.                                             *)
(***************************************************************************)

Flashes(i) == Len(i.flashfs)
Securities(i) == Len(i.security)
Positions(i) == 1 .. (Flashes(i) + Securities(i))
ListedOf(i) ==
  [n \in Positions(i) |->
     IF n <= Flashes(i) THEN <<"flashfs", n>> ELSE <<"security", n - Flashes(i)>>]
EntryAt(i, n) == i[ListedOf(i)[n][1]][ListedOf(i)[n][2]]
NameAt(i, n) == Reader!StoredName(EntryAt(i, n), i.jtag)
HitAt(i, n) == Reader!Hit(EntryAt(i, n))
KeyAt(i, n) == Reader!Key(NameAt(i, n))

FoundIn(i) == {n \in Positions(i) : HitAt(i, n).tag = "found"}
FirstsIn(i) == {n \in FoundIn(i) : \A m \in FoundIn(i) : KeyAt(i, m) = KeyAt(i, n) => n <= m}
PlaceIn(i, n) == Cardinality({m \in FirstsIn(i) : m <= n})

Beats(i, m, n) == HitAt(i, m).rank < HitAt(i, n).rank \/ (HitAt(i, m).rank = HitAt(i, n).rank /\ m <= n)
IsBest(i, k, n, b) ==
  /\ b \in FoundIn(i) /\ b <= k /\ KeyAt(i, b) = KeyAt(i, n)
  /\ \A m \in FoundIn(i) : m <= k /\ KeyAt(i, m) = KeyAt(i, n) => Beats(i, b, m)

Holds(i, held, k, n) ==
  /\ held[PlaceIn(i, n)].name = NameAt(i, n)
  /\ \E b \in FoundIn(i) : /\ IsBest(i, k, n, b)
                           /\ held[PlaceIn(i, n)].from = ListedOf(i)[b]
                           /\ held[PlaceIn(i, n)].rank = HitAt(i, b).rank

Rows(i) == [name : {NameAt(i, n) : n \in FoundIn(i)}, rank : Nat, from : {ListedOf(i)[n] : n \in FoundIn(i)}]
RowOf(i, n) == [name |-> NameAt(i, n), rank |-> HitAt(i, n).rank, from |-> ListedOf(i)[n]]

Kept(i, held, k) ==
  /\ held \in Seq(Rows(i)) /\ Len(held) = PlaceIn(i, k)
  /\ \A n \in FirstsIn(i) : n <= k => Holds(i, held, k, n)
  /\ \A p \in 1 .. Len(held) : \E n \in FirstsIn(i) : n <= k /\ PlaceIn(i, n) = p

IsIni(i) ==
  \A section \in {"flashfs", "security"} :
    /\ IsList(i[section])
    /\ \A n \in DOMAIN i[section] : IsHit(i[section][n].hit) /\ IsHit(i[section][n].basehit)

\* The sections have sizes.
LEMMA IniSizes ==
  ASSUME NEW i, IsIni(i)
  PROVE  Flashes(i) \in Nat /\ Securities(i) \in Nat
  BY DEF IsIni, IsList, Flashes, Securities

\* Each numbered entry is one of a section, and its lookup finds a ranked file or not.
LEMMA HitsAre ==
  ASSUME NEW i, IsIni(i), NEW n \in Positions(i)
  PROVE  IsHit(HitAt(i, n))
<1>1. Flashes(i) \in Nat /\ Securities(i) \in Nat
  BY IniSizes
<1>2. CASE n <= Flashes(i)
  <2>1. EntryAt(i, n) = i["flashfs"][n] /\ n \in DOMAIN i["flashfs"]
    BY <1>1, <1>2 DEF EntryAt, ListedOf, Positions, IsIni, IsList, Flashes
  <2>2. IsHit(EntryAt(i, n).hit) /\ IsHit(EntryAt(i, n).basehit)
    BY <2>1 DEF IsIni
  <2>. QED BY <2>2 DEF HitAt, Reader!Hit
<1>3. CASE n > Flashes(i)
  <2>0. n - Flashes(i) \in 1 .. Securities(i)
    BY <1>1, <1>3 DEF Positions
  <2>1. EntryAt(i, n) = i["security"][n - Flashes(i)] /\ n - Flashes(i) \in DOMAIN i["security"]
    <3>1. ListedOf(i)[n] = <<"security", n - Flashes(i)>>
      BY <1>1, <1>3 DEF ListedOf, Positions
    <3>2. DOMAIN i["security"] = 1 .. Securities(i)
      BY DEF IsIni, IsList, Securities
    <3>. QED BY <2>0, <3>1, <3>2 DEF EntryAt
  <2>2. IsHit(EntryAt(i, n).hit) /\ IsHit(EntryAt(i, n).basehit)
    BY <2>1 DEF IsIni
  <2>. QED BY <2>2 DEF HitAt, Reader!Hit
<1>. QED BY <1>1, <1>2, <1>3 DEF Positions

\* A found entry has a rank and a number.
LEMMA RanksAre ==
  ASSUME NEW i, IsIni(i), NEW n \in FoundIn(i)
  PROVE  HitAt(i, n).rank \in Nat /\ n \in Nat
<1>1. Flashes(i) \in Nat /\ Securities(i) \in Nat
  BY IniSizes
<1>2. n \in Positions(i) /\ HitAt(i, n).tag = "found"
  BY DEF FoundIn
<1>3. IsHit(HitAt(i, n))
  BY <1>2, HitsAre
<1>. QED BY <1>1, <1>2, <1>3 DEF IsHit, Positions

\* The places count the first entries: they start at 1 and no two are the same.
LEMMA Places ==
  ASSUME NEW i, IsIni(i)
  PROVE  /\ \A n \in Nat : PlaceIn(i, n) \in Nat
         /\ PlaceIn(i, 0) = 0
         /\ \A n \in FirstsIn(i) : PlaceIn(i, n) \in Nat \ {0}
         /\ \A m, n \in FirstsIn(i) : m < n => PlaceIn(i, m) < PlaceIn(i, n)
         /\ \A n \in Nat : PlaceIn(i, n + 1) = PlaceIn(i, n) + (IF n + 1 \in FirstsIn(i) THEN 1 ELSE 0)
         /\ \A n \in FirstsIn(i), k \in Nat : n <= k => PlaceIn(i, n) <= PlaceIn(i, k)
<1>. DEFINE F == FirstsIn(i)
            U(k) == {m \in F : m <= k}
<1>0. Flashes(i) + Securities(i) \in Nat
  BY IniSizes
<1>1. F \subseteq Positions(i) /\ F \subseteq Nat /\ IsFiniteSet(F)
  <2>1. F \subseteq Positions(i)
    BY DEF FirstsIn, FoundIn
  <2>2. IsFiniteSet(Positions(i)) /\ Positions(i) \subseteq Nat
    BY <1>0, FS_Interval DEF Positions
  <2>. QED BY <2>1, <2>2, FS_Subset
<1>2. \A k \in Nat : IsFiniteSet(U(k)) /\ Cardinality(U(k)) \in Nat
  <2>1. \A k \in Nat : U(k) \subseteq F
    OBVIOUS
  <2>. QED BY <1>1, <2>1, FS_Subset, FS_CardinalityType
<1>3. U(0) = {}
  <2>1. \A n \in F : n >= 1
    BY <1>0, <1>1 DEF Positions
  <2>. QED BY <1>1, <2>1
<1>4. ASSUME NEW n \in Nat
      PROVE  Cardinality(U(n + 1)) = Cardinality(U(n)) + (IF n + 1 \in F THEN 1 ELSE 0)
  <2>1. CASE n + 1 \in F
    <3>1. U(n + 1) = U(n) \cup {n + 1} /\ n + 1 \notin U(n)
      BY <1>1, <2>1
    <3>. HIDE DEF U
    <3>. QED BY <1>2, <2>1, <3>1, FS_AddElement
  <2>2. CASE n + 1 \notin F
    <3>1. U(n + 1) = U(n)
      BY <1>1, <2>2
    <3>. QED BY <1>2, <2>2, <3>1
  <2>. QED BY <2>1, <2>2
<1>5. ASSUME NEW m \in Nat, NEW n \in Nat, m <= n
      PROVE  Cardinality(U(m)) <= Cardinality(U(n))
  <2>1. U(m) \subseteq U(n)
    BY <1>1, <1>5
  <2>. QED BY <1>2, <2>1, FS_Subset
<1>6. \A n \in F : n \in Nat /\ n - 1 \in Nat
  BY <1>0, <1>1 DEF Positions
<1>7. ASSUME NEW n \in F PROVE Cardinality(U(n)) = Cardinality(U(n - 1)) + 1
  <2>1. n - 1 \in Nat /\ (n - 1) + 1 = n
    BY <1>6
  <2>2. Cardinality(U((n - 1) + 1)) = Cardinality(U(n - 1)) + (IF (n - 1) + 1 \in F THEN 1 ELSE 0)
    BY <1>4, <2>1
  <2>. HIDE DEF U, F
  <2>. QED BY <2>1, <2>2
<1>8. ASSUME NEW m \in F, NEW n \in F, m < n
      PROVE  Cardinality(U(m)) < Cardinality(U(n))
  <2>1. m \in Nat /\ n - 1 \in Nat /\ m <= n - 1
    BY <1>6, <1>8
  <2>2. Cardinality(U(m)) <= Cardinality(U(n - 1))
    BY <1>5, <2>1
  <2>3. Cardinality(U(n)) = Cardinality(U(n - 1)) + 1
    BY <1>7
  <2>. HIDE DEF U, F
  <2>. QED BY <1>2, <2>1, <2>2, <2>3
<1>9. Cardinality(U(0)) = 0
  BY <1>3, FS_EmptySet
<1>10. \A n : PlaceIn(i, n) = Cardinality(U(n))
  BY DEF PlaceIn
<1>11. \A n \in F : Cardinality(U(n)) \in Nat \ {0}
  <2>. HIDE DEF U, F
  <2>. QED BY <1>2, <1>6, <1>7
<1>. HIDE DEF U
<1>. QED BY <1>2, <1>4, <1>5, <1>6, <1>8, <1>9, <1>10, <1>11

\* What process_payload_entry makes of the payloads held.
SameName(i, held, n) == {p \in DOMAIN held : Reader!Key(held[p].name) = KeyAt(i, n)}
Processed(i, held, n) ==
  IF HitAt(i, n).tag = "none" THEN held
  ELSE IF SameName(i, held, n) = {} THEN Append(held, RowOf(i, n))
  ELSE [p \in DOMAIN held |->
          IF p \in SameName(i, held, n) /\ HitAt(i, n).rank < held[p].rank
          THEN [RowOf(i, n) EXCEPT !.name = held[p].name] ELSE held[p]]

\* The first found entry of a name.
LEMMA FirstOfName ==
  ASSUME NEW i, IsIni(i), NEW n \in FoundIn(i)
  PROVE  \E m \in FirstsIn(i) : m <= n /\ KeyAt(i, m) = KeyAt(i, n)
<1>. DEFINE T == {m \in FoundIn(i) : KeyAt(i, m) = KeyAt(i, n)}
<1>1. T \subseteq Nat /\ n \in T
  BY RanksAre
<1>2. PICK m \in T : \A x \in T : m <= x
  BY <1>1, NatLeast
<1>. QED BY <1>1, <1>2 DEF FirstsIn

\* The place of the first entry of each name that was read.
LEMMA HeldNames ==
  ASSUME NEW i, IsIni(i), NEW k \in Nat, NEW held, Kept(i, held, k),
         NEW p \in 1 .. Len(held), NEW m \in FirstsIn(i), m <= k
  PROVE  /\ PlaceIn(i, m) \in 1 .. Len(held)
         /\ Reader!Key(held[PlaceIn(i, m)].name) = KeyAt(i, m)
         /\ Reader!Key(held[p].name) = KeyAt(i, m) <=> p = PlaceIn(i, m)
<1>1. Len(held) = PlaceIn(i, k) /\ PlaceIn(i, m) \in Nat \ {0} /\ PlaceIn(i, k) \in Nat
  BY Places DEF Kept
<1>2. PlaceIn(i, m) <= PlaceIn(i, k)
  BY Places
<1>3. PlaceIn(i, m) \in 1 .. Len(held)
  BY <1>1, <1>2
<1>4. \A n \in FirstsIn(i) : n <= k => Reader!Key(held[PlaceIn(i, n)].name) = KeyAt(i, n)
  BY DEF Kept, Holds, KeyAt
<1>5. PICK n \in FirstsIn(i) : n <= k /\ PlaceIn(i, n) = p
  BY DEF Kept
<1>6. Reader!Key(held[p].name) = KeyAt(i, m) => p = PlaceIn(i, m)
  <2>1. SUFFICES ASSUME Reader!Key(held[p].name) = KeyAt(i, m) PROVE p = PlaceIn(i, m)
    OBVIOUS
  <2>2. KeyAt(i, n) = KeyAt(i, m)
    BY <1>4, <1>5, <2>1
  <2>3. n <= m /\ m <= n /\ n \in Nat /\ m \in Nat
    <3>1. n \in FoundIn(i) /\ m \in FoundIn(i)
      BY DEF FirstsIn
    <3>. QED BY <2>2, <3>1, RanksAre DEF FirstsIn
  <2>4. n = m
    BY <2>3
  <2>. QED BY <1>5, <2>4
<1>. QED BY <1>3, <1>4, <1>6

\* One more entry read.
LEMMA EntryProcessed ==
  ASSUME NEW i, IsIni(i), NEW k \in Nat, k + 1 \in Positions(i), HitAt(i, k + 1).tag # "escapes",
         NEW held, Kept(i, held, k)
  PROVE  Kept(i, Processed(i, held, k + 1), k + 1)
<1>. DEFINE e == k + 1
            after == Processed(i, held, e)
            h == HitAt(i, e)
<1>0. /\ held \in Seq(Rows(i)) /\ Len(held) = PlaceIn(i, k) /\ Len(held) \in Nat
      /\ DOMAIN held = 1 .. Len(held) /\ e \in Nat /\ k < e
  BY DEF Kept
<1>1. \A n \in FoundIn(i) : n <= e <=> (n <= k \/ n = e)
  BY <1>0, RanksAre
<1>2. \A n \in FoundIn(i) : HitAt(i, n).rank \in Nat /\ n \in Nat
  BY RanksAre
<1>3. CASE h.tag = "none"
  <2>1. after = held /\ e \notin FoundIn(i)
    BY <1>3 DEF Processed, FoundIn
  <2>2. e \notin FirstsIn(i) /\ PlaceIn(i, e) = PlaceIn(i, k)
    BY <1>0, <2>1, Places DEF FirstsIn
  <2>3. \A n \in FoundIn(i) : n <= e <=> n <= k
    BY <1>1, <1>2, <2>1
  <2>4. \A n, b : IsBest(i, k, n, b) <=> IsBest(i, e, n, b)
    <3>. HIDE DEF e
    <3>. QED BY <2>3 DEF IsBest
  <2>5. FirstsIn(i) \subseteq FoundIn(i)
    BY DEF FirstsIn
  <2>. HIDE DEF e
  <2>6. \A n \in FirstsIn(i) : n <= e => Holds(i, held, e, n)
    BY <2>3, <2>4, <2>5 DEF Kept, Holds
  <2>7. \A p \in 1 .. Len(held) : \E n \in FirstsIn(i) : n <= e /\ PlaceIn(i, n) = p
    BY <2>3, <2>5 DEF Kept
  <2>. HIDE DEF after
  <2>8. Kept(i, after, e)
    BY <1>0, <2>1, <2>2, <2>6, <2>7 DEF Kept
  <2>. QED BY <2>8 DEF after, e
<1>4. CASE h.tag = "found"
  <2>0. e \in FoundIn(i) /\ h.rank \in Nat
    BY <1>2, <1>4 DEF FoundIn
  <2>00. \A n \in FirstsIn(i) : n \in FoundIn(i)
    BY DEF FirstsIn
  <2>01. \A n \in FirstsIn(i), b \in FoundIn(i) : KeyAt(i, e) # KeyAt(i, n) /\ IsBest(i, k, n, b) => IsBest(i, e, n, b)
    <3>1. \A m \in FoundIn(i), n \in FirstsIn(i) :
            KeyAt(i, e) # KeyAt(i, n) /\ KeyAt(i, m) = KeyAt(i, n) /\ m <= e => m <= k
      BY <1>1, <1>2
    <3>2. \A b \in FoundIn(i) : b <= k => b <= e
      BY <1>0, <1>2
    <3>. HIDE DEF e
    <3>. QED BY <3>1, <3>2 DEF IsBest
  <2>02. \A n \in FirstsIn(i) : n <= k => PlaceIn(i, n) \in 1 .. Len(held)
    BY <1>0, Places
  <2>1. CASE SameName(i, held, e) = {}
    <3>1. after = Append(held, RowOf(i, e))
      BY <1>4, <2>1 DEF Processed
    <3>2. ASSUME NEW m \in FoundIn(i), m <= k PROVE KeyAt(i, m) # KeyAt(i, e)
      <4>. SUFFICES ASSUME KeyAt(i, m) = KeyAt(i, e) PROVE FALSE
        OBVIOUS
      <4>1. PICK n \in FirstsIn(i) : n <= m /\ KeyAt(i, n) = KeyAt(i, m)
        BY FirstOfName
      <4>2. n <= k
        BY <1>2, <2>00, <3>2, <4>1
      <4>3. PlaceIn(i, n) \in 1 .. Len(held)
        BY <2>02, <4>2
      <4>4. Reader!Key(held[PlaceIn(i, n)].name) = KeyAt(i, n)
        BY <4>2, <4>3, HeldNames
      <4>5. PlaceIn(i, n) \in SameName(i, held, e)
        BY <1>0, <4>1, <4>3, <4>4 DEF SameName
      <4>. QED BY <2>1, <4>5
    <3>3. e \in FirstsIn(i)
      <4>1. \A m \in FoundIn(i) : KeyAt(i, m) = KeyAt(i, e) => e <= m
        BY <1>0, <1>2, <3>2
      <4>. QED BY <2>0, <4>1 DEF FirstsIn
    <3>4. PlaceIn(i, e) = PlaceIn(i, k) + 1 /\ PlaceIn(i, e) = Len(held) + 1
      BY <1>0, <3>3, Places
    <3>5. RowOf(i, e) \in Rows(i)
      BY <2>0 DEF RowOf, Rows
    <3>6. /\ after \in Seq(Rows(i)) /\ Len(after) = PlaceIn(i, e)
          /\ \A p \in 1 .. Len(held) : after[p] = held[p]
          /\ after[PlaceIn(i, e)] = RowOf(i, e)
      <4>. HIDE DEF e, after
      <4>. QED BY <1>0, <3>1, <3>4, <3>5
    <3>7. ASSUME NEW n \in FirstsIn(i), n <= k PROVE Holds(i, after, e, n)
      <4>1. after[PlaceIn(i, n)] = held[PlaceIn(i, n)]
        BY <2>02, <3>6, <3>7
      <4>2. Holds(i, held, k, n)
        BY <3>7 DEF Kept
      <4>3. KeyAt(i, e) # KeyAt(i, n)
        BY <2>00, <3>2, <3>7
      <4>. HIDE DEF e, after
      <4>. QED BY <2>01, <4>1, <4>2, <4>3 DEF Holds
    <3>8. Holds(i, after, e, e)
      <4>1. IsBest(i, e, e, e)
        <5>1. \A m \in FoundIn(i) : m <= e /\ KeyAt(i, m) = KeyAt(i, e) => m = e
          BY <1>1, <3>2
        <5>. HIDE DEF h
        <5>2. Beats(i, e, e)
          BY <1>0 DEF Beats
        <5>3. e <= e
          BY <1>0
        <5>. HIDE DEF e
        <5>. QED BY <2>0, <5>1, <5>2, <5>3 DEF IsBest
      <4>2. /\ RowOf(i, e).name = NameAt(i, e) /\ RowOf(i, e).from = ListedOf(i)[e]
            /\ RowOf(i, e).rank = HitAt(i, e).rank
        BY DEF RowOf
      <4>. HIDE DEF e, after
      <4>. QED BY <2>0, <3>6, <4>1, <4>2 DEF Holds
    <3>9. \A n \in FirstsIn(i) : n <= e => Holds(i, after, e, n)
      BY <1>1, <2>00, <3>7, <3>8
    <3>10. \A p \in 1 .. Len(after) : \E n \in FirstsIn(i) : n <= e /\ PlaceIn(i, n) = p
      <4>1. ASSUME NEW p \in 1 .. Len(held) PROVE \E n \in FirstsIn(i) : n <= e /\ PlaceIn(i, n) = p
        <5>1. PICK n \in FirstsIn(i) : n <= k /\ PlaceIn(i, n) = p
          BY DEF Kept
        <5>. QED BY <1>0, <1>2, <2>00, <5>1
      <4>2. e <= e
        BY <1>0
      <4>3. \A p \in 1 .. Len(after) : p \in 1 .. Len(held) \/ p = PlaceIn(i, e)
        BY <1>0, <3>4, <3>6
      <4>. HIDE DEF e, after
      <4>. QED BY <3>3, <4>1, <4>2, <4>3
    <3>11. Kept(i, after, e)
      <4>. HIDE DEF after, e
      <4>. QED BY <3>6, <3>9, <3>10 DEF Kept
    <3>. QED BY <3>11
  <2>2. CASE SameName(i, held, e) # {}
    <3>1. PICK p \in 1 .. Len(held) : Reader!Key(held[p].name) = KeyAt(i, e)
      BY <1>0, <2>2 DEF SameName
    <3>2. PICK n \in FirstsIn(i) : n <= k /\ PlaceIn(i, n) = p
      BY DEF Kept
    <3>3. KeyAt(i, n) = KeyAt(i, e)
      BY <3>1, <3>2, HeldNames
    <3>4. SameName(i, held, e) = {p}
      BY <1>0, <3>1, <3>2, <3>3, HeldNames DEF SameName
    <3>. DEFINE better == h.rank < held[p].rank
                row == [RowOf(i, e) EXCEPT !.name = held[p].name]
    <3>5. after = [q \in DOMAIN held |-> IF q = p /\ better THEN row ELSE held[q]]
      <4>1. after = [q \in DOMAIN held |->
                       IF q \in SameName(i, held, e) /\ h.rank < held[q].rank
                       THEN [RowOf(i, e) EXCEPT !.name = held[q].name] ELSE held[q]]
        BY <1>4, <2>2 DEF Processed
      <4>. QED BY <3>4, <4>1
    <3>6. /\ row.name = held[p].name /\ row.from = ListedOf(i)[e] /\ row.rank = h.rank
          /\ row \in Rows(i)
      <4>1. held[p] \in Rows(i)
        BY <1>0
      <4>2. RowOf(i, e) \in Rows(i)
        BY <2>0 DEF RowOf, Rows
      <4>. QED BY <4>1, <4>2 DEF RowOf, Rows
    <3>7. /\ after \in Seq(Rows(i)) /\ Len(after) = Len(held)
          /\ \A q \in 1 .. Len(held) : after[q] = IF q = p /\ better THEN row ELSE held[q]
      <4>. HIDE DEF after, row, better
      <4>. QED BY <1>0, <3>5, <3>6
    <3>8. e \notin FirstsIn(i) /\ PlaceIn(i, e) = PlaceIn(i, k)
      <4>1. e \notin FirstsIn(i)
        BY <1>0, <1>2, <2>00, <3>2, <3>3 DEF FirstsIn
      <4>. QED BY <1>0, <4>1, Places
    <3>9. ASSUME NEW m \in FirstsIn(i), m <= k, m # n PROVE Holds(i, after, e, m)
      <4>1. PlaceIn(i, m) # p
        <5>1. m \in Nat /\ n \in Nat
          BY <1>2, <2>00
        <5>2. PlaceIn(i, m) < PlaceIn(i, n) \/ PlaceIn(i, n) < PlaceIn(i, m)
          BY <3>9, <5>1, Places
        <5>. QED BY <3>2, <5>2, Places
      <4>2. after[PlaceIn(i, m)] = held[PlaceIn(i, m)]
        BY <2>02, <3>7, <3>9, <4>1
      <4>3. Holds(i, held, k, m)
        BY <3>9 DEF Kept
      <4>4. KeyAt(i, e) # KeyAt(i, m)
        BY <3>1, <3>9, <4>1, HeldNames
      <4>. HIDE DEF e, after
      <4>. QED BY <2>01, <4>2, <4>3, <4>4 DEF Holds
    <3>10. Holds(i, after, e, n)
      <4>1. PICK b \in FoundIn(i) : /\ IsBest(i, k, n, b)
                                    /\ held[p].from = ListedOf(i)[b] /\ held[p].rank = HitAt(i, b).rank
        BY <3>2 DEF Kept, Holds
      <4>2. held[p].name = NameAt(i, n)
        BY <3>2 DEF Kept, Holds
      <4>3. CASE better
        <5>1. \A m \in FoundIn(i) : m <= k /\ KeyAt(i, m) = KeyAt(i, n) => Beats(i, e, m)
          <6>1. \A m \in FoundIn(i) : m <= k /\ KeyAt(i, m) = KeyAt(i, n) => Beats(i, b, m)
            BY <4>1 DEF IsBest
          <6>. QED BY <1>2, <2>0, <4>1, <4>3, <6>1 DEF Beats
        <5>2. Beats(i, e, e) /\ e <= e
          BY <1>0 DEF Beats
        <5>3. IsBest(i, e, n, e)
          <6>. HIDE DEF e
          <6>. QED BY <1>1, <2>0, <3>3, <5>1, <5>2 DEF IsBest
        <5>4. after[PlaceIn(i, n)] = row
          BY <3>2, <3>7, <4>3
        <5>. HIDE DEF e, after, row
        <5>. QED BY <2>0, <3>6, <4>2, <5>3, <5>4 DEF Holds
      <4>4. CASE ~better
        <5>1. Beats(i, b, e)
          BY <1>0, <1>2, <2>0, <4>1, <4>4 DEF Beats, IsBest
        <5>2. b <= e
          BY <1>0, <1>2, <4>1 DEF IsBest
        <5>3. IsBest(i, e, n, b)
          <6>. HIDE DEF e
          <6>. QED BY <1>1, <4>1, <5>1, <5>2 DEF IsBest
        <5>4. after[PlaceIn(i, n)] = held[p]
          BY <3>2, <3>7, <4>4
        <5>. HIDE DEF e, after
        <5>. QED BY <4>1, <4>2, <5>3, <5>4 DEF Holds
      <4>. QED BY <4>3, <4>4
    <3>11. \A m \in FirstsIn(i) : m <= e => Holds(i, after, e, m)
      BY <1>1, <2>00, <3>8, <3>9, <3>10
    <3>12. \A q \in 1 .. Len(after) : \E m \in FirstsIn(i) : m <= e /\ PlaceIn(i, m) = q
      <4>1. ASSUME NEW q \in 1 .. Len(held) PROVE \E m \in FirstsIn(i) : m <= e /\ PlaceIn(i, m) = q
        <5>1. PICK m \in FirstsIn(i) : m <= k /\ PlaceIn(i, m) = q
          BY DEF Kept
        <5>. QED BY <1>0, <1>2, <2>00, <5>1
      <4>. QED BY <3>7, <4>1
    <3>13. Kept(i, after, e)
      <4>. HIDE DEF after, e
      <4>. QED BY <1>0, <3>7, <3>8, <3>11, <3>12 DEF Kept
    <3>. QED BY <3>13
  <2>. QED BY <2>1, <2>2
<1>5. h.tag \in {"none", "found", "escapes"}
  BY HitsAre DEF IsHit
<1>. QED BY <1>3, <1>4, <1>5
-----------------------------------------------------------------------------
\* The entries of [flashfs] and [security] read so far.
EntriesRead(i, section, next) ==
  CASE section = "flashfs" -> next - 1
    [] section = "security" -> Flashes(i) + next - 1
    [] section \in {"raw", "done"} -> Flashes(i) + Securities(i)
    [] OTHER -> 0

Sections == {"bl", "flashfs", "security", "raw"}

ReaderInv ==
  /\ IsIni(ini)
  /\ phase \in Sections \cup {"done", "failed"} /\ at \in Nat \ {0}
  /\ phase = "flashfs" => at <= Flashes(ini) + 1
  /\ phase = "security" => at <= Securities(ini) + 1
  /\ phase # "failed" => Kept(ini, stored, EntriesRead(ini, phase, at))

\* Before the first entry nothing is held.
LEMMA NothingKept ==
  ASSUME NEW i, IsIni(i)
  PROVE  Kept(i, <<>>, 0)
<1>1. PlaceIn(i, 0) = 0
  BY Places
<1>2. \A n \in FirstsIn(i) : ~(n <= 0)
  <2>1. \A n \in FirstsIn(i) : n \in Positions(i)
    BY DEF FirstsIn, FoundIn
  <2>2. Flashes(i) + Securities(i) \in Nat
    BY IniSizes
  <2>. QED BY <2>1, <2>2 DEF Positions
<1>. QED BY <1>1, <1>2 DEF Kept

\* Nothing is read at first.
LEMMA ReaderInit == Init => ReaderInv
<1>. SUFFICES ASSUME Init PROVE ReaderInv
  OBVIOUS
<1>1. IsIni(ini)
  BY RequestsAssumption DEF Init, IsRequest, IsIni
<1>2. phase \in {"bl", "failed"} /\ at = 1 /\ stored = <<>>
  BY DEF Init, Reader!Unread
<1>3. EntriesRead(ini, "bl", 1) = 0
  BY DEF EntriesRead
<1>. QED BY <1>1, <1>2, <1>3, NothingKept DEF ReaderInv, Sections

\* The reader keeps what it should of each payload.
LEMMA PayloadKeeps == ReaderInv /\ Reader!Payload => ReaderInv'
<1>. SUFFICES ASSUME ReaderInv, Reader!Payload PROVE ReaderInv'
  OBVIOUS
<1>1. CASE phase' = "failed" /\ UNCHANGED <<ini, at>>
  BY <1>1 DEF ReaderInv, Sections
<1>2. CASE Reader!Hit(Reader!Entry).tag # "escapes"
  <2>. DEFINE k == EntriesRead(ini, phase, at)
              n == k + 1
  <2>0. Flashes(ini) \in Nat /\ Securities(ini) \in Nat /\ IsIni(ini)
    BY IniSizes DEF ReaderInv
  <2>1. /\ phase \in {"flashfs", "security"} /\ at \in Nat \ {0}
        /\ phase = "flashfs" => at <= Flashes(ini)
        /\ phase = "security" => at <= Securities(ini)
    BY DEF Reader!Payload, ReaderInv, Flashes, Securities
  <2>2. k \in Nat /\ k + 1 \in Positions(ini)
    BY <2>0, <2>1 DEF EntriesRead, Positions
  <2>3. ListedOf(ini)[n] = <<phase, at>>
    <3>1. CASE phase = "flashfs"
      <4>1. n = at /\ at <= Flashes(ini)
        BY <2>1, <3>1 DEF EntriesRead
      <4>. HIDE DEF n
      <4>. QED BY <2>0, <2>1, <3>1, <4>1 DEF ListedOf, Positions
    <3>2. CASE phase = "security"
      <4>1. n = Flashes(ini) + at /\ at <= Securities(ini)
        BY <2>0, <2>1, <3>2 DEF EntriesRead
      <4>2. n \in Positions(ini) /\ ~(n <= Flashes(ini)) /\ n - Flashes(ini) = at
        BY <2>0, <2>1, <4>1 DEF Positions
      <4>. HIDE DEF n
      <4>. QED BY <3>2, <4>2 DEF ListedOf
    <3>. QED BY <2>1, <3>1, <3>2
  <2>4. EntryAt(ini, n) = Reader!Entry
    BY <2>3 DEF EntryAt, Reader!Entry
  <2>5. HitAt(ini, n) = Reader!Hit(Reader!Entry) /\ NameAt(ini, n) = Reader!StoredName(Reader!Entry, ini.jtag)
    BY <2>4 DEF HitAt, NameAt
  <2>6. Reader!StoredAt(NameAt(ini, n)) = SameName(ini, stored, n)
    BY DEF Reader!StoredAt, SameName, KeyAt
  <2>7. /\ stored' = IF HitAt(ini, n).tag = "none" THEN stored
                     ELSE IF SameName(ini, stored, n) = {} THEN Append(stored, RowOf(ini, n))
                     ELSE [p \in DOMAIN stored |->
                             IF p \in SameName(ini, stored, n) /\ Reader!Outranks(HitAt(ini, n).rank, stored[p].rank)
                             THEN [RowOf(ini, n) EXCEPT !.name = stored[p].name] ELSE stored[p]]
        /\ at' = at + 1 /\ ini' = ini /\ phase' = phase
    <3>1. RowOf(ini, n) = [name |-> Reader!StoredName(Reader!Entry, ini.jtag),
                           rank |-> Reader!Hit(Reader!Entry).rank, from |-> <<phase, at>>]
      BY <2>3, <2>5 DEF RowOf
    <3>. HIDE DEF n
    <3>. QED BY <1>2, <2>5, <2>6, <3>1 DEF Reader!Payload
  <2>8. stored' = Processed(ini, stored, n)
    <3>. HIDE DEF n
    <3>. QED BY <2>7 DEF Processed, Reader!Outranks
  <2>9. phase # "failed" /\ Kept(ini, stored, k)
    BY <2>1 DEF ReaderInv
  <2>10. HitAt(ini, k + 1).tag # "escapes"
    BY <1>2, <2>5
  <2>11. Kept(ini, Processed(ini, stored, n), n)
    <3>. HIDE DEF k
    <3>. QED BY <2>0, <2>2, <2>9, <2>10, EntryProcessed
  <2>12. n = EntriesRead(ini, phase, at + 1)
    BY <2>0, <2>1 DEF EntriesRead
  <2>. HIDE DEF n
  <2>13. Kept(ini', stored', EntriesRead(ini', phase', at'))
    BY <2>7, <2>8, <2>11, <2>12
  <2>. QED BY <2>0, <2>1, <2>7, <2>13 DEF ReaderInv, Sections
<1>3. (phase' = "failed" /\ UNCHANGED <<ini, at>>) \/ Reader!Hit(Reader!Entry).tag # "escapes"
  BY DEF Reader!Payload, Reader!Fails
<1>. QED BY <1>1, <1>2, <1>3

\* The end of a section reads no entry.
LEMMA SectionKeeps == ReaderInv /\ Reader!EndSection => ReaderInv'
<1>. SUFFICES ASSUME ReaderInv, Reader!EndSection PROVE ReaderInv'
  OBVIOUS
<1>1. Flashes(ini) \in Nat /\ Securities(ini) \in Nat /\ IsIni(ini)
  BY IniSizes DEF ReaderInv
<1>2. /\ phase \in Sections /\ at \in Nat \ {0} /\ at' = 1 /\ ini' = ini /\ stored' = stored
      /\ phase = "bl" => phase' = "flashfs"
      /\ phase = "flashfs" => phase' = "security" /\ at = Flashes(ini) + 1
      /\ phase = "security" => phase' = "raw" /\ at = Securities(ini) + 1
      /\ phase = "raw" => phase' = "done"
  BY <1>1 DEF Reader!EndSection, Reader!Follows, ReaderInv, Sections, Flashes, Securities
<1>3. EntriesRead(ini, phase', 1) = EntriesRead(ini, phase, at)
  BY <1>1, <1>2 DEF EntriesRead, Sections
<1>4. phase' \in Sections \cup {"done"} /\ phase # "failed"
  BY <1>2 DEF Sections
<1>. QED BY <1>1, <1>2, <1>3, <1>4 DEF ReaderInv

\* The invariant holds in every step.
LEMMA ReaderStep == ReaderInv /\ [Next]_<<resolverVars, readerVars>> => ReaderInv'
<1>. SUFFICES ASSUME ReaderInv, [Next]_<<resolverVars, readerVars>> PROVE ReaderInv'
  OBVIOUS
<1>1. CASE UNCHANGED readerVars
  <2>1. ini' = ini /\ phase' = phase /\ at' = at /\ stored' = stored
    BY <1>1 DEF readerVars
  <2>. QED BY <2>1 DEF ReaderInv
<1>2. CASE Reader!Bootloader
  <2>1. \/ phase' = "failed" /\ UNCHANGED <<ini, at>>
        \/ phase = "bl" /\ at' = at + 1 /\ UNCHANGED <<ini, phase, stored>>
    BY <1>2 DEF Reader!Bootloader, Reader!Fails
  <2>2. EntriesRead(ini, "bl", at) = 0 /\ EntriesRead(ini, "bl", at + 1) = 0
    BY DEF EntriesRead
  <2>. QED BY <2>1, <2>2 DEF ReaderInv, Sections
<1>3. CASE Reader!RawPatch
  <2>1. \/ phase' = "failed" /\ UNCHANGED <<ini, at>>
        \/ phase = "raw" /\ at' = at + 1 /\ UNCHANGED <<ini, phase, stored>>
    BY <1>3 DEF Reader!RawPatch, Reader!Fails
  <2>2. EntriesRead(ini, "raw", at) = EntriesRead(ini, "raw", at + 1)
    BY DEF EntriesRead
  <2>. QED BY <2>1, <2>2 DEF ReaderInv, Sections
<1>4. \/ UNCHANGED readerVars
      \/ Reader!Bootloader \/ Reader!Payload \/ Reader!RawPatch \/ Reader!EndSection
  <2>1. CASE Next
    BY <2>1 DEF Next, ResolveFoundations, CheckListed, ReadIniFiles, TakeIniFiles, TakeConsole,
                MergeFlashFS, TakePatches, TakePayloads, Validate, Reader!Next
  <2>2. CASE UNCHANGED <<resolverVars, readerVars>>
    BY <2>2
  <2>. QED BY <2>1, <2>2
<1>. QED BY <1>1, <1>2, <1>3, <1>4, PayloadKeeps, SectionKeeps

\* The reader counts as the resolver does.
LEMMA SameCount == \A S : Reader!Cardinality(S) = Cardinality(S)
  BY DEF Reader!Cardinality, Cardinality

\* What the numbered entries are called in IniFiles.
LEMMA SameList ==
  ASSUME IsIni(ini)
  PROVE  /\ Reader!Listed = ListedOf(ini) /\ DOMAIN Reader!Listed = Positions(ini)
         /\ \A n : Reader!PayloadOf(n) = EntryAt(ini, n)
         /\ \A n : Reader!Aliases(n) = {m \in FoundIn(ini) : KeyAt(ini, m) = KeyAt(ini, n)}
<1>1. Reader!Listed = ListedOf(ini) /\ DOMAIN Reader!Listed = Positions(ini)
  BY DEF Reader!Listed, ListedOf, Positions, Flashes, Securities
<1>2. \A n : Reader!PayloadOf(n) = EntryAt(ini, n)
  BY <1>1 DEF Reader!PayloadOf, EntryAt
<1>3. \A n : Reader!Aliases(n) = {m \in FoundIn(ini) : KeyAt(ini, m) = KeyAt(ini, n)}
  BY <1>1, <1>2 DEF Reader!Aliases, FoundIn, KeyAt, NameAt, HitAt
<1>. QED BY <1>1, <1>2, <1>3

\* The first of some naturals is their least.
LEMMA FirstIs ==
  ASSUME NEW T, T \subseteq Nat, NEW n \in Nat
  PROVE  /\ T # {} => Reader!First(T) \in T /\ \A m \in T : Reader!First(T) <= m
         /\ n \in T /\ (\A m \in T : n <= m) => Reader!First(T) = n
<1>1. T # {} => \E x \in T : \A m \in T : x <= m
  BY NatLeast
<1>2. Reader!First(T) = CHOOSE x \in T : \A m \in T : x <= m
  BY DEF Reader!First
<1>3. T # {} => Reader!First(T) \in T /\ \A m \in T : Reader!First(T) <= m
  BY <1>1, <1>2
<1>4. ASSUME n \in T, \A m \in T : n <= m PROVE Reader!First(T) = n
  <2>1. Reader!First(T) \in T /\ Reader!First(T) <= n /\ n <= Reader!First(T)
    BY <1>3, <1>4
  <2>2. Reader!First(T) \in Nat
    BY <2>1
  <2>. QED BY <2>1, <2>2
<1>. QED BY <1>3, <1>4

\* The first entries are those IniFiles speaks of.
LEMMA FirstsSame ==
  ASSUME IsIni(ini)
  PROVE  Reader!Firsts = FirstsIn(ini)
<1>. DEFINE T(n) == {m \in FoundIn(ini) : KeyAt(ini, m) = KeyAt(ini, n)}
<1>1. Reader!Firsts = {n \in FoundIn(ini) : Reader!First(T(n)) = n}
  <2>1. \A n : Reader!Hit(Reader!PayloadOf(n)) = HitAt(ini, n)
    BY SameList DEF HitAt
  <2>2. \A n : Reader!Aliases(n) = T(n)
    BY SameList
  <2>3. Reader!Firsts = {n \in Positions(ini) : HitAt(ini, n).tag = "found" /\ Reader!First(T(n)) = n}
    <3>. HIDE DEF T
    <3>. QED BY <2>1, <2>2, SameList DEF Reader!Firsts
  <2>. QED BY <2>3 DEF FoundIn
<1>2. ASSUME NEW n \in FoundIn(ini)
      PROVE  Reader!First(T(n)) = n <=> \A m \in FoundIn(ini) : KeyAt(ini, m) = KeyAt(ini, n) => n <= m
  <2>1. T(n) \subseteq Nat /\ n \in T(n) /\ n \in Nat
    BY RanksAre
  <2>2. Reader!First(T(n)) = n <=> \A m \in T(n) : n <= m
    <3>. HIDE DEF T
    <3>. QED BY <2>1, FirstIs
  <2>. QED BY <2>2
<1>. QED BY <1>1, <1>2 DEF FirstsIn

\* The best entry of a name is the one IniFiles speaks of.
LEMMA BestSame ==
  ASSUME IsIni(ini), NEW n \in FoundIn(ini), NEW k \in Nat, k = Flashes(ini) + Securities(ini),
         NEW b, IsBest(ini, k, n, b)
  PROVE  Reader!Best(Reader!Aliases(n)) = b
<1>. DEFINE A == Reader!Aliases(n)
            B == {m \in A : \A x \in A : Reader!Hit(Reader!PayloadOf(m)).rank <= Reader!Hit(Reader!PayloadOf(x)).rank}
<1>1. A = {m \in FoundIn(ini) : KeyAt(ini, m) = KeyAt(ini, n)}
  BY SameList
<1>2. \A m : Reader!Hit(Reader!PayloadOf(m)) = HitAt(ini, m)
  BY SameList DEF HitAt
<1>3. \A m \in FoundIn(ini) : m \in Nat /\ m <= k /\ HitAt(ini, m).rank \in Nat
  <2>1. \A m \in FoundIn(ini) : m \in Positions(ini)
    BY DEF FoundIn
  <2>. QED BY <2>1, RanksAre DEF Positions
<1>4. b \in A /\ \A m \in A : Beats(ini, b, m)
  BY <1>1, <1>3 DEF IsBest
<1>5. B = {m \in A : \A x \in A : HitAt(ini, m).rank <= HitAt(ini, x).rank}
  BY <1>2
<1>6. b \in B /\ \A m \in B : b <= m
  <2>. HIDE DEF A
  <2>1. A \subseteq FoundIn(ini)
    BY <1>1
  <2>. QED BY <1>3, <1>4, <1>5, <2>1 DEF Beats
<1>7. B \subseteq Nat
  BY <1>1, <1>3
<1>8. Reader!First(B) = b
  <2>. HIDE DEF B
  <2>. QED BY <1>6, <1>7, FirstIs
<1>. QED BY <1>8 DEF Reader!Best

\* When all is read.
LEMMA ReadAll ==
  ASSUME ReaderInv, phase = "done"
  PROVE  /\ Len(stored) = Cardinality(Reader!Firsts)
         /\ \A n \in Reader!Firsts :
              LET place == Cardinality({m \in Reader!Firsts : m <= n})
              IN  /\ stored[place].name = Reader!StoredName(Reader!PayloadOf(n), ini.jtag)
                  /\ stored[place].from = Reader!Listed[Reader!Best(Reader!Aliases(n))]
<1>. DEFINE k == Flashes(ini) + Securities(ini)
<1>1. IsIni(ini) /\ k \in Nat /\ Kept(ini, stored, k)
  BY IniSizes DEF ReaderInv, EntriesRead
<1>2. Reader!Firsts = FirstsIn(ini)
  BY <1>1, FirstsSame
<1>3. \A n \in FirstsIn(ini) : n \in FoundIn(ini) /\ n <= k
  <2>1. \A n \in FirstsIn(ini) : n \in FoundIn(ini) /\ n \in Positions(ini)
    BY DEF FirstsIn, FoundIn
  <2>. QED BY <1>1, <2>1 DEF Positions
<1>4. Len(stored) = Cardinality(Reader!Firsts)
  <2>1. {m \in FirstsIn(ini) : m <= k} = FirstsIn(ini)
    BY <1>3
  <2>. HIDE DEF k
  <2>. QED BY <1>1, <1>2, <2>1 DEF Kept, PlaceIn
<1>5. ASSUME NEW n \in FirstsIn(ini)
      PROVE  /\ stored[PlaceIn(ini, n)].name = Reader!StoredName(Reader!PayloadOf(n), ini.jtag)
             /\ stored[PlaceIn(ini, n)].from = Reader!Listed[Reader!Best(Reader!Aliases(n))]
  <2>1. Holds(ini, stored, k, n)
    BY <1>1, <1>3 DEF Kept
  <2>2. PICK b \in FoundIn(ini) : IsBest(ini, k, n, b) /\ stored[PlaceIn(ini, n)].from = ListedOf(ini)[b]
    BY <2>1 DEF Holds
  <2>3. Reader!Best(Reader!Aliases(n)) = b
    <3>. HIDE DEF k
    <3>1. k = Flashes(ini) + Securities(ini)
      BY DEF k
    <3>. QED BY <1>1, <1>3, <2>2, <3>1, BestSame
  <2>4. stored[PlaceIn(ini, n)].name = NameAt(ini, n)
    BY <2>1 DEF Holds
  <2>. QED BY <1>1, <2>2, <2>3, <2>4, SameList DEF NameAt
<1>. QED BY <1>2, <1>4, <1>5 DEF PlaceIn

(* The payloads a build reads are those its INI lists and a root has, each once, in the order    *)
(* first listed, from the best-ranked of its aliases (read_ini_files), for any requests.         *)
THEOREM PayloadsRead == Spec => []PayloadsOnceFromBestSource
<1>1. ReaderInv => PayloadsOnceFromBestSource
  BY ReadAll, SameCount DEF PayloadsOnceFromBestSource, Reader!PayloadsOnceFromBestSource
<1>. QED BY ReaderInit, ReaderStep, <1>1, PTL DEF Spec
-----------------------------------------------------------------------------
(***************************************************************************)
(* Files laid over others.                                                 *)
(***************************************************************************)

FileKey(f) == KeyOf(f.name)
KeysApart(files) == \A m, n \in DOMAIN files : FileKey(files[m]) = FileKey(files[n]) => m = n

\* A set that holds 0 and the successor of each of its naturals holds them all.
LEMMA NatInductionOnSets ==
  ASSUME NEW S, 0 \in S, \A n \in Nat : n \in S => n + 1 \in S
  PROVE  Nat \subseteq S
<1>. DEFINE T == Nat \ S
<1>1. SUFFICES ASSUME T # {} PROVE FALSE
  OBVIOUS
<1>2. PICK x \in T : \A y \in T : x =< y
  BY <1>1, NatLeast
<1>3. x # 0 /\ x - 1 \in Nat /\ x - 1 \notin T
  BY <1>2
<1>. QED BY <1>2, <1>3

\* The place of a name is where a file of it is, 0 for none.
LEMMA PlaceIs ==
  ASSUME NEW S, NEW files \in Seq(S), NEW name
  PROVE  /\ PlaceOf(files, name) = 0 <=> \A n \in DOMAIN files : FileKey(files[n]) # KeyOf(name)
         /\ PlaceOf(files, name) # 0 => /\ PlaceOf(files, name) \in DOMAIN files
                                       /\ FileKey(files[PlaceOf(files, name)]) = KeyOf(name)
<1>. DEFINE same == {n \in 1 .. Len(files) : KeyOf(files[n].name) = KeyOf(name)}
<1>1. PlaceOf(files, name) = IF same # {} THEN Min(same) ELSE 0
  BY DEF PlaceOf, SelectInSeq
<1>2. DOMAIN files = 1 .. Len(files)
  OBVIOUS
<1>3. CASE same = {}
  BY <1>1, <1>2, <1>3 DEF FileKey
<1>4. CASE same # {}
  <2>1. same \subseteq Nat
    OBVIOUS
  <2>2. Min(same) \in same
    <3>. HIDE DEF same
    <3>. QED BY <1>4, <2>1, MinIs
  <2>. QED BY <1>1, <1>2, <2>2 DEF FileKey
<1>. QED BY <1>3, <1>4

\* A file laid takes the place of the one of its name, and is the only one of it.
LEMMA OverlayIs ==
  ASSUME NEW S, NEW files \in Seq(S), NEW file \in S, KeysApart(files)
  PROVE  /\ Overlay(files, file) \in Seq(S) /\ KeysApart(Overlay(files, file))
         /\ \A n \in DOMAIN Overlay(files, file) :
              \/ Overlay(files, file)[n] = file
              \/ \E m \in DOMAIN files : /\ Overlay(files, file)[n] = files[m]
                                        /\ FileKey(files[m]) # FileKey(file)
         /\ \E n \in DOMAIN Overlay(files, file) : Overlay(files, file)[n] = file
         /\ \A m \in DOMAIN files : \E n \in DOMAIN Overlay(files, file) :
              FileKey(Overlay(files, file)[n]) = FileKey(files[m])
<1>. DEFINE place == PlaceOf(files, file.name)
            over == Overlay(files, file)
<1>0. DOMAIN files = 1 .. Len(files) /\ Len(files) \in Nat
  OBVIOUS
<1>1. CASE place = 0
  <2>1. over = Append(files, file)
    BY <1>1 DEF Overlay
  <2>2. \A n \in DOMAIN files : FileKey(files[n]) # FileKey(file)
    BY <1>1, PlaceIs DEF FileKey
  <2>3. /\ over \in Seq(S) /\ DOMAIN over = 1 .. Len(files) + 1
        /\ \A n \in 1 .. Len(files) : over[n] = files[n]
        /\ over[Len(files) + 1] = file
    <3>. HIDE DEF over
    <3>. QED BY <2>1
  <2>. HIDE DEF over
  <2>4. KeysApart(over)
    BY <1>0, <2>2, <2>3 DEF KeysApart
  <2>5. \A n \in DOMAIN over :
          \/ over[n] = file
          \/ \E m \in DOMAIN files : over[n] = files[m] /\ FileKey(files[m]) # FileKey(file)
    BY <1>0, <2>2, <2>3
  <2>6. \E n \in DOMAIN over : over[n] = file
    BY <1>0, <2>3
  <2>7. \A m \in DOMAIN files : \E n \in DOMAIN over : FileKey(over[n]) = FileKey(files[m])
    BY <1>0, <2>3
  <2>. QED BY <2>3, <2>4, <2>5, <2>6, <2>7 DEF over
<1>2. CASE place # 0
  <2>1. over = [files EXCEPT ![place] = file]
    BY <1>2 DEF Overlay
  <2>2. place \in DOMAIN files /\ FileKey(files[place]) = FileKey(file)
    BY <1>2, PlaceIs DEF FileKey
  <2>. HIDE DEF place
  <2>3. /\ over \in Seq(S) /\ DOMAIN over = DOMAIN files
        /\ \A n \in DOMAIN files : over[n] = IF n = place THEN file ELSE files[n]
    <3>. HIDE DEF over
    <3>. QED BY <2>1, <2>2
  <2>. HIDE DEF over
  <2>4. \A n \in DOMAIN files : FileKey(over[n]) = FileKey(files[n])
    BY <2>2, <2>3
  <2>5. KeysApart(over)
    BY <2>3, <2>4 DEF KeysApart
  <2>6. \A n \in DOMAIN over :
          \/ over[n] = file
          \/ \E m \in DOMAIN files : over[n] = files[m] /\ FileKey(files[m]) # FileKey(file)
    BY <2>2, <2>3 DEF KeysApart
  <2>7. \E n \in DOMAIN over : over[n] = file
    BY <2>2, <2>3
  <2>8. \A m \in DOMAIN files : \E n \in DOMAIN over : FileKey(over[n]) = FileKey(files[m])
    BY <2>3, <2>4
  <2>. QED BY <2>3, <2>5, <2>6, <2>7, <2>8 DEF over
<1>. QED BY <1>1, <1>2

\* Laid is held with the files taken among the first k of files laid over it.
LaidOver(S, held, files, taken, k, laid) ==
  /\ laid \in Seq(S) /\ KeysApart(laid)
  /\ \A n \in DOMAIN laid :
       \/ \E m \in taken : m <= k /\ laid[n] = files[m]
       \/ \E p \in DOMAIN held : /\ laid[n] = held[p]
                                /\ \A m \in taken : m <= k => FileKey(files[m]) # FileKey(held[p])
  /\ \A m \in taken : m <= k => \E n \in DOMAIN laid : FileKey(laid[n]) = FileKey(files[m])
  /\ \A p \in DOMAIN held : \E n \in DOMAIN laid : FileKey(laid[n]) = FileKey(held[p])

\* One more file laid.
LEMMA LaidOne ==
  ASSUME NEW S, NEW held \in Seq(S), NEW files \in Seq(S), NEW taken, taken \subseteq DOMAIN files,
         NEW k \in Nat, k + 1 \in DOMAIN files, NEW laid, LaidOver(S, held, files, taken, k, laid)
  PROVE  LaidOver(S, held, files, taken, k + 1,
                  IF k + 1 \in taken THEN Overlay(laid, files[k + 1]) ELSE laid)
<1>. DEFINE e == k + 1
            over == Overlay(laid, files[e])
<1>0. e \in Nat /\ \A m \in taken : m \in Nat /\ (m <= e <=> (m <= k \/ m = e))
  OBVIOUS
<1>1. CASE e \notin taken
  <2>1. \A m \in taken : m <= e <=> m <= k
    BY <1>0, <1>1
  <2>2. LaidOver(S, held, files, taken, e, laid)
    <3>. HIDE DEF e
    <3>. QED BY <2>1 DEF LaidOver
  <2>. QED BY <1>1, <2>2
<1>2. CASE e \in taken
  <2>0. laid \in Seq(S) /\ KeysApart(laid) /\ files[e] \in S
    BY DEF LaidOver
  <2>1. /\ over \in Seq(S) /\ KeysApart(over)
        /\ \A n \in DOMAIN over :
             \/ over[n] = files[e]
             \/ \E m \in DOMAIN laid : over[n] = laid[m] /\ FileKey(laid[m]) # FileKey(files[e])
        /\ \E n \in DOMAIN over : over[n] = files[e]
        /\ \A m \in DOMAIN laid : \E n \in DOMAIN over : FileKey(over[n]) = FileKey(laid[m])
    <3>. DEFINE file == files[e]
                o == Overlay(laid, file)
    <3>1. laid \in Seq(S) /\ KeysApart(laid) /\ file \in S
      BY <2>0
    <3>. HIDE DEF file
    <3>2. o \in Seq(S) /\ KeysApart(o)
      BY <3>1, OverlayIs
    <3>3. \A n \in DOMAIN o : o[n] = file \/ \E m \in DOMAIN laid : o[n] = laid[m] /\ FileKey(laid[m]) # FileKey(file)
      BY <3>1, OverlayIs
    <3>4. \E n \in DOMAIN o : o[n] = file
      BY <3>1, OverlayIs
    <3>5. \A m \in DOMAIN laid : \E n \in DOMAIN o : FileKey(o[n]) = FileKey(laid[m])
      BY <3>1, OverlayIs
    <3>. QED BY <3>2, <3>3, <3>4, <3>5 DEF file
  <2>. HIDE DEF e, over
  <2>2. ASSUME NEW n \in DOMAIN over
        PROVE  \/ \E m \in taken : m <= e /\ over[n] = files[m]
               \/ \E p \in DOMAIN held : /\ over[n] = held[p]
                                        /\ \A m \in taken : m <= e => FileKey(files[m]) # FileKey(held[p])
    <3>1. CASE over[n] = files[e]
      BY <1>0, <1>2, <3>1
    <3>2. ASSUME NEW q \in DOMAIN laid, over[n] = laid[q], FileKey(laid[q]) # FileKey(files[e])
          PROVE  \/ \E m \in taken : m <= e /\ over[n] = files[m]
                 \/ \E p \in DOMAIN held : /\ over[n] = held[p]
                                          /\ \A m \in taken : m <= e => FileKey(files[m]) # FileKey(held[p])
      <4>1. CASE \E m \in taken : m <= k /\ laid[q] = files[m]
        BY <1>0, <3>2, <4>1
      <4>2. CASE \E p \in DOMAIN held : /\ laid[q] = held[p]
                                       /\ \A m \in taken : m <= k => FileKey(files[m]) # FileKey(held[p])
        BY <1>0, <3>2, <4>2
      <4>. QED BY <4>1, <4>2 DEF LaidOver
    <3>. QED BY <2>1, <3>1, <3>2
  <2>3. \A m \in taken : m <= e => \E n \in DOMAIN over : FileKey(over[n]) = FileKey(files[m])
    <3>1. ASSUME NEW m \in taken, m <= e PROVE \E n \in DOMAIN over : FileKey(over[n]) = FileKey(files[m])
      <4>1. CASE m = e
        BY <2>1, <4>1
      <4>2. CASE m <= k
        <5>1. PICK q \in DOMAIN laid : FileKey(laid[q]) = FileKey(files[m])
          BY <4>2 DEF LaidOver
        <5>. QED BY <2>1, <5>1
      <4>. QED BY <1>0, <3>1, <4>1, <4>2
    <3>. QED BY <3>1
  <2>4. \A p \in DOMAIN held : \E n \in DOMAIN over : FileKey(over[n]) = FileKey(held[p])
    BY <2>1 DEF LaidOver
  <2>5. LaidOver(S, held, files, taken, e, over)
    BY <2>1, <2>2, <2>3, <2>4 DEF LaidOver
  <2>. QED BY <1>2, <2>5 DEF e, over
<1>. QED BY <1>1, <1>2

\* All of them laid.
LEMMA OverlaidIs ==
  ASSUME NEW S, NEW held \in Seq(S), NEW files \in Seq(S), NEW taken, taken \subseteq DOMAIN files,
         KeysApart(held)
  PROVE  LaidOver(S, held, files, taken, Len(files), Overlaid(held, files, taken))
<1>. DEFINE N == Len(files)
            After(x, n) == IF n \in taken THEN Overlay(x, files[n]) ELSE x
            Rec(f, n) == f = [k \in 0 .. n |-> IF k = 0 THEN held ELSE After(f[k - 1], k)]
            T == {n \in Nat : \E f : Rec(f, n)}
            Good(x, k) == LaidOver(S, held, files, taken, k, x)
<1>0. N \in Nat /\ DOMAIN files = 1 .. N
  OBVIOUS
<1>1. Good(held, 0)
  <2>1. \A m \in taken : ~(m <= 0)
    BY <1>0
  <2>. QED BY <2>1 DEF LaidOver
<1>2. ASSUME NEW k \in Nat, k + 1 \in 1 .. N, NEW x, Good(x, k)
      PROVE  Good(After(x, k + 1), k + 1)
  BY <1>0, <1>2, LaidOne
<1>. HIDE DEF After, Good
<1>3. 0 \in T
  <2>. DEFINE f0 == [k \in 0 .. 0 |-> held]
  <2>1. f0 = [k \in 0 .. 0 |-> IF k = 0 THEN held ELSE After(f0[k - 1], k)]
    OBVIOUS
  <2>. QED BY <2>1
<1>4. ASSUME NEW n \in Nat, n \in T PROVE n + 1 \in T
  <2>1. PICK f : Rec(f, n)
    BY <1>4
  <2>. DEFINE g == [k \in 0 .. n + 1 |-> IF k =< n THEN f[k] ELSE After(f[n], n + 1)]
  <2>2. \A k \in 0 .. n : g[k] = f[k]
    OBVIOUS
  <2>3. \A k \in 0 .. n + 1 : g[k] = IF k = 0 THEN held ELSE After(g[k - 1], k)
    <3>. TAKE k \in 0 .. n + 1
    <3>1. CASE k = 0
      BY <2>1, <2>2, <3>1
    <3>2. CASE k # 0 /\ k =< n
      BY <2>1, <2>2, <3>2
    <3>3. CASE k = n + 1
      BY <2>2, <3>3
    <3>. QED BY <3>1, <3>2, <3>3
  <2>4. \E h : Rec(h, n + 1)
    <3>1. Rec(g, n + 1)
      BY <2>3
    <3>. HIDE DEF g
    <3>. QED BY <3>1
  <2>. HIDE DEF Rec
  <2>. QED BY <2>4
<1>5. N \in T
  <2>. HIDE DEF T
  <2>. QED BY <1>0, <1>3, <1>4, NatInductionOnSets
<1>. DEFINE laid == CHOOSE f : Rec(f, N)
<1>6. Rec(laid, N)
  <2>1. \E f : Rec(f, N)
    <3>. HIDE DEF Rec
    <3>. QED BY <1>5
  <2>. HIDE DEF Rec
  <2>. QED BY <2>1
<1>7. Overlaid(held, files, taken) = laid[N]
  BY DEF Overlaid, Rec, After
<1>. HIDE DEF laid
<1>. DEFINE U == {n \in Nat : n =< N => Good(laid[n], n)}
<1>8. N \in U
  <2>1. 0 \in U
    BY <1>0, <1>1, <1>6
  <2>2. ASSUME NEW n \in Nat, n \in U PROVE n + 1 \in U
    <3>. SUFFICES ASSUME n + 1 =< N PROVE Good(laid[n + 1], n + 1)
      OBVIOUS
    <3>1. Good(laid[n], n)
      BY <1>0, <2>2
    <3>2. n + 1 \in 0 .. N /\ n + 1 # 0 /\ (n + 1) - 1 = n /\ n + 1 \in 1 .. N
      BY <1>0
    <3>3. laid[n + 1] = After(laid[n], n + 1)
      BY <1>6, <3>2
    <3>. QED BY <1>2, <3>1, <3>2, <3>3
  <2>. HIDE DEF U
  <2>. QED BY <1>0, <2>1, <2>2, NatInductionOnSets
<1>9. Good(laid[N], N)
  BY <1>0, <1>8
<1>. QED BY <1>7, <1>9 DEF Good

-----------------------------------------------------------------------------
(***************************************************************************)
(* The order of the INI.                                                   *)
(***************************************************************************)

BaseAt(i, n) == BaseName(EntryAt(i, n))
Based(i, key) == {n \in Positions(i) : BaseAt(i, n) = key}
Bare(key) == [key EXCEPT !.digit = ""]
Size(i) == Flashes(i) + Securities(i)

\* A name the resolver takes apart is its own key.
LEMMA KeyOfBase ==
  ASSUME NEW e
  PROVE  KeyOf(BaseName(e)) = BaseName(e)
  BY DEF KeyOf, Reader!Key, BaseName

\* The order of the INI numbers its entries through.
LEMMA IniOrderIs ==
  ASSUME NEW i, IsIni(i)
  PROVE  Len(IniOrder(i)) = Size(i) /\ \A n \in Positions(i) : IniOrder(i)[n] = BaseAt(i, n)
<1>. DEFINE F == [n \in DOMAIN i.flashfs |-> KeyOf(BaseName(i.flashfs[n]))]
            G == [n \in DOMAIN i.security |-> KeyOf(BaseName(i.security[n]))]
            f == Flashes(i)
            g == Securities(i)
            S == {KeyOf(BaseName(i.flashfs[n])) : n \in DOMAIN i.flashfs}
                   \cup {KeyOf(BaseName(i.security[n])) : n \in DOMAIN i.security}
<1>1. f \in Nat /\ g \in Nat /\ DOMAIN i.flashfs = 1 .. f /\ DOMAIN i.security = 1 .. g
  BY DEF IsIni, IsList, Flashes, Securities
<1>2. F \in Seq(S) /\ G \in Seq(S) /\ Len(F) = f /\ Len(G) = g
  <2>1. F \in [1 .. f -> S] /\ G \in [1 .. g -> S]
    BY <1>1
  <2>. HIDE DEF F, G, S, f, g
  <2>. QED BY <1>1, <2>1
<1>3. IniOrder(i) = F \o G
  BY DEF IniOrder
<1>4. /\ Len(F \o G) = f + g
      /\ \A n \in 1 .. f : (F \o G)[n] = F[n]
      /\ \A n \in 1 .. g : (F \o G)[f + n] = G[n]
  <2>. HIDE DEF F, G, S, f, g
  <2>. QED BY <1>1, <1>2
<1>5. ASSUME NEW n \in Positions(i) PROVE IniOrder(i)[n] = BaseAt(i, n)
  <2>1. n \in 1 .. (f + g)
    BY DEF Positions
  <2>2. CASE n <= f
    <3>1. n \in DOMAIN i.flashfs /\ ListedOf(i)[n] = <<"flashfs", n>>
      BY <1>1, <2>1, <2>2 DEF ListedOf
    <3>2. IniOrder(i)[n] = KeyOf(BaseName(i.flashfs[n]))
      <4>1. (F \o G)[n] = F[n]
        <5>1. n \in 1 .. f
          BY <1>1, <2>1, <2>2
        <5>. HIDE DEF F, G, f
        <5>. QED BY <1>4, <5>1
      <4>. QED BY <1>3, <3>1, <4>1
    <3>. QED BY <3>1, <3>2, KeyOfBase DEF BaseAt, EntryAt
  <2>3. CASE n > f
    <3>1. n - f \in 1 .. g /\ n = f + (n - f)
      BY <1>1, <2>1, <2>3
    <3>2. n - f \in DOMAIN i.security /\ ListedOf(i)[n] = <<"security", n - f>>
      BY <1>1, <2>1, <2>3, <3>1 DEF ListedOf
    <3>3. IniOrder(i)[n] = KeyOf(BaseName(i.security[n - f]))
      <4>1. (F \o G)[n] = G[n - f]
        <5>. HIDE DEF F, G, f, g
        <5>. QED BY <1>4, <3>1
      <4>. QED BY <1>3, <3>2, <4>1
    <3>. QED BY <3>2, <3>3, KeyOfBase DEF BaseAt, EntryAt
  <2>. QED BY <1>1, <2>1, <2>2, <2>3
<1>. QED BY <1>3, <1>4, <1>5 DEF Size

\* The first of a list with a property.
LEMMA FirstInIs ==
  ASSUME NEW order, Len(order) \in Nat, NEW P, P \subseteq 1 .. Len(order)
  PROVE  /\ P # {} => Min(P) \in P /\ \A n \in P : Min(P) <= n
         /\ P # {} => Min(P) \in 1 .. Len(order)
<1>1. P \subseteq Nat
  OBVIOUS
<1>. QED BY <1>1, MinIs

\* A file's rank is the first entry of its name, else the first of its name less the update
\* slot's number, else past all of them.
LEMMA RankIs ==
  ASSUME NEW i, IsIni(i), NEW name
  PROVE  LET named == Based(i, KeyOf(name))
             bare == Based(i, Bare(KeyOf(name)))
         IN  /\ Rank(i, name) \in Nat
             /\ named # {} => Rank(i, name) = Min(named)
             /\ named = {} /\ bare # {} => Rank(i, name) = Min(bare)
             /\ named = {} /\ bare = {} => Rank(i, name) > Size(i)
<1>. DEFINE order == IniOrder(i)
            placed(key) == SelectInSeq(order, LAMBDA k : k = key)
            key == KeyOf(name)
            named == Based(i, key)
            bare == Based(i, Bare(key))
            secured == SelectInSeq(SecuredOrder, LAMBDA k : k = Bare(key))
<1>1. Len(order) = Size(i) /\ Size(i) \in Nat /\ Positions(i) = 1 .. Size(i)
  BY IniOrderIs, IniSizes DEF Size, Positions
<1>2. \A k : Based(i, k) = {n \in 1 .. Len(order) : order[n] = k}
  BY <1>1, IniOrderIs DEF Based
<1>3. \A k : placed(k) = IF Based(i, k) # {} THEN Min(Based(i, k)) ELSE 0
  BY <1>2 DEF SelectInSeq
<1>4. \A k : Based(i, k) # {} => Min(Based(i, k)) \in 1 .. Size(i)
  <2>1. \A k : Based(i, k) \subseteq 1 .. Size(i)
    BY <1>1 DEF Based
  <2>. QED BY <1>1, <2>1, FirstInIs
<1>5. secured \in Nat
  <2>. DEFINE T == {n \in 1 .. Len(SecuredOrder) : SecuredOrder[n] = Bare(key)}
  <2>1. secured = IF T # {} THEN Min(T) ELSE 0
    BY DEF SelectInSeq
  <2>2. T \subseteq Nat
    BY DEF SecuredOrder
  <2>3. T # {} => Min(T) \in T
    <3>. HIDE DEF T
    <3>. QED BY <2>2, MinIs
  <2>. HIDE DEF T
  <2>. QED BY <2>1, <2>2, <2>3
<1>6. Len(SecuredOrder) = 5
  BY DEF SecuredOrder
<1>7. Rank(i, name) = IF placed(key) # 0 THEN placed(key) ELSE IF placed(Bare(key)) # 0 THEN placed(Bare(key))
                      ELSE Len(order) + (IF secured # 0 THEN secured ELSE Len(SecuredOrder) + 1)
  BY DEF Rank, Bare
<1>. HIDE DEF placed, order, secured, key
<1>. QED BY <1>1, <1>3, <1>4, <1>5, <1>6, <1>7 DEF key

\* The files ordered are the files there were, none of them twice, by rank.
OrderedBy(i, files, out) ==
  \E c \in [1 .. Len(files) -> 1 .. Len(files)] :
    /\ out = [n \in 1 .. Len(files) |-> files[c[n]]]
    /\ \A a \in 1 .. Len(files) : \E n \in 1 .. Len(files) : c[n] = a
    /\ \A m, n \in 1 .. Len(files) :
         m < n => c[m] # c[n] /\ Rank(i, files[c[m]].name) <= Rank(i, files[c[n]].name)

\* There are n naturals from 1 to n, and as many below n.
LEMMA FirstNaturals ==
  ASSUME NEW n \in Nat
  PROVE  /\ IsFiniteSet(1 .. n) /\ Cardinality(1 .. n) = n
         /\ IsFiniteSet(0 .. n - 1) /\ Cardinality(0 .. n - 1) = n
<1>1. 0 \in Int /\ 1 \in Int /\ n \in Int /\ n - 1 \in Int
  OBVIOUS
<1>2. IsFiniteSet(1 .. n) /\ Cardinality(1 .. n) = IF 1 > n THEN 0 ELSE n - 1 + 1
  BY <1>1, FS_Interval
<1>3. IsFiniteSet(0 .. n - 1) /\ Cardinality(0 .. n - 1) = IF 0 > n - 1 THEN 0 ELSE n - 1 - 0 + 1
  BY <1>1, FS_Interval
<1>. QED BY <1>2, <1>3

\* Ordering leaves every file in one place, by rank.
LEMMA OrderedIs ==
  ASSUME NEW i, IsIni(i), NEW S, NEW files \in Seq(S)
  PROVE  OrderedBy(i, files, Ordered(i, files))
<1>. DEFINE N == Len(files)
            D == 1 .. N
            rank(a) == Rank(i, files[a].name)
            less(b, a) == rank(b) < rank(a) \/ (rank(b) = rank(a) /\ b < a)
            before(a) == {b \in D : less(b, a)}
            pos == [a \in D |-> Cardinality(before(a))]
<1>0. N \in Nat /\ DOMAIN files = D /\ \A a \in D : rank(a) \in Nat /\ a \in Nat
  BY RankIs
<1>1. Ordered(i, files) = [n \in D |-> files[CHOOSE a \in D : Cardinality(before(a)) = n - 1]]
  BY <1>0 DEF Ordered
<1>2. IsFiniteSet(D) /\ Cardinality(D) = N
  BY <1>0, FirstNaturals
<1>3. \A a, b, c \in D : /\ ~less(a, a)
                         /\ less(a, b) /\ less(b, c) => less(a, c)
                         /\ a # b => less(a, b) \/ less(b, a)
                         /\ less(a, b) => rank(a) <= rank(b)
  <2>. HIDE DEF rank
  <2>. QED BY <1>0
<1>. HIDE DEF less, D, rank
<1>4. \A a \in D : IsFiniteSet(before(a)) /\ Cardinality(before(a)) \in Nat /\ Cardinality(before(a)) < N
  <2>. TAKE a \in D
  <2>1. before(a) \in SUBSET D /\ a \notin before(a)
    BY <1>3
  <2>. HIDE DEF before
  <2>2. IsFiniteSet(before(a)) /\ Cardinality(before(a)) <= N /\ Cardinality(before(a)) # N
    BY <1>2, <2>1, FS_Subset
  <2>3. Cardinality(before(a)) \in Nat
    BY <2>2, FS_CardinalityType
  <2>. QED BY <1>0, <2>2, <2>3
<1>5. \A a, b \in D : less(a, b) => Cardinality(before(a)) < Cardinality(before(b))
  <2>. TAKE a, b \in D
  <2>. SUFFICES ASSUME less(a, b) PROVE Cardinality(before(a)) < Cardinality(before(b))
    OBVIOUS
  <2>1. before(a) \in SUBSET before(b) /\ a \notin before(a) /\ a \in before(b)
    BY <1>3
  <2>. HIDE DEF before
  <2>2. Cardinality(before(a)) <= Cardinality(before(b)) /\ Cardinality(before(a)) # Cardinality(before(b))
    BY <1>4, <2>1, FS_Subset
  <2>. QED BY <1>4, <2>2
<1>. HIDE DEF before
<1>6. pos \in Injection(D, 0 .. N - 1)
  <2>1. \A a \in D : pos[a] \in 0 .. N - 1
    BY <1>0, <1>4
  <2>2. \A a, b \in D : pos[a] = pos[b] => a = b
    BY <1>3, <1>4, <1>5
  <2>3. pos \in [D -> 0 .. N - 1]
    BY <2>1
  <2>. HIDE DEF pos
  <2>. QED BY <2>2, <2>3 DEF Injection, IsInjective
<1>7. pos \in Surjection(D, 0 .. N - 1)
  <2>1. IsFiniteSet(0 .. N - 1) /\ Cardinality(0 .. N - 1) = N
    BY <1>0, FirstNaturals
  <2>. HIDE DEF pos
  <2>. QED BY <1>2, <1>6, <2>1, FS_Injection
<1>. DEFINE placed(n) == CHOOSE a \in D : Cardinality(before(a)) = n - 1
            c == [n \in D |-> placed(n)]
<1>8. \A n \in D : placed(n) \in D /\ Cardinality(before(placed(n))) = n - 1
  <2>1. \A n \in D : n - 1 \in 0 .. N - 1
    BY <1>0 DEF D
  <2>2. \A m \in 0 .. N - 1 : \E a \in D : Cardinality(before(a)) = m
    BY <1>7 DEF Surjection
  <2>. QED BY <2>1, <2>2
<1>. HIDE DEF placed
<1>9. c \in [D -> D] /\ Ordered(i, files) = [n \in D |-> files[c[n]]]
  BY <1>1, <1>8 DEF placed
<1>10. \A a \in D : \E n \in D : c[n] = a
  <2>. TAKE a \in D
  <2>. DEFINE n == Cardinality(before(a)) + 1
  <2>1. n \in D /\ n - 1 = Cardinality(before(a))
    BY <1>0, <1>4 DEF D
  <2>2. c[n] \in D /\ Cardinality(before(c[n])) = Cardinality(before(a))
    BY <1>8, <2>1
  <2>3. c[n] = a
    <3>. HIDE DEF c, n
    <3>1. ~less(c[n], a) /\ ~less(a, c[n])
      BY <1>4, <1>5, <2>2
    <3>. QED BY <1>3, <2>2, <3>1
  <2>. QED BY <2>1, <2>3
<1>11. \A m, n \in D : m < n => c[m] # c[n] /\ rank(c[m]) <= rank(c[n])
  <2>. TAKE m, n \in D
  <2>. SUFFICES ASSUME m < n PROVE c[m] # c[n] /\ rank(c[m]) <= rank(c[n])
    OBVIOUS
  <2>1. c[m] \in D /\ c[n] \in D /\ Cardinality(before(c[m])) < Cardinality(before(c[n]))
    BY <1>0, <1>8 DEF D
  <2>. HIDE DEF c
  <2>2. c[m] # c[n] /\ ~less(c[n], c[m])
    BY <1>4, <1>5, <2>1
  <2>. QED BY <1>3, <2>1, <2>2
<1>. HIDE DEF c
<1>. QED BY <1>9, <1>10, <1>11 DEF OrderedBy, D, rank

-----------------------------------------------------------------------------
(***************************************************************************)
(* The files of the image.                                                 *)
(***************************************************************************)

NamedOrStored(i, key) == {n \in Positions(i) : key \in {KeyAt(i, n), BaseAt(i, n)}}
Apart(i) ==
  \A m, n \in Positions(i) : /\ BaseAt(i, m) = BaseAt(i, n) => KeyAt(i, m) = KeyAt(i, n)
                             /\ KeyAt(i, m) = BaseAt(i, n) => BaseAt(i, m) = BaseAt(i, n)

\* A name in the image is that of an entry, the one an entry is stored under, or has no number.
Nameable(i, key) ==
  \/ Based(i, key) # {}
  \/ \E n \in Positions(i) : KeyAt(i, n) = key
  \/ key = Bare(key)

\* Two functions that agree are the same.
LEMMA SameFunction ==
  ASSUME NEW f, NEW g, f = [x \in DOMAIN f |-> f[x]], g = [x \in DOMAIN g |-> g[x]],
         DOMAIN f = DOMAIN g, \A x \in DOMAIN f : f[x] = g[x]
  PROVE  f = g
  OBVIOUS

\* A name less its update slot's number.
LEMMA BareIs ==
  ASSUME NEW a, NEW b, NEW c, NEW d
  PROVE  Bare([stem |-> a, ext |-> b, digit |-> c, case |-> d]) = [stem |-> a, ext |-> b, digit |-> "", case |-> d]
<1>. DEFINE D == {"stem", "ext", "digit", "case"}
            s == [stem |-> a, ext |-> b, digit |-> "", case |-> d]
            t == Bare([stem |-> a, ext |-> b, digit |-> c, case |-> d])
<1>1. DOMAIN t = D /\ t = [x \in DOMAIN t |-> t[x]]
  BY DEF Bare
<1>2. DOMAIN s = D /\ s = [x \in DOMAIN s |-> s[x]]
  OBVIOUS
<1>3. t["stem"] = s["stem"]
  BY DEF Bare
<1>4. t["ext"] = s["ext"]
  BY DEF Bare
<1>5. t["digit"] = s["digit"]
  BY DEF Bare
<1>6. t["case"] = s["case"]
  BY DEF Bare
<1>. HIDE DEF s, t
<1>7. \A x \in D : t[x] = s[x]
  BY <1>3, <1>4, <1>5, <1>6
<1>. HIDE DEF D
<1>8. t = s
  BY SameFunction, <1>1, <1>2, <1>7
<1>. QED BY <1>8 DEF s, t

\* A name whatever its case.
LEMMA KeyIs ==
  ASSUME NEW a, NEW b, NEW c, NEW d
  PROVE  Reader!Key([stem |-> a, ext |-> b, case |-> d, digit |-> c]) = [stem |-> a, ext |-> b, digit |-> c, case |-> "any"]
<1>. DEFINE D == {"stem", "ext", "digit", "case"}
            s == [stem |-> a, ext |-> b, digit |-> c, case |-> "any"]
            t == Reader!Key([stem |-> a, ext |-> b, case |-> d, digit |-> c])
<1>1. DOMAIN t = D /\ t = [x \in DOMAIN t |-> t[x]]
  BY DEF Reader!Key
<1>2. DOMAIN s = D /\ s = [x \in DOMAIN s |-> s[x]]
  OBVIOUS
<1>3. t["stem"] = s["stem"]
  BY DEF Reader!Key
<1>4. t["ext"] = s["ext"]
  BY DEF Reader!Key
<1>5. t["digit"] = s["digit"]
  BY DEF Reader!Key
<1>6. t["case"] = s["case"]
  BY DEF Reader!Key
<1>. HIDE DEF s, t
<1>7. \A x \in D : t[x] = s[x]
  BY <1>3, <1>4, <1>5, <1>6
<1>. HIDE DEF D
<1>8. t = s
  BY SameFunction, <1>1, <1>2, <1>7
<1>. QED BY <1>8 DEF s, t

\* An entry stored under another name than its own is a dashboard patch without a number.
LEMMA StoredOtherwise ==
  ASSUME NEW i, NEW n
  PROVE  KeyAt(i, n) = BaseAt(i, n) \/ BaseAt(i, n) = Bare(KeyAt(i, n))
<1>. DEFINE e == EntryAt(i, n)
            key(digit) == [stem |-> e.stem, ext |-> e.ext, digit |-> digit, case |-> "any"]
<1>1. BaseAt(i, n) = key(e.digit)
  BY DEF BaseAt, BaseName
<1>2. KeyAt(i, n) = key(e.digit) \/ (e.digit = "" /\ KeyAt(i, n) \in {key("1"), key("2")})
  <2>. DEFINE suffixed == e.digit = "" /\ (e.ext \in {"xexp", "xttp"} \/ (e.ext = "bmp" /\ e.checksum))
              d == IF suffixed THEN IF i.jtag THEN "2" ELSE "1" ELSE e.digit
  <2>1. d = e.digit \/ (e.digit = "" /\ d \in {"1", "2"})
    OBVIOUS
  <2>2. NameAt(i, n) = [stem |-> e.stem, ext |-> e.ext, case |-> e.case, digit |-> d]
    BY DEF NameAt, Reader!StoredName
  <2>. HIDE DEF d
  <2>3. KeyAt(i, n) = key(d)
    BY <2>2, KeyIs DEF KeyAt
  <2>. QED BY <2>1, <2>3
<1>3. ASSUME NEW digit PROVE Bare(key(digit)) = key("")
  BY BareIs
<1>. HIDE DEF key, e
<1>. QED BY <1>1, <1>2, <1>3

\* The rank of a name is the place of its first entry, whichever of its names that goes by.
LEMMA RankIsPlace ==
  ASSUME NEW i, IsIni(i), Apart(i), NEW name, Nameable(i, KeyOf(name))
  PROVE  LET places == NamedOrStored(i, KeyOf(name))
         IN  IF places = {} THEN Rank(i, name) > Size(i) ELSE Rank(i, name) = Min(places) /\ Min(places) <= Size(i)
<1>. DEFINE key == KeyOf(name)
            named == Based(i, key)
            bare == Based(i, Bare(key))
            stored_at == NamedOrStored(i, key)
<1>1. \A n \in Positions(i) : KeyAt(i, n) = BaseAt(i, n) \/ BaseAt(i, n) = Bare(KeyAt(i, n))
  BY StoredOtherwise
<1>2. /\ named # {} => Rank(i, name) = Min(named)
      /\ named = {} /\ bare # {} => Rank(i, name) = Min(bare)
      /\ named = {} /\ bare = {} => Rank(i, name) > Size(i)
  BY RankIs
<1>3. stored_at # {} => Min(stored_at) <= Size(i)
  <2>1. stored_at \subseteq Nat /\ \A n \in stored_at : n <= Size(i)
    BY IniSizes DEF NamedOrStored, Positions, Size
  <2>. HIDE DEF stored_at
  <2>. QED BY <2>1, MinIs
<1>4. CASE named # {}
  <2>1. stored_at = named
    BY <1>4 DEF NamedOrStored, Based, Apart
  <2>. HIDE DEF stored_at, named
  <2>. QED BY <1>2, <1>3, <1>4, <2>1 DEF stored_at
<1>5. CASE named = {} /\ bare # {}
  <2>1. PICK n \in Positions(i) : KeyAt(i, n) = key
    BY <1>5 DEF Nameable, Based
  <2>2. BaseAt(i, n) = Bare(key)
    BY <1>1, <1>5, <2>1 DEF Based
  <2>3. stored_at = bare
    <3>1. ASSUME NEW m \in stored_at PROVE m \in bare
      <4>1. m \in Positions(i) /\ KeyAt(i, m) = key /\ BaseAt(i, m) # key
        BY <1>5 DEF NamedOrStored, Based
      <4>. QED BY <1>1, <4>1 DEF Based
    <3>2. ASSUME NEW m \in bare PROVE m \in stored_at
      <4>1. m \in Positions(i) /\ BaseAt(i, m) = Bare(key)
        BY DEF Based
      <4>2. KeyAt(i, m) = KeyAt(i, n)
        BY <2>2, <4>1 DEF Apart
      <4>. QED BY <2>1, <4>1, <4>2 DEF NamedOrStored
    <3>. QED BY <3>1, <3>2
  <2>. HIDE DEF stored_at, named, bare
  <2>. QED BY <1>2, <1>3, <1>5, <2>3 DEF stored_at
<1>6. CASE named = {} /\ bare = {}
  <2>1. stored_at = {}
    BY <1>1, <1>6 DEF NamedOrStored, Based
  <2>. QED BY <1>2, <1>6, <2>1
<1>. QED BY <1>4, <1>5, <1>6

\* The names in the image: the donor's that are carried, those the roots have, and the sealed
\* ones [security] lists.
CarriedKeys(r) == {KeyOf(DonorFiles(r)[n]) : n \in Carried(r)}
LooseKeys(s) == {KeyOf(s[p].name) : p \in DOMAIN s}
SealedKeys(r) ==
  IF r.nosusecurity THEN {} ELSE {BaseName(r.ini.security[n]) : n \in DOMAIN r.ini.security} \cap Sealed

FromDonor(r, s, f) == f.from[1] = "donor" /\ FileKey(f) \in CarriedKeys(r) /\ FileKey(f) \notin LooseKeys(s)
FromRoot(s, f) == \E p \in DOMAIN s : f.name = s[p].name /\ f.from = s[p].from
FromNothing(r, s, f) ==
  f.from[1] = "made" /\ FileKey(f) \in SealedKeys(r) /\ FileKey(f) \notin CarriedKeys(r) \cup LooseKeys(s)

\* What is in the image, before and after it is ordered.
HoldsAll(r, s, files) ==
  /\ KeysApart(files)
  /\ \A n \in DOMAIN files : FromDonor(r, s, files[n]) \/ FromRoot(s, files[n]) \/ FromNothing(r, s, files[n])
  /\ \A key \in CarriedKeys(r) \cup LooseKeys(s) \cup SealedKeys(r) : \E n \in DOMAIN files : FileKey(files[n]) = key

LooseOf(s) == [n \in DOMAIN s |-> [name |-> s[n].name, from |-> s[n].from]]
UnorderedOf(r, s) ==
  LET carried == Overlaid(<<>>, DonorRows(r), Carried(r))
      held == Overlaid(carried, LooseOf(s), DOMAIN s)
  IN  Overlaid(held, CleanRows(r), MadeUp(r, held))

\* The three lists laid over one another.
LEMMA RowsAre ==
  ASSUME NEW r, IsRequest(r), NEW R, NEW s \in Seq(R)
  PROVE  \E S : /\ DonorRows(r) \in Seq(S) /\ LooseOf(s) \in Seq(S) /\ CleanRows(r) \in Seq(S)
                /\ DOMAIN DonorRows(r) = DOMAIN DonorFiles(r) /\ DOMAIN LooseOf(s) = DOMAIN s
                /\ DOMAIN CleanRows(r) = DOMAIN r.ini.security
<1>. DEFINE S == {DonorRows(r)[n] : n \in DOMAIN DonorFiles(r)} \cup {LooseOf(s)[n] : n \in DOMAIN s}
                   \cup {CleanRows(r)[n] : n \in DOMAIN r.ini.security}
<1>1. \E k \in Nat : DOMAIN DonorFiles(r) = 1 .. k
  <2>1. IsList(r.donor.files)
    BY DEF IsRequest
  <2>2. DOMAIN <<>> = 1 .. 0
    OBVIOUS
  <2>3. CASE HasDonor(r)
    BY <2>1, <2>3 DEF DonorFiles, IsList
  <2>4. CASE ~HasDonor(r)
    BY <2>2, <2>4 DEF DonorFiles
  <2>. QED BY <2>3, <2>4
<1>2. \E k \in Nat : DOMAIN s = 1 .. k
  OBVIOUS
<1>3. \E k \in Nat : DOMAIN r.ini.security = 1 .. k
  <2>1. IsList(r.ini["security"])
    BY DEF IsRequest
  <2>. QED BY <2>1 DEF IsList
<1>4. ASSUME NEW T, NEW F, F = [n \in T |-> F[n]], \E k \in Nat : T = 1 .. k, \A n \in T : F[n] \in S
      PROVE  F \in Seq(S) /\ DOMAIN F = T
  <2>1. PICK k \in Nat : T = 1 .. k
    BY <1>4
  <2>2. F \in [1 .. k -> S]
    BY <1>4, <2>1
  <2>. QED BY <2>1, <2>2
<1>5. DonorRows(r) = [n \in DOMAIN DonorFiles(r) |-> DonorRows(r)[n]]
  BY DEF DonorRows
<1>6. LooseOf(s) = [n \in DOMAIN s |-> LooseOf(s)[n]]
  BY DEF LooseOf
<1>7. CleanRows(r) = [n \in DOMAIN r.ini.security |-> CleanRows(r)[n]]
  BY DEF CleanRows
<1>8. /\ \A n \in DOMAIN DonorFiles(r) : DonorRows(r)[n] \in S
      /\ \A n \in DOMAIN s : LooseOf(s)[n] \in S
      /\ \A n \in DOMAIN r.ini.security : CleanRows(r)[n] \in S
  OBVIOUS
<1>. HIDE DEF S
<1>. QED BY <1>1, <1>2, <1>3, <1>4, <1>5, <1>6, <1>7, <1>8

\* What each row is.
LEMMA RowNames ==
  ASSUME NEW r, NEW s
  PROVE  /\ \A n \in DOMAIN DonorFiles(r) : /\ DonorRows(r)[n].from[1] = "donor"
                                            /\ FileKey(DonorRows(r)[n]) = KeyOf(DonorFiles(r)[n])
         /\ \A n \in DOMAIN s : /\ LooseOf(s)[n].name = s[n].name /\ LooseOf(s)[n].from = s[n].from
                                /\ FileKey(LooseOf(s)[n]) = KeyOf(s[n].name)
         /\ \A n \in DOMAIN r.ini.security : /\ CleanRows(r)[n].from[1] = "made"
                                             /\ FileKey(CleanRows(r)[n]) = BaseName(r.ini.security[n])
  BY KeyOfBase DEF DonorRows, LooseOf, CleanRows, FileKey

\* The three lists laid over one another hold what they should.
LEMMA UnorderedIs ==
  ASSUME NEW r, IsRequest(r), NEW R, NEW s \in Seq(R)
  PROVE  \E S : UnorderedOf(r, s) \in Seq(S) /\ HoldsAll(r, s, UnorderedOf(r, s))
<1>. DEFINE D == DonorRows(r)
            L == LooseOf(s)
            M == CleanRows(r)
            c == Overlaid(<<>>, D, Carried(r))
            h == Overlaid(c, L, DOMAIN s)
            made == MadeUp(r, h)
            f == Overlaid(h, M, made)
<1>1. PICK S : /\ D \in Seq(S) /\ L \in Seq(S) /\ M \in Seq(S)
               /\ DOMAIN D = DOMAIN DonorFiles(r) /\ DOMAIN L = DOMAIN s
               /\ DOMAIN M = DOMAIN r.ini.security
  BY RowsAre
<1>2. LaidOver(S, <<>>, D, Carried(r), Len(D), c)
  <2>1. Carried(r) \subseteq DOMAIN D
    BY <1>1 DEF Carried
  <2>2. <<>> \in Seq(S) /\ KeysApart(<<>>)
    BY DEF KeysApart
  <2>. HIDE DEF D
  <2>. QED BY <1>1, <2>1, <2>2, OverlaidIs
<1>3. c \in Seq(S) /\ KeysApart(c)
  BY <1>2 DEF LaidOver
<1>4. LaidOver(S, c, L, DOMAIN s, Len(L), h)
  <2>. HIDE DEF c, L
  <2>. QED BY <1>1, <1>3, OverlaidIs
<1>5. h \in Seq(S) /\ KeysApart(h)
  BY <1>4 DEF LaidOver
<1>6. LaidOver(S, h, M, made, Len(M), f)
  <2>1. made \subseteq DOMAIN M
    BY <1>1 DEF MadeUp
  <2>. HIDE DEF h, M, made
  <2>. QED BY <1>1, <1>5, <2>1, OverlaidIs
<1>7. f \in Seq(S) /\ KeysApart(f)
  BY <1>6 DEF LaidOver
<1>8. /\ \A m \in Carried(r) : m <= Len(D) /\ FileKey(D[m]) = KeyOf(DonorFiles(r)[m]) /\ D[m].from[1] = "donor"
      /\ \A m \in DOMAIN s : /\ m <= Len(L) /\ FileKey(L[m]) = KeyOf(s[m].name)
                             /\ L[m].name = s[m].name /\ L[m].from = s[m].from
      /\ \A m \in DOMAIN r.ini.security : /\ m <= Len(M) /\ FileKey(M[m]) = BaseName(r.ini.security[m])
                                          /\ M[m].from[1] = "made"
  <2>1. /\ \A m \in DOMAIN D : m <= Len(D)
        /\ \A m \in DOMAIN L : m <= Len(L)
        /\ \A m \in DOMAIN M : m <= Len(M)
    <3>. HIDE DEF D, L, M
    <3>. QED BY <1>1
  <2>2. \A m \in Carried(r) : m \in DOMAIN DonorFiles(r)
    BY DEF Carried
  <2>. QED BY <1>1, <2>1, <2>2, RowNames
<1>. HIDE DEF D, L, M
\* The donor's files.
<1>9. /\ \A n \in DOMAIN c : c[n].from[1] = "donor" /\ FileKey(c[n]) \in CarriedKeys(r)
      /\ \A key \in CarriedKeys(r) : \E n \in DOMAIN c : FileKey(c[n]) = key
  <2>. HIDE DEF c
  <2>1. DOMAIN <<>> = {}
    OBVIOUS
  <2>2. \A n \in DOMAIN c : \E m \in Carried(r) : c[n] = D[m]
    BY <1>2, <2>1 DEF LaidOver
  <2>3. \A m \in Carried(r) : \E n \in DOMAIN c : FileKey(c[n]) = FileKey(D[m])
    BY <1>2, <1>8 DEF LaidOver
  <2>. QED BY <1>8, <2>2, <2>3 DEF CarriedKeys
\* The roots' over them.
<1>10. /\ \A n \in DOMAIN h : FromDonor(r, s, h[n]) \/ FromRoot(s, h[n])
       /\ \A key \in CarriedKeys(r) \cup LooseKeys(s) : \E n \in DOMAIN h : FileKey(h[n]) = key
  <2>. HIDE DEF c, h
  <2>1. ASSUME NEW n \in DOMAIN h PROVE FromDonor(r, s, h[n]) \/ FromRoot(s, h[n])
    <3>1. CASE \E m \in DOMAIN s : h[n] = L[m]
      BY <1>8, <3>1 DEF FromRoot
    <3>2. ASSUME NEW p \in DOMAIN c, h[n] = c[p], \A m \in DOMAIN s : m <= Len(L) => FileKey(L[m]) # FileKey(c[p])
          PROVE  FromDonor(r, s, h[n])
      <4>1. FileKey(h[n]) \notin LooseKeys(s)
        BY <1>8, <3>2 DEF LooseKeys
      <4>. QED BY <1>9, <3>2, <4>1 DEF FromDonor
    <3>. QED BY <1>4, <3>1, <3>2 DEF LaidOver
  <2>2. \A m \in DOMAIN s : \E n \in DOMAIN h : FileKey(h[n]) = FileKey(L[m])
    BY <1>4, <1>8 DEF LaidOver
  <2>3. \A p \in DOMAIN c : \E n \in DOMAIN h : FileKey(h[n]) = FileKey(c[p])
    BY <1>4 DEF LaidOver
  <2>4. \A key \in LooseKeys(s) : \E n \in DOMAIN h : FileKey(h[n]) = key
    BY <1>8, <2>2 DEF LooseKeys
  <2>5. \A key \in CarriedKeys(r) : \E n \in DOMAIN h : FileKey(h[n]) = key
    BY <1>9, <2>3
  <2>. QED BY <2>1, <2>4, <2>5
\* And what is made up.
<1>11. /\ \A m \in made : /\ m \in DOMAIN r.ini.security /\ BaseName(r.ini.security[m]) \in SealedKeys(r)
                          /\ \A n \in DOMAIN h : FileKey(h[n]) # BaseName(r.ini.security[m])
       /\ \A key \in SealedKeys(r) : \/ \E m \in made : BaseName(r.ini.security[m]) = key
                                     \/ \E n \in DOMAIN h : FileKey(h[n]) = key
  <2>. HIDE DEF h
  <2>1. \A name : PlaceOf(h, name) = 0 <=> \A n \in DOMAIN h : FileKey(h[n]) # KeyOf(name)
    BY <1>5, PlaceIs
  <2>2. \A e : PlaceOf(h, BaseName(e)) = 0 <=> \A n \in DOMAIN h : FileKey(h[n]) # BaseName(e)
    BY <2>1, KeyOfBase
  <2>. QED BY <2>2 DEF MadeUp, SealedKeys
<1>12. \A n \in DOMAIN f : FromDonor(r, s, f[n]) \/ FromRoot(s, f[n]) \/ FromNothing(r, s, f[n])
  <2>. HIDE DEF h, made, f
  <2>. TAKE n \in DOMAIN f
  <2>1. ASSUME NEW m \in made, f[n] = M[m] PROVE FromNothing(r, s, f[n])
    <3>1. FileKey(f[n]) = BaseName(r.ini.security[m]) /\ f[n].from[1] = "made"
      BY <1>8, <1>11, <2>1
    <3>2. FileKey(f[n]) \notin CarriedKeys(r) \cup LooseKeys(s)
      BY <1>10, <1>11, <3>1
    <3>. QED BY <1>11, <3>1, <3>2 DEF FromNothing
  <2>2. ASSUME NEW p \in DOMAIN h, f[n] = h[p] PROVE FromDonor(r, s, f[n]) \/ FromRoot(s, f[n])
    BY <1>10, <2>2
  <2>. QED BY <1>6, <2>1, <2>2 DEF LaidOver
<1>13. \A key \in CarriedKeys(r) \cup LooseKeys(s) \cup SealedKeys(r) : \E n \in DOMAIN f : FileKey(f[n]) = key
  <2>. HIDE DEF h, made, f
  <2>1. \A m \in made : \E n \in DOMAIN f : FileKey(f[n]) = BaseName(r.ini.security[m])
    BY <1>6, <1>8, <1>11 DEF LaidOver
  <2>2. \A p \in DOMAIN h : \E n \in DOMAIN f : FileKey(f[n]) = FileKey(h[p])
    BY <1>6 DEF LaidOver
  <2>3. \A key \in CarriedKeys(r) \cup LooseKeys(s) : \E n \in DOMAIN f : FileKey(f[n]) = key
    BY <1>10, <2>2
  <2>4. \A key \in SealedKeys(r) : \E n \in DOMAIN f : FileKey(f[n]) = key
    BY <1>11, <2>1, <2>2
  <2>. QED BY <2>3, <2>4
<1>14. UnorderedOf(r, s) = f
  BY DEF UnorderedOf, D, L, M
<1>. HIDE DEF f
<1>. QED BY <1>7, <1>12, <1>13, <1>14 DEF HoldsAll

\* The image holds what it should, by rank.
ListingIs(r, s, out) ==
  /\ HoldsAll(r, s, out)
  /\ Len(out) \in Nat /\ DOMAIN out = 1 .. Len(out)
  /\ \A m, n \in DOMAIN out : m < n => Rank(r.ini, out[m].name) <= Rank(r.ini, out[n].name)

\* The INI of a request.
LEMMA RequestIni ==
  ASSUME NEW r, IsRequest(r)
  PROVE  IsIni(r.ini)
  BY DEF IsRequest, IsIni

\* What is merged holds what it should, in order.
LEMMA MergedIs ==
  ASSUME NEW r, IsRequest(r), NEW R, NEW s \in Seq(R)
  PROVE  ListingIs(r, s, Ordered(r.ini, UnorderedOf(r, s)))
<1>. DEFINE files == UnorderedOf(r, s)
            out == Ordered(r.ini, files)
            N == Len(files)
<1>1. PICK S : files \in Seq(S) /\ HoldsAll(r, s, files)
  BY UnorderedIs
<1>2. OrderedBy(r.ini, files, out)
  <2>. HIDE DEF files
  <2>. QED BY <1>1, RequestIni, OrderedIs
<1>. HIDE DEF files, out
<1>3. PICK c \in [1 .. N -> 1 .. N] :
        /\ out = [n \in 1 .. N |-> files[c[n]]]
        /\ \A a \in 1 .. N : \E n \in 1 .. N : c[n] = a
        /\ \A m, n \in 1 .. N : m < n => c[m] # c[n] /\ Rank(r.ini, files[c[m]].name) <= Rank(r.ini, files[c[n]].name)
  BY <1>2 DEF OrderedBy
<1>4. N \in Nat /\ DOMAIN files = 1 .. N /\ files \in [1 .. N -> S]
  BY <1>1
<1>. HIDE DEF N
<1>5. /\ DOMAIN out = 1 .. N /\ Len(out) = N
      /\ \A n \in 1 .. N : out[n] = files[c[n]] /\ c[n] \in 1 .. N
  <2>1. out \in [1 .. N -> S]
    BY <1>3, <1>4
  <2>. QED BY <1>3, <1>4, <2>1
<1>6. KeysApart(out)
  <2>1. ASSUME NEW m \in 1 .. N, NEW n \in 1 .. N, FileKey(out[m]) = FileKey(out[n]) PROVE m = n
    <3>1. c[m] = c[n]
      BY <1>1, <1>4, <1>5, <2>1 DEF HoldsAll, KeysApart
    <3>2. ~(m < n) /\ ~(n < m)
      BY <1>3, <3>1
    <3>. QED BY <1>4, <3>2
  <2>. QED BY <1>5, <2>1 DEF KeysApart
<1>7. \A n \in 1 .. N : FromDonor(r, s, out[n]) \/ FromRoot(s, out[n]) \/ FromNothing(r, s, out[n])
  BY <1>1, <1>4, <1>5 DEF HoldsAll
<1>8. \A key \in CarriedKeys(r) \cup LooseKeys(s) \cup SealedKeys(r) : \E n \in 1 .. N : FileKey(out[n]) = key
  <2>. TAKE key \in CarriedKeys(r) \cup LooseKeys(s) \cup SealedKeys(r)
  <2>1. PICK a \in 1 .. N : FileKey(files[a]) = key
    BY <1>1, <1>4 DEF HoldsAll
  <2>2. PICK n \in 1 .. N : c[n] = a
    BY <1>3
  <2>. QED BY <1>5, <2>1, <2>2
<1>9. \A m, n \in 1 .. N : m < n => Rank(r.ini, out[m].name) <= Rank(r.ini, out[n].name)
  BY <1>3, <1>5
<1>. QED BY <1>4, <1>5, <1>6, <1>7, <1>8, <1>9 DEF ListingIs, HoldsAll, out, files

-----------------------------------------------------------------------------
(***************************************************************************)
(* The resolver's steps.                                                   *)
(***************************************************************************)

LacksAny(r) == \E section \in {"security", "flashfs"} : \E e \in ToSet(r.ini[section]) : Lacks(r, section, e)
AfterCheck == {"read", "console", "merge", "patches", "payloads", "validate", "done"}
AfterRead == AfterCheck \ {"read"}
AfterMerge == {"patches", "payloads", "validate", "done"}

ListingInv ==
  /\ IsRequest(request) /\ ini = request.ini
  /\ why = "PayloadNotFound" => LacksAny(request)
  /\ stage \in AfterCheck => ~LacksAny(request)
  /\ stage \in AfterRead => phase = "done"
  /\ stage \in AfterMerge => ListingIs(request, stored, listing)

\* Nothing is listed at first.
LEMMA ListingInit == Init => ListingInv
  BY RequestsAssumption DEF Init, ListingInv, AfterCheck, AfterRead, AfterMerge

\* A pass that refuses no payload and changes nothing of the listing.
LEMMA ListingPass ==
  ASSUME ListingInv, NEW from, NEW to, NEW checks, Len(checks) \in Nat,
         \A n \in 1 .. Len(checks) : checks[n].why # "PayloadNotFound",
         Pass(from, checks, to), UNCHANGED <<request, ini, phase, stored>>,
         to \in AfterCheck => from \in AfterCheck,
         to \in AfterRead => from \in AfterRead,
         to \in AfterMerge => from \in AfterMerge /\ listing' = listing
  PROVE  ListingInv'
<1>1. why' # "PayloadNotFound"
  BY FirstFailingIs DEF Pass
<1>2. stage = from /\ stage' \in {to, "refused"}
  BY DEF Pass
<1>3. /\ stage' \in AfterCheck => stage \in AfterCheck
      /\ stage' \in AfterRead => stage \in AfterRead
      /\ stage' \in AfterMerge => stage \in AfterMerge /\ listing' = listing
  BY <1>2 DEF AfterCheck, AfterRead, AfterMerge
<1>4. request' = request /\ ini' = ini /\ phase' = phase /\ stored' = stored
  OBVIOUS
<1>. QED BY <1>1, <1>3, <1>4 DEF ListingInv

\* The check refuses exactly what lacks a source.
LEMMA CheckKeeps == ListingInv /\ CheckListed => ListingInv'
<1>. SUFFICES ASSUME ListingInv, CheckListed PROVE ListingInv'
  OBVIOUS
<1>. DEFINE checks == Listings(request)
<1>1. /\ Len(checks) = 5
      /\ \A n \in 1 .. 5 : checks[n].why = "PayloadNotFound" => n = 5
      /\ checks[5].fails <=> LacksAny(request)
      /\ \A n \in 1 .. 5 : checks[n].why # "none"
  BY DEF Listings, PatchNames, Fault, LacksAny
<1>2. why' = FirstFailing(checks) /\ stage' = IF why' = "none" THEN "read" ELSE "refused"
  BY DEF CheckListed, Pass
<1>3. \/ why' = "none" /\ \A n \in 1 .. Len(checks) : ~checks[n].fails
      \/ \E n \in 1 .. Len(checks) : checks[n].fails /\ why' = checks[n].why
  <2>1. Len(checks) \in Nat /\ why' = FirstFailing(checks)
    BY <1>1, <1>2
  <2>. HIDE DEF checks
  <2>2. \/ FirstFailing(checks) = "none" /\ \A n \in 1 .. Len(checks) : ~checks[n].fails
        \/ \E n \in 1 .. Len(checks) : checks[n].fails /\ FirstFailing(checks) = checks[n].why
    BY <2>1, FirstFailingIs, Zenon
  <2>. QED BY <2>1, <2>2, Zenon
<1>. HIDE DEF checks
<1>4. why' = "PayloadNotFound" => LacksAny(request)
  BY <1>1, <1>3
<1>5. why' = "none" => ~LacksAny(request)
  BY <1>1, <1>3
<1>6. request' = request /\ ini' = ini
  BY DEF CheckListed, readerVars
<1>. QED BY <1>2, <1>4, <1>5, <1>6 DEF ListingInv, AfterCheck, AfterRead, AfterMerge

\* The merge makes the listing.
LEMMA MergeKeeps == ListingInv /\ ReaderInv /\ MergeFlashFS => ListingInv'
<1>. SUFFICES ASSUME ListingInv, ReaderInv, MergeFlashFS PROVE ListingInv'
  OBVIOUS
<1>1. stage = "merge" /\ stage' \in {"patches", "refused"} /\ why' # "PayloadNotFound"
  <2>1. Len(<<Unopened(request)>>) = 1 /\ \A n \in 1 .. 1 : <<Unopened(request)>>[n].why # "PayloadNotFound"
    BY DEF Unopened
  <2>. DEFINE checks == <<Unopened(request)>>
  <2>2. Len(checks) \in Nat /\ \A n \in 1 .. Len(checks) : checks[n].why # "PayloadNotFound"
    BY <2>1
  <2>3. Pass("merge", checks, "patches")
    BY DEF MergeFlashFS
  <2>. HIDE DEF checks
  <2>. QED BY <2>2, <2>3, FirstFailingIs DEF Pass
<1>2. request' = request /\ ini' = ini /\ phase' = phase /\ stored' = stored /\ listing' = Merged(request)
  BY DEF MergeFlashFS, readerVars
<1>3. phase = "done" /\ ~LacksAny(request) /\ IsRequest(request)
  BY <1>1 DEF ListingInv, AfterCheck, AfterRead
<1>4. \E R : stored \in Seq(R)
  BY <1>3 DEF ReaderInv, Kept
<1>5. Merged(request) = Ordered(request.ini, UnorderedOf(request, stored))
  BY DEF Merged, UnorderedOf, Loose, LooseOf
<1>6. ListingIs(request, stored, listing')
  BY <1>2, <1>3, <1>4, <1>5, MergedIs
<1>. QED BY <1>1, <1>2, <1>3, <1>6 DEF ListingInv, AfterCheck, AfterRead, AfterMerge

\* The console's checks say nothing of the payloads.
LEMMA ConsoleChecks ==
  ASSUME NEW r
  PROVE  Len(Console(r)) = 8 /\ \A n \in 1 .. 8 : Console(r)[n].why # "PayloadNotFound"
<1>. DEFINE rest == << [fails |-> "unreadable" \in {r.kv, r.smc}, why |-> "AssetNotFound"],
               [fails |-> ~HasDonor(r) /\ "absent" \in {r.kv, r.smc}, why |-> "IncompleteLooseDonor"],
               [fails |-> ~HasDonor(r) /\ \E m \in ToSet(Metadata) : Winner(r, m) = "none",
                why |-> "IncompleteLooseDonor"],
               [fails |-> r.kv = "refused" \/ (r.kv = "absent" /\ ~r.donor.kv), why |-> "InvalidInput"],
               [fails |-> r.mobile = "unreadable", why |-> "AssetNotFound"] >>
            firsts == [n \in DOMAIN Metadata |-> [fails |-> Malformed(r, Metadata[n]), why |-> "BadMetadata"]]
<1>1. firsts = << [fails |-> Malformed(r, "cb"), why |-> "BadMetadata"],
                  [fails |-> Malformed(r, "cf"), why |-> "BadMetadata"],
                  [fails |-> Malformed(r, "pairing"), why |-> "BadMetadata"] >>
  BY DEF Metadata
<1>2. Console(r) = firsts \o rest
  BY DEF Console
<1>3. /\ Len(Console(r)) = 8
      /\ \A n \in 1 .. 3 : Console(r)[n] = firsts[n]
      /\ \A n \in 1 .. 5 : Console(r)[n + 3] = rest[n]
  BY <1>1, <1>2
<1>4. \A n \in 1 .. 3 : firsts[n].why # "PayloadNotFound"
  BY <1>1
<1>5. \A n \in 1 .. 5 : rest[n].why # "PayloadNotFound"
  OBVIOUS
<1>. HIDE DEF firsts, rest
<1>6. \A n \in 1 .. 8 : n \in 1 .. 3 \/ (n - 3 \in 1 .. 5 /\ n = (n - 3) + 3)
  OBVIOUS
<1>. QED BY <1>3, <1>4, <1>5, <1>6

\* The invariant holds in every step.
LEMMA ListingStep == ListingInv /\ ReaderInv /\ [Next]_<<resolverVars, readerVars>> => ListingInv'
<1>. SUFFICES ASSUME ListingInv, ReaderInv, [Next]_<<resolverVars, readerVars>> PROVE ListingInv'
  OBVIOUS
<1>. USE DEF Fault, AfterCheck, AfterRead, AfterMerge
<1>1. CASE ResolveFoundations
  <2>1. Len(Foundations(request)) = 8 /\ \A n \in 1 .. 8 : Foundations(request)[n].why # "PayloadNotFound"
    BY DEF Foundations, OptionsFile, OptionsText, CliOptions
  <2>2. why' # "PayloadNotFound" /\ stage' \in {"check", "refused"} /\ request' = request /\ ini' = ini
    BY <1>1, <2>1, FirstFailingIs DEF ResolveFoundations, Pass, readerVars
  <2>. QED BY <2>2 DEF ListingInv
<1>2. CASE CheckListed
  BY <1>2, CheckKeeps
<1>3. CASE ReadIniFiles
  <2>1. UNCHANGED resolverVars /\ stage = "read"
    BY <1>3 DEF ReadIniFiles
  <2>2. request' = request /\ stage' = stage /\ why' = why
    BY <2>1 DEF resolverVars
  <2>3. ini' = ini
    BY <1>3 DEF ReadIniFiles, Reader!Next, Reader!Bootloader, Reader!Payload, Reader!RawPatch,
                Reader!EndSection, Reader!Fails
  <2>. QED BY <2>1, <2>2, <2>3 DEF ListingInv
<1>4. CASE TakeIniFiles
  <2>1. /\ phase \in {"done", "failed"} /\ request' = request /\ ini' = ini /\ phase' = phase
        /\ stage = "read" /\ stage' = IF why' = "none" THEN "console" ELSE "refused"
        /\ why' = FirstFailing(<<[fails |-> phase = "failed", why |-> "AssetNotFound"]>>)
    BY <1>4 DEF TakeIniFiles, Pass, readerVars
  <2>. DEFINE checks == <<[fails |-> phase = "failed", why |-> "AssetNotFound"]>>
  <2>2. Len(checks) = 1 /\ checks[1].why = "AssetNotFound" /\ (checks[1].fails <=> phase = "failed")
    OBVIOUS
  <2>. HIDE DEF checks
  <2>3. why' \in {"none", "AssetNotFound"} /\ (why' = "none" => phase # "failed")
    <3>1. why' = FirstFailing(checks)
      BY <2>1 DEF checks
    <3>. QED BY <2>2, <3>1, FirstFailingIs
  <2>. QED BY <2>1, <2>3 DEF ListingInv
<1>5. CASE TakeConsole
  <2>1. Len(Console(request)) = 8 /\ \A n \in 1 .. 8 : Console(request)[n].why # "PayloadNotFound"
    BY ConsoleChecks
  <2>2. UNCHANGED <<request, ini, phase, stored>>
    BY <1>5 DEF TakeConsole, readerVars
  <2>. QED BY <1>5, <2>1, <2>2, ListingPass DEF TakeConsole
<1>6. CASE MergeFlashFS
  BY <1>6, MergeKeeps
<1>7. CASE TakePatches
  <2>1. Len(Patches(request)) = 3 /\ \A n \in 1 .. 3 : Patches(request)[n].why # "PayloadNotFound"
    BY DEF Patches, Addons
  <2>2. UNCHANGED <<request, ini, phase, stored, listing>>
    BY <1>7 DEF TakePatches, readerVars
  <2>. QED BY <1>7, <2>1, <2>2, ListingPass DEF TakePatches
<1>8. CASE TakePayloads
  <2>1. Len(Payloads(request)) = 3 /\ \A n \in 1 .. 3 : Payloads(request)[n].why # "PayloadNotFound"
    BY DEF Payloads
  <2>2. UNCHANGED <<request, ini, phase, stored, listing>>
    BY <1>8 DEF TakePayloads, readerVars
  <2>. QED BY <1>8, <2>1, <2>2, ListingPass DEF TakePayloads
<1>9. CASE Validate
  <2>1. Len(Validations(request)) = 8 /\ \A n \in 1 .. 8 : Validations(request)[n].why # "PayloadNotFound"
    BY DEF Validations
  <2>2. UNCHANGED <<request, ini, phase, stored, listing>>
    BY <1>9 DEF Validate, readerVars
  <2>. QED BY <1>9, <2>1, <2>2, ListingPass DEF Validate
<1>10. CASE UNCHANGED <<resolverVars, readerVars>>
  <2>1. /\ request' = request /\ stage' = stage /\ why' = why /\ listing' = listing
        /\ ini' = ini /\ phase' = phase /\ stored' = stored
    BY <1>10 DEF resolverVars, readerVars
  <2>. QED BY <2>1 DEF ListingInv
<1>. QED BY <1>1, <1>2, <1>3, <1>4, <1>5, <1>6, <1>7, <1>8, <1>9, <1>10 DEF Next

-----------------------------------------------------------------------------
(***************************************************************************)
(* What the image holds, by the entries of the INI.                        *)
(***************************************************************************)

\* Each entry of a section is numbered, and each number is an entry.
LEMMA NumberedThrough ==
  ASSUME NEW r, IsRequest(r)
  PROVE  /\ \A n \in DOMAIN r.ini.flashfs : /\ n \in Positions(r.ini) /\ ListedOf(r.ini)[n] = <<"flashfs", n>>
                                            /\ EntryAt(r.ini, n) = r.ini.flashfs[n]
         /\ \A n \in DOMAIN r.ini.security :
              /\ Flashes(r.ini) + n \in Positions(r.ini)
              /\ ListedOf(r.ini)[Flashes(r.ini) + n] = <<"security", n>>
              /\ EntryAt(r.ini, Flashes(r.ini) + n) = r.ini.security[n]
         /\ \A n \in Positions(r.ini) :
              \/ /\ n \in DOMAIN r.ini.flashfs /\ ListedOf(r.ini)[n] = <<"flashfs", n>>
                 /\ EntryAt(r.ini, n) = r.ini.flashfs[n]
              \/ /\ n - Flashes(r.ini) \in DOMAIN r.ini.security
                 /\ ListedOf(r.ini)[n] = <<"security", n - Flashes(r.ini)>>
                 /\ EntryAt(r.ini, n) = r.ini.security[n - Flashes(r.ini)]
<1>. DEFINE i == r.ini
            f == Flashes(i)
            g == Securities(i)
<1>1. f \in Nat /\ g \in Nat /\ DOMAIN i["flashfs"] = 1 .. f /\ DOMAIN i["security"] = 1 .. g
  BY RequestIni DEF IsIni, IsList, Flashes, Securities
<1>2. Positions(i) = 1 .. (f + g)
  BY DEF Positions
<1>3. \A n \in 1 .. (f + g) : ListedOf(i)[n] = IF n <= f THEN <<"flashfs", n>> ELSE <<"security", n - f>>
  BY <1>2 DEF ListedOf
<1>4. \A n : EntryAt(i, n) = i[ListedOf(i)[n][1]][ListedOf(i)[n][2]]
  BY DEF EntryAt
<1>. HIDE DEF f, g, i
<1>5. \A n \in 1 .. f : n \in 1 .. (f + g) /\ n <= f
  BY <1>1
<1>6. \A n \in 1 .. g : f + n \in 1 .. (f + g) /\ ~(f + n <= f) /\ (f + n) - f = n
  BY <1>1
<1>7. \A n \in 1 .. (f + g) : IF n <= f THEN n \in 1 .. f ELSE n - f \in 1 .. g
  BY <1>1
<1>8. ASSUME NEW n \in 1 .. f
      PROVE  ListedOf(i)[n] = <<"flashfs", n>> /\ EntryAt(i, n) = i["flashfs"][n]
  <2>1. ListedOf(i)[n] = <<"flashfs", n>>
    BY <1>3, <1>5
  <2>. QED BY <1>4, <2>1
<1>9. ASSUME NEW n \in 1 .. g
      PROVE  ListedOf(i)[f + n] = <<"security", n>> /\ EntryAt(i, f + n) = i["security"][n]
  <2>1. ListedOf(i)[f + n] = <<"security", n>>
    BY <1>3, <1>6
  <2>. QED BY <1>4, <2>1
<1>10. ASSUME NEW n \in 1 .. (f + g)
       PROVE  \/ /\ n \in 1 .. f /\ ListedOf(i)[n] = <<"flashfs", n>>
                 /\ EntryAt(i, n) = i["flashfs"][n]
              \/ /\ n - f \in 1 .. g /\ ListedOf(i)[n] = <<"security", n - f>>
                 /\ EntryAt(i, n) = i["security"][n - f]
  <2>1. CASE n <= f
    BY <1>7, <1>8, <2>1
  <2>2. CASE ~(n <= f)
    <3>1. n - f \in 1 .. g /\ f + (n - f) = n
      BY <1>1, <1>7, <2>2
    <3>. QED BY <1>9, <3>1
  <2>. QED BY <2>1, <2>2
<1>. QED BY <1>1, <1>2, <1>5, <1>6, <1>8, <1>9, <1>10 DEF f, i

\* The entries listed are the numbered ones.
LEMMA ListedByNumber ==
  ASSUME NEW r, IsRequest(r)
  PROVE  \A e : e \in ListedBy(r) <=> \E n \in Positions(r.ini) : e = EntryAt(r.ini, n)
<1>1. ListedBy(r) = {r.ini.flashfs[n] : n \in DOMAIN r.ini.flashfs} \cup {r.ini.security[n] : n \in DOMAIN r.ini.security}
  BY DEF ListedBy, ToSet
<1>. QED BY <1>1, NumberedThrough

\* What the reader keeps: a file of each name it found, from one of its entries.
LEMMA LooseAre ==
  ASSUME NEW i, IsIni(i), NEW s, Kept(i, s, Size(i))
  PROVE  /\ \A p \in DOMAIN s : /\ \E n \in FoundIn(i) : KeyOf(s[p].name) = KeyAt(i, n)
                                /\ s[p].from[1] \in {"flashfs", "security"}
         /\ \A n \in FoundIn(i) : KeyAt(i, n) \in LooseKeys(s)
<1>1. Size(i) \in Nat /\ \A n \in FoundIn(i) : n <= Size(i) /\ n \in Positions(i)
  BY IniSizes DEF Size, FoundIn, Positions
<1>2. DOMAIN s = 1 .. Len(s)
  BY DEF Kept
<1>3. ASSUME NEW p \in 1 .. Len(s)
      PROVE  (\E n \in FoundIn(i) : KeyOf(s[p].name) = KeyAt(i, n)) /\ s[p].from[1] \in {"flashfs", "security"}
  <2>1. PICK n \in FirstsIn(i) : n <= Size(i) /\ PlaceIn(i, n) = p
    BY DEF Kept
  <2>2. Holds(i, s, Size(i), n)
    BY <2>1 DEF Kept
  <2>3. s[p].name = NameAt(i, n) /\ \E b \in FoundIn(i) : s[p].from = ListedOf(i)[b]
    BY <2>1, <2>2 DEF Holds
  <2>4. \A b \in FoundIn(i) : ListedOf(i)[b][1] \in {"flashfs", "security"}
    BY <1>1 DEF ListedOf
  <2>. QED BY <2>1, <2>3, <2>4 DEF FirstsIn, KeyAt, KeyOf
<1>4. ASSUME NEW n \in FoundIn(i) PROVE KeyAt(i, n) \in LooseKeys(s)
  <2>1. PICK m \in FirstsIn(i) : m <= n /\ KeyAt(i, m) = KeyAt(i, n)
    BY FirstOfName
  <2>2. m \in FoundIn(i) /\ m <= Size(i) /\ m \in Nat
    BY <1>1, <2>1, RanksAre DEF FirstsIn
  <2>3. PlaceIn(i, m) \in 1 .. Len(s)
    <3>1. Len(s) = PlaceIn(i, Size(i)) /\ PlaceIn(i, m) \in Nat \ {0} /\ PlaceIn(i, Size(i)) \in Nat
      BY <1>1, Places DEF Kept
    <3>2. PlaceIn(i, m) <= PlaceIn(i, Size(i))
      BY <1>1, <2>2, Places
    <3>. QED BY <3>1, <3>2
  <2>4. s[PlaceIn(i, m)].name = NameAt(i, m)
    BY <2>2 DEF Kept, Holds
  <2>. QED BY <1>2, <2>1, <2>3, <2>4 DEF LooseKeys, KeyAt, KeyOf
<1>. QED BY <1>2, <1>3, <1>4

\* A name listed as the donor's file is called is the entry's own.
LEMMA ListKeyIs ==
  ASSUME NEW e, NEW name, IsName(name), ListKey(e) = KeyOf(name)
  PROVE  BaseName(e) = KeyOf(name) /\ ~e.backslashes
<1>1. KeyOf(name).case = "any"
  BY DEF IsName, KeyOf, Reader!Key
<1>2. e.backslashes => ListKey(e).case = "path"
  BY DEF ListKey, BaseName
<1>3. ~e.backslashes => ListKey(e) = BaseName(e)
  BY DEF ListKey
<1>. QED BY <1>1, <1>2, <1>3

\* The console's own files carry no number.
LEMMA SecuredBare == \A key \in Secured : Bare(key) = key
<1>1. ASSUME NEW stem PROVE Bare(Binary(stem)) = Binary(stem)
  BY BareIs DEF Binary
<1>2. Secured = {Binary("crl"), Binary("dae"), Binary("extended"), Binary("secdata"), Binary("fcrt")}
  BY DEF Secured, SecuredOrder, ToSet
<1>. QED BY <1>1, <1>2

\* What a carried file of the donor is called.
LEMMA CarriedAre ==
  ASSUME NEW r, IsRequest(r), NEW key \in CarriedKeys(r)
  PROVE  /\ key \in DonorNames(r)
         /\ key \in Secured \/ \E n \in Positions(r.ini) : BaseAt(r.ini, n) = key
<1>1. PICK n \in Carried(r) : key = KeyOf(DonorFiles(r)[n])
  BY DEF CarriedKeys
<1>2. n \in DOMAIN DonorFiles(r) /\ Carries(r, DonorFiles(r)[n])
  BY DEF Carried
<1>3. IsName(DonorFiles(r)[n])
  BY <1>2 DEF DonorFiles, IsRequest
<1>4. DonorFiles(r)[n] \in ToSet(DonorFiles(r))
  BY <1>2 DEF ToSet
<1>5. key \in DonorNames(r)
  BY <1>1, <1>4 DEF DonorNames
<1>6. ASSUME NEW section \in {"security", "flashfs"}, NEW e \in ToSet(r.ini[section]), ListKey(e) = key
      PROVE  \E m \in Positions(r.ini) : BaseAt(r.ini, m) = key
  <2>1. BaseName(e) = key
    BY <1>1, <1>3, <1>6, ListKeyIs
  <2>2. e \in ListedBy(r)
    BY DEF ListedBy
  <2>3. PICK m \in Positions(r.ini) : e = EntryAt(r.ini, m)
    BY <2>2, ListedByNumber
  <2>. QED BY <2>1, <2>3 DEF BaseAt
<1>. QED BY <1>1, <1>2, <1>5, <1>6 DEF Carries

\* What a sealed name of [security] is.
LEMMA SealedAre ==
  ASSUME NEW r, IsRequest(r), NEW key \in SealedKeys(r)
  PROVE  key \in Sealed /\ ~r.nosusecurity /\ \E n \in Positions(r.ini) : BaseAt(r.ini, n) = key
  BY NumberedThrough DEF SealedKeys, BaseAt

\* Every file of the image has a name the INI's order knows.
LEMMA ImageNameable ==
  ASSUME NEW r, IsRequest(r), NEW s, Kept(r.ini, s, Size(r.ini)), NEW out, HoldsAll(r, s, out), NEW n \in DOMAIN out
  PROVE  Nameable(r.ini, FileKey(out[n]))
<1>1. CASE FromDonor(r, s, out[n])
  <2>1. FileKey(out[n]) \in CarriedKeys(r)
    BY <1>1 DEF FromDonor
  <2>. QED BY <2>1, CarriedAre, SecuredBare DEF Nameable, Based
<1>2. CASE FromRoot(s, out[n])
  <2>1. PICK p \in DOMAIN s : out[n].name = s[p].name
    BY <1>2 DEF FromRoot
  <2>2. PICK m \in FoundIn(r.ini) : FileKey(out[n]) = KeyAt(r.ini, m)
    BY <2>1, RequestIni, LooseAre DEF FileKey
  <2>. QED BY <2>2 DEF Nameable, FoundIn
<1>3. CASE FromNothing(r, s, out[n])
  BY <1>3, SealedAre DEF FromNothing, Nameable, Based
<1>. QED BY <1>1, <1>2, <1>3 DEF HoldsAll

\* Where a name's file in the image is from.
LEMMA HeldWhere ==
  ASSUME NEW r, IsRequest(r), NEW s, Kept(r.ini, s, Size(r.ini)), NEW out, HoldsAll(r, s, out)
  PROVE  /\ \A key \in LooseKeys(s) : \E n \in DOMAIN out :
              FileKey(out[n]) = key /\ out[n].from[1] \in {"flashfs", "security"}
         /\ \A key \in CarriedKeys(r) : key \notin LooseKeys(s) => \E n \in DOMAIN out :
              FileKey(out[n]) = key /\ out[n].from[1] = "donor"
         /\ \A key \in SealedKeys(r) : key \notin CarriedKeys(r) \cup LooseKeys(s) => \E n \in DOMAIN out :
              FileKey(out[n]) = key /\ out[n].from[1] = "made"
         /\ \A n \in DOMAIN out : out[n].from[1] = "donor" => FromDonor(r, s, out[n])
<1>1. \A p \in DOMAIN s : s[p].from[1] \in {"flashfs", "security"}
  BY RequestIni, LooseAre
<1>2. \A f : FromRoot(s, f) => FileKey(f) \in LooseKeys(s) /\ f.from[1] \in {"flashfs", "security"}
  BY <1>1 DEF FromRoot, LooseKeys, FileKey
<1>3. \A key \in CarriedKeys(r) \cup LooseKeys(s) \cup SealedKeys(r) : \E n \in DOMAIN out : FileKey(out[n]) = key
  BY DEF HoldsAll
<1>4. \A n \in DOMAIN out : FromDonor(r, s, out[n]) \/ FromRoot(s, out[n]) \/ FromNothing(r, s, out[n])
  BY DEF HoldsAll
<1>5. \A f : FromDonor(r, s, f) => /\ FileKey(f) \notin LooseKeys(s) /\ FileKey(f) \in CarriedKeys(r)
                                   /\ f.from[1] = "donor"
  BY DEF FromDonor
<1>6. \A f : FromNothing(r, s, f) => FileKey(f) \notin CarriedKeys(r) \cup LooseKeys(s) /\ f.from[1] = "made"
  BY DEF FromNothing
<1>7. \A key \in LooseKeys(s) : \E n \in DOMAIN out :
        FileKey(out[n]) = key /\ out[n].from[1] \in {"flashfs", "security"}
  BY <1>2, <1>3, <1>4, <1>5, <1>6
<1>8. \A key \in CarriedKeys(r) : key \notin LooseKeys(s) => \E n \in DOMAIN out :
        FileKey(out[n]) = key /\ out[n].from[1] = "donor"
  BY <1>2, <1>3, <1>4, <1>5, <1>6
<1>9. \A key \in SealedKeys(r) : key \notin CarriedKeys(r) \cup LooseKeys(s) => \E n \in DOMAIN out :
        FileKey(out[n]) = key /\ out[n].from[1] = "made"
  BY <1>2, <1>3, <1>4, <1>5, <1>6
<1>10. \A n \in DOMAIN out : out[n].from[1] = "donor" => FromDonor(r, s, out[n])
  BY <1>2, <1>4, <1>6
<1>. QED BY <1>7, <1>8, <1>9, <1>10

\* The key of a numbered entry.
LEMMA KeyAtIs ==
  ASSUME NEW r
  PROVE  \A n : KeyAt(r.ini, n) = KeyIn(r, EntryAt(r.ini, n))
  BY DEF KeyAt, NameAt, KeyIn, KeyOf

\* Entries told apart, by number.
LEMMA ApartIs ==
  ASSUME NEW r, IsRequest(r), ListsApart(r)
  PROVE  Apart(r.ini)
<1>1. \A n \in Positions(r.ini) : EntryAt(r.ini, n) \in ListedBy(r)
  BY ListedByNumber
<1>. QED BY <1>1, KeyAtIs DEF ListsApart, Apart, BaseAt

\* Where the two lookups agree, what the roots have is what the reader keeps.
LEMMA LooseIsFound ==
  ASSUME NEW r, IsRequest(r), LookupsAgree(r), NEW s, Kept(r.ini, s, Size(r.ini)), NEW key
  PROVE  key \in LooseKeys(s) <=> \E e \in ListedBy(r) : KeyIn(r, e) = key /\ FoundByResolver(r, e)
<1>1. ASSUME key \in LooseKeys(s) PROVE \E e \in ListedBy(r) : KeyIn(r, e) = key /\ FoundByResolver(r, e)
  <2>1. PICK n \in FoundIn(r.ini) : key = KeyAt(r.ini, n)
    BY <1>1, RequestIni, LooseAre DEF LooseKeys
  <2>2. EntryAt(r.ini, n) \in ListedBy(r) /\ Reader!Hit(EntryAt(r.ini, n)).tag = "found"
    BY ListedByNumber DEF FoundIn, HitAt
  <2>. QED BY <2>1, <2>2, KeyAtIs DEF LookupsAgree
<1>2. ASSUME NEW e \in ListedBy(r), KeyIn(r, e) = key, FoundByResolver(r, e) PROVE key \in LooseKeys(s)
  <2>1. PICK n \in Positions(r.ini) : e = EntryAt(r.ini, n)
    BY ListedByNumber
  <2>2. n \in FoundIn(r.ini)
    BY <1>2, <2>1 DEF LookupsAgree, FoundIn, HitAt
  <2>. QED BY <1>2, <2>1, <2>2, KeyAtIs, RequestIni, LooseAre
<1>. QED BY <1>1, <1>2

\* The entries of the request are those listed.
LEMMA EntriesAre ==
  ASSUME IsRequest(request)
  PROVE  /\ \A x \in Entries : EntryOf(request, x) \in ListedBy(request)
         /\ \A e \in ListedBy(request) : \E x \in Entries : EntryOf(request, x) = e
<1>1. ListedBy(request) = {request.ini["flashfs"][n] : n \in DOMAIN request.ini["flashfs"]}
                            \cup {request.ini["security"][n] : n \in DOMAIN request.ini["security"]}
  BY DEF ListedBy, ToSet
<1>2. \A n : /\ EntryOf(request, <<"flashfs", n>>) = request.ini["flashfs"][n]
             /\ EntryOf(request, <<"security", n>>) = request.ini["security"][n]
  BY DEF EntryOf
<1>3. Entries = {<<"flashfs", n>> : n \in DOMAIN request.ini["flashfs"]}
                  \cup {<<"security", n>> : n \in DOMAIN request.ini["security"]}
  BY DEF Entries
<1>. QED BY <1>1, <1>2, <1>3

\* When it is done.
LEMMA DoneHas ==
  ASSUME ReaderInv, ListingInv, stage = "done"
  PROVE  /\ IsRequest(request) /\ Kept(request.ini, stored, Size(request.ini))
         /\ ListingIs(request, stored, listing) /\ ~LacksAny(request)
<1>1. phase = "done" /\ ini = request.ini
  BY DEF ListingInv, AfterRead, AfterCheck
<1>2. EntriesRead(ini, "done", at) = Size(ini)
  BY DEF EntriesRead, Size
<1>. QED BY <1>1, <1>2 DEF ReaderInv, ListingInv, AfterCheck, AfterMerge

-----------------------------------------------------------------------------
\* Only what is needed is taken from the donor.
LEMMA NeededOnly ==
  ASSUME ReaderInv, ListingInv, LookupsAgree(request), DonorKeepsSuffix(request)
  PROVE  OnlyNeededFromDonor
<1>. SUFFICES ASSUME stage = "done", NEW f \in ToSet(listing), f.from[1] = "donor"
              PROVE  LET lists == {x \in Entries : KeyOf(f.name) \in NamesOf(EntryOf(request, x))}
                     IN  /\ KeyOf(f.name) \in Secured \/ lists # {}
                         /\ \A x \in lists : ~FromRoots(StoredKey(EntryOf(request, x)))
  BY DEF OnlyNeededFromDonor
<1>. DEFINE key == KeyOf(f.name)
            lists == {x \in Entries : key \in NamesOf(EntryOf(request, x))}
<1>1. /\ IsRequest(request) /\ Kept(request.ini, stored, Size(request.ini))
      /\ HoldsAll(request, stored, listing)
  BY DoneHas DEF ListingIs
<1>2. FromDonor(request, stored, f)
  <2>1. PICK n \in DOMAIN listing : f = listing[n]
    BY DEF ToSet
  <2>. QED BY <1>1, <2>1, HeldWhere
<1>3. key \in CarriedKeys(request) /\ key \notin LooseKeys(stored)
  BY <1>2 DEF FromDonor, FileKey
<1>4. key \in DonorNames(request) /\ (key \in Secured \/ \E n \in Positions(request.ini) : BaseAt(request.ini, n) = key)
  BY <1>1, <1>3, CarriedAre
<1>5. \A e : NamesOf(e) = {KeyIn(request, e), BaseName(e)} /\ StoredKey(e) = KeyIn(request, e)
  BY DEF NamesOf, StoredKey, KeyIn
<1>6. ASSUME NEW n \in Positions(request.ini), BaseAt(request.ini, n) = key PROVE lists # {}
  <2>1. EntryAt(request.ini, n) \in ListedBy(request)
    BY <1>1, ListedByNumber
  <2>2. PICK x \in Entries : EntryOf(request, x) = EntryAt(request.ini, n)
    BY <1>1, <2>1, EntriesAre
  <2>3. key \in NamesOf(EntryOf(request, x))
    BY <1>5, <1>6, <2>2 DEF BaseAt
  <2>. QED BY <2>3
<1>7. ASSUME NEW x \in lists PROVE ~FromRoots(StoredKey(EntryOf(request, x)))
  <2>. DEFINE e == EntryOf(request, x)
  <2>1. e \in ListedBy(request) /\ key \in {KeyIn(request, e), BaseName(e)}
    BY <1>1, <1>5, EntriesAre
  <2>2. key = KeyIn(request, e)
    BY <1>4, <2>1 DEF DonorKeepsSuffix
  <2>3. FromRoots(key) => \E y \in ListedBy(request) : KeyIn(request, y) = key /\ FoundByResolver(request, y)
    BY <1>1, <1>5, EntriesAre DEF FromRoots
  <2>4. ~FromRoots(key)
    BY <1>1, <1>3, <2>3, LooseIsFound
  <2>. QED BY <1>5, <2>2, <2>4
<1>. QED BY <1>4, <1>6, <1>7

\* The place of a name in the INI is that of its first entry.
LEMMA PlaceInIniIs ==
  ASSUME IsRequest(request), NEW name
  PROVE  PlaceInIni(name) = IF NamedOrStored(request.ini, KeyOf(name)) = {} THEN Size(request.ini) + 1
                            ELSE Min(NamedOrStored(request.ini, KeyOf(name)))
<1>. DEFINE i == request.ini
            f == Flashes(i)
            g == Securities(i)
            F == [n \in DOMAIN i.flashfs |-> <<"flashfs", n>>]
            G == [n \in DOMAIN i.security |-> <<"security", n>>]
            order == F \o G
            here(x) == KeyOf(name) \in NamesOf(EntryOf(request, x))
            T == {n \in 1 .. Len(order) : here(order[n])}
            first == SelectInSeq(order, LAMBDA x : KeyOf(name) \in NamesOf(EntryOf(request, x)))
            S == {"flashfs", "security"} \X Nat
<1>1. f \in Nat /\ g \in Nat /\ DOMAIN i["flashfs"] = 1 .. f /\ DOMAIN i["security"] = 1 .. g
  BY RequestIni DEF IsIni, IsList, Flashes, Securities
<1>2. F \in Seq(S) /\ G \in Seq(S) /\ Len(F) = f /\ Len(G) = g
  <2>1. F \in [1 .. f -> S] /\ G \in [1 .. g -> S]
    BY <1>1
  <2>. HIDE DEF F, G, S, f, g
  <2>. QED BY <1>1, <2>1
<1>3. /\ Len(order) = f + g
      /\ \A n \in 1 .. f : order[n] = F[n]
      /\ \A n \in 1 .. g : order[f + n] = G[n]
  <2>. HIDE DEF F, G, S, f, g
  <2>. QED BY <1>1, <1>2
<1>4. Positions(i) = 1 .. Len(order) /\ Size(i) = Len(order) /\ Len(order) \in Nat
  BY <1>1, <1>3 DEF Positions, Size
<1>5. ASSUME NEW n \in Positions(i) PROVE EntryOf(request, order[n]) = EntryAt(i, n)
  <2>. HIDE DEF order
  <2>1. CASE n \in DOMAIN i.flashfs /\ EntryAt(i, n) = i.flashfs[n]
    <3>1. order[n] = <<"flashfs", n>>
      BY <1>1, <1>3, <2>1
    <3>. QED BY <2>1, <3>1 DEF EntryOf
  <2>2. CASE n - f \in DOMAIN i.security /\ EntryAt(i, n) = i.security[n - f]
    <3>0. n - f \in 1 .. g /\ n = f + (n - f)
      <4>1. n \in Int
        BY <1>1 DEF Positions
      <4>. QED BY <1>1, <2>2, <4>1
    <3>1. order[n] = G[n - f]
      <4>. HIDE DEF F, G, f, g, i
      <4>. QED BY <1>3, <3>0
    <3>2. order[n] = <<"security", n - f>>
      BY <2>2, <3>1
    <3>. QED BY <2>2, <3>2 DEF EntryOf
  <2>. QED BY <2>1, <2>2, NumberedThrough
<1>6. \A n \in Positions(i) : here(order[n]) <=> KeyOf(name) \in {KeyAt(i, n), BaseAt(i, n)}
  <2>1. \A e : NamesOf(e) = {KeyIn(request, e), BaseName(e)}
    BY DEF NamesOf, StoredKey, KeyIn
  <2>. HIDE DEF order
  <2>. QED BY <1>5, <2>1, KeyAtIs DEF BaseAt
<1>7. T = NamedOrStored(i, KeyOf(name))
  <2>. HIDE DEF order, here
  <2>. QED BY <1>4, <1>6 DEF NamedOrStored
<1>8. first = IF T # {} THEN Min(T) ELSE 0
  BY DEF SelectInSeq
<1>9. PlaceInIni(name) = IF first = 0 THEN Len(order) + 1 ELSE first
  BY DEF PlaceInIni
<1>10. T # {} => Min(T) # 0
  <2>1. T \subseteq Nat /\ 0 \notin T
    BY <1>4
  <2>. HIDE DEF T
  <2>. QED BY <2>1, MinIs
<1>. HIDE DEF first, T, order
<1>. QED BY <1>4, <1>7, <1>8, <1>9, <1>10

\* No name twice, in the INI's order.
LEMMA InOrder ==
  ASSUME ReaderInv, ListingInv, ListsApart(request)
  PROVE  OnceInIniOrder
<1>. SUFFICES ASSUME stage = "done", NEW m \in DOMAIN listing, NEW n \in DOMAIN listing, m < n
              PROVE  /\ KeyOf(listing[m].name) # KeyOf(listing[n].name)
                     /\ PlaceInIni(listing[m].name) <= PlaceInIni(listing[n].name)
  BY DEF OnceInIniOrder
<1>. DEFINE i == request.ini
            a == listing[m].name
            b == listing[n].name
            A == NamedOrStored(i, KeyOf(a))
            B == NamedOrStored(i, KeyOf(b))
<1>1. /\ IsRequest(request) /\ Kept(i, stored, Size(i)) /\ HoldsAll(request, stored, listing)
      /\ Rank(i, a) <= Rank(i, b)
      /\ Len(listing) \in Nat /\ DOMAIN listing = 1 .. Len(listing)
  BY DoneHas DEF ListingIs
<1>2. KeyOf(a) # KeyOf(b)
  <2>1. m # n
    BY <1>1
  <2>. QED BY <1>1, <2>1 DEF HoldsAll, KeysApart, FileKey
<1>3. Nameable(i, KeyOf(a)) /\ Nameable(i, KeyOf(b))
  BY <1>1, ImageNameable DEF FileKey
<1>4. IsIni(i) /\ Apart(i) /\ Size(i) \in Nat
  BY <1>1, RequestIni, ApartIs, IniSizes DEF Size
<1>. HIDE DEF a, b, i
<1>5. IF A = {} THEN Rank(i, a) > Size(i) ELSE Rank(i, a) = Min(A) /\ Min(A) <= Size(i)
  BY <1>3, <1>4, RankIsPlace
<1>6. IF B = {} THEN Rank(i, b) > Size(i) ELSE Rank(i, b) = Min(B) /\ Min(B) <= Size(i)
  BY <1>3, <1>4, RankIsPlace
<1>7. Rank(i, a) \in Nat /\ Rank(i, b) \in Nat
  BY <1>4, RankIs
<1>8. PlaceInIni(a) = IF A = {} THEN Size(i) + 1 ELSE Min(A)
  BY <1>1, PlaceInIniIs DEF i
<1>9. PlaceInIni(b) = IF B = {} THEN Size(i) + 1 ELSE Min(B)
  BY <1>1, PlaceInIniIs DEF i
<1>. HIDE DEF A, B
<1>10. PlaceInIni(a) <= PlaceInIni(b)
  BY <1>1, <1>4, <1>5, <1>6, <1>7, <1>8, <1>9
<1>. QED BY <1>2, <1>10 DEF a, b

\* What is listed is in the image, and only what nothing has refuses the build.
LEMMA ListedHeld ==
  ASSUME ReaderInv, ListingInv, ListsApart(request), PlainPaths(request), LookupsAgree(request)
  PROVE  ListedFromRootsOrDonor
<1>1. \A e : StoredKey(e) = KeyIn(request, e)
  BY DEF StoredKey, KeyIn
<1>2. \A e \in ListedBy(request) : ListKey(e) = BaseName(e)
  BY DEF PlainPaths, ListKey
<1>3. IsRequest(request)
  BY DEF ListingInv
<1>4. ASSUME stage = "done", NEW x \in Entries
      PROVE  LET e == EntryOf(request, x)
             IN  IF FromRoots(StoredKey(e)) THEN HeldFrom(StoredKey(e), {"flashfs", "security"})
                 ELSE IF BaseName(e) \in DonorNames(request) THEN HeldFrom(BaseName(e), {"donor"})
                 ELSE IF BaseName(e) \in Sealed /\ ~e.outside THEN HeldFrom(BaseName(e), {"made"})
                 ELSE e.outside \/ BaseName(e) = Binary("fcrt")
  <2>. DEFINE e == EntryOf(request, x)
              base == BaseName(e)
              key == KeyIn(request, e)
  <2>1. /\ Kept(request.ini, stored, Size(request.ini)) /\ HoldsAll(request, stored, listing)
        /\ ~LacksAny(request)
    BY <1>4, DoneHas DEF ListingIs
  <2>2. e \in ListedBy(request)
    BY <1>3, EntriesAre
  <2>3. \A k : FromRoots(k) <=> k \in LooseKeys(stored)
    <3>1. \A k : FromRoots(k) <=> \E y \in ListedBy(request) : KeyIn(request, y) = k /\ FoundByResolver(request, y)
      BY <1>1, <1>3, EntriesAre DEF FromRoots
    <3>. QED BY <1>3, <2>1, <3>1, LooseIsFound
  <2>4. \A k, places : (\E n \in DOMAIN listing : FileKey(listing[n]) = k /\ listing[n].from[1] \in places)
                         => HeldFrom(k, places)
    BY DEF HeldFrom, ToSet, FileKey
  <2>5. base \in LooseKeys(stored) => key \in LooseKeys(stored)
    <3>. SUFFICES ASSUME base \in LooseKeys(stored) PROVE key \in LooseKeys(stored)
      OBVIOUS
    <3>1. PICK y \in ListedBy(request) : KeyIn(request, y) = base
      BY <1>3, <2>1, LooseIsFound
    <3>2. KeyIn(request, y) = KeyIn(request, e)
      BY <2>2, <3>1 DEF ListsApart
    <3>. QED BY <3>1, <3>2
  <2>6. CASE key \in LooseKeys(stored)
    <3>1. HeldFrom(key, {"flashfs", "security"})
      BY <1>3, <2>1, <2>4, <2>6, HeldWhere
    <3>. QED BY <1>1, <2>3, <2>6, <3>1
  <2>7. CASE key \notin LooseKeys(stored) /\ base \in DonorNames(request)
    <3>1. base \in CarriedKeys(request)
      <4>1. PICK n \in DOMAIN DonorFiles(request) : base = KeyOf(DonorFiles(request)[n])
        BY <2>7 DEF DonorNames, ToSet
      <4>2. PICK section \in {"security", "flashfs"} : e \in ToSet(request.ini[section])
        BY <2>2 DEF ListedBy
      <4>3. Carries(request, DonorFiles(request)[n])
        BY <1>2, <2>2, <4>1, <4>2 DEF Carries
      <4>. QED BY <4>1, <4>3 DEF CarriedKeys, Carried
    <3>2. HeldFrom(base, {"donor"})
      BY <1>3, <2>1, <2>4, <2>5, <2>7, <3>1, HeldWhere
    <3>. QED BY <1>1, <2>3, <2>7, <3>2
  <2>8. CASE key \notin LooseKeys(stored) /\ base \notin DonorNames(request)
    <3>1. PICK section \in {"security", "flashfs"} : e \in ToSet(request.ini[section])
      BY <2>2 DEF ListedBy
    <3>2. ~Lacks(request, section, e)
      BY <2>1, <3>1 DEF LacksAny
    <3>3. ~FoundByResolver(request, e)
      BY <1>3, <2>1, <2>2, <2>8, LooseIsFound
    <3>4. Optional(request, section, e)
      BY <1>2, <2>2, <2>8, <3>2, <3>3 DEF Lacks
    <3>5. CASE base \in Sealed /\ ~e.outside
      <4>1. section = "security" /\ ~request.nosusecurity
        <5>1. base # Binary("fcrt")
          <6>1. \A stem : Binary(stem).stem = stem
            BY DEF Binary
          <6>2. base = Binary("extended") \/ base = Binary("secdata")
            BY <3>5 DEF Sealed
          <6>. QED BY <6>1, <6>2
        <5>. QED BY <1>2, <2>2, <3>4, <3>5, <5>1 DEF Optional
      <4>2. base \in SealedKeys(request)
        BY <3>1, <3>5, <4>1 DEF SealedKeys, ToSet
      <4>3. base \notin CarriedKeys(request) \cup LooseKeys(stored)
        BY <1>3, <2>5, <2>8, CarriedAre
      <4>4. HeldFrom(base, {"made"})
        BY <1>3, <2>1, <2>4, <4>2, <4>3, HeldWhere
      <4>. QED BY <1>1, <2>3, <2>8, <3>5, <4>4
    <3>6. CASE ~(base \in Sealed /\ ~e.outside)
      <4>1. e.outside \/ base = Binary("fcrt")
        BY <1>2, <2>2, <3>4, <3>6 DEF Optional
      <4>. QED BY <1>1, <2>3, <2>8, <3>6, <4>1
    <3>. QED BY <3>5, <3>6
  <2>. QED BY <2>6, <2>7, <2>8
<1>5. ASSUME why = "PayloadNotFound"
      PROVE  \E x \in Entries :
               LET e == EntryOf(request, x)
               IN  \/ e.supply = "unreadable"
                   \/ ~FoundByResolver(request, e) /\ BaseName(e) \notin DonorNames(request)
  <2>0. PICK section \in {"security", "flashfs"} : \E e \in ToSet(request.ini[section]) : Lacks(request, section, e)
    BY <1>5 DEF ListingInv, LacksAny
  <2>1. PICK e \in ToSet(request.ini[section]) : Lacks(request, section, e)
    BY <2>0
  <2>2. e \in ListedBy(request)
    BY DEF ListedBy
  <2>3. PICK x \in Entries : EntryOf(request, x) = e
    BY <1>3, <2>2, EntriesAre
  <2>4. e.supply = "unreadable" \/ (~FoundByResolver(request, e) /\ BaseName(e) \notin DonorNames(request))
    BY <1>2, <2>1, <2>2 DEF Lacks
  <2>. QED BY <2>3, <2>4
<1>. QED BY <1>4, <1>5 DEF ListedFromRootsOrDonor

(* A donor's files in the image are the console's own and those the INI lists that no root       *)
(* supplies (Carries, overlay_flashfs), for any request whose two lookups agree and whose donor  *)
(* holds its patches under their numbers.                                                        *)
THEOREM DonorNeeded ==
  Spec => [](LookupsAgree(request) /\ DonorKeepsSuffix(request) => OnlyNeededFromDonor)
<1>1. ReaderInv /\ ListingInv => (LookupsAgree(request) /\ DonorKeepsSuffix(request) => OnlyNeededFromDonor)
  BY NeededOnly
<1>. QED BY ReaderInit, ReaderStep, ListingInit, ListingStep, <1>1, PTL DEF Spec

(* No name is in the image twice and its files are in the order of the INI (order_flashfs), for  *)
(* any request whose INI lists each patch under one name.                                        *)
THEOREM ListedOnceInOrder == Spec => [](ListsApart(request) => OnceInIniOrder)
<1>1. ReaderInv /\ ListingInv => (ListsApart(request) => OnceInIniOrder)
  BY InOrder
<1>. QED BY ReaderInit, ReaderStep, ListingInit, ListingStep, <1>1, PTL DEF Spec

(* What the INI lists is in the image, from the roots or else the donor, and only an entry       *)
(* neither has refuses the build (the check before the INI is read and the merge after it), for  *)
(* any request that lists no path and each patch under one name, and whose two lookups agree.    *)
THEOREM ListedIsHeld ==
  Spec => [](ListsApart(request) /\ PlainPaths(request) /\ LookupsAgree(request) => ListedFromRootsOrDonor)
<1>1. ReaderInv /\ ListingInv =>
        (ListsApart(request) /\ PlainPaths(request) /\ LookupsAgree(request) => ListedFromRootsOrDonor)
  BY ListedHeld
<1>. QED BY ReaderInit, ReaderStep, ListingInit, ListingStep, <1>1, PTL DEF Spec
=============================================================================
