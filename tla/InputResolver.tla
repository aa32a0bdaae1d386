--------------------------- MODULE InputResolver ---------------------------
(***************************************************************************)
(* How a command line becomes the Input of a build                         *)
(* (BuildInputResolver::resolve, src/cli/BuildInputResolver.cpp): what     *)
(* the source roots, the donor image, options.ini and the -c options each  *)
(* supply, which of them wins, and what refuses the build.  The INI's      *)
(* files are looked up twice, strictly before anything is loaded and then  *)
(* by read_ini_files, which is the module IniFiles.                        *)
(*                                                                         *)
(* Bytes are the place they came from.  A request's faults are the things  *)
(* wrong with it that only a message would tell apart.                     *)
(***************************************************************************)
EXTENDS Naturals, Sequences, SequencesExt, FiniteSets

CONSTANT Requests   \* the requests of a run, in sets that vary one concern each

(* A list has entries 1 to its length. *)
IsList(s) == Len(s) \in Nat /\ DOMAIN s = 1 .. Len(s)

(* A lookup finds a file of some rank, finds none, or leaves the roots; a keyvault of the roots  *)
(* is there, is not, cannot be read or is refused.                                               *)
IsHit(hit) == hit.tag \in {"none", "found", "escapes"} /\ (hit.tag = "found" => hit.rank \in Nat)
IsName(name) == name \in [stem : STRING, ext : STRING, digit : STRING, case : STRING]
IsRequest(r) ==
  /\ r.kv \in {"absent", "found", "unreadable", "refused"}
  /\ IsList(r.donor.files) /\ \A n \in DOMAIN r.donor.files : IsName(r.donor.files[n])
  /\ \A section \in {"flashfs", "security"} :
       /\ IsList(r.ini[section])
       /\ \A n \in DOMAIN r.ini[section] : IsHit(r.ini[section][n].hit) /\ IsHit(r.ini[section][n].basehit)

ASSUME RequestsAssumption == \A concern \in Requests : \A r \in concern : IsRequest(r)

VARIABLES
  request,      \* the command line and everything it leads to
  stage,        \* how far the resolver has come
  why,          \* why it refused
  meta,         \* where each part of the console's data was taken from
  listing,      \* the files of the FlashFS, in order: [name, from]
  kit,          \* the patches and payloads of the build type
  ini, phase, at, counters, slots, stored, patches    \* the INI reader's

resolverVars == <<request, stage, why, meta, listing, kit>>
readerVars == <<ini, phase, at, counters, slots, stored, patches>>

(* The reader reads the INI of the request: it chooses none itself. *)
Reader == INSTANCE IniFiles WITH Inis <- {}

Hacked == {"jtag", "glitch", "glitch2", "glitch2m", "glitch3", "devgl"}
WithXell == Hacked \ {"devgl"}

(* The resolver's checks run in order, the first that fails is the refusal. *)
FirstFailing(checks) ==
  LET failing == SelectInSeq(checks, LAMBDA c : c.fails)
  IN  IF failing = 0 THEN "none" ELSE checks[failing].why

Fault(r, f) == [fails |-> f \in r.faults, why |-> f]

(* options.ini is read and parsed before any -c option is, and both before the CPU key. *)
OptionsFile(r) == Fault(r, "OptionsReadFailed")
OptionsText(r) == Fault(r, "MalformedOption")
CliOptions(r) == Fault(r, "InvalidOption")
PatchNames(r) == Fault(r, "InvalidInput")

Pass(from, checks, to) ==
  /\ stage = from
  /\ why' = FirstFailing(checks)
  /\ stage' = IF why' = "none" THEN to ELSE "refused"

-----------------------------------------------------------------------------
(* resolve_foundations: a -c option, an explicit CPU key or an explicit donor is taken before   *)
(* what the roots hold, and one that is wrong is not replaced by what they hold.               *)
KeyRefused(r) == IF r.cpukey.cli # "absent" THEN r.cpukey.cli = "bad" ELSE r.cpukey.file # "good"

Chosen(r) == IF r.input # "absent" THEN r.input ELSE r.found
HasDonor(r) == Chosen(r) = "opens"

Foundations(r) ==
  << Fault(r, "InvalidSourceDirectory"), OptionsFile(r), OptionsText(r), CliOptions(r),
     [fails |-> KeyRefused(r), why |-> "CpuKey"],
     [fails |-> Chosen(r) = "unreadable", why |-> "InputReadFailed"],
     [fails |-> Chosen(r) = "sealed", why |-> "InvalidDonor"],
     [fails |-> ~HasDonor(r) /\ r.type = "absent", why |-> "BlockTypeRequired"] >>

(* A donor's image is dropped where another type is asked for. *)
KeepsImage(r) == HasDonor(r) /\ r.type \in {"absent", r.donor.type}

ResolveFoundations ==
  /\ Pass("foundations", Foundations(request), "check")
  /\ meta' = [meta EXCEPT !.image = KeepsImage(request),
                          !.type = IF request.type = "absent" /\ HasDonor(request)
                                   THEN request.donor.type ELSE request.type]
  /\ UNCHANGED <<request, listing, kit>> /\ UNCHANGED readerVars

-----------------------------------------------------------------------------
(* The names a payload entry goes by.  The resolver takes the part after the last "/"; the INI  *)
(* reader, and ini_asset_name for an entry from outside, also split at "\".                     *)
BaseName(e) == [stem |-> e.stem, ext |-> e.ext, digit |-> e.digit, case |-> "any"]
ListKey(e) == IF e.backslashes THEN [BaseName(e) EXCEPT !.case = "path"] ELSE BaseName(e)
KeyOf(name) == Reader!Key(name)

Binary(stem) == [stem |-> stem, ext |-> "bin", digit |-> "", case |-> "any"]
SecuredOrder == <<Binary("crl"), Binary("dae"), Binary("extended"), Binary("secdata"), Binary("fcrt")>>
Secured == ToSet(SecuredOrder)
Sealed == {Binary("extended"), Binary("secdata")}
SecurityNames == Secured \cup {Binary("odd")}

DonorFiles(r) == IF HasDonor(r) THEN r.donor.files ELSE <<>>
DonorNames(r) == {KeyOf(f) : f \in ToSet(DonorFiles(r))}

ListedIn(i, section) == {KeyOf(BaseName(e)) : e \in ToSet(i[section])}

(* What the roots have under a name: a loose file, or only one in an update package.  A file    *)
(* from outside the release is never taken from a package, nor a security file under            *)
(* nosusecurity: to the resolver the names it knows, to the reader those and the [security] ones.*)
Supplied(e, nosusecurity, security) ==
  \/ e.supply = "loose"
  \/ e.supply = "package" /\ ~e.outside /\ ~(nosusecurity /\ BaseName(e) \in security)

FoundByResolver(r, e) == Supplied(e, r.nosusecurity, SecurityNames)

(* What read_ini_files will find, for the entries of an INI. *)
AsRead(i, nosusecurity) ==
  LET names == SecurityNames \cup ListedIn(i, "security")
      read(e) == [e EXCEPT !.hit = IF Supplied(e, nosusecurity, names)
                                   THEN [tag |-> "found", rank |-> 1] ELSE [tag |-> "none"]]
      section(s) == [n \in DOMAIN s |-> read(s[n])]
  IN  [i EXCEPT !.flashfs = section(@), !.security = section(@)]

(* A missing file from outside is skipped, fcrt.bin is optional, an extended.bin or secdata.bin *)
(* of [security] is made up.                                                                    *)
OptionalAnywhere(r, section, e) ==
  e.outside \/ ListKey(e) \in {Binary("fcrt")} \cup Sealed
Optional(r, section, e) ==
  \/ e.outside
  \/ ListKey(e) = Binary("fcrt")
  \/ section = "security" /\ ~r.nosusecurity /\ ListKey(e) \in Sealed

Lacks(r, section, e) ==
  \/ e.supply = "unreadable"
  \/ ~FoundByResolver(r, e) /\ ~Optional(r, section, e) /\ ListKey(e) \notin DonorNames(r)

Listings(r) ==
  << PatchNames(r), Fault(r, "BuildIniReadFailed"), Fault(r, "SectionNotFound"),
     [fails |-> \E b \in ToSet(r.ini.bl) : b.hit.tag # "found", why |-> "AssetNotFound"],
     [fails |-> \E section \in {"security", "flashfs"} : \E e \in ToSet(r.ini[section]) : Lacks(r, section, e),
      why |-> "PayloadNotFound"] >>

CheckListed ==
  /\ Pass("check", Listings(request), "read")
  /\ UNCHANGED <<request, meta, listing, kit>> /\ UNCHANGED readerVars

ReadIniFiles ==
  /\ stage = "read" /\ Reader!Next /\ UNCHANGED resolverVars

TakeIniFiles ==
  /\ phase \in {"done", "failed"}
  /\ Pass("read", <<[fails |-> phase = "failed", why |-> "AssetNotFound"]>>, "console")
  /\ UNCHANGED <<request, meta, listing, kit>> /\ UNCHANGED readerVars

-----------------------------------------------------------------------------
(* apply_winning_metadata: -c before the donor before options.ini.  A donor always has a CB LDV *)
(* and a pairing, a CF LDV only if it has a CF.  Only the value taken is parsed.                *)
DonorStatesAlways(r, m) == HasDonor(r)
DonorStates(r, m) == HasDonor(r) /\ (m = "cf" => r.donor.cf)

Winner(r, m) ==
  IF r.over[m] # "absent" THEN "cli"
  ELSE IF ~DonorStates(r, m) /\ r.file[m] # "absent" THEN "file"
  ELSE IF DonorStates(r, m) THEN "donor" ELSE "none"

Malformed(r, m) ==
  \/ Winner(r, m) = "cli" /\ r.over[m] = "bad"
  \/ Winner(r, m) = "file" /\ r.file[m] = "bad"

Metadata == <<"cb", "cf", "pairing">>

(* The donor's CF may be paired on its own; a pairing given replaces that one too. *)
CfPairing(r) ==
  IF Winner(r, "pairing") = "donor" /\ r.donor.cf THEN "donor" ELSE "none"

(* A loose file replaces the donor's; each of the four mobile slots is taken by itself, as one   *)
(* is here.                                                                                      *)
TakenFrom(loose, donor) == CASE loose -> "roots" [] donor /\ ~loose -> "donor" [] OTHER -> "none"

Console(r) ==
  [n \in DOMAIN Metadata |-> [fails |-> Malformed(r, Metadata[n]), why |-> "BadMetadata"]]
  \o << [fails |-> "unreadable" \in {r.kv, r.smc}, why |-> "AssetNotFound"],
        [fails |-> ~HasDonor(r) /\ "absent" \in {r.kv, r.smc}, why |-> "IncompleteLooseDonor"],
        [fails |-> ~HasDonor(r) /\ \E m \in ToSet(Metadata) : Winner(r, m) = "none",
         why |-> "IncompleteLooseDonor"],
        [fails |-> r.kv = "refused" \/ (r.kv = "absent" /\ ~r.donor.kv), why |-> "InvalidInput"],
        [fails |-> r.mobile = "unreadable", why |-> "AssetNotFound"] >>

TakeConsole ==
  /\ Pass("console", Console(request), "merge")
  /\ meta' = [f \in DOMAIN meta |->
                CASE f \in ToSet(Metadata) -> Winner(request, f)
                  [] f = "cfpairing" -> CfPairing(request)
                  [] f = "kv" -> TakenFrom(request.kv = "found", HasDonor(request) /\ request.donor.kv)
                  [] f = "smc" -> TakenFrom(request.smc = "found", HasDonor(request) /\ request.donor.smc)
                  [] f = "mobile" -> TakenFrom(request.mobile = "found", HasDonor(request) /\ request.donor.mobile)
                  [] OTHER -> meta[f]]
  /\ UNCHANGED <<request, listing, kit>> /\ UNCHANGED readerVars

-----------------------------------------------------------------------------
(* overlay_flashfs: a file takes the place of the one of its name. *)
PlaceOf(files, name) == SelectInSeq(files, LAMBDA f : KeyOf(f.name) = KeyOf(name))
Overlay(files, file) ==
  LET place == PlaceOf(files, file.name)
  IN  IF place = 0 THEN Append(files, file) ELSE [files EXCEPT ![place] = file]

(* The files at some places of a list, one after another. *)
Overlaid(held, files, places) ==
  LET laid[n \in 0 .. Len(files)] ==
        IF n = 0 THEN held ELSE IF n \in places THEN Overlay(laid[n - 1], files[n]) ELSE laid[n - 1]
  IN  laid[Len(files)]

(* Of the donor's files the console's own are carried, and those the INI lists. *)
CarriesAll(r, name) == TRUE
Carries(r, name) ==
  \/ KeyOf(name) \in Secured
  \/ \E section \in {"security", "flashfs"} : \E e \in ToSet(r.ini[section]) : ListKey(e) = KeyOf(name)

DonorRows(r) == [n \in DOMAIN DonorFiles(r) |-> [name |-> DonorFiles(r)[n], from |-> <<"donor", n>>]]
Carried(r) == {n \in DOMAIN DonorFiles(r) : Carries(r, DonorFiles(r)[n])}

Loose == [n \in DOMAIN stored |-> [name |-> stored[n].name, from |-> stored[n].from]]

(* An extended.bin or secdata.bin [security] lists and nothing supplies is carried empty. *)
CleanRows(r) == [n \in DOMAIN r.ini.security |-> [name |-> BaseName(r.ini.security[n]), from |-> <<"made", 0>>]]
MadeUp(r, held) ==
  LET missing(e) == BaseName(e) \in Sealed /\ PlaceOf(held, BaseName(e)) = 0
  IN  IF r.nosusecurity THEN {} ELSE {n \in DOMAIN r.ini.security : missing(r.ini.security[n])}

(* order_flashfs: the INI's order, [flashfs] before [security], then the console's own files. A *)
(* dashboard patch has its suffix put off to find its entry.                                    *)
IniOrder(i) == LET key(e) == KeyOf(BaseName(e))
               IN  [n \in DOMAIN i.flashfs |-> key(i.flashfs[n])] \o [n \in DOMAIN i.security |-> key(i.security[n])]

RankAsNamed(i, name) ==
  LET order == IniOrder(i)
      listed == SelectInSeq(order, LAMBDA k : k = KeyOf(name))
      secured == SelectInSeq(SecuredOrder, LAMBDA k : k = KeyOf(name))
  IN  IF listed # 0 THEN listed ELSE Len(order) + (IF secured # 0 THEN secured ELSE Len(SecuredOrder) + 1)
Rank(i, name) ==
  LET order == IniOrder(i)
      at_name(key) == SelectInSeq(order, LAMBDA k : k = key)
      bare == [KeyOf(name) EXCEPT !.digit = ""]
      secured == SelectInSeq(SecuredOrder, LAMBDA k : k = bare)
  IN  IF at_name(KeyOf(name)) # 0 THEN at_name(KeyOf(name))
      ELSE IF at_name(bare) # 0 THEN at_name(bare)
      ELSE Len(order) + (IF secured # 0 THEN secured ELSE Len(SecuredOrder) + 1)

Ordered(i, files) ==
  LET rank(a) == Rank(i, files[a].name)
      before(a) == {b \in DOMAIN files : rank(b) < rank(a) \/ (rank(b) = rank(a) /\ b < a)}
  IN  [n \in DOMAIN files |-> files[CHOOSE a \in DOMAIN files : Cardinality(before(a)) = n - 1]]

EntryOf(r, from) == r.ini[from[1]][from[2]]
Unopened(r) ==
  [fails |-> \E f \in ToSet(stored) : KeyOf(f.name) \in Sealed /\ ~EntryOf(r, f.from).opens,
   why |-> "InvalidInput"]

Merged(r) ==
  LET carried == Overlaid(<<>>, DonorRows(r), Carried(r))
      held == Overlaid(carried, Loose, DOMAIN stored)
  IN  Ordered(r.ini, Overlaid(held, CleanRows(r), MadeUp(r, held)))

MergeFlashFS ==
  /\ Pass("merge", <<Unopened(request)>>, "patches")
  /\ listing' = Merged(request)
  /\ UNCHANGED <<request, meta, kit>> /\ UNCHANGED readerVars

-----------------------------------------------------------------------------
(* automatic_patch_name, find_bin_file: each type but retail and devkit has its patchset; a     *)
(* glitch3 build takes the glitch2 one when there is none of its own.                           *)
Patchset(r) ==
  IF r.bin.own = "missing" /\ r.build = "glitch3" THEN [name |-> "g2", file |-> r.bin.g2]
  ELSE [name |-> "own", file |-> r.bin.own]

NotInBin(file) == file # "found"

Addons(r) == [fails |-> \E a \in ToSet(r.addons) : NotInBin(a), why |-> "AddonNotFound"]

Patches(r) ==
  << [fails |-> r.build \notin Hacked /\ r.addons # <<>>, why |-> "InvalidInput"],
     [fails |-> r.build \in Hacked /\ NotInBin(Patchset(r).file), why |-> "PatchsetNotFound"],
     Addons(r) >>

TakePatches ==
  /\ Pass("patches", Patches(request), "payloads")
  /\ kit' = [kit EXCEPT !.patchset = IF request.build \in Hacked THEN Patchset(request).name ELSE "none",
                        !.addons = Len(request.addons)]
  /\ UNCHANGED <<request, meta, listing>> /\ UNCHANGED readerVars

(* The fuses of a manufacturing or JTAG image are those of its second CB; a devgl image's are   *)
(* retail.                                                                                      *)
FuseCb(build) == IF build = "jtag" THEN "extra_cb" ELSE "cb_b"
NeedsFuses == {"jtag", "glitch2m"}

Fuses(r) ==
  CASE r.build = "devgl" -> "retail" [] r.build \in NeedsFuses -> "cb" [] OTHER -> "none"

(* find_sb_private_key: the first file that is the key, unless a folder before it cannot be     *)
(* listed.                                                                                      *)
KeyFound(keys) ==
  LET first == SelectInSeq(keys, LAMBDA k : k # "wrong")
  IN  first # 0 /\ keys[first] = "right"

Payloads(r) ==
  << [fails |-> r.build = "devgl" /\ ~KeyFound(r.keys), why |-> "SigningKeyNotFound"],
     [fails |-> r.build \in WithXell /\ ~r.xell, why |-> "AssetNotFound"],
     [fails |-> r.build \in NeedsFuses /\ slots[FuseCb(r.build)] = 0, why |-> "InvalidInput"] >>

(* A retail build keeps its donor's payloads. *)
TakePayloads ==
  /\ Pass("payloads", Payloads(request), "validate")
  /\ kit' = [kit EXCEPT
       !.xell = CASE request.build \in WithXell -> "roots"
                  [] request.build \notin Hacked /\ HasDonor(request) /\ request.donor.hacked -> "donor"
                  [] OTHER -> "none",
       !.fuses = Fuses(request),
       !.cb = IF Fuses(request) = "cb" THEN slots[FuseCb(request.build)] ELSE 0,
       !.key = request.build = "devgl"]
  /\ UNCHANGED <<request, meta, listing>> /\ UNCHANGED readerVars

(* validate_input. *)
Validations(r) ==
  << [fails |-> meta.smc = "none", why |-> "MissingSmc"],
     [fails |-> meta.kv = "none", why |-> "MissingKeyvault"],
     [fails |-> slots.cb_or_a = 0, why |-> "MissingCb"],
     [fails |-> slots.cd = 0, why |-> "MissingCd"],
     [fails |-> r.build = "devgl" /\ ~kit.key, why |-> "MissingSigningKey"],
     [fails |-> r.build \in Hacked /\ kit.patchset = "none", why |-> "MissingPatchset"],
     [fails |-> r.build \notin Hacked /\ (kit.patchset # "none" \/ kit.addons # 0), why |-> "UnexpectedPatchset"],
     Fault(r, "UnknownButton") >>

Validate ==
  /\ Pass("validate", Validations(request), "done")
  /\ UNCHANGED <<request, meta, listing, kit>> /\ UNCHANGED readerVars

-----------------------------------------------------------------------------
Init ==
  /\ \E concern \in Requests : request \in concern
  /\ stage = "foundations" /\ why = "none"
  /\ meta = [cb |-> "none", cf |-> "none", pairing |-> "none", cfpairing |-> "none", kv |-> "none",
             smc |-> "none", mobile |-> "none", image |-> FALSE, type |-> "absent"]
  /\ listing = <<>>
  /\ kit = [patchset |-> "none", addons |-> 0, xell |-> "none", fuses |-> "none", cb |-> 0, key |-> FALSE]
  /\ ini = request.ini /\ Reader!Unread

Next ==
  \/ ResolveFoundations \/ CheckListed \/ ReadIniFiles \/ TakeIniFiles \/ TakeConsole
  \/ MergeFlashFS \/ TakePatches \/ TakePayloads \/ Validate

Spec == Init /\ [][Next]_<<resolverVars, readerVars>>

-----------------------------------------------------------------------------
(* Each part of the console's data comes from the first of the command line, the donor and     *)
(* options.ini to state it, a value that loses is never parsed, and a CF is paired by the donor *)
(* only where the CB is (apply_winning_metadata, src/cli/BuildInputResolver.cpp).               *)
States(r, source, m) ==
  CASE source = "cli" -> r.over[m] # "absent"
    [] source = "file" -> r.file[m] # "absent"
    [] source = "donor" -> HasDonor(r) /\ (m = "cf" => r.donor.cf)
FirstStating(r, m) ==
  LET sources == <<"cli", "donor", "file">>
      first == SelectInSeq(sources, LAMBDA s : States(r, s, m))
  IN  IF first = 0 THEN "none" ELSE sources[first]

ConsoleFromBestSource ==
  /\ stage = "done" =>
       /\ \A m \in ToSet(Metadata) : meta[m] = FirstStating(request, m)
       /\ meta.cfpairing = "donor" => meta.pairing = "donor"
       /\ meta.kv = "roots" \/ (request.kv = "absent" /\ HasDonor(request))
       /\ meta.mobile = "donor" => request.mobile # "found" /\ HasDonor(request)
       /\ meta.image => HasDonor(request) /\ meta.type = request.donor.type
  /\ why = "BadMetadata" =>
       \E m \in ToSet(Metadata) :
         \/ FirstStating(request, m) = "cli" /\ request.over[m] = "bad"
         \/ FirstStating(request, m) = "file" /\ request.file[m] = "bad"

-----------------------------------------------------------------------------
Entries == {<<"flashfs", n>> : n \in DOMAIN request.ini.flashfs}
             \cup {<<"security", n>> : n \in DOMAIN request.ini.security}
StoredKey(e) == KeyOf(Reader!StoredName(e, request.ini.jtag))
NamesOf(e) == {StoredKey(e), BaseName(e)}
FromRoots(name) == \E x \in Entries : StoredKey(EntryOf(request, x)) = name /\ FoundByResolver(request, EntryOf(request, x))
HeldFrom(name, places) == \E f \in ToSet(listing) : KeyOf(f.name) = name /\ f.from[1] \in places

(* A listed payload is in the image from the source roots, else from the donor; one in neither   *)
(* refuses the build, unless it is optional or made up (the check before anything is loaded and *)
(* the merge after, which look the files up separately).                                        *)
ListedFromRootsOrDonor ==
  /\ stage = "done" =>
       \A x \in Entries :
         LET e == EntryOf(request, x)
         IN  IF FromRoots(StoredKey(e)) THEN HeldFrom(StoredKey(e), {"flashfs", "security"})
             ELSE IF BaseName(e) \in DonorNames(request) THEN HeldFrom(BaseName(e), {"donor"})
             ELSE IF BaseName(e) \in Sealed /\ ~e.outside THEN HeldFrom(BaseName(e), {"made"})
             ELSE e.outside \/ BaseName(e) = Binary("fcrt")
  /\ why = "PayloadNotFound" =>
       \E x \in Entries :
         LET e == EntryOf(request, x)
         IN  \/ e.supply = "unreadable"
             \/ ~FoundByResolver(request, e) /\ BaseName(e) \notin DonorNames(request)

(* The donor's files in the image are the console's own, and those the INI lists that no root    *)
(* supplies; a root's copy takes the place of the donor's (Carries, overlay_flashfs).            *)
OnlyNeededFromDonor ==
  stage = "done" =>
    \A f \in ToSet(listing) :
      f.from[1] = "donor" =>
        LET lists == {x \in Entries : KeyOf(f.name) \in NamesOf(EntryOf(request, x))}
        IN  /\ KeyOf(f.name) \in Secured \/ lists # {}
            /\ \A x \in lists : ~FromRoots(StoredKey(EntryOf(request, x)))

(* No name is in the image twice, and its files are in the order the INI first lists them,       *)
(* [flashfs] before [security], the console's other files after them (order_flashfs).            *)
PlaceInIni(name) ==
  LET order == [n \in DOMAIN request.ini.flashfs |-> <<"flashfs", n>>]
                 \o [n \in DOMAIN request.ini.security |-> <<"security", n>>]
      listed == SelectInSeq(order, LAMBDA x : KeyOf(name) \in NamesOf(EntryOf(request, x)))
  IN  IF listed = 0 THEN Len(order) + 1 ELSE listed

OnceInIniOrder ==
  stage = "done" =>
    \A m, n \in DOMAIN listing :
      m < n => /\ KeyOf(listing[m].name) # KeyOf(listing[n].name)
               /\ PlaceInIni(listing[m].name) <= PlaceInIni(listing[n].name)

-----------------------------------------------------------------------------
(* What the listings above rest on, for a request.  An INI lists no dashboard patch under two    *)
(* names, nor a file with a directory before it; the donor holds no patch under its bare name;   *)
(* the files the check finds are those read_ini_files finds after it.  A build without them      *)
(* leaves the listed file out, or takes it twice.                                                *)
ListedBy(r) == ToSet(r.ini.flashfs) \cup ToSet(r.ini.security)
KeyIn(r, e) == KeyOf(Reader!StoredName(e, r.ini.jtag))

ListsApart(r) ==
  \A x, y \in ListedBy(r) :
    /\ BaseName(x) = BaseName(y) => KeyIn(r, x) = KeyIn(r, y)
    /\ KeyIn(r, x) = BaseName(y) => BaseName(x) = BaseName(y)
PlainPaths(r) == \A e \in ListedBy(r) : ~e.backslashes
DonorKeepsSuffix(r) == \A e \in ListedBy(r) : BaseName(e) \in DonorNames(r) => BaseName(e) = KeyIn(r, e)
LookupsAgree(r) == \A e \in ListedBy(r) : FoundByResolver(r, e) <=> Reader!Hit(e).tag = "found"

-----------------------------------------------------------------------------
(* Every bootloader of the INI is in one slot of the chain, and every payload of it is read      *)
(* once, in order, from its best source (read_ini_files, as a build runs it).                    *)
EveryStageKept == Reader!EveryStageKept
PayloadsOnceFromBestSource == Reader!PayloadsOnceFromBestSource

=============================================================================
