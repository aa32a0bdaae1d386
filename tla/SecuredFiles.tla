---------------------------- MODULE SecuredFiles ----------------------------
(***************************************************************************)
(* The files of a console's flash that are sealed for that console alone:  *)
(* crl.bin, dae.bin, extended.bin, secdata.bin and fcrt.bin.  A build      *)
(* opens the copy in the donor image (extract_all), may take another from  *)
(* the source roots (resolve), and seals what it has for the CPU key it is *)
(* given (sealed_flashfs_file); its image is the donor of a later build.   *)
(* No file looks at another, so a behaviour follows one of them.           *)
(*                                                                         *)
(* Cryptography is symbolic: a text is its plaintext and the layers put on *)
(* it, a key is a sequence of words, a digest is what it was taken of.     *)
(***************************************************************************)
EXTENDS Naturals, Sequences

CONSTANTS
  Name,      \* the files followed
  Copy,      \* Copy[n]: the copies of n there are at first, on a NAND or loose
  CpuKey,    \* keys a build is given
  Setting,   \* times, CF lockdown values and keyvault heads it is given
  Draw,      \* what the random source draws
  MaxLayers  \* bound: failed openings on top of one another

XexKey == <<"xex">>    \* retail_xex_key
ZeroKey == <<"zero">>  \* the development kit's, all zero

VARIABLES
  name,   \* the file followed
  image,  \* its copy in the last image written, << >> for none
  last    \* the last build: its settings, the donor's copy and the one sealed

vars == <<name, image, last>>

-----------------------------------------------------------------------------
(***************************************************************************)
(* Ciphers.  AES-CBC undoes sealing by opening and opening by sealing; RC4 *)
(* undoes itself.                                                          *)
(***************************************************************************)

Layer(key, with, way) == [key |-> key, with |-> with, way |-> way]
Undo(layer) ==
  [layer EXCEPT !.way = CASE @ = "seal" -> "open" [] @ = "open" -> "seal" [] OTHER -> @]

Put(text, layer) ==
  LET n == Len(text.under)
  IN  IF n > 0 /\ text.under[n] = Undo(layer)
      THEN [text EXCEPT !.under = SubSeq(@, 1, n - 1)]
      ELSE [text EXCEPT !.under = Append(@, layer)]

(***************************************************************************)
(* What a copy is made of.  A keyed file's nonce is zero or was taken of a *)
(* plaintext, and a copy without one is in the clear; what is wrong with a *)
(* damaged copy shows in its content, its hash or the kind of its nonce.   *)
(***************************************************************************)

HasFields(r, fields) == r = [x \in fields |-> r[x]]

IsText(t, fields) == HasFields(t, {"plain", "under"}) /\ HasFields(t.plain, fields)

\* No layer lies on the one that undoes it.
Reduced(t) ==
  /\ t.under \in Seq({t.under[i] : i \in DOMAIN t.under})
  /\ \A i \in 1 .. Len(t.under) - 1 : t.under[i + 1] # Undo(t.under[i])

IsCrl(f) ==
  /\ HasFields(f, {"whole", "hash", "iv", "wrapped", "body"}) /\ f.whole \in BOOLEAN
  /\ HasFields(f.wrapped, {"key", "under"}) /\ IsText(f.body, {"stamp", "lock", "content"})

IsRecord(r) ==
  /\ HasFields(r, {"field", "hash", "body"}) /\ HasFields(r.field, {"id", "marked"})
  /\ r.field.marked \in BOOLEAN /\ IsText(r.body, {"stamp", "lock", "head", "content", "mac"})

IsDae(f) ==
  /\ HasFields(f, {"whole", "records"}) /\ f.whole \in BOOLEAN
  /\ f.records \in Seq({f.records[i] : i \in DOMAIN f.records})
  /\ \A i \in DOMAIN f.records : IsRecord(f.records[i])

IsKeyed(f) ==
  /\ HasFields(f, {"size", "nonce", "body"}) /\ IsText(f.body, {"head", "lock", "stamp", "content"})
  /\ HasFields(f.nonce, {"kind", "key", "of"}) /\ f.nonce.of.under = << >>

IsFcrt(f) ==
  /\ HasFields(f, {"whole", "blocks", "hash", "body"}) /\ f.whole \in BOOLEAN /\ f.blocks \in BOOLEAN
  /\ IsText(f.body, {"content"})

CpuKeyed == {"secdata.bin", "extended.bin"}

IsFile(n, f) ==
  /\ n = "crl.bin" => IsCrl(f)
  /\ n = "dae.bin" => IsDae(f)
  /\ n = "fcrt.bin" => IsFcrt(f)
  /\ n \in CpuKeyed => IsKeyed(f)

ASSUME NameAssumption == Name \subseteq {"crl.bin", "dae.bin", "extended.bin", "secdata.bin", "fcrt.bin"}

ASSUME CopyAssumption ==
  \A n \in Name : \A f \in Copy[n] :
    /\ IsFile(n, f)
    /\ n \in CpuKeyed =>
         Reduced(f.body) /\ (f.nonce.kind = "zero" => f.body.under = << >>)

-----------------------------------------------------------------------------
\* A wrapped key opened under another key is a key nobody sealed anything with.
Unwrapped(wrapped, key) == IF wrapped.under = key THEN wrapped.key ELSE wrapped.key \o key

\* master_keys.
Masters(cpu) == <<cpu, XexKey, ZeroKey>>

\* vouched: the digest covers neither the stamp nor the lockdown value.
Vouched(hash, text) == text.under = << >> /\ text.plain.content = hash

Stamp(time) == ((time + 2) \div 2) * 2

\* What crl.bin, dae.bin and secdata.bin state of a build.
Stated(plain, b) == [plain EXCEPT !.stamp = Stamp(b.time), !.lock = b.lock]

-----------------------------------------------------------------------------
(***************************************************************************)
(* crl.bin: one record under a file key, itself under a master key.        *)
(***************************************************************************)

Firstly(S) == CHOOSE i \in S : \A j \in S : i =< j

CrlTexts(f, cpu) ==
  [i \in 1 .. 3 |-> Put(f.body, Layer(Unwrapped(f.wrapped, Masters(cpu)[i]), f.iv, "open"))]

\* open_crl: the body in the clear and which master key opened it, 0 for none.
OpenCrl(f, cpu) ==
  LET opening == {i \in 1 .. 3 : Vouched(f.hash, CrlTexts(f, cpu)[i])}
  IN  IF ~f.whole THEN << >>
      ELSE IF Vouched(f.hash, f.body) THEN << [master |-> 0, body |-> f.body] >>
      ELSE IF opening = {} THEN << >>
      ELSE << [master |-> Firstly(opening), body |-> CrlTexts(f, cpu)[Firstly(opening)]] >>

CrlSealing(f, cpu) ==
  LET opened == OpenCrl(f, cpu)
  IN  IF opened # << >> /\ opened[1].master = 1
      THEN << [iv |-> f.iv, key |-> Unwrapped(f.wrapped, cpu)] >> ELSE << >>

DrawnCrlSealing(d) == [iv |-> d, key |-> <<d>>]

\* reseal_crl of content that opens.
ResealedCrl(f, cpu, sealing, b) ==
  LET plain == Stated(OpenCrl(f, cpu)[1].body.plain, b)
  IN  [f EXCEPT !.iv = sealing.iv,
                !.wrapped = [key |-> sealing.key, under |-> cpu],
                !.body = Put([plain |-> plain, under |-> << >>], Layer(sealing.key, sealing.iv, "seal"))]

-----------------------------------------------------------------------------
(***************************************************************************)
(* dae.bin: a chain of records under the master key itself.                *)
(***************************************************************************)

NoVector == "zero"

RecordTexts(r, cpu) == [i \in 1 .. 3 |-> Put(r.body, Layer(Masters(cpu)[i], NoVector, "open"))]

OpenRecord(r, cpu) ==
  LET opening == {i \in 1 .. 3 : Vouched(r.hash, RecordTexts(r, cpu)[i])}
  IN  IF Vouched(r.hash, r.body) THEN << [master |-> 0, body |-> r.body] >>
      ELSE IF opening = {} THEN << >>
      ELSE << [master |-> Firstly(opening), body |-> RecordTexts(r, cpu)[Firstly(opening)]] >>

\* open_dae: all of its records, or none.
OpenDae(f, cpu) ==
  IF f.whole /\ \A i \in DOMAIN f.records : OpenRecord(f.records[i], cpu) # << >>
  THEN [i \in DOMAIN f.records |-> OpenRecord(f.records[i], cpu)[1]]
  ELSE << >>

DaeSealing(f, cpu) ==
  LET opened == OpenDae(f, cpu)
  IN  IF opened # << >> /\ opened[1].master = 1
      THEN << [head |-> opened[1].body.plain.head, field |-> f.records[1].field] >> ELSE << >>

DrawnDaeSealing(d) == [head |-> d, field |-> [id |-> d, marked |-> FALSE]]

\* The bytes hashed with the field: the first sixteen of the body.
Mac(cpu, field, plain) ==
  [key |-> cpu, field |-> field, stamp |-> plain.stamp, head |-> plain.head, lock |-> plain.lock]

\* Mutant: the bit is set in the header after the digest is taken.
ResealedRecordMarkedLate(r, cpu, sealing, b) ==
  LET plain == [Stated(OpenRecord(r, cpu)[1].body.plain, b) EXCEPT !.head = sealing.head]
      text  == [plain EXCEPT !.mac = Mac(cpu, sealing.field, plain)]
  IN  [r EXCEPT !.field = [sealing.field EXCEPT !.marked = TRUE],
                !.body = Put([plain |-> text, under |-> << >>], Layer(cpu, NoVector, "seal"))]

\* reseal_dae, of each record.
ResealedRecord(r, cpu, sealing, b) ==
  LET field == [sealing.field EXCEPT !.marked = TRUE]
      plain == [Stated(OpenRecord(r, cpu)[1].body.plain, b) EXCEPT !.head = sealing.head]
      text  == [plain EXCEPT !.mac = Mac(cpu, field, plain)]
  IN  [r EXCEPT !.field = field,
                !.body = Put([plain |-> text, under |-> << >>], Layer(cpu, NoVector, "seal"))]

ResealedDae(f, cpu, sealing, b) ==
  [f EXCEPT !.records = [i \in DOMAIN @ |-> ResealedRecord(@[i], cpu, sealing, b)]]

-----------------------------------------------------------------------------
(***************************************************************************)
(* extended.bin and secdata.bin: RC4 under a nonce the plaintext derives.  *)
(***************************************************************************)

Derived(cpu, text) == [kind |-> "derived", key |-> cpu, of |-> text]

\* crypt_secfile, either way.
Crypted(f, cpu) == [f EXCEPT !.body = Put(@, Layer(cpu, f.nonce, "xor"))]

\* extended_opened, secdata_opened: in the clear behind the nonce it derives.
Opened(f, cpu) == f.nonce = Derived(cpu, f.body)

\* open_loose.
OpenLoose(f, cpu) ==
  LET opened == Crypted(f, cpu)
  IN  IF Opened(opened, cpu) THEN opened
      ELSE IF f.nonce.kind = "zero" \/ Opened(f, cpu) THEN [f EXCEPT !.nonce = Derived(cpu, f.body)]
      ELSE opened

\* seal_under_nonce.
SealedPlain(plain, cpu) ==
  LET clear == [plain |-> plain, under |-> << >>]
  IN  Crypted([size |-> "right", nonce |-> Derived(cpu, clear), body |-> clear], cpu)

CleanPlain == [head |-> "none", lock |-> 0, stamp |-> 0, content |-> "clean"]

\* Nothing: what an empty file of the Input holds.
EmptyFile ==
  [size |-> "empty", nonce |-> [kind |-> "zero", key |-> << >>, of |-> [plain |-> CleanPlain, under |-> << >>]],
   body |-> [plain |-> CleanPlain, under |-> << >>]]

SealedExtended(f, cpu, b) ==
  IF f.size = "right" /\ Opened(f, cpu)
  THEN SealedPlain([f.body.plain EXCEPT !.head = b.head], cpu)
  ELSE SealedPlain([CleanPlain EXCEPT !.head = b.head], cpu)

\* The head of the console's own copy, where that opens.
OwnHead(own, cpu) ==
  IF own # << >> /\ Opened(own[1], cpu) THEN << own[1].body.plain.head >> ELSE << >>

SealedSecdata(f, own, cpu, b, d) ==
  LET heads == OwnHead(own, cpu)
      Taking(plain, otherwise) ==
        Stated([plain EXCEPT !.head = IF heads # << >> THEN heads[1] ELSE otherwise], b)
  IN  IF f.size = "right" /\ Opened(f, cpu)
      THEN SealedPlain(Taking(f.body.plain, f.body.plain.head), cpu)
      ELSE IF f.size = "right" /\ own # <<f>> THEN Crypted(f, cpu)
      ELSE SealedPlain(Taking(CleanPlain, d), cpu)

-----------------------------------------------------------------------------
(***************************************************************************)
(* fcrt.bin: a body under the CPU key, left as it is where it is not whole *)
(* blocks.                                                                 *)
(***************************************************************************)

FcrtCrypted(f, cpu, way) == IF f.blocks THEN Put(f.body, Layer(cpu, "fcrt", way)) ELSE f.body

\* seal_fcrt and what sealed_flashfs_file makes of it.
SealedFcrt(f, own, cpu) ==
  LET opened == FcrtCrypted(f, cpu, "open")
  IN  IF ~f.whole THEN f
      ELSE IF Vouched(f.hash, f.body) THEN [f EXCEPT !.body = FcrtCrypted(f, cpu, "seal")]
      ELSE IF Vouched(f.hash, opened) \/ own = <<f>> THEN f
      ELSE [f EXCEPT !.body = opened]

-----------------------------------------------------------------------------
(***************************************************************************)
(* A build.                                                                *)
(***************************************************************************)

\* Mutant: secdata.bin is handed over as the NAND holds it.
ExtractedSealed(n, f, cpu) == IF n = "extended.bin" THEN Crypted(f, cpu) ELSE f

\* extract_all: a file of the donor as the Input carries it.
Extracted(n, f, cpu) == IF n \in CpuKeyed THEN Crypted(f, cpu) ELSE f

\* The files extract_all keeps as the console's own.
ConsoleSecured == {"crl.bin", "dae.bin", "secdata.bin"}

Own(n, donor, cpu) ==
  IF donor # << >> /\ n \in ConsoleSecured THEN << Extracted(n, donor[1], cpu) >> ELSE << >>

HoldsNonce(f) == f.size \in {"right", "wrong"}

\* resolve: a loose copy, else the donor's, else one to be made up.
Resolved(n, donor, loose, listed, cpu) ==
  IF loose # << >>
  THEN IF n \in CpuKeyed /\ HoldsNonce(loose[1]) THEN << OpenLoose(loose[1], cpu) >> ELSE loose
  ELSE IF donor # << >> THEN << Extracted(n, donor[1], cpu) >>
  ELSE IF listed /\ n \in CpuKeyed THEN << EmptyFile >>
  ELSE << >>

\* Mutant: the supplied copy's sealing comes before the console's.
SealingSuppliedFirst(own, supplied, drawn) ==
  IF supplied # << >> THEN supplied[1] ELSE IF own # << >> THEN own[1] ELSE drawn

\* The console's sealing, else the supplied copy's, else one drawn.
SealingOf(own, supplied, drawn) ==
  IF own # << >> THEN own[1] ELSE IF supplied # << >> THEN supplied[1] ELSE drawn

\* sealed_flashfs_file.
SealedFlashFSFile(n, f, own, cpu, b, d) ==
  CASE n = "crl.bin" ->
         IF OpenCrl(f, cpu) = << >> THEN f
         ELSE LET ofOwn == IF own = << >> THEN << >> ELSE CrlSealing(own[1], cpu)
              IN  ResealedCrl(f, cpu, SealingOf(ofOwn, CrlSealing(f, cpu), DrawnCrlSealing(d)), b)
    [] n = "dae.bin" ->
         IF OpenDae(f, cpu) = << >> THEN f
         ELSE LET ofOwn == IF own = << >> THEN << >> ELSE DaeSealing(own[1], cpu)
              IN  ResealedDae(f, cpu, SealingOf(ofOwn, DaeSealing(f, cpu), DrawnDaeSealing(d)), b)
    [] n = "extended.bin" -> SealedExtended(f, cpu, b)
    [] n = "secdata.bin" -> SealedSecdata(f, own, cpu, b, d)
    [] n = "fcrt.bin" -> SealedFcrt(f, own, cpu)

\* A CF states no lockdown under the all-zero key, 1 where none is given.
Lockdown(cpu, ldv) == IF cpu = ZeroKey THEN 0 ELSE ldv

\* crypt_secfile refuses a file shorter than its nonce.
Extractable(n, donor) == donor # << >> /\ n \in CpuKeyed => HoldsNonce(donor[1])

Build(cpu, b, donor, loose, listed, d) ==
  LET data == Resolved(name, donor, loose, listed, cpu)
  IN  /\ Extractable(name, donor)
      /\ image' = IF data = << >> THEN << >>
                  ELSE << SealedFlashFSFile(name, data[1], Own(name, donor, cpu), cpu, b, d) >>
      /\ last' = << [cpu |-> cpu, build |-> b, donor |-> donor # << >>, loose |-> loose # << >>, data |-> data] >>
      /\ UNCHANGED name

Settings(cpu) == {[time |-> s.time, lock |-> Lockdown(cpu, s.ldv), head |-> s.head] : s \in Setting}

\* Only a file the INI lists is looked for in the source roots.
LooseCopies(listed) == {<< >>} \cup IF listed THEN {<<f>> : f \in Copy[name]} ELSE {}

Init ==
  /\ name \in Name
  /\ image \in {<< >>} \cup {<<f>> : f \in Copy[name]}
  /\ last = << >>

\* Bound: an image on which too many openings failed is nobody's donor.
Donors ==
  {<< >>} \cup IF image # << >> /\ name = "fcrt.bin" /\ Len(image[1].body.under) > MaxLayers THEN {} ELSE {image}

Next ==
  \E cpu \in CpuKey, d \in Draw, listed \in BOOLEAN, donor \in Donors :
    \E b \in Settings(cpu), loose \in LooseCopies(listed) :
      Build(cpu, b, donor, loose, listed, d)

Spec == Init /\ [][Next]_vars

-----------------------------------------------------------------------------
(***************************************************************************)
(* What must hold.                                                         *)
(***************************************************************************)

Sealed(text, key, with, way) == text.under = << Layer(key, with, way) >>

\* The console reads its copy: what it opens is what the copy vouches for.
ReadsCrl(f, cpu) ==
  /\ f.whole /\ f.wrapped.under = cpu /\ f.body.plain.content = f.hash
  /\ Sealed(f.body, f.wrapped.key, f.iv, "seal")

ReadsDae(f, cpu) ==
  /\ f.whole /\ f.records # << >>
  /\ \A i \in DOMAIN f.records :
       LET r == f.records[i]
       IN  /\ Sealed(r.body, cpu, NoVector, "seal") /\ r.body.plain.content = r.hash
           /\ r.body.plain.mac = Mac(cpu, r.field, r.body.plain) /\ r.field.marked
           /\ r.field = f.records[1].field /\ r.body.plain.head = f.records[1].body.plain.head

ReadsKeyed(f, cpu) ==
  /\ f.size = "right" /\ Sealed(f.body, cpu, f.nonce, "xor")
  /\ f.nonce = Derived(cpu, [plain |-> f.body.plain, under |-> << >>])

ReadsFcrt(f, cpu) ==
  /\ f.whole /\ f.body.plain.content = f.hash
  /\ IF f.blocks THEN Sealed(f.body, cpu, "fcrt", "seal") ELSE f.body.under = << >>

ConsoleReads(n, f, cpu) ==
  \/ n = "crl.bin" /\ ReadsCrl(f, cpu)
  \/ n = "dae.bin" /\ ReadsDae(f, cpu)
  \/ n \in CpuKeyed /\ ReadsKeyed(f, cpu)
  \/ n = "fcrt.bin" /\ ReadsFcrt(f, cpu)

\* What a build is handed can be read under a key it knows.
ReadableText(text, hash, keys, with) ==
  /\ text.plain.content = hash
  /\ text.under = << >> \/ \E key \in keys : Sealed(text, key, with, "seal")

KnownKeys(cpu) == {cpu, XexKey, ZeroKey}

ReadableCrl(f, cpu) ==
  f.whole /\ ReadableText(f.body, f.hash, IF f.wrapped.under \in KnownKeys(cpu) THEN {f.wrapped.key} ELSE {}, f.iv)

ReadableDae(f, cpu) ==
  /\ f.whole /\ f.records # << >>
  /\ \A i \in DOMAIN f.records : ReadableText(f.records[i].body, f.records[i].hash, KnownKeys(cpu), NoVector)

ReadableKeyed(f, cpu) == f.size = "right" /\ f.body.under = << >> /\ Opened(f, cpu)

ReadableFcrt(f, cpu) == f.whole /\ ReadableText(f.body, f.hash, IF f.blocks THEN {cpu} ELSE {}, "fcrt")

Readable(n, f, cpu) ==
  \/ n = "crl.bin" /\ ReadableCrl(f, cpu)
  \/ n = "dae.bin" /\ ReadableDae(f, cpu)
  \/ n \in CpuKeyed /\ ReadableKeyed(f, cpu)
  \/ n = "fcrt.bin" /\ ReadableFcrt(f, cpu)

Plains(n, f) ==
  IF n = "dae.bin" THEN [i \in DOMAIN f.records |-> f.records[i].body.plain] ELSE <<f.body.plain>>
Contents(n, f) == [i \in DOMAIN Plains(n, f) |-> Plains(n, f)[i].content]

Dated == {"crl.bin", "dae.bin", "secdata.bin"}

\* What f states of the build it was sealed in.
DatedBy(n, f, b) ==
  /\ n \in Dated => \A i \in DOMAIN Plains(n, f) :
                      Plains(n, f)[i].stamp = Stamp(b.time) /\ Plains(n, f)[i].lock = b.lock
  /\ n = "extended.bin" => f.body.plain.head = b.head

LaidFor(n, f, cpu, b, contents) ==
  ConsoleReads(n, f, cpu) /\ Contents(n, f) = contents /\ DatedBy(n, f, b)

\* Whatever the copy a build is handed was sealed under, and however many builds
\* it went through, a copy that can be read is in the image sealed for the
\* console of that build with the same content, dated by that build; one to be
\* made up is clean (sealed_flashfs_file, BuildRunner.cpp).
SealedForConsole ==
  \A k \in DOMAIN last : last[k].data # << >> =>
    LET f   == last[k].data[1]
        cpu == last[k].cpu
    IN  /\ Readable(name, f, cpu) => LaidFor(name, image[1], cpu, last[k].build, Contents(name, f))
        /\ \/ name = "extended.bin" /\ ~Readable(name, f, cpu)
           \/ name = "secdata.bin" /\ f.size # "right"
           => LaidFor(name, image[1], cpu, last[k].build, <<"clean">>)

\* What the console's copy is sealed with, beside its CPU key.
ConsoleSealing(n, f) ==
  CASE n = "crl.bin" -> <<f.iv, f.wrapped.key>>
    [] n = "dae.bin" -> <<f.records[1].field.id, f.records[1].body.plain.head>>
    [] n = "secdata.bin" -> <<f.body.plain.head>>

Read(k) == image # << >> /\ ConsoleReads(name, image[1], k)

\* A console's crl.bin, dae.bin and secdata.bin keep the vector, file key, heads
\* and field they are sealed with whatever content a build puts into them: a
\* copy from an update package or from another console never brings its own.
SealingKept ==
  [][LET build == last'[1]
     IN  /\ name \in ConsoleSecured /\ build.donor
         /\ Read(build.cpu) /\ image' # << >> /\ ConsoleReads(name, image'[1], build.cpu)
         => ConsoleSealing(name, image'[1]) = ConsoleSealing(name, image[1])]_vars

\* The donor of a build is an image built under the same settings, and nothing
\* else supplies the file.
Rebuild ==
  /\ last # << >> /\ last'[1].donor /\ ~last'[1].loose
  /\ last'[1].cpu = last[1].cpu /\ last'[1].build = last[1].build

\* Building a console's own dump again under the settings it was built with
\* changes no byte of a file the console reads.
RebuildKeeps == [][Rebuild /\ Read(last[1].cpu) => image' = image]_vars

\* "fcrt.bin is ... written as its failed opening when it opens under no key
\* (the console's own copy is then carried as it stands)", BuildRunner.cpp:123.
OwnFcrtCarried ==
  [][/\ name = "fcrt.bin" /\ image # << >> /\ last'[1].donor /\ ~last'[1].loose
     /\ ~Readable(name, image[1], last'[1].cpu)
     => image' = image]_vars

=============================================================================
