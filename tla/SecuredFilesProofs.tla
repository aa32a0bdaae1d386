------------------------- MODULE SecuredFilesProofs -------------------------
(***************************************************************************)
(* Proofs about the secured files, for every set of copies, keys, settings *)
(* and draws, and any number of records in dae.bin.                        *)
(***************************************************************************)
EXTENDS SecuredFiles, TLAPS

-----------------------------------------------------------------------------
(***************************************************************************)
(* Texts and layers.                                                       *)
(***************************************************************************)

Clear(plain) == [plain |-> plain, under |-> << >>]
Closed(plain, layer) == [plain |-> plain, under |-> <<layer>>]

LEMMA UndoOfLayer ==
  ASSUME NEW key, NEW with
  PROVE  /\ Undo(Layer(key, with, "open")) = Layer(key, with, "seal")
         /\ Undo(Layer(key, with, "seal")) = Layer(key, with, "open")
         /\ Undo(Layer(key, with, "xor")) = Layer(key, with, "xor")
BY DEF Undo, Layer

\* A layer on a text leaves the plaintext, and on a clear text lies alone.
LEMMA PutKeeps ==
  ASSUME NEW t, NEW fields, IsText(t, fields), NEW layer
  PROVE  IsText(Put(t, layer), fields) /\ Put(t, layer).plain = t.plain
BY DEF IsText, HasFields, Put

LEMMA PutOnClear ==
  ASSUME NEW t, NEW fields, IsText(t, fields), t.under = << >>, NEW layer
  PROVE  Put(t, layer) = Closed(t.plain, layer)
BY DEF IsText, HasFields, Put, Closed

LEMMA ClosedClear ==
  ASSUME NEW plain, NEW layer
  PROVE  Put(Clear(plain), layer) = Closed(plain, layer)
BY DEF Put, Closed, Clear

LEMMA PutOff ==
  ASSUME NEW t, NEW fields, IsText(t, fields), NEW layer, t.under = <<Undo(layer)>>
  PROVE  Put(t, layer) = Clear(t.plain)
<1>1. Len(t.under) = 1 /\ t.under[1] = Undo(layer)
  OBVIOUS
<1>2. SubSeq(t.under, 1, 0) = << >>
  BY <1>1
<1>. QED BY <1>1, <1>2 DEF IsText, HasFields, Put, Clear

LEMMA TextIsRecord ==
  ASSUME NEW t, NEW fields, IsText(t, fields)
  PROVE  t = [plain |-> t.plain, under |-> t.under]
BY DEF IsText, HasFields

\* The first of three openings, where the first is one.
LEMMA FirstlyIn ==
  ASSUME NEW S, S \subseteq 1 .. 3, S # {}
  PROVE  Firstly(S) \in S /\ (1 \in S => Firstly(S) = 1)
<1>1. \E i \in S : \A j \in S : i =< j
  <2>1. CASE 1 \in S
    BY <2>1
  <2>2. CASE 1 \notin S /\ 2 \in S
    BY <2>2
  <2>3. CASE 1 \notin S /\ 2 \notin S
    <3>1. PICK i \in S : TRUE
      OBVIOUS
    <3>2. \A j \in S : j = 3
      BY <2>3
    <3>. QED BY <3>1, <3>2
  <2>. QED BY <2>1, <2>2, <2>3
<1>. DEFINE first(i) == \A j \in S : i =< j
<1>2. \E i \in S : first(i)
  BY <1>1
<1>3. Firstly(S) = CHOOSE i \in S : first(i)
  BY DEF Firstly
<1>4. Firstly(S) \in S /\ first(Firstly(S))
  <2>. HIDE DEF first
  <2>. QED BY <1>2, <1>3
<1>5. Firstly(S) \in 1 .. 3 /\ \A j \in S : Firstly(S) =< j
  BY <1>4
<1>. QED BY <1>4, <1>5

-----------------------------------------------------------------------------
(***************************************************************************)
(* crl.bin.                                                                *)
(***************************************************************************)

CrlFields == {"stamp", "lock", "content"}

\* However a copy opens, the body found is in the clear and the copy's own.
LEMMA CrlOpens ==
  ASSUME NEW f, NEW cpu, IsCrl(f), OpenCrl(f, cpu) # << >>
  PROVE  OpenCrl(f, cpu)[1].body = Clear(f.body.plain) /\ f.body.plain.content = f.hash /\ f.whole
<1>. DEFINE opening == {i \in 1 .. 3 : Vouched(f.hash, CrlTexts(f, cpu)[i])}
<1>0. f.whole
  BY DEF OpenCrl
<1>1. CASE Vouched(f.hash, f.body)
  <2>1. OpenCrl(f, cpu)[1].body = f.body
    BY <1>0, <1>1 DEF OpenCrl
  <2>. QED BY <1>0, <1>1, <2>1, TextIsRecord DEF Vouched, IsCrl, Clear
<1>2. CASE ~Vouched(f.hash, f.body)
  <2>1. opening # {}
    BY <1>0, <1>2 DEF OpenCrl
  <2>2. Firstly(opening) \in opening
    BY <2>1, FirstlyIn
  <2>3. OpenCrl(f, cpu)[1].body = CrlTexts(f, cpu)[Firstly(opening)]
    BY <1>0, <1>2, <2>1 DEF OpenCrl
  <2>4. PICK i \in 1 .. 3 : /\ OpenCrl(f, cpu)[1].body = CrlTexts(f, cpu)[i]
                            /\ Vouched(f.hash, CrlTexts(f, cpu)[i])
    BY <2>2, <2>3
  <2>. DEFINE text == CrlTexts(f, cpu)[i]
  <2>5. IsText(text, CrlFields) /\ text.plain = f.body.plain
    BY PutKeeps DEF CrlTexts, IsCrl, CrlFields
  <2>. QED BY <1>0, <2>4, <2>5, TextIsRecord DEF Vouched, Clear
<1>. QED BY <1>1, <1>2

\* A copy sealed under a file key wrapped by a key the build knows opens.
LEMMA CrlOpensUnder ==
  ASSUME NEW f, NEW cpu, IsCrl(f), f.whole, f.body.plain.content = f.hash,
         NEW i \in 1 .. 3, f.wrapped.under = Masters(cpu)[i],
         Sealed(f.body, f.wrapped.key, f.iv, "seal")
  PROVE  /\ OpenCrl(f, cpu) # << >> /\ (i = 1 => OpenCrl(f, cpu)[1].master = 1)
<1>. DEFINE opening == {j \in 1 .. 3 : Vouched(f.hash, CrlTexts(f, cpu)[j])}
<1>1. Unwrapped(f.wrapped, Masters(cpu)[i]) = f.wrapped.key
  BY DEF Unwrapped
<1>2. CrlTexts(f, cpu)[i] = Clear(f.body.plain)
  BY <1>1, PutOff, UndoOfLayer DEF CrlTexts, IsCrl, Sealed
<1>3. i \in opening
  BY <1>2 DEF Vouched, Clear
<1>4. ~Vouched(f.hash, f.body)
  BY DEF Vouched, Sealed
<1>5. OpenCrl(f, cpu) = << [master |-> Firstly(opening), body |-> CrlTexts(f, cpu)[Firstly(opening)]] >>
  BY <1>3, <1>4 DEF OpenCrl
<1>6. i = 1 => Firstly(opening) = 1
  BY <1>3, FirstlyIn
<1>. QED BY <1>5, <1>6

\* Opened or not, a copy in the clear is vouched for as it is.
LEMMA CrlClearOpens ==
  ASSUME NEW f, NEW cpu, f.whole, f.body.plain.content = f.hash, f.body.under = << >>
  PROVE  OpenCrl(f, cpu) # << >>
BY DEF OpenCrl, Vouched

\* What a build makes of a copy that opens.
LEMMA CrlResealed ==
  ASSUME NEW f, NEW cpu, NEW s, NEW b, IsCrl(f), OpenCrl(f, cpu) # << >>
  PROVE  LET r == ResealedCrl(f, cpu, s, b)
         IN  /\ IsCrl(r) /\ r.whole = f.whole /\ r.hash = f.hash /\ r.iv = s.iv
             /\ r.wrapped = [key |-> s.key, under |-> cpu]
             /\ r.body = Closed(Stated(f.body.plain, b), Layer(s.key, s.iv, "seal"))
             /\ r.body.plain.content = r.hash
             /\ r.body.plain.stamp = Stamp(b.time) /\ r.body.plain.lock = b.lock
<1>. DEFINE r == ResealedCrl(f, cpu, s, b)
            plain == Stated(f.body.plain, b)
<1>0. OpenCrl(f, cpu)[1].body = Clear(f.body.plain) /\ f.body.plain.content = f.hash
  BY CrlOpens
<1>1. OpenCrl(f, cpu)[1].body.plain = f.body.plain /\ f.body.plain.content = f.hash
  BY <1>0 DEF Clear
<1>2. HasFields(plain, CrlFields) /\ plain.content = f.hash
      /\ plain.stamp = Stamp(b.time) /\ plain.lock = b.lock
  BY <1>1 DEF Stated, IsCrl, IsText, HasFields, CrlFields
<1>3. r = [f EXCEPT !.iv = s.iv, !.wrapped = [key |-> s.key, under |-> cpu],
                    !.body = Closed(plain, Layer(s.key, s.iv, "seal"))]
  BY <1>1, ClosedClear DEF ResealedCrl, Clear
<1>. HIDE DEF plain
<1>4. /\ r.whole = f.whole /\ r.hash = f.hash /\ r.iv = s.iv
      /\ r.wrapped = [key |-> s.key, under |-> cpu]
      /\ r.body = Closed(plain, Layer(s.key, s.iv, "seal"))
      /\ HasFields(r, {"whole", "hash", "iv", "wrapped", "body"})
  BY <1>3 DEF IsCrl, HasFields
<1>. HIDE DEF r
<1>5. IsText(Closed(plain, Layer(s.key, s.iv, "seal")), CrlFields)
  BY <1>2 DEF IsText, Closed, HasFields
<1>6. HasFields(r.wrapped, {"key", "under"})
  BY <1>4 DEF HasFields
<1>7. IsCrl(r)
  BY <1>4, <1>5, <1>6 DEF IsCrl, CrlFields
<1>8. r.body.plain = plain
  BY <1>4 DEF Closed
<1>. QED BY <1>2, <1>4, <1>7, <1>8 DEF plain, r

\* A copy the console reads opens under its own key, and what the build seals
\* it with is what it lies under.
LEMMA CrlOfConsole ==
  ASSUME NEW f, NEW cpu, IsCrl(f), ReadsCrl(f, cpu)
  PROVE  /\ OpenCrl(f, cpu) # << >>
         /\ CrlSealing(f, cpu) = << [iv |-> f.iv, key |-> f.wrapped.key] >>
<1>1. /\ f.whole /\ f.wrapped.under = cpu /\ f.body.plain.content = f.hash
      /\ Sealed(f.body, f.wrapped.key, f.iv, "seal")
  BY DEF ReadsCrl
<1>2. Masters(cpu)[1] = cpu
  BY DEF Masters
<1>3. OpenCrl(f, cpu) # << >> /\ OpenCrl(f, cpu)[1].master = 1
  BY <1>1, <1>2, CrlOpensUnder
<1>4. Unwrapped(f.wrapped, cpu) = f.wrapped.key
  BY <1>1 DEF Unwrapped
<1>. QED BY <1>3, <1>4 DEF CrlSealing

LEMMA CrlReadable ==
  ASSUME NEW f, NEW cpu, IsCrl(f), ReadableCrl(f, cpu)
  PROVE  OpenCrl(f, cpu) # << >>
<1>1. /\ f.whole /\ f.body.plain.content = f.hash
      /\ \/ f.body.under = << >>
         \/ /\ f.wrapped.under \in {cpu, XexKey, ZeroKey}
            /\ Sealed(f.body, f.wrapped.key, f.iv, "seal")
  BY DEF ReadableCrl, ReadableText, KnownKeys
<1>2. CASE f.body.under = << >>
  BY <1>1, <1>2, CrlClearOpens
<1>3. CASE f.wrapped.under \in {cpu, XexKey, ZeroKey} /\ Sealed(f.body, f.wrapped.key, f.iv, "seal")
  <2>1. \E i \in 1 .. 3 : f.wrapped.under = Masters(cpu)[i]
    BY <1>3 DEF Masters
  <2>. QED BY <1>1, <1>3, <2>1, CrlOpensUnder
<1>. QED BY <1>1, <1>2, <1>3

-----------------------------------------------------------------------------
(***************************************************************************)
(* dae.bin.                                                                *)
(***************************************************************************)

DaeFields == {"stamp", "lock", "head", "content", "mac"}

LEMMA RecordOpens ==
  ASSUME NEW r, NEW cpu, IsRecord(r), OpenRecord(r, cpu) # << >>
  PROVE  OpenRecord(r, cpu)[1].body = Clear(r.body.plain) /\ r.body.plain.content = r.hash
<1>. DEFINE opening == {i \in 1 .. 3 : Vouched(r.hash, RecordTexts(r, cpu)[i])}
<1>1. CASE Vouched(r.hash, r.body)
  <2>1. OpenRecord(r, cpu)[1].body = r.body
    BY <1>1 DEF OpenRecord
  <2>. QED BY <1>1, <2>1, TextIsRecord DEF Vouched, IsRecord, Clear
<1>2. CASE ~Vouched(r.hash, r.body)
  <2>1. opening # {}
    BY <1>2 DEF OpenRecord
  <2>2. Firstly(opening) \in opening
    BY <2>1, FirstlyIn
  <2>3. OpenRecord(r, cpu)[1].body = RecordTexts(r, cpu)[Firstly(opening)]
    BY <1>2, <2>1 DEF OpenRecord
  <2>4. PICK i \in 1 .. 3 : /\ OpenRecord(r, cpu)[1].body = RecordTexts(r, cpu)[i]
                            /\ Vouched(r.hash, RecordTexts(r, cpu)[i])
    BY <2>2, <2>3
  <2>. DEFINE text == RecordTexts(r, cpu)[i]
  <2>5. IsText(text, DaeFields) /\ text.plain = r.body.plain
    BY PutKeeps DEF RecordTexts, IsRecord, DaeFields
  <2>. QED BY <2>4, <2>5, TextIsRecord DEF Vouched, Clear
<1>. QED BY <1>1, <1>2

LEMMA RecordOpensUnder ==
  ASSUME NEW r, NEW cpu, IsRecord(r), r.body.plain.content = r.hash,
         NEW i \in 1 .. 3, Sealed(r.body, Masters(cpu)[i], NoVector, "seal")
  PROVE  OpenRecord(r, cpu) # << >> /\ (i = 1 => OpenRecord(r, cpu)[1].master = 1)
<1>. DEFINE opening == {j \in 1 .. 3 : Vouched(r.hash, RecordTexts(r, cpu)[j])}
<1>2. RecordTexts(r, cpu)[i] = Clear(r.body.plain)
  BY PutOff, UndoOfLayer DEF RecordTexts, IsRecord, Sealed
<1>3. i \in opening
  BY <1>2 DEF Vouched, Clear
<1>4. ~Vouched(r.hash, r.body)
  BY DEF Vouched, Sealed
<1>5. OpenRecord(r, cpu)
        = << [master |-> Firstly(opening), body |-> RecordTexts(r, cpu)[Firstly(opening)]] >>
  BY <1>3, <1>4 DEF OpenRecord
<1>6. i = 1 => Firstly(opening) = 1
  BY <1>3, FirstlyIn
<1>. QED BY <1>5, <1>6

\* The field a record is sealed with.
Marked(field) == [field EXCEPT !.marked = TRUE]

\* x is the record r as a build seals it under s.
SealedAs(x, r, cpu, s, b) ==
  /\ IsRecord(x) /\ x.hash = r.hash /\ x.body.plain.content = r.hash
  /\ x.field = Marked(s.field) /\ x.field.marked /\ x.field.id = s.field.id
  /\ Sealed(x.body, cpu, NoVector, "seal")
  /\ x.body.plain.stamp = Stamp(b.time) /\ x.body.plain.lock = b.lock
  /\ x.body.plain.head = s.head
  /\ x.body.plain.mac = Mac(cpu, x.field, x.body.plain)

\* What a build makes of a record that opens.
LEMMA RecordResealed ==
  ASSUME NEW r, NEW cpu, NEW s, NEW b, IsRecord(r), OpenRecord(r, cpu) # << >>,
         HasFields(s.field, {"id", "marked"})
  PROVE  SealedAs(ResealedRecord(r, cpu, s, b), r, cpu, s, b)
<1>. DEFINE x == ResealedRecord(r, cpu, s, b)
            field == [s.field EXCEPT !.marked = TRUE]
            plain == [Stated(r.body.plain, b) EXCEPT !.head = s.head]
            text == [plain EXCEPT !.mac = Mac(cpu, field, plain)]
<1>0. OpenRecord(r, cpu)[1].body = Clear(r.body.plain) /\ r.body.plain.content = r.hash
  BY RecordOpens
<1>1. OpenRecord(r, cpu)[1].body.plain = r.body.plain
  BY <1>0 DEF Clear
<1>2. /\ HasFields(plain, DaeFields) /\ plain.content = r.hash
      /\ plain.stamp = Stamp(b.time) /\ plain.lock = b.lock /\ plain.head = s.head
  BY <1>0 DEF Stated, IsRecord, IsText, HasFields, DaeFields
<1>3. HasFields(field, {"id", "marked"}) /\ field.marked = TRUE /\ field.id = s.field.id
  BY DEF HasFields
<1>4. x = [r EXCEPT !.field = field, !.body = Closed(text, Layer(cpu, NoVector, "seal"))]
  BY <1>1, ClosedClear DEF ResealedRecord, Clear
<1>. HIDE DEF plain, field
<1>5. /\ HasFields(text, DaeFields) /\ text.content = plain.content /\ text.stamp = plain.stamp
      /\ text.lock = plain.lock /\ text.head = plain.head /\ text.mac = Mac(cpu, field, plain)
  BY <1>2 DEF HasFields, DaeFields
<1>6. Mac(cpu, field, text) = Mac(cpu, field, plain)
  BY <1>5 DEF Mac
<1>. HIDE DEF text
<1>7. /\ x.hash = r.hash /\ x.field = field /\ x.body = Closed(text, Layer(cpu, NoVector, "seal"))
      /\ HasFields(x, {"field", "hash", "body"})
  BY <1>4 DEF IsRecord, HasFields
<1>. HIDE DEF x
<1>8. x.body.plain = text /\ x.body.under = <<Layer(cpu, NoVector, "seal")>>
  BY <1>7 DEF Closed
<1>9. IsText(x.body, DaeFields)
  BY <1>5, <1>7 DEF IsText, Closed, HasFields
<1>10. IsRecord(x)
  BY <1>3, <1>7, <1>9 DEF IsRecord, DaeFields
<1>11. Sealed(x.body, cpu, NoVector, "seal") /\ x.body.plain.mac = Mac(cpu, x.field, x.body.plain)
  BY <1>5, <1>6, <1>7, <1>8 DEF Sealed
<1>12. x.field = Marked(s.field)
  BY <1>7 DEF field, Marked
<1>13. SealedAs(x, r, cpu, s, b)
  BY <1>2, <1>3, <1>5, <1>7, <1>8, <1>10, <1>11, <1>12 DEF SealedAs
<1>. QED BY <1>13 DEF x

\* Sealed as its own record says, a record comes out as it was.
LEMMA RecordUnchanged ==
  ASSUME NEW r, NEW cpu, NEW s, NEW b, IsRecord(r), OpenRecord(r, cpu) # << >>,
         Sealed(r.body, cpu, NoVector, "seal"), r.field.marked,
         r.body.plain.stamp = Stamp(b.time), r.body.plain.lock = b.lock,
         r.body.plain.mac = Mac(cpu, r.field, r.body.plain),
         s.field = r.field, s.head = r.body.plain.head
  PROVE  ResealedRecord(r, cpu, s, b) = r
<1>. DEFINE p == r.body.plain
<1>1. OpenRecord(r, cpu)[1].body = Clear(p)
  BY RecordOpens
<1>. DEFINE field == Marked(s.field)
            plain == [Stated(OpenRecord(r, cpu)[1].body.plain, b) EXCEPT !.head = s.head]
            text == [plain EXCEPT !.mac = Mac(cpu, field, plain)]
<1>2. OpenRecord(r, cpu)[1].body.plain = p
  BY <1>1 DEF Clear
<1>3. field = r.field
  BY DEF IsRecord, HasFields, Marked
<1>4. HasFields(p, DaeFields)
  BY DEF IsRecord, IsText, DaeFields
<1>5. p.stamp = Stamp(b.time) /\ p.lock = b.lock /\ s.head = p.head /\ p.mac = Mac(cpu, r.field, p)
  OBVIOUS
<1>6. r.body = Closed(p, Layer(cpu, NoVector, "seal"))
  BY TextIsRecord DEF IsRecord, Sealed, Closed
<1>7. ResealedRecord(r, cpu, s, b) = [r EXCEPT !.field = field, !.body = Put(Clear(text), Layer(cpu, NoVector, "seal"))]
  BY DEF ResealedRecord, Clear, Marked
<1>. HIDE DEF p, field
<1>8. plain = p
  <2>1. Stated(p, b) = p
    BY <1>4, <1>5 DEF Stated, HasFields, DaeFields
  <2>2. [p EXCEPT !.head = s.head] = p
    BY <1>4, <1>5 DEF HasFields, DaeFields
  <2>. QED BY <1>2, <2>1, <2>2
<1>. HIDE DEF plain
<1>9. text = p
  BY <1>3, <1>4, <1>5, <1>8 DEF HasFields, DaeFields
<1>. HIDE DEF text
<1>. DEFINE body == Put(Clear(text), Layer(cpu, NoVector, "seal"))
<1>10. body = r.body
  BY <1>6, <1>9, ClosedClear
<1>11. ResealedRecord(r, cpu, s, b) = [r EXCEPT !.field = field, !.body = body]
  BY <1>7
<1>. HIDE DEF body
<1>. QED BY <1>3, <1>10, <1>11 DEF IsRecord, HasFields

LEMMA DaeOpens ==
  ASSUME NEW f, NEW cpu, IsDae(f), OpenDae(f, cpu) # << >>
  PROVE  /\ f.whole /\ 1 \in DOMAIN f.records
         /\ \A i \in DOMAIN f.records :
              OpenRecord(f.records[i], cpu) # << >> /\ OpenDae(f, cpu)[i] = OpenRecord(f.records[i], cpu)[1]
<1>1. /\ f.whole /\ \A i \in DOMAIN f.records : OpenRecord(f.records[i], cpu) # << >>
      /\ OpenDae(f, cpu) = [i \in DOMAIN f.records |-> OpenRecord(f.records[i], cpu)[1]]
  BY DEF OpenDae
<1>2. f.records # << >>
  BY <1>1
<1>3. 1 \in DOMAIN f.records
  BY <1>2 DEF IsDae
<1>. QED BY <1>1, <1>3

LEMMA DaeOpensAll ==
  ASSUME NEW f, NEW cpu, IsDae(f), f.whole, f.records # << >>,
         \A i \in DOMAIN f.records : OpenRecord(f.records[i], cpu) # << >>
  PROVE  OpenDae(f, cpu) # << >>
<1>1. 1 \in DOMAIN f.records
  BY DEF IsDae
<1>2. 1 \in DOMAIN OpenDae(f, cpu)
  BY <1>1 DEF OpenDae
<1>. QED BY <1>2

\* What a build makes of a file that opens is its console's, record by record.
LEMMA DaeResealed ==
  ASSUME NEW f, NEW cpu, NEW s, NEW b, IsDae(f), OpenDae(f, cpu) # << >>,
         HasFields(s.field, {"id", "marked"})
  PROVE  LET x == ResealedDae(f, cpu, s, b)
         IN  /\ IsDae(x) /\ ReadsDae(x, cpu) /\ DOMAIN x.records = DOMAIN f.records
             /\ x.records[1].field.id = s.field.id /\ x.records[1].body.plain.head = s.head
             /\ \A i \in DOMAIN f.records :
                  /\ x.records[i] = ResealedRecord(f.records[i], cpu, s, b)
                  /\ x.records[i].body.plain.content = f.records[i].hash
                  /\ x.records[i].body.plain.stamp = Stamp(b.time)
                  /\ x.records[i].body.plain.lock = b.lock
<1>. DEFINE x == ResealedDae(f, cpu, s, b)
            resealed(i) == ResealedRecord(f.records[i], cpu, s, b)
<1>1. /\ f.whole /\ 1 \in DOMAIN f.records
      /\ \A i \in DOMAIN f.records : OpenRecord(f.records[i], cpu) # << >> /\ IsRecord(f.records[i])
  BY DaeOpens DEF IsDae
<1>2. x = [f EXCEPT !.records = [i \in DOMAIN f.records |-> resealed(i)]]
  BY DEF ResealedDae
<1>3. \A i \in DOMAIN f.records : SealedAs(resealed(i), f.records[i], cpu, s, b)
  BY <1>1, RecordResealed
<1>. HIDE DEF resealed
<1>4. /\ HasFields(x, {"whole", "records"}) /\ x.whole = f.whole
      /\ x.records = [i \in DOMAIN f.records |-> resealed(i)]
  BY <1>2 DEF IsDae, HasFields
<1>. HIDE DEF x
<1>5. DOMAIN x.records = DOMAIN f.records /\ \A i \in DOMAIN f.records : x.records[i] = resealed(i)
  BY <1>4
<1>6. x.records \in Seq({x.records[i] : i \in DOMAIN x.records})
  <2>1. DOMAIN f.records = 1 .. Len(f.records) /\ Len(f.records) \in Nat
    BY DEF IsDae
  <2>2. \A i \in 1 .. Len(f.records) : resealed(i) \in {x.records[j] : j \in DOMAIN x.records}
    BY <1>5, <2>1
  <2>. QED BY <1>4, <2>1, <2>2
<1>7. IsDae(x)
  BY <1>1, <1>3, <1>4, <1>5, <1>6 DEF IsDae, SealedAs
<1>8. ReadsDae(x, cpu)
  <2>1. x.whole /\ x.records # << >>
    BY <1>1, <1>4, <1>5
  <2>2. ASSUME NEW i \in DOMAIN x.records
        PROVE  /\ Sealed(x.records[i].body, cpu, NoVector, "seal")
               /\ x.records[i].body.plain.content = x.records[i].hash
               /\ x.records[i].body.plain.mac = Mac(cpu, x.records[i].field, x.records[i].body.plain)
               /\ x.records[i].field.marked
               /\ x.records[i].field = x.records[1].field
               /\ x.records[i].body.plain.head = x.records[1].body.plain.head
    BY <1>1, <1>3, <1>5 DEF SealedAs
  <2>. QED BY <2>1, <2>2 DEF ReadsDae
<1>9. /\ x.records[1].field.id = s.field.id /\ x.records[1].body.plain.head = s.head
      /\ \A i \in DOMAIN f.records :
           /\ x.records[i] = resealed(i)
           /\ x.records[i].body.plain.content = f.records[i].hash
           /\ x.records[i].body.plain.stamp = Stamp(b.time)
           /\ x.records[i].body.plain.lock = b.lock
  BY <1>1, <1>3, <1>5 DEF SealedAs
<1>. QED BY <1>5, <1>7, <1>8, <1>9 DEF x, resealed

LEMMA DaeOfConsole ==
  ASSUME NEW f, NEW cpu, IsDae(f), ReadsDae(f, cpu)
  PROVE  /\ OpenDae(f, cpu) # << >> /\ 1 \in DOMAIN f.records
         /\ DaeSealing(f, cpu) = << [head |-> f.records[1].body.plain.head, field |-> f.records[1].field] >>
<1>1. f.whole /\ f.records # << >> /\ 1 \in DOMAIN f.records
  BY DEF ReadsDae, IsDae
<1>2. \A i \in DOMAIN f.records :
        /\ IsRecord(f.records[i]) /\ f.records[i].body.plain.content = f.records[i].hash
        /\ Sealed(f.records[i].body, Masters(cpu)[1], NoVector, "seal")
  BY DEF ReadsDae, IsDae, Masters
<1>3. \A i \in DOMAIN f.records :
        OpenRecord(f.records[i], cpu) # << >> /\ OpenRecord(f.records[i], cpu)[1].master = 1
  BY <1>2, RecordOpensUnder
<1>4. OpenDae(f, cpu) # << >>
  BY <1>1, <1>3, DaeOpensAll
<1>5. OpenDae(f, cpu)[1] = OpenRecord(f.records[1], cpu)[1]
  BY <1>1, <1>4, DaeOpens
<1>6. OpenRecord(f.records[1], cpu)[1].body = Clear(f.records[1].body.plain)
  BY <1>1, <1>2, <1>3, RecordOpens
<1>7. OpenDae(f, cpu)[1].master = 1 /\ OpenDae(f, cpu)[1].body.plain = f.records[1].body.plain
  BY <1>1, <1>3, <1>5, <1>6 DEF Clear
<1>. QED BY <1>1, <1>4, <1>7 DEF DaeSealing

LEMMA DaeReadable ==
  ASSUME NEW f, NEW cpu, IsDae(f), ReadableDae(f, cpu)
  PROVE  OpenDae(f, cpu) # << >>
<1>1. ASSUME NEW i \in DOMAIN f.records PROVE OpenRecord(f.records[i], cpu) # << >>
  <2>. DEFINE r == f.records[i]
  <2>1. IsRecord(r) /\ r.body.plain.content = r.hash
        /\ (r.body.under = << >> \/ \E key \in KnownKeys(cpu) : Sealed(r.body, key, NoVector, "seal"))
    BY DEF IsDae, ReadableDae, ReadableText
  <2>2. CASE r.body.under = << >>
    BY <2>1, <2>2 DEF OpenRecord, Vouched
  <2>3. ASSUME NEW key \in KnownKeys(cpu), Sealed(r.body, key, NoVector, "seal")
        PROVE  OpenRecord(r, cpu) # << >>
    <3>1. \E j \in 1 .. 3 : key = Masters(cpu)[j]
      BY DEF KnownKeys, Masters
    <3>. QED BY <2>1, <2>3, <3>1, RecordOpensUnder
  <2>. QED BY <2>1, <2>2, <2>3
<1>. QED BY <1>1, DaeOpensAll DEF ReadableDae

\* A sealing taken from a copy has a field to set.
LEMMA DaeSealingShape ==
  ASSUME NEW f, NEW cpu, IsDae(f), DaeSealing(f, cpu) # << >>
  PROVE  HasFields(DaeSealing(f, cpu)[1].field, {"id", "marked"})
<1>1. OpenDae(f, cpu) # << >> /\ DaeSealing(f, cpu)[1].field = f.records[1].field
  BY DEF DaeSealing
<1>2. 1 \in DOMAIN f.records
  BY <1>1, DaeOpens
<1>. QED BY <1>1, <1>2 DEF IsDae, IsRecord

-----------------------------------------------------------------------------
(***************************************************************************)
(* extended.bin and secdata.bin.                                           *)
(***************************************************************************)

KeyedFields == {"head", "lock", "stamp", "content"}
KeyedLayer(f, cpu) == Layer(cpu, f.nonce, "xor")

\* RC4 undoes itself: the same keystream twice leaves a text as it was.
LEMMA PutTwice ==
  ASSUME NEW t, NEW fields, IsText(t, fields), Reduced(t), NEW layer, Undo(layer) = layer
  PROVE  Put(Put(t, layer), layer) = t
<1>. DEFINE S == {t.under[i] : i \in DOMAIN t.under} \cup {layer}
            u == t.under
            n == Len(u)
<1>1. u \in Seq(S) /\ n \in Nat /\ DOMAIN u = 1 .. n
  BY DEF Reduced
<1>2. \A i \in 1 .. n - 1 : u[i + 1] # Undo(u[i])
  BY DEF Reduced
<1>3. t = [plain |-> t.plain, under |-> u]
  BY TextIsRecord
<1>4. CASE n > 0 /\ u[n] = layer
  <2>. DEFINE v == SubSeq(u, 1, n - 1)
  <2>1. Put(t, layer) = [plain |-> t.plain, under |-> v]
    BY <1>3, <1>4 DEF Put
  <2>2. v \in Seq(S) /\ Len(v) = n - 1 /\ \A i \in 1 .. n - 1 : v[i] = u[i]
    BY <1>1, <1>4
  <2>3. ~(Len(v) > 0 /\ v[Len(v)] = layer)
    <3>1. SUFFICES ASSUME n - 1 > 0, v[n - 1] = layer PROVE FALSE
      BY <2>2
    <3>2. u[n - 1] = layer /\ n - 1 \in 1 .. n - 1
      BY <1>1, <2>2, <3>1
    <3>3. u[n - 1 + 1] # Undo(u[n - 1])
      BY <1>2, <3>2
    <3>. QED BY <1>1, <1>4, <3>2, <3>3
  <2>. HIDE DEF v
  <2>4. Put([plain |-> t.plain, under |-> v], layer) = [plain |-> t.plain, under |-> Append(v, layer)]
    BY <2>3 DEF Put
  <2>5. Append(v, layer) = u
    <3>1. Append(v, layer) \in Seq(S) /\ Len(Append(v, layer)) = n
      BY <1>1, <1>4, <2>2
    <3>2. \A i \in 1 .. n : Append(v, layer)[i] = u[i]
      BY <1>1, <1>4, <2>2
    <3>. QED BY <1>1, <3>1, <3>2
  <2>. QED BY <1>3, <2>1, <2>4, <2>5
<1>5. CASE ~(n > 0 /\ u[n] = layer)
  <2>. DEFINE v == Append(u, layer)
  <2>1. Put(t, layer) = [plain |-> t.plain, under |-> v]
    BY <1>3, <1>5 DEF Put
  <2>2. v \in Seq(S) /\ Len(v) = n + 1 /\ v[n + 1] = layer /\ \A i \in 1 .. n : v[i] = u[i]
    BY <1>1
  <2>3. SubSeq(v, 1, n) = u
    <3>1. SubSeq(v, 1, n) \in Seq(S) /\ Len(SubSeq(v, 1, n)) = n /\ \A i \in 1 .. n : SubSeq(v, 1, n)[i] = v[i]
      BY <1>1, <2>2
    <3>. QED BY <1>1, <2>2, <3>1
  <2>. HIDE DEF v
  <2>4. Put([plain |-> t.plain, under |-> v], layer) = [plain |-> t.plain, under |-> SubSeq(v, 1, n)]
    <3>1. Len(v) > 0 /\ v[Len(v)] = Undo(layer) /\ Len(v) - 1 = n
      BY <1>1, <2>2
    <3>. QED BY <3>1 DEF Put
  <2>. QED BY <1>3, <2>1, <2>3, <2>4
<1>. QED BY <1>4, <1>5

\* A nonce is taken of a plaintext, so what it opens is in the clear.
LEMMA OpenedIsClear ==
  ASSUME NEW f, NEW cpu, IsKeyed(f), Opened(f, cpu)
  PROVE  f.body = Clear(f.body.plain) /\ f.body.under = << >>
<1>1. f.nonce.of = f.body
  BY DEF Opened, Derived
<1>2. f.body.under = << >>
  BY <1>1 DEF IsKeyed
<1>. QED BY <1>2, TextIsRecord DEF IsKeyed, Clear

LEMMA CryptedKeeps ==
  ASSUME NEW f, NEW cpu, IsKeyed(f)
  PROVE  LET x == Crypted(f, cpu)
         IN  /\ IsKeyed(x) /\ x.size = f.size /\ x.nonce = f.nonce
             /\ x.body = Put(f.body, KeyedLayer(f, cpu)) /\ x.body.plain = f.body.plain
<1>. DEFINE body == Put(f.body, KeyedLayer(f, cpu))
            x == Crypted(f, cpu)
<1>1. x = [f EXCEPT !.body = body]
  BY DEF Crypted, KeyedLayer
<1>2. IsText(body, KeyedFields) /\ body.plain = f.body.plain
  BY PutKeeps DEF IsKeyed, KeyedFields
<1>. HIDE DEF body
<1>3. /\ HasFields(x, {"size", "nonce", "body"}) /\ x.size = f.size /\ x.nonce = f.nonce /\ x.body = body
  BY <1>1 DEF IsKeyed, HasFields
<1>. HIDE DEF x
<1>4. IsKeyed(x)
  BY <1>2, <1>3 DEF IsKeyed, KeyedFields
<1>. QED BY <1>2, <1>3, <1>4 DEF x, body

LEMMA SealedPlainIs ==
  ASSUME NEW p, NEW cpu, HasFields(p, KeyedFields)
  PROVE  LET x == SealedPlain(p, cpu)
         IN  /\ x = [size |-> "right", nonce |-> Derived(cpu, Clear(p)),
                     body |-> Closed(p, Layer(cpu, Derived(cpu, Clear(p)), "xor"))]
             /\ IsKeyed(x) /\ ReadsKeyed(x, cpu) /\ x.body.plain = p
<1>. DEFINE x == SealedPlain(p, cpu)
            nonce == Derived(cpu, Clear(p))
            body == Closed(p, Layer(cpu, nonce, "xor"))
<1>1. x = [size |-> "right", nonce |-> nonce, body |-> body]
  <2>1. x = Crypted([size |-> "right", nonce |-> nonce, body |-> Clear(p)], cpu)
    BY DEF SealedPlain, Clear
  <2>. HIDE DEF nonce
  <2>2. Put(Clear(p), Layer(cpu, nonce, "xor")) = body
    BY ClosedClear
  <2>. HIDE DEF x, body
  <2>. QED BY <2>1, <2>2 DEF Crypted
<1>2. nonce.of = Clear(p) /\ HasFields(nonce, {"kind", "key", "of"}) /\ Clear(p).under = << >>
  BY DEF Derived, Clear, HasFields
<1>3. IsText(body, KeyedFields) /\ body.plain = p /\ body.under = <<Layer(cpu, nonce, "xor")>>
  BY DEF IsText, HasFields, Closed
<1>. HIDE DEF nonce, body, x
<1>4. IsKeyed(x)
  BY <1>1, <1>2, <1>3 DEF IsKeyed, HasFields, KeyedFields
<1>5. ReadsKeyed(x, cpu)
  BY <1>1, <1>3 DEF ReadsKeyed, Sealed, nonce, Clear
<1>. QED BY <1>1, <1>3, <1>4, <1>5 DEF x, nonce, body

\* A copy the console reads is what sealing its plaintext gives, and opens.
LEMMA KeyedOfConsole ==
  ASSUME NEW f, NEW cpu, IsKeyed(f), ReadsKeyed(f, cpu)
  PROVE  /\ f = SealedPlain(f.body.plain, cpu)
         /\ LET x == Crypted(f, cpu)
            IN  x.size = "right" /\ Opened(x, cpu) /\ x.body.plain = f.body.plain
<1>. DEFINE p == f.body.plain
            x == Crypted(f, cpu)
<1>1. f.size = "right" /\ f.nonce = Derived(cpu, Clear(p)) /\ f.body.under = <<KeyedLayer(f, cpu)>>
  BY DEF ReadsKeyed, Sealed, Clear, KeyedLayer
<1>2. IsText(f.body, KeyedFields) /\ HasFields(p, KeyedFields)
  BY DEF IsKeyed, IsText, KeyedFields
<1>3. f.body = Closed(p, KeyedLayer(f, cpu))
  BY <1>1, <1>2, TextIsRecord DEF Closed
<1>4. f = [size |-> "right", nonce |-> f.nonce, body |-> f.body]
  BY <1>1 DEF IsKeyed, HasFields
<1>5. f = SealedPlain(p, cpu)
  <2>. HIDE DEF p
  <2>. QED BY <1>1, <1>2, <1>3, <1>4, SealedPlainIs DEF KeyedLayer
<1>6. x.body = Put(f.body, KeyedLayer(f, cpu)) /\ x.nonce = f.nonce /\ x.size = f.size
  BY CryptedKeeps
<1>7. x.body = Clear(p)
  <2>1. f.body.under = <<Undo(KeyedLayer(f, cpu))>>
    BY <1>1, UndoOfLayer DEF KeyedLayer
  <2>. QED BY <1>2, <1>6, <2>1, PutOff
<1>8. Opened(x, cpu)
  BY <1>1, <1>6, <1>7 DEF Opened
<1>9. x.body.plain = p
  BY <1>7 DEF Clear
<1>. QED BY <1>1, <1>5, <1>6, <1>8, <1>9

\* What sealed_flashfs_file makes of extended.bin.
LEMMA ExtendedSealed ==
  ASSUME NEW f, NEW cpu, NEW b, IsKeyed(f)
  PROVE  LET x == SealedExtended(f, cpu, b)
         IN  /\ IsKeyed(x) /\ ReadsKeyed(x, cpu) /\ x.body.plain.head = b.head
             /\ IF ReadableKeyed(f, cpu) THEN x.body.plain.content = f.body.plain.content
                ELSE x.body.plain.content = "clean"
<1>. DEFINE x == SealedExtended(f, cpu, b)
            plain == [f.body.plain EXCEPT !.head = b.head]
            clean == [CleanPlain EXCEPT !.head = b.head]
<1>1. ReadableKeyed(f, cpu) <=> f.size = "right" /\ Opened(f, cpu)
  BY OpenedIsClear DEF ReadableKeyed
<1>2. HasFields(plain, KeyedFields) /\ plain.content = f.body.plain.content /\ plain.head = b.head
  BY DEF IsKeyed, IsText, HasFields, KeyedFields
<1>3. HasFields(clean, KeyedFields) /\ clean.content = "clean" /\ clean.head = b.head
  BY DEF CleanPlain, HasFields, KeyedFields
<1>4. x = IF ReadableKeyed(f, cpu) THEN SealedPlain(plain, cpu) ELSE SealedPlain(clean, cpu)
  BY <1>1 DEF SealedExtended
<1>. HIDE DEF plain, clean, x
<1>. QED BY <1>2, <1>3, <1>4, SealedPlainIs DEF x

\* The plaintext a secdata.bin is given: dated, under the console's head.
Taken(plain, heads, otherwise, b) ==
  Stated([plain EXCEPT !.head = IF heads # << >> THEN heads[1] ELSE otherwise], b)

LEMMA TakenIs ==
  ASSUME NEW plain, HasFields(plain, KeyedFields), NEW heads, NEW otherwise, NEW b
  PROVE  LET p == Taken(plain, heads, otherwise, b)
         IN  /\ HasFields(p, KeyedFields) /\ p.content = plain.content
             /\ p.stamp = Stamp(b.time) /\ p.lock = b.lock
             /\ (heads # << >> => p.head = heads[1])
             /\ (plain.stamp = Stamp(b.time) /\ plain.lock = b.lock /\ heads = <<plain.head>> => p = plain)
<1>. DEFINE head == IF heads # << >> THEN heads[1] ELSE otherwise
            q == [plain EXCEPT !.head = head]
            p == Stated(q, b)
<1>1. HasFields(q, KeyedFields) /\ q.content = plain.content /\ q.head = head
      /\ q.stamp = plain.stamp /\ q.lock = plain.lock
  BY DEF HasFields, KeyedFields
<1>2. heads # << >> => head = heads[1]
  OBVIOUS
<1>3. heads = <<plain.head>> => q = plain
  <2>1. heads = <<plain.head>> => head = plain.head
    OBVIOUS
  <2>. HIDE DEF head
  <2>. QED BY <2>1 DEF HasFields, KeyedFields
<1>4. Taken(plain, heads, otherwise, b) = p
  BY DEF Taken
<1>. HIDE DEF q, head
<1>5. /\ HasFields(p, KeyedFields) /\ p.content = q.content /\ p.head = q.head
      /\ p.stamp = Stamp(b.time) /\ p.lock = b.lock
      /\ (q.stamp = Stamp(b.time) /\ q.lock = b.lock => p = q)
  BY <1>1 DEF HasFields, KeyedFields, Stated
<1>. HIDE DEF p
<1>. QED BY <1>1, <1>2, <1>3, <1>4, <1>5

\* The three ways sealed_flashfs_file takes with secdata.bin.
LEMMA SecdataSealed ==
  ASSUME NEW f, NEW own, NEW cpu, NEW b, NEW d, IsKeyed(f)
  PROVE  LET x == SealedSecdata(f, own, cpu, b, d)
             heads == OwnHead(own, cpu)
         IN  \/ /\ f.size = "right" /\ ~Opened(f, cpu) /\ own # <<f>> /\ x = Crypted(f, cpu)
             \/ /\ f.size = "right" /\ Opened(f, cpu)
                /\ x = SealedPlain(Taken(f.body.plain, heads, f.body.plain.head, b), cpu)
             \/ /\ ~(f.size = "right" /\ Opened(f, cpu))
                /\ x = SealedPlain(Taken(CleanPlain, heads, d, b), cpu)
BY DEF SealedSecdata, Taken

-----------------------------------------------------------------------------
(***************************************************************************)
(* fcrt.bin.                                                               *)
(***************************************************************************)

LEMMA FcrtSealed ==
  ASSUME NEW f, NEW own, NEW cpu, IsFcrt(f)
  PROVE  LET x == SealedFcrt(f, own, cpu)
         IN  /\ IsFcrt(x)
             /\ ReadableFcrt(f, cpu) => ReadsFcrt(x, cpu) /\ x.body.plain = f.body.plain
             /\ ReadsFcrt(f, cpu) => x = f
<1>. DEFINE opened == FcrtCrypted(f, cpu, "open")
            closed == FcrtCrypted(f, cpu, "seal")
            x == SealedFcrt(f, own, cpu)
            with(body) == [f EXCEPT !.body = body]
<1>1. /\ IsText(f.body, {"content"}) /\ f.whole \in BOOLEAN /\ f.blocks \in BOOLEAN
      /\ HasFields(f, {"whole", "blocks", "hash", "body"})
  BY DEF IsFcrt
<1>2. /\ IsText(opened, {"content"}) /\ opened.plain = f.body.plain
      /\ IsText(closed, {"content"}) /\ closed.plain = f.body.plain
  BY <1>1, PutKeeps DEF FcrtCrypted
<1>3. \A body : /\ with(body).whole = f.whole /\ with(body).blocks = f.blocks
                /\ with(body).hash = f.hash /\ with(body).body = body
                /\ HasFields(with(body), {"whole", "blocks", "hash", "body"})
  BY <1>1 DEF HasFields
<1>4. with(f.body) = f
  BY <1>1 DEF HasFields
<1>5. f.blocks /\ f.body.under = << >> => closed = Closed(f.body.plain, Layer(cpu, "fcrt", "seal"))
  BY <1>1, PutOnClear DEF FcrtCrypted
<1>6. ~f.blocks => closed = f.body /\ opened = f.body
  BY DEF FcrtCrypted
<1>7. f.blocks /\ Sealed(f.body, cpu, "fcrt", "seal") => opened = Clear(f.body.plain)
  BY <1>1, PutOff, UndoOfLayer DEF FcrtCrypted, Sealed
<1>8. x = IF ~f.whole THEN f
          ELSE IF Vouched(f.hash, f.body) THEN with(closed)
          ELSE IF Vouched(f.hash, opened) \/ own = <<f>> THEN f
          ELSE with(opened)
  BY DEF SealedFcrt
<1>. HIDE DEF opened, closed, x, with
<1>9. IsFcrt(x)
  <2>1. IsFcrt(with(closed)) /\ IsFcrt(with(opened))
    BY <1>1, <1>2, <1>3 DEF IsFcrt
  <2>. QED BY <1>8, <2>1
<1>10. ASSUME ReadableFcrt(f, cpu) PROVE ReadsFcrt(x, cpu) /\ x.body.plain = f.body.plain
  <2>1. /\ f.whole /\ f.body.plain.content = f.hash
        /\ f.body.under = << >> \/ (f.blocks /\ Sealed(f.body, cpu, "fcrt", "seal"))
    BY <1>1, <1>10 DEF ReadableFcrt, ReadableText
  <2>2. CASE f.body.under = << >>
    <3>1. x = with(closed)
      BY <1>8, <2>1, <2>2 DEF Vouched
    <3>2. IF f.blocks THEN Sealed(closed, cpu, "fcrt", "seal") ELSE closed.under = << >>
      BY <1>1, <1>5, <1>6, <2>2 DEF Sealed, Closed
    <3>. QED BY <1>2, <1>3, <2>1, <3>1, <3>2 DEF ReadsFcrt
  <2>3. CASE f.blocks /\ Sealed(f.body, cpu, "fcrt", "seal")
    <3>1. ~Vouched(f.hash, f.body)
      BY <2>3 DEF Vouched, Sealed
    <3>2. Vouched(f.hash, opened)
      BY <1>7, <2>1, <2>3 DEF Vouched, Clear
    <3>3. x = f
      BY <1>8, <2>1, <3>1, <3>2
    <3>. QED BY <2>1, <2>3, <3>3 DEF ReadsFcrt
  <2>. QED BY <2>1, <2>2, <2>3
<1>11. ASSUME ReadsFcrt(f, cpu) PROVE x = f
  <2>1. CASE f.blocks
    <3>1. f.whole /\ Sealed(f.body, cpu, "fcrt", "seal") /\ f.body.plain.content = f.hash
      BY <1>11, <2>1 DEF ReadsFcrt
    <3>2. ~Vouched(f.hash, f.body)
      BY <3>1 DEF Vouched, Sealed
    <3>3. Vouched(f.hash, opened)
      BY <1>7, <2>1, <3>1 DEF Vouched, Clear
    <3>. QED BY <1>8, <3>1, <3>2, <3>3
  <2>2. CASE ~f.blocks
    <3>1. f.whole /\ Vouched(f.hash, f.body)
      BY <1>11, <2>2 DEF ReadsFcrt, Vouched
    <3>. QED BY <1>4, <1>6, <1>8, <2>2, <3>1
  <2>. QED BY <1>1, <2>1, <2>2
<1>. QED BY <1>9, <1>10, <1>11 DEF x

-----------------------------------------------------------------------------
(***************************************************************************)
(* What a build is handed, and what it lays.                               *)
(***************************************************************************)

\* At most one copy of the file n.
Held(n, c) == c = << >> \/ \E f : c = <<f>> /\ IsFile(n, f)

\* A secdata.bin that does not open does not become one that does by being
\* put under its own keystream again.
StaysSealed(n, f, cpu) ==
  n = "secdata.bin" /\ ~Opened(f, cpu) => ~ReadsKeyed(Crypted(f, cpu), cpu)

LEMMA ExtractedIsFile ==
  ASSUME NEW n, NEW f, IsFile(n, f), NEW cpu
  PROVE  IsFile(n, Extracted(n, f, cpu))
BY CryptedKeeps DEF IsFile, Extracted, CpuKeyed

LEMMA OwnHeld ==
  ASSUME NEW n, NEW donor, Held(n, donor), NEW cpu
  PROVE  Held(n, Own(n, donor, cpu))
<1>1. CASE donor = << >>
  BY <1>1 DEF Own, Held
<1>2. ASSUME NEW f, donor = <<f>>, IsFile(n, f) PROVE Held(n, Own(n, donor, cpu))
  BY <1>2, ExtractedIsFile DEF Own, Held
<1>. QED BY <1>1, <1>2 DEF Held

LEMMA OpenLooseIs ==
  ASSUME NEW n \in Name, n \in CpuKeyed, NEW f \in Copy[n], NEW cpu
  PROVE  /\ IsKeyed(OpenLoose(f, cpu))
         /\ StaysSealed(n, OpenLoose(f, cpu), cpu)
<1>. DEFINE opened == Crypted(f, cpu)
            x == OpenLoose(f, cpu)
            layer == KeyedLayer(f, cpu)
            derived == [f EXCEPT !.nonce = Derived(cpu, f.body)]
<1>1. IsKeyed(f) /\ Reduced(f.body) /\ (f.nonce.kind = "zero" => f.body.under = << >>)
  BY CopyAssumption DEF IsFile
<1>2. /\ IsKeyed(opened) /\ opened.nonce = f.nonce /\ opened.body = Put(f.body, layer)
      /\ opened.body.plain = f.body.plain
  BY <1>1, CryptedKeeps
<1>3. CASE Opened(opened, cpu)
  <2>1. x = opened
    BY <1>3 DEF OpenLoose
  <2>. QED BY <1>2, <1>3, <2>1 DEF StaysSealed
<1>4. CASE ~Opened(opened, cpu) /\ (f.nonce.kind = "zero" \/ Opened(f, cpu))
  <2>1. x = derived
    BY <1>4 DEF OpenLoose
  <2>2. f.body.under = << >>
    BY <1>1, <1>4, OpenedIsClear
  <2>3. /\ HasFields(derived, {"size", "nonce", "body"}) /\ derived.nonce = Derived(cpu, f.body)
        /\ derived.body = f.body
    BY <1>1 DEF IsKeyed, HasFields
  <2>. HIDE DEF derived
  <2>4. HasFields(derived.nonce, {"kind", "key", "of"}) /\ derived.nonce.of = f.body
    BY <2>3 DEF Derived, HasFields
  <2>5. IsKeyed(derived) /\ Opened(derived, cpu)
    BY <1>1, <2>2, <2>3, <2>4 DEF IsKeyed, Opened
  <2>. QED BY <2>1, <2>5 DEF StaysSealed
<1>5. CASE ~Opened(opened, cpu) /\ ~(f.nonce.kind = "zero" \/ Opened(f, cpu))
  <2>1. x = opened
    BY <1>5 DEF OpenLoose
  <2>2. Undo(layer) = layer
    BY UndoOfLayer DEF KeyedLayer
  <2>3. Put(opened.body, layer) = f.body
    BY <1>1, <1>2, <2>2, PutTwice DEF IsKeyed
  <2>. DEFINE again == Crypted(opened, cpu)
  <2>4. again.nonce = f.nonce /\ again.body = f.body
    BY <1>2, <2>3, CryptedKeeps DEF KeyedLayer
  <2>5. ASSUME ReadsKeyed(again, cpu) PROVE FALSE
    <3>1. f.body.under = <<layer>> /\ f.nonce = Derived(cpu, Clear(f.body.plain))
      BY <2>4, <2>5 DEF ReadsKeyed, Sealed, KeyedLayer, Clear
    <3>2. opened.body = Clear(f.body.plain)
      BY <1>1, <1>2, <2>2, <3>1, PutOff DEF IsKeyed
    <3>3. Opened(opened, cpu)
      BY <1>2, <3>1, <3>2 DEF Opened
    <3>. QED BY <1>5, <3>3
  <2>. QED BY <1>2, <2>1, <2>5 DEF StaysSealed
<1>. QED BY <1>3, <1>4, <1>5

LEMMA ResolvedIsFile ==
  ASSUME NEW n \in Name, NEW donor, Held(n, donor), NEW loose,
         loose = << >> \/ \E l \in Copy[n] : loose = <<l>>, NEW listed, NEW cpu,
         Resolved(n, donor, loose, listed, cpu) # << >>
  PROVE  LET data == Resolved(n, donor, loose, listed, cpu)
         IN  /\ data = <<data[1]>> /\ IsFile(n, data[1])
             /\ data[1].size = "right" /\ Own(n, donor, cpu) # data => StaysSealed(n, data[1], cpu)
<1>. DEFINE data == Resolved(n, donor, loose, listed, cpu)
<1>1. ASSUME NEW l \in Copy[n], loose = <<l>>, n \in CpuKeyed, HoldsNonce(l)
      PROVE  data = <<OpenLoose(l, cpu)>>
  BY <1>1 DEF Resolved
<1>2. ASSUME NEW l \in Copy[n], loose = <<l>>, ~(n \in CpuKeyed /\ HoldsNonce(l))
      PROVE  data = <<l>> /\ IsFile(n, l) /\ (n = "secdata.bin" => l.size # "right")
  <2>1. data = <<l>>
    BY <1>2 DEF Resolved
  <2>2. IsFile(n, l)
    BY CopyAssumption
  <2>. QED BY <1>2, <2>1, <2>2 DEF HoldsNonce, CpuKeyed
<1>3. ASSUME loose = << >>, NEW f, donor = <<f>>, IsFile(n, f)
      PROVE  /\ data = <<Extracted(n, f, cpu)>>
             /\ n = "secdata.bin" => Own(n, donor, cpu) = data
  <2>1. data = <<Extracted(n, f, cpu)>>
    BY <1>3 DEF Resolved
  <2>. QED BY <1>3, <2>1 DEF Own, ConsoleSecured
<1>4. ASSUME loose = << >>, donor = << >>
      PROVE  data = <<EmptyFile>> /\ n \in CpuKeyed
  BY <1>4 DEF Resolved
<1>5. IsKeyed(EmptyFile) /\ EmptyFile.size # "right"
  BY DEF EmptyFile, CleanPlain, IsKeyed, IsText, HasFields
<1>. HIDE DEF data
<1>6. CASE \E l \in Copy[n] : loose = <<l>>
  <2>1. PICK l \in Copy[n] : loose = <<l>>
    BY <1>6
  <2>2. CASE n \in CpuKeyed /\ HoldsNonce(l)
    <3>1. data = <<OpenLoose(l, cpu)>> /\ IsKeyed(OpenLoose(l, cpu)) /\ StaysSealed(n, OpenLoose(l, cpu), cpu)
      BY <1>1, <2>1, <2>2, OpenLooseIs
    <3>2. IsFile(n, OpenLoose(l, cpu))
      BY <2>2, <3>1 DEF IsFile, CpuKeyed
    <3>. QED BY <3>1, <3>2 DEF data
  <2>3. CASE ~(n \in CpuKeyed /\ HoldsNonce(l))
    BY <1>2, <2>1, <2>3 DEF data, StaysSealed
  <2>. QED BY <2>2, <2>3
<1>7. CASE loose = << >> /\ donor = << >>
  BY <1>4, <1>5, <1>7 DEF data, IsFile, CpuKeyed
<1>8. CASE loose = << >> /\ donor # << >>
  <2>1. PICK f : donor = <<f>> /\ IsFile(n, f)
    BY <1>8 DEF Held
  <2>. QED BY <1>3, <1>8, <2>1, ExtractedIsFile DEF data, StaysSealed
<1>. QED BY <1>6, <1>7, <1>8

\* What a build must make of a file f it is handed.
SealsWell(n, x, f, cpu, b) ==
  /\ IsFile(n, x)
  /\ Readable(n, f, cpu) => LaidFor(n, x, cpu, b, Contents(n, f))
  /\ n = "extended.bin" /\ ~Readable(n, f, cpu) => LaidFor(n, x, cpu, b, <<"clean">>)
  /\ n = "secdata.bin" /\ f.size # "right" => LaidFor(n, x, cpu, b, <<"clean">>)
  /\ ConsoleReads(n, x, cpu) => DatedBy(n, x, b)

LEMMA CrlFile ==
  ASSUME NEW f, IsFile("crl.bin", f), NEW own, Held("crl.bin", own), NEW cpu, NEW b, NEW d
  PROVE  LET x == SealedFlashFSFile("crl.bin", f, own, cpu, b, d)
         IN  /\ SealsWell("crl.bin", x, f, cpu, b)
             /\ \A o : own = <<o>> /\ ReadsCrl(o, cpu) /\ ReadsCrl(x, cpu)
                         => ConsoleSealing("crl.bin", x) = ConsoleSealing("crl.bin", o)
             /\ own = <<f>> /\ ReadsCrl(f, cpu) /\ DatedBy("crl.bin", f, b) => x = f
<1>. DEFINE x == SealedFlashFSFile("crl.bin", f, own, cpu, b, d)
            ofOwn == IF own = << >> THEN << >> ELSE CrlSealing(own[1], cpu)
            s == SealingOf(ofOwn, CrlSealing(f, cpu), DrawnCrlSealing(d))
            r == ResealedCrl(f, cpu, s, b)
            plain == Stated(f.body.plain, b)
<1>1. IsCrl(f)
  BY DEF IsFile
<1>2. x = IF OpenCrl(f, cpu) = << >> THEN f ELSE r
  BY DEF SealedFlashFSFile
<1>3. \A g : /\ ConsoleReads("crl.bin", g, cpu) <=> ReadsCrl(g, cpu)
             /\ Readable("crl.bin", g, cpu) <=> ReadableCrl(g, cpu)
             /\ Contents("crl.bin", g) = <<g.body.plain.content>>
             /\ ConsoleSealing("crl.bin", g) = <<g.iv, g.wrapped.key>>
             /\ DatedBy("crl.bin", g, b)
                  <=> g.body.plain.stamp = Stamp(b.time) /\ g.body.plain.lock = b.lock
             /\ IsCrl(g) => IsFile("crl.bin", g)
  <2>. TAKE g
  <2>1. ConsoleReads("crl.bin", g, cpu) <=> ReadsCrl(g, cpu)
    BY DEF ConsoleReads, CpuKeyed
  <2>2. Readable("crl.bin", g, cpu) <=> ReadableCrl(g, cpu)
    BY DEF Readable, CpuKeyed
  <2>3. Plains("crl.bin", g) = <<g.body.plain>>
    BY DEF Plains
  <2>4. Contents("crl.bin", g) = <<g.body.plain.content>>
    BY <2>3 DEF Contents
  <2>5. ConsoleSealing("crl.bin", g) = <<g.iv, g.wrapped.key>>
    BY DEF ConsoleSealing
  <2>6. DatedBy("crl.bin", g, b)
          <=> g.body.plain.stamp = Stamp(b.time) /\ g.body.plain.lock = b.lock
    BY <2>3 DEF DatedBy, Dated
  <2>7. IsCrl(g) => IsFile("crl.bin", g)
    BY DEF IsFile, CpuKeyed
  <2>. QED BY <2>1, <2>2, <2>4, <2>5, <2>6, <2>7
<1>4. ReadsCrl(f, cpu) \/ ReadableCrl(f, cpu) => OpenCrl(f, cpu) # << >>
  BY <1>1, CrlOfConsole, CrlReadable
<1>. HIDE DEF x, r, s
<1>5. CASE OpenCrl(f, cpu) = << >>
  <2>1. x = f /\ ~ReadsCrl(f, cpu) /\ ~ReadableCrl(f, cpu)
    BY <1>2, <1>4, <1>5
  <2>. QED BY <1>1, <1>3, <2>1 DEF SealsWell, x
<1>6. CASE OpenCrl(f, cpu) # << >>
  <2>1. x = r
    BY <1>2, <1>6
  <2>2. /\ IsCrl(r) /\ r.whole = f.whole /\ r.hash = f.hash /\ r.iv = s.iv
        /\ r.wrapped = [key |-> s.key, under |-> cpu]
        /\ r.body = Closed(plain, Layer(s.key, s.iv, "seal"))
        /\ r.body.plain.content = r.hash
        /\ r.body.plain.stamp = Stamp(b.time) /\ r.body.plain.lock = b.lock
    BY <1>1, <1>6, CrlResealed DEF r
  <2>3. f.whole /\ f.body.plain.content = f.hash
    BY <1>1, <1>6, CrlOpens
  <2>4. ReadsCrl(r, cpu)
    BY <2>2, <2>3 DEF ReadsCrl, Sealed, Closed
  <2>5. SealsWell("crl.bin", x, f, cpu, b)
    BY <1>3, <2>1, <2>2, <2>3, <2>4 DEF SealsWell, LaidFor
  <2>6. ASSUME NEW o, own = <<o>>, ReadsCrl(o, cpu)
        PROVE  s = [iv |-> o.iv, key |-> o.wrapped.key]
    <3>1. IsCrl(o)
      BY <2>6 DEF Held, IsFile
    <3>2. ofOwn = << [iv |-> o.iv, key |-> o.wrapped.key] >>
      BY <2>6, <3>1, CrlOfConsole
    <3>. QED BY <3>2 DEF SealingOf, s
  <2>7. ASSUME own = <<f>>, ReadsCrl(f, cpu), DatedBy("crl.bin", f, b) PROVE r = f
    <3>1. s.iv = f.iv /\ s.key = f.wrapped.key
      BY <2>6, <2>7
    <3>2. f.body.plain.stamp = Stamp(b.time) /\ f.body.plain.lock = b.lock
      BY <1>3, <2>7
    <3>3. plain = f.body.plain
      BY <1>1, <3>2 DEF Stated, IsCrl, IsText, HasFields
    <3>4. f.body = Closed(f.body.plain, Layer(f.wrapped.key, f.iv, "seal"))
      BY <1>1, <2>7, TextIsRecord DEF ReadsCrl, Sealed, IsCrl, Closed
    <3>5. f.wrapped = [key |-> f.wrapped.key, under |-> cpu]
      BY <1>1, <2>7 DEF IsCrl, HasFields, ReadsCrl
    <3>6. r.body = f.body /\ r.wrapped = f.wrapped /\ r.iv = f.iv /\ r.whole = f.whole /\ r.hash = f.hash
      BY <2>2, <3>1, <3>3, <3>4, <3>5
    <3>. QED BY <1>1, <2>2, <3>6 DEF IsCrl, HasFields
  <2>8. ASSUME NEW o, own = <<o>>, ReadsCrl(o, cpu)
        PROVE  ConsoleSealing("crl.bin", x) = ConsoleSealing("crl.bin", o)
    <3>1. r.iv = o.iv /\ r.wrapped.key = o.wrapped.key
      BY <2>2, <2>6, <2>8
    <3>. QED BY <1>3, <2>1, <3>1
  <2>. QED BY <2>1, <2>5, <2>7, <2>8 DEF x
<1>. QED BY <1>5, <1>6

LEMMA DaeFile ==
  ASSUME NEW f, IsFile("dae.bin", f), NEW own, Held("dae.bin", own), NEW cpu, NEW b, NEW d
  PROVE  LET x == SealedFlashFSFile("dae.bin", f, own, cpu, b, d)
         IN  /\ SealsWell("dae.bin", x, f, cpu, b)
             /\ \A o : own = <<o>> /\ ReadsDae(o, cpu) /\ ReadsDae(x, cpu)
                         => ConsoleSealing("dae.bin", x) = ConsoleSealing("dae.bin", o)
             /\ own = <<f>> /\ ReadsDae(f, cpu) /\ DatedBy("dae.bin", f, b) => x = f
<1>. DEFINE x == SealedFlashFSFile("dae.bin", f, own, cpu, b, d)
            ofOwn == IF own = << >> THEN << >> ELSE DaeSealing(own[1], cpu)
            s == SealingOf(ofOwn, DaeSealing(f, cpu), DrawnDaeSealing(d))
            r == ResealedDae(f, cpu, s, b)
            contents(g) == [i \in DOMAIN g.records |-> g.records[i].body.plain.content]
<1>1. IsDae(f)
  BY DEF IsFile
<1>2. x = IF OpenDae(f, cpu) = << >> THEN f ELSE r
  BY DEF SealedFlashFSFile
<1>3. \A g : /\ ConsoleReads("dae.bin", g, cpu) <=> ReadsDae(g, cpu)
             /\ Readable("dae.bin", g, cpu) <=> ReadableDae(g, cpu)
             /\ Contents("dae.bin", g) = contents(g)
             /\ ConsoleSealing("dae.bin", g) = <<g.records[1].field.id, g.records[1].body.plain.head>>
             /\ DatedBy("dae.bin", g, b)
                  <=> \A i \in DOMAIN g.records :
                        g.records[i].body.plain.stamp = Stamp(b.time) /\ g.records[i].body.plain.lock = b.lock
             /\ IsDae(g) => IsFile("dae.bin", g)
  <2>. TAKE g
  <2>1. ConsoleReads("dae.bin", g, cpu) <=> ReadsDae(g, cpu)
    BY DEF ConsoleReads, CpuKeyed
  <2>2. Readable("dae.bin", g, cpu) <=> ReadableDae(g, cpu)
    BY DEF Readable, CpuKeyed
  <2>3. Plains("dae.bin", g) = [i \in DOMAIN g.records |-> g.records[i].body.plain]
    BY DEF Plains
  <2>4. Contents("dae.bin", g) = contents(g)
    BY <2>3 DEF Contents
  <2>5. ConsoleSealing("dae.bin", g) = <<g.records[1].field.id, g.records[1].body.plain.head>>
    BY DEF ConsoleSealing
  <2>6. DatedBy("dae.bin", g, b)
          <=> \A i \in DOMAIN g.records :
                g.records[i].body.plain.stamp = Stamp(b.time) /\ g.records[i].body.plain.lock = b.lock
    BY <2>3 DEF DatedBy, Dated
  <2>7. IsDae(g) => IsFile("dae.bin", g)
    BY DEF IsFile, CpuKeyed
  <2>. QED BY <2>1, <2>2, <2>4, <2>5, <2>6, <2>7
<1>4. ReadsDae(f, cpu) \/ ReadableDae(f, cpu) => OpenDae(f, cpu) # << >>
  BY <1>1, DaeOfConsole, DaeReadable
<1>5. HasFields(s.field, {"id", "marked"})
  <2>1. ofOwn # << >> => HasFields(ofOwn[1].field, {"id", "marked"})
    BY DaeSealingShape DEF Held, IsFile
  <2>2. DaeSealing(f, cpu) # << >> => HasFields(DaeSealing(f, cpu)[1].field, {"id", "marked"})
    BY <1>1, DaeSealingShape
  <2>3. HasFields(DrawnDaeSealing(d).field, {"id", "marked"})
    BY DEF DrawnDaeSealing, HasFields
  <2>. HIDE DEF ofOwn
  <2>. QED BY <2>1, <2>2, <2>3 DEF SealingOf
<1>. HIDE DEF x, r, s, contents
<1>6. CASE OpenDae(f, cpu) = << >>
  <2>1. x = f /\ ~ReadsDae(f, cpu) /\ ~ReadableDae(f, cpu)
    BY <1>2, <1>4, <1>6
  <2>. QED BY <1>1, <1>3, <2>1 DEF SealsWell, x
<1>7. CASE OpenDae(f, cpu) # << >>
  <2>1. x = r
    BY <1>2, <1>7
  <2>2. /\ IsDae(r) /\ ReadsDae(r, cpu) /\ DOMAIN r.records = DOMAIN f.records
        /\ r.records[1].field.id = s.field.id /\ r.records[1].body.plain.head = s.head
        /\ \A i \in DOMAIN f.records :
             /\ r.records[i] = ResealedRecord(f.records[i], cpu, s, b)
             /\ r.records[i].body.plain.content = f.records[i].hash
             /\ r.records[i].body.plain.stamp = Stamp(b.time)
             /\ r.records[i].body.plain.lock = b.lock
    BY <1>1, <1>5, <1>7, DaeResealed DEF r
  <2>3. /\ f.whole /\ 1 \in DOMAIN f.records
        /\ \A i \in DOMAIN f.records :
             IsRecord(f.records[i]) /\ OpenRecord(f.records[i], cpu) # << >>
    BY <1>1, <1>7, DaeOpens DEF IsDae
  <2>4. \A i \in DOMAIN f.records : f.records[i].body.plain.content = f.records[i].hash
    BY <2>3, RecordOpens
  <2>5. contents(r) = contents(f)
    BY <2>2, <2>4 DEF contents
  <2>6. SealsWell("dae.bin", x, f, cpu, b)
    BY <1>3, <2>1, <2>2, <2>5 DEF SealsWell, LaidFor
  <2>7. ASSUME NEW o, own = <<o>>, ReadsDae(o, cpu)
        PROVE  s = [head |-> o.records[1].body.plain.head, field |-> o.records[1].field]
    <3>1. IsDae(o)
      BY <2>7 DEF Held, IsFile
    <3>2. ofOwn = << [head |-> o.records[1].body.plain.head, field |-> o.records[1].field] >>
      BY <2>7, <3>1, DaeOfConsole
    <3>. QED BY <3>2 DEF SealingOf, s
  <2>8. ASSUME own = <<f>>, ReadsDae(f, cpu), DatedBy("dae.bin", f, b) PROVE r = f
    <3>1. s.head = f.records[1].body.plain.head /\ s.field = f.records[1].field
      BY <2>7, <2>8
    <3>2. ASSUME NEW i \in DOMAIN f.records PROVE ResealedRecord(f.records[i], cpu, s, b) = f.records[i]
      <4>. DEFINE q == f.records[i]
      <4>1. IsRecord(q) /\ OpenRecord(q, cpu) # << >>
        BY <2>3
      <4>2. q.body.plain.stamp = Stamp(b.time) /\ q.body.plain.lock = b.lock
        BY <1>3, <2>8
      <4>3. /\ Sealed(q.body, cpu, NoVector, "seal") /\ q.field.marked
            /\ q.body.plain.mac = Mac(cpu, q.field, q.body.plain)
            /\ q.field = f.records[1].field /\ q.body.plain.head = f.records[1].body.plain.head
        BY <2>8 DEF ReadsDae
      <4>. HIDE DEF q
      <4>4. s.field = q.field /\ s.head = q.body.plain.head
        BY <3>1, <4>3
      <4>5. ResealedRecord(q, cpu, s, b) = q
        BY <4>1, <4>2, <4>3, <4>4, RecordUnchanged
      <4>. QED BY <4>5 DEF q
    <3>3. r = [f EXCEPT !.records = [i \in DOMAIN f.records |-> ResealedRecord(f.records[i], cpu, s, b)]]
      BY DEF ResealedDae, r
    <3>4. [i \in DOMAIN f.records |-> ResealedRecord(f.records[i], cpu, s, b)] = f.records
      <4>1. f.records = [i \in DOMAIN f.records |-> f.records[i]]
        BY <1>1 DEF IsDae
      <4>. QED BY <3>2, <4>1
    <3>5. [f EXCEPT !.records = f.records] = f
      BY <1>1 DEF IsDae, HasFields
    <3>. QED BY <3>3, <3>4, <3>5
  <2>9. ASSUME NEW o, own = <<o>>, ReadsDae(o, cpu)
        PROVE  ConsoleSealing("dae.bin", x) = ConsoleSealing("dae.bin", o)
    <3>1. r.records[1].field.id = o.records[1].field.id
          /\ r.records[1].body.plain.head = o.records[1].body.plain.head
      BY <2>2, <2>7, <2>9
    <3>. QED BY <1>3, <2>1, <3>1
  <2>. QED BY <2>1, <2>6, <2>8, <2>9 DEF x
<1>. QED BY <1>6, <1>7

LEMMA KeyedNames ==
  ASSUME NEW n \in CpuKeyed, NEW g, NEW cpu, NEW b
  PROVE  /\ ConsoleReads(n, g, cpu) <=> ReadsKeyed(g, cpu)
         /\ Readable(n, g, cpu) <=> ReadableKeyed(g, cpu)
         /\ Contents(n, g) = <<g.body.plain.content>>
         /\ DatedBy(n, g, b)
              <=> IF n = "secdata.bin" THEN g.body.plain.stamp = Stamp(b.time) /\ g.body.plain.lock = b.lock
                  ELSE g.body.plain.head = b.head
         /\ IsKeyed(g) <=> IsFile(n, g)
<1>1. ConsoleReads(n, g, cpu) <=> ReadsKeyed(g, cpu)
  BY DEF ConsoleReads, CpuKeyed
<1>2. Readable(n, g, cpu) <=> ReadableKeyed(g, cpu)
  BY DEF Readable, CpuKeyed
<1>3. Plains(n, g) = <<g.body.plain>>
  BY DEF Plains, CpuKeyed
<1>4. Contents(n, g) = <<g.body.plain.content>>
  BY <1>3 DEF Contents
<1>5. DatedBy(n, g, b)
        <=> IF n = "secdata.bin" THEN g.body.plain.stamp = Stamp(b.time) /\ g.body.plain.lock = b.lock
            ELSE g.body.plain.head = b.head
  BY <1>3 DEF DatedBy, Dated, CpuKeyed
<1>6. IsKeyed(g) <=> IsFile(n, g)
  BY DEF IsFile, CpuKeyed
<1>. QED BY <1>1, <1>2, <1>4, <1>5, <1>6

LEMMA ExtendedFile ==
  ASSUME NEW f, IsFile("extended.bin", f), NEW own, NEW cpu, NEW b, NEW d
  PROVE  LET x == SealedFlashFSFile("extended.bin", f, own, cpu, b, d)
         IN  /\ SealsWell("extended.bin", x, f, cpu, b)
             /\ f.size = "right" /\ Opened(f, cpu) /\ f.body.plain.head = b.head
                  => x = SealedPlain(f.body.plain, cpu)
<1>. DEFINE x == SealedFlashFSFile("extended.bin", f, own, cpu, b, d)
<1>1. "extended.bin" \in CpuKeyed /\ "extended.bin" # "secdata.bin"
  BY DEF CpuKeyed
<1>2. IsKeyed(f)
  BY <1>1, KeyedNames
<1>3. x = SealedExtended(f, cpu, b)
  BY DEF SealedFlashFSFile
<1>4. /\ IsKeyed(x) /\ ReadsKeyed(x, cpu) /\ x.body.plain.head = b.head
      /\ IF ReadableKeyed(f, cpu) THEN x.body.plain.content = f.body.plain.content
         ELSE x.body.plain.content = "clean"
  BY <1>2, <1>3, ExtendedSealed
<1>. HIDE DEF x
<1>5. SealsWell("extended.bin", x, f, cpu, b)
  BY <1>1, <1>4, KeyedNames DEF SealsWell, LaidFor
<1>6. ASSUME f.size = "right", Opened(f, cpu), f.body.plain.head = b.head
      PROVE  x = SealedPlain(f.body.plain, cpu)
  <2>1. [f.body.plain EXCEPT !.head = b.head] = f.body.plain
    BY <1>2, <1>6 DEF IsKeyed, IsText, HasFields
  <2>. QED BY <1>3, <1>6, <2>1 DEF SealedExtended
<1>. QED BY <1>5, <1>6 DEF x

LEMMA SecdataFile ==
  ASSUME NEW f, IsFile("secdata.bin", f), NEW own, NEW cpu, NEW b, NEW d,
         f.size = "right" /\ own # <<f>> => StaysSealed("secdata.bin", f, cpu)
  PROVE  LET x == SealedFlashFSFile("secdata.bin", f, own, cpu, b, d)
         IN  /\ SealsWell("secdata.bin", x, f, cpu, b)
             /\ \A o : own = <<o>> /\ Opened(o, cpu) /\ ReadsKeyed(x, cpu)
                         => x.body.plain.head = o.body.plain.head
             /\ /\ own = <<f>> /\ f.size = "right" /\ Opened(f, cpu)
                /\ f.body.plain.stamp = Stamp(b.time) /\ f.body.plain.lock = b.lock
                => x = SealedPlain(f.body.plain, cpu)
<1>. DEFINE x == SealedFlashFSFile("secdata.bin", f, own, cpu, b, d)
            heads == OwnHead(own, cpu)
            kept == Taken(f.body.plain, heads, f.body.plain.head, b)
            clean == Taken(CleanPlain, heads, d, b)
            dated(g) == g.body.plain.stamp = Stamp(b.time) /\ g.body.plain.lock = b.lock
<1>1. "secdata.bin" \in CpuKeyed
  BY DEF CpuKeyed
<1>2. IsKeyed(f) /\ HasFields(f.body.plain, KeyedFields)
  BY <1>1, KeyedNames DEF IsKeyed, IsText, KeyedFields
<1>3. x = SealedSecdata(f, own, cpu, b, d)
  BY DEF SealedFlashFSFile
<1>4. \/ f.size = "right" /\ ~Opened(f, cpu) /\ own # <<f>> /\ x = Crypted(f, cpu)
      \/ f.size = "right" /\ Opened(f, cpu) /\ x = SealedPlain(kept, cpu)
      \/ ~(f.size = "right" /\ Opened(f, cpu)) /\ x = SealedPlain(clean, cpu)
  BY <1>2, <1>3, SecdataSealed
<1>5. /\ HasFields(kept, KeyedFields) /\ kept.content = f.body.plain.content
      /\ kept.stamp = Stamp(b.time) /\ kept.lock = b.lock
      /\ (heads # << >> => kept.head = heads[1])
      /\ (dated(f) /\ heads = <<f.body.plain.head>> => kept = f.body.plain)
  BY <1>2, TakenIs
<1>6. /\ HasFields(clean, KeyedFields) /\ clean.content = "clean"
      /\ clean.stamp = Stamp(b.time) /\ clean.lock = b.lock
      /\ (heads # << >> => clean.head = heads[1])
  <2>1. HasFields(CleanPlain, KeyedFields) /\ CleanPlain.content = "clean"
    BY DEF CleanPlain, HasFields, KeyedFields
  <2>. QED BY <2>1, TakenIs
<1>7. ReadableKeyed(f, cpu) => f.size = "right" /\ Opened(f, cpu)
  BY DEF ReadableKeyed
<1>8. ASSUME NEW o, own = <<o>>, Opened(o, cpu)
      PROVE  heads = <<o.body.plain.head>> /\ heads # << >> /\ heads[1] = o.body.plain.head
  BY <1>8 DEF OwnHead
<1>9. \A g : /\ ConsoleReads("secdata.bin", g, cpu) <=> ReadsKeyed(g, cpu)
             /\ Readable("secdata.bin", g, cpu) <=> ReadableKeyed(g, cpu)
             /\ Contents("secdata.bin", g) = <<g.body.plain.content>>
             /\ DatedBy("secdata.bin", g, b) <=> dated(g)
             /\ IsKeyed(g) <=> IsFile("secdata.bin", g)
  BY <1>1, KeyedNames
<1>. HIDE DEF x, kept, clean, heads
<1>10. CASE f.size = "right" /\ ~Opened(f, cpu) /\ own # <<f>> /\ x = Crypted(f, cpu)
  <2>1. IsKeyed(x) /\ ~ReadsKeyed(x, cpu)
    BY <1>2, <1>10, CryptedKeeps DEF StaysSealed
  <2>2. SealsWell("secdata.bin", x, f, cpu, b)
    BY <1>7, <1>9, <1>10, <2>1 DEF SealsWell
  <2>. QED BY <1>10, <2>1, <2>2 DEF x
<1>11. CASE f.size = "right" /\ Opened(f, cpu) /\ x = SealedPlain(kept, cpu)
  <2>1. IsKeyed(x) /\ ReadsKeyed(x, cpu) /\ x.body.plain = kept
    BY <1>5, <1>11, SealedPlainIs
  <2>2. SealsWell("secdata.bin", x, f, cpu, b)
    BY <1>5, <1>9, <1>11, <2>1 DEF SealsWell, LaidFor
  <2>3. ASSUME NEW o, own = <<o>>, Opened(o, cpu) PROVE x.body.plain.head = o.body.plain.head
    <3>1. heads # << >> /\ heads[1] = o.body.plain.head
      BY <1>8, <2>3
    <3>. QED BY <1>5, <2>1, <3>1
  <2>4. ASSUME own = <<f>>, dated(f) PROVE x = SealedPlain(f.body.plain, cpu)
    BY <1>5, <1>8, <1>11, <2>4
  <2>. QED BY <2>2, <2>3, <2>4 DEF x
<1>12. CASE ~(f.size = "right" /\ Opened(f, cpu)) /\ x = SealedPlain(clean, cpu)
  <2>1. IsKeyed(x) /\ ReadsKeyed(x, cpu) /\ x.body.plain = clean
    BY <1>6, <1>12, SealedPlainIs
  <2>2. SealsWell("secdata.bin", x, f, cpu, b)
    BY <1>6, <1>7, <1>9, <1>12, <2>1 DEF SealsWell, LaidFor
  <2>3. ASSUME NEW o, own = <<o>>, Opened(o, cpu) PROVE x.body.plain.head = o.body.plain.head
    <3>1. heads # << >> /\ heads[1] = o.body.plain.head
      BY <1>8, <2>3
    <3>. QED BY <1>6, <2>1, <3>1
  <2>. QED BY <1>12, <2>2, <2>3 DEF x
<1>. QED BY <1>4, <1>10, <1>11, <1>12

LEMMA FcrtFile ==
  ASSUME NEW f, IsFile("fcrt.bin", f), NEW own, NEW cpu, NEW b, NEW d
  PROVE  LET x == SealedFlashFSFile("fcrt.bin", f, own, cpu, b, d)
         IN  /\ SealsWell("fcrt.bin", x, f, cpu, b)
             /\ ReadsFcrt(f, cpu) => x = f
<1>. DEFINE x == SealedFlashFSFile("fcrt.bin", f, own, cpu, b, d)
<1>1. IsFcrt(f)
  BY DEF IsFile
<1>2. x = SealedFcrt(f, own, cpu)
  BY DEF SealedFlashFSFile
<1>. HIDE DEF x
<1>3. /\ IsFcrt(x)
      /\ ReadableFcrt(f, cpu) => ReadsFcrt(x, cpu) /\ x.body.plain = f.body.plain
      /\ ReadsFcrt(f, cpu) => x = f
  BY <1>1, <1>2, FcrtSealed
<1>4. \A g : /\ ConsoleReads("fcrt.bin", g, cpu) <=> ReadsFcrt(g, cpu)
             /\ Readable("fcrt.bin", g, cpu) <=> ReadableFcrt(g, cpu)
             /\ Plains("fcrt.bin", g) = <<g.body.plain>>
             /\ Contents("fcrt.bin", g) = <<g.body.plain.content>>
             /\ DatedBy("fcrt.bin", g, b)
             /\ IsFcrt(g) => IsFile("fcrt.bin", g)
  <2>. TAKE g
  <2>1. ConsoleReads("fcrt.bin", g, cpu) <=> ReadsFcrt(g, cpu)
    BY DEF ConsoleReads, CpuKeyed
  <2>2. Readable("fcrt.bin", g, cpu) <=> ReadableFcrt(g, cpu)
    BY DEF Readable, CpuKeyed
  <2>3. Plains("fcrt.bin", g) = <<g.body.plain>>
    BY DEF Plains
  <2>4. Contents("fcrt.bin", g) = <<g.body.plain.content>>
    BY <2>3 DEF Contents
  <2>5. DatedBy("fcrt.bin", g, b)
    BY DEF DatedBy, Dated
  <2>6. IsFcrt(g) => IsFile("fcrt.bin", g)
    BY DEF IsFile, CpuKeyed
  <2>. QED BY <2>1, <2>2, <2>3, <2>4, <2>5, <2>6
<1>5. SealsWell("fcrt.bin", x, f, cpu, b)
  BY <1>3, <1>4 DEF SealsWell, LaidFor
<1>. QED BY <1>3, <1>5 DEF x

-----------------------------------------------------------------------------
(***************************************************************************)
(* Any number of builds.                                                   *)
(*                                                                         *)
(* SealedForConsole and SealingKept need of the image only that it is a    *)
(* file of its kind.  That a rebuild changes nothing needs more of it:     *)
(* what the console of the last build reads was dated by that build, so    *)
(* sealing it again states what it states already.                         *)
(***************************************************************************)

ImageOK == name \in Name /\ (image # << >> => image = <<image[1]>> /\ IsFile(name, image[1]))

ImageDated ==
  last # << >> /\ image # << >> /\ ConsoleReads(name, image[1], last[1].cpu)
    => DatedBy(name, image[1], last[1].build)

LastOK == last # << >> => last = <<last[1]>>

SecuredInv == ImageOK /\ LastOK /\ ImageDated /\ SealedForConsole

LEMMA ImageHeld == ImageOK => Held(name, image)
BY DEF ImageOK, Held

\* The file a build is handed and the one it lays.
LEMMA FileSealed ==
  ASSUME NEW n \in Name, NEW donor, Held(n, donor), NEW loose,
         loose = << >> \/ \E l \in Copy[n] : loose = <<l>>, NEW listed, NEW cpu, NEW b, NEW d,
         Resolved(n, donor, loose, listed, cpu) # << >>
  PROVE  LET data == Resolved(n, donor, loose, listed, cpu)
         IN  SealsWell(n, SealedFlashFSFile(n, data[1], Own(n, donor, cpu), cpu, b, d), data[1], cpu, b)
<1>. DEFINE data == Resolved(n, donor, loose, listed, cpu)
            f == data[1]
            own == Own(n, donor, cpu)
<1>1. /\ data = <<f>> /\ IsFile(n, f) /\ Held(n, own)
      /\ f.size = "right" /\ own # <<f>> => StaysSealed(n, f, cpu)
  BY ResolvedIsFile, OwnHeld
<1>2. n \in {"crl.bin", "dae.bin", "extended.bin", "secdata.bin", "fcrt.bin"}
  BY NameAssumption
<1>. HIDE DEF data, f, own
<1>3. SealsWell(n, SealedFlashFSFile(n, f, own, cpu, b, d), f, cpu, b)
  <2>1. CASE n = "crl.bin"
    BY <1>1, <2>1, CrlFile
  <2>2. CASE n = "dae.bin"
    BY <1>1, <2>2, DaeFile
  <2>3. CASE n = "extended.bin"
    BY <1>1, <2>3, ExtendedFile
  <2>4. CASE n = "secdata.bin"
    BY <1>1, <2>4, SecdataFile
  <2>5. CASE n = "fcrt.bin"
    BY <1>1, <2>5, FcrtFile
  <2>. QED BY <1>2, <2>1, <2>2, <2>3, <2>4, <2>5
<1>. QED BY <1>3 DEF data, f, own

\* What a step of the specification is.
LEMMA NextIsBuild ==
  ASSUME ImageOK, Next
  PROVE  \E cpu, b, donor, loose, listed, d :
           /\ Build(cpu, b, donor, loose, listed, d)
           /\ donor = << >> \/ donor = image
           /\ loose = << >> \/ \E l \in Copy[name] : loose = <<l>>
<1>1. PICK cpu \in CpuKey, d \in Draw, listed \in BOOLEAN, donor \in Donors :
        \E b \in Settings(cpu), loose \in LooseCopies(listed) : Build(cpu, b, donor, loose, listed, d)
  BY DEF Next
<1>2. PICK b \in Settings(cpu), loose \in LooseCopies(listed) : Build(cpu, b, donor, loose, listed, d)
  BY <1>1
<1>3. donor = << >> \/ donor = image
  BY DEF Donors
<1>4. loose = << >> \/ \E l \in Copy[name] : loose = <<l>>
  BY DEF LooseCopies
<1>. QED BY <1>2, <1>3, <1>4

LEMMA BuildInv ==
  ASSUME ImageOK, NEW cpu, NEW b, NEW donor, NEW loose, NEW listed, NEW d,
         Build(cpu, b, donor, loose, listed, d), donor = << >> \/ donor = image,
         loose = << >> \/ \E l \in Copy[name] : loose = <<l>>
  PROVE  SecuredInv'
<1>. DEFINE data == Resolved(name, donor, loose, listed, cpu)
            x == SealedFlashFSFile(name, data[1], Own(name, donor, cpu), cpu, b, d)
            f == data[1]
<1>1. /\ name' = name /\ name \in Name /\ Held(name, donor)
      /\ image' = (IF data = << >> THEN << >> ELSE <<x>>)
      /\ last' = << [cpu |-> cpu, build |-> b, donor |-> donor # << >>, loose |-> loose # << >>, data |-> data] >>
  BY ImageHeld DEF Build, ImageOK, Held
<1>2. data # << >> => SealsWell(name, x, f, cpu, b)
  BY <1>1, FileSealed
<1>. HIDE DEF data, x
<1>3. /\ last' = <<last'[1]>> /\ last'[1].cpu = cpu /\ last'[1].build = b /\ last'[1].data = data
  BY <1>1
<1>4. image' # << >> => data # << >> /\ image' = <<x>> /\ image'[1] = x
  BY <1>1
<1>5. data # << >> => image'[1] = x
  BY <1>1
<1>6. ImageOK'
  BY <1>1, <1>2, <1>4 DEF ImageOK, SealsWell
<1>7. LastOK'
  BY <1>3 DEF LastOK
<1>8. ImageDated'
  BY <1>1, <1>2, <1>3, <1>4 DEF ImageDated, SealsWell
<1>9. SealedForConsole'
  <2>1. DOMAIN last' = {1}
    BY <1>3
  <2>. QED BY <1>1, <1>2, <1>3, <1>5, <2>1 DEF SealedForConsole, SealsWell
<1>. QED BY <1>6, <1>7, <1>8, <1>9 DEF SecuredInv

LEMMA InitSecured == Init => SecuredInv
<1>. SUFFICES ASSUME Init PROVE SecuredInv
  OBVIOUS
<1>1. ImageOK
  BY CopyAssumption DEF Init, ImageOK
<1>2. last = << >>
  BY DEF Init
<1>. QED BY <1>1, <1>2 DEF SecuredInv, LastOK, ImageDated, SealedForConsole

LEMMA NextSecured == SecuredInv /\ [Next]_vars => SecuredInv'
<1>. SUFFICES ASSUME SecuredInv, [Next]_vars PROVE SecuredInv'
  OBVIOUS
<1>1. CASE Next
  BY <1>1, NextIsBuild, BuildInv DEF SecuredInv
<1>2. CASE UNCHANGED vars
  BY <1>2 DEF vars, SecuredInv, ImageOK, LastOK, ImageDated, SealedForConsole
<1>. QED BY <1>1, <1>2

LEMMA SpecSecured == Spec => []SecuredInv
BY InitSecured, NextSecured, PTL DEF Spec

\* Whatever the copy a build is handed was sealed under, and however many builds
\* it went through, a copy that can be read is laid sealed for the console of
\* that build, with the same content and its date (sealed_flashfs_file).
THEOREM AlwaysSealedForConsole == Spec => []SealedForConsole
<1>1. SecuredInv => SealedForConsole
  BY DEF SecuredInv
<1>. QED BY <1>1, SpecSecured, PTL

-----------------------------------------------------------------------------
(***************************************************************************)
(* A build over the donor image its console reads.                         *)
(***************************************************************************)

\* What a build takes from a donor image the console reads.
LEMMA OwnOfConsole ==
  ASSUME NEW n, NEW g, IsFile(n, g), NEW cpu, ConsoleReads(n, g, cpu)
  PROVE  /\ n \in {"crl.bin", "dae.bin"} => Own(n, <<g>>, cpu) = <<g>> /\ Extracted(n, g, cpu) = g
         /\ n = "fcrt.bin" => Extracted(n, g, cpu) = g
         /\ n \in CpuKeyed =>
              LET o == Extracted(n, g, cpu)
              IN  /\ o.size = "right" /\ Opened(o, cpu) /\ o.body.plain = g.body.plain
                  /\ g = SealedPlain(g.body.plain, cpu)
                  /\ n = "secdata.bin" => Own(n, <<g>>, cpu) = <<o>>
<1>1. n \in {"crl.bin", "dae.bin"} => Own(n, <<g>>, cpu) = <<g>> /\ Extracted(n, g, cpu) = g
  BY DEF Own, Extracted, CpuKeyed, ConsoleSecured
<1>2. n = "fcrt.bin" => Extracted(n, g, cpu) = g
  BY DEF Extracted, CpuKeyed
<1>3. ASSUME n \in CpuKeyed
      PROVE  LET o == Extracted(n, g, cpu)
             IN  /\ o.size = "right" /\ Opened(o, cpu) /\ o.body.plain = g.body.plain
                 /\ g = SealedPlain(g.body.plain, cpu)
                 /\ n = "secdata.bin" => Own(n, <<g>>, cpu) = <<o>>
  <2>1. IsKeyed(g) /\ ReadsKeyed(g, cpu)
    BY <1>3, KeyedNames
  <2>2. Extracted(n, g, cpu) = Crypted(g, cpu)
    BY <1>3 DEF Extracted
  <2>3. n = "secdata.bin" => Own(n, <<g>>, cpu) = <<Extracted(n, g, cpu)>>
    BY DEF Own, ConsoleSecured
  <2>. QED BY <2>1, <2>2, <2>3, KeyedOfConsole
<1>. QED BY <1>1, <1>2, <1>3

LEMMA SealingOfBuild ==
  ASSUME ImageOK, NEW cpu, NEW b, NEW donor, NEW loose, NEW listed, NEW d,
         Build(cpu, b, donor, loose, listed, d), donor = << >> \/ donor = image,
         loose = << >> \/ \E l \in Copy[name] : loose = <<l>>,
         name \in ConsoleSecured, last'[1].donor, Read(last'[1].cpu), image' # << >>,
         ConsoleReads(name, image'[1], last'[1].cpu)
  PROVE  ConsoleSealing(name, image'[1]) = ConsoleSealing(name, image[1])
<1>. DEFINE data == Resolved(name, donor, loose, listed, cpu)
            own == Own(name, donor, cpu)
            x == SealedFlashFSFile(name, data[1], own, cpu, b, d)
            f == data[1]
            g == image[1]
<1>1. /\ name \in Name /\ Held(name, donor)
      /\ image' = (IF data = << >> THEN << >> ELSE <<x>>)
      /\ last' = << [cpu |-> cpu, build |-> b, donor |-> donor # << >>, loose |-> loose # << >>, data |-> data] >>
  BY ImageHeld DEF Build, ImageOK, Held
<1>2. last'[1].cpu = cpu /\ (last'[1].donor <=> donor # << >>)
  BY <1>1
<1>3. image = <<g>> /\ donor = <<g>> /\ IsFile(name, g) /\ ConsoleReads(name, g, cpu)
  BY <1>2 DEF Read, ImageOK
<1>4. data # << >> /\ image'[1] = x /\ ConsoleReads(name, x, cpu)
  BY <1>1, <1>2
<1>5. IsFile(name, f) /\ Held(name, own) /\ data = <<f>>
      /\ (f.size = "right" /\ own # <<f>> => StaysSealed(name, f, cpu))
  BY <1>1, <1>4, ResolvedIsFile, OwnHeld
<1>. HIDE DEF data, own, x, f, g
<1>6. CASE name = "crl.bin"
  <2>1. own = <<g>> /\ ReadsCrl(g, cpu) /\ ReadsCrl(x, cpu)
    BY <1>3, <1>4, <1>6, OwnOfConsole DEF own, ConsoleReads, CpuKeyed
  <2>. QED BY <1>4, <1>5, <1>6, <2>1, CrlFile DEF x, g, f
<1>7. CASE name = "dae.bin"
  <2>1. own = <<g>> /\ ReadsDae(g, cpu) /\ ReadsDae(x, cpu)
    BY <1>3, <1>4, <1>7, OwnOfConsole DEF own, ConsoleReads, CpuKeyed
  <2>. QED BY <1>4, <1>5, <1>7, <2>1, DaeFile DEF x, g, f
<1>8. CASE name = "secdata.bin"
  <2>. DEFINE o == Extracted(name, g, cpu)
  <2>1. own = <<o>> /\ Opened(o, cpu) /\ o.body.plain = g.body.plain
    BY <1>3, <1>8, OwnOfConsole DEF own, CpuKeyed
  <2>2. ReadsKeyed(x, cpu)
    BY <1>4, <1>8 DEF ConsoleReads, CpuKeyed
  <2>. HIDE DEF o
  <2>3. x.body.plain.head = o.body.plain.head
    BY <1>5, <1>8, <2>1, <2>2, SecdataFile DEF x, f
  <2>4. \A y : ConsoleSealing("secdata.bin", y) = <<y.body.plain.head>>
    BY DEF ConsoleSealing
  <2>. QED BY <1>4, <1>8, <2>1, <2>3, <2>4 DEF g
<1>. QED BY <1>6, <1>7, <1>8 DEF ConsoleSecured

LEMMA RebuildOfBuild ==
  ASSUME SecuredInv, NEW cpu, NEW b, NEW donor, NEW loose, NEW listed, NEW d,
         Build(cpu, b, donor, loose, listed, d), donor = << >> \/ donor = image,
         Rebuild, Read(last[1].cpu)
  PROVE  image' = image
<1>. DEFINE data == Resolved(name, donor, loose, listed, cpu)
            own == Own(name, donor, cpu)
            x == SealedFlashFSFile(name, data[1], own, cpu, b, d)
            g == image[1]
            f == Extracted(name, g, cpu)
<1>1. /\ name \in Name /\ image' = (IF data = << >> THEN << >> ELSE <<x>>)
      /\ last' = << [cpu |-> cpu, build |-> b, donor |-> donor # << >>, loose |-> loose # << >>, data |-> data] >>
  BY DEF Build, SecuredInv, ImageOK
<1>2. /\ last'[1].cpu = cpu /\ last'[1].build = b /\ (last'[1].donor <=> donor # << >>)
      /\ (last'[1].loose <=> loose # << >>)
  BY <1>1
<1>3. last # << >> /\ loose = << >> /\ donor = image /\ last[1].cpu = cpu /\ last[1].build = b
  BY <1>2 DEF Rebuild
<1>4. image = <<g>> /\ IsFile(name, g) /\ ConsoleReads(name, g, cpu) /\ DatedBy(name, g, b)
  BY <1>3 DEF Read, SecuredInv, ImageOK, ImageDated
<1>5. data = <<f>> /\ data[1] = f /\ data # << >>
  BY <1>3, <1>4 DEF Resolved
<1>6. IsFile(name, f) /\ Held(name, own)
  BY <1>3, <1>4, ExtractedIsFile, OwnHeld DEF Held
<1>7. own = Own(name, <<g>>, cpu) /\ x = SealedFlashFSFile(name, f, own, cpu, b, d) /\ image' = <<x>>
  BY <1>1, <1>3, <1>4, <1>5
<1>8. name \in {"crl.bin", "dae.bin", "extended.bin", "secdata.bin", "fcrt.bin"}
  BY <1>1, NameAssumption
<1>. HIDE DEF data, own, x, f, g
<1>9. CASE name = "crl.bin"
  <2>1. own = <<g>> /\ f = g /\ ReadsCrl(g, cpu)
    BY <1>4, <1>7, <1>9, OwnOfConsole DEF ConsoleReads, CpuKeyed, f
  <2>2. x = g
    BY <1>4, <1>6, <1>7, <1>9, <2>1, CrlFile
  <2>. QED BY <1>4, <1>7, <2>2
<1>10. CASE name = "dae.bin"
  <2>1. own = <<g>> /\ f = g /\ ReadsDae(g, cpu)
    BY <1>4, <1>7, <1>10, OwnOfConsole DEF ConsoleReads, CpuKeyed, f
  <2>2. x = g
    BY <1>4, <1>6, <1>7, <1>10, <2>1, DaeFile
  <2>. QED BY <1>4, <1>7, <2>2
<1>11. CASE name = "extended.bin"
  <2>1. name \in CpuKeyed /\ name # "secdata.bin"
    BY <1>11 DEF CpuKeyed
  <2>2. /\ f.size = "right" /\ Opened(f, cpu) /\ f.body.plain = g.body.plain
        /\ g = SealedPlain(g.body.plain, cpu)
    BY <1>4, <2>1, OwnOfConsole DEF f
  <2>3. f.body.plain.head = b.head
    <3>1. DatedBy(name, g, b) => g.body.plain.head = b.head
      BY <2>1, KeyedNames
    <3>. QED BY <1>4, <2>2, <3>1
  <2>4. x = SealedPlain(f.body.plain, cpu)
    BY <1>6, <1>7, <1>11, <2>2, <2>3, ExtendedFile
  <2>. QED BY <1>4, <1>7, <2>2, <2>4
<1>12. CASE name = "secdata.bin"
  <2>1. name \in CpuKeyed
    BY <1>12 DEF CpuKeyed
  <2>2. /\ f.size = "right" /\ Opened(f, cpu) /\ f.body.plain = g.body.plain
        /\ g = SealedPlain(g.body.plain, cpu) /\ own = <<f>>
    BY <1>4, <1>7, <1>12, <2>1, OwnOfConsole DEF f
  <2>3. f.body.plain.stamp = Stamp(b.time) /\ f.body.plain.lock = b.lock
    <3>1. DatedBy(name, g, b) => g.body.plain.stamp = Stamp(b.time) /\ g.body.plain.lock = b.lock
      BY <1>12, <2>1, KeyedNames
    <3>. QED BY <1>4, <2>2, <3>1
  <2>4. x = SealedPlain(f.body.plain, cpu)
    BY <1>6, <1>7, <1>12, <2>2, <2>3, SecdataFile
  <2>. QED BY <1>4, <1>7, <2>2, <2>4
<1>13. CASE name = "fcrt.bin"
  <2>1. f = g /\ ReadsFcrt(g, cpu)
    BY <1>4, <1>13, OwnOfConsole DEF ConsoleReads, CpuKeyed, f
  <2>2. x = g
    BY <1>4, <1>7, <1>13, <2>1, FcrtFile
  <2>. QED BY <1>4, <1>7, <2>2
<1>. QED BY <1>8, <1>9, <1>10, <1>11, <1>12, <1>13

\* A console's crl.bin, dae.bin and secdata.bin keep the vector, file key, heads
\* and field they are sealed with, whatever content a build puts into them and
\* wherever that comes from (sealed_flashfs_file).
THEOREM SealingIsKept == Spec => SealingKept
<1>1. SecuredInv /\ [Next]_vars =>
        [LET build == last'[1]
         IN  /\ name \in ConsoleSecured /\ build.donor
             /\ Read(build.cpu) /\ image' # << >> /\ ConsoleReads(name, image'[1], build.cpu)
             => ConsoleSealing(name, image'[1]) = ConsoleSealing(name, image[1])]_vars
  <2>. SUFFICES ASSUME SecuredInv, Next,
                       name \in ConsoleSecured, last'[1].donor,
                       Read(last'[1].cpu), image' # << >>, ConsoleReads(name, image'[1], last'[1].cpu)
                PROVE  ConsoleSealing(name, image'[1]) = ConsoleSealing(name, image[1])
    OBVIOUS
  <2>. QED BY NextIsBuild, SealingOfBuild DEF SecuredInv
<1>. QED BY <1>1, SpecSecured, PTL DEF Spec, SealingKept

\* Building a console's own dump again under the settings it was built with
\* changes no byte of a file the console reads (extract_all, then
\* sealed_flashfs_file).
THEOREM RebuildChangesNothing == Spec => RebuildKeeps
<1>1. SecuredInv /\ [Next]_vars => [Rebuild /\ Read(last[1].cpu) => image' = image]_vars
  BY NextIsBuild, RebuildOfBuild DEF SecuredInv
<1>. QED BY <1>1, SpecSecured, PTL DEF Spec, RebuildKeeps

=============================================================================
