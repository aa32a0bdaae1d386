--------------------------- MODULE BootSealProofs ---------------------------
(***************************************************************************)
(* Every stage of a written image lies under the key its parent derives,   *)
(* opens again, and carries digests of what lies beside it, for every set  *)
(* of inputs and any sequence of builds, edits and seals.                  *)
(***************************************************************************)
EXTENDS BootSeal, TLAPS, SequenceTheorems

-----------------------------------------------------------------------------
(* The shape of an image and of its stages.                                *)

IsNonce(s) == s # <<>> /\ \E S : s \in Seq(S)

ImageFields == {"st", "sb", "mfg", "v2", "newCb", "smc", "smcSealed", "kv", "spills", "tails", "room"}

ImageShaped(im) ==
  /\ DOMAIN im = ImageFields
  /\ {"A", "CD"} \subseteq DOMAIN im.st /\ DOMAIN im.st \subseteq Kinds
  /\ \A f \in CFs : CgOf(f) \in DOMAIN im.st => f \in DOMAIN im.st
  /\ Has(im, "X") => Has(im, "B")
  /\ im.sb => Has(im, "SC")
  /\ im.sb \in BOOLEAN /\ im.mfg \in BOOLEAN /\ im.v2 \in BOOLEAN /\ im.newCb \in BOOLEAN
  /\ im.smc \in Nat \ {0}
  /\ \A k \in DOMAIN im.st : DOMAIN im.st[k] = StageFields /\ IsNonce(im.st[k].nonce)

\* What the build type has to do with the shape.
Suited(im, type) ==
  /\ Has(im, "X") <=> type = "Glitch3"
  /\ type = "Devkit" => im.sb

-----------------------------------------------------------------------------
(* The keys of an image, and its stages plain or sealed.                   *)

Plain(s) == s.under = {} /\ s.dec = TRUE
Under(s, key) == s.under = {key} /\ s.dec = FALSE

KeyA(im) == OneBl \o im.st["A"].nonce
KeyX(im) == CbXKey(im, KeyA(im), im.st["X"].nonce)
KeyB(im, cpu) == CbBKey(im, KeyA(im), im.st["B"].nonce, cpu)
KeySc(im) == ZeroSecret \o im.st["SC"].nonce

\* A CB_B behind a CB_X hands on the key it was opened with, else its nonce.
HandOff(im, cpu) ==
  IF ~Has(im, "X") THEN KeyB(im, cpu)
  ELSE IF im.st["B"].key # NoKey THEN im.st["B"].key ELSE im.st["B"].nonce

KeyCd(im, cpu) ==
  IF im.sb THEN CdKey(KeySc(im), im.st["CD"].nonce, FALSE, cpu)
  ELSE IF Has(im, "B") THEN CdKey(HandOff(im, cpu), im.st["CD"].nonce, FALSE, cpu)
  ELSE CdKey(KeyA(im), im.st["CD"].nonce, RequiresCpuKey(im), cpu)

KeyCe(im, cpu) == KeyCd(im, cpu) \o im.st["CE"].nonce
SlotKey(im, k) ==
  IF k \in CFs THEN OneBl \o im.st[k].nonce
  ELSE (IF k = "G0" THEN <<"F0", "7bl">> ELSE <<"F1", "7bl">>) \o im.st[k].nonce

\* The SC of a CB chain is never touched by encrypt_all.
ScKept(im) ==
  Has(im, "SC") /\ ~im.sb =>
    LET s == im.st["SC"]
    IN  s.dec = FALSE /\ s.under = IF s.nonce = ZeroNonce THEN {} ELSE {KeySc(im)}

\* What encrypt_all is given: the CBs plain, the stages below them plain or
\* sealed under the key they will have.
Ready(im, cpu) ==
  /\ \A k \in {"A", "X", "B", "EA", "ED"} \cap DOMAIN im.st : Plain(im.st[k])
  /\ Has(im, "X") => im.st["B"].key = NoKey \/ IsNonce(im.st["B"].key)
  /\ im.sb => \A k \in {"SC", "CD", "CE"} \cap DOMAIN im.st : Plain(im.st[k])
  /\ ScKept(im)
  /\ \/ Plain(im.st["CD"])
     \/ Under(im.st["CD"], KeyCd(im, cpu)) /\ im.st["CD"].key = NoKey
  /\ Has(im, "CE") => \/ Plain(im.st["CE"])
                      \/ Under(im.st["CE"], KeyCe(im, cpu)) /\ im.st["CD"].nonce # ZeroNonce
  /\ \A k \in {"CD", "CE"} \cap DOMAIN im.st : Plain(im.st[k]) \/ im.st[k].nonce # ZeroNonce
  /\ \A k \in (CFs \cup CGs) \cap DOMAIN im.st : Plain(im.st[k])

\* What it makes of the chain.
ChainClosed(im, cpu) ==
  /\ Under(im.st["A"], KeyA(im))
  /\ Has(im, "X") => /\ Under(im.st["X"], KeyX(im))
                     /\ Plain(im.st["B"]) /\ im.st["B"].key \in {NoKey, im.st["B"].nonce}
  /\ Has(im, "B") /\ ~Has(im, "X") => Under(im.st["B"], KeyB(im, cpu))
  /\ im.sb => Under(im.st["SC"], KeySc(im)) /\ im.st["SC"].nonce # ZeroNonce
  /\ ScKept(im)
  /\ Under(im.st["CD"], KeyCd(im, cpu))
  /\ Has(im, "CE") => Under(im.st["CE"], KeyCe(im, cpu))

\* An encrypt_all that fails leaves update stages of either form.
SlotsEither(im) ==
  \A k \in (CFs \cup CGs) \cap DOMAIN im.st : Plain(im.st[k]) \/ Under(im.st[k], SlotKey(im, k))
SlotsClosed(im) ==
  \A k \in (CFs \cup CGs) \cap DOMAIN im.st : Under(im.st[k], SlotKey(im, k))
ExtraClosed(im) ==
  /\ Has(im, "EA") => Under(im.st["EA"], OneBl \o im.st["EA"].nonce)
  /\ Has(im, "ED") => Has(im, "EA") /\ Under(im.st["ED"], OneBl \o im.st["EA"].nonce \o im.st["ED"].nonce)

\* What decrypt_all makes of it.
AllOpen(im) ==
  /\ \A k \in DOMAIN im.st \ {"SC"} : Plain(im.st[k])
  /\ Has(im, "X") => im.st["B"].key = im.st["B"].nonce
  /\ Has(im, "SC") => \/ Plain(im.st["SC"]) /\ im.st["SC"].nonce # ZeroNonce
                      \/ im.st["SC"].nonce = ZeroNonce /\ im.st["SC"].under = {}
                         /\ im.st["SC"].dec = FALSE /\ ~im.sb

-----------------------------------------------------------------------------
(* The inductive invariant.                                                *)

Supplied(in) ==
  /\ Shaped(in) /\ SealedAlongChain(in) /\ Admitted(in)
  /\ \A k \in DOMAIN in.st : IsNonce(in.st[k].nonce)
  /\ \A p \in DOMAIN NoDonor :
       \/ IsNonce(in.donor[p]) /\ in.donor[p] # ZeroNonce
       \/ in.donor[p] = NoKey

Flags(im, in) == im.sb = in.sb /\ im.mfg = in.mfg /\ im.v2 = in.v2 /\ im.newCb = in.newCb

Unspoilt(im) == \A k \in DOMAIN im.st : im.st[k].body # "spoilt"

\* What lies on a stage of a written image.
Links(im, type, cpu, k) ==
  IF k = "B" /\ Has(im, "X") THEN {}
  ELSE IF k = "SC" /\ im.st[k].nonce = ZeroNonce THEN {}
  ELSE {BootKey(im, type, cpu, k)}

\* The digests and MACs of an image as it was written over an SMC.
Digests(im, smc, type, cpu) ==
  LET digest(k) == CbDigest([im EXCEPT !.smc = smc, !.smcSealed = TRUE], im.st[k],
                            BootKey(im, type, cpu, k), cpu)
  IN  /\ Has(im, "B") /\ ~Has(im, "X") =>
           im.st["B"].mac = IF im.mfg \/ cpu = "zero" THEN <<>> ELSE digest("B")
      /\ (type = "Retail" /\ CdNeedsCpuKey(im)) \/ (im.sb /\ type # "Devgl") =>
           im.st["A"].mac = digest("A")
      /\ Has(im, "EA") => im.st["EA"].mac = digest("EA")

TableNamed(im, f) ==
  Has(im, CgOf(f)) => im.st[f].table = IF CgOf(f) \in im.spills THEN "tail" ELSE "none"

Macs(im, type, cpu) ==
  \A f \in CFs \cap DOMAIN im.st :
    /\ TableNamed(im, f)
    /\ BindsConsole(type, f) => im.st[f].mac = CfMac(f, im.st[f], cpu)

\* A stage opened or read keeps what was written of it.
SameText(s, t) ==
  s.nonce = t.nonce /\ s.pair = t.pair /\ s.mac = t.mac /\ s.table = t.table

Records(im, w, type) ==
  /\ \A k \in DOMAIN im.st :
       /\ k \in DOMAIN w.st /\ SameText(im.st[k], w.st[k])
       /\ w.st[k].under = Links(im, type, w.cpu, k)
  /\ Digests(im, w.smc, type, w.cpu)
  /\ Macs(im, type, w.cpu)

Tails(im) ==
  \A f \in CFs \cap DOMAIN im.st : Has(im, CgOf(f)) => (f \in im.tails <=> CgOf(f) \in im.spills)

\* The stages whose zero nonce is replaced when they are sealed.
Drawn(im) ==
  \A k \in {"SC", "CD", "CE", "G0", "G1"} \cap DOMAIN im.st :
    (k = "SC" => im.sb) => im.st[k].nonce # ZeroNonce

Standing(im, in) ==
  /\ ImageShaped(im) /\ Suited(im, in.type) /\ Shaped(in) /\ Flags(im, in) /\ Unspoilt(im)

\* An image as it was sealed: chained, its slots and second chain sealed, and recorded.
AsWritten(im, w) ==
  /\ ChainClosed(im, w.cpu) /\ SlotsClosed(im) /\ SlotsEither(im)
  /\ ExtraClosed(im) /\ Tails(im)
  /\ w.smc = im.smc /\ w.smc # 0

\* Phase by phase: what a build is supplied, what a seal leaves, a parse finds
\* and an opening leaves; and the record stands until a seal fails half way.
Sound(ph, in, im, w) ==
  /\ ph \in {"supplied", "written", "read", "open", "broken", "refused"}
  /\ ph = "supplied" => Supplied(in)
  /\ ph \in {"written", "read", "open", "broken"} => Standing(im, in)
  /\ ph \in {"read", "open", "broken"} => ~Has(im, "EA") /\ ~Has(im, "ED")
  /\ ph \in {"read", "broken"} => ChainClosed(im, w.cpu) /\ SlotsEither(im)
  /\ ph = "written" => AsWritten(im, w)
  /\ ph = "open" => AllOpen(im)
  /\ ph \in {"written", "read", "open"} /\ w.smc # 0 => Drawn(im) /\ Records(im, w, in.type)
  /\ ph = "broken" => w.smc = 0

SealInv == Sound(phase, input, image, written)

-----------------------------------------------------------------------------
(* Sequences that are not empty.                                           *)

\* A key derived from a nonce is as good as one.
LEMMA NonceConcat ==
  ASSUME NEW s, NEW t, IsNonce(s), IsNonce(t)
  PROVE  IsNonce(s \o t)
<1>1. PICK S : s \in Seq(S) BY DEF IsNonce
<1>2. PICK T : t \in Seq(T) BY DEF IsNonce
<1>3. s \in Seq(S \cup T) /\ t \in Seq(S \cup T)
  BY <1>1, <1>2, SeqDef
<1>4. s \o t \in Seq(S \cup T) /\ Len(s \o t) = Len(s) + Len(t)
  BY <1>3, ConcatProperties
<1>5. Len(s) > 0
  BY <1>1, EmptySeq, LenProperties DEF IsNonce
<1>6. Len(t) \in Nat BY <1>2, LenProperties
<1>7. Len(s \o t) # 0 /\ Len(s) \in Nat BY <1>1, <1>4, <1>5, <1>6, LenProperties
<1>8. s \o t # <<>> BY <1>7
<1>. QED BY <1>4, <1>8 DEF IsNonce

\* A tuple and what is put before or behind it.
LEMMA TupleNonces ==
  /\ \A a : IsNonce(<<a>>)
  /\ \A a, b : IsNonce(<<a, b>>)
<1>1. ASSUME NEW a PROVE IsNonce(<<a>>)
  <2>1. <<a>> \in Seq({a}) OBVIOUS
  <2>. QED BY <2>1 DEF IsNonce
<1>2. ASSUME NEW a, NEW b PROVE IsNonce(<<a, b>>)
  <2>1. <<a, b>> \in Seq({a, b}) OBVIOUS
  <2>. QED BY <2>1 DEF IsNonce
<1>. QED BY <1>1, <1>2

\* A concatenation with nothing.
LEMMA NonceOrNothing ==
  ASSUME NEW s, IsNonce(s)
  PROVE  IsNonce(s \o <<>>)
<1>1. PICK S : s \in Seq(S) BY DEF IsNonce
<1>2. s \o <<>> = s BY <1>1, ConcatEmptySeq
<1>. QED BY <1>2

\* A nonce is not the mark of a stage without a key.
LEMMA NonceNotNoKey ==
  ASSUME NEW s, IsNonce(s)
  PROVE  s # NoKey
BY DEF IsNonce, NoKey

\* A drawn nonce is one, and never the zero one.
LEMMA FreshIsNonce ==
  ASSUME NEW k, NEW draw
  PROVE  IsNonce(FreshNonce(k, draw)) /\ FreshNonce(k, draw) # ZeroNonce
<1>1. IsNonce(FreshNonce(k, draw)) BY TupleNonces DEF FreshNonce
<1>2. FreshNonce(k, draw) # ZeroNonce
  BY DEF FreshNonce, ZeroNonce
<1>. QED BY <1>1, <1>2

\* Every key there is holds something.
LEMMA KeysHold ==
  ASSUME NEW im, NEW key, IsNonce(key), NEW nonce, IsNonce(nonce), NEW cpu, NEW bound
  PROVE  /\ IsNonce(OneBl \o nonce) /\ IsNonce(ZeroSecret \o nonce)
         /\ IsNonce(CbBKey(im, key, nonce, cpu)) /\ IsNonce(CbXKey(im, key, nonce))
         /\ IsNonce(CdKey(key, nonce, bound, cpu)) /\ IsNonce(key \o nonce)
<1>1. IsNonce(OneBl) /\ IsNonce(ZeroSecret) /\ \A c : IsNonce(Cpu(c))
  BY TupleNonces DEF OneBl, ZeroSecret, Cpu
<1>2. IsNonce(key \o nonce) /\ IsNonce(OneBl \o nonce) /\ IsNonce(ZeroSecret \o nonce)
  BY <1>1, NonceConcat
<1>3. \A c : IsNonce(Cpu(c) \o CbAHead(im))
  <2>. SUFFICES ASSUME NEW c PROVE IsNonce(Cpu(c) \o CbAHead(im)) OBVIOUS
  <2>1. CASE im.v2
    BY <1>1, <2>1, NonceConcat, TupleNonces DEF CbAHead
  <2>2. CASE ~im.v2
    <3>1. CbAHead(im) = <<>> BY <2>2 DEF CbAHead
    <3>. QED BY <1>1, <3>1, NonceOrNothing
  <2>. QED BY <2>1, <2>2
<1>4. IsNonce(CbBKey(im, key, nonce, cpu))
  <2>1. CASE im.mfg
    BY <1>1, <1>2, <2>1, NonceConcat DEF CbBKey
  <2>2. CASE ~im.mfg
    <3>1. CbBKey(im, key, nonce, cpu) = (key \o nonce) \o (Cpu(cpu) \o CbAHead(im))
      BY <2>2 DEF CbBKey
    <3>. QED BY <1>2, <1>3, <3>1, NonceConcat
  <2>. QED BY <2>1, <2>2
<1>5. IsNonce(CbXKey(im, key, nonce))
  <2>1. IsNonce((key \o nonce) \o Cpu("zero"))
    BY <1>1, <1>2, NonceConcat
  <2>2. CASE im.v2
    BY <2>1, <2>2, NonceConcat, TupleNonces DEF CbXKey, CbAHead
  <2>3. CASE ~im.v2
    <3>1. CbAHead(im) = <<>> BY <2>3 DEF CbAHead
    <3>. QED BY <2>1, <3>1, NonceOrNothing DEF CbXKey
  <2>. QED BY <2>2, <2>3
<1>6. IsNonce(CdKey(key, nonce, bound, cpu))
  <2>1. CASE bound
    <3>1. IsNonce(<<"within">> \o Cpu(cpu)) BY <1>1, TupleNonces, NonceConcat
    <3>2. CdKey(key, nonce, bound, cpu) = (key \o nonce) \o (<<"within">> \o Cpu(cpu))
      BY <2>1 DEF CdKey
    <3>. QED BY <1>2, <3>1, <3>2, NonceConcat
  <2>2. CASE ~bound
    <3>1. CdKey(key, nonce, bound, cpu) = (key \o nonce) \o <<>>
      BY <2>2 DEF CdKey
    <3>. QED BY <1>2, <3>1, NonceOrNothing
  <2>. QED BY <2>1, <2>2
<1>. QED BY <1>2, <1>4, <1>5, <1>6

-----------------------------------------------------------------------------
(* What one step of encrypt_all changes.                                   *)

\* m is im but for the stages of K.
Frame(m, im, K) ==
  /\ DOMAIN m = ImageFields /\ DOMAIN m.st = DOMAIN im.st
  /\ m.sb = im.sb /\ m.mfg = im.mfg /\ m.v2 = im.v2 /\ m.newCb = im.newCb
  /\ m.smc = im.smc /\ m.smcSealed = im.smcSealed /\ m.spills = im.spills /\ m.room = im.room
  /\ \A k \in DOMAIN im.st \ K : m.st[k] = im.st[k]
  /\ \A k \in DOMAIN im.st : DOMAIN m.st[k] = StageFields

\* s is t sealed or opened: only its keystreams, nonce, key and digest differ.
Kin(s, t) == s.pair = t.pair /\ s.table = t.table /\ s.body = t.body

\* An image keeps to itself.
LEMMA FrameItself ==
  ASSUME NEW im, ImageShaped(im), NEW K
  PROVE  Frame(im, im, K)
BY DEF Frame, ImageShaped

\* Two steps keep what lies outside both.
LEMMA FrameChain ==
  ASSUME NEW im, NEW m, NEW n, NEW K, NEW L, NEW M, Frame(m, im, K), Frame(n, m, L),
         K \subseteq M, L \subseteq M
  PROVE  Frame(n, im, M)
BY DEF Frame

\* Changing one stage keeps every other.
LEMMA FrameStage ==
  ASSUME NEW im, ImageShaped(im), NEW k \in DOMAIN im.st, NEW s, DOMAIN s = StageFields
  PROVE  Frame(WithStage(im, k, s), im, {k}) /\ WithStage(im, k, s).st[k] = s
         /\ WithStage(im, k, s).kv = im.kv
BY DEF Frame, ImageShaped, WithStage, ImageFields, StageFields

\* An image keeps its shape where the changed stages have nonces.
LEMMA FrameShaped ==
  ASSUME NEW im, ImageShaped(im), NEW m, NEW K, Frame(m, im, K),
         \A k \in K \cap DOMAIN im.st : IsNonce(m.st[k].nonce)
  PROVE  ImageShaped(m)
BY DEF Frame, ImageShaped, Has

\* What a step that succeeds with one stage changed hands on.
LEMMA StageStep ==
  ASSUME NEW im, ImageShaped(im), NEW k \in DOMAIN im.st, NEW t, DOMAIN t = StageFields,
         IsNonce(t.nonce)
  PROVE  LET r == Ok(WithStage(im, k, t))
         IN  /\ r.ok = TRUE /\ r.img.st[k] = t
             /\ Frame(r.img, im, {k}) /\ ImageShaped(r.img)
<1> DEFINE m == WithStage(im, k, t)
<1>1. Ok(m).ok = TRUE /\ Ok(m).img = m BY DEF Ok
<1>2. Frame(m, im, {k}) /\ m.st[k] = t
  BY FrameStage
<1>3. ImageShaped(m)
  BY <1>2, FrameShaped
<1>. QED BY <1>1, <1>2, <1>3

\* The stage a CB leaves.
LEMMA CbSeals ==
  ASSUME NEW s, DOMAIN s = StageFields, Plain(s), NEW key
  PROVE  LET t == CbCrypted(s, key)
         IN  /\ DOMAIN t = StageFields /\ Under(t, key) /\ t.key = key
             /\ t.nonce = s.nonce /\ t.mac = s.mac /\ Kin(t, s)
BY DEF CbCrypted, Xor, Plain, Under, StageFields, Kin

\* Opening a sealed CB leaves it plain and its key known.
LEMMA CbOpens ==
  ASSUME NEW s, DOMAIN s = StageFields, NEW key, Under(s, key)
  PROVE  LET t == CbCrypted(s, key)
         IN  /\ DOMAIN t = StageFields /\ Plain(t) /\ t.key = key
             /\ t.nonce = s.nonce /\ t.mac = s.mac /\ Kin(t, s)
BY DEF CbCrypted, Xor, Plain, Under, StageFields, Kin

\* Sealing a plain stage leaves the one key on it.
LEMMA StageSeals ==
  ASSUME NEW s, DOMAIN s = StageFields, Plain(s), NEW key
  PROVE  LET t == Sealed(s, key)
         IN  /\ DOMAIN t = StageFields /\ Under(t, key) /\ t.key = s.key
             /\ t.nonce = s.nonce /\ t.mac = s.mac /\ Kin(t, s)
BY DEF Sealed, Xor, Plain, Under, StageFields, Kin

\* Opening a sealed stage with its key leaves it plain.
LEMMA StageOpens ==
  ASSUME NEW s, DOMAIN s = StageFields, NEW key, Under(s, key)
  PROVE  LET t == Opened(s, key)
         IN  /\ DOMAIN t = StageFields /\ Plain(t) /\ t.key = s.key
             /\ t.nonce = s.nonce /\ t.mac = s.mac /\ Kin(t, s)
BY DEF Opened, Xor, Plain, Under, StageFields, Kin

\* Noting a stage's key changes nothing else of it.
LEMMA KeyedStage ==
  ASSUME NEW s, DOMAIN s = StageFields, NEW key
  PROVE  LET t == Keyed(s, key)
         IN  /\ DOMAIN t = StageFields /\ t.key = key /\ t.under = s.under /\ t.dec = s.dec
             /\ t.nonce = s.nonce /\ t.mac = s.mac /\ Kin(t, s)
BY DEF Keyed, StageFields, Kin

\* A stage sealed under a key it keeps for the stage below it.
LEMMA StageKeySeals ==
  ASSUME NEW s, DOMAIN s = StageFields, Plain(s), NEW key
  PROVE  LET t == Keyed(Sealed(s, key), key)
         IN  /\ DOMAIN t = StageFields /\ Under(t, key) /\ t.key = key
             /\ t.nonce = s.nonce /\ t.mac = s.mac /\ Kin(t, s)
BY DEF Sealed, Keyed, Xor, Plain, Under, StageFields, Kin

\* A stage opened with its key, the key noted.
LEMMA StageKeyOpens ==
  ASSUME NEW s, DOMAIN s = StageFields, NEW key, Under(s, key)
  PROVE  LET t == Keyed(Opened(s, key), key)
         IN  /\ DOMAIN t = StageFields /\ Plain(t) /\ t.key = key
             /\ t.nonce = s.nonce /\ t.mac = s.mac /\ Kin(t, s)
BY DEF Opened, Keyed, Xor, Plain, Under, StageFields, Kin

\* A stage whose nonce is zero takes a fresh one before it is sealed.
NonceOf(s, k, draw) == IF s.nonce = ZeroNonce THEN FreshNonce(k, draw) ELSE s.nonce

\* A zero nonce is drawn anew, any other kept.
LEMMA NoncedStage ==
  ASSUME NEW s, DOMAIN s = StageFields, Plain(s), NEW k, NEW draw, IsNonce(s.nonce)
  PROVE  LET t == Nonced(s, FreshNonce(k, draw))
         IN  /\ DOMAIN t = StageFields /\ Plain(t) /\ t.nonce = NonceOf(s, k, draw)
             /\ t.key = s.key /\ t.mac = s.mac /\ Kin(t, s)
             /\ IsNonce(t.nonce) /\ t.nonce # ZeroNonce
BY FreshIsNonce DEF Nonced, NonceOf, Plain, StageFields, Kin

-----------------------------------------------------------------------------
(* The steps of the chain.                                                 *)

\* seal_cb_chain on CB_A: sealed under the 1BL's key, its digest taken where it binds.
LEMMA CbAStep ==
  ASSUME NEW im, ImageShaped(im), NEW cpu, NEW single \in BOOLEAN, Plain(im.st["A"])
  PROVE  LET r == CbASealed(im, cpu, single)
             a == r.img.st["A"]
         IN  /\ r.ok = TRUE /\ Frame(r.img, im, {"A"}) /\ ImageShaped(r.img)
             /\ Under(a, KeyA(im)) /\ a.key = KeyA(im) /\ a.nonce = im.st["A"].nonce
             /\ Kin(a, im.st["A"])
             /\ a.mac = IF single THEN CbDigest(im, im.st["A"], KeyA(im), cpu) ELSE im.st["A"].mac
<1> DEFINE s == im.st["A"]
           t == IF single THEN BoundAndSealed(im, s, KeyA(im), cpu, FALSE) ELSE CbCrypted(s, KeyA(im))
           r == CbASealed(im, cpu, single)
<1>1. "A" \in DOMAIN im.st /\ DOMAIN s = StageFields /\ IsNonce(s.nonce)
  BY DEF ImageShaped
<1>2. r = Ok(WithStage(im, "A", t))
  BY DEF CbASealed, KeyA, Plain
<1>3. /\ DOMAIN t = StageFields /\ Under(t, KeyA(im)) /\ t.key = KeyA(im) /\ t.nonce = s.nonce
      /\ Kin(t, s) /\ t.mac = IF single THEN CbDigest(im, s, KeyA(im), cpu) ELSE s.mac
  <2>1. CASE single
    <3> DEFINE u == [s EXCEPT !.mac = CbDigest(im, s, KeyA(im), cpu)]
    <3>1. t = CbCrypted(u, KeyA(im))
      BY <2>1 DEF BoundAndSealed
    <3>2. /\ DOMAIN u = StageFields /\ Plain(u) /\ u.nonce = s.nonce /\ Kin(u, s)
          /\ u.mac = CbDigest(im, s, KeyA(im), cpu)
      BY <1>1 DEF Plain, StageFields, Kin
    <3>. HIDE DEF t, u
    <3>. QED BY <2>1, <3>1, <3>2, CbSeals DEF Kin
  <2>2. CASE ~single
    BY <1>1, <2>2, CbSeals
  <2>. QED BY <2>1, <2>2
<1>. HIDE DEF t, r
<1>4. /\ r.ok = TRUE /\ r.img.st["A"] = t
      /\ Frame(r.img, im, {"A"}) /\ ImageShaped(r.img)
  <2>. DEFINE q == Ok(WithStage(im, "A", t))
  <2>1. /\ q.ok = TRUE /\ q.img.st["A"] = t
        /\ Frame(q.img, im, {"A"}) /\ ImageShaped(q.img)
    BY <1>1, <1>3, StageStep
  <2>. HIDE DEF q
  <2>2. r = q BY <1>2 DEF q
  <2>. QED BY <2>1, <2>2
<1>5. QED BY <1>3, <1>4 DEF r

\* seal_cb_chain on CB_X: sealed under CB_A's key; CB_B behind it stays plain and states its
\* key.
LEMMA GlitchPairStep ==
  ASSUME NEW im, ImageShaped(im), NEW type, Suited(im, type),
         Has(im, "X") => /\ Plain(im.st["X"]) /\ Plain(im.st["B"]) /\ im.st["A"].key = KeyA(im)
                         /\ im.st["B"].key = NoKey \/ IsNonce(im.st["B"].key)
  PROVE  LET r == GlitchPairSealed(im, type)
             m == r.img
             given == im.st["B"].key
         IN  /\ r.ok = TRUE /\ Frame(m, im, {"X", "B"}) /\ ImageShaped(m)
             /\ ~Has(im, "X") => m = im
             /\ Has(im, "X") =>
                  /\ Under(m.st["X"], KeyX(im)) /\ m.st["X"].nonce = im.st["X"].nonce
                  /\ m.st["X"].mac = im.st["X"].mac /\ Kin(m.st["X"], im.st["X"])
                  /\ Plain(m.st["B"]) /\ m.st["B"].key = m.st["B"].nonce
                  /\ m.st["B"].nonce = IF given # NoKey THEN given ELSE im.st["B"].nonce
                  /\ m.st["B"].mac = im.st["B"].mac /\ Kin(m.st["B"], im.st["B"])
<1> DEFINE r == GlitchPairSealed(im, type)
           m == r.img
           x == im.st["X"]
           b == im.st["B"]
           y == CbCrypted(x, KeyX(im))
           c == IF b.key # NoKey THEN [b EXCEPT !.nonce = b.key] ELSE [b EXCEPT !.key = b.nonce]
<1>1. CASE ~Has(im, "X")
  <2>1. r = Ok(im) BY <1>1 DEF GlitchPairSealed, Suited
  <2>2. r.ok = TRUE /\ r.img = im BY <2>1 DEF Ok
  <2>. HIDE DEF r
  <2>. QED BY <1>1, <2>2, FrameItself DEF r
<1>2. CASE Has(im, "X")
  <2>1. /\ type = "Glitch3" /\ {"X", "B"} \subseteq DOMAIN im.st
        /\ DOMAIN x = StageFields /\ DOMAIN b = StageFields
        /\ IsNonce(x.nonce) /\ IsNonce(b.nonce) /\ IsNonce(KeyA(im))
    <3>1. "A" \in DOMAIN im.st /\ IsNonce(im.st["A"].nonce) BY DEF ImageShaped
    <3>2. IsNonce(KeyA(im)) BY <3>1, KeysHold DEF KeyA
    <3>. QED BY <1>2, <3>2 DEF ImageShaped, Has, Suited
  <2>2. im.st["A"].key # NoKey /\ im.st["A"].key = KeyA(im)
    BY <1>2, <2>1, NonceNotNoKey
  <2>3. r = Ok([im EXCEPT !.st["X"] = y, !.st["B"] = c])
    BY <1>2, <2>1, <2>2 DEF GlitchPairSealed, KeyX, Plain
  <2>4. /\ DOMAIN y = StageFields /\ Under(y, KeyX(im)) /\ y.nonce = x.nonce
        /\ y.mac = x.mac /\ Kin(y, x)
    BY <1>2, <2>1, CbSeals
  <2>5. /\ DOMAIN c = StageFields /\ Plain(c) /\ c.key = c.nonce /\ IsNonce(c.nonce)
        /\ c.nonce = IF b.key # NoKey THEN b.key ELSE b.nonce
        /\ c.mac = b.mac /\ Kin(c, b)
    BY <1>2, <2>1 DEF Plain, Kin, StageFields
  <2>6. r.ok = TRUE /\ m = [im EXCEPT !.st["X"] = y, !.st["B"] = c]
    BY <2>3 DEF Ok
  <2>. HIDE DEF y, c, r
  <2>7. m.st["X"] = y /\ m.st["B"] = c /\ Frame(m, im, {"X", "B"})
    BY <2>1, <2>4, <2>5, <2>6 DEF Frame, ImageShaped, ImageFields
  <2>8. ImageShaped(m)
    BY <2>1, <2>4, <2>5, <2>7, FrameShaped
  <2>. QED BY <1>2, <2>4, <2>5, <2>6, <2>7, <2>8 DEF r
<1>. QED BY <1>1, <1>2

\* seal_cb_chain on CB_B: sealed under the key of CB_A as it lies and the console, digest
\* taken.
LEMMA CbBStep ==
  ASSUME NEW im, ImageShaped(im), NEW type, Suited(im, type), NEW cpu,
         Has(im, "B") /\ ~Has(im, "X") => Plain(im.st["B"]) /\ im.st["A"].key = KeyA(im)
  PROVE  LET r == CbBSealed(im, cpu, type)
             m == r.img
         IN  /\ r.ok = TRUE /\ Frame(m, im, {"B"}) /\ ImageShaped(m)
             /\ ~Has(im, "B") \/ Has(im, "X") => m = im
             /\ Has(im, "B") /\ ~Has(im, "X") =>
                  /\ Under(m.st["B"], KeyB(im, cpu)) /\ m.st["B"].key = KeyB(im, cpu)
                  /\ m.st["B"].nonce = im.st["B"].nonce /\ Kin(m.st["B"], im.st["B"])
                  /\ m.st["B"].mac = IF im.mfg \/ cpu = "zero" THEN <<>>
                                     ELSE CbDigest(im, im.st["B"], KeyB(im, cpu), cpu)
<1> DEFINE r == CbBSealed(im, cpu, type)
           b == im.st["B"]
           key == KeyB(im, cpu)
           mac == IF im.mfg \/ cpu = "zero" THEN <<>> ELSE CbDigest(im, b, key, cpu)
           u == [b EXCEPT !.mac = mac]
           t == CbCrypted(u, key)
<1>1. CASE ~Has(im, "B") \/ Has(im, "X")
  <2>1. r = Ok(im) BY <1>1 DEF CbBSealed, Suited
  <2>2. r.ok = TRUE /\ r.img = im BY <2>1 DEF Ok
  <2>. HIDE DEF r
  <2>. QED BY <1>1, <2>2, FrameItself DEF r
<1>2. CASE Has(im, "B") /\ ~Has(im, "X")
  <2>1. /\ type # "Glitch3" /\ "B" \in DOMAIN im.st /\ DOMAIN b = StageFields
        /\ IsNonce(b.nonce) /\ IsNonce(KeyA(im))
    <3>1. "A" \in DOMAIN im.st /\ IsNonce(im.st["A"].nonce) BY DEF ImageShaped
    <3>2. IsNonce(KeyA(im)) BY <3>1, KeysHold DEF KeyA
    <3>. QED BY <1>2, <3>2 DEF ImageShaped, Has, Suited
  <2>2. im.st["A"].key # NoKey /\ im.st["A"].key = KeyA(im)
    BY <1>2, <2>1, NonceNotNoKey
  <2>3. r = Ok(WithStage(im, "B", t))
    BY <1>2, <2>1, <2>2 DEF CbBSealed, KeyB, Plain, BoundAndSealed
  <2>4. /\ DOMAIN u = StageFields /\ Plain(u) /\ u.nonce = b.nonce /\ u.mac = mac /\ Kin(u, b)
    BY <1>2, <2>1 DEF Plain, Kin, StageFields
  <2>. HIDE DEF u, mac
  <2>5. /\ DOMAIN t = StageFields /\ Under(t, key) /\ t.key = key /\ t.nonce = b.nonce
        /\ t.mac = mac /\ Kin(t, b)
    BY <2>4, CbSeals DEF Kin
  <2>. HIDE DEF t, r
  <2>6. /\ r.ok = TRUE /\ r.img.st["B"] = t /\ Frame(r.img, im, {"B"}) /\ ImageShaped(r.img)
    <3>. DEFINE q == Ok(WithStage(im, "B", t))
    <3>1. /\ q.ok = TRUE /\ q.img.st["B"] = t
          /\ Frame(q.img, im, {"B"}) /\ ImageShaped(q.img)
      BY <2>1, <2>5, StageStep
    <3>. HIDE DEF q
    <3>2. r = q BY <2>3 DEF q
    <3>. QED BY <3>1, <3>2
  <2>. QED BY <1>2, <2>5, <2>6 DEF r, mac
<1>. QED BY <1>1, <1>2

\* seal_devkit_sc: a devkit's SC is sealed under a drawn nonce, any other left alone.
LEMMA ScStep ==
  ASSUME NEW im, ImageShaped(im), NEW draw, im.sb => Plain(im.st["SC"])
  PROVE  LET r == DevkitScSealed(im, draw)
             m == r.img
         IN  /\ r.ok = TRUE /\ Frame(m, im, {"SC"}) /\ ImageShaped(m)
             /\ ~im.sb => m = im
             /\ im.sb => /\ Under(m.st["SC"], KeySc(m)) /\ m.st["SC"].key = KeySc(m)
                         /\ m.st["SC"].nonce = NonceOf(im.st["SC"], "SC", draw)
                         /\ m.st["SC"].nonce # ZeroNonce /\ Kin(m.st["SC"], im.st["SC"])
                         /\ m.st["SC"].mac = im.st["SC"].mac
<1> DEFINE r == DevkitScSealed(im, draw)
           s == im.st["SC"]
           n == Nonced(s, FreshNonce("SC", draw))
           key == ZeroSecret \o n.nonce
           t == Keyed(Sealed(n, key), key)
<1>1. CASE ~im.sb
  <2>1. r = Ok(im) BY <1>1 DEF DevkitScSealed
  <2>2. r.ok = TRUE /\ r.img = im BY <2>1 DEF Ok
  <2>. HIDE DEF r
  <2>. QED BY <1>1, <2>2, FrameItself DEF r
<1>2. CASE im.sb
  <2>1. "SC" \in DOMAIN im.st /\ DOMAIN s = StageFields /\ IsNonce(s.nonce) /\ Plain(s)
    BY <1>2 DEF ImageShaped, Has
  <2>2. r = Ok(WithStage(im, "SC", t))
    BY <1>2, <2>1 DEF DevkitScSealed, Opened, Plain
  <2>3. /\ DOMAIN n = StageFields /\ Plain(n) /\ n.nonce = NonceOf(s, "SC", draw)
        /\ n.mac = s.mac /\ Kin(n, s) /\ IsNonce(n.nonce) /\ n.nonce # ZeroNonce
    BY <2>1, NoncedStage
  <2>. HIDE DEF n
  <2>5. /\ DOMAIN t = StageFields /\ Under(t, key) /\ t.key = key /\ t.nonce = n.nonce
        /\ t.mac = s.mac /\ Kin(t, s)
    <3>. HIDE DEF key
    <3>. QED BY <2>3, StageKeySeals DEF Kin
  <2>. HIDE DEF t, r
  <2>6. /\ r.ok = TRUE /\ r.img.st["SC"] = t /\ Frame(r.img, im, {"SC"}) /\ ImageShaped(r.img)
    <3>. DEFINE q == Ok(WithStage(im, "SC", t))
    <3>1. /\ q.ok = TRUE /\ q.img.st["SC"] = t
          /\ Frame(q.img, im, {"SC"}) /\ ImageShaped(q.img)
      BY <2>1, <2>3, <2>5, StageStep
    <3>. HIDE DEF q
    <3>2. r = q BY <2>2 DEF q
    <3>. QED BY <3>1, <3>2
  <2>. QED BY <1>2, <2>3, <2>5, <2>6 DEF r, KeySc
<1>. QED BY <1>1, <1>2

CdDone(r, im, parent, cpu, draw) ==
  LET m == r.img
      c == m.st["CD"]
      s == im.st["CD"]
  IN  /\ r.ok = TRUE /\ Frame(m, im, {"CD"}) /\ ImageShaped(m)
      /\ Under(c, CdKey(parent, c.nonce, CdNeedsCpuKey(im), cpu))
      /\ c.nonce = IF Plain(s) THEN NonceOf(s, "CD", draw) ELSE s.nonce
      /\ Plain(s) => c.nonce # ZeroNonce /\ c.key = CdKey(parent, c.nonce, CdNeedsCpuKey(im), cpu)
      /\ c.mac = s.mac /\ Kin(c, s)

\* seal_kernel on the CD: sealed under its parent's key, unless it lay so already.
LEMMA CdStep ==
  ASSUME NEW im, ImageShaped(im), NEW cpu, NEW draw, NEW parent, IsNonce(parent),
         parent = IF im.sb THEN im.st["SC"].key
                  ELSE IF Has(im, "B") THEN im.st["B"].key ELSE im.st["A"].key,
         \/ Plain(im.st["CD"])
         \/ Under(im.st["CD"], CdKey(parent, im.st["CD"].nonce, CdNeedsCpuKey(im), cpu))
  PROVE  CdDone(CdSealed(im, cpu, draw), im, parent, cpu, draw)
<1> DEFINE r == CdSealed(im, cpu, draw)
           s == im.st["CD"]
           n == Nonced(s, FreshNonce("CD", draw))
           need == CdNeedsCpuKey(im)
           k == CdKey(parent, n.nonce, need, cpu)
           t == Keyed(Sealed(n, k), k)
<1>1. "CD" \in DOMAIN im.st /\ DOMAIN s = StageFields /\ IsNonce(s.nonce) /\ parent # NoKey
  BY NonceNotNoKey DEF ImageShaped
<1>2. CASE Plain(s)
  <2>1. /\ DOMAIN n = StageFields /\ Plain(n) /\ n.nonce = NonceOf(s, "CD", draw)
        /\ n.mac = s.mac /\ Kin(n, s) /\ IsNonce(n.nonce) /\ n.nonce # ZeroNonce
    BY <1>1, <1>2, NoncedStage
  <2>2. r = Ok(WithStage(im, "CD", t))
    BY <1>1, <2>1 DEF CdSealed, Plain
  <2>. HIDE DEF n
  <2>3. /\ DOMAIN t = StageFields /\ Under(t, k) /\ t.key = k /\ t.nonce = n.nonce
        /\ t.mac = s.mac /\ Kin(t, s)
    BY <2>1, StageKeySeals DEF Kin
  <2>. HIDE DEF t, r
  <2>4. /\ r.ok = TRUE /\ r.img.st["CD"] = t /\ Frame(r.img, im, {"CD"}) /\ ImageShaped(r.img)
    <3>. DEFINE q == Ok(WithStage(im, "CD", t))
    <3>1. /\ q.ok = TRUE /\ q.img.st["CD"] = t
          /\ Frame(q.img, im, {"CD"}) /\ ImageShaped(q.img)
      BY <1>1, <2>1, <2>3, StageStep
    <3>. HIDE DEF q
    <3>2. r = q BY <2>2 DEF q
    <3>. QED BY <3>1, <3>2
  <2>. QED BY <1>2, <2>1, <2>3, <2>4 DEF r, CdDone
<1>3. CASE ~Plain(s) /\ Under(s, CdKey(parent, s.nonce, need, cpu))
  <2>1. n = s BY <1>3 DEF Nonced, Under
  <2>2. r = Ok(im) BY <1>3, <2>1 DEF CdSealed, Under
  <2>3. r.ok = TRUE /\ r.img = im BY <2>2 DEF Ok
  <2>. HIDE DEF r
  <2>. QED BY <1>3, <2>3, FrameItself DEF r, Kin, CdDone
<1>. QED BY <1>2, <1>3

\* seal_kernel on the CE, which needs the CD's key and fails without it.
LEMMA CeStep ==
  ASSUME NEW im, ImageShaped(im), NEW draw, NEW parent, IsNonce(parent),
         Has(im, "CE") =>
           \/ Plain(im.st["CE"]) /\ im.st["CD"].key \in {NoKey, parent}
           \/ Under(im.st["CE"], parent \o im.st["CE"].nonce)
  PROVE  LET r == CeSealed(im, draw)
             m == r.img
             c == m.st["CE"]
             s == im.st["CE"]
         IN  /\ Frame(m, im, {"CE"}) /\ ImageShaped(m)
             /\ \/ r.ok = TRUE
                \/ r.ok = FALSE /\ Has(im, "CE") /\ im.st["CD"].key = NoKey
             /\ r.ok = TRUE /\ Has(im, "CE") =>
                  /\ Under(c, parent \o c.nonce)
                  /\ c.nonce = IF Plain(s) THEN NonceOf(s, "CE", draw) ELSE s.nonce
                  /\ c.mac = s.mac /\ Kin(c, s)
<1> DEFINE r == CeSealed(im, draw)
           s == im.st["CE"]
           n == Nonced(s, FreshNonce("CE", draw))
           k == parent \o n.nonce
           t == Sealed(n, k)
<1>0. parent # NoKey BY NonceNotNoKey
<1>1. CASE ~Has(im, "CE")
  <2>2. r = Ok(im) BY <1>1 DEF CeSealed
  <2>3. r.ok = TRUE /\ r.img = im BY <2>2 DEF Ok
  <2>. HIDE DEF r
  <2>. QED BY <1>1, <2>3, FrameItself DEF r
<1>2. CASE Has(im, "CE") /\ Plain(s) /\ im.st["CD"].key = parent
  <2>0. "CE" \in DOMAIN im.st /\ DOMAIN s = StageFields /\ IsNonce(s.nonce)
    BY <1>2 DEF ImageShaped, Has
  <2>1. /\ DOMAIN n = StageFields /\ Plain(n) /\ n.nonce = NonceOf(s, "CE", draw)
        /\ n.mac = s.mac /\ Kin(n, s) /\ IsNonce(n.nonce)
    BY <2>0, <1>2, NoncedStage
  <2>2. r = Ok(WithStage(im, "CE", t))
    BY <1>0, <1>2, <2>1 DEF CeSealed, Plain
  <2>. HIDE DEF n
  <2>3. /\ DOMAIN t = StageFields /\ Under(t, k) /\ t.nonce = n.nonce
        /\ t.mac = s.mac /\ Kin(t, s)
    BY <2>1, StageSeals DEF Kin
  <2>. HIDE DEF t, r
  <2>4. /\ r.ok = TRUE /\ r.img.st["CE"] = t /\ Frame(r.img, im, {"CE"}) /\ ImageShaped(r.img)
    <3>. DEFINE q == Ok(WithStage(im, "CE", t))
    <3>1. /\ q.ok = TRUE /\ q.img.st["CE"] = t
          /\ Frame(q.img, im, {"CE"}) /\ ImageShaped(q.img)
      BY <2>0, <2>1, <2>3, StageStep
    <3>. HIDE DEF q
    <3>2. r = q BY <2>2 DEF q
    <3>. QED BY <3>1, <3>2
  <2>. QED BY <1>2, <2>1, <2>3, <2>4 DEF r
<1>3. CASE Has(im, "CE") /\ ~Plain(s) /\ Under(s, parent \o s.nonce)
  <2>1. n = s BY <1>3 DEF Nonced, Under
  <2>2. r = Ok(im) BY <1>3, <2>1 DEF CeSealed, Under
  <2>3. r.ok = TRUE /\ r.img = im BY <2>2 DEF Ok
  <2>. HIDE DEF r
  <2>. QED BY <1>3, <2>3, FrameItself DEF r, Kin
<1>4. CASE Has(im, "CE") /\ ~Plain(s) /\ ~Under(s, parent \o s.nonce) BY <1>4
<1>5. CASE Has(im, "CE") /\ Plain(s) /\ im.st["CD"].key = NoKey
  <2>0. "CE" \in DOMAIN im.st /\ DOMAIN s = StageFields /\ IsNonce(s.nonce)
    BY <1>5 DEF ImageShaped, Has
  <2>1. Plain(n) BY <2>0, <1>5, NoncedStage
  <2>2. r = Failed(im) BY <1>5, <2>1 DEF CeSealed, Plain
  <2>3. r.ok = FALSE /\ r.img = im BY <2>2 DEF Failed
  <2>. HIDE DEF r
  <2>. QED BY <1>5, <2>3, FrameItself DEF r
<1>6. CASE Has(im, "CE") /\ Plain(s) /\ im.st["CD"].key \notin {NoKey, parent}
  BY <1>6 DEF Plain, Under
<1>. QED BY <1>1, <1>2, <1>3, <1>4, <1>5, <1>6

-----------------------------------------------------------------------------
(* The chain as encrypt_all leaves it.                                     *)

Chain == {"A", "X", "B", "SC", "CD", "CE"}

\* The nonce a stage is written with.
NonceSealed(im, k, draw) ==
  IF k \in {"SC", "CD", "CE"} /\ Plain(im.st[k]) /\ (k = "SC" => im.sb) THEN NonceOf(im.st[k], k, draw)
  ELSE IF k = "B" /\ Has(im, "X") /\ im.st[k].key # NoKey THEN im.st[k].key
  ELSE im.st[k].nonce

\* The digest a CB is written with.
MacSealed(im, k, cpu, single) ==
  CASE k = "A" /\ single -> CbDigest(im, im.st[k], KeyA(im), cpu)
    [] k = "B" /\ ~Has(im, "X") ->
         IF im.mfg \/ cpu = "zero" THEN <<>> ELSE CbDigest(im, im.st[k], KeyB(im, cpu), cpu)
    [] OTHER -> im.st[k].mac

\* A digest is never the empty text.
LEMMA DigestHolds ==
  ASSUME NEW im, NEW s, NEW key, IsNonce(key), NEW cpu
  PROVE  IsNonce(CbDigest(im, s, key, cpu))
<1>1. IsNonce(<<"digest">>) /\ IsNonce(Cpu(cpu)) /\ IsNonce(<<s.pair>>) /\ IsNonce(SmcBytes(im))
  BY TupleNonces DEF Cpu, SmcBytes
<1>. QED BY <1>1, NonceConcat DEF CbDigest

\* The same CB keys its CD the same way whether it was bound or not.
LEMMA SameNeed ==
  ASSUME NEW im, NEW m, ImageShaped(im), ImageShaped(m), m.newCb = im.newCb, m.sb = im.sb,
         Has(m, "B") <=> Has(im, "B"), m.st["A"].pair = im.st["A"].pair,
         \/ m.st["A"].mac = im.st["A"].mac
         \/ m.st["A"].mac # <<>> /\ (im.sb \/ CdNeedsCpuKey(im))
  PROVE  /\ CdNeedsCpuKey(m) <=> CdNeedsCpuKey(im)
         /\ ~im.sb => (RequiresCpuKey(m) <=> RequiresCpuKey(im))
BY DEF CdNeedsCpuKey, RequiresCpuKey, StatesConsole

\* The CB keys look at the chain's flags, and at nothing else of the image.
LEMMA SameKeys ==
  ASSUME NEW im, NEW m, m.mfg = im.mfg, m.v2 = im.v2
  PROVE  \A key, nonce, cpu : /\ CbBKey(m, key, nonce, cpu) = CbBKey(im, key, nonce, cpu)
                              /\ CbXKey(m, key, nonce) = CbXKey(im, key, nonce)
BY DEF CbBKey, CbXKey, CbAHead

\* A CB's digest looks at the SMC and the pairing, and at nothing else of the image.
LEMMA SameDigest ==
  ASSUME NEW im, NEW m, NEW s, NEW t, m.smc = im.smc, m.smcSealed = im.smcSealed, s.pair = t.pair
  PROVE  \A key, cpu : CbDigest(m, s, key, cpu) = CbDigest(im, t, key, cpu)
BY DEF CbDigest, SmcBytes

ChainDone(r, im, cpu, single, draw) ==
  LET m == r.img
  IN  /\ r.ok \in BOOLEAN
      /\ Plain(im.st["CD"]) => r.ok = TRUE
      /\ r.ok = TRUE =>
           /\ Frame(m, im, Chain) /\ ImageShaped(m) /\ ChainClosed(m, cpu)
           /\ \A k \in Chain \cap DOMAIN im.st :
                /\ m.st[k].nonce = NonceSealed(im, k, draw) /\ Kin(m.st[k], im.st[k])
                /\ m.st[k].mac = MacSealed(im, k, cpu, single)

\* The whole chain, one step after the other.
LEMMA ChainStep ==
  ASSUME NEW im, ImageShaped(im), NEW type, Suited(im, type), NEW cpu, NEW draw, Ready(im, cpu),
         NEW single \in BOOLEAN, single => im.sb \/ CdNeedsCpuKey(im)
  PROVE  ChainDone(ChainSealed(im, cpu, type, single, draw), im, cpu, single, draw)
<1> DEFINE a == CbASealed(im, cpu, single)
           x == GlitchPairSealed(a.img, type)
           b == CbBSealed(x.img, cpu, type)
           c == DevkitScSealed(b.img, draw)
           d == CdSealed(c.img, cpu, draw)
           e == CeSealed(d.img, draw)
           r == ChainSealed(im, cpu, type, single, draw)
           needs(i) == CdNeedsCpuKey(i)
<1>0. /\ Plain(im.st["A"]) /\ {"A", "CD"} \subseteq DOMAIN im.st /\ IsNonce(KeyA(im))
      /\ Has(im, "X") => /\ Plain(im.st["X"]) /\ Plain(im.st["B"]) /\ Has(im, "B")
                         /\ im.st["B"].key = NoKey \/ IsNonce(im.st["B"].key)
      /\ Has(im, "B") => Plain(im.st["B"]) /\ IsNonce(KeyB(im, cpu)) /\ IsNonce(HandOff(im, cpu))
      /\ im.sb => Plain(im.st["SC"]) /\ Plain(im.st["CD"])
      /\ im.sb /\ Has(im, "CE") => Plain(im.st["CE"])
  <2>1. {"A", "CD"} \subseteq DOMAIN im.st /\ IsNonce(KeyA(im))
    <3>1. "A" \in DOMAIN im.st /\ IsNonce(im.st["A"].nonce) BY DEF ImageShaped
    <3>. QED BY <3>1, KeysHold DEF KeyA, ImageShaped
  <2>2. Has(im, "B") => IsNonce(KeyB(im, cpu)) /\ IsNonce(im.st["B"].nonce)
    BY <2>1, KeysHold DEF KeyB, ImageShaped, Has
  <2>3. Has(im, "B") => IsNonce(HandOff(im, cpu))
    BY <2>2 DEF HandOff, Ready
  <2>. QED BY <2>1, <2>2, <2>3 DEF Ready, ImageShaped, Has
<1>1. /\ a.ok = TRUE /\ Frame(a.img, im, {"A"}) /\ ImageShaped(a.img)
      /\ Under(a.img.st["A"], KeyA(im)) /\ a.img.st["A"].key = KeyA(im)
      /\ a.img.st["A"].nonce = im.st["A"].nonce /\ Kin(a.img.st["A"], im.st["A"])
      /\ a.img.st["A"].mac = MacSealed(im, "A", cpu, single)
  <2>1. /\ a.ok = TRUE /\ Frame(a.img, im, {"A"}) /\ ImageShaped(a.img)
        /\ Under(a.img.st["A"], KeyA(im)) /\ a.img.st["A"].key = KeyA(im)
        /\ a.img.st["A"].nonce = im.st["A"].nonce
        /\ Kin(a.img.st["A"], im.st["A"])
    BY <1>0, CbAStep
  <2>3. a.img.st["A"].mac = IF single THEN CbDigest(im, im.st["A"], KeyA(im), cpu)
                            ELSE im.st["A"].mac
    BY <1>0, CbAStep
  <2>. HIDE DEF a
  <2>2. MacSealed(im, "A", cpu, single) = IF single THEN CbDigest(im, im.st["A"], KeyA(im), cpu)
                                          ELSE im.st["A"].mac
    BY DEF MacSealed
  <2>. QED BY <2>1, <2>2, <2>3
<1>. HIDE DEF a
<1>2. /\ x.ok = TRUE /\ Frame(x.img, a.img, {"X", "B"}) /\ ImageShaped(x.img)
      /\ ~Has(im, "X") => x.img = a.img
      /\ Has(im, "X") =>
           /\ Under(x.img.st["X"], KeyX(im)) /\ x.img.st["X"].nonce = im.st["X"].nonce
           /\ x.img.st["X"].mac = im.st["X"].mac /\ Kin(x.img.st["X"], im.st["X"])
           /\ Plain(x.img.st["B"]) /\ x.img.st["B"].key = x.img.st["B"].nonce
           /\ x.img.st["B"].nonce = HandOff(im, cpu)
           /\ x.img.st["B"].mac = im.st["B"].mac /\ Kin(x.img.st["B"], im.st["B"])
  <2>. HIDE DEF x
  <2>0. /\ Has(a.img, "X") <=> Has(im, "X")
        /\ a.img.sb = im.sb /\ a.img.mfg = im.mfg /\ a.img.v2 = im.v2
        /\ Has(im, "X") => a.img.st["X"] = im.st["X"] /\ a.img.st["B"] = im.st["B"]
    BY <1>0, <1>1 DEF Frame, Has
  <2>1. /\ Suited(a.img, type) /\ KeyA(a.img) = KeyA(im)
        /\ Has(im, "X") => KeyX(a.img) = KeyX(im)
    <3>1. Suited(a.img, type) BY <2>0 DEF Suited
    <3>2. KeyA(a.img) = KeyA(im) BY <1>1 DEF KeyA
    <3>3. Has(im, "X") => KeyX(a.img) = KeyX(im) BY <2>0, <3>2, SameKeys DEF KeyX
    <3>. QED BY <3>1, <3>2, <3>3
  <2>2. Has(a.img, "X") => /\ Plain(a.img.st["X"]) /\ Plain(a.img.st["B"])
                           /\ a.img.st["A"].key = KeyA(a.img)
                           /\ a.img.st["B"].key = NoKey \/ IsNonce(a.img.st["B"].key)
    BY <1>0, <1>1, <2>0, <2>1
  <2>3. /\ x.ok = TRUE /\ Frame(x.img, a.img, {"X", "B"}) /\ ImageShaped(x.img)
        /\ ~Has(a.img, "X") => x.img = a.img
        /\ Has(a.img, "X") =>
             /\ Under(x.img.st["X"], KeyX(a.img)) /\ x.img.st["X"].nonce = a.img.st["X"].nonce
             /\ x.img.st["X"].mac = a.img.st["X"].mac /\ Kin(x.img.st["X"], a.img.st["X"])
             /\ Plain(x.img.st["B"]) /\ x.img.st["B"].key = x.img.st["B"].nonce
             /\ x.img.st["B"].nonce = IF a.img.st["B"].key # NoKey THEN a.img.st["B"].key
                                      ELSE a.img.st["B"].nonce
             /\ x.img.st["B"].mac = a.img.st["B"].mac /\ Kin(x.img.st["B"], a.img.st["B"])
    BY <1>1, <2>1, <2>2, GlitchPairStep DEF x
  <2>4. Has(im, "X") => HandOff(im, cpu) = IF im.st["B"].key # NoKey THEN im.st["B"].key
                                           ELSE im.st["B"].nonce
    BY DEF HandOff
  <2>. QED BY <2>0, <2>1, <2>3, <2>4
<1>. HIDE DEF x
<1>3. /\ Frame(x.img, im, {"A", "X", "B"}) /\ x.img.st["A"] = a.img.st["A"]
  BY <1>1, <1>2 DEF Frame, ImageShaped
<1>4. /\ b.ok = TRUE /\ Frame(b.img, x.img, {"B"}) /\ ImageShaped(b.img)
      /\ ~Has(im, "B") \/ Has(im, "X") => b.img = x.img
      /\ Has(im, "B") /\ ~Has(im, "X") =>
           /\ Under(b.img.st["B"], KeyB(im, cpu)) /\ b.img.st["B"].key = KeyB(im, cpu)
           /\ b.img.st["B"].nonce = im.st["B"].nonce /\ Kin(b.img.st["B"], im.st["B"])
           /\ b.img.st["B"].mac = MacSealed(im, "B", cpu, single)
  <2>. HIDE DEF b
  <2>0. /\ Has(x.img, "X") <=> Has(im, "X")
        /\ Has(x.img, "B") <=> Has(im, "B")
        /\ x.img.sb = im.sb /\ x.img.mfg = im.mfg /\ x.img.v2 = im.v2
        /\ x.img.smc = im.smc /\ x.img.smcSealed = im.smcSealed
    BY <1>3 DEF Frame, Has
  <2>1. /\ Suited(x.img, type) /\ KeyA(x.img) = KeyA(im)
        /\ x.img.st["A"].key = KeyA(im)
    <3>1. Suited(x.img, type) BY <2>0 DEF Suited
    <3>2. KeyA(x.img) = KeyA(im) BY <1>1, <1>3 DEF KeyA
    <3>. QED BY <1>1, <1>3, <3>1, <3>2
  <2>2. Has(im, "B") /\ ~Has(im, "X") =>
          x.img.st["B"] = im.st["B"] /\ KeyB(x.img, cpu) = KeyB(im, cpu)
    <3>. SUFFICES ASSUME Has(im, "B"), ~Has(im, "X")
                  PROVE  x.img.st["B"] = im.st["B"] /\ KeyB(x.img, cpu) = KeyB(im, cpu)
      OBVIOUS
    <3>1. x.img.st["B"] = im.st["B"] BY <1>1, <1>2 DEF Frame, Has
    <3>. QED BY <2>0, <2>1, <3>1, SameKeys DEF KeyB
  <2>3. \A key : CbDigest(x.img, im.st["B"], key, cpu) = CbDigest(im, im.st["B"], key, cpu)
    BY <2>0, SameDigest
  <2>4. /\ b.ok = TRUE /\ Frame(b.img, x.img, {"B"}) /\ ImageShaped(b.img)
        /\ ~Has(x.img, "B") \/ Has(x.img, "X") => b.img = x.img
        /\ Has(x.img, "B") /\ ~Has(x.img, "X") =>
             /\ Under(b.img.st["B"], KeyB(x.img, cpu)) /\ b.img.st["B"].key = KeyB(x.img, cpu)
             /\ b.img.st["B"].nonce = x.img.st["B"].nonce /\ Kin(b.img.st["B"], x.img.st["B"])
             /\ b.img.st["B"].mac = IF x.img.mfg \/ cpu = "zero" THEN <<>>
                                    ELSE CbDigest(x.img, x.img.st["B"], KeyB(x.img, cpu), cpu)
    <3>1. Has(x.img, "B") /\ ~Has(x.img, "X")
            => Plain(x.img.st["B"]) /\ x.img.st["A"].key = KeyA(x.img)
      BY <1>0, <2>0, <2>1, <2>2
    <3>. QED BY <1>2, <2>1, <3>1, CbBStep DEF b
  <2>5. ~Has(im, "X") => MacSealed(im, "B", cpu, single)
                           = IF im.mfg \/ cpu = "zero" THEN <<>>
                             ELSE CbDigest(im, im.st["B"], KeyB(im, cpu), cpu)
    BY DEF MacSealed
  <2>. QED BY <2>0, <2>2, <2>3, <2>4, <2>5
<1>. HIDE DEF b
<1>5. /\ Frame(b.img, im, {"A", "X", "B"}) /\ b.img.st["A"] = a.img.st["A"]
      /\ Has(im, "X") => b.img.st["X"] = x.img.st["X"] /\ b.img.st["B"] = x.img.st["B"]
  BY <1>0, <1>3, <1>4 DEF Frame, ImageShaped
<1>6. /\ c.ok = TRUE /\ Frame(c.img, b.img, {"SC"}) /\ ImageShaped(c.img)
      /\ ~im.sb => c.img = b.img
      /\ im.sb => /\ Under(c.img.st["SC"], KeySc(c.img)) /\ c.img.st["SC"].key = KeySc(c.img)
                  /\ c.img.st["SC"].nonce = NonceSealed(im, "SC", draw)
                  /\ c.img.st["SC"].nonce # ZeroNonce /\ Kin(c.img.st["SC"], im.st["SC"])
                  /\ c.img.st["SC"].mac = im.st["SC"].mac
  <2>1. b.img.sb = im.sb /\ (im.sb => b.img.st["SC"] = im.st["SC"])
    BY <1>5 DEF Frame, ImageShaped, Has
  <2>. HIDE DEF c
  <2>2. im.sb => NonceSealed(im, "SC", draw) = NonceOf(im.st["SC"], "SC", draw)
    BY <1>0 DEF NonceSealed
  <2>3. /\ c.ok = TRUE /\ Frame(c.img, b.img, {"SC"}) /\ ImageShaped(c.img)
        /\ ~b.img.sb => c.img = b.img
        /\ b.img.sb => /\ Under(c.img.st["SC"], KeySc(c.img)) /\ c.img.st["SC"].key = KeySc(c.img)
                       /\ c.img.st["SC"].nonce = NonceOf(b.img.st["SC"], "SC", draw)
                       /\ c.img.st["SC"].nonce # ZeroNonce /\ Kin(c.img.st["SC"], b.img.st["SC"])
                       /\ c.img.st["SC"].mac = b.img.st["SC"].mac
    BY <1>0, <1>4, <2>1, ScStep DEF c
  <2>. QED BY <2>1, <2>2, <2>3
<1>. HIDE DEF c
<1>7. /\ Frame(c.img, im, {"A", "X", "B", "SC"}) /\ c.img.st["A"] = a.img.st["A"]
      /\ Has(im, "X") => c.img.st["X"] = x.img.st["X"]
      /\ Has(im, "B") => c.img.st["B"] = b.img.st["B"]
      /\ c.img.st["CD"] = im.st["CD"]
  BY <1>0, <1>5, <1>6 DEF Frame, ImageShaped, Has
<1> DEFINE parent == IF c.img.sb THEN c.img.st["SC"].key
                     ELSE IF Has(c.img, "B") THEN c.img.st["B"].key ELSE c.img.st["A"].key
           keyCd(nonce) == CdKey(parent, nonce, needs(c.img), cpu)
<1>8. /\ IsNonce(parent)
      /\ ~im.sb => KeyCd(im, cpu) = keyCd(im.st["CD"].nonce)
      /\ Has(c.img, "B") <=> Has(im, "B")
      /\ c.img.sb = im.sb
  <2>1. (Has(c.img, "B") <=> Has(im, "B")) /\ c.img.sb = im.sb /\ c.img.newCb = im.newCb
    BY <1>7 DEF Frame, Has
  <2>2. CASE im.sb
    <3>1. Has(c.img, "SC") /\ IsNonce(c.img.st["SC"].nonce)
      BY <1>6, <2>1, <2>2 DEF ImageShaped, Has
    <3>. QED BY <1>6, <2>1, <2>2, <3>1, KeysHold, TupleNonces, NonceConcat DEF KeySc, ZeroSecret
  <2>3. CASE ~im.sb /\ Has(im, "B")
    <3>1. c.img.st["B"].key = HandOff(im, cpu)
      BY <1>2, <1>4, <1>7, <2>3 DEF HandOff
    <3>2. needs(c.img) = FALSE BY <2>1, <2>3 DEF CdNeedsCpuKey
    <3>. QED BY <1>0, <2>1, <2>3, <3>1, <3>2 DEF KeyCd
  <2>4. CASE ~im.sb /\ ~Has(im, "B")
    <3>1. parent = KeyA(im) BY <1>1, <1>7, <2>1, <2>4
    <3>2. \/ c.img.st["A"].mac = im.st["A"].mac
          \/ c.img.st["A"].mac # <<>> /\ CdNeedsCpuKey(im)
      <4>1. CASE single
        <5>1. IsNonce(c.img.st["A"].mac)
          BY <1>0, <1>1, <1>7, <4>1, DigestHolds DEF MacSealed
        <5>. QED BY <2>4, <4>1, <5>1 DEF IsNonce
      <4>2. CASE ~single BY <1>1, <1>7, <4>2 DEF MacSealed
      <4>. QED BY <4>1, <4>2
    <3>3. needs(c.img) <=> RequiresCpuKey(im)
      <4>1. c.img.st["A"].pair = im.st["A"].pair BY <1>1, <1>7 DEF Kin
      <4>2. needs(c.img) <=> needs(im)
        BY <1>6, <2>1, <3>2, <4>1, SameNeed
      <4>. QED BY <2>4, <4>2 DEF CdNeedsCpuKey
    <3>4. \A nonce : CdKey(KeyA(im), nonce, needs(c.img), cpu)
                       = CdKey(KeyA(im), nonce, RequiresCpuKey(im), cpu)
      BY <3>3 DEF CdKey
    <3>. HIDE DEF needs
    <3>. QED BY <1>0, <2>1, <2>4, <3>1, <3>4 DEF KeyCd
  <2>. QED BY <2>1, <2>2, <2>3, <2>4
<1> HIDE DEF parent
<1> DEFINE cd == d.img.st["CD"]
<1>9. /\ d.ok = TRUE /\ Frame(d.img, c.img, {"CD"}) /\ ImageShaped(d.img)
      /\ Under(cd, keyCd(cd.nonce)) /\ cd.nonce = NonceSealed(im, "CD", draw)
      /\ Plain(im.st["CD"]) => cd.nonce # ZeroNonce /\ cd.key = keyCd(cd.nonce)
      /\ ~Plain(im.st["CD"]) => cd = im.st["CD"]
      /\ cd.mac = im.st["CD"].mac /\ Kin(cd, im.st["CD"])
  <2>1. Plain(im.st["CD"]) \/ Under(im.st["CD"], keyCd(im.st["CD"].nonce))
    BY <1>0, <1>8 DEF Ready
  <2>2. /\ d.ok = TRUE /\ Frame(d.img, c.img, {"CD"}) /\ ImageShaped(d.img)
        /\ Under(cd, keyCd(cd.nonce)) /\ cd.nonce = NonceSealed(im, "CD", draw)
        /\ Plain(im.st["CD"]) => cd.nonce # ZeroNonce /\ cd.key = keyCd(cd.nonce)
        /\ cd.mac = im.st["CD"].mac /\ Kin(cd, im.st["CD"])
    <3>. HIDE DEF d, keyCd
    <3> DEFINE s == c.img.st["CD"]
    <3>1. parent = IF c.img.sb THEN c.img.st["SC"].key
                   ELSE IF Has(c.img, "B") THEN c.img.st["B"].key ELSE c.img.st["A"].key
      BY DEF parent
    <3>2. \A nonce : keyCd(nonce) = CdKey(parent, nonce, CdNeedsCpuKey(c.img), cpu)
      BY DEF keyCd, needs
    <3>3. /\ d.ok = TRUE /\ Frame(d.img, c.img, {"CD"}) /\ ImageShaped(d.img)
          /\ Under(cd, CdKey(parent, cd.nonce, CdNeedsCpuKey(c.img), cpu))
          /\ cd.nonce = IF Plain(s) THEN NonceOf(s, "CD", draw) ELSE s.nonce
          /\ Plain(s) => /\ cd.nonce # ZeroNonce
                         /\ cd.key = CdKey(parent, cd.nonce, CdNeedsCpuKey(c.img), cpu)
          /\ cd.mac = s.mac /\ Kin(cd, s)
      <4>1. Plain(s) \/ Under(s, CdKey(parent, s.nonce, CdNeedsCpuKey(c.img), cpu))
        BY <1>7, <2>1, <3>2
      <4>2. ImageShaped(c.img) /\ IsNonce(parent) BY <1>6, <1>8
      <4>3. CdDone(d, c.img, parent, cpu, draw)
        BY <3>1, <4>1, <4>2, CdStep DEF d, s
      <4>. HIDE DEF s, d
      <4>. QED BY <4>3 DEF CdDone, s
    <3>4. NonceSealed(im, "CD", draw) = IF Plain(im.st["CD"]) THEN NonceOf(im.st["CD"], "CD", draw)
                                        ELSE im.st["CD"].nonce
      BY DEF NonceSealed
    <3>. QED BY <1>7, <3>2, <3>3, <3>4
  <2>3. ASSUME ~Plain(im.st["CD"]) PROVE cd = im.st["CD"]
    <3>1. im.st["CD"].dec = FALSE /\ c.img.st["CD"] = im.st["CD"]
      BY <1>7, <2>1, <2>3 DEF Under
    <3>2. d = Ok(c.img) BY <3>1 DEF CdSealed, Nonced
    <3>. QED BY <3>1, <3>2 DEF Ok
  <2>. QED BY <2>2, <2>3
<1>. HIDE DEF d
<1>10. /\ Frame(d.img, im, Chain \ {"CE"}) /\ d.img.st["A"] = a.img.st["A"]
       /\ Has(im, "X") => d.img.st["X"] = x.img.st["X"]
       /\ Has(im, "B") => d.img.st["B"] = b.img.st["B"]
       /\ Has(im, "SC") => d.img.st["SC"] = c.img.st["SC"]
       /\ Has(im, "CE") => d.img.st["CE"] = im.st["CE"]
  BY <1>0, <1>7, <1>9 DEF Frame, ImageShaped, Has, Chain
<1> DEFINE ce == e.img.st["CE"]
<1>11. /\ e.ok \in BOOLEAN /\ (Plain(im.st["CD"]) => e.ok = TRUE)
       /\ Frame(e.img, d.img, {"CE"}) /\ ImageShaped(e.img)
       /\ e.ok = TRUE /\ Has(im, "CE") =>
            /\ Under(ce, keyCd(cd.nonce) \o ce.nonce) /\ ce.nonce = NonceSealed(im, "CE", draw)
            /\ ce.mac = im.st["CE"].mac /\ Kin(ce, im.st["CE"])
  <2>1. IsNonce(keyCd(cd.nonce))
    <3>1. IsNonce(cd.nonce) BY <1>9 DEF ImageShaped
    <3>. QED BY <1>8, <3>1, KeysHold
  <2>2. (Has(d.img, "CE") <=> Has(im, "CE")) BY <1>10 DEF Frame, Has
  <2>3. Plain(im.st["CD"]) => cd.key = keyCd(cd.nonce) /\ cd.key # NoKey
    BY <1>9, <2>1, NonceNotNoKey
  <2>4. ~Plain(im.st["CD"]) => cd.key = NoKey
    BY <1>9 DEF Ready
  <2>5. ASSUME Has(im, "CE"), ~Plain(im.st["CE"])
        PROVE  Under(im.st["CE"], keyCd(cd.nonce) \o im.st["CE"].nonce)
    <3>1. ~im.sb /\ Under(im.st["CE"], KeyCe(im, cpu)) /\ im.st["CD"].nonce # ZeroNonce
      BY <1>0, <2>5 DEF Ready
    <3>2. cd.nonce = im.st["CD"].nonce
      BY <1>9, <3>1 DEF NonceSealed, NonceOf
    <3>. QED BY <1>8, <3>1, <3>2 DEF KeyCe
  <2>6. Has(d.img, "CE") =>
          \/ Plain(d.img.st["CE"]) /\ d.img.st["CD"].key \in {NoKey, keyCd(cd.nonce)}
          \/ Under(d.img.st["CE"], keyCd(cd.nonce) \o d.img.st["CE"].nonce)
    BY <1>10, <2>2, <2>3, <2>4, <2>5
  <2>. HIDE DEF keyCd
  <2>7. /\ Frame(e.img, d.img, {"CE"}) /\ ImageShaped(e.img)
        /\ e.ok = TRUE \/ (e.ok = FALSE /\ cd.key = NoKey)
        /\ e.ok = TRUE /\ Has(d.img, "CE") =>
             /\ Under(ce, keyCd(cd.nonce) \o ce.nonce)
             /\ ce.nonce = IF Plain(d.img.st["CE"]) THEN NonceOf(d.img.st["CE"], "CE", draw)
                           ELSE d.img.st["CE"].nonce
             /\ ce.mac = d.img.st["CE"].mac /\ Kin(ce, d.img.st["CE"])
    BY <1>9, <2>1, <2>6, CeStep
  <2>. QED BY <1>10, <2>2, <2>3, <2>7 DEF NonceSealed
<1>. HIDE DEF e
<1>12. r = e
  BY <1>1, <1>2, <1>4, <1>6, <1>9 DEF ChainSealed, Then, a, x, b, c, d, e
<1>. HIDE DEF r
<1>13. ASSUME e.ok = TRUE
       PROVE  /\ Frame(e.img, im, Chain) /\ ImageShaped(e.img) /\ ChainClosed(e.img, cpu)
              /\ \A k \in Chain \cap DOMAIN im.st :
                   /\ e.img.st[k].nonce = NonceSealed(im, k, draw) /\ Kin(e.img.st[k], im.st[k])
                   /\ e.img.st[k].mac = MacSealed(im, k, cpu, single)
  <2> DEFINE m == e.img
  <2>1. /\ Frame(m, im, Chain) /\ ImageShaped(m) /\ m.st["A"] = a.img.st["A"]
        /\ Has(im, "X") => m.st["X"] = x.img.st["X"]
        /\ Has(im, "B") => m.st["B"] = b.img.st["B"]
        /\ Has(im, "SC") => m.st["SC"] = c.img.st["SC"]
        /\ m.st["CD"] = cd
    BY <1>0, <1>10, <1>11 DEF Frame, ImageShaped, Has, Chain
  <2>. HIDE DEF m
  <2>2. \A k \in {"X", "B", "SC", "CE"} : Has(m, k) <=> Has(im, k)
    BY <2>1 DEF Frame, Has
  <2>3. m.sb = im.sb /\ KeyA(m) = KeyA(im)
    BY <1>1, <2>1 DEF Frame, KeyA
  <2>4. Has(im, "X") => KeyX(m) = KeyX(im) /\ Has(im, "B")
    BY <1>0, <1>2, <2>1, <2>3, SameKeys DEF Frame, KeyX
  <2>5. Has(im, "B") /\ ~Has(im, "X") => KeyB(m, cpu) = KeyB(im, cpu)
    BY <1>4, <2>1, <2>3, SameKeys DEF Frame, KeyB
  <2>6. im.sb => KeySc(m) = KeySc(c.img) /\ Has(im, "SC")
    BY <2>1 DEF KeySc, ImageShaped, Has
  <2>7. Has(im, "SC") /\ ~im.sb => m.st["SC"] = im.st["SC"]
    BY <1>5, <1>6, <2>1 DEF Frame, Has
  <2>8. keyCd(cd.nonce) = KeyCd(m, cpu)
    <3>1. c.img.sb = im.sb /\ (Has(c.img, "B") <=> Has(im, "B")) BY <1>8
    <3>2. CASE im.sb
      <4>1. parent = KeySc(m) BY <1>6, <2>6, <3>1, <3>2 DEF parent
      <4>2. needs(c.img) = FALSE BY <3>1, <3>2 DEF CdNeedsCpuKey
      <4>. QED BY <2>1, <2>3, <3>2, <4>1, <4>2 DEF KeyCd
    <3>3. CASE ~im.sb /\ Has(im, "B")
      <4>1. parent = m.st["B"].key BY <1>7, <2>1, <3>1, <3>3 DEF parent
      <4>2. m.st["B"].key = HandOff(m, cpu)
        BY <1>2, <1>4, <2>1, <2>2, <2>5, <3>3 DEF HandOff
      <4>3. needs(c.img) = FALSE BY <3>1, <3>3 DEF CdNeedsCpuKey
      <4>. QED BY <2>1, <2>2, <2>3, <3>3, <4>1, <4>2, <4>3 DEF KeyCd
    <3>4. CASE ~im.sb /\ ~Has(im, "B")
      <4>1. parent = KeyA(m) BY <1>1, <1>7, <2>3, <3>1, <3>4 DEF parent
      <4>2. needs(c.img) <=> RequiresCpuKey(m)
        BY <1>7, <2>1, <3>1, <3>4 DEF CdNeedsCpuKey, RequiresCpuKey, StatesConsole, Frame
      <4>3. keyCd(cd.nonce) = CdKey(KeyA(m), cd.nonce, RequiresCpuKey(m), cpu)
        BY <4>1, <4>2 DEF CdKey
      <4>. QED BY <2>1, <2>2, <2>3, <3>4, <4>3 DEF KeyCd
    <3>. QED BY <3>2, <3>3, <3>4
  <2>. HIDE DEF keyCd
  <2>9. ChainClosed(m, cpu)
    <3>1. Under(m.st["A"], KeyA(m)) BY <1>1, <2>1, <2>3
    <3>2. Has(m, "X") => /\ Under(m.st["X"], KeyX(m))
                         /\ Plain(m.st["B"]) /\ m.st["B"].key \in {NoKey, m.st["B"].nonce}
      BY <1>2, <1>4, <2>1, <2>2, <2>4
    <3>3. Has(m, "B") /\ ~Has(m, "X") => Under(m.st["B"], KeyB(m, cpu))
      BY <1>4, <2>1, <2>2, <2>5
    <3>4. m.sb => Under(m.st["SC"], KeySc(m)) /\ m.st["SC"].nonce # ZeroNonce
      BY <1>6, <2>1, <2>3, <2>6
    <3>5. ScKept(m)
      BY <2>2, <2>3, <2>7 DEF Ready, ScKept, KeySc
    <3>6. Under(m.st["CD"], KeyCd(m, cpu)) BY <1>9, <2>1, <2>8
    <3>7. Has(m, "CE") => Under(m.st["CE"], KeyCe(m, cpu))
      BY <1>11, <1>13, <2>2, <2>8 DEF KeyCe, m
    <3>. QED BY <3>1, <3>2, <3>3, <3>4, <3>5, <3>6, <3>7 DEF ChainClosed
  <2>10. ASSUME NEW k \in Chain \cap DOMAIN im.st
         PROVE  /\ m.st[k].nonce = NonceSealed(im, k, draw) /\ Kin(m.st[k], im.st[k])
                /\ m.st[k].mac = MacSealed(im, k, cpu, single)
    <3>1. CASE k = "A" BY <1>1, <2>1, <3>1 DEF NonceSealed
    <3>2. CASE k = "X"
      <4>1. Has(im, "X") BY <3>2 DEF Has
      <4>. QED BY <1>2, <2>1, <3>2, <4>1 DEF NonceSealed, MacSealed
    <3>3. CASE k = "B"
      <4>1. Has(im, "B") BY <3>3 DEF Has
      <4>2. CASE Has(im, "X")
        BY <1>2, <1>4, <2>1, <3>3, <4>1, <4>2 DEF NonceSealed, MacSealed, HandOff
      <4>3. CASE ~Has(im, "X")
        BY <1>4, <2>1, <3>3, <4>1, <4>3 DEF NonceSealed
      <4>. QED BY <4>2, <4>3
    <3>4. CASE k = "SC"
      <4>1. Has(im, "SC") BY <3>4 DEF Has
      <4>2. CASE im.sb BY <1>6, <2>1, <3>4, <4>1, <4>2 DEF MacSealed
      <4>3. CASE ~im.sb BY <2>7, <3>4, <4>1, <4>3 DEF MacSealed, NonceSealed, Kin
      <4>. QED BY <4>2, <4>3
    <3>5. CASE k = "CD" BY <1>9, <2>1, <3>5 DEF MacSealed
    <3>6. CASE k = "CE"
      <4>1. Has(im, "CE") BY <3>6 DEF Has
      <4>. QED BY <1>11, <1>13, <3>6, <4>1 DEF MacSealed, m
    <3>. QED BY <3>1, <3>2, <3>3, <3>4, <3>5, <3>6 DEF Chain
  <2>. QED BY <2>1, <2>9, <2>10 DEF m
<1>. QED BY <1>11, <1>12, <1>13 DEF r, ChainDone

-----------------------------------------------------------------------------
(* The update slots and the second chain.                                  *)

ExtraCbDone(r, im, cpu, extra) ==
  LET m == r.img
      s == im.st["EA"]
      t == m.st["EA"]
      key == OneBl \o s.nonce
  IN  /\ r.ok = TRUE /\ Frame(m, im, {"EA"}) /\ ImageShaped(m)
      /\ ~extra => m = im
      /\ extra => /\ Under(t, key) /\ t.key = key /\ t.nonce = s.nonce /\ Kin(t, s)
                  /\ t.mac = CbDigest(im, s, key, cpu)

\* seal_jtag_extra on the second CB.
LEMMA ExtraCbStep ==
  ASSUME NEW im, ImageShaped(im), NEW cpu, NEW extra \in BOOLEAN,
         extra => Has(im, "EA") /\ Plain(im.st["EA"])
  PROVE  ExtraCbDone(ExtraCbSealed(im, cpu, extra), im, cpu, extra)
<1> DEFINE r == ExtraCbSealed(im, cpu, extra)
           s == im.st["EA"]
           key == OneBl \o s.nonce
           u == [s EXCEPT !.mac = CbDigest(im, s, key, cpu)]
           t == CbCrypted(u, key)
<1>1. CASE ~extra
  <2>1. r = Ok(im) BY <1>1 DEF ExtraCbSealed
  <2>2. r.ok = TRUE /\ r.img = im BY <2>1 DEF Ok
  <2>. HIDE DEF r
  <2>3. ExtraCbDone(r, im, cpu, extra) BY <1>1, <2>2, FrameItself DEF ExtraCbDone
  <2>. QED BY <2>3 DEF r
<1>2. CASE extra
  <2>1. "EA" \in DOMAIN im.st /\ DOMAIN s = StageFields /\ IsNonce(s.nonce) /\ Plain(s)
    BY <1>2 DEF ImageShaped, Has
  <2>2. r = Ok(WithStage(im, "EA", t))
    BY <1>2 DEF ExtraCbSealed, BoundAndSealed
  <2>3. /\ DOMAIN u = StageFields /\ Plain(u) /\ u.nonce = s.nonce /\ Kin(u, s)
        /\ u.mac = CbDigest(im, s, key, cpu)
    BY <2>1 DEF Plain, StageFields, Kin
  <2>. HIDE DEF u, key
  <2>4. /\ DOMAIN t = StageFields /\ Under(t, key) /\ t.key = key /\ t.nonce = s.nonce
        /\ Kin(t, s) /\ t.mac = CbDigest(im, s, key, cpu)
    BY <2>3, CbSeals DEF Kin
  <2>. HIDE DEF t, r
  <2>5. /\ r.ok = TRUE /\ r.img.st["EA"] = t /\ Frame(r.img, im, {"EA"}) /\ ImageShaped(r.img)
    <3>. DEFINE q == Ok(WithStage(im, "EA", t))
    <3>1. /\ q.ok = TRUE /\ q.img.st["EA"] = t
          /\ Frame(q.img, im, {"EA"}) /\ ImageShaped(q.img)
      BY <2>1, <2>4, StageStep
    <3>. HIDE DEF q
    <3>2. r = q BY <2>2 DEF q
    <3>. QED BY <3>1, <3>2
  <2>6. ExtraCbDone(r, im, cpu, extra) BY <1>2, <2>4, <2>5 DEF ExtraCbDone, key
  <2>. QED BY <2>6 DEF r
<1>. QED BY <1>1, <1>2

ExtraCdDone(r, im, draw) ==
  LET m == r.img
      s == im.st["ED"]
      t == m.st["ED"]
      key == im.st["EA"].key
  IN  /\ r.ok \in BOOLEAN /\ Frame(m, im, {"ED"}) /\ ImageShaped(m)
      /\ ~Has(im, "ED") => r.ok = TRUE /\ m = im
      /\ Has(im, "ED") => t.body = s.body
      /\ Has(im, "ED") /\ r.ok = TRUE =>
           /\ Has(im, "EA") /\ Under(t, key \o t.nonce) /\ t.nonce = NonceOf(s, "ED", draw)
           /\ t.mac = s.mac /\ Kin(t, s)

\* seal_jtag_extra on the second CD.
LEMMA ExtraCdStep ==
  ASSUME NEW im, ImageShaped(im), NEW draw, Has(im, "ED") => Plain(im.st["ED"])
  PROVE  ExtraCdDone(ExtraCdSealed(im, draw), im, draw)
<1> DEFINE r == ExtraCdSealed(im, draw)
           s == im.st["ED"]
           n == Nonced(s, FreshNonce("ED", draw))
           k == im.st["EA"].key \o n.nonce
           t == Keyed(Sealed(n, k), k)
<1>1. CASE ~Has(im, "ED")
  <2>1. r = Ok(im) BY <1>1 DEF ExtraCdSealed
  <2>2. r.ok = TRUE /\ r.img = im BY <2>1 DEF Ok
  <2>. HIDE DEF r
  <2>3. ExtraCdDone(r, im, draw) BY <1>1, <2>2, FrameItself DEF ExtraCdDone
  <2>. QED BY <2>3 DEF r
<1>2. CASE Has(im, "ED")
  <2>0. "ED" \in DOMAIN im.st /\ DOMAIN s = StageFields /\ IsNonce(s.nonce) /\ Plain(s)
    BY <1>2 DEF ImageShaped, Has
  <2>1. /\ DOMAIN n = StageFields /\ Plain(n) /\ n.nonce = NonceOf(s, "ED", draw)
        /\ n.mac = s.mac /\ Kin(n, s) /\ IsNonce(n.nonce)
    BY <2>0, NoncedStage
  <2>2. \/ r = Failed(im)
        \/ r = Ok(WithStage(im, "ED", t)) /\ Has(im, "EA")
    BY <1>2, <2>1 DEF ExtraCdSealed, Plain
  <2>. HIDE DEF n
  <2>3. /\ DOMAIN t = StageFields /\ Under(t, k) /\ t.nonce = n.nonce
        /\ t.mac = s.mac /\ Kin(t, s)
    BY <2>1, StageKeySeals DEF Kin
  <2>. HIDE DEF t, r
  <2>4. CASE r = Failed(im)
    <3>1. r.ok = FALSE /\ r.img = im BY <2>4 DEF Failed
    <3>2. ExtraCdDone(r, im, draw) BY <1>2, <3>1, FrameItself DEF ExtraCdDone
    <3>. QED BY <3>2 DEF r
  <2>5. CASE r = Ok(WithStage(im, "ED", t)) /\ Has(im, "EA")
    <3>. DEFINE q == Ok(WithStage(im, "ED", t))
    <3>1. /\ q.ok = TRUE /\ q.img.st["ED"] = t
          /\ Frame(q.img, im, {"ED"}) /\ ImageShaped(q.img)
      BY <2>0, <2>1, <2>3, StageStep
    <3>. HIDE DEF q
    <3>2. r = q BY <2>5 DEF q
    <3>3. ExtraCdDone(r, im, draw)
      BY <1>2, <2>1, <2>3, <2>5, <3>1, <3>2 DEF ExtraCdDone, Kin
    <3>. QED BY <3>3 DEF r
  <2>. QED BY <2>2, <2>4, <2>5
<1>. QED BY <1>1, <1>2

\* What a CF keeps whatever table it is given.
KinCf(s, t) == s.nonce = t.nonce /\ s.pair = t.pair /\ s.mac = t.mac /\ s.body = t.body

CgDone(r, im, f, draw) ==
  LET m == r.img
      g == CgOf(f)
  IN  /\ r.ok \in BOOLEAN /\ Frame(m, im, {f, g}) /\ ImageShaped(m)
      /\ \A h \in CFs \ {f} : h \in m.tails <=> h \in im.tails
      /\ ~Has(im, g) => r.ok = TRUE /\ m = im
      /\ Has(im, g) =>
           /\ Plain(m.st[f]) /\ KinCf(m.st[f], im.st[f])
           /\ Under(m.st[g], SlotKey(m, g)) /\ m.st[g].nonce = NonceOf(im.st[g], g, draw)
           /\ m.st[g].mac = im.st[g].mac /\ Kin(m.st[g], im.st[g])
           /\ r.ok = TRUE =>
                /\ m.st[f].table = IF g \in im.spills THEN "tail" ELSE "none"
                /\ f \in m.tails <=> g \in im.spills

\* prepare_cg_tail: the CG sealed and its tail laid, or, without room, left as it was.
LEMMA CgStep ==
  ASSUME NEW im, ImageShaped(im), NEW f \in CFs, NEW draw,
         \A k \in {f, CgOf(f)} \cap DOMAIN im.st : Plain(im.st[k])
  PROVE  CgDone(CgPrepared(im, f, draw), im, f, draw)
<1> DEFINE r == CgPrepared(im, f, draw)
           g == CgOf(f)
           s == im.st[f]
           n == Nonced(im.st[g], FreshNonce(g, draw))
           k == <<f, "7bl">> \o n.nonce
           g1 == Sealed(n, k)
           table == IF g \in im.spills THEN "tail" ELSE "none"
           t == [s EXCEPT !.table = table]
           tails == IF g \in im.spills /\ im.room THEN im.tails \cup {f} ELSE im.tails \ {f}
           begun == [im EXCEPT !.st[f] = s, !.st[g] = g1, !.tails = tails]
           done == WithStage(begun, f, t)
<1>0. f # g /\ g \in CGs BY DEF CFs, CGs, CgOf
<1>1. CASE ~Has(im, g)
  <2>1. r = Ok(im) BY <1>1 DEF CgPrepared
  <2>2. r.ok = TRUE /\ r.img = im BY <2>1 DEF Ok
  <2>. HIDE DEF r
  <2>3. CgDone(r, im, f, draw) BY <1>1, <2>2, FrameItself DEF CgDone
  <2>. QED BY <2>3 DEF r
<1>2. CASE Has(im, g)
  <2>1. /\ {f, g} \subseteq DOMAIN im.st /\ DOMAIN s = StageFields /\ IsNonce(s.nonce) /\ Plain(s)
        /\ DOMAIN im.st[g] = StageFields /\ IsNonce(im.st[g].nonce) /\ Plain(im.st[g])
    <3>1. {f, g} \subseteq DOMAIN im.st BY <1>2 DEF ImageShaped, Has
    <3>. QED BY <3>1 DEF ImageShaped
  <2>2. /\ DOMAIN n = StageFields /\ Plain(n) /\ n.nonce = NonceOf(im.st[g], g, draw)
        /\ n.mac = im.st[g].mac /\ Kin(n, im.st[g]) /\ IsNonce(n.nonce)
    BY <2>1, NoncedStage
  <2>3. OpenedCf(s) = s /\ CgKey(f, s) = <<f, "7bl">>
    BY <2>1 DEF OpenedCf, Opened, CgKey, Plain
  <2>4. r = IF g \in im.spills /\ ~im.room THEN Failed(begun) ELSE Ok(done)
    <3> DEFINE f1 == IF im.st[g].dec THEN OpenedCf(im.st[f]) ELSE im.st[f]
               h1 == Sealed(n, CgKey(f, f1) \o n.nonce)
               e1 == [im EXCEPT !.st[f] = f1, !.st[g] = h1, !.tails = tails]
               t1 == [OpenedCf(f1) EXCEPT !.table = table]
    <3>1. Has(im, f) /\ im.st[g].dec BY <2>1 DEF Has, Plain
    <3>2. r = IF g \in im.spills /\ ~im.room THEN Failed(e1) ELSE Ok(WithStage(e1, f, t1))
      BY <1>2, <3>1 DEF CgPrepared
    <3>. HIDE DEF r, n, tails, table
    <3>3. f1 = s BY <2>3, <3>1
    <3>. HIDE DEF f1
    <3>4. h1 = g1 BY <2>3, <3>3
    <3>5. t1 = t BY <2>3, <3>3
    <3>. HIDE DEF g1, h1, t, t1
    <3>6. e1 = begun BY <3>3, <3>4
    <3>. HIDE DEF e1, begun
    <3>. QED BY <3>2, <3>5, <3>6
  <2>. HIDE DEF n
  <2>5. /\ DOMAIN g1 = StageFields /\ Under(g1, k) /\ g1.nonce = n.nonce
        /\ g1.mac = im.st[g].mac /\ Kin(g1, im.st[g])
    BY <2>2, StageSeals DEF Kin
  <2>6. /\ DOMAIN t = StageFields /\ Plain(t) /\ KinCf(t, s) /\ t.table = table /\ IsNonce(t.nonce)
    BY <2>1 DEF Plain, KinCf, StageFields
  <2>. HIDE DEF g1, t, r
  <2>7. /\ begun.st[f] = s /\ begun.st[g] = g1 /\ begun.tails = tails
        /\ Frame(begun, im, {f, g})
    BY <1>0, <2>1, <2>5 DEF Frame, ImageShaped, ImageFields
  <2>. HIDE DEF begun
  <2>8. ImageShaped(begun)
    <3>1. \A j \in {f, g} \cap DOMAIN im.st : IsNonce(begun.st[j].nonce)
      BY <2>1, <2>2, <2>5, <2>7
    <3>. QED BY <2>7, <3>1, FrameShaped
  <2>9. /\ done.st[f] = t /\ done.st[g] = g1 /\ done.tails = tails
        /\ Frame(done, im, {f, g})
    BY <1>0, <2>1, <2>6, <2>7, <2>8 DEF Frame, WithStage, ImageShaped, ImageFields
  <2>10. ImageShaped(done)
    BY <1>0, <2>1, <2>2, <2>5, <2>6, <2>9, FrameShaped
  <2>. HIDE DEF done
  <2>11. \A m : m.st[g] = g1 => SlotKey(m, g) = k
    BY <1>0, <2>5 DEF SlotKey, CFs, CGs, CgOf
  <2>12. CASE g \in im.spills /\ ~im.room
    <3>1. r.ok = FALSE /\ r.img = begun BY <2>4, <2>12 DEF Failed
    <3>2. CgDone(r, im, f, draw)
      BY <1>2, <2>1, <2>2, <2>5, <2>7, <2>8, <2>11, <3>1 DEF CgDone, KinCf
    <3>. QED BY <3>2 DEF r
  <2>13. CASE ~(g \in im.spills /\ ~im.room)
    <3>1. r.ok = TRUE /\ r.img = done BY <2>4, <2>13 DEF Ok
    <3>2. CgDone(r, im, f, draw)
      BY <1>2, <2>2, <2>5, <2>6, <2>9, <2>10, <2>11, <2>13, <3>1 DEF CgDone
    <3>. QED BY <3>2 DEF r
  <2>. QED BY <2>12, <2>13
<1>. QED BY <1>1, <1>2

CfDone(r, im, f, cpu, type) ==
  LET m == r.img
  IN  /\ r.ok = TRUE /\ Frame(m, im, {f}) /\ ImageShaped(m) /\ m.tails = im.tails
      /\ Has(im, f) =>
           /\ Under(m.st[f], SlotKey(m, f)) /\ m.st[f].nonce = im.st[f].nonce
           /\ Kin(m.st[f], im.st[f])
           /\ m.st[f].mac = IF BindsConsole(type, f) THEN CfMac(f, im.st[f], cpu) ELSE im.st[f].mac

\* bind_cf and bind_and_seal_cf: the CF states the tail, its MAC is taken, and it is sealed.
LEMMA CfStep ==
  ASSUME NEW im, ImageShaped(im), NEW f \in CFs, NEW cpu, NEW type,
         Has(im, f) => Plain(im.st[f])
  PROVE  CfDone(CfBoundAndSealed(im, f, cpu, type), im, f, cpu, type)
<1> DEFINE r == CfBoundAndSealed(im, f, cpu, type)
           s == im.st[f]
           mac == IF BindsConsole(type, f) THEN CfMac(f, s, cpu) ELSE s.mac
           u == IF BindsConsole(type, f) THEN [s EXCEPT !.mac = CfMac(f, s, cpu)] ELSE s
           k == OneBl \o s.nonce
           t == Sealed(u, k)
<1>1. CASE ~Has(im, f)
  <2>1. r = Ok(im) BY <1>1 DEF CfBoundAndSealed
  <2>2. r.ok = TRUE /\ r.img = im BY <2>1 DEF Ok
  <2>. HIDE DEF r
  <2>3. CfDone(r, im, f, cpu, type) BY <1>1, <2>2, FrameItself DEF CfDone
  <2>. QED BY <2>3 DEF r
<1>2. CASE Has(im, f)
  <2>1. f \in DOMAIN im.st /\ DOMAIN s = StageFields /\ IsNonce(s.nonce) /\ Plain(s)
    BY <1>2 DEF ImageShaped, Has
  <2>2. r = Ok(WithStage(im, f, t))
    BY <1>2, <2>1 DEF CfBoundAndSealed, IsDecryptedCf, Plain
  <2>3. /\ DOMAIN u = StageFields /\ Plain(u) /\ u.nonce = s.nonce /\ Kin(u, s) /\ u.mac = mac
    BY <2>1 DEF Plain, StageFields, Kin
  <2>. HIDE DEF u, k, mac
  <2>4. /\ DOMAIN t = StageFields /\ Under(t, k) /\ t.nonce = s.nonce
        /\ Kin(t, s) /\ t.mac = mac
    BY <2>3, StageSeals DEF Kin
  <2>. HIDE DEF t, r
  <2>5. /\ r.ok = TRUE /\ r.img.st[f] = t /\ Frame(r.img, im, {f}) /\ ImageShaped(r.img)
    <3>. DEFINE q == Ok(WithStage(im, f, t))
    <3>1. /\ q.ok = TRUE /\ q.img.st[f] = t
          /\ Frame(q.img, im, {f}) /\ ImageShaped(q.img)
      BY <2>1, <2>4, StageStep
    <3>. HIDE DEF q
    <3>2. r = q BY <2>2 DEF q
    <3>. QED BY <3>1, <3>2
  <2>6. r.img.tails = im.tails
    BY <2>2 DEF Ok, WithStage, ImageShaped, ImageFields
  <2>7. SlotKey(r.img, f) = k BY <2>4, <2>5 DEF SlotKey, k
  <2>8. CfDone(r, im, f, cpu, type) BY <2>4, <2>5, <2>6, <2>7 DEF CfDone, mac
  <2>. QED BY <2>8 DEF r
<1>. QED BY <1>1, <1>2

-----------------------------------------------------------------------------
(* The slots as encrypt_all leaves them.                                   *)

Slots == {"EA", "ED", "F0", "G0", "F1", "G1"}

\* A CF and its CG once the tail is prepared.
CgText(m, im, f, draw) ==
  LET g == CgOf(f)
  IN  /\ Has(im, f) => Plain(m.st[f]) /\ KinCf(m.st[f], im.st[f])
      /\ Has(im, f) /\ ~Has(im, g) => m.st[f].table = im.st[f].table
      /\ Has(im, g) =>
           /\ Under(m.st[g], SlotKey(m, g)) /\ m.st[g].nonce = NonceOf(im.st[g], g, draw)
           /\ m.st[g].mac = im.st[g].mac /\ Kin(m.st[g], im.st[g])
           /\ m.st[f].table = IF g \in im.spills THEN "tail" ELSE "none"
           /\ f \in m.tails <=> g \in im.spills

\* The same once the CF is sealed.
CfText(m, im, f, cpu, type) ==
  Has(im, f) =>
    /\ Under(m.st[f], SlotKey(m, f)) /\ m.st[f].nonce = im.st[f].nonce
    /\ m.st[f].pair = im.st[f].pair /\ m.st[f].body = im.st[f].body
    /\ m.st[f].mac = IF BindsConsole(type, f) THEN CfMac(f, m.st[f], cpu) ELSE im.st[f].mac
    /\ m.st[f].table = IF ~Has(im, CgOf(f)) THEN im.st[f].table
                       ELSE IF CgOf(f) \in im.spills THEN "tail" ELSE "none"

CgSealedText(m, im, f, draw) ==
  LET g == CgOf(f)
  IN  Has(im, g) =>
        /\ Under(m.st[g], SlotKey(m, g)) /\ m.st[g].nonce = NonceOf(im.st[g], g, draw)
        /\ m.st[g].mac = im.st[g].mac /\ Kin(m.st[g], im.st[g])
        /\ f \in m.tails <=> g \in im.spills

ExtraText(m, im, cpu, draw) ==
  /\ Has(im, "EA") =>
       /\ Under(m.st["EA"], OneBl \o m.st["EA"].nonce) /\ m.st["EA"].nonce = im.st["EA"].nonce
       /\ Kin(m.st["EA"], im.st["EA"])
       /\ m.st["EA"].mac = CbDigest(im, im.st["EA"], OneBl \o im.st["EA"].nonce, cpu)
  /\ Has(im, "ED") =>
       /\ Has(im, "EA") /\ Under(m.st["ED"], OneBl \o m.st["EA"].nonce \o m.st["ED"].nonce)
       /\ m.st["ED"].nonce = NonceOf(im.st["ED"], "ED", draw)
       /\ m.st["ED"].mac = im.st["ED"].mac /\ Kin(m.st["ED"], im.st["ED"])

Bodies(m, im) == \A k \in DOMAIN im.st : m.st[k].body = im.st[k].body

SlotsDone(r, im, cpu, type, draw) ==
  LET m == r.img
  IN  /\ r.ok \in BOOLEAN /\ Frame(m, im, Slots) /\ ImageShaped(m)
      /\ Bodies(m, im)
      /\ r.ok # TRUE /\ ~Has(im, "ED") => SlotsEither(m)
      /\ r.ok = TRUE =>
           /\ ExtraText(m, im, cpu, draw)
           /\ \A f \in CFs : CfText(m, im, f, cpu, type) /\ CgSealedText(m, im, f, draw)

\* A step that fails half way leaves its CF and CG of one form or the other.
EitherForm(m, f) ==
  \A k \in {f, CgOf(f)} \cap DOMAIN m.st : Plain(m.st[k]) \/ Under(m.st[k], SlotKey(m, k))

\* However prepare_cg_tail ends, its CF and CG are plain or sealed under their own key.
LEMMA CgEither ==
  ASSUME NEW im, NEW r, NEW f \in CFs, NEW draw, CgDone(r, im, f, draw),
         \A k \in {f, CgOf(f)} \cap DOMAIN im.st : Plain(im.st[k])
  PROVE  EitherForm(r.img, f) /\ Bodies(r.img, im)
<1> DEFINE m == r.img
           g == CgOf(f)
<1>1. Frame(m, im, {f, g}) /\ DOMAIN m.st = DOMAIN im.st BY DEF CgDone, Frame
<1>2. CASE Has(im, g)
  <2>1. /\ Plain(m.st[f]) /\ KinCf(m.st[f], im.st[f])
        /\ Under(m.st[g], SlotKey(m, g)) /\ Kin(m.st[g], im.st[g])
    BY <1>2 DEF CgDone
  <2>2. EitherForm(m, f) BY <2>1 DEF EitherForm
  <2>3. Bodies(m, im) BY <1>1, <2>1 DEF Bodies, Frame, Kin, KinCf
  <2>. QED BY <2>2, <2>3
<1>3. CASE ~Has(im, g)
  <2>1. m = im BY <1>3 DEF CgDone
  <2>. QED BY <2>1 DEF EitherForm, Bodies
<1>. QED BY <1>2, <1>3

\* What one slot's stages are is kept by a step on others.
LEMMA EitherKept ==
  ASSUME NEW m, NEW n, NEW f \in CFs, NEW K, Frame(n, m, K), f \notin K, CgOf(f) \notin K,
         EitherForm(m, f)
  PROVE  EitherForm(n, f)
<1>1. \A k \in {f, CgOf(f)} \cap DOMAIN n.st : n.st[k] = m.st[k] /\ SlotKey(n, k) = SlotKey(m, k)
  BY DEF Frame, SlotKey
<1>. QED BY <1>1 DEF EitherForm, Frame

\* Both slots make all update stages.
LEMMA BothEither ==
  ASSUME NEW m, EitherForm(m, "F0"), EitherForm(m, "F1")
  PROVE  SlotsEither(m)
BY DEF EitherForm, SlotsEither, CFs, CGs, CgOf

\* Bodies kept twice are kept.
LEMMA BodiesChain ==
  ASSUME NEW im, NEW m, NEW n, Bodies(m, im), Bodies(n, m), DOMAIN m.st = DOMAIN im.st
  PROVE  Bodies(n, im)
BY DEF Bodies

\* What prepare_cg_tail wrote is kept by a step on other stages.
LEMMA CgTextKept ==
  ASSUME NEW im, ImageShaped(im), NEW m, NEW n, NEW f \in CFs, NEW draw, NEW K,
         DOMAIN m.st = DOMAIN im.st, CgText(m, im, f, draw), Frame(n, m, K),
         f \notin K, CgOf(f) \notin K, f \in n.tails <=> f \in m.tails
  PROVE  CgText(n, im, f, draw)
<1>1. \A k \in {f, CgOf(f)} : Has(im, k) => n.st[k] = m.st[k]
  BY DEF Frame, Has
<1>2. Has(im, CgOf(f)) => SlotKey(n, CgOf(f)) = SlotKey(m, CgOf(f)) /\ Has(im, f)
  BY <1>1 DEF SlotKey, ImageShaped, Has
<1>. QED BY <1>1, <1>2 DEF CgText

\* What prepare_cg_tail writes in an image that had its stages as first supplied.
LEMMA CgTextMade ==
  ASSUME NEW im, ImageShaped(im), NEW m, NEW r, NEW f \in CFs, NEW draw,
         CgDone(r, m, f, draw), r.ok = TRUE, DOMAIN m.st = DOMAIN im.st, m.spills = im.spills,
         \A k \in {f, CgOf(f)} \cap DOMAIN im.st : m.st[k] = im.st[k] /\ Plain(im.st[k])
  PROVE  CgText(r.img, im, f, draw)
<1> DEFINE g == CgOf(f)
<1>1. \A k \in {f, g} : Has(im, k) => Has(m, k) /\ m.st[k] = im.st[k] /\ Plain(im.st[k])
  BY DEF Has
<1>2. CASE Has(im, g)
  <2>1. Has(m, g) /\ Has(im, f) BY <1>1, <1>2 DEF ImageShaped, Has
  <2>. QED BY <1>1, <1>2, <2>1 DEF CgText, CgDone
<1>3. CASE ~Has(im, g)
  <2>1. ~Has(m, g) BY <1>3 DEF Has
  <2>2. r.img = m BY <2>1 DEF CgDone
  <2>. QED BY <1>1, <1>3, <2>2 DEF CgText, KinCf
<1>. QED BY <1>2, <1>3

\* Binding and sealing a prepared slot.
LEMMA CfTextMade ==
  ASSUME NEW im, NEW m, NEW r, NEW f \in CFs, NEW cpu, NEW type, NEW draw,
         DOMAIN m.st = DOMAIN im.st, CgText(m, im, f, draw), CfDone(r, m, f, cpu, type),
         ImageShaped(im)
  PROVE  CfText(r.img, im, f, cpu, type) /\ CgSealedText(r.img, im, f, draw)
<1> DEFINE n == r.img
           g == CgOf(f)
<1>1. Has(im, f) => Has(m, f) BY DEF Has
<1>2. Has(im, g) => n.st[g] = m.st[g] /\ SlotKey(n, g) = SlotKey(m, g)
  <2>. SUFFICES ASSUME Has(im, g) PROVE n.st[g] = m.st[g] /\ SlotKey(n, g) = SlotKey(m, g)
    OBVIOUS
  <2>1. g \in DOMAIN m.st /\ g \notin {f} BY DEF Has, CFs, CgOf
  <2>2. n.st[g] = m.st[g] BY <2>1 DEF CfDone, Frame
  <2>. QED BY <2>2 DEF SlotKey
<1>3. n.tails = m.tails BY DEF CfDone
<1>4. CgSealedText(n, im, f, draw)
  BY <1>2, <1>3 DEF CgSealedText, CgText
<1>5. CfText(n, im, f, cpu, type)
  <2>. SUFFICES ASSUME Has(im, f) PROVE CfText(n, im, f, cpu, type) BY DEF CfText
  <2>1. /\ Under(n.st[f], SlotKey(n, f)) /\ n.st[f].nonce = m.st[f].nonce
        /\ Kin(n.st[f], m.st[f])
        /\ n.st[f].mac = IF BindsConsole(type, f) THEN CfMac(f, m.st[f], cpu) ELSE m.st[f].mac
    BY <1>1 DEF CfDone
  <2>2. CfMac(f, n.st[f], cpu) = CfMac(f, m.st[f], cpu)
    BY <2>1 DEF CfMac, Kin
  <2>3. KinCf(m.st[f], im.st[f]) BY DEF CgText
  <2>4. m.st[f].table = IF ~Has(im, g) THEN im.st[f].table
                        ELSE IF g \in im.spills THEN "tail" ELSE "none"
    BY DEF CgText
  <2>. QED BY <2>1, <2>2, <2>3, <2>4 DEF CfText, Kin, KinCf
<1>. QED BY <1>4, <1>5

\* A sealed slot is kept by a step on other stages.
LEMMA CfTextKept ==
  ASSUME NEW im, NEW m, NEW n, NEW f \in CFs, NEW cpu, NEW type, NEW draw, NEW K,
         DOMAIN m.st = DOMAIN im.st, Frame(n, m, K), f \notin K, CgOf(f) \notin K,
         f \in n.tails <=> f \in m.tails,
         CfText(m, im, f, cpu, type), CgSealedText(m, im, f, draw)
  PROVE  CfText(n, im, f, cpu, type) /\ CgSealedText(n, im, f, draw)
<1>1. \A k \in {f, CgOf(f)} : Has(im, k) => n.st[k] = m.st[k] /\ SlotKey(n, k) = SlotKey(m, k)
  BY DEF Frame, Has, SlotKey
<1>. QED BY <1>1 DEF CfText, CgSealedText

\* The second chain is kept by a step on other stages.
LEMMA ExtraTextKept ==
  ASSUME NEW im, NEW m, NEW n, NEW cpu, NEW draw, NEW K,
         DOMAIN m.st = DOMAIN im.st, Frame(n, m, K), "EA" \notin K, "ED" \notin K,
         ExtraText(m, im, cpu, draw)
  PROVE  ExtraText(n, im, cpu, draw)
<1>1. \A k \in {"EA", "ED"} : Has(im, k) => n.st[k] = m.st[k]
  BY DEF Frame, Has
<1>. QED BY <1>1 DEF ExtraText

\* Second chain and both slots, one step after the other.
LEMMA SlotsStep ==
  ASSUME NEW im, ImageShaped(im), NEW cpu, NEW type, NEW draw, NEW extra \in BOOLEAN,
         extra <=> Has(im, "EA"), \A k \in Slots \cap DOMAIN im.st : Plain(im.st[k])
  PROVE  SlotsDone(SlotsSealed(im, cpu, type, extra, draw), im, cpu, type, draw)
<1> DEFINE a == ExtraCbSealed(im, cpu, extra)
           d == ExtraCdSealed(a.img, draw)
           g == CgPrepared(d.img, "F0", draw)
           h == CgPrepared(g.img, "F1", draw)
           f == CfBoundAndSealed(h.img, "F0", cpu, type)
           e == CfBoundAndSealed(f.img, "F1", cpu, type)
           r == SlotsSealed(im, cpu, type, extra, draw)
<1>0. /\ "F0" \in CFs /\ "F1" \in CFs /\ CgOf("F0") = "G0" /\ CgOf("F1") = "G1"
      /\ CFs = {"F0", "F1"} /\ CGs = {"G0", "G1"}
  BY DEF CFs, CGs, CgOf
<1>1. ExtraCbDone(a, im, cpu, extra)
  BY ExtraCbStep DEF Has, Slots
<1>. HIDE DEF a
<1>2. a.ok = TRUE /\ Frame(a.img, im, {"EA"}) /\ ImageShaped(a.img)
  BY <1>1 DEF ExtraCbDone
<1>3. ExtraCdDone(d, a.img, draw)
  <2>1. Has(a.img, "ED") => Plain(a.img.st["ED"])
    BY <1>2 DEF Frame, Has, Slots
  <2>. QED BY <1>2, <2>1, ExtraCdStep
<1>. HIDE DEF d
<1>4. d.ok \in BOOLEAN /\ Frame(d.img, im, {"EA", "ED"}) /\ ImageShaped(d.img)
  BY <1>2, <1>3, FrameChain DEF ExtraCdDone
<1>5. \A k \in {"F0", "G0", "F1", "G1"} \cap DOMAIN im.st :
        d.img.st[k] = im.st[k] /\ Plain(im.st[k])
  BY <1>4 DEF Frame, Slots
<1>6. CgDone(g, d.img, "F0", draw)
  <2>1. \A k \in {"F0", CgOf("F0")} \cap DOMAIN d.img.st : Plain(d.img.st[k])
    BY <1>0, <1>4, <1>5 DEF Frame
  <2>. QED BY <1>0, <1>4, <2>1, CgStep
<1>. HIDE DEF g
<1>7. /\ g.ok \in BOOLEAN /\ Frame(g.img, d.img, {"F0", "G0"}) /\ ImageShaped(g.img)
      /\ "F1" \in g.img.tails <=> "F1" \in d.img.tails
  BY <1>0, <1>6 DEF CgDone
<1>8. Frame(g.img, im, {"EA", "ED", "F0", "G0"})
  BY <1>4, <1>7, FrameChain
<1>9. \A k \in {"F1", "G1"} \cap DOMAIN im.st : g.img.st[k] = im.st[k] /\ Plain(im.st[k])
  BY <1>5, <1>8 DEF Frame
<1>10. CgDone(h, g.img, "F1", draw)
  <2>1. \A k \in {"F1", CgOf("F1")} \cap DOMAIN g.img.st : Plain(g.img.st[k])
    BY <1>0, <1>8, <1>9 DEF Frame
  <2>. QED BY <1>0, <1>7, <2>1, CgStep
<1>. HIDE DEF h
<1>11. /\ h.ok \in BOOLEAN /\ Frame(h.img, g.img, {"F1", "G1"}) /\ ImageShaped(h.img)
       /\ "F0" \in h.img.tails <=> "F0" \in g.img.tails
  BY <1>0, <1>10 DEF CgDone
<1>12. Frame(h.img, im, Slots)
  <2>1. {"EA", "ED", "F0", "G0"} \subseteq Slots /\ {"F1", "G1"} \subseteq Slots BY DEF Slots
  <2>. QED BY <1>8, <1>11, <2>1, FrameChain
<1>13. CfDone(f, h.img, "F0", cpu, type)
  <2>1. Has(h.img, "F0") => Plain(h.img.st["F0"])
    <3>. SUFFICES ASSUME Has(h.img, "F0") PROVE Plain(h.img.st["F0"]) OBVIOUS
    <3>1. h.img.st["F0"] = g.img.st["F0"] /\ "F0" \in DOMAIN im.st /\ Has(d.img, "F0")
      BY <1>4, <1>8, <1>11, <1>12 DEF Frame, Has
    <3>2. CASE Has(d.img, "G0") BY <1>0, <1>6, <3>1, <3>2 DEF CgDone
    <3>3. CASE ~Has(d.img, "G0")
      <4>1. g.img = d.img BY <1>0, <1>6, <3>3 DEF CgDone
      <4>. QED BY <1>5, <3>1, <4>1
    <3>. QED BY <3>2, <3>3
  <2>. QED BY <1>0, <1>11, <2>1, CfStep
<1>. HIDE DEF f
<1>14. f.ok = TRUE /\ Frame(f.img, h.img, {"F0"}) /\ ImageShaped(f.img) /\ f.img.tails = h.img.tails
  BY <1>13 DEF CfDone
<1>15. CfDone(e, f.img, "F1", cpu, type)
  <2>1. Has(f.img, "F1") => Plain(f.img.st["F1"])
    <3>. SUFFICES ASSUME Has(f.img, "F1") PROVE Plain(f.img.st["F1"]) OBVIOUS
    <3>1. f.img.st["F1"] = h.img.st["F1"] /\ "F1" \in DOMAIN im.st /\ Has(g.img, "F1")
      BY <1>8, <1>11, <1>12, <1>14 DEF Frame, Has
    <3>2. CASE Has(g.img, "G1") BY <1>0, <1>10, <3>1, <3>2 DEF CgDone
    <3>3. CASE ~Has(g.img, "G1")
      <4>1. h.img = g.img BY <1>0, <1>10, <3>3 DEF CgDone
      <4>. QED BY <1>9, <3>1, <4>1
    <3>. QED BY <3>2, <3>3
  <2>. QED BY <1>0, <1>14, <2>1, CfStep
<1>. HIDE DEF e
<1>16. e.ok = TRUE /\ Frame(e.img, f.img, {"F1"}) /\ ImageShaped(e.img) /\ e.img.tails = f.img.tails
  BY <1>15 DEF CfDone
<1>17. Frame(f.img, im, Slots) /\ Frame(e.img, im, Slots)
  <2>1. {"F0"} \subseteq Slots /\ {"F1"} \subseteq Slots BY DEF Slots
  <2>2. Frame(f.img, im, Slots) BY <1>12, <1>14, <2>1, FrameChain
  <2>. QED BY <1>16, <2>1, <2>2, FrameChain
<1>18. r = IF d.ok # TRUE THEN d ELSE IF g.ok # TRUE THEN g ELSE IF h.ok # TRUE THEN h ELSE e
  BY <1>2, <1>4, <1>7, <1>11, <1>14 DEF SlotsSealed, Then, a, d, g, h, f, e
<1>. HIDE DEF r
<1>19. Bodies(d.img, im)
  <2>1. Bodies(a.img, im)
    <3>1. "EA" \in DOMAIN im.st => a.img.st["EA"].body = im.st["EA"].body
      BY <1>1 DEF ExtraCbDone, Kin, Has
    <3>. QED BY <1>2, <3>1 DEF Bodies, Frame
  <2>2. Bodies(d.img, a.img) /\ DOMAIN a.img.st = DOMAIN im.st
    BY <1>2, <1>3 DEF ExtraCdDone, Bodies, Frame, Has
  <2>. QED BY <2>1, <2>2, BodiesChain
<1>20. EitherForm(g.img, "F0") /\ Bodies(g.img, im)
  <2>1. \A k \in {"F0", CgOf("F0")} \cap DOMAIN d.img.st : Plain(d.img.st[k])
    BY <1>0, <1>4, <1>5 DEF Frame
  <2>2. EitherForm(g.img, "F0") /\ Bodies(g.img, d.img) BY <1>0, <1>6, <2>1, CgEither
  <2>3. DOMAIN d.img.st = DOMAIN im.st BY <1>4 DEF Frame
  <2>. QED BY <1>19, <2>2, <2>3, BodiesChain
<1>21. EitherForm(h.img, "F0") /\ EitherForm(h.img, "F1") /\ Bodies(h.img, im)
  <2>1. \A k \in {"F1", CgOf("F1")} \cap DOMAIN g.img.st : Plain(g.img.st[k])
    BY <1>0, <1>8, <1>9 DEF Frame
  <2>2. EitherForm(h.img, "F1") /\ Bodies(h.img, g.img) BY <1>0, <1>10, <2>1, CgEither
  <2>3. DOMAIN g.img.st = DOMAIN im.st BY <1>8 DEF Frame
  <2>4. Bodies(h.img, im) BY <1>20, <2>2, <2>3, BodiesChain
  <2>5. EitherForm(h.img, "F0")
    <3>1. "F0" \notin {"F1", "G1"} /\ CgOf("F0") \notin {"F1", "G1"} BY <1>0
    <3>. QED BY <1>0, <1>11, <1>20, <3>1, EitherKept
  <2>. QED BY <2>2, <2>4, <2>5
<1>22. CASE d.ok # TRUE
  <2>1. Has(im, "ED") BY <1>2, <1>3, <1>22 DEF ExtraCdDone, Frame, Has
  <2>2. Frame(d.img, im, Slots) BY <1>4 DEF Frame, Slots
  <2>3. SlotsDone(d, im, cpu, type, draw)
    BY <1>4, <1>19, <1>22, <2>1, <2>2 DEF SlotsDone
  <2>. QED BY <1>18, <1>22, <2>3 DEF r
<1>23. CASE d.ok = TRUE /\ g.ok # TRUE
  <2>1. EitherForm(g.img, "F1") BY <1>0, <1>8, <1>9 DEF EitherForm, Frame
  <2>2. SlotsEither(g.img) BY <1>20, <2>1, BothEither
  <2>3. Frame(g.img, im, Slots) BY <1>8 DEF Frame, Slots
  <2>4. SlotsDone(g, im, cpu, type, draw)
    BY <1>7, <1>20, <1>23, <2>2, <2>3 DEF SlotsDone
  <2>. QED BY <1>18, <1>23, <2>4 DEF r
<1>24. CASE d.ok = TRUE /\ g.ok = TRUE /\ h.ok # TRUE
  <2>1. SlotsEither(h.img) BY <1>21, BothEither
  <2>2. SlotsDone(h, im, cpu, type, draw)
    BY <1>11, <1>12, <1>21, <1>24, <2>1 DEF SlotsDone
  <2>. QED BY <1>18, <1>24, <2>2 DEF r
<1>25. CASE d.ok = TRUE /\ g.ok = TRUE /\ h.ok = TRUE
  <2>0. /\ DOMAIN d.img.st = DOMAIN im.st /\ DOMAIN g.img.st = DOMAIN im.st
        /\ DOMAIN h.img.st = DOMAIN im.st /\ DOMAIN f.img.st = DOMAIN im.st
        /\ d.img.spills = im.spills /\ g.img.spills = im.spills
    BY <1>4, <1>8, <1>12, <1>17 DEF Frame
  <2>1. CgText(g.img, im, "F0", draw)
    BY <1>0, <1>5, <1>6, <1>25, <2>0, CgTextMade
  <2>2. CgText(h.img, im, "F0", draw)
    <3>1. "F0" \notin {"F1", "G1"} /\ CgOf("F0") \notin {"F1", "G1"} BY <1>0
    <3>. QED BY <1>0, <1>11, <2>0, <2>1, <3>1, CgTextKept
  <2>3. CgText(h.img, im, "F1", draw)
    BY <1>0, <1>9, <1>10, <1>25, <2>0, CgTextMade
  <2>4. CfText(f.img, im, "F0", cpu, type) /\ CgSealedText(f.img, im, "F0", draw)
    BY <1>0, <1>13, <2>0, <2>2, CfTextMade
  <2>5. CgText(f.img, im, "F1", draw)
    <3>1. "F1" \notin {"F0"} /\ CgOf("F1") \notin {"F0"} BY <1>0
    <3>. QED BY <1>0, <1>14, <2>0, <2>3, <3>1, CgTextKept
  <2>6. CfText(e.img, im, "F1", cpu, type) /\ CgSealedText(e.img, im, "F1", draw)
    BY <1>0, <1>15, <2>0, <2>5, CfTextMade
  <2>7. CfText(e.img, im, "F0", cpu, type) /\ CgSealedText(e.img, im, "F0", draw)
    <3>1. "F0" \notin {"F1"} /\ CgOf("F0") \notin {"F1"} BY <1>0
    <3>. QED BY <1>0, <1>16, <2>0, <2>4, <3>1, CfTextKept
  <2>8. ExtraText(d.img, im, cpu, draw)
    <3>1. Has(im, "EA") =>
            /\ Under(a.img.st["EA"], OneBl \o im.st["EA"].nonce)
            /\ a.img.st["EA"].key = OneBl \o im.st["EA"].nonce
            /\ a.img.st["EA"].nonce = im.st["EA"].nonce /\ Kin(a.img.st["EA"], im.st["EA"])
            /\ a.img.st["EA"].mac = CbDigest(im, im.st["EA"], OneBl \o im.st["EA"].nonce, cpu)
            /\ d.img.st["EA"] = a.img.st["EA"]
      BY <1>1, <1>2, <1>3 DEF ExtraCbDone, ExtraCdDone, Frame, Has
    <3>2. Has(im, "ED") => Has(a.img, "ED") /\ a.img.st["ED"] = im.st["ED"]
      BY <1>2 DEF Frame, Has
    <3>3. Has(a.img, "EA") <=> Has(im, "EA") BY <1>2 DEF Frame, Has
    <3>4. Has(im, "ED") =>
            /\ Has(a.img, "EA") /\ Under(d.img.st["ED"], a.img.st["EA"].key \o d.img.st["ED"].nonce)
            /\ d.img.st["ED"].nonce = NonceOf(im.st["ED"], "ED", draw)
            /\ d.img.st["ED"].mac = im.st["ED"].mac /\ Kin(d.img.st["ED"], im.st["ED"])
      BY <1>3, <1>25, <3>2 DEF ExtraCdDone
    <3>. QED BY <3>1, <3>3, <3>4 DEF ExtraText
  <2>9. ExtraText(e.img, im, cpu, draw)
    <3>1. Frame(g.img, d.img, {"F0", "G0", "F1", "G1"}) BY <1>7 DEF Frame
    <3>2. Frame(h.img, d.img, {"F0", "G0", "F1", "G1"}) BY <1>11, <3>1, FrameChain
    <3>3. Frame(f.img, d.img, {"F0", "G0", "F1", "G1"}) BY <1>14, <3>2, FrameChain
    <3>4. Frame(e.img, d.img, {"F0", "G0", "F1", "G1"}) BY <1>16, <3>3, FrameChain
    <3>. QED BY <2>0, <2>8, <3>4, ExtraTextKept
  <2>10. Bodies(e.img, im)
    <3>1. Bodies(f.img, h.img)
      BY <1>13 DEF CfDone, Bodies, Frame, Has, Kin
    <3>2. Bodies(e.img, f.img)
      BY <1>15 DEF CfDone, Bodies, Frame, Has, Kin
    <3>3. Bodies(f.img, im) BY <1>21, <2>0, <3>1, BodiesChain
    <3>. QED BY <2>0, <3>2, <3>3, BodiesChain
  <2>11. SlotsDone(e, im, cpu, type, draw)
    BY <1>0, <1>16, <1>17, <2>6, <2>7, <2>9, <2>10 DEF SlotsDone
  <2>. QED BY <1>18, <1>25, <2>11 DEF r
<1>. QED BY <1>4, <1>7, <1>11, <1>22, <1>23, <1>24, <1>25

-----------------------------------------------------------------------------
(* Two images that state the same.                                         *)

SameFlags(m, im) == m.sb = im.sb /\ m.mfg = im.mfg /\ m.v2 = im.v2 /\ m.newCb = im.newCb

\* The keys of a chain look at its nonces, its flags and CB_A's pairing.
LEMMA KeysKept ==
  ASSUME NEW m, NEW n, NEW cpu, ImageShaped(m), SameFlags(n, m),
         \A k \in Chain : Has(n, k) <=> Has(m, k),
         \A k \in Chain \cap DOMAIN m.st : n.st[k].nonce = m.st[k].nonce,
         n.st["A"].pair = m.st["A"].pair, n.st["A"].mac = m.st["A"].mac,
         Has(m, "X") => HandOff(n, cpu) = HandOff(m, cpu)
  PROVE  /\ KeyA(n) = KeyA(m)
         /\ Has(m, "X") => KeyX(n) = KeyX(m)
         /\ Has(m, "B") => KeyB(n, cpu) = KeyB(m, cpu) /\ HandOff(n, cpu) = HandOff(m, cpu)
         /\ Has(m, "SC") => KeySc(n) = KeySc(m)
         /\ KeyCd(n, cpu) = KeyCd(m, cpu)
         /\ Has(m, "CE") => KeyCe(n, cpu) = KeyCe(m, cpu)
         /\ RequiresCpuKey(n) <=> RequiresCpuKey(m)
         /\ CdNeedsCpuKey(n) <=> CdNeedsCpuKey(m)
<1>1. \A k \in Chain : Has(m, k) => n.st[k].nonce = m.st[k].nonce
  BY DEF Has
<1>2. Has(m, "A") /\ Has(m, "CD") BY DEF ImageShaped, Has
<1>3. KeyA(n) = KeyA(m) BY <1>1, <1>2 DEF KeyA, Chain
<1>4. Has(m, "X") => KeyX(n) = KeyX(m)
  BY <1>1, <1>3, SameKeys DEF KeyX, Chain, SameFlags
<1>5. Has(m, "B") => KeyB(n, cpu) = KeyB(m, cpu)
  BY <1>1, <1>3, SameKeys DEF KeyB, Chain, SameFlags
<1>6. Has(m, "B") => HandOff(n, cpu) = HandOff(m, cpu)
  <2>1. Has(n, "X") <=> Has(m, "X") BY DEF Chain
  <2>2. CASE Has(m, "X") BY <2>2
  <2>3. CASE ~Has(m, "X") BY <1>5, <2>1, <2>3 DEF HandOff
  <2>. QED BY <2>2, <2>3
<1>7. Has(m, "SC") => KeySc(n) = KeySc(m) BY <1>1 DEF KeySc, Chain
<1>8. RequiresCpuKey(n) <=> RequiresCpuKey(m)
  BY DEF RequiresCpuKey, StatesConsole, SameFlags
<1>9. CdNeedsCpuKey(n) <=> CdNeedsCpuKey(m)
  BY <1>8 DEF CdNeedsCpuKey, SameFlags, Chain
<1>10. KeyCd(n, cpu) = KeyCd(m, cpu)
  <2>1. n.st["CD"].nonce = m.st["CD"].nonce BY <1>1, <1>2 DEF Chain
  <2>2. (Has(n, "B") <=> Has(m, "B")) /\ n.sb = m.sb BY DEF Chain, SameFlags
  <2>3. \A key, nonce : CdKey(key, nonce, RequiresCpuKey(n), cpu)
                          = CdKey(key, nonce, RequiresCpuKey(m), cpu)
    BY <1>8 DEF CdKey
  <2>4. m.sb => Has(m, "SC") BY DEF ImageShaped
  <2>. QED BY <1>3, <1>6, <1>7, <2>1, <2>2, <2>3, <2>4 DEF KeyCd
<1>11. Has(m, "CE") => KeyCe(n, cpu) = KeyCe(m, cpu)
  BY <1>1, <1>10 DEF KeyCe, Chain
<1>. QED BY <1>3, <1>4, <1>5, <1>6, <1>7, <1>8, <1>9, <1>10, <1>11

\* The chain does not depend on what lies beside it.
SameChain(n, m) ==
  /\ SameFlags(n, m) /\ DOMAIN n.st = DOMAIN m.st
  /\ \A k \in Chain \cap DOMAIN m.st : n.st[k] = m.st[k]

\* Images with the same chain derive the same keys.
LEMMA SameChainKeys ==
  ASSUME NEW m, NEW n, NEW cpu, ImageShaped(m), SameChain(n, m)
  PROVE  /\ KeyA(n) = KeyA(m)
         /\ Has(m, "X") => KeyX(n) = KeyX(m)
         /\ Has(m, "B") => KeyB(n, cpu) = KeyB(m, cpu)
         /\ Has(m, "SC") => KeySc(n) = KeySc(m)
         /\ KeyCd(n, cpu) = KeyCd(m, cpu)
         /\ Has(m, "CE") => KeyCe(n, cpu) = KeyCe(m, cpu)
         /\ CdNeedsCpuKey(n) <=> CdNeedsCpuKey(m)
<1>1. \A k \in Chain : Has(n, k) <=> Has(m, k) BY DEF SameChain, Has
<1>2. n.st["A"] = m.st["A"] BY DEF SameChain, ImageShaped, Chain
<1>3. Has(m, "X") => HandOff(n, cpu) = HandOff(m, cpu)
  <2>. SUFFICES ASSUME Has(m, "X") PROVE HandOff(n, cpu) = HandOff(m, cpu) OBVIOUS
  <2>1. Has(n, "X") /\ Has(m, "B") BY <1>1 DEF Chain, ImageShaped
  <2>2. n.st["B"] = m.st["B"] BY <2>1 DEF SameChain, Has, Chain
  <2>. QED BY <2>1, <2>2 DEF HandOff
<1>4. \A k \in Chain \cap DOMAIN m.st : n.st[k].nonce = m.st[k].nonce BY DEF SameChain
<1>5. SameFlags(n, m) BY DEF SameChain
<1>6. n.st["A"].pair = m.st["A"].pair /\ n.st["A"].mac = m.st["A"].mac BY <1>2
<1>. QED BY <1>1, <1>3, <1>4, <1>5, <1>6, KeysKept

\* A sealed chain stays sealed where the chain is the same.
LEMMA ChainKept ==
  ASSUME NEW m, NEW n, NEW cpu, ImageShaped(m), SameChain(n, m), ChainClosed(m, cpu)
  PROVE  ChainClosed(n, cpu)
<1>1. \A k \in Chain : /\ Has(n, k) <=> Has(m, k)
                       /\ Has(m, k) => n.st[k] = m.st[k]
  BY DEF SameChain, Has
<1>2. Has(m, "A") /\ Has(m, "CD") /\ n.sb = m.sb /\ (m.sb => Has(m, "SC")) /\ (Has(m, "X") => Has(m, "B"))
  BY DEF ImageShaped, Has, SameChain, SameFlags
<1>3. ScKept(n)
  <2>1. ScKept(m) BY DEF ChainClosed
  <2>. QED BY <1>1, <1>2, <2>1, SameChainKeys DEF ScKept, Chain
<1>4. Under(n.st["A"], KeyA(n)) BY <1>1, <1>2, SameChainKeys DEF ChainClosed, Chain
<1>5. Has(n, "X") => /\ Under(n.st["X"], KeyX(n))
                     /\ Plain(n.st["B"]) /\ n.st["B"].key \in {NoKey, n.st["B"].nonce}
  BY <1>1, <1>2, SameChainKeys DEF ChainClosed, Chain
<1>6. Has(n, "B") /\ ~Has(n, "X") => Under(n.st["B"], KeyB(n, cpu))
  BY <1>1, <1>2, SameChainKeys DEF ChainClosed, Chain
<1>7. n.sb => Under(n.st["SC"], KeySc(n)) /\ n.st["SC"].nonce # ZeroNonce
  BY <1>1, <1>2, SameChainKeys DEF ChainClosed, Chain
<1>8. Under(n.st["CD"], KeyCd(n, cpu))
  BY <1>1, <1>2, SameChainKeys DEF ChainClosed, Chain
<1>9. Has(n, "CE") => Under(n.st["CE"], KeyCe(n, cpu))
  BY <1>1, <1>2, SameChainKeys DEF ChainClosed, Chain
<1>. QED BY <1>3, <1>4, <1>5, <1>6, <1>7, <1>8, <1>9 DEF ChainClosed

\* What encrypt_all is given does not hang on the SMC or the tails.
LEMMA ReadyKept ==
  ASSUME NEW m, NEW n, NEW cpu, ImageShaped(m), SameFlags(n, m), n.st = m.st, Ready(m, cpu)
  PROVE  Ready(n, cpu)
<1>1. SameChain(n, m) BY DEF SameChain
<1>2. \A k : Has(n, k) <=> Has(m, k) BY DEF Has
<1>3. n.sb = m.sb BY DEF SameFlags
<1>4. ScKept(n)
  BY <1>1, <1>2, <1>3, SameChainKeys DEF Ready, ScKept
<1>5. \/ Plain(n.st["CD"])
      \/ Under(n.st["CD"], KeyCd(n, cpu)) /\ n.st["CD"].key = NoKey
  BY <1>1, SameChainKeys DEF Ready
<1>6. Has(n, "CE") => \/ Plain(n.st["CE"])
                      \/ Under(n.st["CE"], KeyCe(n, cpu)) /\ n.st["CD"].nonce # ZeroNonce
  BY <1>1, <1>2, SameChainKeys DEF Ready
<1>. QED BY <1>2, <1>3, <1>4, <1>5, <1>6 DEF Ready

-----------------------------------------------------------------------------
(* The key the console derives is the key the stage was sealed under.      *)

\* CBs, SC, update stages and second chain.
LEMMA BootKeys ==
  ASSUME NEW im, NEW type, NEW cpu
  PROVE  /\ BootKey(im, type, cpu, "A") = KeyA(im)
         /\ BootKey(im, type, cpu, "X") = KeyX(im)
         /\ ~Has(im, "X") => BootKey(im, type, cpu, "B") = KeyB(im, cpu)
         /\ BootKey(im, type, cpu, "SC") = KeySc(im)
         /\ \A k \in CFs \cup CGs : BootKey(im, type, cpu, k) = SlotKey(im, k)
         /\ BootKey(im, type, cpu, "EA") = OneBl \o im.st["EA"].nonce
         /\ BootKey(im, type, cpu, "ED") = OneBl \o im.st["EA"].nonce \o im.st["ED"].nonce
<1>1. BootKey(im, type, cpu, "A") = KeyA(im)
  BY DEF BootKey, KeyA
<1>2. BootKey(im, type, cpu, "X") = KeyX(im)
  BY DEF BootKey, KeyX, KeyA, CFs
<1>3. ~Has(im, "X") => BootKey(im, type, cpu, "B") = KeyB(im, cpu)
  BY DEF BootKey, KeyB, KeyA, CFs
<1>4. BootKey(im, type, cpu, "SC") = KeySc(im)
  BY DEF BootKey, KeySc, CFs
<1>5. ASSUME NEW k \in CFs \cup CGs PROVE BootKey(im, type, cpu, k) = SlotKey(im, k)
  <2>1. CASE k \in CFs BY <2>1 DEF BootKey, SlotKey, CFs
  <2>2. CASE k \in CGs BY <2>2 DEF BootKey, SlotKey, CFs, CGs
  <2>. QED BY <2>1, <2>2
<1>6. /\ BootKey(im, type, cpu, "EA") = OneBl \o im.st["EA"].nonce
      /\ BootKey(im, type, cpu, "ED") = OneBl \o im.st["EA"].nonce \o im.st["ED"].nonce
  BY DEF BootKey, CFs
<1>. QED BY <1>1, <1>2, <1>3, <1>4, <1>5, <1>6

\* CD and CE, where CB_B's hand-off is the nonce it states.
LEMMA BootKeyCd ==
  ASSUME NEW im, NEW type, NEW cpu, Has(im, "X") => HandOff(im, cpu) = im.st["B"].nonce
  PROVE  /\ BootKey(im, type, cpu, "CD") = KeyCd(im, cpu)
         /\ BootKey(im, type, cpu, "CE") = KeyCe(im, cpu)
<1> DEFINE keyA == OneBl \o im.st["A"].nonce
           keyB == IF Has(im, "X") THEN im.st["B"].nonce
                   ELSE CbBKey(im, keyA, im.st["B"].nonce, cpu)
           keyCd == IF im.sb THEN CdKey(ZeroSecret \o im.st["SC"].nonce, im.st["CD"].nonce, FALSE, cpu)
                    ELSE IF Has(im, "B") THEN CdKey(keyB, im.st["CD"].nonce, FALSE, cpu)
                    ELSE CdKey(keyA, im.st["CD"].nonce, RequiresCpuKey(im), cpu)
<1>1. /\ BootKey(im, type, cpu, "CD") = keyCd
      /\ BootKey(im, type, cpu, "CE") = keyCd \o im.st["CE"].nonce
  BY DEF BootKey, CFs
<1>2. keyA = KeyA(im) BY DEF KeyA
<1>3. keyB = HandOff(im, cpu) BY DEF HandOff, KeyB, KeyA
<1>. HIDE DEF keyA, keyB
<1>4. keyCd = KeyCd(im, cpu)
  BY <1>2, <1>3 DEF KeyCd, KeySc
<1>. HIDE DEF keyCd
<1>. QED BY <1>1, <1>4 DEF KeyCe

\* Every stage of a sealed image lies under the key the console derives.
LEMMA LinksHold ==
  ASSUME NEW im, ImageShaped(im), NEW type, NEW cpu, ChainClosed(im, cpu), SlotsClosed(im),
         ExtraClosed(im)
  PROVE  \A k \in DOMAIN im.st : im.st[k].under = Links(im, type, cpu, k)
<1>. SUFFICES ASSUME NEW k \in DOMAIN im.st
              PROVE  im.st[k].under = Links(im, type, cpu, k)
  OBVIOUS
<1>0. Has(im, k) /\ k \in Kinds BY DEF ImageShaped, Has
<1>1. Has(im, "X") => HandOff(im, cpu) = im.st["B"].nonce
  BY DEF ChainClosed, HandOff
<1>2. k \notin {"B", "SC"} => Links(im, type, cpu, k) = {BootKey(im, type, cpu, k)}
  BY DEF Links
<1> DEFINE boot(j) == BootKey(im, type, cpu, j)
<1>9. /\ boot("A") = KeyA(im) /\ boot("X") = KeyX(im) /\ boot("SC") = KeySc(im)
      /\ ~Has(im, "X") => boot("B") = KeyB(im, cpu)
      /\ boot("EA") = OneBl \o im.st["EA"].nonce
      /\ boot("ED") = OneBl \o im.st["EA"].nonce \o im.st["ED"].nonce
  BY BootKeys
<1>10. \A j \in CFs \cup CGs : boot(j) = SlotKey(im, j)
  BY BootKeys
<1>11. boot("CD") = KeyCd(im, cpu) /\ boot("CE") = KeyCe(im, cpu)
  BY <1>1, BootKeyCd
<1>3. CASE k \in {"A", "X"}
  <2>. HIDE DEF boot
  <2>1. im.st[k].under = {boot(k)}
    BY <1>0, <1>3, <1>9 DEF ChainClosed, Under
  <2>. QED BY <1>2, <1>3, <2>1 DEF boot
<1>4. CASE k = "B"
  <2>1. CASE Has(im, "X")
    BY <1>4, <2>1 DEF ChainClosed, Plain, Links
  <2>2. CASE ~Has(im, "X")
    <3>. HIDE DEF boot
    <3>1. im.st[k].under = {boot(k)}
      BY <1>0, <1>4, <1>9, <2>2 DEF ChainClosed, Under
    <3>. QED BY <1>4, <2>2, <3>1 DEF Links, boot
  <2>. QED BY <2>1, <2>2
<1>5. CASE k = "SC"
  <2>1. im.st[k].under = IF im.st[k].nonce = ZeroNonce THEN {} ELSE {KeySc(im)}
    <3>1. CASE im.sb BY <1>5, <3>1 DEF ChainClosed, Under
    <3>2. CASE ~im.sb BY <1>0, <1>5, <3>2 DEF ChainClosed, ScKept
    <3>. QED BY <3>1, <3>2
  <2>. QED BY <1>5, <1>9, <2>1 DEF Links
<1>6. CASE k \in {"CD", "CE"}
  <2>. HIDE DEF boot
  <2>1. im.st[k].under = {boot(k)}
    BY <1>0, <1>6, <1>11 DEF ChainClosed, Under
  <2>. QED BY <1>2, <1>6, <2>1 DEF boot
<1>7. CASE k \in CFs \cup CGs
  <2>. HIDE DEF boot
  <2>1. im.st[k].under = {boot(k)}
    BY <1>7, <1>10 DEF SlotsClosed, Under
  <2>. QED BY <1>2, <1>7, <2>1 DEF CFs, CGs, boot
<1>8. CASE k \in {"EA", "ED"}
  <2>. HIDE DEF boot
  <2>1. im.st[k].under = {boot(k)}
    BY <1>0, <1>8, <1>9 DEF ExtraClosed, Under
  <2>. QED BY <1>2, <1>8, <2>1 DEF boot
<1>. QED BY <1>0, <1>3, <1>4, <1>5, <1>6, <1>7, <1>8 DEF Kinds, CFs, CGs

-----------------------------------------------------------------------------
(* encrypt_all on an image that is ready for it.                           *)

\* The digests encrypt_all works out anew.
MacFresh(m, type, k) ==
  \/ k = "A" /\ ((type = "Retail" /\ CdNeedsCpuKey(m)) \/ (m.sb /\ type # "Devgl"))
  \/ k = "B" /\ ~Has(m, "X")
  \/ k = "EA"
  \/ k \in CFs /\ BindsConsole(type, k)

\* What is left as it was.
Restores(m, im, type) ==
  \A k \in DOMAIN im.st :
    /\ m.st[k].pair = im.st[k].pair
    /\ (k \in {"SC", "CD", "CE", "G0", "G1", "ED"} => im.st[k].nonce # ZeroNonce \/ (k = "SC" /\ ~im.sb))
       /\ (k = "B" /\ Has(im, "X") => im.st[k].key = im.st[k].nonce)
         => m.st[k].nonce = im.st[k].nonce
    /\ ~(k \in CFs /\ Has(im, CgOf(k))) => m.st[k].table = im.st[k].table
    /\ ~MacFresh(m, type, k) => m.st[k].mac = im.st[k].mac

EncryptDone(r, im, cpu, type) ==
  LET m == r.img
  IN  /\ r.ok \in BOOLEAN
      /\ r.ok = TRUE \/ (Plain(im.st["CD"]) /\ ~Has(im, "ED")) =>
           /\ ImageShaped(m) /\ SameFlags(m, im) /\ DOMAIN m.st = DOMAIN im.st /\ Bodies(m, im)
           /\ ChainClosed(m, cpu) /\ SlotsEither(m)
      /\ r.ok = TRUE =>
           /\ m.smc = im.smc /\ m.spills = im.spills
           /\ CdNeedsCpuKey(m) <=> CdNeedsCpuKey(im)
           /\ SlotsClosed(m) /\ ExtraClosed(m) /\ Tails(m)
           /\ Digests(m, m.smc, type, cpu) /\ Macs(m, type, cpu)
           /\ Drawn(m) /\ Restores(m, im, type)

\* Two sealed slots make the MACs, the tails and the sealed update stages of a written image.
LEMMA MacsMade ==
  ASSUME NEW im, ImageShaped(im), NEW m, NEW cpu, NEW type, NEW draw, m.spills = im.spills,
         DOMAIN m.st = DOMAIN im.st,
         \A f \in CFs : CfText(m, im, f, cpu, type) /\ CgSealedText(m, im, f, draw)
  PROVE  /\ Macs(m, type, cpu) /\ Tails(m) /\ SlotsClosed(m)
<1>1. \A k : Has(m, k) <=> Has(im, k) BY DEF Has
<1>2. Macs(m, type, cpu)
  BY <1>1 DEF Macs, TableNamed, CfText, Has
<1>3. Tails(m)
  BY <1>1 DEF Tails, CgSealedText
<1>4. SlotsClosed(m)
  <2>. SUFFICES ASSUME NEW k \in (CFs \cup CGs) \cap DOMAIN m.st
                PROVE  Under(m.st[k], SlotKey(m, k))
    BY DEF SlotsClosed
  <2>1. CASE k \in CFs BY <1>1, <2>1 DEF CfText, Has
  <2>2. CASE k \in CGs
    <3>1. PICK f \in CFs : CgOf(f) = k BY <2>2 DEF CFs, CGs, CgOf
    <3>. QED BY <1>1, <3>1 DEF CgSealedText, Has
  <2>. QED BY <2>1, <2>2
<1>. QED BY <1>2, <1>3, <1>4

\* A stage is never sealed under the zero nonce.
LEMMA NonceSealedDrawn ==
  ASSUME NEW im, NEW cpu, Ready(im, cpu), NEW k \in {"SC", "CD", "CE"}, Has(im, k), NEW draw,
         k = "SC" => im.sb
  PROVE  NonceSealed(im, k, draw) # ZeroNonce
<1>1. NonceOf(im.st[k], k, draw) # ZeroNonce
  BY FreshIsNonce DEF NonceOf
<1>2. CASE Plain(im.st[k]) BY <1>1, <1>2 DEF NonceSealed
<1>3. CASE ~Plain(im.st[k])
  <2>1. k \in {"CD", "CE"} BY <1>3 DEF Ready, Has
  <2>2. im.st[k].nonce # ZeroNonce BY <1>3, <2>1 DEF Ready, Has
  <2>. QED BY <1>3, <2>1, <2>2 DEF NonceSealed
<1>. QED BY <1>2, <1>3

\* Sealing again keeps every nonce that was drawn before.
LEMMA NonceSealedKept ==
  ASSUME NEW im, NEW k \in Chain, NEW draw,
         k \in {"SC", "CD", "CE"} => im.st[k].nonce # ZeroNonce \/ (k = "SC" /\ ~im.sb),
         k = "B" /\ Has(im, "X") => im.st[k].key = im.st[k].nonce
  PROVE  NonceSealed(im, k, draw) = im.st[k].nonce
BY DEF NonceSealed, NonceOf, Chain

\* Sealing takes a digest anew of CB_A alone or of CB_B, and keeps the others.
LEMMA MacSealedKept ==
  ASSUME NEW im, NEW k \in Chain, NEW cpu, NEW single \in BOOLEAN,
         ~(k = "A" /\ single), ~(k = "B" /\ ~Has(im, "X"))
  PROVE  MacSealed(im, k, cpu, single) = im.st[k].mac
BY DEF MacSealed

\* The whole encrypt_all: a written image, or one left half sealed but with its chain closed.
LEMMA EncryptStep ==
  ASSUME NEW im, ImageShaped(im), NEW type, Suited(im, type), NEW cpu, NEW draw, Ready(im, cpu)
  PROVE  EncryptDone(EncryptAll(im, cpu, type, draw), im, cpu, type)
<1> DEFINE binds == Binds(im, type)
           begun == IF binds.b \/ binds.single \/ binds.extra THEN SmcSealedNow(im) ELSE im
           chain == ChainSealed(begun, cpu, type, binds.single, draw)
           slots == SlotsSealed(chain.img, cpu, type, binds.extra, draw)
           sealed == SmcKvSealed(slots.img, cpu)
           r == EncryptAll(im, cpu, type, draw)
           single == binds.single
           extra == binds.extra
<1>1. /\ single \in BOOLEAN /\ extra \in BOOLEAN
      /\ single <=> \/ type = "Retail" /\ CdNeedsCpuKey(im)
                    \/ im.sb /\ type # "Devgl"
      /\ extra <=> Has(im, "EA")
      /\ binds.b <=> Has(im, "B") /\ type # "Glitch3"
  <2>1. im.st["A"].dec = TRUE /\ (Has(im, "EA") => im.st["EA"].dec = TRUE)
    BY DEF Ready, ImageShaped, Plain, Has
  <2>. QED BY <2>1 DEF Binds
<1>2. /\ begun.st = im.st /\ SameFlags(begun, im) /\ begun.smc = im.smc /\ begun.spills = im.spills
      /\ ImageShaped(begun)
      /\ binds.b \/ single \/ extra => begun.smcSealed = TRUE
  <2>1. CASE begun = im
    <3>1. binds.b \/ single \/ extra => begun.smcSealed = TRUE
      BY <2>1 DEF SmcSealedNow, ImageShaped, ImageFields
    <3>. HIDE DEF begun
    <3>. QED BY <2>1, <3>1 DEF SameFlags
  <2>2. CASE begun = SmcSealedNow(im)
    <3>. HIDE DEF begun
    <3>1. /\ begun.st = im.st /\ begun.sb = im.sb /\ begun.mfg = im.mfg /\ begun.v2 = im.v2
          /\ begun.newCb = im.newCb /\ begun.smc = im.smc /\ begun.spills = im.spills
          /\ begun.smcSealed = TRUE /\ DOMAIN begun = ImageFields
      BY <2>2 DEF SmcSealedNow, ImageShaped, ImageFields
    <3>. QED BY <3>1 DEF SameFlags, ImageShaped, Has
  <2>. QED BY <2>1, <2>2
<1>3. ~Refused(im, type)
  <2>1. Has(im, "X") => Has(im, "B") /\ im.st["B"].dec
    BY DEF ImageShaped, Ready, Plain, Has
  <2>. QED BY <2>1 DEF Refused, Suited, ImageShaped
<1>4. SameChain(begun, im) /\ \A k : Has(begun, k) <=> Has(im, k)
  BY <1>2 DEF SameChain, Has
<1>5. CdNeedsCpuKey(begun) <=> CdNeedsCpuKey(im)
  BY <1>4, SameChainKeys
<1>6. ChainDone(chain, begun, cpu, single, draw)
  <2>. HIDE DEF begun, single
  <2>1. Suited(begun, type) BY <1>2, <1>4 DEF Suited, SameFlags
  <2>2. Ready(begun, cpu) BY <1>2, ReadyKept
  <2>3. single => begun.sb \/ CdNeedsCpuKey(begun) BY <1>1, <1>2, <1>5 DEF SameFlags
  <2>. QED BY <1>1, <1>2, <2>1, <2>2, <2>3, ChainStep DEF single
<1>. HIDE DEF begun
<1>7. /\ chain.ok \in BOOLEAN
      /\ Plain(im.st["CD"]) => chain.ok = TRUE
      /\ chain.ok = TRUE =>
           /\ Frame(chain.img, begun, Chain) /\ ImageShaped(chain.img) /\ ChainClosed(chain.img, cpu)
           /\ \A k \in Chain \cap DOMAIN im.st :
                /\ chain.img.st[k].nonce = NonceSealed(begun, k, draw)
                /\ Kin(chain.img.st[k], im.st[k])
                /\ chain.img.st[k].mac = MacSealed(begun, k, cpu, single)
  <2>. HIDE DEF chain, single
  <2>. QED BY <1>2, <1>6 DEF ChainDone
<1>8. ASSUME chain.ok = TRUE
      PROVE  /\ SlotsDone(slots, chain.img, cpu, type, draw)
             /\ DOMAIN chain.img.st = DOMAIN im.st
             /\ \A k \in Slots \cap DOMAIN im.st : chain.img.st[k] = im.st[k]
  <2>. HIDE DEF chain, single, extra
  <2>1. /\ DOMAIN chain.img.st = DOMAIN im.st
        /\ \A k \in Slots \cap DOMAIN im.st : chain.img.st[k] = im.st[k]
    BY <1>2, <1>7, <1>8 DEF Frame, Slots, Chain
  <2>2. \A k \in Slots \cap DOMAIN im.st : Plain(im.st[k])
    BY DEF Ready, Slots, CFs, CGs
  <2>3. \A k \in Slots \cap DOMAIN chain.img.st : Plain(chain.img.st[k])
    BY <2>1, <2>2
  <2>4. extra <=> Has(chain.img, "EA") BY <1>1, <2>1 DEF Has
  <2>. QED BY <1>1, <1>7, <1>8, <2>1, <2>3, <2>4, SlotsStep DEF extra
<1>9. r = IF chain.ok # TRUE THEN chain ELSE IF slots.ok # TRUE THEN slots ELSE sealed
  <2>2. r = IF chain.ok THEN (IF slots.ok THEN sealed ELSE slots) ELSE chain
    <3>. HIDE DEF binds
    <3>. QED BY <1>3, <1>7 DEF EncryptAll, Then, begun, binds
  <2>3. CASE chain.ok # TRUE BY <1>7, <2>2, <2>3
  <2>4. CASE chain.ok = TRUE
    <3>1. slots.ok \in BOOLEAN BY <1>8, <2>4 DEF SlotsDone
    <3>. QED BY <2>2, <2>4, <3>1
  <2>. QED BY <2>3, <2>4
<1> DEFINE b == chain.img
           m == slots.img
<1>10. ASSUME chain.ok = TRUE
       PROVE  /\ slots.ok \in BOOLEAN /\ ImageShaped(m) /\ SameFlags(m, im)
              /\ DOMAIN m.st = DOMAIN im.st /\ m.smc = im.smc /\ m.spills = im.spills
              /\ Bodies(m, im) /\ ChainClosed(m, cpu)
              /\ \A k \in Chain \cap DOMAIN im.st : m.st[k] = b.st[k]
              /\ slots.ok # TRUE /\ ~Has(im, "ED") => SlotsEither(m)
  <2>. HIDE DEF chain, slots, single, extra
  <2>1. /\ slots.ok \in BOOLEAN /\ Frame(m, b, Slots) /\ ImageShaped(m) /\ Bodies(m, b)
        /\ slots.ok # TRUE /\ ~Has(b, "ED") => SlotsEither(m)
    BY <1>8, <1>10 DEF SlotsDone
  <2>2. Frame(b, begun, Chain) /\ ImageShaped(b) /\ ChainClosed(b, cpu)
    BY <1>7, <1>10
  <2>3. DOMAIN m.st = DOMAIN im.st /\ DOMAIN b.st = DOMAIN im.st
    BY <1>8, <1>10, <2>1 DEF Frame
  <2>4. SameFlags(b, im) /\ SameFlags(m, b) /\ m.smc = im.smc /\ m.spills = im.spills
    BY <1>2, <2>1, <2>2 DEF Frame, SameFlags
  <2>5. \A k \in Chain \cap DOMAIN im.st : m.st[k] = b.st[k]
    BY <2>1, <2>3 DEF Frame, Slots, Chain
  <2>6. ChainClosed(m, cpu)
    <3>1. SameChain(m, b) BY <2>3, <2>4, <2>5 DEF SameChain
    <3>. QED BY <2>2, <3>1, ChainKept
  <2>7. Bodies(b, im)
    BY <1>7, <1>8, <1>10 DEF Bodies, Kin, Chain, Slots, ImageShaped, Kinds
  <2>8. Bodies(m, im) BY <2>1, <2>3, <2>7, BodiesChain
  <2>9. Has(b, "ED") <=> Has(im, "ED") BY <2>3 DEF Has
  <2>. QED BY <2>1, <2>3, <2>4, <2>5, <2>6, <2>8, <2>9 DEF SameFlags
<1>11. CASE chain.ok # TRUE
  <2>. HIDE DEF r, chain, single
  <2>1. r = chain BY <1>9, <1>11
  <2>2. EncryptDone(r, im, cpu, type) BY <1>7, <1>11, <2>1 DEF EncryptDone
  <2>. QED BY <2>2 DEF r
<1>12. CASE chain.ok = TRUE /\ slots.ok # TRUE
  <2>. HIDE DEF r, chain, slots, single
  <2>1. r = slots BY <1>9, <1>12
  <2>2. EncryptDone(r, im, cpu, type) BY <1>10, <1>12, <2>1 DEF EncryptDone
  <2>. QED BY <2>2 DEF r
<1>13. CASE chain.ok = TRUE /\ slots.ok = TRUE
  <2> DEFINE w == sealed.img
  <2>1. /\ sealed.ok = TRUE /\ w.st = m.st /\ SameFlags(w, im) /\ w.smc = im.smc
        /\ w.spills = im.spills /\ w.tails = m.tails /\ DOMAIN w = ImageFields
    <3>1. DOMAIN m = ImageFields BY <1>10, <1>13 DEF ImageShaped
    <3> DEFINE x == [m EXCEPT !.smcSealed = TRUE, !.kv = IF @ = "clear" THEN cpu ELSE @]
    <3>. HIDE DEF slots
    <3>2. /\ x.st = m.st /\ x.sb = m.sb /\ x.mfg = m.mfg /\ x.v2 = m.v2 /\ x.newCb = m.newCb
          /\ x.smc = m.smc /\ x.spills = m.spills /\ x.tails = m.tails /\ DOMAIN x = ImageFields
      BY <3>1 DEF ImageFields
    <3>3. sealed.ok = TRUE /\ sealed.img = x BY DEF SmcKvSealed, Ok
    <3>. HIDE DEF x, sealed
    <3>. QED BY <1>10, <1>13, <3>2, <3>3 DEF SameFlags
  <2>. HIDE DEF sealed
  <2>2. ImageShaped(w)
    BY <1>10, <1>13, <2>1 DEF ImageShaped, SameFlags, Has
  <2>3. SameChain(w, m) /\ ChainClosed(w, cpu)
    <3>1. SameFlags(w, m) BY <1>10, <1>13, <2>1 DEF SameFlags
    <3>2. SameChain(w, m) BY <2>1, <3>1 DEF SameChain
    <3>. QED BY <1>10, <1>13, <3>2, ChainKept
  <2>. HIDE DEF chain, slots, single, extra, w
  <2>4. /\ Frame(b, begun, Chain) /\ ImageShaped(b) /\ DOMAIN b.st = DOMAIN im.st
        /\ \A k \in Slots \cap DOMAIN im.st : b.st[k] = im.st[k]
        /\ b.spills = im.spills /\ b.smc = im.smc /\ b.smcSealed = begun.smcSealed
    BY <1>2, <1>7, <1>8, <1>13 DEF Frame
  <2>5. /\ ExtraText(m, b, cpu, draw)
        /\ \A f \in CFs : CfText(m, b, f, cpu, type) /\ CgSealedText(m, b, f, draw)
    BY <1>8, <1>13 DEF SlotsDone
  <2>6. Macs(w, type, cpu) /\ Tails(w) /\ SlotsClosed(w) /\ SlotsEither(w)
    <3>1. m.spills = b.spills /\ DOMAIN m.st = DOMAIN b.st
      BY <1>10, <1>13, <2>4
    <3>2. Macs(m, type, cpu) /\ Tails(m) /\ SlotsClosed(m)
      BY <2>4, <2>5, <3>1, MacsMade
    <3>3. w.spills = m.spills BY <2>1, <2>4, <3>1
    <3>4. Macs(w, type, cpu) /\ Tails(w)
      BY <2>1, <3>2, <3>3 DEF Macs, TableNamed, Tails, Has
    <3>5. SlotsClosed(w)
      BY <2>1, <3>2 DEF SlotsClosed, SlotKey
    <3>. QED BY <3>4, <3>5 DEF SlotsClosed, SlotsEither
  <2>7. ExtraClosed(w)
    BY <1>10, <1>13, <2>1, <2>4, <2>5 DEF ExtraText, ExtraClosed, Has
  <2>8. \A k \in Chain \cap DOMAIN im.st :
          /\ w.st[k].nonce = NonceSealed(begun, k, draw) /\ Kin(w.st[k], im.st[k])
          /\ w.st[k].mac = MacSealed(begun, k, cpu, single)
    BY <1>7, <1>10, <1>13, <2>1
  <2>9. {"A", "CD"} \subseteq DOMAIN im.st BY DEF ImageShaped
  <2>10. /\ w.st["A"].nonce = im.st["A"].nonce /\ w.st["A"].pair = im.st["A"].pair
         /\ w.st["A"].mac = IF single THEN CbDigest(begun, im.st["A"], KeyA(im), cpu)
                            ELSE im.st["A"].mac
         /\ KeyA(w) = KeyA(im) /\ IsNonce(KeyA(im))
    <3>1. "A" \in Chain \cap DOMAIN im.st BY <2>9 DEF Chain
    <3>2. NonceSealed(begun, "A", draw) = im.st["A"].nonce BY <1>2 DEF NonceSealed
    <3>3. KeyA(begun) = KeyA(im) BY <1>2 DEF KeyA
    <3>4. MacSealed(begun, "A", cpu, single) = IF single THEN CbDigest(begun, im.st["A"], KeyA(im), cpu)
                                               ELSE im.st["A"].mac
      BY <1>2, <3>3 DEF MacSealed
    <3>5. w.st["A"].nonce = im.st["A"].nonce /\ w.st["A"].pair = im.st["A"].pair
      BY <2>8, <3>1, <3>2 DEF Kin
    <3>6. KeyA(w) = KeyA(im) BY <3>5 DEF KeyA
    <3>7. IsNonce(KeyA(im)) BY <2>9, KeysHold DEF KeyA, ImageShaped
    <3>. QED BY <2>8, <3>1, <3>4, <3>5, <3>6, <3>7
  <2>11. CdNeedsCpuKey(w) <=> CdNeedsCpuKey(im)
    <3>1. \/ w.st["A"].mac = im.st["A"].mac
          \/ w.st["A"].mac # <<>> /\ (im.sb \/ CdNeedsCpuKey(im))
      <4>1. CASE single
        <5>1. IsNonce(w.st["A"].mac) BY <2>10, <4>1, DigestHolds
        <5>. QED BY <1>1, <4>1, <5>1 DEF IsNonce
      <4>2. CASE ~single BY <2>10, <4>2
      <4>. QED BY <4>1, <4>2
    <3>2. (Has(w, "B") <=> Has(im, "B")) /\ w.newCb = im.newCb /\ w.sb = im.sb
      BY <1>10, <1>13, <2>1 DEF Has, SameFlags
    <3>. QED BY <2>2, <2>10, <3>1, <3>2, SameNeed
  <2>12. Digests(w, w.smc, type, cpu)
    <3> DEFINE v == [w EXCEPT !.smc = w.smc, !.smcSealed = TRUE]
               digest(k) == CbDigest(v, w.st[k], BootKey(w, type, cpu, k), cpu)
    <3>1. v.smc = im.smc /\ v.smcSealed = TRUE
      BY <2>1 DEF ImageFields
    <3>. HIDE DEF v
    <3>2. ASSUME begun.smcSealed = TRUE, NEW s, NEW t, s.pair = t.pair
          PROVE  \A key : CbDigest(v, s, key, cpu) = CbDigest(begun, t, key, cpu)
      BY <1>2, <3>1, <3>2 DEF CbDigest, SmcBytes
    <3>3. ASSUME single PROVE w.st["A"].mac = digest("A")
      <4>1. begun.smcSealed = TRUE BY <1>2, <3>3
      <4>2. BootKey(w, type, cpu, "A") = KeyA(im) BY <2>10, BootKeys
      <4>3. CbDigest(v, w.st["A"], KeyA(im), cpu) = CbDigest(begun, im.st["A"], KeyA(im), cpu)
        BY <2>10, <3>2, <4>1
      <4>. QED BY <2>10, <3>3, <4>2, <4>3
    <3>4. ASSUME Has(w, "B"), ~Has(w, "X")
          PROVE  w.st["B"].mac = IF w.mfg \/ cpu = "zero" THEN <<>> ELSE digest("B")
      <4>1. /\ Has(im, "B") /\ ~Has(im, "X") /\ Has(begun, "B") /\ ~Has(begun, "X")
            /\ begun.mfg = im.mfg /\ w.mfg = im.mfg /\ begun.v2 = im.v2 /\ w.v2 = im.v2
        BY <1>2, <1>4, <1>10, <1>13, <2>1, <3>4 DEF Has, SameFlags
      <4>2. "B" \in Chain \cap DOMAIN im.st BY <4>1 DEF Has, Chain
      <4>3. begun.smcSealed = TRUE BY <1>1, <1>2, <4>1 DEF Suited
      <4>4. w.st["B"].nonce = im.st["B"].nonce /\ w.st["B"].pair = im.st["B"].pair
        <5>1. NonceSealed(begun, "B", draw) = im.st["B"].nonce BY <1>2, <4>1 DEF NonceSealed
        <5>. QED BY <2>8, <4>2, <5>1 DEF Kin
      <4>5. BootKey(w, type, cpu, "B") = KeyB(begun, cpu)
        <5>1. KeyB(w, cpu) = KeyB(im, cpu) BY <2>10, <4>1, <4>4, SameKeys DEF KeyB
        <5>2. KeyB(begun, cpu) = KeyB(im, cpu) BY <1>2, <4>1, SameKeys DEF KeyB, KeyA
        <5>. QED BY <3>4, <5>1, <5>2, BootKeys
      <4>6. w.st["B"].mac = IF im.mfg \/ cpu = "zero" THEN <<>>
                            ELSE CbDigest(begun, im.st["B"], KeyB(begun, cpu), cpu)
        <5>1. MacSealed(begun, "B", cpu, single)
                = IF im.mfg \/ cpu = "zero" THEN <<>>
                  ELSE CbDigest(begun, im.st["B"], KeyB(begun, cpu), cpu)
          BY <1>2, <4>1 DEF MacSealed
        <5>. QED BY <2>8, <4>2, <5>1
      <4>7. CbDigest(v, w.st["B"], KeyB(begun, cpu), cpu)
              = CbDigest(begun, im.st["B"], KeyB(begun, cpu), cpu)
        BY <3>2, <4>3, <4>4
      <4>. QED BY <4>1, <4>5, <4>6, <4>7
    <3>5. ASSUME Has(w, "EA") PROVE w.st["EA"].mac = digest("EA")
      <4>1. Has(im, "EA") /\ Has(b, "EA")
        BY <1>10, <1>13, <2>1, <2>4, <3>5 DEF Has
      <4>2. begun.smcSealed = TRUE BY <1>1, <1>2, <4>1
      <4>3. /\ w.st["EA"].nonce = b.st["EA"].nonce /\ w.st["EA"].pair = b.st["EA"].pair
            /\ w.st["EA"].mac = CbDigest(b, b.st["EA"], OneBl \o b.st["EA"].nonce, cpu)
        BY <2>1, <2>5, <4>1 DEF ExtraText, Kin
      <4>4. \A key : CbDigest(v, w.st["EA"], key, cpu) = CbDigest(b, b.st["EA"], key, cpu)
        BY <2>4, <3>1, <4>2, <4>3 DEF CbDigest, SmcBytes
      <4>5. BootKey(w, type, cpu, "EA") = OneBl \o b.st["EA"].nonce BY <4>3, BootKeys
      <4>. QED BY <4>3, <4>4, <4>5
    <3>6. (type = "Retail" /\ CdNeedsCpuKey(w)) \/ (w.sb /\ type # "Devgl") => single
      BY <1>1, <2>1, <2>11 DEF SameFlags
    <3>. QED BY <3>3, <3>4, <3>5, <3>6 DEF Digests, v
  <2>13. Drawn(w)
    <3>. SUFFICES ASSUME NEW k \in {"SC", "CD", "CE", "G0", "G1"} \cap DOMAIN w.st,
                         k = "SC" => w.sb
                  PROVE  w.st[k].nonce # ZeroNonce
      BY DEF Drawn
    <3>1. DOMAIN w.st = DOMAIN im.st /\ w.sb = im.sb /\ begun.sb = im.sb
      BY <1>2, <1>10, <1>13, <2>1 DEF SameFlags
    <3>2. CASE k \in {"SC", "CD", "CE"}
      <4>1. Has(begun, k) /\ k \in Chain BY <1>4, <3>1, <3>2 DEF Has, Chain
      <4>2. Ready(begun, cpu) BY <1>2, ReadyKept
      <4>3. NonceSealed(begun, k, draw) # ZeroNonce
        BY <3>1, <3>2, <4>1, <4>2, NonceSealedDrawn
      <4>. QED BY <2>8, <3>1, <4>1, <4>3
    <3>3. CASE k \in {"G0", "G1"}
      <4>1. PICK f \in CFs : CgOf(f) = k BY <3>3 DEF CFs, CgOf
      <4>2. Has(b, k) BY <2>4, <3>1 DEF Has
      <4>3. w.st[k].nonce = NonceOf(b.st[k], k, draw)
        BY <2>1, <2>5, <4>1, <4>2 DEF CgSealedText
      <4>. QED BY <4>3, FreshIsNonce DEF NonceOf
    <3>. QED BY <3>2, <3>3
  <2>14. Restores(w, im, type)
    <3>. SUFFICES ASSUME NEW k \in DOMAIN im.st
                  PROVE  /\ w.st[k].pair = im.st[k].pair
                         /\ (k \in {"SC", "CD", "CE", "G0", "G1", "ED"}
                               => im.st[k].nonce # ZeroNonce \/ (k = "SC" /\ ~im.sb))
                            /\ (k = "B" /\ Has(im, "X") => im.st[k].key = im.st[k].nonce)
                              => w.st[k].nonce = im.st[k].nonce
                         /\ ~(k \in CFs /\ Has(im, CgOf(k))) => w.st[k].table = im.st[k].table
                         /\ ~MacFresh(w, type, k) => w.st[k].mac = im.st[k].mac
      BY DEF Restores
    <3>1. k \in Kinds /\ Has(b, k) BY <2>4 DEF ImageShaped, Has
    <3>2. CASE k \in Chain
      <4>1. begun.st[k] = im.st[k] /\ (Has(begun, "X") <=> Has(im, "X")) /\ begun.sb = im.sb
            /\ (Has(w, "X") <=> Has(im, "X")) /\ w.sb = im.sb
        BY <1>2, <1>4, <1>10, <1>13, <2>1 DEF SameFlags, Has
      <4>2. Kin(w.st[k], im.st[k]) /\ w.st[k].nonce = NonceSealed(begun, k, draw)
            /\ w.st[k].mac = MacSealed(begun, k, cpu, single)
        BY <2>8, <3>2
      <4>3. ASSUME k \in {"SC", "CD", "CE"} => im.st[k].nonce # ZeroNonce \/ (k = "SC" /\ ~im.sb),
                   k = "B" /\ Has(im, "X") => im.st[k].key = im.st[k].nonce
            PROVE  w.st[k].nonce = im.st[k].nonce
        <5>1. NonceSealed(begun, k, draw) = begun.st[k].nonce
          BY <3>2, <4>1, <4>3, NonceSealedKept
        <5>. QED BY <4>1, <4>2, <5>1
      <4>4. ASSUME ~MacFresh(w, type, k) PROVE w.st[k].mac = im.st[k].mac
        <5>1. ~(k = "A" /\ single) /\ ~(k = "B" /\ ~Has(begun, "X"))
          BY <1>1, <2>11, <4>1, <4>4 DEF MacFresh
        <5>2. MacSealed(begun, k, cpu, single) = begun.st[k].mac
          BY <1>1, <3>2, <5>1, MacSealedKept
        <5>. QED BY <4>1, <4>2, <5>2
      <4>. QED BY <4>2, <4>3, <4>4 DEF Kin
    <3>3. CASE k \in CFs
      <4>1. CfText(w, b, k, cpu, type)
        BY <2>1, <2>5, <3>3 DEF CfText, SlotKey
      <4>2. b.st[k] = im.st[k] BY <2>4, <3>3 DEF CFs, Slots
      <4>3. Has(b, CgOf(k)) <=> Has(im, CgOf(k)) BY <2>4 DEF Has
      <4>. QED BY <3>1, <3>3, <4>1, <4>2, <4>3 DEF CfText, MacFresh, CFs
    <3>4. CASE k \in CGs
      <4>1. PICK f \in CFs : CgOf(f) = k BY <3>4 DEF CFs, CGs, CgOf
      <4>2. /\ w.st[k].nonce = NonceOf(b.st[k], k, draw) /\ w.st[k].mac = b.st[k].mac
            /\ Kin(w.st[k], b.st[k])
        BY <2>1, <2>5, <3>1, <4>1 DEF CgSealedText
      <4>3. b.st[k] = im.st[k] BY <2>4, <3>4 DEF CGs, Slots
      <4>. QED BY <3>4, <4>2, <4>3 DEF Kin, NonceOf, CGs
    <3>5. CASE k = "EA"
      <4>1. /\ w.st[k].nonce = b.st[k].nonce /\ Kin(w.st[k], b.st[k])
        BY <2>1, <2>5, <3>1, <3>5 DEF ExtraText
      <4>2. b.st[k] = im.st[k] BY <2>4, <3>5 DEF Slots
      <4>. QED BY <3>5, <4>1, <4>2 DEF Kin, MacFresh
    <3>6. CASE k = "ED"
      <4>1. /\ w.st[k].nonce = NonceOf(b.st[k], "ED", draw) /\ Kin(w.st[k], b.st[k])
            /\ w.st[k].mac = b.st[k].mac
        BY <2>1, <2>5, <3>1, <3>6 DEF ExtraText
      <4>2. b.st[k] = im.st[k] BY <2>4, <3>6 DEF Slots
      <4>. QED BY <3>6, <4>1, <4>2 DEF Kin, NonceOf
    <3>. QED BY <3>1, <3>2, <3>3, <3>4, <3>5, <3>6 DEF Kinds, Chain, CFs, CGs
  <2>15. EncryptDone(r, im, cpu, type)
    <3>1. r = sealed BY <1>9, <1>13
    <3>2. DOMAIN w.st = DOMAIN im.st /\ Bodies(w, im) BY <1>10, <1>13, <2>1 DEF Bodies
    <3>. HIDE DEF r
    <3>. QED BY <2>1, <2>2, <2>3, <2>6, <2>7, <2>11, <2>12, <2>13, <2>14, <3>1, <3>2 DEF EncryptDone, w
  <2>. QED BY <2>15 DEF r
<1>. QED BY <1>7, <1>10, <1>11, <1>12, <1>13

-----------------------------------------------------------------------------
(* What decrypt_all changes: keystreams and keys, never what a stage states. *)

Opening(m, im) ==
  /\ Frame(m, im, DOMAIN im.st)
  /\ \A k \in DOMAIN im.st : /\ m.st[k].nonce = im.st[k].nonce /\ m.st[k].mac = im.st[k].mac
                             /\ Kin(m.st[k], im.st[k])

\* An image opens to itself.
LEMMA OpeningItself ==
  ASSUME NEW im, ImageShaped(im)
  PROVE  Opening(im, im)
BY DEF Opening, Frame, ImageShaped, Kin

\* Two openings are one.
LEMMA OpeningChain ==
  ASSUME NEW im, NEW m, NEW n, Opening(m, im), Opening(n, m)
  PROVE  Opening(n, im)
<1>1. DOMAIN n.st = DOMAIN im.st /\ DOMAIN m.st = DOMAIN im.st BY DEF Opening, Frame
<1>2. Frame(n, im, DOMAIN im.st) BY DEF Opening, Frame
<1>. QED BY <1>1, <1>2 DEF Opening, Kin

\* Opening keeps shape and flags, and what the CD's key is mixed from.
LEMMA OpeningShaped ==
  ASSUME NEW im, ImageShaped(im), NEW m, Opening(m, im)
  PROVE  /\ ImageShaped(m) /\ SameFlags(m, im) /\ DOMAIN m.st = DOMAIN im.st
         /\ \A k : Has(m, k) <=> Has(im, k)
         /\ RequiresCpuKey(m) <=> RequiresCpuKey(im)
<1>1. ImageShaped(m) BY DEF Opening, Frame, ImageShaped, Has
<1>2. SameFlags(m, im) /\ DOMAIN m.st = DOMAIN im.st BY DEF Opening, Frame, SameFlags
<1>3. \A k : Has(m, k) <=> Has(im, k) BY <1>2 DEF Has
<1>4. RequiresCpuKey(m) <=> RequiresCpuKey(im)
  <2>1. m.st["A"].pair = im.st["A"].pair /\ m.st["A"].mac = im.st["A"].mac
    BY DEF Opening, ImageShaped, Kin
  <2>. QED BY <1>2, <2>1 DEF RequiresCpuKey, StatesConsole, SameFlags
<1>. QED BY <1>1, <1>2, <1>3, <1>4

\* One stage is opened.
StageOpened(r, im, k, t) ==
  /\ r.ok = TRUE /\ r.img.st[k] = t /\ Opening(r.img, im)
  /\ \A j \in DOMAIN im.st \ {k} : r.img.st[j] = im.st[j]

\* Opening one stage.
LEMMA OpeningStage ==
  ASSUME NEW im, ImageShaped(im), NEW k \in DOMAIN im.st, NEW t, DOMAIN t = StageFields,
         t.nonce = im.st[k].nonce, t.mac = im.st[k].mac, Kin(t, im.st[k])
  PROVE  StageOpened(Ok(WithStage(im, k, t)), im, k, t)
<1> DEFINE m == WithStage(im, k, t)
<1>1. Ok(m).ok = TRUE /\ Ok(m).img = m BY DEF Ok
<1>2. Frame(m, im, {k}) /\ m.st[k] = t BY FrameStage
<1>. HIDE DEF m
<1>3. \A j \in DOMAIN im.st \ {k} : m.st[j] = im.st[j] BY <1>2 DEF Frame
<1>4. Opening(m, im) BY <1>2, <1>3 DEF Opening, Frame, Kin
<1>. QED BY <1>1, <1>2, <1>3, <1>4 DEF m, StageOpened

\* The CBs and the SC of a sealed image are opened.
CbsOpen(m, im, cpu) ==
  /\ Opening(m, im)
  /\ Plain(m.st["A"]) /\ m.st["A"].key = KeyA(im)
  /\ Has(im, "X") => Plain(m.st["X"]) /\ m.st["B"].key = im.st["B"].nonce
  /\ Has(im, "B") => Plain(m.st["B"]) /\ m.st["B"].key = HandOff(im, cpu)
  /\ Has(im, "SC") =>
       IF im.st["SC"].nonce = ZeroNonce THEN m.st["SC"] = im.st["SC"]
       ELSE Plain(m.st["SC"]) /\ m.st["SC"].key = KeySc(im)
  /\ \A k \in DOMAIN im.st \ {"A", "X", "B", "SC"} : m.st[k] = im.st[k]

\* open_cb_chain on a sealed chain.
LEMMA CbsOpenStep ==
  ASSUME NEW im, ImageShaped(im), NEW cpu, ChainClosed(im, cpu)
  PROVE  /\ CbChainOpened(im, cpu).ok = TRUE
         /\ CbsOpen(CbChainOpened(im, cpu).img, im, cpu)
<1> DEFINE st == im.st
           a == CbCrypted(st["A"], KeyA(im))
           x == CbCrypted(st["X"], KeyX(im))
           b == IF Has(im, "X") THEN [st["B"] EXCEPT !.dec = TRUE, !.key = st["B"].nonce]
                ELSE CbCrypted(st["B"], KeyB(im, cpu))
           sc == IF ScSealed(im) THEN Keyed(Opened(st["SC"], KeySc(im)), KeySc(im)) ELSE st["SC"]
           stage(k) == CASE k = "A" -> a [] k = "X" -> x [] k = "B" -> b [] k = "SC" -> sc
                         [] OTHER -> st[k]
           opened == [im EXCEPT !.st = [k \in DOMAIN im.st |-> stage(k)]]
           m == CbChainOpened(im, cpu).img
<1>1. /\ {"A", "CD"} \subseteq DOMAIN st /\ \A k \in DOMAIN st : DOMAIN st[k] = StageFields
      /\ Under(st["A"], KeyA(im)) /\ IsNonce(KeyA(im))
  <2>1. {"A", "CD"} \subseteq DOMAIN st /\ \A k \in DOMAIN st : DOMAIN st[k] = StageFields
    BY DEF ImageShaped
  <2>2. IsNonce(KeyA(im)) BY <2>1, KeysHold DEF KeyA, ImageShaped
  <2>. QED BY <2>1, <2>2 DEF ChainClosed
<1>2. /\ DOMAIN a = StageFields /\ Plain(a) /\ a.key = KeyA(im)
      /\ a.nonce = st["A"].nonce /\ a.mac = st["A"].mac /\ Kin(a, st["A"])
  BY <1>1, CbOpens
<1>3. Has(im, "X") =>
        /\ Under(st["X"], KeyX(im)) /\ Has(im, "B")
        /\ DOMAIN x = StageFields /\ Plain(x) /\ x.nonce = st["X"].nonce /\ x.mac = st["X"].mac
        /\ Kin(x, st["X"])
  BY <1>1, CbOpens DEF ChainClosed, Has, ImageShaped
<1>4. Has(im, "B") =>
        /\ DOMAIN b = StageFields /\ Plain(b) /\ b.nonce = st["B"].nonce /\ b.mac = st["B"].mac
        /\ Kin(b, st["B"]) /\ b.key = HandOff(im, cpu)
        /\ Has(im, "X") => b.key = st["B"].nonce
  <2>1. CASE Has(im, "B") /\ Has(im, "X")
    <3>1. DOMAIN st["B"] = StageFields /\ Plain(st["B"]) /\ st["B"].key \in {NoKey, st["B"].nonce}
      BY <1>1, <2>1 DEF ChainClosed, Has
    <3>2. HandOff(im, cpu) = st["B"].nonce BY <2>1, <3>1 DEF HandOff
    <3>. QED BY <2>1, <3>1, <3>2 DEF StageFields, Plain, Kin
  <2>2. CASE Has(im, "B") /\ ~Has(im, "X")
    <3>1. DOMAIN st["B"] = StageFields /\ Under(st["B"], KeyB(im, cpu))
      BY <1>1, <2>2 DEF ChainClosed, Has
    <3>2. b = CbCrypted(st["B"], KeyB(im, cpu)) /\ HandOff(im, cpu) = KeyB(im, cpu)
      BY <2>2 DEF HandOff
    <3>. HIDE DEF b
    <3>. QED BY <2>2, <3>1, <3>2, CbOpens
  <2>. QED BY <2>1, <2>2
<1>5. Has(im, "SC") =>
        /\ DOMAIN sc = StageFields /\ sc.nonce = st["SC"].nonce /\ sc.mac = st["SC"].mac
        /\ Kin(sc, st["SC"])
        /\ IF st["SC"].nonce = ZeroNonce THEN sc = st["SC"] ELSE Plain(sc) /\ sc.key = KeySc(im)
  <2>1. CASE Has(im, "SC") /\ st["SC"].nonce = ZeroNonce
    BY <1>1, <2>1 DEF ScSealed, Kin, Has
  <2>2. CASE Has(im, "SC") /\ st["SC"].nonce # ZeroNonce
    <3>1. DOMAIN st["SC"] = StageFields /\ Under(st["SC"], KeySc(im))
      BY <1>1, <2>2 DEF ChainClosed, ScKept, Has, Under
    <3>2. sc = Keyed(Opened(st["SC"], KeySc(im)), KeySc(im))
      BY <2>2, <3>1 DEF ScSealed, Under
    <3>. HIDE DEF sc
    <3>. QED BY <2>2, <3>1, <3>2, StageKeyOpens
  <2>. QED BY <2>1, <2>2
<1>6. CbChainOpened(im, cpu) = Ok(opened)
  <2>1. st["A"].dec = FALSE BY <1>1 DEF Under
  <2>2. a.key # NoKey BY <1>1, <1>2, NonceNotNoKey
  <2>3. CbCrypted(st["A"], OneBl \o st["A"].nonce) = a BY DEF KeyA
  <2>4. /\ Has(im, "X") => st["X"].dec = FALSE /\ CbXKey(im, a.key, st["X"].nonce) = KeyX(im)
        /\ Has(im, "B") /\ ~Has(im, "X") =>
             st["B"].dec = FALSE /\ CbBKey(im, a.key, st["B"].nonce, cpu) = KeyB(im, cpu)
    BY <1>2, <1>3 DEF ChainClosed, Under, KeyX, KeyB
  <2>. HIDE DEF a
  <2> DEFINE x1 == IF st["X"].dec THEN st["X"]
                   ELSE CbCrypted(st["X"], CbXKey(im, a.key, st["X"].nonce))
             b1 == IF Has(im, "X") THEN [st["B"] EXCEPT !.dec = TRUE, !.key = st["B"].nonce]
                   ELSE IF st["B"].dec THEN st["B"]
                   ELSE CbCrypted(st["B"], CbBKey(im, a.key, st["B"].nonce, cpu))
             stage1(k) == CASE k = "A" -> a [] k = "X" -> x1 [] k = "B" -> b1 [] k = "SC" -> sc
                            [] OTHER -> st[k]
             opened1 == [im EXCEPT !.st = [k \in DOMAIN im.st |-> stage1(k)]]
  <2>5. CbChainOpened(im, cpu) = Ok(opened1)
    BY <2>1, <2>2, <2>3 DEF CbChainOpened, KeySc
  <2>6. (Has(im, "X") => x1 = x) /\ (Has(im, "B") => b1 = b)
    BY <2>4
  <2>7. \A k \in DOMAIN im.st : stage1(k) = stage(k)
    <3>. HIDE DEF x, x1, b, b1, sc
    <3>. QED BY <2>6 DEF Has
  <2>8. [k \in DOMAIN im.st |-> stage1(k)] = [k \in DOMAIN im.st |-> stage(k)]
    <3>. HIDE DEF stage, stage1
    <3>. QED BY <2>7
  <2>. QED BY <2>5, <2>8
<1>. HIDE DEF a, x, b, sc
<1>7. /\ stage("A") = a /\ stage("X") = x /\ stage("B") = b /\ stage("SC") = sc
      /\ \A k \in DOMAIN im.st \ {"A", "X", "B", "SC"} : stage(k) = st[k]
  OBVIOUS
<1>. HIDE DEF stage
<1>8. /\ m.st = [k \in DOMAIN st |-> stage(k)] /\ DOMAIN m = ImageFields
      /\ m.sb = im.sb /\ m.mfg = im.mfg /\ m.v2 = im.v2 /\ m.newCb = im.newCb
      /\ m.smc = im.smc /\ m.smcSealed = im.smcSealed /\ m.spills = im.spills /\ m.room = im.room
  <2>1. DOMAIN im = ImageFields BY DEF ImageShaped
  <2>2. m = opened BY <1>6 DEF Ok
  <2>. QED BY <2>1, <2>2 DEF ImageFields
<1>9. CbChainOpened(im, cpu).ok = TRUE BY <1>6 DEF Ok
<1>. HIDE DEF m
<1>10. /\ m.st["A"] = a
       /\ Has(im, "X") => m.st["X"] = x
       /\ Has(im, "B") => m.st["B"] = b
       /\ Has(im, "SC") => m.st["SC"] = sc
       /\ \A k \in DOMAIN im.st \ {"A", "X", "B", "SC"} : m.st[k] = st[k]
  BY <1>1, <1>7, <1>8 DEF Has
<1>11. \A k \in DOMAIN st : /\ DOMAIN m.st[k] = StageFields /\ m.st[k].nonce = st[k].nonce
                            /\ m.st[k].mac = st[k].mac /\ Kin(m.st[k], st[k])
  <2>. SUFFICES ASSUME NEW k \in DOMAIN st
                PROVE  /\ DOMAIN m.st[k] = StageFields /\ m.st[k].nonce = st[k].nonce
                       /\ m.st[k].mac = st[k].mac /\ Kin(m.st[k], st[k])
    OBVIOUS
  <2>1. CASE k = "A" BY <1>2, <1>10, <2>1
  <2>2. CASE k = "X" BY <1>3, <1>10, <2>2 DEF Has
  <2>3. CASE k = "B" BY <1>4, <1>10, <2>3 DEF Has
  <2>4. CASE k = "SC" BY <1>5, <1>10, <2>4 DEF Has
  <2>5. CASE k \notin {"A", "X", "B", "SC"} BY <1>1, <1>10, <2>5 DEF Kin
  <2>. QED BY <2>1, <2>2, <2>3, <2>4, <2>5
<1>12. Opening(m, im)
  BY <1>8, <1>11 DEF Opening, Frame
<1>13. CbsOpen(m, im, cpu)
  BY <1>2, <1>3, <1>4, <1>5, <1>10, <1>12 DEF CbsOpen
<1>. QED BY <1>9, <1>13 DEF m

\* The CD, the CE and the update slots.
CdOpenDone(r, im, b, cpu) ==
  /\ r.ok = TRUE /\ Opening(r.img, b) /\ Plain(r.img.st["CD"])
  /\ r.img.st["CD"].key = KeyCd(im, cpu)
  /\ \A j \in DOMAIN im.st \ {"CD"} : r.img.st[j] = b.st[j]

\* open_kernel on the CD, with the CBs open.
LEMMA CdOpenStep ==
  ASSUME NEW im, ImageShaped(im), NEW cpu, ChainClosed(im, cpu), NEW b, CbsOpen(b, im, cpu)
  PROVE  CdOpenDone(CdOpened(b, cpu), im, b, cpu)
<1> DEFINE r == CdOpened(b, cpu)
           s == b.st["CD"]
           keyB == Has(b, "B") /\ b.st["B"].key # NoKey
           parent == IF b.sb THEN b.st["SC"].key
                     ELSE IF keyB THEN b.st["B"].key
                     ELSE b.st["A"].key
           key == CdKey(parent, s.nonce, ~b.sb /\ ~keyB /\ RequiresCpuKey(b), cpu)
           t == Keyed(Opened(s, key), key)
<1>1. Opening(b, im) BY DEF CbsOpen
<1>2. /\ ImageShaped(b) /\ SameFlags(b, im) /\ DOMAIN b.st = DOMAIN im.st
      /\ \A k : Has(b, k) <=> Has(im, k)
      /\ RequiresCpuKey(b) <=> RequiresCpuKey(im)
  BY <1>1, OpeningShaped
<1>3. /\ "CD" \in DOMAIN im.st /\ "CD" \in DOMAIN b.st /\ s = im.st["CD"] /\ DOMAIN s = StageFields
      /\ Under(s, KeyCd(im, cpu)) /\ IsNonce(s.nonce)
  <2>1. "CD" \in DOMAIN im.st /\ s = im.st["CD"] BY DEF ImageShaped, CbsOpen
  <2>. QED BY <1>2, <2>1 DEF ImageShaped, ChainClosed
<1>4. Has(im, "B") => IsNonce(HandOff(im, cpu))
  <2>1. IsNonce(KeyA(im)) BY KeysHold DEF KeyA, ImageShaped
  <2>2. Has(im, "B") => IsNonce(im.st["B"].nonce) /\ IsNonce(KeyB(im, cpu))
    BY <2>1, KeysHold DEF ImageShaped, Has, KeyB
  <2>. QED BY <2>2 DEF HandOff, ChainClosed
<1>5. keyB <=> Has(im, "B")
  <2>1. Has(im, "B") => b.st["B"].key = HandOff(im, cpu) BY DEF CbsOpen
  <2>. QED BY <1>2, <1>4, <2>1, NonceNotNoKey
<1>6. /\ parent # NoKey /\ key = KeyCd(im, cpu)
  <2>1. b.sb = im.sb BY <1>2 DEF SameFlags
  <2>2. CASE im.sb
    <3>1. Has(im, "SC") /\ im.st["SC"].nonce # ZeroNonce /\ IsNonce(KeySc(im))
      BY <2>2, KeysHold DEF ImageShaped, ChainClosed, Has, KeySc
    <3>2. parent = KeySc(im) BY <2>1, <2>2, <3>1 DEF CbsOpen
    <3>. HIDE DEF parent, s, keyB
    <3>. QED BY <1>3, <2>1, <2>2, <3>1, <3>2, NonceNotNoKey DEF KeyCd, CdKey
  <2>3. CASE ~im.sb /\ Has(im, "B")
    <3>1. parent = HandOff(im, cpu) BY <1>5, <2>1, <2>3 DEF CbsOpen
    <3>. HIDE DEF parent, s, keyB
    <3>. QED BY <1>3, <1>4, <1>5, <2>1, <2>3, <3>1, NonceNotNoKey DEF KeyCd, CdKey
  <2>4. CASE ~im.sb /\ ~Has(im, "B")
    <3>1. parent = KeyA(im) BY <1>5, <2>1, <2>4 DEF CbsOpen
    <3>2. IsNonce(KeyA(im)) BY KeysHold DEF KeyA, ImageShaped
    <3>. HIDE DEF parent, s, keyB
    <3>. QED BY <1>2, <1>3, <1>5, <2>1, <2>4, <3>1, <3>2, NonceNotNoKey DEF KeyCd, CdKey
  <2>5. im.sb \in BOOLEAN BY DEF ImageShaped
  <2>. QED BY <2>2, <2>3, <2>4, <2>5
<1>7. r = Ok(WithStage(b, "CD", t))
  <2>1. s.dec = FALSE BY <1>3 DEF Under
  <2>. QED BY <1>6, <2>1 DEF CdOpened
<1>. HIDE DEF key, parent, keyB, s, r
<1>8. /\ DOMAIN t = StageFields /\ Plain(t) /\ t.key = KeyCd(im, cpu)
      /\ t.nonce = s.nonce /\ t.mac = s.mac /\ Kin(t, s)
  BY <1>3, <1>6, StageKeyOpens
<1>. HIDE DEF t
<1>9. StageOpened(r, b, "CD", t)
  <2>1. StageOpened(Ok(WithStage(b, "CD", t)), b, "CD", t)
    BY <1>2, <1>3, <1>8, OpeningStage DEF s
  <2>. QED BY <1>7, <2>1
<1>. QED BY <1>2, <1>8, <1>9 DEF r, StageOpened, CdOpenDone

CeOpenDone(r, im, d) ==
  /\ r.ok = TRUE /\ Opening(r.img, d)
  /\ Has(im, "CE") => Plain(r.img.st["CE"])
  /\ \A j \in DOMAIN im.st \ {"CE"} : r.img.st[j] = d.st[j]

\* open_kernel on the CE, with the CD open and its key noted.
LEMMA CeOpenStep ==
  ASSUME NEW im, ImageShaped(im), NEW cpu, NEW d, Opening(d, im), NEW parent, IsNonce(parent),
         Plain(d.st["CD"]), d.st["CD"].key = parent,
         Has(im, "CE") => d.st["CE"] = im.st["CE"] /\ Under(im.st["CE"], parent \o im.st["CE"].nonce)
  PROVE  CeOpenDone(CeOpened(d), im, d)
<1> DEFINE r == CeOpened(d)
           s == im.st["CE"]
           t == Opened(s, parent \o s.nonce)
<1>1. ImageShaped(d) /\ DOMAIN d.st = DOMAIN im.st /\ \A k : Has(d, k) <=> Has(im, k)
  BY OpeningShaped
<1>2. parent # NoKey BY NonceNotNoKey
<1>3. CASE ~Has(im, "CE")
  <2>1. r = Ok(d) BY <1>1, <1>3 DEF CeOpened
  <2>2. r.ok = TRUE /\ r.img = d BY <2>1 DEF Ok
  <2>. HIDE DEF r
  <2>. QED BY <1>1, <1>3, <2>2, OpeningItself DEF r, CeOpenDone
<1>4. CASE Has(im, "CE")
  <2>0. DOMAIN s = StageFields /\ "CE" \in DOMAIN d.st BY <1>1, <1>4 DEF ImageShaped, Has
  <2>1. r = Ok(WithStage(d, "CE", t))
    BY <1>1, <1>2, <1>4 DEF CeOpened, Plain, Under
  <2>2. /\ DOMAIN t = StageFields /\ Plain(t)
        /\ t.nonce = s.nonce /\ t.mac = s.mac /\ Kin(t, s)
    BY <1>4, <2>0, StageOpens
  <2>. HIDE DEF t, r
  <2>3. StageOpened(r, d, "CE", t)
    <3>1. StageOpened(Ok(WithStage(d, "CE", t)), d, "CE", t)
      BY <1>1, <1>4, <2>0, <2>2, OpeningStage
    <3>. QED BY <2>1, <3>1
  <2>. QED BY <1>1, <2>2, <2>3 DEF r, StageOpened, CeOpenDone
<1>. QED BY <1>3, <1>4

SlotsOpenDone(r, im) ==
  /\ r.ok = TRUE /\ Opening(r.img, im)
  /\ \A k \in (CFs \cup CGs) \cap DOMAIN im.st : Plain(r.img.st[k])
  /\ \A k \in DOMAIN im.st \ (CFs \cup CGs) : r.img.st[k] = im.st[k]

\* open_update_slots, on slots plain or sealed.
LEMMA SlotsOpenStep ==
  ASSUME NEW im, ImageShaped(im), SlotsEither(im)
  PROVE  SlotsOpenDone(SlotsOpened(im), im)
<1> DEFINE st == im.st
           cf(f) == IF IsDecryptedCf(st[f]) THEN st[f] ELSE OpenedCf(st[f])
           cg(g, f) == Opened(st[g], CgKey(f, cf(f)) \o st[g].nonce)
           stage(k) ==
             CASE k \in CFs -> cf(k)
               [] k = "G0" -> Opened(st[k], CgKey("F0", cf("F0")) \o st[k].nonce)
               [] k = "G1" -> Opened(st[k], CgKey("F1", cf("F1")) \o st[k].nonce)
               [] OTHER -> st[k]
           opened == [im EXCEPT !.st = [k \in DOMAIN im.st |-> stage(k)]]
           r == SlotsOpened(im)
           m == r.img
<1>1. r = Ok(opened) BY DEF SlotsOpened
<1>2. \A k \in DOMAIN st : DOMAIN st[k] = StageFields BY DEF ImageShaped
<1>3. ASSUME NEW f \in CFs \cap DOMAIN st
      PROVE  /\ DOMAIN cf(f) = StageFields /\ Plain(cf(f)) /\ cf(f).nonce = st[f].nonce
             /\ cf(f).mac = st[f].mac /\ Kin(cf(f), st[f])
  <2>1. CASE Plain(st[f])
    <3>1. cf(f) = st[f] BY <2>1 DEF IsDecryptedCf, Plain
    <3>. HIDE DEF cf
    <3>. QED BY <1>2, <2>1, <3>1 DEF Kin
  <2>2. CASE Under(st[f], OneBl \o st[f].nonce)
    <3> DEFINE o == Opened(st[f], OneBl \o st[f].nonce)
    <3>1. /\ DOMAIN o = StageFields /\ Plain(o) /\ o.nonce = st[f].nonce
          /\ o.mac = st[f].mac /\ Kin(o, st[f])
      BY <1>2, <2>2, StageOpens
    <3>2. cf(f) = OpenedCf(st[f]) BY <2>2 DEF IsDecryptedCf, Under
    <3>3. OpenedCf(st[f]) = o BY <3>1 DEF OpenedCf, Plain
    <3>. HIDE DEF o, cf
    <3>. QED BY <3>1, <3>2, <3>3
  <2>. QED BY <2>1, <2>2 DEF SlotsEither, SlotKey
<1>. HIDE DEF cf
<1>4. ASSUME NEW f \in CFs, CgOf(f) \in DOMAIN st
      PROVE  LET g == CgOf(f)
                 t == cg(g, f)
             IN  /\ DOMAIN t = StageFields /\ Plain(t) /\ t.nonce = st[g].nonce
                 /\ t.mac = st[g].mac /\ Kin(t, st[g])
  <2> DEFINE g == CgOf(f)
             t == cg(g, f)
  <2>1. f \in DOMAIN st /\ g \in CGs /\ DOMAIN st[g] = StageFields
    BY <1>2, <1>4 DEF ImageShaped, CgOf, CGs
  <2>2. cf(f).under = {} BY <1>3, <2>1 DEF Plain
  <2>3. CASE Plain(st[g])
    <3>1. t = st[g] BY <2>3 DEF Opened, Plain
    <3>. HIDE DEF t
    <3>. QED BY <2>1, <2>3, <3>1 DEF t, Kin
  <2>4. CASE Under(st[g], SlotKey(im, g))
    <3>1. SlotKey(im, g) = <<f, "7bl">> \o st[g].nonce
      BY DEF SlotKey, CFs, CgOf
    <3>2. t = Opened(st[g], SlotKey(im, g)) BY <2>2, <3>1 DEF CgKey
    <3>. HIDE DEF t, g
    <3>. QED BY <2>1, <2>4, <3>2, StageOpens DEF t, g
  <2>5. Plain(st[g]) \/ Under(st[g], SlotKey(im, g)) BY <1>4, <2>1 DEF SlotsEither
  <2>. QED BY <2>3, <2>4, <2>5
<1>5. /\ m.st = [k \in DOMAIN st |-> stage(k)] /\ DOMAIN m = ImageFields
      /\ m.sb = im.sb /\ m.mfg = im.mfg /\ m.v2 = im.v2 /\ m.newCb = im.newCb
      /\ m.smc = im.smc /\ m.smcSealed = im.smcSealed /\ m.spills = im.spills /\ m.room = im.room
      /\ r.ok = TRUE
  <2>1. DOMAIN im = ImageFields BY DEF ImageShaped
  <2>2. m = opened /\ r.ok = TRUE BY <1>1 DEF Ok
  <2>. HIDE DEF stage, m, r
  <2>. QED BY <2>1, <2>2 DEF ImageFields
<1>6. /\ \A k \in CFs : stage(k) = cf(k)
      /\ stage("G0") = cg("G0", "F0") /\ stage("G1") = cg("G1", "F1")
      /\ \A k \in DOMAIN im.st \ (CFs \cup CGs) : stage(k) = st[k]
  <2>1. \A k \in CFs : stage(k) = cf(k) BY DEF CFs
  <2>2. stage("G0") = cg("G0", "F0") /\ stage("G1") = cg("G1", "F1") BY DEF CFs
  <2>3. \A k \in DOMAIN im.st \ (CFs \cup CGs) : stage(k) = st[k] BY DEF CGs
  <2>. QED BY <2>1, <2>2, <2>3
<1>. HIDE DEF stage, m, r
<1>7. \A k \in DOMAIN st : /\ DOMAIN m.st[k] = StageFields /\ m.st[k].nonce = st[k].nonce
                           /\ m.st[k].mac = st[k].mac /\ Kin(m.st[k], st[k])
                           /\ k \in CFs \cup CGs => Plain(m.st[k])
                           /\ k \notin CFs \cup CGs => m.st[k] = st[k]
  <2>. SUFFICES ASSUME NEW k \in DOMAIN st
                PROVE  /\ DOMAIN m.st[k] = StageFields /\ m.st[k].nonce = st[k].nonce
                       /\ m.st[k].mac = st[k].mac /\ Kin(m.st[k], st[k])
                       /\ k \in CFs \cup CGs => Plain(m.st[k])
                       /\ k \notin CFs \cup CGs => m.st[k] = st[k]
    OBVIOUS
  <2>0. m.st[k] = stage(k) BY <1>5
  <2>1. CASE k \in CFs
    <3>1. m.st[k] = cf(k) /\ k \in CFs \cap DOMAIN st BY <1>6, <2>0, <2>1
    <3>. QED BY <1>3, <2>1, <3>1
  <2>2. CASE k \in CGs
    <3>1. PICK f \in CFs : CgOf(f) = k /\ stage(k) = cg(k, f)
      BY <1>6, <2>2 DEF CFs, CGs, CgOf
    <3>. HIDE DEF cg
    <3>. QED BY <1>4, <2>0, <2>2, <3>1
  <2>3. CASE k \notin CFs \cup CGs
    <3>1. m.st[k] = st[k] BY <1>6, <2>0, <2>3
    <3>. QED BY <1>2, <2>3, <3>1 DEF Kin
  <2>. QED BY <2>1, <2>2, <2>3
<1>8. Opening(m, im) BY <1>5, <1>7 DEF Opening, Frame
<1>. QED BY <1>5, <1>7, <1>8 DEF m, r, SlotsOpenDone

\* decrypt_all on a sealed image.
DecryptDone(r, im, cpu) ==
  LET m == r.img
  IN  /\ r.ok \in BOOLEAN
      /\ r.ok = TRUE =>
           /\ ImageShaped(m) /\ SameFlags(m, im) /\ DOMAIN m.st = DOMAIN im.st /\ Bodies(m, im)
           /\ m.smc = im.smc /\ m.spills = im.spills /\ AllOpen(m)
           /\ \A k \in DOMAIN im.st : SameText(m.st[k], im.st[k])

\* The whole decrypt_all: every stage plain, its text kept.
LEMMA DecryptStep ==
  ASSUME NEW im, ImageShaped(im), NEW cpu, ChainClosed(im, cpu), SlotsEither(im),
         ~Has(im, "EA"), ~Has(im, "ED")
  PROVE  DecryptDone(DecryptAll(im, cpu), im, cpu)
<1> DEFINE cb == CbChainOpened(im, cpu)
           cd == CdOpened(cb.img, cpu)
           ce == CeOpened(cd.img)
           slots == SlotsOpened(ce.img)
           smc == SmcKvOpened(slots.img, cpu)
           r == DecryptAll(im, cpu)
           m == slots.img
           w == smc.img
<1>1. cb.ok = TRUE /\ CbsOpen(cb.img, im, cpu) BY CbsOpenStep
<1>. HIDE DEF cb
<1>2. /\ cd.ok = TRUE /\ Opening(cd.img, cb.img) /\ Plain(cd.img.st["CD"])
      /\ cd.img.st["CD"].key = KeyCd(im, cpu)
      /\ \A j \in DOMAIN im.st \ {"CD"} : cd.img.st[j] = cb.img.st[j]
  <2>1. CdOpenDone(cd, im, cb.img, cpu) BY <1>1, CdOpenStep
  <2>. HIDE DEF cd
  <2>. QED BY <2>1 DEF CdOpenDone
<1>. HIDE DEF cd
<1>3. Opening(cb.img, im) /\ Opening(cd.img, im)
  BY <1>1, <1>2, OpeningChain DEF CbsOpen
<1>4. /\ ce.ok = TRUE /\ Opening(ce.img, cd.img)
      /\ Has(im, "CE") => Plain(ce.img.st["CE"])
      /\ \A j \in DOMAIN im.st \ {"CE"} : ce.img.st[j] = cd.img.st[j]
  <2>1. IsNonce(KeyCd(im, cpu))
    <3>1. IsNonce(KeyA(im)) /\ IsNonce(im.st["CD"].nonce) BY KeysHold DEF KeyA, ImageShaped
    <3>2. im.sb => IsNonce(KeySc(im)) BY KeysHold DEF KeySc, ImageShaped, Has
    <3>3. Has(im, "B") => IsNonce(HandOff(im, cpu))
      <4>1. Has(im, "B") => IsNonce(im.st["B"].nonce) /\ IsNonce(KeyB(im, cpu))
        BY <3>1, KeysHold DEF ImageShaped, Has, KeyB
      <4>. QED BY <4>1 DEF HandOff, ChainClosed
    <3>. QED BY <3>1, <3>2, <3>3, KeysHold DEF KeyCd
  <2>2. Has(im, "CE") => /\ cd.img.st["CE"] = im.st["CE"]
                         /\ Under(im.st["CE"], KeyCd(im, cpu) \o im.st["CE"].nonce)
    BY <1>1, <1>2 DEF CbsOpen, Has, ChainClosed, KeyCe
  <2>3. CeOpenDone(ce, im, cd.img) BY <1>2, <1>3, <2>1, <2>2, CeOpenStep
  <2>. HIDE DEF ce
  <2>. QED BY <2>3 DEF CeOpenDone
<1>. HIDE DEF ce
<1>5. Opening(ce.img, im) BY <1>3, <1>4, OpeningChain
<1>6. ImageShaped(ce.img) /\ DOMAIN ce.img.st = DOMAIN im.st BY <1>5, OpeningShaped
<1>7. \A k \in (CFs \cup CGs) \cap DOMAIN im.st : ce.img.st[k] = im.st[k]
  BY <1>1, <1>2, <1>4 DEF CbsOpen, CFs, CGs
<1>8. SlotsEither(ce.img)
  BY <1>6, <1>7 DEF SlotsEither, SlotKey
<1>9. /\ slots.ok = TRUE /\ Opening(m, ce.img)
      /\ \A k \in (CFs \cup CGs) \cap DOMAIN im.st : Plain(m.st[k])
      /\ \A k \in DOMAIN im.st \ (CFs \cup CGs) : m.st[k] = ce.img.st[k]
  <2>1. SlotsOpenDone(slots, ce.img) BY <1>6, <1>8, SlotsOpenStep
  <2>. HIDE DEF slots
  <2>. QED BY <1>6, <2>1 DEF SlotsOpenDone
<1>. HIDE DEF slots
<1>10. Opening(m, im) BY <1>5, <1>9, OpeningChain
<1>11. /\ ImageShaped(m) /\ SameFlags(m, im) /\ DOMAIN m.st = DOMAIN im.st
       /\ \A k : Has(m, k) <=> Has(im, k)
  BY <1>10, OpeningShaped
<1>12. r = smc
  BY <1>1, <1>2, <1>4, <1>9 DEF DecryptAll, Then, cb, cd, ce, slots
<1>13. /\ smc.ok \in BOOLEAN /\ w.st = m.st /\ SameFlags(w, m) /\ w.smc = m.smc
       /\ w.spills = m.spills /\ DOMAIN w = ImageFields
  <2>1. DOMAIN m = ImageFields BY <1>11 DEF ImageShaped
  <2> DEFINE opened == [m EXCEPT !.smcSealed = FALSE, !.kv = IF @ = cpu THEN "clear" ELSE @]
             failed == [m EXCEPT !.smcSealed = FALSE]
  <2>2. smc = Failed(failed) \/ smc = Ok(opened) BY DEF SmcKvOpened
  <2>3. CASE smc = Failed(failed)
    <3>1. smc.ok = FALSE /\ w = failed BY <2>3 DEF Failed
    <3>. HIDE DEF smc
    <3>. QED BY <2>1, <3>1 DEF SameFlags, ImageFields
  <2>4. CASE smc = Ok(opened)
    <3>1. smc.ok = TRUE /\ w = opened BY <2>4 DEF Ok
    <3>. HIDE DEF smc
    <3>. QED BY <2>1, <3>1 DEF SameFlags, ImageFields
  <2>. QED BY <2>2, <2>3, <2>4
<1>. HIDE DEF smc, m, w, r
<1>14. ImageShaped(w)
  BY <1>11, <1>13 DEF ImageShaped, SameFlags, Has
<1>15. AllOpen(w)
  <2>1. \A k \in DOMAIN im.st \ {"SC"} : Plain(m.st[k])
    <3>. SUFFICES ASSUME NEW k \in DOMAIN im.st \ {"SC"} PROVE Plain(m.st[k]) OBVIOUS
    <3>1. CASE k \in CFs \cup CGs BY <1>9, <3>1
    <3>2. CASE k = "CE" BY <1>4, <1>9, <3>2 DEF Has, CFs, CGs
    <3>3. CASE k = "CD" BY <1>2, <1>4, <1>9, <3>3 DEF CFs, CGs
    <3>4. CASE k \in {"A", "X", "B"}
      <4>1. m.st[k] = cb.img.st[k] BY <1>2, <1>4, <1>9, <3>4 DEF CFs, CGs
      <4>. QED BY <1>1, <3>4, <4>1 DEF CbsOpen, Has
    <3>. QED BY <3>1, <3>2, <3>3, <3>4 DEF ImageShaped, Kinds, CFs, CGs, Has
  <2>2. Has(im, "X") => m.st["B"].key = m.st["B"].nonce
    <3>. SUFFICES ASSUME Has(im, "X") PROVE m.st["B"].key = m.st["B"].nonce OBVIOUS
    <3>1. Has(im, "B") BY DEF ImageShaped
    <3>2. m.st["B"] = cb.img.st["B"] BY <1>2, <1>4, <1>9, <3>1 DEF CFs, CGs, Has
    <3>3. m.st["B"].nonce = im.st["B"].nonce BY <1>10, <3>1 DEF Opening, Has
    <3>. QED BY <1>1, <3>2, <3>3 DEF CbsOpen
  <2>3. Has(im, "SC") => \/ Plain(m.st["SC"]) /\ m.st["SC"].nonce # ZeroNonce
                         \/ m.st["SC"].nonce = ZeroNonce /\ m.st["SC"].under = {}
                            /\ m.st["SC"].dec = FALSE /\ ~im.sb
    <3>. SUFFICES ASSUME Has(im, "SC")
                  PROVE  \/ Plain(m.st["SC"]) /\ m.st["SC"].nonce # ZeroNonce
                         \/ m.st["SC"].nonce = ZeroNonce /\ m.st["SC"].under = {}
                            /\ m.st["SC"].dec = FALSE /\ ~im.sb
      OBVIOUS
    <3>1. m.st["SC"] = cb.img.st["SC"] BY <1>2, <1>4, <1>9 DEF CFs, CGs, Has
    <3>2. m.st["SC"].nonce = im.st["SC"].nonce BY <1>10 DEF Opening, Has
    <3>3. CASE im.st["SC"].nonce = ZeroNonce
      <4>1. ~im.sb BY <3>3 DEF ChainClosed
      <4>. QED BY <1>1, <3>1, <3>3, <4>1 DEF CbsOpen, ChainClosed, ScKept
    <3>4. CASE im.st["SC"].nonce # ZeroNonce BY <1>1, <3>1, <3>2, <3>4 DEF CbsOpen
    <3>. QED BY <3>3, <3>4
  <2>4. DOMAIN w.st = DOMAIN im.st /\ w.st = m.st /\ w.sb = im.sb
    BY <1>11, <1>13 DEF SameFlags
  <2>. QED BY <2>1, <2>2, <2>3, <2>4 DEF AllOpen, Has
<1>16. \A k \in DOMAIN im.st : SameText(w.st[k], im.st[k]) /\ w.st[k].body = im.st[k].body
  BY <1>10, <1>13 DEF Opening, Kin, SameText
<1>17. m.smc = im.smc /\ m.spills = im.spills BY <1>10 DEF Opening, Frame
<1>18. DecryptDone(smc, im, cpu)
  BY <1>11, <1>13, <1>14, <1>15, <1>16, <1>17 DEF DecryptDone, Bodies, SameFlags, w
<1>. QED BY <1>12, <1>18 DEF r

-----------------------------------------------------------------------------
(* An image read back, opened or edited states what the written one stated. *)

Copies(n, m) ==
  /\ SameFlags(n, m) /\ n.spills = m.spills
  /\ DOMAIN n.st = DOMAIN m.st \/ DOMAIN n.st = DOMAIN m.st \ Extra
  /\ \A k \in DOMAIN n.st : SameText(n.st[k], m.st[k])

\* A copy of an image derives the same keys.
LEMMA CopyKeys ==
  ASSUME NEW m, ImageShaped(m), Has(m, "ED") => Has(m, "EA"), NEW n, Copies(n, m), NEW type,
         NEW cpu
  PROVE  /\ \A k \in Kinds \ Extra : Has(n, k) <=> Has(m, k)
         /\ RequiresCpuKey(n) <=> RequiresCpuKey(m)
         /\ CdNeedsCpuKey(n) <=> CdNeedsCpuKey(m)
         /\ \A k \in DOMAIN n.st : BootKey(n, type, cpu, k) = BootKey(m, type, cpu, k)
<1>1. \A k \in Kinds \ Extra : Has(n, k) <=> Has(m, k) BY DEF Copies, Has
<1>2. /\ {"A", "CD"} \subseteq DOMAIN n.st /\ DOMAIN n.st \subseteq Kinds
      /\ m.sb => "SC" \in DOMAIN n.st
      /\ Has(m, "X") => Has(n, "B")
  BY <1>1 DEF ImageShaped, Copies, Has, Kinds, Extra
<1>3. \A k \in DOMAIN n.st : n.st[k].nonce = m.st[k].nonce
  BY DEF Copies, SameText
<1>4. RequiresCpuKey(n) <=> RequiresCpuKey(m)
  <2>1. n.st["A"].pair = m.st["A"].pair /\ n.st["A"].mac = m.st["A"].mac
    BY <1>2 DEF Copies, SameText
  <2>. QED BY <2>1 DEF RequiresCpuKey, StatesConsole, Copies, SameFlags
<1>5. Has(n, "B") <=> Has(m, "B") BY <1>1 DEF Kinds, Extra
<1>6. Has(n, "X") <=> Has(m, "X") BY <1>1 DEF Kinds, Extra
<1>7. CdNeedsCpuKey(n) <=> CdNeedsCpuKey(m)
  BY <1>4, <1>5 DEF CdNeedsCpuKey, Copies, SameFlags
<1> DEFINE keyA(im) == OneBl \o im.st["A"].nonce
           keyB(im) == IF Has(im, "X") THEN im.st["B"].nonce
                       ELSE CbBKey(im, keyA(im), im.st["B"].nonce, cpu)
           keyCd(im) == IF im.sb THEN CdKey(ZeroSecret \o im.st["SC"].nonce, im.st["CD"].nonce, FALSE, cpu)
                        ELSE IF Has(im, "B") THEN CdKey(keyB(im), im.st["CD"].nonce, FALSE, cpu)
                        ELSE CdKey(keyA(im), im.st["CD"].nonce, RequiresCpuKey(im), cpu)
<1>8. keyA(n) = keyA(m) BY <1>2, <1>3
<1>9. Has(n, "B") => keyB(n) = keyB(m)
  <2>. SUFFICES ASSUME Has(n, "B") PROVE keyB(n) = keyB(m) OBVIOUS
  <2>1. n.st["B"].nonce = m.st["B"].nonce BY <1>3 DEF Has
  <2>. HIDE DEF keyA
  <2>. QED BY <1>6, <1>8, <2>1, SameKeys DEF Copies, SameFlags
<1>10. keyCd(n) = keyCd(m)
  <2>1. n.st["CD"].nonce = m.st["CD"].nonce /\ n.sb = m.sb
    BY <1>2, <1>3 DEF Copies, SameFlags
  <2>2. m.sb => n.st["SC"].nonce = m.st["SC"].nonce BY <1>2, <1>3
  <2>3. \A key, nonce : CdKey(key, nonce, RequiresCpuKey(n), cpu) = CdKey(key, nonce, RequiresCpuKey(m), cpu)
    BY <1>4 DEF CdKey
  <2>. HIDE DEF keyA, keyB
  <2>. QED BY <1>5, <1>8, <1>9, <2>1, <2>2, <2>3
<1>11. \A im : /\ BootKey(im, type, cpu, "CD") = keyCd(im)
               /\ BootKey(im, type, cpu, "CE") = keyCd(im) \o im.st["CE"].nonce
               /\ BootKey(im, type, cpu, "B") = keyB(im)
  BY DEF BootKey, CFs
<1>. HIDE DEF keyA, keyB, keyCd
<1>. SUFFICES ASSUME NEW k \in DOMAIN n.st
              PROVE  BootKey(n, type, cpu, k) = BootKey(m, type, cpu, k)
  BY <1>1, <1>4, <1>7
<1>12. n.st[k].nonce = m.st[k].nonce /\ k \in Kinds BY <1>2, <1>3
<1>13. CASE k = "A" BY <1>12, <1>13, BootKeys DEF KeyA
<1>14. CASE k = "X"
  <2>1. BootKey(n, type, cpu, k) = KeyX(n) /\ BootKey(m, type, cpu, k) = KeyX(m)
    BY <1>14, BootKeys
  <2>2. KeyX(n) = KeyX(m)
    BY <1>8, <1>12, <1>14, SameKeys DEF KeyX, KeyA, keyA, Copies, SameFlags
  <2>. QED BY <2>1, <2>2
<1>15. CASE k = "B" BY <1>9, <1>11, <1>15 DEF Has
<1>16. CASE k = "SC" BY <1>12, <1>16, BootKeys DEF KeySc
<1>17. CASE k \in {"CD", "CE"} BY <1>10, <1>11, <1>12, <1>17
<1>18. CASE k \in CFs \cup CGs
  <2>1. BootKey(n, type, cpu, k) = SlotKey(n, k) /\ BootKey(m, type, cpu, k) = SlotKey(m, k)
    BY <1>18, BootKeys
  <2>. QED BY <1>12, <2>1 DEF SlotKey
<1>19. CASE k = "EA" BY <1>12, <1>19, BootKeys
<1>20. CASE k = "ED"
  <2>1. n.st["EA"].nonce = m.st["EA"].nonce
    BY <1>3, <1>20 DEF Has, Copies, Extra
  <2>. QED BY <1>12, <1>20, <2>1, BootKeys
<1>. QED BY <1>12, <1>13, <1>14, <1>15, <1>16, <1>17, <1>18, <1>19, <1>20 DEF Kinds, CFs, CGs

\* So do its digests, its MACs and the record of it.
LEMMA CopyRecords ==
  ASSUME NEW m, ImageShaped(m), Has(m, "ED") => Has(m, "EA"), NEW n, ImageShaped(n), Copies(n, m),
         NEW type, NEW w, Records(m, w, type)
  PROVE  Records(n, w, type)
<1> DEFINE cpu == w.cpu
<1>1. /\ \A k \in Kinds \ Extra : Has(n, k) <=> Has(m, k)
      /\ CdNeedsCpuKey(n) <=> CdNeedsCpuKey(m)
      /\ \A k \in DOMAIN n.st : BootKey(n, type, cpu, k) = BootKey(m, type, cpu, k)
  BY CopyKeys
<1>2. /\ DOMAIN n.st \subseteq DOMAIN m.st /\ n.sb = m.sb /\ n.mfg = m.mfg /\ n.spills = m.spills
      /\ DOMAIN n = ImageFields /\ DOMAIN m = ImageFields /\ "A" \in DOMAIN n.st
  BY DEF Copies, SameFlags, ImageShaped
<1>3. \A k \in DOMAIN n.st : SameText(n.st[k], m.st[k]) BY DEF Copies
<1>4. ASSUME NEW k \in DOMAIN n.st
      PROVE  /\ k \in DOMAIN w.st /\ SameText(n.st[k], w.st[k])
             /\ w.st[k].under = Links(n, type, cpu, k)
  <2>1. /\ k \in DOMAIN w.st /\ SameText(m.st[k], w.st[k])
        /\ w.st[k].under = Links(m, type, cpu, k)
    BY <1>2 DEF Records
  <2>2. SameText(n.st[k], w.st[k]) BY <1>3, <2>1 DEF SameText
  <2>3. Links(n, type, cpu, k) = Links(m, type, cpu, k)
    <3>1. BootKey(n, type, cpu, k) = BootKey(m, type, cpu, k) BY <1>1
    <3>2. Has(n, "X") <=> Has(m, "X") BY <1>1 DEF Kinds, Extra
    <3>3. n.st[k].nonce = m.st[k].nonce BY <1>3 DEF SameText
    <3>. QED BY <3>1, <3>2, <3>3 DEF Links
  <2>. QED BY <2>1, <2>2, <2>3
<1>5. Digests(n, w.smc, type, cpu)
  <2> DEFINE over(im) == [im EXCEPT !.smc = w.smc, !.smcSealed = TRUE]
             digest(im, k) == CbDigest(over(im), im.st[k], BootKey(im, type, cpu, k), cpu)
  <2>0. Digests(m, w.smc, type, cpu) BY DEF Records
  <2>1. /\ over(n).smc = w.smc /\ over(n).smcSealed = TRUE
        /\ over(m).smc = w.smc /\ over(m).smcSealed = TRUE
    BY <1>2 DEF ImageFields
  <2>. HIDE DEF over
  <2>2. ASSUME NEW k \in DOMAIN n.st PROVE digest(n, k) = digest(m, k) /\ n.st[k].mac = m.st[k].mac
    <3>1. BootKey(n, type, cpu, k) = BootKey(m, type, cpu, k) BY <1>1
    <3>2. n.st[k].pair = m.st[k].pair /\ n.st[k].mac = m.st[k].mac BY <1>3 DEF SameText
    <3>. QED BY <2>1, <3>1, <3>2 DEF CbDigest, SmcBytes
  <2>3. /\ Has(m, "B") /\ ~Has(m, "X") =>
             m.st["B"].mac = IF m.mfg \/ cpu = "zero" THEN <<>> ELSE digest(m, "B")
        /\ (type = "Retail" /\ CdNeedsCpuKey(m)) \/ (m.sb /\ type # "Devgl") =>
             m.st["A"].mac = digest(m, "A")
        /\ Has(m, "EA") => m.st["EA"].mac = digest(m, "EA")
    BY <2>0 DEF Digests, over
  <2>. HIDE DEF digest
  <2>4. /\ Has(n, "B") /\ ~Has(n, "X") =>
             n.st["B"].mac = IF n.mfg \/ cpu = "zero" THEN <<>> ELSE digest(n, "B")
        /\ (type = "Retail" /\ CdNeedsCpuKey(n)) \/ (n.sb /\ type # "Devgl") =>
             n.st["A"].mac = digest(n, "A")
        /\ Has(n, "EA") => n.st["EA"].mac = digest(n, "EA")
    BY <1>1, <1>2, <2>2, <2>3 DEF Has, Kinds, Extra
  <2>. QED BY <2>4 DEF Digests, digest, over
<1>6. Macs(n, type, cpu)
  <2>. SUFFICES ASSUME NEW f \in CFs \cap DOMAIN n.st
                PROVE  /\ TableNamed(n, f)
                       /\ BindsConsole(type, f) => n.st[f].mac = CfMac(f, n.st[f], cpu)
    BY DEF Macs
  <2>1. /\ TableNamed(m, f)
        /\ BindsConsole(type, f) => m.st[f].mac = CfMac(f, m.st[f], cpu)
    BY <1>2 DEF Records, Macs
  <2>2. SameText(n.st[f], m.st[f]) BY <1>3
  <2>3. Has(n, CgOf(f)) <=> Has(m, CgOf(f)) BY <1>1 DEF CgOf, Kinds, Extra
  <2>. QED BY <1>2, <2>1, <2>2, <2>3 DEF TableNamed, SameText, CfMac
<1>. QED BY <1>4, <1>5, <1>6 DEF Records

\* A copy's nonces were drawn if the image's were.
LEMMA CopyDrawn ==
  ASSUME NEW m, NEW n, Copies(n, m), Drawn(m)
  PROVE  Drawn(n)
BY DEF Copies, SameFlags, SameText, Drawn

-----------------------------------------------------------------------------
(* What a parse of the written bytes holds.                                *)

\* Where no ciphertext looks plaintext by luck, a stage looks plain when it is, a CF when it
\* names no tail as well.
LEMMA WhatLooksPlain ==
  ASSUME Gaps = {}, NEW s, NEW k
  PROVE  /\ LooksPlain(k, s) \in BOOLEAN
         /\ LooksPlain(k, s) <=> k # "SC" /\ s.under = {} /\ (k \in CFs => s.table = "none")
BY DEF LooksPlain

\* A parse finds every stage but the second chain's as it was written.
LEMMA ReadBackStep ==
  ASSUME Gaps = {}, NEW im, ImageShaped(im), NEW cpu, ChainClosed(im, cpu), SlotsClosed(im),
         Unspoilt(im)
  PROVE  LET m == ReadBack(im)
         IN  /\ ImageShaped(m) /\ Copies(m, im) /\ DOMAIN m.st = DOMAIN im.st \ Extra
             /\ ChainClosed(m, cpu) /\ SlotsEither(m) /\ Unspoilt(m)
<1> DEFINE m == ReadBack(im)
<1>1. /\ m.st = [k \in DOMAIN im.st \ Extra |-> Parsed(k, im.st[k])] /\ DOMAIN m = ImageFields
      /\ m.sb = im.sb /\ m.mfg = im.mfg /\ m.v2 = im.v2 /\ m.newCb = im.newCb
      /\ m.smc = im.smc /\ m.smcSealed = im.smcSealed /\ m.spills = im.spills /\ m.room = im.room
  <2>1. DOMAIN im = ImageFields BY DEF ImageShaped
  <2>. QED BY <2>1 DEF ReadBack, ImageFields
<1>. HIDE DEF m
<1>2. ASSUME NEW k \in DOMAIN im.st
      PROVE  LET s == Parsed(k, im.st[k])
             IN  /\ DOMAIN s = StageFields /\ s.nonce = im.st[k].nonce /\ s.under = im.st[k].under
                 /\ s.pair = im.st[k].pair /\ s.mac = im.st[k].mac /\ s.table = im.st[k].table
                 /\ s.body = im.st[k].body /\ s.key = NoKey /\ s.dec = LooksPlain(k, im.st[k])
  <2>1. DOMAIN im.st[k] = StageFields BY DEF ImageShaped
  <2>. QED BY <2>1 DEF Parsed, StageFields
<1>3. DOMAIN m.st = DOMAIN im.st \ Extra BY <1>1
<1>4. ASSUME NEW k \in DOMAIN m.st
      PROVE  /\ DOMAIN m.st[k] = StageFields /\ m.st[k].nonce = im.st[k].nonce
             /\ m.st[k].under = im.st[k].under /\ SameText(m.st[k], im.st[k])
             /\ m.st[k].body = im.st[k].body /\ m.st[k].key = NoKey
             /\ m.st[k].dec = LooksPlain(k, im.st[k])
  <2>1. k \in DOMAIN im.st /\ m.st[k] = Parsed(k, im.st[k]) BY <1>1, <1>3
  <2>. QED BY <1>2, <2>1 DEF SameText
<1>5. \A k \in DOMAIN m.st : im.st[k].under # {} => m.st[k].dec = FALSE
  <2>. SUFFICES ASSUME NEW k \in DOMAIN m.st, im.st[k].under # {} PROVE LooksPlain(k, im.st[k]) = FALSE
    BY <1>4
  <2>. QED BY WhatLooksPlain
<1>6. \A k \in DOMAIN m.st : \A key : Under(im.st[k], key) => Under(m.st[k], key)
  BY <1>4, <1>5 DEF Under
<1>7. /\ \A k \in Chain : Has(m, k) <=> Has(im, k)
      /\ \A k \in CFs \cup CGs : Has(m, k) <=> Has(im, k)
  BY <1>3 DEF Has, Chain, Extra, CFs, CGs
<1>8. ImageShaped(m)
  <2>1. {"A", "CD"} \subseteq DOMAIN m.st /\ DOMAIN m.st \subseteq Kinds
    BY <1>3 DEF ImageShaped, Extra
  <2>2. \A f \in CFs : CgOf(f) \in DOMAIN m.st => f \in DOMAIN m.st
    BY <1>3 DEF ImageShaped, Extra, CFs, CgOf
  <2>3. Has(m, "X") => Has(m, "B") BY <1>7 DEF ImageShaped, Chain
  <2>4. m.sb => Has(m, "SC") BY <1>1, <1>7 DEF ImageShaped, Chain
  <2>5. \A k \in DOMAIN m.st : DOMAIN m.st[k] = StageFields /\ IsNonce(m.st[k].nonce)
    BY <1>3, <1>4 DEF ImageShaped
  <2>. QED BY <1>1, <2>1, <2>2, <2>3, <2>4, <2>5 DEF ImageShaped
<1>9. Copies(m, im) BY <1>1, <1>3, <1>4 DEF Copies, SameFlags
<1>10. SameFlags(m, im) BY <1>9 DEF Copies
<1>11. Has(im, "X") => HandOff(m, cpu) = HandOff(im, cpu)
  <2>. SUFFICES ASSUME Has(im, "X") PROVE HandOff(m, cpu) = HandOff(im, cpu) OBVIOUS
  <2>1. Has(m, "X") /\ "B" \in DOMAIN m.st BY <1>7 DEF Chain, ImageShaped, Has
  <2>2. m.st["B"].key = NoKey /\ m.st["B"].nonce = im.st["B"].nonce BY <1>4, <2>1
  <2>. QED BY <2>1, <2>2 DEF HandOff, ChainClosed
<1>12. /\ KeyA(m) = KeyA(im)
       /\ Has(im, "X") => KeyX(m) = KeyX(im)
       /\ Has(im, "B") => KeyB(m, cpu) = KeyB(im, cpu)
       /\ Has(im, "SC") => KeySc(m) = KeySc(im)
       /\ KeyCd(m, cpu) = KeyCd(im, cpu)
       /\ Has(im, "CE") => KeyCe(m, cpu) = KeyCe(im, cpu)
  <2>1. \A k \in Chain \cap DOMAIN im.st : m.st[k].nonce = im.st[k].nonce
    BY <1>4, <1>7 DEF Has
  <2>2. m.st["A"].pair = im.st["A"].pair /\ m.st["A"].mac = im.st["A"].mac
    BY <1>4, <1>8 DEF ImageShaped, SameText
  <2>. QED BY <1>7, <1>10, <1>11, <2>1, <2>2, KeysKept
<1>13. \A k \in Chain : Has(im, k) => k \in DOMAIN m.st
  BY <1>7 DEF Has
<1>14. ScKept(m)
  <2>. SUFFICES ASSUME Has(m, "SC"), ~m.sb
                PROVE  /\ m.st["SC"].dec = FALSE
                       /\ m.st["SC"].under = IF m.st["SC"].nonce = ZeroNonce THEN {} ELSE {KeySc(m)}
    BY DEF ScKept
  <2>1. Has(im, "SC") /\ "SC" \in DOMAIN m.st BY <1>7 DEF Chain, Has
  <2>2. m.st["SC"].dec = FALSE 
    <3>1. LooksPlain("SC", im.st["SC"]) = FALSE BY WhatLooksPlain
    <3>. QED BY <1>4, <2>1, <3>1
  <2>3. im.st["SC"].under = IF im.st["SC"].nonce = ZeroNonce THEN {} ELSE {KeySc(im)}
    BY <1>1, <2>1 DEF ChainClosed, ScKept
  <2>. QED BY <1>4, <1>12, <2>1, <2>2, <2>3
<1>15. ChainClosed(m, cpu)
  <2>1. Under(m.st["A"], KeyA(m))
    BY <1>6, <1>8, <1>12 DEF ChainClosed, ImageShaped
  <2>2. Has(m, "X") => /\ Under(m.st["X"], KeyX(m))
                       /\ Plain(m.st["B"]) /\ m.st["B"].key \in {NoKey, m.st["B"].nonce}
    <3>. SUFFICES ASSUME Has(m, "X")
                  PROVE  /\ Under(m.st["X"], KeyX(m))
                         /\ Plain(m.st["B"]) /\ m.st["B"].key \in {NoKey, m.st["B"].nonce}
      OBVIOUS
    <3>1. Has(im, "X") /\ "X" \in DOMAIN m.st /\ "B" \in DOMAIN m.st
      BY <1>7, <1>8 DEF Has, Chain, ImageShaped
    <3>2. Under(m.st["X"], KeyX(m)) BY <1>6, <1>12, <3>1 DEF ChainClosed
    <3>3. m.st["B"].under = {} /\ im.st["B"].under = {} BY <1>4, <3>1 DEF ChainClosed, Plain
    <3>4. m.st["B"].dec = TRUE
      <4>1. LooksPlain("B", im.st["B"]) = TRUE BY <3>3, WhatLooksPlain DEF CFs
      <4>. QED BY <1>4, <3>1, <4>1
    <3>. QED BY <1>4, <3>1, <3>2, <3>3, <3>4 DEF Plain
  <2>3. Has(m, "B") /\ ~Has(m, "X") => Under(m.st["B"], KeyB(m, cpu))
    BY <1>6, <1>7, <1>12, <1>13 DEF ChainClosed, Chain
  <2>4. m.sb => Under(m.st["SC"], KeySc(m)) /\ m.st["SC"].nonce # ZeroNonce
    <3>. SUFFICES ASSUME m.sb PROVE Under(m.st["SC"], KeySc(m)) /\ m.st["SC"].nonce # ZeroNonce OBVIOUS
    <3>1. "SC" \in DOMAIN m.st /\ Has(im, "SC") /\ im.sb BY <1>1, <1>7, <1>8 DEF ImageShaped, Has, Chain
    <3>. QED BY <1>4, <1>6, <1>12, <3>1 DEF ChainClosed
  <2>5. Under(m.st["CD"], KeyCd(m, cpu))
    BY <1>6, <1>8, <1>12 DEF ChainClosed, ImageShaped
  <2>6. Has(m, "CE") => Under(m.st["CE"], KeyCe(m, cpu))
    BY <1>6, <1>7, <1>12, <1>13 DEF ChainClosed, Chain
  <2>. QED BY <1>14, <2>1, <2>2, <2>3, <2>4, <2>5, <2>6 DEF ChainClosed
<1>16. SlotsEither(m)
  <2>. SUFFICES ASSUME NEW k \in (CFs \cup CGs) \cap DOMAIN m.st
                PROVE  Under(m.st[k], SlotKey(m, k))
    BY DEF SlotsEither
  <2>1. Under(im.st[k], SlotKey(im, k)) BY <1>3 DEF SlotsClosed
  <2>2. SlotKey(m, k) = SlotKey(im, k) BY <1>4 DEF SlotKey
  <2>. QED BY <1>6, <2>1, <2>2
<1>17. Unspoilt(m) BY <1>3, <1>4 DEF Unspoilt
<1>. QED BY <1>3, <1>8, <1>9, <1>15, <1>16, <1>17 DEF m

-----------------------------------------------------------------------------
(* run_build up to encrypt_all: the supplied stages parsed, patched, paired *)
(* with a console and given their nonces.                                  *)

\* A stage as it was supplied.
InStage(s, in, k) ==
  /\ DOMAIN s = StageFields /\ s.nonce = in.st[k].nonce /\ s.mac = in.st[k].mac /\ s.key = NoKey
  /\ s.body # "spoilt"
  /\ SealedIn(in, k) => Under(s, SuppliedUnder(in, k))
  /\ ~SealedIn(in, k) => s.under = {} /\ s.dec = ~(k = "SC" /\ ~in.sb)

Framed(m, in) ==
  /\ DOMAIN m = ImageFields /\ Flags(m, in) /\ m.smc = in.smc /\ DOMAIN m.st = DOMAIN in.st

StagesIn(m, in) == Framed(m, in) /\ \A k \in DOMAIN in.st : InStage(m.st[k], in, k)

\* A stage supplied is plain or sealed along the supplied chain when it was parsed.
LEMMA ParsedStages ==
  ASSUME Gaps = {}, NEW in, Supplied(in)
  PROVE  StagesIn(InputParsed(in), in)
<1> DEFINE plain(k) == \/ in.sb /\ k \in {"A", "SC", "CD", "CE"}
                       \/ in.type = "Glitch3" /\ k = "X"
           stage(k) == IF plain(k) THEN [Parsed(k, in.st[k]) EXCEPT !.dec = TRUE]
                       ELSE Parsed(k, in.st[k])
           m == InputParsed(in)
<1>1. /\ m.st = [k \in DOMAIN in.st |-> stage(k)] /\ DOMAIN m = ImageFields
      /\ Flags(m, in) /\ m.smc = in.smc
  BY DEF InputParsed, ImageFields, Flags
<1>. HIDE DEF m
<1>2. ASSUME NEW k \in DOMAIN in.st PROVE InStage(stage(k), in, k)
  <2> DEFINE s == in.st[k]
             p == Parsed(k, s)
             q == [p EXCEPT !.dec = TRUE]
  <2>1. DOMAIN s = StageFields /\ s.body # "spoilt" BY DEF Supplied, Shaped
  <2>2. /\ DOMAIN p = StageFields /\ p.nonce = s.nonce /\ p.mac = s.mac /\ p.key = NoKey
        /\ p.body # "spoilt" /\ p.under = s.under /\ p.dec = LooksPlain(k, s)
    BY <2>1 DEF Parsed, StageFields
  <2>3. /\ DOMAIN q = StageFields /\ q.nonce = s.nonce /\ q.mac = s.mac /\ q.key = NoKey
        /\ q.body # "spoilt" /\ q.under = s.under /\ q.dec = TRUE
    BY <2>1 DEF Parsed, StageFields
  <2>. HIDE DEF p, q
  <2>4. SealedIn(in, k) <=> s.under # {} BY DEF SealedIn
  <2>5. CASE plain(k)
    <3>1. ~SealedIn(in, k) /\ ~(k = "SC" /\ ~in.sb)
      <4>1. /\ ~SealedIn(in, "X")
            /\ in.sb => \A j \in {"A", "SC", "CD", "CE"} : ~SealedIn(in, j)
        BY DEF Supplied, SealedAlongChain
      <4>. QED BY <2>5, <4>1
    <3>2. stage(k) = q BY <2>5 DEF p, q
    <3>. HIDE DEF stage
    <3>. QED BY <2>3, <2>4, <3>1, <3>2 DEF InStage
  <2>6. CASE ~plain(k)
    <3>1. stage(k) = p BY <2>6 DEF p
    <3>2. CASE SealedIn(in, k)
      <4>1. s.under = {SuppliedUnder(in, k)} BY <3>2 DEF Supplied, SealedAlongChain
      <4>2. p.dec = FALSE BY <2>2, <4>1, WhatLooksPlain
      <4>. HIDE DEF stage, s, plain
      <4>. QED BY <2>2, <3>1, <3>2, <4>1, <4>2 DEF InStage, Under, s
    <3>3. CASE ~SealedIn(in, k)
      <4>1. s.under = {} BY <2>4, <3>3
      <4>2. k \in CFs => s.table = "none"
        BY <4>1 DEF Supplied, Admitted
      <4>3. LooksPlain(k, s) <=> k # "SC" BY <4>1, <4>2, WhatLooksPlain
      <4>4. p.dec = (k # "SC") BY <2>2, <4>3, WhatLooksPlain
      <4>5. k = "SC" => ~in.sb BY <2>6
      <4>. HIDE DEF stage, s, plain
      <4>. QED BY <2>2, <3>1, <3>3, <4>1, <4>4, <4>5 DEF InStage, s
    <3>. QED BY <3>2, <3>3
  <2>. QED BY <2>5, <2>6
<1>. HIDE DEF stage
<1>3. DOMAIN m.st = DOMAIN in.st /\ \A k \in DOMAIN in.st : m.st[k] = stage(k) BY <1>1
<1>. QED BY <1>1, <1>2, <1>3 DEF StagesIn, Framed, m

PatchedDone(r, in) == r.ok \in BOOLEAN /\ (r.ok = TRUE => StagesIn(r.img, in))

\* Patches leave that so, as no stage takes one sealed.
LEMMA PatchedStages ==
  ASSUME Gaps = {}, NEW in, Supplied(in), NEW im, StagesIn(im, in)
  PROVE  PatchedDone(PatchesApplied(im, in), in)
<1> DEFINE targets == PatchTargets(in.type)
           stage(k) == IF k \notin targets THEN im.st[k]
                       ELSE [Patched(k, im.st[k]) EXCEPT !.dec = @ \/ (im.sb /\ k = "CD")]
           m == [im EXCEPT !.st = [k \in DOMAIN im.st |-> stage(k)]]
           r == PatchesApplied(im, in)
<1>1. CASE in.patches = "none"
  <2>1. r = Ok(im) BY <1>1 DEF PatchesApplied
  <2>2. r.ok = TRUE /\ r.img = im BY <2>1 DEF Ok
  <2>. HIDE DEF r
  <2>. QED BY <2>2 DEF r, PatchedDone
<1>2. CASE in.patches = "long" \/ (in.patches = "fits" /\ ~(targets \subseteq DOMAIN im.st))
  <2>1. r = Failed(im) BY <1>2 DEF PatchesApplied
  <2>2. r.ok = FALSE BY <2>1 DEF Failed
  <2>. HIDE DEF r
  <2>. QED BY <2>2 DEF r, PatchedDone
<1>3. CASE in.patches = "fits" /\ targets \subseteq DOMAIN im.st
  <2>1. r = Ok(m) BY <1>3 DEF PatchesApplied
  <2>2. r.ok = TRUE /\ r.img = m BY <2>1 DEF Ok
  <2>3. Framed(im, in) BY DEF StagesIn
  <2>4. m.st = [k \in DOMAIN im.st |-> stage(k)] /\ Framed(m, in)
    BY <2>3 DEF Framed, ImageFields, Flags
  <2>5. ASSUME NEW k \in DOMAIN in.st PROVE InStage(stage(k), in, k)
    <3> DEFINE s == im.st[k]
               u == [s EXCEPT !.body = IF s.under = {} THEN "patched" ELSE "spoilt"]
               p == Patched(k, s)
               q == [p EXCEPT !.dec = @ \/ (im.sb /\ k = "CD")]
    <3>1. InStage(s, in, k) BY DEF StagesIn
    <3>2. CASE k \notin targets
      <4>1. stage(k) = s BY <3>2
      <4>. QED BY <3>1, <4>1
    <3>3. CASE k \in targets
      <4>1. ~SealedIn(in, k) BY <1>3, <3>3 DEF Supplied, Admitted
      <4>2. k \notin {"SC"} \cup CFs BY <3>3 DEF PatchTargets, CFs
      <4>3. /\ DOMAIN s = StageFields /\ s.nonce = in.st[k].nonce /\ s.mac = in.st[k].mac
            /\ s.under = {}
        BY <3>1, <4>1 DEF InStage
      <4>. HIDE DEF s
      <4>4. /\ DOMAIN u = StageFields /\ u.nonce = s.nonce /\ u.mac = s.mac /\ u.under = {}
            /\ u.body = "patched"
        BY <4>3 DEF StageFields
      <4>. HIDE DEF u
      <4>5. LooksPlain(k, u) BY <4>2, <4>4, WhatLooksPlain
      <4>6. p = [u EXCEPT !.dec = LooksPlain(k, u), !.key = NoKey] BY DEF Patched, Parsed, u
      <4>7. /\ DOMAIN p = StageFields /\ p.nonce = s.nonce /\ p.mac = s.mac /\ p.under = {}
            /\ p.body = "patched" /\ p.key = NoKey /\ p.dec = LooksPlain(k, u)
        BY <4>4, <4>6 DEF StageFields
      <4>8. p.dec = TRUE BY <4>5, <4>7, WhatLooksPlain
      <4>. HIDE DEF p
      <4>9. /\ DOMAIN q = StageFields /\ q.nonce = s.nonce /\ q.mac = s.mac /\ q.under = {}
            /\ q.body = "patched" /\ q.key = NoKey /\ q.dec = TRUE
        BY <4>7, <4>8 DEF StageFields
      <4>10. stage(k) = q BY <3>3 DEF p, s
      <4>. HIDE DEF q, stage
      <4>. QED BY <4>1, <4>2, <4>3, <4>9, <4>10 DEF InStage
    <3>. QED BY <3>2, <3>3
  <2>. HIDE DEF m, stage, r
  <2>6. \A k \in DOMAIN in.st : m.st[k] = stage(k) BY <2>3, <2>4 DEF Framed
  <2>. QED BY <2>2, <2>4, <2>5, <2>6 DEF r, PatchedDone, StagesIn
<1>4. in.patches \in {"none", "fits", "long"} BY DEF Supplied, Shaped
<1>. QED BY <1>1, <1>2, <1>3, <1>4

\* The image once apply_cb_metadata and its like have run.
Paired(m, in) ==
  /\ Framed(m, in)
  /\ \A k \in DOMAIN in.st : /\ DOMAIN m.st[k] = StageFields /\ m.st[k].nonce = in.st[k].nonce
                             /\ m.st[k].body # "spoilt"
  /\ \A k \in ({"A", "X", "B", "EA", "ED"} \cup CFs) \cap DOMAIN in.st : Plain(m.st[k])
  /\ \A k \in ({"SC", "CD", "CE"} \cup CGs) \cap DOMAIN in.st : InStage(m.st[k], in, k)
  /\ "B" \in DOMAIN in.st => m.st["B"].key = IF SealedIn(in, "B") THEN KeyB(m, in.cpu) ELSE NoKey
  /\ ~in.sb /\ "B" \notin DOMAIN in.st => (RequiresCpuKey(m) <=> KeysCdUnderCpu(in))

PairedDone(r, in) == r.ok \in BOOLEAN /\ (r.ok = TRUE => Paired(r.img, in))

\* The pairing and the digest are all that changes.
Repaired(t, s) ==
  /\ DOMAIN t = StageFields /\ t.nonce = s.nonce /\ t.under = s.under /\ t.dec = s.dec
  /\ t.key = s.key /\ t.body = s.body

\* Pairing data changes pairing and digest only.
LEMMA Pairings ==
  ASSUME NEW s, DOMAIN s = StageFields, NEW pair
  PROVE  /\ Repaired(s, s)
         /\ Repaired(PairedCb(s, pair), s) /\ PairedCb(s, pair).mac = s.mac
         /\ PairedCb(s, pair).pair = pair
         /\ Repaired(ZeroPairedCb(s), s) /\ ZeroPairedCb(s).mac = <<>> /\ ZeroPairedCb(s).pair = "zero"
         /\ Repaired([s EXCEPT !.pair = pair], s)
BY DEF Repaired, PairedCb, ZeroPairedCb, StageFields

\* apply_bootloader_metadata leaves that so, and settles what the CD's key is mixed from.
LEMMA PairedStages ==
  ASSUME Gaps = {}, NEW in, Supplied(in), NEW im, StagesIn(im, in)
  PROVE  PairedDone(MetadataApplied(im, in), in)
<1> DEFINE st == im.st
           zeroPairedB == in.cpu = "zero" /\ Has(im, "B")
           paired == in.type # "Glitch" /\ ~zeroPairedB
           mainPaired == paired /\ in.type \notin {"Jtag", "Devgl"}
           opened(s) == IF s.dec THEN s ELSE CbCrypted(s, OneBl \o s.nonce)
           a == opened(im.st["A"])
           b == IF im.st["B"].dec THEN im.st["B"]
                ELSE CbCrypted(im.st["B"], CbBKey(im, a.key, im.st["B"].nonce, in.cpu))
           cf(f) == LET o == IF IsDecryptedCf(im.st[f]) THEN im.st[f] ELSE OpenedCf(im.st[f])
                    IN  IF BindsConsole(in.type, f)
                        THEN [o EXCEPT !.pair = IF paired THEN in.cfPair ELSE "zero"]
                        ELSE o
           stA == IF Has(im, "B") THEN a ELSE IF mainPaired THEN PairedCb(a, in.pair) ELSE ZeroPairedCb(a)
           stB == IF zeroPairedB THEN ZeroPairedCb(b) ELSE PairedCb(b, in.pair)
           stE == PairedCb(opened(im.st["EA"]), in.pair)
           stage(k) ==
             CASE k = "A" /\ Has(im, "B") -> a
               [] k = "A" /\ ~Has(im, "B") -> IF mainPaired THEN PairedCb(a, in.pair)
                                               ELSE ZeroPairedCb(a)
               [] k = "B" -> IF zeroPairedB THEN ZeroPairedCb(b) ELSE PairedCb(b, in.pair)
               [] k = "EA" -> PairedCb(opened(im.st["EA"]), in.pair)
               [] k \in CFs -> cf(k)
               [] OTHER -> im.st[k]
           m == [im EXCEPT !.st = [k \in DOMAIN im.st |-> stage(k)]]
           r == MetadataApplied(im, in)
           fails == Has(im, "B") /\ ~im.st["B"].dec /\ a.key = NoKey
<1>1. r = IF fails THEN Failed(im) ELSE Ok(m)
  BY DEF MetadataApplied
<1>2. CASE fails
  <2>. HIDE DEF fails
  <2>1. r = Failed(im) BY <1>1, <1>2
  <2>2. r.ok = FALSE BY <2>1 DEF Failed
  <2>. HIDE DEF r
  <2>. QED BY <2>2 DEF r, PairedDone
<1>3. CASE ~fails
  <2>1. r.ok = TRUE /\ r.img = m
    <3>. HIDE DEF fails, m
    <3>1. r = Ok(m) BY <1>1, <1>3
    <3>. QED BY <3>1 DEF Ok
  <2>2. Framed(im, in) /\ \A k \in DOMAIN in.st : InStage(st[k], in, k) BY DEF StagesIn
  <2>3. m.st = [k \in DOMAIN in.st |-> stage(k)] /\ Framed(m, in)
    <3>. HIDE DEF stage
    <3>. QED BY <2>2 DEF Framed, ImageFields, Flags
  <2>4. Has(im, "B") <=> "B" \in DOMAIN in.st BY <2>2 DEF Framed, Has
  <2>5. "A" \in DOMAIN in.st /\ "CD" \in DOMAIN in.st /\ DOMAIN in.st \subseteq Kinds BY DEF Supplied, Shaped
  <2>6. \A k \in DOMAIN in.st : IsNonce(in.st[k].nonce) BY DEF Supplied
  <2>7. ASSUME NEW k \in {"A", "EA"} \cap DOMAIN in.st
        PROVE  LET t == opened(st[k])
               IN  /\ DOMAIN t = StageFields /\ Plain(t) /\ t.nonce = in.st[k].nonce
                   /\ t.body # "spoilt" /\ t.mac = in.st[k].mac
                   /\ t.key = IF SealedIn(in, k) THEN OneBl \o in.st[k].nonce ELSE NoKey
    <3> DEFINE s == st[k]
    <3>1. InStage(s, in, k) BY <2>2
    <3>2. CASE SealedIn(in, k)
      <4>1. SuppliedUnder(in, k) = OneBl \o in.st[k].nonce
        <5>1. CASE k = "A" BY <5>1 DEF SuppliedUnder
        <5>2. CASE k = "EA" BY <5>2 DEF SuppliedUnder
        <5>. QED BY <5>1, <5>2
      <4>2. Under(s, OneBl \o s.nonce) /\ DOMAIN s = StageFields BY <3>1, <3>2, <4>1 DEF InStage
      <4>3. opened(s) = CbCrypted(s, OneBl \o s.nonce) BY <4>2 DEF Under
      <4> DEFINE t == CbCrypted(s, OneBl \o s.nonce)
      <4>4. /\ DOMAIN t = StageFields /\ Plain(t) /\ t.key = OneBl \o s.nonce
            /\ t.nonce = s.nonce /\ t.mac = s.mac /\ t.body = s.body
        <5>. HIDE DEF s
        <5>. QED BY <4>2, CbOpens DEF Kin
      <4>5. s.nonce = in.st[k].nonce /\ s.mac = in.st[k].mac /\ s.body # "spoilt"
        BY <3>1 DEF InStage
      <4>. HIDE DEF s, opened, t
      <4>6. opened(s) = t BY <4>3 DEF t
      <4>. QED BY <3>2, <4>4, <4>5, <4>6 DEF s
    <3>3. CASE ~SealedIn(in, k)
      <4>1. s.under = {} /\ s.dec = TRUE BY <3>1, <3>3 DEF InStage
      <4>2. opened(s) = s BY <4>1
      <4>. HIDE DEF s, opened
      <4>. QED BY <3>1, <3>3, <4>1, <4>2 DEF InStage, Plain, s
    <3>. QED BY <3>2, <3>3
  <2>. HIDE DEF opened
  <2>8. Has(im, "B") =>
          /\ DOMAIN b = StageFields /\ Plain(b) /\ b.nonce = in.st["B"].nonce /\ b.body # "spoilt"
          /\ b.key = IF SealedIn(in, "B") THEN CbBKey(im, OneBl \o in.st["A"].nonce, in.st["B"].nonce, in.cpu)
                     ELSE NoKey
    <3>. SUFFICES ASSUME Has(im, "B")
                  PROVE  /\ DOMAIN b = StageFields /\ Plain(b) /\ b.nonce = in.st["B"].nonce
                         /\ b.body # "spoilt"
                         /\ b.key = IF SealedIn(in, "B")
                                    THEN CbBKey(im, OneBl \o in.st["A"].nonce, in.st["B"].nonce, in.cpu)
                                    ELSE NoKey
      OBVIOUS
    <3> DEFINE s == st["B"]
    <3>1. InStage(s, in, "B") /\ DOMAIN s = StageFields BY <2>2, <2>4 DEF InStage
    <3>2. CASE SealedIn(in, "B")
      <4>1. Under(s, SuppliedUnder(in, "B")) /\ s.nonce = in.st["B"].nonce
        BY <3>1, <3>2 DEF InStage
      <4>2. a.key = OneBl \o in.st["A"].nonce
        <5>1. a.key # NoKey BY <1>3, <4>1 DEF Under
        <5>. QED BY <2>5, <2>7, <5>1
      <4>3. SuppliedUnder(in, "B") = CbBKey(in, OneBl \o in.st["A"].nonce, in.st["B"].nonce, in.cpu)
        BY DEF SuppliedUnder
      <4>4. CbBKey(in, OneBl \o in.st["A"].nonce, in.st["B"].nonce, in.cpu)
              = CbBKey(im, OneBl \o in.st["A"].nonce, in.st["B"].nonce, in.cpu)
        BY <2>2, SameKeys DEF Framed, Flags
      <4> DEFINE key == CbBKey(im, OneBl \o in.st["A"].nonce, in.st["B"].nonce, in.cpu)
      <4>5. b = CbCrypted(s, key) BY <4>1, <4>2 DEF Under
      <4>6. Under(s, key) BY <4>1, <4>3, <4>4
      <4>. HIDE DEF a, b, s, key
      <4>. QED BY <3>1, <3>2, <4>1, <4>5, <4>6, CbOpens DEF InStage, Kin, key
    <3>3. CASE ~SealedIn(in, "B")
      <4>1. s.under = {} /\ s.dec = TRUE BY <3>1, <3>3 DEF InStage
      <4>2. b = s BY <4>1
      <4>. HIDE DEF b, s
      <4>. QED BY <3>1, <3>3, <4>1, <4>2 DEF InStage, Plain
    <3>. QED BY <3>2, <3>3
  <2>9. ASSUME NEW f \in CFs \cap DOMAIN in.st
        PROVE  /\ DOMAIN cf(f) = StageFields /\ Plain(cf(f)) /\ cf(f).nonce = in.st[f].nonce
               /\ cf(f).body # "spoilt"
    <3> DEFINE s == st[f]
               o == IF IsDecryptedCf(s) THEN s ELSE OpenedCf(s)
    <3>1. InStage(s, in, f) /\ DOMAIN s = StageFields BY <2>2 DEF InStage
    <3>2. DOMAIN o = StageFields /\ Plain(o) /\ o.nonce = in.st[f].nonce /\ o.body # "spoilt"
      <4>1. CASE SealedIn(in, f)
        <5>1. SuppliedUnder(in, f) = OneBl \o in.st[f].nonce BY DEF SuppliedUnder, CFs
        <5>2. Under(s, OneBl \o s.nonce) BY <3>1, <4>1, <5>1 DEF InStage
        <5>3. o = OpenedCf(s) BY <5>2 DEF IsDecryptedCf, Under
        <5> DEFINE t == Opened(s, OneBl \o s.nonce)
        <5>4. /\ DOMAIN t = StageFields /\ Plain(t) /\ t.nonce = s.nonce /\ Kin(t, s)
          BY <3>1, <5>2, StageOpens
        <5>5. OpenedCf(s) = t BY <5>4 DEF OpenedCf, Plain
        <5>. HIDE DEF t, s, o
        <5>. QED BY <3>1, <5>3, <5>4, <5>5 DEF InStage, Kin
      <4>2. CASE ~SealedIn(in, f)
        <5>1. s.under = {} /\ s.dec = TRUE BY <3>1, <4>2 DEF InStage, CFs
        <5>2. o = s BY <5>1 DEF IsDecryptedCf
        <5>. HIDE DEF o, s
        <5>. QED BY <3>1, <5>1, <5>2 DEF InStage, Plain
      <4>. QED BY <4>1, <4>2
    <3> DEFINE pair == IF paired THEN in.cfPair ELSE "zero"
    <3>3. cf(f) = IF BindsConsole(in.type, f) THEN [o EXCEPT !.pair = pair] ELSE o OBVIOUS
    <3>. HIDE DEF o, cf, pair
    <3>4. Repaired(cf(f), o)
      <4>1. Repaired(o, o) /\ Repaired([o EXCEPT !.pair = pair], o) BY <3>2, Pairings
      <4>. QED BY <3>3, <4>1
    <3>. QED BY <3>2, <3>4 DEF Repaired, Plain
  <2>. HIDE DEF cf
  <2>10. /\ stage("A") = stA /\ stage("B") = stB /\ stage("EA") = stE
         /\ \A k \in CFs : stage(k) = cf(k)
         /\ \A k \in DOMAIN in.st \ ({"A", "B", "EA"} \cup CFs) : stage(k) = st[k]
    <3>. HIDE DEF a, b, mainPaired, zeroPairedB
    <3>1. stage("A") = stA
      <4>1. CASE Has(im, "B") BY <4>1 DEF CFs
      <4>2. CASE ~Has(im, "B") BY <4>2 DEF CFs
      <4>. QED BY <4>1, <4>2
    <3>2. stage("B") = stB BY DEF CFs
    <3>3. stage("EA") = stE BY DEF CFs
    <3>4. \A k \in CFs : stage(k) = cf(k) BY DEF CFs
    <3>5. \A k \in DOMAIN in.st \ ({"A", "B", "EA"} \cup CFs) : stage(k) = st[k] OBVIOUS
    <3>. QED BY <3>1, <3>2, <3>3, <3>4, <3>5
  <2>. HIDE DEF stage
  <2>11. /\ m.st["A"] = stA
         /\ "B" \in DOMAIN in.st => m.st["B"] = stB
         /\ "EA" \in DOMAIN in.st => m.st["EA"] = stE
         /\ \A k \in CFs \cap DOMAIN in.st : m.st[k] = cf(k)
         /\ \A k \in DOMAIN in.st \ ({"A", "B", "EA"} \cup CFs) : m.st[k] = st[k]
    BY <2>3, <2>5, <2>10
  <2>. HIDE DEF m
  <2>12. Repaired(stA, a)
    <3>1. DOMAIN a = StageFields BY <2>5, <2>7
    <3>. HIDE DEF a
    <3>. QED BY <3>1, Pairings
  <2>13. "B" \in DOMAIN in.st => Repaired(stB, b)
    <3>1. "B" \in DOMAIN in.st => DOMAIN b = StageFields BY <2>4, <2>8
    <3>. HIDE DEF b
    <3>. QED BY <3>1, Pairings
  <2>14. "EA" \in DOMAIN in.st => Repaired(stE, opened(st["EA"]))
    BY <2>7, Pairings
  <2>15. ASSUME NEW k \in DOMAIN in.st
         PROVE  /\ DOMAIN m.st[k] = StageFields /\ m.st[k].nonce = in.st[k].nonce
                /\ m.st[k].body # "spoilt"
                /\ k \in {"A", "X", "B", "EA", "ED"} \cup CFs => Plain(m.st[k])
                /\ k \in {"SC", "CD", "CE"} \cup CGs => InStage(m.st[k], in, k)
    <3>1. CASE k = "A"
      <4>. HIDE DEF stA
      <4>1. /\ DOMAIN a = StageFields /\ Plain(a) /\ a.nonce = in.st[k].nonce /\ a.body # "spoilt"
        BY <2>5, <2>7, <3>1
      <4>. HIDE DEF a
      <4>. QED BY <2>11, <2>12, <3>1, <4>1 DEF Repaired, Plain, CGs
    <3>2. CASE k = "B"
      <4>. HIDE DEF stB, b
      <4>. QED BY <2>4, <2>8, <2>11, <2>13, <3>2 DEF Repaired, Plain, CGs
    <3>3. CASE k = "EA"
      <4>. HIDE DEF stE
      <4>. QED BY <2>7, <2>11, <2>14, <3>3 DEF Repaired, Plain, CGs
    <3>4. CASE k \in CFs BY <2>9, <2>11, <3>4 DEF CFs, CGs
    <3>5. CASE k \in {"X", "ED"}
      <4>1. ~SealedIn(in, k) BY <3>5 DEF Supplied, Admitted, SealedAlongChain
      <4>2. InStage(m.st[k], in, k) BY <2>2, <2>11, <3>5 DEF CFs
      <4>. QED BY <3>5, <4>1, <4>2 DEF InStage, Plain, CGs
    <3>6. CASE k \in {"SC", "CD", "CE"} \cup CGs
      <4>1. InStage(m.st[k], in, k) BY <2>2, <2>11, <3>6 DEF CFs, CGs
      <4>. QED BY <3>6, <4>1 DEF InStage, CFs, CGs
    <3>. QED BY <2>5, <3>1, <3>2, <3>3, <3>4, <3>5, <3>6 DEF Kinds, CFs, CGs
  <2>16. "B" \in DOMAIN in.st => m.st["B"].key = IF SealedIn(in, "B") THEN KeyB(m, in.cpu) ELSE NoKey
    <3>. SUFFICES ASSUME "B" \in DOMAIN in.st
                  PROVE  m.st["B"].key = IF SealedIn(in, "B") THEN KeyB(m, in.cpu) ELSE NoKey
      OBVIOUS
    <3>1. m.st["B"].key = b.key
      <4>. HIDE DEF stB, b
      <4>. QED BY <2>11, <2>13 DEF Repaired
    <3>2. KeyB(m, in.cpu) = CbBKey(im, OneBl \o in.st["A"].nonce, in.st["B"].nonce, in.cpu)
      <4>1. m.st["A"].nonce = in.st["A"].nonce /\ m.st["B"].nonce = in.st["B"].nonce BY <2>5, <2>15
      <4>2. m.mfg = im.mfg /\ m.v2 = im.v2 BY <2>2, <2>3 DEF Framed, Flags
      <4>. QED BY <4>1, <4>2, SameKeys DEF KeyB, KeyA
    <3>. HIDE DEF b
    <3>. QED BY <2>4, <2>8, <3>1, <3>2
  <2>17. ~in.sb /\ "B" \notin DOMAIN in.st => (RequiresCpuKey(m) <=> KeysCdUnderCpu(in))
    <3>. SUFFICES ASSUME ~in.sb, "B" \notin DOMAIN in.st
                  PROVE  RequiresCpuKey(m) <=> KeysCdUnderCpu(in)
      OBVIOUS
    <3>1. mainPaired <=> in.type \notin {"Glitch", "Jtag", "Devgl"} BY <2>4
    <3>2. DOMAIN a = StageFields /\ a.mac = in.st["A"].mac BY <2>5, <2>7
    <3>3. m.st["A"] = IF mainPaired THEN PairedCb(a, in.pair) ELSE ZeroPairedCb(a) BY <2>4, <2>11
    <3>4. m.newCb = in.newCb BY <2>3 DEF Framed, Flags
    <3>. HIDE DEF mainPaired, a
    <3>5. CASE mainPaired
      <4>0. m.st["A"] = PairedCb(a, in.pair) BY <3>3, <3>5
      <4>1. m.st["A"].pair = in.pair /\ m.st["A"].mac = in.st["A"].mac 
        BY <3>2, <4>0 DEF PairedCb, StageFields
      <4>. QED BY <3>1, <3>4, <3>5, <4>1 DEF RequiresCpuKey, StatesConsole, KeysCdUnderCpu
    <3>6. CASE ~mainPaired
      <4>1. m.st["A"].pair = "zero" /\ m.st["A"].mac = <<>> BY <3>2, <3>3, <3>6, Pairings
      <4>. QED BY <3>1, <3>6, <4>1 DEF RequiresCpuKey, StatesConsole, KeysCdUnderCpu
    <3>. QED BY <3>5, <3>6
  <2>18. Paired(m, in) BY <2>3, <2>15, <2>16, <2>17 DEF Paired
  <2>. HIDE DEF r
  <2>. QED BY <2>1, <2>18 DEF r, PairedDone
<1>. QED BY <1>2, <1>3

\* What is left sealed lies under the key the chain will give it.
LEMMA PairedKeys ==
  ASSUME NEW in, Supplied(in), NEW m, Paired(m, in)
  PROVE  /\ SealedIn(in, "CD") => ~in.sb /\ SuppliedUnder(in, "CD") = KeyCd(m, in.cpu)
         /\ SealedIn(in, "CE") => ~in.sb /\ SuppliedUnder(in, "CE") = KeyCe(m, in.cpu)
         /\ SealedIn(in, "SC") => SuppliedUnder(in, "SC") = KeySc(m)
<1> DEFINE n(j) == in.st[j].nonce
           keyA == OneBl \o n("A")
           keyB == IF Has(in, "X") /\ ~SealedIn(in, "B") THEN n("B") ELSE CbBKey(in, keyA, n("B"), in.cpu)
           keyCd == IF Has(in, "B") THEN CdKey(keyB, n("CD"), FALSE, in.cpu)
                    ELSE CdKey(keyA, n("CD"), KeysCdUnderCpu(in), in.cpu)
<1>1. /\ SuppliedUnder(in, "CD") = keyCd
      /\ SuppliedUnder(in, "CE") = keyCd \o n("CE")
      /\ SuppliedUnder(in, "SC") = ZeroSecret \o n("SC")
  BY DEF SuppliedUnder
<1>2. in.sb => \A k \in {"A", "SC", "CD", "CE"} : ~SealedIn(in, k)
  BY DEF Supplied, SealedAlongChain
<1>3. /\ DOMAIN m.st = DOMAIN in.st /\ m.sb = in.sb /\ m.mfg = in.mfg /\ m.v2 = in.v2
      /\ {"A", "CD"} \subseteq DOMAIN in.st /\ \A k : Has(m, k) <=> Has(in, k)
  BY DEF Paired, Framed, Flags, Supplied, Shaped, Has
<1>4. \A k \in DOMAIN in.st : m.st[k].nonce = n(k) /\ IsNonce(n(k))
  BY DEF Paired, Supplied
<1>5. KeyA(m) = keyA BY <1>3, <1>4 DEF KeyA
<1>6. Has(in, "B") => KeyB(m, in.cpu) = CbBKey(in, keyA, n("B"), in.cpu) /\ IsNonce(KeyB(m, in.cpu))
  <2>. SUFFICES ASSUME Has(in, "B")
                PROVE  KeyB(m, in.cpu) = CbBKey(in, keyA, n("B"), in.cpu) /\ IsNonce(KeyB(m, in.cpu))
    OBVIOUS
  <2>1. m.st["B"].nonce = n("B") /\ IsNonce(n("B")) /\ IsNonce(n("A")) BY <1>3, <1>4 DEF Has
  <2>2. IsNonce(keyA) BY <2>1, KeysHold
  <2>3. CbBKey(m, keyA, n("B"), in.cpu) = CbBKey(in, keyA, n("B"), in.cpu) BY <1>3, SameKeys
  <2>4. IsNonce(CbBKey(m, keyA, n("B"), in.cpu)) BY <2>1, <2>2, KeysHold
  <2>. QED BY <1>5, <2>1, <2>3, <2>4 DEF KeyB
<1>7. Has(in, "B") => HandOff(m, in.cpu) = keyB
  <2>. SUFFICES ASSUME Has(in, "B") PROVE HandOff(m, in.cpu) = keyB OBVIOUS
  <2>0. m.st["B"].key = IF SealedIn(in, "B") THEN KeyB(m, in.cpu) ELSE NoKey
    BY DEF Paired, Has
  <2>1. m.st["B"].nonce = n("B") BY <1>4 DEF Has
  <2>2. KeyB(m, in.cpu) # NoKey BY <1>6, NonceNotNoKey
  <2>. HIDE DEF keyA, n
  <2>3. CASE ~Has(in, "X") BY <1>3, <1>6, <2>3 DEF HandOff
  <2>4. CASE Has(in, "X") /\ SealedIn(in, "B") BY <1>3, <1>6, <2>0, <2>2, <2>4 DEF HandOff
  <2>5. CASE Has(in, "X") /\ ~SealedIn(in, "B") BY <1>3, <2>0, <2>1, <2>5 DEF HandOff
  <2>. QED BY <2>3, <2>4, <2>5
<1>8. ~in.sb => KeyCd(m, in.cpu) = keyCd
  <2>. SUFFICES ASSUME ~in.sb PROVE KeyCd(m, in.cpu) = keyCd OBVIOUS
  <2>1. m.st["CD"].nonce = n("CD") BY <1>3, <1>4
  <2>. HIDE DEF keyA, keyB, n
  <2>2. CASE Has(in, "B") BY <1>3, <1>7, <2>1, <2>2 DEF KeyCd
  <2>3. CASE ~Has(in, "B")
    <3>1. RequiresCpuKey(m) <=> KeysCdUnderCpu(in) BY <2>3 DEF Paired, Has
    <3>2. CdKey(keyA, n("CD"), RequiresCpuKey(m), in.cpu) = CdKey(keyA, n("CD"), KeysCdUnderCpu(in), in.cpu)
      BY <3>1 DEF CdKey
    <3>. QED BY <1>3, <1>5, <2>1, <2>3, <3>2 DEF KeyCd
  <2>. QED BY <2>2, <2>3
<1>. HIDE DEF keyCd
<1>9. SealedIn(in, "CE") => m.st["CE"].nonce = n("CE") BY <1>4 DEF SealedIn
<1>10. SealedIn(in, "SC") => m.st["SC"].nonce = n("SC") BY <1>4 DEF SealedIn
<1>. QED BY <1>1, <1>2, <1>8, <1>9, <1>10 DEF KeyCe, KeySc

\* A nonce taken from the donor or drawn is one, and not the zero one.
LEMMA PicksAreNonces ==
  ASSUME NEW in, Supplied(in), NEW place \in DOMAIN NoDonor, NEW k, NEW draw
  PROVE  LET pick == DonorOrRandom(in, place, k, draw)
         IN  IsNonce(pick) /\ pick # ZeroNonce
BY FreshIsNonce DEF DonorOrRandom, Supplied

\* A stage given a nonce, if anything.
Renonced(t, s) ==
  /\ DOMAIN t = StageFields /\ t.under = s.under /\ t.dec = s.dec /\ t.key = s.key
  /\ t.body = s.body /\ t.mac = s.mac /\ t.pair = s.pair /\ IsNonce(t.nonce)
  /\ t.nonce = s.nonce \/ t.nonce # ZeroNonce

\* A stage with another nonce.
LEMMA Renonces ==
  ASSUME NEW s, DOMAIN s = StageFields, NEW nonce, IsNonce(nonce), nonce # ZeroNonce
  PROVE  Renonced([s EXCEPT !.nonce = nonce], s)
BY DEF Renonced, StageFields

\* What apply_nonces does to each stage.
NoncesDone(m, im, whole) ==
  /\ DOMAIN m = ImageFields /\ DOMAIN m.st = DOMAIN im.st
  /\ m.sb = im.sb /\ m.mfg = im.mfg /\ m.v2 = im.v2 /\ m.newCb = im.newCb /\ m.smc = im.smc
  /\ \A k \in DOMAIN im.st \ CGs : Renonced(m.st[k], im.st[k])
  /\ \A k \in CGs \cap DOMAIN im.st : Plain(m.st[k]) /\ DOMAIN m.st[k] = StageFields
                                      /\ IsNonce(m.st[k].nonce) /\ m.st[k].body = im.st[k].body
  /\ ~whole => \A k \in Chain \cap DOMAIN im.st : m.st[k] = im.st[k]
  /\ ~im.sb /\ Has(im, "SC") => m.st["SC"] = im.st["SC"]

\* apply_nonces: a plain chain has new nonces, a part sealed one keeps what keys it.
LEMMA NoncesStep ==
  ASSUME NEW in, Supplied(in), NEW im, Paired(im, in), NEW draw
  PROVE  NoncesDone(NoncesApplied(im, in, draw), im, ChainPlaintext(im))
<1> DEFINE whole == ChainPlaintext(im)
           pick(place, k) == DonorOrRandom(in, place, k, draw)
           set(s, nonce) == [s EXCEPT !.nonce = nonce]
           cg(k) == LET g == CgReopened(im, IF k = "G0" THEN "F0" ELSE "F1")
                    IN  IF g.dec THEN set(g, pick("G", k)) ELSE g
           stage(k) ==
             LET s == im.st[k]
             IN  CASE k = "A" /\ whole -> set(s, pick("A", "A"))
                   [] k = "B" /\ whole /\ ~Has(im, "X") -> set(s, pick("B", "B"))
                   [] k = "SC" /\ whole /\ im.sb /\ ~Has(im, "B") -> set(s, pick("B", "SC"))
                   [] k = "CD" /\ whole -> set(s, pick("CD", "CD"))
                   [] k = "CE" /\ whole -> set(s, pick("CE", "CE"))
                   [] k = "EA" /\ s.dec -> set(s, pick("A", "A"))
                   [] k = "ED" /\ s.dec -> set(s, pick("CD", "CD"))
                   [] k \in CFs /\ s.dec -> set(s, pick("F", k))
                   [] k \in CGs -> cg(k)
                   [] OTHER -> s
           m == NoncesApplied(im, in, draw)
<1>1. \A k \in DOMAIN in.st : /\ DOMAIN im.st[k] = StageFields /\ IsNonce(im.st[k].nonce)
  BY DEF Paired, Supplied
<1>2. \A place \in DOMAIN NoDonor : \A k : IsNonce(pick(place, k)) /\ pick(place, k) # ZeroNonce
  BY PicksAreNonces
<1>3. {"A", "B", "CD", "CE", "F", "G"} = DOMAIN NoDonor BY DEF NoDonor
<1>4. /\ DOMAIN m = ImageFields /\ m.st = [k \in DOMAIN im.st |-> stage(k)]
      /\ m.sb = im.sb /\ m.mfg = im.mfg /\ m.v2 = im.v2 /\ m.newCb = im.newCb /\ m.smc = im.smc
      /\ DOMAIN im.st = DOMAIN in.st
  <2>1. DOMAIN im = ImageFields /\ DOMAIN im.st = DOMAIN in.st BY DEF Paired, Framed
  <2>2. m = [im EXCEPT !.st = [k \in DOMAIN im.st |-> stage(k)]] BY DEF NoncesApplied
  <2>. HIDE DEF stage, m
  <2>. QED BY <2>1, <2>2 DEF ImageFields
<1>. HIDE DEF m, pick, whole
<1>5. ASSUME NEW s, DOMAIN s = StageFields, IsNonce(s.nonce)
      PROVE  /\ Renonced(s, s)
             /\ \A place \in DOMAIN NoDonor : \A k : Renonced(set(s, pick(place, k)), s)
  <2>1. Renonced(s, s) BY <1>5 DEF Renonced
  <2>2. ASSUME NEW place \in DOMAIN NoDonor, NEW k PROVE Renonced(set(s, pick(place, k)), s)
    <3>1. IsNonce(pick(place, k)) /\ pick(place, k) # ZeroNonce BY <1>2
    <3>. QED BY <1>5, <3>1, Renonces
  <2>. QED BY <2>1, <2>2
<1>6. ASSUME NEW f \in CFs, NEW k, k = CgOf(f), k \in DOMAIN im.st
      PROVE  /\ Plain(cg(k)) /\ DOMAIN cg(k) = StageFields /\ IsNonce(cg(k).nonce)
             /\ cg(k).body = im.st[k].body
  <2> DEFINE s == im.st[k]
             g == CgReopened(im, f)
  <2>1. k \in CGs /\ f = IF k = "G0" THEN "F0" ELSE "F1" BY <1>6 DEF CFs, CGs, CgOf
  <2>2. InStage(s, in, k) /\ DOMAIN s = StageFields /\ IsNonce(s.nonce)
    BY <1>1, <1>4, <1>6, <2>1 DEF Paired, CGs
  <2>3. Plain(im.st[f]) BY <1>4, <1>6 DEF Paired, Supplied, Shaped
  <2>4. Plain(g) /\ DOMAIN g = StageFields /\ g.nonce = s.nonce /\ g.body = s.body
    <3>1. CASE SealedIn(in, k)
      <4> DEFINE key == <<f, "7bl">> \o s.nonce
      <4>1. SuppliedUnder(in, k) = <<f, "7bl">> \o in.st[k].nonce
        <5>1. CASE k = "G0"
          <6>1. SuppliedUnder(in, k) = CgKey("F0", [under |-> {}]) \o in.st[k].nonce
            BY <5>1 DEF SuppliedUnder, CFs
          <6>. QED BY <2>1, <5>1, <6>1 DEF CgKey
        <5>2. CASE k = "G1"
          <6>1. SuppliedUnder(in, k) = CgKey("F1", [under |-> {}]) \o in.st[k].nonce
            BY <5>2 DEF SuppliedUnder, CFs
          <6>. QED BY <2>1, <5>2, <6>1 DEF CgKey
        <5>. QED BY <2>1, <5>1, <5>2 DEF CGs
      <4>2. Under(s, key) BY <2>2, <3>1, <4>1 DEF InStage
      <4>3. CgKey(f, im.st[f]) = <<f, "7bl">> BY <2>3 DEF CgKey, Plain
      <4>4. g = Opened(s, key)
        BY <1>6, <2>3, <4>2, <4>3 DEF CgReopened, IsDecryptedCf, Plain, Under
      <4>. HIDE DEF key, s, g
      <4>5. Plain(g) /\ DOMAIN g = StageFields /\ g.nonce = s.nonce /\ Kin(g, s)
        BY <2>2, <4>2, <4>4, StageOpens
      <4>. QED BY <4>5 DEF Kin
    <3>2. CASE ~SealedIn(in, k)
      <4>1. Plain(s) BY <2>1, <2>2, <3>2 DEF InStage, Plain, CGs
      <4>2. g = s BY <1>6, <4>1 DEF CgReopened, Plain
      <4>. HIDE DEF s, g
      <4>. QED BY <2>2, <4>1, <4>2
    <3>. QED BY <3>1, <3>2
  <2>5. cg(k) = set(g, pick("G", k))
    <3>1. cg(k) = IF g.dec THEN set(g, pick("G", k)) ELSE g BY <2>1
    <3>. HIDE DEF g, set, cg
    <3>. QED BY <2>4, <3>1 DEF Plain
  <2>. HIDE DEF g, cg
  <2>6. Renonced(cg(k), g)
    <3>1. IsNonce(g.nonce) BY <2>2, <2>4
    <3>. QED BY <1>3, <1>5, <2>4, <2>5, <3>1
  <2>. QED BY <2>4, <2>6 DEF Renonced, Plain
<1>7. ASSUME NEW k \in DOMAIN im.st \ CGs
      PROVE  stage(k) = im.st[k] \/ \E place \in DOMAIN NoDonor : stage(k) = set(im.st[k], pick(place, k))
                                 \/ stage(k) = set(im.st[k], pick(place, "A"))
                                 \/ stage(k) = set(im.st[k], pick(place, "CD"))
  <2>. HIDE DEF set, cg
  <2>1. CASE k = "A" \/ k = "EA" BY <1>3, <2>1 DEF CFs
  <2>2. CASE k = "B" BY <1>3, <2>2 DEF CFs
  <2>3. CASE k = "SC" BY <1>3, <2>3 DEF CFs
  <2>4. CASE k = "CD" \/ k = "ED" BY <1>3, <2>4 DEF CFs
  <2>5. CASE k = "CE" BY <1>3, <2>5 DEF CFs
  <2>6. CASE k \in CFs BY <1>3, <2>6 DEF CFs
  <2>7. CASE k \notin {"A", "EA", "B", "SC", "CD", "ED", "CE"} \cup CFs BY <2>7
  <2>. QED BY <2>1, <2>2, <2>3, <2>4, <2>5, <2>6, <2>7
<1>8. ~whole => \A k \in Chain \cap DOMAIN im.st : stage(k) = im.st[k]
  <2>. SUFFICES ASSUME ~whole, NEW k \in Chain \cap DOMAIN im.st PROVE stage(k) = im.st[k] OBVIOUS
  <2>. HIDE DEF set, cg
  <2>. QED BY DEF Chain, CFs, CGs
<1>9. ~im.sb /\ Has(im, "SC") => stage("SC") = im.st["SC"]
  <2>. SUFFICES ASSUME ~im.sb PROVE stage("SC") = im.st["SC"] OBVIOUS
  <2>. HIDE DEF set, cg
  <2>. QED BY DEF CFs, CGs
<1>10. \A k \in CGs : stage(k) = cg(k)
  <2>. HIDE DEF set, cg
  <2>. QED BY DEF CFs, CGs
<1>. HIDE DEF stage, cg
<1>11. \A k \in DOMAIN im.st \ CGs : Renonced(m.st[k], im.st[k])
  <2>. SUFFICES ASSUME NEW k \in DOMAIN im.st \ CGs PROVE Renonced(m.st[k], im.st[k]) OBVIOUS
  <2>1. m.st[k] = stage(k) BY <1>4
  <2>2. DOMAIN im.st[k] = StageFields /\ IsNonce(im.st[k].nonce) BY <1>1, <1>4
  <2>. HIDE DEF set
  <2>. QED BY <1>5, <1>7, <2>1, <2>2
<1>12. \A k \in CGs \cap DOMAIN im.st : Plain(m.st[k]) /\ DOMAIN m.st[k] = StageFields
                                        /\ IsNonce(m.st[k].nonce) /\ m.st[k].body = im.st[k].body
  <2>. SUFFICES ASSUME NEW k \in CGs \cap DOMAIN im.st
                PROVE  Plain(m.st[k]) /\ DOMAIN m.st[k] = StageFields
                       /\ IsNonce(m.st[k].nonce) /\ m.st[k].body = im.st[k].body
    OBVIOUS
  <2>1. m.st[k] = cg(k) BY <1>4, <1>10
  <2>2. PICK f \in CFs : k = CgOf(f) BY DEF CFs, CGs, CgOf
  <2>. QED BY <1>6, <2>1, <2>2
<1>13. ~whole => \A k \in Chain \cap DOMAIN im.st : m.st[k] = im.st[k]
  BY <1>4, <1>8
<1>14. ~im.sb /\ Has(im, "SC") => m.st["SC"] = im.st["SC"]
  BY <1>4, <1>9 DEF Has
<1>. QED BY <1>4, <1>11, <1>12, <1>13, <1>14 DEF NoncesDone, m, whole

\* What encrypt_all is given by a build.
Built(m, in) ==
  /\ ImageShaped(m) /\ Suited(m, in.type) /\ Flags(m, in) /\ Unspoilt(m) /\ Ready(m, in.cpu)

\* What has been paired has the shape of an image.
LEMMA PairedShaped ==
  ASSUME NEW in, Supplied(in), NEW m, Paired(m, in)
  PROVE  /\ ImageShaped(m) /\ Suited(m, in.type) /\ Unspoilt(m)
         /\ \A k : Has(m, k) <=> k \in DOMAIN in.st
<1>1. /\ DOMAIN m = ImageFields /\ Flags(m, in) /\ m.smc = in.smc /\ DOMAIN m.st = DOMAIN in.st
      /\ Shaped(in)
  BY DEF Paired, Framed, Supplied
<1>2. \A k : Has(m, k) <=> k \in DOMAIN in.st BY <1>1 DEF Has
<1>3. \A k \in DOMAIN m.st : /\ DOMAIN m.st[k] = StageFields /\ IsNonce(m.st[k].nonce)
                             /\ m.st[k].body # "spoilt"
  BY <1>1 DEF Paired, Supplied
<1>4. ImageShaped(m)
  <2>1. {"A", "CD"} \subseteq DOMAIN m.st /\ DOMAIN m.st \subseteq Kinds
    BY <1>1 DEF Shaped
  <2>2. \A f \in CFs : CgOf(f) \in DOMAIN m.st => f \in DOMAIN m.st BY <1>1 DEF Shaped
  <2>3. (Has(m, "X") => Has(m, "B")) /\ (m.sb => Has(m, "SC")) BY <1>1, <1>2 DEF Shaped, Flags
  <2>4. m.sb \in BOOLEAN /\ m.mfg \in BOOLEAN /\ m.v2 \in BOOLEAN /\ m.newCb \in BOOLEAN
        /\ m.smc \in Nat \ {0}
    BY <1>1 DEF Shaped, Flags
  <2>. QED BY <1>1, <1>3, <2>1, <2>2, <2>3, <2>4 DEF ImageShaped
<1>5. Suited(m, in.type) BY <1>1, <1>2 DEF Suited, Shaped, Flags
<1>6. Unspoilt(m) BY <1>3 DEF Unspoilt
<1>. QED BY <1>2, <1>4, <1>5, <1>6

\* What a build hands to encrypt_all is ready for it.
LEMMA NoncedReady ==
  ASSUME Gaps = {}, NEW in, Supplied(in), NEW im, Paired(im, in), NEW m,
         NoncesDone(m, im, ChainPlaintext(im))
  PROVE  Built(m, in)
<1>1. /\ ImageShaped(im) /\ Suited(im, in.type) /\ Unspoilt(im)
      /\ \A k : Has(im, k) <=> k \in DOMAIN in.st
  BY PairedShaped
<1>2. /\ DOMAIN m = ImageFields /\ DOMAIN m.st = DOMAIN im.st
      /\ m.sb = im.sb /\ m.mfg = im.mfg /\ m.v2 = im.v2 /\ m.newCb = im.newCb /\ m.smc = im.smc
      /\ \A k : Has(m, k) <=> Has(im, k)
  BY DEF NoncesDone, Has
<1>3. \A k \in DOMAIN im.st \ CGs : Renonced(m.st[k], im.st[k]) BY DEF NoncesDone
<1>4. \A k \in CGs \cap DOMAIN im.st : Plain(m.st[k]) /\ DOMAIN m.st[k] = StageFields
                                       /\ IsNonce(m.st[k].nonce) /\ m.st[k].body = im.st[k].body
  BY DEF NoncesDone
<1>5. Flags(im, in) /\ Shaped(in) /\ SealedAlongChain(in) /\ Admitted(in)
  BY DEF Paired, Framed, Supplied
<1>6. \A k \in DOMAIN m.st : /\ DOMAIN m.st[k] = StageFields /\ IsNonce(m.st[k].nonce)
                             /\ m.st[k].body = im.st[k].body
  BY <1>2, <1>3, <1>4 DEF Renonced
<1>7. ImageShaped(m)
  <2>1. {"A", "CD"} \subseteq DOMAIN m.st /\ DOMAIN m.st \subseteq Kinds
        /\ \A f \in CFs : CgOf(f) \in DOMAIN m.st => f \in DOMAIN m.st
    BY <1>1, <1>2 DEF ImageShaped
  <2>2. (Has(m, "X") => Has(m, "B")) /\ (m.sb => Has(m, "SC")) BY <1>1, <1>2 DEF ImageShaped
  <2>3. m.sb \in BOOLEAN /\ m.mfg \in BOOLEAN /\ m.v2 \in BOOLEAN /\ m.newCb \in BOOLEAN
        /\ m.smc \in Nat \ {0}
    BY <1>1, <1>2 DEF ImageShaped
  <2>. QED BY <1>2, <1>6, <2>1, <2>2, <2>3 DEF ImageShaped
<1>8. Suited(m, in.type) /\ Flags(m, in) /\ Unspoilt(m)
  BY <1>1, <1>2, <1>5, <1>6 DEF Suited, Flags, Unspoilt
<1>9. \A k \in DOMAIN im.st \ CGs : Plain(im.st[k]) => Plain(m.st[k])
  BY <1>3 DEF Renonced, Plain
<1>10. \A k \in ({"A", "X", "B", "EA", "ED"} \cup CFs) \cap DOMAIN im.st : Plain(m.st[k])
  <2>1. \A k \in ({"A", "X", "B", "EA", "ED"} \cup CFs) \cap DOMAIN im.st : Plain(im.st[k]) /\ k \notin CGs
    BY <1>1 DEF Paired, Has, CFs, CGs
  <2>. QED BY <1>9, <2>1
<1>11. ASSUME NEW k \in {"CD", "CE"} \cap DOMAIN im.st, ~SealedIn(in, k)
       PROVE  Plain(im.st[k]) /\ Plain(m.st[k])
  <2>1. InStage(im.st[k], in, k) BY <1>1 DEF Paired, Has
  <2>2. Plain(im.st[k]) BY <1>11, <2>1 DEF InStage, Plain
  <2>. QED BY <1>9, <2>2 DEF CGs
<1>12. ASSUME NEW k \in {"CD", "CE"} \cap DOMAIN im.st, SealedIn(in, k)
       PROVE  /\ SameChain(m, im) /\ m.st[k] = im.st[k] /\ m.st["CD"] = im.st["CD"]
              /\ Under(im.st[k], SuppliedUnder(in, k)) /\ im.st[k].nonce # ZeroNonce
              /\ im.st[k].key = NoKey
  <2>1. InStage(im.st[k], in, k) BY <1>1 DEF Paired, Has
  <2>2. Under(im.st[k], SuppliedUnder(in, k)) /\ im.st[k].nonce = in.st[k].nonce /\ im.st[k].key = NoKey
    BY <1>12, <2>1 DEF InStage
  <2>3. im.st[k].dec = FALSE BY <2>2 DEF Under
  <2>4. ~ChainPlaintext(im) BY <2>3 DEF ChainPlaintext
  <2>5. \A j \in Chain \cap DOMAIN im.st : m.st[j] = im.st[j] BY <2>4 DEF NoncesDone
  <2>6. in.st[k].nonce # ZeroNonce BY <1>5, <1>12 DEF SealedAlongChain
  <2>7. SameChain(m, im) BY <1>2, <2>5 DEF SameChain, SameFlags
  <2>8. "CD" \in DOMAIN im.st BY <1>1 DEF ImageShaped
  <2>. QED BY <2>2, <2>5, <2>6, <2>7, <2>8 DEF Chain
<1>13. /\ SealedIn(in, "CD") => ~in.sb /\ SuppliedUnder(in, "CD") = KeyCd(im, in.cpu)
       /\ SealedIn(in, "CE") => ~in.sb /\ SuppliedUnder(in, "CE") = KeyCe(im, in.cpu)
       /\ SealedIn(in, "SC") => SuppliedUnder(in, "SC") = KeySc(im)
  BY PairedKeys
<1>14. "CD" \in DOMAIN im.st /\ "A" \in DOMAIN im.st BY <1>1 DEF ImageShaped
<1>15. \/ Plain(m.st["CD"])
       \/ Under(m.st["CD"], KeyCd(m, in.cpu)) /\ m.st["CD"].key = NoKey /\ m.st["CD"].nonce # ZeroNonce
  <2>1. CASE SealedIn(in, "CD")
    <3>1. SameChain(m, im) /\ m.st["CD"] = im.st["CD"] /\ Under(im.st["CD"], SuppliedUnder(in, "CD"))
          /\ im.st["CD"].nonce # ZeroNonce /\ im.st["CD"].key = NoKey
      BY <1>12, <1>14, <2>1
    <3>2. KeyCd(m, in.cpu) = KeyCd(im, in.cpu) BY <1>1, <3>1, SameChainKeys
    <3>. QED BY <1>13, <2>1, <3>1, <3>2
  <2>2. CASE ~SealedIn(in, "CD") BY <1>11, <1>14, <2>2
  <2>. QED BY <2>1, <2>2
<1>16. Has(m, "CE") => \/ Plain(m.st["CE"])
                       \/ Under(m.st["CE"], KeyCe(m, in.cpu)) /\ m.st["CD"].nonce # ZeroNonce
                          /\ m.st["CE"].nonce # ZeroNonce
  <2>. SUFFICES ASSUME Has(m, "CE")
                PROVE  \/ Plain(m.st["CE"])
                       \/ Under(m.st["CE"], KeyCe(m, in.cpu)) /\ m.st["CD"].nonce # ZeroNonce
                          /\ m.st["CE"].nonce # ZeroNonce
    OBVIOUS
  <2>0. "CE" \in DOMAIN im.st /\ Has(im, "CE") BY <1>2 DEF Has
  <2>1. CASE SealedIn(in, "CE")
    <3>1. SameChain(m, im) /\ m.st["CE"] = im.st["CE"] /\ Under(im.st["CE"], SuppliedUnder(in, "CE"))
          /\ im.st["CE"].nonce # ZeroNonce /\ m.st["CD"] = im.st["CD"]
      BY <1>12, <2>0, <2>1
    <3>2. KeyCe(m, in.cpu) = KeyCe(im, in.cpu) BY <1>1, <2>0, <3>1, SameChainKeys
    <3>3. im.st["CD"].nonce = in.st["CD"].nonce /\ in.st["CD"].nonce # ZeroNonce
      BY <1>1, <1>5, <1>14, <2>1 DEF SealedAlongChain, Paired, Has
    <3>. QED BY <1>13, <2>1, <3>1, <3>2, <3>3
  <2>2. CASE ~SealedIn(in, "CE") BY <1>11, <2>0, <2>2
  <2>. QED BY <2>1, <2>2
<1>17. ScKept(m)
  <2>. SUFFICES ASSUME Has(m, "SC"), ~m.sb
                PROVE  /\ m.st["SC"].dec = FALSE
                       /\ m.st["SC"].under = IF m.st["SC"].nonce = ZeroNonce THEN {} ELSE {KeySc(m)}
    BY DEF ScKept
  <2>1. m.st["SC"] = im.st["SC"] /\ Has(im, "SC") /\ ~in.sb
    BY <1>2, <1>5 DEF NoncesDone, Flags
  <2>2. InStage(im.st["SC"], in, "SC") /\ "SC" \in DOMAIN in.st BY <1>1, <2>1 DEF Paired
  <2>3. KeySc(m) = KeySc(im) BY <2>1 DEF KeySc
  <2>4. CASE SealedIn(in, "SC")
    <3>1. Under(im.st["SC"], KeySc(im)) /\ im.st["SC"].nonce = in.st["SC"].nonce
      BY <1>13, <2>2, <2>4 DEF InStage
    <3>2. in.st["SC"].nonce # ZeroNonce BY <1>5, <2>4 DEF SealedAlongChain
    <3>. QED BY <2>1, <2>3, <3>1, <3>2 DEF Under
  <2>5. CASE ~SealedIn(in, "SC")
    <3>1. im.st["SC"].under = {} /\ im.st["SC"].dec = FALSE /\ im.st["SC"].nonce = in.st["SC"].nonce
      BY <2>1, <2>2, <2>5 DEF InStage
    <3>2. in.st["SC"].nonce = ZeroNonce BY <1>5, <2>1, <2>2, <2>5 DEF Admitted
    <3>. QED BY <2>1, <3>1, <3>2
  <2>. QED BY <2>4, <2>5
<1>18. Has(m, "X") => m.st["B"].key = NoKey \/ IsNonce(m.st["B"].key)
  <2>. SUFFICES ASSUME Has(m, "X") PROVE m.st["B"].key = NoKey \/ IsNonce(m.st["B"].key) OBVIOUS
  <2>1. "B" \in DOMAIN im.st /\ "B" \in DOMAIN in.st BY <1>1, <1>2 DEF ImageShaped, Has
  <2>2. m.st["B"].key = im.st["B"].key BY <1>3, <2>1 DEF Renonced, CGs
  <2>3. im.st["B"].key \in {NoKey, KeyB(im, in.cpu)} BY <2>1 DEF Paired
  <2>4. IsNonce(im.st["A"].nonce) /\ IsNonce(im.st["B"].nonce) BY <1>1, <1>14, <2>1 DEF ImageShaped
  <2>5. IsNonce(KeyA(im)) BY <2>4, KeysHold DEF KeyA
  <2>6. IsNonce(KeyB(im, in.cpu)) BY <2>4, <2>5, KeysHold DEF KeyB
  <2>. QED BY <2>2, <2>3, <2>6
<1>19. m.sb => \A k \in {"SC", "CD", "CE"} \cap DOMAIN m.st : Plain(m.st[k])
  <2>. SUFFICES ASSUME m.sb, NEW k \in {"SC", "CD", "CE"} \cap DOMAIN m.st PROVE Plain(m.st[k])
    OBVIOUS
  <2>1. in.sb /\ ~SealedIn(in, k) BY <1>2, <1>5 DEF SealedAlongChain, Flags
  <2>2. k \in DOMAIN im.st /\ InStage(im.st[k], in, k) BY <1>1, <1>2 DEF Paired, Has
  <2>3. Plain(im.st[k]) BY <2>1, <2>2 DEF InStage, Plain
  <2>. QED BY <1>9, <2>2, <2>3 DEF CGs
<1>20. \A k \in {"CD", "CE"} \cap DOMAIN m.st : Plain(m.st[k]) \/ m.st[k].nonce # ZeroNonce
  BY <1>15, <1>16 DEF Has
<1>21. \A k \in (CFs \cup CGs) \cap DOMAIN m.st : Plain(m.st[k]) BY <1>2, <1>4, <1>10
<1>22. \A k \in {"A", "X", "B", "EA", "ED"} \cap DOMAIN m.st : Plain(m.st[k]) BY <1>2, <1>10
<1>23. Ready(m, in.cpu) BY <1>15, <1>16, <1>17, <1>18, <1>19, <1>20, <1>21, <1>22 DEF Ready
<1>. QED BY <1>7, <1>8, <1>23 DEF Built

\* What a later encrypt_all is given: an opened image.
LEMMA OpenReady ==
  ASSUME NEW im, ImageShaped(im), AllOpen(im), ~ScLeftOpen(im), NEW cpu
  PROVE  Ready(im, cpu)
<1>1. \A k \in DOMAIN im.st \ {"SC"} : Plain(im.st[k]) BY DEF AllOpen
<1>2. Has(im, "SC") /\ ~im.sb => /\ im.st["SC"].nonce = ZeroNonce /\ im.st["SC"].under = {}
                                 /\ im.st["SC"].dec = FALSE
  BY DEF AllOpen, ScLeftOpen
<1>3. im.sb => Has(im, "SC") /\ Plain(im.st["SC"]) BY DEF AllOpen, ImageShaped
<1>4. ScKept(im) BY <1>2 DEF ScKept
<1>5. Has(im, "X") => IsNonce(im.st["B"].key) BY DEF AllOpen, ImageShaped, Has
<1>6. "CD" \in DOMAIN im.st BY DEF ImageShaped
<1>. QED BY <1>1, <1>3, <1>4, <1>5, <1>6 DEF Ready, Has, CFs, CGs

\* extract_all: what is taken out of an opened image may be built again.
LEMMA DonorsAreNonces ==
  ASSUME NEW im, ImageShaped(im), NEW f
  PROVE  LET d == DonorNonces(im, f)
         IN  /\ DOMAIN d = DOMAIN NoDonor
             /\ \A p \in DOMAIN NoDonor : \/ IsNonce(d[p]) /\ d[p] # ZeroNonce
                                          \/ d[p] = NoKey
<1> DEFINE of(k) == IF Has(im, k) /\ im.st[k].nonce # ZeroNonce THEN im.st[k].nonce ELSE NoKey
           pick(p) == CASE p = "B" -> IF Has(im, "B") /\ ~Has(im, "X") THEN of("B") ELSE of("SC")
                        [] p = "F" -> of(f)
                        [] p = "G" -> of(CgOf(f))
                        [] OTHER -> of(p)
           d == DonorNonces(im, f)
<1>1. \A k : \/ IsNonce(of(k)) /\ of(k) # ZeroNonce
             \/ of(k) = NoKey
  BY DEF ImageShaped, Has
<1>2. d = IF ~Has(im, "CE") THEN NoDonor ELSE [p \in DOMAIN NoDonor |-> pick(p)]
  BY DEF DonorNonces
<1>. HIDE DEF of, d
<1>3. \A p \in DOMAIN NoDonor : \/ IsNonce(pick(p)) /\ pick(p) # ZeroNonce
                                \/ pick(p) = NoKey
  <2>. SUFFICES ASSUME NEW p \in DOMAIN NoDonor
                PROVE  \E k : pick(p) = of(k)
    BY <1>1
  <2>1. CASE p = "B" BY <2>1
  <2>2. CASE p = "F" BY <2>2
  <2>3. CASE p = "G" BY <2>3
  <2>4. CASE p \notin {"B", "F", "G"} BY <2>4
  <2>. QED BY <2>1, <2>2, <2>3, <2>4
<1>. HIDE DEF pick
<1>4. CASE ~Has(im, "CE")
  <2>1. d = NoDonor BY <1>2, <1>4
  <2>. QED BY <2>1 DEF NoDonor, d
<1>5. CASE Has(im, "CE")
  <2>1. d = [p \in DOMAIN NoDonor |-> pick(p)] BY <1>2, <1>5
  <2>. QED BY <1>3, <2>1 DEF d
<1>. QED BY <1>4, <1>5

\* What extract_all returns of an open image is a supply like any other.
LEMMA ExtractStep ==
  ASSUME NEW im, ImageShaped(im), NEW in, Suited(im, in.type), Shaped(in), Flags(im, in),
         Unspoilt(im), AllOpen(im), NEW type, NEW f, NEW cpu,
         \/ type = in.type
         \/ ~im.sb /\ ~Has(im, "X") /\ type # "Glitch3" /\ type # "Devkit",
         Admitted([Extracted(im, in, type, f) EXCEPT !.cpu = cpu])
  PROVE  Supplied([Extracted(im, in, type, f) EXCEPT !.cpu = cpu])
<1> DEFINE n == [Extracted(im, in, type, f) EXCEPT !.cpu = cpu]
           donors == DonorNonces(im, f)
           pats == IF type = in.type THEN in.patches ELSE "none"
<1>1. /\ DOMAIN n = InputFields /\ n.type = type /\ n.st = im.st /\ n.donor = donors
      /\ n.smc = im.smc /\ n.patches = pats
      /\ n.sb = in.sb /\ n.mfg = in.mfg /\ n.v2 = in.v2 /\ n.newCb = in.newCb
  BY DEF Shaped, Extracted, InputFields
<1>. HIDE DEF n, donors
<1>2. pats \in {"none", "fits", "long"} BY DEF Shaped
<1>3. \A k \in DOMAIN im.st : im.st[k].under = {} BY DEF AllOpen, Plain, Has
<1>4. \A k : ~SealedIn(n, k) BY <1>1, <1>3 DEF SealedIn
<1>5. SealedAlongChain(n) BY <1>4 DEF SealedAlongChain
<1>6. Shaped(n)
  <2>1. "X" \in DOMAIN n.st <=> n.type = "Glitch3" BY <1>1 DEF Suited, Has
  <2>2. n.type = "Devkit" => n.sb BY <1>1 DEF Suited, Flags
  <2>3. /\ {"A", "CD"} \subseteq DOMAIN n.st /\ DOMAIN n.st \subseteq Kinds
        /\ \A c \in CFs : CgOf(c) \in DOMAIN n.st => c \in DOMAIN n.st
        /\ "X" \in DOMAIN n.st => "B" \in DOMAIN n.st
        /\ n.sb => "SC" \in DOMAIN n.st
        /\ n.smc \in Nat \ {0}
    BY <1>1 DEF ImageShaped, Flags, Has
  <2>4. n.sb \in BOOLEAN /\ n.mfg \in BOOLEAN /\ n.v2 \in BOOLEAN /\ n.newCb \in BOOLEAN
    BY <1>1 DEF Shaped
  <2>5. \A k \in DOMAIN n.st : DOMAIN n.st[k] = StageFields /\ n.st[k].body # "spoilt"
    BY <1>1 DEF ImageShaped, Unspoilt
  <2>. QED BY <1>1, <1>2, <2>1, <2>2, <2>3, <2>4, <2>5 DEF Shaped
<1>7. \A k \in DOMAIN n.st : IsNonce(n.st[k].nonce) BY <1>1 DEF ImageShaped
<1>8. \A p \in DOMAIN NoDonor : \/ IsNonce(n.donor[p]) /\ n.donor[p] # ZeroNonce
                                \/ n.donor[p] = NoKey
  BY <1>1, DonorsAreNonces DEF donors
<1>9. Admitted(n) BY DEF n
<1>. QED BY <1>5, <1>6, <1>7, <1>8, <1>9 DEF Supplied, n

-----------------------------------------------------------------------------
(* Every step keeps the invariant.                                         *)

WrittenWell(m, w, in) ==
  Standing(m, in) /\ AsWritten(m, w) /\ Drawn(m) /\ Records(m, w, in.type)

\* An image keeps its standing where shape, flags and bodies stay.
LEMMA StandingKept ==
  ASSUME NEW im, NEW in, Standing(im, in), NEW m, ImageShaped(m), SameFlags(m, im),
         DOMAIN m.st = DOMAIN im.st \/ DOMAIN m.st = DOMAIN im.st \ Extra, Unspoilt(m)
  PROVE  Standing(m, in)
<1>1. Has(m, "X") <=> Has(im, "X") BY DEF Has, Extra
<1>. QED BY <1>1 DEF Standing, Suited, Flags, SameFlags

\* What encrypt_all leaves when it succeeds is a written image.
LEMMA EncryptedWritten ==
  ASSUME NEW im, NEW in, Standing(im, in), NEW cpu, NEW r, EncryptDone(r, im, cpu, in.type),
         r.ok = TRUE
  PROVE  WrittenWell(r.img, [st |-> r.img.st, cpu |-> cpu, smc |-> r.img.smc], in)
<1> DEFINE m == r.img
           w == [st |-> m.st, cpu |-> cpu, smc |-> m.smc]
<1>1. /\ ImageShaped(m) /\ SameFlags(m, im) /\ DOMAIN m.st = DOMAIN im.st /\ Bodies(m, im)
      /\ ChainClosed(m, cpu) /\ SlotsEither(m)
      /\ SlotsClosed(m) /\ ExtraClosed(m) /\ Tails(m)
      /\ Digests(m, m.smc, in.type, cpu) /\ Macs(m, in.type, cpu) /\ Drawn(m)
  BY DEF EncryptDone
<1>. HIDE DEF m
<1>2. w.st = m.st /\ w.cpu = cpu /\ w.smc = m.smc OBVIOUS
<1>. HIDE DEF w
<1>3. Unspoilt(m) BY <1>1 DEF Bodies, Unspoilt, Standing
<1>4. Standing(m, in) BY <1>1, <1>3, StandingKept
<1>5. m.smc # 0 BY <1>1 DEF ImageShaped
<1>6. \A k \in DOMAIN m.st : m.st[k].under = Links(m, in.type, cpu, k) BY <1>1, LinksHold
<1>7. \A k \in DOMAIN m.st : SameText(m.st[k], m.st[k]) BY DEF SameText
<1>8. Records(m, w, in.type) BY <1>1, <1>2, <1>6, <1>7 DEF Records
<1>. QED BY <1>1, <1>2, <1>4, <1>5, <1>8 DEF WrittenWell, AsWritten, m, w

\* A written image read back.
LEMMA WrittenRead ==
  ASSUME Gaps = {}, NEW im, NEW w, NEW in, WrittenWell(im, w, in)
  PROVE  LET m == ReadBack(im)
         IN  /\ Standing(m, in) /\ ~Has(m, "EA") /\ ~Has(m, "ED")
             /\ ChainClosed(m, w.cpu) /\ SlotsEither(m) /\ Drawn(m) /\ Records(m, w, in.type)
<1> DEFINE m == ReadBack(im)
<1>1. /\ ImageShaped(im) /\ ChainClosed(im, w.cpu) /\ SlotsClosed(im) /\ Unspoilt(im)
      /\ Has(im, "ED") => Has(im, "EA")
      /\ Drawn(im) /\ Records(im, w, in.type) /\ Standing(im, in)
  BY DEF WrittenWell, AsWritten, Standing, ExtraClosed
<1>2. /\ ImageShaped(m) /\ Copies(m, im) /\ DOMAIN m.st = DOMAIN im.st \ Extra
      /\ ChainClosed(m, w.cpu) /\ SlotsEither(m) /\ Unspoilt(m)
  BY <1>1, ReadBackStep
<1>. HIDE DEF m
<1>3. Standing(m, in) BY <1>1, <1>2, StandingKept DEF Copies
<1>4. ~Has(m, "EA") /\ ~Has(m, "ED") BY <1>2 DEF Has, Extra
<1>5. Drawn(m) BY <1>1, <1>2, CopyDrawn
<1>6. Records(m, w, in.type) BY <1>1, <1>2, CopyRecords
<1>. QED BY <1>2, <1>3, <1>4, <1>5, <1>6 DEF m

\* Opening leaves the record standing, if there is one.
Opens(m, im, w, in) ==
  /\ Standing(m, in) /\ DOMAIN m.st = DOMAIN im.st /\ AllOpen(m)
  /\ Drawn(im) => Drawn(m)
  /\ Records(im, w, in.type) => Records(m, w, in.type)

\* What decrypt_all leaves when it succeeds is an open image.
LEMMA DecryptedOpen ==
  ASSUME NEW im, NEW in, Standing(im, in), ~Has(im, "ED"), NEW cpu, NEW w,
         NEW r, DecryptDone(r, im, cpu), r.ok = TRUE
  PROVE  Opens(r.img, im, w, in)
<1> DEFINE m == r.img
<1>1. /\ ImageShaped(m) /\ SameFlags(m, im) /\ DOMAIN m.st = DOMAIN im.st /\ Bodies(m, im)
      /\ m.smc = im.smc /\ m.spills = im.spills /\ AllOpen(m)
      /\ \A k \in DOMAIN im.st : SameText(m.st[k], im.st[k])
  BY DEF DecryptDone
<1>. HIDE DEF m
<1>2. ImageShaped(im) BY DEF Standing
<1>3. Unspoilt(m) BY <1>1 DEF Bodies, Unspoilt, Standing
<1>4. Standing(m, in) BY <1>1, <1>3, StandingKept
<1>5. Copies(m, im) BY <1>1 DEF Copies
<1>6. Drawn(im) => Drawn(m) BY <1>5, CopyDrawn
<1>7. Records(im, w, in.type) => Records(m, w, in.type) BY <1>1, <1>2, <1>5, CopyRecords
<1>. QED BY <1>1, <1>4, <1>6, <1>7 DEF Opens, m

\* An edit of what lies beside the stages.
LEMMA EditedOpen ==
  ASSUME NEW im, NEW in, Standing(im, in), ~Has(im, "ED"), AllOpen(im), NEW w,
         NEW m, m.st = im.st, SameFlags(m, im), m.spills = im.spills, DOMAIN m = ImageFields,
         m.smc \in Nat \ {0}
  PROVE  Opens(m, im, w, in)
<1>1. ImageShaped(im) BY DEF Standing
<1>2. ImageShaped(m) BY <1>1 DEF ImageShaped, SameFlags, Has
<1>3. Unspoilt(m) BY DEF Unspoilt, Standing
<1>4. Standing(m, in) BY <1>2, <1>3, StandingKept
<1>5. Copies(m, im) BY DEF Copies, SameText
<1>6. Drawn(im) => Drawn(m) BY <1>5, CopyDrawn
<1>7. Records(im, w, in.type) => Records(m, w, in.type) BY <1>1, <1>2, <1>5, CopyRecords
<1>8. AllOpen(m) BY DEF AllOpen, SameFlags, Has
<1>. QED BY <1>4, <1>6, <1>7, <1>8 DEF Opens

WrittenDone(r, cpu, in) ==
  /\ r.ok \in BOOLEAN
  /\ r.ok = TRUE => WrittenWell(r.img, [st |-> r.img.st, cpu |-> cpu, smc |-> r.img.smc], in)

\* run_build from supply to written image, or failure.
LEMMA BuildStep ==
  ASSUME Gaps = {}, NEW in, Supplied(in), NEW draw
  PROVE  LET patched == PatchesApplied(InputParsed(in), in)
             paired == Then(patched, MetadataApplied(patched.img, in))
             nonced == NoncesApplied(paired.img, in, draw)
         IN  WrittenDone(Then(paired, EncryptAll(nonced, in.cpu, in.type, draw)), in.cpu, in)
<1> DEFINE patched == PatchesApplied(InputParsed(in), in)
           meta == MetadataApplied(patched.img, in)
           paired == Then(patched, meta)
           nonced == NoncesApplied(paired.img, in, draw)
           sealed == EncryptAll(nonced, in.cpu, in.type, draw)
           r == Then(paired, sealed)
<1>1. PatchedDone(patched, in) BY ParsedStages, PatchedStages
<1>. HIDE DEF patched
<1>2. patched.ok \in BOOLEAN /\ (patched.ok = TRUE => StagesIn(patched.img, in))
  BY <1>1 DEF PatchedDone
<1>3. patched.ok = TRUE => PairedDone(meta, in) BY <1>2, PairedStages
<1>. HIDE DEF meta
<1>4. paired.ok \in BOOLEAN /\ (paired.ok = TRUE => Paired(paired.img, in))
  <2>1. CASE patched.ok = TRUE
    <3>1. paired = meta BY <2>1 DEF Then
    <3>. HIDE DEF paired
    <3>. QED BY <1>3, <2>1, <3>1 DEF PairedDone
  <2>2. CASE patched.ok = FALSE
    <3>1. paired = patched BY <2>2 DEF Then
    <3>. HIDE DEF paired
    <3>. QED BY <2>2, <3>1
  <2>. QED BY <1>2, <2>1, <2>2
<1>. HIDE DEF paired
<1>5. CASE paired.ok = FALSE
  <2>1. r = paired BY <1>5 DEF Then
  <2>. HIDE DEF r
  <2>2. r.ok = FALSE BY <1>5, <2>1
  <2>3. WrittenDone(r, in.cpu, in) BY <2>2 DEF WrittenDone
  <2>. QED BY <2>3 DEF r, sealed, nonced, paired, meta, patched
<1>6. CASE paired.ok = TRUE
  <2>1. r = sealed BY <1>6 DEF Then
  <2>2. NoncesDone(nonced, paired.img, ChainPlaintext(paired.img)) BY <1>4, <1>6, NoncesStep
  <2>. HIDE DEF nonced
  <2>3. Built(nonced, in) BY <1>4, <1>6, <2>2, NoncedReady
  <2>4. EncryptDone(sealed, nonced, in.cpu, in.type) BY <2>3, EncryptStep DEF Built
  <2>5. Standing(nonced, in) BY <2>3 DEF Built, Standing, Supplied
  <2>. HIDE DEF sealed
  <2>6. sealed.ok \in BOOLEAN BY <2>4 DEF EncryptDone
  <2>7. WrittenDone(sealed, in.cpu, in) BY <2>4, <2>5, <2>6, EncryptedWritten DEF WrittenDone
  <2>8. WrittenDone(r, in.cpu, in)
    <3>. HIDE DEF r
    <3>. QED BY <2>1, <2>7
  <2>. QED BY <2>8 DEF r, sealed, nonced, paired, meta, patched
<1>. QED BY <1>4, <1>5, <1>6

\* The first supply satisfies the invariant.
LEMMA SealInvInit ==
  Init => SealInv
<1>. SUFFICES ASSUME Init PROVE SealInv OBVIOUS
<1>1. input \in Inputs /\ Admitted(input) /\ phase = "supplied" BY DEF Init
<1>2. /\ Shaped(input) /\ SealedAlongChain(input)
      /\ \A k \in DOMAIN input.st : input.st[k].nonce \in Nonces
      /\ \A p \in DOMAIN NoDonor : input.donor[p] \in (Nonces \ {ZeroNonce}) \cup {NoKey}
  BY <1>1, InputsAssumption
<1>3. \A s \in Nonces : IsNonce(s)
  <2>. SUFFICES ASSUME NEW s \in Nonces PROVE IsNonce(s) OBVIOUS
  <2>. QED BY DEF Nonces, IsNonce
<1>4. \A k \in DOMAIN input.st : IsNonce(input.st[k].nonce) BY <1>2, <1>3
<1>5. \A p \in DOMAIN NoDonor : \/ IsNonce(input.donor[p]) /\ input.donor[p] # ZeroNonce
                                \/ input.donor[p] = NoKey
  BY <1>2, <1>3
<1>6. Supplied(input) BY <1>1, <1>2, <1>4, <1>5 DEF Supplied
<1>. QED BY <1>1, <1>6 DEF SealInv, Sound

\* A build keeps the invariant.
LEMMA RunBuildKeeps ==
  ASSUME Gaps = {}, SealInv, RunBuild
  PROVE  SealInv'
<1> DEFINE patched == PatchesApplied(InputParsed(input), input)
           paired == Then(patched, MetadataApplied(patched.img, input))
           nonced == NoncesApplied(paired.img, input, seals)
           r == Then(paired, EncryptAll(nonced, input.cpu, input.type, seals))
<1>1. /\ phase = "supplied" /\ image' = r.img /\ input' = input
      /\ phase' = IF r.ok THEN "written" ELSE "refused"
      /\ written' = IF r.ok THEN [st |-> r.img.st, cpu |-> input.cpu, smc |-> r.img.smc]
                    ELSE written
  BY DEF RunBuild
<1>2. Supplied(input) BY <1>1 DEF SealInv, Sound
<1>3. WrittenDone(r, input.cpu, input) BY <1>2, BuildStep
<1>. HIDE DEF r
<1>4. CASE r.ok = TRUE
  <2>1. phase' = "written" /\ WrittenWell(image', written', input')
    BY <1>1, <1>3, <1>4 DEF WrittenDone
  <2>. QED BY <2>1 DEF SealInv, Sound, WrittenWell
<1>5. CASE r.ok = FALSE
  <2>1. phase' = "refused" BY <1>1, <1>5
  <2>. QED BY <2>1 DEF SealInv, Sound
<1>. QED BY <1>3, <1>4, <1>5 DEF WrittenDone

\* Reading an image back keeps the invariant.
LEMMA ReadKeeps ==
  ASSUME Gaps = {}, SealInv, Read
  PROVE  SealInv'
<1> DEFINE m == ReadBack(image)
<1>1. /\ phase = "written" /\ phase' = "read" /\ image' = m /\ input' = input /\ written' = written
  BY DEF Read
<1>2. WrittenWell(image, written, input) BY <1>1 DEF SealInv, Sound, WrittenWell, AsWritten
<1>3. /\ Standing(m, input) /\ ~Has(m, "EA") /\ ~Has(m, "ED")
      /\ ChainClosed(m, written.cpu) /\ SlotsEither(m) /\ Drawn(m) /\ Records(m, written, input.type)
  BY <1>2, WrittenRead
<1>. HIDE DEF m
<1>4. Sound("read", input, m, written) BY <1>3 DEF Sound
<1>. QED BY <1>1, <1>4 DEF SealInv

\* Opening keeps the invariant, whatever was opened.
LEMMA OpenKeeps ==
  ASSUME Gaps = {}, SealInv, Open
  PROVE  SealInv'
<1> DEFINE r == DecryptAll(image, written.cpu)
<1>1. /\ phase \in {"read", "written", "broken"} /\ ~Has(image, "EA") /\ image' = r.img
      /\ phase' = IF r.ok THEN "open" ELSE "refused"
      /\ input' = input /\ written' = written
  BY DEF Open
<1>2. /\ Standing(image, input) /\ ChainClosed(image, written.cpu) /\ SlotsEither(image)
      /\ ~Has(image, "ED")
      /\ written.smc # 0 => Drawn(image) /\ Records(image, written, input.type)
  BY <1>1 DEF SealInv, Sound, AsWritten, ExtraClosed
<1>3. DecryptDone(r, image, written.cpu) BY <1>1, <1>2, DecryptStep DEF Standing
<1>. HIDE DEF r
<1>4. CASE r.ok = TRUE
  <2>1. Opens(r.img, image, written, input) BY <1>2, <1>3, <1>4, DecryptedOpen
  <2>2. ~Has(r.img, "EA") /\ ~Has(r.img, "ED") BY <1>1, <1>2, <2>1 DEF Opens, Has
  <2>3. Sound("open", input, r.img, written) BY <1>2, <2>1, <2>2 DEF Sound, Opens
  <2>. QED BY <1>1, <1>4, <2>3 DEF SealInv
<1>5. CASE r.ok = FALSE
  <2>1. phase' = "refused" BY <1>1, <1>5
  <2>. QED BY <2>1 DEF SealInv, Sound
<1>. QED BY <1>3, <1>4, <1>5 DEF DecryptDone

\* An edit of the SMC or of the filesystem's room.
LEMMA EditKeeps ==
  ASSUME SealInv, EditSmc \/ MakeRoom
  PROVE  SealInv'
<1>1. /\ phase = "open" /\ phase' = phase /\ input' = input /\ written' = written
      /\ (image' = [image EXCEPT !.smc = @ + 1]) \/ \E room : image' = [image EXCEPT !.room = room]
  BY DEF EditSmc, MakeRoom
<1>2. /\ Standing(image, input) /\ AllOpen(image) /\ ~Has(image, "EA") /\ ~Has(image, "ED")
      /\ written.smc # 0 => Drawn(image) /\ Records(image, written, input.type)
  BY <1>1 DEF SealInv, Sound
<1>3. DOMAIN image = ImageFields /\ image.smc \in Nat \ {0} BY <1>2 DEF Standing, ImageShaped
<1>4. /\ image'.st = image.st /\ SameFlags(image', image) /\ image'.spills = image.spills
      /\ DOMAIN image' = ImageFields /\ image'.smc \in Nat \ {0}
  <2>1. CASE image' = [image EXCEPT !.smc = @ + 1]
    BY <1>3, <2>1 DEF ImageFields, SameFlags
  <2>2. ASSUME NEW room, image' = [image EXCEPT !.room = room]
        PROVE  /\ image'.st = image.st /\ SameFlags(image', image) /\ image'.spills = image.spills
               /\ DOMAIN image' = ImageFields /\ image'.smc \in Nat \ {0}
    BY <1>3, <2>2 DEF ImageFields, SameFlags
  <2>. QED BY <1>1, <2>1, <2>2
<1>5. Opens(image', image, written, input) BY <1>2, <1>4, EditedOpen
<1>6. ~Has(image', "EA") /\ ~Has(image', "ED") BY <1>2, <1>4 DEF Has
<1>7. Sound("open", input, image', written) BY <1>2, <1>5, <1>6 DEF Sound, Opens
<1>. QED BY <1>1, <1>7 DEF SealInv

\* An open image whose SC was not left open is ready for encrypt_all, under any key.
LEMMA ResealStep ==
  ASSUME NEW im, NEW in, Standing(im, in), AllOpen(im), ~ScLeftOpen(im), NEW cpu, NEW draw
  PROVE  EncryptDone(EncryptAll(im, cpu, in.type, draw), im, cpu, in.type)
<1>1. ImageShaped(im) /\ Suited(im, in.type) BY DEF Standing
<1>2. Ready(im, cpu) BY <1>1, OpenReady
<1>. QED BY <1>1, <1>2, EncryptStep

\* Sealing again keeps the invariant.
LEMMA ResealKeeps ==
  ASSUME Gaps = {}, SealInv, Reseal
  PROVE  SealInv'
<1>1. /\ phase = "open" /\ ~ScLeftOpen(image) /\ input' = input
  BY DEF Reseal
<1>2. /\ Standing(image, input) /\ AllOpen(image) /\ ~Has(image, "EA") /\ ~Has(image, "ED")
  BY <1>1 DEF SealInv, Sound
<1>3. PICK cpu \in {"console", "other", "zero"} :
        LET r == EncryptAll(image, cpu, input.type, seals)
        IN  /\ image' = r.img
            /\ phase' = IF r.ok THEN "written" ELSE "broken"
            /\ written' = IF r.ok
                          THEN [st |-> r.img.st, cpu |-> cpu, smc |-> r.img.smc]
                          ELSE [NotWritten EXCEPT !.cpu = cpu]
  BY DEF Reseal
<1> DEFINE r == EncryptAll(image, cpu, input.type, seals)
<1>4. EncryptDone(r, image, cpu, input.type) BY <1>1, <1>2, ResealStep
<1>5. /\ image' = r.img
      /\ phase' = IF r.ok THEN "written" ELSE "broken"
      /\ written' = IF r.ok THEN [st |-> r.img.st, cpu |-> cpu, smc |-> r.img.smc]
                    ELSE [NotWritten EXCEPT !.cpu = cpu]
  BY <1>3
<1>. HIDE DEF r
<1>6. CASE r.ok = TRUE
  <2>1. WrittenWell(r.img, [st |-> r.img.st, cpu |-> cpu, smc |-> r.img.smc], input)
    BY <1>2, <1>4, <1>6, EncryptedWritten
  <2>2. phase' = "written" /\ WrittenWell(image', written', input')
    BY <1>1, <1>5, <1>6, <2>1
  <2>. QED BY <2>2 DEF SealInv, Sound, WrittenWell
<1>7. CASE r.ok = FALSE
  <2> DEFINE m == r.img
             w == [NotWritten EXCEPT !.cpu = cpu]
  <2>1. w.cpu = cpu /\ w.smc = 0 BY DEF NotWritten
  <2>2. Plain(image.st["CD"]) BY <1>2 DEF AllOpen, Standing, ImageShaped
  <2>3. /\ ImageShaped(m) /\ SameFlags(m, image) /\ DOMAIN m.st = DOMAIN image.st /\ Bodies(m, image)
        /\ ChainClosed(m, cpu) /\ SlotsEither(m)
    BY <1>2, <1>4, <2>2 DEF EncryptDone
  <2>4. phase' = "broken" /\ image' = m /\ written' = w BY <1>5, <1>7
  <2>. HIDE DEF m, w
  <2>5. Unspoilt(m) BY <1>2, <2>3 DEF Bodies, Unspoilt, Standing
  <2>6. Standing(m, input) BY <1>2, <2>3, <2>5, StandingKept
  <2>7. ~Has(m, "EA") /\ ~Has(m, "ED") BY <1>2, <2>3 DEF Has
  <2>8. Sound("broken", input, m, w) BY <2>1, <2>3, <2>6, <2>7 DEF Sound
  <2>. QED BY <1>1, <2>4, <2>8 DEF SealInv
<1>. QED BY <1>4, <1>6, <1>7 DEF EncryptDone

\* Handing an image on to another build keeps the invariant.
LEMMA ExtractKeeps ==
  ASSUME SealInv, Extract
  PROVE  SealInv'
<1>1. phase = "open" /\ phase' = "supplied" BY DEF Extract
<1>2. PICK type \in Types, f \in CFs :
        LET in == [Extracted(image, input, type, f) EXCEPT !.cpu = written.cpu]
        IN  Suits(type, image) /\ Admitted(in) /\ input' = in
  BY DEF Extract
<1>3. Standing(image, input) /\ AllOpen(image) BY <1>1 DEF SealInv, Sound
<1>4. \/ type = input.type
      \/ ~image.sb /\ ~Has(image, "X") /\ type # "Glitch3" /\ type # "Devkit"
  <2>1. Suits(type, image) BY <1>2
  <2> DEFINE glitch == IF Has(image, "B") THEN "Glitch2" ELSE "Glitch"
  <2>2. type = input.type \/ (~image.sb /\ ~Has(image, "X") /\ (type = "Retail" \/ type = glitch))
    BY <2>1 DEF Suits
  <2>3. glitch = "Glitch2" \/ glitch = "Glitch" OBVIOUS
  <2>. HIDE DEF glitch
  <2>4. type = "Retail" \/ type = glitch => type # "Glitch3" /\ type # "Devkit" BY <2>3
  <2>. QED BY <2>2, <2>4
<1> DEFINE in == [Extracted(image, input, type, f) EXCEPT !.cpu = written.cpu]
<1>5. Admitted(in) /\ input' = in BY <1>2
<1>6. Supplied(in) BY <1>3, <1>4, <1>5, ExtractStep DEF Standing
<1>. HIDE DEF in
<1>. QED BY <1>1, <1>5, <1>6 DEF SealInv, Sound

\* Every step keeps the invariant.
LEMMA SealInvNext ==
  ASSUME Gaps = {}, SealInv, [Next]_vars
  PROVE  SealInv'
<1>1. CASE RunBuild BY <1>1, RunBuildKeeps
<1>2. CASE Read BY <1>2, ReadKeeps
<1>3. CASE Open BY <1>3, OpenKeeps
<1>4. CASE EditSmc BY <1>4, EditKeeps
<1>5. CASE MakeRoom BY <1>5, EditKeeps
<1>6. CASE Reseal BY <1>6, ResealKeeps
<1>7. CASE Extract BY <1>7, ExtractKeeps
<1>8. CASE UNCHANGED vars BY <1>8 DEF SealInv, vars
<1>. QED BY <1>1, <1>2, <1>3, <1>4, <1>5, <1>6, <1>7, <1>8 DEF Next

-----------------------------------------------------------------------------
(* What the invariant says of an image as it is written and opened.        *)

\* The chain of a written image.
LEMMA InvChainLinked ==
  ASSUME SealInv
  PROVE  ChainLinked
<1>. SUFFICES ASSUME phase = "written", NEW k \in DOMAIN image.st
              PROVE  image.st[k].under =
                       IF k = "B" /\ Has(image, "X") THEN {}
                       ELSE IF k = "SC" /\ image.st[k].nonce = ZeroNonce THEN {}
                       ELSE {BootKey(image, input.type, written.cpu, k)}
  BY DEF ChainLinked
<1>1. /\ ImageShaped(image) /\ ChainClosed(image, written.cpu) /\ SlotsClosed(image)
      /\ ExtraClosed(image)
  BY DEF SealInv, Sound, Standing, AsWritten
<1>2. image.st[k].under = Links(image, input.type, written.cpu, k) BY <1>1, LinksHold
<1>. QED BY <1>2 DEF Links

\* The stages of an open image.
LEMMA InvOpensAgain ==
  ASSUME SealInv
  PROVE  OpensAgain
<1>. SUFFICES ASSUME phase = "open", NEW k \in DOMAIN image.st \ Extra
              PROVE  /\ image.st[k].under = {} /\ image.st[k].body # "spoilt"
                     /\ image.st[k].dec \/ (k = "SC" /\ image.st[k].nonce = ZeroNonce)
  BY DEF OpensAgain
<1>1. AllOpen(image) /\ Unspoilt(image) BY DEF SealInv, Sound, Standing
<1>. QED BY <1>1 DEF AllOpen, Unspoilt, Plain, Has

\* The digests of a written image.
LEMMA InvDigestCurrent ==
  ASSUME SealInv
  PROVE  DigestCurrent
<1>. SUFFICES ASSUME phase = "written" PROVE DigestCurrent BY DEF DigestCurrent
<1> DEFINE over == [image EXCEPT !.smc = written.smc, !.smcSealed = TRUE]
           boot(k) == BootKey(image, input.type, written.cpu, k)
           old(k) == CbDigest(over, image.st[k], boot(k), written.cpu)
           new(k) == CbDigest(SmcSealedNow(image), image.st[k], boot(k), written.cpu)
<1>1. /\ ImageShaped(image) /\ written.smc = image.smc /\ Suited(image, input.type)
      /\ Digests(image, written.smc, input.type, written.cpu)
  BY DEF SealInv, Sound, Standing, AsWritten, Records
<1>2. over.smc = SmcSealedNow(image).smc /\ over.smcSealed = SmcSealedNow(image).smcSealed
  BY <1>1 DEF ImageShaped, ImageFields, SmcSealedNow
<1>3. \A k : old(k) = new(k)
  <2>. HIDE DEF over, boot
  <2>. QED BY <1>2 DEF CbDigest, SmcBytes
<1>4. /\ Has(image, "B") /\ ~Has(image, "X") =>
           image.st["B"].mac = IF image.mfg \/ written.cpu = "zero" THEN <<>> ELSE old("B")
      /\ (input.type = "Retail" /\ CdNeedsCpuKey(image)) \/ (image.sb /\ input.type # "Devgl") =>
           image.st["A"].mac = old("A")
      /\ Has(image, "EA") => image.st["EA"].mac = old("EA")
  BY <1>1 DEF Digests
<1>. HIDE DEF old, new
<1>5. /\ Has(image, "B") /\ ~Has(image, "X") =>
           image.st["B"].mac = IF image.mfg \/ written.cpu = "zero" THEN <<>> ELSE new("B")
      /\ (input.type = "Retail" /\ CdNeedsCpuKey(image)) \/ input.type = "Devkit" =>
           image.st["A"].mac = new("A")
      /\ Has(image, "EA") => image.st["EA"].mac = new("EA")
  BY <1>1, <1>3, <1>4 DEF Suited
<1>. QED BY <1>5 DEF DigestCurrent, new, boot

\* The CFs of a written image.
LEMMA InvMacCurrent ==
  ASSUME SealInv
  PROVE  MacCurrent
<1>. SUFFICES ASSUME phase = "written", NEW f \in CFs \cap DOMAIN image.st
              PROVE  /\ TailNamed(f)
                     /\ BindsConsole(input.type, f) =>
                          image.st[f].mac = CfMac(f, image.st[f], written.cpu)
  BY DEF MacCurrent
<1>1. Tails(image) /\ Macs(image, input.type, written.cpu)
  BY DEF SealInv, Sound, AsWritten, Records
<1>. QED BY <1>1 DEF Tails, Macs, TableNamed, TailNamed

\* What was opened and is sealed again under the same key, its SMC as it was,
\* states and carries what it did.
LEMMA SealedAgain ==
  ASSUME NEW im, NEW in, Standing(im, in), AllOpen(im), ~Has(im, "EA"), ~Has(im, "ED"), NEW w,
         Drawn(im), Records(im, w, in.type), im.smc = w.smc,
         NEW r, EncryptDone(r, im, w.cpu, in.type), r.ok = TRUE
  PROVE  /\ DOMAIN r.img.st = DOMAIN im.st
         /\ \A k \in DOMAIN im.st : SameText(r.img.st[k], w.st[k]) /\ r.img.st[k].under = w.st[k].under
<1> DEFINE m == r.img
           cpu == w.cpu
           type == in.type
<1>1. /\ ImageShaped(m) /\ SameFlags(m, im) /\ DOMAIN m.st = DOMAIN im.st
      /\ m.smc = im.smc /\ m.spills = im.spills /\ (CdNeedsCpuKey(m) <=> CdNeedsCpuKey(im))
      /\ Digests(m, m.smc, type, cpu) /\ Macs(m, type, cpu) /\ Restores(m, im, type)
  BY DEF EncryptDone
<1>2. WrittenWell(m, [st |-> m.st, cpu |-> cpu, smc |-> m.smc], in)
  BY EncryptedWritten
<1>. HIDE DEF m
<1>3. ImageShaped(im) /\ ImageShaped(m) BY <1>1 DEF Standing
<1>4. \A k : Has(m, k) <=> Has(im, k) BY <1>1 DEF Has
<1>5. Digests(im, im.smc, type, cpu) /\ Macs(im, type, cpu) BY DEF Records
<1>6. ASSUME NEW k \in DOMAIN im.st
      PROVE  m.st[k].nonce = im.st[k].nonce /\ m.st[k].pair = im.st[k].pair
  <2>1. k \in {"SC", "CD", "CE", "G0", "G1", "ED"} =>
          im.st[k].nonce # ZeroNonce \/ (k = "SC" /\ ~im.sb)
    BY DEF Drawn, Has
  <2>2. k = "B" /\ Has(im, "X") => im.st[k].key = im.st[k].nonce BY DEF AllOpen
  <2>. QED BY <1>1, <2>1, <2>2 DEF Restores
<1>7. ASSUME NEW k \in DOMAIN im.st
      PROVE  m.st[k].table = im.st[k].table
  <2>1. CASE k \in CFs /\ Has(im, CgOf(k))
    <3>1. TableNamed(m, k) /\ TableNamed(im, k) BY <1>1, <1>5, <2>1 DEF Macs
    <3>. QED BY <1>1, <1>4, <2>1, <3>1 DEF TableNamed
  <2>2. CASE ~(k \in CFs /\ Has(im, CgOf(k))) BY <1>1, <2>2 DEF Restores
  <2>. QED BY <2>1, <2>2
<1> DEFINE over(i) == [i EXCEPT !.smc = im.smc, !.smcSealed = TRUE]
           digest(i, k) == CbDigest(over(i), i.st[k], BootKey(i, type, cpu, k), cpu)
<1>8. /\ over(m).smc = over(im).smc /\ over(m).smcSealed = over(im).smcSealed
  BY <1>3 DEF ImageShaped, ImageFields
<1>9. \A i \in {m, im} :
        /\ Has(i, "B") /\ ~Has(i, "X") =>
             i.st["B"].mac = IF i.mfg \/ cpu = "zero" THEN <<>> ELSE digest(i, "B")
        /\ (type = "Retail" /\ CdNeedsCpuKey(i)) \/ (i.sb /\ type # "Devgl") =>
             i.st["A"].mac = digest(i, "A")
  BY <1>1, <1>5 DEF Digests
<1>. HIDE DEF over
<1>10. "A" \in DOMAIN im.st /\ KeyA(m) = KeyA(im) BY <1>3, <1>6 DEF ImageShaped, KeyA
<1>11. digest(m, "A") = digest(im, "A")
  <2>1. BootKey(m, type, cpu, "A") = BootKey(im, type, cpu, "A") BY <1>10, BootKeys
  <2>2. m.st["A"].pair = im.st["A"].pair BY <1>6, <1>10
  <2>. QED BY <1>8, <2>1, <2>2 DEF CbDigest, SmcBytes
<1>12. Has(im, "B") /\ ~Has(im, "X") => digest(m, "B") = digest(im, "B")
  <2>. SUFFICES ASSUME Has(im, "B"), ~Has(im, "X") PROVE digest(m, "B") = digest(im, "B") OBVIOUS
  <2>1. m.st["B"].nonce = im.st["B"].nonce /\ m.st["B"].pair = im.st["B"].pair BY <1>6 DEF Has
  <2>2. KeyB(m, cpu) = KeyB(im, cpu) BY <1>1, <1>10, <2>1, SameKeys DEF KeyB, SameFlags
  <2>3. BootKey(m, type, cpu, "B") = BootKey(im, type, cpu, "B")
    <3>1. ~Has(m, "X") BY <1>4
    <3>2. BootKey(m, type, cpu, "B") = KeyB(m, cpu) BY <3>1, BootKeys
    <3>3. BootKey(im, type, cpu, "B") = KeyB(im, cpu) BY BootKeys
    <3>. QED BY <2>2, <3>2, <3>3
  <2>. QED BY <1>8, <2>1, <2>3 DEF CbDigest, SmcBytes
<1>. HIDE DEF digest
<1>13. ASSUME NEW k \in DOMAIN im.st
       PROVE  m.st[k].mac = im.st[k].mac
  <2>1. CASE ~MacFresh(m, type, k) BY <1>1, <2>1 DEF Restores
  <2>2. CASE k = "A" /\ MacFresh(m, type, k)
    <3>1. (type = "Retail" /\ CdNeedsCpuKey(m)) \/ (m.sb /\ type # "Devgl")
      BY <2>2 DEF MacFresh, CFs
    <3>2. (type = "Retail" /\ CdNeedsCpuKey(im)) \/ (im.sb /\ type # "Devgl")
      BY <1>1, <3>1 DEF SameFlags
    <3>. QED BY <1>9, <1>11, <2>2, <3>1, <3>2
  <2>3. CASE k = "B" /\ MacFresh(m, type, k)
    <3>1. ~Has(m, "X") /\ ~Has(im, "X") /\ Has(m, "B") /\ Has(im, "B") /\ m.mfg = im.mfg
      BY <1>1, <1>4, <2>3 DEF MacFresh, CFs, Has, SameFlags
    <3>. QED BY <1>9, <1>12, <2>3, <3>1
  <2>4. CASE k \in CFs /\ MacFresh(m, type, k)
    <3>1. BindsConsole(type, k) BY <2>4 DEF MacFresh, CFs
    <3>2. m.st[k].mac = CfMac(k, m.st[k], cpu) /\ im.st[k].mac = CfMac(k, im.st[k], cpu)
      BY <1>1, <1>5, <2>4, <3>1 DEF Macs
    <3>. QED BY <1>6, <1>7, <3>2 DEF CfMac
  <2>5. k # "EA" BY DEF Has
  <2>. QED BY <2>1, <2>2, <2>3, <2>4, <2>5 DEF MacFresh
<1>14. Copies(m, im) BY <1>1, <1>6, <1>7, <1>13 DEF Copies, SameText
<1>15. ASSUME NEW k \in DOMAIN im.st
       PROVE  SameText(m.st[k], w.st[k]) /\ m.st[k].under = w.st[k].under
  <2>1. SameText(im.st[k], w.st[k]) /\ w.st[k].under = Links(im, type, cpu, k) BY DEF Records
  <2>2. SameText(m.st[k], im.st[k]) BY <1>6, <1>7, <1>13 DEF SameText
  <2>3. m.st[k].under = Links(m, type, cpu, k)
    BY <1>1, <1>2, LinksHold DEF WrittenWell, AsWritten
  <2>4. BootKey(m, type, cpu, k) = BootKey(im, type, cpu, k) BY <1>1, <1>3, <1>14, CopyKeys
  <2>5. Links(m, type, cpu, k) = Links(im, type, cpu, k)
    BY <1>4, <1>6, <2>4 DEF Links
  <2>. QED BY <2>1, <2>2, <2>3, <2>5 DEF SameText
<1>. QED BY <1>1, <1>15 DEF m

\* The action of ResealRestores.
Restoring ==
  phase = "open" /\ phase' = "written" /\ written'.cpu = written.cpu /\ written'.smc = written.smc
    => \A k \in DOMAIN image'.st :
         /\ written'.st[k].nonce = written.st[k].nonce
         /\ written'.st[k].under = written.st[k].under
         /\ written'.st[k].mac = written.st[k].mac
         /\ written'.st[k].pair = written.st[k].pair
         /\ written'.st[k].table = written.st[k].table

\* A step that seals an image again writes what the last seal wrote.
LEMMA NextRestores ==
  ASSUME Gaps = {}, SealInv, [Next]_vars
  PROVE  Restoring
<1>. SUFFICES ASSUME phase = "open", phase' = "written", written'.cpu = written.cpu,
                     written'.smc = written.smc
              PROVE  \A k \in DOMAIN image'.st : /\ SameText(written'.st[k], written.st[k])
                                                 /\ written'.st[k].under = written.st[k].under
  BY DEF Restoring, SameText
<1>1. Reseal
  BY DEF Next, vars, RunBuild, Read, Open, EditSmc, MakeRoom, Extract
<1>2. PICK cpu \in {"console", "other", "zero"} :
        LET r == EncryptAll(image, cpu, input.type, seals)
        IN  /\ image' = r.img
            /\ phase' = IF r.ok THEN "written" ELSE "broken"
            /\ written' = IF r.ok
                          THEN [st |-> r.img.st, cpu |-> cpu, smc |-> r.img.smc]
                          ELSE [NotWritten EXCEPT !.cpu = cpu]
  BY <1>1 DEF Reseal
<1> DEFINE r == EncryptAll(image, cpu, input.type, seals)
<1>3. ~ScLeftOpen(image) BY <1>1 DEF Reseal
<1>4. /\ Standing(image, input) /\ AllOpen(image) /\ ~Has(image, "EA") /\ ~Has(image, "ED")
      /\ written.smc # 0 => Drawn(image) /\ Records(image, written, input.type)
  BY DEF SealInv, Sound
<1>5. EncryptDone(r, image, cpu, input.type) BY <1>3, <1>4, ResealStep
<1>6. /\ image' = r.img
      /\ phase' = IF r.ok THEN "written" ELSE "broken"
      /\ written' = IF r.ok THEN [st |-> r.img.st, cpu |-> cpu, smc |-> r.img.smc]
                    ELSE [NotWritten EXCEPT !.cpu = cpu]
  BY <1>2
<1>. HIDE DEF r
<1>7. r.ok = TRUE BY <1>5, <1>6 DEF EncryptDone
<1>8. written'.st = r.img.st /\ written'.cpu = cpu /\ written'.smc = r.img.smc BY <1>6, <1>7
<1>9. r.img.smc = image.smc /\ image.smc # 0
  BY <1>4, <1>5, <1>7 DEF EncryptDone, Standing, ImageShaped
<1>10. cpu = written.cpu /\ image.smc = written.smc /\ written.smc # 0 BY <1>8, <1>9
<1>11. /\ DOMAIN r.img.st = DOMAIN image.st
       /\ \A k \in DOMAIN image.st : /\ SameText(r.img.st[k], written.st[k])
                                     /\ r.img.st[k].under = written.st[k].under
  BY <1>4, <1>5, <1>7, <1>10, SealedAgain
<1>. QED BY <1>6, <1>8, <1>11

-----------------------------------------------------------------------------
(* The theorems.  What the code is known not to seal right is let into the *)
(* behaviours by name (Gaps); they hold where none is.                     *)

\* Whatever inputs are built, read back, opened, edited, sealed under another key or handed
\* on to a build of another type, what each phase holds of the image stays true.
THEOREM SealingIsSound ==
  ASSUME Gaps = {}
  PROVE  Spec => []SealInv
<1>1. Init => SealInv BY SealInvInit
<1>2. SealInv /\ [Next]_vars => SealInv' BY SealInvNext
<1>. QED BY <1>1, <1>2, PTL DEF Spec

\* Every stage of a written image lies under the one key its parent as written derives, so
\* that the console can follow the chain (encrypt_all, apply_nonces, seal_kernel).
THEOREM ChainIsLinked ==
  ASSUME Gaps = {}
  PROVE  Spec => []ChainLinked
<1>1. SealInv => ChainLinked BY InvChainLinked
<1>. QED BY <1>1, SealingIsSound, PTL

\* decrypt_all leaves every stage plaintext and known to be, of whatever it is given: what was
\* parsed, what was sealed in memory, or what an encrypt_all that failed half way left.
THEOREM SealedOpensAgain ==
  ASSUME Gaps = {}
  PROVE  Spec => []OpensAgain
<1>1. SealInv => OpensAgain BY InvOpensAgain
<1>. QED BY <1>1, SealingIsSound, PTL

\* The digest of a written CB covers the SMC as it lies sealed, the pairing and the key beside
\* it (encrypt_retail, seal_policy).
THEOREM DigestsAreCurrent ==
  ASSUME Gaps = {}
  PROVE  Spec => []DigestCurrent
<1>1. SealInv => DigestCurrent BY InvDigestCurrent
<1>. QED BY <1>1, SealingIsSound, PTL

\* A written CF names the tail its CG has, the filesystem holds no other, and its MAC covers
\* what it states (prepare_cg_tail, bind_cf).
THEOREM MacsAreCurrent ==
  ASSUME Gaps = {}
  PROVE  Spec => []MacCurrent
<1>1. SealInv => MacCurrent BY InvMacCurrent
<1>. QED BY <1>1, SealingIsSound, PTL

\* Opening an image and sealing it again under its key, the SMC untouched, writes every stage
\* as it was: encrypt_all is the inverse of decrypt_all.
THEOREM SealingAgainRestores ==
  ASSUME Gaps = {}
  PROVE  Spec => ResealRestores
<1>1. SealInv /\ [Next]_vars => [Restoring]_vars BY NextRestores
<1>. QED BY <1>1, SealingIsSound, PTL DEF Spec, ResealRestores, Restoring

=============================================================================
