------------------------------ MODULE BootSeal ------------------------------
(***************************************************************************)
(* How the boot chain, the update slots, the SMC and the keyvault of an    *)
(* image are sealed, bound to a console and opened again                   *)
(* (src/nand/FlashImageCrypt.cpp, src/nand/bootloaders/*.cpp and           *)
(* the bootloader half of run_build in src/BuildRunner.cpp).               *)
(*                                                                         *)
(* Cryptography is symbolic.  A key is the sequence of what it was derived *)
(* from, so two keys are equal exactly when the same derivation made them. *)
(* RC4 adds a keystream, so a stage remembers the set of keystreams lying  *)
(* on its body: applying one twice takes it off, and a stage is plaintext  *)
(* when none lies on it.  A stage sealed twice, or opened while plaintext, *)
(* shows as a body no single key opens.                                    *)
(***************************************************************************)
EXTENDS Naturals, Sequences, TLC

CONSTANTS
  Inputs,     \* the inputs a first build may be given
  Gaps,       \* known gaps let into the behaviours (see Admitted); {} for none
  MaxSeals,   \* bound: how often one behaviour seals an image
  MaxSmc      \* bound: SMC versions a caller edits in

VARIABLES
  phase,      \* where the image is on its way: see TypeOK
  input,      \* the Input of the next or the last run_build
  image,      \* the FlashImage in memory
  written,    \* the image as it was last sealed and written, with its key
  seals       \* how often the behaviour has sealed

vars == <<phase, input, image, written, seals>>

Kinds == {"A", "X", "B", "SC", "CD", "CE", "F0", "G0", "F1", "G1", "EA", "ED"}
CFs == {"F0", "F1"}
CGs == {"G0", "G1"}
Extra == {"EA", "ED"}      \* the second CB and CD of a JTAG image
Types == {"Retail", "Glitch", "Glitch2", "Glitch3", "Jtag", "Devkit", "Devgl"}

CgOf(f) == IF f = "F0" THEN "G0" ELSE "G1"

-----------------------------------------------------------------------------
(* Keys and keystreams.                                                    *)

NoKey == <<>>
OneBl == <<"1bl">>
ZeroSecret == <<"zeros">>
ZeroNonce == <<"zero">>
Cpu(cpu) == <<"cpu", cpu>>
FreshNonce(k, draw) == <<k, "draw" \o ToString(draw)>>

(* CB_A's head, its flag word cleared, joins the key material under flag 0x1000. *)
CbAHead(im) == IF im.v2 THEN <<"head">> ELSE <<>>

CbBKey(im, keyA, nonce, cpu) ==
  keyA \o nonce \o (IF im.mfg THEN Cpu("zero") ELSE Cpu(cpu) \o CbAHead(im))
CbXKey(im, keyA, nonce) == keyA \o nonce \o Cpu("zero") \o CbAHead(im)
CdKey(parent, nonce, bound, cpu) ==
  parent \o nonce \o (IF bound THEN <<"within">> \o Cpu(cpu) ELSE <<>>)

(* The 7BL nonce at +0x330 of a CF's body; noise when the body is not plaintext. *)
CgKey(f, s) == IF s.under = {} THEN <<f, "7bl">> ELSE <<"noise">>

Xor(under, key) == IF key \in under THEN under \ {key} ELSE under \cup {key}

(* BootloaderCb's crypt toggles; the other stages act only in the state the call is for. *)
CbCrypted(s, key) == [s EXCEPT !.under = Xor(@, key), !.dec = ~@, !.key = key]
Opened(s, key) == IF s.dec THEN s ELSE [s EXCEPT !.under = Xor(@, key), !.dec = TRUE]
Sealed(s, key) == IF s.dec THEN [s EXCEPT !.under = Xor(@, key), !.dec = FALSE] ELSE s
Keyed(s, key) == [s EXCEPT !.key = key]
NoncedAnew(s, nonce) == IF s.dec THEN [s EXCEPT !.nonce = nonce] ELSE s
Nonced(s, nonce) == IF s.dec /\ s.nonce = ZeroNonce THEN [s EXCEPT !.nonce = nonce] ELSE s

(* A CF taken for sealed while its body was plain reads its table out of noise. *)
OpenedCf(s) ==
  LET o == Opened(s, OneBl \o s.nonce)
  IN  IF o.under = {} THEN o ELSE [o EXCEPT !.table = "noise"]

-----------------------------------------------------------------------------
(* What a stage read from bytes is taken for.  CB, CD and CE tests are exact; an SC is  *)
(* always taken as sealed; a CF is plaintext when its continuation count is zero, a CG  *)
(* when its source size is page-aligned, which one ciphertext in 4096 is.               *)
IsDecryptedCf(s) == s.dec \/ (s.under = {} /\ s.table = "none")

LooksPlain(k, s) ==
  /\ k # "SC"
  /\ s.under = {} \/ (k \in CGs /\ "lucky_cg" \in Gaps)
  /\ k \in CFs => s.table = "none"

Parsed(k, s) == [s EXCEPT !.dec = LooksPlain(k, s), !.key = NoKey]

Has(im, k) == k \in DOMAIN im.st

(* A single CB of build 1920 on keys its CD under the CPU key once it states anything    *)
(* about the console.                                                                   *)
StatesConsole(s) == s.pair # "zero" \/ s.mac # <<>>
RequiresCpuKey(im) == im.newCb /\ StatesConsole(im.st["A"])
CdNeedsCpuKey(im) == ~im.sb /\ ~Has(im, "B") /\ RequiresCpuKey(im)

BindsConsole(type, f) == ~(type = "Jtag" /\ f = "F0")

-----------------------------------------------------------------------------
(* run_build: the supplied stages are parsed, take their metadata and nonces. *)

Ok(im) == [ok |-> TRUE, img |-> im]
Failed(im) == [ok |-> FALSE, img |-> im]
Then(r, next) == IF r.ok THEN next ELSE r

WithStage(im, k, s) == [im EXCEPT !.st[k] = s]

InputParsed(in) ==
  LET plain(k) == \/ in.sb /\ k \in {"A", "SC", "CD", "CE"}
                  \/ in.type = "Glitch3" /\ k = "X"
  IN  [st |-> [k \in DOMAIN in.st |->
                 IF plain(k) THEN [Parsed(k, in.st[k]) EXCEPT !.dec = TRUE]
                 ELSE Parsed(k, in.st[k])],
       sb |-> in.sb, mfg |-> in.mfg, v2 |-> in.v2, newCb |-> in.newCb,
       smc |-> in.smc, smcSealed |-> in.smcSealed, kv |-> "clear",
       spills |-> in.spills, tails |-> in.tails, room |-> in.room]

(* The stages a glitch patch set has sections for: the first CB it is about and the CD.   *)
PatchTargets(type) ==
  CASE type = "Glitch" -> {"A", "CD"}
    [] type \in {"Glitch2", "Glitch3"} -> {"B", "CD"}
    [] type = "Devgl" -> {"CD"}
    [] OTHER -> {}

(* A section is written over the bytes a stage was supplied as, and the result parsed again.  *)
Patched(k, s) == Parsed(k, [s EXCEPT !.body = IF s.under = {} THEN "patched" ELSE "spoilt"])

(* The patches of automatic patch sets, refused whole when a target is missing or the chain    *)
(* they make is too long.                                                                     *)
PatchesApplied(im, in) ==
  LET stage(k) ==
        IF k \notin PatchTargets(in.type) THEN im.st[k]
        ELSE [Patched(k, im.st[k]) EXCEPT !.dec = @ \/ (im.sb /\ k = "CD")]
  IN  IF in.patches = "none" THEN Ok(im)
      ELSE IF in.patches = "long" \/ ~(PatchTargets(in.type) \subseteq DOMAIN im.st) THEN Failed(im)
      ELSE Ok([im EXCEPT !.st = [k \in DOMAIN im.st |-> stage(k)]])

(* apply_cb_metadata and zero_pair_cb: the first leaves the digest as it was. *)
PairedCb(s, pair) == [s EXCEPT !.pair = pair]
ZeroPairedCb(s) == [s EXCEPT !.pair = "zero", !.mac = <<>>]

MetadataApplied(im, in) ==
  LET zeroPairedB == in.cpu = "zero" /\ Has(im, "B")
      paired == in.type # "Glitch" /\ ~zeroPairedB
      mainPaired == paired /\ in.type \notin {"Jtag", "Devgl"}
      opened(s) == IF s.dec THEN s ELSE CbCrypted(s, OneBl \o s.nonce)
      a == opened(im.st["A"])
      b == IF im.st["B"].dec THEN im.st["B"]
           ELSE CbCrypted(im.st["B"], CbBKey(im, a.key, im.st["B"].nonce, in.cpu))
      cf(f) == LET o == IF IsDecryptedCf(im.st[f]) THEN im.st[f] ELSE OpenedCf(im.st[f])
               IN  IF BindsConsole(in.type, f)
                   THEN [o EXCEPT !.pair = IF paired THEN in.cfPair ELSE "zero"]
                   ELSE o
      stage(k) ==
        CASE k = "A" /\ Has(im, "B") -> a
          [] k = "A" /\ ~Has(im, "B") -> IF mainPaired THEN PairedCb(a, in.pair)
                                          ELSE ZeroPairedCb(a)
          [] k = "B" -> IF zeroPairedB THEN ZeroPairedCb(b) ELSE PairedCb(b, in.pair)
          [] k = "EA" -> PairedCb(opened(im.st["EA"]), in.pair)
          [] k \in CFs -> cf(k)
          [] OTHER -> im.st[k]
  IN  IF Has(im, "B") /\ ~im.st["B"].dec /\ a.key = NoKey THEN Failed(im)
      ELSE Ok([im EXCEPT !.st = [k \in DOMAIN im.st |-> stage(k)]])

ScSealed(im) ==
  Has(im, "SC") /\ ~im.st["SC"].dec /\ im.st["SC"].nonce # ZeroNonce

ChainPlaintextToCd(im) == im.st["A"].dec /\ im.st["CD"].dec /\ ~ScSealed(im)

ChainPlaintext(im) ==
  /\ im.st["A"].dec /\ im.st["CD"].dec /\ ~ScSealed(im)
  /\ \A k \in {"X", "B", "CE"} \cap DOMAIN im.st : im.st[k].dec

(* donor_or_random: `place` names the donor nonce a stage takes, NoKey when it has none. *)
DonorOrRandom(in, place, k, draw) ==
  IF in.donor[place] # NoKey THEN in.donor[place] ELSE FreshNonce(k, draw)

(* The supplied CG is opened under its CF's key so that it is sealed again. *)
CgReopened(im, f) ==
  LET g == im.st[CgOf(f)]
  IN  IF ~g.dec /\ IsDecryptedCf(im.st[f]) THEN Opened(g, CgKey(f, im.st[f]) \o g.nonce) ELSE g

NoncesApplied(im, in, draw) ==
  LET whole == ChainPlaintext(im)
      pick(place, k) == DonorOrRandom(in, place, k, draw)
      set(s, nonce) == [s EXCEPT !.nonce = nonce]
      stage(k) ==
        LET s == im.st[k]
        IN  CASE k = "A" /\ whole -> set(s, pick("A", "A"))
              [] k = "B" /\ whole /\ ~Has(im, "X") -> set(s, pick("B", "B"))
              [] k = "SC" /\ whole /\ im.sb /\ ~Has(im, "B") -> set(s, pick("B", "SC"))
              [] k = "CD" /\ whole -> set(s, pick("CD", "CD"))
              [] k = "CE" /\ whole -> set(s, pick("CE", "CE"))
              [] k = "EA" /\ s.dec -> set(s, pick("A", "A"))
              [] k = "ED" /\ s.dec -> set(s, pick("CD", "CD"))
              [] k \in CFs /\ s.dec -> set(s, pick("F", k))
              [] k \in CGs ->
                   LET g == CgReopened(im, IF k = "G0" THEN "F0" ELSE "F1")
                   IN  IF g.dec THEN set(g, pick("G", k)) ELSE g
              [] OTHER -> s
  IN  [im EXCEPT !.st = [k \in DOMAIN im.st |-> stage(k)]]

-----------------------------------------------------------------------------
(* encrypt_all, step by step: each step takes the image the one before it left. *)

SmcSealedLater(im) == im
SmcSealedNow(im) == [im EXCEPT !.smcSealed = TRUE]
SmcBytes(im) == <<ToString(im.smc), IF im.smcSealed THEN "sealed" ELSE "plain">>

(* The digest a CB carries over the SMC as sealed, and the MAC a CF carries over what it states. *)
CbDigest(im, s, key, cpu) == <<"digest">> \o Cpu(cpu) \o key \o <<s.pair>> \o SmcBytes(im)
CfMac(f, s, cpu) == <<"mac">> \o Cpu(cpu) \o OneBl \o s.nonce \o <<f, s.pair, s.table>>

Binds(im, type) ==
  [b |-> Has(im, "B") /\ type # "Glitch3",
   single |-> \/ type = "Retail" /\ CdNeedsCpuKey(im)
              \/ im.sb /\ type # "Devgl" /\ im.st["A"].dec,
   extra |-> Has(im, "EA") /\ im.st["EA"].dec]

Refused(im, type) ==
  \/ type = "Glitch3" /\ (~Has(im, "X") \/ ~Has(im, "B") \/ ~im.st["B"].dec)
  \/ im.sb /\ ~Has(im, "SC")

(* encrypt_retail: binds the SMC, or nothing for a CB_B on a manufacturing chain or a zero key. *)
BoundAndSealed(im, s, key, cpu, unbound) ==
  CbCrypted([s EXCEPT !.mac = IF unbound THEN <<>> ELSE CbDigest(im, s, key, cpu)], key)

CbASealed(im, cpu, single) ==
  LET a == im.st["A"]
      key == OneBl \o a.nonce
  IN  Ok(IF ~a.dec THEN im
         ELSE WithStage(im, "A", IF single THEN BoundAndSealed(im, a, key, cpu, FALSE)
                                 ELSE CbCrypted(a, key)))

(* CB_X is sealed for a Glitch3 chain only, whose CB_B is left plaintext with its handoff key. *)
GlitchPairSealed(im, type) ==
  LET x == im.st["X"]
      b == im.st["B"]
      key == im.st["A"].key
  IN  IF type # "Glitch3" THEN Ok(im)
      ELSE IF x.dec /\ key = NoKey THEN Failed(im)
      ELSE Ok([im EXCEPT !.st["X"] = IF x.dec THEN CbCrypted(x, CbXKey(im, key, x.nonce)) ELSE x,
                         !.st["B"] = IF b.key # NoKey THEN [b EXCEPT !.nonce = b.key]
                                     ELSE [b EXCEPT !.key = b.nonce]])

CbBSealed(im, cpu, type) ==
  LET b == im.st["B"]
      key == im.st["A"].key
  IN  IF type = "Glitch3" \/ ~Has(im, "B") THEN Ok(im)
      ELSE IF ~b.dec THEN Ok(im)
      ELSE IF key = NoKey THEN Failed(im)
      ELSE Ok(WithStage(im, "B", BoundAndSealed(im, b, CbBKey(im, key, b.nonce, cpu), cpu,
                                                im.mfg \/ cpu = "zero")))

(* A sealed devkit SC is opened first, so that its key is known. *)
DevkitScSealed(im, draw) ==
  IF ~im.sb THEN Ok(im)
  ELSE LET s == Opened(im.st["SC"], ZeroSecret \o im.st["SC"].nonce)
           n == Nonced(s, FreshNonce("SC", draw))
           key == ZeroSecret \o n.nonce
       IN  Ok(WithStage(im, "SC", Keyed(Sealed(n, key), key)))

CdSealed(im, cpu, draw) ==
  LET n == Nonced(im.st["CD"], FreshNonce("CD", draw))
      parent == IF im.sb THEN im.st["SC"].key
                ELSE IF Has(im, "B") THEN im.st["B"].key
                ELSE im.st["A"].key
      key == CdKey(parent, n.nonce, CdNeedsCpuKey(im), cpu)
  IN  IF ~n.dec THEN Ok(im)
      ELSE IF parent = NoKey THEN Failed(im)
      ELSE Ok(WithStage(im, "CD", Keyed(Sealed(n, key), key)))

CeSealed(im, draw) ==
  LET n == Nonced(im.st["CE"], FreshNonce("CE", draw))
      parent == im.st["CD"].key
  IN  IF ~Has(im, "CE") THEN Ok(im)
      ELSE IF ~n.dec THEN Ok(im)
      ELSE IF parent = NoKey THEN Failed(im)
      ELSE Ok(WithStage(im, "CE", Sealed(n, parent \o n.nonce)))

ExtraCbSealed(im, cpu, bind) ==
  IF ~bind THEN Ok(im)
  ELSE LET s == im.st["EA"]
       IN  Ok(WithStage(im, "EA", BoundAndSealed(im, s, OneBl \o s.nonce, cpu, FALSE)))

ExtraCdSealed(im, draw) ==
  LET n == Nonced(im.st["ED"], FreshNonce("ED", draw))
      key == im.st["EA"].key \o n.nonce
  IN  IF ~Has(im, "ED") THEN Ok(im)
      ELSE IF ~n.dec THEN Ok(im)
      ELSE IF ~Has(im, "EA") THEN Failed(im)
      ELSE IF im.st["EA"].key = NoKey THEN Failed(im)
      ELSE Ok(WithStage(im, "ED", Keyed(Sealed(n, key), key)))

(* prepare_cg_tail: a CG that fits its slot clears the CF's table and the stale tail file; a  *)
(* longer one needs room in the filesystem and names its tail in the table.                   *)
CgPrepared(im, f, draw) ==
  LET g == CgOf(f)
  IN  IF ~(Has(im, f) /\ Has(im, g)) THEN Ok(im)
      ELSE LET f1 == IF im.st[g].dec THEN OpenedCf(im.st[f]) ELSE im.st[f]
               n == Nonced(im.st[g], FreshNonce(g, draw))
               g1 == Sealed(n, CgKey(f, f1) \o n.nonce)
               table == IF g \in im.spills THEN "tail" ELSE "none"
               tails == IF g \in im.spills /\ im.room THEN im.tails \cup {f} ELSE im.tails \ {f}
               begun == [im EXCEPT !.st[f] = f1, !.st[g] = g1, !.tails = tails]
           IN  IF g \in im.spills /\ ~im.room THEN Failed(begun)
               ELSE Ok(WithStage(begun, f, [OpenedCf(f1) EXCEPT !.table = table]))

CfSealedAsSupplied(im, f, cpu, type) ==
  IF ~Has(im, f) THEN Ok(im)
  ELSE Ok(WithStage(im, f, Sealed(im.st[f], OneBl \o im.st[f].nonce)))

CfBoundAndSealed(im, f, cpu, type) ==
  IF ~Has(im, f) THEN Ok(im)
  ELSE IF ~IsDecryptedCf(im.st[f]) THEN Ok(im)
  ELSE LET s == im.st[f]
           bound == IF BindsConsole(type, f) THEN [s EXCEPT !.mac = CfMac(f, s, cpu)] ELSE s
       IN  Ok(WithStage(im, f, Sealed(bound, OneBl \o s.nonce)))

SmcKvSealed(im, cpu) ==
  Ok([im EXCEPT !.smcSealed = TRUE, !.kv = IF @ = "clear" THEN cpu ELSE @])

ChainSealed(im, cpu, type, single, draw) ==
  LET a == CbASealed(im, cpu, single)
      x == Then(a, GlitchPairSealed(a.img, type))
      b == Then(x, CbBSealed(x.img, cpu, type))
      c == Then(b, DevkitScSealed(b.img, draw))
      d == Then(c, CdSealed(c.img, cpu, draw))
  IN  Then(d, CeSealed(d.img, draw))

SlotsSealed(im, cpu, type, extra, draw) ==
  LET a == ExtraCbSealed(im, cpu, extra)
      d == Then(a, ExtraCdSealed(a.img, draw))
      g == Then(d, CgPrepared(d.img, "F0", draw))
      h == Then(g, CgPrepared(g.img, "F1", draw))
      f == Then(h, CfBoundAndSealed(h.img, "F0", cpu, type))
  IN  Then(f, CfBoundAndSealed(f.img, "F1", cpu, type))

EncryptAll(im, cpu, type, draw) ==
  LET binds == Binds(im, type)
      begun == IF binds.b \/ binds.single \/ binds.extra THEN SmcSealedNow(im) ELSE im
      chain == ChainSealed(begun, cpu, type, binds.single, draw)
      SlotsOn(r) == Then(r, SlotsSealed(r.img, cpu, type, binds.extra, draw))
      SmcKvOn(r) == Then(r, SmcKvSealed(r.img, cpu))
  IN  IF Refused(im, type) THEN Failed(im) ELSE SmcKvOn(SlotsOn(chain))

-----------------------------------------------------------------------------
(* What a parse of the written bytes holds, and decrypt_all on it. *)

(* The second chain of a JTAG image is not looked for; the SMC shows whether it is sealed. *)
ReadBack(im) ==
  [im EXCEPT !.st = [k \in DOMAIN im.st \ Extra |-> Parsed(k, im.st[k])]]

CbChainOpened(im, cpu) ==
  LET a == IF im.st["A"].dec THEN im.st["A"]
           ELSE CbCrypted(im.st["A"], OneBl \o im.st["A"].nonce)
      x == IF im.st["X"].dec THEN im.st["X"]
           ELSE CbCrypted(im.st["X"], CbXKey(im, a.key, im.st["X"].nonce))
      b == IF Has(im, "X") THEN [im.st["B"] EXCEPT !.dec = TRUE, !.key = im.st["B"].nonce]
           ELSE IF im.st["B"].dec THEN im.st["B"]
           ELSE CbCrypted(im.st["B"], CbBKey(im, a.key, im.st["B"].nonce, cpu))
      sc == LET key == ZeroSecret \o im.st["SC"].nonce
            IN  IF ScSealed(im) THEN Keyed(Opened(im.st["SC"], key), key) ELSE im.st["SC"]
      needsA == \/ Has(im, "X") /\ ~im.st["X"].dec
                \/ Has(im, "B") /\ ~Has(im, "X") /\ ~im.st["B"].dec
      stage(k) == CASE k = "A" -> a [] k = "X" -> x [] k = "B" -> b [] k = "SC" -> sc
                    [] OTHER -> im.st[k]
      opened == [im EXCEPT !.st = [k \in DOMAIN im.st |-> stage(k)]]
  IN  IF needsA /\ a.key = NoKey THEN Failed(WithStage(im, "A", a)) ELSE Ok(opened)

CdOpenedUnderCbA(im, cpu) ==
  LET key == CdKey(im.st["A"].key, im.st["CD"].nonce, RequiresCpuKey(im), cpu)
  IN  IF im.st["CD"].dec THEN Ok(im) ELSE Ok(WithStage(im, "CD", Keyed(Opened(im.st["CD"], key), key)))

CdOpened(im, cpu) ==
  LET s == im.st["CD"]
      keyB == Has(im, "B") /\ im.st["B"].key # NoKey
      parent == IF im.sb THEN im.st["SC"].key
                ELSE IF keyB THEN im.st["B"].key
                ELSE im.st["A"].key
      key == CdKey(parent, s.nonce, ~im.sb /\ ~keyB /\ RequiresCpuKey(im), cpu)
  IN  IF s.dec THEN Ok(im)
      ELSE IF parent = NoKey THEN Failed(im)
      ELSE Ok(WithStage(im, "CD", Keyed(Opened(s, key), key)))

(* A CD that arrived plaintext holds its handoff key in its key slot. *)
CeOpened(im) ==
  LET cd == im.st["CD"]
      s == im.st["CE"]
      parent == IF cd.key # NoKey THEN cd.key ELSE cd.nonce
  IN  IF ~Has(im, "CE") THEN Ok(im)
      ELSE IF s.dec THEN Ok(im)
      ELSE IF ~cd.dec THEN Failed(im)
      ELSE Ok(WithStage(im, "CE", Opened(s, parent \o s.nonce)))

SlotsOpened(im) ==
  LET cf(f) == IF IsDecryptedCf(im.st[f]) THEN im.st[f] ELSE OpenedCf(im.st[f])
      stage(k) ==
        CASE k \in CFs -> cf(k)
          [] k = "G0" -> Opened(im.st[k], CgKey("F0", cf("F0")) \o im.st[k].nonce)
          [] k = "G1" -> Opened(im.st[k], CgKey("F1", cf("F1")) \o im.st[k].nonce)
          [] OTHER -> im.st[k]
  IN  Ok([im EXCEPT !.st = [k \in DOMAIN im.st |-> stage(k)]])

(* A keyvault sealed under another key fails the call, or stays sealed under the zero key. *)
SmcKvOpened(im, cpu) ==
  LET opened == [im EXCEPT !.smcSealed = FALSE, !.kv = IF @ = cpu THEN "clear" ELSE @]
  IN  IF im.kv \notin {"clear", cpu} /\ cpu # "zero" THEN Failed([im EXCEPT !.smcSealed = FALSE])
      ELSE Ok(opened)

DecryptAll(im, cpu) ==
  LET cb == CbChainOpened(im, cpu)
      cd == Then(cb, CdOpened(cb.img, cpu))
      ce == Then(cd, CeOpened(cd.img))
      slots == Then(ce, SlotsOpened(ce.img))
  IN  Then(slots, SmcKvOpened(slots.img, cpu))

-----------------------------------------------------------------------------
(* collect_donor_nonces and the Input extract_all returns. *)

NoDonor == [p \in {"A", "B", "CD", "CE", "F", "G"} |-> NoKey]

DonorNonces(im, f) ==
  LET of(k) == IF Has(im, k) /\ im.st[k].nonce # ZeroNonce THEN im.st[k].nonce ELSE NoKey
  IN  IF ~Has(im, "CE") THEN NoDonor
      ELSE [p \in DOMAIN NoDonor |->
              CASE p = "B" -> IF Has(im, "B") /\ ~Has(im, "X") THEN of("B") ELSE of("SC")
                [] p = "F" -> of(f)
                [] p = "G" -> of(CgOf(f))
                [] OTHER -> of(p)]

(* The CB metadata comes from CB_B when there is one, else from CB_A; the CF metadata from  *)
(* the slot stating the largest LDV.                                                        *)
Extracted(im, in, type, f) ==
  [in EXCEPT !.type = type,
             !.st = im.st,
             !.donor = DonorNonces(im, f),
             !.pair = im.st[IF Has(im, "B") THEN "B" ELSE "A"].pair,
             !.cfPair = IF Has(im, f) THEN im.st[f].pair ELSE @,
             !.smc = im.smc, !.smcSealed = im.smcSealed,
             !.patches = IF type = in.type THEN @ ELSE "none",
             !.tails = im.tails]

-----------------------------------------------------------------------------
(* What a build is supplied: the stages its type's chain has, each plaintext or as it lay in an   *)
(* image of the console, sealed under the key its parent derives from the nonces they state (a    *)
(* stage below the CBs is sealed under a nonce that was drawn, as seal_kernel and prepare_cg_tail  *)
(* see to).                                                                                       *)

SealedIn(in, k) == k \in DOMAIN in.st /\ in.st[k].under # {}

InputFields == {"type", "st", "sb", "mfg", "v2", "newCb", "cpu", "donor", "pair", "cfPair", "smc",
                "smcSealed", "spills", "room", "tails", "patches"}
StageFields == {"nonce", "under", "dec", "key", "pair", "mac", "body", "table"}

Shaped(in) ==
  /\ DOMAIN in = InputFields
  /\ {"A", "CD"} \subseteq DOMAIN in.st /\ DOMAIN in.st \subseteq Kinds
  /\ \A f \in CFs : CgOf(f) \in DOMAIN in.st => f \in DOMAIN in.st
  /\ "X" \in DOMAIN in.st <=> in.type = "Glitch3"
  /\ "X" \in DOMAIN in.st => "B" \in DOMAIN in.st
  /\ in.sb => "SC" \in DOMAIN in.st
  /\ in.type = "Devkit" => in.sb
  /\ in.sb \in BOOLEAN /\ in.mfg \in BOOLEAN /\ in.v2 \in BOOLEAN /\ in.newCb \in BOOLEAN
  /\ in.smc \in Nat \ {0}
  /\ in.patches \in {"none", "fits", "long"}
  /\ \A k \in DOMAIN in.st : DOMAIN in.st[k] = StageFields /\ in.st[k].body # "spoilt"

(* A single CB keys its CD as the build leaves it, not as it was supplied. *)
KeysCdUnderCpu(in) ==
  /\ in.newCb /\ in.type \notin {"Glitch", "Jtag", "Devgl"}
  /\ in.pair # "zero" \/ in.st["A"].mac # <<>>

SuppliedUnder(in, k) ==
  LET n(j) == in.st[j].nonce
      keyA == OneBl \o n("A")
      keyB == IF Has(in, "X") /\ ~SealedIn(in, "B") THEN n("B") ELSE CbBKey(in, keyA, n("B"), in.cpu)
      keyCd == IF Has(in, "B") THEN CdKey(keyB, n("CD"), FALSE, in.cpu)
               ELSE CdKey(keyA, n("CD"), KeysCdUnderCpu(in), in.cpu)
  IN  CASE k = "A" -> keyA
        [] k = "B" -> CbBKey(in, keyA, n("B"), in.cpu)
        [] k = "SC" -> ZeroSecret \o n("SC")
        [] k = "CD" -> keyCd
        [] k = "CE" -> keyCd \o n("CE")
        [] k = "G0" -> CgKey("F0", [under |-> {}]) \o n("G0")
        [] k = "G1" -> CgKey("F1", [under |-> {}]) \o n("G1")
        [] k = "ED" -> OneBl \o n("EA") \o n("ED")
        [] OTHER -> OneBl \o n(k)

SealedAlongChain(in) ==
  /\ \A k \in DOMAIN in.st : SealedIn(in, k) => in.st[k].under = {SuppliedUnder(in, k)}
  /\ ~SealedIn(in, "X")
  /\ in.sb => \A k \in {"A", "SC", "CD", "CE"} : ~SealedIn(in, k)
  /\ \A k \in {"SC", "CD", "CE", "G0", "G1"} : SealedIn(in, k) => in.st[k].nonce # ZeroNonce
  /\ SealedIn(in, "CE") => in.st["CD"].nonce # ZeroNonce

Nonces == Seq(STRING) \ {<<>>}

ASSUME InputsAssumption ==
  \A in \in Inputs :
    /\ Shaped(in) /\ SealedAlongChain(in)
    /\ \A k \in DOMAIN in.st : in.st[k].nonce \in Nonces
    /\ \A p \in DOMAIN NoDonor : in.donor[p] \in (Nonces \ {ZeroNonce}) \cup {NoKey}

-----------------------------------------------------------------------------
(* Which inputs a behaviour may contain.  Four that the code accepts lead to an image that  *)
(* does not open again; each is a finding of its own, let in by its name in Gaps (the other  *)
(* two gaps, "second_chain" and "lucky_cg", are met in Open and LooksPlain).                 *)

Admitted(in) ==
  /\ "round_cf" \notin Gaps =>
       \A f \in CFs \cap DOMAIN in.st : in.st[f].under = {} => in.st[f].table = "none"
  /\ "open_sc" \notin Gaps =>
       ("SC" \in DOMAIN in.st /\ ~in.sb /\ ~SealedIn(in, "SC") => in.st["SC"].nonce = ZeroNonce)
  /\ "sealed_extra_cd" \notin Gaps => ~SealedIn(in, "ED")
  /\ "patched_sealed" \notin Gaps /\ in.patches = "fits" =>
       \A k \in PatchTargets(in.type) : ~SealedIn(in, k)

NotWritten == [st |-> <<>>, cpu |-> "zero", smc |-> 0]

Init ==
  /\ input \in {in \in Inputs : Admitted(in)}
  /\ image = InputParsed(input)
  /\ phase = "supplied"
  /\ written = NotWritten
  /\ seals = 0

(* run_build on the supplied input: a failure hands back no image. *)
RunBuild ==
  LET patched == PatchesApplied(InputParsed(input), input)
      paired == Then(patched, MetadataApplied(patched.img, input))
      nonced == NoncesApplied(paired.img, input, seals)
      r == Then(paired, EncryptAll(nonced, input.cpu, input.type, seals))
  IN  /\ phase = "supplied"
      /\ seals < MaxSeals
      /\ seals' = seals + 1
      /\ image' = r.img
      /\ phase' = IF r.ok THEN "written" ELSE "refused"
      /\ written' = IF r.ok THEN [st |-> r.img.st, cpu |-> input.cpu, smc |-> r.img.smc]
                    ELSE written
      /\ UNCHANGED input

(* The written bytes are parsed. *)
Read ==
  /\ phase = "written"
  /\ image' = ReadBack(image)
  /\ phase' = "read"
  /\ UNCHANGED <<input, written, seals>>

(* decrypt_all with the key the image was sealed under: on what was parsed, on the object      *)
(* that was sealed, or on one whose encrypt_all failed half way.                               *)
Open ==
  LET r == DecryptAll(image, written.cpu)
  IN  /\ phase \in {"read", "written", "broken"}
      /\ Has(image, "EA") => "second_chain" \in Gaps
      /\ image' = r.img
      /\ phase' = IF r.ok THEN "open" ELSE "refused"
      /\ UNCHANGED <<input, written, seals>>

(* A caller changes the SMC of an opened image, or makes room in its filesystem. *)
EditSmc ==
  /\ phase = "open" /\ image.smc < MaxSmc
  /\ image' = [image EXCEPT !.smc = @ + 1]
  /\ UNCHANGED <<phase, input, written, seals>>

MakeRoom ==
  /\ phase = "open"
  /\ \E room \in BOOLEAN : image' = [image EXCEPT !.room = room]
  /\ UNCHANGED <<phase, input, written, seals>>

(* encrypt_all on an opened image, under the key it had or another.  It never seals the SC of a  *)
(* CB chain again.                                                                              *)
ScLeftOpen(im) == Has(im, "SC") /\ ~im.sb /\ im.st["SC"].nonce # ZeroNonce

Reseal ==
  /\ phase = "open"
  /\ ScLeftOpen(image) => "open_sc" \in Gaps
  /\ seals < MaxSeals
  /\ \E cpu \in {"console", "other", "zero"} :
       LET r == EncryptAll(image, cpu, input.type, seals)
       IN  /\ image' = r.img
           /\ phase' = IF r.ok THEN "written" ELSE "broken"
           /\ written' = IF r.ok
                         THEN [st |-> r.img.st, cpu |-> cpu, smc |-> r.img.smc]
                         ELSE [NotWritten EXCEPT !.cpu = cpu]
  /\ seals' = seals + 1
  /\ UNCHANGED input

(* extract_all on the opened image, and its result offered to a build of the same or another  *)
(* type the chain's shape suits.                                                              *)
Suits(type, im) ==
  \/ type = input.type
  \/ ~im.sb /\ ~Has(im, "X") /\ type \in {"Retail", IF Has(im, "B") THEN "Glitch2" ELSE "Glitch"}

Extract ==
  /\ phase = "open" /\ image.kv = "clear" /\ ~Has(image, "EA")
  /\ \E type \in Types, f \in CFs :
       LET in == [Extracted(image, input, type, f) EXCEPT !.cpu = written.cpu]
       IN  Suits(type, image) /\ Admitted(in) /\ input' = in
  /\ phase' = "supplied"
  /\ UNCHANGED <<image, written, seals>>

Next == RunBuild \/ Read \/ Open \/ EditSmc \/ MakeRoom \/ Reseal \/ Extract

Spec == Init /\ [][Next]_vars

-----------------------------------------------------------------------------
(* The state is well formed: every stage present carries keystreams, a nonce and, where the   *)
(* source keeps one, a derived key; the keyvault is clear or sealed under one key.            *)
TypeOK ==
  /\ phase \in {"supplied", "written", "read", "open", "broken", "refused"}
  /\ DOMAIN image.st \subseteq Kinds
  /\ \A k \in DOMAIN image.st :
       /\ image.st[k].dec \in BOOLEAN
       /\ image.st[k].nonce # <<>>
       /\ image.st[k].table \in {"none", "tail", "noise"}
       /\ image.st[k].body \in {"supplied", "patched", "spoilt"}
       /\ k \in CFs \cup CGs \cup {"CE"} => image.st[k].key = NoKey
  /\ image.kv \in {"clear", "console", "other", "zero"}
  /\ image.tails \subseteq CFs /\ image.spills \subseteq CGs
  /\ seals \in 0 .. MaxSeals

(* The key under which the console would take stage k of image im off the flash, worked out     *)
(* from the nonces that lie there: each stage under its parent, the root under the 1BL key.     *)
BootKey(im, type, cpu, k) ==
  LET n(j) == im.st[j].nonce
      keyA == OneBl \o n("A")
      keyB == IF Has(im, "X") THEN n("B") ELSE CbBKey(im, keyA, n("B"), cpu)
      keyCd == IF im.sb THEN CdKey(ZeroSecret \o n("SC"), n("CD"), FALSE, cpu)
               ELSE IF Has(im, "B") THEN CdKey(keyB, n("CD"), FALSE, cpu)
               ELSE CdKey(keyA, n("CD"), RequiresCpuKey(im), cpu)
  IN  CASE k = "A" -> keyA
        [] k = "X" -> CbXKey(im, keyA, n("X"))
        [] k = "B" -> keyB
        [] k = "SC" -> ZeroSecret \o n("SC")
        [] k = "CD" -> keyCd
        [] k = "CE" -> keyCd \o n("CE")
        [] k \in CFs -> OneBl \o n(k)
        [] k = "G0" -> <<"F0", "7bl">> \o n(k)
        [] k = "G1" -> <<"F1", "7bl">> \o n(k)
        [] k = "EA" -> OneBl \o n("EA")
        [] k = "ED" -> OneBl \o n("EA") \o n("ED")

(* Every stage of a written image lies under exactly one keystream, that of the key its parent   *)
(* as written derives (a Glitch3 CB_B and an SC with a zero nonce lie in the clear).  This is     *)
(* what apply_nonces' order of nonces before keys, the kept nonces of a part-sealed chain and     *)
(* seal_kernel's choice of parent are for.                                                       *)
ChainLinked ==
  phase = "written" =>
    \A k \in DOMAIN image.st :
      image.st[k].under =
        IF k = "B" /\ Has(image, "X") THEN {}
        ELSE IF k = "SC" /\ image.st[k].nonce = ZeroNonce THEN {}
        ELSE {BootKey(image, input.type, written.cpu, k)}

(* After decrypt_all every stage the parse recovers is plaintext and known to be, whether the    *)
(* image was read back, opened in memory, or left half sealed by an encrypt_all that failed: no   *)
(* stage was sealed twice, taken for the other form or patched while it lay sealed                *)
(* (FlashImage::decrypt_all, patch_and_reparse).                                                  *)
OpensAgain ==
  phase = "open" =>
    \A k \in DOMAIN image.st \ Extra :
      /\ image.st[k].under = {} /\ image.st[k].body # "spoilt"
      /\ image.st[k].dec \/ (k = "SC" /\ image.st[k].nonce = ZeroNonce)

(* "Opens every sealed stage" (FlashImage::decrypt_all), the second chain of a JTAG image        *)
(* included.                                                                                     *)
OpensEverySealedStage ==
  phase = "open" => \A k \in DOMAIN image.st : image.st[k].under = {}

(* The digest a CB carries covers the SMC exactly as it lies sealed in the image, the pairing     *)
(* written beside it and the key the CB is sealed under; a CB_B of a manufacturing chain or of    *)
(* the zero key carries none (seal_policy, encrypt_retail).                                       *)
DigestCurrent ==
  phase = "written" =>
    LET digest(k) == CbDigest(SmcSealedNow(image), image.st[k],
                              BootKey(image, input.type, written.cpu, k), written.cpu)
    IN  /\ Has(image, "B") /\ ~Has(image, "X") =>
             image.st["B"].mac = IF image.mfg \/ written.cpu = "zero" THEN <<>> ELSE digest("B")
        /\ (input.type = "Retail" /\ CdNeedsCpuKey(image)) \/ input.type = "Devkit" =>
             image.st["A"].mac = digest("A")
        /\ Has(image, "EA") => image.st["EA"].mac = digest("EA")

(* The continuation table of a CF names a tail exactly when its CG runs past the slot, and the    *)
(* filesystem holds the tail file exactly then: no stale tail outlives a CG that fits             *)
(* (prepare_cg_tail).                                                                             *)
TailNamed(f) ==
  Has(image, CgOf(f)) =>
    /\ image.st[f].table = IF CgOf(f) \in image.spills THEN "tail" ELSE "none"
    /\ f \in image.tails <=> CgOf(f) \in image.spills

(* A written CF names the tail its CG has, and the MAC of every CF that binds the console covers  *)
(* the pairing and that table as written, under the nonce it was sealed with (bind_cf after       *)
(* prepare_cg_tail).                                                                              *)
MacCurrent ==
  phase = "written" =>
    \A f \in CFs \cap DOMAIN image.st :
      /\ TailNamed(f)
      /\ BindsConsole(input.type, f) => image.st[f].mac = CfMac(f, image.st[f], written.cpu)

(* Opening an image and sealing it again under the same key, its SMC untouched, writes every      *)
(* stage as it was: nonces, keystreams, pairing, digests and tables (encrypt_all is the inverse   *)
(* of decrypt_all).                                                                              *)
ResealRestores ==
  [][phase = "open" /\ phase' = "written" /\ written'.cpu = written.cpu /\ written'.smc = written.smc
     => \A k \in DOMAIN image'.st :
          /\ written'.st[k].nonce = written.st[k].nonce
          /\ written'.st[k].under = written.st[k].under
          /\ written'.st[k].mac = written.st[k].mac
          /\ written'.st[k].pair = written.st[k].pair
          /\ written'.st[k].table = written.st[k].table]_vars
=============================================================================
