--------------------------- MODULE MCSecuredFiles ---------------------------
(***************************************************************************)
(* Copies of the secured files for TLC: sealed for the console, for        *)
(* another, by an update package, in the clear, damaged, cut.              *)
(***************************************************************************)
EXTENDS SecuredFiles

Cpu   == <<"cpu">>
Other == <<"other">>
Under(plain, layers) == [plain |-> plain, under |-> layers]

-----------------------------------------------------------------------------
CrlPlain(content) == [stamp |-> 1, lock |-> 9, content |-> content]
CrlUnder(master, id, content) ==
  [whole |-> TRUE, hash |-> content, iv |-> id, wrapped |-> [key |-> <<id>>, under |-> master],
   body |-> Under(CrlPlain(content), << Layer(<<id>>, id, "seal") >>)]
CrlClear == [CrlUnder(XexKey, "pack", "list2") EXCEPT !.body.under = << >>]

CrlCopies ==
  { CrlUnder(Cpu, "mine", "list1"), CrlUnder(Other, "theirs", "list1"), CrlUnder(XexKey, "pack", "list2"),
    CrlUnder(ZeroKey, "kit", "list2"), CrlClear, [CrlUnder(Cpu, "mine", "list1") EXCEPT !.hash = "worn"],
    [CrlClear EXCEPT !.whole = FALSE] }

-----------------------------------------------------------------------------
Record(key, id, content) ==
  LET field == [id |-> id, marked |-> FALSE]
      plain == [stamp |-> 1, lock |-> 9, head |-> id, content |-> content, mac |-> << >>]
  IN  [field |-> field, hash |-> content,
       body |-> Under(plain, IF key = << >> THEN << >> ELSE << Layer(key, NoVector, "seal") >>)]
Dae(records) == [whole |-> TRUE, records |-> records]
Worn(r) == [r EXCEPT !.hash = "worn"]

DaeCopies ==
  { Dae(<<Record(Cpu, "mine", "one"), Record(Cpu, "mine", "two")>>),
    Dae(<<Record(XexKey, "pack", "one"), Record(<< >>, "pack", "two")>>),
    Dae(<<Record(ZeroKey, "kit", "one")>>), Dae(<<Record(Other, "theirs", "one")>>),
    Dae(<<Record(Cpu, "mine", "one"), Record(Other, "theirs", "two")>>),
    Dae(<<Record(XexKey, "pack", "one"), Record(Cpu, "mine", "two")>>),
    Dae(<<Record(Cpu, "mine", "one"), Worn(Record(Cpu, "mine", "two"))>>),
    Dae(<< >>), [Dae(<<Record(Cpu, "mine", "one")>>) EXCEPT !.whole = FALSE] }

-----------------------------------------------------------------------------
Plain(head) == [head |-> head, lock |-> 9, stamp |-> 1, content |-> "ours"]
Keyed(cpu, head) == SealedPlain(Plain(head), cpu)
InClear(head) == Crypted(Keyed(Cpu, head), Cpu)
Stale(f) == [f EXCEPT !.nonce.kind = "stale"]
ZeroNonce == EmptyFile.nonce

KeyedCopies ==
  { Keyed(Cpu, "mine"), Keyed(Other, "theirs"), Keyed(ZeroKey, "kit"), InClear("loose"), Stale(InClear("loose")),
    [Keyed(Cpu, "mine") EXCEPT !.body.plain.content = "worn"], [InClear("loose") EXCEPT !.nonce = ZeroNonce], [Keyed(Cpu, "mine") EXCEPT !.size = "wrong"],
    [Keyed(Cpu, "mine") EXCEPT !.size = "tiny"] }

-----------------------------------------------------------------------------
Fcrt(key) ==
  [whole |-> TRUE, blocks |-> TRUE, hash |-> "drive",
   body |-> Under([content |-> "drive"], IF key = << >> THEN << >> ELSE << Layer(key, "fcrt", "seal") >>)]

FcrtCopies ==
  { Fcrt(<< >>), Fcrt(Cpu), Fcrt(Other), Fcrt(ZeroKey), [Fcrt(<< >>) EXCEPT !.hash = "worn"],
    [Fcrt(<< >>) EXCEPT !.blocks = FALSE], [Fcrt(<< >>) EXCEPT !.blocks = FALSE, !.hash = "worn"],
    [Fcrt(<< >>) EXCEPT !.whole = FALSE] }

-----------------------------------------------------------------------------
MCName == {"crl.bin", "dae.bin", "extended.bin", "secdata.bin", "fcrt.bin"}
MCCopy == [n \in MCName |-> CASE n = "crl.bin" -> CrlCopies [] n = "dae.bin" -> DaeCopies
                              [] n = "fcrt.bin" -> FcrtCopies [] OTHER -> KeyedCopies]
MCCpuKey  == {Cpu, ZeroKey}
MCSetting == { [time |-> 3, ldv |-> 1, head |-> "kv"], [time |-> 4, ldv |-> 1, head |-> "kv"],
               [time |-> 5, ldv |-> 2, head |-> "newkv"] }
=============================================================================
