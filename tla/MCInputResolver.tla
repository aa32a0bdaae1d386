-------------------------- MODULE MCInputResolver --------------------------
(***************************************************************************)
(* Requests for checking InputResolver with TLC, varied one concern at a   *)
(* time around one that resolves.                                          *)
(***************************************************************************)
EXTENDS InputResolver

CONSTANT Concern   \* what the requests of this run vary

Bl(name) == [name |-> name, hit |-> [tag |-> "found", rank |-> 1], confined |-> TRUE]
Bls(names) == [n \in DOMAIN names |-> Bl(names[n])]

Entry(stem, ext, supply) ==
  [stem |-> stem, ext |-> ext, digit |-> "", case |-> "lower", checksum |-> FALSE, outside |-> FALSE,
   backslashes |-> FALSE, supply |-> supply, opens |-> TRUE, confined |-> TRUE,
   hit |-> [tag |-> "none"], basehit |-> [tag |-> "none"]]

IniWith(names, flashfs, security) ==
  [jtag |-> FALSE, bl |-> Bls(names), flashfs |-> flashfs, security |-> security, raw |-> <<>>]

DonorName(stem, ext, digit) == [stem |-> stem, ext |-> ext, digit |-> digit, case |-> "upper"]

Donor == [type |-> "small", files |-> <<>>, cf |-> TRUE, kv |-> TRUE, smc |-> TRUE,
          mobile |-> TRUE, hacked |-> FALSE]

ThreeValues(v) == [cb |-> v, cf |-> v, pairing |-> v]

Plain ==
  [faults |-> {}, cpukey |-> [cli |-> "good", file |-> "absent"], input |-> "opens", found |-> "absent",
   type |-> "absent", donor |-> Donor, over |-> ThreeValues("absent"), file |-> ThreeValues("absent"),
   kv |-> "absent", smc |-> "absent", mobile |-> "absent", build |-> "retail", nosusecurity |-> FALSE,
   bin |-> [own |-> "missing", g2 |-> "missing"], addons |-> <<>>, xell |-> FALSE, keys |-> <<>>,
   ini |-> IniWith(<<"cb_", "cd", "ce">>, <<>>, <<>>)]

-----------------------------------------------------------------------------
Faults == {"InvalidSourceDirectory", "OptionsReadFailed", "MalformedOption", "InvalidOption", "InvalidInput",
           "BuildIniReadFailed", "SectionNotFound", "UnknownButton"}
Opening == {"absent", "unreadable", "sealed", "opens"}

FoundationRequests ==
  { [Plain EXCEPT !.faults = faults, !.input = input, !.found = found, !.type = type,
                  !.cpukey = [cli |-> cli, file |-> file]] :
      faults \in {{}} \cup {{f} : f \in Faults}, input \in Opening, found \in Opening,
      type \in {"absent", "small", "big"}, cli \in {"absent", "good", "bad"}, file \in {"absent", "good", "bad"} }

Given == {"absent", "good", "bad"}
ConsoleRequests ==
  { [Plain EXCEPT !.input = input, !.type = "small", !.donor = [Donor EXCEPT !.cf = cf, !.kv = dkv, !.smc = smc],
                  !.over = [cb |-> o1, cf |-> o2, pairing |-> o3],
                  !.file = ThreeValues(file), !.kv = kv, !.mobile = mobile,
                  !.smc = IF smc THEN "absent" ELSE "found"] :
      input \in {"absent", "opens"}, cf \in BOOLEAN, dkv \in BOOLEAN, smc \in BOOLEAN,
      o1 \in Given, o2 \in Given, o3 \in Given, file \in Given,
      kv \in {"absent", "found", "refused"}, mobile \in {"absent", "found", "unreadable"} }

-----------------------------------------------------------------------------
Supplies == {"none", "loose", "package", "unreadable"}

Listable ==
  UNION { { Entry("dash", "xex", supply), [Entry("dash", "xex", supply) EXCEPT !.case = "upper"],
            [Entry("aac", "xexp", supply) EXCEPT !.checksum = TRUE],
            [Entry("x", "ini", supply) EXCEPT !.outside = TRUE],
            [Entry("secdata", "bin", supply) EXCEPT !.opens = (supply # "package")],
            Entry("fcrt", "bin", supply) } : supply \in Supplies }

DonorHolds ==
  { <<>>,
    <<DonorName("dash", "xex", ""), DonorName("aac", "xexp", "1"), DonorName("crl", "bin", "")>>,
    <<DonorName("secdata", "bin", ""), DonorName("fcrt", "bin", ""), DonorName("other", "xex", "")>>,
    <<DonorName("extended", "bin", ""), DonorName("x", "ini", ""), DonorName("dae", "bin", "")>> }

WithFiles(flashfs, security, files, nosus) ==
  [Plain EXCEPT !.donor = [Donor EXCEPT !.files = files], !.nosusecurity = nosus,
                !.ini = AsRead(IniWith(<<"cb_", "cd", "ce">>, flashfs, security), nosus)]

Lists ==
  (BoundedSeq(Listable, 1) \X BoundedSeq(Listable, 1)) \cup ((Listable \X Listable) \X { <<>> })

FlashRequests == { WithFiles(list[1], list[2], files, FALSE) : list \in Lists, files \in DonorHolds }

\* A file of its own under [security], only in an update package, with nosusecurity.
NosusRequests ==
  { WithFiles(<<>>, <<e>>, files, TRUE) :
      e \in {Entry(stem, "bin", supply) : stem \in {"crl", "own"}, supply \in Supplies}, files \in DonorHolds }

\* An INI entry with a directory before it, as Windows writes paths.
BackslashRequests ==
  { WithFiles(<<[Entry("dash", "xex", supply) EXCEPT !.backslashes = TRUE]>>, <<>>, files, FALSE) :
      supply \in Supplies, files \in DonorHolds }

\* A dashboard patch the donor holds without its update slot's number.
TwiceRequests ==
  { WithFiles(<<[Entry("bg", "bmp", supply) EXCEPT !.checksum = checksum]>>, <<>>,
              <<DonorName("bg", "bmp", digit)>>, FALSE) :
      supply \in Supplies, checksum \in BOOLEAN, digit \in {"", "1"} }

-----------------------------------------------------------------------------
CbLists == { <<"cb_">>, <<"cb_a", "cb_b">>, <<"cb_", "cb_">>, <<"cb.bin">>, <<>> }
Files == {"found", "missing", "unreadable"}

KeysOf(build) ==
  IF build = "devgl" THEN {<<>>, <<"wrong", "right">>, <<"unlistable", "right">>} ELSE {<<>>}

SmcsOf(build) == IF build = "retail" THEN {"absent", "found", "unreadable"} ELSE {"found"}

KitOf(build) ==
  { [Plain EXCEPT !.build = build, !.bin = [own |-> own, g2 |-> g2], !.addons = addons, !.xell = xell,
                  !.keys = keys, !.donor = [Donor EXCEPT !.hacked = hacked], !.smc = smc,
                  !.ini = [IniWith(cbs \o <<"cd">>, <<>>, <<>>) EXCEPT !.jtag = (build = "jtag")]] :
      own \in Files, g2 \in Files \ {"unreadable"},
      addons \in {<<>>, <<"found">>, <<"found", "missing">>}, xell \in BOOLEAN,
      keys \in KeysOf(build), hacked \in BOOLEAN,
      smc \in SmcsOf(build), cbs \in CbLists }

KitRequests == UNION {KitOf(build) : build \in Hacked \cup {"retail", "devkit"}}

-----------------------------------------------------------------------------
\* What the reader is asked: chains of every shape, and the lists of payloads.
Hits == {[tag |-> "none"], [tag |-> "found", rank |-> 1], [tag |-> "found", rank |-> 2]}

\* Two CBs and CDs as each type lists them, an update pair or two under either name,
\* and the names that are known only without their extension.
CbNames == { <<"cb_">>, <<"cb">>, <<"cb_a", "cb_b">>, <<"cba", "cbb">>, <<"cb_", "cb_">>, <<"cb_a", "cb_">>,
             <<"cba", "cbx", "cbb">>, <<"2bl", "3bl">>, <<"sb", "sc">>, <<"cb.bin", "2bl.bin">> }
KernelNames == { <<"cd", "ce">>, <<"4bl", "5bl">>, <<"sd", "se">>, <<"cd", "ce", "cd">>, <<"cd", "5bl.bin">>,
                 <<"4bl.bin", "ce">>, <<"cd", "4bl.bin", "4bl">> }
UpdateNames == { <<>>, <<"cf", "cg">>, <<"6bl", "7bl">>, <<"cf", "cg", "cf", "cg">>,
                 <<"cf", "cg", "6bl", "7bl">>, <<"7bl", "6bl", "cf", "cg">> }
\* A chain's second CD or CB named in another manner than its first.
AliasLists ==
  {cb \o kernel : cb \in CbNames, kernel \in {<<"cd", "ce", "4bl">>, <<"cd", "ce", "cd8453">>}}
    \cup {<<"cba", "cb_", "cd", "ce">>}

ChainLists(jtag) ==
  IF Concern = "alias" THEN AliasLists
  ELSE UNION { {cb \o kernel \o update, cb \o update \o kernel} :
                 cb \in CbNames, kernel \in KernelNames, update \in UpdateNames }
         \cup (IF jtag THEN {} ELSE AliasLists \ {<<"cba", "cb_", "cd", "ce">>})

PayloadEntries ==
  { [stem |-> "aac", ext |-> "xexp", digit |-> digit, case |-> case, checksum |-> TRUE,
     outside |-> FALSE, hit |-> hit, basehit |-> [tag |-> "none"], confined |-> TRUE] :
      digit \in {"", "1", "2"}, case \in {"lower", "upper"}, hit \in Hits }
  \cup { [stem |-> "bg", ext |-> "bmp", digit |-> "", case |-> "lower", checksum |-> checksum,
          outside |-> TRUE, hit |-> [tag |-> "none"], basehit |-> hit, confined |-> TRUE] :
           checksum \in BOOLEAN, hit \in Hits \cup {[tag |-> "escapes"]} }

RawEntries ==
  { [outside |-> FALSE, offset |-> offset, hit |-> hit, confined |-> confined] :
      offset \in BOOLEAN, hit \in Hits, confined \in BOOLEAN }

IniOf(jtag, bl, flashfs, security, raw) ==
  [jtag |-> jtag, bl |-> bl, flashfs |-> flashfs, security |-> security, raw |-> raw]

Stages(names, missing) ==
  [n \in DOMAIN names |-> [Bl(names[n]) EXCEPT !.hit = IF n = missing THEN [tag |-> "none"] ELSE @]]

ChainInis ==
  UNION { {IniOf(jtag, Stages(names, 0), <<>>, <<>>, <<>>) : names \in ChainLists(jtag)} :
          jtag \in IF Concern = "alias" THEN {TRUE} ELSE BOOLEAN }
    \cup { IniOf(FALSE, Stages(<<"cb_", "cd", "ce">>, missing), <<>>, <<>>, <<e>>) :
              missing \in 0 .. 3, e \in RawEntries }

\* Each build type reads the patch suffix of its own; the longer lists are of one.
PayloadLists(jtag, longest) ==
  { IniOf(jtag, <<>>, flashfs, security, <<>>) :
      flashfs \in BoundedSeq(PayloadEntries, longest), security \in BoundedSeq(PayloadEntries, 1) }
PayloadInis == PayloadLists(FALSE, 2) \cup PayloadLists(TRUE, 1)

\* A file the reader finds is one the resolver found; the donor holds what
\* neither does.
DonorHeld == <<DonorName("aac", "xexp", ""), DonorName("aac", "xexp", "1"), DonorName("aac", "xexp", "2")>>

Resolvable(e) ==
  e @@ [backslashes |-> FALSE, opens |-> TRUE, supply |-> IF Reader!Hit(e).tag = "found" THEN "loose" ELSE "none"]
ForResolver(i) ==
  [i EXCEPT !.flashfs  = [n \in DOMAIN @ |-> Resolvable(@[n])],
            !.security = [n \in DOMAIN @ |-> Resolvable(@[n])]]

ReaderRequests ==
  { [Plain EXCEPT !.ini = ForResolver(i), !.donor.files = DonorHeld] :
      i \in ChainInis \cup PayloadInis }

\* The requests that resolve are such as the theorems about their listings speak of.
ASSUME ListingsAssumption ==
  Concern = "all" =>
    \A r \in ConsoleRequests \cup FlashRequests \cup KitRequests :
      ListsApart(r) /\ PlainPaths(r) /\ DonorKeepsSuffix(r) /\ LookupsAgree(r)

MCRequests ==
  CASE Concern = "all" -> {FoundationRequests, ConsoleRequests, FlashRequests, KitRequests, ReaderRequests}
    [] Concern = "alias" -> {ReaderRequests}
    [] Concern = "nosus" -> {NosusRequests}
    [] Concern = "backslash" -> {BackslashRequests}
    [] Concern = "twice" -> {TwiceRequests}
=============================================================================
