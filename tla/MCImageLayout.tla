---------------------------- MODULE MCImageLayout ----------------------------
(***************************************************************************)
(* ImageLayout on the images run_build assembles: every shape and type,    *)
(* fresh or over a donor whose payloads stay unless the build replaces     *)
(* them, with the sizes at which the layout changes its mind.              *)
(***************************************************************************)
EXTENDS ImageLayout, TLC

CONSTANTS
    JtagPatchSizes,    \* the lengths of JTAG patch sets tried
    JtagXell           \* whether a JTAG image is given its XeLL

NoPayloads == [xell |-> FALSE, payload |-> FALSE, fuses |-> FALSE, rebooter |-> 0,
               patch |-> "none", patchSize |-> 0, mfg |-> FALSE, base |-> 0]

\* What a donor of each kind leaves: nothing, the XeLL and KHV patches of a
\* glitch image, those and the fuses of a glitch2m one, the window of a JTAG
\* one, the fuses and patches of a devgl one; and a glitch image whose KHV list
\* is empty.
DonorPayloads(shape) ==
    LET first == IF shape = "big" THEN \hC0000 ELSE \hB0000
    IN {NoPayloads,
        [NoPayloads EXCEPT !.xell = TRUE, !.patch = "glitch", !.patchSize = \h400,
                           !.base = first],
        [NoPayloads EXCEPT !.xell = TRUE, !.base = first],
        [NoPayloads EXCEPT !.xell = TRUE, !.fuses = TRUE, !.patch = "glitch",
                           !.patchSize = \h400, !.mfg = TRUE, !.base = first],
        [NoPayloads EXCEPT !.xell = TRUE, !.fuses = TRUE, !.rebooter = \h1000,
                           !.base = \h70000],
        [NoPayloads EXCEPT !.fuses = TRUE, !.patch = "glitch", !.patchSize = \h400,
                           !.mfg = TRUE, !.base = \hD0000]}

\* What the build puts in their place.
Payloads(type, donor) ==
    CASE type \in {"retail", "devkit"} -> {donor}
      [] type = "glitch" ->
            {[donor EXCEPT !.xell = TRUE, !.patch = "glitch", !.patchSize = n, !.mfg = FALSE] :
                n \in {4, \h400, \hFFF0, \hFFF1}}
      [] type = "glitch2m" ->
            {[donor EXCEPT !.xell = TRUE, !.fuses = TRUE, !.patch = "glitch",
                           !.patchSize = n, !.mfg = TRUE] : n \in {\h400, \hFFA0, \hFFF0}}
      [] type = "devgl" ->
            {[donor EXCEPT !.fuses = TRUE, !.patch = "glitch", !.patchSize = \h400,
                           !.mfg = TRUE]}
      [] type = "jtag" ->
            {[donor EXCEPT !.xell = x, !.fuses = f, !.rebooter = \hD40, !.payload = TRUE,
                           !.patch = IF n = 0 THEN "none" ELSE "jtag", !.patchSize = n,
                           !.mfg = FALSE] :
                x \in JtagXell, f \in BOOLEAN, n \in {0} \cup JtagPatchSizes}

\* Boot chains: a short one, one that just reaches the first slot, and those of
\* the development images, which run past it.
Chains(type) ==
    CASE type = "devkit" -> {\hC8000}
      [] type = "devgl"  -> {\hC8000, \hD0000}
      [] OTHER           -> {\h40000, \h64B20, \h68000, \h68010}

\* Update slots: none, a pair that fits, one whose CG runs on past its slot, and
\* a second pair.
Slots == {<<0, 0, 0, 0>>, <<\h4560, \h8000, 0, 0>>, <<\h4560, \h1C000, 0, 0>>,
          <<\h4560, \h1C000, \h4560, \h1C000>>, <<\h10000, \h400, 0, 0>>}

Shape(type) == IF type = "devkit" THEN {"small64", "big", "emmc"}
                                  ELSE {"small", "big", "emmc"}

MCImages ==
    UNION {UNION {
        {[shape |-> shape, type |-> type, preserve |-> FALSE,
          base |-> pay.base, stride |-> 0, smc |-> \h3000, chain |-> chain,
          cf |-> (0 :> slot[1] @@ 1 :> slot[3]), cg |-> (0 :> slot[2] @@ 1 :> slot[4]),
          console |-> TRUE, xell |-> pay.xell, payload |-> pay.payload,
          fuses |-> pay.fuses, rebooter |-> pay.rebooter, patch |-> pay.patch,
          patchSize |-> pay.patchSize, mfg |-> pay.mfg,
          extraCb |-> extra[1], extraCd |-> extra[2]] :
            chain \in Chains(type), slot \in Slots,
            pay \in UNION {Payloads(type, donor) : donor \in DonorPayloads(shape)},
            extra \in IF type = "jtag" THEN {<<0, 0>>, <<\h9340, \h5290>>} ELSE {<<0, 0>>}} :
        shape \in Shape(type)} : type \in Types \ {"none"}}

\* The images tried are those the theorems are about, but for the patch sizes and
\* the missing XeLL that ImageLayout_fill and ImageLayout_bare are about.
ASSUME InPlaceAssumption ==
    \A i \in MCImages :
        /\ PartsInPlace(i)
        /\ JtagPatchSizes \subseteq 0 .. \h3000 => PatchesInBlock(i)
        /\ JtagXell = {TRUE} => XellBehindPatches(i)
=============================================================================
