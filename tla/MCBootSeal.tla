----------------------------- MODULE MCBootSeal -----------------------------
(***************************************************************************)
(* Inputs for checking BootSeal with TLC: the chain shapes the build types *)
(* use, each with some of its stages supplied sealed along the chain they  *)
(* came from, every other stage plaintext.                                 *)
(***************************************************************************)
EXTENDS BootSeal

CONSTANTS
  Shapes,     \* the chain shapes of this run, by name
  Slots,      \* the update stages of this run: sets of CFs and CGs
  WithSlots   \* the shapes tried with update stages

Single == {"A", "CD", "CE"}
Shape == [single  |-> Single,
          withSc  |-> Single \cup {"SC"},
          split   |-> Single \cup {"B"},
          glitch3 |-> Single \cup {"X", "B"},
          jtag    |-> Single \cup Extra,
          dev     |-> Single \cup {"SC"}]
TypesOf == [single  |-> {"Retail", "Glitch"},
            withSc  |-> {"Retail"},
            split   |-> {"Retail", "Glitch2"},
            glitch3 |-> {"Glitch3"},
            jtag    |-> {"Jtag"},
            dev     |-> {"Devkit", "Devgl"}]

\* Which stages arrive sealed, before cutting down to those the shape has.
SealedSets == { {}, CFs \cup CGs, CGs, {"CE"}, {"CD", "CE", "F0", "G0"},
                {"A", "B", "EA"}, {"SC"}, {"B"}, Kinds \ {"X", "ED"}, {"EA", "ED"} }

InNonce(k) == <<k, "in">>

\* The key a supplied stage lies sealed under.  A plaintext CB_B behind a CB_X states its own.
InKey(kinds, cb, cpu, sealed, k) ==
  LET a == OneBl \o InNonce("A")
      b == IF "X" \in kinds /\ "B" \notin sealed THEN InNonce("B")
           ELSE CbBKey(cb, a, InNonce("B"), cpu)
      cd == IF "B" \in kinds THEN CdKey(b, InNonce("CD"), FALSE, cpu)
            ELSE CdKey(a, InNonce("CD"), cb.newCb, cpu)
  IN  CASE k = "A" -> a
        [] k = "B" -> b
        [] k = "SC" -> ZeroSecret \o InNonce("SC")
        [] k = "CD" -> cd
        [] k = "CE" -> cd \o InNonce("CE")
        [] k = "G0" -> <<"F0", "7bl">> \o InNonce(k)
        [] k = "G1" -> <<"F1", "7bl">> \o InNonce(k)
        [] k = "ED" -> OneBl \o InNonce("EA") \o InNonce("ED")
        [] OTHER -> OneBl \o InNonce(k)

InStage(kinds, cb, cpu, dev, sealed, k) ==
  [nonce |-> IF k = "SC" /\ k \notin sealed /\ ~dev THEN ZeroNonce ELSE InNonce(k),
   under |-> IF k \in sealed THEN {InKey(kinds, cb, cpu, sealed, k)} ELSE {},
   dec |-> FALSE, key |-> NoKey,
   pair |-> "supplied", mac |-> <<"supplied">>, body |-> "supplied",
   table |-> IF k \in CFs /\ k \in sealed THEN "tail" ELSE "none"]

\* A CB's head: manufacturing, version 2 and the build from which a single CB keys CD.
Heads == { [mfg |-> FALSE, v2 |-> FALSE, newCb |-> TRUE],
           [mfg |-> FALSE, v2 |-> TRUE, newCb |-> FALSE],
           [mfg |-> TRUE, v2 |-> TRUE, newCb |-> TRUE] }

Donor == [p \in DOMAIN NoDonor |-> <<p, "donor">>]

\* A part-sealed chain is coherent when what is sealed under its CD was keyed the way the built
\* CB keys that CD.
SealedCoherent(type, head, kinds, sealed) ==
  {"CD", "CE"} \cap sealed # {} /\ "B" \notin kinds /\ type # "Retail" => ~head.newCb

InputOf(shape, type, head, cpu, donor, sealed, slots, spills, tails, patches) ==
  LET dev == shape = "dev"
      kinds == Shape[shape] \cup slots
      into == (kinds \cap sealed) \ (IF dev THEN Shape.dev ELSE {})
  IN  [type |-> type, sb |-> dev, mfg |-> head.mfg, v2 |-> head.v2, newCb |-> head.newCb,
       cpu |-> cpu, donor |-> donor, pair |-> "console", cfPair |-> "console",
       smc |-> 1, smcSealed |-> FALSE, spills |-> spills \cap slots, room |-> TRUE,
       tails |-> tails, patches |-> patches,
       st |-> [k \in kinds |-> InStage(kinds, head, cpu, dev, into, k)]]

Choices ==
  { c \in [shape : Shapes, type : Types, head : Heads, cpu : {"console", "zero"},
           sealed : SealedSets, slots : Slots] :
      /\ c.type \in TypesOf[c.shape]
      /\ c.slots # {} => c.shape \in WithSlots
      /\ SealedCoherent(c.type, c.head, Shape[c.shape], c.sealed) }

Unpatched ==
  UNION { { InputOf(c.shape, c.type, c.head, c.cpu, donor, c.sealed, c.slots, spills, tails, "none") :
              donor \in {NoDonor, Donor}, spills \in {{}, {"G0"}, CGs},
              tails \in {{}, {"F1"} \cap c.slots} }
          : c \in Choices }

\* Patches touch the chain only, so they are tried without update stages.
MCInputs ==
  Unpatched \cup
  UNION { { InputOf(c.shape, c.type, c.head, c.cpu, donor, c.sealed, {}, {}, {}, patches) :
              donor \in {NoDonor, Donor}, patches \in {"fits", "long"} }
          : c \in {ch \in Choices : ch.slots = {} /\ PatchTargets(ch.type) # {}} }
=============================================================================
