------------------------------ MODULE IniFiles ------------------------------
(***************************************************************************)
(* What a release INI makes of the files it lists (read_ini_files,         *)
(* src/utils/FileManager.cpp): its bootloaders placed in the slots of      *)
(* the chain, its payloads listed once each, its raw patches.  A listed    *)
(* file stands for its entry; what the lookup finds for an entry is given  *)
(* with it (AssetLookup is the lookup).                                    *)
(***************************************************************************)
EXTENDS Naturals, Sequences, FiniteSets

CONSTANT Inis   \* the INIs, in sets that vary one concern each: records
                \* [jtag, bl, flashfs, security, raw], see MCInputResolver

VARIABLES
  ini,          \* the INI read
  phase,        \* the section being read
  at,           \* the entry of that section
  counters,     \* how many entries of each prefix came before
  slots,        \* what each slot of the chain holds: the number of its entry, 0 for none
  stored,       \* the payloads, in the order they will be written
  patches       \* the raw patches

vars == <<ini, phase, at, counters, slots, stored, patches>>

SlotNames == {"cb_or_a", "cb_x", "cb_b", "sc", "cd", "ce", "extra_cb", "extra_cd",
              "cf0", "cf1", "cg0", "cg1"}

-----------------------------------------------------------------------------
(* A name stands for the keys that read_ini_files tells apart no further: most are how a key     *)
(* begins ("cb_" of cb_1921.bin, "cd8453" of a CD named without a "_"), 3bl, 6bl and 7bl are     *)
(* what comes before the extension, but "cb", "2bl", "4bl" and "5bl" are the whole key, which    *)
(* with an extension is not known.                                                               *)
WithExtension == {"cb.bin", "2bl.bin", "4bl.bin", "5bl.bin"}

(* Chains are counted by the key up to its first "_" or ".", the CF and CG ones also under their *)
(* numeric aliases.                                                                              *)
PrefixUnnamed(name) == name
Prefix(name) ==
  CASE name \in {"cb", "cb.bin", "cb_", "cb_a", "cb_b", "cb_x"} -> "cb"
    [] name = "2bl.bin" -> "2bl"
    [] name = "4bl.bin" -> "4bl"
    [] name = "5bl.bin" -> "5bl"
    [] name = "6bl" -> "cf"
    [] name = "7bl" -> "cg"
    [] OTHER -> name

FixedSlot(name) ==
  CASE name \in {"cba", "cb_a", "sb", "2bl"} -> "cb_or_a"
    [] name \in {"cbx", "cb_x"} -> "cb_x"
    [] name \in {"cbb", "cb_b"} -> "cb_b"
    [] name \in {"sc", "3bl"} -> "sc"
    [] name = "sd" -> "cd"
    [] name \in {"se", "ce", "5bl"} -> "ce"
    [] OTHER -> "none"

(* The second of a chain goes to the slot a chain has for it.  A CD's second replaces the first *)
(* unless the image has two chains.                                                            *)
SlotOf(name, chain, held, jtag) ==
  LET first(slot) == chain = 0 \/ held[slot] = 0
  IN  CASE name \in {"cb", "cb_"} -> IF first("cb_or_a") THEN "cb_or_a" ELSE IF jtag THEN "extra_cb" ELSE "cb_b"
        [] name \in {"cd", "cd8453", "4bl"} -> IF ~first("cd") /\ jtag THEN "extra_cd" ELSE "cd"
        [] name \in {"cf", "6bl"} -> IF first("cf0") THEN "cf0" ELSE "cf1"
        [] name \in {"cg", "7bl"} -> IF first("cg0") THEN "cg0" ELSE "cg1"
        [] OTHER -> FixedSlot(name)

(* flashfs_patch_suffix: a dashboard patch is stored under its update slot's number. *)
StoredName(e, jtag) ==
  LET suffixed == e.digit = "" /\ (e.ext \in {"xexp", "xttp"} \/ (e.ext = "bmp" /\ e.checksum))
  IN  [stem |-> e.stem, ext |-> e.ext, case |-> e.case,
       digit |-> IF suffixed THEN IF jtag THEN "2" ELSE "1" ELSE e.digit]

(* Payloads are told apart without regard to case. *)
Key(stored_name) == [stored_name EXCEPT !.case = "any"]

(* An entry from outside the release is found under its path, then under its basename. *)
Hit(e) == IF e.outside /\ e.hit.tag = "none" THEN e.basehit ELSE e.hit

-----------------------------------------------------------------------------
Names(i) ==
  {i.bl[n] : n \in DOMAIN i.bl} \cup {i.flashfs[n] : n \in DOMAIN i.flashfs}
    \cup {i.security[n] : n \in DOMAIN i.security} \cup {i.raw[n] : n \in DOMAIN i.raw}

(* Nothing of the INI is read yet. *)
Unread ==
  /\ phase = IF \A e \in Names(ini) : e.confined THEN "bl" ELSE "failed"
  /\ at = 1
  /\ counters = [p \in {Prefix(ini.bl[n].name) : n \in DOMAIN ini.bl} |-> 0]
  /\ slots = [s \in SlotNames |-> 0]
  /\ stored = <<>> /\ patches = <<>>

Init == (\E concern \in Inis : ini \in concern) /\ Unread

Entry == ini[phase][at]
Follows == [bl |-> "flashfs", flashfs |-> "security", security |-> "raw", raw |-> "done"]

EndSection ==
  /\ phase \in DOMAIN Follows /\ at > Len(ini[phase])
  /\ phase' = Follows[phase] /\ at' = 1
  /\ UNCHANGED <<ini, counters, slots, stored, patches>>

Fails ==
  /\ phase' = "failed" /\ UNCHANGED <<ini, at, counters, slots, stored, patches>>

(* A bootloader no source has fails the whole INI; one of a name that is not known is counted,   *)
(* looked up and then passed over.                                                               *)
Bootloader ==
  LET prefix == Prefix(Entry.name)
      slot == SlotOf(Entry.name, counters[prefix], slots, ini.jtag)
  IN  /\ phase = "bl" /\ at <= Len(ini.bl)
      /\ IF Entry.hit.tag # "found" THEN Fails
         ELSE /\ counters' = [counters EXCEPT ![prefix] = @ + 1]
              /\ slots' = IF slot = "none" THEN slots ELSE [slots EXCEPT ![slot] = at]
              /\ at' = at + 1
              /\ UNCHANGED <<ini, phase, stored, patches>>

(* process_payload_entry: a payload listed twice keeps its place and takes the better source. *)
OutranksOrTies(rank, other) == rank <= other
Outranks(rank, other) == rank < other

StoredAt(name) == {n \in DOMAIN stored : Key(stored[n].name) = Key(name)}

Payload ==
  LET hit == Hit(Entry)
      name == StoredName(Entry, ini.jtag)
      held == StoredAt(name)
      new == [name |-> name, rank |-> hit.rank, from |-> <<phase, at>>]
  IN  /\ phase \in {"flashfs", "security"} /\ at <= Len(ini[phase])
      /\ IF hit.tag = "escapes" THEN Fails
         ELSE /\ stored' = IF hit.tag = "none" THEN stored
                           ELSE IF held = {} THEN Append(stored, new)
                           ELSE [n \in DOMAIN stored |->
                                   IF n \in held /\ Outranks(hit.rank, stored[n].rank)
                                   THEN [new EXCEPT !.name = stored[n].name] ELSE stored[n]]
              /\ at' = at + 1
              /\ UNCHANGED <<ini, phase, counters, slots, patches>>

(* A raw patch no source has is skipped, one whose offset cannot be read fails the INI. *)
RawPatch ==
  /\ phase = "raw" /\ at <= Len(ini.raw)
  /\ IF ~Entry.offset \/ Hit(Entry).tag = "escapes" THEN Fails
     ELSE /\ patches' = IF Hit(Entry).tag = "none" THEN patches ELSE Append(patches, at)
          /\ at' = at + 1
          /\ UNCHANGED <<ini, phase, counters, slots, stored>>

Next == Bootloader \/ Payload \/ RawPatch \/ EndSection

Spec == Init /\ [][Next]_vars

-----------------------------------------------------------------------------
(* Of the bootloaders an INI lists, the chain holds each one of a name the reader knows, whatever *)
(* the order of chains and update pairs, and the second of a kind where its image has a second   *)
(* (an update pair, a JTAG image's CB and CD).  Only the second CD of an image of one chain      *)
(* takes the place of the first (the chain counters and slot choices of read_ini_files).         *)
SecondSlots == {<<"cb_or_a", "extra_cb">>, <<"cd", "extra_cd">>, <<"cf0", "cf1">>, <<"cg0", "cg1">>}
Replaced ==
  LET cds == {n \in DOMAIN ini.bl : ini.bl[n].name \in {"cd", "cd8453", "4bl"}}
  IN  {n \in cds : ~ini.jtag /\ \E m \in cds : n < m}

EveryStageKept ==
  phase = "done" =>
    /\ {slots[s] : s \in SlotNames} \ {0}
         = {n \in DOMAIN ini.bl : ini.bl[n].name \notin WithExtension} \ Replaced
    /\ \A pair \in SecondSlots :
         slots[pair[2]] # 0 => 0 < slots[pair[1]] /\ slots[pair[1]] < slots[pair[2]]

(* The payloads stored are those listed and found, each once whatever its case and alias, in   *)
(* the order first listed, [flashfs] before [security], under the name first listed and with   *)
(* the bytes of the best-ranked of its aliases (the first of equals).                           *)
Listed ==
  [n \in 1 .. (Len(ini.flashfs) + Len(ini.security)) |->
     IF n <= Len(ini.flashfs) THEN <<"flashfs", n>> ELSE <<"security", n - Len(ini.flashfs)>>]
PayloadOf(n) == ini[Listed[n][1]][Listed[n][2]]
Aliases(n) ==
  {m \in DOMAIN Listed : /\ Hit(PayloadOf(m)).tag = "found"
                         /\ Key(StoredName(PayloadOf(m), ini.jtag)) = Key(StoredName(PayloadOf(n), ini.jtag))}
First(ns) == CHOOSE n \in ns : \A m \in ns : n <= m
Best(ns) == First({n \in ns : \A m \in ns : Hit(PayloadOf(n)).rank <= Hit(PayloadOf(m)).rank})
Firsts == {n \in DOMAIN Listed : Hit(PayloadOf(n)).tag = "found" /\ First(Aliases(n)) = n}

PayloadsOnceFromBestSource ==
  phase = "done" =>
    /\ Len(stored) = Cardinality(Firsts)
    /\ \A n \in Firsts :
         LET place == Cardinality({m \in Firsts : m <= n})
         IN  /\ stored[place].name = StoredName(PayloadOf(n), ini.jtag)
             /\ stored[place].from = Listed[Best(Aliases(n))]
=============================================================================
