---------------------------- MODULE MCAssetLookup ----------------------------
(***************************************************************************)
(* Disks, packages and requests for checking AssetLookup with TLC.         *)
(***************************************************************************)
EXTENDS AssetLookup

CONSTANTS
  Listings,   \* how the directories of this run can be listed
  Policies,   \* the policies of this run
  Wide        \* every kind of request, or only plain ones

Names == {"x", "sec", "cf"}
MCSecurity == {"sec"}

Entries(x, sec) == [n \in {"x", "sec"} |-> IF n = "x" THEN x ELSE sec]
Old == [ok |-> TRUE, entries |-> Entries("x1", "s1"), upd |-> "v1", size |-> 1]
New == [ok |-> TRUE, entries |-> Entries("x2", "torn"), upd |-> "bad", size |-> 1]
Longer == [ok |-> TRUE, entries |-> [n \in {"x"} |-> "x3"], upd |-> "none", size |-> 2]
Broken == [ok |-> FALSE, entries |-> <<>>, upd |-> "none", size |-> 1]
MCContents == IF Wide THEN {New, Broken} ELSE {Old, New, Longer}

\* The first 4096 bytes of a package root its hash tables: they differ where the packages do.
InMemory(bytes) == [name |-> "mem", head |-> bytes, bytes |-> bytes]

\* What the first root may hold loose for "x": under that name, under it in another case.
Looses ==
  { <<"loose1", "other1">>, <<"none", "other1">>, <<"unreadable", "other1">>,
    <<"folder", "none">>, <<"outside", "none">>, <<"none", "outside">> }
LooseOf(l) == [n \in Names |-> IF n = "x" THEN [exact |-> l[1], other |-> l[2]]
                               ELSE [exact |-> "none", other |-> "none"]]

RootOf(state, l, listing, first) ==
  [state |-> state, loose |-> LooseOf(l), listing |-> listing, mtime |-> 1,
   files |-> [p \in Files |-> IF p \in first THEN File(Old, 1) ELSE NoFile]]

NoLoose == <<"none", "none">>
FirstRoots ==
  { RootOf("dir", NoLoose, listing, first) : listing \in Listings, first \in {{}, Files} }
    \cup (IF Wide THEN { RootOf("dir", l, "open", Files) : l \in Looses }
                         \cup { RootOf(state, NoLoose, "open", {}) : state \in {"missing", "faulty"} }
          ELSE {})

MCDisks ==
  { [r \in 1 .. Roots |-> IF r = 1 THEN root
                          ELSE RootOf("dir", <<"loose2", "none">>, "open", {})] : root \in FirstRoots }

Versions(name) == IF name = "cf" THEN {"any", "v2"} ELSE {"any"}
Plain(name, policy) ==
  [name |-> name, boot |-> name = "cf", version |-> "any", policy |-> policy,
   nosu |-> FALSE, nosecurity |-> TRUE, memory |-> <<>>]

MCRequests ==
  IF ~Wide THEN {Plain("x", policy) : policy \in Policies}
  ELSE UNION { {[Plain(name, policy) EXCEPT !.version = version] : version \in Versions(name)} :
                 name \in Names, policy \in Policies }
       \cup { [Plain("x", policy) EXCEPT !.nosu = nosu, !.memory = memory] :
                 policy \in Policies, nosu \in BOOLEAN,
                 memory \in { <<InMemory(Longer)>>, <<InMemory(Broken), InMemory(New)>> } }
       \cup {Plain("unsafe", "Lenient")}
=============================================================================
