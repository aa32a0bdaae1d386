----------------------------- MODULE MCDataArea -----------------------------
(***************************************************************************)
(* Small NANDs for TLC.                                                    *)
(***************************************************************************)
EXTENDS DataArea

\* small, bad: each kind has its own block, so one kind is enough.
OneKind   == <<"x31">>
OneSupply == {[k \in {"x31"} |-> c] : c \in {"absent", "b"}}

SmallContent == {"a", "b"}
SmallPages   == [c \in SmallContent |-> IF c = "a" THEN 1 ELSE 2]

\* big: two kinds packed into one block of two slots of two pages; a takes a
\* page of a slot and b a slot and a half.
TwoKinds   == <<"x31", "x32">>
BigContent == {"a", "b"}
BigPages   == [c \in BigContent |-> IF c = "a" THEN 1 ELSE 3]
TwoSupply  ==
  {[k \in {"x31", "x32"} |-> "absent"],
   [k \in {"x31", "x32"} |-> "a"],
   [k \in {"x31", "x32"} |-> IF k = "x31" THEN "b" ELSE "a"]}

=============================================================================
