----------------------------- MODULE MCFlashDisk -----------------------------
(***************************************************************************)
(* Small NANDs for TLC.                                                    *)
(***************************************************************************)
EXTENDS FlashDisk

\* Big blocks of two clusters, of which the table describes all but the first
\* block's; two files of one cluster or two; clusters withheld next to the root
\* and far from it, and a block reserved in which the root may go.
DiskName     == {"foo", "bar"}
DiskFold     == [n \in DiskName |-> n]
DiskContent  == {"one", "over", "mixed"}
DiskFresh    == {"one", "over"}
DiskLength   == [d \in DiskContent |-> IF d = "over" THEN 3 ELSE 2]
DiskUsable   == {1, 2}
DiskBoundary == {1}
DiskCursor   == {1}
DiskWithhold == {<<3, 1, Unnamed>>, <<4, 2, Free>>}
DiskReserve  == {<<2, 1>>}
NoChoice     == {}

=============================================================================
