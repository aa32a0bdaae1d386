------------------------------ MODULE MCFlashFS ------------------------------
(***************************************************************************)
(* Small instances of the flash filesystem for TLC.                        *)
(***************************************************************************)
EXTENDS FlashFS

\* Two names of one file, two others; and one too long to lay.
MCFold(names) == [n \in names |-> IF n = "Foo" THEN "foo" ELSE n]

\* An empty file, one that fills a cluster, one a byte over it.
MCLength(contents) == [d \in contents |-> CASE d = "empty" -> 0
                                             [] d = "one" -> 2
                                             [] d = "over" -> 3]

\* files: many files and sizes, the root deferred, nothing kept apart.
FilesName     == {"Foo", "foo", "bar", "baz"}
FilesFold     == MCFold(FilesName)
FilesContent  == {"one", "over"}
FilesLength   == MCLength(FilesContent)

\* space: big blocks of two clusters, the root moving, clusters reserved and
\* withheld, the second one of a root's block too, a directory of one entry.
SpaceName     == {"foo", "bar", "long"}
SpaceFold     == MCFold(SpaceName)
SpaceLayable  == SpaceName \ {"long"}
SpaceContent  == {"empty", "over"}
SpaceLength   == MCLength(SpaceContent)
SpaceRoot     == {0, 2, 4, 9}
SpaceBoundary == {0, 2}
SpaceReserve  == {<<1, 1>>, <<3, 2>>, <<3, 0>>}
SpaceWithhold == {<<2, 1, Unnamed>>, <<5, 1, Unnamed>>, <<4, 2, Free>>, <<3, 9, Free>>}

NoChoice == {}
OneBoundary == {1}

=============================================================================
