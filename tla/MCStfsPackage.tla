--------------------------- MODULE MCStfsPackage ---------------------------
(***************************************************************************)
(* Packages of tables of two records: of one table, of one level, of a     *)
(* level filled exactly and of three levels; with every way of cutting     *)
(* them short and of changing one block.                                   *)
(***************************************************************************)
EXTENDS StfsPackage, TLC

End == MaxBlock

Dir(name, parent) == [NoEntry EXCEPT !.name = name, !.dir = TRUE, !.parent = parent]

Chained(name, parent, start, size) ==
  [NoEntry EXCEPT !.name = name, !.parent = parent, !.start = start, !.size = size,
                  !.alloc = Ceiling(size)]

Row(name, parent, start, size) ==
  [Chained(name, parent, start, size) EXCEPT !.consecutive = TRUE]

\* The file table's entries, two to a block.
InBlock(b, first, second) == 2 * b :> first @@ 2 * b + 1 :> second

Shaped(total, tableCount, next, listing) ==
  [total |-> total, tableStart |-> 0, tableCount |-> tableCount,
   next |-> [b \in 0 .. total - 1 |-> IF b \in DOMAIN next THEN next[b] ELSE End],
   listing |-> listing]

MCFold == [n \in {"d", "a", "A", "$flash_a", "b", ".", "..", "/", "bad", "noise"} |->
             IF n \in {"A", "$flash_a"} THEN "a" ELSE n]

MCShape ==
  [three_levels |-> Shaped(6, 2, 0 :> 3 @@ 1 :> 4,
     InBlock(0, Dir("d", Root), Chained("$flash_a", Root, 1, 3))
       @@ InBlock(3, Row("A", 0, 2, 2), Row("b", Root, 5, 1))),
   full_level |-> Shaped(4, 1, 1 :> 3 @@ 3 :> 2,
     InBlock(0, Chained("a", Root, 1, 5), Row("b", Root, 0, 0))),
   one_table |-> Shaped(2, 1, << >>, InBlock(0, Chained("a", Root, 1, 1), NoEntry)),
   twice     |-> Shaped(3, 1, << >>, InBlock(0, Row("a", Root, 1, 1), Row("a", Root, 2, 2))),
   escapes   |-> Shaped(2, 1, << >>, InBlock(0, Row("a", Root, 1, 1), Dir("..", Root))),
   rooted    |-> Shaped(2, 1, << >>, InBlock(0, Row("a", Root, 1, 1), Dir("/", Root))),
   in_itself |-> Shaped(2, 1, << >>, InBlock(0, Row("a", Root, 1, 1), Dir("d", 1))),
   itself    |-> Shaped(2, 1, << >>, InBlock(0, Row("a", Root, 1, 1), Dir(".", Root))),
   dot_in_dir |-> Shaped(2, 1, << >>, InBlock(0, Dir("d", Root), Dir(".", 0))),
   dot_is_file |-> Shaped(2, 1, << >>, InBlock(0, Dir("d", Root), Row(".", 0, 1, 1))),
   dot_in_file |-> Shaped(2, 1, << >>, InBlock(0, Row("a", Root, 1, 1), Row(".", 0, 1, 1))),
   half_table |-> Shaped(1, 1, << >>, InBlock(0, Dir("d", Root), NoEntry)),
   comes_back |-> Shaped(2, 1, << >>, InBlock(0, Dir("d", Root), Row("..", 0, 1, 1))),
   in_a_file |-> Shaped(2, 1, << >>, InBlock(0, Row("a", Root, 1, 1), Row("b", 0, 1, 1))),
   dir_over_file |-> Shaped(2, 1, << >>, InBlock(0, Row("a", Root, 1, 1), Dir("a", Root))),
   file_over_dir |-> Shaped(2, 1, << >>, InBlock(0, Dir("a", Root), Row("a", Root, 1, 1)))]

MCExcluding == {{}, {"a"}}

\* A package as published.
AsPublished(s) ==
  [shape |-> s, header |-> "good", length |-> FullLength(s), next |-> Shape[s].next,
   used |-> 0 .. Shape[s].total - 1, listing |-> Shape[s].listing, rot |-> {}]

Headers(s) ==
  {[AsPublished(s) EXCEPT !.header = h] :
     h \in {"unsigned", "short", "short_metadata", "header_size", "svod", "writable", "no_table"}}

CutShort(s) == {[AsPublished(s) EXCEPT !.length = n] : n \in HeaderBlocks * PerTable .. FullLength(s) - 1}

\* One record of a level-0 table changed: where a block goes on, or its status.
Relinked(s) ==
  {[AsPublished(s) EXCEPT !.next[b] = t, !.rot = {Level0Table(b)}] :
     b \in 0 .. Shape[s].total - 1, t \in (0 .. Shape[s].total + 1) \cup {End}}
    \cup {[AsPublished(s) EXCEPT !.used = @ \ {b}, !.rot = {Level0Table(b)}] :
            b \in 0 .. Shape[s].total - 1}

\* A link changed to where no table has a record of a block: to a record no
\* block uses, or past the package into bytes that follow it.  What is read
\* there has a status in use and goes on anywhere.
Strayed ==
  {[p EXCEPT !.next = 1 :> t @@ @, !.used = @ \cup {1}] :
     p \in Relinked("half_table"), t \in (0 .. 3) \cup {End}}
    \cup {[p EXCEPT !.next = Elsewhere :> t @@ @, !.used = @ \cup {Elsewhere},
                    !.length = @ + 3 * PerTable] :
            p \in Relinked("one_table"), t \in (0 .. 3) \cup {End}}

\* Any one block changed, its links left as they are.
Rotten(s) == {[AsPublished(s) EXCEPT !.rot = {p}] : p \in 0 .. Len(Image[s]) - 1}

\* One entry of the file table changed.
Relisted(s) ==
  UNION {LET entry == Shape[s].listing[u]
             rot   == {DataBlock(u \div PerTable)}
         IN  {[AsPublished(s) EXCEPT !.listing[u] = e, !.rot = rot] :
                e \in {NoEntry, [entry EXCEPT !.name = "bad"], [entry EXCEPT !.dir = ~@],
                       [entry EXCEPT !.name = "..", !.parent = Root]}
                      \cup {[entry EXCEPT !.parent = i] : i \in -1 .. 3}
                      \cup {[entry EXCEPT !.start = b, !.consecutive = c] :
                              b \in 0 .. Shape[s].total + 1, c \in BOOLEAN}
                      \cup {[entry EXCEPT !.size = n, !.alloc = a] :
                              n \in {0, 1, 4, 30}, a \in {1, 15}}
                      \cup {[entry EXCEPT !.start = End - 1, !.consecutive = TRUE,
                                          !.size = 4, !.alloc = 2]}}
         : u \in {v \in DOMAIN Shape[s].listing : Shape[s].listing[v] # NoEntry}}

MCPackage ==
  {AsPublished(s) : s \in DOMAIN Shape}
    \cup UNION {Headers(s) : s \in {"one_table"}} \cup Strayed
    \cup UNION {CutShort(s) \cup Relinked(s) \cup Rotten(s) \cup Relisted(s) :
                  s \in {"three_levels", "full_level", "one_table"}}

=============================================================================
