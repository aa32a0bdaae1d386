----------------------------- MODULE StfsLayout -----------------------------
(***************************************************************************)
(* Where the blocks of a read-only STFS package lie.  Logical blocks hold  *)
(* the files; hash tables of three levels lie between them, each covering  *)
(* PerTable blocks of the level below.  Positions count 4 KiB blocks from  *)
(* the end of the header.                                                  *)
(*                                                                         *)
(* The source writes the numbers out for PerTable = 0xAA; they are         *)
(* kDataBlocksPerHashLevel = {PerTable, PerTable^2, PerTable^3},           *)
(* kStfsBlockStep0 = 0xAB and kStfsBlockStep1 = 0x718F.  Block numbers     *)
(* have 24 bits, so the 32-bit sums do not overflow.                       *)
(***************************************************************************)
EXTENDS Integers

CONSTANT PerTable

ASSUME PerTableAssumption == PerTable \in Nat /\ PerTable > 1

PerLevel0 == PerTable
PerLevel1 == PerTable * PerTable
PerLevel2 == PerTable * PerTable * PerTable

\* Positions from one level-0 group, and one level-1 group, to the next.
Step0 == PerLevel0 + 1
Step1 == PerLevel1 + PerLevel0 + 1

Level == {0, 1, 2}

\* Mutant: the level-1 tables before a block are forgotten.
DataBlockWithoutLevel1(block) ==
  block + (block + PerLevel0) \div PerLevel0

\* compute_data_block_number: a block is moved up by the tables before it.
DataBlock(block) ==
  LET level0 == (block + PerLevel0) \div PerLevel0
      level1 == (block + PerLevel1) \div PerLevel1
      level2 == (block + PerLevel2) \div PerLevel2
  IN  IF block < PerLevel0 THEN block + level0
      ELSE IF block < PerLevel1 THEN block + level0 + level1
      ELSE block + level0 + level1 + level2

\* compute_level_n_hash_block_number, by level.
Level0Table(block) ==
  LET group == block \div PerLevel0
      super == block \div PerLevel1
  IN  IF group = 0 THEN 0
      ELSE IF super = 0 THEN group * Step0 + 1
      ELSE group * Step0 + super + 2

Level1Table(block) ==
  LET super == block \div PerLevel1
  IN  IF super = 0 THEN Step0 ELSE super * Step1 + 1

Level2Table == Step1

HashTable(block, level) ==
  CASE level = 0 -> Level0Table(block)
    [] level = 1 -> Level1Table(block)
    [] level = 2 -> Level2Table

\* The record of block in its table of a level (hash_entry_offset).
Record(block, level) ==
  LET group == CASE level = 0 -> block
                 [] level = 1 -> block \div PerLevel0
                 [] level = 2 -> block \div PerLevel1
  IN  group % PerLevel0

\* Mutant: a package that fills its last table exactly gets another level.
TopLevelOneTooMany(total) ==
  IF total >= PerLevel1 THEN 2 ELSE IF total >= PerLevel0 THEN 1 ELSE 0

\* The highest table level a package of total blocks needs.
TopLevel(total) ==
  IF total > PerLevel1 THEN 2 ELSE IF total > PerLevel0 THEN 1 ELSE 0

=============================================================================
