-------------------------------- MODULE SkipList --------------------------------
(***************************************************************************)
(* codec/skiplist.cpp: one node per block of a posting list, and above     *)
(* them, when there are more than SkipInterval, one node per SkipInterval  *)
(* nodes.  Indices are 1-based here.                                       *)
(***************************************************************************)
EXTENDS Naturals, Sequences

CONSTANT SkipInterval     \* SkipList::SKIP_INTERVAL (128)

ASSUME SkipAssumption == SkipInterval \in Nat \ {0}

NotFound == 0       \* byte_offset = UINT64_MAX

GroupEnd(level0, g) == IF g * SkipInterval <= Len(level0) THEN g * SkipInterval
                       ELSE Len(level0)

\* A defect to detect: a group is known by the maximum of its first node.
BuildLevel1First(level0) ==
  IF Len(level0) <= SkipInterval THEN <<>>
  ELSE [g \in 1 .. (Len(level0) + SkipInterval - 1) \div SkipInterval |->
          [maxDoc |-> level0[(g - 1) * SkipInterval + 1].maxDoc]]

\* buildLevel1; its byte_offset and max_score are never read.
BuildLevel1(level0) ==
  IF Len(level0) <= SkipInterval THEN <<>>
  ELSE [g \in 1 .. (Len(level0) + SkipInterval - 1) \div SkipInterval |->
          [maxDoc |-> level0[GroupEnd(level0, g)].maxDoc]]

\* The first node from `from` on whose maximum reaches the target.
FirstReaching(level, from, target) ==
  LET reach == {i \in from .. Len(level) : level[i].maxDoc >= target}
  IN IF reach = {} THEN NotFound
     ELSE CHOOSE i \in reach : \A j \in reach : i <= j

\* find: the index of the block to load.
Find(level0, level1, target) ==
  IF level1 = <<>> THEN FirstReaching(level0, 1, target)
  ELSE LET g == FirstReaching(level1, 1, target)
       IN IF g = NotFound THEN NotFound
          ELSE FirstReaching(level0, (g - 1) * SkipInterval + 1, target)
=============================================================================
