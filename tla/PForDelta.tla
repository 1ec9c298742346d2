------------------------------- MODULE PForDelta -------------------------------
(***************************************************************************)
(* codec/pfor_delta.cpp: a posting list as compressed blocks.              *)
(*                                                                         *)
(* A block holds the differences of its doc ids in slots of b bits and the *)
(* differences that do not fit as patches.  A packed slot is the value of  *)
(* its low b bits: how bits are laid out in bytes is left out, but how     *)
(* many bytes a block takes is not, because the skip list counts them.     *)
(***************************************************************************)
EXTENDS Naturals, Sequences, FiniteSets, FiniteSetsExt

CONSTANTS
  BlockSize,     \* PForDelta::BLOCK_SIZE (128)
  CoverTenths,   \* tenths of the differences that fit a slot (9)
  Width          \* bits of a doc id (32)

ASSUME CodecAssumption ==
  /\ BlockSize \in Nat \ {0}
  /\ CoverTenths \in 1 .. 10
  /\ Width \in Nat \ {0}

HeaderBytes == 16    \* sizeof(BlockHeader)
PatchBytes  == 6     \* sizeof(PatchEntry)

BlockCount(ids) == (Len(ids) + BlockSize - 1) \div BlockSize

BlockDocs(ids, k) ==
  SubSeq(ids, (k - 1) * BlockSize + 1, Min({k * BlockSize, Len(ids)}))

Deltas(docs) ==
  [k \in DOMAIN docs |-> IF k = 1 THEN docs[1] ELSE docs[k] - docs[k - 1]]

MaxVal(b) == 2 ^ b - 1

Fits(deltas, b) == {k \in DOMAIN deltas : deltas[k] <= MaxVal(b)}

\* The smallest width that covers the wanted share.
ChooseBitWidth(deltas) ==
  Min({b \in 1 .. Width : \/ b = Width
                          \/ Cardinality(Fits(deltas, b))
                               >= (Len(deltas) * CoverTenths + 9) \div 10})

\* packBits keeps the low b bits of each value.
PackBits(values, b) == [k \in DOMAIN values |-> values[k] % 2 ^ b]

\* A defect to detect: the patches are left out.
EncodeNoPatch(docs) ==
  LET deltas == Deltas(docs)
      b      == ChooseBitWidth(deltas)
  IN [b      |-> b,
      size   |-> Len(docs),
      maxDoc |-> docs[Len(docs)],
      slots  |-> PackBits(deltas, b),
      patch  |-> [k \in {} |-> 0]]

\* Steps 1 to 7 of compress for one block.
Encode(docs) ==
  LET deltas == Deltas(docs)
      b      == ChooseBitWidth(deltas)
      fits   == Fits(deltas, b)
  IN [b      |-> b,
      size   |-> Len(docs),
      maxDoc |-> docs[Len(docs)],
      slots  |-> PackBits([k \in DOMAIN docs |-> IF k \in fits THEN deltas[k] ELSE 0], b),
      patch  |-> [k \in DOMAIN docs \ fits |-> deltas[k]]]

BlockBytes(block) ==
  HeaderBytes + (block.size * block.b + 7) \div 8
    + PatchBytes * Cardinality(DOMAIN block.patch)

\* decompressBlock: patches over slots, then prefix sums.
Decode(block) ==
  LET delta(k) == IF k \in DOMAIN block.patch THEN block.patch[k] ELSE block.slots[k]
      doc[k \in 1 .. block.size] == IF k = 1 THEN delta(1) ELSE doc[k - 1] + delta(k)
  IN doc
=============================================================================
