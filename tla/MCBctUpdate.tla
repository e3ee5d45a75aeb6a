---------------------------- MODULE MCBctUpdate ----------------------------
(* Instances of BctUpdate: partitions of one to four blocks, tables that   *)
(* fill their slot and that do not, devices with blocks larger than a slot. *)
EXTENDS BctUpdate

Br(part, block, page, bct, chunk, sector) ==
    [table |-> "brbct", part |-> part, block |-> block, page |-> page, bct |-> bct,
     chunk |-> chunk, sector |-> sector]

Mb1(part, slot, bct, chunk, sector) ==
    [table |-> "mb1bct", part |-> part, block |-> 1, page |-> slot, bct |-> bct,
     chunk |-> chunk, sector |-> sector]

OneBlock == Br(4, 4, 1, 2, 2, 1)
TwoBlocks == Br(8, 4, 2, 1, 2, 1)
FourBlocks == Br(16, 4, 1, 2, 2, 2)
LargeSector == Br(8, 4, 1, 2, 2, 4)
UnalignedSlot == Br(16, 8, 1, 3, 3, 2)      \* its second copy is where nobody looks

MCGeometries ==
    { OneBlock, TwoBlocks, FourBlocks, LargeSector, UnalignedSlot,
      Mb1(6, 2, 2, 2, 1), Mb1(5, 2, 1, 2, 1), Mb1(8, 2, 2, 2, 4) }
===============================================================================
