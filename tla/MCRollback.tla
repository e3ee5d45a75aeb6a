----------------------------- MODULE MCRollback -----------------------------
(* Instances of Rollback: images of every level a fuse can count, with the *)
(* index of a reserved ODM fuse; one with the index of another fuse, one   *)
(* whose index names no word at all, one with rollback prevention off and  *)
(* one with data of an older version.                                      *)
EXTENDS Rollback

Data(version, enabled, level, idx, limit) ==
    [version |-> version, enabled |-> enabled, level |-> level, fuseIdx |-> idx,
     limits |-> [t \in Limited |-> limit]]

BOOT_DEVICE_SELECT == 2     \* the readable fuse beyond the reserved ODM ones
BOOT_DEVICE_INFO == 3       \* one without a size

Leveled == {Data(3, TRUE, level, 0, IF level > 1 THEN 1 ELSE 0) : level \in 0 .. FuseBits}

MCImages ==
    Leveled \cup
    { Data(3, TRUE, 1, BOOT_DEVICE_SELECT, 1),
      Data(3, TRUE, 1, BOOT_DEVICE_INFO, 1),
      Data(3, FALSE, 2, 0, 1),
      Data(2, TRUE, 1, 0, 0) }

MCReadable == 0 .. BOOT_DEVICE_SELECT

===============================================================================
