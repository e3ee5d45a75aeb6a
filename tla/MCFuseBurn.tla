----------------------------- MODULE MCFuseBurn -----------------------------
(* Instances of FuseBurn: a key and an ODM word in the region that H2      *)
(* covers, two fuses outside it, the boot security fuse one of them, and   *)
(* blobs with the security mode in every position, some of which name H2,  *)
(* one fuse twice, or a boot security mode (the values 1, 2 and 3).        *)
EXTENDS FuseBurn

Key == "PKC_PUBKEY_HASH"
Odm == "RESERVED_ODM0"
Sku == "SKU_INFO"
Bsi == "BOOT_SECURITY_INFO"

MCFuses == {Key, Odm, Sku, Bsi, "SECURITY_MODE", "H2", "PRODUCTION_MODE"}
MCEccRegion == {Key, Odm}

\* The pattern of a cell is its position, counted from 0x800.
MCPattern ==
    [c \in MCEccRegion \X Bits |->
        {11} \cup (IF c[2] = 0 THEN {} ELSE {0}) \cup (IF c[1] = Key THEN {} ELSE {1})]

Node(f, v) == [fuse |-> f, value |-> v]
Lock == Node("SECURITY_MODE", {0})

MCBlobs ==
    { << Node(Key, {0}), Node(Bsi, {1}) >>,
      << Node(Bsi, {0}), Lock, Node(Bsi, {0}) >>,
      << Node(Bsi, {0, 1}) >>,
      << Lock, Node(Key, {0, 1}) >>,
      << Node(Odm, {1}), Lock, Node(Sku, {0}), Node(Sku, {0, 1}) >>,
      << Node(Key, {1}), Node(Odm, {}), Lock >>,
      << Node("H2", {0}), Node("SECURITY_MODE", {}), Node(Sku, {0}), Lock >> }
===============================================================================
