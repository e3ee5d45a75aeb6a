---------------------------- MODULE MCAuthStream ----------------------------
(* AuthStream on a small instance.                                         *)
EXTENDS AuthStream

Binary(type, nvidia, length, damage, old) ==
    [type |-> type, nvidia |-> nvidia, length |-> length, damage |-> damage, old |-> old]
MCBinaries ==
    {Binary("KERNEL", FALSE, 2, 0, FALSE), Binary("KERNEL", FALSE, 4, 0, FALSE),
     Binary("KERNEL", FALSE, 4, 4, FALSE), Binary("KERNEL", FALSE, 1, 0, FALSE),
     Binary("KERNEL", FALSE, 6, 0, FALSE), Binary("KERNEL", FALSE, 3, 0, TRUE), Binary("KERNEL", FALSE, 3, 0, FALSE),
     Binary("MTS_PREBOOT", TRUE, 2, 0, FALSE), Binary("MTS_PREBOOT", TRUE, 4, 0, FALSE),
     Binary("MTS_PREBOOT", FALSE, 3, 0, FALSE)}
Table(type, present, good) == [type |-> type, present |-> present, good |-> good]
MCTables ==
    {Table(type, TRUE, good) : type \in {"SC7_RESUME_FW", "BR_BCT", "RPB", "CMACHASH"},
                               good \in BOOLEAN}
        \cup {Table("SC7_RESUME_FW", FALSE, TRUE), Table("CIPHER", TRUE, TRUE),
              Table("other", TRUE, TRUE)}
MCBuilds == {{}, {"L4T"}, {"ECDSA", "ROLLBACK"}}
MCMemory == 0 .. 29
=============================================================================
