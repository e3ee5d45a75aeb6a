------------------------------ MODULE FuseRead ------------------------------
(* tegrabl_fuse_read: the value of a fuse, which need not be its register. *)

\* fuse_get_boot_security_info: the three low bits select a mode.
BootSecurityMode(raw) ==
    CASE 2 \notin raw /\ 1 \notin raw                -> {}
      [] 2 \notin raw /\ 1 \in raw /\ 0 \notin raw   -> {0}
      [] 2 \notin raw /\ 1 \in raw /\ 0 \in raw      -> {1}
      [] 2 \in raw /\ 1 \notin raw                   -> {0, 1}
      [] 2 \in raw /\ 1 \in raw /\ 0 \notin raw      -> {2}
      [] OTHER                                       -> {0, 2}

\* What tegrabl_fuse_read makes of the register of a fuse.
ReadAs(type, raw) ==
    IF type = "BOOT_SECURITY_INFO" THEN BootSecurityMode(raw) ELSE raw

===============================================================================
