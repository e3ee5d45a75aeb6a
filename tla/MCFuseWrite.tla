----------------------------- MODULE MCFuseWrite -----------------------------
(* Instances of FuseWrite over the layout of the source. *)
EXTENDS FuseWrite

Layout == INSTANCE FuseLayout

MCRows == [t \in Types |-> Layout!BurnRows(t)]
MCRead == [t \in Types |-> Layout!ReadRegs(t)]

\* One fuse of each shape: two rows and two redundant ones, one of each, two
\* words over four rows, and a fuse the switch does not know.
ShapeTypes == {"RESERVED_ODM0", "SECURITY_MODE", "ODMID", "TID"}

AllTypes == Layout!FuseTypes

\* Every value of the two bits for a fuse of one word; words that are blank or
\* full, in every combination, for a longer one.
MCRequests ==
    [t \in Types |->
        [DOMAIN MCRead[t] -> IF Len(MCRead[t]) > 1 THEN {{}, Bits} ELSE SUBSET Bits]]

\* For the whole table: a word of either half in one word of the fuse.
OneWordRequests ==
    [t \in Types |->
        {[w \in DOMAIN MCRead[t] |-> IF w = v THEN bits ELSE {}] :
            v \in DOMAIN MCRead[t], bits \in {{0}, {0, 3}}}
        \cup {[w \in DOMAIN MCRead[t] |-> {0}]}]

===============================================================================
