------------------------------ MODULE BctUpdate ------------------------------
(***************************************************************************)
(* The copies of a boot configuration table on storage:                    *)
(* tegrabl_brbct_write_multiple and tegrabl_mb1bct_write_multiple.         *)
(*                                                                         *)
(* An update overwrites the copies in place, one after the other, and      *)
(* stops at the first write that fails.  Power may be lost during any of   *)
(* the writes, whose units reach the storage in any order.  The next boot  *)
(* searches the places a table may be at and takes the first whole one.    *)
(* Sizes and offsets are in units of storage, the partition has just been  *)
(* opened when an update begins, and the geometry stays the same.          *)
(***************************************************************************)
EXTENDS Integers, Sequences, FiniteSetsExt

CONSTANTS
    Geometries,         \* partitions with the table they are for
    BR_BCT_MAX_COPIES,
    MaxUpdates          \* bound on the updates of a behaviour

Tables == { "brbct", "mb1bct" }

\* part: size of the partition; block, page: of the boot ROM, a page of the
\* mb1bct being its slot; bct: size of the table; chunk: size of a write;
\* sector: block size of the device.
Geometry == [table : Tables, part : Nat \ {0}, block : Nat \ {0}, page : Nat \ {0},
             bct : Nat \ {0}, chunk : Nat \ {0}, sector : Nat \ {0}]

DIV_CEIL(a, b) == (a + b - 1) \div b
ROUND_UP(a, b) == DIV_CEIL(a, b) * b

\* "the smallest integral number of pages that can hold a BCT"
SlotSize(g) == IF g.table = "brbct" THEN DIV_CEIL(g.bct, g.page) * g.page ELSE g.page

NumBlocks(g) == g.part \div g.block

\* Where tegrabl_brbct_write_multiple writes: block 0 slot 0, the next slot, and
\* slot 0 of the other blocks while there are copies to write.
BrbctOffsets(g) ==
    << 0, ROUND_UP(SlotSize(g), g.sector) >> \o
    [i \in 1 .. Min({NumBlocks(g), BR_BCT_MAX_COPIES - 1}) - 1 |->
        i * ROUND_UP(g.block, g.sector)]

\* As many slots as the partition holds, each aligned to the device's blocks.
Mb1bctOffsets(g) ==
    [i \in 1 .. g.part \div g.page |-> (i - 1) * ROUND_UP(g.page, g.sector)]

Offsets(g) == IF g.table = "brbct" THEN BrbctOffsets(g) ELSE Mb1bctOffsets(g)

\* The search of the boot ROM: two slots of block 0, every slot of the others.
\* That of the mb1bct: its slots in order.
Places(g) ==
    LET slots == g.block \div SlotSize(g)
    IN  IF g.table = "brbct"
        THEN << 0, SlotSize(g) >> \o
             [k \in 1 .. (NumBlocks(g) - 1) * slots |->
                 (1 + (k - 1) \div slots) * g.block + ((k - 1) % slots) * SlotSize(g)]
        ELSE [i \in 1 .. g.part \div ROUND_UP(g.page, g.sector) |->
                 (i - 1) * ROUND_UP(g.page, g.sector)]

\* Of two powers of two, as the sizes of blocks are, one is a multiple of twice
\* the other when they differ.
Doubles(a, b) == a = b \/ a % (2 * b) = 0 \/ b % (2 * a) = 0

\* A partition is made of whole blocks of the device.
ASSUME GeometryAssumption ==
    /\ Geometries \subseteq Geometry
    /\ \A g \in Geometries :
          /\ g.bct <= g.chunk /\ g.chunk <= SlotSize(g)
          /\ g.part % g.sector = 0
          /\ g.table = "brbct" => /\ 2 * SlotSize(g) <= g.block /\ g.block <= g.part
                                  /\ Doubles(g.block, g.sector)
          /\ g.table = "mb1bct" => g.page <= g.part
    /\ BR_BCT_MAX_COPIES \in Nat \ {0, 1} /\ MaxUpdates \in Nat

VARIABLES
    geo,        \* the partition of this behaviour
    store,      \* what it holds: <<version, part of the table>> in every unit
    version,    \* the newest version an update was called for
    copy,       \* the copy being written, 0 outside an update
    left,       \* the units of its write still to reach the storage
    result,     \* what the last update returned
    reported,   \* history: the newest version reported as written
    stopped     \* history: updates begun since then

vars == << geo, store, version, copy, left, result, reported, stopped >>

Units(n) == 0 .. n - 1
Blank == << 0, 0 >>
Fits(offset) == offset + geo.chunk <= geo.part

Holds(offset, v) ==
    offset + geo.bct <= geo.part /\ \A k \in Units(geo.bct) : store[offset + k] = << v, k >>
Whole(offset) == \E v \in 1 .. version : Holds(offset, v)

\* The version the next boot finds, or 0.
Found ==
    LET places == {i \in DOMAIN Places(geo) : Whole(Places(geo)[i])}
    IN  IF places = {} THEN 0
        ELSE CHOOSE v \in 1 .. version : Holds(Places(geo)[Min(places)], v)

\* The places that a copy is written to and looked for at.
Elements(seq) == {seq[i] : i \in DOMAIN seq}
Copies == {o \in Elements(Offsets(geo)) \cap Elements(Places(geo)) : Fits(o)}

---------------------------------------------------------------------------
\* The device was flashed with a whole table at every one of them.
Init ==
    /\ geo \in Geometries
    /\ version = 1 /\ reported = 1 /\ stopped = 0
    /\ store = [u \in Units(geo.part) |->
                   IF \E o \in Copies : u \in o .. o + geo.bct - 1
                   THEN << 1, u - Max({o \in Copies : o <= u}) >> ELSE Blank]
    /\ copy = 0 /\ left = {} /\ result = "none"

\* A call, for a table newer than the last.
Update ==
    /\ copy = 0 /\ version <= MaxUpdates
    /\ version' = version + 1 /\ stopped' = stopped + 1
    /\ copy' = 1 /\ left' = Units(geo.chunk) /\ result' = "none"
    /\ UNCHANGED << geo, store, reported >>

Target == Offsets(geo)[copy]

\* Some unit of the write under way reaches the storage.
WriteUnit ==
    /\ copy # 0 /\ Fits(Target)
    /\ \E k \in left :
          /\ store' = [store EXCEPT ![Target + k] = << version, k >>]
          /\ left' = left \ {k}
    /\ UNCHANGED << geo, version, copy, result, reported, stopped >>

NextCopy ==
    /\ copy \in 1 .. Len(Offsets(geo)) - 1 /\ left = {}
    /\ copy' = copy + 1 /\ left' = Units(geo.chunk)
    /\ UNCHANGED << geo, store, version, result, reported, stopped >>

\* Mutants of Finish: the last copy is left out; one copy is enough.
FinishBut(n) ==
    /\ copy # 0 /\ copy >= Len(Offsets(geo)) - n /\ left = {}
    /\ copy' = 0 /\ result' = "ok"
    /\ reported' = version /\ stopped' = 0
    /\ UNCHANGED << geo, store, version, left >>
FinishButLast == FinishBut(1)
FinishWithFirst == FinishBut(Len(Offsets(geo)))

Finish ==
    /\ copy = Len(Offsets(geo)) /\ left = {}
    /\ copy' = 0 /\ result' = "ok"
    /\ reported' = version /\ stopped' = 0
    /\ UNCHANGED << geo, store, version, left >>

\* Mutant of Fail: the copy is given up and the next is written.
FailGoesOn ==
    /\ copy \in 1 .. Len(Offsets(geo)) - 1 /\ left # {}
    /\ copy' = copy + 1 /\ left' = Units(geo.chunk)
    /\ UNCHANGED << geo, store, version, result, reported, stopped >>

\* A seek or a write is refused, at the end of the partition always, or fails
\* with any part of it done: the copies after it are not written.
Fail ==
    /\ copy # 0 /\ left # {}
    /\ copy' = 0 /\ left' = {} /\ result' = "failed"
    /\ UNCHANGED << geo, store, version, reported, stopped >>

\* Power is lost; the device boots from what is found.
PowerLoss ==
    /\ copy # 0
    /\ copy' = 0 /\ left' = {} /\ result' = "none"
    /\ UNCHANGED << geo, store, version, reported, stopped >>

Next == Update \/ WriteUnit \/ NextCopy \/ Finish \/ Fail \/ PowerLoss

Spec == Init /\ [][Next]_vars

---------------------------------------------------------------------------
(* Properties.                                                             *)

TypeOK ==
    /\ geo \in Geometries
    /\ store \in [Units(geo.part) -> (0 .. version) \X Units(geo.chunk)]
    /\ version \in 1 .. MaxUpdates + 1 /\ reported \in 1 .. version
    /\ copy \in 0 .. Len(Offsets(geo)) /\ left \subseteq Units(geo.chunk)
    /\ result \in {"none", "ok", "failed"}
    /\ stopped \in 0 .. MaxUpdates

\* The device boots, whatever part of a write a power loss leaves, until as many
\* updates in a row have been stopped as there are copies: an update stops at the
\* first copy it cannot write, and each has spoilt one at most.
Bootable == TypeOK /\ (stopped < Cardinality(Copies) => Found # 0)

\* An update that reports success has written every copy, and the next boot finds
\* the new table.
SuccessMeansFound ==
    result = "ok" =>
        /\ Found = version
        /\ \A i \in DOMAIN Offsets(geo) : Holds(Offsets(geo)[i], version)

\* However later updates are stopped, no boot finds a table older than one whose
\* update reported success.
NeverOlderThanReported == Found # 0 => Found >= reported

===============================================================================
