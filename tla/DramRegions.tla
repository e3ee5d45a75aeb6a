----------------------------- MODULE DramRegions -----------------------------
(***************************************************************************)
(* Where the boot loader may put what it loads (linuxboot_helper.c).       *)
(*                                                                         *)
(* The first call computes the free regions of the memory: what lies       *)
(* between the carveouts that stay, cut at the bad pages.  Then images are *)
(* given addresses in these regions, tracked in a list of allocations, and *)
(* the top of the memory that U-Boot can address is reserved for it.       *)
(* Addresses and sizes count pages; the address 0 is NULL.                 *)
(***************************************************************************)
EXTENDS Integers, SequencesExt, FiniteSetsExt

CONSTANTS
    Maps,       \* [carveouts, badPages, calls]: carveouts is a sequence of
                \* [base, size, kept], badPages a set, calls bounds the calls
    SDRAM_START, SDRAM_END,
    U_BOOT_TOP,
    WORD,       \* 2^64 bytes
    HEADERS,    \* HEADERS_TOTAL_SIZE
    MEM_SZ_2MB,
    Loads,      \* [size, align]: NCT, kernel, device tree, ramdisk
    PartitionSizes, ImageSizes, \* of the boot image; 0 if it has no header
    TopSizes    \* what U-Boot asks for at the top

ASSUME DramAssumption ==
    /\ {SDRAM_START, SDRAM_END, U_BOOT_TOP, WORD, HEADERS, MEM_SZ_2MB} \subseteq Nat \ {0}
    /\ SDRAM_START < U_BOOT_TOP /\ U_BOOT_TOP < WORD /\ SDRAM_END < WORD

VARIABLES
    map,
    regions,    \* free_dram_block, of which there are free_dram_block_count
    list,       \* dram_alloc_base and what is linked to it
    held,       \* ghost: what the callers hold, in the order they got it
    calculated, \* p_carveout # NULL
    leaked,     \* ghost: areas nobody knows of any more
    handedOver, \* the list has been freed before the kernel starts
    calls
vars == << map, regions, list, held, calculated, leaked, handedOver, calls >>

Block(base, size) == [base |-> base, size |-> size]
End(block) == (block.base + block.size) % WORD
Within(a, block) == block.base <= a /\ a < End(block)

---------------------------------------------------------------------------
(* The free regions.                                                       *)

\* The permanent carveouts in the memory, by their base.
KeptCarveouts ==
    LET kept == {i \in DOMAIN map.carveouts :
                    /\ map.carveouts[i].base >= SDRAM_START /\ map.carveouts[i].size # 0
                    /\ map.carveouts[i].kept}
        Before(i, j) == \/ map.carveouts[i].base < map.carveouts[j].base
                        \/ map.carveouts[i].base = map.carveouts[j].base /\ i < j
        order == SetToSortSeq(kept, Before)
    IN  [k \in DOMAIN order |-> map.carveouts[order[k]]]

\* free_block: what lies between the end of one and the base of the next.
FreeBlocks ==
    LET n     == Len(KeptCarveouts)
        Start(k) == IF k = 1 THEN SDRAM_START ELSE End(KeptCarveouts[k - 1])
        Stop(k)  == IF k = n + 1 THEN SDRAM_END ELSE KeptCarveouts[k].base
        gaps     == [k \in 1 .. n + 1 |-> Block(Start(k), Stop(k) - Start(k))]
    IN  SelectSeq(gaps, LAMBDA gap : gap.size > 0)

\* A bad page is compared with the first and the last page of a block, and
\* with what lies between.
Hit(block, page) ==
    \/ page = block.base
    \/ page = (End(block) - 1) % WORD
    \/ page > block.base /\ page < End(block)

\* Mutant of Cut: the second half begins with the bad page.
CutAtPage(block, page) ==
    CASE page = block.base -> << Block(page + 1, (block.size - 1) % WORD) >>
      [] page # block.base /\ page = (End(block) - 1) % WORD -> << Block(block.base, block.size - 1) >>
      [] OTHER -> << Block(block.base, page - block.base), Block(page, End(block) - page) >>

Cut(block, page) ==
    CASE page = block.base -> << Block(page + 1, (block.size - 1) % WORD) >>
      [] page # block.base /\ page = (End(block) - 1) % WORD -> << Block(block.base, block.size - 1) >>
      [] OTHER -> << Block(block.base, page - block.base), Block(page + 1, End(block) - page - 1) >>

\* The body of the loop over the bad pages.  `chunk' is the block that is cut,
\* `out' the regions so far, the last of them the rest of that block if `open'.
\* A page that hits no block leaves no block to cut for those after it.
CutOut(blocks, at, page) ==
    LET Rest(j) == IF j = at.chunk /\ at.open THEN Last(at.out) ELSE blocks[j]
        done    == IF at.open THEN Front(at.out) ELSE at.out
        hits    == {j \in at.chunk .. Len(blocks) : Hit(Rest(j), page)}
        next    == IF hits = {} THEN Len(blocks) + 1 ELSE Min(hits)
        passed  == [k \in 1 .. next - at.chunk |-> Rest(at.chunk + k - 1)]
    IN  [chunk |-> next, open |-> hits # {},
         out   |-> done \o passed \o (IF hits = {} THEN << >> ELSE Cut(Rest(next), page))]

\* update_bad_page.  If the last bad page has hit no block, an entry is counted
\* that was never written.
UpdateBadPage(blocks) ==
    LET pages == SetToSortSeq(map.badPages, <)
        end   == FoldLeft(LAMBDA at, page : CutOut(blocks, at, page),
                          [chunk |-> 1, open |-> FALSE, out |-> << >>], pages)
    IN  IF pages = << >> THEN blocks
        ELSE end.out \o (IF end.open THEN SubSeq(blocks, end.chunk + 1, Len(blocks))
                         ELSE << Block(0, 0) >>)

---------------------------------------------------------------------------
(* The list of allocations.  An entry that is `freed' is back in the heap     *)
(* although the list links it.                                             *)

Area(start, size) == [start |-> start, size |-> size, freed |-> FALSE]

\* Areas that touch count as overlapping.
Overlaps(area, addr, size) ==
    area.start <= addr + size /\ addr <= area.start + area.size

\* Mutant of IsDramAddressFree: the next page is taken to be free.
IsDramAddressFreeOnce(areas, addr, size) ==
    LET hits == {k \in DOMAIN areas : Overlaps(areas[k], addr, size)}
    IN  IF hits = {} THEN [free |-> TRUE, addr |-> addr]
        ELSE [free |-> FALSE, addr |-> areas[Min(hits)].start + areas[Min(hits)].size + 1]

\* is_dram_address_free, and the address it suggests: the page after the last
\* area in its way.
IsDramAddressFree(areas, addr, size) ==
    FoldLeft(LAMBDA at, area :
                IF Overlaps(area, at.addr, size)
                THEN [free |-> FALSE, addr |-> area.start + area.size + 1] ELSE at,
             [free |-> TRUE, addr |-> addr], areas)

\* alloc_dram_free_region: after the first entry that is not below the address,
\* or at the end.
Inserted(areas, addr, size) ==
    LET above == {k \in DOMAIN areas : addr <= areas[k].start + areas[k].size}
    IN  IF areas = << >> THEN << Area(addr, size) >>
        ELSE InsertAt(areas, 1 + (IF above = {} THEN Len(areas) ELSE Min(above)), Area(addr, size))

\* tegrabl_dealloc_dram_address.  For the first entry, which is static, the second
\* is copied over it and its link too before that link is freed: what goes back to
\* the heap is the third, which stays linked, and the second is lost to the heap.
Removed(areas, addr) ==
    LET found == {k \in DOMAIN areas : areas[k].start = addr}
        rest  == RemoveAt(areas, Min(found))
    IN  CASE found = {} -> areas
          [] found # {} /\ Min(found) = 1 /\ Len(rest) > 1 -> [rest EXCEPT ![2].freed = TRUE]
          [] OTHER -> rest

\* tegrabl_get_free_dram_address: the address, which is 0 if no region has
\* room, and the list then.
GetFreeDramAddress(areas, size) ==
    LET Place(k) == IsDramAddressFree(areas, regions[k].base, size)
        room == {k \in DOMAIN regions :
                    /\ regions[k].size >= size
                    /\ Place(k).free \/ Place(k).addr + size < End(regions[k])}
        addr == Place(Min(room)).addr
    IN  IF room = {} THEN [addr |-> 0, list |-> areas]
        ELSE [addr |-> addr, list |-> Inserted(areas, addr, size)]

MEM_ALIGN(x, y) == ((x + y - 1) \div y) * y
LoadAddressIsValid(x, size) == x > SDRAM_START /\ x + size <= U_BOOT_TOP

---------------------------------------------------------------------------
(* Calls.                                                                  *)

\* An entry given back may be anything once its memory is taken again: the model
\* ends with the call that freed a linked one.
Intact == \A k \in DOMAIN list : ~list[k].freed
Called == ~handedOver /\ Intact /\ calls < map.calls /\ calls' = calls + 1

Holding(who, at, room, start) == [who |-> who, at |-> at, room |-> room, start |-> start]

\* calculate_free_dram_regions, which computes once.
CalculateFreeDramRegions ==
    /\ ~calculated
    /\ calculated' = TRUE /\ regions' = UpdateBadPage(FreeBlocks)
    /\ UNCHANGED << map, list, held, leaked, handedOver, calls >>

\* tegrabl_get_nct_load_addr, and those of kernel, device tree and ramdisk.
\* Without room they return the address 0, and no error.
GetLoadAddr(load) ==
    /\ Called
    /\ LET got == GetFreeDramAddress(list, load.size + load.align)
       IN  /\ list' = got.list
           /\ held' = IF got.addr = 0 THEN held
                      ELSE Append(held, Holding("load", MEM_ALIGN(got.addr, load.align),
                                                load.size, got.addr))
    /\ UNCHANGED << map, regions, calculated, leaked, handedOver >>

(* tegrabl_get_boot_img_load_addr.                                         *)

BootImgCalled == Called /\ UNCHANGED << map, regions, calculated, handedOver >>
PlaceOf(areas, size) == GetFreeDramAddress(areas, size + MEM_SZ_2MB)
BootImgAt(got) == MEM_ALIGN(got.addr, MEM_SZ_2MB)

\* The place for the whole partition is out of the reach of U-Boot, or there
\* is none: what was allocated is given back.
BootImgRefused(partition) ==
    /\ BootImgCalled
    /\ LET got == PlaceOf(list, partition)
       IN  /\ ~LoadAddressIsValid(BootImgAt(got), HEADERS)
           /\ list' = Removed(got.list, got.addr)
    /\ UNCHANGED << held, leaked >>

\* The headers cannot be read: what was allocated is not given back.
BootImgUnreadable(partition) ==
    /\ BootImgCalled
    /\ LET got == PlaceOf(list, partition)
       IN  /\ LoadAddressIsValid(BootImgAt(got), HEADERS)
           /\ list' = got.list
           /\ leaked' = leaked \cup {got.addr}
    /\ UNCHANGED held

\* An image without the header of Android takes the size of its partition.
BootImgPlain(partition) ==
    /\ BootImgCalled
    /\ LET got == PlaceOf(list, partition)
       IN  /\ LoadAddressIsValid(BootImgAt(got), HEADERS)
           /\ list' = got.list
           /\ held' = Append(held, Holding("load", BootImgAt(got), partition, got.addr))
    /\ UNCHANGED leaked

\* Mutant of PlaceAgain: the first place is kept as well.
PlaceAgainKept(got, size) == PlaceOf(got.list, size)
\* The first place is given back before the second is looked for.
PlaceAgain(got, size) == PlaceOf(Removed(got.list, got.addr), size)

\* Else the header tells its size, and it gets a place of that size.
BootImgSized(partition, image) ==
    /\ BootImgCalled
    /\ LET got   == PlaceOf(list, partition)
           size  == HEADERS + image
           again == PlaceAgain(got, size)
       IN  /\ LoadAddressIsValid(BootImgAt(got), HEADERS)
           /\ IF LoadAddressIsValid(BootImgAt(again), size)
              THEN /\ list' = again.list
                   /\ held' = Append(held, Holding("load", BootImgAt(again), size, again.addr))
              ELSE list' = Removed(again.list, again.addr) /\ UNCHANGED held
    /\ UNCHANGED leaked

\* The end of the last region below U_BOOT_TOP, or U_BOOT_TOP itself if a
\* region reaches beyond; none if the memory ends at U_BOOT_TOP or before it.
TopOfUBoot ==
    LET beyond == {k \in DOMAIN regions : End(regions[k]) > U_BOOT_TOP \/ regions[k].base > U_BOOT_TOP}
        k == Min(beyond)
    IN  CASE beyond = {} -> Block(0, 0)
          [] regions[k].base <= U_BOOT_TOP -> Block(regions[k].base, U_BOOT_TOP - regions[k].base)
          [] k > 1 -> regions[k - 1]
          [] OTHER -> Block(0, 0)

\* tegrabl_alloc_u_boot_top, which refuses if something is in the way.
AllocUBootTop(asked) ==
    /\ Called
    /\ LET size == asked + MEM_SZ_2MB
           top  == IF regions = << >> THEN Block(0, 0) ELSE TopOfUBoot
           addr == End(top) - size
       IN  IF top.size > size /\ IsDramAddressFree(list, addr, size).free
           THEN /\ list' = Inserted(list, addr, size)
                /\ held' = Append(held, Holding("U-Boot", addr, size, addr))
           ELSE UNCHANGED << list, held >>
    /\ UNCHANGED << map, regions, calculated, leaked, handedOver >>

\* tegrabl_dealloc_free_dram_region: the entries are freed, each before its
\* link is read.  The first one stays, its link included.
DeallocFreeDramRegion ==
    /\ ~handedOver /\ Intact /\ calculated
    /\ handedOver' = TRUE
    /\ list' = IF list = << >> THEN list ELSE << Head(list) >>
    /\ UNCHANGED << map, regions, held, calculated, leaked, calls >>

---------------------------------------------------------------------------
Init ==
    /\ map \in Maps
    /\ regions = << >> /\ list = << >> /\ held = << >>
    /\ calculated = FALSE /\ leaked = {} /\ handedOver = FALSE /\ calls = 0

Next ==
    \/ CalculateFreeDramRegions
    \/ \E load \in Loads : GetLoadAddr(load)
    \/ \E partition \in PartitionSizes :
          \/ BootImgRefused(partition) \/ BootImgUnreadable(partition) \/ BootImgPlain(partition)
          \/ \E image \in ImageSizes : BootImgSized(partition, image)
    \/ \E size \in TopSizes : AllocUBootTop(size)
    \/ DeallocFreeDramRegion

Spec == Init /\ [][Next]_vars
=============================================================================
