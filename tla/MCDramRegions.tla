---------------------------- MODULE MCDramRegions ----------------------------
(* DramRegions on a small memory, and its properties.                      *)
EXTENDS DramRegions

Carveout(base, size, kept) == [base |-> base, size |-> size, kept |-> kept]
MemoryMap(carveouts, badPages, n) ==
    [carveouts |-> carveouts, badPages |-> badPages, calls |-> n]

\* Two carveouts that lie apart, touch, overlap or nest, the second of them
\* perhaps temporary, and up to two bad pages; one carveout and any bad pages.
AnyMaps ==
    {MemoryMap(<<Carveout(b1, s1, TRUE), Carveout(b2, s2, kept)>>, bad, 0) :
        b1 \in {1, 2, 4, 6}, s1 \in {1, 4}, b2 \in {2, 3, 5, 7, 9}, s2 \in {1, 2},
        kept \in BOOLEAN, bad \in UNION {kSubset(k, {2, 3, 5, 6, 8, 9}) : k \in 0 .. 2}}
    \cup {MemoryMap(<<Carveout(b, s, TRUE)>>, bad, 0) :
            b \in {2, 4, 8}, s \in {1, 2}, bad \in SUBSET (2 .. 8)}

\* Memories that images are loaded into.
LoadedMaps ==
    {MemoryMap(<< >>, {}, 4), MemoryMap(<<Carveout(10, 1, TRUE)>>, {}, 4),
     MemoryMap(<<Carveout(2, 1, TRUE), Carveout(12, 2, FALSE)>>, {18}, 4),
     MemoryMap(<<Carveout(22, 4, TRUE)>>, {8}, 4)}
MCMaps == AnyMaps \cup LoadedMaps
MCLoads == {[size |-> 1, align |-> 1], [size |-> 2, align |-> 2]}

---------------------------------------------------------------------------
(* Properties.                                                             *)

Usable(a) ==
    /\ SDRAM_START <= a /\ a < SDRAM_END
    /\ \A k \in DOMAIN KeptCarveouts : ~Within(a, KeptCarveouts[k])
    /\ a \notin map.badPages
Nested ==
    \E i, j \in DOMAIN KeptCarveouts :
        i # j /\ Within(KeptCarveouts[j].base, KeptCarveouts[i])
Stray == {p \in map.badPages : \A k \in DOMAIN FreeBlocks : ~Within(p, FreeBlocks[k])}
RegionsWith(a) == {k \in DOMAIN regions : Within(a, regions[k])}

TypeOK ==
    /\ calls \in 0 .. map.calls
    /\ calculated \in BOOLEAN /\ handedOver \in BOOLEAN
    /\ \A k \in DOMAIN regions : {regions[k].base, regions[k].size} \subseteq 0 .. WORD - 1
    /\ \A k \in DOMAIN list : list[k].start # 0

\* However carveouts and bad pages lie, no page that can be used is lost; and
\* the regions hold these pages once each and no others, unless a carveout
\* begins inside another, and up to the first bad page that is in no block.
RegionsAreUsable ==
    /\ TypeOK
    /\ calculated =>
        /\ \A a \in SDRAM_START .. SDRAM_END - 1 : Usable(a) => RegionsWith(a) # {}
        /\ ~Nested =>
            \A a \in SDRAM_START .. WORD :
                (\A p \in Stray : a < p) =>
                    Cardinality(RegionsWith(a)) = IF Usable(a) THEN 1 ELSE 0

Disordered(j) ==
    \E i \in 1 .. j :
        \/ \E h \in 1 .. i - 1 : held[h].start > held[i].start
        \/ \E start \in leaked : start > held[i].start

\* What callers hold lies inside a region, and no two of them share a page,
\* whatever was given back in between, as long as each was placed above what
\* was allocated before it: else the list is not in order, and the page after
\* one entry may lie in an entry that was passed already.
LoadsApart ==
    \A j \in DOMAIN held :
        /\ \E k \in DOMAIN regions :
              regions[k].base <= held[j].start /\ held[j].at + held[j].room <= End(regions[k])
        /\ held[j].start <= held[j].at
        /\ \A i \in 1 .. j - 1 :
              \/ Disordered(j)
              \/ held[i].at + held[i].room <= held[j].at
              \/ held[j].at + held[j].room <= held[i].at

\* Until the list is freed, what it tracks is what callers hold, also after
\* calls that failed half-way, but for an image whose headers were unreadable.
\* And what is given back is the entry of the caller, never one that is linked
\* still, unless something was placed below what was allocated before it: then
\* an address may be given twice, and giving it back takes the first entry.
ListIsHeld ==
    ~handedOver =>
        /\ {list[k].start : k \in DOMAIN list} =
              {held[j].start : j \in DOMAIN held} \cup leaked
        /\ Disordered(Len(held)) \/ Intact
=============================================================================
