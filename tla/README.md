# A verification of the T18x bootloader library

TLA+ models of the C code shared by the boot stages of a Tegra T18x device
(`src/common`, `src/mb1-headers`, `src/nvtboot`), their TLC configurations, and
proofs checked by TLAPS. All source paths below are relative to `src/common/` unless
they begin with `src/`.

The code is a set of libraries that a boot stage calls one at a time, on one CPU,
without interrupts. What makes it hard is not threads. It is that it

* changes things that cannot be changed back (fuses, and the storage a boot ROM will
  search on the next boot), while power may be lost between any two writes;
* drives hardware by sequences of register writes whose order matters, keeping in
  memory a picture of the hardware that has to stay true over any sequence of calls;
* leaves state behind for the next boot stage, or the next boot;
* shares an engine with another master, and orders clocks of another processor by
  messages.

How to run things, in this directory: `tlc -workers 2 -config X.cfg M` for a run
(the table of section 5 names `M`), `tlapm M.tla` for the proofs of a module.
`PROJECT.json` lists for every definition the source lines it stands for, for every
checked property a plausible bug of the code that breaks it, and the hazards the
properties are aimed at.

## 1. Inventory

| Component | State it keeps | Operations | Interacts with | What is hard | Correct when |
|---|---|---|---|---|---|
| **Fuse programming** `drivers/fuse/tegrabl_fuse_write.c` | the macro's cells; latch, mirroring, power gate and write access of the controller; the caller's buffer | `tegrabl_fuse_write` | fuse reading, register visibility (clocks), the SoC voltage | every burn is for ever; rows and redundant rows are burnt one after the other; several early returns | only bits asked for are blown; a refusal blows none; success means the value is there |
| **Fuse reading** `drivers/fuse/tegrabl_fuse_read.c` | none of its own (registers, visibility) | `tegrabl_fuse_read`, `tegrabl_fuse_query_size`, the PS18 latch | all others | the value of one fuse is not its register | a value is read from the register its rows feed |
| **Fuse burning session** `drivers/fuse/tegrabl_fuseburn.c` | the blob in memory, a copy of it | `burn_fuses` | fuse programming, thermal sensor | order of H2 and security mode, retries, power loss | the device is locked only when finished; a failed session can be resumed, but for a boot security mode |
| **Rollback prevention** `lib/rollback_prevention` | a pointer to the levels, the level fuse, two scratch registers | `tegrabl_init_rollback_data`, `tegrabl_prevent_rollback`, `tegrabl_update_rollback_fuse`, `tegrabl_check_binary_rollback`, bypass | fuse programming, authentication | levels only ever grow, on a fuse that may be half burnt | no image behind a level reported burnt passes; the newest is never locked out |
| **Clocks, CAR** `drivers/soc/t186/clocks/tegrabl_clk_rst*.c` | per module: rate, source, on, resume rate; the registers | enable, disable, reset, set and get rate and source | PLLs | the cached state has to agree with the registers, which modules share | a reported rate is the register's; a clock resumes as it was left |
| **PLLs and SoC clocks** `tegrabl_clk_soc*.c`, `tegrabl_clk_ufs.c` | PLL registers, cached frequencies | `init_pll_with_rate`, the PLL and UFS sequences | CAR | lock polls with and without a bound, early return for an enabled PLL, PLLs that several functions program | a PLL reported up is locked and stays so; every call returns |
| **Clocks, BPMP** `tegrabl_clk_bpmp.c` | cached PLLC4 rate; the BPMP's clocks, resets and domains | the same interface, by messages | BPMP firmware | errors dropped, messages or answers lost, identifiers of two kinds, tables whose order matters | success means that the BPMP has done it; a running clock keeps its rate |
| **Boot configuration tables** `lib/tegrabl_brbct`, `lib/mb1bct` | the copies on storage, a cached location | `write_multiple`, `relocate`, `init`, `get` | partitions, boot ROM | power loss between copies | the ROM finds a whole table, never older than one reported written |
| Boot information table `lib/tegrabl_brbit` | a cached pointer | get, set fields | boot ROM | — | — |
| Partition loader `lib/partitionloader` | none | `tegrabl_load_binary` and its variants | partitions, A/B control | slot choice, sizes, fallback | what is read fits where it goes |
| Boot scratch registers `soc/t186/misc` | scratch registers that survive a reset | boot chain, slots, flags, reset reason | everything | one register with several owners | an owner reads what it wrote |
| **Authentication** `lib/tegrabl_auth` | a static context over blocks, the security mode | init, process block, finalize, verify | SE, rollback | blocks in parts, several modes, state left by the last binary | what is accepted was authenticated as a whole |
| **Security engine** `drivers/se`, keystore, PKC | two engines' registers, key slots, chained contexts, mutexes | RSA, SHA, AES, CMAC, DRBG | authentication | a mutex shared with another master, multi-call operations, contexts that take turns on a slot | the mutex is given back on every path; a result is that of the whole message under the key of the slot |
| **Linux boot helper** `lib/linuxboot` | free DRAM regions, the list of allocations | region search, allocation | carveouts | interval arithmetic, a hand-made sorted list | regions are exactly the usable pages; images do not overlap |
| VIC `drivers/vic` | engine registers | copy, wait | memory scrubbing | completion timeout | — |
| Power gating, timer, ODM data, controller tables, interfaces | see `PROJECT.json` | | | | |

## 2. Plan

The order is by what a mistake costs: fuses first, then what is counted in them,
then the state of the clocks, then storage.

| # | Module(s) | What | State |
|---|---|---|---|
| 1 | `FuseLayout`, `FuseWrite`, `FuseWriteProofs` | the table of fuses and one write, step by step | done, every safety property proved |
| 2 | `FuseCall` (proved in `FuseWriteProofs`) | what a write promises; `FuseWrite` implements it (TLC and TLAPS) | done |
| 3 | `FuseRead` (with `FuseWrite`), `FuseBurn`, `FuseBurnProofs` | a session over a blob | done, every property proved |
| 4 | `Rollback`, `RollbackProofs` | the boots of a device, composed with `FuseCall` | done, every property proved |
| 5 | `ClockState`, `ClockStateProofs` | the CAR driver against the registers | done, every property proved |
| 6 | `BctUpdate`, `BctUpdateProofs` | copies on storage against the search of the boot ROM, with power loss | done, every property proved |
| 7 | `PllBringUp`, `PllBringUpProofs` | how PLLs and UFS are brought up: locks, retries, shared PLLs | done, every safety property proved |
| 8 | `DramRegions` | free regions, bad pages, addresses for what is loaded | done |
| 9 | `AuthStream`, `AuthStreamProofs` | a binary authenticated over its blocks, the ciphers as an oracle | done, every property proved |
| 10 | `SeEngine` | the engine's mutex, key slots and chaining, with another master | done |
| 11 | `ClockMessages`, `ClockMessagesProofs` | the clock driver that sends messages to the BPMP, some of which are lost | done, every property proved |
| 12 | proofs for the modules of rows 8 and 10 | see below | open |
| 13 | one abstract clock that `ClockState` and `ClockMessages` both implement | the common interface of the two drivers | open |

`AuthStream` calls the engine by an oracle and the check of the rollback level by
its outcome; `SeEngine` and `Rollback` model what stands behind these two.
`PllBringUp` and `ClockState` meet at the PLLs: a PLL is there on or off in
`ClockState`, and how it comes up is `PllBringUp`'s.

Not planned any more: the partition loader, whose meaning is that of a storage and a
partition table outside this repository; the scratch registers, single fields each
with a reader and a writer of a few lines; VIC and timer, one transfer or one
counter at a time. Section 8 has what was noted in them.

Abstract specifications: `FuseCall` (done), "the boot ROM finds a whole table"
(`Bootable`), "the free regions are the usable pages" (`RegionsAreUsable`), "a
context makes of a message what CBC makes of it in one piece" (`CipherIsChained`).
Theorems worth proving next: `OtherKeepsUnit` of `SeEngine`, whose invariant is that of
`ClockMessagesProofs` in kind (what a list of steps has left to do); `ListIsHeld` of
`DramRegions`.

## 3. Modules and the code

**`FuseLayout`** is the data of the driver: for every fuse type the macro rows its
case of the switch in `fuse_set_macro_and_burn` burns, in order (register, which of
the two macro words of a register, primary or redundant copy, word of the caller's
buffer), and the register each of its words is read from. It has no state.
`MCFuseWrite` hands it to `FuseWrite`.

**`FuseWrite`** is `tegrabl_fuse_write`. The state is the macro (`burnt`, which
survives everything), what its registers show (`sensed`), the controls in the order
the code touches them (`visible`, `latched`, `mirroring`, `pd`, `swAccess`,
`writeDisabled`), the caller's `buffer`, and where the call stands. An action is a
run of code between two points at which a power loss makes a difference: `Call`
(visibility, latch), `RefuseSize`, `RefuseClearing` and `ComputeDelta` (the XOR with
the registers), per row `SkipRow`, `RefuseDisabled`, `StrobeFails`, `WrapperBusy`,
`StartBurn` (`fuse_write_pre_process`), `Burn` (`fuse_initiate_burn`),
`PostProcess`, and then `FinishRows` and `Confirm`. `before`, `asked` and `torn` are
history. A value is a set of bits; a word has a few bits, split between the two
macro words as the instance says.

**`FuseRead`** is what `tegrabl_fuse_read` makes of a register (`ReadAs`): the
register, or, for `BOOT_SECURITY_INFO`, the mode its three low bits are mapped to
(`BootSecurityMode`). `FuseWrite` and `FuseBurn` extend it: a request is compared, and
XORed, with what is read; the confirmation of that fuse is with the register.

**`FuseCall`** is the promise of one write to its callers: bits of the value only, a
refusal blows none, success means that the cells compared are as asked, and a power
loss leaves any part. `FuseWrite!KeepsPromise` is the refinement: a `FuseCall` cell
is a register bit, blown when either copy is.

**`FuseBurn`** is `burn_fuses`. A write is one step with the outcomes `FuseWrite`
gives it, and its effect on the buffer. A fuse's value is a whole here, however many
words it has. `EccCode` is the Hamming code of H2: the XOR of the patterns of the
cells that are set, with its parity bit; the pattern of a cell is its position, a
constant of the instance. `Burnable` says of a request that the code does not refuse
it and can confirm it: it has every bit that is shown (`Shown`, by `FuseRead`), and
what it adds to those shown makes the register the value asked for. A write succeeds
only then. `Feasible` says which blobs a device can take at all: each value is
`Burnable`, no two are of one fuse and, when the blob locks the device, no H2 is
named other than the one the session computes. `Hopeless` is a session that has come
to a write, or to a comparison, that cannot succeed. `Superseded` are the nodes whose value the
same session burns over: H2 in a blob that locks, since the code is computed after
the nodes (`tegrabl_fuseburn.c:428`), and of two nodes for the security mode the
earlier (`:407`).

**`Rollback`** is every function of `tegrabl_prevent_rollback.c` over the boots of a
device: `stage` is the boot stage that runs, `rb` the data the image brings, `known`
the static pointer, `scratch` the fuse value left for a later stage, `bypassed` the
token presented. Its fuse writes are the actions of an instance of `FuseCall`
(`FuseWrite!Ask`, `!Burn`, `!Succeed`, ...) conjoined with what the caller does, so
that it inherits exactly what `CallsKeepPromise` proves of the driver.
`FuseValueToLevel` and `LevelToFuseValue` are the step from a fuse value to its
level and back.

**`ClockState`** is `tegrabl_clk_rst.c` and `tegrabl_clk_rst_priv.c`: `struct
clk_info` (`clk_src`, `clk_src_idx`, `clk_rate`, `resume_rate`, `ON`) against the
registers (`enb`, `rst`, `mux`, `divisor`) and the PLLs (`running`, `iddq`). `Table`
has one module of every kind of row of the source's table, and those that share
registers. There is one action per entry point and kind of module, `NextStage` for
the start of another stage of the boot: registers stay, `struct clk_info` is the
table's again.

**`BctUpdate`** is `tegrabl_brbct_write_multiple` and
`tegrabl_mb1bct_write_multiple`. `Offsets` is where the code writes copies, `Places`
where the boot ROM looks for them, which the code's comment lists. A write is
`WriteUnit` once per unit of storage, in any order, so that a power loss leaves any
part of it; `Fail` is an error of the partition manager. `reported` and `stopped`
are history.

**`PllBringUp`** is `tegrabl_clk_soc_priv.c` and `tegrabl_clk_ufs.c`. A function is
the list of its register writes and polls (`ToDo`), and `CpuStep` does the first of
them: so a lock, `Locks`, may come between any two. `AlreadyUp` is the early return
for a PLL that is enabled. A PLL is its enable bit, its power-down mode (`power`),
the dividers it was programmed with and its lock. `UfsUtmipll` and `StartPllCopied`
keep what the copies of these sequences do otherwise. `up` and `late` are history:
PLLs reported up, and PLLs whose polls ran out.

**`ClockMessages`** is `tegrabl_clk_bpmp.c`, and the power domains of the display
(`drivers/soc/t186/display`), which are messages too. A function is the list of its
messages; one whose error the driver only prints is a `Try`. A message is
`Answered`, or `Unanswered`: lost before the BPMP or after it. The BPMP keeps for
every clock whether it is on, its parent and its rate; rates of derived clocks
follow those of their parents (`SetTo`). `UfsClocks` and `UfsResets` are the tables
of the source, whole. `InInterface` says with what a function may be called: with any module,
source, rate and divisor, also those the tables do not have; only the source of QSPI is
one of the three that the switch of `tegrabl_car_clk_enable` names, and a PLL one that
the table has an entry for (`Plls`). `DEPTH` bounds a path from a clock to its root; no
path is longer.

**`SeEngine`** is `tegrabl_se.c` for SE0. A function is the list of what it does to
the engine (`get`, `program`, `start`, `poll`, `release`, ...); `CpuStep` does the
first, `UnitFinishes` is a unit that ends its task, and `OtherStep` the other
master, who takes the mutex wherever the driver has left it, programs a unit and
starts it. Values are terms, so that two values are equal only if computed alike:
`CbcEncrypt`, `Mac` and `Digest` are the reference definitions of a message in one
piece, `FinishAes`, `FinishSha` and `FinishRsa` what a unit makes of one task.

**`AuthStream`** is `tegrabl_auth_binary.c` and `tegrabl_verify_binary.c`. Memory
holds cells, each with its meaning; a signature fits if the cells digested are, in
order, those that were signed. `Initiate`, `Load`, `NewHeader`, the blocks of long
and short binaries (`FirstOfLong`, `LaterOfLong`, `FirstOfShort`, `MoreOfShort`,
`LastOfShort`), `SetNewDestination`, `Finalize` and `End` are what a caller can do
with a handle; `VerifyTable` and `CloseTable` the tables without a header.

**`DramRegions`** is the address arithmetic of `linuxboot_helper.c`: `FreeBlocks`
and `UpdateBadPage` are the two loops that make the free regions, written as folds;
`GetFreeDramAddress`, `Inserted` and `Removed` the list of allocations, kept in the
order in which the source keeps it. `BootImg...` are the paths through
`tegrabl_get_boot_img_load_addr`, with what each has given back when it ends.

## 4. Environment and assumptions

* A bit of a fuse register is the OR of its primary and redundant cell. That is
  hardware, modelled from the layout the driver assumes; so are the sense of the
  macro at power on and the `WRITE` command, which may blow any part of a row when
  power is lost during it or when `BurnsReliable` is FALSE.
* Visibility is that of `tegrabl_clk_soc.c`, built into the stages that write the
  CAR registers; the stub of `tegrabl_clk_bpmp.c:1363` reports TRUE always.
* The build has `CONFIG_ENABLE_FUSING`. `FUSE_DISABLEREGPROGRAM` is set by some
  later stage and cleared by a reset: no code here sets it.
* The order in which a boot calls the rollback functions is its callers', which are
  not in this repository. `Rollback` lets MB1 call `tegrabl_prevent_rollback` once,
  at any point, lets the next stage start only when it returned no error, and lets
  any stage call the other functions at any time. `Enforced` says which stages are
  built with the enforcing configuration. The scratch register is cleared at power
  on.
* The partition of a table has just been opened when an update begins (the first
  copy is written without a seek), the caller's chunk holds a whole table and no
  more than a slot, and the partition manager refuses a write past the end. A device
  is flashed by its host with a table at every place. A partition is made of whole
  blocks of its device. The boot ROM's block is a power of two
  (`BlockSizeLog2`, `lib/tegrabl_brbct/tegrabl_brbct.c:130`) and so is that of every
  storage device, so that of the two sizes one is a multiple of twice the other
  where they differ (`Doubles`): the offset of a copy, rounded up to the device's
  block, then never falls in the middle of another copy.
* A PLL locks at any time once it is enabled, or never; it loses its lock when it is
  disabled, powered down or programmed anew. `tegrabl_clk_ufs.c` polls registers of
  PLLs that other functions own.
* The BPMP is firmware outside this repository. Turning a clock on or off twice is
  as once; a rate is set exactly as asked; a clock keeps its divider, so that a new
  parent, or a new rate of it, scales the rate of whatever is derived from it (0:
  not known); a parent a clock cannot have is refused, and a refusal is an error of
  the transfer. The high-speed mode of UFS and QDDR of QSPI are not built.
* The other master of the security engine takes the mutex before it uses a unit, and
  gives it back when it is done. A unit ends every task; the registers of a task can
  be overwritten until it is started. A release by one who does not hold the mutex
  changes nothing. Two callers do not use one context.
* The first block of a binary that streams holds its header and more. Callers of the
  streaming functions are outside this repository: they load the next block at the
  place the handle calls safe, or elsewhere, and follow no other order than
  initiate, blocks, finalize, end. The places of a binary (the destination, the one
  it may be moved to, the one blocks are read from) each have room for all that is
  stored of it, and lie apart (`RoomAssumption`): the code checks the binary's length
  against the size of the destination, and leaves where things lie to its callers. A
  device whose fuses ask for none of the four modes of `SecureModes` refuses every
  header but Nvidia's, and is left out.
* Whoever is given an address in DRAM keeps to the size asked for. The list of
  allocations is used until the kernel is handed over, which frees it; a freed entry
  can still be read (`tegrabl_free` leaves it as it is) until its memory is taken again.
* `LayoutAssumption`, `GeometryAssumption`, `ValueAssumption`, `ReadBackAssumption`,
  `FuseBurnAssumption` (it leaves out the two fuses that cannot be read, and gives the
  boot security fuse the three bits that are mapped), `ClockAssumption`, `TableAssumption`, `SeAssumption`,
  `AuthAssumption`, `DramAssumption` and those of `Rollback`, `PllBringUp` and
  `ClockMessages` (`MenusAssumption`: the calls are of the interface) are checked by TLC on every run. `ReadBackAssumption` says a word
  is read from the register its rows feed; `MCFuseWrite` establishes it for the
  whole table of the driver. `RedundancyAssumption` says that what burns a register
  with a redundant copy burns both copies, `WordsAssumption` that the words the
  confirmation does not compare are those of fuses read as they are, both halves of
  which the switch burns; both hold of the driver's whole table, and without them
  `CopiesAgree` and `SuccessMeansValue` would not hold of a table.

## 5. Runs

Every property of a passing run has a mutant in `PROJECT.json`: a small bug (a
dropped guard, an index off by one, a forgotten reset) with which TLC finds that
property violated under that run's configuration.

| Run | Module | Question | Answer |
|---|---|---|---|
| `FuseWrite` | `MCFuseWrite` | Two calls on a fuse of each shape, a power loss anywhere | only asked-for bits are blown (`OnlyAskedForBurnt`), comparisons are with fresh registers (`SensedIsCurrent`), the redundant copy equals its primary unless a burn was once stopped (`CopiesAgree`), every call does what `FuseCall` promises (`KeepsPromise`) and returns (`CallReturns`) |
| `FuseLayout` | `MCFuseWrite` | Every fuse of the table, once | the rows of each case hold every word and both halves of it (`SuccessMeansValue`) |
| `FuseBurn` | `MCFuseBurn` | Three sessions over blobs that share fuses, with failures at any write and a power loss | the security mode is burnt only when everything else is right (`LockedLast`), a loaded blob that burns no boot security mode can always be resumed, and no session on it comes to a step that cannot succeed (`Resumable`), success means the blob (`LoadedBlobBurnt`) |
| `Rollback` | `MCRollback` | Three boots of any images | a level reported burnt stays burnt and refuses older images (`RatchetHolds`), the newest image is never locked out (`NeverAheadOfImages`), enforcement ends only by a bypass (`LimitsEnforced`) |
| `ClockState` | `MCClockState` | Any five effective calls, a new stage among them, on modules that share registers or PLLs | the cache stays true (`RegistersAsCached`), a clock with a rate is enabled, and what its register selects toggles, provided the source chosen is one the module has (`RatedRuns`), it can always resume (`CanResume`) and does as it was left (`ResumesAsLeft`) |
| `PllBringUp` | `PllBringUp` | Any four calls, repeated or after one that failed, locks at any poll or never | a PLL reported up is locked and stays so (`StaysUp`), none is enabled unpowered or changed while it runs (`EnabledInOrder`), every call returns (`CallsReturn`) |
| `ClockMessages` | `MCClockMessages` | Any three calls of one part of the interface, one message or its answer lost | success means that the BPMP has done it (`SuccessMeansDone`), UFS leaves its reset only after its clocks run, and none of these runs without its parent (`UfsInOrder`), bringing up a PLL changes the rate of no running clock (`InitPllDisturbsNone`) |
| `BctUpdate` | `MCBctUpdate` | Four updates in a row, each stopped at any unit | the device boots until as many updates in a row were stopped as there are copies (`Bootable`; with that many it may not), success means every copy and the next boot (`SuccessMeansFound`), and no boot finds a table older than one reported written (`NeverOlderThanReported`) |
| `SeEngine` | `MCSeEngine` | Three calls on workloads that share slots or units, another master in between | what comes out is what the algorithm makes of the whole message under the key of the slot (`CipherIsChained`, `MacOfSlotKey`, `DigestOfMessage`), a signature is good if and only if it is (`VerifiedMeansSigned`), the driver leaves the other master's task alone and the mutex free (`OtherKeepsUnit`), every call returns (`EveryCallReturns`) |
| `AuthStream` | `MCAuthStream` | Two binaries or tables in a row in every mode, cut into blocks in every way, with failing calls | what is accepted lies at the destination as it was signed (`VerifiedMeansIntact`), what is intact is accepted (`IntactIsVerified`), the mode is that of the fuses (`ModeOfFuses`), no context is left open (`ContextsClosed`) |
| `DramRegions` | `MCDramRegions` | Carveouts and bad pages in every position, up to four calls that place images | what is free is the usable pages, once each (`RegionsAreUsable`), loads placed upwards do not overlap (`LoadsApart`), what is tracked is what callers hold, and no entry is freed that is linked while the list is in order (`ListIsHeld`) |

`TypeOK` is a conjunct of `Resumable`, `RegistersAsCached`, `Bootable`, `StaysUp`,
`SuccessMeansDone`, `OtherKeepsUnit`, `ModeOfFuses` and `RegionsAreUsable`. Several
properties make an exception in their own text; each exception is a behaviour of the
code that section 8 describes.

One run shows a disagreement between the code and what it says of itself: in
`FuseRetry` (`MCFuseWrite`), where the code says "confirm fuses are burnt"
(`tegrabl_fuse_write.c:1349`), a retry after a power loss between the two rows finds
nothing to burn, since the register is the OR of both, and reports success with a
blank redundant row (`ConfirmedMeansBurnt`).

The runs burn reliably (`BurnsReliable`). With bits that may stay unburnt the state
space of two calls is too large for a quick run; what remains true then,
`KeepsPromise` and `OnlyAskedForBurnt`, is proved for both values of the constant
(section 6).

**Bounds.** *FuseWrite*: two calls and one power loss are what a retry needs; the
four fuses are one of each shape of the table (two rows and two redundant ones, one
of each, two words over four rows, unknown to the switch); two bits of a word, one
in each macro word, since the code treats the bits of a row alike; the run over the
whole table asks for each word of every fuse alone, and for all of them. *FuseBurn*:
three sessions are a failure, a retry and one more; blobs have the security mode in
every position, some name a fuse twice, and three name `BOOT_SECURITY_INFO`, with the
values 1, 2 and 3: one that can be burnt again, one that is refused once it is burnt,
and one that is not confirmed any more when a part of it is. *Rollback*: a fuse of three bits, images
of every level 0 to 3, and images whose index names a fuse that is not a reserved
ODM one, or one without a size, that are disabled, or of an old version; three boots
are an update, its retry and a downgrade. *ClockState*: five calls are the longest
chain its state has (start a PLL, enable, switch the source, disable, enable);
refused calls are not counted. Groups of one or two modules are driven at a time,
those that share a register or a PLL together; rates are in 100 kHz; the divisor
field has 32 values instead of 256, so that a rate can be too low for it.
*BctUpdate*: partitions of one to four blocks, tables that fill their slot and that
do not, devices with blocks larger than a slot, and one whose second copy lies where
nobody looks; four updates in a row are as many as the largest partition has copies.
*PllBringUp*: four calls are a failure, its retry, a function that shares a PLL with
it, and a disable; two polls instead of 100 to 1000, since a lock comes at the
first, at the last, after it, or never. *ClockMessages*: three calls of one of six
menus (UFS, USB, PLLs, QSPI, modules, display), since functions of different menus
share no clock but the roots; the tables of UFS and USB are whole; one lost message
is a failure and its retry. *SeEngine*: messages of one to three blocks, the
engine's limits scaled to two and three, so that a message needs one, two or more
pieces and ends on a limit or not; a workload has the contexts that share a slot or
a unit; the other master comes once, at any point. *AuthStream*: a header of two
cells, one of them signed, blocks of any size, binaries of one to six cells around
the threshold of five, at both sides of each comparison; two binaries show what the
first leaves behind. *DramRegions*: sizes are pages, of which memory has 24 and the
word 32; two carveouts apart, touching, overlapping, nested or temporary with up to
two bad pages, or one with any bad pages; four loads in four memories whose free
regions differ in number and in where U-Boot's top lies.

**Fairness.** `FuseWrite` states weak fairness of the steps of a call that has begun
(`CallStep`): the stage runs on one CPU, without interrupts, and the polls of the
controller end when its command does. `PllBringUp` states it of `CpuStep` and of the
locks that the code polls without a bound (PLLC4, PLLE, PLLM, PLLMSB): without a
lock these functions hang, and that is the assumption they rest on; locks polled
with a bound need not come. `SeEngine` states it of the driver's steps, of each unit
that runs a task, and of the other master finishing what it has begun: the driver
spins on the mutex and on the units without a bound. Weak is enough because the
other master takes the mutex boundedly often in the instance; one that took it over
and over would need strong fairness of the spin. Nothing is assumed of new calls,
power losses, failures and lost messages: they may or may not come. The other
specifications are safety only.

## 6. Proofs

TLAPS checks every theorem for every table, request, geometry, number of polls,
calls, sessions, updates, losses and boots, from the named assumptions alone. Each
invariant below was first checked by TLC on the run of its module.

**`FuseWriteProofs`.** The invariants of `FuseWrite` are not inductive one by one.
`IInv` is their conjunction with what a call knows at each point: `CallRecorded`
(the cells of a call under way are in `asked`), `BufferWithinWant` (after the XOR
the buffer holds bits of the value only; this is where the check for clearing is
needed: without it the XOR would ask for bits nobody wanted), `Powered` (from the
read to the last row the registers are visible and the latch is set), `BurnArmed`
(at the `WRITE` command all of `MacroArmed` holds and the row exists) and
`NothingYet` (before the first burn the macro is as the call found it). One lemma
per group of conjuncts shows that every step keeps it; `Invariance` puts them
together, and `TypeCorrect`, `OnlyAskedForIsBurnt`, `RefusalsBurnNothing`,
`RegistersAreCurrent` and `BurnsAreArmed` follow. Two more invariants on top of
`IInv` follow the rows. `CopiesInv`: the rows a call has passed are burnt alike
(`RowsDone`), and a fuse none of whose burns was cut short has equal copies; with
`RedundancyAssumption` this gives `CopiesAlwaysAgree`, whatever the hardware leaves
unburnt. `ValueInv`: when what is burnt stays burnt (`BurnsReliable`) a call that
has passed its last row has every word of the value in the macro, also those that
the confirmation never compares; hence `SuccessIsValue`.

The refinement comes last: `CallsKeepPromise`, that `FuseWrite` implements `FuseCall`. The
step that needs thought is success: the confirmation compares registers, which show
the macro because of `SensedIsCurrent`, and the word it compares is the one asked
for because of `ReadBackAssumption`. A burn grows the blown bits by bits of the
value because of `BufferWithinWant`.

**`RollbackProofs`.** `Bounded` = the type invariant, a write under way is for the
level of the image (`WriteOfLevel`), so is the scratch register (`ScratchOfLevel`),
that level was offered (`LevelOffered`), every blown bit is below a level offered
(`BlownOffered`), and only ODM fuses are burnt. From it `NeverLocksTheNewestOut` and
`OnlyOdmFuses`. `Ratcheting` adds that a level reported burnt is in the fuse
(`RatchetBurnt`) and that a write under way is ahead of the fuse (`AheadOfRatchet`);
it needs `LevelsFit`, that no image has a level beyond the width of the fuse, or at
it where the shift wraps (it is undefined there); hence `RatchetNeverTurns`.
`Limiting` adds that rollback prevention stays on where it is enforced unless
bypassed; hence `LimitsHold`.

**`FuseBurnProofs`.** `LockedLast` and `Resumable` need to know what a session has
passed. `IInv` says of the nodes before the current one that they are burnt
(`PassedBurnt`), of the buffer that what it lacks of a value is burnt already
(`CanGoOn`: the driver's XOR eats into the buffer, so that a retry within the session
depends on it), of the security mode that its node is not written to and that the
last one was noted (`LockValueKept`, `LockNoted`), of the verification what it has
compared (`Checked`), and of the magic that only a success overwrites it
(`Overwritten`), and of the nodes ahead that their values are as the session found
them (`Ahead`). `FeasibleIff` is where the exception of the boot security modes is
needed: without one (`SparesMode`) a request can be burnt if and only if it has every
cell of the register, so that a blob is feasible if and only if its values cover what
is burnt (`Coverable`), which the failed burn of a part of a value keeps so. `SessionsCanSucceed` then shows that no session on a blob as loaded is
`Hopeless`. Hence `LocksLast`, `AlwaysResumable` and `SuccessIsBurnt`, for any
blobs, any pattern of the code and any number of sessions and losses.

**`ClockStateProofs`.** `RegistersAsCached` is not inductive: after a disable the
registers still show a rate the cache no longer reports, and switching the source
recomputes a rate from the divider in the register. `IInv` keeps that the index
remembered is that of the source remembered (`IndexOfSource`), that every rate is
what some divider makes of its source (`RateDivided`), that the registers hold index
and divider as far as the field reaches (`Programmed`), that every remembered source
runs, with a rate or without (`SourcesRun`), that the input selected for a clock with a
rate toggles (`Fed`), and of a clock that was left the rate at
which it will resume (`LeftKept`). `CacheIsTrue` uses that a divider that makes a
rate above `Divided(..., DivValues, ...)` fits the field: dividers make rates that
fall. `ResumesWhereLeft` is the arithmetic of the driver: for a fractional divider,
the divider computed for a rate that a divider made makes that rate again.
`RatedClocksRun` and `AlwaysResumes` follow directly. `Fed` is about the multiplexer,
not about the source remembered: it rests on `IndexFacts`, that the index the driver
finds for a source the module has selects that source (7 for the eighth, which the
search does not see), and for QSPI, whose register another function writes, on what
that function starts (`QspiFed`).

**`BctUpdateProofs`.** That the device boots rests on geometry: the lemmas show that
the copies' offsets are apart, whatever the sizes (rounding up, whole blocks,
`Doubles`), and that the boot ROM looks at every one of them. `IInv` then says that
what lies in the partition lies where a write put it (`Placed`), which copies an
update has finished (`Written`), that no copy is older than the last report
(`ReportKept`) or than a success (`SuccessKept`), and that each update stopped
has spoilt one copy at most (`OneSpoiltEach`, by cardinality). `AlwaysBootable` counts:
fewer stopped updates than copies leave a whole one. `SuccessIsFound` and
`NeverOlder` read off what a search can find.

**`PllBringUpProofs`.** What a function has left to do is a list, and what matters is
the order in it, so that the invariant speaks of places of the list: an entry that
enables a PLL has its power and dividers, or an earlier entry will set them
(`EnableReady`); what is to be powered down is off or will be before (`OffBefore`);
UFS's entries come in turn (`UfsInTurn`); what a call is to bring up is up, or it
will wait for it last (`Promised`). `Settled` is what the early returns for an
enabled PLL rely on: outside its own bring-up such a PLL has locked, or its polls ran
out. `UpKept` says that no entry of any list touches a PLL reported up. One lemma per
function shows that its list is well made when it is called, one lemma per conjunct
that doing the first entry keeps it. `ReportedStaysUp` and `AlwaysInOrder` follow, for
any number of polls, any use of the memory channels, and locks at any time or never.

**`ClockMessagesProofs`.** The three properties hold for every set of calls of the
interface, any number of them in any order, and any number of messages lost, where the
run makes three calls of one menu with one loss. `CoreInv`, the inductive invariant all
else rests on, says what may be on the list of a call at all: a message that the driver
can send (`Msgs`), to a clock, reset or domain that the BPMP has; a question and its order
together, as a no drops two entries (`AskedIn`); the entries of UFS and of QSPI in
their own functions only (`Fits`). Without `Msgs` nothing could be said of a call that
finds the clocks as another one has left them. `TreeInv` is why no order of one function
undoes the work of another: the clocks of the tables are only ever moved to the parent
of their row, and the three roots are never turned off. `QspiInv` is how far
`enable_qspi` is, by the message that is next, with what it has been told.

`InitPllDisturbsNone` adds the stages of `init_pll` (`PllInv`): past the question the
PLL is off, or the question was not answered. A PLL that is off is above no clock that
runs, which is `AboveClosed`: a clock's ancestors lie in every set that has the parents
of its members.

`UfsInOrder` adds `OrderInv`, the order of the list as a fact about places of it. While
the clocks are brought up, clock i runs, or has missed its last order, or its order
stands ahead of every order to a later clock and of every reset (`InitInOrder`); while
they are turned off, the other way round (`DeinitInOrder`); and of a clock and its
parent at any time, the property itself (`PairsInOrder`). A row of the table names its
parent in an earlier row (`UfsTable`, of the source's table), which is what turns the
order of the list into that of the tree.

`SuccessMeansDone` adds, for each function, that what it promises is done or still to
do (`DoneInv`). Short functions are described list by list (`ModuleInv`, `PowerInv`).
For the tables (`TableInv`) it is `RowPending` of each row: enabling it is done or still
on the list, and so are its parent and its rate; and behind every entry that may change the rate
(its own parent, or parent or rate of an earlier row: `Spoils`) its rate
is still to be set (`Behind`). That is where the order of `Program`, parent before rate,
is needed: with the two swapped, the rate would be done and then undone. What a list
contains after it was flattened from rows is an induction over the rows, and so is its
order; the library's induction theorems cannot be instantiated here, so `NatSetInduction`
proves induction for sets of numbers, from the library's well-foundedness of finite sets.

**`AuthStreamProofs`.** `VerifiedMeansIntact` speaks of the end alone; `IInv` says at
every point of a binary how what was read, what was digested and what lies in memory
agree. `Seen` is how much of the stored binary has been processed, `Taken` how many
of its cells that is, `At(i)` where cell i lies, in the first part or in the second
once a stream was sent elsewhere, and `Out` what becomes of a cell. `Pending`: the
block to process holds what was read last, and only a block after the first, loaded
elsewhere, counts as `bounced`. `Unopened`: before a header is accepted the handle is
as initiated and the new place is blank. `Opened`: a header that was accepted is the
binary's, in the mode of the fuses (`ModeWanted`; `Typed` ties the static
`secure_mode` to the fuses, which is what makes the next binary independent of the
last). `Long`: the digest has seen the signed section and `Taken` cells, each as
stored, and each lies at its `At`, as `Out` of what was digested. `Short`: until the
binary is complete the digest has seen nothing and what was read lies at the
destination, header and all; when it is, the digest has seen the cells in order and
the header is gone; and a short binary that was split is never accepted, since what
is digested as its signed section is none. `Deciphering`: what a payload has still to
be deciphered for was verified.

The argument is by cells. Lemmas say of each operator what it does to every cell
(`CellsRead`, `PutWrites`, `CopyWrites`, `StoredCells`, `SubprocessDoes`); copies may
not run into cells still needed, which is where `RoomAssumption` and
`auth.safe = auth.dest + auth.processed` are used; and a sequence that equals another
cell by cell is that sequence (`TwoParts`, `IntactFits`). There is one lemma per
action, with one more for what each of the four kinds of block writes. At the end a
signature that fits means `Header.fed = SignedCells(binary)`, so that `Long` and
`Short` give the cells at the destination (`VerifiedIsIntact`); for an intact binary
they give that the digest saw what was signed (`IntactIsAccepted`).
`ModeIsThatOfFuses` and `ContextsAreClosed` follow from `Opened`. All of it holds for
any sizes of header, signed section and binaries, any threshold and any cut into
blocks, where the run has one small case of each.

**Only model-checked:** liveness (`CallReturns`, `CallsReturn`, `EveryCallReturns`),
which is out of this prover's reach, and everything of `SeEngine` and `DramRegions`.
What the folds over carveouts and bad pages or the chains of a cipher amount to
(`RegionsAreUsable`, `CipherIsChained`, `MacOfSlotKey`, `DigestOfMessage`,
`VerifiedMeansSigned`) rests on operators of the community modules that are recursive or
take an operator, about which the installed provers have no facts: an induction over
data. `LoadsApart` is a property of what those folds produce. `ListIsHeld` and
`OtherKeepsUnit` are properties of control, not of data: no obstacle is known, and
their proofs are open.

## 7. What is not modelled

Left out for good: the ciphers (an oracle or a term stands for them), the text of
the kernel command line and of the device tree, constant tables of controllers,
headers that only declare messages and layouts, single instructions (`lib/mce`,
`tz_init.c`); the partition loader, the scratch registers, VIC, timer, keystore and
ODM data, for the reasons in section 2 and in `PROJECT.json`.

Inside modelled files: `tegrabl_fuse_read`'s assembly of the unique chip id, the
simulation-platform branches, messages; in `ClockState` the rows of the table that
repeat a kind already there; in `PllBringUp` rates computed from dividers and spread
spectrum; in `ClockMessages` questions that change nothing; in `SeEngine` bit order
and DMA mapping, and the mask of a PSS encoding but for whether it fits; in
`AuthStream` a header nested in another's binary, and keys; in `DramRegions`
everything but addresses. The audio domain of the power gates is one sequence of
register writes and is left out.

## 8. Noted, not run

Disagreements met while reading that no run settles, for a maintainer to look at.

* "Restore back the original visibility" (`tegrabl_fuse_write.c:1346`): the
  confirmation after it makes the fuse registers visible again
  (`tegrabl_fuse_read.c:570`) and drops the old setting.
* "check that the correct data has been burned correctly by reading back the data"
  (`tegrabl_fuse_write.c:264`): the data read is dropped, and the confirmation
  compares the first word only.
* "tried to set 1 to 0" (`tegrabl_fuse_write.c:358`): for `BOOT_SECURITY_INFO` the
  request is compared with the security mode the register is mapped to, so that a
  request that clears nothing is refused. A register of 2 reads as 1, of 4 or 5 as 3:
  once a session has burnt one of these, or such a part of another mode, the same
  value is refused at every later session, or burnt and not confirmed, and the blob
  cannot be finished, nor the device locked with it. `Resumable` excepts the blobs
  with bit 1 or 2 of that fuse (`SparesMode`). Of the values with such a bit, 3 and 7
  are confirmed again when they have been burnt as a whole; so is 6.
* The verification of a session passes over the security mode, `SECURE_PROVISION_INFO`
  and `APB2JTAG_DISABLE` (`tegrabl_fuseburn.c:246`). `tegrabl_fuse_read` has no case
  for the last two, so that a blob which names one of them is refused there.
* A second `burn_fuses` of the buffer of a refused session burns the values that the
  first one XORed in it, verifies against them and reports success
  (`tegrabl_fuseburn.c:399`). `LoadedBlobBurnt` speaks of buffers as loaded.
* "rate at which clock will be resumed after enable/re-enable"
  (`tegrabl_clk_rst_private.h:300`): a regular divider rounds up from a rate that
  was rounded down (`tegrabl_clk_rst_priv.c:114`). An I2C clock asked for 20000 kHz
  resumes at 19428.
* "and lastly one BCT in block0, slot 0" (`lib/tegrabl_brbct/tegrabl_brbct.c:159`):
  that slot, where the boot ROM looks first, is written first (`:166`).
* The write functions of the tables write one chunk per copy: a "maximum transfer
  chunk size" smaller than the table (`include/lib/tegrabl_brbct.h`) leaves the rest
  out. The second copy goes to the slot size rounded up to the device's block, which
  need not be a slot. After a first update through the same handle the first copy
  goes to where the handle was left.
* After an update stopped at the second copy, one stopped at the first brings back
  the table before both, although the one between was booted.
* A blob that locks and names H2 has that value burnt before the code computed over
  the macro: the burn of the code is refused where it would clear a bit, with every other
  fuse of the blob burnt. Of two nodes for the security mode the later counts.
* `burn_fuses` returns `false`, which is `TEGRABL_NO_ERROR`, for a buffer without
  the magic.
* The level is the position of the highest bit; the comment at
  `include/lib/tegrabl_prevent_rollback.h:31` says the number of bits set. The two
  agree on the values the code burns, not on a fuse with holes.
* `1U << level` is undefined for a level of 32; the constant `ShiftWraps` models
  both outcomes.
* `tegrabl_car_set_clk_rate` enables a clock by writing 0x1, whatever its bit: for a
  module at another bit that enables a neighbour.
* The XUSB enable bits of the driver (2, 1, 3, 0) are not those of the table (0, 1,
  3, 4), and disabling ors nothing into the register, so they are never gated.
* QSPI sets its source and divider behind the table of the driver.
* `SRC_ID_LIST` is given eight sources and keeps seven; a source a module does not
  have is reported as set, with the multiplexer at 7 (`tegrabl_clk_rst.c:160`). The
  clock keeps its rate and hangs on the eighth input: for SDMMC the VCO of PLLC4,
  which may be off, for I2C the crystal, for QSPI and SATA a dummy. `RatedRuns`
  excepts such a source; without the exception TLC shows QSPI with PLLC4 chosen, a
  rate, and nothing selected.
* The divider is not masked to its field. Enabling a clock that runs resets it to
  its old resume rate. `tegrabl_assert_mem_rst` is unreachable.
* A rollback index of 8 to 11 names a key, of which `tegrabl_fuse_read` writes every
  word where the caller has one; the images of the model bring indices of one-word
  fuses or of none. A binary checked before `tegrabl_init_rollback_data` passes
  unchecked: the order is the boot stage's.

PLLs (`drivers/soc/t186/clocks`):

* A lock that comes with the last poll is reported as a failure
  (`tegrabl_clk_soc_priv.c:442`). A retry of PLLAON after a failure finds it enabled
  and reports success without a lock (`:461`); UTMIPLL's timeout is ignored
  (`:908`). `StaysUp` excepts PLLs whose polls ran out.
* `tegrabl_init_plle` programs PLLREFE anew where UFS runs from it;
  `tegrabl_init_pllm`, repeated where both channels are fed by PLLMSB, stops and
  starts it. `StaysUp` excepts these two.
* UFS's copy of the UTMIPLL sequence writes the word it computed for CFG0 into CFG2.
* `set_pllc4_muxed_clk` divides a rate by a frequency (`tegrabl_clk_soc.c:306`), so
  that it always takes OUT2, and drops the error. `get_pll_freq` divides by dividers
  it does not check.

Clocks by messages (`tegrabl_clk_bpmp.c`):

* The question whether a clock is on, not answered, is taken as a no (`:855`): a
  clock to disable stays on with success, a running PLL is given another rate (the
  two PLLs of XUSB and SATA are PLLP_OUT0, from which most of the SoC runs).
* A reset that is not answered is success (`:927`). `tegrabl_car_set_clk_rate`
  ignores the error of its enable, though its note says "it will also enable the
  clock". The initialisations of UFS and USB always report success. The properties
  claim nothing of a call with a lost message where the driver goes on.
* UFS's initialisation sets PLLU's rate although USB may run from it; its opposite
  leaves the first three clocks on and the resets released.
* For QSPI from CLK_M the driver's own number 1 goes to the BPMP, where it names the
  GPU's clock. PLLC4's output is chosen from variables that no one has set when the
  rate is not known (`:1223`), a division by zero; `div_round_off(n, 1)` is n + 1.
  `set_clk_src_rate` of PLLC4_MUXED leaves its answer unset, and the question for a
  source returns an error code as a source.
* Disabling a module the table does not have is success. The table of PLLs has no entry
  for PLLC, PLLC2 and PLLC3 (`:120`): to bring one up sends its messages to clock 0,
  which is FUSE.

Security engine (`drivers/se/tegrabl_se.c`):

* The subkeys of a MAC are generated with the mutex given back between programming
  the unit and starting it (`:1344`): with another master at work a MAC may be of
  anything. `MacOfSlotKey` says so. So is the state of a digest in the unit while
  the mutex is free (`:419`, `DigestOfMessage`).
* `generate_random_num` starts the engine without the mutex and unmaps the address
  of a pointer. The error status is sticky and read without the mutex.
* Subkeys are cached by slot number (`:1857`); the cache is not told of a new key,
  and slot 0 counts as cached from the start. No caller in this repository changes
  the key of a slot with a MAC under way.
* The failure path of `_tegrabl_se_sha_process_block` for an unknown hash releases a
  mutex it did not take; those of `se_aes_cmac_generate_subkey` keep one they did,
  but no caller reaches them.
* The buffers of the PSS check are sized by the first call, and the allocation of
  one is not checked (`:2142`); the loop over the padding never reports a byte that
  is not zero.
* Clearing a slot beyond the last is success.

Authentication (`lib/tegrabl_auth`):

* `tegrabl_auth_payload` reports no error for a type it does not support
  (`tegrabl_auth_binary.c:1024`).
* "Releases all resources acquired during authenticating": the contexts of a header
  that failed stay open; an error of the first context is overwritten by the
  second's; `contexts[0]` may be NULL when it is closed.
* A short binary of Nvidia's mode is not collected when loaded elsewhere (`:786`),
  and copies at `:758` may overlap. `IntactIsVerified` excepts short binaries that
  are loaded elsewhere or split.
* A header in a binary is verified, the binary's own is not then.
  `tegrabl_auth_get_size_from_header` accepts the number one past the last. A mode
  that `finalize` does not know sets an error and goes on; without any header it
  succeeds, unless one of Nvidia's was required.
* Under RSA with encryption the signature of the boot ROM's table is taken from the
  field for ECDSA (`tegrabl_verify_binary.c:112`); the RPB, "always PKC signed", is
  verified as the fuses say; `tegrabl_verify_cmachash` ignores an error of its
  initialisation.

DRAM (`lib/linuxboot/t186/linuxboot_helper.c`):

* "Add dram address range to a sorted linked list" (`:1180`) and "available_addr
  will be updated with an address that is not allocated" (`:1140`): the list is in
  the order of the calls, and one pass over it moves an address past each entry
  once. After the top of U-Boot's memory is reserved, the next loads are below it,
  and the second and the third get one address. `LoadsApart` excepts what follows an
  allocation below an earlier one.
* Removing the first entry copies the second over it, the link included, before that
  link is freed (`:1254`): of three entries or more the third goes back to the heap
  while it is linked, and the second is lost. An entry just made is never the first
  unless it is the only one; but where the list is out of order a place can be given
  that has the address of the first, and giving it back takes that one. The run
  reaches this after U-Boot's top was reserved before anything else; there the model
  ends, and `ListIsHeld` excepts it.
* Carveouts that nest give regions that overlap (`:1102`). A bad page in no free
  block ends the search, so that later bad pages are not cut, one region of size 0
  is counted too many (`:1018`), and a size may wrap. `RegionsAreUsable` is exact
  below the first such page. The free regions may hold the boot loader itself.
* A boot image at the very start of DRAM is refused; one with unreadable headers
  keeps its entry (`:1490`); one that is not Android's is validated for the size of
  its headers only, and may reach past 4 GB. DRAM that ends exactly at 4 GB reserves
  nothing for U-Boot. Where no address is found the getters return 0 without an
  error.
* The search reads the link of an entry it has freed (`:1238`), and does not check
  its allocation (`:1193`).

Two hazards of `PROJECT.json` have no property. The boot slot and the type of the
boot chain are written to the same scratch register by two functions
(`soc/t186/misc/a_b_helper.c:21`, `misc.c:354`). The test that is to find an
overflow of the caller's buffer refuses a partition smaller than it
(`lib/partitionloader/tegrabl_partition_loader.c:362`). Smaller ones in parts
without a module: an unknown flag is answered with success and no value
(`soc/t186/misc/misc.c:338`); a kernel's size is summed in 32 bits
(`tegrabl_partition_loader.c:254`); the wait of the VIC times out
(`drivers/vic/tegrabl_vic.c:289`); the counter of microseconds wraps
(`drivers/timer/tegrabl_timer.c:27`).
