------------------------------ MODULE SeEngine ------------------------------
(***************************************************************************)
(* The driver of the security engine SE0.                                  *)
(*                                                                         *)
(* SE0 has one AES, one SHA and one RSA unit, and is shared with another   *)
(* master through a hardware mutex.  A function of the driver is here the  *)
(* sequence of what it does to the engine: take the mutex, program a task, *)
(* start it, poll it, give the mutex back.  The other master may take the  *)
(* mutex wherever the driver has left it.                                  *)
(*                                                                         *)
(* A value is the term that computes it, a sequence of strings, so that    *)
(* two values are equal only if they are computed alike.                   *)
(***************************************************************************)
EXTENDS Naturals, SequencesExt

CONSTANTS
    Contexts,       \* what callers hash, cipher or digest, each once
    Param,          \* context -> [kind, slot, keysize, pkey, iv, msg]
    AesSlots,       \* the AES key slots that occur
    InitialKeys,    \* what the boot ROM left in them
    WriteLocked,    \* slots it has locked against writing
    RsaSlots,
    RsaKeys,        \* the keys that callers load into them
    Signatures,     \* [key, digest, and what its encoded message looks like]
    SE_AES_MAX_INPUT_SIZE, SE_SHA_MAX_INPUT_SIZE, SHA_INPUT_BLOCK_SZ,
    Workloads,      \* [contexts, functions, shared]: what callers use, and
                    \* the units that the other master uses
    MaxCalls,       \* bound on the calls of a behaviour
    MaxOther        \* bound on the tasks of the other master

Units == {"AES0", "SHA", "PKA0"}
NoKey == <<"none">>
Buf(name) == <<"driver", name>>   \* a buffer of the driver
Cached == 0 .. 1    \* aes_subkeys[SUBKEY_CACHE_SIZE]

ASSUME SeAssumption ==
    /\ AesSlots \subseteq 0 .. 15 /\ RsaSlots \subseteq 0 .. 3
    /\ WriteLocked \subseteq AesSlots
    /\ \A w \in Workloads : w.contexts \subseteq Contexts /\ w.shared \subseteq Units
    /\ {SE_AES_MAX_INPUT_SIZE, SE_SHA_MAX_INPUT_SIZE, SHA_INPUT_BLOCK_SZ}
            \subseteq Nat \ {0}
    /\ MaxCalls \in Nat /\ MaxOther \in Nat

VARIABLES
    mutex,      \* SE0_MUTEX: "free" or who holds it
    aes,        \* the AES key table
    rsa,        \* the RSA key table
    errStatus,  \* SE0_AES0_ERR_STATUS
    readLocked, \* slots whose key cannot be read any more
    regs,       \* unit -> the task programmed
    running,    \* unit -> the task it runs
    sha,        \* what the SHA unit has digested so far
    mem,        \* the buffers in memory
    done,       \* context -> the blocks its caller has passed
    cache,      \* aes_subkeys
    nextCached, \* subkey_cache_index
    pssBuffers, \* the static buffers of tegrabl_se_rsa_pss_verify
    call,       \* the call in progress
    todo,       \* what is left of it
    result,     \* what the last call returned
    workload,   \* the one of this behaviour
    other,      \* where the other master stands
    clean,      \* history: contexts whose key and subkeys stayed as they were
    calls, others

engine == << mutex, aes, rsa, errStatus, readLocked, regs, running, sha >>
driver == << done, cache, nextCached, pssBuffers, call, todo, result >>
vars == << engine, mem, driver, workload, other, clean, calls, others >>

---------------------------------------------------------------------------
(* Values.                                                                 *)

Zero == << >>
Idle == [user |-> "none"]
NoCall == [fn |-> "none"]

Encrypted(key, previous, block) ==
    <<"E">> \o key \o <<"(">> \o previous \o <<",">> \o block \o <<")">>
Decrypted(key, previous, block) ==
    <<"D">> \o key \o <<"(">> \o previous \o <<",">> \o block \o <<")">>

CbcLast(key, iv, blocks) ==
    FoldLeft(LAMBDA v, b : Encrypted(key, v, b), iv, blocks)
CbcEncrypt(key, iv, blocks) ==
    [i \in DOMAIN blocks |-> CbcLast(key, iv, SubSeq(blocks, 1, i))]
CbcDecrypt(key, iv, blocks) ==
    [i \in DOMAIN blocks |->
        Decrypted(key, IF i = 1 THEN iv ELSE blocks[i - 1], blocks[i])]

\* K1 is L shifted by one bit, and XORed with a constant if a bit is lost.
Subkey(l) == <<"K1">> \o l
Masked(block, pk1) == block \o <<"^">> \o pk1
Mac(key, blocks) ==
    Encrypted(key, CbcLast(key, Zero, Front(blocks)),
              Masked(Last(blocks), Subkey(Encrypted(key, Zero, Zero))))

Digest(blocks) == <<"H">> \o FlattenSeq(blocks)
\* H' of the PSS encoding: eight zero octets, the digest, the salt.
PssHash(digest) == <<"PSS">> \o digest

Half(v, i) == IF v = Zero THEN "0" ELSE v[i]

\* A slot keeps words 0-3 and 4-7; a 128-bit key uses the first half.
Key(slot, keysize) ==
    IF keysize = 128 THEN <<aes[slot].lo>> ELSE <<aes[slot].lo, aes[slot].hi>>

Sizes(total, max) ==
    [i \in 1 .. ((total + max - 1) \div max) |->
        IF i * max <= total THEN max ELSE total % max]
\* The pieces a loop of the driver cuts `total' blocks from `first' on into.
Pieces(first, total, max) ==
    [i \in DOMAIN Sizes(total, max) |->
        [from |-> first + (i - 1) * max, n |-> Sizes(total, max)[i]]]

---------------------------------------------------------------------------
(* What the functions of the driver do, as sequences of steps.             *)

Get == <<[op |-> "get"]>>
Release == <<[op |-> "release"]>>
Program(unit, task) == <<[op |-> "program", unit |-> unit, task |-> task]>>
Start(unit, lastBuf) == <<[op |-> "start", unit |-> unit, last |-> lastBuf]>>
Poll(unit) == <<[op |-> "poll", unit |-> unit]>>
Step(op) == <<[op |-> op]>>

Run(unit, task, lastBuf) ==
    Get \o Program(unit, task) \o Start(unit, lastBuf) \o Poll(unit) \o Release

\* tegrabl_se_aes_write_key_iv and tegrabl_se_aes_read_key_iv.
WriteKeyIv(slot, keysize, field, from) ==
    Get \o <<[op |-> "write", slot |-> slot, keysize |-> keysize,
              field |-> field, from |-> from]>> \o Release
ReadKeyIv(slot, to) ==
    Get \o <<[op |-> "read", slot |-> slot, to |-> to]>> \o Release

\* tegrabl_se_setup_op_mode and the addresses; the blocks are those of the
\* context from `from' on, the last of them masked with K1 or not.
AesTask(c, mode, iv, from, n, mask, dst) ==
    [user |-> "cpu", mode |-> mode, slot |-> Param[c].slot,
     keysize |-> Param[c].keysize, iv |-> iv, c |-> c,
     from |-> from, n |-> n, mask |-> mask, dst |-> dst]

\* Mutant of EncryptDecrypt: every part of the message starts from the first IV.
EncryptDecryptAnew(c, first, p) ==
    Run("AES0", AesTask(c, Param[c].kind, "oiv", p.from, p.n, FALSE, <<c, "out">>), TRUE)

\* tegrabl_se_aes_encrypt_decrypt
EncryptDecrypt(c, first, p) ==
    Run("AES0", AesTask(c, Param[c].kind, IF first THEN "oiv" ELSE "uiv",
                        p.from, p.n, FALSE, <<c, "out">>), TRUE)

ClearIvs(c) ==
    WriteKeyIv(Param[c].slot, 128, "oiv", Buf("zero"))
        \o WriteKeyIv(Param[c].slot, 128, "uiv", Buf("zero"))

\* Mutant of GenerateSubkey: the mutex is kept while the IVs are cleared.
GenerateSubkeyHolding(c) ==
    Get \o Program("AES0", AesTask(c, "hash", "oiv", 0, 1, FALSE, Buf("L"))) \o ClearIvs(c)
        \o Start("AES0", TRUE) \o Poll("AES0") \o Release
        \o <<[op |-> "keepSubkeys", c |-> c]>>

\* se_aes_cmac_generate_subkey: the mutex is given back between programming
\* the task and starting it, for the two writes to the key table.
GenerateSubkey(c) ==
    Get \o Program("AES0", AesTask(c, "hash", "oiv", 0, 1, FALSE, Buf("L"))) \o Release
        \o ClearIvs(c)
        \o Get \o Start("AES0", TRUE) \o Poll("AES0") \o Release
        \o <<[op |-> "keepSubkeys", c |-> c]>>

\* Mutant of HashLast: the masked block does not follow the hash before it.
HashLastUnchained(c, p) ==
    (IF p.n > 1
     THEN Run("AES0", AesTask(c, "hash", "uiv", p.from, p.n - 1, FALSE,
                              <<c, "hash">>), FALSE)
     ELSE << >>)
    \o Run("AES0", AesTask(c, "hash", "uiv", p.from + p.n - 1, 1, TRUE,
                           <<c, "hash">>), TRUE)

\* se_aes_cmac_hash_blocks
HashLast(c, p) ==
    (IF p.n > 1
     THEN Poll("AES0")
            \o Run("AES0", AesTask(c, "hash", "uiv", p.from, p.n - 1, FALSE,
                                   <<c, "hash">>), FALSE)
            \o WriteKeyIv(Param[c].slot, 128, "uiv", <<c, "hash">>)
     ELSE << >>)
    \o Run("AES0", AesTask(c, "hash", "uiv", p.from + p.n - 1, 1, TRUE,
                           <<c, "hash">>), TRUE)
HashMiddle(c, p) ==
    Poll("AES0") \o Run("AES0", AesTask(c, "hash", "uiv", p.from, p.n, FALSE,
                                        <<c, "hash">>), FALSE)
HashBlocks(c, p, first, last) ==
    (IF first THEN ClearIvs(c) ELSE << >>)
    \o (IF last THEN HashLast(c, p) ELSE HashMiddle(c, p))

\* The subkeys come from the cache if an entry bears the number of the slot.
Subkeys(c) ==
    LET hits == {i \in Cached : cache[i].keyslot = Param[c].slot}
    IN  IF hits = {} THEN GenerateSubkey(c)
        ELSE <<[op |-> "useSubkeys", c |-> c, i |-> IF 0 \in hits THEN 0 ELSE 1]>>

\* _tegrabl_se_aes_process_block
ProcessPiece(c, p) ==
    LET first == p.from = 1
        last  == p.from + p.n - 1 = Len(Param[c].msg)
        slot  == Param[c].slot
        hash  == Param[c].kind = "hash"
    IN  (IF first /\ Param[c].pkey # NoKey
         THEN WriteKeyIv(slot, Param[c].keysize, "key", <<c, "pkey">>) ELSE << >>)
        \o (IF first /\ hash THEN Subkeys(c) ELSE << >>)
        \o (IF hash
            THEN (IF first THEN << >> ELSE WriteKeyIv(slot, 128, "uiv", <<c, "hash">>))
                    \o HashBlocks(c, p, first, last)
            ELSE WriteKeyIv(slot, 128, IF first THEN "oiv" ELSE "uiv", <<c, "iv">>)
                    \o EncryptDecrypt(c, first, p)
                    \o ReadKeyIv(slot, <<c, "iv">>))

\* tegrabl_se_aes_process_block: no more than the unit takes at a time.
AesProcessBlock(c, first, n) ==
    LET pieces == Pieces(first, n, SE_AES_MAX_INPUT_SIZE)
    IN  FlattenSeq([i \in DOMAIN pieces |-> ProcessPiece(c, pieces[i])])

\* Mutant of ShaPiece: every piece but the last begins a digest.
ShaPieceAnew(msg, left, n, dst) ==
    Run("SHA", [user |-> "cpu", init |-> left > n \/ left = Len(msg), total |-> Len(msg),
                left |-> left, dst |-> dst, src |-> Buf("none"),
                blocks |-> SubSeq(msg, Len(msg) - left + 1, Len(msg) - left + n)],
        left = n)

\* _tegrabl_se_sha_process_block: the unit begins anew if nothing of the
\* message has been digested, and ends it with the last of its blocks.
ShaPiece(msg, left, n, dst) ==
    Run("SHA", [user |-> "cpu", init |-> left = Len(msg), total |-> Len(msg),
                left |-> left, dst |-> dst, src |-> Buf("none"),
                blocks |-> SubSeq(msg, Len(msg) - left + 1, Len(msg) - left + n)],
        left = n)

\* tegrabl_se_sha_process_block and tegrabl_se_sha_process_payload
ShaProcessBlock(msg, left, n, dst) ==
    LET pieces == Pieces(0, n, SE_SHA_MAX_INPUT_SIZE)
    IN  FlattenSeq([i \in DOMAIN pieces |->
            ShaPiece(msg, left - pieces[i].from, pieces[i].n, dst)])
ShaProcessPayload(msg, dst) ==
    LET pieces == Pieces(0, Len(msg), SHA_INPUT_BLOCK_SZ)
    IN  FlattenSeq([i \in DOMAIN pieces |->
            ShaProcessBlock(msg, Len(msg) - pieces[i].from, pieces[i].n, dst)])

\* tegrabl_se_rsa_modular_exp refuses a destination that is NULL.
ModularExp(slot, signature) ==
    Run("PKA0", [user |-> "cpu", slot |-> slot, src |-> signature, dst |-> Buf("em")], TRUE)

\* tegrabl_se_rsa_pss_verify after its arguments and its buffers: the message
\* representative, the checks on it, one digest for the mask, one for H'.
PssVerify(slot, signature, hash) ==
    ModularExp(slot, signature)
        \o Step("checkEncoding")
        \o ShaPiece(<< <<"mgf">> >>, 1, 1, Buf("mask"))
        \o <<[op |-> "encode", hash |-> hash]>>
        \o Run("SHA", [user |-> "cpu", init |-> TRUE, total |-> 1, left |-> 1,
                       dst |-> Buf("mPrime"), src |-> Buf("mPrime"), blocks |-> << >>], TRUE)
        \o Step("compare")

\* tegrabl_se_clear_aes_keyslot
ClearKeyslot(slot) ==
    WriteKeyIv(slot, 256, "key", Buf("zero"))
        \o WriteKeyIv(slot, 128, "oiv", Buf("zero"))
        \o WriteKeyIv(slot, 128, "uiv", Buf("zero"))
        \o Step("errStatus")

\* Mutant of InitDrbg: the random numbers are programmed without the mutex.
InitDrbgUnlocked(dst) == Program("AES0", [user |-> "cpu", mode |-> "rng", dst |-> dst])
\* tegrabl_se_init_drbg and tegrabl_se_generate_random_num: the unit is
\* started without the mutex.
InitDrbg(dst) ==
    Get \o Program("AES0", [user |-> "cpu", mode |-> "rng", dst |-> dst]) \o Release
GenerateRandom ==
    Get \o Release
        \o InitDrbg(Buf("random")) \o Start("AES0", TRUE) \o Poll("AES0")
        \o InitDrbg(Buf("SRK")) \o Start("AES0", TRUE) \o Poll("AES0")

---------------------------------------------------------------------------
(* The calls.                                                              *)

Return == Step("return")

Begin(c, steps) ==
    /\ call = NoCall /\ calls < MaxCalls /\ c.fn \in workload.functions
    /\ calls' = calls + 1
    /\ call' = c
    /\ todo' = steps \o Return
    /\ result' = "none"
    /\ UNCHANGED << engine, cache, nextCached, workload, other, others >>

NotStarted(c) == done[c] = 0
Finished(c) == done[c] = Len(Param[c].msg)
Open(c) == ~NotStarted(c) /\ ~Finished(c)

\* The subkeys that a hash context would find are those of its key.
SubkeysCurrent(c) ==
    \A i \in Cached :
        cache[i].keyslot = Param[c].slot =>
            cache[i].pk1 = Subkey(Encrypted(
                IF Param[c].pkey = NoKey \/ Param[c].slot \in WriteLocked
                THEN Key(Param[c].slot, Param[c].keysize) ELSE <<Half(Param[c].pkey, 1)>>,
                Zero, Zero))

\* The open contexts on a slot whose key is about to change.
Rekeyed(slot) == {c \in Contexts : Param[c].slot = slot /\ Open(c)}

AesCall(c, n) ==
    /\ Param[c].kind \in {"encrypt", "decrypt", "hash"}
    /\ n \in 1 .. (Len(Param[c].msg) - done[c])
    /\ Begin([fn |-> "aes", c |-> c], AesProcessBlock(c, done[c] + 1, n))
    /\ done' = [done EXCEPT ![c] = @ + n]
    /\ clean' = [x \in Contexts |->
                    CASE x = c /\ NotStarted(c) ->
                            Param[c].kind = "hash" => SubkeysCurrent(c)
                      [] x # c /\ NotStarted(c) /\ Param[c].pkey # NoKey
                               /\ x \in Rekeyed(Param[c].slot) -> FALSE
                      [] OTHER -> clean[x]]
    /\ UNCHANGED << mem, pssBuffers >>

\* Callers finish a digest before they begin another.
ShaIdle == \A c \in Contexts : Param[c].kind = "sha" => ~Open(c)

ShaCall(c, n) ==
    /\ Param[c].kind = "sha"
    /\ ShaIdle \/ Open(c)
    /\ n \in 1 .. (Len(Param[c].msg) - done[c])
    /\ Begin([fn |-> "sha", c |-> c],
             ShaProcessBlock(Param[c].msg, Len(Param[c].msg) - done[c], n, <<c, "hash">>))
    /\ done' = [done EXCEPT ![c] = @ + n]
    /\ UNCHANGED << mem, pssBuffers, clean >>

ShaPayloadCall(c) ==
    /\ Param[c].kind = "sha" /\ NotStarted(c) /\ ShaIdle
    /\ Begin([fn |-> "sha", c |-> c], ShaProcessPayload(Param[c].msg, <<c, "hash">>))
    /\ done' = [done EXCEPT ![c] = Len(Param[c].msg)]
    /\ UNCHANGED << mem, pssBuffers, clean >>

\* Arguments out of range, or no memory for a buffer: nothing is done.
\* tegrabl_se_clear_aes_keyslot returns TEGRABL_NO_ERROR for a slot too high.
RefusedCall(outcome) ==
    /\ outcome \in {"INVALID", "NO_MEMORY", "ok"}
    /\ Begin([fn |-> "refused"], <<[op |-> "fail", error |-> outcome]>>)
    /\ UNCHANGED << mem, done, pssBuffers, clean >>

\* A digest of an unknown kind: _tegrabl_se_sha_process_block gives back the
\* mutex that it has not taken.
ShaRefusedCall ==
    /\ Begin([fn |-> "refused"], Release \o <<[op |-> "fail", error |-> "INVALID"]>>)
    /\ UNCHANGED << mem, done, pssBuffers, clean >>

RsaWriteKeyCall(slot, key) ==
    /\ Begin([fn |-> "rsaKey"],
             Get \o <<[op |-> "rsaWrite", slot |-> slot, key |-> key]>> \o Release)
    /\ UNCHANGED << mem, done, pssBuffers, clean >>

\* The static buffers are allocated by the first call, and their size is set
\* before: after an allocation that failed they stay NULL, and every later
\* call is refused by tegrabl_se_rsa_modular_exp.
PssSteps(slot, signature, hash) ==
    CASE pssBuffers' = "allocated" -> PssVerify(slot, signature, hash)
      [] pssBuffers = "none" -> <<[op |-> "fail", error |-> "NO_MEMORY"]>>
      [] OTHER -> <<[op |-> "fail", error |-> "INVALID"]>>

AllocatePss ==
    pssBuffers' \in IF pssBuffers = "none" THEN {"allocated", "NULL"} ELSE {pssBuffers}

PssVerifyCall(slot, signature, c) ==
    /\ Param[c].kind = "sha" /\ Finished(c) /\ ShaIdle
    /\ AllocatePss
    /\ Begin([fn |-> "pss", slot |-> slot, signature |-> signature, hash |-> mem[<<c, "hash">>]],
             PssSteps(slot, signature, <<c, "hash">>))
    /\ UNCHANGED << mem, done, clean >>

\* tegrabl_se_hash_and_rsa_pss_verify digests the message in one piece.
HashAndPssVerifyCall(slot, signature, c) ==
    /\ Param[c].kind = "sha" /\ ShaIdle
    /\ Len(Param[c].msg) <= SE_SHA_MAX_INPUT_SIZE
    /\ AllocatePss
    /\ Begin([fn |-> "pss", slot |-> slot, signature |-> signature, hash |-> Digest(Param[c].msg)],
             ShaPiece(Param[c].msg, Len(Param[c].msg), Len(Param[c].msg), Buf("messageHash"))
                \o PssSteps(slot, signature, Buf("messageHash")))
    /\ UNCHANGED << mem, done, clean >>

ClearCall(slot) ==
    /\ Begin([fn |-> "clear", slot |-> slot], ClearKeyslot(slot))
    /\ clean' = [c \in Contexts |-> clean[c] /\ c \notin Rekeyed(slot)]
    /\ UNCHANGED << mem, done, pssBuffers >>

\* tegrabl_keyslot_check_if_key_is_nonzero: encrypts one block, and compares
\* it with what a key of zeroes makes of it.
KeyCheckCall(c) ==
    /\ Param[c].kind = "check"
    /\ mem' = [mem EXCEPT ![<<c, "iv">>] = Zero, ![<<c, "out">>] = << >>]
    /\ Begin([fn |-> "check", slot |-> Param[c].slot],
             WriteKeyIv(Param[c].slot, 128, "oiv", <<c, "iv">>)
                \o Run("AES0", AesTask(c, "encrypt", "oiv", 1, 1, FALSE, <<c, "out">>), TRUE)
                \o ReadKeyIv(Param[c].slot, <<c, "iv">>)
                \o <<[op |-> "compareText", c |-> c]>>)
    /\ UNCHANGED << done, pssBuffers, clean >>

\* tegrabl_se_read_lock_aes_keyslot, without the mutex.
ReadLockCall(slot) ==
    /\ slot \notin readLocked
    /\ Begin([fn |-> "readLock"], <<[op |-> "readLock", slot |-> slot]>>)
    /\ UNCHANGED << mem, done, pssBuffers, clean >>

RandomCall ==
    /\ \/ Begin([fn |-> "random"], GenerateRandom)
       \/ Begin([fn |-> "random"],
                Get \o Release \o <<[op |-> "fail", error |-> "NO_MEMORY"]>>)
    /\ mem' = [mem EXCEPT ![Buf("random")] = Zero, ![Buf("SRK")] = Zero]
    /\ UNCHANGED << done, pssBuffers, clean >>

---------------------------------------------------------------------------
(* The steps of a call.                                                    *)

Now == Head(todo)
At(op) == todo # << >> /\ Now.op = op
Then == todo' = Tail(todo)

rest == << done, pssBuffers, call, workload, other, clean, calls, others >>

\* tegrabl_get_se0_mutex spins until the hardware grants the mutex.
GetMutex ==
    /\ At("get") /\ mutex = "free"
    /\ mutex' = "cpu" /\ Then
    /\ UNCHANGED << aes, rsa, errStatus, readLocked, regs, running, sha, mem, cache,
                    nextCached, result, rest >>

\* Giving back a mutex that another master holds changes nothing.
ReleaseMutex ==
    /\ At("release")
    /\ mutex' = (IF mutex = "cpu" THEN "free" ELSE mutex) /\ Then
    /\ UNCHANGED << aes, rsa, errStatus, readLocked, regs, running, sha, mem, cache,
                    nextCached, result, rest >>

Written(slot, keysize, field, v) ==
    CASE field = "key" ->
            [aes[slot] EXCEPT !.lo = Half(v, 1),
                              !.hi = IF keysize = 256 THEN Half(v, 2) ELSE @]
      [] field = "oiv" -> [aes[slot] EXCEPT !.oiv = v]
      [] field = "uiv" -> [aes[slot] EXCEPT !.uiv = v]

\* A write to a locked slot has no effect but an error in the status.
WriteKeyTable ==
    /\ At("write") /\ Then
    /\ IF Now.slot \in WriteLocked /\ Now.field = "key"
       THEN errStatus' = TRUE /\ UNCHANGED aes
       ELSE /\ aes' = [aes EXCEPT ![Now.slot] =
                            Written(Now.slot, Now.keysize, Now.field, mem[Now.from])]
            /\ UNCHANGED errStatus
    /\ UNCHANGED << mutex, rsa, readLocked, regs, running, sha, mem, cache, nextCached,
                    result, rest >>

ReadKeyTable ==
    /\ At("read") /\ Then
    /\ mem' = [mem EXCEPT ![Now.to] = aes[Now.slot].uiv]
    /\ UNCHANGED << engine, cache, nextCached, result, rest >>

WriteRsaKey ==
    /\ At("rsaWrite") /\ Then
    /\ rsa' = [rsa EXCEPT ![Now.slot] = Now.key]
    /\ UNCHANGED << mutex, aes, errStatus, readLocked, regs, running, sha, mem, cache,
                    nextCached, result, rest >>

ProgramUnit ==
    /\ At("program") /\ Then
    /\ regs' = [regs EXCEPT ![Now.unit] = Now.task]
    /\ UNCHANGED << mutex, aes, rsa, errStatus, readLocked, running, sha, mem, cache,
                    nextCached, result, rest >>

\* tegrabl_start_se0_operation: the unit runs whatever is in its registers.
StartUnit ==
    /\ At("start") /\ Then
    /\ running' = [running EXCEPT ![Now.unit] =
                      IF @ = Idle THEN [last |-> Now.last] @@ regs[Now.unit] ELSE @]
    /\ UNCHANGED << mutex, aes, rsa, errStatus, readLocked, regs, sha, mem, cache,
                    nextCached, result, rest >>

PollUnit ==
    /\ At("poll") /\ running[Now.unit] = Idle /\ Then
    /\ UNCHANGED << engine, mem, cache, nextCached, result, rest >>

KeepSubkeys ==
    /\ At("keepSubkeys") /\ Then
    /\ mem' = [mem EXCEPT ![<<Now.c, "pk1">>] = Subkey(mem[Buf("L")])]
    /\ cache' = [cache EXCEPT ![nextCached] =
                    [keyslot |-> Param[Now.c].slot, pk1 |-> Subkey(mem[Buf("L")])]]
    /\ nextCached' = (nextCached + 1) % 2
    /\ UNCHANGED << engine, result, rest >>

UseSubkeys ==
    /\ At("useSubkeys") /\ Then
    /\ mem' = [mem EXCEPT ![<<Now.c, "pk1">>] = cache[Now.i].pk1]
    /\ UNCHANGED << engine, cache, nextCached, result, rest >>

LockRead ==
    /\ At("readLock") /\ Then
    /\ readLocked' = readLocked \cup {Now.slot}
    /\ UNCHANGED << mutex, aes, rsa, errStatus, regs, running, sha, mem, cache,
                    nextCached, result, rest >>

\* A step that may end the call with an error, or go on.
Judge(ok, error) ==
    IF ok THEN Then /\ UNCHANGED result ELSE todo' = Return /\ result' = error

\* Mutant of CheckEncoding: the last octet of the message is not looked at.
CheckEncodingNoTrailer ==
    /\ At("checkEncoding")
    /\ LET em == mem[Buf("em")]
       IN  Judge(em.topBitsClear /\ em.separator, "VERIFY_FAILED")
    /\ UNCHANGED << engine, mem, cache, nextCached, rest >>

\* Steps 3 to 10 of the verification.  The loop over the leftmost octets of
\* DB stops at the first that is not zero without an error.
CheckEncoding ==
    /\ At("checkEncoding")
    /\ LET em == mem[Buf("em")]
       IN  Judge(em.trailer /\ em.topBitsClear /\ em.separator, "VERIFY_FAILED")
    /\ UNCHANGED << engine, mem, cache, nextCached, rest >>

EncodeMessage ==
    /\ At("encode") /\ Then
    /\ mem' = [mem EXCEPT ![Buf("mPrime")] = mem[Now.hash]]
    /\ UNCHANGED << engine, cache, nextCached, result, rest >>

CompareHash ==
    /\ At("compare")
    /\ Judge(mem[Buf("em")].h = mem[Buf("mPrime")], "VERIFY_FAILED")
    /\ UNCHANGED << engine, mem, cache, nextCached, rest >>

CompareText ==
    /\ At("compareText")
    /\ Judge(mem[<<Now.c, "out">>] # CbcEncrypt(<<"0">>, Zero, Param[Now.c].msg), "zero")
    /\ UNCHANGED << engine, mem, cache, nextCached, rest >>

CheckErrStatus ==
    /\ At("errStatus")
    /\ Judge(~errStatus, "WRITE_FAILED")
    /\ UNCHANGED << engine, mem, cache, nextCached, rest >>

FailCall ==
    /\ At("fail")
    /\ Judge(FALSE, Now.error)
    /\ UNCHANGED << engine, mem, cache, nextCached, rest >>

ReturnFromCall ==
    /\ At("return") /\ Then
    /\ result' = (IF result = "none" THEN "ok" ELSE result)
    /\ call' = NoCall
    /\ UNCHANGED << engine, mem, done, cache, nextCached, pssBuffers, workload, other,
                    clean, calls, others >>

CpuStep ==
    \/ GetMutex \/ ReleaseMutex \/ WriteKeyTable \/ ReadKeyTable \/ WriteRsaKey
    \/ ProgramUnit \/ StartUnit \/ PollUnit \/ KeepSubkeys \/ UseSubkeys
    \/ LockRead \/ CheckEncoding \/ EncodeMessage \/ CompareHash \/ CompareText
    \/ CheckErrStatus \/ FailCall \/ ReturnFromCall

---------------------------------------------------------------------------
(* The units (external): a task reads its blocks and writes its result.    *)

AesBlocks(t) ==
    IF t.dst = Buf("L") THEN <<Zero>>
    ELSE LET blocks == SubSeq(Param[t.c].msg, t.from, t.from + t.n - 1)
         IN  IF t.mask THEN <<Masked(blocks[1], mem[<<t.c, "pk1">>])>> ELSE blocks

\* A cipher leaves the last block of ciphertext as the updated IV.
FinishCipher(t) ==
    LET key    == Key(t.slot, t.keysize)
        iv     == IF t.iv = "oiv" THEN aes[t.slot].oiv ELSE aes[t.slot].uiv
        blocks == AesBlocks(t)
    IN  IF t.mode = "encrypt"
        THEN /\ mem' = [mem EXCEPT ![t.dst] = @ \o CbcEncrypt(key, iv, blocks)]
             /\ aes' = [aes EXCEPT ![t.slot].uiv = CbcLast(key, iv, blocks)]
        ELSE /\ mem' = [mem EXCEPT ![t.dst] = @ \o CbcDecrypt(key, iv, blocks)]
             /\ aes' = [aes EXCEPT ![t.slot].uiv = Last(blocks)]

FinishHash(t) ==
    LET iv == IF t.iv = "oiv" THEN aes[t.slot].oiv ELSE aes[t.slot].uiv
    IN  /\ mem' = [mem EXCEPT ![t.dst] = CbcLast(Key(t.slot, t.keysize), iv, AesBlocks(t))]
        /\ UNCHANGED aes

FinishAes(t) ==
    /\ CASE t.user = "other" -> UNCHANGED << aes, mem >>
         [] t.user = "cpu" /\ t.mode = "hash" -> FinishHash(t)
         [] t.user = "cpu" /\ t.mode = "rng" ->
                mem' = [mem EXCEPT ![t.dst] = <<"random">>] /\ UNCHANGED aes
         [] OTHER -> FinishCipher(t)
    /\ UNCHANGED sha

\* The digest of the blocks so far stays in the unit.
FinishSha(t) ==
    LET input == IF t.src = Buf("none") THEN t.blocks ELSE <<PssHash(mem[t.src])>>
        state == CASE t.init -> input
                   [] ~t.init /\ Len(sha) = t.total - t.left -> sha \o input
                   [] OTHER -> << <<"bad">> >>
    IN  IF t.user = "other"
        THEN sha' = << <<"other">> >> /\ UNCHANGED << mem, aes >>
        ELSE /\ sha' = state
             /\ mem' = [mem EXCEPT ![t.dst] =
                           IF t.last THEN Digest(state) ELSE <<"partial">>]
             /\ UNCHANGED aes

FinishRsa(t) ==
    /\ IF t.user = "other" THEN UNCHANGED mem
       ELSE mem' = [mem EXCEPT ![t.dst] =
                [h |-> IF rsa[t.slot] = t.src.key
                       THEN Digest(<<PssHash(t.src.digest)>>) ELSE <<"unrelated">>,
                 trailer |-> t.src.trailer, topBitsClear |-> t.src.topBitsClear,
                 separator |-> t.src.separator]]
    /\ UNCHANGED << aes, sha >>

UnitFinishes(unit) ==
    /\ running[unit] # Idle
    /\ CASE unit = "AES0" -> FinishAes(running[unit])
         [] unit = "SHA"  -> FinishSha(running[unit])
         [] unit = "PKA0" -> FinishRsa(running[unit])
    /\ running' = [running EXCEPT ![unit] = Idle]
    /\ UNCHANGED << mutex, rsa, errStatus, readLocked, regs, driver, workload, other,
                    clean, calls, others >>

(* The other master (external): one task at a time, under the mutex.       *)

OtherUnchanged ==
    UNCHANGED << aes, rsa, errStatus, readLocked, sha, mem, driver, workload, clean, calls >>

OtherGets ==
    /\ other = "idle" /\ mutex = "free" /\ workload.shared # {} /\ others < MaxOther
    /\ mutex' = "other" /\ other' = "got" /\ others' = others + 1
    /\ UNCHANGED << regs, running >> /\ OtherUnchanged

OtherPrograms(unit) ==
    /\ other = "got" /\ unit \in workload.shared
    /\ regs' = [regs EXCEPT ![unit] = [user |-> "other"]]
    /\ other' = unit
    /\ UNCHANGED << mutex, running, others >> /\ OtherUnchanged

OtherStarts(unit) ==
    /\ other = unit /\ running[unit] = Idle
    /\ running' = [running EXCEPT ![unit] = regs[unit]]
    /\ other' = "started"
    /\ UNCHANGED << mutex, regs, others >> /\ OtherUnchanged

OtherReleases ==
    /\ other = "started" /\ \A unit \in workload.shared : running[unit] = Idle
    /\ mutex' = "free" /\ other' = "idle"
    /\ UNCHANGED << regs, running, others >> /\ OtherUnchanged

OtherStep ==
    \/ OtherGets \/ OtherReleases
    \/ \E unit \in Units : OtherPrograms(unit) \/ OtherStarts(unit)

---------------------------------------------------------------------------
Buffers ==
    {Buf(n) : n \in {"zero", "L", "em", "mask", "mPrime", "messageHash", "random", "SRK"}}
        \cup (Contexts \X {"iv", "hash", "pk1", "out", "pkey"})

Init ==
    /\ mutex = "free" /\ errStatus = FALSE /\ readLocked = {}
    /\ aes = [s \in AesSlots |-> InitialKeys[s] @@ [oiv |-> Zero, uiv |-> Zero]]
    /\ rsa = [s \in RsaSlots |-> "0"]
    /\ regs = [u \in Units |-> Idle]
    /\ running = [u \in Units |-> Idle]
    /\ sha = << >>
    /\ mem = [b \in Buffers |->
                IF b[2] = "pkey" THEN Param[b[1]].pkey
                ELSE IF b[2] = "iv" THEN Param[b[1]].iv ELSE Zero]
    /\ done = [c \in Contexts |-> 0]
    /\ cache = [i \in Cached |-> [keyslot |-> 0, pk1 |-> Zero]]
    /\ nextCached = 0
    /\ pssBuffers = "none"
    /\ call = NoCall /\ todo = << >> /\ result = "none"
    /\ workload \in Workloads /\ other = "idle"
    /\ clean = [c \in Contexts |-> TRUE]
    /\ calls = 0 /\ others = 0

Call ==
    \/ \E c \in workload.contexts : \E n \in 1 .. Len(Param[c].msg) : AesCall(c, n) \/ ShaCall(c, n)
    \/ \E c \in workload.contexts : ShaPayloadCall(c) \/ KeyCheckCall(c)
    \/ \E s \in RsaSlots, k \in RsaKeys : RsaWriteKeyCall(s, k)
    \/ \E s \in RsaSlots, sig \in Signatures, c \in workload.contexts :
            PssVerifyCall(s, sig, c) \/ HashAndPssVerifyCall(s, sig, c)
    \/ \E s \in AesSlots : ClearCall(s) \/ ReadLockCall(s)
    \/ \E e \in {"INVALID", "NO_MEMORY", "ok"} : RefusedCall(e)
    \/ ShaRefusedCall \/ RandomCall

Next == Call \/ CpuStep \/ (\E u \in Units : UnitFinishes(u)) \/ OtherStep

\* The driver goes on, a unit ends its task, and the other master ends what
\* it has begun; nobody has to call, and the other master need not begin.
Fairness ==
    /\ WF_vars(CpuStep)
    /\ \A u \in Units : WF_vars(UnitFinishes(u))
    /\ WF_vars(OtherReleases \/ \E u \in Units : OtherPrograms(u) \/ OtherStarts(u))

Spec == Init /\ [][Next]_vars /\ Fairness
=============================================================================
