----------------------------- MODULE MCSeEngine -----------------------------
(* SeEngine on a small instance, its properties and their mutants' forms.  *)
EXTENDS SeEngine

Blocks(name, n) == [i \in 1 .. n |-> <<name, ToString(i)>>]

MCContexts == {"kernel", "stream", "mac", "again", "zeroMac", "digest", "probe"}
MCParam ==
    [kernel  |-> [kind |-> "decrypt", slot |-> 14, keysize |-> 128, pkey |-> NoKey,
                  iv |-> <<"n">>, msg |-> Blocks("k", 3)],
     stream  |-> [kind |-> "encrypt", slot |-> 14, keysize |-> 256, pkey |-> <<"a", "b">>,
                  iv |-> <<"iv">>, msg |-> Blocks("s", 2)],
     mac     |-> [kind |-> "hash", slot |-> 14, keysize |-> 128, pkey |-> NoKey,
                  iv |-> Zero, msg |-> Blocks("m", 3)],
     again   |-> [kind |-> "hash", slot |-> 14, keysize |-> 128, pkey |-> NoKey,
                  iv |-> Zero, msg |-> Blocks("a", 1)],
     zeroMac |-> [kind |-> "hash", slot |-> 1, keysize |-> 128, pkey |-> Zero,
                  iv |-> Zero, msg |-> Blocks("z", 2)],
     digest  |-> [kind |-> "sha", slot |-> 0, keysize |-> 128, pkey |-> NoKey,
                  iv |-> Zero, msg |-> Blocks("d", 3)],
     probe   |-> [kind |-> "check", slot |-> 14, keysize |-> 128, pkey |-> NoKey,
                  iv |-> Zero, msg |-> Blocks("sample", 1)]]
MCInitialKeys == (1 :> [lo |-> "0", hi |-> "0"]) @@ (14 :> [lo |-> "sbk", hi |-> "hi"])
Signature(key, digest, ok) ==
    [key |-> key, digest |-> digest, trailer |-> ok, topBitsClear |-> TRUE, separator |-> TRUE]
MCSignatures ==
    {Signature("pub", Digest(Blocks("d", 3)), TRUE),
     Signature("pub", Digest(Blocks("d", 3)), FALSE),
     Signature("pub", Digest(Blocks("x", 3)), TRUE)}
Workload(contexts, functions, units) ==
    [contexts |-> contexts, functions |-> functions, shared |-> units]
MCWorkloads ==
    {Workload({"kernel", "mac"}, {"aes"}, {}),
     Workload({"kernel", "stream"}, {"aes", "readLock"}, {"AES0"}),
     Workload({"mac", "stream"}, {"aes", "clear"}, {}),
     Workload({"zeroMac", "probe", "kernel"}, {"aes", "check", "clear"}, {}),
     Workload({"mac"}, {"aes", "random", "refused"}, {"AES0"}),
     Workload({"mac", "zeroMac"}, {"aes"}, {}),
     Workload({"mac", "again"}, {"aes"}, {}),
     Workload({"digest"}, {"sha", "refused"}, {}),
     Workload({"digest"}, {"sha", "rsaKey", "pss"}, {"SHA", "PKA0"})}

---------------------------------------------------------------------------
(* Properties.                                                             *)

TypeOK ==
    /\ mutex \in {"free", "cpu", "other"}
    /\ DOMAIN aes = AesSlots /\ DOMAIN rsa = RsaSlots
    /\ errStatus \in BOOLEAN /\ readLocked \subseteq AesSlots
    /\ \A u \in Units : {regs[u].user, running[u].user} \subseteq {"none", "cpu", "other"}
    /\ DOMAIN mem = Buffers
    /\ \A c \in Contexts : done[c] \in 0 .. Len(Param[c].msg)
    /\ \A i \in Cached : cache[i].keyslot \in 0 .. 15
    /\ nextCached \in Cached
    /\ pssBuffers \in {"none", "NULL", "allocated"}
    /\ call = NoCall <=> todo = << >>
    /\ result \in {"none", "ok", "zero", "INVALID", "NO_MEMORY", "VERIFY_FAILED",
                   "WRITE_FAILED"}
    /\ workload \in Workloads
    /\ other \in {"idle", "got", "started"} \cup Units
    /\ clean \in [Contexts -> BOOLEAN]
    /\ calls \in 0 .. MaxCalls /\ others \in 0 .. MaxOther

\* Whatever order the two take turns in, what the other master has programmed
\* into a unit under the mutex is still there when it starts the unit; and every
\* path out of the driver gives the mutex back: while no call is in progress
\* this CPU does not hold it.
OtherKeepsUnit ==
    /\ TypeOK
    /\ other \in Units => regs[other].user = "other"
    /\ call = NoCall => mutex # "cpu"

Returns(fn) == At("return") /\ call.fn = fn /\ call' = NoCall
ReturnsLast(kinds) ==
    /\ Returns("aes") /\ Finished(call.c)
    /\ Param[call.c].kind \in kinds /\ clean[call.c]
SlotKey(c) == Key(Param[c].slot, Param[c].keysize)

\* However a caller cuts a message into blocks, whichever contexts use the
\* same slot in between, and whatever the other master runs, a context makes
\* of the message what CBC makes of it in one piece under the key of the slot.
CipherIsChained ==
    [][ReturnsLast({"encrypt", "decrypt"}) =>
          LET c == call.c
          IN  mem[<<c, "out">>] =
                IF Param[c].kind = "encrypt"
                THEN CbcEncrypt(SlotKey(c), Param[c].iv, Param[c].msg)
                ELSE CbcDecrypt(SlotKey(c), Param[c].iv, Param[c].msg)]_vars

\* Likewise the MAC is that of the whole message under the key of the slot,
\* when the other master leaves the AES unit alone: se_aes_cmac_generate_subkey
\* gives the mutex back between programming the unit and starting it.
MacOfSlotKey ==
    [][ReturnsLast({"hash"}) /\ "AES0" \notin workload.shared =>
          mem[<<call.c, "hash">>] = Mac(SlotKey(call.c), Param[call.c].msg)]_vars

\* The digest of a message in several blocks is that of the message, when the
\* other master leaves the SHA unit alone: between two blocks the state of
\* the digest is in the unit, and the mutex is free.
DigestOfMessage ==
    [][Returns("sha") /\ Finished(call.c) /\ "SHA" \notin workload.shared =>
          mem[<<call.c, "hash">>] = Digest(Param[call.c].msg)]_vars

\* A signature is found good if and only if the key in the slot made it, over
\* the digest the caller asks about, in a well-formed encoding; the other
\* master may use the units between any two steps of the verification.
VerifiedMeansSigned ==
    [][Returns("pss") /\ pssBuffers = "allocated" /\ result # "NO_MEMORY" =>
          (result' = "ok" <=>
              /\ rsa[call.slot] = call.signature.key
              /\ call.hash = call.signature.digest
              /\ call.signature.trailer /\ call.signature.topBitsClear
              /\ call.signature.separator)]_vars

\* Every call returns: no spin on the mutex or on a unit is for ever.
EveryCallReturns == call # NoCall ~> call = NoCall
=============================================================================
