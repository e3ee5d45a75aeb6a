----------------------------- MODULE AuthStream -----------------------------
(***************************************************************************)
(* Authentication of a binary that arrives block by block, and of the      *)
(* tables that have no header of their own.                                *)
(*                                                                         *)
(* A caller gets a handle, loads the binary in blocks of any size at the   *)
(* place the handle calls safe, or elsewhere, and has each processed;      *)
(* tegrabl_auth_payload does so with a payload that is already in memory,  *)
(* in one block.  Memory holds cells, each with its meaning: part of a     *)
(* header, or a cell of the binary, plain or encrypted.  The cryptography  *)
(* is an oracle: a signature fits if the cells digested are, in order, the *)
(* cells that were signed.                                                 *)
(***************************************************************************)
EXTENDS Integers, Sequences, Functions

CONSTANTS
    Binaries,       \* [type, nvidia, length, damage, old]: what is stored
    Tables,         \* [type, present, good]: tables without a header
    Builds,         \* subsets of {"L4T", "ECDSA", "ROLLBACK"}
    HEADER_SIZE, SIGNED_SECTION_LEN, ONE_KB, FULL_BINARY_VERIFY_THRESHOLD,
    DestSize,       \* dest_size
    DestAddr, NewAddr, Elsewhere,   \* where a binary goes, where it may be
                                    \* moved, and where else a block is read
    Memory,         \* all addresses
    MaxBinaries     \* bound on the binaries of a boot

\* What the fuses may say: the modes that a header knows.
SecureModes == {"AESCMAC", "RSA", "RSA_ENCRYPTION", "ECC"}
SbkSlots == {"zero", "key"}
NvidiaTypes == {"MTS_PREBOOT", "DMCE"}
PayloadTypes == {"KERNEL", "KERNEL_DTB"}

ASSUME AuthAssumption ==
    /\ {HEADER_SIZE, SIGNED_SECTION_LEN, ONE_KB, FULL_BINARY_VERIFY_THRESHOLD, DestSize}
            \subseteq Nat \ {0}
    /\ SIGNED_SECTION_LEN < HEADER_SIZE
    /\ Binaries \subseteq [type : STRING, nvidia : BOOLEAN, length : Nat, damage : Nat,
                           old : BOOLEAN]
    /\ {DestAddr, NewAddr, Elsewhere} \subseteq Memory /\ Memory \subseteq Nat
    /\ MaxBinaries \in Nat

\* What storage holds of a binary: its header, its cells and padding.
Padding == << <<"padding", 1>> >>
StoredSize(b) == HEADER_SIZE + b.length + Len(Padding)

\* Each of the three places has room for what is stored, and is apart from the others.
Room(at, b) == at .. at + StoredSize(b)
ASSUME RoomAssumption ==
    \A b \in Binaries :
        /\ \A at \in {DestAddr, NewAddr, Elsewhere} : Room(at, b) \subseteq Memory
        /\ Room(DestAddr, b) \cap Room(NewAddr, b) = {}
        /\ Room(Elsewhere, b) \cap (Room(DestAddr, b) \cup Room(NewAddr, b)) = {}

\* A cell is what it holds and which of these it is.
Kinds == {"unsigned", "signed", "plain", "cipher", "lost", "padding", "noise", "old"}
Cell == Kinds \X Nat

VARIABLES
    fuse,       \* FUSE_TYPE_BOOT_SECURITY_INFO
    build,
    sbk,        \* whether key slot 14 holds a key
    secureMode, \* static secure_mode of tegrabl_auth_process_header
    binary,     \* the one being loaded
    table,      \* the table being verified
    caller,     \* "stream" or "payload"
    mem,
    pos,        \* how much of the stored binary has been read
    block,      \* the block to process
    auth,       \* struct tegrabl_auth_handle
    headers,    \* its headers[]
    contexts,   \* the cryptographic contexts that are initialised
    phase, result,
    splits,     \* history: where parts of the binary were sent
    fault,      \* history: a cryptographic call has failed
    bounced,    \* history: a later block was loaded elsewhere
    loaded      \* binaries so far

handle == << auth, headers, contexts >>
vars == << fuse, build, sbk, secureMode, binary, table, caller, mem, pos, block, handle,
           phase, result, splits, fault, bounced, loaded >>

NoBinary == [type |-> "none", nvidia |-> FALSE, length |-> 0, damage |-> 0, old |-> FALSE]
NoTable == [type |-> "none", present |-> FALSE, good |-> FALSE]
NoBlock == [at |-> 0, size |-> 0, first |-> FALSE]
NoHandle == [dest |-> 0, safe |-> 0, processed |-> 0, remaining |-> 0, size |-> 0,
             num |-> 0, oem |-> FALSE, short |-> FALSE, nvidia |-> FALSE]

---------------------------------------------------------------------------
(* The stored binary.                                                      *)

\* The tool that signs encrypts for Nvidia's mode and where the fuses ask.
Encrypts(b) == b.nvidia \/ fuse = "RSA_ENCRYPTION"
Plain(b) == [i \in 1 .. b.length |-> <<"plain", i>>]
Body(b) == [i \in 1 .. b.length |-> <<IF Encrypts(b) THEN "cipher" ELSE "plain", i>>]
UnsignedPart == [i \in 1 .. (HEADER_SIZE - SIGNED_SECTION_LEN) |-> <<"unsigned", i>>]
SignedPart == [i \in 1 .. SIGNED_SECTION_LEN |-> <<"signed", i>>]
SignedCells(b) == SignedPart \o Body(b)

\* Storage may lose a cell of the binary; damage is the cell, or 0.
Stored(b) ==
    UnsignedPart \o SignedPart
        \o [i \in 1 .. b.length |-> IF i = b.damage THEN <<"lost", i>> ELSE Body(b)[i]]
        \o Padding

Cells(m, at, n) == [i \in 1 .. n |-> m[at + i - 1]]
Put(m, at, cells) ==
    [a \in Memory |-> IF a \in at .. (at + Len(cells) - 1) THEN cells[a - at + 1] ELSE m[a]]
Copy(m, from, to, n) == Put(m, to, Cells(m, from, n))
Decrypt(cells) ==
    [i \in DOMAIN cells |-> IF cells[i][1] = "cipher" THEN <<"plain", cells[i][2]>>
                            ELSE <<"noise", cells[i][2]>>]
Less(a, b) == IF a < b THEN a ELSE b

---------------------------------------------------------------------------
(* A header.                                                               *)

\* Mutant of SecureModeAfter: encryption is given up in every build.
SecureModeAfterAlways(mode) == IF mode = "RSA_ENCRYPTION" THEN "RSA" ELSE mode
\* CONFIG_OS_IS_L4T treats RSA with encryption as RSA, from here on.
SecureModeAfter(mode) ==
    IF mode = "RSA_ENCRYPTION" /\ "L4T" \in build THEN "RSA" ELSE mode

SignType(mode) ==
    CASE mode = "AESCMAC" -> "SBK"
      [] mode = "RSA" -> "OEM_RSA"
      [] mode = "RSA_ENCRYPTION" -> "OEM_RSA_SBK"
      [] mode = "ECC" -> "OEM_ECC"

\* secure_mode is read from the fuses once; a header signed by Nvidia leaves
\* it as it was read.
SecureModeNow == IF secureMode = "unread" THEN fuse ELSE secureMode
NextSecureMode ==
    IF binary.nvidia THEN SecureModeNow ELSE SecureModeAfter(SecureModeNow)
HeaderMode ==
    IF binary.nvidia THEN "NVIDIA_RSA" ELSE SignType(NextSecureMode)

AllowedModes ==
    (IF binary.type \in NvidiaTypes THEN {"NVIDIA_RSA"} ELSE {})
        \cup (IF auth.oem THEN {"SBK", "OEM_RSA", "OEM_RSA_SBK", "OEM_ECC"} ELSE {})

Deciphers(mode) == mode \in {"NVIDIA_RSA", "OEM_RSA_SBK"}
HasRsa(mode) == mode \in {"NVIDIA_RSA", "OEM_RSA", "OEM_RSA_SBK"}
HasAes(mode) == mode \in {"NVIDIA_RSA", "SBK", "OEM_RSA_SBK"}

\* The contexts a mode needs, in the order in which they are initialised.
ContextsOf(mode) ==
    CASE Deciphers(mode) -> <<"aes", "rsa">>
      [] mode = "SBK" -> <<"aes">>
      [] mode = "OEM_RSA" -> <<"rsa">>
      [] mode = "OEM_ECC" -> IF "ECDSA" \in build THEN <<"ecc">> ELSE << >>

HeaderError ==
    CASE DestSize < binary.length -> "OVERFLOW"
      [] auth.size # 0 /\ auth.size < binary.length + HEADER_SIZE -> "INVALID"
      [] HeaderMode \notin AllowedModes -> "VERIFY_FAILED"
      [] ContextsOf(HeaderMode) = << >> -> "NOT_SUPPORTED"
      [] binary.length < ONE_KB -> "INVALID"
      [] OTHER -> "none"

\* Mutant of Subprocess: the signed section counts twice.
SubprocessCountsTwice(m, h, buf, size, dst) ==
    LET n    == Less(size, h.validation - h.processed)
        skip == IF h.processed = 0 THEN SIGNED_SECTION_LEN ELSE 0
    IN  [header |-> [h EXCEPT !.processed = Less(@ + n + skip, h.validation),
                              !.fed = @ \o Cells(m, buf, n)],
         mem |-> m]

\* tegrabl_auth_subprocess: [header, mem] after up to `size' cells at `buf'.
\* The signed section is digested with the first block and never deciphered.
Subprocess(m, h, buf, size, dst) ==
    LET n    == Less(size, h.validation - h.processed)
        skip == IF h.processed = 0 THEN SIGNED_SECTION_LEN ELSE 0
    IN  IF n = 0 THEN [header |-> h, mem |-> m]
        ELSE [header |-> [h EXCEPT !.processed = @ + n, !.fed = @ \o Cells(m, buf, n)],
              mem |-> IF Deciphers(h.mode)
                      THEN Put(m, dst, Decrypt(Cells(m, buf + skip, n - skip)))
                      ELSE m]

---------------------------------------------------------------------------
(* The caller.                                                             *)

Needed == HEADER_SIZE + binary.length

Unconcerned == UNCHANGED << fuse, build, sbk, binary, table, caller, loaded >>

\* tegrabl_auth_initiate.
Initiate(b, who) ==
    /\ phase = "idle" /\ loaded < MaxBinaries
    /\ who = "payload" => b.type \in PayloadTypes
    /\ binary' = b /\ caller' = who /\ loaded' = loaded + 1
    /\ auth' = [NoHandle EXCEPT !.dest = DestAddr, !.safe = DestAddr, !.oem = TRUE,
                                !.nvidia = b.type \in NvidiaTypes]
    /\ phase' = "open" /\ result' = "none" /\ fault' = FALSE
    /\ UNCHANGED << fuse, build, sbk, secureMode, table, mem, pos, block, headers, contexts,
                    splits, bounced >>

\* tegrabl_auth_payload for another type: an error is printed, none returned.
UnsupportedPayload(b) ==
    /\ phase = "idle" /\ loaded < MaxBinaries
    /\ b.type \notin PayloadTypes
    /\ result' = "ok" /\ loaded' = loaded + 1
    /\ UNCHANGED << fuse, build, sbk, secureMode, binary, table, caller, mem, pos, block,
                    handle, phase, splits, fault, bounced >>

\* A payload is in memory as a whole, padding included; a stream comes in
\* blocks, the first of which holds the header and more.
Load(n, at) ==
    /\ phase = "open" /\ pos < Needed
    /\ IF caller = "payload"
       THEN at = auth.dest /\ n = Len(Stored(binary))
       ELSE pos = 0 => n > HEADER_SIZE
    /\ pos + n <= Len(Stored(binary))
    /\ mem' = Put(mem, at, SubSeq(Stored(binary), pos + 1, pos + n))
    /\ block' = [at |-> at, size |-> n, first |-> pos = 0]
    /\ bounced' = (bounced \/ (pos > 0 /\ at # auth.safe))
    /\ pos' = pos + n /\ phase' = "block"
    /\ UNCHANGED << secureMode, handle, result, splits, fault >> /\ Unconcerned

---------------------------------------------------------------------------
(* tegrabl_auth_process_block.                                             *)

RollsBack == binary.old /\ "ROLLBACK" \in build

\* After a failure the handle has no header (num_headers is a local variable
\* until the end); what was initialised for it stays so.
HeaderFails(opened, error) ==
    /\ contexts' = contexts \cup opened
    /\ secureMode' = NextSecureMode
    /\ phase' = "failed" /\ result' = error /\ block' = NoBlock
    /\ UNCHANGED << mem, pos, auth, headers, splits, bounced >> /\ Unconcerned

HeaderRefused ==
    /\ phase = "block" /\ block.first
    /\ HeaderError = "OVERFLOW" \/ ~RollsBack
    /\ HeaderError # "none"
    /\ HeaderFails(IF HeaderError = "INVALID" /\ binary.length < ONE_KB
                   THEN Range(ContextsOf(HeaderMode)) ELSE {}, HeaderError)
    /\ UNCHANGED fault

\* One of the initialisations fails, or the keystore has no key.
HeaderBreaks ==
    /\ phase = "block" /\ block.first
    /\ ~RollsBack
    /\ HeaderError = "none"
    /\ \E k \in DOMAIN ContextsOf(HeaderMode) :
            HeaderFails({ContextsOf(HeaderMode)[i] : i \in 1 .. (k - 1)}, "FAILED")
    /\ fault' = TRUE

\* An older version of the binary stops the device.
Rollback ==
    /\ phase = "block" /\ block.first
    /\ RollsBack
    /\ DestSize >= binary.length
    /\ phase' = "hung"
    /\ UNCHANGED << secureMode, mem, pos, block, handle, result, splits, fault, bounced >>
    /\ Unconcerned

NewHeader ==
    [mode |-> HeaderMode, validation |-> binary.length + SIGNED_SECTION_LEN,
     processed |-> 0, size |-> binary.length, fed |-> << >>]
IsShort ==
    /\ NewHeader.validation < FULL_BINARY_VERIFY_THRESHOLD
    /\ binary.length > block.size - HEADER_SIZE

Accepted ==
    /\ phase = "block" /\ block.first
    /\ ~RollsBack
    /\ HeaderError = "none"
    /\ secureMode' = NextSecureMode
    /\ contexts' = contexts \cup Range(ContextsOf(HeaderMode))
    /\ phase' = "open" /\ block' = NoBlock
    /\ UNCHANGED << pos, result, splits, fault, bounced >> /\ Unconcerned

\* A short binary is collected, header and all, and processed when complete.
FirstOfShort ==
    /\ Accepted /\ IsShort
    /\ mem' = Copy(mem, block.at, auth.safe, block.size)
    /\ headers' = <<NewHeader>>
    /\ auth' = [auth EXCEPT !.oem = FALSE, !.size = binary.length, !.num = 1, !.short = TRUE,
                    !.remaining = binary.length - (block.size - HEADER_SIZE),
                    !.processed = block.size, !.safe = auth.dest + block.size]

FirstOfLong ==
    /\ Accepted /\ ~IsShort
    /\ LET start == block.at + HEADER_SIZE - SIGNED_SECTION_LEN
           size  == block.size - HEADER_SIZE + SIGNED_SECTION_LEN
           sub   == Subprocess(mem, NewHeader, start, size, auth.dest)
           taken == Less(size, NewHeader.validation)
           n     == taken - SIGNED_SECTION_LEN
       IN  /\ headers' = <<sub.header>>
           /\ mem' = IF Deciphers(HeaderMode) THEN sub.mem
                     ELSE Copy(sub.mem, start + SIGNED_SECTION_LEN, auth.safe, n)
           /\ auth' = [auth EXCEPT !.oem = FALSE, !.size = binary.length, !.num = 1,
                           !.remaining = NewHeader.validation - taken,
                           !.processed = n, !.safe = auth.dest + n]

\* Mutant of Collected: every block is taken to be in place already.
CollectedNever == mem
\* Where a later block is copied: OEM_RSA_SBK copies every block, the mode of
\* Nvidia none, and the others those that are not in place.
Collected ==
    IF auth.safe = block.at \/ headers[1].mode = "NVIDIA_RSA" THEN mem
    ELSE Copy(mem, block.at, auth.safe, block.size)

LaterBlock ==
    /\ phase = "block" /\ ~block.first
    /\ phase' = "open" /\ block' = NoBlock
    /\ auth' = [auth EXCEPT !.remaining = @ - block.size, !.processed = @ + block.size,
                            !.safe = auth.dest + auth.processed + block.size]
    /\ UNCHANGED << secureMode, contexts, pos, result, splits, fault, bounced >> /\ Unconcerned

LaterOfLong ==
    /\ LaterBlock /\ ~auth.short
    /\ LET sub == Subprocess(Collected, headers[1], block.at, block.size, auth.safe)
       IN  headers' = <<sub.header>> /\ mem' = sub.mem

MoreOfShort ==
    /\ LaterBlock /\ auth.short /\ auth.remaining > block.size
    /\ mem' = Collected
    /\ UNCHANGED headers

\* The digest is over the collected binary, which then loses its header.
LastOfShort ==
    /\ LaterBlock /\ auth.short /\ auth.remaining <= block.size
    /\ LET sub == Subprocess(Collected, headers[1],
                             auth.dest + HEADER_SIZE - SIGNED_SECTION_LEN,
                             auth.processed + block.size, auth.dest)
       IN  /\ headers' = <<sub.header>>
           /\ mem' = IF Deciphers(headers[1].mode) THEN sub.mem
                     ELSE Copy(Collected, auth.dest + HEADER_SIZE, auth.dest, headers[1].size)

\* A call into the engine fails: the error is returned.
BlockBreaks ==
    /\ phase = "block"
    /\ ~block.first
    /\ phase' = "failed" /\ result' = "FAILED" /\ fault' = TRUE
    /\ block' = NoBlock
    /\ UNCHANGED << secureMode, mem, pos, handle, splits, bounced >> /\ Unconcerned

\* tegrabl_auth_set_new_destination, between two blocks.
SetNewDestination(addr, move) ==
    /\ phase = "open" /\ caller = "stream" /\ auth.num > 0 /\ addr # auth.dest
    /\ ~move => pos < Needed
    /\ IF move
       THEN /\ mem' = Copy(mem, auth.dest, addr, auth.processed)
            /\ auth' = [auth EXCEPT !.dest = addr, !.safe = addr + auth.processed]
            /\ UNCHANGED splits
       ELSE /\ auth' = [auth EXCEPT !.dest = addr, !.safe = addr, !.processed = 0]
            /\ splits' = <<[at |-> auth.dest, n |-> auth.processed]>>
            /\ UNCHANGED mem
    /\ UNCHANGED << secureMode, pos, block, headers, contexts, phase, result, fault, bounced >>
    /\ Unconcerned

---------------------------------------------------------------------------
(* tegrabl_auth_finalize, the end of tegrabl_auth_payload, and             *)
(* tegrabl_auth_end.                                                       *)

SignatureFits(h) == h.fed = SignedCells(binary)

FinalizeResult ==
    CASE \E i \in DOMAIN headers : ~SignatureFits(headers[i]) -> "VERIFY_FAILED"
      [] auth.nvidia /\ ~\E i \in DOMAIN headers : headers[i].mode = "NVIDIA_RSA" -> "INVALID"
      [] OTHER -> "ok"

Finalize ==
    /\ phase = "open" /\ pos >= Needed
    /\ result' = FinalizeResult
    /\ phase' = IF caller = "payload" /\ "L4T" \in build /\ FinalizeResult = "ok"
                THEN "decrypt" ELSE "final"
    /\ UNCHANGED << secureMode, mem, pos, block, handle, splits, fault, bounced >> /\ Unconcerned

\* tegrabl_cipher_binary, in place.
CipherBinary(at, n) == Put(mem, at, Decrypt(Cells(mem, at, n)))

\* tegrabl_decrypt_block, as the fuses (not secure_mode) ask for it, unless
\* key slot 14 is zero.
DecryptBlock ==
    /\ phase = "decrypt" /\ phase' = "final"
    /\ IF fuse = "RSA_ENCRYPTION" /\ sbk = "key"
       THEN \/ /\ mem' = CipherBinary(auth.dest, binary.length)
               /\ UNCHANGED << result, fault >>
            \/ result' = "FAILED" /\ fault' = TRUE /\ UNCHANGED mem
       ELSE UNCHANGED << mem, result, fault >>
    /\ UNCHANGED << secureMode, pos, block, handle, splits, bounced >> /\ Unconcerned

\* Mutant of Closed: the AES context of an encrypted binary is forgotten.
ClosedRsaOnly(h) == (IF HasRsa(h.mode) THEN {"rsa"} ELSE IF HasAes(h.mode) THEN {"aes"} ELSE {})
                        \cup (IF h.mode = "OEM_ECC" THEN {"ecc"} ELSE {})
\* A context of Nvidia's mode for ECC is closed too, though never initialised.
Closed(h) ==
    (IF HasRsa(h.mode) THEN {"rsa"} ELSE {}) \cup (IF HasAes(h.mode) THEN {"aes"} ELSE {})
        \cup (IF h.mode \in {"NVIDIA_RSA", "OEM_ECC"} THEN {"ecc"} ELSE {})

\* The caller takes the binary away, and the handle goes with it.
Forgotten ==
    /\ binary' = NoBinary /\ pos' = 0 /\ block' = NoBlock /\ bounced' = FALSE
    /\ mem' = [a \in Memory |-> <<"old", 0>>]
    /\ auth' = NoHandle /\ headers' = << >> /\ splits' = << >>

End ==
    /\ phase \in {"final", "failed"}
    /\ contexts' = contexts \ UNION {Closed(headers[i]) : i \in DOMAIN headers}
    /\ phase' = "idle" /\ result' = "none"
    /\ Forgotten
    /\ UNCHANGED << fuse, build, sbk, secureMode, table, caller, loaded, fault >>

---------------------------------------------------------------------------
(* tegrabl_verify_binary, tegrabl_verify_cmachash, tegrabl_cipher_binary.  *)

\* tegrabl_auth_signed_section: where the signature is taken from.
SignatureField(type) ==
    CASE type = "CMACHASH" -> "aes"
      [] type = "RPB" -> "rsa"
      [] fuse = "AESCMAC" -> "aes"
      [] type = "SC7_RESUME_FW" -> IF fuse = "ECC" THEN "ecc" ELSE "rsa"
      [] type = "BR_BCT" -> IF fuse = "RSA" THEN "rsa" ELSE "ecc"

\* tegrabl_auth_init_crypto_context: crypto_contexts, the first of which
\* verifies and the second deciphers.
TableContexts(type) ==
    CASE type \in {"CMACHASH", "CIPHER"} \/ fuse = "AESCMAC" -> <<"aes">>
      [] fuse = "RSA_ENCRYPTION" /\ type = "BR_BCT" -> <<"rsa", "aes">>
      [] fuse \in {"RSA", "RSA_ENCRYPTION"} -> <<"rsa">>
      [] OTHER -> IF "ECDSA" \in build THEN <<"ecc">> ELSE << >>

TableResult(t) ==
    CASE t.type = "other" -> "NOT_SUPPORTED"
      [] ~t.present -> "NOT_INITIALIZED"
      [] TableContexts(t.type) = << >> -> "NOT_SUPPORTED"
      [] t.type = "CIPHER" -> "ok"
      [] t.good /\ SignatureField(t.type) = TableContexts(t.type)[1] -> "ok"
      [] OTHER -> "VERIFY_FAILED"

\* The failure to initialise the second context is overwritten by the result
\* of the first, and shows when the context is used: either way no success.
VerifyTable(t) ==
    /\ phase = "idle" /\ loaded < MaxBinaries
    /\ table' = t /\ phase' = "table" /\ loaded' = loaded + 1
    /\ \/ result' = TableResult(t) /\ fault' = FALSE
       \/ TableResult(t) \in {"ok", "VERIFY_FAILED"} /\ result' = "FAILED" /\ fault' = TRUE
    /\ contexts' = contexts \cup
            IF TableResult(t) \in {"ok", "VERIFY_FAILED"} THEN Range(TableContexts(t.type)) ELSE {}
    /\ UNCHANGED << fuse, build, sbk, secureMode, binary, caller, mem, pos, block, auth,
                    headers, splits, bounced >>

CloseTable ==
    /\ phase = "table" /\ phase' = "idle" /\ result' = "none" /\ table' = NoTable
    /\ contexts' = contexts \
            (IF table.type = "other" THEN {} ELSE Range(TableContexts(table.type)))
    /\ UNCHANGED << fuse, build, sbk, secureMode, binary, caller, loaded, mem, pos, block, auth,
                    headers, splits, fault, bounced >>

---------------------------------------------------------------------------
Init ==
    /\ fuse \in SecureModes /\ build \in Builds /\ sbk \in SbkSlots
    /\ secureMode = "unread"
    /\ binary = NoBinary /\ table = NoTable /\ caller = "stream"
    /\ mem = [a \in Memory |-> <<"old", 0>>]
    /\ pos = 0 /\ block = NoBlock
    /\ auth = NoHandle /\ headers = << >> /\ contexts = {}
    /\ phase = "idle" /\ result = "none"
    /\ splits = << >> /\ fault = FALSE /\ bounced = FALSE /\ loaded = 0

Next ==
    \/ \E b \in Binaries, who \in {"stream", "payload"} : Initiate(b, who)
    \/ \E n \in 1 .. Len(Stored(binary)), at \in {auth.safe, Elsewhere} : Load(n, at)
    \/ HeaderRefused \/ HeaderBreaks \/ Rollback \/ FirstOfShort \/ FirstOfLong
    \/ LaterOfLong \/ MoreOfShort \/ LastOfShort \/ BlockBreaks
    \/ \E addr \in {NewAddr}, move \in BOOLEAN : SetNewDestination(addr, move)
    \/ Finalize \/ DecryptBlock \/ End
    \/ \E b \in Binaries : UnsupportedPayload(b)
    \/ \E t \in Tables : VerifyTable(t)
    \/ CloseTable

Spec == Init /\ [][Next]_vars

---------------------------------------------------------------------------
(* Properties.                                                             *)

TypeOK ==
    /\ fuse \in SecureModes /\ build \in Builds /\ sbk \in SbkSlots
    /\ secureMode \in SecureModes \cup {"unread"}
    /\ binary \in Binaries \cup {NoBinary} /\ table \in Tables \cup {NoTable}
    /\ caller \in {"stream", "payload"}
    /\ mem \in [Memory -> Cell]
    /\ pos \in 0 .. Len(Stored(binary))
    /\ block.size \in 0 .. Len(Stored(binary))
    /\ phase = "block" => block.at \in Memory
    /\ phase \notin {"idle", "table"} => {auth.dest, auth.safe} \subseteq Memory
    /\ auth.processed \in 0 .. Len(Stored(binary))
    /\ auth.num = Len(headers)
    /\ \A i \in DOMAIN headers : headers[i].processed \in 0 .. headers[i].validation
    /\ contexts \subseteq {"aes", "rsa", "ecc"}
    /\ phase \in {"idle", "open", "block", "failed", "hung", "decrypt", "final", "table"}

\* What the caller should find: the binary as it was before it was encrypted.
\* tegrabl_auth_payload deciphers under L4T, unless the slot is zero; blocks
\* that stream under L4T stay as they are.
Expected ==
    IF "L4T" \in build /\ ~binary.nvidia /\ ~(caller = "payload" /\ sbk = "key")
    THEN Body(binary) ELSE Plain(binary)
\* It may lie in two parts: no more than once can a stream be sent elsewhere.
Moved == IF splits = << >> THEN 0 ELSE splits[1].n
Delivered ==
    (IF splits = << >> THEN << >> ELSE Cells(mem, splits[1].at, Moved))
        \o Cells(mem, auth.dest, binary.length - Moved)

\* However a binary is cut into blocks, wherever they were loaded and to
\* wherever the destination moved, what is reported as authentic lies at the
\* destination: every cell of what was signed, deciphered once.
VerifiedMeansIntact ==
    phase = "final" /\ result = "ok" => Delivered = Expected

\* And an intact binary in a mode it may have is accepted, with two
\* exceptions: a short binary of Nvidia's mode is not collected from elsewhere,
\* and a short binary cannot be split.
IntactIsVerified ==
    phase = "final" /\ binary.damage = 0 /\ ~fault
        /\ ~(auth.short /\ binary.nvidia /\ bounced) /\ ~(auth.short /\ splits # << >>)
        /\ (binary.type \in NvidiaTypes => binary.nvidia)
        => result = "ok"

\* The mode that is asked of a binary is that of the fuses, whatever binaries
\* were loaded before it and left in the static secure_mode.
ModeOfFuses ==
    /\ TypeOK
    /\ \A i \in DOMAIN headers :
        headers[i].mode =
            CASE binary.nvidia -> "NVIDIA_RSA"
              [] ~binary.nvidia /\ fuse = "RSA_ENCRYPTION" ->
                    IF "L4T" \in build THEN "OEM_RSA" ELSE "OEM_RSA_SBK"
              [] OTHER -> SignType(fuse)

\* When authentication ends, after whatever failure of a block, each context
\* that a header had initialised is closed again; a header that failed itself
\* does not count as one, and its contexts stay.
ContextsClosed ==
    [][phase' = "idle" /\ phase \in {"final", "failed"} =>
          \A i \in DOMAIN headers : \A c \in Range(ContextsOf(headers[i].mode)) :
              c \notin contexts']_vars
=============================================================================
