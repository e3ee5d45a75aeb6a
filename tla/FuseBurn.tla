------------------------------ MODULE FuseBurn ------------------------------
(***************************************************************************)
(* burn_fuses: a session that burns the fuses of a blob.                   *)
(*                                                                         *)
(* A blob names fuses and the value each is to have.  The session burns    *)
(* them in the order of the blob, all but the security mode, reads them    *)
(* back against a copy of the blob, burns the Hamming code of the macro    *)
(* region into H2, and burns the security mode last.  A call of            *)
(* tegrabl_fuse_write is one step here, with the outcomes FuseWrite gives  *)
(* it: it overwrites the value it is given with the bits still to burn.    *)
(* What is still to burn it takes from tegrabl_fuse_read, which shows the  *)
(* boot security fuse as the mode its register stands for.  The words of a *)
(* longer fuse are one whole.                                              *)
(***************************************************************************)
EXTENDS Naturals, Sequences, FiniteSetsExt, FuseRead

CONSTANTS
    Fuses,          \* fuses a blob may name, of those the driver reads and writes
    Bits,           \* the bits of a fuse value that the instance tells apart
    Blobs,          \* blobs in storage: sequences of [fuse, value]
    EccRegion,      \* fuses whose rows the Hamming code of H2 covers
    Pattern,        \* <<fuse, bit>> of that region -> the bits of its code
    MaxSessions,    \* bound on the sessions of a behaviour
    MaxPowerLoss    \* bound on its power losses

CodeBits == 0 .. 13

\* struct fuse_node: a fuse and the value it is to have.
FuseNode == [fuse : Fuses, value : SUBSET Bits]

ASSUME FuseBurnAssumption ==
    /\ {"SECURITY_MODE", "H2", "PRODUCTION_MODE"} \subseteq Fuses
    /\ "BOOT_SECURITY_INFO" \in Fuses => {0, 1, 2} \subseteq Bits
    /\ {"APB2JTAG_DISABLE", "SECURE_PROVISION_INFO"} \cap Fuses = {}
    /\ EccRegion \subseteq Fuses \ {"H2", "SECURITY_MODE"}
    /\ Pattern \in [EccRegion \X Bits -> SUBSET (0 .. 11)]
    /\ Blobs \subseteq Seq(FuseNode)
    /\ MaxSessions \in Nat /\ MaxPowerLoss \in Nat

VARIABLES
    store,      \* what every fuse holds
    blob,       \* the blob last loaded into memory, as it was in storage
    magic,      \* the buffer in memory begins with the magic of a blob
    wellFormed, \* its sizes add up
    data,       \* the values in the buffer, which the session overwrites
    local,      \* buffer_local: the values when the session began
    pc,         \* where the session stands
    node,       \* the node it has come to
    burnsecm,   \* a security mode node has been met
    secmdata,   \* its value
    result,     \* what the last session returned
    feasible,   \* history: the blob could be burnt when it was first tried
    sessions, losses

memory == << blob, magic, wellFormed, data >>
session == << local, node, burnsecm, secmdata >>
vars == << store, memory, session, pc, result, feasible, sessions, losses >>

---------------------------------------------------------------------------
(* Values.                                                                 *)

Nodes == DOMAIN blob
Values(b) == [i \in DOMAIN b |-> b[i].value]

\* tegrabl_fuse_generate_fuse_h2_ecc: the XOR of the patterns of the bits set
\* in the region, bits 12 and 13, and the parity of the XOR in bit 0.
EccCode(fuses) ==
    LET set == {c \in EccRegion \X Bits : c[2] \in fuses[c[1]]}
        hamming == {i \in CodeBits :
                      Cardinality({c \in set : i \in Pattern[c]}) % 2 = 1}
    IN  hamming \cup {12, 13}
            \cup (IF Cardinality(hamming) % 2 = 1 THEN {0} ELSE {})

\* The fuses as they are once a blob is burnt.
Target(b) ==
    [f \in Fuses |->
        IF \E i \in DOMAIN b : b[i].fuse = f
        THEN b[CHOOSE i \in DOMAIN b : b[i].fuse = f].value
        ELSE store[f]]

\* The blob has the session lock the device.
Locks(b) == \E i \in DOMAIN b : b[i].fuse = "SECURITY_MODE"

\* The value tegrabl_fuse_read returns for a fuse.
Shown(fuse) == ReadAs(fuse, store[fuse])

\* A write is not refused, and the register it leaves is the value asked for:
\* the request clears no bit that is shown, and the bits it adds to those shown
\* complete those burnt.
Burnable(fuse, value) ==
    /\ Shown(fuse) \subseteq value
    /\ store[fuse] \cup (value \ Shown(fuse)) = value

\* A session that meets no failure of the hardware burns the blob, H2 included:
\* each fuse can take its value, also when an earlier node has just given it, and
\* the blob asks neither for two values of one fuse nor for another H2 than the
\* one the session computes.
Feasible(b) ==
    /\ \A i, j \in DOMAIN b : i # j /\ b[i].fuse = b[j].fuse =>
          b[i].value = b[j].value /\ ReadAs(b[i].fuse, b[i].value) \subseteq b[i].value
    /\ \A i \in DOMAIN b : Burnable(b[i].fuse, b[i].value)
    /\ Locks(b) =>
          /\ Burnable("H2", EccCode(Target(b)))
          /\ \A i \in DOMAIN b : b[i].fuse = "H2" => b[i].value = EccCode(Target(b))

---------------------------------------------------------------------------
(* tegrabl_fuse_write(fuse, value), by outcome.                            *)

WriteSucceeds(fuse, value) ==
    /\ Burnable(fuse, value)
    /\ store' = [store EXCEPT ![fuse] = value]

\* The request would clear a bit that is shown.
WriteRefused(fuse, value) ==
    /\ ~(Shown(fuse) \subseteq value)
    /\ UNCHANGED store

\* The hardware refuses, a row is left unburnt, or the register is not the value
\* asked for: any part of what was to be added may have been burnt.
WriteFails(fuse, value) ==
    /\ Shown(fuse) \subseteq value
    /\ \E bits \in SUBSET (value \ Shown(fuse)) :
          store' = [store EXCEPT ![fuse] = @ \cup bits]

---------------------------------------------------------------------------
(* What is in memory when burn_fuses is called.                            *)

LoadBlob(b) ==
    /\ pc = "idle"
    /\ blob' = b /\ data' = Values(b)
    /\ magic' = TRUE /\ wellFormed' = TRUE
    /\ feasible' = (Feasible(b) \/ (b = blob /\ feasible))
    /\ result' = "none"
    /\ UNCHANGED << store, session, pc, sessions, losses >>

\* Memory that holds no blob, or one whose sizes do not add up.
LoadGarbage(m) ==
    /\ pc = "idle"
    /\ magic' = m /\ wellFormed' = FALSE
    /\ result' = "none"
    /\ UNCHANGED << store, blob, data, session, pc, feasible, sessions, losses >>

---------------------------------------------------------------------------
(* burn_fuses.                                                             *)

Return(outcome) ==
    /\ pc' = "idle"
    /\ result' = outcome

StartSession ==
    /\ pc = "idle" /\ sessions < MaxSessions
    /\ sessions' = sessions + 1
    /\ UNCHANGED << store, memory, feasible, losses >>

\* The temperature is out of the range fuses may be burnt in.
TooHotOrCold ==
    /\ StartSession
    /\ Return("temperature")
    /\ UNCHANGED session

\* Without the magic the function returns false, which is TEGRABL_NO_ERROR.
NoMagic ==
    /\ StartSession /\ ~magic
    /\ Return("ok")
    /\ UNCHANGED session

NotParsed ==
    /\ StartSession /\ magic /\ ~wellFormed
    /\ Return("badParameter")
    /\ UNCHANGED session

NotProduction ==
    /\ StartSession /\ magic /\ wellFormed
    /\ store["PRODUCTION_MODE"] = {}
    /\ Return("notProduction")
    /\ local' = data
    /\ UNCHANGED << node, burnsecm, secmdata >>

BeginBurning ==
    /\ StartSession /\ magic /\ wellFormed
    /\ store["PRODUCTION_MODE"] # {}
    /\ pc' = "nodes" /\ result' = "none"
    /\ local' = data
    /\ node' = 1 /\ burnsecm' = FALSE /\ secmdata' = {}

AtNode == pc = "nodes" /\ node \in Nodes

\* Mutant of NoteSecurityMode: H2 and the security mode are burnt at once.
LockAtOnce ==
    /\ AtNode /\ blob[node].fuse = "SECURITY_MODE"
    /\ secmdata' = data[node] /\ burnsecm' = TRUE
    /\ pc' = "h2"
    /\ UNCHANGED << store, memory, local, node, result, feasible, sessions, losses >>

\* "burn SecurityMode at last": it is only noted.
NoteSecurityMode ==
    /\ AtNode /\ blob[node].fuse = "SECURITY_MODE"
    /\ secmdata' = data[node] /\ burnsecm' = TRUE
    /\ node' = node + 1
    /\ UNCHANGED << store, memory, local, pc, result, feasible, sessions, losses >>

\* The value in the buffer is overwritten with what the write XORs it to.
WriteNode ==
    /\ AtNode /\ blob[node].fuse # "SECURITY_MODE"
    /\ data' = [data EXCEPT ![node] = SymDiff(@, Shown(blob[node].fuse))]
    /\ UNCHANGED << blob, magic, wellFormed, local, burnsecm, secmdata, feasible,
                    sessions, losses >>

\* The write returns before it touches the value: its size does not fit the
\* fuse, or there is no memory.
NodeUntouched ==
    /\ AtNode /\ blob[node].fuse # "SECURITY_MODE"
    /\ UNCHANGED << store, memory, local, burnsecm, secmdata, feasible,
                    sessions, losses >>

NodeBurnt ==
    /\ WriteNode /\ WriteSucceeds(blob[node].fuse, data[node])
    /\ node' = node + 1
    /\ UNCHANGED << pc, result >>

NodeRefused == WriteNode /\ WriteRefused(blob[node].fuse, data[node])
NodeFails == WriteNode /\ WriteFails(blob[node].fuse, data[node])

NodeNotBurnt ==
    /\ NodeRefused \/ NodeFails \/ NodeUntouched
    /\ Return("writeFailed")
    /\ UNCHANGED node

\* Mutant of Verified: the read back is not compared.
VerifiedUnchecked == TRUE

\* verify_burnt_fuses: every fuse but the security mode reads back as in the
\* copy of the blob; the register of the boot security fuse is read raw.  The two
\* other fuses it passes over cannot be read, and so not be written before it.
Verified ==
    \A i \in Nodes : blob[i].fuse # "SECURITY_MODE" => store[blob[i].fuse] = local[i]

VerifyFails ==
    /\ pc = "nodes" /\ node \notin Nodes
    /\ ~Verified
    /\ Return("mismatch")
    /\ UNCHANGED << store, memory, session, feasible, sessions, losses >>

\* A blob without security mode ends here; the magic is overwritten.
FinishWithoutLock ==
    /\ pc = "nodes" /\ node \notin Nodes
    /\ Verified /\ ~burnsecm
    /\ magic' = FALSE
    /\ Return("ok")
    /\ UNCHANGED << store, blob, wellFormed, data, session, feasible, sessions, losses >>

\* Mutant of VerifyPasses: the Hamming code is forgotten.
VerifyPassesWithoutH2 ==
    /\ pc = "nodes" /\ node \notin Nodes
    /\ Verified /\ burnsecm
    /\ pc' = "secmode"
    /\ UNCHANGED << store, memory, session, result, feasible, sessions, losses >>

VerifyPasses ==
    /\ pc = "nodes" /\ node \notin Nodes
    /\ Verified /\ burnsecm
    /\ pc' = "h2"
    /\ UNCHANGED << store, memory, session, result, feasible, sessions, losses >>

H2Burnt ==
    /\ pc = "h2"
    /\ WriteSucceeds("H2", EccCode(store))
    /\ pc' = "secmode"
    /\ UNCHANGED << memory, session, result, feasible, sessions, losses >>

LockBurnt ==
    /\ pc = "secmode"
    /\ WriteSucceeds("SECURITY_MODE", secmdata)
    /\ magic' = FALSE
    /\ Return("ok")
    /\ UNCHANGED << blob, wellFormed, data, session, feasible, sessions, losses >>

LockingFails ==
    /\ \/ /\ pc = "h2"
          /\ \/ WriteRefused("H2", EccCode(store))
             \/ WriteFails("H2", EccCode(store))
       \/ /\ pc = "secmode"
          /\ \/ WriteRefused("SECURITY_MODE", secmdata)
             \/ WriteFails("SECURITY_MODE", secmdata)
    /\ Return("writeFailed")
    /\ UNCHANGED << memory, session, feasible, sessions, losses >>

---------------------------------------------------------------------------
(* The environment.                                                        *)

\* The write under way when power is lost has burnt any part of its value.
InterruptedWrite ==
    \/ UNCHANGED store
    \/ /\ AtNode /\ blob[node].fuse # "SECURITY_MODE"
       /\ WriteFails(blob[node].fuse, data[node])
    \/ pc = "h2" /\ WriteFails("H2", EccCode(store))
    \/ pc = "secmode" /\ WriteFails("SECURITY_MODE", secmdata)

\* Memory is lost with the session; the fuses stay.
PowerLoss ==
    /\ losses < MaxPowerLoss
    /\ losses' = losses + 1
    /\ InterruptedWrite
    /\ magic' = FALSE /\ wellFormed' = FALSE
    /\ Return("none")
    /\ UNCHANGED << blob, data, session, feasible, sessions >>

Init ==
    /\ store \in {[f \in Fuses |-> IF f = "PRODUCTION_MODE" THEN p ELSE {}] :
                    p \in {{}, {0}}}
    /\ blob = << >> /\ data = << >> /\ local = << >>
    /\ magic = FALSE /\ wellFormed = FALSE
    /\ pc = "idle" /\ result = "none"
    /\ node = 1 /\ burnsecm = FALSE /\ secmdata = {}
    /\ feasible = FALSE
    /\ sessions = 0 /\ losses = 0

SessionStep ==
    \/ NoteSecurityMode \/ NodeBurnt \/ NodeNotBurnt
    \/ VerifyFails \/ FinishWithoutLock \/ VerifyPasses
    \/ H2Burnt \/ LockBurnt \/ LockingFails

Next ==
    \/ \E b \in Blobs : LoadBlob(b)
    \/ \E m \in BOOLEAN : LoadGarbage(m)
    \/ TooHotOrCold \/ NoMagic \/ NotParsed \/ NotProduction \/ BeginBurning
    \/ SessionStep
    \/ PowerLoss

Spec == Init /\ [][Next]_vars

---------------------------------------------------------------------------
(* Properties.                                                             *)

TypeOK ==
    /\ store \in [Fuses -> SUBSET (Bits \cup CodeBits)]
    /\ blob \in Seq(FuseNode)
    /\ data \in [Nodes -> SUBSET (Bits \cup CodeBits)]
    /\ magic \in BOOLEAN /\ wellFormed \in BOOLEAN /\ burnsecm \in BOOLEAN
    /\ pc \in {"idle", "nodes", "h2", "secmode"}
    /\ node \in Nat \ {0}
    /\ secmdata \subseteq Bits \cup CodeBits
    /\ result \in {"none", "ok", "temperature", "badParameter", "notProduction",
                   "writeFailed", "mismatch"}
    /\ feasible \in BOOLEAN
    /\ sessions \in Nat /\ losses \in Nat

\* The session was given the blob as it is in storage, not a buffer that an
\* earlier session had overwritten.
OnLoadedBlob == local = Values(blob)

\* The security mode is burnt only when every other fuse of the blob reads as
\* the blob says, and H2 holds the code of the macro as it then is: no session
\* locks a device it has not finished.
LockedLast ==
    [][store'["SECURITY_MODE"] # store["SECURITY_MODE"] =>
          /\ OnLoadedBlob =>
                \A i \in Nodes : blob[i].fuse \notin {"SECURITY_MODE", "H2"} =>
                    store[blob[i].fuse] = blob[i].value
          /\ store["H2"] = EccCode(store)]_vars

\* Another value than the node's is burnt last: a blob that locks has its H2
\* computed, and of two nodes for the security mode the later one counts.
Superseded(i) ==
    \/ blob[i].fuse = "H2" /\ Locks(blob)
    \/ /\ blob[i].fuse = "SECURITY_MODE"
       /\ \E j \in Nodes : j > i /\ blob[j].fuse = "SECURITY_MODE"

BlobBurnt ==
    \A i \in Nodes : ~Superseded(i) => store[blob[i].fuse] = blob[i].value

\* A session on a freshly loaded blob that reports success leaves every fuse of
\* the blob as storage has it, whatever sessions and power losses came before.
LoadedBlobBurnt == result = "ok" /\ wellFormed /\ OnLoadedBlob => BlobBurnt

\* What the session has come to cannot succeed, whatever the hardware does: a
\* write would be refused or not be confirmed, or the fuses are not as they should.
Hopeless ==
    \/ /\ AtNode /\ blob[node].fuse # "SECURITY_MODE"
       /\ ~Burnable(blob[node].fuse, data[node])
    \/ pc = "nodes" /\ node \notin Nodes /\ ~Verified
    \/ pc = "h2" /\ ~Burnable("H2", EccCode(store))
    \/ pc = "secmode" /\ ~Burnable("SECURITY_MODE", secmdata)

\* The blob leaves bits 1 and 2 of the boot security fuse alone.  With either of
\* them burnt the fuse may be shown as a mode with bits its register does not have
\* (2 is shown as 1), and from then on every write of it is refused or fails.
SparesMode(b) ==
    \A i \in DOMAIN b : b[i].fuse = "BOOT_SECURITY_INFO" => b[i].value \cap {1, 2} = {}

\* A blob that could be burnt when it was loaded, and that burns no boot security
\* mode, can still be after any failed session or power loss: loading it again is
\* enough to go on, and no session on it as loaded comes to a step that cannot
\* succeed.  The exception is the code's: tegrabl_fuse_write compares the request
\* with the mode shown.
Resumable ==
    /\ TypeOK
    /\ feasible /\ SparesMode(blob) =>
          /\ Feasible(blob)
          /\ OnLoadedBlob => ~Hopeless

===============================================================================
