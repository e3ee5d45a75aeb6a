--------------------------- MODULE FuseBurnProofs ---------------------------
(***************************************************************************)
(* What holds of burn_fuses for every set of fuses and of blobs, every     *)
(* region and pattern of the Hamming code, and any number of sessions and  *)
(* power losses.                                                           *)
(***************************************************************************)
EXTENDS FuseBurn, TLAPS

IsLock(i) == blob[i].fuse = "SECURITY_MODE"

(* The parts of the inductive invariant.                                   *)

\* A session works on a well formed blob and has no outcome yet.
Underway == pc # "idle" => magic /\ wellFormed /\ result = "none"

\* The security mode is the one fuse whose value in the buffer is not written to.
LockValueKept == \A i \in Nodes : IsLock(i) => data[i] = blob[i].value

\* What the session remembers of the security mode nodes it has passed: that
\* there was one, and the value of the last.
LockNoted ==
    pc # "idle" =>
        /\ ~burnsecm => \A i \in Nodes : i < node => ~IsLock(i)
        /\ burnsecm =>
              \E i \in Nodes :
                 /\ i < node /\ IsLock(i)
                 /\ \A j \in Nodes : j < node /\ IsLock(j) => j <= i
                 /\ secmdata = blob[i].value
        /\ pc # "nodes" => node \notin Nodes /\ burnsecm

\* Past the verification the fuses are as in the copy of the blob, and past H2
\* it holds their code.
Checked ==
    /\ pc \in {"h2", "secmode"} =>
          \A i \in Nodes : blob[i].fuse \notin {"SECURITY_MODE", "H2"} =>
              store[blob[i].fuse] = local[i]
    /\ pc = "secmode" => store["H2"] = EccCode(store)

\* The magic is overwritten by a session that succeeds and by nothing else that
\* leaves the blob well formed.
Overwritten ==
    /\ wellFormed /\ ~magic /\ OnLoadedBlob => BlobBurnt
    /\ result = "ok" /\ wellFormed => ~magic

\* What the session has not come to is in the buffer as when the session began.
Ahead == pc = "nodes" => \A i \in Nodes : i >= node => data[i] = local[i]

\* Feasible, for a blob that burns no boot security mode: no bit to clear, no two
\* values for one fuse and no other H2 than the session's.
Coverable(b) ==
    /\ \A i, j \in DOMAIN b : b[i].fuse = b[j].fuse => b[i].value = b[j].value
    /\ \A i \in DOMAIN b : store[b[i].fuse] \subseteq b[i].value
    /\ Locks(b) =>
          /\ store["H2"] \subseteq EccCode(Target(b))
          /\ \A i \in DOMAIN b : b[i].fuse = "H2" => b[i].value = EccCode(Target(b))

\* The blob could be burnt when it was loaded, and burns no boot security mode.
Promised == feasible /\ SparesMode(blob)

\* A blob that could be burnt still can be; what the buffer lacks of a value is
\* burnt already, so that a write that is confirmed burns the whole value.
CanGoOn ==
    Promised =>
        /\ Coverable(blob)
        /\ \A i \in Nodes :
              ~IsLock(i) => /\ data[i] \subseteq blob[i].value
                            /\ blob[i].value \ store[blob[i].fuse] \subseteq data[i]

\* The nodes the session has passed are burnt.
PassedBurnt ==
    Promised /\ pc # "idle" =>
        \A i \in Nodes : i < node /\ ~IsLock(i) => store[blob[i].fuse] = blob[i].value

IInv ==
    /\ TypeOK
    /\ Underway
    /\ LockValueKept
    /\ LockNoted
    /\ Checked
    /\ Overwritten
    /\ Ahead
    /\ CanGoOn
    /\ PassedBurnt

---------------------------------------------------------------------------
(* Values and codes.                                                       *)

\* The generator of the Hamming code writes the fourteen bits of H2.
LEMMA CodeType == \A fuses : EccCode(fuses) \subseteq CodeBits
BY DEF EccCode, CodeBits

\* The code depends on the fuses of the region alone.
LEMMA CodeOfRegion ==
    ASSUME NEW a, NEW b, \A f \in EccRegion : a[f] = b[f]
    PROVE  EccCode(a) = EccCode(b)
<1>1. {c \in EccRegion \X Bits : c[2] \in a[c[1]]} = {c \in EccRegion \X Bits : c[2] \in b[c[1]]}
  OBVIOUS
<1> QED
  BY <1>1, Zenon DEF EccCode

\* A node of the blob names a fuse and a value of it.
LEMMA NodeType ==
    ASSUME TypeOK, NEW i \in Nodes
    PROVE  /\ blob[i].fuse \in Fuses /\ blob[i].value \subseteq Bits
           /\ i \in Nat \ {0}
<1>1. blob \in Seq(FuseNode)
  BY DEF TypeOK
<1>2. i \in 1 .. Len(blob)
  BY <1>1 DEF Nodes
<1>3. blob[i] \in FuseNode
  BY <1>1, <1>2
<1> QED
  BY <1>2, <1>3 DEF FuseNode

\* A blob in storage is parsed to the values it names.
LEMMA LoadType ==
    ASSUME NEW b \in Blobs
    PROVE  /\ b \in Seq(FuseNode)
           /\ Values(b) \in [DOMAIN b -> SUBSET (Bits \cup CodeBits)]
<1>1. b \in Seq(FuseNode)
  BY FuseBurnAssumption
<1>2. \A i \in 1 .. Len(b) : b[i] \in FuseNode
  BY <1>1
<1>3. DOMAIN b = 1 .. Len(b)
  BY <1>1
<1>4. \A i \in DOMAIN b : b[i].value \in SUBSET (Bits \cup CodeBits)
  BY <1>2, <1>3 DEF FuseNode
<1> QED
  BY <1>1, <1>4 DEF Values

---------------------------------------------------------------------------
(* What a fuse is read as.                                                 *)

\* The boot security modes take the bits 0 to 2; other fuses read as they are.
LEMMA ShownType ==
    ASSUME TypeOK, NEW f \in Fuses
    PROVE  Shown(f) \subseteq Bits \cup CodeBits
BY DEF Shown, ReadAs, BootSecurityMode, TypeOK, CodeBits

\* Without bits 1 and 2 the boot security fuse is shown as mode 0; no other fuse
\* is shown as anything but itself.
LEMMA ReadAsIs ==
    ASSUME NEW f, NEW raw, f = "BOOT_SECURITY_INFO" => raw \cap {1, 2} = {}
    PROVE  ReadAs(f, raw) = IF f = "BOOT_SECURITY_INFO" THEN {} ELSE raw
BY DEF ReadAs, BootSecurityMode

\* A value that spares the boot security modes can be burnt when it clears no bit.
LEMMA BurnableIff ==
    ASSUME NEW f, NEW v, f = "BOOT_SECURITY_INFO" => v \cap {1, 2} = {}
    PROVE  Burnable(f, v) <=> store[f] \subseteq v
<1>1. ASSUME store[f] \subseteq v PROVE Burnable(f, v)
  <2>1. Shown(f) = IF f = "BOOT_SECURITY_INFO" THEN {} ELSE store[f]
    BY <1>1, ReadAsIs DEF Shown
  <2> QED
    BY <1>1, <2>1 DEF Burnable
<1> QED
  BY <1>1 DEF Burnable

\* Whether a blob that burns no boot security mode is feasible, in terms of the
\* registers alone.
LEMMA FeasibleIff ==
    ASSUME NEW b, SparesMode(b)
    PROVE  Feasible(b) <=> Coverable(b)
<1>1. \A i \in DOMAIN b : Burnable(b[i].fuse, b[i].value) <=> store[b[i].fuse] \subseteq b[i].value
  BY BurnableIff DEF SparesMode
<1>2. \A i \in DOMAIN b : ReadAs(b[i].fuse, b[i].value) \subseteq b[i].value
  BY ReadAsIs DEF SparesMode
<1>3. Burnable("H2", EccCode(Target(b))) <=> store["H2"] \subseteq EccCode(Target(b))
  BY BurnableIff
<1> HIDE DEF Burnable, ReadAs, EccCode, Target, Locks
<1> QED
  BY <1>1, <1>2, <1>3 DEF Feasible, Coverable

---------------------------------------------------------------------------
(* Types.                                                                  *)

\* A write of the session changes the fuse it names, to a value of the type.
LEMMA WriteType ==
    ASSUME TypeOK, NEW f \in Fuses, NEW v \in SUBSET (Bits \cup CodeBits),
           WriteSucceeds(f, v) \/ WriteRefused(f, v) \/ WriteFails(f, v)
    PROVE  /\ store' \in [Fuses -> SUBSET (Bits \cup CodeBits)]
           /\ \A g \in Fuses \ {f} : store'[g] = store[g]
BY DEF TypeOK, WriteSucceeds, WriteRefused, WriteFails

\* Every variable has its type when the boot loader starts.
LEMMA InitType == Init => TypeOK
<1> SUFFICES ASSUME Init PROVE TypeOK
  OBVIOUS
<1>1. store \in [Fuses -> SUBSET (Bits \cup CodeBits)]
  BY DEF Init, CodeBits
<1>2. /\ blob \in Seq(FuseNode)
      /\ data \in [Nodes -> SUBSET (Bits \cup CodeBits)]
  <2>1. blob = << >> /\ data = << >>
    BY DEF Init
  <2>2. blob \in Seq(FuseNode)
    BY <2>1
  <2>3. Nodes = {} /\ DOMAIN data = {}
    BY <2>1 DEF Nodes
  <2>4. data = [i \in {} |-> {}]
    BY <2>1
  <2> QED
    BY <2>2, <2>3, <2>4
<1>3. /\ magic \in BOOLEAN /\ wellFormed \in BOOLEAN /\ burnsecm \in BOOLEAN
      /\ feasible \in BOOLEAN
  BY Zenon DEF Init
<1>4. /\ pc = "idle" /\ node \in Nat \ {0} /\ secmdata = {} /\ result = "none"
      /\ sessions \in Nat /\ losses \in Nat
  BY DEF Init
<1> QED
  BY <1>1, <1>2, <1>3, <1>4 DEF TypeOK

\* Every step keeps the types.
LEMMA TypeStep == TypeOK /\ [Next]_vars => TypeOK'
<1> SUFFICES ASSUME TypeOK, [Next]_vars PROVE TypeOK'
  OBVIOUS
<1>1. ASSUME NEW b \in Blobs, LoadBlob(b) PROVE TypeOK'
  BY <1>1, LoadType DEF LoadBlob, TypeOK, session, Nodes
<1>2. ASSUME NEW m \in BOOLEAN, LoadGarbage(m) PROVE TypeOK'
  BY <1>2 DEF LoadGarbage, TypeOK, session, Nodes
<1>3. CASE TooHotOrCold \/ NoMagic \/ NotParsed \/ NotProduction \/ BeginBurning
  <2>1. StartSession
    BY <1>3 DEF TooHotOrCold, NoMagic, NotParsed, NotProduction, BeginBurning
  <2>2. sessions' \in Nat /\ UNCHANGED << store, memory, feasible, losses >>
    BY <2>1 DEF StartSession, TypeOK
  <2>3. CASE TooHotOrCold \/ NoMagic \/ NotParsed
    BY <2>2, <2>3 DEF TooHotOrCold, NoMagic, NotParsed, Return, TypeOK, session, memory,
                      Nodes
  <2>4. CASE NotProduction \/ BeginBurning
    <3>1. burnsecm' \in BOOLEAN
      BY <2>4, Zenon DEF NotProduction, BeginBurning, TypeOK
    <3> QED
      BY <2>2, <2>4, <3>1 DEF NotProduction, BeginBurning, Return, TypeOK, memory, Nodes
  <2> QED
    BY <1>3, <2>3, <2>4
<1>4. CASE NoteSecurityMode
  BY <1>4 DEF NoteSecurityMode, AtNode, TypeOK, memory, Nodes
<1>5. ASSUME WriteNode PROVE data' \in [Nodes -> SUBSET (Bits \cup CodeBits)]
  BY <1>5, NodeType, ShownType DEF WriteNode, AtNode, TypeOK, SymDiff
<1>6. CASE NodeBurnt
  <2>1. blob[node].fuse \in Fuses /\ data[node] \in SUBSET (Bits \cup CodeBits)
    BY <1>6, NodeType DEF NodeBurnt, WriteNode, AtNode, TypeOK
  <2>2. store' \in [Fuses -> SUBSET (Bits \cup CodeBits)]
    BY <1>6, <2>1, WriteType DEF NodeBurnt
  <2> QED
    BY <1>5, <1>6, <2>2 DEF NodeBurnt, WriteNode, TypeOK, Nodes
<1>7. CASE NodeNotBurnt
  <2>1. CASE NodeUntouched
    BY <1>7, <2>1 DEF NodeNotBurnt, NodeUntouched, Return, TypeOK, memory, Nodes
  <2>2. CASE NodeRefused \/ NodeFails
    <3>1. blob[node].fuse \in Fuses /\ data[node] \in SUBSET (Bits \cup CodeBits)
      BY <2>2, NodeType DEF NodeRefused, NodeFails, WriteNode, AtNode, TypeOK
    <3>2. store' \in [Fuses -> SUBSET (Bits \cup CodeBits)]
      BY <2>2, <3>1, WriteType DEF NodeRefused, NodeFails
    <3>3. WriteNode
      BY <2>2 DEF NodeRefused, NodeFails
    <3> QED
      BY <1>5, <1>7, <3>2, <3>3 DEF NodeNotBurnt, WriteNode, Return, TypeOK, Nodes
  <2> QED
    BY <1>7, <2>1, <2>2 DEF NodeNotBurnt
<1>8. CASE VerifyFails \/ FinishWithoutLock \/ VerifyPasses
  BY <1>8 DEF VerifyFails, FinishWithoutLock, VerifyPasses, Return, TypeOK, memory,
              session, Nodes
<1>9. CASE H2Burnt \/ LockBurnt \/ LockingFails
  <2>1. "H2" \in Fuses /\ "SECURITY_MODE" \in Fuses
    BY FuseBurnAssumption
  <2>2. EccCode(store) \subseteq Bits \cup CodeBits /\ secmdata \subseteq Bits \cup CodeBits
    BY CodeType DEF TypeOK
  <2>3. store' \in [Fuses -> SUBSET (Bits \cup CodeBits)]
    BY <1>9, <2>1, <2>2, WriteType DEF H2Burnt, LockBurnt, LockingFails
  <2> QED
    BY <1>9, <2>3 DEF H2Burnt, LockBurnt, LockingFails, Return, TypeOK, memory, session,
                      Nodes
<1>10. CASE PowerLoss
  <2>1. "H2" \in Fuses /\ "SECURITY_MODE" \in Fuses
    BY FuseBurnAssumption
  <2>2. EccCode(store) \subseteq Bits \cup CodeBits /\ secmdata \subseteq Bits \cup CodeBits
    BY CodeType DEF TypeOK
  <2>3. AtNode => blob[node].fuse \in Fuses /\ data[node] \subseteq Bits \cup CodeBits
    BY NodeType DEF AtNode, TypeOK
  <2>4. store' \in [Fuses -> SUBSET (Bits \cup CodeBits)]
    BY <1>10, <2>1, <2>2, <2>3, WriteType DEF PowerLoss, InterruptedWrite, TypeOK
  <2>5. losses' \in Nat
    BY <1>10 DEF PowerLoss, TypeOK
  <2> QED
    BY <1>10, <2>4, <2>5 DEF PowerLoss, Return, TypeOK, session, Nodes
<1>11. CASE UNCHANGED vars
  BY <1>11 DEF vars, memory, session, TypeOK, Nodes
<1> QED
  BY <1>1, <1>2, <1>3, <1>4, <1>6, <1>7, <1>8, <1>9, <1>10, <1>11 DEF Next, SessionStep

---------------------------------------------------------------------------
(* What a session knows of the nodes it has passed.                        *)

\* The walk has passed every node once it has left the blob.
LEMMA PastNodes ==
    ASSUME TypeOK, node \notin Nodes, NEW i \in Nodes
    PROVE  i < node
<1>1. Nodes = 1 .. Len(blob) /\ Len(blob) \in Nat
  BY DEF TypeOK, Nodes
<1> QED
  BY <1>1 DEF TypeOK

\* No step but loading changes the blob, and none but a write its values.
LEMMA WalkStep ==
    TypeOK /\ Underway /\ LockValueKept /\ LockNoted /\ [Next]_vars
        => Underway' /\ LockValueKept' /\ LockNoted'
<1> SUFFICES ASSUME TypeOK, Underway, LockValueKept, LockNoted, [Next]_vars
             PROVE  Underway' /\ LockValueKept' /\ LockNoted'
  OBVIOUS
<1>1. ASSUME NEW b \in Blobs, LoadBlob(b) PROVE Underway' /\ LockValueKept' /\ LockNoted'
  BY <1>1 DEF LoadBlob, session, Values, Underway, LockValueKept, LockNoted, Nodes, IsLock
<1>2. ASSUME NEW m \in BOOLEAN, LoadGarbage(m)
      PROVE  Underway' /\ LockValueKept' /\ LockNoted'
  BY <1>2 DEF LoadGarbage, session, Underway, LockValueKept, LockNoted, Nodes, IsLock
<1>3. CASE TooHotOrCold \/ NoMagic \/ NotParsed \/ NotProduction
  BY <1>3 DEF TooHotOrCold, NoMagic, NotParsed, NotProduction, StartSession, Return, memory,
              Underway, LockValueKept, LockNoted, Nodes, IsLock
<1>4. CASE BeginBurning
  <2>1. \A i \in Nodes : ~(i < 1)
    BY NodeType
  <2> QED
    BY <1>4, <2>1 DEF BeginBurning, StartSession, memory, Underway, LockValueKept,
                      LockNoted, Nodes, IsLock
<1>5. CASE NoteSecurityMode
  <2>1. node \in Nodes /\ IsLock(node) /\ pc = "nodes"
    BY <1>5 DEF NoteSecurityMode, AtNode, IsLock
  <2>2. \A i \in Nodes : i < node + 1 => i <= node
    BY NodeType DEF TypeOK
  <2>3. secmdata' = blob[node].value
    BY <1>5, <2>1 DEF NoteSecurityMode, LockValueKept
  <2>4. node < node + 1
    BY DEF TypeOK
  <2>5. UNCHANGED << blob, data, pc, magic, wellFormed, result >> /\ node' = node + 1
        /\ burnsecm'
    BY <1>5 DEF NoteSecurityMode, memory
  <2> QED
    BY <2>1, <2>2, <2>3, <2>4, <2>5 DEF Underway, LockValueKept, LockNoted, Nodes, IsLock
<1>6. ASSUME WriteNode PROVE LockValueKept'
  BY <1>6 DEF WriteNode, AtNode, LockValueKept, Nodes, IsLock, TypeOK
<1>7. CASE NodeBurnt
  <2>1. node \in Nodes /\ ~IsLock(node) /\ pc = "nodes" /\ WriteNode
    BY <1>7 DEF NodeBurnt, WriteNode, AtNode, IsLock
  <2>2. ASSUME NEW i \in Nodes, IsLock(i) PROVE i < node + 1 <=> i < node
    <3>1. i \in Nat /\ node \in Nat /\ i # node
      BY <2>1, <2>2, NodeType DEF TypeOK
    <3> QED
      BY <3>1
  <2>3. UNCHANGED << blob, pc, magic, wellFormed, result, burnsecm, secmdata >>
        /\ node' = node + 1
    BY <1>7 DEF NodeBurnt, WriteNode
  <2>4. LockNoted'
    BY <2>1, <2>2, <2>3 DEF LockNoted, Nodes, IsLock
  <2> QED
    BY <1>6, <2>1, <2>3, <2>4 DEF Underway
<1>8. CASE NodeNotBurnt
  <2>1. LockValueKept'
    BY <1>6, <1>8 DEF NodeNotBurnt, NodeRefused, NodeFails, NodeUntouched, memory,
                      LockValueKept, Nodes, IsLock
  <2> QED
    BY <1>8, <2>1 DEF NodeNotBurnt, Return, Underway, LockNoted
<1>9. CASE VerifyFails \/ FinishWithoutLock \/ VerifyPasses
  BY <1>9 DEF VerifyFails, FinishWithoutLock, VerifyPasses, Return, memory, session,
              Underway, LockValueKept, LockNoted, Nodes, IsLock
<1>10. CASE H2Burnt \/ LockBurnt \/ LockingFails
  BY <1>10 DEF H2Burnt, LockBurnt, LockingFails, Return, memory, session,
               Underway, LockValueKept, LockNoted, Nodes, IsLock
<1>11. CASE PowerLoss
  BY <1>11 DEF PowerLoss, Return, session, Underway, LockValueKept, LockNoted, Nodes, IsLock
<1>12. CASE UNCHANGED vars
  BY <1>12 DEF vars, memory, session, Underway, LockValueKept, LockNoted, Nodes, IsLock
<1> QED
  BY <1>1, <1>2, <1>3, <1>4, <1>5, <1>7, <1>8, <1>9, <1>10, <1>11, <1>12
     DEF Next, SessionStep

\* The code of the region does not move when H2 or the security mode is burnt.
LEMMA CodeStep ==
    ASSUME TypeOK, NEW f \in {"H2", "SECURITY_MODE"},
           \A g \in Fuses \ {f} : store'[g] = store[g]
    PROVE  EccCode(store') = EccCode(store)
<1>1. \A g \in EccRegion : store'[g] = store[g]
  BY FuseBurnAssumption
<1> QED
  BY <1>1, CodeOfRegion

\* Past the verification nothing is written but H2 and then the security mode.
LEMMA CheckedStep ==
    TypeOK /\ Underway /\ LockNoted /\ Checked /\ [Next]_vars => Checked'
<1> SUFFICES ASSUME TypeOK, Underway, LockNoted, Checked, [Next]_vars PROVE Checked'
  OBVIOUS
<1>1. CASE VerifyPasses
  BY <1>1 DEF VerifyPasses, Verified, memory, session, Checked, Nodes
<1>2. CASE H2Burnt
  <2>1. store' = [store EXCEPT !["H2"] = EccCode(store)]
    BY <1>2 DEF H2Burnt, WriteSucceeds
  <2>2. "H2" \in Fuses
    BY FuseBurnAssumption
  <2>3. EccCode(store') = EccCode(store)
    BY <2>1, CodeStep DEF TypeOK
  <2>4. store'["H2"] = EccCode(store')
    BY <2>1, <2>2, <2>3 DEF TypeOK
  <2>5. \A i \in Nodes : blob[i].fuse \notin {"SECURITY_MODE", "H2"} =>
            store'[blob[i].fuse] = local[i]
    BY <1>2, <2>1, NodeType DEF H2Burnt, Checked, TypeOK
  <2> QED
    BY <1>2, <2>4, <2>5 DEF H2Burnt, memory, session, Checked, Nodes
<1>3. CASE UNCHANGED vars
  BY <1>3 DEF vars, memory, session, Checked, Nodes
<1>4. CASE pc' \in {"idle", "nodes"}
  BY <1>4 DEF Checked
<1>5. pc' \in {"idle", "nodes"} \/ VerifyPasses \/ H2Burnt \/ UNCHANGED vars
  BY DEF Next, SessionStep, LoadBlob, LoadGarbage, TooHotOrCold, NoMagic, NotParsed,
         NotProduction, BeginBurning, NoteSecurityMode, AtNode, WriteNode, NodeBurnt,
         NodeNotBurnt, VerifyFails, FinishWithoutLock, LockBurnt, LockingFails, PowerLoss,
         Return
<1> QED
  BY <1>1, <1>2, <1>3, <1>4, <1>5

---------------------------------------------------------------------------
(* Success.                                                                *)

\* A session that ends without the lock has verified every node.
LEMMA UnlockedIsBurnt ==
    ASSUME TypeOK, LockNoted, FinishWithoutLock, OnLoadedBlob
    PROVE  BlobBurnt'
<1>1. \A i \in Nodes : ~IsLock(i)
  BY PastNodes DEF FinishWithoutLock, LockNoted
<1>2. \A i \in Nodes : local[i] = blob[i].value
  BY DEF OnLoadedBlob, Values, Nodes
<1>3. \A i \in Nodes : store[blob[i].fuse] = blob[i].value
  BY <1>1, <1>2 DEF FinishWithoutLock, Verified, IsLock
<1> QED
  BY <1>3 DEF FinishWithoutLock, BlobBurnt, Nodes

\* A session that ends with the lock has verified the other nodes before, and
\* burns the value of the last security mode node.
LEMMA LockedIsBurnt ==
    ASSUME TypeOK, Underway, LockNoted, Checked, LockBurnt, OnLoadedBlob
    PROVE  BlobBurnt'
<1>1. pc = "secmode" /\ store' = [store EXCEPT !["SECURITY_MODE"] = secmdata]
      /\ UNCHANGED blob
  BY DEF LockBurnt, WriteSucceeds
<1>2. \A i \in Nodes : local[i] = blob[i].value
  BY DEF OnLoadedBlob, Values, Nodes
<1>3. node \notin Nodes /\ burnsecm
  BY <1>1 DEF LockNoted
<1>4. Locks(blob)
  BY <1>1, <1>3 DEF LockNoted, Locks, IsLock, Nodes
<1>5. ASSUME NEW i \in Nodes, ~Superseded(i) PROVE store'[blob[i].fuse] = blob[i].value
  <2>1. blob[i].fuse \in Fuses /\ "SECURITY_MODE" \in Fuses
    BY NodeType, FuseBurnAssumption
  <2>2. CASE IsLock(i)
    <3>1. \A j \in Nodes : IsLock(j) => ~(j > i)
      BY <1>5, <2>2 DEF Superseded, IsLock
    <3>2. \A j \in Nodes : IsLock(j) => j <= i
      BY <3>1, NodeType
    <3>3. PICK k \in Nodes : IsLock(k) /\ i <= k /\ secmdata = blob[k].value
      BY <1>1, <1>3, <2>2, PastNodes DEF LockNoted
    <3>4. k = i
      BY <3>2, <3>3, NodeType
    <3> QED
      BY <1>1, <2>1, <2>2, <3>3, <3>4 DEF TypeOK, IsLock
  <2>3. CASE ~IsLock(i)
    <3>1. blob[i].fuse \notin {"SECURITY_MODE", "H2"}
      BY <1>4, <1>5, <2>3 DEF Superseded, IsLock
    <3> QED
      BY <1>1, <1>2, <2>1, <3>1 DEF Checked, TypeOK
  <2> QED
    BY <2>2, <2>3
<1> QED
  BY <1>1, <1>5 DEF BlobBurnt, Superseded, Nodes, Locks

\* Only the two ends of a session that succeeds overwrite the magic of a blob.
LEMMA OverwrittenStep ==
    TypeOK /\ Underway /\ LockNoted /\ Checked /\ Overwritten /\ [Next]_vars => Overwritten'
<1> SUFFICES ASSUME TypeOK, Underway, LockNoted, Checked, Overwritten, [Next]_vars
             PROVE  Overwritten'
  OBVIOUS
<1>1. ASSUME NEW b \in Blobs, LoadBlob(b) PROVE Overwritten'
  BY <1>1 DEF LoadBlob, Overwritten
<1>2. ASSUME NEW m \in BOOLEAN, LoadGarbage(m) PROVE Overwritten'
  BY <1>2 DEF LoadGarbage, Overwritten
<1>3. CASE TooHotOrCold \/ NoMagic \/ NotParsed
  BY <1>3 DEF TooHotOrCold, NoMagic, NotParsed, StartSession, Return, memory, session,
              Overwritten, OnLoadedBlob, BlobBurnt, Superseded, Locks, Nodes, Values
<1>4. CASE NotProduction \/ BeginBurning
  BY <1>4 DEF NotProduction, BeginBurning, StartSession, Return, memory, Overwritten
<1>5. CASE FinishWithoutLock
  <2>1. OnLoadedBlob' => OnLoadedBlob
    BY <1>5 DEF FinishWithoutLock, session, OnLoadedBlob, Values
  <2> QED
    BY <1>5, <2>1, UnlockedIsBurnt DEF FinishWithoutLock, Overwritten
<1>6. CASE LockBurnt
  <2>1. OnLoadedBlob' => OnLoadedBlob
    BY <1>6 DEF LockBurnt, session, OnLoadedBlob, Values
  <2> QED
    BY <1>6, <2>1, LockedIsBurnt DEF LockBurnt, Overwritten
<1>7. ASSUME pc # "idle", UNCHANGED magic, result' # "ok" PROVE Overwritten'
  BY <1>7 DEF Underway, Overwritten
<1>8. CASE NoteSecurityMode \/ NodeBurnt \/ NodeNotBurnt
  <2>1. pc # "idle" /\ UNCHANGED magic
    BY <1>8 DEF NoteSecurityMode, NodeBurnt, NodeNotBurnt, NodeRefused, NodeFails,
                NodeUntouched, WriteNode, AtNode, memory
  <2>2. result' # "ok"
    BY <1>8, <2>1 DEF NoteSecurityMode, NodeBurnt, NodeNotBurnt, Return, Underway
  <2> QED
    BY <1>7, <2>1, <2>2
<1>9. CASE VerifyFails \/ VerifyPasses \/ H2Burnt \/ LockingFails
  <2>1. pc # "idle" /\ UNCHANGED magic
    BY <1>9 DEF VerifyFails, VerifyPasses, H2Burnt, LockingFails, memory
  <2>2. result' # "ok"
    BY <1>9, <2>1 DEF VerifyFails, VerifyPasses, H2Burnt, LockingFails, Return, Underway
  <2> QED
    BY <1>7, <2>1, <2>2
<1>10. CASE PowerLoss
  BY <1>10 DEF PowerLoss, Return, Overwritten
<1>11. CASE UNCHANGED vars
  BY <1>11 DEF vars, memory, session, Overwritten, OnLoadedBlob, BlobBurnt, Superseded,
               Locks, Nodes, Values
<1> QED
  BY <1>1, <1>2, <1>3, <1>4, <1>5, <1>6, <1>8, <1>9, <1>10, <1>11 DEF Next, SessionStep

---------------------------------------------------------------------------
(* Resuming.                                                               *)

\* A fuse the session may write: one the blob names, H2 or the security mode.
Written(f) == f \in {"H2", "SECURITY_MODE"} \/ \E i \in Nodes : blob[i].fuse = f

\* Writing the fuses of the blob, H2 or the security mode does not move the code
\* the device will have once the blob is burnt.
LEMMA TargetSteady ==
    ASSUME NEW f \in Fuses, Written(f), UNCHANGED blob,
           \A g \in Fuses \ {f} : store'[g] = store[g]
    PROVE  EccCode(Target(blob)') = EccCode(Target(blob))
<1>1. ASSUME NEW g \in EccRegion PROVE Target(blob)'[g] = Target(blob)[g]
  <2>1. g \in Fuses \ {"H2", "SECURITY_MODE"}
    BY FuseBurnAssumption
  <2>2. CASE \E i \in DOMAIN blob : blob[i].fuse = g
    BY <2>1, <2>2 DEF Target
  <2>3. CASE ~ \E i \in DOMAIN blob : blob[i].fuse = g
    <3>1. g # f
      BY <2>1, <2>3 DEF Written, Nodes
    <3> QED
      BY <2>1, <2>3, <3>1 DEF Target
  <2> QED
    BY <2>2, <2>3
<1> QED
  BY <1>1, CodeOfRegion

\* When every other fuse of the blob is burnt, the code of the macro is the code
\* the device is to have.
LEMMA TargetReached ==
    ASSUME Coverable(blob),
           \A i \in Nodes : blob[i].fuse \notin {"SECURITY_MODE", "H2"} =>
               store[blob[i].fuse] = blob[i].value
    PROVE  EccCode(Target(blob)) = EccCode(store)
<1>1. ASSUME NEW g \in EccRegion PROVE Target(blob)[g] = store[g]
  <2>1. g \in Fuses \ {"H2", "SECURITY_MODE"}
    BY FuseBurnAssumption
  <2>2. CASE \E i \in DOMAIN blob : blob[i].fuse = g
    <3>1. PICK i \in DOMAIN blob : /\ blob[i].fuse = g
                                   /\ Target(blob)[g] = blob[i].value
      BY <2>1, <2>2 DEF Target
    <3> QED
      BY <2>1, <3>1 DEF Nodes
  <2>3. CASE ~ \E i \in DOMAIN blob : blob[i].fuse = g
    BY <2>1, <2>3 DEF Target
  <2> QED
    BY <2>2, <2>3
<1> QED
  BY <1>1, CodeOfRegion

\* A write that burns no more than the blob, or the lock, will have burnt in the
\* end leaves a blob that can be gone on with.
LEMMA WriteGoesOn ==
    ASSUME TypeOK, CanGoOn, UNCHANGED << blob, feasible >>,
           Promised =>
              /\ \A i \in Nodes :
                    ~IsLock(i) => /\ data'[i] \subseteq blob[i].value
                                  /\ \/ data[i] \subseteq data'[i]
                                     \/ blob[i].value \ store'[blob[i].fuse] \subseteq data'[i]
              /\ \/ UNCHANGED store
                 \/ \E f \in Fuses :
                       /\ Written(f)
                       /\ \A g \in Fuses \ {f} : store'[g] = store[g]
                       /\ store[f] \subseteq store'[f]
                       /\ \A i \in Nodes : blob[i].fuse = f => store'[f] \subseteq blob[i].value
                       /\ f = "H2" /\ Locks(blob) => store'[f] \subseteq EccCode(Target(blob))
    PROVE  CanGoOn'
<1>a. Promised' <=> Promised
  BY DEF Promised, SparesMode
<1> SUFFICES ASSUME Promised PROVE CanGoOn'
  BY <1>a DEF CanGoOn
<1>1. CASE UNCHANGED store
  <2>1. Coverable(blob)'
    BY <1>1 DEF CanGoOn, Coverable, Target, Locks
  <2>2. \A i \in Nodes : ~IsLock(i) =>
            /\ data'[i] \subseteq blob[i].value
            /\ blob[i].value \ store'[blob[i].fuse] \subseteq data'[i]
    BY <1>1 DEF CanGoOn
  <2> QED
    BY <2>1, <2>2 DEF CanGoOn, Nodes, IsLock
<1>2. ASSUME NEW f \in Fuses, Written(f),
             \A g \in Fuses \ {f} : store'[g] = store[g],
             store[f] \subseteq store'[f],
             \A i \in Nodes : blob[i].fuse = f => store'[f] \subseteq blob[i].value,
             f = "H2" /\ Locks(blob) => store'[f] \subseteq EccCode(Target(blob))
      PROVE  CanGoOn'
  <2> DEFINE t == EccCode(Target(blob))
  <2>1. EccCode(Target(blob)') = t
    BY <1>2, TargetSteady
  <2>2. "H2" \in Fuses
    BY FuseBurnAssumption
  <2>3. /\ \A i, j \in DOMAIN blob :
              blob[i].fuse = blob[j].fuse => blob[i].value = blob[j].value
        /\ \A i \in DOMAIN blob : store[blob[i].fuse] \subseteq blob[i].value
        /\ Locks(blob) => /\ store["H2"] \subseteq t
                          /\ \A i \in DOMAIN blob : blob[i].fuse = "H2" => blob[i].value = t
    BY DEF CanGoOn, Coverable
  <2>4. \A i \in DOMAIN blob : blob[i].fuse \in Fuses
    BY NodeType DEF Nodes
  <2>5. \A i \in DOMAIN blob : store'[blob[i].fuse] \subseteq blob[i].value
    BY <1>2, <2>3, <2>4 DEF Nodes
  <2>6. Locks(blob) => store'["H2"] \subseteq t
    BY <1>2, <2>2, <2>3
  <2>7. Coverable(blob)'
    <3>1. Locks(blob)' <=> Locks(blob)
      BY DEF Locks
    <3> HIDE DEF t
    <3> QED
      BY <2>1, <2>3, <2>5, <2>6, <3>1 DEF Coverable
  <2>8. \A i \in Nodes : ~IsLock(i) =>
            /\ data'[i] \subseteq blob[i].value
            /\ blob[i].value \ store'[blob[i].fuse] \subseteq data'[i]
    BY <1>2, <2>4 DEF CanGoOn, Nodes
  <2> QED
    BY <2>7, <2>8 DEF CanGoOn, Nodes, IsLock
<1> QED
  BY <1>1, <1>2

\* The values of a blob that burns no boot security mode.
LEMMA NodeSpares ==
    ASSUME Promised, NEW i \in Nodes
    PROVE  blob[i].fuse = "BOOT_SECURITY_INFO" => blob[i].value \cap {1, 2} = {}
BY DEF Promised, SparesMode, Nodes

\* A write of a node that is confirmed burns the whole value of the node.
LEMMA NodeWrite ==
    ASSUME TypeOK, CanGoOn, Promised, AtNode, ~IsLock(node),
           store[blob[node].fuse] \subseteq data[node]
    PROVE  data[node] = blob[node].value
<1>1. node \in Nodes
  BY DEF AtNode
<1>2. blob[node].value \ store[blob[node].fuse] \subseteq data[node]
      /\ data[node] \subseteq blob[node].value
  BY <1>1 DEF CanGoOn
<1> QED
  BY <1>2

\* What a write of the node, whole or in part, may make of its fuse.
LEMMA NodeWriteWithin ==
    ASSUME TypeOK, CanGoOn, Promised, AtNode, ~IsLock(node),
           \/ WriteSucceeds(blob[node].fuse, data[node])
           \/ WriteFails(blob[node].fuse, data[node])
    PROVE  \E f \in Fuses :
              /\ f = blob[node].fuse
              /\ Written(f)
              /\ \A g \in Fuses \ {f} : store'[g] = store[g]
              /\ store[f] \subseteq store'[f]
              /\ store'[f] \subseteq blob[node].value
              /\ \A i \in Nodes : blob[i].fuse = f => store'[f] \subseteq blob[i].value
              /\ f = "H2" /\ Locks(blob) => store'[f] \subseteq EccCode(Target(blob))
<1> DEFINE f == blob[node].fuse
<1>1. node \in Nodes /\ f \in Fuses /\ Written(f)
  BY NodeType DEF AtNode, Written
<1>2. data[node] \subseteq blob[node].value /\ store[f] \subseteq blob[node].value
  BY <1>1 DEF CanGoOn, Coverable, Nodes
<1>3. /\ \A g \in Fuses \ {f} : store'[g] = store[g]
      /\ store[f] \subseteq store'[f] /\ store'[f] \subseteq blob[node].value
  BY <1>1, <1>2 DEF WriteSucceeds, WriteFails, Burnable, TypeOK
<1>4. /\ \A i \in Nodes : blob[i].fuse = f => blob[i].value = blob[node].value
      /\ f = "H2" /\ Locks(blob) => blob[node].value = EccCode(Target(blob))
  BY <1>1 DEF CanGoOn, Coverable, Nodes
<1> QED
  BY <1>1, <1>3, <1>4

\* H2 is burnt with the code the device is to have.
LEMMA H2Write ==
    ASSUME TypeOK, Underway, LockNoted, CanGoOn, PassedBurnt, Promised, pc = "h2"
    PROVE  /\ EccCode(store) = EccCode(Target(blob))
           /\ Locks(blob)
           /\ \A i \in Nodes : blob[i].fuse = "H2" => blob[i].value = EccCode(store)
<1>1. node \notin Nodes /\ burnsecm
  BY DEF LockNoted
<1>2. Locks(blob)
  BY <1>1 DEF LockNoted, Locks, IsLock, Nodes
<1>3. \A i \in Nodes : blob[i].fuse \notin {"SECURITY_MODE", "H2"} =>
          store[blob[i].fuse] = blob[i].value
  BY <1>1, PastNodes DEF PassedBurnt, IsLock
<1>4. Coverable(blob)
  BY DEF CanGoOn
<1>5. EccCode(store) = EccCode(Target(blob))
  BY <1>3, <1>4, TargetReached
<1> QED
  BY <1>2, <1>4, <1>5 DEF Coverable, Nodes

\* What a write of H2, whole or in part, may make of it.
LEMMA H2WriteWithin ==
    ASSUME TypeOK, Underway, LockNoted, CanGoOn, PassedBurnt, Promised, pc = "h2",
           WriteSucceeds("H2", EccCode(store)) \/ WriteFails("H2", EccCode(store))
    PROVE  \E f \in Fuses :
              /\ Written(f)
              /\ \A g \in Fuses \ {f} : store'[g] = store[g]
              /\ store[f] \subseteq store'[f]
              /\ \A i \in Nodes : blob[i].fuse = f => store'[f] \subseteq blob[i].value
              /\ f = "H2" /\ Locks(blob) => store'[f] \subseteq EccCode(Target(blob))
<1>1. "H2" \in Fuses /\ Written("H2")
  BY FuseBurnAssumption DEF Written
<1>2. /\ \A g \in Fuses \ {"H2"} : store'[g] = store[g]
      /\ store["H2"] \subseteq store'["H2"] /\ store'["H2"] \subseteq EccCode(store)
  BY <1>1 DEF WriteSucceeds, WriteFails, Burnable, Shown, ReadAs, TypeOK
<1> QED
  BY <1>1, <1>2, H2Write

\* What a write of the security mode, whole or in part, may make of it.
LEMMA LockWriteWithin ==
    ASSUME TypeOK, Underway, LockNoted, CanGoOn, Promised, pc = "secmode",
           WriteSucceeds("SECURITY_MODE", secmdata) \/ WriteFails("SECURITY_MODE", secmdata)
    PROVE  \E f \in Fuses :
              /\ Written(f)
              /\ \A g \in Fuses \ {f} : store'[g] = store[g]
              /\ store[f] \subseteq store'[f]
              /\ \A i \in Nodes : blob[i].fuse = f => store'[f] \subseteq blob[i].value
              /\ f = "H2" /\ Locks(blob) => store'[f] \subseteq EccCode(Target(blob))
<1> DEFINE f == "SECURITY_MODE"
<1>1. f \in Fuses /\ Written(f)
  BY FuseBurnAssumption DEF Written
<1>2. PICK k \in Nodes : IsLock(k) /\ secmdata = blob[k].value
  BY DEF LockNoted
<1>3. \A i \in Nodes : blob[i].fuse = f => blob[i].value = secmdata
  BY <1>2 DEF CanGoOn, Coverable, Nodes, IsLock
<1>4. /\ \A g \in Fuses \ {f} : store'[g] = store[g]
      /\ store[f] \subseteq store'[f] /\ store'[f] \subseteq secmdata
  BY <1>1 DEF WriteSucceeds, WriteFails, Burnable, Shown, ReadAs, TypeOK
<1> QED
  BY <1>1, <1>3, <1>4

\* The XOR that a write leaves in the buffer lacks nothing that is still to burn.
LEMMA XorGoesOn ==
    ASSUME TypeOK, CanGoOn, Promised, WriteNode,
           store[blob[node].fuse] \subseteq store'[blob[node].fuse]
    PROVE  \A i \in Nodes :
              ~IsLock(i) => /\ data'[i] \subseteq blob[i].value
                            /\ \/ data[i] \subseteq data'[i]
                               \/ blob[i].value \ store'[blob[i].fuse] \subseteq data'[i]
<1> TAKE i \in Nodes
<1> SUFFICES ASSUME ~IsLock(i)
             PROVE  /\ data'[i] \subseteq blob[i].value
                    /\ \/ data[i] \subseteq data'[i]
                       \/ blob[i].value \ store'[blob[i].fuse] \subseteq data'[i]
  OBVIOUS
<1>1. /\ data[i] \subseteq blob[i].value
      /\ blob[i].value \ store[blob[i].fuse] \subseteq data[i]
      /\ store[blob[i].fuse] \subseteq blob[i].value
  BY DEF CanGoOn, Coverable, Nodes
<1>2. CASE i = node
  <2>1. data'[i] = SymDiff(data[i], Shown(blob[i].fuse))
    BY <1>2 DEF WriteNode, TypeOK
  <2>2. Shown(blob[i].fuse) \in {{}, store[blob[i].fuse]}
    BY <1>1, NodeSpares, ReadAsIs DEF Shown
  <2> QED
    BY <1>1, <1>2, <2>1, <2>2 DEF SymDiff
<1>3. CASE i # node
  BY <1>1, <1>3 DEF WriteNode, TypeOK
<1> QED
  BY <1>2, <1>3

\* No step makes a blob impossible to burn.
LEMMA CanGoOnStep ==
    TypeOK /\ Underway /\ LockNoted /\ CanGoOn /\ PassedBurnt /\ [Next]_vars => CanGoOn'
<1> SUFFICES ASSUME TypeOK, Underway, LockNoted, CanGoOn, PassedBurnt, [Next]_vars
             PROVE  CanGoOn'
  OBVIOUS
<1>1. ASSUME NEW b \in Blobs, LoadBlob(b) PROVE CanGoOn'
  <2>1. Promised' => Coverable(b)
    <3>1. SparesMode(blob)' <=> SparesMode(b)
      BY <1>1 DEF LoadBlob, SparesMode
    <3>2. SparesMode(b) /\ Feasible(b) => Coverable(b)
      BY FeasibleIff
    <3> QED
      BY <1>1, <3>1, <3>2 DEF LoadBlob, CanGoOn, Promised
  <2>2. Coverable(b) => Coverable(blob)'
    BY <1>1 DEF LoadBlob, Coverable, Target, Locks
  <2>3. \A i \in Nodes' : data'[i] = blob'[i].value
    BY <1>1 DEF LoadBlob, Values, Nodes
  <2> QED
    BY <2>1, <2>2, <2>3 DEF CanGoOn
<1>2. CASE UNCHANGED << store, blob, data, feasible >>
  BY <1>2, WriteGoesOn DEF CanGoOn
<1>3. CASE NodeBurnt \/ NodeRefused \/ NodeFails
  <2>1. WriteNode /\ AtNode /\ ~IsLock(node)
    BY <1>3 DEF NodeBurnt, NodeRefused, NodeFails, WriteNode, IsLock
  <2>2. UNCHANGED << blob, feasible >>
    BY <2>1 DEF WriteNode
  <2>3. CASE NodeRefused
    <3>1. UNCHANGED store
      BY <2>3 DEF NodeRefused, WriteRefused
    <3> QED
      BY <2>1, <2>2, <3>1, XorGoesOn, WriteGoesOn
  <2>4. CASE NodeBurnt \/ NodeFails
    <3>1. \/ WriteSucceeds(blob[node].fuse, data[node])
          \/ WriteFails(blob[node].fuse, data[node])
      BY <2>4 DEF NodeBurnt, NodeFails
    <3>2. CASE Promised
      <4>1. PICK f \in Fuses :
              /\ f = blob[node].fuse
              /\ Written(f)
              /\ \A g \in Fuses \ {f} : store'[g] = store[g]
              /\ store[f] \subseteq store'[f]
              /\ \A i \in Nodes : blob[i].fuse = f => store'[f] \subseteq blob[i].value
              /\ f = "H2" /\ Locks(blob) => store'[f] \subseteq EccCode(Target(blob))
        BY <2>1, <3>1, <3>2, NodeWriteWithin
      <4> QED
        BY <2>1, <2>2, <3>2, <4>1, XorGoesOn, WriteGoesOn
    <3>3. Promised' <=> Promised
      BY <2>2 DEF Promised, SparesMode
    <3> QED
      BY <3>2, <3>3 DEF CanGoOn
  <2> QED
    BY <1>3, <2>3, <2>4
<1>4. ASSUME UNCHANGED << blob, data, feasible >>, Promised,
             \/ /\ AtNode /\ blob[node].fuse # "SECURITY_MODE"
                /\ WriteFails(blob[node].fuse, data[node])
             \/ /\ pc = "h2"
                /\ WriteSucceeds("H2", EccCode(store)) \/ WriteFails("H2", EccCode(store))
             \/ /\ pc = "secmode"
                /\ \/ WriteSucceeds("SECURITY_MODE", secmdata)
                   \/ WriteFails("SECURITY_MODE", secmdata)
      PROVE  CanGoOn'
  <2>1. \E f \in Fuses :
              /\ Written(f)
              /\ \A g \in Fuses \ {f} : store'[g] = store[g]
              /\ store[f] \subseteq store'[f]
              /\ \A i \in Nodes : blob[i].fuse = f => store'[f] \subseteq blob[i].value
              /\ f = "H2" /\ Locks(blob) => store'[f] \subseteq EccCode(Target(blob))
    BY <1>4, NodeWriteWithin, H2WriteWithin, LockWriteWithin DEF IsLock
  <2>2. \A i \in Nodes : ~IsLock(i) => data'[i] \subseteq blob[i].value
                                       /\ data[i] \subseteq data'[i]
    BY <1>4 DEF CanGoOn
  <2> QED
    BY <1>4, <2>1, <2>2, WriteGoesOn
<1>5. CASE H2Burnt \/ LockBurnt \/ LockingFails
  <2>1. UNCHANGED << blob, data, feasible >>
    BY <1>5 DEF H2Burnt, LockBurnt, LockingFails, memory
  <2>2. ~Promised => CanGoOn'
    BY <2>1 DEF CanGoOn, Promised, SparesMode
  <2>3. CASE UNCHANGED store
    BY <1>2, <2>1, <2>3
  <2>4. CASE ~UNCHANGED store
    BY <1>4, <1>5, <2>1, <2>2, <2>4 DEF H2Burnt, LockBurnt, LockingFails, WriteRefused
  <2> QED
    BY <2>3, <2>4
<1>6. CASE PowerLoss
  <2>1. UNCHANGED << blob, data, feasible >>
    BY <1>6 DEF PowerLoss
  <2>2. ~Promised => CanGoOn'
    BY <2>1 DEF CanGoOn, Promised, SparesMode
  <2> QED
    BY <1>2, <1>4, <1>6, <2>1, <2>2 DEF PowerLoss, InterruptedWrite
<1>7. CASE \/ TooHotOrCold \/ NoMagic \/ NotParsed \/ NotProduction \/ BeginBurning
           \/ \E m \in BOOLEAN : LoadGarbage(m)
  BY <1>2, <1>7 DEF TooHotOrCold, NoMagic, NotParsed, NotProduction, BeginBurning,
                    StartSession, LoadGarbage, memory
<1>8. CASE \/ NoteSecurityMode \/ NodeUntouched \/ VerifyFails \/ FinishWithoutLock
           \/ VerifyPasses \/ UNCHANGED vars
  BY <1>2, <1>8 DEF NoteSecurityMode, NodeUntouched, VerifyFails, FinishWithoutLock,
                    VerifyPasses, memory, vars
<1> QED
  BY <1>1, <1>3, <1>5, <1>6, <1>7, <1>8 DEF Next, SessionStep, NodeNotBurnt

\* A node the session has passed stays burnt, whatever it writes after it.
LEMMA PassedStep ==
    TypeOK /\ Underway /\ LockNoted /\ CanGoOn /\ PassedBurnt /\ [Next]_vars => PassedBurnt'
<1> SUFFICES ASSUME TypeOK, Underway, LockNoted, CanGoOn, PassedBurnt, [Next]_vars,
                    Promised', pc' # "idle"
             PROVE  PassedBurnt'
  BY DEF PassedBurnt
<1>0. \/ BeginBurning \/ NoteSecurityMode \/ NodeBurnt \/ VerifyPasses \/ H2Burnt
      \/ UNCHANGED vars
  BY DEF Next, SessionStep, LoadBlob, LoadGarbage, TooHotOrCold, NoMagic, NotParsed,
         NotProduction, NodeNotBurnt, VerifyFails, FinishWithoutLock, LockBurnt,
         LockingFails, PowerLoss, Return
<1>a. Promised
  <2>1. UNCHANGED << blob, feasible >>
    BY <1>0 DEF BeginBurning, StartSession, NoteSecurityMode, NodeBurnt, WriteNode,
                VerifyPasses, H2Burnt, memory, vars
  <2> QED
    BY <2>1 DEF Promised, SparesMode
<1>1. CASE BeginBurning
  <2>1. \A i \in Nodes : ~(i < 1)
    BY NodeType
  <2> QED
    BY <1>a, <1>1, <2>1 DEF BeginBurning, StartSession, memory, PassedBurnt, Nodes
<1>2. CASE NoteSecurityMode
  <2>1. \A i \in Nodes : i < node + 1 /\ ~IsLock(i) => i < node
    BY <1>2, NodeType DEF NoteSecurityMode, IsLock, TypeOK
  <2> QED
    BY <1>a, <1>2, <2>1 DEF NoteSecurityMode, AtNode, memory, PassedBurnt, Nodes, IsLock
<1>3. CASE NodeBurnt
  <2>1. node \in Nodes /\ AtNode /\ ~IsLock(node) /\ pc = "nodes"
        /\ WriteSucceeds(blob[node].fuse, data[node])
        /\ UNCHANGED << blob, feasible >> /\ node' = node + 1
    BY <1>3 DEF NodeBurnt, WriteNode, AtNode, IsLock
  <2>2. data[node] = blob[node].value
    <3>1. store[blob[node].fuse] \subseteq data[node]
      BY <2>1 DEF WriteSucceeds, Burnable
    <3> QED
      BY <2>1, <1>a, <3>1, NodeWrite
  <2>3. ASSUME NEW i \in Nodes, i < node + 1, ~IsLock(i)
        PROVE  store'[blob[i].fuse] = blob[i].value
    <3>1. blob[i].fuse \in Fuses /\ i \in Nat
      BY NodeType
    <3>2. CASE blob[i].fuse = blob[node].fuse
      <4>1. blob[i].value = blob[node].value
        BY <1>a, <2>1, <3>2 DEF CanGoOn, Coverable, Nodes
      <4> QED
        BY <2>1, <2>2, <3>1, <3>2, <4>1 DEF WriteSucceeds, TypeOK
    <3>3. CASE blob[i].fuse # blob[node].fuse
      <4>1. i < node
        BY <2>3, <3>1, <3>3 DEF TypeOK
      <4> QED
        BY <1>a, <2>1, <2>3, <3>1, <3>3, <4>1 DEF PassedBurnt, WriteSucceeds, TypeOK
    <3> QED
      BY <3>2, <3>3
  <2> QED
    BY <2>1, <2>3 DEF PassedBurnt, Nodes, IsLock
<1>4. CASE VerifyPasses \/ UNCHANGED vars
  BY <1>a, <1>4 DEF VerifyPasses, vars, memory, session, PassedBurnt, Nodes, IsLock
<1>5. CASE H2Burnt
  <2>1. pc = "h2" /\ store' = [store EXCEPT !["H2"] = EccCode(store)]
        /\ UNCHANGED << blob, feasible, node >>
    BY <1>5 DEF H2Burnt, WriteSucceeds, memory, session
  <2>2. \A i \in Nodes : blob[i].fuse = "H2" => blob[i].value = EccCode(store)
    BY <1>a, <2>1, H2Write
  <2>3. \A i \in Nodes : i < node /\ ~IsLock(i) => store'[blob[i].fuse] = blob[i].value
    BY <1>a, <2>1, <2>2, NodeType DEF PassedBurnt, TypeOK
  <2> QED
    BY <2>1, <2>3 DEF PassedBurnt, Nodes, IsLock
<1> QED
  BY <1>0, <1>1, <1>2, <1>3, <1>4, <1>5

\* A session comes to its nodes in the order of the blob and writes to none ahead.
LEMMA AheadStep == TypeOK /\ Ahead /\ [Next]_vars => Ahead'
<1> SUFFICES ASSUME TypeOK, Ahead, [Next]_vars, pc' = "nodes" PROVE Ahead'
  BY DEF Ahead
<1>1. CASE BeginBurning
  BY <1>1 DEF BeginBurning, StartSession, memory, Ahead, Nodes
<1>2. CASE NoteSecurityMode \/ NodeBurnt
  <2>1. /\ pc = "nodes" /\ node' = node + 1 /\ UNCHANGED << blob, local >>
        /\ \A i \in Nodes : i # node => data'[i] = data[i]
    BY <1>2 DEF NoteSecurityMode, NodeBurnt, WriteNode, AtNode, memory, TypeOK
  <2>2. \A i \in Nodes : i >= node + 1 => i >= node /\ i # node
    BY NodeType DEF TypeOK
  <2> QED
    BY <2>1, <2>2 DEF Ahead, Nodes
<1>3. CASE UNCHANGED vars
  BY <1>3 DEF vars, memory, session, Ahead, Nodes
<1>4. BeginBurning \/ NoteSecurityMode \/ NodeBurnt \/ UNCHANGED vars
  BY DEF Next, SessionStep, LoadBlob, LoadGarbage, TooHotOrCold, NoMagic, NotParsed,
         NotProduction, NodeNotBurnt, VerifyFails, FinishWithoutLock, VerifyPasses, H2Burnt,
         LockBurnt, LockingFails, PowerLoss, Return
<1> QED
  BY <1>1, <1>2, <1>3, <1>4

\* No session on a promised blob as loaded comes to a step that cannot succeed:
\* what it has passed is burnt, what is ahead is the blob's, and neither clears a bit.
LEMMA SessionsCanSucceed ==
    ASSUME IInv, Promised, OnLoadedBlob
    PROVE  ~Hopeless
<1> USE DEF IInv
<1>1. \A i \in Nodes : local[i] = blob[i].value
  BY DEF OnLoadedBlob, Values, Nodes
<1>2. Coverable(blob)
  BY DEF CanGoOn
<1>3. ASSUME AtNode, blob[node].fuse # "SECURITY_MODE"
      PROVE  Burnable(blob[node].fuse, data[node])
  <2>1. node \in Nodes /\ pc = "nodes" /\ node >= node
    BY <1>3 DEF AtNode, TypeOK
  <2>2. data[node] = blob[node].value
    BY <1>1, <2>1 DEF Ahead
  <2>3. store[blob[node].fuse] \subseteq blob[node].value
    BY <1>2, <2>1 DEF Coverable, Nodes
  <2> QED
    BY <2>1, <2>2, <2>3, NodeSpares, BurnableIff
<1>4. pc = "nodes" /\ node \notin Nodes => Verified
  BY <1>1, PastNodes DEF PassedBurnt, Verified, IsLock
<1>5. pc = "h2" => Burnable("H2", EccCode(store))
  <2>1. ASSUME pc = "h2" PROVE store["H2"] \subseteq EccCode(store)
    <3>1. EccCode(store) = EccCode(Target(blob)) /\ Locks(blob)
      BY <2>1, H2Write
    <3> QED
      BY <1>2, <3>1 DEF Coverable
  <2> QED
    BY <2>1, BurnableIff
<1>6. pc = "secmode" => Burnable("SECURITY_MODE", secmdata)
  <2>1. ASSUME pc = "secmode" PROVE store["SECURITY_MODE"] \subseteq secmdata
    <3>1. PICK k \in Nodes : IsLock(k) /\ secmdata = blob[k].value
      BY <2>1 DEF LockNoted
    <3> QED
      BY <1>2, <3>1 DEF Coverable, IsLock, Nodes
  <2> QED
    BY <2>1, BurnableIff
<1> QED
  BY <1>3, <1>4, <1>5, <1>6 DEF Hopeless

---------------------------------------------------------------------------
(* The theorems.                                                           *)

\* The inductive invariant holds in every reachable state: what a session has
\* verified, burnt and noted, and what a blob that can be burnt and burns no boot
\* security mode needs to stay so.
THEOREM Invariance == Spec => []IInv
<1>1. Init => IInv
  <2> SUFFICES ASSUME Init PROVE IInv
    OBVIOUS
  <2>1. TypeOK
    BY InitType
  <2>2. Nodes = {}
    BY DEF Init, Nodes
  <2> QED
    BY <2>1, <2>2 DEF Init, IInv, Underway, LockValueKept, LockNoted, Checked, Overwritten,
                      Ahead, CanGoOn, PassedBurnt, Promised
<1>2. IInv /\ [Next]_vars => IInv'
  BY TypeStep, WalkStep, CheckedStep, OverwrittenStep, AheadStep, CanGoOnStep,
     PassedStep DEF IInv
<1> QED
  BY <1>1, <1>2, PTL DEF Spec

\* A session of burn_fuses that reports success on a blob as it was loaded leaves
\* every fuse of the blob with its value, whatever came before.
THEOREM SuccessIsBurnt == Spec => []LoadedBlobBurnt
<1>1. IInv => LoadedBlobBurnt
  BY DEF IInv, Overwritten, LoadedBlobBurnt
<1> QED
  BY <1>1, Invariance, PTL

\* A blob that could be burnt when it was loaded and burns no boot security mode
\* can still be after any failed session or power loss, and a session on it as loaded
\* comes to no write or comparison that cannot succeed.
THEOREM AlwaysResumable == Spec => []Resumable
<1>1. IInv /\ Promised => Feasible(blob)
  BY FeasibleIff DEF IInv, CanGoOn, Promised
<1>2. IInv => Resumable
  BY <1>1, SessionsCanSucceed DEF IInv, Promised, Resumable
<1> QED
  BY <1>2, Invariance, PTL

\* No session burns a bit of the security mode before every other fuse of the
\* blob is burnt and H2 holds the code of the macro.
THEOREM LocksLast == Spec => LockedLast
<1> DEFINE Lockable ==
      /\ OnLoadedBlob =>
            \A i \in Nodes : blob[i].fuse \notin {"SECURITY_MODE", "H2"} =>
                store[blob[i].fuse] = blob[i].value
      /\ store["H2"] = EccCode(store)
<1>1. IInv /\ [Next]_vars =>
          [store'["SECURITY_MODE"] # store["SECURITY_MODE"] => Lockable]_vars
  <2> SUFFICES ASSUME IInv, Next, store'["SECURITY_MODE"] # store["SECURITY_MODE"]
               PROVE  Lockable
    OBVIOUS
  <2>1. ASSUME pc = "secmode" PROVE Lockable
    <3>1. OnLoadedBlob => \A i \in Nodes : local[i] = blob[i].value
      BY DEF OnLoadedBlob, Values, Nodes
    <3> QED
      BY <2>1, <3>1 DEF IInv, Checked
  <2>2. ASSUME NEW f \in Fuses \ {"SECURITY_MODE"}, NEW v,
               WriteSucceeds(f, v) \/ WriteRefused(f, v) \/ WriteFails(f, v)
        PROVE  FALSE
    <3>1. "SECURITY_MODE" \in Fuses
      BY FuseBurnAssumption
    <3> QED
      BY <2>2, <3>1 DEF WriteSucceeds, WriteRefused, WriteFails, IInv, TypeOK
  <2>3. AtNode /\ blob[node].fuse # "SECURITY_MODE" =>
            blob[node].fuse \in Fuses \ {"SECURITY_MODE"}
    BY NodeType DEF AtNode, IInv
  <2>4. "H2" \in Fuses \ {"SECURITY_MODE"}
    BY FuseBurnAssumption
  <2>5. CASE NodeBurnt \/ NodeNotBurnt
    BY <2>2, <2>3, <2>5 DEF NodeBurnt, NodeNotBurnt, NodeRefused, NodeFails, NodeUntouched,
                            WriteNode
  <2>6. CASE H2Burnt \/ LockBurnt \/ LockingFails
    BY <2>1, <2>2, <2>4, <2>6 DEF H2Burnt, LockBurnt, LockingFails
  <2>7. CASE PowerLoss
    BY <2>1, <2>2, <2>3, <2>4, <2>7 DEF PowerLoss, InterruptedWrite
  <2>8. CASE \/ \E b \in Blobs : LoadBlob(b)
             \/ \E m \in BOOLEAN : LoadGarbage(m)
             \/ TooHotOrCold \/ NoMagic \/ NotParsed \/ NotProduction \/ BeginBurning
             \/ NoteSecurityMode \/ VerifyFails \/ FinishWithoutLock \/ VerifyPasses
    BY <2>8 DEF LoadBlob, LoadGarbage, TooHotOrCold, NoMagic, NotParsed, NotProduction,
                BeginBurning, StartSession, NoteSecurityMode, VerifyFails,
                FinishWithoutLock, VerifyPasses
  <2> QED
    BY <2>5, <2>6, <2>7, <2>8 DEF Next, SessionStep
<1> QED
  BY <1>1, Invariance, PTL DEF LockedLast, Spec

===============================================================================
